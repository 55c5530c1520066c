----------------------- MODULE ProviderSettings_proofs -----------------------
(***************************************************************************)
(* Proofs about ProviderSettings, for every set of providers, models and   *)
(* sessions and any number of keys and commands: keys stay with the        *)
(* provider they were entered for, the keyring is read once, and no        *)
(* other session's runner changes.                                         *)
(***************************************************************************)
EXTENDS ProviderSettings, SequenceTheorems, TLAPS

-----------------------------------------------------------------------------
(* Shapes, and what a key may be used for.  These operators take the record  *)
(* of the keys entered and of the custom providers minted so far as e, so    *)
(* that they can be used of both ends of a step.                             *)

Metas == (Ids \cup {"community", "none"}) \X (Models \cup {"none"})
Profiles == [id : Ids, model : Models, meta : Metas]
Runners == [id : Ids \cup {"none"}, model : Models \cup {"none"}, meta : Metas, key : Nat]
Runtimes == [loaded : BOOLEAN, runner : Runners, window : Metas, attempted : BOOLEAN]
KeyStores ==
  [ring : [Ids -> Nat], cache : [Ids -> Nat], known : SUBSET Ids, reads : [Ids -> Nat]]

Books == [entered : Seq(Ids), minted : UNION {[C -> Nat] : C \in SUBSET Customs}]
book == [entered |-> entered, minted |-> minted]

\* The key is none, one that was entered for the provider, or the template's
\* key that the custom provider began with.
Owned(e, id, key) ==
  /\ key \in 0 .. Len(e.entered)
  /\ key # 0 => \/ e.entered[key] = id
                \/ id \in DOMAIN e.minted /\ key = e.minted[id] /\ e.entered[key] = Family

\* The record e2 takes no key away from a provider that has it by e.
Extends(e, e2) ==
  e2 \in Books /\ \A id, key : Owned(e, id, key) => Owned(e2, id, key)

KeysIn(e, k) ==
  /\ k \in KeyStores
  /\ \A i \in Ids : Owned(e, i, k.ring[i]) /\ Owned(e, i, k.cache[i])
  /\ \A i \in Ids : k.reads[i] <= 1 /\ (i \notin k.known => k.reads[i] = 0)

SecretIn(e, p, sec) ==
  /\ sec \in [id : Ids \cup {"none"}, key : Nat]
  /\ Owned(e, sec.id, sec.key)
  /\ sec.key # 0 => sec.id = p.id

RunnerIn(e, r) == r \in Runners /\ Owned(e, r.id, r.key)

RuntimesIn(e, r) ==
  r \in [Sessions -> Runtimes] /\ \A s \in Sessions : RunnerIn(e, r[s].runner)

Disks == [provider : Profiles, saved : Seq(Profiles)]

\* The inductive invariant.  What is on disk, in the keyring and in the cache
\* is used by later steps, so it must satisfy what the runners do.
IInv ==
  /\ book \in Books
  /\ provider \in Profiles
  /\ saved \in Seq(Profiles)
  /\ disk \in Disks
  /\ KeysIn(book, keys)
  /\ SecretIn(book, provider, secret)
  /\ current \in Sessions
  /\ RuntimesIn(book, runtimes)

-----------------------------------------------------------------------------
(* Profiles *)

\* Stamping and the other ways to a profile give a profile of the same provider.
LEMMA StampedProfile ==
  ASSUME NEW p \in Profiles, NEW stored
  PROVE  /\ StampedFrom(stored, p) \in Profiles
         /\ StampedFrom(stored, p).id = p.id
         /\ StampedFrom(stored, p).model = p.model
<1>1. \A m \in Metas : [p EXCEPT !.meta = m] \in Profiles
  BY DEF Profiles
<1>2. <<p.id, p.model>> \in Metas /\ <<"community", p.model>> \in Metas /\ NoMeta \in Metas
  BY DEF Profiles, Metas, NoMeta
<1> QED
  BY <1>1, <1>2 DEF StampedFrom, Profiles

LEMMA NewProfile ==
  ASSUME NEW id \in Ids, NEW model \in Models
  PROVE  Profile(id, model) \in Profiles /\ Profile(id, model).id = id
BY DEF Profile, Profiles, Metas, NoMeta

LEMMA WithModel ==
  ASSUME NEW p \in Profiles, NEW model \in Models
  PROVE  [p EXCEPT !.model = model] \in Profiles /\ [p EXCEPT !.model = model].id = p.id
BY DEF Profiles

LEMMA KnownProfileFacts ==
  ASSUME NEW p \in Profiles, NEW all \in Seq(Profiles), NEW id \in Ids
  PROVE  KnownProfile(p, all, id) \in Profiles /\ KnownProfile(p, all, id).id = id
<1>1. \A q \in Range(all) : q \in Profiles
  BY ElementOfSeq DEF Range
<1>2. CASE \E q \in Range(all) : q.id = id
  BY <1>1, <1>2 DEF KnownProfile
<1>3. CASE ~ \E q \in Range(all) : q.id = id
  BY <1>3, NewProfile, SettingsAssumption DEF KnownProfile
<1> QED
  BY <1>2, <1>3

LEMMA SessionProfileFacts ==
  ASSUME NEW s \in Sessions, NEW p \in Profiles, NEW all \in Seq(Profiles)
  PROVE  SessionProfile(s, p, all) \in Profiles
<1>1. CASE Pair[s] = NoPair
  BY <1>1 DEF SessionProfile
<1>2. CASE Pair[s] # NoPair
  <2>1. Pair[s][1] \in Ids /\ Pair[s][2] \in Models
    BY <1>2, SettingsAssumption
  <2>2. [KnownProfile(p, all, Pair[s][1]) EXCEPT !.model = Pair[s][2]] \in Profiles
    BY <2>1, KnownProfileFacts, WithModel
  <2> QED
    BY <1>2, <2>2 DEF SessionProfile
<1> QED
  BY <1>1, <1>2

\* What is written to disk, and the list of saved profiles after a change.
LEMMA WrittenFacts ==
  ASSUME NEW p \in Profiles, NEW all \in Seq(Profiles)
  PROVE  Written(p, all) \in Disks
<1>1. \A q \in Profiles : Bare(q) \in Profiles
  BY DEF Bare, Profiles, Metas, NoMeta
<1>2. all \in [1 .. Len(all) -> Profiles] /\ Len(all) \in Nat /\ DOMAIN all = 1 .. Len(all)
  BY LenProperties, ElementOfSeq
<1>3. [i \in DOMAIN all |-> Bare(all[i])] \in [1 .. Len(all) -> Profiles]
  BY <1>1, <1>2
<1>4. [i \in DOMAIN all |-> Bare(all[i])] \in Seq(Profiles)
  BY <1>2, <1>3, SeqDef
<1> QED
  BY <1>1, <1>4 DEF Written, Disks

LEMMA UpsertedFacts ==
  ASSUME NEW p \in Profiles, NEW all \in Seq(Profiles)
  PROVE  Upserted(all, p) \in Seq(Profiles)
<1>1. all \in [1 .. Len(all) -> Profiles] /\ Len(all) \in Nat /\ DOMAIN all = 1 .. Len(all)
  BY LenProperties, ElementOfSeq
<1>2. [i \in DOMAIN all |-> IF all[i].id = p.id THEN p ELSE all[i]]
        \in [1 .. Len(all) -> Profiles]
  BY <1>1
<1>3. [i \in DOMAIN all |-> IF all[i].id = p.id THEN p ELSE all[i]] \in Seq(Profiles)
  BY <1>1, <1>2, SeqDef
<1>4. Append(all, p) \in Seq(Profiles)
  BY AppendProperties
<1> QED
  BY <1>3, <1>4 DEF Upserted

LEMMA WithoutFacts ==
  ASSUME NEW all \in Seq(Profiles), NEW i \in DOMAIN all
  PROVE  RemoveAt(all, i) \in Seq(Profiles)
<1>1. Len(all) \in Nat /\ i \in 1 .. Len(all)
  BY LenProperties
<1>2. SubSeq(all, 1, i - 1) \in Seq(Profiles) /\ SubSeq(all, i + 1, Len(all)) \in Seq(Profiles)
  BY <1>1, SubSeqProperties
<1> QED
  BY <1>2, ConcatProperties DEF RemoveAt

-----------------------------------------------------------------------------
(* Keys *)

\* Keys entered later change nothing for those entered before.
LEMMA OwnedStays ==
  ASSUME NEW e \in Books, NEW e2, NEW new \in Ids,
         e2 = [entered |-> Append(e.entered, new), minted |-> e.minted]
  PROVE  Extends(e, e2)
<1>1. /\ Len(e.entered) \in Nat /\ Len(e2.entered) = Len(e.entered) + 1
      /\ e2.entered \in Seq(Ids) /\ e2 \in Books /\ e2.minted = e.minted
  BY AppendProperties, LenProperties DEF Books
<1>2. \A n \in 1 .. Len(e.entered) : e2.entered[n] = e.entered[n]
  BY AppendProperties DEF Books
<1>3. ASSUME NEW id, NEW key, Owned(e, id, key)
      PROVE  Owned(e2, id, key)
  BY <1>1, <1>2, <1>3 DEF Owned
<1> QED
  BY <1>1, <1>3 DEF Extends

\* Nor does another custom provider.
LEMMA MintedStays ==
  ASSUME NEW e \in Books, NEW e2, NEW new \in Customs \ DOMAIN e.minted, NEW first \in Nat,
         e2 = [entered |-> e.entered,
               minted |-> [i \in DOMAIN e.minted \cup {new} |->
                             IF i = new THEN first ELSE e.minted[i]]]
  PROVE  Extends(e, e2)
<1>1. PICK C \in SUBSET Customs : e.minted \in [C -> Nat]
  BY DEF Books
<1>2. e2.minted \in [C \cup {new} -> Nat] /\ C \cup {new} \in SUBSET Customs
  BY <1>1
<1>3. e2 \in Books
  BY <1>2 DEF Books
<1>4. ASSUME NEW id, NEW key, Owned(e, id, key)
      PROVE  Owned(e2, id, key)
  BY <1>1, <1>4 DEF Owned
<1> QED
  BY <1>3, <1>4 DEF Extends

\* A longer record is as good as the shorter one.
LEMMA ExtendsFacts ==
  ASSUME NEW e, NEW e2, Extends(e, e2), NEW k, KeysIn(e, k)
  PROVE  KeysIn(e2, k)
BY DEF Extends, KeysIn

LEMMA ExtendsSecret ==
  ASSUME NEW e, NEW e2, Extends(e, e2), NEW p, NEW sec, SecretIn(e, p, sec)
  PROVE  SecretIn(e2, p, sec)
BY DEF Extends, SecretIn

LEMMA ExtendsRuntimes ==
  ASSUME NEW e, NEW e2, Extends(e, e2), NEW r, RuntimesIn(e, r)
  PROVE  RuntimesIn(e2, r)
BY DEF Extends, RuntimesIn, RunnerIn

\* A key that belongs to a provider is a number, and none belongs to all.
LEMMA OwnedIsNat ==
  ASSUME NEW e \in Books, NEW id, NEW key, Owned(e, id, key)
  PROVE  key \in Nat
BY LenProperties DEF Owned, Books

LEMMA NoneOwned ==
  ASSUME NEW e \in Books, NEW id
  PROVE  Owned(e, id, 0)
BY LenProperties DEF Owned, Books

\* api_key_cached keeps every key where it belongs and reads the keyring only
\* for a provider it has not read before.
LEMMA LookedFacts ==
  ASSUME NEW e \in Books, NEW k, KeysIn(e, k), NEW id \in Ids, NEW k2 \in Looked(k, id)
  PROVE  KeysIn(e, k2)
<1>1. CASE id \in k.known
  BY <1>1 DEF Looked
<1>2. CASE id \notin k.known
  <2>1. PICK found \in {k.ring[id], 0} :
          k2 = [k EXCEPT !.cache[id] = found, !.reads[id] = @ + 1, !.known = @ \cup {id}]
    BY <1>2 DEF Looked
  <2>2. k \in KeyStores
    BY DEF KeysIn
  <2>3. Owned(e, id, found) /\ found \in Nat
    BY NoneOwned, <2>2 DEF KeysIn, KeyStores
  <2>4. k2 = [ring |-> k.ring, cache |-> [k.cache EXCEPT ![id] = found],
              known |-> k.known \cup {id}, reads |-> [k.reads EXCEPT ![id] = @ + 1]]
    BY <2>1, <2>2 DEF KeyStores
  <2>5. /\ k2.ring = k.ring
        /\ k2.cache = [k.cache EXCEPT ![id] = found]
        /\ k2.reads = [k.reads EXCEPT ![id] = @ + 1]
        /\ k2.known = k.known \cup {id}
    BY <2>4
  <2>6. /\ [k.cache EXCEPT ![id] = found] \in [Ids -> Nat]
        /\ [k.reads EXCEPT ![id] = @ + 1] \in [Ids -> Nat]
        /\ k.ring \in [Ids -> Nat] /\ k.known \cup {id} \in SUBSET Ids
    BY <2>2, <2>3 DEF KeyStores
  <2>7. k2 \in KeyStores
    BY <2>4, <2>6 DEF KeyStores
  <2>8. \A i \in Ids : Owned(e, i, k2.ring[i]) /\ Owned(e, i, k2.cache[i])
    BY <2>2, <2>3, <2>5 DEF KeysIn, KeyStores
  <2>9. \A i \in Ids : k2.reads[i] <= 1 /\ (i \notin k2.known => k2.reads[i] = 0)
    BY <1>2, <2>2, <2>5 DEF KeysIn, KeyStores
  <2> QED
    BY <2>7, <2>8, <2>9 DEF KeysIn
<1> QED
  BY <1>1, <1>2

LEMMA StoredKeyFacts ==
  ASSUME NEW e \in Books, NEW k, KeysIn(e, k), NEW id \in Ids, NEW key,
         Owned(e, id, key), NEW k2 \in StoredKey(k, id, key)
  PROVE  KeysIn(e, k2)
<1>1. PICK kept \in {key, k.ring[id]} :
        k2 = [k EXCEPT !.cache[id] = key, !.known = @ \cup {id}, !.ring[id] = kept]
  BY DEF StoredKey
<1>2. k \in KeyStores
  BY DEF KeysIn
<1>3. key \in Nat /\ kept \in Nat /\ Owned(e, id, kept)
  <2>1. Owned(e, id, kept)
    BY <1>1 DEF KeysIn
  <2> QED
    BY <2>1, OwnedIsNat
<1>4. /\ k2 \in KeyStores /\ k2.reads = k.reads
      /\ k2.ring = [k.ring EXCEPT ![id] = kept]
      /\ k2.cache = [k.cache EXCEPT ![id] = key]
      /\ k2.known = k.known \cup {id}
  BY <1>1, <1>2, <1>3 DEF KeyStores
<1>5. \A i \in Ids : Owned(e, i, k2.ring[i]) /\ Owned(e, i, k2.cache[i])
  BY <1>2, <1>3, <1>4 DEF KeysIn, KeyStores
<1>6. \A i \in Ids : k2.reads[i] <= 1 /\ (i \notin k2.known => k2.reads[i] = 0)
  BY <1>2, <1>4 DEF KeysIn
<1> QED
  BY <1>4, <1>5, <1>6 DEF KeysIn

\* promote_cached_family_key gives a custom provider a key entered for the
\* template, and the provider is minted with it.
LEMMA PromotedFacts ==
  ASSUME NEW e \in Books, NEW k, KeysIn(e, k), NEW id \in Customs \ DOMAIN e.minted,
         NEW own \in Promoted(k, id), NEW e2,
         e2 = [entered |-> e.entered,
               minted |-> [i \in DOMAIN e.minted \cup {id} |->
                             IF i = id THEN own.cache[id] ELSE e.minted[i]]]
  PROVE  Extends(e, e2) /\ KeysIn(e2, own)
<1>1. /\ Family \in Ids /\ Family \notin Customs /\ id \in Ids
      /\ DOMAIN e.minted \subseteq Customs
  BY SettingsAssumption DEF Books
<1>2. CASE own = k
  <2>1. own.cache[id] \in Nat
    BY <1>1, <1>2 DEF KeysIn, KeyStores
  <2>2. Extends(e, e2)
    BY <2>1, MintedStays
  <2> QED
    BY <1>2, <2>2, ExtendsFacts
<1>3. CASE own \in StoredKey(k, id, k.cache[Family])
  <2>1. k.cache[Family] \in Nat /\ Owned(e, Family, k.cache[Family]) /\ k \in KeyStores
    BY <1>1 DEF KeysIn, KeyStores
  <2>2. own.cache[id] = k.cache[Family]
    <3>1. PICK kept \in {k.cache[Family], k.ring[id]} :
            own = [k EXCEPT !.cache[id] = k.cache[Family], !.known = @ \cup {id}, !.ring[id] = kept]
      BY <1>3 DEF StoredKey
    <3>2. own.cache = [k.cache EXCEPT ![id] = k.cache[Family]]
      BY <2>1, <3>1 DEF KeyStores
    <3> QED
      BY <1>1, <2>1, <3>2 DEF KeyStores
  <2>3. Extends(e, e2)
    BY <2>1, <2>2, MintedStays
  <2>4. Owned(e2, id, k.cache[Family])
    <3>1. k.cache[Family] # 0 => e.entered[k.cache[Family]] = Family
      BY <1>1, <2>1 DEF Owned
    <3> QED
      BY <2>1, <2>2, <3>1 DEF Owned
  <2>5. KeysIn(e2, k)
    BY <2>3, ExtendsFacts
  <2>6. e2 \in Books
    BY <2>3 DEF Extends
  <2> QED
    BY <1>1, <1>3, <2>3, <2>4, <2>5, <2>6, StoredKeyFacts
<1> QED
  BY <1>2, <1>3 DEF Promoted

\* The keys read when a session's runtime is built, and when the program starts.
LEMMA UnlockedFacts ==
  ASSUME NEW e \in Books, NEW k, KeysIn(e, k), NEW s \in Sessions,
         NEW p \in Profiles, NEW all \in Seq(Profiles), NEW k2 \in Unlocked(k, s, p, all)
  PROVE  KeysIn(e, k2)
<1>1. SessionProfile(s, p, all).id \in Ids
  BY SessionProfileFacts DEF Profiles
<1> QED
  BY <1>1, LookedFacts DEF Unlocked

LEMMA OpenedFacts ==
  ASSUME NEW e \in Books, NEW ring \in [Ids -> Nat],
         \A i \in Ids : Owned(e, i, ring[i]),
         NEW p \in Profiles, NEW all \in Seq(Profiles), NEW s \in Sessions,
         NEW k2 \in Opened(ring, p, all, s)
  PROVE  KeysIn(e, k2)
<1>1. KeysIn(e, NoKeys(ring))
  BY NoneOwned DEF KeysIn, NoKeys, KeyStores
<1>2. PICK k \in Looked(NoKeys(ring), p.id) : k2 \in Unlocked(k, s, p, all)
  BY DEF Opened
<1>3. KeysIn(e, k)
  BY <1>1, <1>2, LookedFacts DEF Profiles
<1> QED
  BY <1>2, <1>3, UnlockedFacts

\* The secret taken from the cache belongs to the provider it was taken for.
LEMMA SecretFacts ==
  ASSUME NEW e \in Books, NEW k, KeysIn(e, k), NEW p, p.id \in Ids
  PROVE  SecretIn(e, p, Secret(p.id, k))
<1>1. k.cache[p.id] \in Nat /\ Owned(e, p.id, k.cache[p.id])
  BY DEF KeysIn, KeyStores
<1> QED
  BY <1>1 DEF SecretIn, Secret, Owned

-----------------------------------------------------------------------------
(* Runners *)

\* A runner with a key of its profile's provider is a good one.
LEMMA RunnerFacts ==
  ASSUME NEW e \in Books, NEW p \in Profiles, NEW key \in Nat, Owned(e, p.id, key)
  PROVE  RunnerIn(e, Runner(p, key))
<1>1. CASE key = 0
  BY <1>1, NoneOwned DEF RunnerIn, Runner, NoRunner, Runners, NoMeta, Metas
<1>2. CASE key # 0
  BY <1>2 DEF RunnerIn, Runner, Runners, Profiles
<1> QED
  BY <1>1, <1>2

\* The key a runner is rebuilt with is that of its own provider.
LEMMA RunnerOfSecret ==
  ASSUME NEW e \in Books, NEW p \in Profiles, NEW sec, SecretIn(e, p, sec)
  PROVE  RunnerIn(e, Runner(p, sec.key))
<1>1. sec.key \in Nat /\ Owned(e, p.id, sec.key)
  BY NoneOwned DEF SecretIn
<1> QED
  BY <1>1, RunnerFacts

\* What a runtime starts as: nothing, or a runner with its own provider's key.
LEMMA UnloadedFacts ==
  ASSUME NEW e \in Books
  PROVE  Unloaded \in Runtimes /\ RunnerIn(e, Unloaded.runner)
<1>1. RunnerIn(e, NoRunner)
  BY NoneOwned DEF RunnerIn, NoRunner, Runners, NoMeta, Metas
<1> QED
  BY <1>1 DEF Unloaded, Runtimes, RunnerIn, NoMeta, Metas

LEMMA BuiltFacts ==
  ASSUME NEW e \in Books, NEW s \in Sessions, NEW p \in Profiles,
         NEW all \in Seq(Profiles), NEW k, KeysIn(e, k), NEW sec, SecretIn(e, p, sec)
  PROVE  /\ Built(s, p, all, sec, k) \in Runtimes
         /\ RunnerIn(e, Built(s, p, all, sec, k).runner)
<1> DEFINE own == SessionProfile(s, p, all)
           key == IF sec.id = own.id THEN sec.key ELSE k.cache[own.id]
<1>1. own \in Profiles
  BY SessionProfileFacts
<1>2. own.id \in Ids /\ own.meta \in Metas
  BY <1>1 DEF Profiles
<1>3. key \in Nat /\ Owned(e, own.id, key)
  BY <1>2 DEF SecretIn, KeysIn, KeyStores
<1>4. RunnerIn(e, Runner(own, key))
  BY <1>1, <1>3, RunnerFacts
<1>5. Built(s, p, all, sec, k) =
        [loaded |-> TRUE, runner |-> Runner(own, key), window |-> own.meta, attempted |-> FALSE]
  BY DEF Built
<1> QED
  BY <1>2, <1>4, <1>5 DEF Runtimes, RunnerIn

\* Metadata does not touch a runner's provider or key.
LEMMA PatchedFacts ==
  ASSUME NEW e \in Books, NEW r, RunnerIn(e, r), NEW p \in Profiles
  PROVE  RunnerIn(e, Patched(r, p))
BY DEF RunnerIn, Patched, Runners, Profiles

\* One runtime gets another runner, another window, or both.
LEMMA ReplacedFacts ==
  ASSUME NEW e \in Books, NEW r, RuntimesIn(e, r), NEW c \in Sessions,
         NEW runner, RunnerIn(e, runner), NEW window \in Metas
  PROVE  /\ RuntimesIn(e, [r EXCEPT ![c].runner = runner, ![c].window = window])
         /\ RuntimesIn(e, [r EXCEPT ![c].runner = runner])
         /\ RuntimesIn(e, [r EXCEPT ![c].window = window])
<1>1. r \in [Sessions -> Runtimes] /\ runner \in Runners
  BY DEF RuntimesIn, RunnerIn
<1>2. /\ [r[c] EXCEPT !.runner = runner] \in Runtimes
      /\ [r[c] EXCEPT !.window = window] \in Runtimes
      /\ [[r[c] EXCEPT !.runner = runner] EXCEPT !.window = window] \in Runtimes
      /\ [r[c] EXCEPT !.runner = runner].runner = runner
      /\ [r[c] EXCEPT !.window = window].runner = r[c].runner
      /\ [[r[c] EXCEPT !.runner = runner] EXCEPT !.window = window].runner = runner
  BY <1>1 DEF Runtimes
<1>3. RuntimesIn(e, [r EXCEPT ![c].runner = runner])
  BY <1>1, <1>2 DEF RuntimesIn
<1>4. RuntimesIn(e, [r EXCEPT ![c].window = window])
  BY <1>1, <1>2 DEF RuntimesIn
<1>5. RuntimesIn(e, [r EXCEPT ![c].runner = runner, ![c].window = window])
  BY <1>1, <1>2 DEF RuntimesIn
<1> QED
  BY <1>3, <1>4, <1>5

-----------------------------------------------------------------------------
(* The steps *)

\* The invariant holds at the start.
LEMMA InitIInv == Init => IInv
<1> SUFFICES ASSUME Init PROVE IInv
  OBVIOUS
<1>1. book \in Books /\ current \in Sessions
  <2>1. << >> \in [{} -> Nat] /\ {} \in SUBSET Customs /\ << >> \in Seq(Ids)
    OBVIOUS
  <2>2. minted \in UNION {[C -> Nat] : C \in SUBSET Customs}
    BY <2>1 DEF Init
  <2>3. entered \in Seq(Ids) /\ current \in Sessions
    BY <2>1 DEF Init
  <2> QED
    BY <2>2, <2>3 DEF book, Books
<1>2. provider \in Profiles /\ provider.id = Default /\ Default \in Ids
  BY NewProfile, SettingsAssumption DEF Init
<1>3. saved \in Seq(Profiles) /\ disk \in Disks
  <2>1. << >> \in Seq(Profiles) /\ saved = Append(<< >>, provider)
    BY DEF Init
  <2>2. saved \in Seq(Profiles)
    BY <1>2, <2>1, AppendProperties
  <2> QED
    BY <1>2, <2>2, WrittenFacts DEF Init
<1>4. KeysIn(book, keys)
  <2> DEFINE ring == [i \in Ids |-> 0]
  <2>1. ring \in [Ids -> Nat] /\ \A i \in Ids : Owned(book, i, ring[i])
    BY <1>1, NoneOwned
  <2>2. keys \in Opened(ring, provider, saved, current)
    BY DEF Init
  <2> HIDE DEF ring
  <2> QED
    BY <1>1, <1>2, <1>3, <2>1, <2>2, OpenedFacts
<1>5. SecretIn(book, provider, secret)
  BY <1>1, <1>2, <1>4, SecretFacts DEF Init
<1>6. RuntimesIn(book, runtimes)
  BY <1>1, <1>2, <1>3, <1>4, <1>5, BuiltFacts, UnloadedFacts DEF Init, RuntimesIn
<1> QED
  BY <1>1, <1>2, <1>3, <1>4, <1>5, <1>6 DEF IInv

\* A restart finds on disk and in the keyring what the invariant says of them.
LEMMA RestartIInv == IInv /\ Restart => IInv'
<1> SUFFICES ASSUME IInv, Restart PROVE IInv'
  OBVIOUS
<1>1. book \in Books /\ book' = book /\ current' \in Sessions /\ disk' = disk
  BY DEF IInv, Restart, book
<1>2. disk \in Disks /\ disk.provider \in Profiles /\ disk.saved \in Seq(Profiles)
  BY DEF IInv, Disks
<1>3. provider' \in Profiles /\ provider'.id = disk.provider.id /\ provider'.id \in Ids
  BY <1>2, StampedProfile DEF Restart, Stamped, Profiles
<1>4. KeysIn(book, keys')
  <2>1. keys.ring \in [Ids -> Nat] /\ \A i \in Ids : Owned(book, i, keys.ring[i])
    BY DEF IInv, KeysIn, KeyStores
  <2> QED
    BY <1>1, <1>2, <2>1, OpenedFacts DEF Restart
<1>5. SecretIn(book, provider', secret')
  BY <1>1, <1>3, <1>4, SecretFacts DEF Restart
<1>6. RuntimesIn(book, runtimes')
  BY <1>1, <1>2, <1>3, <1>4, <1>5, BuiltFacts, UnloadedFacts DEF Restart, RuntimesIn
<1> QED
  BY <1>1, <1>2, <1>3, <1>4, <1>5, <1>6 DEF IInv, Restart

\* A new key changes what the earlier ones were entered for in nothing.
LEMMA EnterKeyIInv == \A id \in Ids : IInv /\ EnterKey(id) => IInv'
<1> SUFFICES ASSUME IInv, NEW id \in Ids, EnterKey(id) PROVE IInv'
  OBVIOUS
<1>1. /\ book \in Books /\ entered \in Seq(Ids)
      /\ book' = [entered |-> Append(book.entered, id), minted |-> book.minted]
      /\ UNCHANGED <<provider, saved, disk, secret, current, runtimes>>
  BY DEF IInv, EnterKey, configVars, book, Books
<1>2. Extends(book, book') /\ book' \in Books
  BY <1>1, OwnedStays DEF Extends
<1>3. Owned(book', id, Len(entered'))
  <2>1. entered' = Append(entered, id) /\ book'.entered = entered'
    BY <1>1 DEF book
  <2> QED
    BY <1>1, <2>1, AppendProperties, LenProperties DEF Owned
<1>4. KeysIn(book', keys)
  BY <1>2, ExtendsFacts DEF IInv
<1>5. KeysIn(book', keys')
  BY <1>2, <1>3, <1>4, StoredKeyFacts DEF EnterKey
<1>6. SecretIn(book', provider, secret) /\ RuntimesIn(book', runtimes)
  BY <1>2, ExtendsSecret, ExtendsRuntimes DEF IInv
<1> QED
  BY <1>1, <1>2, <1>5, <1>6 DEF IInv

\* activate_session builds the runtime from the keys of its own profile.
LEMMA ActivateIInv == \A s \in Sessions : IInv /\ Activate(s) => IInv'
<1> SUFFICES ASSUME IInv, NEW s \in Sessions, Activate(s) PROVE IInv'
  OBVIOUS
<1>1. /\ book \in Books /\ current' \in Sessions
      /\ UNCHANGED <<book, provider, saved, disk, secret>>
  BY DEF IInv, Activate, configVars, book
<1>2. KeysIn(book, keys')
  BY UnlockedFacts DEF IInv, Activate
<1>3. RuntimesIn(book, runtimes')
  <2>1. PICK out \in SUBSET (Sessions \ {s, current}) :
          runtimes' = [x \in Sessions |->
                         IF x \in out THEN Unloaded
                         ELSE IF x = s /\ ~ runtimes[s].loaded
                           THEN Built(s, provider, saved, secret, keys')
                         ELSE runtimes[x]]
    BY DEF Activate
  <2>2. /\ Built(s, provider, saved, secret, keys') \in Runtimes
        /\ RunnerIn(book, Built(s, provider, saved, secret, keys').runner)
    BY <1>2, BuiltFacts DEF IInv
  <2>3. Unloaded \in Runtimes /\ RunnerIn(book, Unloaded.runner)
    BY <1>1, UnloadedFacts
  <2> QED
    BY <2>1, <2>2, <2>3 DEF IInv, RuntimesIn
<1> QED
  BY <1>1, <1>2, <1>3 DEF IInv

\* A refused provider may still have had its key read.
LEMMA RefuseIInv == \A id \in Ids : IInv /\ Refuse(id) => IInv'
<1> SUFFICES ASSUME IInv, NEW id \in Ids, Refuse(id) PROVE IInv'
  OBVIOUS
<1>1. UNCHANGED <<book, provider, saved, disk, secret, current, runtimes>>
  BY DEF Refuse, configVars, book
<1>2. KeysIn(book, keys')
  BY LookedFacts DEF IInv, Refuse
<1> QED
  BY <1>1, <1>2 DEF IInv

\* apply_provider_choice_by_id leaves the key of the profile it chose.
LEMMA SetProviderIInv ==
  \A id \in Ids, model \in Models : IInv /\ SetProvider(id, model) => IInv'
<1> SUFFICES ASSUME IInv, NEW id \in Ids, NEW model \in Models, SetProvider(id, model)
             PROVE IInv'
  OBVIOUS
<1> DEFINE chosen == IF id = provider.id THEN provider
                     ELSE Stamped(KnownProfile(provider, saved, id))
           first == IF id = provider.id THEN {disk} ELSE {disk, Written(chosen, saved)}
           other == model # chosen.model
<1>1. /\ book \in Books /\ provider \in Profiles /\ saved \in Seq(Profiles)
      /\ disk \in Disks /\ current \in Sessions /\ RuntimesIn(book, runtimes)
      /\ UNCHANGED <<book, current>>
  BY DEF IInv, SetProvider, book
<1>2. chosen \in Profiles /\ chosen.id = id
  BY <1>1, KnownProfileFacts, StampedProfile DEF Stamped
<1>3. KeysIn(book, keys')
  BY LookedFacts DEF IInv, SetProvider
<1>4. SecretIn(book, chosen, secret')
  BY <1>2, <1>3, SecretFacts DEF IInv, SetProvider
<1>5. first \subseteq Disks
  BY <1>1, <1>2, WrittenFacts
<1>6. provider' = IF other THEN Stamped([chosen EXCEPT !.model = model]) ELSE chosen
  BY DEF SetProvider
<1>7. saved' = IF other THEN Upserted(saved, provider') ELSE saved
  BY DEF SetProvider
<1>8. \/ /\ \/ UNCHANGED runtimes
            \/ Rebuilt(provider', secret'.key)
         /\ disk' \in first \cup IF other THEN {Written(provider', saved')} ELSE {}
      \/ /\ \/ Resized(provider')
            \/ runtimes' = [runtimes EXCEPT ![current].runner = Runner(chosen, secret'.key),
                                            ![current].window = provider'.meta]
         /\ disk' \in first
  BY DEF SetProvider
<1> HIDE DEF chosen, first, other
<1>9. provider' \in Profiles /\ provider'.id = chosen.id /\ provider'.meta \in Metas
  <2>1. provider' \in Profiles /\ provider'.id = chosen.id
    BY <1>2, <1>6, WithModel, StampedProfile DEF Stamped
  <2> QED
    BY <2>1 DEF Profiles
<1>10. saved' \in Seq(Profiles)
  BY <1>1, <1>7, <1>9, UpsertedFacts
<1>11. disk' \in Disks
  BY <1>5, <1>8, <1>9, <1>10, WrittenFacts
<1>12. SecretIn(book, provider', secret')
  BY <1>4, <1>9 DEF SecretIn
<1>13. RuntimesIn(book, runtimes')
  <2>1. /\ RunnerIn(book, Runner(chosen, secret'.key))
        /\ RunnerIn(book, Runner(provider', secret'.key))
    BY <1>1, <1>2, <1>4, <1>9, <1>12, RunnerOfSecret
  <2>2. CASE Rebuilt(provider', secret'.key)
    BY <1>1, <1>9, <2>1, <2>2, ReplacedFacts DEF Rebuilt
  <2>3. CASE Resized(provider')
    BY <1>1, <1>9, <2>1, <2>3, ReplacedFacts DEF Resized
  <2>4. CASE runtimes' = [runtimes EXCEPT ![current].runner = Runner(chosen, secret'.key),
                                          ![current].window = provider'.meta]
    BY <1>1, <1>9, <2>1, <2>4, ReplacedFacts
  <2>5. CASE UNCHANGED runtimes
    BY <1>1, <2>5
  <2> QED
    BY <1>8, <2>2, <2>3, <2>4, <2>5
<1> QED
  BY <1>1, <1>3, <1>9, <1>10, <1>11, <1>12, <1>13 DEF IInv

\* set_provider_config, with a key read for the profile's provider or kept.
LEMMA ConfiguredIInv ==
  ASSUME IInv, NEW p \in Profiles, NEW k, KeysIn(book', k), Extends(book, book'),
         Configured(p, k)
  PROVE  IInv'
<1>1. /\ book' \in Books /\ saved \in Seq(Profiles) /\ disk \in Disks
      /\ current \in Sessions /\ RuntimesIn(book', runtimes)
      /\ SecretIn(book', provider, secret)
      /\ UNCHANGED current
  BY ExtendsSecret, ExtendsRuntimes DEF IInv, Configured, Extends
<1>2. provider' \in Profiles /\ provider'.id = p.id /\ provider'.meta \in Metas
  <2>1. provider' \in Profiles /\ provider'.id = p.id
    BY StampedProfile DEF Configured, Stamped
  <2> QED
    BY <2>1 DEF Profiles
<1>3. saved' \in Seq(Profiles)
  BY <1>1, UpsertedFacts DEF Configured
<1>4. SecretIn(book', provider', secret')
  <2>1. CASE provider.id = p.id /\ secret.id = p.id
    BY <1>1, <1>2, <2>1 DEF Configured, ActiveSecret, SecretIn
  <2>2. CASE ~ (provider.id = p.id /\ secret.id = p.id)
    <3>1. secret' = Secret(provider'.id, k) /\ provider'.id \in Ids
      BY <1>2, <2>2 DEF Configured, ActiveSecret, Profiles
    <3> QED
      BY <1>1, <3>1, SecretFacts
  <2> QED
    BY <2>1, <2>2
<1>5. disk' \in Disks
  BY <1>1, <1>2, <1>3, WrittenFacts DEF Configured, Save
<1>6. RuntimesIn(book', runtimes')
  <2>1. RunnerIn(book', Runner(provider', secret'.key))
    BY <1>1, <1>2, <1>4, RunnerOfSecret
  <2>2. CASE Rebuilt(provider', secret'.key)
    BY <1>1, <1>2, <2>1, <2>2, ReplacedFacts DEF Rebuilt
  <2>3. CASE Resized(provider')
    BY <1>1, <1>2, <2>1, <2>3, ReplacedFacts DEF Resized
  <2> QED
    BY <2>2, <2>3 DEF Configured
<1>7. keys' = k
  BY DEF Configured
<1> QED
  BY <1>1, <1>2, <1>3, <1>4, <1>5, <1>6, <1>7 DEF IInv

\* SetProviderConfig and SetProviderProfile.
LEMMA ConfigureIInv ==
  \A id \in Ids, model \in Models : IInv /\ Configure(id, model) => IInv'
<1> SUFFICES ASSUME IInv, NEW id \in Ids, NEW model \in Models, Configure(id, model)
             PROVE IInv'
  OBVIOUS
<1> DEFINE known == IF provider.id = id THEN provider ELSE KnownProfile(provider, saved, id)
<1>1. PICK p \in {Profile(id, model), [known EXCEPT !.model = model]} :
        \E k \in IF NeedsKey(p) THEN Looked(keys, id) ELSE {keys} : Configured(p, k)
  BY DEF Configure
<1>2. PICK k \in IF NeedsKey(p) THEN Looked(keys, id) ELSE {keys} : Configured(p, k)
  BY <1>1
<1>3. known \in Profiles
  BY KnownProfileFacts DEF IInv
<1> HIDE DEF known
<1>4. p \in Profiles
  BY <1>1, <1>3, NewProfile, WithModel
<1>5. KeysIn(book, k)
  BY <1>2, LookedFacts DEF IInv
<1>6. book' = book /\ Extends(book, book')
  BY <1>2 DEF IInv, Configure, Configured, Extends, book
<1> QED
  BY <1>2, <1>4, <1>5, <1>6, ConfiguredIInv

\* A new custom provider may take the key of the template.
LEMMA CreateCustomIInv ==
  \A id \in Ids, model \in Models : IInv /\ CreateCustom(id, model) => IInv'
<1> SUFFICES ASSUME IInv, NEW id \in Ids, NEW model \in Models, CreateCustom(id, model)
             PROVE IInv'
  OBVIOUS
<1>1. PICK own \in Promoted(keys, id) :
        /\ minted' = [i \in DOMAIN minted \cup {id} |->
                       IF i = id THEN own.cache[id] ELSE minted[i]]
        /\ \E k \in Looked(own, id) : Configured(Profile(id, model), k)
  BY DEF CreateCustom
<1>2. PICK k \in Looked(own, id) : Configured(Profile(id, model), k)
  BY <1>1
<1>3. /\ book' = [entered |-> book.entered,
                  minted |-> [i \in DOMAIN book.minted \cup {id} |->
                                IF i = id THEN own.cache[id] ELSE book.minted[i]]]
      /\ id \in Customs \ DOMAIN book.minted
  BY <1>1, <1>2 DEF CreateCustom, Configured, book
<1>4. Extends(book, book') /\ KeysIn(book', own)
  BY <1>1, <1>3, PromotedFacts DEF IInv
<1>5. KeysIn(book', k)
  BY <1>2, <1>4, LookedFacts DEF Extends
<1> QED
  BY <1>2, <1>4, <1>5, NewProfile, ConfiguredIInv

\* remove_provider takes the key of the provider it falls back to.
LEMMA RemoveProviderIInv == \A id \in Ids : IInv /\ RemoveProvider(id) => IInv'
<1> SUFFICES ASSUME IInv, NEW id \in Ids, RemoveProvider(id) PROVE IInv'
  OBVIOUS
<1>1. /\ book \in Books /\ provider \in Profiles /\ saved \in Seq(Profiles)
      /\ disk \in Disks /\ KeysIn(book, keys) /\ SecretIn(book, provider, secret)
      /\ current \in Sessions /\ RuntimesIn(book, runtimes)
      /\ UNCHANGED <<book, current>>
  BY DEF IInv, RemoveProvider, book
<1>2. saved' \in Seq(Profiles)
  BY <1>1, WithoutFacts DEF RemoveProvider, Saved
<1>3. CASE provider.id # id
  <2>1. UNCHANGED <<provider, keys, secret, runtimes>>
    BY <1>3 DEF RemoveProvider
  <2>2. disk' \in Disks
    BY <1>1, <1>2, <2>1, WrittenFacts DEF RemoveProvider, Save
  <2> QED
    BY <1>1, <1>2, <2>1, <2>2 DEF IInv
<1>4. CASE provider.id = id
  <2>1. /\ provider' = IF saved' = << >> THEN Profile(Default, DefaultModel) ELSE saved'[1]
        /\ keys' \in Looked(keys, provider'.id)
        /\ secret' = Secret(provider'.id, keys')
        /\ \/ /\ runtimes' = [runtimes EXCEPT ![current].runner = Runner(provider', secret'.key)]
              /\ Save
           \/ UNCHANGED <<runtimes, disk>>
    BY <1>4 DEF RemoveProvider
  <2>2. provider' \in Profiles
    <3>1. saved' # << >> => saved'[1] \in Profiles
      BY <1>2, EmptySeq, LenProperties, ElementOfSeq
    <3> QED
      BY <2>1, <3>1, NewProfile, SettingsAssumption
  <2>3. provider'.id \in Ids /\ provider'.meta \in Metas
    BY <2>2 DEF Profiles
  <2>4. KeysIn(book, keys')
    BY <1>1, <2>1, <2>3, LookedFacts
  <2>5. SecretIn(book, provider', secret')
    BY <1>1, <2>1, <2>3, <2>4, SecretFacts
  <2>6. RuntimesIn(book, runtimes')
    <3>1. RunnerIn(book, Runner(provider', secret'.key))
      BY <1>1, <2>2, <2>5, RunnerOfSecret
    <3>2. RuntimesIn(book, [runtimes EXCEPT ![current].runner = Runner(provider', secret'.key)])
      BY <1>1, <2>3, <3>1, ReplacedFacts
    <3> QED
      BY <1>1, <2>1, <3>2
  <2>7. disk' \in Disks
    BY <1>1, <1>2, <2>1, <2>2, WrittenFacts DEF Save
  <2> QED
    BY <1>1, <1>2, <2>2, <2>4, <2>5, <2>6, <2>7 DEF IInv
<1> QED
  BY <1>3, <1>4

\* model_metadata_refreshed, with whatever rows are stored.
LEMMA RefreshedIInv ==
  ASSUME IInv, NEW stored, Refreshed(StampedFrom(stored, provider)),
         UNCHANGED <<saved, disk, secret, keys, entered, minted, current>>
  PROVE  IInv'
<1> DEFINE p == StampedFrom(stored, provider)
           patched == [x \in Sessions |-> [runtimes[x] EXCEPT !.runner = Patched(@, p)]]
<1>1. p \in Profiles /\ p.id = provider.id /\ provider' = p
  BY StampedProfile DEF IInv, Refreshed
<1>2. p.meta \in Metas
  BY <1>1 DEF Profiles
<1>3. runtimes' = [x \in Sessions |->
                     IF x = current
                       THEN [patched[x] EXCEPT !.window = p.meta, !.attempted = TRUE]
                       ELSE patched[x]]
  BY DEF Refreshed
<1>4. runtimes \in [Sessions -> Runtimes] /\ \A x \in Sessions : RunnerIn(book, runtimes[x].runner)
  BY DEF IInv, RuntimesIn
<1> HIDE DEF p
<1>5. ASSUME NEW x \in Sessions
      PROVE  /\ RunnerIn(book, Patched(runtimes[x].runner, p))
             /\ patched[x] \in Runtimes
             /\ patched[x].runner = Patched(runtimes[x].runner, p)
  <2>1. RunnerIn(book, Patched(runtimes[x].runner, p))
    BY <1>1, <1>4, PatchedFacts DEF IInv
  <2>2. Patched(runtimes[x].runner, p) \in Runners
    BY <2>1 DEF RunnerIn
  <2> QED
    BY <1>4, <2>1, <2>2 DEF Runtimes
<1> HIDE DEF patched
<1>6. ASSUME NEW x \in Sessions
      PROVE  runtimes'[x] \in Runtimes /\ runtimes'[x].runner = patched[x].runner
  BY <1>2, <1>3, <1>5 DEF Runtimes
<1>7. runtimes' \in [Sessions -> Runtimes]
  BY <1>3, <1>6
<1>8. RuntimesIn(book, runtimes')
  BY <1>5, <1>6, <1>7 DEF RuntimesIn
<1>9. SecretIn(book, provider', secret)
  BY <1>1 DEF IInv, SecretIn
<1> QED
  BY <1>1, <1>8, <1>9 DEF IInv, book

\* Every step keeps the invariant.
LEMMA NextIInv == IInv /\ [Next]_vars => IInv'
<1> SUFFICES ASSUME IInv, [Next]_vars PROVE IInv'
  OBVIOUS
<1>1. ASSUME NEW id \in Ids,
             EnterKey(id) \/ Refuse(id) \/ RemoveProvider(id) \/ FetchDone(id)
      PROVE  IInv'
  <2>1. CASE EnterKey(id)
    BY <2>1, EnterKeyIInv
  <2>2. CASE Refuse(id)
    BY <2>2, RefuseIInv
  <2>3. CASE RemoveProvider(id)
    BY <2>3, RemoveProviderIInv
  <2>4. CASE FetchDone(id)
    BY <2>4 DEF FetchDone, configVars, keyVars, IInv, book
  <2> QED
    BY <1>1, <2>1, <2>2, <2>3, <2>4
<1>2. ASSUME NEW id \in Ids, NEW model \in Models,
             SetProvider(id, model) \/ Configure(id, model) \/ CreateCustom(id, model)
      PROVE  IInv'
  BY <1>2, SetProviderIInv, ConfigureIInv, CreateCustomIInv
<1>3. ASSUME NEW s \in Sessions, Activate(s)
      PROVE  IInv'
  BY <1>3, ActivateIInv
<1>4. CASE Submit
  BY <1>4 DEF Submit, configVars, keyVars, IInv, book
<1>5. CASE ModelMetadataRefreshed
  BY <1>5, RefreshedIInv DEF ModelMetadataRefreshed, keyVars, Stamped
<1>6. CASE RefreshModels
  BY <1>6, RefreshedIInv DEF RefreshModels, keyVars
<1>7. CASE Restart
  BY <1>7, RestartIInv
<1>8. CASE UNCHANGED vars
  BY <1>8 DEF vars, configVars, keyVars, IInv, book
<1> QED
  BY <1>1, <1>2, <1>3, <1>4, <1>5, <1>6, <1>7, <1>8 DEF Next

-----------------------------------------------------------------------------
(* The theorems *)

\* The shapes of the settings, the keyring, the secret and the runners, and
\* that each key in them belongs to the provider it is stored or used for.
THEOREM InductiveInvariant == Spec => []IInv
<1> QED
  BY InitIInv, NextIInv, PTL DEF Spec

\* Every runner, in every session, has a key that was entered for its provider,
\* or the one template key its custom provider began with (engine.rs
\* set_provider_config, secrets.rs promote_cached_family_key).
THEOREM KeysGoHome == Spec => []KeysStayInFamily
<1>1. ASSUME NEW id, NEW key, Owned(book, id, key)
      PROVE  Owns(id, key)
  BY <1>1 DEF Owned, Owns, book
<1>2. IInv => KeysStayInFamily
  BY <1>1 DEF IInv, SecretIn, RuntimesIn, RunnerIn, KeysStayInFamily
<1> QED
  BY <1>2, InductiveInvariant, PTL

\* The keyring is read at most once for a provider in a process (secrets.rs
\* api_key_cached).
THEOREM ReadOnce == Spec => []KeyringReadOnce
<1>1. IInv => KeyringReadOnce
  BY DEF IInv, KeysIn, KeyringReadOnce
<1> QED
  BY <1>1, InductiveInvariant, PTL

\* set_discovered_meta changes a runner only as its own metadata has it.
LEMMA PatchedOwn ==
  ASSUME NEW stored, NEW p \in Profiles, NEW r \in Runners
  PROVE  \/ Patched(r, StampedFrom(stored, p)) = r
         \/ Patched(r, StampedFrom(stored, p)) = StampedFrom(stored, r)
<1>1. /\ StampedFrom(stored, p).id = p.id /\ StampedFrom(stored, p).model = p.model
  BY StampedProfile
<1>2. CASE r.id = p.id /\ r.model = p.model
  <2>1. Patched(r, StampedFrom(stored, p)) = [r EXCEPT !.meta = StampedFrom(stored, p).meta]
    BY <1>1, <1>2 DEF Patched
  <2>2. StampedFrom(stored, p).meta =
          IF <<p.id, p.model>> \in stored THEN <<p.id, p.model>>
          ELSE IF <<"community", p.model>> \in stored
            THEN <<"community", p.model>> ELSE NoMeta
    BY DEF StampedFrom, Profiles
  <2> QED
    BY <1>2, <2>1, <2>2 DEF StampedFrom
<1>3. CASE ~ (r.id = p.id /\ r.model = p.model)
  BY <1>1, <1>3 DEF Patched
<1> QED
  BY <1>2, <1>3

\* A late fetch and the commands of the current session leave the runners of
\* the others as they are, but for the metadata of their own endpoint and model
\* (runner.rs set_discovered_meta, app.rs rebuild_runner).
THEOREM OthersKept == Spec => ParkedRunnersKept
<1> DEFINE Kept ==
      current' = current =>
        \A s \in Sessions \ {current} : runtimes'[s].loaded =>
          LET was == runtimes[s].runner
              is == runtimes'[s].runner
          IN  is = was \/ is = StampedFrom(rows', was)
<1>1. ASSUME IInv, [Next]_vars, current' = current, NEW s \in Sessions \ {current},
             runtimes'[s].loaded
      PROVE  \/ runtimes'[s].runner = runtimes[s].runner
             \/ runtimes'[s].runner = StampedFrom(rows', runtimes[s].runner)
  <2>0. /\ runtimes \in [Sessions -> Runtimes] /\ runtimes[s].runner \in Runners
        /\ provider \in Profiles /\ current \in Sessions
    BY <1>1 DEF IInv, RuntimesIn, RunnerIn
  <2>1. ASSUME NEW p, NEW key, Rebuilt(p, key) \/ Resized(p)
        PROVE  runtimes'[s] = runtimes[s]
    BY <2>0, <2>1 DEF Rebuilt, Resized
  <2>2. ASSUME NEW id \in Ids,
               EnterKey(id) \/ Refuse(id) \/ RemoveProvider(id) \/ FetchDone(id)
        PROVE  runtimes'[s] = runtimes[s]
    BY <2>0, <2>2 DEF EnterKey, Refuse, RemoveProvider, FetchDone
  <2>3. ASSUME NEW id \in Ids, NEW model \in Models, SetProvider(id, model)
        PROVE  runtimes'[s] = runtimes[s]
    BY <2>0, <2>1, <2>3 DEF SetProvider
  <2>4. ASSUME NEW p, NEW k, Configured(p, k)
        PROVE  runtimes'[s] = runtimes[s]
    BY <2>1, <2>4 DEF Configured
  <2>5. ASSUME NEW id \in Ids, NEW model \in Models,
               Configure(id, model) \/ CreateCustom(id, model)
        PROVE  runtimes'[s] = runtimes[s]
    BY <2>4, <2>5 DEF Configure, CreateCustom
  <2>6. ~ \E x \in Sessions : Activate(x)
    BY <1>1 DEF Activate
  <2>7. CASE Restart
    BY <1>1, <2>7 DEF Restart, Unloaded
  <2>8. ASSUME NEW stored, stored = rows', Refreshed(StampedFrom(stored, provider))
        PROVE  \/ runtimes'[s].runner = runtimes[s].runner
               \/ runtimes'[s].runner = StampedFrom(rows', runtimes[s].runner)
    <3>1. runtimes'[s].runner = Patched(runtimes[s].runner, StampedFrom(stored, provider))
      BY <2>0, <2>8 DEF Refreshed, Runtimes
    <3> QED
      BY <2>0, <2>8, <3>1, PatchedOwn
  <2>9. CASE ModelMetadataRefreshed
    BY <2>8, <2>9 DEF ModelMetadataRefreshed, Stamped
  <2>10. CASE RefreshModels
    BY <2>8, <2>10 DEF RefreshModels
  <2>11. CASE Submit \/ UNCHANGED vars
    BY <2>11 DEF Submit, vars
  <2> QED
    BY <1>1, <2>2, <2>3, <2>5, <2>6, <2>7, <2>9, <2>10, <2>11 DEF Next
<1>2. IInv /\ [Next]_vars => Kept
  BY <1>1
<1>3. IInv /\ [Next]_vars => [Kept]_vars
  BY <1>2
<1> QED
  BY <1>3, InductiveInvariant, PTL DEF Spec, ParkedRunnersKept

=============================================================================
