-------------------------- MODULE ProviderSettings --------------------------
(***************************************************************************)
(* The provider settings (src/service/engine.rs, src/app.rs,               *)
(* src/app/runtime.rs, src/config.rs), the keys they are used with         *)
(* (src/secrets.rs) and the model metadata fetched for them                *)
(* (src/model_meta.rs, src/storage.rs): which profile, key and metadata    *)
(* the runner of each session is built from, and what a new key, another   *)
(* profile or model, a removal, a late fetch, a failed write and a restart *)
(* do to it.                                                               *)
(*                                                                         *)
(* A base URL is identified with the id of its profile and a key is the    *)
(* number of its entry; keys from the environment, names and the other     *)
(* fields of a profile are left out.  Storage and file errors happen at    *)
(* any time.  The response ids these commands clear are in AgentLoop.      *)
(***************************************************************************)
EXTENDS Naturals, Sequences, FiniteSets, SequencesExt

CONSTANTS
  Ids,           \* provider ids
  Customs,       \* the ids that are minted for new custom providers
  Family,        \* the custom template's own id
  Default,       \* the id of the provider used when none is saved
  Models, DefaultModel,
  Described,     \* the models endpoints describe
  Community,     \* the models models.dev describes
  Sessions,
  Pair,          \* the provider and model stored with a session, or NoPair
  NoPair,
  MaxKeys,       \* bound: keys entered in a behaviour
  MaxChanges     \* bound: commands and restarts in a behaviour

ASSUME SettingsAssumption ==
  /\ Customs \subseteq Ids /\ {Family, Default} \subseteq Ids \ Customs
  /\ DefaultModel \in Models /\ Described \cup Community \subseteq Models
  /\ Pair \in [Sessions -> (Ids \X Models) \cup {NoPair}]
  /\ MaxKeys \in Nat /\ MaxChanges \in Nat

VARIABLES
  provider,   \* config.provider, the active profile
  saved,      \* config.providers
  disk,       \* the configuration file
  secret,     \* active_secret: a provider id and its key, 0 for none
  keys,       \* the OS keyring, the process's key cache, the keyring reads
  entered,    \* history: the id each key was entered for
  minted,     \* the custom ids given out so far, each with the key it began with
  current,    \* the active session
  runtimes,   \* of each loaded session: its runner and its context window
  rows,       \* the metadata storage holds
  fetches,    \* the endpoints a metadata fetch is under way for
  notified,   \* is a ModelMetadataRefreshed command queued?
  changes     \* commands and restarts so far

configVars == <<provider, saved, disk>>
keyVars == <<secret, keys, entered, minted>>
metaVars == <<rows, fetches, notified>>
vars == <<configVars, keyVars, metaVars, current, runtimes, changes>>

NoMeta == <<"none", "none">>
Profile(id, model) == [id |-> id, model |-> model, meta |-> NoMeta]
NoRunner == [id |-> "none", model |-> "none", meta |-> NoMeta, key |-> 0]
Unloaded == [loaded |-> FALSE, runner |-> NoRunner, window |-> NoMeta, attempted |-> FALSE]

-----------------------------------------------------------------------------
(* Metadata, keys and runners *)

\* stamp_discovered_meta: the endpoint's own row, else the community's.
StampedFrom(stored, p) ==
  [p EXCEPT !.meta = IF <<p.id, p.model>> \in stored THEN <<p.id, p.model>>
                     ELSE IF <<"community", p.model>> \in stored
                       THEN <<"community", p.model>> ELSE NoMeta]

Stamped(p) == StampedFrom(rows, p)

\* Mutant of Looked: only a key that was found is remembered.
LookedFound(k, id) ==
  IF id \in k.known THEN {k}
  ELSE {[k EXCEPT !.cache[id] = found, !.reads[id] = @ + 1,
                  !.known = IF found = 0 THEN @ ELSE @ \cup {id}] : found \in {k.ring[id], 0}}

\* api_key_cached: what the keyring answers, a missing key and an error too,
\* is remembered.
Looked(k, id) ==
  IF id \in k.known THEN {k}
  ELSE {[k EXCEPT !.cache[id] = found, !.reads[id] = @ + 1, !.known = @ \cup {id}] :
          found \in {k.ring[id], 0}}

\* store_api_key_cached: the cache takes the key also if the keyring does not.
StoredKey(k, id, key) ==
  {[k EXCEPT !.cache[id] = key, !.known = @ \cup {id}, !.ring[id] = kept] :
     kept \in {key, k.ring[id]}}

\* promote_cached_family_key
Promoted(k, id) ==
  IF id = Family \/ id \in k.known \/ k.cache[Family] = 0
    THEN {k} ELSE StoredKey(k, id, k.cache[Family])

Secret(id, k) == [id |-> IF k.cache[id] = 0 THEN "none" ELSE id, key |-> k.cache[id]]

Runner(p, key) ==
  IF key = 0 THEN NoRunner
  ELSE [id |-> p.id, model |-> p.model, meta |-> p.meta, key |-> key]

\* rebuild_runner: only the current session's runner is replaced.
Rebuilt(p, key) == runtimes' = [runtimes EXCEPT ![current].runner = Runner(p, key),
                                                ![current].window = p.meta]

\* The window the session shows changes, its runner does not.
Resized(p) == runtimes' = [runtimes EXCEPT ![current].window = p.meta]

Bare(p) == [p EXCEPT !.meta = NoMeta]
Written(p, all) == [provider |-> Bare(p), saved |-> [i \in DOMAIN all |-> Bare(all[i])]]

\* Config::save: an error is only reported, and metadata is not written.
Save == disk' \in {disk, Written(provider', saved')}

Saved(id) == {i \in DOMAIN saved : saved[i].id = id}

Upserted(all, p) ==
  IF \E i \in DOMAIN all : all[i].id = p.id
    THEN [i \in DOMAIN all |-> IF all[i].id = p.id THEN p ELSE all[i]]
    ELSE Append(all, p)

\* provider_for_id, and the template of a built-in id that is not saved.
KnownProfile(p, all, id) ==
  IF \E q \in Range(all) : q.id = id THEN CHOOSE q \in Range(all) : q.id = id
  ELSE IF p.id = id THEN p ELSE Profile(id, DefaultModel)

\* session_provider_config: a session's own profile, which keeps the metadata
\* of the model saved with it; a removed custom provider is not found.
SessionProfile(s, p, all) ==
  IF Pair[s] = NoPair THEN p
  ELSE LET id == Pair[s][1]
       IN  IF id \in Customs /\ p.id # id /\ \A q \in Range(all) : q.id # id THEN p
           ELSE [KnownProfile(p, all, id) EXCEPT !.model = Pair[s][2]]

\* build_runtime: the key is the active one or whatever is cached.
Built(s, p, all, sec, k) ==
  LET own == SessionProfile(s, p, all)
      key == IF sec.id = own.id THEN sec.key ELSE k.cache[own.id]
  IN  [loaded |-> TRUE, runner |-> Runner(own, key), window |-> own.meta, attempted |-> FALSE]

\* The keys read before the runtime of s is built.
Unlocked(k, s, p, all) ==
  IF Pair[s] = NoPair THEN {k} ELSE Looked(k, SessionProfile(s, p, all).id)

-----------------------------------------------------------------------------
(* Start and restart *)

NoKeys(ring) ==
  [ring |-> ring, cache |-> [i \in Ids |-> 0], known |-> {}, reads |-> [i \in Ids |-> 0]]

\* AppService::start and build_app: the active provider's key and that of the
\* session to restore are read.
Opened(ring, p, all, s) ==
  UNION {Unlocked(k, s, p, all) : k \in Looked(NoKeys(ring), p.id)}

Init ==
  /\ provider = Profile(Default, DefaultModel)
  /\ saved = <<provider>>
  /\ disk = Written(provider, saved)
  /\ current \in Sessions
  /\ keys \in Opened([i \in Ids |-> 0], provider, saved, current)
  /\ secret = Secret(Default, keys)
  /\ entered = << >> /\ minted = << >>
  /\ runtimes = [s \in Sessions |-> IF s = current THEN Built(s, provider, saved, secret, keys)
                                                   ELSE Unloaded]
  /\ rows = {} /\ fetches = {} /\ notified = FALSE
  /\ changes = 0

Change == changes < MaxChanges /\ changes' = changes + 1

Restart ==
  /\ Change
  /\ current' \in Sessions
  /\ provider' = Stamped(disk.provider) /\ saved' = disk.saved
  /\ keys' \in Opened(keys.ring, disk.provider, disk.saved, current')
  /\ secret' = Secret(disk.provider.id, keys')
  /\ runtimes' = [s \in Sessions |->
                    IF s = current' THEN Built(s, provider', saved', secret', keys')
                    ELSE Unloaded]
  /\ fetches' = {} /\ notified' = FALSE
  /\ UNCHANGED <<disk, entered, minted, rows>>

-----------------------------------------------------------------------------
(* Commands *)

\* A client stores the key the user typed, in the process of the engine.
EnterKey(id) ==
  /\ Change /\ Len(entered) < MaxKeys
  /\ id \in Customs => id \in DOMAIN minted
  /\ entered' = Append(entered, id)
  /\ keys' \in StoredKey(keys, id, Len(entered'))
  /\ UNCHANGED <<configVars, secret, minted, metaVars, current, runtimes>>

\* activate_session; making room may unload another session.
Activate(s) ==
  /\ Change
  /\ s # current
  /\ keys' \in Unlocked(keys, s, provider, saved)
  /\ current' = s
  /\ \E out \in SUBSET (Sessions \ {s, current}) :
       runtimes' = [x \in Sessions |->
                      IF x \in out THEN Unloaded
                      ELSE IF x = s /\ ~ runtimes[s].loaded
                        THEN Built(s, provider, saved, secret, keys')
                      ELSE runtimes[x]]
  /\ UNCHANGED <<configVars, secret, entered, minted, metaVars>>

\* spawn_model_metadata_refresh: skipped without a key; rows may be fresh.
Fetching(p, sec) ==
  IF sec.key = 0 THEN fetches' = fetches
  ELSE \/ fetches' = fetches \cup {p.id}
       \/ Stamped(p).meta # NoMeta /\ fetches' = fetches

\* submit_input of a session whose window nothing knows.
Submit ==
  /\ Change
  /\ ~ runtimes[current].attempted /\ runtimes[current].window = NoMeta
  /\ Fetching(provider, secret)
  /\ UNCHANGED <<configVars, keyVars, rows, notified, current, runtimes>>

\* A provider is asked for that has no saved profile or no key, or the response
\* id cannot be cleared: the settings stay.
Refuse(id) ==
  /\ Change
  /\ id # provider.id
  /\ IF Saved(id) = {} THEN keys' = keys ELSE keys' \in Looked(keys, id)
  /\ UNCHANGED <<configVars, secret, entered, minted, metaVars, current, runtimes>>

\* apply_provider_choice_by_id, then apply_model_choice: the first save may
\* reach the disk although the model is not applied or not saved.  Clearing the
\* response id for the new model fails after the settings changed.
SetProvider(id, model) ==
  /\ Change
  /\ id # provider.id => Saved(id) # {}
  /\ keys' \in IF id = provider.id THEN {keys} ELSE Looked(keys, id)
  /\ id # provider.id => keys'.cache[id] # 0
  /\ secret' = IF id = provider.id THEN secret ELSE Secret(id, keys')
  /\ LET chosen == IF id = provider.id THEN provider
                   ELSE Stamped(KnownProfile(provider, saved, id))
         first == IF id = provider.id THEN {disk} ELSE {disk, Written(chosen, saved)}
         other == model # chosen.model
     IN  /\ provider' = IF other THEN Stamped([chosen EXCEPT !.model = model]) ELSE chosen
         /\ saved' = IF other THEN Upserted(saved, provider') ELSE saved
         /\ \/ /\ IF id = provider.id /\ ~ other THEN UNCHANGED runtimes
                                                 ELSE Rebuilt(provider', secret'.key)
               /\ disk' \in first \cup IF other THEN {Written(provider', saved')} ELSE {}
               /\ Fetching(provider', secret')
            \/ /\ other
               /\ IF id = provider.id
                    THEN Resized(provider')
                    ELSE runtimes' = [runtimes EXCEPT
                           ![current].runner = Runner(chosen, secret'.key),
                           ![current].window = provider'.meta]
               /\ disk' \in first
               /\ UNCHANGED fetches
  /\ UNCHANGED <<entered, minted, rows, notified, current>>

\* Mutant of ActiveSecret: the key is looked up only when there is none.
ActiveSecretKept(p, k) == IF secret.key = 0 THEN Secret(p.id, k) ELSE secret

\* set_provider_config keeps the key it has when the profile's id is unchanged.
ActiveSecret(p, k) == IF provider.id = p.id /\ secret.id = p.id THEN secret ELSE Secret(p.id, k)

\* set_provider_config, once the profile is accepted and k holds its key.  The
\* saved copy keeps the metadata p came with.
Configured(p, k) ==
  /\ keys' = k
  /\ secret' = ActiveSecret(p, k)
  /\ provider' = Stamped(p)
  /\ saved' = Upserted(saved, p)
  /\ \/ Rebuilt(provider', secret'.key) /\ Save /\ Fetching(provider', secret')
     \/ Resized(provider') /\ UNCHANGED <<disk, fetches>>
  /\ UNCHANGED <<entered, rows, notified, current>>

NeedsKey(p) == provider.id # p.id \/ secret.id # p.id

\* SetProviderConfig with a profile of the client's, or SetProviderProfile for
\* an id, which starts from what is known of it.
Configure(id, model) ==
  /\ Change
  /\ id \in Customs => id \in DOMAIN minted
  /\ \E p \in {Profile(id, model),
              [(IF provider.id = id THEN provider ELSE KnownProfile(provider, saved, id))
                 EXCEPT !.model = model]} :
       \E k \in IF NeedsKey(p) THEN Looked(keys, id) ELSE {keys} : Configured(p, k)
  /\ UNCHANGED minted

\* SetProviderProfile without an id and with the custom template: the new
\* provider begins with the template's key if one is cached.
CreateCustom(id, model) ==
  /\ Change
  /\ id \in Customs \ DOMAIN minted
  /\ \E own \in Promoted(keys, id) :
       /\ minted' = [i \in DOMAIN minted \cup {id} |->
                      IF i = id THEN own.cache[id] ELSE minted[i]]
       /\ \E k \in Looked(own, id) : Configured(Profile(id, model), k)

\* remove_provider: the next saved profile becomes active as it was saved.  When
\* its runner cannot be built, the old one stays and nothing is saved.
RemoveProvider(id) ==
  /\ Change
  /\ saved' \in IF Saved(id) = {} THEN {saved} ELSE {RemoveAt(saved, i) : i \in Saved(id)}
  /\ IF provider.id # id
       THEN UNCHANGED <<provider, keys, secret, runtimes>> /\ Save
       ELSE /\ provider' = IF saved' = << >> THEN Profile(Default, DefaultModel) ELSE saved'[1]
            /\ keys' \in Looked(keys, provider'.id)
            /\ secret' = Secret(provider'.id, keys')
            /\ \/ /\ runtimes' = [runtimes EXCEPT
                                  ![current].runner = Runner(provider', secret'.key)]
                  /\ Save
               \/ secret'.key # 0 /\ UNCHANGED <<runtimes, disk>>
  /\ UNCHANGED <<entered, minted, metaVars, current>>

-----------------------------------------------------------------------------
(* Metadata *)

\* fetch_and_cache_metadata: each of the two sources may fail.
Fetched(id) ==
  \E own, community \in BOOLEAN :
    rows' = rows \cup (IF own THEN {id} \X Described ELSE {})
                 \cup (IF community THEN {"community"} \X Community ELSE {})

\* Mutant of Patched: set_discovered_meta takes what is found for any provider.
PatchedAny(r, p) == IF r.key # 0 THEN [r EXCEPT !.meta = p.meta] ELSE r

\* set_discovered_meta
Patched(r, p) == IF r.id = p.id /\ r.model = p.model THEN [r EXCEPT !.meta = p.meta] ELSE r

\* model_metadata_refreshed, with p the active profile stamped anew.
Refreshed(p) ==
  /\ provider' = p
  /\ runtimes' = [s \in Sessions |->
       LET r == [runtimes[s] EXCEPT !.runner = Patched(@, p)]
       IN  IF s = current THEN [r EXCEPT !.window = p.meta, !.attempted = TRUE] ELSE r]

\* A fetch ends; its notification is lost if the command channel is full.
FetchDone(id) ==
  /\ id \in fetches
  /\ fetches' = fetches \ {id}
  /\ Fetched(id)
  /\ notified' \in {notified, TRUE}
  /\ UNCHANGED <<configVars, keyVars, current, runtimes, changes>>

ModelMetadataRefreshed ==
  /\ notified
  /\ notified' = FALSE
  /\ Refreshed(Stamped(provider))
  /\ UNCHANGED <<saved, disk, keyVars, rows, fetches, current, changes>>

\* provider_models(refresh): the engine itself fetches and stamps.
RefreshModels ==
  /\ Change
  /\ secret.key # 0
  /\ Fetched(provider.id)
  /\ Refreshed(StampedFrom(rows', provider))
  /\ UNCHANGED <<saved, disk, keyVars, fetches, notified, current>>

-----------------------------------------------------------------------------
Next ==
  \/ \E id \in Ids :
       \/ EnterKey(id) \/ Refuse(id) \/ RemoveProvider(id) \/ FetchDone(id)
       \/ \E model \in Models :
            SetProvider(id, model) \/ Configure(id, model) \/ CreateCustom(id, model)
  \/ \E s \in Sessions : Activate(s)
  \/ Submit \/ ModelMetadataRefreshed \/ RefreshModels \/ Restart

Spec == Init /\ [][Next]_vars

-----------------------------------------------------------------------------
(* Properties *)

\* The key was entered for the provider, or for the custom template while the
\* provider was being created.
Owns(id, key) ==
  key # 0 => \/ entered[key] = id
             \/ id \in DOMAIN minted /\ key = minted[id] /\ entered[key] = Family

\* A key is used with the provider it was entered for and with no other, through
\* switches, edits, removals, restored sessions and restarts, but for one case:
\* a custom provider may use the one key of the template it began with
\* (engine.rs set_provider_config; app.rs apply_provider_choice_by_id;
\* secrets.rs promote_cached_family_key).  The template and every custom
\* provider created meanwhile do share that key, although they have different
\* base URLs: the comments engine.rs:1458 and secrets.rs:405 promise more.
KeysStayInFamily ==
  /\ secret.key # 0 => secret.id = provider.id
  /\ Owns(secret.id, secret.key)
  /\ \A s \in Sessions : Owns(runtimes[s].runner.id, runtimes[s].runner.key)

\* The keyring, which may ask the user, is read at most once for a provider in
\* a process, whether the read succeeded or not (secrets.rs api_key_cached,
\* "reads a provider API key at most once per process").
KeyringReadOnce == \A id \in Ids : keys.reads[id] <= 1

\* What happens in the current session and what a late fetch brings changes the
\* runner of no other session, except that it learns the metadata of its own
\* endpoint and model (runner.rs set_discovered_meta, app.rs rebuild_runner).
ParkedRunnersKept ==
  [][current' = current =>
       \A s \in Sessions \ {current} : runtimes'[s].loaded =>
         LET was == runtimes[s].runner
             is == runtimes'[s].runner
         IN  is = was \/ is = StampedFrom(rows', was)]_vars
=============================================================================
