----------------------------- MODULE SseDecoder -----------------------------
(***************************************************************************)
(* The incremental decoder of server-sent events (SseDecoder in            *)
(* src/provider/openai.rs).  A body is a sequence of line ends and payload *)
(* symbols, one symbol standing for a data line; an empty line ends a      *)
(* frame.  Positions count the bytes before them, as in the code.          *)
(***************************************************************************)
EXTENDS Naturals, Sequences, FiniteSets, SequencesExt, FiniteSetsExt

CONSTANTS
  MaxFrame,   \* max_sse_frame_bytes
  MaxBuffer   \* max_sse_buffer_bytes

ASSUME SseAssumption == MaxFrame \in Nat \ {0} /\ MaxBuffer \in Nat \ {0}

CR == "cr"
LF == "lf"

Fresh == [buffer |-> << >>, scan |-> 0]

Minus(a, b) == IF a < b THEN 0 ELSE a - b
Larger(a, b) == IF a < b THEN b ELSE a

\* What s has at the positions in P, in order.
Kept(s, P) ==
  LET upto[n \in 0 .. Len(s)] ==
        IF n = 0 THEN << >> ELSE IF n \in P THEN Append(upto[n - 1], s[n]) ELSE upto[n - 1]
  IN  upto[Len(s)]

\* The length of the delimiter at position p of b, 0 if there is none.
Delimiter(b, p) ==
  CASE IsPrefix(<<CR, LF, CR, LF>>, SubSeq(b, p + 1, Len(b))) -> 4
    [] IsPrefix(<<LF, LF>>, SubSeq(b, p + 1, Len(b))) -> 2
    [] OTHER -> 0

\* find_event_boundary, again and again: the delimiters found from start on,
\* each search beginning where the delimiter before it ends.
Cuts(b, start) ==
  LET from[p \in 0 .. Len(b)] ==
        LET found == {q \in p .. Len(b) : Delimiter(b, q) > 0}
        IN  IF found = {} THEN << >>
            ELSE LET at == Min(found)
                     end == at + Delimiter(b, at)
                 IN  <<[at |-> at, end |-> end]>> \o from[end]
  IN  from[start]

\* The frames the delimiters in cuts separate, not counting the rest.
Split(b, cuts) ==
  [k \in DOMAIN cuts |->
     SubSeq(b, IF k = 1 THEN 1 ELSE cuts[k - 1].end + 1, cuts[k].at)]

\* parse_sse_frame: the data lines of a frame.
Payload(frame) == Kept(frame, {j \in DOMAIN frame : frame[j] \notin {CR, LF}})

\* The events of frames: a frame without data lines is none.
Decoded(frames) ==
  LET data == [k \in DOMAIN frames |-> Payload(frames[k])]
  IN  Kept(data, {k \in DOMAIN data : data[k] # << >>})

\* Mutant of Overlap: a delimiter is looked for in the last two bytes only.
OverlapTwo == 2

\* How much of what was searched is searched again with the next chunk.
Overlap == 3

\* try_push: the decoder after a chunk and the events found, or an error, with
\* which the events found in the same chunk are lost.
TryPush(decoder, chunk) ==
  LET buffer == decoder.buffer \o chunk
      cuts == Cuts(buffer, decoder.scan)
      frames == Split(buffer, cuts)
      consumed == IF cuts = << >> THEN 0 ELSE Last(cuts).end
      scan == Larger(consumed, Minus(Len(buffer), Overlap))
  IN  IF \/ Len(buffer) > MaxBuffer
         \/ \E k \in DOMAIN frames : Len(frames[k]) > MaxFrame
        THEN [decoder |-> decoder, events |-> << >>, error |-> TRUE]
        ELSE [decoder |-> [buffer |-> SubSeq(buffer, consumed + 1, Len(buffer)),
                           scan |-> scan - consumed],
              events |-> Decoded(frames), error |-> FALSE]

\* What the body says when it is read in one piece.
Whole(body) == Decoded(Split(body, Cuts(body, 0)))
=============================================================================
