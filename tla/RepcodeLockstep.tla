--------------------------- MODULE RepcodeLockstep ---------------------------
(***************************************************************************)
(* One frame's repeat-offset history kept by both ends: the encoder turns  *)
(* each match distance into an offset value, the decoder's executor turns  *)
(* the value back, and the sub-block encoder's `advance` helper follows    *)
(* along.  Nothing but the values crosses, so the copies agree only if     *)
(* every step of each of them does.                                        *)
(***************************************************************************)
EXTENDS RepeatOffsets

\* Histories the format allows: a repeat offset is never 0.
Triples == (Nat \ {0}) \X (Nat \ {0}) \X (Nat \ {0})

CONSTANTS
  Distances,     \* the match distances the encoder finds
  InitialReps    \* histories a frame starts from: the default or a dictionary's

ASSUME RepeatOffsetsAssumption ==
  /\ Distances \subseteq Nat \ {0}
  /\ InitialReps \subseteq Triples

VARIABLES
  encoder,   \* the encoder's history
  decoder,   \* the executor's history
  planner,   \* a history stepped by advance_rep_state
  sent,      \* the distance last encoded
  received   \* the distance the executor made of it

vars == <<encoder, decoder, planner, sent, received>>

Init ==
  /\ encoder \in InitialReps
  /\ decoder = encoder
  /\ planner = encoder
  /\ sent = 1 /\ received = 1

\* One sequence crosses from encoder to decoder.
Transfer(raw_offset, ll_zero) ==
  LET e == encode_offset_value_and_update(encoder, raw_offset, ll_zero)
      d == execute_offset(decoder, ll_zero, e.value)
  IN  /\ encoder' = e.reps
      /\ decoder' = d.reps
      /\ planner' = advance_rep_state(planner, e.value, ll_zero)
      /\ sent' = raw_offset
      /\ received' = d.offset

Next == \E raw_offset \in Distances, ll_zero \in BOOLEAN : Transfer(raw_offset, ll_zero)

Spec == Init /\ [][Next]_vars

-----------------------------------------------------------------------------

\* The decoder recovers the distance the encoder meant, after any sequence of
\* matches, and every copy of the history stays the same one: a slip in any of
\* them shows only when a later sequence names a repeat.
RepsInStep == /\ received = sent
              /\ decoder = encoder
              /\ planner = encoder

\* No repeat ever becomes 0, which a distance may never be and the encoder's
\* hot paths assume (debug_assert!(rep2 > 0, ...)).
TypeOK == /\ encoder \in Triples /\ decoder \in Triples /\ planner \in Triples
             /\ sent \in Nat \ {0} /\ received \in Nat
=============================================================================
