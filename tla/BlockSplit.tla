----------------------------- MODULE BlockSplit ------------------------------
(***************************************************************************)
(* How the encoder emits one planned block (src/encode.rs,                 *)
(* encode_block_into_contiguous and encode_split_subblocks): whole, or cut *)
(* into sub-blocks that are each compressed or, when compression does not  *)
(* pay, stored raw.  A raw sub-block never reaches the decoder's           *)
(* repeat-offset history, so the encoder tracks two histories and patches  *)
(* the offset values of what follows (src/sequence.rs,                     *)
(* reconcile_subblock_repcodes).                                           *)
(*                                                                         *)
(* A planned sequence is [raw, ll_zero, value]: the distance the match     *)
(* finder meant, whether it has no literals, and the offset value it was   *)
(* given.  Its bytes are abstracted to its index in the plan.  Where the   *)
(* block is cut, and whether a piece compresses, are cost decisions and    *)
(* left to the environment within Fallback.                                *)
(***************************************************************************)
EXTENDS RepeatOffsets

CONSTANTS
  PlanDistances,  \* the match distances the planner finds
  PlanLen,        \* bound: sequences in a plan
  MaxBlocks,      \* bound: blocks of the frame
  Fallback        \* which sub-blocks may be stored raw: "none", "last", "any"

ASSUME BlockSplitAssumption ==
  /\ PlanDistances \subseteq Nat \ {0}
  /\ PlanLen \in Nat /\ MaxBlocks \in Nat
  /\ Fallback \in {"none", "last", "any"}

VARIABLES
  phase,            \* "plan", "split" or "panicked"
  blocks,           \* blocks emitted so far
  repeat_offsets,   \* the history the encoder carries from block to block
  plan,             \* scratch.planned_sequences.sequences
  plan_reps,        \* the plan's own history, as the planner steps it
  split_points,     \* partition boundaries <<0, ..., Len(plan)>>
  part,             \* index of the next partition
  compressor_reps, decoder_reps, prev_was_uncompressed, any_compressed,
  history,          \* the history of the decoder that reads the frame
  emitted,          \* indices of the plan's sequences, in the order their bytes
                    \*   were written to the block or blocks of this chunk
  misread           \* some sequence decoded to another distance than planned

frameVars == <<phase, blocks, repeat_offsets, plan, plan_reps, split_points, part,
               compressor_reps, decoder_reps, prev_was_uncompressed, any_compressed,
               history, emitted, misread>>

splitVars == <<split_points, part, compressor_reps, decoder_reps,
               prev_was_uncompressed, any_compressed>>

FrameInit ==
  /\ phase = "plan" /\ blocks = 0
  /\ repeat_offsets = DefaultReps /\ history = DefaultReps
  /\ plan = <<>> /\ plan_reps = DefaultReps
  /\ split_points = <<0>> /\ part = 1
  /\ compressor_reps = DefaultReps /\ decoder_reps = DefaultReps
  /\ prev_was_uncompressed = FALSE /\ any_compressed = FALSE
  /\ emitted = <<>> /\ misread = FALSE

-----------------------------------------------------------------------------

\* The decoder reading a compressed block: the distances it recovers, and its
\* history afterwards.  run[i] is what its i-th sequence gave, here and below.
Decode(reps, seqs) ==
  LET run[i \in 0..Len(seqs)] ==
        IF i = 0 THEN [offset |-> BadOffset, reps |-> reps]
        ELSE execute_offset(run[i - 1].reps, seqs[i].ll_zero, seqs[i].value)
  IN  [reps |-> run[Len(seqs)].reps, offsets |-> [i \in DOMAIN seqs |-> run[i].offset]]

Meant(seqs) == [i \in DOMAIN seqs |-> seqs[i].raw]

\* One sequence of reconcile_subblock_repcodes: patch a repeat that the two
\* histories read differently, then step both with the value as patched.
ReconcileOne(acc, s) ==
  LET c_raw == resolve_repcode_to_raw(acc.compressor, s.value, s.ll_zero)
      d_raw == resolve_repcode_to_raw(acc.decoder, s.value, s.ll_zero)
      value == IF s.value \in 1..3 /\ c_raw # d_raw THEN c_raw + 3 ELSE s.value
  IN  [value      |-> value,
       compressor |-> advance_rep_state(acc.compressor, value, s.ll_zero),
       decoder    |-> advance_rep_state(acc.decoder, value, s.ll_zero)]

reconcile_subblock_repcodes(seqs, decoder, compressor) ==
  LET run[i \in 0..Len(seqs)] ==
        IF i = 0 THEN [value |-> 0, compressor |-> compressor, decoder |-> decoder]
        ELSE ReconcileOne(run[i - 1], seqs[i])
  IN  [seqs       |-> [i \in DOMAIN seqs |-> [seqs[i] EXCEPT !.value = run[i].value]],
       compressor |-> run[Len(seqs)].compressor,
       decoder    |-> run[Len(seqs)].decoder]

\* Mutant of ResolveAll: the sub-plan keeps the history it started from.
ResolveNone(reps, seqs) == [reps |-> reps, ok |-> TRUE]

\* The history after stepping through seqs with resolve_values, and whether a
\* value failed to resolve on the way.
ResolveAll(reps, seqs) ==
  LET run[i \in 0..Len(seqs)] ==
        IF i = 0 THEN [offset |-> BadOffset, reps |-> reps]
        ELSE resolve_values(run[i - 1].reps, seqs[i].ll_zero, seqs[i].value)
  IN  [reps |-> run[Len(seqs)].reps, ok |-> \A i \in DOMAIN seqs : run[i].offset # BadOffset]

AdvanceAll(reps, seqs) ==
  LET run[i \in 0..Len(seqs)] ==
        IF i = 0 THEN reps ELSE advance_rep_state(run[i - 1], seqs[i].value, seqs[i].ll_zero)
  IN  run[Len(seqs)]

\* The ways to cut n sequences into two or more parts, by their boundaries.
Partitions(n) ==
  {points \in UNION {[1..k -> 0..n] : k \in 3..(n + 1)} :
     /\ points[1] = 0 /\ points[Len(points)] = n
     /\ \A i \in 1..(Len(points) - 1) : points[i] < points[i + 1]}

-----------------------------------------------------------------------------

\* The planner adds a match: the value comes from the history it was handed.
plan_sequence(raw, ll_zero) ==
  LET e == encode_offset_value_and_update(plan_reps, raw, ll_zero)
  IN  /\ phase = "plan"
      /\ blocks < MaxBlocks
      /\ Len(plan) < PlanLen
      /\ plan' = Append(plan, [raw |-> raw, ll_zero |-> ll_zero, value |-> e.value])
      /\ plan_reps' = e.reps
      /\ emitted' = <<>>
      /\ UNCHANGED <<phase, blocks, repeat_offsets, splitVars, history, misread>>

\* Mutant of NextBlock: the next plan starts from the default history.
NextBlockForgets(reps) ==
  /\ phase' = "plan"
  /\ blocks' = blocks + 1
  /\ repeat_offsets' = reps
  /\ plan' = <<>>
  /\ plan_reps' = DefaultReps

\* What every way of finishing a block does: the next plan starts from the
\* history the encoder now carries.
NextBlock(reps) ==
  /\ phase' = "plan"
  /\ blocks' = blocks + 1
  /\ repeat_offsets' = reps
  /\ plan' = <<>>
  /\ plan_reps' = reps

\* The single-block path: encode_compressed_block_direct, or a raw block that
\* leaves the carried history alone.
encode_whole_block(wins) ==
  LET d == Decode(history, plan)
  IN  /\ phase = "plan" /\ plan # <<>>
      /\ emitted' = [i \in 1..Len(plan) |-> i]
      /\ IF wins
         THEN /\ history' = d.reps
              /\ misread' = (misread \/ d.offsets # Meant(plan))
              /\ NextBlock(plan_reps)
         ELSE /\ UNCHANGED <<history, misread>>
              /\ NextBlock(repeat_offsets)
      /\ UNCHANGED splitVars

\* find_post_sequence_splits returned more than one partition.
begin_split(points) ==
  /\ phase = "plan" /\ Len(plan) >= 2
  /\ phase' = "split"
  /\ split_points' = points
  /\ part' = 1
  /\ compressor_reps' = repeat_offsets
  /\ decoder_reps' = repeat_offsets
  /\ prev_was_uncompressed' = FALSE
  /\ any_compressed' = FALSE
  /\ UNCHANGED <<blocks, repeat_offsets, plan, plan_reps, history, emitted, misread>>

\* Whether the environment may let this sub-block fail to compress.
MayFallBack ==
  \/ Fallback = "any"
  \/ Fallback = "last" /\ any_compressed /\ part = Len(split_points) - 1

\* One turn of encode_split_subblocks' loop.
encode_subblock(wins) ==
  LET lo    == split_points[part] + 1
      hi    == split_points[part + 1]
      taken == SubSeq(plan, lo, hi)
      r     == IF prev_was_uncompressed
               THEN reconcile_subblock_repcodes(taken, decoder_reps, compressor_reps)
               ELSE [seqs |-> taken, compressor |-> compressor_reps, decoder |-> decoder_reps]
      next  == ResolveAll(r.decoder, r.seqs)
      d     == Decode(history, r.seqs)
  IN  /\ phase = "split" /\ part < Len(split_points)
      /\ ~wins => MayFallBack
      /\ IF ~next.ok
         THEN /\ phase' = "panicked"
              /\ UNCHANGED <<splitVars, history, emitted, misread>>
         ELSE /\ phase' = phase
              /\ split_points' = split_points
              /\ part' = part + 1
              /\ emitted' = emitted \o [i \in 1..(hi - lo + 1) |-> lo + i - 1]
              /\ prev_was_uncompressed' = ~wins
              /\ any_compressed' = (any_compressed \/ wins)
              /\ IF wins
                 THEN /\ decoder_reps' = next.reps
                      /\ compressor_reps' = next.reps
                      /\ history' = d.reps
                      /\ misread' = (misread \/ d.offsets # Meant(taken))
                 ELSE /\ decoder_reps' = r.decoder
                      /\ compressor_reps' = AdvanceAll(r.compressor, r.seqs)
                      /\ UNCHANGED <<history, misread>>
      /\ UNCHANGED <<blocks, repeat_offsets, plan, plan_reps>>

\* Mutant of end_split: the chunk is written again although pieces compressed.
end_split_rewrites ==
  /\ phase = "split" /\ part = Len(split_points)
  /\ NextBlock(decoder_reps)
  /\ emitted' = emitted \o [i \in 1..Len(plan) |-> i]
  /\ UNCHANGED <<splitVars, history, misread>>

\* encode_split_subblocks returned.  With nothing compressed it answers None, and
\* encode_block_into_contiguous then writes the whole chunk as one raw block.
end_split ==
  /\ phase = "split" /\ part = Len(split_points)
  /\ IF any_compressed
     THEN /\ NextBlock(decoder_reps)
          /\ UNCHANGED emitted
     ELSE /\ NextBlock(repeat_offsets)
          /\ emitted' = emitted \o [i \in 1..Len(plan) |-> i]
  /\ UNCHANGED <<splitVars, history, misread>>

FrameNext ==
  \/ \E raw \in PlanDistances, ll_zero \in BOOLEAN : plan_sequence(raw, ll_zero)
  \/ \E wins \in BOOLEAN : encode_whole_block(wins) \/ encode_subblock(wins)
  \/ \E points \in Partitions(Len(plan)) : begin_split(points)
  \/ end_split

FrameSpec == FrameInit /\ [][FrameNext]_frameVars

-----------------------------------------------------------------------------

\* The decoder recovers the distance the match finder meant for every sequence
\* of every compressed block and sub-block, whatever was stored raw before it
\* (reconcile_subblock_repcodes and the histories encode_split_subblocks keeps).
DistancesRecovered == ~misread

\* Between blocks the encoder and the decoder are in step: the history the encoder
\* carries is the one the decoder has ("it must reflect the END state",
\* encode_split_subblocks), and the chunk's sequences have been written once and in
\* order, however it was cut and whether or not the last piece fell back to raw (no
\* other may in the runs that check this, Fallback).  Resolving a sub-block's values on
\* the way there never fails, so the encoder never panics (the expect on resolve_values).
BlocksInStep ==
  /\ phase # "panicked"
  /\ phase = "plan" => /\ repeat_offsets = history
                       /\ emitted # <<>> => \A i \in 1..Len(emitted) : emitted[i] = i
=============================================================================
