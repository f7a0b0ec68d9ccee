----------------------------- MODULE ParserBase -----------------------------
(***************************************************************************)
(* What every match parser of src/window shares: the bytes it reads, the   *)
(* floors a match may not start below, how a block is cut into segments    *)
(* around long-distance matches, how the repeat offsets are clamped on the *)
(* way in and restored on the way out, and how a sequence is stored.       *)
(*                                                                         *)
(* Positions are the source's virtual ones: the dictionary's bytes are     *)
(* 0 .. prefix_len - 1 and source position p sits at prefix_len + p.  The  *)
(* decoder's own history, hist, is stepped with every sequence stored, by  *)
(* the rule it will really apply, so that the two can be compared.  Which  *)
(* candidate a table returns is left open: any earlier position it may     *)
(* hold (MatchTables says which).                                          *)
(***************************************************************************)
EXTENDS RepeatOffsets, HistoryBuffer

CONSTANTS
  Sources,           \* the byte strings to parse
  Setups,            \* [parser, mode, depth, prefix_len, history, reps]
  BlockLengths,      \* how many bytes a block may take
  MIN_MATCH,         \* the shortest match
  LONG_MATCH,        \* what DoubleFast's long table compares
  TAIL,              \* search_limit is this far before the end
  PREFIX_LOW_LIMIT,  \* the dictionary bytes the decoder does not get
  LDM_MATCH          \* the shortest long-distance match

Positive == Nat \ {0}

\* The formats' constants; a frame's parameters, whose window is wider than the offsets
\* it starts from when there is no dictionary they could reach into.
ASSUME ParserAssumption ==
  /\ \A s \in Sources : Len(s) \in Nat
  /\ BlockLengths \subseteq Positive
  /\ MIN_MATCH \in Positive /\ LONG_MATCH \in Positive /\ LDM_MATCH \in Positive
  /\ TAIL \in Nat /\ PREFIX_LOW_LIMIT \in Nat
  /\ \A s \in Setups :
       /\ s.prefix_len \in Nat /\ s.history \in Positive
       /\ s.reps \in Positive \X Positive \X Positive
       /\ s.prefix_len = 0 => \A i \in 1..2 : s.reps[i] <= s.history

VARIABLES
  source, setup,     \* the bytes and the parameters of this frame
  block, seg,        \* [lo, hi] of the block and of the segment in hand
  ldm,               \* the long-distance match that ends the segment, or Nothing
  pc, cur,           \* where the parser is, and its cursors
  anchor,            \* the first byte not yet stored
  reps, saved,       \* the parser's repeat offsets, and those it put aside
  carried,           \* the repeat offsets of the plan last adopted
  hist, undo,        \* the decoder's repeat offsets, and those at the block's start
  last               \* the sequence just stored, as the decoder resolves it

vars == <<source, setup, block, seg, ldm, pc, cur, anchor, reps, saved,
          carried, hist, undo, last>>

Frame    == <<source, setup, block, undo, carried>>
Segment  == <<Frame, seg, ldm>>
Storage  == <<anchor, hist, last>>
Offsets  == <<reps, saved>>

------------------------------------------------------------------------------
(* Bytes and floors.                                                       *)

\* No long-distance match, and no sequence stored yet.
Nothing == <<>>

P == setup.prefix_len
H == setup.history
Total == Len(source)

Lower(a, b)  == IF a < b THEN a ELSE b
Higher(a, b) == IF a > b THEN a ELSE b

\* A read outside the buffers, which no parser may make, equals no byte.
Byte(v) == IF v \in 0..(Total - 1) THEN source[v + 1] ELSE "outside"

\* count_match_length, count_match_length_with_prefix: how many bytes from m
\* equal those from v, up to the end of the segment.
Count(m, v) ==
  LET differ == {k \in 0..(seg.hi - v - 1) : Byte(m + k) # Byte(v + k)}
  IN  IF differ = {} THEN seg.hi - v ELSE CHOOSE k \in differ : \A j \in differ : k <= j

\* extend_back_source_match, extend_back_source_candidate,
\* extend_back_logical_match_with_limits, extend_back_prefix_chain_match: how far
\* a match reaches back, not past the anchor and with its start not below floor.
Back(start, d, floor) ==
  LET fits(k) == \A j \in 1..k : start - j - d >= floor /\ Byte(start - j) = Byte(start - j - d)
  IN  CHOOSE k \in 0..(start - anchor) :
        fits(k) /\ \A j \in 0..(start - anchor) : fits(j) => j <= k

\* prefixed_window_lows: the prefix has aged out of the window.
retired == P > 0 /\ block.hi - P > H
prefix_low == IF retired THEN P ELSE Lower(PREFIX_LOW_LIMIT, P)
source_low == IF retired THEN Lower(block.hi - H, block.lo) ELSE P

\* Where the fast pair's matches may start: one floor for a segment, and behind
\* a prefix one for the block.
window_low ==
  IF P > 0 THEN (IF retired THEN source_low ELSE prefix_low)
  ELSE Lower(Higher(seg.hi - H, 0), seg.lo)

\* plan_sequences_for_contiguous_segment_into, prefixed_block_floors: how far
\* back a repeat carried into the block may reach.
rep_window_low == P + Higher(block.lo - P - H, 0)

\* MatchFloor::at, PrefixedMatchFloor::at: the floor every other parser looks
\* under, as seen from v.
match_floor(v) == IF P > 0 /\ ~retired THEN prefix_low ELSE Higher(rep_window_low, v - H)

\* The floor of a backward extension, fixed by the region the match starts in.
back_floor(m, floor) == IF m < P THEN floor ELSE Higher(P, floor)

search_limit == Higher(seg.hi - TAIL, P)

\* repeat_match_without_prefix_at, prefixed_offset_match_start,
\* count_rep_match_length: a repeat d looked for at v.
RepeatAt(v, d, floor) ==
  d # 0 /\ v - d >= floor /\ v + MIN_MATCH <= seg.hi /\ Count(v - d, v) >= MIN_MATCH

\* What a table may return for v: an earlier position, not below the floor, whose
\* bytes agree for at least `least`.
Candidates(v, floor, least) ==
  {m \in floor..(v - 1) : v + least <= seg.hi /\ Count(m, v) >= least}

------------------------------------------------------------------------------
(* Storing a sequence.                                                     *)

\* push_lazy_sequence_no_trace, push_stored_sequence: the sequence that s stands
\* for, from start; the decoder steps its history.
Store(s, start, length) ==
  LET resolved == execute_offset(hist, start = anchor, s.value)
  IN  /\ last' = [start |-> start, length |-> length, offset |-> resolved.offset]
      /\ hist' = resolved.reps
      /\ anchor' = start + length
      /\ reps' = s.reps

\* store_rep_sequence_fast_no_trace, store_rep_sequence_no_trace: a repeat, by the
\* parsers that keep two offsets.
pair_repeat(start, d) ==
  IF start > anchor /\ d = reps[1] THEN [value |-> 1, reps |-> reps]
  ELSE IF d = reps[2]
       THEN [value |-> IF start = anchor THEN 1 ELSE 2, reps |-> <<reps[2], reps[1], reps[3]>>]
  ELSE [value |-> 1, reps |-> reps]

\* store_explicit_sequence_fast_no_trace: the third offset is left as it was.
pair_explicit(d) == [value |-> d + 3, reps |-> <<d, reps[1], reps[3]>>]

\* store_lazy_sequence_with_source, store_lazy_sequence_local_reps: a distance that
\* equals a repeat is stored as that repeat.
classified(start, d) == encode_offset_value_and_update(reps, d, start = anchor)

\* store_lazy_regular_sequence_with_source and update_explicit_offset: never a repeat.
explicit(d) == [value |-> d + 3, reps |-> <<d, reps[1], reps[2]>>]

\* store_lazy_sequence_with_offset_value_and_source
by_value(start, value) == [value |-> value, reps |-> resolve_values(reps, start = anchor, value).reps]

------------------------------------------------------------------------------
(* Repeat offsets on the way in and out.                                   *)

\* Mutant of invalidate: only the second offset is looked at.
invalidate_second(offsets, current, low) ==
  LET out == offsets[2] > current - low
  IN  [reps  |-> <<offsets[1], IF out THEN 0 ELSE offsets[2], offsets[3]>>,
       saved |-> <<0, IF out THEN offsets[2] ELSE 0>>]

\* invalidate_no_dict_repeat_offsets: those that reach below low from current are
\* put aside.
invalidate(offsets, current, low) ==
  LET out(r) == r > current - low
      kept(i) == IF out(offsets[i]) THEN 0 ELSE offsets[i]
      aside(i) == IF out(offsets[i]) THEN offsets[i] ELSE 0
  IN  [reps |-> <<kept(1), kept(2), offsets[3]>>, saved |-> <<aside(1), aside(2)>>]

\* Mutant of restore: an offset put aside from the first place returns only there.
restore_in_place(offsets, aside) ==
  <<IF offsets[1] = 0 THEN aside[1] ELSE offsets[1],
    IF offsets[2] = 0 THEN aside[2] ELSE offsets[2], offsets[3]>>

\* restore_invalidated_repeat_offsets: once a match has pushed it down, the first
\* offset put aside is the second one.
restore(offsets, aside) ==
  LET second == IF aside[1] # 0 /\ offsets[1] # 0 THEN aside[1] ELSE aside[2]
  IN  <<IF offsets[1] = 0 THEN aside[1] ELSE offsets[1],
        IF offsets[2] = 0 THEN second ELSE offsets[2], offsets[3]>>

NothingAside == <<0, 0>>

\* A parser leaves its segment: the literals behind the anchor belong to whatever
\* comes next.
Leave(offsets) ==
  /\ pc' = "leave"
  /\ reps' = offsets
  /\ cur' = <<>>
  /\ UNCHANGED <<Segment, Storage, saved>>

------------------------------------------------------------------------------
(* Blocks and segments.                                                    *)

ParserInit ==
  /\ source \in Sources
  /\ setup \in {s \in Setups : s.prefix_len < Total}
  /\ block = [lo |-> P, hi |-> P] /\ seg = block
  /\ ldm = Nothing /\ pc = "idle" /\ cur = <<>> /\ anchor = P
  /\ reps = setup.reps /\ saved = [inner |-> NothingAside, outer |-> NothingAside]
  /\ carried = reps /\ hist = reps /\ undo = reps
  /\ last = Nothing

\* plan_sequences_for_contiguous_block_into and its prefixed twin: the next block,
\* no wider than the window (block_size_for, block_size_max_for).
NextBlock ==
  /\ pc = "idle" /\ block.hi < Total
  /\ \E n \in BlockLengths : n <= H /\ block' = [lo |-> block.hi, hi |-> Lower(block.hi + n, Total)]
  /\ anchor' = block.hi
  /\ undo' = hist /\ reps' = carried
  /\ pc' = "segment"
  /\ UNCHANGED <<source, setup, carried, seg, ldm, cur, saved, hist, last>>

\* plan_sequences_for_prefixed_contiguous_segment_into: a block whose prefix has
\* retired takes no repeat that reaches it.
clamped(lo) ==
  IF retired THEN invalidate(reps, lo, Higher(P, match_floor(lo)))
  ELSE [reps |-> reps, saved |-> NothingAside]

\* The decoder's rule for a distance d at v (match_source, from what the frame has
\* produced, the window it declares and the dictionary it was given).
decoder_takes(v, d) ==
  match_source(v - P, H, IF P > 0 THEN P - PREFIX_LOW_LIMIT ELSE None, d) # "corrupt"

\* generate_sequences: how low a long-distance match may start, judged at the end of
\* the block, since it may be cut.
ldm_window_low == IF block.hi - P > H THEN block.hi - H ELSE 0

\* The long-distance matches the block may hold from position lo on.
LongMatches(lo) ==
  {[start |-> s, offset |-> d, length |-> n] :
     s \in lo..block.hi, d \in 1..Total, n \in {LDM_MATCH}}

\* lay_down_long_distance_matches_into and its prefixed twin: the gap up to the
\* next long-distance match, or to the end of the block.  The optimal parser takes
\* the block whole and weighs the match itself.
NextSegment ==
  /\ pc = "segment"
  /\ \/ ldm' = Nothing /\ seg' = [lo |-> anchor, hi |-> block.hi]
     \/ /\ setup.ldm
        /\ \E x \in LongMatches(anchor) :
             /\ x.start + x.length <= block.hi /\ decoder_takes(x.start, x.offset)
             /\ x.start - x.offset > ldm_window_low
             /\ \A k \in 0..(x.length - 1) : Byte(x.start + k) = Byte(x.start + k - x.offset)
             /\ ldm' = x
             /\ seg' = [lo |-> anchor, hi |-> IF setup.parser = "optimal" THEN block.hi ELSE x.start]
  /\ reps' = clamped(anchor).reps
  /\ saved' = [inner |-> NothingAside, outer |-> clamped(anchor).saved]
  /\ pc' = "enter"
  /\ UNCHANGED <<Frame, cur, Storage>>

\* append_segment_plan: the segment's sequences join the plan; the long-distance
\* match follows, with an explicit offset.
EndSegment ==
  /\ pc = "leave"
  /\ LET offsets == restore(reps, saved.outer)
     IN  IF ldm = Nothing \/ setup.parser = "optimal"
         THEN /\ reps' = offsets /\ pc' = "close"
              /\ UNCHANGED Storage
         ELSE /\ Store([value |-> ldm.offset + 3, reps |-> <<ldm.offset, offsets[1], offsets[2]>>],
                       ldm.start, ldm.length)
              /\ pc' = "segment"
  /\ saved' = [inner |-> NothingAside, outer |-> NothingAside]
  /\ UNCHANGED <<Frame, seg, ldm, cur>>

\* The plan is encoded, or the block goes out raw and its plan is dropped.
CloseBlock ==
  /\ pc = "close"
  /\ \/ carried' = reps /\ UNCHANGED hist
     \/ hist' = undo /\ UNCHANGED carried
  /\ pc' = "idle" /\ last' = Nothing
  /\ UNCHANGED <<source, setup, block, undo, seg, ldm, cur, anchor, reps, saved>>

ParserNext == NextBlock \/ NextSegment \/ EndSegment \/ CloseBlock

------------------------------------------------------------------------------
(* Properties.                                                             *)

\* Whatever a parser stores, the decoder resolves to a distance it accepts there,
\* and the bytes at that distance are the source's: a repeat value names, in the
\* decoder's history, the distance the parser meant, and no distance outruns the
\* window the header declares or the dictionary the decoder was given.
EverySequenceDecodes ==
  last # Nothing =>
    /\ last.offset # BadOffset
    /\ last.length > 0 /\ last.start + last.length <= block.hi
    /\ decoder_takes(last.start, last.offset)
    /\ \A k \in 0..(last.length - 1) :
         Byte(last.start + k) = Byte(last.start + k - last.offset)

\* A parser's offset is either put aside or the decoder's own; the offsets carried
\* from block to block name the decoder's first two, whatever was clamped, swapped
\* or left out of date in between, and whether or not the last plan was kept.
OffsetsFollowTheDecoder ==
  /\ pc \notin {"idle", "close"} => \A i \in 1..2 : reps[i] \in {0, hist[i]}
  /\ pc = "close" => \A i \in 1..2 : reps[i] = hist[i]
  /\ pc = "idle" => \A i \in 1..2 : carried[i] = hist[i]
=============================================================================
