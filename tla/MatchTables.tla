----------------------------- MODULE MatchTables -----------------------------
(***************************************************************************)
(* The tables of a match finder as the streaming encoder moves them: which *)
(* positions are filed, in which slot of the cycle each sits, and where    *)
(* the finder resumes filing (src/window/mod.rs, ContiguousBlockMatchState *)
(* and LdmFrameState; src/window/lazy.rs, binary_tree.rs, ldm.rs).         *)
(*                                                                         *)
(* An entry is [pos, byte]: the position the code stores, an index into    *)
(* the encoder's frame buffer, and which byte of the stream it was filed   *)
(* for.  Hash buckets and their evictions are left out: the tables here    *)
(* hold every entry that was ever filed and not dropped, a superset of     *)
(* what any hash function would leave.  Which positions a parser leaves    *)
(* out as it goes is the data's choice (MayPass); `skipped` remembers the  *)
(* bytes that were passed over on purpose.  The families of finder:        *)
(*   fast   no cursor, files what it is handed (Fast, DoubleFast)          *)
(*   row    a cursor, no cycle                                             *)
(*   chain  a cursor, `previous` indexed by position modulo the cycle      *)
(*   tree   a cursor from 2, `children` indexed likewise; a block that     *)
(*          goes out raw is left for the next search to catch up on        *)
(* Long-distance matching is considered with the fast family only, whose   *)
(* parser has no cursor for a long-distance match to push ahead.           *)
(***************************************************************************)
EXTENDS EncoderGeometry, Sequences

CONSTANTS
  HashTail,   \* bytes at the end of the buffer too short to hash, MIN_MATCH - 1
  UpdateLag,  \* LIMITED_UPDATE_LAG
  UpdateSpan  \* LIMITED_UPDATE_SPAN

ASSUME TablesAssumption == HashTail \in Nat /\ UpdateLag \in Nat /\ UpdateSpan \in Nat

Indexed(p) == p.family \in {"chain", "tree"}
HasCursor(p) == p.family # "fast"
\* Where a cursor starts.
FirstPosition(p) == IF p.family = "tree" THEN 2 ELSE 0

\* ContiguousBlockMatchState::new and reset.
NewContiguous(p) ==
  [state |-> "Contiguous", filed |-> {}, skipped |-> {},
   next_to_update |-> FirstPosition(p),
   slots |-> [i \in 0..(p.rebase_period - 1) |-> None]]

\* new_match_state: a dictionary with content is searched in front of the frame.
\* A prefixed state's tables never see the buffer move, so they are not kept.
new_match_state(p) ==
  [NewContiguous(p) EXCEPT !.state = IF p.dict_len > 0 THEN "Prefixed" ELSE "Contiguous"]

\* The byte frame holds at a position, which counts from zero.
At(frame, pos) == frame[pos + 1]

hash_insert_end(len) == saturating_sub(len, HashTail)

\* Filing positions, in order: a later one takes over the slot it shares with an
\* earlier one.
File(p, f, frame, positions) ==
  LET taken(i) == {q \in positions : q % p.rebase_period = i}
      latest(i) == CHOOSE q \in taken(i) : \A r \in taken(i) : r <= q
  IN  [f EXCEPT !.filed = @ \cup {[pos |-> q, byte |-> At(frame, q)] : q \in positions},
                !.slots = [i \in DOMAIN @ |->
                             IF Indexed(p) /\ taken(i) # {} THEN At(frame, latest(i)) ELSE @[i]]]

\* insert_range of the four families.  A tree's leaves its cursor, and passes over
\* what an insertion skips into a long match.
insert_range(p, f, frame, start, end, passed) ==
  LET to   == Least(end, hash_insert_end(Len(frame)))
      from == Least(Greatest(start, f.next_to_update), to)
  IN  IF p.family \in {"fast", "tree"} THEN File(p, f, frame, (start..(to - 1)) \ passed)
      ELSE [File(p, f, frame, from..(to - 1)) EXCEPT
              !.next_to_update = Greatest(f.next_to_update, to)]

\* Mutant of bypassed_insert_start: begins at the block.
bypassed_from_block(p, f, block_start) == block_start

\* Where the insert of a block the parser never saw has to begin.
bypassed_insert_start(p, f, block_start) ==
  IF HasCursor(p) THEN Least(f.next_to_update, block_start) ELSE block_start

\* limited_update_after_long_match, with what it gives up on.
limit_update_after_long_match(p, f, frame, block_start) ==
  LET lag  == block_start - f.next_to_update - UpdateLag
      next == IF lag <= 0 THEN f.next_to_update ELSE block_start - Least(UpdateSpan, lag)
  IN  IF ~HasCursor(p) THEN f
      ELSE [f EXCEPT !.next_to_update = next,
                     !.skipped = @ \cup {At(frame, q) : q \in f.next_to_update..(next - 1)}]

\* insert_range_for_uncompressed_block
insert_uncompressed(p, f, frame, block_start) ==
  IF p.family = "tree" THEN f
  ELSE insert_range(p, f, frame, bypassed_insert_start(p, f, block_start), Len(frame), {})

\* What insert_rle_block does after the clamp: a tree files its first position, and
\* any of the others.
InsertFromCursor(p, f, frame, block_start) ==
  LET start == bypassed_insert_start(p, f, block_start)
      later == IF p.family = "tree" THEN (start + 1)..(Len(frame) - 1) ELSE {}
  IN  {insert_range(p, f, frame, start, Len(frame), passed) : passed \in SUBSET later}

insert_rle_block(p, f, frame, block_start) ==
  InsertFromCursor(p, limit_update_after_long_match(p, f, frame, block_start), frame, block_start)

\* A parser leaves its cursor where it stopped, behind any position it can hash, or
\* where it was if it never searched.
Stops(p, f, frame, block_start) ==
  IF HasCursor(p) THEN {Greatest(f.next_to_update, q + 1) : q \in block_start..(hash_insert_end(Len(frame)) - 1)}
                       \cup {f.next_to_update}
  ELSE {hash_insert_end(Len(frame))}

\* Where it begins to file: the finder's cursor, which a search catches up from.  The
\* parser over hash chains has a cursor of its own, inserted_until, and begins it at
\* the block; nothing goes back for what the last parser left behind.
CatchUpFrom(p, f, block_start) ==
  CASE p.family = "fast" -> block_start
    [] p.family = "chain" -> Greatest(f.next_to_update, block_start)
    [] OTHER -> f.next_to_update

\* A search that leaves gaps in what it catches up on: over rows one that is more than
\* SKIP_THRESHOLD behind, the clamp's lag, files the two ends only; an insertion of
\* the optimal parser lets the next one skip into a long match.
CatchUpLeavesGaps(p, f, stop) ==
  \/ p.family = "row" /\ stop - f.next_to_update > UpdateLag
  \/ p.family = "tree" /\ p.optimal

\* What a parser that stops at stop may pass over: any position of its own block but
\* the first it files, while it skips lazily (row, chain) or behind the end of a long
\* match (tree); and what its catching up leaves out.  A finder without a cursor is
\* taken to file all it was handed, the most its entries can be.
MayPass(p, f, block_start, stop) ==
  {q \in (CatchUpFrom(p, f, block_start) + 1)..(stop - 1) :
     HasCursor(p) /\ (q >= block_start \/ CatchUpLeavesGaps(p, f, stop))}

\* The parser stops at stop, having filed all but the positions passed.
ParseTo(p, f, frame, block_start, stop, passed) ==
  LET parsed == File(p, f, frame, (CatchUpFrom(p, f, block_start)..(stop - 1)) \ passed)
  IN  IF ~HasCursor(p) THEN parsed
      ELSE [parsed EXCEPT !.next_to_update = stop,
                          !.skipped = @ \cup {At(frame, q) : q \in passed}]

\* The outcomes of parsing the block that begins at block_start, after the clamp.
Parsed(p, f, frame, block_start) ==
  UNION {{ParseTo(p, f, frame, block_start, s, passed) :
            passed \in SUBSET MayPass(p, f, block_start, s)} : s \in Stops(p, f, frame, block_start)}

\* What a block leaves in the tables: parsed, run-length, too small to compress.
AfterBlock(p, f, frame, block_start, route) ==
  IF f.state = "Prefixed" \/ block_start = Len(frame) THEN {f}
  ELSE CASE route = "small" -> {insert_uncompressed(p, f, frame, block_start)}
         [] route = "rle"   -> insert_rle_block(p, f, frame, block_start)
         [] OTHER -> Parsed(p, limit_update_after_long_match(p, f, frame, block_start),
                            frame, block_start)

-----------------------------------------------------------------------------
\* Rebasing.

ShiftEntries(filed, delta) ==
  {[e EXCEPT !.pos = @ - delta] : e \in {e \in filed : e.pos >= delta}}

shift_cursor(p, next, delta) ==
  Greatest(saturating_sub(next, delta), FirstPosition(p))

\* The table indexed by position: left in place when the drop is whole cycles,
\* moved bodily when the buffer does not reach round the cycle.
shift_slots(p, slots, delta, live_end) ==
  IF ~by_slot(p, live_end) THEN slots
  ELSE [i \in DOMAIN slots |->
          IF i + delta < p.rebase_period THEN slots[i + delta] ELSE None]

\* Mutant of shift_positions: the hash table is not rebased.
shift_slots_only(p, f, delta, live_end) ==
  [f EXCEPT !.next_to_update = shift_cursor(p, @, delta),
            !.slots = shift_slots(p, @, delta, live_end)]

shift_positions(p, f, delta, live_end) ==
  [f EXCEPT !.filed = ShiftEntries(@, delta),
            !.next_to_update = shift_cursor(p, @, delta),
            !.slots = shift_slots(p, @, delta, live_end)]

\* The rebuild in compact_frame: a fresh contiguous state over what was kept.  A
\* tree catches up by itself.
rebuild(p, kept) ==
  IF p.family = "tree" THEN NewContiguous(p)
  ELSE insert_range(p, NewContiguous(p), kept, 0, Len(kept), {})

-----------------------------------------------------------------------------
\* The long-distance table.  Its positions count from the dictionary's first byte
\* while there is a dictionary in front; position 0 means an empty entry.  The
\* bytes of the dictionary are -dict_len .. -1.

NoLdm == [on |-> FALSE]

\* LdmFrameState::new and load_dictionary.
NewLdm(p) ==
  IF ~p.ldm THEN NoLdm
  ELSE [on |-> TRUE, loaded_dict_end |-> p.dict_len, generated_for |-> << >>, window_low |-> 0,
        table |-> {[pos |-> i, byte |-> i - p.dict_len] : i \in 1..(p.dict_len - 1)}]

\* Mutant of ldm_window_low: the dictionary's credit outlives the dictionary.
floor_with_credit(p, credit, end) == saturating_sub(end, history_limit_for(p) + credit)

\* generate_sequences: the floor is raised once the joint buffer has outgrown the
\* window and the dictionary's credit.
ldm_outgrown(p, credit, end) == end > history_limit_for(p) + credit
ldm_window_low(p, credit, end) ==
  IF ldm_outgrown(p, credit, end) THEN end - history_limit_for(p) ELSE 0

\* sequences_for_block over the block that ends frame, with the dictionary bytes
\* the caller passes; a block asked for again is answered from the memo.
sequences_for_block(p, ldm, dict_len, frame, block_start) ==
  LET end    == Len(frame) + dict_len
      credit == ldm.loaded_dict_end
      filed  == {[pos |-> dict_len + q, byte |-> At(frame, q)] :
                   q \in {q \in block_start..(Len(frame) - 1) : dict_len + q > 0}}
  IN  IF ldm.generated_for = <<block_start, Len(frame)>> THEN ldm
      ELSE [ldm EXCEPT !.generated_for = <<block_start, Len(frame)>>,
                       !.loaded_dict_end = IF ldm_outgrown(p, credit, end) THEN 0 ELSE @,
                       !.window_low = ldm_window_low(p, credit, end),
                       !.table = @ \cup filed]

\* LdmFrameState::shift_positions
ldm_shift_positions(ldm, dropped) ==
  IF ~ldm.on THEN ldm
  ELSE [ldm EXCEPT !.loaded_dict_end = 0, !.window_low = saturating_sub(@, dropped),
          !.table = {e \in ShiftEntries(@, dropped) : e.pos > 0},
          !.generated_for = IF @ = << >> THEN << >>
                            ELSE <<saturating_sub(@[1], dropped), saturating_sub(@[2], dropped)>>]
=============================================================================
