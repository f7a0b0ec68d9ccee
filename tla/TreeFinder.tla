----------------------------- MODULE TreeFinder -----------------------------
(***************************************************************************)
(* The binary trees of src/window/binary_tree.rs, with their tables: a     *)
(* head for every hash bucket, and for every position a smaller and a      *)
(* larger child, in slots that are reused once a cycle has gone by.  A     *)
(* descent does not compare again the bytes that the nodes it came through *)
(* are known to share, so an order that is wrong anywhere gives lengths    *)
(* that are wrong.                                                         *)
(*                                                                         *)
(* Bytes are named by their virtual positions.  An index in a tree is not  *)
(* one: it may be biased by two, or relative to the source, which is what  *)
(* shift and split say of a descent.                                       *)
(***************************************************************************)
EXTENDS FinderBase

CONSTANTS
  CYCLE,         \* bt_mask + 1
  SEARCH_DEPTH,  \* params.search_depth
  SKIP,          \* the 8 bytes a match must exceed before positions are skipped
  OPT_NUM,       \* the longest match the optimal parser plans over
  GOOD_ENOUGH,   \* good_enough_match_length
  REPEATS,       \* what repeats may already have matched, MIN_MATCH - 1 for nothing
  BIASED_FILING  \* whether btlazy2's trees are ever filed into with a bias (see README)

BIAS     == 2                 \* DICT_POS_BIAS
DUMMY    == -1                \* DUMMY_IDX
UNSORTED == 1000 * CYCLE - 2  \* DUBT_UNSORTED_MARK

Slot(index) == 2 * (index % CYCLE)

\* BinaryTreeFinder::new, zero_tables.  The cursor is kept as a virtual position.
new_tree ==
  [heads |-> [b \in 0..(BUCKETS - 1) |-> 0], children |-> [c \in 0..(2 * CYCLE - 1) |-> 0],
   next_to_update |-> P + 2]

------------------------------------------------------------------------------
(* A descent from the index `first`, to place position `at` at `curr`.     *)
(*   shift, split: how an index names its byte                             *)
(*   low, top: the indices it may pass through, low <= index < top         *)
(*   bt_low: the children of this index and of older ones are overwritten  *)
(*   limit: the end of the bytes it may compare                            *)
(*   writes: whether the position is put in place of what it passes        *)
(*   rule: what is kept of a match: nothing ("sort"), how far it reaches   *)
(*     ("file"), every longer one ("collect"), the cheapest ("cost")       *)
(*   known: the length already found; record_low: the lowest index kept;   *)
(*   enough: a match this long ends the search                             *)

ByteOf(index, d) == IF index < d.split THEN Saturating(index, BIAS) ELSE index + d.shift

Descent(at, curr, first) ==
  [at |-> at, curr |-> curr, first |-> first, shift |-> at - curr, split |-> 0,
   low |-> 0, top |-> curr, bt_low |-> Saturating(curr, CYCLE - 1), limit |-> block.hi,
   depth |-> SEARCH_DEPTH, writes |-> TRUE, rule |-> "file", known |-> SKIP, record_low |-> 0,
   enough |-> Total]

StartOf(children, d) ==
  [children |-> children, index |-> d.first, left |-> d.depth, done |-> FALSE,
   common |-> [side \in 0..1 |-> 0], ptr |-> [side \in 0..1 |-> Slot(d.curr) + side],
   best |-> d.known, from |-> -1, reach |-> d.at + SKIP + 1, found |-> {}]

highbit32(n) == CHOOSE k \in 0..10 : 2^k <= n /\ n < 2^(k + 1)

\* The price of the offset held, that of 999999999 when there is none.
OffsetBits(s, d) == IF s.from = -1 THEN 29 ELSE highbit32(d.at - s.from + 3)

Cheaper(s, d, m, n) == 4 * (n - s.best) > highbit32(d.at - m + 1) - OffsetBits(s, d)

\* What is kept of a match of n bytes at m.
Recorded(s, d, m, n) ==
  IF n <= s.best \/ d.rule = "sort" \/ s.index < d.record_low THEN s
  ELSE CASE d.rule = "file" ->
              [s EXCEPT !.best = n, !.reach = Higher(@, m + n)]
         [] d.rule = "collect" ->
              [s EXCEPT !.best = n, !.reach = Higher(@, m + n), !.found = @ \cup {<<m, n>>},
                        !.done = n > OPT_NUM \/ d.at + n >= d.limit]
         [] d.rule = "cost" ->
              [(IF Cheaper(s, d, m, n) THEN [s EXCEPT !.best = n, !.from = m] ELSE s) EXCEPT
                 !.reach = Higher(@, m + n), !.done = d.at + n >= d.limit \/ n >= d.enough]

\* On to the child on the other side of the node, which becomes ours on this side.
\* A node whose children are gone is the last.
Follow(s, d, side, n, end) ==
  LET linked == IF d.writes THEN [s EXCEPT !.children[s.ptr[side]] = s.index] ELSE s
      next   == Slot(s.index) + 1 - side
  IN  [linked EXCEPT !.common[side] = n, !.done = end, !.ptr[side] = IF end THEN DUMMY ELSE next,
                     !.index = IF end THEN @ ELSE linked.children[next]]

Compared(s, d, m, n) ==
  IF s.done \/ d.at + n >= d.limit \/ m + n >= d.limit THEN [s EXCEPT !.done = TRUE]
  ELSE Follow(s, d, IF Byte(m + n) < Byte(d.at + n) THEN 0 ELSE 1, n, s.index <= d.bt_low)

Met(s, d, m, n) == Compared([Recorded(s, d, m, n) EXCEPT !.left = @ - 1], d, m, n)

Meet(s, d, m) == Met(s, d, m, CountFrom(m, d.at, Lower(s.common[0], s.common[1]), d.limit))

Turn(s, d) ==
  IF s.done \/ s.left = 0 \/ s.index < d.low \/ s.index >= d.top THEN s
  ELSE Meet(s, d, ByteOf(s.index, d))

\* The two children still open at the end, closed.
Closed(s, d) ==
  [s EXCEPT !.children =
     IF d.writes THEN [c \in DOMAIN @ |-> IF c \in {s.ptr[0], s.ptr[1]} THEN 0 ELSE @[c]] ELSE @]

Descend(children, d) ==
  LET turns[k \in 0..d.depth] == IF k = 0 THEN StartOf(children, d) ELSE Turn(turns[k - 1], d)
  IN  Closed(turns[d.depth], d)

\* The tree with `index` at the head of v's bucket.
Headed(t, v, limit, index) == [t EXCEPT !.heads[hash_src_at(v, limit)] = index]

HeadOf(t, v, limit) == t.heads[hash_src_at(v, limit)]

\* The slot of an index, without children.
Emptied(children, index) == [children EXCEPT ![Slot(index)] = 0, ![Slot(index) + 1] = 0]

\* How far an insertion lets the next one skip.
Forward(s, v) ==
  Higher(IF s.best > UPDATE_LAG THEN Lower(s.best - UPDATE_LAG, UPDATE_SPAN) ELSE 0,
         s.reach - (v + SKIP))

\* A position filed by descent d, and where the next one goes.
FiledBy(s, t, v, d) ==
  [tree |-> [Headed(t, v, d.limit, d.curr) EXCEPT !.children = s.children], pos |-> v + Forward(s, v)]

Filed(t, v, d) == FiledBy(Descend(t.children, d), t, v, d)

------------------------------------------------------------------------------
(* Filing positions.                                                       *)

\* insert_with_floor: biased, whatever else the tree holds.
insert_with_floor(t, v, limit, lowest) ==
  IF v + MIN_MATCH > limit THEN [tree |-> t, pos |-> v + 1]
  ELSE Filed(t, v, [Descent(v, v - P + BIAS, HeadOf(t, v, limit)) EXCEPT
                      !.low = Higher(lowest, BIAS), !.limit = limit])

\* insert_range: one floor, measured from the end of the range.
insert_range(t, from, to, limit) ==
  LET end == Lower(to, hash_insert_end(limit))
      low == Higher(end - P - H, 0) + BIAS
      Step(r) == IF r.pos >= end THEN r ELSE insert_with_floor(r.tree, r.pos, limit, low)
      at[k \in 0..Saturating(end, from)] ==
        IF k = 0 THEN [tree |-> t, pos |-> from] ELSE Step(at[k - 1])
  IN  at[Saturating(end, from)].tree

\* insert_prefix_bt1: a dictionary position, compared no further than the
\* dictionary.
insert_prefix_bt1(t, v) ==
  Filed([t EXCEPT !.children = Emptied(@, v + BIAS)], v,
        [Descent(v, v + BIAS, HeadOf(t, v, P)) EXCEPT
           !.low = Higher(v - H, 0) + BIAS, !.limit = P])

\* insert_prefix_into_unified
insert_prefix_into_unified(t) ==
  LET target == P - HASH_READ
      Step(r) == IF r.pos >= target THEN r ELSE insert_prefix_bt1(r.tree, r.pos)
      at[k \in 0..Higher(target, 0)] == IF k = 0 THEN [tree |-> t, pos |-> 0] ELSE Step(at[k - 1])
  IN  at[Higher(target, 0)].tree

\* insert_prefix_chain, insert_prefix_chain_bt: every dictionary position, unbiased.
insert_prefix_chain_bt(t, v, lowest) ==
  Filed([t EXCEPT !.children = Emptied(@, v)], v,
        [Descent(v, v, HeadOf(t, v, P)) EXCEPT !.low = lowest, !.limit = P, !.rule = "sort"]).tree

insert_prefix_chain(t) ==
  LET end == Lower(P, hash_insert_end(P))
      at[k \in 0..end] == IF k = 0 THEN t ELSE insert_prefix_chain_bt(at[k - 1], k - 1, Saturating(end, H))
  IN  at[end]

\* insert_unified: the tree of the optimal parsers behind a dictionary, at `base`.
insert_unified(t, v, base, lowest) ==
  Filed(t, v, [Descent(v, v - base, HeadOf(t, v, block.hi)) EXCEPT !.low = lowest])

\* update_tree_unified, insert_range_unified: catch up with `to`.
update_tree_unified(t, to, base, lowest) ==
  LET end == Lower(to, hash_insert_end(block.hi))
      Step(r) == IF r.pos >= end THEN r ELSE insert_unified(r.tree, r.pos, base, lowest)
      at[k \in 0..Saturating(end, t.next_to_update)] ==
        IF k = 0 THEN [tree |-> t, pos |-> t.next_to_update] ELSE Step(at[k - 1])
  IN  IF t.next_to_update >= to THEN t
      ELSE [at[Saturating(end, t.next_to_update)].tree EXCEPT !.next_to_update = to]

\* The unified tree's base, and the lowest index it passes through.
UnifiedBase == IF setup.mode = "opt_prefix" THEN -BIAS ELSE P
UnifiedLow  == IF setup.mode = "opt_prefix" THEN BIAS ELSE 1

Caught(t, v) == update_tree_unified(t, v, UnifiedBase, UnifiedLow)

\* dubt_insert, dubt_insert_virtual: chained before the head, to be sorted by the
\* next search.
dubt_insert(t, v, base, limit) ==
  IF v + MIN_MATCH > limit THEN t
  ELSE [Headed(t, v, limit, v - base) EXCEPT
          !.children = [@ EXCEPT ![Slot(v - base)] = HeadOf(t, v, limit), ![Slot(v - base) + 1] = UNSORTED]]

\* dubt_insert_range, dubt_insert_range_virtual
dubt_insert_range(t, from, to, base, limit) ==
  LET end == Lower(to, hash_insert_end(limit))
      at[k \in 0..Saturating(end, from)] ==
        IF k = 0 THEN t ELSE dubt_insert(at[k - 1], from + k - 1, base, limit)
  IN  at[Saturating(end, from)]

------------------------------------------------------------------------------
(* Searching.  A result is the tree afterwards and what was found, as pairs *)
(* of the position a match starts at and its length.                       *)

\* The position put in place by a search, which lets the next one skip.
Placed(s, t, v, curr) ==
  [tree |-> [Headed(t, v, block.hi, curr) EXCEPT
               !.children = s.children, !.next_to_update = s.reach - SKIP],
   found |-> s.found]

\* insert_and_collect_matches: biased, and every match longer than the last.
insert_and_collect_matches(t, v, lowest, known) ==
  LET d == [Descent(v, v + BIAS, HeadOf(t, v, block.hi)) EXCEPT
              !.low = lowest + BIAS, !.rule = "collect", !.known = known]
  IN  Placed(Descend(t.children, d), t, v, d.curr)

NeverBack(r, least) == [r EXCEPT !.tree.next_to_update = Higher(@, least)]

\* pre_insert_hash_unified, insert_and_collect_matches_unified: a node below
\* `valid` is passed through but not kept.
insert_and_collect_matches_unified(t, v, base, lowest, valid, known) ==
  LET d == [Descent(v, v - base, HeadOf(t, v, block.hi)) EXCEPT
              !.low = lowest, !.rule = "collect", !.known = known, !.record_low = valid]
  IN  NeverBack(Placed(Descend(t.children, d), t, v, d.curr), Higher(t.next_to_update, v + 1))

\* dictionary_bt_low, dms_bt_low: measured from the dictionary, not from the source.
dictionary_bt_low(high, low) == IF CYCLE - 1 >= high - low THEN low ELSE high - (CYCLE - 1)

\* search_dict_bst: the attached dictionary's own tree, read only.
search_dict_bst(t, v, low_limit, best) ==
  Descend(t.children, [Descent(v, v + BIAS, HeadOf(t, v, block.hi)) EXCEPT
                         !.low = low_limit + 1, !.top = P + BIAS,
                         !.bt_low = dictionary_bt_low(P + BIAS, low_limit),
                         !.writes = FALSE, !.rule = "collect", !.known = best]).found

\* The match a descent that weighs length against distance is left with.
Chosen(s) == IF s.from # -1 /\ s.best >= MIN_MATCH THEN {<<s.from, s.best>>} ELSE {}

\* find_prefix_chain_match: the dictionary's tree for btlazy2.
find_prefix_chain_match(t, v, lowest) ==
  Chosen(Descend(t.children, [Descent(v, v, HeadOf(t, v, block.hi)) EXCEPT
                              !.low = lowest, !.top = P, !.bt_low = dictionary_bt_low(P, lowest),
                              !.writes = FALSE, !.rule = "cost", !.known = MIN_MATCH - 1,
                              !.enough = GOOD_ENOUGH]))

------------------------------------------------------------------------------
(* btlazy2: the newest positions of a bucket are a chain, sorted into the  *)
(* tree by the search that first meets them.  `base` and `split` are those *)
(* of the tree; `lowest` may not itself be reached.                        *)

Waiting(children, index, limit) == index > limit /\ children[Slot(index) + 1] = UNSORTED

\* The one that is left over when the budget is used up.
CutOff(s, limit) ==
  IF Waiting(s.children, s.index, limit) THEN [s EXCEPT !.children = Emptied(@, s.index)] ELSE s

Reverse1(s, limit) ==
  IF ~(Waiting(s.children, s.index, limit) /\ s.left > 1) THEN s
  ELSE [children |-> [s.children EXCEPT ![Slot(s.index) + 1] = s.prev],
        index |-> s.children[Slot(s.index)], prev |-> s.index, left |-> s.left - 1]

\* Phase 1: the chain, reversed through the slots of its marks.
Reversed(children, first, limit) ==
  LET walk[k \in 0..SEARCH_DEPTH] ==
        IF k = 0 THEN [children |-> children, index |-> first, prev |-> 0, left |-> SEARCH_DEPTH]
        ELSE Reverse1(walk[k - 1], limit)
  IN  CutOff(walk[SEARCH_DEPTH], limit)

\* dubt_insert_one, dubt_insert_one_virtual: one of them into the tree below it.
dubt_insert_one(children, curr, depth, bt_low, base, split, lowest) ==
  Descend(Emptied(children, curr),
          [Descent(curr + base, curr, children[Slot(curr)]) EXCEPT
             !.split = split, !.low = lowest + 1, !.bt_low = bt_low, !.depth = depth,
             !.rule = "sort"]).children

\* Phase 2: oldest first, each with one comparison more.
Sort1(s, limit, base, split, lowest) ==
  IF s.prev = 0 THEN s
  ELSE [s EXCEPT !.children = dubt_insert_one(@, s.prev, s.left, limit, base, split, lowest),
                 !.prev = s.children[Slot(s.prev) + 1], !.left = @ + 1]

Sorted(s, limit, base, split, lowest) ==
  LET walk[k \in 0..SEARCH_DEPTH] ==
        IF k = 0 THEN s ELSE Sort1(walk[k - 1], limit, base, split, lowest)
  IN  walk[SEARCH_DEPTH].children

Settled(s, t, v, curr) == Placed([s EXCEPT !.found = Chosen(s)], t, v, curr)

\* dubt_find_match, dubt_find_match_virtual: phase 3 puts the position in place.
dubt_find_match(t, v, base, split, lowest) ==
  LET curr  == v - base
      limit == Higher(Saturating(curr, CYCLE - 1), lowest)
      d     == [Descent(v, curr, HeadOf(t, v, block.hi)) EXCEPT
                  !.split = split, !.low = lowest + 1, !.rule = "cost", !.known = 0]
  IN  Settled(Descend(Emptied(Sorted(Reversed(t.children, d.first, limit), limit, base, split, lowest), curr), d),
              t, v, curr)

------------------------------------------------------------------------------
(* A frame's trees.  Without a prefix the encoder keeps one for the frame. *)
(* Behind a dictionary there may be a second, of the dictionary alone; the *)
(* optimal parser then keeps trees of its own.                             *)

\* ContiguousBlockMatchState::new, PrefixedBlockMatchState::new,
\* plan_sequences_binary_tree_with_prefix_from_into.
Built ==
  [tree |-> CASE setup.mode = "dubt_prefix" ->
                   [insert_prefix_into_unified(new_tree) EXCEPT !.next_to_update = P]
              [] setup.mode = "opt_prefix" -> insert_prefix_into_unified(new_tree)
              [] OTHER -> new_tree,
   dict |-> CASE setup.mode = "dubt_dict" -> insert_prefix_chain(new_tree)
              [] setup.mode = "opt_dict" -> insert_prefix_into_unified(new_tree)
              [] OTHER -> <<>>,
   pos |-> 0]

Trees == IF cur = <<>> THEN Built ELSE cur

Dubt == setup.mode \in {"dubt", "dubt_prefix", "dubt_dict"}

\* btlazy2 without a prefix searches as long as a match still fits.
SearchEnd == LastSearch(IF setup.mode = "dubt" THEN MIN_MATCH - 1 ELSE TAIL)

\* limit_update_after_long_match, for the trees the match state holds.
Clamped(t) == [t EXCEPT !.next_to_update = limited_update(@, block.lo)]

\* Entry of a parser.  The optimal parser without a prefix goes back to the block's
\* start where the last one ran past it.
TreeEnter ==
  /\ pc = "enter" /\ ~TooSmall /\ ~RunLength
  /\ pc' = "search"
  /\ cur' = [Trees EXCEPT
               !.tree = CASE setup.mode = "opt" ->
                               [Clamped(@) EXCEPT !.next_to_update = Lower(@, block.lo)]
                          [] Dubt -> Clamped(@)
                          [] OTHER -> @,
               !.pos = FirstSearch(setup.mode \in {"opt_prefix", "opt_dict"})]
  /\ UNCHANGED <<source, setup, block, found, Parser>>

\* insert_rle_block, and insert_range behind a prefix.  The cursor stays behind, and
\* the next block files the run again.
FiledRun(t) ==
  CASE setup.mode \in {"dubt", "opt"} ->
         insert_range(Clamped(t), Lower(Clamped(t).next_to_update, block.lo), block.hi, block.hi)
    [] setup.mode = "dubt_prefix" -> dubt_insert_range(t, t.next_to_update, block.hi, 0, block.hi)
    [] setup.mode = "dubt_dict" -> insert_range(t, block.lo, block.hi, block.hi)
    [] OTHER -> t

\* insert_range_for_uncompressed_block leaves the trees alone.
TreeBypass ==
  /\ pc = "enter"
  /\ \/ TooSmall /\ cur' = Trees
     \/ RunLength /\ (BIASED_FILING \/ setup.mode \notin {"dubt", "dubt_dict"})
                  /\ cur' = [Trees EXCEPT !.tree = FiledRun(@)]
  /\ pc' = "idle"
  /\ UNCHANGED <<source, setup, block, found, Parser>>

\* Mutant of stored_index_floor: source_low on its own, short by the dictionary.
stored_index_floor_short(floor) ==
  CASE setup.mode = "dubt_prefix" -> IF floor < P THEN floor + BIAS ELSE floor - P
    [] OTHER -> Saturating(floor, IF setup.mode = "dubt_dict" THEN P ELSE 0)

\* stored_index_floor: where the tree spans dictionary and source, a dictionary
\* position is stored with the bias and a source position without.
stored_index_floor(floor) ==
  CASE setup.mode = "dubt_prefix" -> IF floor < P THEN floor + BIAS ELSE floor
    [] setup.mode = "dubt_dict" -> Saturating(floor, P)
    [] OTHER -> floor

\* find_match, find_match_with_prefix: btlazy2 at v.
DubtSearch(t, v) ==
  LET base   == IF setup.mode = "dubt_dict" THEN P ELSE 0
      split  == IF setup.mode = "dubt_prefix" THEN P ELSE 0
      lowest == stored_index_floor(match_floor(v))
      caught_up == [dubt_insert_range(t, t.next_to_update, v, base, block.hi) EXCEPT !.next_to_update = v]
  IN  IF v < t.next_to_update THEN [tree |-> t, found |-> {}]
      ELSE dubt_find_match(caught_up, v, base, split, lowest)

\* collect_optimal_matches_without_prefix, collect_optimal_matches_two_phase, from the
\* tree on; `known` is the longest repeat.
OptSearch(t, v, known) ==
  IF setup.mode = "opt"
  THEN insert_and_collect_matches(insert_range(t, t.next_to_update, v, block.hi), v, match_floor(v), known)
  ELSE insert_and_collect_matches_unified(Caught(t, v), v, UnifiedBase,
         IF setup.mode = "opt_dict" THEN 1 ELSE (IF retired THEN P ELSE prefix_low) + BIAS,
         Higher(match_floor(v) - UnifiedBase, 0), known)

\* A dictionary match lets the source's tree skip what it covers.
Joined(r, d, v) ==
  LET reach == {Higher(p[1] + p[2] - SKIP, v + 1) : p \in {p \in d : p[1] + p[2] >= P}}
  IN  [tree |-> [r.tree EXCEPT !.next_to_update =
                   CHOOSE n \in reach \cup {@} : \A k \in reach \cup {@} : k <= n],
       found |-> r.found \cup d]

\* The second phase, where the dictionary has a tree of its own.
SecondPhase(r, v, known) ==
  IF setup.mode # "opt_dict" THEN r
  ELSE Joined(r, search_dict_bst(cur.dict, v, prefix_low + BIAS, Longest(r.found, known)), v)

OptPhases(v, known) == SecondPhase(OptSearch(cur.tree, v, known), v, known)

\* One search of btlazy2; the dictionary's tree is searched whether or not the
\* source's was.
TreeSearchLazy ==
  /\ pc = "search" /\ Dubt /\ cur.pos < SearchEnd
  /\ \E r \in {DubtSearch(cur.tree, cur.pos)} :
       \E d \in {IF setup.mode = "dubt_dict" THEN find_prefix_chain_match(cur.dict, cur.pos, prefix_low) ELSE {}} :
         \E step \in STRIDES \cup {p[2] : p \in r.found \cup d} :
           Goes([cur EXCEPT !.tree = r.tree], cur.pos + step, Matches(cur.pos, r.found \cup d))

CaughtUp(v) ==
  IF setup.mode = "opt" THEN insert_range(cur.tree, cur.tree.next_to_update, v, block.hi)
  ELSE Caught(cur.tree, v)

Searched(r, step) == Goes([cur EXCEPT !.tree = r.tree], cur.pos + step, Matches(cur.pos, r.found))

\* One search of the optimal parser: a position the tree has passed is not searched;
\* a repeat long enough ends the search before the tree is touched, a match in the
\* three-byte table passes the position by.
TreeSearchOptimal ==
  /\ pc = "search" /\ ~Dubt /\ cur.pos < SearchEnd
  /\ \E step \in STRIDES :
       IF cur.pos < cur.tree.next_to_update THEN Goes(cur, cur.pos + step, {})
       ELSE \/ \E known \in REPEATS :
                 Searched(OptPhases(cur.pos, known), step)
            \/ \E pass \in {0, 1} :
                 Goes([cur EXCEPT !.tree = [CaughtUp(cur.pos) EXCEPT !.next_to_update = cur.pos + pass]],
                      cur.pos + step, {})

\* insert_block_tail: btlazy2 behind a prefix files the block again, and leaves its
\* cursor where it was.
TailFiled(t) ==
  CASE setup.mode = "dubt_prefix" -> dubt_insert_range(t, t.next_to_update, block.hi, 0, block.hi)
    [] setup.mode = "dubt_dict" /\ BIASED_FILING -> insert_range(t, block.lo, block.hi, block.hi)
    [] OTHER -> t

TreeLeave ==
  /\ pc = "search" /\ cur.pos >= SearchEnd
  /\ pc' = "idle"
  /\ cur' = [cur EXCEPT !.tree = TailFiled(@), !.pos = 0]
  /\ found' = {}
  /\ UNCHANGED <<source, setup, block, Parser>>

TreeNext == TreeEnter \/ TreeBypass \/ TreeSearchLazy \/ TreeSearchOptimal \/ TreeLeave
=============================================================================
