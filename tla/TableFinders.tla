---------------------------- MODULE TableFinders ----------------------------
(***************************************************************************)
(* The hash chains (MatchFinder) and hash rows (RowHashFinder) of          *)
(* src/window/lazy.rs under the greedy and lazy parsers.  A chain links    *)
(* each position to the one its bucket held before it, in slots reused     *)
(* once a cycle has gone by; a row keeps the last positions of its bucket  *)
(* with a tag for each.  The hashes a row search files under were computed *)
(* some positions earlier and kept in a ring, and every jump of the parser *)
(* must leave the ring in step.                                            *)
(*                                                                         *)
(* Tables hold virtual positions; `base` is where the table's own begin.   *)
(***************************************************************************)
EXTENDS FinderBase, Sequences

CONSTANTS
  CHAIN_CYCLE,      \* previous.len()
  ATTEMPTS,         \* search_depth, 1 << search_log
  ROWS, ROW_MASK,   \* rows, and the entries of one besides its cursor
  CACHE,            \* ROW_HASH_CACHE_SIZE
  SKIP_THRESHOLD,   \* a catch-up longer than this is cut short
  FROM_START, FROM_END,   \* to the first and last of its positions
  LAZY_STEP,        \* LAZY_SKIPPING_STEP
  JUMPS             \* how far the match a repeat offset gives may reach

NO_POS == -1

Chains   == setup.mode \in {"chain", "chain_ext", "chain_dict"}
Prefixed == P > 0

------------------------------------------------------------------------------
(* Hash chains.                                                            *)

\* MatchFinder::with_chain_log, reset.
new_chain(base) ==
  [heads |-> [b \in 0..(BUCKETS - 1) |-> NO_POS], previous |-> [i \in 0..(CHAIN_CYCLE - 1) |-> NO_POS],
   base |-> base, next_to_update |-> base]

previous_index(t, v) == (v - t.base) % CHAIN_CYCLE

\* insert_direct, insert_prefix_chain_pos_direct
insert_direct(t, v, limit) ==
  LET h == hash_src_at(v, limit)
  IN  IF v + MIN_MATCH > limit THEN t
      ELSE [t EXCEPT !.previous[previous_index(t, v)] = t.heads[h], !.heads[h] = v]

\* The positions from..to-1.
LinkedTo(t, from, to, limit) ==
  LET at[k \in 0..Saturating(to, from)] ==
        IF k = 0 THEN t ELSE insert_direct(at[k - 1], from + k - 1, limit)
  IN  at[Saturating(to, from)]

\* insert_prefix_chain, and what prepares a dictionary once for all its frames.
insert_prefix_chain_links(t) ==
  [LinkedTo(t, 0, hash_insert_end(P), P) EXCEPT !.next_to_update = hash_insert_end(P)]
insert_prefix_chain_for_cdict(t) ==
  [LinkedTo(t, 0, P - HASH_READ, P) EXCEPT !.next_to_update = P]

\* insert: one position, unless the cursor has passed it.
insert_chain(t, v) ==
  IF v + MIN_MATCH > block.hi \/ v < t.next_to_update THEN t
  ELSE [insert_direct(t, v, block.hi) EXCEPT !.next_to_update = v + 1]

\* insert_range, insert_ext_dict_range
insert_chain_range(t, from, to) ==
  LET end   == Lower(to, hash_insert_end(block.hi))
      start == Lower(Higher(from, t.next_to_update), end)
  IN  [LinkedTo(t, start, end, block.hi) EXCEPT !.next_to_update = Higher(@, end)]

\* insert_and_find_first_index, catchup_ext_dict_insert: while skipping lazily, only
\* the first of the positions passed is filed.
Catchup(t, v, lazy) ==
  LET start == Higher(Lower(t.next_to_update, v), P)
  IN  [LinkedTo(t, start, IF lazy THEN Lower(start + 1, v) ELSE v, block.hi) EXCEPT !.next_to_update = v]

\* Mutant of MinChain: no end to a chain but its own.
MinChainNone(t, v) == NO_POS

\* min_chain, source_min_chain, dict_min_chain: the links of this position and of older
\* ones are overwritten.
MinChain(t, v) == v - CHAIN_CYCLE

\* A walk along the chain from `at`; every match longer than the ones before is kept.
Walked(s, t, v, low, min_chain) ==
  IF s.done \/ s.left = 0 \/ s.at < Higher(low, 0) THEN [s EXCEPT !.done = TRUE]
  ELSE LET n == CountFrom(s.at, v, 0, block.hi)
       IN  [at |-> t.previous[previous_index(t, s.at)], left |-> s.left - 1,
            best |-> Higher(s.best, n), visited |-> Append(s.visited, s.at),
            found |-> s.found \cup (IF n > s.best THEN {<<s.at, n>>} ELSE {}),
            done |-> s.at <= min_chain \/ (n > s.best /\ v + n = block.hi)]

Walk(s, t, v, low, min_chain) ==
  LET at[k \in 0..ATTEMPTS] == IF k = 0 THEN s ELSE Walked(at[k - 1], t, v, low, min_chain)
  IN  at[ATTEMPTS]

WalkFrom(first, left, best) ==
  [at |-> first, left |-> left, best |-> best, found |-> {}, visited |-> << >>, done |-> FALSE]

\* lookup, lookup_prefix_chain
Lookup(t, v, end) ==
  LET head == t.heads[hash_src_at(v, block.hi)] IN IF head < end THEN head ELSE NO_POS

\* find_match, best_chain_ext_dict_regular_match, and the first half of
\* best_chain_dict_match_state_regular_match: the low limit is the floor, in the
\* dictionary or in the source.
ChainSource(t, v, low) ==
  Walk(WalkFrom(Lookup(t, v, v), ATTEMPTS, MIN_MATCH - 1), t, v, low, MinChain(t, v))

\* ... and the second: the dictionary's chain, with the attempts that are left.
ChainDict(s, v) ==
  IF setup.mode # "chain_dict" \/ s.best = block.hi - v THEN {}
  ELSE Walk(WalkFrom(Lookup(cur.dict, v, P), s.left, s.best), cur.dict, v, Lower(match_floor(v), P),
            MinChain(cur.dict, P)).found

\* The generic parser brings the chain up to the position itself.
BroughtUp(t, v) ==
  CASE setup.mode # "chain" -> Catchup(t, v, cur.lazy)
    [] cur.until >= v -> t
    [] cur.lazy /\ cur.held = 0 -> t
    [] cur.lazy -> insert_chain(t, v - 1)
    [] OTHER -> insert_chain_range(t, cur.until, v)

------------------------------------------------------------------------------
(* Hash rows.                                                              *)

\* row_hash_src_at: its row and its tag.
RowHash(v) == LET h == Byte(v) + 2 * Byte(v + 1) IN [row |-> h % ROWS, tag |-> h \div ROWS]

\* RowHashFinder::new, reset.  An empty entry reads as the first position under tag 0.
new_rows(base) ==
  [rows |-> [r \in 0..(ROWS - 1) |->
               [head |-> 0, entries |-> [i \in 1..ROW_MASK |-> [tag |-> 0, pos |-> NO_POS]]]],
   cache |-> [i \in 0..(CACHE - 1) |-> [row |-> 0, tag |-> 0]], base |-> base, next_to_update |-> base,
   hashed |-> 0]

\* row_next_insert_index
row_next_insert_index(head) == IF head <= 1 THEN ROW_MASK ELSE head - 1

\* insert_row_position
insert_row_position(t, h, v) ==
  LET next == row_next_insert_index(t.rows[h.row].head)
  IN  [t EXCEPT !.rows[h.row] = [head |-> next, entries |-> [@.entries EXCEPT ![next] = [tag |-> h.tag, pos |-> v]]]]

\* A hash read without a check.
Reads(t, v) == [t EXCEPT !.hashed = Higher(@, v)]

\* The positions from..to-1, hashed on the spot.
RowsTo(t, from, to) ==
  LET at[k \in 0..Saturating(to, from)] ==
        IF k = 0 THEN t ELSE insert_row_position(at[k - 1], RowHash(from + k - 1), from + k - 1)
  IN  [at[Saturating(to, from)] EXCEPT !.next_to_update = to]

row_insert_end(limit, base) == Higher(limit - HASH_READ + 1, base)

\* insert_prefix
insert_prefix_rows(t) == RowsTo(t, 0, row_insert_end(P, 0))

\* RowHashFinder::insert_range: the cursor may go back.
insert_rows_range(t, from, to) ==
  LET end == Lower(to, row_insert_end(block.hi, P))
  IN  RowsTo(t, Lower(Higher(from, t.next_to_update), end), end)

\* fill_hash_cache_from
fill_hash_cache_from(t, start, limit) ==
  IF start > limit THEN t
  ELSE Reads([t EXCEPT !.cache = [i \in DOMAIN @ |->
                LET v == CHOOSE v \in start..(start + CACHE - 1) : v % CACHE = i
                IN  IF v <= limit THEN RowHash(v) ELSE @[i]]], Lower(start + CACHE - 1, limit))

\* next_cached_hash: the ring's hash of v makes room for that of v + CACHE.
Rolled(t, v) == Reads([t EXCEPT !.cache[v % CACHE] = RowHash(v + CACHE)], v + CACHE)

\* update_internal_cached_range
CachedTo(t, from, to) ==
  LET at[k \in 0..Saturating(to, from)] ==
        IF k = 0 THEN t
        ELSE LET v == from + k - 1
                 Filed1(u) == insert_row_position(Rolled(u, v), u.cache[v % CACHE], v)
             IN  Filed1(at[k - 1])
  IN  at[Saturating(to, from)]

\* Mutant of CutShort: the ring is left where the first positions took it.
CutShortKeepsRing(t, from, v) == CachedTo(t, from, Lower(from + FROM_START, v))

\* A long gap is filed at its two ends only.
CutShort(t, from, v) ==
  fill_hash_cache_from(CachedTo(t, from, Lower(from + FROM_START, v)), v - FROM_END, v + 1)

\* update_internal_with_context
update_internal(t, v) ==
  LET from == Lower(t.next_to_update, v)
  IN  [(IF v - from > SKIP_THRESHOLD THEN CachedTo(CutShort(t, from, v), v - FROM_END, v)
        ELSE CachedTo(t, from, v)) EXCEPT !.next_to_update = v]

\* row_collect_match_indices_no_positions, row_get_match_mask: from the cursor on,
\* every entry under the tag, until one is too old or the attempts are used up.
Collect1(s, t, row, h, i, low, end) ==
  LET slot == (row.head + i) % (ROW_MASK + 1)
      v    == IF row.entries[slot].pos = NO_POS THEN t.base ELSE row.entries[slot].pos
  IN  CASE s.done \/ s.left = 0 \/ slot = 0 -> s
        [] row.entries[slot].tag # h.tag -> s
        [] v < low -> [s EXCEPT !.done = TRUE]
        [] v >= end -> s
        [] OTHER -> [s EXCEPT !.left = @ - 1, !.visited = Append(@, v)]

Collected(t, row, h, low, end, left) ==
  LET at[k \in 0..(ROW_MASK + 1)] ==
        IF k = 0 THEN [left |-> left, visited |-> << >>, done |-> row.head = 0]
        ELSE Collect1(at[k - 1], t, row, h, k - 1, low, end)
  IN  at[ROW_MASK + 1]

\* The matches among the collected, each longer than the ones before.
Improving(visited, v, least) ==
  LET n(i) == CountFrom(visited[i], v, 0, block.hi)
  IN  {<<visited[i], n(i)>> : i \in {i \in DOMAIN visited :
         n(i) > least /\ \A j \in 1..(i - 1) : n(j) < n(i)}}

\* find_source_match_fast: the hash of v, the table that yields it ...
RowReady(t, v) ==
  IF cur.lazy THEN Reads([t EXCEPT !.next_to_update = v], v) ELSE update_internal(t, v)

RowHashAt(t, v) == IF cur.lazy THEN RowHash(v) ELSE t.cache[v % CACHE]

\* ... and the search, which files v behind what it collected.
RowFiled(t, v, h) ==
  [insert_row_position(IF cur.lazy THEN t ELSE Rolled(t, v), h, v) EXCEPT !.next_to_update = v + 1]

\* find_ext_dict_match_with_budget, find_dict_match_state_match_with_budget: a match
\* may run out of the dictionary; where the dictionary is attached it may not begin
\* too near its end.
RowDict(v, left, best) ==
  LET h == RowHash(v)
      c == Collected(cur.dict, cur.dict.rows[h.row], h, Lower(match_floor(v), P), v, left).visited
      reach == IF setup.mode = "row_dict" THEN P - MIN_MATCH ELSE P - 1
  IN  Improving(SelectSeq(c, LAMBDA m : m <= reach), v, best)

------------------------------------------------------------------------------
(* The parsers.  cur: the tables, the position, whether lazy skipping is    *)
(* on, the end of the match held while looking ahead (0 for none) and for  *)
(* how many positions, what the last search visited, and inserted_until.   *)

TablesBuilt ==
  LET base == IF setup.mode = "chain_ext" THEN 0 ELSE P
      dict == IF ~Prefixed THEN << >>
              ELSE CASE setup.mode = "chain_ext" -> insert_prefix_chain_links(new_chain(0))
                     [] setup.mode = "chain_dict" -> insert_prefix_chain_for_cdict(new_chain(0))
                     [] OTHER -> insert_prefix_rows(new_rows(0))
  IN  [table |-> CASE setup.mode = "chain_ext" -> dict
                   [] Chains -> new_chain(base)
                   [] OTHER -> new_rows(base),
       dict |-> dict, pos |-> 0, lazy |-> FALSE, held |-> 0, ahead |-> 0, visited |-> << >>, until |-> 0]

Tables == IF cur = << >> THEN TablesBuilt ELSE cur

\* row_search_limit, lazy_search_limit, and the generic parser's loop; a parser that
\* looks ahead may search one position further, but not over rows behind a dictionary.
Limit ==
  LastSearch(CASE setup.mode = "chain" -> MIN_MATCH - 1 [] Chains -> TAIL [] OTHER -> TAIL + CACHE)

AheadLimit == IF setup.mode \in {"chain", "row_ext", "row_dict"} THEN Limit ELSE Limit + 1

insert_table_range(t, from, to) ==
  IF Chains THEN insert_chain_range(t, from, to) ELSE insert_rows_range(t, from, to)

\* limit_update_after_long_match; behind a prefix these finders are never behind.
TableClamped(t) == IF Prefixed THEN t ELSE [t EXCEPT !.next_to_update = limited_update(@, block.lo)]

\* refill_hash_cache
Refilled(t) == IF Chains THEN t ELSE fill_hash_cache_from(t, t.next_to_update, Limit)

\* Entry.  A parser that finds its block too short to search leaves at once.
TableEnter ==
  /\ pc = "enter" /\ ~TooSmall /\ ~RunLength
  /\ pc' = "search"
  /\ \E pos \in {FirstSearch(setup.mode \in {"chain_ext", "chain_dict"}
                             \/ (setup.mode = "row" /\ match_floor(block.lo) = block.lo))} :
       cur' = [Tables EXCEPT !.pos = pos, !.until = block.lo,
                             !.table = IF pos >= Limit THEN TableClamped(@) ELSE Refilled(TableClamped(@))]
  /\ UNCHANGED <<source, setup, block, found, Parser>>

\* insert_range_for_uncompressed_block and insert_rle_block, from the cursor where
\* there is no prefix (bypassed_insert_start).
TableBypass ==
  /\ pc = "enter" /\ (TooSmall \/ RunLength)
  /\ \E t \in {IF RunLength THEN TableClamped(Tables.table) ELSE Tables.table} :
       cur' = [Tables EXCEPT !.table = insert_table_range(t,
                 IF Prefixed THEN block.lo ELSE Lower(t.next_to_update, block.lo), block.hi)]
  /\ pc' = "idle"
  /\ UNCHANGED <<source, setup, block, found, Parser>>

\* One search at v: the table afterwards, what it visited and what it found.
ChainResult(s, t, v) == [table |-> t, visited |-> s.visited, found |-> s.found \cup ChainDict(s, v)]

ChainSearchIn(t, v) ==
  ChainResult(ChainSource(t, v, IF setup.mode = "chain_dict" THEN Higher(match_floor(v), P) ELSE match_floor(v)), t, v)

RowResult(c, t, h, v, own) ==
  [table |-> RowFiled(t, v, h), visited |-> c.visited,
   found |-> own \cup (IF Prefixed THEN RowDict(v, c.left, Longest(own, MIN_MATCH - 1)) ELSE {})]

RowCollected(c, t, h, v) == RowResult(c, t, h, v, Improving(c.visited, v, MIN_MATCH - 1))

RowSearchIn(t, h, v) ==
  RowCollected(Collected(t, t.rows[h.row], h, Higher(match_floor(v), P), v, ATTEMPTS), t, h, v)

RowSearchAt(t, v) == RowSearchIn(t, RowHashAt(t, v), v)

Search(v) ==
  IF Chains THEN ChainSearchIn(BroughtUp(cur.table, v), v) ELSE RowSearchAt(RowReady(cur.table, v), v)

\* The ends of the match the parser may now hold: found here, held before, or given
\* by a repeat offset.
Held(r) ==
  {e \in {cur.pos + p[2] : p \in r.found} \cup {cur.held} \cup {cur.pos + j : j \in JUMPS} :
     e > cur.pos /\ e <= block.hi}

Went(t, r, pos, lazy, held, ahead, until) ==
  Goes([cur EXCEPT !.table = t, !.lazy = lazy, !.held = held, !.ahead = ahead, !.visited = r.visited, !.until = until],
       pos, Matches(cur.pos, r.found))

\* inserted_until, once the generic parser has searched.
Until == IF cur.lazy /\ cur.held = 0 THEN cur.until ELSE Higher(cur.until, cur.pos)

\* No match: on by a stride, which grows; a long one turns lazy skipping on.
MoveOn(r) ==
  /\ cur.held = 0 /\ r.found = {}
  /\ \E step \in STRIDES :
       LET skips == step > LAZY_STEP
           entered == setup.mode = "chain" /\ skips /\ ~cur.lazy
       IN  /\ cur.lazy => skips
           /\ Went(IF entered THEN insert_chain(r.table, cur.pos) ELSE r.table, r, cur.pos + step, skips, 0, 0,
                   IF skips THEN Lower(cur.pos + step, block.hi) ELSE Until)

\* Mutant of Landed: the ring is not refilled.
LandedUnfilled(t) == t

\* The table once a match is stored: after lazy skipping the ring is behind.
Landed(t) == IF cur.lazy THEN Refilled(t) ELSE t

Take(r) == \E e \in Held(r) : Went(Landed(r.table), r, e, FALSE, 0, 0, Until)

\* Look ahead by one position, and by a second when that gave nothing better.
LookAhead(r) ==
  /\ setup.depth > 0 /\ cur.pos + 1 < AheadLimit
  /\ \E e \in Held(r) :
       \E ahead \in {IF e = cur.held THEN cur.ahead + 1 ELSE 1} :
         /\ ahead <= setup.depth
         /\ Went(r.table, r, cur.pos + 1, cur.lazy, e, ahead, Until)

Searching == pc = "search" /\ cur.pos < IF cur.held > 0 THEN AheadLimit ELSE Limit

TableSearch == Searching /\ \E r \in {Search(cur.pos)} : MoveOn(r) \/ Take(r) \/ LookAhead(r)

\* The greedy parsers take a repeat without searching.
TableRepeat ==
  /\ Searching /\ setup.depth = 0 /\ setup.mode # "chain"
  /\ \E e \in {cur.pos + j + 1 : j \in JUMPS} :
       e <= block.hi /\ Went(Landed(cur.table), [found |-> {}, visited |-> << >>], e, FALSE, 0, 0, cur.until)

\* The parser stops.  Behind a prefix the rest of the block is filed
\* (insert_block_tail).
TableLeave ==
  /\ pc = "search" /\ cur.held = 0 /\ cur.pos >= Limit
  /\ pc' = "idle" /\ found' = {}
  /\ cur' = [cur EXCEPT !.pos = 0, !.lazy = FALSE, !.visited = << >>,
                        !.table = IF Prefixed THEN insert_table_range(@, block.lo, block.hi) ELSE @]
  /\ UNCHANGED <<source, setup, block, Parser>>

TableNext == TableEnter \/ TableBypass \/ TableSearch \/ TableRepeat \/ TableLeave

------------------------------------------------------------------------------

\* Every entry of a row stands in the row, and under the tag, of the bytes it names:
\* the ring the hashes come from was in step at every filing.
RowsHoldTheirHashes ==
  \A r \in 0..(ROWS - 1) : \A i \in 1..ROW_MASK :
    LET e == cur.table.rows[r].entries[i]
    IN  e.pos # NO_POS => RowHash(e.pos) = [row |-> r, tag |-> e.tag]

\* A search only ever goes further back: a link that was overwritten is not followed,
\* and no position was filed twice.  (An empty entry of a row reads as the first
\* position, again and again.)
WalksGoBack ==
  \A i \in DOMAIN cur.visited : i > 1 =>
    cur.visited[i] < cur.visited[i - 1] \/ (~Chains /\ cur.visited[i] = cur.table.base)

\* The finders' tables are in step with the parser: rows with their hashes, chains with
\* their cycle, and the hashes read ahead without a check with the end of the block.
SearchesInStep ==
  setup.parser = "table" /\ cur # << >> =>
    /\ WalksGoBack
    /\ ~Chains => RowsHoldTheirHashes
    /\ ~Chains /\ cur.table.hashed > 0 => cur.table.hashed + HASH_READ <= block.hi
=============================================================================
