----------------------------- MODULE LazyParsers -----------------------------
(***************************************************************************)
(* The greedy, lazy and lazy2 parsers (src/window/lazy.rs), which look up  *)
(* to two positions further before they store a match.  Six functions each *)
(* spell that walk out, and differ in where they stop, how they store a    *)
(* repeat and a match, the floor of the backward extension and that of the *)
(* chain of second repeats.  The steps of the walk are here once, and each *)
(* function's own after them, with its choices.                            *)
(***************************************************************************)
EXTENDS FastParsers

CONSTANTS
  ROW_TAIL,                       \* row_search_limit is this far before the end
  MIN_MATCH_LENGTH_AFTER_LITERALS \* params.min_match_length_after_literals

ASSUME LazyAssumption == ROW_TAIL \in Nat

lazy_search_limit == search_limit
row_search_limit  == Higher(seg.hi - ROW_TAIL, P)

Runs(parser, mode) == setup.parser = parser /\ setup.mode = mode

------------------------------------------------------------------------------
(* Which match is best.                                                    *)

highbit(n) == CHOOSE b \in 0..10 : 2^b <= n /\ n < 2^(b + 1)

\* LazyParserMatch::offbase: 1 for the first repeat.
OffbaseBits(best) == IF best.kind = "repeat" THEN 0 ELSE highbit(best.offset + 3)

lazy_repeat_match_improves(best, length, multiplier) ==
  length * multiplier > best.length * multiplier - OffbaseBits(best) + 1

lazy_regular_match_improves(best, found, bias) ==
  found.length * 4 - OffbaseBits(found) > best.length * 4 - OffbaseBits(best) + bias

NoMatch == [kind |-> "none", start |-> 0, offset |-> 0, length |-> 0]

RepeatOf(v) == [kind |-> "repeat", start |-> v, offset |-> reps[1], length |-> Count(v - reps[1], v)]

\* What a finder returns for v: nothing, or any match not below the floor.
Found(v) ==
  {NoMatch} \cup {[kind |-> "regular", start |-> v, offset |-> v - m, length |-> Count(m, v)] :
                    m \in Candidates(v, match_floor(v), MIN_MATCH)}

\* skip_after_no_match
Skip == cur.pos + ((cur.pos - anchor) \div SKIP_SEARCH_STRENGTH) + 1

------------------------------------------------------------------------------
(* The steps of the walk.                                                  *)

\* A block too short, or that starts where the walk would end, is all literals.
EnterAt(entry, limit, clamp) ==
  /\ pc = "enter"
  /\ IF seg.hi - seg.lo < MIN_MATCH \/ entry >= limit THEN Leave(reps)
     ELSE /\ reps' = clamp.reps /\ saved' = [saved EXCEPT !.inner = clamp.saved]
          /\ cur' = [pos |-> entry] /\ anchor' = seg.lo
          /\ pc' = "pos"
          /\ UNCHANGED <<Segment, hist, last>>

\* repeat_ahead_match_without_prefix, repeat_ahead_match_with_prefix_chain: the
\* repeat one position ahead, under the floor of pos.
repeat_ahead == RepeatAt(cur.pos + 1, reps[1], match_floor(cur.pos))

\* The match at pos, unless the repeat ahead is as long; a greedy parser takes the
\* repeat at once.
Best(rep, found, greedy) ==
  IF greedy /\ setup.depth = 0 /\ rep # NoMatch THEN rep
  ELSE IF found.length > rep.length THEN found ELSE rep

SearchHere(limit, ahead, greedy) ==
  /\ pc = "pos"
  /\ IF cur.pos >= limit THEN Leave(restore(reps, saved.inner))
     ELSE \E found \in Found(cur.pos) :
            LET best == Best(IF ahead THEN RepeatOf(cur.pos + 1) ELSE NoMatch, found, greedy)
            IN  IF best = NoMatch THEN Search([pos |-> Skip], "pos")
                ELSE Search([pos |-> cur.pos, best |-> best, probe |-> cur.pos],
                            IF setup.depth = 0 THEN "store" ELSE "depth1")

\* One look ahead: the first repeat and then the finder's match, each under the
\* floor of the position looked at.
Probe(v, multiplier, bias, found) ==
  LET one == IF RepeatAt(v, reps[1], match_floor(v))
                /\ lazy_repeat_match_improves(cur.best, Count(v - reps[1], v), multiplier)
             THEN RepeatOf(v) ELSE cur.best
  IN  IF found # NoMatch /\ lazy_regular_match_improves(one, found, bias) THEN found ELSE one

\* A better match restarts the two looks from where it starts.
Ahead(v, final, multiplier, bias, otherwise) ==
  IF v > final THEN Search(cur, "store")
  ELSE \E found \in Found(v) :
         LET best == Probe(v, multiplier, bias, found)
         IN  IF found # NoMatch /\ best = found
             THEN Search([cur EXCEPT !.best = best, !.probe = v], "depth1")
             ELSE Search([cur EXCEPT !.best = best], otherwise)

Depth1(final) ==
  pc = "depth1" /\ Ahead(cur.probe + 1, final, 3, 4, IF setup.depth = 2 THEN "depth2" ELSE "store")

Depth2(final) == pc = "depth2" /\ Ahead(cur.probe + 2, final, 4, 7, "store")

\* should_accept_match
should_accept_match(start, length) == start > anchor => length >= MIN_MATCH_LENGTH_AFTER_LITERALS

IsRepeat == cur.best.kind = "repeat"

\* How far a match, not a repeat, is extended back under floor.
Extended(floor) ==
  IF IsRepeat THEN 0
  ELSE Back(cur.best.start, cur.best.offset, back_floor(cur.best.start - cur.best.offset, floor))

\* The best match, `more` bytes longer, is stored as s.
Take(s, more) ==
  /\ Store(s, cur.best.start - more, cur.best.length + more)
  /\ pc' = "rep2" /\ cur' = [pos |-> cur.pos]
  /\ UNCHANGED <<Segment, saved>>

\* The second repeat straight behind a match, stored as s, as long as there is one.
Again(final, floor, s) ==
  /\ pc = "rep2"
  /\ IF anchor <= final /\ RepeatAt(anchor, reps[2], floor)
     THEN /\ Store(s, anchor, Count(anchor - reps[2], anchor))
          /\ UNCHANGED <<Segment, saved, cur, pc>>
     ELSE Search([pos |-> anchor], "pos")

------------------------------------------------------------------------------
(* plan_sequences_lazy_without_prefix_no_trace                             *)

LazyPlain == setup.parser = "lazy" /\ P = 0

LazyEnter  == LazyPlain /\ EnterAt(seg.lo, seg.hi - MIN_MATCH + 1, Unclamped)
LazySearch == LazyPlain /\ SearchHere(seg.hi - MIN_MATCH + 1, repeat_ahead, FALSE)
LazyDepth1 == LazyPlain /\ Depth1(seg.hi - MIN_MATCH)
LazyDepth2 == LazyPlain /\ Depth2(seg.hi - MIN_MATCH)

\* The match at best.start extended under the floor of pos; store_lazy_sequence_local_reps.
LazyStore ==
  /\ LazyPlain /\ pc = "store"
  /\ LET more == Extended(match_floor(cur.pos))
     IN  Take(classified(cur.best.start - more, cur.best.offset), more)

LazyRep2 == LazyPlain /\ Again(seg.hi - MIN_MATCH, match_floor(anchor), classified(anchor, reps[2]))

------------------------------------------------------------------------------
(* plan_sequences_row_without_prefix_from_into, plan_sequences_row_fast,   *)
(* row_no_dict_find_lazy_match_fast and its store.                         *)

RowPlain == setup.parser = "row" /\ P = 0

row_entry == seg.lo + (IF seg.lo = match_floor(seg.lo) THEN 1 ELSE 0)

RowEnter ==
  RowPlain /\ EnterAt(row_entry, row_search_limit, invalidate(reps, row_entry, match_floor(row_entry)))
RowSearch == RowPlain /\ SearchHere(row_search_limit, reps[1] <= cur.pos /\ repeat_ahead, TRUE)
RowDepth1 == RowPlain /\ Depth1(row_search_limit)
RowDepth2 == RowPlain /\ Depth2(row_search_limit)

\* row_no_dict_store_best_match_fast: extended as far back as the bytes agree.
RowStore ==
  /\ RowPlain /\ pc = "store"
  /\ LET more == Extended(0)
     IN  Take(classified(cur.best.start - more, cur.best.offset), more)

\* row_no_dict_store_match_and_chain_rep2_fast
RowRep2 == RowPlain /\ Again(row_search_limit, match_floor(anchor), by_value(anchor, 1))

------------------------------------------------------------------------------
(* plan_sequences_chain_dict_match_state_with_prefix_chain_from_into and   *)
(* plan_sequences_chain_ext_dict_with_prefix_chain_from_into_core.         *)

ChainDict == Runs("chain", "dict_match_state")
ChainExt  == Runs("chain", "ext_dict")

\* Only the frame's first byte is stepped over.
chain_entry == seg.lo + (IF seg.lo = P THEN 1 ELSE 0)

\* chain_prefixed_store_match_and_chain_rep2_core: extended under the floor of the
\* match's own start.
chain_prefixed_store ==
  LET more == Extended(match_floor(cur.best.start))
  IN  Take(IF IsRepeat THEN by_value(cur.best.start, 1) ELSE explicit(cur.best.offset), more)

chain_rep2 == Again(lazy_search_limit, match_floor(anchor), by_value(anchor, 1))

ChainDictEnter  == ChainDict /\ EnterAt(chain_entry, lazy_search_limit, Unclamped)
ChainDictSearch == ChainDict /\ SearchHere(lazy_search_limit, repeat_ahead, TRUE)
ChainDictDepth1 == ChainDict /\ Depth1(lazy_search_limit)
ChainDictDepth2 == ChainDict /\ Depth2(lazy_search_limit)

\* A match refused for its length is measured before it is extended.
ChainDictStore ==
  /\ ChainDict /\ pc = "store"
  /\ IF should_accept_match(cur.best.start, cur.best.length) THEN chain_prefixed_store
     ELSE Search([pos |-> Skip], "pos")
ChainDictRep2 == ChainDict /\ chain_rep2

ChainExtEnter  == ChainExt /\ EnterAt(chain_entry, lazy_search_limit, Unclamped)
ChainExtSearch == ChainExt /\ SearchHere(lazy_search_limit, repeat_ahead, TRUE)
ChainExtDepth1 == ChainExt /\ Depth1(lazy_search_limit)
ChainExtDepth2 == ChainExt /\ Depth2(lazy_search_limit)

\* Here it is measured as extended under the floor of pos, which is not the one it
\* is then stored with.
ChainExtStore ==
  /\ ChainExt /\ pc = "store"
  /\ LET more == Extended(match_floor(cur.pos))
     IN  IF should_accept_match(cur.best.start - more, cur.best.length + more)
         THEN chain_prefixed_store ELSE Search([pos |-> Skip], "pos")
ChainExtRep2 == ChainExt /\ chain_rep2

------------------------------------------------------------------------------
(* plan_sequences_lazy_with_prefix_chain_from_into                         *)

LazyPrefix == setup.parser = "lazy" /\ P > 0

LazyPrefixEnter  == LazyPrefix /\ EnterAt(seg.lo, lazy_search_limit, Unclamped)
LazyPrefixSearch == LazyPrefix /\ SearchHere(lazy_search_limit, repeat_ahead, FALSE)
LazyPrefixDepth1 == LazyPrefix /\ Depth1(lazy_search_limit)
LazyPrefixDepth2 == LazyPrefix /\ Depth2(lazy_search_limit)

LazyPrefixStore ==
  /\ LazyPrefix /\ pc = "store"
  /\ Take(IF IsRepeat THEN classified(cur.best.start, cur.best.offset) ELSE explicit(cur.best.offset),
          Extended(match_floor(cur.pos)))

LazyPrefixRep2 ==
  LazyPrefix /\ Again(lazy_search_limit, match_floor(anchor), classified(anchor, reps[2]))

------------------------------------------------------------------------------
(* plan_sequences_row_ext_dict_from_into_core                              *)

RowExt == Runs("row", "ext_dict")

RowExtEnter  == RowExt /\ EnterAt(seg.lo, row_search_limit, Unclamped)
RowExtSearch == RowExt /\ SearchHere(row_search_limit, repeat_ahead, TRUE)
RowExtDepth1 == RowExt /\ Depth1(row_search_limit - 1)
RowExtDepth2 == RowExt /\ Depth2(row_search_limit - 1)

RowExtStore ==
  /\ RowExt /\ pc = "store"
  /\ LET more == Extended(match_floor(cur.pos))
     IN  Take(classified(cur.best.start - more, cur.best.offset), more)

\* The chain keeps the floor of the position the search started from.
RowExtRep2 ==
  RowExt /\ Again(row_search_limit, match_floor(cur.pos), classified(anchor, reps[2]))

------------------------------------------------------------------------------
(* plan_sequences_row_dict_match_state_from_into_core and its two helpers. *)

RowDict == Runs("row", "dict_match_state")

RowDictEnter  == RowDict /\ EnterAt(seg.lo, row_search_limit, Unclamped)
RowDictSearch == RowDict /\ SearchHere(row_search_limit, repeat_ahead, TRUE)
RowDictDepth1 == RowDict /\ Depth1(row_search_limit - 1)
RowDictDepth2 == RowDict /\ Depth2(row_search_limit - 1)

RowDictStore ==
  /\ RowDict /\ pc = "store"
  /\ Take(IF IsRepeat THEN by_value(cur.best.start, 1) ELSE explicit(cur.best.offset),
          Extended(match_floor(cur.best.start)))

RowDictRep2 == RowDict /\ Again(row_search_limit, match_floor(anchor), by_value(anchor, 1))

------------------------------------------------------------------------------
LazyNext ==
  \/ LazyEnter \/ LazySearch \/ LazyDepth1 \/ LazyDepth2 \/ LazyStore \/ LazyRep2
  \/ RowEnter \/ RowSearch \/ RowDepth1 \/ RowDepth2 \/ RowStore \/ RowRep2
  \/ ChainDictEnter \/ ChainDictSearch \/ ChainDictDepth1 \/ ChainDictDepth2
  \/ ChainDictStore \/ ChainDictRep2
  \/ ChainExtEnter \/ ChainExtSearch \/ ChainExtDepth1 \/ ChainExtDepth2
  \/ ChainExtStore \/ ChainExtRep2
  \/ LazyPrefixEnter \/ LazyPrefixSearch \/ LazyPrefixDepth1 \/ LazyPrefixDepth2
  \/ LazyPrefixStore \/ LazyPrefixRep2
  \/ RowExtEnter \/ RowExtSearch \/ RowExtDepth1 \/ RowExtDepth2 \/ RowExtStore \/ RowExtRep2
  \/ RowDictEnter \/ RowDictSearch \/ RowDictDepth1 \/ RowDictDepth2
  \/ RowDictStore \/ RowDictRep2
=============================================================================
