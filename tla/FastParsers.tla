----------------------------- MODULE FastParsers -----------------------------
(***************************************************************************)
(* The Fast and DoubleFast parsers (src/window/fast.rs, double_fast.rs):   *)
(* without a prefix, over a prefix joined to the source ("ext_dict"), and  *)
(* over a dictionary with tables of its own ("dict_match_state").  The     *)
(* first kind keeps two offsets of its own and reads a repeat without      *)
(* looking at the window; the others keep all three.  Fast turns to the    *)
(* first kind once a prefix has retired, DoubleFast does not.  Each is a   *)
(* function of its own, and here a group of actions of its own.            *)
(***************************************************************************)
EXTENDS ParserBase

CONSTANTS
  STEP_INCREMENT,        \* fast_step_increment
  SKIP_SEARCH_STRENGTH   \* skip_search_strength, as the divisor 2^strength

ASSUME FastAssumption == STEP_INCREMENT \in Nat /\ SKIP_SEARCH_STRENGTH \in Positive

FastStep == 2        \* fast_step_size
DictStep == 1        \* fast_dict_match_step_size

Fast   == setup.parser = "fast"
Double == setup.parser = "double_fast"

\* The parsers that keep two offsets.
pair == P = 0 \/ (Fast /\ retired)

------------------------------------------------------------------------------
(* The steps they share.                                                   *)

\* A segment too short to search is all literals, its offsets untouched.
EnterAtIp(entry, clamp) ==
  /\ pc = "enter"
  /\ IF seg.hi - seg.lo < MIN_MATCH \/ entry >= search_limit THEN Leave(reps)
     ELSE /\ reps' = clamp.reps /\ saved' = [saved EXCEPT !.inner = clamp.saved]
          /\ cur' = [ip0 |-> entry] /\ anchor' = seg.lo
          /\ pc' = "start"
          /\ UNCHANGED <<Segment, hist, last>>

Unclamped == [reps |-> reps, saved |-> NothingAside]

Finish == Leave(restore(reps, saved.inner))

\* Go on searching with these cursors.
Search(cursors, where) ==
  cur' = cursors /\ pc' = where /\ UNCHANGED <<Segment, Storage, Offsets>>

\* A sequence has been stored from here; the chain of second repeats follows.
Chained == pc' = "chain" /\ UNCHANGED <<Segment, saved, cur>>

\* The match at v with the bytes at m, with two offsets: extended
\* as far back as the bytes agree (store_explicit_sequence_no_trace).
TakePair(v, m) ==
  LET k == Back(v, v - m, P)
  IN  Store(pair_explicit(v - m), v - k, Count(m, v) + k) /\ Chained

\* ... and with three: extended in the region it starts in
\* (extend_back_logical_match_with_min_start, store_lazy_regular_sequence_with_source).
TakeLogical(v, m) ==
  LET k == Back(v, v - m, back_floor(m, window_low))
  IN  Store(explicit(v - m), v - k, Count(m, v) + k) /\ Chained

\* The repeat at v, `more` bytes earlier, stored as s.
TakeRepeat(s, v, more) == Store(s, v - more, Count(v - reps[1], v) + more) /\ Chained

\* Second repeats, each stored as s, while there is one at the anchor.
SecondRepeats(floor, s) ==
  /\ pc = "chain"
  /\ IF anchor <= search_limit /\ RepeatAt(anchor, reps[2], floor)
     THEN /\ Store(s, anchor, Count(anchor - reps[2], anchor))
          /\ UNCHANGED <<Segment, saved, cur, pc>>
     ELSE Search([ip0 |-> anchor], "start")

\* 'start: four cursors, the last two a step ahead.
Pipeline ==
  /\ pc = "start"
  /\ LET ip2 == cur.ip0 + FastStep
     IN  IF ip2 + 1 >= search_limit THEN Finish
         ELSE Search([ip0 |-> cur.ip0, ip1 |-> cur.ip0 + 1, ip2 |-> ip2, ip3 |-> ip2 + 1,
                      step |-> FastStep, next_step |-> cur.ip0 + STEP_INCREMENT], "first")

\* No match at the first look: the cursors move up by one.
ShiftByOne == Search([cur EXCEPT !.ip0 = cur.ip1, !.ip1 = cur.ip2, !.ip2 = cur.ip3], "second")

\* Nor at the second: they move up by a step, which grows.
ShiftByStep ==
  LET ip2   == cur.ip1 + cur.step
      ip3   == cur.ip2 + cur.step
      grown == IF ip2 >= cur.next_step THEN 1 ELSE 0
  IN  IF ip3 >= search_limit THEN Finish
      ELSE Search([ip0 |-> cur.ip1, ip1 |-> cur.ip2, ip2 |-> ip2, ip3 |-> ip3,
                   step |-> cur.step + grown,
                   next_step |-> cur.next_step + grown * STEP_INCREMENT], "first")

\* Two cursors, the second a growing step ahead.
TwoCursors(step) ==
  Search([ip0 |-> cur.ip0, ip1 |-> cur.ip0 + step, step |-> step,
          next_step |-> cur.ip0 + 2 * STEP_INCREMENT], "look")

StepOn ==
  LET grown == IF cur.ip1 >= cur.next_step THEN 1 ELSE 0
      step  == cur.step + grown
  IN  IF cur.ip1 + step > search_limit THEN Finish
      ELSE Search([ip0 |-> cur.ip1, ip1 |-> cur.ip1 + step, step |-> step,
                   next_step |-> cur.next_step + grown * 2 * STEP_INCREMENT], "look")

\* The double-fast parsers behind a prefix skip by the distance searched.
SkipOn == Search([ip0 |-> cur.ip0 + ((cur.ip0 - anchor) \div SKIP_SEARCH_STRENGTH) + 1], "start")

\* The repeat looked for one byte ahead.
RepeatAhead == RepeatAt(cur.ip0 + 1, reps[1], window_low)

------------------------------------------------------------------------------
(* plan_sequences_fast_without_prefix_inner_no_trace                       *)

FastPlain == Fast /\ pair

\* The first byte is stepped over when nothing lies before it.
FastEntry == seg.lo + (IF seg.lo = window_low THEN 1 ELSE 0)

FastEnter   == FastPlain /\ EnterAtIp(FastEntry, invalidate(reps, FastEntry, rep_window_low))
FastStart   == FastPlain /\ Pipeline

\* The repeat at ip2: the bytes are compared with no test of the window, for which
\* the clamp on entry stands.
FastRepeatFound == reps[1] # 0 /\ Count(cur.ip2 - reps[1], cur.ip2) >= MIN_MATCH

\* ... which takes one byte before it, if that agrees.
FastRepeat ==
  /\ FastPlain /\ pc = "first" /\ FastRepeatFound
  /\ LET more == IF cur.ip2 > anchor /\ Byte(cur.ip2 - 1) = Byte(cur.ip2 - reps[1] - 1) THEN 1 ELSE 0
     IN  TakeRepeat(pair_repeat(cur.ip2 - more, reps[1]), cur.ip2, more)

\* The table's candidate for ip0, at the first and at the second look.
FastMatch ==
  /\ FastPlain /\ (pc = "second" \/ (pc = "first" /\ ~FastRepeatFound))
  /\ \E m \in Candidates(cur.ip0, window_low, MIN_MATCH) : TakePair(cur.ip0, m)

FastSecondLook == FastPlain /\ pc = "first" /\ ~FastRepeatFound /\ ShiftByOne
FastAdvance    == FastPlain /\ pc = "second" /\ ShiftByStep

\* chain_rep2_fast_no_trace: value 1, and the two offsets change places.
chained_pair == [value |-> 1, reps |-> <<reps[2], reps[1], reps[3]>>]

FastChain == FastPlain /\ SecondRepeats(rep_window_low, chained_pair)

------------------------------------------------------------------------------
(* plan_sequences_fast_with_prefix_inner, over the joined prefix.          *)

FastExt == Fast /\ ~pair /\ setup.mode = "ext_dict"

FastExtEnter == FastExt /\ EnterAtIp(seg.lo, invalidate(reps, seg.lo, window_low))
FastExtStart == FastExt /\ Pipeline

FastExtFound == RepeatAt(cur.ip2, reps[1], window_low)

FastExtRepeat ==
  /\ FastExt /\ pc = "first" /\ FastExtFound
  /\ LET m    == cur.ip2 - reps[1]
         more == IF cur.ip2 > anchor /\ m - 1 >= window_low /\ Byte(cur.ip2 - 1) = Byte(m - 1)
                 THEN 1 ELSE 0
     IN  TakeRepeat(classified(cur.ip2 - more, reps[1]), cur.ip2, more)

FastExtFirst ==
  /\ FastExt /\ pc = "first" /\ ~FastExtFound
  /\ \E m \in Candidates(cur.ip0, window_low, MIN_MATCH) : TakeLogical(cur.ip0, m)

FastExtSecondLook == FastExt /\ pc = "first" /\ ~FastExtFound /\ ShiftByOne

FastExtSecond ==
  /\ FastExt /\ pc = "second"
  /\ \E m \in Candidates(cur.ip0, window_low, MIN_MATCH) : TakeLogical(cur.ip0, m)

FastExtAdvance == FastExt /\ pc = "second" /\ ShiftByStep
FastExtChain   == FastExt /\ SecondRepeats(window_low, classified(anchor, reps[2]))

------------------------------------------------------------------------------
(* plan_sequences_fast_with_prepared_dict_from_into                        *)

FastDict == Fast /\ ~pair /\ setup.mode = "dict_match_state"

FastDictEnter == FastDict /\ EnterAtIp(seg.lo, Unclamped)

FastDictStart ==
  /\ FastDict /\ pc = "start"
  /\ IF cur.ip0 + DictStep > search_limit THEN Finish ELSE TwoCursors(DictStep)

FastDictRepeat ==
  /\ FastDict /\ pc = "look" /\ RepeatAhead
  /\ TakeRepeat(classified(cur.ip0 + 1, reps[1]), cur.ip0 + 1, 0)

FastDictMatch ==
  /\ FastDict /\ pc = "look" /\ ~RepeatAhead
  /\ \E m \in Candidates(cur.ip0, window_low, MIN_MATCH) : TakeLogical(cur.ip0, m)

FastDictAdvance == FastDict /\ pc = "look" /\ ~RepeatAhead /\ StepOn
FastDictChain   == FastDict /\ SecondRepeats(window_low, classified(anchor, reps[2]))

------------------------------------------------------------------------------
(* plan_sequences_double_fast_without_prefix_inner_no_trace                *)

DoublePlain == Double /\ pair

DoubleEnter == DoublePlain /\ EnterAtIp(FastEntry, invalidate(reps, FastEntry, rep_window_low))

DoubleStart ==
  /\ DoublePlain /\ pc = "start"
  /\ IF cur.ip0 + 1 > search_limit THEN Finish ELSE TwoCursors(1)

\* Again with no test of the window.
DoubleRepeatFound == reps[1] # 0 /\ Count(cur.ip0 + 1 - reps[1], cur.ip0 + 1) >= MIN_MATCH

DoubleRepeat ==
  /\ DoublePlain /\ pc = "look" /\ DoubleRepeatFound
  /\ TakeRepeat(pair_repeat(cur.ip0 + 1, reps[1]), cur.ip0 + 1, 0)

\* The long table's candidate.
DoubleLong ==
  /\ DoublePlain /\ pc = "look" /\ ~DoubleRepeatFound
  /\ \E m \in Candidates(cur.ip0, window_low, LONG_MATCH) : TakePair(cur.ip0, m)

\* The short table's candidate, unless the next position has a longer long one.
DoubleShort ==
  /\ DoublePlain /\ pc = "look" /\ ~DoubleRepeatFound
  /\ \E m \in Candidates(cur.ip0, window_low, MIN_MATCH) :
       \/ TakePair(cur.ip0, m)
       \/ \E n \in Candidates(cur.ip1, window_low, LONG_MATCH) :
            Count(n, cur.ip1) > Count(m, cur.ip0) /\ TakePair(cur.ip1, n)

DoubleAdvance == DoublePlain /\ pc = "look" /\ ~DoubleRepeatFound /\ StepOn
DoubleChain   == DoublePlain /\ SecondRepeats(rep_window_low, chained_pair)

------------------------------------------------------------------------------
(* plan_sequences_double_fast_with_ext_dict_from_into                      *)

DoubleExt == Double /\ ~pair /\ setup.mode = "ext_dict"

DoubleExtEnter == DoubleExt /\ EnterAtIp(seg.lo, Unclamped)

DoubleExtStart ==
  /\ DoubleExt /\ pc = "start"
  /\ IF cur.ip0 >= search_limit THEN Finish ELSE TwoCursors(1)

DoubleExtRepeat ==
  /\ DoubleExt /\ pc = "look" /\ RepeatAhead
  /\ TakeRepeat(classified(cur.ip0 + 1, reps[1]), cur.ip0 + 1, 0)

DoubleExtLong ==
  /\ DoubleExt /\ pc = "look" /\ ~RepeatAhead
  /\ \E m \in Candidates(cur.ip0, window_low, LONG_MATCH) : TakeLogical(cur.ip0, m)

DoubleExtShort ==
  /\ DoubleExt /\ pc = "look" /\ ~RepeatAhead
  /\ \E m \in Candidates(cur.ip0, window_low, MIN_MATCH) :
       \/ TakeLogical(cur.ip0, m)
       \/ \E n \in Candidates(cur.ip1, window_low, LONG_MATCH) :
            Count(n, cur.ip1) > Count(m, cur.ip0) /\ TakeLogical(cur.ip1, n)

DoubleExtSkip  == DoubleExt /\ pc = "look" /\ ~RepeatAhead /\ SkipOn
DoubleExtChain == DoubleExt /\ SecondRepeats(window_low, classified(anchor, reps[2]))

------------------------------------------------------------------------------
(* plan_sequences_double_fast_with_prepared_dict_inner                     *)

DoubleDict == Double /\ ~pair /\ setup.mode = "dict_match_state"

DoubleDictEnter == DoubleDict /\ EnterAtIp(seg.lo, Unclamped)

DoubleDictStart ==
  /\ DoubleDict /\ pc = "start"
  /\ IF cur.ip0 >= search_limit THEN Finish ELSE TwoCursors(1)

DoubleDictRepeat ==
  /\ DoubleDict /\ pc = "look" /\ RepeatAhead
  /\ TakeRepeat(classified(cur.ip0 + 1, reps[1]), cur.ip0 + 1, 0)

DoubleDictLong ==
  /\ DoubleDict /\ pc = "look" /\ ~RepeatAhead
  /\ \E m \in Candidates(cur.ip0, window_low, LONG_MATCH) : TakeLogical(cur.ip0, m)

\* The next position's long match is compared as it is when extended backwards.
NextLength(n) == Count(n, cur.ip1) + Back(cur.ip1, cur.ip1 - n, back_floor(n, window_low))

DoubleDictShort ==
  /\ DoubleDict /\ pc = "look" /\ ~RepeatAhead
  /\ \E m \in Candidates(cur.ip0, window_low, MIN_MATCH) :
       \/ TakeLogical(cur.ip0, m)
       \/ \E n \in Candidates(cur.ip1, window_low, LONG_MATCH) :
            NextLength(n) > Count(m, cur.ip0) /\ TakeLogical(cur.ip1, n)

DoubleDictSkip  == DoubleDict /\ pc = "look" /\ ~RepeatAhead /\ SkipOn
DoubleDictChain == DoubleDict /\ SecondRepeats(window_low, classified(anchor, reps[2]))

------------------------------------------------------------------------------
FastNext ==
  \/ FastEnter \/ FastStart \/ FastRepeat \/ FastMatch \/ FastSecondLook \/ FastAdvance \/ FastChain
  \/ FastExtEnter \/ FastExtStart \/ FastExtRepeat \/ FastExtFirst \/ FastExtSecondLook
  \/ FastExtSecond \/ FastExtAdvance \/ FastExtChain
  \/ FastDictEnter \/ FastDictStart \/ FastDictRepeat \/ FastDictMatch \/ FastDictAdvance
  \/ FastDictChain
  \/ DoubleEnter \/ DoubleStart \/ DoubleRepeat \/ DoubleLong \/ DoubleShort \/ DoubleAdvance
  \/ DoubleChain
  \/ DoubleExtEnter \/ DoubleExtStart \/ DoubleExtRepeat \/ DoubleExtLong \/ DoubleExtShort
  \/ DoubleExtSkip \/ DoubleExtChain
  \/ DoubleDictEnter \/ DoubleDictStart \/ DoubleDictRepeat \/ DoubleDictLong \/ DoubleDictShort
  \/ DoubleDictSkip \/ DoubleDictChain

\* A repeat compared without a test of the window lies in the source all the same,
\* and so does the byte before it that Fast looks at: the clamp on entry, and that
\* no later match leaves a longer offset behind, are all that keeps the unchecked
\* read inside the slice.
RepeatReadsInBounds ==
  pair /\ pc \in {"first", "look"} /\ reps[1] # 0 =>
    IF Fast THEN cur.ip2 - reps[1] - 1 >= P ELSE cur.ip0 + 1 - reps[1] >= P
=============================================================================
