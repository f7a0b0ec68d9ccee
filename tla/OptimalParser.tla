---------------------------- MODULE OptimalParser ----------------------------
(***************************************************************************)
(* The optimal parser (src/window/opt.rs): a shortest path over the next   *)
(* OPT_NUM positions, walked back and emitted.  What can go wrong is in    *)
(* the path and not in the prices: a candidate's value is classified       *)
(* against the offsets of one node and emitted behind another's literals.  *)
(* So which of two reachable paths is cheaper is left open, and only a     *)
(* price of MAX_PRICE, that of a node nothing reaches, is kept.            *)
(***************************************************************************)
EXTENDS LazyParsers

CONSTANTS
  OPT_NUM,      \* how far the path looks ahead
  SUFFICIENT,   \* sufficient_len: a longer match is taken at once
  OVERLAP       \* how near the dictionary's end a repeat may not start

ASSUME OptimalAssumption == OPT_NUM \in Positive

Optimal  == setup.parser = "optimal"
IS_ULTRA == setup.depth = 1

\* The two functions: without a prefix, and over a dictionary, copied into the one
\* tree ("ext_dict") or attached with a tree of its own ("dict_match_state").
OptPlain    == Optimal /\ P = 0
OptTwoPhase == Optimal /\ P > 0
attached    == setup.mode = "dict_match_state"

------------------------------------------------------------------------------
(* Candidates.                                                             *)

classify_offset(offsets, d, ll_zero) == encode_offset_value_and_update(offsets, d, ll_zero).value

Longest(list) == IF list = <<>> THEN MIN_MATCH - 1 ELSE list[Len(list)].length

\* push_optimal_candidate
Candidate(v, d, offsets, ll_zero) ==
  [value |-> classify_offset(offsets, d, ll_zero), length |-> Count(v - d, v)]

\* ZSTD_index_overlap_check: a repeat of the two-phase search does not start in the
\* last bytes of the dictionary.
overlaps(m) == P > 0 /\ m < P /\ P - 1 - m < OVERLAP

\* One repeat of collect_optimal_matches_*: kept when it is above the floor and
\* longer than the last.
WithRepeat(list, v, d, offsets, ll_zero) ==
  IF d # 0 /\ v - d >= match_floor(v) /\ ~overlaps(v - d) /\ Count(v - d, v) > Longest(list)
  THEN Append(list, Candidate(v, d, offsets, ll_zero)) ELSE list

\* Nothing longer is looked for.
Enough(list, v) ==
  list # <<>> /\ (Longest(list) > SUFFICIENT \/ v + Longest(list) >= seg.hi)

\* The repeats in the order they are tried, up to the first that is enough.
Repeats(v, offsets, ll_zero) ==
  LET tried == IF ll_zero THEN <<offsets[2], offsets[3], OneLess(offsets[1])>> ELSE offsets
      next(list, i) == IF Enough(list, v) THEN list ELSE WithRepeat(list, v, tried[i], offsets, ll_zero)
  IN  next(next(next(<<>>, 1), 2), 3)

\* What a further search of the positions `from` may add to the lists: one match
\* longer than the list's, unless that is enough.
Grown(lists, v, from, offsets, ll_zero) ==
  lists \cup UNION {{Append(list, Candidate(v, v - m, offsets, ll_zero)) :
                       m \in {m \in Candidates(v, match_floor(v), MIN_MATCH) \cap from :
                               ~Enough(list, v) /\ Count(m, v) > Longest(list)}} : list \in lists}

\* LdmCandidates::offer, add_match: what is left of the long-distance match from
\* here, never as a repeat.
Offer(list, v) ==
  IF /\ ldm # Nothing
     /\ v \in ldm.start..(ldm.start + ldm.length - 1)
     /\ ldm.start + ldm.length - v > Longest(list)
  THEN Append(list, [value |-> ldm.offset + 3, length |-> ldm.start + ldm.length - v])
  ELSE list

\* Hash3Table::insert_and_find: only where no repeat was found, and in the source.
ShortHash(found, v, offsets, ll_zero) ==
  IF found = <<>> THEN Grown({found}, v, P..(v - 1), offsets, ll_zero) ELSE {found}

\* collect_optimal_matches_without_prefix: the repeats, the three-byte hash, the
\* tree.  A position already in the tree is not searched, and still takes the
\* long-distance match.
CollectedPlain(v, offsets, ll_zero) ==
  {Offer(list, v) : list \in
     {<<>>} \cup Grown(ShortHash(Repeats(v, offsets, ll_zero), v, offsets, ll_zero), v,
                       0..(v - 1), offsets, ll_zero)}

\* collect_optimal_matches_two_phase: the tree of the source, which holds a copied
\* dictionary too, and then an attached dictionary's own.  A position already in
\* the tree is passed over altogether.
CollectedTwoPhase(v, offsets, ll_zero) ==
  LET short  == ShortHash(Repeats(v, offsets, ll_zero), v, offsets, ll_zero)
      source_matches == Grown(short, v, (IF attached THEN P ELSE 0)..(v - 1), offsets, ll_zero)
      matches == IF attached THEN Grown(source_matches, v, 0..(P - 1), offsets, ll_zero)
                 ELSE source_matches
  IN  {<<>>} \cup {Offer(list, v) : list \in matches}

Collected(v, offsets, ll_zero) ==
  IF P = 0 THEN CollectedPlain(v, offsets, ll_zero) ELSE CollectedTwoPhase(v, offsets, ll_zero)

------------------------------------------------------------------------------
(* The path.  A node says how a position is best reached: by a match of    *)
(* mlen that ends litlen before it, or, with mlen 0, by a literal.         *)

\* A node at MAX_PRICE: nothing else in it may be read.
Unreached == [reached |-> FALSE, off |-> 0, mlen |-> 2 * OPT_NUM, litlen |-> 0, reps |-> <<0, 0, 0>>]

MatchEnd(value, n) == [reached |-> TRUE, off |-> value, mlen |-> n, litlen |-> 0, reps |-> <<0, 0, 0>>]

horizon == Lower(OPT_NUM, seg.hi - cur.ip)

\* The candidate a match of n is made from: the first that is long enough.
For(list, n) == CHOOSE i \in DOMAIN list : list[i].length >= n
                                           /\ \A j \in 1..(i - 1) : list[j].length < n

\* init_optimal_match_nodes
InitNodes(list) ==
  [p \in 0..OPT_NUM |->
     IF p = 0 THEN [reached |-> TRUE, off |-> 0, mlen |-> 0, litlen |-> cur.ip - anchor, reps |-> reps]
     ELSE IF p \in MIN_MATCH..Lower(Longest(list), horizon) THEN MatchEnd(list[For(list, p)].value, p)
     ELSE Unreached]

\* update_optimal_literal_node: the literal behind the node before.
Literal(nodes, p) ==
  [reached |-> TRUE, off |-> 0, mlen |-> 0, litlen |-> nodes[p - 1].litlen + 1, reps |-> nodes[p - 1].reps]

\* Mutant of EndReps: the offsets as they were before the match.
EndRepsStale(nodes, node, at) == nodes[at - node.mlen].reps

\* The offsets behind a match that ends at `at`, from the node it starts at.
EndReps(nodes, node, at) ==
  LET from == nodes[at - node.mlen]
  IN  resolve_values(from.reps, from.litlen = 0, node.off).reps

\* The node at p once it is reached, by the match that ends there or by a literal.
Settled(nodes, p, by_literal) ==
  IF by_literal THEN Literal(nodes, p)
  ELSE IF nodes[p].litlen = 0
       THEN [nodes[p] EXCEPT !.reps = EndReps(nodes, nodes[p], p)] ELSE nodes[p]

\* update_optimal_match_nodes: the matches from p that are cheaper than what was
\* known, and those that reach further than anything did.
WithMatches(nodes, p, last_pos, list, cheaper) ==
  [q \in 0..OPT_NUM |->
     LET n == q - p
     IN  IF n \in MIN_MATCH..Longest(list) /\ (q > last_pos \/ q \in cheaper)
         THEN MatchEnd(list[For(list, n)].value, n)
         ELSE IF q > last_pos THEN Unreached ELSE nodes[q]]

\* Where the match that a node belongs to ends, walking back over literals.
MatchBefore(nodes, p) ==
  CHOOSE q \in 0..p : (q = 0 \/ nodes[q].mlen # 0) /\ \A r \in (q + 1)..p : nodes[r].mlen = 0

Start(node, q) == q - node.mlen - node.litlen

\* backtrace_optimal_path: the sequences from node 0 to p.
backtrace(nodes, p) ==
  LET path[q \in 0..p] ==
        IF nodes[q].mlen = 0 THEN <<>>
        ELSE LET prev == Start(nodes[q], q)
             IN  Append(path[MatchBefore(nodes, prev)],
                        [literals |-> nodes[prev].litlen, value |-> nodes[q].off, length |-> nodes[q].mlen])
  IN  path[MatchBefore(nodes, p)]

------------------------------------------------------------------------------
(* The walk.                                                               *)

EnterOptimal(ip) ==
  /\ pc = "enter"
  /\ IF seg.hi - seg.lo < MIN_MATCH THEN Leave(reps)
     ELSE Search([ip |-> ip], "optimal")

\* What is emitted, and from where the parse goes on if that is nothing.
Emit(path, ip) == Search([ip |-> ip, path |-> path], "emit")

\* The candidates at ip: none, one that is enough, or the start of a path.
StartPath ==
  /\ pc = "optimal"
  /\ IF cur.ip >= search_limit THEN Leave(reps)
     ELSE \E list \in Collected(cur.ip, reps, cur.ip = anchor) :
            IF list = <<>> THEN Search([ip |-> cur.ip + 1], "optimal")
            ELSE IF Longest(list) > SUFFICIENT
            THEN Emit(<<[literals |-> cur.ip - anchor, value |-> list[Len(list)].value,
                         length |-> Longest(list)]>>, cur.ip)
            ELSE Search([ip |-> cur.ip, nodes |-> InitNodes(list), at |-> 1,
                         last_pos |-> Lower(Longest(list), horizon)], "path")

\* The path is walked back from p and the match `stretch`, if there is one, put
\* behind it; nothing at all moves ip over the literals.
EndPath(nodes, p, stretch) ==
  LET path == backtrace(nodes, p)
      behind == nodes[p].litlen
  IN  IF stretch = Nothing
      THEN Emit(path, IF path = <<>> THEN anchor + behind ELSE cur.ip)
      ELSE Emit(Append(path, [stretch EXCEPT !.literals = behind]), cur.ip)

\* The next position of the path, or its end.
Onward(nodes, last_pos) ==
  IF cur.at = last_pos THEN EndPath(nodes, cur.at, Nothing)
  ELSE Search([cur EXCEPT !.nodes = nodes, !.last_pos = last_pos, !.at = cur.at + 1], "path")

\* The candidates at `at`: a match that leaves the horizon, the block or is long
\* enough ends the path there.
SearchFrom(nodes, last_pos) ==
  \E list \in Collected(cur.ip + cur.at, nodes[cur.at].reps, nodes[cur.at].litlen = 0) :
    IF list = <<>> THEN Onward(nodes, last_pos)
    ELSE IF Longest(list) > SUFFICIENT \/ cur.at + Longest(list) >= horizon
    THEN EndPath(nodes, cur.at, [literals |-> 0, value |-> list[Len(list)].value,
                                 length |-> Longest(list)])
    ELSE LET reach == cur.at + Longest(list)
         IN  \E cheaper \in SUBSET ((cur.at + MIN_MATCH)..Lower(reach, last_pos)) :
               Onward(WithMatches(nodes, cur.at, last_pos, list, cheaper), Higher(reach, last_pos))

\* Past the search limit nothing is looked for, nor at the end of the path; the
\* parser that is not ultra also passes by a node whose next one is as cheap.
GoOn(nodes, last_pos) ==
  IF cur.ip + cur.at > search_limit \/ cur.at = last_pos THEN Onward(nodes, last_pos)
  ELSE SearchFrom(nodes, last_pos) \/ (~IS_ULTRA /\ Onward(nodes, last_pos))

\* The node at `at` is reached by the match that ends there or by a literal, and
\* its offsets follow.
PathStep ==
  /\ pc = "path"
  /\ \E by_literal \in IF cur.nodes[cur.at].reached THEN BOOLEAN ELSE {TRUE} :
       GoOn([cur.nodes EXCEPT ![cur.at] = Settled(cur.nodes, cur.at, by_literal)], cur.last_pos)

\* btultra: the match a literal has replaced stays, with one literal behind it.
PathStepKept ==
  /\ pc = "path" /\ IS_ULTRA
  /\ LET was   == cur.nodes[cur.at]
         nodes == [cur.nodes EXCEPT ![cur.at] = Settled(cur.nodes, cur.at, TRUE)]
         kept  == [was EXCEPT !.litlen = 1, !.reps = EndReps(nodes, was, cur.at)]
     IN  /\ was.reached /\ was.litlen = 0 /\ cur.at + 1 <= horizon
         /\ GoOn([nodes EXCEPT ![cur.at + 1] = kept], Higher(cur.last_pos, cur.at + 1))

\* emit_optimal_sequence, then on from the anchor.
EmitSequence ==
  /\ pc = "emit" /\ cur.path # <<>>
  /\ LET s == Head(cur.path)
     IN  Store(by_value(anchor + s.literals, s.value), anchor + s.literals, s.length)
  /\ IF Len(cur.path) > 1 THEN pc' = pc /\ cur' = [cur EXCEPT !.path = Tail(cur.path)]
     ELSE pc' = "optimal" /\ cur' = [ip |-> anchor']
  /\ UNCHANGED <<Segment, saved>>

SkipLiterals ==
  /\ pc = "emit" /\ cur.path = <<>>
  /\ Search([ip |-> cur.ip], "optimal")

------------------------------------------------------------------------------
(* plan_sequences_optimal_without_prefix_into                              *)

OptEnter == OptPlain /\ EnterOptimal(seg.lo)
OptStart == OptPlain /\ StartPath
OptPath  == OptPlain /\ PathStep
OptKept  == OptPlain /\ PathStepKept
OptEmit  == OptPlain /\ EmitSequence
OptSkip  == OptPlain /\ SkipLiterals

(* plan_sequences_optimal_with_prefix_two_phase_into: the first byte of    *)
(* the source is not searched.                                             *)

OptDictEnter == OptTwoPhase /\ EnterOptimal(seg.lo + (IF seg.lo = P THEN 1 ELSE 0))
OptDictStart == OptTwoPhase /\ StartPath
OptDictPath  == OptTwoPhase /\ PathStep
OptDictKept  == OptTwoPhase /\ PathStepKept
OptDictEmit  == OptTwoPhase /\ EmitSequence
OptDictSkip  == OptTwoPhase /\ SkipLiterals

OptimalNext ==
  \/ OptEnter \/ OptStart \/ OptPath \/ OptKept \/ OptEmit \/ OptSkip
  \/ OptDictEnter \/ OptDictStart \/ OptDictPath \/ OptDictKept \/ OptDictEmit \/ OptDictSkip

\* Every parser's steps, one parser to a frame.
ParsersNext == ParserNext \/ FastNext \/ LazyNext \/ OptimalNext
ParsersSpec == ParserInit /\ [][ParsersNext]_vars
=============================================================================
