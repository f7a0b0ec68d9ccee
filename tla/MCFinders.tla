------------------------------ MODULE MCFinders ------------------------------
(***************************************************************************)
(* The match finders over short strings, in frames of a few blocks.        *)
(***************************************************************************)
EXTENDS TreeFinder, TableFinders

Init == FinderInit
Next == TakeBlock \/ (setup.parser = "tree" /\ TreeNext) \/ (setup.parser = "table" /\ TableNext)
Spec == Init /\ [][Next]_finderVars

\* A block is no longer than the history.
finder(parser, mode, depth, prefix_len) ==
  [parser |-> parser, mode |-> mode, depth |-> depth, prefix_len |-> prefix_len,
   history |-> IF parser = "tree" THEN 9 ELSE 14,
   reps |-> DefaultReps, ldm |-> FALSE]

TableSetups ==
  {finder("table", m, d, 0) : m \in {"chain", "row"}, d \in {0, 2}}
  \cup {finder("table", m, d, 7) : m \in {"chain_ext", "chain_dict", "row_ext", "row_dict"}, d \in {0, 2}}

MCSetups ==
  {finder("tree", m, 0, 0) : m \in {"dubt", "opt"}}
  \cup {finder("tree", m, 0, 7) : m \in {"dubt_prefix", "dubt_dict", "opt_prefix", "opt_dict"}}
  \cup TableSetups

Repeated(word, n) == [i \in 1..n |-> word[((i - 1) % Len(word)) + 1]]
MCSources == {Repeated(w, 25) : w \in {<<0,1,1,0,1,0,0,1,1>>, <<0,0,1,0,0,1,1>>, <<0,0,0,0,0,1,0,0,0,1>>,
                                     <<0,0,1,0,1,1,0,0,0,0,0,0,0,0,0,0,1,0>>}}

\* Frames in which btlazy2's tree is filed into with a bias: one with a run-length
\* block in the middle, and one of two blocks behind an attached dictionary.
BiasSetups == {finder("tree", "dubt", 0, 0), finder("tree", "dubt_dict", 0, 5)}
BiasSources == {<<1,0,1,1,1,1,1,0,1,0,0,0,0,0,1,1,1,0,1>>,
                <<2,2,2,2,2,1,1,0,1,0,0,0,0,1,1,1,0,1,0>>}
=============================================================================
