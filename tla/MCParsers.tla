------------------------------ MODULE MCParsers ------------------------------
(***************************************************************************)
(* The parsers over a few strings of two bytes, in frames of two or three  *)
(* blocks, without a dictionary and with one that the window outlives.     *)
(***************************************************************************)
EXTENDS OptimalParser

MCHistory == 9

plain(parser, depth, long) ==
  [parser |-> parser, mode |-> "none", depth |-> depth, prefix_len |-> 0, history |-> MCHistory,
   reps |-> DefaultReps, ldm |-> long]
prefixed(parser, mode, depth, long) ==
  [parser |-> parser, mode |-> mode, depth |-> depth, prefix_len |-> 8, history |-> MCHistory,
   reps |-> <<7, 2, 1>>, ldm |-> long]

Modes == {"ext_dict", "dict_match_state"}

MCSetups ==
  {plain(p, 0, l) : p \in {"fast", "double_fast"}, l \in BOOLEAN}
  \cup {plain(p, d, FALSE) : p \in {"lazy", "row"}, d \in 0..2}
  \cup {prefixed(p, m, 0, l) : p \in {"fast", "double_fast"}, m \in Modes, l \in BOOLEAN}
  \cup {prefixed(p, m, d, FALSE) : p \in {"chain", "row"}, m \in Modes, d \in 0..2}
  \cup {prefixed("lazy", "none", d, FALSE) : d \in 0..2}
  \cup {plain("optimal", u, l) : u \in 0..1, l \in BOOLEAN}
  \cup {prefixed("optimal", m, u, l) : m \in Modes, u \in 0..1, l \in BOOLEAN}

\* A word over and over, and one that changes half-way.
Repeated(word, n) == [i \in 1..n |-> word[((i - 1) % Len(word)) + 1]]
Turned(first, second, n) ==
  [i \in 1..n |-> IF i <= n \div 2 THEN Repeated(first, n)[i] ELSE Repeated(second, n)[i]]

MCSources ==
  {Repeated(w, 24) : w \in {<<0,1,1,2,0,2,2,1,0,0>>, <<0,1,2,0,0,1,1,2,2,1,0,2>>, <<0,0,1>>}}
  \cup {Turned(<<0,1,0,2,1>>, <<0,2,1,0>>, 24), Turned(<<0,1,2,3,4,5,6>>, <<0,1,2,4,5,3>>, 24)}
=============================================================================
