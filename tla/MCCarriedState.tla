---------------------------- MODULE MCCarriedState ---------------------------
(***************************************************************************)
(* What a frame's blocks hand on to the next.  The repeat-offset history,  *)
(* at both levels it is kept: stepped match by match (RepcodeLockstep,     *)
(* every distance up to 6, from the default history and from dictionaries  *)
(* whose repeats coincide or are adjacent), and through the blocks and     *)
(* sub-blocks of a frame (BlockSplit).  And the entropy tables             *)
(* (CarriedTables), with and without a dictionary, whose table may or may  *)
(* not code everything.  And the statistics the optimal parser prices from *)
(* (PriceModel), at every level it has, from a dictionary and not.  The    *)
(* four share no state: a behaviour is one of them.                        *)
(***************************************************************************)
EXTENDS RepcodeLockstep, BlockSplit, CarriedTables, PriceModel

MCInitialReps == {DefaultReps, <<2, 2, 1>>, <<3, 1, 2>>}

FrameStart(table, mode, huffman, strategy, disabled) ==
  [dictionary |-> table, repeat_mode |-> mode, huffman_table |-> huffman,
   strategy |-> strategy, disabled |-> disabled]

Plain == FrameStart(NoTable, "None", NoTable, "fast", TRUE)

MCFrameStarts ==
  {Plain}
  \cup {FrameStart(NoTable, "None", NoTable, s, FALSE) : s \in {"fast", "lazy"}}
  \cup {FrameStart(Table(0, {"a", "b"}), "Check", Table(0, {"x", "y"}), "lazy", FALSE),
        FrameStart(Table(0, Codes), "Valid", Table(0, Bytes), "fast", FALSE)}

PriceFrame(ultra, twice, compressed, seed) ==
  [ultra |-> ultra, twice |-> twice, compressed |-> compressed, seed |-> seed]

\* A dictionary that codes one byte and one sequence code.
Seed ==
  [huffman |-> [b \in PricedBytes |-> IF b = 0 THEN 1 ELSE 0], codes |-> [c \in PricedCodes |-> c]]

MCPriceFrames ==
  {PriceFrame(ultra, FALSE, compressed, NoStats) : ultra \in BOOLEAN, compressed \in BOOLEAN}
  \cup {PriceFrame(TRUE, TRUE, TRUE, NoStats), PriceFrame(TRUE, FALSE, TRUE, Seed),
        PriceFrame(FALSE, FALSE, FALSE, Seed)}

FirstFrame == PriceFrame(FALSE, FALSE, FALSE, NoStats)

MCBaseFrequencies == [c \in PricedCodes |-> 1 + c]

MCPricedBlocks == {[b \in PricedBytes |-> p[b + 1]] : p \in {<<3, 0>>, <<1, 7>>, <<7, 2>>}}

VARIABLE machine

AllInit ==
  /\ Init /\ FrameInit /\ CarriedInit /\ PriceInit
  /\ \/ machine = "match by match" /\ start = Plain /\ price_frame = FirstFrame
     \/ machine = "frame" /\ encoder = DefaultReps /\ start = Plain /\ price_frame = FirstFrame
     \/ machine = "tables" /\ encoder = DefaultReps /\ price_frame = FirstFrame
     \/ machine = "prices" /\ encoder = DefaultReps /\ start = Plain

AllNext ==
  /\ UNCHANGED machine
  /\ \/ machine = "match by match" /\ Next /\ UNCHANGED <<frameVars, carriedVars, priceVars>>
     \/ machine = "frame" /\ FrameNext /\ UNCHANGED <<vars, carriedVars, priceVars>>
     \/ machine = "tables" /\ CarriedNext /\ UNCHANGED <<vars, frameVars, priceVars>>
     \/ machine = "prices" /\ PriceNext /\ UNCHANGED <<vars, frameVars, carriedVars>>

AllSpec == AllInit /\ [][AllNext]_<<machine, vars, frameVars, carriedVars, priceVars>>
=============================================================================
