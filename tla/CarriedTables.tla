---------------------------- MODULE CarriedTables ----------------------------
(***************************************************************************)
(* The entropy tables a frame's blocks hand on.  The encoder may code a    *)
(* block with the last block's tables and say only "repeat"; the decoder   *)
(* then uses the ones it has.  In between, a block may be tried and lose   *)
(* to a raw one after its tables were built, a table may come from a       *)
(* dictionary, and both ends keep more than one copy of it: the encoder    *)
(* builds into a pool of recycled allocations (SequenceTablePool), the     *)
(* decoder keeps the table it was given and the form it decodes with       *)
(* (SequenceTablesState).                                                  *)
(*                                                                         *)
(* One of the three sequence parts stands for all, since they share        *)
(* nothing but the block; literals are the other table.  A table is        *)
(* [made, symbols]: which block made it and what it can code.  A block     *)
(* here is a whole block or one of the pieces it was split into.  What     *)
(* costs decide (which modes pay, whether the block wins) is left open.    *)
(***************************************************************************)
EXTENDS Integers, FiniteSets, Functions

CONSTANTS
  Codes,                               \* the codes of the part
  DefaultCodes,                        \* those its predefined table covers
  Bytes,                               \* the literals' alphabet
  FAST_SELECTOR_REPEAT_MAX_SEQUENCES,  \* the fast selector repeats below this
  FrameStarts,                         \* encoders, with the tables their dictionary gives them
  MaxCount,                            \* bound: times a block uses a code
  CarriedBlocks                        \* bound: blocks of the frame

ASSUME CarriedAssumption ==
  /\ DefaultCodes \subseteq Codes /\ IsFiniteSet(Codes) /\ IsFiniteSet(Bytes)
  /\ FAST_SELECTOR_REPEAT_MAX_SEQUENCES \in Nat /\ CarriedBlocks \in Nat
  /\ MaxCount \in Nat

\* A table's maker is the block's number, or 0 for a dictionary and -1 for the format.
Table(made, symbols) == [made |-> made, symbols |-> symbols]
NoTable == Table(-2, {})
predefined == Table(-1, DefaultCodes)

\* Where a built table lives.  Two slots, the carried state and a table being built
\* can hold four at most; a dictionary's table is shared and outside the pool.
Addresses == 1..4
InDictionary == 5
Nowhere == 0
Unset == [table |-> Nowhere, repeat_mode |-> "None"]

VARIABLES
  start,            \* the encoder and its dictionary
  pool,             \* table_pool: the slots of the part
  heap,             \* what each allocation holds
  sequence_tables,  \* the encoder's carried table and its repeat mode
  literals_state,   \* the encoder's carried Huffman table
  tables,           \* the decoder's SequenceTablesState, for the part
  huffman_table,    \* the decoder's LiteralsState
  tried,            \* blocks tried so far
  verdict           \* "ok", or what went wrong first

carriedVars == <<start, pool, heap, sequence_tables, literals_state, tables, huffman_table,
                 tried, verdict>>

\* LiteralsEncodingState::new, SequenceTablesState::with_tables and the tables of the
\* dictionary, which both ends have.
CarriedInit ==
  /\ start \in FrameStarts
  /\ pool = [i \in 1..2 |-> Nowhere]
  /\ heap = [a \in Addresses \cup {InDictionary} |->
               IF a = InDictionary THEN start.dictionary ELSE NoTable]
  /\ sequence_tables = IF start.dictionary = NoTable THEN Unset
                       ELSE [table |-> InDictionary, repeat_mode |-> start.repeat_mode]
  /\ literals_state = start.huffman_table
  /\ tables = [slot |-> start.dictionary, seq |-> NoTable,
               has |-> start.dictionary # NoTable, dirty |-> TRUE]
  /\ huffman_table = start.huffman_table
  /\ tried = 0 /\ verdict = "ok"

-----------------------------------------------------------------------------
\* The encoder.

strong_count(a) ==
  Cardinality({i \in 1..2 : pool[i] = a}) + (IF sequence_tables.table = a THEN 1 ELSE 0)

Lowest(S) == CHOOSE i \in S : \A j \in S : i <= j

\* Mutant of SequenceTablePool::build: a slot is reused whoever else holds it.
build_in_first(table) ==
  LET a == IF pool[1] = Nowhere THEN 1 ELSE pool[1]
  IN  [pool |-> [pool EXCEPT ![1] = a], heap |-> [heap EXCEPT ![a] = table], at |-> a]

\* SequenceTablePool::build: into the first allocation nobody else holds, else into an
\* empty slot, else in the place of the first.
build(table) ==
  LET free   == {i \in 1..2 : pool[i] # Nowhere /\ strong_count(pool[i]) = 1}
      empty  == {i \in 1..2 : pool[i] = Nowhere}
      chosen == IF free # {} THEN Lowest(free) ELSE IF empty # {} THEN Lowest(empty) ELSE 1
      a      == IF free # {} THEN pool[chosen] ELSE Lowest({b \in Addresses : strong_count(b) = 0})
  IN  [pool |-> [pool EXCEPT ![chosen] = a], heap |-> [heap EXCEPT ![a] = table], at |-> a]

Unbuilt == [pool |-> pool, heap |-> heap, at |-> Nowhere]

Seen(counts) == {c \in Codes : counts[c] > 0}
total(counts) == SumFunction(counts)

\* default_allowed, of the highest code seen: codes past the predefined table's last.
default_allowed(counts) == Seen(counts) \subseteq DefaultCodes

repeats(counts, modes) ==
  sequence_tables.repeat_mode \in modes /\ Seen(counts) \subseteq heap[sequence_tables.table].symbols

\* select_table_choice and its fast path: the modes their costs may settle on.
select_table_choice(counts) ==
  IF Cardinality(Seen(counts)) = 1
  THEN {IF default_allowed(counts) /\ total(counts) <= 2 THEN "Predefined" ELSE "Rle"}
  ELSE IF start.strategy = "lazy"
  THEN {m \in {"Predefined", "Repeat", "FseCompressed"} :
          /\ m = "Predefined" => default_allowed(counts)
          /\ m = "Repeat"     => repeats(counts, {"Check", "Valid"})}
  ELSE IF ~default_allowed(counts) THEN {"FseCompressed"}
  ELSE IF repeats(counts, {"Valid"}) /\ total(counts) < FAST_SELECTOR_REPEAT_MAX_SEQUENCES
  THEN {"Repeat"}
  ELSE {"Predefined", "FseCompressed"}

\* build_selected_table_choice: the table the block is coded with, and where it lives.
Choice(mode, counts) ==
  CASE mode = "Predefined" -> [Unbuilt EXCEPT !.at = Nowhere]
    [] mode = "Repeat"     -> [Unbuilt EXCEPT !.at = sequence_tables.table]
    [] OTHER               -> build(Table(tried + 1, Seen(counts)))

\* into_next_state: a table is handed on after FseCompressed and Repeat only.
into_part_state(mode, at) ==
  CASE mode = "Repeat"        -> [table |-> at, repeat_mode |-> sequence_tables.repeat_mode]
    [] mode = "FseCompressed" -> [table |-> at, repeat_mode |-> "Check"]
    [] OTHER                  -> Unset

\* The literals sections compress_prefer_existing_table_into_mode may produce for these
\* bytes: each a section kind and the table the encoder goes on with.
Coded(seen) ==
  IF start.disabled \/ Cardinality(seen) < 2 THEN {}
  ELSE {[kind |-> "Treeless", table |-> t] :
          t \in {u \in {literals_state} : u # NoTable /\ seen \subseteq u.symbols}}
       \cup {[kind |-> "Compressed", table |-> Table(tried + 1, seen)]}

\* encode_literals_section_direct: raw and RLE sections keep the state.
Literals(seen) == Coded(seen) \cup {[kind |-> "Raw", table |-> literals_state]}

-----------------------------------------------------------------------------
\* The decoder.

\* decode_seq_table_both with SequenceOnly, and the flag parse_sequence_section clears.
parse_sequence_section(mode, described) ==
  IF mode = "Repeat" THEN tables
  ELSE [slot |-> NoTable, seq |-> described, has |-> TRUE, dirty |-> FALSE]

\* decode_setup: a dictionary's table takes its decoding form when first used.
decode_setup(t) == IF t.dirty THEN [t EXCEPT !.seq = t.slot, !.dirty = FALSE, !.has = TRUE] ELSE t

\* decode_huffman_literals_into.
HuffmanTable(section) == IF section.kind = "Compressed" THEN section.table ELSE huffman_table

\* What the decoder makes of a block coded with these tables.
Reads(section, mode, coder) ==
  LET read == decode_setup(parse_sequence_section(mode, coder))
  IN  IF \/ section.kind = "Treeless" /\ huffman_table = NoTable
         \/ mode = "Repeat" /\ ~tables.has
         \/ mode # "none" /\ read.seq = NoTable
      THEN "refused"
      ELSE IF \/ section.kind # "Raw" /\ HuffmanTable(section) # section.table
              \/ mode # "none" /\ read.seq # coder
      THEN "misread"
      ELSE "ok"

-----------------------------------------------------------------------------
\* encode_compressed_block_direct and the decoder's reading of what it wrote.

\* The block is written, with the table at this address and a literals section.
BlockWins(mode, counts, at, coder) ==
  \E seen \in SUBSET Bytes : \E section \in Literals(seen) :
    /\ sequence_tables' = into_part_state(mode, at)
    /\ literals_state' = section.table
    /\ tables' = decode_setup(parse_sequence_section(mode, coder))
    /\ huffman_table' = HuffmanTable(section)
    /\ verdict' = IF Seen(counts) \subseteq coder.symbols
                  THEN Reads(section, mode, coder) ELSE "uncoded"

\* A block that does not win is written raw: both ends keep their tables, but what the
\* try built stays in the pool.
TryBlock(mode, counts, choice) ==
  /\ pool' = choice.pool /\ heap' = choice.heap
  /\ \/ UNCHANGED <<sequence_tables, literals_state, tables, huffman_table, verdict>>
     \/ BlockWins(mode, counts, choice.at,
                  IF mode = "Predefined" THEN predefined ELSE choice.heap[choice.at])

SequenceBlock ==
  \E counts \in [Codes -> 0..MaxCount] :
    /\ Seen(counts) # {}
    /\ \E mode \in select_table_choice(counts) : TryBlock(mode, counts, Choice(mode, counts))

\* A block of literals alone, worth writing only with a Huffman table.
ZeroSequenceBlock ==
  \E seen \in SUBSET Bytes : \E section \in Coded(seen) :
    /\ literals_state' = section.table
    /\ huffman_table' = HuffmanTable(section)
    /\ verdict' = Reads(section, "none", NoTable)
    /\ UNCHANGED <<pool, heap, sequence_tables, tables>>

CarriedNext ==
  /\ tried < CarriedBlocks /\ verdict = "ok"
  /\ tried' = tried + 1 /\ UNCHANGED start
  /\ SequenceBlock \/ ZeroSequenceBlock

CarriedSpec == CarriedInit /\ [][CarriedNext]_carriedVars

-----------------------------------------------------------------------------
\* Every block is read with the tables it was coded with: a repeat names the table the
\* encoder repeated, across raw blocks, blocks that were tried and lost, blocks without
\* sequences, predefined and RLE blocks (after which nothing is repeated) and from a
\* dictionary; and no table still to be repeated is built over.
TablesInStep == verdict = "ok"
=============================================================================
