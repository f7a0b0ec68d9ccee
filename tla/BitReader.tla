------------------------------ MODULE BitReader ------------------------------
(***************************************************************************)
(* BitDStream (src/entropy/bitstream.rs), the backward bit reader, under   *)
(* the loops that read through it: the sequence executor of                *)
(* src/sequence.rs, the Huffman decoders of src/entropy/huff0.rs           *)
(* and the FSE weight decoder of src/entropy/fse.rs.                       *)
(*                                                                         *)
(* A read shifts bits out of a loaded container and never checks that the  *)
(* container still holds them; every loop reloads often enough, by its own *)
(* arithmetic on the widths its tables allow.  The model keeps that        *)
(* arithmetic with the code's own widths: how many bits of the container   *)
(* are spent and how many bytes lie behind it.  What the bits say is left  *)
(* open, so the input may be a valid stream or any other bytes.            *)
(***************************************************************************)
EXTENDS BitStrings

CONSTANTS
  Readers,       \* the loops that may run
  MaxBytes,      \* bound: the longest stream
  MaxConsumed    \* bound: how far a decoder that ran out of input is followed

ASSUME ReaderAssumption ==
  /\ Readers \subseteq {"execute", "x1", "x1_four", "x2", "x2_four", "weights"}
  /\ MaxBytes \in Nat \ {0}
  /\ MaxConsumed \in Nat

\* The depth that a two-symbol table is built to, and that five entries are read at.
DECODER_FAST_TABLELOG == 11

VARIABLES
  reader,         \* the loop that runs
  log,            \* table_log of the Huffman table it uses
  at,             \* where in the loop it stands
  bits_consumed,  \* bits spent of the container
  behind,         \* bytes_behind_ptr: bytes of the stream not yet loaded
  spent           \* offset and match bits of the sequence being read

readerVars == <<reader, log, at, bits_consumed, behind, spent>>

-----------------------------------------------------------------------------
\* BitDStream::new on a stream of n bytes whose last byte has its mark at bit 8 - used.
NewConsumed(n, used) == IF n >= CONTAINER_BYTES THEN used ELSE used + (CONTAINER_BYTES - n) * 8
NewBehind(n) == IF n >= CONTAINER_BYTES THEN n - CONTAINER_BYTES ELSE 0

\* Mutant of reload_fast: it gives up only when nothing at all is behind.
reload_fast_greedy ==
  IF behind = 0
  THEN [bits_consumed |-> bits_consumed, behind |-> behind, status |-> "Overflow"]
  ELSE [bits_consumed |-> bits_consumed % 8, behind |-> behind - bits_consumed \div 8,
        status |-> "Unfinished"]

\* reload_fast moves back by the whole bytes spent and looks only at what is behind.
reload_fast ==
  IF behind < CONTAINER_BYTES
  THEN [bits_consumed |-> bits_consumed, behind |-> behind, status |-> "Overflow"]
  ELSE [bits_consumed |-> bits_consumed % 8, behind |-> behind - bits_consumed \div 8,
        status |-> "Unfinished"]

\* reload refuses an overrun first, and near the start moves back by what there is.
reload ==
  LET bytes == bits_consumed \div 8
      moved == IF bytes > behind THEN behind ELSE bytes
  IN  IF bits_consumed > CONTAINER_BITS
      THEN [bits_consumed |-> bits_consumed, behind |-> behind, status |-> "Overflow"]
      ELSE IF behind >= CONTAINER_BYTES THEN reload_fast
      ELSE IF behind = 0
      THEN [bits_consumed |-> bits_consumed, behind |-> behind,
            status |-> IF bits_consumed < CONTAINER_BITS THEN "EndOfBuffer" ELSE "Completed"]
      ELSE [bits_consumed |-> bits_consumed - 8 * moved, behind |-> behind - moved,
            status |-> IF bytes > behind THEN "EndOfBuffer" ELSE "Unfinished"]

\* Spending bits that are (or, past the end, are not) there.
Skip(low, high) == \E bits \in low..high : bits_consumed' = bits_consumed + bits

Loaded(r) == bits_consumed' = r.bits_consumed /\ behind' = r.behind

Keep == UNCHANGED <<reader, log>>

\* Where each loop begins.
FirstStep == [execute |-> "init", weights |-> "init",
              x1 |-> "stream", x2 |-> "stream", x1_four |-> "four", x2_four |-> "four"]

ReaderInit ==
  /\ reader \in Readers
  /\ log \in IF reader = "weights" THEN {WEIGHT_LOG} ELSE {1, DECODER_FAST_TABLELOG, HUF_TABLELOG_MAX}
  /\ at = FirstStep[reader]
  /\ \E n \in 1..MaxBytes, used \in 1..8 :
       bits_consumed = NewConsumed(n, used) /\ behind = NewBehind(n)
  /\ spent = 0

-----------------------------------------------------------------------------
\* The sequence executor.

\* init_dstate_seq, three times: read a state, then reload.
InitStates ==
  /\ at \in {"init", "init2", "init3"} /\ reader = "execute"
  /\ LET width == CASE at = "init" -> LL_LOG [] at = "init2" -> OF_LOG [] OTHER -> ML_LOG
     IN  Skip(0, width)
  /\ at' = CASE at = "init" -> "reload2" [] at = "init2" -> "reload3" [] OTHER -> "reload"
  /\ UNCHANGED <<behind, spent>> /\ Keep

ReloadState ==
  /\ at \in {"reload2", "reload3"}
  /\ Loaded(reload)
  /\ at' = IF at = "reload2" THEN "init2" ELSE "init3"
  /\ UNCHANGED spent /\ Keep

\* The offset's extra bits, then the match length's.
ReadOffsetAndMatch ==
  /\ at = "sequence"
  /\ \E offset_code \in 0..OF_EXTRA, match_extra_bits \in 0..ML_EXTRA :
       /\ bits_consumed' = bits_consumed + offset_code + match_extra_bits
       /\ spent' = offset_code + match_extra_bits
  /\ at' = "literal"
  /\ UNCHANGED behind /\ Keep

\* Mutant of ReloadsForLiteral: the executor counts on more bits than are left.
ReloadsLate(literal_extra_bits) == spent + literal_extra_bits >= 48

\* Reload when the three runs of extra bits together could leave too little for the
\* state updates.
ReloadsForLiteral(literal_extra_bits) == spent + literal_extra_bits >= 31

ReadLiteral ==
  /\ at = "literal"
  /\ \E literal_extra_bits \in 0..LL_EXTRA :
       IF ReloadsForLiteral(literal_extra_bits)
       THEN /\ bits_consumed' = reload.bits_consumed + literal_extra_bits
            /\ behind' = reload.behind
       ELSE /\ bits_consumed' = bits_consumed + literal_extra_bits
            /\ UNCHANGED behind
  /\ at' \in {"states", "last"}
  /\ UNCHANGED spent /\ Keep

\* Three state updates with no reload between them.
UpdateStates ==
  /\ at = "states"
  /\ Skip(0, LL_LOG + ML_LOG + OF_LOG)
  /\ at' = "reload"
  /\ UNCHANGED <<behind, spent>> /\ Keep

ReloadAfterCopies ==
  /\ at \in {"reload", "last"}
  /\ Loaded(reload)
  /\ at' = IF at = "last" \/ reload.status = "Overflow" THEN "done" ELSE "sequence"
  /\ spent' = 0 /\ Keep

-----------------------------------------------------------------------------
\* The Huffman decoders.

\* Symbols (x1) or table entries (x2) between two reloads of the per-stream loop.
GroupSize == IF reader \in {"x2", "x2_four"} /\ log <= DECODER_FAST_TABLELOG THEN 5 ELSE 4

\* The four-stream loop: four entries of each stream, then a reload_fast of each.  It
\* goes on while no stream reports the end and every segment has room.
FourStreamGroups ==
  /\ at = "four"
  /\ Skip(4, 4 * log)
  /\ at' = "four_reload"
  /\ UNCHANGED <<behind, spent>> /\ Keep

FourReload ==
  /\ at = "four_reload"
  /\ Loaded(reload_fast)
  /\ at' \in IF reload_fast.status = "Unfinished" THEN {"four", "stream"} ELSE {"stream"}
  /\ UNCHANGED spent /\ Keep

\* The loop may also not be entered at all: an output too short for it.
SkipFourStreams ==
  /\ at = "four" /\ at' = "stream"
  /\ UNCHANGED <<bits_consumed, behind, spent>> /\ Keep

\* decode_stream_x1 / decode_stream_x2: reload, and decode a group while there is input
\* and room for one; then the tail.
StreamReload ==
  /\ at = "stream"
  /\ Loaded(reload)
  /\ at' \in IF reload.status # "Unfinished" THEN {"drain"}
             ELSE IF reader \in {"x2", "x2_four"} THEN {"group", "pairs"} ELSE {"group", "tail"}
  /\ UNCHANGED spent /\ Keep

Group ==
  /\ at = "group"
  /\ Skip(GroupSize, GroupSize * log)
  /\ at' = "stream"
  /\ UNCHANGED <<behind, spent>> /\ Keep

\* x1: input left but fewer than four symbols to go, read without a reload.
TailSymbols ==
  /\ at = "tail"
  /\ \E left \in 0..3 : Skip(left, left * log)
  /\ at' = "done"
  /\ UNCHANGED <<behind, spent>> /\ Keep

\* x2: entry by entry with a reload each, then the byte that is left over, if any.
Pairs ==
  /\ at = "pairs"
  /\ Loaded(reload)
  /\ at' \in IF reload.status = "Unfinished" THEN {"entry", "last_symbol", "done"} ELSE {"drain"}
  /\ UNCHANGED spent /\ Keep

Entry ==
  /\ at = "entry"
  /\ Skip(1, log)
  /\ at' = "pairs"
  /\ UNCHANGED <<behind, spent>> /\ Keep

\* The input is all loaded: the rest of the output comes without reloads, and may run
\* past the end of a stream that is too short.
Drain ==
  /\ at = "drain" /\ bits_consumed <= MaxConsumed
  /\ Skip(1, log)
  /\ at' = at
  /\ UNCHANGED <<behind, spent>> /\ Keep

DrainEnds ==
  /\ at = "drain"
  /\ at' \in IF reader \in {"x2", "x2_four"} THEN {"last_symbol", "done"} ELSE {"done"}
  /\ UNCHANGED <<bits_consumed, behind, spent>> /\ Keep

\* decode_last_symbol_x2: an entry for two bytes of which one is taken is pinned at the
\* end of the container.
decode_last_symbol_x2 ==
  /\ at = "last_symbol"
  /\ \E bits \in 1..log, length \in 1..2 :
       LET after == bits_consumed + bits
       IN  bits_consumed' = IF length = 1 THEN after
                            ELSE IF bits_consumed >= CONTAINER_BITS THEN bits_consumed
                            ELSE IF after > CONTAINER_BITS THEN CONTAINER_BITS ELSE after
  /\ at' = "done"
  /\ UNCHANGED <<behind, spent>> /\ Keep

-----------------------------------------------------------------------------
\* fse::decompress of the weights: two states, each followed by a reload, then groups of
\* four symbols, then one symbol per reload until the reload reports the overrun.
WeightsInit ==
  /\ at \in {"init", "init2"} /\ reader = "weights"
  /\ Skip(log, log)
  /\ at' = IF at = "init" THEN "reload2" ELSE "weights_check"
  /\ UNCHANGED <<behind, spent>> /\ Keep

\* A stream too short to hold both states is refused.
WeightsCheck ==
  /\ at = "weights_check"
  /\ Loaded(reload)
  /\ at' = IF reload.status = "Overflow" THEN "done" ELSE "weights"
  /\ UNCHANGED spent /\ Keep

WeightsReload ==
  /\ at = "weights"
  /\ Loaded(reload)
  /\ at' \in IF reload.status = "Unfinished" THEN {"weights4", "weight"} ELSE {"weight"}
  /\ UNCHANGED spent /\ Keep

WeightsGroup ==
  /\ at = "weights4"
  /\ Skip(0, 4 * log)
  /\ at' = "weights"
  /\ UNCHANGED <<behind, spent>> /\ Keep

OneWeight ==
  /\ at = "weight"
  /\ Skip(0, log)
  /\ at' = "weight_reload"
  /\ UNCHANGED <<behind, spent>> /\ Keep

WeightReload ==
  /\ at = "weight_reload"
  /\ Loaded(reload)
  /\ at' = IF reload.status = "Overflow" THEN "done" ELSE "weight"
  /\ UNCHANGED spent /\ Keep

ReaderNext ==
  \/ InitStates \/ ReloadState \/ ReadOffsetAndMatch \/ ReadLiteral
  \/ UpdateStates \/ ReloadAfterCopies
  \/ FourStreamGroups \/ FourReload \/ SkipFourStreams \/ StreamReload \/ Group
  \/ TailSymbols \/ Pairs \/ Entry \/ Drain \/ DrainEnds \/ decode_last_symbol_x2
  \/ WeightsInit \/ WeightsCheck \/ WeightsReload \/ WeightsGroup \/ OneWeight \/ WeightReload

ReaderSpec == ReaderInit /\ [][ReaderNext]_readerVars

\* No loop runs.
ReaderIdle ==
  /\ reader = "none" /\ log = 0 /\ at = "done"
  /\ bits_consumed = 0 /\ behind = 0 /\ spent = 0

-----------------------------------------------------------------------------
(***************************************************************************)
(* Every bit a loop spends was in the container while the stream had bytes *)
(* left to load: whatever the input, a decoder runs past its container     *)
(* only once the whole stream is loaded, which is what tells a stream that *)
(* is too short from a reload that came too late.  The shifts of           *)
(* read_bits_fast and look_bits_fast wrap at 64 and would hand back other  *)
(* bits, silently (src/entropy/bitstream.rs).  And no load starts below    *)
(* the stream: reload_fast moves back by the bytes spent without comparing *)
(* them with what is behind, which is sound only as long as its callers,   *)
(* the four-stream loops, never spend more than the eight bytes it checks  *)
(* for ("a property of its callers rather than of itself").                *)
(***************************************************************************)
BitsWereLoaded == behind >= 0 /\ (bits_consumed > CONTAINER_BITS => behind = 0)
=============================================================================
