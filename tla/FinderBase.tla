----------------------------- MODULE FinderBase -----------------------------
(***************************************************************************)
(* A match finder at work, whatever parser drives it: blocks are walked    *)
(* from left to right by any strides, some go by unparsed, and every match *)
(* a search returns is kept to be judged.  The floors are those of         *)
(* ParserBase; the repeat offsets play no part.                            *)
(***************************************************************************)
EXTENDS ParserBase

CONSTANTS
  STRIDES,      \* how far a parser may move on between two searches
  SMALL_BLOCK,  \* MIN_COMPRESSIBLE_BLOCK_SIZE: a block is not parsed below it
  BUCKETS,      \* 1 << hash_bits
  HASH_READ,    \* HASH_READ_SIZE: a full hash reads this far
  UPDATE_LAG, UPDATE_SPAN   \* LIMITED_UPDATE_LAG, LIMITED_UPDATE_SPAN

VARIABLE found  \* [at, from, length] of every match the last search returned

Parser == <<seg, ldm, anchor, reps, saved, carried, hist, undo, last>>

finderVars == <<vars, found>>

FinderInit == ParserInit /\ found = {}

\* The next block of the frame.
TakeBlock ==
  /\ pc = "idle" /\ block.hi < Total
  /\ \E n \in BlockLengths :
       n <= H /\ block' = [lo |-> block.hi, hi |-> Lower(block.hi + n, Total)]
  /\ pc' = "enter" /\ found' = {}
  /\ UNCHANGED <<source, setup, cur, Parser>>

\* The block goes out raw before any parser sees it (should_emit_raw_block_without_
\* compression), or as one byte repeated (all_bytes_equal).
TooSmall == block.hi - block.lo < SMALL_BLOCK
RunLength == ~TooSmall /\ \A v \in block.lo..block.hi - 1 : Byte(v) = Byte(block.lo)

\* Where a parser begins: some pass by the first byte of the frame.  Where it stops
\* searching is short of the block's end by what its hashes read, which for some is
\* no more than a match.
FirstSearch(passes) == block.lo + IF passes /\ block.lo = P THEN 1 ELSE 0
LastSearch(tail)    == Higher(block.hi - tail, P)

Saturating(a, b) == Higher(a - b, 0)

\* hash_src_at: equal bytes have equal buckets, and so have others; near the end
\* of the buffer the hash is another.
hash_src_at(v, limit) ==
  IF v + HASH_READ <= limit THEN (Byte(v) + 2 * Byte(v + 1)) % BUCKETS
  ELSE (2 * Byte(v) + Byte(v + 1)) % BUCKETS

\* count_match_length_from, count_match_length_virtual_from
CountFrom(m, v, known, limit) ==
  LET room   == limit - Higher(m, v)
      differ == {k \in known..(room - 1) : Byte(m + k) # Byte(v + k)}
  IN  IF differ = {} THEN room ELSE CHOOSE k \in differ : \A j \in differ : k <= j

\* hash_insert_end
hash_insert_end(limit) == limit + 1 - MIN_MATCH

\* limited_update_after_long_match
limited_update(cursor, lo) ==
  IF lo <= cursor + UPDATE_LAG THEN cursor
  ELSE lo - Lower(UPDATE_SPAN, lo - cursor - UPDATE_LAG)

Matches(v, pairs) == {[at |-> v, from |-> p[1], length |-> p[2]] : p \in pairs}

Longest(pairs, least) ==
  IF pairs = {} THEN least ELSE CHOOSE n \in {p[2] : p \in pairs} : \A p \in pairs : p[2] <= n

\* The finder's tables become t, and the parser leaves or searches on from pos.
Goes(t, pos, matches) ==
  /\ cur' = [t EXCEPT !.pos = pos]
  /\ found' = matches
  /\ UNCHANGED <<source, setup, block, pc, Parser>>

\* Every match a finder returns is one: the bytes it counts are equal, it lies in the
\* block, and its distance is one the decoder accepts there.  A finder does not
\* compare what its order, tags or overlapping reads tell it, and its tables outlive
\* the positions in them.
FoundMatchesHold ==
  \A x \in found :
    /\ x.at + x.length <= block.hi
    /\ decoder_takes(x.at, x.at - x.from)
    /\ \A k \in 0..(x.length - 1) : Byte(x.at + k) = Byte(x.from + k)
=============================================================================
