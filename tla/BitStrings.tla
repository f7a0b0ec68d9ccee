----------------------------- MODULE BitStrings -----------------------------
(***************************************************************************)
(* Bits on the wire, in the order in which they are written: the low bit   *)
(* of a field first, so that the bytes of a header are its fields one      *)
(* after the other, and a bit stream that is read backwards is read from   *)
(* its end.  And the widths that the loops around the bit containers count *)
(* with: the container, the table logs, and the extra bits of one sequence *)
(* (src/entropy/bitstream.rs, src/sequence.rs, src/entropy/huff0.rs).      *)
(***************************************************************************)
EXTENDS Integers, Sequences

\* Result: a value, or the error that a writer or a parser gives instead.
Ok(value) == [error |-> "none", value |-> value]
Err(error) == [error |-> error, value |-> << >>]

\* The code's `?`: an error ends the caller too.
Try(result, Then(_)) == IF result.error # "none" THEN result ELSE Then(result.value)

\* for i in 1..=n { state = step(state, i) }
Loop(step(_, _), start, n) ==
  LET state[i \in 0..n] == IF i = 0 THEN start ELSE step(state[i - 1], i)
  IN  state[n]

\* The low n bits of v, and the number that bits spell.
ToBits(v, n) == [i \in 1..n |-> (v \div 2^(i - 1)) % 2]

FromBits(bits) ==
  LET sum[i \in 0..Len(bits)] == IF i = 0 THEN 0 ELSE sum[i - 1] + bits[i] * 2^(i - 1)
  IN  sum[Len(bits)]

highbit32(v) == CHOOSE b \in 0..30 : 2^b <= v /\ (b = 30 \/ v < 2^(b + 1))

CeilDiv(a, b) == (a + b - 1) \div b

\* BitCStream::close: the mark, then zeros to the end of the byte.
CloseStream(bits) ==
  LET marked == Append(bits, 1)
  IN  marked \o [i \in 1..(8 * CeilDiv(Len(marked), 8) - Len(marked)) |-> 0]

\* BitDStream::new: how many bits there are below the mark; -1 for a stream it refuses.
OpenStream(bits) ==
  LET last == Len(bits) - 8
      marks == {i \in 1..Len(bits) : i > last /\ bits[i] = 1}
  IN  IF marks = {} THEN -1 ELSE (CHOOSE i \in marks : \A j \in marks : j <= i) - 1

\* The n bits that end at bit `left` of a stream; those below its start are zeros.
ReadBack(bits, left, n) ==
  FromBits([k \in 1..n |-> IF left - n + k >= 1 THEN bits[left - n + k] ELSE 0])

-----------------------------------------------------------------------------
\* The container of a bit stream, a machine word.
CONTAINER_BYTES == 8
CONTAINER_BITS == 8 * CONTAINER_BYTES

\* Table logs: FSE_MAX for the three sequence tables, MAX_WEIGHT_TABLE_LOG for the
\* weights of a Huffman table; the Huffman tables themselves go to HUF_TABLELOG_MAX.
LL_LOG == 9
OF_LOG == 8
ML_LOG == 9
WEIGHT_LOG == 6
HUF_TABLELOG_MAX == 12

\* Extra bits of one sequence: an offset code goes to 31.
LL_EXTRA == 16
ML_EXTRA == 16
OF_EXTRA == 31
=============================================================================
