------------------------------- MODULE Huffman -------------------------------
(***************************************************************************)
(* Huff0 (src/entropy/huff0.rs): length-limited code lengths from a        *)
(* histogram, their description as weights, the one- and two-symbol        *)
(* decoding tables, and the one- and four-stream literals.                 *)
(*                                                                         *)
(* Symbols are numbers from 0.  The two depth limits are constants, so     *)
(* that few symbols are enough to exceed them.  Histograms are below the   *)
(* count at which the code's sort starts to bucket.                        *)
(***************************************************************************)
EXTENDS BitStrings, FiniteSetsExt, SequencesExt

FSE == INSTANCE Fse

CONSTANTS
  SYMBOLVALUE_MAX,         \* 255
  TABLELOG_MAX,            \* deepest table: 12
  DECODER_FAST_TABLELOG    \* depth a two-symbol table is expanded to: 11

MAX_FSE_TABLELOG_FOR_HUFF_HEADER == 6

-----------------------------------------------------------------------------
\* Code lengths.

\* sort_nodes: by falling count, symbols of one count in their order.
sort_nodes(count) ==
  SortSeq([i \in 1..Cardinality(DOMAIN count) |-> i - 1],
          LAMBDA s, t : count[s] > count[t] \/ (count[s] = count[t] /\ s < t))

\* One of the two queues gives its smallest: a leaf only if it is strictly smaller.
TakeSmallest(q, count) ==
  IF q.leaves # << >> /\ (q.nodes = << >> \/ count[Last(q.leaves)] < q.nodes[1].count)
  THEN [taken |-> [count |-> count[Last(q.leaves)], members |-> {Last(q.leaves)}],
        left |-> [q EXCEPT !.leaves = Front(@)]]
  ELSE [taken |-> q.nodes[1], left |-> [q EXCEPT !.nodes = Tail(@)]]

\* Every merge puts its leaves one level deeper.
RECURSIVE MergeTree(_, _, _)
MergeTree(q, count, depth) ==
  IF q.leaves = << >> /\ Len(q.nodes) = 1 THEN depth
  ELSE LET n1 == TakeSmallest(q, count)
           n2 == TakeSmallest(n1.left, count)
           members == n1.taken.members \cup n2.taken.members
       IN  MergeTree([n2.left EXCEPT !.nodes =
                        Append(@, [count |-> n1.taken.count + n2.taken.count, members |-> members])],
                     count, [s \in DOMAIN depth |-> depth[s] + IF s \in members THEN 1 ELSE 0])

\* set_max_height works on ranks, 0 for the most frequent symbol.  rank_last[k] is the last
\* rank whose code is k bits short of the limit.
NO_SYMBOL == -1

RankLast(nb_bits, max_nb_bits, k) ==
  LET ranks == {n \in DOMAIN nb_bits : nb_bits[n] = max_nb_bits - k}
  IN  IF ranks = {} THEN NO_SYMBOL ELSE Max(ranks)

\* How many bits short of the limit is the code that pays next: the largest that is not
\* dearer than two of the next kind.
RECURSIVE BitsToDecrease(_, _, _)
BitsToDecrease(k, rank_last, freq) ==
  IF k <= 1 THEN k
  ELSE IF rank_last[k] = NO_SYMBOL THEN BitsToDecrease(k - 1, rank_last, freq)
  ELSE IF rank_last[k - 1] = NO_SYMBOL \/ freq[rank_last[k]] <= 2 * freq[rank_last[k - 1]] THEN k
  ELSE BitsToDecrease(k - 1, rank_last, freq)

RECURSIVE FirstAbove(_, _)
FirstAbove(k, rank_last) ==
  IF k <= TABLELOG_MAX /\ rank_last[k] = NO_SYMBOL THEN FirstAbove(k + 1, rank_last) ELSE k

\* Repaying the cost of the codes that were cut short.
RECURSIVE Repay(_, _, _)
Repay(t, max_nb_bits, freq) ==
  LET k == FirstAbove(BitsToDecrease(highbit32(t.cost) + 1, t.rank_last, freq), t.rank_last)
      payer == t.rank_last[k]
      nb_bits == [t.nb_bits EXCEPT ![payer] = @ + 1]
      rest == IF payer = 0 \/ nb_bits[payer - 1] # max_nb_bits - k THEN NO_SYMBOL ELSE payer - 1
      rank_last == [t.rank_last EXCEPT ![k - 1] = IF @ = NO_SYMBOL THEN payer ELSE @, ![k] = rest]
  IN  IF t.cost <= 0 THEN t
      ELSE Repay([nb_bits |-> nb_bits, rank_last |-> rank_last, cost |-> t.cost - 2^(k - 1)],
                 max_nb_bits, freq)

\* Giving back what was repaid too much: codes one bit short take the change.
RECURSIVE GiveBack(_, _)
GiveBack(t, max_nb_bits) ==
  LET first == IF t.rank_last[1] # NO_SYMBOL THEN t.rank_last[1]
               ELSE Max({-1} \cup {n \in DOMAIN t.nb_bits : t.nb_bits[n] # max_nb_bits})
  IN  IF t.cost >= 0 THEN t
      ELSE GiveBack([nb_bits |-> [t.nb_bits EXCEPT ![first + 1] = @ - 1],
                     rank_last |-> [t.rank_last EXCEPT ![1] = first + 1], cost |-> t.cost + 1],
                    max_nb_bits)

set_max_height(nb_bits, freq, max_nb_bits) ==
  LET largest_bits == Max({nb_bits[n] : n \in DOMAIN nb_bits})
      excess == largest_bits - max_nb_bits
      Cost(n) == IF nb_bits[n] > max_nb_bits THEN 2^excess - 2^(largest_bits - nb_bits[n]) ELSE 0
      cut == [n \in DOMAIN nb_bits |-> Min({nb_bits[n], max_nb_bits})]
      start == [nb_bits |-> cut,
                rank_last |-> [k \in 0..(TABLELOG_MAX + 1) |->
                                 IF k = 0 THEN NO_SYMBOL ELSE RankLast(cut, max_nb_bits, k)],
                cost |-> Loop(LAMBDA sum, i : sum + Cost(i - 1), 0, Cardinality(DOMAIN nb_bits))
                           \div 2^excess]
  IN  IF excess <= 0 THEN nb_bits
      ELSE GiveBack(Repay(start, max_nb_bits, freq), max_nb_bits).nb_bits

\* Codes of one length follow each other; the longest begin at 0.
Values(nb_bits, table_log) ==
  LET OfLength(n) == {s \in DOMAIN nb_bits : nb_bits[s] = n}
      first[n \in 1..(table_log + 1)] ==
        IF n >= table_log THEN 0
        ELSE (first[n + 1] + Cardinality(OfLength(n + 1))) \div 2
  IN  [s \in DOMAIN nb_bits |->
         IF nb_bits[s] = 0 THEN 0
         ELSE first[nb_bits[s]] + Cardinality({t \in OfLength(nb_bits[s]) : t < s})]

CTable(nb_bits, table_log) ==
  [table_log |-> table_log, nb_bits |-> nb_bits, val |-> Values(nb_bits, table_log)]

build_ctable(count, max_nb_bits) ==
  LET ranked == SelectSeq(sort_nodes(count), LAMBDA s : count[s] > 0)
      depth == MergeTree([leaves |-> ranked, nodes |-> << >>], count, [s \in DOMAIN count |-> 0])
      limited == set_max_height([n \in 0..(Len(ranked) - 1) |-> depth[ranked[n + 1]]],
                                [n \in 0..(Len(ranked) - 1) |-> count[ranked[n + 1]]], max_nb_bits)
      nb_bits == [s \in DOMAIN count |->
                    IF count[s] = 0 THEN 0 ELSE limited[(CHOOSE i \in DOMAIN ranked : ranked[i] = s) - 1]]
  IN  CTable(nb_bits, Min({max_nb_bits, Max({depth[s] : s \in DOMAIN depth})}))

-----------------------------------------------------------------------------
\* The description: a weight for every symbol but the last.

WithHeader(header, stream) == IF stream = << >> THEN << >> ELSE header \o stream

\* The bits, or none when FSE is not worth while.
compress_weights(weights) ==
  LET count == [w \in 0..Max(ToSet(weights)) |-> Cardinality({i \in DOMAIN weights : weights[i] = w})]
      log == FSE!optimal_table_log(MAX_FSE_TABLELOG_FOR_HUFF_HEADER, Len(weights), Max(ToSet(weights)))
  IN  IF Len(weights) <= 1 \/ Max({count[w] : w \in DOMAIN count}) \in {1, Len(weights)} THEN Ok(<< >>)
      ELSE Try(FSE!normalize_count(count, log, FALSE), LAMBDA n :
           Try(FSE!write_ncount(n.norm, n.log), LAMBDA header :
           Ok(WithHeader(header, FSE!compress_using_ctable(weights, FSE!build_ctable(n.norm, n.log))))))

write_ctable_raw(weights) ==
  LET padded == IF Len(weights) % 2 = 0 THEN weights ELSE Append(weights, 0)
  IN  IF Len(weights) > 127 THEN Err("Generic")
      ELSE Ok(ToBits(127 + Len(weights), 8) \o
              Loop(LAMBDA bits, i : bits \o ToBits(padded[2 * i], 4) \o ToBits(padded[2 * i - 1], 4),
                       << >>, Len(padded) \div 2))

Weight(nb_bits, table_log) == IF nb_bits = 0 THEN 0 ELSE table_log + 1 - nb_bits

write_ctable(ct) ==
  LET max_symbol == Cardinality(DOMAIN ct.nb_bits) - 1
      weights == [i \in 1..max_symbol |-> Weight(ct.nb_bits[i - 1], ct.table_log)]
  IN  Try(compress_weights(weights), LAMBDA compressed :
        LET size == Len(compressed) \div 8
        IN  IF size > 1 /\ size < max_symbol \div 2 THEN Ok(ToBits(size, 8) \o compressed)
            ELSE write_ctable_raw(weights))

\* The weights and the one they imply: [weights, table_log, size].
WithLastWeight(weights, total, size) ==
  LET log == highbit32(total) + 1
      rest == 2^log - total
      all == Append(weights, highbit32(rest) + 1)
      rank1 == Cardinality({i \in DOMAIN all : all[i] = 1})
  IN  IF (\E i \in DOMAIN weights : weights[i] >= TABLELOG_MAX) \/ total = 0 THEN Err("Corruption")
      ELSE IF log > TABLELOG_MAX \/ 2^highbit32(rest) # rest \/ rank1 < 2 \/ rank1 % 2 # 0
      THEN Err("Corruption")
      ELSE Ok([weights |-> [s \in 0..Len(weights) |-> all[s + 1]], table_log |-> log, size |-> size])

Implied(weights, size) ==
  WithLastWeight(weights, Loop(LAMBDA sum, i : sum + 2^weights[i] \div 2, 0, Len(weights)), size)

RawWeights(src, o_size) ==
  [i \in 1..o_size |-> FromBits(SubSeq(src, 4 * i + (IF i % 2 = 1 THEN 9 ELSE 1),
                                       4 * i + (IF i % 2 = 1 THEN 12 ELSE 4)))]

FseWeights(src, i_size) ==
  FSE!decompress(SubSeq(src, 9, 8 * (1 + i_size)), TABLELOG_MAX, MAX_FSE_TABLELOG_FOR_HUFF_HEADER,
                 SYMBOLVALUE_MAX)

\* read_stats: the weights are packed in half bytes or coded by FSE.
read_stats(src) ==
  LET first == FromBits(SubSeq(src, 1, 8))
      i_size == IF first >= 128 THEN CeilDiv(first - 127, 2) ELSE first
  IN  IF Len(src) < 8 \/ 8 * (i_size + 1) > Len(src) THEN Err("SrcSizeWrong")
      ELSE Try(IF first >= 128 THEN Ok(RawWeights(src, first - 127)) ELSE FseWeights(src, i_size),
               LAMBDA weights : Implied(weights, i_size + 1))

-----------------------------------------------------------------------------
\* Tables from a description.

\* read_ctable_x1: the encoder's table, read back from a dictionary.
build_ctable_from_weights(stats) ==
  CTable([s \in DOMAIN stats.weights |->
            IF stats.weights[s] = 0 THEN 0 ELSE stats.table_log + 1 - stats.weights[s]],
         stats.table_log)

Ranked(weights, w) ==
  SelectSeq([i \in 1..Cardinality(DOMAIN weights) |-> i - 1], LAMBDA s : weights[s] = w)

\* Where the symbols of weight w begin in a table of depth target.
RankStart(stats, target) ==
  LET start[w \in 1..(stats.table_log + 1)] ==
        IF w = 1 THEN 0
        ELSE start[w - 1] + Len(Ranked(stats.weights, w - 1)) * 2^(w - 2 + target - stats.table_log)
  IN  start

\* The weight whose slots hold index i.
RankAt(start, i, log) == CHOOSE w \in 1..log : start[w] <= i /\ i < start[w + 1]

read_dtable_x1(stats) ==
  LET start == RankStart(stats, stats.table_log)
      Entry(i) == LET w == RankAt(start, i, stats.table_log)
                  IN  [symbol |-> Ranked(stats.weights, w)[1 + (i - start[w]) \div 2^(w - 1)],
                       nb_bits |-> stats.table_log + 1 - w]
  IN  [table_log |-> stats.table_log, entries |-> [i \in 0..(2^stats.table_log - 1) |-> Entry(i)]]

\* One entry of a two-symbol table: where the bits a symbol leaves are enough for the
\* cheapest one, its slots are a table of second symbols.
EntryX2(stats, target, start, i) ==
  LET log == stats.table_log
      max_weight == Max({stats.weights[s] : s \in DOMAIN stats.weights})
      min_bits == log + 1 - max_weight
      w == RankAt(start, i, log)
      nb_bits == log + 1 - w
      length == 2^(target - nb_bits)
      symbol == Ranked(stats.weights, w)[1 + (i - start[w]) \div length]
      j == (i - start[w]) % length
      min_weight == Max({nb_bits + log + 1 - target, 1})
      Length2(w2) == 2^(target - nb_bits - (log + 1 - w2))
      Start2(w2) == start[w2] \div 2^nb_bits
      seconds == {w2 \in min_weight..max_weight :
                    /\ Start2(w2) <= j
                    /\ j < Start2(w2) + Len(Ranked(stats.weights, w2)) * Length2(w2)}
      alone == [symbols |-> <<symbol>>, nb_bits |-> nb_bits]
  IN  IF target - nb_bits < min_bits \/ seconds = {} THEN alone
      ELSE LET w2 == Max(seconds)
           IN  [symbols |-> <<symbol, Ranked(stats.weights, w2)[1 + (j - Start2(w2)) \div Length2(w2)]>>,
                nb_bits |-> nb_bits + log + 1 - w2]

read_dtable_x2(stats) ==
  LET target == IF stats.table_log <= DECODER_FAST_TABLELOG THEN DECODER_FAST_TABLELOG ELSE TABLELOG_MAX
      start == RankStart(stats, target)
  IN  [table_log |-> target, entries |-> [i \in 0..(2^target - 1) |-> EntryX2(stats, target, start, i)]]

-----------------------------------------------------------------------------
\* Streams.

\* compress_1x: from the last symbol to the first.
compress_1x(src, ct) ==
  LET n == Len(src)
  IN  CloseStream(Loop(LAMBDA bits, i : bits \o ToBits(ct.val[src[n + 1 - i]], ct.nb_bits[src[n + 1 - i]]),
                           << >>, n))

decompress_1x1(bits, size, dt) ==
  LET left == OpenStream(bits)
      step(r, i) == LET e == dt.entries[ReadBack(bits, r.left, dt.table_log)]
                    IN  [out |-> Append(r.out, e.symbol), left |-> r.left - e.nb_bits]
      end == Loop(step, [out |-> << >>, left |-> left], size)
  IN  IF left < 0 \/ end.left # 0 THEN Err("Corruption") ELSE Ok(end.out)

\* With one byte of room a pair gives its first byte, and what it spends is cut off at the
\* end of the stream.
LastSymbolLeft(left, entry) ==
  IF Len(entry.symbols) = 1 THEN left - entry.nb_bits
  ELSE IF left <= 0 THEN left ELSE Max({left - entry.nb_bits, 0})

decompress_1x2(bits, size, dt) ==
  LET left == OpenStream(bits)
      step(r, i) ==
        LET e == dt.entries[ReadBack(bits, r.left, dt.table_log)]
        IN  IF Len(r.out) = size THEN r
            ELSE IF Len(r.out) + 2 <= size
            THEN [out |-> r.out \o e.symbols, left |-> r.left - e.nb_bits]
            ELSE [out |-> Append(r.out, e.symbols[1]), left |-> LastSymbolLeft(r.left, e)]
      end == Loop(step, [out |-> << >>, left |-> left], size)
  IN  IF left < 0 \/ end.left # 0 THEN Err("Corruption") ELSE Ok(end.out)

\* Four streams of a quarter each, the last one shorter, behind three lengths.
Segment(src, k) ==
  LET size == CeilDiv(Len(src), 4)
  IN  SubSeq(src, (k - 1) * size + 1, Min({k * size, Len(src)}))

compress_4x(src, ct) ==
  LET stream == [k \in 1..4 |-> compress_1x(Segment(src, k), ct)]
      length(k) == ToBits(Len(stream[k]) \div 8, 16)
  IN  IF Len(src) < 12 THEN << >>
      ELSE length(1) \o length(2) \o length(3) \o stream[1] \o stream[2] \o stream[3] \o stream[4]

\* The four streams of src with the number of symbols in each; none when they do not fit.
FourStreams(src, size) ==
  LET length == [k \in 1..3 |-> FromBits(SubSeq(src, 16 * k - 15, 16 * k))]
      begin == <<6, 6 + length[1], 6 + length[1] + length[2],
                 6 + length[1] + length[2] + length[3], Len(src) \div 8>>
      segment_size == CeilDiv(size, 4)
  IN  IF Len(src) < 80 \/ size < 6 \/ 3 * segment_size > size \/ begin[4] > Len(src) \div 8
      THEN << >>
      ELSE [k \in 1..4 |-> [bits |-> SubSeq(src, 8 * begin[k] + 1, 8 * begin[k + 1]),
                            size |-> IF k < 4 THEN segment_size ELSE size - 3 * segment_size]]

Joined(part) ==
  IF part = << >> \/ \E k \in DOMAIN part : part[k].error # "none" THEN Err("Corruption")
  ELSE Ok(part[1].value \o part[2].value \o part[3].value \o part[4].value)

decompress_4x1(src, size, dt) ==
  LET streams == FourStreams(src, size)
  IN  Joined([k \in DOMAIN streams |-> decompress_1x1(streams[k].bits, streams[k].size, dt)])

decompress_4x2(src, size, dt) ==
  LET streams == FourStreams(src, size)
  IN  Joined([k \in DOMAIN streams |-> decompress_1x2(streams[k].bits, streams[k].size, dt)])
=============================================================================
