--------------------------------- MODULE Fse ---------------------------------
(***************************************************************************)
(* Finite state entropy (src/entropy/fse.rs): normalised counts, their     *)
(* description on the wire, the tables both sides build from them, and the *)
(* two-state streams that carry Huffman weights.                           *)
(*                                                                         *)
(* Symbols are numbers from 0 and a histogram is a function on             *)
(* 0..max_symbol.  The fixed point of normalize_count is 30 bits wide here *)
(* and 62 in the code; the totals that are checked are small enough for    *)
(* both to round alike.                                                    *)
(***************************************************************************)
EXTENDS BitStrings, FiniteSetsExt, SequencesExt

MIN_TABLELOG == 5
TABLELOG_MAX == 9
FIXED_POINT == 30
RTB_TABLE == <<0, 473195, 504333, 520860, 550000, 700000, 750000, 830000>>

Total(f) == Loop(LAMBDA sum, s : sum + f[s - 1], 0, Cardinality(DOMAIN f))
MaxSymbol(f) == Cardinality(DOMAIN f) - 1
Slots(count) == IF count = -1 THEN 1 ELSE count
Positive(count) == IF count > 0 THEN count ELSE 0

-----------------------------------------------------------------------------
\* Normalised counts.

min_table_log(src_size, max_symbol) ==
  Min({highbit32(Max({src_size, 2})) + 1,
       IF max_symbol = 0 THEN 1 ELSE highbit32(max_symbol) + 2})

optimal_table_log(max_table_log, src_size, max_symbol) ==
  LET size == Max({src_size, 2})
      cap == Max({MIN_TABLELOG, Min({max_table_log, TABLELOG_MAX})})
      max_bits_src == Max({highbit32(size - 1) - 2, 0})
      min_bits == min_table_log(size, max_symbol)
      by_size == IF max_bits_src < cap THEN Max({max_bits_src, MIN_TABLELOG}) ELSE cap
      by_symbols == IF min_bits > by_size THEN Min({min_bits, cap}) ELSE by_size
  IN  Max({MIN_TABLELOG, Min({by_symbols, cap})})

\* A symbol's share of the table, rounded up when its remainder beats RTB_TABLE.
Proba(value, total, log) ==
  LET scale == FIXED_POINT - log
      current == value * (2^FIXED_POINT \div total)
      proba == current \div 2^scale
  IN  IF proba < 8 /\ current - proba * 2^scale > 2^(scale - 20) * RTB_TABLE[proba + 1]
      THEN proba + 1 ELSE proba

\* The first symbol for which f is largest.
FirstMax(f) ==
  CHOOSE s \in DOMAIN f : \A t \in DOMAIN f : f[t] < f[s] \/ (f[t] = f[s] /\ s <= t)

\* What every symbol of normalize_count_m2 that is fixed at once gets.
Fixed(count, low_threshold, low) ==
  [s \in DOMAIN count |-> CASE count[s] = 0 -> 0
                            [] count[s] \in 1..low_threshold -> low
                            [] OTHER -> 1]

\* The symbols that are still open share the slots by their counts, rounding as they go.
ShareOut(count, open, fixed, total, log, to_distribute) ==
  LET v_step == 2^(FIXED_POINT - log)
      mid == v_step \div 2 - 1
      r_step == (v_step * to_distribute + mid) \div total
      ends[s \in -1..MaxSymbol(count)] ==
        IF s = -1 THEN mid ELSE ends[s - 1] + IF s \in open THEN count[s] * r_step ELSE 0
      shared == [s \in DOMAIN count |->
                   IF s \in open THEN ends[s] \div v_step - ends[s - 1] \div v_step ELSE fixed[s]]
  IN  IF \E s \in open : shared[s] < 1 THEN Err("Generic") ELSE Ok(shared)

\* Once the small ones are fixed: the largest takes the rest, or the fixed ones do in
\* turn, or it is shared out.
Distribute(count, open, fixed, total, log, to_distribute) ==
  LET ones == {s \in DOMAIN count : fixed[s] > 0}
      each == to_distribute \div Cardinality(ones)
      more == to_distribute % Cardinality(ones)
  IN  IF open = {} /\ \A s \in DOMAIN count : count[s] > 0
      THEN Ok([fixed EXCEPT ![FirstMax(count)] = @ + to_distribute])
      ELSE IF total = 0
      THEN Ok([s \in DOMAIN count |->
                 IF s \notin ones THEN fixed[s]
                 ELSE fixed[s] + each + IF Cardinality({t \in ones : t < s}) < more THEN 1 ELSE 0])
      ELSE ShareOut(count, open, fixed, total, log, to_distribute)

TotalOf(count, symbols) == Total([s \in DOMAIN count |-> IF s \in symbols THEN count[s] ELSE 0])

DistributeAbove(count, one, fixed, log) ==
  LET open == {s \in DOMAIN count : count[s] > one}
  IN  Distribute(count, open, fixed, TotalOf(count, open), log,
                 2^log - Cardinality({s \in DOMAIN count \ open : count[s] > 0}))

\* normalize_count_m2: fix the small ones first, then share out what is left.
normalize_count_m2(count, total, log, low) ==
  LET low_one == (total * 3) \div 2^(log + 1)
      open == {s \in DOMAIN count : count[s] > low_one}
      left == TotalOf(count, open)
      slots == 2^log - Cardinality({s \in DOMAIN count \ open : count[s] > 0})
      fixed == Fixed(count, total \div 2^log, low)
  IN  IF slots = 0 THEN Ok(fixed)
      ELSE DistributeAbove(count, IF left \div slots > low_one
                                  THEN Max({low_one, (left * 3) \div (slots * 2)}) ELSE low_one,
                           fixed, log)

\* The largest share takes what rounding left, unless that is too much of it.
Correct(count, total, log, low, first, largest, still_to_distribute) ==
  IF -still_to_distribute >= first[largest] \div 2 THEN normalize_count_m2(count, total, log, low)
  ELSE Ok([first EXCEPT ![largest] = @ + still_to_distribute])

ShareAndCorrect(count, total, log, low, high, proba) ==
  Correct(count, total, log, low,
          [s \in DOMAIN count |-> IF s \in high THEN proba[s] ELSE IF count[s] > 0 THEN low ELSE 0],
          IF Total(proba) = 0 THEN 0 ELSE FirstMax(proba),
          2^log - Total(proba) - Cardinality({s \in DOMAIN count : count[s] > 0 /\ s \notin high}))

\* The counts, adding up to 2^log.
Normalise(count, total, log, low) ==
  LET high == {s \in DOMAIN count : count[s] > total \div 2^log}
  IN  ShareAndCorrect(count, total, log, low, high,
                      [s \in DOMAIN count |-> IF s \in high THEN Proba(count[s], total, log) ELSE 0])

\* [log, norm].  Table log 0 says that one symbol is all there is.
normalize_count(count, log, use_low_prob_count) ==
  LET total == Total(count)
  IN  IF total < 2 THEN Err("InvalidParameter")
      ELSE IF log < min_table_log(total, MaxSymbol(count)) THEN Err("Generic")
      ELSE IF \E s \in DOMAIN count : count[s] = total THEN Ok([log |-> 0, norm |-> << >>])
      ELSE Try(Normalise(count, total, log, IF use_low_prob_count THEN -1 ELSE 1), LAMBDA norm :
             Ok([log |-> log, norm |-> norm]))

-----------------------------------------------------------------------------
\* Their description on the wire.

\* nb_bits and threshold shrink with what remains to be told.
Threshold(remaining) == 2^highbit32(remaining)

\* A count, offset by one, in one bit less than its threshold needs when it is small.
WriteCount(count, remaining, threshold) ==
  LET max == 2 * threshold - 1 - remaining
      value == count + 1 + IF count + 1 >= threshold THEN max ELSE 0
  IN  ToBits(value, highbit32(threshold) + IF value < max THEN 0 ELSE 1)

\* A run of zero counts after the first: 24 at a time, three at a time, then the rest.
WriteZeroRun(skipped) ==
  LET threes == (skipped % 24) \div 3
  IN  [i \in 1..(16 * (skipped \div 24) + 2 * threes) |-> 1] \o ToBits(skipped % 3, 2)

EndOfCounts(w) ==
  IF w.remaining # 1 THEN Err("Generic")
  ELSE Ok(w.bits \o [i \in 1..(8 * CeilDiv(Len(w.bits), 8) - Len(w.bits)) |-> 0])

\* threshold follows remaining down and never comes back up.
write_ncount(norm, log) ==
  LET alphabet_size == MaxSymbol(norm) + 1
      RunEnd(s) == Min({t \in s..alphabet_size : t = alphabet_size \/ norm[t] # 0})
      start == [symbol |-> 0, remaining |-> 2^log + 1, threshold |-> 2^log, previous_is_zero |-> FALSE,
                bits |-> ToBits(log - MIN_TABLELOG, 4)]
      step(w) ==
        LET symbol == IF w.previous_is_zero THEN RunEnd(w.symbol) ELSE w.symbol
            remaining == w.remaining - Slots(norm[symbol])
            zeros == IF w.previous_is_zero THEN WriteZeroRun(symbol - w.symbol) ELSE << >>
        IN  IF w.symbol = alphabet_size \/ w.remaining <= 1 THEN w
            ELSE IF symbol = alphabet_size THEN [w EXCEPT !.symbol = symbol]
            ELSE [symbol |-> symbol + 1, remaining |-> remaining,
                  threshold |-> IF remaining < 1 THEN 1 ELSE Min({w.threshold, Threshold(remaining)}),
                  previous_is_zero |-> norm[symbol] = 0,
                  bits |-> w.bits \o zeros \o WriteCount(norm[symbol], w.remaining, w.threshold)]
  IN  EndOfCounts(Loop(LAMBDA w, i : step(w), start, alphabet_size))

\* The reader's 32-bit word at byte ip, shifted right by bit_count: n bits of it, and
\* zeros where the word ends.
LookWord(src, at, n) ==
  LET shift == at.bit_count % 32
  IN  FromBits([k \in 1..n |-> IF shift + k <= 32 THEN src[8 * at.ip + shift + k] ELSE 0])

can_reload_u32(src, at) == at.ip + at.bit_count \div 8 + 4 <= Len(src) \div 8

Reloaded(src, at) ==
  IF can_reload_u32(src, at)
  THEN [ip |-> at.ip + at.bit_count \div 8, bit_count |-> at.bit_count % 8] ELSE at

Pinned(src, at) ==
  LET last == Len(src) \div 8 - 4
  IN  IF can_reload_u32(src, at) THEN Reloaded(src, at)
      ELSE [ip |-> last, bit_count |-> at.bit_count - 8 * Max({last - at.ip, 0})]

\* Skipping a run of zeros: [n0, at].
ReadZeroRun(src, at, charnum) ==
  LET words == Len(src) \div 8
      by24[j \in 0..words] ==
        IF j = 0 THEN [n0 |-> charnum, at |-> at, more |-> TRUE]
        ELSE LET r == by24[j - 1] IN
             IF ~r.more \/ LookWord(src, r.at, 16) # 65535 THEN [r EXCEPT !.more = FALSE]
             ELSE [n0 |-> r.n0 + 24, more |-> TRUE,
                   at |-> IF r.at.ip + 6 <= words THEN [r.at EXCEPT !.ip = @ + 2]
                          ELSE [r.at EXCEPT !.bit_count = @ + 16]]
      by3[j \in 0..16] ==
        IF j = 0 THEN [by24[words] EXCEPT !.more = TRUE]
        ELSE LET r == by3[j - 1] IN
             IF ~r.more \/ r.at.bit_count >= 32 \/ LookWord(src, r.at, 2) # 3
             THEN [r EXCEPT !.more = FALSE]
             ELSE [n0 |-> r.n0 + 3, more |-> TRUE, at |-> [r.at EXCEPT !.bit_count = @ + 2]]
      r == by3[16]
      rest == IF r.at.bit_count >= 32 THEN 0 ELSE LookWord(src, r.at, 2)
  IN  [n0 |-> r.n0 + rest, at |-> Reloaded(src, [r.at EXCEPT !.bit_count = @ + 2])]

ReadCount(src, at, remaining, threshold) ==
  LET max == 2 * threshold - 1 - remaining
      log == highbit32(threshold)
      short == LookWord(src, at, log)
      long == LookWord(src, at, log + 1)
  IN  IF short < max THEN [count |-> short - 1, bits |-> log]
      ELSE [count |-> (IF long >= threshold THEN long - max ELSE long) - 1, bits |-> log + 1]

\* One more count: r is what has been read, `run` where the zeros before it end, `read`
\* the count itself.
Counted(src, r, run, read) ==
  LET remaining == r.remaining - Slots(read.count)
  IN  [charnum |-> run.n0 + 1, remaining |-> remaining,
       threshold |-> Min({r.threshold, IF remaining < 1 THEN 1 ELSE Threshold(remaining)}),
       previous0 |-> read.count = 0, norm |-> [r.norm EXCEPT ![run.n0] = read.count],
       at |-> Pinned(src, [run.at EXCEPT !.bit_count = @ + read.bits]), error |-> "none"]

CountAfter(src, r, run, max_symbol_value) ==
  IF run.n0 > max_symbol_value THEN [r EXCEPT !.error = "MaxSymbolValueTooSmall"]
  ELSE Counted(src, r, run, ReadCount(src, run.at, r.remaining, r.threshold))

NextCount(src, r, max_symbol_value) ==
  IF r.error # "none" \/ r.remaining <= 1 \/ r.charnum > max_symbol_value THEN r
  ELSE CountAfter(src, r, IF r.previous0 THEN ReadZeroRun(src, r.at, r.charnum)
                          ELSE [n0 |-> r.charnum, at |-> r.at], max_symbol_value)

AllCounted(r, log, bytes) ==
  LET size == r.at.ip + CeilDiv(r.at.bit_count, 8)
  IN  IF r.error # "none" THEN Err(r.error)
      ELSE IF r.remaining # 1 \/ r.at.bit_count > 32 \/ size > bytes THEN Err("Corruption")
      ELSE Ok([log |-> log, size |-> size, norm |-> [s \in 0..(r.charnum - 1) |-> r.norm[s]]])

\* A source shorter than a word is read from a copy that zeros extend.
read_ncount(bits, max_symbol_value, max_table_log) ==
  LET src == bits \o [i \in 1..Max({32 - Len(bits), 0}) |-> 0]
      log == FromBits(SubSeq(src, 1, 4)) + MIN_TABLELOG
      start == [charnum |-> 0, remaining |-> 2^log + 1, threshold |-> 2^log, previous0 |-> FALSE,
                norm |-> [s \in 0..max_symbol_value |-> 0], at |-> [ip |-> 0, bit_count |-> 4],
                error |-> "none"]
  IN  IF log > max_table_log THEN Err("TableLogTooLarge")
      ELSE AllCounted(Loop(LAMBDA r, i : NextCount(src, r, max_symbol_value), start,
                           max_symbol_value + 1), log, Len(bits) \div 8)

-----------------------------------------------------------------------------
\* Tables.

table_step(size) == size \div 2 + size \div 8 + 3

\* The positions the spread visits, in order: those the rare symbols do not hold.
SpreadPositions(size, high_threshold) ==
  SelectSeq([i \in 1..size |-> ((i - 1) * table_step(size)) % size], LAMBDA p : p <= high_threshold)

\* The symbol of every slot: rare ones from the top down, the others by the spread.  The
\* code refuses counts that do not bring the spread back to slot 0.
SpreadSymbols(norm, log) ==
  LET size == 2^log
      rare == SelectSeq([i \in 1..(MaxSymbol(norm) + 1) |-> i - 1], LAMBDA s : norm[s] = -1)
      high_threshold == size - 1 - Len(rare)
      positions == SpreadPositions(size, high_threshold)
      spread == Loop(LAMBDA all, i : all \o [j \in 1..Positive(norm[i - 1]) |-> i - 1], << >>,
                         MaxSymbol(norm) + 1)
      from_top == [u \in 0..(size - 1) |-> IF u > high_threshold THEN rare[size - u] ELSE 0]
  IN  IF Len(spread) # high_threshold + 1 THEN << >>
      ELSE Loop(LAMBDA table, i : [table EXCEPT ![positions[i]] = spread[i]], from_top,
                    Len(spread))

\* How many earlier slots hold the same symbol.
Rank(table_symbol, u) == Cardinality({v \in 0..(u - 1) : table_symbol[v] = table_symbol[u]})

build_dtable(norm, log) ==
  LET table_symbol == SpreadSymbols(norm, log)
      size == 2^log
      NextState(u) == Slots(norm[table_symbol[u]]) + Rank(table_symbol, u)
      NbBits(u) == log - highbit32(NextState(u))
  IN  [log |-> log,
       fast_mode |-> \A s \in DOMAIN norm : norm[s] < 2^(log - 1),
       entries |-> [u \in 0..(size - 1) |->
                      [symbol |-> table_symbol[u], nb_bits |-> NbBits(u),
                       new_state |-> NextState(u) * 2^NbBits(u) - size]]]

build_rle_dtable(symbol) ==
  [log |-> 0, fast_mode |-> FALSE,
   entries |-> [u \in {0} |-> [symbol |-> symbol, nb_bits |-> 0, new_state |-> 0]]]

\* The slots of each symbol, in order, one symbol after the other.
StateTable(table_symbol, max_symbol, size) ==
  LET slots == [i \in 1..size |-> i - 1]
  IN  Loop(LAMBDA table, i : table \o SelectSeq(slots, LAMBDA u : table_symbol[u] = i - 1), << >>,
               max_symbol + 1)

build_ctable(norm, log) ==
  LET table_symbol == SpreadSymbols(norm, log)
      size == 2^log
      cumul[s \in 0..(MaxSymbol(norm) + 1)] ==
        IF s = 0 THEN 0 ELSE cumul[s - 1] + Slots(norm[s - 1])
      MaxBitsOut(count) == log - highbit32(count - 1)
  IN  [log |-> log, max_symbol |-> MaxSymbol(norm),
       state_table |-> LET slots == StateTable(table_symbol, MaxSymbol(norm), size)
                       IN  [i \in 0..(size - 1) |-> size + slots[i + 1]],
       delta_find_state |-> [s \in DOMAIN norm |->
         IF norm[s] = 0 THEN 0 ELSE cumul[s] - Slots(norm[s])],
       delta_nb_bits |-> [s \in DOMAIN norm |->
         CASE norm[s] = 0 -> (log + 1) * 65536 - size
           [] norm[s] \in {-1, 1} -> log * 65536 - size
           [] norm[s] > 1 -> MaxBitsOut(norm[s]) * 65536 - norm[s] * 2^MaxBitsOut(norm[s])]]

build_rle_ctable(symbol) ==
  [log |-> 0, max_symbol |-> symbol, state_table |-> [i \in {0} |-> 0],
   delta_find_state |-> [s \in 0..symbol |-> 0], delta_nb_bits |-> [s \in 0..symbol |-> 0]]

-----------------------------------------------------------------------------
\* States.

\* The state a stream ends with, chosen so that it costs the fewest bits.
init_cstate2(ct, symbol) ==
  LET delta == ct.delta_nb_bits[symbol]
      nb_bits_out == (delta + 32768) \div 65536
      value == nb_bits_out * 65536 - delta
  IN  ct.state_table[value \div 2^nb_bits_out + ct.delta_find_state[symbol]]

\* [bits, value]: the low bits of the state go out, the rest leads to the next one.
encode_symbol(ct, value, symbol) ==
  LET nb_bits_out == (value + ct.delta_nb_bits[symbol]) \div 65536
  IN  [bits |-> ToBits(value, nb_bits_out),
       value |-> ct.state_table[value \div 2^nb_bits_out + ct.delta_find_state[symbol]]]

flush_cstate(ct, value) == ToBits(value, ct.log)

init_dstate(dt, bits, left) == [state |-> ReadBack(bits, left, dt.log), left |-> left - dt.log]

decode_symbol(dt, d, bits) ==
  LET info == dt.entries[d.state]
  IN  [state |-> info.new_state + ReadBack(bits, d.left, info.nb_bits), left |-> d.left - info.nb_bits]

-----------------------------------------------------------------------------
\* Two interleaved states, as for Huffman weights: odd places use the first.

Lane(i) == IF i % 2 = 1 THEN 1 ELSE 2

\* compress_using_ctable: from the last symbol to the first; empty when it declines.
compress_using_ctable(src, ct) ==
  LET n == Len(src)
      start == [bits |-> << >>,
                states |-> [k \in {1, 2} |-> init_cstate2(ct, src[IF Lane(n) = k THEN n ELSE n - 1])]]
      step(w, i) ==
        LET place == n - 1 - i
            e == encode_symbol(ct, w.states[Lane(place)], src[place])
        IN  [bits |-> w.bits \o e.bits, states |-> [w.states EXCEPT ![Lane(place)] = e.value]]
      end == Loop(step, start, n - 2)
  IN  IF n <= 2 THEN << >>
      ELSE CloseStream(end.bits \o flush_cstate(ct, end.states[2]) \o flush_cstate(ct, end.states[1]))

\* decompress_using_dtable_generic: a symbol from each state in turn until the bits run
\* out, then the one that the other state still holds.
decompress_interleaved2(bits, dt, capacity) ==
  LET left == OpenStream(bits)
      first == init_dstate(dt, bits, left)
      second == init_dstate(dt, bits, first.left)
      start == [states |-> <<first.state, second.state>>, left |-> second.left, out |-> << >>,
                status |-> "running"]
      step(r, i) ==
        LET lane == Lane(i)
            d == decode_symbol(dt, [state |-> r.states[lane], left |-> r.left], bits)
            out == Append(r.out, dt.entries[r.states[lane]].symbol)
            other == dt.entries[r.states[3 - lane]].symbol
        IN  IF r.status # "running" THEN r
            ELSE IF Len(r.out) > Max({capacity - 2, 0}) THEN [r EXCEPT !.status = "DstSizeTooSmall"]
            ELSE [states |-> [r.states EXCEPT ![lane] = d.state], left |-> d.left,
                  out |-> IF d.left < 0 THEN Append(out, other) ELSE out,
                  status |-> IF d.left < 0 THEN "none" ELSE "running"]
  IN  IF dt.log = 0 \/ left < 0 \/ second.left < 0 THEN [status |-> "Corruption", out |-> << >>]
      ELSE Loop(step, start, capacity)

Interleaved(end) == IF end.status = "none" THEN Ok(end.out) ELSE Err(end.status)

\* fse::decompress: the counts, their table, the stream.
decompress(bits, max_symbol_value, max_table_log, capacity) ==
  Try(read_ncount(bits, max_symbol_value, max_table_log), LAMBDA n :
    IF SpreadSymbols(n.norm, n.log) = << >> THEN Err("Generic")
    ELSE Interleaved(decompress_interleaved2(SubSeq(bits, 8 * n.size + 1, Len(bits)),
                                             build_dtable(n.norm, n.log), capacity)))
=============================================================================
