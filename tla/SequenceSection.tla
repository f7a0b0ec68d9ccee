--------------------------- MODULE SequenceSection ---------------------------
(***************************************************************************)
(* The sequences of a compressed block, from commands to bits and back     *)
(* (src/sequence.rs): the table of each part and how it is described, the  *)
(* section's header, and the bit stream of interleaved states and extra    *)
(* bits, which the encoder writes from the last sequence to the first.     *)
(*                                                                         *)
(* A table is what the encoder keeps of it, its normalised counts and log  *)
(* (log 0: one symbol); which admissible mode a part uses is left open, as *)
(* it is decided by the estimated sizes.                                   *)
(***************************************************************************)
EXTENDS Fse, SectionFormat

SequencePart == {"ll", "of", "ml"}

max_symbol_value(part) == CASE part = "ll" -> 35 [] part = "of" -> 31 [] part = "ml" -> 52
default_max_symbol(part) == CASE part = "ll" -> 35 [] part = "of" -> 28 [] part = "ml" -> 52
max_accuracy_log(part) == IF part = "of" THEN 8 ELSE 9

FromZero(s) == [i \in 0..(Len(s) - 1) |-> s[i + 1]]

LITERAL_LENGTH_DEFAULT_DISTRIBUTION ==
  FromZero(<<4, 3>> \o Times(2, 11) \o Times(1, 3) \o Times(2, 9) \o <<3, 2>> \o Times(1, 5)
             \o Times(-1, 4))
OFFSET_DEFAULT_DISTRIBUTION == FromZero(Times(1, 6) \o Times(2, 3) \o Times(1, 15) \o Times(-1, 5))
MATCH_LENGTH_DEFAULT_DISTRIBUTION ==
  FromZero(<<1, 4, 3>> \o Times(2, 6) \o Times(1, 37) \o Times(-1, 7))

default_distribution(part) ==
  CASE part = "ll" -> [norm |-> LITERAL_LENGTH_DEFAULT_DISTRIBUTION, log |-> 6]
    [] part = "of" -> [norm |-> OFFSET_DEFAULT_DISTRIBUTION, log |-> 5]
    [] part = "ml" -> [norm |-> MATCH_LENGTH_DEFAULT_DISTRIBUTION, log |-> 6]

-----------------------------------------------------------------------------
\* Tables.

\* A table with one symbol, as build_rle_ctable and build_rle_dtable make it.
RleTable(symbol) == [log |-> 0, norm |-> [s \in 0..symbol |-> IF s = symbol THEN 1 ELSE 0]]

CTable(t) == IF t.log = 0 THEN build_rle_ctable(MaxSymbol(t.norm)) ELSE build_ctable(t.norm, t.log)
DTable(t) == IF t.log = 0 THEN build_rle_dtable(MaxSymbol(t.norm)) ELSE build_dtable(t.norm, t.log)

\* supports_all_from_stats: the table has a code for everything that occurs.
supports_all(t, codes) ==
  \A i \in DOMAIN codes : codes[i] \in DOMAIN t.norm /\ t.norm[codes[i]] # 0

Histogram(codes) ==
  [s \in 0..Max(ToSet(codes)) |-> Cardinality({i \in DOMAIN codes : codes[i] = s})]

\* build_compressed_table_choice: the last symbol costs no transition, so it counts one less.
CompressedTable(part, codes) ==
  LET counts == Histogram(codes)
      last == codes[Len(codes)]
      effective == IF counts[last] > 1 THEN [counts EXCEPT ![last] = @ - 1] ELSE counts
      log == optimal_table_log(max_accuracy_log(part), Len(codes), MaxSymbol(counts))
  IN  normalize_count(effective, log, Total(effective) >= 2048).value

DescribedTable(n) == [table |-> n, header |-> write_ncount(n.norm, n.log).value, persist_mode |-> "Check"]

\* select_table_choice: the modes a part may take; the cheapest of them is taken.
Modes(part, codes, previous) ==
  LET all_equal == Cardinality(ToSet(codes)) = 1
      default_allowed == Max(ToSet(codes)) <= default_max_symbol(part)
      Predefined == IF default_allowed THEN {"Predefined"} ELSE {}
      Repeat == IF previous.repeat_mode # "None" /\ supports_all(previous.table, codes)
                THEN {"Repeat"} ELSE {}
  IN  IF all_equal THEN IF default_allowed /\ Len(codes) <= 2 THEN {"Predefined"} ELSE {"Rle"}
      ELSE Predefined \cup Repeat \cup {"FseCompressed"}

\* build_selected_table_choice: [table, header, persist_mode].
TableChoice(part, codes, previous, mode) ==
  CASE mode = "Predefined" ->
         [table |-> default_distribution(part), header |-> << >>, persist_mode |-> "None"]
    [] mode = "Rle" ->
         [table |-> RleTable(codes[1]), header |-> ToBits(codes[1], 8), persist_mode |-> "None"]
    [] mode = "Repeat" ->
         [table |-> previous.table, header |-> << >>, persist_mode |-> previous.repeat_mode]
    [] mode = "FseCompressed" ->
         DescribedTable(CompressedTable(part, codes))

\* into_part_state: what the next block may repeat.
NextState(choice) == [table |-> choice.table, repeat_mode |-> choice.persist_mode]

CompressionMode == <<"Predefined", "Rle", "FseCompressed", "Repeat">>
mode_bits(mode) == CHOOSE b \in 0..3 : CompressionMode[b + 1] = mode

-----------------------------------------------------------------------------
\* The bit stream.

CodeOf(part, c) == CASE part = "ll" -> c.ll_code [] part = "of" -> c.of_code [] part = "ml" -> c.ml_code

Extras(c) ==
  ToBits(c.ll_extra, ll_bits(c.ll_code)) \o ToBits(c.ml_extra, ml_bits(c.ml_code))
    \o ToBits(c.of_extra, c.of_code)

\* One more sequence goes out: its codes move the states, its extra bits follow.
EncodeSequence(ct, w, c) ==
  LET of == encode_symbol(ct["of"], w.states["of"], c.of_code)
      ml == encode_symbol(ct["ml"], w.states["ml"], c.ml_code)
      ll == encode_symbol(ct["ll"], w.states["ll"], c.ll_code)
  IN  [bits |-> w.bits \o of.bits \o ml.bits \o ll.bits \o Extras(c),
       states |-> [ll |-> ll.value, of |-> of.value, ml |-> ml.value]]

Flushed(ct, w) ==
  CloseStream(w.bits \o flush_cstate(ct["ml"], w.states["ml"]) \o flush_cstate(ct["of"], w.states["of"])
                     \o flush_cstate(ct["ll"], w.states["ll"]))

\* encode_sequence_bitstream_into: the last sequence sets the states, the others move them.
EncodeWith(commands, n, ct) ==
  Flushed(ct, Loop(LAMBDA w, i : EncodeSequence(ct, w, commands[n - i]),
                   [bits |-> Extras(commands[n]),
                    states |-> [part \in SequencePart |-> init_cstate2(ct[part], CodeOf(part, commands[n]))]],
                   n - 1))

encode_sequence_bitstream(commands, tables) ==
  EncodeWith(commands, Len(commands), [part \in SequencePart |-> CTable(tables[part])])

\* The extra bits of offset, match and literals, in that order: the sequence and what is
\* left of the stream.
ReadExtras(bits, left, code) ==
  LET after_of == left - code["of"]
      after_ml == after_of - ml_bits(code["ml"])
  IN  [sequence |-> DecodeSequence(code["ll"], ReadBack(bits, after_ml, ll_bits(code["ll"])),
                                   code["of"], ReadBack(bits, left, code["of"]),
                                   code["ml"], ReadBack(bits, after_of, ml_bits(code["ml"]))),
       left |-> after_ml - ll_bits(code["ll"])]

\* The states of the next sequence, in the order the encoder flushed them.
NextStates(bits, dt, states, left) ==
  LET ll == decode_symbol(dt["ll"], [state |-> states["ll"], left |-> left], bits)
      ml == decode_symbol(dt["ml"], [state |-> states["ml"], left |-> ll.left], bits)
      of == decode_symbol(dt["of"], [state |-> states["of"], left |-> ml.left], bits)
  IN  [states |-> [ll |-> ll.state, of |-> of.state, ml |-> ml.state], left |-> of.left]

StartStates(bits, dt, left) ==
  LET ll == init_dstate(dt["ll"], bits, left)
      of == init_dstate(dt["of"], bits, ll.left)
      ml == init_dstate(dt["ml"], bits, of.left)
  IN  [states |-> [ll |-> ll.state, of |-> of.state, ml |-> ml.state], left |-> ml.left]

\* The last sequence leaves the states alone.
Decoded(out, states, left) ==
  [states |-> states, left |-> left, out |-> out, error |-> IF left < 0 THEN "Corruption" ELSE "none"]

DecodeOne(bits, dt, r, read, last) ==
  LET out == Append(r.out, read.sequence)
      next == NextStates(bits, dt, r.states, read.left)
  IN  IF last THEN [r EXCEPT !.out = out, !.left = read.left] ELSE Decoded(out, next.states, next.left)

DecodeNext(bits, dt, r, last) ==
  IF r.error # "none" THEN r
  ELSE DecodeOne(bits, dt, r,
                 ReadExtras(bits, r.left,
                            [part \in SequencePart |-> dt[part].entries[r.states[part]].symbol]), last)

AllDecoded(r) == IF r.error # "none" \/ r.left # 0 THEN Err("Corruption") ELSE Ok(r.out)

DecodeFrom(bits, n, dt, start) ==
  AllDecoded(Loop(LAMBDA r, i : DecodeNext(bits, dt, r, i = n),
                  [states |-> start.states, left |-> start.left, out |-> << >>, error |-> "none"], n))

DecodeWith(bits, n, dt) == DecodeFrom(bits, n, dt, StartStates(bits, dt, OpenStream(bits)))

\* execute_block_sequences, as far as it reads: three states, then for every sequence the
\* extra bits and the states of the next one.
decode_sequences(bits, number_of_sequences, tables) ==
  IF OpenStream(bits) < 0 THEN Err("Corruption")
  ELSE DecodeWith(bits, number_of_sequences, [part \in SequencePart |-> DTable(tables[part])])

-----------------------------------------------------------------------------
\* The section.

\* Commands to codes, for every sequence that can be coded.
Commands(sequences) == [i \in DOMAIN sequences |-> encode_sequence_command(sequences[i]).value]

Codes(part, commands) == [i \in DOMAIN commands |-> CodeOf(part, commands[i])]

\* The count, the modes, a description for each table that needs one, the bit stream; and
\* what the encoder keeps for the next block.
EncodeWithChoice(commands, modes, choice) ==
  [bits |-> encode_sequence_count(Len(commands)).value
              \o ToBits(0, 2) \o ToBits(mode_bits(modes["ml"]), 2)
              \o ToBits(mode_bits(modes["of"]), 2) \o ToBits(mode_bits(modes["ll"]), 2)
              \o choice["ll"].header \o choice["of"].header \o choice["ml"].header
              \o encode_sequence_bitstream(commands, [part \in SequencePart |-> choice[part].table]),
   next |-> [part \in SequencePart |-> NextState(choice[part])]]

EncodeCommands(commands, modes, previous) ==
  EncodeWithChoice(commands, modes,
    [part \in SequencePart |-> TableChoice(part, Codes(part, commands), previous[part], modes[part])])

encode_sequence_section(sequences, modes, previous) ==
  IF sequences = << >> THEN [bits |-> ToBits(0, 8), next |-> previous]
  ELSE EncodeCommands(Commands(sequences), modes, previous)

NoTable == [log |-> -1, norm |-> << >>]

\* decode_seq_table_both: the table of one part and where its description ends.
decode_seq_table(src, cursor, part, mode, table) ==
  LET rest == SubSeq(src, 8 * cursor + 1, Len(src))
  IN  CASE mode = "Predefined" -> Ok([table |-> default_distribution(part), cursor |-> cursor])
        [] mode = "Rle" ->
             IF ~HasBytes(rest, 1) THEN Err("UnexpectedEof")
             ELSE IF Bits(rest, 0, 8) > max_symbol_value(part) THEN Err("Corruption")
             ELSE Ok([table |-> RleTable(Bits(rest, 0, 8)), cursor |-> cursor + 1])
        [] mode = "FseCompressed" ->
             Try(read_ncount(rest, max_symbol_value(part), max_accuracy_log(part)), LAMBDA n :
               Ok([table |-> [norm |-> n.norm, log |-> n.log], cursor |-> cursor + n.size]))
        [] mode = "Repeat" ->
             IF table = NoTable THEN Err("Corruption") ELSE Ok([table |-> table, cursor |-> cursor])

\* parse_sequence_section and the decode that follows it, with the tables left for the
\* next block.
DecodeBody(src, tables, count, size, mode) ==
  Try(decode_seq_table(src, size + 1, "ll", mode["ll"], tables["ll"]), LAMBDA ll :
  Try(decode_seq_table(src, ll.cursor, "of", mode["of"], tables["of"]), LAMBDA of :
  Try(decode_seq_table(src, of.cursor, "ml", mode["ml"], tables["ml"]), LAMBDA ml :
    LET next == [ll |-> ll.table, of |-> of.table, ml |-> ml.table]
        bitstream == SubSeq(src, 8 * ml.cursor + 1, Len(src))
    IN  IF bitstream = << >> THEN Err("UnexpectedEof")
        ELSE Try(decode_sequences(bitstream, count, next), LAMBDA out :
               Ok([sequences |-> out, tables |-> next])))))

decode_sequence_section(src, tables) ==
  Try(parse_sequence_count(src), LAMBDA parsed :
    LET size == parsed.size
        modes_byte == Bits(src, 8 * size, 8)
        mode == [part \in SequencePart |->
                   CompressionMode[1 + Bits(src, 8 * size + (CASE part = "ml" -> 2 [] part = "of" -> 4
                                                               [] part = "ll" -> 6), 2)]]
    IN  IF parsed.count = 0 THEN Ok([sequences |-> << >>, tables |-> tables])
        ELSE IF ~HasBytes(src, size + 1) THEN Err("UnexpectedEof")
        ELSE IF modes_byte % 4 # 0 THEN Err("Corruption")
        ELSE DecodeBody(src, tables, parsed.count, size, mode))
=============================================================================
