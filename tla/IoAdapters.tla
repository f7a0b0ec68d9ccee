------------------------------ MODULE IoAdapters ------------------------------
(***************************************************************************)
(* io::Writer and io::Reader (src/io.rs): a Writer pushes what it is given *)
(* through a StreamingEncoder into an inner Write that may fail part way;  *)
(* a Reader pulls chunks from an inner Read, which may be short, may be    *)
(* interrupted and may fail, through a StreamingDecoder.  The sink of the  *)
(* one, cut off anywhere, is the source of the other.                      *)
(*                                                                         *)
(* The codecs are reduced to what the adapters use of them.  The encoder   *)
(* makes units - a frame header, a block, the last block - of UnitBytes    *)
(* compressed bytes each, and queues them; the decoder turns every whole   *)
(* unit it holds into its content.  A compressed byte is its number in     *)
(* `units`, a byte of content its number in what was written, so that one  *)
(* that is lost or sent twice shows.                                       *)
(***************************************************************************)
EXTENDS Naturals, Sequences, FiniteSets, SequencesExt

CONSTANTS
  BlockSize, UnitBytes,            \* content of a full block; bytes of a unit
  READ_CHUNK_INITIAL, READ_CHUNK,  \* the two sizes of the Reader's chunk
  WriteSizes, ReadSizes,           \* what callers write and ask for
  Pledges,                         \* pledged_src_size of a Writer, Unpledged for none
  MaxContent, MaxFrames            \* bounds: content written, Writers over the sink

Unpledged == MaxContent + 1

ASSUME IoAssumption ==
  /\ BlockSize \in Nat \ {0} /\ UnitBytes \in Nat \ {0}
  /\ READ_CHUNK_INITIAL \in Nat \ {0} /\ READ_CHUNK \in Nat /\ READ_CHUNK_INITIAL < READ_CHUNK
  /\ WriteSizes \subseteq Nat /\ ReadSizes \subseteq Nat /\ Pledges \subseteq 0..Unpledged

VARIABLES
  units,         \* everything the encoders made: [kind, data]
  writer,        \* "open", "finished" (inner handed back), "dropped"
  pledged,
  buffered,      \* content the encoder has not made a block of
  written,       \* content taken so far: bytes 1..written
  began,         \* history: content written before this Writer
  pending,       \* compressed bytes queued: their numbers
  sink,          \* compressed bytes the inner writer took
  reported,      \* history: a call of a Writer returned an error
  synced,        \* history: a flush returned Ok and nothing was written since
  reader,        \* "closed", "open"
  file,          \* how many bytes of the sink the inner reader holds
  single_frame,  \* DecoderOptions::single_frame
  decoder,       \* [input, done, out, finished_input]: bytes held, units decoded, output
  got,           \* bytes the inner reader has handed over
  chunk,         \* chunk.len()
  input_done,
  finished,
  call,          \* the running call: "none", "read" or "read_to_end"
  dst,           \* dst.len() of a running read
  delivered,     \* content handed to the caller
  verdict        \* how the last call ended: "none", "Ok", "Eof" (Ok(0)), "UnexpectedEof",
                 \* "TrailingInput" or "Inner", an error of the inner reader

encoderVars == <<units, pledged, buffered, written, began>>
writerVars == <<units, writer, pledged, buffered, written, began, pending, sink, reported, synced>>
callVars == <<call, dst, delivered, verdict>>
readerVars == <<reader, file, single_frame, decoder, got, chunk, input_done, finished, callVars>>
ioVars == <<writerVars, readerVars>>

-----------------------------------------------------------------------------
\* The codecs, as the adapters see them.

Header == [kind |-> "header", data |-> << >>]
Block(kind, data) == [kind |-> kind, data |-> data]

\* The numbers of the bytes of units n+1..m.
BytesOf(n, m) == [k \in 1..(m - n) * UnitBytes |-> n * UnitBytes + k]

\* The content that units n+1..m carry.
Content(n, m) == FlattenSeq([k \in 1..m - n |-> units[n + k].data])

\* push: every full block is made at once and the rest waits.
push(buf) ==
  LET held == buffered \o buf
      full == Len(held) \div BlockSize
  IN  /\ units' = units \o [k \in 1..full |->
                              Block("block", SubSeq(held, (k - 1) * BlockSize + 1, k * BlockSize))]
      /\ buffered' = SubSeq(held, full * BlockSize + 1, Len(held))

\* The queue before the drain of the call that made the units.
Queue == pending \o BytesOf(Len(units), Len(units'))

\* StreamingDecoder::process over what the decoder holds: every whole unit is
\* decoded, except what follows a frame that was to be the only one.
Ends(n) == n > 0 /\ units[n].kind = "last"
Stops(n) == single_frame /\ Ends(n)
process(d) ==
  LET whole == Len(d.input) \div UnitBytes
      reach == {n \in d.done..d.done + whole : \A k \in d.done..n - 1 : ~Stops(k)}
      last  == CHOOSE n \in reach : \A k \in reach : k <= n
  IN  [d EXCEPT !.done = last, !.out = @ \o Content(d.done, last),
                !.input = SubSeq(@, (last - d.done) * UnitBytes + 1, Len(@))]
Refuses(d) == Stops(d.done) /\ d.input # << >>

\* finish_status: something was pushed, and it ended with a frame.
AtBoundary(d) == Ends(d.done) /\ d.input = << >>

IoInit ==
  /\ units = <<Header>> /\ writer = "open" /\ pledged \in Pledges
  /\ buffered = << >> /\ written = 0 /\ began = 0
  /\ pending = BytesOf(0, 1) /\ sink = << >>
  /\ reported = FALSE /\ synced = FALSE
  /\ reader = "closed" /\ file = 0 /\ single_frame = FALSE
  /\ decoder = [input |-> << >>, done |-> 0, out |-> << >>, finished_input |-> FALSE]
  /\ got = 0 /\ chunk = 0 /\ input_done = FALSE /\ finished = FALSE
  /\ call = "none" /\ dst = 0 /\ delivered = << >> /\ verdict = "none"

-----------------------------------------------------------------------------
\* Writer.

\* Mutant of KeepAfterDrain: what a failed write may not have delivered is kept.
KeepUndelivered(queue, ok) == IF ok THEN << >> ELSE queue

\* What stays queued behind a drain: nothing, whether or not the write succeeded.
KeepAfterDrain(queue, ok) == << >>

\* drain: write_all takes the whole queue, or some of it and fails.  What each
\* outcome leaves queued and has delivered.
drain(queue, into) ==
  {[pending |-> KeepAfterDrain(queue, n = Len(queue)), sink |-> into \o SubSeq(queue, 1, n),
    ok |-> n = Len(queue)] : n \in 0..Len(queue)}
Drained(d) == pending' = d.pending /\ sink' = d.sink

write ==
  /\ writer = "open"
  /\ \E n \in WriteSizes :
       /\ written + n <= MaxContent
       /\ push([k \in 1..n |-> written + k])
       /\ written' = written + n
  /\ \E d \in drain(Queue, sink) : Drained(d) /\ reported' = (reported \/ ~d.ok)
  /\ synced' = FALSE
  /\ UNCHANGED <<writer, pledged, began, readerVars>>

EncoderFlush ==
  IF buffered = << >> THEN UNCHANGED <<units, buffered>>
  ELSE units' = Append(units, Block("block", buffered)) /\ buffered' = << >>

\* flush: the encoder's, a drain, and the inner writer's, which may fail too.
flush ==
  /\ writer = "open"
  /\ EncoderFlush
  /\ \E d \in drain(Queue, sink), inner \in BOOLEAN :
       /\ Drained(d) /\ (inner => d.ok)
       /\ reported' = (reported \/ ~inner)
       /\ synced' = (inner /\ ~reported)
  /\ UNCHANGED <<writer, pledged, written, began, readerVars>>

\* finish: a broken pledge ends no frame and a failed drain is not tried again;
\* either way what is left of the Writer is dropped, which drains once more.
finish ==
  /\ writer = "open"
  /\ IF pledged \in {Unpledged, written - began}
     THEN /\ units' = Append(units, Block("last", buffered)) /\ buffered' = << >>
          /\ \E d \in drain(Queue, sink) :
               IF d.ok
               THEN /\ Drained(d)
                    /\ \E inner \in BOOLEAN : /\ writer' = IF inner THEN "finished" ELSE "dropped"
                                              /\ reported' = (reported \/ ~inner)
               ELSE /\ \E e \in drain(d.pending, d.sink) : Drained(e)
                    /\ writer' = "dropped" /\ reported' = TRUE
     ELSE /\ \E e \in drain(pending, sink) : Drained(e)
          /\ writer' = "dropped" /\ reported' = TRUE
          /\ UNCHANGED <<units, buffered>>
  /\ synced' = FALSE
  /\ UNCHANGED <<pledged, written, began, readerVars>>

\* drop: the frame stays without its last block.
drop ==
  /\ writer = "open"
  /\ \E e \in drain(pending, sink) : Drained(e)
  /\ writer' = "dropped" /\ synced' = FALSE
  /\ UNCHANGED <<encoderVars, reported, readerVars>>

\* with_options over the inner writer that finish returned: one more frame.
with_options ==
  /\ writer = "finished" /\ reader = "closed"
  /\ Cardinality({k \in 1..Len(units) : units[k] = Header}) < MaxFrames
  /\ writer' = "open" /\ pledged' \in Pledges /\ began' = written
  /\ units' = Append(units, Header) /\ pending' = BytesOf(Len(units), Len(units) + 1)
  /\ UNCHANGED <<buffered, written, sink, reported, synced, readerVars>>

-----------------------------------------------------------------------------
\* Reader.

\* A Reader over what arrived, all of it or cut short; a sink that lost bytes from its
\* middle is not read back.
open_reader ==
  /\ writer # "open" /\ reader = "closed"
  /\ \A k \in 1..Len(sink) : sink[k] = k
  /\ reader' = "open" /\ file' \in 0..Len(sink) /\ single_frame' \in BOOLEAN
  /\ UNCHANGED <<writerVars, decoder, got, chunk, input_done, finished, callVars>>

read ==
  /\ reader = "open" /\ call = "none"
  /\ \E n \in ReadSizes : IF n = 0 THEN UNCHANGED <<call, dst, verdict>>
                          ELSE call' = "read" /\ dst' = n /\ verdict' = "none"
  /\ UNCHANGED <<writerVars, reader, file, single_frame, decoder, got, chunk, input_done,
                 finished, delivered>>

read_to_end ==
  /\ reader = "open" /\ call = "none"
  /\ call' = "read_to_end" /\ verdict' = "none"
  /\ UNCHANGED <<writerVars, reader, file, single_frame, decoder, got, chunk, input_done,
                 finished, dst, delivered>>

Return(v) == call' = "none" /\ dst' = 0 /\ verdict' = v

\* The turn that finds output: read takes what fits and returns, read_to_end takes
\* all and goes on.
deliver ==
  /\ call # "none" /\ decoder.out # << >>
  /\ LET n == IF call = "read" /\ dst < Len(decoder.out) THEN dst ELSE Len(decoder.out)
     IN  /\ delivered' = delivered \o SubSeq(decoder.out, 1, n)
         /\ decoder' = [decoder EXCEPT !.out = SubSeq(@, n + 1, Len(@))]
  /\ IF call = "read" THEN Return("Ok") ELSE UNCHANGED <<call, dst, verdict>>
  /\ UNCHANGED <<writerVars, reader, file, single_frame, got, chunk, input_done, finished>>

\* The turn that finds the stream over.
end_of_stream ==
  /\ call # "none" /\ decoder.out = << >> /\ finished
  /\ Return("Eof")
  /\ UNCHANGED <<writerVars, reader, file, single_frame, decoder, got, chunk, input_done,
                 finished, delivered>>

\* Mutant of finish_decoder: a source that is exhausted is taken for a whole stream.
FinishUnchecked ==
  /\ call # "none" /\ decoder.out = << >> /\ ~finished /\ input_done
  /\ finished' = TRUE
  /\ UNCHANGED <<writerVars, reader, file, single_frame, decoder, got, chunk, input_done, callVars>>

\* The turn that finds the source exhausted: the decoder says whether that was the
\* end, and says it again to every later call.
finish_decoder ==
  /\ call # "none" /\ decoder.out = << >> /\ ~finished /\ input_done
  /\ decoder' = [decoder EXCEPT !.finished_input = TRUE]
  /\ \/ /\ ~Refuses(decoder) /\ AtBoundary(decoder)
        /\ finished' = TRUE /\ UNCHANGED <<call, dst, verdict>>
     \/ /\ ~Refuses(decoder) /\ ~AtBoundary(decoder)
        /\ Return("UnexpectedEof") /\ UNCHANGED finished
     \/ /\ Refuses(decoder) /\ UNCHANGED finished
        /\ Return(IF decoder.finished_input THEN "UnexpectedEof" ELSE "TrailingInput")
  /\ UNCHANGED <<writerVars, reader, file, single_frame, got, chunk, input_done, delivered>>

\* The turn that pulls a chunk.  chunk is what the source was offered.
Offered == IF chunk = 0 THEN READ_CHUNK_INITIAL ELSE chunk
Refilling == call # "none" /\ decoder.out = << >> /\ ~finished /\ ~input_done

\* refill, when the source has more: what arrives is pushed, and a chunk that was
\* filled grows, unless the push is refused.
refill ==
  /\ Refilling
  /\ \E n \in 1..Offered :
       /\ got + n <= file /\ got' = got + n
       /\ decoder' = process([decoder EXCEPT !.input = @ \o SubSeq(sink, got + 1, got + n)])
       /\ IF Refuses(decoder') THEN chunk' = Offered /\ Return("TrailingInput")
          ELSE /\ chunk' = IF n = Offered /\ n < READ_CHUNK THEN READ_CHUNK ELSE Offered
               /\ UNCHANGED <<call, dst, verdict>>
  /\ UNCHANGED <<writerVars, reader, file, single_frame, input_done, finished, delivered>>

\* Mutant of refill_nothing: the end of the source is not remembered.
RefillForgets ==
  /\ Refilling /\ got = file /\ chunk' = Offered
  /\ UNCHANGED <<writerVars, reader, file, single_frame, decoder, got, input_done, finished,
                 callVars>>

refill_nothing ==
  /\ Refilling /\ got = file
  /\ input_done' = TRUE /\ chunk' = Offered
  /\ UNCHANGED <<writerVars, reader, file, single_frame, decoder, got, finished, callVars>>

\* The source's errors: read hands every one to its caller, read_to_end tries an
\* interrupted one again.
refill_fails ==
  /\ Refilling /\ chunk' = Offered
  /\ \E interrupted \in BOOLEAN :
       IF interrupted /\ call = "read_to_end" THEN UNCHANGED <<call, dst, verdict>>
       ELSE Return("Inner")
  /\ UNCHANGED <<writerVars, reader, file, single_frame, decoder, got, input_done, finished,
                 delivered>>

-----------------------------------------------------------------------------
ReaderTurn == deliver \/ end_of_stream \/ finish_decoder \/ refill \/ refill_nothing
IoNext ==
  \/ write \/ flush \/ finish \/ drop \/ with_options
  \/ open_reader \/ read \/ read_to_end \/ ReaderTurn \/ refill_fails

\* A call runs on by itself, and a source that is asked again and again is not
\* interrupted for ever.
IoFairness == WF_ioVars(ReaderTurn)

IoSpec == IoInit /\ [][IoNext]_ioVars /\ IoFairness

-----------------------------------------------------------------------------
Increasing(s) == \A i \in 1..Len(s) - 1 : s[i] < s[i + 1]

\* The inner writer gets every compressed byte at most once and in order, also from
\* the Drop that follows a failed call.  Until an error was reported there is no gap,
\* and after an Ok of flush or finish everything written can be decoded from it.
WriterDelivers ==
  /\ Increasing(sink)
  /\ ~reported => \A k \in 1..Len(sink) : sink[k] = k
  /\ synced \/ (writer = "finished" /\ ~reported) =>
       Content(0, Len(sink) \div UnitBytes) = [k \in 1..written |-> k]

\* The units of the source, and whether they are whole frames.
FileUnits == file \div UnitBytes
WholeFrames == file % UnitBytes = 0 /\ Ends(FileUnits)

\* Ok(0) only ends a source of whole frames that was delivered to the last byte, and
\* a truncation is only reported once everything decodable was delivered, whatever the
\* source's reads returned and however often a failed call was repeated.  Trailing
\* input under single_frame leaves exactly the bytes behind the frame as the remainder.
EndIsHonest ==
  /\ verdict = "Eof" => WholeFrames /\ delivered = Content(0, FileUnits)
  /\ verdict = "UnexpectedEof" /\ ~single_frame =>
       ~WholeFrames /\ delivered = Content(0, FileUnits)
  /\ verdict = "TrailingInput" =>
       Ends(decoder.done) /\ decoder.input = SubSeq(sink, decoder.done * UnitBytes + 1, got)

\* Every call of a Reader returns.
ReadsReturn == (call # "none") ~> (call = "none")

=============================================================================
