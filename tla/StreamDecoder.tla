---------------------------- MODULE StreamDecoder ----------------------------
(***************************************************************************)
(* StreamingDecoder (src/streaming.rs) with the bytes it moves.  A caller  *)
(* pushes a wire in chunks of any size, drains output whenever it likes,   *)
(* finishes early or late, and resets for the next stream.  A call of push *)
(* or finish runs the process loop: one action per turn of the loop, until *)
(* a handler makes no progress or returns an error.  Drains and resets     *)
(* happen between calls, because the decoder is behind a &mut reference.   *)
(*                                                                         *)
(* After an error nothing more is pushed (what would follow is no longer   *)
(* aligned with the wire's units), but output may be drained, and finish   *)
(* and reset may be called once the input buffer is used up.               *)
(***************************************************************************)
EXTENDS OneShotDecoder

CONSTANTS
  Setups,           \* the decoders and their inputs: records [options, wires, again]
                    \*   of a configuration, the streams it may be given first
                    \*   and those it may be given after a reset
  Chunks,           \* the sizes the caller pushes
  Drains,           \* the sizes the caller reads
  MaxStreams,       \* bound: streams decoded, so resets + 1
  INPUT_COMPACT_MIN \* consumed bytes that force compact_input, 4096 in the code

\* The streams a decoder configured as o may be given, and their units.
WiresOf(o) == UNION {s.wires \cup s.again : s \in {t \in Setups : t.options = o}}
UnitsOf(o) == UNION {ToSet(w) : w \in WiresOf(o)}

\* The sequence tables such a decoder may come to hold.
CompressedBlocks(o) == {u \in UnitsOf(o) : u.kind = "block" /\ u.block_type = "Compressed"}
SequenceTables(o) ==
  ({u.body.sequences.table : u \in CompressedBlocks(o)}
     \cup IF o.dictionary.present THEN {o.dictionary.entropy.sequence_table} ELSE {})
  \ {NoTable}

ASSUME StreamDecoderAssumption ==
  /\ BlockSizeMax \in Nat
  /\ Chunks \subseteq Nat \ {0}
  /\ Drains \subseteq Nat \ {0}
  /\ MaxStreams \in Nat \ {0}
  /\ INPUT_COMPACT_MIN \in Nat

\* What a decoder may be given: options, a dictionary with its offsets, and streams of
\* units.  An FSE table has an entry for every state its bitstream can lead to, so a block
\* finds each of its codes in the table it brings, or in any it may repeat.
ASSUME SetupsAssumption ==
  \A o \in {s.options : s \in Setups} :
    /\ o.max_output_size \in Nat \cup {None}
    /\ o.dictionary.present \in BOOLEAN
    /\ o.dictionary.present => /\ o.dictionary.content \in Seq(Nat)
                               /\ o.dictionary.entropy.repeat_offsets \in Nat \X Nat \X Nat
    /\ \A w \in WiresOf(o) : w \in Seq(UnitsOf(o)) /\ Parsed(w)
    /\ \A u \in UnitsOf(o) : IsUnit(u)
    /\ \A t \in SequenceTables(o) : \A c \in DOMAIN t : t[c] \in [ll : Nat, ml : Nat, value : Nat]
    /\ \A u \in CompressedBlocks(o) :
         LET section == u.body.sequences
         IN  \A t \in IF section.repeat THEN SequenceTables(o) ELSE {section.table} \ {NoTable} :
               ToSet(section.codes) \subseteq DOMAIN t

VARIABLES
  options,           \* the decoder's configuration (see OneShotDecoder)
  wire,              \* environment: the stream being pushed
  pushed,            \* environment: how many of its bytes have been pushed
  input, input_pos, input_dropped,
  output, output_pos,
  state,             \* DecoderState: [tag], with remaining or header
  frame,             \* current_frame while open, spare_frame otherwise
  total_output_size, received_input, finished_input, decoded_a_frame,
  call,              \* "idle", or the API call whose process loop is running
  result,            \* what the last push, finish or reset returned
  failed,            \* environment: some call of this stream returned an error
  delivered,         \* history: every byte handed to the caller
  stream_start,      \* history: bytes produced by earlier streams
  streams            \* history: streams begun

inputVars  == <<input, input_pos, input_dropped>>
outputVars == <<output, output_pos, delivered>>
callerVars == <<options, wire, pushed, stream_start, streams>>
flags      == <<received_input, finished_input>>
vars == <<inputVars, outputVars, callerVars, flags, state, frame, total_output_size,
          decoded_a_frame, call, result, failed>>

-----------------------------------------------------------------------------

\* DecoderState
FrameHeaderState     == [tag |-> "FrameHeader"]
SkippableState(n)    == [tag |-> "Skippable", remaining |-> n]
BlockHeaderState     == [tag |-> "BlockHeader"]
BlockPayloadState(h) == [tag |-> "BlockPayload", header |-> h]
FrameChecksumState   == [tag |-> "FrameChecksum"]

\* FrameDecodeState of a decoder that has not opened a frame yet.
NoFrame ==
  [open |-> FALSE, window_size |-> 0, frame_start |-> 0, frame_output_size |-> 0, origin |-> 0]

\* Mutant of FreshFrame: entropy state kept from the recycled frame.
FreshFrameKeepsTables(header, frame_start, origin) ==
  [open |-> TRUE, header |-> header, window_size |-> header.window_size,
   frame_start |-> frame_start, frame_output_size |-> 0, hashed |-> << >>,
   entropy |-> IF "entropy" \in DOMAIN frame THEN frame.entropy ELSE FreshEntropy(options),
   origin |-> origin]

\* FrameDecodeState as start_frame fills it; origin is history, the position of
\* the frame's first byte in everything the decoder ever produced.
FreshFrame(header, frame_start, origin) ==
  [open |-> TRUE, header |-> header, window_size |-> header.window_size,
   frame_start |-> frame_start, frame_output_size |-> 0, hashed |-> << >>,
   entropy |-> FreshEntropy(options), origin |-> origin]

Pending   == SubSeq(output, output_pos + 1, Len(output))
Produced  == delivered \o Pending
Available == Len(input) - input_pos

\* The unit the bytes at the read cursor belong to.
Unit == wire[input[input_pos + 1][1]]

\* stream_input_pos
stream_input_pos == input_dropped + input_pos

\* Mutant of finish_status: input that was never consumed goes unnoticed.
finish_status_lax ==
  IF ~received_input \/ frame.open \/ state.tag # "FrameHeader"
  THEN "UnexpectedEof" ELSE "Ok"

\* finish_status
finish_status ==
  IF \/ ~received_input
     \/ frame.open \/ state.tag # "FrameHeader"
     \/ input_pos # Len(input)
  THEN "UnexpectedEof" ELSE "Ok"

Init ==
  /\ \E s \in Setups : options = s.options /\ wire \in s.wires
  /\ pushed = 0 /\ stream_start = 0 /\ streams = 1
  /\ input = << >> /\ input_pos = 0 /\ input_dropped = 0
  /\ output = << >> /\ output_pos = 0 /\ delivered = << >>
  /\ state = FrameHeaderState
  /\ frame = NoFrame
  /\ total_output_size = 0
  /\ received_input = FALSE /\ finished_input = FALSE /\ decoded_a_frame = FALSE
  /\ call = "idle" /\ result = "Ok" /\ failed = FALSE

-----------------------------------------------------------------------------
\* The process loop.  A handler ends its turn in one of three ways.

compact_input(n) ==
  LET p == input_pos + n
      compacts == p # 0 /\ (p = Len(input) \/ p >= INPUT_COMPACT_MIN \/ p * 2 >= Len(input))
  IN  /\ input' = IF compacts THEN SubSeq(input, p + 1, Len(input)) ELSE input
      /\ input_pos' = IF compacts THEN 0 ELSE p
      /\ input_dropped' = IF compacts THEN input_dropped + p ELSE input_dropped

\* Ok(true): n bytes consumed, compact_input, and the loop goes round.
Progress(n) ==
  /\ compact_input(n)
  /\ UNCHANGED <<callerVars, flags, call, result, failed>>

\* Err(e): n bytes consumed, and the call returns.
Fails(e, n) ==
  /\ input_pos' = input_pos + n
  /\ call' = "idle" /\ result' = e /\ failed' = TRUE
  /\ UNCHANGED <<input, input_dropped, callerVars, flags>>

\* The handlers that wait for input: Ok(false) leaves everything as it was.
\* process_skippable_frame never waits for more than it has.
Stalled ==
  CASE state.tag = "FrameHeader" ->
         \/ Available = 0
         \/ /\ ~(options.single_frame /\ decoded_a_frame)
            /\ parse_frame_header(Unit, Available) = "UnexpectedEof"
    [] state.tag = "Skippable" -> FALSE
    [] state.tag = "BlockHeader" -> Available < BLOCK_HEADER_SIZE
    [] state.tag = "BlockPayload" -> Available < payload_size(state.header)
    [] state.tag = "FrameChecksum" -> Available < CHECKSUM_SIZE

\* The loop breaks: push returns Ok, finish returns finish_status of the state
\* it leaves.
Returns(status) ==
  LET r == IF call = "finish" THEN status ELSE "Ok"
  IN  /\ call' = "idle" /\ result' = r /\ failed' = (failed \/ r # "Ok")
      /\ UNCHANGED <<callerVars, flags>>

process_stalled ==
  /\ call # "idle" /\ Stalled
  /\ Returns(finish_status)
  /\ UNCHANGED <<inputVars, outputVars, state, frame, total_output_size, decoded_a_frame>>

\* process_frame_header where it returns an error of its own: a second frame or
\* a skippable one under single_frame, or bytes that are no header.
HeaderError ==
  LET parsed == parse_frame_header(Unit, Available)
  IN  IF options.single_frame /\ decoded_a_frame THEN "TrailingInput"
      ELSE IF parsed = "BadMagic" THEN "BadMagic"
      ELSE IF parsed = "skippable" /\ options.single_frame THEN "TrailingInput"
      ELSE "Ok"

process_frame_header_error ==
  /\ call # "idle" /\ state.tag = "FrameHeader" /\ ~Stalled
  /\ HeaderError # "Ok"
  /\ Fails(HeaderError, 0)
  /\ UNCHANGED <<outputVars, state, frame, total_output_size, decoded_a_frame>>

\* process_frame_header on a skippable frame's header.
process_skippable_header ==
  /\ call # "idle" /\ state.tag = "FrameHeader" /\ ~Stalled
  /\ HeaderError = "Ok" /\ Unit.kind = "skippable"
  /\ state' = SkippableState(Unit.remaining)
  /\ Progress(Unit.size)
  /\ UNCHANGED <<outputVars, frame, total_output_size, decoded_a_frame>>

\* The checks start_frame makes of a header, and their order.
start_frame_error(header) ==
  IF header.dictionary_id # None /\ ~options.dictionary.present THEN "DictionaryRequired"
  ELSE IF header.dictionary_id # None /\ header.dictionary_id # options.dictionary.id
    THEN "DictionaryMismatch"
  ELSE IF options.max_window_size # None /\ header.window_size > options.max_window_size
    THEN "WindowSizeTooLarge"
  ELSE IF /\ header.content_size # None /\ options.max_output_size # None
          /\ total_output_size + header.content_size > options.max_output_size
    THEN "OutputSizeTooLarge"
  ELSE "Ok"

\* process_frame_header on a Zstandard frame's header, start_frame included: the
\* header is consumed and the buffer reclaimed before the header is judged.
process_zstandard_header ==
  LET d == compact_between_frames(Len(output), output_pos)
      e == start_frame_error(Unit)
  IN  /\ call # "idle" /\ state.tag = "FrameHeader" /\ ~Stalled
      /\ HeaderError = "Ok" /\ Unit.kind = "frame"
      /\ output' = SubSeq(output, d + 1, Len(output))
      /\ output_pos' = output_pos - d
      /\ \/ /\ e = "Ok"
            /\ frame' = FreshFrame(Unit, Len(output) - d, Len(Produced))
            /\ state' = BlockHeaderState
            /\ Progress(Unit.size)
         \/ /\ e # "Ok"
            /\ Fails(e, Unit.size)
            /\ UNCHANGED <<frame, state>>
      /\ UNCHANGED <<delivered, total_output_size, decoded_a_frame>>

\* Mutant of process_skippable_frame: every turn counts as progress.
process_skippable_spins ==
  LET consumed == Least(Available, state.remaining)
      left     == state.remaining - consumed
  IN  /\ call # "idle" /\ state.tag = "Skippable"
      /\ state' = IF left = 0 THEN FrameHeaderState ELSE SkippableState(left)
      /\ Progress(consumed)
      /\ UNCHANGED <<outputVars, frame, total_output_size, decoded_a_frame>>

\* process_skippable_frame.  The turn counts as progress only if it consumed
\* something; otherwise the loop breaks, in the state the turn leaves.
process_skippable_frame ==
  LET consumed == Least(Available, state.remaining)
      left     == state.remaining - consumed
      boundary == left = 0 /\ Available = 0 /\ received_input /\ ~frame.open
  IN  /\ call # "idle" /\ state.tag = "Skippable"
      /\ state' = IF left = 0 THEN FrameHeaderState ELSE SkippableState(left)
      /\ \/ consumed # 0 /\ Progress(consumed)
         \/ /\ consumed = 0
            /\ Returns(IF boundary THEN "Ok" ELSE "UnexpectedEof")
            /\ UNCHANGED inputVars
      /\ UNCHANGED <<outputVars, frame, total_output_size, decoded_a_frame>>

\* process_block_header
process_block_header ==
  /\ call # "idle" /\ state.tag = "BlockHeader" /\ ~Stalled
  /\ Unit.kind = "block"
  /\ \/ /\ Unit.block_type # "Reserved"
        /\ state' = BlockPayloadState(Unit)
        /\ Progress(BLOCK_HEADER_SIZE)
     \/ /\ Unit.block_type = "Reserved"
        /\ Fails("Corruption", 0)
        /\ UNCHANGED state
  /\ UNCHANGED <<outputVars, frame, total_output_size, decoded_a_frame>>

\* Mutant of decode_block: the cap forgets what has been released.
decode_block_forgets(block) ==
  LET env   == [frame_start |-> frame.frame_start, window_size |-> frame.window_size,
                block_size_max |-> frame.header.block_size_max]
      limit == [produced_before |-> 0, max_output_size |-> options.max_output_size]
  IN  DecodeBlock(block, env, options.dictionary, limit, output, frame.entropy)

\* decode_block: what the executors make of the buffer the decoder holds.
decode_block(block) ==
  LET env   == [frame_start |-> frame.frame_start, window_size |-> frame.window_size,
                block_size_max |-> frame.header.block_size_max]
      limit == [produced_before |-> saturating_sub(total_output_size, Len(output)),
                max_output_size |-> options.max_output_size]
  IN  DecodeBlock(block, env, options.dictionary, limit, output, frame.entropy)

\* absorb_block_output
absorb_block_output(f, entropy, produced) ==
  [f EXCEPT !.frame_output_size = f.frame_output_size + Len(produced),
            !.hashed = IF f.header.checksum THEN f.hashed \o produced ELSE f.hashed,
            !.entropy = entropy]

\* finish_frame takes the frame, then compares its size.
ContentMismatch(f) ==
  f.header.content_size # None /\ f.frame_output_size # f.header.content_size

finish_frame(f) ==
  /\ frame' = [f EXCEPT !.open = FALSE]
  /\ decoded_a_frame' = (decoded_a_frame \/ ~ContentMismatch(f))

\* process_block_payload where decode_block fails: the payload is consumed, and
\* what the block wrote before it failed stays in the buffer.
process_block_error ==
  /\ call # "idle" /\ state.tag = "BlockPayload" /\ ~Stalled
  /\ frame.open
  /\ \E d \in {decode_block(state.header)} :
       /\ d.result # "Ok"
       /\ output' = d.out
       /\ Fails(d.result, payload_size(state.header))
  /\ UNCHANGED <<output_pos, delivered, state, frame, total_output_size, decoded_a_frame>>

\* decode_block after finish_frame took a frame whose size was wrong.
process_block_without_frame ==
  /\ call # "idle" /\ state.tag = "BlockPayload" /\ ~Stalled
  /\ ~frame.open
  /\ Fails("Generic", payload_size(state.header))
  /\ UNCHANGED <<outputVars, state, frame, total_output_size, decoded_a_frame>>

\* process_block_payload: the block's output is absorbed, and a last block ends
\* the frame or leads to its checksum.
process_block_payload ==
  /\ call # "idle" /\ state.tag = "BlockPayload" /\ ~Stalled
  /\ frame.open
  /\ \E d \in {decode_block(state.header)} :
       LET block == state.header
           f == absorb_block_output(frame, d.entropy, SubSeq(d.out, Len(output) + 1, Len(d.out)))
       IN  /\ d.result = "Ok"
           /\ output' = d.out
           /\ total_output_size' = total_output_size + Len(d.out) - Len(output)
           /\ \/ /\ ~block.last_block \/ f.header.checksum
                 /\ frame' = f
                 /\ state' = IF block.last_block THEN FrameChecksumState ELSE BlockHeaderState
                 /\ Progress(payload_size(block))
                 /\ UNCHANGED decoded_a_frame
              \/ /\ block.last_block /\ ~f.header.checksum
                 /\ finish_frame(f)
                 /\ IF ContentMismatch(f)
                    THEN Fails("ContentSizeMismatch", payload_size(block)) /\ UNCHANGED state
                    ELSE Progress(payload_size(block)) /\ state' = FrameHeaderState
  /\ UNCHANGED <<output_pos, delivered>>

\* process_frame_checksum
process_frame_checksum ==
  LET e == IF ~frame.open THEN "Generic"
           ELSE IF options.verify_checksum /\ Unit.digest # frame.hashed THEN "ChecksumMismatch"
           ELSE IF ContentMismatch(frame) THEN "ContentSizeMismatch"
           ELSE "Ok"
  IN  /\ call # "idle" /\ state.tag = "FrameChecksum" /\ ~Stalled
      /\ IF e \in {"Ok", "ContentSizeMismatch"} THEN finish_frame(frame)
         ELSE UNCHANGED <<frame, decoded_a_frame>>
      /\ \/ e = "Ok" /\ Progress(CHECKSUM_SIZE) /\ state' = FrameHeaderState
         \/ e # "Ok" /\ Fails(e, CHECKSUM_SIZE) /\ UNCHANGED state
      /\ UNCHANGED <<outputVars, total_output_size>>

Process ==
  \/ process_stalled
  \/ process_frame_header_error
  \/ process_skippable_header
  \/ process_zstandard_header
  \/ process_skippable_frame
  \/ process_block_header
  \/ process_block_error
  \/ process_block_without_frame
  \/ process_block_payload
  \/ process_frame_checksum

-----------------------------------------------------------------------------
\* The API.

\* How much the caller may push next: a chunk, or all the rest of the wire.
PushSizes ==
  {n \in Chunks \cup {Size(wire) - pushed} : n # 0 /\ pushed + n <= Size(wire)}

\* push: the bytes are buffered and the process loop starts.
push(n) ==
  /\ call = "idle" /\ ~finished_input /\ ~failed
  /\ input' = input \o SubSeq(Bytes(wire), pushed + 1, pushed + n)
  /\ pushed' = pushed + n
  /\ received_input' = TRUE
  /\ call' = "push"
  /\ UNCHANGED <<input_pos, input_dropped, outputVars, options, wire, stream_start, streams, state,
                 frame, total_output_size, finished_input, decoded_a_frame, result, failed>>

\* Mutant of finish: the end of input is not recorded.
finish_forgets ==
  /\ call = "idle"
  /\ failed => Available = 0
  /\ call' = "finish"
  /\ UNCHANGED <<inputVars, outputVars, callerVars, state, frame, total_output_size,
                 received_input, finished_input, decoded_a_frame, result, failed>>

\* finish: the first call runs the loop, a later one only reports.
finish ==
  /\ call = "idle"
  /\ failed => Available = 0
  /\ finished_input' = TRUE
  /\ IF finished_input
     THEN result' = finish_status /\ failed' = (failed \/ result' # "Ok") /\ UNCHANGED call
     ELSE call' = "finish" /\ UNCHANGED <<result, failed>>
  /\ UNCHANGED <<inputVars, outputVars, callerVars, state, frame, total_output_size,
                 received_input, decoded_a_frame>>

\* Mutant of Take: frame_start is not moved down with the buffer.
TakeForgetsFrame(n) ==
  LET p == output_pos + n
      d == compact_output(Len(output), p, frame.open, frame.window_size)
  IN  /\ delivered' = delivered \o SubSeq(output, output_pos + 1, p)
      /\ output' = SubSeq(output, d + 1, Len(output))
      /\ output_pos' = p - d
      /\ UNCHANGED frame

\* The caller takes n pending bytes, and compact_output runs (consume_output).
Take(n) ==
  LET p == output_pos + n
      d == compact_output(Len(output), p, frame.open, frame.window_size)
  IN  /\ delivered' = delivered \o SubSeq(output, output_pos + 1, p)
      /\ output' = SubSeq(output, d + 1, Len(output))
      /\ output_pos' = p - d
      /\ frame' = IF frame.open
                  THEN [frame EXCEPT !.frame_start = release_history(frame.frame_start, d)]
                  ELSE frame

\* read
read(n) ==
  /\ call = "idle" /\ Pending # << >>
  /\ Take(Least(n, Len(Pending)))
  /\ UNCHANGED <<inputVars, callerVars, flags, state, total_output_size, decoded_a_frame,
                 call, result, failed>>

\* take_output: between frames the Vec itself is handed over.
take_output ==
  /\ call = "idle"
  /\ IF output_pos = 0 /\ ~frame.open
     THEN /\ delivered' = delivered \o output
          /\ output' = << >>
          /\ UNCHANGED <<output_pos, frame>>
     ELSE Take(Len(Pending))
  /\ UNCHANGED <<inputVars, callerVars, flags, state, total_output_size, decoded_a_frame,
                 call, result, failed>>

\* The streams a decoder configured like this one may be given next.
Again == UNION {s.again : s \in {t \in Setups : t.options = options}}

\* reset: refused off a frame boundary; otherwise reset_state, and the caller
\* begins another stream.  Undrained output stays.
reset(w) ==
  /\ call = "idle" /\ streams < MaxStreams
  /\ failed => Available = 0
  /\ finish_status = "Ok"
  /\ wire' = w /\ pushed' = 0 /\ streams' = streams + 1
  /\ stream_start' = Len(Produced)
  /\ input' = << >> /\ input_pos' = 0 /\ input_dropped' = 0
  /\ state' = FrameHeaderState
  /\ total_output_size' = 0
  /\ received_input' = FALSE /\ finished_input' = FALSE /\ decoded_a_frame' = FALSE
  /\ result' = "Ok" /\ failed' = FALSE
  /\ UNCHANGED <<options, outputVars, frame, call>>

Drain == (\E n \in Drains : read(n)) \/ take_output

Next ==
  \/ Process
  \/ \E n \in PushSizes : push(n)
  \/ finish
  \/ Drain
  \/ \E w \in Again : reset(w)

Spec == Init /\ [][Next]_vars

\* The calls terminate because process is an ordinary loop; the caller is one
\* that goes on pushing, draining and in the end finishing.
FairSpec ==
  /\ Spec
  /\ WF_vars(Process)
  /\ WF_vars(\E n \in PushSizes : push(n))
  /\ WF_vars(finish)
  /\ WF_vars(Drain)

-----------------------------------------------------------------------------

\* What this stream has produced, delivered or not.
StreamOutput == SubSeq(Produced, stream_start + 1, Len(Produced))

\* What the one-shot decoder makes of every prefix of every stream.
OneShot ==
  [o \in {s.options : s \in Setups} |-> [w \in WiresOf(o) |->
     [n \in 0..Size(w) |-> decode_into(o, w, n)]]]

\* The one-shot decoder on the bytes pushed so far.
Reference == OneShot[options][wire][pushed]

\* Leftovers of an earlier stream may be charged against the cap (decode_block's
\* saturating_sub), so only then may the streaming decoder stop short.
Comparable == streams = 1 \/ options.max_output_size = None

\* However the input is cut into pushes and however output is drained and
\* compacted in between, each call leaves exactly the bytes the one-shot decoder
\* makes of the input so far: nothing early, nothing late, nothing lost, and the
\* same partial output when a block fails.
StreamMatchesOneShot ==
  call = "idle" => IF Comparable THEN StreamOutput = Reference.out
                   ELSE IsPrefix(StreamOutput, Reference.out)

\* A push fails with the error the one-shot decoder reports for the same bytes,
\* and a finished stream is in error exactly when the one-shot decoder is
\* (single_frame, caps, truncation, corruption, checksum).
VerdictMatchesOneShot ==
  call = "idle" /\ Comparable =>
    /\ failed /\ ~finished_input => result = Reference.result
    /\ finished_input => (failed <=> Reference.result # "Ok")

\* Every skippable frame without content is its stream's last unit.  Behind any other the
\* process loop breaks having consumed nothing (streaming.rs, "consumed != 0"), and input
\* that is there stays unread until the next call: see the run stream_empty_skippable.
NothingBehindEmpties ==
  \A o \in {s.options : s \in Setups} : \A w \in WiresOf(o) : \A k \in 1..Len(w) :
    w[k].kind = "skippable" /\ w[k].remaining = 0 => k = Len(w)

\* The cap bounds everything the decoder produces for a stream, a failing
\* block's partial output included, whatever has been drained or released.
OutputCapped ==
  options.max_output_size = None \/ Len(StreamOutput) <= options.max_output_size

\* input_consumed under single_frame: once the frame is done, exactly its
\* compressed length, and unconsumed_input exactly what was pushed behind it.
FrameEnd(w) ==
  CHOOSE k \in DOMAIN w :
    /\ \A j \in 2..k : w[j].kind \in {"block", "payload", "checksum"}
    /\ k = Len(w) \/ w[k + 1].kind \notin {"block", "payload", "checksum"}

FrameLengthExact ==
  options.single_frame /\ decoded_a_frame /\ call = "idle" =>
    /\ stream_input_pos = EndOf(wire, FrameEnd(wire))
    /\ Available = pushed - EndOf(wire, FrameEnd(wire))

\* What the decoder tells of its own progress is exact on both sides: what it has
\* produced against the cap, what it has consumed against the frame.
AccountsExact == OutputCapped /\ FrameLengthExact

\* is_finished
is_finished ==
  finished_input /\ state.tag = "FrameHeader" /\ ~frame.open /\ input_pos = Len(input)

\* Every unit the decoder may be given.
Units == UNION {UNION {ToSet(w) : w \in s.wires \cup s.again} : s \in Setups}

AbstractWindow ==
  INSTANCE OutputWindow WITH
    Windows <- {u.window_size : u \in {v \in Units : v.kind = "frame"}},
    Caps <- {s.options.max_output_size : s \in Setups},
    max_output_size <- options.max_output_size,
    Offsets <- {}, DictLens <- {}, MaxMade <- None,
    len <- Len(output), open <- frame.open, window_size <- frame.window_size,
    frame_start <- frame.frame_start, frame_output_size <- frame.frame_output_size,
    base <- Len(delivered) - output_pos, drained <- Len(delivered), made <- Len(Produced),
    origin <- frame.origin

\* The decoder's buffer behaves as the abstract output window, whatever the
\* blocks hold (see OutputWindow).
ImplementsOutputWindow == AbstractWindow!Spec

\* No call hangs: the process loop ends whatever the input.
CallsReturn == call # "idle" ~> call = "idle"

\* A caller that pushes, drains and finishes ends up with every byte, or told
\* of an error, and nothing left pending.
EventuallySettled ==
  <>[](call = "idle" /\ Pending = << >> /\ (failed \/ is_finished))
=============================================================================
