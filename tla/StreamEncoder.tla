---------------------------- MODULE StreamEncoder ----------------------------
(***************************************************************************)
(* StreamingEncoder (src/streaming.rs): input is buffered to whole blocks, *)
(* each block is appended to `frame`, the buffer its matches are found in, *)
(* and encoded behind the bytes still kept there; the compressed bytes     *)
(* wait in `output` for the caller.                                        *)
(*                                                                         *)
(* A byte of input is its number in the stream, so that where it went can  *)
(* be followed; what is found in the bytes, and so what a block compresses *)
(* to and where a block is split, is the environment's choice.  A call to  *)
(* push is a step that takes its bytes and one step per turn of its loop;  *)
(* a call that is refused (push, flush after finish, reset before it,      *)
(* finish against a broken pledge) changes nothing and has no action.      *)
(***************************************************************************)
EXTENDS MatchTables, SequencesExt

CONSTANTS
  Setups,          \* the encoders considered, see SetupAssumption
  SplitBlockSize,  \* UPSTREAM_SPLIT_FULL_BLOCK_SIZE
  SavingsMin,      \* what a frame has to have saved before blocks are split
  SmallBlock,      \* MIN_COMPRESSIBLE_BLOCK_SIZE
  HeaderBytes, BlockHeaderBytes, ChecksumBytes  \* sizes on the wire

\* An encoder and its caller: options and parameters, and as bounds the frames, the
\* content of each, the sizes pushed and drained, the kinds of block that come out.
ASSUME SetupAssumption ==
  \A o \in Setups :
    /\ o.block_size \in Nat \ {0} /\ o.max_history_bytes \in Nat \ {0}
    /\ o.rebase_period \in Nat \ {0} /\ o.pledged_src_size \in Nat \cup {None}
    /\ o.family \in {"fast", "row", "chain", "tree"}
    /\ o.optimal \in BOOLEAN /\ o.ldm \in BOOLEAN /\ o.checksum \in BOOLEAN
    /\ o.write_content_size \in BOOLEAN /\ o.dict_len \in Nat
    /\ o.chunks \subseteq Nat \ {0} /\ o.drains \subseteq Nat \ {0}
    /\ o.kinds \subseteq {"Raw", "Rle", "Compressed", "Split"} /\ "Raw" \in o.kinds
    /\ o.max_content \in Nat /\ o.max_frames \in Nat \ {0}

ASSUME SplitAssumption == SplitBlockSize \in Nat \ {0} /\ SmallBlock \in Nat

ASSUME WireAssumption ==
  HeaderBytes \in Nat /\ BlockHeaderBytes \in Nat /\ ChecksumBytes \in Nat

VARIABLES
  p,               \* options, dictionary and params
  buffered_input,  \* input waiting for a full block
  src,             \* what the running push has still to absorb
  call,            \* where the running push is: none, push, chunk or tail
  frame,           \* the kept history and the block being encoded
  match_state,     \* the finder's tables (MatchTables)
  ldm,             \* the long-distance table (MatchTables)
  checksum,        \* the bytes digested so far
  savings,
  content_len,
  finished,
  output_len,      \* output.len()
  output_pos,
  taken,           \* history: compressed bytes handed to the caller
  wire,            \* history: this frame as emitted, [header, blocks, content, digest]
  behind,          \* history: compressed bytes of the frames before
  origin,          \* history: input bytes of the frames before
  frames,          \* history: frames begun
  flushed,         \* history: a flush emitted a block of this frame
  rebuilt          \* history: a contiguous state was rebuilt, not rebased

frameVars == <<frame, match_state, ldm>>
queueVars == <<output_len, output_pos, taken>>
historyVars == <<behind, origin, frames>>
vars == <<p, buffered_input, src, call, frame, match_state, ldm, checksum, savings, content_len,
          finished, output_len, output_pos, taken, wire, behind, origin, frames,
          flushed, rebuilt>>

-----------------------------------------------------------------------------
\* A frame.

\* The header reset_frame_state writes: a single segment when the content is
\* pledged and fits in the window.
FrameHeader(o) ==
  LET size == IF o.write_content_size THEN o.pledged_src_size ELSE None
  IN  [content_size |-> size,
       window_size  |-> IF size # None /\ size <= history_limit_for(o) THEN size
                        ELSE history_limit_for(o)]

EmptyWire(o) == [header |-> FrameHeader(o), blocks |-> << >>, content |-> << >>, digest |-> << >>]

\* Bytes of a block on the wire, and of several.  What compresses at all
\* compresses to a byte.
BlockBytes(b) == BlockHeaderBytes + IF b.kind = "Raw" THEN b.len ELSE 1
TotalBytes(blocks) ==
  LET total[i \in 0..Len(blocks)] == IF i = 0 THEN 0 ELSE total[i - 1] + BlockBytes(blocks[i])
  IN  total[Len(blocks)]

\* Bytes of a frame on the wire so far.
FrameBytes(w) ==
  HeaderBytes + TotalBytes(w.blocks) + (IF w.digest = << >> THEN 0 ELSE ChecksumBytes)

Init ==
  /\ p \in Setups
  /\ buffered_input = << >> /\ src = << >> /\ call = "none"
  /\ frame = << >> /\ match_state = new_match_state(p) /\ ldm = NewLdm(p)
  /\ checksum = << >> /\ savings = 0 /\ content_len = 0 /\ finished = FALSE
  /\ output_len = HeaderBytes /\ output_pos = 0 /\ taken = 0
  /\ wire = EmptyWire(p) /\ behind = 0 /\ origin = 0 /\ frames = 1
  /\ flushed = FALSE /\ rebuilt = FALSE

-----------------------------------------------------------------------------
\* Blocks.

\* compact_frame: drop what has left the window and move every table with it.  A
\* prefixed state gives way to a contiguous one.
compact_frame(at) ==
  LET live_end == Len(at.frame)
      dropped  == compact_drop(p, live_end)
      kept     == SubSeq(at.frame, dropped + 1, live_end)
      shifts   == at.match_state.state = "Contiguous" /\ can_shift(p, dropped, live_end)
  IN  [frame |-> kept,
       ldm   |-> ldm_shift_positions(at.ldm, dropped),
       match_state |-> IF shifts THEN shift_positions(p, at.match_state, dropped, live_end)
                       ELSE rebuild(p, kept),
       rebuilt |-> at.rebuilt \/ (at.match_state.state = "Contiguous" /\ ~shifts)]

\* The buffers and tables as a block begins.
BlockBegins ==
  LET at == [frame |-> frame, ldm |-> ldm, match_state |-> match_state, rebuilt |-> rebuilt]
  IN  IF must_compact(p, Len(frame)) THEN compact_frame(at) ELSE at

\* Which way a block of n bytes can go: nothing to encode, too small, a run, or
\* parsed and then compressed, split in two or stored.
Routes(n) ==
  IF n = 0 THEN {[route |-> "empty", kind |-> "Raw"]}
  ELSE IF n < SmallBlock THEN {[route |-> "small", kind |-> "Raw"]}
  ELSE {[route |-> IF k = "Rle" THEN "rle" ELSE "parsed", kind |-> k] : k \in p.kinds}

\* The blocks n bytes go out as; only the last of them can be the frame's last.
Emitted(n, kind, last_block) ==
  IF kind = "Split"
  THEN <<[len |-> n - 1, last |-> FALSE, kind |-> "Compressed"],
         [len |-> 1, last |-> last_block, kind |-> "Raw"]>>
  ELSE <<[len |-> n, last |-> last_block, kind |-> kind]>>

\* The table every block reaches, whatever becomes of it; an empty one does not.
LdmAfter(at, grown, block_start) ==
  IF ~at.ldm.on \/ block_start = Len(grown) THEN at.ldm
  ELSE sequences_for_block(p, at.ldm, IF at.match_state.state = "Prefixed" THEN p.dict_len ELSE 0,
                           grown, block_start)

\* Mutant of RestOfBuffer: the buffer is cleared, not drained.
BufferCleared(take) == << >>

RestOfBuffer(take) == SubSeq(buffered_input, take + 1, Len(buffered_input))

\* encode_buffered_block over take bytes, and the digest if one follows.
encode_buffered_block(take, last_block, digest) ==
  \E at \in {BlockBegins} :
  \E grown \in {at.frame \o SubSeq(buffered_input, 1, take)} :
  \E r \in Routes(take) :
  \E blocks \in {Emitted(take, r.kind, last_block)} :
    /\ match_state' \in AfterBlock(p, at.match_state, grown, Len(at.frame), r.route)
    /\ frame' = grown
    /\ ldm' = LdmAfter(at, grown, Len(at.frame))
    /\ rebuilt' = at.rebuilt
    /\ buffered_input' = RestOfBuffer(take)
    /\ wire' = [wire EXCEPT !.blocks = @ \o blocks, !.digest = digest,
                            !.content = @ \o SubSeq(buffered_input, 1, take)]
    /\ savings' = savings + take - TotalBytes(blocks)
    /\ output_len' = output_len + FrameBytes(wire') - FrameBytes(wire)

\* next_block_size: a full block, unless the heuristic may end it sooner.
next_block_sizes ==
  LET available == Len(buffered_input)
      full      == Least(available, block_size_for(p))
      splits    == /\ available >= SplitBlockSize /\ block_size_for(p) >= SplitBlockSize
                   /\ ~p.optimal
  IN  IF ~splits THEN {full}
      ELSE IF savings < SavingsMin THEN {SplitBlockSize}
      ELSE 1..SplitBlockSize

-----------------------------------------------------------------------------
\* The calls.

push ==
  /\ call = "none" /\ ~finished
  /\ \E n \in p.chunks :
       /\ content_len + n <= p.max_content
       /\ src' = [i \in 1..n |-> origin + content_len + i]
       /\ checksum' = IF p.checksum THEN checksum \o src' ELSE checksum
       /\ content_len' = content_len + n
  /\ call' = "push"
  /\ UNCHANGED <<p, buffered_input, frameVars, savings, finished, queueVars, wire, historyVars,
                 flushed, rebuilt>>

\* The top-up of push's loop.
top_up ==
  /\ call = "push"
  /\ LET take == Least(push_target(p) - Len(buffered_input), Len(src))
     IN  /\ buffered_input' = buffered_input \o SubSeq(src, 1, take)
         /\ src' = SubSeq(src, take + 1, Len(src))
         /\ call' = IF Len(buffered_input) + take = push_target(p) THEN "chunk" ELSE "none"
  /\ UNCHANGED <<p, frameVars, checksum, savings, content_len, finished, queueVars, wire,
                 historyVars, flushed, rebuilt>>

\* Where push goes on after a chunk.
AfterChunk == IF src = << >> THEN "none" ELSE "push"

AfterFirstBlock == IF buffered_input' = << >> THEN AfterChunk ELSE "tail"

\* encode_buffered_chunk: one split, then the rest as one block.
encode_buffered_chunk ==
  /\ call = "chunk"
  /\ \E n \in next_block_sizes : encode_buffered_block(n, FALSE, << >>)
  /\ call' = AfterFirstBlock
  /\ UNCHANGED <<p, src, checksum, content_len, finished, output_pos, taken, historyVars, flushed>>

encode_chunk_tail ==
  /\ call = "tail"
  /\ encode_buffered_block(Len(buffered_input), FALSE, << >>)
  /\ call' = AfterChunk
  /\ UNCHANGED <<p, src, checksum, content_len, finished, output_pos, taken, historyVars, flushed>>

flush ==
  /\ call = "none" /\ ~finished /\ buffered_input # << >>
  /\ encode_buffered_block(Len(buffered_input), FALSE, << >>)
  /\ flushed' = TRUE
  /\ UNCHANGED <<p, src, call, checksum, content_len, finished, output_pos, taken, historyVars>>

\* Mutant of PledgeKept: never looked at.
PledgeIgnored == TRUE

\* The check finish makes before the last block goes out.
PledgeKept == p.pledged_src_size \in {None, content_len}

finish ==
  /\ call = "none" /\ ~finished /\ PledgeKept
  /\ encode_buffered_block(Len(buffered_input), TRUE, IF p.checksum THEN <<checksum>> ELSE << >>)
  /\ finished' = TRUE
  /\ UNCHANGED <<p, src, call, checksum, content_len, output_pos, taken, historyVars, flushed>>

\* reset: reset_frame_state, whose header goes behind whatever the caller has not
\* taken yet.
reset ==
  /\ finished /\ frames < p.max_frames
  /\ buffered_input' = << >> /\ frame' = << >> /\ savings' = 0
  /\ match_state' = new_match_state(p) /\ ldm' = NewLdm(p)
  /\ checksum' = << >> /\ content_len' = 0 /\ finished' = FALSE
  /\ output_len' = output_len + HeaderBytes
  /\ behind' = behind + FrameBytes(wire)
  /\ origin' = origin + content_len
  /\ wire' = EmptyWire(p)
  /\ frames' = frames + 1 /\ flushed' = FALSE /\ rebuilt' = FALSE
  /\ UNCHANGED <<p, src, call, output_pos, taken>>

\* compact_output: the bytes dropped off the front once the caller has taken pos.
ReclaimedPrefix(pos) == IF pos = output_len \/ pos * 2 >= output_len THEN pos ELSE 0

\* read, or pending_output followed by consume_output, of up to n bytes.
read ==
  /\ call = "none"
  /\ \E n \in p.drains :
       LET count == Least(n, output_len - output_pos)
           pos   == output_pos + count
       IN  /\ count > 0
           /\ output_len' = output_len - ReclaimedPrefix(pos)
           /\ output_pos' = IF ReclaimedPrefix(pos) = 0 THEN pos ELSE 0
           /\ taken' = taken + count
  /\ UNCHANGED <<p, buffered_input, src, call, frameVars, checksum, savings, content_len, finished,
                 wire, historyVars, flushed, rebuilt>>

take_output ==
  /\ call = "none" /\ p.drains # {} /\ output_len > output_pos
  /\ taken' = taken + output_len - output_pos
  /\ output_len' = 0 /\ output_pos' = 0
  /\ UNCHANGED <<p, buffered_input, src, call, frameVars, checksum, savings, content_len, finished,
                 wire, historyVars, flushed, rebuilt>>

Next ==
  \/ push \/ top_up \/ encode_buffered_chunk \/ encode_chunk_tail \/ flush \/ finish \/ reset
  \/ read \/ take_output

Spec == Init /\ [][Next]_vars

-----------------------------------------------------------------------------

\* Properties.

FrameContent == [i \in 1..content_len |-> origin + i]
PledgeNotExceeded == p.pledged_src_size = None \/ content_len <= p.pledged_src_size

\* Every byte pushed into a frame is in a block already out, in buffered_input, or in
\* the part of src the running push has yet to absorb.
InputOnce == wire.content \o buffered_input \o src = FrameContent

\* Compressed bytes taken and still queued add up to what was written, over all frames.
OutputOnce ==
  /\ output_pos <= output_len
  /\ taken + output_len - output_pos = behind + FrameBytes(wire)

\* Nothing is lost, repeated or reordered on either side: what push,
\* encode_buffered_chunk, flush, finish and reset do to the input, and what read,
\* take_output and the header reset appends do to the output.
EveryByteOnce == InputOnce /\ OutputOnce

\* A frame is closed once and correctly: the last-block flag is on the last block
\* of a finished frame and nowhere else, the header's content size is the content's,
\* the digest is over this frame's content and no other's.
FinishedFrameDecodes ==
  /\ \A i \in DOMAIN wire.blocks : wire.blocks[i].last <=> (finished /\ i = Len(wire.blocks))
  /\ finished =>
       /\ wire.blocks # << >> /\ wire.content = FrameContent
       /\ wire.header.content_size \in {None, content_len}
       /\ wire.digest = IF p.checksum THEN <<FrameContent>> ELSE << >>

\* The format's Block_Maximum_Size: no block is larger than the window the frame
\* declared, a single segment's window included (frame_window_size's comment).
BlocksFitTheWindow ==
  PledgeNotExceeded => \A i \in DOMAIN wire.blocks : wire.blocks[i].len <= wire.header.window_size

\* push sends whole chunks: whatever the split heuristic did, between chunks the
\* frame has taken a multiple of push_target, unless a flush cut one short
\* (encode_buffered_chunk's comment, the streaming layout).
StreamingLayout ==
  call \in {"none", "push"} /\ ~finished /\ ~flushed =>
    Len(wire.content) % push_target(p) = 0

\* finish spends an empty block only on a frame whose content is a multiple of the
\* block size, and not on content pledged as one block (finish's comment).
EmptyTrailerOnlyWhenAligned ==
  finished /\ ~flushed /\ wire.blocks[Len(wire.blocks)].len = 0 =>
    /\ content_len % block_size_for(p) = 0
    /\ content_len = block_size_for(p) => p.pledged_src_size # content_len

\* Where the cuts between blocks fall, in any interleaving of push, flush and finish.
BlockLayout == BlocksFitTheWindow /\ StreamingLayout /\ EmptyTrailerOnlyWhenAligned

\* frame is the end of what was emitted, and never less of it than the window the
\* header promises: compaction drops no history a later match may name.
HistoryKept ==
  LET emitted == Len(wire.content)
  IN  /\ frame = SubSeq(wire.content, emitted - Len(frame) + 1, emitted)
      /\ Len(frame) >= Least(emitted, history_limit_for(p))

\* The bounds the buffer and the finder's tables were sized by hold: frame never
\* outgrows frame_capacity_for, nor the positions a finder was built to hold.
FrameWithinCapacity ==
  /\ Len(frame) <= frame_capacity_for(p)
  /\ PledgeNotExceeded => Len(frame) <= match_position_limit_for(p)

\* Every position the finder holds names the byte it was filed for, across every
\* compaction.
EntriesNameTheirBytes ==
  match_state.state = "Contiguous" =>
    \A e \in match_state.filed : e.pos < Len(frame) /\ At(frame, e.pos) = e.byte

\* The table indexed by position modulo the cycle keeps each entry in its slot: the
\* latest position filed of a residue is the one its slot holds.
SlotsKeepTheirPositions ==
  match_state.state = "Contiguous" /\ Indexed(p) =>
    \A e \in match_state.filed :
      LET cycle == p.rebase_period
      IN  (\A f \in match_state.filed : f.pos % cycle = e.pos % cycle => f.pos <= e.pos)
            => match_state.slots[e.pos % cycle] = e.byte

\* "Every finder here catches up from its own next_to_update the next time it
\* searches" (the end of planning, window/mod.rs): a byte behind the cursor is filed,
\* or was passed over on purpose: in the parse of its own block, as a search too far
\* behind left it out, or by the long-match clamp.
EveryFinderCatchesUp ==
  match_state.state = "Contiguous" /\ HasCursor(p) =>
    \A q \in FirstPosition(p)..(match_state.next_to_update - 1) :
      /\ q < Len(frame)
      /\ \/ [pos |-> q, byte |-> At(frame, q)] \in match_state.filed
         \/ At(frame, q) \in match_state.skipped

\* No byte is lost between two blocks, for a finder over rows or a tree: what one
\* block's parser left behind, the search or the insert of a later one files, whether
\* that block is parsed, run-length or too small, and whatever a compaction or the
\* clamp did in between (bypassed_insert_start's comment).
NothingSteppedOver == p.family # "chain" => EveryFinderCatchesUp

\* "A contiguous state now always rebases" (compact_frame's comment): the buffer is
\* sized so that one of shift_positions's two routes always applies.
AlwaysRebases == ~rebuilt

\* The byte at a position of the space the long-distance table counts in.
Joint(pos) ==
  LET dict_len == IF match_state.state = "Prefixed" THEN p.dict_len ELSE 0
  IN  IF pos < dict_len THEN pos - dict_len
      ELSE IF pos - dict_len < Len(frame) THEN At(frame, pos - dict_len) ELSE 0

\* "Every entry names a position in the buffer this call was handed" (window/ldm.rs,
\* generate_into): the long-distance table moves with the buffer.
LdmNamesItsBytes == ldm.on => \A e \in ldm.table : Joint(e.pos) = e.byte

\* Each block reaches the long-distance table once and in order: the block it last
\* saw ends where the frame does (sequences_for_block's debug_assert).
LdmSeesEveryBlock ==
  ldm.on => IF ldm.generated_for = << >> THEN frame = << >> ELSE ldm.generated_for[2] = Len(frame)

\* compact_frame moves the buffer under every table at once: the finder's entries, the
\* table indexed by position, the long-distance table and the block it last saw.
TablesFollowTheBuffer ==
  EntriesNameTheirBytes /\ SlotsKeepTheirPositions /\ LdmNamesItsBytes /\ LdmSeesEveryBlock

\* A match the long-distance table can offer a block is one the decoder accepts, by
\* the window the header declares and the dictionary, as long as the header's pledge
\* is kept: a frame that breaks it declares too small a window, and finish refuses it.
LdmReachLegal ==
  ldm.on /\ ldm.generated_for # << >> /\ PledgeNotExceeded =>
    \A q \in ldm.generated_for[1]..(ldm.generated_for[2] - 1), e \in ldm.table :
      LET byte   == At(frame, q)
          index  == byte - origin - 1
          source == IF e.byte < 0 THEN e.byte ELSE e.byte - origin - 1
      IN  e.pos > ldm.window_low /\ source < index =>
            match_source(Least(index, wire.header.window_size + 1), wire.header.window_size,
                         IF p.dict_len = 0 THEN None ELSE p.dict_len, index - source) # "corrupt"

\* The dictionary is given up only when a decoder cannot reach it any more
\* (compact_frame's comment): more than a window of the frame has gone out.
DictionaryGivenUpOutOfReach ==
  [][match_state.state = "Prefixed" /\ match_state'.state = "Contiguous"
       => Len(wire.content) > wire.header.window_size]_vars
=============================================================================
