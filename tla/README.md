# A TLA+ model of `zstandard`

`zstandard` is a Zstandard codec in Rust. This directory holds TLA+ modules that
model its control logic, TLC configurations that check them on small instances,
and TLAPS proofs of the results that matter most. Paths below are relative to the
repository; the correspondence of every definition to its lines is in `PROJECT.json`.

## The system

| Part | State | Operations | Talks to |
|---|---|---|---|
| `StreamingDecoder` (`src/streaming.rs`) | input buffer and cursor, output buffer (queue and match history at once), parser state, current or spare frame state, accounting | `push`, `finish`, `reset`, `read`, `take_output`, `consume_output`; the process loop's handlers | block decoder, header parsers, dictionary |
| One-shot decoder (`src/decode.rs`) | cursor, destination | `decode_all`, `decode_into`, per-frame loop | block decoder |
| Block decoder (`src/decode.rs`, `literals.rs`, `sequence.rs`) | Huffman and FSE tables, repeat offsets | literals section, sequence execution, match copy | destination, dictionary content |
| Repeat offsets (`src/sequence.rs`) | three distances | classify (encoder), resolve (planner, decoder), advance (splitter) | both codecs |
| Block emission (`src/encode.rs`) | history carried between blocks, plan, entropy state | whole block, split into sub-blocks, raw fallback | repeat offsets |
| Headers (`src/frame.rs`, `block.rs`) | none | parse, write, size queries | everything |
| `StreamingEncoder` (`src/streaming.rs`) | buffered input, history, finder state, output buffer, pledge | `push`, `flush`, `finish`, `reset`, drains | block emission, finders |
| io adapters (`src/io.rs`) | inner stream, end flags | `Writer::{write, flush, finish, drop}`, `Reader::{read, read_to_end}` | the streaming contexts |
| Match finders, LDM (`src/window/`) | hash, chain, row and tree tables of positions | insert, search, rebase | parsers, `StreamingEncoder` |
| Parsers (`src/window/`) | cursors, anchor, repeat offsets; the optimal parser's price table | one block into sequences | finders, block emission |
| Entropy coders (`src/entropy/`), dictionaries, dictionary builder, xxHash | tables, digest | build, encode, decode, train | block codecs |

Nothing in the crate runs concurrently: the contexts are behind `&mut`. What is hard
is *sequences*: a caller may cut its input and its drains anywhere, fail in the middle,
finish, reset and go on, while one buffer serves as a queue for the caller and as
history for the decoder. Encoder and decoder must also step the same hidden state (the
repeat offsets) by different routines. The list of hazards, each at its line, is in
`PROJECT.json`.

What makes each part correct:

- *Streaming decoder*: the bytes, the errors and the moment they appear do not depend on
  chunking or draining; memory and output stay within their limits; every call returns.
- *Output buffer*: an exact queue; enough history for every legal match, no more than
  twice the window for a caller that keeps up; the cap counts every byte once.
- *Repeat offsets*: encoder, planner and decoder agree after every sequence.
- *Block emission*: each chunk is written once, and decodes to the planned distances.
- *Streaming encoder*: however the input is cut, the frame carries every byte once, closes
  once, and keeps the promises of its header; the buffer matches are found in stays within
  the size its tables were built for.
- *Match finders, long-distance table*: an index entry names the same byte before and after
  the buffer is moved; nothing offered is out of the decoder's reach.
- *Parsers*: every sequence, as the decoder resolves it, names the bytes it stands for; the
  offsets handed on are the decoder's.
- *Entropy and headers*: what is written is read back by every reader of it; a decode uses no
  bit it has not loaded; a block is read with the tables it was coded with.
- *io adapters*: nothing is delivered twice or out of order, success means everything arrived,
  end of file means whole frames.

## Modules

**Output buffer.** `HistoryBuffer` holds the arithmetic of the decoder's output buffer as
operators: how many bytes `compact_output`, `compact_between_frames` and `release_history`
drop or move, what `retain_for_matches` keeps, and where a match is served from.
`OutputWindow` is the buffer as a state machine on lengths only: `len`, `output_pos`, the
open frame's `frame_start`, `window_size` and `frame_output_size`, `total_output_size`, with
history variables (`base`, `drained`, `made`, `origin`) that give every byte an absolute
position. Its actions are the operations that touch the buffer: `start_frame` (accepted or
rejected after reclaiming), `decode_block` (succeeding or failing half way), `finish_frame`,
`consume_output`, `take_output`, `reset`. It is the abstract specification of the buffer, and
`OutputWindowProofs` proves it.

**State carried between blocks.** `RepeatOffsets` holds every routine of the crate that steps
the history. `RepcodeLockstep` runs an encoder, a planner and a decoder over one sequence of
matches. `BlockSplit` is the emission of
planned blocks: planning, the whole-block path, the split path with its two histories and the
raw fallback, and the decoder that reads the result. `CarriedTables` is the entropy tables:
the encoder's choice of mode, its pool and the tables it carries, the literals' table, and the
decoder's state with its lazily built form, over blocks that win, lose, have no sequences or
start from a dictionary. `PriceModel` is what the optimal parser carries: literal, length and
offset counts with their sums and base prices, from a first block, a dictionary or the block
before, through rescaling and every sequence emitted, over small symbol alphabets.
`MCCarriedState` runs the four side by side, and `CarriedStateProofs` proves them.

**Decoder.** `Wire` is the input as a sequence of units (frame header, block header, payload,
checksum, skippable frame, junk) with sizes, so that a byte is a pair of unit and index and
any cut is possible. `BlockExec` executes a block on a buffer: literal kinds, table
inheritance, sequences, matches into buffer or dictionary, limits and errors, and the partial
output of a failure. `OneShotDecoder` is `decode_into` as a function of the bytes.
`StreamDecoder` is `StreamingDecoder`: each API call is an action, each turn of `process` is
an action (`process_frame_header` in its accepting, refusing and skippable forms,
`process_block_header`, `process_block_payload`, ...), so a call is a `push` or `finish` step
followed by turns until the loop breaks. `StreamDecoderProofs` proves that it implements
`OutputWindow`, keeps the cap and accounts for its input exactly; `OneShotProofs` that it makes
of any input what `OneShotDecoder` makes of it.

**Encoder.** `EncoderGeometry` holds the sizes of `StreamingEncoder`: block, window, slack,
capacity, push target, when to compact and by how much. `MatchTables` holds what the encoder
does to a finder: filing positions (`insert_range`, a parser's progress, a run, an
uncompressed block), the cursor, the table indexed by position modulo a cycle, the
long-distance table, and the rebasing of each. `StreamEncoder` is the state machine: `push`
takes its bytes (digest and length first, as in the code), `top_up` is the loop's fill,
`encode_buffered_chunk` and `encode_chunk_tail` the block that the split heuristic cuts and
the rest, then `flush`, `finish`, `reset`, `read` and `take_output`. Every one of the
block-emitting actions is `encode_buffered_block` whole: compaction, append, tables, emission
and savings in one step. A byte is its number in the stream; `wire` is the frame as emitted.
`StreamEncoderProofs` proves every property of it that `stream_encoder` checks.

**io adapters.** `IoAdapters` composes a `Writer` over a sink that takes part of what it is
given, fails or is interrupted, with a `Reader` over what arrived, whole or cut.
`IoAdaptersProofs` proves what both promise.

**Formats.** `BitStrings` holds the bit and byte conversions, and how many bits each field may
take. `FrameFormat` is the frame,
skippable-frame and block headers, written and parsed field by field, and the size queries and
bounds; `SectionFormat` the literals and sequence section headers. `Fse` normalises counts,
serialises them both ways, builds encode and decode tables and runs streams; `Huffman` builds
a tree, limits its height, serialises the weights, builds single- and double-symbol tables and
runs one and four streams; `SequenceSection` codes the sequences of a block. `FormatChannel`
puts a writer, a channel that may cut, and every reader of an item together.

**Bit containers.** `BitReader` is the
unrolled decoding loops (forward and backward readers, four Huffman streams, the sequence
executor) as state machines that count loaded and used bits; `BitWriter` the encoders' loops.
`BitContainerProofs` proves both.

**Parsers.** `ParserBase` is what they share: bytes, floors, blocks cut into segments by
long-distance matches, repeat offsets put aside and restored, and the storing of a sequence,
which steps the decoder's history too. `FastParsers` is fast and double-fast; `LazyParsers`
greedy, lazy and lazy2 over chains and rows; `OptimalParser` the price table, the forward pass
(with the three-byte table and the two-phase collection behind a dictionary) and the
backtrace. Which candidate a table returns and what a match costs are left open.
`ParserProofs` has the invariant of all of them, their steps and the theorems.

**Finders.** `FinderBase` drives a match finder through the blocks of a frame, whatever parser
is in front of it: blocks too small to parse, run-length blocks, searches at any strides. What
the last search returned is the variable `found`. `TreeFinder` is the binary trees: filing
with and without a bias, behind a loaded and an attached dictionary, the unsorted chains of
btlazy2 with their batch sort, the read-only dictionary trees, and the cursor that long
matches let skip. `TableFinders` is the hash chains and hash rows: links in reused slots, rows
with tags, the ring of hashes read ahead, lazy skipping, and the dictionary's own tables.
There, bytes are 0 or 1, a hash is of two bytes, and a match is counted byte by byte.

The `MC` modules give the constants values. A decoder, what it is fed and what a reset feeds
it are one element of the constant `Setups`; so are an encoder and its caller, and a parser
and its parameters. A behaviour picks one at the start and keeps it.

## Runs

| Run | States | What it shows |
|---|---|---|
| `buffers` | 1,489,061 | the output buffer, with windows of 1 and 3 bytes, blocks of up to 3, a cap of 9 or none, 12 bytes made: queue, anchoring, history, matches with and without a dictionary, cap, memory bound; and a sink and a source that fail part-way: delivery, honest ends, and every read returns |
| `carried_state` | 434,244 | the three repeat-offset histories agree over all distances 1..6 from three starting histories; two blocks of up to three sequences, cut anywhere, of which only a last piece is stored raw, decode to the planned distances; four blocks are each read with the tables they were coded with; the optimal parser's sums are those of its counts over three blocks of a frame, and no price wraps |
| `stream` | 18,457 | output and verdict of the streaming decoder equal those of the one-shot decoder for every chunking and draining, in five configurations: valid and twelve kinds of broken input; checksums not verified; a dictionary; a cap of 6 with resets; `single_frame`. `ImplementsOutputWindow`: every behaviour of the byte-level decoder is one of `OutputWindow`. On all of these, every call returns, and a caller that keeps pushing, draining and finishing settles |
| `stream_encoder` | 918,988 | 29 encoders. *Layout*: pledges below, at and above the block size, splits, checksums, two frames, drains. *Positions*: chain and tree finders, with (window, cycle) of (3, 2), (2, 4) and (3, 8), the three cases of `history_slack_for`; rows; an optimal parser's tree, which skips into long matches; each with every choice of what a parser passes over. *Far*: a dictionary; long-distance matching; both, over a frame short enough not to be compacted |
| `formats` | 799,219 | every item the encoder writes is read back as it was by each of its readers; a header cut short is noticed; no decode exceeds its bound; no decoder uses bits it has not loaded or loads below its stream; no encoder pushes a bit out of its container |
| `parsers` | 1,221,680 | every parser over every candidate, several blocks long, with and without a prefix and long-distance matches |
| `finders` | 903,475 | six kinds of tree and twelve of chains and rows over four strings, in blocks of 6, 9 and 14 bytes: every match returned is one; walks only go back; rows hold their hashes |
| `split_distances`, `stream_empty_skippable`, `chain_catch_up`, `encoder_ldm_dict`, `tree_bias` | | expected violations (below) |

Some properties are conjunctions of named parts. Of `stream`: `AccountsExact` (the cap, and the
frame's length under `single_frame`). Of `carried_state`: `BlocksInStep` (the two histories of
a split, and every chunk written once). Of `finders`: `SearchesInStep`. Three of `stream_encoder`: `EveryByteOnce` (the
wire and the queue), `BlockLayout` (block sizes, the window, the trailer) and
`TablesFollowTheBuffer` (finder entries, slots and long-distance entries after a compaction).
`NothingSteppedOver` is `EveryFinderCatchesUp` for the finders of which it holds, those over rows
and trees; `chain_catch_up` checks it of hash chains.

**Bounds.** In the decoder, windows and blocks are four bytes where the code has kilobytes:
the code compares sizes with the window, twice the window and the buffer, so the cases are
the same. `MaxMade` lets a frame run several windows ahead. `INPUT_COMPACT_MIN` is 6
instead of 4096, so that both rules of `compact_input` fire. Chunks of 1, 4 and 11 bytes
and the whole rest cut every unit in every place; drains are of 2 bytes, so that output is
left behind in every length. Three distances suffice to tell
histories of three entries apart together with the defaults; two blocks of three
sequences let a wrong history be carried over and used; four blocks (`CarriedBlocks`) let a
table be built, skipped by a raw block, and repeated. In the encoder, windows are 2 or 3
bytes, blocks 2 or 3 and a frame has up to 15: it is compacted several times, at different
offsets into the cycle. The clamp after a long match (384 and 192 in the code) is scaled to
2 and 1, with it the gap that a search over rows does not fill (384 in the code too), the hash
tail to 1, and the split size to 3, so each is met within a frame. In
`formats` a byte has `Radix` 8 values, so that the widths of the content-size field change
within a few hundred; Huffman codes have at most 5 bits (`TABLELOG_MAX_HUF`). A bit
stream has up to 24 bytes (`MaxBytes`) and a loop is followed for 80 bits (`MaxConsumed`),
more than a container holds; field widths are the format's own. In `parsers` a source has 24
bytes and a window 9, so that matches, repeats and the dictionary go out of reach; the
shortest match is 2 and the price table (`OPT_NUM`) 6 long, so that a path fills it. In
`finders` a source has 25 bytes and a history of 9 (trees) or 14 (tables); trees are followed
4 nodes deep and chains and rows 3 (`SEARCH_DEPTH`, `ATTEMPTS`), a chain's cycle is 4 and a row
has 3 entries, so that slots are reused and budgets used up; a hash has two buckets, so that
most candidates are false; the skips of 8, 384 and 192 bytes are scaled to 3, 5 and 3.

**Fairness.** `stream`: the process loop is a loop inside a call and takes its next turn
(`WF` on `Process`). For its two liveness properties the caller is one that keeps pushing until nothing is left,
drains, and finishes: `WF` on each. `buffers`: the turns of a running `read` or `read_to_end` are
taken (`WF` on `ReaderTurn`), which says that a source that is asked again and again is not
interrupted for ever. No strong fairness is used.

**Deadlock** is checked in `stream`. The others stop: a
caller of `StreamEncoder` has sent its `max_content` bytes and `max_frames` frames and may
then have a broken pledge that `finish` refuses; in `carried_state`, `buffers`, `formats`, `parsers`
and `finders` the blocks, the frames, the item or the source are used up.

## What the violations show

1. `split_distances`: `reconcile_subblock_repcodes` steps the compressor's history with the
   patched value, unlike the C routine it says it matches.
2. `stream_empty_skippable`: an empty skippable frame is taken for lack of input, so a
   stream that `decode_all` accepts can be reported as truncated by `finish`.
3. `encoder_ldm_dict`: with a dictionary and long-distance matching, the first compaction
   leaves the long-distance table's entries too high by the dictionary's length.
4. `chain_catch_up`: the parser over contiguous hash chains files from its own block's start
   (`inserted_until = block_start`), so what the last parser left unfiled at its block's end
   stays so, although the end of planning says that every finder catches up from its own
   `next_to_update`. It costs ratio only.
5. `tree_bias`: the trees of btlazy2 store positions as they are, but a run-length block, and
   the tail of every block behind an attached dictionary, are filed by the optimal parsers'
   routine with a bias of two. A later search reads those entries two bytes too far on and
   returns matches whose bytes differ.

`PROJECT.json` quotes the lines each contradicts. The passing runs leave these cases out:
`carried_state` lets only the last piece be raw (`Fallback = "last"`), `stream` has an empty
skippable frame only at the end, `stream_encoder` never compacts a frame that has both a
dictionary and long-distance matching and asks `NothingSteppedOver` of rows and trees only, and
`finders` never files with a bias under btlazy2
(`BIASED_FILING = FALSE`).

Further observations, met while modelling, that have no run of their own:

- With `Fallback = "any"`, `BlockSplit` violates `BlocksInStep` (a sub-block's sequences are walked
  twice over `decoder_reps`) and, from plans of four sequences on, `ChunkWrittenOnce`:
  when no piece compresses, the chunk is written twice.
- `release_history`'s second `debug_assert!` can trip in a drain after a failed block.
- After a refused frame header, `finish` can return `Ok`, and a retried `read` of the adapter
  can see a clean end. A `write` that fails has already pushed its bytes, so a retry of the
  same bytes duplicates them.
- The four-stream Huffman writer that prefers an existing table (`huff0.rs`, 1480-1602) can
  overwrite its own table description when the total is exactly the limit less four.
- `write_windowed_header_with_content_size` would store a content size below 256 wrongly; no
  caller passes one.
- `decode_sequence_commands_into_stats`, which only profiling and tests use, can read past its
  container.
- Comments that no longer hold: `block_size_for` (`streaming.rs`), "still carries a block on
  top of the history" (`window/mod.rs`), `into_inner_with_remainder` (`io.rs`) when a partial
  block is held.
- The attached dictionary of btlazy2 is filed by a four-byte hash and looked up by the hash of
  the minimum match, so with a minimum match of five or six most of it is not found.

- Behind a prefix, the tail of a block and a run-length block are filed from the block's start
  or an old cursor, so that trees and rows may hold a position twice.
- A chain has `1 << chain_log` slots while the rebasing clamps the cycle's log to 10..20.

## Proofs

`OutputWindowProofs` proves, for every set of windows, every block size, cap and bound
that satisfy `OutputWindowAssumption`: `TypeOK`, `QueueExact`, `FrameAnchored`,
`HistoryKept`, `CapHolds`, `DrainedBufferBounded` and `MatchesUnaffected`. None but the
type invariant and the queue is inductive alone. `IInv` adds what connects them: the
buffer's absolute position (`base`) against the frame's (`origin`), that an open frame has
appended at least what is accounted, and that once bytes of the frame were dropped more
than a window of it was left. The step from `HistoryKept` to `MatchesUnaffected` is the
lemma `SourceAgrees`: `match_source` looks at the frame's output only to compare it with
the window and with an offset that fits in the window, so any count above the window gives
the same answer.

`StreamDecoderProofs` proves that the byte-level decoder implements `OutputWindow`
(`ImplementsWindow`): for every set of configurations and streams, whole or broken, every
chunking, every drain and any number of resets, a step of `StreamDecoder` is one of
`OutputWindow` or leaves its variables alone. `SetupsAssumption` says what a stream is: units a
parser may yield (`IsUnit`) in an order it may meet them (`Parsed`), naturals for bytes, a dictionary with three offsets, and tables with
an entry for every code a block reads through them. The streams may lie about everything else:
sizes, checksums, offsets, what is behind a frame, where they end. The mapping reads the lengths of the
decoder's buffers, so `StreamInv` has to bound what a handler adds to them:

- *Input.* The bytes in hand are a run of the stream's, so the unit at the cursor is one of the
  stream's and a handler consumes no more than there is.
- *Buffer.* `output` and `delivered` are sequences, `output_pos` is within the first, and an
  open frame starts within what the buffer holds, at the position `origin` says.
- *Frame.* Its window, limits, counts and repeat offsets are numbers; what it counts as its
  output fits what the buffer may have dropped.
- *State.* What a handler put aside for the next (a block's header, a skippable frame's rest) is
  as the parsers make it.

The long step is a block. `sequence_executor` runs over the codes as a recursive function, and
`GoodAcc` is its invariant, by induction on the number of codes: the history stays a prefix of
what is made, the cursor stays in the literals, and what is made stays within the block's
limit, also where a sequence fails. From this, decoding a block is `OutputWindow`'s
`decode_block` with the same length, whether it succeeds or stops half way. `MatchesResolve`
carries the proved part of the abstract module over by an instance of `OutputWindowProofs` over
the decoder's variables, with every offset and every dictionary length: in the decoder itself,
compaction never changes where a match is served from. For `OutputIsCapped`, `CapInv` adds
that between calls the whole output of a stream is what is accounted, plus a failed block's
share, which is within the limit that `decode_block` was given.

`AccountsAreExact` is about the input: a `single_frame` decoder that has decoded its frame has
consumed that frame to the byte, and what it still holds is what was pushed behind. It says
nothing of the steps in between, so the proof follows the cursor over the whole stream.
`PlaceAfter` gives, for each prefix of the units, the place a parser is in there (`PlacesOf`):
a payload due, a frame open, its last block begun. `At(k)` ties the decoder to it: its state and
the header it put aside are those of the place after k units, its cursor is where unit k ends or,
in a skippable frame, inside unit k + 1, and a decoder of one frame has met no second header.
`Placed` says there is such a k, or that the decoder failed. Each handler takes k to k + 1 or
leaves it (`HeaderAt` to `ChecksumAt`), and a push or a drain moves no unit (`PosInv`). That the
handler that runs is the one the next unit calls for is where it matters that the bytes are cut
as a parser cuts them: `Parsed`, which `SetupsAssumption` requires of every stream, whole or not.
The unit at which `decoded_a_frame` is raised ends the frame, and no other does (`FrameEndIs`).

`OneShotProofs` proves that the two decoders agree (`StreamsMatch`, `VerdictsMatch`): for every
set of configurations and streams, whole or broken, every chunking, every drain, every cap and
any number of resets, what a stream has produced between two calls is exactly what
`decode_into` makes of the bytes pushed so far, also where a block fails half way; a push
that fails reports the one-shot decoder's error, and a finished stream is in error exactly when
the one-shot decoder is. Where leftovers of an earlier stream count against the cap
(`decode_block`'s `saturating_sub`), a failed stream's output is a beginning of the other's, and the
verdicts are not compared. The two run different code over different buffers: one holds
everything it made, the other drops what was drained, and one sees a unit only when all
of it has been pushed. The argument has four parts.

- *One block, two buffers* (`BlockAlike`). `History` says that two buffers end in the same
  bytes, back to the open frame's start in both or, in the smaller one, more than a window. Then
  each sequence of a block reads its match from the same bytes, in the buffer or in the
  dictionary (`SourceAlike`, `SameMatch`, `SameDictionaryMatch`), and appends the same to both,
  or stops at the same error, or at the tighter cap with a beginning of what the other has
  (`RunsKeep`, by the least number of codes at which it would fail).
- *What the stream still holds.* `KeptInv` says that what was delivered ends with what the
  buffer has of it, so everything produced is what was dropped and the buffer. That the
  buffer has all of the open frame or more than a window of it is not proved again: it is
  `OutputWindow`'s `HistoryKept`, carried over by `ImplementsWindow` (`Retained`).
- *The one-shot decoder, unit by unit.* `decode_into` takes the units one by one; `RunOf` is
  the function that gives its state behind each of them. A run over more input passes through
  the same states, so the invariant `SyncInv` says that behind the k units the stream has read,
  the one-shot decoder has the same output, frame, tables and digest whatever more is
  pushed. Every handler takes both one unit on (`FrameHeaderAlike`, `BlockAlikeStep`,
  `ChecksumAgrees`, `SkippableAlike`), or is refused by both with the same error.
- *Where a call ends* (`AgreeInv`). A loop that breaks for want of input breaks where the
  one-shot decoder runs out of it, between frames or in one (`StallIs`), and `finish` then judges
  as that does.

The theorems have one hypothesis, `NothingBehindEmpties`: a skippable frame without content is
its stream's last unit. Without it they are false, as the run `stream_empty_skippable` shows:
the process loop breaks at such a frame with input behind it unread. `MCStreamDecoder` assumes
that the streams of the run `stream` meet it, so TLC evaluates it there.

Proving all this corrected the model in six places. `OutputWindow` was bounded by `MaxMade`, so no
decoder of unbounded streams could implement it; the bound may now be `None`. `IsBlock` and
`SetupsAssumption` were not stated, and a compressed block whose payload is empty could have
had sequences. And a unit that is no block could be read as a block header after a truncated
frame; `process_block_header` now says that it reads a block's. The order of units was left to
the streams that happened to be listed; `Parsed` states it. And `FrameEnd`
could also be the end of a frame behind the first.

`CarriedStateProofs` proves that one transfer of a match keeps three equal histories
equal (`OneTransfer`, by the cases of the classifier) and hence `RepsInStep` for every set
of distances and starting histories. It also proves `TablesInStep` for any alphabets,
any dictionary, every strategy and any number of blocks. The encoder finds its tables by
address and the decoder by where it is in its three-part state; `EndsAgree` ties them: when
a table may be repeated, the one at the carried address is the decoder's next one. A block
breaks it only by building a table where the carried one lives, and `BuildSpares` shows that
no build does: the pool is consulted for an address that nobody else holds.

Of `BlockSplit` it proves `DistancesRecovered` and `BlocksInStep`, for any number of blocks of
any length, cut anywhere, under the hypothesis `Fallback # "any"`: no piece is stored raw but
the last of a block whose other pieces compressed. The run `split_distances` refutes them
otherwise, so the hypothesis is needed; it leaves the reconciliation of two histories that
differ to that run, since under it the flag `prev_was_uncompressed` is down whenever a piece
is coded. The invariant `BlocksInv` rests on `Along(h, plan)`: h is the history before each
sequence of a plan, each stepped from the one before by the encoder's classifier. A planner
extends it (`AlongMore`), a piece of a plan is along the part of h it covers (`AlongPart`),
and both the decoder and `resolve_values` walk it exactly (`DecodesAlong`, `ResolvesAlong`,
by the least place where they would leave it). So a piece leaves both ends where the plan's
history is at the next cut, and the last piece, if raw, leaves the carried history at its own
start, which is the decoder's.

And it proves `PricesNeverWrap` of `PriceModel`, for all alphabets, blocks, dictionary seeds and
base frequencies and any number of blocks. A price is the weight of a sum less the weight of a
count in it, so it does not wrap when the weight is monotone and the sum is the sum. The weight
is monotone although it is a logarithm with a linear fraction (`weight` compared across a power
of two: the larger bit outweighs the smaller's fraction), but only while the shift inside it
loses no bits. That is the strengthening: `Sound` says that sums, bases and cached prices have
followed every count, and `Room` that the rest of the block, were all of it literals, keeps
both sums within the word (`Fits`). No number of blocks exhausts it, because the sums handed on
(`Kept`) are scaled before they are counted on: `ScaleIs` bounds the scaled sum by a target and
the size of the alphabet, whatever it was before. `WidthAssumption` is therefore about one block
only: a word holds what a sum may start from and what the block can add. In the code that is at
most 256 * 2^10 from a dictionary's lengths and 2 * 2^17 from the block, which at an accuracy of 8
bits is 2^27. Facts about sums are inductions over the set of symbols already added, in the form
of a set of good parts closed under adding one.

`StreamEncoderProofs` proves every safety property of the run `stream_encoder`, for every
set of encoders that satisfies `SetupAssumption`, with `GeometryAssumption`,
`TablesAssumption`, `SplitAssumption` and `WireAssumption` on the constants: any window L,
block size B, cycle, pledge and dictionary, any chunks, drains and number of frames. In the
order in which they rest on each other:

- *The geometry* (`FrameWithinCapacity`, `AlwaysRebases`). The arithmetic is
  `CompactionFits`. If the cycle is at least 2L + B, the slack is L, so the buffer never
  reaches round the cycle and every table can be moved bodily. Otherwise the slack is at
  least a cycle, so at least a cycle has left the window when the buffer is compacted; what
  is dropped is then whole cycles, and the tables stay in place. In both cases what remains
  leaves room for a block. `EncoderInv` carries this through the calls. It adds what the two
  properties need and do not say: `buffered_input` stays below the push target between calls,
  equals it when a chunk is encoded, and is at most a block when the tail or a last block is;
  and the bytes in `frame`, `buffered_input` and `src` together are no more than were pushed,
  which bounds the buffer by a pledge.
- *The bytes* (`HistoryKept`, `EveryByteOnce`). `BytesInv` says that the content on the wire,
  `buffered_input` and `src` are runs of the stream that meet end to end, and that `frame` is
  the end of the first, a window of it or all. `Emits` is the one form of the four actions
  that send a block, and `Behind` says what the one or two blocks it appends add to the wire;
  that the queue grew by as much is the arithmetic of `TotalBytes`.
- *The frame* (`FinishedFrameDecodes`, `BlockLayout`). `LayoutInv` keeps the last-block flag,
  the digest and the alignment of what was emitted to the push target, half-way through a
  chunk too (`ChunksInv`).
- *The finder* (`NothingSteppedOver`, `DictionaryGivenUpOutOfReach`, the first half of
  `TablesFollowTheBuffer`). `TablesOver` says of tables and a buffer that every entry names
  its byte, that a slot of the cycle has the latest position of its residue, and, of rows and
  trees, that what the cursor passed was filed or passed over on purpose. `AfterBlockKeeps` shows
  that a block's insertions keep it, over a buffer that grew, whatever a parser passes over;
  `ShiftKeeps` that a compaction does, by either route: a move by
  whole cycles leaves every position in its slot, and a bodily move is made only when
  positions and slots are the same. That the slot has the *latest* position is the delicate
  clause for a tree: a run-length block files its tree and leaves the cursor, so the next search
  files the same positions again, earlier ones over later ones. They share a slot only if they
  are a cycle apart, and the clamp has left no more than its lag to catch up on: `EntriesNear`
  says how far entries may be ahead of the cursor and `InOrder` that what is filed next then takes
  a slot in order. Hence the hypothesis `CyclesBeyondLag` of that half, that a tree's cycle
  is no narrower than the clamp's lag and span (384 and 192 in the code; only an explicit `chain_log`
  override gives less). Hash chains file in order and need no such hypothesis; what their
  cursor passed is not claimed, since the claim is false of them (`chain_catch_up`). A
  dictionary is given up by a compaction only, which takes more than a window in the buffer,
  hence on the wire.
- *The long-distance table* (the rest of `TablesFollowTheBuffer`, `LdmReachLegal`), under the
  hypothesis `LdmBounded`: an encoder that has one has no dictionary before it, or a content
  too short to be compacted. Without it the theorem is false, which is what the run
  `encoder_ldm_dict` shows. `LdmInv` adds the floor: positions the decoder would refuse are
  below `window_low`, though the dictionary's end is credited to it until it is outgrown.

Two corrections came of these proofs. `LdmReachLegal` now says that it holds while the pledge
does: a caller that exceeds it has made the header declare a window smaller than the one the
encoder matches in, and `finish` refuses that frame. And `TotalBytes` is a recursive function,
no longer a fold over a LAMBDA, which no prover can expand; so is `Total` of `PriceModel`, whose
powers of two are `Bit`.

`BitContainerProofs` proves `BitsWereLoaded` and `NoBitLost` for streams of any length and
content. `SpentBefore` says, step by step, how many bits of its container a loop may have
used when it gets there: less than a byte after a reload, plus the widest fields read since,
unless all of the stream is in the container. The writers' invariant says the same of the
bits waiting to be flushed.

`IoAdaptersProofs` proves `WriterDelivers` and `EndIsHonest` for every size of block, unit,
chunk, write and read and every way a sink or a source fails. `WriterInv` says that what
left the queue is a prefix of the units' bytes, all of it while no error was reported;
`ReaderInv` that the decoder has decoded as many units as what it was handed holds, and that
their content is what it delivered and still has. Both speak of the content of a sequence of
units, a fold: its facts are proved from the definition of `FlattenSeq` by taking the least
length at which they would fail.

`ParserProofs` proves `EverySequenceDecodes`,
`OffsetsFollowTheDecoder` and `RepeatReadsInBounds` of all the parsers: for every source and
block length, window, prefix and starting offsets, with or without long-distance matches,
whatever the tables return and whatever a match is thought to cost. The assumptions are that
lengths and shortest matches are positive and that, without a prefix, the first two starting
offsets fit the window (a frame without a dictionary starts at 1 and 4). `ParserInv` adds
what the three need:

- *Positions.* Every block and segment lies in the source and in the history behind it, and
  each parser's cursors keep the order its loop relies on, phase by phase.
- *Distances.* Every floor a search uses is at or above what the decoder accepts (`Legal`),
  in the window, with a prefix in reach, and after it was retired.
- *Offsets.* Those a parser holds are the decoder's, or 0 while one that would reach too far
  is put aside; `Agreed` says that restoring it gives the decoder's again. The lemma
  `ResolvedMeant` takes this through every store: the value written means the same distance
  to the decoder, whose history then still agrees.
- *Long-distance matches* lie in their block, in order, with legal distances (`LdmInv`).
- *The path of the optimal parser.* A candidate is classified against the offsets of the node
  it starts at, so by the time it is emitted the parser's offsets must be that node's again.
  `PathNodes` says of each settled node that its offsets are those of the node its match
  started from, stepped by that match, and of each open one that its match is sound there.
  `BacktraceLeads` shows that the walk back from the end lists sequences each of which
  follows from the place before it, by the least node where this would fail.

Proving them corrected the model. `NextSegment` took long-distance matches from below the
producer's floor (`ldm_window_low`), and behind a dictionary the optimal parser was run
without them; it is now run with them.

Only model-checked: the formats (`RoundTrip`, `CutIsNoticed`, `BoundSound`: their streams are
folds), the finders (`FoundMatchesHold`, `SearchesInStep`), and liveness, which the prover does
not handle. `TypeOK` of `OutputWindow` is proved and not repeated in a run.


## Abstractions

- A push after a failed call is not modelled: the bytes would no longer be aligned with
  the units. Drains, `finish` and `reset` after a failure are, once the input is used up.
- In `BlockExec` the three FSE tables of a block are one table of (literal length, match
  length, offset value) entries; a bitstream that runs over or is not used up is the flag
  `sound`. `SequenceSection` has the three.
- The digest is injective: it is the bytes hashed.
- The destination is the growable one; fixed slices are not modelled.
- In `BlockSplit` a sequence's bytes are its index in the plan. There, in `CarriedTables` and
  in `OptimalParser` costs are the environment's.
- In `StreamEncoder` what a block compresses to is one byte, and which blocks compress,
  where the heuristic splits and where a parser stops are the environment's. The carried
  entropy tables and repeat offsets are left to `CarriedTables`, `BlockSplit` and
  `RepcodeLockstep`.
- In `FinderBase` strides, the matches taken and what repeat offsets give are any; so a
  parser is more general than each of the code's. The finders' buffers do not move.
- In `PriceModel` a block has few different bytes, words are narrower than 32 bits, and one
  kind of sequence code stands for the three, which are counted and priced alike.
- In `MatchTables` hash buckets are not modelled: the tables keep every position filed and
  not dropped, a superset of what any hash leaves. Which positions a parser leaves unfiled is
  the environment's choice among those it may (`MayPass`): all but the first it files of its own
  block, for lazy skipping over rows and chains and for the optimal parser's jumps into long
  matches, and of what its first search catches up on only where the code does (rows more than
  384 behind, whose first 96 and last 32 are not told apart from the rest; the optimal parser's
  trees). The fast family, which has no cursor, files all it is handed. `TableFinders` and
  `TreeFinder` have the skipping itself. Prefixed finders are opaque, since their
  buffer never moves; the optimal parser's three-byte table is left out. A parser may be
  offered any earlier position under its floor.
- In `ParserBase` a long-distance match on offer is any that holds, above the producer's
  floor and within the decoder's reach; its table is not modelled there.
- Long-distance matching is considered beside a fast finder only; its rolling hash files
  every position here.
- A call the encoder refuses (push or flush after finish, reset before it, finish against a
  broken pledge) changes nothing and has no action.

## Not modelled

The wild copies of a match and the pointer handling of the destinations; the rolling hash and
`generate` of long-distance matching; the level tables and the derivation of parameters; the
one-shot encoder's block loop; dictionary parsing and the dictionary builder; histograms and
cost estimates; xxHash arithmetic; tracing and profiling twins of modelled functions, fuzz
entry points, benchmarks and bindings; functions nothing calls
(`plan_sequences_optimal_with_prefix_into` and its collectors).

## Plan

Left, in this order: the one-shot encoder's loop and the derivation of its parameters, then long-distance
matches beside a finder with a cursor.
