-------------------------------- MODULE Wire ---------------------------------
(***************************************************************************)
(* Compressed input as the decoders read it: a sequence of units, each a   *)
(* field or payload that a parser takes whole, with its size in bytes.     *)
(* The bits inside a unit are left to src/frame.rs and src/block.rs; what  *)
(* a parse of the unit yields is kept.  A unit's fields:                   *)
(*   skippable  remaining                          (8 bytes)               *)
(*   frame      window_size, content_size, checksum, dictionary_id         *)
(*   block      last_block, block_type, block_size, body   (3 bytes)       *)
(*   checksum   digest                             (4 bytes)               *)
(*   junk       what parses as no frame header                             *)
(*   payload    the bytes a skippable or block header announces            *)
(***************************************************************************)
EXTENDS HistoryBuffer, SequencesExt

\* BLOCK_SIZE_MAX, scaled down with the windows.
CONSTANT BlockSizeMax

\* BlockHeader::SIZE, the skippable header and the content checksum.
BLOCK_HEADER_SIZE == 3
SKIPPABLE_HEADER_SIZE == 8
CHECKSUM_SIZE == 4

Payload(n) == IF n = 0 THEN << >> ELSE <<[kind |-> "payload", size |-> n]>>

SkippableFrame(n) ==
  <<[kind |-> "skippable", size |-> SKIPPABLE_HEADER_SIZE, remaining |-> n]>> \o Payload(n)

\* parse_zstandard_frame_header: block_size_max is the window, at most 128 KiB.
FrameHeader(header_size, window_size, content_size, checksum, dictionary_id) ==
  <<[kind |-> "frame", size |-> header_size, window_size |-> window_size,
     block_size_max |-> Least(window_size, BlockSizeMax), content_size |-> content_size,
     checksum |-> checksum, dictionary_id |-> dictionary_id]>>

\* BlockHeader::payload_size: an RLE block carries the byte it repeats.
payload_size(block) == IF block.block_type = "Rle" THEN 1 ELSE block.block_size

Block(last_block, block_type, block_size, body) ==
  LET header == [kind |-> "block", size |-> BLOCK_HEADER_SIZE, last_block |-> last_block,
                 block_type |-> block_type, block_size |-> block_size, body |-> body]
  IN  <<header>> \o Payload(payload_size(header))

Checksum(digest) == <<[kind |-> "checksum", size |-> CHECKSUM_SIZE, digest |-> digest]>>

Junk(n) == <<[kind |-> "junk", size |-> n]>>

\* Bytes in the first k units.
EndOf(wire, k) ==
  LET end[i \in 0..k] == IF i = 0 THEN 0 ELSE end[i - 1] + wire[i].size
  IN  end[k]

Size(wire) == EndOf(wire, Len(wire))

\* A block's unit: a raw body is as long as it says, a compressed one has literals and
\* sequence codes, and nothing that parses where its payload is empty.
IsBlock(u) ==
  /\ u.block_size \in Nat
  /\ u.block_type \in {"Raw", "Rle", "Compressed", "Reserved"}
  /\ u.block_type = "Raw" => u.body \in Seq(Nat) /\ Len(u.body) = u.block_size
  /\ u.block_type = "Compressed" =>
       /\ u.body.literals.data \in Seq(Nat) /\ u.body.sequences.codes \in Seq(Nat)
       /\ u.body.sequences.repeat \in BOOLEAN /\ u.body.sound \in BOOLEAN
       /\ u.block_size = 0 => u.body.sequences.codes = << >> /\ ~u.body.sound

\* What the parsers may yield.
IsUnit(u) ==
  /\ u.kind \in {"skippable", "frame", "block", "checksum", "junk", "payload"}
  /\ u.size \in Nat \ {0}
  /\ u.kind = "skippable" => u.size = SKIPPABLE_HEADER_SIZE /\ u.remaining \in Nat
  /\ u.kind = "frame" => /\ u.window_size \in Nat /\ u.checksum \in BOOLEAN
                         /\ u.block_size_max = Least(u.window_size, BlockSizeMax)
  /\ u.kind = "block" => u.size = BLOCK_HEADER_SIZE /\ IsBlock(u)
  /\ u.kind = "checksum" => u.size = CHECKSUM_SIZE

-----------------------------------------------------------------------------
\* Which unit follows which.  A place is what is known there of the units before: how
\* long a payload is still to come, whether a frame is open, with a checksum, and
\* whether its last block has begun.
Outside == [payload |-> 0, open |-> FALSE, checksum |-> FALSE, last |-> FALSE]

PlaceAfter(place, u) ==
  CASE u.kind = "frame" ->
         [payload |-> 0, open |-> TRUE, checksum |-> u.checksum, last |-> FALSE]
    [] u.kind = "skippable" -> [place EXCEPT !.payload = u.remaining]
    [] u.kind = "block" ->
         [place EXCEPT !.payload = payload_size(u), !.last = u.last_block,
                       !.open = ~u.last_block \/ place.checksum]
    [] u.kind = "payload" -> [place EXCEPT !.payload = 0]
    [] u.kind = "checksum" -> [place EXCEPT !.open = FALSE]
    [] u.kind = "junk" -> place

Belongs(place, u) ==
  CASE place.payload # 0 -> u.kind = "payload" /\ u.size = place.payload
    [] place.payload = 0 /\ ~place.open -> u.kind \in {"frame", "skippable", "junk"}
    [] place.payload = 0 /\ place.open -> u.kind = IF place.last THEN "checksum" ELSE "block"

\* The bytes are cut where a parser would cut them; the stream may end anywhere.
Parsed(wire) ==
  LET place[k \in 0..Len(wire)] == IF k = 0 THEN Outside ELSE PlaceAfter(place[k - 1], wire[k])
  IN  \A k \in DOMAIN wire : Belongs(place[k - 1], wire[k])

\* The bytes of a wire: byte i of unit k is <<k, i>>.
Bytes(wire) ==
  FlattenSeq([k \in DOMAIN wire |-> [i \in 1..wire[k].size |-> <<k, i>>]])

\* What parse_frame_header_with_format makes of n bytes that begin with unit u:
\* a header of its own kind once it is whole, and the verdict on a magic number
\* as soon as the magic is there.
MAGIC_SIZE == 4
parse_frame_header(u, n) ==
  CASE n < MAGIC_SIZE -> "UnexpectedEof"
    [] n >= MAGIC_SIZE /\ u.kind \notin {"frame", "skippable"} -> "BadMagic"
    [] n >= MAGIC_SIZE /\ u.kind \in {"frame", "skippable"} ->
         IF n < u.size THEN "UnexpectedEof" ELSE u.kind
=============================================================================
