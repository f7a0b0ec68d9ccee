--------------------------- MODULE MCStreamEncoder ---------------------------
(***************************************************************************)
(* Instances of StreamEncoder for TLC.  Windows of 2 or 3 bytes and blocks *)
(* of 2 or 3: a frame of 15 bytes is compacted several times.              *)
(***************************************************************************)
EXTENDS StreamEncoder

\* A contiguous encoder without pledge, checksum or long-distance matching.
Plain ==
  [block_size |-> 2, pledged_src_size |-> None, max_history_bytes |-> 3, rebase_period |-> 1,
   family |-> "fast", optimal |-> FALSE, ldm |-> FALSE, checksum |-> FALSE,
   write_content_size |-> TRUE, dict_len |-> 0, chunks |-> {2}, drains |-> {},
   kinds |-> {"Raw"}, max_content |-> 14, max_frames |-> 1]

With(over) == over @@ Plain

\* Layout: splits, pledges, checksums, several frames and a caller that drains.
Layout ==
  {With([block_size |-> 3, chunks |-> {2, 3}, drains |-> {3}, checksum |-> TRUE,
         kinds |-> {"Raw", "Compressed"}, max_content |-> 3, max_frames |-> 2]),
   With([block_size |-> 3, chunks |-> {1, 4, 5}, checksum |-> TRUE,
         kinds |-> {"Raw", "Compressed", "Split"}, max_content |-> 9])}
  \cup
  {With([block_size |-> b, pledged_src_size |-> n, write_content_size |-> w, chunks |-> {1, 2},
         kinds |-> {"Raw", "Compressed"}, max_content |-> 5]) :
     b \in {2, 4}, n \in {0, 2, 3, 4}, w \in BOOLEAN}

\* Positions: a finder of each family, cycles below the window, in the band the
\* slack is widened for, and beyond two windows and a block.
Positions ==
  {With([family |-> f, max_history_bytes |-> g[1], rebase_period |-> g[2],
         kinds |-> {"Raw", "Rle"}, chunks |-> {3}, max_content |-> 15]) :
     f \in {"chain", "tree"}, g \in {<<3, 2>>, <<2, 4>>, <<3, 8>>}}
  \cup {With([family |-> "row", kinds |-> {"Raw", "Rle"}, chunks |-> {3}, max_content |-> 15]),
        With([family |-> "tree", optimal |-> TRUE, max_history_bytes |-> 2, rebase_period |-> 4,
              kinds |-> {"Raw", "Rle"}, chunks |-> {3}, max_content |-> 12])}

\* A dictionary in front, and long-distance matching, with and without one; the
\* frame behind both is never compacted.
Far ==
  {With([family |-> "row", dict_len |-> 3, chunks |-> {1, 2}]),
   With([ldm |-> TRUE, chunks |-> {1, 2}]),
   With([ldm |-> TRUE, dict_len |-> 3, chunks |-> {1, 2}, max_content |-> 6])}

Encoders == Layout \cup Positions \cup Far

\* Hash chains, one block after another.
HashChains == {With([family |-> "chain", rebase_period |-> 8, max_content |-> 12])}

\* A dictionary and long-distance matching, over a frame that is compacted.
LdmDictionary == {With([ldm |-> TRUE, dict_len |-> 3, chunks |-> {1, 2}])}
=============================================================================
