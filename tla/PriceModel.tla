----------------------------- MODULE PriceModel -----------------------------
(***************************************************************************)
(* The statistics the optimal parser prices symbols from (src/window/opt.rs *)
(* OptimalPriceModel, src/window/internal.rs OptimalPriceState).  A model  *)
(* is made for every block, from the frame's last one, a dictionary's      *)
(* tables or the block's own bytes, counts what the parser emits, and is   *)
(* handed on.  A price is a base less a weight in unsigned arithmetic,     *)
(* read in the middle of the block: the bases are right only as long as    *)
(* every sum, base and cached price has followed every count, the smaller  *)
(* blocks (priced from formulas) have counted for the larger ones behind   *)
(* them, and no sum has outgrown the shift inside a weight.                *)
(*                                                                         *)
(* The three kinds of sequence code are counted and priced alike, and one  *)
(* stands for them.                                                        *)
(***************************************************************************)
EXTENDS Integers, FiniteSets

CONSTANTS
  PricedBytes,              \* the bytes a literal may have
  PricedCodes,              \* the codes of a sequence part
  BaseFrequencies,          \* optimal_base_ll_frequencies and its like
  PriceFrames,              \* [ultra, twice, compressed, seed] of a frame
  OPT_PRICE_ACCURACY_LOG,
  OPT_LITERAL_FREQ_ADD,
  OPT_PREDEFINED_THRESHOLD, \* a block no longer is priced from formulas
  LITERAL_TARGET_LOG,       \* rescale: what a sum is brought down to
  CODE_TARGET_LOG,
  WIDTH,                    \* the bits of an unsigned word
  PARSED_MIN,               \* MIN_MATCH: a shorter block is not parsed
  PricedBlocks,             \* [byte -> how often], the blocks
  LiteralRuns,              \* bound: how often a byte is among a sequence's literals
  MaxPricedBlocks           \* bound: blocks parsed in a frame

VARIABLES
  price_frame,      \* the frame's parameters
  opt_price_state,  \* what the last block handed on, or NoStats
  price_model,      \* the block's model, or NoModel between blocks
  left,             \* the bytes of the block not yet emitted
  pass,             \* "count" and then "again" for btultra2's first block, else "plan"
  counted,          \* the block to plan again
  priced            \* blocks parsed so far

priceVars == <<price_frame, opt_price_state, price_model, left, pass, counted, priced>>

NoStats == <<>>
NoModel == <<>>

\* 1 << n.
Bit[n \in Nat] == IF n = 0 THEN 1 ELSE 2 * Bit[n - 1]

\* The sum of a list of counts, in whatever order.
Total(freq) ==
  LET total[S \in SUBSET DOMAIN freq] ==
        IF S = {} THEN 0 ELSE LET s == CHOOSE s \in S : TRUE IN freq[s] + total[S \ {s}]
  IN  total[DOMAIN freq]

OPT_PRICE_UNIT == Bit[OPT_PRICE_ACCURACY_LOG]

highbit(n) == CHOOSE k \in 0..WIDTH : Bit[k] <= n /\ n < Bit[k + 1]

ASSUME PriceAssumption ==
  /\ IsFiniteSet(PricedBytes) /\ IsFiniteSet(PricedCodes)
  /\ BaseFrequencies \in [PricedCodes -> Nat]
  /\ PriceFrames \subseteq
       [ultra : BOOLEAN, twice : BOOLEAN, compressed : BOOLEAN,
        seed : {NoStats} \cup [huffman : [PricedBytes -> Nat], codes : [PricedCodes -> Nat]]]
  /\ {OPT_PRICE_ACCURACY_LOG, OPT_LITERAL_FREQ_ADD, OPT_PREDEFINED_THRESHOLD, WIDTH} \subseteq Nat
  /\ {LITERAL_TARGET_LOG, CODE_TARGET_LOG, PARSED_MIN} \subseteq Nat \ {0}
  /\ PricedBlocks \subseteq [PricedBytes -> Nat] /\ LiteralRuns \subseteq Nat

\* A count whose weight is computed without losing bits.
Fits(n) == (n + 1) * OPT_PRICE_UNIT < Bit[WIDTH]

\* What a sum starts from at most: scaled to its target, a seed's half of it for each
\* symbol, or what the block or the base frequencies have of their own.
Starts(symbols, log, own) ==
  {Cardinality(symbols) + Bit[log + 1], Cardinality(symbols) * Bit[log - 1], own}

\* The word is wide enough for any one block: for what its sums start from and all that
\* its bytes can add.
ASSUME WidthAssumption ==
  \A block \in PricedBlocks :
    /\ \A n \in Starts(PricedBytes, LITERAL_TARGET_LOG, Cardinality(PricedBytes) + Total(block)) :
         Fits(n + OPT_LITERAL_FREQ_ADD * Total(block))
    /\ \A n \in Starts(PricedCodes, CODE_TARGET_LOG, Total(BaseFrequencies)) :
         Fits(n + Total(block))

------------------------------------------------------------------------------
(* Weights.                                                                *)

\* optimal_bit_weight, optimal_fractional_weight: the shift keeps the word's width.
weight(stat) ==
  LET hb == highbit(stat + 1)
  IN  hb * OPT_PRICE_UNIT
      + IF price_frame.ultra THEN (((stat + 1) * OPT_PRICE_UNIT) % Bit[WIDTH]) \div Bit[hb] ELSE 0

\* set_base_prices: the literals' base is left alone when literals are not coded, the
\* cached prices when the block is priced from formulas.
set_base_prices(model) ==
  [model EXCEPT
     !.code_base = weight(model.code_sum),
     !.lit_base  = IF price_frame.compressed THEN weight(model.lit_sum) ELSE @,
     !.by_code   = IF model.type = "Predefined" THEN @
                   ELSE [c \in PricedCodes |-> weight(model.code_sum) - weight(model.code_freq[c])]]

Unpriced == [c \in PricedCodes |-> 0]

Made(type, stats) ==
  set_base_prices([type |-> type, lit_freq |-> stats.lit_freq, lit_sum |-> stats.lit_sum,
                   code_freq |-> stats.code_freq, code_sum |-> stats.code_sum,
                   lit_base |-> 0, code_base |-> 0, by_code |-> Unpriced])

------------------------------------------------------------------------------
(* Where a block's model comes from.                                       *)

NoLiterals == [b \in PricedBytes |-> 0]

\* Dictionary::optimal_price_seed: a count for each symbol from the bits its table
\* gives it, one where it gives none.
optimal_price_seed(bits, scale) ==
  [s \in DOMAIN bits |-> IF bits[s] > 0 THEN Bit[IF bits[s] > scale THEN 0 ELSE scale - bits[s]] ELSE 1]

FromSeed(seed) ==
  LET lits  == IF price_frame.compressed THEN optimal_price_seed(seed.huffman, LITERAL_TARGET_LOG - 1)
               ELSE NoLiterals
      codes == optimal_price_seed(seed.codes, CODE_TARGET_LOG - 1)
  IN  Made("Dynamic", [lit_freq |-> lits, lit_sum |-> Total(lits),
                       code_freq |-> codes, code_sum |-> Total(codes)])

\* Mutant of CountBytes: a block priced from formulas is not counted.
CountBytesIfDynamic(block, type) ==
  [b \in PricedBytes |-> IF block[b] # 0 /\ price_frame.compressed /\ type = "Dynamic"
                         THEN 1 + (block[b] \div 256) ELSE 0]

\* OptimalPriceModel::new: the bytes of the block, halved eight times, those it has
\* kept at one; whatever the block is priced from.
CountBytes(block, type) ==
  [b \in PricedBytes |-> IF block[b] # 0 /\ price_frame.compressed THEN 1 + (block[b] \div 256) ELSE 0]

FromBlock(block) ==
  LET type == IF Total(block) <= OPT_PREDEFINED_THRESHOLD THEN "Predefined" ELSE "Dynamic"
      lits == CountBytes(block, type)
  IN  Made(type, [lit_freq |-> lits, lit_sum |-> Total(lits),
                  code_freq |-> BaseFrequencies, code_sum |-> Total(BaseFrequencies)])

\* OptimalPriceState::scale_stats
scale_stats(freq, log_target) ==
  LET factor == Total(freq) \div Bit[log_target]
  IN  IF factor <= 1 THEN freq ELSE [s \in DOMAIN freq |-> 1 + (freq[s] \div Bit[highbit(factor)])]

\* rescale, from_persisted_state
FromState(stats) ==
  LET lits  == scale_stats(stats.lit_freq, LITERAL_TARGET_LOG)
      codes == scale_stats(stats.code_freq, CODE_TARGET_LOG)
  IN  Made("Dynamic", [lit_freq |-> lits, lit_sum |-> Total(lits),
                       code_freq |-> codes, code_sum |-> Total(codes)])

------------------------------------------------------------------------------
(* The life of a model.                                                    *)

PriceInit ==
  /\ price_frame \in PriceFrames
  /\ opt_price_state = NoStats /\ price_model = NoModel
  /\ left = NoLiterals /\ pass = "plan" /\ counted = NoLiterals /\ priced = 0

\* plan_sequences_optimal_*_into: entry.  Where btultra2 opens a frame without a
\* dictionary, seed_optimal_prices_from_first_block has the block parsed twice, the
\* first time for its statistics alone.
BeginParse ==
  /\ price_model = NoModel /\ priced < MaxPricedBlocks
  /\ \E block \in IF pass = "again" THEN {counted} ELSE PricedBlocks :
       /\ Total(block) >= PARSED_MIN
       /\ IF /\ price_frame.twice /\ priced = 0 /\ pass # "again"
             /\ Total(block) > OPT_PREDEFINED_THRESHOLD
          THEN pass' = "count" /\ counted' = block
          ELSE pass' = "plan" /\ counted' = NoLiterals
       /\ left' = block
       /\ price_model' = IF opt_price_state # NoStats THEN FromState(opt_price_state)
                         ELSE IF price_frame.seed # NoStats THEN FromSeed(price_frame.seed)
                         ELSE FromBlock(block)
  /\ opt_price_state' = NoStats
  /\ UNCHANGED <<price_frame, priced>>

\* update_stats: the literals of one sequence and its codes; the rest of the bytes
\* go into its match.
update_stats(model, literals, code) ==
  LET lits == IF price_frame.compressed
              THEN [b \in PricedBytes |-> model.lit_freq[b] + OPT_LITERAL_FREQ_ADD * literals[b]]
              ELSE model.lit_freq
      codes == [model.code_freq EXCEPT ![code] = @ + 1]
  IN  set_base_prices([model EXCEPT !.lit_freq = lits,
                         !.lit_sum = @ + Total(lits) - Total(model.lit_freq),
                         !.code_freq = codes, !.code_sum = @ + 1])

EmitPriced ==
  /\ price_model # NoModel
  /\ \E literals \in [PricedBytes -> LiteralRuns], matched \in PricedBytes, code \in PricedCodes :
       /\ \A b \in PricedBytes : literals[b] <= left[b]
       /\ left[matched] - literals[matched] >= PARSED_MIN
       /\ left' = [b \in PricedBytes |->
                     left[b] - literals[b] - (IF b = matched THEN PARSED_MIN ELSE 0)]
       /\ price_model' = update_stats(price_model, literals, code)
  /\ UNCHANGED <<price_frame, opt_price_state, pass, counted, priced>>

\* to_persisted_state: at the end of the block, and of the pass that only counted.
EndParse ==
  /\ price_model # NoModel
  /\ opt_price_state' = [lit_freq |-> price_model.lit_freq, code_freq |-> price_model.code_freq]
  /\ price_model' = NoModel /\ left' = NoLiterals
  /\ IF pass = "count" THEN pass' = "again" /\ UNCHANGED priced
     ELSE priced' = priced + 1 /\ UNCHANGED pass
  /\ UNCHANGED <<price_frame, counted>>

\* clear_frame_parser_state
ClearFrame ==
  /\ price_model = NoModel /\ priced > 0 /\ pass = "plan"
  /\ price_frame' \in PriceFrames
  /\ opt_price_state' = NoStats /\ priced' = 0
  /\ UNCHANGED <<price_model, left, pass, counted>>

PriceNext == BeginParse \/ EmitPriced \/ EndParse \/ ClearFrame

PriceSpec == PriceInit /\ [][PriceNext]_priceVars

------------------------------------------------------------------------------
\* No price is read that would wrap: from a model that prices by its counts, every
\* sum is that of its counts, no symbol outweighs its sum, a coded literal's base
\* covers the unit it may not fall below (the assertion in literal_byte_price), and
\* the bases and cached prices are those of the counts as they stand.
PricesNeverWrap ==
  price_model # NoModel /\ price_model.type = "Dynamic" =>
    /\ price_model.code_sum = Total(price_model.code_freq)
    /\ price_model.code_base = weight(price_model.code_sum)
    /\ \A c \in PricedCodes :
         /\ weight(price_model.code_freq[c]) <= price_model.code_base
         /\ price_model.by_code[c] = price_model.code_base - weight(price_model.code_freq[c])
    /\ price_frame.compressed =>
         /\ price_model.lit_sum = Total(price_model.lit_freq)
         /\ price_model.lit_base = weight(price_model.lit_sum)
         /\ price_model.lit_base >= OPT_PRICE_UNIT
         /\ \A b \in PricedBytes : weight(price_model.lit_freq[b]) <= price_model.lit_base
=============================================================================
