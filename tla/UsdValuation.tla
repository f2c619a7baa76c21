------------------------------ MODULE UsdValuation ------------------------------
(***************************************************************************)
(* The value in USD that a creator's tokens are credited at, from a Pyth   *)
(* price update.  A price is a record [price, expo] and stands for         *)
(* price * 10^expo.  utils.rs does not look at the update's age, so that   *)
(* any update ever published will do.                                      *)
(***************************************************************************)
EXTENDS Integers

CONSTANT U64_MAX

\* Mutant: the decimals that a token has beyond those of USD are not taken off.
NormalizeUpOnly(amount, from_decimals, to_decimals) ==
  IF from_decimals < to_decimals THEN amount * 10^(to_decimals - from_decimals) ELSE amount

\* normalize_token_amount of utils.rs: the amount in units of to_decimals.
NormalizeTokenAmount(amount, from_decimals, to_decimals) ==
  IF from_decimals < to_decimals THEN amount * 10^(to_decimals - from_decimals)
                                 ELSE amount \div 10^(from_decimals - to_decimals)

\* A price that does not fit becomes 0, without an error.
NormalizedPrice(info, decimals) ==
  LET diff == decimals + info.expo
  IN  IF diff < 0 THEN info.price \div 10^(-diff)
      ELSE IF info.price * 10^diff > U64_MAX THEN 0 ELSE info.price * 10^diff

\* Negative prices and overflowing amounts are errors of the instruction.
CanConvert(amount, decimals, info, usd_decimals) ==
  LET normalized == NormalizeTokenAmount(amount, decimals, usd_decimals)
  IN  /\ info.price >= 0
      /\ normalized <= U64_MAX
      /\ normalized * NormalizedPrice(info, usd_decimals) <= U64_MAX

\* One of the two amounts of convert_amounts_to_usd.
ConvertToUsd(amount, decimals, info, usd_decimals) ==
  (NormalizeTokenAmount(amount, decimals, usd_decimals)
     * NormalizedPrice(info, usd_decimals)) \div 10^usd_decimals
==============================================================================
