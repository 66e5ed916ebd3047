----------------------------- MODULE PairMath -----------------------------
(***************************************************************************)
(* The arithmetic of src/Pair.sol: the four quotes that decide how many    *)
(* tokens a call moves, each a pure function of the pool (the base token   *)
(* reserves B, the fractional token reserves F and the LP supply L).       *)
(*                                                                         *)
(* An overflow or a division by zero reverts the call.  A quote is         *)
(* therefore a pair of operators: XxxQuote, the number returned, and       *)
(* XxxQuoteOk, which holds exactly when no intermediate result reverts.    *)
(***************************************************************************)
EXTENDS Uint

\* OpenZeppelin Math.sqrt: the integer square root, rounded down.
Sqrt(a) == CHOOSE s \in 0..a : s * s <= a /\ a < (s + 1) * (s + 1)

Most(a, b) == IF a > b THEN a ELSE b   \* mutation: max for min

\* OpenZeppelin Math.min.
Least(a, b) == IF a < b THEN a ELSE b

---------------------------------------------------------------------------
(* buyQuote: the base tokens to pay for `out` fractional tokens.           *)

BuyQuoteOk(out, B, F) ==
    /\ Fits(out * 1000)
    /\ Fits(out * 1000 * B)
    /\ out <= F                      \* checked subtraction
    /\ Fits((F - out) * 997)
    /\ F - out # 0                   \* division by zero

BuyQuoteFeeSwapped(out, B, F) ==   \* mutation: the fee on the wrong side
    (out * 997 * B) \div ((F - out) * 1000)

BuyQuote(out, B, F) == (out * 1000 * B) \div ((F - out) * 997)

(* sellQuote: the base tokens received for `in` fractional tokens.         *)

SellQuoteOk(in, B, F) ==
    /\ Fits(in * 997)
    /\ Fits(in * 997 * B)
    /\ Fits(F * 1000)
    /\ Fits(F * 1000 + in * 997)
    /\ F * 1000 + in * 997 # 0

SellQuoteUp(in, B, F) ==   \* mutation: rounded up
    (in * 997 * B + F * 1000 + in * 997 - 1) \div (F * 1000 + in * 997)

SellQuote(in, B, F) == (in * 997 * B) \div (F * 1000 + in * 997)

(* addQuote: the LP tokens minted for a deposit; the first deposit fixes   *)
(* the unit, the later ones get the smaller of the two shares they bring.  *)

AddQuoteOk(base, frac, B, F, L) ==
    IF L > 0
    THEN /\ Fits(base * L) /\ B # 0
         /\ Fits(frac * L) /\ F # 0
    ELSE Fits(base * frac)

AddQuote(base, frac, B, F, L) ==
    IF L > 0
    THEN Least((base * L) \div B, (frac * L) \div F)
    ELSE Sqrt(base * frac)

(* removeQuote: the base and fractional tokens paid out for `lp` LP tokens. *)

RemoveQuoteOk(lp, B, F, L) == L # 0 /\ Fits(B * lp) /\ Fits(F * lp)

RemoveBaseQuote(lp, B, L) == (B * lp) \div L
RemoveFracQuote(lp, F, L) == (F * lp) \div L
===========================================================================
