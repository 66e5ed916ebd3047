---------------------------- MODULE PairProofs ----------------------------
(***************************************************************************)
(* The invariants of a pair, for any number of accounts and NFTs and for   *)
(* every word size, amount and bound; and that a pair implements the vault *)
(* of NftVault: each of its steps is one of the vault or leaves the        *)
(* state of the vault alone.                                               *)
(***************************************************************************)
EXTENDS PairVault, PairMathProofs

\* The types that the steps need: amounts are natural numbers.  That they fit
\* the word (TypeOK) follows from the sums.
TypesNat ==
    /\ balanceOf \in [Accounts -> Nat] /\ totalSupply \in 0..MaxUint
    /\ lpBalanceOf \in [Accounts -> Nat] /\ lpTotalSupply \in 0..MaxUint
    /\ baseOf \in [Accounts -> Nat]
    /\ ownerOf \in [NFTs -> Accounts]
    /\ closeTimestamp \in Nat /\ registered \in BOOLEAN
    /\ owner \in Owners /\ now \in Nat \ {0}

\* The inductive invariant.  Types need LedgersAddUp (a removal pays out of the
\* reserve because nobody holds more LP tokens than exist), Backed needs
\* ListedWhileOpen (a second close would start a new notice after NFTs have
\* been withdrawn), and a swap needs PoolNeverDrained to leave something.
IInv == /\ TypesNat
        /\ LedgersAddUp
        /\ ListedWhileOpen
        /\ Backed
        /\ PoolNeverDrained
        /\ NoOrphanedEther

\* The accounts, the pair's own among them, are finitely many.
LEMMA AccountsFinite ==
  /\ IsFiniteSet(Accounts)
  /\ PAIR \in Accounts
  /\ \A u \in Users : u \in Accounts /\ u # PAIR
  BY PairAssumption, FS_AddElement DEF Accounts

\* A set of token ids is worth a natural number of fractional units.
LEMMA FractionsNat ==
  ASSUME NEW ids \in SUBSET NFTs
  PROVE  /\ IsFiniteSet(ids) /\ Cardinality(ids) \in Nat
         /\ Fractions(ids) \in Nat
  <1>1. IsFiniteSet(ids) /\ Cardinality(ids) \in Nat
    BY PairAssumption, FS_Subset, FS_CardinalityType
  <1> QED
    BY <1>1, PairAssumption, ProductNat DEF Fractions

---------------------------------------------------------------------------
(* The reserves that a call sees, and what it does to them.                *)

\* The value of the call is not counted into the reserves it trades against.
LEMMA ReservesOfCall ==
  ASSUME TypesNat, NEW u \in Users, NEW value \in Nat, value <= baseOf[u],
         ~NativeBase => value = 0
  PROVE  /\ Credited(u, value) \in [Accounts -> Nat]
         /\ Credited(u, value)[PAIR] = BaseReserves + value
         /\ Credited(u, value)[u] = baseOf[u] - value
         /\ BaseTokenReserves(Credited(u, value), value) = BaseReserves
  <1>1. /\ Credited(u, value) \in [Accounts -> Nat]
        /\ Credited(u, value)[PAIR] = baseOf[PAIR] + value
        /\ Credited(u, value)[u] = baseOf[u] - value
    BY AccountsFinite, PayFacts DEF Credited, TypesNat
  <1> QED
    BY <1>1, AccountsFinite DEF BaseTokenReserves, BaseReserves, TypesNat

\* add: the whole deposit enters the reserves, and LP tokens are minted for it.
LEMMA AddFacts ==
  ASSUME TypesNat, LedgersAddUp,
         NEW bal \in [Accounts -> Nat], Total(bal) <= MaxUint,
         NEW u \in Users, NEW base \in Nat, NEW frac \in Nat, NEW minLp \in Nat,
         AddLiquidity(bal, u, base, frac, minLp, EtherFor(base))
  PROVE  /\ balanceOf' \in [Accounts -> Nat] /\ Total(balanceOf') = Total(bal)
         /\ lpBalanceOf' \in [Accounts -> Nat]
         /\ lpTotalSupply' \in 0..MaxUint /\ lpTotalSupply' = Total(lpBalanceOf')
         /\ baseOf' \in [Accounts -> Nat]
         /\ base > 0 /\ BaseReserves' = BaseReserves + base
         /\ frac > 0 /\ FractionalTokenReserves' = bal[PAIR] + frac
         /\ AddQuoteOk(base, frac, BaseReserves, bal[PAIR], lpTotalSupply)
         /\ lpTotalSupply' = lpTotalSupply
                + AddQuote(base, frac, BaseReserves, bal[PAIR], lpTotalSupply)
  <1> DEFINE value == EtherFor(base)
             B  == BaseTokenReserves(Credited(u, value), value)
             lp == AddQuote(base, frac, BaseReserves, bal[PAIR], lpTotalSupply)
  <1>1. value \in Nat /\ value <= baseOf[u] /\ (~NativeBase => value = 0)
    BY AccountsFinite DEF EtherFor, AddLiquidity, TypesNat
  <1>2. B = BaseReserves
    BY <1>1, ReservesOfCall
  <1>3. /\ base > 0 /\ frac > 0
        /\ base <= baseOf[u]
        /\ CanDebit(bal, u, frac)
        /\ AddQuoteOk(base, frac, BaseReserves, bal[PAIR], lpTotalSupply)
        /\ SupplyMinted(lpTotalSupply, lp) <= MaxLpSupply
        /\ balanceOf' = TransferFrom(bal, u, PAIR, frac)
        /\ lpBalanceOf' = Minted(lpBalanceOf, u, lp)
        /\ lpTotalSupply' = SupplyMinted(lpTotalSupply, lp)
        /\ baseOf' = IF NativeBase THEN Credited(u, value)
                                   ELSE Pay(baseOf, u, PAIR, base)
    BY <1>2 DEF AddLiquidity
  <1>4. lp \in Nat
    <2>1. BaseReserves \in Nat /\ bal[PAIR] \in Nat /\ lpTotalSupply \in Nat
      BY AccountsFinite DEF TypesNat, BaseReserves
    <2> QED
      BY <1>3, <2>1, AddShare
  <1>5. /\ balanceOf' \in [Accounts -> Nat] /\ Total(balanceOf') = Total(bal)
        /\ balanceOf'[PAIR] = bal[PAIR] + frac
    BY <1>3, AccountsFinite, TransferFromTotal
  <1>6. lpTotalSupply + lp <= MaxUint
    BY <1>3, <1>4, BoundsAssumption, MaxUintAssumption DEF SupplyMinted, TypesNat
  <1>7. /\ lpBalanceOf' \in [Accounts -> Nat]
        /\ Total(lpBalanceOf') = Total(lpBalanceOf) + lp
    <2> HIDE DEF lp
    <2> QED
      BY <1>3, <1>4, <1>6, AccountsFinite, MintedTotal DEF TypesNat, LedgersAddUp
  <1>8. baseOf' \in [Accounts -> Nat] /\ baseOf'[PAIR] = BaseReserves + base
    <2>1. CASE NativeBase
      <3>1. value = base
        BY <2>1 DEF EtherFor
      <3> QED
        BY <1>1, <1>3, <2>1, <3>1, ReservesOfCall
    <2>2. CASE ~NativeBase
      BY <1>3, <2>2, AccountsFinite, PayFacts DEF TypesNat, BaseReserves
    <2> QED
      BY <2>1, <2>2
  <1>9. lpTotalSupply' \in 0..MaxUint /\ lpTotalSupply' = Total(lpBalanceOf')
    <2> HIDE DEF lp
    <2> QED
      BY <1>3, <1>4, <1>6, <1>7 DEF SupplyMinted, TypesNat, LedgersAddUp
  <1> QED
    BY <1>3, <1>5, <1>7, <1>8, <1>9
    DEF SupplyMinted, BaseReserves, FractionalTokenReserves

\* remove: each reserve pays out its share, and the LP tokens are burned.
LEMMA RemoveFacts ==
  ASSUME TypesNat, LedgersAddUp,
         NEW u \in Users, NEW lp \in Nat, NEW minBase \in Nat, NEW minFrac \in Nat,
         RemoveLiquidity(u, lp, minBase, minFrac)
  PROVE  LET B == BaseReserves
             F == FractionalTokenReserves
             L == lpTotalSupply
             after == RemoveBalances(u, lp)
         IN  /\ L # 0 /\ lp <= L
             /\ after \in [Accounts -> Nat] /\ Total(after) = Total(balanceOf)
             /\ after[PAIR] = F - (F * lp) \div L
             /\ lpBalanceOf' \in [Accounts -> Nat]
             /\ lpTotalSupply' \in 0..MaxUint
             /\ lpTotalSupply' = Total(lpBalanceOf') /\ lpTotalSupply' = L - lp
             /\ baseOf' \in [Accounts -> Nat]
             /\ BaseReserves' = B - (B * lp) \div L
  <1> DEFINE B == BaseReserves
             F == FractionalTokenReserves
             L == lpTotalSupply
             baseOut == (B * lp) \div L
             fracOut == (F * lp) \div L
  <1>1. BaseTokenReserves(baseOf, 0) = B
    BY AccountsFinite DEF BaseTokenReserves, BaseReserves, TypesNat
  <1>2. /\ L # 0
        /\ lp <= lpBalanceOf[u]
        /\ lpBalanceOf' = Burned(lpBalanceOf, u, lp)
        /\ lpTotalSupply' = SupplyBurned(L, lp)
        /\ baseOf' = Pay(baseOf, PAIR, u, baseOut)
    BY <1>1 DEF RemoveLiquidity, RemoveQuoteOk, RemoveBaseQuote
  <1>3. B \in Nat /\ F \in Nat /\ L \in Nat \ {0} /\ L <= MaxUint
    BY <1>2, AccountsFinite, MaxUintAssumption
    DEF TypesNat, BaseReserves, FractionalTokenReserves
  <1>4. /\ lpBalanceOf' \in [Accounts -> Nat]
        /\ Total(lpBalanceOf') = L - lp
        /\ lp <= L
    BY <1>2, AccountsFinite, BurnedTotal DEF CanDebit, TypesNat, LedgersAddUp
  <1>5. SupplyBurned(L, lp) = L - lp
    <2>1. L - lp \in Nat /\ L - lp <= MaxUint
      BY <1>3, <1>4, MaxUintAssumption
    <2> QED
      BY <2>1, UncheckedFits DEF SupplyBurned
  <1>6. baseOut \in 0..B /\ fracOut \in 0..F
    BY <1>3, <1>4, RemoveShare
  <1>7. baseOf' \in [Accounts -> Nat] /\ baseOf'[PAIR] = B - baseOut
    <2>1. baseOut \in Nat /\ baseOut <= baseOf[PAIR]
      BY <1>3, <1>6 DEF BaseReserves
    <2> HIDE DEF baseOut
    <2> QED
      BY <1>2, <2>1, AccountsFinite, PayFacts DEF TypesNat, BaseReserves
  <1>8. /\ RemoveBalances(u, lp) \in [Accounts -> Nat]
        /\ Total(RemoveBalances(u, lp)) = Total(balanceOf)
        /\ RemoveBalances(u, lp)[PAIR] = F - fracOut
    <2>1. fracOut \in Nat /\ CanDebit(balanceOf, PAIR, fracOut)
      BY <1>3, <1>6 DEF CanDebit, FractionalTokenReserves
    <2>2. RemoveBalances(u, lp) = TransferFrom(balanceOf, PAIR, u, fracOut)
      BY DEF RemoveBalances, RemoveFracQuote
    <2>3. Total(balanceOf) <= MaxUint
      BY MaxUintAssumption DEF LedgersAddUp, TypesNat
    <2> HIDE DEF fracOut
    <2> QED
      BY <2>1, <2>2, <2>3, AccountsFinite, TransferFromTotal
      DEF TypesNat, FractionalTokenReserves
  <1>9. lpTotalSupply' \in 0..MaxUint /\ lpTotalSupply' = L - lp
    BY <1>2, <1>3, <1>4, <1>5, MaxUintAssumption
  <1> QED
    BY <1>2, <1>4, <1>7, <1>8, <1>9 DEF BaseReserves

\* buy: the price enters the base reserve, ether sent beyond it goes back.
LEMMA BuyFacts ==
  ASSUME TypesNat, LedgersAddUp,
         NEW u \in Users, NEW out \in Nat, NEW maxInput \in Nat,
         BuyFractions(u, out, maxInput, EtherFor(maxInput))
  PROVE  LET B == BaseReserves
             F == FractionalTokenReserves
             after == BuyBalances(u, out)
         IN  /\ BuyQuoteOk(out, B, F)
             /\ after \in [Accounts -> Nat] /\ Total(after) = Total(balanceOf)
             /\ after[PAIR] = F - out
             /\ baseOf' \in [Accounts -> Nat]
             /\ BaseReserves' = B + BuyQuote(out, B, F)
             /\ UNCHANGED lpToken
  <1> DEFINE value == EtherFor(maxInput)
             B == BaseReserves
             F == FractionalTokenReserves
  <1>1. value \in Nat /\ value <= baseOf[u] /\ (~NativeBase => value = 0)
    BY AccountsFinite DEF EtherFor, BuyFractions, TypesNat
  <1>2. BaseTokenReserves(Credited(u, value), value) = B
    BY <1>1, ReservesOfCall
  <1>3. B \in Nat /\ F \in Nat /\ baseOf[u] \in Nat
    BY AccountsFinite DEF TypesNat, BaseReserves, FractionalTokenReserves
  <1>4. BuyQuoteOk(out, B, F) /\ out < F /\ BuyQuote(out, B, F) \in Nat
    BY <1>2, <1>3, BuyCurve DEF BuyFractions
  <1>5. PICK in \in Nat : in = BuyQuote(out, B, F)
    BY <1>4
  <1>6. /\ in <= maxInput /\ in <= baseOf[u]
        /\ baseOf' = IF NativeBase
                     THEN Pay(Credited(u, value), PAIR, u, maxInput - in)
                     ELSE Pay(baseOf, u, PAIR, in)
        /\ UNCHANGED lpToken
    BY <1>2, <1>5 DEF BuyFractions, Refund
  <1>7. baseOf' \in [Accounts -> Nat] /\ baseOf'[PAIR] = B + in
    <2>1. CASE NativeBase
      <3>1. value = maxInput
        BY <2>1 DEF EtherFor
      <3>2. PICK held \in [Accounts -> Nat] :
              held = Credited(u, value) /\ held[PAIR] = B + value
        BY <1>1, ReservesOfCall
      <3>3. maxInput - in \in Nat /\ maxInput - in <= held[PAIR]
        BY <1>3, <1>6, <3>1, <3>2
      <3>4. /\ baseOf' \in [Accounts -> Nat]
            /\ baseOf'[PAIR] = held[PAIR] - (maxInput - in)
        BY <1>6, <2>1, <3>2, <3>3, AccountsFinite, PayFacts
      <3> QED
        BY <1>3, <3>1, <3>2, <3>4
    <2>2. CASE ~NativeBase
      BY <1>6, <2>2, AccountsFinite, PayFacts DEF TypesNat, BaseReserves
    <2> QED
      BY <2>1, <2>2
  <1>8. /\ BuyBalances(u, out) \in [Accounts -> Nat]
        /\ Total(BuyBalances(u, out)) = Total(balanceOf)
        /\ BuyBalances(u, out)[PAIR] = F - out
    <2>1. CanDebit(balanceOf, PAIR, out)
      BY <1>3, <1>4 DEF CanDebit, FractionalTokenReserves
    <2>2. Total(balanceOf) <= MaxUint
      BY MaxUintAssumption DEF LedgersAddUp, TypesNat
    <2> QED
      BY <2>1, <2>2, AccountsFinite, TransferFromTotal
      DEF TypesNat, BuyBalances, FractionalTokenReserves
  <1> QED
    BY <1>4, <1>5, <1>6, <1>7, <1>8 DEF BaseReserves

\* sell: the fractions enter the reserve, the price leaves the base reserve.
LEMMA SellFacts ==
  ASSUME TypesNat, NEW bal \in [Accounts -> Nat], Total(bal) <= MaxUint,
         NEW u \in Users, NEW in \in Nat, NEW minOut \in Nat,
         SellFractions(bal, u, in, minOut)
  PROVE  LET B == BaseReserves
             F == bal[PAIR]
         IN  /\ SellQuoteOk(in, B, F)
             /\ balanceOf' \in [Accounts -> Nat] /\ Total(balanceOf') = Total(bal)
             /\ FractionalTokenReserves' = F + in
             /\ baseOf' \in [Accounts -> Nat]
             /\ BaseReserves' = B - SellQuote(in, B, F)
             /\ UNCHANGED lpToken
  <1> DEFINE B == BaseReserves
             F == bal[PAIR]
  <1>1. BaseTokenReserves(baseOf, 0) = B
    BY AccountsFinite DEF BaseTokenReserves, BaseReserves, TypesNat
  <1>2. B \in Nat /\ F \in Nat
    BY AccountsFinite DEF TypesNat, BaseReserves
  <1>3. SellQuoteOk(in, B, F) /\ SellQuote(in, B, F) \in 0..B
    BY <1>1, <1>2, SellCurve DEF SellFractions
  <1>4. PICK out \in 0..B : out = SellQuote(in, B, F)
    BY <1>3
  <1>5. /\ CanDebit(bal, u, in)
        /\ balanceOf' = TransferFrom(bal, u, PAIR, in)
        /\ baseOf' = Pay(baseOf, PAIR, u, out)
        /\ UNCHANGED lpToken
    BY <1>1, <1>4 DEF SellFractions
  <1>6. baseOf' \in [Accounts -> Nat] /\ baseOf'[PAIR] = B - out
    <2>1. out \in Nat /\ out <= baseOf[PAIR]
      BY <1>2, <1>4 DEF BaseReserves
    <2> QED
      BY <1>5, <2>1, AccountsFinite, PayFacts DEF TypesNat, BaseReserves
  <1>7. /\ balanceOf' \in [Accounts -> Nat] /\ Total(balanceOf') = Total(bal)
        /\ balanceOf'[PAIR] = F + in
    BY <1>5, AccountsFinite, TransferFromTotal
  <1> QED
    BY <1>3, <1>4, <1>5, <1>6, <1>7 DEF BaseReserves, FractionalTokenReserves

---------------------------------------------------------------------------
(* The NFTs that the contract holds, and the units they back.              *)

\* wrap: as many units are minted as the NFTs that enter are worth.
LEMMA WrapFacts ==
  ASSUME TypesNat, LedgersAddUp,
         NEW u \in Users, NEW ids \in SUBSET NFTs, WrapNfts(u, ids)
  PROVE  LET after == WrapBalances(u, ids)
         IN  /\ after \in [Accounts -> Nat] /\ Total(after) = totalSupply'
             /\ after[PAIR] = FractionalTokenReserves
             /\ totalSupply' \in 0..MaxUint
             /\ totalSupply' = totalSupply + Fractions(ids)
             /\ ownerOf' \in [NFTs -> Accounts]
             /\ Held' = Held \cup ids /\ Held \cap ids = {}
             /\ closeTimestamp = 0 /\ UNCHANGED lifecycle
  <1>1. Fractions(ids) \in Nat
    BY FractionsNat
  <1>2. /\ totalSupply' = totalSupply + Fractions(ids)
        /\ totalSupply + Fractions(ids) <= MaxUint
        /\ totalSupply' \in 0..MaxUint
    BY <1>1, MaxUintAssumption DEF WrapNfts, Fits, SupplyMinted, TypesNat
  <1>3. /\ WrapBalances(u, ids) \in [Accounts -> Nat]
        /\ WrapBalances(u, ids)
              = [balanceOf EXCEPT ![u] = balanceOf[u] + Fractions(ids)]
        /\ Total(WrapBalances(u, ids)) = Total(balanceOf) + Fractions(ids)
    BY <1>1, <1>2, AccountsFinite, MintedTotal
    DEF WrapBalances, TypesNat, LedgersAddUp
  <1>4. WrapBalances(u, ids)[PAIR] = FractionalTokenReserves
    BY <1>3, AccountsFinite DEF TypesNat, FractionalTokenReserves
  <1>5. ownerOf' \in [NFTs -> Accounts]
    BY AccountsFinite DEF WrapNfts, TypesNat
  <1>6. Held' = Held \cup ids /\ Held \cap ids = {}
    BY AccountsFinite DEF WrapNfts, Held
  <1> QED
    BY <1>2, <1>3, <1>4, <1>5, <1>6 DEF WrapNfts, LedgersAddUp

\* unwrap: the units burned are what the NFTs that leave are worth.
LEMMA UnwrapFacts ==
  ASSUME TypesNat,
         NEW bal \in [Accounts -> Nat], Total(bal) = totalSupply,
         NEW u \in Users, NEW ids \in SUBSET NFTs, UnwrapNfts(bal, u, ids)
  PROVE  /\ balanceOf' \in [Accounts -> Nat] /\ Total(balanceOf') = totalSupply'
         /\ FractionalTokenReserves' = bal[PAIR]
         /\ totalSupply' \in 0..MaxUint
         /\ totalSupply' = totalSupply - Fractions(ids)
         /\ ownerOf' \in [NFTs -> Accounts]
         /\ Held' = Held \ ids /\ ids \subseteq Held
         /\ UNCHANGED lifecycle
  <1>1. Fractions(ids) \in Nat
    BY FractionsNat
  <1>2. /\ balanceOf' \in [Accounts -> Nat]
        /\ balanceOf' = [bal EXCEPT ![u] = bal[u] - Fractions(ids)]
        /\ Total(balanceOf') = totalSupply - Fractions(ids)
        /\ Fractions(ids) <= totalSupply
    BY <1>1, AccountsFinite, BurnedTotal DEF UnwrapNfts
  <1>3. totalSupply' = totalSupply - Fractions(ids) /\ totalSupply' \in 0..MaxUint
    <2>1. /\ totalSupply - Fractions(ids) \in Nat
          /\ totalSupply - Fractions(ids) <= MaxUint
      BY <1>1, <1>2, MaxUintAssumption DEF TypesNat
    <2>2. Unchecked(totalSupply - Fractions(ids)) = totalSupply - Fractions(ids)
      BY <2>1, UncheckedFits
    <2> QED
      BY <2>1, <2>2, MaxUintAssumption DEF UnwrapNfts, SupplyBurned
  <1>4. balanceOf'[PAIR] = bal[PAIR]
    BY <1>2, AccountsFinite
  <1>5. ownerOf' \in [NFTs -> Accounts]
    BY AccountsFinite DEF UnwrapNfts, TypesNat
  <1>6. Held' = Held \ ids /\ ids \subseteq Held
    BY AccountsFinite DEF UnwrapNfts, Held
  <1> QED
    BY <1>2, <1>3, <1>4, <1>5, <1>6 DEF UnwrapNfts, FractionalTokenReserves

---------------------------------------------------------------------------
(* What each kind of step does to the pool.                                *)

\* What is shown of the pool in every step.
PoolStep == PoolNeverDrained' /\ NoOrphanedEther' /\ KeepsShares /\ OnCurve

\* The reserves and the LP supply are naturals.
LEMMA PoolNat ==
  ASSUME TypesNat
  PROVE  /\ BaseReserves \in Nat /\ FractionalTokenReserves \in Nat
         /\ lpTotalSupply \in Nat
  BY AccountsFinite DEF TypesNat, BaseReserves, FractionalTokenReserves

\* A deposit.
LEMMA PoolAdd ==
  ASSUME TypesNat, NEW base \in Nat \ {0}, NEW frac \in Nat \ {0},
         BaseReserves' = BaseReserves + base,
         FractionalTokenReserves' = FractionalTokenReserves + frac,
         AddQuoteOk(base, frac, BaseReserves, FractionalTokenReserves,
                    lpTotalSupply),
         lpTotalSupply' = lpTotalSupply
             + AddQuote(base, frac, BaseReserves, FractionalTokenReserves,
                        lpTotalSupply)
  PROVE  PoolStep
  <1>1. PICK B \in Nat, F \in Nat, L \in Nat :
          B = BaseReserves /\ F = FractionalTokenReserves /\ L = lpTotalSupply
    BY PoolNat
  <1>2. PICK lp \in Nat :
          /\ lpTotalSupply' = L + lp /\ L + lp # 0
          /\ L > 0 => /\ (B + base) * L >= B * (L + lp)
                      /\ (F + frac) * L >= F * (L + lp)
    <2> DEFINE q == AddQuote(base, frac, B, F, L)
    <2>1. base \in Nat /\ frac \in Nat /\ base > 0 /\ frac > 0
      OBVIOUS
    <2>2. AddQuoteOk(base, frac, B, F, L) /\ lpTotalSupply' = L + q
      BY <1>1
    <2> q \in Nat
      BY <2>1, <2>2, AddShare
    <2>3. L = 0 => q > 0
      BY <2>1, <2>2, AddShare
    <2>4. L > 0 => (B + base) * L >= B * (L + q) /\ (F + frac) * L >= F * (L + q)
      BY <2>1, <2>2, AddShare
    <2> HIDE DEF q
    <2>5. L + q # 0
      BY <2>3
    <2> WITNESS q \in Nat
    <2> QED
      BY <2>2, <2>4, <2>5
  <1>3. BaseReserves' = B + base /\ FractionalTokenReserves' = F + frac
    BY <1>1
  <1>4. PoolNeverDrained'
    BY <1>3 DEF PoolNeverDrained
  <1>5. KeepsShares
    BY <1>1, <1>2, <1>3 DEF KeepsShares
  <1>6. OnCurve
    BY <1>1, <1>3 DEF OnCurve
  <1>7. NoOrphanedEther'
    BY <1>2 DEF NoOrphanedEther
  <1> QED
    BY <1>4, <1>5, <1>6, <1>7 DEF PoolStep

\* A removal.
LEMMA PoolRemove ==
  ASSUME TypesNat, PoolNeverDrained, NoOrphanedEther, NEW lp \in Nat,
         lpTotalSupply # 0, lp <= lpTotalSupply,
         lpTotalSupply' = lpTotalSupply - lp,
         BaseReserves' = BaseReserves - (BaseReserves * lp) \div lpTotalSupply,
         FractionalTokenReserves' = FractionalTokenReserves
             - (FractionalTokenReserves * lp) \div lpTotalSupply
  PROVE  PoolStep
  <1>1. PICK B \in Nat, F \in Nat, L \in Nat \ {0} :
          B = BaseReserves /\ F = FractionalTokenReserves /\ L = lpTotalSupply
    BY PoolNat
  <1>2. PICK b \in 0..B :
          /\ b = (B * lp) \div L
          /\ lp < L /\ B > 0 => b < B
          /\ lp = L => b = B
          /\ (B - b) * L >= B * (L - lp)
    <2> DEFINE q == (B * lp) \div L
    <2>1. /\ q \in 0..B /\ (lp < L /\ B > 0 => q < B) /\ (lp = L => q = B)
          /\ (B - q) * L >= B * (L - lp)
      BY <1>1, RemoveShare, ZenonT(30)
    <2> HIDE DEF q
    <2>2. \E v \in 0..B :
            /\ v = q /\ (lp < L /\ B > 0 => v < B) /\ (lp = L => v = B)
            /\ (B - v) * L >= B * (L - lp)
      BY <2>1
    <2> QED
      BY <2>2 DEF q
  <1>3. PICK f \in 0..F :
          /\ f = (F * lp) \div L
          /\ lp < L /\ F > 0 => f < F
          /\ lp = L => f = F
          /\ (F - f) * L >= F * (L - lp)
    <2> DEFINE q == (F * lp) \div L
    <2>1. /\ q \in 0..F /\ (lp < L /\ F > 0 => q < F) /\ (lp = L => q = F)
          /\ (F - q) * L >= F * (L - lp)
      BY <1>1, RemoveShare, ZenonT(30)
    <2> HIDE DEF q
    <2>2. \E v \in 0..F :
            /\ v = q /\ (lp < L /\ F > 0 => v < F) /\ (lp = L => v = F)
            /\ (F - v) * L >= F * (L - lp)
      BY <2>1
    <2> QED
      BY <2>2 DEF q
  <1>4. /\ lpTotalSupply' = L - lp
        /\ BaseReserves' = B - b /\ FractionalTokenReserves' = F - f
    BY <1>1, <1>2, <1>3
  <1>5. PoolNeverDrained'
    BY <1>1, <1>2, <1>3, <1>4 DEF PoolNeverDrained
  <1>6. KeepsShares
    BY <1>1, <1>2, <1>3, <1>4 DEF KeepsShares
  <1>7. OnCurve
    <2>1. lp = 0 => b = 0 /\ f = 0
      BY <1>2, <1>3, DivFacts
    <2> QED
      BY <1>1, <1>4, <2>1 DEF OnCurve
  <1>8. NoOrphanedEther'
    BY <1>1, <1>2, <1>4 DEF NoOrphanedEther
  <1> QED
    BY <1>5, <1>6, <1>7, <1>8 DEF PoolStep

\* A purchase.
LEMMA PoolBuy ==
  ASSUME TypesNat, PoolNeverDrained, NoOrphanedEther, NEW out \in Nat,
         BuyQuoteOk(out, BaseReserves, FractionalTokenReserves),
         BaseReserves' = BaseReserves
             + BuyQuote(out, BaseReserves, FractionalTokenReserves),
         FractionalTokenReserves' = FractionalTokenReserves - out,
         UNCHANGED lpTotalSupply
  PROVE  PoolStep
  <1>1. PICK B \in Nat, F \in Nat, L \in Nat :
          B = BaseReserves /\ F = FractionalTokenReserves /\ L = lpTotalSupply
    BY PoolNat
  <1>2. /\ BuyQuote(out, B, F) \in Nat /\ out < F
        /\ B = 0 => BuyQuote(out, B, F) = 0
        /\ (F - out) * (1000 * B + 997 * BuyQuote(out, B, F)) <= 1000 * B * F
        /\ (F - out) * (1000 * B + 997 * (BuyQuote(out, B, F) + 1))
             > 1000 * B * F
    <2>1. BuyQuoteOk(out, B, F)
      BY <1>1
    <2> QED
      BY <2>1, BuyCurve
  <1>3. PICK in \in Nat :
          /\ in = BuyQuote(out, B, F)
          /\ lpTotalSupply' = L
          /\ BaseReserves' = B + in /\ FractionalTokenReserves' = F - out
    BY <1>1, <1>2
  <1>4. PoolNeverDrained'
    BY <1>1, <1>2, <1>3 DEF PoolNeverDrained
  <1>5. KeepsShares
    BY <1>1, <1>3 DEF KeepsShares
  <1>6. OnCurve
    <2>1. BaseReserves' - B = in
      BY <1>3
    <2>2. ~(BaseReserves' < B)
      BY <1>3
    <2>3. /\ (F - out) * (1000 * B + 997 * in) <= 1000 * B * F
          /\ (F - out) * (1000 * B + 997 * (in + 1)) > 1000 * B * F
      BY <1>2, <1>3
    <2> QED
      BY <1>1, <1>3, <2>1, <2>2, <2>3 DEF OnCurve
  <1>7. NoOrphanedEther'
    BY <1>1, <1>2, <1>3 DEF NoOrphanedEther
  <1> QED
    BY <1>4, <1>5, <1>6, <1>7 DEF PoolStep

\* A sale.
LEMMA PoolSell ==
  ASSUME TypesNat, PoolNeverDrained, NoOrphanedEther, NEW in \in Nat,
         SellQuoteOk(in, BaseReserves, FractionalTokenReserves),
         BaseReserves' = BaseReserves
             - SellQuote(in, BaseReserves, FractionalTokenReserves),
         FractionalTokenReserves' = FractionalTokenReserves + in,
         UNCHANGED lpTotalSupply
  PROVE  PoolStep
  <1>1. PICK B \in Nat, F \in Nat, L \in Nat :
          B = BaseReserves /\ F = FractionalTokenReserves /\ L = lpTotalSupply
    BY PoolNat
  <1>2. PICK out \in 0..B :
          /\ out = SellQuote(in, B, F)
          /\ B > 0 /\ F > 0 => out < B
          /\ (B - out) * (1000 * F + 997 * in) >= 1000 * B * F
          /\ (B - out - 1) * (1000 * F + 997 * in) < 1000 * B * F
    BY <1>1, SellCurve
  <1>3. /\ lpTotalSupply' = L
        /\ BaseReserves' = B - out /\ FractionalTokenReserves' = F + in
    BY <1>1, <1>2
  <1>4. PoolNeverDrained'
    BY <1>1, <1>2, <1>3 DEF PoolNeverDrained
  <1>5. KeepsShares
    BY <1>1, <1>3 DEF KeepsShares
  <1>6. OnCurve
    <2>1. FractionalTokenReserves' - F = in
      BY <1>3
    <2>2. ~(FractionalTokenReserves' < F)
      BY <1>3
    <2> QED
      BY <1>1, <1>2, <1>3, <2>1, <2>2 DEF OnCurve
  <1>7. NoOrphanedEther'
    BY <1>1, <1>2, <1>3 DEF NoOrphanedEther
  <1> QED
    BY <1>4, <1>5, <1>6, <1>7 DEF PoolStep

\* Everything else: the reserves can only be given something, and not
\* ether.
LEMMA PoolGift ==
  ASSUME TypesNat, PoolNeverDrained, NoOrphanedEther, UNCHANGED lpTotalSupply,
         NativeBase => BaseReserves' = BaseReserves,
         BaseReserves' \in Nat, BaseReserves' >= BaseReserves,
         FractionalTokenReserves' \in Nat,
         FractionalTokenReserves' >= FractionalTokenReserves
  PROVE  PoolStep
  BY PoolNat DEF PoolStep, PoolNeverDrained, NoOrphanedEther, KeepsShares, OnCurve

---------------------------------------------------------------------------
(* What each kind of step does to the backing of the fractional units.     *)

\* The units per NFT distribute over the NFTs held.
LEMMA UnitsAdd ==
  ASSUME NEW a \in Nat, NEW b \in Nat
  PROVE  ONE * (a + b) = ONE * a + ONE * b
  BY PairAssumption

\* NFTs in, units minted.
LEMMA BackedByWrap ==
  ASSUME TypesNat, Backed, NEW ids \in SUBSET NFTs,
         Held' = Held \cup ids, Held \cap ids = {},
         totalSupply' = totalSupply + Fractions(ids),
         closeTimestamp = 0
  PROVE  Backed'
  <1>1. IsFiniteSet(Held) /\ IsFiniteSet(ids)
    BY FractionsNat DEF Held
  <1>2. PICK h \in Nat, n \in Nat : h = Cardinality(Held) /\ n = Cardinality(ids)
    BY FractionsNat DEF Held
  <1>3. Cardinality(Held') = h + n
    <2>1. Cardinality(Held \cup ids)
             = Cardinality(Held) + Cardinality(ids) - Cardinality(Held \cap ids)
      BY <1>1, FS_Union
    <2>2. Cardinality(Held \cap ids) = 0
      BY FS_EmptySet
    <2> QED
      BY <1>2, <2>1, <2>2
  <1>4. totalSupply <= ONE * h
    BY <1>2 DEF Backed
  <1>5. totalSupply' <= ONE * h + ONE * n
    BY <1>2, <1>4, PairAssumption DEF Fractions, TypesNat
  <1>6. totalSupply' <= ONE * (h + n)
    BY <1>5, UnitsAdd
  <1> QED
    BY <1>3, <1>6 DEF Backed

\* NFTs out, units burned.
LEMMA BackedByUnwrap ==
  ASSUME TypesNat, Backed, NEW ids \in SUBSET NFTs,
         Held' = Held \ ids, ids \subseteq Held,
         totalSupply' = totalSupply - Fractions(ids),
         UNCHANGED lifecycle
  PROVE  Backed'
  <1>1. IsFiniteSet(Held) /\ IsFiniteSet(ids)
    BY FractionsNat DEF Held
  <1>2. PICK h \in Nat, n \in Nat : h = Cardinality(Held) /\ n = Cardinality(ids)
    BY FractionsNat DEF Held
  <1>3. PICK r \in Nat : r = Cardinality(Held') /\ h = r + n
    <2>1. Held' \in SUBSET NFTs
      BY DEF Held
    <2>2. Cardinality(Held') \in Nat
      BY <2>1, FractionsNat
    <2>3. Cardinality(Held \ ids)
             = Cardinality(Held) - Cardinality(Held \cap ids)
      BY <1>1, FS_Difference
    <2>4. Held \cap ids = ids
      OBVIOUS
    <2> QED
      BY <1>2, <2>2, <2>3, <2>4
  <1>4. ONE * h = ONE * r + ONE * n
    BY <1>3, UnitsAdd
  <1>5. totalSupply <= ONE * h => totalSupply' <= ONE * r
    BY <1>2, <1>4, PairAssumption DEF Fractions, TypesNat
  <1> QED
    BY <1>2, <1>3, <1>5 DEF Backed, lifecycle

\* Everything else leaves the units alone, and the NFTs, or adds to them.
LEMMA BackedOtherwise ==
  ASSUME TypesNat, Backed, Held \subseteq Held', UNCHANGED totalSupply,
         closeTimestamp' = closeTimestamp \/ closeTimestamp = 0,
         now' >= now, now' \in Nat
  PROVE  Backed'
  <1>1. IsFiniteSet(Held') /\ Cardinality(Held') \in Nat
    <2>1. Held' \in SUBSET NFTs
      BY DEF Held
    <2> QED
      BY <2>1, FractionsNat
  <1>2. Cardinality(Held) <= Cardinality(Held') /\ Cardinality(Held) \in Nat
    BY <1>1, FS_Subset, FS_CardinalityType
  <1>3. ONE * Cardinality(Held) <= ONE * Cardinality(Held')
    BY <1>1, <1>2, ProductMono, PairAssumption
  <1>4. totalSupply <= ONE * Cardinality(Held)
          => totalSupply <= ONE * Cardinality(Held')
    BY <1>1, <1>2, <1>3, PairAssumption, ProductNat DEF TypesNat
  <1> QED
    BY <1>4 DEF Backed, TypesNat

---------------------------------------------------------------------------
(* Each operation keeps the invariant.                                     *)

\* What is shown of every step.
GoodStep == IInv' /\ PoolStep

LEMMA AddStep ==
  ASSUME IInv, NEW u \in Users, NEW base \in Nat, NEW frac \in Nat,
         NEW minLp \in Nat, Add(u, base, frac, minLp, EtherFor(base))
  PROVE  GoodStep
  <1> USE DEF IInv, Add
  <1>1. Total(balanceOf) <= MaxUint /\ balanceOf \in [Accounts -> Nat]
    BY MaxUintAssumption DEF TypesNat, LedgersAddUp
  <1>2. /\ balanceOf' \in [Accounts -> Nat] /\ Total(balanceOf') = totalSupply
        /\ lpBalanceOf' \in [Accounts -> Nat]
        /\ lpTotalSupply' \in 0..MaxUint /\ lpTotalSupply' = Total(lpBalanceOf')
        /\ baseOf' \in [Accounts -> Nat]
    BY <1>1, AddFacts DEF LedgersAddUp
  <1>3. PoolStep
    BY <1>1, AddFacts, PoolAdd DEF FractionalTokenReserves
  <1>4. TypesNat' /\ LedgersAddUp' /\ ListedWhileOpen' /\ Backed'
    BY <1>2 DEF TypesNat, LedgersAddUp, ListedWhileOpen, Backed, Held, lifecycle
  <1> QED
    BY <1>3, <1>4 DEF GoodStep, PoolStep

LEMMA RemoveStep ==
  ASSUME IInv, NEW u \in Users, NEW lp \in Nat, NEW minBase \in Nat,
         NEW minFrac \in Nat, Remove(u, lp, minBase, minFrac)
  PROVE  GoodStep
  <1> USE DEF IInv, Remove
  <1>1. /\ balanceOf' \in [Accounts -> Nat] /\ Total(balanceOf') = totalSupply
        /\ lpBalanceOf' \in [Accounts -> Nat]
        /\ lpTotalSupply' \in 0..MaxUint /\ lpTotalSupply' = Total(lpBalanceOf')
        /\ baseOf' \in [Accounts -> Nat]
    BY RemoveFacts DEF LedgersAddUp
  <1>2. PoolStep
    BY RemoveFacts, PoolRemove DEF FractionalTokenReserves
  <1>3. TypesNat' /\ LedgersAddUp' /\ ListedWhileOpen' /\ Backed'
    BY <1>1 DEF TypesNat, LedgersAddUp, ListedWhileOpen, Backed, Held, lifecycle
  <1> QED
    BY <1>2, <1>3 DEF GoodStep, PoolStep

LEMMA BuyStep ==
  ASSUME IInv, NEW u \in Users, NEW out \in Nat, NEW maxInput \in Nat,
         Buy(u, out, maxInput, EtherFor(maxInput))
  PROVE  GoodStep
  <1> USE DEF IInv, Buy
  <1>1. /\ balanceOf' \in [Accounts -> Nat] /\ Total(balanceOf') = totalSupply
        /\ baseOf' \in [Accounts -> Nat] /\ UNCHANGED lpToken
    BY BuyFacts DEF LedgersAddUp
  <1>2. PoolStep
    BY BuyFacts, PoolBuy DEF FractionalTokenReserves, lpToken
  <1>3. TypesNat' /\ LedgersAddUp' /\ ListedWhileOpen' /\ Backed'
    BY <1>1
    DEF TypesNat, LedgersAddUp, ListedWhileOpen, Backed, Held, lifecycle, lpToken
  <1> QED
    BY <1>2, <1>3 DEF GoodStep, PoolStep

LEMMA SellStep ==
  ASSUME IInv, NEW u \in Users, NEW in \in Nat, NEW minOut \in Nat,
         Sell(u, in, minOut)
  PROVE  GoodStep
  <1> USE DEF IInv, Sell
  <1>1. Total(balanceOf) <= MaxUint /\ balanceOf \in [Accounts -> Nat]
    BY MaxUintAssumption DEF TypesNat, LedgersAddUp
  <1>2. /\ balanceOf' \in [Accounts -> Nat] /\ Total(balanceOf') = totalSupply
        /\ baseOf' \in [Accounts -> Nat] /\ UNCHANGED lpToken
    BY <1>1, SellFacts DEF LedgersAddUp
  <1>3. PoolStep
    BY <1>1, SellFacts, PoolSell DEF FractionalTokenReserves, lpToken
  <1>4. TypesNat' /\ LedgersAddUp' /\ ListedWhileOpen' /\ Backed'
    BY <1>2
    DEF TypesNat, LedgersAddUp, ListedWhileOpen, Backed, Held, lifecycle, lpToken
  <1> QED
    BY <1>3, <1>4 DEF GoodStep, PoolStep

LEMMA WrapStep ==
  ASSUME IInv, NEW u \in Users, NEW ids \in SUBSET NFTs, Wrap(u, ids)
  PROVE  GoodStep
  <1> USE DEF IInv, Wrap
  <1>1. /\ balanceOf' = WrapBalances(u, ids) /\ balanceOf' \in [Accounts -> Nat]
        /\ Total(balanceOf') = totalSupply'
        /\ balanceOf'[PAIR] = FractionalTokenReserves
        /\ totalSupply' \in 0..MaxUint /\ ownerOf' \in [NFTs -> Accounts]
        /\ UNCHANGED <<lpToken, baseOf, lifecycle>>
    BY WrapFacts
  <1>2. PoolStep
    BY <1>1, PoolNat, PoolGift DEF FractionalTokenReserves, BaseReserves, lpToken
  <1>3. Backed'
    BY WrapFacts, BackedByWrap
  <1>4. TypesNat' /\ LedgersAddUp' /\ ListedWhileOpen'
    BY <1>1 DEF TypesNat, LedgersAddUp, ListedWhileOpen, lifecycle, lpToken
  <1> QED
    BY <1>2, <1>3, <1>4 DEF GoodStep, PoolStep

LEMMA UnwrapStep ==
  ASSUME IInv, NEW u \in Users, NEW ids \in SUBSET NFTs, Unwrap(u, ids)
  PROVE  GoodStep
  <1> USE DEF IInv, Unwrap
  <1>1. Total(balanceOf) = totalSupply /\ balanceOf \in [Accounts -> Nat]
    BY DEF TypesNat, LedgersAddUp
  <1>2. /\ balanceOf' \in [Accounts -> Nat] /\ Total(balanceOf') = totalSupply'
        /\ FractionalTokenReserves' = FractionalTokenReserves
        /\ totalSupply' \in 0..MaxUint /\ ownerOf' \in [NFTs -> Accounts]
        /\ UNCHANGED <<lpToken, baseOf, lifecycle>>
    BY <1>1, UnwrapFacts DEF FractionalTokenReserves
  <1>3. PoolStep
    BY <1>2, PoolNat, PoolGift DEF BaseReserves, lpToken
  <1>4. Backed'
    BY <1>1, UnwrapFacts, BackedByUnwrap
  <1>5. TypesNat' /\ LedgersAddUp' /\ ListedWhileOpen'
    BY <1>2 DEF TypesNat, LedgersAddUp, ListedWhileOpen, lifecycle, lpToken
  <1> QED
    BY <1>3, <1>4, <1>5 DEF GoodStep, PoolStep

LEMMA NftAddStep ==
  ASSUME IInv, NEW u \in Users, NEW base \in Nat, NEW ids \in SUBSET NFTs,
         NEW minLp \in Nat, NftAdd(u, base, ids, minLp, EtherFor(base))
  PROVE  GoodStep
  <1> USE DEF IInv, NftAdd
  <1>1. PICK bal \in [Accounts -> Nat] :
          /\ bal = WrapBalances(u, ids)
          /\ Total(bal) = totalSupply' /\ totalSupply' \in 0..MaxUint
          /\ bal[PAIR] = FractionalTokenReserves
    BY WrapFacts
  <1>2. PICK frac \in Nat : frac = Fractions(ids)
    BY FractionsNat
  <1>3. AddLiquidity(bal, u, base, frac, minLp, EtherFor(base))
    BY <1>1, <1>2
  <1>4. Total(bal) <= MaxUint
    BY <1>1, MaxUintAssumption
  <1>5. /\ balanceOf' \in [Accounts -> Nat] /\ Total(balanceOf') = totalSupply'
        /\ lpBalanceOf' \in [Accounts -> Nat]
        /\ lpTotalSupply' \in 0..MaxUint /\ lpTotalSupply' = Total(lpBalanceOf')
        /\ baseOf' \in [Accounts -> Nat]
    BY <1>1, <1>3, <1>4, AddFacts
  <1>6. PoolStep
    BY <1>1, <1>3, <1>4, AddFacts, PoolAdd
  <1>7. Backed'
    BY WrapFacts, BackedByWrap
  <1>8. ownerOf' \in [NFTs -> Accounts] /\ UNCHANGED lifecycle
    BY WrapFacts
  <1>9. TypesNat' /\ LedgersAddUp' /\ ListedWhileOpen'
    BY <1>1, <1>5, <1>8 DEF TypesNat, LedgersAddUp, ListedWhileOpen, lifecycle
  <1> QED
    BY <1>6, <1>7, <1>9 DEF GoodStep, PoolStep

LEMMA NftRemoveStep ==
  ASSUME IInv, NEW u \in Users, NEW lp \in Nat, NEW minBase \in Nat,
         NEW ids \in SUBSET NFTs, NftRemove(u, lp, minBase, ids)
  PROVE  GoodStep
  <1> USE DEF IInv, NftRemove
  <1>1. PICK minFrac \in Nat : minFrac = Fractions(ids)
    BY FractionsNat
  <1>2. RemoveLiquidity(u, lp, minBase, minFrac)
    BY <1>1
  <1>3. PICK bal \in [Accounts -> Nat] :
          /\ bal = RemoveBalances(u, lp) /\ Total(bal) = totalSupply
          /\ bal[PAIR] = FractionalTokenReserves
                 - (FractionalTokenReserves * lp) \div lpTotalSupply
    BY <1>2, RemoveFacts DEF LedgersAddUp
  <1>4. /\ lpBalanceOf' \in [Accounts -> Nat]
        /\ lpTotalSupply' \in 0..MaxUint /\ lpTotalSupply' = Total(lpBalanceOf')
        /\ baseOf' \in [Accounts -> Nat]
    BY <1>2, RemoveFacts
  <1>5. UnwrapNfts(bal, u, ids)
    BY <1>3
  <1>6. /\ balanceOf' \in [Accounts -> Nat] /\ Total(balanceOf') = totalSupply'
        /\ FractionalTokenReserves' = bal[PAIR]
        /\ totalSupply' \in 0..MaxUint /\ ownerOf' \in [NFTs -> Accounts]
        /\ UNCHANGED lifecycle
    BY <1>3, <1>5, UnwrapFacts
  <1>7. PoolStep
    BY <1>2, <1>3, <1>6, RemoveFacts, PoolRemove
  <1>8. Backed'
    BY <1>3, <1>5, UnwrapFacts, BackedByUnwrap
  <1>9. TypesNat' /\ LedgersAddUp' /\ ListedWhileOpen'
    BY <1>4, <1>6 DEF TypesNat, LedgersAddUp, ListedWhileOpen, lifecycle
  <1> QED
    BY <1>7, <1>8, <1>9 DEF GoodStep, PoolStep

LEMMA NftBuyStep ==
  ASSUME IInv, NEW u \in Users, NEW ids \in SUBSET NFTs, NEW maxInput \in Nat,
         NftBuy(u, ids, maxInput, EtherFor(maxInput))
  PROVE  GoodStep
  <1> USE DEF IInv, NftBuy
  <1>1. PICK out \in Nat : out = Fractions(ids)
    BY FractionsNat
  <1>2. BuyFractions(u, out, maxInput, EtherFor(maxInput))
    BY <1>1
  <1>3. PICK bal \in [Accounts -> Nat] :
          /\ bal = BuyBalances(u, out) /\ Total(bal) = totalSupply
          /\ bal[PAIR] = FractionalTokenReserves - out
    BY <1>2, BuyFacts DEF LedgersAddUp
  <1>4. baseOf' \in [Accounts -> Nat] /\ UNCHANGED lpToken
    BY <1>2, BuyFacts
  <1>5. UnwrapNfts(bal, u, ids)
    BY <1>1, <1>3
  <1>6. /\ balanceOf' \in [Accounts -> Nat] /\ Total(balanceOf') = totalSupply'
        /\ FractionalTokenReserves' = bal[PAIR]
        /\ totalSupply' \in 0..MaxUint /\ ownerOf' \in [NFTs -> Accounts]
        /\ UNCHANGED lifecycle
    BY <1>3, <1>5, UnwrapFacts
  <1>7. PoolStep
    BY <1>2, <1>3, <1>6, BuyFacts, PoolBuy DEF lpToken
  <1>8. Backed'
    BY <1>3, <1>5, UnwrapFacts, BackedByUnwrap
  <1>9. TypesNat' /\ LedgersAddUp' /\ ListedWhileOpen'
    BY <1>4, <1>6 DEF TypesNat, LedgersAddUp, ListedWhileOpen, lifecycle, lpToken
  <1> QED
    BY <1>7, <1>8, <1>9 DEF GoodStep, PoolStep

LEMMA NftSellStep ==
  ASSUME IInv, NEW u \in Users, NEW ids \in SUBSET NFTs, NEW minOut \in Nat,
         NftSell(u, ids, minOut)
  PROVE  GoodStep
  <1> USE DEF IInv, NftSell
  <1>1. PICK bal \in [Accounts -> Nat] :
          /\ bal = WrapBalances(u, ids)
          /\ Total(bal) = totalSupply' /\ totalSupply' \in 0..MaxUint
          /\ bal[PAIR] = FractionalTokenReserves
    BY WrapFacts
  <1>2. PICK in \in Nat : in = Fractions(ids)
    BY FractionsNat
  <1>3. SellFractions(bal, u, in, minOut)
    BY <1>1, <1>2
  <1>4. Total(bal) <= MaxUint
    BY <1>1, MaxUintAssumption
  <1>5. /\ balanceOf' \in [Accounts -> Nat] /\ Total(balanceOf') = totalSupply'
        /\ baseOf' \in [Accounts -> Nat] /\ UNCHANGED lpToken
    BY <1>1, <1>3, <1>4, SellFacts
  <1>6. PoolStep
    BY <1>1, <1>3, <1>4, SellFacts, PoolSell DEF lpToken
  <1>7. Backed'
    BY WrapFacts, BackedByWrap
  <1>8. ownerOf' \in [NFTs -> Accounts] /\ UNCHANGED lifecycle
    BY WrapFacts
  <1>9. TypesNat' /\ LedgersAddUp' /\ ListedWhileOpen'
    BY <1>1, <1>5, <1>8
    DEF TypesNat, LedgersAddUp, ListedWhileOpen, lifecycle, lpToken
  <1> QED
    BY <1>6, <1>7, <1>9 DEF GoodStep, PoolStep

\* close is possible only once, so the notice that Backed counts on is the
\* first one.
LEMMA CloseStep ==
  ASSUME IInv, NEW u \in Users, Close(u)
  PROVE  GoodStep
  <1> USE DEF IInv, Close, DestroyAccepts, tokens, lpToken
  <1>1. closeTimestamp = 0 /\ closeTimestamp' = now + Day
    BY DEF ListedWhileOpen
  <1>2. closeTimestamp' \in Nat /\ closeTimestamp' # 0
    BY <1>1, PairAssumption DEF TypesNat
  <1>3. PoolStep
    BY PoolNat, PoolGift DEF FractionalTokenReserves, BaseReserves
  <1>4. Backed'
    BY <1>1, BackedOtherwise DEF Held, TypesNat
  <1>5. TypesNat' /\ LedgersAddUp' /\ ListedWhileOpen'
    BY <1>2 DEF TypesNat, LedgersAddUp, ListedWhileOpen
  <1> QED
    BY <1>3, <1>4, <1>5 DEF GoodStep, PoolStep

LEMMA WithdrawStep ==
  ASSUME IInv, NEW u \in Users, NEW id \in NFTs, Withdraw(u, id)
  PROVE  GoodStep
  <1> USE DEF IInv, Withdraw, GraceOver, tokens, lpToken, lifecycle
  <1>1. PoolStep
    BY PoolNat, PoolGift DEF FractionalTokenReserves, BaseReserves
  <1>2. Backed'
    BY DEF Backed, TypesNat
  <1>3. TypesNat' /\ LedgersAddUp' /\ ListedWhileOpen'
    BY AccountsFinite DEF TypesNat, LedgersAddUp, ListedWhileOpen
  <1> QED
    BY <1>1, <1>2, <1>3 DEF GoodStep, PoolStep

LEMMA FracTransferStep ==
  ASSUME IInv, NEW u \in Users, NEW to \in Accounts \ {u}, NEW amount \in Nat,
         FracTransfer(u, to, amount)
  PROVE  GoodStep
  <1> USE DEF IInv, FracTransfer, lpToken, lifecycle
  <1>1. Total(balanceOf) <= MaxUint
    BY MaxUintAssumption DEF TypesNat, LedgersAddUp
  <1>2. /\ balanceOf' \in [Accounts -> Nat] /\ Total(balanceOf') = totalSupply
        /\ FractionalTokenReserves' >= FractionalTokenReserves
    <2>1. u \in Accounts /\ to \in Accounts /\ u # to
      BY AccountsFinite
    <2>2. /\ balanceOf' \in [Accounts -> Nat]
          /\ Total(balanceOf') = Total(balanceOf)
          /\ balanceOf'[to] = balanceOf[to] + amount
          /\ \A a \in Accounts \ {u, to} : balanceOf'[a] = balanceOf[a]
      BY <1>1, <2>1, AccountsFinite, TransferFromTotal DEF TypesNat
    <2>3. balanceOf'[PAIR] = balanceOf[PAIR] \/ balanceOf'[PAIR] = balanceOf[PAIR] + amount
      BY <2>2, AccountsFinite
    <2> QED
      BY <2>2, <2>3, AccountsFinite
      DEF TypesNat, LedgersAddUp, FractionalTokenReserves
  <1>3. PoolStep
    BY <1>2, AccountsFinite, PoolNat, PoolGift
    DEF FractionalTokenReserves, BaseReserves
  <1>4. TypesNat' /\ LedgersAddUp' /\ ListedWhileOpen' /\ Backed'
    BY <1>2 DEF TypesNat, LedgersAddUp, ListedWhileOpen, Backed, Held
  <1> QED
    BY <1>3, <1>4 DEF GoodStep, PoolStep

LEMMA LpTransferStep ==
  ASSUME IInv, NEW u \in Users, NEW to \in Accounts \ {u}, NEW amount \in Nat,
         LpTransfer(u, to, amount)
  PROVE  GoodStep
  <1> USE DEF IInv, LpTransfer, tokens, lifecycle
  <1>1. Total(lpBalanceOf) <= MaxUint
    BY MaxUintAssumption DEF TypesNat, LedgersAddUp
  <1>2. /\ lpBalanceOf' \in [Accounts -> Nat]
        /\ Total(lpBalanceOf') = Total(lpBalanceOf)
    <2>1. u \in Accounts /\ to \in Accounts /\ u # to
      BY AccountsFinite
    <2> QED
      BY <1>1, <2>1, AccountsFinite, TransferFromTotal DEF TypesNat
  <1>3. PoolStep
    BY PoolNat, PoolGift DEF FractionalTokenReserves, BaseReserves
  <1>4. TypesNat' /\ LedgersAddUp' /\ ListedWhileOpen' /\ Backed'
    BY <1>2 DEF TypesNat, LedgersAddUp, ListedWhileOpen, Backed, Held
  <1> QED
    BY <1>3, <1>4 DEF GoodStep, PoolStep

LEMMA BaseTransferStep ==
  ASSUME IInv, NEW u \in Users, NEW to \in Accounts \ {u}, NEW amount \in Nat,
         BaseTransfer(u, to, amount)
  PROVE  GoodStep
  <1> USE DEF IInv, BaseTransfer, tokens, lpToken, lifecycle
  <1>1. /\ baseOf' \in [Accounts -> Nat] /\ baseOf'[PAIR] >= baseOf[PAIR]
        /\ NativeBase => baseOf'[PAIR] = baseOf[PAIR]
    <2>1. u \in Accounts /\ to \in Accounts /\ u # to
      BY AccountsFinite
    <2>2. /\ baseOf' \in [Accounts -> Nat]
          /\ baseOf'[to] = baseOf[to] + amount
          /\ \A a \in Accounts \ {u, to} : baseOf'[a] = baseOf[a]
      BY <2>1, PayFacts DEF TypesNat
    <2>3. baseOf'[PAIR] = baseOf[PAIR] \/ baseOf'[PAIR] = baseOf[PAIR] + amount
      BY <2>2, AccountsFinite
    <2> QED
      BY <2>2, <2>3, AccountsFinite DEF TypesNat
  <1>2. PoolStep
    BY <1>1, AccountsFinite, PoolNat, PoolGift
    DEF FractionalTokenReserves, BaseReserves
  <1>3. TypesNat' /\ LedgersAddUp' /\ ListedWhileOpen' /\ Backed'
    BY <1>1 DEF TypesNat, LedgersAddUp, ListedWhileOpen, Backed, Held
  <1> QED
    BY <1>2, <1>3 DEF GoodStep, PoolStep

LEMMA NftTransferStep ==
  ASSUME IInv, NEW u \in Users, NEW to \in Accounts \ {u}, NEW id \in NFTs,
         NftTransfer(u, to, id)
  PROVE  GoodStep
  <1> USE DEF IInv, NftTransfer, tokens, lpToken, lifecycle
  <1>1. PoolStep
    BY PoolNat, PoolGift DEF FractionalTokenReserves, BaseReserves
  <1>2. Held \subseteq Held'
    BY AccountsFinite DEF Held, TypesNat
  <1>3. Backed'
    BY <1>2, BackedOtherwise DEF TypesNat
  <1>4. TypesNat' /\ LedgersAddUp' /\ ListedWhileOpen'
    BY DEF TypesNat, LedgersAddUp, ListedWhileOpen
  <1> QED
    BY <1>1, <1>3, <1>4 DEF GoodStep, PoolStep

LEMMA OwnershipStep ==
  ASSUME IInv, NEW u \in Users, NEW newOwner \in Owners,
         TransferOwnership(u, newOwner)
  PROVE  GoodStep
  <1> USE DEF IInv, TransferOwnership, tokens, lpToken
  <1>1. PoolStep
    BY PoolNat, PoolGift DEF FractionalTokenReserves, BaseReserves
  <1>2. TypesNat' /\ LedgersAddUp' /\ ListedWhileOpen' /\ Backed'
    BY DEF TypesNat, LedgersAddUp, ListedWhileOpen, Backed, Held
  <1> QED
    BY <1>1, <1>2 DEF GoodStep, PoolStep

LEMMA TickStep ==
  ASSUME IInv, Tick
  PROVE  GoodStep
  <1> USE DEF IInv, Tick, tokens, lpToken
  <1>1. PoolStep
    BY PoolNat, PoolGift DEF FractionalTokenReserves, BaseReserves
  <1>2. Backed'
    BY BackedOtherwise DEF Held, TypesNat
  <1>3. TypesNat' /\ LedgersAddUp' /\ ListedWhileOpen'
    BY DEF TypesNat, LedgersAddUp, ListedWhileOpen
  <1> QED
    BY <1>1, <1>2, <1>3 DEF GoodStep, PoolStep

\* A step that changes nothing.
LEMMA StutterStep ==
  ASSUME IInv, UNCHANGED vars
  PROVE  IInv'
  BY DEF IInv, vars, tokens, lpToken, lifecycle, TypesNat, LedgersAddUp,
         ListedWhileOpen, Backed, Held, PoolNeverDrained, NoOrphanedEther,
         BaseReserves, FractionalTokenReserves

---------------------------------------------------------------------------
(* The base tokens: no operation creates or destroys one, so that what fits *)
(* the word at the start still does.                                        *)

\* add pays base tokens of the caller into the reserve.
LEMMA AddKeepsBase ==
  ASSUME TypesNat, NEW bal, NEW u \in Users, NEW base \in Nat, NEW frac, NEW minLp,
         AddLiquidity(bal, u, base, frac, minLp, EtherFor(base))
  PROVE  Total(baseOf') = Total(baseOf)
  <1>1. base <= baseOf[u] /\ baseOf' = Pay(baseOf, u, PAIR, base)
    BY DEF AddLiquidity, EtherFor, Credited
  <1> QED
    BY <1>1, AccountsFinite, PayTotal DEF TypesNat

\* remove pays a share of the reserve out.
LEMMA RemoveKeepsBase ==
  ASSUME TypesNat, LedgersAddUp,
         NEW u \in Users, NEW lp \in Nat, NEW minBase, NEW minFrac,
         RemoveLiquidity(u, lp, minBase, minFrac)
  PROVE  Total(baseOf') = Total(baseOf)
  <1>1. PICK B \in Nat, L \in Nat : B = BaseReserves /\ L = lpTotalSupply
    BY AccountsFinite DEF TypesNat, BaseReserves
  <1>2. BaseTokenReserves(baseOf, 0) = B
    BY <1>1, AccountsFinite DEF BaseTokenReserves, BaseReserves
  <1>3. /\ L # 0 /\ lp <= lpBalanceOf[u]
        /\ baseOf' = Pay(baseOf, PAIR, u, (B * lp) \div L)
    BY <1>1, <1>2 DEF RemoveLiquidity, RemoveQuoteOk, RemoveBaseQuote
  <1>4. lp <= L
    <2>1. lpBalanceOf[u] <= L /\ lpBalanceOf[u] \in Nat
      BY <1>1, AccountsFinite, BalanceBound DEF TypesNat, LedgersAddUp
    <2> QED
      BY <1>1, <1>3, <2>1
  <1>5. PICK out \in 0..B : out = (B * lp) \div L
    <2>1. (B * lp) \div L \in 0..B
      BY <1>1, <1>3, <1>4, RemoveShare
    <2> QED
      BY <2>1
  <1>6. out \in Nat /\ out <= baseOf[PAIR]
    BY <1>1, <1>5 DEF BaseReserves
  <1> QED
    BY <1>3, <1>5, <1>6, AccountsFinite, PayTotal DEF TypesNat

\* buy pays the price in, and sends back what was too much.
LEMMA BuyKeepsBase ==
  ASSUME TypesNat, NEW u \in Users, NEW out \in Nat, NEW maxInput \in Nat,
         BuyFractions(u, out, maxInput, EtherFor(maxInput))
  PROVE  Total(baseOf') = Total(baseOf)
  <1> DEFINE value == EtherFor(maxInput)
  <1>1. value \in Nat /\ value <= baseOf[u] /\ (~NativeBase => value = 0)
    BY AccountsFinite DEF EtherFor, BuyFractions, TypesNat
  <1>2. PICK B \in Nat, F \in Nat :
          /\ B = BaseReserves /\ F = FractionalTokenReserves
          /\ BaseTokenReserves(Credited(u, value), value) = B
    BY <1>1, ReservesOfCall, AccountsFinite
    DEF TypesNat, BaseReserves, FractionalTokenReserves
  <1>3. PICK in \in Nat : in = BuyQuote(out, B, F)
    BY <1>2, BuyCurve DEF BuyFractions
  <1>4. /\ in <= maxInput /\ in <= baseOf[u]
        /\ baseOf' = IF NativeBase
                     THEN Pay(Credited(u, value), PAIR, u, maxInput - in)
                     ELSE Pay(baseOf, u, PAIR, in)
    BY <1>2, <1>3 DEF BuyFractions, Refund
  <1>5. CASE ~NativeBase
    BY <1>3, <1>4, <1>5, AccountsFinite, PayTotal DEF TypesNat
  <1>6. CASE NativeBase
    <2>1. PICK held \in [Accounts -> Nat] :
            held = Credited(u, value) /\ held[PAIR] = B + value
      BY <1>1, <1>2, ReservesOfCall
    <2>2. Total(held) = Total(baseOf)
      BY <1>1, <2>1, AccountsFinite, PayTotal DEF TypesNat, Credited
    <2>3. maxInput - in \in Nat /\ maxInput - in <= held[PAIR]
      <3>1. value = maxInput
        BY <1>6 DEF EtherFor
      <3> HIDE DEF value
      <3> QED
        BY <1>2, <1>3, <1>4, <2>1, <3>1
    <2>4. Total(Pay(held, PAIR, u, maxInput - in)) = Total(held)
      BY <2>3, AccountsFinite, PayTotal
    <2> QED
      BY <1>4, <1>6, <2>1, <2>2, <2>4
  <1> QED
    BY <1>5, <1>6

\* sell pays the price out of the reserve.
LEMMA SellKeepsBase ==
  ASSUME TypesNat, NEW bal \in [Accounts -> Nat],
         NEW u \in Users, NEW in \in Nat, NEW minOut,
         SellFractions(bal, u, in, minOut)
  PROVE  Total(baseOf') = Total(baseOf)
  <1>1. PICK B \in Nat, F \in Nat : B = BaseReserves /\ F = bal[PAIR]
    BY AccountsFinite DEF TypesNat, BaseReserves
  <1>2. BaseTokenReserves(baseOf, 0) = B
    BY <1>1, AccountsFinite DEF BaseTokenReserves, BaseReserves
  <1>3. PICK out \in 0..B : out = SellQuote(in, B, F)
    BY <1>1, <1>2, SellCurve DEF SellFractions
  <1>4. baseOf' = Pay(baseOf, PAIR, u, out)
    BY <1>1, <1>2, <1>3 DEF SellFractions
  <1>5. out \in Nat /\ out <= baseOf[PAIR]
    BY <1>1, <1>3 DEF BaseReserves
  <1> QED
    BY <1>4, <1>5, AccountsFinite, PayTotal DEF TypesNat

LEMMA NftStepKeepsBase ==
  ASSUME IInv, NEW u \in Users, NftStep(u)
  PROVE  Total(baseOf') = Total(baseOf)
  <1> USE DEF IInv
  <1>1. PICK ids \in SUBSET NFTs :
          \/ Wrap(u, ids)
          \/ Unwrap(u, ids)
          \/ \E base \in Amount, minLp \in Limit :
                 NftAdd(u, base, ids, minLp, EtherFor(base))
          \/ \E lp \in Amount, minBase \in Limit : NftRemove(u, lp, minBase, ids)
          \/ \E maxInput \in Limit : NftBuy(u, ids, maxInput, EtherFor(maxInput))
          \/ \E minOut \in Limit : NftSell(u, ids, minOut)
    BY DEF NftStep
  <1>2. Fractions(ids) \in Nat
    BY FractionsNat
  <1>3. CASE Wrap(u, ids) \/ Unwrap(u, ids)
    BY <1>3 DEF Wrap, Unwrap
  <1>4. ASSUME NEW base \in Amount, NEW minLp \in Limit,
               NftAdd(u, base, ids, minLp, EtherFor(base))
        PROVE  Total(baseOf') = Total(baseOf)
    BY <1>4, BoundsAssumption, AddKeepsBase DEF NftAdd
  <1>5. ASSUME NEW lp \in Amount, NEW minBase \in Limit, NftRemove(u, lp, minBase, ids)
        PROVE  Total(baseOf') = Total(baseOf)
    BY <1>5, BoundsAssumption, RemoveKeepsBase DEF NftRemove
  <1>6. ASSUME NEW maxInput \in Limit, NftBuy(u, ids, maxInput, EtherFor(maxInput))
        PROVE  Total(baseOf') = Total(baseOf)
    <2>1. PICK out \in Nat : /\ out = Fractions(ids)
                             /\ BuyFractions(u, out, maxInput, EtherFor(maxInput))
      BY <1>2, <1>6 DEF NftBuy
    <2> QED
      BY <2>1, BoundsAssumption, BuyKeepsBase
  <1>7. ASSUME NEW minOut \in Limit, NftSell(u, ids, minOut)
        PROVE  Total(baseOf') = Total(baseOf)
    <2>1. WrapNfts(u, ids)
      BY <1>7 DEF NftSell
    <2>2. PICK bal \in [Accounts -> Nat] : bal = WrapBalances(u, ids)
      BY <2>1, WrapFacts
    <2>3. PICK in \in Nat : in = Fractions(ids) /\ SellFractions(bal, u, in, minOut)
      BY <1>2, <1>7, <2>2 DEF NftSell
    <2> QED
      BY <2>3, SellKeepsBase
  <1> QED
    BY <1>1, <1>3, <1>4, <1>5, <1>6, <1>7

LEMMA AmmStepKeepsBase ==
  ASSUME IInv, NEW u \in Users, AmmStep(u)
  PROVE  Total(baseOf') = Total(baseOf)
  <1> USE DEF IInv
  <1>1. ASSUME NEW base \in Amount, NEW frac \in Amount, NEW minLp \in Limit,
               Add(u, base, frac, minLp, EtherFor(base))
        PROVE  Total(baseOf') = Total(baseOf)
    BY <1>1, BoundsAssumption, AddKeepsBase DEF Add
  <1>2. ASSUME NEW lp \in Amount, NEW minBase \in Limit, NEW minFrac \in Limit,
               Remove(u, lp, minBase, minFrac)
        PROVE  Total(baseOf') = Total(baseOf)
    BY <1>2, BoundsAssumption, RemoveKeepsBase DEF Remove
  <1>3. ASSUME NEW out \in Amount, NEW maxInput \in Limit,
               Buy(u, out, maxInput, EtherFor(maxInput))
        PROVE  Total(baseOf') = Total(baseOf)
    BY <1>3, BoundsAssumption, BuyKeepsBase DEF Buy
  <1>4. ASSUME NEW in \in Amount, NEW minOut \in Limit, Sell(u, in, minOut)
        PROVE  Total(baseOf') = Total(baseOf)
    BY <1>4, BoundsAssumption, SellKeepsBase DEF Sell, TypesNat
  <1> QED
    BY <1>1, <1>2, <1>3, <1>4 DEF AmmStep

LEMMA OutsideStepKeepsBase ==
  ASSUME IInv, NEW u \in Users, OutsideStep(u)
  PROVE  Total(baseOf') = Total(baseOf)
  <1>1. ASSUME NEW to \in Accounts \ {u}, NEW amount \in Amount,
               BaseTransfer(u, to, amount)
        PROVE  Total(baseOf') = Total(baseOf)
    <2>1. u \in Accounts /\ to \in Accounts /\ u # to /\ amount \in Nat
      BY AccountsFinite, BoundsAssumption
    <2> QED
      BY <1>1, <2>1, AccountsFinite, PayTotal DEF BaseTransfer, IInv, TypesNat
  <1> QED
    BY <1>1 DEF OutsideStep, FracTransfer, LpTransfer, NftTransfer,
                TransferOwnership

\* Every step of the pair leaves the sum of the base tokens alone.
LEMMA BaseConserved ==
  ASSUME IInv, [Next]_vars
  PROVE  Total(baseOf') = Total(baseOf)
  <1>1. ASSUME NEW u \in Users, ExitStep(u) PROVE Total(baseOf') = Total(baseOf)
    BY <1>1 DEF ExitStep, Close, Withdraw
  <1>2. CASE Tick \/ UNCHANGED vars
    BY <1>2 DEF Tick, vars
  <1> QED
    BY <1>1, <1>2, AmmStepKeepsBase, NftStepKeepsBase, OutsideStepKeepsBase DEF Next

\* At the start the base tokens are those of the users.
LEMMA InitBase == Init => Total(baseOf) <= MaxUint
  <1> SUFFICES ASSUME Init PROVE Total(baseOf) = Total(StartBase)
    BY PairAssumption
  <1>1. baseOf = [a \in Accounts |-> IF a = PAIR THEN 0 ELSE StartBase[a]]
    BY DEF Init
  <1>2. PAIR \notin Users /\ DOMAIN StartBase = Users
    BY PairAssumption
  <1>3. \A a : 1 .. (IF a = PAIR THEN 0 ELSE StartBase[a])
                   = IF a = PAIR THEN {} ELSE 1 .. StartBase[a]
    OBVIOUS
  <1>4. Coins(baseOf) = UNION {{a} \X (IF a = PAIR THEN {} ELSE 1 .. StartBase[a])
                                  : a \in Accounts}
    BY <1>1, <1>3 DEF Coins
  <1>5. Coins(baseOf) = UNION {{a} \X (1 .. StartBase[a]) : a \in Users}
    BY <1>2, <1>4 DEF Accounts
  <1> QED
    BY <1>2, <1>5 DEF Coins, Total

---------------------------------------------------------------------------
(* The theorems.                                                           *)

\* A pair fresh from the factory satisfies the invariant.
LEMMA InitIInv == Init => IInv
  <1> SUFFICES ASSUME Init PROVE IInv
    OBVIOUS
  <1>1. TypesNat
    BY AccountsFinite, PairAssumption, MaxUintAssumption DEF Init, TypesNat, Accounts
  <1>2. LedgersAddUp
    BY EmptyLedger DEF Init, LedgersAddUp
  <1>3. ListedWhileOpen /\ PoolNeverDrained /\ NoOrphanedEther
    BY AccountsFinite
    DEF Init, ListedWhileOpen, PoolNeverDrained, NoOrphanedEther, BaseReserves
  <1>4. Backed
    <2>1. Held \in SUBSET NFTs
      BY DEF Held
    <2>2. Cardinality(Held) \in Nat
      BY <2>1, FractionsNat
    <2>3. ONE * Cardinality(Held) >= 0
      BY <2>2, PairAssumption, ProductNat
    <2> QED
      BY <2>3 DEF Init, Backed
  <1> QED
    BY <1>1, <1>2, <1>3, <1>4 DEF IInv

\* Every operation of the pair keeps the invariant and the promises on prices.
LEMMA NextStep ==
  ASSUME IInv, Next
  PROVE  GoodStep
  <1> USE BoundsAssumption
  <1>1. ASSUME NEW u \in Users, AmmStep(u) PROVE GoodStep
    BY <1>1, AddStep, RemoveStep, BuyStep, SellStep DEF AmmStep
  <1>2. ASSUME NEW u \in Users, NftStep(u) PROVE GoodStep
    BY <1>2, WrapStep, UnwrapStep, NftAddStep, NftRemoveStep, NftBuyStep,
       NftSellStep DEF NftStep
  <1>3. ASSUME NEW u \in Users, ExitStep(u) PROVE GoodStep
    BY <1>3, CloseStep, WithdrawStep DEF ExitStep
  <1>4. ASSUME NEW u \in Users, OutsideStep(u) PROVE GoodStep
    BY <1>4, FracTransferStep, LpTransferStep, BaseTransferStep,
       NftTransferStep, OwnershipStep DEF OutsideStep
  <1>5. CASE Tick
    BY <1>5, TickStep
  <1> QED
    BY <1>1, <1>2, <1>3, <1>4, <1>5 DEF Next

\* The inductive invariant holds in every reachable state.
THEOREM Invariance == Spec => []IInv
  <1>1. IInv /\ [Next]_vars => IInv'
    BY NextStep, StutterStep DEF GoodStep
  <1> QED
    BY <1>1, InitIInv, PTL DEF Spec

\* A balance is never larger than the sum of its ledger, which fits the word.
LEMMA WordsFit ==
  ASSUME IInv, Total(baseOf) <= MaxUint
  PROVE  TypeOK
  <1> USE DEF IInv
  <1>1. ASSUME NEW bal \in [Accounts -> Nat], Total(bal) <= MaxUint
        PROVE  bal \in [Accounts -> 0..MaxUint]
    <2>1. \A a \in Accounts : bal[a] <= Total(bal) /\ Total(bal) \in Nat
      BY <1>1, AccountsFinite, BalanceBound
    <2>2. \A a \in Accounts : bal[a] \in 0..MaxUint
      BY <1>1, <2>1, MaxUintAssumption
    <2> QED
      BY <2>2
  <1>2. Total(balanceOf) <= MaxUint /\ Total(lpBalanceOf) <= MaxUint
    BY MaxUintAssumption DEF LedgersAddUp, TypesNat
  <1> QED
    BY <1>1, <1>2 DEF TypesNat, TypeOK

\* No balance, supply or reserve of a token ever leaves the word of the EVM,
\* neither below zero nor above (TypeOK).
THEOREM TypeOKHolds == Spec => []TypeOK
  <1> DEFINE Fit == Total(baseOf) <= MaxUint
  <1>1. Init => Fit
    BY InitBase
  <1>2. IInv /\ Fit /\ [Next]_vars => Fit'
    BY BaseConserved
  <1>3. IInv /\ Fit => TypeOK
    BY WordsFit
  <1> HIDE DEF Fit
  <1> QED
    BY <1>1, <1>2, <1>3, Invariance, PTL DEF Spec

\* Both tokens add up to their supplies, so that the unchecked additions and
\* subtractions of the code never wrap.
THEOREM LedgersHold == Spec => []LedgersAddUp
  <1>1. IInv => LedgersAddUp
    BY DEF IInv
  <1> QED
    BY <1>1, Invariance, PTL

\* Until the notice of a close has run out, every ONE units can be unwrapped.
THEOREM BackedHolds == Spec => []Backed
  <1>1. IInv => Backed
    BY DEF IInv
  <1> QED
    BY <1>1, Invariance, PTL

\* The factory lists the pair exactly as long as it is open.
THEOREM ListedWhileOpenHolds == Spec => []ListedWhileOpen
  <1>1. IInv => ListedWhileOpen
    BY DEF IInv
  <1> QED
    BY <1>1, Invariance, PTL

\* As long as LP tokens exist, neither reserve is empty.
THEOREM PoolNeverDrainedHolds == Spec => []PoolNeverDrained
  <1>1. IInv => PoolNeverDrained
    BY DEF IInv
  <1> QED
    BY <1>1, Invariance, PTL

\* When the last LP token is gone, no ether is left in the pair.
THEOREM NoOrphanedEtherHolds == Spec => []NoOrphanedEther
  <1>1. IInv => NoOrphanedEther
    BY DEF IInv
  <1> QED
    BY <1>1, Invariance, PTL

\* Deposits and removals never dilute those who stay.
THEOREM SharesNotDilutedHolds == Spec => SharesNotDiluted
  <1>1. IInv /\ [Next]_vars => [KeepsShares]_vars
    BY NextStep DEF GoodStep, PoolStep
  <1> QED
    BY <1>1, Invariance, PTL DEF Spec, SharesNotDiluted

\* Every swap is priced by the curve, to within one base token.
THEOREM SwapsFollowCurveHolds == Spec => SwapsFollowCurve
  <1>1. IInv /\ [Next]_vars => [OnCurve]_vars
    BY NextStep DEF GoodStep, PoolStep
  <1> QED
    BY <1>1, Invariance, PTL DEF Spec, SwapsFollowCurve

---------------------------------------------------------------------------
(* The refinement of NftVault. *)

\* The vault's view of a step.
VaultStep == [Vault!Next]_(Vault!vars)

\* The vault counts as the pair does.
LEMMA SameCount == \A S : Vault!Cardinality(S) = Cardinality(S)
  BY DEF Vault!Cardinality, Cardinality

\* A wrap, also inside nftAdd and nftSell, deposits.
LEMMA WrapDeposits ==
  ASSUME IInv, NEW u \in Users, NEW ids \in SUBSET NFTs, WrapNfts(u, ids)
  PROVE  VaultStep
  <1>1. /\ closeTimestamp = 0
        /\ Held' = Held \cup ids /\ ids \cap Held = {}
        /\ totalSupply' = totalSupply + ONE * Cardinality(ids)
        /\ UNCHANGED <<closeTimestamp, now>>
    BY WrapFacts DEF IInv, Fractions, lifecycle
  <1>2. Vault!Deposit(ids)
    BY <1>1, SameCount DEF Vault!Deposit
  <1> QED
    BY <1>2 DEF VaultStep, Vault!Next

\* An unwrap, also inside nftRemove and nftBuy, redeems.
LEMMA UnwrapRedeems ==
  ASSUME IInv, NEW bal \in [Accounts -> Nat], Total(bal) = totalSupply,
         NEW u \in Users, NEW ids \in SUBSET NFTs, UnwrapNfts(bal, u, ids)
  PROVE  VaultStep
  <1>1. /\ Held' = Held \ ids /\ ids \subseteq Held
        /\ totalSupply' = totalSupply - ONE * Cardinality(ids)
        /\ totalSupply' >= 0
        /\ UNCHANGED <<closeTimestamp, now>>
    BY UnwrapFacts, MaxUintAssumption DEF IInv, Fractions, lifecycle
  <1>2. Vault!Redeem(ids)
    BY <1>1, SameCount DEF Vault!Redeem
  <1> QED
    BY <1>2 DEF VaultStep, Vault!Next

\* The operations on a whole transaction.
LEMMA NftStepInVault ==
  ASSUME IInv, NEW u \in Users, NftStep(u)
  PROVE  VaultStep
  <1> USE BoundsAssumption
  <1>1. PICK ids \in SUBSET NFTs :
          \/ Wrap(u, ids)
          \/ Unwrap(u, ids)
          \/ \E base \in Amount, minLp \in Limit :
                 NftAdd(u, base, ids, minLp, EtherFor(base))
          \/ \E lp \in Amount, minBase \in Limit : NftRemove(u, lp, minBase, ids)
          \/ \E maxInput \in Limit : NftBuy(u, ids, maxInput, EtherFor(maxInput))
          \/ \E minOut \in Limit : NftSell(u, ids, minOut)
    BY DEF NftStep
  <1>2. CASE WrapNfts(u, ids)
    BY <1>2, WrapDeposits
  <1>3. CASE Unwrap(u, ids)
    BY <1>3, UnwrapRedeems DEF Unwrap, IInv, TypesNat, LedgersAddUp
  <1>4. ASSUME NEW lp \in Amount, NEW minBase \in Limit, NftRemove(u, lp, minBase, ids)
        PROVE  VaultStep
    <2>1. PICK minFrac \in Nat :
            minFrac = Fractions(ids) /\ RemoveLiquidity(u, lp, minBase, minFrac)
      BY <1>4, FractionsNat DEF NftRemove
    <2>2. /\ RemoveBalances(u, lp) \in [Accounts -> Nat]
          /\ Total(RemoveBalances(u, lp)) = totalSupply
      BY <2>1, RemoveFacts DEF IInv, LedgersAddUp
    <2> QED
      BY <1>4, <2>2, UnwrapRedeems DEF NftRemove
  <1>5. ASSUME NEW maxInput \in Limit, NftBuy(u, ids, maxInput, EtherFor(maxInput))
        PROVE  VaultStep
    <2>1. PICK out \in Nat :
            /\ out = Fractions(ids)
            /\ BuyFractions(u, out, maxInput, EtherFor(maxInput))
      BY <1>5, FractionsNat DEF NftBuy
    <2>2. /\ BuyBalances(u, out) \in [Accounts -> Nat]
          /\ Total(BuyBalances(u, out)) = totalSupply
      BY <2>1, BuyFacts DEF IInv, LedgersAddUp
    <2> QED
      BY <1>5, <2>1, <2>2, UnwrapRedeems DEF NftBuy
  <1> QED
    BY <1>1, <1>2, <1>3, <1>4, <1>5 DEF Wrap, NftAdd, NftSell

\* close announces, withdraw sweeps.
LEMMA ExitStepInVault ==
  ASSUME IInv, NEW u \in Users, ExitStep(u)
  PROVE  VaultStep
  <1>1. CASE Close(u)
    <2>1. Vault!Announce
      BY <1>1 DEF Close, DestroyAccepts, tokens, Held, IInv, ListedWhileOpen,
                  Vault!Announce
    <2> QED
      BY <2>1 DEF VaultStep, Vault!Next
  <1>2. ASSUME NEW id \in NFTs, Withdraw(u, id) PROVE VaultStep
    <2>1. Vault!Sweep(id)
      BY <1>2, AccountsFinite
      DEF Withdraw, GraceOver, tokens, lifecycle, Held, IInv, TypesNat, Vault!Sweep
    <2> QED
      BY <2>1 DEF VaultStep, Vault!Next
  <1> QED
    BY <1>1, <1>2 DEF ExitStep

\* A transfer of an NFT to the contract is a gift; other transfers, and the
\* trades, are not seen by the vault.
LEMMA OutsideStepInVault ==
  ASSUME IInv, NEW u \in Users, OutsideStep(u)
  PROVE  VaultStep
  <1>1. ASSUME NEW to \in Accounts \ {u}, NEW id \in NFTs, NftTransfer(u, to, id)
        PROVE  VaultStep
    <2>1. CASE to = PAIR
      <3>1. Vault!Receive(id)
        BY <1>1, <2>1, AccountsFinite
        DEF NftTransfer, tokens, lifecycle, Held, IInv, TypesNat, Vault!Receive
      <3> QED
        BY <3>1 DEF VaultStep, Vault!Next
    <2>2. CASE to # PAIR
      BY <1>1, <2>2, AccountsFinite
      DEF NftTransfer, tokens, lifecycle, Held, IInv, TypesNat, VaultStep, Vault!vars
    <2> QED
      BY <2>1, <2>2
  <1>2. CASE UNCHANGED <<totalSupply, ownerOf, closeTimestamp, now>>
    BY <1>2 DEF Held, VaultStep, Vault!vars
  <1> QED
    BY <1>1, <1>2 DEF OutsideStep, FracTransfer, LpTransfer, BaseTransfer,
                      TransferOwnership, tokens, lifecycle

LEMMA AmmStepInVault ==
  ASSUME IInv, NEW u \in Users, AmmStep(u)
  PROVE  VaultStep
  <1>1. UNCHANGED <<totalSupply, ownerOf, lifecycle>>
    BY DEF AmmStep, Add, Remove, Buy, Sell
  <1> QED
    BY <1>1 DEF lifecycle, Held, VaultStep, Vault!vars

LEMMA NextInVault == IInv /\ [Next]_vars => VaultStep
  <1> SUFFICES ASSUME IInv, [Next]_vars PROVE VaultStep
    OBVIOUS
  <1>1. CASE Tick
    <2>1. Vault!Tick
      BY <1>1 DEF Tick, tokens, Held, Vault!Tick
    <2> QED
      BY <2>1 DEF VaultStep, Vault!Next
  <1>2. CASE UNCHANGED vars
    BY <1>2 DEF vars, tokens, lifecycle, Held, VaultStep, Vault!vars
  <1> QED
    BY <1>1, <1>2, AmmStepInVault, NftStepInVault, ExitStepInVault,
       OutsideStepInVault DEF Next

LEMMA InitInVault == Init => Vault!Init
  BY PairAssumption DEF Init, Held, Vault!Init

\* The pair implements the vault.
THEOREM PairImplementsVault == Spec => RefinesVault
  BY Invariance, NextInVault, InitInVault, PTL
  DEF Spec, RefinesVault, Vault!Spec, VaultStep
===========================================================================
