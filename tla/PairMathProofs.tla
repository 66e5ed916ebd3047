-------------------------- MODULE PairMathProofs --------------------------
(***************************************************************************)
(* What the operators of the pair promise, for every word size and any     *)
(* accounts: the operations on a ledger keep its sum, and the quotes keep  *)
(* their bounds.                                                           *)
(***************************************************************************)
EXTENDS Ledger, PairMath, NatProofs

(* Ledgers. *)

\* The coins of one account are as many as its balance.
LEMMA CoinsOfAccount ==
  ASSUME NEW a, NEW n \in Nat
  PROVE  /\ IsFiniteSet({a} \X (1..n))
         /\ Cardinality({a} \X (1..n)) = n
  <1>1. IsFiniteSet({a}) /\ Cardinality({a}) = 1
    BY FS_Singleton
  <1>2. IsFiniteSet(1..n) /\ Cardinality(1..n) = n
    <2>1. /\ IsFiniteSet(1..n)
          /\ Cardinality(1..n) = IF 1 > n THEN 0 ELSE n - 1 + 1
      BY FS_Interval
    <2> QED
      BY <2>1
  <1>3. /\ IsFiniteSet({a} \X (1..n))
        /\ Cardinality({a} \X (1..n)) = Cardinality({a}) * Cardinality(1..n)
    <2> DEFINE account == {a}
               range == 1..n
    <2>1. IsFiniteSet(account) /\ IsFiniteSet(range)
      BY <1>1, <1>2
    <2> HIDE DEF account, range
    <2>2. /\ IsFiniteSet(account \X range)
          /\ Cardinality(account \X range)
                = Cardinality(account) * Cardinality(range)
      BY <2>1, FS_Product
    <2> QED
      BY <2>2 DEF account, range
  <1>4. 1 * n = n
    OBVIOUS
  <1> QED
    BY <1>1, <1>2, <1>3, <1>4

\* A ledger of finitely many accounts has finitely many coins.
LEMMA CoinsFinite ==
  ASSUME NEW S, IsFiniteSet(S), NEW bal \in [S -> Nat]
  PROVE  IsFiniteSet(Coins(bal)) /\ Total(bal) \in Nat
  <1> DEFINE purse == [a \in S |-> {a} \X (1..bal[a])]
             purses == {{a} \X (1..bal[a]) : a \in S}
  <1>1. purse \in Surjection(S, purses)
    BY DEF Surjection
  <1>2. IsFiniteSet(purses)
    <2> HIDE DEF purse, purses
    <2> QED
      BY <1>1, FS_Surjection
  <1>3. \A T \in purses : IsFiniteSet(T)
    <2> SUFFICES ASSUME NEW x \in S PROVE IsFiniteSet({x} \X (1..bal[x]))
      OBVIOUS
    <2>1. bal[x] \in Nat
      OBVIOUS
    <2> QED
      BY <2>1, CoinsOfAccount
  <1>4. IsFiniteSet(UNION purses)
    BY <1>2, <1>3, FS_UNION
  <1>5. Coins(bal) = UNION purses
    BY DEF Coins
  <1> QED
    BY <1>4, <1>5, FS_CardinalityType DEF Total

\* The sum is the balance of one account and the coins of the others.
LEMMA TotalSplit ==
  ASSUME NEW S, IsFiniteSet(S), NEW bal \in [S -> Nat], NEW a \in S
  PROVE  LET others == {c \in Coins(bal) : c[1] # a}
         IN  /\ IsFiniteSet(others) /\ Cardinality(others) \in Nat
             /\ Total(bal) = bal[a] + Cardinality(others)
  <1> DEFINE others == {c \in Coins(bal) : c[1] # a}
             mine   == {a} \X (1..bal[a])
  <1>1. IsFiniteSet(Coins(bal))
    BY CoinsFinite
  <1>2. IsFiniteSet(others) /\ Cardinality(others) \in Nat
    <2>1. others \in SUBSET Coins(bal)
      OBVIOUS
    <2> HIDE DEF others
    <2> QED
      BY <1>1, <2>1, FS_Subset, FS_CardinalityType
  <1>3. Coins(bal) = mine \cup others
    BY DEF Coins
  <1>4. mine \cap others = {}
    OBVIOUS
  <1>5. IsFiniteSet(mine) /\ Cardinality(mine) = bal[a]
    BY CoinsOfAccount
  <1>6. Cardinality(mine \cup others) = bal[a] + Cardinality(others)
    <2> HIDE DEF others, mine
    <2>1. Cardinality(mine \cup others)
             = Cardinality(mine) + Cardinality(others) - Cardinality(mine \cap others)
      BY <1>2, <1>5, FS_Union
    <2>2. Cardinality(mine \cap others) = 0
      BY <1>4, FS_EmptySet
    <2> QED
      BY <2>1, <2>2, <1>2, <1>5
  <1> QED
    BY <1>2, <1>3, <1>6 DEF Total

\* Setting the balance of one account moves the sum by the difference.
LEMMA TotalUpdate ==
  ASSUME NEW S, IsFiniteSet(S), NEW bal \in [S -> Nat], NEW a \in S, NEW n \in Nat
  PROVE  Total([bal EXCEPT ![a] = n]) = Total(bal) - bal[a] + n
  <1> DEFINE others(b) == {c \in Coins(b) : c[1] # a}
             rest(b) == UNION {{x} \X (1..b[x]) : x \in S \ {a}}
  <1>1. PICK new \in [S -> Nat] : new = [bal EXCEPT ![a] = n]
    OBVIOUS
  <1>2. others(new) = others(bal)
    <2>1. \A b \in [S -> Nat] : others(b) = rest(b)
      BY DEF Coins
    <2>2. \A x \in S \ {a} : new[x] = bal[x]
      BY <1>1
    <2>3. rest(new) = rest(bal)
      BY <2>2
    <2> HIDE DEF others, rest
    <2> QED
      BY <2>1, <2>3
  <1>3. /\ Cardinality(others(bal)) \in Nat
        /\ Total(bal) = bal[a] + Cardinality(others(bal))
    BY TotalSplit
  <1>4. Total(new) = new[a] + Cardinality(others(new))
    BY TotalSplit
  <1> QED
    <2>1. new[a] = n
      BY <1>1
    <2> HIDE DEF others
    <2> QED
      BY <1>1, <1>2, <1>3, <1>4, <2>1

\* No balance exceeds the sum.
LEMMA BalanceBound ==
  ASSUME NEW S, IsFiniteSet(S), NEW bal \in [S -> Nat], NEW a \in S
  PROVE  bal[a] <= Total(bal) /\ Total(bal) \in Nat
  <1>1. PICK n \in Nat : Total(bal) = bal[a] + n
    BY TotalSplit
  <1> QED
    BY <1>1

\* An unchecked sum that fits the word is the sum.
LEMMA UncheckedFits ==
  ASSUME NEW x \in Nat, x <= MaxUint
  PROVE  Unchecked(x) = x
  BY MaxUintAssumption DEF Unchecked

\* A mint moves the sum by the amount, if the new sum fits the word.
LEMMA MintedTotal ==
  ASSUME NEW S, IsFiniteSet(S), NEW bal \in [S -> Nat], NEW to \in S,
         NEW amount \in Nat, Total(bal) + amount <= MaxUint
  PROVE  /\ Minted(bal, to, amount) \in [S -> Nat]
         /\ Minted(bal, to, amount) = [bal EXCEPT ![to] = bal[to] + amount]
         /\ Total(Minted(bal, to, amount)) = Total(bal) + amount
  <1>1. bal[to] <= Total(bal) /\ Total(bal) \in Nat
    BY BalanceBound
  <1>2. Unchecked(bal[to] + amount) = bal[to] + amount
    BY <1>1, UncheckedFits, MaxUintAssumption
  <1>3. Minted(bal, to, amount) = [bal EXCEPT ![to] = bal[to] + amount]
    BY <1>2 DEF Minted
  <1>4. Total([bal EXCEPT ![to] = bal[to] + amount])
          = Total(bal) - bal[to] + (bal[to] + amount)
    <2>1. bal[to] + amount \in Nat
      OBVIOUS
    <2> QED
      BY <2>1, TotalUpdate
  <1> QED
    BY <1>1, <1>3, <1>4

\* A burn moves it down by the amount.
LEMMA BurnedTotal ==
  ASSUME NEW S, IsFiniteSet(S), NEW bal \in [S -> Nat], NEW from \in S,
         NEW amount \in Nat, CanDebit(bal, from, amount)
  PROVE  /\ Burned(bal, from, amount) \in [S -> Nat]
         /\ Burned(bal, from, amount) = [bal EXCEPT ![from] = bal[from] - amount]
         /\ Total(Burned(bal, from, amount)) = Total(bal) - amount
         /\ amount <= Total(bal)
  <1>1. bal[from] <= Total(bal) /\ Total(bal) \in Nat
    BY BalanceBound
  <1>2. bal[from] - amount \in Nat
    BY DEF CanDebit
  <1>3. Total([bal EXCEPT ![from] = bal[from] - amount])
          = Total(bal) - bal[from] + (bal[from] - amount)
    BY <1>2, TotalUpdate
  <1> QED
    BY <1>1, <1>2, <1>3 DEF Burned, CanDebit

\* A transfer leaves it alone: the credit cannot wrap, as the comment of
\* _transferFrom says, because the sum fits the word.
LEMMA TransferFromTotal ==
  ASSUME NEW S, IsFiniteSet(S), NEW bal \in [S -> Nat],
         NEW from \in S, NEW to \in S, from # to,
         NEW amount \in Nat, CanDebit(bal, from, amount), Total(bal) <= MaxUint
  PROVE  /\ TransferFrom(bal, from, to, amount) \in [S -> Nat]
         /\ TransferFrom(bal, from, to, amount)[from] = bal[from] - amount
         /\ TransferFrom(bal, from, to, amount)[to] = bal[to] + amount
         /\ \A a \in S \ {from, to} :
                TransferFrom(bal, from, to, amount)[a] = bal[a]
         /\ Total(TransferFrom(bal, from, to, amount)) = Total(bal)
  <1>1. PICK debited \in [S -> Nat] :
          /\ debited = Burned(bal, from, amount)
          /\ debited = [bal EXCEPT ![from] = bal[from] - amount]
          /\ Total(debited) = Total(bal) - amount
    BY BurnedTotal
  <1>2. Total(debited) + amount <= MaxUint /\ Total(bal) \in Nat
    BY <1>1, CoinsFinite
  <1>3. TransferFrom(bal, from, to, amount) = Minted(debited, to, amount)
    BY <1>1 DEF TransferFrom, Minted, Burned
  <1>4. /\ Minted(debited, to, amount) \in [S -> Nat]
        /\ Minted(debited, to, amount)
             = [debited EXCEPT ![to] = debited[to] + amount]
        /\ Total(Minted(debited, to, amount)) = Total(debited) + amount
    BY <1>2, MintedTotal
  <1>5. Total(TransferFrom(bal, from, to, amount)) = Total(bal)
    BY <1>1, <1>2, <1>3, <1>4
  <1>6. TransferFrom(bal, from, to, amount)
          = [[bal EXCEPT ![from] = bal[from] - amount]
                EXCEPT ![to] = bal[to] + amount]
    BY <1>1, <1>3, <1>4
  <1>7. bal[from] - amount \in Nat
    BY DEF CanDebit
  <1> QED
    BY <1>5, <1>6, <1>7

\* A payment moves the amount and nothing else.
LEMMA PayFacts ==
  ASSUME NEW S, NEW base \in [S -> Nat], NEW from \in S, NEW to \in S, from # to,
         NEW amount \in Nat, amount <= base[from]
  PROVE  /\ Pay(base, from, to, amount) \in [S -> Nat]
         /\ Pay(base, from, to, amount)[from] = base[from] - amount
         /\ Pay(base, from, to, amount)[to] = base[to] + amount
         /\ \A a \in S \ {from, to} : Pay(base, from, to, amount)[a] = base[a]
  <1>1. base[from] - amount \in Nat
    OBVIOUS
  <1>2. Pay(base, from, to, amount)
          = [[base EXCEPT ![from] = base[from] - amount]
                EXCEPT ![to] = base[to] + amount]
    BY DEF Pay
  <1> QED
    BY <1>1, <1>2

\* It leaves the sum alone.
LEMMA PayTotal ==
  ASSUME NEW S, IsFiniteSet(S), NEW base \in [S -> Nat],
         NEW from \in S, NEW to \in S, from # to,
         NEW amount \in Nat, amount <= base[from]
  PROVE  Total(Pay(base, from, to, amount)) = Total(base)
  <1>1. base[from] - amount \in Nat /\ base[to] + amount \in Nat
    OBVIOUS
  <1>2. PICK debited \in [S -> Nat] :
          debited = [base EXCEPT ![from] = base[from] - amount]
    BY <1>1
  <1>3. Total(debited) = Total(base) - base[from] + (base[from] - amount)
    <2>1. Total([base EXCEPT ![from] = base[from] - amount])
            = Total(base) - base[from] + (base[from] - amount)
      BY <1>1, TotalUpdate
    <2> QED
      BY <1>2, <2>1
  <1>4. debited[to] = base[to]
    BY <1>2
  <1>5. Pay(base, from, to, amount) = [debited EXCEPT ![to] = base[to] + amount]
    BY <1>2, <1>4 DEF Pay
  <1>6. Total([debited EXCEPT ![to] = base[to] + amount])
          = Total(debited) - debited[to] + (base[to] + amount)
    BY <1>1, TotalUpdate
  <1>7. Total(base) \in Nat
    BY CoinsFinite
  <1> QED
    BY <1>3, <1>4, <1>5, <1>6, <1>7

\* The ledger of a new token is empty.
LEMMA EmptyLedger ==
  ASSUME NEW S
  PROVE  Total([a \in S |-> 0]) = 0
  <1>1. Coins([a \in S |-> 0]) = {}
    BY DEF Coins
  <1> QED
    BY <1>1, FS_EmptySet DEF Total

---------------------------------------------------------------------------
(* Quotes. *)

\* Integer division, by its two bounds.
LEMMA DivFacts ==
  ASSUME NEW a \in Nat, NEW b \in Nat \ {0}
  PROVE  /\ a \div b \in Nat
         /\ (a \div b) * b <= a
         /\ a < (a \div b) * b + b
  OBVIOUS

\* A product of naturals is a natural.
LEMMA ProductNat ==
  ASSUME NEW a \in Nat, NEW b \in Nat
  PROVE  a * b \in Nat
  OBVIOUS

\* Products are monotone.
LEMMA ProductMono ==
  ASSUME NEW a \in Nat, NEW b \in Nat, NEW c \in Nat, a <= b
  PROVE  a * c <= b * c
  OBVIOUS

\* A factor that is positive can be cancelled.
LEMMA ProductCancel ==
  ASSUME NEW a \in Nat, NEW b \in Nat, NEW c \in Nat \ {0}
  PROVE  /\ a * c <= b * c => a <= b
         /\ a * c < b * c => a < b
  OBVIOUS

\* Math.sqrt returns a word.
LEMMA SqrtNat ==
  ASSUME NEW a \in Nat
  PROVE  /\ Sqrt(a) \in Nat
         /\ Sqrt(a) * Sqrt(a) <= a /\ a < (Sqrt(a) + 1) * (Sqrt(a) + 1)
  <1>1. /\ Sqrt(a) \in 0..a
        /\ Sqrt(a) * Sqrt(a) <= a /\ a < (Sqrt(a) + 1) * (Sqrt(a) + 1)
    BY RootExists, Zenon DEF Sqrt
  <1> QED
    BY <1>1

---------------------------------------------------------------------------
\* A removal pays out at most the reserve, and all of it only to the holder of
\* the whole supply; what stays behind is at least the share of those who stay.
LEMMA RemoveShare ==
  ASSUME NEW lp \in Nat, NEW X \in Nat, NEW L \in Nat \ {0}, lp <= L
  PROVE  LET out == (X * lp) \div L
         IN  /\ out \in 0..X
             /\ lp < L /\ X > 0 => out < X
             /\ lp = L => out = X
             /\ (X - out) * L >= X * (L - lp)
  <1>1. PICK out \in Nat : /\ out = (X * lp) \div L
                           /\ out * L <= X * lp /\ X * lp < out * L + L
    BY ProductNat, DivFacts
  <1>2. out <= X
    <2>1. X * lp <= X * L
      BY ProductMono
    <2>2. out * L <= X * L
      BY <1>1, <2>1
    <2> QED
      BY <2>2
  <1>3. ASSUME lp < L, X > 0 PROVE out < X
    <2>1. X * lp < X * L
      BY <1>3
    <2>2. out * L < X * L
      BY <1>1, <2>1
    <2> QED
      BY <2>2
  <1>4. (X - out) * L >= X * (L - lp)
    <2>1. (X - out) * L = X * L - out * L /\ X * (L - lp) = X * L - X * lp
      OBVIOUS
    <2> QED
      BY <1>1, <2>1
  <1>5. ASSUME lp = L PROVE out = X
    <2>1. X * L < (out + 1) * L
      BY <1>1, <1>5
    <2>2. X < out + 1
      BY <2>1, ProductCancel
    <2> QED
      BY <1>2, <2>2
  <1> QED
    BY <1>1, <1>2, <1>3, <1>4, <1>5

\* A later deposit mints at most the share it brings, on either side; the first
\* one mints something.
LEMMA AddShare ==
  ASSUME NEW base \in Nat, NEW frac \in Nat, NEW B \in Nat, NEW F \in Nat,
         NEW L \in Nat, AddQuoteOk(base, frac, B, F, L)
  PROVE  LET lp == AddQuote(base, frac, B, F, L)
         IN  /\ lp \in Nat
             /\ L = 0 /\ base > 0 /\ frac > 0 => lp > 0
             /\ L > 0 => /\ (B + base) * L >= B * (L + lp)
                         /\ (F + frac) * L >= F * (L + lp)
  <1>1. CASE L = 0
    <2>1. base * frac \in Nat
      BY ProductNat
    <2>2. AddQuote(base, frac, B, F, L) = Sqrt(base * frac)
      BY <1>1 DEF AddQuote
    <2>3. PICK s \in Nat : s = Sqrt(base * frac) /\ base * frac < (s + 1) * (s + 1)
      BY <2>1, SqrtNat
    <2>4. ASSUME base > 0, frac > 0 PROVE s > 0
      <3>1. base * frac > 0
        BY <2>4
      <3>2. s # 0
        <4> SUFFICES ASSUME s = 0 PROVE FALSE
          OBVIOUS
        <4>1. (s + 1) * (s + 1) = 1
          OBVIOUS
        <4> QED
          BY <2>1, <2>3, <3>1, <4>1
      <3> QED
        BY <3>2
    <2> QED
      BY <1>1, <2>2, <2>3, <2>4
  <1>2. CASE L > 0
    <2>1. PICK b \in Nat : b = (base * L) \div B /\ b * B <= base * L
      BY <1>2, ProductNat, DivFacts DEF AddQuoteOk
    <2>2. PICK f \in Nat : f = (frac * L) \div F /\ f * F <= frac * L
      BY <1>2, ProductNat, DivFacts DEF AddQuoteOk
    <2>3. PICK lp \in Nat : /\ lp = AddQuote(base, frac, B, F, L)
                            /\ lp <= b /\ lp <= f
      BY <1>2, <2>1, <2>2 DEF AddQuote, Least
    <2>4. lp * B <= base * L /\ lp * F <= frac * L
      BY <2>1, <2>2, <2>3, ProductMono
    <2>5. /\ (B + base) * L = B * L + base * L /\ B * (L + lp) = B * L + lp * B
          /\ (F + frac) * L = F * L + frac * L /\ F * (L + lp) = F * L + lp * F
      OBVIOUS
    <2>6. (B + base) * L >= B * (L + lp) /\ (F + frac) * L >= F * (L + lp)
      BY <2>4, <2>5
    <2> QED
      BY <1>2, <2>3, <2>6
  <1> QED
    BY <1>1, <1>2

\* A purchase takes less than the whole reserve and costs what the curve says,
\* rounded down.
LEMMA BuyCurve ==
  ASSUME NEW out \in Nat, NEW B \in Nat, NEW F \in Nat, BuyQuoteOk(out, B, F)
  PROVE  LET in == BuyQuote(out, B, F)
         IN  /\ in \in Nat /\ out < F
             /\ B = 0 => in = 0
             /\ (F - out) * (1000 * B + 997 * in) <= 1000 * B * F
             /\ (F - out) * (1000 * B + 997 * (in + 1)) > 1000 * B * F
  <1>1. out < F
    BY DEF BuyQuoteOk
  <1>2. PICK G \in Nat \ {0} : G = F - out
    BY <1>1
  <1>3. out * 1000 * B \in Nat /\ G * 997 \in Nat \ {0}
    <2>1. out * 1000 \in Nat
      OBVIOUS
    <2> QED
      BY <2>1, ProductNat
  <1>4. PICK in \in Nat : /\ in = BuyQuote(out, B, F)
                          /\ in * (G * 997) <= out * 1000 * B
                          /\ out * 1000 * B < in * (G * 997) + G * 997
    BY <1>2, <1>3, DivFacts DEF BuyQuote
  <1>5. /\ G * (1000 * B + 997 * in) = 1000 * (G * B) + in * (G * 997)
        /\ G * (1000 * B + 997 * (in + 1))
              = 1000 * (G * B) + in * (G * 997) + G * 997
    OBVIOUS
  <1>6. 1000 * B * F = 1000 * (G * B) + out * 1000 * B
    <2>1. F = G + out
      BY <1>2
    <2> QED
      BY <2>1
  <1>7. ASSUME B = 0 PROVE in = 0
    <2>1. in * (G * 997) <= 0
      BY <1>4, <1>7
    <2> QED
      BY <2>1
  <1> QED
    BY <1>1, <1>2, <1>4, <1>5, <1>6, <1>7

\* A sale pays what the curve says, rounded down, and never the whole reserve
\* of a pool that has both tokens.
LEMMA SellCurve ==
  ASSUME NEW in \in Nat, NEW B \in Nat, NEW F \in Nat, SellQuoteOk(in, B, F)
  PROVE  LET out == SellQuote(in, B, F)
         IN  /\ out \in 0..B
             /\ B > 0 /\ F > 0 => out < B
             /\ (B - out) * (1000 * F + 997 * in) >= 1000 * B * F
             /\ (B - out - 1) * (1000 * F + 997 * in) < 1000 * B * F
  <1>1. PICK D \in Nat \ {0} : D = F * 1000 + in * 997
    BY DEF SellQuoteOk
  <1>2. in * 997 * B \in Nat
    <2>1. in * 997 \in Nat
      OBVIOUS
    <2> QED
      BY <2>1, ProductNat
  <1>3. PICK out \in Nat : /\ out = SellQuote(in, B, F)
                           /\ out * D <= in * 997 * B
                           /\ in * 997 * B < out * D + D
    BY <1>1, <1>2, DivFacts DEF SellQuote
  <1>4. B * D = 1000 * B * F + in * 997 * B
    BY <1>1
  <1>5. out <= B
    <2>1. out * D <= B * D
      BY <1>3, <1>4
    <2> QED
      BY <2>1, ProductCancel
  <1>6. ASSUME B > 0, F > 0 PROVE out < B
    <2>1. 1000 * B * F > 0
      BY <1>6
    <2>2. out * D < B * D
      BY <1>3, <1>4, <2>1
    <2> QED
      BY <2>2, ProductCancel
  <1>7. /\ (B - out) * D = B * D - out * D
        /\ (B - out - 1) * D = B * D - out * D - D
    OBVIOUS
  <1>8. 1000 * F + 997 * in = D
    BY <1>1
  <1> QED
    BY <1>3, <1>4, <1>5, <1>6, <1>7, <1>8
===========================================================================
