---------------------------- MODULE OzSqrtProofs ----------------------------
(***************************************************************************)
(* Math.sqrt returns the square root rounded down for every word of every  *)
(* width 2^LogWidth; the code is the case LogWidth = 8.                    *)
(*                                                                         *)
(* The first guess g is a power of two with g <= sqrt(a) < 2g.  A round of *)
(* Newton takes an estimate x that is off by t/2 at most to one that is    *)
(* off by t^2/(8x) at most, so the error of g falls as the squares of      *)
(* powers of two, and is at most 1/2 in the end.                           *)
(***************************************************************************)
EXTENDS OzSqrt, PairMathProofs

\* The estimate x of the root of v is too large by t/2 at most.
Close(v, x, t) == 2 * x <= t \/ (2 * x - t) * (2 * x - t) <= 4 * v

\* One round of Newton.
Better(v, x) == (x + v \div x) \div 2

---------------------------------------------------------------------------
(* A round of Newton. *)

\* What the two divisions leave.
LEMMA BetterFacts ==
  ASSUME NEW v \in Nat, NEW x \in Nat \ {0}
  PROVE  \E q \in Nat : /\ q = v \div x
                        /\ q * x <= v /\ v < q * x + x
                        /\ Better(v, x) \in Nat
                        /\ 2 * Better(v, x) <= x + q
                        /\ x + q <= 2 * Better(v, x) + 1
  <1>1. PICK q \in Nat : q = v \div x /\ q * x <= v /\ v < q * x + x
    BY DivFacts
  <1>2. /\ (x + q) \div 2 \in Nat
        /\ 2 * ((x + q) \div 2) <= x + q /\ x + q <= 2 * ((x + q) \div 2) + 1
    OBVIOUS
  <1> QED
    BY <1>1, <1>2 DEF Better

\* From any estimate, the next one is not below the root rounded down.
LEMMA BetterAbove ==
  ASSUME NEW v \in Nat, NEW x \in Nat \ {0}
  PROVE  v < (Better(v, x) + 1) * (Better(v, x) + 1)
  <1>1. PICK q \in Nat : /\ v < q * x + x
                         /\ Better(v, x) \in Nat
                         /\ x + q <= 2 * Better(v, x) + 1
    BY BetterFacts
  <1>2. PICK b \in Nat : b = Better(v, x)
    BY <1>1
  <1>3. v + 1 <= x * (q + 1)
    BY <1>1
  <1>4. 4 * (x * (q + 1)) <= (x + q + 1) * (x + q + 1)
    <2>1. (x + q + 1) * (x + q + 1) - 4 * (x * (q + 1)) = (x - (q + 1)) * (x - (q + 1))
      BY SMT
    <2>2. 0 <= (x - (q + 1)) * (x - (q + 1))
      <3>1. \A i \in Int : 0 <= i * i
        BY SMT
      <3> QED
        BY <3>1
    <2> QED
      BY <2>1, <2>2
  <1>5. (x + q + 1) * (x + q + 1) <= (2 * b + 2) * (2 * b + 2)
    BY <1>1, <1>2
  <1>6. (2 * b + 2) * (2 * b + 2) = 4 * ((b + 1) * (b + 1))
    BY SMT
  <1> QED
    BY <1>2, <1>3, <1>4, <1>5, <1>6

\* A number whose square is below another's is below it, and conversely.
LEMMA SquareMono ==
  ASSUME NEW i \in Nat, NEW j \in Nat
  PROVE  /\ i <= j => i * i <= j * j
         /\ i < j => i * i < j * j
  OBVIOUS

\* The error falls to its square.
LEMMA BetterClose ==
  ASSUME NEW v \in Nat \ {0}, NEW x \in Nat \ {0}, NEW t \in Nat, NEW s \in Nat \ {0},
         Close(v, x, t), v < (x + 1) * (x + 1) \/ 4 * v < (2 * x + t) * (2 * x + t),
         t * t <= 4 * (x * s)
  PROVE  Close(v, Better(v, x), s)
  <1>1. PICK q \in Nat : /\ q * x <= v /\ v < q * x + x
                         /\ Better(v, x) \in Nat
                         /\ 2 * Better(v, x) <= x + q
    BY BetterFacts
  <1>2. PICK b \in Nat : b = Better(v, x)
    BY <1>1
  <1> SUFFICES ASSUME NEW y \in Nat, y = 2 * b - s, y > 0, y * y > 4 * v PROVE FALSE
    BY <1>2 DEF Close
  <1>3. CASE 4 * v < (2 * x + t) * (2 * x + t)
    <2>1. 2 * (x * b) <= x * x + v
      <3>1. x * (2 * b) <= x * (x + q)
        BY <1>1, <1>2
      <3>2. x * (2 * b) = 2 * (x * b) /\ x * (x + q) = x * x + q * x
        BY SMT
      <3> QED
        BY <1>1, <3>1, <3>2
    <2>2. 4 * (x * b) = 2 * (x * y) + 2 * (x * s)
      <3>1. 2 * b = y + s
        OBVIOUS
      <3>2. x * (2 * b) = x * (y + s)
        BY <3>1
      <3>3. x * (2 * b) = 2 * (x * b) /\ x * (y + s) = x * y + x * s
        BY SMT
      <3> QED
        BY <3>2, <3>3
    <2>3. 4 * (x * y) + t * t <= 4 * (x * x) + 4 * v
      BY <2>1, <2>2
    <2>4. t * t < (2 * x - y) * (2 * x - y)
      <3>1. (2 * x - y) * (2 * x - y) = 4 * (x * x) - 4 * (x * y) + y * y
        BY SMT
      <3> QED
        BY <2>3, <3>1
    <2>5. y > 2 * x + t \/ y < 2 * x - t
      <3>1. SUFFICES ASSUME NEW d \in Nat, d = 2 * x - y \/ d = y - 2 * x, d <= t
                     PROVE  FALSE
        <4>1. 2 * x - y \in Nat \/ y - 2 * x \in Nat
          OBVIOUS
        <4> QED
          BY <3>1, <4>1
      <3>2. d * d <= t * t
        BY <3>1, SquareMono
      <3>3. d * d = (2 * x - y) * (2 * x - y)
        BY <3>1
      <3> QED
        BY <2>4, <3>2, <3>3
    <2>6. CASE y > 2 * x + t
      <3>1. 2 * x * (2 * x + t) <= 2 * x * y
        BY <2>6
      <3>2. 4 * (x * y) + t * t >= 4 * (x * x) + (2 * x + t) * (2 * x + t)
        <4>1. (2 * x + t) * (2 * x + t) = 4 * (x * x) + 4 * (x * t) + t * t
          BY SMT
        <4>2. 2 * x * (2 * x + t) = 4 * (x * x) + 2 * (x * t) /\ 2 * x * y = 2 * (x * y)
          BY SMT
        <4> QED
          BY <3>1, <4>1, <4>2
      <3> QED
        BY <1>3, <2>3, <3>2
    <2>7. CASE y < 2 * x - t
      <3>1. PICK d \in Nat : d = 2 * x - t
        BY <2>7, SMTT(20)
      <3>2. d * d <= 4 * v
        BY <2>7, <3>1 DEF Close
      <3>3. y * y < d * d
        BY <2>7, <3>1, SquareMono
      <3> QED
        BY <3>2, <3>3
    <2> QED
      BY <2>5, <2>6, <2>7
  <1>4. CASE x * x <= v /\ v < (x + 1) * (x + 1)
    <2>1. v <= x * x + 2 * x
      BY <1>4
    <2>2. q <= x + 2
      <3> SUFFICES ASSUME q >= x + 3 PROVE FALSE
        OBVIOUS
      <3>1. (x + 3) * x <= q * x
        OBVIOUS
      <3>2. (x + 3) * x = x * x + 3 * x
        BY SMT
      <3> QED
        BY <1>1, <2>1, <3>1, <3>2
    <2>3. CASE b <= x
      <3>1. y * y <= (2 * x) * (2 * x)
        BY <2>3, SquareMono
      <3>2. (2 * x) * (2 * x) = 4 * (x * x)
        BY SMT
      <3> QED
        BY <1>4, <3>1, <3>2
    <2>4. CASE b > x
      <3>1. q = x + 2 /\ b = x + 1
        <4>1. 2 * b <= x + q
          BY <1>1, <1>2
        <4> QED
          BY <2>2, <2>4, <4>1
      <3>2. x * x + 2 * x <= v
        BY <1>1, <3>1
      <3>3. y * y <= (2 * x + 1) * (2 * x + 1)
        BY <3>1, SquareMono
      <3>4. (2 * x + 1) * (2 * x + 1) = 4 * (x * x) + 4 * x + 1
        BY SMT
      <3> QED
        BY <3>2, <3>3, <3>4
    <2> QED
      BY <2>3, <2>4
  <1>5. CASE x * x > v
    <2>1. (2 * x) * (2 * x) <= (2 * x + t) * (2 * x + t)
      BY SquareMono
    <2>2. (2 * x) * (2 * x) = 4 * (x * x)
      BY SMT
    <2> QED
      BY <1>3, <1>5, <2>1, <2>2
  <1> QED
    BY <1>3, <1>4, <1>5

\* An estimate that is close to the root stays within 5/2 of the first guess.
LEMMA CloseBound ==
  ASSUME NEW v \in Nat, NEW g \in Nat \ {0}, v < 4 * (g * g),
         NEW x \in Nat, NEW t \in Nat, t <= g, Close(v, x, t)
  PROVE  2 * x <= 5 * g
  <1>1. CASE 2 * x <= t
    BY <1>1
  <1>2. CASE 2 * x > t
    <2>1. PICK d \in Nat : d = 2 * x - t
      BY <1>2, 2 * x - t \in Nat
    <2>2. d * d < (4 * g) * (4 * g)
      <3>1. (4 * g) * (4 * g) = 16 * (g * g)
        BY SMT
      <3>2. d * d <= 4 * v
        BY <1>2, <2>1 DEF Close
      <3> QED
        BY <3>1, <3>2
    <2>3. d < 4 * g
      BY <2>2, SquareMono, 4 * g \in Nat
    <2> QED
      BY <2>1, <2>3
  <1> QED
    BY <1>1, <1>2

\* The root of v is recognized by its two bounds.
LEMMA SqrtUnique ==
  ASSUME NEW v \in Nat, NEW r \in Nat, r * r <= v, v < (r + 1) * (r + 1)
  PROVE  Sqrt(v) = r
  <1>1. PICK s \in Nat : s = Sqrt(v) /\ s * s <= v /\ v < (s + 1) * (s + 1)
    BY SqrtNat
  <1>2. r < s + 1 /\ s < r + 1
    <2>1. r * r < (s + 1) * (s + 1) /\ s * s < (r + 1) * (r + 1)
      BY <1>1
    <2> QED
      BY <2>1, SquareMono, r + 1 \in Nat, s + 1 \in Nat
  <1> QED
    BY <1>1, <1>2

\* The last step: an estimate that is right, or too large by one when v is not
\* much below its square.
LEMMA LastStep ==
  ASSUME NEW v \in Nat \ {0}, NEW x \in Nat \ {0},
         v < (x + 1) * (x + 1), x * (x - 1) <= v
  PROVE  Least(x, v \div x) = Sqrt(v)
  <1>1. PICK q \in Nat : q = v \div x /\ q * x <= v /\ v < q * x + x
    BY DivFacts
  <1>2. CASE x * x <= v
    <2>1. q >= x
      <3> SUFFICES ASSUME q + 1 <= x PROVE FALSE
        OBVIOUS
      <3>1. (q + 1) * x <= x * x /\ (q + 1) * x = q * x + x
        BY SMT
      <3> QED
        BY <1>1, <1>2, <3>1
    <2>2. Sqrt(v) = x
      BY <1>2, SqrtUnique
    <2> QED
      BY <1>1, <2>1, <2>2 DEF Least
  <1>3. CASE v < x * x
    <2>1. q < x
      <3> SUFFICES ASSUME x <= q PROVE FALSE
        OBVIOUS
      <3>1. x * x <= q * x
        BY SMT
      <3> QED
        BY <1>1, <1>3, <3>1
    <2>2. q >= x - 1
      <3> SUFFICES ASSUME q + 1 <= x - 1 PROVE FALSE
        OBVIOUS
      <3>1. (q + 1) * x <= (x - 1) * x /\ (q + 1) * x = q * x + x /\ (x - 1) * x = x * (x - 1)
        BY SMT
      <3> QED
        BY <1>1, <3>1
    <2>3. PICK r \in Nat : r = x - 1
      OBVIOUS
    <2>4. r * r <= v /\ v < (r + 1) * (r + 1)
      <3>1. r * r <= x * r
        BY <2>3, SMT
      <3> QED
        BY <1>3, <2>3, <3>1
    <2>5. Sqrt(v) = r
      BY <2>3, <2>4, SqrtUnique
    <2> QED
      BY <1>1, <2>1, <2>2, <2>3, <2>5 DEF Least
  <1> QED
    BY <1>2, <1>3

---------------------------------------------------------------------------
(* The inductive invariant.  In the first loop, result is the logarithm of *)
(* a less what value still holds.  In the second, after k rounds on the    *)
(* first guess 2^e, the error of the estimate is at most half of           *)
(* 2^(e + 1 - 2^k), or 1/2.                                                *)

NewtonAt(e, k) ==
    LET g == 2^e
    IN  /\ g <= result /\ 2 * result <= 5 * g
        /\ g * g <= a /\ a < 4 * (g * g) /\ e + 1 <= 2^(LogWidth - 1)
        /\ k = 0 => result = g
        /\ k = 1 => result = Better(a, g)
        /\ k >= 1 => a < (result + 1) * (result + 1)
        /\ k >= 2 => \/ Close(a, result, 1)
                     \/ 2^k <= e + 1 /\ Close(a, result, 2^(e + 1 - 2^k))

SqrtInv ==
    /\ a \in 0..MaxUint
    /\ result \in Nat
    /\ pc \in {"log2", "newton", "done"}
    /\ pc = "log2" =>
          /\ round \in 0..LogWidth
          /\ value \in Nat \ {0} /\ value < 2^(2^round)
          /\ 2^result * value <= a /\ a < 2^result * (value + 1)
    /\ pc = "newton" =>
          /\ round \in 0..LogWidth - 1
          /\ \E e \in Nat : NewtonAt(e, LogWidth - 1 - round)
    /\ pc = "done" => result = Sqrt(a)

LEMMA InitSqrt == Init => SqrtInv
  <1> SUFFICES ASSUME Init PROVE SqrtInv
    OBVIOUS
  <1>1. MaxUint \in Nat /\ MaxUint = 2^(2^LogWidth) - 1 /\ LogWidth \in Nat
    BY MaxUintAssumption, WidthAssumption
  <1>2. CASE a = 0
    <2>1. Sqrt(0) = 0
      BY SqrtUnique
    <2> QED
      BY <1>1, <1>2, <2>1 DEF Init, SqrtInv
  <1>3. CASE a # 0
    <2>1. a < 2^(2^LogWidth) /\ 2^result = 1 /\ a \in Nat \ {0}
      BY <1>1, <1>3, PowerZero, PowerPositive DEF Init
    <2> QED
      BY <1>1, <1>3, <2>1 DEF Init, SqrtInv
  <1> QED
    BY <1>2, <1>3

\* A round of log2 halves the width of value.
LEMMA Log2Step == SqrtInv /\ Log2Round => SqrtInv'
  <1> SUFFICES ASSUME SqrtInv, Log2Round PROVE SqrtInv'
    OBVIOUS
  <1>1. /\ a \in 0..MaxUint /\ a \in Nat /\ result \in Nat /\ value \in Nat \ {0}
        /\ round \in 1..LogWidth /\ round - 1 \in Nat
        /\ value < 2^(2^round)
        /\ 2^result * value <= a /\ a < 2^result * (value + 1)
    BY MaxUintAssumption, WidthAssumption DEF SqrtInv, Log2Round
  <1>2. PICK n \in Nat : n = 2^(round - 1)
    BY <1>1, PowerPositive
  <1>3. PICK p \in Nat \ {0} : p = 2^n
    BY PowerPositive
  <1>4. PICK r \in Nat \ {0} : r = 2^result
    BY <1>1, PowerPositive
  <1>5. 2^(2^round) = p * p
    <2>1. 2^round = 2 * n
      BY <1>1, <1>2, PowerNext, (round - 1) + 1 = round
    <2> QED
      BY <1>3, <2>1, PowerSquare
  <1>6. PICK q \in Nat : q = value \div p /\ q * p <= value /\ value < q * p + p
    BY <1>1, DivFacts
  <1>7. /\ round' = round - 1 /\ a' = a /\ pc' = "log2"
        /\ value' = IF q > 0 THEN q ELSE value
        /\ result' = IF q > 0 THEN result + n ELSE result
    BY <1>2, <1>3, <1>6 DEF Log2Round, ShiftRight
  <1>8. CASE q > 0
    <2>1. q < p
      <3> SUFFICES ASSUME p <= q PROVE FALSE
        OBVIOUS
      <3>1. p * p <= q * p
        BY SMT
      <3> QED
        BY <1>1, <1>5, <1>6, <3>1
    <2>2. 2^(result + n) = r * p
      BY <1>1, <1>3, <1>4, PowerSum
    <2>3. r * p * q <= a
      <3>1. r * (q * p) <= r * value
        BY <1>1, <1>6
      <3>2. r * (q * p) = r * p * q
        BY SMT
      <3> QED
        BY <1>1, <1>4, <3>1, <3>2
    <2>4. a < r * p * (q + 1)
      <3>1. r * (value + 1) <= r * (q * p + p)
        BY <1>1, <1>6
      <3>2. r * (q * p + p) = r * p * (q + 1)
        BY SMT
      <3> QED
        BY <1>1, <1>4, <3>1, <3>2
    <2>5. value' = q /\ result' = result + n
      BY <1>7, <1>8
    <2>6. value' < 2^(2^round') /\ 2^result' * value' <= a' /\ a' < 2^result' * (value' + 1)
      BY <1>2, <1>3, <1>7, <2>1, <2>2, <2>3, <2>4, <2>5
    <2>7. round' \in 0..LogWidth /\ value' \in Nat \ {0} /\ result' \in Nat
      BY <1>1, <1>7, <1>8, <2>5, WidthAssumption
    <2> QED
      BY <1>1, <1>7, <2>6, <2>7 DEF SqrtInv
  <1>9. CASE q = 0
    <2>1. value < p
      BY <1>6, <1>9
    <2>2. value' < 2^(2^round') /\ 2^result' * value' <= a' /\ a' < 2^result' * (value' + 1)
      BY <1>1, <1>2, <1>3, <1>7, <1>9, <2>1
    <2>3. round' \in 0..LogWidth /\ value' \in Nat \ {0} /\ result' \in Nat
      BY <1>1, <1>7, <1>9, WidthAssumption
    <2> QED
      BY <1>1, <1>7, <2>2, <2>3 DEF SqrtInv
  <1> QED
    BY <1>8, <1>9

\* A first guess fits into half of the bits.
LEMMA GuessFits ==
  ASSUME NEW e \in Nat, NEW v \in 0..MaxUint, 2^e * 2^e <= v
  PROVE  e + 1 <= 2^(LogWidth - 1)
  <1>1. LogWidth - 1 \in Nat /\ LogWidth \in Nat /\ MaxUint = 2^(2^LogWidth) - 1
    BY WidthAssumption
  <1>2. PICK h \in Nat : h = 2^(LogWidth - 1)
    BY <1>1, PowerPositive
  <1>3. 2^LogWidth = 2 * h
    BY <1>1, <1>2, PowerNext, (LogWidth - 1) + 1 = LogWidth
  <1> SUFFICES ASSUME h <= e PROVE FALSE
    BY <1>2
  <1>4. 2^(2 * h) <= 2^(2 * e)
    BY PowerMono, 2 * h \in Nat, 2 * e \in Nat
  <1>5. 2^(2 * e) <= v
    BY PowerSquare
  <1>6. 2^(2 * h) \in Nat /\ 2^(2 * e) \in Nat /\ v \in Nat
    BY PowerPositive, MaxUintAssumption, 2 * h \in Nat, 2 * e \in Nat
  <1>7. v < 2^(2 * h)
    BY <1>1, <1>3, <1>6
  <1> QED
    BY <1>4, <1>5, <1>6, <1>7

\* The first guess is a power of two next to the root.
LEMMA GuessStep == SqrtInv /\ Guess => SqrtInv'
  <1> SUFFICES ASSUME SqrtInv, Guess PROVE SqrtInv'
    OBVIOUS
  <1>1. /\ a \in 0..MaxUint /\ a \in Nat /\ result \in Nat /\ value \in Nat \ {0}
        /\ value < 2^(2^0)
        /\ 2^result * value <= a /\ a < 2^result * (value + 1)
    BY MaxUintAssumption DEF SqrtInv, Guess
  <1>2. value = 1
    <2>1. 2^1 = 2
      BY SmallPowers
    <2> QED
      BY <1>1, <2>1, PowerZero
  <1>3. PICK r \in Nat \ {0} : r = 2^result
    BY <1>1, PowerPositive
  <1>4. r <= a /\ a < 2 * r
    BY <1>1, <1>2, <1>3
  <1>5. PICK e \in Nat : e = result \div 2 /\ (result = 2 * e \/ result = 2 * e + 1)
    BY <1>1
  <1>6. PICK g \in Nat \ {0} : g = 2^e
    BY PowerPositive
  <1>7. g * g <= a /\ a < 4 * (g * g)
    <2>1. 2^(2 * e) = g * g
      BY <1>6, PowerSquare
    <2>2. 2^(2 * e + 1) = 2 * (g * g)
      BY <2>1, PowerNext, 2 * e \in Nat
    <2>3. PICK c \in Nat : c = g * g
      BY g * g \in Nat
    <2>4. r = c \/ r = 2 * c
      BY <1>3, <1>5, <2>1, <2>2, <2>3
    <2>5. c <= a /\ a < 4 * c
      BY <1>1, <1>4, <2>3, <2>4
    <2> QED
      BY <2>3, <2>5
  <1>8. e + 1 <= 2^(LogWidth - 1)
    BY <1>1, <1>6, <1>7, GuessFits
  <1>9. result' = g /\ round' = LogWidth - 1 /\ pc' = "newton" /\ a' = a
    <2>1. 2^1 = 2
      BY SmallPowers
    <2> QED
      BY <1>5, <1>6, <2>1 DEF Guess, ShiftRight, NewtonRounds
  <1>10. round' \in 0..LogWidth - 1 /\ LogWidth - 1 - round' = 0
    BY <1>9, WidthAssumption
  <1>11. NewtonAt(e, 0)'
    BY <1>6, <1>7, <1>8, <1>9 DEF NewtonAt
  <1> QED
    BY <1>1, <1>9, <1>10, <1>11 DEF SqrtInv

---------------------------------------------------------------------------
(* The rounds of Newton. *)

\* The unchecked sum of a round does not wrap.
LEMMA SumFits ==
  ASSUME NEW e \in Nat, e + 1 <= 2^(LogWidth - 1), LogWidth >= 2,
         NEW v \in Nat, v < 4 * (2^e * 2^e),
         NEW x \in Nat, 2^e <= x, 2 * x <= 5 * 2^e
  PROVE  Unchecked(x + v \div x) = x + v \div x
  <1>1. PICK g \in Nat \ {0} : g = 2^e
    BY PowerPositive
  <1>2. PICK q \in Nat : q = v \div x /\ q * x <= v
    BY <1>1, DivFacts
  <1>3. q <= 4 * g - 1
    <2> SUFFICES ASSUME 4 * g <= q PROVE FALSE
      BY <1>1
    <2>1. (4 * g) * x <= q * x
      BY SMT
    <2>2. (4 * g) * g <= (4 * g) * x /\ (4 * g) * g = 4 * (g * g)
      BY <1>1, SMT
    <2> QED
      BY <1>1, <1>2, <2>1, <2>2
  <1>4. MaxUint + 1 >= 16
    <2>1. 2^2 = 4 /\ 2^4 = 16
      BY SmallPowers
    <2>2. 4 <= 2^LogWidth /\ 2^LogWidth \in Nat
      BY <2>1, PowerMono, PowerPositive, WidthAssumption
    <2>3. 16 <= 2^(2^LogWidth)
      BY <2>1, <2>2, PowerMono
    <2> QED
      BY <2>2, <2>3, PowerPositive, WidthAssumption
  <1>5. MaxUint + 1 >= 4 * (g * g)
    <2>1. 2 * (e + 1) <= 2^LogWidth
      <3>1. LogWidth - 1 \in Nat /\ (LogWidth - 1) + 1 = LogWidth
        BY WidthAssumption
      <3>2. 2^LogWidth = 2 * 2^(LogWidth - 1) /\ 2^(LogWidth - 1) \in Nat
        BY <3>1, PowerNext
      <3> QED
        BY <3>2
    <2>2. 2^(2 * (e + 1)) <= 2^(2^LogWidth)
      BY <2>1, PowerMono, PowerPositive, WidthAssumption
    <2>3. 2^(2 * (e + 1)) = (2 * g) * (2 * g)
      BY <1>1, PowerSquare, PowerNext, e + 1 \in Nat
    <2>4. (2 * g) * (2 * g) = 4 * (g * g)
      BY SMT
    <2> QED
      BY <2>2, <2>3, <2>4, WidthAssumption, PowerPositive
  <1>6. x + q <= MaxUint
    <2>1. 2 * (x + q) <= 13 * g - 2
      BY <1>1, <1>3
    <2>2. CASE g <= 2
      BY <1>4, <2>1, <2>2, MaxUintAssumption
    <2>3. CASE g >= 3
      <3>1. 3 * g <= g * g
        BY <2>3
      <3> QED
        BY <1>5, <2>1, <3>1, MaxUintAssumption
    <2> QED
      BY <2>2, <2>3
  <1> QED
    BY <1>2, <1>6, MaxUintAssumption DEF Unchecked

\* The second round, from a guess of at most 4.
LEMMA SecondSmall ==
  ASSUME NEW v \in Nat \ {0}, NEW g \in Nat \ {0}, g <= 4,
         g * g <= v, v < 4 * (g * g), g <= Better(v, g), Better(v, g) \in Nat
  PROVE  Close(v, Better(v, Better(v, g)), 1)
  <1>1. Close(v, g, 2 * g) /\ 4 * v < (2 * g + 2 * g) * (2 * g + 2 * g)
        /\ (2 * g) * (2 * g) <= 4 * (g * g)
    <2>1. (2 * g + 2 * g) * (2 * g + 2 * g) = 16 * (g * g) /\ (2 * g) * (2 * g) = 4 * (g * g)
      BY SMT
    <2> QED
      BY <2>1 DEF Close
  <1>2. Close(v, Better(v, g), g)
    BY <1>1, BetterClose, 2 * g \in Nat
  <1>3. v < (Better(v, g) + 1) * (Better(v, g) + 1)
    BY BetterAbove
  <1>4. PICK x \in Nat \ {0} : x = Better(v, g)
    OBVIOUS
  <1>5. g * g <= 4 * (x * 1)
    <2>1. g * g <= 4 * g
      BY SMT
    <2> QED
      BY <1>4, <2>1
  <1> QED
    BY <1>2, <1>3, <1>4, <1>5, BetterClose

\* The second round, from a guess of 8h: the error falls to h/2.  The first
\* round may leave 4h, but only when it also doubles the estimate.
LEMMA SecondLarge ==
  ASSUME NEW v \in Nat \ {0}, NEW h \in Nat \ {0}, NEW g, g = 8 * h,
         g * g <= v, v < 4 * (g * g), g <= Better(v, g), Better(v, g) \in Nat
  PROVE  Close(v, Better(v, Better(v, g)), h)
  <1>0. g \in Nat \ {0} /\ g * g = 64 * (h * h)
    BY SMT
  <1>1. v < (Better(v, g) + 1) * (Better(v, g) + 1)
    BY <1>0, BetterAbove
  <1>2. PICK x \in Nat \ {0} : x = Better(v, g) /\ 8 * h <= x
    BY <1>0
  <1>3. CASE v < 196 * (h * h)
    <2>1. Close(v, g, 12 * h)
      <3>1. 2 * g - 12 * h = 4 * h /\ (4 * h) * (4 * h) = 16 * (h * h) /\ h * h \in Nat
        BY SMT
      <3> QED
        BY <1>0, <3>1 DEF Close
    <2>2. 4 * v < (2 * g + 12 * h) * (2 * g + 12 * h)
      <3>1. 2 * g + 12 * h = 28 * h /\ (28 * h) * (28 * h) = 784 * (h * h)
        BY SMT
      <3> QED
        BY <1>3, <3>1
    <2>3. (12 * h) * (12 * h) <= 4 * (g * (5 * h))
      <3>1. (12 * h) * (12 * h) = 144 * (h * h) /\ g * (5 * h) = 40 * (h * h) /\ h * h \in Nat
        BY SMT
      <3> QED
        BY <3>1
    <2>4. Close(v, x, 5 * h)
      BY <1>0, <1>2, <2>1, <2>2, <2>3, BetterClose, 12 * h \in Nat, 5 * h \in Nat \ {0}
    <2>5. (5 * h) * (5 * h) <= 4 * (x * h)
      <3>1. (8 * h) * h <= x * h /\ (8 * h) * h = 8 * (h * h)
            /\ (5 * h) * (5 * h) = 25 * (h * h) /\ h * h \in Nat
        BY <1>2, SMT
      <3> QED
        BY <3>1
    <2> QED
      BY <1>1, <1>2, <2>4, <2>5, BetterClose, 5 * h \in Nat
  <1>4. CASE v >= 196 * (h * h)
    <2>1. 16 * h <= x
      <3>1. PICK q \in Nat : v < q * g + g /\ g + q <= 2 * x + 1
        BY <1>0, <1>2, BetterFacts
      <3>2. 24 * h <= q
        <4> SUFFICES ASSUME q + 1 <= 24 * h PROVE FALSE
          OBVIOUS
        <4>1. (q + 1) * g <= (24 * h) * g /\ (q + 1) * g = q * g + g
              /\ (24 * h) * g = 192 * (h * h) /\ h * h \in Nat
          BY <1>0, SMT
        <4> QED
          BY <1>4, <3>1, <4>1
      <3> QED
        BY <3>1, <3>2
    <2>2. Close(v, g, 16 * h) /\ 4 * v < (2 * g + 16 * h) * (2 * g + 16 * h)
      <3>1. (2 * g + 16 * h) * (2 * g + 16 * h) = 1024 * (h * h)
        BY SMT
      <3> QED
        BY <1>0, <3>1 DEF Close
    <2>3. (16 * h) * (16 * h) <= 4 * (g * (8 * h))
      <3>1. (16 * h) * (16 * h) = 256 * (h * h) /\ g * (8 * h) = 64 * (h * h)
        BY SMT
      <3> QED
        BY <3>1
    <2>4. Close(v, x, 8 * h)
      BY <1>0, <1>2, <2>2, <2>3, BetterClose, 16 * h \in Nat, 8 * h \in Nat \ {0}
    <2>5. (8 * h) * (8 * h) <= 4 * (x * h)
      <3>1. (16 * h) * h <= x * h /\ (16 * h) * h = 16 * (h * h)
            /\ (8 * h) * (8 * h) = 64 * (h * h)
        BY <2>1, SMT
      <3> QED
        BY <3>1
    <2> QED
      BY <1>1, <1>2, <2>4, <2>5, BetterClose, 8 * h \in Nat
  <1> QED
    BY <1>3, <1>4

\* A round of Newton keeps what NewtonAt says of the estimate.
LEMMA NewtonKeeps ==
  ASSUME NEW e \in Nat, NEW k \in Nat, NewtonAt(e, k), result \in Nat, a \in Nat,
         result' = Better(a, result), a' = a
  PROVE  NewtonAt(e, k + 1)' /\ result' \in Nat
  <1>1. PICK g \in Nat \ {0} : g = 2^e
    BY PowerPositive
  <1>2. /\ g <= result /\ 2 * result <= 5 * g
        /\ g * g <= a /\ a < 4 * (g * g) /\ e + 1 <= 2^(LogWidth - 1)
        /\ k = 0 => result = g
        /\ k = 1 => result = Better(a, g)
        /\ k >= 1 => a < (result + 1) * (result + 1)
        /\ k >= 2 => \/ Close(a, result, 1)
                     \/ 2^k <= e + 1 /\ Close(a, result, 2^(e + 1 - 2^k))
    BY <1>1 DEF NewtonAt
  <1>3. PICK x \in Nat \ {0} : x = result
    BY <1>2
  <1>4. PICK v \in Nat \ {0} : v = a
    <2>1. 0 < g * g
      OBVIOUS
    <2> QED
      BY <1>2, <2>1
  <1>5. PICK b \in Nat : b = Better(v, x)
    BY BetterFacts
  <1>6. v < (b + 1) * (b + 1)
    BY <1>5, BetterAbove
  <1>7. g <= b
    <2> SUFFICES ASSUME b + 1 <= g PROVE FALSE
      OBVIOUS
    <2>1. (b + 1) * (b + 1) <= g * g
      BY SquareMono, b + 1 \in Nat
    <2> QED
      BY <1>2, <1>4, <1>6, <2>1
  <1>8. SUFFICES /\ 2 * b <= 5 * g
                 /\ k = 0 => b = Better(v, g)
                 /\ k >= 1 => \/ Close(v, b, 1)
                              \/ 2^(k + 1) <= e + 1 /\ Close(v, b, 2^(e + 1 - 2^(k + 1)))
    <2>1. result' = b /\ a' = v
      BY <1>3, <1>4, <1>5
    <2>2. (k + 1 = 1 <=> k = 0) /\ (k + 1 >= 2 <=> k >= 1) /\ k + 1 # 0
      OBVIOUS
    <2> QED
      BY <1>1, <1>2, <1>4, <1>6, <1>7, <1>8, <2>1, <2>2 DEF NewtonAt
  <1>9. CASE k = 0
    <2>1. x = g
      BY <1>2, <1>3, <1>9
    <2>2. PICK q \in Nat : q * g <= v /\ 2 * b <= g + q
      BY <1>5, <2>1, BetterFacts
    <2>3. q < 4 * g
      <3> SUFFICES ASSUME 4 * g <= q PROVE FALSE
        OBVIOUS
      <3>1. (4 * g) * g <= q * g /\ (4 * g) * g = 4 * (g * g)
        BY SMT
      <3> QED
        BY <1>2, <1>4, <2>2, <3>1
    <2> QED
      BY <1>5, <1>9, <2>1, <2>2, <2>3
  <1>10. ASSUME NEW s \in Nat, s <= g, Close(v, b, s) PROVE 2 * b <= 5 * g
    BY <1>2, <1>4, <1>10, CloseBound
  <1>11. CASE k = 1
    <2>1. x = Better(v, g) /\ g <= x
      BY <1>2, <1>3, <1>4, <1>11
    <2>2. g * g <= v /\ v < 4 * (g * g)
      BY <1>2, <1>4
    <2>3. CASE e <= 2
      <3>1. g <= 4
        BY <1>1, <2>3, PowerMono, SmallPowers
      <3>2. Close(v, b, 1)
        BY <1>5, <2>1, <2>2, <3>1, SecondSmall
      <3> QED
        BY <1>10, <1>11, <3>2
    <2>4. CASE e >= 3
      <3>1. e - 3 \in Nat /\ e = 3 + (e - 3) /\ e + 1 - 4 = e - 3
        BY <2>4
      <3>2. PICK h \in Nat \ {0} : h = 2^(e - 3)
        BY <3>1, PowerPositive
      <3>3. g = 8 * h
        <4>1. 2^(3 + (e - 3)) = 2^3 * 2^(e - 3)
          BY <3>1, PowerSum, 3 \in Nat
        <4> QED
          BY <1>1, <3>1, <3>2, <4>1, SmallPowers
      <3>4. Close(v, b, h)
        BY <1>5, <2>1, <2>2, <3>3, SecondLarge
      <3>5. 2^(k + 1) = 4
        BY <1>11, SmallPowers, 1 + 1 = 2
      <3>6. 2^(k + 1) <= e + 1 /\ 2^(e + 1 - 2^(k + 1)) = h
        BY <2>4, <3>1, <3>2, <3>5
      <3> QED
        BY <1>10, <1>11, <3>3, <3>4, <3>6
    <2> QED
      BY <2>3, <2>4
  <1>12. CASE k >= 2
    <2>1. v < (x + 1) * (x + 1)
      BY <1>2, <1>3, <1>4, <1>12
    <2>2. CASE Close(v, x, 1)
      <3>1. Close(v, b, 1)
        BY <1>5, <2>1, <2>2, BetterClose, 1 * 1 <= 4 * (x * 1)
      <3> QED
        BY <1>10, <1>12, <3>1
    <2>3. CASE 2^k <= e + 1 /\ Close(v, x, 2^(e + 1 - 2^k))
      <3>1. PICK m \in Nat : m = 2^k /\ 2^(k + 1) = 2 * m
        BY PowerNext
      <3>2. m <= e + 1 /\ e + 1 - m \in Nat
        BY <2>3, <3>1
      <3>3. PICK t \in Nat \ {0} : t = 2^(e + 1 - m)
        BY <3>2, PowerPositive
      <3>4. Close(v, x, t)
        BY <2>3, <3>1, <3>3
      <3>5. t * t = 2^(2 * (e + 1 - m))
        BY <3>2, <3>3, PowerSquare
      <3>6. CASE 2 * m <= e + 1
        <4>1. e + 1 - 2 * m \in Nat /\ 2 * (e + 1 - m) = (e + 1) + (e + 1 - 2 * m) /\ e + 1 \in Nat
          BY <3>6
        <4>2. PICK s \in Nat \ {0} : s = 2^(e + 1 - 2 * m)
          BY <4>1, PowerPositive
        <4>3. t * t = (2 * g) * s
          <5>1. 2^((e + 1) + (e + 1 - 2 * m)) = 2^(e + 1) * 2^(e + 1 - 2 * m)
            BY <4>1, PowerSum
          <5>2. 2^(e + 1) = 2 * g
            BY <1>1, PowerNext
          <5> QED
            BY <3>5, <4>1, <4>2, <5>1, <5>2
        <4>4. t * t <= 4 * (x * s)
          <5>1. (2 * g) * s <= (4 * x) * s /\ (4 * x) * s = 4 * (x * s)
            BY <1>2, <1>3, SMT
          <5> QED
            BY <4>3, <5>1
        <4>5. Close(v, b, s)
          BY <1>5, <2>1, <3>4, <4>4, BetterClose
        <4>6. s <= g
          <5>1. e + 1 - 2 * m <= e
            BY <3>1, <1>12, PowerPositive
          <5> QED
            BY <1>1, <4>1, <4>2, <5>1, PowerMono
        <4>7. Close(v, b, 2^(e + 1 - 2^(k + 1))) /\ 2^(k + 1) <= e + 1
          BY <3>1, <3>6, <4>2, <4>5
        <4> QED
          BY <1>10, <1>12, <4>5, <4>6, <4>7
      <3>7. CASE 2 * m > e + 1
        <4>1. 2 * (e + 1 - m) <= e /\ 2 * (e + 1 - m) \in Nat
          BY <3>2, <3>7
        <4>2. t * t <= g
          BY <1>1, <3>5, <4>1, PowerMono
        <4>3. t * t <= 4 * (x * 1)
          BY <1>2, <1>3, <4>2
        <4>4. Close(v, b, 1)
          BY <1>5, <2>1, <3>4, <4>3, BetterClose
        <4> QED
          BY <1>10, <1>12, <4>4
      <3> QED
        BY <3>6, <3>7
    <2> QED
      BY <1>2, <1>3, <1>4, <1>12, <2>2, <2>3
  <1> QED
    BY <1>9, <1>11, <1>12

\* A round of Newton, whose sum does not wrap.
LEMMA NewtonStep == SqrtInv /\ NewtonRound => SqrtInv'
  <1> SUFFICES ASSUME SqrtInv, NewtonRound PROVE SqrtInv'
    OBVIOUS
  <1>1. /\ a \in 0..MaxUint /\ a \in Nat /\ result \in Nat
        /\ round \in 1..LogWidth - 1 /\ LogWidth \in Nat /\ LogWidth >= 2
    BY MaxUintAssumption, WidthAssumption DEF SqrtInv, NewtonRound
  <1>2. PICK e \in Nat : NewtonAt(e, LogWidth - 1 - round)
    BY DEF SqrtInv, NewtonRound
  <1>3. PICK k \in Nat : k = LogWidth - 1 - round /\ k + 1 = LogWidth - 1 - (round - 1)
    BY <1>1, LogWidth - 1 - round \in Nat
  <1>4. Unchecked(result + a \div result) = result + a \div result
    <2>1. /\ e + 1 <= 2^(LogWidth - 1) /\ a < 4 * (2^e * 2^e)
          /\ 2^e <= result /\ 2 * result <= 5 * 2^e
      BY <1>2 DEF NewtonAt
    <2> QED
      BY <1>1, <2>1, SumFits
  <1>5. result' = Better(a, result)
    <2>1. 2^1 = 2
      BY SmallPowers
    <2> QED
      BY <1>4, <2>1 DEF NewtonRound, ShiftRight, Better
  <1>6. a' = a /\ round' = round - 1 /\ pc' = "newton"
    BY DEF NewtonRound
  <1>7. NewtonAt(e, k + 1)' /\ result' \in Nat
    BY <1>1, <1>2, <1>3, <1>5, <1>6, NewtonKeeps
  <1>8. LogWidth - 1 - round' = k + 1 /\ round' \in 0..LogWidth - 1
    BY <1>1, <1>3, <1>6
  <1> QED
    BY <1>1, <1>6, <1>7, <1>8 DEF SqrtInv

\* After the last round the estimate is the root, or one more.
LEMMA ReturnStep == SqrtInv /\ Return => SqrtInv'
  <1> SUFFICES ASSUME SqrtInv, Return PROVE SqrtInv'
    OBVIOUS
  <1>1. a \in 0..MaxUint /\ a \in Nat /\ result \in Nat /\ LogWidth \in Nat \ {0}
    BY MaxUintAssumption, WidthAssumption DEF SqrtInv
  <1>2. PICK k \in Nat : k = LogWidth - 1
    BY <1>1, LogWidth - 1 \in Nat
  <1>3. PICK e \in Nat : NewtonAt(e, k)
    <2>1. LogWidth - 1 - round = k
      BY <1>2 DEF Return
    <2> QED
      BY <2>1 DEF SqrtInv, Return
  <1>4. PICK g \in Nat \ {0} : g = 2^e
    BY PowerPositive
  <1>5. /\ g <= result /\ g * g <= a /\ a < 4 * (g * g) /\ e + 1 <= 2^k
        /\ k = 0 => result = g
        /\ k = 1 => result = Better(a, g)
        /\ k >= 1 => a < (result + 1) * (result + 1)
        /\ k >= 2 => \/ Close(a, result, 1)
                     \/ 2^k <= e + 1 /\ Close(a, result, 2^(e + 1 - 2^k))
    BY <1>2, <1>3, <1>4 DEF NewtonAt
  <1>6. PICK x \in Nat \ {0} : x = result
    BY <1>1, <1>5
  <1>7. PICK v \in Nat \ {0} : v = a
    <2>1. 0 < g * g
      OBVIOUS
    <2> QED
      BY <1>1, <1>5, <2>1
  <1>8. v < (x + 1) * (x + 1) /\ x * (x - 1) <= v
    <2>1. CASE k = 0
      <3>1. x = 1
        <4>1. e = 0
          BY <1>5, <2>1, SmallPowers
        <4> QED
          BY <1>4, <1>5, <1>6, <2>1, <4>1, SmallPowers
      <3>2. v < 4 * (1 * 1)
        BY <1>4, <1>5, <1>6, <1>7, <2>1, <3>1
      <3> QED
        BY <3>1, <3>2
    <2>2. CASE k = 1
      <3>1. g = 1 \/ g = 2
        <4>1. e = 0 \/ e = 1
          BY <1>5, <2>2, SmallPowers
        <4> QED
          BY <1>4, <4>1, SmallPowers
      <3>2. PICK q \in Nat : q * g <= v /\ 2 * x <= g + q
        <4>1. x = Better(v, g)
          BY <1>5, <1>6, <1>7, <2>2
        <4> QED
          BY <4>1, BetterFacts
      <3>3. CASE g = 1
        <4>1. v < 4
          BY <1>5, <1>7, <3>3
        <4>2. q <= v /\ 2 * x <= 1 + q
          <5>1. q * 1 = q
            OBVIOUS
          <5> QED
            BY <3>2, <3>3, <5>1
        <4>3. x = 1 \/ (x = 2 /\ v = 3)
          BY <4>1, <4>2
        <4>4. x * (x - 1) <= v
          BY <4>3
        <4> QED
          BY <1>5, <1>6, <1>7, <2>2, <4>4
      <3>4. CASE g = 2
        <4>1. v < 16 /\ 2 * q <= v /\ v >= 4
          BY <1>5, <1>7, <3>2, <3>4
        <4>2. x = 1 \/ x = 2 \/ x = 3 \/ x = 4
          BY <3>2, <3>4, <4>1
        <4>3. x * (x - 1) <= v
          BY <3>2, <3>4, <4>1, <4>2
        <4> QED
          BY <1>5, <1>6, <1>7, <2>2, <4>3
      <3> QED
        BY <3>1, <3>3, <3>4
    <2>3. CASE k >= 2
      <3>1. Close(v, x, 1)
        <4>1. ASSUME 2^k <= e + 1 PROVE 2^(e + 1 - 2^k) = 1
          <5>1. 2^k \in Nat
            BY PowerPositive
          <5>2. e + 1 - 2^k = 0
            BY <1>5, <4>1, <5>1
          <5> QED
            BY <5>2, PowerZero
        <4> QED
          BY <1>5, <1>6, <1>7, <2>3, <4>1
      <3>2. CASE 2 * x <= 1
        BY <3>2
      <3>3. CASE (2 * x - 1) * (2 * x - 1) <= 4 * v
        <4>1. (2 * x - 1) * (2 * x - 1) = 4 * (x * (x - 1)) + 1
          BY SMT
        <4>2. x * (x - 1) <= v
          BY <3>3, <4>1
        <4> QED
          BY <1>5, <1>6, <1>7, <2>3, <4>2
      <3> QED
        BY <3>1, <3>2, <3>3 DEF Close
    <2> QED
      BY <2>1, <2>2, <2>3
  <1>9. Least(x, v \div x) = Sqrt(v)
    BY <1>8, LastStep
  <1>10. result' = Sqrt(v) /\ a' = v /\ pc' = "done"
    BY <1>6, <1>7, <1>9 DEF Return
  <1>11. Sqrt(v) \in Nat
    BY SqrtNat
  <1> QED
    BY <1>1, <1>7, <1>10, <1>11 DEF SqrtInv

\* The invariant holds in every state of every width: log2 ends with the
\* logarithm, and the error of the iteration falls as the squares of powers of
\* two (Math.sqrt and Math.log2).
THEOREM SqrtInvariant == Spec => []SqrtInv
  <1>1. Init => SqrtInv
    BY InitSqrt
  <1>2. SqrtInv /\ [Next]_vars => SqrtInv'
    <2>1. SqrtInv /\ UNCHANGED vars => SqrtInv'
      <3> SUFFICES ASSUME SqrtInv, UNCHANGED vars PROVE SqrtInv'
        OBVIOUS
      <3>1. a' = a /\ value' = value /\ result' = result /\ round' = round /\ pc' = pc
        BY DEF vars
      <3> QED
        BY <3>1 DEF SqrtInv, NewtonAt
    <2> QED
      BY <2>1, Log2Step, GuessStep, NewtonStep, ReturnStep DEF Next
  <1> QED
    BY <1>1, <1>2, PTL DEF Spec

\* Math.sqrt returns the square root rounded down of every word: seven rounds
\* of Newton are enough at 256 bits, LogWidth - 1 at every width, the unchecked
\* sums never wrap, and min(result, a / result) removes the last excess.
THEOREM SqrtFloorHolds == Spec => []SqrtIsFloor
  <1>1. SqrtInv => SqrtIsFloor
    BY DEF SqrtInv, SqrtIsFloor
  <1> QED
    BY <1>1, SqrtInvariant, PTL
=============================================================================
