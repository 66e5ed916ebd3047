--------------------------- MODULE PenguinProofs ---------------------------
(***************************************************************************)
(* The registry of the factory stays consistent with the pairs it deployed *)
(* for any number of keys, pairs and users.  ListedIffOpen alone is not    *)
(* inductive: a create or a close could disturb the entry of another pair  *)
(* if two keys listed the same one, or a key listed a pair of another key. *)
(*                                                                         *)
(* The names tell collections apart because the digits of a hexadecimal    *)
(* string give the address back, one after the other.                      *)
(***************************************************************************)
EXTENDS Penguin, NatProofs

\* Every entry of the mapping is a pair created under that very key.
EntriesMatch ==
    \A k \in Keys : pairs[k] # NoPair => /\ pairs[k] \in Deployed
                                         /\ keyOf[pairs[k]] = k

IInv == TypeOK /\ EntriesMatch /\ ListedIffOpen

\* A freshly deployed factory satisfies the invariant.
LEMMA InitIInv == Init => IInv
  <1> SUFFICES ASSUME Init PROVE IInv
    OBVIOUS
  <1> USE PenguinAssumption DEF Init, Deployed
  <1>1. Deployed = {}
    OBVIOUS
  <1>2. TypeOK
    <2>1. keyOf \in [{} -> Keys]
      OBVIOUS
    <2> QED
      BY <1>1, <2>1 DEF TypeOK
  <1>3. EntriesMatch /\ ListedIffOpen
    BY <1>1 DEF EntriesMatch, ListedIffOpen
  <1> QED
    BY <1>2, <1>3 DEF IInv

\* create adds one entry, for a pair that did not exist.
LEMMA CreateIInv ==
  ASSUME IInv, NEW k \in Keys, NEW p \in PairAddrs, Create(k, p)
  PROVE  IInv'
  <1> USE PenguinAssumption DEF IInv, TypeOK, Create, Free, Deployed
  <1>1. Deployed' = Deployed \cup {p} /\ p \notin Deployed
    OBVIOUS
  <1>2. /\ keyOf'[p] = k
        /\ \A q \in Deployed : keyOf'[q] = keyOf[q]
    OBVIOUS
  <1>3. TypeOK'
    BY <1>1
  <1>4. \A j \in Keys : pairs'[j] = IF j = k THEN p ELSE pairs[j]
    OBVIOUS
  <1>5. EntriesMatch'
    BY <1>1, <1>2, <1>4 DEF EntriesMatch
  <1>6. ListedIffOpen'
    <2> SUFFICES ASSUME NEW q \in Deployed'
                 PROVE  q \notin closed' <=> pairs'[keyOf'[q]] = q
      BY DEF ListedIffOpen
    <2>1. CASE q = p
      BY <2>1, <1>1, <1>2, <1>4
    <2>2. CASE q # p
      <3>1. q \in Deployed /\ keyOf'[q] = keyOf[q] /\ keyOf[q] \in Keys
        BY <2>2, <1>1, <1>2
      <3>2. keyOf[q] = k => q \in closed
        BY <3>1 DEF ListedIffOpen
      <3> QED
        BY <2>2, <3>1, <3>2, <1>4 DEF ListedIffOpen
    <2> QED
      BY <2>1, <2>2
  <1> QED
    BY <1>3, <1>5, <1>6

\* close removes the entry of the pair that is closed and no other.
LEMMA CloseIInv ==
  ASSUME IInv, NEW u \in Users, NEW p \in PairAddrs, Close(u, p)
  PROVE  IInv'
  <1> USE PenguinAssumption DEF IInv, TypeOK, Close, GracePeriod, Destroy, MayDestroy, Deployed
  <1>1. keyOf[p] \in Keys /\ pairs[keyOf[p]] = p
    OBVIOUS
  <1>2. TypeOK'
    OBVIOUS
  <1>3. \A j \in Keys : pairs'[j] = IF j = keyOf[p] THEN NoPair ELSE pairs[j]
    BY <1>1
  <1>4. EntriesMatch'
    BY <1>3 DEF EntriesMatch
  <1>5. ListedIffOpen'
    <2> SUFFICES ASSUME NEW q \in Deployed
                 PROVE  q \notin closed' <=> pairs'[keyOf[q]] = q
      BY DEF ListedIffOpen
    <2>1. CASE q = p
      BY <2>1, <1>1, <1>3
    <2>2. CASE q # p
      <3>1. keyOf[q] = keyOf[p] => q \in closed
        BY <2>2, <1>1 DEF ListedIffOpen
      <3> QED
        BY <2>2, <3>1, <1>1, <1>3 DEF ListedIffOpen
    <2> QED
      BY <2>1, <2>2
  <1> QED
    BY <1>2, <1>4, <1>5

\* No step of the system breaks the invariant.
LEMMA StepIInv == IInv /\ [Next]_vars => IInv'
  <1> SUFFICES ASSUME IInv, [Next]_vars PROVE IInv'
    OBVIOUS
  <1>1. CASE \E k \in Keys, p \in PairAddrs : Create(k, p)
    BY <1>1, CreateIInv
  <1>2. CASE \E u \in Users, p \in PairAddrs : Close(u, p)
    BY <1>2, CloseIInv
  <1>3. CASE \E u, newOwner \in Users : TransferOwnership(u, newOwner)
    BY <1>3 DEF IInv, TypeOK, EntriesMatch, ListedIffOpen, Deployed,
                TransferOwnership
  <1>4. CASE Tick
    <2>1. graceLeft' \in [PairAddrs -> 0..Day]
      BY <1>4, PenguinAssumption DEF IInv, TypeOK, Tick, Running
    <2> QED
      BY <1>4, <2>1 DEF IInv, TypeOK, EntriesMatch, ListedIffOpen, Deployed, Tick
  <1>5. CASE UNCHANGED vars
    BY <1>5 DEF vars, IInv, TypeOK, EntriesMatch, ListedIffOpen, Deployed
  <1> QED
    BY <1>1, <1>2, <1>3, <1>4, <1>5 DEF Next

\* In every reachable state the registry is well formed and consistent.
THEOREM Consistent == Spec => []IInv
  BY InitIInv, StepIInv, PTL DEF Spec

\* The mapping and the countdowns never leave their types (TypeOK).
THEOREM TypeOKHolds == Spec => []TypeOK
  <1>1. IInv => TypeOK
    BY DEF IInv
  <1> QED
    BY <1>1, Consistent, PTL

\* Every pair is listed under its own key exactly as long as it is open.
THEOREM ListedIffOpenHolds == Spec => [](TypeOK /\ ListedIffOpen)
  <1>1. IInv => TypeOK /\ ListedIffOpen
    BY DEF IInv
  <1> QED
    BY <1>1, Consistent, PTL

\* An entry disappears only in the close of the very pair it lists.
THEOREM DelistedByItselfHolds == Spec => DelistedByItself
  <1>1. IInv /\ [Next]_vars =>
          [ \A k \in Keys :
              pairs[k] # NoPair /\ pairs'[k] # pairs[k]
              => pairs'[k] = NoPair /\ pairs[k] \in closed' \ closed ]_vars
    <2> SUFFICES ASSUME IInv, Next, NEW k \in Keys,
                        pairs[k] # NoPair, pairs'[k] # pairs[k]
                 PROVE  pairs'[k] = NoPair /\ pairs[k] \in closed' \ closed
      OBVIOUS
    <2>1. ASSUME NEW j \in Keys, NEW p \in PairAddrs, Create(j, p) PROVE FALSE
      <3>1. pairs[j] = NoPair /\ pairs' = [pairs EXCEPT ![j] = p]
        BY <2>1 DEF Create, Free
      <3> QED
        BY <3>1 DEF IInv, TypeOK
    <2>2. ~ (\E u, newOwner \in Users : TransferOwnership(u, newOwner)) /\ ~ Tick
      BY DEF TransferOwnership, Tick
    <2>3. PICK u \in Users, p \in PairAddrs : Close(u, p)
      BY <2>1, <2>2 DEF Next
    <2>4. keyOf[p] \in Keys /\ pairs[keyOf[p]] = p
      BY <2>3 DEF Close, GracePeriod, Destroy, MayDestroy, IInv, TypeOK, Deployed
    <2>5. p \notin closed
      BY <2>3, <2>4 DEF Close, IInv, ListedIffOpen
    <2>6. k = keyOf[p]
      BY <2>3, <2>4 DEF Close, GracePeriod, Destroy, MayDestroy, IInv, TypeOK
    <2> QED
      BY <2>3, <2>4, <2>5, <2>6 DEF Close, GracePeriod, Destroy, MayDestroy, IInv, TypeOK
  <1> QED
    BY <1>1, Consistent, PTL DEF Spec, DelistedByItself

---------------------------------------------------------------------------
(* The hexadecimal strings of addresses. *)

\* A quotient is recognized by its bounds.
LEMMA QuotientUnique ==
  ASSUME NEW v \in Nat, NEW p \in Nat \ {0}, NEW q \in Nat, q * p <= v, v < q * p + p
  PROVE  v \div p = q
  <1>1. PICK r \in Nat : r = v \div p /\ r * p <= v /\ v < r * p + p
    OBVIOUS
  <1>2. ASSUME NEW i \in Nat, NEW j \in Nat, i < j PROVE i * p + p <= j * p
    <2>1. (i + 1) * p <= j * p /\ (i + 1) * p = i * p + p
      BY <1>2, SMT
    <2> QED
      BY <2>1
  <1>3. ~ (r < q) /\ ~ (q < r)
    BY <1>1, <1>2
  <1> QED
    BY <1>1, <1>3

\* The last hexadecimal digit of a number.
LEMMA SixteenFacts ==
  ASSUME NEW q \in Nat
  PROVE  /\ q % 16 \in 0..15 /\ q \div 16 \in Nat
         /\ q = 16 * (q \div 16) + (q % 16)
         /\ 16 * (q \div 16) <= q /\ q <= 16 * (q \div 16) + 15
  <1>1. q % 16 \in 0..15
    OBVIOUS
  <1>2. q \div 16 \in Nat
    OBVIOUS
  <1>3. q = 16 * (q \div 16) + (q % 16)
    OBVIOUS
  <1> QED
    BY <1>1, <1>2, <1>3

\* The bits above k + 4 are those above k without the last digit.
LEMMA ShiftDigit ==
  ASSUME NEW v \in Nat, NEW k \in Nat
  PROVE  /\ ShiftRight(v, k) \in Nat
         /\ ShiftRight(v, k) = 16 * ShiftRight(v, k + 4) + (ShiftRight(v, k) % 16)
  <1>1. PICK p \in Nat \ {0} : p = 2^k
    BY PowerPositive
  <1>2. 2^(k + 4) = p * 16
    BY <1>1, PowerSum, SmallPowers, 4 \in Nat
  <1>3. PICK q \in Nat : q = v \div p /\ q * p <= v /\ v < q * p + p
    BY <1>1
  <1>4. PICK r \in Nat : 16 * r <= q /\ q <= 16 * r + 15 /\ r = q \div 16 /\ q = 16 * r + (q % 16)
    BY SixteenFacts
  <1>5. v \div (p * 16) = r
    <2>1. (16 * r) * p <= q * p /\ (16 * r) * p = r * (p * 16)
      BY <1>4, SMT
    <2>2. q * p + p <= (16 * r + 16) * p /\ (16 * r + 16) * p = r * (p * 16) + p * 16
      <3>1. (q + 1) * p <= (16 * r + 16) * p /\ (q + 1) * p = q * p + p
        BY <1>4, SMT
      <3>2. (16 * r + 16) * p = r * (p * 16) + p * 16
        BY SMT
      <3> QED
        BY <3>1, <3>2
    <2>3. r * (p * 16) <= v /\ v < r * (p * 16) + p * 16
      BY <1>3, <2>1, <2>2
    <2> QED
      BY <2>3, QuotientUnique, p * 16 \in Nat \ {0}
  <1> QED
    BY <1>1, <1>2, <1>3, <1>4, <1>5 DEF ShiftRight

LEMMA ShiftZero ==
  ASSUME NEW v \in Nat, NEW k \in Nat
  PROVE  /\ ShiftRight(v, k) = 0 <=> v < 2^k
         /\ ShiftRight(v, 0) = v
         /\ ShiftRight(v, k) \in 0..v
  <1>1. PICK p \in Nat \ {0} : p = 2^k
    BY PowerPositive
  <1>2. PICK q \in Nat : q = v \div p /\ q * p <= v /\ v < q * p + p
    BY <1>1
  <1>3. q = 0 <=> v < p
    <2>1. q = 0 => v < p
      BY <1>2
    <2>2. q >= 1 => p <= q * p
      BY SMT
    <2> QED
      BY <1>2, <2>1, <2>2
  <1>4. v \div 1 = v
    BY QuotientUnique
  <1>5. q <= v
    <2>1. q <= q * p
      BY SMT
    <2> QED
      BY <1>2, <2>1
  <1> QED
    BY <1>1, <1>2, <1>3, <1>4, <1>5, SmallPowers DEF ShiftRight

\* An address has a logarithm, which tells how many bytes it needs.
LEMMA Log256Bytes ==
  ASSUME NEW v \in Nat, v < 2^(8 * AddrLen)
  PROVE  Log256(v) \in Nat /\ v < 2^(8 * (Log256(v) + 1))
  <1> DEFINE T == {n \in Nat : v < 2^(8 * (n + 1))}
  <1>1. AddrLen \in Nat
    BY NamerAssumption
  <1>2. AddrLen \in T
    <2>1. 2^(8 * AddrLen) <= 2^(8 * (AddrLen + 1))
      BY <1>1, PowerMono, 8 * AddrLen \in Nat, 8 * (AddrLen + 1) \in Nat
    <2>2. 2^(8 * AddrLen) \in Nat /\ 2^(8 * (AddrLen + 1)) \in Nat
      BY <1>1, PowerPositive, 8 * AddrLen \in Nat, 8 * (AddrLen + 1) \in Nat
    <2> QED
      BY <1>1, <2>1, <2>2
  <1>3. PICK n \in T : \A m \in T : n <= m
    BY <1>2, LeastNumber, T \in SUBSET Nat
  <1>4. n \in 0..AddrLen
    BY <1>1, <1>2, <1>3
  <1>5. ShiftRight(v, 8 * (n + 1)) = 0
    BY <1>3, ShiftZero, 8 * (n + 1) \in Nat
  <1>6. ShiftRight(v, 8 * n) > 0 \/ n = 0
    <2> SUFFICES ASSUME n # 0 PROVE ShiftRight(v, 8 * n) > 0
      OBVIOUS
    <2>1. n - 1 \in Nat /\ n - 1 \notin T /\ (n - 1) + 1 = n
      BY <1>3
    <2>2. ~ (v < 2^(8 * n)) /\ 8 * n \in Nat
      BY <2>1
    <2> QED
      BY <2>2, ShiftZero
  <1>7. /\ Log256(v) \in 0..AddrLen
        /\ ShiftRight(v, 8 * (Log256(v) + 1)) = 0
    <2>1. \E m \in 0..AddrLen : /\ ShiftRight(v, 8 * m) > 0 \/ m = 0
                                /\ ShiftRight(v, 8 * (m + 1)) = 0
      BY <1>4, <1>5, <1>6
    <2> QED
      BY <2>1, Zenon DEF Log256
  <1>8. Log256(v) \in Nat /\ 8 * (Log256(v) + 1) \in Nat
    BY <1>7
  <1> QED
    BY <1>7, <1>8, ShiftZero

\* toHexString always writes something.
LEMMA HexParts ==
  ASSUME NEW v \in Nat, v < 2^(8 * AddrLen)
  PROVE  LET digits == 2 * (Log256(v) + 1)
         IN  /\ digits \in Nat /\ v < 2^(4 * digits)
             /\ Len(ToHexString(v)) = digits + 2
             /\ \A i \in 1..digits :
                   ToHexString(v)[i + 2] = HexDigit(ShiftRight(v, 4 * (digits - i)) % 16)
  <1> DEFINE digits == 2 * (Log256(v) + 1)
             s == [i \in 1..digits |-> HexDigit(ShiftRight(v, 4 * (digits - i)) % 16)]
  <1>1. digits \in Nat /\ 4 * digits = 8 * (Log256(v) + 1) /\ v < 2^(8 * (Log256(v) + 1))
    BY Log256Bytes
  <1>2. ToHexString(v) = <<48, 120>> \o s
    BY DEF ToHexString
  <1>3. \A i \in 1..digits : s[i] \in Int
    <2> TAKE i \in 1..digits
    <2>1. digits - i \in Nat /\ 4 * (digits - i) \in Nat
      BY <1>1
    <2>2. ShiftRight(v, 4 * (digits - i)) \in Nat
      BY <2>1, ShiftDigit
    <2> QED
      BY <2>2 DEF HexDigit
  <1>4. s \in Seq(Int) /\ Len(s) = digits
    <2> HIDE DEF digits
    <2>1. s \in [1..digits -> Int]
      BY <1>3
    <2>2. DOMAIN s = 1..digits
      OBVIOUS
    <2> HIDE DEF s
    <2> QED
      BY <1>1, <2>1, <2>2
  <1>5. ASSUME NEW i \in 1..digits
        PROVE  s[i] = HexDigit(ShiftRight(v, 4 * (digits - i)) % 16)
    OBVIOUS
  <1> HIDE DEF s, digits
  <1>6. <<48, 120>> \in Seq(Int) /\ Len(<<48, 120>>) = 2
    OBVIOUS
  <1>7. Len(ToHexString(v)) = digits + 2 /\ \A i \in 1..digits : ToHexString(v)[i + 2] = s[i]
    BY <1>1, <1>2, <1>4, <1>6
  <1> QED
    BY <1>1, <1>5, <1>7 DEF digits

LEMMA DigitInjective ==
  ASSUME NEW d \in 0..15, NEW e \in 0..15, HexDigit(d) = HexDigit(e)
  PROVE  d = e
  BY DEF HexDigit

\* Different addresses have different names.
LEMMA HexInjective ==
  ASSUME NEW v \in Nat, v < 2^(8 * AddrLen), NEW w \in Nat, w < 2^(8 * AddrLen),
         ToHexString(v) = ToHexString(w)
  PROVE  v = w
  <1>1. PICK d \in Nat : /\ v < 2^(4 * d) /\ Len(ToHexString(v)) = d + 2
                         /\ \A i \in 1..d :
                              ToHexString(v)[i + 2] = HexDigit(ShiftRight(v, 4 * (d - i)) % 16)
    BY HexParts
  <1>2. PICK e \in Nat : /\ w < 2^(4 * e) /\ Len(ToHexString(w)) = e + 2
                         /\ \A i \in 1..e :
                              ToHexString(w)[i + 2] = HexDigit(ShiftRight(w, 4 * (e - i)) % 16)
    BY HexParts
  <1>3. e = d
    BY <1>1, <1>2
  <1> DEFINE S == {j \in Nat : j <= d => ShiftRight(v, 4 * (d - j)) = ShiftRight(w, 4 * (d - j))}
  <1>4. 0 \in S
    <2>1. 4 * d \in Nat /\ 4 * (d - 0) = 4 * d
      OBVIOUS
    <2> QED
      BY <1>1, <1>2, <1>3, <2>1, ShiftZero
  <1>5. ASSUME NEW j \in S PROVE j + 1 \in S
    <2> SUFFICES ASSUME j + 1 <= d
                 PROVE  ShiftRight(v, 4 * (d - (j + 1))) = ShiftRight(w, 4 * (d - (j + 1)))
      OBVIOUS
    <2>1. PICK k \in Nat : k = 4 * (d - (j + 1)) /\ k + 4 = 4 * (d - j)
      BY 4 * (d - (j + 1)) \in Nat
    <2>2. ShiftRight(v, k + 4) = ShiftRight(w, k + 4)
      BY <2>1
    <2>3. HexDigit(ShiftRight(v, k) % 16) = HexDigit(ShiftRight(w, k) % 16)
      <3>1. j + 1 \in 1..d
        OBVIOUS
      <3> QED
        BY <1>1, <1>2, <1>3, <2>1, <3>1
    <2>4. ShiftRight(v, k) % 16 \in 0..15 /\ ShiftRight(w, k) % 16 \in 0..15
      BY ShiftDigit, SixteenFacts
    <2>5. ShiftRight(v, k) % 16 = ShiftRight(w, k) % 16
      BY <2>3, <2>4, DigitInjective
    <2>6. ShiftRight(v, k) = ShiftRight(w, k)
      BY <2>2, <2>5, ShiftDigit
    <2> QED
      BY <2>1, <2>6
  <1> HIDE DEF S
  <1>6. d \in S
    BY <1>4, <1>5, Induction, S \in SUBSET Nat DEF S
  <1>7. ShiftRight(v, 0) = ShiftRight(w, 0)
    <2>1. ShiftRight(v, 4 * (d - d)) = ShiftRight(w, 4 * (d - d))
      BY <1>6 DEF S
    <2>2. 4 * (d - d) = 0
      OBVIOUS
    <2> QED
      BY <2>1, <2>2
  <1> QED
    BY <1>7, ShiftZero

---------------------------------------------------------------------------
(* The names. *)

\* The strings from which names are made are never empty.
LEMMA HexNotEmpty ==
  ASSUME NEW v \in Nat, v < 2^(8 * AddrLen)
  PROVE  ToHexString(v) # <<>>
  <1>1. PICK d \in Nat : Len(ToHexString(v)) = d + 2
    BY HexParts
  <1>2. Len(<<>>) = 0
    OBVIOUS
  <1> QED
    BY <1>1, <1>2

LEMMA AddressFits ==
  ASSUME NEW token \in Addresses
  PROVE  token \in Nat /\ token < 2^(8 * AddrLen)
  <1>1. 8 * AddrLen \in Nat
    BY NamerAssumption
  <1>2. 2^(8 * AddrLen) \in Nat
    BY <1>1, PowerPositive
  <1> QED
    BY <1>2, PenguinAssumption

LEMMA NamesNotEmpty ==
  ASSUME NEW token \in Addresses, NEW answer
  PROVE  TokenSymbol(token, answer) # <<>> /\ TokenName(token, answer) # <<>>
  <1>1. token \in Nat /\ token < 2^(8 * AddrLen)
    BY AddressFits
  <1>2. 8 * AddrLen \in Nat /\ 8 * (AddrLen - 2) \in Nat
    BY NamerAssumption
  <1>3. PICK first \in 0..token : first = ShiftRight(token, 8 * (AddrLen - 2))
    BY <1>1, <1>2, ShiftZero
  <1>4. first \in Nat /\ first < 2^(8 * AddrLen)
    <2>1. 2^(8 * AddrLen) \in Nat
      BY <1>2, PowerPositive
    <2> QED
      BY <1>1, <2>1
  <1>5. AddressToName(token) # <<>> /\ AddressToSymbol(token) # <<>>
    BY <1>1, <1>3, <1>4, HexNotEmpty DEF AddressToName, AddressToSymbol
  <1> QED
    BY <1>5 DEF TokenSymbol, TokenName

\* A pair keeps the names that create made for its key.
NamesKept ==
    /\ DOMAIN names = Deployed
    /\ \A p \in Deployed : keyOf[p] \in Keys /\ names[p] = NamesFor(keyOf[p])

LEMMA InitNames == Init => NamesKept
  <1> SUFFICES ASSUME Init PROVE NamesKept
    OBVIOUS
  <1>1. DOMAIN keyOf = {} /\ DOMAIN names = {}
    BY DEF Init
  <1> QED
    BY <1>1 DEF NamesKept, Deployed

LEMMA StepNames == NamesKept /\ [Next]_vars => NamesKept'
  <1> SUFFICES ASSUME NamesKept, [Next]_vars PROVE NamesKept'
    OBVIOUS
  <1>1. ASSUME NEW k \in Keys, NEW p \in PairAddrs, Create(k, p) PROVE NamesKept'
    <2>1. /\ p \notin Deployed /\ answers' = answers
          /\ keyOf' = [q \in Deployed \cup {p} |-> IF q = p THEN k ELSE keyOf[q]]
          /\ names' = [q \in Deployed \cup {p} |-> IF q = p THEN NamesFor(k) ELSE names[q]]
      BY <1>1 DEF Create
    <2>2. Deployed' = Deployed \cup {p} /\ DOMAIN names' = Deployed \cup {p}
      BY <2>1 DEF Deployed
    <2>3. ASSUME NEW q \in Deployed'
          PROVE  keyOf'[q] \in Keys /\ names'[q] = NamesFor(keyOf'[q])
      <3>1. q \in Deployed \cup {p}
        BY <2>2
      <3>2. CASE q = p
        BY <2>1, <3>1, <3>2
      <3>3. CASE q # p
        <4>1. q \in Deployed /\ keyOf'[q] = keyOf[q] /\ names'[q] = names[q]
          BY <2>1, <3>1, <3>3
        <4> QED
          BY <4>1 DEF NamesKept
      <3> QED
        BY <3>2, <3>3
    <2> QED
      BY <2>1, <2>2, <2>3, ZenonT(30) DEF NamesKept, NamesFor
  <1>2. ASSUME UNCHANGED <<answers, keyOf, names>> PROVE NamesKept'
    BY <1>2 DEF NamesKept, NamesFor, Deployed
  <1>3. ASSUME \/ \E u, p : Close(u, p)
               \/ \E u, newOwner : TransferOwnership(u, newOwner)
               \/ Tick
               \/ UNCHANGED vars
        PROVE  UNCHANGED <<answers, keyOf, names>>
    BY <1>3 DEF Close, TransferOwnership, Tick, vars
  <1> QED
    BY <1>1, <1>2, <1>3 DEF Next

\* Two pairs of collections without a name are called differently, and no pair
\* or token is called nothing.
LEMMA KeptIdentify == NamesKept => NamesIdentify
  <1> SUFFICES ASSUME NamesKept, NEW p \in Deployed
               PROVE  /\ \A part \in DOMAIN names[p] : names[p][part] # <<>>
                      /\ \A q \in Deployed :
                            /\ keyOf[p].nft # keyOf[q].nft
                            /\ Parsed(answers[keyOf[p].nft].name) = <<>>
                            /\ Parsed(answers[keyOf[q].nft].name) = <<>>
                            => names[p].nftName # names[q].nftName
    BY DEF NamesIdentify
  <1>1. \A q \in Deployed : /\ keyOf[q].nft \in Addresses /\ keyOf[q].baseToken \in Addresses
                            /\ names[q] = NamesFor(keyOf[q])
    BY DEF NamesKept, Keys
  <1>2. ASSUME NEW part \in DOMAIN names[p] PROVE names[p][part] # <<>>
    <2> DEFINE k == keyOf[p]
    <2>1. /\ TokenSymbol(k.nft, answers[k.nft].symbol) # <<>>
          /\ TokenName(k.nft, answers[k.nft].name) # <<>>
          /\ TokenSymbol(k.baseToken, answers[k.baseToken].symbol) # <<>>
      BY <1>1, NamesNotEmpty
    <2>2. <<69, 84, 72>> # <<>>
      OBVIOUS
    <2>3. part \in {"nftSymbol", "nftName", "baseSymbol"}
      BY <1>1 DEF NamesFor
    <2>4. /\ names[p]["nftSymbol"] # <<>> /\ names[p]["nftName"] # <<>>
          /\ names[p]["baseSymbol"] # <<>>
      <3>1. names[p] = NamesFor(k)
        BY <1>1
      <3> HIDE DEF k
      <3> QED
        BY <2>1, <2>2, <3>1 DEF NamesFor
    <2> QED
      BY <2>3, <2>4
  <1>3. ASSUME NEW q \in Deployed, keyOf[p].nft # keyOf[q].nft,
               Parsed(answers[keyOf[p].nft].name) = <<>>,
               Parsed(answers[keyOf[q].nft].name) = <<>>
        PROVE  names[p].nftName # names[q].nftName
    <2>1. /\ names[p].nftName = ToHexString(keyOf[p].nft)
          /\ names[q].nftName = ToHexString(keyOf[q].nft)
      <3>1. \A k : NamesFor(k).nftName = TokenName(k.nft, answers[k.nft].name)
        BY DEF NamesFor
      <3> QED
        BY <1>1, <1>3, <3>1 DEF TokenName, AddressToName
    <2> QED
      BY <1>1, <1>3, <2>1, AddressFits, HexInjective
  <1> QED
    BY <1>2, <1>3

\* Whatever the tokens answer: every pair has names, and collections that have
\* no name of their own are not given the same one.
THEOREM NamesIdentifyHolds == Spec => []NamesIdentify
  BY InitNames, StepNames, KeptIdentify, PTL DEF Spec
===========================================================================
