------------------------------ MODULE OzSqrt ------------------------------
(***************************************************************************)
(* OpenZeppelin's Math.sqrt (lib/openzeppelin-contracts), loop by loop, on *)
(* words of 2^LogWidth bits: the binary logarithm, the first guess and the *)
(* Newton iterations that addQuote relies on for the first deposit.        *)
(*                                                                         *)
(* The code is unrolled for 256 bits (LogWidth = 8): eight rounds of log2  *)
(* and seven of Newton.  At width 2^LogWidth that is LogWidth rounds and   *)
(* LogWidth - 1, since each round of Newton doubles the one correct bit.   *)
(***************************************************************************)
EXTENDS PairMath

CONSTANT LogWidth

ASSUME WidthAssumption == LogWidth \in Nat \ {0} /\ MaxUint = 2^(2^LogWidth) - 1

VARIABLES
    a,       \* the argument
    value,   \* what log2 has left to look at
    result,  \* log2 so far, then the estimate
    round,   \* rounds left of the current loop
    pc       \* "log2", "newton" or "done"

vars == <<a, value, result, round, pc>>

ShiftRight(x, n) == x \div 2^n

NewtonRoundsFewer == LogWidth - 2   \* mutation: one iteration less

NewtonRounds == LogWidth - 1

Init ==
    /\ a \in 0..MaxUint
    /\ value = a /\ result = 0
    /\ IF a = 0 THEN round = 0 /\ pc = "done"
                ELSE round = LogWidth /\ pc = "log2"

\* if (value >> n > 0) { value >>= n; result += n; } for n = 128, 64, ..., 1;
\* the last shift, which the code saves itself, is not looked at any more.
Log2Round ==
    LET n == 2^(round - 1)
        high == ShiftRight(value, n) > 0
    IN  /\ pc = "log2" /\ round > 0
        /\ value' = IF high THEN ShiftRight(value, n) ELSE value
        /\ result' = IF high THEN result + n ELSE result
        /\ round' = round - 1
        /\ UNCHANGED <<a, pc>>

\* result = 1 << (log2(a) >> 1)
Guess ==
    /\ pc = "log2" /\ round = 0
    /\ result' = 2^ShiftRight(result, 1)
    /\ round' = NewtonRounds
    /\ pc' = "newton"
    /\ UNCHANGED <<a, value>>

\* result = (result + a / result) >> 1, in an unchecked block.
NewtonRound ==
    /\ pc = "newton" /\ round > 0
    /\ result' = ShiftRight(Unchecked(result + a \div result), 1)
    /\ round' = round - 1
    /\ UNCHANGED <<a, value, pc>>

\* return min(result, a / result)
Return ==
    /\ pc = "newton" /\ round = 0
    /\ result' = Least(result, a \div result)
    /\ pc' = "done"
    /\ UNCHANGED <<a, value, round>>

Next == Log2Round \/ Guess \/ NewtonRound \/ Return

Spec == Init /\ [][Next]_vars

---------------------------------------------------------------------------
\* The number returned is the square root rounded down, the operator Sqrt that
\* addQuote uses in PairMath: the rounds are enough for every word, and the
\* unchecked arithmetic of the iteration never wraps (Math.sqrt, Math.log2).
SqrtIsFloor == pc = "done" => result = Sqrt(a)
===========================================================================
