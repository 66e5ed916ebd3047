----------------------------- MODULE Dictionary -----------------------------
(***************************************************************************)
(* What an enumerable set or map promises: a function from the keys that   *)
(* are present to their values, and an answer that says whether a call     *)
(* added or removed a key.                                                 *)
(***************************************************************************)
CONSTANTS KeySet, ValueSet

VARIABLES dict, answer

vars == <<dict, answer>>

Init == dict = [k \in {} |-> 0] /\ answer = FALSE

Put(k, v) ==
    /\ dict' = [j \in DOMAIN dict \cup {k} |-> IF j = k THEN v ELSE dict[j]]
    /\ answer' = (k \notin DOMAIN dict)

Delete(k) ==
    /\ dict' = [j \in DOMAIN dict \ {k} |-> dict[j]]
    /\ answer' = (k \in DOMAIN dict)

Next == \E k \in KeySet : Delete(k) \/ \E v \in ValueSet : Put(k, v)

Spec == Init /\ [][Next]_vars
===========================================================================
