------------------------------ MODULE Ledger ------------------------------
(***************************************************************************)
(* Token balances as functions from accounts to amounts: what solmate's    *)
(* ERC20 and Pair._transferFrom do to balanceOf and totalSupply, and the   *)
(* sum of a ledger.                                                        *)
(***************************************************************************)
EXTENDS Uint, FiniteSets

CanDebitSlack(bal, from, amount) ==   \* mutation: the check is off by one
    amount <= bal[from] + 1

\* Checked debit: the subtraction reverts if the balance is too small.
CanDebit(bal, from, amount) == amount <= bal[from]

\* Pair._transferFrom and solmate ERC20.transfer: the debit is checked, the
\* credit is not.
TransferFrom(bal, from, to, amount) ==
    LET debited == [bal EXCEPT ![from] = @ - amount]
    IN  [debited EXCEPT ![to] = Unchecked(@ + amount)]

SupplyKept(supply, amount) == supply   \* mutation: _burn forgets the supply

\* solmate ERC20._mint and _burn: the supply is checked when it grows, the
\* balance when it falls; the other half of each is unchecked.
Minted(bal, to, amount)      == [bal EXCEPT ![to] = Unchecked(@ + amount)]
SupplyMinted(supply, amount) == supply + amount
Burned(bal, from, amount)    == [bal EXCEPT ![from] = @ - amount]
SupplyBurned(supply, amount) == Unchecked(supply - amount)

\* The base token: an honest ERC20 without fees or rebases, or ether.
Pay(base, from, to, amount) ==
    LET debited == [base EXCEPT ![from] = @ - amount]
    IN  [debited EXCEPT ![to] = @ + amount]

\* The sum of a ledger, counted token by token.  It is a cardinality and not
\* a fold so that the prover's theorems on finite sets apply to it.
Coins(bal) == UNION {{a} \X (1 .. bal[a]) : a \in DOMAIN bal}
Total(bal) == Cardinality(Coins(bal))
===========================================================================
