# Penguin Finance in TLA+

Penguin Finance is an AMM for NFTs. A factory (`src/Penguin.sol`) deploys one
pair contract (`src/Pair.sol`) for each collection, base token and Merkle root.
A pair wraps NFTs into a fractional ERC20 token (`ONE` = 1e18 units per NFT),
trades that token against the base token on a constant-product curve, and
issues an LP token (`src/LpToken.sol`) to those who deposit both. This directory
models the contracts, checks them with TLC on small instances and proves the
main results with TLAPS for every value of the constants. Most of the
JavaScript under `src/` is build tooling of the vendored OpenZeppelin library;
of it, the templates that generate Solidity are modelled too, in modules of
their own that nothing else here depends on.

## The system

| Component | State | Operations | What makes it correct |
|---|---|---|---|
| Core AMM, `Pair.sol` 82-250, 457-544 | `balanceOf`, `totalSupply` of the fractional token; base tokens or ether of the contract | `add`, `remove`, `buy`, `sell`, the four quotes | the books add up; LPs are not diluted; swaps stay on the curve whatever the rounding; no side of the pool runs dry; no ether is lost |
| NFT wrapping, `Pair.sol` 318-372, 396-412 | the NFTs the contract owns | `wrap`, `unwrap` | every `ONE` fractions are backed by an NFT; only valid ids are wrapped |
| NFT AMM, `Pair.sol` 256-312 | none of its own | `nftAdd`, `nftRemove`, `nftBuy`, `nftSell` | each is the composition of two operations in one transaction |
| Emergency exit, `Pair.sol` 418-439 | `closeTimestamp` | `close`, `withdraw` | holders of fractions have one day's notice; it is given once and runs out |
| Factory, `Penguin.sol` | `pairs[nft][baseToken][merkleRoot]`, `owner` | `create`, `destroy`, `transferOwnership` | the mapping lists exactly the open pairs |
| LP token, `LpToken.sol` | balances and supply | `mint`, `burn` (by the pair only), transfers | balances sum to the supply |
| `Math.sqrt`, vendored OpenZeppelin | none | Newton iteration | the floor of the root, for every word |
| `SafeERC20Namer.sol` | none | `tokenSymbol`, `tokenName` | always a name, for odd tokens too |
| Merkle scripts, `script/helpers`, `CreatePair.s.sol` | the ranking file | root and proof of the ids in the file | the contract accepts the proofs of exactly the ids its root was made from |
| Generated structures of OpenZeppelin, `scripts/generate/templates` (vendored; not used by the contracts) | an array and the places of its values; a mapping; checkpoints | `add`, `remove`, `set`, `push`, the lookups, the casts | sets and maps are dictionaries; a lookup finds the last value written; the past is fixed |
| Other deployment scripts, interfaces | none | | |

How they interact:

- `Penguin.create` deploys a pair, which deploys its LP token and remembers the
  factory; it lists the pair under its key.
- `Pair.close` asks the factory for its owner and calls back `Penguin.destroy`,
  which accepts only the pair listed under the key. A closed pair goes on
  existing: everything but `wrap` (and `nftAdd`, `nftSell`) still works, and
  another pair may be created under its key.
- `Pair.withdraw` asks the factory for its owner at that time, who need not be
  the one who closed.
- The NFT AMM calls the public functions of the same contract, in the same
  transaction and with the same `msg.value`.
- The pair calls three foreign contracts: the collection, the base token and
  the recipient of ether. They are assumed honest (`docs/Security.md`: no
  rebasing or fee-on-transfer tokens, no malicious collections). The recipients
  of ether and of NFTs may call the pair again while they are called.
- `Penguin.create` asks the collection and the base token for their names.
- The merkle root is made off-chain from a ranking file; `wrap` verifies proofs
  that are made from the same file, at another time.

What is hard here: roundings and divisions on every path; unchecked credits
whose safety rests on a global sum; `msg.value` that is in the balance before
the quote is taken; ether that can leave by three doors only; a close that
writes its state before the factory has accepted it; a successor under the key
of a closed pair; NFTs that arrive without being wrapped; callbacks to the
recipient in the middle of an operation; transactions that execute later than
their limits were computed. `PROJECT.json` lists these as hazards, each at its
line, with the properties that would catch it.

## Modules

| Module | What it is |
|---|---|
| `Uint` | words of the EVM: what checked arithmetic accepts, what unchecked arithmetic does |
| `Ledger` | `_transferFrom`, `_mint`, `_burn` and the base token as operators on functions from accounts to amounts; `Total`, the sum of a ledger |
| `PairMath` | the four quotes, each with the condition under which no intermediate result reverts |
| `Pair` | one pair with its LP token and its entry in the factory: the state machine and its properties |
| `NftVault` | abstract: a vault that issues `ONE` units per NFT, with a notice before NFTs leave for free |
| `PairVault` | the refinement mapping from `Pair` to `NftVault` |
| `PairDocs` | sentences of the documents and comments that the code does not keep |
| `Penguin` | the factory and the key and close of every pair it ever deployed |
| `PairCalls` | `Pair` with a stack of interrupted calls, and `Pair` again as what it implements |
| `Namer` | the names of a pair from the answers of its tokens, byte by byte |
| `Merkle` | the ranking file, the scripts, the tree and `_validateTokenIds` |
| `OzSqrt` | `Math.sqrt` and `Math.log2`, loop by loop |
| `EnumerableSet`, `EnumerableMap`, `SafeCast`, `Checkpoints` | the generated structures, as operators on their storage |
| `OzMocks` | the mock contracts that call these operators: the state machine and its properties |
| `Dictionary` | abstract: a function from keys to values, and a truthful answer |
| `MCPair`, `MCPairCalls`, `MCPenguin`, `MCMerkle` | values and symmetry for TLC |
| `NatProofs`, `PairMathProofs`, `PairProofs`, `PairCallsProofs`, `PenguinProofs`, `OzSqrtProofs`, `MerkleProofs`, `OzMocksProofs` | theorems and proofs |

`PairCalls` extends `Pair`, `Penguin` extends `Namer`, `OzMocks` extends
`EnumerableMap` (which extends `EnumerableSet`) and `Checkpoints` (which extends
`SafeCast`).

### How the models correspond to the code

*Atomic calls.* A transaction runs to its end or is reverted, so each public
function is one action and a call that fails a `require` is an action that is
not enabled. The guards of an action are the `require`s, the overflow and
division checks of Solidity 0.8 (`Fits`, `XxxQuoteOk`) and the balance checks
of the tokens. `NftAdd`, `NftRemove`, `NftBuy` and `NftSell` apply the second
operation to the fractional balances the first one leaves (`WrapBalances`,
`RemoveBalances`, `BuyBalances`), which is why `AddLiquidity`, `SellFractions`
and `UnwrapNfts` take those balances as a parameter.

*Callbacks.* While ether or an NFT is sent to a contract, that contract may call
the pair again. At the end of an operation such a call is a call that follows. In
the middle it can happen at three places: in `unwrap`, after each NFT but the
last, and in `nftBuy` and `nftRemove`, after the ether is paid and before
`unwrap`. `PairCalls` splits these three there and keeps what is left of each
interrupted call in a frame on `stack`; everything else is taken over from `Pair`.
`UnwrapCall`, `NftBuyCall` and `NftRemoveCall` start them, `Resume` and `SendNext`
go on with the innermost one. Here token ids are arrays: each place of the array
costs `ONE` fractions when the call starts, and its NFT is sent when its turn
comes. An id that is in the array twice is sent twice if the receiver of the first
transfer gives the NFT back in its callback; otherwise the call cannot go on. A
callee that fails reverts its own frame, or all of them: both lead back to a state
that the behaviour has passed before. Time stands still while the stack is not
empty.

*Ether.* `NativeBase` says that the base token is `address(0)`. The value of a
call is in the contract's balance (`Credited`) before the quote is computed, as
in the EVM, and `BaseTokenReserves` subtracts it again.

*Tokens.* In `Pair`, where no callback does anything, a token id array is a set:
with a duplicate the second transfer reverts. In `wrap`, `nftAdd` and `nftSell` it
always does, because the pair owns the NFT by then; in `unwrap`, `nftRemove` and
`nftBuy` it need not, if a callback comes in between, and `PairCalls` has these
calls. A Merkle proof appears by what it establishes:
`MerkleIds` are the ids that have one, and `Merkle` is about the proofs
themselves. The base token is a ledger whose total
at the start fits the word. Approvals are taken as given. Tokens and NFTs may also be
sent to the contract by plain transfers, ether may not (there is no `receive`);
ether that a `selfdestruct` forces in, or that the address had before the pair was
deployed, is not modelled, and `NoOrphanedEther` does not speak of it.

*Time.* `now` is `block.timestamp`, `Day` the one day of `close` in ticks.
`CLOSE_GRACE_PERIOD` is not used by the code and so is not in the model.

*The factory.* In `Pair` the entry of the pair is the variable `registered`;
`Penguin` has the whole mapping, and there the pair is its key and its close.
Only the difference of `closeTimestamp` and `block.timestamp` matters there,
and `graceLeft` counts it down, so that time needs no bound.

*Names.* In `Namer` a string is a sequence of bytes and an answer what
`staticcall` returns. `WordLen` and `AddrLen` are the sizes of a word and an
address. What `abi.decode` accepts is part of the guard of `Create` (`Nameable`).

*Merkle trees.* The hash is symbolic and injective, and `Node` takes a set
because pairs are sorted before they are hashed. Leaves are sorted by
`HashOrder`, an arbitrary order that stands for the one of the hashes. The tree
(`Above`, `Layers`, `HexProof`) is that of merkletreejs with the option `sort`,
and `Computed` and `Verify` are solmate's `MerkleProofLib`; both libraries are
external. `ValidateTokenIds` is the loop of `_validateTokenIds`. Its early return
for the zero root is in `Pair` (`ValidTokenIds`): the root of a file is never
zero. The ranking file may be edited at any time
(`EditRanking`), and a caller of `Wrap` may have proofs made for other ids
than the ones he passes, or for fewer.

*Generated structures.* An operator of `EnumerableSet`, `EnumerableMap` or
`Checkpoints` takes the storage and returns what a function of the template makes
of it or reads from it; those with `Inner` in their names are the functions on the
untyped structure inside. `OzMocks` has one action per function of the mock
contracts, and `kind` says which mock is deployed. A `bytes32` is a number, and
conversions to and from `address` cut it as Solidity does. Binary searches are
recursive functions on their two bounds. The `push` that takes an operation is in
no mock; its two uses in the library (add, subtract) are `PushOp`.

*Definitions named "mutation"* in a comment belong to no model: each is the
plausible mistake in the definition that follows it, and putting it in that
definition's place must break a property.

## What the runs check

| Run | Question | Instance | Distinct states |
|---|---|---|---|
| `amm_erc20` | books, empty pools, dilution, curve | 2 users, 2 NFTs, `ONE` = 3, 5 base tokens each, amounts 1, 2, 4 | 33 thousand |
| `lifecycle_ether` | a pool with ether: `msg.value`, refunds, nothing left behind; backing, close, withdraw, refinement of `NftVault` | 2 users who may own the factory, 2 NFTs, `ONE` = 3, 3 ether each, amounts 1, 2, `Day` = 1, time up to 3 | 193 thousand |
| `narrow_word` | reverts and unchecked credits of mints, deposits, removals and transfers at the width of the word (no swap: 1000 times anything does not fit) | 3-bit words, 4 NFTs of 3 units, one without a proof | 13 thousand |
| `calls_ether` | callbacks in the middle of `unwrap`, `nftBuy` and `nftRemove` | ether, 2 users, 2 NFTs, `ONE` = 1, 3 ether, stacks of depth 2, arrays of up to 2 ids | 21 thousand |
| `calls_exit` | wraps, close and withdrawals in the callbacks of `unwrap` | no pool, 2 users, 3 NFTs, stacks of depth 3, arrays of up to 3 ids, time up to 3 | 4 thousand |
| `factory` | the mapping and the notice, over generations of pairs; the names | 2 contracts that may be collection or base token, 3 pairs, 2 users, `Day` = 2, 5 assignments of answers | 97 thousand |
| `merkle` | the scripts against the verification | 5 ids, 9 contents of the file, trees of 1 to 5 leaves, up to 2 ids per call, made-up proofs of up to 3 hashes | 1 thousand |
| `structs` | sets, maps, checkpoints, casts | 4 words of which 2 are addresses; words of 4 bits, keys of 3, values of 1; up to 8 checkpoints | 78 thousand |
| `sqrt` | the Newton iteration | every 16-bit word | 655 thousand |
| `grace`, `stray`, `product` | where code and documents part | an ERC20 as base token, 2 users, 2 or 3 NFTs | violated |

The properties:

- `TypeOK`, in `Pair`: every balance and supply is a word; in `Penguin`: the
  mapping, the keys and the countdowns, which never exceed the one day of `close`.
- `LedgersAddUp`: both tokens' balances sum to their supply. The comment at
  `Pair.sol` 385 rests on it.
- `PoolNeverDrained`: while LP tokens exist, both reserves are positive.
- `NoOrphanedEther`: without LP tokens there is no ether in the contract.
- `SharesNotDiluted`: a deposit or removal never lowers, on either side, the
  reserves per LP token.
- `SwapsFollowCurve`: a swap ends within one base token of the curve in the
  comments of `buyQuote` and `sellQuote`. The seller is never paid more than the
  curve. The buyer is never charged more, and may be charged up to one unit
  less: rounding favours the buyer.
- `Backed`: until the notice of a close has run out there is an NFT for every
  `ONE` fractions.
- `RefinesVault`: the pair implements `NftVault`.
- `CallsAreAtomic`: `PairCalls` implements `Pair`. Fractions that an interrupted
  `unwrap` has burned for NFTs it has not sent yet count, in the refinement
  mapping, as not yet burned; then every step of nested calls is a step that
  `Pair` could take, and an `unwrap` of many ids is one of each id in turn, also
  if an id is in the array twice.
- `BackedInCalls`: `Backed` with these debts on the side of the fractions.
- `ListedIffOpen`, `DelistedByItself`, `GraceRunsOut`: see `Penguin`.
- `NamesIdentify`: no pair has an empty name, and two collections without names
  do not get the same one.
- `OnlyPublishedIdsEnter`, `PublishedIdsAreAccepted`, `NothingElseProves`: only ids
  of the file the root was made from get in; all of them do, with proofs made
  from any file that lists the same ids; no hashes of any tree, in any sequence as
  long as the longest proof, get another id through.
- `RefinesDictionary`, `ReadsAgree`: what `at` enumerates is a dictionary, and
  `contains`, `length`, `values`, `tryGet` and `get` show the same.
- `LookupsAgree`: the binary searches, also the one that starts among the last
  sqrt(n), find what the definition "the last value at or before the key" says.
  `KeysIncrease` is what they rest on.
- `PastIsFixed`: what was once read for a block is never read otherwise.
- `CastsAreExact`: a cast succeeds for the values of its type only, unchanged.
- `SqrtIsFloor`: the vendored `sqrt` is the operator `Sqrt` of `PairMath`.

*Bounds, and why they are enough.* Two users suffice for every interaction of a
trader with an LP or of an owner with a holder; the properties compare two
states of one pool and no property relates three accounts. `ONE` = 3 makes
fractions of an NFT tradable. With the 10 base tokens and 6 fractions of
`amm_erc20` the reserves take all the shapes the roundings distinguish: a quote of
zero, a share of zero, a side at one. `lifecycle_ether` has a smaller pool, because
its question is the order of the calls rather than the roundings. `MaxLpSupply`
caps the LP supply, `MaxTime` the time, `Amount` and `Limit` the arguments; all are
constants, and the theorems hold for every value of them. `MaxUint` is 65535 where
overflow is not the question, because the largest product of a quote on that
instance is below it, and 7 in `narrow_word`, where it is.

In `calls_ether` one user starts with all the ether, three units, so that there is
something to refund; depth 2 lets a callback interrupt a callback. In `calls_exit`
the owner of the factory is a user too. `MaxIds` is the number of NFTs: every place
of an array costs `ONE` fractions when the call starts, and there are never more of
them than NFTs, so a longer array fails at once. `MaxProof` is 3, the height of the
tree of five leaves. Seven or eight checkpoints are needed for the search among the
recent ones, which starts at six.

Symmetry is used where all users, all ids, or all ids that have a proof
(`ProvedSymmetry`) are alike, and only for safety. Deadlock is not checked: a model
stops when its time, its tokens or its pairs are used up, and in `PairCalls` also
when a call cannot go on, which stands for its revert.

*Fairness.* Only `Penguin` has any: weak fairness of `Tick`, that blocks go on
being produced. No caller is assumed to do anything.

### Where the code and the documents disagree

- `grace`: `CLOSE_GRACE_PERIOD` is 7 days and unused; `close` gives one day, as
  `docs/Security.md` 21 and the tests say.
- `stray`: `docs/Security.md` 11 says NFTs sent to the contract by accident cannot
  be withdrawn; anyone with `ONE` fractions can unwrap them, or buy them with
  `nftBuy`, which takes no proofs although `docs/Specification.md` 67 and 75 give
  it some.
- `product`: the documents name x*y=k; `buyQuote` rounds down, and at small
  reserves the product falls. `SwapsFollowCurve` says by how much at most.

Two comments of `SafeERC20Namer` are looser than the code, and no run is spent on
them. "This library will always produce a string symbol" (line 8): where
`abi.decode` fails, `create` reverts, and `Nameable` is its guard. "The first 4 hex
of the address string" (line 55): `toHexString` drops leading zero bytes, so the
symbol of an address that starts with a zero byte has two digits.

## What is proved

`PairProofs` proves `Spec => []IInv` for every finite set of users and NFTs,
every word size, `ONE`, day and bound (`MaxUintAssumption`, `PairAssumption`,
`BoundsAssumption`). `IInv` is the conjunction of `TypesNat` (`TypeOK` with natural
numbers for words), `LedgersAddUp`, `ListedWhileOpen`, `Backed`,
`PoolNeverDrained` and `NoOrphanedEther`. None of them is inductive alone:

- types need `LedgersAddUp`: a removal pays a share of the reserve, and the share
  is at most one because nobody holds more LP tokens than exist; no credit
  wraps because the sum of the balances fits the word;
- that balances are words (`TypeOKHolds`) follows from the sums: those of the two
  tokens are their supplies, and no operation changes the sum of the base tokens
  (`BaseConserved`), which fits the word at the start;
- `Backed` needs `ListedWhileOpen`: a second close would start a new notice after
  NFTs had been withdrawn;
- swaps need `PoolNeverDrained`'s positive reserves to leave something, and
  `NoOrphanedEther` needs the last removal to pay out the whole reserve.

The lemmas go by layer. `PairMathProofs`: what a debit, credit, mint and burn does
to `Total`, by cardinality of the set of coins, and bounds of each quote (the
nonlinear arithmetic is isolated there). `PairProofs`: one lemma per
operation on what it does to the ledgers, then one per action that the step is
good, then the theorems. The two action properties, `SharesNotDiluted` and
`SwapsFollowCurve`, come from the same step lemmas.

`PairImplementsVault` (`Spec => RefinesVault`) comes from the invariant: wraps are
deposits, unwraps redemptions, a plain transfer to the contract a gift, `close`
the announcement, `withdraw` a sweep, and everything else stutters.

`PairCallsProofs` proves `CallsSpec => []CallsInv` for any depth of nesting and
arrays of any length, with or without repeated ids.
`CallsInv` is `IInv`, `BackedInCalls` and the type of the stack. `Backed` is not
inductive here: in the middle of an `unwrap` the fractions are gone and the NFTs
are not, and the next NFT that is sent would break it without the debts. The
cardinality of the debts is followed through the start of a call (`OwedAtStart`)
and a round of its loop (`OwedInLoop`); each of the other steps is one of `Pair`,
whose lemmas are used again. `OrderInCalls` and `FairInCalls` carry the
properties of `Pair` over to every moment at which foreign code runs.

`CallsImplementAtomic` is `CallsSpec => CallsAreAtomic`. A step that leaves the
stack alone is the same operation of `Pair` on ledgers that are larger by what
each account is owed (`ShiftedTransfer`, `ShiftedMint`); the transfer of an NFT is
the unwrap of that NFT, the burn of all of them at the start being balanced by the
debts (`StartOutside`, `LoopOutside`). It needs `OwedFits`: supply and debts
together fit the word, also after a notice has run out, when `BackedInCalls` is
silent. From the assumptions on the bounds it uses that the quantities the NFT
operations compute are among those a caller may pass, up to `ONE * MaxIds`
(`CallsAssumption`).

`PenguinProofs` proves the type of its state and the safety properties of the
factory, with the strengthening that an entry is a deployed pair created under
that very key. `NamesIdentifyHolds` needs in addition what every pair was named
after (`NamesKept`), and that different addresses have different hexadecimal
strings (`HexInjective`): the shifts cut a number into digits, and it is put
together from them again.

`OzMocksProofs` proves that sets and maps implement `Dictionary`, for any words
and any number of calls. The invariant says that the array and the places match
(`PlacesMatch`); `AddOK` and `RemoveOK` carry it through the two operations, the
latter through the move of the last value. `ReadsAgreeHolds` pairs the entries one
to one with the indices below the length, and needs that a map keeps no value for
a key it does not hold. `KeysIncreaseHolds` is proved with the types of the
checkpoints. `LookupsAgreeHolds` rests on one fact about both binary searches, by
induction on the length of the part still to be searched: if the checkpoints up
to some place have small keys and those from there on large ones, the search
returns that place. The bounds with which `Recent` starts (the square root of the
length before the end) keep that place between them. `PastIsFixedHolds` follows:
a push changes nothing below the current block, so the place of a past block
stays. `CastsAreExactHolds` is arithmetic on remainders by powers of two.

`OzSqrtProofs` proves `SqrtIsFloor` for words of `2^LogWidth` bits; the code is
`LogWidth = 8`. `SqrtInv` says of the first loop that `result` is the logarithm but
for what `value` still holds, and of the second how far off the estimate is: the
first guess `g` is a power of two with `g <= sqrt(a) < 2g`, a round takes an error
of `t/2` to `t^2/(8x)`, and since the bounds are powers of two their exponents
double, until the error is at most 1/2 and `min(result, a / result)` is the floor.
With one round less this fails (`NewtonRoundsFewer`).

`MerkleProofs` proves the three properties of the Merkle tree for files of any
length with repeated ids, and hashes in any order. Nothing else is accepted: the
root is in the tree, a hash of the tree is a leaf or a `Node` of two hashes of the
tree (`TreeNodes`), and hashes are injective; so every hash that the loop of
`verify` went through is in the tree, back to the leaf it began with
(`ProofOfLeaf`). This holds for a proof of any length made of anything
(`NothingElseVerifies`); `NothingElseProvesHolds` states it for proofs of any
length, `MaxProof`, made of hashes of trees. What the file lists is
accepted: layer by layer the proof of the script computes the hash at the place it
has reached (`UpProves`), through the cases of a left, a right and a missing
sibling, and the last layer is one hash (`LayersShape`). Two files with the same
ids have the same sorted leaves (`SameIdsSameLeaves`). It is assumed that the
hash is injective, and that a leaf is not the hash of two hashes: leaves are
hashes of 32 bytes, nodes of 64.

`NatProofs` has what these proofs of recursive functions and of words rest on.
Induction is stated with a set of numbers in place of a predicate (`Induction`,
`StrongInduction`, from the least element of a set of naturals), so that it can
be cited like any fact; a recursive function is first shown to exist, by
induction on its domain, and then used through its equation. The laws of `2^n`
come from the number of subsets of `1..n`.

Every invariant and action property that a passing run checks is a theorem, and
so are the three refinements. Only model-checked: `GraceRunsOut` (liveness under
fairness is out of the prover's reach) and the violations. `PairMath.Sqrt` is
defined by what it returns; that the vendored code returns it is `SqrtFloorHolds`.

The proofs shaped four definitions, without changing what they mean: binary
searches recur on a pair of bounds, since the provers know functions of one
argument; `Namer` cuts addresses with `ShiftRight`, as the code does; the leaves
of a file are sorted by counting (`Among`), and `Up` and `Computed` are the loop
bodies of the script and of `verify`.

## What is not modelled, and the plan

Done so far, in this order: the arithmetic and the ledgers, the pair, its
abstract vault, the factory, the square root; then the callbacks, the names, the
Merkle tree, and the generated structures of OpenZeppelin; then the proofs of
what had only been model-checked.

What could follow:

1. `PairMempool`: transactions signed against a quote and executed later in any
   order. The limits are guards of `Pair` already; what is missing is a statement
   on the signer's side that is more than the guard.
2. `LiquidityPool`, abstract: shares of a pool whose value per share never
   falls; `Pair` refines it. `SharesNotDiluted` is its core.
3. `Lifecycle`: `Penguin` and `Pair` composed. Now `Pair` has the one entry of the
   mapping that concerns it and `Penguin` the part of each pair that concerns the
   factory.

Left out for good: events, `Deploy.s.sol` and `CreateFakePunks.s.sol` (one
constructor call each), interfaces, gas, ERC20 approvals and permits, the private
and unused `parseStringData` of `SafeERC20Namer`, and the parts of OpenZeppelin
and solmate that the contracts do not call, but for the generated structures.
The remaining JavaScript of the repository renames imports, formats, compares
gas reports and the like for OpenZeppelin's own releases; it has no state worth
a specification. Fee-on-transfer and rebasing tokens are excluded by
`docs/Security.md`. Callbacks of a malicious collection or base token are too.
