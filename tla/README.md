# Bitcoin Witness in TLA+

Bitcoin Witness carries one fact, "exSat's Bitcoin index held this unspent output, worth this much",
from EOS to Creditcoin, and lets a reserve guard there refuse to mint wrapped bitcoin that proven
outputs do not cover. This directory holds TLA+ modules for its components, the TLC configurations
that check them on small instances, and proofs that TLAPS checks for every value of the constants.

    utxomng.xsat --relayutxo--> evm.xsat --receiveUtxoFact--> event
         (EOS)      btcwitness   (exSat EVM)   receiver         |
                                                                | attestation + proof
    GuardedWBTC.mint --checkMint--> ReserveGuard --getProvenValue--> BitcoinFactVerifier
                                   (Creditcoin)

## 1. Inventory

| Component (source) | State | Operations | What is hard | What makes it correct |
|---|---|---|---|---|
| `ReserveGuard.sol` | token, window, array of outpoints, slot map | setToken, setMaxFactAge, declareReserve, removeReserve; provenReserves, checkMint, solvency | swap-with-last removal; double counting; the edge of the window; wiring after deployment | array and map are one set; a mint is covered by distinct, proven, fresh outpoints |
| `WrappedBTC.sol` | totalSupply, balances, allowances | transfer, approve, transferFrom, burn, mint (naive and guarded) | transfers to oneself, overflow, an approval changed while it is used | balances sum to the supply; spending is granted; burns never underflow |
| `BitcoinFactVerifier.sol` | facts by outpoint | proveBitcoinFact; views | late, repeated and out-of-order proofs; look-alike events | a fact was relayed by btcwitness itself, at the value Bitcoin gives the output |
| `BitcoinWitnessReceiver.sol` | the relayer's address | receiveUtxoFact | who calls | only the relayer leaves the event |
| `btcwitness` (native) | none | relayutxo | the EVM transaction fails while the EOS one succeeds; the index moves on | relays only a row that exists, with the row's value |
| `demo.ts`, `prove_fact.ts` | where a run stands | six steps; three steps | interleaved relays, lost answers, lagging attestation, bounded retries | a run that ends well has proven what it set out to; a run is held up only where the code sets no limit |
| `exsat-shim/server.mjs` | per connection: sockets, queue, promise chain; shared: root cache | client and upstream messages, open, close, receipts fetch | awaits that let other connections in; flush against pass-through | genuine roots; order both ways; nothing stuck; bounded cache |
| `deploy.mjs` | an EOS account | preflight, auth, ram, code | failure between transactions, lost answers, re-runs | runs converge, and buy RAM once before the contract is in place and at most once after |
| `demo_solvency.mjs` | phase of the demonstration, the window it narrows, the reserve it read first | five beats | a stop between any two transactions; runs repeated over the same contracts; facts that age or are renewed meanwhile | what is minted stays backed, the attack is refused, the messages it prints are true |
| `ui/index.html` script, `serve.mjs` | lookups under way, the panel, two buttons; trail token, dashboards | checkUtxo and the buttons that start it; runTrail, load* | the index moves on between two requests; lookups overlap; nodes that are not equally far | a verdict is true of the output; a lookup is always answered |
| `deploy_guard.mjs`, `deploy_verifier.mjs`, `deploy_receiver.mjs`, `open_evm_account.mjs` | deployment files | one-shot deployments | a stop before the file is written; one of two files replaced | no guard is put to use unwired, or with the token of another |
| devnet bootstrap (`bootstrap-*.mjs`, `register-*.mjs`, `force-election.mjs`, ...) | pallets of the devnet's chain | registration, election, genesis changes | repeated and partly applied runs; swallowed dispatch errors | a re-run converges |
| `powerup.mjs`, `reserved-address.mjs`, `list_facts.mjs` | none | fractions, name encoding | rounding, the 13th character of a name | agree with their definitions |

Components interact by calls within one chain (GuardedWBTC to ReserveGuard to the verifier, in one
transaction, hence atomic), by an inline action (btcwitness to evm.xsat, in one EOS transaction, but
with an outcome of its own), and by attestation: a third party makes a block of one chain provable
on the other, later. Scripts are outside actors that read and write both chains, one await at a time,
and hand contract addresses to each other through deployment files. The explorer page only reads.

## 2. Modules

| Module | What it is | Composes / implements |
|---|---|---|
| `BitcoinOutputs`, `WitnessState` | the outputs, and the state pipeline and consumers share | extended by both |
| `ReserveSet` | abstract: one set of outpoints, in what calls accept and in what is summed | |
| `ReserveGuard` | the guard contract and its views | implements `ReserveSet` |
| `WrappedBTC` | the token ledger | |
| `WrappedBTCProofs` | theorems | extends `MCWrappedBTC`, whose history variables one of them is about |
| `FactFeed` | abstract: facts repeat readings of the index | |
| `BitcoinFactVerifier` | the verifier contract | instantiated by `WitnessPipeline` |
| `WitnessPipeline` | index, native relay, receiver, EVM, attestation, verifier | implements `FactFeed` |
| `SolvencyLayer` | guard, both tokens and the fact feed | composes `ReserveGuard`, `FactFeed`, the tokens' supplies |
| `SolvencyLayerProofs` | theorems about `ReserveGuard` and `SolvencyLayer` | on `FiniteSums` |
| `SolvencyDemo` | runs of `demo_solvency.mjs`, `deploy_guard.mjs` and `deploy_verifier.mjs` | over the whole `SolvencyLayer` |
| `SolvencyDemoProofs` | theorems | on those of `SolvencyLayerProofs` |
| `ProofScripts` | a run of `demo.ts`, dry or not, or `prove_fact.ts` | beside the whole `WitnessPipeline` |
| `WitnessToMint` | guard and tokens behind the pipeline itself | composes `WitnessPipeline` with the consumers of `SolvencyLayer`; proved to implement `SolvencyLayer` |
| `PipelineProofs` | theorems about `WitnessPipeline`, `ProofScripts` and `WitnessToMint` | on those of `SolvencyLayerProofs` |
| `OrderedChannel` | abstract: FIFO channels | |
| `ExsatShim` | the RPC shim | implements `OrderedChannel` in each direction |
| `ExsatShimProofs` | theorems | |
| `UtxoLookup` | the explorer's panel that looks up any output | |
| `UtxoLookupProofs` | theorems | |
| `DeployScript` | `deploy.mjs` and the account it deploys to | |
| `DeployScriptProofs` | theorems | |
| `FiniteSums` | lemmas: the sum of a function over a finite set | |
| `MC*` | instances for TLC | |

The layers meet at abstractions that are themselves checked. `SolvencyLayer` sees of the pipeline only
`FactFeed`, which `WitnessPipeline` implements; that the two may be put together is not left to the
reader: `WitnessToMint` is guard and tokens over the pipeline's own state, with the feed's readings as a
history variable, and is proved to implement `SolvencyLayer`. (No run checks that: the consumers' steps
are the same in both, so a run could only find what `ImplementsFactFeed` finds.) Of a token
`SolvencyLayer` sees only the total supply, which the guard reads and which `WrappedBTC` shows to be the
sum of the balances: a burn that a holder may make never exceeds it.

An operation of the code is one action. A Solidity call that reverts changes nothing, so a `require`
or a checked overflow is a conjunct of the action's guard; an Antelope `check` likewise. A script's
action is what runs between two awaits. Names follow the source. Definitions whose comment begins
with "Variant:" are not part of the model: each is a plausible slip in the definition that follows
it, and the property it is listed with in `PROJECT.json` fails when it takes that definition's place.

What is abstracted, and why it is harmless:

- An outpoint (txid, vout) is a model value and its own storage key: `_key` is a hash of both, used
  only as a map key; it is taken to be injective.
- Payload encodings (calldata, Attestcoin's V1 encoding, logs) are the values they carry.
  `verifyAndEmit` is external; it accepts exactly the blocks at or below the attested height.
- EVM blocks are final and hold one transaction. Contracts that are not ours may leave any log under
  their own address, with any topics. The btcwitness account reaches the EVM through `relayutxo` only.
- Values are small; a fact's `uint64` fields never come near their limits (21 million BTC is below
  2^51 satoshis). In `WrappedBTC`, where overflow matters, the integer range is a constant.
- In `ExsatShim` a block is its hash, and a receipts root is written as the block it belongs to. The
  trie is not modelled. Nor is a block without a hash, which the cache keys by its number. A message
  holds one block, and upstream's root is the all-zero one, as exSat's is; the code also walks messages with
  several blocks, one after the other, and leaves other roots alone. `relayed` is what the links of the
  chain put out; it does not tell whether the client was still there to receive it.
- In `SolvencyDemo` the clock stands still and the records of facts move into the past instead; only
  differences of the two are ever compared. That keeps repeated runs within a finite state space. What
  `deploy_guard.mjs` deploys is in use once the file that names it is written, so until then the model
  keeps nothing of it but the token the new guard is wired to.
- In `UtxoLookup` an output's whole life (mined, spent, at which height) is a constant, and Bitcoin and
  each node's copy of the index only move forward along it. A node answers a request as of its own
  height. Every output that was mined and not spent has a row in the table; outputs that never enter it
  (OP_RETURN) are not modelled. Wording and markup of the verdicts are left out; which verdict is shown
  is not.
- In `DeployScript` RAM is counted in small units. A step's inspection and its transaction are one
  action: the one outside change, a key rotation, commutes with either of them.

## 3. What the runs check

| Run | Instance | Properties, beside the type invariant |
|---|---|---|
| `ledger` | 2 accounts, `uint` 0..3 | `SupplyIsSumOfBalances`; `SpendingIsGranted` (with history variables) |
| `whole` | 2 outpoints of different value, 2 EVM blocks, 1 outsider, time 0..1, the first unit of the guarded token | `FactsAreAuthored`; `ValueIsStable`; `ImplementsFactFeed`; `GuardedSupplyIsWitnessed` |
| `solvency` | 2 outpoints worth 1 and 2, supply up to 3, time 0..2, window 0 or 1 | `SlotsMirrorArray`; `ImplementsReserveSet`; `MintsAreCovered`; `SupplyNeverOutrunsBitcoin`; `InsolvencyIsAgeingOrIssuer` |
| `solvency_demo` | 2 outpoints worth 2 and 3, windows 1 and 2, any number of runs, 1 stop | `DemoStaysBacked`; `AttackIsRefused`; `FirstBackedMintSucceeds`; `ZeroReserveMeansStale`; `StaleMintNeedsFreshProof` |
| `shim` | 2 connections, cache of 1, blocks with and without transactions | `RootsAreGenuine`; `CacheKeepsToItsLimit`; `RequestsKeepOrder`; `AnswersKeepOrder`; `RequestsAreNotStuck`; `AnswersAreNotStuck` |
| `scripts` | 3 outpoints of 2 transactions, 2 EVM blocks, 2 waits, 1 retry | `FinishedRunsHaveProven`; `UndisturbedRunReportsTarget`; `RunsMoveOn` |
| `lookup` | 4 outpoints, 2 nodes, 2 overlapping lookups, 3 Bitcoin blocks | `SpentIsSound`; `FoundWasNotSpent`; `LookupsAreAnswered` |
| `deploy` | 3 initial amounts of RAM, 2 key rotations, any options and keys | `CodeFindsItsRam`; `RamIsBoughtOnce`; `RamIsRefilledOnce`; `RunsConverge` |

Every property is stated in words above its definition. The bounds are enough because of what each
hazard needs: two outpoints let the last slot be removed, and the first, into which the last then moves
(`RegistryIntegrity` covers longer arrays); two EVM blocks let a relay meet a failed relay, a
look-alike, or a second relay of the same output, and be proven in either order; a window of one with
three clock values gives a fact inside, on and past the edge; a cache of one entry evicts on every
insertion, with two connections that fetch the same or different blocks at once; two waits and one retry
take both exits of the loops. In `whole` the
consumers are cut down by `FewConsumers`, because each of their states meets each of the pipeline's: the
naive token is not minted and at most one outpoint is declared at a time; sums, windows and the second
token are what `solvency` explores. `ledger`'s range of 0..3 reaches the top, where a mint must revert and
where an allowance never runs out. In `solvency_demo` the number of runs, proofs and deployments is not
bounded at all; one stop is enough to leave any await half done, since the run after it starts afresh,
and the supply's bound lets a first run over fresh contracts through and refuses some later ones. In
`lookup` one output is spent a block after it was mined, one is mined last, one is missing from its
transaction and one is the old coinbase, so that each verdict occurs, and three blocks let the index
pass both events between the two reads of a lookup.

Fairness. `ShimFairness`: the event loop runs what is ready; a handshake ends, which `handshakeTimeout`
guarantees; a request to upstream is answered or fails, which nothing in the code guarantees, since
`fetch` is given no timeout, so `AnswersAreNotStuck` rests on upstream there. `FairScriptsSpec`: the
script itself keeps running, `waitForEvent` and `waitUntilHeightAttested` end within the time they are
given, and a single query to a node, or the push of a transaction to EOS, is answered or fails. The last
is the nodes' promise and not enforced by the scripts. Nothing is assumed of what the relay leaves in
the EVM, nor of the attestors, and no fairness at all is put on the two awaits that may take for ever,
`generateProof` (`demo.ts:319`, `prove_fact.ts:72`) and the transaction with its receipt (`tx.wait()`,
`demo.ts:338`): `RunsMoveOn` allows a run to stay there. `DeployFairness`: the operator keeps running
the script with all keys, and no transaction that could succeed fails for ever; rotations by other tools
are finitely many.

`RerunSpec`: the operator keeps running `demo.ts` and `demo_solvency.mjs`, as the message of the latter
asks, and what a script has begun goes on. Nothing makes a run follow a proof within the second; that is
what the counterexample of `demo_rerun` lives on, and the code has nothing that would.

`shim` does not check deadlock: when all connections have closed, the model stops.

### Disagreements between code and text

| Run | Property | What it shows |
|---|---|---|
| `lag` | `LagNeverLoosens` | "Lag makes this contract stricter, never more permissive" (`ReserveGuard.sol`, `README.md`). The window counts from the recording of a fact. A relay proven late, or proven again after its fact aged out, is fresh, although the output may have been spent since it was read. `MintsAreCovered` is what does hold. |
| `wrong_event` | `EventIsTheRelays` | `demo.ts` looks for its event by txid alone and takes the last one: with another output of the same transaction in flight it proves that one and reports on its own. `UndisturbedRunReportsTarget` is what does hold. |
| `deploy_rerun` | `RerunsBuyNothing` | `deploy.mjs` is "safe to re-run", but setcode uses up the RAM that was bought, all but the spare, and the next full run buys the shortfall back for a contract that is in its place. It happens once: after that purchase the free RAM covers the need, and later runs skip the step. `RamIsBoughtOnce` and `RamIsRefilledOnce` are what does hold. |
| `demo_rerun` | `RerunRestoresWindow` | Beat 5 narrows the window to a second and restores it at the end. After a stop in between, the next runs read a reserve of zero and exit, with the advice to re-prove and run again (`demo_solvency.mjs:123`); that restores the window only if a run follows a proof within the second. |

Also seen while reading, and not a property of any run: `prove_fact.ts` "waits rather than failing" by
its header (lines 11-13) but asks for the proof (line 72) before it waits, and retries nothing; the model
has the order of the code. The lookup panel says "true as of Bitcoin height" of the height it read first
(`index.html:1326`), while the row it found may be younger; `FoundWasNotSpent` is the part that holds.
When height and row come from different nodes, which `eosPost` allows, an unspent output can be called
spent; the two lookup invariants are stated for answers of one node. When two lookups overlap, the panel
shows the one that ends last, under the input of the other. The devnet's texts disagree on elections:
`bootstrap-devnet.mjs:123` and `force-election.mjs:6` have a repeated one seat the attestor,
`diagnostics/elect-attestor2.mjs:4` has it do nothing. Several texts say that anyone can call
`receiveUtxoFact` (`BitcoinFactVerifier.sol:77`, `docs/ARCHITECTURE.md`, `docs/OVERVIEW.md`), while
the receiver reverts for every caller but the relayer; and `BitcoinWitnessReceiver.sol:19` describes
another layout of the reserved address than `scripts/reserved-address.mjs` computes.

## 4. What is proved

The properties of the passing runs are all theorems, except the four of liveness, for every value of the
constants that the named assumptions allow.

`FiniteSums`. Supplies, reserves and balances are sums, and `SumFunctionOnSet` is a fold. The library's
induction theorems take an operator as a parameter and cannot be instantiated here, so the induction is
over a set instead: a set of naturals that holds 0 and each successor is all of them (`NatSets`, on
the set of those that satisfy the claim), and a family of subsets of a finite S that holds {} and grows by
any one element contains S (`SubsetInduction`). From the latter, by way of the function that the fold
computes (`SumsExist`, `SumsAgree`): a sum is the value of any one element plus the sum of the rest
(`SumElement`), whichever order the fold takes. The rest of the module is what the proofs below cite:
type, zero, monotonicity, equal terms, one term changed.

`SolvencyLayerProofs`, on the guard, from `GuardAssumption` (`NoToken` is not a token; windows are
naturals):

- `GuardTypeCorrect`, `RegistryIntegrity`: `GuardSpec => []GuardTypeOK`, `[]SlotsMirrorArray`. The
  two together are the inductive invariant: `SlotsMirrorArray` has a half for each direction (slot
  to array, array to slot), and neither is inductive alone, because removal rewrites the slot of the
  moved outpoint, which must be known to be the last. `SwapAndPopFacts` says what the array holds
  after a removal; `DeclarePreserves`, `RemovePreserves` and `OthersPreserve` are the steps.
- `RegistryImplementsSet`: the refinement to `ReserveSet`, from the same invariant; `ViewsAgree` says
  that in it the slots and the array hold the same set.
- `LoopSumsDeclared`: the loop of `provenReserves`, over an array of any length, yields the sum of the
  values, and the numbers, of the declared outpoints that count and of those that do not
  (`LoopUnfolds` gives the loop its recursion, `PrefixGrows` the next outpoint, which the registry's
  integrity says is a new one: without it the loop counts an outpoint twice).

`SolvencyLayerProofs`, on the composition, from `GuardAssumption` and `SolvencyAssumption` (the two tokens
differ; values and bounds are naturals):

- `LayerRunsGuard`, `LayerRunsFeed`: the composition's behaviours are behaviours of `GuardSpec` and of
  `FeedSpec`, since each of its steps is one of one part (`StepIsOfOnePart`). The registry's theorems
  hold in it, and by `PipelineImplementsFeed` its feed is what the pipeline provides.
- `SolvencyTypeCorrect`: with the types of readings, which facts repeat; mints and burns stay in range.
- `EveryMintIsCovered`, `SupplyAlwaysBacked`, `OnlyAgeOrIssuerBreaksSolvency`: the inductive invariant
  `LayerInv` has the types and the registry's integrity, which say what is summed, that facts repeat
  readings at Bitcoin's value, which says what it is worth, and that the readings are finitely many. In it
  the loop's sum is the value of `FreshReserve` (`ReserveIsFresh`), which is among the relayed outputs
  (`FreshIsRelayed`). `SupplyNeverOutrunsBitcoin` is then inductive beside it: a mint passes the check
  (`MintFacts`), readings only grow, and a token is set once. For the last theorem, `FreshStays`: while
  clock, window and declarations allow it no outpoint leaves the fresh reserve, a repeated proof included.

`SolvencyDemoProofs`, from the same and `DemoAssumption` (the windows are the configured one and the
second of beat 5; divisor and factor are positive; the initial state has a block for each of its relays;
all outputs together are worth less than 2^256, as Bitcoin's are):

- `DemoTypeCorrect`, `DemoAlwaysBacked`: the inductive invariant `DemoInv` is that of the layer
  (`WorldInv`), with the guard in use wired to the guarded token, the facts of the file's verifier known to
  repeat readings, and, while script and guard share a verifier, every declared outpoint recorded there;
  and what a run knows at each await (`RunKnows`): what it lists is recorded, something is declared when
  it reads the reserve, what it has read is worth at least one output and at most all, the window is
  narrow before the stale mint, the token of the guard being deployed is known before the file is written.
  One lemma per kind of step says what it leaves of `WorldInv` (`MintKeepsWorld`, `DeclareKeepsWorld`,
  `DeploymentKeepsWorld`, ...), one per action what the run knows after it.
- `StaleMintRestsOnFreshProof`, `FirstMintIsNotRefused`: from that invariant.
- `AttackAlwaysRefused`, `ZeroAlwaysMeansStale`: each with the hypothesis its property names in words. The
  code checks neither, so they are hypotheses of the theorems and no assumptions: that the factor times any
  output worth something exceeds the value of all, and that no output is worth nothing. (Bitcoin
  permits outputs of no value, and the guard would accept them: a reserve of those alone reads as zero
  without being stale. The outputs of `SolvencyDemo` are those that relays have carried.)
- `RerunIsDemo`: all this holds of `RerunSpec`.

`PipelineProofs`, on the pipeline, from `PipelineAssumption` (values are naturals, the receiver, the relayer
and other addresses are distinct, `NoFact` is not a fact):

- `PipelineTypeCorrect`, `FactsAreAlwaysAuthored`, `ProvenValuesAreStable`: the inductive invariant
  adds to the types that every block whose transaction yields a fact is a genuine relay (from the
  relayer, to the receiver, at Bitcoin's value). It is needed because a proof may come any number of
  blocks after the relay. Every EVM step is reduced to "a block is appended that yields no fact, or
  a genuine relay of an output in the index"; `Prove` then only copies.
- `PipelineImplementsFeed`: every step maps to a step of `FactFeed` or stutters.

`PipelineProofs`, on the scripts, from `PipelineAssumption` and `ScriptsAssumption` (every output has a
transaction; limits are naturals; there is an output):

- `ScriptsTypeCorrect`, `FinishedRunsAlwaysHaveProven`, `UndisturbedRunAlwaysReportsTarget`: the
  invariant contains the pipeline's and carries what each await has established through the next ones:
  the block found is a receiver's event of the run's transaction (`FoundInv`), then its fact is recorded
  (`ProvenInv`), then what is reported is that record (`ReportInv`). `WorldKeeps` shows that no step of
  the pipeline undoes any of them, which is what the run relies on without checking. `OwnLogs` is the
  link between the event the script sees and the fact the verifier reads: the receiver leaves one log in
  a transaction.

`PipelineProofs`, on the whole, from `PipelineAssumption`, `GuardAssumption` and `SolvencyAssumption`:

- `WholeImplementsLayer`: every step of pipeline and consumers together maps to a step of
  `SolvencyLayer` or stutters (`WholeSteps`). The invariant is that of the pipeline, and that the history
  of readings is what the blocks have relayed; a consumer's step keeps it because it leaves the blocks
  alone, a pipeline's step by `PipelineFeeds`, the step of `PipelineImplementsFeed`. All theorems on
  the composition therefore hold of mints over relayed facts.
- `GuardedSupplyAlwaysWitnessed`: the promise of the whole system, in terms of blocks instead of readings.
  It is inductive beside the invariants of both layers: what is fresh has been recorded, and what has been
  recorded was witnessed in an attested block (`FreshIsWitnessed`, from `FactsAreAuthored`); attested blocks
  stay (`WitnessedGrows`); a mint passes the guard (`MintFacts`). It says more than `SupplyAlwaysBacked`,
  whose readings need not be attested.

`DeployScriptProofs`, from `DeployAssumption` (all sizes are naturals):

- `DeployTypeCorrect`, `CodeAlwaysFindsItsRam`, `RamIsNotBoughtTwice`: the inductive invariant adds
  that a run stands at the first of its pending steps (`AtFirstPending`), that a full run without a
  pending purchase has its RAM or its contract (`RamIsSettled`), and that the account holds what it
  started with and at most one purchase (`OnePurchase`). The first is needed because the list of
  pending steps is drawn up before the run and may be stale when a step is reached; the last, because
  `RamIsBoughtOnce` bounds what was bought and does not say that a purchase was of the shortfall.
- `RamIsRefilledAtMostOnce`: the invariant keeps the account's books (`BooksBalance`: free RAM is what there
  was, plus what was bought, minus what the contract was billed), and once anything was bought the free RAM
  is never above the level to which a purchase fills the account (`OneLevel`).

`WrappedBTCProofs`, from `LedgerAssumption` (the largest uint is a positive natural; there are finitely many
accounts, as there are 2^160 addresses) and `GrantAssumption`:

- `LedgerTypeCorrect`: the type is inductive, because every subtraction and addition is checked;
  `MoveFacts` is the transfer to oneself.
- `SupplyIsAlwaysSumOfBalances`: inductive with the types. Changing one balance changes the sum by as much
  (`BooksFacts`); a transfer is two such changes, the second of them on the balances the first has left,
  so that a transfer to oneself is no special case (`MoveKeepsSum`).
- `SpendingIsAlwaysGranted`, of the ledger with its history variables: the invariant adds that what was
  spent was granted, which `SpendingIsGranted` does not say while the allowance is unlimited, and which
  is needed when a finite approval replaces an unlimited one.

`ExsatShimProofs`, from `ShimAssumption` (a cache of at least one entry; numbers are naturals; the two
special roots are not blocks):

- `ShimTypeCorrect`, `CacheAlwaysKeepsToItsLimit`, `RootsAreAlwaysGenuine`: the cache's part is
  inductive by itself. The way down needs `ChainInOrder`: the messages whose link of the chain has ended
  are exactly those that went out, and at most the next one awaits its receipts; from it, a fetch that
  ends is known to be that of the message whose turn it is (`FetchFacts`).
- `RequestsAlwaysKeepOrder`, `AnswersAlwaysKeepOrder`: the two refinements of `OrderedChannel`. The way
  up rests on `QueueInOrder`: what went up and then what waits are the requests in order, and nothing
  waits on an open socket, so that the flush and the pass-through cannot cross.

`UtxoLookupProofs`, from `LookupAssumption` (heights are naturals; there is a node; the output behind
the example button is unspent):

- `PageTypeCorrect`, `SpentIsAlwaysSound`, `FoundIsAlwaysSound`, `LookupsAreAlwaysAnswered`: the
  invariant says what each lookup has read so far and what of it stays true while the index moves on
  (`ReadingHolds`): the height read is at most what that node has parsed, and a row missing there was
  spent, newer than the height, or never existed. The order of the two reads is what makes it so.

Only model-checked: the liveness properties (`RunsMoveOn`, `RunsConverge`, `RequestsAreNotStuck`,
`AnswersAreNotStuck`), because fairness is about ENABLED, which the provers cannot reason about.

## 5. Plan

Done, in this order: guard and its proofs; ledger; verifier and pipeline and their proofs; solvency
layer; shim; proof scripts; deployment to EOS and its proofs; `SolvencyDemo` with the deployments of
guard and verifier; `UtxoLookup` and its proofs; the proofs of ledger, solvency layer, shim and proof
scripts; sums over finite sets, and with them the proofs about supplies, reserves and the demonstration;
`WitnessToMint`, which puts the two layers together, and its proofs. Left:

1. The rest of the explorer page, as far as it promises anything (see below).
2. The pure algorithms of `powerup.mjs` and `reserved-address.mjs` against reference definitions.

## 6. Not modelled

- The devnet bootstrap. It is a straight line of calls into the pallets of an external chain, each of
  which may be refused without the script noticing. What a repeated registration or election does there
  is said only in comments, and these contradict each other (see above), so any model would be of a guess.
- The rest of the explorer page: the trail, the sync indicator, the list of relays, the solvency panel.
  They read and change nothing. The trail's token against superseded runs is a single comparison; the
  solvency panel reads a count and then elements in later requests, a hazard listed without a property,
  because the page states nothing about the list it shows.
- `deploy_receiver.mjs` and `open_evm_account.mjs`, one transaction each; `powerup.mjs`,
  `reserved-address.mjs` and `list_facts.mjs`, which compute or print and keep no state.
- In `deploy_guard.mjs` and `deploy_verifier.mjs`, compilation and key handling. In the shim, RLP, the
  receipts trie, and blocks without a hash.
- Test code and harnesses, container and chain configuration, page layout, and what is not in this
  repository: the attestation protocol, the BlockProver precompile, evm.xsat, exSat's synchronizers.
