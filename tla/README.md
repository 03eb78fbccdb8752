# Scematica: a TLA+ verification project

Scematica is a monorepo of programs that trade, post collateral and pay one another. This
directory models the parts of it that hold somebody's money or decide who gets it,
model-checks them with TLC, and proves with TLAPS what should hold for every size of the
instance. It starts from the conviction bond, which one off-chain library and one on-chain
program implement independently, and works outwards: payments, the reserve vault, the
positions of the trading bot, and the record of its decisions on a chain.

1. [Inventory of the system](#1-inventory-of-the-system)
2. [Modules](#2-modules)
3. [Runs](#3-runs)
4. [What is proved](#4-what-is-proved)
5. [Disagreements between code and its documentation](#5-disagreements-between-the-code-and-its-documentation)
6. [What is not modelled](#6-what-is-not-modelled)
7. [Plan](#7-plan)

To check a run: `tlc -workers 2 -config settlement.cfg MCSettlement`.
To check proofs: `tlapm SettlementProofs.tla`.

## 1. Inventory of the system

The subsystems, grouped by what they are for. The full list, with files and a note on each
part left out, is in `PROJECT.json` under `components`.

### ScemaDEX: agents that stand behind a prediction with collateral

| Component | State | Operations | Interacts with |
|---|---|---|---|
| settlement machine (`scemadex-sdk/src/settlement.rs`) | a map from intent digest to bond, under one mutex | `open`, `provision`, `file_challenge`, `resolve_dispute`, `resolve_with_proof`, `finalize`, `sweep` | a wall clock; called by every settler and by the coordinator |
| slash routing (same file) | none | `distribute`, `is_valid` | settlers; mirrored by the escrow program |
| counter-market (`counter.rs`) | a book of listings and statistics, two mutexes | `list`, `challenge`, `settle` | the coordinator |
| dispute coordinator (`coordinator.rs`) | none of its own: a machine and a market | `open`, `provision_fill`, `challenge`, `resolve`, `resolve_via_oracle`, `finalize_unchallenged`, `sweep`, `mint_scar` | several locked steps per call |
| optimistic settler (`scemadex-settle/src/optimistic.rs`) | a machine and the last transfers | `challenge`, `resolve`, `finalize_and_settle`, `sweep_and_settle` | USDC transfers over RPC, one per non-zero share |
| escrow program (`programs/scematica-escrow`) | one escrow and one vault account per bond | `escrow`, `mark_provisional`, `file_challenge`, `resolve`, `finalize_timeout`, `settle` | the token program; each instruction one transaction |
| reserve vault program (`programs/scematica-vault`) | one vault per pair of mints, one account per position | `initialize_vault`, `deposit`, `extend_lock`, `withdraw` | Token-2022 mints that may keep a fee |
| bond engine, forecast and insurance markets, scars, lineage, teaching, promises | maps under mutexes | see the SDK's modules | the coordinator and the counter-market |
| atomic settler, relay, MCP server, integrations | next to none | adapters | the SDK |
| verified inference (`zk*.rs`) | none | prove, verify | `resolve_with_proof` |

Hard here: a method reads the clock before it waits for the mutex; a coordinator call is
several locked steps with other threads in between; a call that meets an error undoes
nothing; four parties may try to decide one bond; a transfer reports an error and lands all
the same; anyone may send the on-chain instructions, in any order, with accounts of their
own choosing; integer shares leave dust.

Correct when: a bond is decided once, for a reason its history justifies; a challenge is
answered on its merits and never by a timeout; what is paid out is what was put in, to the
parties the bond names; nobody's funds can be locked for good.

### The trading bot

| Component | State | Operations |
|---|---|---|
| sniper, position lifecycle (`scematica-sniper/src/sniper.rs`, `main.rs`) | atomics (`sell_mode`, `dump_mode`, `buy_count`, `open_positions`), the one-buy slot, the registry of monitors; control files | buy on a new pool, a monitor per position with its sale and its end, wallet scans, the watchers of the files, the drawdown guard |
| sniper, selection and listeners | caches, statistics | scoring, Kelly sizing, subscriptions, endpoint failover |
| executor, arbitrage | none that outlives an attempt | transaction building, cycle search |
| learning (`scematica-nn`, `-ai`, `-sentience`) | network weights | training, prompts, overlays |
| remote control (`scematica-tgbot`, `-api`, `-dashboard`) | the sell-mode and dump-mode files | write or remove a file, whoever wrote it |
| views | none | read the state files |

Hard here: dozens of asynchronous tasks over a few atomics and two files, with an RPC call
between what a task reads and what it does about it; a buy that lands after its task has
given up, for which a wallet scan starts a monitor later; files that the sniper, its guards
and three front ends write; a restart with positions open. Correct when the position count
is neither lost nor wrapped, the position limit holds although it is read long before a buy
confirms, and a mode that a task switched on is switched off again by somebody.

### Payments

| Component | State | Operations |
|---|---|---|
| x402 (`scematica-protocol`) | the signatures of payments spent, in memory | verify, `claim`, `settle`, `release`, serve |
| spend ledger (`scematica-omni`: `scema-spend`, `scema pay`, `scema reconcile`) | one ledger file, sealed spend records | `authorise`, `reserve`, `release`, `settle`, each process reading and writing the whole file |

Hard here: two processes that share a file and no lock, a death between two writes, a
receipt that comes late or twice, a settlement that fails in the reply and not on chain.

### The mesh and the chain ports

| Component | State | Operations |
|---|---|---|
| attestation (`scema-bot-mesh/crates/mesh-attest`, `mesh-runtime`) | a checkpoint file, the tail of the sniper's log | read the log, batch, send with `cast`, advance |
| `BotchainNNMesh.sol` | anchors, challenges, agents | `anchorBatch`, `challenge`, `resolveChallenge`, `verifyInclusion` |
| `BotchainPriceFeed.sol` | reporters, pending submissions, rounds, a quorum | `submit`, `setReporter`, `setQuorum`, `setMaxSubmissionAge` |
| `ScemaBondEscrow.sol`, executor | the escrow in Solidity; none | the port of the escrow program |
| fixed point core | weights | deterministic inference and hashing |

Hard here: a crash between an anchor and its checkpoint, an answer of `cast` that is lost
though the transaction lands, a log that is rotated while it is read; arrays and mappings
that describe the same thing and are swapped, popped and purged together. Correct when no
decision is skipped, the contract accepts a proof of each claim and of nothing else, nobody
counts twice toward a quorum, and a minority of reporters cannot choose the price.

### The omni runtime

| Component | State | Operations |
|---|---|---|
| the loop (agent, world, simulation, policy, memory) | a world tree, in memory | one sequential pass to a sealed decision |
| effects and trust | sealed effect records, remembered grants | one gated command at a time |
| records, anchors, verification | files of records, Merkle batches | seal, verify, anchor |
| entitlement, daemon, MCP, TUI; web, omni-agent, alchem-link, playground | views and shells | |
| `scema-lean` | none | Lean proofs about encodings and Merkle trees |

## 2. Modules

| Module | Models | Extends / implements |
|---|---|---|
| `BondPromise` | what any conviction bond promises, whoever implements it | |
| `SettlementMachine` | the methods of `settlement.rs` as operators on the map of bonds | |
| `Settlement` | threads, the sweeping driver and the clock around that machine | extends `SettlementMachine`, implements `BondPromise` |
| `Usdc` | amounts of micro-USDC, a `u64` of any width, and its saturation | |
| `SlashRouting` | the two slash splits | extends `Usdc` |
| `CounterMarket` | the methods of `counter.rs` as operators on the book and its statistics | extends `Usdc`, `Sums` |
| `DisputeCoordinator` | coordinator calls as sequences of locked steps | extends `SettlementMachine`, `CounterMarket` |
| `OptimisticSettler` | the settler and the transfers that pay a slashed bond out | extends `SettlementMachine`, `SlashRouting` |
| `BondEscrow` | the on-chain escrow program | extends `SlashRouting`, implements `BondPromise` |
| `TimeLockVault` | the on-chain reserve vault program | |
| `SpendLedger` | the spend ledger file and the two commands that write it | |
| `PaymentGate` | the x402 gate's store of spent payments around the facilitator's settlement | |
| `ControlFiles` | the two files by which people and the sniper's own guards command the sniper | |
| `SniperPositions` | the sniper's buys, monitors, scans, watchers and restarts | extends `ControlFiles` |
| `PriceFeed` | the price feed contract | |
| `ClaimBatch` | the Merkle batches of the mesh, built and proved in Rust, verified in Solidity | |
| `DecisionAnchors` | the attestation daemon, the log, the checkpoint and the contract | extends `ClaimBatch` |
| `Sums` | the sum over a map or a sequence, as `.iter().map(..).sum()` has it | |
| `SumLemmas` | what that sum is, and what recursive functions and minimal sets provide to a proof | extends `Sums`, `TLAPS` |
| `DisputeProofs` | theorems about `DisputeCoordinator` and `OptimisticSettler` | extends both, `SumLemmas` |
| `OmniProofs` | theorems about `SpendLedger`, `ClaimBatch`, `PriceFeed` and `DecisionAnchors` | extends them, `SumLemmas` |
| other `…Proofs` | theorems about the module of that name | extends it and `TLAPS` |
| `MC…` | constants of the small instance | extends the module of that name |

Conventions. A `Can…` or `May…` operator is the condition under which the code answers Ok;
a method that answers Err changes nothing and is then not a step, except where its caller
goes on from the error. An operator called `X_SomethingWrong`, marked as a mutation, is a
plausible bug in `X`; it is used to show that a property notices it and appears in no
specification. A variable marked *history* is not in the code: it records what happened so
that a property can speak of it, and no action reads it.

### `SettlementMachine` and `Settlement`

`bonds[d]` is the entry of `SettlementMachine.inner` for digest `d`, tagged with its
`BondState`. Every method holds the mutex from its first read to its return, so each is one
step on `bonds`; what `finalize` and `sweep` both do to a bond whose time is up is `Matured`
with `MaturedEntry`. What is not atomic is the clock: `provision`, `file_challenge`, `finalize`
and `sweep` read it *before* they lock. In `Settlement` they are two steps: `Call…` puts the
call with the time it read in `pending`, and `…Locked` carries it out, however much later,
against whatever the map holds by then. `Resolve` and `ResolveByProof` look at no clock and
are one step. The driver is the loop of `settlement.rs`'s documentation that calls `sweep`
on a tick.

`FreshDigests` says whether callers open a digest once. The code's `open` inserts without
looking, so a digest opened again loses its bond, final or not; the promise is checked for callers
who do not, and what is proved of the audit trail holds for all.

*Fairness*: the clock advances, the driver calls sweep again and again and its calls take
the lock. No caller owes anybody a call.

### `BondPromise`

Six phases (`free`, `held`, `claimed`, `contested`, `honored`, `slashed`) and the moves
between them: `Lock`, `Claim`, `Contest` (only of a claim), `Honor` and `Slash` (only of an
undecided bond; with a window of zero a fill is decided as it is claimed), `Release` (only of
a decided bond), and `Decide` for a sweep that settles several. `Settlement` and `BondEscrow`
implement it under the mapping `Phase`: the same promise, kept by two programs written in different worlds.

### `SlashRouting`

`Distribute` is the SDK's `distribute`: every share is computed in `u128`, cast to `u64`
(modulo `U64`), capped by what is left, and the caller takes the rest. `ProgramSplit` is the
escrow program's own version, which caps nothing and subtracts with saturation.

### `CounterMarket` and `DisputeCoordinator`

The coordinator has no lock of its own: it calls the machine and the market, each of which
locks for itself. `calls[t]` is the next locked step of thread `t`'s call:

* `open` = `OpenMachine`, `OpenList`;
* `challenge` = `ChallengeReadsState`, then `ChallengeFiles` if it read *Provisional*, then
  `ChallengeStakes`; `ChallengeRefused` is the early return from either;
* `resolve`, `resolve_via_oracle`, `finalize_unchallenged`, `sweep` = one step that decides
  the bond or bonds, then for each decided bond the steps of `report`: `ReportSettles` or
  `ReportFindsNoListing`, `ReportCounts`, `ReportReads`. Sweep's order is a map's, so the
  next bond to report is any of the rest; the first error ends the call.

The market computes shares with `Share`: pro rata, by a product that saturates at `U64`, and
the last challenger takes what is left, the dust or more (section 5). The slash pool is the constant `Pool`, the same for each bond: `SlashRouting` says what it
is, and nothing here depends on it.

*Fairness*: a thread that has begun a call finishes it.

### `OptimisticSettler`

`finalize_and_settle` and `sweep_and_settle` decide bonds in one step and then pay the legs
of each slashed one, awaiting each transfer: `tasks[t]` is the bond and leg a task awaits.
`TransferConfirmed` is a transfer that landed and was confirmed; `TransferFails` is one that
reported an error, and it may have landed or not. `DisburseHonored` and `DisburseSlashed`
are the return of a bond's settlement, which goes on to the next bond of a sweep. An error
ends the call with `?`: the rest of the legs, and the rest of a sweep, are dropped. A future that is dropped at its await is
such an error. The atomic settler of `scemadex-settle/src/lib.rs` has the same hazard with
one leg.

*Fairness*: the clock advances, some task sweeps on a tick, a transfer is answered.

### `BondEscrow`

One action per instruction, each a whole transaction: `Escrow`, `MarkProvisional`,
`FileChallenge`, `Resolve`, `FinalizeTimeout`, `Settle`. A bond's accounts live at an
address made from its digest and its agent; `settle` closes them and the address may be
used again (`opens`). `Settle(b, to)` is called with five token accounts chosen by its
sender; `DestinationsBound` are the constraints of the account list, and `to` names each
account by its owner. The program compares nobody with anybody, so the `Holders` of token
accounts play any parts: an agent may be its own caller, any payee, and its own challenger.
They are none of the program's own accounts: a vault is nobody's purse. `StrayTransfer` is tokens sent to the vault by someone outside the
program, which the token program permits to anyone.

*Fairness*: the clock advances and somebody sends `finalize_timeout` and `settle`, which
anyone may send. Nothing is assumed of the authority or of challengers.

### `TimeLockVault`

One action per instruction: `InitializeVault`, `Deposit`, `ExtendLock`, `WithdrawAny` (the
withdrawal by the depositor, whatever the destination receives after fees). A pair of mints
names a vault; `balance` is its two token accounts, `position` the position accounts at
their derived addresses. A transfer of a mint may keep a fee chosen from `Fees[mint]`; the
code reads the balance before and after, and credits what arrived. Two vaults in one
another's mints are modelled because their token accounts could be mistaken for one another.

*Fairness*: the clock advances and a depositor keeps asking for a matured position.

### `SpendLedger`

Each process runs one command at a time: `Pay` reads the file and decides on the copy,
`Seal` writes the spend record, `Truncate` and `Write` are the two moments of
`std::fs::write`, `Ask` prints the settlement request; `Reconcile` applies a receipt to a
fresh copy and writes it back. `Crash` ends a process anywhere. `Answer` is the settler
outside, which pays or fails each request handed out, once. A record's id is a digest of the
second, the request and the verdict, so two identical spends in one second are one record:
`resealed` remembers that it happened, `overlapped` that two commands ran at once.

### `PaymentGate`

One server process. A header carries a payment and, before the payer's signature, what the
fee payer's slot holds (`filling`), which verification does not look at and settlement
overwrites. The store is keyed by the first signature that is not blank (`Key`): the payer's
in a header that `client.rs` builds, the filling otherwise, so headers of one payment may
have different keys and headers of different payments the same. `tasks[r]` is the request in
place `r`: settling, confirming or serving.
`Arrive` is the middleware up to the claim, a test-and-set under the store's one lock
(`Claim`, which purges first). `RejectLocally`, `Send`, `SendFails`, `Confirmed` and
`ConfirmFails` are the outcomes of `Facilitator::settle`; those that are errors give the claim
back (`Released`). `Serve` is the answer, `Drop` a client that hangs up at any await,
`Restart` a new process with an empty store. The chain is outside: it takes a transaction
once, while its blockhash lives, and an RPC error says nothing of what it did. A settlement
takes at most `Patience`, less than a claim is kept (a guard of `Tick`): the RPC client's calls time out
after seconds, and its wait for a confirmation ends when the blockhash lapses. Serving may
take for ever. `answered` is history and starts anew with the process, like the promise it is about.

*Fairness*: none, the properties are safety.

### `ControlFiles` and `SniperPositions`

The control files are two variables: what kind of sell-mode file there is (an operator's, a
guard's, the buy limit's) and whether there is a dump-mode file. `Operate` is everything the
Telegram bot, the web API and the terminal dashboard can do to them.

`job[w]` is what the asynchronous task `w` is doing, one step between two awaits or two
shared reads of the code:

* a buy: `NewPool` (the gates of `on_new_pool`), `PoolRejected` (any filter), `TakeSlot`,
  `LimitAfterSlot`, `SendBuy`, `BuyLands`, `BuyUnanswered`, `BuyFails`, then `ConfirmBuy`,
  `CountBuy`, `WriteLimitFile`, `SpawnMonitor`, the tail of `buy` in its order;
* a scan: `ScanAdopts` or `ScanSkips` for each account of the wallet's listing;
* a monitor: `StartMonitor`, rounds of `LookAtModes` and `Check`, a sale (`SellLands`,
  `EndSale`), and its end: `Leave` (the decrement), `ReadReason`, `LiftSellMode`, `Deregister`.

`SellWatch` and `DumpWatch` are the ticks of the file watchers, `DumpSells` the sales of
`auto_dump`, `GuardLooks`, `GuardTrips`, `GuardLifts` and `GuardPasses` the drawdown guard with
the RPC read in the middle. `Crash` loses the process and keeps the files and the chain. The wallet is the
set of mints held; `strays` are mints of buys that no task follows and that may land yet.
Prices and filters are left open: any pool may be refused, any exit rule may fire at any
check. `openPositions` wraps at `Wrap`, as `fetch_sub` does in the code, at 2^32 there.

*Fairness*: the runtime runs every task and the sell-mode watcher. Operators, pools, prices,
the cluster and the guard owe nothing; in particular no transaction ever has to land.

### `PriceFeed`

One action per transaction that changes state: `Submit`, `AddReporter`, `RemoveReporter`,
`SetQuorum`, `SetMaxSubmissionAge`, and `FeedTick`. `book` is the list of pending submitters,
the flags and the submissions; `ClearPending` and `Purged` (a recursion on `PurgeAt`, from the
last place to the first) keep the swap-and-pop and the backward walk of the code, since that
is where such books come apart. The insertion sort is what it computes, the values `InOrder`.
`Median` halves before it adds. `rounds` remembers what each round was made of (history).

*Fairness*: none, the properties are safety.

### `ClaimBatch` and `DecisionAnchors`

A hash is the tuple of what was hashed, so `Root`, `Proof` and `VerifyInclusion` are the
algorithms of `batch.rs` and of the contract without the hash function: leaves bind their
index, an odd node is promoted. `Levels` are built one from the other, `Positions` is where a
claim's node is on each, `Sibling` the step of a proof that each level gives (none when the
node is promoted), and `Climbed` what verification folds the steps into.

`Decide` and `CutLog` are the sniper and whoever rotates its log. The daemon's loop is
`ReadLog` (the whole file, then `NextStart`: the checks of progress against length and last
digest), `CastRefuses` or `CastSends`, `CastSucceeds` or `CastFails`, `Save`. A transaction
lands (`TxLands`), is given up (`GiveUp`) and may land afterwards (`StrayLands`);
`AnchorExists` is the contract's only check for repetition, and it compares roots.
`DaemonDies` ends it, with a checkpoint that may be unreadable on its return. `Challenge` and
`Resolve` are the contract's handlers, with every proof of every claim at every index.

*Fairness*: the daemon's loop runs, and a batch that is tried again and again is at last
sent and included (`SF` on `CastSends` and `TxLands`, however often a refusal or giving up
comes between). That is what a node that works now and then provides, and less than it
would take to have any one batch answered.

## 3. Runs

| Run | Instance | Question it answers | States |
|---|---|---|---|
| `settlement` | two digests opened once, one caller and the driver, window 1, deadlines none or 1, clock to 2 | Is a final bond's reason always the one its history justifies, wherever the clock was read? Is the promise kept, and does every bond with a clock running on it come to rest? | 440 k |
| `coordinator` | two bonds, two threads, two challenges of 0, 1 or 3, pool 4, a `u64` of 11, window 1, clock to 1 | Is any stake lost, stranded or awarded twice, wherever a call is interrupted? | 352 k |
| `settler` | two bonds, two tasks, two calls per bond, one faulty transfer, four-way routing with a zero share | Does an Ok mean the shares landed, is one settlement paid at most once, and is a swept slash paid? | 106 k |
| `escrow` | one address opened twice, five holders any of whom may challenge, one stray token, twelve sets of terms, fifteen sets of accounts | Custody, authorship, who is made whole, the way out, and the promise | 16 k |
| `vault` | two vaults in one another's mints, two depositors, two and one deposits, fee of 0 or 1, clock to 3 | Do totals, balances and positions agree, is a lock kept, does every position come back? | 48 k |
| `spend_ledger` | two processes, four commands, two seconds, budget 10, requests of 6, 4, 8 and an unlisted 4 | Does the ledger add up, is the budget kept, is an unresolved payment never forgotten? | 813 k |
| `spend_race` | the same | Can two overlapping commands both spend what remains? (they can) | |
| `payment_gate` | two payments, one that cannot be collected, each in two headers, two requests at a time and four in all, a restart, blockhash life 2, settlements of 2, claim kept for 3, clock to 5 | Does one header buy one answer, only when its payment has landed, and does a request keep its claim while it needs it? | 683 k |
| `positions` | one mint, two tasks, one position and one buy allowed, two pool events, one upset (an operator's write, a drawdown or a restart), one transaction per buy | Is the position count exact, the position limit kept, a buy limit always lifted, and does the flag follow the file? | 135 k |
| `price_feed` | three reporters, two of them honest, prices 3 and 5 against 9, ages 1 and 2, one round, quorum 2, clock to 2 | Do lists and mappings agree, is a round made of live submissions, is the price out of a minority's hands, is the quorum within reach? | 900 k |
| `attestation` | three decisions, one upset (a log that is cut, or a death, perhaps with the checkpoint lost), one challenge; answers are lost freely | Is no decision skipped, is each anchored in the end, are exactly the claims of a batch challengeable? | 84 k |
| `attested_twice` | the same without challenges | Can a decision be in two anchors? (it can) | |

Why the bounds are enough:

* *Settlement.* With a window of 1 a fill has an inside and an edge, and a clock to 2 an
  outside; a call can read the clock before, at or after the edge and act at any later
  second; a caller and a driver give each pair of methods its race, since the machine holds
  nothing but the map. Two digests are what it takes for a sweep to decide both, one or
  neither. Callers that open a digest again are the proofs' (section 4), not this run's.
* *Coordinator.* Two challenges on one bond make shares with dust (a pool of 4 between
  1 and 3 has none, and would have, if 4 times 3 did not saturate at 10), and a challenge on
  each makes them cross; two threads interrupt one another at
  each lock. A stake of 0 is the one `challenge` refuses after it filed. A clock to 1 is
  enough for a window of 1 and a deadline of 1 to pass.
* *Settler.* Ten units under 55/25/20/0 have dust and a share that has no transfer; a
  second call on a final bond needs two calls, an error anywhere needs one fault.
* *Escrow.* Two openings show whether the second bond is touched by the first. The terms
  include a window of zero and a negative one, which the program accepts, and one rejection
  for each requirement; in one the agent is its own caller and another payee is named twice.
  Any of the five holders challenges, parties and a stranger. The accounts fit each case, and
  some swap a slot's owner for a stranger's.
  Addresses do not share state, so one is enough.
* *Vault.* Two deposits into one vault are what a total can get wrong, one in the other
  vault is what a mix-up needs; a fee may be kept of either transfer of one mint.
* *Spend ledger.* 6 and 4 fill the budget to the unit, 8 is over the limit for one spend.
  Four commands are two that race and two that follow (a reconcile and a third spend, say),
  and two seconds are what it takes for the same request to be one record or two.
* *Payment gate.* The code keeps a claim for 900 seconds and a blockhash lives about 90: the
  instance keeps the order, 3 and 2, and a clock to 5 sees a claim forgotten. Two places are
  what a race needs; four arrivals are two that race, and requests that come again after an
  error, after the claim is forgotten or after a restart. Two fillings, the blank one and
  another, give each payment a key of its own and one that it shares with the other.
* *Positions.* Two tasks are what any race here needs: two buys past the same limit, a buy
  and the scan that adopts its mint, a monitor that leaves while another is counted. One
  mint makes the two meet, in the registry and in the wallet. A limit of one is full at
  once. One upset may be any of the operator's writes, a drawdown or a restart, so each is
  met alone at every point; two of them in one behaviour are the proofs' only. `Wrap` is
  16, so that a decrement too many shows.
* *Price feed.* Three reporters are the least with an honest majority against one, and the
  least for which a swap moves somebody else; ages of 1 and 2 under a clock to 2 let a
  submission expire, be late by lowering the age, or live on.
* *Attestation.* Three decisions make a tree with a promoted node, and let a batch be in
  flight while another decision comes. In a batch of up to three only a leaf is promoted; the
  theorems about the tree cover every size. One upset is a
  cut or a death at each point; an answer may be lost each time one is due.

Deadlock is checked except where the model itself ends: a bond at rest and no opening left,
positions withdrawn and the clock at its bound, commands, events or decisions used up.

Liveness is checked under the fairness named in section 2 and nothing else:
`MaturityReached` (a bond past its window or deadline is decided by the driver),
`StakesAreAwarded` (the call that decides a bond settles its stakes), `SweptIsPaid` (without
an error, a slash a sweep found is paid in full), `EveryBondHasAWayOut` (with an authority and
a challenger that never act again, every bond is paid out and closed, unless somebody sent
tokens into its vault), `EveryPositionComesBack`, `BuyLimitLifts` (a buy limit the sniper set
is lifted by the last position to leave, sold or not), `FlagFollowsFile` (the sniper's flag
ends up as its file says, whoever stored it in between) and `EveryDecisionIsAnchored` (a
decision that stays in the log). Each fairness assumption is what a keeper or driver on a
timer, an asynchronous runtime, or the chain provides.

Each passing property is also run against a mutant of the code, listed in `PROJECT.json`: a
definition replaced by a plausible bug, which the property must catch.

Some properties hold under a condition.

* `BudgetIsKept` and `UnresolvedHoldsBudget` set aside behaviours in which two commands
  overlapped, which `spend_race` shows to overspend, and those in which one record was sealed
  twice, because the code's ids do not tell the two apart (a spend that failed, asked for
  again within the second, is the record whose failure receipt is still about).
  `LedgerAddsUp` holds without it.
* `BuysWithinLimit` is about one-buy-at-a-time mode; in high-speed mode nothing holds the limit
  between the gate and the confirmation, which is that mode's point. It counts buys: scans
  and buys that landed unseen add positions past the limit, as the code intends.
* `BuyLimitHasACloser` and `BuyLimitLifts` are about a limit this process set; one found at
  startup is in section 5.
* `NoSilentGap` is about decisions of the log the checkpoint is for; after a rotation the
  daemon notices that the last digest is not where it was and begins anew. What was cut
  before it was read is gone, and no reader of the log could know of it.
* `FreshRounds` is about rounds that a submission finalised: `setQuorum` finalises what is
  there, expired or not.

## 4. What is proved

TLAPS checks these for every value of the constants that satisfies the modules' `ASSUME`s:
any sets of digests, threads, challengers, depositors, tasks, mints, reporters; any windows,
deadlines, amounts, routings, fees, limits. The proofs use no bound: `MaxTime` and its like
are parameters too. Every safety and action property of the passing runs is a theorem.
The liveness properties are not, and are listed at the end.

**Sums and recursion** (`SumLemmas`, `UpTo` and `Recursion` in `OmniProofs`). Conservation is
about sums over maps that grow, and the models' walks (a purge, a tree, a climb) are recursions.
`SumOf` is a fold, that is a recursive function on the subsets of a domain which takes out an
element it chooses. Induction is by the smallest counterexample: `MinimalSubset` (a nonempty set
of subsets of a finite set has a member with none below it) and `LeastNumber` come from the
library's well-foundedness theorems, which are about sets and not about operators, so they can
be cited. From them follow that such functions exist and are what their equation says (`UpTo`,
`Recursion`), that a sum does not depend on the order of the choices, and how it changes with
one of its terms.

**Settlement** (`SettlementProofs`). Assumes `WindowAssumption` (the window is a natural) and
`SettlementAssumption`. The invariant is `IInv == TypeOK /\ ReadsArePast /\ \A d : Fact(d)`.
`AuditTrail` alone is not inductive: a step that acts on an old clock reading must be known
to act on one that is past, which is `ReadsArePast` (every reading in `pending` is at most
`clock`), and an undecided bond must already carry the facts its decision will be judged by,
which is `Fact`: what the window of a provisional bond says of its recorded fill, that a
disputed bond's fill was honored and its digest is in `contested`.

* `TypeCorrect`, `AuditTrailHolds`, `ChallengeIsAnsweredHolds`: for all callers, careless
  ones included.
* `TerminalWhenFresh`: for callers that open a digest once, a final bond never changes.
* `PromiseKept`: for those callers, `Settlement` implements `BondPromise`; each action maps
  to one of its moves or to a stutter, a sweep to `Decide` of what it settled.

**Slash routing** (at the head of `BondEscrowProofs`). For every width, bond and routing:
`DistributeConserves` (valid or not, the SDK's shares are within the bond and sum to it),
`SplitPaysTheBond` (so do the program's, when the routing is valid), `SplitsAlwaysAgree` (the
two are the same function of a valid routing: no share of a whole can be large enough to be
wrapped or capped). The lemmas bound a floored share and sums of four of them.

**Escrow** (`BondEscrowProofs`). Assumes `EscrowAssumption`. The invariant is `TypeOK` with,
for an open bond, `RecordOK` (the terms were acceptable; a stake has a challenger; the flags
fit the state) and `Backed` (the vault is bond, stake and strays), and no strays without a
bond. `RecordOK` is needed because that settlement pays the vault to the last token follows
from a routing that sums to a whole, which was checked only when the bond was opened.

* `TypeCorrect`, `VaultAlwaysBacksBond`, `OutcomeIsAlwaysEarned`.
* `SplitsAgreeHolds`: what `settle` pays out is what the SDK's `distribute` would.
* `RightPartyIsAlwaysWhole`: an honored agent gains its bond and the stake, and nobody else
  anything. Of a slashed bond the challenger gains its stake and the challengers' slice, the caller its share, and
  that slice if nobody challenged, the other payees theirs, each at least, for one holder may
  be several parties; and the agent gains nothing if it is none of them. Only `settle` closes a
  bond, and what a holder receives is the sum over the accounts that are its own, whoever the
  parties are.
* `OnlyPartiesAreEverPaid`: whoever sends `settle`, with whatever accounts.
* `PromiseKept`: the program implements `BondPromise`, like its off-chain twin.

**Payment gate** (`PaymentGateProofs`). Assumes `GateAssumption`: a claim is kept for longer than
a blockhash lives, which is what `SPENT_TTL`'s comment asks, and longer than a settlement
takes. `OneHeaderOneAnswer` is not inductive, for claims are given back and forgotten while
requests are at work, and any number of payments may share a key. The invariant follows a
claim. A request that is settling, or whose payment can still land, has the claim it made
when it came (`HoldsClaim`) and is alone with its key (`Alone`); an answer keeps its claim in the
store, and leaves nobody at work under the key, while its payment can land (`AnswerHolds`).
By the times on record (`Times`) such claims are too young to be purged, and only their holders
give them back. Once the blockhash is over, nothing more can be sent, and what had been sent
with a header was alone with it (`SentOnce`).

* `TypeCorrect`, `OneHeaderOneAnswerHolds`, `AnsweredIsPaidHolds`, `WorkerHoldsClaimHolds`: for any
  payments and fillings. They are about headers and keys; about payments the code promises
  less (section 5).

**Vault** (`TimeLockVaultProofs`). Assumes `VaultAssumption`. The invariant is `TypeOK`,
`VaultIsSolvent`, empty accounts before initialisation, and `PositionOK` (an open position's
date is at least the shortest lock after its creation, and its key says whose it is).

* `TypeCorrect`, `VaultsAreSolvent`, `LocksAreKept`, `DepositorsAloneAreRepaid`.
* `LedgersMatch`: the total of a vault is the sum of its open positions, leg by leg,
  and its count is their number, through any deposits, fees and withdrawals.

**Dispute coordinator** (`DisputeProofs`). Assumes `MachineAssumption` and
`CoordinatorAssumption`, finite sets of digests and challengers among it. Between two locked
steps of a call the machine and the market say different things of one bond, so the invariant
`CoordinatorInv` has a clause for what each call is on its way to do (`CallFits`: the bonds it
still has to report are final, and stay so), what has a listing was opened (`BookOfOpened`), an
open listing is of a bond undecided or in some call's report (`Settling`), a pool follows a
slash (`PoolsFollow`), and what was staked and taken out of slashed bonds is what the open
listings hold, what challengers were paid and the premiums of honored bonds (`Conserved`,
which has a sum over the book of sums over its stakes).

* `NoStakeIsLost`, `PoolsAreForSlashes`: under `FreshDigests`, for opening a digest again drops
  its listing with the stakes in it (section 5).
* `DecidedAreSettled`: under `FreshDigests` and a window that is not zero. With a window of
  zero a fill decides its bond, and nothing settles the listing of it.
* `DoubtersNeverLose`: needs neither. What the challengers of a slashed listing get is at least
  their stakes, and on top the pool to the last unit, of which none but the last gets more than
  its stake weighs: for any stakes, also where the product saturates.

**Optimistic settler** (`DisputeProofs`). Assumes `MachineAssumption` and `SettlerAssumption`, a
finite set of tasks among it. The invariant `SettlerInv` counts: for each leg of a bond, the transfers that
landed are at least the settlements that returned Ok and those in progress whose index has
passed the leg, and at most the settlements that began (`Counted`), and whoever pays is
at work on a bond that is final and slashed (`AtWork`).

* `OkWasPaid`, `PaidOncePerAttempt`: for any number of calls, tasks, sweeps and errors on one bond.

**Spend ledger** (`OmniProofs`). What the file shows was written from a copy that was read steps
before, so each of the three invariants speaks of the copies in memory as well.

* `LedgerAlwaysAddsUp`, for overlapping commands and any crashes too. The invariant is `Books`:
  the file, when it can be read, and every copy that a command works on add up (`Sound`), and
  a request's record was sealed. A receipt that arrives again must not count again, which is
  what its guard in `Settled` is for.
* `UnresolvedHoldsBudgetAlways`, under the property's own condition. The invariant is `Serial`:
  at most one command runs, each record is asked for once, and the file and every copy
  cover all requests still live (`Fits`, by the command's step), so that what is written
  back is never older than what it replaces.
* `BudgetIsAlwaysKept`, under the same condition. `Frugal` says of the same books that they commit
  no more than the budget. Since they cover the requests, and add up, what was
  handed out is no more than what they commit: the three invariants together.

**Price feed** (`OmniProofs`). Assumes `FeedAssumption`.

* `RosterAgreesHolds`, `QuorumStaysReachableHolds`: from the lemmas on what appending to and
  swap-and-popping an injective sequence do to its length and range.
* `TheBooksAgree`: the invariant `FeedBooks` has `Consistent(book)` (list, flags and submissions
  name the same present reporters, each once). Each step of the backward walk of `Purged`
  keeps it. The walk also leaves live submissions only: what is swapped into a place comes
  from behind it, where the walk has been.
* `RoundsAreFresh`: hence a round is made of submissions live at once, stamped with the oldest.
* `ThePivotIsBounded`: for rounds of any size. A sorting exists; the median of it has half of
  the values on either side; the others, fewer than half, cannot fill a side (a
  pigeonhole on finite sets), so there is an honest submission on each, up to the unit that
  halving loses.

**Batches** (`OmniProofs`). Of `ClaimBatch` alone, for any claims in any number. A hash is
the tuple of what was hashed, which is to say that no collision is found.

* `ProofIsAccepted`: the proof built for a claim is accepted. Level by level, the node where the
  claim's path is and the sibling that the proof carries give the node above, and a promoted
  node is the one above.
* `AcceptedIsClaimed`: a proof that is accepted, made of any steps, is for a digest that the batch
  holds at that index. All that hashes to a node of the tree is in the tree, so
  a climb that ends in the root never left it, and it began in a leaf.

**Attestation** (`OmniProofs`). Assumes `AnchorsAssumption`. `NoSilentGap` is about a
saved checkpoint, and what is saved was decided steps before, on a view of the log that may
have been cut since. The invariant adds the types, `WrittenOnce` (no decision is in the log
twice, and none from the future) and `FlushIsSound` (what the daemon is about to save is
covered by what has landed). Challenges amend anchors and never their claims (`Kept`).

* `NoSilentGapHolds`, `FlushIsSoundHolds`.
* `EveryClaimIsChallengeable`, `OnlyItsClaimsAreAccused`: that the contract's root is the root of
  the claims it stands for (`BatchesAreWhole`) is kept by every step, and the two theorems on
  batches do the rest.

**Positions** (`SniperPositionsProofs`). Assumes `SniperAssumption`: a finite number of tasks,
fewer than the counter's range. The invariant is `CounterBalanced` (with the types),
`SlotIsHeld` (a task past the gate holds the one slot), `RoomForOne` (while it is buying,
there is room under the limit), `BuysWithinLimit` and `BuyLimitHasACloser`. `RoomForOne` is
why a limit read so early holds: only the slot's holder can add a buy, and scans, which may
come in between, are not buys. `BuyLimitHasACloser` needs `CounterBalanced`: the task that
finds the count at one is the last that is counted, and goes on to lift the limit. The
lemmas are about how one task's step changes the cardinality of the counted ones.

* `CounterBalancedHolds`, `BuysWithinLimitHolds`, `BuyLimitHasACloserHolds`: for any number
  of mints, tasks, upsets and restarts, in any order.

*Only model-checked*: what eventually happens. The prover has no rule for fairness or `ENABLED`,
so `MaturityReached`, `StakesAreAwarded`, `SweptIsPaid`, `EveryBondHasAWayOut`,
`EveryPositionComesBack`, `BuyLimitLifts`, `FlagFollowsFile` and `EveryDecisionIsAnchored` are
checked on the instances of section 3 and nowhere else. So are the two disagreements
that runs exhibit, which are single behaviours.

## 5. Disagreements between the code and its documentation

Two are exhibited by runs (`findings` in `PROJECT.json`):

* **A budget spent twice** (`spend_race`). `scema pay` reads, decides and writes the whole
  ledger with no lock; two that overlap both spend the remainder, and the later write drops
  the earlier reservation, which its own comment says reserving early prevents.
* **A decision anchored twice** (`attested_twice`). `daemon.rs` says that covering decisions
  again, after a lost checkpoint, "is caught by `AnchorExists`". The contract compares roots,
  and a batch that is begun again includes what was decided since: its root is new, and the
  decisions before are in the record twice. What does hold, and is proved, is that none is
  left out.

Met on the way and read off the code; no run exhibits them.

*Bonds.*

* `DisputeCoordinator::challenge` stakes on the state it read. A call that read *Disputed*
  while another thread resolves the bond adds its stake to a bond whose outcome is known,
  and shares the pool or forfeits; `counter.rs` says agents stake "before it settles".
  `StakesAreAwarded` and `StakesConserved` show that such a stake is at least never lost.
* `finalize` answers Ok for a bond already final, so a second `finalize_and_settle` (a retry
  after a lost answer, say) pays every leg again. What holds, `PaidPerAttempt`, is one
  payment per call.
* `coordinator.rs` says that a bond slashed *by an upheld challenge* is what `mint_scar` takes,
  "and enforces exactly that" (lines 11-14); it takes any bond that is final and Slashed, a
  missed deadline among them.
* A challenge with a stake of zero is filed and then refused by the market
  (`coordinator.rs:147`, `counter.rs:123-124`): the bond stays Disputed with nobody staked.
* `counter.settle` on a slash nobody challenged awards no payout, so the challengers' slice
  is nobody's (`counter.rs:196-197`); the settler and the escrow program do give it to a party.
* Shares of a slash are to be pro rata, with the last challenger absorbing "integer-division
  dust" (`counter.rs:223-228`). The product of bond and stake saturates at `u64` (line 231), which
  pools and stakes of a few thousand USDC reach; then the others get less than their stakes
  weigh and the last one takes the difference, which is not dust. `settlement.rs:211-213` calls
  the same arithmetic, in the slash split it was removed from, "a wrong payout". What
  holds, and `DoubtersAreMadeWhole` says, is that nobody loses a stake and the pool is paid out whole.
* `challenger_winnings` is documented as the slashed collateral paid out and adds the
  returned stakes to it (`counter.rs:76`).
* A report's `challenge` is "`Some` when it was listed (always, in the coordinator)"
  (`coordinator.rs:59-60`); a second `finalize_unchallenged` of a final bond reports none.
* `open` on a digest in use replaces its bond, decided or not, and `list` its listing, with
  the stakes in it. The properties about decisions therefore assume callers that do not.
* A disputed bond of the off-chain machine has no timeout: it waits for its adjudicator for
  ever. The on-chain twin has one.
* A bond swept by its deadline between the two steps of `open` is listed afterwards and stays
  in the book, with no stake in it: the exception in `DecidedLeavesBook`.
* The escrow program's header says a verified proof lets the authority `resolve`
  "immediately" (lines 24-25); `resolve` works on a disputed bond only.
* Tokens sent to an escrow vault from outside make its closing, and so `settle`, fail, and no
  instruction removes them: the exception in `EveryBondHasAWayOut`. Window and grace have no
  upper bound either: a way out may lie at the end of time.
* The off-chain settler keeps its machine in memory only: a restart forgets its bonds.

*Payments.*

* The gate's comment says a claim is given back only after "a local rejection, before
  submission" (`middleware.rs`); the gate tells by the absence of a transaction in the
  result, and `Facilitator::settle` reports none for every error, one that a confirmation met
  after the transaction was sent among them. What holds, and is proved, is that the header
  still buys one answer at most: a second request with it may be served, and then the first
  was not. A payer who is answered 402 and builds a new payment, though, has paid twice.
* The store is said to be "Keyed by the payer's signature, which is unique per payment"
  (`middleware.rs:42-43`, and again at 241-245, "so two different encodings of one payment
  cannot both be spent"). `payment_key` takes the first signature that is not the default one,
  whoever's it is; verification checks the payer's alone, and settlement writes the fee
  payer's anew. One payment can thus be claimed under several keys, and the behaviours of the
  model include several answers for it, one for each header at most. The properties of
  `PaymentGate` say what is true of headers and keys; one about payments would fail.
* `scema pay` prints the settlement request of a record whose budget was not reserved
  because it was known already, and a process that dies in the middle of writing leaves a
  ledger that no later command can read.

*The sniper.*

* One mint may have two monitors: a scan between a buy's landing and its monitor's
  registration finds nobody watching. The first to leave takes the other's key out of the
  registry. The counts stay right (`CounterBalanced`).
* A buy that lands after its deadline has no monitor until a scan finds it: the deadline
  drops the executor's future, and the signature with it.
* The buy limit and the drawdown guard write the sell-mode file whatever is in it, an
  operator's included, and the guard acts on a position count it read before an RPC call.
* `/resume` within five seconds of the buy limit, between two ticks of the watcher, removes
  the file before the watcher has seen it: `buy_count` stays at its maximum and the sniper
  buys nothing until sell mode goes on and off once more, or a restart.
* A buy-limit file found at startup by a sniper with an empty wallet is not lifted
  by the sniper: only the end of a position does that. The model calls it `old_limit`.
* `control.rs` documents pause as stopping new buys; the file it writes makes every monitor
  sell. The web's `{"enabled": false}` engages the mode as well, since only the file's
  existence counts.

*The chain ports.*

* `setReporter` may lower the quorum to a number of submissions already pending and does not
  finalise the round, which then waits for a reporter with none pending; `setQuorum` says a
  change "cannot leave a round hanging" and does finalise, expired submissions included.
* `BotchainPriceFeed` halves the middle pair before adding, so two odd prices give an answer
  one below their mean, and below both when they are equal: the one unit in `PivotIsBounded`.
* In `BotchainNNMesh` a claim may be final while a dispute about it is pending, an arbiter may
  rule again and in the other sense, and a challenge that was dismissed blocks later ones.
* After a lost answer the daemon sends the same batch again and meets `AnchorExists` on every
  retry, until the sniper writes another decision: safe, and stuck for as long as the sniper
  is idle.

## 6. What is not modelled

* *Numbers in floating point*: pool scores, Kelly sizing, learning, sentience, the loss
  breakers. They choose what to buy or refuse it; in `SniperPositions` that is a free choice.
* *Cryptography and encodings*: digests are model values, a proof that verifies is the
  action it permits, a signature that fails is a step that does not happen. `scema-lean` has
  proofs of its own about canonical encodings and Merkle trees.
* *Pure I/O and views*: dashboards, API, MCP and HTTP adapters, renderers, the web front end.
* *Account layout, rent, decimals* of the programs; a token account is named by its owner.
  Extensions of Token-2022 other than a transfer fee (hooks, permanent delegates) are left out
  of the vault: with one, tokens could leave it without its program.
* *Read-only prices*: `market_conviction`, `doubt_spread`, offers, quotes, the reads of the
  price feed with their heartbeat.
* *The sniper's quantities*: a sale empties the wallet of a mint or does not; partial sales
  are the monitor's choice to go on after one. The stamp that spares a mint bought not long
  ago is part of `PoolRejected`. `auto_sell` is on, the files are looked for where they are
  written (the data directory is the working directory), and the rate, moon-chase and
  builder modes, which tune thresholds, are left out; high-speed mode is `OneAtATime`. Between
  two awaits a few steps put an atomic or two and a file operation into one action
  (`LiftSellMode` zeroes the count, stores the flag and removes the file), and a file that cannot be removed,
  whose error the code ignores, is removed in the model.
* *The challenge window of `BotchainNNMesh`*, and who may be an agent or an arbiter: a
  challenge may come at any time or never.
* *Receipts that contradict one another* (a payment reported after a failure for one
  request): the settler outside is taken to give each request one outcome.
* *Overflow of sums near 2^64 micro-USDC*, except where a cast or a saturation is written in
  the code (`SlashRouting`, `CounterMarket`, the vault's `U64`) and can be reached. The escrow
  program's own are exact in the model: `saturating_add` of a bond or slice and a stake (both
  are in the vault, whose balance is a `u64` already) and of times of the clock and a window or
  a grace.
* *Constructors with odd arguments*: `BotchainPriceFeed` may be made with a submission age of 0,
  with which a submission is good in its own second only; the instance begins with a
  positive one.
* *Components that keep little state of their own*, or are one call deep: the bond engine, the
  forecast and insurance markets, effects, the loop. `PROJECT.json` gives each its reason.

## 7. Plan

Done: the bond in its two implementations with everything that decides, contests and pays
it, the reserve vault, the spend ledger, the payment gate, the life of a position with its
control files, the price feed, and the attestation of decisions with its contract; and a
proof of each safety property of these. What
would come next, and why:

1. `EvmBondEscrow`: the Solidity port against `BondPromise`, and against `BondEscrow` where
   they should agree. A third implementation of a promise that two are shown to keep.
2. `BondMarkets`: the bond engine, the forecast and insurance markets over the steps of
   `DisputeCoordinator`. Properties: a settlement counted once; pool capital covers promises.
3. The sniper's amounts: a position in units, tiers that sell parts, tallies of gains and
   losses that two monitors of one mint count twice.
4. The escrow program and the machine side by side: both keep `BondPromise`, and differ in who
   may end a dispute and when. A theorem would say for which histories they pay the same.
