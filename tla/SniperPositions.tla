---------------------------- MODULE SniperPositions ----------------------------
(***************************************************************************)
(* scematica-sniper: the life of a position, from a pool event to the last *)
(* token sold.  Buy tasks, sell monitors, force-sells and wallet scans are *)
(* tasks of one process that share atomics and a map; transactions land or *)
(* not in their own time; operators write the control files; the process   *)
(* may die and come back.  Prices, filters and amounts are left open: a    *)
(* filter or a veto may refuse any pool, an exit rule may fire at any      *)
(* check, a sale may leave some tokens behind.                             *)
(***************************************************************************)
EXTENDS ControlFiles, Integers, FiniteSets

CONSTANTS
  Mints,
  Workers,      \* bound: tasks alive at one time
  Nobody,
  OneAtATime,   \* config one_token_at_a_time, and high-speed mode off
  MaxOpen,      \* config max_concurrent_positions; 0 means no limit
  MaxBuys,      \* config max_buys; 0 means no limit
  MaxSends,     \* bound: transactions tried by one buy
  MaxEvents,    \* bound: pool events
  MaxUpsets,    \* bound: operators' writes of control files, drawdowns, and restarts
  Wrap          \* the counter wraps here: 2^32 in the code, more than its tasks

ASSUME SniperAssumption ==
  /\ Nobody \notin Workers
  /\ IsFiniteSet(Workers) /\ Cardinality(Workers) < Wrap
  /\ OneAtATime \in BOOLEAN
  /\ Wrap \in Nat \ {0}
  /\ {MaxOpen, MaxBuys, MaxSends, MaxEvents, MaxUpsets} \subseteq Nat

VARIABLES
  sellMode, dumpMode,             \* the atomics the watchers keep
  sellWas,                        \* was_active of the sell-mode watcher
  buyCount, openPositions,        \* AtomicU32
  guarding,                       \* the drawdown guard waits for a balance
  slot,                           \* the holder of processing_lock
  live,                           \* keys of live_positions
  scanTodo,                       \* accounts a wallet scan has still to look at
  job,                            \* what each task is doing
  wallet,                         \* mints of which the wallet holds tokens
  strays,                         \* mints of sent buys that no task follows
  events, upsets                  \* bounds

flags == <<sellMode, dumpMode, sellWas>>
registers == <<buyCount, openPositions, slot, live, scanTodo>>
chain == <<wallet, strays>>
bounds == <<events, upsets>>
vars == <<controls, flags, guarding, registers, job, chain, bounds>>

(* The steps of a buy, of a monitor, and of a monitor's end.               *)
BuySteps == {"vetted", "slotted", "buying", "counting", "flagging", "spawning"}
WatchSteps == {"starting", "watching", "checking", "selling"}
EndSteps == {"leaving", "lastOut", "clearing", "gone"}
Steps == BuySteps \cup WatchSteps \cup EndSteps

Task(step, m, from) ==
  [pc |-> step, mint |-> m, from |-> from, tier |-> FALSE, tx |-> "none", tries |-> 0]

Idle == Task("idle", Nobody, "none")

(* from: what started the monitor.  tier: the sale is of a tier's part,    *)
(* and the monitor goes on after it.  tx: what became of a buy's           *)
(* transaction.                                                            *)
Busy ==
  [pc : Steps, mint : Mints, from : {"buy", "scan"},
   tier : BOOLEAN, tx : {"none", "sent", "landed"}, tries : 0 .. MaxSends]

Jobs == {Idle} \cup Busy

TypeOK ==
  /\ ControlTypeOK
  /\ {sellMode, dumpMode, sellWas, guarding} \subseteq BOOLEAN
  /\ buyCount \in Nat
  /\ openPositions \in 0 .. Wrap - 1
  /\ slot \in Workers \cup {Nobody}
  /\ live \cup scanTodo \cup wallet \cup strays \subseteq Mints
  /\ job \in [Workers -> Jobs]
  /\ events \in 0 .. MaxEvents
  /\ upsets \in 0 .. MaxUpsets

Init ==
  /\ ControlInit
  /\ sellMode = FALSE /\ dumpMode = FALSE /\ sellWas = FALSE /\ guarding = FALSE
  /\ buyCount = 0
  /\ openPositions = 0
  /\ slot = Nobody
  /\ live = {} /\ scanTodo = {}
  /\ job = [w \in Workers |-> Idle]
  /\ wallet = {}
  /\ strays = {}
  /\ events = 0 /\ upsets = 0

At(w, step) == job[w].pc = step

Become(w, task) == job' = [job EXCEPT ![w] = task]

GoTo(w, step) == job' = [job EXCEPT ![w].pc = step]

-----------------------------------------------------------------------------
(* Mutation: the flag is stored only when the file comes or goes.          *)
SellWatch_OnChange ==
  LET active == sellFile # "none" IN
  /\ sellMode' = IF active # sellWas THEN active ELSE sellMode
  /\ sellWas' = active
  /\ \E seen \in {{}, wallet} :
       scanTodo' = IF active /\ ~sellWas THEN scanTodo \cup seen ELSE scanTodo
  /\ buyCount' = IF sellWas /\ ~active THEN 0 ELSE buyCount
  /\ UNCHANGED <<guarding, controls, dumpMode, openPositions, slot, live, job, chain, bounds>>

(* The watchers' ticks.  Each stores what it sees, changed or not; the     *)
(* file's arrival starts a scan of the wallet, whose listing may fail.     *)
SellWatch ==
  LET active == sellFile # "none" IN
  /\ sellMode' = active
  /\ sellWas' = active
  /\ \E seen \in {{}, wallet} :
       scanTodo' = IF active /\ ~sellWas THEN scanTodo \cup seen ELSE scanTodo
  /\ buyCount' = IF sellWas /\ ~active THEN 0 ELSE buyCount
  /\ UNCHANGED <<guarding, controls, dumpMode, openPositions, slot, live, job, chain, bounds>>

DumpWatch ==
  /\ dumpMode' = dumpFile
  /\ UNCHANGED <<guarding, controls, sellMode, sellWas, registers, job, chain, bounds>>

(* auto_dump runs again and again in dump mode: sales of its own, which no *)
(* monitor follows.                                                        *)
DumpSells(m) ==
  /\ dumpMode
  /\ wallet' = wallet \ {m}
  /\ UNCHANGED <<guarding, controls, flags, registers, job, strays, bounds>>

(* The drawdown guard starts only while no position is open, then waits    *)
(* for a balance; one may be open when it trips.  It lifts only the sell   *)
(* mode it set itself, and looks again before it does.  (A look that could *)
(* do neither within the bound is left out.)                               *)
GuardLooks ==
  /\ ~guarding /\ (upsets < MaxUpsets \/ sellFile = "max_drawdown")
  /\ openPositions = 0
  /\ guarding' = TRUE
  /\ UNCHANGED <<controls, flags, registers, job, chain, bounds>>

GuardTrips ==
  /\ guarding
  /\ upsets < MaxUpsets
  /\ upsets' = upsets + 1
  /\ guarding' = FALSE
  /\ sellMode' = TRUE
  /\ sellFile' = "max_drawdown"
  /\ UNCHANGED <<dumpFile, dumpMode, sellWas, registers, job, chain, events>>

GuardLifts ==
  /\ guarding
  /\ guarding' = FALSE
  /\ openPositions = 0
  /\ sellFile = "max_drawdown"
  /\ sellMode' = FALSE
  /\ sellFile' = "none"
  /\ UNCHANGED <<dumpFile, dumpMode, sellWas, registers, job, chain, bounds>>

GuardPasses ==
  /\ guarding
  /\ guarding' = FALSE
  /\ UNCHANGED <<controls, flags, registers, job, chain, bounds>>

OperatorActs ==
  /\ upsets < MaxUpsets
  /\ upsets' = upsets + 1
  /\ Operate
  /\ UNCHANGED <<guarding, flags, registers, job, chain, events>>

-----------------------------------------------------------------------------
(* on_new_pool: the gates that read shared state, then everything else.    *)
NewPool(w, m) ==
  /\ At(w, "idle")
  /\ events < MaxEvents
  /\ ~sellMode /\ ~dumpMode
  /\ MaxBuys > 0 => buyCount < MaxBuys
  /\ MaxOpen > 0 => openPositions < MaxOpen
  /\ events' = events + 1
  /\ Become(w, Task("vetted", m, "buy"))
  /\ UNCHANGED <<guarding, controls, flags, registers, chain, upsets>>

(* A filter, a veto, the balance gate, a failed build, the vault checked   *)
(* again before sending, or the stamp of a buy of the same mint that has   *)
(* confirmed not long ago: the pool is dropped.                            *)
PoolRejected(w) ==
  /\ At(w, "vetted")
  /\ Become(w, Idle)
  /\ UNCHANGED <<guarding, controls, flags, registers, chain, bounds>>

ReleaseSlot(w) == slot' = IF slot = w THEN Nobody ELSE slot

(* The one-buy-at-a-time gate: a slot already taken drops the pool.        *)
TakeSlot(w) ==
  /\ At(w, "vetted")
  /\ IF OneAtATime /\ slot # Nobody THEN Become(w, Idle) ELSE GoTo(w, "slotted")
  /\ slot' = IF OneAtATime /\ slot = Nobody THEN w ELSE slot
  /\ UNCHANGED <<guarding, controls, flags, buyCount, openPositions, live, scanTodo, chain, bounds>>

(* Mutation: the limit is not read again under the slot.                   *)
LimitAfterSlot_Trusting(w) ==
  /\ At(w, "slotted")
  /\ GoTo(w, "buying")
  /\ UNCHANGED <<guarding, controls, flags, registers, chain, bounds>>

(* The limit once more, with the slot in hand.                             *)
LimitAfterSlot(w) ==
  /\ At(w, "slotted")
  /\ IF MaxOpen > 0 /\ openPositions >= MaxOpen
     THEN ReleaseSlot(w) /\ Become(w, Idle)
     ELSE slot' = slot /\ GoTo(w, "buying")
  /\ UNCHANGED <<guarding, controls, flags, buyCount, openPositions, live, scanTodo, chain, bounds>>

-----------------------------------------------------------------------------
(* Transactions.  One that is sent lands, reverts or is dropped; the task  *)
(* that follows it may learn of that, or give up first.                    *)
SendBuy(w) ==
  /\ At(w, "buying")
  /\ job[w].tx = "none"
  /\ job[w].tries < MaxSends
  /\ \E tx \in {"none", "sent"} :   \* refused before it reaches the cluster, or not
       Become(w, [job[w] EXCEPT !.tx = tx, !.tries = @ + 1])
  /\ UNCHANGED <<guarding, controls, flags, registers, chain, bounds>>

BuyLands(w) ==
  /\ At(w, "buying")
  /\ job[w].tx = "sent"
  /\ wallet' = wallet \cup {job[w].mint}
  /\ job' = [job EXCEPT ![w].tx = "landed"]
  /\ UNCHANGED <<guarding, controls, flags, registers, strays, bounds>>

StrayLands(m) ==
  /\ m \in strays
  /\ wallet' = wallet \cup {m}
  /\ strays' = strays \ {m}
  /\ UNCHANGED <<guarding, controls, flags, registers, job, bounds>>

(* The buy stops following its transaction, which has reverted or been     *)
(* dropped, or is still on its way: the executor has no answer by its last *)
(* deadline, or buy's own deadline drops the executor with the signature.  *)
BuyUnanswered(w) ==
  /\ At(w, "buying")
  /\ job[w].tx # "none"
  /\ \/ strays' = strays
     \/ job[w].tx = "sent" /\ strays' = strays \cup {job[w].mint}
  /\ job' = [job EXCEPT ![w].tx = "none"]
  /\ UNCHANGED <<guarding, controls, flags, registers, wallet, bounds>>

(* Every attempt is spent: the slot goes back and the buy leaves no trace. *)
BuyFails(w) ==
  /\ At(w, "buying")
  /\ job[w].tx = "none"
  /\ job[w].tries = MaxSends
  /\ ReleaseSlot(w)
  /\ Become(w, Idle)
  /\ UNCHANGED <<guarding, controls, flags, buyCount, openPositions, live, scanTodo, chain, bounds>>

-----------------------------------------------------------------------------
(* A confirmed buy: the position's count ...                               *)
ConfirmBuy(w) ==
  /\ At(w, "buying")
  /\ job[w].tx = "landed"
  /\ openPositions' = (openPositions + 1) % Wrap
  /\ Become(w, [job[w] EXCEPT !.pc = "counting", !.tx = "none", !.tries = 0])
  /\ UNCHANGED <<guarding, controls, flags, buyCount, slot, live, scanTodo, chain, bounds>>

(* ... the buy's count, and sell mode when it is the last allowed ...      *)
CountBuy(w) ==
  LET full == MaxBuys > 0 /\ buyCount + 1 >= MaxBuys IN
  /\ At(w, "counting")
  /\ buyCount' = IF MaxBuys > 0 THEN buyCount + 1 ELSE buyCount
  /\ sellMode' = (full \/ sellMode)
  /\ GoTo(w, IF full THEN "flagging" ELSE "spawning")
  /\ UNCHANGED <<guarding, controls, dumpMode, sellWas,
                 openPositions, slot, live, scanTodo, chain, bounds>>

(* ... its file, whatever file is there ...                                *)
WriteLimitFile(w) ==
  /\ At(w, "flagging")
  /\ sellFile' = "buy_limit"
  /\ GoTo(w, "spawning")
  /\ UNCHANGED <<guarding, dumpFile, flags, registers, chain, bounds>>

(* ... and the slot's release and the monitor (auto_sell).                 *)
SpawnMonitor(w) ==
  /\ At(w, "spawning")
  /\ ReleaseSlot(w)
  /\ GoTo(w, "starting")
  /\ UNCHANGED <<guarding, controls, flags, buyCount, openPositions, live, scanTodo, chain, bounds>>

-----------------------------------------------------------------------------
(* Mutation: a monitor spawned by a scan is not counted.                   *)
ScanAdopts_Uncounted(w, m) ==
  /\ m \in scanTodo
  /\ At(w, "idle")
  /\ m \notin live
  /\ scanTodo' = scanTodo \ {m}
  /\ live' = live \cup {m}
  /\ Become(w, Task("starting", m, "scan"))
  /\ UNCHANGED <<guarding, controls, flags, buyCount, openPositions, slot, chain, bounds>>

(* scan_existing_positions takes up one listed account: a balance, a pool, *)
(* and no monitor that is registered already.                              *)
ScanAdopts(w, m) ==
  /\ m \in scanTodo
  /\ At(w, "idle")
  /\ m \notin live
  /\ scanTodo' = scanTodo \ {m}
  /\ openPositions' = (openPositions + 1) % Wrap
  /\ live' = live \cup {m}
  /\ Become(w, Task("starting", m, "scan"))
  /\ UNCHANGED <<guarding, controls, flags, buyCount, slot, chain, bounds>>

(* It is empty, watched, without a pool, or cannot be read.                *)
ScanSkips(m) ==
  /\ m \in scanTodo
  /\ scanTodo' = scanTodo \ {m}
  /\ UNCHANGED <<guarding, controls, flags, buyCount, openPositions, slot, live, job, chain, bounds>>

-----------------------------------------------------------------------------
(* monitor_and_sell.                                                       *)
StartMonitor(w) ==
  /\ At(w, "starting")
  /\ live' = live \cup {job[w].mint}
  /\ GoTo(w, "watching")
  /\ UNCHANGED <<guarding, controls, flags, buyCount, openPositions, slot, scanTodo, chain, bounds>>

StartSale(w, tier) == Become(w, [job[w] EXCEPT !.pc = "selling", !.tier = tier])

(* Mutation: a monitor heeds dump mode alone.                              *)
LookAtModes_DumpOnly(w) ==
  /\ At(w, "watching")
  /\ IF dumpMode THEN StartSale(w, FALSE) ELSE GoTo(w, "checking")
  /\ UNCHANGED <<guarding, controls, flags, registers, chain, bounds>>

(* The modes come first in a round: sell and leave, or just leave when the *)
(* balance is zero or cannot be read.  Dump mode alone spares a position   *)
(* younger than min_dump_hold_secs.                                        *)
LookAtModes(w) ==
  /\ At(w, "watching")
  /\ \/ (sellMode \/ dumpMode) /\ (StartSale(w, FALSE) \/ GoTo(w, "leaving"))
     \/ ~sellMode /\ GoTo(w, "checking")
  /\ UNCHANGED <<guarding, controls, flags, registers, chain, bounds>>

(* The rest of the round, after the balances have been read: nothing, an   *)
(* exit rule, a level of the tiered ladder, or the end of the window.      *)
Check(w) ==
  /\ At(w, "checking")
  /\ \/ GoTo(w, "watching")
     \/ StartSale(w, FALSE)
     \/ StartSale(w, TRUE)
     \/ GoTo(w, "leaving")   \* five balances of zero, or none can be read
  /\ UNCHANGED <<guarding, controls, flags, registers, chain, bounds>>

(* sell_with_retry: rounds of balance, send and wait, until a transaction  *)
(* confirms, nothing is left, the pool has drained or the rounds are       *)
(* spent.  Any of its transactions may land, the last one unseen.          *)
SellLands(w) ==
  /\ At(w, "selling")
  /\ wallet' = wallet \ {job[w].mint}
  /\ UNCHANGED <<guarding, controls, flags, registers, job, strays, bounds>>

(* The sale is over, sold or not: after a tier the monitor goes on.        *)
EndSale(w) ==
  /\ At(w, "selling")
  /\ Become(w, [job[w] EXCEPT !.pc = IF job[w].tier THEN "watching" ELSE "leaving", !.tier = FALSE])
  /\ UNCHANGED <<guarding, controls, flags, registers, chain, bounds>>

-----------------------------------------------------------------------------
(* Mutation: fetch_sub is taken to return the new value.                   *)
Leave_NewValue(w) ==
  /\ At(w, "leaving")
  /\ openPositions' = (openPositions - 1) % Wrap
  /\ GoTo(w, IF openPositions' = 1 THEN "lastOut" ELSE "gone")
  /\ UNCHANGED <<guarding, controls, flags, buyCount, slot, live, scanTodo, chain, bounds>>

(* The monitor's end: its count first ...                                  *)
Leave(w) ==
  /\ At(w, "leaving")
  /\ openPositions' = (openPositions - 1) % Wrap
  /\ GoTo(w, IF openPositions = 1 THEN "lastOut" ELSE "gone")
  /\ UNCHANGED <<guarding, controls, flags, buyCount, slot, live, scanTodo, chain, bounds>>

(* ... then, for the last one out, the reason in the sell-mode file ...    *)
ReadReason(w) ==
  /\ At(w, "lastOut")
  /\ GoTo(w, IF sellFile \in LimitFiles THEN "clearing" ELSE "gone")
  /\ UNCHANGED <<guarding, controls, flags, registers, chain, bounds>>

LiftSellMode(w) ==
  /\ At(w, "clearing")
  /\ buyCount' = 0
  /\ sellMode' = FALSE
  /\ sellFile' = "none"
  /\ GoTo(w, "gone")
  /\ UNCHANGED <<guarding, dumpFile, dumpMode, sellWas,
                 openPositions, slot, live, scanTodo, chain, bounds>>

(* ... and the guard, dropped last, takes the mint out of the registry.    *)
Deregister(w) ==
  /\ At(w, "gone")
  /\ live' = live \ {job[w].mint}
  /\ Become(w, Idle)
  /\ UNCHANGED <<guarding, controls, flags, buyCount, openPositions, slot, scanTodo, chain, bounds>>

(* The process dies and is started again.  Files, the stamps, the wallet   *)
(* and what was sent survive; the startup scan lists the wallet.           *)
Crash ==
  /\ upsets < MaxUpsets
  /\ upsets' = upsets + 1
  /\ sellMode' = FALSE /\ dumpMode' = FALSE /\ sellWas' = FALSE /\ guarding' = FALSE
  /\ buyCount' = 0 /\ openPositions' = 0 /\ slot' = Nobody /\ live' = {}
  /\ job' = [w \in Workers |-> Idle]
  /\ sellFile' = IF sellFile = "buy_limit" THEN "old_limit" ELSE sellFile
  /\ strays' = strays \cup {job[w].mint : w \in {v \in Workers : At(v, "buying") /\ job[v].tx = "sent"}}
  /\ scanTodo' \in {{}, wallet}
  /\ UNCHANGED <<dumpFile, wallet, events>>

-----------------------------------------------------------------------------
TaskStep(w) ==
  \/ PoolRejected(w) \/ TakeSlot(w) \/ LimitAfterSlot(w)
  \/ SendBuy(w) \/ BuyUnanswered(w) \/ BuyFails(w)
  \/ ConfirmBuy(w) \/ CountBuy(w) \/ WriteLimitFile(w) \/ SpawnMonitor(w)
  \/ StartMonitor(w) \/ LookAtModes(w) \/ Check(w)
  \/ EndSale(w)
  \/ Leave(w) \/ ReadReason(w) \/ LiftSellMode(w) \/ Deregister(w)

Environment ==
  \/ OperatorActs \/ GuardLooks \/ GuardTrips \/ GuardLifts \/ GuardPasses
  \/ \E m \in Mints :
       \/ ScanSkips(m) \/ DumpSells(m) \/ StrayLands(m)
       \/ \E w \in Workers : NewPool(w, m) \/ ScanAdopts(w, m)
  \/ \E w \in Workers : BuyLands(w) \/ SellLands(w)
  \/ Crash

Next ==
  \/ \E w \in Workers : TaskStep(w)
  \/ SellWatch \/ DumpWatch
  \/ Environment

(* The runtime runs its tasks and its intervals; operators, prices, pools  *)
(* and the cluster owe nothing.                                            *)
Fairness ==
  /\ \A w \in Workers : WF_vars(TaskStep(w))
  /\ WF_vars(SellWatch)

Spec == Init /\ [][Next]_vars

FairSpec == Spec /\ Fairness

-----------------------------------------------------------------------------
(* The steps at which a task has a position counted that it still has to   *)
(* give back.                                                              *)
CountedSteps == {"counting", "flagging", "spawning", "leaving"} \cup WatchSteps

Counted(tasks) == {w \in Workers : tasks[w].pc \in CountedSteps}

CountedBuys(tasks) == {w \in Counted(tasks) : tasks[w].from = "buy"}

(* open_positions counts exactly the positions some task still has to give *)
(* back, so it never wraps below zero: "increment open_positions BEFORE    *)
(* spawning so the counter is balanced when monitor_and_sell calls         *)
(* fetch_sub on exit" (sniper.rs).                                         *)
CounterBalanced == TypeOK /\ openPositions = Cardinality(Counted(job))

(* With one buy at a time the buys hold max_concurrent_positions together, *)
(* although the limit is read, and read again, long before a buy confirms, *)
(* and scans add positions in between.                                     *)
BuysWithinLimit ==
  (OneAtATime /\ MaxOpen > 0)
    => Cardinality(CountedBuys(job)) <= MaxOpen

(* A buy limit set by this process is always somebody's to lift: as long   *)
(* as its file stands, a position is open whose end will find it, or one   *)
(* is at its end already.                                                  *)
BuyLimitHasACloser ==
  sellFile = "buy_limit" =>
    \E w \in Workers : job[w].pc \in CountedSteps \cup {"lastOut", "clearing"}

(* And it is lifted: sell mode makes every position leave, sold or not.    *)
BuyLimitLifts == (sellFile = "buy_limit") ~> (sellFile # "buy_limit")

(* sell_mode is the file's existence, after however many tasks have stored *)
(* it themselves: if the file is gone for good the flag ends off, if it    *)
(* stays the flag is on again and again. (buy_count is not its concern.)   *)
FlagFollowsFile ==
  /\ <>[](sellFile = "none") => <>[](~sellMode)
  /\ <>[](sellFile # "none") => []<>sellMode
=============================================================================
