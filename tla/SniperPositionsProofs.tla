------------------------- MODULE SniperPositionsProofs -------------------------
(***************************************************************************)
(* The counts of the sniper, for any mints, tasks and limits.  A step      *)
(* moves one task; only a confirmed buy, an adoption by a scan and the end *)
(* of a monitor move it into or out of the counted steps, and each changes *)
(* the counter with it.  A task that buys holds the slot, so with one buy  *)
(* at a time no other can confirm between its reading of the limit and its *)
(* own confirmation.                                                       *)
(***************************************************************************)
EXTENDS SniperPositions, FiniteSetTheorems, TLAPS

(* The steps of a buy with the slot in hand.                               *)
SlotSteps == {"slotted", "buying", "counting", "flagging", "spawning"}

SlotIsHeld ==
  OneAtATime => \A w \in Workers : job[w].pc \in SlotSteps => slot = w

RoomForOne ==
  (OneAtATime /\ MaxOpen > 0) =>
    \A w \in Workers : job[w].pc = "buying" => Cardinality(CountedBuys(job)) < MaxOpen

IInv ==
  /\ CounterBalanced
  /\ SlotIsHeld
  /\ RoomForOne
  /\ BuysWithinLimit
  /\ BuyLimitHasACloser

-----------------------------------------------------------------------------
(* Tasks and the sets of those that count.                                 *)
LEMMA IdleIsAJob == Idle \in Jobs
  BY DEF Jobs

LEMMA CountedFinite ==
  ASSUME NEW f
  PROVE  /\ IsFiniteSet(Counted(f)) /\ IsFiniteSet(CountedBuys(f))
         /\ Cardinality(Counted(f)) \in Nat /\ Cardinality(CountedBuys(f)) \in Nat
         /\ Cardinality(CountedBuys(f)) <= Cardinality(Counted(f))
         /\ Cardinality(Counted(f)) < Wrap
<1>1. Counted(f) \subseteq Workers /\ CountedBuys(f) \subseteq Counted(f)
  BY DEF Counted, CountedBuys
<1>2. IsFiniteSet(Counted(f)) /\ Cardinality(Counted(f)) <= Cardinality(Workers)
  BY <1>1, SniperAssumption, FS_Subset
<1>3. IsFiniteSet(CountedBuys(f)) /\ Cardinality(CountedBuys(f)) <= Cardinality(Counted(f))
  BY <1>1, <1>2, FS_Subset
<1>4. Cardinality(Workers) \in Nat /\ Cardinality(Counted(f)) \in Nat /\ Cardinality(CountedBuys(f)) \in Nat
  BY <1>2, <1>3, SniperAssumption, FS_CardinalityType
<1>5. QED BY <1>2, <1>3, <1>4, SniperAssumption

(* f and g differ at w only.                                               *)
Differ(f, g, w) == \A v \in Workers \ {w} : g[v] = f[v]

LEMMA CountedStays ==
  ASSUME NEW f, NEW g, NEW w \in Workers, Differ(f, g, w),
         f[w].pc \in CountedSteps <=> g[w].pc \in CountedSteps
  PROVE  Counted(g) = Counted(f)
  BY DEF Differ, Counted

LEMMA CountedJoins ==
  ASSUME NEW f, NEW g, NEW w \in Workers, Differ(f, g, w),
         f[w].pc \notin CountedSteps, g[w].pc \in CountedSteps
  PROVE  Cardinality(Counted(g)) = Cardinality(Counted(f)) + 1
<1>1. Counted(g) = Counted(f) \cup {w} /\ w \notin Counted(f)
  BY DEF Differ, Counted
<1>2. QED BY <1>1, CountedFinite, FS_AddElement

LEMMA CountedQuits ==
  ASSUME NEW f, NEW g, NEW w \in Workers, Differ(f, g, w),
         f[w].pc \in CountedSteps, g[w].pc \notin CountedSteps
  PROVE  Cardinality(Counted(g)) = Cardinality(Counted(f)) - 1
<1>1. Counted(g) = Counted(f) \ {w} /\ w \in Counted(f)
  BY DEF Differ, Counted
<1>2. QED BY <1>1, CountedFinite, FS_RemoveElement

LEMMA BuysStay ==
  ASSUME NEW f, NEW g, NEW w \in Workers, Differ(f, g, w),
         g[w].pc \in CountedSteps /\ g[w].from = "buy" => f[w].pc \in CountedSteps /\ f[w].from = "buy"
  PROVE  Cardinality(CountedBuys(g)) <= Cardinality(CountedBuys(f))
<1>1. CountedBuys(g) \subseteq CountedBuys(f)
  BY DEF Differ, Counted, CountedBuys
<1>2. QED BY <1>1, CountedFinite, FS_Subset

LEMMA BuysJoin ==
  ASSUME NEW f, NEW g, NEW w \in Workers, Differ(f, g, w)
  PROVE  Cardinality(CountedBuys(g)) <= Cardinality(CountedBuys(f)) + 1
<1>1. CountedBuys(g) \subseteq CountedBuys(f) \cup {w}
  BY DEF Differ, Counted, CountedBuys
<1>2. IsFiniteSet(CountedBuys(f) \cup {w}) /\ Cardinality(CountedBuys(f) \cup {w}) <= Cardinality(CountedBuys(f)) + 1
  <2>1. CASE w \in CountedBuys(f)
    <3>1. CountedBuys(f) \cup {w} = CountedBuys(f)
      BY <2>1
    <3>2. QED BY <3>1, CountedFinite
  <2>2. CASE w \notin CountedBuys(f)
    <3>1. IsFiniteSet(CountedBuys(f)) /\ Cardinality(CountedBuys(f)) \in Nat
      BY CountedFinite
    <3>2. Cardinality(CountedBuys(f) \cup {w}) = Cardinality(CountedBuys(f)) + 1
      BY <2>2, <3>1, FS_AddElement
    <3>3. IsFiniteSet(CountedBuys(f) \cup {w})
      BY <3>1, FS_AddElement
    <3>4. QED BY <3>1, <3>2, <3>3
  <2>3. QED BY <2>1, <2>2
<1>3. Cardinality(CountedBuys(g)) <= Cardinality(CountedBuys(f) \cup {w})
  BY <1>1, <1>2, FS_Subset
<1>4. Cardinality(CountedBuys(f) \cup {w}) \in Nat
  BY <1>2, FS_CardinalityType
<1>5. QED BY <1>2, <1>3, <1>4, CountedFinite

-----------------------------------------------------------------------------
LEMMA InitIInv == Init => IInv
<1> SUFFICES ASSUME Init PROVE IInv
  OBVIOUS
<1>1. TypeOK
  <2>1. ControlTypeOK
    BY DEF Init, ControlInit, ControlTypeOK, SellFiles
  <2>2. {sellMode, dumpMode, sellWas, guarding} \subseteq BOOLEAN
    BY DEF Init
  <2>3. live \cup scanTodo \cup wallet \cup strays \subseteq Mints
    BY DEF Init
  <2>4. job \in [Workers -> Jobs]
    BY IdleIsAJob DEF Init
  <2>5. openPositions \in 0 .. Wrap - 1 /\ events \in 0 .. MaxEvents /\ upsets \in 0 .. MaxUpsets
    BY SniperAssumption DEF Init
  <2>6. QED BY <2>1, <2>2, <2>3, <2>4, <2>5 DEF Init, TypeOK
<1>2. \A w \in Workers : job[w].pc = "idle"
  BY DEF Init, Idle, Task
<1>3. Counted(job) = {} /\ Cardinality(Counted(job)) = 0
  <2>1. Counted(job) = {}
    BY <1>2 DEF Counted, CountedSteps, WatchSteps
  <2>2. QED BY <2>1, FS_EmptySet
<1>4. Cardinality(CountedBuys(job)) = 0
  BY <1>3, CountedFinite
<1>5. CounterBalanced
  BY <1>1, <1>3 DEF Init, CounterBalanced
<1>6. RoomForOne /\ BuysWithinLimit
  BY <1>2, <1>4, SniperAssumption DEF RoomForOne, BuysWithinLimit
<1>7. SlotIsHeld /\ BuyLimitHasACloser
  BY <1>2 DEF Init, ControlInit, SlotIsHeld, SlotSteps, BuyLimitHasACloser
<1>8. QED BY <1>5, <1>6, <1>7 DEF IInv

-----------------------------------------------------------------------------
(* A step of w moves it from one set of program points to another, and no  *)
(* other task; no monitor becomes a buy's.                                 *)
Moves(w, from, to) ==
  /\ job' \in [Workers -> Jobs]
  /\ Differ(job, job', w)
  /\ job[w].pc \in from /\ job'[w].pc \in to
  /\ job'[w].from \in {job[w].from, "scan"} \/ job'[w].pc \in {"idle", "vetted"}

LEMMA GoToMoves ==
  ASSUME TypeOK, NEW w \in Workers, job[w] \in Busy, NEW step \in Steps, GoTo(w, step)
  PROVE  Moves(w, {job[w].pc}, {step})
<1>1. job \in [Workers -> Jobs] /\ job[w] \in Busy
  BY DEF TypeOK
<1>2. [job[w] EXCEPT !.pc = step] \in Jobs
  BY <1>1 DEF Jobs, Busy
<1>3. job' = [job EXCEPT ![w] = [job[w] EXCEPT !.pc = step]]
  BY <1>1 DEF GoTo
<1>4. job' \in [Workers -> Jobs] /\ job'[w] = [job[w] EXCEPT !.pc = step]
  BY <1>1, <1>2, <1>3
<1>5. job'[w].pc = step /\ job'[w].from = job[w].from
  BY <1>1, <1>4 DEF Busy
<1>6. Differ(job, job', w)
  BY <1>1, <1>3 DEF Differ
<1>7. QED BY <1>4, <1>5, <1>6 DEF Moves

LEMMA BecomeMoves ==
  ASSUME TypeOK, NEW w \in Workers, NEW task \in Jobs, Become(w, task),
         task.from \in {job[w].from, "scan"} \/ task.pc \in {"idle", "vetted"}
  PROVE  Moves(w, {job[w].pc}, {task.pc})
<1>1. job' \in [Workers -> Jobs] /\ job'[w] = task /\ Differ(job, job', w)
  BY DEF TypeOK, Become, Differ
<1>2. QED BY <1>1 DEF Moves
LEMMA BuyMoves ==
  ASSUME TypeOK, NEW w \in Workers, job[w] \in Busy
  PROVE  /\ PoolRejected(w) => Moves(w, {"vetted"}, {"idle"})
         /\ TakeSlot(w) => Moves(w, {"vetted"}, {"idle", "slotted"})
         /\ LimitAfterSlot(w) => Moves(w, {"slotted"}, {"idle", "buying"})
         /\ SendBuy(w) \/ BuyUnanswered(w) \/ BuyLands(w) => Moves(w, {"buying"}, {"buying"})
         /\ BuyFails(w) => Moves(w, {"buying"}, {"idle"})
         /\ ConfirmBuy(w) => Moves(w, {"buying"}, {"counting"})
         /\ CountBuy(w) => Moves(w, {"counting"}, {"flagging", "spawning"})
         /\ WriteLimitFile(w) => Moves(w, {"flagging"}, {"spawning"})
         /\ SpawnMonitor(w) => Moves(w, {"spawning"}, {"starting"})
<1> DEFINE from == job[w].pc
<1>1. job[w] \in Busy /\ Idle.pc = "idle"
  BY DEF Idle, Task
<1>2. Become(w, Idle) => Moves(w, {from}, {"idle"})
  BY <1>1, IdleIsAJob, BecomeMoves
<1>3. \A step \in Steps : GoTo(w, step) => Moves(w, {from}, {step})
  BY GoToMoves
<1>4. {"slotted", "buying", "flagging", "spawning", "starting"} \subseteq Steps
  BY DEF Steps, BuySteps, WatchSteps
<1>5. PoolRejected(w) => Moves(w, {"vetted"}, {"idle"})
  BY <1>2 DEF PoolRejected, At
<1>6. TakeSlot(w) => Moves(w, {"vetted"}, {"idle", "slotted"})
  BY <1>2, <1>3, <1>4 DEF TakeSlot, At, Moves
<1>7. LimitAfterSlot(w) => Moves(w, {"slotted"}, {"idle", "buying"})
  BY <1>2, <1>3, <1>4 DEF LimitAfterSlot, At, Moves
<1>8. SendBuy(w) => Moves(w, {"buying"}, {"buying"})
  <2> SUFFICES ASSUME SendBuy(w) PROVE Moves(w, {"buying"}, {"buying"})
    OBVIOUS
  <2>1. PICK tx \in {"none", "sent"} : Become(w, [job[w] EXCEPT !.tx = tx, !.tries = @ + 1])
    BY DEF SendBuy
  <2>2. job[w].tries + 1 \in 0 .. MaxSends /\ job[w].pc = "buying"
    <3>1. job[w].tries \in 0 .. MaxSends
      BY <1>1 DEF Jobs, Busy
    <3>2. job[w].tries < MaxSends /\ job[w].pc = "buying"
      BY DEF SendBuy, At
    <3>3. MaxSends \in Nat
      BY SniperAssumption
    <3>4. QED BY <3>1, <3>2, <3>3
  <2> DEFINE task == [job[w] EXCEPT !.tx = tx, !.tries = @ + 1]
  <2>3. task \in Jobs /\ task.pc = "buying" /\ task.from = job[w].from
    BY <1>1, <2>2 DEF Jobs, Busy
  <2> HIDE DEF task
  <2>4. Become(w, task)
    BY <2>1 DEF task
  <2>5. QED BY <2>2, <2>3, <2>4, BecomeMoves
<1>9. BuyUnanswered(w) => Moves(w, {"buying"}, {"buying"})
  <2> DEFINE task == [job[w] EXCEPT !.tx = "none"]
  <2>1. task \in Jobs /\ task.pc = job[w].pc /\ task.from = job[w].from
    BY <1>1 DEF Jobs, Busy
  <2>2. BuyUnanswered(w) => Become(w, task)
    BY DEF BuyUnanswered, Become, TypeOK
  <2> HIDE DEF task
  <2>3. QED BY <2>1, <2>2, BecomeMoves DEF BuyUnanswered, At
<1>10. BuyLands(w) => Moves(w, {"buying"}, {"buying"})
  <2> DEFINE task == [job[w] EXCEPT !.tx = "landed"]
  <2>1. task \in Jobs /\ task.pc = job[w].pc /\ task.from = job[w].from
    BY <1>1 DEF Jobs, Busy
  <2>2. BuyLands(w) => Become(w, task)
    BY DEF BuyLands, Become, TypeOK
  <2> HIDE DEF task
  <2>3. QED BY <2>1, <2>2, BecomeMoves DEF BuyLands, At
<1>11. BuyFails(w) => Moves(w, {"buying"}, {"idle"})
  BY <1>2 DEF BuyFails, At
<1>12. ConfirmBuy(w) => Moves(w, {"buying"}, {"counting"})
  <2> DEFINE task == [job[w] EXCEPT !.pc = "counting", !.tx = "none", !.tries = 0]
  <2>1. task \in Jobs /\ task.pc = "counting" /\ task.from = job[w].from
    <3>1. 0 \in 0 .. MaxSends
      BY SniperAssumption
    <3>2. QED BY <1>1, <3>1 DEF Jobs, Busy, Steps, BuySteps
  <2>2. ConfirmBuy(w) => Become(w, task)
    BY DEF ConfirmBuy
  <2> HIDE DEF task
  <2>3. QED BY <2>1, <2>2, BecomeMoves DEF ConfirmBuy, At
<1>13. CountBuy(w) => Moves(w, {"counting"}, {"flagging", "spawning"})
  BY <1>3, <1>4 DEF CountBuy, At, Moves
<1>14. WriteLimitFile(w) => Moves(w, {"flagging"}, {"spawning"})
  BY <1>3, <1>4 DEF WriteLimitFile, At
<1>15. SpawnMonitor(w) => Moves(w, {"spawning"}, {"starting"})
  BY <1>3, <1>4 DEF SpawnMonitor, At
<1>16. QED
  BY <1>5, <1>6, <1>7, <1>8, <1>9, <1>10, <1>11, <1>12, <1>13, <1>14, <1>15

LEMMA MonitorMoves ==
  ASSUME TypeOK, NEW w \in Workers, job[w] \in Busy
  PROVE  /\ StartMonitor(w) => Moves(w, {"starting"}, {"watching"})
         /\ LookAtModes(w) => Moves(w, {"watching"}, {"selling", "leaving", "checking"})
         /\ Check(w) => Moves(w, {"checking"}, {"watching", "selling", "leaving"})
         /\ EndSale(w) => Moves(w, {"selling"}, {"watching", "leaving"})
         /\ Leave(w) => Moves(w, {"leaving"}, {"lastOut", "gone"})
         /\ ReadReason(w) => Moves(w, {"lastOut"}, {"clearing", "gone"})
         /\ LiftSellMode(w) => Moves(w, {"clearing"}, {"gone"})
         /\ Deregister(w) => Moves(w, {"gone"}, {"idle"})
<1> DEFINE from == job[w].pc
<1>1. job[w] \in Busy /\ Idle.pc = "idle"
  BY DEF Idle, Task
<1>2. \A step \in Steps : GoTo(w, step) => Moves(w, {from}, {step})
  BY GoToMoves
<1>3. WatchSteps \cup EndSteps \subseteq Steps
  BY DEF Steps
<1>4. \A tier \in BOOLEAN : StartSale(w, tier) => Moves(w, {from}, {"selling"})
  <2> TAKE tier \in BOOLEAN
  <2> DEFINE task == [job[w] EXCEPT !.pc = "selling", !.tier = tier]
  <2>1. task \in Jobs /\ task.pc = "selling" /\ task.from = job[w].from
    BY <1>1, <1>3 DEF Jobs, Busy, WatchSteps
  <2>2. StartSale(w, tier) => Become(w, task)
    BY DEF StartSale
  <2> HIDE DEF task
  <2>3. QED BY <2>1, <2>2, BecomeMoves
<1>5. StartMonitor(w) => Moves(w, {"starting"}, {"watching"})
  BY <1>2, <1>3 DEF StartMonitor, At, WatchSteps
<1>6. LookAtModes(w) => Moves(w, {"watching"}, {"selling", "leaving", "checking"})
  BY <1>2, <1>3, <1>4 DEF LookAtModes, At, Moves, WatchSteps, EndSteps
<1>7. Check(w) => Moves(w, {"checking"}, {"watching", "selling", "leaving"})
  BY <1>2, <1>3, <1>4 DEF Check, At, Moves, WatchSteps, EndSteps
<1>8. EndSale(w) => Moves(w, {"selling"}, {"watching", "leaving"})
  <2> DEFINE to == IF job[w].tier THEN "watching" ELSE "leaving"
             task == [job[w] EXCEPT !.pc = to, !.tier = FALSE]
  <2>1. to \in {"watching", "leaving"}
    OBVIOUS
  <2> HIDE DEF to
  <2>2. task \in Jobs /\ task.pc = to /\ task.from = job[w].from
    BY <1>1, <1>3, <2>1 DEF Jobs, Busy, WatchSteps, EndSteps
  <2>3. EndSale(w) => Become(w, task)
    BY DEF EndSale, to
  <2> HIDE DEF task
  <2>4. QED BY <2>1, <2>2, <2>3, BecomeMoves DEF EndSale, At, Moves
<1>9. Leave(w) => Moves(w, {"leaving"}, {"lastOut", "gone"})
  BY <1>2, <1>3 DEF Leave, At, Moves, EndSteps
<1>10. ReadReason(w) => Moves(w, {"lastOut"}, {"clearing", "gone"})
  BY <1>2, <1>3 DEF ReadReason, At, Moves, EndSteps
<1>11. LiftSellMode(w) => Moves(w, {"clearing"}, {"gone"})
  BY <1>2, <1>3 DEF LiftSellMode, At, EndSteps
<1>12. Deregister(w) => Moves(w, {"gone"}, {"idle"})
  BY <1>1, IdleIsAJob, BecomeMoves DEF Deregister, At
<1>13. QED BY <1>5, <1>6, <1>7, <1>8, <1>9, <1>10, <1>11, <1>12

LEMMA BeginMoves ==
  ASSUME TypeOK, NEW w \in Workers, NEW m \in Mints
  PROVE  /\ NewPool(w, m) => Moves(w, {"idle"}, {"vetted"})
         /\ ScanAdopts(w, m) => Moves(w, {"idle"}, {"starting"})
<1>1. NewPool(w, m) => Moves(w, {"idle"}, {"vetted"})
  <2> DEFINE task == Task("vetted", m, "buy")
  <2>1. task \in Jobs /\ task.pc = "vetted"
    <3>1. 0 \in 0 .. MaxSends
      BY SniperAssumption
    <3>2. QED BY <3>1 DEF Task, Jobs, Busy, Steps, BuySteps
  <2>2. NewPool(w, m) => Become(w, task)
    BY DEF NewPool
  <2> HIDE DEF task
  <2>3. QED BY <2>1, <2>2, BecomeMoves DEF NewPool, At
<1>2. ScanAdopts(w, m) => Moves(w, {"idle"}, {"starting"})
  <2> DEFINE task == Task("starting", m, "scan")
  <2>1. task \in Jobs /\ task.pc = "starting" /\ task.from = "scan"
    <3>1. 0 \in 0 .. MaxSends
      BY SniperAssumption
    <3>2. QED BY <3>1 DEF Task, Jobs, Busy, Steps, WatchSteps
  <2>2. ScanAdopts(w, m) => Become(w, task)
    BY DEF ScanAdopts
  <2> HIDE DEF task
  <2>3. QED BY <2>1, <2>2, BecomeMoves DEF ScanAdopts, At
<1>3. QED BY <1>1, <1>2
-----------------------------------------------------------------------------
(* The counter stays below the value at which it wraps.                    *)
LEMMA CounterType ==
  ASSUME TypeOK
  PROVE  (openPositions + 1) % Wrap \in 0 .. Wrap - 1 /\ (openPositions - 1) % Wrap \in 0 .. Wrap - 1
<1>1. openPositions \in Nat /\ Wrap \in Nat \ {0}
  BY SniperAssumption DEF TypeOK
<1>2. QED BY <1>1

(* A task that takes a step is not idle.                                   *)
LEMMA TaskIsBusy ==
  ASSUME TypeOK, NEW w \in Workers, TaskStep(w) \/ BuyLands(w) \/ SellLands(w)
  PROVE  job[w] \in Busy
<1>1. job[w].pc # "idle"
  BY DEF TaskStep, At, BuyLands, SellLands, PoolRejected, TakeSlot, LimitAfterSlot, SendBuy,
         BuyUnanswered, BuyFails, ConfirmBuy, CountBuy, WriteLimitFile, SpawnMonitor, StartMonitor,
         LookAtModes, Check, EndSale, Leave, ReadReason, LiftSellMode, Deregister
<1>2. job[w] \in Jobs
  BY DEF TypeOK
<1>3. QED BY <1>1, <1>2 DEF Jobs, Idle, Task

LEMMA TaskTypes ==
  ASSUME TypeOK, NEW w \in Workers, TaskStep(w)
  PROVE  TypeOK'
<1>1. job[w] \in Busy /\ job[w].mint \in Mints
  BY TaskIsBusy DEF Busy
<1>2. CASE PoolRejected(w)
  <2>1. job' \in [Workers -> Jobs]
    BY <1>2, <1>1, BuyMoves DEF Moves
  <2>2. QED BY <1>2, <2>1 DEF PoolRejected, TypeOK, ControlTypeOK, controls, flags, registers, chain, bounds
<1>3. CASE TakeSlot(w)
  <2>1. job' \in [Workers -> Jobs]
    BY <1>3, <1>1, BuyMoves DEF Moves
  <2>2. QED BY <1>3, <2>1 DEF TakeSlot, TypeOK, ControlTypeOK, controls, flags, registers, chain, bounds, ReleaseSlot
<1>4. CASE LimitAfterSlot(w)
  <2>1. job' \in [Workers -> Jobs]
    BY <1>4, <1>1, BuyMoves DEF Moves
  <2>2. QED BY <1>4, <2>1 DEF LimitAfterSlot, TypeOK, ControlTypeOK, controls, flags, registers, chain, bounds, ReleaseSlot
<1>5. CASE SendBuy(w)
  <2>1. job' \in [Workers -> Jobs]
    BY <1>5, <1>1, BuyMoves DEF Moves
  <2>2. QED BY <1>5, <2>1 DEF SendBuy, TypeOK, ControlTypeOK, controls, flags, registers, chain, bounds
<1>6. CASE BuyUnanswered(w)
  <2>1. job' \in [Workers -> Jobs]
    BY <1>6, <1>1, BuyMoves DEF Moves
  <2>2. QED BY <1>1, <1>6, <2>1 DEF BuyUnanswered, TypeOK, ControlTypeOK, controls, flags, registers, chain, bounds
<1>7. CASE BuyFails(w)
  <2>1. job' \in [Workers -> Jobs]
    BY <1>7, <1>1, BuyMoves DEF Moves
  <2>2. QED BY <1>7, <2>1 DEF BuyFails, TypeOK, ControlTypeOK, controls, flags, registers, chain, bounds, ReleaseSlot
<1>8. CASE ConfirmBuy(w)
  <2>1. job' \in [Workers -> Jobs]
    BY <1>8, <1>1, BuyMoves DEF Moves
  <2>2. QED BY <1>8, <2>1, CounterType DEF ConfirmBuy, TypeOK, ControlTypeOK, controls, flags, registers, chain, bounds
<1>9. CASE CountBuy(w)
  <2>1. job' \in [Workers -> Jobs]
    BY <1>9, <1>1, BuyMoves DEF Moves
  <2>2. QED BY <1>9, <2>1 DEF CountBuy, TypeOK, ControlTypeOK, controls, flags, registers, chain, bounds
<1>10. CASE WriteLimitFile(w)
  <2>1. job' \in [Workers -> Jobs]
    BY <1>10, <1>1, BuyMoves DEF Moves
  <2>2. QED BY <1>10, <2>1 DEF WriteLimitFile, TypeOK, ControlTypeOK, controls, flags, registers, chain, bounds, SellFiles
<1>11. CASE SpawnMonitor(w)
  <2>1. job' \in [Workers -> Jobs]
    BY <1>11, <1>1, BuyMoves DEF Moves
  <2>2. QED BY <1>11, <2>1 DEF SpawnMonitor, TypeOK, ControlTypeOK, controls, flags, registers, chain, bounds, ReleaseSlot
<1>12. CASE StartMonitor(w)
  <2>1. job' \in [Workers -> Jobs]
    BY <1>12, <1>1, MonitorMoves DEF Moves
  <2>2. QED BY <1>1, <1>12, <2>1 DEF StartMonitor, TypeOK, ControlTypeOK, controls, flags, registers, chain, bounds
<1>13. CASE LookAtModes(w)
  <2>1. job' \in [Workers -> Jobs]
    BY <1>13, <1>1, MonitorMoves DEF Moves
  <2>2. QED BY <1>13, <2>1 DEF LookAtModes, TypeOK, ControlTypeOK, controls, flags, registers, chain, bounds
<1>14. CASE Check(w)
  <2>1. job' \in [Workers -> Jobs]
    BY <1>14, <1>1, MonitorMoves DEF Moves
  <2>2. QED BY <1>14, <2>1 DEF Check, TypeOK, ControlTypeOK, controls, flags, registers, chain, bounds
<1>15. CASE EndSale(w)
  <2>1. job' \in [Workers -> Jobs]
    BY <1>15, <1>1, MonitorMoves DEF Moves
  <2>2. QED BY <1>15, <2>1 DEF EndSale, TypeOK, ControlTypeOK, controls, flags, registers, chain, bounds
<1>16. CASE Leave(w)
  <2>1. job' \in [Workers -> Jobs]
    BY <1>16, <1>1, MonitorMoves DEF Moves
  <2>2. QED BY <1>16, <2>1, CounterType DEF Leave, TypeOK, ControlTypeOK, controls, flags, registers, chain, bounds
<1>17. CASE ReadReason(w)
  <2>1. job' \in [Workers -> Jobs]
    BY <1>17, <1>1, MonitorMoves DEF Moves
  <2>2. QED BY <1>17, <2>1 DEF ReadReason, TypeOK, ControlTypeOK, controls, flags, registers, chain, bounds
<1>18. CASE LiftSellMode(w)
  <2>1. job' \in [Workers -> Jobs]
    BY <1>18, <1>1, MonitorMoves DEF Moves
  <2>2. QED BY <1>18, <2>1 DEF LiftSellMode, TypeOK, ControlTypeOK, controls, flags, registers, chain, bounds, SellFiles
<1>19. CASE Deregister(w)
  <2>1. job' \in [Workers -> Jobs]
    BY <1>19, <1>1, MonitorMoves DEF Moves
  <2>2. QED BY <1>19, <2>1 DEF Deregister, TypeOK, ControlTypeOK, controls, flags, registers, chain, bounds
<1>20. QED BY <1>2, <1>3, <1>4, <1>5, <1>6, <1>7, <1>8, <1>9, <1>10, <1>11, <1>12, <1>13, <1>14, <1>15, <1>16, <1>17, <1>18, <1>19 DEF TaskStep
LEMMA EnvironmentTypes ==
  ASSUME TypeOK, Environment \/ SellWatch \/ DumpWatch \/ UNCHANGED vars
  PROVE  TypeOK'
<1>0. /\ upsets < MaxUpsets => upsets + 1 \in 0 .. MaxUpsets
      /\ events < MaxEvents => events + 1 \in 0 .. MaxEvents
  BY SniperAssumption DEF TypeOK
<1>1. CASE OperatorActs
  BY <1>0, <1>1 DEF OperatorActs, Operate, SellOn, Resume, Dump, DumpOff, SellFiles, TypeOK, ControlTypeOK, controls, flags, registers, chain, bounds
<1>2. CASE GuardLooks \/ GuardPasses
  BY <1>2 DEF GuardLooks, GuardPasses, TypeOK, ControlTypeOK, controls, flags, registers, chain, bounds
<1>3. CASE GuardTrips
  BY <1>0, <1>3 DEF GuardTrips, SellFiles, TypeOK, ControlTypeOK, controls, flags, registers, chain, bounds
<1>4. CASE GuardLifts
  BY <1>4 DEF GuardLifts, SellFiles, TypeOK, ControlTypeOK, controls, flags, registers, chain, bounds
<1>5. ASSUME NEW m \in Mints, ScanSkips(m) \/ DumpSells(m) \/ StrayLands(m)
      PROVE  TypeOK'
  BY <1>5 DEF ScanSkips, DumpSells, StrayLands, TypeOK, ControlTypeOK, controls, flags, registers, chain, bounds
<1>6. ASSUME NEW m \in Mints, NEW w \in Workers, NewPool(w, m)
      PROVE  TypeOK'
  <2>1. job' \in [Workers -> Jobs]
    BY <1>6, BeginMoves DEF Moves
  <2>2. QED BY <1>0, <1>6, <2>1 DEF NewPool, TypeOK, ControlTypeOK, controls, flags, registers, chain, bounds
<1>7. ASSUME NEW m \in Mints, NEW w \in Workers, ScanAdopts(w, m)
      PROVE  TypeOK'
  <2>1. job' \in [Workers -> Jobs]
    BY <1>7, BeginMoves DEF Moves
  <2>2. QED BY <1>7, <2>1, CounterType DEF ScanAdopts, TypeOK, ControlTypeOK, controls, flags, registers, chain, bounds
<1>8. ASSUME NEW w \in Workers, BuyLands(w)
      PROVE  TypeOK'
  <2>1. job[w] \in Busy /\ job[w].mint \in Mints
    BY <1>8, TaskIsBusy DEF Busy
  <2>2. job' \in [Workers -> Jobs]
    BY <1>8, <2>1, BuyMoves DEF Moves
  <2>3. QED BY <1>8, <2>1, <2>2 DEF BuyLands, TypeOK, ControlTypeOK, controls, flags, registers, chain, bounds
<1>9. ASSUME NEW w \in Workers, SellLands(w)
      PROVE  TypeOK'
  BY <1>9 DEF SellLands, TypeOK, ControlTypeOK, controls, flags, registers, chain, bounds
<1>10. CASE Crash
  <2>1. job' \in [Workers -> Jobs]
    BY <1>10, IdleIsAJob DEF Crash
  <2>2. \A v \in Workers : At(v, "buying") => job[v].mint \in Mints
    BY DEF At, TypeOK, Jobs, Busy, Idle, Task
  <2>3. strays' \subseteq Mints
    BY <1>10, <2>2 DEF Crash, TypeOK
  <2>4. openPositions' \in 0 .. Wrap - 1
    BY <1>10, SniperAssumption DEF Crash
  <2>5. ControlTypeOK'
    BY <1>10 DEF Crash, TypeOK, ControlTypeOK, SellFiles
  <2>6. scanTodo' \cup live' \cup wallet' \subseteq Mints
    BY <1>10 DEF Crash, TypeOK
  <2>7. {sellMode', dumpMode', sellWas', guarding'} \subseteq BOOLEAN
    BY <1>10 DEF Crash
  <2>8. QED BY <1>0, <1>10, <2>1, <2>3, <2>4, <2>5, <2>6, <2>7 DEF Crash, TypeOK
<1>11. CASE SellWatch
  BY <1>11 DEF SellWatch, TypeOK, ControlTypeOK, controls, flags, registers, chain, bounds
<1>12. CASE DumpWatch
  BY <1>12 DEF DumpWatch, TypeOK, ControlTypeOK, controls, flags, registers, chain, bounds
<1>13. CASE UNCHANGED vars
  BY <1>13 DEF vars, TypeOK, ControlTypeOK, controls, flags, registers, chain, bounds
<1>14. QED
  BY <1>1, <1>2, <1>3, <1>4, <1>5, <1>6, <1>7, <1>8, <1>9, <1>10, <1>11, <1>12, <1>13 DEF Environment

-----------------------------------------------------------------------------
(* The counter follows the tasks.                                          *)
LEMMA MovesCount ==
  ASSUME NEW w \in Workers, NEW from, NEW to, Moves(w, from, to)
  PROVE  /\ from \cup to \subseteq CountedSteps => Counted(job') = Counted(job)
         /\ (from \cup to) \cap CountedSteps = {} => Counted(job') = Counted(job)
         /\ from \cap CountedSteps = {} /\ to \subseteq CountedSteps
              => Cardinality(Counted(job')) = Cardinality(Counted(job)) + 1
         /\ from \subseteq CountedSteps /\ to \cap CountedSteps = {}
              => Cardinality(Counted(job')) = Cardinality(Counted(job)) - 1
<1>1. Differ(job, job', w) /\ job[w].pc \in from /\ job'[w].pc \in to
  BY DEF Moves
<1>2. from \cup to \subseteq CountedSteps \/ (from \cup to) \cap CountedSteps = {} => Counted(job') = Counted(job)
  BY <1>1, CountedStays
<1>3. from \cap CountedSteps = {} /\ to \subseteq CountedSteps
        => Cardinality(Counted(job')) = Cardinality(Counted(job)) + 1
  BY <1>1, CountedJoins
<1>4. from \subseteq CountedSteps /\ to \cap CountedSteps = {}
        => Cardinality(Counted(job')) = Cardinality(Counted(job)) - 1
  BY <1>1, CountedQuits
<1>5. QED BY <1>2, <1>3, <1>4

Balanced(tasks, count) == count = Cardinality(Counted(tasks))

LEMMA Increment ==
  ASSUME TypeOK, Balanced(job, openPositions), openPositions' = (openPositions + 1) % Wrap,
         Cardinality(Counted(job')) = Cardinality(Counted(job)) + 1
  PROVE  Balanced(job', openPositions')
<1>1. openPositions \in Nat /\ Wrap \in Nat \ {0} /\ openPositions + 1 < Wrap
  BY CountedFinite, SniperAssumption DEF TypeOK, Balanced
<1>2. (openPositions + 1) % Wrap = openPositions + 1
  BY <1>1
<1>3. QED BY <1>2 DEF Balanced

LEMMA Decrement ==
  ASSUME TypeOK, Balanced(job, openPositions), openPositions' = (openPositions - 1) % Wrap,
         Cardinality(Counted(job')) = Cardinality(Counted(job)) - 1
  PROVE  Balanced(job', openPositions')
<1>1. openPositions - 1 \in Nat /\ Wrap \in Nat \ {0} /\ openPositions - 1 < Wrap
  <2>1. Cardinality(Counted(job')) \in Nat
    BY CountedFinite
  <2>2. openPositions \in 0 .. Wrap - 1 /\ Wrap \in Nat \ {0}
    BY SniperAssumption DEF TypeOK
  <2>3. QED BY <2>1, <2>2 DEF Balanced
<1>2. (openPositions - 1) % Wrap = openPositions - 1
  BY <1>1
<1>3. QED BY <1>2 DEF Balanced

LEMMA TaskBalanced ==
  ASSUME TypeOK, Balanced(job, openPositions), NEW w \in Workers, TaskStep(w) \/ BuyLands(w)
  PROVE  Balanced(job', openPositions')
<1>1. job[w] \in Busy
  BY TaskIsBusy
<1>2. ASSUME UNCHANGED openPositions,
             NEW from, NEW to, Moves(w, from, to),
             from \cup to \subseteq CountedSteps \/ (from \cup to) \cap CountedSteps = {}
      PROVE  Balanced(job', openPositions')
  BY <1>2, MovesCount DEF Balanced
<1> USE DEF CountedSteps, WatchSteps
<1>3. CASE PoolRejected(w)
  BY <1>1, <1>2, <1>3, BuyMoves DEF PoolRejected, registers
<1>4. CASE TakeSlot(w)
  BY <1>1, <1>2, <1>4, BuyMoves DEF TakeSlot
<1>5. CASE LimitAfterSlot(w)
  BY <1>1, <1>2, <1>5, BuyMoves DEF LimitAfterSlot
<1>6. CASE SendBuy(w) \/ BuyUnanswered(w) \/ BuyLands(w)
  BY <1>1, <1>2, <1>6, BuyMoves DEF SendBuy, BuyUnanswered, BuyLands, registers
<1>7. CASE BuyFails(w)
  BY <1>1, <1>2, <1>7, BuyMoves DEF BuyFails
<1>8. CASE ConfirmBuy(w)
  <2>1. Moves(w, {"buying"}, {"counting"})
    BY <1>1, <1>8, BuyMoves
  <2>2. Cardinality(Counted(job')) = Cardinality(Counted(job)) + 1
    BY <2>1, MovesCount
  <2>3. openPositions' = (openPositions + 1) % Wrap
    BY <1>8 DEF ConfirmBuy
  <2>4. QED BY <2>2, <2>3, Increment
<1>9. CASE CountBuy(w)
  BY <1>1, <1>2, <1>9, BuyMoves DEF CountBuy
<1>10. CASE WriteLimitFile(w)
  BY <1>1, <1>2, <1>10, BuyMoves DEF WriteLimitFile, registers
<1>11. CASE SpawnMonitor(w)
  BY <1>1, <1>2, <1>11, BuyMoves DEF SpawnMonitor
<1>12. CASE StartMonitor(w)
  BY <1>1, <1>2, <1>12, MonitorMoves DEF StartMonitor
<1>13. CASE LookAtModes(w)
  BY <1>1, <1>2, <1>13, MonitorMoves DEF LookAtModes, registers
<1>14. CASE Check(w)
  BY <1>1, <1>2, <1>14, MonitorMoves DEF Check, registers
<1>15. CASE EndSale(w)
  BY <1>1, <1>2, <1>15, MonitorMoves DEF EndSale, registers
<1>16. CASE Leave(w)
  BY <1>1, <1>16, MonitorMoves, MovesCount, Decrement DEF Leave
<1>17. CASE ReadReason(w)
  BY <1>1, <1>2, <1>17, MonitorMoves DEF ReadReason, registers
<1>18. CASE LiftSellMode(w)
  BY <1>1, <1>2, <1>18, MonitorMoves DEF LiftSellMode
<1>19. CASE Deregister(w)
  BY <1>1, <1>2, <1>19, MonitorMoves DEF Deregister
<1>20. QED
  BY <1>3, <1>4, <1>5, <1>6, <1>7, <1>8, <1>9, <1>10, <1>11, <1>12, <1>13, <1>14, <1>15, <1>16,
     <1>17, <1>18, <1>19 DEF TaskStep

LEMMA CounterStep ==
  ASSUME CounterBalanced, [Next]_vars
  PROVE  CounterBalanced'
<1>1. TypeOK /\ Balanced(job, openPositions)
  BY DEF CounterBalanced, Balanced
<1>2. TypeOK'
  BY <1>1, TaskTypes, EnvironmentTypes DEF Next
<1>3. Balanced(job', openPositions')
  <2>1. CASE UNCHANGED <<job, openPositions>>
    BY <1>1, <2>1 DEF Balanced
  <2>2. ASSUME NEW w \in Workers, TaskStep(w) \/ BuyLands(w)
        PROVE  Balanced(job', openPositions')
    BY <1>1, <2>2, TaskBalanced
  <2>3. ASSUME NEW w \in Workers, NEW m \in Mints, NewPool(w, m)
        PROVE  Balanced(job', openPositions')
    <3>1. Counted(job') = Counted(job)
      BY <1>1, <2>3, BeginMoves, MovesCount DEF CountedSteps, WatchSteps
    <3>2. QED BY <1>1, <2>3, <3>1 DEF Balanced, NewPool, registers
  <2>4. ASSUME NEW w \in Workers, NEW m \in Mints, ScanAdopts(w, m)
        PROVE  Balanced(job', openPositions')
    <3>1. Cardinality(Counted(job')) = Cardinality(Counted(job)) + 1
      BY <1>1, <2>4, BeginMoves, MovesCount DEF CountedSteps, WatchSteps
    <3>2. QED BY <1>1, <2>4, <3>1, Increment DEF ScanAdopts
  <2>5. CASE Crash
    <3>1. Counted(job') = {}
      BY <2>5 DEF Crash, Counted, CountedSteps, WatchSteps, Idle, Task
    <3>2. QED BY <2>5, <3>1, FS_EmptySet DEF Crash, Balanced
  <2>6. OperatorActs \/ GuardLooks \/ GuardTrips \/ GuardLifts \/ GuardPasses \/ SellWatch \/ DumpWatch
          => UNCHANGED <<job, openPositions>>
    BY DEF OperatorActs, GuardLooks, GuardTrips, GuardLifts, GuardPasses, SellWatch, DumpWatch, registers
  <2>7. \A m \in Mints : ScanSkips(m) \/ DumpSells(m) \/ StrayLands(m) => UNCHANGED <<job, openPositions>>
    BY DEF ScanSkips, DumpSells, StrayLands, registers
  <2>8. \A w \in Workers : SellLands(w) => UNCHANGED <<job, openPositions>>
    BY DEF SellLands, registers
  <2>9. UNCHANGED vars => UNCHANGED <<job, openPositions>>
    BY DEF vars, registers
  <2>10. QED
    BY <2>1, <2>2, <2>3, <2>4, <2>5, <2>6, <2>7, <2>8, <2>9 DEF Next, Environment
<1>4. QED BY <1>2, <1>3 DEF CounterBalanced, Balanced
-----------------------------------------------------------------------------
(* All but three steps of a task neither take the slot nor begin or        *)
(* confirm a buy.                                                          *)
Plain(w) ==
  /\ Differ(job, job', w)
  /\ job'[w].pc = "buying" => job[w].pc = "buying"
  /\ job'[w].pc \in SlotSteps => job[w].pc \in SlotSteps /\ slot' = slot
  /\ slot' = slot \/ ReleaseSlot(w)
  /\ job'[w].pc \in CountedSteps /\ job'[w].from = "buy" =>
       job[w].pc \in CountedSteps /\ job[w].from = "buy"

LEMMA TaskIsPlain ==
  ASSUME TypeOK, NEW w \in Workers,
         TaskStep(w) \/ BuyLands(w), ~TakeSlot(w), ~LimitAfterSlot(w), ~ConfirmBuy(w)
  PROVE  Plain(w)
<1>1. job[w] \in Busy
  BY TaskIsBusy
<1> USE DEF Plain, Moves, SlotSteps, CountedSteps, WatchSteps
<1>2. CASE PoolRejected(w)
  BY <1>1, <1>2, BuyMoves DEF PoolRejected, registers
<1>3. CASE SendBuy(w)
  BY <1>1, <1>3, BuyMoves DEF SendBuy, registers
<1>4. CASE BuyUnanswered(w)
  BY <1>1, <1>4, BuyMoves DEF BuyUnanswered, registers
<1>5. CASE BuyLands(w)
  BY <1>1, <1>5, BuyMoves DEF BuyLands, registers
<1>6. CASE BuyFails(w)
  BY <1>1, <1>6, BuyMoves DEF BuyFails, registers
<1>7. CASE CountBuy(w)
  BY <1>1, <1>7, BuyMoves DEF CountBuy, registers
<1>8. CASE WriteLimitFile(w)
  BY <1>1, <1>8, BuyMoves DEF WriteLimitFile, registers
<1>9. CASE SpawnMonitor(w)
  BY <1>1, <1>9, BuyMoves DEF SpawnMonitor, registers
<1>10. CASE StartMonitor(w)
  BY <1>1, <1>10, MonitorMoves DEF StartMonitor, registers
<1>11. CASE LookAtModes(w)
  BY <1>1, <1>11, MonitorMoves DEF LookAtModes, registers
<1>12. CASE Check(w)
  BY <1>1, <1>12, MonitorMoves DEF Check, registers
<1>13. CASE EndSale(w)
  BY <1>1, <1>13, MonitorMoves DEF EndSale, registers
<1>14. CASE Leave(w)
  BY <1>1, <1>14, MonitorMoves DEF Leave, registers
<1>15. CASE ReadReason(w)
  BY <1>1, <1>15, MonitorMoves DEF ReadReason, registers
<1>16. CASE LiftSellMode(w)
  BY <1>1, <1>16, MonitorMoves DEF LiftSellMode, registers
<1>17. CASE Deregister(w)
  BY <1>1, <1>17, MonitorMoves DEF Deregister, registers
<1>18. QED
  BY <1>2, <1>3, <1>4, <1>5, <1>6, <1>7, <1>8, <1>9, <1>10,
     <1>11, <1>12, <1>13, <1>14, <1>15, <1>16, <1>17 DEF TaskStep

LEMMA BeginIsPlain ==
  ASSUME TypeOK, NEW w \in Workers, NEW m \in Mints, NewPool(w, m) \/ ScanAdopts(w, m)
  PROVE  Plain(w)
<1> USE DEF Plain, Moves, SlotSteps, CountedSteps, WatchSteps
<1>1. CASE NewPool(w, m)
  BY <1>1, BeginMoves DEF NewPool, registers
<1>2. CASE ScanAdopts(w, m)
  <2>1. job'[w].from = "scan"
    BY <1>2 DEF ScanAdopts, Become, Task, TypeOK
  <2>2. QED BY <1>2, <2>1, BeginMoves DEF ScanAdopts
<1>3. QED BY <1>1, <1>2

LEMMA StepKinds ==
  ASSUME TypeOK, [Next]_vars
  PROVE  \/ UNCHANGED <<job, slot>>
         \/ Crash
         \/ \E w \in Workers : TakeSlot(w) \/ LimitAfterSlot(w) \/ ConfirmBuy(w) \/ Plain(w)
<1>1. ASSUME NEW w \in Workers, TaskStep(w) \/ BuyLands(w)
      PROVE  TakeSlot(w) \/ LimitAfterSlot(w) \/ ConfirmBuy(w) \/ Plain(w)
  BY <1>1, TaskIsPlain
<1>2. ASSUME NEW w \in Workers, NEW m \in Mints, NewPool(w, m) \/ ScanAdopts(w, m)
      PROVE  Plain(w)
  BY <1>2, BeginIsPlain
<1>3. OperatorActs \/ GuardLooks \/ GuardTrips \/ GuardLifts \/ GuardPasses \/ SellWatch \/ DumpWatch
        => UNCHANGED <<job, slot>>
  BY DEF OperatorActs, GuardLooks, GuardTrips, GuardLifts, GuardPasses, SellWatch, DumpWatch, registers
<1>4. \A m \in Mints : ScanSkips(m) \/ DumpSells(m) \/ StrayLands(m) => UNCHANGED <<job, slot>>
  BY DEF ScanSkips, DumpSells, StrayLands, registers
<1>5. \A w \in Workers : SellLands(w) => UNCHANGED <<job, slot>>
  BY DEF SellLands, registers
<1>6. UNCHANGED vars => UNCHANGED <<job, slot>>
  BY DEF vars, registers
<1>7. QED BY <1>1, <1>2, <1>3, <1>4, <1>5, <1>6 DEF Next, Environment

(* What the three other steps do.                                          *)
LEMMA TakeSlotStep ==
  ASSUME TypeOK, NEW w \in Workers, TakeSlot(w)
  PROVE  /\ Differ(job, job', w)
         /\ job'[w].pc \in {"idle", "slotted"}
         /\ OneAtATime => slot' = IF slot = Nobody THEN w ELSE slot
         /\ OneAtATime /\ job'[w].pc = "slotted" => slot = Nobody
<1>1. job[w] \in Busy
  BY TaskIsBusy DEF TaskStep
<1>2. Moves(w, {"vetted"}, {"idle", "slotted"})
  BY <1>1, BuyMoves
<1>3. OneAtATime /\ slot # Nobody => job'[w].pc = "idle"
  BY DEF TakeSlot, Become, TypeOK, Idle, Task
<1>4. QED BY <1>2, <1>3 DEF TakeSlot, Moves

LEMMA LimitAfterSlotStep ==
  ASSUME TypeOK, NEW w \in Workers, LimitAfterSlot(w)
  PROVE  /\ Differ(job, job', w)
         /\ job[w].pc = "slotted"
         /\ \/ job'[w].pc = "idle" /\ ReleaseSlot(w)
            \/ job'[w].pc = "buying" /\ slot' = slot /\ (MaxOpen > 0 => openPositions < MaxOpen)
<1>1. job[w] \in Busy
  BY TaskIsBusy DEF TaskStep
<1>2. Moves(w, {"slotted"}, {"idle", "buying"})
  BY <1>1, BuyMoves
<1>3. CASE MaxOpen > 0 /\ openPositions >= MaxOpen
  BY <1>2, <1>3 DEF LimitAfterSlot, Become, TypeOK, Idle, Task, Moves
<1>4. CASE ~(MaxOpen > 0 /\ openPositions >= MaxOpen)
  <2>1. job'[w].pc = "buying" /\ slot' = slot
    BY <1>1, <1>4, GoToMoves DEF LimitAfterSlot, Moves, Steps, BuySteps
  <2>2. MaxOpen > 0 => openPositions < MaxOpen
    BY <1>4, SniperAssumption DEF TypeOK
  <2>3. QED BY <1>2, <2>1, <2>2 DEF Moves
<1>5. QED BY <1>3, <1>4

LEMMA ConfirmBuyStep ==
  ASSUME TypeOK, NEW w \in Workers, ConfirmBuy(w)
  PROVE  /\ Differ(job, job', w)
         /\ job[w].pc = "buying" /\ job'[w].pc = "counting" /\ slot' = slot
<1>1. job[w] \in Busy
  BY TaskIsBusy DEF TaskStep
<1>2. QED BY <1>1, BuyMoves DEF ConfirmBuy, Moves

-----------------------------------------------------------------------------
LEMMA SlotStep ==
  ASSUME TypeOK, SlotIsHeld, [Next]_vars
  PROVE  SlotIsHeld'
<1> SUFFICES ASSUME OneAtATime, NEW v \in Workers, job'[v].pc \in SlotSteps
             PROVE  slot' = v
  BY DEF SlotIsHeld
<1>1. CASE UNCHANGED <<job, slot>>
  BY <1>1 DEF SlotIsHeld
<1>2. CASE Crash
  BY <1>2 DEF Crash, Idle, Task, SlotSteps
<1>3. ASSUME NEW w \in Workers, Plain(w)
      PROVE  slot' = v
  BY <1>3 DEF Plain, Differ, ReleaseSlot, SlotIsHeld
<1>4. ASSUME NEW w \in Workers, TakeSlot(w)
      PROVE  slot' = v
  BY <1>4, TakeSlotStep, SniperAssumption DEF Differ, SlotIsHeld, SlotSteps
<1>5. ASSUME NEW w \in Workers, LimitAfterSlot(w)
      PROVE  slot' = v
  BY <1>5, LimitAfterSlotStep DEF Differ, SlotIsHeld, SlotSteps, ReleaseSlot
<1>6. ASSUME NEW w \in Workers, ConfirmBuy(w)
      PROVE  slot' = v
  BY <1>6, ConfirmBuyStep DEF Differ, SlotIsHeld, SlotSteps
<1>7. QED BY <1>1, <1>2, <1>3, <1>4, <1>5, <1>6, StepKinds

LEMMA BuysStep ==
  ASSUME TypeOK, [Next]_vars, \A w \in Workers : ~ConfirmBuy(w)
  PROVE  Cardinality(CountedBuys(job')) <= Cardinality(CountedBuys(job))
<1> USE DEF CountedSteps, WatchSteps
<1>1. CASE UNCHANGED <<job, slot>>
  BY <1>1, CountedFinite
<1>2. CASE Crash
  <2>1. CountedBuys(job') = {}
    BY <1>2 DEF Crash, Idle, Task, CountedBuys, Counted
  <2>2. QED BY <2>1, CountedFinite, FS_EmptySet
<1>3. ASSUME NEW w \in Workers, Plain(w)
      PROVE  Cardinality(CountedBuys(job')) <= Cardinality(CountedBuys(job))
  BY <1>3, BuysStay DEF Plain
<1>4. ASSUME NEW w \in Workers, TakeSlot(w)
      PROVE  Cardinality(CountedBuys(job')) <= Cardinality(CountedBuys(job))
  BY <1>4, TakeSlotStep, BuysStay
<1>5. ASSUME NEW w \in Workers, LimitAfterSlot(w)
      PROVE  Cardinality(CountedBuys(job')) <= Cardinality(CountedBuys(job))
  BY <1>5, LimitAfterSlotStep, BuysStay
<1>6. QED BY <1>1, <1>2, <1>3, <1>4, <1>5, StepKinds

(* Of two tasks that buy, neither can confirm: there are no two.           *)
LEMMA RoomStep ==
  ASSUME CounterBalanced, SlotIsHeld, RoomForOne, [Next]_vars
  PROVE  RoomForOne'
<1> SUFFICES ASSUME OneAtATime, MaxOpen > 0, NEW v \in Workers, job'[v].pc = "buying"
             PROVE  Cardinality(CountedBuys(job')) < MaxOpen
  BY DEF RoomForOne
<1>1. TypeOK
  BY DEF CounterBalanced
<1>2. \A w \in Workers : ~ConfirmBuy(w)
  <2> SUFFICES ASSUME NEW w \in Workers, ConfirmBuy(w) PROVE FALSE
    OBVIOUS
  <2>1. w # v /\ job[v].pc = "buying" /\ job[w].pc = "buying"
    BY <1>1, ConfirmBuyStep DEF Differ
  <2>2. QED BY <2>1 DEF SlotIsHeld, SlotSteps
<1>3. Cardinality(CountedBuys(job')) <= Cardinality(CountedBuys(job))
  BY <1>1, <1>2, BuysStep
<1>4. CASE job[v].pc = "buying"
  <2>1. Cardinality(CountedBuys(job)) < MaxOpen
    BY <1>4 DEF RoomForOne
  <2>2. QED BY <1>3, <2>1, CountedFinite, SniperAssumption
<1>5. CASE job[v].pc # "buying"
  <2>1. LimitAfterSlot(v)
    <3>1. ~UNCHANGED <<job, slot>> /\ ~Crash
      BY <1>5 DEF Crash, Idle, Task
    <3>2. \A w \in Workers : ~Plain(w) /\ (TakeSlot(w) \/ LimitAfterSlot(w) => w = v)
      BY <1>1, <1>5, TakeSlotStep, LimitAfterSlotStep DEF Plain, Differ
    <3>3. ~TakeSlot(v)
      BY <1>1, TakeSlotStep
    <3>4. QED BY <1>1, <1>2, <3>1, <3>2, <3>3, StepKinds
  <2>2. openPositions < MaxOpen
    BY <1>1, <2>1, LimitAfterSlotStep
  <2>3. Cardinality(CountedBuys(job)) <= openPositions
    BY CountedFinite DEF CounterBalanced
  <2>4. QED BY <1>3, <2>2, <2>3, CountedFinite, SniperAssumption DEF CounterBalanced, TypeOK
<1>6. QED BY <1>4, <1>5

LEMMA WithinLimitStep ==
  ASSUME CounterBalanced, RoomForOne, BuysWithinLimit, [Next]_vars
  PROVE  BuysWithinLimit'
<1> SUFFICES ASSUME OneAtATime, MaxOpen > 0
             PROVE  Cardinality(CountedBuys(job')) <= MaxOpen
  BY DEF BuysWithinLimit
<1>1. TypeOK /\ MaxOpen \in Nat
  BY SniperAssumption DEF CounterBalanced
<1>2. ASSUME NEW w \in Workers, ConfirmBuy(w)
      PROVE  Cardinality(CountedBuys(job')) <= MaxOpen
  <2>1. Cardinality(CountedBuys(job)) < MaxOpen
    BY <1>1, <1>2, ConfirmBuyStep DEF RoomForOne
  <2>2. Cardinality(CountedBuys(job')) <= Cardinality(CountedBuys(job)) + 1
    BY <1>1, <1>2, ConfirmBuyStep, BuysJoin
  <2>3. QED BY <1>1, <2>1, <2>2, CountedFinite
<1>3. CASE \A w \in Workers : ~ConfirmBuy(w)
  <2>1. Cardinality(CountedBuys(job')) <= Cardinality(CountedBuys(job))
    BY <1>1, <1>3, BuysStep
  <2>2. QED BY <1>1, <2>1, CountedFinite DEF BuysWithinLimit
<1>4. QED BY <1>2, <1>3
-----------------------------------------------------------------------------
(* The buy limit's file: a task that could lift it stays one that can,     *)
(* until it lifts it or leaves behind another.                             *)
Closers == CountedSteps \cup {"lastOut", "clearing"}

LEMMA KeepsClosing ==
  ASSUME TypeOK, NEW w \in Workers, TaskStep(w) \/ BuyLands(w), ~Leave(w), sellFile' = "buy_limit"
  PROVE  /\ Differ(job, job', w)
         /\ job[w].pc \in Closers => job'[w].pc \in Closers
         /\ sellFile = "buy_limit" \/ job'[w].pc \in Closers
<1>1. job[w] \in Busy
  BY TaskIsBusy
<1> USE DEF Moves, Closers, CountedSteps, WatchSteps, controls
<1>2. CASE PoolRejected(w)
  BY <1>1, <1>2, BuyMoves DEF PoolRejected
<1>3. CASE TakeSlot(w)
  BY <1>1, <1>3, BuyMoves DEF TakeSlot
<1>4. CASE LimitAfterSlot(w)
  BY <1>1, <1>4, BuyMoves DEF LimitAfterSlot
<1>5. CASE SendBuy(w)
  BY <1>1, <1>5, BuyMoves DEF SendBuy
<1>6. CASE BuyUnanswered(w)
  BY <1>1, <1>6, BuyMoves DEF BuyUnanswered
<1>7. CASE BuyLands(w)
  BY <1>1, <1>7, BuyMoves DEF BuyLands
<1>8. CASE BuyFails(w)
  BY <1>1, <1>8, BuyMoves DEF BuyFails
<1>9. CASE ConfirmBuy(w)
  BY <1>1, <1>9, BuyMoves DEF ConfirmBuy
<1>10. CASE CountBuy(w)
  BY <1>1, <1>10, BuyMoves DEF CountBuy
<1>11. CASE WriteLimitFile(w)
  BY <1>1, <1>11, BuyMoves DEF WriteLimitFile
<1>12. CASE SpawnMonitor(w)
  BY <1>1, <1>12, BuyMoves DEF SpawnMonitor
<1>13. CASE StartMonitor(w)
  BY <1>1, <1>13, MonitorMoves DEF StartMonitor
<1>14. CASE LookAtModes(w)
  BY <1>1, <1>14, MonitorMoves DEF LookAtModes
<1>15. CASE Check(w)
  BY <1>1, <1>15, MonitorMoves DEF Check
<1>16. CASE EndSale(w)
  BY <1>1, <1>16, MonitorMoves DEF EndSale
<1>17. CASE ReadReason(w)
  <2>1. sellFile = "buy_limit" /\ GoTo(w, "clearing")
    BY <1>17 DEF ReadReason, LimitFiles
  <2>2. Moves(w, {job[w].pc}, {"clearing"})
    BY <1>1, <2>1, GoToMoves DEF Steps, EndSteps
  <2>3. QED BY <2>1, <2>2
<1>18. CASE LiftSellMode(w)
  BY <1>18 DEF LiftSellMode
<1>19. CASE Deregister(w)
  BY <1>1, <1>19, MonitorMoves DEF Deregister
<1>20. QED
  BY <1>2, <1>3, <1>4, <1>5, <1>6, <1>7, <1>8, <1>9, <1>10, <1>11, <1>12, <1>13, <1>14, <1>15,
     <1>16, <1>17, <1>18, <1>19 DEF TaskStep

LEMMA LeaveKeepsCloser ==
  ASSUME CounterBalanced, NEW w \in Workers, Leave(w)
  PROVE  \E u \in Workers : job'[u].pc \in Closers
<1>1. TypeOK /\ openPositions = Cardinality(Counted(job)) /\ job[w] \in Busy
  BY TaskIsBusy DEF CounterBalanced, TaskStep
<1>2. CASE openPositions = 1
  <2>1. Moves(w, {job[w].pc}, {"lastOut"})
    BY <1>1, <1>2, GoToMoves DEF Leave, Steps, EndSteps
  <2>2. QED BY <2>1 DEF Moves, Closers
<1>3. CASE openPositions # 1
  <2>1. w \in Counted(job)
    BY DEF Leave, At, Counted, CountedSteps
  <2>2. PICK u \in Counted(job) : u # w
    <3>1. Counted(job) # {w}
      BY <1>1, <1>3, FS_Singleton
    <3>2. QED BY <2>1, <3>1
  <2>3. u \in Workers /\ job[u].pc \in CountedSteps
    BY <2>2 DEF Counted
  <2>4. job'[u] = job[u]
    BY <1>1, <2>2, <2>3, MonitorMoves DEF Moves, Differ
  <2>5. QED BY <2>3, <2>4 DEF Closers
<1>4. QED BY <1>2, <1>3

LEMMA BeginKeepsClosing ==
  ASSUME TypeOK, NEW w \in Workers, NEW m \in Mints, NewPool(w, m) \/ ScanAdopts(w, m)
  PROVE  Differ(job, job', w) /\ job[w].pc \notin Closers /\ UNCHANGED sellFile
BY BeginMoves DEF Moves, Closers, CountedSteps, WatchSteps, NewPool, ScanAdopts, controls

LEMMA CloserStep ==
  ASSUME CounterBalanced, BuyLimitHasACloser, [Next]_vars
  PROVE  BuyLimitHasACloser'
<1> SUFFICES ASSUME sellFile' = "buy_limit"
             PROVE  \E w \in Workers : job'[w].pc \in Closers
  BY DEF BuyLimitHasACloser, Closers
<1>1. TypeOK /\ (sellFile = "buy_limit" => \E v \in Workers : job[v].pc \in Closers)
  BY DEF CounterBalanced, BuyLimitHasACloser, Closers
<1>2. CASE UNCHANGED <<job, sellFile>>
  BY <1>1, <1>2
<1>3. ASSUME NEW w \in Workers, Leave(w)
      PROVE  \E u \in Workers : job'[u].pc \in Closers
  BY <1>3, LeaveKeepsCloser
<1>4. ASSUME NEW w \in Workers, TaskStep(w) \/ BuyLands(w), ~Leave(w)
      PROVE  \E u \in Workers : job'[u].pc \in Closers
  <2>1. /\ Differ(job, job', w)
        /\ job[w].pc \in Closers => job'[w].pc \in Closers
        /\ sellFile = "buy_limit" \/ job'[w].pc \in Closers
    BY <1>1, <1>4, KeepsClosing
  <2>2. QED BY <1>1, <2>1 DEF Differ
<1>5. ASSUME NEW w \in Workers, NEW m \in Mints, NewPool(w, m) \/ ScanAdopts(w, m)
      PROVE  \E u \in Workers : job'[u].pc \in Closers
  BY <1>1, <1>5, BeginKeepsClosing DEF Differ
<1>6. Crash \/ OperatorActs => UNCHANGED <<job, sellFile>>
  BY <1>1 DEF Crash, OperatorActs, Operate, SellOn, Resume, Dump, DumpOff, registers
<1>7. GuardLooks \/ GuardTrips \/ GuardLifts \/ GuardPasses \/ SellWatch \/ DumpWatch
        => UNCHANGED <<job, sellFile>>
  BY DEF GuardLooks, GuardTrips, GuardLifts, GuardPasses, SellWatch, DumpWatch, controls
<1>8. \A m \in Mints : ScanSkips(m) \/ DumpSells(m) \/ StrayLands(m) => UNCHANGED <<job, sellFile>>
  BY DEF ScanSkips, DumpSells, StrayLands, controls
<1>9. \A w \in Workers : SellLands(w) => UNCHANGED <<job, sellFile>>
  BY DEF SellLands, controls
<1>10. UNCHANGED vars => UNCHANGED <<job, sellFile>>
  BY DEF vars, controls
<1>11. QED
  BY <1>2, <1>3, <1>4, <1>5, <1>6, <1>7, <1>8, <1>9, <1>10 DEF Next, Environment

-----------------------------------------------------------------------------
LEMMA IInvHolds == Spec => []IInv
<1>1. Init => IInv
  BY InitIInv
<1>2. IInv /\ [Next]_vars => IInv'
  <2> SUFFICES ASSUME IInv, [Next]_vars PROVE IInv'
    OBVIOUS
  <2>1. TypeOK /\ CounterBalanced /\ SlotIsHeld /\ RoomForOne /\ BuysWithinLimit /\ BuyLimitHasACloser
    BY DEF IInv, CounterBalanced
  <2>2. CounterBalanced' /\ SlotIsHeld' /\ RoomForOne' /\ BuysWithinLimit' /\ BuyLimitHasACloser'
    BY <2>1, CounterStep, SlotStep, RoomStep, WithinLimitStep, CloserStep
  <2>3. QED BY <2>2 DEF IInv
<1>3. QED BY <1>1, <1>2, PTL DEF Spec

(* open_positions equals the number of positions still to be given back,   *)
(* for any number of tasks below the wrap: a monitor's fetch_sub never     *)
(* meets a zero, and the exit that reads 1 is the last one out.            *)
THEOREM CounterBalancedHolds == Spec => []CounterBalanced
<1>1. IInv => CounterBalanced
  BY DEF IInv
<1>2. QED BY <1>1, IInvHolds, PTL

(* max_concurrent_positions bounds the positions that buys opened, when    *)
(* they buy one at a time: the slot, and the limit read under it, make up  *)
(* for the limit read long before.                                         *)
THEOREM BuysWithinLimitHolds == Spec => []BuysWithinLimit
<1>1. IInv => BuysWithinLimit
  BY DEF IInv
<1>2. QED BY <1>1, IInvHolds, PTL

(* Whatever operators, the drawdown guard and restarts do, a buy-limit     *)
(* file of this process has a task that will find it at its end.           *)
THEOREM BuyLimitHasACloserHolds == Spec => []BuyLimitHasACloser
<1>1. IInv => BuyLimitHasACloser
  BY DEF IInv
<1>2. QED BY <1>1, IInvHolds, PTL
=============================================================================
