-------------------------- MODULE OptimisticSettler --------------------------
(***************************************************************************)
(* scemadex-settle's OptimisticUsdcSettler: a SettlementMachine and the    *)
(* transfers that pay a slashed bond out, one per non-zero share, each     *)
(* awaited before the next.  Several tasks share the settler.  A transfer  *)
(* whose submission reports an error ends its call with the legs before it *)
(* paid; the transfer itself may have landed all the same.  A call that is *)
(* dropped at its await is such an error.  (Settlement.tla is where a call *)
(* reads the clock before it locks; here each call does both at once.)     *)
(***************************************************************************)
EXTENDS SettlementMachine, SlashRouting, Sequences

CONSTANTS
  Tasks,
  Amount,        \* the collateral of a bond
  Routing,       \* SettlementConfig.slash_routing
  MaxCalls,      \* bound: finalize_and_settle calls that reach a digest
  MaxFaults      \* bound: transfers that report an error

ASSUME SettlerAssumption ==
  /\ Amount \in Amounts
  /\ Routing \in Routings
  /\ {MaxCalls, MaxFaults} \subseteq Nat
  /\ IsFiniteSet(Tasks)

VARIABLES
  tasks,           \* task -> where its call is
  paid,            \* digest -> share -> micro-USDC landed on chain for it
  lastTransfers,   \* the transfers of the most recent settlement that returned Ok
  faults,          \* transfers that reported an error so far
  attempts,        \* history: digest -> settlements begun for it
  settled          \* history: digest -> settlements that returned Ok

settlerVars == <<bonds, clock, tasks, paid, lastTransfers, faults, attempts, settled>>

NoCall == [at |-> "idle"]

(* The legs of settle_split, in its order; a zero share has none.          *)
Leg(s) == IF Distribute(Amount, Routing)[s] = 0 THEN <<>> ELSE <<s>>

Legs == Leg("caller") \o Leg("challengers") \o Leg("insurance") \o Leg("lineage")

Split == [i \in DOMAIN Legs |-> [leg |-> Legs[i], amount |-> Distribute(Amount, Routing)[Legs[i]]]]

SettlerInit ==
  /\ MachineInit
  /\ clock = 0
  /\ tasks = [t \in Tasks |-> NoCall]
  /\ paid = [d \in Digests |-> [s \in Shares |-> 0]]
  /\ lastTransfers = <<>>
  /\ faults = 0
  /\ attempts = [d \in Digests |-> 0]
  /\ settled = [d \in Digests |-> 0]

SettlerTick ==
  /\ clock < MaxTime
  /\ clock' = clock + 1
  /\ UNCHANGED <<bonds, tasks, paid, lastTransfers, faults, attempts, settled>>

-----------------------------------------------------------------------------
(* open, provision, and the machine's own methods through machine().       *)
OnMachine(A) ==
  /\ A
  /\ UNCHANGED <<clock, tasks, paid, lastTransfers, faults, attempts, settled>>

OpenBond(d, dl) == bonds[d] = Absent /\ OnMachine(Open(d, dl))

FillBond(d, o) == OnMachine(Provision(d, o, clock))

Challenge(d) == OnMachine(FileChallenge(d, clock))

Resolve(d, won) == OnMachine(ResolveDispute(d, won))

ResolveByProof(d, o) == OnMachine(ResolveWithProof(d, o))

-----------------------------------------------------------------------------
(* The next thing a call does with the bonds it still has to disburse.     *)
Disbursing(rest) ==
  IF rest = {} THEN {NoCall}
  ELSE {[at |-> "disburse", digest |-> d, leg |-> 1, rest |-> rest \ {d}] : d \in rest}

MovesOn(t, where) == \E w \in where : tasks' = [tasks EXCEPT ![t] = w]

FinalizeAndSettle(t, d) ==
  /\ tasks[t] = NoCall
  /\ attempts[d] < MaxCalls
  /\ Finalize(d, clock)
  /\ MovesOn(t, Disbursing({d}))
  /\ attempts' = [attempts EXCEPT ![d] = @ + 1]
  /\ UNCHANGED <<clock, paid, lastTransfers, faults, settled>>

SweepAndSettle(t) ==
  /\ tasks[t] = NoCall
  /\ SweptBy(clock) # {}
  /\ Sweep(clock)
  /\ MovesOn(t, Disbursing(SweptBy(clock)))
  /\ attempts' = [d \in Digests |-> IF d \in SweptBy(clock) THEN attempts[d] + 1 ELSE attempts[d]]
  /\ UNCHANGED <<clock, paid, lastTransfers, faults, settled>>

Disburses(t, outcome) ==
  tasks[t].at = "disburse" /\ bonds[tasks[t].digest].outcome = outcome

Returns(t, transfers) ==
  /\ lastTransfers' = transfers
  /\ settled' = [settled EXCEPT ![tasks[t].digest] = @ + 1]
  /\ MovesOn(t, Disbursing(tasks[t].rest))
  /\ UNCHANGED <<bonds, clock, paid, faults, attempts>>

MovesNothing(t) == Disburses(t, "Honored")

DisburseHonored(t) == MovesNothing(t) /\ Returns(t, <<>>)

Lands(t) ==
  LET c == tasks[t] IN
  paid' = [paid EXCEPT ![c.digest][Split[c.leg].leg] = @ + Split[c.leg].amount]

(* Mutation: the loop does not move on to the next leg.                    *)
TransferConfirmed_Repeats(t) ==
  /\ tasks[t].at = "disburse" /\ ~MovesNothing(t)
  /\ tasks[t].leg <= Len(Split)
  /\ Lands(t)
  /\ UNCHANGED <<bonds, clock, tasks, lastTransfers, faults, attempts, settled>>

TransferConfirmed(t) ==
  /\ tasks[t].at = "disburse" /\ ~MovesNothing(t)
  /\ tasks[t].leg <= Len(Split)
  /\ Lands(t)
  /\ tasks' = [tasks EXCEPT ![t].leg = @ + 1]
  /\ UNCHANGED <<bonds, clock, lastTransfers, faults, attempts, settled>>

(* Mutation: a transfer that failed is passed over for the next leg.       *)
TransferFails_PassedOver(t) ==
  /\ tasks[t].at = "disburse" /\ ~MovesNothing(t)
  /\ tasks[t].leg <= Len(Split)
  /\ faults < MaxFaults
  /\ faults' = faults + 1
  /\ tasks' = [tasks EXCEPT ![t].leg = @ + 1]
  /\ UNCHANGED <<bonds, clock, paid, lastTransfers, attempts, settled>>

(* The error ends the call: `?` in settle_split, disburse and, with the    *)
(* bonds it had still to settle, in sweep_and_settle.                      *)
TransferFails(t) ==
  /\ tasks[t].at = "disburse" /\ ~MovesNothing(t)
  /\ tasks[t].leg <= Len(Split)
  /\ faults < MaxFaults
  /\ faults' = faults + 1
  /\ Lands(t) \/ UNCHANGED paid
  /\ tasks' = [tasks EXCEPT ![t] = NoCall]
  /\ UNCHANGED <<bonds, clock, lastTransfers, attempts, settled>>

(* Mutation: a sweep disburses one bond and returns.                       *)
DisburseSlashed_OnlyFirst(t) ==
  /\ tasks[t].at = "disburse" /\ ~MovesNothing(t)
  /\ tasks[t].leg > Len(Split)
  /\ lastTransfers' = Split
  /\ settled' = [settled EXCEPT ![tasks[t].digest] = @ + 1]
  /\ tasks' = [tasks EXCEPT ![t] = NoCall]
  /\ UNCHANGED <<bonds, clock, paid, faults, attempts>>

DisburseSlashed(t) ==
  /\ tasks[t].at = "disburse" /\ ~MovesNothing(t)
  /\ tasks[t].leg > Len(Split)
  /\ Returns(t, Split)

-----------------------------------------------------------------------------
Proceed(t) ==
  \/ DisburseHonored(t)
  \/ TransferConfirmed(t)
  \/ DisburseSlashed(t)

SettlerNext ==
  \/ SettlerTick
  \/ \E d \in Digests :
       \/ \E dl \in Deadlines : OpenBond(d, dl)
       \/ \E o \in Outcomes : FillBond(d, o) \/ ResolveByProof(d, o)
       \/ Challenge(d)
       \/ \E won \in BOOLEAN : Resolve(d, won)
  \/ \E t \in Tasks :
       \/ Proceed(t)
       \/ TransferFails(t)
       \/ SweepAndSettle(t)
       \/ \E d \in Digests : FinalizeAndSettle(t, d)

SettlerSpec == SettlerInit /\ [][SettlerNext]_settlerVars

(* Time passes, some task sweeps on a tick, and a call that awaits a       *)
(* transfer is polled until the RPC answers.                               *)
SettlerFairSpec ==
  /\ SettlerSpec
  /\ WF_settlerVars(SettlerTick)
  /\ WF_settlerVars(\E t \in Tasks : SweepAndSettle(t))
  /\ \A t \in Tasks : WF_settlerVars(Proceed(t))

-----------------------------------------------------------------------------
Places ==
  {NoCall} \cup [at : {"disburse"}, digest : Digests, leg : 1 .. Len(Split) + 1, rest : SUBSET Digests]

SettlerTypeOK ==
  /\ MachineTypeOK
  /\ clock \in 0 .. MaxTime
  /\ tasks \in [Tasks -> Places]
  /\ paid \in [Digests -> [Shares -> Nat]]
  /\ lastTransfers \in {<<>>, Split}
  /\ faults \in 0 .. MaxFaults
  /\ attempts \in [Digests -> Nat] /\ settled \in [Digests -> Nat]

(* What a settlement reports it has done: for every call that returned Ok  *)
(* for a slashed bond, each of the four shares landed in full.             *)
OkMeansPaid ==
  \A d \in Digests, i \in DOMAIN Split :
    IsFinal(d) /\ bonds[d].outcome = "Slashed"
      => paid[d][Split[i].leg] >= settled[d] * Split[i].amount

(* BondState: "Only `Finalized` moves money", and of the final bonds only  *)
(* the slashed ones.  One settlement pays a share at most once: however    *)
(* calls, errors and sweeps mix, a share is never paid more often than     *)
(* settlements began.                                                      *)
PaidPerAttempt ==
  /\ SettlerTypeOK
  /\ \A d \in Digests, i \in DOMAIN Split :
       LET paidOut == paid[d][Split[i].leg] IN
       /\ paidOut > 0 => IsFinal(d) /\ bonds[d].outcome = "Slashed"
       /\ paidOut <= attempts[d] * Split[i].amount

(* "Finalize every matured, undisputed bond and settle each on-chain": a   *)
(* bond that matured slashed is paid in full in the end, unless a transfer *)
(* reported an error on the way.                                           *)
SweptIsPaid ==
  \A d \in Digests :
    (attempts[d] > 0 /\ bonds[d].outcome = "Slashed")
      ~> (faults > 0 \/ \A i \in DOMAIN Split : paid[d][Split[i].leg] >= Split[i].amount)
=============================================================================
