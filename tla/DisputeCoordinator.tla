-------------------------- MODULE DisputeCoordinator --------------------------
(***************************************************************************)
(* scemadex-sdk's DisputeCoordinator: a SettlementMachine and a            *)
(* CounterMarket behind one interface, each with locks of its own.  A      *)
(* coordinator call is a series of locked steps, so calls of different     *)
(* threads interleave between them; `calls` holds where each thread is.    *)
(* A step that meets an Err ends its call and undoes nothing.              *)
(***************************************************************************)
EXTENDS SettlementMachine, CounterMarket

CONSTANTS
  Threads, Challengers,
  Stakes,          \* stakes callers post, 0 among them
  Pool,            \* distribute(bond.amount).challengers, the same for each bond
  FreshDigests,    \* TRUE when every digest is opened at most once
  MaxChallenges    \* bound: no challenge call begins after this many

ASSUME CoordinatorAssumption ==
  /\ Stakes \subseteq Nat
  /\ {Pool, MaxChallenges} \subseteq Nat
  /\ IsFiniteSet(Digests) /\ IsFiniteSet(Challengers)
  /\ FreshDigests \in BOOLEAN

VARIABLES
  calls,       \* thread -> the next step of its call
  opened,      \* digests whose open() has returned: callers know these
  scars,       \* digests mint_scar certified
  begun,       \* challenge calls begun so far
  posted,      \* history: challenger -> total staked
  repaid,      \* history: challenger -> total settlements award it
  premiums,    \* history: total settlements award agents
  poolOut      \* history: digest -> slashed collateral settlements award

machineVars == <<bonds, clock>>
marketVars == <<book, stats>>
moneyVars == <<posted, repaid, premiums, poolOut>>
vars == <<bonds, clock, book, stats, calls, opened, scars, begun, moneyVars>>

Idle == [at |-> "idle"]

Init ==
  /\ MachineInit
  /\ MarketInit
  /\ clock = 0
  /\ calls = [t \in Threads |-> Idle]
  /\ opened = {}
  /\ scars = {}
  /\ begun = 0
  /\ posted = [c \in Challengers |-> 0]
  /\ repaid = [c \in Challengers |-> 0]
  /\ premiums = 0
  /\ poolOut = [d \in Digests |-> 0]

At(t, step) == calls[t].at = step

Goto(t, call) == calls' = [calls EXCEPT ![t] = call]

Tick ==
  /\ clock < MaxTime
  /\ clock' = clock + 1
  /\ UNCHANGED <<bonds, marketVars, calls, opened, scars, begun, moneyVars>>

-----------------------------------------------------------------------------
(* open: machine.open, then counter.list with the challengers' slice.      *)
OpenMachine(t, d, dl) ==
  /\ At(t, "idle")
  /\ FreshDigests => bonds[d] = Absent
  /\ Open(d, dl)
  /\ Goto(t, [at |-> "list", digest |-> d])
  /\ UNCHANGED <<clock, marketVars, opened, scars, begun, moneyVars>>

OpenList(t) ==
  /\ At(t, "list")
  /\ List(calls[t].digest, Pool)
  /\ opened' = opened \cup {calls[t].digest}
  /\ Goto(t, Idle)
  /\ UNCHANGED <<machineVars, stats, scars, begun, moneyVars>>

ProvisionFill(t, d, o) ==
  /\ At(t, "idle") /\ d \in opened
  /\ Provision(d, o, clock)
  /\ UNCHANGED <<clock, marketVars, calls, opened, scars, begun, moneyVars>>

-----------------------------------------------------------------------------
(* challenge: read the state, file if Provisional, then stake.  What the   *)
(* state was is not looked at again.                                       *)
ChallengeReadsState(t, d, who, stake) ==
  /\ At(t, "idle") /\ d \in opened
  /\ begun < MaxChallenges
  /\ bonds[d].tag \in {"Provisional", "Disputed"}
  /\ begun' = begun + 1
  /\ Goto(t, [at |-> IF bonds[d].tag = "Provisional" THEN "file" ELSE "stake",
              digest |-> d, who |-> who, stake |-> stake])
  /\ UNCHANGED <<machineVars, marketVars, opened, scars, moneyVars>>

ChallengeFiles(t) ==
  LET c == calls[t] IN
  /\ At(t, "file")
  /\ FileChallenge(c.digest, clock)
  /\ Goto(t, [c EXCEPT !.at = "stake"])
  /\ UNCHANGED <<clock, marketVars, opened, scars, begun, moneyVars>>

ChallengeStakes(t) ==
  LET c == calls[t] IN
  /\ At(t, "stake")
  /\ Stake(c.digest, c.who, c.stake)
  /\ posted' = [posted EXCEPT ![c.who] = @ + c.stake]
  /\ Goto(t, Idle)
  /\ UNCHANGED <<machineVars, stats, opened, scars, begun, repaid, premiums, poolOut>>

ChallengeRefused(t) ==
  LET c == calls[t] IN
  /\ \/ At(t, "file") /\ ~CanFileChallenge(c.digest, clock)
     \/ At(t, "stake") /\ ~CanStake(c.digest, c.stake)
  /\ Goto(t, Idle)
  /\ UNCHANGED <<machineVars, marketVars, opened, scars, begun, moneyVars>>

-----------------------------------------------------------------------------
(* The calls that decide bonds change the machine first and then report    *)
(* each decided bond; `rest` holds the ones still to report.               *)
Report(rest) ==
  IF rest = {} THEN {Idle}
  ELSE {[at |-> "settle", digest |-> r[1], outcome |-> r[2], rest |-> rest \ {r}] : r \in rest}

(* Mutation: the resolution does not reach the counter-market.             *)
ResolveCall_NoReport(t, d, adjudicated) ==
  /\ At(t, "idle") /\ d \in opened
  /\ ResolveDispute(d, adjudicated = "Slashed")
  /\ UNCHANGED <<clock, marketVars, calls, opened, scars, begun, moneyVars>>

ResolveCall(t, d, adjudicated) ==
  /\ At(t, "idle") /\ d \in opened
  /\ ResolveDispute(d, adjudicated = "Slashed")
  /\ \E c \in Report({<<d, adjudicated>>}) : Goto(t, c)
  /\ UNCHANGED <<clock, marketVars, opened, scars, begun, moneyVars>>

FinalizeUnchallenged(t, d) ==
  /\ At(t, "idle") /\ d \in opened
  /\ Finalize(d, clock)
  /\ \E c \in Report({<<d, bonds'[d].outcome>>}) : Goto(t, c)
  /\ UNCHANGED <<clock, marketVars, opened, scars, begun, moneyVars>>

ResolveViaOracle(t, d, o) ==
  /\ At(t, "idle") /\ d \in opened
  /\ ResolveWithProof(d, o)
  /\ \E c \in Report({<<d, o>>}) : Goto(t, c)
  /\ UNCHANGED <<clock, marketVars, opened, scars, begun, moneyVars>>

SweepCall(t) ==
  /\ At(t, "idle")
  /\ SweptBy(clock) # {}
  /\ Sweep(clock)
  /\ \E c \in Report({<<d, bonds'[d].outcome>> : d \in SweptBy(clock)}) : Goto(t, c)
  /\ UNCHANGED <<clock, marketVars, opened, scars, begun, moneyVars>>

(* report, first half: counter.settle(..).ok() takes the listing out of    *)
(* the book, or finds none; the awards it computes are the settlement.     *)
ReportSettles(t) ==
  LET c == calls[t]
      l == book[c.digest]
      s == Settle(l, c.outcome) IN
  /\ At(t, "settle") /\ IsListed(c.digest)
  /\ Unlist(c.digest)
  /\ repaid' = [who \in Challengers |->
                  LET won == {i \in DOMAIN s.payouts : l.stakes[i].who = who} IN
                  repaid[who] + SumOf([i \in won |-> s.payouts[i]])]
  /\ premiums' = premiums + s.premium
  /\ poolOut' = [poolOut EXCEPT ![c.digest] =
                   @ + (IF c.outcome = "Slashed" THEN PaidOut(s) - TotalStake(l) ELSE 0)]
  /\ Goto(t, [at |-> IF l.stakes = <<>> THEN "read" ELSE "count",
              digest |-> c.digest, outcome |-> c.outcome, rest |-> c.rest,
              settlement |-> s])
  /\ UNCHANGED <<machineVars, stats, opened, scars, begun, posted>>

ReportFindsNoListing(t) ==
  /\ At(t, "settle") /\ ~IsListed(calls[t].digest)
  /\ Goto(t, [calls[t] EXCEPT !.at = "read"])
  /\ UNCHANGED <<machineVars, marketVars, opened, scars, begun, moneyVars>>

ReportCounts(t) ==
  LET c == calls[t] IN
  /\ At(t, "count")
  /\ CountSettlement(c.outcome, c.settlement)
  /\ Goto(t, [c EXCEPT !.at = "read"])
  /\ UNCHANGED <<machineVars, book, opened, scars, begun, moneyVars>>

(* Mutation: a sweep reports only the first bond it decided.               *)
ReportReads_FirstOnly(t) ==
  /\ At(t, "read")
  /\ Goto(t, Idle)
  /\ UNCHANGED <<machineVars, marketVars, opened, scars, begun, moneyVars>>

(* report, second half: the slash split and the reason are read back from  *)
(* the machine; a bond that is not final ends the whole call in Err.       *)
ReportReads(t) ==
  LET c == calls[t] IN
  /\ At(t, "read")
  /\ \E n \in Report(IF IsFinal(c.digest) THEN c.rest ELSE {}) : Goto(t, n)
  /\ UNCHANGED <<machineVars, marketVars, opened, scars, begun, moneyVars>>

(* mint_scar asks that the bond is final and Slashed, whatever the reason. *)
CanMintScar(d) == IsFinal(d) /\ bonds[d].outcome = "Slashed"

MintScar(t, d) ==
  /\ At(t, "idle")
  /\ CanMintScar(d)
  /\ scars' = scars \cup {d}
  /\ UNCHANGED <<machineVars, marketVars, calls, opened, begun, moneyVars>>

-----------------------------------------------------------------------------
(* The steps that end a call already begun.                                *)
Continue(t) ==
  \/ OpenList(t)
  \/ ChallengeFiles(t)
  \/ ChallengeStakes(t)
  \/ ChallengeRefused(t)
  \/ ReportSettles(t)
  \/ ReportFindsNoListing(t)
  \/ ReportCounts(t)
  \/ ReportReads(t)

Next ==
  \/ Tick
  \/ \E t \in Threads :
       \/ Continue(t)
       \/ SweepCall(t)
       \/ \E d \in Digests :
            \/ \E dl \in Deadlines : OpenMachine(t, d, dl)
            \/ \E o \in Outcomes :
                 ProvisionFill(t, d, o) \/ ResolveCall(t, d, o) \/ ResolveViaOracle(t, d, o)
            \/ \E who \in Challengers, s \in Stakes : ChallengeReadsState(t, d, who, s)
            \/ FinalizeUnchallenged(t, d)
            \/ MintScar(t, d)

(* A thread that has begun a call runs it to its end; nobody must begin.   *)
Spec == Init /\ [][Next]_vars

FairSpec == Spec /\ \A t \in Threads : WF_vars(Continue(t))

-----------------------------------------------------------------------------
CallTypes ==
  {Idle}
    \cup [at : {"list"}, digest : Digests]
    \cup [at : {"file", "stake"}, digest : Digests, who : Challengers, stake : Stakes]

TypeOK ==
  /\ MachineTypeOK
  /\ clock \in 0 .. MaxTime
  /\ DOMAIN book \subseteq Digests
  /\ \A d \in DOMAIN book :
       book[d].stakes \in Seq([who : Challengers, stake : Stakes \ {0}])
  /\ \A t \in Threads :
       calls[t].at \in {"settle", "count", "read"}
         \/ calls[t] \in CallTypes
  /\ opened \subseteq Digests /\ scars \subseteq Digests
  /\ begun \in 0 .. MaxChallenges
  /\ posted \in [Challengers -> Nat] /\ repaid \in [Challengers -> Nat]
  /\ premiums \in Nat
  /\ poolOut \in [Digests -> {0, Pool}]

(* No stake is lost or made: everything challengers posted is still in the *)
(* book or was awarded, to challengers (beyond the slashed collateral they *)
(* win with it) or to agents, however the calls interleave.                *)
StakesConserved ==
  /\ TypeOK
  /\ SumOf(posted) + SumOf(poolOut)
    = SumOf([d \in DOMAIN book |-> TotalStake(book[d])]) + SumOf(repaid) + premiums

(* The market settles on the machine's verdict: slashed collateral is      *)
(* awarded to challengers only for a bond the machine slashed, and then    *)
(* the challengers' slice exactly and once.                                *)
PoolFollowsSlash ==
  \A d \in Digests :
    poolOut[d] > 0 => IsFinal(d) /\ bonds[d].outcome = "Slashed" /\ poolOut[d] = Pool

Reporting(t, d) ==
  \/ At(t, "settle") /\ calls[t].digest = d
  \/ calls[t].at \in {"settle", "count", "read"} /\ \E r \in calls[t].rest : r[1] = d

(* counter.rs, open_listings: the listed bonds are the ones "open to       *)
(* challenge".  A decided bond stays listed only while a call is on its way *)
(* to settle it.  A bond that missed its deadline may be decided by a sweep *)
(* before open() has listed it; no stakes are stranded on it even so.      *)
DecidedLeavesBook ==
  \A d \in DOMAIN book :
    IsFinal(d) /\ (bonds[d].reason # "DeadlineMissed" \/ book[d].stakes # <<>>)
      => \E t \in Threads : Reporting(t, d)

(* ... and that call does: once a bond is final its stakes are awarded.    *)
StakesAreAwarded ==
  \A d \in Digests :
    (IsFinal(d) /\ IsListed(d) /\ book[d].stakes # <<>>) ~> ~IsListed(d)

(* A doubter who was right never loses: when a listing is settled on a     *)
(* slash, every challenger is awarded its stake at least, and together     *)
(* they are awarded the stakes and the whole pool.  Division and           *)
(* saturation only ever cost a challenger: nobody but the last gets more   *)
(* of the pool than its stake weighs.                                      *)
DoubtersAreMadeWhole ==
  [][\A t \in Threads :
       At(t, "settle") /\ At(t, "count")' /\ calls[t].outcome = "Slashed"
       => LET l == book[calls[t].digest]
              pay == calls'[t].settlement.payouts IN
          /\ \A i \in DOMAIN l.stakes :
               /\ pay[i] >= l.stakes[i].stake
               /\ i < Len(l.stakes) =>
                    TotalStake(l) * (pay[i] - l.stakes[i].stake) <= Pool * l.stakes[i].stake
          /\ SumOf(pay) = TotalStake(l) + Pool]_vars
=============================================================================
