------------------------------ MODULE Settlement ------------------------------
(***************************************************************************)
(* scemadex-sdk's SettlementMachine as its callers meet it: threads that   *)
(* share one machine, a driver thread that sweeps on a tick, and a clock   *)
(* that each time-based method reads before it waits for the mutex.        *)
(***************************************************************************)
EXTENDS SettlementMachine

CONSTANTS
  Threads,        \* callers of provision, file_challenge and finalize
  Driver,         \* the thread of the loop that calls sweep on a tick
  FreshDigests    \* TRUE when every digest is opened at most once

ASSUME SettlementAssumption ==
  /\ Driver \notin Threads
  /\ FreshDigests \in BOOLEAN

VARIABLES
  pending,    \* per thread, the call that has read the clock and waits to lock
  fills,      \* history: the fill recorded for the digest's current bond
  contested   \* history: digests whose current bond has been Disputed

vars == <<bonds, clock, pending, fills, contested>>

Idle == [op |-> "idle"]

Calls ==
  {Idle}
    \cup [op : {"provision"}, digest : Digests, outcome : Outcomes, now : Nat]
    \cup [op : {"file_challenge", "finalize"}, digest : Digests, now : Nat]
    \cup [op : {"sweep"}, now : Nat]

NoFill == [outcome |-> "none"]

Fills == {NoFill} \cup [outcome : Outcomes, at : Nat]

TypeOK ==
  /\ MachineTypeOK
  /\ clock \in Nat
  /\ pending \in [Threads \cup {Driver} -> Calls]
  /\ fills \in [Digests -> Fills]
  /\ contested \subseteq Digests

Init ==
  /\ MachineInit
  /\ clock = 0
  /\ pending = [t \in Threads \cup {Driver} |-> Idle]
  /\ fills = [d \in Digests |-> NoFill]
  /\ contested = {}

-----------------------------------------------------------------------------
Tick ==
  /\ clock < MaxTime
  /\ clock' = clock + 1
  /\ UNCHANGED <<bonds, pending, fills, contested>>

(* The first line of every time-based method: now = self.clock.unix_now(). *)
ReadClock(t, call) ==
  /\ pending[t] = Idle
  /\ pending' = [pending EXCEPT ![t] = call]
  /\ UNCHANGED <<bonds, clock, fills, contested>>

CallProvision(t, d, o) ==
  ReadClock(t, [op |-> "provision", digest |-> d, outcome |-> o, now |-> clock])

CallFileChallenge(t, d) ==
  ReadClock(t, [op |-> "file_challenge", digest |-> d, now |-> clock])

CallFinalize(t, d) ==
  ReadClock(t, [op |-> "finalize", digest |-> d, now |-> clock])

CallSweep == ReadClock(Driver, [op |-> "sweep", now |-> clock])

Done(t) == pending' = [pending EXCEPT ![t] = Idle]

ProvisionLocked(t) ==
  LET c == pending[t] IN
  /\ c.op = "provision"
  /\ Provision(c.digest, c.outcome, c.now)
  /\ Done(t)
  /\ fills' = [fills EXCEPT ![c.digest] = [outcome |-> c.outcome, at |-> c.now]]
  /\ UNCHANGED <<clock, contested>>

FileChallengeLocked(t) ==
  LET c == pending[t] IN
  /\ c.op = "file_challenge"
  /\ FileChallenge(c.digest, c.now)
  /\ Done(t)
  /\ contested' = contested \cup {c.digest}
  /\ UNCHANGED <<clock, fills>>

FinalizeLocked(t) ==
  LET c == pending[t] IN
  /\ c.op = "finalize"
  /\ Finalize(c.digest, c.now)
  /\ Done(t)
  /\ UNCHANGED <<clock, fills, contested>>

SweepLocked ==
  LET c == pending[Driver] IN
  /\ c.op = "sweep"
  /\ Sweep(c.now)
  /\ Done(Driver)
  /\ UNCHANGED <<clock, fills, contested>>

(* The Err returns: the map is as it was and the caller may call again.    *)
Refused(t) ==
  LET c == pending[t] IN
  /\ \/ c.op = "provision" /\ ~CanProvision(c.digest)
     \/ c.op = "file_challenge" /\ ~CanFileChallenge(c.digest, c.now)
     \/ c.op = "finalize" /\ ~CanFinalize(c.digest, c.now)
  /\ Done(t)
  /\ UNCHANGED <<bonds, clock, fills, contested>>

(* open, resolve_dispute and resolve_with_proof read no clock.             *)
OpenBond(d, dl) ==
  /\ FreshDigests => bonds[d] = Absent
  /\ Open(d, dl)
  /\ fills' = [fills EXCEPT ![d] = NoFill]
  /\ contested' = contested \ {d}
  /\ UNCHANGED <<clock, pending>>

Resolve(d, challengerWon) ==
  /\ ResolveDispute(d, challengerWon)
  /\ UNCHANGED <<clock, pending, fills, contested>>

ResolveByProof(d, o) ==
  /\ ResolveWithProof(d, o)
  /\ UNCHANGED <<clock, pending, fills, contested>>

-----------------------------------------------------------------------------
Next ==
  \/ Tick
  \/ \E d \in Digests :
       \/ \E dl \in Deadlines : OpenBond(d, dl)
       \/ \E won \in BOOLEAN : Resolve(d, won)
       \/ \E o \in Outcomes : ResolveByProof(d, o)
  \/ \E t \in Threads :
       \/ \E d \in Digests :
            \/ \E o \in Outcomes : CallProvision(t, d, o)
            \/ CallFileChallenge(t, d)
            \/ CallFinalize(t, d)
       \/ ProvisionLocked(t)
       \/ FileChallengeLocked(t)
       \/ FinalizeLocked(t)
       \/ Refused(t)
  \/ CallSweep
  \/ SweepLocked

(* Only time and the driver loop are fair: no caller is obliged to call.   *)
Fairness == WF_vars(Tick) /\ WF_vars(CallSweep) /\ WF_vars(SweepLocked)

Spec == Init /\ [][Next]_vars

FairSpec == Spec /\ Fairness

-----------------------------------------------------------------------------
(* The reason and outcome a bond carries when it is final are the ones its *)
(* own history justifies: FinalizeReason is "the audit trail behind a      *)
(* settlement".  A window is said to have elapsed only after Window        *)
(* seconds from the fill, with no challenge, and then the fill's outcome   *)
(* stands; a deadline is missed only by a bond that was never filled and   *)
(* whose deadline is past; a challenge is upheld or rejected only if one   *)
(* was filed against an honored fill; a proof decides only a filled bond.  *)
Justified(d) ==
  LET e == bonds[d]
      f == fills[d] IN
  /\ e.reason = "WindowElapsed" =>
       f # NoFill /\ d \notin contested /\ e.outcome = f.outcome /\ clock >= f.at + Window
  /\ e.reason = "DeadlineMissed" =>
       f = NoFill /\ e.outcome = "Slashed" /\ e.deadline # 0 /\ clock >= e.deadline
  /\ e.reason = "ChallengeUpheld" =>
       d \in contested /\ f.outcome = "Honored" /\ e.outcome = "Slashed"
  /\ e.reason = "ChallengeRejected" =>
       d \in contested /\ f.outcome = "Honored" /\ e.outcome = "Honored"
  /\ e.reason = "ProofVerified" => f # NoFill

AuditTrail == \A d \in Digests : IsFinal(d) => Justified(d)

(* A filed challenge is answered, never timed out: once contested, a bond  *)
(* is final only by the dispute's resolution or by a proof, even when a    *)
(* sweep or a finalize read the clock before the challenge was filed and   *)
(* takes the lock after it.                                                *)
ChallengeIsAnswered ==
  \A d \in contested :
    \/ bonds[d].tag = "Disputed"
    \/ IsFinal(d) /\ bonds[d].reason \in {"ChallengeUpheld", "ChallengeRejected",
                                          "ProofVerified"}

(* BondState::Finalized is "Terminal": no later call of any thread, with   *)
(* whatever clock value it read, changes a final bond.                     *)
FinalizedIsTerminal ==
  [][\A d \in Digests : IsFinal(d) => bonds'[d] = bonds[d]]_vars

(* Every bond with a clock running on it comes to rest, provided the       *)
(* driver keeps sweeping: a filled bond leaves Provisional once its window *)
(* has passed, and an unfilled bond with a deadline leaves Escrowed.       *)
MaturityReached ==
  \A d \in Digests :
    /\ (bonds[d].tag = "Provisional" /\ bonds[d].closes <= MaxTime)
         ~> bonds[d].tag \in {"Disputed", "Finalized"}
    /\ (bonds[d].tag = "Escrowed" /\ bonds[d].deadline \in 1 .. MaxTime)
         ~> bonds[d].tag # "Escrowed"

-----------------------------------------------------------------------------
(* The abstract promise, with each entry read as its phase.                *)
PhaseOf(e) ==
  IF e.tag = "Absent" THEN "free"
  ELSE IF e.tag = "Escrowed" THEN "held"
  ELSE IF e.tag = "Provisional" THEN "claimed"
  ELSE IF e.tag = "Disputed" THEN "contested"
  ELSE IF e.outcome = "Honored" THEN "honored" ELSE "slashed"

Phase == [d \in Digests |-> PhaseOf(bonds[d])]

Promise == INSTANCE BondPromise WITH Bonds <- Digests, phase <- Phase

(* With fresh digests the machine keeps the promise of a conviction bond:  *)
(* decided once, contested only after a claim, a decision never undone.    *)
KeepsPromise == Promise!Spec
=============================================================================
