-------------------------- MODULE SettlementMachine --------------------------
(***************************************************************************)
(* The map of open bonds inside scemadex-sdk's SettlementMachine, and its  *)
(* methods.  A method holds the one mutex from its first read of the map   *)
(* to its return, so each is a single action on `bonds`; the wall-clock    *)
(* value it compares with is a parameter, because the code reads the clock *)
(* BEFORE it takes the lock.  The modules that extend this one decide when *)
(* that value was read.                                                    *)
(*                                                                         *)
(* A method that returns Err leaves the map as it was: for each such       *)
(* method, Can... is the condition under which it returns Ok.              *)
(***************************************************************************)
EXTENDS Integers, FiniteSets

CONSTANTS
  Digests,    \* the intent digests callers may bond
  Window,     \* SettlementConfig.dispute_window_secs
  Deadlines,  \* Bond.deadline_unix values callers use; 0 means none
  MaxTime     \* bound: the clock stops here

ASSUME MachineAssumption ==
  /\ Deadlines \subseteq Nat
  /\ {Window, MaxTime} \subseteq Nat

VARIABLES
  bonds,    \* digest -> entry; Absent where the map has no key
  clock     \* Clock::unix_now

Outcomes == {"Honored", "Slashed"}

Reasons == {"WindowElapsed", "DeadlineMissed", "ChallengeUpheld",
            "ChallengeRejected", "ProofVerified"}

(* The variants of BondState, as constructors of an entry.  The deadline   *)
(* belongs to the bond and survives every transition; 0 means none.        *)
Absent == [tag |-> "Absent", deadline |-> 0]

Escrowed(dl) == [tag |-> "Escrowed", deadline |-> dl]

Provisional(dl, o, w) ==
  [tag |-> "Provisional", deadline |-> dl, outcome |-> o, closes |-> w]

Disputed(dl, o) == [tag |-> "Disputed", deadline |-> dl, outcome |-> o]

Finalized(dl, o, r) ==
  [tag |-> "Finalized", deadline |-> dl, outcome |-> o, reason |-> r]

Entries ==
  {Absent}
    \cup [tag : {"Escrowed"}, deadline : Nat]
    \cup [tag : {"Provisional"}, deadline : Nat, outcome : Outcomes, closes : Nat]
    \cup [tag : {"Disputed"}, deadline : Nat, outcome : Outcomes]
    \cup [tag : {"Finalized"}, deadline : Nat, outcome : Outcomes, reason : Reasons]

MachineTypeOK == bonds \in [Digests -> Entries]

MachineInit == bonds = [d \in Digests |-> Absent]

IsFinal(d) == bonds[d].tag = "Finalized"

-----------------------------------------------------------------------------
(* open inserts: whatever the map held under this digest is replaced.      *)
Open(d, dl) == bonds' = [bonds EXCEPT ![d] = Escrowed(dl)]

CanProvision(d) == bonds[d].tag = "Escrowed"

(* A zero window finalizes in the same call; the deadline is not looked at *)
Provision(d, o, now) ==
  /\ CanProvision(d)
  /\ bonds' = [bonds EXCEPT ![d] =
                 IF Window = 0 THEN Finalized(@.deadline, o, "WindowElapsed")
                               ELSE Provisional(@.deadline, o, now + Window)]

CanFileChallenge(d, now) ==
  /\ bonds[d].tag = "Provisional"
  /\ now < bonds[d].closes
  /\ bonds[d].outcome = "Honored"

FileChallenge(d, now) ==
  /\ CanFileChallenge(d, now)
  /\ bonds' = [bonds EXCEPT ![d] = Disputed(@.deadline, @.outcome)]

CanResolveDispute(d) == bonds[d].tag = "Disputed"

ResolveDispute(d, challengerWon) ==
  /\ CanResolveDispute(d)
  /\ bonds' = [bonds EXCEPT ![d] =
                 IF challengerWon THEN Finalized(@.deadline, "Slashed", "ChallengeUpheld")
                                  ELSE Finalized(@.deadline, "Honored", "ChallengeRejected")]

(* Mutation: a proof may overturn a final bond.                            *)
CanResolveWithProof_EvenFinal(d) ==
  bonds[d].tag \in {"Provisional", "Disputed", "Finalized"}

CanResolveWithProof(d) == bonds[d].tag \in {"Provisional", "Disputed"}

ResolveWithProof(d, o) ==
  /\ CanResolveWithProof(d)
  /\ bonds' = [bonds EXCEPT ![d] = Finalized(@.deadline, o, "ProofVerified")]

(* Mutations: no deadline is taken for one long past; deadlines are not    *)
(* looked at.                                                              *)
Matured_ZeroDeadline(d, now) ==
  \/ bonds[d].tag = "Provisional" /\ now >= bonds[d].closes
  \/ bonds[d].tag = "Escrowed" /\ now >= bonds[d].deadline

Matured_IgnoresDeadline(d, now) ==
  bonds[d].tag = "Provisional" /\ now >= bonds[d].closes

(* What finalize and sweep both ask of an entry before they settle it.     *)
Matured(d, now) ==
  \/ bonds[d].tag = "Provisional" /\ now >= bonds[d].closes
  \/ bonds[d].tag = "Escrowed" /\ bonds[d].deadline # 0 /\ now >= bonds[d].deadline

MaturedEntry(e) ==
  IF e.tag = "Provisional" THEN Finalized(e.deadline, e.outcome, "WindowElapsed")
                           ELSE Finalized(e.deadline, "Slashed", "DeadlineMissed")

(* finalize answers Ok for a bond that is already final, and changes       *)
(* nothing then.                                                           *)
CanFinalize(d, now) == IsFinal(d) \/ Matured(d, now)

Finalize(d, now) ==
  /\ CanFinalize(d, now)
  /\ bonds' = IF IsFinal(d) THEN bonds
                            ELSE [bonds EXCEPT ![d] = MaturedEntry(@)]

SweptBy(now) == {d \in Digests : Matured(d, now)}

Sweep(now) ==
  bonds' = [d \in Digests |-> IF Matured(d, now) THEN MaturedEntry(bonds[d])
                                                 ELSE bonds[d]]
=============================================================================
