--------------------------- MODULE SettlementProofs ---------------------------
(***************************************************************************)
(* TLAPS proofs about Settlement, for any digests, threads, deadlines,     *)
(* window and clock bound.                                                 *)
(***************************************************************************)
EXTENDS Settlement, TLAPS

(* A pending call read the clock no later than now.                        *)
ReadsArePast ==
  \A t \in Threads \cup {Driver} : pending[t] # Idle => pending[t].now <= clock

(* What an undecided entry remembers of its own history.                   *)
Remembers(d) ==
  LET e == bonds[d] IN
  /\ e.tag \in {"Absent", "Escrowed"} => fills[d] = NoFill /\ d \notin contested
  /\ e.tag = "Provisional" =>
       /\ fills[d] # NoFill
       /\ fills[d].outcome = e.outcome
       /\ e.closes = fills[d].at + Window
       /\ d \notin contested
  /\ e.tag = "Disputed" =>
       d \in contested /\ fills[d] # NoFill /\ fills[d].outcome = "Honored"

(* A contested bond is final for a reason a challenge can have.            *)
Answered(d) == d \in contested /\ IsFinal(d) =>
  bonds[d].reason \in {"ChallengeUpheld", "ChallengeRejected", "ProofVerified"}

Fact(d) == Remembers(d) /\ Answered(d) /\ (IsFinal(d) => Justified(d))

IInv == TypeOK /\ ReadsArePast /\ \A d \in Digests : Fact(d)

-----------------------------------------------------------------------------
(* Only these entries exist, and each has the fields of its own variant.   *)
LEMMA EntryCases ==
  ASSUME NEW e \in Entries
  PROVE  \/ e.tag = "Absent" /\ e = Absent
         \/ e.tag = "Escrowed" /\ e.deadline \in Nat
         \/ e.tag = "Provisional" /\ e.deadline \in Nat /\ e.outcome \in Outcomes /\ e.closes \in Nat
         \/ e.tag = "Disputed" /\ e.deadline \in Nat /\ e.outcome \in Outcomes
         \/ e.tag = "Finalized" /\ e.deadline \in Nat /\ e.outcome \in Outcomes /\ e.reason \in Reasons
  BY DEF Entries, Absent

(* A pending call has the arguments of its method.                         *)
LEMMA CallCases ==
  ASSUME NEW c \in Calls
  PROVE  \/ c.op = "idle" /\ c = Idle
         \/ c.op = "provision" /\ c # Idle /\ c.digest \in Digests /\ c.outcome \in Outcomes /\ c.now \in Nat
         \/ c.op = "file_challenge" /\ c # Idle /\ c.digest \in Digests /\ c.now \in Nat
         \/ c.op = "finalize" /\ c # Idle /\ c.digest \in Digests /\ c.now \in Nat
         \/ c.op = "sweep" /\ c # Idle /\ c.now \in Nat
  BY DEF Calls, Idle

(* A bond whose entry and history a step leaves alone keeps its facts,     *)
(* because time only goes on.                                              *)
LEMMA Frame ==
  ASSUME NEW d \in Digests, IInv,
         clock' \in Nat, clock' >= clock,
         bonds'[d] = bonds[d], fills'[d] = fills[d],
         d \in contested' <=> d \in contested
  PROVE  Fact(d)'
<1>1. bonds[d] \in Entries /\ fills[d] \in Fills /\ clock \in Nat /\ Window \in Nat
  BY MachineAssumption DEF IInv, TypeOK, MachineTypeOK
<1>2. Fact(d)
  BY DEF IInv
<1>3. Remembers(d)' /\ Answered(d)'
  BY <1>2 DEF Fact, Remembers, Answered, IsFinal
<1>4. ASSUME IsFinal(d) PROVE Justified(d)'
  <2>1. Justified(d)
    BY <1>2, <1>4 DEF Fact
  <2>2. bonds[d].reason \in Reasons /\ bonds[d].deadline \in Nat
    BY <1>1, <1>4, EntryCases DEF IsFinal
  <2>3. fills[d] # NoFill => fills[d].at \in Nat
    BY <1>1 DEF Fills
  <2>4. CASE bonds[d].reason = "WindowElapsed"
    BY <1>1, <2>1, <2>3, <2>4 DEF Justified
  <2>5. CASE bonds[d].reason = "DeadlineMissed"
    BY <1>1, <2>1, <2>2, <2>5 DEF Justified
  <2>6. CASE bonds[d].reason = "ChallengeUpheld"
    BY <2>1, <2>6 DEF Justified
  <2>7. CASE bonds[d].reason = "ChallengeRejected"
    BY <2>1, <2>7 DEF Justified
  <2>8. CASE bonds[d].reason = "ProofVerified"
    BY <2>1, <2>8 DEF Justified
  <2>9. QED BY <2>2, <2>4, <2>5, <2>6, <2>7, <2>8 DEF Reasons
<1>5. IsFinal(d)' => IsFinal(d)
  BY DEF IsFinal
<1>6. QED BY <1>3, <1>4, <1>5 DEF Fact

(* A bond that a finalize or a sweep finds matured is decided for a reason *)
(* its history justifies.                                                  *)
LEMMA MaturedFact ==
  ASSUME NEW d \in Digests, NEW now \in Nat, IInv, now <= clock, Matured(d, now),
         bonds'[d] = MaturedEntry(bonds[d]),
         UNCHANGED <<clock, fills, contested>>
  PROVE  Fact(d)' /\ bonds'[d] \in Entries
<1>1. bonds[d] \in Entries /\ fills[d] \in Fills /\ clock \in Nat /\ Window \in Nat
  BY MachineAssumption DEF IInv, TypeOK, MachineTypeOK
<1>2. Remembers(d)
  BY DEF IInv, Fact
<1>3. CASE bonds[d].tag = "Provisional"
  <2>1. /\ bonds'[d] = Finalized(bonds[d].deadline, bonds[d].outcome, "WindowElapsed")
        /\ now >= bonds[d].closes
    BY <1>3 DEF Matured, MaturedEntry
  <2>2. bonds[d].deadline \in Nat /\ bonds[d].outcome \in Outcomes /\ bonds[d].closes \in Nat
    BY <1>1, <1>3, EntryCases
  <2>3. /\ fills[d] # NoFill /\ fills[d].outcome = bonds[d].outcome
        /\ bonds[d].closes = fills[d].at + Window /\ d \notin contested
    BY <1>2, <1>3 DEF Remembers
  <2>4. clock >= fills[d].at + Window
    BY <1>1, <2>1, <2>2, <2>3
  <2>5. bonds'[d] \in Entries
    BY <2>1, <2>2 DEF Entries, Finalized, Reasons
  <2>6. Justified(d)'
    BY <2>1, <2>3, <2>4 DEF Justified, Finalized
  <2>7. QED BY <2>1, <2>3, <2>5, <2>6 DEF Fact, Remembers, Answered, IsFinal, Finalized
<1>4. CASE bonds[d].tag = "Escrowed"
  <2>1. /\ bonds'[d] = Finalized(bonds[d].deadline, "Slashed", "DeadlineMissed")
        /\ bonds[d].deadline # 0 /\ now >= bonds[d].deadline
    BY <1>4 DEF Matured, MaturedEntry
  <2>2. bonds[d].deadline \in Nat
    BY <1>1, <1>4, EntryCases
  <2>3. fills[d] = NoFill /\ d \notin contested
    BY <1>2, <1>4 DEF Remembers
  <2>4. clock >= bonds[d].deadline
    BY <1>1, <2>1, <2>2
  <2>5. bonds'[d] \in Entries
    BY <2>1, <2>2 DEF Entries, Finalized, Reasons, Outcomes
  <2>6. Justified(d)'
    BY <2>1, <2>3, <2>4 DEF Justified, Finalized
  <2>7. QED BY <2>1, <2>3, <2>5, <2>6 DEF Fact, Remembers, Answered, IsFinal, Finalized
<1>5. QED BY <1>3, <1>4 DEF Matured

LEMMA InitIInv == Init => IInv
<1> SUFFICES ASSUME Init PROVE IInv
  OBVIOUS
<1> USE DEF Init, MachineInit
<1>1. TypeOK
  BY DEF TypeOK, MachineTypeOK, Entries, Calls, Fills
<1>2. ReadsArePast
  BY DEF ReadsArePast
<1>3. \A d \in Digests : Fact(d)
  BY DEF Fact, Remembers, Answered, IsFinal, Absent
<1>4. QED BY <1>1, <1>2, <1>3 DEF IInv

-----------------------------------------------------------------------------
(* Reading the clock records a value that is not in the future.            *)
LEMMA ReadClockStep ==
  ASSUME IInv, NEW t \in Threads \cup {Driver}, NEW call \in Calls,
         call # Idle => call.now = clock,
         ReadClock(t, call)
  PROVE  IInv'
<1>1. TypeOK /\ ReadsArePast
  BY DEF IInv
<1>2. TypeOK'
  BY <1>1 DEF TypeOK, MachineTypeOK, ReadClock
<1>3. ReadsArePast'
  <2> SUFFICES ASSUME NEW u \in Threads \cup {Driver}, pending'[u] # Idle
               PROVE  pending'[u].now <= clock
    BY DEF ReadsArePast, ReadClock
  <2>1. pending' = [pending EXCEPT ![t] = call] /\ clock \in Nat
    BY <1>1 DEF ReadClock, TypeOK
  <2>2. CASE u = t
    BY <1>1, <2>1, <2>2 DEF TypeOK
  <2>3. CASE u # t
    BY <1>1, <2>1, <2>3 DEF TypeOK, ReadsArePast
  <2>4. QED BY <2>2, <2>3
<1>4. ASSUME NEW d \in Digests PROVE Fact(d)'
  <2>1. clock \in Nat
    BY <1>1 DEF TypeOK
  <2>2. QED BY <2>1, Frame DEF ReadClock
<1>5. QED BY <1>2, <1>3, <1>4 DEF IInv

(* A step that decides, fills, disputes or opens the one bond d, with its  *)
(* calls no later than the clock, keeps IInv when it gives d its facts.    *)
LEMMA OneBondStep ==
  ASSUME IInv, NEW d \in Digests, NEW e \in Entries,
         bonds' = [bonds EXCEPT ![d] = e],
         pending' \in [Threads \cup {Driver} -> Calls],
         \A t \in Threads \cup {Driver} : pending'[t] \in {pending[t], Idle},
         clock' = clock,
         fills' \in [Digests -> Fills],
         contested' \subseteq Digests,
         \A x \in Digests \ {d} :
           fills'[x] = fills[x] /\ (x \in contested' <=> x \in contested),
         Fact(d)'
  PROVE  IInv'
<1>1. TypeOK /\ ReadsArePast
  BY DEF IInv
<1>2. TypeOK'
  BY <1>1 DEF TypeOK, MachineTypeOK
<1>3. ReadsArePast'
  BY <1>1 DEF ReadsArePast
<1>4. ASSUME NEW x \in Digests PROVE Fact(x)'
  <2>1. CASE x = d
    BY <2>1
  <2>2. CASE x # d
    <3>1. /\ bonds'[x] = bonds[x] /\ fills'[x] = fills[x]
          /\ (x \in contested' <=> x \in contested)
      BY <1>1, <2>2 DEF TypeOK, MachineTypeOK
    <3>2. clock' \in Nat /\ clock' >= clock
      BY <1>1 DEF TypeOK
    <3>3. QED BY <3>1, <3>2, Frame
  <2>3. QED BY <2>1, <2>2
<1>5. QED BY <1>2, <1>3, <1>4 DEF IInv

(* Returning from a call leaves every other thread's call as it was.       *)
LEMMA DoneStep ==
  ASSUME TypeOK, NEW t \in Threads \cup {Driver}, Done(t)
  PROVE  /\ pending' \in [Threads \cup {Driver} -> Calls]
         /\ \A u \in Threads \cup {Driver} : pending'[u] \in {pending[u], Idle}
  BY DEF Done, TypeOK, Calls

-----------------------------------------------------------------------------
LEMMA ProvisionStep ==
  ASSUME IInv, NEW t \in Threads, ProvisionLocked(t),
         NEW c, c = pending[t], NEW d, d = c.digest, NEW e, e = bonds'[d]
  PROVE  IInv'
<1>1. TypeOK /\ ReadsArePast /\ c \in Calls /\ c.op = "provision"
  BY DEF IInv, TypeOK, ProvisionLocked
<1>2. d \in Digests /\ c.outcome \in Outcomes /\ c.now \in Nat /\ c.now <= clock
  BY <1>1, CallCases DEF ReadsArePast
<1>3. bonds[d] \in Entries /\ bonds[d].tag = "Escrowed" /\ Window \in Nat /\ clock \in Nat
  BY <1>1, <1>2, MachineAssumption DEF ProvisionLocked, Provision, CanProvision, TypeOK, MachineTypeOK
<1>4. bonds[d].deadline \in Nat /\ d \notin contested /\ c.now + Window \in Nat
  BY <1>2, <1>3, EntryCases DEF IInv, Fact, Remembers
<1>5. fills'[d] = [outcome |-> c.outcome, at |-> c.now] /\ contested' = contested /\ clock' = clock
  BY <1>1, <1>2 DEF ProvisionLocked, TypeOK
<1>6. fills'[d] # NoFill
  BY <1>2, <1>5 DEF Outcomes, NoFill
<1>7. ASSUME Window = 0 PROVE e \in Entries /\ Fact(d)'
  <2>1. e = Finalized(bonds[d].deadline, c.outcome, "WindowElapsed")
    BY <1>1, <1>2, <1>7 DEF ProvisionLocked, Provision, TypeOK, MachineTypeOK
  <2>2. e \in Entries
    BY <1>2, <1>4, <2>1 DEF Finalized, Entries, Reasons
  <2>3. Justified(d)'
    BY <1>2, <1>3, <1>4, <1>5, <1>6, <1>7, <2>1 DEF Justified, Finalized
  <2>4. Fact(d)'
    BY <1>4, <1>5, <2>1, <2>3 DEF Fact, Remembers, Answered, Finalized
  <2>5. QED BY <2>2, <2>4
<1>8. ASSUME Window # 0 PROVE e \in Entries /\ Fact(d)'
  <2>1. e = Provisional(bonds[d].deadline, c.outcome, c.now + Window)
    BY <1>1, <1>2, <1>8 DEF ProvisionLocked, Provision, TypeOK, MachineTypeOK
  <2>2. e \in Entries
    BY <1>2, <1>4, <2>1 DEF Provisional, Entries
  <2>3. Fact(d)'
    BY <1>4, <1>5, <1>6, <2>1 DEF Fact, Remembers, Answered, IsFinal, Provisional
  <2>4. QED BY <2>2, <2>3
<1>9. e \in Entries /\ Fact(d)'
  BY <1>7, <1>8
<1>10. bonds' = [bonds EXCEPT ![d] = e]
  BY <1>1, <1>2 DEF ProvisionLocked, Provision, TypeOK, MachineTypeOK
<1>11. fills' \in [Digests -> Fills] /\ \A x \in Digests \ {d} : fills'[x] = fills[x]
  BY <1>1, <1>2 DEF ProvisionLocked, TypeOK, Fills
<1>12. contested' \subseteq Digests
  BY <1>1, <1>5 DEF TypeOK
<1>13. QED
  BY <1>1, <1>2, <1>5, <1>9, <1>10, <1>11, <1>12, DoneStep, OneBondStep DEF ProvisionLocked

LEMMA FileChallengeStep ==
  ASSUME IInv, NEW t \in Threads, FileChallengeLocked(t),
         NEW c, c = pending[t], NEW d, d = c.digest, NEW e, e = bonds'[d]
  PROVE  IInv'
<1>1. TypeOK /\ c \in Calls /\ c.op = "file_challenge"
  BY DEF IInv, TypeOK, FileChallengeLocked
<1>2. d \in Digests
  BY <1>1, CallCases
<1>3. bonds[d] \in Entries /\ bonds[d].tag = "Provisional" /\ bonds[d].outcome = "Honored"
  BY <1>1, <1>2 DEF FileChallengeLocked, FileChallenge, CanFileChallenge, TypeOK, MachineTypeOK
<1>4. /\ bonds[d].deadline \in Nat
      /\ fills[d] # NoFill /\ fills[d].outcome = "Honored"
  BY <1>2, <1>3, EntryCases DEF IInv, Fact, Remembers
<1>5. e = Disputed(bonds[d].deadline, bonds[d].outcome) /\ bonds' = [bonds EXCEPT ![d] = e]
  BY <1>1, <1>2 DEF FileChallengeLocked, FileChallenge, TypeOK, MachineTypeOK
<1>6. e \in Entries
  BY <1>3, <1>4, <1>5 DEF Disputed, Entries, Outcomes
<1>7. clock' = clock /\ fills' = fills /\ contested' = contested \cup {d}
  BY DEF FileChallengeLocked
<1>8. Fact(d)'
  BY <1>4, <1>5, <1>7 DEF Fact, Remembers, Answered, IsFinal, Disputed
<1>9. fills' \in [Digests -> Fills] /\ contested' \subseteq Digests
  BY <1>1, <1>2, <1>7 DEF TypeOK
<1>10. QED
  BY <1>1, <1>2, <1>5, <1>6, <1>7, <1>8, <1>9, DoneStep, OneBondStep DEF FileChallengeLocked

LEMMA FinalizeStep ==
  ASSUME IInv, NEW t \in Threads, FinalizeLocked(t),
         NEW c, c = pending[t], NEW d, d = c.digest, NEW e, e = bonds'[d]
  PROVE  IInv'
<1>1. TypeOK /\ ReadsArePast /\ c \in Calls /\ c.op = "finalize"
  BY DEF IInv, TypeOK, FinalizeLocked
<1>2. d \in Digests /\ c.now \in Nat /\ c.now <= clock /\ clock \in Nat
  BY <1>1, CallCases DEF ReadsArePast, TypeOK
<1>3. UNCHANGED <<clock, fills, contested>>
  BY DEF FinalizeLocked
<1>4. e \in Entries /\ Fact(d)' /\ bonds' = [bonds EXCEPT ![d] = e]
  <2>1. CASE IsFinal(d)
    <3>1. bonds' = bonds
      BY <2>1 DEF FinalizeLocked, Finalize
    <3>2. Fact(d)'
      BY <1>2, <1>3, <3>1, Frame
    <3>3. QED BY <1>1, <1>2, <3>1, <3>2 DEF TypeOK, MachineTypeOK
  <2>2. CASE ~IsFinal(d)
    <3>1. Matured(d, c.now) /\ bonds' = [bonds EXCEPT ![d] = MaturedEntry(@)]
      BY <2>2 DEF FinalizeLocked, Finalize, CanFinalize
    <3>2. e = MaturedEntry(bonds[d]) /\ bonds' = [bonds EXCEPT ![d] = e]
      BY <1>1, <1>2, <3>1 DEF TypeOK, MachineTypeOK
    <3>3. Fact(d)' /\ bonds'[d] \in Entries
      BY <1>2, <1>3, <3>1, <3>2, MaturedFact
    <3>4. QED BY <3>2, <3>3
  <2>3. QED BY <2>1, <2>2
<1>6. fills' \in [Digests -> Fills] /\ contested' \subseteq Digests
  BY <1>1, <1>3 DEF TypeOK
<1>7. QED
  BY <1>1, <1>2, <1>3, <1>4, <1>6, DoneStep, OneBondStep DEF FinalizeLocked

LEMMA SweepStep ==
  ASSUME IInv, SweepLocked, NEW c, c = pending[Driver]
  PROVE  IInv'
<1>1. TypeOK /\ ReadsArePast /\ c \in Calls /\ c.op = "sweep"
  BY DEF IInv, TypeOK, SweepLocked
<1>2. c.now \in Nat /\ c.now <= clock /\ clock \in Nat
  BY <1>1, CallCases DEF ReadsArePast, TypeOK
<1>3. UNCHANGED <<clock, fills, contested>>
  BY DEF SweepLocked
<1>4. ASSUME NEW d \in Digests PROVE bonds'[d] \in Entries /\ Fact(d)'
  <2>1. CASE Matured(d, c.now)
    BY <1>2, <1>3, <2>1, MaturedFact DEF SweepLocked, Sweep
  <2>2. CASE ~Matured(d, c.now)
    <3>1. bonds'[d] = bonds[d] /\ bonds[d] \in Entries
      BY <1>1, <2>2 DEF SweepLocked, Sweep, TypeOK, MachineTypeOK
    <3>2. QED BY <1>2, <1>3, <3>1, Frame
  <2>3. QED BY <2>1, <2>2
<1>5. bonds' \in [Digests -> Entries]
  BY <1>4 DEF SweepLocked, Sweep
<1>6. /\ pending' \in [Threads \cup {Driver} -> Calls]
      /\ \A u \in Threads \cup {Driver} : pending'[u] \in {pending[u], Idle}
  BY <1>1, DoneStep DEF SweepLocked
<1>7. TypeOK'
  BY <1>1, <1>3, <1>5, <1>6 DEF TypeOK, MachineTypeOK
<1>8. ReadsArePast'
  BY <1>1, <1>3, <1>6 DEF ReadsArePast
<1>9. QED BY <1>4, <1>7, <1>8 DEF IInv

LEMMA OpenStep ==
  ASSUME IInv, NEW d \in Digests, NEW dl \in Deadlines, OpenBond(d, dl)
  PROVE  IInv'
<1>1. TypeOK /\ dl \in Nat
  BY MachineAssumption, SettlementAssumption DEF IInv
<1>2. bonds' = [bonds EXCEPT ![d] = Escrowed(dl)] /\ bonds'[d] = Escrowed(dl)
  BY <1>1 DEF OpenBond, Open, TypeOK, MachineTypeOK
<1>3. Escrowed(dl) \in Entries
  BY <1>1 DEF Escrowed, Entries
<1>4. /\ clock' = clock /\ pending' = pending /\ contested' = contested \ {d}
      /\ fills' = [fills EXCEPT ![d] = NoFill]
  BY DEF OpenBond
<1>5. /\ pending' \in [Threads \cup {Driver} -> Calls] /\ contested' \subseteq Digests
      /\ fills' \in [Digests -> Fills] /\ fills'[d] = NoFill
  BY <1>1, <1>4 DEF TypeOK, Fills
<1>6. \A x \in Digests \ {d} : fills'[x] = fills[x] /\ (x \in contested' <=> x \in contested)
  BY <1>1, <1>4 DEF TypeOK
<1>7. Fact(d)'
  BY <1>2, <1>4, <1>5 DEF Fact, Remembers, Answered, IsFinal, Escrowed
<1>8. QED BY <1>2, <1>3, <1>4, <1>5, <1>6, <1>7, OneBondStep

(* resolve_dispute and resolve_with_proof both end one filled bond.        *)
LEMMA ResolveStep ==
  ASSUME IInv, NEW d \in Digests,
         (\E won \in BOOLEAN : Resolve(d, won)) \/ (\E o \in Outcomes : ResolveByProof(d, o))
  PROVE  IInv'
<1>1. TypeOK /\ UNCHANGED <<clock, pending, fills, contested>>
  BY DEF IInv, Resolve, ResolveByProof
<1>2. bonds[d] \in Entries
  BY <1>1 DEF TypeOK, MachineTypeOK
<1>3. ASSUME NEW won \in BOOLEAN, Resolve(d, won)
      PROVE  \E e \in Entries : bonds' = [bonds EXCEPT ![d] = e] /\ Fact(d)'
  <2>1. bonds[d].tag = "Disputed"
    BY <1>3 DEF Resolve, ResolveDispute, CanResolveDispute
  <2>2. /\ bonds[d].deadline \in Nat /\ d \in contested
        /\ fills[d] # NoFill /\ fills[d].outcome = "Honored"
    BY <1>2, <2>1, EntryCases DEF IInv, Fact, Remembers
  <2>3. PICK e \in Entries :
          /\ bonds' = [bonds EXCEPT ![d] = e]
          /\ \/ e = Finalized(bonds[d].deadline, "Slashed", "ChallengeUpheld")
             \/ e = Finalized(bonds[d].deadline, "Honored", "ChallengeRejected")
    <3>1. /\ Finalized(bonds[d].deadline, "Slashed", "ChallengeUpheld") \in Entries
          /\ Finalized(bonds[d].deadline, "Honored", "ChallengeRejected") \in Entries
      BY <2>2 DEF Finalized, Entries, Reasons, Outcomes
    <3>2. QED BY <1>3, <3>1 DEF Resolve, ResolveDispute
  <2>4. bonds'[d] = e
    BY <1>1, <2>3 DEF TypeOK, MachineTypeOK
  <2>5. Fact(d)'
    BY <1>1, <2>2, <2>3, <2>4 DEF Fact, Remembers, Answered, IsFinal, Justified, Finalized
  <2>6. QED BY <2>3, <2>5
<1>4. ASSUME NEW o \in Outcomes, ResolveByProof(d, o)
      PROVE  \E e \in Entries : bonds' = [bonds EXCEPT ![d] = e] /\ Fact(d)'
  <2>1. bonds[d].tag \in {"Provisional", "Disputed"}
    BY <1>4 DEF ResolveByProof, ResolveWithProof, CanResolveWithProof
  <2>2. bonds[d].deadline \in Nat /\ fills[d] # NoFill
    BY <1>2, <2>1, EntryCases DEF IInv, Fact, Remembers
  <2>3. PICK e \in Entries :
          /\ bonds' = [bonds EXCEPT ![d] = e]
          /\ e = Finalized(bonds[d].deadline, o, "ProofVerified")
    <3>1. Finalized(bonds[d].deadline, o, "ProofVerified") \in Entries
      BY <2>2 DEF Finalized, Entries, Reasons
    <3>2. QED BY <1>4, <3>1 DEF ResolveByProof, ResolveWithProof
  <2>4. bonds'[d] = e
    BY <1>1, <2>3 DEF TypeOK, MachineTypeOK
  <2>5. Fact(d)'
    BY <1>1, <2>2, <2>3, <2>4 DEF Fact, Remembers, Answered, IsFinal, Justified, Finalized
  <2>6. QED BY <2>3, <2>5
<1>5. PICK e \in Entries : bonds' = [bonds EXCEPT ![d] = e] /\ Fact(d)'
  BY <1>3, <1>4
<1>6. QED BY <1>1, <1>5, OneBondStep DEF TypeOK

(* Time passing or nothing happening at all.                               *)
LEMMA TickStep ==
  ASSUME IInv, clock' \in Nat, clock' >= clock,
         UNCHANGED <<bonds, pending, fills, contested>>
  PROVE  IInv'
<1>1. TypeOK'
  BY DEF IInv, TypeOK, MachineTypeOK
<1>2. ReadsArePast'
  <2> SUFFICES ASSUME NEW t \in Threads \cup {Driver}, pending[t] # Idle
               PROVE  pending[t].now <= clock'
    BY DEF ReadsArePast
  <2>1. pending[t] \in Calls /\ pending[t].now <= clock /\ clock \in Nat
    BY DEF IInv, ReadsArePast, TypeOK
  <2>2. pending[t].now \in Nat
    BY <2>1, CallCases
  <2>3. QED BY <2>1, <2>2
<1>3. \A d \in Digests : Fact(d)'
  BY Frame
<1>4. QED BY <1>1, <1>2, <1>3 DEF IInv

LEMMA RefusedStep ==
  ASSUME IInv, NEW t \in Threads, Refused(t)
  PROVE  IInv'
<1>1. TypeOK /\ ReadsArePast /\ UNCHANGED <<bonds, clock, fills, contested>>
  BY DEF IInv, Refused
<1>2. /\ pending' \in [Threads \cup {Driver} -> Calls]
      /\ \A u \in Threads \cup {Driver} : pending'[u] \in {pending[u], Idle}
  BY <1>1, DoneStep DEF Refused
<1>3. TypeOK' /\ ReadsArePast'
  BY <1>1, <1>2 DEF TypeOK, MachineTypeOK, ReadsArePast
<1>4. \A d \in Digests : Fact(d)'
  <2>1. clock \in Nat
    BY <1>1 DEF TypeOK
  <2>2. QED BY <1>1, <2>1, Frame
<1>5. QED BY <1>3, <1>4 DEF IInv

(* A thread's call that has read the clock is one of Calls.                *)
LEMMA CallStep ==
  ASSUME IInv,
         \/ \E t \in Threads, d \in Digests :
              \/ \E o \in Outcomes : CallProvision(t, d, o)
              \/ CallFileChallenge(t, d)
              \/ CallFinalize(t, d)
         \/ CallSweep
  PROVE  IInv'
<1>1. clock \in Nat
  BY DEF IInv, TypeOK
<1>2. PICK t \in Threads \cup {Driver}, call \in Calls :
        ReadClock(t, call) /\ (call # Idle => call.now = clock)
  <2>1. ASSUME NEW t \in Threads, NEW d \in Digests, NEW o \in Outcomes, CallProvision(t, d, o)
        PROVE  \E call \in Calls : ReadClock(t, call) /\ (call # Idle => call.now = clock)
    BY <1>1, <2>1 DEF CallProvision, Calls
  <2>2. ASSUME NEW t \in Threads, NEW d \in Digests, CallFileChallenge(t, d) \/ CallFinalize(t, d)
        PROVE  \E call \in Calls : ReadClock(t, call) /\ (call # Idle => call.now = clock)
    BY <1>1, <2>2 DEF CallFileChallenge, CallFinalize, Calls
  <2>3. ASSUME CallSweep
        PROVE  \E call \in Calls : ReadClock(Driver, call) /\ (call # Idle => call.now = clock)
    BY <1>1, <2>3 DEF CallSweep, Calls
  <2>4. QED BY <2>1, <2>2, <2>3
<1>3. QED BY <1>2, ReadClockStep

LEMMA NextIInv == IInv /\ [Next]_vars => IInv'
<1> SUFFICES ASSUME IInv, [Next]_vars PROVE IInv'
  OBVIOUS
<1>1. clock \in Nat
  BY DEF IInv, TypeOK
<1>2. CASE Tick
  BY <1>1, <1>2, TickStep DEF Tick
<1>3. ASSUME NEW d \in Digests, \E dl \in Deadlines : OpenBond(d, dl)
      PROVE  IInv'
  BY <1>3, OpenStep
<1>4. ASSUME NEW d \in Digests,
             (\E won \in BOOLEAN : Resolve(d, won)) \/ (\E o \in Outcomes : ResolveByProof(d, o))
      PROVE  IInv'
  BY <1>4, ResolveStep
<1>5. ASSUME NEW t \in Threads, NEW d \in Digests,
             \/ \E o \in Outcomes : CallProvision(t, d, o)
             \/ CallFileChallenge(t, d)
             \/ CallFinalize(t, d)
      PROVE  IInv'
  BY <1>5, CallStep
<1>6. ASSUME NEW t \in Threads, ProvisionLocked(t)
      PROVE  IInv'
  BY <1>6, ProvisionStep
<1>7. ASSUME NEW t \in Threads, FileChallengeLocked(t)
      PROVE  IInv'
  BY <1>7, FileChallengeStep
<1>8. ASSUME NEW t \in Threads, FinalizeLocked(t)
      PROVE  IInv'
  BY <1>8, FinalizeStep
<1>9. ASSUME NEW t \in Threads, Refused(t)
      PROVE  IInv'
  BY <1>9, RefusedStep
<1>10. CASE CallSweep
  BY <1>10, CallStep
<1>11. CASE SweepLocked
  BY <1>11, SweepStep
<1>12. CASE UNCHANGED vars
  BY <1>1, <1>12, TickStep DEF vars
<1>13. QED
  BY <1>2, <1>3, <1>4, <1>5, <1>6, <1>7, <1>8, <1>9, <1>10, <1>11, <1>12 DEF Next

LEMMA InvariantHolds == Spec => []IInv
  BY InitIInv, NextIInv, PTL DEF Spec

(* Every variable keeps its type, whatever the window and the deadlines.   *)
THEOREM TypeCorrect == Spec => []TypeOK
<1>1. IInv => TypeOK
  BY DEF IInv
<1>2. QED BY <1>1, InvariantHolds, PTL

(* The outcome and reason of every final bond are justified by what        *)
(* happened to it: settlement.rs's FinalizeReason is a true audit trail.   *)
THEOREM AuditTrailHolds == Spec => []AuditTrail
<1>1. IInv => AuditTrail
  BY DEF IInv, Fact, AuditTrail
<1>2. QED BY <1>1, InvariantHolds, PTL

(* No filed challenge is ever timed out, whenever the clock was read.      *)
THEOREM ChallengeIsAnsweredHolds == Spec => []ChallengeIsAnswered
<1>1. IInv => ChallengeIsAnswered
  <2> SUFFICES ASSUME IInv, NEW d \in contested, bonds[d].tag # "Disputed"
               PROVE  IsFinal(d) /\ bonds[d].reason \in
                        {"ChallengeUpheld", "ChallengeRejected", "ProofVerified"}
    BY DEF ChallengeIsAnswered
  <2>1. d \in Digests /\ bonds[d] \in Entries /\ Remembers(d) /\ Answered(d)
    BY DEF IInv, TypeOK, MachineTypeOK, Fact
  <2>2. bonds[d].tag = "Finalized"
    BY <2>1, EntryCases DEF Remembers
  <2>3. QED BY <2>1, <2>2 DEF Answered, IsFinal
<1>2. QED BY <1>1, InvariantHolds, PTL

-----------------------------------------------------------------------------
(* A digest that is never opened twice is decided once and for all: no     *)
(* later call changes its entry, whatever clock value that call holds.     *)
THEOREM TerminalWhenFresh ==
  ASSUME FreshDigests
  PROVE  Spec => FinalizedIsTerminal
<1>1. IInv /\ [Next]_vars => \A d \in Digests : IsFinal(d) => bonds'[d] = bonds[d]
  <2> SUFFICES ASSUME IInv, [Next]_vars, NEW d \in Digests, IsFinal(d)
               PROVE  bonds'[d] = bonds[d]
    OBVIOUS
  <2>1. bonds \in [Digests -> Entries] /\ bonds[d].tag = "Finalized"
    BY DEF IInv, TypeOK, MachineTypeOK, IsFinal
  <2>2. ASSUME NEW x \in Digests, NEW dl \in Deadlines, OpenBond(x, dl)
        PROVE  bonds'[d] = bonds[d]
    BY <2>1, <2>2 DEF OpenBond, Open, Absent
  <2>3. ASSUME NEW x \in Digests, NEW won \in BOOLEAN, Resolve(x, won)
        PROVE  bonds'[d] = bonds[d]
    BY <2>1, <2>3 DEF Resolve, ResolveDispute, CanResolveDispute
  <2>4. ASSUME NEW x \in Digests, NEW o \in Outcomes, ResolveByProof(x, o)
        PROVE  bonds'[d] = bonds[d]
    BY <2>1, <2>4 DEF ResolveByProof, ResolveWithProof, CanResolveWithProof
  <2>5. ASSUME NEW t \in Threads, ProvisionLocked(t)
        PROVE  bonds'[d] = bonds[d]
    BY <2>1, <2>5 DEF ProvisionLocked, Provision, CanProvision
  <2>6. ASSUME NEW t \in Threads, FileChallengeLocked(t)
        PROVE  bonds'[d] = bonds[d]
    BY <2>1, <2>6 DEF FileChallengeLocked, FileChallenge, CanFileChallenge
  <2>7. ASSUME NEW t \in Threads, FinalizeLocked(t)
        PROVE  bonds'[d] = bonds[d]
    BY <2>1, <2>7 DEF FinalizeLocked, Finalize, IsFinal
  <2>8. CASE SweepLocked
    BY <2>1, <2>8 DEF SweepLocked, Sweep, Matured
  <2>9. CASE Tick \/ CallSweep \/ UNCHANGED vars
    BY <2>9 DEF Tick, CallSweep, ReadClock, vars
  <2>10. ASSUME NEW t \in Threads,
                \/ Refused(t)
                \/ \E x \in Digests :
                     \/ \E o \in Outcomes : CallProvision(t, x, o)
                     \/ CallFileChallenge(t, x)
                     \/ CallFinalize(t, x)
         PROVE  bonds'[d] = bonds[d]
    BY <2>10 DEF Refused, CallProvision, CallFileChallenge, CallFinalize, ReadClock
  <2>11. QED
    BY <2>2, <2>3, <2>4, <2>5, <2>6, <2>7, <2>8, <2>9, <2>10 DEF Next
<1>2. QED
  BY <1>1, InvariantHolds, PTL DEF Spec, FinalizedIsTerminal

(* Replacing one entry replaces one phase.                                 *)
LEMMA PhaseStep ==
  ASSUME IInv, NEW d \in Digests, NEW e, bonds' = [bonds EXCEPT ![d] = e]
  PROVE  Phase' = [Phase EXCEPT ![d] = PhaseOf(e)] /\ Phase[d] = PhaseOf(bonds[d])
  BY DEF Phase, IInv, TypeOK, MachineTypeOK

(* Deciding one undecided bond is Honor or Slash of the promise.           *)
LEMMA DecideOne ==
  ASSUME IInv, NEW d \in Digests,
         bonds[d].tag \in {"Escrowed", "Provisional", "Disputed"},
         NEW e, e.tag = "Finalized", e.outcome \in Outcomes,
         bonds' = [bonds EXCEPT ![d] = e]
  PROVE  Promise!Next
<1>1. Phase[d] \in Promise!Undecided
  BY DEF Phase, PhaseOf, Promise!Undecided
<1>2. PhaseOf(e) \in {"honored", "slashed"}
  BY DEF PhaseOf
<1>3. Phase' = [Phase EXCEPT ![d] = PhaseOf(e)]
  BY PhaseStep
<1>4. Promise!Honor(d) \/ Promise!Slash(d)
  BY <1>1, <1>2, <1>3 DEF Promise!Honor, Promise!Slash, Promise!Move
<1>5. QED BY <1>4 DEF Promise!Next

(* A step that leaves the map alone is a stutter of the promise.           *)
LEMMA SameBonds ==
  ASSUME bonds' = bonds
  PROVE  Phase' = Phase
  BY DEF Phase

LEMMA SweepKeepsPromise ==
  ASSUME IInv, SweepLocked
  PROVE  Promise!Next
<1> DEFINE S == SweptBy(pending[Driver].now)
           decision == [d \in S |-> PhaseOf(MaturedEntry(bonds[d]))]
<1>1. S \in SUBSET Digests /\ bonds \in [Digests -> Entries]
  BY DEF SweptBy, IInv, TypeOK, MachineTypeOK
<1>2. \A d \in S : Phase[d] \in Promise!Undecided
  BY DEF SweptBy, Matured, Phase, PhaseOf, Promise!Undecided
<1>3. ASSUME NEW d \in S PROVE decision[d] \in Promise!Decided
  BY DEF PhaseOf, MaturedEntry, Finalized, Promise!Decided
<1>4. decision \in [S -> Promise!Decided]
  BY <1>3
<1>5. ASSUME NEW d \in Digests
      PROVE  PhaseOf(bonds'[d]) = IF d \in S THEN decision[d] ELSE Phase[d]
  BY DEF SweepLocked, Sweep, SweptBy, Phase
<1>6. Phase' = [d \in Digests |-> IF d \in S THEN decision[d] ELSE Phase[d]]
  BY <1>5 DEF Phase
<1>7. Promise!Decide(S)
  BY <1>2, <1>4, <1>6 DEF Promise!Decide
<1>8. QED BY <1>1, <1>7 DEF Promise!Next

LEMMA StepKeepsPromise ==
  ASSUME FreshDigests, IInv, [Next]_vars
  PROVE  Promise!Next \/ UNCHANGED Phase
<1>1. bonds \in [Digests -> Entries] /\ pending \in [Threads \cup {Driver} -> Calls]
  BY DEF IInv, TypeOK, MachineTypeOK
<1>2. ASSUME NEW d \in Digests, NEW dl \in Deadlines, OpenBond(d, dl)
      PROVE  Promise!Next
  <2>1. Phase' = [Phase EXCEPT ![d] = PhaseOf(Escrowed(dl))] /\ Phase[d] = PhaseOf(bonds[d])
    BY <1>2, PhaseStep DEF OpenBond, Open
  <2>2. PhaseOf(Escrowed(dl)) = "held" /\ PhaseOf(bonds[d]) = "free"
    BY <1>2 DEF PhaseOf, Escrowed, Absent, OpenBond
  <2>3. Promise!Lock(d)
    BY <2>1, <2>2 DEF Promise!Lock, Promise!Move
  <2>4. QED BY <2>3 DEF Promise!Next
<1>3. ASSUME NEW d \in Digests, NEW won \in BOOLEAN, Resolve(d, won)
      PROVE  Promise!Next
  <2>1. bonds[d].tag = "Disputed"
    BY <1>3 DEF Resolve, ResolveDispute, CanResolveDispute
  <2>2. PICK e : /\ e.tag = "Finalized" /\ e.outcome \in Outcomes
                 /\ bonds' = [bonds EXCEPT ![d] = e]
    BY <1>3 DEF Resolve, ResolveDispute, Finalized, Outcomes
  <2>3. QED BY <2>1, <2>2, DecideOne
<1>4. ASSUME NEW d \in Digests, NEW o \in Outcomes, ResolveByProof(d, o)
      PROVE  Promise!Next
  <2>1. bonds[d].tag \in {"Provisional", "Disputed"}
    BY <1>4 DEF ResolveByProof, ResolveWithProof, CanResolveWithProof
  <2>2. PICK e : /\ e.tag = "Finalized" /\ e.outcome \in Outcomes
                 /\ bonds' = [bonds EXCEPT ![d] = e]
    BY <1>4 DEF ResolveByProof, ResolveWithProof, Finalized
  <2>3. QED BY <2>1, <2>2, DecideOne
<1>5. ASSUME NEW t \in Threads, ProvisionLocked(t)
      PROVE  Promise!Next
  <2>1. PICK d \in Digests, o \in Outcomes, now \in Nat : Provision(d, o, now)
    BY <1>1, <1>5, CallCases DEF ProvisionLocked
  <2>2. bonds[d].tag = "Escrowed"
    BY <2>1 DEF Provision, CanProvision
  <2>3. CASE Window = 0
    <3>1. PICK e : e = Finalized(bonds[d].deadline, o, "WindowElapsed")
      OBVIOUS
    <3>2. e.tag = "Finalized" /\ e.outcome \in Outcomes
      BY <3>1 DEF Finalized
    <3>3. bonds' = [bonds EXCEPT ![d] = e]
      BY <2>1, <2>3, <3>1 DEF Provision
    <3>4. QED BY <2>2, <3>2, <3>3, DecideOne
  <2>4. CASE Window # 0
    <3>1. bonds' = [bonds EXCEPT ![d] = Provisional(bonds[d].deadline, o, now + Window)]
      BY <2>1, <2>4 DEF Provision
    <3>2. Phase[d] = "held" /\ Phase' = [Phase EXCEPT ![d] = "claimed"]
      <4>1. PhaseOf(Provisional(bonds[d].deadline, o, now + Window)) = "claimed"
        BY DEF PhaseOf, Provisional
      <4>2. PhaseOf(bonds[d]) = "held"
        BY <2>2 DEF PhaseOf
      <4>3. QED BY <3>1, <4>1, <4>2, PhaseStep
    <3>3. Promise!Claim(d)
      BY <3>2 DEF Promise!Claim, Promise!Move
    <3>4. QED BY <3>3 DEF Promise!Next
  <2>5. QED BY <2>3, <2>4
<1>6. ASSUME NEW t \in Threads, FileChallengeLocked(t)
      PROVE  Promise!Next
  <2>1. PICK d \in Digests, now \in Nat : FileChallenge(d, now)
    BY <1>1, <1>6, CallCases DEF FileChallengeLocked
  <2>2. /\ bonds[d].tag = "Provisional"
        /\ bonds' = [bonds EXCEPT ![d] = Disputed(bonds[d].deadline, bonds[d].outcome)]
    BY <2>1 DEF FileChallenge, CanFileChallenge
  <2>3. /\ PhaseOf(Disputed(bonds[d].deadline, bonds[d].outcome)) = "contested"
        /\ PhaseOf(bonds[d]) = "claimed"
    BY <2>2 DEF PhaseOf, Disputed
  <2>4. Phase[d] = "claimed" /\ Phase' = [Phase EXCEPT ![d] = "contested"]
    BY <2>2, <2>3, PhaseStep
  <2>5. Promise!Contest(d)
    BY <2>4 DEF Promise!Contest, Promise!Move
  <2>6. QED BY <2>5 DEF Promise!Next
<1>7. ASSUME NEW t \in Threads, FinalizeLocked(t)
      PROVE  Promise!Next \/ UNCHANGED Phase
  <2>1. PICK d \in Digests, now \in Nat : Finalize(d, now)
    BY <1>1, <1>7, CallCases DEF FinalizeLocked
  <2>2. CASE IsFinal(d)
    BY <2>1, <2>2, SameBonds DEF Finalize
  <2>3. CASE ~IsFinal(d)
    <3>1. bonds[d].tag \in {"Provisional", "Escrowed"} /\ bonds[d] \in Entries
      BY <1>1, <2>1, <2>3 DEF Finalize, CanFinalize, Matured
    <3>2. PICK e : e = MaturedEntry(bonds[d])
      OBVIOUS
    <3>3. e.tag = "Finalized" /\ e.outcome \in Outcomes
      BY <3>1, <3>2, EntryCases DEF MaturedEntry, Finalized, Outcomes
    <3>4. bonds' = [bonds EXCEPT ![d] = e]
      BY <2>1, <2>3, <3>2 DEF Finalize
    <3>5. QED BY <3>1, <3>3, <3>4, DecideOne
  <2>4. QED BY <2>2, <2>3
<1>8. CASE SweepLocked
  BY <1>8, SweepKeepsPromise
<1>9. CASE Tick \/ CallSweep \/ UNCHANGED vars
  BY <1>9, SameBonds DEF Tick, CallSweep, ReadClock, vars
<1>10. ASSUME NEW t \in Threads,
              \/ Refused(t)
              \/ \E x \in Digests :
                   \/ \E o \in Outcomes : CallProvision(t, x, o)
                   \/ CallFileChallenge(t, x)
                   \/ CallFinalize(t, x)
       PROVE  UNCHANGED Phase
  BY <1>10, SameBonds DEF Refused, CallProvision, CallFileChallenge, CallFinalize, ReadClock
<1>11. QED
  BY <1>2, <1>3, <1>4, <1>5, <1>6, <1>7, <1>8, <1>9, <1>10 DEF Next

(* With fresh digests the settlement machine implements the promise of a   *)
(* conviction bond, for any number of threads, bonds and any window.       *)
THEOREM PromiseKept ==
  ASSUME FreshDigests
  PROVE  Spec => KeepsPromise
<1>1. Init => Promise!Init
  BY DEF Init, MachineInit, Promise!Init, Phase, PhaseOf, Absent
<1>2. IInv /\ [Next]_vars => [Promise!Next]_Phase
  BY StepKeepsPromise
<1>3. QED
  BY <1>1, <1>2, InvariantHolds, PTL DEF Spec, KeepsPromise, Promise!Spec
=============================================================================
