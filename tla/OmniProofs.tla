----------------------------- MODULE OmniProofs -----------------------------
(***************************************************************************)
(* The three modules of scematica-omni: the spend ledger, for any          *)
(* processes, requests, limits and numbers of commands; the claims that a  *)
(* batch anchors, for batches of any size; the price feed, for any         *)
(* reporters, prices and quorums; and the decision log and its anchors,    *)
(* for any length, cuts, deaths and challenges.                            *)
(***************************************************************************)
EXTENDS SpendLedger, PriceFeed, DecisionAnchors, SumLemmas, SequenceTheorems

-----------------------------------------------------------------------------
(***************************************************************************)
(* The spend ledger.  Commands that do not overlap run one at a time, so   *)
(* what a command holds in memory is the file it read and its own change.  *)
(* Records that are sealed once are asked for once, so a failure that is   *)
(* reconciled releases nothing another request lives on.                   *)
(***************************************************************************)
LedgerFields == {"readable", "spent", "count", "settled", "reserved"}

Covers(l, asked) == \A m \in asked : Live(m) => HasSeen(l, m.record)

IsAsked(r, asked) == \E m \in asked : m.record = r

AskedOnce(asked, sealed) ==
  /\ \A m \in asked : DOMAIN m = {"record", "nth", "outcome"} /\ m.record \in sealed
  /\ \A m, n \in asked : m.record = n.record => m = n

IsBook(l, asked) == DOMAIN l = LedgerFields /\ Covers(l, asked)

(* A command c in a world with this file, these requests and records.      *)
Fits(c, f, asked, sealed) ==
  /\ c.pc = "sealing" => f.readable /\ c.copy = f
  /\ c.pc \in {"truncating", "writing"} =>
       /\ DOMAIN c = {"pc", "record", "copy", "next"}
       /\ IsBook(c.copy, asked)
       /\ c.next # "idle" =>
            HasSeen(c.copy, c.record) /\ c.record \in sealed /\ ~IsAsked(c.record, asked)
  /\ c.pc = "asking" =>
       /\ c.record \in sealed /\ ~IsAsked(c.record, asked)
       /\ f.readable => HasSeen(f, c.record)

Serial ==
  /\ \A p, q \in Processes : proc[p] # Idle /\ proc[q] # Idle => p = q
  /\ AskedOnce(requests, spends)
  /\ file.readable => IsBook(file, requests)
  /\ \A p \in Processes : Fits(proc[p], file, requests, spends)

IInv == DOMAIN proc = Processes /\ (Undisturbed => Serial)

-----------------------------------------------------------------------------
(* Commands, one at a time.                                                *)
LEMMA IdleFits ==
  ASSUME NEW f, NEW asked, NEW sealed
  PROVE  Fits(Idle, f, asked, sealed)
BY DEF Fits, Idle

LEMMA OthersAreIdle ==
  ASSUME Serial, NEW p \in Processes, proc[p] # Idle
  PROVE  \A q \in Processes \ {p} : proc[q] = Idle
BY DEF Serial

LEMMA SoloStep ==
  ASSUME DOMAIN proc = Processes, NEW p \in Processes,
         \A q \in Processes \ {p} : proc[q] = Idle,
         NEW c, Becomes(p, c),
         AskedOnce(requests', spends'),
         file'.readable => IsBook(file', requests'),
         Fits(c, file', requests', spends')
  PROVE  Serial'
<1>1. proc'[p] = c /\ \A q \in Processes \ {p} : proc'[q] = Idle
  BY DEF Becomes
<1>2. \A q, r \in Processes : proc'[q] # Idle /\ proc'[r] # Idle => q = r
  BY <1>1
<1>3. \A q \in Processes : Fits(proc'[q], file', requests', spends')
  BY <1>1, IdleFits
<1>4. QED BY <1>2, <1>3 DEF Serial

LEMMA StartsAlone ==
  ASSUME NEW p \in Processes, Starts(p), ~overlapped'
  PROVE  /\ \A q \in Processes \ {p} : proc[q] = Idle
         /\ ~overlapped
         /\ file.readable
BY DEF Starts

-----------------------------------------------------------------------------
(* Ledgers.                                                                *)
LEMMA ReservedCovers ==
  ASSUME NEW l, NEW asked, IsBook(l, asked), NEW r
  PROVE  IsBook(Reserved(l, r), asked) /\ HasSeen(Reserved(l, r), r)
BY DEF Reserved, IsBook, Covers, HasSeen, LedgerFields

LEMMA SettledCovers ==
  ASSUME NEW l, NEW asked, IsBook(l, asked), NEW r
  PROVE  IsBook(Settled(l, r), asked)
<1>1. CASE r \in l.settled
  BY <1>1 DEF Settled
<1>2. CASE r \notin l.settled
  <2> DEFINE k == Settled(l, r)
  <2>1. DOMAIN k = LedgerFields /\ k.reserved = l.reserved \ {r} /\ k.settled = l.settled \cup {r}
    BY <1>2 DEF Settled, IsBook, LedgerFields
  <2> HIDE DEF k
  <2>2. \A x : HasSeen(l, x) => HasSeen(k, x)
    BY <2>1 DEF HasSeen
  <2>3. QED BY <2>1, <2>2 DEF IsBook, Covers, k
<1>3. QED BY <1>1, <1>2

LEMMA ReleasedCovers ==
  ASSUME NEW l, NEW asked, NEW sealed, IsBook(l, asked), AskedOnce(asked, sealed),
         NEW m \in asked, m.outcome = "failed"
  PROVE  IsBook(Released(l, m.record), asked)
<1> DEFINE k == Released(l, m.record)
<1>1. DOMAIN k = LedgerFields /\ k.reserved = l.reserved \ {m.record} /\ k.settled = l.settled
  BY DEF Released, IsBook, LedgerFields
<1> HIDE DEF k
<1>2. \A n \in asked : Live(n) => n.record # m.record
  BY DEF AskedOnce, Live
<1>3. Covers(k, asked)
  BY <1>1, <1>2 DEF IsBook, Covers, HasSeen
<1>4. QED BY <1>1, <1>3 DEF IsBook, k

(* A further request, of a record that is held and was not asked for.      *)
LEMMA AnotherRequest ==
  ASSUME NEW asked, NEW sealed, AskedOnce(asked, sealed),
         NEW r \in sealed, ~IsAsked(r, asked), NEW nth,
         NEW more, more = asked \cup {[record |-> r, nth |-> nth, outcome |-> "unknown"]}
  PROVE  /\ AskedOnce(more, sealed)
         /\ \A l : IsBook(l, asked) /\ HasSeen(l, r) => IsBook(l, more)
<1> DEFINE m == [record |-> r, nth |-> nth, outcome |-> "unknown"]
<1>1. DOMAIN m = {"record", "nth", "outcome"} /\ m.record = r
  OBVIOUS
<1> HIDE DEF m
<1>2. more = asked \cup {m}
  BY DEF m
<1>3. AskedOnce(more, sealed)
  BY <1>1, <1>2 DEF AskedOnce, IsAsked
<1>4. \A l : IsBook(l, asked) /\ HasSeen(l, r) => IsBook(l, more)
  BY <1>1, <1>2 DEF IsBook, Covers
<1>5. QED BY <1>3, <1>4

(* A request that is answered: fewer are live, and the records are those.  *)
LEMMA AnsweredRequest ==
  ASSUME NEW asked, NEW sealed, AskedOnce(asked, sealed),
         NEW m \in asked, m.outcome = "unknown",
         NEW n, DOMAIN n = DOMAIN m, n.record = m.record,
         NEW after, after = (asked \ {m}) \cup {n}
  PROVE  /\ AskedOnce(after, sealed)
         /\ \A l : IsBook(l, asked) => IsBook(l, after)
         /\ \A r : IsAsked(r, after) => IsAsked(r, asked)
<1>1. AskedOnce(after, sealed)
  BY DEF AskedOnce
<1>2. Live(m)
  BY DEF Live
<1>3. \A l : IsBook(l, asked) => IsBook(l, after)
  BY <1>2 DEF IsBook, Covers
<1>4. \A r : IsAsked(r, after) => IsAsked(r, asked)
  BY DEF IsAsked
<1>5. QED BY <1>1, <1>3, <1>4

-----------------------------------------------------------------------------
LEMMA InitIInv == Init => IInv
<1> SUFFICES ASSUME Init PROVE IInv
  OBVIOUS
<1>1. DOMAIN proc = Processes /\ \A p \in Processes : proc[p] = Idle
  BY DEF Init
<1>2. requests = {} /\ IsBook(file, requests)
  BY DEF Init, EmptyLedger, IsBook, LedgerFields, Covers
<1>3. Serial
  BY <1>1, <1>2, IdleFits DEF Serial, AskedOnce
<1>4. QED BY <1>1, <1>3 DEF IInv

LEMMA SealStep ==
  ASSUME DOMAIN proc = Processes, Serial, NEW p \in Processes, Seal(p), ~resealed'
  PROVE  Serial'
<1> DEFINE c == proc[p]
           r == Sealed(c)
<1>1. c.pc = "sealing" /\ c # Idle
  BY DEF Seal, Idle
<1>2. \A q \in Processes \ {p} : proc[q] = Idle
  BY <1>1, OthersAreIdle
<1>3. file.readable /\ c.copy = file /\ IsBook(file, requests) /\ AskedOnce(requests, spends)
  BY <1>1 DEF Serial, Fits
<1> HIDE DEF r
<1>4. /\ spends' = spends \cup {r} /\ r \notin spends
      /\ UNCHANGED <<file, requests>>
      /\ \/ Becomes(p, Idle)
         \/ HasSeen(file, r) /\ Becomes(p, [pc |-> "asking", record |-> r])
         \/ Becomes(p, Written(r, Reserved(file, r), "asking"))
  BY <1>3 DEF Seal, r
<1>5. AskedOnce(requests', spends') /\ ~IsAsked(r, requests')
  BY <1>3, <1>4 DEF AskedOnce, IsAsked
<1>6. file'.readable => IsBook(file', requests')
  BY <1>3, <1>4
<1>7. CASE Becomes(p, Idle)
  BY <1>2, <1>5, <1>6, <1>7, IdleFits, SoloStep
<1>8. CASE HasSeen(file, r) /\ Becomes(p, [pc |-> "asking", record |-> r])
  <2>1. Fits([pc |-> "asking", record |-> r], file', requests', spends')
    BY <1>4, <1>5, <1>8 DEF Fits
  <2>2. QED BY <1>2, <1>5, <1>6, <1>8, <2>1, SoloStep
<1>9. CASE Becomes(p, Written(r, Reserved(file, r), "asking"))
  <2>1. IsBook(Reserved(file, r), requests') /\ HasSeen(Reserved(file, r), r)
    BY <1>3, <1>4, ReservedCovers
  <2>2. Fits(Written(r, Reserved(file, r), "asking"), file', requests', spends')
    BY <1>4, <1>5, <2>1 DEF Fits, Written
  <2>3. QED BY <1>2, <1>5, <1>6, <1>9, <2>2, SoloStep
<1>10. QED BY <1>4, <1>7, <1>8, <1>9

LEMMA FileStep ==
  ASSUME DOMAIN proc = Processes, Serial, NEW p \in Processes, Truncate(p) \/ Write(p) \/ Crash(p)
  PROVE  Serial'
<1> DEFINE c == proc[p]
<1>1. c # Idle
  BY DEF Truncate, Write, Crash, Idle
<1>2. \A q \in Processes \ {p} : proc[q] = Idle
  BY <1>1, OthersAreIdle
<1>3. AskedOnce(requests', spends')
  BY DEF Serial, Truncate, Write, Crash
<1>4. UNCHANGED <<requests, spends>> /\ Fits(c, file, requests, spends)
  BY DEF Serial, Truncate, Write, Crash
<1>5. CASE Truncate(p)
  <2>1. ~file'.readable /\ Becomes(p, [c EXCEPT !.pc = "writing"])
    BY <1>5 DEF Truncate, Torn
  <2>2. Fits([c EXCEPT !.pc = "writing"], file', requests', spends')
    BY <1>4, <1>5 DEF Truncate, Fits
  <2>3. QED BY <1>2, <1>3, <2>1, <2>2, SoloStep
<1>6. CASE Write(p)
  <2>1. c.pc = "writing" /\ file' = c.copy /\ IsBook(file', requests')
    BY <1>4, <1>6 DEF Write, Fits
  <2>2. CASE c.next = "idle"
    <3>1. Becomes(p, Idle)
      BY <1>6, <2>2 DEF Write
    <3>2. QED BY <1>2, <1>3, <2>1, <3>1, IdleFits, SoloStep
  <2>3. CASE c.next # "idle"
    <3>1. Becomes(p, [pc |-> "asking", record |-> c.record])
      BY <1>6, <2>3 DEF Write
    <3>2. Fits([pc |-> "asking", record |-> c.record], file', requests', spends')
      BY <1>4, <2>1, <2>3 DEF Fits
    <3>3. QED BY <1>2, <1>3, <2>1, <3>1, <3>2, SoloStep
  <2>4. QED BY <2>2, <2>3
<1>7. CASE Crash(p)
  <2>1. Becomes(p, Idle) /\ (file'.readable => IsBook(file', requests'))
    BY <1>7 DEF Crash, Serial
  <2>2. QED BY <1>2, <1>3, <2>1, IdleFits, SoloStep
<1>8. QED BY <1>5, <1>6, <1>7

LEMMA AskStep ==
  ASSUME DOMAIN proc = Processes, Serial, NEW p \in Processes, Ask(p)
  PROVE  Serial'
<1> DEFINE c == proc[p]
           nth == Cardinality({m \in requests : m.record = c.record}) + 1
<1>1. c.pc = "asking" /\ c # Idle
  BY DEF Ask, Idle
<1>2. \A q \in Processes \ {p} : proc[q] = Idle
  BY <1>1, OthersAreIdle
<1>3. /\ c.record \in spends /\ ~IsAsked(c.record, requests)
      /\ file.readable => HasSeen(file, c.record) /\ IsBook(file, requests)
      /\ AskedOnce(requests, spends)
  BY <1>1 DEF Serial, Fits
<1>4. requests' = requests \cup {[record |-> c.record, nth |-> nth, outcome |-> "unknown"]}
  BY DEF Ask, HandOut
<1> HIDE DEF nth
<1>5. AskedOnce(requests', spends) /\ (file.readable => IsBook(file, requests'))
  <2>1. PICK r : r = c.record
    OBVIOUS
  <2>2. /\ r \in spends /\ ~IsAsked(r, requests)
        /\ requests' = requests \cup {[record |-> r, nth |-> nth, outcome |-> "unknown"]}
    BY <1>3, <1>4, <2>1
  <2>3. /\ AskedOnce(requests', spends)
        /\ \A l : IsBook(l, requests) /\ HasSeen(l, r) => IsBook(l, requests')
    BY <1>3, <2>2, AnotherRequest
  <2>. QED BY <1>3, <2>1, <2>3
<1>6. UNCHANGED <<file, spends>> /\ Becomes(p, Idle)
  BY DEF Ask
<1>7. QED BY <1>2, <1>5, <1>6, IdleFits, SoloStep

LEMMA StartStep ==
  ASSUME DOMAIN proc = Processes, Serial, NEW p \in Processes, ~overlapped',
         \/ \E q \in Requests : Pay(p, q)
         \/ \E m \in requests : Reconcile(p, m)
  PROVE  Serial'
<1>1. Starts(p) /\ UNCHANGED <<file, requests, spends>>
  BY DEF Pay, Reconcile
<1>2. file.readable /\ \A q \in Processes \ {p} : proc[q] = Idle
  BY <1>1, StartsAlone
<1>3. IsBook(file, requests) /\ AskedOnce(requests, spends)
  BY <1>2 DEF Serial
<1>4. AskedOnce(requests', spends') /\ IsBook(file', requests')
  BY <1>1, <1>3
<1>5. ASSUME NEW q \in Requests, Pay(p, q)
      PROVE  Serial'
  <2>1. Becomes(p, [pc |-> "sealing", request |-> q, copy |-> file])
    BY <1>5 DEF Pay
  <2>2. Fits([pc |-> "sealing", request |-> q, copy |-> file], file', requests', spends')
    BY <1>1, <1>2 DEF Fits
  <2>3. QED BY <1>2, <1>4, <2>1, <2>2, SoloStep
<1>6. ASSUME NEW m \in requests, Reconcile(p, m)
      PROVE  Serial'
  <2> DEFINE l == IF m.outcome = "failed" THEN Released(file, m.record) ELSE Settled(file, m.record)
  <2>1. IsBook(l, requests)
    BY <1>3, ReleasedCovers, SettledCovers
  <2>2. Becomes(p, Idle) \/ Becomes(p, Written(m.record, l, "idle"))
    BY <1>6 DEF Reconcile
  <2> HIDE DEF l
  <2>3. Fits(Written(m.record, l, "idle"), file', requests', spends')
    BY <1>1, <2>1 DEF Fits, Written
  <2>4. QED BY <1>2, <1>4, <2>2, <2>3, IdleFits, SoloStep
<1>7. QED BY <1>5, <1>6

LEMMA AnswerStep ==
  ASSUME Serial, NEW m \in requests, NEW outcome \in {"paid", "failed"}, Answer(m, outcome)
  PROVE  Serial'
<1>1. UNCHANGED <<file, spends, proc>>
  BY DEF Answer
<1>2. /\ AskedOnce(requests', spends)
      /\ \A l : IsBook(l, requests) => IsBook(l, requests')
      /\ \A r : IsAsked(r, requests') => IsAsked(r, requests)
  <2>1. AskedOnce(requests, spends) /\ m.outcome = "unknown"
    BY DEF Answer, Serial
  <2>2. PICK n : /\ DOMAIN n = DOMAIN m /\ n.record = m.record
                 /\ requests' = (requests \ {m}) \cup {n}
    <3> DEFINE n == [m EXCEPT !.outcome = outcome]
    <3>1. DOMAIN n = DOMAIN m /\ n.record = m.record
      BY <2>1 DEF AskedOnce
    <3>2. requests' = (requests \ {m}) \cup {n}
      BY DEF Answer
    <3> HIDE DEF n
    <3>3. QED BY <3>1, <3>2
  <2>3. AskedOnce(requests', spends)
    BY <2>1, <2>2, AnsweredRequest
  <2>4. \A l : IsBook(l, requests) => IsBook(l, requests')
    BY <2>1, <2>2, AnsweredRequest
  <2>5. \A r : IsAsked(r, requests') => IsAsked(r, requests)
    BY <2>1, <2>2, AnsweredRequest
  <2>6. QED BY <2>3, <2>4, <2>5
<1>3. \A c : Fits(c, file, requests, spends) => Fits(c, file, requests', spends)
  BY <1>2 DEF Fits
<1>4. QED BY <1>1, <1>2, <1>3 DEF Serial

LEMMA IInvStep == IInv /\ [Next]_vars => IInv'
<1> SUFFICES ASSUME IInv, [Next]_vars PROVE IInv'
  OBVIOUS
<1>1. DOMAIN proc = Processes
  BY DEF IInv
<1>2. DOMAIN proc' = Processes
  BY <1>1 DEF Next, vars, Tick, Pay, Seal, Truncate, Write, Ask, Reconcile, Crash, Answer, Becomes
<1>3. Undisturbed' => Undisturbed
  BY DEF Undisturbed, Next, vars, Tick, Pay, Seal, Truncate, Write, Ask, Reconcile, Crash, Answer, Starts
<1>4. SUFFICES ASSUME Undisturbed' PROVE Serial'
  BY <1>2 DEF IInv
<1>5. Serial /\ ~overlapped' /\ ~resealed'
  BY <1>3, <1>4 DEF IInv, Undisturbed
<1>6. CASE Tick \/ UNCHANGED vars
  BY <1>5, <1>6 DEF Tick, vars, Serial
<1>7. ASSUME NEW p \in Processes,
             \/ \E q \in Requests : Pay(p, q)
             \/ \E m \in requests : Reconcile(p, m)
      PROVE  Serial'
  BY <1>1, <1>5, <1>7, StartStep
<1>8. ASSUME NEW p \in Processes, Seal(p)
      PROVE  Serial'
  BY <1>1, <1>5, <1>8, SealStep
<1>9. ASSUME NEW p \in Processes, Truncate(p) \/ Write(p) \/ Crash(p)
      PROVE  Serial'
  BY <1>1, <1>5, <1>9, FileStep
<1>10. ASSUME NEW p \in Processes, Ask(p)
       PROVE  Serial'
  BY <1>1, <1>5, <1>10, AskStep
<1>11. ASSUME NEW m \in requests, NEW outcome \in {"paid", "failed"}, Answer(m, outcome)
       PROVE  Serial'
  BY <1>5, <1>11, AnswerStep
<1>12. QED BY <1>6, <1>7, <1>8, <1>9, <1>10, <1>11 DEF Next

(* A payment that was asked for and is not known to have failed is in the  *)
(* ledger, held or counted, after any sequence of commands that do not     *)
(* overlap, crashes and late receipts among them.                          *)
THEOREM UnresolvedHoldsBudgetAlways == Spec => []UnresolvedHoldsBudget
<1>1. IInv => UnresolvedHoldsBudget
  BY DEF IInv, Serial, IsBook, Covers, UnresolvedHoldsBudget
<1>2. Spec => []IInv
  BY InitIInv, IInvStep, PTL DEF Spec
<1>3. QED BY <1>1, <1>2, PTL
-----------------------------------------------------------------------------
(* The sum of the units of a set of records, changed by one record.        *)
Records(S) == IsFiniteSet(S) /\ S \subseteq Permitted

LEMMA UnitsIsNat == ASSUME NEW r \in Permitted PROVE r.request.units \in Nat
BY SpendAssumption DEF Permitted

LEMMA UnitsAreNat == ASSUME NEW S, Records(S) PROVE UnitsOf(S) \in Nat
<1>1. PICK f : f = [r \in S |-> r.request.units]
  OBVIOUS
<1>2. IsFiniteSet(DOMAIN f) /\ \A r \in DOMAIN f : f[r] \in Nat
  BY <1>1, SpendAssumption DEF Records, Permitted
<1>3. SumOf(f) \in Nat
  BY <1>2, SumInNat
<1>. QED BY <1>1, <1>3 DEF UnitsOf

LEMMA NoUnits == UnitsOf({}) = 0
<1>1. PICK f : f = [r \in {} |-> r.request.units]
  OBVIOUS
<1>2. SumOf(f) = 0
  BY <1>1, SumEmpty
<1>. QED BY <1>1, <1>2 DEF UnitsOf

LEMMA OneRecordMore ==
  ASSUME NEW S, Records(S), NEW r \in Permitted, r \notin S
  PROVE  Records(S \cup {r}) /\ UnitsOf(S \cup {r}) = UnitsOf(S) + r.request.units
<1>1. PICK f : f = [x \in S |-> x.request.units]
  OBVIOUS
<1>2. PICK g : g = [x \in S \cup {r} |-> x.request.units]
  OBVIOUS
<1>3. IsFiniteSet(S) /\ IsFiniteSet(S \cup {r})
  BY FS_AddElement DEF Records
<1>4. \A x \in S \cup {r} : x.request.units \in Int
  BY UnitsIsNat DEF Records
<1>5. IsFiniteSet(DOMAIN f) /\ r \notin DOMAIN f /\ DOMAIN g = DOMAIN f \cup {r}
  BY <1>1, <1>2, <1>3
<1>6. \A x \in DOMAIN f : f[x] \in Int
  BY <1>1, <1>4
<1>7. g[r] \in Int /\ g[r] = r.request.units /\ \A x \in DOMAIN f : g[x] = f[x]
  BY <1>1, <1>2, <1>4
<1>8. SumOf(g) = SumOf(f) + g[r]
  BY <1>5, <1>6, <1>7, SumAdd
<1>. QED BY <1>1, <1>2, <1>3, <1>7, <1>8 DEF UnitsOf, Records

LEMMA OneRecordLess ==
  ASSUME NEW S, Records(S), NEW r \in S
  PROVE  Records(S \ {r}) /\ UnitsOf(S) = UnitsOf(S \ {r}) + r.request.units
<1>1. PICK R : R = S \ {r}
  OBVIOUS
<1>2. Records(R) /\ r \in Permitted /\ r \notin R /\ S = R \cup {r}
  BY <1>1, FS_RemoveElement DEF Records
<1>3. UnitsOf(R \cup {r}) = UnitsOf(R) + r.request.units
  BY <1>2, OneRecordMore
<1>. QED BY <1>1, <1>2, <1>3

LEMMA FewerRecords ==
  ASSUME NEW S, NEW T, Records(T), S \subseteq T
  PROVE  Records(S) /\ UnitsOf(S) <= UnitsOf(T)
<1>1. PICK f : f = [x \in T |-> x.request.units]
  OBVIOUS
<1>2. PICK g : g = [x \in S |-> x.request.units]
  OBVIOUS
<1>3. IsFiniteSet(S)
  BY FS_Subset DEF Records
<1>4. IsFiniteSet(DOMAIN f) /\ \A x \in DOMAIN f : f[x] \in Nat
  BY <1>1, SpendAssumption DEF Records, Permitted
<1>5. DOMAIN g \subseteq DOMAIN f /\ \A x \in DOMAIN g : g[x] = f[x]
  BY <1>1, <1>2
<1>6. SumOf(g) <= SumOf(f)
  BY <1>4, <1>5, SumOfPart
<1>. QED BY <1>1, <1>2, <1>3, <1>6 DEF UnitsOf, Records

-----------------------------------------------------------------------------
(* Ledgers that add up.                                                    *)
Sound(l) ==
  /\ DOMAIN l = LedgerFields
  /\ IsLedger(l)
  /\ Records(l.settled) /\ Records(l.reserved)
  /\ AddsUp(l)

LEMMA RemainingIsNat ==
  ASSUME NEW l, Sound(l)
  PROVE  Committed(l) \in Nat /\ Remaining(l) \in Nat
<1>1. UnitsOf(l.reserved) \in Nat /\ l.spent \in Nat
  BY UnitsAreNat DEF Sound, IsLedger
<1>. QED BY <1>1, SpendAssumption DEF Committed, Remaining

LEMMA ReservedIsSound ==
  ASSUME NEW l, Sound(l), NEW r \in Permitted, ~HasSeen(l, r)
  PROVE  /\ Sound(Reserved(l, r))
         /\ Committed(Reserved(l, r)) = Committed(l) + r.request.units
<1>1. PICK k : k = Reserved(l, r)
  OBVIOUS
<1>2. /\ DOMAIN k = LedgerFields /\ k.readable = l.readable
      /\ k.spent = l.spent /\ k.count = l.count
      /\ k.settled = l.settled /\ k.reserved = l.reserved \cup {r}
  BY <1>1 DEF Reserved, Sound, LedgerFields
<1>3. Records(l.reserved) /\ r \notin l.reserved /\ r \notin l.settled
  BY DEF Sound, HasSeen
<1>4. Records(k.reserved) /\ UnitsOf(k.reserved) = UnitsOf(l.reserved) + r.request.units
  BY <1>2, <1>3, OneRecordMore
<1>5. Sound(k)
  BY <1>2, <1>3, <1>4 DEF Sound, IsLedger, AddsUp
<1>6. UnitsOf(l.reserved) \in Nat /\ r.request.units \in Nat /\ l.spent \in Nat
  BY <1>3, UnitsAreNat, SpendAssumption DEF Permitted, Sound, IsLedger
<1>. QED BY <1>1, <1>2, <1>4, <1>5, <1>6 DEF Committed

LEMMA ReleasedIsSound ==
  ASSUME NEW l, Sound(l), NEW r
  PROVE  Sound(Released(l, r)) /\ Committed(Released(l, r)) <= Committed(l)
<1>1. PICK k : k = Released(l, r)
  OBVIOUS
<1>2. /\ DOMAIN k = LedgerFields /\ k.readable = l.readable
      /\ k.spent = l.spent /\ k.count = l.count
      /\ k.settled = l.settled /\ k.reserved = l.reserved \ {r}
  BY <1>1 DEF Released, Sound, LedgerFields
<1>3. Records(l.reserved) /\ k.reserved \subseteq l.reserved
  BY <1>2 DEF Sound
<1>4. Records(k.reserved) /\ UnitsOf(k.reserved) <= UnitsOf(l.reserved)
  BY <1>3, FewerRecords
<1>5. Sound(k)
  BY <1>2, <1>4 DEF Sound, IsLedger, AddsUp
<1>6. UnitsOf(k.reserved) \in Nat /\ UnitsOf(l.reserved) \in Nat /\ l.spent \in Nat
  BY <1>3, <1>4, UnitsAreNat DEF Sound, IsLedger
<1>. QED BY <1>1, <1>2, <1>4, <1>5, <1>6 DEF Committed

(* A settled record of a request that held budget commits nothing more.    *)
LEMMA SettledIsSound ==
  ASSUME NEW l, Sound(l), NEW r \in Permitted
  PROVE  /\ Sound(Settled(l, r))
         /\ HasSeen(l, r) => Committed(Settled(l, r)) = Committed(l)
<1>1. CASE r \in l.settled
  BY <1>1 DEF Settled
<1>2. CASE r \notin l.settled
  <2>1. PICK k : k = Settled(l, r)
    OBVIOUS
  <2>2. /\ DOMAIN k = LedgerFields /\ k.readable = l.readable
        /\ k.spent = l.spent + r.request.units /\ k.count = l.count + 1
        /\ k.settled = l.settled \cup {r} /\ k.reserved = l.reserved \ {r}
    BY <1>2, <2>1 DEF Settled, Sound, LedgerFields
  <2>3. Records(l.settled) /\ Records(l.reserved) /\ k.reserved \subseteq l.reserved
    BY <2>2 DEF Sound
  <2>4. Records(k.settled) /\ UnitsOf(k.settled) = UnitsOf(l.settled) + r.request.units
    BY <1>2, <2>2, <2>3, OneRecordMore
  <2>5. Records(k.reserved)
    BY <2>3, FewerRecords
  <2>6. Cardinality(k.settled) = Cardinality(l.settled) + 1
    <3>1. IsFiniteSet(l.settled) /\ r \notin l.settled /\ k.settled = l.settled \cup {r}
      BY <1>2, <2>2, <2>3 DEF Records
    <3>. QED BY <3>1, FS_AddElement
  <2>7. r.request.units \in Nat /\ l.spent \in Nat /\ l.count \in Nat
    BY SpendAssumption DEF Permitted, Sound, IsLedger
  <2>8. IsLedger(k)
    BY <2>2, <2>4, <2>5, <2>7 DEF Sound, IsLedger, Records
  <2>9. AddsUp(k)
    BY <2>2, <2>4, <2>6 DEF Sound, AddsUp
  <2>10. HasSeen(l, r) => Committed(k) = Committed(l)
    <3>1. SUFFICES ASSUME r \in l.reserved PROVE Committed(k) = Committed(l)
      BY <1>2 DEF HasSeen
    <3>2. UnitsOf(l.reserved) = UnitsOf(k.reserved) + r.request.units
      BY <2>2, <2>3, <3>1, OneRecordLess
    <3>3. UnitsOf(k.reserved) \in Nat
      BY <2>5, UnitsAreNat
    <3>. QED BY <2>2, <2>7, <3>2, <3>3 DEF Committed
  <2>. QED BY <2>1, <2>2, <2>4, <2>5, <2>8, <2>9, <2>10 DEF Sound
<1>. QED BY <1>1, <1>2

-----------------------------------------------------------------------------
(* The books: the file and every copy of it that a command works on.       *)
IsCommand(c) ==
  \/ c = Idle
  \/ /\ c.pc = "sealing" /\ DOMAIN c = {"pc", "request", "copy"}
     /\ c.request \in Requests /\ Sound(c.copy)
  \/ /\ c.pc \in {"truncating", "writing"} /\ DOMAIN c = {"pc", "record", "copy", "next"}
     /\ c.record \in Permitted /\ Sound(c.copy)
  \/ /\ c.pc = "asking" /\ DOMAIN c = {"pc", "record"}
     /\ c.record \in Permitted

IsRequest(m) ==
  DOMAIN m = {"record", "nth", "outcome"} /\ m.record \in Permitted /\ m.nth \in Nat \ {0}

Books ==
  /\ clock \in Nat /\ commands \in Nat /\ overlapped \in BOOLEAN /\ resealed \in BOOLEAN
  /\ file = Torn \/ Sound(file)
  /\ DOMAIN proc = Processes
  /\ \A p \in Processes : IsCommand(proc[p])
  /\ \A r \in spends : r.permits => r \in Permitted
  /\ IsFiniteSet(requests) /\ \A m \in requests : IsRequest(m)

LEMMA CommandBecomes ==
  ASSUME DOMAIN proc = Processes, \A q \in Processes : IsCommand(proc[q]),
         NEW p \in Processes, NEW c, IsCommand(c), Becomes(p, c)
  PROVE  DOMAIN proc' = Processes /\ \A q \in Processes : IsCommand(proc'[q])
BY DEF Becomes

LEMMA SealedIsPermitted ==
  ASSUME clock \in Nat, NEW c, c.request \in Requests, Sound(c.copy), Sealed(c).permits
  PROVE  /\ Sealed(c) \in Permitted
         /\ Sealed(c).request.units <= Remaining(c.copy)
<1> DEFINE q == c.request
<1>1. PICK b : b = Authorises(c.copy, q)
  OBVIOUS
<1>2. b \in BOOLEAN
  BY <1>1, SpendAssumption DEF Authorises
<1>3. Sealed(c) = [permits |-> b, at |-> clock, request |-> q,
                   after |-> IF b THEN Remaining(c.copy) - q.units ELSE 0]
  BY <1>1 DEF Sealed
<1>4. b = TRUE
  BY <1>2, <1>3
<1>5. q.units <= Remaining(c.copy)
  BY <1>1, <1>4 DEF Authorises
<1>6. Remaining(c.copy) \in Nat /\ q.units \in Nat
  BY RemainingIsNat, SpendAssumption
<1>7. Remaining(c.copy) - q.units \in Nat
  BY <1>5, <1>6
<1>. QED BY <1>3, <1>4, <1>5, <1>7 DEF Permitted

LEMMA InitBooks == Init => Books
<1> SUFFICES ASSUME Init PROVE Books
  OBVIOUS
<1>1. Records({}) /\ UnitsOf({}) = 0 /\ IsFiniteSet({}) /\ Cardinality({}) = 0
  BY NoUnits, FS_EmptySet DEF Records
<1>2. Sound(file)
  BY <1>1 DEF Init, EmptyLedger, Sound, LedgerFields, IsLedger, AddsUp
<1>. QED BY <1>1, <1>2 DEF Init, Books, IsCommand

LEMMA SealBooks ==
  ASSUME Books, NEW p \in Processes, Seal(p)
  PROVE  Books'
<1> DEFINE c == proc[p]
<1>1. PICK r : r = Sealed(c)
  OBVIOUS
<1>2. c.request \in Requests /\ Sound(c.copy) /\ clock \in Nat
  BY DEF Books, Seal, IsCommand, Idle
<1>3. r.permits => r \in Permitted
  BY <1>1, <1>2, SealedIsPermitted
<1>4. /\ spends' = spends \cup {r}
      /\ resealed' = (resealed \/ r \in spends)
      /\ UNCHANGED <<clock, file, requests, commands, overlapped>>
  BY <1>1 DEF Seal
<1>5. PICK k : /\ Becomes(p, k)
               /\ \/ k = Idle
                  \/ r.permits /\ k = [pc |-> "asking", record |-> r]
                  \/ /\ r.permits /\ ~HasSeen(c.copy, r)
                     /\ k = Written(r, Reserved(c.copy, r), "asking")
  BY <1>1 DEF Seal
<1>6. IsCommand(k)
  <2>1. CASE k = Idle
    BY <2>1 DEF IsCommand
  <2>2. CASE r.permits /\ k = [pc |-> "asking", record |-> r]
    BY <1>3, <2>2 DEF IsCommand
  <2>3. CASE /\ r.permits /\ ~HasSeen(c.copy, r)
             /\ k = Written(r, Reserved(c.copy, r), "asking")
    <3>1. Sound(Reserved(c.copy, r)) /\ r \in Permitted
      BY <1>2, <1>3, <2>3, ReservedIsSound
    <3>. QED BY <2>3, <3>1 DEF IsCommand, Written
  <2>. QED BY <1>5, <2>1, <2>2, <2>3
<1>7. DOMAIN proc' = Processes /\ \A q \in Processes : IsCommand(proc'[q])
  BY <1>5, <1>6, CommandBecomes DEF Books
<1>. QED BY <1>3, <1>4, <1>7 DEF Books

LEMMA StartBooks ==
  ASSUME Books, NEW p \in Processes,
         \/ \E q \in Requests : Pay(p, q)
         \/ \E m \in requests : Reconcile(p, m)
  PROVE  Books'
<1>1. Starts(p) /\ UNCHANGED <<clock, file, spends, requests, resealed>>
  BY DEF Pay, Reconcile
<1>2. Sound(file) /\ commands' \in Nat /\ overlapped' \in BOOLEAN
  BY <1>1 DEF Books, Starts, Torn
<1>3. ASSUME NEW c, Becomes(p, c), IsCommand(c) PROVE Books'
  <2>1. DOMAIN proc' = Processes /\ \A q \in Processes : IsCommand(proc'[q])
    BY <1>3, CommandBecomes DEF Books
  <2>. QED BY <1>1, <1>2, <2>1 DEF Books
<1>4. ASSUME NEW q \in Requests, Pay(p, q) PROVE Books'
  <2>1. IsCommand([pc |-> "sealing", request |-> q, copy |-> file])
    BY <1>2 DEF IsCommand
  <2>. QED BY <1>3, <1>4, <2>1 DEF Pay
<1>5. ASSUME NEW m \in requests, Reconcile(p, m) PROVE Books'
  <2> DEFINE l == IF m.outcome = "failed" THEN Released(file, m.record) ELSE Settled(file, m.record)
  <2>1. m.record \in Permitted
    BY DEF Books, IsRequest
  <2>2. Sound(Released(file, m.record))
    BY <1>2, ReleasedIsSound
  <2>3. Sound(Settled(file, m.record))
    BY <1>2, <2>1, SettledIsSound
  <2>4. Becomes(p, Idle) \/ Becomes(p, Written(m.record, l, "idle"))
    BY <1>5 DEF Reconcile
  <2>5. Sound(l)
    BY <2>2, <2>3
  <2> HIDE DEF l
  <2>6. IsCommand(Idle) /\ IsCommand(Written(m.record, l, "idle"))
    BY <2>1, <2>5 DEF IsCommand, Written
  <2>. QED BY <1>3, <2>4, <2>6
<1>. QED BY <1>4, <1>5

LEMMA FileBooks ==
  ASSUME Books, NEW p \in Processes, Truncate(p) \/ Write(p) \/ Crash(p)
  PROVE  Books'
<1> DEFINE c == proc[p]
<1>1. UNCHANGED <<clock, spends, requests, commands, overlapped, resealed>>
  BY DEF Truncate, Write, Crash
<1>2. IsCommand(c) /\ (file = Torn \/ Sound(file))
  BY DEF Books
<1>3. PICK k : Becomes(p, k) /\ IsCommand(k) /\ (file' = Torn \/ Sound(file'))
  <2>1. CASE Truncate(p)
    <3>1. PICK k : k = [c EXCEPT !.pc = "writing"]
      OBVIOUS
    <3>2. c.pc = "truncating"
      BY <2>1 DEF Truncate
    <3>3. DOMAIN c = {"pc", "record", "copy", "next"} /\ c.record \in Permitted /\ Sound(c.copy)
      BY <1>2, <3>2 DEF IsCommand, Idle
    <3>4. DOMAIN k = DOMAIN c /\ k.pc = "writing" /\ k.record = c.record /\ k.copy = c.copy
      BY <3>1, <3>3
    <3>5. IsCommand(k)
      BY <3>3, <3>4 DEF IsCommand
    <3>. QED BY <2>1, <3>1, <3>5 DEF Truncate
  <2>2. CASE Write(p)
    <3>1. c.record \in Permitted /\ Sound(c.copy)
      BY <1>2, <2>2 DEF IsCommand, Idle, Write
    <3>2. IsCommand(Idle) /\ IsCommand([pc |-> "asking", record |-> c.record])
      BY <3>1 DEF IsCommand
    <3>. QED BY <2>2, <3>1, <3>2 DEF Write
  <2>3. CASE Crash(p)
    BY <1>2, <2>3 DEF Crash, IsCommand
  <2>. QED BY <2>1, <2>2, <2>3
<1>4. DOMAIN proc' = Processes /\ \A q \in Processes : IsCommand(proc'[q])
  BY <1>3, CommandBecomes DEF Books
<1>. QED BY <1>1, <1>3, <1>4 DEF Books

LEMMA AskBooks ==
  ASSUME Books, NEW p \in Processes, Ask(p)
  PROVE  Books'
<1> DEFINE c == proc[p]
<1>1. UNCHANGED <<clock, file, spends, commands, overlapped, resealed>> /\ Becomes(p, Idle)
  BY DEF Ask
<1>2. IsCommand(c) /\ c.pc = "asking"
  BY DEF Books, Ask
<1>3. c.record \in Permitted
  BY <1>2 DEF IsCommand, Idle
<1>4. PICK same : same = {m \in requests : m.record = c.record}
  OBVIOUS
<1>5. IsFiniteSet(same)
  BY <1>4, FS_Subset DEF Books
<1>6. PICK n : n = Cardinality(same) + 1
  OBVIOUS
<1>7. n \in Nat \ {0}
  BY <1>5, <1>6, FS_CardinalityType
<1>8. requests' = requests \cup {[record |-> c.record, nth |-> n, outcome |-> "unknown"]}
  BY <1>4, <1>6 DEF Ask, HandOut
<1>9. IsRequest([record |-> c.record, nth |-> n, outcome |-> "unknown"])
  BY <1>3, <1>7 DEF IsRequest
<1>10. IsFiniteSet(requests') /\ \A m \in requests' : IsRequest(m)
  BY <1>8, <1>9, FS_AddElement DEF Books
<1>11. DOMAIN proc' = Processes /\ \A q \in Processes : IsCommand(proc'[q])
  <2>1. IsCommand(Idle)
    BY DEF IsCommand
  <2>. QED BY <1>1, <2>1, CommandBecomes DEF Books
<1>. QED BY <1>1, <1>10, <1>11 DEF Books

LEMMA AnswerBooks ==
  ASSUME Books, NEW m \in requests, NEW outcome \in {"paid", "failed"}, Answer(m, outcome)
  PROVE  Books'
<1>1. PICK n : n = [m EXCEPT !.outcome = outcome]
  OBVIOUS
<1>2. IsRequest(m)
  BY DEF Books
<1>3. IsRequest(n)
  BY <1>1, <1>2 DEF IsRequest
<1>4. requests' = (requests \ {m}) \cup {n}
  BY <1>1 DEF Answer
<1>5. IsFiniteSet(requests') /\ \A x \in requests' : IsRequest(x)
  BY <1>3, <1>4, FS_AddElement, FS_RemoveElement DEF Books
<1>. QED BY <1>5 DEF Books, Answer

LEMMA BooksStep == Books /\ [Next]_vars => Books'
<1> SUFFICES ASSUME Books, [Next]_vars PROVE Books'
  OBVIOUS
<1>1. CASE Tick \/ UNCHANGED vars
  BY <1>1 DEF Books, Tick, vars
<1>2. ASSUME NEW p \in Processes,
             \/ \E q \in Requests : Pay(p, q)
             \/ \E m \in requests : Reconcile(p, m)
      PROVE  Books'
  BY <1>2, StartBooks
<1>3. ASSUME NEW p \in Processes, Seal(p) PROVE Books'
  BY <1>3, SealBooks
<1>4. ASSUME NEW p \in Processes, Truncate(p) \/ Write(p) \/ Crash(p) PROVE Books'
  BY <1>4, FileBooks
<1>5. ASSUME NEW p \in Processes, Ask(p) PROVE Books'
  BY <1>5, AskBooks
<1>6. ASSUME NEW m \in requests, NEW outcome \in {"paid", "failed"}, Answer(m, outcome)
      PROVE  Books'
  BY <1>6, AnswerBooks
<1>. QED BY <1>1, <1>2, <1>3, <1>4, <1>5, <1>6 DEF Next

(* In the file and in every copy of it, whatever overlaps and whatever     *)
(* crashes, what is spent is the sum of the distinct records settled, they *)
(* are counted once each, and none of them holds budget as well.           *)
THEOREM LedgerAlwaysAddsUp == Spec => []LedgerAddsUp
<1>1. Books => LedgerAddsUp
  <2> SUFFICES ASSUME Books PROVE LedgerAddsUp
    OBVIOUS
  <2>1. \A p \in Processes : "copy" \in DOMAIN proc[p] => Sound(proc[p].copy)
    BY DEF Books, IsCommand, Idle
  <2>2. file = Torn \/ (IsLedger(file) /\ AddsUp(file))
    BY DEF Books, Sound
  <2>. QED BY <2>1, <2>2 DEF Books, LedgerAddsUp, TypeOK, IsRequest, Sound, Torn
<1>2. Spec => []Books
  BY InitBooks, BooksStep, PTL DEF Spec
<1>. QED BY <1>1, <1>2, PTL

-----------------------------------------------------------------------------
(* The budget: what was handed out is in the ledger, and the ledger        *)
(* commits no more than the budget.                                        *)
Frugal ==
  /\ Promised <= Budget
  /\ file.readable => Committed(file) <= Budget
  /\ \A p \in Processes :
       /\ proc[p].pc \in {"truncating", "writing"} => Committed(proc[p].copy) <= Budget
       /\ proc[p].pc = "asking" => file.readable

BudgetIInv == Books /\ IInv /\ (Undisturbed => Frugal)

Asked(asked) == {m.record : m \in {n \in asked : Live(n)}}

LEMMA PromisedIsAsked == Promised = UnitsOf(Asked(requests))
BY DEF Promised, Asked

LEMMA AskedAreRecords ==
  ASSUME NEW asked, IsFiniteSet(asked), \A m \in asked : IsRequest(m)
  PROVE  Records(Asked(asked))
<1>1. PICK live : live = {m \in asked : Live(m)}
  OBVIOUS
<1>2. IsFiniteSet(live)
  BY <1>1, FS_Subset
<1>3. PICK rs : rs = {m.record : m \in live}
  OBVIOUS
<1>4. IsFiniteSet(rs)
  <2>1. PICK f : f = [m \in live |-> m.record]
    OBVIOUS
  <2>2. f \in Surjection(live, rs)
    BY <1>3, <2>1 DEF Surjection
  <2>. QED BY <1>2, <2>2, FS_Surjection
<1>. QED BY <1>1, <1>3, <1>4 DEF Records, Asked, IsRequest

LEMMA SettledOrHeld ==
  ASSUME NEW A, NEW B, Records(A), Records(B), A \cap B = {}
  PROVE  Records(A \cup B) /\ UnitsOf(A \cup B) = UnitsOf(A) + UnitsOf(B)
<1>1. PICK T : T = A \cup B
  OBVIOUS
<1>2. PICK f : f = [x \in T |-> x.request.units]
  OBVIOUS
<1>3. Records(T) /\ A \in SUBSET T /\ B = T \ A /\ IsFiniteSet(T)
  BY <1>1, FS_Union DEF Records
<1>4. \A x \in T : f[x] \in Int
  BY <1>2, <1>3, UnitsIsNat DEF Records
<1>5. SumOver(f, T) = SumOver(f, A) + SumOver(f, T \ A)
  BY <1>3, <1>4, SumInParts
<1>6. ASSUME NEW S \in SUBSET T PROVE UnitsOf(S) = SumOver(f, S)
  <2>1. PICK g : g = [x \in S |-> x.request.units]
    OBVIOUS
  <2>2. IsFiniteSet(S) /\ \A x \in S : g[x] = f[x]
    BY <1>2, <1>3, <2>1, FS_Subset
  <2>3. SumOver(g, S) = SumOver(f, S)
    BY <2>2, SumSameTerms
  <2>. QED BY <2>1, <2>3, SumIsOverDomain DEF UnitsOf
<1>7. UnitsOf(T) = SumOver(f, T) /\ UnitsOf(A) = SumOver(f, A) /\ UnitsOf(B) = SumOver(f, B)
  BY <1>3, <1>6
<1>. QED BY <1>1, <1>3, <1>5, <1>7

(* A ledger that covers the requests commits at least what they promise.   *)
LEMMA PromisedIsCommitted ==
  ASSUME NEW l, NEW asked, Sound(l), IsBook(l, asked)
  PROVE  UnitsOf(Asked(asked)) <= Committed(l)
<1>1. PICK seen : seen = l.settled \cup l.reserved
  OBVIOUS
<1>2. Records(l.settled) /\ Records(l.reserved) /\ l.settled \cap l.reserved = {}
  BY DEF Sound, AddsUp
<1>3. Records(seen) /\ UnitsOf(seen) = UnitsOf(l.settled) + UnitsOf(l.reserved)
  BY <1>1, <1>2, SettledOrHeld
<1>4. UnitsOf(seen) = Committed(l)
  BY <1>3 DEF Sound, AddsUp, Committed
<1>5. Asked(asked) \subseteq seen
  BY <1>1 DEF Asked, IsBook, Covers, HasSeen
<1>6. UnitsOf(Asked(asked)) <= UnitsOf(seen)
  BY <1>3, <1>5, FewerRecords
<1>. QED BY <1>4, <1>6

LEMMA FrugalWhenCovered ==
  ASSUME Books', Serial', file'.readable, Committed(file') <= Budget,
         \A p \in Processes : proc'[p].pc \in {"truncating", "writing"} => Committed(proc'[p].copy) <= Budget
  PROVE  Frugal'
<1>1. PICK l : l = file'
  OBVIOUS
<1>2. PICK asked : asked = requests'
  OBVIOUS
<1>3. Sound(l) /\ IsBook(l, asked) /\ IsFiniteSet(asked) /\ \A m \in asked : IsRequest(m)
  BY <1>1, <1>2 DEF Books, Serial, Torn
<1>4. UnitsOf(Asked(asked)) <= Committed(l)
  BY <1>3, PromisedIsCommitted
<1>5. UnitsOf(Asked(asked)) \in Nat /\ Committed(l) \in Nat
  BY <1>3, AskedAreRecords, UnitsAreNat, RemainingIsNat
<1>6. Promised' = UnitsOf(Asked(asked))
  BY <1>2 DEF Promised, Asked
<1>7. Promised' <= Budget
  BY <1>1, <1>4, <1>5, <1>6, SpendAssumption
<1>. QED BY <1>7 DEF Frugal

LEMMA InitFrugal == Init => Frugal
<1> SUFFICES ASSUME Init PROVE Frugal
  OBVIOUS
<1>1. Asked(requests) = {}
  BY DEF Init, Asked
<1>2. Promised = 0
  BY <1>1, NoUnits, PromisedIsAsked
<1>3. Committed(file) = 0
  BY NoUnits DEF Init, EmptyLedger, Committed
<1>4. Budget \in Nat /\ \A p \in Processes : proc[p].pc = "idle"
  BY SpendAssumption DEF Init, Idle
<1>. QED BY <1>2, <1>3, <1>4 DEF Frugal

LEMMA OthersDoNothing ==
  ASSUME DOMAIN proc = Processes, NEW p \in Processes,
         \A q \in Processes \ {p} : proc[q] = Idle,
         NEW c, Becomes(p, c), c.pc \in {"truncating", "writing"} => Committed(c.copy) <= Budget
  PROVE  \A q \in Processes :
           proc'[q].pc \in {"truncating", "writing"} => Committed(proc'[q].copy) <= Budget
<1>1. \A q \in Processes \ {p} : proc'[q].pc = "idle"
  BY DEF Becomes, Idle
<1>2. proc'[p] = c
  BY DEF Becomes
<1>. QED BY <1>1, <1>2

LEMMA SealFrugal ==
  ASSUME Books, Serial, Frugal, Books', Serial', NEW p \in Processes, Seal(p)
  PROVE  Frugal'
<1> DEFINE c == proc[p]
<1>1. PICK r : r = Sealed(c)
  OBVIOUS
<1>2. PICK l : l = file
  OBVIOUS
<1>3. c.pc = "sealing" /\ c # Idle /\ DOMAIN proc = Processes
  BY DEF Seal, Idle, Books
<1>4. \A q \in Processes \ {p} : proc[q] = Idle
  BY <1>3, OthersAreIdle
<1>5. /\ l.readable /\ c.copy = l /\ Sound(l) /\ clock \in Nat /\ c.request \in Requests
  BY <1>2, <1>3 DEF Books, Serial, Fits, Torn, IsCommand
<1>6. Committed(l) <= Budget /\ file' = l
  BY <1>2, <1>5 DEF Frugal, Seal
<1>7. PICK k : /\ Becomes(p, k)
               /\ \/ k = Idle
                  \/ k = [pc |-> "asking", record |-> r]
                  \/ /\ r.permits /\ ~HasSeen(l, r)
                     /\ k = Written(r, Reserved(l, r), "asking")
  BY <1>1, <1>5 DEF Seal
<1>8. k.pc \in {"truncating", "writing"} => Committed(k.copy) <= Budget
  <2>1. SUFFICES ASSUME r.permits, ~HasSeen(l, r), k = Written(r, Reserved(l, r), "asking")
                 PROVE  Committed(Reserved(l, r)) <= Budget
    BY <1>7 DEF Idle, Written
  <2>2. r \in Permitted /\ r.request.units <= Remaining(l)
    BY <1>1, <1>5, <2>1, SealedIsPermitted
  <2>3. Committed(Reserved(l, r)) = Committed(l) + r.request.units
    BY <1>5, <2>1, <2>2, ReservedIsSound
  <2>4. Committed(l) \in Nat /\ r.request.units \in Nat
    BY <1>5, <2>2, RemainingIsNat, UnitsIsNat
  <2>5. Remaining(l) = Budget - Committed(l)
    BY <1>6 DEF Remaining
  <2>. QED BY <2>2, <2>3, <2>4, <2>5, SpendAssumption
<1>9. \A q \in Processes :
        proc'[q].pc \in {"truncating", "writing"} => Committed(proc'[q].copy) <= Budget
  BY <1>3, <1>4, <1>7, <1>8, OthersDoNothing
<1>. QED BY <1>5, <1>6, <1>9, FrugalWhenCovered

LEMMA StartFrugal ==
  ASSUME Books, Serial, Frugal, Books', Serial', NEW p \in Processes, ~overlapped',
         \/ \E q \in Requests : Pay(p, q)
         \/ \E m \in requests : Reconcile(p, m)
  PROVE  Frugal'
<1>1. Starts(p) /\ UNCHANGED <<file, requests>> /\ DOMAIN proc = Processes
  BY DEF Pay, Reconcile, Books
<1>2. file.readable /\ \A q \in Processes \ {p} : proc[q] = Idle
  BY <1>1, StartsAlone
<1>3. PICK l : l = file
  OBVIOUS
<1>4. /\ Sound(l) /\ Committed(l) <= Budget /\ Committed(l) \in Nat
      /\ file' = l /\ l.readable
  BY <1>1, <1>2, <1>3, RemainingIsNat DEF Books, Torn, Frugal
<1>5. ASSUME NEW c, Becomes(p, c), c.pc \in {"truncating", "writing"} => Committed(c.copy) <= Budget
      PROVE  Frugal'
  <2>1. \A q \in Processes :
          proc'[q].pc \in {"truncating", "writing"} => Committed(proc'[q].copy) <= Budget
    BY <1>1, <1>2, <1>5, OthersDoNothing
  <2>. QED BY <1>4, <2>1, FrugalWhenCovered
<1>6. ASSUME NEW q \in Requests, Pay(p, q) PROVE Frugal'
  BY <1>5, <1>6 DEF Pay
<1>7. ASSUME NEW m \in requests, Reconcile(p, m) PROVE Frugal'
  <2>1. PICK r : r = m.record
    OBVIOUS
  <2>2. r \in Permitted
    BY <2>1 DEF Books, IsRequest
  <2>3. PICK k : k = IF m.outcome = "failed" THEN Released(l, r) ELSE Settled(l, r)
    OBVIOUS
  <2>4. Becomes(p, Idle) \/ Becomes(p, Written(r, k, "idle"))
    BY <1>3, <1>7, <2>1, <2>3 DEF Reconcile
  <2>5. Committed(k) <= Budget
    <3>1. CASE m.outcome = "failed"
      <4>1. Sound(k) /\ Committed(k) <= Committed(l)
        BY <1>4, <2>3, <3>1, ReleasedIsSound
      <4>2. Committed(k) \in Nat
        BY <4>1, RemainingIsNat
      <4>. QED BY <1>4, <4>1, <4>2, SpendAssumption
    <3>2. CASE m.outcome # "failed"
      <4>1. HasSeen(l, r)
        BY <1>2, <1>3, <2>1, <3>2 DEF Serial, IsBook, Covers, Live
      <4>2. Committed(Settled(l, r)) = Committed(l)
        BY <1>4, <2>2, <4>1, SettledIsSound
      <4>. QED BY <1>4, <2>3, <3>2, <4>2
    <3>. QED BY <3>1, <3>2
  <2>. QED BY <1>5, <2>4, <2>5 DEF Idle, Written
<1>. QED BY <1>6, <1>7

LEMMA FileFrugal ==
  ASSUME Books, Serial, Frugal, Books', Serial', NEW p \in Processes,
         Truncate(p) \/ Write(p) \/ Crash(p)
  PROVE  Frugal'
<1> DEFINE c == proc[p]
<1>1. c # Idle /\ DOMAIN proc = Processes
  BY DEF Truncate, Write, Crash, Idle, Books
<1>2. \A q \in Processes \ {p} : proc[q] = Idle
  BY <1>1, OthersAreIdle
<1>3. Promised' = Promised
  BY DEF Promised, Truncate, Write, Crash
<1>4. CASE Truncate(p)
  <2>1. PICK k : k = [c EXCEPT !.pc = "writing"]
    OBVIOUS
  <2>2. IsCommand(c) /\ c.pc = "truncating"
    BY <1>4 DEF Books, Truncate
  <2>3. DOMAIN c = {"pc", "record", "copy", "next"}
    BY <2>2 DEF IsCommand, Idle
  <2>4. k.copy = c.copy /\ k.pc = "writing" /\ Becomes(p, k) /\ ~file'.readable
    BY <1>4, <2>1, <2>3 DEF Truncate, Torn
  <2>5. Committed(k.copy) <= Budget
    BY <2>2, <2>4 DEF Frugal
  <2>6. \A q \in Processes :
          proc'[q].pc \in {"truncating", "writing"} => Committed(proc'[q].copy) <= Budget
    BY <1>1, <1>2, <2>4, <2>5, OthersDoNothing
  <2>7. \A q \in Processes : proc'[q].pc # "asking"
    BY <1>1, <1>2, <2>4 DEF Becomes, Idle
  <2>. QED BY <1>3, <2>4, <2>6, <2>7 DEF Frugal
<1>5. CASE Write(p)
  <2>1. PICK k : Becomes(p, k) /\ k.pc \notin {"truncating", "writing"}
    BY <1>5 DEF Write, Idle
  <2>2. \A q \in Processes :
          proc'[q].pc \in {"truncating", "writing"} => Committed(proc'[q].copy) <= Budget
    BY <1>1, <1>2, <2>1, OthersDoNothing
  <2>3. IsCommand(c) /\ c.pc = "writing" /\ file' = c.copy
    BY <1>5 DEF Books, Write
  <2>4. Sound(c.copy) /\ Committed(c.copy) <= Budget
    BY <2>3 DEF IsCommand, Idle, Frugal
  <2>5. file'.readable /\ Committed(file') <= Budget
    BY <2>3, <2>4 DEF Sound, IsLedger
  <2>. QED BY <2>2, <2>5, FrugalWhenCovered
<1>6. CASE Crash(p)
  <2>1. \A q \in Processes : proc'[q].pc = "idle"
    BY <1>1, <1>2, <1>6 DEF Crash, Becomes, Idle
  <2>2. file' = file
    BY <1>6 DEF Crash
  <2>. QED BY <1>3, <2>1, <2>2 DEF Frugal
<1>. QED BY <1>4, <1>5, <1>6

LEMMA AskFrugal ==
  ASSUME Books, Serial, Frugal, Books', Serial', NEW p \in Processes, Ask(p)
  PROVE  Frugal'
<1>1. proc[p].pc = "asking" /\ proc[p] # Idle /\ DOMAIN proc = Processes
  BY DEF Ask, Idle, Books
<1>2. \A q \in Processes \ {p} : proc[q] = Idle
  BY <1>1, OthersAreIdle
<1>3. file.readable /\ file' = file /\ Becomes(p, Idle)
  BY <1>1 DEF Frugal, Ask
<1>4. file'.readable /\ Committed(file') <= Budget
  BY <1>3 DEF Frugal
<1>5. Idle.pc \notin {"truncating", "writing"}
  BY DEF Idle
<1>6. \A q \in Processes :
        proc'[q].pc \in {"truncating", "writing"} => Committed(proc'[q].copy) <= Budget
  BY <1>1, <1>2, <1>3, <1>5, OthersDoNothing
<1>. QED BY <1>4, <1>6, FrugalWhenCovered

LEMMA AnswerFrugal ==
  ASSUME Books, Frugal, Books', NEW m \in requests, NEW outcome \in {"paid", "failed"},
         Answer(m, outcome)
  PROVE  Frugal'
<1>1. UNCHANGED <<file, proc>> /\ m.outcome = "unknown" /\ IsRequest(m)
  BY DEF Answer, Books
<1>2. PICK n : n = [m EXCEPT !.outcome = outcome]
  OBVIOUS
<1>3. n.record = m.record /\ requests' = (requests \ {m}) \cup {n} /\ Live(m)
  BY <1>1, <1>2 DEF IsRequest, Answer, Live
<1>4. PICK before : before = Asked(requests)
  OBVIOUS
<1>5. PICK after : after = Asked(requests')
  OBVIOUS
<1>6. after \subseteq before
  BY <1>3, <1>4, <1>5 DEF Asked
<1>7. Records(before)
  BY <1>4, AskedAreRecords DEF Books
<1>8. Records(after) /\ UnitsOf(after) <= UnitsOf(before)
  BY <1>6, <1>7, FewerRecords
<1>9. UnitsOf(after) \in Nat /\ UnitsOf(before) \in Nat
  BY <1>7, <1>8, UnitsAreNat
<1>10. Promised = UnitsOf(before) /\ Promised' = UnitsOf(after)
  BY <1>4, <1>5 DEF Promised, Asked
<1>11. Promised' <= Budget
  BY <1>8, <1>9, <1>10, SpendAssumption DEF Frugal
<1>. QED BY <1>1, <1>11 DEF Frugal

LEMMA BudgetStep == BudgetIInv /\ [Next]_vars => BudgetIInv'
<1> SUFFICES ASSUME BudgetIInv, [Next]_vars PROVE BudgetIInv'
  OBVIOUS
<1>1. Books' /\ IInv'
  BY BooksStep, IInvStep DEF BudgetIInv
<1>2. Undisturbed' => Undisturbed
  BY DEF Undisturbed, Next, vars, Tick, Pay, Seal, Truncate, Write, Ask, Reconcile, Crash, Answer, Starts
<1>3. SUFFICES ASSUME Undisturbed' PROVE Frugal'
  BY <1>1 DEF BudgetIInv
<1>4. Books /\ Serial /\ Frugal /\ Books' /\ Serial' /\ ~overlapped'
  BY <1>1, <1>2, <1>3 DEF BudgetIInv, IInv, Undisturbed
<1>5. CASE Tick \/ UNCHANGED vars
  BY <1>4, <1>5 DEF Tick, vars, Frugal, Promised
<1>6. ASSUME NEW p \in Processes,
             \/ \E q \in Requests : Pay(p, q)
             \/ \E m \in requests : Reconcile(p, m)
      PROVE  Frugal'
  BY <1>4, <1>6, StartFrugal
<1>7. ASSUME NEW p \in Processes, Seal(p) PROVE Frugal'
  BY <1>4, <1>7, SealFrugal
<1>8. ASSUME NEW p \in Processes, Truncate(p) \/ Write(p) \/ Crash(p) PROVE Frugal'
  BY <1>4, <1>8, FileFrugal
<1>9. ASSUME NEW p \in Processes, Ask(p) PROVE Frugal'
  BY <1>4, <1>9, AskFrugal
<1>10. ASSUME NEW m \in requests, NEW outcome \in {"paid", "failed"}, Answer(m, outcome)
       PROVE  Frugal'
  BY <1>4, <1>10, AnswerFrugal
<1>. QED BY <1>5, <1>6, <1>7, <1>8, <1>9, <1>10 DEF Next

(* Commands that do not overlap, and seal no record twice, never promise   *)
(* more than the budget, for any requests and limits, wherever they crash  *)
(* and however late and often receipts are reconciled.                     *)
THEOREM BudgetIsAlwaysKept == Spec => []BudgetIsKept
<1>1. Init => BudgetIInv
  BY InitBooks, InitIInv, InitFrugal DEF BudgetIInv
<1>2. BudgetIInv => BudgetIsKept
  BY DEF BudgetIInv, Frugal, BudgetIsKept
<1>3. Spec => []BudgetIInv
  BY <1>1, BudgetStep, PTL DEF Spec
<1>. QED BY <1>2, <1>3, PTL

-----------------------------------------------------------------------------
(***************************************************************************)
(* The tree of ClaimBatch, level by level.  What is defined by recursion   *)
(* is unfolded by the smallest counterexample (UpTo): a level halves the   *)
(* one below it, every node stands for a run of claims, so a walk from a   *)
(* leaf to the root passes the nodes of one claim only.                    *)
(***************************************************************************)
(* Functions on 0 .. n that are defined by recursion.                      *)
LEMMA UpTo ==
  ASSUME NEW n \in Nat, NEW T, 0 \in T, \A k \in 0 .. n - 1 : k \in T => k + 1 \in T
  PROVE  \A k \in 0 .. n : k \in T
<1>. DEFINE Bad == {k \in 0 .. n : k \notin T}
<1>1. ASSUME Bad # {} PROVE FALSE
  <2>1. Bad \in SUBSET Nat
    OBVIOUS
  <2>2. PICK k \in Bad : \A j \in Bad : k <= j
    <3>. HIDE DEF Bad
    <3>. QED BY <1>1, <2>1, LeastNumber
  <2>3. k # 0 /\ k - 1 \in 0 .. n - 1 /\ k - 1 \in 0 .. n
    BY <2>2
  <2>4. k - 1 \notin Bad
    BY <2>2, <2>3
  <2>5. (k - 1) + 1 \in T /\ (k - 1) + 1 = k
    BY <2>2, <2>3, <2>4
  <2>. QED BY <2>2, <2>5
<1>. QED BY <1>1

(* A function on 1 .. n is a sequence of what it holds.                    *)
LEMMA SequenceOfRange ==
  ASSUME NEW t, NEW n \in Nat, t = [k \in 1 .. n |-> t[k]]
  PROVE  t \in Seq(Range(t)) /\ Len(t) = n /\ DOMAIN t = 1 .. n
<1>1. DOMAIN t = 1 .. n
  OBVIOUS
<1>2. PICK S : S = Range(t)
  OBVIOUS
<1>3. \A k \in 1 .. n : t[k] \in S
  BY <1>1, <1>2 DEF Range
<1>4. t \in Seq(S)
  BY <1>3
<1>. QED BY <1>1, <1>2, <1>4, LenProperties

NextOf(f, claims, k) == IF k = 0 THEN Level0(claims) ELSE NextLevel(f[k - 1])

LEMMA LevelsExist ==
  ASSUME NEW claims, NEW n \in Nat
  PROVE  \E f : f = [k \in 0 .. n |-> NextOf(f, claims, k)]
<1>. DEFINE Fine(m) == \E f : f = [k \in 0 .. m |-> NextOf(f, claims, k)]
            T == {m \in Nat : Fine(m)}
<1>1. Fine(0)
  <2>. DEFINE f == [k \in 0 .. 0 |-> Level0(claims)]
  <2>1. f = [k \in 0 .. 0 |-> NextOf(f, claims, k)]
    BY DEF NextOf
  <2>. QED BY <2>1
<1>2. ASSUME NEW m \in Nat, Fine(m) PROVE Fine(m + 1)
  <2>1. PICK f : f = [k \in 0 .. m |-> NextOf(f, claims, k)]
    BY <1>2
  <2>. DEFINE g == [k \in 0 .. m + 1 |-> NextOf(f, claims, k)]
  <2>2. \A k \in 0 .. m : g[k] = f[k]
    BY <2>1
  <2>3. ASSUME NEW k \in 0 .. m + 1 PROVE NextOf(f, claims, k) = NextOf(g, claims, k)
    <3>1. k = 0 \/ k - 1 \in 0 .. m
      OBVIOUS
    <3>. HIDE DEF g
    <3>. QED BY <2>2, <3>1 DEF NextOf
  <2>4. g = [k \in 0 .. m + 1 |-> NextOf(g, claims, k)]
    BY <2>3
  <2>. HIDE DEF g
  <2>. QED BY <2>4
<1>. HIDE DEF Fine
<1>3. 0 \in T /\ \A k \in 0 .. n - 1 : k \in T => k + 1 \in T
  BY <1>1, <1>2
<1>4. n \in T
  <2>. HIDE DEF T
  <2>. QED BY <1>3, UpTo
<1>5. Fine(n)
  BY <1>4
<1>. QED BY <1>5 DEF Fine

LEMMA LevelsUnfold ==
  ASSUME NEW claims, Len(claims) \in Nat \ {0}
  PROVE  /\ Levels(claims)[0] = Level0(claims)
         /\ \A k \in 1 .. Len(claims) - 1 : Levels(claims)[k] = NextLevel(Levels(claims)[k - 1])
<1>. DEFINE level == CHOOSE level : level = [k \in 0 .. Len(claims) - 1 |-> NextOf(level, claims, k)]
<1>1. level = [k \in 0 .. Len(claims) - 1 |-> NextOf(level, claims, k)]
  <2>1. PICK n \in Nat : n = Len(claims) - 1
    OBVIOUS
  <2>2. PICK f : f = [k \in 0 .. n |-> NextOf(f, claims, k)]
    BY LevelsExist
  <2>. QED BY <2>1, <2>2
<1>2. Levels(claims) = level
  BY DEF Levels, NextOf
<1>. HIDE DEF level
<1>3. \A k \in 0 .. Len(claims) - 1 : level[k] = NextOf(level, claims, k)
  BY <1>1
<1>. QED BY <1>2, <1>3 DEF NextOf

-----------------------------------------------------------------------------
(* The shape of a batch.                                                   *)
IsLevel(level, n) == level \in Seq(Range(level)) /\ Len(level) = n /\ DOMAIN level = 1 .. n

LEMMA NextLevelShape ==
  ASSUME NEW level, NEW n \in Nat \ {0}, IsLevel(level, n)
  PROVE  IsLevel(NextLevel(level), (n + 1) \div 2)
<1>. DEFINE m == (n + 1) \div 2
            up == NextLevel(level)
<1>1. m \in Nat /\ DOMAIN up = 1 .. m
  BY DEF NextLevel, IsLevel
<1>2. up = [k \in 1 .. m |-> up[k]]
  BY DEF NextLevel, IsLevel
<1>. HIDE DEF up, m
<1>3. up \in Seq(Range(up)) /\ Len(up) = m
  BY <1>1, <1>2, SequenceOfRange
<1>. QED BY <1>1, <1>3 DEF IsLevel, up, m

LEMMA LevelShape ==
  ASSUME NEW claims, NEW n \in Nat \ {0}, IsLevel(claims, n)
  PROVE  \A k \in 0 .. n - 1 : \E w \in 1 .. n - k : IsLevel(Levels(claims)[k], w)
<1>. DEFINE levels == Levels(claims)
            T == {k \in 0 .. n - 1 : \E w \in 1 .. n - k : IsLevel(levels[k], w)}
<1>0. levels[0] = Level0(claims) /\ \A k \in 1 .. n - 1 : levels[k] = NextLevel(levels[k - 1])
  BY LevelsUnfold DEF IsLevel
<1>. HIDE DEF levels
<1>1. 0 \in T
  <2>. DEFINE leaf == Level0(claims)
  <2>1. DOMAIN leaf = 1 .. n /\ leaf = [k \in 1 .. n |-> leaf[k]]
    BY DEF Level0, IsLevel
  <2>. HIDE DEF leaf
  <2>2. leaf \in Seq(Range(leaf)) /\ Len(leaf) = n
    BY <2>1, SequenceOfRange
  <2>5. IsLevel(levels[0], n)
    BY <1>0, <2>1, <2>2 DEF IsLevel, leaf
  <2>. QED BY <2>5
<1>2. ASSUME NEW k \in 0 .. n - 2, k \in T PROVE k + 1 \in T
  <2>1. PICK w \in 1 .. n - k : IsLevel(levels[k], w)
    BY <1>2
  <2>2. levels[k + 1] = NextLevel(levels[k])
    <3>1. k + 1 \in 1 .. n - 1 /\ (k + 1) - 1 = k
      OBVIOUS
    <3>. QED BY <1>0, <3>1
  <2>3. IsLevel(levels[k + 1], (w + 1) \div 2)
    BY <2>1, <2>2, NextLevelShape
  <2>4. (w + 1) \div 2 \in 1 .. n - (k + 1)
    BY <1>2
  <2>. QED BY <2>3, <2>4
<1>3. \A k \in 0 .. n - 1 : k \in T
  <2>1. PICK m \in Nat : m = n - 1
    OBVIOUS
  <2>2. \A k \in 0 .. m - 1 : k \in T => k + 1 \in T
    BY <1>2, <2>1
  <2>. HIDE DEF T
  <2>. QED BY <1>1, <2>1, <2>2, UpTo
<1>. QED BY <1>3 DEF levels

-----------------------------------------------------------------------------
(* The tree holds the claims' leaves and the nodes above them, and nothing *)
(* else: whatever hashes to a node of the tree is in the tree.             *)
IsNode(claims, k, x) == \E p \in DOMAIN Levels(claims)[k] : x = Levels(claims)[k][p]

InTree(claims, x) == \E k \in 0 .. Len(claims) - 1 : IsNode(claims, k, x)

IsLeaf(claims, x) == \E i \in DOMAIN claims : x = HashLeaf(i - 1, claims[i])

IsPair(claims, x) == \E left, right : InTree(claims, left) /\ InTree(claims, right) /\ x = HashNode(left, right)

LEMMA NextLevelNodes ==
  ASSUME NEW level, NEW n \in Nat \ {0}, IsLevel(level, n), NEW p \in DOMAIN NextLevel(level)
  PROVE  \/ \E q \in DOMAIN level : NextLevel(level)[p] = level[q]
         \/ \E q, r \in DOMAIN level : NextLevel(level)[p] = HashNode(level[q], level[r])
<1>1. p \in 1 .. (n + 1) \div 2 /\ Len(level) = n /\ DOMAIN level = 1 .. n
  BY DEF NextLevel, IsLevel
<1>2. NextLevel(level)[p] = IF 2 * p <= n THEN HashNode(level[2 * p - 1], level[2 * p]) ELSE level[n]
  BY <1>1 DEF NextLevel
<1>3. CASE 2 * p <= n
  <2>1. 2 * p - 1 \in DOMAIN level /\ 2 * p \in DOMAIN level
    BY <1>1, <1>3
  <2>. QED BY <1>2, <1>3, <2>1
<1>4. CASE ~(2 * p <= n)
  <2>1. n \in DOMAIN level
    BY <1>1
  <2>. QED BY <1>2, <1>4, <2>1
<1>. QED BY <1>3, <1>4

LEMMA TreeNodes ==
  ASSUME NEW claims, NEW n \in Nat \ {0}, IsLevel(claims, n), NEW x, InTree(claims, x)
  PROVE  IsLeaf(claims, x) \/ IsPair(claims, x)
<1>. DEFINE levels == Levels(claims)
            Known(y) == IsLeaf(claims, y) \/ IsPair(claims, y)
            T == {k \in 0 .. n - 1 : \A y : IsNode(claims, k, y) => Known(y)}
<1>0. /\ levels[0] = Level0(claims) /\ \A k \in 1 .. n - 1 : levels[k] = NextLevel(levels[k - 1])
      /\ Len(claims) = n /\ DOMAIN claims = 1 .. n
  BY LevelsUnfold DEF IsLevel
<1>1. 0 \in T
  <2>1. ASSUME NEW p \in DOMAIN levels[0] PROVE IsLeaf(claims, levels[0][p])
    <3>1. p \in DOMAIN claims /\ levels[0][p] = HashLeaf(p - 1, claims[p])
      BY <1>0 DEF Level0
    <3>. QED BY <3>1 DEF IsLeaf
  <2>. HIDE DEF levels
  <2>. QED BY <2>1 DEF IsNode, levels
<1>2. ASSUME NEW k \in 0 .. n - 2, k \in T PROVE k + 1 \in T
  <2>1. PICK w \in 1 .. n - k : IsLevel(levels[k], w)
    BY LevelShape
  <2>2. levels[k + 1] = NextLevel(levels[k])
    <3>1. k + 1 \in 1 .. n - 1 /\ (k + 1) - 1 = k
      OBVIOUS
    <3>. QED BY <1>0, <3>1
  <2>3. ASSUME NEW p \in DOMAIN levels[k + 1] PROVE Known(levels[k + 1][p])
    <3>. DEFINE y == levels[k + 1][p]
    <3>1. \/ \E q \in DOMAIN levels[k] : y = levels[k][q]
          \/ \E q, r \in DOMAIN levels[k] : y = HashNode(levels[k][q], levels[k][r])
      BY <2>1, <2>2, NextLevelNodes
    <3>2. \A q \in DOMAIN levels[k] : IsNode(claims, k, levels[k][q])
      BY DEF IsNode
    <3>3. \A q \in DOMAIN levels[k] : InTree(claims, levels[k][q])
      <4>1. k \in 0 .. Len(claims) - 1
        BY <1>0
      <4>. QED BY <3>2, <4>1 DEF InTree
    <3>4. \A q \in DOMAIN levels[k] : Known(levels[k][q])
      BY <1>2, <3>2
    <3>. HIDE DEF levels
    <3>. QED BY <3>1, <3>3, <3>4 DEF IsPair
  <2>4. \A y : IsNode(claims, k + 1, y) => Known(y)
    <3>. HIDE DEF Known
    <3>. QED BY <2>3 DEF IsNode
  <2>. HIDE DEF Known
  <2>. QED BY <2>4
<1>3. \A k \in 0 .. n - 1 : k \in T
  <2>1. PICK m \in Nat : m = n - 1
    OBVIOUS
  <2>2. \A k \in 0 .. m - 1 : k \in T => k + 1 \in T
    BY <1>2, <2>1
  <2>. HIDE DEF T
  <2>. QED BY <1>1, <2>1, <2>2, UpTo
<1>. HIDE DEF Known
<1>. QED BY <1>0, <1>3 DEF InTree, Known

LEMMA BelowANode ==
  ASSUME NEW claims, NEW n \in Nat \ {0}, IsLevel(claims, n),
         NEW left, NEW right, InTree(claims, HashNode(left, right))
  PROVE  InTree(claims, left) /\ InTree(claims, right)
<1>1. IsLeaf(claims, HashNode(left, right)) \/ IsPair(claims, HashNode(left, right))
  BY TreeNodes
<1>2. ~IsLeaf(claims, HashNode(left, right))
  BY DEF IsLeaf, HashLeaf, HashNode
<1>. QED BY <1>1, <1>2 DEF IsPair, HashNode

LEMMA LeavesAreClaims ==
  ASSUME NEW claims, NEW n \in Nat \ {0}, IsLevel(claims, n),
         NEW index \in Nat, NEW digest, InTree(claims, HashLeaf(index, digest))
  PROVE  index + 1 \in DOMAIN claims /\ claims[index + 1] = digest
<1>1. IsLeaf(claims, HashLeaf(index, digest)) \/ IsPair(claims, HashLeaf(index, digest))
  BY TreeNodes
<1>2. ~IsPair(claims, HashLeaf(index, digest))
  BY DEF IsPair, HashLeaf, HashNode
<1>3. PICK i \in DOMAIN claims : HashLeaf(index, digest) = HashLeaf(i - 1, claims[i])
  BY <1>1, <1>2 DEF IsLeaf
<1>4. index = i - 1 /\ digest = claims[i]
  BY <1>3 DEF HashLeaf
<1>5. i \in 1 .. n
  BY DEF IsLevel
<1>6. i = index + 1
  BY <1>4, <1>5
<1>. QED BY <1>4, <1>6

-----------------------------------------------------------------------------
(* Climbing from a leaf: what verifyInclusion computes, step by step.      *)
ClimbTo(f, leaf, steps, k) == IF k = 0 THEN leaf ELSE Climb(f[k - 1], steps[k])

IsClimb(f, leaf, steps, n) == f[0] = leaf /\ \A k \in 1 .. n : f[k] = Climb(f[k - 1], steps[k])

LEMMA ClimbExists ==
  ASSUME NEW leaf, NEW steps, NEW n \in Nat
  PROVE  \E f : f = [k \in 0 .. n |-> ClimbTo(f, leaf, steps, k)]
<1>. DEFINE Fine(m) == \E f : f = [k \in 0 .. m |-> ClimbTo(f, leaf, steps, k)]
            T == {m \in Nat : Fine(m)}
<1>1. Fine(0)
  <2>. DEFINE f == [k \in 0 .. 0 |-> leaf]
  <2>1. f = [k \in 0 .. 0 |-> ClimbTo(f, leaf, steps, k)]
    BY DEF ClimbTo
  <2>. QED BY <2>1
<1>2. ASSUME NEW m \in Nat, Fine(m) PROVE Fine(m + 1)
  <2>1. PICK f : f = [k \in 0 .. m |-> ClimbTo(f, leaf, steps, k)]
    BY <1>2
  <2>. DEFINE g == [k \in 0 .. m + 1 |-> ClimbTo(f, leaf, steps, k)]
  <2>2. \A k \in 0 .. m : g[k] = f[k]
    BY <2>1
  <2>3. ASSUME NEW k \in 0 .. m + 1 PROVE ClimbTo(f, leaf, steps, k) = ClimbTo(g, leaf, steps, k)
    <3>1. k = 0 \/ k - 1 \in 0 .. m
      OBVIOUS
    <3>. HIDE DEF g
    <3>. QED BY <2>2, <3>1 DEF ClimbTo
  <2>4. g = [k \in 0 .. m + 1 |-> ClimbTo(g, leaf, steps, k)]
    BY <2>3
  <2>. HIDE DEF g
  <2>. QED BY <2>4
<1>. HIDE DEF Fine
<1>3. 0 \in T /\ \A k \in 0 .. n - 1 : k \in T => k + 1 \in T
  BY <1>1, <1>2
<1>4. n \in T
  <2>. HIDE DEF T
  <2>. QED BY <1>3, UpTo
<1>5. Fine(n)
  BY <1>4
<1>. QED BY <1>5 DEF Fine

LEMMA ClimbUnfolds ==
  ASSUME NEW leaf, NEW steps, Len(steps) \in Nat
  PROVE  \E f : IsClimb(f, leaf, steps, Len(steps)) /\ Climbed(leaf, steps) = f[Len(steps)]
<1>. DEFINE node == CHOOSE node : node = [k \in 0 .. Len(steps) |-> ClimbTo(node, leaf, steps, k)]
<1>1. node = [k \in 0 .. Len(steps) |-> ClimbTo(node, leaf, steps, k)]
  <2>1. PICK n \in Nat : n = Len(steps)
    OBVIOUS
  <2>2. PICK f : f = [k \in 0 .. n |-> ClimbTo(f, leaf, steps, k)]
    BY ClimbExists
  <2>. QED BY <2>1, <2>2
<1>2. Climbed(leaf, steps) = node[Len(steps)]
  BY DEF Climbed, ClimbTo
<1>. HIDE DEF node
<1>3. \A k \in 0 .. Len(steps) : node[k] = ClimbTo(node, leaf, steps, k)
  BY <1>1
<1>4. IsClimb(node, leaf, steps, Len(steps))
  BY <1>3 DEF ClimbTo, IsClimb
<1>. QED BY <1>2, <1>4

(* Climbs that share their first steps share the nodes.                    *)
LEMMA ClimbsAgree ==
  ASSUME NEW leaf, NEW steps, NEW more, NEW n \in Nat, NEW f, NEW g,
         IsClimb(f, leaf, steps, n), IsClimb(g, leaf, more, n),
         \A k \in 1 .. n : steps[k] = more[k]
  PROVE  f[n] = g[n]
<1>. DEFINE T == {k \in 0 .. n : f[k] = g[k]}
<1>1. 0 \in T
  BY DEF IsClimb
<1>2. ASSUME NEW k \in 0 .. n - 1, k \in T PROVE k + 1 \in T
  <2>1. k + 1 \in 1 .. n /\ (k + 1) - 1 = k
    OBVIOUS
  <2>2. f[k + 1] = Climb(f[k], steps[k + 1]) /\ g[k + 1] = Climb(g[k], more[k + 1])
    BY <2>1 DEF IsClimb
  <2>. QED BY <1>2, <2>1, <2>2
<1>3. n \in T
  <2>. HIDE DEF T
  <2>. QED BY <1>1, <1>2, UpTo
<1>. QED BY <1>3

LEMMA NoClimb ==
  ASSUME NEW leaf
  PROVE  Climbed(leaf, <<>>) = leaf
<1>1. PICK f : IsClimb(f, leaf, <<>>, Len(<<>>)) /\ Climbed(leaf, <<>>) = f[Len(<<>>)]
  BY ClimbUnfolds
<1>. QED BY <1>1 DEF IsClimb

LEMMA OneStepUp ==
  ASSUME NEW S, NEW leaf, NEW steps \in Seq(S), NEW step \in S
  PROVE  Climbed(leaf, steps \o <<step>>) = Climb(Climbed(leaf, steps), step)
<1>. DEFINE n == Len(steps)
            more == steps \o <<step>>
<1>1. /\ n \in Nat /\ Len(more) = n + 1 /\ more[n + 1] = step
      /\ \A k \in 1 .. n : more[k] = steps[k]
  OBVIOUS
<1>. HIDE DEF n, more
<1>2. PICK f : IsClimb(f, leaf, steps, n) /\ Climbed(leaf, steps) = f[n]
  BY <1>1, ClimbUnfolds DEF n
<1>3. PICK g : IsClimb(g, leaf, more, n + 1) /\ Climbed(leaf, more) = g[n + 1]
  BY <1>1, ClimbUnfolds
<1>4. IsClimb(g, leaf, more, n)
  BY <1>1, <1>3 DEF IsClimb
<1>5. f[n] = g[n]
  BY <1>1, <1>2, <1>4, ClimbsAgree
<1>6. g[n + 1] = Climb(g[n], step)
  <2>1. n + 1 \in 1 .. n + 1 /\ (n + 1) - 1 = n
    BY <1>1
  <2>. QED BY <1>1, <1>3, <2>1 DEF IsClimb
<1>. QED BY <1>2, <1>3, <1>5, <1>6 DEF more

(* A proof that the contract accepts is for a claim of the batch and its   *)
(* index, whatever steps it is made of.                                    *)
THEOREM AcceptedIsClaimed ==
  ASSUME NEW claims, NEW n \in Nat \ {0}, IsLevel(claims, n),
         NEW index \in Nat, NEW digest, NEW steps, Len(steps) \in Nat,
         VerifyInclusion(Root(claims), digest, index, steps)
  PROVE  index + 1 \in DOMAIN claims /\ claims[index + 1] = digest
<1>. DEFINE m == Len(steps)
            leaf == HashLeaf(index, digest)
<1>1. PICK f : IsClimb(f, leaf, steps, m) /\ Root(claims) = f[m]
  BY ClimbUnfolds DEF VerifyInclusion
<1>2. InTree(claims, Root(claims))
  <2>1. Len(claims) = n
    BY DEF IsLevel
  <2>2. PICK w \in 1 .. n - (n - 1) : IsLevel(Levels(claims)[n - 1], w)
    BY LevelShape
  <2>3. 1 \in DOMAIN Levels(claims)[n - 1]
    BY <2>2 DEF IsLevel
  <2>. QED BY <2>1, <2>3 DEF Root, InTree, IsNode
<1>. DEFINE T == {j \in Nat : j <= m => InTree(claims, f[m - j])}
<1>. HIDE DEF leaf
<1>3. 0 \in T
  BY <1>1, <1>2
<1>4. ASSUME NEW j \in 0 .. m - 1, j \in T PROVE j + 1 \in T
  <2>. DEFINE k == m - j
  <2>1. k \in 1 .. m /\ m - (j + 1) = k - 1 /\ InTree(claims, f[k])
    BY <1>4
  <2>2. f[k] = Climb(f[k - 1], steps[k])
    BY <1>1, <2>1 DEF IsClimb
  <2>3. \E s : f[k] = HashNode(s, f[k - 1]) \/ f[k] = HashNode(f[k - 1], s)
    BY <2>2 DEF Climb
  <2>. HIDE DEF k
  <2>4. InTree(claims, f[k - 1])
    BY <2>1, <2>3, BelowANode
  <2>. QED BY <2>1, <2>4
<1>5. m \in T
  <2>1. PICK M \in Nat : M = m
    OBVIOUS
  <2>2. \A j \in 0 .. M - 1 : j \in T => j + 1 \in T
    BY <1>4, <2>1
  <2>. HIDE DEF T, m
  <2>3. \A j \in 0 .. M : j \in T
    BY <1>3, <2>2, UpTo
  <2>. QED BY <2>1, <2>3
<1>6. InTree(claims, leaf)
  <2>1. m - m = 0
    OBVIOUS
  <2>. QED BY <1>1, <1>5, <2>1 DEF IsClimb
<1>. QED BY <1>6, LeavesAreClaims DEF leaf

-----------------------------------------------------------------------------
(* A recursion whose values stay in a set.                                 *)
Recurs(f, x, F, k) == IF k = 0 THEN x ELSE F[<<f[k - 1], k>>]

IsRecursion(f, x, F, n) == f[0] = x /\ \A k \in 1 .. n : f[k] = F[<<f[k - 1], k>>]

LEMMA Recursion ==
  ASSUME NEW X, NEW x \in X, NEW n \in Nat, NEW F \in [X \X (1 .. n) -> X]
  PROVE  \E f \in [0 .. n -> X] : IsRecursion(f, x, F, n)
<1>. DEFINE Fine(m) == \E f \in [0 .. m -> X] : f = [k \in 0 .. m |-> Recurs(f, x, F, k)]
            T == {m \in Nat : Fine(m)}
<1>1. Fine(0)
  <2>. DEFINE f == [k \in 0 .. 0 |-> x]
  <2>1. f = [k \in 0 .. 0 |-> Recurs(f, x, F, k)] /\ f \in [0 .. 0 -> X]
    BY DEF Recurs
  <2>. QED BY <2>1
<1>2. ASSUME NEW m \in 0 .. n - 1, Fine(m) PROVE Fine(m + 1)
  <2>1. PICK f \in [0 .. m -> X] : f = [k \in 0 .. m |-> Recurs(f, x, F, k)]
    BY <1>2
  <2>. DEFINE g == [k \in 0 .. m + 1 |-> Recurs(f, x, F, k)]
  <2>2. \A k \in 0 .. m : g[k] = f[k]
    BY <2>1
  <2>3. ASSUME NEW k \in 0 .. m + 1
        PROVE  Recurs(f, x, F, k) = Recurs(g, x, F, k) /\ Recurs(f, x, F, k) \in X
    <3>1. k = 0 \/ (k - 1 \in 0 .. m /\ k \in 1 .. n)
      OBVIOUS
    <3>2. k # 0 => f[k - 1] \in X
      BY <2>1, <3>1
    <3>. HIDE DEF g
    <3>. QED BY <2>2, <3>1, <3>2 DEF Recurs
  <2>4. g = [k \in 0 .. m + 1 |-> Recurs(g, x, F, k)]
    BY <2>3
  <2>5. g \in [0 .. m + 1 -> X]
    BY <2>3
  <2>. HIDE DEF g
  <2>. QED BY <2>4, <2>5
<1>. HIDE DEF Fine
<1>3. 0 \in T /\ \A k \in 0 .. n - 1 : k \in T => k + 1 \in T
  BY <1>1, <1>2
<1>4. \A k \in 0 .. n : k \in T
  <2>. HIDE DEF T
  <2>. QED BY <1>3, UpTo
<1>5. Fine(n)
  BY <1>4
<1>6. PICK f \in [0 .. n -> X] : f = [k \in 0 .. n |-> Recurs(f, x, F, k)]
  BY <1>5 DEF Fine
<1>7. \A k \in 0 .. n : f[k] = Recurs(f, x, F, k)
  BY <1>6, Zenon
<1>8. f[0] = x
  <2>1. 0 \in 0 .. n
    OBVIOUS
  <2>2. f[0] = Recurs(f, x, F, 0)
    BY <1>7, <2>1
  <2>. QED BY <2>2 DEF Recurs
<1>9. ASSUME NEW k \in 1 .. n PROVE f[k] = F[<<f[k - 1], k>>]
  <2>1. k \in 0 .. n /\ k # 0
    OBVIOUS
  <2>2. f[k] = Recurs(f, x, F, k)
    BY <1>7, <2>1
  <2>. QED BY <2>1, <2>2 DEF Recurs
<1>10. IsRecursion(f, x, F, n)
  BY <1>8, <1>9 DEF IsRecursion
<1>. QED BY <1>10

(* FlattenSeq appends the sequences one after the other.                   *)
IsFlatten(f, seqs, n) == f[0] = <<>> /\ \A k \in 1 .. n : f[k] = f[k - 1] \o seqs[k]

LEMMA FlattenUnfolds ==
  ASSUME NEW S, NEW n \in Nat \ {0}, NEW seqs, Len(seqs) = n, \A k \in 1 .. n : seqs[k] \in Seq(S)
  PROVE  \E f \in [0 .. n -> Seq(S)] :
           IsFlatten(f, seqs, n) /\ FlattenSeq(seqs) = f[n]
<1>. DEFINE X == Seq(S)
            F == [y \in X \X (1 .. n) |-> y[1] \o seqs[y[2]]]
            Flat(f, i) == IF i = 1 THEN seqs[i] ELSE f[i - 1] \o seqs[i]
            it == CHOOSE it : it = [i \in 1 .. n |-> Flat(it, i)]
<1>1. F \in [X \X (1 .. n) -> X] /\ <<>> \in X
  OBVIOUS
<1>2. \A a \in X, k \in 1 .. n : F[<<a, k>>] = a \o seqs[k]
  OBVIOUS
<1>. HIDE DEF F
<1>3. PICK f \in [0 .. n -> X] : IsRecursion(f, <<>>, F, n)
  <2>1. PICK Y : Y = X
    OBVIOUS
  <2>4. PICK e \in Y : e = <<>>
    BY <1>1, <2>1
  <2>2. F \in [Y \X (1 .. n) -> Y]
    BY <1>1, <2>1
  <2>3. \E f \in [0 .. n -> Y] : IsRecursion(f, e, F, n)
    BY <2>2, Recursion
  <2>. QED BY <2>1, <2>3, <2>4
<1>4. \A k \in 1 .. n : f[k] = f[k - 1] \o seqs[k] /\ f[k - 1] \in X
  <2>. TAKE k \in 1 .. n
  <2>1. k - 1 \in 0 .. n
    OBVIOUS
  <2>2. f[k - 1] \in X
    BY <2>1
  <2>. QED BY <1>2, <1>3, <2>2 DEF IsRecursion
<1>. DEFINE g == [i \in 1 .. n |-> f[i]]
<1>5. g = [i \in 1 .. n |-> Flat(g, i)]
  <2>1. ASSUME NEW i \in 1 .. n PROVE f[i] = Flat(g, i)
    <3>1. CASE i = 1
      <4>1. f[1] = f[0] \o seqs[1] /\ f[0] = <<>> /\ seqs[1] \in Seq(S)
        <5>1. 1 \in 1 .. n /\ 1 - 1 = 0
          OBVIOUS
        <5>. QED BY <1>3, <1>4, <5>1 DEF IsRecursion
      <4>. QED BY <3>1, <4>1
    <3>2. CASE i # 1
      <4>1. i - 1 \in 1 .. n
        BY <3>2
      <4>2. g[i - 1] = f[i - 1]
        BY <4>1
      <4>. QED BY <1>4, <3>2, <4>2
    <3>. QED BY <3>1, <3>2
  <2>. HIDE DEF Flat
  <2>. QED BY <2>1
<1>6. it = [i \in 1 .. n |-> Flat(it, i)]
  <2>. HIDE DEF g, Flat
  <2>. QED BY <1>5
<1>7. FlattenSeq(seqs) = it[n]
  BY DEF FlattenSeq
<1>. HIDE DEF it
<1>8. \A k \in 1 .. n : it[k] = f[k]
  <2>. DEFINE T == {k \in 0 .. n : k # 0 => it[k] = f[k]}
  <2>0. \A i \in 1 .. n : it[i] = IF i = 1 THEN seqs[i] ELSE it[i - 1] \o seqs[i]
    BY <1>6
  <2>1. 0 \in T
    OBVIOUS
  <2>2. ASSUME NEW k \in 0 .. n - 1, k \in T PROVE k + 1 \in T
    <3>1. k + 1 \in 1 .. n /\ (k + 1) - 1 = k
      OBVIOUS
    <3>2. it[k + 1] = IF k + 1 = 1 THEN seqs[k + 1] ELSE it[k] \o seqs[k + 1]
      BY <2>0, <3>1
    <3>3. f[k + 1] = f[k] \o seqs[k + 1]
      BY <1>4, <3>1
    <3>4. CASE k = 0
      <4>1. f[1] = f[0] \o seqs[1] /\ f[0] = <<>> /\ seqs[1] \in Seq(S)
        <5>1. 1 \in 1 .. n /\ 1 - 1 = 0
          OBVIOUS
        <5>. QED BY <1>3, <1>4, <5>1 DEF IsRecursion
      <4>. QED BY <3>2, <3>4, <4>1
    <3>5. CASE k # 0
      <4>1. it[k] = f[k] /\ k + 1 # 1
        BY <2>2, <3>5
      <4>2. it[k + 1] = f[k + 1]
        BY <3>2, <3>3, <4>1
      <4>. QED BY <3>1, <4>2
    <3>. QED BY <3>4, <3>5
  <2>3. \A k \in 0 .. n : k \in T
    <3>. HIDE DEF T
    <3>. QED BY <2>1, <2>2, UpTo
  <2>. QED BY <2>3
<1>9. FlattenSeq(seqs) = f[n]
  BY <1>7, <1>8
<1>10. \A k \in 1 .. n : f[k] = f[k - 1] \o seqs[k]
  BY <1>4
<1>11. IsFlatten(f, seqs, n)
  BY <1>3, <1>10 DEF IsRecursion, IsFlatten
<1>. QED BY <1>9, <1>11

-----------------------------------------------------------------------------
(* Where the claim's node is on each level.                                *)
LEMMA PositionsUnfold ==
  ASSUME NEW claims, Len(claims) \in Nat \ {0}, NEW i \in Nat
  PROVE  /\ Positions(claims, i)[0] = i
         /\ \A k \in 1 .. Len(claims) - 1 : Positions(claims, i)[k] = (Positions(claims, i)[k - 1] + 1) \div 2
<1>1. PICK n \in Nat : n = Len(claims) - 1
  OBVIOUS
<1>. DEFINE F == [y \in Nat \X (1 .. n) |-> (y[1] + 1) \div 2]
            Half(f, k) == IF k = 0 THEN i ELSE (f[k - 1] + 1) \div 2
            pos == CHOOSE pos : pos = [k \in 0 .. n |-> Half(pos, k)]
<1>2. F \in [Nat \X (1 .. n) -> Nat] /\ \A a \in Nat, k \in 1 .. n : F[<<a, k>>] = (a + 1) \div 2
  OBVIOUS
<1>. HIDE DEF F
<1>3. PICK f \in [0 .. n -> Nat] : IsRecursion(f, i, F, n)
  BY <1>2, Recursion
<1>4. f = [k \in 0 .. n |-> Half(f, k)]
  <2>1. ASSUME NEW k \in 0 .. n PROVE f[k] = Half(f, k)
    <3>1. CASE k = 0
      BY <1>3, <3>1 DEF IsRecursion
    <3>2. CASE k # 0
      <4>1. k \in 1 .. n /\ k - 1 \in 0 .. n
        BY <3>2
      <4>2. f[k - 1] \in Nat /\ f[k] = F[<<f[k - 1], k>>]
        BY <1>3, <4>1 DEF IsRecursion
      <4>. QED BY <1>2, <3>2, <4>1, <4>2
    <3>. QED BY <3>1, <3>2
  <2>. HIDE DEF Half
  <2>. QED BY <2>1
<1>5. pos = [k \in 0 .. n |-> Half(pos, k)]
  BY <1>4
<1>6. Positions(claims, i) = pos
  BY <1>1 DEF Positions
<1>. HIDE DEF pos
<1>7. \A k \in 0 .. n : pos[k] = Half(pos, k)
  <2>. HIDE DEF Half
  <2>. QED BY <1>5, Zenon
<1>8. \A k \in 1 .. n : pos[k] = (pos[k - 1] + 1) \div 2
  <2>. TAKE k \in 1 .. n
  <2>1. k \in 0 .. n /\ k # 0
    OBVIOUS
  <2>. QED BY <1>7, <2>1
<1>9. pos[0] = i
  BY <1>7
<1>. QED BY <1>1, <1>6, <1>8, <1>9

(* A node and its step give the node above; where there is no step the     *)
(* node itself is the one above.                                           *)
LEMMA OneLevelUp ==
  ASSUME NEW level, NEW n \in Nat \ {0}, IsLevel(level, n), NEW p \in 1 .. n
  PROVE  /\ (p + 1) \div 2 \in DOMAIN NextLevel(level)
         /\ \/ Sibling(level, p) = <<>> /\ NextLevel(level)[(p + 1) \div 2] = level[p]
            \/ \E s : Sibling(level, p) = <<s>> /\ NextLevel(level)[(p + 1) \div 2] = Climb(level[p], s)
<1>. DEFINE q == (p + 1) \div 2
            left == [sibling |-> level[p - 1], left |-> TRUE]
            right == [sibling |-> level[p + 1], left |-> FALSE]
<1>1. Len(level) = n /\ q \in 1 .. (n + 1) \div 2
  BY DEF IsLevel
<1>2. q \in DOMAIN NextLevel(level)
  BY <1>1 DEF NextLevel
<1>3. NextLevel(level)[q] = IF 2 * q <= n THEN HashNode(level[2 * q - 1], level[2 * q]) ELSE level[n]
  BY <1>1 DEF NextLevel
<1>4. CASE p % 2 = 0
  <2>1. 2 * q = p /\ 2 * q - 1 = p - 1 /\ 2 * q <= n
    BY <1>4
  <2>2. NextLevel(level)[q] = HashNode(level[p - 1], level[p])
    BY <1>3, <2>1
  <2>3. NextLevel(level)[q] = Climb(level[p], left)
    BY <2>2 DEF Climb
  <2>4. Sibling(level, p) = <<left>>
    BY <1>4 DEF Sibling
  <2>. HIDE DEF left
  <2>. QED BY <1>2, <2>3, <2>4
<1>5. CASE p % 2 # 0 /\ p < n
  <2>1. 2 * q = p + 1 /\ 2 * q - 1 = p /\ 2 * q <= n
    BY <1>5
  <2>2. NextLevel(level)[q] = HashNode(level[p], level[p + 1])
    BY <1>3, <2>1
  <2>3. NextLevel(level)[q] = Climb(level[p], right)
    BY <2>2 DEF Climb
  <2>4. Sibling(level, p) = <<right>>
    BY <1>1, <1>5 DEF Sibling
  <2>. HIDE DEF right
  <2>. QED BY <1>2, <2>3, <2>4
<1>6. CASE p % 2 # 0 /\ ~(p < n)
  <2>1. p = n /\ ~(2 * q <= n)
    BY <1>6
  <2>2. Sibling(level, p) = <<>>
    BY <1>1, <1>6 DEF Sibling
  <2>. QED BY <1>2, <1>3, <2>1, <2>2
<1>. QED BY <1>4, <1>5, <1>6

(* The proof that the Rust side builds for a claim takes its leaf up to    *)
(* the root, in a batch of any size.                                       *)
THEOREM ProofIsAccepted ==
  ASSUME NEW claims, NEW n \in Nat \ {0}, IsLevel(claims, n), NEW i \in 1 .. n
  PROVE  /\ VerifyInclusion(Root(claims), claims[i], i - 1, Proof(claims, i))
         /\ Len(Proof(claims, i)) \in Nat
<1>. DEFINE levels == Levels(claims)
            pos == Positions(claims, i)
            leaf == HashLeaf(i - 1, claims[i])
            step(k) == Sibling(levels[k - 1], pos[k - 1])
            seqs == [k \in 1 .. n |-> step(k)]
            S == UNION {Range(step(k)) : k \in 1 .. n}
<1>1. /\ levels[0] = Level0(claims) /\ \A k \in 1 .. n - 1 : levels[k] = NextLevel(levels[k - 1])
      /\ pos[0] = i /\ \A k \in 1 .. n - 1 : pos[k] = (pos[k - 1] + 1) \div 2
      /\ Len(claims) = n /\ DOMAIN claims = 1 .. n
  BY LevelsUnfold, PositionsUnfold DEF IsLevel
<1>2. \A k \in 0 .. n - 1 : \E w \in 1 .. n - k : IsLevel(levels[k], w)
  BY LevelShape
<1>3. Proof(claims, i) = FlattenSeq(seqs)
  BY <1>1 DEF Proof
<1>. HIDE DEF levels, pos
<1>4. \A k \in 0 .. n - 1 : pos[k] \in DOMAIN levels[k]
  <2>. DEFINE T == {k \in 0 .. n - 1 : pos[k] \in DOMAIN levels[k]}
  <2>1. 0 \in T
    BY <1>1 DEF Level0
  <2>2. ASSUME NEW k \in 0 .. n - 2, k \in T PROVE k + 1 \in T
    <3>1. k + 1 \in 1 .. n - 1 /\ (k + 1) - 1 = k /\ k \in 0 .. n - 1
      OBVIOUS
    <3>2. PICK w \in 1 .. n - k : IsLevel(levels[k], w)
      BY <1>2, <3>1
    <3>3. pos[k] \in 1 .. w /\ w \in Nat \ {0}
      BY <2>2, <3>2 DEF IsLevel
    <3>4. (pos[k] + 1) \div 2 \in DOMAIN NextLevel(levels[k])
      BY <3>2, <3>3, OneLevelUp
    <3>5. levels[k + 1] = NextLevel(levels[k]) /\ pos[k + 1] = (pos[k] + 1) \div 2
      BY <1>1, <3>1
    <3>. QED BY <3>1, <3>4, <3>5
  <2>3. \A k \in 0 .. n - 1 : k \in T
    <3>1. PICK m \in Nat : m = n - 1
      OBVIOUS
    <3>2. \A k \in 0 .. m - 1 : k \in T => k + 1 \in T
      BY <2>2, <3>1
    <3>. HIDE DEF T
    <3>. QED BY <2>1, <3>1, <3>2, UpTo
  <2>. QED BY <2>3
<1>5. ASSUME NEW k \in 0 .. n - 1
      PROVE  /\ step(k + 1) = <<>> \/ \E s : step(k + 1) = <<s>>
             /\ k < n - 1 =>
                  \/ step(k + 1) = <<>> /\ levels[k + 1][pos[k + 1]] = levels[k][pos[k]]
                  \/ \E s : step(k + 1) = <<s>> /\ levels[k + 1][pos[k + 1]] = Climb(levels[k][pos[k]], s)
  <2>1. PICK w \in 1 .. n - k : IsLevel(levels[k], w)
    BY <1>2
  <2>2. pos[k] \in 1 .. w /\ w \in Nat \ {0}
    BY <1>4, <2>1 DEF IsLevel
  <2>3. \/ Sibling(levels[k], pos[k]) = <<>> /\ NextLevel(levels[k])[(pos[k] + 1) \div 2] = levels[k][pos[k]]
        \/ \E s : /\ Sibling(levels[k], pos[k]) = <<s>>
                  /\ NextLevel(levels[k])[(pos[k] + 1) \div 2] = Climb(levels[k][pos[k]], s)
    BY <2>1, <2>2, OneLevelUp
  <2>4. step(k + 1) = Sibling(levels[k], pos[k])
    <3>1. (k + 1) - 1 = k
      OBVIOUS
    <3>. QED BY <3>1
  <2>5. k < n - 1 => levels[k + 1] = NextLevel(levels[k]) /\ pos[k + 1] = (pos[k] + 1) \div 2
    <3>. SUFFICES ASSUME k < n - 1 PROVE levels[k + 1] = NextLevel(levels[k]) /\ pos[k + 1] = (pos[k] + 1) \div 2
      OBVIOUS
    <3>1. k + 1 \in 1 .. n - 1 /\ (k + 1) - 1 = k
      OBVIOUS
    <3>. QED BY <1>1, <3>1
  <2>. HIDE DEF step
  <2>. QED BY <2>3, <2>4, <2>5
<1>6. \A k \in 1 .. n : seqs[k] = step(k) /\ seqs[k] \in Seq(S)
  <2>. TAKE k \in 1 .. n
  <2>1. k - 1 \in 0 .. n - 1 /\ (k - 1) + 1 = k
    OBVIOUS
  <2>2. step(k) = <<>> \/ \E s : step(k) = <<s>>
    <3>. HIDE DEF step
    <3>. QED BY <1>5, <2>1
  <2>3. Range(step(k)) \subseteq S
    <3>. HIDE DEF step
    <3>. QED OBVIOUS
  <2>4. PICK s : s = step(k)
    OBVIOUS
  <2>5. seqs[k] = s
    BY <2>4
  <2>6. PICK V : V = S
    OBVIOUS
  <2>7. s \in Seq(V)
    <3>. HIDE DEF step, S
    <3>1. CASE s = <<>>
      BY <3>1
    <3>2. CASE \E x : s = <<x>>
      <4>1. PICK x : s = <<x>>
        BY <3>2
      <4>2. x = s[1] /\ 1 \in DOMAIN s
        BY <4>1
      <4>3. x \in V
        BY <2>3, <2>4, <2>6, <4>2 DEF Range
      <4>. QED BY <4>1, <4>3
    <3>. QED BY <2>2, <2>4, <3>1, <3>2
  <2>. HIDE DEF seqs, step, S
  <2>. QED BY <2>4, <2>5, <2>6, <2>7
<1>7. Len(seqs) = n
  <2>1. seqs = [k \in 1 .. n |-> seqs[k]]
    OBVIOUS
  <2>. HIDE DEF seqs
  <2>2. PICK V : V = Seq(S)
    OBVIOUS
  <2>. HIDE DEF S
  <2>3. seqs \in Seq(V)
    BY <1>6, <2>1, <2>2
  <2>. QED BY <2>1, <2>3, LenProperties
<1>. HIDE DEF seqs
<1>8. PICK f \in [0 .. n -> Seq(S)] :
           IsFlatten(f, seqs, n) /\ FlattenSeq(seqs) = f[n]
  <2>1. PICK V : V = S
    OBVIOUS
  <2>. HIDE DEF S
  <2>. QED BY <1>6, <1>7, <2>1, FlattenUnfolds
<1>. DEFINE U == {k \in 0 .. n - 1 : Climbed(leaf, f[k]) = levels[k][pos[k]]}
<1>9. 0 \in U
  <2>1. levels[0][pos[0]] = leaf
    BY <1>1 DEF Level0
  <2>. QED BY <1>8, <2>1, NoClimb DEF IsFlatten
<1>10. ASSUME NEW k \in 0 .. n - 2, k \in U PROVE k + 1 \in U
  <2>1. k + 1 \in 1 .. n /\ (k + 1) - 1 = k /\ k \in 0 .. n - 1 /\ k \in 0 .. n /\ k + 1 \in 0 .. n - 1
    OBVIOUS
  <2>2. f[k + 1] = f[k] \o step(k + 1) /\ f[k] \in Seq(S) /\ step(k + 1) \in Seq(S)
    <3>1. seqs[k + 1] = step(k + 1) /\ seqs[k + 1] \in Seq(S)
      BY <1>6, <2>1
    <3>2. f[k + 1] = f[k] \o seqs[k + 1] /\ f[k] \in Seq(S)
      BY <1>8, <2>1 DEF IsFlatten
    <3>. HIDE DEF S, step
    <3>. QED BY <3>1, <3>2
  <2>. HIDE DEF S, step, leaf
  <2>3. CASE step(k + 1) = <<>> /\ levels[k + 1][pos[k + 1]] = levels[k][pos[k]]
    <3>1. PICK V : V = S
      OBVIOUS
    <3>2. f[k] \o <<>> = f[k]
      BY <2>2, <3>1
    <3>. QED BY <1>10, <2>1, <2>2, <2>3, <3>2
  <2>4. CASE \E s : step(k + 1) = <<s>> /\ levels[k + 1][pos[k + 1]] = Climb(levels[k][pos[k]], s)
    <3>1. PICK s : step(k + 1) = <<s>> /\ levels[k + 1][pos[k + 1]] = Climb(levels[k][pos[k]], s)
      BY <2>4
    <3>2. s \in S
      <4>1. PICK V : V = S
        OBVIOUS
      <4>2. PICK t : t = <<s>>
        OBVIOUS
      <4>3. t \in Seq(V)
        BY <2>2, <3>1, <4>1, <4>2, Zenon
      <4>4. 1 \in 1 .. Len(t) /\ t[1] = s
        BY <4>2
      <4>. QED BY <4>1, <4>3, <4>4, ElementOfSeq
    <3>3. Climbed(leaf, f[k + 1]) = Climb(Climbed(leaf, f[k]), s)
      BY <2>2, <3>1, <3>2, OneStepUp
    <3>. QED BY <1>10, <2>1, <3>1, <3>3
  <2>5. k < n - 1
    OBVIOUS
  <2>. QED BY <1>5, <2>1, <2>3, <2>4, <2>5
<1>11. n - 1 \in U
  <2>1. PICK m \in Nat : m = n - 1
    OBVIOUS
  <2>2. \A k \in 0 .. m - 1 : k \in U => k + 1 \in U
    BY <1>10, <2>1
  <2>. HIDE DEF U
  <2>3. \A k \in 0 .. m : k \in U
    BY <1>9, <2>2, UpTo
  <2>. QED BY <2>1, <2>3
<1>12. f[n] = f[n - 1]
  <2>1. PICK w \in 1 .. n - (n - 1) : IsLevel(levels[n - 1], w)
    BY <1>2
  <2>2. w = 1 /\ pos[n - 1] = 1 /\ Len(levels[n - 1]) = 1
    <3>1. n - 1 \in 0 .. n - 1
      OBVIOUS
    <3>2. w = 1 /\ pos[n - 1] \in DOMAIN levels[n - 1]
      BY <1>4, <2>1, <3>1
    <3>. QED BY <2>1, <3>2 DEF IsLevel
  <2>3. step(n) = <<>>
    BY <2>2 DEF Sibling
  <2>4. f[n] = f[n - 1] \o <<>> /\ f[n - 1] \in Seq(S)
    <3>1. n \in 1 .. n /\ n - 1 \in 0 .. n
      OBVIOUS
    <3>2. seqs[n] = <<>>
      BY <1>6, <2>3, <3>1
    <3>. HIDE DEF S, step
    <3>. QED BY <1>8, <3>1, <3>2 DEF IsFlatten
  <2>. HIDE DEF S, step
  <2>5. PICK V : V = S
    OBVIOUS
  <2>. QED BY <2>4, <2>5
<1>13. Root(claims) = levels[n - 1][pos[n - 1]]
  <2>1. PICK w \in 1 .. n - (n - 1) : IsLevel(levels[n - 1], w)
    BY <1>2
  <2>2. n - 1 \in 0 .. n - 1 /\ w = 1
    OBVIOUS
  <2>3. pos[n - 1] = 1
    BY <1>4, <2>1, <2>2 DEF IsLevel
  <2>. QED BY <1>1, <2>3 DEF Root, levels
<1>14. Len(f[n]) \in Nat
  <2>1. n \in 0 .. n
    OBVIOUS
  <2>2. f[n] \in Seq(S)
    BY <1>8, <2>1
  <2>3. PICK V : V = S
    OBVIOUS
  <2>. HIDE DEF S
  <2>. QED BY <2>2, <2>3, LenProperties
<1>15. Climbed(leaf, f[n]) = Root(claims)
  BY <1>11, <1>12, <1>13
<1>. HIDE DEF leaf
<1>. QED BY <1>3, <1>8, <1>14, <1>15 DEF VerifyInclusion, leaf

-----------------------------------------------------------------------------
(***************************************************************************)
(* The price feed.  Swap and pop takes out one reporter and keeps the      *)
(* others, each once; _purgeExpired, which walks the list backwards,       *)
(* leaves live submissions only; and of n sorted values the median has     *)
(* half on each side, among which, when the honest are the majority, one   *)
(* is honest.                                                              *)
(***************************************************************************)
RosterType == reporters \in Seq(Reporters) /\ quorum \in Nat

FeedIInv == RosterType /\ RosterAgrees

-----------------------------------------------------------------------------
LEMMA SwapPopTakesOne ==
  ASSUME NEW S, NEW s \in Seq(S), IsInjective(s), NEW i \in DOMAIN s
  PROVE  /\ SwapPop(s, i) \in Seq(S)
         /\ Len(SwapPop(s, i)) = Len(s) - 1
         /\ IsInjective(SwapPop(s, i))
         /\ Range(SwapPop(s, i)) = Range(s) \ {s[i]}
         /\ \A k \in 1 .. Len(s) - 1 : SwapPop(s, i)[k] = IF k = i THEN s[Len(s)] ELSE s[k]
<1> DEFINE n == Len(s)
           t == [s EXCEPT ![i] = Last(s)]
           u == SwapPop(s, i)
<1>1. n \in Nat \ {0} /\ i \in 1 .. n /\ DOMAIN s = 1 .. n /\ \A k \in 1 .. n : s[k] \in S
  BY LenProperties, ElementOfSeq
<1>2. Last(s) = s[n]
  BY DEF Last
<1>3. t \in Seq(S) /\ Len(t) = n /\ \A k \in 1 .. n : t[k] = IF k = i THEN s[n] ELSE s[k]
  <2>1. s[n] \in S
    BY <1>1
  <2>2. t \in Seq(S) /\ Len(t) = n
    BY <1>1, <1>2, <2>1, ExceptSeq
  <2>3. \A k \in 1 .. n : t[k] = IF k = i THEN s[n] ELSE s[k]
    BY <1>1, <1>2
  <2>4. QED BY <2>2, <2>3
<1> HIDE DEF t
<1>4. u = SubSeq(t, 1, n - 1)
  BY DEF SwapPop, t
<1>5. u \in Seq(S) /\ Len(u) = n - 1 /\ \A k \in 1 .. n - 1 : u[k] = t[k]
  BY <1>1, <1>3, <1>4, SubSeqProperties
<1>6. DOMAIN u = 1 .. n - 1 /\ \A k \in 1 .. n - 1 : u[k] = IF k = i THEN s[n] ELSE s[k]
  <2>1. DOMAIN u = 1 .. n - 1
    BY <1>5, LenProperties
  <2>2. \A k \in 1 .. n - 1 : k \in 1 .. n
    BY <1>1
  <2>3. QED BY <1>3, <1>5, <2>1, <2>2
<1>7. \A a, b \in 1 .. n : s[a] = s[b] => a = b
  BY <1>1 DEF IsInjective
<1> HIDE DEF u, n
<1>8. \A a, b \in 1 .. n - 1 : u[a] = u[b] => a = b
  <2> SUFFICES ASSUME NEW a \in 1 .. n - 1, NEW b \in 1 .. n - 1, u[a] = u[b] PROVE a = b
    OBVIOUS
  <2>1. a \in 1 .. n /\ b \in 1 .. n /\ n \in 1 .. n /\ a # n /\ b # n
    BY <1>1
  <2>2. QED BY <1>6, <1>7, <2>1
<1>9. Range(u) = Range(s) \ {s[i]}
  <2>1. ASSUME NEW k \in 1 .. n - 1
        PROVE  u[k] \in Range(s) \ {s[i]}
    <3>1. k \in 1 .. n /\ n \in 1 .. n /\ k # n
      BY <1>1
    <3>2. u[k] = IF k = i THEN s[n] ELSE s[k]
      BY <1>6
    <3>3. CASE k = i
      BY <1>1, <1>7, <3>1, <3>2, <3>3 DEF Range
    <3>4. CASE k # i
      BY <1>1, <1>7, <3>1, <3>2, <3>4 DEF Range
    <3>5. QED BY <3>3, <3>4
  <2>2. ASSUME NEW k \in 1 .. n, s[k] # s[i]
        PROVE  s[k] \in Range(u)
    <3>1. CASE k = n
      <4>1. i \in 1 .. n - 1
        BY <1>1, <2>2, <3>1
      <4>2. u[i] = s[k]
        BY <1>6, <3>1, <4>1
      <4>3. QED BY <1>6, <4>1, <4>2 DEF Range
    <3>2. CASE k # n
      <4>1. k \in 1 .. n - 1 /\ k # i
        BY <1>1, <2>2, <3>2
      <4>2. u[k] = s[k]
        BY <1>6, <4>1
      <4>3. QED BY <1>6, <4>1, <4>2 DEF Range
    <3>3. QED BY <3>1, <3>2
  <2>3. QED BY <1>1, <1>6, <2>1, <2>2 DEF Range
<1>10. QED BY <1>5, <1>6, <1>8, <1>9 DEF IsInjective, u, n

LEMMA AppendAddsOne ==
  ASSUME NEW S, NEW s \in Seq(S), IsInjective(s), NEW r \in S, r \notin Range(s)
  PROVE  /\ Append(s, r) \in Seq(S)
         /\ Len(Append(s, r)) = Len(s) + 1
         /\ IsInjective(Append(s, r))
         /\ Range(Append(s, r)) = Range(s) \cup {r}
<1> DEFINE n == Len(s)
           u == Append(s, r)
<1>1. n \in Nat /\ DOMAIN s = 1 .. n
  BY LenProperties
<1>2. /\ u \in Seq(S) /\ Len(u) = n + 1 /\ DOMAIN u = 1 .. n + 1
      /\ u[n + 1] = r /\ \A k \in 1 .. n : u[k] = s[k]
  BY AppendProperties, LenProperties
<1> HIDE DEF u, n
<1>3. \A k \in 1 .. n + 1 : k = n + 1 \/ k \in 1 .. n
  BY <1>1
<1>4. \A k \in 1 .. n : k \in 1 .. n + 1 /\ s[k] # r
  BY <1>1 DEF Range
<1>5. \A a, b \in 1 .. n + 1 : u[a] = u[b] => a = b
  BY <1>1, <1>2, <1>3, <1>4 DEF IsInjective
<1>6. Range(u) = Range(s) \cup {r}
  <2>1. n + 1 \in 1 .. n + 1
    BY <1>1
  <2>2. QED BY <1>1, <1>2, <1>3, <1>4, <2>1 DEF Range
<1>7. QED BY <1>2, <1>5, <1>6 DEF IsInjective, u, n

-----------------------------------------------------------------------------
LEMMA RemoveStep ==
  ASSUME FeedIInv, NEW r \in Reporters, RemoveReporter(r)
  PROVE  /\ FeedIInv'
         /\ Len(reporters') = Len(reporters) - 1
         /\ quorum' = IF quorum > Len(reporters') /\ Len(reporters') > 0 THEN Len(reporters') ELSE quorum
<1> DEFINE i == IndexIn(reporters, r)
<1>1. i \in DOMAIN reporters /\ reporters[i] = r
  BY DEF FeedIInv, RosterAgrees, RemoveReporter, IndexIn, Range
<1> HIDE DEF i
<1>2. reporters' = SwapPop(reporters, i) /\ isReporter' = isReporter \ {r}
  BY DEF RemoveReporter, i
<1>3. reporters \in Seq(Reporters) /\ IsInjective(reporters) /\ Range(reporters) = isReporter /\ quorum \in Nat
  BY DEF FeedIInv, RosterType, RosterAgrees
<1>4. /\ reporters' \in Seq(Reporters) /\ Len(reporters') = Len(reporters) - 1
      /\ IsInjective(reporters') /\ Range(reporters') = isReporter'
  BY <1>1, <1>2, <1>3, SwapPopTakesOne
<1>5. quorum' = IF quorum > Len(reporters') /\ Len(reporters') > 0 THEN Len(reporters') ELSE quorum
  BY <1>4 DEF RemoveReporter
<1>6. quorum' \in Nat
  BY <1>3, <1>4, <1>5, LenProperties
<1>7. QED BY <1>4, <1>5, <1>6 DEF FeedIInv, RosterType, RosterAgrees

LEMMA RosterStep ==
  ASSUME FeedIInv, [FeedNext]_feedVars
  PROVE  /\ FeedIInv'
         /\ (quorum <= Len(reporters) /\ reporters' # <<>>) => quorum' <= Len(reporters')
<1>1. /\ reporters \in Seq(Reporters) /\ IsInjective(reporters) /\ Range(reporters) = isReporter
      /\ quorum \in Nat /\ Len(reporters) \in Nat
  BY LenProperties DEF FeedIInv, RosterType, RosterAgrees
<1>2. ASSUME UNCHANGED <<reporters, isReporter, quorum>>
      PROVE  FeedIInv' /\ (quorum <= Len(reporters) => quorum' <= Len(reporters'))
  BY <1>2 DEF FeedIInv, RosterType, RosterAgrees
<1>3. ASSUME NEW r \in Reporters, AddReporter(r)
      PROVE  FeedIInv' /\ (quorum <= Len(reporters) => quorum' <= Len(reporters'))
  <2>1. r \notin Range(reporters) /\ reporters' = Append(reporters, r)
        /\ isReporter' = isReporter \cup {r} /\ quorum' = quorum
    BY <1>1, <1>3 DEF AddReporter
  <2>2. /\ reporters' \in Seq(Reporters) /\ Len(reporters') = Len(reporters) + 1
        /\ IsInjective(reporters') /\ Range(reporters') = isReporter'
    BY <1>1, <2>1, AppendAddsOne
  <2>3. QED BY <1>1, <2>1, <2>2 DEF FeedIInv, RosterType, RosterAgrees
<1>4. ASSUME NEW r \in Reporters, RemoveReporter(r)
      PROVE  FeedIInv' /\ (reporters' # <<>> => quorum' <= Len(reporters'))
  <2>1. FeedIInv' /\ quorum' = IF quorum > Len(reporters') /\ Len(reporters') > 0 THEN Len(reporters') ELSE quorum
    BY <1>4, RemoveStep
  <2>2. reporters' # <<>> => Len(reporters') \in Nat \ {0}
    BY <2>1, EmptySeq, LenProperties DEF FeedIInv, RosterType
  <2>3. QED BY <1>1, <2>1, <2>2
<1>5. ASSUME NEW q \in 1 .. MaxReporters, SetQuorum(q)
      PROVE  FeedIInv' /\ quorum' <= Len(reporters')
  BY <1>1, <1>5 DEF SetQuorum, FeedIInv, RosterType, RosterAgrees
<1>6. \A r \in Reporters : \A price : Submit(r, price) => UNCHANGED <<reporters, isReporter, quorum>>
  BY DEF Submit
<1>7. \A age \in Ages : SetMaxSubmissionAge(age) => UNCHANGED <<reporters, isReporter, quorum>>
  BY DEF SetMaxSubmissionAge
<1>8. FeedTick \/ UNCHANGED feedVars => UNCHANGED <<reporters, isReporter, quorum>>
  BY DEF FeedTick, feedVars
<1>9. QED BY <1>2, <1>3, <1>4, <1>5, <1>6, <1>7, <1>8, FeedAssumption DEF FeedNext

LEMMA FeedIInvHolds == FeedSpec => []FeedIInv
<1>1. FeedInit => FeedIInv
  <2> SUFFICES ASSUME FeedInit PROVE FeedIInv
    OBVIOUS
  <2>1. reporters = <<>> /\ isReporter = {} /\ quorum \in Nat
    BY FeedAssumption DEF FeedInit
  <2>2. reporters \in Seq(Reporters) /\ DOMAIN reporters = {}
    BY <2>1
  <2>3. QED BY <2>1, <2>2 DEF FeedIInv, RosterType, RosterAgrees, IsInjective, Range
<1>2. FeedIInv /\ [FeedNext]_feedVars => FeedIInv'
  BY RosterStep
<1>3. QED BY <1>1, <1>2, PTL DEF FeedSpec

(* The array of reporters and the mapping never part, whatever the owner   *)
(* adds and removes: no reporter is counted twice, or kept when removed.   *)
THEOREM RosterAgreesHolds == FeedSpec => []RosterAgrees
<1>1. FeedIInv => RosterAgrees
  BY DEF FeedIInv
<1>2. QED BY <1>1, FeedIInvHolds, PTL

(* A quorum within reach stays within reach through every change of the    *)
(* roster that leaves a reporter.                                          *)
THEOREM QuorumStaysReachableHolds == FeedSpec => QuorumStaysReachable
<1>1. FeedIInv /\ [FeedNext]_feedVars
        => [(quorum <= Len(reporters) /\ reporters' # <<>>) => quorum' <= Len(reporters')]_feedVars
  BY RosterStep
<1>2. QED BY <1>1, FeedIInvHolds, PTL DEF FeedSpec, QuorumStaysReachable

-----------------------------------------------------------------------------
(* The round being assembled.                                              *)
Submissions == [price : Nat, at : Nat]

BookRecords ==
  [submitters : Seq(Reporters), hasPending : SUBSET Reporters, pending : [Reporters -> Submissions]]

Consistent(b) ==
  /\ b \in BookRecords
  /\ IsInjective(b.submitters) /\ Range(b.submitters) = b.hasPending
  /\ \A r \in Reporters : r \in b.hasPending <=> b.pending[r] # Zero

LEMMA ClearIsConsistent ==
  ASSUME NEW b, Consistent(b), NEW i \in DOMAIN b.submitters
  PROVE  /\ Consistent(ClearPending(b, i))
         /\ ClearPending(b, i).hasPending = b.hasPending \ {b.submitters[i]}
         /\ \A r \in Reporters \ {b.submitters[i]} : ClearPending(b, i).pending[r] = b.pending[r]
<1>. DEFINE s == b.submitters
            c == ClearPending(b, i)
            r == s[i]
<1>1. s \in Seq(Reporters) /\ IsInjective(s) /\ Range(s) = b.hasPending /\ r \in Reporters
  BY ElementOfSeq, LenProperties DEF Consistent, BookRecords
<1>2. /\ SwapPop(s, i) \in Seq(Reporters) /\ IsInjective(SwapPop(s, i))
      /\ Range(SwapPop(s, i)) = Range(s) \ {r}
  BY <1>1, SwapPopTakesOne
<1>3. c = [submitters |-> SwapPop(s, i), hasPending |-> b.hasPending \ {r},
           pending |-> [b.pending EXCEPT ![r] = Zero]]
  BY DEF ClearPending
<1>4. b.pending \in [Reporters -> Submissions] /\ Zero \in Submissions
  BY DEF Consistent, BookRecords, Submissions, Zero
<1>5. c.pending \in [Reporters -> Submissions] /\ \A q \in Reporters : c.pending[q] = IF q = r THEN Zero ELSE b.pending[q]
  BY <1>1, <1>3, <1>4
<1>6. c.submitters = SwapPop(s, i) /\ c.hasPending = b.hasPending \ {r}
  BY <1>3
<1>7. c \in BookRecords
  BY <1>1, <1>2, <1>3, <1>5, <1>6 DEF BookRecords, Consistent
<1>8. \A q \in Reporters : q \in c.hasPending <=> c.pending[q] # Zero
  BY <1>1, <1>5, <1>6 DEF Consistent
<1>. HIDE DEF c, s, r
<1>9. Consistent(c)
  BY <1>1, <1>2, <1>6, <1>7, <1>8 DEF Consistent
<1>. QED BY <1>5, <1>6, <1>9 DEF c, s, r

(* The submissions after the first i are live.                             *)
LiveAfter(b, i) ==
  /\ Consistent(b)
  /\ b.hasPending \subseteq book.hasPending
  /\ i \in 0 .. Len(b.submitters)
  /\ \A j \in i + 1 .. Len(b.submitters) : ~Late(b.pending[b.submitters[j]])

LEMMA PurgeGoesOn ==
  ASSUME NEW b, NEW i \in Nat \ {0}, LiveAfter(b, i)
  PROVE  LiveAfter(PurgeAt(b, i), i - 1)
<1>. DEFINE s == b.submitters
            r == s[i]
            c == ClearPending(b, i)
<1>1. /\ s \in Seq(Reporters) /\ IsInjective(s) /\ DOMAIN s = 1 .. Len(s) /\ Len(s) \in Nat
      /\ i \in 1 .. Len(s) /\ Consistent(b) /\ b.hasPending \subseteq book.hasPending
  BY LenProperties DEF LiveAfter, Consistent, BookRecords
<1>2. CASE ~Late(b.pending[r])
  <2>1. PurgeAt(b, i) = b
    BY <1>2 DEF PurgeAt
  <2>2. ASSUME NEW j \in (i - 1) + 1 .. Len(s) PROVE ~Late(b.pending[s[j]])
    <3>1. j = i \/ j \in i + 1 .. Len(s)
      BY <1>1
    <3>. QED BY <1>2, <3>1 DEF LiveAfter
  <2>3. i - 1 \in 0 .. Len(s)
    BY <1>1
  <2>. QED BY <1>1, <2>1, <2>2, <2>3 DEF LiveAfter
<1>3. CASE Late(b.pending[r])
  <2>1. PurgeAt(b, i) = c
    BY <1>3 DEF PurgeAt
  <2>2. /\ Consistent(c) /\ c.hasPending = b.hasPending \ {r}
        /\ \A q \in Reporters \ {r} : c.pending[q] = b.pending[q]
    BY <1>1, ClearIsConsistent
  <2>3. c.submitters = SwapPop(s, i)
    BY DEF ClearPending
  <2>. DEFINE t == c.submitters
  <2>4. Len(t) = Len(s) - 1 /\ \A k \in 1 .. Len(s) - 1 : t[k] = IF k = i THEN s[Len(s)] ELSE s[k]
    <3>1. s \in Seq(Reporters) /\ IsInjective(s) /\ i \in DOMAIN s
      BY <1>1
    <3>. HIDE DEF s
    <3>2. /\ Len(SwapPop(s, i)) = Len(s) - 1
          /\ \A k \in 1 .. Len(s) - 1 : SwapPop(s, i)[k] = IF k = i THEN s[Len(s)] ELSE s[k]
      BY <3>1, SwapPopTakesOne
    <3>. QED BY <2>3, <3>2
  <2>. HIDE DEF c
  <2>5. ASSUME NEW j \in (i - 1) + 1 .. Len(t) PROVE ~Late(c.pending[t[j]])
    <3>. DEFINE k == IF j = i THEN Len(s) ELSE j
    <3>1. j \in 1 .. Len(s) - 1 /\ k \in i + 1 .. Len(s) /\ k \in 1 .. Len(s)
      BY <1>1, <2>4
    <3>2. t[j] = s[k]
      BY <2>4, <3>1
    <3>3. s[k] \in Reporters /\ s[k] # r
      BY <1>1, <3>1, ElementOfSeq DEF IsInjective
    <3>4. c.pending[s[k]] = b.pending[s[k]]
      BY <2>2, <3>3
    <3>5. ~Late(b.pending[s[k]])
      BY <3>1 DEF LiveAfter
    <3>. QED BY <3>2, <3>4, <3>5
  <2>6. i - 1 \in 0 .. Len(t)
    BY <1>1, <2>4
  <2>. QED BY <1>1, <2>1, <2>2, <2>5, <2>6 DEF LiveAfter
<1>. QED BY <1>2, <1>3

(* The recursion of Purged.                                                *)
PurgeTo(f, n, k) == IF k = 0 THEN book ELSE PurgeAt(f[k - 1], n - k + 1)

LEMMA WalkIsLive ==
  ASSUME NEW n \in Nat, n = Len(book.submitters), Consistent(book), NEW f, f[0] = book,
         NEW m \in 0 .. n, \A k \in 1 .. m : f[k] = PurgeAt(f[k - 1], n - k + 1)
  PROVE  \A k \in 0 .. m : LiveAfter(f[k], n - k)
<1>. DEFINE T == {k \in 0 .. m : LiveAfter(f[k], n - k)}
<1>1. 0 \in T
  <2>1. LiveAfter(book, n)
    BY DEF LiveAfter
  <2>2. n - 0 = n /\ 0 \in 0 .. m
    OBVIOUS
  <2>. QED BY <2>1, <2>2
<1>2. ASSUME NEW k \in 0 .. m - 1, k \in T PROVE k + 1 \in T
  <2>1. /\ k + 1 \in 1 .. m /\ (k + 1) - 1 = k /\ n - (k + 1) + 1 = n - k
        /\ n - k \in Nat \ {0} /\ (n - k) - 1 = n - (k + 1)
    OBVIOUS
  <2>2. f[k + 1] = PurgeAt(f[k], n - k)
    BY <2>1
  <2>3. LiveAfter(f[k + 1], (n - k) - 1)
    BY <1>2, <2>1, <2>2, PurgeGoesOn
  <2>. QED BY <2>1, <2>3
<1>3. \A k \in 0 .. m : k \in T
  <2>1. m \in Nat /\ \A k \in 0 .. m - 1 : k \in T => k + 1 \in T
    BY <1>2
  <2>. HIDE DEF T
  <2>. QED BY <1>1, <2>1, UpTo
<1>. QED BY <1>3

LEMMA PurgedIsLive ==
  ASSUME Consistent(book)
  PROVE  LiveAfter(Purged, 0)
<1>1. PICK n \in Nat : n = Len(book.submitters)
  BY LenProperties DEF Consistent, BookRecords
<1>. DEFINE X == BookRecords
            next(b, k) == PurgeAt(b, n - k + 1)
            F == [y \in X \X (1 .. n) |-> IF next(y[1], y[2]) \in X THEN next(y[1], y[2]) ELSE y[1]]
            it == CHOOSE it : it = [k \in 0 .. n |-> PurgeTo(it, n, k)]
<1>2. F \in [X \X (1 .. n) -> X] /\ \A b \in X, k \in 1 .. n : next(b, k) \in X => F[<<b, k>>] = next(b, k)
  <2>. HIDE DEF next, X
  <2>. QED OBVIOUS
<1>. HIDE DEF F
<1>3. PICK f \in [0 .. n -> X] : IsRecursion(f, book, F, n)
  <2>1. book \in X
    BY DEF Consistent
  <2>2. PICK b : b = book
    OBVIOUS
  <2>. HIDE DEF X
  <2>. QED BY <1>2, <2>1, <2>2, Recursion
<1>4. \A k \in 0 .. n : \A j \in 1 .. k : f[j] = next(f[j - 1], j)
  <2>. DEFINE T == {k \in 0 .. n : \A j \in 1 .. k : f[j] = next(f[j - 1], j)}
  <2>1. 0 \in T
    OBVIOUS
  <2>2. ASSUME NEW k \in 0 .. n - 1, k \in T PROVE k + 1 \in T
    <3>1. k + 1 \in 1 .. n /\ (k + 1) - 1 = k /\ k \in 0 .. n /\ n - (k + 1) + 1 = n - k /\ n - k \in Nat \ {0}
      OBVIOUS
    <3>2. f[0] = book
      BY <1>3 DEF IsRecursion
    <3>3. \A j \in 1 .. k : f[j] = PurgeAt(f[j - 1], n - j + 1)
      BY <2>2
    <3>10. PICK m \in 0 .. n : m = k
      BY <3>1
    <3>11. f[0] = book /\ \A j \in 1 .. m : f[j] = PurgeAt(f[j - 1], n - j + 1)
      BY <3>2, <3>3, <3>10
    <3>12. \A j \in 0 .. m : LiveAfter(f[j], n - j)
      BY <1>1, <3>11, WalkIsLive
    <3>4. LiveAfter(f[k], n - k)
      BY <3>10, <3>12
    <3>5. LiveAfter(PurgeAt(f[k], n - k), (n - k) - 1)
      BY <3>1, <3>4, PurgeGoesOn
    <3>6. f[k] \in X /\ next(f[k], k + 1) \in X
      BY <3>1, <3>4, <3>5 DEF LiveAfter, Consistent
    <3>7. f[k + 1] = F[<<f[k], k + 1>>]
      BY <1>3, <3>1 DEF IsRecursion
    <3>8. f[k + 1] = next(f[(k + 1) - 1], k + 1)
      <4>. HIDE DEF next, X
      <4>. QED BY <1>2, <3>1, <3>6, <3>7
    <3>9. \A j \in 1 .. k + 1 : j \in 1 .. k \/ j = k + 1
      BY <3>1
    <3>. HIDE DEF next
    <3>. QED BY <2>2, <3>1, <3>8, <3>9
  <2>. HIDE DEF T
  <2>3. \A k \in 0 .. n : k \in T
    BY <2>1, <2>2, UpTo
  <2>. QED BY <2>3 DEF T
<1>5. f = [k \in 0 .. n |-> PurgeTo(f, n, k)]
  <2>1. ASSUME NEW k \in 0 .. n PROVE f[k] = PurgeTo(f, n, k)
    <3>1. CASE k = 0
      BY <1>3, <3>1 DEF IsRecursion, PurgeTo
    <3>2. CASE k # 0
      <4>1. k \in 1 .. n /\ n \in 0 .. n
        BY <3>2
      <4>. QED BY <1>4, <3>2, <4>1 DEF PurgeTo
    <3>. QED BY <3>1, <3>2
  <2>. HIDE DEF X
  <2>. QED BY <2>1
<1>6. it = [k \in 0 .. n |-> PurgeTo(it, n, k)]
  BY <1>5
<1>7. Purged = it[n]
  BY <1>1 DEF Purged, PurgeTo
<1>. HIDE DEF it
<1>8. it[0] = book /\ \A k \in 1 .. n : it[k] = PurgeAt(it[k - 1], n - k + 1)
  <2>1. \A k \in 0 .. n : it[k] = PurgeTo(it, n, k)
    BY <1>6, Zenon
  <2>2. \A k \in 1 .. n : k \in 0 .. n /\ k # 0
    OBVIOUS
  <2>3. 0 \in 0 .. n
    OBVIOUS
  <2>. QED BY <2>1, <2>2, <2>3 DEF PurgeTo
<1>9. LiveAfter(it[n], n - n)
  <2>1. n \in 0 .. n
    OBVIOUS
  <2>. QED BY <1>1, <1>8, <2>1, WalkIsLive
<1>10. n - n = 0
  OBVIOUS
<1>. QED BY <1>7, <1>9, <1>10

-----------------------------------------------------------------------------
(* The rounds.                                                             *)
FreshRound(round) ==
  round.purged =>
    /\ round.updatedAt <= round.startedAt + round.age
    /\ \A r \in DOMAIN round.from : round.startedAt <= round.from[r].at

BoundedRound(round) ==
  LET honest == DOMAIN round.from \cap Honest
      others == DOMAIN round.from \ Honest
  IN  Cardinality(others) < Cardinality(honest) =>
        \E low, high \in honest :
          /\ round.from[low].price <= round.answer + 1
          /\ round.answer <= round.from[high].price

SoundRounds ==
  /\ rounds \in Seq(Range(rounds))
  /\ \A i \in DOMAIN rounds : FreshRound(rounds[i]) /\ BoundedRound(rounds[i])

(* What a round is made of.                                                *)
Ready(b, purged) ==
  /\ Consistent(b) /\ b.submitters # <<>>
  /\ purged => \A r \in b.hasPending : ~Late(b.pending[r])

LEMMA RoundIsFresh ==
  ASSUME now \in Nat, maxSubmissionAge \in Nat, NEW purged \in BOOLEAN, NEW b, Ready(b, purged)
  PROVE  FreshRound(RoundOf(b, purged))
<1>. DEFINE s == b.submitters
            A == {b.pending[s[i]].at : i \in DOMAIN s}
            started == CHOOSE t \in A : \A i \in DOMAIN s : t <= b.pending[s[i]].at
            round == RoundOf(b, purged)
<1>1. /\ s \in Seq(Reporters) /\ s # <<>> /\ Range(s) = b.hasPending
      /\ b.pending \in [Reporters -> Submissions]
  BY DEF Ready, Consistent, BookRecords
<1>2. 1 \in DOMAIN s /\ \A i \in DOMAIN s : s[i] \in Reporters
  BY <1>1, EmptySeq, LenProperties, ElementOfSeq
<1>3. \A i \in DOMAIN s : b.pending[s[i]].at \in Nat
  BY <1>1, <1>2 DEF Submissions
<1>4. A \in SUBSET Nat /\ A # {}
  BY <1>2, <1>3
<1>5. PICK t \in A : \A k \in A : t <= k
  <2>. HIDE DEF A
  <2>. QED BY <1>4, LeastNumber
<1>6. started \in A /\ \A i \in DOMAIN s : started <= b.pending[s[i]].at
  BY <1>5
<1>7. /\ round.startedAt = started /\ round.updatedAt = now /\ round.age = maxSubmissionAge
      /\ round.purged = purged /\ round.from = [r \in Range(s) |-> b.pending[r]]
  BY DEF RoundOf
<1>. HIDE DEF started, round
<1>8. ASSUME NEW r \in DOMAIN round.from PROVE started <= round.from[r].at
  <2>1. PICK i \in DOMAIN s : r = s[i]
    BY <1>7 DEF Range
  <2>2. round.from[r] = b.pending[s[i]]
    BY <1>7, <2>1
  <2>. QED BY <1>6, <2>2
<1>9. purged => now <= started + maxSubmissionAge
  <2>1. PICK i \in DOMAIN s : started = b.pending[s[i]].at
    BY <1>6
  <2>2. s[i] \in b.hasPending
    BY <1>1 DEF Range
  <2>3. purged => ~Late(b.pending[s[i]])
    BY <2>2 DEF Ready
  <2>. QED BY <1>3, <2>1, <2>3 DEF Late
<1>10. FreshRound(round)
  BY <1>7, <1>8, <1>9 DEF FreshRound
<1>. QED BY <1>10 DEF round

LEMMA OneRoundMore ==
  ASSUME SoundRounds, NEW round, FreshRound(round), BoundedRound(round), rounds' = Append(rounds, round)
  PROVE  SoundRounds'
<1>1. PICK V : V = Range(rounds) \cup {round}
  OBVIOUS
<1>2. rounds \in Seq(Range(rounds)) /\ DOMAIN rounds = 1 .. Len(rounds) /\ Len(rounds) \in Nat
  BY LenProperties DEF SoundRounds
<1>3. \A i \in 1 .. Len(rounds) : rounds[i] \in V
  BY <1>1, <1>2 DEF Range
<1>4. rounds = [i \in 1 .. Len(rounds) |-> rounds[i]]
  <2>1. PICK W : W = Range(rounds)
    OBVIOUS
  <2>. QED BY <1>2, <2>1
<1>5. rounds \in Seq(V) /\ round \in V
  BY <1>1, <1>2, <1>3, <1>4
<1>6. /\ rounds' \in Seq(V) /\ Len(rounds') = Len(rounds) + 1 /\ DOMAIN rounds' = 1 .. Len(rounds) + 1
      /\ rounds'[Len(rounds) + 1] = round /\ \A i \in 1 .. Len(rounds) : rounds'[i] = rounds[i]
  BY <1>5, AppendProperties, LenProperties
<1>7. \A i \in DOMAIN rounds' : i = Len(rounds) + 1 \/ i \in 1 .. Len(rounds)
  BY <1>2, <1>6
<1>8. \A i \in DOMAIN rounds' : FreshRound(rounds'[i]) /\ BoundedRound(rounds'[i])
  BY <1>2, <1>6, <1>7 DEF SoundRounds
<1>9. rounds' \in Seq(Range(rounds'))
  <2>1. PICK t : t = rounds'
    OBVIOUS
  <2>4. PICK n \in Nat : n = Len(rounds')
    BY <1>2, <1>6
  <2>5. t \in Seq(V) /\ Len(t) = n
    BY <1>6, <2>1, <2>4
  <2>2. t = [i \in 1 .. n |-> t[i]]
    BY <2>5
  <2>3. t \in Seq(Range(t))
    BY <2>2, SequenceOfRange
  <2>. QED BY <2>1, <2>3
<1>. QED BY <1>8, <1>9 DEF SoundRounds

-----------------------------------------------------------------------------
(* The median lies between honest submissions.                             *)
LEMMA OthersAreFewer ==
  ASSUME NEW D, NEW n \in Nat, NEW q \in Bijection(1 .. n, D),
         NEW H \in SUBSET D, Cardinality(D \ H) < Cardinality(H),
         NEW a \in 1 .. n, NEW b \in a .. n, n <= 2 * (b - a + 1)
  PROVE  \E i \in a .. b : q[i] \in H
<1>. DEFINE O == D \ H
            P == a .. b
<1>1. IsFiniteSet(1 .. n) /\ Cardinality(1 .. n) = n /\ IsFiniteSet(P) /\ Cardinality(P) = b - a + 1
  BY FS_Interval
<1>2. IsFiniteSet(D) /\ Cardinality(D) = n
  <2>1. ExistsBijection(1 .. n, D)
    BY DEF ExistsBijection
  <2>. QED BY <1>1, <2>1, FS_Bijection
<1>3. /\ IsFiniteSet(O) /\ IsFiniteSet(H)
      /\ Cardinality(O) \in Nat /\ Cardinality(H) \in Nat /\ Cardinality(O) + Cardinality(H) = n
  <2>1. IsFiniteSet(O) /\ IsFiniteSet(H)
    BY <1>2, FS_Subset
  <2>2. PICK k \in Nat, l \in Nat : k = Cardinality(O) /\ l = Cardinality(H)
    BY <2>1, FS_CardinalityType
  <2>3. D \cap H = H
    OBVIOUS
  <2>4. Cardinality(O) = Cardinality(D) - Cardinality(D \cap H)
    BY <1>2, FS_Difference
  <2>5. k = n - l
    BY <1>2, <2>2, <2>3, <2>4
  <2>6. k + l = n
    BY <2>2, <2>5
  <2>. QED BY <2>1, <2>2, <2>6
<1>4. ASSUME \A i \in P : q[i] \notin H PROVE FALSE
  <2>. DEFINE f == [i \in P |-> q[i]]
  <2>1. \A i \in P : i \in 1 .. n
    OBVIOUS
  <2>2. q \in [1 .. n -> D] /\ \A i, j \in 1 .. n : q[i] = q[j] => i = j
    BY DEF Bijection, Injection, IsInjective
  <2>3. f \in [P -> O] /\ \A i, j \in P : f[i] = f[j] => i = j
    BY <1>4, <2>1, <2>2
  <2>4. f \in Injection(P, O)
    <3>. HIDE DEF f, P, O
    <3>. QED BY <2>3 DEF Injection, IsInjective
  <2>5. Cardinality(P) <= Cardinality(O)
    <3>. HIDE DEF f, P, O
    <3>. QED BY <1>3, <2>4, FS_Injection
  <2>. QED BY <1>1, <1>3, <2>5
<1>. QED BY <1>4

(* The first k positions of a sorting of the values, the rest not below.   *)
SortedTo(values, n, k, p) ==
  /\ p \in Injection(1 .. k, 1 .. n)
  /\ \A i, j \in 1 .. k : i < j => values[p[i]] <= values[p[j]]
  /\ \A i \in 1 .. k : \A x \in 1 .. n : (\A j \in 1 .. k : p[j] # x) => values[p[i]] <= values[x]

LEMMA SomeAreLeft ==
  ASSUME NEW n \in Nat, NEW k \in 0 .. n - 1, NEW p \in Injection(1 .. k, 1 .. n)
  PROVE  \E x \in 1 .. n : \A j \in 1 .. k : p[j] # x
<1>1. ASSUME \A x \in 1 .. n : \E j \in 1 .. k : p[j] = x PROVE FALSE
  <2>1. /\ IsFiniteSet(1 .. n) /\ Cardinality(1 .. n) = n
        /\ IsFiniteSet(1 .. k) /\ Cardinality(1 .. k) = k
    BY FS_Interval
  <2>2. p \in Surjection(1 .. k, 1 .. n)
    BY <1>1 DEF Injection, Surjection
  <2>3. n <= k
    BY <2>1, <2>2, FS_Surjection
  <2>. QED BY <2>3
<1>. QED BY <1>1

LEMMA OnePositionMore ==
  ASSUME NEW n \in Nat, NEW values \in [1 .. n -> Nat], NEW k \in 0 .. n - 1, NEW p, SortedTo(values, n, k, p)
  PROVE  \E q : SortedTo(values, n, k + 1, q)
<1>. DEFINE Left == {x \in 1 .. n : \A j \in 1 .. k : p[j] # x}
            V == {values[x] : x \in Left}
<1>1. /\ p \in [1 .. k -> 1 .. n] /\ \A i, j \in 1 .. k : p[i] = p[j] => i = j
  BY DEF SortedTo, Injection, IsInjective
<1>2. V \in SUBSET Nat /\ V # {}
  <2>1. p \in Injection(1 .. k, 1 .. n)
    BY DEF SortedTo
  <2>2. PICK x \in 1 .. n : \A j \in 1 .. k : p[j] # x
    BY <2>1, SomeAreLeft
  <2>3. x \in Left
    BY <2>2
  <2>. QED BY <2>3
<1>3. PICK v \in V : \A w \in V : v <= w
  <2>. HIDE DEF V
  <2>. QED BY <1>2, LeastNumber
<1>4. PICK x \in Left : \A y \in Left : values[x] <= values[y]
  BY <1>3
<1>. DEFINE q == [i \in 1 .. k + 1 |-> IF i = k + 1 THEN x ELSE p[i]]
<1>5. \A i \in 1 .. k + 1 : i = k + 1 \/ (i \in 1 .. k /\ i < k + 1)
  OBVIOUS
<1>6. /\ q \in [1 .. k + 1 -> 1 .. n] /\ q[k + 1] = x /\ \A i \in 1 .. k : q[i] = p[i]
  BY <1>1, <1>4
<1>. HIDE DEF q
<1>7. x \in 1 .. n /\ \A j \in 1 .. k : p[j] # x
  BY <1>4
<1>8. \A i, j \in 1 .. k + 1 : q[i] = q[j] => i = j
  BY <1>1, <1>5, <1>6, <1>7
<1>9. q \in Injection(1 .. k + 1, 1 .. n)
  BY <1>6, <1>8 DEF Injection, IsInjective
<1>10. ASSUME NEW i \in 1 .. k + 1, NEW j \in 1 .. k + 1, i < j PROVE values[q[i]] <= values[q[j]]
  <2>1. i \in 1 .. k
    BY <1>10
  <2>2. CASE j = k + 1
    BY <1>6, <1>7, <2>1, <2>2 DEF SortedTo
  <2>3. CASE j \in 1 .. k
    BY <1>6, <1>10, <2>1, <2>3 DEF SortedTo
  <2>. QED BY <1>5, <2>2, <2>3
<1>11. ASSUME NEW i \in 1 .. k + 1, NEW y \in 1 .. n, \A j \in 1 .. k + 1 : q[j] # y
       PROVE  values[q[i]] <= values[y]
  <2>1. y \in Left
    <3>1. \A j \in 1 .. k : j \in 1 .. k + 1
      OBVIOUS
    <3>. QED BY <1>6, <1>11, <3>1
  <2>2. CASE i = k + 1
    BY <1>4, <1>6, <2>1, <2>2
  <2>3. CASE i \in 1 .. k
    BY <1>6, <2>1, <2>3 DEF SortedTo
  <2>. QED BY <1>5, <2>2, <2>3
<1>12. SortedTo(values, n, k + 1, q)
  BY <1>9, <1>10, <1>11 DEF SortedTo
<1>. QED BY <1>12

LEMMA Sortable ==
  ASSUME NEW n \in Nat, NEW values \in [1 .. n -> Nat]
  PROVE  \E p \in Bijection(1 .. n, 1 .. n) : InOrder(values, p)
<1>. DEFINE T == {k \in 0 .. n : \E p : SortedTo(values, n, k, p)}
<1>1. 0 \in T
  <2>. DEFINE p == [i \in 1 .. 0 |-> 0]
  <2>1. 1 .. 0 = {} /\ 0 \in 0 .. n
    OBVIOUS
  <2>2. p \in Injection(1 .. 0, 1 .. n)
    BY <2>1 DEF Injection, IsInjective
  <2>3. SortedTo(values, n, 0, p)
    <3>. HIDE DEF p
    <3>. QED BY <2>1, <2>2 DEF SortedTo
  <2>. QED BY <2>1, <2>3
<1>2. ASSUME NEW k \in 0 .. n - 1, k \in T PROVE k + 1 \in T
  <2>1. PICK p : SortedTo(values, n, k, p)
    BY <1>2
  <2>2. PICK q : SortedTo(values, n, k + 1, q)
    BY <2>1, OnePositionMore
  <2>3. k + 1 \in 0 .. n
    OBVIOUS
  <2>. QED BY <2>2, <2>3
<1>3. n \in T
  <2>. HIDE DEF T
  <2>1. \A k \in 0 .. n : k \in T
    BY <1>1, <1>2, UpTo
  <2>2. n \in 0 .. n
    OBVIOUS
  <2>. QED BY <2>1, <2>2
<1>4. PICK p : SortedTo(values, n, n, p)
  BY <1>3
<1>5. IsFiniteSet(1 .. n)
  BY FS_Interval
<1>6. p \in Injection(1 .. n, 1 .. n)
  BY <1>4 DEF SortedTo
<1>7. p \in Surjection(1 .. n, 1 .. n)
  BY <1>5, <1>6, FS_Injection
<1>8. p \in Bijection(1 .. n, 1 .. n)
  BY <1>6, <1>7 DEF Bijection
<1>9. DOMAIN values = 1 .. n
  OBVIOUS
<1>10. InOrder(values, p)
  BY <1>4, <1>9 DEF InOrder, SortedTo
<1>. QED BY <1>8, <1>10

LEMMA SortedIsSorted ==
  ASSUME NEW n \in Nat, NEW values \in [1 .. n -> Nat]
  PROVE  \E p \in Bijection(1 .. n, 1 .. n) :
           /\ \A i \in 1 .. n : p[i] \in 1 .. n /\ Sorted(values)[i] = values[p[i]]
           /\ \A i, j \in 1 .. n : i <= j => Sorted(values)[i] <= Sorted(values)[j]
<1>. DEFINE p == CHOOSE p \in Bijection(DOMAIN values, DOMAIN values) : InOrder(values, p)
<1>1. DOMAIN values = 1 .. n
  OBVIOUS
<1>2. p \in Bijection(1 .. n, 1 .. n) /\ InOrder(values, p)
  BY <1>1, Sortable
<1>3. Sorted(values) = [i \in 1 .. n |-> values[p[i]]]
  BY <1>1 DEF Sorted
<1>. HIDE DEF p
<1>4. \A i \in 1 .. n : p[i] \in 1 .. n /\ Sorted(values)[i] = values[p[i]]
  BY <1>2, <1>3 DEF Bijection, Injection
<1>5. ASSUME NEW i \in 1 .. n, NEW j \in 1 .. n, i <= j PROVE Sorted(values)[i] <= Sorted(values)[j]
  <2>1. i < j \/ i = j
    BY <1>5
  <2>. QED BY <1>1, <1>2, <1>4, <2>1 DEF InOrder
<1>. QED BY <1>2, <1>4, <1>5

LEMMA HalvesAddUp ==
  ASSUME NEW x \in Nat, NEW y \in Nat, x <= y
  PROVE  /\ x <= (x \div 2 + y \div 2) + 1 /\ x \div 2 + y \div 2 <= y
         /\ x \div 2 + y \div 2 \in Nat
<1>1. \A z \in Nat : z \div 2 \in Nat /\ 2 * (z \div 2) <= z /\ z <= 2 * (z \div 2) + 1
  OBVIOUS
<1>2. PICK k \in Nat, l \in Nat : /\ k = x \div 2 /\ 2 * k <= x /\ x <= 2 * k + 1
                                  /\ l = y \div 2 /\ 2 * l <= y /\ y <= 2 * l + 1
  BY <1>1
<1>3. x <= (k + l) + 1 /\ k + l <= y /\ k + l \in Nat
  BY <1>2
<1>. QED BY <1>2, <1>3

LEMMA MedianIsBetween ==
  ASSUME NEW n \in Nat \ {0}, NEW values \in [1 .. n -> Nat],
         NEW D, NEW s \in Bijection(1 .. n, D),
         NEW H \in SUBSET D, Cardinality(D \ H) < Cardinality(H)
  PROVE  \E low, high \in 1 .. n :
           /\ s[low] \in H /\ s[high] \in H
           /\ values[low] <= Median(values) + 1 /\ Median(values) <= values[high]
<1>1. PICK p \in Bijection(1 .. n, 1 .. n) :
        /\ \A i \in 1 .. n : p[i] \in 1 .. n /\ Sorted(values)[i] = values[p[i]]
        /\ \A i, j \in 1 .. n : i <= j => Sorted(values)[i] <= Sorted(values)[j]
  BY SortedIsSorted
<1>. DEFINE q == [i \in 1 .. n |-> s[p[i]]]
            v == Sorted(values)
            m == Median(values)
<1>2. q \in Bijection(1 .. n, D) /\ \A i \in 1 .. n : q[i] = s[p[i]]
  <2>1. PICK P : P = 1 .. n
    OBVIOUS
  <2>2. /\ p \in [P -> P] /\ \A i, j \in P : p[i] = p[j] => i = j
        /\ \A j \in P : \E i \in P : p[i] = j
    BY <2>1 DEF Bijection, Injection, Surjection, IsInjective
  <2>3. /\ s \in [P -> D] /\ \A i, j \in P : s[i] = s[j] => i = j
        /\ \A d \in D : \E i \in P : s[i] = d
    BY <2>1 DEF Bijection, Injection, Surjection, IsInjective
  <2>4. q \in [P -> D] /\ \A i \in P : q[i] = s[p[i]]
    BY <2>1, <2>2, <2>3
  <2>. HIDE DEF q
  <2>5. \A i, j \in P : q[i] = q[j] => i = j
    BY <2>2, <2>3, <2>4
  <2>6. \A d \in D : \E i \in P : q[i] = d
    <3>. TAKE d \in D
    <3>1. PICK j \in P : s[j] = d
      BY <2>3
    <3>2. PICK i \in P : p[i] = j
      BY <2>2
    <3>. QED BY <2>4, <3>1, <3>2
  <2>7. q \in Injection(P, D) /\ q \in Surjection(P, D)
    BY <2>4, <2>5, <2>6 DEF Injection, Surjection, IsInjective
  <2>. QED BY <2>1, <2>4, <2>7 DEF Bijection
<1>. HIDE DEF q
<1>3. DOMAIN values = 1 .. n /\ Len(values) = n
  <2>1. PICK N : N = Nat
    OBVIOUS
  <2>2. values \in Seq(N)
    BY <2>1
  <2>. QED BY <2>2, LenProperties
<1>4. Median(values) = IF n % 2 = 1 THEN v[n \div 2 + 1] ELSE v[n \div 2] \div 2 + v[n \div 2 + 1] \div 2
  BY <1>3 DEF Median
<1>5. \A i \in 1 .. n : v[i] \in Nat
  BY <1>1
<1>6. PICK v0 : v0 = v
  OBVIOUS
<1>7. \E a, b \in 1 .. n :
        /\ n <= 2 * a /\ n <= 2 * (n - b + 1)
        /\ v0[a] <= m + 1 /\ m <= v0[b] /\ m \in Nat
  <2>1. CASE n % 2 = 1
    <3>1. PICK a \in 1 .. n : n = 2 * a - 1 /\ a = n \div 2 + 1
      BY <2>1
    <3>2. m = v0[a] /\ v0[a] \in Nat
      BY <1>4, <1>5, <1>6, <2>1, <3>1
    <3>3. n <= 2 * a /\ n <= 2 * (n - a + 1)
      BY <3>1
    <3>. QED BY <3>2, <3>3
  <2>2. CASE n % 2 # 1
    <3>1. PICK a \in 1 .. n : n = 2 * a /\ a = n \div 2 /\ a + 1 \in 1 .. n
      BY <2>2
    <3>2. PICK x \in Nat, y \in Nat : x = v0[a] /\ y = v0[a + 1] /\ x <= y /\ m = x \div 2 + y \div 2
      BY <1>1, <1>4, <1>5, <1>6, <2>2, <3>1
    <3>3. v0[a] <= m + 1 /\ m <= v0[a + 1] /\ m \in Nat
      BY <3>2, HalvesAddUp
    <3>4. n <= 2 * a /\ n <= 2 * (n - (a + 1) + 1)
      BY <3>1
    <3>. QED BY <3>1, <3>3, <3>4
  <2>. QED BY <2>1, <2>2
<1>8. PICK a \in 1 .. n, b \in 1 .. n :
        /\ n <= 2 * a /\ n <= 2 * (n - b + 1)
        /\ v0[a] <= m + 1 /\ m <= v0[b] /\ m \in Nat
  BY <1>7
<1>9. PICK i \in 1 .. a : q[i] \in H
  <2>1. 1 \in 1 .. n /\ a \in 1 .. n /\ n <= 2 * (a - 1 + 1)
    BY <1>8
  <2>. QED BY <1>2, <2>1, OthersAreFewer
<1>10. PICK j \in b .. n : q[j] \in H
  <2>1. n \in b .. n
    OBVIOUS
  <2>. QED BY <1>2, <1>8, <2>1, OthersAreFewer
<1>11. i \in 1 .. n /\ i <= a /\ j \in 1 .. n /\ b <= j
  OBVIOUS
<1>12. v0[i] <= v0[a] /\ v0[b] <= v0[j]
  BY <1>1, <1>6, <1>11
<1>13. /\ p[i] \in 1 .. n /\ values[p[i]] = v0[i] /\ v0[i] \in Nat /\ v0[a] \in Nat
       /\ p[j] \in 1 .. n /\ values[p[j]] = v0[j] /\ v0[j] \in Nat /\ v0[b] \in Nat
  BY <1>1, <1>5, <1>6, <1>11
<1>. HIDE DEF m, v
<1>14. values[p[i]] <= m + 1 /\ m <= values[p[j]]
  <2>1. \A x, y, z \in Nat : (x <= y /\ y <= z + 1 => x <= z + 1) /\ (z <= x /\ x <= y => z <= y)
    OBVIOUS
  <2>2. v0[i] <= m + 1 /\ m <= v0[j]
    BY <1>8, <1>12, <1>13, <2>1
  <2>3. values[p[i]] = v0[i] /\ values[p[j]] = v0[j]
    BY <1>13
  <2>. QED BY <2>2, <2>3, Zenon
<1>15. s[p[i]] \in H /\ s[p[j]] \in H
  BY <1>2, <1>9, <1>10, <1>11
<1>. QED BY <1>13, <1>14, <1>15 DEF m

LEMMA RoundIsBounded ==
  ASSUME NEW purged \in BOOLEAN, NEW b, Ready(b, purged)
  PROVE  BoundedRound(RoundOf(b, purged))
<1>. DEFINE s == b.submitters
            D == Range(s)
            values == [i \in DOMAIN s |-> b.pending[s[i]].price]
            round == RoundOf(b, purged)
<1>1. /\ s \in Seq(Reporters) /\ s # <<>> /\ IsInjective(s)
      /\ b.pending \in [Reporters -> Submissions]
  BY DEF Ready, Consistent, BookRecords
<1>2. PICK n \in Nat \ {0} : n = Len(s) /\ DOMAIN s = 1 .. n
  BY <1>1, EmptySeq, LenProperties
<1>3. \A i \in 1 .. n : s[i] \in Reporters
  BY <1>1, <1>2, ElementOfSeq
<1>4. values \in [1 .. n -> Nat] /\ \A i \in 1 .. n : values[i] = b.pending[s[i]].price
  BY <1>1, <1>2, <1>3 DEF Submissions
<1>5. s \in Bijection(1 .. n, D)
  <2>1. s = [i \in 1 .. n |-> s[i]]
    BY <1>1, <1>2
  <2>2. \A i \in 1 .. n : s[i] \in D
    BY <1>2 DEF Range
  <2>3. s \in [1 .. n -> D]
    <3>. HIDE DEF s, D
    <3>. QED BY <2>1, <2>2
  <2>4. \A d \in D : \E i \in 1 .. n : s[i] = d
    BY <1>2 DEF Range
  <2>5. \A i, j \in DOMAIN s : s[i] = s[j] => i = j
    BY <1>1 DEF IsInjective
  <2>6. s \in Injection(1 .. n, D)
    <3>. HIDE DEF s, D
    <3>. QED BY <1>2, <2>3, <2>5 DEF Injection, IsInjective
  <2>7. s \in Surjection(1 .. n, D)
    <3>. HIDE DEF s, D
    <3>. QED BY <2>3, <2>4 DEF Surjection
  <2>. QED BY <2>6, <2>7 DEF Bijection
<1>6. round.answer = Median(values) /\ round.from = [r \in D |-> b.pending[r]]
  BY DEF RoundOf
<1>. HIDE DEF round, values
<1>7. DOMAIN round.from = D
  BY <1>6
<1>. DEFINE H == D \cap Honest
<1>8. ASSUME Cardinality(D \ Honest) < Cardinality(H)
      PROVE  \E low, high \in H : /\ round.from[low].price <= round.answer + 1
                                  /\ round.answer <= round.from[high].price
  <2>1. D \ H = D \ Honest
    OBVIOUS
  <2>2. H \in SUBSET D /\ Cardinality(D \ H) < Cardinality(H)
    BY <1>8, <2>1
  <2>3. PICK low \in 1 .. n, high \in 1 .. n :
          /\ s[low] \in H /\ s[high] \in H
          /\ values[low] <= Median(values) + 1 /\ Median(values) <= values[high]
    <3>. HIDE DEF H, D, s
    <3>. QED BY <1>4, <1>5, <2>2, MedianIsBetween
  <2>4. s[low] \in D /\ s[high] \in D
    BY <2>3
  <2>5. round.from[s[low]].price = values[low] /\ round.from[s[high]].price = values[high]
    BY <1>4, <1>6, <2>4
  <2>. QED BY <1>6, <2>3, <2>5
<1>9. BoundedRound(round)
  BY <1>7, <1>8 DEF BoundedRound
<1>. QED BY <1>9 DEF round

-----------------------------------------------------------------------------
FeedBooks ==
  /\ now \in Nat /\ maxSubmissionAge \in Nat /\ quorum \in Nat \ {0}
  /\ Consistent(book)
  /\ book.hasPending \subseteq isReporter
  /\ SoundRounds

LEMMA FinalizeStep ==
  ASSUME FeedBooks, NEW purged \in BOOLEAN, NEW b, Ready(b, purged), Finalize(b, purged)
  PROVE  Consistent(book') /\ book'.hasPending = {} /\ SoundRounds'
<1>1. SoundRounds'
  <2>1. FreshRound(RoundOf(b, purged)) /\ BoundedRound(RoundOf(b, purged))
    BY RoundIsFresh, RoundIsBounded DEF FeedBooks
  <2>2. rounds' = Append(rounds, RoundOf(b, purged)) /\ SoundRounds
    BY DEF Finalize, FeedBooks
  <2>. QED BY <2>1, <2>2, OneRoundMore
<1>2. /\ b \in BookRecords /\ Range(b.submitters) = b.hasPending
      /\ \A r \in Reporters : r \in b.hasPending <=> b.pending[r] # Zero
  BY DEF Ready, Consistent
<1>3. book' = [submitters |-> <<>>,
               hasPending |-> b.hasPending \ Range(b.submitters),
               pending |-> [r \in Reporters |-> IF r \in Range(b.submitters) THEN Zero ELSE b.pending[r]]]
  BY DEF Finalize
<1>. DEFINE pending == [r \in Reporters |-> IF r \in Range(b.submitters) THEN Zero ELSE b.pending[r]]
<1>4. \A r \in Reporters : pending[r] = Zero
  BY <1>2
<1>5. pending = [r \in Reporters |-> Zero]
  BY <1>4
<1>6. Zero \in Submissions
  BY DEF Zero, Submissions
<1>. HIDE DEF pending
<1>7. /\ book'.submitters = <<>> /\ book'.hasPending = {} /\ book'.pending = [r \in Reporters |-> Zero]
      /\ book' = [submitters |-> <<>>, hasPending |-> {}, pending |-> [r \in Reporters |-> Zero]]
  BY <1>2, <1>3, <1>5 DEF pending
<1>8. book' \in BookRecords
  BY <1>6, <1>7 DEF BookRecords
<1>9. IsInjective(<<>>) /\ Range(<<>>) = {}
  BY DEF IsInjective, Range
<1>10. PICK c : c = book'
  OBVIOUS
<1>11. Consistent(c)
  BY <1>7, <1>8, <1>9, <1>10 DEF Consistent
<1>. QED BY <1>1, <1>7, <1>10, <1>11

LEMMA SubmitStep ==
  ASSUME FeedIInv, FeedBooks, NEW r \in Reporters, NEW price \in Nat \ {0}, Submit(r, price)
  PROVE  FeedBooks'
<1>. DEFINE live == Purged
            b == [submitters |-> Append(live.submitters, r),
                  hasPending |-> live.hasPending \cup {r},
                  pending |-> [live.pending EXCEPT ![r] = [price |-> price, at |-> now]]]
<1>1. LiveAfter(live, 0)
  BY PurgedIsLive DEF FeedBooks
<1>2. /\ live \in BookRecords /\ IsInjective(live.submitters) /\ Range(live.submitters) = live.hasPending
      /\ \A q \in Reporters : q \in live.hasPending <=> live.pending[q] # Zero
      /\ live.hasPending \subseteq book.hasPending
  BY <1>1 DEF LiveAfter, Consistent
<1>3. /\ r \in isReporter /\ r \notin live.hasPending
      /\ IF Len(b.submitters) >= quorum THEN Finalize(b, TRUE) ELSE book' = b /\ UNCHANGED rounds
      /\ UNCHANGED <<now, reporters, isReporter, quorum, maxSubmissionAge>>
  BY DEF Submit
<1>4. \A q \in live.hasPending : ~Late(live.pending[q])
  <2>. TAKE q \in live.hasPending
  <2>1. PICK i \in DOMAIN live.submitters : live.submitters[i] = q
    BY <1>2 DEF Range
  <2>2. live.submitters \in Seq(Reporters)
    BY <1>2 DEF BookRecords
  <2>3. i \in 0 + 1 .. Len(live.submitters)
    BY <2>1, <2>2, LenProperties
  <2>. QED BY <1>1, <2>1, <2>3 DEF LiveAfter
<1>. HIDE DEF live
<1>5. now \in Nat /\ maxSubmissionAge \in Nat
  BY DEF FeedBooks
<1>6. b.submitters = Append(live.submitters, r) /\ b.hasPending = live.hasPending \cup {r}
  OBVIOUS
<1>7. live.submitters \in Seq(Reporters) /\ live.hasPending \in SUBSET Reporters /\ live.pending \in [Reporters -> Submissions]
  BY <1>2 DEF BookRecords
<1>8. /\ b.submitters \in Seq(Reporters) /\ Len(b.submitters) = Len(live.submitters) + 1
      /\ IsInjective(b.submitters) /\ Range(b.submitters) = b.hasPending
  BY <1>2, <1>3, <1>6, <1>7, AppendAddsOne
<1>9. [price |-> price, at |-> now] \in Submissions /\ [price |-> price, at |-> now] # Zero
  <2>1. [price |-> price, at |-> now].price = price /\ Zero.price = 0
    BY DEF Zero
  <2>2. [price |-> price, at |-> now] # Zero
    BY <2>1
  <2>. QED BY <1>5, <2>2 DEF Submissions
<1>10. b.pending \in [Reporters -> Submissions]
       /\ \A q \in Reporters : b.pending[q] = IF q = r THEN [price |-> price, at |-> now] ELSE live.pending[q]
  BY <1>7, <1>9
<1>11. b \in BookRecords
  BY <1>6, <1>7, <1>8, <1>10 DEF BookRecords
<1>12. \A q \in Reporters : q \in b.hasPending <=> b.pending[q] # Zero
  BY <1>2, <1>6, <1>9, <1>10
<1>13. \A q \in b.hasPending : ~Late(b.pending[q])
  <2>1. ~Late([price |-> price, at |-> now])
    BY <1>5 DEF Late
  <2>. QED BY <1>4, <1>6, <1>7, <1>10, <2>1
<1>. HIDE DEF b
<1>14. Consistent(b)
  BY <1>8, <1>11, <1>12 DEF Consistent
<1>15. b.submitters # <<>>
  <2>1. Len(b.submitters) # 0
    BY <1>7, <1>8, LenProperties
  <2>. QED BY <2>1
<1>16. Ready(b, TRUE)
  BY <1>13, <1>14, <1>15 DEF Ready
<1>17. b.hasPending \subseteq isReporter
  BY <1>2, <1>3, <1>6 DEF FeedBooks
<1>18. CASE Finalize(b, TRUE)
  <2>1. Consistent(book') /\ book'.hasPending = {} /\ SoundRounds'
    BY <1>16, <1>18, FinalizeStep
  <2>. QED BY <1>3, <2>1 DEF FeedBooks, Consistent
<1>19. CASE book' = b /\ UNCHANGED rounds
  <2>1. Consistent(book') /\ SoundRounds'
    BY <1>14, <1>19 DEF FeedBooks, SoundRounds
  <2>. QED BY <1>3, <1>17, <1>19, <2>1 DEF FeedBooks, Consistent
<1>. QED BY <1>3, <1>18, <1>19

LEMMA RevokeStep ==
  ASSUME FeedIInv, FeedBooks, NEW r \in Reporters, RemoveReporter(r)
  PROVE  FeedBooks'
<1>1. /\ isReporter' = isReporter \ {r} /\ UNCHANGED <<now, maxSubmissionAge, rounds>>
      /\ book' = IF r \in book.hasPending THEN ClearPending(book, IndexIn(book.submitters, r)) ELSE book
  BY DEF RemoveReporter
<1>2. Consistent(book') /\ book'.hasPending = book.hasPending \ {r}
  <2>1. CASE r \notin book.hasPending
    BY <1>1, <2>1 DEF FeedBooks, Consistent
  <2>2. CASE r \in book.hasPending
    <3>. DEFINE i == IndexIn(book.submitters, r)
    <3>1. r \in Range(book.submitters)
      BY <2>2 DEF FeedBooks, Consistent
    <3>2. i \in DOMAIN book.submitters /\ book.submitters[i] = r
      BY <3>1 DEF Range, IndexIn
    <3>. HIDE DEF i
    <3>3. PICK c : c = ClearPending(book, i)
      OBVIOUS
    <3>4. Consistent(c) /\ c.hasPending = book.hasPending \ {r}
      BY <3>2, <3>3, ClearIsConsistent DEF FeedBooks
    <3>5. book' = c
      BY <1>1, <2>2, <3>3 DEF i
    <3>. QED BY <3>4, <3>5 DEF Consistent
  <2>. QED BY <2>1, <2>2
<1>3. SoundRounds'
  BY <1>1 DEF FeedBooks, SoundRounds
<1>4. quorum' \in Nat \ {0}
  <2>1. Len(reporters') = Len(reporters) - 1 /\ FeedIInv'
        /\ quorum' = IF quorum > Len(reporters') /\ Len(reporters') > 0 THEN Len(reporters') ELSE quorum
    BY RemoveStep
  <2>2. Len(reporters') \in Nat
    BY <2>1, LenProperties DEF FeedIInv, RosterType
  <2>. QED BY <2>1, <2>2 DEF FeedBooks
<1>. QED BY <1>1, <1>2, <1>3, <1>4 DEF FeedBooks

LEMMA QuorumStep ==
  ASSUME FeedIInv, FeedBooks, NEW q, SetQuorum(q)
  PROVE  FeedBooks'
<1>1. /\ q \in 1 .. Len(reporters) /\ quorum' = q
      /\ IF Len(book.submitters) >= q THEN Finalize(book, FALSE) ELSE UNCHANGED <<book, rounds>>
      /\ UNCHANGED <<now, reporters, isReporter, maxSubmissionAge>>
  BY DEF SetQuorum
<1>2. q \in Nat \ {0}
  BY <1>1, LenProperties DEF FeedIInv, RosterType
<1>3. CASE Len(book.submitters) >= q /\ Finalize(book, FALSE)
  <2>1. book.submitters # <<>>
    <3>1. Len(book.submitters) # 0
      BY <1>2, <1>3
    <3>. QED BY <3>1
  <2>2. PICK b : b = book
    OBVIOUS
  <2>3. Ready(b, FALSE) /\ Finalize(b, FALSE)
    BY <1>3, <2>1, <2>2 DEF FeedBooks, Ready
  <2>4. Consistent(book') /\ book'.hasPending = {} /\ SoundRounds'
    BY <2>3, FinalizeStep
  <2>. QED BY <1>1, <1>2, <2>4 DEF FeedBooks
<1>4. CASE UNCHANGED <<book, rounds>>
  BY <1>1, <1>2, <1>4 DEF FeedBooks, Consistent, SoundRounds
<1>. QED BY <1>1, <1>3, <1>4

LEMMA FeedStep ==
  ASSUME FeedIInv, FeedBooks, [FeedNext]_feedVars
  PROVE  FeedBooks'
<1>1. ASSUME NEW r \in Reporters, NEW price \in Nat \ {0}, Submit(r, price) PROVE FeedBooks'
  BY <1>1, SubmitStep
<1>2. ASSUME NEW r \in Reporters, AddReporter(r) PROVE FeedBooks'
  BY <1>2 DEF AddReporter, FeedBooks, Consistent, SoundRounds
<1>3. ASSUME NEW r \in Reporters, RemoveReporter(r) PROVE FeedBooks'
  BY <1>3, RevokeStep
<1>4. ASSUME NEW q, SetQuorum(q) PROVE FeedBooks'
  BY <1>4, QuorumStep
<1>5. ASSUME NEW age \in Ages, SetMaxSubmissionAge(age) PROVE FeedBooks'
  BY <1>5, FeedAssumption DEF SetMaxSubmissionAge, FeedBooks, Consistent, SoundRounds
<1>6. ASSUME FeedTick PROVE FeedBooks'
  BY <1>6 DEF FeedTick, FeedBooks, Consistent, SoundRounds
<1>7. ASSUME UNCHANGED feedVars PROVE FeedBooks'
  BY <1>7 DEF feedVars, FeedBooks, Consistent, SoundRounds
<1>8. /\ \A r \in Honest : r \in Reporters
      /\ HonestPrices \subseteq Nat \ {0} /\ OtherPrices \subseteq Nat \ {0}
  BY FeedAssumption
<1>. QED BY <1>1, <1>2, <1>3, <1>4, <1>5, <1>6, <1>7, <1>8 DEF FeedNext

LEMMA FeedBooksHolds == FeedSpec => []FeedBooks
<1>1. FeedInit => FeedBooks
  <2>. SUFFICES ASSUME FeedInit PROVE FeedBooks
    OBVIOUS
  <2>1. now \in Nat /\ maxSubmissionAge \in Nat /\ quorum \in Nat \ {0}
    BY FeedAssumption DEF FeedInit
  <2>2. /\ book.submitters = <<>> /\ book.hasPending = {} /\ book.pending = [r \in Reporters |-> Zero]
        /\ book = [submitters |-> <<>>, hasPending |-> {}, pending |-> [r \in Reporters |-> Zero]]
    BY DEF FeedInit, EmptyBook
  <2>3. Zero \in Submissions
    BY DEF Zero, Submissions
  <2>4. book \in BookRecords
    BY <2>2, <2>3 DEF BookRecords
  <2>5. IsInjective(<<>>) /\ Range(<<>>) = {}
    BY DEF IsInjective, Range
  <2>6. Consistent(book)
    BY <2>2, <2>4, <2>5 DEF Consistent
  <2>7. rounds = <<>> /\ DOMAIN rounds = {}
    BY DEF FeedInit
  <2>8. SoundRounds
    BY <2>7 DEF SoundRounds
  <2>. QED BY <2>1, <2>2, <2>6, <2>8 DEF FeedBooks
<1>2. FeedIInv /\ FeedBooks /\ [FeedNext]_feedVars => FeedBooks'
  BY FeedStep
<1>. QED BY <1>1, <1>2, FeedIInvHolds, PTL DEF FeedSpec

(* The list of submitters, the flags and the submissions of the round      *)
(* being assembled name the same present reporters, each once, however     *)
(* many there are and whatever is purged, revoked or finalised.            *)
THEOREM TheBooksAgree == FeedSpec => []BooksAgree
<1>1. FeedIInv /\ FeedBooks => BooksAgree
  BY DEF FeedIInv, FeedBooks, Consistent, BooksAgree
<1>. QED BY <1>1, FeedIInvHolds, FeedBooksHolds, PTL

(* Every round finalised by a submission is made of submissions that were  *)
(* within their age all at once, and is stamped with the oldest of them.   *)
THEOREM RoundsAreFresh == FeedSpec => []FreshRounds
<1>1. FeedBooks => FreshRounds
  BY DEF FeedBooks, SoundRounds, FreshRound, FreshRounds
<1>. QED BY <1>1, FeedBooksHolds, PTL

(* With an honest majority among its submitters the answer of a round is   *)
(* confined to the range of honest submissions, for rounds of any size.    *)
THEOREM ThePivotIsBounded == FeedSpec => []PivotIsBounded
<1>1. FeedBooks => PivotIsBounded
  BY DEF FeedBooks, SoundRounds, BoundedRound, PivotIsBounded
<1>. QED BY <1>1, FeedBooksHolds, PTL

-----------------------------------------------------------------------------
(***************************************************************************)
(* The decision log.  A decision is written once, so wherever two states   *)
(* of the log, or the log and what the daemon read of it, hold the same    *)
(* decision they hold the same decisions before it.  What the daemon has   *)
(* passed over was anchored when it read the log, what it sent is          *)
(* anchored when it saves, and an anchor never loses a claim.              *)
(***************************************************************************)
AnchorsTypeOK ==
  /\ written \in Nat
  /\ log \in Seq(Nat)
  /\ checkpoint \in [processed : Nat, last : Nat]
  /\ daemon \in [pc : {"asleep", "sending", "waiting", "saving"}, view : Seq(Nat), start : Nat]
  /\ tx \in {"none", "sent", "landed", "reverted"}
  /\ strays \subseteq Seq(Nat)
  /\ anchors \subseteq [claims : Seq(Nat), claimCount : Nat, disputed : BOOLEAN,
                        slashed : BOOLEAN, accused : SUBSET (Nat \X Nat)]

(* Where s and t hold the same decision they agree up to it.               *)
Agree(s, t) ==
  \A i \in 1 .. Len(s), j \in 1 .. Len(t) :
    s[i] = t[j] => i = j /\ \A k \in 1 .. i : s[k] = t[k]

WrittenOnce ==
  /\ \A i \in 1 .. Len(log) : log[i] \in 1 .. written
  /\ \A i \in 1 .. Len(daemon.view) : daemon.view[i] \in 1 .. written
  /\ checkpoint.last <= written
  /\ checkpoint.processed > 0 => checkpoint.last # NoDigest
  /\ Agree(log, log)
  /\ Agree(log, daemon.view)

(* What the flush under way may rely on.                                   *)
FlushIsSound ==
  /\ tx # "none" => daemon.pc = "waiting"
  /\ daemon.pc # "asleep" =>
       /\ daemon.start < Len(daemon.view)
       /\ \A i \in 1 .. daemon.start : IsAnchored(daemon.view[i])
  /\ (tx = "landed" \/ daemon.pc = "saving") =>
       \A i \in daemon.start + 1 .. Len(daemon.view) : IsAnchored(daemon.view[i])

AnchorsIInv == AnchorsTypeOK /\ WrittenOnce /\ NoSilentGap /\ FlushIsSound

LEMMA InitAnchors == AnchorsInit => AnchorsIInv
<1> SUFFICES ASSUME AnchorsInit PROVE AnchorsIInv
  OBVIOUS
<1>1. AnchorsTypeOK
  BY DEF AnchorsInit, AnchorsTypeOK, Fresh, Asleep, NoDigest
<1>2. Len(log) = 0 /\ Len(daemon.view) = 0
  BY DEF AnchorsInit, Asleep
<1>3. WrittenOnce
  BY <1>2 DEF AnchorsInit, WrittenOnce, Agree, Fresh, NoDigest
<1>4. NoSilentGap
  BY <1>2 DEF AnchorsInit, NoSilentGap, Fresh
<1>5. FlushIsSound
  BY DEF AnchorsInit, FlushIsSound, Asleep
<1>6. QED BY <1>1, <1>3, <1>4, <1>5 DEF AnchorsIInv

-----------------------------------------------------------------------------
(* Every anchor there was is still there with its claims.                  *)
Kept == \A a \in anchors : \E b \in anchors' : b.claims = a.claims

Holds(d) == \E a \in anchors' : d \in Range(a.claims)

LEMMA KeptAnchored ==
  ASSUME Kept, NEW d, IsAnchored(d)
  PROVE  Holds(d)
<1>1. PICK a \in anchors : d \in Range(a.claims)
  BY DEF IsAnchored
<1>2. PICK b \in anchors' : b.claims = a.claims
  BY DEF Kept
<1>3. QED BY <1>1, <1>2 DEF Holds

(* What is anchored is the whole batch.                                    *)
LEMMA BatchHolds ==
  ASSUME NEW s \in Seq(Nat), NEW n \in Nat, n < Len(s), NEW i \in n + 1 .. Len(s)
  PROVE  s[i] \in Range(SubSeq(s, n + 1, Len(s)))
<1>1. SubSeq(s, n + 1, Len(s)) = [k \in 1 .. (Len(s) - n) |-> s[k + n]]
  OBVIOUS
<1>2. i - n \in 1 .. (Len(s) - n) /\ (i - n) + n = i
  OBVIOUS
<1>3. QED BY <1>1, <1>2 DEF Range

LEMMA BatchType ==
  ASSUME AnchorsTypeOK
  PROVE  Batch \in Seq(Nat)
  BY DEF AnchorsTypeOK, Batch

AnchorRecord ==
  [claims : Seq(Nat), claimCount : Nat, disputed : BOOLEAN,
   slashed : BOOLEAN, accused : SUBSET (Nat \X Nat)]

LEMMA AnchoredType ==
  ASSUME NEW claims \in Seq(Nat)
  PROVE  Anchored(claims) \in AnchorRecord /\ Anchored(claims).claims = claims
  BY DEF Anchored, AnchorRecord
-----------------------------------------------------------------------------
(* A step of the contract changes a record and keeps its claims.           *)
LEMMA AmendKeeps ==
  ASSUME NEW a \in anchors, NEW b, b.claims = a.claims, Amend(a, b)
  PROVE  Kept
  BY DEF Amend, Kept

LEMMA AnchorBatchKeeps ==
  ASSUME NEW claims, AnchorBatch(claims)
  PROVE  Kept
  BY DEF AnchorBatch, Kept

LEMMA ChainStep ==
  ASSUME AnchorsTypeOK, Chain
  PROVE  /\ Kept /\ anchors' \subseteq AnchorRecord
         /\ UNCHANGED <<logFile, checkpoint, daemon>>
<1>1. anchors \subseteq AnchorRecord
  BY DEF AnchorsTypeOK, AnchorRecord
<1>2. CASE TxLands
  <2>1. AnchorBatch(Batch) \/ UNCHANGED anchors
    BY <1>2 DEF TxLands
  <2>2. anchors' \subseteq AnchorRecord
    BY <1>1, <2>1, BatchType, AnchoredType DEF AnchorBatch
  <2>3. Kept
    BY <2>1, AnchorBatchKeeps DEF Kept
  <2>4. QED BY <1>2, <2>2, <2>3 DEF TxLands
<1>3. ASSUME NEW claims \in strays, StrayLands(claims)
      PROVE  Kept /\ anchors' \subseteq AnchorRecord /\ UNCHANGED <<logFile, checkpoint, daemon>>
  <2>1. AnchorBatch(claims) \/ UNCHANGED anchors
    BY <1>3 DEF StrayLands
  <2>2. claims \in Seq(Nat)
    BY DEF AnchorsTypeOK
  <2>3. anchors' \subseteq AnchorRecord
    BY <1>1, <2>1, <2>2, AnchoredType DEF AnchorBatch
  <2>4. Kept
    BY <2>1, AnchorBatchKeeps DEF Kept
  <2>5. QED BY <1>3, <2>3, <2>4 DEF StrayLands
<1>4. ASSUME NEW a \in anchors, NEW b \in anchors, NEW i \in DOMAIN b.claims,
             NEW index \in 0 .. MaxDecisions - 1,
             Challenge(a, b.claims[i], index, Proof(b.claims, i))
      PROVE  Kept /\ anchors' \subseteq AnchorRecord /\ UNCHANGED <<logFile, checkpoint, daemon>>
  <2> DEFINE c == [a EXCEPT !.disputed = TRUE, !.accused = @ \cup {<<index, b.claims[i]>>}]
  <2>1. a \in AnchorRecord /\ b \in AnchorRecord
    BY <1>1
  <2>2. b.claims[i] \in Nat /\ index \in Nat
    BY <2>1, AnchorsAssumption DEF AnchorRecord
  <2>3. <<index, b.claims[i]>> \in Nat \X Nat
    BY <2>2
  <2>4. c \in AnchorRecord /\ c.claims = a.claims
    BY <2>1, <2>3 DEF AnchorRecord
  <2>5. Amend(a, c)
    BY <1>4 DEF Challenge
  <2>6. anchors' \subseteq AnchorRecord
    BY <1>1, <2>4, <2>5 DEF Amend
  <2>7. Kept
    BY <2>4, <2>5, AmendKeeps
  <2>8. QED BY <1>4, <2>6, <2>7 DEF Challenge, flush
<1>5. ASSUME NEW a \in anchors, NEW slashed \in BOOLEAN, Resolve(a, slashed)
      PROVE  Kept /\ anchors' \subseteq AnchorRecord /\ UNCHANGED <<logFile, checkpoint, daemon>>
  <2> DEFINE c == [a EXCEPT !.slashed = slashed]
  <2>1. c \in AnchorRecord /\ c.claims = a.claims
    BY <1>1 DEF AnchorRecord
  <2>2. Amend(a, c)
    BY <1>5 DEF Resolve
  <2>3. anchors' \subseteq AnchorRecord
    BY <1>1, <2>1, <2>2 DEF Amend
  <2>4. Kept
    BY <2>1, <2>2, AmendKeeps
  <2>5. QED BY <1>5, <2>3, <2>4 DEF Resolve, flush
<1>6. QED BY <1>2, <1>3, <1>4, <1>5 DEF Chain

(* Nobody else touches the contract.                                       *)
LEMMA KeptStep ==
  ASSUME AnchorsTypeOK, [AnchorsNext]_anchorsVars
  PROVE  Kept /\ anchors' \subseteq AnchorRecord
<1>1. CASE Chain
  BY <1>1, ChainStep
<1>2. CASE UNCHANGED anchors
  BY <1>2 DEF Kept, AnchorsTypeOK, AnchorRecord
<1>3. Chain \/ UNCHANGED anchors
  BY DEF AnchorsNext, anchorsVars, Decide, CutLog, Daemon, ReadLog, CastRefuses, CastSends, CastFails,
         CastSucceeds, Save, DaemonDies
<1>4. QED BY <1>1, <1>2, <1>3

-----------------------------------------------------------------------------
LEMMA TypeStep ==
  ASSUME AnchorsTypeOK, WrittenOnce, FlushIsSound, [AnchorsNext]_anchorsVars
  PROVE  AnchorsTypeOK'
<1> DEFINE n == Len(daemon.view)
           DaemonRecord == [pc : {"asleep", "sending", "waiting", "saving"}, view : Seq(Nat), start : Nat]
<1>1. anchors' \subseteq AnchorRecord
  BY KeptStep
<1>2. Asleep \in DaemonRecord
  BY DEF Asleep
<1>3. Fresh \in [processed : Nat, last : Nat]
  BY DEF Fresh, NoDigest
<1>4. GiveUp => tx' = "none" /\ strays' \subseteq Seq(Nat)
  BY BatchType DEF GiveUp, AnchorsTypeOK
<1>5. daemon.pc # "asleep" => [processed |-> n, last |-> daemon.view[n]] \in [processed : Nat, last : Nat]
  <2>1. daemon.view \in Seq(Nat) /\ n \in Nat
    BY LenProperties DEF AnchorsTypeOK
  <2>2. daemon.pc # "asleep" => n \in 1 .. n
    BY <2>1 DEF FlushIsSound, AnchorsTypeOK
  <2>. QED BY <2>1, <2>2, ElementOfSeq
<1>6. CASE Decide
  BY <1>6 DEF Decide, AnchorsTypeOK, flush, bounds
<1>7. CASE CutLog
  BY <1>7 DEF CutLog, AnchorsTypeOK, flush
<1>8. CASE ReadLog
  <2>1. NextStart \in Nat
    BY DEF NextStart, AnchorsTypeOK
  <2>2. daemon' \in DaemonRecord
    BY <1>8, <2>1 DEF ReadLog, AnchorsTypeOK
  <2>3. QED BY <1>8, <2>2 DEF ReadLog, AnchorsTypeOK, logFile
<1>9. CASE CastRefuses
  BY <1>9, <1>2 DEF CastRefuses, AnchorsTypeOK, logFile
<1>10. CASE CastSends
  BY <1>10 DEF CastSends, AnchorsTypeOK, logFile
<1>11. CASE CastFails
  BY <1>11, <1>2, <1>4 DEF CastFails, AnchorsTypeOK, logFile
<1>12. CASE CastSucceeds
  BY <1>12 DEF CastSucceeds, AnchorsTypeOK, logFile
<1>13. CASE Save
  <2>1. checkpoint' \in [processed : Nat, last : Nat]
    BY <1>13, <1>5 DEF Save, AnchorsTypeOK
  <2>2. QED BY <1>13, <1>2, <2>1 DEF Save, AnchorsTypeOK, logFile
<1>14. CASE DaemonDies
  <2>1. checkpoint' \in [processed : Nat, last : Nat]
    BY <1>14, <1>3 DEF DaemonDies, AnchorsTypeOK
  <2>2. QED BY <1>14, <1>2, <1>4, <2>1 DEF DaemonDies, AnchorsTypeOK, logFile
<1>15. CASE Chain
  <2>1. UNCHANGED <<logFile, checkpoint, daemon>>
    BY <1>15, ChainStep
  <2>2. tx' \in {"none", "sent", "landed", "reverted"} /\ strays' \subseteq strays
    <3>1. CASE TxLands
      BY <3>1 DEF TxLands
    <3>2. ASSUME NEW claims, StrayLands(claims)
          PROVE  tx' = tx /\ strays' \subseteq strays
      BY <3>2 DEF StrayLands, flush
    <3>3. ASSUME NEW a, NEW b, NEW i, NEW index, Challenge(a, b.claims[i], index, Proof(b.claims, i))
          PROVE  tx' = tx /\ strays' = strays
      BY <3>3 DEF Challenge, flush
    <3>4. ASSUME NEW a, NEW slashed, Resolve(a, slashed)
          PROVE  tx' = tx /\ strays' = strays
      BY <3>4 DEF Resolve, flush
    <3>5. tx \in {"none", "sent", "landed", "reverted"}
      BY DEF AnchorsTypeOK
    <3>. QED BY <1>15, <3>1, <3>2, <3>3, <3>4, <3>5 DEF Chain
  <2>3. QED BY <1>1, <2>1, <2>2 DEF AnchorsTypeOK, logFile, AnchorRecord
<1>16. CASE UNCHANGED anchorsVars
  BY <1>16 DEF anchorsVars, logFile, flush, AnchorsTypeOK
<1>17. QED BY <1>6, <1>7, <1>8, <1>9, <1>10, <1>11, <1>12, <1>13, <1>14, <1>15, <1>16 DEF AnchorsNext, Daemon
-----------------------------------------------------------------------------
(* Prefixes agree where the sequences do.                                  *)
LEMMA PrefixesAgree ==
  ASSUME NEW s, NEW t, NEW p, NEW q, Agree(s, t),
         Len(s) \in Nat, Len(t) \in Nat, Len(p) \in 0 .. Len(s), Len(q) \in 0 .. Len(t),
         \A i \in 1 .. Len(p) : p[i] = s[i],
         \A i \in 1 .. Len(q) : q[i] = t[i]
  PROVE  Agree(p, q)
<1> SUFFICES ASSUME NEW i \in 1 .. Len(p), NEW j \in 1 .. Len(q), p[i] = q[j]
             PROVE  i = j /\ \A k \in 1 .. i : p[k] = q[k]
  BY DEF Agree
<1>1. i \in 1 .. Len(s) /\ j \in 1 .. Len(t) /\ s[i] = t[j]
  OBVIOUS
<1>2. i = j /\ \A k \in 1 .. i : s[k] = t[k]
  BY <1>1 DEF Agree
<1>3. \A k \in 1 .. i : k \in 1 .. Len(p) /\ k \in 1 .. Len(q)
  BY <1>2
<1>4. QED BY <1>2, <1>3

(* A sequence that is one element longer agrees with those that do not     *)
(* hold the element.                                                       *)
LEMMA LongerAgrees ==
  ASSUME NEW s, NEW t, NEW p, Agree(s, t), Len(s) \in Nat, Len(t) \in Nat, Len(p) = Len(s) + 1,
         \A i \in 1 .. Len(s) : p[i] = s[i],
         \A j \in 1 .. Len(t) : t[j] # p[Len(s) + 1]
  PROVE  Agree(p, t)
<1> SUFFICES ASSUME NEW i \in 1 .. Len(p), NEW j \in 1 .. Len(t), p[i] = t[j]
             PROVE  i = j /\ \A k \in 1 .. i : p[k] = t[k]
  BY DEF Agree
<1>1. i \in 1 .. Len(s) /\ s[i] = t[j]
  OBVIOUS
<1>2. i = j /\ \A k \in 1 .. i : s[k] = t[k]
  BY <1>1 DEF Agree
<1>3. \A k \in 1 .. i : k \in 1 .. Len(s)
  BY <1>1
<1>4. QED BY <1>2, <1>3

(* It agrees with itself.                                                  *)
LEMMA LongerAgreesWithItself ==
  ASSUME NEW s, NEW p, Agree(s, s), Len(s) \in Nat, Len(p) = Len(s) + 1,
         \A i \in 1 .. Len(s) : p[i] = s[i],
         \A j \in 1 .. Len(s) : s[j] # p[Len(s) + 1]
  PROVE  Agree(p, p)
<1> SUFFICES ASSUME NEW i \in 1 .. Len(p), NEW j \in 1 .. Len(p), p[i] = p[j]
             PROVE  i = j
  BY DEF Agree
<1>1. CASE i \in 1 .. Len(s) /\ j \in 1 .. Len(s)
  BY <1>1 DEF Agree
<1>2. CASE i = Len(s) + 1 \/ j = Len(s) + 1
  BY <1>2
<1>3. QED BY <1>1, <1>2

-----------------------------------------------------------------------------
LEMMA WrittenOnceStep ==
  ASSUME AnchorsTypeOK, WrittenOnce, FlushIsSound, [AnchorsNext]_anchorsVars
  PROVE  WrittenOnce'
<1> DEFINE view == daemon.view
<1>1. CASE Decide
  <2>1. /\ written' = written + 1 /\ log' = Append(log, written + 1)
        /\ UNCHANGED <<daemon, checkpoint>>
    BY <1>1 DEF Decide, flush
  <2>2. /\ Len(log') = Len(log) + 1 /\ log'[Len(log) + 1] = written + 1
        /\ \A i \in 1 .. Len(log) : log'[i] = log[i]
    BY <2>1 DEF AnchorsTypeOK
  <2>3. written \in Nat /\ Len(log) \in Nat /\ Len(view) \in Nat
    BY DEF AnchorsTypeOK
  <2>4. \A i \in 1 .. Len(log') : log'[i] \in 1 .. written'
    <3> SUFFICES ASSUME NEW i \in 1 .. Len(log')
                 PROVE  log'[i] \in 1 .. written'
      OBVIOUS
    <3>1. i \in 1 .. Len(log) \/ i = Len(log) + 1
      BY <2>2, <2>3
    <3>2. CASE i \in 1 .. Len(log)
      <4>1. log'[i] = log[i] /\ log[i] \in 1 .. written
        BY <2>2, <3>2 DEF WrittenOnce
      <4>2. QED BY <2>1, <2>3, <4>1
    <3>3. CASE i = Len(log) + 1
      BY <2>1, <2>2, <2>3, <3>3
    <3>4. QED BY <3>1, <3>2, <3>3
  <2>5. \A i \in 1 .. Len(view) : view[i] \in 1 .. written' /\ view[i] # written + 1
    <3> SUFFICES ASSUME NEW i \in 1 .. Len(view)
                 PROVE  view[i] \in 1 .. written' /\ view[i] # written + 1
      OBVIOUS
    <3>1. view[i] \in 1 .. written
      BY DEF WrittenOnce
    <3>2. QED BY <2>1, <2>3, <3>1
  <2>6. Agree(log', log')
    <3>1. \A j \in 1 .. Len(log) : log[j] # log'[Len(log) + 1]
      <4> TAKE j \in 1 .. Len(log)
      <4>1. log[j] \in 1 .. written
        BY DEF WrittenOnce
      <4>2. QED BY <2>2, <2>3, <4>1
    <3>2. QED BY <2>2, <2>3, <3>1, LongerAgreesWithItself DEF WrittenOnce
  <2>7. Agree(log', view)
    BY <2>2, <2>3, <2>5, LongerAgrees DEF WrittenOnce
  <2>8. checkpoint.last <= written'
    BY <2>1 DEF WrittenOnce, AnchorsTypeOK
  <2>9. QED BY <2>1, <2>4, <2>5, <2>6, <2>7, <2>8 DEF WrittenOnce
<1>2. CASE CutLog
  <2>1. PICK n \in 0 .. Len(log) - 1 : log' = SubSeq(log, 1, n)
    BY <1>2 DEF CutLog
  <2>2. Len(log') = n /\ n <= Len(log) /\ \A i \in 1 .. n : log'[i] = log[i]
    BY <2>1 DEF AnchorsTypeOK
  <2>3. Len(log') \in 0 .. Len(log) /\ Len(log) \in Nat /\ Len(view) \in Nat
    BY <2>2 DEF AnchorsTypeOK
  <2>4. \A i \in 1 .. Len(log') : log'[i] \in 1 .. written
    <3> TAKE i \in 1 .. Len(log')
    <3>1. i \in 1 .. Len(log) /\ log'[i] = log[i]
      BY <2>2, <2>3
    <3>2. QED BY <3>1 DEF WrittenOnce
  <2>5. Agree(log', log') /\ Agree(log', view)
    BY <2>2, <2>3, PrefixesAgree DEF WrittenOnce
  <2>6. UNCHANGED <<written, daemon, checkpoint>>
    BY <1>2 DEF CutLog, flush
  <2>7. QED BY <2>4, <2>5, <2>6 DEF WrittenOnce
<1>3. ASSUME UNCHANGED <<logFile, checkpoint>>,
             daemon'.view = view \/ daemon'.view = log \/ daemon' = Asleep
      PROVE  WrittenOnce'
  <2>1. CASE daemon'.view = view
    BY <1>3, <2>1 DEF WrittenOnce, logFile
  <2>2. CASE daemon'.view = log
    BY <1>3, <2>2 DEF WrittenOnce, logFile
  <2>3. CASE daemon' = Asleep
    <3>1. Len(daemon'.view) = 0
      BY <2>3 DEF Asleep
    <3>2. Agree(log, daemon'.view)
      BY <3>1 DEF Agree
    <3>3. QED BY <1>3, <3>1, <3>2 DEF WrittenOnce, logFile
  <2>4. QED BY <1>3, <2>1, <2>2, <2>3
<1>4. ASSUME UNCHANGED logFile, daemon' = Asleep,
             checkpoint'.last <= written,
             checkpoint'.processed > 0 => checkpoint'.last # NoDigest
      PROVE  WrittenOnce'
  <2>1. Len(daemon'.view) = 0
    BY <1>4 DEF Asleep
  <2>2. Agree(log, daemon'.view)
    BY <2>1 DEF Agree
  <2>3. QED BY <1>4, <2>1, <2>2 DEF WrittenOnce, logFile
<1>5. CASE ReadLog
  BY <1>3, <1>5 DEF ReadLog
<1>6. CASE CastRefuses
  BY <1>3, <1>6 DEF CastRefuses
<1>7. CASE CastSends \/ CastSucceeds
  <2>1. daemon'.view = view
    BY <1>7 DEF CastSends, CastSucceeds, AnchorsTypeOK
  <2>2. QED BY <1>3, <1>7, <2>1 DEF CastSends, CastSucceeds
<1>8. CASE CastFails
  BY <1>3, <1>8 DEF CastFails
<1>9. CASE Save
  <2>1. CASE checkpoint' = checkpoint
    BY <1>3, <1>9, <2>1 DEF Save
  <2>2. CASE checkpoint' = [processed |-> Len(view), last |-> view[Len(view)]]
    <3>1. Len(view) \in 1 .. Len(view)
      BY <1>9 DEF Save, FlushIsSound, AnchorsTypeOK
    <3>2. view[Len(view)] \in 1 .. written
      BY <3>1 DEF WrittenOnce
    <3>3. checkpoint'.last <= written /\ checkpoint'.last # NoDigest
      BY <2>2, <3>2 DEF NoDigest, AnchorsTypeOK
    <3>4. QED BY <1>4, <1>9, <3>3 DEF Save
  <2>3. QED BY <1>9, <2>1, <2>2 DEF Save
<1>10. CASE DaemonDies
  <2>1. checkpoint'.last <= written /\ (checkpoint'.processed > 0 => checkpoint'.last # NoDigest)
    BY <1>10 DEF DaemonDies, Fresh, NoDigest, AnchorsTypeOK, WrittenOnce
  <2>2. QED BY <1>4, <1>10, <2>1 DEF DaemonDies
<1>11. CASE Chain
  BY <1>3, <1>11, ChainStep
<1>12. CASE UNCHANGED anchorsVars
  BY <1>3, <1>12 DEF anchorsVars, flush
<1>13. QED BY <1>1, <1>2, <1>5, <1>6, <1>7, <1>8, <1>9, <1>10, <1>11, <1>12 DEF AnchorsNext, Daemon
-----------------------------------------------------------------------------
(* What the checkpoint says of a log that fits it stays true: the log      *)
(* grows by a decision the checkpoint cannot name, or is cut; a saved      *)
(* checkpoint names a decision of what the flush read, all of it anchored. *)
LEMMA GapStep ==
  ASSUME AnchorsIInv, [AnchorsNext]_anchorsVars
  PROVE  NoSilentGap'
<1> DEFINE view == daemon.view
           n == checkpoint.processed
<1> USE DEF AnchorsIInv
<1>1. Kept
  BY KeptStep
<1>2. ASSUME UNCHANGED checkpoint, Len(log') >= n => Len(log) >= n \/ log'[n] # checkpoint.last,
             \A i \in 1 .. Len(log) : i <= Len(log') => log'[i] = log[i]
      PROVE  NoSilentGap'
  <2> SUFFICES ASSUME n \in 1 .. Len(log'), log'[n] = checkpoint.last, NEW i \in 1 .. n
               PROVE  Holds(log'[i])
    BY <1>2 DEF NoSilentGap, IsAnchored, Holds
  <2>1. Len(log) \in Nat /\ n \in Nat
    BY DEF AnchorsTypeOK
  <2>2. n <= Len(log) /\ n <= Len(log')
    BY <1>2, <2>1
  <2>3. log[n] = checkpoint.last /\ log'[i] = log[i]
    BY <1>2, <2>1, <2>2
  <2>4. IsAnchored(log[i])
    BY <2>1, <2>2, <2>3 DEF NoSilentGap
  <2>5. QED BY <1>1, <2>3, <2>4, KeptAnchored
<1>3. ASSUME UNCHANGED <<log, checkpoint>>
      PROVE  NoSilentGap'
  BY <1>2, <1>3 DEF AnchorsTypeOK
<1>4. CASE Decide
  <2>1. log' = Append(log, written + 1) /\ UNCHANGED checkpoint
    BY <1>4 DEF Decide, flush
  <2>2. /\ Len(log') = Len(log) + 1 /\ log'[Len(log) + 1] = written + 1
        /\ \A i \in 1 .. Len(log) : log'[i] = log[i]
    BY <2>1 DEF AnchorsTypeOK
  <2>3. Len(log') >= n => Len(log) >= n \/ log'[n] # checkpoint.last
    BY <2>2 DEF WrittenOnce, AnchorsTypeOK
  <2>4. QED BY <1>2, <2>1, <2>2, <2>3
<1>5. CASE CutLog
  <2>1. PICK k \in 0 .. Len(log) - 1 : log' = SubSeq(log, 1, k)
    BY <1>5 DEF CutLog
  <2>2. Len(log') = k /\ k <= Len(log) /\ \A i \in 1 .. k : log'[i] = log[i]
    <3>1. log \in Seq(Nat) /\ Len(log) \in Nat /\ k \in 0 .. Len(log)
      BY <2>1, LenProperties DEF AnchorsTypeOK
    <3>. QED BY <2>1, <3>1
  <2>3. Len(log') >= n => Len(log) >= n
    BY <2>2 DEF AnchorsTypeOK
  <2>4. \A i \in 1 .. Len(log) : i <= Len(log') => log'[i] = log[i]
    BY <2>2
  <2>5. UNCHANGED checkpoint
    BY <1>5 DEF CutLog, flush
  <2>6. QED BY <1>2, <2>3, <2>4, <2>5
<1>6. CASE Save
  <2>1. CASE checkpoint' = checkpoint
    BY <1>3, <1>6, <2>1 DEF Save, logFile
  <2>2. CASE checkpoint' = [processed |-> Len(view), last |-> view[Len(view)]]
    <3>1. UNCHANGED log /\ view \in Seq(Nat)
      BY <1>6 DEF Save, logFile, AnchorsTypeOK
    <3>2. \A i \in 1 .. Len(view) : IsAnchored(view[i])
      BY <1>6 DEF Save, FlushIsSound, AnchorsTypeOK
    <3> SUFFICES ASSUME Len(view) \in 1 .. Len(log), log[Len(view)] = view[Len(view)],
                        NEW i \in 1 .. Len(view)
                 PROVE  Holds(log[i])
      BY <2>2, <3>1 DEF NoSilentGap, IsAnchored, Holds
    <3>3. Len(view) \in 1 .. Len(view)
      BY <3>1
    <3>4. log[i] = view[i]
      BY <3>3 DEF WrittenOnce, Agree
    <3>5. QED BY <1>1, <3>2, <3>4, KeptAnchored
  <2>3. QED BY <1>6, <2>1, <2>2 DEF Save
<1>7. CASE DaemonDies
  <2>1. CASE checkpoint' = checkpoint
    BY <1>3, <1>7, <2>1 DEF DaemonDies, logFile
  <2>2. CASE checkpoint' = Fresh
    BY <2>2 DEF Fresh, NoSilentGap
  <2>3. QED BY <1>7, <2>1, <2>2 DEF DaemonDies
<1>8. CASE Chain
  BY <1>3, <1>8, ChainStep DEF logFile
<1>9. CASE ReadLog \/ CastRefuses \/ CastSends \/ CastFails \/ CastSucceeds
  BY <1>3, <1>9 DEF ReadLog, CastRefuses, CastSends, CastFails, CastSucceeds, logFile
<1>10. CASE UNCHANGED anchorsVars
  BY <1>3, <1>10 DEF anchorsVars, logFile, flush
<1>11. QED BY <1>4, <1>5, <1>6, <1>7, <1>8, <1>9, <1>10 DEF AnchorsNext, Daemon

-----------------------------------------------------------------------------
LEMMA FlushStep ==
  ASSUME AnchorsIInv, [AnchorsNext]_anchorsVars
  PROVE  FlushIsSound'
<1> DEFINE view == daemon.view
<1> USE DEF AnchorsIInv
<1>1. Kept
  BY KeptStep
<1>2. ASSUME daemon' = Asleep, tx' = "none"
      PROVE  FlushIsSound'
  BY <1>2 DEF FlushIsSound, Asleep
<1>3. CASE UNCHANGED <<daemon, tx>>
  <2>1. \A i \in 1 .. Len(view) : IsAnchored(view[i]) => Holds(view[i])
    BY <1>1, KeptAnchored
  <2>2. \A i \in 1 .. daemon.start : daemon.start < Len(view) => i \in 1 .. Len(view)
    BY DEF AnchorsTypeOK
  <2>3. \A i \in daemon.start + 1 .. Len(view) : i \in 1 .. Len(view)
    BY DEF AnchorsTypeOK
  <2>4. QED BY <1>3, <2>1, <2>2, <2>3 DEF FlushIsSound, IsAnchored, Holds
<1>4. CASE ReadLog
  <2>1. /\ daemon' = [pc |-> "sending", view |-> log, start |-> NextStart]
        /\ UNCHANGED <<anchors, tx>> /\ daemon.pc = "asleep"
    BY <1>4 DEF ReadLog
  <2>2. NextStart < Len(log) /\ tx = "none"
    BY <1>4, <2>1 DEF ReadLog, FlushIsSound
  <2>3. \A i \in 1 .. NextStart : IsAnchored(log[i])
    <3>1. CASE NextStart = 0
      BY <3>1
    <3>2. CASE NextStart # 0
      <4>1. /\ NextStart = checkpoint.processed
            /\ checkpoint.processed \in 1 .. Len(log)
            /\ checkpoint.last = NoDigest \/ log[checkpoint.processed] = checkpoint.last
        BY <3>2 DEF NextStart, AnchorsTypeOK
      <4>2. checkpoint.last # NoDigest
        BY <4>1 DEF WrittenOnce
      <4>3. QED BY <4>1, <4>2 DEF NoSilentGap
    <3>3. QED BY <3>1, <3>2
  <2>4. QED BY <2>1, <2>2, <2>3 DEF FlushIsSound, IsAnchored
<1>5. CASE CastSends
  <2>1. /\ daemon'.pc = "waiting" /\ daemon'.view = view /\ daemon'.start = daemon.start
        /\ daemon.pc = "sending" /\ tx' = "sent" /\ UNCHANGED anchors
    BY <1>5 DEF CastSends, AnchorsTypeOK
  <2>2. QED BY <2>1 DEF FlushIsSound, IsAnchored
<1>6. CASE CastSucceeds
  <2>1. /\ daemon'.pc = "saving" /\ daemon'.view = view /\ daemon'.start = daemon.start
        /\ daemon.pc = "waiting" /\ tx = "landed" /\ tx' = "none" /\ UNCHANGED anchors
    BY <1>6 DEF CastSucceeds, AnchorsTypeOK
  <2>2. QED BY <2>1 DEF FlushIsSound, IsAnchored
<1>7. CASE TxLands
  <2>1. UNCHANGED daemon /\ tx = "sent" /\ tx' \in {"landed", "reverted"} /\ daemon.pc = "waiting"
    BY <1>7 DEF TxLands, FlushIsSound
  <2>2. view \in Seq(Nat) /\ daemon.start \in Nat /\ daemon.start < Len(view)
    BY <2>1 DEF FlushIsSound, AnchorsTypeOK
  <2>3. \A i \in 1 .. daemon.start : Holds(view[i])
    BY <1>1, <2>1, KeptAnchored DEF FlushIsSound
  <2>4. tx' = "landed" => \A i \in daemon.start + 1 .. Len(view) : Holds(view[i])
    <3> SUFFICES ASSUME tx' = "landed", NEW i \in daemon.start + 1 .. Len(view)
                 PROVE  Holds(view[i])
      OBVIOUS
    <3>1. Anchored(Batch) \in anchors' /\ Anchored(Batch).claims = Batch
      BY <1>7, BatchType, AnchoredType DEF TxLands, AnchorBatch
    <3>2. view[i] \in Range(Batch)
      BY <2>2, BatchHolds DEF Batch
    <3>3. QED BY <3>1, <3>2 DEF Holds
  <2>5. QED BY <2>1, <2>2, <2>3, <2>4 DEF FlushIsSound, IsAnchored, Holds
<1>8. CASE CastFails \/ DaemonDies
  BY <1>2, <1>8 DEF CastFails, DaemonDies, GiveUp
<1>9. CASE CastRefuses \/ Save
  <2>1. daemon' = Asleep /\ UNCHANGED tx /\ daemon.pc # "waiting"
    BY <1>9 DEF CastRefuses, Save
  <2>2. tx = "none"
    BY <2>1 DEF FlushIsSound
  <2>3. QED BY <1>2, <2>1, <2>2
<1>10. Decide \/ CutLog => UNCHANGED <<daemon, tx>>
  BY DEF Decide, CutLog, flush
<1>11. Chain => TxLands \/ UNCHANGED <<daemon, tx>>
  BY DEF Chain, StrayLands, Challenge, Resolve, flush
<1>12. UNCHANGED anchorsVars => UNCHANGED <<daemon, tx>>
  BY DEF anchorsVars, flush
<1>13. QED
  BY <1>3, <1>4, <1>5, <1>6, <1>7, <1>8, <1>9, <1>10, <1>11, <1>12 DEF AnchorsNext, Daemon

-----------------------------------------------------------------------------
LEMMA AnchorsIInvHolds == AnchorsSpec => []AnchorsIInv
<1>1. AnchorsIInv /\ [AnchorsNext]_anchorsVars => AnchorsIInv'
  BY TypeStep, WrittenOnceStep, GapStep, FlushStep DEF AnchorsIInv
<1>2. QED BY <1>1, InitAnchors, PTL DEF AnchorsSpec

(* As long as the checkpoint fits the log, every decision up to it is      *)
(* anchored, in a log of any length, cut and begun again any number of     *)
(* times.                                                                  *)
THEOREM NoSilentGapHolds == AnchorsSpec => []NoSilentGap
<1>1. AnchorsIInv => NoSilentGap
  BY DEF AnchorsIInv
<1>2. QED BY <1>1, AnchorsIInvHolds, PTL

(* What a flush leaves out at the front of the log is anchored, and when   *)
(* it saves its progress so is the rest (flush, next_batch).               *)
THEOREM FlushIsSoundHolds == AnchorsSpec => []FlushIsSound
<1>1. AnchorsIInv => FlushIsSound
  BY DEF AnchorsIInv
<1>2. QED BY <1>1, AnchorsIInvHolds, PTL

-----------------------------------------------------------------------------
(* The contract and the proofs: a batch is never empty, an anchor counts   *)
(* its claims, and what a challenge named was there.                       *)
Counted(a) == a.claims # <<>> /\ a.claimCount = Len(a.claims)

Justified(a) ==
  \A accusation \in a.accused :
    accusation[1] + 1 \in DOMAIN a.claims /\ a.claims[accusation[1] + 1] = accusation[2]

BatchesAreWhole ==
  /\ <<>> \notin strays
  /\ \A a \in anchors : Counted(a) /\ Justified(a)

ContractIInv == AnchorsIInv /\ BatchesAreWhole

LEMMA SentIsWhole ==
  ASSUME AnchorsIInv, tx = "sent"
  PROVE  Batch # <<>>
<1>1. daemon.start \in Nat /\ daemon.view \in Seq(Nat) /\ daemon.start < Len(daemon.view)
  BY DEF AnchorsIInv, AnchorsTypeOK, FlushIsSound
<1>2. Len(daemon.view) \in daemon.start + 1 .. Len(daemon.view)
  BY <1>1
<1>3. daemon.view[Len(daemon.view)] \in Range(Batch)
  BY <1>1, <1>2, BatchHolds DEF Batch
<1>. QED BY <1>3 DEF Range

LEMMA WholeIsLevel ==
  ASSUME NEW claims \in Seq(Nat), claims # <<>>
  PROVE  Len(claims) \in Nat \ {0} /\ IsLevel(claims, Len(claims))
<1>1. Len(claims) \in Nat \ {0} /\ DOMAIN claims = 1 .. Len(claims)
  BY EmptySeq, LenProperties
<1>2. claims = [k \in 1 .. Len(claims) |-> claims[k]]
  BY <1>1
<1>3. claims \in Seq(Range(claims))
  BY <1>1, <1>2, SequenceOfRange
<1>. QED BY <1>1, <1>3 DEF IsLevel

LEMMA AnchoredIsWhole ==
  ASSUME NEW claims, claims # <<>>
  PROVE  Counted(Anchored(claims)) /\ Justified(Anchored(claims))
BY DEF Counted, Justified, Anchored

LEMMA WholeStep ==
  ASSUME ContractIInv, [AnchorsNext]_anchorsVars
  PROVE  BatchesAreWhole'
<1>0. AnchorsIInv /\ AnchorsTypeOK /\ BatchesAreWhole
  BY DEF ContractIInv, AnchorsIInv
<1>1. ASSUME UNCHANGED <<anchors, strays>> PROVE BatchesAreWhole'
  BY <1>0, <1>1 DEF BatchesAreWhole
<1>2. ASSUME GiveUp, UNCHANGED anchors PROVE BatchesAreWhole'
  BY <1>0, <1>2, SentIsWhole DEF GiveUp, BatchesAreWhole
<1>3. ASSUME NEW claims, claims # <<>>, AnchorBatch(claims) \/ UNCHANGED anchors, strays' \subseteq strays
      PROVE  BatchesAreWhole'
  BY <1>0, <1>3, AnchoredIsWhole DEF AnchorBatch, BatchesAreWhole
<1>4. ASSUME NEW a \in anchors, NEW b, Amend(a, b), UNCHANGED strays, Counted(b), Justified(b)
      PROVE  BatchesAreWhole'
  BY <1>0, <1>4 DEF Amend, BatchesAreWhole
<1>5. CASE TxLands
  BY <1>0, <1>3, <1>5, SentIsWhole DEF TxLands
<1>6. ASSUME NEW claims \in strays, StrayLands(claims) PROVE BatchesAreWhole'
  <2>1. claims # <<>>
    BY <1>0 DEF BatchesAreWhole
  <2>. QED BY <1>3, <1>6, <2>1 DEF StrayLands
<1>7. ASSUME NEW a \in anchors, NEW b \in anchors, NEW i \in DOMAIN b.claims,
             NEW index \in 0 .. MaxDecisions - 1,
             Challenge(a, b.claims[i], index, Proof(b.claims, i))
      PROVE  BatchesAreWhole'
  <2>. DEFINE digest == b.claims[i]
              steps == Proof(b.claims, i)
              c == [a EXCEPT !.disputed = TRUE, !.accused = @ \cup {<<index, digest>>}]
  <2>1. a \in AnchorRecord /\ b \in AnchorRecord
    BY <1>0 DEF AnchorsTypeOK, AnchorRecord
  <2>2. a.claims \in Seq(Nat) /\ b.claims \in Seq(Nat) /\ a.claims # <<>> /\ b.claims # <<>>
    BY <1>0, <2>1 DEF AnchorRecord, BatchesAreWhole, Counted
  <2>3. IsLevel(a.claims, Len(a.claims)) /\ Len(a.claims) \in Nat \ {0}
    BY <2>2, WholeIsLevel
  <2>4. IsLevel(b.claims, Len(b.claims)) /\ Len(b.claims) \in Nat \ {0} /\ i \in 1 .. Len(b.claims)
    BY <2>2, WholeIsLevel DEF IsLevel
  <2>5. Len(steps) \in Nat /\ index \in Nat
    BY <2>4, ProofIsAccepted, AnchorsAssumption
  <2>6. VerifyInclusion(Root(a.claims), digest, index, steps)
    BY <1>7 DEF Challenge
  <2>7. index + 1 \in DOMAIN a.claims /\ a.claims[index + 1] = digest
    <3>. HIDE DEF digest, steps
    <3>. QED BY <2>3, <2>5, <2>6, AcceptedIsClaimed
  <2>8. Counted(a) /\ Justified(a)
    BY <1>0 DEF BatchesAreWhole
  <2>9. Counted(c)
    BY <2>1, <2>8 DEF Counted, AnchorRecord
  <2>10. c.claims = a.claims /\ c.accused = a.accused \cup {<<index, digest>>}
    BY <2>1 DEF AnchorRecord
  <2>11. Amend(a, c) /\ UNCHANGED strays
    BY <1>7 DEF Challenge, flush
  <2>. HIDE DEF c, digest, steps
  <2>12. Justified(c)
    BY <2>7, <2>8, <2>10 DEF Justified
  <2>. QED BY <1>4, <2>9, <2>11, <2>12
<1>8. ASSUME NEW a \in anchors, NEW slashed \in BOOLEAN, Resolve(a, slashed) PROVE BatchesAreWhole'
  <2>. DEFINE c == [a EXCEPT !.slashed = slashed]
  <2>1. a \in AnchorRecord
    BY <1>0 DEF AnchorsTypeOK, AnchorRecord
  <2>2. c.claims = a.claims /\ c.accused = a.accused /\ c.claimCount = a.claimCount
    BY <2>1 DEF AnchorRecord
  <2>3. Amend(a, c) /\ UNCHANGED strays
    BY <1>8 DEF Resolve, flush
  <2>4. Counted(a) /\ Justified(a)
    BY <1>0 DEF BatchesAreWhole
  <2>. HIDE DEF c
  <2>5. Counted(c) /\ Justified(c)
    BY <2>2, <2>4 DEF Counted, Justified
  <2>. QED BY <1>4, <2>3, <2>5
<1>9. CASE Chain
  BY <1>5, <1>6, <1>7, <1>8, <1>9 DEF Chain
<1>10. CASE CastFails \/ DaemonDies
  BY <1>2, <1>10 DEF CastFails, DaemonDies
<1>11. Decide \/ CutLog \/ ReadLog \/ CastRefuses \/ CastSends \/ CastSucceeds \/ Save \/ UNCHANGED anchorsVars
         => UNCHANGED <<anchors, strays>>
  BY DEF Decide, CutLog, ReadLog, CastRefuses, CastSends, CastSucceeds, Save, anchorsVars, flush
<1>. QED BY <1>1, <1>9, <1>10, <1>11 DEF AnchorsNext, Daemon

LEMMA ContractIInvHolds == AnchorsSpec => []ContractIInv
<1>1. AnchorsInit => BatchesAreWhole
  BY DEF AnchorsInit, BatchesAreWhole
<1>2. ContractIInv /\ [AnchorsNext]_anchorsVars => BatchesAreWhole'
  BY WholeStep
<1>. QED BY <1>1, <1>2, AnchorsIInvHolds, PTL DEF AnchorsSpec, ContractIInv

(* Every claim of every anchored batch, of any size, can be challenged     *)
(* with the proof that ClaimBatch::proof builds for it.                    *)
THEOREM EveryClaimIsChallengeable == AnchorsSpec => []ClaimsAreChallengeable
<1>1. ASSUME ContractIInv, NEW a \in anchors, NEW i \in DOMAIN a.claims
      PROVE  /\ i - 1 < a.claimCount
             /\ VerifyInclusion(Root(a.claims), a.claims[i], i - 1, Proof(a.claims, i))
  <2>1. a.claims \in Seq(Nat) /\ a.claims # <<>> /\ a.claimCount = Len(a.claims)
    BY <1>1 DEF ContractIInv, AnchorsIInv, AnchorsTypeOK, BatchesAreWhole, Counted
  <2>2. IsLevel(a.claims, Len(a.claims)) /\ Len(a.claims) \in Nat \ {0} /\ i \in 1 .. Len(a.claims)
    BY <2>1, WholeIsLevel DEF IsLevel
  <2>. QED BY <2>1, <2>2, ProofIsAccepted
<1>2. ContractIInv => ClaimsAreChallengeable
  BY <1>1 DEF ClaimsAreChallengeable
<1>. QED BY <1>2, ContractIInvHolds, PTL

(* Nobody can accuse a batch of a claim it does not hold, or at another    *)
(* index, whatever proof he brings.                                        *)
THEOREM OnlyItsClaimsAreAccused == AnchorsSpec => []OnlyClaimsAreAccused
<1>1. ContractIInv => OnlyClaimsAreAccused
  BY DEF ContractIInv, BatchesAreWhole, Justified, OnlyClaimsAreAccused
<1>. QED BY <1>1, ContractIInvHolds, PTL
=============================================================================
