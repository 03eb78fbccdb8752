------------------------------ MODULE SpendLedger ------------------------------
(***************************************************************************)
(* The spend ledger of the omni runtime: `scema pay --commit` and `scema   *)
(* reconcile`, each a process of its own that reads one ledger file, works *)
(* on its copy and writes the whole file back.  Writing truncates the file *)
(* first, there is no lock, and a process may die between any two steps.   *)
(* What moves the money is outside: it pays or fails each request it is    *)
(* handed, once, and its receipts may be reconciled late and repeatedly.   *)
(*                                                                         *)
(* A spend record's id is a digest of the second it was sealed in, the     *)
(* request and the verdict: here a record is its own id.                   *)
(***************************************************************************)
EXTENDS FiniteSets, Sums

CONSTANTS
  Processes,
  Requests,        \* spends asked for: units, and whether the policy lists
                   \* their asset, capability and payee
  PerTransaction,  \* the policy's two limits
  Budget,
  MaxTime,         \* bound: the clock, in seconds, stops here
  MaxCommands      \* bound: commands started

ASSUME SpendAssumption ==
  /\ Requests \subseteq [units : Nat, listed : BOOLEAN]
  /\ {PerTransaction, Budget, MaxTime, MaxCommands} \subseteq Nat

VARIABLES
  clock,
  file,        \* the ledger file; torn while, or after, a write is cut short
  spends,      \* the sealed spend records
  proc,        \* process -> the command it runs
  requests,    \* the settlement requests handed out, and what became of each
  commands,    \* commands started
  overlapped,  \* history: a command started while another was running
  resealed     \* history: a record was sealed that was sealed before

vars == <<clock, file, spends, proc, requests, commands, overlapped, resealed>>

Torn == [readable |-> FALSE]

EmptyLedger == [readable |-> TRUE, spent |-> 0, count |-> 0, settled |-> {}, reserved |-> {}]

Idle == [pc |-> "idle"]

Init ==
  /\ clock = 0
  /\ file = EmptyLedger
  /\ spends = {} /\ requests = {}
  /\ proc = [p \in Processes |-> Idle]
  /\ commands = 0 /\ overlapped = FALSE /\ resealed = FALSE

Tick ==
  /\ clock < MaxTime
  /\ clock' = clock + 1
  /\ UNCHANGED <<file, spends, proc, requests, commands, overlapped, resealed>>

-----------------------------------------------------------------------------
UnitsOf(records) == SumOf([r \in records |-> r.request.units])

HasSeen(l, r) == r \in l.settled \/ r \in l.reserved

(* Mutation: what is promised and not yet paid does not count.             *)
Committed_SpentOnly(l) == l.spent

Committed(l) == l.spent + UnitsOf(l.reserved)

Remaining(l) == IF Committed(l) <= Budget THEN Budget - Committed(l) ELSE 0

Authorises(l, q) ==
  q.listed /\ q.units > 0 /\ q.units <= PerTransaction /\ q.units <= Remaining(l)

Reserved(l, r) == [l EXCEPT !.reserved = @ \cup {r}]

Released(l, r) == [l EXCEPT !.reserved = @ \ {r}]

(* Mutation: a record already counted is counted again.                    *)
Settled_Again(l, r) ==
  [l EXCEPT !.reserved = @ \ {r}, !.spent = @ + r.request.units,
            !.count = @ + 1, !.settled = @ \cup {r}]

Settled(l, r) ==
  IF r \in l.settled THEN l
  ELSE [l EXCEPT !.reserved = @ \ {r}, !.spent = @ + r.request.units,
                 !.count = @ + 1, !.settled = @ \cup {r}]

-----------------------------------------------------------------------------
Becomes(p, c) == proc' = [proc EXCEPT ![p] = c]

(* A command starts by reading the ledger, and fails if it cannot.         *)
Starts(p) ==
  /\ proc[p] = Idle /\ commands < MaxCommands
  /\ file.readable
  /\ commands' = commands + 1
  /\ overlapped' = (overlapped \/ \E o \in Processes : proc[o] # Idle)

(* pay: read the ledger and decide on that reading.                        *)
Pay(p, q) ==
  /\ Starts(p)
  /\ Becomes(p, [pc |-> "sealing", request |-> q, copy |-> file])
  /\ UNCHANGED <<clock, file, spends, requests, resealed>>

Sealed(c) ==
  LET permits == Authorises(c.copy, c.request) IN
  [permits |-> permits, at |-> clock, request |-> c.request,
   after |-> IF permits THEN Remaining(c.copy) - c.request.units ELSE 0]

(* A handed out request is the record's n-th.                              *)
HandOut(r) ==
  requests' = requests \cup
    {[record |-> r, nth |-> Cardinality({m \in requests : m.record = r}) + 1,
      outcome |-> "unknown"]}

Written(r, copy, next) == [pc |-> "truncating", record |-> r, copy |-> copy, next |-> next]

(* Mutation: the request is handed out before the budget is held.          *)
Seal_AsksFirst(p) ==
  /\ proc[p].pc = "sealing"
  /\ LET r == Sealed(proc[p]) IN
     /\ spends' = spends \cup {r}
     /\ resealed' = (resealed \/ r \in spends)
     /\ IF r.permits
        THEN HandOut(r) /\ Becomes(p, Written(r, Reserved(proc[p].copy, r), "idle"))
        ELSE UNCHANGED requests /\ Becomes(p, Idle)
  /\ UNCHANGED <<clock, file, commands, overlapped>>

(* The record is sealed, a refusal too; a permitted spend goes on to hold  *)
(* its budget, unless the reading already knew this very record.           *)
Seal(p) ==
  /\ proc[p].pc = "sealing"
  /\ LET r == Sealed(proc[p]) IN
     /\ spends' = spends \cup {r}
     /\ resealed' = (resealed \/ r \in spends)
     /\ IF ~r.permits THEN Becomes(p, Idle)
        ELSE IF HasSeen(proc[p].copy, r) THEN Becomes(p, [pc |-> "asking", record |-> r])
        ELSE Becomes(p, Written(r, Reserved(proc[p].copy, r), "asking"))
  /\ UNCHANGED <<clock, file, requests, commands, overlapped>>

Truncate(p) ==
  /\ proc[p].pc = "truncating"
  /\ file' = Torn
  /\ Becomes(p, [proc[p] EXCEPT !.pc = "writing"])
  /\ UNCHANGED <<clock, spends, requests, commands, overlapped, resealed>>

Write(p) ==
  /\ proc[p].pc = "writing"
  /\ file' = proc[p].copy
  /\ IF proc[p].next = "idle" THEN Becomes(p, Idle)
     ELSE Becomes(p, [pc |-> "asking", record |-> proc[p].record])
  /\ UNCHANGED <<clock, spends, requests, commands, overlapped, resealed>>

(* The settlement request is printed, whether or not budget was reserved.  *)
Ask(p) ==
  /\ proc[p].pc = "asking"
  /\ HandOut(proc[p].record)
  /\ Becomes(p, Idle)
  /\ UNCHANGED <<clock, file, spends, commands, overlapped, resealed>>

(* reconcile: a receipt of a sealed, permitted spend. A failure releases   *)
(* what is held, a payment is counted once; no change, no write.           *)
Reconcile(p, m) ==
  /\ Starts(p)
  /\ m.outcome \in {"paid", "failed"} /\ m.record \in spends
  /\ LET r == m.record
         l == IF m.outcome = "failed" THEN Released(file, r) ELSE Settled(file, r) IN
     Becomes(p, IF l = file THEN Idle ELSE Written(r, l, "idle"))
  /\ UNCHANGED <<clock, file, spends, requests, resealed>>

(* A process dies: what it had not written is lost.                        *)
Crash(p) ==
  /\ proc[p] # Idle
  /\ Becomes(p, Idle)
  /\ UNCHANGED <<clock, file, spends, requests, commands, overlapped, resealed>>

(* Outside: one handed out request is paid, or definitely fails.           *)
Answer(m, outcome) ==
  /\ m.outcome = "unknown"
  /\ requests' = (requests \ {m}) \cup {[m EXCEPT !.outcome = outcome]}
  /\ UNCHANGED <<clock, file, spends, proc, commands, overlapped, resealed>>

Next ==
  \/ Tick
  \/ \E p \in Processes :
       \/ \E q \in Requests : Pay(p, q)
       \/ Seal(p)
       \/ Truncate(p)
       \/ Write(p)
       \/ Ask(p)
       \/ \E m \in requests : Reconcile(p, m)
       \/ Crash(p)
  \/ \E m \in requests, outcome \in {"paid", "failed"} : Answer(m, outcome)

Spec == Init /\ [][Next]_vars

-----------------------------------------------------------------------------
Permitted == [permits : {TRUE}, at : Nat, request : Requests, after : Nat]

IsLedger(l) ==
  /\ l.readable = TRUE /\ l.spent \in Nat /\ l.count \in Nat
  /\ \A r \in l.settled \cup l.reserved : r \in Permitted

(* Every copy a process works on is a ledger too.                          *)
TypeOK ==
  /\ clock \in Nat /\ commands \in Nat /\ overlapped \in BOOLEAN /\ resealed \in BOOLEAN
  /\ file = Torn \/ IsLedger(file)
  /\ \A p \in Processes : "copy" \in DOMAIN proc[p] => IsLedger(proc[p].copy)
  /\ \A r \in spends : r.permits => r \in Permitted
  /\ \A m \in requests : m.record \in Permitted /\ m.nth \in Nat \ {0}

AddsUp(l) ==
  /\ l.spent = UnitsOf(l.settled) /\ l.count = Cardinality(l.settled)
  /\ l.settled \cap l.reserved = {}

(* "double-counting is structurally impossible": in the file and in every  *)
(* copy of it, what is spent is the sum of the distinct records settled,   *)
(* and none of them holds budget as well, whatever ran at the same time.   *)
LedgerAddsUp ==
  /\ TypeOK
  /\ file.readable => AddsUp(file)
  /\ \A p \in Processes : "copy" \in DOMAIN proc[p] => AddsUp(proc[p].copy)

Live(m) == m.outcome # "failed"

(* A record handed out twice counts once: it is one payment to its settler *)
Promised == UnitsOf({m.record : m \in {n \in requests : Live(n)}})

Undisturbed == ~overlapped /\ ~resealed

(* Commands that do not overlap, and seal no record twice, never hand out  *)
(* more than the budget, whatever crashed between and however late and     *)
(* often the receipts are reconciled.                                      *)
BudgetIsKept == Undisturbed => Promised <= Budget

(* "one whose outcome nobody could observe keeps it": a request handed out *)
(* that did not fail holds budget in the ledger or is counted there.       *)
UnresolvedHoldsBudget ==
  Undisturbed /\ file.readable => \A m \in requests : Live(m) => HasSeen(file, m.record)

(* The budget as the ledger's comments state it, of any commands at all.   *)
AuthorisationsFit == Promised <= Budget
=============================================================================
