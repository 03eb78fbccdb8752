------------------------------ MODULE PaymentGate ------------------------------
(***************************************************************************)
(* scematica-protocol's x402 gate: one server process whose requests each  *)
(* carry a signed payment in a header.  A request claims a key read off    *)
(* its header in the store of spent payments, has the facilitator settle   *)
(* the payment on chain, and is answered only then.  Requests interleave   *)
(* at every await; a request is dropped at its await when its client hangs *)
(* up; a restart empties the store.                                        *)
(*                                                                         *)
(* The chain is outside: it takes a transaction while its blockhash lives, *)
(* at most once, and an RPC call may report an error whatever the chain    *)
(* does.  Payments here are those verify accepts: it is a pure function,   *)
(* and what it refuses is answered 402 and changes nothing.                *)
(***************************************************************************)
EXTENDS Integers, Functions

CONSTANTS
  Payments,       \* messages, each signed by its payer once
  Fillings,       \* what a header holds in a slot before the payer's signature
  Blank,          \* the filling client.rs leaves there: the default signature
  Uncollectible,  \* those submit refuses: no blockhash, no slot for the fee payer
  Requests,       \* places for requests in progress
  BlockLife,      \* how long a blockhash admits its transaction
  SpentTtl,       \* SPENT_TTL
  Patience,       \* how long a settlement takes at most
  MaxTime,        \* bound: the clock stops here
  MaxArrivals,    \* bound: requests that reach the store
  MaxRestarts     \* bound: restarts of the process

(* SPENT_TTL, 900 seconds, "must comfortably exceed" the time a payment    *)
(* stays valid.  It exceeds a settlement too: every call of the RPC client *)
(* times out, and its wait for a confirmation ends with the blockhash.     *)
ASSUME GateAssumption ==
  /\ Uncollectible \subseteq Payments /\ Blank \in Fillings
  /\ {BlockLife, SpentTtl, Patience, MaxTime, MaxArrivals, MaxRestarts} \subseteq Nat
  /\ BlockLife < SpentTtl /\ Patience < SpentTtl

(* Headers that verify accepts: it checks the payer's signature and looks  *)
(* at no other, and the facilitator signs over its own slot.  The headers  *)
(* of one payment therefore submit one and the same transaction.           *)
Headers == [payment : Payments, filling : Fillings]

Keys == Payments \cup Fillings

(* The first signature of the header that is not the default one.          *)
Key(h) == IF h.filling = Blank THEN h.payment ELSE h.filling

VARIABLES
  clock,
  seen,       \* SpentPayments: key -> when it was claimed
  tasks,      \* place -> the request in it
  chain,      \* payment -> what became of its transaction
  expires,    \* payment -> when its blockhash stops admitting it
  answered,   \* history: header -> requests this process answered for it
  arrivals, restarts

vars == <<clock, seen, tasks, chain, expires, answered, arrivals, restarts>>

Idle == [at |-> "idle"]

Init ==
  /\ clock = 0
  /\ seen = [k \in {} |-> 0]
  /\ tasks = [r \in Requests |-> Idle]
  /\ chain = [p \in Payments |-> "unbuilt"]
  /\ expires = [p \in Payments |-> 0]
  /\ answered = [h \in Headers |-> 0]
  /\ arrivals = 0 /\ restarts = 0

Settling(r) == tasks[r].at \in {"settling", "confirming"}

Tick ==
  /\ clock < MaxTime
  /\ \A r \in Requests : Settling(r) => clock - tasks[r].since < Patience
  /\ clock' = clock + 1
  /\ UNCHANGED <<seen, tasks, chain, expires, answered, arrivals, restarts>>

-----------------------------------------------------------------------------
(* A 402 hands out a fresh blockhash, and a payer signs a payment over it. *)
Build(p) ==
  /\ chain[p] = "unbuilt"
  /\ chain' = [chain EXCEPT ![p] = "unsent"]
  /\ expires' = [expires EXCEPT ![p] = clock + BlockLife]
  /\ UNCHANGED <<clock, seen, tasks, answered, arrivals, restarts>>

(* Mutation: what is kept is what should be forgotten.                     *)
Remembered_Inverted(now) == {k \in DOMAIN seen : now - seen[k] >= SpentTtl}

Remembered(now) == {k \in DOMAIN seen : now - seen[k] < SpentTtl}

(* The store is purged at every claim, one that is refused too.            *)
Purged == Restrict(seen, Remembered(clock))

Work(r, at, h, since) ==
  tasks' = [tasks EXCEPT ![r] = [at |-> at, header |-> h, since |-> since]]

GoOn(r, at) == Work(r, at, tasks[r].header, tasks[r].since)

Leave(r) == tasks' = [tasks EXCEPT ![r] = Idle]

Taken(k) ==
  [x \in DOMAIN Purged \cup {k} |-> IF x = k THEN clock ELSE Purged[x]]

(* Mutation: a request that finds the key claimed goes on all the same.    *)
Claim_NotTested(r, h) == seen' = Taken(Key(h)) /\ Work(r, "settling", h, clock)

(* Test-and-set under the one lock.  The loser is answered 402.            *)
Claim(r, h) ==
  IF Key(h) \in DOMAIN Purged THEN seen' = Purged /\ UNCHANGED tasks
  ELSE seen' = Taken(Key(h)) /\ Work(r, "settling", h, clock)

Arrive(r, h) ==
  /\ tasks[r] = Idle /\ chain[h.payment] # "unbuilt"
  /\ arrivals < MaxArrivals
  /\ arrivals' = arrivals + 1
  /\ Claim(r, h)
  /\ UNCHANGED <<clock, chain, expires, answered, restarts>>

At(r, step) == tasks[r].at = step

KeyOf(r) == Key(tasks[r].header)

PaymentOf(r) == tasks[r].header.payment

(* Every error of settle reports no transaction, and the claim is released *)
(* and the request answered 402: submit refused the payment ...            *)
Released(r) ==
  /\ seen' = Restrict(seen, DOMAIN seen \ {KeyOf(r)})
  /\ Leave(r)

RejectLocally(r) ==
  /\ At(r, "settling") /\ PaymentOf(r) \in Uncollectible
  /\ Released(r)
  /\ UNCHANGED <<clock, chain, expires, answered, arrivals, restarts>>

Admits(p) == clock < expires[p]

(* A transaction already on chain may be refused or taken for sent anew.   *)
Submitted(p) ==
  chain' = [chain EXCEPT ![p] = IF @ = "unsent" THEN "sent" ELSE @]

Send(r) ==
  LET p == PaymentOf(r) IN
  /\ At(r, "settling") /\ p \notin Uncollectible
  /\ Admits(p)
  /\ Submitted(p)
  /\ GoOn(r, "confirming")
  /\ UNCHANGED <<clock, seen, expires, answered, arrivals, restarts>>

(* ... or sending reported an error, though it may have arrived ...        *)
SendFails(r) ==
  LET p == PaymentOf(r) IN
  /\ At(r, "settling") /\ p \notin Uncollectible
  /\ Released(r)
  /\ UNCHANGED chain \/ (Admits(p) /\ Submitted(p))
  /\ UNCHANGED <<clock, expires, answered, arrivals, restarts>>

(* ... or its confirmation did, or gave up, whatever the chain did.        *)
ConfirmFails(r) ==
  /\ At(r, "confirming")
  /\ Released(r)
  /\ UNCHANGED <<clock, chain, expires, answered, arrivals, restarts>>

Lands(p) ==
  /\ chain[p] = "sent" /\ Admits(p)
  /\ chain' = [chain EXCEPT ![p] = "landed"]
  /\ UNCHANGED <<clock, seen, tasks, expires, answered, arrivals, restarts>>

(* Mutation: a transaction that was sent is taken for one that landed.     *)
IsConfirmed_WhenSent(p) == chain[p] \in {"sent", "landed"}

IsConfirmed(p) == chain[p] = "landed"

Confirmed(r) ==
  /\ At(r, "confirming") /\ IsConfirmed(PaymentOf(r))
  /\ GoOn(r, "serving")
  /\ UNCHANGED <<clock, seen, chain, expires, answered, arrivals, restarts>>

Serve(r) ==
  /\ At(r, "serving")
  /\ answered' = [answered EXCEPT ![tasks[r].header] = @ + 1]
  /\ Leave(r)
  /\ UNCHANGED <<clock, seen, chain, expires, arrivals, restarts>>

(* The client hangs up: the handler is dropped at its await, claim and all *)
Drop(r) ==
  /\ tasks[r] # Idle
  /\ Leave(r)
  /\ UNCHANGED <<clock, seen, chain, expires, answered, arrivals, restarts>>

Restart ==
  /\ restarts < MaxRestarts
  /\ restarts' = restarts + 1
  /\ seen' = [k \in {} |-> 0]
  /\ tasks' = [r \in Requests |-> Idle]
  /\ answered' = [h \in Headers |-> 0]
  /\ UNCHANGED <<clock, chain, expires, arrivals>>

-----------------------------------------------------------------------------
Next ==
  \/ Tick
  \/ \E p \in Payments : Build(p) \/ Lands(p)
  \/ \E r \in Requests :
       \/ \E h \in Headers : Arrive(r, h)
       \/ RejectLocally(r)
       \/ Send(r)
       \/ SendFails(r)
       \/ Confirmed(r)
       \/ ConfirmFails(r)
       \/ Serve(r)
       \/ Drop(r)
  \/ Restart

Spec == Init /\ [][Next]_vars

-----------------------------------------------------------------------------
Tasks ==
  [at : {"settling", "confirming", "serving"}, header : Headers, since : Nat]

TypeOK ==
  /\ clock \in Nat /\ arrivals \in Nat /\ restarts \in Nat
  /\ DOMAIN seen \subseteq Keys
  /\ seen \in [DOMAIN seen -> Nat]
  /\ tasks \in [Requests -> {Idle} \cup Tasks]
  /\ chain \in [Payments -> {"unbuilt", "unsent", "sent", "landed"}]
  /\ expires \in [Payments -> Nat]
  /\ answered \in [Headers -> Nat]

(* A header used to buy "unlimited requests".  However requests race, fail,*)
(* hang up and come again, and though a claim is given back after errors   *)
(* and forgotten after SPENT_TTL, and one key may be the key of several    *)
(* payments, a process answers at most one request for a header.  (Not for *)
(* a payment: differently filled headers of one payment have two keys.)    *)
OneHeaderOneAnswer == \A h \in Headers : answered[h] <= 1

(* "Settle, then serve": a request is answered, or about to be, only for a *)
(* payment that is on chain.                                               *)
AnsweredIsPaid ==
  /\ \A h \in Headers : answered[h] > 0 => chain[h.payment] = "landed"
  /\ \A r \in Requests : At(r, "serving") => chain[PaymentOf(r)] = "landed"

(* A request that could give its claim back, or whose payment can still    *)
(* land.                                                                   *)
Active(r) == Settling(r) \/ (At(r, "serving") /\ Admits(PaymentOf(r)))

(* Two requests with one key: "the loser is refused rather than queued     *)
(* behind the winner's RPC round trip".  A request has its claim until its *)
(* settlement is over and its payment can land no more, although claims    *)
(* are forgotten, and other requests give theirs back, meanwhile; and no   *)
(* two such requests have one key.                                         *)
WorkerHoldsClaim ==
  /\ \A r \in Requests : Active(r) => KeyOf(r) \in DOMAIN seen
  /\ \A r, s \in Requests : Active(r) /\ Active(s) /\ KeyOf(r) = KeyOf(s) => r = s
=============================================================================
