-------------------------- MODULE PaymentGateProofs --------------------------
(***************************************************************************)
(* One header buys one answer, for any payments, keys, requests and times. *)
(* The argument follows a claim.  Until its settlement is over and its     *)
(* payment can land no more, a request has its claim, made when it came,   *)
(* and is alone with its key; an answer keeps the claim in the store while *)
(* its payment can land.  Only then is a claim old enough to be forgotten, *)
(* and nobody but its holder can give it back.  Once a payment can land no *)
(* more it is not sent again, and what is under way with a header was      *)
(* alone when it was sent.                                                 *)
(***************************************************************************)
EXTENDS PaymentGate, TLAPS

(* A payment was built before now and before the request that brings it;   *)
(* a settlement under way is not older than a settlement gets.             *)
Times ==
  /\ \A p \in Payments : expires[p] <= clock + BlockLife
  /\ \A r \in Requests : tasks[r] # Idle =>
       /\ chain[PaymentOf(r)] # "unbuilt"
       /\ expires[PaymentOf(r)] <= tasks[r].since + BlockLife
       /\ tasks[r].since <= clock
       /\ Settling(r) => clock <= tasks[r].since + Patience

HoldsClaim(r) ==
  Active(r) => KeyOf(r) \in DOMAIN seen /\ seen[KeyOf(r)] = tasks[r].since

Alone(r, s) == Active(r) /\ Active(s) /\ KeyOf(r) = KeyOf(s) => r = s

AnswerHolds(h) ==
  answered[h] > 0 /\ Admits(h.payment) =>
    /\ Key(h) \in DOMAIN seen
    /\ expires[h.payment] <= seen[Key(h)] + BlockLife
    /\ \A s \in Requests : Active(s) => KeyOf(s) # Key(h)

Claims ==
  /\ \A r \in Requests : HoldsClaim(r)
  /\ \A r, s \in Requests : Alone(r, s)
  /\ \A h \in Headers : AnswerHolds(h)

Sent(r, h) ==
  /\ At(r, "confirming") \/ At(r, "serving")
  /\ tasks[r].header = h

(* Afterwards too: a request that has sent its header is alone with it and *)
(* unanswered.                                                             *)
SentOnce(h) ==
  /\ \A r \in Requests : Sent(r, h) => answered[h] = 0
  /\ \A r, s \in Requests : Sent(r, h) /\ Sent(s, h) => r = s
  /\ answered[h] <= 1

IInv ==
  /\ TypeOK
  /\ Times
  /\ Claims
  /\ \A h \in Headers : SentOnce(h)
  /\ AnsweredIsPaid

(* What a place in use holds, and that an empty one does nothing.          *)
LEMMA TaskCases ==
  ASSUME TypeOK, NEW r \in Requests
  PROVE  /\ tasks[r] # Idle =>
              /\ tasks[r].at \in {"settling", "confirming", "serving"}
              /\ tasks[r].header \in Headers /\ tasks[r].since \in Nat
              /\ PaymentOf(r) \in Payments /\ KeyOf(r) \in Keys
              /\ tasks[r] = [at |-> tasks[r].at, header |-> tasks[r].header,
                             since |-> tasks[r].since]
         /\ Settling(r) \/ (\E a \in {"settling", "confirming", "serving"} : At(r, a))
              => tasks[r] # Idle
<1>1. tasks[r] = Idle => tasks[r].at = "idle"
  BY DEF Idle
<1>2. tasks[r] # Idle => tasks[r] \in Tasks
  BY DEF TypeOK
<1>3. QED BY <1>1, <1>2 DEF Tasks, Headers, Keys, Key, KeyOf, PaymentOf, Settling, At

LEMMA InitIInv == Init => IInv
<1> SUFFICES ASSUME Init PROVE IInv
  OBVIOUS
<1>1. DOMAIN seen = {} /\ seen \in [{} -> Nat]
  BY DEF Init
<1>2. TypeOK
  BY GateAssumption, <1>1 DEF Init, TypeOK
<1>3. \A r \in Requests : tasks[r] = Idle /\ tasks[r].at = "idle"
  BY DEF Init, Idle
<1>4. \A r \in Requests : ~Active(r) /\ \A h : ~Sent(r, h)
  BY <1>3 DEF Active, Sent, Settling, At
<1>5. Times
  BY <1>3, GateAssumption DEF Times, Init
<1>6. Claims
  BY <1>4 DEF Claims, HoldsClaim, Alone, AnswerHolds, Init
<1>7. (\A h \in Headers : SentOnce(h)) /\ AnsweredIsPaid
  BY <1>3, <1>4 DEF SentOnce, AnsweredIsPaid, At, Init
<1>8. QED BY <1>2, <1>5, <1>6, <1>7 DEF IInv

(* A request that leaves its place changes nobody else's.                  *)
LEMMA Leaving ==
  ASSUME TypeOK, NEW r \in Requests, Leave(r)
  PROVE  /\ tasks' \in [Requests -> {Idle} \cup Tasks]
         /\ tasks'[r] = Idle
         /\ \A x \in Requests : x # r => tasks'[x] = tasks[x]
  BY DEF TypeOK, Leave

(* Nor does one that goes on to its next step.                             *)
LEMMA GoingOn ==
  ASSUME TypeOK, NEW r \in Requests, tasks[r] # Idle,
         NEW at \in {"settling", "confirming", "serving"}, GoOn(r, at)
  PROVE  /\ tasks' \in [Requests -> {Idle} \cup Tasks]
         /\ tasks'[r] = [at |-> at, header |-> tasks[r].header, since |-> tasks[r].since]
         /\ tasks'[r] # Idle
         /\ \A x \in Requests : x # r => tasks'[x] = tasks[x]
<1>1. [at |-> at, header |-> tasks[r].header, since |-> tasks[r].since] \in Tasks
  BY TaskCases DEF Tasks
<1>2. QED BY <1>1 DEF TypeOK, GoOn, Work, Idle

(* Requests that leave, or go on with the header they have, claim nothing; *)
(* while the claims of those still active, and of answers, stay, nothing   *)
(* else of the claims changes.                                             *)
LEMMA ClaimsStay ==
  ASSUME IInv, clock' \in Nat, clock' >= clock, UNCHANGED answered,
         \A x \in Requests : Active(x)' =>
           /\ Active(x)
           /\ tasks'[x].header = tasks[x].header /\ tasks'[x].since = tasks[x].since,
         \A h \in Headers : answered[h] > 0 => expires'[h.payment] = expires[h.payment],
         \A k \in DOMAIN seen \cap DOMAIN seen' : seen'[k] = seen[k],
         \A k \in DOMAIN seen \ DOMAIN seen' :
           /\ \A x \in Requests : Active(x)' => KeyOf(x) # k
           /\ \A h \in Headers : answered[h] > 0 /\ Admits(h.payment) => Key(h) # k
  PROVE  Claims'
<1>1. \A x \in Requests : Active(x)' => Active(x) /\ KeyOf(x)' = KeyOf(x)
  BY DEF KeyOf
<1>2. ASSUME NEW r \in Requests PROVE HoldsClaim(r)'
  BY <1>1, <1>2 DEF IInv, Claims, HoldsClaim
<1>3. ASSUME NEW r \in Requests, NEW s \in Requests PROVE Alone(r, s)'
  BY <1>1, <1>3 DEF IInv, Claims, Alone
<1>4. ASSUME NEW h \in Headers PROVE AnswerHolds(h)'
  <2> SUFFICES ASSUME answered[h] > 0, Admits(h.payment)'
               PROVE  /\ Key(h) \in DOMAIN seen'
                      /\ expires'[h.payment] <= seen'[Key(h)] + BlockLife
                      /\ \A s \in Requests : Active(s)' => KeyOf(s)' # Key(h)
    BY DEF AnswerHolds
  <2>1. expires'[h.payment] = expires[h.payment]
    OBVIOUS
  <2>2. h.payment \in Payments /\ expires[h.payment] \in Nat /\ clock \in Nat
    BY DEF Headers, IInv, TypeOK
  <2>3. Admits(h.payment)
    BY <2>1, <2>2 DEF Admits
  <2>4. /\ Key(h) \in DOMAIN seen
        /\ expires[h.payment] <= seen[Key(h)] + BlockLife
        /\ \A s \in Requests : Active(s) => KeyOf(s) # Key(h)
    BY <2>3 DEF IInv, Claims, AnswerHolds
  <2>5. Key(h) \in DOMAIN seen'
    BY <2>3, <2>4
  <2>6. QED BY <1>1, <2>1, <2>4, <2>5
<1>5. QED BY <1>2, <1>3, <1>4 DEF Claims

(* A request that has left is neither active nor past its sending; the     *)
(* others are as they were, if the blockhashes are and time only passes.   *)
LEMMA Fewer ==
  ASSUME IInv, clock' \in Nat, clock' >= clock,
         \A x \in Requests : tasks'[x] \in {tasks[x], Idle},
         \A x \in Requests : tasks[x] # Idle => expires'[PaymentOf(x)] = expires[PaymentOf(x)]
  PROVE  \A x \in Requests :
           /\ Active(x)' => Active(x) /\ tasks'[x] = tasks[x]
           /\ \A h : Sent(x, h)' => Sent(x, h)
           /\ At(x, "serving")' => At(x, "serving") /\ tasks'[x] = tasks[x]
<1> SUFFICES ASSUME NEW x \in Requests
             PROVE  /\ Active(x)' => Active(x) /\ tasks'[x] = tasks[x]
                    /\ \A h : Sent(x, h)' => Sent(x, h)
                    /\ At(x, "serving")' => At(x, "serving") /\ tasks'[x] = tasks[x]
  OBVIOUS
<1>1. TypeOK
  BY DEF IInv
<1>2. CASE tasks'[x] = Idle
  <2>1. tasks'[x].at = "idle"
    BY <1>2 DEF Idle
  <2>2. QED BY <2>1 DEF Active, Sent, At, Settling
<1>3. CASE tasks'[x] = tasks[x] /\ tasks[x] # Idle
  <2>1. PaymentOf(x) \in Payments /\ PaymentOf(x)' = PaymentOf(x)
    BY <1>1, <1>3, TaskCases DEF PaymentOf
  <2>2. expires[PaymentOf(x)] \in Nat /\ clock \in Nat
    BY <1>1, <2>1 DEF TypeOK
  <2>3. Admits(PaymentOf(x))' => Admits(PaymentOf(x))
    BY <1>3, <2>1, <2>2 DEF Admits
  <2>4. QED BY <1>3, <2>3 DEF Active, Sent, At, Settling
<1>4. QED BY <1>2, <1>3

(* Steps that take nobody to work and send nothing.                        *)
LEMMA ShrinkStep ==
  ASSUME IInv, TypeOK', clock' >= clock, UNCHANGED <<answered, expires>>,
         \A x \in Requests : tasks'[x] \in {tasks[x], Idle},
         \A x \in Requests : Settling(x)' => clock' <= tasks[x].since + Patience,
         \A q \in Payments : /\ chain[q] = "landed" => chain'[q] = "landed"
                             /\ chain[q] # "unbuilt" => chain'[q] # "unbuilt",
         \A k \in DOMAIN seen \cap DOMAIN seen' : seen'[k] = seen[k],
         \A k \in DOMAIN seen \ DOMAIN seen' :
           /\ \A x \in Requests : Active(x)' => KeyOf(x) # k
           /\ \A h \in Headers : answered[h] > 0 /\ Admits(h.payment) => Key(h) # k
  PROVE  IInv'
<1>1. TypeOK /\ clock' \in Nat /\ clock \in Nat
  BY DEF IInv, TypeOK
<1>2. \A x \in Requests :
        /\ Active(x)' => Active(x) /\ tasks'[x] = tasks[x]
        /\ \A h : Sent(x, h)' => Sent(x, h)
        /\ At(x, "serving")' => At(x, "serving") /\ tasks'[x] = tasks[x]
  BY <1>1, Fewer
<1>3. Claims'
  BY <1>1, <1>2, ClaimsStay
<1>4. ASSUME NEW x \in Requests, tasks'[x] # Idle
      PROVE  /\ chain'[PaymentOf(x)'] # "unbuilt"
             /\ expires'[PaymentOf(x)'] <= tasks'[x].since + BlockLife
             /\ tasks'[x].since <= clock'
             /\ Settling(x)' => clock' <= tasks'[x].since + Patience
  <2>1. tasks'[x] = tasks[x] /\ tasks[x] # Idle /\ PaymentOf(x)' = PaymentOf(x)
    BY <1>4 DEF PaymentOf
  <2>2. PaymentOf(x) \in Payments /\ tasks[x].since \in Nat
    BY <1>1, <2>1, TaskCases
  <2>3. QED BY <1>1, <2>1, <2>2 DEF IInv, Times
<1>5. \A p \in Payments : expires'[p] <= clock' + BlockLife
  BY <1>1, GateAssumption DEF IInv, Times, TypeOK
<1>6. Times'
  BY <1>4, <1>5 DEF Times
<1>7. \A h \in Headers : SentOnce(h)'
  BY <1>2 DEF IInv, SentOnce
<1>8. AnsweredIsPaid'
  <2>1. \A h \in Headers : answered'[h] > 0 => chain'[h.payment] = "landed"
    BY DEF IInv, AnsweredIsPaid, Headers
  <2>2. ASSUME NEW x \in Requests, At(x, "serving")'
        PROVE  chain'[PaymentOf(x)'] = "landed"
    <3>1. At(x, "serving") /\ PaymentOf(x)' = PaymentOf(x)
      BY <1>2, <2>2 DEF PaymentOf
    <3>2. PaymentOf(x) \in Payments
      BY <1>1, <3>1, TaskCases
    <3>3. QED BY <3>1, <3>2 DEF IInv, AnsweredIsPaid
  <2>3. QED BY <2>1, <2>2 DEF AnsweredIsPaid
<1>9. QED BY <1>3, <1>6, <1>7, <1>8 DEF IInv

LEMMA TickStep == IInv /\ Tick => IInv'
<1> SUFFICES ASSUME IInv, Tick PROVE IInv'
  OBVIOUS
<1>1. clock \in Nat /\ clock' = clock + 1
  BY DEF Tick, IInv, TypeOK
<1>2. UNCHANGED <<seen, tasks, chain, expires, answered, arrivals, restarts>>
  BY DEF Tick
<1>3. ASSUME NEW x \in Requests, Settling(x)'
      PROVE  clock' <= tasks[x].since + Patience
  <2>1. Settling(x)
    BY <1>2, <1>3 DEF Settling
  <2>2. tasks[x].since \in Nat
    BY <2>1, TaskCases DEF IInv
  <2>3. clock - tasks[x].since < Patience /\ Patience \in Nat
    BY <2>1, GateAssumption DEF Tick
  <2>4. QED BY <1>1, <2>2, <2>3
<1>4. TypeOK'
  BY <1>1, <1>2 DEF IInv, TypeOK
<1>5. QED BY <1>1, <1>2, <1>3, <1>4, ShrinkStep

(* The settlements that go on through a step that takes no time are not    *)
(* too old.                                                                *)
LEMMA StillSettling ==
  ASSUME IInv, \A x \in Requests : tasks'[x] \in {tasks[x], Idle}, UNCHANGED clock
  PROVE  \A x \in Requests : Settling(x)' => clock' <= tasks[x].since + Patience
<1> SUFFICES ASSUME NEW x \in Requests, Settling(x)'
             PROVE  clock' <= tasks[x].since + Patience
  OBVIOUS
<1>1. tasks'[x] # Idle
  BY DEF Settling, Idle
<1>2. tasks'[x] = tasks[x] /\ Settling(x) /\ tasks[x] # Idle
  BY <1>1 DEF Settling
<1>3. QED BY <1>2 DEF IInv, Times

(* A claim given back is its holder's, who is alone with the key; and no   *)
(* answer needs it.                                                        *)
LEMMA ReleasedStep ==
  ASSUME IInv, NEW r \in Requests, RejectLocally(r) \/ SendFails(r) \/ ConfirmFails(r)
  PROVE  IInv'
<1>1. TypeOK
  BY DEF IInv
<1>2. Released(r) /\ Leave(r) /\ UNCHANGED <<clock, expires, answered, arrivals, restarts>>
  BY DEF RejectLocally, SendFails, ConfirmFails, Released
<1>3. Settling(r) /\ Active(r)
  BY DEF RejectLocally, SendFails, ConfirmFails, At, Settling, Active
<1>4. /\ chain' \in [Payments -> {"unbuilt", "unsent", "sent", "landed"}]
      /\ \A q \in Payments : /\ chain[q] = "landed" => chain'[q] = "landed"
                             /\ chain[q] # "unbuilt" => chain'[q] # "unbuilt"
  BY <1>1 DEF RejectLocally, SendFails, ConfirmFails, Submitted, TypeOK
<1>5. /\ DOMAIN seen' = DOMAIN seen \ {KeyOf(r)}
      /\ seen' \in [DOMAIN seen' -> Nat]
      /\ \A k \in DOMAIN seen' : seen'[k] = seen[k]
  BY <1>1, <1>2 DEF TypeOK, Released, Restrict
<1>6. /\ tasks' \in [Requests -> {Idle} \cup Tasks] /\ tasks'[r] = Idle
      /\ \A x \in Requests : x # r => tasks'[x] = tasks[x]
  BY <1>1, <1>2, Leaving
<1>7. TypeOK'
  BY <1>1, <1>2, <1>4, <1>5, <1>6 DEF TypeOK
<1>8. \A x \in Requests : tasks'[x] \in {tasks[x], Idle}
  BY <1>6
<1>9. \A x \in Requests : Active(x)' => Active(x) /\ x # r
  <2>1. \A x \in Requests : Active(x)' => Active(x) /\ tasks'[x] = tasks[x]
    BY <1>1, <1>2, <1>8, Fewer DEF TypeOK
  <2>2. tasks'[r].at = "idle"
    BY <1>6 DEF Idle
  <2>3. ~Active(r)'
    BY <2>2 DEF Active, Settling, At
  <2>4. QED BY <2>1, <2>3
<1>10. ASSUME NEW k \in DOMAIN seen \ DOMAIN seen'
       PROVE  /\ \A x \in Requests : Active(x)' => KeyOf(x) # k
              /\ \A h \in Headers : answered[h] > 0 /\ Admits(h.payment) => Key(h) # k
  <2>1. k = KeyOf(r)
    BY <1>5
  <2>2. QED BY <1>3, <1>9, <2>1 DEF IInv, Claims, Alone, AnswerHolds
<1>11. clock' >= clock
  BY <1>1, <1>2 DEF TypeOK
<1>12. \A x \in Requests : Settling(x)' => clock' <= tasks[x].since + Patience
  BY <1>2, <1>8, StillSettling
<1>13. QED BY <1>2, <1>4, <1>5, <1>7, <1>8, <1>10, <1>11, <1>12, ShrinkStep

LEMMA DropStep ==
  ASSUME IInv, NEW r \in Requests, Drop(r)
  PROVE  IInv'
<1>1. TypeOK
  BY DEF IInv
<1>2. Leave(r) /\ UNCHANGED <<clock, seen, chain, expires, answered, arrivals, restarts>>
  BY DEF Drop
<1>3. /\ tasks' \in [Requests -> {Idle} \cup Tasks]
      /\ \A x \in Requests : tasks'[x] \in {tasks[x], Idle}
  BY <1>1, <1>2, Leaving
<1>4. TypeOK' /\ clock' >= clock
  BY <1>1, <1>2, <1>3 DEF TypeOK
<1>5. \A x \in Requests : Settling(x)' => clock' <= tasks[x].since + Patience
  BY <1>2, <1>3, StillSettling
<1>6. QED BY <1>2, <1>3, <1>4, <1>5, ShrinkStep

LEMMA LandsStep ==
  ASSUME IInv, NEW q \in Payments, Lands(q)
  PROVE  IInv'
<1>1. TypeOK
  BY DEF IInv
<1>2. UNCHANGED <<clock, seen, tasks, expires, answered, arrivals, restarts>>
  BY DEF Lands
<1>3. /\ chain' \in [Payments -> {"unbuilt", "unsent", "sent", "landed"}]
      /\ \A p \in Payments : /\ chain[p] = "landed" => chain'[p] = "landed"
                             /\ chain[p] # "unbuilt" => chain'[p] # "unbuilt"
  BY <1>1 DEF Lands, TypeOK
<1>4. TypeOK' /\ clock' >= clock
  BY <1>1, <1>2, <1>3 DEF TypeOK
<1>5. \A x \in Requests : Settling(x)' => clock' <= tasks[x].since + Patience
  BY <1>2, StillSettling
<1>6. QED BY <1>2, <1>3, <1>4, <1>5, ShrinkStep

(* A payment that is being built came with no request and was not answered.*)
LEMMA BuildStep ==
  ASSUME IInv, NEW q \in Payments, Build(q)
  PROVE  IInv'
<1>1. TypeOK /\ clock \in Nat /\ clock + BlockLife \in Nat
  BY GateAssumption DEF IInv, TypeOK
<1>2. UNCHANGED <<clock, seen, tasks, answered, arrivals, restarts>>
  BY DEF Build
<1>3. /\ chain' \in [Payments -> {"unbuilt", "unsent", "sent", "landed"}]
      /\ expires' \in [Payments -> Nat]
      /\ chain[q] = "unbuilt" /\ chain'[q] = "unsent" /\ expires'[q] = clock + BlockLife
      /\ \A p \in Payments : p # q => chain'[p] = chain[p] /\ expires'[p] = expires[p]
  BY <1>1 DEF Build, TypeOK
<1>4. TypeOK'
  BY <1>1, <1>2, <1>3 DEF TypeOK
<1>5. ASSUME NEW x \in Requests, tasks[x] # Idle
      PROVE  /\ PaymentOf(x) \in Payments /\ PaymentOf(x) # q
             /\ PaymentOf(x)' = PaymentOf(x)
  <2>1. PaymentOf(x) \in Payments
    BY <1>1, <1>5, TaskCases
  <2>2. PaymentOf(x) # q
    BY <1>3, <1>5 DEF IInv, Times
  <2>3. QED BY <1>2, <2>1, <2>2 DEF PaymentOf
<1>6. \A h \in Headers : answered[h] > 0 => h.payment \in Payments /\ h.payment # q
  BY <1>3 DEF IInv, AnsweredIsPaid, Headers
<1>7. \A x \in Requests :
        /\ Active(x)' => Active(x) /\ tasks'[x] = tasks[x]
        /\ \A h : Sent(x, h)' => Sent(x, h)
        /\ At(x, "serving")' => At(x, "serving") /\ tasks'[x] = tasks[x]
  <2>1. \A x \in Requests : tasks[x] # Idle => expires'[PaymentOf(x)] = expires[PaymentOf(x)]
    BY <1>3, <1>5
  <2>2. clock' \in Nat /\ clock' >= clock
    BY <1>1, <1>2
  <2>3. \A x \in Requests : tasks'[x] \in {tasks[x], Idle}
    BY <1>2
  <2>4. QED BY <2>1, <2>2, <2>3, Fewer
<1>8. Claims'
  <2>1. \A h \in Headers : answered[h] > 0 => expires'[h.payment] = expires[h.payment]
    BY <1>3, <1>6
  <2>2. clock' \in Nat /\ clock' >= clock
    BY <1>1, <1>2
  <2>3. QED BY <1>2, <1>7, <2>1, <2>2, ClaimsStay
<1>9. Times'
  <2>1. \A p \in Payments : expires'[p] <= clock' + BlockLife
    BY <1>1, <1>2, <1>3 DEF IInv, Times
  <2>2. ASSUME NEW x \in Requests, tasks'[x] # Idle
        PROVE  /\ chain'[PaymentOf(x)'] # "unbuilt"
               /\ expires'[PaymentOf(x)'] <= tasks'[x].since + BlockLife
               /\ tasks'[x].since <= clock'
               /\ Settling(x)' => clock' <= tasks'[x].since + Patience
    <3>1. tasks[x] # Idle /\ tasks'[x] = tasks[x] /\ (Settling(x)' <=> Settling(x))
      BY <1>2, <2>2 DEF Settling
    <3>2. /\ chain'[PaymentOf(x)'] = chain[PaymentOf(x)]
          /\ expires'[PaymentOf(x)'] = expires[PaymentOf(x)]
      BY <1>3, <1>5, <3>1
    <3>3. QED BY <1>2, <3>1, <3>2 DEF IInv, Times
  <2>3. QED BY <2>1, <2>2 DEF Times
<1>10. \A h \in Headers : SentOnce(h)'
  BY <1>2, <1>7 DEF IInv, SentOnce
<1>11. AnsweredIsPaid'
  <2>1. \A h \in Headers : answered'[h] > 0 => chain'[h.payment] = "landed"
    BY <1>2, <1>3, <1>6 DEF IInv, AnsweredIsPaid
  <2>2. ASSUME NEW x \in Requests, At(x, "serving")'
        PROVE  chain'[PaymentOf(x)'] = "landed"
    <3>1. At(x, "serving") /\ tasks[x] # Idle
      BY <1>1, <1>7, <2>2, TaskCases
    <3>2. chain'[PaymentOf(x)'] = chain[PaymentOf(x)]
      BY <1>3, <1>5, <3>1
    <3>3. QED BY <3>1, <3>2 DEF IInv, AnsweredIsPaid
  <2>3. QED BY <2>1, <2>2 DEF AnsweredIsPaid
<1>12. QED BY <1>4, <1>8, <1>9, <1>10, <1>11 DEF IInv

(* A claim that is forgotten is too old for any settlement under way, and  *)
(* for any payment that can still land.                                    *)
LEMMA Purging ==
  ASSUME IInv
  PROVE  /\ DOMAIN Purged \subseteq DOMAIN seen
         /\ Purged \in [DOMAIN Purged -> Nat]
         /\ \A k \in DOMAIN Purged : Purged[k] = seen[k]
         /\ \A x \in Requests : Active(x) => KeyOf(x) \in DOMAIN Purged
         /\ \A h \in Headers : answered[h] > 0 /\ Admits(h.payment) => Key(h) \in DOMAIN Purged
<1>1. /\ DOMAIN Purged = Remembered(clock) /\ Remembered(clock) \subseteq DOMAIN seen
      /\ \A k \in DOMAIN Purged : Purged[k] = seen[k]
  BY DEF Purged, Restrict, Remembered
<1>2. TypeOK /\ clock \in Nat /\ \A k \in DOMAIN seen : seen[k] \in Nat
  BY DEF IInv, TypeOK
<1>3. Purged \in [DOMAIN Purged -> Nat]
  BY <1>1, <1>2 DEF Purged, Restrict
<1>4. /\ BlockLife \in Nat /\ SpentTtl \in Nat /\ Patience \in Nat
      /\ BlockLife < SpentTtl /\ Patience < SpentTtl
  BY GateAssumption
<1>5. ASSUME NEW x \in Requests, Active(x)
      PROVE  KeyOf(x) \in DOMAIN Purged
  <2>1. tasks[x] # Idle /\ tasks[x].since \in Nat /\ PaymentOf(x) \in Payments
    BY <1>2, <1>5, TaskCases DEF Active
  <2>2. KeyOf(x) \in DOMAIN seen /\ seen[KeyOf(x)] = tasks[x].since
    BY <1>5 DEF IInv, Claims, HoldsClaim
  <2>3. CASE Settling(x)
    <3>1. clock <= tasks[x].since + Patience
      BY <2>1, <2>3 DEF IInv, Times
    <3>2. clock - seen[KeyOf(x)] < SpentTtl
      BY <1>2, <1>4, <2>1, <2>2, <3>1
    <3>3. QED BY <1>1, <2>2, <3>2 DEF Remembered
  <2>4. CASE Admits(PaymentOf(x))
    <3>1. expires[PaymentOf(x)] \in Nat /\ clock < expires[PaymentOf(x)]
      BY <1>2, <2>1, <2>4 DEF Admits, TypeOK
    <3>2. expires[PaymentOf(x)] <= tasks[x].since + BlockLife
      BY <2>1 DEF IInv, Times
    <3>3. clock - seen[KeyOf(x)] < SpentTtl
      BY <1>2, <1>4, <2>1, <2>2, <3>1, <3>2
    <3>4. QED BY <1>1, <2>2, <3>3 DEF Remembered
  <2>5. QED BY <1>5, <2>3, <2>4 DEF Active
<1>6. ASSUME NEW h \in Headers, answered[h] > 0, Admits(h.payment)
      PROVE  Key(h) \in DOMAIN Purged
  <2>1. Key(h) \in DOMAIN seen /\ expires[h.payment] <= seen[Key(h)] + BlockLife
    BY <1>6 DEF IInv, Claims, AnswerHolds
  <2>2. expires[h.payment] \in Nat /\ clock < expires[h.payment] /\ seen[Key(h)] \in Nat
    BY <1>2, <1>6, <2>1 DEF Admits, TypeOK, Headers
  <2>3. clock - seen[Key(h)] < SpentTtl
    BY <1>2, <1>4, <2>1, <2>2
  <2>4. QED BY <1>1, <2>1, <2>3 DEF Remembered
<1>7. QED BY <1>1, <1>3, <1>5, <1>6

LEMMA RefusedStep ==
  ASSUME IInv, seen' = Purged,
         UNCHANGED <<clock, tasks, chain, expires, answered, restarts>>, arrivals' \in Nat
  PROVE  IInv'
<1>1. TypeOK
  BY DEF IInv
<1>2. /\ DOMAIN seen' \subseteq DOMAIN seen
      /\ seen' \in [DOMAIN seen' -> Nat]
      /\ \A k \in DOMAIN seen' : seen'[k] = seen[k]
  BY Purging
<1>3. TypeOK' /\ clock' >= clock
  BY <1>1, <1>2 DEF TypeOK
<1>4. ASSUME NEW k \in DOMAIN seen \ DOMAIN seen'
      PROVE  /\ \A x \in Requests : Active(x)' => KeyOf(x) # k
             /\ \A h \in Headers : answered[h] > 0 /\ Admits(h.payment) => Key(h) # k
  <2>1. \A x \in Requests : Active(x)' => Active(x)
    BY DEF Active, Settling, At, Admits, PaymentOf
  <2>2. QED BY <2>1, Purging
<1>5. \A x \in Requests : Settling(x)' => clock' <= tasks[x].since + Patience
  BY StillSettling
<1>6. QED BY <1>2, <1>3, <1>4, <1>5, ShrinkStep

(* A claim that is granted finds the key held by no active request and     *)
(* needed by no answer.                                                    *)
LEMMA GrantedStep ==
  ASSUME IInv, NEW r \in Requests, NEW h \in Headers,
         tasks[r] = Idle, chain[h.payment] # "unbuilt", Key(h) \notin DOMAIN Purged,
         seen' = Taken(Key(h)), Work(r, "settling", h, clock),
         UNCHANGED <<clock, chain, expires, answered, restarts>>, arrivals' \in Nat
  PROVE  IInv'
<1>1. TypeOK /\ clock \in Nat /\ BlockLife \in Nat /\ Patience \in Nat
  BY GateAssumption DEF IInv, TypeOK
<1>2. /\ h.payment \in Payments /\ Key(h) \in Keys
  BY DEF Headers, Key, Keys
<1>3. /\ DOMAIN seen' = DOMAIN Purged \cup {Key(h)}
      /\ seen'[Key(h)] = clock
      /\ \A k \in DOMAIN Purged : seen'[k] = seen[k] /\ seen[k] \in Nat
  <2>1. \A k \in DOMAIN Purged : Purged[k] = seen[k] /\ Purged[k] \in Nat
    BY Purging
  <2>2. QED BY <2>1 DEF Taken
<1>4. seen' \in [DOMAIN seen' -> Nat]
  <2>1. \A k \in DOMAIN seen' : seen'[k] \in Nat
    BY <1>1, <1>3
  <2>2. QED BY <1>3, <2>1 DEF Taken
<1>5. /\ tasks' \in [Requests -> {Idle} \cup Tasks]
      /\ tasks'[r] = [at |-> "settling", header |-> h, since |-> clock]
      /\ tasks'[r].at = "settling"
      /\ \A x \in Requests : x # r => tasks'[x] = tasks[x]
  <2>1. [at |-> "settling", header |-> h, since |-> clock] \in Tasks
    BY <1>1 DEF Tasks
  <2>2. QED BY <1>1, <2>1 DEF TypeOK, Work
<1>6. TypeOK'
  <2>1. DOMAIN seen' \subseteq Keys
    BY <1>1, <1>2, <1>3, Purging DEF TypeOK
  <2>2. QED BY <1>1, <1>4, <1>5, <2>1 DEF TypeOK
<1>7. KeyOf(r)' = Key(h) /\ PaymentOf(r)' = h.payment
  BY <1>5 DEF KeyOf, PaymentOf
<1>8. \A x \in Requests : x # r =>
        /\ KeyOf(x)' = KeyOf(x) /\ PaymentOf(x)' = PaymentOf(x)
        /\ Active(x)' <=> Active(x)
        /\ Settling(x)' <=> Settling(x)
  BY <1>5 DEF KeyOf, PaymentOf, Active, Settling, At, Admits
<1>9. \A x \in Requests : Active(x)' /\ x # r => KeyOf(x)' \in DOMAIN Purged
  BY <1>8, Purging
<1>10. Claims'
  <2>1. ASSUME NEW x \in Requests PROVE HoldsClaim(x)'
    <3>1. CASE x = r
      BY <1>3, <1>5, <1>7, <3>1 DEF HoldsClaim
    <3>2. CASE x # r
      BY <1>3, <1>5, <1>8, <1>9, <3>2 DEF IInv, Claims, HoldsClaim
    <3>3. QED BY <3>1, <3>2
  <2>2. ASSUME NEW x \in Requests, NEW y \in Requests PROVE Alone(x, y)'
    BY <1>7, <1>8, <1>9, <2>2 DEF IInv, Claims, Alone
  <2>3. ASSUME NEW g \in Headers PROVE AnswerHolds(g)'
    <3> SUFFICES ASSUME answered[g] > 0, Admits(g.payment)
                 PROVE  /\ Key(g) \in DOMAIN seen'
                        /\ expires[g.payment] <= seen'[Key(g)] + BlockLife
                        /\ \A s \in Requests : Active(s)' => KeyOf(s)' # Key(g)
      BY DEF AnswerHolds, Admits
    <3>1. Key(g) \in DOMAIN Purged
      BY Purging
    <3>2. /\ expires[g.payment] <= seen[Key(g)] + BlockLife
          /\ \A s \in Requests : Active(s) => KeyOf(s) # Key(g)
      BY DEF IInv, Claims, AnswerHolds
    <3>3. QED BY <1>3, <1>7, <1>8, <3>1, <3>2
  <2>4. QED BY <2>1, <2>2, <2>3 DEF Claims
<1>11. Times'
  <2>1. ASSUME NEW x \in Requests, tasks'[x] # Idle
        PROVE  /\ chain'[PaymentOf(x)'] # "unbuilt"
               /\ expires'[PaymentOf(x)'] <= tasks'[x].since + BlockLife
               /\ tasks'[x].since <= clock'
               /\ Settling(x)' => clock' <= tasks'[x].since + Patience
    <3>1. CASE x = r
      <4>1. tasks'[x].since = clock /\ expires[h.payment] <= clock + BlockLife
        BY <1>2, <1>5, <3>1 DEF IInv, Times
      <4>2. QED BY <1>1, <1>7, <3>1, <4>1
    <3>2. CASE x # r
      BY <1>5, <1>8, <2>1, <3>2 DEF IInv, Times
    <3>3. QED BY <3>1, <3>2
  <2>2. QED BY <2>1 DEF IInv, Times
<1>12. \A x \in Requests :
         /\ \A g : Sent(x, g)' => Sent(x, g)
         /\ At(x, "serving")' => At(x, "serving") /\ x # r
  BY <1>5 DEF Sent, At
<1>13. \A g \in Headers : SentOnce(g)'
  BY <1>12 DEF IInv, SentOnce
<1>14. AnsweredIsPaid'
  BY <1>8, <1>12 DEF IInv, AnsweredIsPaid
<1>15. QED BY <1>6, <1>10, <1>11, <1>13, <1>14 DEF IInv

LEMMA ArriveStep ==
  ASSUME IInv, NEW r \in Requests, NEW h \in Headers, Arrive(r, h)
  PROVE  IInv'
<1>1. /\ tasks[r] = Idle /\ chain[h.payment] # "unbuilt"
      /\ UNCHANGED <<clock, chain, expires, answered, restarts>>
      /\ arrivals' \in Nat
  BY DEF Arrive, IInv, TypeOK
<1>2. CASE seen' = Purged /\ UNCHANGED tasks
  BY <1>1, <1>2, RefusedStep
<1>3. CASE Key(h) \notin DOMAIN Purged /\ seen' = Taken(Key(h)) /\ Work(r, "settling", h, clock)
  BY <1>1, <1>3, GrantedStep
<1>4. QED BY <1>2, <1>3 DEF Arrive, Claim

(* What a request that goes on to its next step keeps.                     *)
LEMMA GoingOnStep ==
  ASSUME IInv, NEW r \in Requests, Settling(r), NEW at \in {"confirming", "serving"},
         GoOn(r, at), UNCHANGED <<clock, seen, expires, answered, arrivals, restarts>>,
         chain' \in [Payments -> {"unbuilt", "unsent", "sent", "landed"}],
         \A q \in Payments : chain[q] # "unbuilt" => chain'[q] # "unbuilt"
  PROVE  /\ TypeOK' /\ Times' /\ Claims'
         /\ tasks'[r].at = at /\ tasks'[r].header = tasks[r].header
         /\ \A x \in Requests : x # r => tasks'[x] = tasks[x]
         /\ \A x \in Requests : PaymentOf(x)' = PaymentOf(x)
<1>1. TypeOK /\ clock \in Nat
  BY DEF IInv, TypeOK
<1>2. tasks[r] # Idle
  BY <1>1, TaskCases
<1>3. /\ tasks' \in [Requests -> {Idle} \cup Tasks]
      /\ tasks'[r] = [at |-> at, header |-> tasks[r].header, since |-> tasks[r].since]
      /\ \A x \in Requests : x # r => tasks'[x] = tasks[x]
  BY <1>1, <1>2, GoingOn
<1>4. TypeOK'
  BY <1>1, <1>3 DEF TypeOK
<1>5. \A x \in Requests :
        /\ tasks'[x].header = tasks[x].header /\ tasks'[x].since = tasks[x].since
        /\ PaymentOf(x)' = PaymentOf(x)
        /\ Active(x)' => Active(x)
        /\ Settling(x)' => Settling(x)
  BY <1>3 DEF PaymentOf, Active, Settling, At, Admits
<1>6. Claims'
  BY <1>1, <1>5, ClaimsStay
<1>7. Times'
  <2>1. ASSUME NEW x \in Requests, tasks'[x] # Idle
        PROVE  /\ chain'[PaymentOf(x)'] # "unbuilt"
               /\ expires'[PaymentOf(x)'] <= tasks'[x].since + BlockLife
               /\ tasks'[x].since <= clock'
               /\ Settling(x)' => clock' <= tasks'[x].since + Patience
    <3>1. tasks[x] # Idle
      BY <1>2, <1>3, <2>1
    <3>2. PaymentOf(x) \in Payments
      BY <1>1, <3>1, TaskCases
    <3>3. QED BY <1>5, <3>1, <3>2 DEF IInv, Times
  <2>2. QED BY <2>1 DEF IInv, Times
<1>8. tasks'[r].at = at
  BY <1>3
<1>9. QED BY <1>3, <1>4, <1>5, <1>6, <1>7, <1>8

(* Only a payment that can still land is sent: the request that sends it   *)
(* is alone with its key, so nobody has sent its header and no answer was  *)
(* given for it.                                                           *)
LEMMA SendStep ==
  ASSUME IInv, NEW r \in Requests, Send(r)
  PROVE  IInv'
<1>1. TypeOK
  BY DEF IInv
<1>2. /\ Settling(r) /\ Active(r) /\ Admits(PaymentOf(r)) /\ Submitted(PaymentOf(r))
      /\ GoOn(r, "confirming")
      /\ UNCHANGED <<clock, seen, expires, answered, arrivals, restarts>>
  BY DEF Send, At, Settling, Active
<1>3. /\ chain' \in [Payments -> {"unbuilt", "unsent", "sent", "landed"}]
      /\ \A q \in Payments : /\ chain[q] = "landed" => chain'[q] = "landed"
                             /\ chain[q] # "unbuilt" => chain'[q] # "unbuilt"
  BY <1>1, <1>2 DEF Submitted, TypeOK
<1>4. /\ TypeOK' /\ Times' /\ Claims'
      /\ tasks'[r].at = "confirming" /\ tasks'[r].header = tasks[r].header
      /\ \A x \in Requests : x # r => tasks'[x] = tasks[x]
      /\ \A x \in Requests : PaymentOf(x)' = PaymentOf(x)
  BY <1>2, <1>3, GoingOnStep
<1>5. \A x \in Requests : x # r => \A h : Sent(x, h)' <=> Sent(x, h)
  BY <1>4 DEF Sent, At
<1>6. \A h : Sent(r, h)' => h = tasks[r].header
  BY <1>4 DEF Sent
<1>7. ASSUME NEW h \in Headers PROVE SentOnce(h)'
  <2>1. SentOnce(h)
    BY DEF IInv
  <2>2. CASE h = tasks[r].header
    <3>1. Key(h) = KeyOf(r) /\ h.payment = PaymentOf(r)
      BY <2>2 DEF KeyOf, PaymentOf
    <3>2. answered[h] = 0
      <4>1. ~(answered[h] > 0)
        BY <1>2, <3>1 DEF IInv, Claims, AnswerHolds
      <4>2. QED BY <1>1, <4>1 DEF TypeOK
    <3>3. ASSUME NEW x \in Requests, x # r, Sent(x, h) PROVE FALSE
      <4>1. KeyOf(x) = Key(h) /\ PaymentOf(x) = h.payment
        BY <3>3 DEF Sent, KeyOf, PaymentOf
      <4>2. Active(x)
        BY <1>2, <3>1, <3>3, <4>1 DEF Active, Sent, Settling, At
      <4>3. QED BY <1>2, <3>1, <3>3, <4>1, <4>2 DEF IInv, Claims, Alone
    <3>4. QED BY <1>2, <1>5, <3>2, <3>3 DEF SentOnce
  <2>3. CASE h # tasks[r].header
    BY <1>2, <1>5, <1>6, <2>1, <2>3 DEF SentOnce
  <2>4. QED BY <2>2, <2>3
<1>8. AnsweredIsPaid'
  <2>1. \A h \in Headers : answered'[h] > 0 => chain'[h.payment] = "landed"
    BY <1>2, <1>3 DEF IInv, AnsweredIsPaid, Headers
  <2>2. ASSUME NEW x \in Requests, At(x, "serving")'
        PROVE  chain'[PaymentOf(x)'] = "landed"
    <3>1. x # r /\ At(x, "serving")
      BY <1>4, <2>2 DEF At
    <3>2. PaymentOf(x) \in Payments
      BY <1>1, <3>1, TaskCases
    <3>3. QED BY <1>3, <1>4, <3>1, <3>2 DEF IInv, AnsweredIsPaid
  <2>3. QED BY <2>1, <2>2 DEF AnsweredIsPaid
<1>9. QED BY <1>4, <1>7, <1>8 DEF IInv

LEMMA ConfirmedStep ==
  ASSUME IInv, NEW r \in Requests, Confirmed(r)
  PROVE  IInv'
<1>1. TypeOK
  BY DEF IInv
<1>2. /\ Settling(r) /\ At(r, "confirming") /\ chain[PaymentOf(r)] = "landed"
      /\ GoOn(r, "serving")
      /\ UNCHANGED <<clock, seen, chain, expires, answered, arrivals, restarts>>
  BY DEF Confirmed, IsConfirmed, At, Settling
<1>3. /\ TypeOK' /\ Times' /\ Claims'
      /\ tasks'[r].at = "serving" /\ tasks'[r].header = tasks[r].header
      /\ \A x \in Requests : x # r => tasks'[x] = tasks[x]
      /\ \A x \in Requests : PaymentOf(x)' = PaymentOf(x)
  BY <1>1, <1>2, GoingOnStep DEF TypeOK
<1>4. \A x \in Requests : \A h : Sent(x, h)' => Sent(x, h)
  BY <1>2, <1>3 DEF Sent, At
<1>5. \A h \in Headers : SentOnce(h)'
  BY <1>2, <1>4 DEF IInv, SentOnce
<1>6. AnsweredIsPaid'
  <2>1. ASSUME NEW x \in Requests, At(x, "serving")'
        PROVE  chain'[PaymentOf(x)'] = "landed"
    BY <1>2, <1>3, <2>1 DEF IInv, AnsweredIsPaid, At
  <2>2. QED BY <1>2, <2>1 DEF IInv, AnsweredIsPaid
<1>7. QED BY <1>3, <1>5, <1>6 DEF IInv

(* The request that is answered has sent its header, so it is alone with   *)
(* it and the first to be answered; and if its payment can still land, the *)
(* claim it leaves behind is the answer's.                                 *)
LEMMA ServeStep ==
  ASSUME IInv, NEW r \in Requests, Serve(r)
  PROVE  IInv'
<1>1. TypeOK /\ clock \in Nat
  BY DEF IInv, TypeOK
<1>2. tasks[r] # Idle /\ At(r, "serving")
  BY <1>1, TaskCases DEF Serve
<1>3. PICK h \in Headers : h = tasks[r].header
  BY <1>1, <1>2, TaskCases
<1>4. /\ Leave(r) /\ answered' = [answered EXCEPT ![h] = @ + 1]
      /\ UNCHANGED <<clock, seen, chain, expires, arrivals, restarts>>
  BY <1>3 DEF Serve
<1>5. /\ answered' \in [Headers -> Nat] /\ answered'[h] = answered[h] + 1
      /\ \A g \in Headers : g # h => answered'[g] = answered[g]
  BY <1>1, <1>4 DEF TypeOK
<1>6. /\ tasks' \in [Requests -> {Idle} \cup Tasks] /\ tasks'[r] = Idle
      /\ \A x \in Requests : x # r => tasks'[x] = tasks[x]
  BY <1>1, <1>4, Leaving
<1>7. TypeOK'
  BY <1>1, <1>4, <1>5, <1>6 DEF TypeOK
<1>8. Sent(r, h) /\ Key(h) = KeyOf(r) /\ h.payment = PaymentOf(r)
  BY <1>2, <1>3 DEF Sent, KeyOf, PaymentOf
<1>9. tasks'[r].at = "idle"
  BY <1>6 DEF Idle
<1>10. \A x \in Requests :
         /\ Active(x)' => x # r /\ Active(x)
         /\ At(x, "serving")' => x # r /\ At(x, "serving")
         /\ Settling(x)' => x # r /\ Settling(x)
         /\ \A g : Sent(x, g)' => x # r /\ Sent(x, g)
         /\ x # r => KeyOf(x)' = KeyOf(x) /\ PaymentOf(x)' = PaymentOf(x)
  BY <1>4, <1>6, <1>9 DEF Active, At, Settling, Sent, KeyOf, PaymentOf, Admits
<1>11. Claims'
  <2>1. ASSUME NEW x \in Requests PROVE HoldsClaim(x)'
    BY <1>4, <1>6, <1>10, <2>1 DEF IInv, Claims, HoldsClaim
  <2>2. ASSUME NEW x \in Requests, NEW y \in Requests PROVE Alone(x, y)'
    BY <1>10, <2>2 DEF IInv, Claims, Alone
  <2>3. ASSUME NEW g \in Headers PROVE AnswerHolds(g)'
    <3>1. CASE g = h
      <4> SUFFICES ASSUME Admits(h.payment)
                   PROVE  /\ Key(h) \in DOMAIN seen
                          /\ expires[h.payment] <= seen[Key(h)] + BlockLife
                          /\ \A s \in Requests : Active(s)' => KeyOf(s)' # Key(h)
        BY <1>4, <3>1 DEF AnswerHolds, Admits
      <4>1. Active(r)
        BY <1>2, <1>8 DEF Active
      <4>2. Key(h) \in DOMAIN seen /\ seen[Key(h)] = tasks[r].since
        BY <1>8, <4>1 DEF IInv, Claims, HoldsClaim
      <4>3. expires[h.payment] <= tasks[r].since + BlockLife
        BY <1>2, <1>8 DEF IInv, Times
      <4>4. \A s \in Requests : Active(s)' => KeyOf(s)' # Key(h)
        BY <1>8, <1>10, <4>1 DEF IInv, Claims, Alone
      <4>5. QED BY <4>2, <4>3, <4>4
    <3>2. CASE g # h
      <4>1. AnswerHolds(g) /\ answered'[g] = answered[g]
        BY <1>5, <3>2 DEF IInv, Claims
      <4>2. \A s \in Requests : Active(s)' => Active(s) /\ KeyOf(s)' = KeyOf(s)
        BY <1>10
      <4>3. QED BY <1>4, <4>1, <4>2 DEF AnswerHolds, Admits
    <3>3. QED BY <3>1, <3>2
  <2>4. QED BY <2>1, <2>2, <2>3 DEF Claims
<1>12. Times'
  <2>1. \A x \in Requests : tasks'[x] # Idle => x # r /\ tasks[x] # Idle
    BY <1>6
  <2>2. QED BY <1>4, <1>6, <1>10, <2>1 DEF IInv, Times
<1>13. ASSUME NEW g \in Headers PROVE SentOnce(g)'
  <2>1. SentOnce(g)
    BY DEF IInv
  <2>2. CASE g = h
    <3>1. answered[h] = 0 /\ answered'[h] = 1
      BY <1>5, <1>8, <2>1, <2>2 DEF SentOnce
    <3>2. \A x \in Requests : ~Sent(x, h)'
      BY <1>8, <1>10, <2>1, <2>2 DEF SentOnce
    <3>3. QED BY <2>2, <3>1, <3>2 DEF SentOnce
  <2>3. CASE g # h
    BY <1>5, <1>10, <2>1, <2>3 DEF SentOnce
  <2>4. QED BY <2>2, <2>3
<1>14. AnsweredIsPaid'
  <2>1. chain[h.payment] = "landed"
    BY <1>2, <1>8 DEF IInv, AnsweredIsPaid
  <2>2. \A g \in Headers : answered'[g] > 0 => chain'[g.payment] = "landed"
    BY <1>4, <1>5, <2>1 DEF IInv, AnsweredIsPaid
  <2>3. \A x \in Requests : At(x, "serving")' => chain'[PaymentOf(x)'] = "landed"
    BY <1>4, <1>10 DEF IInv, AnsweredIsPaid
  <2>4. QED BY <2>2, <2>3 DEF AnsweredIsPaid
<1>15. QED BY <1>7, <1>11, <1>12, <1>13, <1>14 DEF IInv

(* A restart forgets the claims, and with them every request and answer.   *)
LEMMA RestartStep ==
  ASSUME IInv, Restart
  PROVE  IInv'
<1>1. /\ DOMAIN seen' = {} /\ seen' \in [{} -> Nat]
      /\ UNCHANGED <<clock, chain, expires, arrivals>> /\ restarts' \in Nat
      /\ \A h \in Headers : answered'[h] = 0
      /\ answered' \in [Headers -> Nat]
      /\ \A r \in Requests : tasks'[r] = Idle
      /\ tasks' \in [Requests -> {Idle} \cup Tasks]
  BY DEF Restart, IInv, TypeOK
<1>2. TypeOK'
  BY <1>1 DEF IInv, TypeOK
<1>3. \A r \in Requests : tasks'[r].at = "idle"
  BY <1>1 DEF Idle
<1>4. \A r \in Requests : ~Active(r)' /\ ~At(r, "serving")' /\ \A h : ~Sent(r, h)'
  BY <1>3 DEF Active, Sent, Settling, At
<1>5. Times'
  BY <1>1 DEF IInv, Times
<1>6. Claims'
  BY <1>1, <1>4 DEF Claims, HoldsClaim, Alone, AnswerHolds
<1>7. (\A h \in Headers : SentOnce(h)') /\ AnsweredIsPaid'
  BY <1>1, <1>4 DEF SentOnce, AnsweredIsPaid
<1>8. QED BY <1>2, <1>5, <1>6, <1>7 DEF IInv

LEMMA StutterStep ==
  ASSUME IInv, UNCHANGED vars
  PROVE  IInv'
<1>1. UNCHANGED <<clock, seen, tasks, chain, expires, answered, arrivals, restarts>>
  BY DEF vars
<1>2. TypeOK' /\ clock' >= clock
  BY <1>1 DEF IInv, TypeOK
<1>3. \A x \in Requests : Settling(x)' => clock' <= tasks[x].since + Patience
  BY <1>1, StillSettling
<1>4. QED BY <1>1, <1>2, <1>3, ShrinkStep

LEMMA NextStep == IInv /\ [Next]_vars => IInv'
<1> SUFFICES ASSUME IInv, [Next]_vars PROVE IInv'
  OBVIOUS
<1>1. CASE Tick
  BY <1>1, TickStep
<1>2. CASE \E p \in Payments : Build(p) \/ Lands(p)
  BY <1>2, BuildStep, LandsStep
<1>3. ASSUME NEW r \in Requests,
             \/ \E h \in Headers : Arrive(r, h)
             \/ RejectLocally(r)
             \/ Send(r)
             \/ SendFails(r)
             \/ Confirmed(r)
             \/ ConfirmFails(r)
             \/ Serve(r)
             \/ Drop(r)
      PROVE  IInv'
  BY <1>3, ArriveStep, ReleasedStep, SendStep, ConfirmedStep, ServeStep, DropStep
<1>4. CASE Restart
  BY <1>4, RestartStep
<1>5. CASE UNCHANGED vars
  BY <1>5, StutterStep
<1>6. QED BY <1>1, <1>2, <1>3, <1>4, <1>5 DEF Next

LEMMA InvariantHolds == Spec => []IInv
<1>1. QED BY InitIInv, NextStep, PTL DEF Spec

(* Every variable of the gate keeps its type.                              *)
THEOREM TypeCorrect == Spec => []TypeOK
<1>1. IInv => TypeOK
  BY DEF IInv
<1>2. QED BY <1>1, InvariantHolds, PTL

(* However requests race, fail, are dropped and come again, the process    *)
(* answers one request at most for a header, whatever other payments have  *)
(* its key: the claim, given back after errors and forgotten after         *)
(* SPENT_TTL, is enough.                                                   *)
THEOREM OneHeaderOneAnswerHolds == Spec => []OneHeaderOneAnswer
<1>1. IInv => OneHeaderOneAnswer
  BY DEF IInv, SentOnce, OneHeaderOneAnswer
<1>2. QED BY <1>1, InvariantHolds, PTL

(* Settle, then serve: a request is answered for a payment on chain only.  *)
THEOREM AnsweredIsPaidHolds == Spec => []AnsweredIsPaid
<1>1. IInv => AnsweredIsPaid
  BY DEF IInv
<1>2. QED BY <1>1, InvariantHolds, PTL

(* Until its settlement is over and its payment can land no more, a        *)
(* request has its claim and is alone with its key.                        *)
THEOREM WorkerHoldsClaimHolds == Spec => []WorkerHoldsClaim
<1>1. IInv => WorkerHoldsClaim
  BY DEF IInv, Claims, HoldsClaim, Alone, WorkerHoldsClaim
<1>2. QED BY <1>1, InvariantHolds, PTL
=============================================================================
