----------------------------- MODULE DisputeProofs -----------------------------
(***************************************************************************)
(* What is awarded once the settlement machine has decided a bond: by the  *)
(* DisputeCoordinator to challengers and agents, for any threads, stakes   *)
(* and pool; and what the OptimisticSettler pays, for any tasks, routing,  *)
(* errors and repeated calls.                                              *)
(***************************************************************************)
EXTENDS DisputeCoordinator, OptimisticSettler, SumLemmas

-----------------------------------------------------------------------------
(* Products.                                                               *)
LEMMA TimesDistributes ==
  ASSUME NEW c \in Int, NEW a \in Int, NEW b \in Int
  PROVE  c * (a + b) = c * a + c * b
OBVIOUS

LEMMA QuotientBound ==
  ASSUME NEW a \in Nat, NEW t \in Nat \ {0}
  PROVE  a \div t \in Nat /\ t * (a \div t) <= a
OBVIOUS

LEMMA Cancels ==
  ASSUME NEW t \in Nat \ {0}, NEW a \in Nat, NEW b \in Nat, t * a <= t * b
  PROVE  a <= b
OBVIOUS

LEMMA ProductIsInt ==
  ASSUME NEW a \in Int, NEW b \in Int PROVE a * b \in Int
OBVIOUS

LEMMA ProductIsNat ==
  ASSUME NEW a \in Nat, NEW b \in Nat PROVE a * b \in Nat
OBVIOUS

LEMMA ProductGrows ==
  ASSUME NEW c \in Nat, NEW a \in Nat, NEW b \in Nat, a <= b
  PROVE  c * a <= c * b
OBVIOUS

LEMMA SaturatedBound ==
  ASSUME NEW x \in Nat PROVE Saturated(x) \in Nat /\ Saturated(x) <= x
BY U64Assumption DEF Saturated

-----------------------------------------------------------------------------
(* The challenge book: what a listing's stakes sum to, what it is settled  *)
(* for.                                                                    *)
Listings == [pool : {Pool}, stakes : Seq([who : Challengers, stake : Stakes \ {0}])]

LEMMA StakesOfListing ==
  ASSUME NEW l \in Listings
  PROVE  /\ Len(l.stakes) \in Nat /\ DOMAIN l.stakes = 1 .. Len(l.stakes)
         /\ \A i \in DOMAIN l.stakes : /\ l.stakes[i].who \in Challengers
                                       /\ l.stakes[i].stake \in Nat \ {0}
         /\ IsFiniteSet(DOMAIN l.stakes)
<1>1. PICK V : V = [who : Challengers, stake : Stakes \ {0}]
  OBVIOUS
<1>2. l.stakes \in Seq(V)
  BY <1>1 DEF Listings
<1>3. Len(l.stakes) \in Nat /\ DOMAIN l.stakes = 1 .. Len(l.stakes)
  BY <1>2
<1>4. \A i \in DOMAIN l.stakes : l.stakes[i] \in V
  BY <1>2
<1>5. \A x \in V : x.who \in Challengers /\ x.stake \in Nat \ {0}
  BY <1>1, CoordinatorAssumption
<1>6. IsFiniteSet(DOMAIN l.stakes)
  BY <1>3, FS_Interval
<1>. QED BY <1>3, <1>4, <1>5, <1>6

LEMMA TotalStakeType == ASSUME NEW l \in Listings PROVE TotalStake(l) \in Nat
<1>1. PICK f : f = [i \in DOMAIN l.stakes |-> l.stakes[i].stake]
  OBVIOUS
<1>2. IsFiniteSet(DOMAIN f) /\ \A i \in DOMAIN f : f[i] \in Nat
  BY <1>1, StakesOfListing
<1>3. SumOf(f) \in Nat
  BY <1>2, SumInNat
<1>. QED BY <1>1, <1>3 DEF TotalStake

LEMMA EmptyListing ==
  ASSUME NEW l, l = Listing(Pool)
  PROVE  l \in Listings /\ l.stakes = <<>> /\ TotalStake(l) = 0
<1>1. l \in Listings /\ l.stakes = <<>>
  BY DEF Listing, Listings
<1>2. PICK f : f = [i \in DOMAIN l.stakes |-> l.stakes[i].stake]
  OBVIOUS
<1>3. DOMAIN f = {}
  BY <1>1, <1>2
<1>4. SumOf(f) = 0
  BY <1>3, SumEmpty
<1>5. TotalStake(l) = 0
  BY <1>2, <1>4 DEF TotalStake
<1>. QED BY <1>1, <1>5

(* One challenge more.                                                     *)
LEMMA StakedListing ==
  ASSUME NEW l \in Listings, NEW who \in Challengers, NEW stake \in Stakes \ {0},
         NEW m, m = [pool |-> l.pool, stakes |-> Append(l.stakes, [who |-> who, stake |-> stake])]
  PROVE  m \in Listings /\ m.stakes # <<>> /\ TotalStake(m) = TotalStake(l) + stake
<1>1. PICK n : n = Len(l.stakes)
  OBVIOUS
<1>2. n \in Nat /\ DOMAIN l.stakes = 1 .. n
  BY <1>1, StakesOfListing
<1>3. PICK s : s = Append(l.stakes, [who |-> who, stake |-> stake])
  OBVIOUS
<1>4. m.stakes = s /\ m = [pool |-> l.pool, stakes |-> s]
  BY <1>3
<1>5. /\ s \in Seq([who : Challengers, stake : Stakes \ {0}])
      /\ Len(s) = n + 1 /\ DOMAIN s = 1 .. n + 1
      /\ s[n + 1].stake = stake /\ \A i \in 1 .. n : s[i] = l.stakes[i]
  BY <1>1, <1>2, <1>3 DEF Listings
<1>6. m \in Listings /\ m.stakes # <<>>
  BY <1>2, <1>4, <1>5 DEF Listings
<1>7. PICK f : f = [i \in DOMAIN l.stakes |-> l.stakes[i].stake]
  OBVIOUS
<1>8. PICK g : g = [i \in DOMAIN m.stakes |-> m.stakes[i].stake]
  OBVIOUS
<1>9. IsFiniteSet(DOMAIN f) /\ \A i \in DOMAIN f : f[i] \in Int
  BY <1>7, StakesOfListing
<1>10. n + 1 \notin DOMAIN f /\ DOMAIN g = DOMAIN f \cup {n + 1}
  BY <1>2, <1>4, <1>5, <1>7, <1>8
<1>11. g[n + 1] = stake /\ stake \in Int /\ \A i \in DOMAIN f : g[i] = f[i]
  BY <1>2, <1>4, <1>5, <1>7, <1>8, CoordinatorAssumption
<1>12. SumOf(g) = SumOf(f) + g[n + 1]
  BY <1>9, <1>10, <1>11, SumAdd
<1>. QED BY <1>6, <1>7, <1>8, <1>11, <1>12 DEF TotalStake

(* The shares of a pool: saturated and rounded down they fit in it, so     *)
(* that the last one takes what is left, and together they are the pool.   *)
LEMMA SharesAreThePool ==
  ASSUME NEW l \in Listings, l.stakes # <<>>
  PROVE  /\ TotalStake(l) \in Nat \ {0}
         /\ \A i \in DOMAIN l.stakes : Share(l, i) \in Nat
         /\ \A i \in DOMAIN l.stakes :
              i < Len(l.stakes) => TotalStake(l) * Share(l, i) <= Pool * l.stakes[i].stake
         /\ SumOf([i \in DOMAIN l.stakes |-> Share(l, i)]) = Pool
<1>1. PICK n : n = Len(l.stakes)
  OBVIOUS
<1>2. PICK T : T = TotalStake(l)
  OBVIOUS
<1>3. /\ n \in Nat \ {0} /\ DOMAIN l.stakes = 1 .. n
      /\ \A i \in 1 .. n : l.stakes[i].stake \in Nat \ {0}
  <2>1. n \in Nat /\ DOMAIN l.stakes = 1 .. n
    BY <1>1, StakesOfListing
  <2>2. n # 0
    BY <1>1, <2>1 DEF Listings
  <2>. QED BY <2>1, <2>2, StakesOfListing
<1>4. PICK f : f = [i \in DOMAIN l.stakes |-> l.stakes[i].stake]
  OBVIOUS
<1>5. DOMAIN f = 1 .. n /\ IsFiniteSet(DOMAIN f) /\ \A i \in DOMAIN f : f[i] \in Nat \ {0}
  <2>1. IsFiniteSet(DOMAIN l.stakes)
    BY StakesOfListing
  <2>. QED BY <1>3, <1>4, <2>1
<1>6. T = SumOf(f)
  BY <1>2, <1>4 DEF TotalStake
<1>7. T \in Nat \ {0}
  <2>1. T \in Nat
    BY <1>2, TotalStakeType
  <2>2. \A i \in DOMAIN f : f[i] \in Nat
    BY <1>5
  <2>3. 1 \in DOMAIN f
    BY <1>3, <1>5
  <2>4. f[1] <= SumOf(f)
    BY <1>5, <2>2, <2>3, SumAtLeastTerm
  <2>. QED BY <1>5, <1>6, <2>1, <2>3, <2>4
<1>8. Pool \in Nat /\ l.pool = Pool
  BY CoordinatorAssumption DEF Listings
<1>9. PICK M : M = 1 .. n - 1
  OBVIOUS
<1>10. IsFiniteSet(M) /\ M \subseteq DOMAIN f /\ n \notin M /\ 1 .. n = M \cup {n}
  <2>1. n - 1 \in Int /\ 1 \in Int
    BY <1>3
  <2>2. IsFiniteSet(M)
    BY <1>9, <2>1, FS_Interval
  <2>3. n \notin M /\ 1 .. n = M \cup {n}
    BY <1>3, <1>9
  <2>. QED BY <1>5, <2>2, <2>3
<1>11. PICK p : p = [j \in M |-> ProRata(l, j)]
  OBVIOUS
<1>12. PICK w : w = [j \in M |-> f[j]]
  OBVIOUS
<1>13. ASSUME NEW j \in M
       PROVE  p[j] \in Nat /\ T * p[j] <= Pool * w[j] /\ w[j] \in Nat
  <2>1. f[j] \in Nat /\ f[j] = l.stakes[j].stake /\ w[j] = f[j]
    BY <1>4, <1>5, <1>10, <1>12
  <2>2. PICK a : a = Pool * f[j]
    OBVIOUS
  <2>3. a \in Nat
    BY <1>8, <2>1, <2>2, ProductIsNat
  <2>4. PICK b \in Nat : b = Saturated(a) /\ b <= a
    BY <2>3, SaturatedBound
  <2>5. p[j] = b \div T
    BY <1>2, <1>8, <1>11, <2>1, <2>2, <2>4 DEF ProRata
  <2>6. b \div T \in Nat /\ T * (b \div T) <= b
    BY <1>7, <2>4, QuotientBound
  <2>7. T * (b \div T) \in Nat
    BY <1>7, <2>6, ProductIsNat
  <2>8. T * p[j] <= a
    BY <2>3, <2>4, <2>5, <2>6, <2>7
  <2>. QED BY <2>1, <2>2, <2>5, <2>6, <2>8
<1>14. PICK q : q = [j \in M |-> T * p[j]]
  OBVIOUS
<1>15. PICK r : r = [j \in M |-> Pool * w[j]]
  OBVIOUS
<1>16. PICK d : d = SumOf(p)
  OBVIOUS
<1>17. d \in Nat
  <2>1. IsFiniteSet(DOMAIN p) /\ \A j \in DOMAIN p : p[j] \in Nat
    BY <1>10, <1>11, <1>13
  <2>. QED BY <1>16, <2>1, SumInNat
<1>18. SumOf(w) \in Nat /\ SumOf(w) <= T
  <2>1. IsFiniteSet(DOMAIN w) /\ \A j \in DOMAIN w : w[j] \in Nat
    BY <1>10, <1>12, <1>13
  <2>2. SumOf(w) \in Nat
    BY <2>1, SumInNat
  <2>3. \A i \in DOMAIN f : f[i] \in Nat
    BY <1>5
  <2>4. DOMAIN w \subseteq DOMAIN f /\ \A j \in DOMAIN w : w[j] = f[j]
    BY <1>10, <1>12
  <2>5. SumOf(w) <= SumOf(f)
    BY <1>5, <2>3, <2>4, SumOfPart
  <2>. QED BY <1>6, <2>2, <2>5
<1>19. SumOf(q) = T * d
  <2>1. T \in Int /\ IsFiniteSet(DOMAIN p) /\ DOMAIN q = DOMAIN p
    BY <1>7, <1>10, <1>11, <1>14
  <2>2. \A j \in DOMAIN p : p[j] \in Int
    BY <1>11, <1>13
  <2>3. \A j \in DOMAIN p : q[j] = T * p[j]
    BY <1>11, <1>14
  <2>. QED BY <1>16, <2>1, <2>2, <2>3, SumScaled
<1>20. SumOf(r) = Pool * SumOf(w)
  <2>1. Pool \in Int /\ IsFiniteSet(DOMAIN w) /\ DOMAIN r = DOMAIN w
    BY <1>8, <1>10, <1>12, <1>15
  <2>2. \A j \in DOMAIN w : w[j] \in Int
    BY <1>12, <1>13
  <2>3. \A j \in DOMAIN w : r[j] = Pool * w[j]
    BY <1>12, <1>15
  <2>. QED BY <2>1, <2>2, <2>3, SumScaled
<1>21. SumOf(q) <= SumOf(r)
  <2>1. IsFiniteSet(DOMAIN r) /\ DOMAIN q = DOMAIN r
    BY <1>10, <1>14, <1>15
  <2>2. \A j \in DOMAIN r : r[j] \in Int /\ q[j] \in Int /\ q[j] <= r[j]
    <3>1. SUFFICES ASSUME NEW j \in M PROVE r[j] \in Int /\ q[j] \in Int /\ q[j] <= r[j]
      BY <1>15
    <3>2. p[j] \in Nat /\ w[j] \in Nat /\ T * p[j] <= Pool * w[j]
      BY <1>13
    <3>3. q[j] = T * p[j] /\ r[j] = Pool * w[j]
      BY <1>14, <1>15
    <3>4. T * p[j] \in Nat /\ Pool * w[j] \in Nat
      BY <1>7, <1>8, <3>2, ProductIsNat
    <3>. QED BY <3>2, <3>3, <3>4
  <2>. QED BY <2>1, <2>2, SumMonotone
<1>22. d <= Pool
  <2>1. PICK s \in Nat : s = SumOf(w)
    BY <1>18
  <2>2. Pool * s <= Pool * T
    BY <1>7, <1>8, <1>18, <2>1, ProductGrows
  <2>3. T * d <= Pool * s
    BY <1>19, <1>20, <1>21, <2>1
  <2>4. T * d \in Nat /\ Pool * s \in Nat /\ Pool * T \in Nat /\ Pool * T = T * Pool
    BY <1>7, <1>8, <1>17, ProductIsNat
  <2>5. T * d <= T * Pool
    BY <2>2, <2>3, <2>4
  <2>. QED BY <1>7, <1>8, <1>17, <2>5, Cancels
<1>23. PICK s : s = [i \in DOMAIN l.stakes |-> Share(l, i)]
  OBVIOUS
<1>24. \A j \in M : s[j] = p[j] /\ Share(l, j) = p[j]
  <2>1. SUFFICES ASSUME NEW j \in M PROVE s[j] = p[j] /\ Share(l, j) = p[j]
    OBVIOUS
  <2>2. j \in 1 .. n /\ j < n
    BY <1>3, <1>9
  <2>3. Share(l, j) = ProRata(l, j)
    BY <1>1, <2>2 DEF Share
  <2>. QED BY <1>3, <1>11, <1>23, <2>2, <2>3
<1>25. s[n] = Pool - d /\ Share(l, n) = Pool - d
  <2>1. n \in 1 .. n /\ ~(n < n)
    BY <1>3
  <2>2. SumOf([j \in 1 .. Len(l.stakes) - 1 |-> ProRata(l, j)]) = d
    BY <1>1, <1>9, <1>11, <1>16
  <2>3. Share(l, n) = Pool - d
    BY <1>1, <1>8, <2>1, <2>2 DEF Share
  <2>. QED BY <1>3, <1>23, <2>1, <2>3
<1>26. \A i \in DOMAIN l.stakes : Share(l, i) \in Nat
  <2>1. Pool - d \in Nat
    BY <1>8, <1>17, <1>22
  <2>. QED BY <1>3, <1>10, <1>13, <1>24, <1>25, <2>1
<1>27. SumOf(s) = SumOf(p) + s[n]
  <2>1. IsFiniteSet(DOMAIN p) /\ n \notin DOMAIN p /\ DOMAIN s = DOMAIN p \cup {n}
    BY <1>3, <1>10, <1>11, <1>23
  <2>2. \A j \in DOMAIN p : p[j] \in Int
    BY <1>11, <1>13
  <2>3. s[n] \in Int /\ \A j \in DOMAIN p : s[j] = p[j]
    BY <1>8, <1>11, <1>17, <1>24, <1>25
  <2>. QED BY <2>1, <2>2, <2>3, SumAdd
<1>28. SumOf(s) = Pool
  BY <1>8, <1>16, <1>17, <1>25, <1>27
<1>29. ASSUME NEW i \in DOMAIN l.stakes, i < Len(l.stakes)
       PROVE  T * Share(l, i) <= Pool * l.stakes[i].stake
  <2>1. i \in M
    BY <1>1, <1>3, <1>9, <1>29
  <2>2. Share(l, i) = p[i] /\ w[i] = l.stakes[i].stake
    BY <1>3, <1>4, <1>12, <1>24, <2>1
  <2>. QED BY <1>13, <2>1, <2>2
<1>. QED BY <1>2, <1>7, <1>23, <1>26, <1>28, <1>29

(* What a listing is settled for.                                          *)
LEMMA HonoredSettlement ==
  ASSUME NEW l \in Listings
  PROVE  Settle(l, "Honored").payouts = <<>> /\ Settle(l, "Honored").premium = TotalStake(l)
BY DEF Settle

LEMMA SlashedSettlement ==
  ASSUME NEW l \in Listings, NEW s, s = Settle(l, "Slashed")
  PROVE  /\ s.premium = 0
         /\ DOMAIN s.payouts = DOMAIN l.stakes
         /\ \A i \in DOMAIN l.stakes : s.payouts[i] \in Nat /\ s.payouts[i] >= l.stakes[i].stake
         /\ PaidOut(s) = TotalStake(l) + (IF l.stakes = <<>> THEN 0 ELSE Pool)
<1>1. PICK g : g = [i \in DOMAIN l.stakes |-> l.stakes[i].stake + Share(l, i)]
  OBVIOUS
<1>2. s.premium = 0 /\ s.payouts = g
  BY <1>1 DEF Settle
<1>3. PICK f : f = [i \in DOMAIN l.stakes |-> l.stakes[i].stake]
  OBVIOUS
<1>4. /\ DOMAIN f = DOMAIN l.stakes /\ DOMAIN g = DOMAIN f /\ IsFiniteSet(DOMAIN f)
      /\ \A i \in DOMAIN f : f[i] \in Nat /\ f[i] = l.stakes[i].stake
  BY <1>1, <1>3, StakesOfListing
<1>5. SumOf(f) = TotalStake(l) /\ TotalStake(l) \in Nat
  BY <1>3, TotalStakeType DEF TotalStake
<1>6. CASE l.stakes = <<>>
  <2>1. DOMAIN f = {}
    BY <1>4, <1>6
  <2>2. SumOf(f) = 0
    BY <2>1, SumEmpty
  <2>3. DOMAIN g = {}
    BY <1>4, <2>1
  <2>4. SumOf(g) = 0
    BY <2>3, SumEmpty
  <2>. QED BY <1>2, <1>4, <1>5, <1>6, <2>1, <2>2, <2>4 DEF PaidOut
<1>7. CASE l.stakes # <<>>
  <2>1. PICK h : h = [i \in DOMAIN l.stakes |-> Share(l, i)]
    OBVIOUS
  <2>2. SumOf(h) = Pool
    BY <1>7, <2>1, SharesAreThePool
  <2>3. DOMAIN h = DOMAIN f /\ \A i \in DOMAIN f : h[i] \in Nat
    BY <1>4, <1>7, <2>1, SharesAreThePool
  <2>4. \A i \in DOMAIN f : g[i] = f[i] + h[i]
    BY <1>1, <1>4, <2>1
  <2>5. \A i \in DOMAIN f : f[i] \in Int /\ h[i] \in Int /\ g[i] = f[i] + h[i]
    BY <1>4, <2>3, <2>4
  <2>6. SumOf(g) = SumOf(f) + SumOf(h)
    BY <1>4, <2>3, <2>5, SumTermwise
  <2>7. PaidOut(s) = TotalStake(l) + Pool
    BY <1>2, <1>5, <2>2, <2>6 DEF PaidOut
  <2>8. \A i \in DOMAIN f : g[i] \in Nat /\ g[i] >= f[i]
    BY <1>4, <2>3, <2>4
  <2>. QED BY <1>2, <1>4, <1>7, <2>7, <2>8
<1>. QED BY <1>6, <1>7

(* Nobody but the last is paid more than its stake weighs.                 *)
LEMMA PaidByWeight ==
  ASSUME NEW l \in Listings, NEW s, s = Settle(l, "Slashed"),
         NEW i \in DOMAIN l.stakes, i < Len(l.stakes)
  PROVE  TotalStake(l) * (s.payouts[i] - l.stakes[i].stake) <= Pool * l.stakes[i].stake
<1>1. PICK x : x = Share(l, i)
  OBVIOUS
<1>2. l.stakes # <<>>
  BY StakesOfListing
<1>3. x \in Nat /\ TotalStake(l) * x <= Pool * l.stakes[i].stake
  BY <1>1, <1>2, SharesAreThePool
<1>4. l.stakes[i].stake \in Nat
  BY StakesOfListing
<1>5. s.payouts[i] = l.stakes[i].stake + x
  BY <1>1 DEF Settle
<1>6. s.payouts[i] - l.stakes[i].stake = x
  BY <1>3, <1>4, <1>5
<1>. QED BY <1>3, <1>6

-----------------------------------------------------------------------------
(* Calls and their shapes.                                                 *)
Verdicts == Digests \X Outcomes

IsCall(c) ==
  \/ c \in CallTypes
  \/ /\ c.at \in {"settle", "count", "read"}
     /\ {"at", "digest", "outcome", "rest"} \subseteq DOMAIN c
     /\ c.digest \in Digests /\ c.outcome \in Outcomes /\ c.rest \subseteq Verdicts

CoordinatorTypes ==
  /\ MachineTypeOK
  /\ clock \in 0 .. MaxTime
  /\ DOMAIN book \subseteq Digests
  /\ \A d \in DOMAIN book : book[d] \in Listings
  /\ DOMAIN calls = Threads
  /\ \A t \in Threads : IsCall(calls[t])
  /\ opened \subseteq Digests /\ scars \subseteq Digests
  /\ begun \in 0 .. MaxChallenges
  /\ posted \in [Challengers -> Nat] /\ repaid \in [Challengers -> Nat]
  /\ premiums \in Nat
  /\ poolOut \in [Digests -> Nat]

(* A thread's next call.                                                   *)
LEMMA CallGoes ==
  ASSUME DOMAIN calls = Threads, \A u \in Threads : IsCall(calls[u]),
         NEW t \in Threads, NEW c, IsCall(c), Goto(t, c)
  PROVE  DOMAIN calls' = Threads /\ \A u \in Threads : IsCall(calls'[u])
BY DEF Goto

LEMMA ReportIsCall ==
  ASSUME NEW rest, rest \subseteq Verdicts, NEW c \in Report(rest)
  PROVE  /\ IsCall(c)
         /\ \/ c = Idle /\ rest = {}
            \/ \E r \in rest : c = [at |-> "settle", digest |-> r[1], outcome |-> r[2], rest |-> rest \ {r}]
<1>1. CASE rest = {}
  BY <1>1 DEF Report, IsCall, CallTypes
<1>2. CASE rest # {}
  <2>1. PICK r \in rest : c = [at |-> "settle", digest |-> r[1], outcome |-> r[2], rest |-> rest \ {r}]
    BY <1>2 DEF Report
  <2>2. r[1] \in Digests /\ r[2] \in Outcomes
    BY DEF Verdicts
  <2>3. IsCall(c)
    BY <2>1, <2>2 DEF IsCall
  <2>. QED BY <2>1, <2>3
<1>. QED BY <1>1, <1>2

(* The machine's methods, other than open.                                 *)
Decides ==
  \/ \E d \in Digests, o \in Outcomes : Provision(d, o, clock)
  \/ \E d \in Digests : FileChallenge(d, clock)
  \/ \E d \in Digests, won \in BOOLEAN : ResolveDispute(d, won)
  \/ \E d \in Digests, o \in Outcomes : ResolveWithProof(d, o)
  \/ \E d \in Digests : Finalize(d, clock)
  \/ Sweep(clock)

(* A bond that was filled: it was provisional, whatever became of it then. *)
WasFilled(e) ==
  \/ e.tag \in {"Provisional", "Disputed"}
  \/ e.tag = "Finalized" /\ e.reason # "DeadlineMissed"

Final(e) == e.tag = "Finalized"

(* What a method may make of an entry: a final one stays, and only a fill, *)
(* by provision, makes an unfilled one filled.                             *)
Onward(e, f) ==
  /\ e.tag # "Absent" => f.tag # "Absent"
  /\ e.tag = "Absent" => f = e
  /\ Final(e) => f = e
  /\ WasFilled(e) => WasFilled(f)

LEMMA EntryFields ==
  ASSUME NEW e \in Entries
  PROVE  /\ e.tag \in {"Absent", "Escrowed", "Provisional", "Disputed", "Finalized"}
         /\ e.deadline \in Nat
         /\ e.tag \in {"Provisional", "Disputed", "Finalized"} => e.outcome \in Outcomes
         /\ e.tag = "Provisional" => e.closes \in Nat
         /\ e.tag = "Finalized" => e.reason \in Reasons
BY DEF Entries, Absent

LEMMA NewEntries ==
  ASSUME NEW dl \in Nat, NEW o \in Outcomes, NEW w \in Nat, NEW r \in Reasons
  PROVE  /\ Escrowed(dl) \in Entries /\ Escrowed(dl).tag = "Escrowed"
         /\ Provisional(dl, o, w) \in Entries /\ Provisional(dl, o, w).tag = "Provisional"
         /\ Finalized(dl, o, r) \in Entries /\ Finalized(dl, o, r).tag = "Finalized"
         /\ Finalized(dl, o, r).outcome = o /\ Finalized(dl, o, r).reason = r
BY DEF Entries, Escrowed, Provisional, Finalized

LEMMA DisputedEntry ==
  ASSUME NEW dl \in Nat, NEW o \in Outcomes
  PROVE  Disputed(dl, o) \in Entries /\ Disputed(dl, o).tag = "Disputed"
BY DEF Entries, Disputed

LEMMA MachineMovesOn ==
  ASSUME MachineTypeOK, clock \in Nat, Decides
  PROVE  MachineTypeOK' /\ \A d \in Digests : Onward(bonds[d], bonds'[d])
<1>1. ASSUME NEW d \in Digests, NEW f \in Entries, bonds' = [bonds EXCEPT ![d] = f],
             bonds[d].tag \notin {"Absent", "Finalized"}, f.tag # "Absent",
             WasFilled(bonds[d]) => WasFilled(f)
      PROVE  MachineTypeOK' /\ \A x \in Digests : Onward(bonds[x], bonds'[x])
  BY <1>1, EntryFields DEF MachineTypeOK, Onward, Final
<1>2. ASSUME NEW d \in Digests PROVE bonds[d] \in Entries
  BY DEF MachineTypeOK
<1>3. ASSUME NEW d \in Digests, NEW o \in Outcomes, Provision(d, o, clock)
      PROVE  MachineTypeOK' /\ \A x \in Digests : Onward(bonds[x], bonds'[x])
  <2>1. PICK f : f = IF Window = 0 THEN Finalized(bonds[d].deadline, o, "WindowElapsed")
                     ELSE Provisional(bonds[d].deadline, o, clock + Window)
    OBVIOUS
  <2>2. bonds[d].tag = "Escrowed" /\ bonds' = [bonds EXCEPT ![d] = f]
    BY <1>3, <2>1 DEF Provision, CanProvision
  <2>3. clock + Window \in Nat /\ bonds[d].deadline \in Nat /\ "WindowElapsed" \in Reasons
    BY <1>2, EntryFields, MachineAssumption DEF Reasons
  <2>4. f \in Entries /\ f.tag # "Absent"
    BY <2>1, <2>3, NewEntries
  <2>5. ~WasFilled(bonds[d])
    BY <2>2 DEF WasFilled
  <2>. QED BY <1>1, <2>2, <2>4, <2>5
<1>4. ASSUME NEW d \in Digests, FileChallenge(d, clock)
      PROVE  MachineTypeOK' /\ \A x \in Digests : Onward(bonds[x], bonds'[x])
  <2>1. PICK f : f = Disputed(bonds[d].deadline, bonds[d].outcome)
    OBVIOUS
  <2>2. bonds[d].tag = "Provisional" /\ bonds' = [bonds EXCEPT ![d] = f]
    BY <1>4, <2>1 DEF FileChallenge, CanFileChallenge
  <2>3. bonds[d].deadline \in Nat /\ bonds[d].outcome \in Outcomes
    BY <1>2, <2>2, EntryFields
  <2>4. f \in Entries /\ f.tag = "Disputed"
    BY <2>1, <2>3, DisputedEntry
  <2>. QED BY <1>1, <2>2, <2>4 DEF WasFilled
<1>5. ASSUME NEW d \in Digests, NEW o \in Outcomes, NEW r \in Reasons \ {"DeadlineMissed"},
             bonds[d].tag \in {"Provisional", "Disputed"},
             bonds' = [bonds EXCEPT ![d] = Finalized(bonds[d].deadline, o, r)]
      PROVE  MachineTypeOK' /\ \A x \in Digests : Onward(bonds[x], bonds'[x])
  <2>1. PICK f : f = Finalized(bonds[d].deadline, o, r)
    OBVIOUS
  <2>2. bonds[d].deadline \in Nat
    BY <1>2, EntryFields
  <2>3. f \in Entries /\ f.tag = "Finalized" /\ f.reason = r
    BY <2>1, <2>2, NewEntries
  <2>. QED BY <1>1, <1>5, <2>1, <2>3 DEF WasFilled
<1>6. "ChallengeUpheld" \in Reasons \ {"DeadlineMissed"} /\ "ChallengeRejected" \in Reasons \ {"DeadlineMissed"}
      /\ "ProofVerified" \in Reasons \ {"DeadlineMissed"} /\ "WindowElapsed" \in Reasons \ {"DeadlineMissed"}
      /\ "DeadlineMissed" \in Reasons /\ "Slashed" \in Outcomes /\ "Honored" \in Outcomes
  BY DEF Reasons, Outcomes
<1>7. ASSUME NEW d \in Digests, NEW won \in BOOLEAN, ResolveDispute(d, won)
      PROVE  MachineTypeOK' /\ \A x \in Digests : Onward(bonds[x], bonds'[x])
  <2>1. bonds[d].tag = "Disputed"
    BY <1>7 DEF ResolveDispute, CanResolveDispute
  <2>2. CASE won
    BY <1>5, <1>6, <1>7, <2>1, <2>2 DEF ResolveDispute
  <2>3. CASE ~won
    BY <1>5, <1>6, <1>7, <2>1, <2>3 DEF ResolveDispute
  <2>. QED BY <2>2, <2>3
<1>8. ASSUME NEW d \in Digests, NEW o \in Outcomes, ResolveWithProof(d, o)
      PROVE  MachineTypeOK' /\ \A x \in Digests : Onward(bonds[x], bonds'[x])
  BY <1>5, <1>6, <1>8 DEF ResolveWithProof, CanResolveWithProof
<1>9. ASSUME NEW d \in Digests, Matured(d, clock)
      PROVE  MaturedEntry(bonds[d]) \in Entries /\ Onward(bonds[d], MaturedEntry(bonds[d]))
  <2>1. PICK e \in Entries : e = bonds[d]
    BY <1>2
  <2>2. PICK f : f = MaturedEntry(e)
    OBVIOUS
  <2>3. CASE e.tag = "Provisional"
    <3>1. f = Finalized(e.deadline, e.outcome, "WindowElapsed")
      BY <2>2, <2>3 DEF MaturedEntry
    <3>2. e.deadline \in Nat /\ e.outcome \in Outcomes
      BY <2>3, EntryFields
    <3>3. f \in Entries /\ f.tag = "Finalized" /\ f.reason = "WindowElapsed" /\ f.outcome = e.outcome
      BY <1>6, <3>1, <3>2, NewEntries
    <3>. QED BY <2>1, <2>2, <2>3, <3>2, <3>3 DEF Onward, WasFilled, Final
  <2>4. CASE e.tag = "Escrowed"
    <3>1. f = Finalized(e.deadline, "Slashed", "DeadlineMissed")
      BY <2>2, <2>4 DEF MaturedEntry
    <3>2. e.deadline \in Nat
      BY EntryFields
    <3>3. f \in Entries /\ f.tag = "Finalized" /\ f.outcome = "Slashed"
      BY <1>6, <3>1, <3>2, NewEntries
    <3>. QED BY <1>6, <2>1, <2>2, <2>4, <3>3 DEF Onward, WasFilled, Final
  <2>. QED BY <1>9, <2>1, <2>3, <2>4 DEF Matured
<1>10. ASSUME NEW e PROVE Onward(e, e)
  BY DEF Onward
<1>11. ASSUME NEW d \in Digests, Finalize(d, clock)
       PROVE  MachineTypeOK' /\ \A x \in Digests : Onward(bonds[x], bonds'[x])
  <2>1. CASE IsFinal(d)
    BY <1>10, <1>11, <2>1 DEF Finalize, MachineTypeOK
  <2>2. CASE ~IsFinal(d)
    <3>1. Matured(d, clock) /\ bonds' = [bonds EXCEPT ![d] = MaturedEntry(bonds[d])]
      BY <1>11, <2>2 DEF Finalize, CanFinalize
    <3>2. PICK f : f = MaturedEntry(bonds[d])
      OBVIOUS
    <3>3. f \in Entries /\ Onward(bonds[d], f)
      BY <1>9, <3>1, <3>2
    <3>4. bonds' = [bonds EXCEPT ![d] = f]
      BY <3>1, <3>2
    <3>. QED BY <1>10, <3>3, <3>4 DEF MachineTypeOK
  <2>. QED BY <2>1, <2>2
<1>12. ASSUME Sweep(clock)
       PROVE  MachineTypeOK' /\ \A x \in Digests : Onward(bonds[x], bonds'[x])
  <2>1. DOMAIN bonds' = Digests /\ bonds' = [d \in Digests |-> bonds'[d]]
    BY <1>12 DEF Sweep
  <2>2. ASSUME NEW d \in Digests PROVE bonds'[d] \in Entries /\ Onward(bonds[d], bonds'[d])
    <3>1. CASE Matured(d, clock)
      <4>1. bonds'[d] = MaturedEntry(bonds[d])
        BY <1>12, <3>1 DEF Sweep
      <4>. QED BY <1>9, <3>1, <4>1
    <3>2. CASE ~Matured(d, clock)
      <4>1. bonds'[d] = bonds[d]
        BY <1>12, <3>2 DEF Sweep
      <4>. QED BY <1>2, <1>10, <4>1
    <3>. QED BY <3>1, <3>2
  <2>. QED BY <2>1, <2>2 DEF MachineTypeOK
<1>. QED BY <1>3, <1>4, <1>7, <1>8, <1>11, <1>12 DEF Decides

-----------------------------------------------------------------------------
(* The step that settles a listing: what leaves the book, what is awarded. *)
Award(l, s, o) == IF o = "Slashed" THEN PaidOut(s) - TotalStake(l) ELSE 0

LEMMA SettlementAddsUp ==
  ASSUME NEW l \in Listings, NEW o \in Outcomes, NEW s, s = Settle(l, o)
  PROVE  /\ s.premium \in Nat
         /\ DOMAIN s.payouts \subseteq DOMAIN l.stakes
         /\ \A i \in DOMAIN s.payouts : s.payouts[i] \in Nat
         /\ PaidOut(s) \in Nat
         /\ Award(l, s, o) \in {0, Pool}
         /\ Award(l, s, o) > 0 => o = "Slashed"
         /\ PaidOut(s) + s.premium = TotalStake(l) + Award(l, s, o)
<1>1. TotalStake(l) \in Nat /\ Pool \in Nat
  BY TotalStakeType, CoordinatorAssumption
<1>2. CASE o = "Slashed"
  <2>1. PICK a : a = IF l.stakes = <<>> THEN 0 ELSE Pool
    OBVIOUS
  <2>2. /\ s.premium = 0
        /\ DOMAIN s.payouts = DOMAIN l.stakes
        /\ \A i \in DOMAIN l.stakes : s.payouts[i] \in Nat
        /\ PaidOut(s) = TotalStake(l) + a
    BY <1>2, <2>1, SlashedSettlement
  <2>3. a \in {0, Pool} /\ a \in Nat
    BY <1>1, <2>1
  <2>4. Award(l, s, o) = a
    BY <1>1, <1>2, <2>2, <2>3 DEF Award
  <2>. QED BY <1>1, <1>2, <2>2, <2>3, <2>4
<1>3. CASE o = "Honored"
  <2>1. s.payouts = <<>> /\ s.premium = TotalStake(l)
    BY <1>3, HonoredSettlement
  <2>2. PICK p : p = s.payouts
    OBVIOUS
  <2>3. DOMAIN p = {}
    BY <2>1, <2>2
  <2>4. SumOf(p) = 0
    BY <2>3, SumEmpty
  <2>5. PaidOut(s) = 0
    BY <2>2, <2>4 DEF PaidOut
  <2>6. Award(l, s, o) = 0
    BY <1>3 DEF Award
  <2>. QED BY <1>1, <2>1, <2>2, <2>3, <2>5, <2>6
<1>. QED BY <1>2, <1>3 DEF Outcomes

(* Each payout goes to one challenger.                                     *)
LEMMA PayoutsHaveOwners ==
  ASSUME NEW l \in Listings, NEW pay, DOMAIN pay \subseteq DOMAIN l.stakes,
         \A i \in DOMAIN pay : pay[i] \in Nat,
         NEW tot, DOMAIN tot = Challengers,
         \A who \in Challengers :
           tot[who] = SumOf([i \in {j \in DOMAIN pay : l.stakes[j].who = who} |-> pay[i]])
  PROVE  /\ \A who \in Challengers : tot[who] \in Nat
         /\ SumOf(tot) = SumOf(pay)
<1>1. IsFiniteSet(DOMAIN pay) /\ \A i \in DOMAIN pay : l.stakes[i].who \in Challengers
  <2>1. IsFiniteSet(DOMAIN l.stakes) /\ \A i \in DOMAIN l.stakes : l.stakes[i].who \in Challengers
    BY StakesOfListing
  <2>. QED BY <2>1, FS_Subset
<1>2. PICK owner : owner = [i \in DOMAIN pay |-> l.stakes[i].who]
  OBVIOUS
<1>3. ASSUME NEW who \in Challengers
      PROVE  tot[who] \in Nat /\ tot[who] = SumOver(pay, {i \in DOMAIN pay : owner[i] = who})
  <2>1. PICK A : A = {i \in DOMAIN pay : owner[i] = who}
    OBVIOUS
  <2>2. A = {j \in DOMAIN pay : l.stakes[j].who = who} /\ IsFiniteSet(A)
    BY <1>1, <1>2, <2>1, FS_Subset
  <2>3. PICK g : g = [i \in A |-> pay[i]]
    OBVIOUS
  <2>4. tot[who] = SumOf(g)
    BY <2>2, <2>3
  <2>5. SumOf(g) = SumOver(g, A)
    BY <2>3, SumIsOverDomain
  <2>6. \A i \in A : g[i] = pay[i]
    BY <2>3
  <2>7. SumOver(g, A) = SumOver(pay, A)
    BY <2>2, <2>6, SumSameTerms
  <2>8. \A i \in DOMAIN g : g[i] \in Nat
    BY <2>1, <2>3
  <2>9. SumOf(g) \in Nat
    BY <2>2, <2>3, <2>8, SumInNat
  <2>. QED BY <2>1, <2>4, <2>5, <2>7, <2>9
<1>4. \A i \in DOMAIN pay : pay[i] \in Int
  OBVIOUS
<1>5. IsFiniteSet(Challengers)
  BY CoordinatorAssumption
<1>6. \A i \in DOMAIN pay : owner[i] \in Challengers
  BY <1>1, <1>2
<1>7. \A who \in Challengers : tot[who] = SumOver(pay, {i \in DOMAIN pay : owner[i] = who})
  BY <1>3
<1>8. SumOf(tot) = SumOf(pay)
  BY <1>1, <1>4, <1>5, <1>6, <1>7, SumByOwner
<1>. QED BY <1>3, <1>8

SettlesListing(t, d, o, s, won) ==
  /\ d = calls[t].digest /\ o = calls[t].outcome /\ calls[t].at = "settle"
  /\ d \in DOMAIN book /\ o \in Outcomes /\ s = Settle(book[d], o)
  /\ DOMAIN book' = DOMAIN book \ {d} /\ \A x \in DOMAIN book' : book'[x] = book[x]
  /\ won \in [Challengers -> Nat] /\ SumOf(won) = PaidOut(s)
  /\ repaid' = [who \in Challengers |-> repaid[who] + won[who]]
  /\ premiums' = premiums + s.premium
  /\ poolOut' = [poolOut EXCEPT ![d] = @ + Award(book[d], s, o)]
  /\ Goto(t, [at |-> IF book[d].stakes = <<>> THEN "read" ELSE "count",
              digest |-> d, outcome |-> o, rest |-> calls[t].rest, settlement |-> s])
  /\ UNCHANGED <<bonds, clock, stats, opened, scars, begun, posted>>

LEMMA ReportSettlesIs ==
  ASSUME CoordinatorTypes, NEW t \in Threads, ReportSettles(t)
  PROVE  \E d, o, s, won : SettlesListing(t, d, o, s, won)
<1>1. PICK d : d = calls[t].digest
  OBVIOUS
<1>2. PICK o : o = calls[t].outcome
  OBVIOUS
<1>3. PICK l : l = book[d]
  OBVIOUS
<1>4. PICK s : s = Settle(l, o)
  OBVIOUS
<1>5. calls[t].at = "settle" /\ d \in DOMAIN book
  BY <1>1 DEF ReportSettles, At, IsListed
<1>6. o \in Outcomes /\ l \in Listings
  BY <1>2, <1>3, <1>5 DEF CoordinatorTypes, IsCall, CallTypes, Idle
<1>7. /\ DOMAIN s.payouts \subseteq DOMAIN l.stakes
      /\ \A i \in DOMAIN s.payouts : s.payouts[i] \in Nat
  BY <1>4, <1>6, SettlementAddsUp
<1>8. PICK pay : pay = s.payouts
  OBVIOUS
<1>9. PICK won : won = [who \in Challengers |->
                          SumOf([i \in {j \in DOMAIN pay : l.stakes[j].who = who} |-> pay[i]])]
  OBVIOUS
<1>10. won \in [Challengers -> Nat] /\ SumOf(won) = PaidOut(s)
  <2>1. DOMAIN won = Challengers
    BY <1>9
  <2>2. \A who \in Challengers :
          won[who] = SumOf([i \in {j \in DOMAIN pay : l.stakes[j].who = who} |-> pay[i]])
    BY <1>9
  <2>3. DOMAIN pay \subseteq DOMAIN l.stakes
    BY <1>7, <1>8
  <2>4. \A i \in DOMAIN pay : pay[i] \in Nat
    BY <1>7, <1>8
  <2>5. \A who \in Challengers : won[who] \in Nat
    BY <1>6, <2>1, <2>2, <2>3, <2>4, PayoutsHaveOwners
  <2>6. SumOf(won) = SumOf(pay)
    BY <1>6, <2>1, <2>2, <2>3, <2>4, PayoutsHaveOwners
  <2>. QED BY <1>8, <1>9, <2>5, <2>6 DEF PaidOut
<1>11. repaid' = [who \in Challengers |-> repaid[who] + won[who]]
  BY <1>1, <1>2, <1>3, <1>4, <1>8, <1>9 DEF ReportSettles
<1>12. DOMAIN book' = DOMAIN book \ {d} /\ \A x \in DOMAIN book' : book'[x] = book[x]
  BY <1>1 DEF ReportSettles, Unlist, Restrict
<1>13. /\ premiums' = premiums + s.premium
       /\ poolOut' = [poolOut EXCEPT ![d] = @ + Award(l, s, o)]
  BY <1>1, <1>2, <1>3, <1>4 DEF ReportSettles, Award
<1>14. Goto(t, [at |-> IF l.stakes = <<>> THEN "read" ELSE "count",
                digest |-> d, outcome |-> o, rest |-> calls[t].rest, settlement |-> s])
  BY <1>1, <1>2, <1>3, <1>4 DEF ReportSettles
<1>15. UNCHANGED <<bonds, clock, stats, opened, scars, begun, posted>>
  BY DEF ReportSettles, machineVars
<1>16. SettlesListing(t, d, o, s, won)
  BY <1>1, <1>2, <1>3, <1>4, <1>5, <1>6, <1>10, <1>11, <1>12, <1>13, <1>14, <1>15 DEF SettlesListing
<1>. QED BY <1>16

-----------------------------------------------------------------------------
(* The step that stakes.                                                   *)
StakesOn(t, d, who, stake) ==
  /\ d = calls[t].digest /\ calls[t].at = "stake"
  /\ d \in DOMAIN book /\ who \in Challengers /\ stake \in Nat \ {0}
  /\ DOMAIN book' = DOMAIN book /\ \A x \in DOMAIN book \ {d} : book'[x] = book[x]
  /\ book'[d] \in Listings /\ book'[d].stakes # <<>>
  /\ TotalStake(book'[d]) = TotalStake(book[d]) + stake
  /\ posted' = [posted EXCEPT ![who] = @ + stake]
  /\ Goto(t, Idle)
  /\ UNCHANGED <<bonds, clock, stats, opened, scars, begun, repaid, premiums, poolOut>>

LEMMA ChallengeStakesIs ==
  ASSUME CoordinatorTypes, NEW t \in Threads, ChallengeStakes(t)
  PROVE  \E d, who, stake : StakesOn(t, d, who, stake)
<1>1. PICK c : c = calls[t]
  OBVIOUS
<1>2. c.at = "stake" /\ c.digest \in Digests /\ c.who \in Challengers /\ c.stake \in Stakes
  <2>1. IsCall(c) /\ c.at = "stake"
    BY <1>1 DEF CoordinatorTypes, ChallengeStakes, At
  <2>. QED BY <2>1 DEF IsCall, CallTypes, Idle
<1>3. PICK d : d = c.digest
  OBVIOUS
<1>4. c.stake # 0 /\ d \in DOMAIN book
  BY <1>1, <1>3 DEF ChallengeStakes, Stake, CanStake, IsListed
<1>5. PICK l \in Listings : l = book[d]
  BY <1>4 DEF CoordinatorTypes
<1>6. PICK s : s = Append(l.stakes, [who |-> c.who, stake |-> c.stake])
  OBVIOUS
<1>7. PICK m : m = [pool |-> l.pool, stakes |-> s]
  OBVIOUS
<1>8. m \in Listings /\ m.stakes # <<>> /\ TotalStake(m) = TotalStake(l) + c.stake
  BY <1>2, <1>4, <1>6, <1>7, StakedListing
<1>9. book' = [book EXCEPT ![d].stakes = s]
  BY <1>1, <1>3, <1>5, <1>6 DEF ChallengeStakes, Stake
<1>10. m = [l EXCEPT !.stakes = s]
  BY <1>7 DEF Listings
<1>11. book'[d] = m /\ DOMAIN book' = DOMAIN book /\ \A x \in DOMAIN book \ {d} : book'[x] = book[x]
  BY <1>4, <1>5, <1>9, <1>10
<1>12. posted' = [posted EXCEPT ![c.who] = @ + c.stake] /\ Goto(t, Idle)
  BY <1>1 DEF ChallengeStakes
<1>13. UNCHANGED <<bonds, clock, stats, opened, scars, begun, repaid, premiums, poolOut>>
  BY DEF ChallengeStakes, machineVars
<1>14. c.stake \in Nat \ {0}
  BY <1>2, <1>4, CoordinatorAssumption
<1>15. StakesOn(t, d, c.who, c.stake)
  BY <1>1, <1>2, <1>3, <1>4, <1>5, <1>8, <1>11, <1>12, <1>13, <1>14 DEF StakesOn
<1>. QED BY <1>15

-----------------------------------------------------------------------------
(* Types.                                                                  *)
LEMMA ReportSettlesTypes ==
  ASSUME CoordinatorTypes, NEW t \in Threads, ReportSettles(t)
  PROVE  CoordinatorTypes'
<1>1. PICK d, o, s, won : SettlesListing(t, d, o, s, won)
  BY ReportSettlesIs
<1>2. PICK l \in Listings : l = book[d]
  BY <1>1 DEF SettlesListing, CoordinatorTypes
<1>3. /\ s.premium \in Nat /\ Award(l, s, o) \in {0, Pool}
  BY <1>1, <1>2, SettlementAddsUp DEF SettlesListing
<1>4. PICK a \in Nat : a = Award(l, s, o)
  BY <1>3, CoordinatorAssumption
<1>5. d \in Digests /\ poolOut \in [Digests -> Nat] /\ poolOut' = [poolOut EXCEPT ![d] = @ + a]
  BY <1>1, <1>2, <1>4 DEF SettlesListing, CoordinatorTypes
<1>6. poolOut' \in [Digests -> Nat]
  BY <1>5
<1>7. repaid' \in [Challengers -> Nat]
  BY <1>1 DEF SettlesListing, CoordinatorTypes
<1>8. premiums' \in Nat
  BY <1>1, <1>3 DEF SettlesListing, CoordinatorTypes
<1>9. DOMAIN book' \subseteq Digests /\ \A x \in DOMAIN book' : book'[x] \in Listings
  BY <1>1 DEF SettlesListing, CoordinatorTypes
<1>10. PICK at \in {"count", "read"} : at = IF book[d].stakes = <<>> THEN "read" ELSE "count"
  OBVIOUS
<1>11. PICK c : c = [at |-> at, digest |-> d, outcome |-> o, rest |-> calls[t].rest, settlement |-> s]
  OBVIOUS
<1>12. calls[t].rest \subseteq Verdicts /\ o \in Outcomes
  <2>1. PICK b : b = calls[t]
    OBVIOUS
  <2>2. IsCall(b) /\ b.at = "settle" /\ o \in Outcomes
    BY <1>1, <2>1 DEF CoordinatorTypes, SettlesListing
  <2>3. b.rest \subseteq Verdicts
    BY <2>2 DEF IsCall, CallTypes, Idle
  <2>. QED BY <2>1, <2>2, <2>3
<1>13. IsCall(c)
  BY <1>5, <1>11, <1>12 DEF IsCall
<1>14. Goto(t, c)
  BY <1>1, <1>10, <1>11 DEF SettlesListing
<1>15. DOMAIN calls' = Threads /\ \A u \in Threads : IsCall(calls'[u])
  BY <1>13, <1>14, CallGoes DEF CoordinatorTypes
<1>. QED BY <1>1, <1>6, <1>7, <1>8, <1>9, <1>15 DEF SettlesListing, CoordinatorTypes, MachineTypeOK

(* Steps that only move a thread along, with or without the machine.       *)
LEMMA CallTypesKept ==
  ASSUME CoordinatorTypes, MachineTypeOK', NEW t \in Threads, NEW c, IsCall(c), Goto(t, c),
         begun' \in 0 .. MaxChallenges,
         UNCHANGED <<clock, book, opened, scars, posted, repaid, premiums, poolOut>>
  PROVE  CoordinatorTypes'
<1>1. DOMAIN calls' = Threads /\ \A u \in Threads : IsCall(calls'[u])
  BY CallGoes DEF CoordinatorTypes
<1>. QED BY <1>1 DEF CoordinatorTypes

LEMMA ListTypes ==
  ASSUME CoordinatorTypes, NEW t \in Threads, OpenList(t) \/ ChallengeStakes(t)
  PROVE  CoordinatorTypes'
<1>1. PICK c : c = calls[t]
  OBVIOUS
<1>2. IsCall(c) /\ IsCall(Idle) /\ Goto(t, Idle)
  BY <1>1 DEF CoordinatorTypes, IsCall, CallTypes, OpenList, ChallengeStakes
<1>3. DOMAIN calls' = Threads /\ \A u \in Threads : IsCall(calls'[u])
  BY <1>2, CallGoes DEF CoordinatorTypes
<1>4. CASE OpenList(t)
  <2>1. c.at = "list" /\ c.digest \in Digests
    BY <1>1, <1>2, <1>4 DEF IsCall, CallTypes, Idle, OpenList, At
  <2>2. Listing(Pool) \in Listings
    BY EmptyListing
  <2>3. DOMAIN book' = DOMAIN book \cup {c.digest}
        /\ \A x \in DOMAIN book' : book'[x] = IF x = c.digest THEN Listing(Pool) ELSE book[x]
    BY <1>1, <1>4 DEF OpenList, List
  <2>. QED BY <1>1, <1>3, <1>4, <2>1, <2>2, <2>3 DEF CoordinatorTypes, OpenList, machineVars, moneyVars, MachineTypeOK
<1>5. CASE ChallengeStakes(t)
  <2>1. PICK x, who, stake : StakesOn(t, x, who, stake)
    BY <1>5, ChallengeStakesIs
  <2>2. \A y \in DOMAIN book' : book'[y] \in Listings
    BY <2>1 DEF StakesOn, CoordinatorTypes
  <2>3. posted' \in [Challengers -> Nat]
    BY <2>1 DEF StakesOn, CoordinatorTypes
  <2>. QED BY <1>3, <2>1, <2>2, <2>3 DEF CoordinatorTypes, StakesOn, MachineTypeOK
<1>. QED BY <1>4, <1>5
-----------------------------------------------------------------------------
(* What the calls know of the bonds they are about, and the book of the    *)
(* bonds it lists, when no digest is opened twice.                         *)
CallFits(c, entries, known) ==
  /\ c.at = "list" => entries[c.digest].tag # "Absent" /\ c.digest \notin known
  /\ c.at \in {"file", "stake"} => WasFilled(entries[c.digest])
  /\ c.at \in {"settle", "count", "read"} =>
       /\ Final(entries[c.digest]) /\ entries[c.digest].outcome = c.outcome
       /\ \A r \in c.rest : Final(entries[r[1]]) /\ entries[r[1]].outcome = r[2]

ListsApart ==
  \A t, u \in Threads :
    calls[t].at = "list" /\ calls[u].at = "list" /\ calls[t].digest = calls[u].digest => t = u

BookOfOpened ==
  /\ \A d \in opened : bonds[d].tag # "Absent"
  /\ DOMAIN book \subseteq opened
  /\ \A d \in Digests : WasFilled(bonds[d]) => d \in opened
  /\ \A d \in DOMAIN book : book[d].stakes # <<>> => WasFilled(bonds[d])

PoolsFollow ==
  \A d \in Digests : poolOut[d] > 0 =>
    /\ poolOut[d] = Pool /\ Final(bonds[d]) /\ bonds[d].outcome = "Slashed"
    /\ d \in opened /\ d \notin DOMAIN book

WillReport(c, d) ==
  \/ c.at = "settle" /\ c.digest = d
  \/ c.at \in {"settle", "count", "read"} /\ \E r \in c.rest : r[1] = d

(* With a zero window provision finalizes, and reports nothing.            *)
Settling ==
  Window # 0 =>
    \A d \in DOMAIN book :
      Final(bonds[d]) /\ WasFilled(bonds[d]) => \E t \in Threads : WillReport(calls[t], d)

Staked(b) == SumOf([d \in DOMAIN b |-> TotalStake(b[d])])

Conserved == SumOf(posted) + SumOf(poolOut) = Staked(book) + SumOf(repaid) + premiums

CoordinatorInv ==
  /\ CoordinatorTypes
  /\ \A t \in Threads : CallFits(calls[t], bonds, opened)
  /\ ListsApart
  /\ BookOfOpened
  /\ PoolsFollow
  /\ Settling
  /\ Conserved

-----------------------------------------------------------------------------
(* A step of thread t that leaves the book and the money alone: it goes to *)
(* c, which reports all that the step decided and all that was still to be *)
(* reported.                                                               *)
CallStep(t, c) ==
  /\ MachineTypeOK' /\ \A d \in Digests : Onward(bonds[d], bonds'[d])
  /\ DOMAIN calls' = Threads /\ calls'[t] = c /\ \A u \in Threads \ {t} : calls'[u] = calls[u]
  /\ begun' \in 0 .. MaxChallenges
  /\ scars' \subseteq Digests
  /\ clock' \in 0 .. MaxTime
  /\ UNCHANGED <<book, opened, posted, repaid, premiums, poolOut>>
  /\ IsCall(c) /\ CallFits(c, bonds', opened)
  /\ c.at = "list" => c = calls[t]
  /\ \A d \in Digests : WasFilled(bonds'[d]) => WasFilled(bonds[d]) \/ d \in opened
  /\ Window # 0 =>
       \A d \in DOMAIN book :
         WasFilled(bonds'[d]) /\ Final(bonds'[d]) /\ (~Final(bonds[d]) \/ WillReport(calls[t], d))
           => WillReport(c, d)

LEMMA CallStepKeeps ==
  ASSUME CoordinatorInv, NEW t \in Threads, NEW c, CallStep(t, c)
  PROVE  CoordinatorInv'
<1>1. CoordinatorTypes'
  BY DEF CoordinatorInv, CoordinatorTypes, CallStep
<1>2. \A d \in Digests : Onward(bonds[d], bonds'[d])
  BY DEF CallStep
<1>3. \A u \in Threads : CallFits(calls'[u], bonds', opened')
  <2>1. ASSUME NEW u \in Threads \ {t} PROVE CallFits(calls'[u], bonds', opened')
    <3>1. PICK x : x = calls[u]
      OBVIOUS
    <3>2. IsCall(x) /\ CallFits(x, bonds, opened) /\ calls'[u] = x /\ opened' = opened
      BY <3>1 DEF CoordinatorInv, CoordinatorTypes, CallStep
    <3>3. x.at \in {"list", "file", "stake", "settle", "count", "read"} => x.digest \in Digests
      BY <3>2 DEF IsCall, CallTypes, Idle
    <3>4. x.at \in {"settle", "count", "read"} => \A r \in x.rest : r[1] \in Digests
      BY <3>2 DEF IsCall, CallTypes, Idle, Verdicts
    <3>5. CallFits(x, bonds', opened)
      BY <1>2, <3>2, <3>3, <3>4 DEF CallFits, Onward
    <3>. QED BY <3>2, <3>5
  <2>2. CallFits(calls'[t], bonds', opened')
    BY DEF CallStep
  <2>. QED BY <2>1, <2>2
<1>4. ListsApart'
  BY DEF CoordinatorInv, ListsApart, CallStep
<1>5. BookOfOpened'
  BY <1>2 DEF CoordinatorInv, CoordinatorTypes, BookOfOpened, CallStep, Onward
<1>6. PoolsFollow'
  BY <1>2 DEF CoordinatorInv, PoolsFollow, CallStep, Onward
<1>7. Settling'
  <2>1. SUFFICES ASSUME Window # 0, NEW d \in DOMAIN book, Final(bonds'[d]), WasFilled(bonds'[d])
                 PROVE  \E u \in Threads : WillReport(calls'[u], d)
    BY DEF Settling, CallStep
  <2>2. CASE Final(bonds[d])
    <3>1. bonds'[d] = bonds[d]
      BY <1>2, <2>2 DEF CoordinatorInv, CoordinatorTypes, Onward
    <3>2. PICK u \in Threads : WillReport(calls[u], d)
      BY <2>1, <2>2, <3>1 DEF CoordinatorInv, Settling
    <3>. QED BY <2>1, <3>2 DEF CallStep
  <2>3. CASE ~Final(bonds[d])
    BY <2>1, <2>3 DEF CallStep
  <2>. QED BY <2>2, <2>3
<1>8. Conserved'
  BY DEF CoordinatorInv, Conserved, CallStep
<1>. QED BY <1>1, <1>3, <1>4, <1>5, <1>6, <1>7, <1>8 DEF CoordinatorInv
-----------------------------------------------------------------------------
(* The steps of that kind.                                                 *)
LEMMA GoesTo ==
  ASSUME CoordinatorTypes, NEW t \in Threads, NEW c, Goto(t, c)
  PROVE  DOMAIN calls' = Threads /\ calls'[t] = c /\ \A u \in Threads \ {t} : calls'[u] = calls[u]
BY DEF CoordinatorTypes, Goto

(* A call between its steps: the machine stays as it is.                   *)
LEMMA QuietStep ==
  ASSUME CoordinatorInv, NEW t \in Threads, NEW c, Goto(t, c),
         IsCall(c), CallFits(c, bonds, opened), c.at # "list",
         \A d \in DOMAIN book : Final(bonds[d]) /\ WillReport(calls[t], d) => WillReport(c, d),
         begun' \in 0 .. MaxChallenges,
         UNCHANGED <<bonds, clock, book, opened, scars, posted, repaid, premiums, poolOut>>
  PROVE  CallStep(t, c)
<1>1. DOMAIN calls' = Threads /\ calls'[t] = c /\ \A u \in Threads \ {t} : calls'[u] = calls[u]
  BY GoesTo DEF CoordinatorInv
<1>2. \A d \in Digests : Onward(bonds[d], bonds'[d])
  BY DEF Onward
<1>. QED BY <1>1, <1>2 DEF CallStep, CoordinatorInv, CoordinatorTypes, MachineTypeOK

(* A call that decides bonds: it was idle, and it reports them all.        *)
LEMMA DecidingStep ==
  ASSUME CoordinatorInv, NEW t \in Threads, calls[t] = Idle, Decides,
         NEW rest, rest \subseteq Verdicts, NEW c \in Report(rest), Goto(t, c),
         \A r \in rest : Final(bonds'[r[1]]) /\ bonds'[r[1]].outcome = r[2],
         \A d \in Digests : Final(bonds'[d]) /\ ~Final(bonds[d]) => \E r \in rest : r[1] = d,
         \A d \in Digests : WasFilled(bonds'[d]) => WasFilled(bonds[d]),
         UNCHANGED <<clock, book, opened, scars, begun, posted, repaid, premiums, poolOut>>
  PROVE  CallStep(t, c)
<1>1. DOMAIN calls' = Threads /\ calls'[t] = c /\ \A u \in Threads \ {t} : calls'[u] = calls[u]
  BY GoesTo DEF CoordinatorInv
<1>2. clock \in Nat
  BY MachineAssumption DEF CoordinatorInv, CoordinatorTypes
<1>3. MachineTypeOK' /\ \A d \in Digests : Onward(bonds[d], bonds'[d])
  BY <1>2, MachineMovesOn DEF CoordinatorInv, CoordinatorTypes
<1>4. IsCall(c)
  BY ReportIsCall
<1>5. \/ c = Idle /\ rest = {}
      \/ \E r \in rest : c = [at |-> "settle", digest |-> r[1], outcome |-> r[2], rest |-> rest \ {r}]
  BY ReportIsCall
<1>6. CallFits(c, bonds', opened)
  BY <1>5 DEF CallFits, Idle
<1>7. c.at # "list" /\ \A r \in rest : WillReport(c, r[1])
  BY <1>5 DEF WillReport, Idle
<1>8. \A d \in Digests : ~WillReport(calls[t], d)
  BY DEF WillReport, Idle
<1>9. DOMAIN book \subseteq Digests
  BY DEF CoordinatorInv, CoordinatorTypes
<1>. QED BY <1>1, <1>3, <1>4, <1>6, <1>7, <1>8, <1>9 DEF CallStep, CoordinatorInv, CoordinatorTypes

LEMMA IdleThread ==
  ASSUME CoordinatorTypes, NEW t \in Threads, calls[t].at = "idle" PROVE calls[t] = Idle
<1>1. PICK c : c = calls[t]
  OBVIOUS
<1>2. IsCall(c) /\ c.at = "idle"
  BY <1>1 DEF CoordinatorTypes
<1>. QED BY <1>1, <1>2 DEF IsCall, CallTypes

LEMMA ProvisionStep ==
  ASSUME CoordinatorInv, NEW t \in Threads, NEW d \in Digests, NEW o \in Outcomes, ProvisionFill(t, d, o)
  PROVE  CallStep(t, calls[t])
<1>1. /\ d \in opened /\ Provision(d, o, clock)
      /\ UNCHANGED <<clock, book, stats, calls, opened, scars, begun, posted, repaid, premiums, poolOut>>
  BY DEF ProvisionFill, marketVars, moneyVars
<1>2. calls[t] = Idle
  BY IdleThread DEF ProvisionFill, At, CoordinatorInv
<1>3. clock \in Nat /\ Decides
  BY <1>1, MachineAssumption DEF CoordinatorInv, CoordinatorTypes, Decides
<1>4. MachineTypeOK' /\ \A x \in Digests : Onward(bonds[x], bonds'[x])
  BY <1>3, MachineMovesOn DEF CoordinatorInv, CoordinatorTypes
<1>5. /\ \A x \in Digests \ {d} : bonds'[x] = bonds[x]
      /\ Window # 0 => ~Final(bonds'[d])
  <2>1. PICK f : f = IF Window = 0 THEN Finalized(bonds[d].deadline, o, "WindowElapsed")
                     ELSE Provisional(bonds[d].deadline, o, clock + Window)
    OBVIOUS
  <2>2. bonds' = [bonds EXCEPT ![d] = f]
    BY <1>1, <2>1 DEF Provision
  <2>3. Window # 0 => f.tag = "Provisional"
    BY <2>1 DEF Provisional
  <2>. QED BY <2>2, <2>3 DEF Final, CoordinatorInv, CoordinatorTypes, MachineTypeOK
<1>6. IsCall(calls[t]) /\ CallFits(calls[t], bonds', opened) /\ calls[t].at # "list"
  BY <1>2 DEF IsCall, CallTypes, CallFits, Idle
<1>7. \A x \in Digests : WasFilled(bonds'[x]) => WasFilled(bonds[x]) \/ x \in opened
  BY <1>1, <1>5
<1>8. \A x \in Digests : ~WillReport(calls[t], x)
  BY <1>2 DEF WillReport, Idle
<1>9. DOMAIN book \subseteq Digests /\ DOMAIN calls = Threads
  BY DEF CoordinatorInv, CoordinatorTypes
<1>. QED BY <1>1, <1>4, <1>5, <1>6, <1>7, <1>8, <1>9 DEF CallStep, CoordinatorInv, CoordinatorTypes
(* What each method that decides makes of an entry.                        *)
LEMMA ResolveDecides ==
  ASSUME MachineTypeOK, NEW d \in Digests, NEW o \in Outcomes, ResolveDispute(d, o = "Slashed")
  PROVE  /\ WasFilled(bonds[d]) /\ Final(bonds'[d]) /\ bonds'[d].outcome = o
         /\ \A x \in Digests \ {d} : bonds'[x] = bonds[x]
<1>1. bonds[d].tag = "Disputed"
  BY DEF ResolveDispute, CanResolveDispute
<1>2. PICK f : f = IF o = "Slashed" THEN Finalized(bonds[d].deadline, "Slashed", "ChallengeUpheld")
                   ELSE Finalized(bonds[d].deadline, "Honored", "ChallengeRejected")
  OBVIOUS
<1>3. f.tag = "Finalized" /\ f.outcome = o
  BY <1>2 DEF Finalized, Outcomes
<1>4. bonds' = [bonds EXCEPT ![d] = f]
  BY <1>2 DEF ResolveDispute
<1>. QED BY <1>1, <1>3, <1>4 DEF WasFilled, Final, MachineTypeOK

LEMMA ProofDecides ==
  ASSUME MachineTypeOK, NEW d \in Digests, NEW o \in Outcomes, ResolveWithProof(d, o)
  PROVE  /\ WasFilled(bonds[d]) /\ Final(bonds'[d]) /\ bonds'[d].outcome = o
         /\ \A x \in Digests \ {d} : bonds'[x] = bonds[x]
<1>1. bonds[d].tag \in {"Provisional", "Disputed"}
  BY DEF ResolveWithProof, CanResolveWithProof
<1>2. PICK f : f = Finalized(bonds[d].deadline, o, "ProofVerified")
  OBVIOUS
<1>3. f.tag = "Finalized" /\ f.outcome = o
  BY <1>2 DEF Finalized
<1>4. bonds' = [bonds EXCEPT ![d] = f]
  BY <1>2 DEF ResolveWithProof
<1>. QED BY <1>1, <1>3, <1>4 DEF WasFilled, Final, MachineTypeOK

LEMMA MaturedBecomes ==
  ASSUME MachineTypeOK, NEW d \in Digests, Matured(d, clock), NEW f, f = MaturedEntry(bonds[d])
  PROVE  Final(f) /\ f.outcome \in Outcomes /\ (WasFilled(f) => WasFilled(bonds[d]))
<1>1. PICK e \in Entries : e = bonds[d]
  BY DEF MachineTypeOK
<1>2. CASE e.tag = "Provisional"
  <2>1. f = Finalized(e.deadline, e.outcome, "WindowElapsed") /\ e.outcome \in Outcomes
    BY <1>1, <1>2, EntryFields DEF MaturedEntry
  <2>. QED BY <1>1, <1>2, <2>1 DEF Finalized, Final, WasFilled
<1>3. CASE e.tag = "Escrowed"
  <2>1. f = Finalized(e.deadline, "Slashed", "DeadlineMissed")
    BY <1>1, <1>3 DEF MaturedEntry
  <2>. QED BY <2>1 DEF Finalized, Final, WasFilled, Outcomes
<1>. QED BY <1>1, <1>2, <1>3 DEF Matured

LEMMA FinalizeDecides ==
  ASSUME MachineTypeOK, NEW d \in Digests, Finalize(d, clock)
  PROVE  /\ Final(bonds'[d]) /\ bonds'[d].outcome \in Outcomes
         /\ WasFilled(bonds'[d]) => WasFilled(bonds[d])
         /\ \A x \in Digests \ {d} : bonds'[x] = bonds[x]
<1>1. CASE IsFinal(d)
  <2>1. bonds' = bonds
    BY <1>1 DEF Finalize
  <2>2. PICK e \in Entries : e = bonds[d]
    BY DEF MachineTypeOK
  <2>3. e.outcome \in Outcomes
    BY <1>1, <2>2, EntryFields DEF IsFinal
  <2>. QED BY <1>1, <2>1, <2>2, <2>3 DEF IsFinal, Final
<1>2. CASE ~IsFinal(d)
  <2>1. Matured(d, clock) /\ bonds' = [bonds EXCEPT ![d] = MaturedEntry(bonds[d])]
    BY <1>2 DEF Finalize, CanFinalize
  <2>2. PICK f : f = MaturedEntry(bonds[d])
    OBVIOUS
  <2>3. Final(f) /\ f.outcome \in Outcomes /\ (WasFilled(f) => WasFilled(bonds[d]))
    BY <2>1, <2>2, MaturedBecomes
  <2>4. bonds' = [bonds EXCEPT ![d] = f]
    BY <2>1, <2>2
  <2>. QED BY <2>3, <2>4 DEF MachineTypeOK
<1>. QED BY <1>1, <1>2

LEMMA SweepDecides ==
  ASSUME MachineTypeOK, Sweep(clock)
  PROVE  /\ \A d \in SweptBy(clock) : /\ Final(bonds'[d]) /\ bonds'[d].outcome \in Outcomes
                                      /\ WasFilled(bonds'[d]) => WasFilled(bonds[d])
         /\ \A d \in Digests \ SweptBy(clock) : bonds'[d] = bonds[d]
<1>1. ASSUME NEW d \in SweptBy(clock)
      PROVE  /\ Final(bonds'[d]) /\ bonds'[d].outcome \in Outcomes
             /\ WasFilled(bonds'[d]) => WasFilled(bonds[d])
  <2>1. d \in Digests /\ Matured(d, clock)
    BY DEF SweptBy
  <2>2. PICK f : f = MaturedEntry(bonds[d])
    OBVIOUS
  <2>3. bonds'[d] = f
    BY <2>1, <2>2 DEF Sweep
  <2>. QED BY <2>1, <2>2, <2>3, MaturedBecomes
<1>2. \A d \in Digests \ SweptBy(clock) : bonds'[d] = bonds[d]
  BY DEF Sweep, SweptBy
<1>. QED BY <1>1, <1>2

LEMMA DecidingCalls ==
  ASSUME CoordinatorInv, NEW t \in Threads,
         \/ SweepCall(t)
         \/ \E d \in Digests :
              FinalizeUnchallenged(t, d) \/ \E o \in Outcomes : ResolveCall(t, d, o) \/ ResolveViaOracle(t, d, o)
  PROVE  \E c : CallStep(t, c)
<1>. MachineTypeOK
  BY DEF CoordinatorInv, CoordinatorTypes
<1>1. ASSUME NEW d \in Digests, NEW o \in Outcomes, Decides,
             NEW c \in Report({<<d, o>>}), Goto(t, c), calls[t] = Idle,
             Final(bonds'[d]), bonds'[d].outcome = o, WasFilled(bonds'[d]) => WasFilled(bonds[d]),
             \A x \in Digests \ {d} : bonds'[x] = bonds[x],
             UNCHANGED <<clock, book, opened, scars, begun, posted, repaid, premiums, poolOut>>
      PROVE  CallStep(t, c)
  <2>1. PICK rest : rest = {<<d, o>>}
    OBVIOUS
  <2>2. rest \subseteq Verdicts
    BY <2>1 DEF Verdicts
  <2>3. c \in Report(rest) /\ \A r \in rest : Final(bonds'[r[1]]) /\ bonds'[r[1]].outcome = r[2]
    BY <1>1, <2>1
  <2>4. \A x \in Digests : Final(bonds'[x]) /\ ~Final(bonds[x]) => \E r \in rest : r[1] = x
    BY <1>1, <2>1
  <2>5. \A x \in Digests : WasFilled(bonds'[x]) => WasFilled(bonds[x])
    BY <1>1
  <2>. QED BY <1>1, <2>2, <2>3, <2>4, <2>5, DecidingStep
<1>2. ASSUME NEW d \in Digests, NEW o \in Outcomes, ResolveCall(t, d, o) PROVE \E c : CallStep(t, c)
  <2>1. PICK c \in Report({<<d, o>>}) : Goto(t, c)
    BY <1>2 DEF ResolveCall
  <2>2. calls[t] = Idle
    BY <1>2, IdleThread DEF ResolveCall, At, CoordinatorInv
  <2>3. ResolveDispute(d, o = "Slashed") /\ Decides
    BY <1>2 DEF ResolveCall, Decides
  <2>4. UNCHANGED <<clock, book, opened, scars, begun, posted, repaid, premiums, poolOut>>
    BY <1>2 DEF ResolveCall, marketVars, moneyVars
  <2>5. CallStep(t, c)
    BY <1>1, <2>1, <2>2, <2>3, <2>4, ResolveDecides
  <2>. QED BY <2>5
<1>3. ASSUME NEW d \in Digests, NEW o \in Outcomes, ResolveViaOracle(t, d, o) PROVE \E c : CallStep(t, c)
  <2>1. PICK c \in Report({<<d, o>>}) : Goto(t, c)
    BY <1>3 DEF ResolveViaOracle
  <2>2. calls[t] = Idle
    BY <1>3, IdleThread DEF ResolveViaOracle, At, CoordinatorInv
  <2>3. ResolveWithProof(d, o) /\ Decides
    BY <1>3 DEF ResolveViaOracle, Decides
  <2>4. UNCHANGED <<clock, book, opened, scars, begun, posted, repaid, premiums, poolOut>>
    BY <1>3 DEF ResolveViaOracle, marketVars, moneyVars
  <2>5. CallStep(t, c)
    BY <1>1, <2>1, <2>2, <2>3, <2>4, ProofDecides
  <2>. QED BY <2>5
<1>4. ASSUME NEW d \in Digests, FinalizeUnchallenged(t, d) PROVE \E c : CallStep(t, c)
  <2>1. PICK o : o = bonds'[d].outcome
    OBVIOUS
  <2>2. PICK c \in Report({<<d, o>>}) : Goto(t, c)
    BY <1>4, <2>1 DEF FinalizeUnchallenged
  <2>3. calls[t] = Idle
    BY <1>4, IdleThread DEF FinalizeUnchallenged, At, CoordinatorInv
  <2>4. Finalize(d, clock) /\ Decides
    BY <1>4 DEF FinalizeUnchallenged, Decides
  <2>5. UNCHANGED <<clock, book, opened, scars, begun, posted, repaid, premiums, poolOut>>
    BY <1>4 DEF FinalizeUnchallenged, marketVars, moneyVars
  <2>6. CallStep(t, c)
    BY <1>1, <2>1, <2>2, <2>3, <2>4, <2>5, FinalizeDecides
  <2>. QED BY <2>6
<1>5. ASSUME SweepCall(t) PROVE \E c : CallStep(t, c)
  <2>1. PICK rest : rest = {<<d, bonds'[d].outcome>> : d \in SweptBy(clock)}
    OBVIOUS
  <2>2. PICK c \in Report(rest) : Goto(t, c)
    BY <1>5, <2>1 DEF SweepCall
  <2>3. calls[t] = Idle
    BY <1>5, IdleThread DEF SweepCall, At, CoordinatorInv
  <2>4. Sweep(clock) /\ Decides
    BY <1>5 DEF SweepCall, Decides
  <2>5. UNCHANGED <<clock, book, opened, scars, begun, posted, repaid, premiums, poolOut>>
    BY <1>5 DEF SweepCall, marketVars, moneyVars
  <2>6. SweptBy(clock) \subseteq Digests
    BY DEF SweptBy
  <2>7. rest \subseteq Verdicts
    BY <2>1, <2>4, <2>6, SweepDecides DEF Verdicts
  <2>8. \A r \in rest : Final(bonds'[r[1]]) /\ bonds'[r[1]].outcome = r[2]
    BY <2>1, <2>4, SweepDecides
  <2>9. \A x \in Digests : Final(bonds'[x]) /\ ~Final(bonds[x]) => \E r \in rest : r[1] = x
    <3>1. SUFFICES ASSUME NEW x \in Digests, Final(bonds'[x]), ~Final(bonds[x])
                   PROVE  \E r \in rest : r[1] = x
      OBVIOUS
    <3>2. x \in SweptBy(clock)
      BY <2>4, <3>1, SweepDecides
    <3>3. <<x, bonds'[x].outcome>> \in rest
      BY <2>1, <3>2
    <3>. QED BY <3>3
  <2>10. \A x \in Digests : WasFilled(bonds'[x]) => WasFilled(bonds[x])
    BY <2>4, SweepDecides
  <2>11. CallStep(t, c)
    BY <2>2, <2>3, <2>4, <2>5, <2>7, <2>8, <2>9, <2>10, DecidingStep
  <2>. QED BY <2>11
<1>. QED BY <1>2, <1>3, <1>4, <1>5
LEMMA ChallengeReads ==
  ASSUME CoordinatorInv, NEW t \in Threads, NEW d \in Digests, NEW who \in Challengers, NEW stake \in Stakes,
         ChallengeReadsState(t, d, who, stake)
  PROVE  \E c : CallStep(t, c)
<1>1. PICK at \in {"file", "stake"} : at = IF bonds[d].tag = "Provisional" THEN "file" ELSE "stake"
  OBVIOUS
<1>2. PICK c : c = [at |-> at, digest |-> d, who |-> who, stake |-> stake]
  OBVIOUS
<1>3. Goto(t, c) /\ bonds[d].tag \in {"Provisional", "Disputed"}
  BY <1>1, <1>2 DEF ChallengeReadsState
<1>4. IsCall(c) /\ CallFits(c, bonds, opened) /\ c.at # "list"
  BY <1>2, <1>3 DEF IsCall, CallTypes, CallFits, WasFilled
<1>5. calls[t] = Idle
  BY IdleThread DEF ChallengeReadsState, At, CoordinatorInv
<1>6. \A x \in DOMAIN book : ~WillReport(calls[t], x)
  BY <1>5 DEF WillReport, Idle
<1>7. begun' \in 0 .. MaxChallenges
  BY CoordinatorAssumption DEF ChallengeReadsState, CoordinatorInv, CoordinatorTypes
<1>8. UNCHANGED <<bonds, clock, book, opened, scars, posted, repaid, premiums, poolOut>>
  BY DEF ChallengeReadsState, machineVars, marketVars, moneyVars
<1>9. CallStep(t, c)
  BY <1>3, <1>4, <1>6, <1>7, <1>8, QuietStep
<1>. QED BY <1>9

LEMMA ChallengeFilesStep ==
  ASSUME CoordinatorInv, NEW t \in Threads, ChallengeFiles(t)
  PROVE  \E c : CallStep(t, c)
<1>1. PICK b : b = calls[t]
  OBVIOUS
<1>2. IsCall(b) /\ b.at = "file"
  BY <1>1 DEF ChallengeFiles, At, CoordinatorInv, CoordinatorTypes
<1>3. b \in [at : {"file", "stake"}, digest : Digests, who : Challengers, stake : Stakes]
  BY <1>2 DEF IsCall, CallTypes, Idle
<1>4. PICK c : c = [b EXCEPT !.at = "stake"]
  OBVIOUS
<1>5. c = [at |-> "stake", digest |-> b.digest, who |-> b.who, stake |-> b.stake]
  BY <1>3, <1>4
<1>6. /\ FileChallenge(b.digest, clock) /\ Goto(t, c)
      /\ UNCHANGED <<clock, book, opened, scars, begun, posted, repaid, premiums, poolOut>>
  BY <1>1, <1>4 DEF ChallengeFiles, marketVars, moneyVars
<1>7. DOMAIN calls' = Threads /\ calls'[t] = c /\ \A u \in Threads \ {t} : calls'[u] = calls[u]
  BY <1>6, GoesTo DEF CoordinatorInv
<1>8. clock \in Nat /\ b.digest \in Digests
  BY <1>3, MachineAssumption DEF CoordinatorInv, CoordinatorTypes
<1>9. MachineTypeOK' /\ \A x \in Digests : Onward(bonds[x], bonds'[x])
  <2>1. Decides
    BY <1>6, <1>8 DEF Decides
  <2>. QED BY <1>8, <2>1, MachineMovesOn DEF CoordinatorInv, CoordinatorTypes
<1>10. /\ WasFilled(bonds[b.digest]) /\ WasFilled(bonds'[b.digest]) /\ ~Final(bonds'[b.digest])
       /\ \A x \in Digests \ {b.digest} : bonds'[x] = bonds[x]
  <2>1. PICK f : f = Disputed(bonds[b.digest].deadline, bonds[b.digest].outcome)
    OBVIOUS
  <2>2. bonds' = [bonds EXCEPT ![b.digest] = f] /\ bonds[b.digest].tag = "Provisional"
    BY <1>6, <2>1 DEF FileChallenge, CanFileChallenge
  <2>3. f.tag = "Disputed"
    BY <2>1 DEF Disputed
  <2>. QED BY <1>8, <2>2, <2>3 DEF WasFilled, Final, CoordinatorInv, CoordinatorTypes, MachineTypeOK
<1>11. IsCall(c) /\ CallFits(c, bonds', opened) /\ c.at # "list"
  BY <1>3, <1>5, <1>10 DEF IsCall, CallTypes, CallFits
<1>12. \A x \in DOMAIN book : ~WillReport(calls[t], x)
  BY <1>1, <1>2 DEF WillReport
<1>13. DOMAIN book \subseteq Digests
  BY DEF CoordinatorInv, CoordinatorTypes
<1>14. CallStep(t, c)
  BY <1>6, <1>7, <1>9, <1>10, <1>11, <1>12, <1>13 DEF CallStep, CoordinatorInv, CoordinatorTypes
<1>. QED BY <1>14

LEMMA ChallengeRefusedStep ==
  ASSUME CoordinatorInv, NEW t \in Threads, ChallengeRefused(t)
  PROVE  \E c : CallStep(t, c)
<1>1. Goto(t, Idle) /\ calls[t].at \in {"file", "stake"}
  BY DEF ChallengeRefused, At
<1>2. UNCHANGED <<bonds, clock, book, opened, scars, begun, posted, repaid, premiums, poolOut>>
  BY DEF ChallengeRefused, machineVars, marketVars, moneyVars
<1>3. IsCall(Idle) /\ CallFits(Idle, bonds, opened) /\ Idle.at # "list"
  BY DEF IsCall, CallTypes, CallFits, Idle
<1>4. \A x \in DOMAIN book : ~WillReport(calls[t], x)
  BY <1>1 DEF WillReport
<1>5. begun' \in 0 .. MaxChallenges
  BY <1>2 DEF CoordinatorInv, CoordinatorTypes
<1>6. CallStep(t, Idle)
  BY <1>1, <1>2, <1>3, <1>4, <1>5, QuietStep
<1>. QED BY <1>6

(* A reporting call: what it has and what it becomes when only its step    *)
(* changes.                                                                *)
LEMMA ReportFields ==
  ASSUME NEW b, IsCall(b), b.at \in {"settle", "count", "read"}, NEW c, c = [b EXCEPT !.at = "read"]
  PROVE  /\ b.digest \in Digests /\ b.outcome \in Outcomes /\ b.rest \subseteq Verdicts
         /\ c.at = "read" /\ c.digest = b.digest /\ c.outcome = b.outcome /\ c.rest = b.rest
         /\ IsCall(c)
<1>1. /\ {"at", "digest", "outcome", "rest"} \subseteq DOMAIN b
      /\ b.digest \in Digests /\ b.outcome \in Outcomes /\ b.rest \subseteq Verdicts
  BY DEF IsCall, CallTypes, Idle
<1>2. /\ DOMAIN c = DOMAIN b /\ c.at = "read"
      /\ c.digest = b.digest /\ c.outcome = b.outcome /\ c.rest = b.rest
  BY <1>1
<1>. QED BY <1>1, <1>2 DEF IsCall

LEMMA ReportMovesOn ==
  ASSUME CoordinatorInv, NEW t \in Threads, ReportFindsNoListing(t) \/ ReportCounts(t)
  PROVE  \E c : CallStep(t, c)
<1>1. PICK b : b = calls[t]
  OBVIOUS
<1>2. PICK c : c = [b EXCEPT !.at = "read"]
  OBVIOUS
<1>3. IsCall(b) /\ CallFits(b, bonds, opened) /\ b.at \in {"settle", "count"}
  BY <1>1 DEF ReportFindsNoListing, ReportCounts, At, CoordinatorInv, CoordinatorTypes
<1>4. Goto(t, c)
  BY <1>1, <1>2 DEF ReportFindsNoListing, ReportCounts
<1>5. UNCHANGED <<bonds, clock, book, opened, scars, begun, posted, repaid, premiums, poolOut>>
  BY DEF ReportFindsNoListing, ReportCounts, machineVars, marketVars, moneyVars
<1>6. c.at = "read" /\ c.digest = b.digest /\ c.outcome = b.outcome /\ c.rest = b.rest /\ IsCall(c)
  BY <1>2, <1>3, ReportFields
<1>7. CallFits(c, bonds, opened)
  BY <1>3, <1>6 DEF CallFits
<1>8. \A x \in DOMAIN book : Final(bonds[x]) /\ WillReport(calls[t], x) => WillReport(c, x)
  <2>1. b.at = "settle" => b.digest \notin DOMAIN book
    BY <1>1, <1>3 DEF ReportFindsNoListing, ReportCounts, At, IsListed
  <2>. QED BY <1>1, <1>3, <1>6, <2>1 DEF WillReport
<1>9. begun' \in 0 .. MaxChallenges
  BY <1>5 DEF CoordinatorInv, CoordinatorTypes
<1>10. CallStep(t, c)
  BY <1>4, <1>5, <1>6, <1>7, <1>8, <1>9, QuietStep
<1>. QED BY <1>10

LEMMA ReportReadsStep ==
  ASSUME CoordinatorInv, NEW t \in Threads, ReportReads(t)
  PROVE  \E c : CallStep(t, c)
<1>1. PICK b : b = calls[t]
  OBVIOUS
<1>2. IsCall(b) /\ CallFits(b, bonds, opened) /\ b.at = "read"
  BY <1>1 DEF ReportReads, At, CoordinatorInv, CoordinatorTypes
<1>3. PICK rest : rest = b.rest
  OBVIOUS
<1>4. rest \subseteq Verdicts /\ Final(bonds[b.digest])
      /\ \A r \in rest : Final(bonds[r[1]]) /\ bonds[r[1]].outcome = r[2]
  BY <1>2, <1>3, ReportFields DEF CallFits
<1>5. PICK c \in Report(rest) : Goto(t, c)
  BY <1>1, <1>3, <1>4 DEF ReportReads, IsFinal, Final
<1>6. UNCHANGED <<bonds, clock, book, opened, scars, begun, posted, repaid, premiums, poolOut>>
  BY DEF ReportReads, machineVars, marketVars, moneyVars
<1>7. /\ IsCall(c)
      /\ \/ c = Idle /\ rest = {}
         \/ \E r \in rest : c = [at |-> "settle", digest |-> r[1], outcome |-> r[2], rest |-> rest \ {r}]
  BY <1>4, ReportIsCall
<1>8. CallFits(c, bonds, opened) /\ c.at # "list"
  BY <1>4, <1>7 DEF CallFits, Idle
<1>9. \A x \in DOMAIN book : Final(bonds[x]) /\ WillReport(calls[t], x) => WillReport(c, x)
  BY <1>1, <1>2, <1>3, <1>7 DEF WillReport, Idle
<1>10. begun' \in 0 .. MaxChallenges
  BY <1>6 DEF CoordinatorInv, CoordinatorTypes
<1>11. CallStep(t, c)
  BY <1>5, <1>6, <1>7, <1>8, <1>9, <1>10, QuietStep
<1>. QED BY <1>11
-----------------------------------------------------------------------------
(* The steps that change the book or the money.                            *)
LEMMA OpenMachineKeeps ==
  ASSUME FreshDigests, CoordinatorInv, NEW t \in Threads, NEW d \in Digests, NEW dl \in Deadlines,
         OpenMachine(t, d, dl)
  PROVE  CoordinatorInv'
<1>1. PICK f : f = Escrowed(dl)
  OBVIOUS
<1>2. f \in Entries /\ f.tag = "Escrowed"
  BY <1>1, MachineAssumption DEF Escrowed, Entries
<1>3. bonds[d].tag = "Absent" /\ bonds' = [bonds EXCEPT ![d] = f]
  BY <1>1 DEF OpenMachine, Open, Absent
<1>4. PICK c : c = [at |-> "list", digest |-> d]
  OBVIOUS
<1>5. Goto(t, c) /\ IsCall(c) /\ calls[t].at = "idle"
  BY <1>4 DEF OpenMachine, At, IsCall, CallTypes
<1>6. UNCHANGED <<clock, book, opened, scars, begun, posted, repaid, premiums, poolOut>>
  BY DEF OpenMachine, marketVars, moneyVars
<1>7. MachineTypeOK' /\ bonds'[d] = f /\ \A x \in Digests \ {d} : bonds'[x] = bonds[x]
  BY <1>2, <1>3 DEF CoordinatorInv, CoordinatorTypes, MachineTypeOK
<1>8. CoordinatorTypes'
  BY <1>5, <1>6, <1>7, CallTypesKept DEF CoordinatorInv, CoordinatorTypes
<1>9. DOMAIN calls' = Threads /\ calls'[t] = c /\ \A u \in Threads \ {t} : calls'[u] = calls[u]
  BY <1>5, GoesTo DEF CoordinatorInv
<1>10. d \notin opened /\ d \notin DOMAIN book
  BY <1>3 DEF CoordinatorInv, BookOfOpened
<1>11. \A u \in Threads : CallFits(calls'[u], bonds', opened')
  <2>1. ASSUME NEW u \in Threads \ {t} PROVE CallFits(calls'[u], bonds', opened')
    <3>1. PICK x : x = calls[u]
      OBVIOUS
    <3>2. IsCall(x) /\ CallFits(x, bonds, opened) /\ calls'[u] = x /\ opened' = opened
      BY <1>6, <1>9, <3>1 DEF CoordinatorInv, CoordinatorTypes
    <3>3. x.at \in {"list", "file", "stake", "settle", "count", "read"} => x.digest \in Digests
      BY <3>2 DEF IsCall, CallTypes, Idle
    <3>4. x.at \in {"settle", "count", "read"} => \A r \in x.rest : r[1] \in Digests
      BY <3>2 DEF IsCall, CallTypes, Idle, Verdicts
    <3>5. CallFits(x, bonds', opened)
      BY <1>3, <1>7, <3>2, <3>3, <3>4 DEF CallFits, WasFilled, Final
    <3>. QED BY <3>2, <3>5
  <2>2. CallFits(c, bonds', opened')
    BY <1>2, <1>4, <1>6, <1>7, <1>10 DEF CallFits
  <2>. QED BY <1>9, <2>1, <2>2
<1>12. ListsApart'
  <2>1. \A u \in Threads : calls[u].at = "list" => calls[u].digest # d
    BY <1>3 DEF CoordinatorInv, CallFits
  <2>. QED BY <1>4, <1>9, <2>1 DEF ListsApart, CoordinatorInv
<1>13. BookOfOpened'
  BY <1>2, <1>3, <1>6, <1>7, <1>10 DEF CoordinatorInv, CoordinatorTypes, BookOfOpened, WasFilled
<1>14. PoolsFollow'
  BY <1>3, <1>6, <1>7 DEF CoordinatorInv, PoolsFollow, Final
<1>15. Settling'
  <2>1. \A x : ~WillReport(calls[t], x)
    BY <1>5 DEF WillReport
  <2>. QED BY <1>6, <1>7, <1>9, <1>10, <2>1 DEF CoordinatorInv, CoordinatorTypes, Settling
<1>16. Conserved'
  BY <1>6 DEF CoordinatorInv, Conserved
<1>. QED BY <1>8, <1>11, <1>12, <1>13, <1>14, <1>15, <1>16 DEF CoordinatorInv

(* Totals: what a challenger or a bond adds.                               *)
LEMMA BookTotals ==
  ASSUME CoordinatorTypes, NEW f, f = [d \in DOMAIN book |-> TotalStake(book[d])]
  PROVE  IsFiniteSet(DOMAIN f) /\ (\A d \in DOMAIN f : f[d] \in Int) /\ SumOf(f) \in Int
<1>1. IsFiniteSet(DOMAIN f)
  BY CoordinatorAssumption, FS_Subset DEF CoordinatorTypes
<1>2. \A d \in DOMAIN f : f[d] \in Int
  BY TotalStakeType DEF CoordinatorTypes
<1>. QED BY <1>1, <1>2, SumInInt

LEMMA LedgerTotals ==
  ASSUME CoordinatorTypes
  PROVE  SumOf(posted) \in Nat /\ SumOf(repaid) \in Nat /\ SumOf(poolOut) \in Nat /\ premiums \in Nat
<1>1. IsFiniteSet(DOMAIN posted) /\ \A c \in DOMAIN posted : posted[c] \in Nat
  BY CoordinatorAssumption DEF CoordinatorTypes
<1>2. IsFiniteSet(DOMAIN repaid) /\ \A c \in DOMAIN repaid : repaid[c] \in Nat
  BY CoordinatorAssumption DEF CoordinatorTypes
<1>3. IsFiniteSet(DOMAIN poolOut) /\ \A c \in DOMAIN poolOut : poolOut[c] \in Nat
  BY CoordinatorAssumption DEF CoordinatorTypes
<1>. QED BY <1>1, <1>2, <1>3, SumInNat DEF CoordinatorTypes

LEMMA OpenListKeeps ==
  ASSUME CoordinatorInv, NEW t \in Threads, OpenList(t)
  PROVE  CoordinatorInv'
<1>1. CoordinatorTypes'
  BY ListTypes DEF CoordinatorInv
<1>2. PICK d : d = calls[t].digest
  OBVIOUS
<1>3. Goto(t, Idle) /\ calls[t].at = "list" /\ opened' = opened \cup {d}
      /\ UNCHANGED <<bonds, clock, posted, repaid, premiums, poolOut>>
  BY <1>2 DEF OpenList, At, machineVars, moneyVars
<1>4. d \in Digests
  <2>1. PICK b : b = calls[t]
    OBVIOUS
  <2>2. IsCall(b) /\ b.at = "list"
    BY <1>3, <2>1 DEF CoordinatorInv, CoordinatorTypes
  <2>. QED BY <1>2, <2>1, <2>2 DEF IsCall, CallTypes, Idle
<1>5. bonds[d].tag # "Absent" /\ d \notin opened /\ d \notin DOMAIN book
  BY <1>2, <1>3 DEF CoordinatorInv, CallFits, BookOfOpened
<1>6. DOMAIN calls' = Threads /\ calls'[t] = Idle /\ \A u \in Threads \ {t} : calls'[u] = calls[u]
  BY <1>3, GoesTo DEF CoordinatorInv
<1>7. PICK l : l = Listing(Pool)
  OBVIOUS
<1>8. l.stakes = <<>> /\ TotalStake(l) = 0
  BY <1>7, EmptyListing
<1>9. DOMAIN book' = DOMAIN book \cup {d} /\ book'[d] = l /\ \A x \in DOMAIN book : book'[x] = book[x]
  BY <1>2, <1>5, <1>7 DEF OpenList, List
<1>10. \A u \in Threads : CallFits(calls'[u], bonds', opened')
  <2>1. CallFits(Idle, bonds', opened')
    BY DEF CallFits, Idle
  <2>2. ASSUME NEW u \in Threads \ {t} PROVE CallFits(calls'[u], bonds', opened')
    <3>1. calls[u].at = "list" => calls[u].digest # d
      BY <1>2, <1>3, <2>2 DEF CoordinatorInv, ListsApart
    <3>. QED BY <1>3, <1>6, <3>1 DEF CoordinatorInv, CallFits
  <2>. QED BY <1>6, <2>1, <2>2
<1>11. ListsApart'
  BY <1>6 DEF CoordinatorInv, ListsApart, Idle
<1>12. BookOfOpened'
  BY <1>3, <1>5, <1>8, <1>9 DEF CoordinatorInv, BookOfOpened
<1>13. ~WasFilled(bonds[d])
  BY <1>4, <1>5 DEF CoordinatorInv, BookOfOpened
<1>14. PoolsFollow'
  BY <1>3, <1>5, <1>9 DEF CoordinatorInv, PoolsFollow
<1>15. Settling'
  <2>1. \A x : ~WillReport(calls[t], x)
    BY <1>3 DEF WillReport
  <2>. QED BY <1>3, <1>6, <1>9, <1>13, <2>1 DEF CoordinatorInv, Settling
<1>16. Conserved'
  <2>1. PICK f : f = [x \in DOMAIN book |-> TotalStake(book[x])]
    OBVIOUS
  <2>2. PICK g : g = [x \in DOMAIN book' |-> TotalStake(book'[x])]
    OBVIOUS
  <2>3. IsFiniteSet(DOMAIN f) /\ (\A x \in DOMAIN f : f[x] \in Int) /\ SumOf(f) \in Int
    BY <2>1, BookTotals DEF CoordinatorInv
  <2>4. d \notin DOMAIN f /\ DOMAIN g = DOMAIN f \cup {d}
    BY <1>5, <1>9, <2>1, <2>2
  <2>5. g[d] = 0 /\ \A x \in DOMAIN f : g[x] = f[x]
    BY <1>8, <1>9, <2>1, <2>2
  <2>6. SumOf(g) = SumOf(f) + g[d]
    BY <2>3, <2>4, <2>5, SumAdd
  <2>7. Staked(book') = Staked(book)
    BY <2>1, <2>2, <2>3, <2>5, <2>6 DEF Staked
  <2>. QED BY <1>3, <2>7 DEF CoordinatorInv, Conserved
<1>. QED BY <1>1, <1>10, <1>11, <1>12, <1>14, <1>15, <1>16 DEF CoordinatorInv

LEMMA StakesKeep ==
  ASSUME CoordinatorInv, NEW t \in Threads, ChallengeStakes(t)
  PROVE  CoordinatorInv'
<1>1. CoordinatorTypes'
  BY ListTypes DEF CoordinatorInv
<1>2. PICK d, who, stake : StakesOn(t, d, who, stake)
  BY ChallengeStakesIs DEF CoordinatorInv
<1>3. /\ d = calls[t].digest /\ calls[t].at = "stake" /\ Goto(t, Idle)
      /\ d \in DOMAIN book /\ who \in Challengers /\ stake \in Nat \ {0}
      /\ DOMAIN book' = DOMAIN book /\ \A x \in DOMAIN book \ {d} : book'[x] = book[x]
      /\ posted' = [posted EXCEPT ![who] = @ + stake]
      /\ UNCHANGED <<bonds, opened, repaid, premiums, poolOut>>
  BY <1>2 DEF StakesOn
<1>4. WasFilled(bonds[d])
  BY <1>3 DEF CoordinatorInv, CallFits
<1>5. DOMAIN calls' = Threads /\ calls'[t] = Idle /\ \A u \in Threads \ {t} : calls'[u] = calls[u]
  BY <1>3, GoesTo DEF CoordinatorInv
<1>6. \A u \in Threads : CallFits(calls'[u], bonds', opened')
  <2>1. CallFits(Idle, bonds', opened')
    BY DEF CallFits, Idle
  <2>. QED BY <1>3, <1>5, <2>1 DEF CoordinatorInv
<1>7. ListsApart'
  BY <1>5 DEF CoordinatorInv, ListsApart, Idle
<1>8. BookOfOpened'
  BY <1>3, <1>4 DEF CoordinatorInv, BookOfOpened
<1>9. PoolsFollow'
  BY <1>3 DEF CoordinatorInv, PoolsFollow
<1>10. Settling'
  <2>1. \A x : ~WillReport(calls[t], x)
    BY <1>3 DEF WillReport
  <2>. QED BY <1>3, <1>5, <2>1 DEF CoordinatorInv, Settling
<1>11. Conserved'
  <2>1. PICK f : f = [x \in DOMAIN book |-> TotalStake(book[x])]
    OBVIOUS
  <2>2. PICK g : g = [x \in DOMAIN book' |-> TotalStake(book'[x])]
    OBVIOUS
  <2>3. IsFiniteSet(DOMAIN f) /\ (\A x \in DOMAIN f : f[x] \in Int) /\ SumOf(f) \in Int
    BY <2>1, BookTotals DEF CoordinatorInv
  <2>4. d \in DOMAIN f /\ DOMAIN g = DOMAIN f
    BY <1>3, <2>1, <2>2
  <2>5. g[d] = f[d] + stake /\ g[d] \in Int /\ \A x \in DOMAIN f \ {d} : g[x] = f[x]
    BY <1>2, <1>3, <2>1, <2>2, <2>3 DEF StakesOn
  <2>6. SumOf(g) = SumOf(f) - f[d] + g[d]
    BY <2>3, <2>4, <2>5, SumUpdate
  <2>7. Staked(book') = Staked(book) + stake
    <3>1. f[d] \in Int
      BY <2>3, <2>4
    <3>2. SumOf(g) = SumOf(f) + stake
      BY <1>3, <2>3, <2>5, <2>6, <3>1
    <3>. QED BY <2>1, <2>2, <3>2 DEF Staked
  <2>8. /\ IsFiniteSet(DOMAIN posted) /\ \A c \in DOMAIN posted : posted[c] \in Int
        /\ who \in DOMAIN posted /\ DOMAIN posted' = DOMAIN posted
        /\ posted'[who] = posted[who] + stake /\ posted'[who] \in Int
        /\ \A c \in DOMAIN posted \ {who} : posted'[c] = posted[c]
    BY <1>3, CoordinatorAssumption DEF CoordinatorInv, CoordinatorTypes
  <2>9. PICK p : p = posted'
    OBVIOUS
  <2>10. SumOf(p) = SumOf(posted) - posted[who] + p[who]
    BY <2>8, <2>9, SumUpdate
  <2>11. SumOf(posted') = SumOf(posted) + stake
    <3>1. SumOf(posted) \in Nat /\ posted[who] \in Int
      BY <2>8, LedgerTotals DEF CoordinatorInv
    <3>. QED BY <1>3, <2>8, <2>9, <2>10, <3>1
  <2>12. Staked(book) \in Int
    BY <2>1, <2>3 DEF Staked
  <2>13. SumOf(posted) \in Nat /\ SumOf(repaid) \in Nat /\ SumOf(poolOut) \in Nat /\ premiums \in Nat
    BY LedgerTotals DEF CoordinatorInv
  <2>14. SumOf(posted) + SumOf(poolOut) = Staked(book) + SumOf(repaid) + premiums
    BY DEF CoordinatorInv, Conserved
  <2>15. (SumOf(posted) + stake) + SumOf(poolOut) = (Staked(book) + stake) + SumOf(repaid) + premiums
    BY <1>3, <2>12, <2>13, <2>14
  <2>. QED BY <1>3, <2>7, <2>11, <2>15 DEF Conserved
<1>. QED BY <1>1, <1>6, <1>7, <1>8, <1>9, <1>10, <1>11 DEF CoordinatorInv
LEMMA SettlesKeep ==
  ASSUME CoordinatorInv, NEW t \in Threads, ReportSettles(t)
  PROVE  CoordinatorInv'
<1>1. CoordinatorTypes'
  BY ReportSettlesTypes DEF CoordinatorInv
<1>2. PICK d, o, s, won : SettlesListing(t, d, o, s, won)
  BY ReportSettlesIs DEF CoordinatorInv
<1>3. PICK b : b = calls[t]
  OBVIOUS
<1>4. /\ d = b.digest /\ o = b.outcome /\ b.at = "settle" /\ d \in DOMAIN book /\ o \in Outcomes
      /\ DOMAIN book' = DOMAIN book \ {d} /\ \A x \in DOMAIN book' : book'[x] = book[x]
      /\ won \in [Challengers -> Nat] /\ SumOf(won) = PaidOut(s)
      /\ repaid' = [who \in Challengers |-> repaid[who] + won[who]]
      /\ premiums' = premiums + s.premium
      /\ UNCHANGED <<bonds, opened, posted>>
  BY <1>2, <1>3 DEF SettlesListing
<1>5. PICK l \in Listings : l = book[d] /\ s = Settle(l, o)
  BY <1>2, <1>4 DEF SettlesListing, CoordinatorInv, CoordinatorTypes
<1>6. PICK a : a = Award(l, s, o)
  OBVIOUS
<1>7. /\ s.premium \in Nat /\ PaidOut(s) \in Nat /\ a \in {0, Pool} /\ (a > 0 => o = "Slashed")
      /\ PaidOut(s) + s.premium = TotalStake(l) + a
  BY <1>4, <1>5, <1>6, SettlementAddsUp
<1>8. a \in Nat
  BY <1>7, CoordinatorAssumption
<1>9. d \in Digests /\ poolOut \in [Digests -> Nat] /\ poolOut' = [poolOut EXCEPT ![d] = @ + a]
  BY <1>2, <1>4, <1>5, <1>6 DEF SettlesListing, CoordinatorInv, CoordinatorTypes
<1>10. PICK at \in {"count", "read"} : at = IF book[d].stakes = <<>> THEN "read" ELSE "count"
  OBVIOUS
<1>11. PICK c : c = [at |-> at, digest |-> d, outcome |-> o, rest |-> b.rest, settlement |-> s]
  OBVIOUS
<1>12. DOMAIN calls' = Threads /\ calls'[t] = c /\ \A u \in Threads \ {t} : calls'[u] = calls[u]
  <2>1. Goto(t, c)
    BY <1>2, <1>3, <1>10, <1>11 DEF SettlesListing
  <2>. QED BY <2>1, GoesTo DEF CoordinatorInv
<1>13. CallFits(b, bonds, opened)
  BY <1>3 DEF CoordinatorInv
<1>14. \A u \in Threads : CallFits(calls'[u], bonds', opened')
  <2>1. CallFits(c, bonds, opened)
    BY <1>4, <1>11, <1>13 DEF CallFits
  <2>. QED BY <1>4, <1>12, <2>1 DEF CoordinatorInv
<1>15. ListsApart'
  BY <1>11, <1>12 DEF CoordinatorInv, ListsApart
<1>16. BookOfOpened'
  BY <1>4 DEF CoordinatorInv, BookOfOpened
<1>17. PoolsFollow'
  <2>1. poolOut[d] = 0
    BY <1>4, <1>9 DEF CoordinatorInv, PoolsFollow
  <2>2. poolOut'[d] = a /\ \A x \in Digests \ {d} : poolOut'[x] = poolOut[x]
    BY <1>8, <1>9, <2>1
  <2>3. Final(bonds[d]) /\ bonds[d].outcome = o /\ d \in opened
    BY <1>4, <1>13 DEF CallFits, CoordinatorInv, BookOfOpened
  <2>. QED BY <1>4, <1>7, <2>2, <2>3 DEF CoordinatorInv, PoolsFollow
<1>18. Settling'
  <2>1. \A x \in DOMAIN book' : WillReport(b, x) => WillReport(c, x)
    BY <1>4, <1>11 DEF WillReport
  <2>. QED BY <1>3, <1>4, <1>12, <2>1 DEF CoordinatorInv, Settling
<1>19. Conserved'
  <2>1. PICK f : f = [x \in DOMAIN book |-> TotalStake(book[x])]
    OBVIOUS
  <2>2. PICK g : g = [x \in DOMAIN book' |-> TotalStake(book'[x])]
    OBVIOUS
  <2>3. IsFiniteSet(DOMAIN f) /\ (\A x \in DOMAIN f : f[x] \in Int) /\ SumOf(f) \in Int
    BY <2>1, BookTotals DEF CoordinatorInv
  <2>4. IsFiniteSet(DOMAIN g) /\ (\A x \in DOMAIN g : g[x] \in Int) /\ SumOf(g) \in Int
    <3>1. DOMAIN g \subseteq DOMAIN f /\ \A x \in DOMAIN g : g[x] = f[x]
      BY <1>4, <2>1, <2>2
    <3>2. IsFiniteSet(DOMAIN g) /\ \A x \in DOMAIN g : g[x] \in Int
      BY <2>3, <3>1, FS_Subset
    <3>. QED BY <3>2, SumInInt
  <2>5. d \notin DOMAIN g /\ DOMAIN f = DOMAIN g \cup {d}
    BY <1>4, <2>1, <2>2
  <2>6. f[d] \in Int /\ \A x \in DOMAIN g : f[x] = g[x]
    BY <1>4, <2>1, <2>2, <2>3
  <2>7. SumOf(f) = SumOf(g) + f[d]
    BY <2>4, <2>5, <2>6, SumAdd
  <2>8. f[d] = TotalStake(l)
    BY <1>4, <1>5, <2>1
  <2>9. Staked(book) = Staked(book') + TotalStake(l) /\ Staked(book') \in Int
    BY <2>1, <2>2, <2>4, <2>7, <2>8 DEF Staked
  <2>10. SumOf(repaid') = SumOf(repaid) + PaidOut(s)
    <3>1. PICK r : r = repaid'
      OBVIOUS
    <3>2. IsFiniteSet(DOMAIN repaid) /\ DOMAIN won = DOMAIN repaid /\ DOMAIN r = DOMAIN repaid
      BY <1>4, <3>1, CoordinatorAssumption DEF CoordinatorInv, CoordinatorTypes
    <3>3. \A x \in DOMAIN repaid : repaid[x] \in Int /\ won[x] \in Int /\ r[x] = repaid[x] + won[x]
      BY <1>4, <3>1 DEF CoordinatorInv, CoordinatorTypes
    <3>4. SumOf(r) = SumOf(repaid) + SumOf(won)
      BY <3>2, <3>3, SumTermwise
    <3>. QED BY <1>4, <3>1, <3>4
  <2>11. SumOf(poolOut') = SumOf(poolOut) + a
    <3>1. PICK p : p = poolOut'
      OBVIOUS
    <3>2. /\ IsFiniteSet(DOMAIN poolOut) /\ \A x \in DOMAIN poolOut : poolOut[x] \in Int
          /\ d \in DOMAIN poolOut /\ DOMAIN p = DOMAIN poolOut
          /\ p[d] = poolOut[d] + a /\ p[d] \in Int
          /\ \A x \in DOMAIN poolOut \ {d} : p[x] = poolOut[x]
      BY <1>8, <1>9, <3>1, CoordinatorAssumption
    <3>3. SumOf(p) = SumOf(poolOut) - poolOut[d] + p[d]
      BY <3>2, SumUpdate
    <3>4. SumOf(poolOut) \in Nat /\ poolOut[d] \in Int
      BY <3>2, LedgerTotals DEF CoordinatorInv
    <3>. QED BY <1>8, <3>1, <3>2, <3>3, <3>4
  <2>12. SumOf(posted) \in Nat /\ SumOf(repaid) \in Nat /\ SumOf(poolOut) \in Nat /\ premiums \in Nat
    BY LedgerTotals DEF CoordinatorInv
  <2>13. SumOf(posted) + SumOf(poolOut) = Staked(book) + SumOf(repaid) + premiums
    BY DEF CoordinatorInv, Conserved
  <2>14. TotalStake(l) \in Nat
    BY TotalStakeType
  <2>15. SumOf(posted) + (SumOf(poolOut) + a)
           = Staked(book') + (SumOf(repaid) + PaidOut(s)) + (premiums + s.premium)
    BY <1>7, <1>8, <2>9, <2>12, <2>13, <2>14
  <2>. QED BY <1>4, <2>10, <2>11, <2>15 DEF Conserved
<1>. QED BY <1>1, <1>14, <1>15, <1>16, <1>17, <1>18, <1>19 DEF CoordinatorInv

-----------------------------------------------------------------------------
(* The initial states, and the steps of the specification.                 *)
LEMMA InitCoordinatorInv ==
  ASSUME Init PROVE CoordinatorInv
<1>1. MachineTypeOK
  BY DEF Init, MachineInit, MachineTypeOK, Entries
<1>2. DOMAIN book = {} /\ \A d \in Digests : bonds[d].tag = "Absent"
  BY DEF Init, MarketInit, MachineInit, Absent
<1>3. CoordinatorTypes
  BY <1>1, <1>2, MachineAssumption, CoordinatorAssumption
     DEF Init, CoordinatorTypes, IsCall, CallTypes
<1>4. \A t \in Threads : CallFits(calls[t], bonds, opened) /\ calls[t].at = "idle"
  BY DEF Init, CallFits, Idle
<1>5. ListsApart /\ BookOfOpened /\ PoolsFollow /\ Settling
  BY <1>2, <1>4 DEF Init, ListsApart, BookOfOpened, PoolsFollow, Settling, WasFilled
<1>6. Conserved
  <2>1. ASSUME NEW S, IsFiniteSet(S), NEW f, f = [x \in S |-> 0] PROVE SumOf(f) = 0
    <3>1. PICK g : g = [x \in S |-> 0 * f[x]]
      OBVIOUS
    <3>2. IsFiniteSet(DOMAIN f) /\ DOMAIN g = DOMAIN f
      BY <2>1, <3>1
    <3>3. \A x \in DOMAIN f : f[x] \in Int
      BY <2>1
    <3>4. \A x \in DOMAIN f : g[x] = 0 * f[x]
      BY <2>1, <3>1
    <3>5. SumOf(g) = 0 * SumOf(f)
      BY <3>2, <3>3, <3>4, SumScaled
    <3>6. SumOf(f) \in Int
      BY <3>2, <3>3, SumInInt
    <3>7. \A x \in DOMAIN f : g[x] = f[x]
      BY <2>1, <3>1
    <3>8. SumOf(g) = SumOf(f)
      BY <3>2, <3>7, SumEqual
    <3>. QED BY <3>5, <3>6, <3>8
  <2>2. SumOf(posted) = 0 /\ SumOf(repaid) = 0 /\ SumOf(poolOut) = 0
    BY <2>1, CoordinatorAssumption DEF Init
  <2>3. PICK f : f = [d \in DOMAIN book |-> TotalStake(book[d])]
    OBVIOUS
  <2>4. DOMAIN f = {}
    BY <1>2, <2>3
  <2>5. SumOf(f) = 0
    BY <2>4, SumEmpty
  <2>6. Staked(book) = 0
    BY <2>3, <2>5 DEF Staked
  <2>. QED BY <2>2, <2>6 DEF Init, Conserved
<1>. QED BY <1>3, <1>4, <1>5, <1>6 DEF CoordinatorInv

LEMMA OthersKeep ==
  ASSUME CoordinatorInv,
         Tick \/ (\E t \in Threads, d \in Digests : MintScar(t, d)) \/ UNCHANGED vars
  PROVE  CoordinatorInv'
<1>1. UNCHANGED <<bonds, book, calls, opened, begun, posted, repaid, premiums, poolOut>>
  BY DEF Tick, MintScar, vars, machineVars, marketVars, moneyVars
<1>2. clock' \in 0 .. MaxTime /\ scars' \subseteq Digests
  BY MachineAssumption DEF Tick, MintScar, vars, machineVars, marketVars, moneyVars, CoordinatorInv, CoordinatorTypes
<1>3. CoordinatorTypes'
  BY <1>1, <1>2 DEF CoordinatorInv, CoordinatorTypes, MachineTypeOK
<1>. QED BY <1>1, <1>3 DEF CoordinatorInv, ListsApart, BookOfOpened, PoolsFollow, Settling, Conserved

LEMMA CoordinatorInvHolds ==
  ASSUME FreshDigests PROVE Spec => []CoordinatorInv
<1>1. Init => CoordinatorInv
  BY InitCoordinatorInv
<1>2. CoordinatorInv /\ [Next]_vars => CoordinatorInv'
  <2>. SUFFICES ASSUME CoordinatorInv, [Next]_vars PROVE CoordinatorInv'
    OBVIOUS
  <2>1. CASE Tick \/ UNCHANGED vars
    BY <2>1, OthersKeep
  <2>2. ASSUME NEW t \in Threads, Continue(t) PROVE CoordinatorInv'
    <3>1. CASE OpenList(t)
      BY <3>1, OpenListKeeps
    <3>2. CASE ChallengeFiles(t)
      BY <3>2, ChallengeFilesStep, CallStepKeeps
    <3>3. CASE ChallengeStakes(t)
      BY <3>3, StakesKeep
    <3>4. CASE ChallengeRefused(t)
      BY <3>4, ChallengeRefusedStep, CallStepKeeps
    <3>5. CASE ReportSettles(t)
      BY <3>5, SettlesKeep
    <3>6. CASE ReportFindsNoListing(t) \/ ReportCounts(t)
      BY <3>6, ReportMovesOn, CallStepKeeps
    <3>7. CASE ReportReads(t)
      BY <3>7, ReportReadsStep, CallStepKeeps
    <3>. QED BY <2>2, <3>1, <3>2, <3>3, <3>4, <3>5, <3>6, <3>7 DEF Continue
  <2>3. ASSUME NEW t \in Threads, SweepCall(t) PROVE CoordinatorInv'
    BY <2>3, DecidingCalls, CallStepKeeps
  <2>4. ASSUME NEW t \in Threads, NEW d \in Digests, NEW dl \in Deadlines, OpenMachine(t, d, dl)
        PROVE  CoordinatorInv'
    BY <2>4, OpenMachineKeeps
  <2>5. ASSUME NEW t \in Threads, NEW d \in Digests, NEW o \in Outcomes, ProvisionFill(t, d, o)
        PROVE  CoordinatorInv'
    BY <2>5, ProvisionStep, CallStepKeeps
  <2>6. ASSUME NEW t \in Threads, NEW d \in Digests, NEW o \in Outcomes,
               ResolveCall(t, d, o) \/ ResolveViaOracle(t, d, o)
        PROVE  CoordinatorInv'
    BY <2>6, DecidingCalls, CallStepKeeps
  <2>7. ASSUME NEW t \in Threads, NEW d \in Digests, NEW who \in Challengers, NEW s \in Stakes,
               ChallengeReadsState(t, d, who, s)
        PROVE  CoordinatorInv'
    BY <2>7, ChallengeReads, CallStepKeeps
  <2>8. ASSUME NEW t \in Threads, NEW d \in Digests, FinalizeUnchallenged(t, d)
        PROVE  CoordinatorInv'
    BY <2>8, DecidingCalls, CallStepKeeps
  <2>9. ASSUME NEW t \in Threads, NEW d \in Digests, MintScar(t, d)
        PROVE  CoordinatorInv'
    BY <2>9, OthersKeep
  <2>. QED BY <2>1, <2>2, <2>3, <2>4, <2>5, <2>6, <2>7, <2>8, <2>9 DEF Next
<1>. QED BY <1>1, <1>2, PTL DEF Spec

LEMMA TypesOfCoordinator == ASSUME CoordinatorInv PROVE TypeOK
<1>1. \A d \in DOMAIN book : book[d].stakes \in Seq([who : Challengers, stake : Stakes \ {0}])
  BY DEF CoordinatorInv, CoordinatorTypes, Listings
<1>2. \A t \in Threads : calls[t].at \in {"settle", "count", "read"} \/ calls[t] \in CallTypes
  BY DEF CoordinatorInv, CoordinatorTypes, IsCall
<1>3. poolOut \in [Digests -> {0, Pool}]
  BY DEF CoordinatorInv, CoordinatorTypes, PoolsFollow
<1>. QED BY <1>1, <1>2, <1>3 DEF CoordinatorInv, CoordinatorTypes, TypeOK

(* No stake is lost or made, whatever calls interleave, when no digest is  *)
(* opened twice (coordinator.rs, challenge, report; counter.rs, settle).   *)
THEOREM NoStakeIsLost == ASSUME FreshDigests PROVE Spec => []StakesConserved
<1>1. CoordinatorInv => StakesConserved
  BY TypesOfCoordinator DEF CoordinatorInv, Conserved, Staked, StakesConserved
<1>. QED BY <1>1, CoordinatorInvHolds, PTL

(* Slashed collateral goes to challengers only for a bond that the machine *)
(* slashed, the challengers' slice of it, once (coordinator.rs, report).   *)
THEOREM PoolsAreForSlashes == ASSUME FreshDigests PROVE Spec => []PoolFollowsSlash
<1>1. CoordinatorInv => PoolFollowsSlash
  BY DEF CoordinatorInv, PoolsFollow, PoolFollowsSlash, IsFinal, Final
<1>. QED BY <1>1, CoordinatorInvHolds, PTL

(* A decided bond is listed only while a call is on its way to settle it   *)
(* (counter.rs, open_listings), when there is a dispute window.            *)
THEOREM DecidedAreSettled ==
  ASSUME FreshDigests, Window # 0 PROVE Spec => []DecidedLeavesBook
<1>1. CoordinatorInv => DecidedLeavesBook
  <2>. SUFFICES ASSUME CoordinatorInv, NEW d \in DOMAIN book, IsFinal(d),
                       bonds[d].reason # "DeadlineMissed" \/ book[d].stakes # <<>>
                PROVE  \E t \in Threads : Reporting(t, d)
    BY DEF DecidedLeavesBook
  <2>1. Final(bonds[d]) /\ WasFilled(bonds[d])
    BY DEF IsFinal, Final, WasFilled, CoordinatorInv, BookOfOpened
  <2>. QED BY <2>1 DEF CoordinatorInv, Settling, WillReport, Reporting, At
<1>. QED BY <1>1, CoordinatorInvHolds, PTL
-----------------------------------------------------------------------------
(* The types hold whether or not digests are opened twice.                 *)
LEMMA TypesOfCalls ==
  ASSUME CoordinatorTypes, NEW t \in Threads, MachineTypeOK',
         \E rest : rest \subseteq Verdicts /\ \E c \in Report(rest) : Goto(t, c),
         UNCHANGED <<clock, book, opened, scars, begun, posted, repaid, premiums, poolOut>>
  PROVE  CoordinatorTypes'
<1>1. PICK rest, c : rest \subseteq Verdicts /\ c \in Report(rest) /\ Goto(t, c)
  OBVIOUS
<1>2. IsCall(c)
  BY <1>1, ReportIsCall
<1>3. begun' \in 0 .. MaxChallenges
  BY DEF CoordinatorTypes
<1>. QED BY <1>1, <1>2, <1>3, CallTypesKept

LEMMA DecidingTypes ==
  ASSUME CoordinatorTypes, NEW t \in Threads,
         \/ SweepCall(t)
         \/ \E d \in Digests :
              FinalizeUnchallenged(t, d) \/ \E o \in Outcomes : ResolveCall(t, d, o) \/ ResolveViaOracle(t, d, o)
  PROVE  CoordinatorTypes'
<1>. MachineTypeOK /\ clock \in Nat
  BY MachineAssumption DEF CoordinatorTypes
<1>1. UNCHANGED <<clock, book, opened, scars, begun, posted, repaid, premiums, poolOut>>
  BY DEF SweepCall, FinalizeUnchallenged, ResolveCall, ResolveViaOracle, marketVars, moneyVars
<1>2. Decides
  BY DEF SweepCall, FinalizeUnchallenged, ResolveCall, ResolveViaOracle, Decides
<1>3. MachineTypeOK'
  BY <1>2, MachineMovesOn
<1>4. \E rest : rest \subseteq Verdicts /\ \E c \in Report(rest) : Goto(t, c)
  <2>1. ASSUME NEW d \in Digests, NEW o \in Outcomes, \E c \in Report({<<d, o>>}) : Goto(t, c)
        PROVE  \E rest : rest \subseteq Verdicts /\ \E c \in Report(rest) : Goto(t, c)
    <3>1. {<<d, o>>} \subseteq Verdicts
      BY DEF Verdicts
    <3>. QED BY <2>1, <3>1
  <2>2. ASSUME SweepCall(t)
        PROVE  \E rest : rest \subseteq Verdicts /\ \E c \in Report(rest) : Goto(t, c)
    <3>1. PICK rest : rest = {<<d, bonds'[d].outcome>> : d \in SweptBy(clock)}
      OBVIOUS
    <3>2. Sweep(clock) /\ SweptBy(clock) \subseteq Digests
      BY <2>2 DEF SweepCall, SweptBy
    <3>3. rest \subseteq Verdicts
      BY <3>1, <3>2, SweepDecides DEF Verdicts
    <3>4. \E c \in Report(rest) : Goto(t, c)
      BY <2>2, <3>1 DEF SweepCall
    <3>. QED BY <3>3, <3>4
  <2>3. ASSUME NEW d \in Digests, FinalizeUnchallenged(t, d)
        PROVE  \E rest : rest \subseteq Verdicts /\ \E c \in Report(rest) : Goto(t, c)
    BY <2>1, <2>3, FinalizeDecides DEF FinalizeUnchallenged
  <2>4. ASSUME NEW d \in Digests, NEW o \in Outcomes, ResolveCall(t, d, o) \/ ResolveViaOracle(t, d, o)
        PROVE  \E rest : rest \subseteq Verdicts /\ \E c \in Report(rest) : Goto(t, c)
    BY <2>1, <2>4 DEF ResolveCall, ResolveViaOracle
  <2>. QED BY <2>2, <2>3, <2>4
<1>. QED BY <1>1, <1>3, <1>4, TypesOfCalls

LEMMA OpeningTypes ==
  ASSUME CoordinatorTypes, NEW t \in Threads, NEW d \in Digests, NEW dl \in Deadlines, OpenMachine(t, d, dl)
  PROVE  CoordinatorTypes'
<1>1. Escrowed(dl) \in Entries
  BY MachineAssumption DEF Escrowed, Entries
<1>2. MachineTypeOK'
  BY <1>1 DEF OpenMachine, Open, CoordinatorTypes, MachineTypeOK
<1>3. PICK c : c = [at |-> "list", digest |-> d]
  OBVIOUS
<1>4. Goto(t, c) /\ IsCall(c)
  BY <1>3 DEF OpenMachine, IsCall, CallTypes
<1>5. begun' \in 0 .. MaxChallenges
      /\ UNCHANGED <<clock, book, opened, scars, posted, repaid, premiums, poolOut>>
  BY DEF OpenMachine, CoordinatorTypes, marketVars, moneyVars
<1>. QED BY <1>2, <1>4, <1>5, CallTypesKept

LEMMA ProvisionTypes ==
  ASSUME CoordinatorTypes, NEW t \in Threads, NEW d \in Digests, NEW o \in Outcomes, ProvisionFill(t, d, o)
  PROVE  CoordinatorTypes'
<1>1. Decides /\ clock \in Nat
  BY MachineAssumption DEF ProvisionFill, Decides, CoordinatorTypes
<1>2. MachineTypeOK'
  BY <1>1, MachineMovesOn DEF CoordinatorTypes
<1>. QED BY <1>2 DEF ProvisionFill, CoordinatorTypes, marketVars, moneyVars

LEMMA ChallengeTypes ==
  ASSUME CoordinatorTypes, NEW t \in Threads,
         \/ \E d \in Digests, who \in Challengers, stake \in Stakes : ChallengeReadsState(t, d, who, stake)
         \/ ChallengeFiles(t)
         \/ ChallengeRefused(t)
  PROVE  CoordinatorTypes'
<1>1. ASSUME NEW d \in Digests, NEW who \in Challengers, NEW stake \in Stakes,
             ChallengeReadsState(t, d, who, stake)
      PROVE  CoordinatorTypes'
  <2>1. PICK at \in {"file", "stake"} : at = IF bonds[d].tag = "Provisional" THEN "file" ELSE "stake"
    OBVIOUS
  <2>2. PICK c : c = [at |-> at, digest |-> d, who |-> who, stake |-> stake]
    OBVIOUS
  <2>3. Goto(t, c) /\ IsCall(c)
    BY <1>1, <2>1, <2>2 DEF ChallengeReadsState, IsCall, CallTypes
  <2>4. begun' \in 0 .. MaxChallenges
        /\ UNCHANGED <<bonds, clock, book, opened, scars, posted, repaid, premiums, poolOut>>
    BY <1>1, CoordinatorAssumption DEF ChallengeReadsState, CoordinatorTypes, machineVars, marketVars, moneyVars
  <2>5. MachineTypeOK'
    BY <2>4 DEF CoordinatorTypes, MachineTypeOK
  <2>. QED BY <2>3, <2>4, <2>5, CallTypesKept
<1>2. CASE ChallengeFiles(t)
  <2>1. PICK b : b = calls[t]
    OBVIOUS
  <2>2. IsCall(b) /\ b.at = "file"
    BY <1>2, <2>1 DEF ChallengeFiles, At, CoordinatorTypes
  <2>3. b \in [at : {"file", "stake"}, digest : Digests, who : Challengers, stake : Stakes]
    BY <2>2 DEF IsCall, CallTypes, Idle
  <2>4. PICK c : c = [b EXCEPT !.at = "stake"]
    OBVIOUS
  <2>5. c = [at |-> "stake", digest |-> b.digest, who |-> b.who, stake |-> b.stake]
    BY <2>3, <2>4
  <2>6. IsCall(c)
    BY <2>3, <2>5 DEF IsCall, CallTypes
  <2>7. /\ FileChallenge(b.digest, clock) /\ Goto(t, c)
        /\ UNCHANGED <<clock, book, opened, scars, begun, posted, repaid, premiums, poolOut>>
    BY <1>2, <2>1, <2>4 DEF ChallengeFiles, marketVars, moneyVars
  <2>8. MachineTypeOK'
    <3>1. Decides /\ clock \in Nat
      BY <2>3, <2>7, MachineAssumption DEF Decides, CoordinatorTypes
    <3>. QED BY <3>1, MachineMovesOn DEF CoordinatorTypes
  <2>9. begun' \in 0 .. MaxChallenges
    BY <2>7 DEF CoordinatorTypes
  <2>. QED BY <2>6, <2>7, <2>8, <2>9, CallTypesKept
<1>3. CASE ChallengeRefused(t)
  <2>1. Goto(t, Idle) /\ IsCall(Idle)
    BY <1>3 DEF ChallengeRefused, IsCall, CallTypes
  <2>2. UNCHANGED <<bonds, clock, book, opened, scars, begun, posted, repaid, premiums, poolOut>>
    BY <1>3 DEF ChallengeRefused, machineVars, marketVars, moneyVars
  <2>3. MachineTypeOK' /\ begun' \in 0 .. MaxChallenges
    BY <2>2 DEF CoordinatorTypes, MachineTypeOK
  <2>. QED BY <2>1, <2>2, <2>3, CallTypesKept
<1>. QED BY <1>1, <1>2, <1>3

LEMMA ReportTypes ==
  ASSUME CoordinatorTypes, NEW t \in Threads,
         ReportFindsNoListing(t) \/ ReportCounts(t) \/ ReportReads(t)
  PROVE  CoordinatorTypes'
<1>1. PICK b : b = calls[t]
  OBVIOUS
<1>2. PICK c : c = [b EXCEPT !.at = "read"]
  OBVIOUS
<1>3. IsCall(b) /\ b.at \in {"settle", "count", "read"}
  BY <1>1 DEF ReportFindsNoListing, ReportCounts, ReportReads, At, CoordinatorTypes
<1>4. UNCHANGED <<bonds, clock, book, opened, scars, begun, posted, repaid, premiums, poolOut>>
  BY DEF ReportFindsNoListing, ReportCounts, ReportReads, machineVars, marketVars, moneyVars
<1>5. MachineTypeOK' /\ begun' \in 0 .. MaxChallenges
  BY <1>4 DEF CoordinatorTypes, MachineTypeOK
<1>6. b.rest \subseteq Verdicts /\ IsCall(c)
  BY <1>2, <1>3, ReportFields
<1>7. CASE ReportReads(t)
  <2>1. PICK rest : rest = IF IsFinal(b.digest) THEN b.rest ELSE {}
    OBVIOUS
  <2>2. rest \subseteq Verdicts /\ \E n \in Report(rest) : Goto(t, n)
    BY <1>1, <1>6, <1>7, <2>1 DEF ReportReads
  <2>. QED BY <1>4, <1>5, <2>2, TypesOfCalls
<1>8. CASE ReportFindsNoListing(t) \/ ReportCounts(t)
  <2>1. Goto(t, c)
    BY <1>1, <1>2, <1>8 DEF ReportFindsNoListing, ReportCounts
  <2>. QED BY <1>4, <1>5, <1>6, <2>1, CallTypesKept
<1>. QED BY <1>7, <1>8

LEMMA CoordinatorTypesHold == Spec => []CoordinatorTypes
<1>1. Init => CoordinatorTypes
  BY InitCoordinatorInv DEF CoordinatorInv
<1>2. CoordinatorTypes /\ [Next]_vars => CoordinatorTypes'
  <2>. SUFFICES ASSUME CoordinatorTypes, [Next]_vars PROVE CoordinatorTypes'
    OBVIOUS
  <2>1. CASE Tick \/ UNCHANGED vars
    BY <2>1, MachineAssumption DEF Tick, CoordinatorTypes, MachineTypeOK, vars, marketVars, moneyVars
  <2>2. ASSUME NEW t \in Threads, Continue(t) PROVE CoordinatorTypes'
    BY <2>2, ListTypes, ChallengeTypes, ReportSettlesTypes, ReportTypes DEF Continue
  <2>3. ASSUME NEW t \in Threads, SweepCall(t) PROVE CoordinatorTypes'
    BY <2>3, DecidingTypes
  <2>4. ASSUME NEW t \in Threads, NEW d \in Digests, NEW dl \in Deadlines, OpenMachine(t, d, dl)
        PROVE  CoordinatorTypes'
    BY <2>4, OpeningTypes
  <2>5. ASSUME NEW t \in Threads, NEW d \in Digests, NEW o \in Outcomes, ProvisionFill(t, d, o)
        PROVE  CoordinatorTypes'
    BY <2>5, ProvisionTypes
  <2>6. ASSUME NEW t \in Threads, NEW d \in Digests, NEW o \in Outcomes,
               ResolveCall(t, d, o) \/ ResolveViaOracle(t, d, o) \/ FinalizeUnchallenged(t, d)
        PROVE  CoordinatorTypes'
    BY <2>6, DecidingTypes
  <2>7. ASSUME NEW t \in Threads, NEW d \in Digests, NEW who \in Challengers, NEW s \in Stakes,
               ChallengeReadsState(t, d, who, s)
        PROVE  CoordinatorTypes'
    BY <2>7, ChallengeTypes
  <2>8. ASSUME NEW t \in Threads, NEW d \in Digests, MintScar(t, d) PROVE CoordinatorTypes'
    BY <2>8 DEF MintScar, CoordinatorTypes, MachineTypeOK, machineVars, marketVars, moneyVars
  <2>9. "Honored" \in Outcomes
    BY DEF Outcomes
  <2>. QED BY <2>1, <2>2, <2>3, <2>4, <2>5, <2>6, <2>7, <2>8, <2>9 DEF Next
<1>. QED BY <1>1, <1>2, PTL DEF Spec

(* A call that was to settle and now has a settlement to count has just    *)
(* settled.                                                                *)
LEMMA OnlySettlingCounts ==
  ASSUME CoordinatorTypes, [Next]_vars, NEW t \in Threads,
         At(t, "settle"), calls'[t].at = "count"
  PROVE  ReportSettles(t)
<1>1. calls[t].at = "settle" /\ calls' # calls
  BY DEF At
<1>2. ASSUME NEW u \in Threads, NEW c, Goto(u, c) PROVE u = t /\ c.at = "count"
  BY <1>1, <1>2, GoesTo
<1>3. ASSUME NEW u \in Threads, Continue(u) PROVE ReportSettles(t)
  <2>1. ~OpenList(u) /\ ~ChallengeRefused(u) /\ ~ChallengeStakes(u)
    BY <1>2 DEF OpenList, ChallengeRefused, ChallengeStakes, Idle
  <2>2. ~ChallengeFiles(u) /\ ~ReportCounts(u) /\ ~ReportFindsNoListing(u) /\ ~ReportReads(u)
    <3>1. PICK b : b = calls[u]
      OBVIOUS
    <3>2. PICK stakes, reads : stakes = [b EXCEPT !.at = "stake"] /\ reads = [b EXCEPT !.at = "read"]
      OBVIOUS
    <3>3. ASSUME ChallengeFiles(u) PROVE FALSE
      <4>1. Goto(u, stakes) /\ b.at = "file"
        BY <3>1, <3>2, <3>3 DEF ChallengeFiles, At
      <4>. QED BY <1>1, <1>2, <3>1, <4>1
    <3>4. ASSUME ReportCounts(u) PROVE FALSE
      <4>1. Goto(u, reads) /\ b.at = "count"
        BY <3>1, <3>2, <3>4 DEF ReportCounts, At
      <4>. QED BY <1>1, <1>2, <3>1, <4>1
    <3>5. ASSUME ReportFindsNoListing(u) PROVE FALSE
      <4>1. Goto(u, reads) /\ b.at = "settle"
        BY <3>1, <3>2, <3>5 DEF ReportFindsNoListing, At
      <4>2. IsCall(b)
        BY <3>1 DEF CoordinatorTypes
      <4>3. reads.at = "read"
        BY <3>2, <4>1, <4>2, ReportFields
      <4>. QED BY <1>2, <4>1, <4>3
    <3>6. ASSUME ReportReads(u) PROVE FALSE
      <4>1. (\E n : Goto(u, n)) /\ b.at = "read"
        BY <3>1, <3>6 DEF ReportReads, At
      <4>. QED BY <1>1, <1>2, <3>1, <4>1
    <3>. QED BY <3>3, <3>4, <3>5, <3>6
  <2>3. ReportSettles(u)
    BY <1>3, <2>1, <2>2 DEF Continue
  <2>4. \E c : Goto(u, c)
    BY <2>3 DEF ReportSettles
  <2>. QED BY <1>2, <2>3, <2>4
<1>4. ASSUME NEW u \in Threads, At(u, "idle"), \E c : Goto(u, c) PROVE FALSE
  BY <1>1, <1>2, <1>4 DEF At
<1>5. ASSUME NEW u \in Threads, NEW d \in Digests, NEW dl \in Deadlines, OpenMachine(u, d, dl) PROVE FALSE
  BY <1>4, <1>5 DEF OpenMachine
<1>6. ASSUME NEW u \in Threads, SweepCall(u) PROVE FALSE
  BY <1>4, <1>6 DEF SweepCall
<1>7. ASSUME NEW u \in Threads, NEW d \in Digests, NEW o \in Outcomes, ResolveCall(u, d, o) PROVE FALSE
  BY <1>4, <1>7 DEF ResolveCall
<1>8. ASSUME NEW u \in Threads, NEW d \in Digests, NEW o \in Outcomes, ResolveViaOracle(u, d, o) PROVE FALSE
  BY <1>4, <1>8 DEF ResolveViaOracle
<1>9. ASSUME NEW u \in Threads, NEW d \in Digests, FinalizeUnchallenged(u, d) PROVE FALSE
  BY <1>4, <1>9 DEF FinalizeUnchallenged
<1>10. ASSUME NEW u \in Threads, NEW d \in Digests, NEW who \in Challengers, NEW s \in Stakes,
              ChallengeReadsState(u, d, who, s)
       PROVE  FALSE
  BY <1>4, <1>10 DEF ChallengeReadsState
<1>11. ~Tick /\ ~UNCHANGED vars
  BY <1>1 DEF Tick, vars
<1>12. ASSUME NEW u \in Threads, NEW d \in Digests, NEW o \in Outcomes,
              ProvisionFill(u, d, o) \/ MintScar(u, d)
       PROVE  FALSE
  BY <1>1, <1>12 DEF ProvisionFill, MintScar
<1>13. "Honored" \in Outcomes
  BY DEF Outcomes
<1>. QED BY <1>3, <1>5, <1>6, <1>7, <1>8, <1>9, <1>10, <1>11, <1>12, <1>13 DEF Next

(* A doubter who was right never loses: it gets its stake back, the        *)
(* doubters share the whole pool, to the last unit, and nobody but the     *)
(* last gets more of it than its stake weighs (counter.rs, settle).        *)
THEOREM DoubtersNeverLose == Spec => DoubtersAreMadeWhole
<1>1. ASSUME CoordinatorTypes, [Next]_vars, NEW t \in Threads,
             At(t, "settle"), calls'[t].at = "count", calls[t].outcome = "Slashed",
             NEW l, l = book[calls[t].digest], NEW pay, pay = calls'[t].settlement.payouts
      PROVE  /\ \A i \in DOMAIN l.stakes :
                  /\ pay[i] >= l.stakes[i].stake
                  /\ i < Len(l.stakes) =>
                       TotalStake(l) * (pay[i] - l.stakes[i].stake) <= Pool * l.stakes[i].stake
             /\ SumOf(pay) = TotalStake(l) + Pool
  <2>1. ReportSettles(t)
    BY <1>1, OnlySettlingCounts
  <2>2. PICK d, o, s, won : SettlesListing(t, d, o, s, won)
    BY <1>1, <2>1, ReportSettlesIs
  <2>3. o = "Slashed" /\ l \in Listings /\ s = Settle(l, "Slashed") /\ d = calls[t].digest
    BY <1>1, <2>2 DEF SettlesListing, CoordinatorTypes
  <2>4. PICK at : at = IF book[d].stakes = <<>> THEN "read" ELSE "count"
    OBVIOUS
  <2>5. PICK c : c = [at |-> at, digest |-> d, outcome |-> o, rest |-> calls[t].rest, settlement |-> s]
    OBVIOUS
  <2>6. Goto(t, c)
    BY <2>2, <2>4, <2>5 DEF SettlesListing
  <2>7. calls'[t] = c
    BY <1>1, <2>6, GoesTo
  <2>8. pay = s.payouts /\ l.stakes # <<>>
    BY <1>1, <2>3, <2>4, <2>5, <2>7
  <2>9. /\ DOMAIN s.payouts = DOMAIN l.stakes
        /\ \A i \in DOMAIN l.stakes : s.payouts[i] >= l.stakes[i].stake
        /\ PaidOut(s) = TotalStake(l) + (IF l.stakes = <<>> THEN 0 ELSE Pool)
    BY <2>3, SlashedSettlement
  <2>10. \A i \in DOMAIN l.stakes : i < Len(l.stakes) =>
           TotalStake(l) * (pay[i] - l.stakes[i].stake) <= Pool * l.stakes[i].stake
    BY <2>3, <2>8, PaidByWeight
  <2>. QED BY <2>8, <2>9, <2>10 DEF PaidOut
<1>2. ASSUME CoordinatorTypes, [Next]_vars
      PROVE  [\A t \in Threads :
                At(t, "settle") /\ At(t, "count")' /\ calls[t].outcome = "Slashed"
                => LET l == book[calls[t].digest]
                       pay == calls'[t].settlement.payouts IN
                   /\ \A i \in DOMAIN l.stakes :
                        /\ pay[i] >= l.stakes[i].stake
                        /\ i < Len(l.stakes) =>
                             TotalStake(l) * (pay[i] - l.stakes[i].stake)
                               <= Pool * l.stakes[i].stake
                   /\ SumOf(pay) = TotalStake(l) + Pool]_vars
  BY <1>1, <1>2 DEF At
<1>. QED BY <1>2, CoordinatorTypesHold, PTL DEF Spec, DoubtersAreMadeWhole
-----------------------------------------------------------------------------
(* The settler.  The legs of a split: distinct shares, and what is due to  *)
(* each.                                                                   *)
LEMMA SplitShares ==
  ASSUME NEW s \in Shares PROVE Distribute(Amount, Routing)[s] \in Nat
<1>. DEFINE Bps(x) == Routing[x]
<1>1. Amount \in Nat /\ \A x \in Shares : Bps(x) \in Nat
  BY SettlerAssumption, U64Assumption DEF Amounts, Routings
<1>2. ASSUME NEW x \in Shares PROVE Slice(Amount, Bps(x)) \in Nat
  <2>1. Amount * Bps(x) \in Nat
    BY <1>1, ProductIsNat
  <2>2. (Amount * Bps(x)) \div 10000 \in Nat
    BY <2>1
  <2>. QED BY <2>2, U64Assumption DEF Slice
<1>3. PICK c : c = Smaller(Slice(Amount, Bps("challengers")), Amount)
  OBVIOUS
<1>4. PICK i : i = Smaller(Slice(Amount, Bps("insurance")), Amount - c)
  OBVIOUS
<1>5. PICK l : l = Smaller(Slice(Amount, Bps("lineage")), Amount - c - i)
  OBVIOUS
<1>6. Distribute(Amount, Routing)
        = [caller |-> Amount - c - i - l, challengers |-> c, insurance |-> i, lineage |-> l]
  BY <1>3, <1>4, <1>5 DEF Distribute
<1>7. Slice(Amount, Bps("challengers")) \in Nat /\ Slice(Amount, Bps("insurance")) \in Nat
      /\ Slice(Amount, Bps("lineage")) \in Nat
  BY <1>2 DEF Shares
<1>. HIDE DEF Bps
<1>8. c \in 0 .. Amount
  BY <1>1, <1>3, <1>7 DEF Smaller
<1>9. i \in 0 .. Amount - c
  BY <1>1, <1>4, <1>7, <1>8 DEF Smaller
<1>10. l \in 0 .. Amount - c - i
  BY <1>1, <1>5, <1>7, <1>8, <1>9 DEF Smaller
<1>11. c \in Nat /\ i \in Nat /\ l \in Nat /\ Amount - c - i - l \in Nat
  BY <1>1, <1>8, <1>9, <1>10
<1>. QED BY <1>6, <1>11 DEF Shares

(* Distinct shares, none of them zero.                                     *)
IsSplit(legs, names) ==
  /\ legs \in Seq(names)
  /\ \A i, j \in 1 .. Len(legs) : legs[i] = legs[j] => i = j
  /\ \A i \in 1 .. Len(legs) : Distribute(Amount, Routing)[legs[i]] # 0

LEMMA OneMoreLeg ==
  ASSUME NEW names, NEW legs, IsSplit(legs, names), NEW s, s \notin names,
         NEW more, more = legs \o Leg(s)
  PROVE  IsSplit(more, names \cup {s})
<1>1. legs \in Seq(names) /\ Len(legs) \in Nat /\ \A i \in 1 .. Len(legs) : legs[i] \in names
  BY DEF IsSplit
<1>2. legs \in Seq(names \cup {s})
  BY <1>1
<1>3. CASE Distribute(Amount, Routing)[s] = 0
  <2>1. more = legs
    BY <1>1, <1>3 DEF Leg
  <2>. QED BY <1>2, <2>1 DEF IsSplit
<1>4. CASE Distribute(Amount, Routing)[s] # 0
  <2>1. more = legs \o <<s>>
    BY <1>4 DEF Leg
  <2>2. /\ more \in Seq(names \cup {s}) /\ Len(more) = Len(legs) + 1
        /\ \A i \in 1 .. Len(legs) : more[i] = legs[i]
        /\ more[Len(legs) + 1] = s
    BY <1>1, <1>2, <2>1
  <2>3. \A i \in 1 .. Len(more) : i \in 1 .. Len(legs) \/ i = Len(legs) + 1
    BY <1>1, <2>2
  <2>. QED BY <1>1, <1>4, <2>2, <2>3 DEF IsSplit
<1>. QED BY <1>3, <1>4

LEMMA LegsOfSplit ==
  /\ Len(Split) \in Nat /\ DOMAIN Split = 1 .. Len(Split)
  /\ \A i \in DOMAIN Split : Split[i].leg \in Shares /\ Split[i].amount \in Nat \ {0}
  /\ \A i, j \in DOMAIN Split : Split[i].leg = Split[j].leg => i = j
<1>1. IsSplit(<<>>, {})
  BY DEF IsSplit
<1>2. PICK a : a = <<>> \o Leg("caller")
  OBVIOUS
<1>3. IsSplit(a, {"caller"}) /\ a = Leg("caller")
  <2>1. IsSplit(a, {} \cup {"caller"})
    BY <1>1, <1>2, OneMoreLeg
  <2>2. <<>> \o Leg("caller") = Leg("caller")
    BY DEF Leg
  <2>. QED BY <1>2, <2>1, <2>2
<1>4. PICK b : b = a \o Leg("challengers")
  OBVIOUS
<1>5. IsSplit(b, {"caller"} \cup {"challengers"})
  BY <1>3, <1>4, OneMoreLeg
<1>6. PICK c : c = b \o Leg("insurance")
  OBVIOUS
<1>7. IsSplit(c, ({"caller"} \cup {"challengers"}) \cup {"insurance"})
  BY <1>5, <1>6, OneMoreLeg
<1>8. PICK d : d = c \o Leg("lineage")
  OBVIOUS
<1>9. IsSplit(d, (({"caller"} \cup {"challengers"}) \cup {"insurance"}) \cup {"lineage"})
  BY <1>7, <1>8, OneMoreLeg
<1>10. Legs = d
  BY <1>3, <1>4, <1>6, <1>8 DEF Legs
<1>11. Shares = (({"caller"} \cup {"challengers"}) \cup {"insurance"}) \cup {"lineage"}
  BY DEF Shares
<1>12. IsSplit(Legs, Shares)
  BY <1>9, <1>10, <1>11
<1>13. PICK legs : legs = Legs
  OBVIOUS
<1>14. /\ legs \in Seq(Shares) /\ Len(legs) \in Nat /\ DOMAIN legs = 1 .. Len(legs)
       /\ \A i \in 1 .. Len(legs) : legs[i] \in Shares
  BY <1>12, <1>13 DEF IsSplit
<1>15. PICK p : p = [i \in 1 .. Len(legs) |->
                       [leg |-> legs[i], amount |-> Distribute(Amount, Routing)[legs[i]]]]
  OBVIOUS
<1>16. Split = p
  BY <1>13, <1>14, <1>15 DEF Split
<1>17. Len(p) = Len(legs) /\ DOMAIN p = 1 .. Len(legs)
  BY <1>14, <1>15
<1>18. \A i \in 1 .. Len(legs) : p[i].leg = legs[i] /\ p[i].amount = Distribute(Amount, Routing)[legs[i]]
  BY <1>15
<1>19. \A i \in 1 .. Len(legs) : p[i].amount \in Nat \ {0}
  BY <1>12, <1>13, <1>14, <1>18, SplitShares DEF IsSplit
<1>. QED BY <1>12, <1>13, <1>14, <1>16, <1>17, <1>18, <1>19 DEF IsSplit
-----------------------------------------------------------------------------
(* How often a share of a bond was paid, against what was begun, what      *)
(* returned Ok and where the tasks at work on the bond are.                *)
IsSlashed(e) == Final(e) /\ e.outcome = "Slashed"

Past(ts, d, i) ==
  {t \in Tasks : ts[t].at = "disburse" /\ ts[t].digest = d /\ ts[t].leg > i}

Owing(ts, d, i) ==
  {t \in Tasks : /\ ts[t].at = "disburse"
                 /\ \/ ts[t].digest = d /\ ts[t].leg <= i
                    \/ d \in ts[t].rest}

PaidTimes(p, a, ok, past, owing, n, slashed) ==
  \E k \in Nat : p = k * a /\ (slashed => ok + past <= k) /\ k + owing <= n

Counted(d, i) ==
  PaidTimes(paid[d][Split[i].leg], Split[i].amount, settled[d],
            Cardinality(Past(tasks, d, i)), Cardinality(Owing(tasks, d, i)),
            attempts[d], IsSlashed(bonds[d]))

AtWork(c, entries) ==
  c.at = "disburse" =>
    /\ Final(entries[c.digest]) /\ c.digest \notin c.rest
    /\ \A d \in c.rest : Final(entries[d])

SettlerInv ==
  /\ SettlerTypeOK
  /\ \A t \in Tasks : AtWork(tasks[t], bonds)
  /\ \A d \in Digests : ~Final(bonds[d]) => settled[d] = 0
  /\ \A d \in Digests, s \in Shares : paid[d][s] > 0 => IsSlashed(bonds[d])
  /\ \A d \in Digests, i \in DOMAIN Split : Counted(d, i)

LEMMA TaskSets ==
  ASSUME NEW ts, NEW d, NEW i, NEW P, P = Past(ts, d, i), NEW O, O = Owing(ts, d, i)
  PROVE  IsFiniteSet(P) /\ IsFiniteSet(O) /\ Cardinality(P) \in Nat /\ Cardinality(O) \in Nat
<1>1. P \subseteq Tasks /\ O \subseteq Tasks
  BY DEF Past, Owing
<1>2. IsFiniteSet(P) /\ IsFiniteSet(O)
  BY <1>1, SettlerAssumption, FS_Subset
<1>. QED BY <1>2, FS_CardinalityType

LEMMA FewerTasks ==
  ASSUME NEW S, IsFiniteSet(S), NEW T, T \subseteq S
  PROVE  /\ Cardinality(T) <= Cardinality(S)
         /\ \A x \in S : x \notin T => Cardinality(T) + 1 <= Cardinality(S)
<1>1. Cardinality(T) <= Cardinality(S) /\ Cardinality(S) \in Nat
  BY FS_Subset, FS_CardinalityType
<1>2. ASSUME NEW x \in S, x \notin T PROVE Cardinality(T) + 1 <= Cardinality(S)
  <2>1. PICK R : R = S \ {x}
    OBVIOUS
  <2>2. IsFiniteSet(R) /\ Cardinality(R) = Cardinality(S) - 1
    BY <2>1, FS_RemoveElement
  <2>3. T \subseteq R
    BY <1>2, <2>1
  <2>4. Cardinality(T) <= Cardinality(R) /\ IsFiniteSet(T)
    BY <2>2, <2>3, FS_Subset
  <2>5. Cardinality(T) \in Nat
    BY <2>4, FS_CardinalityType
  <2>. QED BY <1>1, <2>2, <2>4, <2>5
<1>. QED BY <1>1, <1>2

LEMMA OneTaskMore ==
  ASSUME NEW S, IsFiniteSet(S), NEW x, NEW T, T \subseteq S \cup {x}
  PROVE  Cardinality(T) <= Cardinality(S) + 1
<1>1. PICK R : R = S \cup {x}
  OBVIOUS
<1>2. IsFiniteSet(R) /\ Cardinality(R) <= Cardinality(S) + 1
  <2>1. Cardinality(S) \in Nat
    BY FS_CardinalityType
  <2>2. IsFiniteSet(R) /\ Cardinality(R) = IF x \in S THEN Cardinality(S) ELSE Cardinality(S) + 1
    BY <1>1, FS_AddElement
  <2>. QED BY <2>1, <2>2
<1>3. Cardinality(T) <= Cardinality(R) /\ IsFiniteSet(T)
  BY <1>1, <1>2, FS_Subset
<1>. QED BY <1>2, <1>3, FS_CardinalityType

(* A task that goes on to the bonds `rest`, or ends its call.              *)
LEMMA NextPlace ==
  ASSUME tasks \in [Tasks -> Places], NEW t \in Tasks, NEW rest, rest \subseteq Digests,
         MovesOn(t, Disbursing(rest))
  PROVE  /\ tasks' \in [Tasks -> Places]
         /\ \A u \in Tasks \ {t} : tasks'[u] = tasks[u]
         /\ tasks'[t].at = "disburse" =>
              /\ tasks'[t].digest \in rest /\ tasks'[t].rest \subseteq rest /\ tasks'[t].leg = 1
              /\ tasks'[t].digest \notin tasks'[t].rest
<1>1. PICK w \in Disbursing(rest) : tasks' = [tasks EXCEPT ![t] = w]
  BY DEF MovesOn
<1>2. \/ w = NoCall
      \/ \E d \in rest : w = [at |-> "disburse", digest |-> d, leg |-> 1, rest |-> rest \ {d}]
  BY DEF Disbursing
<1>3. w \in Places /\ (w.at = "disburse" =>
        w.digest \in rest /\ w.rest \subseteq rest /\ w.leg = 1 /\ w.digest \notin w.rest)
  <2>1. CASE w = NoCall
    BY <2>1 DEF NoCall, Places
  <2>2. CASE \E d \in rest : w = [at |-> "disburse", digest |-> d, leg |-> 1, rest |-> rest \ {d}]
    <3>1. PICK d \in rest : w = [at |-> "disburse", digest |-> d, leg |-> 1, rest |-> rest \ {d}]
      BY <2>2
    <3>2. 1 \in 1 .. Len(Split) + 1 /\ rest \ {d} \in SUBSET Digests /\ d \in Digests
      BY LegsOfSplit
    <3>3. w \in Places
      BY <3>1, <3>2 DEF Places
    <3>. QED BY <3>1, <3>3
  <2>. QED BY <1>2, <2>1, <2>2
<1>. QED BY <1>1, <1>3

LEMMA NextPlaceSets ==
  ASSUME tasks \in [Tasks -> Places], NEW t \in Tasks, NEW rest, rest \subseteq Digests,
         MovesOn(t, Disbursing(rest)), NEW d, NEW i \in DOMAIN Split
  PROVE  /\ Past(tasks', d, i) \subseteq Past(tasks, d, i) \ {t}
         /\ Owing(tasks', d, i) \subseteq Owing(tasks, d, i) \cup {t}
         /\ d \notin rest => Owing(tasks', d, i) \subseteq Owing(tasks, d, i) \ {t}
<1>1. PICK now : now = tasks'
  OBVIOUS
<1>2. /\ \A u \in Tasks \ {t} : now[u] = tasks[u]
      /\ now[t].at = "disburse" => now[t].digest \in rest /\ now[t].rest \subseteq rest /\ now[t].leg = 1
  BY <1>1, NextPlace
<1>3. i \in Nat /\ i >= 1
  BY LegsOfSplit
<1>4. Past(now, d, i) \subseteq Past(tasks, d, i) \ {t}
  BY <1>2, <1>3 DEF Past
<1>5. Owing(now, d, i) \subseteq Owing(tasks, d, i) \cup {t}
  BY <1>2 DEF Owing
<1>6. d \notin rest => Owing(now, d, i) \subseteq Owing(tasks, d, i) \ {t}
  BY <1>2 DEF Owing
<1>. QED BY <1>1, <1>4, <1>5, <1>6
-----------------------------------------------------------------------------
(* The steps of the settler.                                               *)
LEMMA SettlerFields ==
  ASSUME SettlerInv, NEW d \in Digests, NEW i \in DOMAIN Split
  PROVE  /\ paid[d][Split[i].leg] \in Nat /\ Split[i].amount \in Nat
         /\ settled[d] \in Nat /\ attempts[d] \in Nat
         /\ Split[i].leg \in Shares
BY LegsOfSplit DEF SettlerInv, SettlerTypeOK

LEMMA WorkFields ==
  ASSUME SettlerInv, NEW t \in Tasks, tasks[t].at = "disburse"
  PROVE  /\ tasks[t].digest \in Digests /\ tasks[t].leg \in 1 .. Len(Split) + 1
         /\ tasks[t].rest \subseteq Digests
         /\ Final(bonds[tasks[t].digest]) /\ tasks[t].digest \notin tasks[t].rest
         /\ \A d \in tasks[t].rest : Final(bonds[d])
<1>1. tasks[t] \in Places /\ AtWork(tasks[t], bonds)
  BY DEF SettlerInv, SettlerTypeOK
<1>. QED BY <1>1 DEF Places, NoCall, AtWork

(* What must be seen of a step for one share of one bond: m is 1 when the  *)
(* step pays it.                                                           *)
LEMMA ShareCounted ==
  ASSUME SettlerInv, NEW d \in Digests, NEW i \in DOMAIN Split, NEW m \in {0, 1},
         paid'[d][Split[i].leg] = paid[d][Split[i].leg] + (IF m = 1 THEN Split[i].amount ELSE 0),
         settled'[d] \in Nat, attempts'[d] \in Nat,
         NEW P, P = Past(tasks, d, i), NEW O, O = Owing(tasks, d, i),
         NEW PNow, PNow = Past(tasks', d, i), NEW ONow, ONow = Owing(tasks', d, i),
         IsSlashed(bonds'[d]) =>
           \/ IsSlashed(bonds[d]) /\ settled'[d] + Cardinality(PNow) <= settled[d] + Cardinality(P) + m
           \/ settled'[d] = 0 /\ PNow = {},
         Cardinality(ONow) + m + attempts[d] <= Cardinality(O) + attempts'[d]
  PROVE  Counted(d, i)'
<1>1. PICK now : now = tasks'
  OBVIOUS
<1>2. PNow = Past(now, d, i) /\ ONow = Owing(now, d, i)
  BY <1>1
<1>3. /\ Cardinality(P) \in Nat /\ Cardinality(O) \in Nat
      /\ Cardinality(PNow) \in Nat /\ Cardinality(ONow) \in Nat
  BY <1>2, TaskSets
<1>4. PICK p \in Nat, a \in Nat, ok \in Nat, n \in Nat :
        p = paid[d][Split[i].leg] /\ a = Split[i].amount /\ ok = settled[d] /\ n = attempts[d]
  BY SettlerFields
<1>5. PICK past \in Nat, owing \in Nat, pastNow \in Nat, owingNow \in Nat :
        /\ past = Cardinality(P) /\ owing = Cardinality(O)
        /\ pastNow = Cardinality(PNow) /\ owingNow = Cardinality(ONow)
  BY <1>3
<1>6. PICK okNow \in Nat, nNow \in Nat : okNow = settled'[d] /\ nNow = attempts'[d]
  OBVIOUS
<1>7. PICK slashed \in BOOLEAN, slashedNow \in BOOLEAN :
        slashed = IsSlashed(bonds[d]) /\ slashedNow = IsSlashed(bonds'[d])
  BY DEF IsSlashed
<1>8. PICK q \in Nat : q = p + (IF m = 1 THEN a ELSE 0) /\ q = paid'[d][Split[i].leg]
  BY <1>4
<1>9. PICK k \in Nat : p = k * a /\ (slashed => ok + past <= k) /\ k + owing <= n
  BY <1>4, <1>5, <1>7 DEF SettlerInv, Counted, PaidTimes
<1>10. slashedNow => (slashed /\ okNow + pastNow <= ok + past + m) \/ okNow + pastNow = 0
  <2>1. PNow = {} => pastNow = 0
    BY <1>5, FS_EmptySet
  <2>. QED BY <1>4, <1>5, <1>6, <1>7, <2>1
<1>11. owingNow + m + n <= owing + nNow
  BY <1>4, <1>5, <1>6
<1>12. PICK j \in Nat : j = k + m
  OBVIOUS
<1>13. q = j * a
  <2>1. (k + 1) * a = k * a + a /\ (k + 0) * a = k * a
    OBVIOUS
  <2>2. CASE m = 1
    BY <1>8, <1>9, <1>12, <2>1, <2>2
  <2>3. CASE m = 0
    BY <1>8, <1>9, <1>12, <2>1, <2>3
  <2>. QED BY <2>2, <2>3
<1>14. j + owingNow <= nNow
  BY <1>9, <1>11, <1>12
<1>15. slashedNow => okNow + pastNow <= j
  BY <1>9, <1>10, <1>12
<1>16. PaidTimes(q, a, okNow, pastNow, owingNow, nNow, slashedNow)
  BY <1>13, <1>14, <1>15 DEF PaidTimes
<1>. QED BY <1>4, <1>5, <1>6, <1>7, <1>8, <1>16 DEF Counted
LEMMA WorkStaysFinal ==
  ASSUME SettlerInv, NEW t \in Tasks,
         \A d \in Digests : Final(bonds[d]) => bonds'[d] = bonds[d],
         tasks'[t] = tasks[t]
  PROVE  AtWork(tasks'[t], bonds')
<1>1. CASE tasks[t].at = "disburse"
  BY <1>1, WorkFields DEF AtWork
<1>2. CASE tasks[t].at # "disburse"
  BY <1>2 DEF AtWork
<1>. QED BY <1>1, <1>2

LEMMA MachineStepKeeps ==
  ASSUME SettlerInv, MachineTypeOK', \A d \in Digests : Final(bonds[d]) => bonds'[d] = bonds[d],
         clock' \in 0 .. MaxTime,
         UNCHANGED <<tasks, paid, lastTransfers, faults, attempts, settled>>
  PROVE  SettlerInv'
<1>1. SettlerTypeOK'
  BY DEF SettlerInv, SettlerTypeOK
<1>2. \A t \in Tasks : AtWork(tasks'[t], bonds')
  BY WorkStaysFinal
<1>3. \A d \in Digests : ~Final(bonds'[d]) => settled'[d] = 0
  BY DEF SettlerInv
<1>4. \A d \in Digests, s \in Shares : paid'[d][s] > 0 => IsSlashed(bonds'[d])
  BY DEF SettlerInv, IsSlashed
<1>5. ASSUME NEW d \in Digests, NEW i \in DOMAIN Split PROVE Counted(d, i)'
  <2>1. PICK P : P = Past(tasks, d, i)
    OBVIOUS
  <2>2. PICK O : O = Owing(tasks, d, i)
    OBVIOUS
  <2>3. Cardinality(P) \in Nat /\ Cardinality(O) \in Nat
    BY <2>1, <2>2, TaskSets
  <2>4. P = Past(tasks', d, i) /\ O = Owing(tasks', d, i)
    BY <2>1, <2>2
  <2>5. /\ paid[d][Split[i].leg] \in Nat /\ settled[d] \in Nat /\ attempts[d] \in Nat
        /\ settled'[d] = settled[d] /\ attempts'[d] = attempts[d]
        /\ paid'[d][Split[i].leg] = paid[d][Split[i].leg]
    BY SettlerFields
  <2>6. CASE Final(bonds[d])
    <3>1. IsSlashed(bonds'[d]) => IsSlashed(bonds[d]) /\ settled'[d] + Cardinality(P) <= settled[d] + Cardinality(P) + 0
      BY <2>3, <2>5, <2>6
    <3>2. Cardinality(O) + 0 + attempts[d] <= Cardinality(O) + attempts'[d]
      BY <2>3, <2>5
    <3>3. paid'[d][Split[i].leg] = paid[d][Split[i].leg] + (IF 0 = 1 THEN Split[i].amount ELSE 0)
      BY <2>5
    <3>. QED BY <2>1, <2>2, <2>4, <2>5, <3>1, <3>2, <3>3, ShareCounted
  <2>7. CASE ~Final(bonds[d])
    <3>1. P = {}
      BY <2>1, <2>7, WorkFields DEF Past
    <3>2. settled'[d] = 0
      BY <2>5, <2>7 DEF SettlerInv
    <3>3. Cardinality(O) + 0 + attempts[d] <= Cardinality(O) + attempts'[d]
      BY <2>3, <2>5
    <3>4. paid'[d][Split[i].leg] = paid[d][Split[i].leg] + (IF 0 = 1 THEN Split[i].amount ELSE 0)
      BY <2>5
    <3>. QED BY <2>1, <2>2, <2>4, <2>5, <3>1, <3>2, <3>3, <3>4, ShareCounted
  <2>. QED BY <2>6, <2>7
<1>. QED BY <1>1, <1>2, <1>3, <1>4, <1>5 DEF SettlerInv

LEMMA BeginKeeps ==
  ASSUME SettlerInv, NEW t \in Tasks, tasks[t] = NoCall, NEW S, S \subseteq Digests,
         MachineTypeOK', \A d \in Digests : Final(bonds[d]) => bonds'[d] = bonds[d],
         \A d \in S : Final(bonds'[d]),
         MovesOn(t, Disbursing(S)),
         attempts' \in [Digests -> Nat],
         \A d \in Digests : attempts'[d] = attempts[d] + (IF d \in S THEN 1 ELSE 0),
         UNCHANGED <<clock, paid, lastTransfers, faults, settled>>
  PROVE  SettlerInv'
<1>0. tasks \in [Tasks -> Places]
  BY DEF SettlerInv, SettlerTypeOK
<1>1. /\ tasks' \in [Tasks -> Places]
      /\ \A u \in Tasks \ {t} : tasks'[u] = tasks[u]
      /\ tasks'[t].at = "disburse" =>
           /\ tasks'[t].digest \in S /\ tasks'[t].rest \subseteq S
           /\ tasks'[t].digest \notin tasks'[t].rest
  BY <1>0, NextPlace
<1>2. SettlerTypeOK'
  BY <1>1 DEF SettlerInv, SettlerTypeOK
<1>3. \A u \in Tasks : AtWork(tasks'[u], bonds')
  <2>1. AtWork(tasks'[t], bonds')
    BY <1>1 DEF AtWork
  <2>. QED BY <1>1, <2>1, WorkStaysFinal
<1>4. \A d \in Digests : ~Final(bonds'[d]) => settled'[d] = 0
  BY DEF SettlerInv
<1>5. \A d \in Digests, s \in Shares : paid'[d][s] > 0 => IsSlashed(bonds'[d])
  BY DEF SettlerInv, IsSlashed
<1>6. ASSUME NEW d \in Digests, NEW i \in DOMAIN Split PROVE Counted(d, i)'
  <2>1. PICK P, O : P = Past(tasks, d, i) /\ O = Owing(tasks, d, i)
    OBVIOUS
  <2>2. PICK PNow, ONow : PNow = Past(tasks', d, i) /\ ONow = Owing(tasks', d, i)
    OBVIOUS
  <2>3. IsFiniteSet(P) /\ IsFiniteSet(O) /\ Cardinality(P) \in Nat /\ Cardinality(O) \in Nat
    BY <2>1, TaskSets
  <2>4. PNow \subseteq P /\ ONow \subseteq O \cup {t} /\ (d \notin S => ONow \subseteq O)
    BY <1>0, <2>1, <2>2, NextPlaceSets
  <2>5. Cardinality(PNow) \in Nat /\ Cardinality(ONow) \in Nat
    <3>1. PICK now : now = tasks'
      OBVIOUS
    <3>2. PNow = Past(now, d, i) /\ ONow = Owing(now, d, i)
      BY <2>2, <3>1
    <3>. QED BY <3>2, TaskSets
  <2>6. Cardinality(PNow) <= Cardinality(P)
    BY <2>3, <2>4, FewerTasks
  <2>7. Cardinality(ONow) <= Cardinality(O) + (IF d \in S THEN 1 ELSE 0)
    <3>1. CASE d \in S
      BY <2>3, <2>4, <3>1, OneTaskMore
    <3>2. CASE d \notin S
      <4>1. Cardinality(ONow) <= Cardinality(O)
        BY <2>3, <2>4, <3>2, FewerTasks
      <4>. QED BY <2>3, <2>5, <3>2, <4>1
    <3>. QED BY <3>1, <3>2
  <2>8. /\ paid[d][Split[i].leg] \in Nat /\ settled[d] \in Nat /\ attempts[d] \in Nat
        /\ settled'[d] = settled[d] /\ attempts'[d] \in Nat
        /\ paid'[d][Split[i].leg] = paid[d][Split[i].leg]
    BY SettlerFields
  <2>9. IsSlashed(bonds'[d]) =>
          \/ IsSlashed(bonds[d]) /\ settled'[d] + Cardinality(PNow) <= settled[d] + Cardinality(P) + 0
          \/ settled'[d] = 0 /\ PNow = {}
    <3>1. CASE Final(bonds[d])
      BY <2>3, <2>5, <2>6, <2>8, <3>1
    <3>2. CASE ~Final(bonds[d])
      <4>1. P = {}
        BY <2>1, <3>2, WorkFields DEF Past
      <4>2. settled'[d] = 0
        BY <2>8, <3>2 DEF SettlerInv
      <4>. QED BY <2>4, <4>1, <4>2
    <3>. QED BY <3>1, <3>2
  <2>10. Cardinality(ONow) + 0 + attempts[d] <= Cardinality(O) + attempts'[d]
    BY <2>3, <2>5, <2>7, <2>8
  <2>11. paid'[d][Split[i].leg] = paid[d][Split[i].leg] + (IF 0 = 1 THEN Split[i].amount ELSE 0)
    BY <2>8
  <2>. QED BY <2>1, <2>2, <2>8, <2>9, <2>10, <2>11, ShareCounted
<1>. QED BY <1>2, <1>3, <1>4, <1>5, <1>6 DEF SettlerInv
(* A call that returns Ok for its bond: nothing moved, for an honored one, *)
(* or each leg has landed.                                                 *)
LEMMA ReturnKeeps ==
  ASSUME SettlerInv, NEW t \in Tasks, NEW c, c = tasks[t], c.at = "disburse",
         ~IsSlashed(bonds[c.digest]) \/ c.leg > Len(Split),
         NEW transfers \in {<<>>, Split}, Returns(t, transfers)
  PROVE  SettlerInv'
<1>0. tasks \in [Tasks -> Places]
  BY DEF SettlerInv, SettlerTypeOK
<1>1. /\ c.digest \in Digests /\ c.rest \subseteq Digests /\ c.digest \notin c.rest
      /\ Final(bonds[c.digest]) /\ \A d \in c.rest : Final(bonds[d])
  BY WorkFields
<1>2. /\ MovesOn(t, Disbursing(c.rest)) /\ settled' = [settled EXCEPT ![c.digest] = @ + 1]
      /\ UNCHANGED <<bonds, clock, paid, faults, attempts>>
  BY DEF Returns
<1>3. /\ tasks' \in [Tasks -> Places]
      /\ \A u \in Tasks \ {t} : tasks'[u] = tasks[u]
      /\ tasks'[t].at = "disburse" =>
           /\ tasks'[t].digest \in c.rest /\ tasks'[t].rest \subseteq c.rest
           /\ tasks'[t].digest \notin tasks'[t].rest
  BY <1>0, <1>1, <1>2, NextPlace
<1>4. settled' \in [Digests -> Nat] /\ settled'[c.digest] = settled[c.digest] + 1
      /\ \A d \in Digests \ {c.digest} : settled'[d] = settled[d]
  BY <1>1, <1>2 DEF SettlerInv, SettlerTypeOK
<1>5. SettlerTypeOK'
  <2>1. lastTransfers' \in {<<>>, Split}
    BY DEF Returns
  <2>. QED BY <1>2, <1>3, <1>4, <2>1 DEF SettlerInv, SettlerTypeOK, MachineTypeOK
<1>6. \A u \in Tasks : AtWork(tasks'[u], bonds')
  <2>1. AtWork(tasks'[t], bonds')
    BY <1>1, <1>2, <1>3 DEF AtWork
  <2>2. \A d \in Digests : Final(bonds[d]) => bonds'[d] = bonds[d]
    BY <1>2
  <2>. QED BY <1>3, <2>1, <2>2, WorkStaysFinal
<1>7. \A d \in Digests : ~Final(bonds'[d]) => settled'[d] = 0
  BY <1>1, <1>2, <1>4 DEF SettlerInv
<1>8. \A d \in Digests, s \in Shares : paid'[d][s] > 0 => IsSlashed(bonds'[d])
  BY <1>2 DEF SettlerInv
<1>9. ASSUME NEW d \in Digests, NEW i \in DOMAIN Split PROVE Counted(d, i)'
  <2>1. PICK P, O : P = Past(tasks, d, i) /\ O = Owing(tasks, d, i)
    OBVIOUS
  <2>2. PICK now : now = tasks'
    OBVIOUS
  <2>3. PICK PNow, ONow : PNow = Past(now, d, i) /\ ONow = Owing(now, d, i)
    OBVIOUS
  <2>4. IsFiniteSet(P) /\ IsFiniteSet(O) /\ Cardinality(P) \in Nat /\ Cardinality(O) \in Nat
        /\ Cardinality(PNow) \in Nat /\ Cardinality(ONow) \in Nat
    BY <2>1, <2>3, TaskSets
  <2>5. PNow \subseteq P \ {t} /\ ONow \subseteq O
    <3>1. PNow \subseteq P \ {t} /\ ONow \subseteq O \cup {t} /\ (d \notin c.rest => ONow \subseteq O \ {t})
      BY <1>0, <1>1, <1>2, <2>1, <2>2, <2>3, NextPlaceSets
    <3>2. d \in c.rest => t \in O
      BY <2>1 DEF Owing
    <3>. QED BY <3>1, <3>2
  <2>6. Cardinality(ONow) <= Cardinality(O)
    BY <2>4, <2>5, FewerTasks
  <2>7. /\ paid[d][Split[i].leg] \in Nat /\ settled[d] \in Nat /\ attempts[d] \in Nat
        /\ attempts'[d] = attempts[d] /\ settled'[d] \in Nat
        /\ paid'[d][Split[i].leg] = paid[d][Split[i].leg]
    BY <1>2, <1>4, SettlerFields
  <2>8. IsSlashed(bonds[d]) => settled'[d] + Cardinality(PNow) <= settled[d] + Cardinality(P)
    <3>1. CASE d # c.digest
      <4>1. Cardinality(PNow) <= Cardinality(P)
        BY <2>4, <2>5, FewerTasks
      <4>. QED BY <1>4, <2>4, <2>7, <3>1, <4>1
    <3>2. CASE d = c.digest /\ IsSlashed(bonds[d])
      <4>1. i \in 1 .. Len(Split) /\ Len(Split) \in Nat /\ c.leg > Len(Split) /\ c.leg \in 1 .. Len(Split) + 1
        BY <3>2, LegsOfSplit, WorkFields
      <4>2. t \in P
        BY <2>1, <3>2, <4>1 DEF Past
      <4>3. Cardinality(PNow) + 1 <= Cardinality(P)
        BY <2>4, <2>5, <4>2, FewerTasks
      <4>. QED BY <1>4, <2>4, <2>7, <3>2, <4>3
    <3>. QED BY <3>1, <3>2
  <2>9. PNow = Past(tasks', d, i) /\ ONow = Owing(tasks', d, i)
    BY <2>2, <2>3
  <2>10. IsSlashed(bonds'[d]) =>
           IsSlashed(bonds[d]) /\ settled'[d] + Cardinality(PNow) <= settled[d] + Cardinality(P) + 0
    BY <1>2, <2>4, <2>7, <2>8
  <2>11. Cardinality(ONow) + 0 + attempts[d] <= Cardinality(O) + attempts'[d]
    BY <2>4, <2>6, <2>7
  <2>12. paid'[d][Split[i].leg] = paid[d][Split[i].leg] + (IF 0 = 1 THEN Split[i].amount ELSE 0)
    BY <2>7
  <2>. QED BY <2>1, <2>7, <2>9, <2>10, <2>11, <2>12, ShareCounted
<1>. QED BY <1>5, <1>6, <1>7, <1>8, <1>9 DEF SettlerInv

(* A transfer: the share of its leg is paid once more, or, when it failed, *)
(* perhaps not; the call goes on to the next leg, or ends.                 *)
LEMMA TransferKeeps ==
  ASSUME SettlerInv, NEW t \in Tasks, NEW c, c = tasks[t], c.at = "disburse", ~MovesNothing(t),
         c.leg <= Len(Split),
         NEW landed \in BOOLEAN, IF landed THEN Lands(t) ELSE UNCHANGED paid,
         NEW w, tasks' = [tasks EXCEPT ![t] = w],
         \/ w = [at |-> "disburse", digest |-> c.digest, leg |-> c.leg + 1, rest |-> c.rest] /\ landed
         \/ w = NoCall,
         faults' \in 0 .. MaxFaults,
         UNCHANGED <<bonds, clock, lastTransfers, attempts, settled>>
  PROVE  SettlerInv'
<1>0. tasks \in [Tasks -> Places] /\ paid \in [Digests -> [Shares -> Nat]]
  BY DEF SettlerInv, SettlerTypeOK
<1>1. /\ c.digest \in Digests /\ c.rest \subseteq Digests /\ c.digest \notin c.rest
      /\ Final(bonds[c.digest]) /\ (\A d \in c.rest : Final(bonds[d]))
      /\ c.leg \in 1 .. Len(Split) + 1
  BY WorkFields
<1>2. PICK k \in DOMAIN Split : k = c.leg
  BY <1>1, LegsOfSplit
<1>3. PICK s \in Shares, a \in Nat : s = Split[k].leg /\ a = Split[k].amount
  BY LegsOfSplit
<1>4. k \in Nat /\ k \in 1 .. Len(Split) /\ Len(Split) \in Nat
  BY LegsOfSplit
<1>5. IsSlashed(bonds[c.digest])
  <2>1. PICK e \in Entries : e = bonds[c.digest]
    BY <1>1 DEF SettlerInv, SettlerTypeOK, MachineTypeOK
  <2>2. e.outcome \in Outcomes /\ e.outcome # "Honored"
    BY <1>1, <2>1, EntryFields DEF MovesNothing, Disburses, Final
  <2>. QED BY <1>1, <2>1, <2>2 DEF IsSlashed, Outcomes
<1>6. /\ paid' \in [Digests -> [Shares -> Nat]]
      /\ \A d \in Digests, x \in Shares :
           paid'[d][x] = paid[d][x] + (IF landed /\ d = c.digest /\ x = s THEN a ELSE 0)
  <2>1. CASE ~landed
    BY <1>0, <2>1
  <2>2. CASE landed
    <3>1. paid' = [paid EXCEPT ![c.digest][s] = @ + a]
      BY <1>2, <1>3, <2>2 DEF Lands
    <3>. QED BY <1>0, <1>1, <2>2, <3>1
  <2>. QED BY <2>1, <2>2
<1>7. /\ w \in Places /\ tasks' \in [Tasks -> Places] /\ tasks'[t] = w
      /\ \A u \in Tasks \ {t} : tasks'[u] = tasks[u]
      /\ w.at = "disburse" => w.digest = c.digest /\ w.rest = c.rest /\ w.leg = k + 1 /\ landed
  <2>1. CASE w = NoCall
    BY <1>0, <2>1 DEF Places, NoCall
  <2>2. CASE w = [at |-> "disburse", digest |-> c.digest, leg |-> c.leg + 1, rest |-> c.rest] /\ landed
    <3>1. c.leg + 1 \in 1 .. Len(Split) + 1 /\ c.rest \in SUBSET Digests
      BY <1>1, <1>2, <1>4
    <3>2. w \in Places
      BY <1>1, <2>2, <3>1 DEF Places
    <3>. QED BY <1>0, <1>2, <2>2, <3>2
  <2>. QED BY <2>1, <2>2
<1>8. SettlerTypeOK'
  BY <1>6, <1>7 DEF SettlerInv, SettlerTypeOK, MachineTypeOK
<1>9. \A u \in Tasks : AtWork(tasks'[u], bonds')
  <2>1. AtWork(tasks'[t], bonds')
    BY <1>1, <1>7 DEF AtWork
  <2>. QED BY <1>7, <2>1, WorkStaysFinal
<1>10. \A d \in Digests : ~Final(bonds'[d]) => settled'[d] = 0
  BY DEF SettlerInv
<1>11. ASSUME NEW d \in Digests, NEW x \in Shares, paid'[d][x] > 0 PROVE IsSlashed(bonds'[d])
  <2>1. CASE d = c.digest
    BY <1>5, <2>1
  <2>2. CASE d # c.digest
    <3>1. paid[d][x] > 0
      BY <1>0, <1>6, <1>11, <2>2
    <3>. QED BY <3>1 DEF SettlerInv
  <2>. QED BY <2>1, <2>2
<1>12. ASSUME NEW d \in Digests, NEW i \in DOMAIN Split PROVE Counted(d, i)'
  <2>1. PICK P, O : P = Past(tasks, d, i) /\ O = Owing(tasks, d, i)
    OBVIOUS
  <2>2. PICK now : now = tasks'
    OBVIOUS
  <2>3. PICK PNow, ONow : PNow = Past(now, d, i) /\ ONow = Owing(now, d, i)
    OBVIOUS
  <2>4. IsFiniteSet(P) /\ IsFiniteSet(O) /\ Cardinality(P) \in Nat /\ Cardinality(O) \in Nat
        /\ Cardinality(PNow) \in Nat /\ Cardinality(ONow) \in Nat
    BY <2>1, <2>3, TaskSets
  <2>5. PNow = Past(tasks', d, i) /\ ONow = Owing(tasks', d, i)
    BY <2>2, <2>3
  <2>6. /\ paid[d][Split[i].leg] \in Nat /\ settled[d] \in Nat /\ attempts[d] \in Nat
        /\ attempts'[d] = attempts[d] /\ settled'[d] = settled[d]
        /\ Split[i].leg \in Shares /\ Split[i].amount \in Nat
    BY SettlerFields
  <2>7. i \in Nat /\ i \in 1 .. Len(Split)
    BY LegsOfSplit
  <2>8. \A u \in Tasks \ {t} : now[u] = tasks[u]
    BY <1>7, <2>2
  <2>9. now[t] = w
    BY <1>7, <2>2
  <2>10. CASE landed /\ d = c.digest /\ i = k
    <3>1. PNow \subseteq P \cup {t}
      BY <2>1, <2>3, <2>8 DEF Past
    <3>2. Cardinality(PNow) <= Cardinality(P) + 1
      BY <2>4, <3>1, OneTaskMore
    <3>3. t \in O
      BY <1>2, <1>4, <2>1, <2>10 DEF Owing
    <3>4. t \notin ONow
      <4>1. w.at = "disburse" => ~(w.leg <= i) /\ d \notin w.rest
        BY <1>1, <1>4, <1>7, <2>10
      <4>. QED BY <2>3, <2>9, <4>1 DEF Owing
    <3>5. ONow \subseteq O
      BY <2>1, <2>3, <2>8, <3>4 DEF Owing
    <3>6. Cardinality(ONow) + 1 <= Cardinality(O)
      BY <2>4, <3>3, <3>4, <3>5, FewerTasks
    <3>7. IsSlashed(bonds'[d]) =>
            IsSlashed(bonds[d]) /\ settled'[d] + Cardinality(PNow) <= settled[d] + Cardinality(P) + 1
      BY <2>4, <2>6, <3>2
    <3>8. Cardinality(ONow) + 1 + attempts[d] <= Cardinality(O) + attempts'[d]
      BY <2>4, <2>6, <3>6
    <3>9. paid'[d][Split[i].leg] = paid[d][Split[i].leg] + (IF 1 = 1 THEN Split[i].amount ELSE 0)
      BY <1>3, <1>6, <2>6, <2>10
    <3>10. settled'[d] \in Nat /\ attempts'[d] \in Nat
      BY <2>6
    <3>. QED BY <2>1, <2>5, <3>7, <3>8, <3>9, <3>10, ShareCounted
  <2>11. CASE ~(landed /\ d = c.digest /\ i = k)
    <3>1. PNow \subseteq P
      <4>1. w.at = "disburse" /\ w.digest = d /\ w.leg > i => c.digest = d /\ c.leg > i
        BY <1>2, <1>4, <1>7, <2>7, <2>11
      <4>. QED BY <2>1, <2>3, <2>8, <2>9, <4>1 DEF Past
    <3>2. ONow \subseteq O
      <4>1. w.at = "disburse" /\ w.digest = d /\ w.leg <= i => c.digest = d /\ c.leg <= i
        BY <1>2, <1>4, <1>7, <2>7
      <4>2. w.at = "disburse" /\ d \in w.rest => d \in c.rest
        BY <1>7
      <4>. QED BY <2>1, <2>3, <2>8, <2>9, <4>1, <4>2 DEF Owing
    <3>3. Cardinality(PNow) <= Cardinality(P) /\ Cardinality(ONow) <= Cardinality(O)
      BY <2>4, <3>1, <3>2, FewerTasks
    <3>4. IsSlashed(bonds'[d]) =>
            IsSlashed(bonds[d]) /\ settled'[d] + Cardinality(PNow) <= settled[d] + Cardinality(P) + 0
      BY <2>4, <2>6, <3>3
    <3>5. Cardinality(ONow) + 0 + attempts[d] <= Cardinality(O) + attempts'[d]
      BY <2>4, <2>6, <3>3
    <3>6. ~(landed /\ d = c.digest /\ Split[i].leg = s)
      BY <1>3, <2>11, LegsOfSplit
    <3>7. paid'[d][Split[i].leg] = paid[d][Split[i].leg] + (IF 0 = 1 THEN Split[i].amount ELSE 0)
      BY <1>6, <2>6, <3>6
    <3>8. settled'[d] \in Nat /\ attempts'[d] \in Nat
      BY <2>6
    <3>. QED BY <2>1, <2>5, <3>4, <3>5, <3>7, <3>8, ShareCounted
  <2>. QED BY <2>10, <2>11
<1>. QED BY <1>8, <1>9, <1>10, <1>11, <1>12 DEF SettlerInv
LEMMA InitSettlerInv == SettlerInit => SettlerInv
<1>. SUFFICES ASSUME SettlerInit PROVE SettlerInv
  OBVIOUS
<1>1. SettlerTypeOK
  BY MachineAssumption, SettlerAssumption
     DEF SettlerInit, SettlerTypeOK, MachineTypeOK, MachineInit, Entries, Places
<1>2. \A t \in Tasks : tasks[t].at = "idle"
  BY DEF SettlerInit, NoCall
<1>3. \A t \in Tasks : AtWork(tasks[t], bonds)
  BY <1>2 DEF AtWork
<1>4. ASSUME NEW d \in Digests, NEW i \in DOMAIN Split PROVE Counted(d, i)
  <2>1. PICK none : none = {}
    OBVIOUS
  <2>2. Past(tasks, d, i) = none /\ Owing(tasks, d, i) = none
    BY <1>2, <2>1 DEF Past, Owing
  <2>3. Cardinality(none) = 0
    BY <2>1, FS_EmptySet
  <2>4. paid[d][Split[i].leg] = 0 /\ settled[d] = 0 /\ attempts[d] = 0
    BY LegsOfSplit DEF SettlerInit
  <2>5. PICK a \in Nat : a = Split[i].amount
    BY LegsOfSplit
  <2>6. 0 \in Nat /\ 0 * a = 0
    OBVIOUS
  <2>7. PaidTimes(0, a, 0, 0, 0, 0, IsSlashed(bonds[d]))
    BY <2>6 DEF PaidTimes
  <2>. QED BY <2>2, <2>3, <2>4, <2>5, <2>7 DEF Counted
<1>. QED BY <1>1, <1>3, <1>4 DEF SettlerInv, SettlerInit

LEMMA MachineDecides ==
  ASSUME SettlerInv, Decides
  PROVE  MachineTypeOK' /\ \A d \in Digests : Final(bonds[d]) => bonds'[d] = bonds[d]
<1>1. MachineTypeOK /\ clock \in Nat
  BY MachineAssumption DEF SettlerInv, SettlerTypeOK
<1>2. MachineTypeOK' /\ \A d \in Digests : Onward(bonds[d], bonds'[d])
  BY <1>1, MachineMovesOn
<1>. QED BY <1>2 DEF Onward

LEMMA SettlerStep == SettlerInv /\ [SettlerNext]_settlerVars => SettlerInv'
<1>. SUFFICES ASSUME SettlerInv, [SettlerNext]_settlerVars PROVE SettlerInv'
  OBVIOUS
<1>. MachineTypeOK /\ clock \in 0 .. MaxTime
  BY DEF SettlerInv, SettlerTypeOK
<1>1. CASE SettlerTick \/ UNCHANGED settlerVars
  <2>1. UNCHANGED <<bonds, tasks, paid, lastTransfers, faults, attempts, settled>> /\ clock' \in 0 .. MaxTime
    BY <1>1, MachineAssumption DEF SettlerTick, settlerVars
  <2>2. MachineTypeOK' /\ \A d \in Digests : Final(bonds[d]) => bonds'[d] = bonds[d]
    BY <2>1 DEF MachineTypeOK
  <2>. QED BY <2>1, <2>2, MachineStepKeeps
<1>2. ASSUME NEW d \in Digests, NEW dl \in Deadlines, OpenBond(d, dl) PROVE SettlerInv'
  <2>1. bonds[d] = Absent /\ bonds' = [bonds EXCEPT ![d] = Escrowed(dl)]
        /\ UNCHANGED <<clock, tasks, paid, lastTransfers, faults, attempts, settled>>
    BY <1>2 DEF OpenBond, OnMachine, Open
  <2>2. Escrowed(dl) \in Entries
    BY MachineAssumption DEF Escrowed, Entries
  <2>3. MachineTypeOK' /\ \A x \in Digests : Final(bonds[x]) => bonds'[x] = bonds[x]
    BY <2>1, <2>2 DEF MachineTypeOK, Final, Absent
  <2>. QED BY <2>1, <2>3, MachineStepKeeps
<1>3. ASSUME NEW d \in Digests,
             \/ \E o \in Outcomes : FillBond(d, o) \/ ResolveByProof(d, o)
             \/ Challenge(d)
             \/ \E won \in BOOLEAN : Resolve(d, won)
      PROVE  SettlerInv'
  <2>1. Decides
    BY <1>3 DEF FillBond, ResolveByProof, Challenge, Resolve, OnMachine, Decides
  <2>2. UNCHANGED <<clock, tasks, paid, lastTransfers, faults, attempts, settled>>
    BY <1>3 DEF FillBond, ResolveByProof, Challenge, Resolve, OnMachine
  <2>3. MachineTypeOK' /\ \A x \in Digests : Final(bonds[x]) => bonds'[x] = bonds[x]
    BY <2>1, MachineDecides
  <2>. QED BY <2>2, <2>3, MachineStepKeeps
<1>4. ASSUME NEW t \in Tasks, NEW d \in Digests, FinalizeAndSettle(t, d) PROVE SettlerInv'
  <2>1. tasks[t] = NoCall /\ Finalize(d, clock) /\ Decides /\ MovesOn(t, Disbursing({d}))
        /\ attempts' = [attempts EXCEPT ![d] = @ + 1]
        /\ UNCHANGED <<clock, paid, lastTransfers, faults, settled>>
    BY <1>4 DEF FinalizeAndSettle, Decides
  <2>2. MachineTypeOK' /\ \A x \in Digests : Final(bonds[x]) => bonds'[x] = bonds[x]
    BY <2>1, MachineDecides
  <2>3. Final(bonds'[d])
    BY <2>1, FinalizeDecides
  <2>4. PICK S : S = {d}
    OBVIOUS
  <2>5. S \subseteq Digests /\ MovesOn(t, Disbursing(S)) /\ \A x \in S : Final(bonds'[x])
    BY <2>1, <2>3, <2>4
  <2>6. /\ attempts' \in [Digests -> Nat]
        /\ \A x \in Digests : attempts'[x] = attempts[x] + (IF x \in S THEN 1 ELSE 0)
    BY <2>1, <2>4 DEF SettlerInv, SettlerTypeOK
  <2>. QED BY <2>1, <2>2, <2>5, <2>6, BeginKeeps
<1>5. ASSUME NEW t \in Tasks, SweepAndSettle(t) PROVE SettlerInv'
  <2>1. PICK S : S = SweptBy(clock)
    OBVIOUS
  <2>2. tasks[t] = NoCall /\ Sweep(clock) /\ Decides /\ MovesOn(t, Disbursing(S))
        /\ attempts' = [d \in Digests |-> IF d \in S THEN attempts[d] + 1 ELSE attempts[d]]
        /\ UNCHANGED <<clock, paid, lastTransfers, faults, settled>>
    BY <1>5, <2>1 DEF SweepAndSettle, Decides
  <2>3. MachineTypeOK' /\ \A x \in Digests : Final(bonds[x]) => bonds'[x] = bonds[x]
    BY <2>2, MachineDecides
  <2>4. S \subseteq Digests /\ \A x \in S : Final(bonds'[x])
    BY <2>1, <2>2, SweepDecides DEF SweptBy
  <2>5. /\ attempts' \in [Digests -> Nat]
        /\ \A x \in Digests : attempts'[x] = attempts[x] + (IF x \in S THEN 1 ELSE 0)
    BY <2>2 DEF SettlerInv, SettlerTypeOK
  <2>. QED BY <2>2, <2>3, <2>4, <2>5, BeginKeeps
<1>6. ASSUME NEW t \in Tasks, DisburseHonored(t) \/ DisburseSlashed(t) PROVE SettlerInv'
  <2>1. PICK c : c = tasks[t]
    OBVIOUS
  <2>2. CASE DisburseHonored(t)
    <3>1. c.at = "disburse" /\ bonds[c.digest].outcome = "Honored" /\ Returns(t, <<>>)
      BY <2>1, <2>2 DEF DisburseHonored, MovesNothing, Disburses
    <3>2. ~IsSlashed(bonds[c.digest])
      BY <3>1 DEF IsSlashed
    <3>. QED BY <2>1, <3>1, <3>2, ReturnKeeps
  <2>3. CASE DisburseSlashed(t)
    <3>1. c.at = "disburse" /\ c.leg > Len(Split) /\ Returns(t, Split)
      BY <2>1, <2>3 DEF DisburseSlashed
    <3>. QED BY <2>1, <3>1, ReturnKeeps
  <2>. QED BY <1>6, <2>2, <2>3
<1>7. ASSUME NEW t \in Tasks, TransferConfirmed(t) PROVE SettlerInv'
  <2>1. PICK c : c = tasks[t]
    OBVIOUS
  <2>2. /\ c.at = "disburse" /\ ~MovesNothing(t) /\ c.leg <= Len(Split) /\ Lands(t)
        /\ tasks' = [tasks EXCEPT ![t].leg = @ + 1]
        /\ UNCHANGED <<bonds, clock, lastTransfers, faults, attempts, settled>>
    BY <1>7, <2>1 DEF TransferConfirmed
  <2>3. PICK w : w = [at |-> "disburse", digest |-> c.digest, leg |-> c.leg + 1, rest |-> c.rest]
    OBVIOUS
  <2>4. c \in Places /\ c # NoCall
    BY <2>1, <2>2 DEF SettlerInv, SettlerTypeOK, NoCall
  <2>5. w = [c EXCEPT !.leg = @ + 1]
    BY <2>2, <2>3, <2>4 DEF Places
  <2>6. tasks' = [tasks EXCEPT ![t] = w]
    BY <2>1, <2>2, <2>5
  <2>7. faults' \in 0 .. MaxFaults
    BY <2>2 DEF SettlerInv, SettlerTypeOK
  <2>8. TRUE \in BOOLEAN /\ IF TRUE THEN Lands(t) ELSE UNCHANGED paid
    BY <2>2
  <2>9. (w = [at |-> "disburse", digest |-> c.digest, leg |-> c.leg + 1, rest |-> c.rest] /\ TRUE) \/ w = NoCall
    BY <2>3
  <2>. QED BY <2>1, <2>2, <2>6, <2>7, <2>8, <2>9, TransferKeeps
<1>8. ASSUME NEW t \in Tasks, TransferFails(t) PROVE SettlerInv'
  <2>1. PICK c : c = tasks[t]
    OBVIOUS
  <2>2. /\ c.at = "disburse" /\ ~MovesNothing(t) /\ c.leg <= Len(Split)
        /\ faults < MaxFaults /\ faults' = faults + 1
        /\ Lands(t) \/ UNCHANGED paid
        /\ tasks' = [tasks EXCEPT ![t] = NoCall]
        /\ UNCHANGED <<bonds, clock, lastTransfers, attempts, settled>>
    BY <1>8, <2>1 DEF TransferFails
  <2>3. PICK landed \in BOOLEAN : IF landed THEN Lands(t) ELSE UNCHANGED paid
    BY <2>2
  <2>4. faults' \in 0 .. MaxFaults
    BY <2>2, SettlerAssumption DEF SettlerInv, SettlerTypeOK
  <2>5. PICK w : w = NoCall
    OBVIOUS
  <2>6. tasks' = [tasks EXCEPT ![t] = w]
    BY <2>2, <2>5
  <2>7. \/ w = [at |-> "disburse", digest |-> c.digest, leg |-> c.leg + 1, rest |-> c.rest] /\ landed
        \/ w = NoCall
    BY <2>5
  <2>. QED BY <2>1, <2>2, <2>3, <2>4, <2>6, <2>7, TransferKeeps
<1>. QED BY <1>1, <1>2, <1>3, <1>4, <1>5, <1>6, <1>7, <1>8 DEF SettlerNext, Proceed

LEMMA SettlerInvHolds == SettlerSpec => []SettlerInv
BY InitSettlerInv, SettlerStep, PTL DEF SettlerSpec

(* What a settlement reports it has done: for each one that returned Ok    *)
(* for a slashed bond, every share landed in full (optimistic.rs,          *)
(* settle_split, disburse).                                                *)
THEOREM OkWasPaid == SettlerSpec => []OkMeansPaid
<1>1. SettlerInv => OkMeansPaid
  <2>. SUFFICES ASSUME SettlerInv, NEW d \in Digests, NEW i \in DOMAIN Split,
                       IsFinal(d), bonds[d].outcome = "Slashed"
                PROVE  paid[d][Split[i].leg] >= settled[d] * Split[i].amount
    BY DEF OkMeansPaid
  <2>1. PICK p \in Nat, a \in Nat, ok \in Nat :
          p = paid[d][Split[i].leg] /\ a = Split[i].amount /\ ok = settled[d]
    BY SettlerFields
  <2>2. PICK P : P = Past(tasks, d, i)
    OBVIOUS
  <2>3. PICK past \in Nat : past = Cardinality(P)
    BY <2>2, TaskSets
  <2>4. IsSlashed(bonds[d])
    BY DEF IsSlashed, IsFinal, Final
  <2>5. PICK k \in Nat : p = k * a /\ ok + past <= k
    BY <2>1, <2>2, <2>3, <2>4 DEF SettlerInv, Counted, PaidTimes
  <2>6. ok <= k
    BY <2>5
  <2>7. a * ok <= a * k
    BY <2>6, ProductGrows
  <2>8. a * ok = ok * a /\ a * k = k * a /\ a * ok \in Nat /\ a * k \in Nat
    BY ProductIsNat
  <2>9. p >= ok * a
    BY <2>5, <2>7, <2>8
  <2>. QED BY <2>1, <2>9
<1>. QED BY <1>1, SettlerInvHolds, PTL

(* Only a bond that is final and slashed moves money, and a share of it no *)
(* more often than settlements of it began, whatever tasks, sweeps and     *)
(* errors mix (machine.rs, BondState; optimistic.rs).                      *)
THEOREM PaidOncePerAttempt == SettlerSpec => []PaidPerAttempt
<1>1. SettlerInv => PaidPerAttempt
  <2>. SUFFICES ASSUME SettlerInv, NEW d \in Digests, NEW i \in DOMAIN Split
                PROVE  /\ paid[d][Split[i].leg] > 0 => IsFinal(d) /\ bonds[d].outcome = "Slashed"
                       /\ paid[d][Split[i].leg] <= attempts[d] * Split[i].amount
    BY DEF PaidPerAttempt, SettlerInv
  <2>1. PICK p \in Nat, a \in Nat, n \in Nat :
          p = paid[d][Split[i].leg] /\ a = Split[i].amount /\ n = attempts[d]
    BY SettlerFields
  <2>2. PICK O : O = Owing(tasks, d, i)
    OBVIOUS
  <2>3. PICK owing \in Nat : owing = Cardinality(O)
    BY <2>2, TaskSets
  <2>4. PICK k \in Nat : p = k * a /\ k + owing <= n
    BY <2>1, <2>2, <2>3 DEF SettlerInv, Counted, PaidTimes
  <2>5. k <= n
    BY <2>4
  <2>6. a * k <= a * n
    BY <2>5, ProductGrows
  <2>7. a * n = n * a /\ a * k = k * a /\ a * n \in Nat /\ a * k \in Nat
    BY ProductIsNat
  <2>8. p <= n * a
    BY <2>4, <2>6, <2>7
  <2>9. p > 0 => IsFinal(d) /\ bonds[d].outcome = "Slashed"
    BY <2>1, SettlerFields DEF SettlerInv, IsSlashed, IsFinal, Final
  <2>. QED BY <2>1, <2>8, <2>9
<1>. QED BY <1>1, SettlerInvHolds, PTL
=============================================================================
