-------------------------- MODULE TimeLockVaultProofs --------------------------
(***************************************************************************)
(* What TimeLockVault guarantees for every set of mints, pairs, depositors *)
(* and fees.  The inductive invariant is the typing, the solvency of each  *)
(* account, and what a position remembers of its deposit.                  *)
(***************************************************************************)
EXTENDS TimeLockVault, SumLemmas

(* A position lies at the address of its vault and depositor, and its date *)
(* is never nearer than the shortest lock.                                 *)
PositionOK(k) ==
  /\ position[k].vault = k.vault
  /\ position[k].depositor = k.depositor
  /\ position[k].unlock >= position[k].created + MinLock

IInv ==
  /\ TypeOK
  /\ VaultIsSolvent
  /\ \A v \in Pairs : ~Exists(v) => balance[v] = [l \in Legs |-> 0]
  /\ \A v \in Pairs : ~Exists(v) => donated[v] = [l \in Legs |-> 0]
  /\ \A k \in Addresses : Open(k) => PositionOK(k)

LEMMA InitIInv == Init => IInv
<1> SUFFICES ASSUME Init PROVE IInv
  OBVIOUS
<1>1. TypeOK
  BY VaultAssumption DEF Init, TypeOK
<1>2. QED
  BY <1>1 DEF IInv, Init, VaultIsSolvent, Exists, Open, NoVault, NoPosition

LEMMA TickStep == IInv /\ Tick => IInv'
<1> SUFFICES ASSUME IInv, Tick PROVE IInv'
  OBVIOUS
<1>1. TypeOK'
  BY DEF IInv, TypeOK, Tick
<1>2. QED
  BY <1>1 DEF IInv, Tick, VaultIsSolvent, Exists, Open, PositionOK

LEMMA InitializeStep ==
  ASSUME IInv, NEW v \in Pairs, InitializeVault(v)
  PROVE  IInv'
<1>1. vault' = [vault EXCEPT ![v] = [exists |-> TRUE, locked |-> [l \in Legs |-> 0],
                                     open |-> 0, lifetime |-> 0]]
  BY DEF InitializeVault
<1>2. TypeOK'
  <2>1. PICK r \in VaultRecords :
          r = [exists |-> TRUE, locked |-> [l \in Legs |-> 0], open |-> 0, lifetime |-> 0]
    BY DEF VaultRecords
  <2>2. vault' = [vault EXCEPT ![v] = r]
    BY <1>1, <2>1
  <2>3. vault' \in [Pairs -> {NoVault} \cup VaultRecords]
    BY <2>2 DEF IInv, TypeOK
  <2>4. QED BY <2>3 DEF IInv, TypeOK, InitializeVault
<1>3. ASSUME NEW u \in Pairs
      PROVE  /\ Exists(u)' => \A l \in Legs : (balance[u][l] = vault[u].locked[l] + donated[u][l])'
             /\ ~Exists(u)' => balance'[u] = [l \in Legs |-> 0] /\ donated'[u] = [l \in Legs |-> 0]
  <2>1. CASE u = v
    <3>1. balance'[v] = [l \in Legs |-> 0] /\ donated'[v] = [l \in Legs |-> 0]
      BY DEF InitializeVault, IInv
    <3>2. vault'[v].exists /\ vault'[v].locked = [l \in Legs |-> 0]
      BY <1>1 DEF IInv, TypeOK
    <3>3. QED BY <2>1, <3>1, <3>2 DEF Exists
  <2>2. CASE u # v
    BY <2>2 DEF InitializeVault, IInv, TypeOK, VaultIsSolvent, Exists
  <2>3. QED BY <2>1, <2>2
<1>4. \A k \in Addresses : Open(k)' => PositionOK(k)'
  BY DEF IInv, InitializeVault, Open, PositionOK
<1>5. QED BY <1>2, <1>3, <1>4 DEF IInv, VaultIsSolvent

(* A mint keeps no more of a transfer than was sent.                       *)
LEMMA FeesAreWithin ==
  ASSUME NEW v \in Pairs, NEW amount \in [Legs -> Nat], NEW fee \in FeesFor(v, amount)
  PROVE  fee \in [Legs -> Nat] /\ \A l \in Legs : fee[l] <= amount[l]
<1>1. \A l \in Legs : v[l] \in Mints /\ fee[l] \in Fees[v[l]] /\ fee[l] <= amount[l]
  BY VaultAssumption DEF FeesFor
<1>2. \A l \in Legs : Fees[v[l]] \subseteq Nat
  BY <1>1, VaultAssumption
<1>3. QED BY <1>1, <1>2 DEF FeesFor

(* A party whose accounts cover the change has accounts of the same type.  *)
LEMMA ChangedIsTyped ==
  ASSUME TypeOK, NEW who \in Depositors, NEW v \in Pairs, NEW change \in [Legs -> Int],
         \A l \in Legs : tokens[who][v[l]] + change[l] >= 0
  PROVE  Changed(who, v, change) \in [Depositors -> [Mints -> Nat]]
<1> DEFINE mine == [m \in Mints |-> IF m = v["token"] THEN tokens[who][m] + change["token"]
                                    ELSE IF m = v["backing"] THEN tokens[who][m] + change["backing"]
                                    ELSE tokens[who][m]]
<1>1. ASSUME NEW m \in Mints PROVE mine[m] \in Nat
  BY <1>1 DEF TypeOK, Legs
<1>2. mine \in [Mints -> Nat]
  BY <1>1
<1>3. Changed(who, v, change) = [tokens EXCEPT ![who] = mine]
  BY DEF Changed
<1> HIDE DEF mine
<1>4. QED BY <1>2, <1>3 DEF TypeOK

LEMMA DepositStep ==
  ASSUME IInv, NEW who \in Depositors, NEW v \in Pairs, NEW nonce \in Nonces,
         NEW ask \in Asks, NEW secs \in LockSecs, Deposit(who, v, nonce, ask, secs)
  PROVE  IInv'
<1>1. PICK k \in Addresses : k = [vault |-> v, depositor |-> who, nonce |-> nonce]
  BY DEF Addresses
<1>2. /\ Exists(v) /\ ~Open(k) /\ Lockable(secs)
      /\ \A l \in Legs : tokens[who][v[l]] >= ask[l]
      /\ tokens' = Changed(who, v, [l \in Legs |-> -ask[l]])
      /\ UNCHANGED <<clock, donated>>
  BY <1>1 DEF Deposit
<1>3. PICK fee \in FeesFor(v, ask) :
        /\ balance' = [balance EXCEPT ![v] = [l \in Legs |-> @[l] + ask[l] - fee[l]]]
        /\ vault' = [vault EXCEPT ![v] = Locked(@, Credited(ask, fee))]
        /\ position' = [position EXCEPT ![k] =
                          [open |-> TRUE, vault |-> v, depositor |-> who,
                           amount |-> Credited(ask, fee), created |-> clock,
                           unlock |-> clock + secs]]
  BY <1>1 DEF Deposit
<1>4. ask \in [Legs -> Nat] /\ fee \in [Legs -> Nat] /\ \A l \in Legs : fee[l] <= ask[l]
  <2>1. ask \in [Legs -> Nat]
    BY VaultAssumption
  <2>2. QED BY <2>1, FeesAreWithin
<1>5. PICK credit \in [Legs -> Nat] :
        /\ credit = Credited(ask, fee)
        /\ \A l \in Legs : credit[l] = ask[l] - fee[l]
  <2>1. \A l \in Legs : ask[l] - fee[l] \in Nat
    BY <1>4
  <2>2. [l \in Legs |-> ask[l] - fee[l]] \in [Legs -> Nat]
    BY <2>1
  <2>3. QED BY <2>2 DEF Credited
<1>6. PICK r \in VaultRecords : r = vault[v]
  BY <1>2 DEF IInv, TypeOK, Exists, NoVault
<1>7. PICK q \in VaultRecords :
        /\ q = Locked(r, credit)
        /\ \A l \in Legs : q.locked[l] = r.locked[l] + credit[l]
  <2>1. r.locked \in [Legs -> Nat] /\ r.open \in Nat /\ r.lifetime \in Nat
    BY DEF VaultRecords
  <2>2. PICK h \in [Legs -> Nat] : h = [l \in Legs |-> r.locked[l] + credit[l]]
    <3>1. \A l \in Legs : r.locked[l] + credit[l] \in Nat
      BY <2>1
    <3>2. [l \in Legs |-> r.locked[l] + credit[l]] \in [Legs -> Nat]
      BY <3>1
    <3>3. QED BY <3>2
  <2>3. Locked(r, credit) = [r EXCEPT !.locked = h, !.open = @ + 1, !.lifetime = @ + 1]
    BY <2>2 DEF Locked
  <2>4. Locked(r, credit) \in VaultRecords /\ Locked(r, credit).locked = h
    <3>1. Locked(r, credit) = [exists |-> TRUE, locked |-> h, open |-> r.open + 1,
                               lifetime |-> r.lifetime + 1]
      BY <2>3 DEF VaultRecords
    <3>2. r.open + 1 \in Nat /\ r.lifetime + 1 \in Nat
      BY <2>1
    <3>3. QED BY <3>1, <3>2 DEF VaultRecords
  <2>5. QED BY <2>2, <2>4
<1>8. PICK p \in PositionRecords :
        /\ p = [open |-> TRUE, vault |-> v, depositor |-> who, amount |-> credit,
                created |-> clock, unlock |-> clock + secs]
        /\ p.unlock >= p.created + MinLock
  <2>1. clock \in Nat /\ secs \in Nat /\ secs >= MinLock
    BY <1>2, VaultAssumption DEF IInv, TypeOK, Lockable
  <2>2. clock + secs \in Nat /\ clock + secs >= clock + MinLock
    BY <2>1, VaultAssumption
  <2>3. PICK u \in Nat : u = clock + secs
    BY <2>2
  <2>4. [open |-> TRUE, vault |-> v, depositor |-> who, amount |-> credit,
         created |-> clock, unlock |-> u] \in PositionRecords
    BY <2>1 DEF PositionRecords
  <2>5. QED BY <2>2, <2>3, <2>4
<1>9. vault' = [vault EXCEPT ![v] = q] /\ position' = [position EXCEPT ![k] = p]
  BY <1>3, <1>5, <1>6, <1>7, <1>8
<1>10. PICK b \in [Legs -> Nat] :
         /\ \A l \in Legs : b[l] = balance[v][l] + credit[l]
         /\ balance' = [balance EXCEPT ![v] = b]
  <2>1. balance[v] \in [Legs -> Nat]
    BY DEF IInv, TypeOK
  <2>2. [l \in Legs |-> balance[v][l] + ask[l] - fee[l]] \in [Legs -> Nat]
    BY <1>4, <2>1
  <2>3. \A l \in Legs : balance[v][l] + ask[l] - fee[l] = balance[v][l] + credit[l]
    BY <1>4, <1>5, <2>1
  <2>4. QED BY <1>3, <2>2, <2>3
<1>11. tokens' \in [Depositors -> [Mints -> Nat]]
  <2>1. PICK change \in [Legs -> Int] : change = [l \in Legs |-> -ask[l]]
    <3>1. \A l \in Legs : -ask[l] \in Int
      BY <1>4
    <3>2. [l \in Legs |-> -ask[l]] \in [Legs -> Int]
      BY <3>1
    <3>3. QED BY <3>2
  <2>2. \A l \in Legs : tokens[who][v[l]] + change[l] >= 0
    BY <1>2, <1>4, <2>1, VaultAssumption DEF IInv, TypeOK
  <2>3. Changed(who, v, change) \in [Depositors -> [Mints -> Nat]]
    BY <2>2, ChangedIsTyped DEF IInv
  <2>4. QED BY <1>2, <2>1, <2>3
<1>12. TypeOK'
  BY <1>2, <1>9, <1>10, <1>11 DEF IInv, TypeOK
<1>13. ASSUME NEW u \in Pairs
       PROVE  /\ Exists(u)' => \A l \in Legs : (balance[u][l] = vault[u].locked[l] + donated[u][l])'
              /\ ~Exists(u)' => balance'[u] = [l \in Legs |-> 0] /\ donated'[u] = [l \in Legs |-> 0]
  <2>1. CASE u = v
    <3>1. \A l \in Legs : balance[v][l] = r.locked[l] + donated[v][l]
      BY <1>2, <1>6 DEF IInv, VaultIsSolvent
    <3>2. \A l \in Legs : balance[v][l] \in Nat /\ r.locked[l] \in Nat /\ donated[v][l] \in Nat
      BY <1>6 DEF IInv, TypeOK, VaultRecords
    <3>3. \A l \in Legs : b[l] = q.locked[l] + donated[v][l]
      BY <1>7, <1>10, <3>1, <3>2
    <3>4. vault'[v] = q /\ balance'[v] = b /\ donated' = donated /\ q.exists
      BY <1>2, <1>9, <1>10 DEF IInv, TypeOK, VaultRecords
    <3>5. QED BY <2>1, <3>3, <3>4 DEF Exists
  <2>2. CASE u # v
    BY <1>2, <1>9, <1>10, <2>2 DEF IInv, TypeOK, VaultIsSolvent, Exists
  <2>3. QED BY <2>1, <2>2
<1>14. ASSUME NEW j \in Addresses, Open(j)' PROVE PositionOK(j)'
  <2>1. CASE j = k
    BY <1>1, <1>8, <1>9, <2>1 DEF IInv, TypeOK, PositionOK
  <2>2. CASE j # k
    BY <1>9, <1>14, <2>2 DEF IInv, TypeOK, PositionOK, Open
  <2>3. QED BY <2>1, <2>2
<1>15. QED BY <1>12, <1>13, <1>14 DEF IInv, VaultIsSolvent

LEMMA ExtendStep ==
  ASSUME IInv, NEW who \in Depositors, NEW k \in Addresses, NEW date \in 0 .. MaxTime,
         ExtendLock(who, k, date)
  PROVE  IInv'
<1>1. PICK p \in PositionRecords : p = position[k]
  BY DEF ExtendLock, Open, NoPosition, IInv, TypeOK
<1>2. p.vault = k.vault /\ p.depositor = k.depositor /\ p.unlock >= p.created + MinLock
  BY <1>1 DEF IInv, ExtendLock, PositionOK
<1>3. PICK q \in PositionRecords :
        /\ q = [p EXCEPT !.unlock = date]
        /\ q.vault = p.vault /\ q.depositor = p.depositor /\ q.created = p.created
        /\ q.unlock >= p.unlock
  <2>1. date \in Nat /\ date > p.unlock
    BY <1>1, VaultAssumption DEF ExtendLock, Extends
  <2>2. [p EXCEPT !.unlock = date] \in PositionRecords
    BY <2>1 DEF PositionRecords
  <2>3. PICK q \in PositionRecords : q = [p EXCEPT !.unlock = date]
    BY <2>2
  <2>4. date >= p.unlock
    BY <2>1 DEF PositionRecords
  <2>5. /\ q.vault = p.vault /\ q.depositor = p.depositor /\ q.created = p.created
        /\ q.unlock = date
    BY <2>3 DEF PositionRecords
  <2>6. QED BY <2>3, <2>4, <2>5
<1>4. position' = [position EXCEPT ![k] = q] /\ UNCHANGED <<clock, vault, balance, tokens, donated>>
  BY <1>1, <1>3 DEF ExtendLock
<1>5. TypeOK'
  BY <1>4 DEF IInv, TypeOK
<1>6. ASSUME NEW j \in Addresses, Open(j)' PROVE PositionOK(j)'
  <2>1. CASE j = k
    <3>1. p.unlock \in Nat /\ p.created \in Nat /\ q.unlock \in Nat
      BY DEF PositionRecords
    <3>2. q.unlock >= q.created + MinLock
      BY <1>2, <1>3, <3>1, VaultAssumption
    <3>3. QED BY <1>2, <1>3, <1>4, <2>1, <3>2 DEF IInv, TypeOK, PositionOK
  <2>2. CASE j # k
    BY <1>4, <1>6, <2>2 DEF IInv, TypeOK, PositionOK, Open
  <2>3. QED BY <2>1, <2>2
<1>7. QED BY <1>4, <1>5, <1>6 DEF IInv, VaultIsSolvent, Exists

LEMMA WithdrawStep ==
  ASSUME IInv, NEW who \in Depositors, NEW v \in Pairs, NEW k \in Addresses, Withdraw(who, v, k)
  PROVE  IInv'
<1>1. PICK p \in PositionRecords : p = position[k]
  BY DEF Withdraw, Open, NoPosition, IInv, TypeOK
<1>2. PICK r \in VaultRecords : r = vault[v]
  BY DEF Withdraw, Exists, NoVault, IInv, TypeOK
<1>3. p.amount \in [Legs -> Nat] /\ r.locked \in [Legs -> Nat] /\ balance[v] \in [Legs -> Nat]
  BY DEF PositionRecords, VaultRecords, IInv, TypeOK
<1>4. \A l \in Legs : balance[v][l] - p.amount[l] \in Nat /\ r.locked[l] - p.amount[l] \in Nat
  BY <1>1, <1>2, <1>3 DEF Withdraw
<1>5. PICK b \in [Legs -> Nat] :
        /\ \A l \in Legs : b[l] = balance[v][l] - p.amount[l]
        /\ balance' = [balance EXCEPT ![v] = b]
  <2>1. [l \in Legs |-> balance[v][l] - p.amount[l]] \in [Legs -> Nat]
    BY <1>4
  <2>2. QED BY <1>1, <2>1 DEF Withdraw
<1>6. PICK q \in VaultRecords :
        /\ q = Released(r, p)
        /\ \A l \in Legs : q.locked[l] = r.locked[l] - p.amount[l]
  <2>1. PICK h \in [Legs -> Nat] : h = [l \in Legs |-> r.locked[l] - p.amount[l]]
    <3>1. [l \in Legs |-> r.locked[l] - p.amount[l]] \in [Legs -> Nat]
      BY <1>4
    <3>2. QED BY <3>1
  <2>2. r.open - 1 \in Nat /\ r.lifetime \in Nat
    <3>1. r.open >= 1
      BY <1>2 DEF Withdraw
    <3>2. QED BY <3>1 DEF VaultRecords
  <2>3. Released(r, p) = [r EXCEPT !.locked = h, !.open = @ - 1]
    BY <2>1 DEF Released
  <2>4. Released(r, p) \in VaultRecords /\ Released(r, p).locked = h
    <3>1. Released(r, p) = [exists |-> TRUE, locked |-> h, open |-> r.open - 1,
                            lifetime |-> r.lifetime]
      BY <2>3 DEF VaultRecords
    <3>2. QED BY <2>2, <3>1 DEF VaultRecords
  <2>5. QED BY <2>1, <2>4
<1>7. /\ vault' = [vault EXCEPT ![v] = q]
      /\ position' = [position EXCEPT ![k] = NoPosition]
      /\ UNCHANGED <<clock, donated>>
  BY <1>1, <1>2, <1>6 DEF Withdraw
<1>8. tokens' \in [Depositors -> [Mints -> Nat]]
  <2>1. PICK fee \in FeesFor(v, p.amount) :
          tokens' = Changed(who, v, [l \in Legs |-> p.amount[l] - fee[l]])
    BY <1>1 DEF Withdraw
  <2>2. fee \in [Legs -> Nat] /\ \A l \in Legs : fee[l] <= p.amount[l]
    BY <1>3, FeesAreWithin
  <2>3. \A l \in Legs : p.amount[l] - fee[l] \in Int /\ p.amount[l] - fee[l] >= 0
    BY <1>3, <2>2
  <2>4. PICK change \in [Legs -> Int] : change = [l \in Legs |-> p.amount[l] - fee[l]]
    <3>1. [l \in Legs |-> p.amount[l] - fee[l]] \in [Legs -> Int]
      BY <2>3
    <3>2. QED BY <3>1
  <2>5. \A l \in Legs : tokens[who][v[l]] + change[l] >= 0
    <3>1. \A l \in Legs : tokens[who][v[l]] \in Nat
      BY VaultAssumption DEF IInv, TypeOK
    <3>2. QED BY <2>3, <2>4, <3>1
  <2>6. QED BY <2>1, <2>4, <2>5, ChangedIsTyped DEF IInv
<1>9. TypeOK'
  BY <1>5, <1>7, <1>8 DEF IInv, TypeOK
<1>10. ASSUME NEW u \in Pairs
       PROVE  /\ Exists(u)' => \A l \in Legs : (balance[u][l] = vault[u].locked[l] + donated[u][l])'
              /\ ~Exists(u)' => balance'[u] = [l \in Legs |-> 0] /\ donated'[u] = [l \in Legs |-> 0]
  <2>1. CASE u = v
    <3>1. \A l \in Legs : balance[v][l] = r.locked[l] + donated[v][l]
      BY <1>2 DEF Withdraw, IInv, VaultIsSolvent
    <3>2. \A l \in Legs : donated[v][l] \in Nat
      BY DEF IInv, TypeOK
    <3>3. \A l \in Legs : b[l] = q.locked[l] + donated[v][l]
      BY <1>3, <1>5, <1>6, <3>1, <3>2
    <3>4. vault'[v] = q /\ balance'[v] = b /\ donated' = donated /\ q.exists
      BY <1>5, <1>7 DEF IInv, TypeOK, VaultRecords
    <3>5. QED BY <2>1, <3>3, <3>4 DEF Exists
  <2>2. CASE u # v
    BY <1>5, <1>7, <2>2 DEF IInv, TypeOK, VaultIsSolvent, Exists
  <2>3. QED BY <2>1, <2>2
<1>11. ASSUME NEW j \in Addresses, Open(j)' PROVE PositionOK(j)'
  BY <1>7, <1>11 DEF IInv, TypeOK, PositionOK, Open, NoPosition
<1>12. QED BY <1>9, <1>10, <1>11 DEF IInv, VaultIsSolvent

LEMMA DonateStep ==
  ASSUME IInv, NEW v \in Pairs, NEW l \in Legs, Donate(v, l)
  PROVE  IInv'
<1>1. /\ Exists(v)
      /\ balance' = [balance EXCEPT ![v][l] = @ + 1]
      /\ donated' = [donated EXCEPT ![v][l] = @ + 1]
      /\ UNCHANGED <<clock, vault, position, tokens>>
  BY DEF Donate
<1> DEFINE more(f) == [f EXCEPT ![l] = @ + 1]
<1>2. TypeOK'
  <2>1. \A f \in [Legs -> Nat] : more(f) \in [Legs -> Nat]
    OBVIOUS
  <2>2. balance[v] \in [Legs -> Nat] /\ donated[v] \in [Legs -> Nat]
    BY DEF IInv, TypeOK
  <2>3. /\ balance' = [balance EXCEPT ![v] = more(balance[v])]
        /\ donated' = [donated EXCEPT ![v] = more(donated[v])]
    BY <1>1
  <2> HIDE DEF more
  <2>4. QED BY <1>1, <2>1, <2>2, <2>3 DEF IInv, TypeOK
<1>3. ASSUME NEW u \in Pairs
      PROVE  /\ Exists(u)' => \A i \in Legs : (balance[u][i] = vault[u].locked[i] + donated[u][i])'
             /\ ~Exists(u)' => balance'[u] = [i \in Legs |-> 0] /\ donated'[u] = [i \in Legs |-> 0]
  <2>1. CASE u = v
    <3>1. PICK r \in VaultRecords : r = vault[v]
      BY <1>1 DEF Exists, NoVault, IInv, TypeOK
    <3>2. \A i \in Legs : balance[v][i] = r.locked[i] + donated[v][i]
      BY <1>1, <3>1 DEF IInv, VaultIsSolvent
    <3>3. \A i \in Legs : balance[v][i] \in Nat /\ r.locked[i] \in Nat /\ donated[v][i] \in Nat
      BY <3>1 DEF IInv, TypeOK, VaultRecords
    <3>4. \A i \in Legs : balance'[v][i] = r.locked[i] + donated'[v][i]
      <4>1. balance[v] \in [Legs -> Nat] /\ donated[v] \in [Legs -> Nat]
        BY DEF IInv, TypeOK
      <4>2. balance'[v] = more(balance[v]) /\ donated'[v] = more(donated[v])
        BY <1>1 DEF IInv, TypeOK
      <4>3. \A f \in [Legs -> Nat] : more(f)[l] = f[l] + 1 /\ \A i \in Legs \ {l} : more(f)[i] = f[i]
        OBVIOUS
      <4> HIDE DEF more
      <4>4. QED BY <3>2, <3>3, <4>1, <4>2, <4>3
    <3>5. QED BY <1>1, <2>1, <3>1, <3>4 DEF Exists
  <2>2. CASE u # v
    BY <1>1, <2>2 DEF IInv, TypeOK, VaultIsSolvent, Exists
  <2>3. QED BY <2>1, <2>2
<1>4. \A k \in Addresses : Open(k)' => PositionOK(k)'
  BY <1>1 DEF IInv, PositionOK, Open
<1>5. QED BY <1>2, <1>3, <1>4 DEF IInv, VaultIsSolvent

LEMMA NextIInv == IInv /\ [Next]_vars => IInv'
<1> SUFFICES ASSUME IInv, [Next]_vars PROVE IInv'
  OBVIOUS
<1>1. CASE UNCHANGED vars
  BY <1>1 DEF vars, IInv, TypeOK, VaultIsSolvent, Exists, Open, PositionOK
<1>2. CASE Tick
  BY <1>2, TickStep
<1>3. CASE \E v \in Pairs : InitializeVault(v)
  BY <1>3, InitializeStep
<1>4. CASE \E who \in Depositors, v \in Pairs, nonce \in Nonces, ask \in Asks, secs \in LockSecs :
             Deposit(who, v, nonce, ask, secs)
  BY <1>4, DepositStep
<1>5. CASE \E who \in Depositors, k \in Addresses, date \in 0 .. MaxTime : ExtendLock(who, k, date)
  BY <1>5, ExtendStep
<1>6. CASE \E k \in Addresses : WithdrawAny(k)
  BY <1>6, WithdrawStep DEF WithdrawAny
<1>7. CASE \E v \in Pairs, l \in Legs : Donate(v, l)
  BY <1>7, DonateStep
<1>8. QED BY <1>1, <1>2, <1>3, <1>4, <1>5, <1>6, <1>7 DEF Next

LEMMA InvariantHolds == Spec => []IInv
  BY InitIInv, NextIInv, PTL DEF Spec

(* Every account keeps its type: no balance and no total is ever negative. *)
THEOREM TypeCorrect == Spec => []TypeOK
<1>1. IInv => TypeOK
  BY DEF IInv
<1>2. QED BY <1>1, InvariantHolds, PTL

(* Each account of each vault holds exactly what the vault publishes as    *)
(* locked and what was donated, whatever fees the mints keep.              *)
THEOREM VaultsAreSolvent == Spec => []VaultIsSolvent
<1>1. IInv => VaultIsSolvent
  BY DEF IInv
<1>2. QED BY <1>1, InvariantHolds, PTL

-----------------------------------------------------------------------------
(* What one step may do to the position at an address, and to an account.  *)
Kept(k) ==
  Open(k) =>
    LET p == position[k] IN
    IF Open(k)'
    THEN /\ position'[k] = [p EXCEPT !.unlock = position'[k].unlock]
         /\ position'[k].unlock >= p.unlock
    ELSE /\ clock >= p.unlock /\ clock >= p.created + MinLock
         /\ \A l \in Legs : balance'[p.vault][l] = balance[p.vault][l] - p.amount[l]

RepaidOnly(v, l) ==
  balance'[v][l] < balance[v][l] =>
    \E k \in Addresses :
      /\ k.vault = v /\ Open(k) /\ ~Open(k)' /\ clock >= position[k].unlock
      /\ \A d \in Depositors \ {k.depositor} : tokens'[d] = tokens[d]

LEMMA UntouchedIsKept ==
  ASSUME IInv, NEW k \in Addresses, position'[k] = position[k]
  PROVE  Kept(k)
<1>1. CASE Open(k)
  <2>1. PICK p \in PositionRecords : p = position[k]
    BY <1>1 DEF Open, NoPosition, IInv, TypeOK
  <2>2. p = [p EXCEPT !.unlock = p.unlock] /\ p.unlock >= p.unlock
    BY DEF PositionRecords
  <2>3. QED BY <1>1, <2>1, <2>2 DEF Kept, Open
<1>2. CASE ~Open(k)
  BY <1>2 DEF Kept
<1>3. QED BY <1>1, <1>2

LEMMA WithdrawKeeps ==
  ASSUME IInv, NEW who \in Depositors, NEW v \in Pairs, NEW j \in Addresses, Withdraw(who, v, j)
  PROVE  (\A k \in Addresses : Kept(k)) /\ (\A u \in Pairs, l \in Legs : RepaidOnly(u, l))
<1>1. PICK p \in PositionRecords : p = position[j]
  BY DEF Withdraw, Open, NoPosition, IInv, TypeOK
<1>2. /\ position' = [position EXCEPT ![j] = NoPosition]
      /\ Open(j) /\ p.depositor = who /\ p.vault = v /\ clock >= p.unlock
      /\ balance' = [balance EXCEPT ![v] = [l \in Legs |-> @[l] - p.amount[l]]]
  BY <1>1 DEF Withdraw, MayWithdraw
<1>3. p.vault = j.vault /\ p.depositor = j.depositor /\ p.unlock >= p.created + MinLock
  BY <1>1, <1>2 DEF IInv, PositionOK
<1>4. ~Open(j)'
  BY <1>2 DEF Open, NoPosition, IInv, TypeOK
<1>5. \A l \in Legs : balance'[v][l] = balance[v][l] - p.amount[l]
  BY <1>2 DEF IInv, TypeOK
<1>6. clock >= p.created + MinLock
  <2>1. clock \in Nat /\ p.unlock \in Nat /\ p.created \in Nat /\ MinLock \in Nat
    BY VaultAssumption DEF IInv, TypeOK, PositionRecords
  <2>2. QED BY <1>2, <1>3, <2>1
<1>7. ASSUME NEW k \in Addresses PROVE Kept(k)
  <2>1. CASE k = j
    BY <1>1, <1>2, <1>4, <1>5, <1>6, <2>1 DEF Kept
  <2>2. CASE k # j
    BY <1>2, <2>2, UntouchedIsKept DEF IInv, TypeOK
  <2>3. QED BY <2>1, <2>2
<1>8. ASSUME NEW u \in Pairs, NEW l \in Legs PROVE RepaidOnly(u, l)
  <2>1. \A d \in Depositors \ {j.depositor} : tokens'[d] = tokens[d]
    <3>1. \E change : tokens' = Changed(who, v, change)
      BY DEF Withdraw
    <3>2. QED BY <1>2, <1>3, <3>1 DEF Changed, IInv, TypeOK
  <2>2. CASE u = v
    BY <1>1, <1>2, <1>3, <1>4, <2>1, <2>2 DEF RepaidOnly
  <2>3. CASE u # v
    <3>1. balance'[u] = balance[u] /\ balance[u][l] \in Nat
      BY <1>2, <2>3 DEF IInv, TypeOK
    <3>2. QED BY <3>1 DEF RepaidOnly
  <2>4. QED BY <2>2, <2>3
<1>9. QED BY <1>7, <1>8

LEMMA NothingRepaid ==
  ASSUME IInv, NEW u \in Pairs, NEW l \in Legs, balance'[u][l] >= balance[u][l], IInv'
  PROVE  RepaidOnly(u, l)
<1>1. balance[u][l] \in Nat /\ balance'[u][l] \in Nat
  BY DEF IInv, TypeOK
<1>2. QED BY <1>1 DEF RepaidOnly

LEMMA DepositKeeps ==
  ASSUME IInv, IInv', NEW who \in Depositors, NEW v \in Pairs, NEW nonce \in Nonces,
         NEW ask \in Asks, NEW secs \in LockSecs, Deposit(who, v, nonce, ask, secs)
  PROVE  (\A k \in Addresses : Kept(k)) /\ (\A u \in Pairs, l \in Legs : RepaidOnly(u, l))
<1>1. PICK j \in Addresses : j = [vault |-> v, depositor |-> who, nonce |-> nonce]
  BY DEF Addresses
<1>2. PICK fee \in FeesFor(v, ask) :
        /\ balance' = [balance EXCEPT ![v] = [l \in Legs |-> @[l] + ask[l] - fee[l]]]
        /\ \E p : position' = [position EXCEPT ![j] = p]
  BY <1>1 DEF Deposit
<1>3. ask \in [Legs -> Nat] /\ fee \in [Legs -> Nat] /\ \A l \in Legs : fee[l] <= ask[l]
  <2>1. ask \in [Legs -> Nat]
    BY VaultAssumption
  <2>2. QED BY <2>1, FeesAreWithin
<1>4. ASSUME NEW k \in Addresses PROVE Kept(k)
  <2>1. CASE k = j
    BY <1>1, <2>1 DEF Deposit, Kept
  <2>2. CASE k # j
    BY <1>2, <2>2, UntouchedIsKept DEF IInv, TypeOK
  <2>3. QED BY <2>1, <2>2
<1>5. ASSUME NEW u \in Pairs, NEW l \in Legs PROVE RepaidOnly(u, l)
  <2>1. balance'[u][l] = balance[u][l] \/ balance'[u][l] = balance[u][l] + ask[l] - fee[l]
    BY <1>2 DEF IInv, TypeOK
  <2>2. balance[u][l] \in Nat /\ ask[l] \in Nat /\ fee[l] \in Nat /\ fee[l] <= ask[l]
    BY <1>3 DEF IInv, TypeOK
  <2>3. balance'[u][l] >= balance[u][l]
    BY <2>1, <2>2
  <2>4. QED BY <2>3, NothingRepaid
<1>6. QED BY <1>4, <1>5

LEMMA ExtendKeeps ==
  ASSUME IInv, IInv', NEW who \in Depositors, NEW j \in Addresses, NEW date \in 0 .. MaxTime,
         ExtendLock(who, j, date)
  PROVE  (\A k \in Addresses : Kept(k)) /\ (\A u \in Pairs, l \in Legs : RepaidOnly(u, l))
<1>1. PICK p \in PositionRecords : p = position[j]
  BY DEF ExtendLock, Open, NoPosition, IInv, TypeOK
<1>2. PICK q \in PositionRecords : q = [p EXCEPT !.unlock = date]
  <2>1. date \in Nat
    BY VaultAssumption
  <2>2. [p EXCEPT !.unlock = date] \in PositionRecords
    BY <2>1 DEF PositionRecords
  <2>3. QED BY <2>2
<1>3. q.unlock = date /\ q = [p EXCEPT !.unlock = q.unlock] /\ q.unlock >= p.unlock
  <2>1. q.unlock = date
    BY <1>2 DEF PositionRecords
  <2>2. date > p.unlock
    BY <1>1 DEF ExtendLock, Extends
  <2>3. p.unlock \in Nat /\ date \in Nat
    BY VaultAssumption DEF PositionRecords
  <2>4. QED BY <1>2, <2>1, <2>2, <2>3
<1>4. position' = [position EXCEPT ![j] = q] /\ balance' = balance
  BY <1>1, <1>2 DEF ExtendLock
<1>5. ASSUME NEW k \in Addresses PROVE Kept(k)
  <2>1. CASE k = j
    <3>1. position'[k] = q /\ Open(k)'
      BY <1>4, <2>1 DEF IInv, TypeOK, Open, PositionRecords
    <3>2. QED BY <1>1, <1>3, <2>1, <3>1 DEF Kept
  <2>2. CASE k # j
    BY <1>4, <2>2, UntouchedIsKept DEF IInv, TypeOK
  <2>3. QED BY <2>1, <2>2
<1>6. ASSUME NEW u \in Pairs, NEW l \in Legs PROVE RepaidOnly(u, l)
  <2>1. balance[u][l] \in Nat
    BY DEF IInv, TypeOK
  <2>2. QED BY <1>4, <2>1, NothingRepaid
<1>7. QED BY <1>5, <1>6

LEMMA StepKeeps ==
  IInv /\ IInv' /\ [Next]_vars =>
    (\A k \in Addresses : Kept(k)) /\ (\A u \in Pairs, l \in Legs : RepaidOnly(u, l))
<1> SUFFICES ASSUME IInv, IInv', [Next]_vars
             PROVE  (\A k \in Addresses : Kept(k)) /\ (\A u \in Pairs, l \in Legs : RepaidOnly(u, l))
  OBVIOUS
<1>1. ASSUME position' = position, \A u \in Pairs, l \in Legs : balance'[u][l] >= balance[u][l]
      PROVE  (\A k \in Addresses : Kept(k)) /\ (\A u \in Pairs, l \in Legs : RepaidOnly(u, l))
  BY <1>1, UntouchedIsKept, NothingRepaid
<1>2. \A u \in Pairs, l \in Legs : balance[u][l] \in Nat
  BY DEF IInv, TypeOK
<1>3. CASE UNCHANGED vars \/ Tick \/ \E v \in Pairs : InitializeVault(v)
  <2>1. position' = position /\ balance' = balance
    BY <1>3 DEF vars, Tick, InitializeVault
  <2>2. QED BY <1>1, <1>2, <2>1
<1>4. CASE \E who \in Depositors, v \in Pairs, nonce \in Nonces, ask \in Asks, secs \in LockSecs :
             Deposit(who, v, nonce, ask, secs)
  BY <1>4, DepositKeeps
<1>5. CASE \E who \in Depositors, k \in Addresses, date \in 0 .. MaxTime : ExtendLock(who, k, date)
  BY <1>5, ExtendKeeps
<1>6. CASE \E k \in Addresses : WithdrawAny(k)
  BY <1>6, WithdrawKeeps DEF WithdrawAny
<1>7. CASE \E v \in Pairs, l \in Legs : Donate(v, l)
  <2>1. PICK v \in Pairs, l \in Legs : Donate(v, l)
    BY <1>7
  <2>2. position' = position /\ balance' = [balance EXCEPT ![v][l] = @ + 1]
    BY <2>1 DEF Donate
  <2>3. \A u \in Pairs, i \in Legs : balance'[u][i] >= balance[u][i]
    BY <1>2, <2>2 DEF IInv, TypeOK
  <2>4. QED BY <1>1, <2>2, <2>3
<1>8. QED BY <1>3, <1>4, <1>5, <1>6, <1>7 DEF Next

(* No lock is ever cut short: a position keeps its amounts and its owner,  *)
(* its date only moves away, and it closes after that date and the         *)
(* shortest lock, paid in full from its own vault.                         *)
THEOREM LocksAreKept == Spec => LockIsKept
<1>1. IInv /\ IInv' /\ [Next]_vars => [\A k \in Addresses : Kept(k)]_vars
  BY StepKeeps
<1>2. QED BY <1>1, InvariantHolds, PTL DEF Spec, LockIsKept, Kept

(* Nobody but the depositor of a matured position takes anything out.      *)
THEOREM DepositorsAloneAreRepaid == Spec => OnlyDepositorsAreRepaid
<1>1. IInv /\ IInv' /\ [Next]_vars => [\A v \in Pairs, l \in Legs : RepaidOnly(v, l)]_vars
  BY StepKeeps
<1>2. QED BY <1>1, InvariantHolds, PTL DEF Spec, OnlyDepositorsAreRepaid, RepaidOnly

-----------------------------------------------------------------------------
(* The published totals.  Positions are few, so their amounts add up.      *)
Held(pos, v) == {k \in Addresses : pos[k].open /\ pos[k].vault = v}

Total(pos, v, l) == SumOf([k \in Held(pos, v) |-> pos[k].amount[l]])

(* r publishes what is locked at v.                                        *)
Publishes(r, pos, v) ==
  /\ r.open = Cardinality(Held(pos, v))
  /\ \A l \in Legs : r.locked[l] = Total(pos, v, l)

Tallied ==
  \A v \in Pairs :
    /\ IsFiniteSet(Held(position, v))
    /\ Held(position, v) # {} => Exists(v)
    /\ Exists(v) => Publishes(vault[v], position, v)

LEMMA AmountsAreNat ==
  ASSUME NEW pos \in [Addresses -> {NoPosition} \cup PositionRecords], NEW v
  PROVE  \A k \in Held(pos, v) : pos[k].amount \in [Legs -> Nat]
<1>. TAKE k \in Held(pos, v)
<1>1. pos[k] \in PositionRecords
  BY DEF Held, NoPosition
<1>. QED BY <1>1 DEF PositionRecords

(* Elsewhere nothing changes.                                              *)
LEMMA SamePositions ==
  ASSUME NEW pos, NEW new, NEW v, IsFiniteSet(Held(pos, v)),
         \A k \in Addresses : k \in Held(new, v) <=> k \in Held(pos, v),
         \A k \in Held(pos, v) : new[k].amount = pos[k].amount
  PROVE  /\ Held(new, v) = Held(pos, v)
         /\ \A l \in Legs : Total(new, v, l) = Total(pos, v, l)
<1>1. PICK H : H = Held(pos, v)
  OBVIOUS
<1>2. Held(new, v) = H
  BY <1>1 DEF Held
<1>3. ASSUME NEW l \in Legs PROVE Total(new, v, l) = Total(pos, v, l)
  <2>1. PICK f : f = [k \in H |-> pos[k].amount[l]]
    OBVIOUS
  <2>2. PICK g : g = [k \in H |-> new[k].amount[l]]
    OBVIOUS
  <2>3. IsFiniteSet(DOMAIN f) /\ DOMAIN g = DOMAIN f /\ \A k \in DOMAIN f : f[k] = g[k]
    BY <1>1, <2>1, <2>2
  <2>4. SumOf(g) = SumOf(f)
    BY <2>3, SumEqual
  <2>. QED BY <1>1, <1>2, <2>1, <2>2, <2>4 DEF Total
<1>. QED BY <1>1, <1>2, <1>3

(* One position more, or, from the other side, one less.                   *)
LEMMA OnePositionMore ==
  ASSUME NEW pos, NEW new, NEW v, IsFiniteSet(Held(pos, v)),
         NEW k \in Addresses, k \notin Held(pos, v), k \in Held(new, v),
         \A j \in Addresses \ {k} : new[j] = pos[j],
         \A j \in Held(new, v) : new[j].amount \in [Legs -> Nat]
  PROVE  /\ IsFiniteSet(Held(new, v))
         /\ Cardinality(Held(new, v)) = Cardinality(Held(pos, v)) + 1
         /\ \A l \in Legs : Total(new, v, l) = Total(pos, v, l) + new[k].amount[l]
        /\ \A l \in Legs : Total(pos, v, l) \in Int
<1>1. PICK H : H = Held(pos, v)
  OBVIOUS
<1>2. Held(new, v) = H \cup {k}
  BY <1>1 DEF Held
<1>3. ASSUME NEW l \in Legs
      PROVE  Total(new, v, l) = Total(pos, v, l) + new[k].amount[l] /\ Total(pos, v, l) \in Int
  <2>1. PICK f : f = [j \in H |-> pos[j].amount[l]]
    OBVIOUS
  <2>2. PICK g : g = [j \in H \cup {k} |-> new[j].amount[l]]
    OBVIOUS
  <2>3. \A j \in H : j \in Addresses \ {k} /\ j \in Held(new, v)
    BY <1>1, <1>2 DEF Held
  <2>4. \A j \in H : f[j] = g[j] /\ f[j] \in Int
    <3>. TAKE j \in H
    <3>1. new[j] = pos[j] /\ new[j].amount \in [Legs -> Nat]
      BY <2>3
    <3>2. f[j] = new[j].amount[l] /\ g[j] = new[j].amount[l]
      BY <2>1, <2>2, <3>1
    <3>. QED BY <3>1, <3>2
  <2>5. g[k] \in Int /\ g[k] = new[k].amount[l]
    <3>1. new[k].amount \in [Legs -> Nat]
      OBVIOUS
    <3>. QED BY <2>2, <3>1
  <2>6. DOMAIN f = H /\ DOMAIN g = H \cup {k}
    BY <2>1, <2>2
  <2>7. IsFiniteSet(DOMAIN f) /\ k \notin DOMAIN f /\ DOMAIN g = DOMAIN f \cup {k}
    BY <1>1, <2>6
  <2>8. (\A j \in DOMAIN f : f[j] \in Int) /\ (\A j \in DOMAIN f : g[j] = f[j])
    BY <2>4, <2>6
  <2>9. SumOf(g) = SumOf(f) + g[k]
    BY <2>5, <2>7, <2>8, SumAdd
  <2>10. SumOf(f) \in Int
    BY <2>7, <2>8, SumInInt
  <2>. QED BY <1>1, <1>2, <2>1, <2>2, <2>5, <2>9, <2>10 DEF Total
<1>. QED BY <1>1, <1>2, <1>3, FS_AddElement

LEMMA InitTallied == Init => Tallied
<1> SUFFICES ASSUME Init, NEW v \in Pairs PROVE Held(position, v) = {} /\ ~Exists(v)
  BY FS_EmptySet DEF Tallied
<1>. QED BY DEF Init, Held, NoPosition, Exists, NoVault

(* A step that changes neither which positions a vault has nor what they   *)
(* amount to, nor what the vault publishes.                                *)
LEMMA UntouchedVault ==
  ASSUME Tallied, NEW v \in Pairs, Exists(v) => Exists(v)',
         \A k \in Addresses : k \in Held(position', v) <=> k \in Held(position, v),
         \A k \in Held(position, v) : position'[k].amount = position[k].amount,
         Exists(v) => vault'[v].open = vault[v].open /\ vault'[v].locked = vault[v].locked,
         ~Exists(v) /\ Exists(v)' => vault'[v].open = 0 /\ vault'[v].locked = [l \in Legs |-> 0]
  PROVE  /\ IsFiniteSet(Held(position', v))
         /\ Held(position', v) # {} => Exists(v)'
         /\ Exists(v)' => Publishes(vault'[v], position', v)
<1>1. Held(position', v) = Held(position, v)
  BY SamePositions DEF Tallied
<1>2. \A l \in Legs : Total(position', v, l) = Total(position, v, l)
  BY SamePositions DEF Tallied
<1>3. IsFiniteSet(Held(position', v)) /\ (Held(position', v) # {} => Exists(v)')
  BY <1>1 DEF Tallied
<1>4. CASE Exists(v)
  <2>1. Publishes(vault[v], position, v)
    BY <1>4 DEF Tallied
  <2>2. Publishes(vault'[v], position', v)
    BY <1>1, <1>2, <1>4, <2>1 DEF Publishes
  <2>. QED BY <1>3, <2>2
<1>5. CASE ~Exists(v)
  <2>1. Held(position, v) = {}
    BY <1>5 DEF Tallied
  <2>2. \A l \in Legs : Total(position, v, l) = 0
    BY <2>1, SumEmpty DEF Total
  <2>3. ASSUME Exists(v)' PROVE Publishes(vault'[v], position', v)
    BY <1>1, <1>2, <1>5, <2>1, <2>2, <2>3, FS_EmptySet DEF Publishes
  <2>. QED BY <1>3, <2>3
<1>. QED BY <1>4, <1>5

LEMMA DepositTallies ==
  ASSUME IInv, IInv', Tallied, NEW who \in Depositors, NEW v \in Pairs, NEW nonce \in Nonces,
         NEW ask \in Asks, NEW secs \in LockSecs, Deposit(who, v, nonce, ask, secs)
  PROVE  Tallied'
<1>1. PICK k \in Addresses : k = [vault |-> v, depositor |-> who, nonce |-> nonce]
  BY DEF Addresses
<1>2. PICK fee, credit :
        /\ credit = Credited(ask, fee)
        /\ vault' = [vault EXCEPT ![v] = Locked(@, credit)]
        /\ position' = [position EXCEPT ![k] =
                          [open |-> TRUE, vault |-> v, depositor |-> who, amount |-> credit,
                           created |-> clock, unlock |-> clock + secs]]
  BY <1>1 DEF Deposit
<1>3. Exists(v) /\ ~position[k].open
  BY <1>1 DEF Deposit, Open
<1>4. /\ DOMAIN position = Addresses
      /\ position'[k].open /\ position'[k].vault = v /\ position'[k].amount = credit
      /\ \A j \in Addresses \ {k} : position'[j] = position[j]
  BY <1>2 DEF IInv, TypeOK
<1>5. ASSUME NEW u \in Pairs \ {v}
      PROVE  /\ IsFiniteSet(Held(position', u))
             /\ Held(position', u) # {} => Exists(u)'
             /\ Exists(u)' => Publishes(vault'[u], position', u)
  <2>1. vault'[u] = vault[u]
    BY <1>2 DEF IInv, TypeOK
  <2>2. \A j \in Addresses : j \in Held(position', u) <=> j \in Held(position, u)
    BY <1>3, <1>4 DEF Held
  <2>3. \A j \in Held(position, u) : position'[j].amount = position[j].amount
    BY <1>3, <1>4 DEF Held
  <2>. QED BY <2>1, <2>2, <2>3, UntouchedVault DEF Exists
<1>6. /\ IsFiniteSet(Held(position', v))
      /\ Cardinality(Held(position', v)) = Cardinality(Held(position, v)) + 1
      /\ \A l \in Legs : Total(position', v, l) = Total(position, v, l) + position'[k].amount[l]
  <2>1. k \notin Held(position, v) /\ k \in Held(position', v)
    BY <1>3, <1>4 DEF Held
  <2>2. \A j \in Held(position', v) : position'[j].amount \in [Legs -> Nat]
    BY AmountsAreNat DEF IInv, TypeOK
  <2>3. IsFiniteSet(Held(position, v))
    BY DEF Tallied
  <2>4. PICK new : new = position'
    OBVIOUS
  <2>5. /\ IsFiniteSet(Held(new, v))
        /\ Cardinality(Held(new, v)) = Cardinality(Held(position, v)) + 1
    BY <1>4, <2>1, <2>2, <2>3, <2>4, OnePositionMore
  <2>6. \A l \in Legs : Total(new, v, l) = Total(position, v, l) + new[k].amount[l]
    BY <1>4, <2>1, <2>2, <2>3, <2>4, OnePositionMore
  <2>. QED BY <2>4, <2>5, <2>6
<1>7. vault'[v].exists /\ vault'[v].open = vault[v].open + 1
      /\ \A l \in Legs : vault'[v].locked[l] = vault[v].locked[l] + credit[l]
  <2>1. PICK r \in VaultRecords : r = vault[v]
    BY <1>3 DEF IInv, TypeOK, Exists, NoVault
  <2>2. vault'[v] = Locked(r, credit)
    BY <1>2, <2>1 DEF IInv, TypeOK
  <2>3. PICK h : h = [l \in Legs |-> r.locked[l] + credit[l]]
    OBVIOUS
  <2>4. Locked(r, credit) = [r EXCEPT !.locked = h, !.open = @ + 1, !.lifetime = @ + 1]
    BY <2>3 DEF Locked
  <2>5. Locked(r, credit).exists /\ Locked(r, credit).open = r.open + 1 /\ Locked(r, credit).locked = h
    BY <2>4 DEF VaultRecords
  <2>. QED BY <2>1, <2>2, <2>3, <2>5
<1>8. Publishes(vault'[v], position', v)
  <2>1. Publishes(vault[v], position, v)
    BY <1>3 DEF Tallied
  <2>. QED BY <1>4, <1>6, <1>7, <2>1 DEF Publishes
<1>9. Exists(v)'
  BY <1>7 DEF Exists
<1>. QED BY <1>5, <1>6, <1>8, <1>9 DEF Tallied

LEMMA WithdrawTallies ==
  ASSUME IInv, IInv', Tallied, NEW who \in Depositors, NEW v \in Pairs, NEW k \in Addresses,
         Withdraw(who, v, k)
  PROVE  Tallied'
<1>1. PICK p \in PositionRecords : p = position[k]
  BY DEF Withdraw, Open, NoPosition, IInv, TypeOK
<1>2. /\ vault' = [vault EXCEPT ![v] = Released(@, p)]
      /\ position' = [position EXCEPT ![k] = NoPosition]
      /\ Exists(v) /\ p.open /\ p.vault = v
  BY <1>1 DEF Withdraw, MayWithdraw, PositionRecords
<1>3. /\ ~position'[k].open
      /\ \A j \in Addresses \ {k} : position'[j] = position[j]
  BY <1>2 DEF IInv, TypeOK, NoPosition
<1>4. ASSUME NEW u \in Pairs \ {v}
      PROVE  /\ IsFiniteSet(Held(position', u))
             /\ Held(position', u) # {} => Exists(u)'
             /\ Exists(u)' => Publishes(vault'[u], position', u)
  <2>1. vault'[u] = vault[u]
    BY <1>2 DEF IInv, TypeOK
  <2>2. \A j \in Addresses : j \in Held(position', u) <=> j \in Held(position, u)
    BY <1>1, <1>2, <1>3 DEF Held
  <2>3. \A j \in Held(position, u) : position'[j].amount = position[j].amount
    BY <1>1, <1>2, <1>3 DEF Held
  <2>. QED BY <2>1, <2>2, <2>3, UntouchedVault DEF Exists
<1>5. /\ IsFiniteSet(Held(position', v))
      /\ Cardinality(Held(position, v)) = Cardinality(Held(position', v)) + 1
      /\ \A l \in Legs : Total(position, v, l) = Total(position', v, l) + p.amount[l]
      /\ \A l \in Legs : Total(position', v, l) \in Int
  <2>1. k \in Held(position, v) /\ k \notin Held(position', v)
    BY <1>1, <1>2, <1>3 DEF Held
  <2>2. \A j \in Held(position, v) : position[j].amount \in [Legs -> Nat]
    BY AmountsAreNat DEF IInv, TypeOK
  <2>3. PICK new : new = position'
    OBVIOUS
  <2>4. \A j \in Addresses \ {k} : position[j] = new[j]
    BY <1>3, <2>3
  <2>5. IsFiniteSet(Held(new, v))
    <3>1. Held(new, v) \in SUBSET Held(position, v)
      BY <1>3, <2>3 DEF Held
    <3>2. IsFiniteSet(Held(position, v))
      BY DEF Tallied
    <3>. QED BY <3>1, <3>2, FS_Subset
  <2>6. Cardinality(Held(position, v)) = Cardinality(Held(new, v)) + 1
    BY <2>1, <2>2, <2>3, <2>4, <2>5, OnePositionMore
  <2>7. \A l \in Legs : Total(position, v, l) = Total(new, v, l) + position[k].amount[l]
    BY <2>1, <2>2, <2>3, <2>4, <2>5, OnePositionMore
  <2>8. \A l \in Legs : Total(new, v, l) \in Int
    BY <2>1, <2>2, <2>3, <2>4, <2>5, OnePositionMore
  <2>. QED BY <1>1, <2>3, <2>5, <2>6, <2>7, <2>8
<1>6. /\ vault'[v].exists /\ vault'[v].open = vault[v].open - 1
      /\ \A l \in Legs : vault'[v].locked[l] = vault[v].locked[l] - p.amount[l]
  <2>1. PICK r \in VaultRecords : r = vault[v]
    BY <1>2 DEF IInv, TypeOK, Exists, NoVault
  <2>2. vault'[v] = Released(r, p)
    BY <1>2, <2>1 DEF IInv, TypeOK
  <2>3. PICK h : h = [l \in Legs |-> r.locked[l] - p.amount[l]]
    OBVIOUS
  <2>4. Released(r, p) = [r EXCEPT !.locked = h, !.open = @ - 1]
    BY <2>3 DEF Released
  <2>5. Released(r, p).exists /\ Released(r, p).open = r.open - 1 /\ Released(r, p).locked = h
    BY <2>4 DEF VaultRecords
  <2>. QED BY <2>1, <2>2, <2>3, <2>5
<1>7. Publishes(vault'[v], position', v)
  <2>1. Publishes(vault[v], position, v)
    BY <1>2 DEF Tallied
  <2>2. Cardinality(Held(position', v)) \in Nat
    BY <1>5, FS_CardinalityType
  <2>3. ASSUME NEW l \in Legs PROVE vault'[v].locked[l] = Total(position', v, l)
    <3>1. p.amount[l] \in Nat
      BY DEF PositionRecords
    <3>2. vault[v].locked[l] = Total(position', v, l) + p.amount[l] /\ Total(position', v, l) \in Int
      BY <1>5, <2>1 DEF Publishes
    <3>. QED BY <1>6, <3>1, <3>2
  <2>. QED BY <1>5, <1>6, <2>1, <2>2, <2>3 DEF Publishes
<1>8. Exists(v)'
  BY <1>6 DEF Exists
<1>. QED BY <1>4, <1>5, <1>7, <1>8 DEF Tallied

LEMMA NextTallied == IInv /\ IInv' /\ Tallied /\ [Next]_vars => Tallied'
<1> SUFFICES ASSUME IInv, IInv', Tallied, [Next]_vars PROVE Tallied'
  OBVIOUS
<1>1. CASE UNCHANGED vars \/ Tick \/ \E v \in Pairs, l \in Legs : Donate(v, l)
  <2>1. vault' = vault /\ position' = position
    BY <1>1 DEF vars, Tick, Donate
  <2>. QED BY <2>1 DEF Tallied, Exists
<1>2. ASSUME NEW v \in Pairs, InitializeVault(v)
      PROVE  Tallied'
  <2>1. /\ position' = position /\ ~Exists(v)
        /\ vault' = [vault EXCEPT ![v] = [exists |-> TRUE, locked |-> [l \in Legs |-> 0],
                                          open |-> 0, lifetime |-> 0]]
    BY <1>2 DEF InitializeVault
  <2>2. ASSUME NEW u \in Pairs
        PROVE  /\ Exists(u) => Exists(u)'
               /\ Exists(u) => vault'[u].open = vault[u].open /\ vault'[u].locked = vault[u].locked
               /\ ~Exists(u) /\ Exists(u)' =>
                    vault'[u].open = 0 /\ vault'[u].locked = [l \in Legs |-> 0]
    BY <2>1 DEF IInv, TypeOK, Exists
  <2>3. ASSUME NEW u \in Pairs
        PROVE  /\ \A k \in Addresses : k \in Held(position', u) <=> k \in Held(position, u)
               /\ \A k \in Held(position, u) : position'[k].amount = position[k].amount
    BY <2>1
  <2>. QED BY <2>2, <2>3, UntouchedVault DEF Tallied
<1>3. CASE \E who \in Depositors, v \in Pairs, nonce \in Nonces, ask \in Asks, secs \in LockSecs :
             Deposit(who, v, nonce, ask, secs)
  BY <1>3, DepositTallies
<1>4. ASSUME NEW who \in Depositors, NEW k \in Addresses, NEW date \in 0 .. MaxTime,
             ExtendLock(who, k, date)
      PROVE  Tallied'
  <2>1. PICK p \in PositionRecords : p = position[k]
    BY <1>4 DEF ExtendLock, Open, NoPosition, IInv, TypeOK
  <2>2. /\ vault' = vault
        /\ position'[k].open = p.open /\ position'[k].vault = p.vault
        /\ position'[k].amount = p.amount
        /\ \A j \in Addresses \ {k} : position'[j] = position[j]
    <3>1. vault' = vault /\ position' = [position EXCEPT ![k] = [p EXCEPT !.unlock = date]]
      BY <1>4, <2>1 DEF ExtendLock
    <3>2. PICK q : q = [p EXCEPT !.unlock = date]
      OBVIOUS
    <3>3. q.open = p.open /\ q.vault = p.vault /\ q.amount = p.amount
      BY <3>2 DEF PositionRecords
    <3>. QED BY <3>1, <3>2, <3>3 DEF IInv, TypeOK
  <2>3. ASSUME NEW u \in Pairs
        PROVE  /\ \A j \in Addresses : j \in Held(position', u) <=> j \in Held(position, u)
               /\ \A j \in Held(position, u) : position'[j].amount = position[j].amount
    BY <2>1, <2>2 DEF Held
  <2>4. \A u \in Pairs : Exists(u)' <=> Exists(u)
    BY <2>2 DEF Exists
  <2>. QED BY <2>2, <2>3, <2>4, UntouchedVault DEF Tallied
<1>5. CASE \E k \in Addresses : WithdrawAny(k)
  BY <1>5, WithdrawTallies DEF WithdrawAny
<1>. QED BY <1>1, <1>2, <1>3, <1>4, <1>5 DEF Next

(* What a vault publishes is the sum of its live positions' legs and their *)
(* number, for any number of positions, deposits, fees and withdrawals.    *)
THEOREM LedgersMatch == Spec => []LedgerMatchesPositions
<1>1. ASSUME Tallied PROVE LedgerMatchesPositions
  <2>1. ASSUME NEW v \in Pairs PROVE Positions(v) = Held(position, v)
    BY DEF Positions, Held, Open
  <2>. QED BY <1>1, <2>1 DEF Tallied, LedgerMatchesPositions, Publishes, Total
<1>2. IInv /\ Tallied /\ [Next]_vars => (IInv /\ Tallied)'
  BY NextIInv, NextTallied
<1>. QED BY <1>1, <1>2, InitIInv, InitTallied, PTL DEF Spec
=============================================================================
