----------------------------- MODULE TimeLockVault -----------------------------
(***************************************************************************)
(* The on-chain reserve vault (programs/scematica-vault): one vault for a  *)
(* pair of mints, and positions locked in it until a date.  Each           *)
(* instruction is one transaction.  A mint may take a fee from every       *)
(* transfer (Token-2022): what arrives may be less than what was sent, and *)
(* only the token program knows by how much.                               *)
(*                                                                         *)
(* Anyone may send tokens to a vault without the program: Donate.          *)
(***************************************************************************)
EXTENDS FiniteSets, Sums

CONSTANTS
  Mints,
  Pairs,        \* the pairs of mints a vault is asked for
  Depositors,
  Nonces,
  Asks,         \* the amounts deposit() is called with, by leg
  LockSecs,     \* the lock_secs deposit() is called with
  Fees,         \* mint -> what it may keep of one transfer
  MinLock,      \* MIN_LOCK_SECS
  MaxLock,      \* MAX_LOCK_SECS
  U64,          \* 2^64 in the code
  Purse,        \* tokens of each mint a depositor starts with
  MaxTime,      \* bound: the clock stops here
  LastCommit,   \* bound: nothing is deposited or extended after this
  MaxDeposits,  \* bound: deposits into each vault
  MaxDonated    \* bound: what is sent to each vault from outside

Legs == {"token", "backing"}

ASSUME VaultAssumption ==
  /\ U64 \in Nat \ {0}
  /\ Asks \subseteq [Legs -> 0 .. U64 - 1]
  /\ LockSecs \subseteq Int
  /\ Pairs \subseteq [Legs -> Mints]
  /\ Fees \in [Mints -> SUBSET Nat]
  /\ MinLock \in Nat /\ MaxLock \in Nat /\ MinLock <= MaxLock
  /\ {Purse, MaxTime, LastCommit} \subseteq Nat
  /\ {MaxDeposits, MaxDonated} \subseteq [Pairs -> Nat]

(* A position's address: seeds = [vault, depositor, nonce].                *)
Addresses == [vault : Pairs, depositor : Depositors, nonce : Nonces]

VARIABLES
  clock,
  vault,       \* pair -> Vault account, or NoVault
  balance,     \* pair -> balances of its two token accounts
  position,    \* address -> Position account, or NoPosition
  tokens,      \* depositor -> balance of its account of each mint
  donated    \* pair -> donated made

vars == <<clock, vault, balance, position, tokens, donated>>

NoVault == [exists |-> FALSE]

NoPosition == [open |-> FALSE]

Exists(v) == vault[v].exists

Open(k) == position[k].open

Init ==
  /\ clock = 0
  /\ vault = [v \in Pairs |-> NoVault]
  /\ balance = [v \in Pairs |-> [l \in Legs |-> 0]]
  /\ position = [k \in Addresses |-> NoPosition]
  /\ tokens = [d \in Depositors |-> [m \in Mints |-> Purse]]
  /\ donated = [v \in Pairs |-> [l \in Legs |-> 0]]

Tick ==
  /\ clock < MaxTime
  /\ clock' = clock + 1
  /\ UNCHANGED <<vault, balance, position, tokens, donated>>

InitializeVault(v) ==
  /\ ~Exists(v)
  /\ v["token"] # v["backing"]
  /\ vault' = [vault EXCEPT ![v] =
                 [exists |-> TRUE, locked |-> [l \in Legs |-> 0], open |-> 0, lifetime |-> 0]]
  /\ UNCHANGED <<clock, balance, position, tokens, donated>>

-----------------------------------------------------------------------------
(* What the mints of a pair may keep of the two transfers.                 *)
FeesFor(v, amount) ==
  {fee \in [Legs -> UNION {Fees[m] : m \in Mints}] :
     \A l \in Legs : fee[l] \in Fees[v[l]] /\ fee[l] <= amount[l]}

(* What a party's accounts of a pair's mints hold once they change so.     *)
Changed(who, v, change) ==
  [tokens EXCEPT ![who] =
     [m \in Mints |-> IF m = v["token"] THEN @[m] + change["token"]
                      ELSE IF m = v["backing"] THEN @[m] + change["backing"] ELSE @[m]]]

(* Mutation: the position is credited with what was asked for.             *)
Credited_AsAsked(ask, fee) == ask

(* What reached the vault, measured as the difference of its balances.     *)
Credited(ask, fee) == [l \in Legs |-> ask[l] - fee[l]]

Locked(r, credit) ==
  [r EXCEPT !.locked = [l \in Legs |-> @[l] + credit[l]],
            !.open = @ + 1, !.lifetime = @ + 1]

Lockable_AnyLong(secs) == secs >= MinLock

Lockable(secs) == MinLock <= secs /\ secs <= MaxLock

Deposit(who, v, nonce, ask, secs) ==
  LET k == [vault |-> v, depositor |-> who, nonce |-> nonce] IN
  /\ Exists(v) /\ ~Open(k)
  /\ clock <= LastCommit /\ vault[v].lifetime < MaxDeposits[v]
  /\ ask["backing"] > 0 /\ Lockable(secs)
  /\ \A l \in Legs : tokens[who][v[l]] >= ask[l]
  /\ \E fee \in FeesFor(v, ask) :
       LET credit == Credited(ask, fee) IN
       /\ credit["backing"] > 0
       /\ \A l \in Legs :
            balance[v][l] + ask[l] - fee[l] < U64 /\ vault[v].locked[l] + credit[l] < U64
       /\ balance' = [balance EXCEPT ![v] = [l \in Legs |-> @[l] + ask[l] - fee[l]]]
       /\ vault' = [vault EXCEPT ![v] = Locked(@, credit)]
       /\ position' = [position EXCEPT ![k] =
                         [open |-> TRUE, vault |-> v, depositor |-> who, amount |-> credit,
                          created |-> clock, unlock |-> clock + secs]]
  /\ tokens' = Changed(who, v, [l \in Legs |-> -ask[l]])
  /\ UNCHANGED <<clock, donated>>

(* Mutation: the date may be moved either way.                             *)
Extends_EitherWay(p, date) == date <= clock + MaxLock

(* Strictly later, and no further out than a new lock could be.            *)
Extends(p, date) == date > p.unlock /\ date <= clock + MaxLock

ExtendLock(who, k, date) ==
  /\ Open(k) /\ position[k].depositor = who
  /\ clock <= LastCommit
  /\ Extends(position[k], date)
  /\ position' = [position EXCEPT ![k].unlock = date]
  /\ UNCHANGED <<clock, vault, balance, tokens, donated>>

-----------------------------------------------------------------------------
(* Mutations: any vault pays; anyone may be paid.                          *)
MayWithdraw_AnyVault(who, v, p) == p.depositor = who /\ clock >= p.unlock

MayWithdraw_Anyone(who, v, p) == p.vault = v /\ clock >= p.unlock

MayWithdraw(who, v, p) == p.depositor = who /\ p.vault = v /\ clock >= p.unlock

Released(r, p) ==
  [r EXCEPT !.locked = [l \in Legs |-> @[l] - p.amount[l]], !.open = @ - 1]

(* The amounts recorded leave the vault; the checked subtractions and the  *)
(* two transfers fail the whole instruction if they do not fit.            *)
Withdraw(who, v, k) ==
  LET p == position[k] IN
  /\ Exists(v) /\ Open(k)
  /\ MayWithdraw(who, v, p)
  /\ \A l \in Legs : balance[v][l] >= p.amount[l] /\ vault[v].locked[l] >= p.amount[l]
  /\ vault[v].open >= 1
  /\ balance' = [balance EXCEPT ![v] = [l \in Legs |-> @[l] - p.amount[l]]]
  /\ vault' = [vault EXCEPT ![v] = Released(@, p)]
  /\ position' = [position EXCEPT ![k] = NoPosition]
  /\ \E fee \in FeesFor(v, p.amount) :
       tokens' = Changed(who, v, [l \in Legs |-> p.amount[l] - fee[l]])
  /\ UNCHANGED <<clock, donated>>

Donate(v, l) ==
  /\ Exists(v) /\ balance[v][l] < U64 - 1
  /\ donated[v]["token"] + donated[v]["backing"] < MaxDonated[v]
  /\ balance' = [balance EXCEPT ![v][l] = @ + 1]
  /\ donated' = [donated EXCEPT ![v][l] = @ + 1]
  /\ UNCHANGED <<clock, vault, position, tokens>>

-----------------------------------------------------------------------------
WithdrawAny(k) == \E who \in Depositors, v \in Pairs : Withdraw(who, v, k)

Next ==
  \/ Tick
  \/ \E v \in Pairs : InitializeVault(v)
  \/ \E who \in Depositors, v \in Pairs, nonce \in Nonces, ask \in Asks, secs \in LockSecs :
       Deposit(who, v, nonce, ask, secs)
  \/ \E who \in Depositors, k \in Addresses, date \in 0 .. MaxTime : ExtendLock(who, k, date)
  \/ \E k \in Addresses : WithdrawAny(k)
  \/ \E v \in Pairs, l \in Legs : Donate(v, l)

Spec == Init /\ [][Next]_vars

(* Time passes and a depositor keeps asking for a matured position.        *)
FairSpec == Spec /\ WF_vars(Tick) /\ \A k \in Addresses : WF_vars(WithdrawAny(k))

-----------------------------------------------------------------------------
VaultRecords == [exists : {TRUE}, locked : [Legs -> Nat], open : Nat, lifetime : Nat]

PositionRecords ==
  [open : {TRUE}, vault : Pairs, depositor : Depositors, amount : [Legs -> Nat],
   created : Nat, unlock : Nat]

TypeOK ==
  /\ clock \in Nat
  /\ vault \in [Pairs -> {NoVault} \cup VaultRecords]
  /\ balance \in [Pairs -> [Legs -> Nat]]
  /\ position \in [Addresses -> {NoPosition} \cup PositionRecords]
  /\ tokens \in [Depositors -> [Mints -> Nat]]
  /\ donated \in [Pairs -> [Legs -> Nat]]

Positions(v) == {k \in Addresses : Open(k) /\ position[k].vault = v}

(* The published totals are the "Sum of live positions' ... legs" and      *)
(* positions_open counts them, whatever was deposited, fee'd or withdrawn. *)
LedgerMatchesPositions ==
  \A v \in Pairs :
    Exists(v) =>
      /\ vault[v].open = Cardinality(Positions(v))
      /\ \A l \in Legs :
           vault[v].locked[l] = SumOf([k \in Positions(v) |-> position[k].amount[l]])

(* "The token vault's balance is >= this, never <": each account holds     *)
(* what its vault publishes as locked, and beyond it only donations.       *)
VaultIsSolvent ==
  \A v \in Pairs :
    Exists(v) => \A l \in Legs : balance[v][l] = vault[v].locked[l] + donated[v][l]

(* A lock is never cut short: an open position keeps its amounts and its   *)
(* owner, its date never moves closer, and it closes only once that date   *)
(* and the shortest lock have both passed, paid from its own vault.        *)
LockIsKept ==
  [][\A k \in Addresses :
       Open(k) =>
         LET p == position[k] IN
         IF Open(k)'
         THEN /\ position'[k] = [p EXCEPT !.unlock = position'[k].unlock]
              /\ position'[k].unlock >= p.unlock
         ELSE /\ clock >= p.unlock /\ clock >= p.created + MinLock
              /\ \A l \in Legs : balance'[p.vault][l] = balance[p.vault][l] - p.amount[l]]_vars

(* Nobody else takes the funds: an account's balance falls only with a     *)
(* matured position of that vault, and then nobody but its depositor has   *)
(* more than before.                                                       *)
OnlyDepositorsAreRepaid ==
  [][\A v \in Pairs, l \in Legs :
       balance'[v][l] < balance[v][l] =>
         \E k \in Addresses :
           /\ k.vault = v /\ Open(k) /\ ~Open(k)' /\ clock >= position[k].unlock
           /\ \A d \in Depositors \ {k.depositor} : tokens'[d] = tokens[d]]_vars

(* Every position comes back to a depositor that keeps asking.             *)
EveryPositionComesBack == \A k \in Addresses : Open(k) ~> ~Open(k)
=============================================================================
