------------------------------ MODULE BondEscrow ------------------------------
(***************************************************************************)
(* The on-chain bond escrow program (programs/scematica-escrow).  Each     *)
(* instruction is one transaction: it takes effect whole or, when a check  *)
(* or a token transfer fails, not at all.  A bond's escrow and vault       *)
(* accounts live at addresses derived from its digest and agent; both are  *)
(* closed by settle, and the addresses may be opened again.                *)
(*                                                                         *)
(* The program compares nobody with anybody: one holder may be the agent   *)
(* of a bond, its caller, another of its payees and its challenger at once.*)
(*                                                                         *)
(* Anyone may send tokens to a vault without the program: StrayTransfer.   *)
(***************************************************************************)
EXTENDS SlashRouting

CONSTANTS
  Bonds,         \* the addresses bonds are escrowed at
  Holders,       \* whoever owns token accounts
  Agent,         \* address -> the agent it is derived from
  Terms,         \* the arguments escrow() is called with
  Stakes,        \* the stakes challengers file, 0 among them
  Destinations,  \* the token accounts settle is called with, by their owners
  Purse,         \* tokens each holder starts with
  MaxTime,       \* bound: the clock stops here
  LastMark,      \* bound: the authority marks no fill after this
  MaxOpens,      \* bound: times an address is opened
  MaxStray       \* bound: stray transfers per address

Payees == {"caller", "insurance", "lineage"}

(* The accounts settle is given to pay into.                               *)
Slots == {"agent", "challengers"} \cup Payees

Nobody == "none"    \* Pubkey::default()

ASSUME EscrowAssumption ==
  /\ Nobody \notin Holders
  /\ Agent \in [Bonds -> Holders]
  /\ Terms \subseteq [amount : Amounts, deadline : Int, window : Int, grace : Int,
                      routing : Routings, payee : [Payees -> Holders \cup {Nobody}]]
  /\ Stakes \subseteq Nat
  /\ Destinations \subseteq [Slots -> Holders]
  /\ {Purse, MaxTime, LastMark, MaxOpens, MaxStray} \subseteq Nat

VARIABLES
  clock,
  escrow,    \* address -> BondEscrow account, or NoEscrow
  vault,     \* address -> balance of the vault token account
  tokens,    \* holder -> balance of its own token account
  opens,     \* address -> times opened
  stray      \* address -> stray tokens in the vault

vars == <<clock, escrow, vault, tokens, opens, stray>>

NoEscrow == [state |-> "None"]

Become(b, e) == escrow' = [escrow EXCEPT ![b] = e]

Exists(b) == escrow[b].state # "None"

Init ==
  /\ clock = 0
  /\ escrow = [b \in Bonds |-> NoEscrow]
  /\ vault = [b \in Bonds |-> 0]
  /\ tokens = [h \in Holders |-> Purse]
  /\ opens = [b \in Bonds |-> 0]
  /\ stray = [b \in Bonds |-> 0]

Tick ==
  /\ clock < MaxTime
  /\ clock' = clock + 1
  /\ UNCHANGED <<escrow, vault, tokens, opens, stray>>

-----------------------------------------------------------------------------
(* Mutation: shares need not sum to a whole.                               *)
Acceptable_AnyRouting(t) ==
  /\ t.amount > 0 /\ t.deadline > 0 /\ t.grace > 0
  /\ t.payee["caller"] # Nobody
  /\ \A s \in {"insurance", "lineage"} : t.routing[s] = 0 \/ t.payee[s] # Nobody

(* What escrow() requires of its arguments; the window may be any number.  *)
Acceptable(t) ==
  /\ IsValid(t.routing)
  /\ t.amount > 0 /\ t.deadline > 0 /\ t.grace > 0
  /\ t.payee["caller"] # Nobody
  /\ \A s \in {"insurance", "lineage"} : t.routing[s] = 0 \/ t.payee[s] # Nobody

Opened(agent, t) ==
  [state |-> "Escrowed", agent |-> agent, terms |-> t, honored |-> FALSE, slashed |-> FALSE,
   closes |-> 0, challenger |-> Nobody, stake |-> 0]

Escrow(b, t) ==
  /\ ~Exists(b) /\ opens[b] < MaxOpens
  /\ Acceptable(t)
  /\ tokens[Agent[b]] >= t.amount
  /\ tokens' = [tokens EXCEPT ![Agent[b]] = @ - t.amount]
  /\ vault' = [vault EXCEPT ![b] = t.amount]
  /\ Become(b, Opened(Agent[b], t))
  /\ opens' = [opens EXCEPT ![b] = @ + 1]
  /\ UNCHANGED <<clock, stray>>

(* The authority's; the deadline is not looked at.                         *)
MarkProvisional(b, honored) ==
  /\ escrow[b].state = "Escrowed"
  /\ clock <= LastMark
  /\ Become(b, [escrow[b] EXCEPT !.state = "Provisional", !.honored = honored,
                                 !.closes = clock + escrow[b].terms.window])
  /\ UNCHANGED <<clock, vault, tokens, opens, stray>>

MayChallenge(b) ==
  /\ escrow[b].state = "Provisional"
  /\ escrow[b].honored /\ clock < escrow[b].closes

FileChallenge(b, who, stake) ==
  /\ MayChallenge(b)
  /\ stake > 0 /\ tokens[who] >= stake
  /\ tokens' = [tokens EXCEPT ![who] = @ - stake]
  /\ vault' = [vault EXCEPT ![b] = @ + stake]
  /\ Become(b, [escrow[b] EXCEPT !.state = "Disputed", !.challenger = who, !.stake = stake])
  /\ UNCHANGED <<clock, opens, stray>>

Finalized(b, slashed) ==
  Become(b, [escrow[b] EXCEPT !.state = "Finalized", !.slashed = slashed])

(* Mutation: a dispute may be resolved again until it is settled.          *)
MayResolve_EvenFinal(b) == escrow[b].state \in {"Disputed", "Finalized"}

MayResolve(b) == escrow[b].state = "Disputed"

(* The authority's.                                                        *)
Resolve(b, challengerWon) ==
  /\ MayResolve(b)
  /\ Finalized(b, challengerWon)
  /\ UNCHANGED <<clock, vault, tokens, opens, stray>>

(* Mutations: the fill's outcome is not read when the window elapses; a    *)
(* dispute leaves by its resolution only.                                  *)
TimedOut_AlwaysHonors(b) ==
  LET e == escrow[b] IN
  \/ e.state = "Provisional" /\ clock >= e.closes /\ Finalized(b, FALSE)
  \/ e.state = "Escrowed" /\ e.terms.deadline # 0 /\ clock >= e.terms.deadline /\ Finalized(b, TRUE)
  \/ e.state = "Disputed" /\ clock >= e.closes + e.terms.grace /\ Finalized(b, TRUE)

TimedOut_NotDisputed(b) ==
  LET e == escrow[b] IN
  \/ e.state = "Provisional" /\ clock >= e.closes /\ Finalized(b, ~e.honored)
  \/ e.state = "Escrowed" /\ e.terms.deadline # 0 /\ clock >= e.terms.deadline /\ Finalized(b, TRUE)

TimedOut(b) ==
  LET e == escrow[b] IN
  \/ e.state = "Provisional" /\ clock >= e.closes /\ Finalized(b, ~e.honored)
  \/ e.state = "Escrowed" /\ e.terms.deadline # 0 /\ clock >= e.terms.deadline /\ Finalized(b, TRUE)
  \/ e.state = "Disputed" /\ clock >= e.closes + e.terms.grace /\ Finalized(b, TRUE)

FinalizeTimeout(b) ==
  /\ TimedOut(b)
  /\ UNCHANGED <<clock, vault, tokens, opens, stray>>

-----------------------------------------------------------------------------
(* The party a bond's record names for a slot.                             *)
Recorded(e, s) ==
  IF s = "agent" THEN e.agent
  ELSE IF s = "challengers" THEN e.challenger
  ELSE e.terms.payee[s]

(* Anyone may send settle, but a slot with a recorded party is paid into   *)
(* an account of that party's.                                             *)
DestinationsBound(e, to) == \A s \in Slots : Recorded(e, s) \in {Nobody, to[s]}

(* Mutation: the challengers' slice is paid into their slot although       *)
(* nobody challenged.                                                      *)
Payout_SliceUnclaimed(e) ==
  LET split == ProgramSplit(e.terms.amount, e.terms.routing) IN
  [s \in Slots |->
     IF ~e.slashed THEN IF s = "agent" THEN e.terms.amount + e.stake ELSE 0
     ELSE IF s = "agent" THEN 0
     ELSE IF s = "challengers" THEN split.challengers + e.stake
     ELSE split[s]]

(* What settle transfers into each slot: honored, bond and stake go to the *)
(* agent; slashed, the split goes out, the challenger has its stake back   *)
(* with its slice, and with no challenger the slice is the caller's.       *)
Payout(e) ==
  LET split == ProgramSplit(e.terms.amount, e.terms.routing)
      contested == e.stake > 0 \/ e.challenger # Nobody IN
  [s \in Slots |->
     IF ~e.slashed THEN IF s = "agent" THEN e.terms.amount + e.stake ELSE 0
     ELSE IF s = "agent" THEN 0
     ELSE IF s = "caller" THEN split.caller + (IF contested THEN 0 ELSE split.challengers)
     ELSE IF s = "challengers" THEN IF contested THEN split.challengers + e.stake ELSE 0
     ELSE split[s]]

OverSlots(f) == f["agent"] + f["caller"] + f["challengers"] + f["insurance"] + f["lineage"]

Disbursed(e) == OverSlots(Payout(e))

(* What they bring one holder, who may own the accounts of several slots.  *)
Received(e, to, h) == OverSlots([s \in Slots |-> IF to[s] = h THEN Payout(e)[s] ELSE 0])

(* The transfers need the tokens, and the token program closes no account  *)
(* that still holds some: a vault with more than is paid out fails too.    *)
Settle(b, to) ==
  /\ escrow[b].state = "Finalized"
  /\ DestinationsBound(escrow[b], to)
  /\ vault[b] = Disbursed(escrow[b])
  /\ tokens' = [h \in Holders |-> tokens[h] + Received(escrow[b], to, h)]
  /\ vault' = [vault EXCEPT ![b] = 0]
  /\ Become(b, NoEscrow)
  /\ UNCHANGED <<clock, opens, stray>>

StrayTransfer(b) ==
  /\ Exists(b) /\ stray[b] < MaxStray
  /\ vault' = [vault EXCEPT ![b] = @ + 1]
  /\ stray' = [stray EXCEPT ![b] = @ + 1]
  /\ UNCHANGED <<clock, escrow, tokens, opens>>

-----------------------------------------------------------------------------
Next ==
  \/ Tick
  \/ \E b \in Bonds :
       \/ \E t \in Terms : Escrow(b, t)
       \/ \E honored \in BOOLEAN : MarkProvisional(b, honored)
       \/ \E who \in Holders, stake \in Stakes : FileChallenge(b, who, stake)
       \/ \E won \in BOOLEAN : Resolve(b, won)
       \/ FinalizeTimeout(b)
       \/ \E to \in Destinations : Settle(b, to)
       \/ StrayTransfer(b)

Spec == Init /\ [][Next]_vars

(* Time passes, and someone sends the two instructions anyone may send.    *)
(* Neither the authority nor a challenger is obliged to do anything.       *)
FairSpec ==
  /\ Spec
  /\ WF_vars(Tick)
  /\ \A b \in Bonds :
       WF_vars(FinalizeTimeout(b)) /\ WF_vars(\E to \in Destinations : Settle(b, to))

-----------------------------------------------------------------------------
Records ==
  [state : {"Escrowed", "Provisional", "Disputed", "Finalized"}, agent : Holders,
   terms : Terms, honored : BOOLEAN, slashed : BOOLEAN, closes : Int,
   challenger : Holders \cup {Nobody}, stake : Nat]

TypeOK ==
  /\ clock \in Nat
  /\ escrow \in [Bonds -> {NoEscrow} \cup Records]
  /\ vault \in [Bonds -> Nat]
  /\ tokens \in [Holders -> Nat]
  /\ opens \in [Bonds -> Nat]
  /\ stray \in [Bonds -> Nat]

(* Custody: while a bond exists its vault holds the bond, the challenge    *)
(* stake and what strayed in, no less and no more; and a decided bond can  *)
(* be settled from it, each transfer covered and nothing left over, unless *)
(* tokens strayed in.                                                      *)
VaultBacksBond ==
  \A b \in Bonds :
    Exists(b) =>
      /\ vault[b] = escrow[b].terms.amount + escrow[b].stake + stray[b]
      /\ escrow[b].state = "Finalized" /\ stray[b] = 0 => vault[b] = Disbursed(escrow[b])

(* The outcome has an author: a bond is honored only if the authority      *)
(* marked its fill honored, and a bond so marked is slashed only if a      *)
(* challenger staked against it.                                           *)
OutcomeIsEarned ==
  \A b \in Bonds :
    escrow[b].state = "Finalized" =>
      /\ ~escrow[b].slashed => escrow[b].honored
      /\ escrow[b].slashed /\ escrow[b].honored => escrow[b].challenger # Nobody

(* The program's slash routing "Mirrors `scemadex_sdk::SlashRouting`": the  *)
(* two compute the split differently, the SDK capping each share and the   *)
(* program none, and every bond this program holds is split alike by both. *)
SplitsAgree ==
  \A b \in Bonds :
    Exists(b) => LET t == escrow[b].terms IN
                 ProgramSplit(t.amount, t.routing) = Distribute(t.amount, t.routing)

Parties(e) == {Recorded(e, s) : s \in Slots}

(* Whoever settles a bond, and with whatever accounts, only parties its    *)
(* record names gain from it: a slot is left unbound only where no money   *)
(* can move, because escrow() refuses a share to a party it leaves unnamed *)
(* and a bond nobody challenged pays nothing into the challengers' slot.   *)
OnlyPartiesArePaid ==
  [][\A b \in Bonds :
       Exists(b) /\ ~Exists(b)' =>
         \A h \in Holders : tokens'[h] > tokens[h] => h \in Parties(escrow[b])]_vars

(* Settling makes the party that was right whole, whoever its parties are: *)
(* an honored agent gains its bond and the stake, and nobody else gains;   *)
(* of a slashed bond the challenger gains its stake and the challengers'   *)
(* slice, the caller its share, and that slice too if nobody challenged,   *)
(* the other payees theirs; and the agent gains nothing, unless it is also *)
(* the challenger or a payee, which the program does not rule out.         *)
RightPartyIsMadeWhole ==
  [][\A b \in Bonds :
       Exists(b) /\ ~Exists(b)' =>
         LET e == escrow[b]
             split == ProgramSplit(e.terms.amount, e.terms.routing)
             unclaimed == IF e.challenger = Nobody THEN split.challengers ELSE 0
             gain(h) == tokens'[h] - tokens[h] IN
         IF e.slashed
         THEN /\ e.challenger # Nobody => gain(e.challenger) >= e.stake + split.challengers
              /\ gain(e.terms.payee["caller"]) >= split.caller + unclaimed
              /\ \A s \in {"insurance", "lineage"} :
                   e.terms.payee[s] # Nobody => gain(e.terms.payee[s]) >= split[s]
              /\ (\A s \in Slots \ {"agent"} : Recorded(e, s) # e.agent) => gain(e.agent) = 0
         ELSE \A h \in Holders :
                gain(h) = IF h = e.agent THEN e.terms.amount + e.stake ELSE 0]_vars

(* "Every state must have a way out that does not require a particular     *)
(* person": with nobody acting but the clock and whoever sends the         *)
(* permissionless instructions, every bond is paid out and closed.         *)
EveryBondHasAWayOut ==
  \A b \in Bonds : Exists(b) ~> (~Exists(b) \/ stray[b] > 0)

-----------------------------------------------------------------------------
PhaseOf(e) ==
  IF e.state = "None" THEN "free"
  ELSE IF e.state = "Escrowed" THEN "held"
  ELSE IF e.state = "Provisional" THEN "claimed"
  ELSE IF e.state = "Disputed" THEN "contested"
  ELSE IF e.slashed THEN "slashed" ELSE "honored"

Phase == [b \in Bonds |-> PhaseOf(escrow[b])]

Promise == INSTANCE BondPromise WITH phase <- Phase

(* The program keeps the promise its off-chain twin keeps: decided once,   *)
(* contested only after a claim, released only after a decision.           *)
KeepsPromise == Promise!Spec
=============================================================================
