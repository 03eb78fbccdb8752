---------------------------- MODULE CounterMarket ----------------------------
(***************************************************************************)
(* The challenge book of scemadex-sdk's CounterMarket.  Two mutexes: the   *)
(* book and, taken after it is released, the statistics.                   *)
(***************************************************************************)
EXTENDS FiniteSets, Sequences, Functions, Sums, Usdc

VARIABLES
  book,     \* digest -> listing, for the listed digests
  stats     \* CounterStats

MarketInit ==
  /\ book = [d \in {} |-> {}]
  /\ stats = [agentWins |-> 0, challengerWins |-> 0, premiums |-> 0, winnings |-> 0]

IsListed(d) == d \in DOMAIN book

Listing(pool) == [pool |-> pool, stakes |-> <<>>]

(* list inserts: the challenges of an earlier listing go with it.          *)
List(d, pool) ==
  book' = [x \in DOMAIN book \cup {d} |-> IF x = d THEN Listing(pool) ELSE book[x]]

CanStake(d, stake) == stake # 0 /\ IsListed(d)

Stake(d, who, stake) ==
  /\ CanStake(d, stake)
  /\ book' = [book EXCEPT ![d].stakes = Append(@, [who |-> who, stake |-> stake])]

TotalStake(l) == SumOf([i \in DOMAIN l.stakes |-> l.stakes[i].stake])

(* A share of the pool by stake.  The product is u64 arithmetic and        *)
(* saturates: of a large pool a large stake gets less than its weight.     *)
ProRata(l, i) == Saturated(l.pool * l.stakes[i].stake) \div TotalStake(l)

(* Mutation: what the shares leave of the pool is nobody's.                *)
Share_DustLost(l, i) == ProRata(l, i)

(* The last challenger takes whatever the others leave.                    *)
Share(l, i) ==
  IF i < Len(l.stakes) THEN ProRata(l, i)
  ELSE l.pool - SumOf([j \in 1 .. Len(l.stakes) - 1 |-> ProRata(l, j)])

(* Mutation: an honored agent is not paid the forfeited stakes.            *)
Settle_NoPremium(l, outcome) ==
  [payouts |-> IF outcome = "Honored" THEN <<>>
               ELSE [i \in DOMAIN l.stakes |-> l.stakes[i].stake + Share(l, i)],
   premium |-> 0]

(* ChallengeSettlement: what each challenger is paid, by its place in the  *)
(* book, and what the agent is paid.                                       *)
Settle(l, outcome) ==
  IF outcome = "Honored"
  THEN [payouts |-> <<>>, premium |-> TotalStake(l)]
  ELSE [payouts |-> [i \in DOMAIN l.stakes |-> l.stakes[i].stake + Share(l, i)],
        premium |-> 0]

PaidOut(s) == SumOf(s.payouts)

(* Mutation: settling leaves the entry in the book.                        *)
Unlist_Keeps(d) == IsListed(d) /\ book' = book

Unlist(d) == book' = Restrict(book, DOMAIN book \ {d})

(* The second half of settle, only for a bond that was challenged.  The    *)
(* winnings counter adds whole payouts, the returned stakes included.      *)
CountSettlement(outcome, s) ==
  stats' = IF outcome = "Honored"
           THEN [stats EXCEPT !.agentWins = @ + 1, !.premiums = @ + s.premium]
           ELSE [stats EXCEPT !.challengerWins = @ + 1, !.winnings = @ + PaidOut(s)]
=============================================================================
