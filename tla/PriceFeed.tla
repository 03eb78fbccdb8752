------------------------------- MODULE PriceFeed -------------------------------
(***************************************************************************)
(* BotchainPriceFeed (scema-botchain/contracts): reporters submit prices   *)
(* for the round being assembled; the submission that reaches quorum       *)
(* finalises it at the median.  Submissions expire, reporters come and go  *)
(* and the quorum moves while a round waits.  A transaction is one step; a *)
(* revert is no step.  Of the reads, the answer and its times are kept;    *)
(* heartbeat, answer bounds and ownership are left out.                    *)
(***************************************************************************)
EXTENDS Naturals, SequencesExt

CONSTANTS
  Reporters,       \* addresses that may be made reporters
  Honest,          \* those that report what they see
  HonestPrices,    \* what there is to see
  OtherPrices,     \* what the others may say
  MaxReporters,    \* MAX_REPORTERS, 31 in the code
  InitialQuorum,
  Ages,            \* bound: values of maxSubmissionAge
  MaxNow,          \* bound: the clock
  MaxRounds        \* bound: rounds finalised

ASSUME FeedAssumption ==
  /\ Honest \subseteq Reporters
  /\ HonestPrices \subseteq Nat \ {0}
  /\ OtherPrices \subseteq Nat \ {0}
  /\ InitialQuorum \in Nat \ {0}
  /\ Ages \subseteq Nat \ {0}
  /\ {MaxReporters, MaxNow, MaxRounds} \subseteq Nat

VARIABLES
  now,               \* block.timestamp
  reporters,         \* the array
  isReporter,        \* the mapping
  quorum,
  maxSubmissionAge,
  book,              \* the round being assembled
  rounds             \* _rounds, up to latestRound

feedVars == <<now, reporters, isReporter, quorum, maxSubmissionAge, book, rounds>>

Zero == [price |-> 0, at |-> 0]

EmptyBook == [submitters |-> <<>>, hasPending |-> {}, pending |-> [r \in Reporters |-> Zero]]

FeedInit ==
  /\ now = 0
  /\ reporters = <<>>
  /\ isReporter = {}
  /\ quorum = InitialQuorum
  /\ maxSubmissionAge \in Ages
  /\ book = EmptyBook
  /\ rounds = <<>>

-----------------------------------------------------------------------------
(* Swap and pop: the last element takes the place of the one that goes.    *)
SwapPop(s, i) == SubSeq([s EXCEPT ![i] = Last(s)], 1, Len(s) - 1)

(* Mutation: the element is popped without the swap.                       *)
ClearPending_PopOnly(b, i) ==
  [submitters |-> Front(b.submitters),
   hasPending |-> b.hasPending \ {b.submitters[i]},
   pending |-> [b.pending EXCEPT ![b.submitters[i]] = Zero]]

ClearPending(b, i) ==
  [submitters |-> SwapPop(b.submitters, i),
   hasPending |-> b.hasPending \ {b.submitters[i]},
   pending |-> [b.pending EXCEPT ![b.submitters[i]] = Zero]]

Late(submission) == now > submission.at + maxSubmissionAge

PurgeAt(b, i) == IF Late(b.pending[b.submitters[i]]) THEN ClearPending(b, i) ELSE b

(* Mutation: the list is walked forwards while it shrinks.                 *)
Purged_Forwards ==
  LET n == Len(book.submitters)
      after[k \in 0 .. n] ==
        IF k = 0 THEN book
        ELSE IF k <= Len(after[k - 1].submitters) THEN PurgeAt(after[k - 1], k) ELSE after[k - 1]
  IN  after[n]

(* _purgeExpired walks the list backwards.                                 *)
Purged ==
  LET n == Len(book.submitters)
      after[k \in 0 .. n] == IF k = 0 THEN book ELSE PurgeAt(after[k - 1], n - k + 1)
  IN  after[n]

(* Mutation: the prices are not sorted.                                    *)
Median_Unsorted(values) ==
  LET n == Len(values)
  IN  IF n % 2 = 1 THEN values[n \div 2 + 1] ELSE values[n \div 2] \div 2 + values[n \div 2 + 1] \div 2

InOrder(values, p) == \A i, j \in DOMAIN values : i < j => values[p[i]] <= values[p[j]]

(* The values, sorted.                                                     *)
Sorted(values) ==
  LET p == CHOOSE p \in Bijection(DOMAIN values, DOMAIN values) : InOrder(values, p)
  IN  [i \in DOMAIN values |-> values[p[i]]]

(* Each of the middle pair is halved before they are added.                *)
Median(values) ==
  LET n == Len(values)
      sorted == Sorted(values)
  IN  IF n % 2 = 1 THEN sorted[n \div 2 + 1] ELSE sorted[n \div 2] \div 2 + sorted[n \div 2 + 1] \div 2

(* The round that _finalize stores.  from and purged are history: what it  *)
(* was made of, and whether expired submissions were dropped just before.  *)
RoundOf(b, purged) ==
  LET submission(i) == b.pending[b.submitters[i]]
      order == DOMAIN b.submitters
  IN  [answer |-> Median([i \in order |-> submission(i).price]),
       startedAt |-> CHOOSE t \in {submission(i).at : i \in order} :
                       \A i \in order : t <= submission(i).at,
       updatedAt |-> now,
       submissionCount |-> Len(b.submitters),
       from |-> [r \in Range(b.submitters) |-> b.pending[r]],
       age |-> maxSubmissionAge,
       purged |-> purged]

Finalize(b, purged) ==
  /\ Len(rounds) < MaxRounds
  /\ rounds' = Append(rounds, RoundOf(b, purged))
  /\ book' = [submitters |-> <<>>,
              hasPending |-> b.hasPending \ Range(b.submitters),
              pending |-> [r \in Reporters |-> IF r \in Range(b.submitters) THEN Zero ELSE b.pending[r]]]

-----------------------------------------------------------------------------
Submit(r, price) ==
  LET live == Purged
      b == [submitters |-> Append(live.submitters, r),
            hasPending |-> live.hasPending \cup {r},
            pending |-> [live.pending EXCEPT ![r] = [price |-> price, at |-> now]]]
  IN  /\ r \in isReporter
      /\ r \notin live.hasPending
      /\ IF Len(b.submitters) >= quorum
         THEN Finalize(b, TRUE)
         ELSE book' = b /\ UNCHANGED rounds
      /\ UNCHANGED <<now, reporters, isReporter, quorum, maxSubmissionAge>>

AddReporter(r) ==
  /\ r \notin isReporter
  /\ Len(reporters) < MaxReporters
  /\ reporters' = Append(reporters, r)
  /\ isReporter' = isReporter \cup {r}
  /\ UNCHANGED <<now, quorum, maxSubmissionAge, book, rounds>>

IndexIn(s, r) == CHOOSE i \in DOMAIN s : s[i] = r

(* Mutation: the quorum stays where it was.                                *)
RemoveReporter_KeepQuorum(r) ==
  /\ r \in isReporter
  /\ reporters' = SwapPop(reporters, IndexIn(reporters, r))
  /\ isReporter' = isReporter \ {r}
  /\ book' = IF r \in book.hasPending THEN ClearPending(book, IndexIn(book.submitters, r)) ELSE book
  /\ UNCHANGED <<now, quorum, maxSubmissionAge, rounds>>

(* What the reporter has pending goes with it, and the quorum comes down   *)
(* to the reporters that are left; a round that now has quorum waits.      *)
RemoveReporter(r) ==
  LET n == Len(reporters) - 1 IN
  /\ r \in isReporter
  /\ reporters' = SwapPop(reporters, IndexIn(reporters, r))
  /\ isReporter' = isReporter \ {r}
  /\ book' = IF r \in book.hasPending THEN ClearPending(book, IndexIn(book.submitters, r)) ELSE book
  /\ quorum' = IF quorum > n /\ n > 0 THEN n ELSE quorum
  /\ UNCHANGED <<now, maxSubmissionAge, rounds>>

(* A quorum already met finalises at once, expired submissions included.   *)
SetQuorum(q) ==
  /\ q \in 1 .. Len(reporters)
  /\ quorum' = q
  /\ IF Len(book.submitters) >= q
     THEN Finalize(book, FALSE)
     ELSE UNCHANGED <<book, rounds>>
  /\ UNCHANGED <<now, reporters, isReporter, maxSubmissionAge>>

SetMaxSubmissionAge(age) ==
  /\ age \in Ages
  /\ maxSubmissionAge' = age
  /\ UNCHANGED <<now, reporters, isReporter, quorum, book, rounds>>

FeedTick ==
  /\ now < MaxNow
  /\ now' = now + 1
  /\ UNCHANGED <<reporters, isReporter, quorum, maxSubmissionAge, book, rounds>>

FeedNext ==
  \/ \E r \in Honest : \E price \in HonestPrices : Submit(r, price)
  \/ \E r \in Reporters \ Honest : \E price \in OtherPrices : Submit(r, price)
  \/ \E r \in Reporters : AddReporter(r) \/ RemoveReporter(r)
  \/ \E q \in 1 .. MaxReporters : SetQuorum(q)
  \/ \E age \in Ages : SetMaxSubmissionAge(age)
  \/ FeedTick

FeedSpec == FeedInit /\ [][FeedNext]_feedVars

-----------------------------------------------------------------------------
(* The array and the mapping of reporters, each once.                      *)
RosterAgrees == IsInjective(reporters) /\ Range(reporters) = isReporter

(* The array and the mapping name the same reporters, and the list, the    *)
(* flags and the submissions the same pending ones, each once and each of  *)
(* a present reporter, whatever swaps and pops have moved: nobody counts   *)
(* twice toward quorum, and "a revoked reporter's price" never does.       *)
BooksAgree ==
  /\ RosterAgrees
  /\ IsInjective(book.submitters) /\ Range(book.submitters) = book.hasPending
  /\ book.hasPending \subseteq isReporter
  /\ \A r \in Reporters : r \in book.hasPending <=> book.pending[r] # Zero

(* "Quorum must not be left above the reporter count, or the feed          *)
(* deadlocks and goes silently stale" (setReporter): once within reach it  *)
(* stays there as long as a reporter is left.                              *)
QuorumStaysReachable ==
  [][(quorum <= Len(reporters) /\ reporters' # <<>>) => quorum' <= Len(reporters')]_feedVars

(* "quorum is always counted over submissions that are simultaneously      *)
(* live" (submit): every submission of a round that a submission finalised *)
(* was within its age, and the round says how old the oldest was.          *)
FreshRounds ==
  \A i \in DOMAIN rounds : rounds[i].purged =>
    /\ rounds[i].updatedAt <= rounds[i].startedAt + rounds[i].age
    /\ \A r \in DOMAIN rounds[i].from : rounds[i].startedAt <= rounds[i].from[r].at

(* "With an honest majority that choice is confined to the range of honest *)
(* submissions" (the contract's security model): whoever submits last, in  *)
(* whatever order, the answer is between two honest prices, less the one   *)
(* unit that halving a pair of odd prices loses.                           *)
PivotIsBounded ==
  \A i \in DOMAIN rounds :
    LET round == rounds[i]
        honest == DOMAIN round.from \cap Honest
        others == DOMAIN round.from \ Honest
    IN  Cardinality(others) < Cardinality(honest) =>
          \E low, high \in honest :
            /\ round.from[low].price <= round.answer + 1
            /\ round.answer <= round.from[high].price
=============================================================================
