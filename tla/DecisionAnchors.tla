---------------------------- MODULE DecisionAnchors ----------------------------
(***************************************************************************)
(* mesh-attestd: the sniper appends decisions to a log, the daemon reads   *)
(* it on an interval, anchors what is new as a batch in BotchainNNMesh and *)
(* records its progress in a checkpoint.  The log may be rotated or        *)
(* truncated, a transaction may land unseen or be given up and land later, *)
(* the daemon may die at any step and find its checkpoint gone.  Decisions *)
(* are numbered as they are written, so no two are equal; a line that is   *)
(* not complete yet is not there yet.                                      *)
(***************************************************************************)
EXTENDS ClaimBatch

CONSTANTS
  MaxDecisions,   \* bound: decisions written
  MaxUpsets,      \* bound: cuts of the log and deaths of the daemon
  MaxChallenges   \* bound: challenges opened

ASSUME AnchorsAssumption == {MaxDecisions, MaxUpsets, MaxChallenges} \subseteq Nat

VARIABLES
  log, written,   \* the sniper's decision log, and how many were ever written
  checkpoint,     \* what the daemon has recorded of its progress
  daemon,         \* what one flush holds in memory
  tx,             \* what became of the transaction it waits for
  strays,         \* batches sent and given up, not landed yet
  anchors,        \* the contract's anchors
  upsets, challenges   \* bounds

logFile == <<log, written>>
flush == <<checkpoint, daemon, tx, strays>>
bounds == <<upsets, challenges>>
anchorsVars == <<logFile, flush, anchors, bounds>>

NoDigest == 0

(* Checkpoint::default(), which is also what an unreadable file gives.     *)
Fresh == [processed |-> 0, last |-> NoDigest]

Asleep == [pc |-> "asleep", view |-> <<>>, start |-> 0]

AnchorsInit ==
  /\ log = <<>> /\ written = 0
  /\ checkpoint = Fresh
  /\ daemon = Asleep
  /\ tx = "none"
  /\ strays = {}
  /\ anchors = {}
  /\ upsets = 0 /\ challenges = 0

Batch == SubSeq(daemon.view, daemon.start + 1, Len(daemon.view))

-----------------------------------------------------------------------------
(* The log.                                                                *)
Decide ==
  /\ written < MaxDecisions
  /\ written' = written + 1
  /\ log' = Append(log, written')
  /\ UNCHANGED <<flush, anchors, bounds>>

(* Rotated, or truncated to its first lines.                               *)
CutLog ==
  /\ upsets < MaxUpsets
  /\ upsets' = upsets + 1
  /\ \E n \in 0 .. Len(log) - 1 : log' = SubSeq(log, 1, n)
  /\ UNCHANGED <<written, flush, anchors, challenges>>

-----------------------------------------------------------------------------
(* Mutation: the digest of the last record is not looked at.               *)
NextStart_NoTripwire ==
  IF checkpoint.processed > Len(log) THEN 0 ELSE checkpoint.processed

(* next_batch: where the next batch starts, after the checks of progress   *)
(* against the log.                                                        *)
NextStart ==
  LET n == checkpoint.processed IN
  IF n > Len(log) THEN 0
  ELSE IF n > 0 /\ checkpoint.last # NoDigest /\ log[n] # checkpoint.last THEN 0
  ELSE n

ReadLog ==
  /\ daemon.pc = "asleep"
  /\ NextStart < Len(log)
  /\ daemon' = [pc |-> "sending", view |-> log, start |-> NextStart]
  /\ UNCHANGED <<logFile, checkpoint, tx, strays, anchors, bounds>>

(* cast does not run, or refuses to send.                                  *)
CastRefuses ==
  /\ daemon.pc = "sending"
  /\ daemon' = Asleep
  /\ UNCHANGED <<logFile, checkpoint, tx, strays, anchors, bounds>>

CastSends ==
  /\ daemon.pc = "sending"
  /\ daemon' = [daemon EXCEPT !.pc = "waiting"]
  /\ tx' = "sent"
  /\ UNCHANGED <<logFile, checkpoint, strays, anchors, bounds>>

(* anchorBatch, sent by the agent's owner: a root is anchored once.        *)
AnchorExists(claims) == \E a \in anchors : Root(a.claims) = Root(claims)

(* The anchor of a batch.  claims stands for its root; accused is history: *)
(* the claims that challenges named.                                       *)
Anchored(claims) ==
  [claims |-> claims, claimCount |-> Len(claims),
   disputed |-> FALSE, slashed |-> FALSE, accused |-> {}]

AnchorBatch(claims) == anchors' = anchors \cup {Anchored(claims)}

TxLands ==
  /\ tx = "sent"
  /\ \/ AnchorExists(Batch) /\ tx' = "reverted" /\ UNCHANGED anchors
     \/ ~AnchorExists(Batch) /\ tx' = "landed" /\ AnchorBatch(Batch)
  /\ UNCHANGED <<logFile, checkpoint, daemon, strays, bounds>>

StrayLands(claims) ==
  /\ claims \in strays
  /\ strays' = strays \ {claims}
  /\ IF AnchorExists(claims) THEN UNCHANGED anchors ELSE AnchorBatch(claims)
  /\ UNCHANGED <<logFile, checkpoint, daemon, tx, bounds>>

(* The transaction is given up: if it has not landed, it may yet.          *)
GiveUp ==
  /\ tx' = "none"
  /\ strays' \in IF tx = "sent" THEN {strays, strays \cup {Batch}} ELSE {strays}

(* Mutation: progress is recorded for a batch that was only sent.          *)
CastFails_Advances ==
  LET n == Len(daemon.view) IN
  /\ daemon.pc = "waiting"
  /\ GiveUp
  /\ checkpoint' = [processed |-> n, last |-> daemon.view[n]]
  /\ daemon' = Asleep
  /\ UNCHANGED <<logFile, anchors, bounds>>

(* cast reports a failure: reverted, or no answer in time.                 *)
CastFails ==
  /\ daemon.pc = "waiting"
  /\ GiveUp
  /\ daemon' = Asleep
  /\ UNCHANGED <<logFile, checkpoint, anchors, bounds>>

CastSucceeds ==
  /\ daemon.pc = "waiting"
  /\ tx = "landed"
  /\ tx' = "none"
  /\ daemon' = [daemon EXCEPT !.pc = "saving"]
  /\ UNCHANGED <<logFile, checkpoint, strays, anchors, bounds>>

(* advance and save_checkpoint, which may fail and leave the old file.     *)
Save ==
  LET n == Len(daemon.view) IN
  /\ daemon.pc = "saving"
  /\ checkpoint' \in {checkpoint, [processed |-> n, last |-> daemon.view[n]]}
  /\ daemon' = Asleep
  /\ UNCHANGED <<logFile, tx, strays, anchors, bounds>>

(* The daemon dies and is started again; the checkpoint may be unreadable. *)
DaemonDies ==
  /\ upsets < MaxUpsets
  /\ upsets' = upsets + 1
  /\ checkpoint' \in {checkpoint, Fresh}
  /\ GiveUp
  /\ daemon' = Asleep
  /\ UNCHANGED <<logFile, anchors, challenges>>

-----------------------------------------------------------------------------
(* The contract: challenges and rulings.  The window is not timed: a       *)
(* challenge may come after any step, or never.                            *)
Amend(a, b) == anchors' = (anchors \ {a}) \cup {b}

(* A challenger has the proof of some claim of some batch, and names any   *)
(* index.                                                                  *)
Challenge(a, digest, index, steps) ==
  /\ challenges < MaxChallenges
  /\ challenges' = challenges + 1
  /\ ~a.disputed
  /\ index < a.claimCount
  /\ VerifyInclusion(Root(a.claims), digest, index, steps)
  /\ Amend(a, [a EXCEPT !.disputed = TRUE, !.accused = @ \cup {<<index, digest>>}])
  /\ UNCHANGED <<logFile, flush, upsets>>

(* resolveChallenge: a ruling may be made again, and in either sense.      *)
Resolve(a, slashed) ==
  /\ a.disputed
  /\ Amend(a, [a EXCEPT !.slashed = slashed])
  /\ UNCHANGED <<logFile, flush, bounds>>

-----------------------------------------------------------------------------
Daemon == ReadLog \/ CastRefuses \/ CastSends \/ CastFails \/ CastSucceeds \/ Save

Chain ==
  \/ TxLands
  \/ \E claims \in strays : StrayLands(claims)
  \/ \E a \in anchors :
       \/ \E b \in anchors : \E i \in DOMAIN b.claims, index \in 0 .. MaxDecisions - 1 :
            Challenge(a, b.claims[i], index, Proof(b.claims, i))
       \/ \E slashed \in BOOLEAN : Resolve(a, slashed)

AnchorsNext == Decide \/ CutLog \/ Daemon \/ Chain \/ DaemonDies

(* The daemon runs its loop; a batch that is sent again and again is       *)
(* sooner or later sent and included.                                      *)
Fairness ==
  /\ WF_anchorsVars(Daemon)
  /\ SF_anchorsVars(CastSends)
  /\ SF_anchorsVars(TxLands)

AnchorsSpec == AnchorsInit /\ [][AnchorsNext]_anchorsVars

AnchorsFairSpec == AnchorsSpec /\ Fairness

-----------------------------------------------------------------------------
IsAnchored(d) == \E a \in anchors : d \in Range(a.claims)

(* "A gap in the record is indistinguishable from a deleted losing streak" *)
(* (daemon.rs): as long as the checkpoint fits the log, every decision up  *)
(* to it is anchored, whatever was rotated, lost, given up or begun again  *)
(* before.                                                                 *)
NoSilentGap ==
  LET n == checkpoint.processed IN
  (n \in 1 .. Len(log) /\ log[n] = checkpoint.last) =>
    \A i \in 1 .. n : IsAnchored(log[i])

(* A decision that stays in the log is anchored in the end, also when      *)
(* every answer of cast is lost.                                           *)
EveryDecisionIsAnchored ==
  \A d \in 1 .. MaxDecisions :
    (d \in Range(log)) ~> (IsAnchored(d) \/ d \notin Range(log))

(* Any single claim of an anchored batch can be challenged: the contract   *)
(* accepts the proof that the Rust side builds, at the claim's own index.  *)
ClaimsAreChallengeable ==
  \A a \in anchors : \A i \in DOMAIN a.claims :
    /\ i - 1 < a.claimCount
    /\ VerifyInclusion(Root(a.claims), a.claims[i], i - 1, Proof(a.claims, i))

(* "A challenge cannot be opened against a claim that was never in the     *)
(* batch" (challenge), nor at another index, with whatever proof of        *)
(* another claim or batch.                                                 *)
OnlyClaimsAreAccused ==
  \A a \in anchors : \A accusation \in a.accused :
    /\ accusation[1] + 1 \in DOMAIN a.claims
    /\ a.claims[accusation[1] + 1] = accusation[2]

(* "re-anchoring already-covered decisions ... is caught by AnchorExists"  *)
(* (load_checkpoint): no decision is in two anchors.                       *)
NoDecisionTwice ==
  \A a, b \in anchors : a.claims # b.claims => Range(a.claims) \cap Range(b.claims) = {}
=============================================================================
