--------------------------- MODULE BondEscrowProofs ---------------------------
(***************************************************************************)
(* TLAPS proofs about BondEscrow, for any addresses, parties, terms,       *)
(* stakes and integer width, with authorities and challengers that do as   *)
(* they like and tokens that stray into vaults, and about the split of a   *)
(* bond that BondEscrow takes from SlashRouting.                           *)
(***************************************************************************)
EXTENDS BondEscrow, TLAPS

-----------------------------------------------------------------------------
(* First the split of a bond, SlashRouting::distribute and the program's   *)
(* own: for any width of the integers, any bond and any routing, valid or  *)
(* not.                                                                    *)
LEMMA SmallerBounds ==
  ASSUME NEW x \in Nat, NEW y \in Nat
  PROVE  Smaller(x, y) \in 0 .. y
  BY DEF Smaller

LEMMA SliceIsNat ==
  ASSUME NEW a \in Nat, NEW bps \in Nat
  PROVE  Slice(a, bps) \in Nat
<1>1. a * bps \in Nat
  OBVIOUS
<1>2. (a * bps) \div 10000 \in Nat
  BY <1>1
<1>3. QED BY <1>2, U64Assumption DEF Slice

(* The split of a bond is the bond: no share is negative, none exceeds the *)
(* bond and the four sum to it, whatever the routing claims.               *)
THEOREM DistributeConserves ==
  ASSUME NEW a \in Nat, NEW r \in Routings
  PROVE  /\ Paid(Distribute(a, r)) = a
         /\ \A s \in DOMAIN Distribute(a, r) : Distribute(a, r)[s] \in 0 .. a
<1> DEFINE c == Smaller(Slice(a, r["challengers"]), a)
           i == Smaller(Slice(a, r["insurance"]), a - c)
           l == Smaller(Slice(a, r["lineage"]), a - c - i)
<1>1. /\ r["challengers"] \in Nat /\ r["insurance"] \in Nat /\ r["lineage"] \in Nat
  BY DEF Routings, Shares
<1>2. c \in 0 .. a
  BY <1>1, SliceIsNat, SmallerBounds
<1>3. i \in 0 .. a - c
  <2>1. a - c \in Nat
    BY <1>2
  <2>2. QED BY <1>1, <2>1, SliceIsNat, SmallerBounds
<1>4. l \in 0 .. a - c - i
  <2>1. a - c - i \in Nat
    BY <1>2, <1>3
  <2>2. QED BY <1>1, <2>1, SliceIsNat, SmallerBounds
<1>5. Distribute(a, r) = [caller |-> a - c - i - l, challengers |-> c,
                          insurance |-> i, lineage |-> l]
  BY DEF Distribute
<1> HIDE DEF c, i, l
<1>6. a - c - i - l \in 0 .. a /\ c \in 0 .. a /\ i \in 0 .. a /\ l \in 0 .. a
  BY <1>2, <1>3, <1>4
<1>7. Paid(Distribute(a, r)) = a
  BY <1>2, <1>3, <1>4, <1>5 DEF Paid
<1>8. QED BY <1>5, <1>6, <1>7

-----------------------------------------------------------------------------
(* Valid routings: no share is capped, and the program splits alike.       *)
LEMMA ProductMonotone ==
  ASSUME NEW a \in Nat, NEW x \in Nat, NEW y \in Nat, x <= y
  PROVE  a * x <= a * y
<1>1. PICK d \in Nat : y = x + d
  <2>1. y - x \in Nat /\ y = x + (y - x)
    OBVIOUS
  <2>2. QED BY <2>1
<1>2. a * y = a * x + a * d
  BY <1>1
<1>3. a * d \in Nat /\ a * x \in Nat
  BY <1>1
<1>4. QED BY <1>2, <1>3

LEMMA FloorOf ==
  ASSUME NEW n \in Nat
  PROVE  n \div 10000 \in Nat /\ 10000 * (n \div 10000) <= n
  OBVIOUS

(* A share of at most the whole fits the bond and is cast unchanged.       *)
LEMMA SliceIsFloor ==
  ASSUME NEW a \in Amounts, NEW bps \in Nat, bps <= 10000
  PROVE  /\ Slice(a, bps) = (a * bps) \div 10000
         /\ Slice(a, bps) \in 0 .. a
<1> DEFINE q == (a * bps) \div 10000
<1>1. a \in Nat /\ a < U64
  BY U64Assumption DEF Amounts
<1>2. a * bps \in Nat /\ a * bps <= a * 10000
  BY <1>1, ProductMonotone
<1>3. q \in Nat /\ 10000 * q <= a * bps
  BY <1>2, FloorOf
<1>4. q <= a
  BY <1>1, <1>2, <1>3
<1>5. q % U64 = q
  BY <1>1, <1>3, <1>4, U64Assumption
<1>6. QED BY <1>3, <1>4, <1>5, <1>1 DEF Slice

LEMMA ThreeSharesFit ==
  ASSUME NEW a \in Nat, NEW x \in Nat, NEW y \in Nat, NEW z \in Nat,
         x + y + z <= 10000
  PROVE  (a * x) \div 10000 + (a * y) \div 10000 + (a * z) \div 10000 <= a
<1> DEFINE p == (a * x) \div 10000
           q == (a * y) \div 10000
           r == (a * z) \div 10000
<1>1. a * x \in Nat /\ a * y \in Nat /\ a * z \in Nat
  OBVIOUS
<1>2. /\ p \in Nat /\ 10000 * p <= a * x
      /\ q \in Nat /\ 10000 * q <= a * y
      /\ r \in Nat /\ 10000 * r <= a * z
  BY <1>1, FloorOf
<1>3. a * x + a * y + a * z = a * (x + y + z)
  OBVIOUS
<1>4. a * (x + y + z) <= a * 10000
  BY ProductMonotone
<1>5. QED
  <2> HIDE DEF p, q, r
  <2>1. 10000 * (p + q + r) <= a * 10000
    BY <1>1, <1>2, <1>3, <1>4
  <2>2. p + q + r <= a
    BY <2>1, <1>2
  <2>3. QED BY <2>2 DEF p, q, r

(* The program's split of a bond under a routing it accepts pays exactly   *)
(* the bond, and nothing for a share of zero.                              *)
THEOREM SplitPaysTheBond ==
  ASSUME NEW a \in Amounts, NEW r \in Routings, IsValid(r)
  PROVE  LET d == ProgramSplit(a, r) IN
         /\ d.caller \in Nat /\ d.challengers \in Nat /\ d.insurance \in Nat /\ d.lineage \in Nat
         /\ d.caller + d.challengers + d.insurance + d.lineage = a
         /\ r["insurance"] = 0 => d.insurance = 0
         /\ r["lineage"] = 0 => d.lineage = 0
<1> DEFINE x == r["challengers"]
           y == r["insurance"]
           z == r["lineage"]
<1>1. /\ a \in Nat /\ x \in Nat /\ y \in Nat /\ z \in Nat /\ r["caller"] \in Nat
  BY U64Assumption DEF Amounts, Routings, Shares
<1>2. x + y + z <= 10000
  BY <1>1 DEF IsValid, Total
<1> HIDE DEF x, y, z
<1> DEFINE p == (a * x) \div 10000
           q == (a * y) \div 10000
           s == (a * z) \div 10000
<1>3. /\ Slice(a, x) = p /\ Slice(a, y) = q /\ Slice(a, z) = s
      /\ p \in 0 .. a /\ q \in 0 .. a /\ s \in 0 .. a
  BY <1>1, <1>2, SliceIsFloor
<1>4. p + q + s <= a
  BY <1>1, <1>2, ThreeSharesFit
<1>5. (y = 0 => q = 0) /\ (z = 0 => s = 0)
  BY <1>1
<1> HIDE DEF p, q, s
<1>6. /\ ProgramSplit(a, r).caller = Less(Less(Less(a, p), q), s)
      /\ ProgramSplit(a, r).challengers = p
      /\ ProgramSplit(a, r).insurance = q
      /\ ProgramSplit(a, r).lineage = s
  BY <1>3 DEF ProgramSplit, x, y, z
<1>7. Less(Less(Less(a, p), q), s) = a - p - q - s
  BY <1>1, <1>3, <1>4 DEF Less
<1>8. QED BY <1>1, <1>3, <1>4, <1>5, <1>6, <1>7 DEF y, z

(* Under a routing that sums to a whole, the SDK and the program split     *)
(* every bond alike.                                                       *)
THEOREM SplitsAlwaysAgree ==
  ASSUME NEW a \in Amounts, NEW r \in Routings, IsValid(r)
  PROVE  ProgramSplit(a, r) = Distribute(a, r)
<1> DEFINE p == Slice(a, r["challengers"])
           q == Slice(a, r["insurance"])
           s == Slice(a, r["lineage"])
<1>1. a \in Nat /\ p \in Nat /\ q \in Nat /\ s \in Nat
  <2>1. a \in Nat /\ \A i \in Shares : r[i] \in Nat
    BY U64Assumption DEF Amounts, Routings
  <2>2. \A i \in Shares : Slice(a, r[i]) \in Nat
    BY <2>1, SliceIsNat
  <2>3. QED BY <2>1, <2>2 DEF Shares
<1>2. p + q + s <= a
  <2>1. /\ ProgramSplit(a, r).caller \in Nat
        /\ ProgramSplit(a, r).caller + p + q + s = a
    <3>1. /\ ProgramSplit(a, r).challengers = p
          /\ ProgramSplit(a, r).insurance = q
          /\ ProgramSplit(a, r).lineage = s
      BY DEF ProgramSplit
    <3>2. QED BY <3>1, SplitPaysTheBond
  <2>2. QED BY <1>1, <2>1
<1> HIDE DEF p, q, s
<1>3. Smaller(p, a) = p /\ Smaller(q, a - p) = q /\ Smaller(s, a - p - q) = s
  BY <1>1, <1>2 DEF Smaller
<1>4. Less(Less(Less(a, p), q), s) = a - p - q - s
  BY <1>1, <1>2 DEF Less
<1>5. Distribute(a, r) = [caller |-> a - p - q - s, challengers |-> p, insurance |-> q, lineage |-> s]
  BY <1>3 DEF Distribute, p, q, s
<1>6. ProgramSplit(a, r) = [caller |-> a - p - q - s, challengers |-> p, insurance |-> q, lineage |-> s]
  BY <1>4 DEF ProgramSplit, p, q, s
<1>7. QED BY <1>5, <1>6

-----------------------------------------------------------------------------
(* What holds of every open record besides its type.                       *)
RecordOK(e) ==
  /\ e \in Records
  /\ Acceptable(e.terms)
  /\ e.state = "Escrowed" => ~e.honored
  /\ e.state \in {"Escrowed", "Provisional"} => e.stake = 0
  /\ e.challenger = Nobody => e.stake = 0
  /\ e.state = "Disputed" => e.honored /\ e.challenger # Nobody
  /\ e.state = "Finalized" =>
       /\ ~e.slashed => e.honored
       /\ e.slashed /\ e.honored => e.challenger # Nobody

(* ... and of its vault.                                                   *)
Backed(b) == vault[b] = escrow[b].terms.amount + escrow[b].stake + stray[b]

IInv ==
  /\ TypeOK
  /\ \A b \in Bonds : Exists(b) => RecordOK(escrow[b]) /\ Backed(b)
  /\ \A b \in Bonds : ~Exists(b) => stray[b] = 0

LEMMA InitIInv == Init => IInv
  BY EscrowAssumption DEF Init, IInv, TypeOK, Exists, NoEscrow

LEMMA TermsAre ==
  ASSUME NEW t \in Terms
  PROVE  /\ t.amount \in Nat /\ t.amount \in Amounts /\ t.window \in Int
         /\ t.routing \in Routings /\ t.payee \in [Payees -> Holders \cup {Nobody}]
  BY EscrowAssumption, U64Assumption DEF Amounts

FiveSlots == {"agent", "caller", "challengers", "insurance", "lineage"}

LEMMA SlotsAre == Slots = FiveSlots
  BY DEF Slots, Payees, FiveSlots

(* What a slashed bond pays, slot by slot.                                 *)
LEMMA SlashedPayout ==
  ASSUME NEW e, RecordOK(e), e.slashed,
         NEW d, d = ProgramSplit(e.terms.amount, e.terms.routing)
  PROVE  /\ d.caller \in Nat /\ d.challengers \in Nat /\ d.insurance \in Nat /\ d.lineage \in Nat
         /\ d.caller + d.challengers + d.insurance + d.lineage = e.terms.amount
         /\ e.terms.routing["insurance"] = 0 => d.insurance = 0
         /\ e.terms.routing["lineage"] = 0 => d.lineage = 0
         /\ Payout(e)["agent"] = 0
         /\ Payout(e)["caller"]
              = d.caller + (IF e.challenger = Nobody THEN d.challengers ELSE 0)
         /\ Payout(e)["challengers"]
              = IF e.challenger = Nobody THEN 0 ELSE d.challengers + e.stake
         /\ Payout(e)["insurance"] = d.insurance /\ Payout(e)["lineage"] = d.lineage
<1>1. /\ e.terms \in Terms /\ e.stake \in Nat /\ IsValid(e.terms.routing)
      /\ e.challenger = Nobody => e.stake = 0
  BY DEF RecordOK, Records, Acceptable
<1>2. e.terms.amount \in Amounts /\ e.terms.routing \in Routings
  BY <1>1, TermsAre
<1>3. /\ d.caller \in Nat /\ d.challengers \in Nat /\ d.insurance \in Nat /\ d.lineage \in Nat
      /\ d.caller + d.challengers + d.insurance + d.lineage = e.terms.amount
      /\ e.terms.routing["insurance"] = 0 => d.insurance = 0
      /\ e.terms.routing["lineage"] = 0 => d.lineage = 0
  BY <1>1, <1>2, SplitPaysTheBond
<1>4. (e.stake > 0 \/ e.challenger # Nobody) <=> e.challenger # Nobody
  BY <1>1
<1>5. \A s \in Slots :
        Payout(e)[s] =
          IF s = "agent" THEN 0
          ELSE IF s = "caller"
          THEN d.caller + (IF e.challenger # Nobody THEN 0 ELSE d.challengers)
          ELSE IF s = "challengers"
          THEN IF e.challenger # Nobody THEN d.challengers + e.stake ELSE 0
          ELSE d[s]
  BY <1>4 DEF Payout
<1>. QED BY <1>3, <1>5, SlotsAre DEF FiveSlots

LEMMA HonoredPayout ==
  ASSUME NEW e, RecordOK(e), ~e.slashed
  PROVE  /\ e.terms.amount \in Nat /\ e.stake \in Nat
         /\ \A s \in Slots :
              Payout(e)[s] = IF s = "agent" THEN e.terms.amount + e.stake ELSE 0
  BY TermsAre DEF RecordOK, Records, Payout

(* What settle transfers is the bond and the stake, and no transfer is     *)
(* negative.                                                               *)
LEMMA PayoutsCover ==
  ASSUME NEW e, RecordOK(e)
  PROVE  /\ Disbursed(e) = e.terms.amount + e.stake
         /\ Payout(e) \in [Slots -> Nat]
<1>1. e.terms.amount \in Nat /\ e.stake \in Nat
  BY TermsAre DEF RecordOK, Records
<1>2. Payout(e) = [s \in Slots |-> Payout(e)[s]]
  BY DEF Payout
<1>3. CASE ~e.slashed
  <2>1. \A s \in Slots : Payout(e)[s] = IF s = "agent" THEN e.terms.amount + e.stake ELSE 0
    BY <1>3, HonoredPayout
  <2>2. \A s \in Slots : Payout(e)[s] \in Nat
    BY <1>1, <2>1
  <2>3. Disbursed(e) = e.terms.amount + e.stake
    BY <1>1, <2>1, SlotsAre DEF Disbursed, OverSlots, FiveSlots
  <2>. QED BY <1>2, <2>2, <2>3
<1>4. CASE e.slashed
  <2>1. PICK d : d = ProgramSplit(e.terms.amount, e.terms.routing)
    OBVIOUS
  <2>2. e.challenger = Nobody => e.stake = 0
    BY DEF RecordOK
  <2>3. /\ \A s \in {"agent", "caller", "challengers", "insurance", "lineage"} :
             Payout(e)[s] \in Nat
        /\ OverSlots(Payout(e)) = e.terms.amount + e.stake
    <3>1. /\ d.caller \in Nat /\ d.challengers \in Nat /\ d.insurance \in Nat /\ d.lineage \in Nat
          /\ d.caller + d.challengers + d.insurance + d.lineage = e.terms.amount
      BY <1>4, <2>1, SlashedPayout
    <3>2. CASE e.challenger = Nobody
      <4>1. /\ Payout(e)["agent"] = 0 /\ Payout(e)["caller"] = d.caller + d.challengers
            /\ Payout(e)["challengers"] = 0
            /\ Payout(e)["insurance"] = d.insurance /\ Payout(e)["lineage"] = d.lineage
        BY <1>4, <2>1, <3>2, SlashedPayout
      <4>2. 0 + (d.caller + d.challengers) + 0 + d.insurance + d.lineage
              = e.terms.amount + e.stake
        BY <1>1, <2>2, <3>1, <3>2
      <4>3. d.caller + d.challengers \in Nat
        BY <3>1
      <4>4. OverSlots(Payout(e)) = 0 + (d.caller + d.challengers) + 0 + d.insurance + d.lineage
        BY <4>1 DEF OverSlots
      <4>5. QED BY <3>1, <4>1, <4>2, <4>3, <4>4
    <3>3. CASE e.challenger # Nobody
      <4>1. /\ Payout(e)["agent"] = 0 /\ Payout(e)["caller"] = d.caller + 0
            /\ Payout(e)["challengers"] = d.challengers + e.stake
            /\ Payout(e)["insurance"] = d.insurance /\ Payout(e)["lineage"] = d.lineage
        BY <1>4, <2>1, <3>3, SlashedPayout
      <4>2. 0 + (d.caller + 0) + (d.challengers + e.stake) + d.insurance + d.lineage
              = e.terms.amount + e.stake
        BY <1>1, <3>1
      <4>3. d.challengers + e.stake \in Nat /\ d.caller + 0 \in Nat
        BY <1>1, <3>1
      <4>4. OverSlots(Payout(e))
              = 0 + (d.caller + 0) + (d.challengers + e.stake) + d.insurance + d.lineage
        BY <4>1 DEF OverSlots
      <4>5. QED BY <3>1, <4>1, <4>2, <4>3, <4>4
    <3>4. QED BY <3>2, <3>3
  <2>4. \A s \in Slots : Payout(e)[s] \in Nat
    BY <2>3, SlotsAre DEF FiveSlots
  <2>5. Disbursed(e) = e.terms.amount + e.stake
    BY <2>3 DEF Disbursed
  <2>. QED BY <1>2, <2>4, <2>5
<1>. QED BY <1>3, <1>4

(* A slot the record names nobody for is paid nothing.                     *)
LEMMA UnnamedGetNothing ==
  ASSUME NEW e, RecordOK(e), NEW s \in Slots, Recorded(e, s) = Nobody
  PROVE  Payout(e)[s] = 0
<1>1. e.terms \in Terms /\ Acceptable(e.terms) /\ e.agent \in Holders
  BY DEF RecordOK, Records
<1>2. s \in {"challengers", "insurance", "lineage"}
  BY <1>1, SlotsAre, EscrowAssumption DEF Recorded, Acceptable, FiveSlots
<1>3. CASE ~e.slashed
  BY <1>2, <1>3, HonoredPayout
<1>4. CASE e.slashed
  <2>1. PICK d : d = ProgramSplit(e.terms.amount, e.terms.routing)
    OBVIOUS
  <2>2. s = "challengers" => e.challenger = Nobody
    BY DEF Recorded
  <2>3. s \in {"insurance", "lineage"} => e.terms.routing[s] = 0
    BY <1>1 DEF Recorded, Acceptable
  <2>. QED BY <1>2, <1>4, <2>1, <2>2, <2>3, SlashedPayout
<1>. QED BY <1>3, <1>4

(* What one holder receives is the sum of natural numbers: one is positive *)
(* if the sum is, and none exceeds it.                                     *)
LEMMA ReceivedIs ==
  ASSUME NEW e, RecordOK(e), NEW to \in Destinations, NEW h \in Holders
  PROVE  /\ Received(e, to, h) \in Nat
         /\ Received(e, to, h) > 0 => \E s \in Slots : to[s] = h /\ Payout(e)[s] > 0
         /\ \A s \in Slots : to[s] = h => Payout(e)[s] <= Received(e, to, h)
<1>1. PICK p \in [Slots -> Nat] : p = Payout(e)
  BY PayoutsCover
<1>2. PICK f : f = [s \in Slots |-> IF to[s] = h THEN p[s] ELSE 0]
  OBVIOUS
<1>3. {"agent", "caller", "challengers", "insurance", "lineage"} \subseteq Slots
  BY DEF Slots, Payees
<1>4. \A s \in Slots : f[s] \in Nat /\ (f[s] > 0 => to[s] = h /\ Payout(e)[s] > 0)
  BY <1>1, <1>2
<1>5. \A s \in Slots : f[s] = (IF to[s] = h THEN Payout(e)[s] ELSE 0)
  BY <1>1, <1>2
<1>6. Received(e, to, h)
        = f["agent"] + f["caller"] + f["challengers"] + f["insurance"] + f["lineage"]
  BY <1>3, <1>5 DEF Received, OverSlots
<1>7. PICK a \in Nat, c \in Nat, k \in Nat, i \in Nat, l \in Nat :
        /\ a = f["agent"] /\ c = f["caller"] /\ k = f["challengers"]
        /\ i = f["insurance"] /\ l = f["lineage"]
  BY <1>3, <1>4
<1>8. a + c + k + i + l > 0 => a > 0 \/ c > 0 \/ k > 0 \/ i > 0 \/ l > 0
  OBVIOUS
<1>9. \A s \in Slots : to[s] = h => Payout(e)[s] <= Received(e, to, h)
  <2>1. a + c + k + i + l \in Nat /\ \A x \in {a, c, k, i, l} : x <= a + c + k + i + l
    OBVIOUS
  <2>2. \A s \in Slots : f[s] \in {a, c, k, i, l}
    BY <1>7 DEF Slots, Payees
  <2>. QED BY <1>5, <1>6, <1>7, <2>1, <2>2
<1>10. QED BY <1>3, <1>4, <1>6, <1>7, <1>8, <1>9

(* A step that replaces one record by a good one and keeps its vault.      *)
LEMMA OneRecord ==
  ASSUME IInv, NEW b \in Bonds, NEW e, RecordOK(e), Become(b, e), e.state # "None",
         clock' \in Nat, vault' \in [Bonds -> Nat], tokens' \in [Holders -> Nat],
         opens' \in [Bonds -> Nat], stray' \in [Bonds -> Nat],
         vault'[b] = e.terms.amount + e.stake + stray'[b],
         \A x \in Bonds \ {b} : vault'[x] = vault[x] /\ stray'[x] = stray[x]
  PROVE  IInv'
<1>1. escrow' \in [Bonds -> {NoEscrow} \cup Records] /\ escrow'[b] = e
  BY DEF IInv, TypeOK, Become, RecordOK
<1>2. ASSUME NEW x \in Bonds, Exists(x)'
      PROVE  RecordOK(escrow[x])' /\ Backed(x)'
  <2>1. CASE x = b
    BY <1>1, <2>1 DEF Backed, RecordOK, Acceptable, Records
  <2>2. CASE x # b
    BY <1>2, <2>2 DEF IInv, TypeOK, Become, Backed, Exists, RecordOK
  <2>3. QED BY <2>1, <2>2
<1>3. ASSUME NEW x \in Bonds, ~Exists(x)'
      PROVE  stray'[x] = 0
  BY <1>1, <1>3 DEF IInv, TypeOK, Become, Exists
<1>4. QED BY <1>1, <1>2, <1>3 DEF IInv, TypeOK

LEMMA EscrowStep ==
  ASSUME IInv, NEW b \in Bonds, NEW t \in Terms, Escrow(b, t)
  PROVE  IInv'
<1>1. PICK e : e = Opened(Agent[b], t)
  OBVIOUS
<1>2. RecordOK(e) /\ e.state = "Escrowed" /\ e.terms = t /\ e.stake = 0
  BY <1>1, EscrowAssumption DEF RecordOK, Records, Opened, Escrow
<1>3. t.amount \in Nat
  BY TermsAre
<1>4. Become(b, e)
  BY <1>1 DEF Escrow
<1>5. /\ clock' \in Nat /\ vault' \in [Bonds -> Nat] /\ tokens' \in [Holders -> Nat]
      /\ opens' \in [Bonds -> Nat] /\ stray' \in [Bonds -> Nat]
  <2>1. PICK a \in Holders : a = Agent[b]
    BY EscrowAssumption
  <2>2. tokens[a] \in Nat /\ tokens[a] >= t.amount
    BY <2>1 DEF Escrow, IInv, TypeOK
  <2>3. tokens[a] - t.amount \in Nat
    BY <1>3, <2>2
  <2>4. tokens' \in [Holders -> Nat]
    BY <2>1, <2>3 DEF Escrow, IInv, TypeOK
  <2>5. QED BY <1>3, <2>4 DEF Escrow, IInv, TypeOK
<1>6. vault'[b] = e.terms.amount + e.stake + stray'[b]
  BY <1>2, <1>3 DEF Escrow, IInv, TypeOK
<1>7. \A x \in Bonds \ {b} : vault'[x] = vault[x] /\ stray'[x] = stray[x]
  BY DEF Escrow, IInv, TypeOK
<1>8. QED BY <1>2, <1>4, <1>5, <1>6, <1>7, OneRecord

(* The record of an open bond, as the steps on it find it.                 *)
LEMMA Open ==
  ASSUME IInv, NEW b \in Bonds, Exists(b)
  PROVE  RecordOK(escrow[b]) /\ Backed(b) /\ escrow[b].terms.window \in Int
  BY TermsAre DEF IInv, RecordOK, Records

(* A step that changes only a record, and neither its terms nor its stake. *)
LEMMA RecordOnly ==
  ASSUME IInv, NEW b \in Bonds, Exists(b), NEW e, RecordOK(e), Become(b, e),
         e.terms = escrow[b].terms, e.stake = escrow[b].stake,
         UNCHANGED <<clock, vault, tokens, opens, stray>>
  PROVE  IInv'
<1>1. /\ clock' \in Nat /\ vault' \in [Bonds -> Nat] /\ tokens' \in [Holders -> Nat]
      /\ opens' \in [Bonds -> Nat] /\ stray' \in [Bonds -> Nat]
  BY DEF IInv, TypeOK
<1>2. vault'[b] = e.terms.amount + e.stake + stray'[b]
  BY Open DEF Backed
<1>3. e.state # "None"
  BY DEF RecordOK, Records
<1>4. QED BY <1>1, <1>2, <1>3, OneRecord

LEMMA MarkStep ==
  ASSUME IInv, NEW b \in Bonds, NEW honored \in BOOLEAN, MarkProvisional(b, honored)
  PROVE  IInv'
<1>1. Exists(b) /\ clock \in Nat /\ escrow[b].state = "Escrowed"
  BY DEF MarkProvisional, Exists, IInv, TypeOK
<1>2. PICK r \in Records : r = escrow[b] /\ RecordOK(r) /\ r.stake = 0
  BY <1>1, Open DEF RecordOK
<1>3. PICK c \in Int : c = clock + r.terms.window
  BY <1>1, <1>2, Open
<1>4. PICK e : e = [r EXCEPT !.state = "Provisional", !.honored = honored, !.closes = c]
  OBVIOUS
<1>5. e \in Records /\ e.state = "Provisional" /\ e.terms = r.terms /\ e.stake = r.stake
  BY <1>4 DEF Records
<1>6. RecordOK(e)
  BY <1>2, <1>5 DEF RecordOK
<1>7. Become(b, e) /\ UNCHANGED <<clock, vault, tokens, opens, stray>>
  BY <1>2, <1>3, <1>4 DEF MarkProvisional
<1>8. QED BY <1>1, <1>2, <1>5, <1>6, <1>7, RecordOnly

LEMMA ChallengeStep ==
  ASSUME IInv, NEW b \in Bonds, NEW who \in Holders, NEW stake \in Stakes,
         FileChallenge(b, who, stake)
  PROVE  IInv'
<1>1. /\ Exists(b) /\ escrow[b].state = "Provisional" /\ escrow[b].honored
      /\ stake \in Nat /\ who # Nobody /\ who \in Holders
  BY EscrowAssumption DEF FileChallenge, MayChallenge, Exists
<1>2. RecordOK(escrow[b]) /\ Backed(b)
  BY <1>1, Open
<1>3. PICK e : e = [escrow[b] EXCEPT !.state = "Disputed", !.challenger = who, !.stake = stake]
  OBVIOUS
<1>4. RecordOK(e) /\ e.terms = escrow[b].terms /\ e.stake = stake /\ e.state = "Disputed"
  <2>1. escrow[b] \in Records /\ Acceptable(escrow[b].terms)
    BY <1>2 DEF RecordOK
  <2>2. /\ e \in Records /\ e.state = "Disputed" /\ e.honored = escrow[b].honored
        /\ e.terms = escrow[b].terms /\ e.stake = stake /\ e.challenger = who
    BY <1>1, <1>3, <2>1 DEF Records
  <2>3. QED BY <1>1, <2>1, <2>2 DEF RecordOK
<1>5. Become(b, e)
  BY <1>3 DEF FileChallenge
<1>6. /\ clock' \in Nat /\ vault' \in [Bonds -> Nat] /\ tokens' \in [Holders -> Nat]
      /\ opens' \in [Bonds -> Nat] /\ stray' \in [Bonds -> Nat]
  BY <1>1 DEF FileChallenge, IInv, TypeOK
<1>7. vault'[b] = e.terms.amount + e.stake + stray'[b]
  <2>1. escrow[b].stake = 0
    BY <1>1, <1>2 DEF RecordOK
  <2>2. QED BY <1>1, <1>2, <1>4, <2>1, TermsAre DEF FileChallenge, IInv, TypeOK, Backed, RecordOK, Records
<1>8. \A x \in Bonds \ {b} : vault'[x] = vault[x] /\ stray'[x] = stray[x]
  BY DEF FileChallenge, IInv, TypeOK
<1>9. QED BY <1>4, <1>5, <1>6, <1>7, <1>8, OneRecord

(* Deciding a bond: `slashed` is a decision its history allows.            *)
LEMMA DecideStep ==
  ASSUME IInv, NEW b \in Bonds, Exists(b), NEW slashed \in BOOLEAN, Finalized(b, slashed),
         ~slashed => escrow[b].honored,
         slashed /\ escrow[b].honored => escrow[b].challenger # Nobody,
         UNCHANGED <<clock, vault, tokens, opens, stray>>
  PROVE  IInv'
<1>1. PICK r \in Records : r = escrow[b] /\ RecordOK(r)
  BY Open DEF RecordOK
<1>2. PICK e : e = [r EXCEPT !.state = "Finalized", !.slashed = slashed]
  OBVIOUS
<1>3. /\ e \in Records /\ e.state = "Finalized" /\ e.slashed = slashed /\ e.honored = r.honored
      /\ e.challenger = r.challenger /\ e.terms = r.terms /\ e.stake = r.stake
  BY <1>2 DEF Records
<1>4. RecordOK(e)
  BY <1>1, <1>3 DEF RecordOK
<1>5. Become(b, e)
  BY <1>1, <1>2 DEF Finalized
<1>6. QED BY <1>1, <1>3, <1>4, <1>5, RecordOnly

LEMMA ResolveStep ==
  ASSUME IInv, NEW b \in Bonds, NEW won \in BOOLEAN, Resolve(b, won)
  PROVE  IInv'
<1>1. Exists(b) /\ escrow[b].state = "Disputed"
  BY DEF Resolve, MayResolve, Exists
<1>2. escrow[b].honored /\ escrow[b].challenger # Nobody
  BY <1>1, Open DEF RecordOK
<1>3. QED BY <1>1, <1>2, DecideStep DEF Resolve

LEMMA TimeoutStep ==
  ASSUME IInv, NEW b \in Bonds, FinalizeTimeout(b)
  PROVE  IInv'
<1>1. Exists(b) /\ UNCHANGED <<clock, vault, tokens, opens, stray>>
  BY DEF FinalizeTimeout, TimedOut, Exists
<1>2. RecordOK(escrow[b]) /\ escrow[b].honored \in BOOLEAN
  BY <1>1, Open DEF RecordOK, Records
<1>3. \/ escrow[b].state = "Provisional" /\ Finalized(b, ~escrow[b].honored)
      \/ escrow[b].state = "Escrowed" /\ Finalized(b, TRUE)
      \/ escrow[b].state = "Disputed" /\ Finalized(b, TRUE)
  BY DEF FinalizeTimeout, TimedOut
<1>4. CASE escrow[b].state = "Provisional" /\ Finalized(b, ~escrow[b].honored)
  <2>1. PICK slashed \in BOOLEAN : slashed = ~escrow[b].honored
    BY <1>2
  <2>2. Finalized(b, slashed)
    BY <1>4, <2>1 DEF Finalized
  <2>3. QED BY <1>1, <2>1, <2>2, DecideStep
<1>5. CASE escrow[b].state \in {"Escrowed", "Disputed"} /\ Finalized(b, TRUE)
  <2>1. escrow[b].honored => escrow[b].challenger # Nobody
    BY <1>2, <1>5 DEF RecordOK
  <2>2. QED BY <1>1, <1>5, <2>1, DecideStep
<1>6. QED BY <1>3, <1>4, <1>5

LEMMA SettleStep ==
  ASSUME IInv, NEW b \in Bonds, NEW to \in Destinations, Settle(b, to)
  PROVE  IInv'
<1>1. Exists(b) /\ escrow[b].state = "Finalized"
  BY DEF Settle, Exists
<1>2. RecordOK(escrow[b]) /\ Backed(b)
  BY <1>1, Open
<1>3. Disbursed(escrow[b]) = escrow[b].terms.amount + escrow[b].stake
  BY <1>2, PayoutsCover
<1>4. escrow[b].terms \in Terms /\ escrow[b].stake \in Nat
  BY <1>2 DEF RecordOK, Records
<1>5. escrow[b].terms.amount \in Nat /\ stray[b] \in Nat
  BY <1>4, TermsAre DEF IInv, TypeOK
<1>6. stray[b] = 0
  <2>1. PICK a \in Nat, k \in Nat, s \in Nat :
          a = escrow[b].terms.amount /\ k = escrow[b].stake /\ s = stray[b]
    BY <1>4, <1>5
  <2>2. vault[b] = a + k + s
    BY <1>2, <2>1 DEF Backed
  <2>3. vault[b] = a + k
    BY <1>3, <2>1 DEF Settle
  <2>4. s = 0
    <3>1. a + k + s = a + k
      BY <2>2, <2>3
    <3>2. \A i, j, n \in Nat : i + j + n = i + j => n = 0
      OBVIOUS
    <3>3. QED BY <3>1, <3>2
  <2>5. QED BY <2>1, <2>4
<1>7. tokens' \in [Holders -> Nat]
  <2>1. \A h \in Holders : Received(escrow[b], to, h) \in Nat
    BY <1>2, ReceivedIs
  <2>2. \A h \in Holders : tokens[h] + Received(escrow[b], to, h) \in Nat
    BY <2>1 DEF IInv, TypeOK
  <2>3. QED BY <2>2 DEF Settle
<1>8. TypeOK'
  BY <1>7 DEF Settle, Become, IInv, TypeOK
<1>9. ASSUME NEW x \in Bonds
      PROVE  /\ Exists(x)' => RecordOK(escrow[x])' /\ Backed(x)'
             /\ ~Exists(x)' => stray'[x] = 0
  <2>1. CASE x = b
    BY <1>6, <2>1 DEF Settle, Become, Exists, NoEscrow, IInv, TypeOK
  <2>2. CASE x # b
    BY <2>2 DEF Settle, Become, Exists, IInv, TypeOK, Backed, RecordOK
  <2>3. QED BY <2>1, <2>2
<1>10. QED BY <1>8, <1>9 DEF IInv

LEMMA StrayStep ==
  ASSUME IInv, NEW b \in Bonds, StrayTransfer(b)
  PROVE  IInv'
<1>1. TypeOK'
  BY DEF StrayTransfer, IInv, TypeOK
<1>2. ASSUME NEW x \in Bonds, Exists(x)
      PROVE  RecordOK(escrow[x])' /\ Backed(x)'
  <2>1. RecordOK(escrow[x]) /\ Backed(x)
    BY <1>2, Open
  <2>2. escrow[x].terms.amount \in Nat /\ escrow[x].stake \in Nat
    BY <2>1, TermsAre DEF RecordOK, Records
  <2>3. escrow' = escrow /\ vault \in [Bonds -> Nat] /\ stray \in [Bonds -> Nat]
    BY DEF StrayTransfer, IInv, TypeOK
  <2>4. /\ x = b => vault'[x] = vault[x] + 1 /\ stray'[x] = stray[x] + 1
        /\ x # b => vault'[x] = vault[x] /\ stray'[x] = stray[x]
    BY <2>3 DEF StrayTransfer
  <2>5. Backed(x)'
    <3>1. PICK a \in Nat, k \in Nat, s \in Nat :
            a = escrow[x].terms.amount /\ k = escrow[x].stake /\ s = stray[x]
      BY <2>2, <2>3
    <3>2. vault[x] = a + k + s
      BY <2>1, <3>1 DEF Backed
    <3>3. vault'[x] = a + k + stray'[x]
      BY <2>4, <3>1, <3>2
    <3>4. QED BY <2>3, <3>1, <3>3 DEF Backed
  <2>6. RecordOK(escrow[x])'
    BY <2>1, <2>3 DEF RecordOK
  <2>7. QED BY <2>5, <2>6
<1>3. ASSUME NEW x \in Bonds, ~Exists(x)
      PROVE  stray'[x] = 0
  BY <1>3 DEF StrayTransfer, IInv, TypeOK
<1>4. \A x \in Bonds : Exists(x)' = Exists(x)
  BY DEF StrayTransfer, Exists
<1>5. QED BY <1>1, <1>2, <1>3, <1>4 DEF IInv

LEMMA NextIInv ==
  ASSUME IInv, [Next]_vars
  PROVE  IInv'
<1>1. CASE Tick
  BY <1>1 DEF Tick, IInv, TypeOK, Exists, Backed, RecordOK
<1>2. CASE UNCHANGED vars
  BY <1>2 DEF vars, IInv, TypeOK, Exists, Backed, RecordOK
<1>3. QED
  BY <1>1, <1>2, EscrowStep, MarkStep, ChallengeStep, ResolveStep, TimeoutStep, SettleStep,
     StrayStep DEF Next

LEMMA InvariantHolds == Spec => []IInv
  BY InitIInv, NextIInv, PTL DEF Spec

(* Every account keeps its type; no balance is ever negative.              *)
THEOREM TypeCorrect == Spec => []TypeOK
<1>1. IInv => TypeOK
  BY DEF IInv
<1>2. QED BY <1>1, InvariantHolds, PTL

(* Only settle closes a bond.                                              *)
LEMMA OnlySettleCloses ==
  ASSUME IInv, [Next]_vars, NEW b \in Bonds, Exists(b), ~Exists(b)'
  PROVE  \E to \in Destinations : Settle(b, to)
<1>1. ASSUME NEW x \in Bonds, NEW e, Become(x, e), e.state # "None"
      PROVE  FALSE
  BY <1>1 DEF Become, Exists, IInv, TypeOK
<1>2. ASSUME NEW x \in Bonds, NEW t \in Terms, Escrow(x, t)
      PROVE  FALSE
  BY <1>1, <1>2 DEF Escrow, Opened
<1>3. ASSUME NEW x \in Bonds, NEW slashed, Finalized(x, slashed), escrow[x] \in Records
      PROVE  FALSE
  BY <1>1, <1>3 DEF Finalized, Records
<1>4. ASSUME NEW x \in Bonds, Exists(x)
      PROVE  escrow[x] \in Records
  BY <1>4, Open DEF RecordOK
<1>5. ASSUME NEW x \in Bonds, NEW honored \in BOOLEAN, MarkProvisional(x, honored)
      PROVE  FALSE
  BY <1>1, <1>4, <1>5 DEF MarkProvisional, Exists, Records
<1>6. ASSUME NEW x \in Bonds, NEW who \in Holders, NEW stake \in Stakes,
             FileChallenge(x, who, stake)
      PROVE  FALSE
  BY <1>1, <1>4, <1>6 DEF FileChallenge, MayChallenge, Exists, Records
<1>7. ASSUME NEW x \in Bonds, NEW won \in BOOLEAN, Resolve(x, won)
      PROVE  FALSE
  BY <1>3, <1>4, <1>7 DEF Resolve, MayResolve, Exists
<1>8. ASSUME NEW x \in Bonds, FinalizeTimeout(x)
      PROVE  FALSE
  BY <1>3, <1>4, <1>8 DEF FinalizeTimeout, TimedOut, Exists
<1>9. ASSUME Tick \/ UNCHANGED vars \/ \E x \in Bonds : StrayTransfer(x)
      PROVE  FALSE
  BY <1>9 DEF Tick, vars, StrayTransfer, Exists
<1>10. ASSUME NEW x \in Bonds, NEW to \in Destinations, Settle(x, to), x # b
      PROVE  FALSE
  BY <1>10 DEF Settle, Become, Exists, IInv, TypeOK
<1>11. QED
  BY <1>2, <1>5, <1>6, <1>7, <1>8, <1>9, <1>10 DEF Next

(* Custody: a vault holds exactly its bond, its stake and what strayed in, *)
(* and a decided bond is settled from it to the last token, whatever the   *)
(* routing, the amounts and the rounding.                                  *)
THEOREM VaultAlwaysBacksBond == Spec => []VaultBacksBond
<1>1. IInv => VaultBacksBond
  <2> SUFFICES ASSUME IInv, NEW b \in Bonds, Exists(b)
               PROVE  /\ Backed(b)
                      /\ escrow[b].state = "Finalized" /\ stray[b] = 0 =>
                           vault[b] = Disbursed(escrow[b])
    BY DEF VaultBacksBond, Backed
  <2>1. RecordOK(escrow[b]) /\ Backed(b)
    BY Open
  <2>2. Disbursed(escrow[b]) = escrow[b].terms.amount + escrow[b].stake
    BY <2>1, PayoutsCover
  <2>3. escrow[b].terms.amount \in Nat /\ escrow[b].stake \in Nat
    BY <2>1, TermsAre DEF RecordOK, Records
  <2>4. QED BY <2>1, <2>2, <2>3 DEF Backed
<1>2. QED BY <1>1, InvariantHolds, PTL

(* No bond is honored that its authority did not mark honored, and none so *)
(* marked is slashed unless a challenger staked against it.                *)
THEOREM OutcomeIsAlwaysEarned == Spec => []OutcomeIsEarned
<1>1. IInv => OutcomeIsEarned
  <2> SUFFICES ASSUME IInv, NEW b \in Bonds, escrow[b].state = "Finalized"
               PROVE  /\ ~escrow[b].slashed => escrow[b].honored
                      /\ escrow[b].slashed /\ escrow[b].honored => escrow[b].challenger # Nobody
    BY DEF OutcomeIsEarned
  <2>1. QED BY Open DEF RecordOK, Exists
<1>2. QED BY <1>1, InvariantHolds, PTL

(* Every bond the program holds is split as the SDK would split it: what   *)
(* escrow() accepts is what makes the two computations one.                *)
THEOREM SplitsAgreeHolds == Spec => []SplitsAgree
<1>1. IInv => SplitsAgree
  <2> SUFFICES ASSUME IInv, NEW b \in Bonds, Exists(b)
               PROVE  ProgramSplit(escrow[b].terms.amount, escrow[b].terms.routing)
                        = Distribute(escrow[b].terms.amount, escrow[b].terms.routing)
    BY DEF SplitsAgree
  <2>1. RecordOK(escrow[b])
    BY Open
  <2>2. escrow[b].terms \in Terms /\ IsValid(escrow[b].terms.routing)
    BY <2>1 DEF RecordOK, Records, Acceptable
  <2>3. escrow[b].terms.amount \in Amounts /\ escrow[b].terms.routing \in Routings
    BY <2>2, TermsAre
  <2>4. QED BY <2>2, <2>3, SplitsAlwaysAgree
<1>2. QED BY <1>1, InvariantHolds, PTL

(* Nobody a bond's record does not name ever gains from its settlement,    *)
(* whoever sends it and whatever accounts it is given.                     *)
THEOREM OnlyPartiesAreEverPaid == Spec => OnlyPartiesArePaid
<1>1. ASSUME IInv, [Next]_vars, NEW b \in Bonds, Exists(b), ~Exists(b)',
             NEW h \in Holders, tokens'[h] > tokens[h]
      PROVE  h \in Parties(escrow[b])
  <2>1. RecordOK(escrow[b])
    BY <1>1, Open
  <2>2. PICK to \in Destinations : Settle(b, to)
    BY <1>1, OnlySettleCloses
  <2>3. PICK e : e = escrow[b]
    OBVIOUS
  <2>4. tokens'[h] = tokens[h] + Received(e, to, h)
    BY <2>2, <2>3 DEF Settle
  <2>5. Received(e, to, h) \in Nat /\ tokens[h] \in Nat
    BY <1>1, <2>1, <2>3, ReceivedIs DEF IInv, TypeOK
  <2>6. Received(e, to, h) > 0
    BY <1>1, <2>4, <2>5
  <2>7. PICK s \in Slots : to[s] = h /\ Payout(e)[s] > 0
    BY <2>1, <2>3, <2>6, ReceivedIs
  <2>8. Recorded(e, s) # Nobody
    BY <2>1, <2>3, <2>7, UnnamedGetNothing
  <2>9. Recorded(e, s) = h
    BY <2>2, <2>3, <2>7, <2>8 DEF Settle, DestinationsBound
  <2>10. QED BY <2>3, <2>9 DEF Parties
<1>2. IInv /\ [Next]_vars =>
        [\A b \in Bonds :
           Exists(b) /\ ~Exists(b)' =>
             \A h \in Holders : tokens'[h] > tokens[h] => h \in Parties(escrow[b])]_vars
  BY <1>1
<1>3. QED BY <1>2, InvariantHolds, PTL DEF Spec, OnlyPartiesArePaid

(* An honored bond is all the agent's, and the stake with it.              *)
LEMMA HonoredIsTheAgents ==
  ASSUME NEW e, RecordOK(e), ~e.slashed, NEW to \in Destinations, DestinationsBound(e, to),
         NEW h \in Holders
  PROVE  Received(e, to, h) = IF h = e.agent THEN e.terms.amount + e.stake ELSE 0
<1>1. e.agent \in Holders /\ "agent" \in Slots
  BY DEF RecordOK, Records, Slots
<1>2. to["agent"] = e.agent
  BY <1>1, EscrowAssumption DEF DestinationsBound, Recorded
<1>3. PICK p \in Nat :
        /\ p = e.terms.amount + e.stake
        /\ \A s \in Slots : Payout(e)[s] = IF s = "agent" THEN p ELSE 0
  BY HonoredPayout
<1>4. PICK f : f = [s \in Slots |-> IF to[s] = h THEN Payout(e)[s] ELSE 0]
  OBVIOUS
<1>5. /\ f["agent"] = IF h = e.agent THEN p ELSE 0
      /\ f["caller"] = 0 /\ f["challengers"] = 0 /\ f["insurance"] = 0 /\ f["lineage"] = 0
  BY <1>2, <1>3, <1>4, SlotsAre DEF FiveSlots
<1>. QED BY <1>3, <1>4, <1>5 DEF Received, OverSlots

(* A recorded party receives what is paid into its slot, and perhaps more  *)
(* for another one.                                                        *)
LEMMA RecordedIsPaid ==
  ASSUME NEW e, RecordOK(e), NEW to \in Destinations, DestinationsBound(e, to),
         NEW s \in Slots, Recorded(e, s) # Nobody
  PROVE  /\ Recorded(e, s) \in Holders
         /\ Received(e, to, Recorded(e, s)) >= Payout(e)[s]
<1>1. to[s] = Recorded(e, s)
  BY DEF DestinationsBound
<1>2. to[s] \in Holders
  BY EscrowAssumption
<1>3. Received(e, to, to[s]) \in Nat /\ Payout(e)[s] \in Nat /\ Payout(e)[s] <= Received(e, to, to[s])
  BY <1>2, ReceivedIs, PayoutsCover
<1>. QED BY <1>1, <1>2, <1>3

(* A slashed agent that has no other part in the bond is paid nothing.     *)
LEMMA SlashedAgentGetsNothing ==
  ASSUME NEW e, RecordOK(e), e.slashed, NEW to \in Destinations, DestinationsBound(e, to),
         \A s \in Slots \ {"agent"} : Recorded(e, s) # e.agent
  PROVE  Received(e, to, e.agent) = 0
<1>1. e.agent \in Holders
  BY DEF RecordOK, Records
<1>2. ASSUME NEW s \in Slots, to[s] = e.agent, Payout(e)[s] > 0 PROVE FALSE
  <2>1. Recorded(e, s) # Nobody
    BY <1>2, UnnamedGetNothing
  <2>2. Recorded(e, s) = e.agent
    BY <1>2, <2>1 DEF DestinationsBound
  <2>3. s = "agent"
    BY <2>2
  <2>. QED BY <1>2, <2>3, SlashedPayout
<1>3. Received(e, to, e.agent) \in Nat /\ ~(Received(e, to, e.agent) > 0)
  BY <1>1, <1>2, ReceivedIs
<1>. QED BY <1>3

(* What every party of a slashed bond receives.                            *)
LEMMA SlashedPartiesAreWhole ==
  ASSUME NEW e, RecordOK(e), e.slashed, NEW to \in Destinations, DestinationsBound(e, to),
         NEW d, d = ProgramSplit(e.terms.amount, e.terms.routing)
  PROVE  /\ e.challenger # Nobody =>
              /\ e.challenger \in Holders
              /\ Received(e, to, e.challenger) >= e.stake + d.challengers
         /\ e.terms.payee["caller"] \in Holders
         /\ Received(e, to, e.terms.payee["caller"])
              >= d.caller + (IF e.challenger = Nobody THEN d.challengers ELSE 0)
         /\ \A s \in {"insurance", "lineage"} :
              e.terms.payee[s] # Nobody =>
                /\ e.terms.payee[s] \in Holders
                /\ Received(e, to, e.terms.payee[s]) >= d[s]
<1>1. /\ e.stake \in Nat /\ d.challengers \in Nat
      /\ Payout(e)["caller"] = d.caller + (IF e.challenger = Nobody THEN d.challengers ELSE 0)
      /\ e.challenger # Nobody => Payout(e)["challengers"] = d.challengers + e.stake
      /\ Payout(e)["insurance"] = d.insurance /\ Payout(e)["lineage"] = d.lineage
  BY SlashedPayout DEF RecordOK, Records
<1>2. /\ Recorded(e, "challengers") = e.challenger
      /\ \A s \in {"caller", "insurance", "lineage"} : Recorded(e, s) = e.terms.payee[s]
  BY DEF Recorded
<1>3. {"caller", "challengers", "insurance", "lineage"} \subseteq Slots
  BY SlotsAre DEF FiveSlots
<1>4. \A s \in Slots : Recorded(e, s) # Nobody =>
        Recorded(e, s) \in Holders /\ Received(e, to, Recorded(e, s)) >= Payout(e)[s]
  BY RecordedIsPaid
<1>5. ASSUME e.challenger # Nobody
      PROVE  e.challenger \in Holders /\ Received(e, to, e.challenger) >= e.stake + d.challengers
  <2>1. e.stake + d.challengers = d.challengers + e.stake
    BY <1>1
  <2>. QED BY <1>1, <1>2, <1>3, <1>4, <1>5, <2>1
<1>6. e.terms.payee["caller"] # Nobody
  BY DEF RecordOK, Acceptable
<1>7. /\ e.terms.payee["caller"] \in Holders
      /\ Received(e, to, e.terms.payee["caller"])
           >= d.caller + (IF e.challenger = Nobody THEN d.challengers ELSE 0)
  BY <1>1, <1>2, <1>3, <1>4, <1>6
<1>8. ASSUME NEW s \in {"insurance", "lineage"}, e.terms.payee[s] # Nobody
      PROVE  e.terms.payee[s] \in Holders /\ Received(e, to, e.terms.payee[s]) >= d[s]
  <2>1. Payout(e)[s] = d[s]
    BY <1>1
  <2>. QED BY <1>2, <1>3, <1>4, <1>8, <2>1
<1>. QED BY <1>5, <1>7, <1>8

(* Settling makes the party that was right whole, to the token, whoever    *)
(* sends it and whichever parties are one and the same: settle pays each   *)
(* slot into an account of the party the record names for it.              *)
THEOREM RightPartyIsAlwaysWhole == Spec => RightPartyIsMadeWhole
<1>1. ASSUME IInv, [Next]_vars, NEW b \in Bonds, Exists(b), ~Exists(b)',
             NEW e, e = escrow[b], NEW d, d = ProgramSplit(e.terms.amount, e.terms.routing)
      PROVE  IF e.slashed
             THEN /\ e.challenger # Nobody =>
                       tokens'[e.challenger] - tokens[e.challenger] >= e.stake + d.challengers
                  /\ tokens'[e.terms.payee["caller"]] - tokens[e.terms.payee["caller"]]
                       >= d.caller + (IF e.challenger = Nobody THEN d.challengers ELSE 0)
                  /\ \A s \in {"insurance", "lineage"} :
                       e.terms.payee[s] # Nobody =>
                         tokens'[e.terms.payee[s]] - tokens[e.terms.payee[s]] >= d[s]
                  /\ (\A s \in Slots \ {"agent"} : Recorded(e, s) # e.agent) =>
                       tokens'[e.agent] - tokens[e.agent] = 0
             ELSE \A h \in Holders :
                    tokens'[h] - tokens[h] = IF h = e.agent THEN e.terms.amount + e.stake ELSE 0
  <2>1. RecordOK(e)
    BY <1>1, Open
  <2>2. PICK to \in Destinations : Settle(b, to)
    BY <1>1, OnlySettleCloses
  <2>3. DestinationsBound(e, to)
    BY <1>1, <2>2 DEF Settle
  <2>4. \A h \in Holders : tokens'[h] - tokens[h] = Received(e, to, h)
    <3>1. \A h \in Holders : tokens'[h] = tokens[h] + Received(e, to, h)
      BY <1>1, <2>2 DEF Settle
    <3>2. \A h \in Holders : tokens[h] \in Nat /\ Received(e, to, h) \in Nat
      BY <1>1, <2>1, ReceivedIs DEF IInv, TypeOK
    <3>3. \A x, y, z \in Nat : z = x + y => z - x = y
      OBVIOUS
    <3>4. \A h \in Holders : tokens'[h] \in Nat
      BY <3>1, <3>2
    <3>. QED BY <3>1, <3>2, <3>3, <3>4
  <2>5. e.agent \in Holders
    BY <2>1 DEF RecordOK, Records
  <2>6. CASE e.slashed
    <3>1. (\A s \in Slots \ {"agent"} : Recorded(e, s) # e.agent) =>
            tokens'[e.agent] - tokens[e.agent] = 0
      BY <2>1, <2>3, <2>4, <2>5, <2>6, SlashedAgentGetsNothing
    <3>. QED BY <1>1, <2>1, <2>3, <2>4, <2>6, <3>1, SlashedPartiesAreWhole
  <2>7. CASE ~e.slashed
    BY <2>1, <2>3, <2>4, <2>7, HonoredIsTheAgents
  <2>. QED BY <2>6, <2>7
<1>2. IInv /\ [Next]_vars =>
        [\A b \in Bonds :
           Exists(b) /\ ~Exists(b)' =>
             LET e == escrow[b]
                 split == ProgramSplit(e.terms.amount, e.terms.routing)
                 unclaimed == IF e.challenger = Nobody THEN split.challengers ELSE 0
                 gain(h) == tokens'[h] - tokens[h] IN
             IF e.slashed
             THEN /\ e.challenger # Nobody => gain(e.challenger) >= e.stake + split.challengers
                  /\ gain(e.terms.payee["caller"]) >= split.caller + unclaimed
                  /\ \A s \in {"insurance", "lineage"} :
                       e.terms.payee[s] # Nobody => gain(e.terms.payee[s]) >= split[s]
                  /\ (\A s \in Slots \ {"agent"} : Recorded(e, s) # e.agent) => gain(e.agent) = 0
             ELSE \A h \in Holders :
                    gain(h) = IF h = e.agent THEN e.terms.amount + e.stake ELSE 0]_vars
  BY <1>1
<1>. QED BY <1>2, InvariantHolds, PTL DEF Spec, RightPartyIsMadeWhole

-----------------------------------------------------------------------------
(* Replacing one record replaces one phase.                                *)
LEMMA PhaseStep ==
  ASSUME IInv, NEW b \in Bonds, NEW e, Become(b, e)
  PROVE  Phase' = [Phase EXCEPT ![b] = PhaseOf(e)] /\ Phase[b] = PhaseOf(escrow[b])
  BY DEF Phase, IInv, TypeOK, Become

LEMMA FinalizedKeepsPromise ==
  ASSUME IInv, NEW b \in Bonds, NEW slashed \in BOOLEAN, Finalized(b, slashed),
         escrow[b].state \in {"Escrowed", "Provisional", "Disputed"}
  PROVE  Promise!Next
<1>1. PICK r \in Records : r = escrow[b]
  BY Open DEF RecordOK, Exists
<1>2. PICK e : e = [r EXCEPT !.state = "Finalized", !.slashed = slashed]
  OBVIOUS
<1>3. PhaseOf(e) \in {"honored", "slashed"}
  BY <1>2 DEF PhaseOf, Records
<1>4. Phase' = [Phase EXCEPT ![b] = PhaseOf(e)] /\ Phase[b] \in Promise!Undecided
  <2>1. Become(b, e)
    BY <1>1, <1>2 DEF Finalized
  <2>2. PhaseOf(escrow[b]) \in Promise!Undecided
    BY DEF PhaseOf, Promise!Undecided
  <2>3. QED BY <2>1, <2>2, PhaseStep
<1>5. Promise!Honor(b) \/ Promise!Slash(b)
  BY <1>3, <1>4 DEF Promise!Honor, Promise!Slash, Promise!Move
<1>6. QED BY <1>5 DEF Promise!Next

LEMMA StepKeepsPromise ==
  ASSUME IInv, [Next]_vars
  PROVE  Promise!Next \/ UNCHANGED Phase
<1>1. ASSUME NEW b \in Bonds, NEW t \in Terms, Escrow(b, t)
      PROVE  Promise!Next
  <2>1. PICK e : e = Opened(Agent[b], t) /\ Become(b, e)
    BY <1>1 DEF Escrow
  <2>2. PhaseOf(e) = "held" /\ PhaseOf(escrow[b]) = "free"
    BY <1>1, <2>1 DEF PhaseOf, Opened, Escrow, Exists
  <2>3. Promise!Lock(b)
    BY <2>1, <2>2, PhaseStep DEF Promise!Lock, Promise!Move
  <2>4. QED BY <2>3 DEF Promise!Next
<1>2. ASSUME NEW b \in Bonds, NEW honored \in BOOLEAN, MarkProvisional(b, honored)
      PROVE  Promise!Next
  <2>1. PICK r \in Records : r = escrow[b] /\ r.state = "Escrowed"
    BY <1>2, Open DEF RecordOK, Exists, MarkProvisional
  <2>2. PICK e : /\ e = [r EXCEPT !.state = "Provisional", !.honored = honored,
                                   !.closes = clock + r.terms.window]
                 /\ Become(b, e)
    BY <1>2, <2>1 DEF MarkProvisional
  <2>3. PhaseOf(e) = "claimed" /\ PhaseOf(escrow[b]) = "held"
    BY <2>1, <2>2 DEF PhaseOf, Records
  <2>4. Promise!Claim(b)
    BY <2>2, <2>3, PhaseStep DEF Promise!Claim, Promise!Move
  <2>5. QED BY <2>4 DEF Promise!Next
<1>3. ASSUME NEW b \in Bonds, NEW who \in Holders, NEW stake \in Stakes,
             FileChallenge(b, who, stake)
      PROVE  Promise!Next
  <2>1. PICK r \in Records : r = escrow[b] /\ r.state = "Provisional"
    BY <1>3, Open DEF RecordOK, Exists, FileChallenge, MayChallenge
  <2>2. PICK e : /\ e = [r EXCEPT !.state = "Disputed", !.challenger = who, !.stake = stake]
                 /\ Become(b, e)
    BY <1>3, <2>1 DEF FileChallenge
  <2>3. PhaseOf(e) = "contested" /\ PhaseOf(escrow[b]) = "claimed"
    BY <2>1, <2>2 DEF PhaseOf, Records
  <2>4. Promise!Contest(b)
    BY <2>2, <2>3, PhaseStep DEF Promise!Contest, Promise!Move
  <2>5. QED BY <2>4 DEF Promise!Next
<1>4. ASSUME NEW b \in Bonds, NEW won \in BOOLEAN, Resolve(b, won)
      PROVE  Promise!Next
  BY <1>4, FinalizedKeepsPromise DEF Resolve, MayResolve
<1>5. ASSUME NEW b \in Bonds, FinalizeTimeout(b)
      PROVE  Promise!Next
  <2>1. PICK slashed \in BOOLEAN :
          /\ Finalized(b, slashed)
          /\ escrow[b].state \in {"Escrowed", "Provisional", "Disputed"}
    BY <1>5, Open DEF FinalizeTimeout, TimedOut, Exists, RecordOK, Records
  <2>2. QED BY <2>1, FinalizedKeepsPromise
<1>6. ASSUME NEW b \in Bonds, NEW to \in Destinations, Settle(b, to)
      PROVE  Promise!Next
  <2>1. escrow[b].state = "Finalized" /\ escrow[b].slashed \in BOOLEAN
    BY <1>6, Open DEF Settle, Exists, RecordOK, Records
  <2>2. PhaseOf(escrow[b]) \in Promise!Decided /\ PhaseOf(NoEscrow) = "free"
    BY <2>1 DEF PhaseOf, NoEscrow, Promise!Decided
  <2>3. Promise!Release(b)
    BY <1>6, <2>2, PhaseStep DEF Settle, Promise!Release, Promise!Move
  <2>4. QED BY <2>3 DEF Promise!Next
<1>7. CASE Tick \/ UNCHANGED vars \/ \E b \in Bonds : StrayTransfer(b)
  BY <1>7 DEF Tick, vars, StrayTransfer, Phase
<1>8. QED
  BY <1>1, <1>2, <1>3, <1>4, <1>5, <1>6, <1>7 DEF Next

(* The escrow program implements the promise of a conviction bond, the one *)
(* the in-process settlement machine implements too.                       *)
THEOREM PromiseKept == Spec => KeepsPromise
<1>1. Init => Promise!Init
  BY DEF Init, Promise!Init, Phase, PhaseOf, NoEscrow
<1>2. IInv /\ [Next]_vars => [Promise!Next]_Phase
  BY StepKeepsPromise
<1>3. QED
  BY <1>1, <1>2, InvariantHolds, PTL DEF Spec, KeepsPromise, Promise!Spec
=============================================================================
