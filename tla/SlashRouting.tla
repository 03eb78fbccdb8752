----------------------------- MODULE SlashRouting -----------------------------
(***************************************************************************)
(* How scemadex-sdk splits a slashed bond: SlashRouting::distribute.       *)
(* The share is computed in u128, where amount * bps always fits, and cast *)
(* back to u64.                                                            *)
(***************************************************************************)
EXTENDS Usdc

Shares == {"caller", "challengers", "insurance", "lineage"}

Routings == [Shares -> Nat]

Total(r) == r["caller"] + r["challengers"] + r["insurance"] + r["lineage"]

IsValid(r) == Total(r) = 10000

Smaller(a, b) == IF a <= b THEN a ELSE b

Slice(amount, bps) == ((amount * bps) \div 10000) % U64

(* The three named slices are taken in order against what is left, and the *)
(* caller receives the rest; the caller's own bps are never read.          *)
Distribute(amount, r) ==
  LET challengers == Smaller(Slice(amount, r["challengers"]), amount)
      insurance == Smaller(Slice(amount, r["insurance"]), amount - challengers)
      lineage == Smaller(Slice(amount, r["lineage"]), amount - challengers - insurance)
  IN  [caller |-> amount - challengers - insurance - lineage,
       challengers |-> challengers, insurance |-> insurance, lineage |-> lineage]

(* The escrow program's split: the three shares as they are, and to the    *)
(* caller what saturating subtraction leaves.                              *)
Less(a, b) == IF a >= b THEN a - b ELSE 0

ProgramSplit(amount, r) ==
  LET share(s) == Slice(amount, r[s]) IN
  [caller |-> Less(Less(Less(amount, share("challengers")), share("insurance")), share("lineage")),
   challengers |-> share("challengers"), insurance |-> share("insurance"),
   lineage |-> share("lineage")]

Paid(dist) == dist.caller + dist.challengers + dist.insurance + dist.lineage
=============================================================================
