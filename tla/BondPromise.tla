----------------------------- MODULE BondPromise -----------------------------
(***************************************************************************)
(* What a conviction bond promises, whoever holds it: the in-process       *)
(* SettlementMachine and the on-chain escrow program both implement this.  *)
(* Collateral that is held is decided exactly once, Honored or Slashed; a  *)
(* bond is contested only after its agent claimed delivery; nothing undoes *)
(* a decision; and the collateral leaves only after one.                   *)
(***************************************************************************)
CONSTANT Bonds

VARIABLE phase

Phases == {"free", "held", "claimed", "contested", "honored", "slashed"}

Undecided == {"held", "claimed", "contested"}

Decided == {"honored", "slashed"}

Init == phase = [b \in Bonds |-> "free"]

Move(b, from, to) ==
  /\ phase[b] \in from
  /\ phase' = [phase EXCEPT ![b] = to]

Lock(b)    == Move(b, {"free"}, "held")
Claim(b)   == Move(b, {"held"}, "claimed")
Contest(b) == Move(b, {"claimed"}, "contested")
Honor(b)   == Move(b, Undecided, "honored")
Slash(b)   == Move(b, Undecided, "slashed")
Release(b) == Move(b, Decided, "free")

(* A bulk sweep decides several bonds at once: each bond makes one of the  *)
(* moves above or none.                                                    *)
Decide(S) ==
  /\ \A b \in S : phase[b] \in Undecided
  /\ \E to \in [S -> Decided] :
       phase' = [b \in Bonds |-> IF b \in S THEN to[b] ELSE phase[b]]

Next ==
  \/ \E b \in Bonds :
       Lock(b) \/ Claim(b) \/ Contest(b) \/ Honor(b) \/ Slash(b) \/ Release(b)
  \/ \E S \in SUBSET Bonds : Decide(S)

Spec == Init /\ [][Next]_phase
=============================================================================
