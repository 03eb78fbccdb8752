---------------------------- MODULE MCBondEscrow ----------------------------
(* A small instance of BondEscrow for TLC.                                 *)
EXTENDS BondEscrow

CONSTANTS b1, ann, bob, cal, ina, lia

MCBonds == {b1}
MCHolders == {ann, bob, cal, ina, lia}
MCAgent == [b \in MCBonds |-> ann]
MCStakes == {0, 2}

MCShares(caller, challengers, insurance, lineage) ==
  [s \in Shares |-> IF s = "caller" THEN caller ELSE IF s = "challengers" THEN challengers
                    ELSE IF s = "insurance" THEN insurance ELSE lineage]

MCPayees(caller, insurance, lineage) ==
  [s \in Payees |-> IF s = "caller" THEN caller ELSE IF s = "insurance" THEN insurance ELSE lineage]

Full == [amount |-> 7, deadline |-> 1, window |-> 1, grace |-> 1,
         routing |-> MCShares(3000, 2500, 2500, 2000), payee |-> MCPayees(cal, ina, lia)]

(* Accounts of the parties the terms below name, for any challenger, and   *)
(* some with one slot's swapped for somebody else's.                       *)
MCAccounts(caller, challenger, lineage) ==
  [s \in Slots |-> IF s = "agent" THEN ann ELSE IF s = "caller" THEN caller
                   ELSE IF s = "challengers" THEN challenger
                   ELSE IF s = "insurance" THEN ina ELSE lineage]

MCDestinations ==
  {MCAccounts(cal, who, lia) : who \in MCHolders}
    \cup {MCAccounts(ann, who, ina) : who \in MCHolders}
    \cup {[MCAccounts(cal, ann, lia) EXCEPT ![s] = bob] : s \in Slots}

(* Terms the program accepts, a window of no length and a negative one     *)
(* among them, an agent that is its own caller and a payee named twice;    *)
(* and terms it refuses, each for one reason.                              *)
MCTerms ==
  {Full,
   [Full EXCEPT !.amount = 3, !.deadline = 2, !.window = 2],
   [Full EXCEPT !.amount = 5, !.payee = MCPayees(ann, ina, ina)],
   [Full EXCEPT !.window = 0, !.routing = MCShares(5000, 5000, 0, 0),
                !.payee = MCPayees(cal, Nobody, Nobody)],
   [Full EXCEPT !.window = -1],
   [Full EXCEPT !.routing = MCShares(3000, 2500, 2500, 2001)],
   [Full EXCEPT !.routing = MCShares(3000, 9000, 9000, 0)],
   [Full EXCEPT !.amount = 0],
   [Full EXCEPT !.deadline = 0],
   [Full EXCEPT !.grace = 0],
   [Full EXCEPT !.payee = MCPayees(Nobody, ina, lia)],
   [Full EXCEPT !.payee = MCPayees(cal, Nobody, lia)]}
=============================================================================
