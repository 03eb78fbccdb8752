--------------------------- MODULE MCTimeLockVault ---------------------------
(* A small instance of TimeLockVault for TLC.                              *)
EXTENDS TimeLockVault

CONSTANTS scema, wbtc, alice, bob

MCMints == {scema, wbtc}
MCDepositors == {alice, bob}

MCLegs(token, backing) == [l \in Legs |-> IF l = "token" THEN token ELSE backing]

(* Two vaults, in one another's mints.                                     *)
MCPairs == {MCLegs(scema, wbtc), MCLegs(wbtc, scema)}

MCMaxDeposits == [v \in MCPairs |-> IF v["token"] = scema THEN 2 ELSE 1]
MCMaxDonated == [v \in MCPairs |-> IF v["token"] = scema THEN 1 ELSE 0]

MCFees == [m \in MCMints |-> IF m = scema THEN {0, 1} ELSE {0}]

(* A pair, a reserve alone, and a token with no reserve, which is refused. *)
MCAsks == {MCLegs(1, 2), MCLegs(0, 1), MCLegs(1, 0)}

(* Too short, negative, too long, and the shortest; extensions do the rest *)
MCLockSecs == {-1, 0, 1, 9}
=============================================================================
