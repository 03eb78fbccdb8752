------------------------------ MODULE MCPriceFeed ------------------------------
(* A small instance of PriceFeed for TLC.                                  *)
EXTENDS PriceFeed

CONSTANTS r1, r2, r3

MCReporters == {r1, r2, r3}
MCHonest == {r1, r2}
MCHonestPrices == {3, 5}
MCOtherPrices == {9}
MCAges == {1, 2}
=============================================================================
