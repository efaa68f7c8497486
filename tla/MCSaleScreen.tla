---------------------------- MODULE MCSaleScreen ----------------------------
(***************************************************************************)
(* Two products, the first of which changes its price; a discount on a     *)
(* line and one on the cart; one quote. Prices are of two digits because   *)
(* TLC's integers have 32 bits.                                            *)
(***************************************************************************)
EXTENDS SaleScreen, TLC

CONSTANTS a, b, q1, r1, r2

MCPrices == (a :> {36, 43} @@ b :> {33})
TenPercent == [kind |-> "PERCENTAGE", value |-> 10]
OneOff == [kind |-> "FIXED", value |-> 5]
MCOwn == {OneOff}
MCGlobal == {TenPercent}
RequestSymmetry == Permutations(Confirmations)
=============================================================================
