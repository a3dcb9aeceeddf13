--------------------------- MODULE MCMarketplace ---------------------------
(* Instances of Marketplace: q1 and q2 are requests for a refresh. *)
EXTENDS Marketplace

CONSTANTS q1, q2
=============================================================================
