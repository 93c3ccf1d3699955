--------------------------- MODULE MCModelGateway ---------------------------
(* Plans for ModelGateway: one with both aliases, one whose fast route has *)
(* a fallback.                                                             *)
EXTENDS ModelGateway, TLC

CONSTANTS h1, h2, o1, o2, o3

HandlerSymmetry == Permutations({h1, h2})

SmallPlans ==
    {[primary |-> o1, fast |-> o2, fallbacks |-> << >>],
     [primary |-> NoOffering, fast |-> o2, fallbacks |-> <<o3>>]}
=============================================================================
