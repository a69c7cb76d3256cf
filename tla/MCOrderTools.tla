------------------------------ MODULE MCOrderTools ------------------------------
(***************************************************************************)
(* Two calls of place_order on a position of one share: each sells it at   *)
(* the market, sells two by a stop order, or buys another one at a limit.  *)
(***************************************************************************)
EXTENDS OrderTools

MCRequests ==
    { [side |-> "SELL", kind |-> "market", qty |-> 1],
      [side |-> "SELL", kind |-> "stop", qty |-> 2],
      [side |-> "BUY", kind |-> "limit", qty |-> 1] }

\* A trigger sells one share.
MCMomentum == { [side |-> "SELL", kind |-> "market", qty |-> 1] }

================================================================================
