----------------------------- MODULE MCPaperBroker -----------------------------
(***************************************************************************)
(* Small instances of PaperBroker.  Prices are multiples of 20, so that    *)
(* the 15% gap buffer is exact, against a starting cash of 60.             *)
(***************************************************************************)
EXTENDS PaperBroker, TLC

CONSTANT t1

Shape(side, kind, qty, trigger) ==
    [ticker |-> t1, side |-> side, kind |-> kind, qty |-> qty, trigger |-> trigger]

\* Each way into and out of the queue, and two sizes of each side.
MCShapes ==
    { Shape("BUY", "market", 1, 0), Shape("BUY", "market", 2, 0),
      Shape("BUY", "limit", 1, 20), Shape("BUY", "stop", 1, 40),
      Shape("SELL", "market", 1, 0), Shape("SELL", "market", 2, 0),
      Shape("SELL", "limit", 1, 40), Shape("SELL", "stop", 1, 20) }

IdSymmetry == Permutations(OrderIds)

=============================================================================
