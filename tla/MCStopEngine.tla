----------------------------- MODULE MCStopEngine ------------------------------
(***************************************************************************)
(* Small instances of StopEngine: two entries on two prices.               *)
(***************************************************************************)
EXTENDS StopEngine

CONSTANTS e1, e2

Shape(kind, qty, level) == [kind |-> kind, qty |-> qty, level |-> level]

\* A stop-loss that can be moved into the price, and a trailing stop one price
\* below its mark, or a trigger that buys.
MCShapes ==
    [i \in EntryIds |->
        IF i = e1 THEN { Shape("stop_loss", 2, 1), Shape("stop_loss", 1, 2) }
        ELSE { Shape("trailing_stop", 1, 1) }]
MCOrders ==
    [i \in EntryIds |-> IF i = e1 THEN {} ELSE { [action |-> "buy", qty |-> 1] }]

\* Either is a stop-loss, a take-profit or a trailing stop, or such a trigger.
MCKinds ==
    [i \in EntryIds |-> { Shape("stop_loss", 1, 1), Shape("take_profit", 1, 2),
                          Shape("trailing_stop", 1, 1) }]
MCTriggers == [i \in EntryIds |-> { [action |-> "buy", qty |-> 1] }]

=============================================================================
