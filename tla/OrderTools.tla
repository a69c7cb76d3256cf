------------------------------- MODULE OrderTools -------------------------------
(***************************************************************************)
(* place_order and cancel_order of the agents (core/agent/tools/           *)
(* broker_tools.py) with the limit-first execution of market orders        *)
(* (_smart_execution.py), on one instrument.  The supervisor, the chat     *)
(* workers and the stop engine trade from threads of their own; each call  *)
(* of the broker is atomic, a tool makes several.  Of the broker only the  *)
(* holding and the fate of orders are kept.  It is the PaperBroker, or one *)
(* whose answers name no order (core/trading212.py, LogBroker of broker.py)*)
(* A call is one invocation of a tool, with valid arguments.               *)
(***************************************************************************)
EXTENDS Naturals, Sequences

CONSTANTS Calls,
          Requests,   \* what the agents ask for
          Momentum,   \* what momentum triggers sell or buy
          Named,      \* whether the brokers in use name the order they took
          Holding,    \* shares held at the start
          Polls,      \* polls before the limit order is given up
          MaxOrders,  \* bound: orders submitted
          MaxFaults   \* bound: broker calls that raise

Engine == "engine"
Trigger == "trigger"
Shapes == [side : {"BUY", "SELL"}, kind : {"market", "limit", "stop"}, qty : Nat \ {0}]

ASSUME ToolsAssumption ==
    /\ {Engine, Trigger} \cap Calls = {}
    /\ Requests \subseteq Shapes
    /\ Momentum \subseteq Shapes /\ \A r \in Momentum : r.kind = "market"
    /\ Named \subseteq BOOLEAN
    /\ Holding \in Nat /\ Polls \in Nat /\ MaxOrders \in Nat /\ MaxFaults \in Nat

VARIABLES
    held,     \* shares of the position
    orders,   \* the orders the broker has taken or refused, in this order
    pc,       \* where each call stands
    req,      \* what it asks for
    own,      \* its limit order, 0 when it has none
    polls,    \* its polls so far
    engine,   \* shares the stop engine is about to sell
    faults,
    short,    \* history: shares sold that were not there, not by a trigger
    crowded,  \* history: a sale was let through while another one was on its way
    lost      \* history: calls that gave up a limit order they may still have

vars == <<held, orders, pc, req, own, polls, engine, faults, short, crowded, lost>>
locals == <<req, own, polls>>
history == <<short, crowded, lost>>

Ids == 1..MaxOrders
Places == {"new", "asked", "priced", "limit", "polling", "giving up", "submit", "done"}
Checked == {"priced", "limit", "polling", "giving up", "submit"}
Statuses == {"pending", "filled", "cancelled", "rejected"}
Sellers == Calls \cup {Engine, Trigger}
Orders == [by : Sellers, side : {"BUY", "SELL"}, qty : Nat \ {0},
           status : Statuses]
Pending(i) == i \in DOMAIN orders /\ orders[i].status = "pending"

NoRequest == [side |-> "BUY", kind |-> "market", qty |-> 1]

Init ==
    /\ held = Holding /\ orders = <<>>
    /\ pc = [c \in Calls |-> "new"]
    /\ req = [c \in Calls |-> NoRequest]
    /\ own = [c \in Calls |-> 0]
    /\ polls = [c \in Calls |-> 0]
    /\ engine = 0 /\ faults = 0
    /\ short = 0 /\ crowded = FALSE /\ lost = {}

Fault == faults < MaxFaults /\ faults' = faults + 1

------------------------------------------------------------------------------
\* The broker.

\* _fill_order, on the holding: a sale of more than is held is paid in full.
Execute(by, side, qty) ==
    /\ held' = IF side = "BUY" THEN held + qty
               ELSE IF qty >= held THEN 0 ELSE held - qty
    /\ short' = IF side = "SELL" /\ by # Trigger /\ qty > held
                THEN short + (qty - held) ELSE short

Untouched == UNCHANGED <<held, short>>

\* submit_order: filled at once, queued, or refused; a stop is never filled here.
Take(by, r) ==
    /\ Len(orders) < MaxOrders
    /\ \E status \in Statuses \ {"cancelled"} :
        /\ orders' = Append(orders, [by |-> by, side |-> r.side, qty |-> r.qty,
                                     status |-> status])
        /\ status = "filled" => r.kind # "stop"
        /\ IF status = "filled" THEN Execute(by, r.side, r.qty) ELSE Untouched

\* The broker fills a queued order.
Fill ==
    /\ \E i \in DOMAIN orders :
        /\ Pending(i)
        /\ orders' = [orders EXCEPT ![i].status = "filled"]
        /\ Execute(orders[i].by, orders[i].side, orders[i].qty)
    /\ UNCHANGED <<engine, pc, locals, faults, crowded, lost>>

Withdraw(i) == orders' = [orders EXCEPT ![i].status = "cancelled"]

\* Somebody sells, or an order to sell waits.
SaleOnItsWay ==
    \/ \E d \in Calls : pc[d] \in Checked /\ req[d].side = "SELL"
    \/ engine > 0
    \/ \E i \in DOMAIN orders : Pending(i) /\ orders[i].side = "SELL"

\* The stop engine reads the holding, and sells at the market no more than that.
EngineReads ==
    /\ engine = 0 /\ engine' \in 1..held
    /\ crowded' = (crowded \/ SaleOnItsWay)
    /\ UNCHANGED <<held, orders, pc, locals, faults, short, lost>>

EngineSells ==
    /\ engine > 0 /\ engine' = 0
    /\ Take(Engine, [side |-> "SELL", kind |-> "market", qty |-> engine])
    /\ UNCHANGED <<pc, locals, faults, crowded, lost>>

\* A momentum trigger buys or sells at the market, whatever is held.
TriggerTrades ==
    /\ \E r \in Momentum :
        /\ Take(Trigger, r)
        /\ crowded' = (crowded \/ (r.side = "SELL" /\ SaleOnItsWay))
    /\ UNCHANGED <<engine, pc, locals, faults, lost>>

------------------------------------------------------------------------------
\* place_order.

Goto(c, place) == pc' = [pc EXCEPT ![c] = place]

\* The tool returns, its locals go.
Finish(c) ==
    /\ Goto(c, "done")
    /\ req' = [req EXCEPT ![c] = NoRequest]
    /\ own' = [own EXCEPT ![c] = 0]
    /\ polls' = [polls EXCEPT ![c] = 0]

Ask(c) ==
    /\ pc[c] = "new"
    /\ \E r \in Requests : req' = [req EXCEPT ![c] = r]
    /\ Goto(c, "asked")
    /\ UNCHANGED <<engine, held, orders, own, polls, faults, history>>

\* The gate for sales, and a mutant that only asks for some holding.
AnyHeld(r) == held > 0
Enough(r) == held >= r.qty

Refuse(c) ==
    /\ pc[c] = "asked"
    /\ req[c].side = "SELL" => ~Enough(req[c])
    /\ Finish(c)
    /\ UNCHANGED <<engine, held, orders, faults, history>>

\* The cash of a buy is in PaperBroker: here it is enough or it is not.
Check(c) ==
    /\ pc[c] = "asked"
    /\ req[c].side = "SELL" => Enough(req[c])
    /\ Goto(c, IF req[c].kind = "market" THEN "priced" ELSE "submit")
    /\ crowded' = (crowded \/ (req[c].side = "SELL" /\ SaleOnItsWay))
    /\ UNCHANGED <<engine, held, orders, locals, faults, short, lost>>

\* The broker raises: the tool does.
CheckFails(c) ==
    /\ pc[c] = "asked" /\ Fault
    /\ Finish(c)
    /\ UNCHANGED <<engine, held, orders, history>>

\* Switched off, no quote, or a spread too tight to be worth a limit order.
Quote(c) ==
    /\ pc[c] = "priced"
    /\ \E place \in {"limit", "submit"} : Goto(c, place)
    /\ UNCHANGED <<engine, held, orders, locals, faults, history>>

SubmitLimit(c) ==
    /\ pc[c] = "limit" /\ TRUE \in Named
    /\ Take(c, [req[c] EXCEPT !.kind = "limit"])
    /\ own' = [own EXCEPT ![c] = Len(orders')]
    /\ Goto(c, "polling")
    /\ UNCHANGED <<engine, req, polls, faults, crowded, lost>>

\* The answer names no order: nothing can be waited for or cancelled, and the
\* order that was taken stays.
SubmitUnnamed(c) ==
    /\ pc[c] = "limit" /\ FALSE \in Named
    /\ Take(c, [req[c] EXCEPT !.kind = "limit"])
    /\ lost' = IF orders'[Len(orders')].status = "rejected" THEN lost ELSE lost \cup {c}
    /\ Goto(c, "submit")
    /\ UNCHANGED <<engine, locals, faults, crowded>>

\* The broker raises, before it takes the order or, when it cannot save, after.
SubmitLimitFails(c) ==
    /\ pc[c] = "limit" /\ Fault
    /\ \/ UNCHANGED <<orders, lost>> /\ Untouched
       \/ Take(c, [req[c] EXCEPT !.kind = "limit"]) /\ lost' = lost \cup {c}
    /\ Goto(c, "submit")
    /\ UNCHANGED <<engine, locals, crowded>>

\* A mutant never comes to the deadline.
PollForEver(c) ==
    /\ pc[c] = "polling"
    /\ IF Pending(own[c]) THEN UNCHANGED <<pc, locals>> ELSE Finish(c)
    /\ UNCHANGED <<engine, held, orders, faults, history>>

\* _wait_for_fill: an order that no longer waits counts as filled.
Poll(c) ==
    /\ pc[c] = "polling"
    /\ \/ polls[c] = Polls /\ Goto(c, "giving up") /\ UNCHANGED locals
       \/ /\ polls[c] < Polls /\ Pending(own[c])
          /\ polls' = [polls EXCEPT ![c] = @ + 1]
          /\ UNCHANGED <<pc, req, own>>
       \/ polls[c] < Polls /\ ~Pending(own[c]) /\ Finish(c)
    /\ UNCHANGED <<engine, held, orders, faults, history>>

PollFails(c) ==
    /\ pc[c] = "polling" /\ polls[c] < Polls /\ Fault
    /\ Goto(c, "giving up")
    /\ UNCHANGED <<engine, held, orders, locals, history>>

\* The limit order is cancelled and the answer ignored; a mutant does not cancel.
GiveUpOnly(c) ==
    /\ pc[c] = "giving up"
    /\ Goto(c, "submit")
    /\ UNCHANGED <<engine, held, orders, locals, faults, history>>

GiveUp(c) ==
    /\ pc[c] = "giving up"
    /\ IF Pending(own[c]) THEN Withdraw(own[c]) /\ lost' = lost
                          ELSE orders' = orders /\ lost' = lost \cup {c}
    /\ Goto(c, "submit")
    /\ UNCHANGED <<engine, held, locals, faults, short, crowded>>

\* The cancel raises, before the order leaves the queue or after.
GiveUpFails(c) ==
    /\ pc[c] = "giving up" /\ Fault
    /\ \/ orders' = orders
       \/ Pending(own[c]) /\ Withdraw(own[c])
    /\ lost' = lost \cup {c}
    /\ Goto(c, "submit")
    /\ UNCHANGED <<engine, held, locals, short, crowded>>

\* The order as asked, whatever the broker answers.
Submit(c) ==
    /\ pc[c] = "submit"
    /\ Take(c, req[c])
    /\ Finish(c)
    /\ UNCHANGED <<engine, faults, crowded, lost>>

SubmitFails(c) ==
    /\ pc[c] = "submit" /\ Fault
    /\ \/ orders' = orders /\ Untouched
       \/ Take(c, req[c])
    /\ Finish(c)
    /\ UNCHANGED <<engine, crowded, lost>>

------------------------------------------------------------------------------
\* cancel_order: an agent withdraws an order it finds waiting, anybody's.
CancelOrder ==
    /\ \E i \in DOMAIN orders : Pending(i) /\ Withdraw(i)
    /\ UNCHANGED <<engine, held, pc, locals, faults, history>>

\* The steps of a call that has been made.
Step(c) ==
    \/ Refuse(c) \/ Check(c) \/ CheckFails(c) \/ Quote(c)
    \/ SubmitLimit(c) \/ SubmitUnnamed(c) \/ SubmitLimitFails(c) \/ Poll(c) \/ PollFails(c)
    \/ GiveUp(c) \/ GiveUpFails(c) \/ Submit(c) \/ SubmitFails(c)

Next ==
    \/ Fill \/ EngineReads \/ EngineSells \/ TriggerTrades \/ CancelOrder
    \/ \E c \in Calls : Ask(c) \/ Step(c)

\* The thread of an agent goes on with its call.
Spec == Init /\ [][Next]_vars /\ \A c \in Calls : WF_vars(Step(c))

------------------------------------------------------------------------------
TypeOK ==
    /\ held \in Nat /\ orders \in Seq(Orders) /\ Len(orders) <= MaxOrders
    /\ pc \in [Calls -> Places] /\ req \in [Calls -> Shapes]
    /\ own \in [Calls -> 0..MaxOrders] /\ polls \in [Calls -> 0..Polls]
    /\ engine \in Nat /\ faults \in 0..MaxFaults
    /\ short \in Nat /\ crowded \in BOOLEAN /\ lost \subseteq Calls

\* A place_order trades once: of its limit order and its market order at most one
\* is filled or can still be.  Not so in the calls of lost: the broker took the
\* limit order and did not name it, as Trading212Broker and LogBroker never do, or
\* raised, or the cancel came too late or raised.
Live(i) == orders[i].status \in {"pending", "filled"}

TradesOnce ==
    \A i, j \in DOMAIN orders :
        (/\ Live(i) /\ Live(j)
         /\ orders[i].by = orders[j].by /\ orders[i].by \in Calls \ lost)
            => i = j

\* The ownership gate: an agent's call or the engine's stop sells shares that are
\* not held only when a sale, a trigger's too, was let through while another one was
\* on its way, or a call may have traded twice.  A momentum trigger's own sale looks
\* at no holding, and sells what is not there whenever it finds less than it asks for.
GateHolds == short > 0 => crowded \/ lost # {}

\* A tool call returns: it is refused, raises, or gets its order in, after a
\* bounded wait for the limit order.
Answered ==
    \A c \in Calls :
        pc[c] = "asked" ~> pc[c] = "done" \/ Len(orders) = MaxOrders

\* "place_order re-fetches the broker portfolio before submitting, which makes the
\* ``sell 0 owned'' class of bug impossible by construction".
NothingSoldUnowned ==
    [][\A i \in DOMAIN orders' :
        (/\ orders'[i].by \in Calls /\ orders'[i].side = "SELL"
         /\ orders'[i].status = "filled"
         /\ (i \in DOMAIN orders => orders[i].status # "filled"))
            => held > 0]_vars

\* "If the limit doesn't fill in time, cancel it and return filled=False so the
\* caller falls back to a market order" (_smart_execution.py:17): whatever the broker.
NeverTwice ==
    \A i, j \in DOMAIN orders :
        (Live(i) /\ Live(j) /\ orders[i].by = orders[j].by /\ orders[i].by \in Calls) => i = j
================================================================================
