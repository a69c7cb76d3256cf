---------------------------- MODULE OrderToolsProofs ----------------------------
(***************************************************************************)
(* What place_order keeps for any number of calls, requests, triggers and  *)
(* orders, whether or not the broker names what it takes: a call trades    *)
(* once, and the ownership gate holds, as far as they can.                 *)
(***************************************************************************)
EXTENDS OrderTools, SequenceTheorems, TLAPS

\* A call between the gate and its end sells; a waiting order does.
Selling(d) == pc[d] \in Checked /\ req[d].side = "SELL"
WaitingSale(i) == Pending(i) /\ orders[i].side = "SELL"
HasLimit(c) == pc[c] \in {"polling", "giving up"}

\* A call with a limit order knows it, and it is the one it asked for.
Linked ==
    \A c \in Calls : HasLimit(c) =>
        /\ own[c] \in DOMAIN orders
        /\ orders[own[c]].by = c
        /\ orders[own[c]].side = req[c].side
        /\ orders[own[c]].qty = req[c].qty

\* Which orders of a call can be alive, at each of its places.
Singular ==
    \A c \in Calls \ lost :
        /\ \A i \in DOMAIN orders :
             orders[i].by = c /\ Live(i) =>
                 pc[c] = "done" \/ (HasLimit(c) /\ i = own[c])
        /\ \A i, j \in DOMAIN orders :
             orders[i].by = c /\ orders[j].by = c /\ Live(i) /\ Live(j) => i = j

\* At most one sale is on its way, as an agent's call, an order that waits, both of
\* them where the order is the call's, or the stop engine's; and the shares are there,
\* but for an order of a momentum trigger.
OneSale ==
    /\ short = 0
    /\ \A d, e \in Calls : Selling(d) /\ Selling(e) => d = e
    /\ \A d \in Calls : \A i \in DOMAIN orders :
          Selling(d) /\ WaitingSale(i) => HasLimit(d) /\ own[d] = i
    /\ \A i, j \in DOMAIN orders : WaitingSale(i) /\ WaitingSale(j) => i = j
    /\ engine > 0 => (\A d \in Calls : ~Selling(d))
    /\ engine > 0 => (\A i \in DOMAIN orders : ~WaitingSale(i))
    /\ engine > 0 => engine <= held
    /\ \A d \in Calls : Selling(d) /\ ~HasLimit(d) => req[d].qty <= held
    /\ \A i \in DOMAIN orders : WaitingSale(i) /\ orders[i].by # Trigger => orders[i].qty <= held

Quiet == ~crowded /\ lost = {}
IInv == TypeOK /\ Linked /\ Singular /\ (Quiet => OneSale)

------------------------------------------------------------------------------
\* What a step does to the orders: nothing, one more, or one that waited moves.

Grown(o) ==
    /\ Len(orders) + 1 \in 1..MaxOrders
    /\ Len(orders) + 1 \notin DOMAIN orders
    /\ DOMAIN orders' = DOMAIN orders \cup {Len(orders) + 1}
    /\ \A i \in DOMAIN orders : orders'[i] = orders[i]
    /\ orders'[Len(orders) + 1] = o
    /\ Len(orders') = Len(orders) + 1

Turned(i, s) ==
    /\ i \in DOMAIN orders
    /\ orders[i].status = "pending"
    /\ DOMAIN orders' = DOMAIN orders
    /\ Len(orders') = Len(orders)
    /\ \A j \in DOMAIN orders : j # i => orders'[j] = orders[j]
    /\ orders'[i].by = orders[i].by
    /\ orders'[i].side = orders[i].side
    /\ orders'[i].qty = orders[i].qty
    /\ orders'[i].status = s

OrdersOK(q) == q \in Seq(Orders) /\ Len(q) <= MaxOrders

\* One more order at the end of the list, as submit_order leaves it.
LEMMA AppendGrows ==
    ASSUME OrdersOK(orders), Len(orders) < MaxOrders, MaxOrders \in Nat,
           NEW o \in Orders, orders' = Append(orders, o)
    PROVE  Grown(o) /\ OrdersOK(orders')
<1>1. Len(orders) \in Nat /\ DOMAIN orders = 1..Len(orders)
  BY DEF OrdersOK
<1>2. /\ orders' \in Seq(Orders)
      /\ Len(orders') = Len(orders) + 1
      /\ DOMAIN orders' = 1..(Len(orders) + 1)
      /\ orders'[Len(orders) + 1] = o
      /\ \A i \in 1..Len(orders) : orders'[i] = orders[i]
  BY <1>1 DEF OrdersOK
<1>3. 1..(Len(orders) + 1) = (1..Len(orders)) \cup {Len(orders) + 1}
  BY <1>1
<1> QED BY <1>1, <1>2, <1>3 DEF Grown, OrdersOK

\* Another status of one order, as the monitor and cancel_order leave it.
LEMMA StatusTurns ==
    ASSUME OrdersOK(orders), NEW i, Pending(i), NEW s \in Statuses,
           orders' = [orders EXCEPT ![i].status = s]
    PROVE  Turned(i, s) /\ OrdersOK(orders')
<1>1. Len(orders) \in Nat /\ DOMAIN orders = 1..Len(orders) /\ i \in DOMAIN orders
  BY DEF OrdersOK, Pending
<1>2. \A j \in DOMAIN orders : orders[j] \in Orders
  BY <1>1 DEF OrdersOK
<1>3. DOMAIN orders' = DOMAIN orders
  BY <1>1
<1>4. \A j \in DOMAIN orders : j # i => orders'[j] = orders[j]
  BY <1>1
<1>5. orders'[i] = [orders[i] EXCEPT !.status = s]
  BY <1>1
<1>6. /\ orders'[i] \in Orders
      /\ orders'[i].by = orders[i].by /\ orders'[i].side = orders[i].side
      /\ orders'[i].qty = orders[i].qty /\ orders'[i].status = s
  <2>1. orders[i] \in Orders
    BY <1>1, <1>2
  <2> QED BY <2>1, <1>5 DEF Orders
<1>7. orders' \in Seq(Orders) /\ Len(orders') = Len(orders)
  <2>1. orders' = [orders EXCEPT ![i] = [orders[i] EXCEPT !.status = s]]
    OBVIOUS
  <2>2. [orders[i] EXCEPT !.status = s] \in Orders
    BY <1>5, <1>6
  <2> QED BY <2>1, <2>2, <1>1, ExceptSeq DEF OrdersOK
<1> QED
  BY <1>1, <1>3, <1>4, <1>6, <1>7 DEF Turned, OrdersOK, Pending

\* submit_order takes an order over, filled at once, queued or refused.
TakenAs(by, r, o) ==
    /\ Grown(o) /\ OrdersOK(orders')
    /\ o \in Orders /\ o.by = by /\ o.side = r.side /\ o.qty = r.qty
    /\ o.status \in {"pending", "filled", "rejected"}
    /\ o.status = "filled" => Execute(by, r.side, r.qty)
    /\ o.status # "filled" => Untouched

LEMMA TakeTakes ==
    ASSUME OrdersOK(orders), MaxOrders \in Nat,
           NEW by \in Sellers, NEW r \in Shapes, Take(by, r)
    PROVE  \E o \in Orders : TakenAs(by, r, o)
<1>1. PICK status \in Statuses \ {"cancelled"} :
          /\ orders' = Append(orders, [by |-> by, side |-> r.side, qty |-> r.qty,
                                       status |-> status])
          /\ IF status = "filled" THEN Execute(by, r.side, r.qty) ELSE Untouched
  BY DEF Take
<1> DEFINE o == [by |-> by, side |-> r.side, qty |-> r.qty, status |-> status]
<1>2. o \in Orders /\ o.status \in {"pending", "filled", "rejected"}
  BY DEF Orders, Shapes, Statuses
<1>3. Len(orders) < MaxOrders
  BY DEF Take
<1>4. Grown(o) /\ OrdersOK(orders')
  BY <1>1, <1>2, <1>3, AppendGrows
<1>5. TakenAs(by, r, o)
  BY <1>1, <1>2, <1>4 DEF TakenAs
<1> QED BY <1>2, <1>5

\* The holding after an execution; a sale that is covered leaves nothing short.
LEMMA ExecuteKeeps ==
    ASSUME held \in Nat, short \in Nat, NEW by, NEW side \in {"BUY", "SELL"},
           NEW qty \in Nat, Execute(by, side, qty)
    PROVE  /\ held' \in Nat /\ short' \in Nat
           /\ side = "BUY" => held <= held' /\ short' = short
           /\ side = "SELL" /\ (qty <= held \/ by = Trigger) => short' = short
<1>1. CASE side = "BUY"
  BY <1>1 DEF Execute
<1>2. CASE side = "SELL" /\ qty < held
  BY <1>2 DEF Execute
<1>3. CASE side = "SELL" /\ qty = held
  BY <1>3 DEF Execute
<1>4. CASE side = "SELL" /\ qty > held
  BY <1>4 DEF Execute
<1> QED BY <1>1, <1>2, <1>3, <1>4

------------------------------------------------------------------------------
\* Types.

\* The variables of the calls.
CallsOK ==
    /\ pc \in [Calls -> Places] /\ req \in [Calls -> Shapes]
    /\ own \in [Calls -> 0..MaxOrders] /\ polls \in [Calls -> 0..Polls]

AccountOK == held \in Nat /\ short \in Nat /\ OrdersOK(orders)
RestOK ==
    engine \in Nat /\ faults \in 0..MaxFaults /\ crowded \in BOOLEAN /\ lost \subseteq Calls

LEMMA TypeParts == TypeOK <=> CallsOK /\ AccountOK /\ RestOK
BY DEF TypeOK, CallsOK, AccountOK, RestOK, OrdersOK

LEMMA TypePartsNext == TypeOK' <=> CallsOK' /\ AccountOK' /\ RestOK'
BY DEF TypeOK, CallsOK, AccountOK, RestOK, OrdersOK

LEMMA FinishKeepsCalls ==
    ASSUME CallsOK, NEW c \in Calls, Finish(c)
    PROVE  CallsOK'
<1>1. NoRequest \in Shapes /\ "done" \in Places
  BY DEF NoRequest, Shapes, Places
<1>2. 0 \in 0..MaxOrders /\ 0 \in 0..Polls
  BY ToolsAssumption
<1> QED BY <1>1, <1>2 DEF CallsOK, Finish, Goto

LEMMA GotoKeepsCalls ==
    ASSUME CallsOK, NEW c \in Calls, NEW place \in Places, Goto(c, place),
           UNCHANGED locals
    PROVE  CallsOK'
BY DEF CallsOK, Goto, locals

LEMMA FaultKeeps ==
    ASSUME RestOK, Fault PROVE faults' \in 0..MaxFaults
<1>1. \A k \in Nat : k < MaxFaults => k + 1 \in 0..MaxFaults
  BY ToolsAssumption
<1> QED BY <1>1, ToolsAssumption DEF RestOK, Fault

LEMMA TakeKeepsAccount ==
    ASSUME AccountOK, NEW by \in Sellers, NEW r \in Shapes, Take(by, r)
    PROVE  AccountOK'
<1>1. PICK o \in Orders : TakenAs(by, r, o)
  BY TakeTakes, ToolsAssumption DEF AccountOK
<1>2. r.side \in {"BUY", "SELL"} /\ r.qty \in Nat
  BY DEF Shapes
<1>3. CASE o.status = "filled"
  <2>1. Execute(by, r.side, r.qty)
    BY <1>1, <1>3 DEF TakenAs
  <2>2. held' \in Nat /\ short' \in Nat
    BY <2>1, <1>2, ExecuteKeeps DEF AccountOK
  <2> QED BY <2>2, <1>1 DEF AccountOK, TakenAs, OrdersOK
<1>4. CASE o.status # "filled"
  BY <1>4, <1>1 DEF TakenAs, Untouched, AccountOK, OrdersOK
<1> QED BY <1>3, <1>4

LEMMA TurnKeepsAccount ==
    ASSUME AccountOK, NEW i, Pending(i), NEW s \in Statuses,
           orders' = [orders EXCEPT ![i].status = s],
           held' \in Nat, short' \in Nat
    PROVE  AccountOK'
<1>1. OrdersOK(orders')
  BY StatusTurns DEF AccountOK
<1> QED BY <1>1 DEF AccountOK, OrdersOK

LEMMA ShapesOf ==
    ASSUME CallsOK, NEW c \in Calls
    PROVE  /\ req[c] \in Shapes /\ [req[c] EXCEPT !.kind = "limit"] \in Shapes
           /\ [req[c] EXCEPT !.kind = "limit"].side = req[c].side
           /\ [req[c] EXCEPT !.kind = "limit"].qty = req[c].qty
           /\ req[c].side \in {"BUY", "SELL"} /\ req[c].qty \in Nat
<1>1. req[c] \in Shapes
  BY DEF CallsOK
<1> QED BY <1>1 DEF Shapes

LEMMA FillKeeps ==
    ASSUME AccountOK, Fill
    PROVE  AccountOK' /\ \E i \in DOMAIN orders :
              /\ Pending(i) /\ Turned(i, "filled")
              /\ orders[i].side \in {"BUY", "SELL"} /\ orders[i].qty \in Nat
              /\ Execute(orders[i].by, orders[i].side, orders[i].qty)
<1>1. PICK i \in DOMAIN orders :
          /\ Pending(i)
          /\ orders' = [orders EXCEPT ![i].status = "filled"]
          /\ Execute(orders[i].by, orders[i].side, orders[i].qty)
  BY DEF Fill
<1>2. orders[i] \in Orders
  BY <1>1 DEF AccountOK, OrdersOK
<1>3. orders[i].side \in {"BUY", "SELL"} /\ orders[i].qty \in Nat
  BY <1>2 DEF Orders
<1>4. held' \in Nat /\ short' \in Nat
  BY <1>1, <1>3, ExecuteKeeps DEF AccountOK
<1>5. AccountOK' /\ Turned(i, "filled")
  BY <1>1, <1>4, StatusTurns, TurnKeepsAccount DEF AccountOK, Statuses
<1> QED BY <1>1, <1>3, <1>5

LEMMA WithdrawKeeps ==
    ASSUME AccountOK, NEW i, Pending(i), Withdraw(i), Untouched
    PROVE  AccountOK' /\ Turned(i, "cancelled")
<1>1. orders' = [orders EXCEPT ![i].status = "cancelled"] /\ "cancelled" \in Statuses
  BY DEF Withdraw, Statuses
<1>2. held' \in Nat /\ short' \in Nat
  BY DEF AccountOK, Untouched
<1> QED BY <1>1, <1>2, StatusTurns, TurnKeepsAccount DEF AccountOK

LEMMA TypeStep == TypeOK /\ [Next]_vars => TypeOK'
<1> SUFFICES ASSUME CallsOK, AccountOK, RestOK, [Next]_vars
             PROVE  CallsOK' /\ AccountOK' /\ RestOK'
  BY TypeParts, TypePartsNext
<1> USE DEF history
<1>same. ASSUME UNCHANGED <<held, orders, short>> PROVE AccountOK'
  BY <1>same DEF AccountOK, OrdersOK
<1>calls. ASSUME UNCHANGED <<pc, req, own, polls>> PROVE CallsOK'
  BY <1>calls DEF CallsOK
<1>1. CASE Fill
  <2>1. AccountOK'
    BY <1>1, FillKeeps
  <2>2. CallsOK'
    BY <1>1, <1>calls DEF Fill, locals
  <2> QED BY <1>1, <2>1, <2>2 DEF Fill, RestOK
<1>2. CASE EngineReads
  <2>1. engine' \in Nat
    BY <1>2 DEF EngineReads
  <2> QED BY <1>2, <2>1, <1>same, <1>calls DEF EngineReads, RestOK, locals
<1>3. CASE EngineSells
  <2> DEFINE r == [side |-> "SELL", kind |-> "market", qty |-> engine]
  <2>1. r \in Shapes /\ Take(Engine, r) /\ 0 \in Nat /\ Engine \in Sellers
    BY <1>3 DEF EngineSells, Shapes, RestOK, Sellers
  <2>2. AccountOK'
    <3> HIDE DEF r
    <3> QED BY <2>1, TakeKeepsAccount
  <2>3. CallsOK'
    BY <1>3, <1>calls DEF EngineSells, locals
  <2> QED BY <1>3, <2>1, <2>2, <2>3 DEF EngineSells, RestOK
<1>4. CASE CancelOrder
  <2>1. PICK i \in DOMAIN orders : Pending(i) /\ Withdraw(i)
    BY <1>4 DEF CancelOrder
  <2>2. AccountOK'
    BY <1>4, <2>1, WithdrawKeeps DEF CancelOrder, Untouched
  <2>3. CallsOK'
    BY <1>4, <1>calls DEF CancelOrder, locals
  <2> QED BY <1>4, <2>2, <2>3 DEF CancelOrder, RestOK
<1>trigger. CASE TriggerTrades
  <2>1. PICK r \in Momentum : Take(Trigger, r)
    BY <1>trigger DEF TriggerTrades
  <2>2. AccountOK'
    BY <2>1, TakeKeepsAccount, ToolsAssumption DEF Sellers
  <2>3. CallsOK'
    BY <1>trigger, <1>calls DEF TriggerTrades, locals
  <2>4. crowded' \in BOOLEAN
    BY <1>trigger DEF TriggerTrades, RestOK
  <2> QED BY <1>trigger, <2>2, <2>3, <2>4 DEF TriggerTrades, RestOK
<1>5. ASSUME NEW c \in Calls, Ask(c) PROVE CallsOK' /\ AccountOK' /\ RestOK'
  <2>1. CallsOK'
    BY <1>5, ToolsAssumption DEF Ask, CallsOK, Goto, Places
  <2> QED BY <1>5, <2>1, <1>same DEF Ask, RestOK
<1>6. ASSUME NEW c \in Calls, Step(c) PROVE CallsOK' /\ AccountOK' /\ RestOK'
  <2> USE <1>6
  <2>0. /\ {"priced", "limit", "submit", "giving up", "polling"} \subseteq Places
        /\ req[c] \in Shapes /\ [req[c] EXCEPT !.kind = "limit"] \in Shapes
        /\ c \in Sellers
    BY ShapesOf DEF Places, Sellers
  <2>go. ASSUME NEW place \in Places, Goto(c, place), UNCHANGED locals PROVE CallsOK'
    BY <2>go, GotoKeepsCalls
  <2>1. CASE Refuse(c)
    BY <2>1, <1>same, FinishKeepsCalls DEF Refuse, RestOK
  <2>2. CASE Check(c)
    <3>1. CallsOK'
      BY <2>0, <2>2, <2>go DEF Check
    <3> QED BY <2>2, <3>1, <1>same DEF Check, RestOK
  <2>3. CASE CheckFails(c)
    BY <2>3, <1>same, FinishKeepsCalls, FaultKeeps DEF CheckFails, RestOK
  <2>4. CASE Quote(c)
    <3>1. CallsOK'
      BY <2>0, <2>4, <2>go DEF Quote
    <3> QED BY <2>4, <3>1, <1>same DEF Quote, RestOK
  <2>5. CASE SubmitLimit(c)
    <3>1. AccountOK'
      BY <2>0, <2>5, TakeKeepsAccount DEF SubmitLimit
    <3>2. Len(orders') \in 0..MaxOrders
      BY <3>1, ToolsAssumption DEF AccountOK, OrdersOK
    <3>3. CallsOK'
      BY <2>0, <2>5, <3>2 DEF SubmitLimit, CallsOK, Goto
    <3> QED BY <2>5, <3>1, <3>3 DEF SubmitLimit, RestOK
  <2>unnamed. CASE SubmitUnnamed(c)
    <3>1. AccountOK'
      BY <2>0, <2>unnamed, TakeKeepsAccount DEF SubmitUnnamed
    <3>2. CallsOK'
      BY <2>0, <2>unnamed, <2>go DEF SubmitUnnamed
    <3>3. lost' \subseteq Calls
      BY <2>unnamed DEF SubmitUnnamed, RestOK
    <3> QED BY <2>unnamed, <3>1, <3>2, <3>3 DEF SubmitUnnamed, RestOK
  <2>6. CASE SubmitLimitFails(c)
    <3>1. AccountOK'
      <4>1. CASE orders' = orders /\ Untouched
        BY <4>1, <1>same DEF Untouched
      <4>2. CASE Take(c, [req[c] EXCEPT !.kind = "limit"])
        BY <2>0, <4>2, TakeKeepsAccount
      <4> QED BY <4>1, <4>2, <2>6 DEF SubmitLimitFails
    <3>2. CallsOK'
      BY <2>0, <2>6, <2>go DEF SubmitLimitFails
    <3>3. lost' \subseteq Calls
      BY <2>6 DEF SubmitLimitFails, RestOK
    <3> QED BY <2>6, <3>1, <3>2, <3>3, FaultKeeps DEF SubmitLimitFails, RestOK
  <2>7. CASE Poll(c)
    <3>1. CASE polls[c] < Polls /\ Pending(own[c]) /\ polls' = [polls EXCEPT ![c] = @ + 1]
               /\ UNCHANGED <<pc, req, own>>
      <4>1. polls[c] + 1 \in 0..Polls
        <5>1. polls[c] \in 0..Polls
          BY DEF CallsOK
        <5>2. \A k, p \in Nat : k < p => k + 1 \in 0..p
          OBVIOUS
        <5> QED BY <5>1, <5>2, <3>1, ToolsAssumption
      <4>2. CallsOK'
        BY <3>1, <4>1 DEF CallsOK
      <4> QED BY <2>7, <4>2, <1>same DEF Poll, RestOK
    <3>2. CASE Finish(c)
      BY <2>7, <3>2, <1>same, FinishKeepsCalls DEF Poll, RestOK
    <3>3. CASE Goto(c, "giving up") /\ UNCHANGED locals
      BY <2>0, <2>7, <3>3, <1>same, <2>go DEF Poll, RestOK
    <3> QED BY <2>7, <3>1, <3>2, <3>3 DEF Poll
  <2>8. CASE PollFails(c)
    <3>1. CallsOK'
      BY <2>0, <2>8, <2>go DEF PollFails
    <3> QED BY <2>8, <3>1, <1>same, FaultKeeps DEF PollFails, RestOK
  <2>9. CASE GiveUp(c)
    <3>1. AccountOK'
      <4>1. CASE orders' = orders
        BY <2>9, <4>1, <1>same DEF GiveUp
      <4>2. CASE Pending(own[c]) /\ Withdraw(own[c])
        BY <2>9, <4>2, WithdrawKeeps DEF GiveUp, Untouched
      <4> QED BY <2>9, <4>1, <4>2 DEF GiveUp
    <3>2. CallsOK'
      BY <2>0, <2>9, <2>go DEF GiveUp
    <3>3. lost' \subseteq Calls
      BY <2>9 DEF GiveUp, RestOK
    <3> QED BY <2>9, <3>1, <3>2, <3>3 DEF GiveUp, RestOK
  <2>10. CASE GiveUpFails(c)
    <3>1. AccountOK'
      <4>1. CASE orders' = orders
        BY <2>10, <4>1, <1>same DEF GiveUpFails
      <4>2. CASE Pending(own[c]) /\ Withdraw(own[c])
        BY <2>10, <4>2, WithdrawKeeps DEF GiveUpFails, Untouched
      <4> QED BY <2>10, <4>1, <4>2 DEF GiveUpFails
    <3>2. CallsOK'
      BY <2>0, <2>10, <2>go DEF GiveUpFails
    <3>3. lost' \subseteq Calls
      BY <2>10 DEF GiveUpFails, RestOK
    <3> QED BY <2>10, <3>1, <3>2, <3>3, FaultKeeps DEF GiveUpFails, RestOK
  <2>11. CASE Submit(c)
    <3>1. AccountOK'
      BY <2>0, <2>11, TakeKeepsAccount DEF Submit
    <3> QED BY <2>11, <3>1, FinishKeepsCalls DEF Submit, RestOK
  <2>12. CASE SubmitFails(c)
    <3>1. AccountOK'
      <4>1. CASE orders' = orders /\ Untouched
        BY <4>1, <1>same DEF Untouched
      <4>2. CASE Take(c, req[c])
        BY <2>0, <4>2, TakeKeepsAccount
      <4> QED BY <4>1, <4>2, <2>12 DEF SubmitFails
    <3> QED BY <2>12, <3>1, FinishKeepsCalls, FaultKeeps DEF SubmitFails, RestOK
  <2> QED
    BY <2>1, <2>2, <2>3, <2>4, <2>5, <2>unnamed, <2>6, <2>7, <2>8, <2>9, <2>10, <2>11, <2>12
    DEF Step
<1>7. CASE UNCHANGED vars
  BY <1>7, <1>same, <1>calls DEF vars, locals, RestOK
<1> QED BY <1>1, <1>2, <1>3, <1>4, <1>trigger, <1>5, <1>6, <1>7 DEF Next

LEMMA TypeInit == Init => TypeOK
<1> SUFFICES ASSUME Init PROVE CallsOK /\ AccountOK /\ RestOK
  BY TypeParts
<1>1. NoRequest \in Shapes /\ "new" \in Places
  BY DEF NoRequest, Shapes, Places
<1>2. OrdersOK(orders)
  BY ToolsAssumption DEF Init, OrdersOK
<1>3. CallsOK
  BY <1>1, ToolsAssumption DEF Init, CallsOK
<1>4. AccountOK
  BY <1>2, ToolsAssumption DEF Init, AccountOK
<1>5. RestOK
  <2>1. 0 \in 0..MaxFaults
    BY ToolsAssumption
  <2> QED BY <2>1 DEF Init, RestOK
<1> QED BY <1>3, <1>4, <1>5

------------------------------------------------------------------------------
\* A call trades once.

\* What another call, the engine or the monitor does to the orders of call c.
OfOthers(c) ==
    \/ orders' = orders
    \/ \E o \in Orders : Grown(o) /\ o.by # c
    \/ \E i \in DOMAIN orders, s \in {"filled", "cancelled"} : Turned(i, s)

LinkedOf(c) ==
    HasLimit(c) => /\ own[c] \in DOMAIN orders
                   /\ orders[own[c]].by = c
                   /\ orders[own[c]].side = req[c].side
                   /\ orders[own[c]].qty = req[c].qty

SingularOf(c) ==
    /\ \A i \in DOMAIN orders :
         orders[i].by = c /\ Live(i) => pc[c] = "done" \/ (HasLimit(c) /\ i = own[c])
    /\ \A i, j \in DOMAIN orders :
         orders[i].by = c /\ orders[j].by = c /\ Live(i) /\ Live(j) => i = j

\* The orders of c, seen through a step of somebody else: none comes to life.
LEMMA OthersLeave ==
    ASSUME NEW c, OfOthers(c)
    PROVE  /\ DOMAIN orders \subseteq DOMAIN orders'
           /\ \A i \in DOMAIN orders :
                /\ orders'[i].by = orders[i].by
                /\ orders'[i].side = orders[i].side
                /\ orders'[i].qty = orders[i].qty
           /\ \A i \in DOMAIN orders' :
                orders'[i].by = c /\ Live(i)' => i \in DOMAIN orders /\ Live(i)
<1>1. CASE orders' = orders
  BY <1>1 DEF Live
<1>2. ASSUME NEW o \in Orders, Grown(o), o.by # c
      PROVE  /\ DOMAIN orders \subseteq DOMAIN orders'
             /\ \A i \in DOMAIN orders : orders'[i] = orders[i]
             /\ \A i \in DOMAIN orders' : orders'[i].by = c => i \in DOMAIN orders
  BY <1>2 DEF Grown
<1>3. ASSUME NEW i \in DOMAIN orders, NEW s \in {"filled", "cancelled"}, Turned(i, s)
      PROVE  /\ DOMAIN orders' = DOMAIN orders
             /\ \A j \in DOMAIN orders :
                  /\ orders'[j].by = orders[j].by
                  /\ orders'[j].side = orders[j].side
                  /\ orders'[j].qty = orders[j].qty
                  /\ Live(j)' => Live(j)
  <2>1. \A j \in DOMAIN orders : j # i => orders'[j] = orders[j]
    BY <1>3 DEF Turned
  <2> QED BY <1>3, <2>1 DEF Turned, Live
<1> QED BY <1>1, <1>2, <1>3 DEF OfOthers, Live

LEMMA OthersKeep ==
    ASSUME NEW c, OfOthers(c), pc'[c] = pc[c], own'[c] = own[c], req'[c] = req[c]
    PROVE  /\ LinkedOf(c) => LinkedOf(c)'
           /\ SingularOf(c) => SingularOf(c)'
<1>1. /\ DOMAIN orders \subseteq DOMAIN orders'
      /\ \A i \in DOMAIN orders :
           /\ orders'[i].by = orders[i].by
           /\ orders'[i].side = orders[i].side
           /\ orders'[i].qty = orders[i].qty
      /\ \A i \in DOMAIN orders' :
           orders'[i].by = c /\ Live(i)' => i \in DOMAIN orders /\ Live(i)
  BY OthersLeave
<1>2. LinkedOf(c) => LinkedOf(c)'
  BY <1>1 DEF LinkedOf, HasLimit
<1>3. SingularOf(c) => SingularOf(c)'
  BY <1>1 DEF SingularOf, HasLimit
<1> QED BY <1>2, <1>3

\* A step of the call itself that leaves the orders, between places without a
\* limit order, or to the end.
LEMMA MoveKeeps ==
    ASSUME NEW c, orders' = orders, ~HasLimit(c)', pc[c] # "done",
           HasLimit(c) => pc'[c] = "done"
    PROVE  /\ LinkedOf(c)'
           /\ SingularOf(c) => SingularOf(c)'
BY DEF LinkedOf, SingularOf, HasLimit, Live

\* A new order of a call that has none alive.
LEMMA SubmitKeeps ==
    ASSUME NEW c, NEW o \in Orders, Grown(o), o.by = c,
           SingularOf(c), pc[c] # "done", ~HasLimit(c),
           pc'[c] = "done" \/ (pc'[c] = "polling" /\ own'[c] = Len(orders) + 1)
    PROVE  SingularOf(c)'
<1>1. \A i \in DOMAIN orders : orders[i].by = c => ~Live(i)
  BY DEF SingularOf
<1>2. \A i \in DOMAIN orders' : orders'[i].by = c /\ Live(i)' => i = Len(orders) + 1
  BY <1>1 DEF Grown, Live
<1> QED BY <1>2 DEF SingularOf, HasLimit

LEMMA GotoMoves ==
    ASSUME CallsOK, NEW d \in Calls, NEW place, Goto(d, place)
    PROVE  pc'[d] = place /\ \A c \in Calls : c # d => pc'[c] = pc[c]
BY DEF CallsOK, Goto

LEMMA FinishMoves ==
    ASSUME CallsOK, NEW d \in Calls, Finish(d)
    PROVE  /\ pc'[d] = "done"
           /\ \A c \in Calls : c # d =>
                pc'[c] = pc[c] /\ req'[c] = req[c] /\ own'[c] = own[c]
BY DEF CallsOK, Finish, Goto

LEMMA TakeIsOfOthers ==
    ASSUME CallsOK, AccountOK, NEW d \in Sellers, NEW r \in Shapes, Take(d, r),
           NEW c, c # d
    PROVE  OfOthers(c)
<1>1. PICK o \in Orders : TakenAs(d, r, o)
  BY TakeTakes, ToolsAssumption DEF AccountOK
<1> QED BY <1>1 DEF TakenAs, OfOthers

LEMMA WithdrawIsOfOthers ==
    ASSUME AccountOK, NEW i, Pending(i), Withdraw(i), NEW c
    PROVE  OfOthers(c)
<1>1. Turned(i, "cancelled")
  BY StatusTurns DEF AccountOK, Withdraw, Statuses
<1> QED BY <1>1 DEF Turned, OfOthers

\* A step of one call leaves the others where they are.
LEMMA CallsApart ==
    ASSUME CallsOK, AccountOK, NEW d \in Calls, Ask(d) \/ Step(d), NEW c \in Calls, c # d
    PROVE  /\ pc'[c] = pc[c] /\ req'[c] = req[c] /\ own'[c] = own[c]
           /\ OfOthers(c)
<1> USE DEF locals
<1>0. /\ req[d] \in Shapes /\ [req[d] EXCEPT !.kind = "limit"] \in Shapes
      /\ d \in Sellers
  BY ShapesOf DEF Sellers
<1>same. ASSUME orders' = orders PROVE OfOthers(c)
  BY <1>same DEF OfOthers
<1>1. CASE Ask(d)
  BY <1>1, <1>same, GotoMoves DEF Ask, CallsOK
<1>2. CASE Refuse(d)
  BY <1>2, <1>same, FinishMoves DEF Refuse
<1>3. CASE Check(d)
  BY <1>3, <1>same, GotoMoves DEF Check
<1>4. CASE CheckFails(d)
  BY <1>4, <1>same, FinishMoves DEF CheckFails
<1>5. CASE Quote(d)
  BY <1>5, <1>same, GotoMoves DEF Quote
<1>6. CASE SubmitLimit(d)
  <2>1. OfOthers(c)
    BY <1>0, <1>6, TakeIsOfOthers DEF SubmitLimit
  <2>2. pc'[c] = pc[c] /\ req'[c] = req[c]
    BY <1>6, GotoMoves DEF SubmitLimit
  <2>3. own'[c] = own[c]
    BY <1>6 DEF SubmitLimit, CallsOK
  <2> QED BY <2>1, <2>2, <2>3
<1>unnamed. CASE SubmitUnnamed(d)
  <2>1. OfOthers(c)
    BY <1>0, <1>unnamed, TakeIsOfOthers DEF SubmitUnnamed
  <2> QED BY <1>unnamed, <2>1, GotoMoves DEF SubmitUnnamed
<1>7. CASE SubmitLimitFails(d)
  <2>1. OfOthers(c)
    <3>1. CASE orders' = orders
      BY <3>1, <1>same
    <3>2. CASE Take(d, [req[d] EXCEPT !.kind = "limit"])
      BY <1>0, <3>2, TakeIsOfOthers
    <3> QED BY <1>7, <3>1, <3>2 DEF SubmitLimitFails
  <2> QED BY <1>7, <2>1, GotoMoves DEF SubmitLimitFails
<1>8. CASE Poll(d)
  BY <1>8, <1>same, GotoMoves, FinishMoves DEF Poll
<1>9. CASE PollFails(d)
  BY <1>9, <1>same, GotoMoves DEF PollFails
<1>10. CASE GiveUp(d)
  <2>1. OfOthers(c)
    BY <1>10, <1>same, WithdrawIsOfOthers DEF GiveUp
  <2> QED BY <1>10, <2>1, GotoMoves DEF GiveUp
<1>11. CASE GiveUpFails(d)
  <2>1. OfOthers(c)
    BY <1>11, <1>same, WithdrawIsOfOthers DEF GiveUpFails
  <2> QED BY <1>11, <2>1, GotoMoves DEF GiveUpFails
<1>12. CASE Submit(d)
  <2>1. OfOthers(c)
    BY <1>0, <1>12, TakeIsOfOthers DEF Submit
  <2> QED BY <1>12, <2>1, FinishMoves DEF Submit
<1>13. CASE SubmitFails(d)
  <2>1. OfOthers(c)
    <3>1. CASE orders' = orders
      BY <3>1, <1>same
    <3>2. CASE Take(d, req[d])
      BY <1>0, <3>2, TakeIsOfOthers
    <3> QED BY <1>13, <3>1, <3>2 DEF SubmitFails
  <2> QED BY <1>13, <2>1, FinishMoves DEF SubmitFails
<1> QED
  BY <1>1, <1>2, <1>3, <1>4, <1>5, <1>6, <1>unnamed, <1>7, <1>8, <1>9, <1>10, <1>11,
     <1>12, <1>13
  DEF Step

\* A step of the call itself.
LEMMA OwnStep ==
    ASSUME CallsOK, AccountOK, NEW c \in Calls, Ask(c) \/ Step(c), LinkedOf(c)
    PROVE  /\ LinkedOf(c)'
           /\ SingularOf(c) /\ c \notin lost' => SingularOf(c)'
<1> USE DEF locals
<1>0. /\ req[c] \in Shapes /\ [req[c] EXCEPT !.kind = "limit"] \in Shapes
      /\ [req[c] EXCEPT !.kind = "limit"].side = req[c].side
      /\ [req[c] EXCEPT !.kind = "limit"].qty = req[c].qty
      /\ c \in Sellers
  BY ShapesOf DEF Sellers
<1>submit. ASSUME Take(c, req[c]), pc[c] = "submit", pc'[c] = "done"
           PROVE  LinkedOf(c)' /\ (SingularOf(c) => SingularOf(c)')
  <2>1. PICK o \in Orders : TakenAs(c, req[c], o)
    BY <1>0, <1>submit, TakeTakes, ToolsAssumption DEF AccountOK
  <2>2. LinkedOf(c)'
    BY <1>submit DEF LinkedOf, HasLimit
  <2>3. SingularOf(c) => SingularOf(c)'
    BY <2>1, <1>submit, SubmitKeeps DEF TakenAs, HasLimit
  <2> QED BY <2>2, <2>3
<1>1. CASE Ask(c)
  <2>1. pc[c] = "new" /\ pc'[c] = "asked" /\ orders' = orders
    BY <1>1, GotoMoves DEF Ask
  <2> QED BY <2>1, MoveKeeps DEF HasLimit
<1>2. CASE Refuse(c)
  BY <1>2, FinishMoves, MoveKeeps DEF Refuse, HasLimit
<1>3. CASE Check(c)
  <2>1. pc[c] = "asked" /\ pc'[c] \in {"priced", "submit"} /\ orders' = orders
    BY <1>3, GotoMoves DEF Check
  <2> QED BY <2>1, MoveKeeps DEF HasLimit
<1>4. CASE CheckFails(c)
  BY <1>4, FinishMoves, MoveKeeps DEF CheckFails, HasLimit
<1>5. CASE Quote(c)
  BY <1>5, GotoMoves, MoveKeeps DEF Quote, HasLimit
<1>6. CASE SubmitLimit(c)
  <2>1. PICK o \in Orders : TakenAs(c, [req[c] EXCEPT !.kind = "limit"], o)
    BY <1>0, <1>6, TakeTakes, ToolsAssumption DEF AccountOK, SubmitLimit
  <2>2. pc[c] = "limit" /\ pc'[c] = "polling" /\ req' = req
    BY <1>6, GotoMoves DEF SubmitLimit
  <2>3. own'[c] = Len(orders) + 1
    BY <1>6, <2>1 DEF SubmitLimit, TakenAs, Grown, CallsOK
  <2>4. LinkedOf(c)'
    BY <1>0, <2>1, <2>2, <2>3 DEF LinkedOf, TakenAs, Grown
  <2>5. SingularOf(c) => SingularOf(c)'
    BY <2>1, <2>2, <2>3, SubmitKeeps DEF TakenAs, HasLimit
  <2> QED BY <2>4, <2>5
\* A refused order is not alive; of any other one the call has lost sight.
<1>unnamed. CASE SubmitUnnamed(c)
  <2>1. PICK o \in Orders : TakenAs(c, [req[c] EXCEPT !.kind = "limit"], o)
    BY <1>0, <1>unnamed, TakeTakes, ToolsAssumption DEF AccountOK, SubmitUnnamed
  <2>2. pc[c] = "limit" /\ pc'[c] = "submit"
    BY <1>unnamed, GotoMoves DEF SubmitUnnamed
  <2>3. LinkedOf(c)'
    BY <2>2 DEF LinkedOf, HasLimit
  <2>4. ASSUME SingularOf(c), c \notin lost' PROVE SingularOf(c)'
    <3>1. o.status = "rejected"
      BY <1>unnamed, <2>1, <2>4 DEF SubmitUnnamed, TakenAs, Grown
    <3>2. \A i \in DOMAIN orders : orders[i].by = c => ~Live(i)
      BY <2>2, <2>4 DEF SingularOf, HasLimit
    <3>3. \A i \in DOMAIN orders' : orders'[i].by = c => ~Live(i)'
      BY <2>1, <3>1, <3>2 DEF TakenAs, Grown, Live
    <3> QED BY <3>3 DEF SingularOf
  <2> QED BY <2>3, <2>4
<1>7. CASE SubmitLimitFails(c)
  <2>1. pc[c] = "limit" /\ pc'[c] = "submit"
    BY <1>7, GotoMoves DEF SubmitLimitFails
  <2>2. CASE orders' = orders
    BY <2>1, <2>2, MoveKeeps DEF HasLimit
  <2>3. CASE orders' # orders
    BY <1>7, <2>1, <2>3 DEF SubmitLimitFails, LinkedOf, HasLimit
  <2> QED BY <2>2, <2>3
<1>8. CASE Poll(c)
  <2>1. CASE Finish(c)
    BY <1>8, <2>1, FinishMoves, MoveKeeps DEF Poll, HasLimit
  <2>2. CASE UNCHANGED <<pc, req, own>>
    BY <1>8, <2>2, OthersKeep DEF Poll, OfOthers
  <2>3. CASE Goto(c, "giving up") /\ UNCHANGED locals
    <3>1. pc'[c] = "giving up"
      BY <2>3, GotoMoves
    <3> QED BY <1>8, <2>3, <3>1 DEF Poll, LinkedOf, SingularOf, HasLimit, Live
  <2> QED BY <1>8, <2>1, <2>2, <2>3 DEF Poll
<1>9. CASE PollFails(c)
  <2>1. pc'[c] = "giving up"
    BY <1>9, GotoMoves DEF PollFails
  <2> QED BY <1>9, <2>1 DEF PollFails, LinkedOf, SingularOf, HasLimit, Live
<1>10. CASE GiveUp(c)
  <2>1. pc[c] = "giving up" /\ pc'[c] = "submit"
    BY <1>10, GotoMoves DEF GiveUp
  <2>2. LinkedOf(c)'
    BY <2>1 DEF LinkedOf, HasLimit
  <2>3. ASSUME SingularOf(c), c \notin lost' PROVE SingularOf(c)'
    <3>1. Pending(own[c]) /\ Withdraw(own[c])
      BY <1>10, <2>3 DEF GiveUp
    <3>2. Turned(own[c], "cancelled")
      BY <3>1, StatusTurns DEF AccountOK, Withdraw, Statuses
    <3>3. \A i \in DOMAIN orders : orders[i].by = c /\ Live(i) => i = own[c]
      BY <2>1, <2>3 DEF SingularOf, HasLimit
    <3>4. \A i \in DOMAIN orders' : orders'[i].by = c => ~Live(i)'
      BY <3>2, <3>3 DEF Turned, Live
    <3> QED BY <3>4 DEF SingularOf
  <2> QED BY <2>2, <2>3
<1>11. CASE GiveUpFails(c)
  <2>1. pc'[c] = "submit" /\ c \in lost'
    BY <1>11, GotoMoves DEF GiveUpFails
  <2> QED BY <2>1 DEF LinkedOf, HasLimit
<1>12. CASE Submit(c)
  BY <1>12, <1>submit, FinishMoves DEF Submit
<1>13. CASE SubmitFails(c)
  <2>1. pc[c] = "submit" /\ pc'[c] = "done"
    BY <1>13, FinishMoves DEF SubmitFails
  <2>2. CASE orders' = orders
    BY <2>1, <2>2, MoveKeeps DEF HasLimit
  <2>3. CASE Take(c, req[c])
    BY <2>1, <2>3, <1>submit
  <2> QED BY <1>13, <2>2, <2>3 DEF SubmitFails
<1> QED
  BY <1>1, <1>2, <1>3, <1>4, <1>5, <1>6, <1>unnamed, <1>7, <1>8, <1>9, <1>10, <1>11,
     <1>12, <1>13
  DEF Step

LEMMA LinkedSingular ==
    /\ Linked <=> \A c \in Calls : LinkedOf(c)
    /\ Singular <=> \A c \in Calls \ lost : SingularOf(c)
BY DEF Linked, Singular, LinkedOf, SingularOf

\* lost only grows.
LEMMA LostStays == [Next]_vars => lost \subseteq lost'
BY DEF Next, vars, Fill, EngineReads, EngineSells, TriggerTrades, CancelOrder, Ask, Step,
       Refuse, Check, CheckFails, Quote, SubmitLimit, SubmitUnnamed, SubmitLimitFails, Poll, PollFails,
       GiveUp,
       GiveUpFails, Submit, SubmitFails, history

LEMMA TradeStep ==
    TypeOK /\ Linked /\ Singular /\ [Next]_vars => Linked' /\ Singular'
<1> SUFFICES ASSUME CallsOK, AccountOK, RestOK, Linked, Singular, [Next]_vars,
                    NEW c \in Calls
             PROVE  LinkedOf(c)' /\ (c \notin lost' => SingularOf(c)')
  BY TypeParts DEF Linked, Singular, LinkedOf, SingularOf
<1>0. LinkedOf(c) /\ (c \notin lost' => SingularOf(c))
  BY LinkedSingular, LostStays
<1>keep. ASSUME OfOthers(c), UNCHANGED <<pc, req, own>>
         PROVE  LinkedOf(c)' /\ (c \notin lost' => SingularOf(c)')
  BY <1>0, <1>keep, OthersKeep
<1>1. CASE Fill
  <2>1. PICK i \in DOMAIN orders : Turned(i, "filled")
    BY <1>1, FillKeeps
  <2> QED BY <1>1, <2>1, <1>keep DEF Fill, OfOthers, locals
<1>2. CASE EngineReads
  BY <1>2, <1>keep DEF EngineReads, OfOthers, locals
<1>3. CASE EngineSells
  <2> DEFINE r == [side |-> "SELL", kind |-> "market", qty |-> engine]
  <2>1. r \in Shapes /\ Take(Engine, r) /\ Engine \in Sellers
    BY <1>3 DEF EngineSells, Shapes, RestOK, Sellers
  <2>2. OfOthers(c)
    <3> HIDE DEF r
    <3> QED BY <2>1, TakeIsOfOthers, ToolsAssumption
  <2> QED BY <1>3, <2>2, <1>keep DEF EngineSells, locals
<1>trigger. CASE TriggerTrades
  <2>1. PICK r \in Momentum : Take(Trigger, r)
    BY <1>trigger DEF TriggerTrades
  <2>2. OfOthers(c)
    BY <2>1, TakeIsOfOthers, ToolsAssumption DEF Sellers
  <2> QED BY <1>trigger, <2>2, <1>keep DEF TriggerTrades, locals
<1>4. CASE CancelOrder
  <2>1. OfOthers(c)
    BY <1>4, WithdrawIsOfOthers DEF CancelOrder
  <2> QED BY <1>4, <2>1, <1>keep DEF CancelOrder, locals
<1>5. ASSUME NEW d \in Calls, Ask(d) \/ Step(d)
      PROVE  LinkedOf(c)' /\ (c \notin lost' => SingularOf(c)')
  <2>1. CASE d = c
    BY <1>0, <1>5, <2>1, OwnStep
  <2>2. CASE d # c
    BY <1>0, <1>5, <2>2, CallsApart, OthersKeep
  <2> QED BY <2>1, <2>2
<1>6. CASE UNCHANGED vars
  BY <1>6, <1>keep DEF vars, locals, OfOthers
<1> QED BY <1>1, <1>2, <1>3, <1>trigger, <1>4, <1>5, <1>6 DEF Next

------------------------------------------------------------------------------
\* The ownership gate.

\* The order is whose it was, and as large.
SameSale(i) == orders'[i].qty = orders[i].qty /\ orders'[i].by = orders[i].by

\* A step that brings no sale on its way.
LEMMA NoNewSale ==
    ASSUME AccountOK, CallsOK, RestOK, OneSale,
           held' \in Nat, held <= held', short' = short, engine' = 0 \/ engine' = engine,
           \A i \in DOMAIN orders' : WaitingSale(i)' =>
               i \in DOMAIN orders /\ WaitingSale(i) /\ SameSale(i),
           \A d \in Calls : Selling(d)' =>
               /\ Selling(d) /\ (HasLimit(d)' <=> HasLimit(d))
               /\ own'[d] = own[d] /\ req'[d] = req[d]
    PROVE  OneSale'
<1>0. /\ held \in Nat /\ engine \in Nat
      /\ \A d \in Calls : req[d].qty \in Nat
      /\ \A i \in DOMAIN orders : orders[i].qty \in Nat
  <2>1. \A i \in DOMAIN orders : orders[i] \in Orders
    BY DEF AccountOK, OrdersOK
  <2>2. \A i \in DOMAIN orders : orders[i].qty \in Nat
    BY <2>1 DEF Orders
  <2> QED BY <2>2, ShapesOf DEF AccountOK, RestOK
<1>more. \A q \in Nat : q <= held => q <= held'
  BY <1>0
<1>1. short' = 0 /\ \A d, e \in Calls : Selling(d)' /\ Selling(e)' => d = e
  BY DEF OneSale
<1>2. \A d \in Calls : \A i \in DOMAIN orders' :
          Selling(d)' /\ WaitingSale(i)' => HasLimit(d)' /\ own'[d] = i
  BY DEF OneSale
<1>3. \A i, j \in DOMAIN orders' : WaitingSale(i)' /\ WaitingSale(j)' => i = j
  BY DEF OneSale
<1>4. /\ engine' > 0 => (\A d \in Calls : ~Selling(d)')
      /\ engine' > 0 => (\A i \in DOMAIN orders' : ~WaitingSale(i)')
      /\ engine' > 0 => engine' <= held'
  <2>1. ~(0 > 0)
    OBVIOUS
  <2> QED BY <1>0, <1>more, <2>1 DEF OneSale
<1>5. \A d \in Calls : Selling(d)' /\ ~HasLimit(d)' => req'[d].qty <= held'
  BY <1>0, <1>more DEF OneSale
<1>6. \A i \in DOMAIN orders' :
          WaitingSale(i)' /\ orders'[i].by # Trigger => orders'[i].qty <= held'
  BY <1>0, <1>more DEF OneSale, SameSale
<1> QED BY <1>1, <1>2, <1>3, <1>4, <1>5, <1>6 DEF OneSale

\* A covered sale is submitted while nothing else is on its way.
LEMMA SaleSubmitted ==
    ASSUME AccountOK, OneSale, engine' = 0,
           NEW by, NEW r \in Shapes, NEW o \in Orders, TakenAs(by, r, o),
           r.side = "SELL", r.qty <= held,
           \A i \in DOMAIN orders : ~WaitingSale(i),
           \A d, e \in Calls : Selling(d)' /\ Selling(e)' => d = e,
           \A d \in Calls : Selling(d)' => HasLimit(d)' /\ own'[d] = Len(orders) + 1
    PROVE  OneSale'
<1>1. o.side = "SELL" /\ o.qty = r.qty /\ o.qty \in Nat /\ r.side \in {"BUY", "SELL"}
  BY DEF TakenAs, Shapes
<1>2. short' = 0
  <2>1. CASE o.status = "filled"
    BY <1>1, <2>1, ExecuteKeeps DEF TakenAs, OneSale, AccountOK
  <2>2. CASE o.status # "filled"
    BY <2>2 DEF TakenAs, OneSale, Untouched
  <2> QED BY <2>1, <2>2
<1>3. \A i \in DOMAIN orders' : WaitingSale(i)' => i = Len(orders) + 1
  BY DEF TakenAs, Grown, WaitingSale, Pending
<1>4. \A i \in DOMAIN orders' : WaitingSale(i)' => orders'[i].qty <= held'
  <2>1. ASSUME NEW i \in DOMAIN orders', WaitingSale(i)' PROVE o.status = "pending" /\ orders'[i] = o
    BY <1>3, <2>1 DEF TakenAs, Grown, WaitingSale, Pending
  <2>2. o.status = "pending" => held' = held
    BY DEF TakenAs, Untouched
  <2> QED BY <1>1, <2>1, <2>2
<1>5. ~(engine' > 0)
  OBVIOUS
<1> QED BY <1>2, <1>3, <1>4, <1>5 DEF OneSale

\* A purchase is submitted.
LEMMA BuySubmitted ==
    ASSUME AccountOK, NEW by, NEW r \in Shapes, NEW o \in Orders, TakenAs(by, r, o),
           r.side = "BUY"
    PROVE  /\ held' \in Nat /\ held <= held' /\ short' = short
           /\ \A i \in DOMAIN orders' : WaitingSale(i)' =>
                i \in DOMAIN orders /\ WaitingSale(i) /\ SameSale(i)
<1>1. o.side = "BUY" /\ r.qty \in Nat /\ r.side \in {"BUY", "SELL"}
  BY DEF TakenAs, Shapes
<1>2. held' \in Nat /\ held <= held' /\ short' = short
  <2>1. CASE o.status = "filled"
    BY <1>1, <2>1, ExecuteKeeps DEF TakenAs, AccountOK
  <2>2. CASE o.status # "filled"
    BY <2>2 DEF TakenAs, Untouched, AccountOK
  <2> QED BY <2>1, <2>2
<1>3. \A i \in DOMAIN orders' : WaitingSale(i)' =>
          i \in DOMAIN orders /\ WaitingSale(i) /\ SameSale(i)
  BY <1>1 DEF TakenAs, Grown, WaitingSale, Pending, SameSale
<1> QED BY <1>2, <1>3

\* An order that waited is filled or cancelled: no sale comes to wait.
LEMMA TurnedWaitsNoMore ==
    ASSUME NEW i, NEW s \in {"filled", "cancelled"}, Turned(i, s)
    PROVE  \A j \in DOMAIN orders' : WaitingSale(j)' =>
              /\ j \in DOMAIN orders /\ WaitingSale(j) /\ j # i
              /\ SameSale(j)
BY DEF Turned, SameSale, WaitingSale, Pending

\* Another call's place in the queue of sales is not touched by a step of c.
LEMMA SellersApart ==
    ASSUME CallsOK, AccountOK, NEW c \in Calls, Ask(c) \/ Step(c)
    PROVE  \A d \in Calls : d # c =>
              /\ (Selling(d)' <=> Selling(d)) /\ (HasLimit(d)' <=> HasLimit(d))
              /\ own'[d] = own[d] /\ req'[d] = req[d]
<1> TAKE d \in Calls
<1> HAVE d # c
<1>1. pc'[d] = pc[d] /\ req'[d] = req[d] /\ own'[d] = own[d]
  BY CallsApart
<1> QED BY <1>1 DEF Selling, HasLimit

LEMMA GateOfCall ==
    ASSUME CallsOK, AccountOK, RestOK, Linked, OneSale, Quiet, Quiet',
           NEW c \in Calls, Ask(c) \/ Step(c)
    PROVE  OneSale'
<1> USE DEF locals, history
<1>0. /\ req[c] \in Shapes /\ [req[c] EXCEPT !.kind = "limit"] \in Shapes
      /\ [req[c] EXCEPT !.kind = "limit"].side = req[c].side
      /\ [req[c] EXCEPT !.kind = "limit"].qty = req[c].qty
      /\ c \in Sellers
      /\ req[c].side \in {"BUY", "SELL"} /\ req[c].qty \in Nat
      /\ held \in Nat /\ held <= held
  BY ShapesOf DEF AccountOK, Sellers
<1>apart. \A d \in Calls : d # c =>
              /\ (Selling(d)' <=> Selling(d)) /\ (HasLimit(d)' <=> HasLimit(d))
              /\ own'[d] = own[d] /\ req'[d] = req[d]
  BY SellersApart
<1>calm. ASSUME UNCHANGED <<held, orders, short, engine>>,
                Selling(c)' => /\ Selling(c) /\ (HasLimit(c)' <=> HasLimit(c))
                               /\ own'[c] = own[c] /\ req'[c] = req[c]
         PROVE  OneSale'
  BY <1>0, <1>apart, <1>calm, NoNewSale DEF WaitingSale, Pending, SameSale
\* An order is sent: a purchase, or a sale, which is the only one.
<1>sent. ASSUME NEW r \in Shapes, Take(c, r), r.side = req[c].side, r.qty = req[c].qty,
                pc[c] \in {"limit", "submit"}, req' = req \/ pc'[c] = "done", engine' = engine,
                pc'[c] = "done" \/ (HasLimit(c)' /\ own'[c] = Len(orders'))
         PROVE  OneSale'
  <2>1. PICK o \in Orders : TakenAs(c, r, o)
    BY <1>0, <1>sent, TakeTakes, ToolsAssumption DEF AccountOK
  <2>2. CASE r.side = "BUY"
    <3>1. /\ held' \in Nat /\ held <= held' /\ short' = short
          /\ \A i \in DOMAIN orders' : WaitingSale(i)' =>
               i \in DOMAIN orders /\ WaitingSale(i) /\ SameSale(i)
      BY <2>1, <2>2, BuySubmitted
    <3>2. ~Selling(c)'
      BY <1>sent, <2>2 DEF Selling, Checked
    <3> QED BY <1>apart, <1>sent, <3>1, <3>2, NoNewSale
  <2>3. CASE r.side = "SELL"
    <3>1. Selling(c) /\ ~HasLimit(c)
      BY <1>sent, <2>3 DEF Selling, Checked, HasLimit
    <3>2. /\ r.qty <= held
          /\ \A i \in DOMAIN orders : ~WaitingSale(i)
          /\ \A d \in Calls : Selling(d) => d = c
          /\ ~(engine > 0)
      BY <1>sent, <3>1 DEF OneSale
    <3>3. \A d \in Calls : Selling(d)' => d = c /\ HasLimit(d)' /\ own'[d] = Len(orders) + 1
      <4>1. pc'[c] = "done" => ~Selling(c)'
        BY DEF Selling, Checked
      <4>2. Len(orders') = Len(orders) + 1
        BY <2>1 DEF TakenAs, Grown
      <4> QED BY <1>apart, <1>sent, <3>2, <4>1, <4>2
    <3>4. engine' = 0
      <4>1. \A n \in Nat : ~(n > 0) => n = 0
        OBVIOUS
      <4> QED BY <1>sent, <3>2, <4>1 DEF RestOK
    <3> QED BY <2>1, <2>3, <3>2, <3>3, <3>4, SaleSubmitted
  <2> QED BY <1>0, <1>sent, <2>2, <2>3
<1>1. CASE Ask(c)
  <2>1. pc'[c] = "asked"
    BY <1>1, GotoMoves DEF Ask
  <2> QED BY <1>1, <2>1, <1>calm DEF Ask, Selling, Checked
<1>2. CASE Refuse(c)
  BY <1>2, <1>calm, FinishMoves DEF Refuse, Selling, Checked
<1>3. CASE Check(c)
  <2>1. pc[c] = "asked" /\ pc'[c] \in {"priced", "submit"} /\ req' = req /\ orders' = orders
        /\ engine' = engine /\ held' = held /\ short' = short
    BY <1>3, GotoMoves DEF Check
  <2>2. CASE req[c].side = "BUY"
    BY <2>1, <2>2, <1>calm DEF Selling
  <2>3. CASE req[c].side = "SELL"
    <3>1. req[c].qty <= held /\ ~SaleOnItsWay
      <4>1. held >= req[c].qty /\ ~SaleOnItsWay
        BY <1>3, <2>3 DEF Check, Enough, Quiet
      <4> QED BY <1>0, <4>1
    <3>2. /\ \A d \in Calls : ~Selling(d)
          /\ ~(engine > 0)
          /\ \A i \in DOMAIN orders : ~WaitingSale(i)
      BY <3>1 DEF SaleOnItsWay, Selling, WaitingSale
    <3>3. \A d \in Calls : Selling(d)' => d = c
      BY <1>apart, <3>2
    <3>4. ~HasLimit(c)'
      BY <2>1 DEF HasLimit
    <3>5. \A i \in DOMAIN orders' : ~WaitingSale(i)'
      BY <2>1, <3>2 DEF WaitingSale, Pending
    <3>6. short' = 0
      BY <2>1 DEF OneSale
    <3>7. \A d \in Calls : Selling(d)' => req'[d].qty <= held'
      BY <2>1, <3>1, <3>3
    <3>8. ~(engine' > 0)
      BY <2>1, <3>2
    <3> QED BY <3>3, <3>5, <3>6, <3>7, <3>8 DEF OneSale
  <2> QED BY <1>0, <2>2, <2>3
<1>4. CASE CheckFails(c)
  BY <1>4, <1>calm, FinishMoves DEF CheckFails, Selling, Checked
<1>5. CASE Quote(c)
  <2>1. pc[c] = "priced" /\ pc'[c] \in {"limit", "submit"}
    BY <1>5, GotoMoves DEF Quote
  <2>2. req' = req /\ own' = own /\ UNCHANGED <<held, orders, short, engine>>
    BY <1>5 DEF Quote
  <2>3. Selling(c)' => Selling(c)
    BY <2>1, <2>2 DEF Selling, Checked
  <2>4. (HasLimit(c)' <=> HasLimit(c))
    <3>1. ~HasLimit(c) /\ ~HasLimit(c)'
      BY <2>1 DEF HasLimit
    <3>2. HasLimit(c)' <=> HasLimit(c)
      BY <3>1
    <3> QED BY <3>2, Zenon DEF HasLimit
  <2> QED BY <2>2, <2>3, <2>4, <1>calm
<1>6. CASE SubmitLimit(c)
  <2>1. pc'[c] = "polling" /\ own'[c] = Len(orders')
    BY <1>6, GotoMoves DEF SubmitLimit, CallsOK
  <2> QED BY <1>0, <1>6, <2>1, <1>sent DEF SubmitLimit, HasLimit
<1>unnamed. CASE SubmitUnnamed(c)
  <2>1. PICK o \in Orders : TakenAs(c, [req[c] EXCEPT !.kind = "limit"], o)
    BY <1>0, <1>unnamed, TakeTakes, ToolsAssumption DEF AccountOK, SubmitUnnamed
  <2>2. o.status = "rejected"
    BY <1>unnamed, <2>1 DEF SubmitUnnamed, TakenAs, Grown, Quiet
  <2>3. UNCHANGED <<held, short, engine, req, own>> /\ pc[c] = "limit" /\ pc'[c] = "submit"
    BY <1>unnamed, <2>1, <2>2, GotoMoves DEF SubmitUnnamed, TakenAs, Untouched
  <2>4. \A i \in DOMAIN orders' : WaitingSale(i)' =>
            i \in DOMAIN orders /\ WaitingSale(i) /\ SameSale(i)
    BY <2>1, <2>2 DEF SameSale, TakenAs, Grown, WaitingSale, Pending
  <2>5. (Selling(c)' => Selling(c)) /\ ~HasLimit(c) /\ ~HasLimit(c)'
    BY <2>3 DEF Selling, Checked, HasLimit
  <2> QED BY <1>0, <1>apart, <2>3, <2>4, <2>5, NoNewSale
<1>7. CASE SubmitLimitFails(c)
  <2>1. orders' = orders /\ Untouched
    BY <1>7 DEF SubmitLimitFails, Quiet
  <2>2. pc[c] = "limit" /\ pc'[c] = "submit"
    BY <1>7, GotoMoves DEF SubmitLimitFails
  <2> QED BY <1>7, <2>1, <2>2, <1>calm DEF SubmitLimitFails, Untouched, Selling, Checked, HasLimit
<1>8. CASE Poll(c)
  <2>1. CASE Finish(c)
    BY <1>8, <2>1, <1>calm, FinishMoves DEF Poll, Selling, Checked
  <2>2. CASE UNCHANGED <<pc, req, own>>
    BY <1>8, <2>2, <1>calm DEF Poll, Selling, HasLimit
  <2>3. CASE Goto(c, "giving up") /\ UNCHANGED locals
    <3>1. pc'[c] = "giving up"
      BY <2>3, GotoMoves
    <3>2. req' = req /\ own' = own /\ UNCHANGED <<held, orders, short, engine>>
      BY <1>8, <2>3 DEF Poll
    <3>3. Selling(c)' => Selling(c)
      BY <1>8, <3>2 DEF Poll, Selling, Checked
    <3>4. HasLimit(c) /\ HasLimit(c)'
      BY <1>8, <3>1 DEF Poll, HasLimit
    <3> QED BY <3>2, <3>3, <3>4, <1>calm
  <2> QED BY <1>8, <2>1, <2>2, <2>3 DEF Poll
<1>9. CASE PollFails(c)
  <2>1. pc[c] = "polling" /\ pc'[c] = "giving up"
    BY <1>9, GotoMoves DEF PollFails
  <2>2. req' = req /\ own' = own /\ UNCHANGED <<held, orders, short, engine>>
    BY <1>9 DEF PollFails
  <2>3. Selling(c)' => Selling(c)
    BY <2>1, <2>2 DEF Selling, Checked
  <2>4. HasLimit(c) /\ HasLimit(c)'
    BY <2>1 DEF HasLimit
  <2> QED BY <2>2, <2>3, <2>4, <1>calm
<1>10. CASE GiveUp(c)
  <2>1. pc[c] = "giving up" /\ pc'[c] = "submit"
    BY <1>10, GotoMoves DEF GiveUp
  <2>2. Pending(own[c]) /\ Withdraw(own[c])
    BY <1>10 DEF GiveUp, Quiet
  <2>3. Turned(own[c], "cancelled")
    BY <2>2, StatusTurns DEF AccountOK, Withdraw, Statuses
  <2>4. \A j \in DOMAIN orders' : WaitingSale(j)' =>
            j \in DOMAIN orders /\ WaitingSale(j) /\ j # own[c] /\ SameSale(j)
    BY <2>3, TurnedWaitsNoMore
  <2>5. /\ own[c] \in DOMAIN orders /\ orders[own[c]].side = req[c].side
        /\ orders[own[c]].qty = req[c].qty /\ orders[own[c]].by # Trigger
    BY <2>1, ToolsAssumption DEF Linked, HasLimit
  <2>6. held' = held /\ short' = short /\ engine' = engine /\ req' = req /\ own' = own
    BY <1>10 DEF GiveUp
  <2>7. CASE req[c].side = "BUY"
    <3>1. ~Selling(c)'
      BY <2>6, <2>7 DEF Selling
    <3> QED BY <1>0, <1>apart, <2>4, <2>6, <3>1, NoNewSale
  <2>8. CASE req[c].side = "SELL"
    <3>1. Selling(c) /\ WaitingSale(own[c])
      BY <2>1, <2>2, <2>5, <2>8 DEF Selling, Checked, WaitingSale
    <3>2. /\ \A i \in DOMAIN orders : WaitingSale(i) => i = own[c]
          /\ req[c].qty <= held
          /\ \A d \in Calls : Selling(d) => d = c
          /\ ~(engine > 0)
      BY <2>5, <3>1 DEF OneSale
    <3>3. \A i \in DOMAIN orders' : ~WaitingSale(i)'
      BY <2>4, <3>2
    <3>4. \A d \in Calls : Selling(d)' => d = c
      BY <1>apart, <3>2
    <3>5. \A d \in Calls : Selling(d)' => req'[d].qty <= held'
      BY <2>6, <3>2, <3>4
    <3>6. short' = 0 /\ ~(engine' > 0)
      BY <2>6, <3>2 DEF OneSale
    <3> QED BY <3>3, <3>4, <3>5, <3>6 DEF OneSale
  <2> QED BY <1>0, <2>7, <2>8
<1>11. CASE GiveUpFails(c)
  BY <1>11 DEF GiveUpFails, Quiet
<1>12. CASE Submit(c)
  BY <1>0, <1>12, <1>sent, FinishMoves DEF Submit
<1>13. CASE SubmitFails(c)
  <2>1. pc[c] = "submit" /\ pc'[c] = "done"
    BY <1>13, FinishMoves DEF SubmitFails
  <2>2. CASE orders' = orders /\ Untouched
    BY <1>13, <2>1, <2>2, <1>calm DEF SubmitFails, Untouched, Selling, Checked
  <2>3. CASE Take(c, req[c])
    BY <1>0, <1>13, <2>1, <2>3, <1>sent DEF SubmitFails
  <2> QED BY <1>13, <2>2, <2>3 DEF SubmitFails
<1> QED
  BY <1>1, <1>2, <1>3, <1>4, <1>5, <1>6, <1>unnamed, <1>7, <1>8, <1>9, <1>10, <1>11,
     <1>12, <1>13
  DEF Step

\* History only grows.
LEMMA CrowdStays == [Next]_vars => (crowded => crowded')
BY DEF Next, vars, Fill, EngineReads, EngineSells, TriggerTrades, CancelOrder, Ask, Step,
       Refuse, Check, CheckFails, Quote, SubmitLimit, SubmitUnnamed, SubmitLimitFails, Poll, PollFails,
       GiveUp,
       GiveUpFails, Submit, SubmitFails, history

LEMMA GateStep == IInv /\ [Next]_vars => (Quiet => OneSale)'
<1> SUFFICES ASSUME CallsOK, AccountOK, RestOK, Linked, Quiet => OneSale,
                    [Next]_vars, Quiet'
             PROVE  OneSale'
  BY TypeParts DEF IInv
<1>0. Quiet /\ OneSale
  BY LostStays, CrowdStays DEF Quiet
<1> USE DEF locals
<1>still. held \in Nat /\ held <= held
  BY DEF AccountOK
<1>calls. ASSUME UNCHANGED <<pc, req, own>>
          PROVE  \A d \in Calls : /\ (Selling(d)' <=> Selling(d)) /\ (HasLimit(d)' <=> HasLimit(d))
                                  /\ own'[d] = own[d] /\ req'[d] = req[d]
  BY <1>calls DEF Selling, HasLimit
<1>1. CASE Fill
  <2>1. PICK i \in DOMAIN orders :
            /\ Pending(i) /\ Turned(i, "filled")
            /\ orders[i].side \in {"BUY", "SELL"} /\ orders[i].qty \in Nat
            /\ Execute(orders[i].by, orders[i].side, orders[i].qty)
    BY <1>1, FillKeeps
  <2>2. \A j \in DOMAIN orders' : WaitingSale(j)' =>
            j \in DOMAIN orders /\ WaitingSale(j) /\ j # i /\ SameSale(j)
    BY <2>1, TurnedWaitsNoMore
  <2>3. UNCHANGED <<pc, req, own>> /\ engine' = engine
    BY <1>1 DEF Fill
  <2>4. held' \in Nat
    BY <2>1, ExecuteKeeps DEF AccountOK
  <2>5. CASE orders[i].side = "BUY"
    <3>1. held <= held' /\ short' = short
      BY <2>1, <2>5, ExecuteKeeps DEF AccountOK
    <3> QED BY <1>0, <2>2, <2>3, <2>4, <3>1, <1>calls, NoNewSale
  <2>6. CASE orders[i].side = "SELL"
    <3>1. WaitingSale(i)
      BY <2>1, <2>6 DEF WaitingSale
    <3>2. /\ orders[i].qty <= held \/ orders[i].by = Trigger
          /\ \A j \in DOMAIN orders : WaitingSale(j) => j = i
          /\ \A d \in Calls : Selling(d) => HasLimit(d)
          /\ ~(engine > 0)
      BY <1>0, <3>1 DEF OneSale
    <3>3. short' = 0
      BY <1>0, <2>1, <2>6, <3>2, ExecuteKeeps DEF AccountOK, OneSale
    <3>4. \A j \in DOMAIN orders' : ~WaitingSale(j)'
      BY <2>2, <3>2
    <3>5. \A d, e \in Calls : Selling(d)' /\ Selling(e)' => d = e
      BY <1>0, <2>3, <1>calls DEF OneSale
    <3>6. ~(engine' > 0) /\ \A d \in Calls : Selling(d)' => HasLimit(d)'
      BY <2>3, <3>2, <1>calls
    <3> QED BY <3>3, <3>4, <3>5, <3>6 DEF OneSale
  <2> QED BY <2>1, <2>5, <2>6
<1>2. CASE EngineReads
  <2>1. /\ UNCHANGED <<held, orders, pc, req, own, short>>
        /\ engine' \in 1..held /\ ~SaleOnItsWay
    BY <1>2 DEF EngineReads, Quiet
  <2>2. engine' <= held'
    BY <2>1, <1>still
  <2>3. (\A d \in Calls : ~Selling(d)) /\ \A i \in DOMAIN orders : ~WaitingSale(i)
    BY <2>1 DEF SaleOnItsWay, Selling, WaitingSale
  <2>4. \A d \in Calls : ~Selling(d)'
    BY <2>1, <2>3, <1>calls
  <2>5. \A i \in DOMAIN orders' : ~WaitingSale(i)'
    BY <2>1, <2>3 DEF WaitingSale, Pending
  <2>6. short' = 0
    BY <1>0, <2>1 DEF OneSale
  <2> QED BY <2>2, <2>4, <2>5, <2>6 DEF OneSale
<1>3. CASE EngineSells
  <2> DEFINE r == [side |-> "SELL", kind |-> "market", qty |-> engine]
  <2>1. r \in Shapes /\ Take(Engine, r) /\ r.side = "SELL" /\ r.qty = engine
        /\ Engine \in Sellers
    BY <1>3 DEF EngineSells, Shapes, RestOK, Sellers
  <2>2. engine > 0 /\ engine' = 0 /\ UNCHANGED <<pc, req, own>>
    BY <1>3 DEF EngineSells
  <2> HIDE DEF r
  <2>3. PICK o \in Orders : TakenAs(Engine, r, o)
    BY <2>1, TakeTakes, ToolsAssumption DEF AccountOK
  <2>4. /\ engine <= held
        /\ \A d \in Calls : ~Selling(d)
        /\ \A i \in DOMAIN orders : ~WaitingSale(i)
    BY <1>0, <2>2 DEF OneSale
  <2>5. \A d \in Calls : ~Selling(d)'
    BY <2>2, <2>4, <1>calls
  <2> QED BY <1>0, <2>1, <2>2, <2>3, <2>4, <2>5, SaleSubmitted
<1>trigger. CASE TriggerTrades
  <2>1. PICK r \in Momentum :
            Take(Trigger, r) /\ crowded' = (crowded \/ (r.side = "SELL" /\ SaleOnItsWay))
    BY <1>trigger DEF TriggerTrades
  <2>2. r \in Shapes /\ r.side \in {"BUY", "SELL"} /\ r.qty \in Nat /\ Trigger \in Sellers
    BY <2>1, ToolsAssumption DEF Shapes, Sellers
  <2>3. PICK o \in Orders : TakenAs(Trigger, r, o)
    BY <2>1, <2>2, TakeTakes, ToolsAssumption DEF AccountOK
  <2>4. UNCHANGED <<pc, req, own, engine>>
    BY <1>trigger DEF TriggerTrades
  <2>5. CASE r.side = "BUY"
    <3>1. /\ held' \in Nat /\ held <= held' /\ short' = short
          /\ \A i \in DOMAIN orders' : WaitingSale(i)' =>
               i \in DOMAIN orders /\ WaitingSale(i) /\ SameSale(i)
      BY <2>2, <2>3, <2>5, BuySubmitted
    <3> QED BY <1>0, <2>4, <3>1, <1>calls, NoNewSale
  <2>6. CASE r.side = "SELL"
    <3>1. ~SaleOnItsWay
      BY <2>1, <2>6 DEF Quiet
    <3>2. /\ \A d \in Calls : ~Selling(d)
          /\ \A i \in DOMAIN orders : ~WaitingSale(i)
          /\ ~(engine > 0)
      BY <3>1 DEF SaleOnItsWay, Selling, WaitingSale
    <3>3. short' = 0
      <4>1. CASE o.status = "filled"
        BY <1>0, <2>2, <2>3, <2>6, <4>1, ExecuteKeeps DEF TakenAs, AccountOK, OneSale
      <4>2. CASE o.status # "filled"
        BY <1>0, <2>3, <4>2 DEF TakenAs, Untouched, OneSale
      <4> QED BY <4>1, <4>2
    <3>4. \A i \in DOMAIN orders' : WaitingSale(i)' =>
              i = Len(orders) + 1 /\ orders'[i].by = Trigger
      BY <2>3, <3>2 DEF TakenAs, Grown, WaitingSale, Pending
    <3>5. (\A d \in Calls : ~Selling(d)') /\ ~(engine' > 0)
      BY <2>4, <3>2, <1>calls
    <3> QED BY <3>3, <3>4, <3>5 DEF OneSale
  <2> QED BY <2>2, <2>5, <2>6
<1>4. CASE CancelOrder
  <2>1. PICK i \in DOMAIN orders : Pending(i) /\ Withdraw(i)
    BY <1>4 DEF CancelOrder
  <2>2. Turned(i, "cancelled")
    BY <2>1, StatusTurns DEF AccountOK, Withdraw, Statuses
  <2>3. \A j \in DOMAIN orders' : WaitingSale(j)' =>
            j \in DOMAIN orders /\ WaitingSale(j) /\ SameSale(j)
    BY <2>2, TurnedWaitsNoMore
  <2>4. UNCHANGED <<held, short, engine, pc, req, own>>
    BY <1>4 DEF CancelOrder, history
  <2> QED BY <1>0, <1>still, <2>3, <2>4, <1>calls, NoNewSale
<1>5. ASSUME NEW c \in Calls, Ask(c) \/ Step(c) PROVE OneSale'
  BY <1>0, <1>5, GateOfCall
<1>6. CASE UNCHANGED vars
  <2>1. UNCHANGED <<held, orders, short, engine, pc, req, own>>
    BY <1>6 DEF vars
  <2>2. \A i \in DOMAIN orders' : WaitingSale(i)' =>
            i \in DOMAIN orders /\ WaitingSale(i) /\ SameSale(i)
    BY <2>1 DEF WaitingSale, Pending, SameSale
  <2> QED BY <1>0, <1>still, <2>1, <2>2, <1>calls, NoNewSale
<1> QED BY <1>1, <1>2, <1>3, <1>trigger, <1>4, <1>5, <1>6 DEF Next

------------------------------------------------------------------------------
\* The theorems.

LEMMA InvInit == Init => IInv
<1> SUFFICES ASSUME Init PROVE IInv
  OBVIOUS
<1>1. DOMAIN orders = {} /\ \A c \in Calls : pc[c] = "new"
  BY DEF Init
<1>2. Linked /\ Singular
  BY <1>1 DEF Linked, Singular, HasLimit
<1>3. OneSale
  <2>1. short = 0 /\ ~(engine > 0)
    BY DEF Init
  <2>2. \A c \in Calls : ~Selling(c)
    BY <1>1 DEF Selling, Checked
  <2> QED BY <1>1, <2>1, <2>2 DEF OneSale
<1> QED BY <1>2, <1>3, TypeInit DEF IInv

\* The invariant the results below rest on: a call knows its limit order, none of
\* its other orders is alive before it has ended, and, while no sale has met another
\* one, at most one is on its way and its shares are there.
THEOREM OrderToolsInvariant == Spec => []IInv
<1>1. Init => IInv
  BY InvInit
<1>2. IInv /\ [Next]_vars => IInv'
  BY TypeStep, TradeStep, GateStep DEF IInv
<1> QED BY <1>1, <1>2, PTL DEF Spec

\* The variables of place_order keep their types, for any calls and requests.
THEOREM TypesHold == Spec => []TypeOK
<1>1. IInv => TypeOK
  BY DEF IInv
<1> QED BY <1>1, OrderToolsInvariant, PTL

\* _smart_execution never leaves a call with two live orders, whatever the monitor,
\* the other calls and cancel_order do between its steps, unless the broker took the
\* limit order and did not name it in its answer, or took it and raised, or the
\* cancel of the limit order came too late or raised.
THEOREM CallsTradeOnce == Spec => []TradesOnce
<1>1. IInv => TradesOnce
  BY DEF IInv, Singular, TradesOnce
<1> QED BY <1>1, OrderToolsInvariant, PTL

\* An agent's call or a stop of the engine sells shares that are not held only after
\* one sale, a momentum trigger's too, was let through while another one was on its
\* way, or when a call may have traded twice.  What a momentum trigger sells itself
\* is not bounded by anything: it looks at no holding.
THEOREM OwnershipGate == Spec => []GateHolds
<1>1. IInv => GateHolds
  <2> SUFFICES ASSUME IInv, ~crowded, lost = {} PROVE ~(short > 0)
    BY DEF GateHolds
  <2>1. short = 0
    BY DEF IInv, Quiet, OneSale
  <2> QED BY <2>1
<1> QED BY <1>1, OrderToolsInvariant, PTL

================================================================================
