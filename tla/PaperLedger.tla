------------------------------ MODULE PaperLedger ------------------------------
(***************************************************************************)
(* The account that core/paper_broker.py keeps for paper trading, as a     *)
(* value, and the pure functions its methods apply to that value: what an  *)
(* order reserves, when a queued order triggers, what a fill does to cash  *)
(* and holdings, and what a restart makes of the file on disk.             *)
(*                                                                         *)
(* Money is counted in whole units of the account's currency.  Prices are  *)
(* native; a conversion multiplies by a rate.  The average native price    *)
(* and the split of realised P&L into a trading and an FX part are display *)
(* figures derived from the same numbers and are left out.                 *)
(***************************************************************************)
EXTENDS Integers, Sequences, FiniteSets

CONSTANTS Tickers,   \* instruments
          OrderIds   \* the uuids submit_order can draw

ASSUME TickersAssumption == IsFiniteSet(Tickers)

Kinds == {"market", "limit", "stop"}
Fates == {"none", "pending", "filled", "cancelled", "void"}

\* What a caller passes to submit_order.  trigger is the limit price of a limit
\* order or the stop price of a stop order; 0 stands for "not given".
OrderShape == [ticker: Tickers, side: {"BUY", "SELL"}, kind: Kinds,
               qty: Nat \ {0}, trigger: Nat]

Order == [id: OrderIds, ticker: Tickers, side: {"BUY", "SELL"}, kind: Kinds,
          qty: Nat \ {0}, trigger: Nat, reserved: Nat]

Position == [qty: Nat, basis: Nat]

\* The persisted fields, then four history fields that no code path reads:
\* base     the cash the account was opened with;
\* fate     what became of each order, and fills how often it was filled;
\* flow     the cash each order has moved so far;
\* unbacked the proceeds of sales that found nothing to sell;
\* overrun  by how much fills have exceeded their reservations.
Account == [cash: Int, pos: [Tickers -> Position], pending: Seq(Order),
            realised: Int, deposits: Nat, base: Nat,
            fate: [OrderIds -> Fates], fills: [OrderIds -> Nat],
            flow: [OrderIds -> Int], unbacked: Nat, overrun: Nat]

(***************************************************************************)
(* _State(cash_free=...): nothing held, nothing queued.  Orders that were  *)
(* still open when the account was replaced are void.                      *)
(***************************************************************************)
Fresh(cash, fate, fills) ==
    [cash |-> cash, pos |-> [t \in Tickers |-> [qty |-> 0, basis |-> 0]],
     pending |-> <<>>, realised |-> 0, deposits |-> 0, base |-> cash,
     fate |-> [i \in OrderIds |-> IF fate[i] = "pending" THEN "void" ELSE fate[i]],
     fills |-> fills, flow |-> [i \in OrderIds |-> 0],
     unbacked |-> 0, overrun |-> 0]

NewAccount(cash) ==
    Fresh(cash, [i \in OrderIds |-> "none"], [i \in OrderIds |-> 0])

(***************************************************************************)
(* Restart.  The file wins unless it is missing, or shows no activity      *)
(* while its cash is more than 1% away from the configured starting cash.  *)
(***************************************************************************)
HasActivity(d) ==
    \/ \E t \in Tickers : d.pos[t].qty > 0
    \/ d.pending # <<>>
    \/ d.deposits > 0
    \/ d.realised # 0

CashStale(d, cash) ==
    /\ cash > 0
    /\ \/ 100 * (d.cash - cash) > cash
       \/ 100 * (cash - d.cash) > cash

LoadState(exists, d, cash) ==
    IF ~exists \/ (~HasActivity(d) /\ CashStale(d, cash))
    THEN Fresh(cash, d.fate, d.fills)
    ELSE d

-----------------------------------------------------------------------------
(***************************************************************************)
(* Submitting.  live is the fresh quote, 0 when the feed has none.         *)
(***************************************************************************)
\* _GAP_BUFFER = 1.15
GapBuffer(amount) == (amount * 23) \div 20

\* _reservation_price, and the stop price on the STOP path
ReferencePrice(o, live) ==
    IF o.kind = "stop" \/ (o.kind = "limit" /\ o.side = "BUY" /\ o.trigger # 0)
    THEN o.trigger ELSE live

\* The order has to wait: stops always, anything while the exchange is closed,
\* a limit order the market has not reached.  ReferencePrice of a limit BUY is
\* its own limit, so its last disjunct never holds: the branch is dead code.
Waits(o, open, live) ==
    \/ o.kind = "stop"
    \/ ~open
    \/ /\ o.kind = "limit" /\ o.trigger # 0
       /\ \/ o.side = "SELL" /\ live < o.trigger
          \/ o.side = "BUY" /\ ReferencePrice(o, live) > o.trigger

\* "no live price", "no reference price", "requires a positive stop_price"
Unpriced(o, open, live) ==
    /\ ReferencePrice(o, live) = 0
    /\ o.kind = "stop" \/ o.side = "BUY" \/ open

\* Cash taken from cash_free when the order is accepted.
Debit(o, open, live, rate) ==
    LET amount == ReferencePrice(o, live) * o.qty * rate
    IN  IF o.side = "SELL" THEN 0
        ELSE IF o.kind = "stop" \/ ~open THEN GapBuffer(amount)
        ELSE amount

\* Mutant: any cash at all is enough.
AffordableOnAnyCash(a, o, debit) == o.side = "SELL" \/ a.cash > 0

Affordable(a, o, debit) == o.side = "SELL" \/ debit <= a.cash

\* The cash leg that submit_order runs before it queues or fills.
TakeCash(a, id, debit) ==
    [a EXCEPT !.cash = @ - debit, !.flow[id] = @ - debit]

\* A shape that became an order.
MakeOrder(o, id, debit) ==
    [id |-> id, ticker |-> o.ticker, side |-> o.side, kind |-> o.kind,
     qty |-> o.qty, trigger |-> o.trigger, reserved |-> debit]

\* _enqueue_order
Enqueue(a, o) ==
    [a EXCEPT !.pending = Append(@, o), !.fate[o.id] = "pending"]

-----------------------------------------------------------------------------
(***************************************************************************)
(* Queued orders.                                                          *)
(***************************************************************************)
\* The trigger rules of _reconcile_pending.
Triggered(o, open, px) ==
    /\ open
    /\ px > 0
    /\ CASE o.kind = "market" -> TRUE
         [] o.kind = "limit" /\ o.side = "BUY"  -> px <= o.trigger
         [] o.kind = "limit" /\ o.side = "SELL" -> px >= o.trigger
         [] o.kind = "stop"  /\ o.side = "BUY"  -> o.trigger > 0 /\ px >= o.trigger
         [] OTHER -> o.trigger > 0 /\ px <= o.trigger

\* Mutant: what the order reserved beyond its cost is not given back.
BuyKeepingSurplus(a, o, cost) ==
    [a EXCEPT !.pos[o.ticker] = [qty |-> @.qty + o.qty, basis |-> @.basis + cost],
              !.cash = IF cost > o.reserved THEN @ + o.reserved - cost ELSE @,
              !.overrun = IF cost > o.reserved THEN @ + (cost - o.reserved) ELSE @]

Buy(a, o, cost) ==
    [a EXCEPT !.cash = @ + o.reserved - cost,
              !.flow[o.id] = @ + o.reserved - cost,
              !.pos[o.ticker] = [qty |-> @.qty + o.qty, basis |-> @.basis + cost],
              !.overrun = IF cost > o.reserved THEN @ + (cost - o.reserved) ELSE @]

\* The share of the cost basis that leaves with the sold quantity; the code
\* works in floats, here a fraction of a unit stays with the position.
CostOut(p, qty) == IF qty >= p.qty THEN p.basis ELSE (p.basis * qty) \div p.qty

Sell(a, o, proceeds) ==
    LET p == a.pos[o.ticker]
        out == CostOut(p, o.qty)
        paid == [a EXCEPT !.cash = @ + proceeds, !.flow[o.id] = @ + proceeds]
    IN  IF p.qty > 0
        THEN [paid EXCEPT
                !.realised = @ + proceeds - out,
                !.pos[o.ticker] =
                    [qty |-> IF o.qty >= p.qty THEN 0 ELSE p.qty - o.qty,
                     basis |-> p.basis - out]]
        ELSE [paid EXCEPT !.unbacked = @ + proceeds]

Execute(a, id) == [a EXCEPT !.fate[id] = "filled", !.fills[id] = @ + 1]

\* _fill_order, up to its audit row
FillOrder(a, o, px, rate) ==
    LET cost == px * o.qty * rate
        done == Execute(a, o.id)
    IN  IF o.side = "BUY" THEN Buy(done, o, cost) ELSE Sell(done, o, cost)

\* Mutant: the reservation is given back but the order stays in the queue.
CancelInPlace(a, k) ==
    LET o == a.pending[k]
        refund == IF o.side = "BUY" THEN o.reserved ELSE 0
    IN  [a EXCEPT !.fate[o.id] = "cancelled",
                  !.cash = @ + refund, !.flow[o.id] = @ + refund]

\* cancel_order: leave the queue, give the reservation back
CancelOrder(a, k) ==
    LET o == a.pending[k]
        refund == IF o.side = "BUY" THEN o.reserved ELSE 0
    IN  [a EXCEPT !.pending = SubSeq(@, 1, k - 1) \o SubSeq(@, k + 1, Len(@)),
                  !.fate[o.id] = "cancelled",
                  !.cash = @ + refund, !.flow[o.id] = @ + refund]

\* Mutant: the reservation follows the new trigger, the cash does not.
ModifyRepriced(a, k, trigger) ==
    [a EXCEPT !.pending[k].trigger = trigger,
              !.pending[k].reserved = GapBuffer(trigger * a.pending[k].qty)]

\* modify_order: the price the order waits for changes, its reservation does not
ModifyOrder(a, k, trigger) == [a EXCEPT !.pending[k].trigger = trigger]

\* deposit
Credit(a, amount) == [a EXCEPT !.cash = @ + amount, !.deposits = @ + amount]

=============================================================================
