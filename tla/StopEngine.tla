------------------------------ MODULE StopEngine -------------------------------
(***************************************************************************)
(* core/stop_engine.py, class StopEngine: the thread that watches the      *)
(* stops of the paper account and sells when one is reached, and the       *)
(* momentum triggers, which buy or sell.  Each tick works on a snapshot of *)
(* both lists, one price per ticker and one entry after the other, while   *)
(* agents change the lists (core/agent/tools/stop_tools.py and             *)
(* momentum_tools.py) and trade.  The paper broker is what the engine sees *)
(* of it: a holding, the two lists, market orders that fill, wait for the  *)
(* opening or are refused, and the state file, which every change writes   *)
(* and a restart reads.  One ticker: those of different tickers meet only  *)
(* in the tick's order.                                                    *)
(***************************************************************************)
EXTENDS Integers, Sequences, FiniteSets

CONSTANTS EntryIds,   \* ids of stops and triggers, never drawn twice
          Shapes,     \* what they ask for as stops: kinds, quantities, levels
          Orders,     \* and as triggers: actions, quantities
          Prices,     \* prices of the ticker
          MaxHeld,    \* bound on the holding
          MaxFaults,  \* bound on writes of the broker that fail
          MaxRestarts \* bound on ends of the process, crashes or not

Kinds == {"stop_loss", "take_profit", "trailing_stop"}
\* level is the trigger price, or the distance of a trailing stop.
StopShape == [kind : Kinds, qty : Nat \ {0}, level : Nat \ {0}]
Order == [action : {"buy", "sell"}, qty : Nat \ {0}]

ASSUME StopAssumption ==
    /\ IsFiniteSet(EntryIds)
    /\ Shapes \in [EntryIds -> SUBSET StopShape]
    /\ Orders \in [EntryIds -> SUBSET Order]
    /\ Prices \subseteq Nat \ {0}
    /\ MaxHeld \in Nat /\ MaxFaults \in Nat /\ MaxRestarts \in Nat

\* A stop of the list, and the copies of it in a snapshot.  high_water_mark is 0
\* until the first tick has seen a price.
Stop == [id : EntryIds, kind : Kinds, qty : Nat \ {0}, level : Nat \ {0},
         high_water_mark : Nat]
Trigger == [id : EntryIds, action : {"buy", "sell"}, qty : Nat \ {0}]

VARIABLES
    price,         \* the last trade
    held,          \* quantity of the paper position
    queue,         \* the engine's orders waiting for the opening, sales negative
    active_stops,  \* the stop list, in the order it was filled
    momentum_triggers,  \* the list of triggers
    file,          \* what the state file has of the four
    lapsed,        \* triggers whose ttl has passed
    pc,            \* where the engine's thread is
    todo,          \* rest of the tick's snapshot of the stops
    triggers,      \* rest of its snapshot of the triggers
    quote,         \* the tick's price, 0 when there is none or no stop is left for it
    sell_qty,      \* quantity about to be sold
    answer,        \* what submit_order has returned for the first entry
    fired,         \* ids of the stops that the tick will say have fired
    faults,
    restarts,
    \* History.
    used,          \* ids drawn so far
    trades,        \* orders of an id that the broker took
    again,         \* times an id that was traded for was left armed, or in the file
    cancelled,     \* ids that a cancel_stop or cancel_momentum_trigger said it removed
    dead           \* those removed before the last tick began

lists == <<active_stops, momentum_triggers>>
broker == <<price, held, queue, lists>>
tick == <<todo, triggers, quote, sell_qty, answer, fired>>
engine == <<pc, tick>>
storage == <<file, faults, restarts>>
history == <<trades, again, cancelled, dead>>
vars == <<broker, lapsed, engine, storage, used, history>>

Ids(list) == {list[i].id : i \in DOMAIN list}
Armed == Ids(active_stops)
Current == IF pc = "remove" THEN Head(todo).id ELSE Head(triggers).id
LowerOf(a, b) == IF a < b THEN a ELSE b

\* What _save_state writes.  A save that fails leaves the file as it was, and the
\* change in memory.
Memory == [held |-> held, queue |-> queue, stops |-> active_stops,
           triggers |-> momentum_triggers]
Saved == file' = Memory' /\ faults' = faults
NotSaved == faults < MaxFaults /\ faults' = faults + 1 /\ file' = file
NothingToSave == file' = file /\ faults' = faults
Save == Saved \/ NotSaved

Init ==
    /\ price \in Prices /\ held = 0 /\ queue = <<>>
    /\ active_stops = <<>> /\ momentum_triggers = <<>> /\ lapsed = {}
    /\ pc = "off" /\ todo = <<>> /\ triggers = <<>> /\ quote = 0 /\ sell_qty = 0
    /\ answer = "none" /\ fired = {}
    /\ file = Memory /\ faults = 0 /\ restarts = 0 /\ used = {}
    /\ trades = [i \in EntryIds |-> 0] /\ again = [i \in EntryIds |-> 0]
    /\ cancelled = {} /\ dead = {}

-----------------------------------------------------------------------------
(* The market, the clock and the agents.                                   *)

Move ==
    /\ price' \in Prices \ {price}
    /\ UNCHANGED <<held, queue, lists, lapsed, engine, storage, used, history>>

\* The ttl of a trigger passes; those that left the list are of no interest.
Lapse(i) ==
    /\ i \in Ids(momentum_triggers) \ lapsed
    /\ lapsed' = lapsed \cup {i}
    /\ UNCHANGED <<broker, engine, storage, used, history>>

\* The agents trade the same position, here without a queue of their own.
Trade ==
    /\ held' \in (0 .. MaxHeld) \ {held}
    /\ UNCHANGED <<price, queue, lists, lapsed, engine, restarts, used, history>>
    /\ Save

\* set_stop_loss, set_take_profit, set_trailing_stop: add_stop appends.  Nothing
\* asks whether the position is held.
SetStop(i, shape) ==
    /\ i \notin used /\ used' = used \cup {i}
    /\ active_stops' = Append(active_stops,
            [id |-> i, kind |-> shape.kind, qty |-> shape.qty,
             level |-> shape.level, high_water_mark |-> 0])
    /\ UNCHANGED <<price, held, queue, momentum_triggers, lapsed, engine,
                   restarts, history>>
    /\ Save

\* set_momentum_trigger: add_momentum_trigger appends.
SetTrigger(i, order) ==
    /\ i \notin used /\ used' = used \cup {i}
    /\ momentum_triggers' = Append(momentum_triggers,
            [id |-> i, action |-> order.action, qty |-> order.qty])
    /\ UNCHANGED <<price, held, queue, active_stops, lapsed, engine,
                   restarts, history>>
    /\ Save

\* update_stop, if there is a stop with this id: its mark, or its level and quantity.
WithMark(stops, i, mark) ==
    [k \in DOMAIN stops |->
        IF stops[k].id = i THEN [stops[k] EXCEPT !.high_water_mark = mark] ELSE stops[k]]
WithLevel(stops, i, shape) ==
    [k \in DOMAIN stops |->
        IF stops[k].id = i THEN [stops[k] EXCEPT !.level = shape.level, !.qty = shape.qty]
        ELSE stops[k]]

\* remove_stop, remove_momentum_trigger: the first with this id, if there is one.
Removed(list, i) ==
    IF i \notin Ids(list) THEN list
    ELSE LET k == CHOOSE k \in DOMAIN list :
                    list[k].id = i /\ \A j \in 1 .. k - 1 : list[j].id # i
         IN  SubSeq(list, 1, k - 1) \o SubSeq(list, k + 1, Len(list))

\* adjust_stop: a new level or quantity for the kind of stop it is.
AdjustStop(i, shape) ==
    /\ \E k \in DOMAIN active_stops :
          active_stops[k].id = i /\ active_stops[k].kind = shape.kind
    /\ active_stops' = WithLevel(active_stops, i, shape)
    /\ UNCHANGED <<price, held, queue, momentum_triggers, lapsed, engine,
                   restarts, used, history>>
    /\ Save

\* cancel_stop, cancel_momentum_trigger, which raise when the save does.  What the
\* running tick has in its snapshot may still fire.
Cancel(i) ==
    /\ \/ i \in Armed /\ active_stops' = Removed(active_stops, i)
          /\ UNCHANGED momentum_triggers
       \/ i \in Ids(momentum_triggers)
          /\ momentum_triggers' = Removed(momentum_triggers, i)
          /\ UNCHANGED active_stops
    /\ UNCHANGED <<price, held, queue, lapsed, engine, restarts, used,
                   trades, again, dead>>
    /\ \/ Saved /\ cancelled' = cancelled \cup {i}
       \/ NotSaved /\ cancelled' = cancelled

\* An order of the engine is executed: what is not held is sold all the same, and
\* MaxHeld bounds what is bought.
Execute(n) ==
    held' = IF held + n < 0 THEN 0 ELSE LowerOf(held + n, MaxHeld)

\* The broker's monitor fills the orders that waited for the opening.
FillQueued ==
    /\ queue # <<>>
    /\ Execute(Head(queue)) /\ queue' = Tail(queue)
    /\ UNCHANGED <<price, lists, lapsed, engine, restarts, used, history>>
    /\ Save

-----------------------------------------------------------------------------
(* The engine's tick: the stops.                                           *)

\* The tick works on a snapshot of both lists.  When they are empty it is over.
BeginTick ==
    /\ pc = "idle" /\ pc' = "fetch"
    /\ active_stops # <<>> \/ momentum_triggers # <<>>
    /\ todo' = active_stops /\ triggers' = momentum_triggers
    /\ fired' = {} /\ dead' = cancelled
    /\ UNCHANGED <<broker, lapsed, quote, sell_qty, answer, storage, used,
                   trades, again, cancelled>>

\* _fetch_prices.
Fetch ==
    /\ pc = "fetch" /\ pc' = "next" /\ quote' = price
    /\ UNCHANGED <<broker, lapsed, todo, triggers, sell_qty, answer, fired, storage,
                   used, history>>

\* The feed fails or has no price: every stop of the tick is passed over.
FetchFails ==
    /\ pc = "fetch" /\ pc' = "next" /\ todo' = <<>>
    /\ UNCHANGED <<broker, lapsed, triggers, quote, sell_qty, answer, fired, storage,
                   used, history>>

\* Mutant: the mark falls with the price too.
MarkedBothWays(s) ==
    IF s.kind = "trailing_stop" THEN [s EXCEPT !.high_water_mark = quote] ELSE s

\* A trailing stop's mark rises with the price.
Marked(s) ==
    IF s.kind = "trailing_stop" /\ quote > s.high_water_mark
    THEN [s EXCEPT !.high_water_mark = quote] ELSE s

\* evaluate_stop.
Reached(s, px) ==
    \/ s.kind = "stop_loss" /\ px <= s.level
    \/ s.kind = "take_profit" /\ px >= s.level
    \/ /\ s.kind = "trailing_stop" /\ s.high_water_mark > 0
       /\ px <= s.high_water_mark - s.level

\* A raised mark goes into the list too, if the stop is still there.
Raises(s) == s # Head(todo) /\ s.id \in Armed
RaiseMark(s) ==
    /\ active_stops' = WithMark(active_stops, s.id, s.high_water_mark)
    /\ UNCHANGED <<held, queue, momentum_triggers>>
KeepMark(s) ==
    IF Raises(s) THEN RaiseMark(s) /\ Saved
    ELSE UNCHANGED <<held, queue, lists>> /\ NothingToSave

\* Mutant: a stop that is not in the list any more is put back.
EvaluateAndPutBack ==
    LET s == Marked(Head(todo)) IN
    /\ pc = "next" /\ todo # <<>>
    /\ UNCHANGED <<held, queue, momentum_triggers>>
    /\ active_stops' = IF s.id \in Armed
                       THEN WithMark(active_stops, s.id, s.high_water_mark)
                       ELSE Append(active_stops, s)
    /\ Saved
    /\ quote' = IF Len(todo) = 1 THEN 0 ELSE quote
    /\ IF Reached(s, quote) THEN pc' = "held" /\ todo' = <<s>> \o Tail(todo)
                            ELSE pc' = "next" /\ todo' = Tail(todo)
    /\ UNCHANGED <<price, lapsed, triggers, sell_qty, answer, fired, restarts,
                   used, history>>

\* Mutant: the first stop that is not reached ends the tick.
EvaluateFirst ==
    LET s == Marked(Head(todo)) IN
    /\ pc = "next" /\ todo # <<>>
    /\ KeepMark(s)
    /\ quote' = IF Len(todo) = 1 THEN 0 ELSE quote
    /\ IF Reached(s, quote) THEN pc' = "held" /\ todo' = <<s>> \o Tail(todo)
                            ELSE pc' = "next" /\ todo' = <<>>
    /\ UNCHANGED <<price, lapsed, triggers, sell_qty, answer, fired, restarts,
                   used, history>>

\* One stop of the snapshot: raise its mark, and see whether it is reached.
Evaluate ==
    LET s == Marked(Head(todo)) IN
    /\ pc = "next" /\ todo # <<>>
    /\ KeepMark(s)
    /\ quote' = IF Len(todo) = 1 THEN 0 ELSE quote
    /\ IF Reached(s, quote) THEN pc' = "held" /\ todo' = <<s>> \o Tail(todo)
                            ELSE pc' = "next" /\ todo' = Tail(todo)
    /\ UNCHANGED <<price, lapsed, triggers, sell_qty, answer, fired, restarts,
                   used, history>>

\* _held_qty: a position that is not there, or cannot be read, counts as zero.
ReadHeld ==
    /\ pc = "held"
    /\ \E h \in {0, held} :
          /\ sell_qty' = LowerOf(Head(todo).qty, h)
          /\ pc' = IF h > 0 THEN "submit" ELSE "remove"
    /\ UNCHANGED <<broker, lapsed, todo, triggers, quote, answer, fired, storage,
                   used, history>>

\* Mutant: the stop is kept until the sale is filled.
AfterSaleFilled(a) ==
    /\ pc' = IF a = "FILLED" THEN "remove" ELSE "next"
    /\ answer' = (IF a = "FILLED" THEN a ELSE "none") /\ sell_qty' = 0
    /\ todo' = IF a = "FILLED" THEN todo ELSE Tail(todo)
    /\ triggers' = triggers

\* What _fire_stop does with submit_order's answer: any but an exception counts
\* as a sale.
AfterSale(a) ==
    /\ pc' = IF a = "error" THEN "next" ELSE "remove"
    /\ answer' = (IF a = "error" THEN "none" ELSE a) /\ sell_qty' = 0
    /\ todo' = IF a = "error" THEN Tail(todo) ELSE todo
    /\ triggers' = triggers

\* _evaluate_momentum_trigger does the same.
AfterTrade(a) ==
    /\ pc' = IF a = "error" THEN "next" ELSE "disarm"
    /\ answer' = IF a = "error" THEN "none" ELSE a
    /\ triggers' = IF a = "error" THEN Tail(triggers) ELSE triggers
    /\ UNCHANGED <<todo, sell_qty>>

\* The broker takes the order: it fills while the exchange is open, and waits for
\* the opening otherwise.
Taken(i, n, a) ==
    /\ trades' = [trades EXCEPT ![i] = @ + 1]
    /\ \/ a = "FILLED" /\ Execute(n) /\ queue' = queue
       \/ a = "QUEUED" /\ held' = held /\ queue' = Append(queue, n)

\* It refuses an order it has no price for, or that the cash does not cover.
Refused == UNCHANGED <<held, queue, trades>>

Submit ==
    /\ pc = "submit" /\ UNCHANGED lists
    /\ \/ \E a \in {"FILLED", "QUEUED"} :
             Taken(Head(todo).id, -sell_qty, a) /\ Saved /\ AfterSale(a)
       \/ Refused /\ NothingToSave /\ AfterSale("REJECTED")
    /\ UNCHANGED <<price, lapsed, quote, fired, restarts, used, again,
                   cancelled, dead>>

\* submit_order raises before it has changed anything; the stop stays.
SubmitFails ==
    /\ pc = "submit" /\ AfterSale("error")
    /\ UNCHANGED <<broker, lapsed, quote, fired, storage, used, history>>

\* The order is taken, and the state file or, after it, the audit row cannot be
\* written.
TakenLate(i, n) ==
    /\ UNCHANGED lists
    /\ \E a \in {"FILLED", "QUEUED"} : Taken(i, n, a)
    /\ faults < MaxFaults /\ faults' = faults + 1 /\ file' \in {file, Memory'}
    /\ again' = [again EXCEPT ![i] = @ + 1]

\* submit_order raises after it took the order; the stop stays.
SubmitFailsLate ==
    /\ pc = "submit"
    /\ TakenLate(Head(todo).id, -sell_qty) /\ AfterSale("error")
    /\ UNCHANGED <<price, lapsed, quote, fired, restarts, used, cancelled, dead>>

\* An id that is out of its list after its order was taken, and still in the file:
\* the next start may arm it again.
Traded == answer \in {"FILLED", "QUEUED"}
Counted(i) ==
    IF Traded /\ i \in Ids(file'.stops) \cup Ids(file'.triggers)
    THEN [again EXCEPT ![i] = @ + 1] ELSE again

\* remove_stop, and the stop counts as fired when a sale was submitted.
RemoveStop ==
    LET i == Head(todo).id IN
    /\ pc = "remove" /\ pc' = "next"
    /\ active_stops' = Removed(active_stops, i)
    /\ fired' = IF answer = "none" THEN fired ELSE fired \cup {i}
    /\ todo' = Tail(todo) /\ answer' = "none"
    /\ UNCHANGED <<price, held, queue, momentum_triggers, lapsed, triggers,
                   quote, sell_qty, restarts, used, trades, cancelled, dead>>
    /\ IF i \in Armed THEN Saved ELSE NothingToSave
    /\ again' = Counted(i)

-----------------------------------------------------------------------------
(* The engine's tick: the triggers.                                        *)

\* remove_momentum_trigger: it saves when there is something to remove.
Disarm(i) ==
    /\ momentum_triggers' = Removed(momentum_triggers, i)
    /\ IF i \in Ids(momentum_triggers) THEN Saved ELSE NothingToSave

\* _evaluate_momentum_trigger: one whose ttl has passed is dropped; of another the
\* move of the last ten seconds, which outlives a failed feed, crosses or not.
EvaluateTrigger ==
    LET i == Head(triggers).id IN
    /\ pc = "next" /\ todo = <<>> /\ triggers # <<>>
    /\ UNCHANGED <<price, held, queue, active_stops, lapsed, todo, quote,
                   sell_qty, answer, fired, restarts, used, history>>
    /\ \/ /\ i \in lapsed
          /\ Disarm(i)
          /\ pc' = pc /\ triggers' = Tail(triggers)
       \/ /\ i \notin lapsed /\ UNCHANGED momentum_triggers /\ NothingToSave
          /\ \/ pc' = pc /\ triggers' = Tail(triggers)
             \/ pc' = "trade" /\ triggers' = triggers

\* What the order buys or, whether it is held or not, sells.
Signed(order) == IF order.action = "buy" THEN order.qty ELSE -order.qty

SubmitTrade ==
    LET t == Head(triggers) IN
    /\ pc = "trade" /\ UNCHANGED lists
    /\ \/ \E a \in {"FILLED", "QUEUED"} :
             Taken(t.id, Signed(t), a) /\ Saved /\ AfterTrade(a)
       \/ Refused /\ NothingToSave /\ AfterTrade("REJECTED")
    /\ UNCHANGED <<price, lapsed, quote, fired, restarts, used, again,
                   cancelled, dead>>

\* As for the stops, the broker raises before or after it has taken the order.
TradeFails ==
    LET t == Head(triggers) IN
    /\ pc = "trade" /\ AfterTrade("error")
    /\ \/ UNCHANGED <<held, queue, lists, trades, again>> /\ NothingToSave
       \/ TakenLate(t.id, Signed(t))
    /\ UNCHANGED <<price, lapsed, quote, fired, restarts, used, cancelled, dead>>

RemoveTrigger ==
    /\ pc = "disarm" /\ pc' = "next"
    /\ triggers' = Tail(triggers) /\ answer' = "none"
    /\ UNCHANGED <<price, held, queue, active_stops, lapsed, todo, quote,
                   sell_qty, fired, restarts, used, trades, cancelled, dead>>
    /\ Disarm(Head(triggers).id)
    /\ again' = Counted(Head(triggers).id)

-----------------------------------------------------------------------------
(* The end of a tick, and of the process.                                  *)

EndTick ==
    /\ pc = "next" /\ todo = <<>> /\ triggers = <<>>
    /\ pc' = "idle" /\ quote' = 0 /\ fired' = {}
    /\ UNCHANGED <<broker, lapsed, todo, triggers, sell_qty, answer, storage, used,
                   history>>

TickLost ==
    /\ todo' = <<>> /\ triggers' = <<>> /\ quote' = 0 /\ sell_qty' = 0
    /\ answer' = "none" /\ fired' = {}

\* A change of a list raises because the state file cannot be written: the list has
\* changed in memory, run() logs the error and the rest of the tick is lost.
TickAborts ==
    LET s == Marked(Head(todo))
        i == Head(triggers).id
    IN
    /\ NotSaved
    /\ \/ /\ pc = "next" /\ todo # <<>> /\ Raises(s)
          /\ RaiseMark(s) /\ again' = again
       \/ /\ pc = "remove" /\ s.id \in Armed
          /\ active_stops' = Removed(active_stops, s.id)
          /\ momentum_triggers' = momentum_triggers
          /\ again' = Counted(s.id)
       \/ /\ \/ pc = "next" /\ todo = <<>> /\ triggers # <<>> /\ i \in lapsed
             \/ pc = "disarm"
          /\ i \in Ids(momentum_triggers)
          /\ momentum_triggers' = Removed(momentum_triggers, i)
          /\ active_stops' = active_stops
          /\ again' = Counted(i)
    /\ pc' = "idle" /\ TickLost
    /\ UNCHANGED <<price, held, queue, lapsed, restarts, used, trades,
                   cancelled, dead>>

\* start_stop_engine.
StartEngine ==
    /\ pc = "off" /\ pc' = "idle"
    /\ UNCHANGED <<broker, lapsed, tick, storage, used, history>>

\* What a start makes of the state file.  An account that has not traded, as far as
\* the file shows, is built anew when its cash is not the configured one, and its
\* stops and triggers go with it.
Loaded ==
    \/ /\ held' = file.held /\ queue' = file.queue
       /\ active_stops' = file.stops /\ momentum_triggers' = file.triggers
    \/ /\ file.held = 0 /\ file.queue = <<>>
       /\ held' = 0 /\ queue' = <<>>
       /\ active_stops' = <<>> /\ momentum_triggers' = <<>>

\* The process ends, by a crash or not, and comes back; the tick is gone.
Restart ==
    /\ restarts < MaxRestarts /\ restarts' = restarts + 1
    /\ NothingToSave /\ Loaded
    /\ again' = Counted(Current)
    /\ pc' = "off" /\ TickLost
    /\ UNCHANGED <<price, lapsed, used, trades, cancelled, dead>>

Tick ==
    \/ BeginTick \/ Fetch \/ FetchFails \/ Evaluate \/ ReadHeld
    \/ Submit \/ SubmitFails \/ SubmitFailsLate \/ RemoveStop
    \/ EvaluateTrigger \/ SubmitTrade \/ TradeFails \/ RemoveTrigger
    \/ TickAborts \/ EndTick

Next ==
    \/ Move \/ Trade \/ FillQueued
    \/ \E i \in EntryIds :
          \/ \E shape \in Shapes[i] : SetStop(i, shape) \/ AdjustStop(i, shape)
          \/ \E order \in Orders[i] : SetTrigger(i, order)
          \/ Lapse(i) \/ Cancel(i)
    \/ Tick
    \/ StartEngine \/ Restart

\* The thread runs, the supervisor's start has started it, and neither the feed
\* nor the broker fails every time it is asked.
Fairness ==
    /\ WF_vars(Tick) /\ WF_vars(StartEngine)
    /\ SF_vars(Fetch)
    /\ \A i \in EntryIds : SF_vars(Submit /\ Head(todo).id = i)

Spec == Init /\ [][Next]_vars /\ Fairness

-----------------------------------------------------------------------------
(* Properties.                                                             *)

Stations == {"off", "idle", "fetch", "next", "held", "submit", "remove", "trade",
             "disarm"}

Unique(list) == \A j, k \in DOMAIN list : list[j].id = list[k].id => j = k

\* Types, and no stop or trigger is in its list, or in a snapshot, twice.
TypeOK ==
    /\ price \in Prices /\ held \in 0 .. MaxHeld
    /\ queue \in Seq(Int \ {0})
    /\ active_stops \in Seq(Stop) /\ todo \in Seq(Stop)
    /\ momentum_triggers \in Seq(Trigger) /\ triggers \in Seq(Trigger)
    /\ Unique(active_stops) /\ Unique(todo)
    /\ Unique(momentum_triggers) /\ Unique(triggers)
    /\ file \in [held : 0 .. MaxHeld, queue : Seq(Int \ {0}), stops : Seq(Stop),
                 triggers : Seq(Trigger)]
    /\ Unique(file.stops) /\ Unique(file.triggers)
    /\ Armed \cup Ids(momentum_triggers) \subseteq used /\ lapsed \subseteq EntryIds
    /\ Ids(file.stops) \cup Ids(file.triggers) \subseteq used
    /\ pc \in Stations /\ quote \in Prices \cup {0} /\ sell_qty \in Nat
    /\ pc \in {"held", "submit", "remove"} => todo # <<>>
    /\ pc \in {"trade", "disarm"} => triggers # <<>>
    /\ pc = "submit" => sell_qty > 0
    /\ answer \in {"none", "FILLED", "QUEUED", "REJECTED"}
    /\ fired \subseteq EntryIds /\ faults \in 0 .. MaxFaults
    /\ restarts \in 0 .. MaxRestarts
    /\ used \subseteq EntryIds /\ cancelled \cup dead \subseteq used
    /\ trades \in [EntryIds -> Nat] /\ again \in [EntryIds -> Nat]

\* "a single trigger only fires once per arming", and so does a stop, however it was
\* adjusted or cancelled meanwhile.  Once more for each time that its order was taken
\* and: the broker raised afterwards; or the process ended, or the save of its removal
\* or of its cancellation had failed, and the state file still had it.
FiresOnce == \A i \in EntryIds : trades[i] <= 1 + again[i]

\* What a cancel_stop or cancel_momentum_trigger that returned has removed is out of
\* the engine's reach from the next tick on, in this process and after a restart: only
\* the tick that was running may still trade for it.
CancelTakesEffect == [][\A i \in dead : trades'[i] = trades[i]]_vars

\* "We never raise a trailing stop — only the high-water mark moves up": no tick,
\* adjustment or failing save takes back a mark that was reached, and no restart one
\* that was saved.  A mark whose save failed is lost with the process.
NoLower(stops, later) ==
    \A k \in DOMAIN stops, m \in DOMAIN later :
        later[m].id = stops[k].id => later[m].high_water_mark >= stops[k].high_water_mark

MarkOnlyRises ==
    [][/\ NoLower(file.stops, file'.stops)
       /\ restarts' = restarts => NoLower(active_stops, active_stops')]_vars

\* The agents move the level of a stop.
LevelMoved(i) ==
    \E k \in DOMAIN active_stops \cap DOMAIN active_stops' :
        /\ active_stops[k].id = i /\ active_stops'[k].id = i
        /\ active_stops[k].level # active_stops'[k].level

\* A stop of the list that is reached, a trigger of the list whose ttl has passed.
Due(i) ==
    \/ \E k \in DOMAIN active_stops :
          active_stops[k].id = i /\ Reached(active_stops[k], price)
    \/ i \in lapsed \cap Ids(momentum_triggers)

\* What is due and stays due does not stay in its list, whatever the tick has before
\* it and however often feed or broker fail, unless the agents keep moving the level.
NothingLingers == \A i \in EntryIds : []<>~Due(i) \/ []<><<LevelMoved(i)>>_vars

\* _fire_stop: "Returns True when a sell actually went through, False otherwise
\* (orphan stop with no position, or broker rejection)".
NoPhantomFill == [][answer = "REJECTED" => fired' \subseteq fired]_vars

\* _fire_stop: "Cap by held quantity so a stale stop on a position the agent has
\* already partially exited can't oversell."
EngineNeverOversells ==
    [][/\ trades' # trades /\ pc = "submit" /\ queue' = queue => sell_qty <= held
       /\ Len(queue') < Len(queue) => held + Head(queue) >= 0]_vars

=============================================================================
