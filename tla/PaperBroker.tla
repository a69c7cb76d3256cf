------------------------------ MODULE PaperBroker ------------------------------
(***************************************************************************)
(* core/paper_broker.py, class PaperBroker: the public calls that several  *)
(* threads make (agents, the stop engine, the desktop, the one-second      *)
(* monitor), each under the broker's lock, with the state file and the     *)
(* audit file they write.  A call is split where a crash or a failing      *)
(* write is seen: between two fills of one reconciliation pass, between    *)
(* the audit row and the save, and between the save and the audit row.     *)
(***************************************************************************)
EXTENDS PaperLedger, SequencesExt

CONSTANTS Shapes,         \* the orders callers submit
          Prices,         \* native quotes of the feed; 0 is "no quote"
          Rates,          \* FX rates from native to account currency
          Triggers,       \* prices modify_order is given
          StartingCash,   \* values of the starting cash in config.json
          Deposits,       \* amounts passed to deposit
          MaxDeposits,    \* bound: total deposited into one account
          Faults          \* a subset of {"crash", "audit", "save"}

ASSUME ConstantsAssumption ==
    /\ Shapes \subseteq OrderShape
    /\ Prices \subseteq Nat
    /\ Rates \subseteq Nat \ {0}
    /\ Triggers \subseteq Nat
    /\ StartingCash \subseteq Nat
    /\ Deposits \subseteq Nat \ {0}
    /\ MaxDeposits \in Nat

VARIABLES mem,    \* self._state
          disk,   \* the account in paper_state.json
          exists, \* there is such a file
          audit,  \* the status of each order's latest row in paper_orders.jsonl
          born,   \* self._starting_cash
          pc,     \* where the call that holds self._lock stands; "idle" if none
          call,   \* that call
          pass,   \* the locals of its _reconcile_pending
          used,   \* order ids drawn so far
          behind  \* history: memory holds what could not be written

vars == <<mem, disk, exists, audit, born, pc, call, pass, used, behind>>

Statuses == {"none", "QUEUED", "FILLED", "CANCELLED", "MODIFIED", "REJECTED"}

NoCall == [name |-> "none"]
NoPass == [todo |-> <<>>, keep |-> <<>>, dirty |-> FALSE,
           px |-> [t \in Tickers |-> 0]]

Calls == [name: {"read"}]
         \cup [name: {"submit"}, order: Shapes]
         \cup [name: {"cancel"}, id: OrderIds]
         \cup [name: {"modify"}, id: OrderIds, trigger: Triggers]

Init == /\ \E cash \in StartingCash : born = cash /\ mem = NewAccount(cash)
        /\ disk = mem /\ exists = FALSE
        /\ audit = [i \in OrderIds |-> "none"]
        /\ pc = "idle" /\ call = NoCall /\ pass = NoPass
        /\ used = {} /\ behind = FALSE

-----------------------------------------------------------------------------
(***************************************************************************)
(* Leaving a call, and the two writes that can fail inside one.            *)
(***************************************************************************)
Release == pc' = "idle" /\ call' = NoCall /\ pass' = NoPass

\* _save_state of the new mem, then go on to next; if it raises, the lock is
\* released with the change in memory only.
Persist(next) ==
    \/ disk' = mem' /\ exists' = TRUE /\ behind' = FALSE /\ next
    \/ "save" \in Faults /\ UNCHANGED <<disk, exists>> /\ behind' = TRUE /\ Release

\* _audit of a row for order id, then go on to next; or it raises.
Row(id, status, next) ==
    \/ audit' = [audit EXCEPT ![id] = status] /\ UNCHANGED behind /\ next
    \/ /\ "audit" \in Faults /\ UNCHANGED audit /\ Release
       /\ behind' = (behind \/ mem' # mem)

Goto(label) == pc' = label /\ UNCHANGED <<call, pass>>

-----------------------------------------------------------------------------
(***************************************************************************)
(* Every call but deposit and reset reconciles first.  The monitor's tick  *)
(* and the three readers do nothing else.                                  *)
(***************************************************************************)
BeginCall ==
    /\ pc = "idle"
    /\ \E c \in Calls :
          /\ c.name = "submit" => OrderIds \ used # {}
          /\ call' = c
    /\ IF mem.pending = <<>>
       THEN call'.name # "read" /\ pc' = "apply" /\ pass' = NoPass
       ELSE /\ pc' = "reconcile"
            /\ \E px \in [Tickers -> Prices] :
                  pass' = [NoPass EXCEPT !.todo = mem.pending, !.px = px]
    /\ UNCHANGED <<mem, disk, exists, audit, born, used, behind>>

\* An order whose exchange is closed, that has no quote or whose trigger has
\* not been reached goes to still_pending.
KeepOrder ==
    /\ pc = "reconcile" /\ pass.todo # <<>>
    /\ \E open \in BOOLEAN :
          ~Triggered(Head(pass.todo), open, pass.px[Head(pass.todo).ticker])
    /\ pass' = [pass EXCEPT !.todo = Tail(@), !.keep = Append(@, Head(pass.todo))]
    /\ UNCHANGED <<mem, disk, exists, audit, born, pc, call, used, behind>>

\* Mutant: the pass forgets that it has filled something.
FillQueuedUnsaved ==
    /\ pc = "reconcile" /\ pass.todo # <<>>
    /\ LET o == Head(pass.todo)
           px == pass.px[o.ticker]
       IN  /\ Triggered(o, TRUE, px)
           /\ \E rate \in Rates : mem' = FillOrder(mem, o, px, rate)
           /\ Row(o.id, "FILLED",
                  pass' = [pass EXCEPT !.todo = Tail(@)] /\ UNCHANGED <<pc, call>>)
    /\ UNCHANGED <<disk, exists, born, used>>

\* Mutant: the rows are left to the end of the pass, after its save.
FillQueuedRowLater ==
    /\ pc = "reconcile" /\ pass.todo # <<>>
    /\ LET o == Head(pass.todo)
           px == pass.px[o.ticker]
       IN  /\ Triggered(o, TRUE, px)
           /\ \E rate \in Rates : mem' = FillOrder(mem, o, px, rate)
    /\ pass' = [pass EXCEPT !.todo = Tail(@), !.dirty = TRUE]
    /\ UNCHANGED <<disk, exists, audit, born, pc, call, used, behind>>

\* The fill changes memory and writes its row; if the row cannot be written
\* the exception leaves the order in pending_orders.
FillQueued ==
    /\ pc = "reconcile" /\ pass.todo # <<>>
    /\ LET o == Head(pass.todo)
           px == pass.px[o.ticker]
       IN  /\ Triggered(o, TRUE, px)
           /\ \E rate \in Rates : mem' = FillOrder(mem, o, px, rate)
           /\ Row(o.id, "FILLED",
                  /\ pass' = [pass EXCEPT !.todo = Tail(@), !.dirty = TRUE]
                  /\ UNCHANGED <<pc, call>>)
    /\ UNCHANGED <<disk, exists, born, used>>

\* Mutant: the queue is not replaced by what the pass kept.
EndReconcileOldQueue ==
    /\ pc = "reconcile" /\ pass.todo = <<>>
    /\ mem' = mem
    /\ LET next == IF call.name = "read" THEN Release
                   ELSE pc' = "apply" /\ call' = call /\ pass' = NoPass
       IN  IF pass.dirty THEN Persist(next) ELSE UNCHANGED <<disk, exists, behind>> /\ next
    /\ UNCHANGED <<audit, born, used>>

\* The pass ends: the queue is replaced, and saved if anything was filled.
EndReconcile ==
    /\ pc = "reconcile" /\ pass.todo = <<>>
    /\ mem' = [mem EXCEPT !.pending = pass.keep]
    /\ LET next == IF call.name = "read" THEN Release
                   ELSE pc' = "apply" /\ call' = call /\ pass' = NoPass
       IN  IF pass.dirty THEN Persist(next) ELSE UNCHANGED <<disk, exists, behind>> /\ next
    /\ UNCHANGED <<audit, born, used>>

-----------------------------------------------------------------------------
(***************************************************************************)
(* submit_order after its reconciliation.                                  *)
(***************************************************************************)
Submitting == pc = "apply" /\ call.name = "submit"

RejectOrder ==
    /\ Submitting
    /\ \E id \in OrderIds \ used, open \in BOOLEAN, live \in Prices, rate \in Rates :
          /\ \/ Unpriced(call.order, open, live)
             \/ ~Affordable(mem, call.order, Debit(call.order, open, live, rate))
          /\ used' = used \cup {id}
          /\ Row(id, "REJECTED", Release)
    /\ UNCHANGED <<mem, disk, exists, born>>

QueueOrder ==
    /\ Submitting
    /\ \E id \in OrderIds \ used, open \in BOOLEAN, live \in Prices, rate \in Rates :
          LET debit == Debit(call.order, open, live, rate)
          IN  /\ ~Unpriced(call.order, open, live)
              /\ Waits(call.order, open, live)
              /\ Affordable(mem, call.order, debit)
              /\ mem' = Enqueue(TakeCash(mem, id, debit),
                                MakeOrder(call.order, id, debit))
              /\ used' = used \cup {id}
              /\ Persist(pc' = "queued" /\ call' = [name |-> "row", id |-> id]
                                        /\ pass' = NoPass)
    /\ UNCHANGED <<audit, born>>

\* An order the market can take now.  A limit BUY is booked at its limit.  The
\* rate is asked for twice, by the cash leg and by the fill.
FillNow ==
    /\ Submitting
    /\ \E id \in OrderIds \ used, live \in Prices, rate, fillRate \in Rates :
          LET px == ReferencePrice(call.order, live)
              debit == Debit(call.order, TRUE, live, rate)
          IN  /\ ~Unpriced(call.order, TRUE, live)
              /\ ~Waits(call.order, TRUE, live)
              /\ Affordable(mem, call.order, debit)
              /\ mem' = FillOrder(TakeCash(mem, id, debit),
                                  MakeOrder(call.order, id, debit), px, fillRate)
              /\ used' = used \cup {id}
              /\ Row(id, "FILLED",
                     /\ pc' = "save" /\ pass' = NoPass
                     /\ call' = [name |-> "fill", order |-> call.order,
                                 live |-> live])
    /\ UNCHANGED <<disk, exists, born>>

SaveFill ==
    /\ pc = "save"
    /\ UNCHANGED mem
    /\ Persist(Release)
    /\ UNCHANGED <<audit, born, used>>

\* The row that follows the save in _enqueue_order, cancel_order, modify_order.
WriteRow ==
    /\ pc \in {"queued", "cancelled", "modified"}
    /\ Row(call.id, CASE pc = "queued" -> "QUEUED"
                      [] pc = "cancelled" -> "CANCELLED"
                      [] OTHER -> "MODIFIED", Release)
    /\ UNCHANGED <<mem, disk, exists, born, used>>

-----------------------------------------------------------------------------
(***************************************************************************)
(* cancel_order and modify_order after their reconciliation.               *)
(***************************************************************************)
IsPending(id) == \E k \in DOMAIN mem.pending : mem.pending[k].id = id

NotPending ==
    /\ pc = "apply" /\ call.name \in {"cancel", "modify"}
    /\ ~IsPending(call.id)
    /\ Release
    /\ UNCHANGED <<mem, disk, exists, audit, born, used, behind>>

Cancel ==
    /\ pc = "apply" /\ call.name = "cancel"
    /\ \E k \in DOMAIN mem.pending :
          /\ mem.pending[k].id = call.id
          /\ mem' = CancelOrder(mem, k)
    /\ Persist(Goto("cancelled"))
    /\ UNCHANGED <<audit, born, used>>

Modify ==
    /\ pc = "apply" /\ call.name = "modify"
    /\ \E k \in DOMAIN mem.pending :
          /\ mem.pending[k].id = call.id
          /\ mem' = ModifyOrder(mem, k, call.trigger)
    /\ Persist(Goto("modified"))
    /\ UNCHANGED <<audit, born, used>>

-----------------------------------------------------------------------------
(***************************************************************************)
(* The calls that do not reconcile.  Their audit rows name no order.       *)
(***************************************************************************)
Deposit ==
    /\ pc = "idle"
    /\ \E amount \in Deposits :
          /\ mem.deposits + amount <= MaxDeposits
          /\ mem' = Credit(mem, amount)
    /\ Persist(Release)
    /\ UNCHANGED <<audit, born, used>>

\* reset() removes the file before it saves: a failed save leaves none, or the
\* old one when the removal failed as well, which is only logged.
Reset ==
    /\ pc = "idle"
    /\ mem' = Fresh(born, mem.fate, mem.fills)
    /\ \/ disk' = mem' /\ exists' = TRUE /\ behind' = FALSE
       \/ /\ "save" \in Faults /\ behind' = TRUE
          /\ \/ disk' = mem' /\ exists' = FALSE
             \/ UNCHANGED <<disk, exists>>
    /\ Release
    /\ UNCHANGED <<audit, born, used>>

\* The process ends, between calls or, when it crashes, inside one, and the
\* next one loads the file with the starting cash config.json has by then.
Restart ==
    /\ pc = "idle" \/ "crash" \in Faults
    /\ \E cash \in StartingCash : born' = cash /\ mem' = LoadState(exists, disk, cash)
    /\ behind' = FALSE
    /\ Release
    /\ UNCHANGED <<disk, exists, audit, used>>

Next == \/ BeginCall \/ KeepOrder \/ FillQueued \/ EndReconcile
        \/ RejectOrder \/ QueueOrder \/ FillNow \/ SaveFill \/ WriteRow
        \/ NotPending \/ Cancel \/ Modify
        \/ Deposit \/ Reset \/ Restart

Spec == Init /\ [][Next]_vars

-----------------------------------------------------------------------------
(***************************************************************************)
(* Properties.                                                             *)
(***************************************************************************)
AccountsOK ==
    /\ mem \in Account /\ disk \in Account
    /\ exists \in BOOLEAN /\ behind \in BOOLEAN
    /\ audit \in [OrderIds -> Statuses]
    /\ born \in StartingCash
    /\ used \subseteq OrderIds

\* Each place a call can stand at, with the calls that get there.
ControlOK ==
    /\ \/ pc \in {"idle", "reconcile"} /\ call \in Calls \cup {NoCall}
       \/ pc = "apply" /\ call \in Calls /\ call.name # "read"
       \/ pc = "save" /\ call \in [name: {"fill"}, order: Shapes, live: Prices]
       \/ pc = "queued" /\ call \in [name: {"row"}, id: OrderIds]
       \/ pc = "cancelled" /\ call \in [name: {"cancel"}, id: OrderIds]
       \/ /\ pc = "modified"
          /\ call \in [name: {"modify"}, id: OrderIds, trigger: Triggers]
    /\ pc = "reconcile" => call # NoCall
    /\ pass \in [todo: Seq(Order), keep: Seq(Order), dirty: BOOLEAN,
                 px: [Tickers -> Nat]]

\* Types, and where a call can stand.
TypeOK == AccountsOK /\ ControlOK

\* The orders that are really waiting: during a pass, what it kept and what it
\* has not looked at yet; pending_orders is only replaced when it ends.
Book == IF pc = "reconcile" THEN pass.keep \o pass.todo ELSE mem.pending

\* Every order waits at most once, exactly while its fate is "pending", and is
\* executed at most once: no interleaving of a pass, a cancel and a restart
\* fills an order that was cancelled, or fills one twice.
BookIsExact ==
    /\ \A j, k \in DOMAIN Book : Book[j].id = Book[k].id => j = k
    /\ \A i \in OrderIds :
          /\ mem.fate[i] = "pending" <=> \E k \in DOMAIN Book : Book[k].id = i
          /\ mem.fills[i] = IF mem.fate[i] = "filled" THEN 1 ELSE 0

\* What an order has moved: while it waits its reservation, whatever was done
\* to its trigger; nothing once it is cancelled or when it was rejected.
ReservationsExact ==
    /\ \A k \in DOMAIN Book : mem.flow[Book[k].id] = 0 - Book[k].reserved
    /\ \A i \in OrderIds :
          mem.fate[i] \in {"none", "cancelled", "void"} => mem.flow[i] = 0

\* The ledger balances: cash, plus what is reserved, plus what the holdings
\* cost, is what was put in plus what was realised (and, for sales without a
\* holding, their proceeds).
Reserved == FoldSeq(LAMBDA o, sum : sum + o.reserved, 0, Book)
Invested == SumFunction([t \in Tickers |-> mem.pos[t].basis])
Conservation ==
    mem.cash + Reserved + Invested
        = mem.base + mem.deposits + mem.realised + mem.unbacked

\* Free cash is negative by no more than fills have overrun their reservations
\* (module docstring: "we debit the difference"): no check of submit_order can
\* be passed with money that is not there.
Solvency == mem.cash + mem.overrun >= 0

\* The account that a restart with this configuration would find.
Reloaded == LoadState(exists, disk, born)

\* When no call is running, a restart with the configuration the account was
\* opened with finds the account it left: every call has saved what it changed,
\* and what an earlier call could not save.  Not so after a save that failed
\* and was not yet followed by another one.  And one account is thrown away as
\* a stale file: one that shows no activity because all it ever kept are the
\* proceeds of sales that found nothing to sell, which a momentum trigger may
\* send.  Those proceeds, and nothing else, are then lost.
Durable ==
    (pc = "idle" /\ mem.base = born /\ ~behind)
    => \/ Reloaded = mem
       \/ /\ ~HasActivity(mem) /\ mem.unbacked > 0
          /\ Reloaded.cash = mem.cash - mem.unbacked

\* The same without the exception: no sale is forgotten by a restart.
RestartKeepsAccount ==
    (pc = "idle" /\ mem.base = born /\ ~behind) => Reloaded = mem

\* The audit file never lags behind the state file on a fill: an order filled
\* on disk has FILLED as its latest row, so get_order_history shows the trade.
FillsAreAudited ==
    \A i \in OrderIds : disk.fate[i] = "filled" => audit[i] = "FILLED"

\* The orders on disk follow OrderLifecycle, across crashes and failed saves.
Lifecycle == INSTANCE OrderLifecycle WITH fate <- disk.fate, fills <- disk.fills
DurableLifecycle == Lifecycle!Spec

\* Trigger rule of _reconcile_pending's docstring, for every fill: a limit BUY
\* is executed only when the market is at or below its limit.
LimitBuyAtOrBelowLimit ==
    (pc = "save" /\ call.order.side = "BUY" /\ call.order.kind = "limit"
        /\ call.order.trigger # 0 /\ call.live # 0)
    => call.live <= call.order.trigger

=============================================================================
