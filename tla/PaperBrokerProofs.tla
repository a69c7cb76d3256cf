--------------------------- MODULE PaperBrokerProofs ---------------------------
(***************************************************************************)
(* Proofs about PaperBroker.  First lemmas about the operators of          *)
(* PaperLedger: each maps accounts to accounts, what it does to the fields *)
(* the invariants mention, and that it keeps an account and the orders     *)
(* that wait in it in agreement (Good).  Then types and control, solvency, *)
(* the exactness of the order book and of the reservations, the audit      *)
(* file, and that the account on disk follows OrderLifecycle.  Last the    *)
(* sums: what the folds of the model add up, that the books balance        *)
(* (Conservation), and that a restart loses nothing (Durable).             *)
(***************************************************************************)
EXTENDS PaperBroker, SequenceTheorems, FiniteSetTheorems, TLAPS

-----------------------------------------------------------------------------
(***************************************************************************)
(* An account is determined by its fields.                                 *)
(***************************************************************************)
Rebuilt(b) ==
    [cash |-> b.cash, pos |-> b.pos, pending |-> b.pending,
     realised |-> b.realised, deposits |-> b.deposits, base |-> b.base,
     fate |-> b.fate, fills |-> b.fills, flow |-> b.flow,
     unbacked |-> b.unbacked, overrun |-> b.overrun]

FieldsOK(b) ==
    /\ b.cash \in Int /\ b.pos \in [Tickers -> Position]
    /\ b.pending \in Seq(Order) /\ b.realised \in Int /\ b.deposits \in Nat
    /\ b.base \in Nat /\ b.fate \in [OrderIds -> Fates]
    /\ b.fills \in [OrderIds -> Nat] /\ b.flow \in [OrderIds -> Int]
    /\ b.unbacked \in Nat /\ b.overrun \in Nat

\* An account is a record of these eleven fields and nothing else.
LEMMA AccountFields ==
    ASSUME NEW b
    PROVE  b \in Account <=> (b = Rebuilt(b) /\ FieldsOK(b))
  <1>1. b \in Account => b = Rebuilt(b)
    BY DEF Account, Rebuilt
  <1>2. b \in Account => FieldsOK(b)
    BY DEF Account, FieldsOK
  <1>3. FieldsOK(b) => Rebuilt(b) \in Account
    BY DEF Account, FieldsOK, Rebuilt
  <1> QED BY <1>1, <1>2, <1>3

-----------------------------------------------------------------------------
(***************************************************************************)
(* The operators of PaperLedger map accounts to accounts.  Each lemma also *)
(* says what becomes of the fields that the invariants mention.            *)
(***************************************************************************)
\* Replacing the account: no orders, no cash but the starting cash.
LEMMA FreshEffect ==
    ASSUME NEW cash \in Nat, NEW fate \in [OrderIds -> Fates],
           NEW fills \in [OrderIds -> Nat], NEW b, b = Fresh(cash, fate, fills)
    PROVE  /\ b \in Account
           /\ b.cash = cash /\ b.overrun = 0 /\ b.pending = <<>>
           /\ b.fills = fills
           /\ \A i \in OrderIds :
                 /\ b.fate[i] = IF fate[i] = "pending" THEN "void" ELSE fate[i]
                 /\ b.flow[i] = 0
  <1>1. b = Rebuilt(b)
    BY DEF Fresh, Rebuilt
  <1>2. FieldsOK(b)
    BY DEF Fresh, FieldsOK, Position, Fates
  <1> QED BY <1>1, <1>2, AccountFields DEF Fresh

\* A debit before an order is queued or filled.
LEMMA TakeCashEffect ==
    ASSUME NEW a \in Account, NEW id \in OrderIds, NEW debit \in Nat,
           NEW b, b = TakeCash(a, id, debit)
    PROVE  /\ b \in Account
           /\ b.cash = a.cash - debit /\ b.overrun = a.overrun
           /\ b.pending = a.pending /\ b.fate = a.fate /\ b.fills = a.fills
           /\ b.flow = [a.flow EXCEPT ![id] = @ - debit]
  <1>1. b = Rebuilt(b)
    BY DEF TakeCash, Account, Rebuilt
  <1>2. FieldsOK(b)
    BY DEF TakeCash, FieldsOK, Account
  <1> QED BY <1>1, <1>2, AccountFields DEF TakeCash, Account

\* An order joins the queue.
LEMMA EnqueueEffect ==
    ASSUME NEW a \in Account, NEW o \in Order, NEW b, b = Enqueue(a, o)
    PROVE  /\ b \in Account
           /\ b.cash = a.cash /\ b.overrun = a.overrun
           /\ b.pending = Append(a.pending, o)
           /\ b.fate = [a.fate EXCEPT ![o.id] = "pending"]
           /\ b.fills = a.fills /\ b.flow = a.flow
  <1>1. b = Rebuilt(b)
    BY DEF Enqueue, Account, Rebuilt
  <1>2. o.id \in OrderIds
    BY DEF Order
  <1>3. FieldsOK(b)
    BY <1>2 DEF Enqueue, FieldsOK, Account, Fates
  <1> QED BY <1>1, <1>3, AccountFields DEF Enqueue, Account

\* The buying half of a fill.
LEMMA BuyEffect ==
    ASSUME NEW a \in Account, NEW o \in Order, NEW cost \in Nat,
           NEW b, b = Buy(a, o, cost)
    PROVE  /\ b \in Account
           /\ b.cash = a.cash + o.reserved - cost
           /\ b.overrun = IF cost > o.reserved
                          THEN a.overrun + (cost - o.reserved) ELSE a.overrun
           /\ b.pending = a.pending /\ b.fate = a.fate /\ b.fills = a.fills
           /\ b.flow = [a.flow EXCEPT ![o.id] = @ + o.reserved - cost]
  <1>1. b = Rebuilt(b)
    BY DEF Buy, Account, Rebuilt
  <1>2. /\ o.id \in OrderIds /\ o.ticker \in Tickers
        /\ o.reserved \in Nat /\ o.qty \in Nat
    BY DEF Order
  <1>3. b.pos = [a.pos EXCEPT ![o.ticker] = [qty |-> @.qty + o.qty,
                                             basis |-> @.basis + cost]]
    BY DEF Buy, Account
  <1>4. a.pos[o.ticker].qty \in Nat /\ a.pos[o.ticker].basis \in Nat
    BY <1>2 DEF Account, Position
  <1>5. [qty |-> a.pos[o.ticker].qty + o.qty,
         basis |-> a.pos[o.ticker].basis + cost] \in Position
    BY <1>2, <1>4 DEF Position
  <1>6. b.pos \in [Tickers -> Position]
    BY <1>3, <1>5 DEF Account
  <1>7. /\ b.cash = a.cash + o.reserved - cost
        /\ b.overrun = IF cost > o.reserved
                       THEN a.overrun + (cost - o.reserved) ELSE a.overrun
        /\ b.pending = a.pending /\ b.fate = a.fate /\ b.fills = a.fills
        /\ b.flow = [a.flow EXCEPT ![o.id] = @ + o.reserved - cost]
        /\ b.realised = a.realised /\ b.deposits = a.deposits
        /\ b.base = a.base /\ b.unbacked = a.unbacked
    BY DEF Buy, Account
  <1>8. b.overrun \in Nat /\ b.cash \in Int
    BY <1>2, <1>7 DEF Account
  <1>9. b.flow \in [OrderIds -> Int]
    BY <1>2, <1>7 DEF Account
  <1>10. FieldsOK(b)
    BY <1>6, <1>7, <1>8, <1>9 DEF FieldsOK, Account
  <1> QED BY <1>1, <1>7, <1>10, AccountFields

\* No more of the cost basis leaves with a sale than there is.
LEMMA CostOutBound ==
    ASSUME NEW p \in Position, NEW qty \in Nat \ {0}, p.qty > 0
    PROVE  CostOut(p, qty) \in 0 .. p.basis
  <1>1. p.basis \in Nat /\ p.qty \in Nat
    BY DEF Position
  <1>2. CASE qty >= p.qty
    BY <1>1, <1>2 DEF CostOut
  <1>3. CASE qty < p.qty
    <2>1. \A m, n, d \in Nat : d > 0 /\ m <= n * d => m \div d \in 0 .. n
      OBVIOUS
    <2>2. p.basis * qty \in Nat /\ p.basis * qty <= p.basis * p.qty
      BY <1>1, <1>3
    <2>3. (p.basis * qty) \div p.qty \in 0 .. p.basis
      BY <1>1, <2>1, <2>2
    <2> QED BY <1>1, <1>3, <2>3 DEF CostOut
  <1> QED BY <1>1, <1>2, <1>3

\* The selling half of a fill.
LEMMA SellEffect ==
    ASSUME NEW a \in Account, NEW o \in Order, NEW proceeds \in Nat,
           NEW b, b = Sell(a, o, proceeds)
    PROVE  /\ b \in Account
           /\ b.cash = a.cash + proceeds /\ b.overrun = a.overrun
           /\ b.pending = a.pending /\ b.fate = a.fate /\ b.fills = a.fills
           /\ b.flow = [a.flow EXCEPT ![o.id] = @ + proceeds]
  <1> DEFINE p == a.pos[o.ticker]
  <1>1. /\ o.id \in OrderIds /\ o.ticker \in Tickers /\ o.qty \in Nat \ {0}
        /\ p \in Position
    BY DEF Order, Account
  <1>2. CASE p.qty > 0
    <2>1. CostOut(p, o.qty) \in 0 .. p.basis
      BY <1>1, <1>2, CostOutBound
    <2>2. b = Rebuilt(b)
      BY <1>2 DEF Sell, Account, Rebuilt
    <2>3. /\ b.pos = [a.pos EXCEPT ![o.ticker] =
                        [qty |-> IF o.qty >= p.qty THEN 0 ELSE p.qty - o.qty,
                         basis |-> p.basis - CostOut(p, o.qty)]]
          /\ b.realised = a.realised + proceeds - CostOut(p, o.qty)
      BY <1>1, <1>2 DEF Sell, Account
    <2>4. /\ p.qty \in Nat /\ p.basis \in Nat
          /\ p.basis - CostOut(p, o.qty) \in Nat
          /\ (IF o.qty >= p.qty THEN 0 ELSE p.qty - o.qty) \in Nat
      BY <1>1, <2>1 DEF Position
    <2>5. b.pos \in [Tickers -> Position] /\ b.realised \in Int
      BY <1>1, <2>1, <2>3, <2>4 DEF Account, Position
    <2>6. /\ b.cash = a.cash + proceeds
          /\ b.flow = [a.flow EXCEPT ![o.id] = @ + proceeds]
          /\ b.pending = a.pending /\ b.fate = a.fate /\ b.fills = a.fills
          /\ b.deposits = a.deposits /\ b.base = a.base
          /\ b.unbacked = a.unbacked /\ b.overrun = a.overrun
      BY <1>2 DEF Sell, Account
    <2>7. FieldsOK(b)
      BY <1>1, <2>5, <2>6 DEF FieldsOK, Account
    <2> QED BY <2>2, <2>6, <2>7, AccountFields
  <1>3. CASE ~(p.qty > 0)
    <2>1. b = Rebuilt(b)
      BY <1>3 DEF Sell, Account, Rebuilt
    <2>2. /\ b.cash = a.cash + proceeds
          /\ b.flow = [a.flow EXCEPT ![o.id] = @ + proceeds]
          /\ b.pending = a.pending /\ b.fate = a.fate /\ b.fills = a.fills
          /\ b.deposits = a.deposits /\ b.base = a.base
          /\ b.pos = a.pos /\ b.realised = a.realised
          /\ b.unbacked = a.unbacked + proceeds /\ b.overrun = a.overrun
      BY <1>3 DEF Sell, Account
    <2>3. FieldsOK(b)
      BY <1>1, <2>2 DEF FieldsOK, Account
    <2> QED BY <2>1, <2>2, <2>3, AccountFields
  <1> QED BY <1>2, <1>3

\* The bookkeeping of a fill.
LEMMA ExecuteEffect ==
    ASSUME NEW a \in Account, NEW id \in OrderIds, NEW b, b = Execute(a, id)
    PROVE  /\ b \in Account
           /\ b.cash = a.cash /\ b.overrun = a.overrun
           /\ b.pending = a.pending /\ b.flow = a.flow
           /\ b.fate = [a.fate EXCEPT ![id] = "filled"]
           /\ b.fills = [a.fills EXCEPT ![id] = @ + 1]
  <1>1. b = Rebuilt(b)
    BY DEF Execute, Account, Rebuilt
  <1>2. FieldsOK(b)
    BY DEF Execute, FieldsOK, Account, Fates
  <1> QED BY <1>1, <1>2, AccountFields DEF Execute, Account

\* A fill, whole.  flow rises by what the account's cash rises.
LEMMA FillEffect ==
    ASSUME NEW a \in Account, NEW o \in Order, NEW px \in Nat, NEW rate \in Nat,
           NEW b, b = FillOrder(a, o, px, rate)
    PROVE  /\ b \in Account
           /\ a.cash + a.overrun >= 0 => b.cash + b.overrun >= 0
           /\ b.pending = a.pending
           /\ b.fate = [a.fate EXCEPT ![o.id] = "filled"]
           /\ b.fills = [a.fills EXCEPT ![o.id] = @ + 1]
           /\ \A i \in OrderIds : i # o.id => b.flow[i] = a.flow[i]
  <1> DEFINE done == Execute(a, o.id)
             cost == px * o.qty * rate
  <1>1. o.id \in OrderIds /\ o.qty \in Nat /\ o.reserved \in Nat
    BY DEF Order
  <1>2. cost \in Nat
    BY <1>1
  <1>3. /\ done \in Account
        /\ done.cash = a.cash /\ done.overrun = a.overrun
        /\ done.pending = a.pending /\ done.flow = a.flow
        /\ done.fate = [a.fate EXCEPT ![o.id] = "filled"]
        /\ done.fills = [a.fills EXCEPT ![o.id] = @ + 1]
    BY <1>1, ExecuteEffect
  <1> HIDE DEF done, cost
  <1>4. a.cash \in Int /\ a.overrun \in Nat /\ a.flow \in [OrderIds -> Int]
    BY DEF Account
  <1>5. CASE o.side = "BUY"
    <2>1. b = Buy(done, o, cost)
      BY <1>5 DEF FillOrder, done, cost
    <2>2. /\ b \in Account
          /\ b.cash = a.cash + o.reserved - cost
          /\ b.overrun = IF cost > o.reserved
                         THEN a.overrun + (cost - o.reserved) ELSE a.overrun
          /\ b.pending = a.pending /\ b.fate = done.fate /\ b.fills = done.fills
          /\ b.flow = [a.flow EXCEPT ![o.id] = @ + o.reserved - cost]
      BY <2>1, <1>2, <1>3, BuyEffect
    <2> QED BY <2>2, <1>1, <1>2, <1>3, <1>4
  <1>6. CASE o.side # "BUY"
    <2>1. b = Sell(done, o, cost)
      BY <1>6 DEF FillOrder, done, cost
    <2>2. /\ b \in Account
          /\ b.cash = a.cash + cost /\ b.overrun = a.overrun
          /\ b.pending = a.pending /\ b.fate = done.fate /\ b.fills = done.fills
          /\ b.flow = [a.flow EXCEPT ![o.id] = @ + cost]
      BY <2>1, <1>2, <1>3, SellEffect
    <2> QED BY <2>2, <1>1, <1>2, <1>3, <1>4
  <1> QED BY <1>5, <1>6

\* t is s without its k-th order.
IsRemoval(t, s, k) ==
    /\ t \in Seq(Order)
    /\ Len(t) = Len(s) - 1
    /\ \A i \in 1 .. Len(t) : t[i] = IF i < k THEN s[i] ELSE s[i + 1]

\* What cancel_order does to the queue is a removal.
LEMMA RemovalBySubSeq ==
    ASSUME NEW s \in Seq(Order), NEW k \in 1 .. Len(s)
    PROVE  IsRemoval(SubSeq(s, 1, k - 1) \o SubSeq(s, k + 1, Len(s)), s, k)
  <1> DEFINE p == SubSeq(s, 1, k - 1)
             q == SubSeq(s, k + 1, Len(s))
  <1>1. /\ p \in Seq(Order) /\ Len(p) = k - 1
        /\ \A i \in 1 .. k - 1 : p[i] = s[i]
    OBVIOUS
  <1>2. /\ q \in Seq(Order) /\ Len(q) = Len(s) - k
        /\ \A i \in 1 .. Len(s) - k : q[i] = s[k + i]
    OBVIOUS
  <1> HIDE DEF p, q
  <1>3. p \o q \in Seq(Order) /\ Len(p \o q) = Len(s) - 1
    <2>1. p \o q \in Seq(Order) /\ Len(p \o q) = Len(p) + Len(q)
      BY <1>1, <1>2, ConcatProperties
    <2>2. Len(s) \in Nat /\ k \in Int
      OBVIOUS
    <2> QED BY <2>1, <2>2, <1>1, <1>2
  <1>4. ASSUME NEW i \in 1 .. Len(s) - 1
        PROVE  (p \o q)[i] = IF i < k THEN s[i] ELSE s[i + 1]
    <2>0. i \in Int /\ k \in Int /\ 1 <= i /\ i <= Len(s) - 1 /\ Len(s) \in Nat
      OBVIOUS
    <2>1. CASE i < k
      <3>1. i \in 1 .. k - 1
        BY <2>0, <2>1
      <3>2. (p \o q)[i] = p[i]
        BY <1>1, <1>2, <3>1
      <3> QED BY <1>1, <2>1, <3>1, <3>2
    <2>2. CASE i >= k
      <3>1. (p \o q)[i] = q[i - (k - 1)]
        BY <1>1, <1>2, <2>2
      <3>2. q[i - (k - 1)] = s[k + (i - (k - 1))]
        BY <1>2, <2>2
      <3>3. k + (i - (k - 1)) = i + 1
        OBVIOUS
      <3> QED BY <2>0, <2>2, <3>1, <3>2, <3>3
    <2>3. i < k \/ i >= k
      BY <2>0
    <2>4. (i >= k) = ~(i < k)
      BY <2>0
    <2> QED BY <2>1, <2>2, <2>3, <2>4
  <1> QED BY <1>3, <1>4 DEF p, q, IsRemoval

\* What a pass does to the book when it fills the order it looks at is one too.
LEMMA RemovalByFill ==
    ASSUME NEW keep \in Seq(Order), NEW todo \in Seq(Order), todo # <<>>
    PROVE  /\ Len(keep) + 1 \in 1 .. Len(keep \o todo)
           /\ (keep \o todo)[Len(keep) + 1] = Head(todo)
           /\ IsRemoval(keep \o Tail(todo), keep \o todo, Len(keep) + 1)
  <1>1. Len(todo) \in Nat \ {0} /\ Len(keep) \in Nat
    OBVIOUS
  <1>2. /\ Tail(todo) \in Seq(Order) /\ Len(Tail(todo)) = Len(todo) - 1
        /\ \A i \in 1 .. Len(todo) - 1 : Tail(todo)[i] = todo[i + 1]
    BY <1>1
  <1>3. /\ keep \o Tail(todo) \in Seq(Order)
        /\ Len(keep \o Tail(todo)) = Len(keep) + Len(todo) - 1
        /\ keep \o todo \in Seq(Order)
        /\ Len(keep \o todo) = Len(keep) + Len(todo)
    BY <1>1, <1>2
  <1>4. ASSUME NEW i \in 1 .. Len(keep) + Len(todo) - 1
        PROVE  (keep \o Tail(todo))[i] = IF i < Len(keep) + 1
                     THEN (keep \o todo)[i] ELSE (keep \o todo)[i + 1]
    <2>1. CASE i <= Len(keep)
      BY <1>1, <1>2, <2>1
    <2>2. CASE i > Len(keep)
      <3>1. (keep \o Tail(todo))[i] = Tail(todo)[i - Len(keep)]
        BY <1>1, <1>2, <2>2
      <3>2. Tail(todo)[i - Len(keep)] = todo[i - Len(keep) + 1]
        BY <1>1, <1>2, <2>2
      <3>3. (keep \o todo)[i + 1] = todo[i + 1 - Len(keep)]
        BY <1>1, <2>2
      <3> QED BY <1>1, <2>2, <3>1, <3>2, <3>3
    <2> QED BY <1>1, <2>1, <2>2
  <1>5. (keep \o todo)[Len(keep) + 1] = Head(todo)
    BY <1>1
  <1> QED BY <1>1, <1>3, <1>4, <1>5 DEF IsRemoval

\* Keeping an order moves the boundary inside the book, not the book.
LEMMA BookOfKept ==
    ASSUME NEW keep \in Seq(Order), NEW todo \in Seq(Order), todo # <<>>
    PROVE  Append(keep, Head(todo)) \o Tail(todo) = keep \o todo
  <1> DEFINE l == Append(keep, Head(todo))
             n == Len(keep)
  <1>1. /\ n \in Nat /\ Len(todo) \in Nat \ {0} /\ Head(todo) = todo[1]
        /\ Head(todo) \in Order
    OBVIOUS
  <1>2. /\ l \in Seq(Order) /\ Len(l) = n + 1 /\ l[n + 1] = todo[1]
        /\ \A i \in 1 .. n : l[i] = keep[i]
    BY <1>1
  <1>3. /\ Tail(todo) \in Seq(Order) /\ Len(Tail(todo)) = Len(todo) - 1
        /\ \A i \in 1 .. Len(todo) - 1 : Tail(todo)[i] = todo[i + 1]
    BY <1>1
  <1> HIDE DEF l, n
  <1>4. /\ l \o Tail(todo) \in Seq(Order)
        /\ Len(l \o Tail(todo)) = n + Len(todo)
        /\ \A i \in 1 .. n + Len(todo) : (l \o Tail(todo))[i] =
                IF i <= n + 1 THEN l[i] ELSE Tail(todo)[i - (n + 1)]
    <2> DEFINE r == Tail(todo)
    <2> HIDE DEF r
    <2>1. r \in Seq(Order) /\ Len(r) = Len(todo) - 1
      BY <1>3 DEF r
    <2>2. /\ l \o r \in Seq(Order) /\ Len(l \o r) = Len(l) + Len(r)
          /\ \A i \in 1 .. Len(l) + Len(r) : (l \o r)[i] =
                  IF i <= Len(l) THEN l[i] ELSE r[i - Len(l)]
      BY <1>2, <2>1, ConcatProperties
    <2>3. Len(l) = n + 1 /\ Len(l) + Len(r) = n + Len(todo)
      BY <1>1, <1>2, <2>1
    <2> QED BY <2>2, <2>3 DEF r
  <1>5. /\ keep \o todo \in Seq(Order)
        /\ Len(keep \o todo) = n + Len(todo)
        /\ \A i \in 1 .. n + Len(todo) : (keep \o todo)[i] =
                IF i <= n THEN keep[i] ELSE todo[i - n]
    BY <1>1, ConcatProperties DEF n
  <1>6. ASSUME NEW i \in 1 .. n + Len(todo)
        PROVE  (l \o Tail(todo))[i] = (keep \o todo)[i]
    <2>0. i \in Int /\ 1 <= i /\ i <= n + Len(todo)
      BY <1>1
    <2>1. CASE i <= n
      BY <1>1, <1>2, <1>4, <1>5, <2>1
    <2>2. CASE i = n + 1
      BY <1>1, <1>2, <1>4, <1>5, <2>2
    <2>3. CASE i > n + 1
      <3>1. (l \o Tail(todo))[i] = Tail(todo)[i - (n + 1)]
        BY <1>1, <1>4, <2>3
      <3>2. Tail(todo)[i - (n + 1)] = todo[i - n]
        BY <1>1, <1>3, <2>3
      <3>3. ~(i <= n)
        BY <1>1, <2>0, <2>3
      <3>4. (keep \o todo)[i] = todo[i - n]
        BY <1>5, <3>3
      <3> QED BY <3>1, <3>2, <3>4
    <2>4. i <= n \/ i = n + 1 \/ i > n + 1
      BY <1>1, <2>0
    <2> QED BY <2>1, <2>2, <2>3, <2>4
  <1>7. l \o Tail(todo) = keep \o todo
    BY <1>4, <1>5, <1>6, SeqEqual
  <1> QED BY <1>7 DEF l

\* A cancellation gives the reservation back.
LEMMA CancelEffect ==
    ASSUME NEW a \in Account, NEW k \in DOMAIN a.pending,
           NEW b, b = CancelOrder(a, k)
    PROVE  /\ b \in Account
           /\ a.cash + a.overrun >= 0 => b.cash + b.overrun >= 0
           /\ a.pending[k] \in Order
           /\ IsRemoval(b.pending, a.pending, k)
           /\ b.fate = [a.fate EXCEPT ![a.pending[k].id] = "cancelled"]
           /\ b.fills = a.fills
           /\ b.flow = [a.flow EXCEPT ![a.pending[k].id] =
                  @ + (IF a.pending[k].side = "BUY" THEN a.pending[k].reserved ELSE 0)]
  <1> DEFINE o == a.pending[k]
             refund == IF o.side = "BUY" THEN o.reserved ELSE 0
  <1>1. a.pending \in Seq(Order) /\ k \in 1 .. Len(a.pending)
    BY DEF Account
  <1>2. o \in Order
    BY <1>1
  <1>3. o.id \in OrderIds /\ refund \in Nat
    BY <1>2 DEF Order
  <1>4. /\ b.pending = SubSeq(a.pending, 1, k - 1)
                        \o SubSeq(a.pending, k + 1, Len(a.pending))
        /\ b.cash = a.cash + refund /\ b.overrun = a.overrun
        /\ b.fate = [a.fate EXCEPT ![o.id] = "cancelled"]
        /\ b.fills = a.fills
        /\ b.flow = [a.flow EXCEPT ![o.id] = @ + refund]
        /\ b.pos = a.pos /\ b.realised = a.realised /\ b.deposits = a.deposits
        /\ b.base = a.base /\ b.unbacked = a.unbacked
    BY DEF CancelOrder, Account
  <1>5. b = Rebuilt(b)
    BY DEF CancelOrder, Account, Rebuilt
  <1>6. IsRemoval(b.pending, a.pending, k)
    BY <1>1, <1>4, RemovalBySubSeq
  <1> HIDE DEF refund
  <1>7. FieldsOK(b)
    <2>1. "cancelled" \in Fates
      BY DEF Fates
    <2>2. b.fate \in [OrderIds -> Fates]
      BY <1>3, <1>4, <2>1 DEF Account
    <2>3. b.flow \in [OrderIds -> Int] /\ b.cash \in Int
      <3>1. a.cash \in Int /\ a.flow[o.id] \in Int /\ a.flow \in [OrderIds -> Int]
        BY <1>3 DEF Account
      <3>2. a.cash + refund \in Int /\ a.flow[o.id] + refund \in Int
        BY <1>3, <3>1
      <3> QED BY <1>3, <1>4, <3>1, <3>2
    <2> QED BY <1>4, <1>6, <2>2, <2>3 DEF FieldsOK, Account, IsRemoval
  <1>8. a.cash + a.overrun >= 0 => b.cash + b.overrun >= 0
    BY <1>3, <1>4 DEF Account
  <1> QED BY <1>2, <1>4, <1>5, <1>6, <1>7, <1>8, AccountFields DEF refund

\* A modification touches nothing but the trigger.
LEMMA ModifyEffect ==
    ASSUME NEW a \in Account, NEW k \in DOMAIN a.pending, NEW trigger \in Nat,
           NEW b, b = ModifyOrder(a, k, trigger)
    PROVE  /\ b \in Account
           /\ b.cash = a.cash /\ b.overrun = a.overrun
           /\ b.fate = a.fate /\ b.fills = a.fills /\ b.flow = a.flow
           /\ Len(b.pending) = Len(a.pending)
           /\ \A j \in 1 .. Len(a.pending) :
                 /\ b.pending[j].id = a.pending[j].id
                 /\ b.pending[j].side = a.pending[j].side
                 /\ b.pending[j].reserved = a.pending[j].reserved
  <1> DEFINE o == a.pending[k]
             m == [o EXCEPT !.trigger = trigger]
  <1>1. a.pending \in Seq(Order) /\ k \in 1 .. Len(a.pending)
    BY DEF Account
  <1>2. o \in Order
    BY <1>1
  <1>3. m \in Order /\ m.id = o.id /\ m.side = o.side /\ m.reserved = o.reserved
    BY <1>2 DEF Order
  <1>4. /\ b.pending = [a.pending EXCEPT ![k] = m]
        /\ b.cash = a.cash /\ b.overrun = a.overrun
        /\ b.fate = a.fate /\ b.fills = a.fills /\ b.flow = a.flow
        /\ b.pos = a.pos /\ b.realised = a.realised /\ b.deposits = a.deposits
        /\ b.base = a.base /\ b.unbacked = a.unbacked
    BY DEF ModifyOrder, Account
  <1>5. b = Rebuilt(b)
    BY DEF ModifyOrder, Account, Rebuilt
  <1> HIDE DEF m
  <1>6. b.pending \in Seq(Order) /\ Len(b.pending) = Len(a.pending)
    BY <1>1, <1>3, <1>4
  <1>7. FieldsOK(b)
    BY <1>4, <1>6 DEF FieldsOK, Account
  <1>8. \A j \in 1 .. Len(a.pending) :
            b.pending[j] = IF j = k THEN m ELSE a.pending[j]
    BY <1>1, <1>4
  <1> QED BY <1>3, <1>4, <1>5, <1>6, <1>7, <1>8, AccountFields

\* A deposit.
LEMMA CreditEffect ==
    ASSUME NEW a \in Account, NEW amount \in Nat, NEW b, b = Credit(a, amount)
    PROVE  /\ b \in Account
           /\ b.cash = a.cash + amount /\ b.overrun = a.overrun
           /\ b.pending = a.pending
           /\ b.fate = a.fate /\ b.fills = a.fills /\ b.flow = a.flow
  <1>1. b = Rebuilt(b)
    BY DEF Credit, Account, Rebuilt
  <1>2. FieldsOK(b)
    BY DEF Credit, FieldsOK, Account
  <1> QED BY <1>1, <1>2, AccountFields DEF Credit, Account

\* The end of a pass.
LEMMA SetPendingEffect ==
    ASSUME NEW a \in Account, NEW keep \in Seq(Order),
           NEW b, b = [a EXCEPT !.pending = keep]
    PROVE  /\ b \in Account
           /\ b.cash = a.cash /\ b.overrun = a.overrun
           /\ b.pending = keep
           /\ b.fate = a.fate /\ b.fills = a.fills /\ b.flow = a.flow
  <1>1. b = Rebuilt(b)
    BY DEF Account, Rebuilt
  <1>2. FieldsOK(b)
    BY DEF FieldsOK, Account
  <1> QED BY <1>1, <1>2, AccountFields DEF Account

-----------------------------------------------------------------------------
(***************************************************************************)
(* What the broker's invariant says of one account and of the orders,      *)
(* book, that wait in it.                                                  *)
(***************************************************************************)
DistinctIds(book) ==
    \A j, k \in DOMAIN book : book[j].id = book[k].id => j = k

PendingIn(a, book) ==
    \A i \in OrderIds :
        a.fate[i] = "pending" <=> \E k \in DOMAIN book : book[k].id = i

FilledOnce(a) ==
    \A i \in OrderIds : a.fills[i] = IF a.fate[i] = "filled" THEN 1 ELSE 0

HoldsReserved(a, book) ==
    \A k \in DOMAIN book :
        /\ a.flow[book[k].id] = 0 - book[k].reserved
        /\ book[k].side = "SELL" => book[k].reserved = 0

NothingMoved(a) ==
    \A i \in OrderIds :
        a.fate[i] \in {"none", "cancelled", "void"} => a.flow[i] = 0

Good(a, book) == /\ DistinctIds(book) /\ PendingIn(a, book) /\ FilledOnce(a)
                 /\ HoldsReserved(a, book) /\ NothingMoved(a)

Solid(a) == a.cash + a.overrun >= 0

\* An account that was replaced has no orders.
LEMMA GoodFresh ==
    ASSUME NEW cash \in Nat, NEW fate \in [OrderIds -> Fates],
           NEW fills \in [OrderIds -> Nat],
           \A i \in OrderIds : fills[i] = IF fate[i] = "filled" THEN 1 ELSE 0,
           NEW b, b = Fresh(cash, fate, fills)
    PROVE  Good(b, b.pending)
  <1>1. /\ b.pending = <<>> /\ b.fills = fills
        /\ \A i \in OrderIds :
              /\ b.fate[i] = IF fate[i] = "pending" THEN "void" ELSE fate[i]
              /\ b.flow[i] = 0
    BY FreshEffect
  <1>2. DOMAIN b.pending = {}
    BY <1>1
  <1>3. DistinctIds(b.pending) /\ HoldsReserved(b, b.pending)
    BY <1>2 DEF DistinctIds, HoldsReserved
  <1>4. PendingIn(b, b.pending)
    BY <1>1, <1>2 DEF PendingIn
  <1>5. FilledOnce(b) /\ NothingMoved(b)
    BY <1>1 DEF FilledOnce, NothingMoved
  <1> QED BY <1>3, <1>4, <1>5 DEF Good

\* A new order joins the queue with what it reserves.
LEMMA GoodQueue ==
    ASSUME NEW a \in Account, Good(a, a.pending),
           NEW o \in Order, a.fate[o.id] = "none",
           o.side = "SELL" => o.reserved = 0,
           NEW b, b = Enqueue(TakeCash(a, o.id, o.reserved), o)
    PROVE  b \in Account /\ Good(b, b.pending)
  <1> DEFINE c == TakeCash(a, o.id, o.reserved)
             s == a.pending
             t == b.pending
  <1>1. o.id \in OrderIds /\ o.reserved \in Nat
    BY DEF Order
  <1>2. /\ c \in Account
        /\ c.pending = s /\ c.fate = a.fate /\ c.fills = a.fills
        /\ c.flow = [a.flow EXCEPT ![o.id] = @ - o.reserved]
    BY <1>1, TakeCashEffect
  <1> HIDE DEF c
  <1>3. /\ b \in Account /\ t = Append(s, o)
        /\ b.fate = [a.fate EXCEPT ![o.id] = "pending"]
        /\ b.fills = a.fills
        /\ b.flow = [a.flow EXCEPT ![o.id] = @ - o.reserved]
    BY <1>2, EnqueueEffect DEF c
  <1>4. /\ s \in Seq(Order) /\ a.fate \in [OrderIds -> Fates]
        /\ a.flow \in [OrderIds -> Int]
    BY DEF Account
  <1>5. /\ DOMAIN s = 1 .. Len(s) /\ DOMAIN t = 1 .. Len(s) + 1
        /\ \A k \in DOMAIN s : t[k] = s[k] /\ s[k].id \in OrderIds
        /\ t[Len(s) + 1] = o /\ Len(s) \in Nat
    <2>1. /\ Len(s) \in Nat /\ DOMAIN s = 1 .. Len(s)
          /\ \A k \in DOMAIN s : s[k] \in Order
      BY <1>4
    <2>2. /\ Len(t) = Len(s) + 1 /\ DOMAIN t = 1 .. Len(t)
          /\ \A k \in 1 .. Len(s) : t[k] = s[k]
          /\ t[Len(s) + 1] = o
      BY <1>3, <1>4, AppendProperties
    <2> QED BY <2>1, <2>2 DEF Order
  <1> HIDE DEF s, t
  <1>6. \A k \in DOMAIN s : s[k].id # o.id
    BY <1>1 DEF Good, PendingIn, s
  <1>7. \A k \in DOMAIN t : k \in DOMAIN s \/ k = Len(s) + 1
    BY <1>5
  <1>8. DistinctIds(t)
    BY <1>5, <1>6, <1>7 DEF Good, DistinctIds, s
  <1>9. PendingIn(b, t)
    <2> SUFFICES ASSUME NEW i \in OrderIds
                 PROVE  b.fate[i] = "pending" <=> \E k \in DOMAIN t : t[k].id = i
      BY DEF PendingIn
    <2>1. CASE i = o.id
      BY <1>1, <1>3, <1>4, <1>5, <2>1
    <2>2. CASE i # o.id
      <3>1. b.fate[i] = a.fate[i]
        BY <1>3, <1>4, <2>2
      <3>2. (\E k \in DOMAIN t : t[k].id = i) <=> \E k \in DOMAIN s : s[k].id = i
        BY <1>5, <1>7, <2>2
      <3> QED BY <3>1, <3>2 DEF Good, PendingIn, s
    <2> QED BY <2>1, <2>2
  <1>10. FilledOnce(b)
    BY <1>1, <1>3, <1>4 DEF Good, FilledOnce
  <1>11. HoldsReserved(b, t)
    <2> SUFFICES ASSUME NEW k \in DOMAIN t
                 PROVE  /\ b.flow[t[k].id] = 0 - t[k].reserved
                        /\ t[k].side = "SELL" => t[k].reserved = 0
      BY DEF HoldsReserved
    <2>1. CASE k \in DOMAIN s
      BY <1>3, <1>4, <1>5, <1>6, <2>1 DEF Good, HoldsReserved, s
    <2>2. CASE k = Len(s) + 1
      <3>1. a.flow[o.id] = 0
        BY <1>1 DEF Good, NothingMoved
      <3>2. b.flow[o.id] = 0 - o.reserved
        BY <1>1, <1>3, <1>4, <3>1
      <3> QED BY <1>5, <2>2, <3>2
    <2> QED BY <1>7, <2>1, <2>2
  <1>12. NothingMoved(b)
    BY <1>1, <1>3, <1>4 DEF Good, NothingMoved
  <1> QED BY <1>3, <1>8, <1>9, <1>10, <1>11, <1>12 DEF Good, t

\* The orders that are left when one leaves are the others.
LEMMA RemovalIds ==
    ASSUME NEW s \in Seq(Order), NEW k \in DOMAIN s, NEW t,
           IsRemoval(t, s, k), DistinctIds(s)
    PROVE  /\ DistinctIds(t)
           /\ \A j \in DOMAIN t : \E m \in DOMAIN s : m # k /\ t[j] = s[m]
           /\ \A m \in DOMAIN s : m # k => \E j \in DOMAIN t : t[j] = s[m]
           /\ \A j \in DOMAIN t : t[j].id # s[k].id
  <1>1. /\ DOMAIN s = 1 .. Len(s) /\ Len(s) \in Nat /\ k \in 1 .. Len(s)
        /\ DOMAIN t = 1 .. Len(s) - 1
        /\ \A i \in DOMAIN t : t[i] = IF i < k THEN s[i] ELSE s[i + 1]
    BY DEF IsRemoval
  <1> DEFINE from(i) == IF i < k THEN i ELSE i + 1
  <1>2. \A i \in DOMAIN t : from(i) \in DOMAIN s /\ from(i) # k /\ t[i] = s[from(i)]
    BY <1>1
  <1>3. \A i, j \in DOMAIN t : from(i) = from(j) => i = j
    BY <1>1
  <1>4. ASSUME NEW m \in DOMAIN s, m # k
        PROVE  \E j \in DOMAIN t : t[j] = s[m]
    <2>1. CASE m < k
      <3>1. m \in DOMAIN t /\ t[m] = s[m]
        BY <1>1, <2>1
      <3> QED BY <3>1
    <2>2. CASE m > k
      <3>1. m - 1 \in DOMAIN t /\ t[m - 1] = s[m]
        BY <1>1, <2>2
      <3> QED BY <3>1
    <2> QED BY <1>1, <1>4, <2>1, <2>2
  <1> HIDE DEF from
  <1>5. DistinctIds(t)
    BY <1>2, <1>3 DEF DistinctIds
  <1>6. \A j \in DOMAIN t : t[j].id # s[k].id
    BY <1>2 DEF DistinctIds
  <1> QED BY <1>2, <1>4, <1>5, <1>6

\* From a to b one order is closed, and nothing else happens to the orders.
Closes(a, b, id) ==
    /\ \A i \in OrderIds : i # id =>
          /\ b.fate[i] = a.fate[i] /\ b.fills[i] = a.fills[i]
          /\ b.flow[i] = a.flow[i]
    /\ \/ b.fate[id] = "filled" /\ b.fills[id] = 1
       \/ b.fate[id] = "cancelled" /\ b.fills[id] = 0 /\ b.flow[id] = 0

\* An order leaves the book, executed or with its reservation given back.
LEMMA GoodRemoval ==
    ASSUME NEW a \in Account, NEW s \in Seq(Order), Good(a, s),
           NEW k \in DOMAIN s, NEW t, IsRemoval(t, s, k),
           NEW b \in Account, Closes(a, b, s[k].id)
    PROVE  Good(b, t)
  <1> DEFINE id == s[k].id
  <1>1. id \in OrderIds /\ \A m \in DOMAIN s : s[m].id \in OrderIds
    <2>1. \A m \in DOMAIN s : s[m] \in Order
      OBVIOUS
    <2> QED BY <2>1 DEF Order
  <1>2. DistinctIds(s)
    BY DEF Good
  <1>3. /\ DistinctIds(t)
        /\ \A j \in DOMAIN t : \E m \in DOMAIN s : m # k /\ t[j] = s[m]
        /\ \A m \in DOMAIN s : m # k => \E j \in DOMAIN t : t[j] = s[m]
        /\ \A j \in DOMAIN t : t[j].id # id
    BY <1>2, RemovalIds
  <1> HIDE DEF id
  <1>4. PendingIn(b, t)
    <2> SUFFICES ASSUME NEW i \in OrderIds
                 PROVE  b.fate[i] = "pending" <=> \E j \in DOMAIN t : t[j].id = i
      BY DEF PendingIn
    <2>1. CASE i = id
      BY <1>3, <2>1 DEF id, Closes
    <2>2. CASE i # id
      <3>1. b.fate[i] = a.fate[i]
        BY <2>2 DEF id, Closes
      <3>2. (\E j \in DOMAIN t : t[j].id = i) <=> \E m \in DOMAIN s : s[m].id = i
        BY <1>3, <2>2 DEF id
      <3> QED BY <3>1, <3>2 DEF Good, PendingIn
    <2> QED BY <2>1, <2>2
  <1>5. FilledOnce(b)
    <2> SUFFICES ASSUME NEW i \in OrderIds
                 PROVE  b.fills[i] = IF b.fate[i] = "filled" THEN 1 ELSE 0
      BY DEF FilledOnce
    <2>1. CASE i = id
      BY <2>1 DEF id, Closes
    <2>2. CASE i # id
      BY <2>2 DEF id, Closes, Good, FilledOnce
    <2> QED BY <2>1, <2>2
  <1>6. HoldsReserved(b, t)
    <2> SUFFICES ASSUME NEW j \in DOMAIN t
                 PROVE  /\ b.flow[t[j].id] = 0 - t[j].reserved
                        /\ t[j].side = "SELL" => t[j].reserved = 0
      BY DEF HoldsReserved
    <2>1. PICK m \in DOMAIN s : m # k /\ t[j] = s[m]
      BY <1>3
    <2>2. s[m].id # id /\ s[m].id \in OrderIds
      BY <1>1, <1>3, <2>1
    <2>3. b.flow[s[m].id] = a.flow[s[m].id]
      BY <2>2 DEF id, Closes
    <2> QED BY <2>1, <2>3 DEF Good, HoldsReserved
  <1>7. NothingMoved(b)
    <2> SUFFICES ASSUME NEW i \in OrderIds,
                        b.fate[i] \in {"none", "cancelled", "void"}
                 PROVE  b.flow[i] = 0
      BY DEF NothingMoved
    <2>1. CASE i = id
      BY <2>1 DEF id, Closes
    <2>2. CASE i # id
      BY <2>2 DEF id, Closes, Good, NothingMoved
    <2> QED BY <2>1, <2>2
  <1> QED BY <1>3, <1>4, <1>5, <1>6, <1>7 DEF Good

\* A pass fills an order of its book.
LEMMA GoodFillQueued ==
    ASSUME NEW a \in Account, NEW s \in Seq(Order), Good(a, s),
           NEW k \in DOMAIN s, NEW t, IsRemoval(t, s, k),
           NEW px \in Nat, NEW rate \in Nat,
           NEW b, b = FillOrder(a, s[k], px, rate)
    PROVE  b \in Account /\ Good(b, t)
  <1> DEFINE o == s[k]
  <1>1. o \in Order /\ o.id \in OrderIds
    <2>1. o \in Order
      OBVIOUS
    <2> QED BY <2>1 DEF Order
  <1> HIDE DEF o
  <1>2. /\ b \in Account
        /\ b.fate = [a.fate EXCEPT ![o.id] = "filled"]
        /\ b.fills = [a.fills EXCEPT ![o.id] = @ + 1]
        /\ \A i \in OrderIds : i # o.id => b.flow[i] = a.flow[i]
    BY <1>1, FillEffect DEF o
  <1>3. a.fate \in [OrderIds -> Fates] /\ a.fills \in [OrderIds -> Nat]
    BY DEF Account
  <1>4. a.fate[o.id] = "pending" /\ a.fills[o.id] = 0
    BY <1>1 DEF Good, PendingIn, FilledOnce, o
  <1>5. b.fate[o.id] = "filled" /\ b.fills[o.id] = 1
    BY <1>1, <1>2, <1>3, <1>4
  <1>6. \A i \in OrderIds : i # o.id =>
            /\ b.fate[i] = a.fate[i] /\ b.fills[i] = a.fills[i]
            /\ b.flow[i] = a.flow[i]
    BY <1>1, <1>2, <1>3
  <1>7. Closes(a, b, s[k].id)
    BY <1>5, <1>6 DEF o, Closes
  <1>8. Good(b, t)
    BY <1>2, <1>7, GoodRemoval
  <1> QED BY <1>2, <1>8

\* A cancellation.
LEMMA GoodCancel ==
    ASSUME NEW a \in Account, Good(a, a.pending), NEW k \in DOMAIN a.pending,
           NEW b, b = CancelOrder(a, k)
    PROVE  b \in Account /\ Good(b, b.pending)
  <1> DEFINE o == a.pending[k]
  <1>1. a.pending \in Seq(Order)
    BY DEF Account
  <1>2. /\ b \in Account /\ IsRemoval(b.pending, a.pending, k)
        /\ o \in Order
        /\ b.fate = [a.fate EXCEPT ![o.id] = "cancelled"]
        /\ b.fills = a.fills
        /\ b.flow = [a.flow EXCEPT ![o.id] =
                         @ + (IF o.side = "BUY" THEN o.reserved ELSE 0)]
    BY CancelEffect
  <1>3. /\ o.id \in OrderIds /\ o.reserved \in Nat /\ o.side \in {"BUY", "SELL"}
    BY <1>2 DEF Order
  <1>4. /\ a.fate \in [OrderIds -> Fates] /\ a.flow \in [OrderIds -> Int]
    BY DEF Account
  <1>5. /\ a.fate[o.id] = "pending" /\ a.fills[o.id] = 0
        /\ a.flow[o.id] = 0 - o.reserved
        /\ o.side = "SELL" => o.reserved = 0
    BY <1>3 DEF Good, PendingIn, FilledOnce, HoldsReserved
  <1> HIDE DEF o
  <1>6. b.fate[o.id] = "cancelled" /\ b.fills[o.id] = 0
    BY <1>2, <1>3, <1>4, <1>5
  <1>7. b.flow[o.id] = 0
    <2>1. b.flow[o.id] = a.flow[o.id] + (IF o.side = "BUY" THEN o.reserved ELSE 0)
      BY <1>2, <1>3, <1>4
    <2> QED BY <2>1, <1>3, <1>5
  <1>8. \A i \in OrderIds : i # o.id =>
            /\ b.fate[i] = a.fate[i] /\ b.fills[i] = a.fills[i]
            /\ b.flow[i] = a.flow[i]
    BY <1>2, <1>3, <1>4
  <1>9. Closes(a, b, a.pending[k].id)
    BY <1>6, <1>7, <1>8 DEF o, Closes
  <1>10. Good(b, b.pending)
    BY <1>1, <1>2, <1>9, GoodRemoval
  <1> QED BY <1>2, <1>10

\* An order that never waits: the debit and the fill in one call.
LEMMA GoodFillNow ==
    ASSUME NEW a \in Account, Good(a, a.pending),
           NEW o \in Order, a.fate[o.id] = "none",
           NEW px \in Nat, NEW rate \in Nat, NEW debit \in Nat,
           NEW b, b = FillOrder(TakeCash(a, o.id, debit), o, px, rate)
    PROVE  /\ b \in Account /\ Good(b, b.pending) /\ b.pending = a.pending
  <1> DEFINE c == TakeCash(a, o.id, debit)
  <1>1. o.id \in OrderIds
    BY DEF Order
  <1>2. /\ c \in Account
        /\ c.pending = a.pending /\ c.fate = a.fate /\ c.fills = a.fills
        /\ c.flow = [a.flow EXCEPT ![o.id] = @ - debit]
    BY <1>1, TakeCashEffect
  <1>0. b = FillOrder(c, o, px, rate)
    OBVIOUS
  <1> HIDE DEF c
  <1>3. /\ b \in Account /\ b.pending = a.pending
        /\ b.fate = [a.fate EXCEPT ![o.id] = "filled"]
        /\ b.fills = [a.fills EXCEPT ![o.id] = @ + 1]
        /\ \A i \in OrderIds : i # o.id => b.flow[i] = c.flow[i]
    <2>1. /\ b \in Account /\ b.pending = c.pending
          /\ b.fate = [c.fate EXCEPT ![o.id] = "filled"]
          /\ b.fills = [c.fills EXCEPT ![o.id] = @ + 1]
          /\ \A i \in OrderIds : i # o.id => b.flow[i] = c.flow[i]
      <3>1. c \in Account
        BY <1>2
      <3> QED BY <1>0, <3>1, FillEffect
    <2> QED BY <1>2, <2>1
  <1>4. /\ a.fate \in [OrderIds -> Fates] /\ a.fills \in [OrderIds -> Nat]
        /\ a.flow \in [OrderIds -> Int] /\ a.pending \in Seq(Order)
    BY DEF Account
  <1>5. \A i \in OrderIds : i # o.id =>
            /\ b.fate[i] = a.fate[i] /\ b.fills[i] = a.fills[i]
            /\ b.flow[i] = a.flow[i]
    BY <1>1, <1>2, <1>3, <1>4
  <1>6. a.fills[o.id] = 0
    BY <1>1 DEF Good, FilledOnce
  <1>7. b.fate[o.id] = "filled" /\ b.fills[o.id] = 1
    BY <1>1, <1>3, <1>4, <1>6
  <1>8. \A k \in DOMAIN a.pending : /\ a.pending[k].id # o.id
                                    /\ a.pending[k].id \in OrderIds
    <2>1. \A k \in DOMAIN a.pending : a.pending[k] \in Order
      BY <1>4
    <2>2. \A k \in DOMAIN a.pending : a.pending[k].id \in OrderIds
      BY <2>1 DEF Order
    <2> QED BY <1>1, <2>2 DEF Good, PendingIn
  <1>9. DistinctIds(b.pending)
    BY <1>3 DEF Good
  <1>10. PendingIn(b, b.pending)
    BY <1>3, <1>5, <1>7, <1>8 DEF Good, PendingIn
  <1>11. FilledOnce(b)
    BY <1>5, <1>7 DEF Good, FilledOnce
  <1>12. HoldsReserved(b, b.pending)
    BY <1>3, <1>5, <1>8 DEF Good, HoldsReserved
  <1>13. NothingMoved(b)
    BY <1>5, <1>7 DEF Good, NothingMoved
  <1> QED BY <1>3, <1>9, <1>10, <1>11, <1>12, <1>13 DEF Good

\* A modification keeps every order's id, side and reservation.
LEMMA GoodModify ==
    ASSUME NEW a \in Account, Good(a, a.pending), NEW k \in DOMAIN a.pending,
           NEW trigger \in Nat, NEW b, b = ModifyOrder(a, k, trigger)
    PROVE  b \in Account /\ Good(b, b.pending)
  <1>1. /\ b \in Account
        /\ b.fate = a.fate /\ b.fills = a.fills /\ b.flow = a.flow
        /\ Len(b.pending) = Len(a.pending)
        /\ \A j \in 1 .. Len(a.pending) :
              /\ b.pending[j].id = a.pending[j].id
              /\ b.pending[j].side = a.pending[j].side
              /\ b.pending[j].reserved = a.pending[j].reserved
    BY ModifyEffect
  <1>2. /\ DOMAIN a.pending = 1 .. Len(a.pending)
        /\ DOMAIN b.pending = 1 .. Len(a.pending)
    BY <1>1 DEF Account
  <1>3. FilledOnce(b) /\ NothingMoved(b)
    BY <1>1 DEF Good, FilledOnce, NothingMoved
  <1>4. DistinctIds(b.pending)
    BY <1>1, <1>2 DEF Good, DistinctIds
  <1>5. PendingIn(b, b.pending)
    BY <1>1, <1>2 DEF Good, PendingIn
  <1>6. HoldsReserved(b, b.pending)
    BY <1>1, <1>2 DEF Good, HoldsReserved
  <1> QED BY <1>1, <1>3, <1>4, <1>5, <1>6 DEF Good

\* Only these three fields matter.
LEMMA GoodSame ==
    ASSUME NEW a, NEW book, Good(a, book), NEW b,
           b.fate = a.fate, b.fills = a.fills, b.flow = a.flow
    PROVE  Good(b, book)
  BY DEF Good, PendingIn, FilledOnce, HoldsReserved, NothingMoved

-----------------------------------------------------------------------------
(***************************************************************************)
(* What submit_order computes, and what a restart loads.                   *)
(***************************************************************************)
LEMMA GapBufferType == \A amount \in Nat : GapBuffer(amount) \in Nat
  BY DEF GapBuffer

\* A sale debits nothing.
LEMMA DebitType ==
    ASSUME NEW o \in OrderShape, NEW open, NEW live \in Nat, NEW rate \in Nat
    PROVE  /\ ReferencePrice(o, live) \in Nat
           /\ Debit(o, open, live, rate) \in Nat
           /\ o.side = "SELL" => Debit(o, open, live, rate) = 0
  <1> DEFINE amount == ReferencePrice(o, live) * o.qty * rate
  <1>1. o.trigger \in Nat /\ o.qty \in Nat
    BY DEF OrderShape
  <1>2. ReferencePrice(o, live) \in Nat
    BY <1>1 DEF ReferencePrice
  <1>3. ReferencePrice(o, live) * o.qty \in Nat
    BY <1>1, <1>2
  <1>4. amount \in Nat
    BY <1>3
  <1> HIDE DEF amount
  <1>5. GapBuffer(amount) \in Nat
    BY <1>4, GapBufferType
  <1> QED BY <1>2, <1>4, <1>5 DEF Debit, amount

LEMMA MakeOrderType ==
    ASSUME NEW o \in OrderShape, NEW id \in OrderIds, NEW debit \in Nat,
           NEW m, m = MakeOrder(o, id, debit)
    PROVE  /\ m \in Order
           /\ m.id = id /\ m.side = o.side /\ m.reserved = debit
  BY DEF MakeOrder, OrderShape, Order

\* A restart keeps the account on disk or opens a new one over its history.
LEMMA LoadStateEffect ==
    ASSUME NEW d \in Account, NEW cash \in Nat, NEW ex \in BOOLEAN,
           NEW b, b = LoadState(ex, d, cash)
    PROVE  /\ b \in Account
           /\ b = d \/ b = Fresh(cash, d.fate, d.fills)
  <1>1. b = d \/ b = Fresh(cash, d.fate, d.fills)
    BY DEF LoadState
  <1>2. d.fate \in [OrderIds -> Fates] /\ d.fills \in [OrderIds -> Nat]
    BY DEF Account
  <1>3. b = Fresh(cash, d.fate, d.fills) => b \in Account
    BY <1>2, FreshEffect
  <1> QED BY <1>1, <1>3

\* The debit of an accepted order leaves the account solid.
LEMMA TakeCashSolid ==
    ASSUME NEW a \in Account, Solid(a), NEW o \in OrderShape,
           NEW id \in OrderIds, NEW debit \in Nat, Affordable(a, o, debit),
           o.side = "SELL" => debit = 0,
           NEW b, b = TakeCash(a, id, debit)
    PROVE  b \in Account /\ Solid(b)
  <1>1. b \in Account
    BY TakeCashEffect
  <1>3. b.cash = a.cash - debit /\ b.overrun = a.overrun
    BY DEF TakeCash, Account
  <1>2. a.cash \in Int /\ a.overrun \in Nat
    BY DEF Account
  <1> QED BY <1>1, <1>2, <1>3 DEF Solid, Affordable

\* From a to b the fate of one order, id, becomes new.
Moved(a, b, id, new) ==
    /\ b.fate[id] = new
    /\ \A i \in OrderIds : i # id => b.fate[i] = a.fate[i]

LEMMA TakeCashMoves ==
    ASSUME NEW a \in Account, NEW id \in OrderIds, NEW debit \in Nat,
           NEW b, b = TakeCash(a, id, debit)
    PROVE  b \in Account /\ b.fate = a.fate
  BY TakeCashEffect DEF TakeCash, Account

LEMMA QueueMoves ==
    ASSUME NEW a \in Account, NEW o \in Order,
           NEW b, b = Enqueue(TakeCash(a, o.id, o.reserved), o)
    PROVE  Moved(a, b, o.id, "pending")
  <1>1. b.fate = [a.fate EXCEPT ![o.id] = "pending"]
    BY DEF Enqueue, TakeCash, Account
  <1>2. o.id \in OrderIds /\ a.fate \in [OrderIds -> Fates]
    BY DEF Order, Account
  <1> QED BY <1>1, <1>2 DEF Moved

LEMMA FillMoves ==
    ASSUME NEW a \in Account, NEW o \in Order, NEW px \in Nat, NEW rate \in Nat,
           NEW b, b = FillOrder(a, o, px, rate)
    PROVE  Moved(a, b, o.id, "filled")
  <1>1. /\ b \in Account
        /\ b.fate = [a.fate EXCEPT ![o.id] = "filled"]
        /\ b.fills = [a.fills EXCEPT ![o.id] = @ + 1]
        /\ \A i \in OrderIds : i # o.id => b.flow[i] = a.flow[i]
    BY FillEffect
  <1>2. o.id \in OrderIds /\ a.fate \in [OrderIds -> Fates]
    BY DEF Order, Account
  <1> QED BY <1>1, <1>2 DEF Moved

LEMMA CancelMoves ==
    ASSUME NEW a \in Account, NEW k \in DOMAIN a.pending,
           NEW b, b = CancelOrder(a, k)
    PROVE  a.pending[k] \in Order /\ Moved(a, b, a.pending[k].id, "cancelled")
  <1> DEFINE o == a.pending[k]
  <1>1. o \in Order /\ b.fate = [a.fate EXCEPT ![o.id] = "cancelled"]
    BY CancelEffect
  <1>2. o.id \in OrderIds /\ a.fate \in [OrderIds -> Fates]
    BY <1>1 DEF Order, Account
  <1> HIDE DEF o
  <1>3. Moved(a, b, o.id, "cancelled")
    BY <1>1, <1>2 DEF Moved
  <1> QED BY <1>1, <1>3 DEF o

-----------------------------------------------------------------------------
(***************************************************************************)
(* Types and control.                                                      *)
(***************************************************************************)
LEMMA NoPassType ==
    NoPass \in [todo: Seq(Order), keep: Seq(Order), dirty: BOOLEAN,
                px: [Tickers -> Nat]]
  BY DEF NoPass

\* A call that lets go of the lock leaves nothing behind.
LEMMA ReleaseControl == Release => ControlOK'
  BY NoPassType DEF Release, ControlOK, NoCall

LEMMA PricesType == [Tickers -> Prices] \subseteq [Tickers -> Nat]
  BY ConstantsAssumption DEF ConstantsAssumption

LEMMA ControlInit == Init => ControlOK
  BY NoPassType DEF Init, ControlOK, NoCall

\* Where each action leaves the call.
LEMMA ControlStep == TypeOK /\ Next => ControlOK'
  <1> SUFFICES ASSUME TypeOK, Next PROVE ControlOK'
    OBVIOUS
  <1> USE DEF TypeOK
  <1>1. CASE BeginCall
    <2>1. PICK c \in Calls : call' = c
      BY <1>1 DEF BeginCall
    <2>2. call' # NoCall
      BY <2>1 DEF Calls, NoCall
    <2>3. CASE mem.pending = <<>>
      <3>1. call' \in Calls /\ call'.name # "read" /\ pc' = "apply" /\ pass' = NoPass
        BY <1>1, <2>1, <2>3 DEF BeginCall
      <3> QED BY <3>1, NoPassType DEF ControlOK
    <2>4. CASE mem.pending # <<>>
      <3>1. PICK px \in [Tickers -> Prices] :
                pass' = [NoPass EXCEPT !.todo = mem.pending, !.px = px]
        BY <1>1, <2>4 DEF BeginCall
      <3>2. mem.pending \in Seq(Order) /\ px \in [Tickers -> Nat]
        BY PricesType DEF AccountsOK, Account
      <3>3. pass' \in [todo: Seq(Order), keep: Seq(Order), dirty: BOOLEAN,
                       px: [Tickers -> Nat]]
        <4>1. pass' = [todo |-> mem.pending, keep |-> <<>>, dirty |-> FALSE,
                       px |-> px]
          BY <3>1 DEF NoPass
        <4>2. <<>> \in Seq(Order)
          OBVIOUS
        <4> QED BY <3>2, <4>1, <4>2
      <3>4. pc' = "reconcile"
        BY <1>1, <2>4 DEF BeginCall
      <3> QED BY <2>1, <2>2, <3>3, <3>4 DEF ControlOK
    <2> QED BY <2>3, <2>4
  <1>2. CASE KeepOrder
    <2>1. /\ pass.todo \in Seq(Order) /\ pass.todo # <<>>
          /\ pass.keep \in Seq(Order)
      BY <1>2 DEF KeepOrder, ControlOK
    <2>2. Tail(pass.todo) \in Seq(Order) /\ Head(pass.todo) \in Order
      BY <2>1
    <2>3. Append(pass.keep, Head(pass.todo)) \in Seq(Order)
      BY <2>1, <2>2
    <2>4. pass' \in [todo: Seq(Order), keep: Seq(Order), dirty: BOOLEAN,
                     px: [Tickers -> Nat]]
      BY <1>2, <2>2, <2>3 DEF KeepOrder, ControlOK
    <2> QED BY <1>2, <2>4 DEF KeepOrder, ControlOK
  <1>3. CASE FillQueued
    <2>1. CASE Release
      BY <2>1, ReleaseControl
    <2>2. CASE /\ pass' = [pass EXCEPT !.todo = Tail(@), !.dirty = TRUE]
               /\ UNCHANGED <<pc, call>>
      <3>1. Tail(pass.todo) \in Seq(Order)
        BY <1>3 DEF FillQueued, ControlOK
      <3>2. pass' \in [todo: Seq(Order), keep: Seq(Order), dirty: BOOLEAN,
                       px: [Tickers -> Nat]]
        BY <2>2, <3>1 DEF ControlOK
      <3> QED BY <2>2, <3>2 DEF ControlOK
    <2> QED BY <1>3, <2>1, <2>2 DEF FillQueued, Row
  <1>4. CASE EndReconcile
    <2>1. \/ Release
          \/ call.name # "read" /\ pc' = "apply" /\ call' = call /\ pass' = NoPass
      BY <1>4 DEF EndReconcile, Persist
    <2>2. call \in Calls
      BY <1>4 DEF EndReconcile, ControlOK
    <2> QED BY <2>1, <2>2, ReleaseControl, NoPassType DEF ControlOK
  <1>5. CASE RejectOrder
    BY <1>5, ReleaseControl DEF RejectOrder, Row, Release
  <1>6. CASE QueueOrder
    <2>1. \/ Release
          \/ \E id \in OrderIds : /\ pc' = "queued" /\ pass' = NoPass
                                  /\ call' = [name |-> "row", id |-> id]
      BY <1>6 DEF QueueOrder, Persist
    <2> QED BY <2>1, ReleaseControl, NoPassType DEF ControlOK
  <1>7. CASE FillNow
    <2>1. \/ Release
          \/ \E live \in Prices : /\ pc' = "save" /\ pass' = NoPass
                                  /\ call' = [name |-> "fill", order |-> call.order,
                                              live |-> live]
      BY <1>7 DEF FillNow, Row
    <2>2. call.order \in Shapes
      BY <1>7 DEF FillNow, Submitting, ControlOK, Calls
    <2> QED BY <2>1, <2>2, ReleaseControl, NoPassType DEF ControlOK
  <1>8. CASE SaveFill
    BY <1>8, ReleaseControl DEF SaveFill, Persist
  <1>9. CASE WriteRow
    BY <1>9, ReleaseControl DEF WriteRow, Row
  <1>10. CASE NotPending
    BY <1>10, ReleaseControl DEF NotPending
  <1>11. CASE Cancel
    <2>1. Release \/ (pc' = "cancelled" /\ UNCHANGED <<call, pass>>)
      BY <1>11 DEF Cancel, Persist, Goto
    <2>2. call \in [name: {"cancel"}, id: OrderIds]
      BY <1>11 DEF Cancel, ControlOK, Calls
    <2> QED BY <2>1, <2>2, ReleaseControl DEF ControlOK
  <1>12. CASE Modify
    <2>1. Release \/ (pc' = "modified" /\ UNCHANGED <<call, pass>>)
      BY <1>12 DEF Modify, Persist, Goto
    <2>2. call \in [name: {"modify"}, id: OrderIds, trigger: Triggers]
      BY <1>12 DEF Modify, ControlOK, Calls
    <2> QED BY <2>1, <2>2, ReleaseControl DEF ControlOK
  <1>13. CASE Deposit
    BY <1>13, ReleaseControl DEF Deposit, Persist
  <1>14. CASE Reset
    BY <1>14, ReleaseControl DEF Reset
  <1>15. CASE Restart
    BY <1>15, ReleaseControl DEF Restart
  <1> QED BY <1>1, <1>2, <1>3, <1>4, <1>5, <1>6, <1>7, <1>8, <1>9, <1>10,
             <1>11, <1>12, <1>13, <1>14, <1>15 DEF Next

-----------------------------------------------------------------------------
(***************************************************************************)
(* The accounts: each action leaves accounts, and none leaves one whose    *)
(* cash is short by more than its overrun.                                 *)
(***************************************************************************)
\* What submit_order works with.
LEMMA SubmitTypes ==
    ASSUME TypeOK, Submitting, NEW open, NEW live \in Prices,
           NEW rate \in Rates, NEW id \in OrderIds, NEW debit,
           debit = Debit(call.order, open, live, rate)
    PROVE  /\ call.order \in OrderShape
           /\ ReferencePrice(call.order, live) \in Nat /\ rate \in Nat
           /\ debit \in Nat
           /\ call.order.side = "SELL" => debit = 0
           /\ MakeOrder(call.order, id, debit) \in Order
           /\ MakeOrder(call.order, id, debit).id = id
           /\ MakeOrder(call.order, id, debit).side = call.order.side
           /\ MakeOrder(call.order, id, debit).reserved = debit
  <1>1. call.order \in Shapes
    BY DEF TypeOK, ControlOK, Submitting, Calls
  <1>2. call.order \in OrderShape /\ live \in Nat /\ rate \in Nat
    BY <1>1, ConstantsAssumption DEF ConstantsAssumption
  <1>3. /\ ReferencePrice(call.order, live) \in Nat
        /\ debit \in Nat
        /\ call.order.side = "SELL" => debit = 0
    <2>1. /\ Debit(call.order, open, live, rate) \in Nat
          /\ call.order.side = "SELL" => Debit(call.order, open, live, rate) = 0
          /\ ReferencePrice(call.order, live) \in Nat
      BY <1>2, DebitType
    <2> QED BY <2>1
  <1> QED BY <1>2, <1>3, MakeOrderType

\* Every step of memory is an account, and a solid one if it was.
Keeps(a, b) == b \in Account /\ (Solid(a) => Solid(b))

LEMMA MemoryStep == TypeOK /\ Next =>
    /\ mem' \in Account
    /\ Solid(mem) /\ Solid(disk) => Solid(mem')
  <1> SUFFICES ASSUME TypeOK, Next
               PROVE  Keeps(mem, mem') \/ (mem' \in Account /\ (Solid(disk) => Solid(mem')))
    BY DEF Keeps
  <1>0. mem \in Account /\ disk \in Account
    BY DEF TypeOK, AccountsOK
  <1>1. CASE UNCHANGED mem
    BY <1>0, <1>1 DEF Keeps, Solid
  <1>2. CASE FillQueued
    <2> DEFINE o == Head(pass.todo)
               px == pass.px[o.ticker]
    <2>1. o \in Order
      BY <1>2 DEF FillQueued, TypeOK, ControlOK
    <2>2. px \in Nat
      BY <2>1 DEF Order, TypeOK, ControlOK
    <2>3. PICK rate \in Rates : mem' = FillOrder(mem, o, px, rate)
      BY <1>2 DEF FillQueued
    <2>4. rate \in Nat
      BY ConstantsAssumption DEF ConstantsAssumption
    <2> HIDE DEF o, px
    <2>5. mem' \in Account /\ (mem.cash + mem.overrun >= 0 => mem'.cash + mem'.overrun >= 0)
      BY <1>0, <2>1, <2>2, <2>3, <2>4, FillEffect
    <2> QED BY <2>5 DEF Keeps, Solid
  <1>3. CASE EndReconcile
    <2>1. pass.keep \in Seq(Order) /\ mem' = [mem EXCEPT !.pending = pass.keep]
      BY <1>3 DEF EndReconcile, TypeOK, ControlOK
    <2>2. mem' \in Account /\ mem'.cash = mem.cash /\ mem'.overrun = mem.overrun
      BY <1>0, <2>1, SetPendingEffect
    <2> QED BY <2>2 DEF Keeps, Solid
  <1>4. CASE QueueOrder
    <2>1. PICK id \in OrderIds, open \in BOOLEAN, live \in Prices, rate \in Rates :
            LET debit == Debit(call.order, open, live, rate)
            IN  /\ Affordable(mem, call.order, debit)
                /\ mem' = Enqueue(TakeCash(mem, id, debit),
                                  MakeOrder(call.order, id, debit))
      BY <1>4 DEF QueueOrder
    <2> DEFINE debit == Debit(call.order, open, live, rate)
               c == TakeCash(mem, id, debit)
               o == MakeOrder(call.order, id, debit)
    <2>2. Submitting
      BY <1>4 DEF QueueOrder
    <2>3. /\ call.order \in OrderShape
          /\ debit \in Nat
          /\ call.order.side = "SELL" => debit = 0
          /\ o \in Order
      BY <2>2, SubmitTypes
    <2>4. mem' = Enqueue(c, o) /\ Affordable(mem, call.order, debit)
      BY <2>1
    <2>5. c = TakeCash(mem, id, debit)
      OBVIOUS
    <2> HIDE DEF debit, c, o
    <2>6. c \in Account
      BY <1>0, <2>3, <2>5, TakeCashEffect
    <2>7. Solid(mem) => Solid(c)
      BY <1>0, <2>3, <2>4, <2>5, TakeCashSolid
    <2>8. mem' \in Account /\ mem'.cash = c.cash /\ mem'.overrun = c.overrun
      BY <2>3, <2>4, <2>6, EnqueueEffect
    <2> QED BY <2>7, <2>8 DEF Keeps, Solid
  <1>5. CASE FillNow
    <2>1. PICK id \in OrderIds, live \in Prices, rate \in Rates, fillRate \in Rates :
            LET debit == Debit(call.order, TRUE, live, rate)
            IN  /\ Affordable(mem, call.order, debit)
                /\ mem' = FillOrder(TakeCash(mem, id, debit),
                                    MakeOrder(call.order, id, debit),
                                    ReferencePrice(call.order, live), fillRate)
      BY <1>5 DEF FillNow
    <2> DEFINE open == TRUE
               debit == Debit(call.order, open, live, rate)
               c == TakeCash(mem, id, debit)
               o == MakeOrder(call.order, id, debit)
               px == ReferencePrice(call.order, live)
    <2>2. Submitting
      BY <1>5 DEF FillNow
    <2>3. mem' = FillOrder(c, o, px, fillRate) /\ Affordable(mem, call.order, debit)
      BY <2>1
    <2> HIDE DEF open
    <2>4. /\ call.order \in OrderShape
          /\ debit \in Nat
          /\ call.order.side = "SELL" => debit = 0
          /\ o \in Order /\ px \in Nat
      BY <2>2, SubmitTypes
    <2>9. fillRate \in Nat
      BY ConstantsAssumption DEF ConstantsAssumption
    <2>5. c = TakeCash(mem, id, debit)
      OBVIOUS
    <2> HIDE DEF debit, c, o, px
    <2>6. c \in Account
      BY <1>0, <2>4, <2>5, TakeCashEffect
    <2>7. Solid(mem) => Solid(c)
      BY <1>0, <2>3, <2>4, <2>5, TakeCashSolid
    <2>8. mem' \in Account /\ (c.cash + c.overrun >= 0 => mem'.cash + mem'.overrun >= 0)
      BY <2>3, <2>4, <2>6, <2>9, FillEffect
    <2> QED BY <2>7, <2>8 DEF Keeps, Solid
  <1>6. CASE Cancel
    <2>1. PICK k \in DOMAIN mem.pending : mem' = CancelOrder(mem, k)
      BY <1>6 DEF Cancel
    <2>2. mem' \in Account /\ (mem.cash + mem.overrun >= 0 => mem'.cash + mem'.overrun >= 0)
      BY <1>0, <2>1, CancelEffect
    <2> QED BY <2>2 DEF Keeps, Solid
  <1>7. CASE Modify
    <2>1. PICK k \in DOMAIN mem.pending : mem' = ModifyOrder(mem, k, call.trigger)
      BY <1>7 DEF Modify
    <2>2. call.name = "modify" /\ call \in Calls
      BY <1>7 DEF Modify, TypeOK, ControlOK
    <2>3. call.trigger \in Triggers
      BY <2>2 DEF Calls
    <2>4. call.trigger \in Nat
      BY <2>3, ConstantsAssumption DEF ConstantsAssumption
    <2>5. mem' \in Account /\ mem'.cash = mem.cash /\ mem'.overrun = mem.overrun
      BY <1>0, <2>1, <2>4, ModifyEffect
    <2> QED BY <2>5 DEF Keeps, Solid
  <1>8. CASE Deposit
    <2>1. PICK amount \in Deposits : mem' = Credit(mem, amount)
      BY <1>8 DEF Deposit
    <2>2. amount \in Nat
      BY ConstantsAssumption DEF ConstantsAssumption
    <2>3. /\ mem' \in Account
          /\ mem'.cash = mem.cash + amount /\ mem'.overrun = mem.overrun
      BY <1>0, <2>1, <2>2, CreditEffect
    <2>4. mem.cash \in Int /\ mem.overrun \in Nat
      BY <1>0 DEF Account
    <2> QED BY <2>2, <2>3, <2>4 DEF Keeps, Solid
  <1>9. CASE Reset
    <2>1. mem' = Fresh(born, mem.fate, mem.fills)
      BY <1>9 DEF Reset
    <2>2. born \in Nat
      BY ConstantsAssumption DEF ConstantsAssumption, TypeOK, AccountsOK
    <2>3. mem.fate \in [OrderIds -> Fates] /\ mem.fills \in [OrderIds -> Nat]
      BY <1>0 DEF Account
    <2>4. mem' \in Account /\ mem'.cash = born /\ mem'.overrun = 0
      BY <2>1, <2>2, <2>3, FreshEffect
    <2> QED BY <2>2, <2>4 DEF Keeps, Solid
  <1>10. CASE Restart
    <2>1. PICK cash \in StartingCash : mem' = LoadState(exists, disk, cash)
      BY <1>10 DEF Restart
    <2>2. cash \in Nat /\ exists \in BOOLEAN
      BY ConstantsAssumption DEF ConstantsAssumption, TypeOK, AccountsOK
    <2>3. mem' \in Account /\ (mem' = disk \/ mem' = Fresh(cash, disk.fate, disk.fills))
      BY <1>0, <2>1, <2>2, LoadStateEffect
    <2>4. disk.fate \in [OrderIds -> Fates] /\ disk.fills \in [OrderIds -> Nat]
      BY <1>0 DEF Account
    <2>5. mem' = Fresh(cash, disk.fate, disk.fills) => Solid(mem')
      <3> SUFFICES ASSUME mem' = Fresh(cash, disk.fate, disk.fills) PROVE Solid(mem')
        OBVIOUS
      <3>1. mem'.cash = cash /\ mem'.overrun = 0
        BY <2>2, <2>4, FreshEffect
      <3> QED BY <2>2, <3>1 DEF Solid
    <2> QED BY <2>3, <2>5
  <1> QED BY <1>1, <1>2, <1>3, <1>4, <1>5, <1>6, <1>7, <1>8, <1>9, <1>10
          DEF Next, BeginCall, KeepOrder, RejectOrder, SaveFill, WriteRow, NotPending

\* The file: only a save writes it, and a save writes what memory became.
LEMMA DiskStep == Next =>
    \/ disk' = disk /\ exists' = exists
    \/ disk' = mem' /\ exists' \in BOOLEAN /\ pc' # "reconcile"
  BY DEF Next, BeginCall, KeepOrder, FillQueued, EndReconcile, RejectOrder,
         QueueOrder, FillNow, SaveFill, WriteRow, NotPending, Cancel, Modify,
         Deposit, Reset, Restart, Persist, Release, Goto

LEMMA TypeInit == Init => TypeOK
  <1> SUFFICES ASSUME Init PROVE TypeOK
    OBVIOUS
  <1>1. PICK cash \in StartingCash : born = cash /\ mem = NewAccount(cash)
    BY DEF Init
  <1>2. cash \in Nat
    BY ConstantsAssumption DEF ConstantsAssumption
  <1> DEFINE fate == [i \in OrderIds |-> "none"]
             fills == [i \in OrderIds |-> 0]
  <1>3. fate \in [OrderIds -> Fates] /\ fills \in [OrderIds -> Nat]
    BY DEF Fates
  <1>4. mem = Fresh(cash, fate, fills)
    BY <1>1 DEF NewAccount
  <1> HIDE DEF fate, fills
  <1>5. mem \in Account
    BY <1>2, <1>3, <1>4, FreshEffect
  <1>6. AccountsOK
    BY <1>1, <1>5 DEF Init, AccountsOK, Statuses
  <1> QED BY <1>6, ControlInit DEF TypeOK

LEMMA RowsType ==
    ASSUME TypeOK, NEW i \in OrderIds, NEW status \in Statuses,
           audit' = [audit EXCEPT ![i] = status]
    PROVE  audit' \in [OrderIds -> Statuses]
  BY DEF TypeOK, AccountsOK

LEMMA AuditStep == TypeOK /\ Next => audit' \in [OrderIds -> Statuses]
  <1> SUFFICES ASSUME TypeOK, Next PROVE audit' \in [OrderIds -> Statuses]
    OBVIOUS
  <1>0. /\ "FILLED" \in Statuses /\ "REJECTED" \in Statuses
        /\ "QUEUED" \in Statuses /\ "CANCELLED" \in Statuses
        /\ "MODIFIED" \in Statuses
    BY DEF Statuses
  <1>1. CASE UNCHANGED audit
    BY <1>1 DEF TypeOK, AccountsOK
  <1>2. CASE FillQueued
    <2>1. Head(pass.todo) \in Order
      BY <1>2 DEF FillQueued, TypeOK, ControlOK
    <2>2. Head(pass.todo).id \in OrderIds
      BY <2>1 DEF Order
    <2>3. UNCHANGED audit \/ audit' = [audit EXCEPT ![Head(pass.todo).id] = "FILLED"]
      BY <1>2 DEF FillQueued, Row
    <2> QED BY <1>0, <1>1, <2>2, <2>3, RowsType
  <1>3. CASE RejectOrder
    <2>1. UNCHANGED audit \/ \E id \in OrderIds : audit' = [audit EXCEPT ![id] = "REJECTED"]
      BY <1>3 DEF RejectOrder, Row
    <2> QED BY <1>0, <1>1, <2>1, RowsType
  <1>4. CASE FillNow
    <2>1. UNCHANGED audit \/ \E id \in OrderIds : audit' = [audit EXCEPT ![id] = "FILLED"]
      BY <1>4 DEF FillNow, Row
    <2> QED BY <1>0, <1>1, <2>1, RowsType
  <1>5. CASE WriteRow
    <2>1. call.id \in OrderIds
      BY <1>5 DEF WriteRow, TypeOK, ControlOK
    <2>2. \/ UNCHANGED audit
          \/ audit' = [audit EXCEPT ![call.id] = "QUEUED"]
          \/ audit' = [audit EXCEPT ![call.id] = "CANCELLED"]
          \/ audit' = [audit EXCEPT ![call.id] = "MODIFIED"]
      BY <1>5 DEF WriteRow, Row
    <2> QED BY <1>0, <1>1, <2>1, <2>2, RowsType
  <1> QED BY <1>1, <1>2, <1>3, <1>4, <1>5
          DEF Next, BeginCall, KeepOrder, EndReconcile, QueueOrder, SaveFill,
              NotPending, Cancel, Modify, Deposit, Reset, Restart

LEMMA AccountsStep == TypeOK /\ Next => AccountsOK'
  <1> SUFFICES ASSUME TypeOK, Next PROVE AccountsOK'
    OBVIOUS
  <1>1. mem' \in Account
    BY MemoryStep
  <1>2. disk' \in Account /\ exists' \in BOOLEAN
    BY <1>1, DiskStep DEF TypeOK, AccountsOK
  <1>3. audit' \in [OrderIds -> Statuses]
    BY AuditStep
  <1>4. born' \in StartingCash /\ used' \subseteq OrderIds
    BY DEF TypeOK, AccountsOK, Next, BeginCall, KeepOrder, FillQueued,
           EndReconcile, RejectOrder, QueueOrder, FillNow, SaveFill, WriteRow,
           NotPending, Cancel, Modify, Deposit, Reset, Restart
  <1>5. behind' \in BOOLEAN
    BY Zenon DEF TypeOK, AccountsOK, Next, BeginCall, KeepOrder, FillQueued,
           EndReconcile, RejectOrder, QueueOrder, FillNow, SaveFill, WriteRow,
           NotPending, Cancel, Modify, Deposit, Reset, Restart, Persist, Row
  <1> QED BY <1>1, <1>2, <1>3, <1>4, <1>5 DEF AccountsOK

LEMMA TypeStutter == TypeOK /\ UNCHANGED vars => TypeOK'
  BY DEF TypeOK, AccountsOK, ControlOK, vars

\* Whatever fails, the state has its type and every call stands at a place
\* that its kind of call can reach.
THEOREM TypeCorrect == Spec => []TypeOK
  <1>1. Init => TypeOK
    BY TypeInit
  <1>2. TypeOK /\ [Next]_vars => TypeOK'
    BY ControlStep, AccountsStep, TypeStutter DEF TypeOK
  <1> QED BY <1>1, <1>2, PTL DEF Spec

\* Whatever fails, and whatever prices and rates do, neither the account in
\* memory nor the one on disk owes more than fills have cost beyond what their
\* orders had reserved: submit_order's affordability checks, the refunds of
\* cancel_order and the gap buffer never create money.
THEOREM Solvent == Spec => []Solvency
  <1> DEFINE Inv == TypeOK /\ Solid(mem) /\ Solid(disk)
  <1>1. Init => Inv
    <2> SUFFICES ASSUME Init PROVE Solid(mem) /\ Solid(disk)
      BY TypeInit
    <2>1. PICK cash \in StartingCash : mem = NewAccount(cash)
      BY DEF Init
    <2>2. cash \in Nat
      BY ConstantsAssumption DEF ConstantsAssumption
    <2>3. mem.cash = cash /\ mem.overrun = 0
      BY <2>1 DEF NewAccount, Fresh
    <2> QED BY <2>2, <2>3 DEF Init, Solid
  <1>2. Inv /\ Next => Inv'
    <2> SUFFICES ASSUME Inv, Next PROVE Solid(mem)' /\ Solid(disk)'
      BY ControlStep, AccountsStep DEF TypeOK
    <2>1. Solid(mem')
      BY MemoryStep
    <2> QED BY <2>1, DiskStep DEF Solid
  <1>3. Inv /\ UNCHANGED vars => Inv'
    BY TypeStutter DEF vars, Solid
  <1>4. Inv => Solvency
    BY DEF Solid, Solvency
  <1> QED BY <1>1, <1>2, <1>3, <1>4, PTL DEF Spec

-----------------------------------------------------------------------------
(***************************************************************************)
(* Orders.  A fill that cannot be audited stays in the queue and is filled *)
(* again, so what follows assumes that the audit file can be written.      *)
(*                                                                         *)
(* The invariant adds to BookIsExact and ReservationsExact that they hold  *)
(* of the account on disk too (a restart makes it the account in memory),  *)
(* that memory is never behind the disk, that an id drawn for the first    *)
(* time is unknown to the account, and that a row about to be written is   *)
(* not about an executed order.                                            *)
(***************************************************************************)
\* Whatever became of an order between account d and account m, it may.
Ahead(d, m) ==
    \A i \in OrderIds :
        /\ d.fate[i] \in Lifecycle!Closed => m.fate[i] = d.fate[i]
        /\ m.fate[i] = "none" => d.fate[i] = "none"

IdsFresh == \A i \in OrderIds \ used : mem.fate[i] = "none"

RowsGood ==
    /\ \A i \in OrderIds : mem.fate[i] = "filled" => audit[i] = "FILLED"
    /\ pc \in {"queued", "cancelled", "modified"} => mem.fate[call.id] # "filled"

IInv == /\ TypeOK
        /\ Good(mem, Book) /\ Good(disk, disk.pending)
        /\ Ahead(disk, mem) /\ IdsFresh /\ RowsGood

\* One order gets a fate it may have; the rest of the orders keep theirs.
LEMMA AheadOfOne ==
    ASSUME NEW a \in Account, NEW b, NEW id \in OrderIds, NEW new,
           Moved(a, b, id, new), a.fate[id] \notin Lifecycle!Closed, new # "none"
    PROVE  Ahead(a, b)
  BY DEF Ahead, Moved

\* A replaced account is ahead of the one it replaces.
LEMMA AheadOfFresh ==
    ASSUME NEW a \in Account, NEW cash \in Nat,
           NEW b, b = Fresh(cash, a.fate, a.fills)
    PROVE  Ahead(a, b)
  <1>1. a.fate \in [OrderIds -> Fates] /\ a.fills \in [OrderIds -> Nat]
    BY DEF Account
  <1>2. \A i \in OrderIds :
            b.fate[i] = IF a.fate[i] = "pending" THEN "void" ELSE a.fate[i]
    BY <1>1, FreshEffect
  <1> QED BY <1>2 DEF Ahead, Lifecycle!Closed

LEMMA AheadTrans ==
    ASSUME NEW a, NEW b, NEW c, Ahead(a, b), Ahead(b, c)
    PROVE  Ahead(a, c)
  BY DEF Ahead

LEMMA GoodInit == Init => IInv
  <1> SUFFICES ASSUME Init
               PROVE  /\ Good(mem, mem.pending) /\ Book = mem.pending /\ disk = mem
                      /\ Ahead(disk, mem) /\ IdsFresh /\ RowsGood
    BY TypeInit DEF IInv
  <1> DEFINE fate == [i \in OrderIds |-> "none"]
             fills == [i \in OrderIds |-> 0]
  <1>1. PICK cash \in StartingCash : mem = Fresh(cash, fate, fills)
    BY DEF Init, NewAccount
  <1>2. cash \in Nat
    BY ConstantsAssumption DEF ConstantsAssumption
  <1>3. /\ fate \in [OrderIds -> Fates] /\ fills \in [OrderIds -> Nat]
        /\ \A i \in OrderIds : fate[i] = "none" /\ fills[i] = 0
    BY DEF Fates
  <1> HIDE DEF fate, fills
  <1>4. \A i \in OrderIds : fills[i] = IF fate[i] = "filled" THEN 1 ELSE 0
    BY <1>3
  <1>5. Good(mem, mem.pending)
    BY <1>1, <1>2, <1>3, <1>4, GoodFresh
  <1>6. \A i \in OrderIds : mem.fate[i] = "none"
    BY <1>1, <1>2, <1>3, FreshEffect
  <1> QED BY <1>5, <1>6 DEF Init, Book, Ahead, IdsFresh, RowsGood

\* The book while no pass runs.
LEMMA QuietBook == pc # "reconcile" => Book = mem.pending
  BY DEF Book

\* What has to be shown of the account in memory after a step.
MemoryGood == Good(mem, Book) /\ IdsFresh /\ RowsGood

\* A step that touches no order.
LEMMA SameOrders ==
    ASSUME IInv, mem'.fate = mem.fate, mem'.fills = mem.fills,
           mem'.flow = mem.flow, Book' = Book, used \subseteq used',
           \/ audit' = audit
           \/ \E i \in OrderIds : /\ mem.fate[i] # "filled"
                                  /\ \E x : audit' = [audit EXCEPT ![i] = x],
           pc' \in {"queued", "cancelled", "modified"} =>
               mem'.fate[call'.id] # "filled"
    PROVE  MemoryGood' /\ Ahead(mem, mem')
  <1>1. Good(mem', Book')
    BY GoodSame DEF IInv
  <1>2. IdsFresh'
    BY DEF IInv, IdsFresh
  <1>3. audit \in [OrderIds -> Statuses]
    BY DEF IInv, TypeOK, AccountsOK
  <1>4. RowsGood'
    BY <1>3 DEF IInv, RowsGood
  <1>5. Ahead(mem, mem')
    BY DEF Ahead
  <1> QED BY <1>1, <1>2, <1>4, <1>5 DEF MemoryGood

\* A step that moves one open order, id.
LEMMA OneOrder ==
    ASSUME IInv, NEW id \in OrderIds, NEW new,
           Moved(mem, mem', id, new), mem.fate[id] \notin Lifecycle!Closed, new # "none",
           Good(mem', Book'), used \subseteq used', id \in used',
           \/ new # "filled" /\ audit' = audit
           \/ new = "filled" /\ audit' = [audit EXCEPT ![id] = "FILLED"],
           pc' \in {"queued", "cancelled", "modified"} =>
               mem'.fate[call'.id] # "filled"
    PROVE  MemoryGood' /\ Ahead(mem, mem')
  <1>1. mem \in Account /\ mem.fate \in [OrderIds -> Fates]
    BY DEF IInv, TypeOK, AccountsOK, Account
  <1>2. IdsFresh'
    BY DEF IInv, IdsFresh, Moved
  <1>3. audit \in [OrderIds -> Statuses]
    BY DEF IInv, TypeOK, AccountsOK
  <1>4. \A i \in OrderIds : mem'.fate[i] = "filled" => audit'[i] = "FILLED"
    BY <1>3 DEF IInv, RowsGood, Moved
  <1>5. RowsGood'
    BY <1>4 DEF RowsGood
  <1>6. Ahead(mem, mem')
    BY <1>1, AheadOfOne
  <1> QED BY <1>2, <1>5, <1>6 DEF MemoryGood

\* An order in the book has been drawn, and is open.
LEMMA InBook ==
    ASSUME IInv, NEW k \in DOMAIN Book, Book[k].id \in OrderIds
    PROVE  Book[k].id \in used /\ mem.fate[Book[k].id] = "pending"
  BY DEF IInv, Good, PendingIn, IdsFresh

LEMMA BookType == TypeOK => Book \in Seq(Order) /\ mem.pending \in Seq(Order)
  <1> SUFFICES ASSUME TypeOK PROVE Book \in Seq(Order) /\ mem.pending \in Seq(Order)
    OBVIOUS
  <1>1. mem.pending \in Seq(Order)
    BY DEF TypeOK, AccountsOK, Account
  <1>2. pass.keep \in Seq(Order) /\ pass.todo \in Seq(Order)
    BY DEF TypeOK, ControlOK
  <1> QED BY <1>1, <1>2, ConcatProperties DEF Book

\* What waits is not touched by these steps: the end of a pass only names it anew.
LEMMA BookStays ==
    ASSUME TypeOK,
           \/ BeginCall \/ KeepOrder \/ EndReconcile
           \/ RejectOrder \/ SaveFill \/ WriteRow \/ NotPending \/ Deposit
    PROVE  Book' = Book
  <1>1. CASE BeginCall
    <2>1. Book = mem.pending /\ mem' = mem
      BY <1>1, QuietBook DEF BeginCall
    <2>2. CASE mem.pending = <<>>
      BY <1>1, <2>1, <2>2 DEF BeginCall, Book
    <2>3. CASE mem.pending # <<>>
      <3>1. PICK px \in [Tickers -> Prices] :
                pass' = [NoPass EXCEPT !.todo = mem.pending, !.px = px]
        BY <1>1, <2>3 DEF BeginCall
      <3>2. pass'.keep = <<>> /\ pass'.todo = mem.pending /\ pc' = "reconcile"
        BY <1>1, <2>3, <3>1 DEF BeginCall, NoPass
      <3>3. <<>> \o mem.pending = mem.pending
        BY BookType, ConcatEmptySeq
      <3> QED BY <2>1, <3>2, <3>3 DEF Book
    <2> QED BY <2>2, <2>3
  <1>2. CASE KeepOrder
    <2>1. pc = "reconcile" /\ pc' = pc
      BY <1>2 DEF KeepOrder
    <2>2. /\ pass.keep \in Seq(Order) /\ pass.todo \in Seq(Order) /\ pass.todo # <<>>
          /\ pass'.keep = Append(pass.keep, Head(pass.todo))
          /\ pass'.todo = Tail(pass.todo)
      BY <1>2 DEF KeepOrder, TypeOK, ControlOK
    <2> QED BY <2>1, <2>2, BookOfKept DEF Book
  <1>3. CASE EndReconcile
    <2>1. /\ pc = "reconcile" /\ pass.todo = <<>> /\ pass.keep \in Seq(Order)
          /\ mem' = [mem EXCEPT !.pending = pass.keep]
          /\ pc' \in {"idle", "apply"}
      BY <1>3 DEF EndReconcile, TypeOK, ControlOK, Persist, Release
    <2>2. mem'.pending = pass.keep
      BY <2>1, SetPendingEffect DEF TypeOK, AccountsOK
    <2>3. Book = pass.keep
      BY <2>1, ConcatEmptySeq DEF Book
    <2> QED BY <2>1, <2>2, <2>3 DEF Book
  <1>4. CASE RejectOrder \/ SaveFill \/ WriteRow \/ NotPending
    <2>1. mem' = mem /\ pc # "reconcile" /\ pc' # "reconcile"
      BY <1>4 DEF RejectOrder, Submitting, SaveFill, WriteRow, NotPending,
                  Persist, Row, Release
    <2> QED BY <2>1 DEF Book
  <1>5. CASE Deposit
    <2>1. PICK amount \in Deposits : mem' = Credit(mem, amount)
      BY <1>5 DEF Deposit
    <2>2. pc = "idle" /\ pc' = "idle"
      BY <1>5 DEF Deposit, Persist, Release
    <2>3. mem'.pending = mem.pending
      BY <2>1 DEF Credit, TypeOK, AccountsOK, Account
    <2> QED BY <2>2, <2>3 DEF Book
  <1> QED BY <1>1, <1>2, <1>3, <1>4, <1>5

LEMMA BeginCallGood == IInv /\ BeginCall => MemoryGood' /\ Ahead(mem, mem')
  <1> SUFFICES ASSUME IInv, BeginCall PROVE MemoryGood' /\ Ahead(mem, mem')
    OBVIOUS
  <1>1. mem' = mem /\ used' = used /\ audit' = audit
    BY DEF BeginCall
  <1>2. Book' = Book
    BY BookStays DEF IInv
  <1>3. pc' \notin {"queued", "cancelled", "modified"}
    BY DEF BeginCall
  <1> QED BY <1>1, <1>2, <1>3, SameOrders

LEMMA KeepOrderGood == IInv /\ KeepOrder => MemoryGood' /\ Ahead(mem, mem')
  <1> SUFFICES ASSUME IInv, KeepOrder PROVE MemoryGood' /\ Ahead(mem, mem')
    OBVIOUS
  <1>1. mem' = mem /\ used' = used /\ audit' = audit /\ pc' = "reconcile" /\ pc = pc'
    BY DEF KeepOrder
  <1>2. Book' = Book
    BY BookStays DEF IInv
  <1> QED BY <1>1, <1>2, SameOrders

LEMMA FillQueuedGood ==
    IInv /\ FillQueued /\ "audit" \notin Faults => MemoryGood' /\ Ahead(mem, mem')
  <1> SUFFICES ASSUME IInv, FillQueued, "audit" \notin Faults
               PROVE  MemoryGood' /\ Ahead(mem, mem')
    OBVIOUS
  <1> DEFINE o == Head(pass.todo)
             px == pass.px[o.ticker]
             k == Len(pass.keep) + 1
  <1>1. /\ pc = "reconcile" /\ pass.todo # <<>>
        /\ pass.keep \in Seq(Order) /\ pass.todo \in Seq(Order)
        /\ o \in Order
    BY DEF FillQueued, IInv, TypeOK, ControlOK
  <1>2. o.id \in OrderIds /\ px \in Nat
    BY <1>1 DEF Order, IInv, TypeOK, ControlOK
  <1>3. /\ audit' = [audit EXCEPT ![o.id] = "FILLED"]
        /\ pass' = [pass EXCEPT !.todo = Tail(@), !.dirty = TRUE]
        /\ pc' = pc /\ used' = used
    BY DEF FillQueued, Row
  <1>4. PICK rate \in Rates : mem' = FillOrder(mem, o, px, rate)
    BY DEF FillQueued
  <1>5. rate \in Nat
    BY ConstantsAssumption DEF ConstantsAssumption
  <1>6. pass'.keep = pass.keep /\ pass'.todo = Tail(pass.todo)
    BY <1>3 DEF IInv, TypeOK, ControlOK
  <1>7. Book = pass.keep \o pass.todo /\ Book' = pass.keep \o Tail(pass.todo)
    BY <1>1, <1>3, <1>6 DEF Book
  <1>8. /\ k \in 1 .. Len(Book) /\ Book[k] = o /\ IsRemoval(Book', Book, k)
    BY <1>1, <1>7, RemovalByFill
  <1>9. Book \in Seq(Order) /\ mem \in Account /\ Good(mem, Book)
    BY BookType DEF IInv, TypeOK, AccountsOK
  <1> HIDE DEF o, px, k
  <1>10. k \in DOMAIN Book
    BY <1>8, <1>9
  <1>11. mem' \in Account /\ Good(mem', Book')
    BY <1>2, <1>4, <1>5, <1>8, <1>9, <1>10, GoodFillQueued
  <1>12. Moved(mem, mem', o.id, "filled")
    <2>1. o \in Order /\ px \in Nat /\ mem \in Account
      BY <1>1, <1>2, <1>9
    <2> QED BY <1>4, <1>5, <2>1, FillMoves
  <1>13. o.id \in used /\ mem.fate[o.id] = "pending"
    BY <1>2, <1>8, <1>10, InBook
  <1>14. mem.fate[o.id] \notin Lifecycle!Closed
    BY <1>13 DEF Lifecycle!Closed
  <1> QED BY <1>1, <1>2, <1>3, <1>11, <1>12, <1>13, <1>14, OneOrder

LEMMA EndReconcileGood == IInv /\ EndReconcile => MemoryGood' /\ Ahead(mem, mem')
  <1> SUFFICES ASSUME IInv, EndReconcile PROVE MemoryGood' /\ Ahead(mem, mem')
    OBVIOUS
  <1>1. /\ pc = "reconcile" /\ pass.todo = <<>> /\ pass.keep \in Seq(Order)
        /\ mem' = [mem EXCEPT !.pending = pass.keep]
        /\ audit' = audit /\ used' = used
    BY DEF EndReconcile, IInv, TypeOK, ControlOK
  <1>2. pc' \in {"idle", "apply"}
    BY DEF EndReconcile, Persist, Release
  <1>3. /\ mem'.pending = pass.keep
        /\ mem'.fate = mem.fate /\ mem'.fills = mem.fills /\ mem'.flow = mem.flow
    BY <1>1, SetPendingEffect DEF IInv, TypeOK, AccountsOK
  <1>4. Book' = Book
    BY BookStays DEF IInv
  <1> QED BY <1>1, <1>2, <1>3, <1>4, SameOrders

LEMMA QueueOrderGood == IInv /\ QueueOrder => MemoryGood' /\ Ahead(mem, mem')
  <1> SUFFICES ASSUME IInv, QueueOrder PROVE MemoryGood' /\ Ahead(mem, mem')
    OBVIOUS
  <1>1. PICK id \in OrderIds \ used, open \in BOOLEAN, live \in Prices,
             rate \in Rates :
          LET debit == Debit(call.order, open, live, rate)
          IN  /\ mem' = Enqueue(TakeCash(mem, id, debit),
                                MakeOrder(call.order, id, debit))
              /\ used' = used \cup {id}
              /\ Persist(pc' = "queued" /\ call' = [name |-> "row", id |-> id]
                                        /\ pass' = NoPass)
    BY DEF QueueOrder
  <1> DEFINE debit == Debit(call.order, open, live, rate)
             o == MakeOrder(call.order, id, debit)
  <1>2. Submitting /\ audit' = audit
    BY DEF QueueOrder
  <1>3. /\ o \in Order /\ o.id = id /\ o.side = call.order.side
        /\ o.reserved = debit
        /\ call.order.side = "SELL" => debit = 0
    BY <1>2, SubmitTypes DEF IInv
  <1>4. mem' = Enqueue(TakeCash(mem, id, debit), o)
    BY <1>1
  <1>5. used' = used \cup {id}
    BY <1>1
  <1>6. pc' \in {"idle", "queued"} /\ (pc' = "queued" => call'.id = id)
    BY <1>1 DEF Persist, Release
  <1> HIDE DEF debit, o
  <1>7. /\ mem \in Account /\ Good(mem, mem.pending) /\ mem.fate[id] = "none"
    BY <1>2, QuietBook DEF Submitting, IInv, TypeOK, AccountsOK, IdsFresh
  <1>8. mem' = Enqueue(TakeCash(mem, o.id, o.reserved), o)
    BY <1>3, <1>4
  <1>9. /\ o.side = "SELL" => o.reserved = 0
        /\ mem.fate[o.id] = "none"
    BY <1>3, <1>7
  <1>10. mem' \in Account /\ Good(mem', mem'.pending)
    BY <1>3, <1>7, <1>8, <1>9, GoodQueue
  <1>11. Moved(mem, mem', o.id, "pending")
    BY <1>3, <1>7, <1>8, QueueMoves
  <1>12. Good(mem', Book')
    BY <1>6, <1>10 DEF Book
  <1>13. mem.fate[id] \notin Lifecycle!Closed
    BY <1>7 DEF Lifecycle!Closed
  <1>14. mem'.fate[id] = "pending" /\ Moved(mem, mem', id, "pending")
    BY <1>3, <1>11 DEF Moved
  <1> QED BY <1>2, <1>5, <1>6, <1>12, <1>13, <1>14, OneOrder

LEMMA FillNowGood ==
    IInv /\ FillNow /\ "audit" \notin Faults => MemoryGood' /\ Ahead(mem, mem')
  <1> SUFFICES ASSUME IInv, FillNow, "audit" \notin Faults
               PROVE  MemoryGood' /\ Ahead(mem, mem')
    OBVIOUS
  <1>1. PICK id \in OrderIds \ used, live \in Prices, rate \in Rates, fillRate \in Rates :
          LET debit == Debit(call.order, TRUE, live, rate)
          IN  /\ mem' = FillOrder(TakeCash(mem, id, debit),
                                  MakeOrder(call.order, id, debit),
                                  ReferencePrice(call.order, live), fillRate)
              /\ used' = used \cup {id}
              /\ Row(id, "FILLED",
                     /\ pc' = "save" /\ pass' = NoPass
                     /\ call' = [name |-> "fill", order |-> call.order,
                                 live |-> live])
    BY DEF FillNow
  <1> DEFINE open == TRUE
             debit == Debit(call.order, open, live, rate)
             o == MakeOrder(call.order, id, debit)
             px == ReferencePrice(call.order, live)
  <1>2. Submitting
    BY DEF FillNow
  <1>3. mem' = FillOrder(TakeCash(mem, id, debit), o, px, fillRate)
    BY <1>1
  <1>4. used' = used \cup {id} /\ pc' = "save" /\ audit' = [audit EXCEPT ![id] = "FILLED"]
    BY <1>1 DEF Row
  <1> HIDE DEF open
  <1>5. /\ o \in Order /\ o.id = id /\ debit \in Nat /\ px \in Nat
    BY <1>2, SubmitTypes DEF IInv
  <1>14. fillRate \in Nat
    BY ConstantsAssumption DEF ConstantsAssumption
  <1>6. /\ mem \in Account /\ Good(mem, mem.pending) /\ mem.fate[id] = "none"
    BY <1>2, QuietBook DEF Submitting, IInv, TypeOK, AccountsOK, IdsFresh
  <1> DEFINE c == TakeCash(mem, id, debit)
  <1>7. c = TakeCash(mem, id, debit) /\ mem' = FillOrder(c, o, px, fillRate)
    BY <1>3
  <1> HIDE DEF debit, o, px, c
  <1>8. c \in Account /\ c.fate = mem.fate
    BY <1>5, <1>6, <1>7, TakeCashMoves
  <1>9. Moved(mem, mem', id, "filled")
    <2>1. Moved(c, mem', o.id, "filled")
      BY <1>5, <1>7, <1>8, <1>14, FillMoves
    <2> QED BY <1>5, <1>8, <2>1 DEF Moved
  <1>10. mem' = FillOrder(TakeCash(mem, o.id, debit), o, px, fillRate) /\ mem.fate[o.id] = "none"
    BY <1>3, <1>5, <1>6
  <1>11. Good(mem', mem'.pending)
    BY <1>5, <1>6, <1>10, <1>14, GoodFillNow
  <1>12. Good(mem', Book')
    BY <1>4, <1>11 DEF Book
  <1>13. mem.fate[id] \notin Lifecycle!Closed
    BY <1>6 DEF Lifecycle!Closed
  <1> QED BY <1>4, <1>9, <1>12, <1>13, OneOrder

LEMMA CancelGood == IInv /\ Cancel => MemoryGood' /\ Ahead(mem, mem')
  <1> SUFFICES ASSUME IInv, Cancel PROVE MemoryGood' /\ Ahead(mem, mem')
    OBVIOUS
  <1>1. PICK k \in DOMAIN mem.pending : /\ mem.pending[k].id = call.id
                                        /\ mem' = CancelOrder(mem, k)
    BY DEF Cancel
  <1>2. pc = "apply" /\ audit' = audit /\ used' = used
    BY DEF Cancel
  <1>3. /\ pc' \in {"idle", "cancelled"}
        /\ pc' = "cancelled" => call' = call
    BY DEF Cancel, Persist, Goto, Release
  <1>4. /\ mem \in Account /\ Book = mem.pending /\ Good(mem, mem.pending)
    BY <1>2, QuietBook DEF IInv, TypeOK, AccountsOK
  <1> DEFINE o == mem.pending[k]
  <1>5. o \in Order /\ Moved(mem, mem', o.id, "cancelled")
    BY <1>1, <1>4, CancelMoves
  <1>6. o.id \in OrderIds
    BY <1>5 DEF Order
  <1>7. Good(mem', mem'.pending)
    BY <1>1, <1>4, GoodCancel
  <1>8. Good(mem', Book')
    BY <1>3, <1>7 DEF Book
  <1>9. o.id \in used /\ mem.fate[o.id] = "pending"
    BY <1>4, <1>6, InBook
  <1>10. mem.fate[o.id] \notin Lifecycle!Closed
    BY <1>9 DEF Lifecycle!Closed
  <1>11. mem'.fate[o.id] = "cancelled" /\ o.id = call.id
    BY <1>1, <1>5 DEF Moved
  <1> HIDE DEF o
  <1> QED BY <1>2, <1>3, <1>5, <1>6, <1>8, <1>9, <1>10, <1>11, OneOrder

LEMMA ModifyGood == IInv /\ Modify => MemoryGood' /\ Ahead(mem, mem')
  <1> SUFFICES ASSUME IInv, Modify PROVE MemoryGood' /\ Ahead(mem, mem')
    OBVIOUS
  <1>1. PICK k \in DOMAIN mem.pending : /\ mem.pending[k].id = call.id
                                        /\ mem' = ModifyOrder(mem, k, call.trigger)
    BY DEF Modify
  <1>2. /\ pc = "apply" /\ audit' = audit /\ used' = used
        /\ call.name = "modify" /\ call \in Calls
    BY DEF Modify, IInv, TypeOK, ControlOK
  <1>3. /\ pc' \in {"idle", "modified"}
        /\ pc' = "modified" => call' = call
    BY DEF Modify, Persist, Goto, Release
  <1>4. /\ mem \in Account /\ Book = mem.pending /\ Good(mem, mem.pending)
    BY <1>2, QuietBook DEF IInv, TypeOK, AccountsOK
  <1>5. call.trigger \in Nat /\ call.id \in OrderIds
    BY <1>2, ConstantsAssumption DEF Calls, ConstantsAssumption
  <1>6. /\ mem'.fate = mem.fate /\ mem'.fills = mem.fills /\ mem'.flow = mem.flow
    BY <1>1, <1>4, <1>5, ModifyEffect
  <1>7. Good(mem', mem'.pending)
    BY <1>1, <1>4, <1>5, GoodModify
  <1>8. Good(mem', Book')
    BY <1>3, <1>7 DEF Book
  <1>9. mem.fate[call.id] = "pending"
    BY <1>1, <1>4, <1>5, InBook
  <1>10. IdsFresh' /\ RowsGood'
    BY <1>2, <1>3, <1>6, <1>9 DEF IInv, IdsFresh, RowsGood
  <1>11. Ahead(mem, mem')
    BY <1>6 DEF Ahead
  <1> QED BY <1>8, <1>10, <1>11 DEF MemoryGood

\* Calls that move no order: rejections, rows, saves, deposits.
LEMMA QuietGood ==
    IInv /\ (RejectOrder \/ SaveFill \/ WriteRow \/ NotPending \/ Deposit)
    => MemoryGood' /\ Ahead(mem, mem')
  <1>1. ASSUME IInv, RejectOrder PROVE MemoryGood' /\ Ahead(mem, mem')
    <2>1. PICK id \in OrderIds \ used :
              used' = used \cup {id} /\ Row(id, "REJECTED", Release)
      BY <1>1 DEF RejectOrder
    <2>2. mem' = mem /\ pc = "apply"
      BY <1>1 DEF RejectOrder, Submitting
    <2>3. pc' = "idle" /\ (audit' = audit \/ audit' = [audit EXCEPT ![id] = "REJECTED"])
      BY <2>1 DEF Row, Release
    <2>4. mem.fate[id] # "filled"
      BY <1>1 DEF IInv, IdsFresh
    <2>5. Book' = Book
      BY <1>1, BookStays DEF IInv
    <2> QED BY <1>1, <2>1, <2>2, <2>3, <2>4, <2>5, SameOrders
  <1>2. ASSUME IInv, SaveFill PROVE MemoryGood' /\ Ahead(mem, mem')
    <2>1. mem' = mem /\ audit' = audit /\ used' = used /\ pc = "save" /\ pc' = "idle"
      BY <1>2 DEF SaveFill, Persist, Release
    <2>2. Book' = Book
      BY <1>2, BookStays DEF IInv
    <2> QED BY <1>2, <2>1, <2>2, SameOrders
  <1>3. ASSUME IInv, WriteRow PROVE MemoryGood' /\ Ahead(mem, mem')
    <2>1. /\ mem' = mem /\ used' = used /\ pc' = "idle"
          /\ pc \in {"queued", "cancelled", "modified"}
          /\ audit' = audit \/ \E x : audit' = [audit EXCEPT ![call.id] = x]
      BY <1>3 DEF WriteRow, Row, Release
    <2>2. call.id \in OrderIds
      BY <1>3, <2>1 DEF IInv, TypeOK, ControlOK
    <2>3. mem.fate[call.id] # "filled"
      BY <1>3, <2>1 DEF IInv, RowsGood
    <2>4. Book' = Book
      BY <1>3, BookStays DEF IInv
    <2> QED BY <1>3, <2>1, <2>2, <2>3, <2>4, SameOrders
  <1>4. ASSUME IInv, NotPending PROVE MemoryGood' /\ Ahead(mem, mem')
    <2>1. mem' = mem /\ audit' = audit /\ used' = used /\ pc = "apply" /\ pc' = "idle"
      BY <1>4 DEF NotPending, Release
    <2>2. Book' = Book
      BY <1>4, BookStays DEF IInv
    <2> QED BY <1>4, <2>1, <2>2, SameOrders
  <1>5. ASSUME IInv, Deposit PROVE MemoryGood' /\ Ahead(mem, mem')
    <2>1. PICK amount \in Deposits : mem' = Credit(mem, amount)
      BY <1>5 DEF Deposit
    <2>2. audit' = audit /\ used' = used /\ pc = "idle" /\ pc' = "idle"
      BY <1>5 DEF Deposit, Persist, Release
    <2>3. mem \in Account /\ amount \in Nat
      BY <1>5, ConstantsAssumption DEF IInv, TypeOK, AccountsOK, ConstantsAssumption
    <2>4. /\ mem'.fate = mem.fate /\ mem'.fills = mem.fills
          /\ mem'.flow = mem.flow /\ mem'.pending = mem.pending
      BY <2>1, <2>3 DEF Credit, Account
    <2>5. Book' = Book
      BY <1>5, BookStays DEF IInv
    <2> QED BY <1>5, <2>2, <2>4, <2>5, SameOrders
  <1> QED BY <1>1, <1>2, <1>3, <1>4, <1>5

\* A replaced account has the fills of the one it replaces.
LEMMA ReplacedGood ==
    ASSUME NEW a \in Account, NEW book, Good(a, book), NEW cash \in Nat,
           NEW b, b = Fresh(cash, a.fate, a.fills)
    PROVE  /\ Good(b, b.pending) /\ Ahead(a, b)
           /\ \A i \in OrderIds : /\ b.fate[i] = "filled" => a.fate[i] = "filled"
                                  /\ a.fate[i] = "none" => b.fate[i] = "none"
  <1>1. a.fate \in [OrderIds -> Fates] /\ a.fills \in [OrderIds -> Nat]
    BY DEF Account
  <1>2. \A i \in OrderIds : a.fills[i] = IF a.fate[i] = "filled" THEN 1 ELSE 0
    BY DEF Good, FilledOnce
  <1>3. Good(b, b.pending)
    BY <1>1, <1>2, GoodFresh
  <1>4. \A i \in OrderIds :
            b.fate[i] = IF a.fate[i] = "pending" THEN "void" ELSE a.fate[i]
    BY <1>1, FreshEffect
  <1>5. Ahead(a, b)
    BY AheadOfFresh
  <1> QED BY <1>3, <1>4, <1>5

LEMMA ResetGood == IInv /\ Reset => MemoryGood' /\ Ahead(mem, mem')
  <1> SUFFICES ASSUME IInv, Reset PROVE MemoryGood' /\ Ahead(mem, mem')
    OBVIOUS
  <1>1. /\ mem' = Fresh(born, mem.fate, mem.fills)
        /\ audit' = audit /\ used' = used /\ pc' = "idle"
    BY DEF Reset, Release
  <1>2. mem \in Account /\ born \in Nat /\ Good(mem, Book)
    BY ConstantsAssumption DEF ConstantsAssumption, IInv, TypeOK, AccountsOK
  <1>3. /\ Good(mem', mem'.pending) /\ Ahead(mem, mem')
        /\ \A i \in OrderIds : /\ mem'.fate[i] = "filled" => mem.fate[i] = "filled"
                               /\ mem.fate[i] = "none" => mem'.fate[i] = "none"
    BY <1>1, <1>2, ReplacedGood
  <1>4. Good(mem', Book')
    BY <1>1, <1>3 DEF Book
  <1>5. IdsFresh'
    BY <1>1, <1>3 DEF IInv, IdsFresh
  <1>6. RowsGood'
    BY <1>1, <1>3 DEF IInv, RowsGood
  <1> QED BY <1>3, <1>4, <1>5, <1>6 DEF MemoryGood

\* The account that a restart finds on disk.
LEMMA RestartGood == IInv /\ Restart => MemoryGood' /\ Ahead(disk, mem')
  <1> SUFFICES ASSUME IInv, Restart PROVE MemoryGood' /\ Ahead(disk, mem')
    OBVIOUS
  <1>1. PICK cash \in StartingCash : mem' = LoadState(exists, disk, cash)
    BY DEF Restart
  <1>2. audit' = audit /\ used' = used /\ pc' = "idle"
    BY DEF Restart, Release
  <1>3. /\ disk \in Account /\ exists \in BOOLEAN /\ cash \in Nat
        /\ Good(disk, disk.pending)
    BY ConstantsAssumption DEF ConstantsAssumption, IInv, TypeOK, AccountsOK
  <1>4. mem' = disk \/ mem' = Fresh(cash, disk.fate, disk.fills)
    BY <1>1, <1>3, LoadStateEffect
  <1>5. /\ Good(mem', mem'.pending) /\ Ahead(disk, mem')
        /\ \A i \in OrderIds : /\ mem'.fate[i] = "filled" => disk.fate[i] = "filled"
                               /\ disk.fate[i] = "none" => mem'.fate[i] = "none"
    <2>1. CASE mem' = disk
      BY <1>3, <2>1 DEF Ahead
    <2>2. CASE mem' = Fresh(cash, disk.fate, disk.fills)
      BY <1>3, <2>2, ReplacedGood
    <2> QED BY <1>4, <2>1, <2>2
  <1>6. \A i \in OrderIds : /\ disk.fate[i] = "filled" => mem.fate[i] = "filled"
                            /\ mem.fate[i] = "none" => disk.fate[i] = "none"
    BY DEF IInv, Ahead, Lifecycle!Closed
  <1>7. Good(mem', Book')
    BY <1>2, <1>5 DEF Book
  <1>8. IdsFresh'
    BY <1>2, <1>5, <1>6 DEF IInv, IdsFresh
  <1>9. RowsGood'
    BY <1>2, <1>5, <1>6 DEF IInv, RowsGood
  <1> QED BY <1>5, <1>7, <1>8, <1>9 DEF MemoryGood

LEMMA MemoryGoodStep ==
    IInv /\ Next /\ "audit" \notin Faults =>
        MemoryGood' /\ (Ahead(mem, mem') \/ (Ahead(disk, mem') /\ disk' = disk))
  <1>1. IInv /\ Restart => MemoryGood' /\ Ahead(disk, mem') /\ disk' = disk
    BY RestartGood DEF Restart
  <1>2. Next => \/ BeginCall \/ KeepOrder \/ FillQueued \/ EndReconcile
                \/ RejectOrder \/ QueueOrder \/ FillNow \/ SaveFill \/ WriteRow
                \/ NotPending \/ Cancel \/ Modify
                \/ Deposit \/ Reset \/ Restart
    BY DEF Next
  <1> QED BY <1>1, <1>2, BeginCallGood, KeepOrderGood, FillQueuedGood,
             EndReconcileGood, QueueOrderGood, FillNowGood, CancelGood,
             ModifyGood, QuietGood, ResetGood

\* Memory stays ahead of the disk, whichever of them moves.
LEMMA IInvStep ==
    ASSUME IInv, Next, "audit" \notin Faults
    PROVE  IInv' /\ Ahead(disk, mem')
  <1>1. TypeOK'
    BY ControlStep, AccountsStep DEF IInv, TypeOK
  <1>2. MemoryGood' /\ (Ahead(mem, mem') \/ (Ahead(disk, mem') /\ disk' = disk))
    BY MemoryGoodStep
  <1>3. Ahead(disk, mem')
    BY <1>2, AheadTrans DEF IInv
  <1>4. Good(disk', disk'.pending) /\ Ahead(disk', mem')
    <2>1. CASE disk' = disk
      BY <1>3, <2>1 DEF IInv
    <2>2. CASE disk' = mem' /\ pc' # "reconcile"
      <3>1. Good(mem', mem'.pending)
        BY <1>2, <2>2 DEF MemoryGood, Book
      <3> QED BY <2>2, <3>1 DEF Ahead
    <2> QED BY <2>1, <2>2, DiskStep
  <1> QED BY <1>1, <1>2, <1>3, <1>4 DEF IInv, MemoryGood

LEMMA IInvStutter == IInv /\ UNCHANGED vars => IInv'
  <1> SUFFICES ASSUME IInv, UNCHANGED vars PROVE IInv'
    OBVIOUS
  <1>1. Book' = Book /\ TypeOK'
    BY TypeStutter DEF vars, Book, IInv
  <1> QED BY <1>1 DEF vars, IInv, IdsFresh, RowsGood

\* The inductive invariant, given an audit file that can be written.
THEOREM Inductive ==
    ASSUME "audit" \notin Faults
    PROVE  Spec => []IInv
  <1>1. Init => IInv
    BY GoodInit
  <1>2. IInv /\ [Next]_vars => IInv'
    BY IInvStep, IInvStutter
  <1> QED BY <1>1, <1>2, PTL DEF Spec

\* Every order waits at most once, exactly while it is pending, and is executed
\* at most once, through every interleaving of passes, cancellations, failed
\* saves and restarts.
THEOREM BookCorrect ==
    ASSUME "audit" \notin Faults
    PROVE  Spec => []BookIsExact
  <1>1. IInv => BookIsExact
    BY DEF IInv, Good, DistinctIds, PendingIn, FilledOnce, BookIsExact
  <1> QED BY <1>1, Inductive, PTL

\* A waiting order has moved exactly its reservation, and an order that ended
\* without being executed has moved nothing.
THEOREM ReservationsCorrect ==
    ASSUME "audit" \notin Faults
    PROVE  Spec => []ReservationsExact
  <1>1. IInv => ReservationsExact
    BY DEF IInv, Good, HoldsReserved, NothingMoved, ReservationsExact
  <1> QED BY <1>1, Inductive, PTL

\* An order that the state file knows as filled has FILLED as its last row.
THEOREM AuditCorrect ==
    ASSUME "audit" \notin Faults
    PROVE  Spec => []FillsAreAudited
  <1>1. IInv => FillsAreAudited
    BY DEF IInv, Ahead, Lifecycle!Closed, RowsGood, FillsAreAudited
  <1> QED BY <1>1, Inductive, PTL

\* Two accounts with exact fills, one ahead of the other, are a lifecycle step
\* apart.
LEMMA MovesOfAhead ==
    ASSUME NEW d \in Account, NEW m \in Account, FilledOnce(d), FilledOnce(m),
           Ahead(d, m), NEW i \in OrderIds
    PROVE  \/ m.fate[i] = d.fate[i] /\ m.fills[i] = d.fills[i]
           \/ /\ d.fate[i] = "none" /\ m.fate[i] = "pending"
              /\ m.fills[i] = d.fills[i]
           \/ /\ d.fate[i] \notin Lifecycle!Closed /\ m.fate[i] \in {"cancelled", "void"}
              /\ m.fills[i] = d.fills[i]
           \/ /\ d.fate[i] \notin Lifecycle!Closed /\ m.fate[i] = "filled"
              /\ d.fills[i] = 0 /\ m.fills[i] = 1
  <1>1. d.fate[i] \in Fates /\ m.fate[i] \in Fates
    BY DEF Account
  <1> QED BY <1>1 DEF Fates, FilledOnce, Ahead, Lifecycle!Closed

\* Refinement: the orders on disk follow OrderLifecycle.  A crash, a restart
\* from an older file, a reset and a failed save never reopen a closed order.
THEOREM Refinement ==
    ASSUME "audit" \notin Faults
    PROVE  Spec => DurableLifecycle
  <1>1. Init => Lifecycle!Init
    BY DEF Init, NewAccount, Fresh, Lifecycle!Init
  <1>2. IInv /\ [Next]_vars => [Lifecycle!Next]_Lifecycle!lifecycleVars
    <2> SUFFICES ASSUME IInv, [Next]_vars
                 PROVE  Lifecycle!Next \/ UNCHANGED Lifecycle!lifecycleVars
      OBVIOUS
    <2>1. CASE disk' = disk
      BY <2>1 DEF Lifecycle!lifecycleVars
    <2>2. CASE Next /\ disk' = mem'
      <3>1. IInv' /\ Ahead(disk, disk')
        BY <2>2, IInvStep
      <3>2. disk \in Account /\ FilledOnce(disk)
        BY DEF IInv, TypeOK, AccountsOK, Good
      <3>3. disk' \in Account /\ FilledOnce(disk')
        BY <3>1 DEF IInv, TypeOK, AccountsOK, Good
      <3>4. \A i \in OrderIds : Lifecycle!Moves(i)
        BY <3>1, <3>2, <3>3, MovesOfAhead DEF Lifecycle!Moves
      <3>5. DOMAIN disk'.fate = OrderIds /\ DOMAIN disk'.fills = OrderIds
        BY <3>3 DEF Account
      <3> QED BY <3>4, <3>5 DEF Lifecycle!Next
    <2> QED BY <2>1, <2>2, DiskStep DEF vars
  <1> QED BY <1>1, <1>2, Inductive, PTL DEF Spec, DurableLifecycle, Lifecycle!Spec

-----------------------------------------------------------------------------
(***************************************************************************)
(* Sums.  The broker adds up with folds that take the elements in an order *)
(* of their own; f adds v up over the subsets of S if it can be computed   *)
(* one element at a time, in any order.                                    *)
(***************************************************************************)
IsSum(f, v, S) ==
    /\ f \in [SUBSET S -> Int]
    /\ f[{}] = 0
    /\ \A T \in SUBSET S : \A x \in S \ T : f[T \cup {x}] = f[T] + v[x]

Pick(T) == CHOOSE x \in T : TRUE

\* Of some subsets of a finite set one has no smaller one among them.
LEMMA SmallestSubset ==
    ASSUME NEW S, IsFiniteSet(S), NEW B \in SUBSET (SUBSET S), B # {}
    PROVE  \E T \in B : \A x \in T : T \ {x} \notin B
  <1>1. B \subseteq FiniteSubsetsOf(S)
    BY FS_Subset DEF FiniteSubsetsOf
  <1>2. PICK T \in B : \A U \in B : ~(<<U, T>> \in StrictSubsetOrdering(S))
    <2>1. IsWellFoundedOn(StrictSubsetOrdering(S), FiniteSubsetsOf(S))
      BY FS_StrictSubsetOrderingWellFounded
    <2>2. \E T \in B : \A U \in B : ~(<<U, T>> \in StrictSubsetOrdering(S))
      BY <1>1, <2>1, WFMin, Zenon
    <2> QED BY <2>2
  <1>3. ASSUME NEW x \in T, T \ {x} \in B PROVE FALSE
    <2> DEFINE U == T \ {x}
    <2>1. U \in SUBSET S /\ T \in SUBSET S /\ U \subseteq T /\ U # T /\ U \in B
      BY <1>3
    <2> HIDE DEF U
    <2>2. <<U, T>> \in StrictSubsetOrdering(S)
      BY <2>1 DEF StrictSubsetOrdering
    <2> QED BY <1>2, <2>1, <2>2
  <1> QED BY <1>3

\* What holds of the empty set, and of a set with one element more if it holds of the
\* set, holds of every finite set.
LEMMA SubsetInduction ==
    ASSUME NEW S, IsFiniteSet(S), NEW G,
           {} \in G,
           \A T \in SUBSET S : \A x \in S \ T : T \in G => T \cup {x} \in G
    PROVE  S \in G
  <1> DEFINE B == (SUBSET S) \ G
  <1> SUFFICES ASSUME B # {} PROVE FALSE
    OBVIOUS
  <1>1. B \in SUBSET (SUBSET S)
    OBVIOUS
  <1>2. PICK T \in B : \A x \in T : T \ {x} \notin B
    <2> HIDE DEF B
    <2> QED BY <1>1, SmallestSubset
  <1>3. PICK x \in T : TRUE
    OBVIOUS
  <1> DEFINE U == T \ {x}
  <1>4. U \in SUBSET S /\ U \in G /\ x \in S \ U /\ T = U \cup {x}
    BY <1>2, <1>3
  <1> HIDE DEF U
  <1> QED BY <1>4

\* There is such an f.
LEMMA SumExists ==
    ASSUME NEW S, IsFiniteSet(S), NEW v \in [S -> Int]
    PROVE  \E f : IsSum(f, v, S)
  <1> DEFINE G == {T \in SUBSET S : \E f : IsSum(f, v, T)}
  <1>1. {} \in G
    <2> DEFINE f == [T \in SUBSET {} |-> 0]
    <2>1. IsSum(f, v, {})
      BY DEF IsSum
    <2> QED BY <2>1
  <1>2. ASSUME NEW T \in SUBSET S, NEW x \in S \ T, T \in G PROVE T \cup {x} \in G
    <2>1. PICK f : IsSum(f, v, T)
      BY <1>2
    <2> DEFINE W == T \cup {x}
               g == [U \in SUBSET W |-> IF x \in U THEN f[U \ {x}] + v[x] ELSE f[U]]
    <2>2. \A U \in SUBSET W : U \ {x} \in SUBSET T /\ (x \notin U => U \in SUBSET T)
      OBVIOUS
    <2>3. g \in [SUBSET W -> Int]
      BY <2>1, <2>2 DEF IsSum
    <2>4. g[{}] = 0
      BY <2>1 DEF IsSum
    <2>5. ASSUME NEW U \in SUBSET W, NEW y \in W \ U
          PROVE  g[U \cup {y}] = g[U] + v[y]
      <3>1. U \cup {y} \in SUBSET W
        OBVIOUS
      <3>2. CASE y = x
        <4>1. (U \cup {y}) \ {x} = U /\ x \in U \cup {y} /\ x \notin U
          BY <3>2
        <4> QED BY <3>1, <3>2, <4>1
      <3>3. CASE y # x /\ x \notin U
        <4>1. x \notin U \cup {y} /\ y \in T \ U /\ U \in SUBSET T
          BY <3>3
        <4>2. f[U \cup {y}] = f[U] + v[y]
          BY <2>1, <4>1 DEF IsSum
        <4> QED BY <3>1, <3>3, <4>1, <4>2
      <3>4. CASE y # x /\ x \in U
        <4> DEFINE R == U \ {x}
        <4>1. x \in U \cup {y} /\ y \in T \ R /\ R \in SUBSET T
              /\ (U \cup {y}) \ {x} = R \cup {y}
          BY <3>4
        <4>2. g[U \cup {y}] = f[R \cup {y}] + v[x] /\ g[U] = f[R] + v[x]
          BY <3>1, <3>4, <4>1
        <4> HIDE DEF R, g
        <4>3. f[R \cup {y}] = f[R] + v[y] /\ f[R] \in Int
          BY <2>1, <4>1 DEF IsSum
        <4>4. v[x] \in Int /\ v[y] \in Int
          OBVIOUS
        <4> QED BY <4>2, <4>3, <4>4
      <3> QED BY <3>2, <3>3, <3>4
    <2>6. IsSum(g, v, W)
      <3> HIDE DEF g, W
      <3> QED BY <2>3, <2>4, <2>5 DEF IsSum
    <2> QED BY <2>6
  <1>3. S \in G
    <2> HIDE DEF G
    <2> QED BY <1>1, <1>2, SubsetInduction
  <1> QED BY <1>3

\* g takes the elements of a set out one by one, in the order of Pick.
TakesOut(g, v, S) ==
    /\ g[{}] = 0
    /\ \A T \in SUBSET S : T # {} /\ g[T \ {Pick(T)}] \in Int
           => g[T] = g[T \ {Pick(T)}] + v[Pick(T)]

\* It computes the sum.
LEMMA SumUnique ==
    ASSUME NEW S, IsFiniteSet(S), NEW v, NEW f, IsSum(f, v, S), NEW g,
           TakesOut(g, v, S)
    PROVE  \A T \in SUBSET S : g[T] = f[T]
  <1> DEFINE B == {T \in SUBSET S : g[T] # f[T]}
  <1> SUFFICES ASSUME B # {} PROVE FALSE
    OBVIOUS
  <1>1. PICK T \in B : \A x \in T : T \ {x} \notin B
    <2>1. B \in SUBSET (SUBSET S)
      OBVIOUS
    <2> HIDE DEF B
    <2> QED BY <2>1, SmallestSubset
  <1>2. T \in SUBSET S /\ g[T] # f[T] /\ T # {}
    BY <1>1 DEF IsSum, TakesOut
  <1> DEFINE x == Pick(T)
             U == T \ {x}
  <1>3. x \in T
    BY <1>2 DEF Pick
  <1>4. U \in SUBSET S /\ x \in S \ U /\ T = U \cup {x}
    BY <1>2, <1>3
  <1>5. g[U] = f[U]
    BY <1>1, <1>3, <1>4
  <1>6. f[U] \in Int /\ f[T] = f[U] + v[x]
    BY <1>4 DEF IsSum
  <1>7. g[T] = g[U] + v[x]
    BY <1>2, <1>5, <1>6 DEF TakesOut
  <1> QED BY <1>2, <1>5, <1>6, <1>7

\* The fold that adds up a function.
LEMMA SumOfFunction ==
    ASSUME NEW S, IsFiniteSet(S), NEW v \in [S -> Int], NEW f, IsSum(f, v, S)
    PROVE  SumFunction(v) = f[S]
  <1> DEFINE Step(g) == [T \in SUBSET S |->
                            IF T = {} THEN 0 ELSE v[Pick(T)] + g[T \ {Pick(T)}]]
             h == CHOOSE g : g = Step(g)
  <1>1. SumFunction(v) = h[S]
    BY DEF SumFunction, SumFunctionOnSet, FoldFunctionOnSet, MapThenFoldSet, Pick
  <1>2. f = Step(f)
    <2>1. ASSUME NEW T \in SUBSET S, T # {} PROVE f[T] = v[Pick(T)] + f[T \ {Pick(T)}]
      <3> DEFINE x == Pick(T)
                 U == T \ {x}
      <3>1. x \in T
        BY <2>1 DEF Pick
      <3>2. U \in SUBSET S /\ x \in S \ U /\ T = U \cup {x}
        BY <3>1
      <3>3. f[U] \in Int /\ v[x] \in Int /\ f[T] = f[U] + v[x]
        BY <3>2 DEF IsSum
      <3> HIDE DEF x, U
      <3>4. f[T] = v[x] + f[U]
        BY <3>3
      <3> QED BY <3>4 DEF x, U
    <2>2. f \in [SUBSET S -> Int] /\ f[{}] = 0
      BY DEF IsSum
    <2> QED BY <2>1, <2>2
  <1>3. h = Step(h)
    BY <1>2
  <1> HIDE DEF h
  <1>4. h[{}] = 0
    BY <1>3
  <1>5. ASSUME NEW T \in SUBSET S, T # {}, h[T \ {Pick(T)}] \in Int
        PROVE  h[T] = h[T \ {Pick(T)}] + v[Pick(T)]
    <2>1. h[T] = v[Pick(T)] + h[T \ {Pick(T)}]
      BY <1>3, <1>5
    <2>2. v[Pick(T)] \in Int
      BY <1>5 DEF Pick
    <2> QED BY <1>5, <2>1, <2>2
  <1> HIDE DEF Step
  <1>6. TakesOut(h, v, S)
    BY <1>4, <1>5 DEF TakesOut
  <1>7. \A T \in SUBSET S : h[T] = f[T]
    BY <1>6, SumUnique
  <1> QED BY <1>1, <1>7

\* The fold that adds up what the orders of a queue reserve.
Total(q) == FoldSeq(LAMBDA o, sum : sum + o.reserved, 0, q)

Reservations(q) == [k \in 1 .. Len(q) |-> q[k].reserved]

LEMMA ReservationsType ==
    ASSUME NEW q \in Seq(Order)
    PROVE  /\ DOMAIN q = 1 .. Len(q) /\ Len(q) \in Nat
           /\ IsFiniteSet(1 .. Len(q))
           /\ Reservations(q) \in [1 .. Len(q) -> Int]
           /\ \A k \in 1 .. Len(q) : Reservations(q)[k] = q[k].reserved
  <1>1. \A k \in 1 .. Len(q) : q[k] \in Order
    OBVIOUS
  <1>2. \A k \in 1 .. Len(q) : q[k].reserved \in Int
    BY <1>1 DEF Order
  <1>3. Len(q) \in Int /\ 1 \in Int
    OBVIOUS
  <1>4. IsFiniteSet(1 .. Len(q))
    BY <1>3, FS_Interval
  <1> QED BY <1>2, <1>4 DEF Reservations

LEMMA SumOfQueue ==
    ASSUME NEW q \in Seq(Order), NEW f, IsSum(f, Reservations(q), 1 .. Len(q))
    PROVE  Total(q) = f[1 .. Len(q)]
  <1> DEFINE S == 1 .. Len(q)
             v == Reservations(q)
             Step(g) == [T \in SUBSET S |->
                            IF T = {} THEN 0 ELSE g[T \ {Pick(T)}] + q[Pick(T)].reserved]
             h == CHOOSE g : g = Step(g)
  <1>0. /\ DOMAIN q = S /\ IsFiniteSet(S) /\ v \in [S -> Int]
        /\ \A k \in S : v[k] = q[k].reserved
    BY ReservationsType
  <1>1. Total(q) = h[S]
    BY <1>0 DEF Total, FoldSeq, FoldFunction, FoldFunctionOnSet, MapThenFoldSet, Pick
  <1> HIDE DEF S, v
  <1>a. \A T \in SUBSET S : T # {} => Pick(T) \in T /\ Pick(T) \in S
    BY DEF Pick
  <1>2. f = Step(f)
    <2>1. ASSUME NEW T \in SUBSET S, T # {}
          PROVE  f[T] = f[T \ {Pick(T)}] + q[Pick(T)].reserved
      <3> DEFINE x == Pick(T)
                 U == T \ {x}
      <3>1. x \in T
        BY <1>a, <2>1
      <3>2. U \in SUBSET S /\ x \in S \ U /\ T = U \cup {x} /\ x \in S
        BY <3>1
      <3>3. f[T] = f[U] + v[x] /\ v[x] = q[x].reserved
        BY <1>0, <3>2 DEF IsSum, S, v
      <3> QED BY <3>3
    <2>2. f \in [SUBSET S -> Int] /\ f[{}] = 0
      BY DEF IsSum, S
    <2> QED BY <2>1, <2>2
  <1>3. h = Step(h)
    BY <1>2
  <1> HIDE DEF h
  <1>4. h[{}] = 0
    BY <1>3
  <1>5. \A T \in SUBSET S : T # {} /\ h[T \ {Pick(T)}] \in Int
            => h[T] = h[T \ {Pick(T)}] + v[Pick(T)]
    BY <1>0, <1>a, <1>3
  <1> HIDE DEF Step
  <1>6. IsSum(f, v, S) /\ TakesOut(h, v, S)
    BY <1>4, <1>5 DEF S, v, TakesOut
  <1>7. \A T \in SUBSET S : h[T] = f[T]
    BY <1>0, <1>6, SumUnique
  <1> QED BY <1>1, <1>7 DEF S

\* The injection b finds the elements of T, with their values, in S.
Embeds(b, w, T, v, S) ==
    /\ b \in [T -> S]
    /\ \A x, y \in T : b[x] = b[y] => x = y
    /\ \A x \in T : w[x] = v[b[x]]

\* Then w over T adds up to v over the image of T.
LEMMA SumOfImage ==
    ASSUME NEW S, NEW T, NEW v, NEW w, NEW b, Embeds(b, w, T, v, S),
           NEW f, IsSum(f, v, S), NEW M, M = {b[x] : x \in T}
    PROVE  \E g : IsSum(g, w, T) /\ g[T] = f[M]
  <1> DEFINE Im(U) == {b[x] : x \in U}
             g == [U \in SUBSET T |-> f[Im(U)]]
  <1>1. \A U \in SUBSET T : Im(U) \in SUBSET S
    BY DEF Embeds
  <1>2. g \in [SUBSET T -> Int]
    BY <1>1 DEF IsSum
  <1>3. g[{}] = 0
    <2>1. Im({}) = {}
      OBVIOUS
    <2> QED BY <2>1 DEF IsSum
  <1>4. ASSUME NEW U \in SUBSET T, NEW x \in T \ U
        PROVE  g[U \cup {x}] = g[U] + w[x]
    <2>1. Im(U \cup {x}) = Im(U) \cup {b[x]} /\ b[x] \in S \ Im(U)
      BY DEF Embeds
    <2>2. f[Im(U) \cup {b[x]}] = f[Im(U)] + v[b[x]]
      BY <1>1, <2>1 DEF IsSum
    <2>3. U \cup {x} \in SUBSET T
      OBVIOUS
    <2>4. w[x] = v[b[x]]
      BY DEF Embeds
    <2> QED BY <2>1, <2>2, <2>3, <2>4
  <1>5. IsSum(g, w, T)
    <2> HIDE DEF g
    <2> QED BY <1>2, <1>3, <1>4 DEF IsSum
  <1>6. g[T] = f[M]
    OBVIOUS
  <1> HIDE DEF g
  <1> QED BY <1>5, <1>6

-----------------------------------------------------------------------------
\* The queue without its k-th order reserves that much less.
LEMMA TotalOfRemoval ==
    ASSUME NEW s \in Seq(Order), NEW k \in 1 .. Len(s), NEW t, IsRemoval(t, s, k)
    PROVE  Total(s) \in Int /\ Total(t) = Total(s) - s[k].reserved
  <1> DEFINE S == 1 .. Len(s)
             T == 1 .. Len(t)
             b == [i \in T |-> IF i < k THEN i ELSE i + 1]
             v == Reservations(s)
             w == Reservations(t)
  <1>0. /\ Len(s) \in Nat /\ k \in Nat /\ 1 <= k /\ k <= Len(s)
        /\ t \in Seq(Order) /\ Len(t) = Len(s) - 1
    BY DEF IsRemoval
  <1>1. IsFiniteSet(S) /\ IsFiniteSet(T) /\ v \in [S -> Int] /\ w \in [T -> Int]
    BY <1>0, ReservationsType
  <1>2. b \in [T -> S] /\ \A x, y \in T : b[x] = b[y] => x = y
    BY <1>0
  <1>3. \A x \in T : w[x] = v[b[x]]
    BY <1>0, <1>2, ReservationsType DEF IsRemoval
  <1>4. {b[x] : x \in T} = S \ {k}
    <2>1. \A x \in T : b[x] \in S \ {k}
      BY <1>0
    <2>2. ASSUME NEW y \in S \ {k} PROVE \E x \in T : y = b[x]
      <3>1. CASE y < k
        <4>1. y \in T /\ y = b[y]
          BY <1>0, <3>1
        <4> QED BY <4>1
      <3>2. CASE ~(y < k)
        <4>1. y - 1 \in T /\ y = b[y - 1]
          BY <1>0, <3>2
        <4> QED BY <4>1
      <3> QED BY <3>1, <3>2
    <2> QED BY <2>1, <2>2
  <1>5. PICK f : IsSum(f, v, S)
    BY <1>1, SumExists
  <1> HIDE DEF b
  <1>6. PICK g : IsSum(g, w, T) /\ g[T] = f[S \ {k}]
    <2>1. Embeds(b, w, T, v, S)
      BY <1>2, <1>3 DEF Embeds
    <2> HIDE DEF S, T, v, w
    <2> QED BY <1>4, <1>5, <2>1, SumOfImage
  <1>7. Total(s) = f[S] /\ Total(t) = g[T]
    BY <1>0, <1>5, <1>6, SumOfQueue
  <1>8. S \ {k} \in SUBSET S /\ k \in S \ (S \ {k}) /\ (S \ {k}) \cup {k} = S
    OBVIOUS
  <1>9. f[S] = f[S \ {k}] + v[k] /\ f[S \ {k}] \in Int /\ f[S] \in Int
    <2> HIDE DEF S, v
    <2>1. f[(S \ {k}) \cup {k}] = f[S \ {k}] + v[k]
      BY <1>5, <1>8 DEF IsSum
    <2>2. S \in SUBSET S
      OBVIOUS
    <2> QED BY <1>5, <1>8, <2>1, <2>2 DEF IsSum
  <1>10. v[k] = s[k].reserved /\ v[k] \in Int
    BY <1>1, ReservationsType
  <1> HIDE DEF S, T, v, w
  <1>11. f[S] \in Int /\ f[S] = f[S \ {k}] + s[k].reserved /\ s[k].reserved \in Int
    BY <1>9, <1>10
  <1>12. f[S \ {k}] \in Int /\ Total(s) = f[S] /\ Total(t) = f[S \ {k}]
    BY <1>6, <1>7, <1>9
  <1> QED BY <1>11, <1>12

LEMMA TotalOfEmpty == Total(<<>>) = 0
  <1>1. <<>> \in Seq(Order) /\ 1 .. Len(<<>>) = {} /\ IsFiniteSet({})
    BY FS_EmptySet
  <1>2. Reservations(<<>>) \in [{} -> Int]
    BY <1>1 DEF Reservations
  <1>3. PICK f : IsSum(f, Reservations(<<>>), {})
    BY <1>1, <1>2, SumExists
  <1> QED BY <1>1, <1>3, SumOfQueue DEF IsSum

\* Only the reservations count.
LEMMA TotalOfSame ==
    ASSUME NEW s \in Seq(Order), NEW t \in Seq(Order), Len(s) = Len(t),
           \A k \in 1 .. Len(s) : s[k].reserved = t[k].reserved
    PROVE  Total(s) = Total(t)
  <1>1. Reservations(s) = Reservations(t)
    BY DEF Reservations
  <1>2. Reservations(s) \in [1 .. Len(s) -> Int] /\ IsFiniteSet(1 .. Len(s))
    BY ReservationsType
  <1>3. PICK f : IsSum(f, Reservations(s), 1 .. Len(s))
    BY <1>2, SumExists
  <1>4. Total(s) = f[1 .. Len(s)]
    BY <1>3, SumOfQueue
  <1>5. Total(t) = f[1 .. Len(t)]
    BY <1>1, <1>3, SumOfQueue
  <1> QED BY <1>4, <1>5

LEMMA TotalOfAppend ==
    ASSUME NEW s \in Seq(Order), NEW o \in Order
    PROVE  Total(s) \in Int /\ Total(Append(s, o)) = Total(s) + o.reserved
  <1> DEFINE t == Append(s, o)
             k == Len(s) + 1
  <1>1. /\ t \in Seq(Order) /\ Len(t) = Len(s) + 1 /\ t[k] = o
        /\ k \in 1 .. Len(t) /\ Len(s) \in Nat
        /\ \A i \in 1 .. Len(s) : t[i] = s[i]
    OBVIOUS
  <1> HIDE DEF t
  <1>2. IsRemoval(s, t, k)
    BY <1>1 DEF IsRemoval
  <1> HIDE DEF k
  <1>3. Total(t) \in Int /\ Total(s) = Total(t) - t[k].reserved
    BY <1>1, <1>2, TotalOfRemoval
  <1>4. o.reserved \in Int
    BY DEF Order
  <1> QED BY <1>1, <1>3, <1>4 DEF t

-----------------------------------------------------------------------------
\* What the holdings of an account cost.
Basis(a) == SumFunction([t \in Tickers |-> a.pos[t].basis])

LEMMA BasisType ==
    ASSUME NEW a \in Account
    PROVE  Basis(a) \in Int
  <1> DEFINE v == [t \in Tickers |-> a.pos[t].basis]
  <1>1. v \in [Tickers -> Int]
    BY DEF Account, Position
  <1> HIDE DEF v
  <1>2. PICK f : IsSum(f, v, Tickers)
    BY <1>1, TickersAssumption, SumExists DEF TickersAssumption
  <1>3. SumFunction(v) = f[Tickers]
    BY <1>1, <1>2, TickersAssumption, SumOfFunction DEF TickersAssumption
  <1>4. f[Tickers] \in Int
    <2>1. Tickers \in SUBSET Tickers
      OBVIOUS
    <2> QED BY <1>2, <2>1 DEF IsSum
  <1> QED BY <1>3, <1>4 DEF Basis, v

\* One position changes.
LEMMA BasisMoves ==
    ASSUME NEW a \in Account, NEW b \in Account, NEW x \in Tickers,
           \A t \in Tickers : t # x => b.pos[t] = a.pos[t]
    PROVE  Basis(b) = Basis(a) - a.pos[x].basis + b.pos[x].basis
  <1> DEFINE v == [t \in Tickers |-> a.pos[t].basis]
             w == [t \in Tickers |-> b.pos[t].basis]
             R == Tickers \ {x}
             i == [t \in R |-> t]
             u == [t \in R |-> v[t]]
  <1>1. v \in [Tickers -> Int] /\ w \in [Tickers -> Int]
    BY DEF Account, Position
  <1>2. \A t \in R : v[t] = w[t]
    OBVIOUS
  <1>3. v[x] = a.pos[x].basis /\ w[x] = b.pos[x].basis /\ v[x] \in Int /\ w[x] \in Int
    BY <1>1
  <1>4. Basis(a) = SumFunction(v) /\ Basis(b) = SumFunction(w)
    BY DEF Basis
  <1> HIDE DEF v, w
  <1>5. IsFiniteSet(Tickers) /\ IsFiniteSet(R)
    BY TickersAssumption, FS_Subset DEF TickersAssumption
  <1>6. /\ u \in [R -> Int] /\ i \in [R -> Tickers]
        /\ \A s, t \in R : i[s] = i[t] => s = t
        /\ \A t \in R : u[t] = v[i[t]] /\ u[t] = w[i[t]]
        /\ {i[t] : t \in R} = R
    BY <1>1, <1>2
  <1>7. PICK f : IsSum(f, v, Tickers)
    BY <1>1, <1>5, SumExists
  <1>8. PICK h : IsSum(h, w, Tickers)
    BY <1>1, <1>5, SumExists
  <1>9. SumFunction(v) = f[Tickers] /\ SumFunction(w) = h[Tickers]
    BY <1>1, <1>5, <1>7, <1>8, SumOfFunction
  <1>10. f[R] = h[R]
    <2> HIDE DEF u, i
    <2>0. Embeds(i, u, R, v, Tickers) /\ Embeds(i, u, R, w, Tickers)
      BY <1>6 DEF Embeds
    <2> HIDE DEF R
    <2>1. PICK g : IsSum(g, u, R) /\ g[R] = f[R]
      BY <1>6, <1>7, <2>0, SumOfImage
    <2>2. PICK e : IsSum(e, u, R) /\ e[R] = h[R]
      BY <1>6, <1>8, <2>0, SumOfImage
    <2>3. SumFunction(u) = g[R] /\ SumFunction(u) = e[R]
      BY <1>5, <1>6, <2>1, <2>2, SumOfFunction
    <2> QED BY <1>6, <2>1, <2>2, <2>3
  <1>11. R \in SUBSET Tickers /\ x \in Tickers \ R /\ Tickers = R \cup {x}
    OBVIOUS
  <1> HIDE DEF R
  <1>12. f[Tickers] = f[R] + v[x] /\ h[Tickers] = h[R] + w[x] /\ f[R] \in Int
    BY <1>7, <1>8, <1>11 DEF IsSum
  <1> QED BY <1>3, <1>4, <1>9, <1>10, <1>12

LEMMA BasisOfNone ==
    ASSUME NEW a \in Account, \A t \in Tickers : a.pos[t].basis = 0
    PROVE  Basis(a) = 0
  <1> DEFINE v == [t \in Tickers |-> a.pos[t].basis]
             f == [T \in SUBSET Tickers |-> 0]
  <1>1. v \in [Tickers -> Int] /\ \A t \in Tickers : v[t] = 0
    OBVIOUS
  <1>2. IsSum(f, v, Tickers)
    BY <1>1 DEF IsSum
  <1>3. SumFunction(v) = f[Tickers]
    <2> HIDE DEF v, f
    <2> QED BY <1>1, <1>2, TickersAssumption, SumOfFunction DEF TickersAssumption
  <1>4. f[Tickers] = 0
    OBVIOUS
  <1> QED BY <1>3, <1>4 DEF Basis

-----------------------------------------------------------------------------
(***************************************************************************)
(* Conservation.  What an account is worth beyond what was put in and      *)
(* realised; the reservations of the waiting orders make up for it.        *)
(***************************************************************************)
LEMMA TotalType == ASSUME NEW q \in Seq(Order) PROVE Total(q) \in Int
  <1>1. PICK f : IsSum(f, Reservations(q), 1 .. Len(q))
    BY ReservationsType, SumExists
  <1>2. 1 .. Len(q) \in SUBSET (1 .. Len(q))
    OBVIOUS
  <1>3. f[1 .. Len(q)] \in Int
    BY <1>1, <1>2 DEF IsSum
  <1>4. Total(q) = f[1 .. Len(q)]
    BY <1>1, SumOfQueue
  <1> QED BY <1>3, <1>4

Worth(a) ==
    a.cash + Basis(a) - a.base - a.deposits - a.realised - a.unbacked

\* A position that was sold off costs nothing.
Covered(a) == \A t \in Tickers : a.pos[t].qty = 0 => a.pos[t].basis = 0

Even(a, book) == Worth(a) + Total(book) = 0 /\ Covered(a)

LEMMA WorthType ==
    ASSUME NEW a \in Account
    PROVE  /\ Worth(a) \in Int /\ Basis(a) \in Int /\ a.cash \in Int /\ a.base \in Nat
           /\ a.deposits \in Nat /\ a.realised \in Int /\ a.unbacked \in Nat
  <1>1. /\ a.cash \in Int /\ a.base \in Nat
        /\ a.deposits \in Nat /\ a.realised \in Int /\ a.unbacked \in Nat
    BY DEF Account
  <1>2. Basis(a) \in Int
    BY BasisType
  <1> QED BY <1>1, <1>2 DEF Worth

\* Only cash moves.
LEMMA WorthOfCash ==
    ASSUME NEW a \in Account, NEW b, NEW n \in Int, b.cash = a.cash + n,
           b.pos = a.pos, b.base = a.base, b.deposits = a.deposits,
           b.realised = a.realised, b.unbacked = a.unbacked
    PROVE  Worth(b) = Worth(a) + n /\ (Covered(a) => Covered(b))
  <1>1. Basis(b) = Basis(a)
    BY DEF Basis
  <1>2. Covered(a) => Covered(b)
    BY DEF Covered
  <1> QED BY <1>1, <1>2, WorthType DEF Worth

\* An account without orders that owns nothing but its cash.
LEMMA EvenFresh ==
    ASSUME NEW cash \in Nat, NEW fate \in [OrderIds -> Fates],
           NEW fills \in [OrderIds -> Nat], NEW b, b = Fresh(cash, fate, fills)
    PROVE  Even(b, b.pending)
  <1>1. b \in Account /\ b.pending = <<>>
    BY FreshEffect
  <1>2. /\ b.cash = cash /\ b.base = cash /\ b.deposits = 0
        /\ b.realised = 0 /\ b.unbacked = 0
        /\ \A t \in Tickers : b.pos[t].basis = 0
    BY DEF Fresh
  <1>3. Basis(b) = 0
    BY <1>1, <1>2, BasisOfNone
  <1>4. Covered(b)
    BY <1>2 DEF Covered
  <1> QED BY <1>1, <1>2, <1>3, <1>4, TotalOfEmpty DEF Even, Worth

LEMMA EvenQueue ==
    ASSUME NEW a \in Account, Even(a, a.pending), NEW o \in Order,
           NEW b, b = Enqueue(TakeCash(a, o.id, o.reserved), o)
    PROVE  Even(b, b.pending)
  <1>1. o.reserved \in Int /\ a.cash \in Int /\ a.pending \in Seq(Order)
    BY DEF Order, Account
  <1>2. /\ b.cash = a.cash - o.reserved /\ b.pending = Append(a.pending, o)
        /\ b.pos = a.pos /\ b.base = a.base /\ b.deposits = a.deposits
        /\ b.realised = a.realised /\ b.unbacked = a.unbacked
    BY DEF Enqueue, TakeCash, Account
  <1>3. b.cash = a.cash + (0 - o.reserved) /\ 0 - o.reserved \in Int
    BY <1>1, <1>2
  <1>4. Worth(b) = Worth(a) + (0 - o.reserved) /\ Covered(b)
    BY <1>2, <1>3, WorthOfCash DEF Even
  <1>5. Total(a.pending) \in Int /\ Total(b.pending) = Total(a.pending) + o.reserved
    BY <1>1, <1>2, TotalOfAppend
  <1> QED BY <1>1, <1>4, <1>5, WorthType DEF Even

\* A fill takes the order's reservation out of the queue and puts it into the account:
\* as cash, or as the cost of what was bought, or as what was realised.
LEMMA FillWorth ==
    ASSUME NEW a \in Account, NEW o \in Order, NEW px \in Nat, NEW rate \in Nat,
           o.side = "SELL" => o.reserved = 0,
           NEW b, b = FillOrder(a, o, px, rate)
    PROVE  Worth(b) = Worth(a) + o.reserved /\ (Covered(a) => Covered(b))
  <1> DEFINE done == Execute(a, o.id)
             cost == px * o.qty * rate
             t == o.ticker
             p == a.pos[t]
  <1>1. /\ o.id \in OrderIds /\ o.qty \in Nat /\ o.qty > 0 /\ o.reserved \in Nat
        /\ t \in Tickers /\ o.side \in {"BUY", "SELL"}
    BY DEF Order
  <1>2. cost \in Nat
    BY <1>1
  <1>3. b \in Account
    BY FillEffect
  <1>4. /\ done \in Account /\ done.cash = a.cash /\ done.pos = a.pos
        /\ done.base = a.base /\ done.deposits = a.deposits
        /\ done.realised = a.realised /\ done.unbacked = a.unbacked
    BY <1>1, ExecuteEffect DEF Execute, Account
  <1>5. p \in Position /\ p.qty \in Nat /\ p.basis \in Nat
    BY <1>1 DEF Account, Position
  <1>6. b = IF o.side = "BUY" THEN Buy(done, o, cost) ELSE Sell(done, o, cost)
    BY DEF FillOrder
  <1> HIDE DEF done, cost
  <1>7. CASE o.side = "BUY"
    <2>0. b = Buy(done, o, cost)
      BY <1>6, <1>7
    <2>1. /\ b.cash = done.cash + o.reserved - cost
          /\ b.pos = [done.pos EXCEPT ![o.ticker] = [qty |-> @.qty + o.qty,
                                                     basis |-> @.basis + cost]]
          /\ b.base = done.base /\ b.deposits = done.deposits
          /\ b.realised = done.realised /\ b.unbacked = done.unbacked
      BY <1>4, <2>0 DEF Buy, Account
    <2>2. /\ b.pos[t].basis = p.basis + cost /\ b.pos[t].qty = p.qty + o.qty
          /\ \A u \in Tickers : u # t => b.pos[u] = a.pos[u]
      BY <1>1, <1>4, <2>1 DEF Account
    <2>3. Basis(b) = Basis(a) - p.basis + b.pos[t].basis
      BY <1>1, <1>3, <2>2, BasisMoves
    <2>4. Covered(a) => Covered(b)
      BY <1>1, <1>5, <2>2 DEF Covered
    <2> QED BY <1>1, <1>2, <1>5, <2>1, <2>2, <2>3, <2>4, <1>4, WorthType DEF Worth
  <1>8. CASE o.side = "SELL" /\ p.qty > 0
    <2> DEFINE out == CostOut(p, o.qty)
    <2>1. out \in 0 .. p.basis /\ (o.qty >= p.qty => out = p.basis)
      BY <1>1, <1>5, <1>8, CostOutBound DEF CostOut
    <2> HIDE DEF out
    <2>a. b = Sell(done, o, cost) /\ done.pos[o.ticker] = p
      BY <1>4, <1>6, <1>8
    <2>b. p.qty > 0
      BY <1>8
    <2> HIDE DEF p
    <2>c. /\ b.cash = done.cash + cost /\ b.realised = done.realised + cost - out
          /\ b.pos = [done.pos EXCEPT ![o.ticker] =
                        [qty |-> IF o.qty >= p.qty THEN 0 ELSE p.qty - o.qty,
                         basis |-> p.basis - out]]
          /\ b.base = done.base /\ b.deposits = done.deposits
          /\ b.unbacked = done.unbacked
      BY <1>4, <2>a, <2>b DEF Sell, Account, out
    <2>2. /\ b.cash = a.cash + cost /\ b.realised = a.realised + cost - out
          /\ b.pos = [a.pos EXCEPT ![t] =
                        [qty |-> IF o.qty >= p.qty THEN 0 ELSE p.qty - o.qty,
                         basis |-> p.basis - out]]
          /\ b.base = a.base /\ b.deposits = a.deposits /\ b.unbacked = a.unbacked
      BY <1>4, <2>c
    <2>3. /\ b.pos[t].basis = p.basis - out
          /\ b.pos[t].qty = IF o.qty >= p.qty THEN 0 ELSE p.qty - o.qty
          /\ \A u \in Tickers : u # t => b.pos[u] = a.pos[u]
      BY <1>1, <2>2 DEF Account
    <2>4. Basis(b) = Basis(a) - p.basis + b.pos[t].basis
      BY <1>1, <1>3, <2>3, BasisMoves DEF p
    <2>5. Covered(a) => Covered(b)
      <3>1. b.pos[t].qty = 0 => b.pos[t].basis = 0
        BY <1>1, <1>5, <2>1, <2>3
      <3> QED BY <2>3, <3>1 DEF Covered
    <2> QED BY <1>1, <1>2, <1>5, <1>8, <2>1, <2>2, <2>3, <2>4, <2>5, WorthType DEF Worth
  <1>9. CASE o.side = "SELL" /\ ~(p.qty > 0)
    <2>1. /\ b.cash = a.cash + cost /\ b.unbacked = a.unbacked + cost
          /\ b.pos = a.pos /\ b.base = a.base /\ b.deposits = a.deposits
          /\ b.realised = a.realised
      BY <1>4, <1>6, <1>9 DEF Sell, Account
    <2>2. Basis(b) = Basis(a) /\ (Covered(a) => Covered(b))
      BY <2>1 DEF Basis, Covered
    <2> QED BY <1>1, <1>2, <1>9, <2>1, <2>2, WorthType DEF Worth
  <1> QED BY <1>1, <1>7, <1>8, <1>9

\* An order of the book is filled by a pass.
LEMMA EvenFillQueued ==
    ASSUME NEW a \in Account, NEW s \in Seq(Order), Good(a, s), Even(a, s),
           NEW k \in 1 .. Len(s), NEW px \in Nat, NEW rate \in Nat,
           NEW b, b = FillOrder(a, s[k], px, rate),
           NEW t, IsRemoval(t, s, k)
    PROVE  Even(b, t)
  <1> DEFINE o == s[k]
  <1>1. o \in Order /\ k \in DOMAIN s
    OBVIOUS
  <1>2. o.side = "SELL" => o.reserved = 0
    BY <1>1 DEF Good, HoldsReserved
  <1>4. Total(s) \in Int /\ Total(t) = Total(s) - o.reserved
    BY TotalOfRemoval
  <1>5. o.reserved \in Int
    BY <1>1 DEF Order
  <1>6. b = FillOrder(a, o, px, rate)
    OBVIOUS
  <1> HIDE DEF o
  <1>3. Worth(b) = Worth(a) + o.reserved /\ Covered(b)
    BY <1>1, <1>2, <1>6, FillWorth DEF Even
  <1> QED BY <1>3, <1>4, <1>5, WorthType DEF Even

\* An order is filled as it is submitted.
LEMMA EvenFillNow ==
    ASSUME NEW a \in Account, Even(a, a.pending), NEW o \in Order,
           o.side = "SELL" => o.reserved = 0,
           NEW px \in Nat, NEW rate \in Nat,
           NEW b, b = FillOrder(TakeCash(a, o.id, o.reserved), o, px, rate)
    PROVE  Even(b, b.pending)
  <1> DEFINE c == TakeCash(a, o.id, o.reserved)
  <1>1. o.id \in OrderIds /\ o.reserved \in Nat
    BY DEF Order
  <1>2. c = TakeCash(a, o.id, o.reserved)
    OBVIOUS
  <1>3. /\ c.cash = a.cash - o.reserved /\ c.pos = a.pos /\ c.base = a.base
        /\ c.deposits = a.deposits /\ c.realised = a.realised /\ c.unbacked = a.unbacked
    BY DEF TakeCash, Account
  <1>4. b = FillOrder(c, o, px, rate)
    OBVIOUS
  <1> HIDE DEF c
  <1>0. /\ c \in Account
        /\ c.cash = a.cash - o.reserved /\ c.overrun = a.overrun
        /\ c.pending = a.pending /\ c.fate = a.fate /\ c.fills = a.fills
        /\ c.flow = [a.flow EXCEPT ![o.id] = @ - o.reserved]
    BY <1>1, <1>2, TakeCashEffect
  <1>5. c.cash = a.cash + (0 - o.reserved) /\ 0 - o.reserved \in Int
    BY <1>1, <1>3, WorthType
  <1>6. Worth(c) = Worth(a) + (0 - o.reserved) /\ Covered(c)
    BY <1>3, <1>5, WorthOfCash DEF Even
  <1>7. Worth(b) = Worth(c) + o.reserved /\ Covered(b)
    BY <1>0, <1>4, <1>6, FillWorth
  <1>8. b.pending = a.pending
    <2>1. c \in Account
      BY <1>0
    <2>2. /\ b \in Account /\ b.pending = c.pending
          /\ b.fate = [c.fate EXCEPT ![o.id] = "filled"]
          /\ b.fills = [c.fills EXCEPT ![o.id] = @ + 1]
          /\ \A i \in OrderIds : i # o.id => b.flow[i] = c.flow[i]
      BY <1>4, <2>1, FillEffect
    <2> QED BY <1>0, <2>2
  <1>9. Worth(b) = Worth(a)
    BY <1>1, <1>6, <1>7, WorthType
  <1> QED BY <1>7, <1>8, <1>9 DEF Even

\* A cancellation.
LEMMA EvenCancel ==
    ASSUME NEW a \in Account, Good(a, a.pending), Even(a, a.pending),
           NEW k \in DOMAIN a.pending, NEW b, b = CancelOrder(a, k)
    PROVE  Even(b, b.pending)
  <1> DEFINE s == a.pending
             refund == IF s[k].side = "BUY" THEN s[k].reserved ELSE 0
  <1>1. s \in Seq(Order) /\ k \in 1 .. Len(s) /\ s[k] \in Order
    BY DEF Account
  <1>2. s[k].reserved \in Int /\ refund = s[k].reserved
    <2>1. s[k].reserved \in Int /\ s[k].side \in {"BUY", "SELL"}
      BY <1>1 DEF Order
    <2> QED BY <2>1 DEF Good, HoldsReserved
  <1>3. /\ b.cash = a.cash + refund /\ b.pos = a.pos /\ b.base = a.base
        /\ b.deposits = a.deposits /\ b.realised = a.realised /\ b.unbacked = a.unbacked
    BY DEF CancelOrder, Account
  <1>4. IsRemoval(b.pending, s, k)
    BY CancelEffect
  <1> HIDE DEF refund, s
  <1>5. Worth(b) = Worth(a) + s[k].reserved /\ Covered(b)
    BY <1>2, <1>3, WorthOfCash DEF Even
  <1>6. Total(s) \in Int /\ Total(b.pending) = Total(s) - s[k].reserved
    BY <1>1, <1>4, TotalOfRemoval
  <1>7. Worth(a) + Total(s) = 0
    BY DEF Even, s
  <1> QED BY <1>2, <1>5, <1>6, <1>7, WorthType DEF Even

LEMMA EvenModify ==
    ASSUME NEW a \in Account, Even(a, a.pending), NEW k \in DOMAIN a.pending,
           NEW trigger \in Nat, NEW b, b = ModifyOrder(a, k, trigger)
    PROVE  Even(b, b.pending)
  <1>1. /\ b \in Account /\ Len(b.pending) = Len(a.pending)
        /\ \A j \in 1 .. Len(a.pending) : b.pending[j].reserved = a.pending[j].reserved
    BY ModifyEffect
  <1>2. /\ b.cash = a.cash /\ b.pos = a.pos /\ b.base = a.base
        /\ b.deposits = a.deposits /\ b.realised = a.realised /\ b.unbacked = a.unbacked
    BY DEF ModifyOrder, Account
  <1>3. b.cash = a.cash + 0
    BY <1>2, WorthType
  <1>4. Worth(b) = Worth(a) + 0 /\ Covered(b)
    BY <1>2, <1>3, WorthOfCash DEF Even
  <1>5. a.pending \in Seq(Order) /\ b.pending \in Seq(Order)
    BY <1>1 DEF Account
  <1>6. Total(a.pending) = Total(b.pending)
    BY <1>1, <1>5, TotalOfSame
  <1> QED BY <1>4, <1>6, WorthType DEF Even

LEMMA EvenCredit ==
    ASSUME NEW a \in Account, NEW book, Even(a, book), NEW amount \in Nat,
           NEW b, b = Credit(a, amount)
    PROVE  Even(b, book)
  <1>1. /\ b.cash = a.cash + amount /\ b.deposits = a.deposits + amount
        /\ b.pos = a.pos /\ b.base = a.base
        /\ b.realised = a.realised /\ b.unbacked = a.unbacked
    BY DEF Credit, Account
  <1>2. Basis(b) = Basis(a) /\ (Covered(a) => Covered(b))
    BY <1>1 DEF Basis, Covered
  <1>3. Worth(b) = Worth(a)
    BY <1>1, <1>2, WorthType DEF Worth
  <1> QED BY <1>2, <1>3 DEF Even

LEMMA EvenPending ==
    ASSUME NEW a \in Account, NEW book, Even(a, book), NEW keep,
           NEW b, b = [a EXCEPT !.pending = keep]
    PROVE  Even(b, book)
  <1>1. /\ b.cash = a.cash /\ b.deposits = a.deposits
        /\ b.pos = a.pos /\ b.base = a.base
        /\ b.realised = a.realised /\ b.unbacked = a.unbacked
    BY DEF Account
  <1>2. Basis(b) = Basis(a) /\ (Covered(a) => Covered(b))
    BY <1>1 DEF Basis, Covered
  <1> QED BY <1>1, <1>2 DEF Even, Worth

\* Both accounts balance.  The one on disk has to, as a restart makes it memory.
BothEven == Even(mem, Book) /\ Even(disk, disk.pending)

LEMMA EvenInit == Init => BothEven
  <1> SUFFICES ASSUME Init PROVE BothEven
    OBVIOUS
  <1> DEFINE fate == [i \in OrderIds |-> "none"]
             fills == [i \in OrderIds |-> 0]
  <1>1. PICK cash \in StartingCash : mem = Fresh(cash, fate, fills)
    BY DEF Init, NewAccount
  <1>2. cash \in Nat
    BY ConstantsAssumption DEF ConstantsAssumption
  <1>3. fate \in [OrderIds -> Fates] /\ fills \in [OrderIds -> Nat]
    BY DEF Fates
  <1> HIDE DEF fate, fills
  <1>4. Even(mem, mem.pending)
    BY <1>1, <1>2, <1>3, EvenFresh
  <1> QED BY <1>4 DEF Init, Book, BothEven

LEMMA EvenMemory ==
    ASSUME IInv, BothEven, Next, "audit" \notin Faults
    PROVE  Even(mem', Book')
  <1>0. /\ TypeOK /\ mem \in Account /\ disk \in Account
        /\ Even(mem, Book) /\ Good(mem, Book) /\ Book \in Seq(Order)
    BY BookType DEF IInv, TypeOK, AccountsOK, BothEven
  <1>1. CASE BeginCall \/ KeepOrder \/ RejectOrder \/ SaveFill \/ WriteRow \/ NotPending
    <2>1. mem' = mem
      BY <1>1 DEF BeginCall, KeepOrder, RejectOrder, SaveFill, WriteRow, NotPending
    <2> QED BY <1>0, <1>1, <2>1, BookStays
  <1>2. CASE EndReconcile
    <2>1. mem' = [mem EXCEPT !.pending = pass.keep]
      BY <1>2 DEF EndReconcile
    <2>2. Even(mem', Book)
      BY <1>0, <2>1, EvenPending
    <2> QED BY <1>0, <1>2, <2>2, BookStays
  <1>3. CASE Deposit
    <2>1. PICK amount \in Deposits : mem' = Credit(mem, amount)
      BY <1>3 DEF Deposit
    <2>2. amount \in Nat
      BY ConstantsAssumption DEF ConstantsAssumption
    <2>3. Even(mem', Book)
      BY <1>0, <2>1, <2>2, EvenCredit
    <2> QED BY <1>0, <1>3, <2>3, BookStays
  <1>4. CASE FillQueued
    <2> DEFINE o == Head(pass.todo)
               px == pass.px[o.ticker]
               k == Len(pass.keep) + 1
    <2>1. /\ pc = "reconcile" /\ pass.todo # <<>>
          /\ pass.keep \in Seq(Order) /\ pass.todo \in Seq(Order)
          /\ o \in Order
      BY <1>4 DEF FillQueued, IInv, TypeOK, ControlOK
    <2>2. px \in Nat
      BY <2>1 DEF Order, IInv, TypeOK, ControlOK
    <2>3. pass' = [pass EXCEPT !.todo = Tail(@), !.dirty = TRUE] /\ pc' = pc
      BY <1>4 DEF FillQueued, Row
    <2>4. PICK rate \in Rates : mem' = FillOrder(mem, o, px, rate)
      BY <1>4 DEF FillQueued
    <2>5. rate \in Nat
      BY ConstantsAssumption DEF ConstantsAssumption
    <2>6. pass'.keep = pass.keep /\ pass'.todo = Tail(pass.todo)
      BY <2>3 DEF IInv, TypeOK, ControlOK
    <2>7. Book = pass.keep \o pass.todo /\ Book' = pass.keep \o Tail(pass.todo)
      BY <2>1, <2>3, <2>6 DEF Book
    <2>8. /\ k \in 1 .. Len(Book) /\ Book[k] = o /\ IsRemoval(Book', Book, k)
      BY <2>1, <2>7, RemovalByFill
    <2> HIDE DEF o, px, k
    <2>9. mem' = FillOrder(mem, Book[k], px, rate)
      BY <2>4, <2>8
    <2> QED BY <1>0, <2>2, <2>5, <2>8, <2>9, EvenFillQueued
  <1>5. CASE QueueOrder
    <2>1. PICK id \in OrderIds \ used, open \in BOOLEAN, live \in Prices,
               rate \in Rates :
            LET debit == Debit(call.order, open, live, rate)
            IN  /\ mem' = Enqueue(TakeCash(mem, id, debit),
                                  MakeOrder(call.order, id, debit))
                /\ Persist(pc' = "queued" /\ call' = [name |-> "row", id |-> id]
                                          /\ pass' = NoPass)
      BY <1>5 DEF QueueOrder
    <2> DEFINE debit == Debit(call.order, open, live, rate)
               o == MakeOrder(call.order, id, debit)
    <2>2. Submitting
      BY <1>5 DEF QueueOrder
    <2>3. o \in Order /\ o.id = id /\ o.reserved = debit
      BY <1>0, <2>2, SubmitTypes
    <2>4. mem' = Enqueue(TakeCash(mem, id, debit), o)
      BY <2>1
    <2>5. pc' # "reconcile"
      BY <2>1 DEF Persist, Release
    <2> HIDE DEF debit, o
    <2>6. mem' = Enqueue(TakeCash(mem, o.id, o.reserved), o)
      BY <2>3, <2>4
    <2>7. Even(mem, mem.pending)
      BY <1>0, <2>2, QuietBook DEF Submitting
    <2>8. Even(mem', mem'.pending)
      BY <1>0, <2>3, <2>6, <2>7, EvenQueue
    <2> QED BY <2>5, <2>8 DEF Book
  <1>6. CASE FillNow
    <2>1. PICK id \in OrderIds \ used, live \in Prices, rate \in Rates, fillRate \in Rates :
            LET debit == Debit(call.order, TRUE, live, rate)
            IN  /\ mem' = FillOrder(TakeCash(mem, id, debit),
                                    MakeOrder(call.order, id, debit),
                                    ReferencePrice(call.order, live), fillRate)
                /\ Row(id, "FILLED",
                       /\ pc' = "save" /\ pass' = NoPass
                       /\ call' = [name |-> "fill", order |-> call.order,
                                   live |-> live])
      BY <1>6 DEF FillNow
    <2> DEFINE open == TRUE
               debit == Debit(call.order, open, live, rate)
               o == MakeOrder(call.order, id, debit)
               px == ReferencePrice(call.order, live)
    <2>2. Submitting
      BY <1>6 DEF FillNow
    <2>3. mem' = FillOrder(TakeCash(mem, id, debit), o, px, fillRate)
      BY <2>1
    <2>4. pc' = "save"
      BY <2>1 DEF Row
    <2> HIDE DEF open
    <2>5. /\ o \in Order /\ o.id = id /\ o.reserved = debit
          /\ o.side = "SELL" => o.reserved = 0
          /\ px \in Nat
      BY <1>0, <2>2, SubmitTypes
    <2>9. fillRate \in Nat
      BY ConstantsAssumption DEF ConstantsAssumption
    <2> HIDE DEF debit, o, px
    <2>6. mem' = FillOrder(TakeCash(mem, o.id, o.reserved), o, px, fillRate)
      BY <2>3, <2>5
    <2>7. Even(mem, mem.pending)
      BY <1>0, <2>2, QuietBook DEF Submitting
    <2>8. Even(mem', mem'.pending)
      BY <1>0, <2>5, <2>6, <2>7, <2>9, EvenFillNow
    <2> QED BY <2>4, <2>8 DEF Book
  <1>7. CASE Cancel
    <2>1. PICK k \in DOMAIN mem.pending : mem' = CancelOrder(mem, k)
      BY <1>7 DEF Cancel
    <2>2. pc = "apply" /\ pc' # "reconcile"
      BY <1>7 DEF Cancel, Persist, Goto, Release
    <2>3. Even(mem, mem.pending) /\ Good(mem, mem.pending)
      BY <1>0, <2>2, QuietBook
    <2>4. Even(mem', mem'.pending)
      BY <1>0, <2>1, <2>3, EvenCancel
    <2> QED BY <2>2, <2>4 DEF Book
  <1>8. CASE Modify
    <2>1. PICK k \in DOMAIN mem.pending : mem' = ModifyOrder(mem, k, call.trigger)
      BY <1>8 DEF Modify
    <2>2. pc = "apply" /\ pc' # "reconcile" /\ call.name = "modify" /\ call \in Calls
      BY <1>8 DEF Modify, Persist, Goto, Release, IInv, TypeOK, ControlOK
    <2>3. call.trigger \in Nat
      BY <2>2, ConstantsAssumption DEF Calls, ConstantsAssumption
    <2>4. Even(mem, mem.pending)
      BY <1>0, <2>2, QuietBook
    <2>5. Even(mem', mem'.pending)
      BY <1>0, <2>1, <2>3, <2>4, EvenModify
    <2> QED BY <2>2, <2>5 DEF Book
  <1>9. CASE Reset
    <2>1. mem' = Fresh(born, mem.fate, mem.fills) /\ pc' = "idle"
      BY <1>9 DEF Reset, Release
    <2>2. born \in Nat
      BY ConstantsAssumption DEF ConstantsAssumption, IInv, TypeOK, AccountsOK
    <2>3. mem.fate \in [OrderIds -> Fates] /\ mem.fills \in [OrderIds -> Nat]
      BY <1>0 DEF Account
    <2>4. Even(mem', mem'.pending)
      BY <2>1, <2>2, <2>3, EvenFresh
    <2> QED BY <2>1, <2>4 DEF Book
  <1>10. CASE Restart
    <2>1. PICK cash \in StartingCash : mem' = LoadState(exists, disk, cash)
      BY <1>10 DEF Restart
    <2>2. pc' = "idle"
      BY <1>10 DEF Restart, Release
    <2>3. cash \in Nat
      BY ConstantsAssumption DEF ConstantsAssumption
    <2>4. mem' = disk \/ mem' = Fresh(cash, disk.fate, disk.fills)
      BY <2>1 DEF LoadState
    <2>5. disk.fate \in [OrderIds -> Fates] /\ disk.fills \in [OrderIds -> Nat]
      BY <1>0 DEF Account
    <2>6. mem' = disk => Even(mem', mem'.pending)
      BY DEF BothEven
    <2>7. mem' = Fresh(cash, disk.fate, disk.fills) => Even(mem', mem'.pending)
      BY <2>3, <2>5, EvenFresh
    <2> QED BY <2>2, <2>4, <2>6, <2>7 DEF Book
  <1> QED BY <1>1, <1>2, <1>3, <1>4, <1>5, <1>6, <1>7, <1>8, <1>9, <1>10 DEF Next

LEMMA EvenStep ==
    ASSUME IInv, BothEven, Next, "audit" \notin Faults
    PROVE  BothEven'
  <1>1. Even(mem', Book')
    BY EvenMemory
  <1>2. CASE disk' = disk
    BY <1>1, <1>2 DEF BothEven
  <1>3. CASE disk' = mem' /\ pc' # "reconcile"
    BY <1>1, <1>3 DEF BothEven, Book
  <1> QED BY <1>2, <1>3, DiskStep

\* No money appears or vanishes: cash, reservations and the cost of the holdings add up
\* to what was put in and what was realised, between and inside calls, whatever saves
\* fail and wherever the process ends.
THEOREM Conserved ==
    ASSUME "audit" \notin Faults
    PROVE  Spec => []Conservation
  <1>1. Init => IInv /\ BothEven
    BY GoodInit, EvenInit
  <1>2. (IInv /\ BothEven) /\ [Next]_vars => (IInv /\ BothEven)'
    <2>1. IInv /\ BothEven /\ UNCHANGED vars => BothEven'
      BY DEF BothEven, Book, vars
    <2> QED BY <2>1, IInvStep, IInvStutter, EvenStep
  <1>3. IInv /\ BothEven => Conservation
    <2> SUFFICES ASSUME IInv, BothEven PROVE Conservation
      OBVIOUS
    <2>1. Reserved = Total(Book) /\ Invested = Basis(mem)
      BY DEF Reserved, Total, Invested, Basis
    <2>2. mem \in Account /\ Book \in Seq(Order)
      BY BookType DEF IInv, TypeOK, AccountsOK
    <2>3. Total(Book) \in Int
      BY <2>2, TotalType
    <2>4. Worth(mem) + Total(Book) = 0
      BY DEF BothEven, Even
    <2>5. /\ Basis(mem) \in Int /\ mem.cash \in Int /\ mem.base \in Int
          /\ mem.deposits \in Int /\ mem.realised \in Int /\ mem.unbacked \in Int
      BY <2>2, WorthType
    <2>6. mem.cash + Basis(mem) - mem.base - mem.deposits - mem.realised
              - mem.unbacked + Total(Book) = 0
      BY <2>4 DEF Worth
    <2>7. mem.cash + Total(Book) + Basis(mem)
              = mem.base + mem.deposits + mem.realised + mem.unbacked
      BY <2>3, <2>5, <2>6
    <2> QED BY <2>1, <2>7 DEF Conservation
  <1> QED BY <1>1, <1>2, <1>3, PTL DEF Spec

-----------------------------------------------------------------------------
(***************************************************************************)
(* Durability.                                                             *)
(***************************************************************************)
\* Memory holds what no save has written.
Unsaved == behind \/ pc = "save" \/ (pc = "reconcile" /\ pass.dirty)

\* Otherwise the file holds the account, or memory is what the file was read as.
Synced == Unsaved \/ mem = LoadState(exists, disk, born) \/ (exists /\ disk = mem)

\* A pass that has filled nothing ends with the queue it began with.
Untouched == pc = "reconcile" /\ ~pass.dirty => Book = mem.pending

LEMMA SavedSynced ==
    ASSUME (exists' /\ disk' = mem') \/ behind', pc' # "reconcile"
    PROVE  Synced' /\ Untouched'
  BY DEF Synced, Untouched, Unsaved

\* A step that leaves both copies alone, outside of a pass and of a fill.
LEMMA QuietSynced ==
    ASSUME Synced, pc \notin {"save", "reconcile"}, pc' # "reconcile",
           UNCHANGED <<mem, disk, exists, born, behind>>
    PROVE  Synced' /\ Untouched'
  BY DEF Synced, Untouched, Unsaved

LEMMA SyncStep ==
    ASSUME TypeOK, Synced, Untouched, Next, "audit" \notin Faults
    PROVE  Synced' /\ Untouched'
  <1>1. CASE BeginCall
    <2>1. /\ pc = "idle" /\ UNCHANGED <<mem, disk, exists, born, behind>>
          /\ pc' = "apply" \/ (pc' = "reconcile" /\ ~pass'.dirty)
      BY <1>1 DEF BeginCall, NoPass
    <2>2. Book' = mem.pending
      BY <1>1, <2>1, BookStays, QuietBook
    <2> QED BY <2>1, <2>2 DEF Synced, Untouched, Unsaved
  <1>2. CASE KeepOrder
    <2>1. /\ UNCHANGED <<mem, disk, exists, born, pc, behind>>
          /\ pass'.dirty = pass.dirty
      BY <1>2 DEF KeepOrder, TypeOK, ControlOK
    <2>2. Book' = Book
      BY <1>2, BookStays
    <2> QED BY <2>1, <2>2 DEF Synced, Untouched, Unsaved
  <1>3. CASE FillQueued
    <2>1. pc' = "reconcile" /\ pass' = [pass EXCEPT !.todo = Tail(@), !.dirty = TRUE]
      BY <1>3 DEF FillQueued, Row
    <2>2. pass'.dirty
      BY <2>1 DEF TypeOK, ControlOK
    <2> QED BY <2>1, <2>2 DEF Synced, Untouched, Unsaved
  <1>4. CASE EndReconcile
    <2>1. /\ pc = "reconcile" /\ pc' # "reconcile" /\ pc' # "save" /\ born' = born
          /\ pass.todo = <<>> /\ mem' = [mem EXCEPT !.pending = pass.keep]
      BY <1>4 DEF EndReconcile, Persist, Release
    <2>2. CASE pass.dirty
      <3>1. (exists' /\ disk' = mem') \/ behind'
        BY <1>4, <2>2 DEF EndReconcile, Persist
      <3> QED BY <2>1, <3>1, SavedSynced
    <2>3. CASE ~pass.dirty
      <3>1. UNCHANGED <<disk, exists, behind>>
        BY <1>4, <2>3 DEF EndReconcile
      <3>2. Book = pass.keep
        BY <2>1, ConcatEmptySeq DEF Book, TypeOK, ControlOK
      <3>3. mem.pending = pass.keep
        BY <2>1, <2>3, <3>2 DEF Untouched
      <3>4. mem' = mem
        BY <2>1, <3>3 DEF TypeOK, AccountsOK, Account
      <3> QED BY <2>1, <2>3, <3>1, <3>4 DEF Synced, Untouched, Unsaved
    <2> QED BY <2>2, <2>3
  <1>5. CASE RejectOrder \/ WriteRow \/ NotPending
    <2>1. /\ pc \notin {"save", "reconcile"} /\ pc' # "reconcile"
          /\ UNCHANGED <<mem, disk, exists, born, behind>>
      BY <1>5 DEF RejectOrder, Submitting, WriteRow, NotPending, Row, Release
    <2> QED BY <2>1, QuietSynced
  <1>6. CASE QueueOrder \/ SaveFill \/ Cancel \/ Modify \/ Deposit
    <2>1. /\ (exists' /\ disk' = mem') \/ behind'
          /\ pc' # "reconcile"
      BY <1>6 DEF QueueOrder, SaveFill, Cancel, Modify, Deposit, Persist, Goto, Release
    <2> QED BY <2>1, SavedSynced
  <1>7. CASE FillNow
    <2>1. pc' = "save"
      BY <1>7 DEF FillNow, Row
    <2> QED BY <2>1 DEF Synced, Untouched, Unsaved
  <1>8. CASE Reset
    <2>1. /\ (exists' /\ disk' = mem') \/ behind'
          /\ pc' # "reconcile"
      BY <1>8 DEF Reset, Release
    <2> QED BY <2>1, SavedSynced
  <1>9. CASE Restart
    <2>1. /\ mem' = LoadState(exists', disk', born') /\ pc' # "reconcile"
      BY <1>9 DEF Restart, Release
    <2> QED BY <2>1 DEF Synced, Untouched
  <1> QED BY <1>1, <1>2, <1>3, <1>4, <1>5, <1>6, <1>7, <1>8, <1>9 DEF Next

LEMMA SyncInit == Init => Synced /\ Untouched
  <1> SUFFICES ASSUME Init PROVE Synced /\ Untouched
    OBVIOUS
  <1> DEFINE fate == [i \in OrderIds |-> "none"]
             fills == [i \in OrderIds |-> 0]
  <1>1. mem = Fresh(born, fate, fills) /\ disk = mem /\ exists = FALSE /\ pc = "idle"
    BY DEF Init, NewAccount
  <1>2. disk.fate = fate /\ disk.fills = fills
    BY <1>1 DEF Fresh
  <1>3. mem = LoadState(exists, disk, born)
    BY <1>1, <1>2 DEF LoadState
  <1> QED BY <1>1, <1>3 DEF Synced, Untouched

\* An account without activity whose books balance has the cash it was opened with,
\* and the proceeds of sales that found nothing to sell.
LEMMA IdleCash ==
    ASSUME NEW a \in Account, Even(a, a.pending), ~HasActivity(a)
    PROVE  a.cash = a.base + a.unbacked
  <1>1. /\ a.pending = <<>> /\ ~(a.deposits > 0) /\ a.realised = 0
        /\ \A t \in Tickers : ~(a.pos[t].qty > 0)
    BY DEF HasActivity
  <1>2. \A t \in Tickers : a.pos[t].qty = 0
    <2>1. \A t \in Tickers : a.pos[t].qty \in Nat
      BY DEF Account, Position
    <2> QED BY <1>1, <2>1
  <1>3. Basis(a) = 0
    BY <1>2, BasisOfNone DEF Even, Covered
  <1>4. Worth(a) = 0
    BY <1>1, TotalOfEmpty, WorthType DEF Even
  <1>5. /\ a.cash \in Int /\ a.base \in Int /\ a.unbacked \in Int /\ a.deposits = 0
    BY <1>1, WorthType
  <1>6. a.cash + 0 - a.base - 0 - 0 - a.unbacked = 0
    BY <1>1, <1>3, <1>4, <1>5 DEF Worth
  <1> QED BY <1>5, <1>6

\* A restart between two calls finds the account the last one left.  The heuristic of
\* _load_state is the hard part: it throws away an account that shows no activity and
\* whose cash is not the starting cash.  Conservation says that all such an account has
\* besides its starting cash are the proceeds of sales that found nothing to sell: they
\* are all that a restart can lose.
THEOREM Durability ==
    ASSUME "audit" \notin Faults
    PROVE  Spec => []Durable
  <1> DEFINE Inv == IInv /\ BothEven /\ Synced /\ Untouched
  <1>1. Init => Inv
    BY GoodInit, EvenInit, SyncInit
  <1>2. Inv /\ Next => Inv'
    BY IInvStep, EvenStep, SyncStep DEF IInv
  <1>3. Inv /\ UNCHANGED vars => Inv'
    BY IInvStutter DEF BothEven, Synced, Untouched, Unsaved, Book, vars
  <1>4. Inv => Durable
    <2> SUFFICES ASSUME Inv, pc = "idle", mem.base = born, ~behind, Reloaded # mem
                 PROVE  /\ ~HasActivity(mem) /\ mem.unbacked > 0
                        /\ Reloaded.cash = mem.cash - mem.unbacked
      BY DEF Durable
    <2>1. exists /\ disk = mem
      BY DEF Synced, Unsaved, Reloaded
    <2>2. mem \in Account /\ Even(mem, mem.pending)
      BY QuietBook DEF IInv, TypeOK, AccountsOK, BothEven
    <2>3. /\ born \in Nat /\ mem.cash \in Int /\ mem.unbacked \in Nat
          /\ mem.fate \in [OrderIds -> Fates] /\ mem.fills \in [OrderIds -> Nat]
      BY <2>2, ConstantsAssumption
         DEF ConstantsAssumption, IInv, TypeOK, AccountsOK, Account
    <2>4. /\ ~HasActivity(mem) /\ CashStale(mem, born)
          /\ Reloaded = Fresh(born, mem.fate, mem.fills)
      BY <2>1 DEF Reloaded, LoadState
    <2>5. mem.cash = born + mem.unbacked
      BY <2>2, <2>4, IdleCash
    <2>6. mem.unbacked > 0
      BY <2>3, <2>4, <2>5 DEF CashStale
    <2>7. Reloaded.cash = born
      BY <2>3, <2>4, FreshEffect
    <2> QED BY <2>3, <2>4, <2>5, <2>6, <2>7
  <1> QED BY <1>1, <1>2, <1>3, <1>4, PTL DEF Spec

=============================================================================
