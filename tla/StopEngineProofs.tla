---------------------------- MODULE StopEngineProofs ---------------------------
(***************************************************************************)
(* For any number of stops and triggers, any prices and any requests of    *)
(* the agents: one arming is one order, and what was cancelled is out of   *)
(* the engine's reach from the next tick on.  What makes it right is that  *)
(* ids are drawn once, a list has an id once, and an entry whose order was *)
(* taken leaves list, snapshot and state file together, or is counted.     *)
(***************************************************************************)
EXTENDS StopEngine, TLAPS

\* What memory and the state file have: the next start takes up the file.
StopsKept == Ids(active_stops) \cup Ids(file.stops)
TriggersKept == Ids(momentum_triggers) \cup Ids(file.triggers)

InReach(i) == i \in StopsKept \cup Ids(todo) \cup TriggersKept \cup Ids(triggers)

\* Everything in reach has been drawn, and an id is a stop's or a trigger's.
Apart ==
    /\ Ids(todo) \cup Ids(triggers) \subseteq used
    /\ (StopsKept \cup Ids(todo)) \cap (TriggersKept \cup Ids(triggers)) = {}

\* What is cancelled is in no list and not in the file, and what was so before the tick
\* in no snapshot.
Gone ==
    /\ dead \subseteq cancelled
    /\ cancelled \cap (StopsKept \cup TriggersKept) = {}
    /\ dead \cap (Ids(todo) \cup Ids(triggers)) = {}

\* The broker has answered only for an entry that is about to be removed.
Answered == answer # "none" => pc \in {"remove", "disarm"}

\* The entry whose order was taken, before it is removed.
Settled(i) == Traded /\ Current = i

\* What is in reach has not been traded for, but for what again counts.
Account ==
    \A i \in EntryIds :
        /\ trades[i] <= 1 + again[i]
        /\ i \notin used \/ (InReach(i) /\ ~Settled(i)) => trades[i] <= again[i]

IInv == TypeOK /\ Apart /\ Gone /\ Answered /\ Account

------------------------------------------------------------------------------
(* Lists of entries.                                                       *)

Elements(list) == {list[k] : k \in DOMAIN list}

\* The entry at the head of a snapshot, and what is left when it is done with.
LEMMA TailList ==
    ASSUME NEW S, NEW list \in Seq(S), list # <<>>, Unique(list)
    PROVE  /\ Head(list) \in S /\ Head(list).id \in Ids(list)
           /\ Tail(list) \in Seq(S) /\ Unique(Tail(list))
           /\ Ids(Tail(list)) = Ids(list) \ {Head(list).id}
<1>1. /\ Head(list) = list[1] /\ 1 \in DOMAIN list /\ Head(list) \in S
      /\ Tail(list) \in Seq(S)
  OBVIOUS
<1>2. \A k \in DOMAIN Tail(list) :
        /\ k + 1 \in DOMAIN list /\ Tail(list)[k] = list[k + 1]
        /\ k \in Nat \ {0}
  OBVIOUS
<1>3. \A k \in DOMAIN list : k # 1 => k - 1 \in DOMAIN Tail(list) /\ list[k] = Tail(list)[k - 1]
  OBVIOUS
<1>4. Unique(Tail(list))
  <2> SUFFICES ASSUME NEW j \in DOMAIN Tail(list), NEW k \in DOMAIN Tail(list),
                      Tail(list)[j].id = Tail(list)[k].id
               PROVE  j = k
    BY DEF Unique
  <2>1. j + 1 = k + 1
    BY <1>2 DEF Unique
  <2> QED BY <1>2, <2>1
<1>5. Ids(Tail(list)) \subseteq Ids(list) \ {Head(list).id}
  <2> SUFFICES ASSUME NEW k \in DOMAIN Tail(list)
               PROVE  Tail(list)[k].id \in Ids(list) \ {Head(list).id}
    BY DEF Ids
  <2>1. k + 1 # 1 /\ k + 1 \in DOMAIN list /\ Tail(list)[k] = list[k + 1]
    BY <1>2
  <2> QED BY <1>1, <2>1 DEF Ids, Unique
<1>6. Ids(list) \ {Head(list).id} \subseteq Ids(Tail(list))
  BY <1>1, <1>3 DEF Ids
<1> QED BY <1>1, <1>4, <1>5, <1>6 DEF Ids

\* A list whose entries are changed in place, but not their ids.
LEMMA ChangedList ==
    ASSUME NEW list, NEW new, DOMAIN new = DOMAIN list,
           \A k \in DOMAIN list : new[k].id = list[k].id
    PROVE  Ids(new) = Ids(list) /\ (Unique(list) => Unique(new))
BY DEF Ids, Unique

LEMMA InPlace ==
    ASSUME NEW S, NEW list \in Seq(S), NEW new \in [DOMAIN list -> S]
    PROVE  new \in Seq(S)
<1>1. Len(list) \in Nat /\ DOMAIN list = 1 .. Len(list)
  OBVIOUS
<1>2. new \in [1 .. Len(list) -> S]
  BY <1>1
<1> QED BY <1>1, <1>2

\* The snapshot whose head has its mark raised.
LEMMA MarkedList ==
    ASSUME NEW S, NEW list \in Seq(S), list # <<>>, NEW s \in S, s.id = Head(list).id
    PROVE  LET new == <<s>> \o Tail(list) IN
           /\ new \in Seq(S) /\ new # <<>> /\ Head(new) = s
           /\ Ids(new) = Ids(list) /\ (Unique(list) => Unique(new))
<1> DEFINE new == <<s>> \o Tail(list)
<1>1. /\ new \in Seq(S) /\ Len(new) = Len(list) /\ Len(list) > 0
      /\ DOMAIN new = DOMAIN list
  OBVIOUS
<1>2. new[1] = s /\ \A k \in DOMAIN list : k # 1 => new[k] = list[k]
  OBVIOUS
<1>3. Head(list) = list[1]
  OBVIOUS
<1>4. \A k \in DOMAIN list : new[k].id = list[k].id
  BY <1>2, <1>3
<1>5. Head(new) = new[1] /\ new # <<>>
  BY <1>1
<1> HIDE DEF new
<1>6. Ids(new) = Ids(list) /\ (Unique(list) => Unique(new))
  BY <1>1, <1>4, ChangedList
<1> QED BY <1>1, <1>2, <1>5, <1>6 DEF new

\* A list that gets a new entry.
LEMMA AppendedList ==
    ASSUME NEW S, NEW list \in Seq(S), Unique(list), NEW e \in S, e.id \notin Ids(list)
    PROVE  /\ Append(list, e) \in Seq(S) /\ Unique(Append(list, e))
           /\ Ids(Append(list, e)) = Ids(list) \cup {e.id}
<1> DEFINE new == Append(list, e)
<1>1. /\ new \in Seq(S) /\ DOMAIN new = DOMAIN list \cup {Len(list) + 1}
      /\ \A k \in DOMAIN list : new[k] = list[k]
      /\ new[Len(list) + 1] = e
  OBVIOUS
<1> HIDE DEF new
<1>2. Unique(new) /\ Ids(new) = Ids(list) \cup {e.id}
  BY <1>1 DEF Unique, Ids
<1> QED BY <1>1, <1>2 DEF new

\* A list that loses an entry, if it had it.
LEMMA RemovedList ==
    ASSUME NEW S, NEW list \in Seq(S), Unique(list), NEW i
    PROVE  /\ Removed(list, i) \in Seq(S) /\ Unique(Removed(list, i))
           /\ Ids(Removed(list, i)) = Ids(list) \ {i}
           /\ Elements(Removed(list, i)) \subseteq Elements(list)
<1>1. CASE i \notin Ids(list)
  BY <1>1 DEF Removed
<1>2. CASE i \in Ids(list)
  <2> DEFINE P(k) == list[k].id = i /\ \A j \in 1 .. k - 1 : list[j].id # i
             at == CHOOSE k \in DOMAIN list : P(k)
             new == SubSeq(list, 1, at - 1) \o SubSeq(list, at + 1, Len(list))
  <2>1. PICK k \in DOMAIN list : list[k].id = i
    BY <1>2 DEF Ids
  <2>2. P(k)
    <3> SUFFICES ASSUME NEW j \in 1 .. k - 1 PROVE list[j].id # i
      BY <2>1
    <3>1. j \in DOMAIN list /\ j # k
      OBVIOUS
    <3> QED BY <2>1, <3>1 DEF Unique
  <2>3. at \in DOMAIN list /\ list[at].id = i
    BY <2>2
  <2>4. Removed(list, i) = new
    BY <1>2 DEF Removed
  <2> HIDE DEF at, P
  <2> DEFINE left == SubSeq(list, 1, at - 1)
             right == SubSeq(list, at + 1, Len(list))
  <2>a. Len(list) \in Nat /\ at \in 1 .. Len(list)
    BY <2>3
  <2>b. left \in Seq(S) /\ Len(left) = at - 1 /\ \A m \in 1 .. at - 1 : left[m] = list[m]
    BY <2>a
  <2>c. /\ right \in Seq(S) /\ Len(right) = Len(list) - at
        /\ \A m \in 1 .. Len(list) - at : right[m] = list[m + at]
    BY <2>a
  <2>d. new = left \o right
    OBVIOUS
  <2> HIDE DEF left, right, new
  <2>e. new \in Seq(S) /\ Len(new) = Len(list) - 1
    <3>1. left \o right \in Seq(S)
      BY <2>b, <2>c
    <3>2. Len(left \o right) = Len(left) + Len(right)
      BY <2>b, <2>c
    <3> QED BY <2>a, <2>b, <2>c, <2>d, <3>1, <3>2
  <2>f. /\ \A m \in 1 .. at - 1 : new[m] = left[m]
        /\ \A m \in at .. Len(list) - 1 : new[m] = right[m - (at - 1)]
    BY <2>a, <2>b, <2>c, <2>d
  <2>g. \A m \in at .. Len(list) - 1 :
          m - (at - 1) \in 1 .. Len(list) - at /\ (m - (at - 1)) + at = m + 1
    BY <2>a
  <2>h. /\ \A m \in 1 .. at - 1 : new[m] = list[m]
        /\ \A m \in at .. Len(list) - 1 : new[m] = list[m + 1]
    BY <2>b, <2>c, <2>f, <2>g
  <2>i. DOMAIN new = 1 .. Len(list) - 1 /\ DOMAIN list = 1 .. Len(list)
    BY <2>e
  <2>5. /\ new \in Seq(S)
        /\ \A m \in DOMAIN new : new[m] = list[IF m < at THEN m ELSE m + 1]
    BY <2>a, <2>e, <2>h, <2>i
  <2>6. \A m \in DOMAIN new : (IF m < at THEN m ELSE m + 1) \in DOMAIN list \ {at}
    BY <2>a, <2>i
  <2>7. \A m \in DOMAIN list \ {at} : \E n \in DOMAIN new : new[n] = list[m]
    <3> SUFFICES ASSUME NEW m \in DOMAIN list \ {at} PROVE \E n \in DOMAIN new : new[n] = list[m]
      OBVIOUS
    <3>1. CASE m < at
      <4>1. m \in DOMAIN new /\ new[m] = list[m]
        BY <2>a, <2>h, <2>i, <3>1
      <4> QED BY <4>1
    <3>2. CASE m > at
      <4>1. m - 1 \in DOMAIN new /\ new[m - 1] = list[m]
        <5>1. m - 1 \in at .. Len(list) - 1 /\ (m - 1) + 1 = m
          BY <2>a, <2>i, <3>2
        <5> QED BY <2>a, <2>h, <2>i, <5>1
      <4> QED BY <4>1
    <3> QED BY <2>a, <2>i, <3>1, <3>2
  <2>8. Unique(new)
    <3> SUFFICES ASSUME NEW m \in DOMAIN new, NEW n \in DOMAIN new, new[m].id = new[n].id
                 PROVE  m = n
      BY DEF Unique
    <3>1. (IF m < at THEN m ELSE m + 1) = (IF n < at THEN n ELSE n + 1)
      BY <2>5, <2>6 DEF Unique
    <3>2. m \in Int /\ n \in Int /\ at \in Int
      BY <2>a, <2>i
    <3> QED BY <3>1, <3>2
  <2>9. Ids(new) = Ids(list) \ {i}
    <3>1. Ids(new) \subseteq Ids(list) \ {i}
      <4> SUFFICES ASSUME NEW m \in DOMAIN new PROVE new[m].id \in Ids(list) \ {i}
        BY DEF Ids
      <4> QED BY <2>3, <2>5, <2>6 DEF Ids, Unique
    <3>2. Ids(list) \ {i} \subseteq Ids(new)
      BY <2>3, <2>7 DEF Ids
    <3> QED BY <3>1, <3>2
  <2>10. Elements(new) \subseteq Elements(list)
    BY <2>5, <2>6 DEF Elements
  <2> QED BY <2>4, <2>5, <2>8, <2>9, <2>10
<1> QED BY <1>1, <1>2

------------------------------------------------------------------------------
(* What steps have in common.                                              *)

\* What TypeOK says of the state file.
FileOK ==
    /\ file \in [held : 0 .. MaxHeld, queue : Seq(Int \ {0}), stops : Seq(Stop),
                 triggers : Seq(Trigger)]
    /\ Unique(file.stops) /\ Unique(file.triggers)
    /\ Ids(file.stops) \cup Ids(file.triggers) \subseteq used

\* The file is left as it was, or gets what is in memory then.
LEMMA FileKeeps ==
    ASSUME TypeOK, file' \in {file, Memory'}, used \subseteq used',
           held' \in 0 .. MaxHeld, queue' \in Seq(Int \ {0}),
           active_stops' \in Seq(Stop), Unique(active_stops'),
           momentum_triggers' \in Seq(Trigger), Unique(momentum_triggers'),
           Ids(active_stops') \cup Ids(momentum_triggers') \subseteq used'
    PROVE  FileOK'
<1>1. CASE file' = file
  BY <1>1 DEF TypeOK, FileOK
<1>2. CASE file' = Memory'
  <2>1. file' = [held |-> held', queue |-> queue', stops |-> active_stops',
                 triggers |-> momentum_triggers']
    BY <1>2 DEF Memory
  <2> QED BY <2>1 DEF FileOK
<1> QED BY <1>1, <1>2

\* The lists and snapshots of a step that adds nothing to them.
Shrinks ==
    /\ UNCHANGED <<used, cancelled, dead>>
    /\ StopsKept' \subseteq StopsKept /\ Ids(todo') \subseteq Ids(todo)
    /\ TriggersKept' \subseteq TriggersKept /\ Ids(triggers') \subseteq Ids(triggers)

\* A step that adds nothing to memory adds nothing to the file.
LEMMA FileShrinks ==
    ASSUME file' \in {file, Memory'}, UNCHANGED <<used, cancelled, dead>>,
           Ids(active_stops') \subseteq Ids(active_stops), Ids(todo') \subseteq Ids(todo),
           Ids(momentum_triggers') \subseteq Ids(momentum_triggers),
           Ids(triggers') \subseteq Ids(triggers)
    PROVE  Shrinks
<1>1. CASE file' = file
  BY <1>1 DEF Shrinks, StopsKept, TriggersKept
<1>2. CASE file' = Memory'
  <2>1. file'.stops = active_stops' /\ file'.triggers = momentum_triggers'
    BY <1>2 DEF Memory
  <2> QED BY <2>1 DEF Shrinks, StopsKept, TriggersKept
<1> QED BY <1>1, <1>2

LEMMA ShrinksKeeps == IInv /\ Shrinks => Apart' /\ Gone'
<1> SUFFICES ASSUME IInv, Shrinks PROVE Apart' /\ Gone'
  OBVIOUS
<1>1. Apart'
  BY DEF IInv, Apart, Shrinks
<1>2. Gone'
  BY DEF IInv, Gone, Shrinks
<1> QED BY <1>1, <1>2

\* A step that trades nothing, and lets what was settled out of reach, or counts it.
Calm ==
    /\ UNCHANGED trades /\ used \subseteq used'
    /\ again' \in [EntryIds -> Nat]
    /\ \A i \in EntryIds :
          /\ again'[i] >= again[i]
          /\ InReach(i)' /\ ~Settled(i)' =>
                \/ i \notin used \/ (InReach(i) /\ ~Settled(i))
                \/ again'[i] = again[i] + 1

LEMMA CalmKeeps == IInv /\ Calm => Account'
<1> SUFFICES ASSUME IInv, Calm, NEW i \in EntryIds
             PROVE  /\ trades'[i] <= 1 + again'[i]
                    /\ i \notin used' \/ (InReach(i)' /\ ~Settled(i)') => trades'[i] <= again'[i]
  BY DEF Account
<1>1. /\ trades'[i] = trades[i] /\ again'[i] >= again[i]
      /\ trades[i] \in Nat /\ again[i] \in Nat /\ again'[i] \in Nat
  BY DEF Calm, IInv, TypeOK
<1>2. trades[i] <= 1 + again[i]
  BY DEF IInv, Account
<1>3. i \notin used \/ (InReach(i) /\ ~Settled(i)) => trades[i] <= again[i]
  BY DEF IInv, Account
<1>4. i \notin used' \/ (InReach(i)' /\ ~Settled(i)') =>
        i \notin used \/ (InReach(i) /\ ~Settled(i)) \/ again'[i] = again[i] + 1
  BY DEF Calm
<1>5. i \notin used' \/ (InReach(i)' /\ ~Settled(i)') => trades[i] <= again'[i]
  <2> SUFFICES ASSUME i \notin used' \/ (InReach(i)' /\ ~Settled(i)') PROVE trades[i] <= again'[i]
    OBVIOUS
  <2>1. CASE again'[i] = again[i] + 1
    BY <1>1, <1>2, <2>1
  <2>2. CASE i \notin used \/ (InReach(i) /\ ~Settled(i))
    <3>1. trades[i] <= again[i]
      BY <1>3, <2>2
    <3> QED BY <1>1, <3>1
  <2> QED BY <1>4, <2>1, <2>2
<1> QED BY <1>1, <1>2, <1>5

\* While the broker has answered nothing, a step that adds nothing is calm.
LEMMA ShrinksCalmly ==
    IInv /\ Shrinks /\ UNCHANGED <<trades, again>> /\ answer = "none" => Calm
<1> SUFFICES ASSUME IInv, Shrinks, UNCHANGED <<trades, again>>, answer = "none"
             PROVE  Calm
  OBVIOUS
<1>1. \A i \in EntryIds : InReach(i)' => InReach(i)
  BY DEF Shrinks, InReach
<1>2. \A i \in EntryIds : ~Settled(i)
  BY DEF Settled, Traded
<1>3. again \in [EntryIds -> Nat] /\ again' = again
  BY DEF IInv, TypeOK
<1> QED BY <1>1, <1>2, <1>3 DEF Calm, Shrinks

\* What was settled is counted when the file still has it.
LEMMA CountedKeeps ==
    ASSUME TypeOK, NEW i, Traded => i \in EntryIds, again' = Counted(i)
    PROVE  /\ again' \in [EntryIds -> Nat] /\ \A j \in EntryIds : again'[j] >= again[j]
           /\ Traded /\ i \in Ids(file'.stops) \cup Ids(file'.triggers)
                => again'[i] = again[i] + 1
<1>1. again \in [EntryIds -> Nat]
  BY DEF TypeOK
<1>2. CASE Traded /\ i \in Ids(file'.stops) \cup Ids(file'.triggers)
  <2>1. again' = [again EXCEPT ![i] = @ + 1] /\ i \in EntryIds
    BY <1>2 DEF Counted
  <2> QED BY <1>1, <2>1
<1>3. CASE ~(Traded /\ i \in Ids(file'.stops) \cup Ids(file'.triggers))
  <2>1. again' = again
    BY <1>3 DEF Counted
  <2> QED BY <1>1, <1>3, <2>1
<1> QED BY <1>2, <1>3

\* One entry is traded for.  It is settled then, or the fault is counted.
Spends(i) ==
    /\ trades' = [trades EXCEPT ![i] = @ + 1]
    /\ \/ UNCHANGED again /\ Settled(i)'
       \/ again' = [again EXCEPT ![i] = @ + 1]

LEMMA SpendsKeeps ==
    ASSUME IInv, Shrinks, answer = "none", NEW i \in EntryIds, i \in Ids(todo) \cup Ids(triggers),
           Spends(i)
    PROVE  Account'
<1> SUFFICES ASSUME NEW j \in EntryIds
             PROVE  /\ trades'[j] <= 1 + again'[j]
                    /\ j \notin used' \/ (InReach(j)' /\ ~Settled(j)') => trades'[j] <= again'[j]
  BY DEF Account
<1>1. /\ trades \in [EntryIds -> Nat] /\ again \in [EntryIds -> Nat]
  BY DEF IInv, TypeOK
<1>2. /\ trades[j] <= 1 + again[j]
      /\ j \notin used \/ InReach(j) => trades[j] <= again[j]
  BY DEF IInv, Account, Settled, Traded
<1>3. InReach(j)' => InReach(j)
  BY DEF Shrinks, InReach
<1>4. used' = used /\ i \in used /\ InReach(i)
  BY DEF Shrinks, InReach, IInv, Apart
<1>5. CASE j # i
  <2>1. trades'[j] = trades[j] /\ again'[j] = again[j]
    BY <1>1, <1>5 DEF Spends
  <2> QED BY <1>2, <1>3, <1>4, <2>1
<1>6. CASE j = i
  <2>1. trades'[j] = trades[j] + 1 /\ trades[j] <= again[j]
    BY <1>1, <1>2, <1>4, <1>6 DEF Spends
  <2>2. CASE UNCHANGED again /\ Settled(i)'
    BY <1>1, <1>4, <1>6, <2>1, <2>2
  <2>3. CASE again' = [again EXCEPT ![i] = @ + 1]
    <3>1. again'[j] = again[j] + 1
      BY <1>1, <1>6, <2>3
    <3> QED BY <1>1, <2>1, <3>1
  <2> QED BY <2>2, <2>3 DEF Spends
<1> QED BY <1>5, <1>6

\* The bound on faults.
LEMMA OneMore == TypeOK /\ faults < MaxFaults /\ faults' = faults + 1 => faults' \in 0 .. MaxFaults
BY StopAssumption DEF TypeOK

\* A save succeeds, or fails, or there is nothing to save.
LEMMA SaveKeeps ==
    TypeOK /\ (Save \/ NothingToSave) =>
        /\ file' \in {file, Memory'} /\ faults' \in 0 .. MaxFaults
        /\ Saved => file'.stops = active_stops' /\ file'.triggers = momentum_triggers'
<1>1. TypeOK /\ faults' = faults => faults' \in 0 .. MaxFaults
  BY DEF TypeOK
<1> QED BY <1>1, OneMore DEF Save, Saved, NotSaved, NothingToSave, Memory

------------------------------------------------------------------------------
(* The steps.                                                              *)

LEMMA InvInit == Init => IInv
<1> SUFFICES ASSUME Init PROVE IInv
  OBVIOUS
<1>1. /\ active_stops = <<>> /\ todo = <<>> /\ momentum_triggers = <<>> /\ triggers = <<>>
      /\ file = [held |-> 0, queue |-> <<>>, stops |-> <<>>, triggers |-> <<>>]
      /\ answer = "none" /\ dead = {} /\ cancelled = {}
  BY DEF Init, Memory
<1>2. \A list : list = <<>> => Ids(list) = {} /\ Unique(list)
  BY DEF Ids, Unique
<1>3. TypeOK
  BY <1>1, <1>2, StopAssumption DEF Init, TypeOK, Armed, Stations
<1>4. Apart /\ Gone /\ Answered
  BY <1>1, <1>2 DEF Apart, Gone, Answered, StopsKept, TriggersKept
<1>5. Account
  BY DEF Init, Account
<1> QED BY <1>3, <1>4, <1>5 DEF IInv

\* Market, clock and agents that trade do not touch engine and lists.
LEMMA OutsideStep ==
    IInv /\ (Move \/ Trade \/ FillQueued \/ (\E i \in EntryIds : Lapse(i)) \/ UNCHANGED vars)
        => IInv'
<1> SUFFICES ASSUME IInv,
                    Move \/ Trade \/ FillQueued \/ (\E i \in EntryIds : Lapse(i)) \/ UNCHANGED vars
             PROVE  IInv'
  OBVIOUS
<1>0. TypeOK
  BY DEF IInv
<1>1. /\ UNCHANGED <<lists, engine, restarts, used, history>>
      /\ Save \/ NothingToSave
  BY DEF Move, Trade, FillQueued, Lapse, vars, broker, storage, NothingToSave
<1>2. /\ UNCHANGED <<active_stops, momentum_triggers, pc, todo, triggers, quote, sell_qty>>
      /\ UNCHANGED <<answer, fired, restarts, used, trades, again, cancelled, dead>>
  BY <1>1 DEF lists, engine, tick, history
<1>3. /\ price' \in Prices /\ held' \in 0 .. MaxHeld
      /\ queue' \in Seq(Int \ {0}) /\ lapsed' \subseteq EntryIds
  <2>1. CASE Move
    BY <1>0, <2>1 DEF Move, TypeOK
  <2>2. CASE Trade
    BY <1>0, <2>2 DEF Trade, TypeOK
  <2>3. CASE FillQueued
    <3>1. Head(queue) \in Int /\ Tail(queue) \in Seq(Int \ {0})
      BY <1>0, <2>3 DEF FillQueued, TypeOK
    <3>2. held' \in 0 .. MaxHeld
      BY <1>0, <2>3, <3>1, StopAssumption DEF FillQueued, Execute, LowerOf, TypeOK
    <3> QED BY <1>0, <2>3, <3>1, <3>2 DEF FillQueued, TypeOK
  <2>4. CASE \E i \in EntryIds : Lapse(i)
    BY <1>0, <2>4 DEF Lapse, TypeOK, broker
  <2>5. CASE UNCHANGED vars
    BY <1>0, <2>5 DEF vars, broker, TypeOK
  <2> QED BY <2>1, <2>2, <2>3, <2>4, <2>5
<1>4. file' \in {file, Memory'} /\ faults' \in 0 .. MaxFaults /\ FileOK'
  <2>1. file' \in {file, Memory'} /\ faults' \in 0 .. MaxFaults
    BY <1>0, <1>1, SaveKeeps
  <2>2. /\ active_stops' \in Seq(Stop) /\ Unique(active_stops')
        /\ momentum_triggers' \in Seq(Trigger) /\ Unique(momentum_triggers')
        /\ Ids(active_stops') \cup Ids(momentum_triggers') \subseteq used'
        /\ used \subseteq used'
    BY <1>0, <1>2 DEF TypeOK, Armed
  <2> QED BY <1>0, <1>3, <2>1, <2>2, FileKeeps
<1>5. TypeOK'
  BY <1>0, <1>2, <1>3, <1>4 DEF TypeOK, FileOK, Armed
<1>6. Shrinks
  BY <1>2, <1>4, FileShrinks
<1>7. Calm
  <2>1. \A i \in EntryIds : (InReach(i)' => InReach(i)) /\ (Settled(i)' <=> Settled(i))
    BY <1>2, <1>6 DEF Shrinks, InReach, Settled, Traded, Current
  <2>2. again \in [EntryIds -> Nat]
    BY <1>0 DEF TypeOK
  <2> QED BY <1>2, <2>1, <2>2 DEF Calm
<1>8. Apart' /\ Gone' /\ Account' /\ Answered'
  BY <1>2, <1>6, <1>7, ShrinksKeeps, CalmKeeps DEF IInv, Answered
<1> QED BY <1>5, <1>8 DEF IInv

\* A new entry has an id that nobody has seen.
LEMMA SetStep ==
    ASSUME IInv, NEW i \in EntryIds,
           \/ \E shape \in Shapes[i] : SetStop(i, shape)
           \/ \E order \in Orders[i] : SetTrigger(i, order)
    PROVE  IInv'
<1>0. TypeOK /\ Apart
  BY DEF IInv
<1>1. /\ i \notin used /\ used' = used \cup {i}
      /\ UNCHANGED <<price, held, queue, lapsed, engine, restarts, history>>
      /\ Save \/ NothingToSave
  BY DEF SetStop, SetTrigger
<1>2. /\ UNCHANGED <<pc, todo, triggers, quote, sell_qty, answer, fired>>
      /\ UNCHANGED <<trades, again, cancelled, dead>>
  BY <1>1 DEF engine, tick, history
<1>3. i \notin StopsKept \cup TriggersKept \cup Ids(todo) \cup Ids(triggers)
  BY <1>0, <1>1 DEF Apart, TypeOK, Armed, StopsKept, TriggersKept
<1>4. /\ active_stops' \in Seq(Stop) /\ Unique(active_stops')
      /\ momentum_triggers' \in Seq(Trigger) /\ Unique(momentum_triggers')
      /\ \/ /\ Ids(active_stops') = Ids(active_stops) \cup {i}
            /\ Ids(momentum_triggers') = Ids(momentum_triggers)
         \/ /\ Ids(active_stops') = Ids(active_stops)
            /\ Ids(momentum_triggers') = Ids(momentum_triggers) \cup {i}
  <2>0. i \notin Ids(active_stops) \cup Ids(momentum_triggers)
    BY <1>3 DEF StopsKept, TriggersKept
  <2>1. CASE \E shape \in Shapes[i] : SetStop(i, shape)
    <3> PICK shape \in Shapes[i] : SetStop(i, shape)
      BY <2>1
    <3> DEFINE e == [id |-> i, kind |-> shape.kind, qty |-> shape.qty,
                     level |-> shape.level, high_water_mark |-> 0]
    <3>1. e \in Stop /\ e.id = i
      BY StopAssumption DEF Stop, StopShape
    <3>2. active_stops' = Append(active_stops, e) /\ momentum_triggers' = momentum_triggers
      BY DEF SetStop
    <3> HIDE DEF e
    <3>3. /\ Append(active_stops, e) \in Seq(Stop) /\ Unique(Append(active_stops, e))
          /\ Ids(Append(active_stops, e)) = Ids(active_stops) \cup {e.id}
      BY <1>0, <2>0, <3>1, AppendedList DEF TypeOK
    <3> QED BY <1>0, <3>1, <3>2, <3>3 DEF TypeOK
  <2>2. CASE \E order \in Orders[i] : SetTrigger(i, order)
    <3> PICK order \in Orders[i] : SetTrigger(i, order)
      BY <2>2
    <3> DEFINE e == [id |-> i, action |-> order.action, qty |-> order.qty]
    <3>1. e \in Trigger /\ e.id = i
      BY StopAssumption DEF Trigger, Order
    <3>2. momentum_triggers' = Append(momentum_triggers, e) /\ active_stops' = active_stops
      BY DEF SetTrigger
    <3> HIDE DEF e
    <3>3. /\ Append(momentum_triggers, e) \in Seq(Trigger) /\ Unique(Append(momentum_triggers, e))
          /\ Ids(Append(momentum_triggers, e)) = Ids(momentum_triggers) \cup {e.id}
      BY <1>0, <2>0, <3>1, AppendedList DEF TypeOK
    <3> QED BY <1>0, <3>1, <3>2, <3>3 DEF TypeOK
  <2> QED BY <2>1, <2>2
<1>5. file' \in {file, Memory'} /\ faults' \in 0 .. MaxFaults /\ FileOK'
  <2>1. file' \in {file, Memory'} /\ faults' \in 0 .. MaxFaults
    BY <1>0, <1>1, SaveKeeps
  <2>2. /\ Ids(active_stops') \cup Ids(momentum_triggers') \subseteq used'
        /\ used \subseteq used' /\ held' \in 0 .. MaxHeld /\ queue' \in Seq(Int \ {0})
    BY <1>0, <1>1, <1>4 DEF TypeOK, Armed
  <2> QED BY <1>0, <1>4, <2>1, <2>2, FileKeeps
<1>6. TypeOK'
  BY <1>0, <1>1, <1>2, <1>4, <1>5 DEF TypeOK, FileOK, Armed
<1>7. \/ StopsKept' \subseteq StopsKept \cup {i} /\ TriggersKept' \subseteq TriggersKept
      \/ StopsKept' \subseteq StopsKept /\ TriggersKept' \subseteq TriggersKept \cup {i}
  <2>1. CASE file' = file
    BY <1>4, <2>1 DEF StopsKept, TriggersKept
  <2>2. CASE file' = Memory'
    <3>1. file'.stops = active_stops' /\ file'.triggers = momentum_triggers'
      BY <2>2 DEF Memory
    <3> QED BY <1>4, <3>1 DEF StopsKept, TriggersKept
  <2> QED BY <1>5, <2>1, <2>2
<1>8. Apart'
  BY <1>0, <1>1, <1>2, <1>3, <1>7 DEF Apart
<1>9. Gone'
  BY <1>0, <1>1, <1>2, <1>7 DEF IInv, Gone, TypeOK
<1>10. Account'
  <2>1. \A j \in EntryIds : Settled(j)' <=> Settled(j)
    BY <1>2 DEF Settled, Traded, Current
  <2>2. \A j \in EntryIds : InReach(j)' => InReach(j) \/ j = i
    BY <1>2, <1>7 DEF InReach
  <2>3. again \in [EntryIds -> Nat]
    BY <1>0 DEF TypeOK
  <2>4. Calm
    BY <1>1, <1>2, <2>1, <2>2, <2>3 DEF Calm
  <2> QED BY <2>4, CalmKeeps
<1>11. Answered'
  BY <1>2 DEF IInv, Answered
<1> QED BY <1>6, <1>8, <1>9, <1>10, <1>11 DEF IInv

\* A level or a quantity changes, and no id.
LEMMA AdjustStep ==
    ASSUME IInv, NEW i \in EntryIds, NEW shape \in Shapes[i], AdjustStop(i, shape)
    PROVE  IInv'
<1>0. TypeOK
  BY DEF IInv
<1>1. /\ active_stops' = WithLevel(active_stops, i, shape)
      /\ UNCHANGED <<price, held, queue, momentum_triggers, lapsed, engine, restarts, used>>
      /\ UNCHANGED history /\ (Save \/ NothingToSave)
  BY DEF AdjustStop
<1>2. /\ UNCHANGED <<pc, todo, triggers, quote, sell_qty, answer, fired>>
      /\ UNCHANGED <<trades, again, cancelled, dead>>
  BY <1>1 DEF engine, tick, history
<1>3. \A k \in DOMAIN active_stops : active_stops[k] \in Stop
  BY <1>0 DEF TypeOK
<1>4. shape.level \in Nat \ {0} /\ shape.qty \in Nat \ {0}
  BY StopAssumption DEF StopShape
<1>5. /\ active_stops' \in [DOMAIN active_stops -> Stop]
      /\ \A k \in DOMAIN active_stops : active_stops'[k].id = active_stops[k].id
  <2> DEFINE E(k) == IF active_stops[k].id = i
                     THEN [active_stops[k] EXCEPT !.level = shape.level, !.qty = shape.qty]
                     ELSE active_stops[k]
  <2>1. \A k \in DOMAIN active_stops : E(k) \in Stop /\ E(k).id = active_stops[k].id
    BY <1>3, <1>4 DEF Stop
  <2>2. active_stops' = [k \in DOMAIN active_stops |-> E(k)]
    BY <1>1 DEF WithLevel
  <2> HIDE DEF E
  <2> QED BY <2>1, <2>2
<1>7. active_stops' \in Seq(Stop)
  BY <1>0, <1>5, InPlace DEF TypeOK
<1>8. Ids(active_stops') = Ids(active_stops) /\ Unique(active_stops')
  BY <1>0, <1>5, ChangedList DEF TypeOK
<1>9. file' \in {file, Memory'} /\ faults' \in 0 .. MaxFaults /\ FileOK'
  <2>1. file' \in {file, Memory'} /\ faults' \in 0 .. MaxFaults
    BY <1>0, <1>1, SaveKeeps
  <2>2. /\ Ids(active_stops') \cup Ids(momentum_triggers') \subseteq used'
        /\ used \subseteq used' /\ held' \in 0 .. MaxHeld /\ queue' \in Seq(Int \ {0})
        /\ momentum_triggers' \in Seq(Trigger) /\ Unique(momentum_triggers')
    BY <1>0, <1>1, <1>8 DEF TypeOK, Armed
  <2> QED BY <1>0, <1>7, <1>8, <2>1, <2>2, FileKeeps
<1>10. TypeOK'
  BY <1>0, <1>1, <1>2, <1>7, <1>8, <1>9 DEF TypeOK, FileOK, Armed
<1>11. Shrinks
  BY <1>1, <1>2, <1>8, <1>9, FileShrinks
<1>12. Calm
  <2>1. \A j \in EntryIds : (InReach(j)' => InReach(j)) /\ (Settled(j)' <=> Settled(j))
    BY <1>2, <1>11 DEF Shrinks, InReach, Settled, Traded, Current
  <2>2. again \in [EntryIds -> Nat]
    BY <1>0 DEF TypeOK
  <2> QED BY <1>1, <1>2, <2>1, <2>2 DEF Calm
<1>13. Apart' /\ Gone' /\ Account' /\ Answered'
  BY <1>2, <1>11, <1>12, ShrinksKeeps, CalmKeeps DEF IInv, Answered
<1> QED BY <1>10, <1>13 DEF IInv

\* cancelled grows by what leaves its list and, with the save, the file.
LEMMA CancelStep ==
    ASSUME IInv, NEW i \in EntryIds, Cancel(i)
    PROVE  IInv'
<1>0. TypeOK /\ Apart /\ Gone /\ Answered
  BY DEF IInv
<1>1. /\ UNCHANGED <<price, held, queue, lapsed, engine, restarts, used, trades, again, dead>>
      /\ \/ Saved /\ cancelled' = cancelled \cup {i}
         \/ NotSaved /\ cancelled' = cancelled
  BY DEF Cancel
<1>2. UNCHANGED <<pc, todo, triggers, quote, sell_qty, answer, fired>>
  BY <1>1 DEF engine, tick
<1>3. /\ active_stops' \in Seq(Stop) /\ Unique(active_stops')
      /\ momentum_triggers' \in Seq(Trigger) /\ Unique(momentum_triggers')
      /\ Ids(active_stops') = Ids(active_stops) \ {i}
      /\ Ids(momentum_triggers') = Ids(momentum_triggers) \ {i}
      /\ i \in used
  <2>1. CASE i \in Armed /\ active_stops' = Removed(active_stops, i) /\ UNCHANGED momentum_triggers
    <3>1. i \notin Ids(momentum_triggers) /\ i \in used
      BY <1>0, <2>1 DEF Apart, Armed, TypeOK, StopsKept, TriggersKept
    <3> QED BY <1>0, <2>1, <3>1, RemovedList DEF TypeOK
  <2>2. CASE /\ i \in Ids(momentum_triggers) /\ UNCHANGED active_stops
             /\ momentum_triggers' = Removed(momentum_triggers, i)
    <3>1. i \notin Ids(active_stops) /\ i \in used
      BY <1>0, <2>2 DEF Apart, TypeOK, StopsKept, TriggersKept
    <3> QED BY <1>0, <2>2, <3>1, RemovedList DEF TypeOK
  <2> QED BY <2>1, <2>2 DEF Cancel
<1>4. /\ file' \in {file, Memory'} /\ faults' \in 0 .. MaxFaults /\ FileOK'
      /\ Saved => file'.stops = active_stops' /\ file'.triggers = momentum_triggers'
  <2>1. /\ file' \in {file, Memory'} /\ faults' \in 0 .. MaxFaults
        /\ Saved => file'.stops = active_stops' /\ file'.triggers = momentum_triggers'
    BY <1>0, <1>1, SaveKeeps DEF Save
  <2>2. /\ Ids(active_stops') \cup Ids(momentum_triggers') \subseteq used'
        /\ used \subseteq used' /\ held' \in 0 .. MaxHeld /\ queue' \in Seq(Int \ {0})
    BY <1>0, <1>1, <1>3 DEF TypeOK, Armed
  <2> QED BY <1>0, <1>3, <2>1, <2>2, FileKeeps
<1>5. TypeOK'
  BY <1>0, <1>1, <1>2, <1>3, <1>4 DEF TypeOK, FileOK, Armed
<1>6. StopsKept' \subseteq StopsKept /\ TriggersKept' \subseteq TriggersKept
  <2>1. CASE file' = file
    BY <1>3, <2>1 DEF StopsKept, TriggersKept
  <2>2. CASE file' = Memory'
    <3>1. file'.stops = active_stops' /\ file'.triggers = momentum_triggers'
      BY <2>2 DEF Memory
    <3> QED BY <1>3, <3>1 DEF StopsKept, TriggersKept
  <2> QED BY <1>4, <2>1, <2>2
<1>7. Apart'
  BY <1>0, <1>1, <1>2, <1>6 DEF Apart
<1>8. Gone'
  <2>1. CASE NotSaved /\ cancelled' = cancelled
    BY <1>0, <1>1, <1>2, <1>6, <2>1 DEF Gone
  <2>2. CASE Saved /\ cancelled' = cancelled \cup {i}
    <3>1. i \notin StopsKept' \cup TriggersKept'
      BY <1>3, <1>4, <2>2 DEF StopsKept, TriggersKept
    <3> QED BY <1>0, <1>1, <1>2, <1>6, <2>2, <3>1 DEF Gone
  <2> QED BY <1>1, <2>1, <2>2
<1>9. Account'
  <2>1. \A j \in EntryIds : (Settled(j)' <=> Settled(j)) /\ (InReach(j)' => InReach(j))
    BY <1>2, <1>6 DEF Settled, Traded, Current, InReach
  <2>2. again \in [EntryIds -> Nat]
    BY <1>0 DEF TypeOK
  <2>3. Calm
    BY <1>1, <2>1, <2>2 DEF Calm
  <2> QED BY <2>3, CalmKeeps
<1>10. Answered'
  BY <1>0, <1>2 DEF Answered
<1> QED BY <1>5, <1>7, <1>8, <1>9, <1>10 DEF IInv

\* A tick begins with the lists as they are: what was cancelled is not in them.
LEMMA BeginStep == IInv /\ BeginTick => IInv'
<1> SUFFICES ASSUME IInv, BeginTick PROVE IInv'
  OBVIOUS
<1>0. TypeOK /\ Apart /\ Gone /\ Answered
  BY DEF IInv
<1>1. /\ UNCHANGED <<price, held, queue, active_stops, momentum_triggers, lapsed>>
      /\ UNCHANGED <<quote, sell_qty, answer, storage, used, trades, again, cancelled>>
      /\ pc' = "fetch" /\ todo' = active_stops /\ triggers' = momentum_triggers
      /\ fired' = {} /\ dead' = cancelled
  BY DEF BeginTick, broker, lists
<1>2. answer = "none"
  BY <1>0 DEF BeginTick, Answered
<1>3. TypeOK'
  BY <1>0, <1>1 DEF TypeOK, Armed, Stations, storage
<1>a. StopsKept' = StopsKept /\ TriggersKept' = TriggersKept
  BY <1>1 DEF StopsKept, TriggersKept, storage
<1>4. Apart' /\ Gone' /\ Answered'
  BY <1>0, <1>1, <1>2, <1>a DEF Apart, Gone, Answered, TypeOK, Armed, StopsKept, TriggersKept
<1>5. Account'
  <2>1. \A j \in EntryIds : ~Settled(j) /\ (InReach(j)' => InReach(j))
    BY <1>1, <1>2, <1>a DEF Settled, Traded, InReach, StopsKept, TriggersKept
  <2>2. again \in [EntryIds -> Nat]
    BY <1>0 DEF TypeOK
  <2>3. Calm
    BY <1>1, <2>1, <2>2 DEF Calm
  <2> QED BY <2>3, CalmKeeps
<1> QED BY <1>3, <1>4, <1>5 DEF IInv

\* The engine starts, reads a price or fails to, or ends its tick.
LEMMA IdleStep == IInv /\ (StartEngine \/ Fetch \/ FetchFails \/ EndTick) => IInv'
<1> SUFFICES ASSUME IInv, StartEngine \/ Fetch \/ FetchFails \/ EndTick PROVE IInv'
  OBVIOUS
<1>0. TypeOK /\ Apart /\ Gone /\ Answered
  BY DEF IInv
<1>1. /\ UNCHANGED <<price, held, queue, active_stops, momentum_triggers, lapsed>>
      /\ UNCHANGED <<sell_qty, answer, storage, used, trades, again, cancelled, dead>>
      /\ pc \in {"off", "fetch", "next"} /\ pc' \in {"idle", "next"}
      /\ todo' \in {todo, <<>>} /\ UNCHANGED triggers
      /\ quote' \in {quote, price, 0} /\ fired' \in {fired, {}}
  BY DEF StartEngine, Fetch, FetchFails, EndTick, broker, lists, history, tick
<1>2. answer = "none" /\ answer' = "none"
  BY <1>0, <1>1 DEF Answered
<1>3. Ids(<<>>) = {} /\ Unique(<<>>) /\ <<>> \in Seq(Stop)
  BY DEF Ids, Unique
<1>4. Ids(todo') \subseteq Ids(todo) /\ Unique(todo') /\ todo' \in Seq(Stop)
  BY <1>0, <1>1, <1>3 DEF TypeOK
<1>5. quote' \in Prices \cup {0} /\ fired' \subseteq EntryIds
  BY <1>0, <1>1 DEF TypeOK
<1>6. TypeOK'
  BY <1>0, <1>1, <1>4, <1>5 DEF TypeOK, Armed, Stations, storage
<1>7. Shrinks
  BY <1>1, <1>4, FileShrinks DEF storage
<1>8. Apart' /\ Gone' /\ Account'
  BY <1>1, <1>2, <1>7, ShrinksKeeps, ShrinksCalmly, CalmKeeps
<1> QED BY <1>2, <1>6, <1>8 DEF IInv, Answered

------------------------------------------------------------------------------
(* The tick: stops.                                                        *)

\* A mark raised, in the snapshot and in the list.
LEMMA MarkKeeps ==
    ASSUME TypeOK, todo # <<>>,
           UNCHANGED active_stops \/ RaiseMark(Marked(Head(todo)))
    PROVE  /\ Marked(Head(todo)) \in Stop /\ Marked(Head(todo)).id = Head(todo).id
           /\ active_stops' \in Seq(Stop) /\ Unique(active_stops')
           /\ Ids(active_stops') = Ids(active_stops)
<1> DEFINE s == Marked(Head(todo))
<1>1. Head(todo) \in Stop /\ quote \in Nat
  BY StopAssumption DEF TypeOK
<1>2. s \in Stop /\ s.id = Head(todo).id /\ s.high_water_mark \in Nat
  BY <1>1 DEF Marked, Stop
<1> HIDE DEF s
<1>3. CASE active_stops' = active_stops
  BY <1>2, <1>3 DEF s, TypeOK
<1>4. CASE active_stops' = WithMark(active_stops, s.id, s.high_water_mark)
  <2> DEFINE E(k) == IF active_stops[k].id = s.id
                     THEN [active_stops[k] EXCEPT !.high_water_mark = s.high_water_mark]
                     ELSE active_stops[k]
  <2>1. \A k \in DOMAIN active_stops : E(k) \in Stop /\ E(k).id = active_stops[k].id
    <3> SUFFICES ASSUME NEW k \in DOMAIN active_stops
                 PROVE  E(k) \in Stop /\ E(k).id = active_stops[k].id
      OBVIOUS
    <3>1. active_stops[k] \in Stop
      BY DEF TypeOK
    <3> QED BY <1>2, <3>1 DEF Stop
  <2>2. active_stops' = [k \in DOMAIN active_stops |-> E(k)]
    BY <1>4 DEF WithMark
  <2> HIDE DEF E
  <2>3. /\ active_stops' \in [DOMAIN active_stops -> Stop]
        /\ \A k \in DOMAIN active_stops : active_stops'[k].id = active_stops[k].id
    BY <2>1, <2>2
  <2>4. active_stops' \in Seq(Stop)
    BY <2>3, InPlace DEF TypeOK
  <2>5. Ids(active_stops') = Ids(active_stops) /\ Unique(active_stops')
    BY <2>3, ChangedList DEF TypeOK
  <2> QED BY <1>2, <2>4, <2>5 DEF s
<1> QED BY <1>3, <1>4 DEF RaiseMark, s

\* A save in the tick, after a step that adds nothing to lists and snapshots.
LEMMA TickSaves ==
    ASSUME TypeOK, Save \/ NothingToSave, UNCHANGED <<used, cancelled, dead>>,
           held' \in 0 .. MaxHeld, queue' \in Seq(Int \ {0}),
           active_stops' \in Seq(Stop), Unique(active_stops'),
           momentum_triggers' \in Seq(Trigger), Unique(momentum_triggers'),
           Ids(active_stops') \subseteq Ids(active_stops), Ids(todo') \subseteq Ids(todo),
           Ids(momentum_triggers') \subseteq Ids(momentum_triggers),
           Ids(triggers') \subseteq Ids(triggers)
    PROVE  faults' \in 0 .. MaxFaults /\ FileOK' /\ Shrinks
<1>1. file' \in {file, Memory'} /\ faults' \in 0 .. MaxFaults
  BY SaveKeeps
<1>2. Ids(active_stops') \cup Ids(momentum_triggers') \subseteq used' /\ used \subseteq used'
  BY DEF TypeOK, Armed
<1> QED BY <1>1, <1>2, FileKeeps, FileShrinks

LEMMA EvaluateStep == IInv /\ Evaluate => IInv'
<1> SUFFICES ASSUME IInv, Evaluate PROVE IInv'
  OBVIOUS
<1>0. TypeOK /\ Apart /\ Gone /\ Answered
  BY DEF IInv
<1> DEFINE s == Marked(Head(todo))
<1>1. /\ UNCHANGED <<price, held, queue, momentum_triggers, lapsed, triggers>>
      /\ UNCHANGED <<sell_qty, answer, fired, restarts, used, trades, again, cancelled, dead>>
      /\ quote' \in {quote, 0} /\ (Save \/ NothingToSave)
      /\ pc = "next" /\ todo # <<>>
      /\ UNCHANGED active_stops \/ RaiseMark(s)
      /\ \/ pc' = "held" /\ todo' = <<s>> \o Tail(todo)
         \/ pc' = "next" /\ todo' = Tail(todo)
  BY DEF Evaluate, KeepMark, RaiseMark, history, lists, Save
<1>2. answer = "none" /\ answer' = "none"
  BY <1>0, <1>1 DEF Answered
<1>3. /\ s \in Stop /\ s.id = Head(todo).id
      /\ active_stops' \in Seq(Stop) /\ Unique(active_stops')
      /\ Ids(active_stops') = Ids(active_stops)
  BY <1>0, <1>1, MarkKeeps
<1> HIDE DEF s
<1>4. /\ todo' \in Seq(Stop) /\ Unique(todo') /\ Ids(todo') \subseteq Ids(todo)
      /\ pc' = "held" => todo' # <<>>
  <2>0. todo \in Seq(Stop) /\ Unique(todo)
    BY <1>0 DEF TypeOK
  <2>1. CASE pc' = "held" /\ todo' = <<s>> \o Tail(todo)
    BY <1>1, <1>3, <2>0, <2>1, MarkedList
  <2>2. CASE pc' = "next" /\ todo' = Tail(todo)
    BY <1>1, <2>0, <2>2, TailList
  <2> QED BY <1>1, <2>1, <2>2
<1>5. faults' \in 0 .. MaxFaults /\ FileOK' /\ Shrinks
  <2>1. /\ held' \in 0 .. MaxHeld /\ queue' \in Seq(Int \ {0})
        /\ momentum_triggers' \in Seq(Trigger) /\ Unique(momentum_triggers')
    BY <1>0, <1>1 DEF TypeOK
  <2> QED BY <1>0, <1>1, <1>3, <1>4, <2>1, TickSaves
<1>6. TypeOK'
  BY <1>0, <1>1, <1>3, <1>4, <1>5 DEF TypeOK, FileOK, Armed, Stations
<1>7. Apart' /\ Gone' /\ Account'
  BY <1>1, <1>2, <1>5, ShrinksKeeps, ShrinksCalmly, CalmKeeps
<1> QED BY <1>2, <1>6, <1>7 DEF IInv, Answered

LEMMA ReadHeldStep == IInv /\ ReadHeld => IInv'
<1> SUFFICES ASSUME IInv, ReadHeld PROVE IInv'
  OBVIOUS
<1>0. TypeOK /\ Apart /\ Gone /\ Answered
  BY DEF IInv
<1>1. /\ UNCHANGED <<price, held, queue, active_stops, momentum_triggers, lapsed>>
      /\ UNCHANGED <<todo, triggers, quote, answer, fired, storage, used>>
      /\ UNCHANGED <<trades, again, cancelled, dead>>
      /\ pc = "held"
  BY DEF ReadHeld, broker, lists, history
<1>2. sell_qty' \in Nat /\ pc' \in {"submit", "remove"} /\ (pc' = "submit" => sell_qty' > 0)
  <2>1. Head(todo) \in Stop /\ held \in Nat
    BY <1>0, <1>1, StopAssumption DEF TypeOK
  <2>2. Head(todo).qty \in Nat \ {0}
    BY <2>1 DEF Stop
  <2> QED BY <2>1, <2>2 DEF ReadHeld, LowerOf
<1>3. answer = "none" /\ answer' = "none"
  BY <1>0, <1>1 DEF Answered
<1>4. TypeOK'
  BY <1>0, <1>1, <1>2 DEF TypeOK, Armed, Stations, storage
<1>5. Shrinks
  BY <1>1, FileShrinks DEF storage
<1>6. Apart' /\ Gone' /\ Account'
  BY <1>1, <1>3, <1>5, ShrinksKeeps, ShrinksCalmly, CalmKeeps
<1> QED BY <1>3, <1>4, <1>6 DEF IInv, Answered

\* What the broker keeps of an order that it takes.
LEMMA TakenKeeps ==
    ASSUME TypeOK, NEW i \in EntryIds, NEW n \in Int \ {0}, NEW a, Taken(i, n, a)
    PROVE  /\ held' \in 0 .. MaxHeld /\ queue' \in Seq(Int \ {0})
           /\ trades' \in [EntryIds -> Nat]
           /\ trades' = [trades EXCEPT ![i] = @ + 1]
<1>1. trades' = [trades EXCEPT ![i] = @ + 1] /\ trades' \in [EntryIds -> Nat]
  BY DEF Taken, TypeOK
<1>2. CASE Execute(n) /\ queue' = queue
  <2>1. held' \in 0 .. MaxHeld
    BY <1>2, StopAssumption DEF Execute, LowerOf, TypeOK
  <2> QED BY <1>1, <1>2, <2>1 DEF TypeOK
<1>3. CASE held' = held /\ queue' = Append(queue, n)
  <2>1. Append(queue, n) \in Seq(Int \ {0})
    BY DEF TypeOK
  <2> QED BY <1>1, <1>3, <2>1 DEF TypeOK
<1> QED BY <1>2, <1>3 DEF Taken

\* An order of the first entry is taken and settles it, is refused or raises before
\* anything has changed, or is taken and counted as a fault.
Ordered(i) ==
    \/ UNCHANGED <<held, queue, trades, again>> /\ NothingToSave
    \/ /\ \E n \in Int \ {0}, a \in {"FILLED", "QUEUED"} : Taken(i, n, a)
       /\ Saved /\ UNCHANGED again /\ Settled(i)'
    \/ /\ \E n \in Int \ {0}, a \in {"FILLED", "QUEUED"} : Taken(i, n, a)
       /\ faults < MaxFaults /\ faults' = faults + 1 /\ file' \in {file, Memory'}
       /\ again' = [again EXCEPT ![i] = @ + 1]

LEMMA OrderedKeeps ==
    ASSUME IInv, NEW i \in EntryIds, i \in Ids(todo) \cup Ids(triggers), Ordered(i),
           answer = "none", UNCHANGED <<active_stops, momentum_triggers, used, cancelled, dead>>,
           Ids(todo') \subseteq Ids(todo), Ids(triggers') \subseteq Ids(triggers)
    PROVE  /\ held' \in 0 .. MaxHeld /\ queue' \in Seq(Int \ {0})
           /\ trades' \in [EntryIds -> Nat] /\ again' \in [EntryIds -> Nat]
           /\ faults' \in 0 .. MaxFaults /\ FileOK'
           /\ Apart' /\ Gone' /\ Account'
<1>0. TypeOK
  BY DEF IInv
<1> DEFINE Took == \E n \in Int \ {0}, a \in {"FILLED", "QUEUED"} : Taken(i, n, a)
<1>1. Took => /\ held' \in 0 .. MaxHeld /\ queue' \in Seq(Int \ {0})
              /\ trades' \in [EntryIds -> Nat]
              /\ trades' = [trades EXCEPT ![i] = @ + 1]
  BY <1>0, TakenKeeps
<1>2. \/ UNCHANGED <<held, queue, trades, again>> /\ NothingToSave
      \/ Took /\ Saved /\ UNCHANGED again /\ Settled(i)'
      \/ /\ Took /\ faults < MaxFaults /\ faults' = faults + 1 /\ file' \in {file, Memory'}
         /\ again' = [again EXCEPT ![i] = @ + 1]
  BY DEF Ordered
<1> HIDE DEF Took
<1>3. /\ held' \in 0 .. MaxHeld /\ queue' \in Seq(Int \ {0})
      /\ trades' \in [EntryIds -> Nat] /\ again' \in [EntryIds -> Nat]
  <2>1. again' = again \/ again' = [again EXCEPT ![i] = @ + 1]
    BY <1>2
  <2>2. again' \in [EntryIds -> Nat]
    <3>1. again \in [EntryIds -> Nat]
      BY <1>0 DEF TypeOK
    <3> QED BY <2>1, <3>1
  <2>3. CASE UNCHANGED <<held, queue, trades, again>>
    BY <1>0, <2>2, <2>3 DEF TypeOK
  <2>4. CASE Took
    BY <1>1, <2>2, <2>4
  <2> QED BY <1>2, <2>3, <2>4
<1>4. file' \in {file, Memory'} /\ faults' \in 0 .. MaxFaults
  BY <1>0, <1>2, OneMore, SaveKeeps DEF Save
<1>5. FileOK'
  <2>1. /\ active_stops' \in Seq(Stop) /\ Unique(active_stops') /\ used \subseteq used'
        /\ momentum_triggers' \in Seq(Trigger) /\ Unique(momentum_triggers')
        /\ Ids(active_stops') \cup Ids(momentum_triggers') \subseteq used'
    BY <1>0 DEF TypeOK, Armed
  <2> QED BY <1>0, <1>3, <1>4, <2>1, FileKeeps
<1>6. Shrinks
  BY <1>4, FileShrinks
<1>7. Account'
  <2>1. CASE UNCHANGED <<held, queue, trades, again>> /\ NothingToSave
    BY <1>6, <2>1, ShrinksCalmly, CalmKeeps
  <2>2. CASE Took /\ (again' = [again EXCEPT ![i] = @ + 1] \/ (UNCHANGED again /\ Settled(i)'))
    <3>1. Spends(i)
      BY <1>1, <2>2 DEF Spends
    <3> QED BY <1>6, <3>1, SpendsKeeps
  <2> QED BY <1>2, <2>1, <2>2
<1> QED BY <1>3, <1>4, <1>5, <1>6, <1>7, ShrinksKeeps

\* The answer for a stop.
LEMMA SubmitStep == IInv /\ (Submit \/ SubmitFails \/ SubmitFailsLate) => IInv'
<1> SUFFICES ASSUME IInv, Submit \/ SubmitFails \/ SubmitFailsLate PROVE IInv'
  OBVIOUS
<1>0. TypeOK /\ Apart /\ Gone /\ Answered
  BY DEF IInv
<1> DEFINE i == Head(todo).id
<1>1. /\ UNCHANGED <<price, active_stops, momentum_triggers, lapsed, triggers>>
      /\ UNCHANGED <<quote, fired, restarts, used, cancelled, dead>>
      /\ pc = "submit" /\ sell_qty' = 0
  BY DEF Submit, SubmitFails, SubmitFailsLate, TakenLate, AfterSale, broker, lists, history, storage
<1>2. answer = "none" /\ todo # <<>> /\ -sell_qty \in Int \ {0}
  BY <1>0, <1>1 DEF Answered, TypeOK
<1>3. /\ i \in EntryIds /\ i \in Ids(todo) /\ Tail(todo) \in Seq(Stop)
      /\ Unique(Tail(todo)) /\ Ids(Tail(todo)) \subseteq Ids(todo)
  <2>1. todo \in Seq(Stop) /\ Unique(todo)
    BY <1>0 DEF TypeOK
  <2>2. Head(todo) \in Stop
    BY <1>2, <2>1, TailList
  <2>3. i \in EntryIds
    BY <2>2 DEF Stop
  <2> QED BY <1>2, <2>1, <2>3, TailList
<1>4. \/ pc' = "next" /\ todo' = Tail(todo) /\ answer' = "none"
      \/ /\ pc' = "remove" /\ todo' = todo
         /\ answer' \in {"FILLED", "QUEUED", "REJECTED"}
  BY DEF Submit, SubmitFails, SubmitFailsLate, AfterSale
<1>5. /\ todo' \in Seq(Stop) /\ Unique(todo') /\ Ids(todo') \subseteq Ids(todo)
      /\ pc' = "remove" => todo' # <<>>
  BY <1>0, <1>2, <1>3, <1>4 DEF TypeOK
<1>6. Ordered(i)
  <2>1. CASE Submit
    <3>1. CASE \E a \in {"FILLED", "QUEUED"} : Taken(i, -sell_qty, a) /\ Saved /\ AfterSale(a)
      <4>1. UNCHANGED again
        BY <2>1 DEF Submit
      <4>2. Settled(i)'
        BY <3>1 DEF AfterSale, Settled, Traded, Current
      <4> QED BY <1>2, <3>1, <4>1, <4>2 DEF Ordered
    <3>2. CASE Refused /\ NothingToSave
      BY <2>1, <3>2 DEF Submit, Refused, Ordered
    <3> QED BY <2>1, <3>1, <3>2 DEF Submit
  <2>2. CASE SubmitFails
    BY <2>2 DEF SubmitFails, Ordered, broker, storage, history, NothingToSave
  <2>3. CASE SubmitFailsLate
    BY <1>2, <2>3 DEF SubmitFailsLate, TakenLate, Ordered
  <2> QED BY <2>1, <2>2, <2>3
<1> HIDE DEF i
<1>7. /\ held' \in 0 .. MaxHeld /\ queue' \in Seq(Int \ {0})
      /\ trades' \in [EntryIds -> Nat] /\ again' \in [EntryIds -> Nat]
      /\ faults' \in 0 .. MaxFaults /\ FileOK'
      /\ Apart' /\ Gone' /\ Account'
  BY <1>1, <1>2, <1>3, <1>5, <1>6, OrderedKeeps
<1>8. TypeOK'
  <2>1. pc' \in {"next", "remove"} /\ answer' \in {"none", "FILLED", "QUEUED", "REJECTED"}
    BY <1>4
  <2> QED BY <1>0, <1>1, <1>5, <1>7, <2>1 DEF TypeOK, FileOK, Armed, Stations
<1> QED BY <1>4, <1>7, <1>8 DEF IInv, Answered

\* The entry whose order was taken is removed: it is out of reach then, or counted.
LEMMA RemovedKeeps ==
    ASSUME IInv, NEW i \in EntryIds, Current = i, Shrinks, UNCHANGED trades, again' = Counted(i),
           answer' = "none",
           i \notin Ids(active_stops') \cup Ids(momentum_triggers'),
           i \notin Ids(todo') \cup Ids(triggers')
    PROVE  Apart' /\ Gone' /\ Account'
<1>1. TypeOK
  BY DEF IInv
<1>2. /\ again' \in [EntryIds -> Nat] /\ \A j \in EntryIds : again'[j] >= again[j]
      /\ Traded /\ i \in Ids(file'.stops) \cup Ids(file'.triggers)
           => again'[i] = again[i] + 1
  BY <1>1, CountedKeeps
<1>3. ASSUME NEW j \in EntryIds, InReach(j)'
      PROVE  (InReach(j) /\ ~Settled(j)) \/ again'[j] = again[j] + 1
  <2>1. InReach(j)
    BY <1>3 DEF InReach, Shrinks
  <2>2. CASE j = i /\ Traded
    <3>1. i \in Ids(file'.stops) \cup Ids(file'.triggers)
      BY <1>3, <2>2 DEF InReach, StopsKept, TriggersKept
    <3> QED BY <1>2, <2>2, <3>1
  <2>3. CASE ~(j = i /\ Traded)
    BY <2>1, <2>3 DEF Settled
  <2> QED BY <2>2, <2>3
<1>4. Calm
  BY <1>2, <1>3 DEF Calm, Shrinks
<1> QED BY <1>4, CalmKeeps, ShrinksKeeps

\* A stop that is dealt with leaves list and snapshot together.
LEMMA RemoveStopStep == IInv /\ RemoveStop => IInv'
<1> SUFFICES ASSUME IInv, RemoveStop PROVE IInv'
  OBVIOUS
<1>0. TypeOK /\ Apart /\ Gone /\ Answered
  BY DEF IInv
<1> DEFINE i == Head(todo).id
<1>1. /\ UNCHANGED <<price, held, queue, momentum_triggers, lapsed, triggers>>
      /\ UNCHANGED <<quote, sell_qty, restarts, used, trades, cancelled, dead>>
      /\ pc = "remove" /\ pc' = "next" /\ active_stops' = Removed(active_stops, i)
      /\ fired' \in {fired, fired \cup {i}}
      /\ todo' = Tail(todo) /\ answer' = "none"
      /\ Save \/ NothingToSave
      /\ again' = Counted(i)
  BY DEF RemoveStop, Save
<1>2. todo # <<>> /\ todo \in Seq(Stop) /\ Unique(todo)
  BY <1>0, <1>1 DEF TypeOK
<1>3. /\ i \in EntryIds /\ i \in Ids(todo)
      /\ todo' \in Seq(Stop) /\ Unique(todo') /\ Ids(todo') = Ids(todo) \ {i}
  <2>1. Head(todo) \in Stop
    BY <1>2, TailList
  <2>2. i \in EntryIds
    BY <2>1 DEF Stop
  <2> QED BY <1>1, <1>2, <2>2, TailList
<1>4. /\ active_stops' \in Seq(Stop) /\ Unique(active_stops')
      /\ Ids(active_stops') = Ids(active_stops) \ {i}
  BY <1>0, <1>1, RemovedList DEF TypeOK
<1>5. Current = i
  BY <1>1 DEF Current
<1> HIDE DEF i
<1>6. faults' \in 0 .. MaxFaults /\ FileOK' /\ Shrinks
  <2>1. /\ held' \in 0 .. MaxHeld /\ queue' \in Seq(Int \ {0})
        /\ momentum_triggers' \in Seq(Trigger) /\ Unique(momentum_triggers')
    BY <1>0, <1>1 DEF TypeOK
  <2> QED BY <1>0, <1>1, <1>3, <1>4, <2>1, TickSaves
<1>7. TypeOK'
  <2>1. fired' \subseteq EntryIds
    BY <1>0, <1>1, <1>3 DEF TypeOK
  <2>2. again' \in [EntryIds -> Nat]
    BY <1>0, <1>1, <1>3, CountedKeeps
  <2> QED BY <1>0, <1>1, <1>3, <1>4, <1>6, <2>1, <2>2 DEF TypeOK, FileOK, Armed, Stations
<1>8. Apart' /\ Gone' /\ Account'
  <2>1. i \notin Ids(momentum_triggers) \cup Ids(triggers)
    BY <1>0, <1>3 DEF Apart, TriggersKept
  <2> QED BY <1>1, <1>3, <1>4, <1>5, <1>6, <2>1, RemovedKeeps
<1> QED BY <1>1, <1>7, <1>8 DEF IInv, Answered

------------------------------------------------------------------------------
(* The tick: triggers.                                                     *)

LEMMA FirstTrigger ==
    ASSUME TypeOK, triggers # <<>>
    PROVE  /\ Head(triggers) \in Trigger
           /\ Head(triggers).id \in EntryIds /\ Head(triggers).id \in Ids(triggers)
           /\ Tail(triggers) \in Seq(Trigger) /\ Unique(Tail(triggers))
           /\ Ids(Tail(triggers)) = Ids(triggers) \ {Head(triggers).id}
           /\ Signed(Head(triggers)) \in Int \ {0}
<1>1. triggers \in Seq(Trigger) /\ Unique(triggers)
  BY DEF TypeOK
<1>2. Head(triggers) \in Trigger
  BY <1>1, TailList
<1>3. Head(triggers).id \in EntryIds /\ Head(triggers).qty \in Nat \ {0}
  BY <1>2 DEF Trigger
<1>4. Signed(Head(triggers)) \in Int \ {0}
  BY <1>3 DEF Signed
<1> QED BY <1>1, <1>2, <1>3, <1>4, TailList

\* A trigger is passed over, dropped, or about to be traded for.
LEMMA EvaluateTriggerStep == IInv /\ EvaluateTrigger => IInv'
<1> SUFFICES ASSUME IInv, EvaluateTrigger PROVE IInv'
  OBVIOUS
<1>0. TypeOK /\ Apart /\ Gone /\ Answered
  BY DEF IInv
<1> DEFINE i == Head(triggers).id
<1>1. /\ UNCHANGED <<price, held, queue, active_stops, lapsed, todo, quote>>
      /\ UNCHANGED <<sell_qty, answer, fired, restarts, used, trades, again, cancelled, dead>>
      /\ pc = "next" /\ pc' \in {"next", "trade"} /\ triggers # <<>>
      /\ momentum_triggers' \in {momentum_triggers, Removed(momentum_triggers, i)}
      /\ triggers' \in {triggers, Tail(triggers)} /\ (pc' = "trade" => triggers' = triggers)
      /\ Save \/ NothingToSave
  BY DEF EvaluateTrigger, Disarm, Save, history
<1>2. answer = "none" /\ answer' = "none"
  BY <1>0, <1>1 DEF Answered
<1>3. /\ triggers' \in Seq(Trigger) /\ Unique(triggers') /\ Ids(triggers') \subseteq Ids(triggers)
  BY <1>0, <1>1, FirstTrigger DEF TypeOK
<1>4. /\ momentum_triggers' \in Seq(Trigger) /\ Unique(momentum_triggers')
      /\ Ids(momentum_triggers') \subseteq Ids(momentum_triggers)
  BY <1>0, <1>1, RemovedList DEF TypeOK
<1>5. faults' \in 0 .. MaxFaults /\ FileOK' /\ Shrinks
  <2>1. /\ held' \in 0 .. MaxHeld /\ queue' \in Seq(Int \ {0})
        /\ active_stops' \in Seq(Stop) /\ Unique(active_stops')
    BY <1>0, <1>1 DEF TypeOK
  <2> QED BY <1>0, <1>1, <1>3, <1>4, <2>1, TickSaves
<1>6. TypeOK'
  BY <1>0, <1>1, <1>3, <1>4, <1>5 DEF TypeOK, FileOK, Armed, Stations
<1>7. Apart' /\ Gone' /\ Account'
  BY <1>1, <1>2, <1>5, ShrinksKeeps, ShrinksCalmly, CalmKeeps
<1> QED BY <1>2, <1>6, <1>7 DEF IInv, Answered

\* The answer for a trigger.
LEMMA SubmitTradeStep == IInv /\ (SubmitTrade \/ TradeFails) => IInv'
<1> SUFFICES ASSUME IInv, SubmitTrade \/ TradeFails PROVE IInv'
  OBVIOUS
<1>0. TypeOK /\ Apart /\ Gone /\ Answered
  BY DEF IInv
<1> DEFINE i == Head(triggers).id
           n == Signed(Head(triggers))
<1>1. /\ UNCHANGED <<price, active_stops, momentum_triggers, lapsed, todo>>
      /\ UNCHANGED <<quote, sell_qty, fired, restarts, used, cancelled, dead>>
      /\ pc = "trade"
  BY DEF SubmitTrade, TradeFails, TakenLate, AfterTrade, lists
<1>2. answer = "none" /\ triggers # <<>>
  BY <1>0, <1>1 DEF Answered, TypeOK
<1>3. /\ i \in EntryIds /\ i \in Ids(triggers) /\ n \in Int \ {0}
      /\ Tail(triggers) \in Seq(Trigger) /\ Unique(Tail(triggers))
      /\ Ids(Tail(triggers)) \subseteq Ids(triggers)
  BY <1>0, <1>2, FirstTrigger
<1>4. \/ pc' = "next" /\ triggers' = Tail(triggers) /\ answer' = "none"
      \/ /\ pc' = "disarm" /\ triggers' = triggers
         /\ answer' \in {"FILLED", "QUEUED", "REJECTED"}
  BY DEF SubmitTrade, TradeFails, AfterTrade
<1>5. /\ triggers' \in Seq(Trigger) /\ Unique(triggers') /\ Ids(triggers') \subseteq Ids(triggers)
      /\ pc' = "disarm" => triggers' # <<>>
  BY <1>0, <1>2, <1>3, <1>4 DEF TypeOK
<1>6. Ordered(i)
  <2>1. CASE SubmitTrade
    <3>1. CASE \E a \in {"FILLED", "QUEUED"} : Taken(i, n, a) /\ Saved /\ AfterTrade(a)
      <4>1. UNCHANGED again
        BY <2>1 DEF SubmitTrade
      <4>2. Settled(i)'
        BY <3>1 DEF AfterTrade, Settled, Traded, Current
      <4> QED BY <1>3, <3>1, <4>1, <4>2 DEF Ordered
    <3>2. CASE Refused /\ NothingToSave
      BY <2>1, <3>2 DEF SubmitTrade, Refused, Ordered
    <3> QED BY <2>1, <3>1, <3>2 DEF SubmitTrade
  <2>2. CASE TradeFails
    <3>1. CASE UNCHANGED <<held, queue, lists, trades, again>> /\ NothingToSave
      BY <3>1 DEF Ordered
    <3>2. CASE TakenLate(i, n)
      BY <1>3, <3>2 DEF TakenLate, Ordered
    <3> QED BY <2>2, <3>1, <3>2 DEF TradeFails
  <2> QED BY <2>1, <2>2
<1> HIDE DEF i, n
<1>7. /\ held' \in 0 .. MaxHeld /\ queue' \in Seq(Int \ {0})
      /\ trades' \in [EntryIds -> Nat] /\ again' \in [EntryIds -> Nat]
      /\ faults' \in 0 .. MaxFaults /\ FileOK'
      /\ Apart' /\ Gone' /\ Account'
  BY <1>1, <1>2, <1>3, <1>5, <1>6, OrderedKeeps
<1>8. TypeOK'
  <2>1. pc' \in {"next", "disarm"} /\ answer' \in {"none", "FILLED", "QUEUED", "REJECTED"}
    BY <1>4
  <2> QED BY <1>0, <1>1, <1>5, <1>7, <2>1 DEF TypeOK, FileOK, Armed, Stations
<1> QED BY <1>4, <1>7, <1>8 DEF IInv, Answered

LEMMA RemoveTriggerStep == IInv /\ RemoveTrigger => IInv'
<1> SUFFICES ASSUME IInv, RemoveTrigger PROVE IInv'
  OBVIOUS
<1>0. TypeOK /\ Apart /\ Gone /\ Answered
  BY DEF IInv
<1> DEFINE i == Head(triggers).id
<1>1. /\ UNCHANGED <<price, held, queue, active_stops, lapsed, todo, quote>>
      /\ UNCHANGED <<sell_qty, fired, restarts, used, trades, cancelled, dead>>
      /\ pc = "disarm" /\ pc' = "next"
      /\ momentum_triggers' = Removed(momentum_triggers, i)
      /\ triggers' = Tail(triggers) /\ answer' = "none"
      /\ Save \/ NothingToSave
      /\ again' = Counted(i)
  BY DEF RemoveTrigger, Disarm, Save
<1>2. triggers # <<>>
  BY <1>0, <1>1 DEF TypeOK
<1>3. /\ i \in EntryIds /\ i \in Ids(triggers)
      /\ triggers' \in Seq(Trigger) /\ Unique(triggers') /\ Ids(triggers') = Ids(triggers) \ {i}
  BY <1>0, <1>1, <1>2, FirstTrigger
<1>4. /\ momentum_triggers' \in Seq(Trigger) /\ Unique(momentum_triggers')
      /\ Ids(momentum_triggers') = Ids(momentum_triggers) \ {i}
  BY <1>0, <1>1, RemovedList DEF TypeOK
<1>5. Current = i
  BY <1>1 DEF Current
<1> HIDE DEF i
<1>6. faults' \in 0 .. MaxFaults /\ FileOK' /\ Shrinks
  <2>1. /\ held' \in 0 .. MaxHeld /\ queue' \in Seq(Int \ {0})
        /\ active_stops' \in Seq(Stop) /\ Unique(active_stops')
    BY <1>0, <1>1 DEF TypeOK
  <2> QED BY <1>0, <1>1, <1>3, <1>4, <2>1, TickSaves
<1>7. TypeOK'
  <2>1. again' \in [EntryIds -> Nat]
    BY <1>0, <1>1, <1>3, CountedKeeps
  <2> QED BY <1>0, <1>1, <1>3, <1>4, <1>6, <2>1 DEF TypeOK, FileOK, Armed, Stations
<1>8. Apart' /\ Gone' /\ Account'
  <2>1. i \notin Ids(active_stops) \cup Ids(todo)
    BY <1>0, <1>3 DEF Apart, StopsKept
  <2> QED BY <1>1, <1>3, <1>4, <1>5, <1>6, <2>1, RemovedKeeps
<1> QED BY <1>1, <1>7, <1>8 DEF IInv, Answered

------------------------------------------------------------------------------
(* Faults.                                                                 *)

\* The snapshots are lost.
LEMMA LostLists ==
    TickLost => /\ todo' = <<>> /\ triggers' = <<>> /\ Ids(todo') = {} /\ Ids(triggers') = {}
                /\ Unique(todo') /\ Unique(triggers')
                /\ quote' = 0 /\ sell_qty' = 0 /\ answer' = "none" /\ fired' = {}
BY DEF TickLost, Ids, Unique

\* The list has changed and the file has not, the snapshots are lost.
LEMMA AbortStep == IInv /\ TickAborts => IInv'
<1> SUFFICES ASSUME IInv, TickAborts PROVE IInv'
  OBVIOUS
<1>0. TypeOK /\ Apart /\ Gone /\ Answered
  BY DEF IInv
<1> DEFINE s == Marked(Head(todo))
           i == Head(triggers).id
<1>1. /\ UNCHANGED <<price, held, queue, lapsed, restarts, used, trades, cancelled, dead>>
      /\ NotSaved /\ pc' = "idle" /\ TickLost
  BY DEF TickAborts, RaiseMark
<1>2. /\ active_stops' \in Seq(Stop) /\ Unique(active_stops')
      /\ momentum_triggers' \in Seq(Trigger) /\ Unique(momentum_triggers')
      /\ Ids(active_stops') \subseteq Ids(active_stops)
      /\ Ids(momentum_triggers') \subseteq Ids(momentum_triggers)
      /\ \/ answer = "none" /\ again' = again
         \/ \E e \in EntryIds :
               /\ Current = e \/ answer = "none"
               /\ e \notin Ids(active_stops') \cup Ids(momentum_triggers')
               /\ again' = Counted(e)
  <2>1. CASE pc = "next" /\ todo # <<>> /\ RaiseMark(s) /\ again' = again
    <3>1. answer = "none"
      BY <1>0, <2>1 DEF Answered
    <3>2. /\ active_stops' \in Seq(Stop) /\ Unique(active_stops')
          /\ Ids(active_stops') = Ids(active_stops)
      BY <1>0, <2>1, MarkKeeps
    <3> QED BY <1>0, <2>1, <3>1, <3>2 DEF TypeOK, RaiseMark
  <2>2. CASE /\ pc = "remove" /\ active_stops' = Removed(active_stops, s.id)
             /\ momentum_triggers' = momentum_triggers /\ again' = Counted(s.id)
    <3>1. todo # <<>> /\ todo \in Seq(Stop) /\ Unique(todo) /\ quote \in Nat
      BY <1>0, <2>2, StopAssumption DEF TypeOK
    <3>2. Head(todo) \in Stop /\ Head(todo).id \in Ids(todo)
      BY <3>1, TailList
    <3>3. s.id = Head(todo).id /\ s.id \in EntryIds
      BY <3>1, <3>2 DEF Marked, Stop
    <3>4. Current = s.id /\ s.id \notin Ids(momentum_triggers)
      BY <1>0, <2>2, <3>2, <3>3 DEF Current, Apart, TriggersKept
    <3> HIDE DEF s
    <3>5. /\ active_stops' \in Seq(Stop) /\ Unique(active_stops')
          /\ Ids(active_stops') = Ids(active_stops) \ {s.id}
      BY <1>0, <2>2, RemovedList DEF TypeOK
    <3> QED BY <1>0, <2>2, <3>3, <3>4, <3>5 DEF TypeOK
  <2>3. CASE /\ pc = "disarm" \/ (pc = "next" /\ triggers # <<>>)
             /\ momentum_triggers' = Removed(momentum_triggers, i)
             /\ active_stops' = active_stops /\ again' = Counted(i)
    <3>1. triggers # <<>>
      BY <1>0, <2>3 DEF TypeOK
    <3>2. i \in Ids(triggers) /\ i \in EntryIds
      BY <1>0, <3>1, FirstTrigger
    <3>3. i \notin Ids(active_stops) /\ (Current = i \/ answer = "none")
      BY <1>0, <2>3, <3>2 DEF Current, Apart, Answered, StopsKept
    <3> HIDE DEF i
    <3>4. /\ momentum_triggers' \in Seq(Trigger) /\ Unique(momentum_triggers')
          /\ Ids(momentum_triggers') = Ids(momentum_triggers) \ {i}
      BY <1>0, <2>3, RemovedList DEF TypeOK
    <3> QED BY <1>0, <2>3, <3>2, <3>3, <3>4 DEF TypeOK
  <2> QED BY <2>1, <2>2, <2>3 DEF TickAborts
<1> HIDE DEF s, i
<1>3. faults' \in 0 .. MaxFaults /\ FileOK' /\ Shrinks
  <2>1. held' \in 0 .. MaxHeld /\ queue' \in Seq(Int \ {0})
    BY <1>0, <1>1 DEF TypeOK
  <2> QED BY <1>0, <1>1, <1>2, <2>1, LostLists, TickSaves DEF Save
<1>4. again' \in [EntryIds -> Nat]
  <2>1. CASE again' = again
    BY <1>0, <2>1 DEF TypeOK
  <2>2. CASE \E e \in EntryIds : again' = Counted(e)
    <3>1. PICK e \in EntryIds : again' = Counted(e)
      BY <2>2
    <3> QED BY <1>0, <3>1, CountedKeeps
  <2> QED BY <1>2, <2>1, <2>2
<1>5. TypeOK'
  <2>1. /\ active_stops' \in Seq(Stop) /\ Unique(active_stops')
        /\ momentum_triggers' \in Seq(Trigger) /\ Unique(momentum_triggers')
        /\ Ids(active_stops') \cup Ids(momentum_triggers') \subseteq used'
    BY <1>0, <1>1, <1>2 DEF TypeOK, Armed
  <2> QED BY <1>0, <1>1, <1>3, <1>4, <2>1, LostLists DEF TypeOK, FileOK, Armed, Stations
<1>6. Apart' /\ Gone' /\ Account'
  <2>1. CASE answer = "none"
    <3>1. again' = again
      BY <1>2, <2>1 DEF Counted, Traded
    <3> QED BY <1>1, <1>3, <2>1, <3>1, ShrinksKeeps, ShrinksCalmly, CalmKeeps
  <2>2. CASE answer # "none"
    <3>1. PICK e \in EntryIds : /\ Current = e /\ again' = Counted(e)
                                /\ e \notin Ids(active_stops') \cup Ids(momentum_triggers')
      BY <1>2, <2>2
    <3> QED BY <1>1, <1>3, <3>1, LostLists, RemovedKeeps
  <2> QED BY <2>1, <2>2
<1> QED BY <1>1, <1>5, <1>6, LostLists DEF IInv, Answered

\* Memory is what the file had.  The entry whose order was taken is counted when it is
\* there again.
LEMMA RestartStep == IInv /\ Restart => IInv'
<1> SUFFICES ASSUME IInv, Restart PROVE IInv'
  OBVIOUS
<1>0. TypeOK /\ Apart /\ Gone /\ Answered
  BY DEF IInv
<1>1. /\ UNCHANGED <<price, lapsed, used, trades, cancelled, dead, file, faults>>
      /\ held' \in {file.held, 0} /\ queue' \in {file.queue, <<>>}
      /\ active_stops' \in {file.stops, <<>>} /\ momentum_triggers' \in {file.triggers, <<>>}
      /\ restarts < MaxRestarts /\ restarts' = restarts + 1
      /\ pc' = "off" /\ TickLost /\ again' = Counted(Current)
  BY DEF Restart, Loaded, NothingToSave
<1>2. Traded => Current \in EntryIds
  <2>1. CASE pc = "remove"
    <3>1. Head(todo) \in Stop
      BY <1>0, <2>1 DEF TypeOK
    <3> QED BY <2>1, <3>1 DEF Current, Stop
  <2>2. CASE pc = "disarm"
    BY <1>0, <2>2, FirstTrigger DEF Current, TypeOK
  <2> QED BY <1>0, <2>1, <2>2 DEF Answered, Traded
<1>3. /\ again' \in [EntryIds -> Nat] /\ \A j \in EntryIds : again'[j] >= again[j]
      /\ Traded /\ Current \in Ids(file.stops) \cup Ids(file.triggers)
           => again'[Current] = again[Current] + 1
  <2> DEFINE c == Current
  <2>1. (Traded => c \in EntryIds) /\ again' = Counted(c) /\ file' = file
    BY <1>1, <1>2
  <2> HIDE DEF c
  <2>2. /\ again' \in [EntryIds -> Nat] /\ \A j \in EntryIds : again'[j] >= again[j]
        /\ Traded /\ c \in Ids(file'.stops) \cup Ids(file'.triggers)
             => again'[c] = again[c] + 1
    BY <1>0, <2>1, CountedKeeps
  <2> QED BY <2>1, <2>2 DEF c
<1>a. Ids(<<>>) = {} /\ Unique(<<>>)
  BY DEF Ids, Unique
<1>4. Shrinks
  BY <1>1, <1>a, LostLists DEF Shrinks, StopsKept, TriggersKept
<1>5. TypeOK'
  <2>1. restarts' \in 0 .. MaxRestarts
    BY <1>0, <1>1, StopAssumption DEF TypeOK
  <2>2. /\ held' \in 0 .. MaxHeld /\ queue' \in Seq(Int \ {0})
        /\ active_stops' \in Seq(Stop) /\ Unique(active_stops')
        /\ momentum_triggers' \in Seq(Trigger) /\ Unique(momentum_triggers')
        /\ Ids(active_stops') \cup Ids(momentum_triggers') \subseteq used'
    <3>1. /\ file.held \in 0 .. MaxHeld /\ file.queue \in Seq(Int \ {0}) /\ 0 \in 0 .. MaxHeld
          /\ file.stops \in Seq(Stop) /\ Unique(file.stops)
          /\ file.triggers \in Seq(Trigger) /\ Unique(file.triggers)
          /\ Ids(file.stops) \cup Ids(file.triggers) \subseteq used
      BY <1>0, StopAssumption DEF TypeOK
    <3>2. <<>> \in Seq(Stop) /\ <<>> \in Seq(Trigger) /\ <<>> \in Seq(Int \ {0})
      OBVIOUS
    <3> QED BY <1>1, <1>a, <3>1, <3>2
  <2> QED BY <1>0, <1>1, <1>3, <2>1, <2>2, LostLists DEF TypeOK, Armed, Stations
<1>6. Calm
  <2>1. ASSUME NEW j \in EntryIds, InReach(j)'
        PROVE  (InReach(j) /\ ~Settled(j)) \/ again'[j] = again[j] + 1
    <3>1. j \in Ids(file.stops) \cup Ids(file.triggers)
      BY <1>1, <1>a, <2>1, LostLists DEF InReach, StopsKept, TriggersKept
    <3> QED BY <1>3, <3>1 DEF InReach, StopsKept, TriggersKept, Settled
  <2> QED BY <1>1, <1>3, <2>1 DEF Calm
<1>7. Apart' /\ Gone' /\ Account'
  BY <1>4, <1>6, ShrinksKeeps, CalmKeeps
<1> QED BY <1>1, <1>5, <1>7, LostLists DEF IInv, Answered

------------------------------------------------------------------------------
LEMMA InvStep == IInv /\ [Next]_vars => IInv'
<1> SUFFICES ASSUME IInv, [Next]_vars PROVE IInv'
  OBVIOUS
<1>1. CASE Move \/ Trade \/ FillQueued \/ (\E i \in EntryIds : Lapse(i)) \/ UNCHANGED vars
  BY <1>1, OutsideStep
<1>2. CASE \E i \in EntryIds : \/ \E shape \in Shapes[i] : SetStop(i, shape)
                             \/ \E order \in Orders[i] : SetTrigger(i, order)
  BY <1>2, SetStep
<1>3. CASE \E i \in EntryIds : \E shape \in Shapes[i] : AdjustStop(i, shape)
  BY <1>3, AdjustStep
<1>4. CASE \E i \in EntryIds : Cancel(i)
  BY <1>4, CancelStep
<1>5. CASE Tick
  BY <1>5, BeginStep, IdleStep, EvaluateStep, ReadHeldStep, SubmitStep, RemoveStopStep,
     EvaluateTriggerStep, SubmitTradeStep, RemoveTriggerStep, AbortStep DEF Tick
<1>6. CASE StartEngine
  BY <1>6, IdleStep
<1>7. CASE Restart
  BY <1>7, RestartStep
<1> QED BY <1>1, <1>2, <1>3, <1>4, <1>5, <1>6, <1>7 DEF Next

\* What the engine has traded for, and what is still in its reach, agree.
THEOREM StopInvariant == Spec => []IInv
BY InvInit, InvStep, PTL DEF Spec

\* Every variable keeps its type, and no list or snapshot has an id twice.
THEOREM TypesHold == Spec => []TypeOK
<1>1. IInv => TypeOK
  BY DEF IInv
<1> QED BY <1>1, StopInvariant, PTL

\* One arming is one order, but for what is still armed or in the state file after its
\* order was taken: any number of saves may fail, and any number of restarts follow.
THEOREM FiresOnceHolds == Spec => []FiresOnce
<1>1. IInv => FiresOnce
  BY DEF IInv, Account, FiresOnce
<1> QED BY <1>1, StopInvariant, PTL

\* From the tick after its cancellation on, an entry is not traded for.
THEOREM CancelHolds == Spec => CancelTakesEffect
<1>1. IInv /\ [Next]_vars => [\A i \in dead : trades'[i] = trades[i]]_vars
  <2> SUFFICES ASSUME IInv, Next, NEW i \in dead PROVE trades'[i] = trades[i]
    OBVIOUS
  <2>0. TypeOK /\ Gone
    BY DEF IInv
  <2>1. i \notin Ids(todo) \cup Ids(triggers) /\ i \in EntryIds
    BY <2>0 DEF Gone, TypeOK
  <2>2. \A j, n, a : Taken(j, n, a) /\ j # i => trades'[i] = trades[i]
    BY <2>0, <2>1 DEF Taken, TypeOK
  <2>3. CASE Submit \/ SubmitFails \/ SubmitFailsLate
    <3>1. todo # <<>> /\ todo \in Seq(Stop) /\ Unique(todo)
      BY <2>0, <2>3 DEF Submit, SubmitFails, SubmitFailsLate, TypeOK
    <3>2. Head(todo).id # i
      BY <2>1, <3>1, TailList
    <3> QED BY <2>2, <2>3, <3>2 DEF Submit, SubmitFails, SubmitFailsLate, Refused, TakenLate,
       history
  <2>4. CASE SubmitTrade \/ TradeFails
    <3>1. triggers # <<>>
      BY <2>0, <2>4 DEF SubmitTrade, TradeFails, TypeOK
    <3>2. Head(triggers).id # i
      BY <2>0, <2>1, <3>1, FirstTrigger
    <3> QED BY <2>2, <2>4, <3>2 DEF SubmitTrade, TradeFails, Refused, TakenLate
  <2>5. CASE ~(Submit \/ SubmitFails \/ SubmitFailsLate \/ SubmitTrade \/ TradeFails)
    BY <2>5 DEF Next, Tick, Move, Trade, FillQueued, SetStop, AdjustStop, SetTrigger, Lapse,
       Cancel, BeginTick, Fetch, FetchFails, Evaluate, ReadHeld, RemoveStop, EvaluateTrigger,
       RemoveTrigger, TickAborts, EndTick, StartEngine, Restart, history
  <2> QED BY <2>3, <2>4, <2>5
<1> QED BY <1>1, StopInvariant, PTL DEF Spec, CancelTakesEffect

------------------------------------------------------------------------------
(* The marks of trailing stops.                                            *)

\* The list does not run ahead of the snapshot: only the engine moves marks.
Marks ==
    \A t \in Elements(todo), a \in Elements(active_stops) :
        a.id = t.id => a.high_water_mark <= t.high_water_mark

\* No mark of the list falls, and what the list has was there, or is new.
Rises ==
    /\ NoLower(active_stops, active_stops')
    /\ Ids(active_stops') \cap used \subseteq Ids(active_stops)

\* Every stop of the list was there before, with the same mark.
Kept ==
    /\ \A b \in Elements(active_stops') : \E a \in Elements(active_stops) :
          a.id = b.id /\ a.high_water_mark = b.high_water_mark
    /\ Elements(todo') \subseteq Elements(todo)

LEMMA SameStop ==
    ASSUME TypeOK, NEW a \in Elements(active_stops), NEW b \in Elements(active_stops), a.id = b.id
    PROVE  a = b /\ a.high_water_mark \in Nat
<1>1. PICK j \in DOMAIN active_stops : a = active_stops[j]
  BY DEF Elements
<1>2. PICK k \in DOMAIN active_stops : b = active_stops[k]
  BY DEF Elements
<1>3. j = k
  BY <1>1, <1>2 DEF TypeOK, Unique
<1>4. a \in Stop
  BY <1>1 DEF TypeOK
<1> QED BY <1>1, <1>2, <1>3, <1>4 DEF Stop

LEMMA KeptKeeps == IInv /\ Marks /\ Kept => Marks' /\ Rises
<1> SUFFICES ASSUME IInv, Marks, Kept PROVE Marks' /\ Rises
  OBVIOUS
<1>1. Marks'
  BY DEF Marks, Kept
<1>2. ASSUME NEW k \in DOMAIN active_stops, NEW m \in DOMAIN active_stops',
             active_stops'[m].id = active_stops[k].id
      PROVE  active_stops'[m].high_water_mark >= active_stops[k].high_water_mark
  <2>1. active_stops[k] \in Elements(active_stops) /\ active_stops'[m] \in Elements(active_stops')
    BY DEF Elements
  <2>2. PICK a \in Elements(active_stops) :
           a.id = active_stops'[m].id /\ a.high_water_mark = active_stops'[m].high_water_mark
    BY <2>1 DEF Kept
  <2>3. a = active_stops[k] /\ a.high_water_mark \in Nat
    BY <1>2, <2>1, <2>2, SameStop DEF IInv
  <2> QED BY <2>2, <2>3
<1>3. Ids(active_stops') \subseteq Ids(active_stops)
  <2> SUFFICES ASSUME NEW m \in DOMAIN active_stops'
               PROVE  active_stops'[m].id \in Ids(active_stops)
    BY DEF Ids
  <2>1. active_stops'[m] \in Elements(active_stops')
    BY DEF Elements
  <2> QED BY <2>1 DEF Kept, Elements, Ids
<1> QED BY <1>1, <1>2, <1>3 DEF Rises, NoLower

LEMMA LeftElements ==
    ASSUME NEW S, NEW list \in Seq(S), list # <<>>
    PROVE  Elements(Tail(list)) \subseteq Elements(list)
<1>1. \A k \in DOMAIN Tail(list) : k + 1 \in DOMAIN list /\ Tail(list)[k] = list[k + 1]
  OBVIOUS
<1> QED BY <1>1 DEF Elements

LEMMA NoElements == Elements(<<>>) = {}
BY DEF Elements

\* A raised mark: in the list it is the one of the snapshot, or it was before.
LEMMA MarkRises ==
    ASSUME IInv, Marks, todo # <<>>,
           UNCHANGED active_stops \/ RaiseMark(Marked(Head(todo))),
           Elements(todo') \subseteq {Marked(Head(todo))} \cup Elements(Tail(todo))
    PROVE  Marks' /\ Rises
<1> DEFINE s == Marked(Head(todo))
<1>0. TypeOK /\ todo \in Seq(Stop) /\ Unique(todo)
  BY DEF IInv, TypeOK
<1>1. Head(todo) \in Stop /\ Head(todo) \in Elements(todo) /\ quote \in Nat
  BY <1>0, StopAssumption DEF TypeOK, Elements
<1>2. /\ s \in Stop /\ s.id = Head(todo).id /\ s.high_water_mark \in Nat
      /\ s.high_water_mark >= Head(todo).high_water_mark
  <2>1. Head(todo).high_water_mark \in Nat
    BY <1>1 DEF Stop
  <2>2. CASE s = Head(todo)
    BY <1>1, <2>1, <2>2
  <2>3. CASE quote > Head(todo).high_water_mark /\ s = [Head(todo) EXCEPT !.high_water_mark = quote]
    <3> HIDE DEF s
    <3> QED BY <1>1, <2>1, <2>3 DEF Stop
  <2> QED BY <2>2, <2>3 DEF Marked
<1>3. Elements(Tail(todo)) \subseteq Elements(todo) /\ s.id \notin Ids(Tail(todo))
  BY <1>0, <1>2, LeftElements, TailList
<1> HIDE DEF s
<1>4. /\ DOMAIN active_stops' = DOMAIN active_stops
      /\ \A k \in DOMAIN active_stops :
            /\ active_stops'[k].id = active_stops[k].id
            /\ \/ active_stops'[k] = active_stops[k]
               \/ /\ active_stops[k].id = s.id
                  /\ active_stops'[k].high_water_mark = s.high_water_mark
  <2>1. CASE active_stops' = active_stops
    BY <2>1
  <2>2. CASE active_stops' = WithMark(active_stops, s.id, s.high_water_mark)
    <3> SUFFICES ASSUME NEW k \in DOMAIN active_stops
                 PROVE  /\ active_stops'[k].id = active_stops[k].id
                        /\ \/ active_stops'[k] = active_stops[k]
                           \/ /\ active_stops[k].id = s.id
                              /\ active_stops'[k].high_water_mark = s.high_water_mark
      BY <2>2 DEF WithMark
    <3>1. active_stops[k] \in Stop
      BY <1>0 DEF TypeOK
    <3>2. active_stops'[k] = IF active_stops[k].id = s.id
                             THEN [active_stops[k] EXCEPT !.high_water_mark = s.high_water_mark]
                             ELSE active_stops[k]
      BY <2>2 DEF WithMark
    <3> QED BY <3>1, <3>2 DEF Stop
  <2> QED BY <2>1, <2>2 DEF RaiseMark, s
<1>5. \A k \in DOMAIN active_stops :
        /\ active_stops[k].high_water_mark \in Nat
        /\ active_stops[k].id = s.id => active_stops[k].high_water_mark <= s.high_water_mark
  <2> SUFFICES ASSUME NEW k \in DOMAIN active_stops
               PROVE  /\ active_stops[k].high_water_mark \in Nat
                      /\ active_stops[k].id = s.id
                            => active_stops[k].high_water_mark <= s.high_water_mark
    OBVIOUS
  <2>1. active_stops[k] \in Stop /\ active_stops[k] \in Elements(active_stops)
    BY <1>0 DEF TypeOK, Elements
  <2>2. active_stops[k].id = s.id => active_stops[k].high_water_mark <= Head(todo).high_water_mark
    BY <1>1, <1>2, <2>1 DEF Marks
  <2> QED BY <1>1, <1>2, <2>1, <2>2 DEF Stop
<1>6. Marks'
  <2> SUFFICES ASSUME NEW t \in Elements(todo)', NEW k \in DOMAIN active_stops,
                      active_stops'[k].id = t.id
               PROVE  active_stops'[k].high_water_mark <= t.high_water_mark
    BY <1>4 DEF Marks, Elements
  <2>1. CASE t = s
    BY <1>2, <1>4, <1>5, <2>1
  <2>2. CASE t \in Elements(Tail(todo))
    <3>1. t.id # s.id
      BY <1>3, <2>2 DEF Ids, Elements
    <3>2. active_stops'[k] = active_stops[k] /\ active_stops[k] \in Elements(active_stops)
      BY <1>4, <3>1 DEF Elements
    <3> QED BY <1>3, <2>2, <3>2 DEF Marks
  <2> QED BY <2>1, <2>2 DEF s, Elements
<1>7. Rises
  <2> SUFFICES ASSUME NEW k \in DOMAIN active_stops, NEW m \in DOMAIN active_stops,
                      active_stops'[m].id = active_stops[k].id
               PROVE  active_stops'[m].high_water_mark >= active_stops[k].high_water_mark
    BY <1>4, ChangedList DEF Rises, NoLower
  <2>1. m = k
    BY <1>0, <1>4 DEF TypeOK, Unique
  <2> QED BY <1>4, <1>5, <2>1
<1> QED BY <1>6, <1>7

LEMMA MarksStep == IInv /\ Marks /\ [Next]_vars /\ ~Restart => Marks' /\ Rises
<1> SUFFICES ASSUME IInv, Marks, [Next]_vars, ~Restart PROVE Marks' /\ Rises
  OBVIOUS
<1>0. TypeOK
  BY DEF IInv
<1>1. CASE UNCHANGED active_stops /\ Elements(todo') \subseteq Elements(todo)
  BY <1>1, KeptKeeps DEF Kept
<1>2. ASSUME NEW i \in EntryIds, NEW shape \in Shapes[i], SetStop(i, shape)
      PROVE  Marks' /\ Rises
  <2> DEFINE e == [id |-> i, kind |-> shape.kind, qty |-> shape.qty,
                   level |-> shape.level, high_water_mark |-> 0]
  <2>1. active_stops' = Append(active_stops, e) /\ e.id = i /\ todo' = todo
    BY <1>2 DEF SetStop, engine, tick
  <2> HIDE DEF e
  <2>2. i \notin Ids(active_stops) /\ i \notin Ids(todo)
    BY <1>0, <1>2 DEF SetStop, IInv, Apart, TypeOK, Armed, StopsKept
  <2>3. /\ DOMAIN active_stops' = DOMAIN active_stops \cup {Len(active_stops) + 1}
        /\ \A k \in DOMAIN active_stops : active_stops'[k] = active_stops[k]
        /\ active_stops'[Len(active_stops) + 1] = e
    BY <1>0, <2>1 DEF TypeOK
  <2>4. Marks'
    BY <2>1, <2>2, <2>3 DEF Marks, Elements, Ids
  <2>6. Ids(active_stops') \cap used \subseteq Ids(active_stops)
    BY <1>2, <2>1, <2>3 DEF SetStop, Ids
  <2>5. Rises
    <3> SUFFICES ASSUME NEW k \in DOMAIN active_stops, NEW m \in DOMAIN active_stops',
                        active_stops'[m].id = active_stops[k].id
                 PROVE  active_stops'[m].high_water_mark >= active_stops[k].high_water_mark
      BY <2>6 DEF Rises, NoLower
    <3>1. m \in DOMAIN active_stops
      BY <2>1, <2>2, <2>3 DEF Ids
    <3>2. m = k /\ active_stops[k] \in Stop
      BY <1>0, <2>3, <3>1 DEF TypeOK, Unique
    <3> QED BY <2>3, <3>2 DEF Stop
  <2> QED BY <2>4, <2>5
<1>3. ASSUME NEW i \in EntryIds, NEW shape \in Shapes[i], AdjustStop(i, shape)
      PROVE  Marks' /\ Rises
  <2>1. active_stops' = WithLevel(active_stops, i, shape) /\ todo' = todo
    BY <1>3 DEF AdjustStop, engine, tick
  <2>2. \A k \in DOMAIN active_stops :
          /\ active_stops'[k].id = active_stops[k].id
          /\ active_stops'[k].high_water_mark = active_stops[k].high_water_mark
    <3> SUFFICES ASSUME NEW k \in DOMAIN active_stops
                 PROVE  /\ active_stops'[k].id = active_stops[k].id
                        /\ active_stops'[k].high_water_mark = active_stops[k].high_water_mark
      OBVIOUS
    <3>1. active_stops[k] \in Stop
      BY <1>0 DEF TypeOK
    <3>2. active_stops'[k] = IF active_stops[k].id = i
                THEN [active_stops[k] EXCEPT !.level = shape.level, !.qty = shape.qty]
                ELSE active_stops[k]
      BY <2>1 DEF WithLevel
    <3> QED BY <3>1, <3>2 DEF Stop
  <2>3. DOMAIN active_stops' = DOMAIN active_stops
    BY <2>1 DEF WithLevel
  <2>4. Kept
    BY <2>1, <2>2, <2>3 DEF Kept, Elements
  <2> QED BY <2>4, KeptKeeps
<1>4. ASSUME NEW i, active_stops' = Removed(active_stops, i),
             Elements(todo') \subseteq Elements(todo)
      PROVE  Marks' /\ Rises
  <2>1. Elements(active_stops') \subseteq Elements(active_stops)
    BY <1>0, <1>4, RemovedList DEF TypeOK
  <2> QED BY <1>4, <2>1, KeptKeeps DEF Kept
<1>5. ASSUME NEW i \in EntryIds, Cancel(i)
      PROVE  Marks' /\ Rises
  <2>1. todo' = todo /\ active_stops' \in {active_stops, Removed(active_stops, i)}
    BY <1>5 DEF Cancel, engine, tick
  <2> QED BY <1>1, <1>4, <2>1
<1>6. CASE BeginTick
  <2>1. active_stops' = active_stops /\ todo' = active_stops
    BY <1>6 DEF BeginTick, broker, lists
  <2>2. Marks'
    BY <1>0, <2>1, SameStop DEF Marks
  <2>3. Rises
    <3> SUFFICES ASSUME NEW k \in DOMAIN active_stops, NEW m \in DOMAIN active_stops,
                        active_stops[m].id = active_stops[k].id
                 PROVE  active_stops[m].high_water_mark >= active_stops[k].high_water_mark
      BY <2>1 DEF Rises, NoLower
    <3>1. active_stops[m] \in Elements(active_stops) /\ active_stops[k] \in Elements(active_stops)
      BY DEF Elements
    <3>2. active_stops[m] = active_stops[k] /\ active_stops[m].high_water_mark \in Nat
      BY <1>0, <3>1, SameStop
    <3> QED BY <3>2
  <2> QED BY <2>2, <2>3
<1>7. CASE Evaluate
  <2> DEFINE s == Marked(Head(todo))
  <2>1. /\ todo # <<>> /\ (UNCHANGED active_stops \/ RaiseMark(s))
        /\ todo' = <<s>> \o Tail(todo) \/ todo' = Tail(todo)
    BY <1>7 DEF Evaluate, KeepMark, lists
  <2>2. s \in Stop /\ todo \in Seq(Stop)
    BY <1>0, <2>1, MarkKeeps DEF TypeOK
  <2> HIDE DEF s
  <2>3. Elements(<<s>> \o Tail(todo)) \subseteq {s} \cup Elements(Tail(todo))
    <3>1. /\ DOMAIN (<<s>> \o Tail(todo)) = DOMAIN todo /\ (<<s>> \o Tail(todo))[1] = s
          /\ \A k \in DOMAIN todo : k # 1 => /\ k - 1 \in DOMAIN Tail(todo)
                                           /\ (<<s>> \o Tail(todo))[k] = Tail(todo)[k - 1]
      BY <2>1, <2>2
    <3> QED BY <3>1 DEF Elements
  <2>4. Elements(todo') \subseteq {s} \cup Elements(Tail(todo))
    BY <2>1, <2>3
  <2> QED BY <2>1, <2>4, MarkRises DEF s
<1>8. CASE RemoveStop
  <2>1. todo # <<>> /\ todo \in Seq(Stop) /\ todo' = Tail(todo)
    BY <1>0, <1>8 DEF RemoveStop, TypeOK
  <2>2. Elements(todo') \subseteq Elements(todo)
    BY <2>1, LeftElements
  <2> QED BY <1>4, <1>8, <2>2 DEF RemoveStop
<1>9. CASE TickAborts
  <2>1. todo' = <<>> /\ Elements(todo') = {}
    BY <1>9, NoElements DEF TickAborts, TickLost
  <2>2. CASE todo # <<>> /\ RaiseMark(Marked(Head(todo)))
    BY <2>1, <2>2, MarkRises
  <2>3. CASE active_stops' = Removed(active_stops, Marked(Head(todo)).id)
    BY <1>4, <2>1, <2>3
  <2>4. CASE UNCHANGED active_stops
    BY <1>1, <2>1, <2>4
  <2> QED BY <1>9, <2>2, <2>3, <2>4 DEF TickAborts
<1>10. CASE Submit \/ SubmitFails \/ SubmitFailsLate
  <2>1. UNCHANGED active_stops /\ (todo' = todo \/ todo' = Tail(todo))
    BY <1>10 DEF Submit, SubmitFails, SubmitFailsLate, TakenLate, AfterSale, broker, lists
  <2>2. todo # <<>> /\ todo \in Seq(Stop)
    BY <1>0, <1>10 DEF Submit, SubmitFails, SubmitFailsLate, TypeOK
  <2>3. Elements(todo') \subseteq Elements(todo)
    BY <2>1, <2>2, LeftElements
  <2> QED BY <1>1, <2>1, <2>3
<1>11. ASSUME UNCHANGED active_stops, todo' \in {todo, <<>>}
       PROVE  Marks' /\ Rises
  <2>1. Elements(todo') \subseteq Elements(todo)
    BY <1>11, NoElements
  <2> QED BY <1>1, <1>11, <2>1
<1>12. CASE \/ Fetch \/ FetchFails \/ ReadHeld \/ EvaluateTrigger \/ SubmitTrade \/ TradeFails
           \/ RemoveTrigger \/ EndTick
  <2>1. UNCHANGED active_stops /\ todo' \in {todo, <<>>}
    BY <1>12 DEF broker, lists, Fetch, FetchFails, ReadHeld, EvaluateTrigger, SubmitTrade,
       TradeFails, TakenLate, AfterTrade, RemoveTrigger, EndTick
  <2> QED BY <1>11, <2>1
<1>13. CASE Move \/ Trade \/ FillQueued \/ StartEngine \/ UNCHANGED vars
  <2>1. UNCHANGED active_stops /\ todo' \in {todo, <<>>}
    BY <1>13 DEF Move, Trade, FillQueued, StartEngine, vars, broker, lists, engine, tick
  <2> QED BY <1>11, <2>1
<1>14. ASSUME NEW i \in EntryIds, Lapse(i) \/ (\E order \in Orders[i] : SetTrigger(i, order))
       PROVE  Marks' /\ Rises
  <2>1. UNCHANGED active_stops /\ todo' \in {todo, <<>>}
    BY <1>14 DEF Lapse, SetTrigger, broker, lists, engine, tick
  <2> QED BY <1>11, <2>1
<1>15. CASE Tick
  BY <1>6, <1>7, <1>8, <1>9, <1>10, <1>12, <1>15 DEF Tick
<1> QED BY <1>2, <1>3, <1>5, <1>13, <1>14, <1>15 DEF Next

\* What a step that is no restart writes.
LEMMA WritesMemory == [Next]_vars /\ ~Restart => file' \in {file, Memory'}
<1> SUFFICES ASSUME [Next]_vars, ~Restart PROVE file' \in {file, Memory'}
  OBVIOUS
<1>1. CASE Save \/ NothingToSave
  BY <1>1 DEF Save, Saved, NotSaved, NothingToSave
<1>2. CASE UNCHANGED storage
  BY <1>2 DEF storage
<1>3. CASE SubmitFailsLate \/ TradeFails
  BY <1>1, <1>3 DEF SubmitFailsLate, TradeFails, TakenLate
<1>4. CASE Tick
  <2>1. CASE \/ Evaluate \/ Submit \/ RemoveStop \/ EvaluateTrigger
             \/ SubmitTrade \/ RemoveTrigger \/ TickAborts
    BY <1>1, <2>1 DEF Evaluate, KeepMark, Submit, RemoveStop, EvaluateTrigger, SubmitTrade,
       RemoveTrigger, Disarm, TickAborts, Save
  <2>2. CASE BeginTick \/ Fetch \/ FetchFails \/ ReadHeld \/ SubmitFails \/ EndTick
    BY <1>2, <2>2 DEF BeginTick, Fetch, FetchFails, ReadHeld, SubmitFails, EndTick
  <2> QED BY <1>3, <1>4, <2>1, <2>2 DEF Tick
<1>5. CASE Move \/ StartEngine \/ UNCHANGED vars
  BY <1>2, <1>5 DEF Move, StartEngine, vars
<1>6. CASE Trade \/ FillQueued
  BY <1>1, <1>6 DEF Trade, FillQueued
<1>7. ASSUME NEW i \in EntryIds, NEW shape \in Shapes[i], SetStop(i, shape) \/ AdjustStop(i, shape)
      PROVE  file' \in {file, Memory'}
  BY <1>1, <1>7 DEF SetStop, AdjustStop
<1>8. ASSUME NEW i \in EntryIds, NEW order \in Orders[i], SetTrigger(i, order)
      PROVE  file' \in {file, Memory'}
  BY <1>1, <1>8 DEF SetTrigger
<1>9. ASSUME NEW i \in EntryIds, Lapse(i)
      PROVE  file' \in {file, Memory'}
  BY <1>2, <1>9 DEF Lapse
<1>10. ASSUME NEW i \in EntryIds, Cancel(i)
       PROVE  file' \in {file, Memory'}
  BY <1>1, <1>10 DEF Cancel, Save
<1> QED BY <1>4, <1>5, <1>6, <1>7, <1>8, <1>9, <1>10 DEF Next

\* The file does not run ahead of the list: what it has was in memory.
Behind == NoLower(file.stops, active_stops)

\* A list is not lower than itself.
LEMMA NotLower ==
    ASSUME NEW list \in Seq(Stop), Unique(list)
    PROVE  NoLower(list, list)
<1> SUFFICES ASSUME NEW k \in DOMAIN list, NEW m \in DOMAIN list, list[m].id = list[k].id
             PROVE  list[m].high_water_mark >= list[k].high_water_mark
  BY DEF NoLower
<1>1. m = k /\ list[k] \in Stop
  BY DEF Unique
<1> QED BY <1>1 DEF Stop

LEMMA BehindStep ==
    IInv /\ IInv' /\ Marks /\ Behind /\ [Next]_vars => Behind' /\ NoLower(file.stops, file'.stops)
<1> SUFFICES ASSUME IInv, IInv', Marks, Behind, [Next]_vars
             PROVE  Behind' /\ NoLower(file.stops, file'.stops)
  OBVIOUS
<1>1. /\ file.stops \in Seq(Stop) /\ Unique(file.stops) /\ Ids(file.stops) \subseteq used
      /\ active_stops \in Seq(Stop)
      /\ active_stops' \in Seq(Stop) /\ Unique(active_stops')
  BY DEF IInv, TypeOK
<1>2. NoLower(file.stops, file.stops)
  BY <1>1, NotLower
<1>3. CASE Restart
  <2>1. file' = file /\ active_stops' \in {file.stops, <<>>}
    BY <1>3 DEF Restart, Loaded, NothingToSave
  <2> QED BY <1>2, <2>1 DEF Behind, NoLower
<1>4. CASE ~Restart
  <2>1. Rises /\ file' \in {file, Memory'}
    BY <1>4, MarksStep, WritesMemory
  <2>2. NoLower(file.stops, active_stops')
    <3> SUFFICES ASSUME NEW k \in DOMAIN file.stops, NEW m \in DOMAIN active_stops',
                        active_stops'[m].id = file.stops[k].id
                 PROVE  active_stops'[m].high_water_mark >= file.stops[k].high_water_mark
      BY DEF NoLower
    <3>1. active_stops'[m].id \in Ids(active_stops)
      BY <1>1, <2>1 DEF Rises, Ids
    <3>2. PICK n \in DOMAIN active_stops : active_stops[n].id = file.stops[k].id
      BY <3>1 DEF Ids
    <3>3. /\ active_stops[n].high_water_mark >= file.stops[k].high_water_mark
          /\ active_stops'[m].high_water_mark >= active_stops[n].high_water_mark
      BY <2>1, <3>2 DEF Behind, Rises, NoLower
    <3>4. /\ active_stops[n] \in Stop /\ active_stops'[m] \in Stop /\ file.stops[k] \in Stop
      BY <1>1
    <3> QED BY <3>3, <3>4 DEF Stop
  <2>3. CASE file' = file
    BY <1>2, <2>2, <2>3 DEF Behind
  <2>4. CASE file' = Memory'
    <3>1. file'.stops = active_stops'
      BY <2>4 DEF Memory
    <3>2. NoLower(active_stops', active_stops')
      BY <1>1, NotLower
    <3> QED BY <2>2, <3>1, <3>2 DEF Behind
  <2> QED BY <2>1, <2>3, <2>4
<1> QED BY <1>3, <1>4

\* The snapshot is lost with the process.
LEMMA RestartMarks == Restart => Marks'
BY NoElements DEF Restart, TickLost, Marks

\* No tick, adjustment or failing save takes back a mark of the list, nor any restart
\* one of the file.
THEOREM MarksRise == Spec => MarkOnlyRises
<1>1. Init => Marks /\ Behind
  <2>1. Init => file.stops = <<>> /\ todo = <<>>
    BY DEF Init, Memory
  <2> QED BY <2>1, NoElements DEF Marks, Behind, NoLower
<1>2. IInv /\ IInv' /\ Marks /\ Behind /\ [Next]_vars =>
        /\ Marks' /\ Behind'
        /\ [/\ NoLower(file.stops, file'.stops)
            /\ restarts' = restarts => NoLower(active_stops, active_stops')]_vars
  <2> SUFFICES ASSUME IInv, IInv', Marks, Behind, [Next]_vars
               PROVE  /\ Marks' /\ Behind' /\ NoLower(file.stops, file'.stops)
                      /\ restarts' = restarts => NoLower(active_stops, active_stops')
    OBVIOUS
  <2>1. Restart => restarts' # restarts
    BY DEF Restart, IInv, TypeOK
  <2> QED BY <2>1, MarksStep, BehindStep, RestartMarks DEF Rises
<1>3. Spec => [][/\ NoLower(file.stops, file'.stops)
                 /\ restarts' = restarts => NoLower(active_stops, active_stops')]_vars
  BY <1>1, <1>2, StopInvariant, PTL DEF Spec
<1> QED BY <1>3 DEF MarkOnlyRises
================================================================================
