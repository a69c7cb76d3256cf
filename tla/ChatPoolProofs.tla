---------------------------- MODULE ChatPoolProofs ----------------------------
(***************************************************************************)
(* For any number of messages and any caps: the pool keeps to its cap, a   *)
(* message is in one place, and while nothing fails nobody overtakes the   *)
(* queue.  The drain spawns without looking at the cap; what makes it      *)
(* right is that it follows the end of a worker that is in the pool, once. *)
(***************************************************************************)
EXTENDS ChatPool, FiniteSetTheorems, TLAPS

\* A done signal under way is that of a worker that is over and still in the pool.
Dones ==
    \A i \in DOMAIN signals :
        signals[i][1] = "chat_done" =>
            signals[i][2] \in workers /\ thread[signals[i][2]] = "over"

\* Each worker sends one.
DoneOnce ==
    \A i, j \in DOMAIN signals :
        signals[i][1] = "chat_done" /\ signals[j] = signals[i] => i = j

\* The caps seen are those in force so far.
CapsSeen == cap \in caps /\ IsFiniteSet(caps)

IInv == TypeOK /\ CapsSeen /\ Dones /\ DoneOnce /\ WithinCap /\ OnceEach /\ NoOvertaking

------------------------------------------------------------------------------
\* Sequences.

LEMMA TailIndex ==
    ASSUME NEW S, NEW s \in Seq(S), s # <<>>
    PROVE  /\ Tail(s) \in Seq(S) /\ 1 \in DOMAIN s /\ Head(s) = s[1] /\ Head(s) \in S
           /\ \A i \in DOMAIN Tail(s) : i + 1 \in DOMAIN s /\ i + 1 # 1 /\ Tail(s)[i] = s[i + 1]
           /\ \A i \in DOMAIN s : i # 1 => i - 1 \in DOMAIN Tail(s) /\ Tail(s)[i - 1] = s[i]
           /\ \A i, j \in DOMAIN Tail(s) : i + 1 = j + 1 => i = j
OBVIOUS

LEMMA AppendIndex ==
    ASSUME NEW S, NEW s \in Seq(S), NEW e \in S
    PROVE  /\ Append(s, e) \in Seq(S)
           /\ DOMAIN Append(s, e) = DOMAIN s \cup {Len(s) + 1}
           /\ Append(s, e)[Len(s) + 1] = e
           /\ \A i \in DOMAIN s : Append(s, e)[i] = s[i] /\ i # Len(s) + 1
OBVIOUS

LEMMA AppendTwo ==
    ASSUME NEW S, NEW s \in Seq(S), NEW a \in S, NEW b \in S
    PROVE  s \o <<a, b>> = Append(Append(s, a), b)
OBVIOUS

LEMMA SignalPair ==
    ASSUME TypeOK, NEW i \in DOMAIN signals
    PROVE  /\ signals[i] \in Signals /\ signals[i][2] \in Messages
           /\ signals[i][1] \in {"chat_error", "chat_done"}
           /\ signals[i] = <<signals[i][1], signals[i][2]>>
BY DEF TypeOK, Signals

------------------------------------------------------------------------------
\* Cardinalities.

LEMMA WorkersFinite == ASSUME TypeOK PROVE IsFiniteSet(workers) /\ Cardinality(workers) \in Nat
BY PoolAssumption, FS_Subset, FS_CardinalityType DEF TypeOK

LEMMA OneMore ==
    ASSUME NEW W, IsFiniteSet(W), NEW m
    PROVE  /\ IsFiniteSet(W \cup {m}) /\ Cardinality(W \cup {m}) \in Nat /\ Cardinality(W) \in Nat
           /\ Cardinality(W \cup {m}) <= Cardinality(W) + 1
           /\ m \notin W => Cardinality(W \cup {m}) = Cardinality(W) + 1
<1>1. IsFiniteSet(W \cup {m})
      /\ (Cardinality(W \cup {m}) = Cardinality(W) \/ Cardinality(W \cup {m}) = Cardinality(W) + 1)
      /\ (m \notin W => Cardinality(W \cup {m}) = Cardinality(W) + 1)
  <2>1. CASE m \in W
    <3>1. W \cup {m} = W
      BY <2>1
    <3> QED BY <2>1, <3>1
  <2>2. CASE m \notin W
    <3>1. IsFiniteSet(W \cup {m}) /\ Cardinality(W \cup {m}) = Cardinality(W) + 1
      BY <2>2, FS_AddElement
    <3> QED BY <3>1
  <2> QED BY <2>1, <2>2
<1>2. Cardinality(W) \in Nat
  BY FS_CardinalityType
<1> QED BY <1>1, <1>2

LEMMA OneLess ==
    ASSUME NEW W, IsFiniteSet(W), NEW m \in W
    PROVE  /\ IsFiniteSet(W \ {m}) /\ Cardinality(W \ {m}) \in Nat /\ Cardinality(W) \in Nat
           /\ Cardinality(W \ {m}) = Cardinality(W) - 1
BY FS_RemoveElement, FS_CardinalityType

LEMMA CapIsNat == ASSUME TypeOK PROVE cap \in Nat /\ caps \subseteq Nat
BY PoolAssumption DEF TypeOK

------------------------------------------------------------------------------
LEMMA InvInit == Init => IInv
<1> SUFFICES ASSUME Init PROVE IInv
  OBVIOUS
<1>1. TypeOK
  <2>1. cap \in Caps /\ caps \subseteq Caps /\ workers \subseteq Messages /\ shown \subseteq Messages
    BY DEF Init
  <2>2. queue \in Seq(Messages) /\ signals \in Seq(Signals)
    BY DEF Init
  <2>3. thread \in [Messages -> Threads] /\ fate \in [Messages -> Fates]
    BY DEF Init, Threads, Fates
  <2>4. down \in BOOLEAN /\ faults \in 0..MaxFaults
    <3>1. down \in BOOLEAN
      BY Zenon DEF Init
    <3>2. faults \in 0..MaxFaults
      BY SMT, PoolAssumption DEF Init
    <3> QED BY <3>1, <3>2
  <2> QED BY <2>1, <2>2, <2>3, <2>4 DEF TypeOK
<1>2. CapsSeen
  BY FS_Singleton DEF Init, CapsSeen
<1>3. Dones /\ DoneOnce
  BY DEF Init, Dones, DoneOnce
<1>4. WithinCap
  BY <1>1, FS_EmptySet, CapIsNat DEF Init, WithinCap
<1>5. OnceEach
  BY DEF Init, OnceEach
<1>6. NoOvertaking
  BY DEF Init, NoOvertaking
<1> QED BY <1>1, <1>2, <1>3, <1>4, <1>5, <1>6 DEF IInv

\* A worker is built for a message that was not in the pool, or cannot be built.
\* `rest' is the pool without the worker that has just ended, if one has.
LEMMA SpawnKeeps ==
    ASSUME IInv, NEW m \in Messages, NEW rest, rest \subseteq workers, fate[m] \in {"new", "queued"},
           SpawnWorkerNow(m, rest)
    PROVE  /\ workers' \subseteq Messages /\ workers' \subseteq rest \cup {m} /\ rest \subseteq workers'
           /\ thread' \in [Messages -> Threads] /\ fate' \in [Messages -> Fates]
           /\ faults' \in 0..MaxFaults
           /\ m \notin workers /\ thread[m] \notin {"setup", "session"}
           /\ \A n \in Messages : n # m => thread'[n] = thread[n] /\ fate'[n] = fate[n]
           /\ \/ m \in workers' /\ thread'[m] = "setup" /\ fate'[m] = "open"
              \/ m \notin workers' /\ thread'[m] = thread[m] /\ fate'[m] = "lost"
<1>1. m \notin workers /\ thread[m] \notin {"setup", "session"}
  BY DEF IInv, OnceEach
<1>2. TypeOK
  BY DEF IInv
<1>3. CASE /\ workers' = rest \cup {m}
           /\ thread' = [thread EXCEPT ![m] = "setup"]
           /\ fate' = [fate EXCEPT ![m] = "open"]
           /\ faults' = faults
  BY <1>1, <1>2, <1>3 DEF TypeOK, Threads, Fates
<1>4. CASE /\ Fault
           /\ workers' = rest /\ thread' = thread
           /\ fate' = [fate EXCEPT ![m] = "lost"]
  <2>1. faults' \in 0..MaxFaults
    BY <1>2, <1>4, PoolAssumption DEF TypeOK, Fault
  <2> QED BY <1>1, <1>2, <1>4, <2>1 DEF TypeOK, Fates
<1> QED BY <1>3, <1>4 DEF SpawnWorkerNow

LEMMA SpawnStep ==
    ASSUME IInv, NEW m \in Messages, SpawnChatWorker(m)
    PROVE  IInv'
<1>1. TypeOK /\ fate[m] = "new" /\ UNCHANGED <<cap, caps, signals, down>> /\ Show(shown)
  BY DEF IInv, SpawnChatWorker
<1>2. CASE Full /\ queue' = Append(queue, m) /\ fate' = [fate EXCEPT ![m] = "queued"]
           /\ UNCHANGED <<workers, thread, faults>>
  <2>0. shown' = shown
    BY <1>1, <1>2 DEF Show
  <2>1. TypeOK'
    BY <1>1, <1>2, <2>0, AppendIndex DEF TypeOK, Fates
  <2>2. CapsSeen' /\ Dones' /\ DoneOnce' /\ WithinCap'
    BY <1>1, <1>2 DEF IInv, CapsSeen, Dones, DoneOnce, WithinCap
  <2>3. /\ DOMAIN queue' = DOMAIN queue \cup {Len(queue) + 1} /\ queue'[Len(queue) + 1] = m
        /\ \A i \in DOMAIN queue : queue'[i] = queue[i] /\ i # Len(queue) + 1
    BY <1>1, <1>2, AppendIndex DEF TypeOK
  <2>4. \A i \in DOMAIN queue : queue[i] # m
    BY <1>1 DEF IInv, OnceEach
  <2>5. m \notin workers
    BY <1>1 DEF IInv, OnceEach
  <2>6. \A n \in Messages : fate'[n] = IF n = m THEN "queued" ELSE fate[n]
    BY <1>1, <1>2 DEF TypeOK
  <2>7. OnceEach'
    <3>1. \A n \in Messages : fate'[n] = "queued" <=> \E i \in DOMAIN queue' : queue'[i] = n
      BY <2>3, <2>6 DEF IInv, OnceEach
    <3>2. \A n \in Messages : n \in shown' => thread'[n] \in {"setup", "session"} \/ ToGui(n)'
      BY <1>1, <1>2, <2>0 DEF IInv, OnceEach, ToGui
    <3>3. \A n \in Messages : n \in workers' => fate'[n] \notin {"new", "queued", "lost"}
      BY <1>2, <2>5, <2>6 DEF IInv, OnceEach
    <3>4. \A i, j \in DOMAIN queue' : i # j => queue'[i] # queue'[j]
      BY <2>3, <2>4 DEF IInv, OnceEach
    <3>5. \A n \in Messages : thread'[n] \in {"setup", "session"} => n \in workers'
      BY <1>2 DEF IInv, OnceEach
    <3> QED BY <3>1, <3>2, <3>3, <3>4, <3>5 DEF OnceEach
  <2>8. NoOvertaking'
    BY <1>1, <1>2 DEF NoOvertaking, Full
  <2> QED BY <2>1, <2>2, <2>7, <2>8 DEF IInv
<1>3. CASE ~Full /\ SpawnWorkerNow(m, workers) /\ queue' = queue
  <2>1. /\ workers' \subseteq Messages /\ workers' \subseteq workers \cup {m} /\ workers \subseteq workers'
        /\ thread' \in [Messages -> Threads] /\ fate' \in [Messages -> Fates]
        /\ faults' \in 0..MaxFaults
        /\ m \notin workers /\ thread[m] \notin {"setup", "session"}
        /\ \A n \in Messages : n # m => thread'[n] = thread[n] /\ fate'[n] = fate[n]
        /\ \/ m \in workers' /\ thread'[m] = "setup" /\ fate'[m] = "open"
           \/ m \notin workers' /\ thread'[m] = thread[m] /\ fate'[m] = "lost"
    BY <1>1, <1>3, SpawnKeeps
  <2>2. shown' = shown \cup (workers' \ workers)
    BY <1>1 DEF Show
  <2>3. TypeOK'
    BY <1>1, <1>3, <2>1, <2>2 DEF TypeOK
  <2>4. CapsSeen'
    BY <1>1 DEF IInv, CapsSeen
  <2>5. Dones' /\ DoneOnce'
    BY <1>1, <2>1, SignalPair DEF IInv, Dones, DoneOnce
  <2>6. WithinCap'
    <3>1. Cardinality(workers) < cap
      BY <1>1, <1>3, WorkersFinite, CapIsNat DEF Full
    <3>2. Cardinality(workers \cup {m}) <= cap /\ Cardinality(workers) <= cap
      BY <1>1, <3>1, OneMore, WorkersFinite, CapIsNat
    <3>3. workers' = workers \/ workers' = workers \cup {m}
      BY <2>1
    <3> QED BY <1>1, <3>2, <3>3 DEF IInv, CapsSeen, WithinCap
  <2>7. OnceEach'
    <3>1. \A n \in Messages : fate'[n] = "queued" <=> \E i \in DOMAIN queue' : queue'[i] = n
      BY <1>1, <1>3, <2>1 DEF IInv, OnceEach
    <3>2. \A n \in Messages : n \in shown' => thread'[n] \in {"setup", "session"} \/ ToGui(n)'
      BY <1>1, <2>1, <2>2 DEF IInv, OnceEach, ToGui
    <3>3. \A n \in Messages : n \in workers' => fate'[n] \notin {"new", "queued", "lost"}
      BY <2>1 DEF IInv, OnceEach
    <3>4. \A i, j \in DOMAIN queue' : i # j => queue'[i] # queue'[j]
      BY <1>3 DEF IInv, OnceEach
    <3>5. \A n \in Messages : thread'[n] \in {"setup", "session"} => n \in workers'
      BY <2>1 DEF IInv, OnceEach
    <3> QED BY <3>1, <3>2, <3>3, <3>4, <3>5 DEF OnceEach
  <2>8. NoOvertaking'
    <3> SUFFICES ASSUME queue' # <<>>, Cardinality(caps') = 1, \A n \in Messages : fate'[n] # "lost"
                 PROVE  FALSE
      BY DEF NoOvertaking
    <3>1. \A n \in Messages : fate[n] # "lost"
      BY <1>1, <2>1
    <3> QED BY <1>1, <1>3, <3>1 DEF IInv, NoOvertaking
  <2> QED BY <2>3, <2>4, <2>5, <2>6, <2>7, <2>8 DEF IInv
<1> QED BY <1>2, <1>3 DEF SpawnChatWorker

------------------------------------------------------------------------------
\* The end of a worker of the pool: its slot is free, or goes to the next message.
LEMMA DoneStep == ASSUME IInv, OnWorkerDone PROVE IInv'
<1> DEFINE m == Head(signals)[2]
           rest == workers \ {m}
           h == Head(queue)
<1>0. TypeOK /\ signals # <<>> /\ signals' = Tail(signals) /\ UNCHANGED <<cap, caps, down>>
  BY DEF IInv, OnWorkerDone
<1>1. /\ signals' \in Seq(Signals) /\ 1 \in DOMAIN signals /\ Head(signals) = signals[1]
      /\ \A i \in DOMAIN signals' : i + 1 \in DOMAIN signals /\ i + 1 # 1 /\ signals'[i] = signals[i + 1]
      /\ \A i \in DOMAIN signals : i # 1 => i - 1 \in DOMAIN signals' /\ signals'[i - 1] = signals[i]
      /\ \A i, j \in DOMAIN signals' : i + 1 = j + 1 => i = j
  BY <1>0, TailIndex DEF TypeOK
<1>2. signals[1][1] = "chat_done" /\ m = signals[1][2] /\ m \in Messages
  BY <1>0, <1>1, SignalPair DEF OnWorkerDone
<1>3. m \in workers /\ thread[m] = "over"
  BY <1>1, <1>2 DEF IInv, Dones
<1>4. \A i \in DOMAIN signals' : signals'[i][1] = "chat_done" => signals'[i][2] # m
  <2> SUFFICES ASSUME NEW i \in DOMAIN signals', signals'[i][1] = "chat_done", signals'[i][2] = m
               PROVE  FALSE
    OBVIOUS
  <2>1. signals[i + 1] = <<"chat_done", m>> /\ signals[1] = <<"chat_done", m>>
    BY <1>0, <1>1, <1>2, SignalPair
  <2> QED BY <1>1, <1>2, <2>1 DEF IInv, DoneOnce
<1>5. DoneOnce'
  BY <1>1 DEF IInv, DoneOnce
<1>6. CapsSeen'
  BY <1>0 DEF IInv, CapsSeen
<1>7. \A n \in Messages : n # m /\ ToGui(n) => ToGui(n)'
  BY <1>1, <1>2 DEF ToGui
<1>8. CASE SomeQueued /\ queue' = Popped(queue) /\ SpawnWorkerNow(h, rest)
           /\ shown' = (shown \ {m}) \cup (workers' \ rest)
  <2>1. /\ queue \in Seq(Messages) /\ queue # <<>> /\ queue' = Tail(queue) /\ queue' \in Seq(Messages)
        /\ 1 \in DOMAIN queue /\ h = queue[1] /\ h \in Messages
        /\ \A i \in DOMAIN queue' : i + 1 \in DOMAIN queue /\ i + 1 # 1 /\ queue'[i] = queue[i + 1]
        /\ \A i \in DOMAIN queue : i # 1 => i - 1 \in DOMAIN queue' /\ queue'[i - 1] = queue[i]
        /\ \A i, j \in DOMAIN queue' : i + 1 = j + 1 => i = j
    BY <1>0, <1>8, TailIndex DEF TypeOK, SomeQueued, Popped
  <2>2. fate[h] = "queued"
    BY <2>1 DEF IInv, OnceEach
  <2>3. /\ workers' \subseteq Messages /\ workers' \subseteq rest \cup {h} /\ rest \subseteq workers'
        /\ thread' \in [Messages -> Threads] /\ fate' \in [Messages -> Fates]
        /\ faults' \in 0..MaxFaults
        /\ h \notin workers /\ thread[h] \notin {"setup", "session"}
        /\ \A n \in Messages : n # h => thread'[n] = thread[n] /\ fate'[n] = fate[n]
        /\ \/ h \in workers' /\ thread'[h] = "setup" /\ fate'[h] = "open"
           \/ h \notin workers' /\ thread'[h] = thread[h] /\ fate'[h] = "lost"
    BY <1>8, <2>1, <2>2, SpawnKeeps
  <2>4. h # m
    BY <1>3, <2>3
  <2> HIDE DEF m, h
  <2>5. TypeOK'
    BY <1>0, <1>1, <1>8, <2>1, <2>3 DEF TypeOK
  <2>6. Dones'
    BY <1>0, <1>1, <1>4, <2>3, SignalPair DEF IInv, Dones
  <2>7. Cardinality(workers') <= Cardinality(workers)
        /\ (h \in workers' => Cardinality(workers') = Cardinality(workers))
    <3>1. /\ IsFiniteSet(rest) /\ Cardinality(rest) \in Nat /\ Cardinality(workers) \in Nat
          /\ Cardinality(rest) = Cardinality(workers) - 1
      BY <1>0, <1>3, OneLess, WorkersFinite
    <3>2. h \notin rest /\ Cardinality(rest \cup {h}) = Cardinality(rest) + 1
      BY <2>3, <3>1, OneMore
    <3>3. workers' = (IF h \in workers' THEN rest \cup {h} ELSE rest)
      BY <2>3
    <3> HIDE DEF rest
    <3> QED BY <3>1, <3>2, <3>3
  <2>8. WithinCap'
    <3>1. PICK c \in caps : Cardinality(workers) <= c
      BY DEF IInv, WithinCap
    <3>2. IsFiniteSet(workers') /\ Cardinality(workers') \in Nat
      BY <2>3, PoolAssumption, FS_Subset, FS_CardinalityType
    <3>3. Cardinality(workers') <= c
      BY <1>0, <2>7, <3>1, <3>2, CapIsNat, WorkersFinite
    <3> QED BY <1>0, <3>3 DEF WithinCap
  <2>9. OnceEach'
    <3>1. \A n \in Messages : fate'[n] = "queued" <=> \E i \in DOMAIN queue' : queue'[i] = n
      <4>1. \A i \in DOMAIN queue' : queue'[i] # h
        BY <2>1 DEF IInv, OnceEach
      <4>2. fate'[h] # "queued"
        BY <2>3
      <4>3. \A n \in Messages : n # h =>
              ((\E i \in DOMAIN queue : queue[i] = n) <=> \E i \in DOMAIN queue' : queue'[i] = n)
        <5> SUFFICES ASSUME NEW n \in Messages, n # h
                     PROVE  (\E i \in DOMAIN queue : queue[i] = n) <=> \E i \in DOMAIN queue' : queue'[i] = n
          OBVIOUS
        <5>1. ASSUME NEW i \in DOMAIN queue, queue[i] = n PROVE \E j \in DOMAIN queue' : queue'[j] = n
          <6>1. i # 1
            BY <2>1, <5>1
          <6>2. i - 1 \in DOMAIN queue' /\ queue'[i - 1] = n
            BY <2>1, <5>1, <6>1
          <6> QED BY <6>2
        <5>2. ASSUME NEW i \in DOMAIN queue', queue'[i] = n PROVE \E j \in DOMAIN queue : queue[j] = n
          BY <2>1, <5>2
        <5> QED BY <5>1, <5>2
      <4> QED BY <2>3, <4>1, <4>2, <4>3 DEF IInv, OnceEach
    <3>2. \A n \in Messages : n \in shown' => thread'[n] \in {"setup", "session"} \/ ToGui(n)'
      BY <1>7, <1>8, <2>3 DEF IInv, OnceEach
    <3>3. \A n \in Messages : n \in workers' => fate'[n] \notin {"new", "queued", "lost"}
      BY <2>3 DEF IInv, OnceEach
    <3>4. \A i, j \in DOMAIN queue' : i # j => queue'[i] # queue'[j]
      BY <2>1 DEF IInv, OnceEach
    <3>5. \A n \in Messages : thread'[n] \in {"setup", "session"} => n \in workers'
      BY <1>3, <2>3 DEF IInv, OnceEach
    <3> QED BY <3>1, <3>2, <3>3, <3>4, <3>5 DEF OnceEach
  <2>10. NoOvertaking'
    <3> SUFFICES ASSUME Cardinality(caps') = 1, \A n \in Messages : fate'[n] # "lost"
                 PROVE  Full'
      BY DEF NoOvertaking
    <3>1. \A n \in Messages : fate[n] # "lost"
      BY <2>2, <2>3
    <3>2. Cardinality(workers) >= cap
      BY <1>0, <2>1, <3>1 DEF IInv, NoOvertaking, Full
    <3>3. h \in workers'
      BY <2>1, <2>3
    <3> QED BY <1>0, <2>7, <3>2, <3>3 DEF Full
  <2> QED BY <1>5, <1>6, <2>5, <2>6, <2>8, <2>9, <2>10 DEF IInv
<1>9. CASE ~SomeQueued /\ workers' = rest /\ shown' = shown \ {m}
           /\ UNCHANGED <<queue, thread, fate, faults>>
  <2>1. TypeOK'
    BY <1>0, <1>1, <1>9 DEF TypeOK
  <2>2. Dones'
    BY <1>0, <1>1, <1>4, <1>9, SignalPair DEF IInv, Dones
  <2>3. WithinCap'
    <3>1. PICK c \in caps : Cardinality(workers) <= c
      BY DEF IInv, WithinCap
    <3>2. Cardinality(workers') \in Nat /\ Cardinality(workers') = Cardinality(workers) - 1
          /\ Cardinality(workers) \in Nat
      BY <1>0, <1>3, <1>9, OneLess, WorkersFinite
    <3>3. Cardinality(workers') <= c
      BY <1>0, <3>1, <3>2, CapIsNat
    <3> QED BY <1>0, <3>3 DEF WithinCap
  <2>4. OnceEach'
    <3>1. \A n \in Messages : n \in shown' => thread'[n] \in {"setup", "session"} \/ ToGui(n)'
      BY <1>7, <1>9 DEF IInv, OnceEach
    <3>2. \A n \in Messages : thread'[n] \in {"setup", "session"} => n \in workers'
      BY <1>3, <1>9 DEF IInv, OnceEach
    <3>3. \A n \in Messages : n \in workers' => fate'[n] \notin {"new", "queued", "lost"}
      BY <1>9 DEF IInv, OnceEach
    <3>4. /\ \A n \in Messages : fate'[n] = "queued" <=> \E i \in DOMAIN queue' : queue'[i] = n
          /\ \A i, j \in DOMAIN queue' : i # j => queue'[i] # queue'[j]
      BY <1>9 DEF IInv, OnceEach
    <3> QED BY <3>1, <3>2, <3>3, <3>4 DEF OnceEach
  <2>5. NoOvertaking'
    BY <1>9 DEF NoOvertaking, SomeQueued
  <2> QED BY <1>5, <1>6, <2>1, <2>2, <2>3, <2>4, <2>5 DEF IInv
<1> QED BY <1>8, <1>9 DEF OnWorkerDone

LEMMA ErrorStep == ASSUME IInv, OnChatError PROVE IInv'
<1>0. TypeOK /\ signals # <<>> /\ signals' = Tail(signals) /\ Head(signals)[1] = "chat_error"
      /\ shown' = shown \ {Head(signals)[2]}
      /\ UNCHANGED <<cap, caps, workers, queue, thread, fate, down, faults>>
  BY DEF IInv, OnChatError, Forget
<1>1. /\ signals' \in Seq(Signals) /\ 1 \in DOMAIN signals /\ Head(signals) = signals[1]
      /\ \A i \in DOMAIN signals' : i + 1 \in DOMAIN signals /\ i + 1 # 1 /\ signals'[i] = signals[i + 1]
      /\ \A i \in DOMAIN signals : i # 1 => i - 1 \in DOMAIN signals' /\ signals'[i - 1] = signals[i]
      /\ \A i, j \in DOMAIN signals' : i + 1 = j + 1 => i = j
  BY <1>0, TailIndex DEF TypeOK
<1>2. TypeOK'
  BY <1>0, <1>1 DEF TypeOK
<1>3. CapsSeen' /\ WithinCap' /\ NoOvertaking'
  BY <1>0 DEF IInv, CapsSeen, WithinCap, NoOvertaking, Full
<1>4. Dones' /\ DoneOnce'
  BY <1>0, <1>1 DEF IInv, Dones, DoneOnce
<1>5. OnceEach'
  <2>1. \A n \in Messages : n # Head(signals)[2] /\ ToGui(n) => ToGui(n)'
    BY <1>1 DEF ToGui
  <2>2. \A n \in Messages : n \in shown' => thread'[n] \in {"setup", "session"} \/ ToGui(n)'
    BY <1>0, <2>1 DEF IInv, OnceEach
  <2> QED BY <1>0, <2>2 DEF IInv, OnceEach
<1> QED BY <1>2, <1>3, <1>4, <1>5 DEF IInv

------------------------------------------------------------------------------
LEMMA ShutdownStep == ASSUME IInv, Shutdown PROVE IInv'
<1>0. TypeOK /\ queue' = <<>> /\ down' = TRUE
      /\ fate' = [m \in Messages |-> IF fate[m] = "queued" THEN "cancelled" ELSE fate[m]]
      /\ UNCHANGED <<cap, caps, workers, thread, signals, shown, faults>>
  BY DEF IInv, Shutdown
<1>1. TypeOK'
  BY <1>0 DEF TypeOK, Fates
<1>2. CapsSeen' /\ Dones' /\ DoneOnce' /\ WithinCap'
  BY <1>0 DEF IInv, CapsSeen, Dones, DoneOnce, WithinCap
<1>3. OnceEach'
  BY <1>0 DEF IInv, OnceEach, ToGui
<1>4. NoOvertaking'
  BY <1>0 DEF NoOvertaking
<1> QED BY <1>1, <1>2, <1>3, <1>4 DEF IInv

\* From here on two caps have been in force.
LEMMA SetCapStep == ASSUME IInv, SetCap PROVE IInv'
<1>0. PICK c \in Caps \ {cap} : cap' = c /\ caps' = caps \cup {c}
  BY DEF SetCap
<1>1. TypeOK /\ UNCHANGED <<workers, queue, thread, signals, shown, fate, down, faults>>
  BY DEF IInv, SetCap
<1>2. TypeOK'
  BY <1>0, <1>1 DEF TypeOK
<1>3. CapsSeen'
  BY <1>0, FS_AddElement DEF IInv, CapsSeen
<1>4. Dones' /\ DoneOnce' /\ OnceEach'
  BY <1>1 DEF IInv, Dones, DoneOnce, OnceEach, ToGui
<1>5. WithinCap'
  BY <1>0, <1>1 DEF IInv, WithinCap
<1>6. Cardinality(caps') # 1
  <2> SUFFICES ASSUME Cardinality(caps') = 1 PROVE FALSE
    OBVIOUS
  <2>1. \E x : caps' = {x}
    BY <1>3, FS_Singleton DEF CapsSeen
  <2> QED BY <1>0, <2>1 DEF IInv, CapsSeen
<1>7. NoOvertaking'
  BY <1>6 DEF NoOvertaking
<1> QED BY <1>2, <1>3, <1>4, <1>5, <1>7 DEF IInv

------------------------------------------------------------------------------
\* A step of a worker's thread that sends signals: what it must do to keep IInv.
LEMMA ThreadKeeps ==
    ASSUME IInv, NEW m \in Messages, thread[m] \in {"setup", "session"},
           NEW place \in Threads, NEW end \in Fates,
           thread' = [thread EXCEPT ![m] = place],
           fate' = [fate EXCEPT ![m] = end],
           end \notin {"new", "queued", "lost"},
           faults' \in 0..MaxFaults,
           signals' \in Seq(Signals), Dones', DoneOnce',
           \A n \in Messages : ToGui(n) => ToGui(n)',
           place \in {"setup", "session"} \/ ToGui(m)',
           UNCHANGED <<cap, caps, workers, queue, shown, down>>
    PROVE  IInv'
<1>0. TypeOK
  BY DEF IInv
<1>1. TypeOK'
  BY <1>0 DEF TypeOK
<1>2. CapsSeen' /\ WithinCap'
  BY DEF IInv, CapsSeen, WithinCap
<1>3. m \in workers
  BY DEF IInv, OnceEach
<1>4. fate[m] \notin {"queued", "lost"}
  BY <1>3 DEF IInv, OnceEach
<1>5. \A n \in Messages : /\ n # m => thread'[n] = thread[n] /\ fate'[n] = fate[n]
                          /\ thread'[m] = place /\ fate'[m] = end
  BY <1>0 DEF TypeOK
<1>6. OnceEach'
  <2>1. \A n \in Messages : fate'[n] = "queued" <=> \E i \in DOMAIN queue' : queue'[i] = n
    BY <1>4, <1>5 DEF IInv, OnceEach
  <2>2. \A n \in Messages : n \in shown' => thread'[n] \in {"setup", "session"} \/ ToGui(n)'
    BY <1>5 DEF IInv, OnceEach
  <2>3. \A n \in Messages : /\ n \in workers' => fate'[n] \notin {"new", "queued", "lost"}
                            /\ thread'[n] \in {"setup", "session"} => n \in workers'
    BY <1>3, <1>5 DEF IInv, OnceEach
  <2>4. \A i, j \in DOMAIN queue' : i # j => queue'[i] # queue'[j]
    BY DEF IInv, OnceEach
  <2> QED BY <2>1, <2>2, <2>3, <2>4 DEF OnceEach
<1>7. NoOvertaking'
  BY <1>4, <1>5 DEF IInv, NoOvertaking, Full
<1> QED BY <1>1, <1>2, <1>6, <1>7 DEF IInv

\* A worker whose thread runs has no done signal under way.
LEMMA NoneDone ==
    ASSUME IInv, NEW m \in Messages, thread[m] \in {"setup", "session"}
    PROVE  /\ m \in workers
           /\ \A i \in DOMAIN signals : signals[i][1] = "chat_done" => signals[i][2] # m
BY DEF IInv, Dones, OnceEach

LEMMA EnterStep == ASSUME IInv, NEW m \in Messages, Enter(m) PROVE IInv'
<1>0. TypeOK /\ thread[m] = "setup" /\ thread' = [thread EXCEPT ![m] = "session"]
      /\ UNCHANGED <<cap, caps, workers, queue, signals, shown, fate, down, faults>>
  BY DEF IInv, Enter
<1>1. m \in workers /\ fate[m] \notin {"new", "queued", "lost"} /\ fate[m] \in Fates
  BY <1>0, NoneDone DEF IInv, OnceEach, TypeOK
<1>2. fate' = [fate EXCEPT ![m] = fate[m]]
  BY <1>0 DEF TypeOK
<1>3. Dones' /\ DoneOnce'
  BY <1>0, NoneDone, SignalPair DEF IInv, Dones, DoneOnce, TypeOK
<1>4. \A n \in Messages : ToGui(n) => ToGui(n)'
  BY <1>0 DEF ToGui
<1>5. signals' \in Seq(Signals) /\ faults' \in 0..MaxFaults
  BY <1>0 DEF TypeOK
<1> QED BY <1>0, <1>1, <1>2, <1>3, <1>4, <1>5, ThreadKeeps DEF Threads

\* A signal at the end of those under way, of a worker whose thread is over.
LEMMA Send ==
    ASSUME IInv, NEW m \in Messages, thread[m] \in {"setup", "session"},
           NEW s \in Seq(Signals), NEW kind \in {"chat_error", "chat_done"},
           \A i \in DOMAIN s : s[i][1] = "chat_done" => s[i][2] \in workers /\ s[i][2] # m
                                                        /\ thread[s[i][2]] = "over",
           \A i, j \in DOMAIN s : s[i][1] = "chat_done" /\ s[j] = s[i] => i = j,
           \A i \in DOMAIN signals : i \in DOMAIN s /\ s[i] = signals[i],
           thread' = [thread EXCEPT ![m] = "over"], workers' = workers,
           signals' = Append(s, <<kind, m>>)
    PROVE  /\ signals' \in Seq(Signals) /\ Dones' /\ DoneOnce'
           /\ ToGui(m)' /\ \A n \in Messages : ToGui(n) => ToGui(n)'
<1>0. TypeOK
  BY DEF IInv
<1>1. <<kind, m>> \in Signals
  BY DEF Signals
<1>2. /\ signals' \in Seq(Signals)
      /\ DOMAIN signals' = DOMAIN s \cup {Len(s) + 1} /\ signals'[Len(s) + 1] = <<kind, m>>
      /\ \A i \in DOMAIN s : signals'[i] = s[i] /\ i # Len(s) + 1
  BY <1>1, AppendIndex
<1>3. m \in workers /\ thread'[m] = "over"
  BY <1>0, NoneDone DEF TypeOK
<1>4. Dones'
  BY <1>0, <1>2, <1>3 DEF Dones, TypeOK
<1>5. DoneOnce'
  BY <1>2 DEF DoneOnce
<1>6. ToGui(m)'
  BY <1>2 DEF ToGui
<1>7. \A n \in Messages : ToGui(n) => ToGui(n)'
  BY <1>2 DEF ToGui
<1> QED BY <1>2, <1>4, <1>5, <1>6, <1>7

LEMMA CrashStep == ASSUME IInv, NEW m \in Messages, Crash(m) PROVE IInv'
<1>0. TypeOK /\ thread[m] = "setup" /\ thread' = [thread EXCEPT ![m] = "over"] /\ Fault
      /\ signals' = Append(signals, <<"chat_error", m>>)
      /\ fate' = [fate EXCEPT ![m] = "failed"]
      /\ UNCHANGED <<cap, caps, workers, queue, shown, down>>
  BY DEF IInv, Crash
<1>1. faults' \in 0..MaxFaults
  BY <1>0, PoolAssumption DEF TypeOK, Fault
<1>2. signals \in Seq(Signals)
  BY <1>0 DEF TypeOK
<1>3. /\ \A i \in DOMAIN signals : signals[i][1] = "chat_done" =>
            signals[i][2] \in workers /\ signals[i][2] # m /\ thread[signals[i][2]] = "over"
      /\ \A i, j \in DOMAIN signals : signals[i][1] = "chat_done" /\ signals[j] = signals[i] => i = j
  BY <1>0, NoneDone DEF IInv, Dones, DoneOnce
<1>4. /\ signals' \in Seq(Signals) /\ Dones' /\ DoneOnce'
      /\ ToGui(m)' /\ \A n \in Messages : ToGui(n) => ToGui(n)'
  BY <1>0, <1>2, <1>3, Send
<1> QED BY <1>0, <1>1, <1>4, ThreadKeeps DEF Threads, Fates

LEMMA EndStep == ASSUME IInv, NEW m \in Messages, End(m) PROVE IInv'
<1>0. TypeOK /\ thread[m] = "session" /\ thread' = [thread EXCEPT ![m] = "over"]
      /\ UNCHANGED <<cap, caps, workers, queue, shown, down, faults>>
  BY DEF IInv, End
<1>1. faults' \in 0..MaxFaults /\ signals \in Seq(Signals)
  BY <1>0 DEF TypeOK
<1>2. /\ \A i \in DOMAIN signals : signals[i][1] = "chat_done" =>
            signals[i][2] \in workers /\ signals[i][2] # m /\ thread[signals[i][2]] = "over"
      /\ \A i, j \in DOMAIN signals : signals[i][1] = "chat_done" /\ signals[j] = signals[i] => i = j
  BY <1>0, NoneDone DEF IInv, Dones, DoneOnce
<1>3. CASE signals' = Append(signals, <<"chat_done", m>>) /\ fate' = [fate EXCEPT ![m] = "answered"]
  <2>1. /\ signals' \in Seq(Signals) /\ Dones' /\ DoneOnce'
        /\ ToGui(m)' /\ \A n \in Messages : ToGui(n) => ToGui(n)'
    BY <1>0, <1>1, <1>2, <1>3, Send
  <2> QED BY <1>0, <1>1, <1>3, <2>1, ThreadKeeps DEF Threads, Fates
<1>4. CASE signals' = signals \o ErrorThenDone(m) /\ fate' = [fate EXCEPT ![m] = "failed"]
  <2> DEFINE s == Append(signals, <<"chat_error", m>>)
  <2>1. <<"chat_error", m>> \in Signals /\ <<"chat_done", m>> \in Signals
    BY DEF Signals
  <2>2. signals' = Append(s, <<"chat_done", m>>)
    <3>1. signals' = signals \o <<<<"chat_error", m>>, <<"chat_done", m>>>>
      BY <1>4 DEF ErrorThenDone
    <3> DEFINE a == <<"chat_error", m>>
               b == <<"chat_done", m>>
    <3>2. signals' = signals \o <<a, b>> /\ a \in Signals /\ b \in Signals
      BY <2>1, <3>1
    <3> HIDE DEF a, b
    <3>3. signals \o <<a, b>> = Append(Append(signals, a), b)
      BY <1>1, <3>2, AppendTwo
    <3>4. signals' = Append(Append(signals, a), b)
      BY <3>2, <3>3
    <3> QED BY <3>4 DEF a, b
  <2>3. /\ s \in Seq(Signals)
        /\ DOMAIN s = DOMAIN signals \cup {Len(signals) + 1}
        /\ s[Len(signals) + 1] = <<"chat_error", m>>
        /\ \A i \in DOMAIN signals : s[i] = signals[i] /\ i # Len(signals) + 1
    BY <1>1, <2>1, AppendIndex
  <2> HIDE DEF s
  <2>4. /\ \A i \in DOMAIN s : s[i][1] = "chat_done" =>
              s[i][2] \in workers /\ s[i][2] # m /\ thread[s[i][2]] = "over"
        /\ \A i, j \in DOMAIN s : s[i][1] = "chat_done" /\ s[j] = s[i] => i = j
    BY <1>2, <2>3
  <2>5. /\ signals' \in Seq(Signals) /\ Dones' /\ DoneOnce'
        /\ ToGui(m)' /\ \A n \in Messages : ToGui(n) => ToGui(n)'
    <3>1. /\ thread[m] \in {"setup", "session"}
          /\ \A i \in DOMAIN signals : i \in DOMAIN s /\ s[i] = signals[i]
          /\ workers' = workers /\ thread' = [thread EXCEPT ![m] = "over"]
      BY <1>0, <2>3
    <3> QED BY <2>2, <2>3, <2>4, <3>1, Send
  <2> QED BY <1>0, <1>1, <1>4, <2>5, ThreadKeeps DEF Threads, Fates
<1> QED BY <1>3, <1>4 DEF End

------------------------------------------------------------------------------
LEMMA StutterStep == ASSUME IInv, UNCHANGED vars PROVE IInv'
BY DEF vars, IInv, TypeOK, CapsSeen, Dones, DoneOnce, WithinCap, OnceEach, NoOvertaking, ToGui, Full

LEMMA InvStep == IInv /\ [Next]_vars => IInv'
<1> SUFFICES ASSUME IInv, [Next]_vars PROVE IInv'
  OBVIOUS
<1>1. CASE Gui
  BY <1>1, DoneStep, ErrorStep DEF Gui
<1>2. CASE Shutdown
  BY <1>2, ShutdownStep
<1>3. CASE SetCap
  BY <1>3, SetCapStep
<1>4. CASE \E m \in Messages : SpawnChatWorker(m) \/ Enter(m) \/ Crash(m) \/ End(m)
  BY <1>4, SpawnStep, EnterStep, CrashStep, EndStep
<1>5. CASE UNCHANGED vars
  BY <1>5, StutterStep
<1> QED BY <1>1, <1>2, <1>3, <1>4, <1>5 DEF Next

\* The invariant the results below follow from: a done signal is that of a worker
\* still in the pool, and comes once.
THEOREM PoolInvariant == Spec => []IInv
BY InvInit, InvStep, PTL DEF Spec

\* The pool, its queue and the signals under way keep their types.
THEOREM TypesHold == Spec => []TypeOK
<1>1. IInv => TypeOK
  BY DEF IInv
<1> QED BY <1>1, PoolInvariant, PTL

\* _spawn_worker_now does not look at the cap when the queue is drained, and the cap is
\* kept: the drain takes the place of a worker that has left the pool.
THEOREM CapHolds == Spec => []WithinCap
<1>1. IInv => WithinCap
  BY DEF IInv
<1> QED BY <1>1, PoolInvariant, PTL

\* A message waits in one place and runs once, and the window shows as thinking only
\* what lives or has sent word of its end.
THEOREM MessagesOnce == Spec => []OnceEach
<1>1. IInv => OnceEach
  BY DEF IInv
<1> QED BY <1>1, PoolInvariant, PTL

\* While a message waits the pool is full, unless a spawn has failed or the cap was
\* edited: a new message goes behind it.
THEOREM QueueFirst == Spec => []NoOvertaking
<1>1. IInv => NoOvertaking
  BY DEF IInv
<1> QED BY <1>1, PoolInvariant, PTL
================================================================================
