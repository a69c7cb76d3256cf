--------------------------- MODULE ResearchSwarmProofs ---------------------------
(***************************************************************************)
(* Proofs about ResearchSwarm, for any finite number of roles, workers and *)
(* tasks: whatever the coordinator, its workers and the purges of the      *)
(* table do, in whatever order, and across restarts.  The invariant counts *)
(* the slots that the coordinator has promised but not yet filled.         *)
(***************************************************************************)
EXTENDS ResearchSwarm, FiniteSetTheorems, WellFoundedInduction, TLAPS

\* Induction over a finite set S: G is the set of its subsets that have a property.
LEMMA SubsetInduction ==
    ASSUME NEW S, IsFiniteSet(S), NEW G,
           {} \in G,
           \A T \in SUBSET S : \A x \in S \ T : T \in G => T \cup {x} \in G
    PROVE  S \in G
<1> DEFINE B == (SUBSET S) \ G
<1>1. B \subseteq FiniteSubsetsOf(S)
  BY FS_Subset DEF FiniteSubsetsOf
<1> SUFFICES ASSUME B # {} PROVE FALSE
  OBVIOUS
<1> HIDE DEF B
<1>2. PICK T \in B : \A U \in B : ~(<<U, T>> \in StrictSubsetOrdering(S))
  <2>1. IsWellFoundedOn(StrictSubsetOrdering(S), FiniteSubsetsOf(S))
    BY FS_StrictSubsetOrderingWellFounded
  <2>2. \E T \in B : \A U \in B : ~(<<U, T>> \in StrictSubsetOrdering(S))
    BY <1>1, <2>1, WFMin, Zenon
  <2> QED BY <2>2
<1> USE DEF B
<1>3. PICK x \in T : TRUE
  BY DEF B
<1> DEFINE U == T \ {x}
<1>4. U \in SUBSET S /\ T \in SUBSET S /\ U \subseteq T /\ U # T
          /\ T = U \cup {x} /\ x \in S \ U
  BY <1>3
<1> HIDE DEF U, B
<1>5. <<U, T>> \in StrictSubsetOrdering(S)
  BY <1>4 DEF StrictSubsetOrdering
<1> QED
  BY <1>2, <1>4, <1>5 DEF B

\* Among finitely many numbers one is the least.
LEMMA LeastOf ==
    ASSUME NEW T \in SUBSET Nat, T # {}, IsFiniteSet(T)
    PROVE  \E x \in T : \A y \in T : x <= y
<1> DEFINE G == {U \in SUBSET T : U = {} \/ \E x \in U : \A y \in U : x <= y}
<1>1. ASSUME NEW U \in SUBSET T, NEW z \in T \ U, U \in G
      PROVE  U \cup {z} \in G
  <2>1. z \in Nat /\ \A y \in U : y \in Nat
    OBVIOUS
  <2>2. CASE U = {}
    BY <2>1, <2>2
  <2>3. CASE U # {}
    <3>1. PICK x \in U : \A y \in U : x <= y
      BY <2>3, <1>1
    <3>2. CASE x <= z
      BY <2>1, <3>1, <3>2
    <3>3. CASE z < x
      BY <2>1, <3>1, <3>3
    <3> QED BY <2>1, <3>2, <3>3
  <2> QED BY <2>2, <2>3
<1>2. {} \in G
  OBVIOUS
<1> HIDE DEF G
<1>3. T \in G
  BY <1>1, <1>2, SubsetInduction
<1> QED
  BY <1>3 DEF G

\* A waiting task is found when there is one.
LEMMA NextTaskWaits == With("pending") # {} => NextTask \in With("pending")
<1> SUFFICES ASSUME With("pending") # {}
             PROVE  \E t \in With("pending") : \A u \in With("pending") : Before(t, u)
  BY DEF NextTask
<1> DEFINE P == With("pending")
           Q == {t \in P : role[t] \in Quick}
<1>1. P \in SUBSET Nat /\ Q \in SUBSET Nat /\ IsFiniteSet(P) /\ IsFiniteSet(Q)
  <2>1. IsFiniteSet(Ids)
    BY SwarmAssumption, FS_Interval DEF SwarmAssumption, Ids
  <2>2. P \subseteq Ids /\ Q \subseteq Ids /\ Ids \subseteq Nat
    BY DEF With, Ids
  <2> QED BY <2>1, <2>2, FS_Subset
<1>2. CASE Q # {}
  <2>1. PICK x \in Q : \A y \in Q : x <= y
    BY <1>1, <1>2, LeastOf
  <2> QED BY <1>1, <2>1 DEF Before, Priority
<1>3. CASE Q = {}
  <2>1. PICK x \in P : \A y \in P : x <= y
    BY <1>1, LeastOf
  <2> QED BY <1>1, <1>3, <2>1 DEF Before, Priority
<1> QED
  BY <1>2, <1>3

------------------------------------------------------------------------------
\* The slots that are promised are left free, and so is that of the task in hand.
InHand == IF hand = 0 THEN 0 ELSE 1

Room ==
    /\ pc \notin {"claim", "spawn"} => slots = 0
    /\ hand # 0 <=> pc = "spawn"
    /\ Cardinality(Workers) + slots + InHand <= MaxWorkers
    /\ \A n \in Names : Alive(n) => n \in Workers

\* Ids are given once: above the last there is no row, and what has been claimed does
\* not wait again.
Taken ==
    /\ \A t \in Ids : lastId < t => status[t] = "none"
    /\ \A n \in Workers : /\ work[n] <= lastId /\ work[n] # hand
                          /\ status[work[n]] # "pending"
    /\ hand <= lastId /\ (hand # 0 => status[hand] # "pending")
    /\ \A m, n \in Workers : m # n => work[m] # work[n]

IInv == TypeOK /\ Room /\ Taken

LEMMA WorkersFinite ==
    ASSUME NEW W \in SUBSET Names
    PROVE  IsFiniteSet(W) /\ Cardinality(W) \in Nat
<1>1. IsFiniteSet(W)
  BY SwarmAssumption, FS_Subset DEF SwarmAssumption
<1> QED
  BY <1>1, FS_CardinalityType

\* Workers are dropped that have ended.
LEMMA DropKeeps ==
    ASSUME IInv, Drop({n \in Workers : Finished(n)}),
           pc = "reap" \/ pc = "shutdown", pc' \in {"generate", "ended"},
           UNCHANGED <<table, stop, due, todo, slots, hand, faults>>
    PROVE  IInv'
<1> USE DEF table
<1>1. /\ Workers' \subseteq Workers /\ Workers \subseteq Names
      /\ \A n \in Workers' : work'[n] = work[n]
      /\ \A n \in Names : Alive(n) => n \in Workers'
  BY DEF Drop, Workers, Finished, Alive, IInv, Room
<1>2. Cardinality(Workers') <= Cardinality(Workers) /\ Cardinality(Workers') \in Nat
           /\ Cardinality(Workers) \in Nat
  BY <1>1, WorkersFinite, FS_Subset
<1>3. TypeOK'
  BY DEF Drop, IInv, TypeOK, Places
<1>4. Room'
  BY <1>1, <1>2, SwarmAssumption
     DEF Room, IInv, TypeOK, Drop, Alive, InHand, SwarmAssumption
<1>5. Taken'
  BY <1>1 DEF Taken, IInv
<1> QED
  BY <1>3, <1>4, <1>5 DEF IInv

\* The table changes, and nothing that has been claimed waits again.
LEMMA TableKeeps ==
    ASSUME IInv, TypeOK',
           \A t \in Ids : status[t] # "pending" /\ t <= lastId => status'[t] # "pending",
           \A t \in Ids : lastId' < t => status'[t] = "none",
           lastId <= lastId',
           pc \notin {"claim", "spawn"} => pc' \notin {"claim", "spawn"},
           pc \in {"claim", "spawn"} => pc' = pc,
           UNCHANGED <<slots, hand, work, thread>>
    PROVE  IInv'
<1>1. Workers' = Workers /\ InHand' = InHand /\ \A n \in Names : Alive(n)' <=> Alive(n)
  BY DEF Workers, InHand, Alive
<1>2. Room'
  BY <1>1 DEF Room, IInv
<1>3. Taken'
  <2>1. /\ lastId \in Nat /\ lastId' \in Nat /\ hand \in Nat
        /\ \A n \in Workers : work[n] \in Ids /\ work[n] \in Nat
        /\ hand # 0 => hand \in Ids
    BY SwarmAssumption DEF IInv, TypeOK, Workers, Ids, SwarmAssumption
  <2>2. \A t \in Ids : lastId' < t => status'[t] = "none"
    OBVIOUS
  <2>3. ASSUME NEW n \in Workers
        PROVE  work[n] <= lastId' /\ work[n] # hand /\ status'[work[n]] # "pending"
    BY <2>1, <2>3 DEF Taken, IInv
  <2>4. hand <= lastId' /\ (hand # 0 => status'[hand] # "pending")
    <3>1. hand <= lastId /\ (hand # 0 => status[hand] # "pending")
      BY DEF Taken, IInv
    <3> QED BY <2>1, <3>1
  <2>5. \A m, n \in Workers : m # n => work[m] # work[n]
    BY DEF Taken, IInv
  <2> QED BY <1>1, <2>2, <2>3, <2>4, <2>5 DEF Taken
<1> QED
  BY <1>2, <1>3 DEF IInv

\* A worker's thread goes on or ends.
LEMMA ThreadKeeps ==
    ASSUME IInv, NEW n \in Names, Alive(n), NEW place \in {"none", "session"},
           thread' = [thread EXCEPT ![n] = place],
           status' = status \/ CompleteResearchTask(work[n]),
           faults' \in 0..MaxFaults,
           UNCHANGED <<role, lastId, coordinator, work>>
    PROVE  IInv'
<1> USE DEF coordinator
<1>1. n \in Workers /\ Workers' = Workers /\ work[n] \in Ids /\ InHand' = InHand
  BY DEF IInv, Room, Workers, TypeOK, InHand
<1>2. /\ \A t \in Ids : status'[t] \in {status[t], "ended"}
      /\ \A t \in Ids : status[t] = "none" => status'[t] = "none"
  BY <1>1 DEF CompleteResearchTask, IInv, TypeOK
<1>3. TypeOK'
  <2>1. status' \in [Ids -> Statuses]
    BY <1>1 DEF CompleteResearchTask, IInv, TypeOK, Statuses
  <2> QED BY <2>1 DEF IInv, TypeOK
<1>4. Room'
  BY <1>1 DEF Room, IInv, Alive, TypeOK
<1>5. Taken'
  <2>1. \A m \in Workers : work[m] \in Ids
    BY DEF Workers, IInv, TypeOK
  <2>2. hand # 0 => hand \in Ids
    BY DEF IInv, TypeOK
  <2>3. \A t \in Ids : lastId < t => status'[t] = "none"
    BY <1>2 DEF Taken, IInv
  <2>4. ASSUME NEW m \in Workers
        PROVE  work[m] <= lastId /\ work[m] # hand /\ status'[work[m]] # "pending"
    <3>1. work[m] <= lastId /\ work[m] # hand /\ status[work[m]] # "pending"
      BY DEF Taken, IInv
    <3>2. status'[work[m]] \in {status[work[m]], "ended"}
      BY <2>1, <1>2
    <3> QED BY <3>1, <3>2
  <2>5. hand <= lastId /\ (hand # 0 => status'[hand] # "pending")
    <3>1. hand <= lastId /\ (hand # 0 => status[hand] # "pending")
      BY DEF Taken, IInv
    <3>2. hand # 0 => status'[hand] \in {status[hand], "ended"}
      BY <2>2, <1>2
    <3> QED BY <3>1, <3>2
  <2>6. \A k, m \in Workers : k # m => work[k] # work[m]
    BY DEF Taken, IInv
  <2> QED BY <1>1, <2>3, <2>4, <2>5, <2>6 DEF Taken
<1> QED
  BY <1>3, <1>4, <1>5 DEF IInv

LEMMA InitInv == Init => IInv
<1> SUFFICES ASSUME Init PROVE IInv
  OBVIOUS
<1>1. Workers = {} /\ Cardinality(Workers) = 0
  BY FS_EmptySet DEF Init, Workers
<1>2. TypeOK
  <2>1. status \in [Ids -> Statuses] /\ role \in [Ids -> Roles \cup {Nobody}]
    BY DEF Init, Statuses
  <2>2. work \in [Names -> {0} \cup Ids] /\ thread \in [Names -> {"none", "setup", "session"}]
    BY DEF Init
  <2>3. lastId \in 0..MaxTasks /\ slots \in 0..MaxWorkers /\ faults \in 0..MaxFaults
    BY SwarmAssumption DEF Init, SwarmAssumption
  <2> QED BY <2>1, <2>2, <2>3 DEF Init, TypeOK, Places
<1>3. Room /\ Taken
  BY <1>1, SwarmAssumption DEF Init, Room, Taken, InHand, Alive, SwarmAssumption
<1> QED
  BY <1>2, <1>3 DEF IInv

LEMMA InsertTaskKeeps == IInv /\ InsertTask => IInv'
<1> SUFFICES ASSUME IInv, InsertTask PROVE IInv'
  OBVIOUS
<1>1. /\ pc = "insert" /\ todo' \in SUBSET Roles /\ due' \in SUBSET Roles
      /\ UNCHANGED <<pc, stop, slots, hand, work, thread>>
  BY DEF InsertTask, IInv, TypeOK
<1>2. lastId \in 0..MaxTasks /\ MaxTasks \in Nat /\ faults \in 0..MaxFaults
         /\ MaxFaults \in Nat
  BY SwarmAssumption DEF IInv, TypeOK, SwarmAssumption
<1>3. CASE UNCHANGED table /\ faults' \in 0..MaxFaults
  <2>1. TypeOK'
    BY <1>1, <1>3 DEF IInv, TypeOK, table
  <2> QED
    BY <1>1, <1>2, <1>3, <2>1, TableKeeps DEF table, IInv, Taken
<1>4. ASSUME NEW r \in Roles, lastId < MaxTasks, InsertResearchTask(r), faults' = faults
      PROVE  IInv'
  <2>1. FreshId \in Ids /\ lastId' = lastId + 1 /\ lastId' \in 0..MaxTasks
    BY <1>2, <1>4 DEF FreshId, Ids, InsertResearchTask
  <2>2. status' \in [Ids -> Statuses] /\ role' \in [Ids -> Roles \cup {Nobody}]
    BY <1>4, <2>1 DEF InsertResearchTask, IInv, TypeOK, Statuses
  <2>3. TypeOK'
    BY <1>1, <1>4, <2>1, <2>2 DEF IInv, TypeOK
  <2>4. ASSUME NEW t \in Ids
        PROVE  /\ status[t] # "pending" /\ t <= lastId => status'[t] # "pending"
               /\ lastId' < t => status'[t] = "none"
    <3>1. t \in Nat /\ lastId \in Nat
      BY <1>2 DEF Ids
    <3>2. t # lastId + 1 => status'[t] = status[t]
      BY <1>4 DEF InsertResearchTask, FreshId, IInv, TypeOK
    <3> QED BY <3>1, <3>2, <2>1 DEF IInv, Taken
  <2> QED
    BY <1>1, <1>2, <2>1, <2>3, <2>4, TableKeeps
<1>5. CASE Fault /\ UNCHANGED table
  BY <1>2, <1>3, <1>5 DEF Fault
<1> QED
  <2>1. PICK r \in IF todo \cap Quick # {} THEN todo \cap Quick ELSE todo :
           \/ lastId < MaxTasks /\ InsertResearchTask(r) /\ faults' = faults
           \/ UNCHANGED <<table, faults>>
           \/ Fault /\ UNCHANGED table
    BY DEF InsertTask
  <2>2. r \in Roles
    BY DEF IInv, TypeOK
  <2> QED BY <2>1, <2>2, <1>2, <1>3, <1>4, <1>5

LEMMA DeleteKeeps ==
    ASSUME IInv, NEW old \in SUBSET Ids, Delete(old),
           UNCHANGED <<coordinator, work, thread, faults>>
    PROVE  IInv'
<1> USE DEF coordinator
<1>1. \A t \in Ids : status'[t] \in {status[t], "none"}
  BY DEF Delete
<1>2. TypeOK'
  BY DEF Delete, IInv, TypeOK, Statuses
<1> QED
  <2>1. lastId' = lastId /\ lastId \in Nat
    BY SwarmAssumption DEF Delete, IInv, TypeOK, SwarmAssumption
  <2> QED BY <1>1, <1>2, <2>1, TableKeeps DEF IInv, Taken

LEMMA AssignTasksKeeps == IInv /\ AssignTasks => IInv'
<1> SUFFICES ASSUME IInv, AssignTasks PROVE IInv'
  OBVIOUS
<1> USE DEF table
<1>0. Cardinality(Workers) \in Nat /\ MaxWorkers \in Nat
  BY WorkersFinite, SwarmAssumption DEF Workers, SwarmAssumption
<1>1. Workers' = Workers /\ InHand' = 0
  BY DEF AssignTasks, Workers, InHand, IInv, Room
<1>2. slots' \in 0..MaxWorkers /\ Cardinality(Workers) + slots' <= MaxWorkers
  BY <1>0 DEF AssignTasks, IdleSlots, IInv, Room, InHand
<1>3. TypeOK'
  BY <1>2 DEF AssignTasks, IInv, TypeOK, Goto, Places
<1>4. Room'
  BY <1>0, <1>1, <1>2 DEF AssignTasks, IInv, Room, Goto, Alive, TypeOK
<1>5. Taken'
  BY <1>1 DEF AssignTasks, IInv, Taken
<1> QED
  BY <1>3, <1>4, <1>5 DEF IInv

LEMMA ClaimTaskKeeps == IInv /\ ClaimTask => IInv'
<1> SUFFICES ASSUME IInv, ClaimTask PROVE IInv'
  OBVIOUS
<1> DEFINE t == NextTask
<1>0. /\ Cardinality(Workers) \in Nat /\ MaxWorkers \in Nat /\ MaxFaults \in Nat
      /\ slots \in 0..MaxWorkers /\ slots > 0 /\ slots' = slots - 1 /\ hand = 0
      /\ faults \in 0..MaxFaults /\ MaxTasks \in Nat
  BY WorkersFinite, SwarmAssumption
     DEF Workers, SwarmAssumption, ClaimTask, IInv, Room, TypeOK
<1>1. Workers' = Workers /\ \A n \in Workers : work[n] \in Ids /\ n \in Names
  BY DEF ClaimTask, Workers, IInv, TypeOK
<1>2. t \in Ids /\ t # 0 /\ status[t] = "pending" /\ t \in Nat /\ t <= lastId
  <2>1. t \in With("pending")
    BY NextTaskWaits DEF ClaimTask
  <2>2. t \in Ids /\ status[t] = "pending" /\ t \in Nat /\ t # 0 /\ lastId \in Nat
    BY <2>1, <1>0 DEF With, Ids, IInv, TypeOK
  <2> QED BY <2>2 DEF IInv, Taken
<1> HIDE DEF t
<1>3. CASE hand' = t /\ status' = [status EXCEPT ![t] = "running"] /\ pc' = "spawn"
             /\ faults' = faults
  <2>1. TypeOK'
    BY <1>0, <1>2, <1>3 DEF ClaimTask, IInv, TypeOK, Statuses, Places
  <2>2. Room'
    BY <1>0, <1>1, <1>2, <1>3 DEF ClaimTask, IInv, Room, InHand, Alive
  <2>3. ASSUME NEW u \in Ids
        PROVE  /\ lastId < u => status'[u] = "none"
               /\ status'[u] \in {status[u], "running"}
    BY <1>2, <1>3 DEF IInv, TypeOK, Taken
  <2>4. ASSUME NEW n \in Workers
        PROVE  work[n] <= lastId /\ work[n] # t /\ status'[work[n]] # "pending"
    <3>1. work[n] \in Ids /\ work[n] <= lastId /\ status[work[n]] # "pending"
      BY <1>1, <2>4 DEF IInv, Taken
    <3> QED BY <3>1, <1>2, <2>3
  <2>5. status'[t] # "pending"
    BY <1>2, <1>3 DEF IInv, TypeOK
  <2>6. Taken'
    <3>1. lastId' = lastId /\ work' = work
      BY DEF ClaimTask
    <3>2. \A m, n \in Workers : m # n => work[m] # work[n]
      BY DEF IInv, Taken
    <3> QED BY <1>1, <1>2, <1>3, <2>3, <2>4, <2>5, <3>1, <3>2 DEF Taken
  <2> QED BY <2>1, <2>2, <2>6 DEF IInv
<1>4. CASE Fault /\ UNCHANGED <<hand, status, pc>>
  <2>1. TypeOK'
    BY <1>0, <1>4 DEF ClaimTask, IInv, TypeOK, Fault
  <2>2. Room'
    BY <1>0, <1>1, <1>4 DEF ClaimTask, IInv, Room, InHand, Alive
  <2>3. Taken'
    BY <1>1, <1>4 DEF ClaimTask, IInv, Taken
  <2> QED BY <2>1, <2>2, <2>3 DEF IInv
<1> QED
  BY <1>3, <1>4 DEF ClaimTask, ClaimResearchTask, Goto, t

LEMMA SpawnWorkerKeeps == IInv /\ SpawnWorker => IInv'
<1> SUFFICES ASSUME IInv, SpawnWorker PROVE IInv'
  OBVIOUS
<1> USE DEF table
<1> DEFINE n == CHOOSE m \in Names : m \notin Workers
<1>0. /\ Cardinality(Workers) \in Nat /\ MaxWorkers \in Nat /\ MaxFaults \in Nat
      /\ slots \in 0..MaxWorkers /\ hand # 0 /\ hand \in Ids /\ IsFiniteSet(Workers)
      /\ Workers \subseteq Names /\ IsFiniteSet(Names)
      /\ Cardinality(Workers) + slots + 1 <= MaxWorkers /\ faults \in 0..MaxFaults
  BY WorkersFinite, SwarmAssumption
     DEF Workers, SwarmAssumption, SpawnWorker, IInv, Room, TypeOK, InHand
<1>1. n \in Names /\ n \notin Workers
  <2>1. Workers # Names
    BY <1>0, SwarmAssumption DEF SwarmAssumption
  <2> QED BY <1>0, <2>1
<1> HIDE DEF n
<1>2. CASE /\ work' = [work EXCEPT ![n] = hand]
           /\ \/ thread' = [thread EXCEPT ![n] = "setup"] /\ faults' = faults
              \/ Fault /\ thread' = thread
  <2>1. Workers' = Workers \cup {n}
    BY <1>0, <1>1, <1>2 DEF Workers, IInv, TypeOK, Ids
  <2>2. Cardinality(Workers') = Cardinality(Workers) + 1
    BY <1>0, <1>1, <2>1, FS_AddElement
  <2>3. TypeOK'
    <3>1. faults' \in 0..MaxFaults /\ thread' \in [Names -> {"none", "setup", "session"}]
      BY <1>0, <1>1, <1>2 DEF IInv, TypeOK, Fault
    <3> QED BY <1>0, <1>1, <1>2, <3>1 DEF SpawnWorker, IInv, TypeOK, Goto, Places
  <2>4. Room'
    <3>1. \A m \in Names : Alive(m)' => m = n \/ Alive(m)
      BY <1>2 DEF IInv, TypeOK, Alive
    <3> QED BY <1>0, <1>1, <2>1, <2>2, <3>1 DEF SpawnWorker, IInv, Room, Goto, InHand
  <2>5. ASSUME NEW m \in Workers'
        PROVE  \/ m = n /\ work'[m] = hand
               \/ m # n /\ m \in Workers /\ work'[m] = work[m]
    BY <1>1, <1>2, <2>1 DEF IInv, TypeOK
  <2>6. Taken'
    <3>1. lastId' = lastId /\ status' = status /\ hand' = 0
      BY DEF SpawnWorker
    <3>2. \A m \in Workers' : /\ work'[m] <= lastId /\ work'[m] # 0
                              /\ status[work'[m]] # "pending"
      BY <1>0, <2>5 DEF IInv, Taken, Workers
    <3>3. \A k, m \in Workers' : k # m => work'[k] # work'[m]
      BY <2>5 DEF IInv, Taken
    <3>4. 0 <= lastId /\ \A u \in Ids : lastId < u => status[u] = "none"
      BY SwarmAssumption DEF IInv, Taken, TypeOK, SwarmAssumption
    <3> QED BY <3>1, <3>2, <3>3, <3>4 DEF Taken
  <2> QED BY <2>3, <2>4, <2>6 DEF IInv
<1>3. CASE Fault /\ UNCHANGED <<work, thread>>
  <2>1. Workers' = Workers /\ hand' = 0 /\ InHand' = 0
    BY <1>3 DEF Workers, SpawnWorker, InHand
  <2>2. TypeOK'
    BY <1>0, <1>3 DEF SpawnWorker, IInv, TypeOK, Goto, Places, Fault
  <2>3. Room'
    BY <1>0, <1>3, <2>1 DEF SpawnWorker, IInv, Room, Goto, Alive
  <2>4. Taken'
    <3>1. lastId \in Nat /\ \A m \in Workers : work[m] # 0
      BY SwarmAssumption DEF IInv, TypeOK, Workers, SwarmAssumption
    <3> QED BY <1>3, <2>1, <3>1 DEF SpawnWorker, IInv, Taken
  <2> QED BY <2>2, <2>3, <2>4 DEF IInv
<1> QED
  BY <1>2, <1>3 DEF SpawnWorker, n

\* Every step keeps the invariant.
LEMMA StepKeeps == IInv /\ [Next]_vars => IInv'
<1> SUFFICES ASSUME IInv, [Next]_vars PROVE IInv'
  OBVIOUS
<1> USE DEF coordinator, table
<1>0. MaxFaults \in Nat /\ faults \in 0..MaxFaults
  BY SwarmAssumption DEF SwarmAssumption, IInv, TypeOK
<1>1. CASE \/ Start \/ GenerateTasks \/ Wake \/ CadenceElapses \/ Stop
  <2>1. /\ pc \notin {"claim", "spawn"} => pc' \notin {"claim", "spawn"}
        /\ pc \in {"claim", "spawn"} => pc' = pc
        /\ pc' \in Places /\ stop' \in BOOLEAN /\ due' \in SUBSET Roles
        /\ todo' \in SUBSET Roles /\ faults' \in 0..MaxFaults
        /\ UNCHANGED <<table, slots, hand, work, thread>>
    <3>1. /\ pc \in Places /\ stop \in BOOLEAN /\ due \in SUBSET Roles /\ todo \in SUBSET Roles
      BY DEF IInv, TypeOK
    <3>2. CASE Start BY <1>0, <3>1, <3>2 DEF Start, Goto, Places
    <3>3. CASE GenerateTasks BY <1>0, <3>1, <3>3 DEF GenerateTasks, Goto, Places, Fault
    <3>4. CASE Wake BY <1>0, <3>1, <3>4 DEF Wake, Goto, Places
    <3>5. CASE CadenceElapses BY <1>0, <3>1, <3>5 DEF CadenceElapses
    <3>6. CASE Stop BY <1>0, <3>1, <3>6 DEF Stop
    <3> QED BY <1>1, <3>2, <3>3, <3>4, <3>5, <3>6
  <2>2. TypeOK'
    BY <2>1 DEF IInv, TypeOK
  <2>3. lastId \in Nat
    BY SwarmAssumption DEF IInv, TypeOK, SwarmAssumption
  <2> QED BY <2>1, <2>2, <2>3, TableKeeps DEF IInv, Taken
<1>2. CASE CollectFinished \/ ShutDown
  BY <1>2, DropKeeps DEF CollectFinished, ShutDown, Goto
<1>3. CASE InsertTask
  BY <1>3, InsertTaskKeeps
<1>4. CASE AssignTasks
  BY <1>4, AssignTasksKeeps
<1>5. CASE ClaimTask
  BY <1>5, ClaimTaskKeeps
<1>6. CASE SpawnWorker
  BY <1>6, SpawnWorkerKeeps
<1>7. CASE AssignmentDone
  <2>1. pc = "claim" /\ hand = 0 /\ pc' = "sleep" /\ slots' = 0 /\ Workers' = Workers
    BY <1>7 DEF AssignmentDone, IInv, Room, Goto, Workers
  <2>2. TypeOK'
    BY <1>7, <2>1, SwarmAssumption DEF AssignmentDone, IInv, TypeOK, Places, SwarmAssumption
  <2>3. slots \in Nat /\ Cardinality(Workers) \in Nat /\ MaxWorkers \in Nat
    BY WorkersFinite, SwarmAssumption DEF SwarmAssumption, Workers, IInv, TypeOK
  <2>4. Room'
    BY <1>7, <2>1, <2>3 DEF AssignmentDone, IInv, Room, InHand, Alive
  <2>5. Taken'
    BY <1>7, <2>1 DEF AssignmentDone, IInv, Taken
  <2> QED BY <2>2, <2>4, <2>5 DEF IInv
<1>8. CASE Purge
  <2>1. With("ended") \subseteq Ids
    BY DEF With
  <2> QED BY <1>8, <2>1, DeleteKeeps DEF Purge
<1>9. CASE ClearAgentHistory
  BY <1>9, DeleteKeeps DEF ClearAgentHistory
<1>10. CASE Exit
  <2>1. Workers' = {} /\ Cardinality(Workers') = 0
    BY <1>10, FS_EmptySet DEF Exit, Workers
  <2>2. work' \in [Names -> {0} \cup Ids] /\ thread' \in [Names -> {"none", "setup", "session"}]
    BY <1>10 DEF Exit
  <2>3. TypeOK'
    <3>1. faults' \in 0..MaxFaults /\ slots' \in 0..MaxWorkers
      BY <1>0, <1>10, SwarmAssumption DEF Exit, Fault, SwarmAssumption
    <3>2. pc' = "off" /\ stop' = FALSE /\ todo' = {} /\ due' = {} /\ hand' = 0
             /\ UNCHANGED <<status, role, lastId>>
      BY <1>10 DEF Exit, Goto
    <3> QED BY <2>2, <3>1, <3>2 DEF IInv, TypeOK, Places
  <2>4. Room'
    BY <1>10, <2>1, SwarmAssumption DEF Exit, Room, InHand, Goto, Alive, SwarmAssumption
  <2>5. Taken'
    BY <1>10, <2>1, SwarmAssumption DEF Exit, Taken, IInv, TypeOK, SwarmAssumption
  <2> QED BY <2>3, <2>4, <2>5 DEF IInv
<1>11. ASSUME NEW n \in Names, Enter(n) \/ Finish(n) \/ Crash(n)
       PROVE  IInv'
  <2>1. /\ Alive(n)
        /\ \/ thread' = [thread EXCEPT ![n] = "none"]
           \/ thread' = [thread EXCEPT ![n] = "session"]
        /\ status' = status \/ CompleteResearchTask(work[n])
        /\ faults' \in 0..MaxFaults
        /\ UNCHANGED <<role, lastId, coordinator, work>>
    BY <1>0, <1>11 DEF Enter, Finish, Crash, Alive, Fault
  <2> QED BY <2>1, ThreadKeeps
<1>12. CASE UNCHANGED vars
  BY <1>12 DEF vars, IInv, TypeOK, Room, Taken, Workers, Alive, InHand
<1> QED
  BY <1>1, <1>2, <1>3, <1>4, <1>5, <1>6, <1>7, <1>8, <1>9, <1>10, <1>11, <1>12 DEF Next, Tick

\* The invariant holds through every tick, claim, spawn, crash and restart.
THEOREM SwarmInvariant == Spec => []IInv
<1> QED
  BY InitInv, StepKeeps, PTL DEF Spec

\* WithinCap: the pool never outgrows max_concurrent_workers, and no thread runs that
\* is not in it.
THEOREM WithinCapHolds == Spec => []WithinCap
<1>1. IInv => WithinCap
  <2>1. IInv => Cardinality(Workers) \in Nat /\ slots \in Nat
    BY WorkersFinite, SwarmAssumption DEF Workers, IInv, TypeOK, SwarmAssumption
  <2> QED BY <2>1, SwarmAssumption DEF IInv, Room, WithinCap, InHand, SwarmAssumption
<1> QED
  BY <1>1, SwarmInvariant, PTL

\* ClaimedOnce: no two workers have one task, and a task that is claimed does not wait.
THEOREM ClaimedOnceHolds == Spec => []ClaimedOnce
<1>1. IInv => ClaimedOnce
  BY DEF IInv, Taken, ClaimedOnce
<1> QED
  BY <1>1, SwarmInvariant, PTL

InOrder(t) ==
    status'[t] # status[t] =>
        \/ <<status[t], status'[t]>> \in
              {<<"none", "pending">>, <<"pending", "running">>, <<"running", "ended">>}
        \/ status'[t] = "none"

\* Lifecycle: a row of the table waits, runs and ends in this order, also when its
\* worker outlives it, since ids are not given twice.
THEOREM LifecycleHolds == Spec => Lifecycle
<1>1. ASSUME IInv, [Next]_vars, NEW t \in Ids
      PROVE  InOrder(t)
  <2> USE DEF table, coordinator
  <2>1. CASE status' = status
    BY <2>1 DEF InOrder
  <2>2. ASSUME NEW r \in Roles, lastId < MaxTasks, InsertResearchTask(r)
        PROVE  InOrder(t)
    <3>1. FreshId \in Ids /\ status[FreshId] = "none" /\ status \in [Ids -> Statuses]
      BY <1>1, <2>2, SwarmAssumption DEF FreshId, Ids, IInv, TypeOK, Taken, SwarmAssumption
    <3> QED BY <2>2, <3>1 DEF InsertResearchTask, InOrder
  <2>3. CASE ClaimTask
    <3>1. ASSUME ClaimResearchTask PROVE InOrder(t)
      <4>1. NextTask \in Ids /\ status[NextTask] = "pending" /\ status \in [Ids -> Statuses]
        BY <1>1, <2>3, NextTaskWaits DEF ClaimTask, With, IInv, TypeOK
      <4> QED BY <3>1, <4>1 DEF ClaimResearchTask, InOrder
    <3> QED BY <2>1, <2>3, <3>1 DEF ClaimTask
  <2>4. ASSUME NEW old, Delete(old) PROVE InOrder(t)
    BY <2>4 DEF Delete, InOrder
  <2>5. ASSUME NEW n \in Names, Finish(n) PROVE InOrder(t)
    <3>1. n \in Workers /\ work[n] \in Ids /\ status \in [Ids -> Statuses]
      BY <1>1, <2>5 DEF Finish, IInv, Room, Alive, Workers, TypeOK
    <3>2. status[work[n]] \in {"none", "running", "ended"}
      BY <1>1, <3>1 DEF IInv, Taken, Statuses
    <3>3. status' = [status EXCEPT ![work[n]] =
                        IF status[work[n]] = "none" THEN "none" ELSE "ended"]
      BY <2>5 DEF Finish, CompleteResearchTask
    <3>4. CASE t # work[n]
      BY <3>1, <3>3, <3>4 DEF InOrder
    <3>5. CASE t = work[n]
      <4>1. status'[t] = IF status[t] = "none" THEN "none" ELSE "ended"
        BY <3>1, <3>3, <3>5
      <4> QED BY <3>2, <3>5, <4>1 DEF InOrder
    <3> QED BY <3>4, <3>5
  <2> QED
    <3>1. \/ status' = status \/ ClaimTask \/ (\E old : Delete(old))
          \/ \E n \in Names : Finish(n)
          \/ \E r \in Roles : lastId < MaxTasks /\ InsertResearchTask(r)
      <4>1. ASSUME InsertTask
            PROVE  \/ status' = status
                   \/ \E r \in Roles : lastId < MaxTasks /\ InsertResearchTask(r)
        BY <1>1, <4>1 DEF InsertTask, IInv, TypeOK
      <4> QED
        BY <1>1, <4>1 DEF Next, Tick, vars, Start, Purge, CadenceElapses, Stop,
             ClearAgentHistory, Exit, CollectFinished, GenerateTasks, AssignTasks, SpawnWorker,
             AssignmentDone, Wake, ShutDown, Enter, Crash
    <3> QED BY <2>1, <2>2, <2>3, <2>4, <2>5, <3>1
<1>2. IInv /\ [Next]_vars => [\A t \in Ids : InOrder(t)]_vars
  BY <1>1
<1>3. Spec => [][\A t \in Ids : InOrder(t)]_vars
  BY <1>2, SwarmInvariant, PTL DEF Spec
<1> QED
  BY <1>3 DEF Lifecycle, InOrder
================================================================================
