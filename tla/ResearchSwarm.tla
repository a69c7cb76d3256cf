----------------------------- MODULE ResearchSwarm -----------------------------
(***************************************************************************)
(* The research swarm: the coordinator's thread (core/agent/swarm.py), the *)
(* workers it spawns (core/agent/research_worker.py), the cadences that    *)
(* make a role due (core/agent/research_queue.py) and the table of tasks   *)
(* they share (core/database.py).  The table survives the process; workers,*)
(* cadences and the coordinator do not.                                    *)
(***************************************************************************)
EXTENDS Naturals, FiniteSets

CONSTANTS Roles, Quick,   \* ALL_ROLES, and those of tier "quick"
          Nobody,         \* not a role
          Names,          \* identities of workers: one is free for every slot
          MaxWorkers,     \* swarm.max_concurrent_workers
          Limit,          \* pending tasks above which none is generated: 40
          MaxTasks,       \* bound: rows inserted in a behaviour
          MaxFaults       \* bound: failing database calls and spawns

ASSUME SwarmAssumption ==
    /\ Quick \subseteq Roles /\ Nobody \notin Roles
    /\ IsFiniteSet(Roles)
    /\ MaxWorkers \in Nat /\ Limit \in Nat /\ MaxTasks \in Nat /\ MaxFaults \in Nat
    /\ IsFiniteSet(Names) /\ Cardinality(Names) >= MaxWorkers

VARIABLES
    status,   \* status of the row with each id, "none" when there is no row
    role,     \* its role, Nobody when there is no row
    lastId,   \* AUTOINCREMENT: the last id given
    pc,       \* where the coordinator is
    stop,     \* _stop_event
    due,      \* roles whose cadence has elapsed
    todo,     \* due roles of this tick, not yet inserted
    slots,    \* iterations left of the assignment loop
    hand,     \* the task claimed and not yet given to a worker, or 0
    work,     \* task of each worker in _workers, 0 for a name not in use
    thread,   \* the worker's thread
    faults

table == <<status, role, lastId>>
coordinator == <<pc, stop, due, todo, slots, hand>>
vars == <<table, coordinator, work, thread, faults>>

\* `completed' and `failed' differ in nothing here: a row that is over is "ended".
Ids == 1..MaxTasks
Statuses == {"none", "pending", "running", "ended"}
Places == {"off", "reap", "generate", "insert", "claim", "spawn",
           "sleep", "shutdown", "ended"}

With(s) == {t \in Ids : status[t] = s}
Workers == {n \in Names : work[n] # 0}
Alive(n) == thread[n] \in {"setup", "session"}

Init ==
    /\ status = [t \in Ids |-> "none"] /\ role = [t \in Ids |-> Nobody]
    /\ lastId = 0
    /\ pc = "off" /\ stop = FALSE
    /\ due = {} /\ todo = {} /\ slots = 0 /\ hand = 0
    /\ work = [n \in Names |-> 0] /\ thread = [n \in Names |-> "none"]
    /\ faults = 0

------------------------------------------------------------------------------
\* The table.

\* A mutant: without AUTOINCREMENT sqlite gives the largest id in use plus one.
FreshIdOfRowid ==
    1 + (IF \A t \in Ids : status[t] = "none" THEN 0
         ELSE CHOOSE t \in Ids : /\ status[t] # "none"
                                 /\ \A u \in Ids : status[u] # "none" => u <= t)
FreshId == lastId + 1

InsertResearchTask(r) ==
    /\ status' = [status EXCEPT ![FreshId] = "pending"]
    /\ role' = [role EXCEPT ![FreshId] = r]
    /\ lastId' = FreshId

Priority(t) == IF role[t] \in Quick THEN 3 ELSE 7

\* ORDER BY priority, created_at: rows of one second in the order of their ids.
Before(t, u) == Priority(t) < Priority(u) \/ (Priority(t) = Priority(u) /\ t <= u)
NextTask == CHOOSE t \in With("pending") : \A u \in With("pending") : Before(t, u)

\* An UPDATE of a row that was deleted meanwhile changes nothing.
CompleteResearchTask(t) ==
    status' = [status EXCEPT ![t] = IF @ = "none" THEN "none" ELSE "ended"]

Delete(old) ==
    /\ status' = [t \in Ids |-> IF t \in old THEN "none" ELSE status[t]]
    /\ role' = [t \in Ids |-> IF t \in old THEN Nobody ELSE role[t]]
    /\ lastId' = lastId

------------------------------------------------------------------------------
\* The coordinator.

Goto(place) == pc' = place

\* A database call or a spawn raises.
Fault == faults < MaxFaults /\ faults' = faults + 1

\* AgentPool.start_swarm, once a process: a coordinator knows no earlier fire times.
Start ==
    /\ pc = "off"
    /\ Goto("reap") /\ stop' = FALSE /\ due' = Roles
    /\ UNCHANGED <<table, todo, slots, hand, work, thread, faults>>

\* isRunning, and a mutant that misses the end of a worker.
FinishedNever(n) == FALSE
Finished(n) == ~Alive(n)

Drop(gone) ==
    /\ work' = [n \in Names |-> IF n \in gone THEN 0 ELSE work[n]]
    /\ thread' = thread

\* _collect_finished
CollectFinished ==
    /\ pc = "reap"
    /\ Drop({n \in Workers : Finished(n)})
    /\ Goto("generate")
    /\ UNCHANGED <<table, stop, due, todo, slots, hand, faults>>

QueueLong == Cardinality(With("pending")) > Limit

\* No statistics, no tasks; a watchlist provider that raises ends the tick.
GenerateTasks ==
    /\ pc = "generate"
    /\ \/ /\ faults' = faults
          /\ todo' = IF QueueLong THEN {} ELSE due
          /\ Goto("insert")
       \/ Fault /\ todo' = {} /\ Goto("insert")
       \/ ~QueueLong /\ Fault /\ todo' = {} /\ Goto("sleep")
    /\ UNCHANGED <<table, stop, due, slots, hand, work, thread>>

\* Quick roles first; a role whose insert fails stays due.
InsertTask ==
    /\ pc = "insert" /\ todo # {}
    /\ \E r \in IF todo \cap Quick # {} THEN todo \cap Quick ELSE todo :
        /\ todo' = todo \ {r}
        /\ \/ /\ lastId < MaxTasks
              /\ InsertResearchTask(r) /\ due' = due \ {r} /\ faults' = faults
           \/ lastId = MaxTasks /\ UNCHANGED <<table, due, faults>>
           \/ Fault /\ UNCHANGED <<table, due>>
    /\ UNCHANGED <<pc, stop, slots, hand, work, thread>>

\* The slots left by the workers in the pool; a mutant counts none of them.
AllSlots == MaxWorkers
IdleSlots ==
    IF Cardinality(Workers) < MaxWorkers THEN MaxWorkers - Cardinality(Workers) ELSE 0

AssignTasks ==
    /\ pc = "insert" /\ todo = {}
    /\ slots' = IdleSlots
    /\ Goto("claim")
    /\ UNCHANGED <<table, stop, due, todo, hand, work, thread, faults>>

\* claim_research_task, one transaction.  A mutant does not mark the row.
ClaimUnmarked ==
    hand' = NextTask /\ status' = status
ClaimResearchTask ==
    hand' = NextTask /\ status' = [status EXCEPT ![NextTask] = "running"]

ClaimTask ==
    /\ pc = "claim" /\ slots > 0 /\ With("pending") # {}
    /\ slots' = slots - 1
    /\ \/ ClaimResearchTask /\ Goto("spawn") /\ faults' = faults
       \/ Fault /\ UNCHANGED <<hand, status, pc>>
    /\ UNCHANGED <<role, lastId, stop, due, todo, work, thread>>

\* _spawn_worker.  A role unknown to this version, or a worker that cannot be
\* built, leaves the row as it was claimed; one that cannot be started is in the
\* pool already, and is reaped.
SpawnWorker ==
    /\ pc = "spawn"
    /\ hand' = 0 /\ Goto("claim")
    /\ \/ LET n == CHOOSE m \in Names : m \notin Workers IN
          /\ work' = [work EXCEPT ![n] = hand]
          /\ \/ thread' = [thread EXCEPT ![n] = "setup"] /\ faults' = faults
             \/ Fault /\ thread' = thread
       \/ Fault /\ UNCHANGED <<work, thread>>
    /\ UNCHANGED <<table, stop, due, todo, slots>>

AssignmentDone ==
    /\ pc = "claim" /\ (slots = 0 \/ With("pending") = {})
    /\ slots' = 0
    /\ Goto("sleep")
    /\ UNCHANGED <<table, stop, due, todo, hand, work, thread, faults>>

\* purge_old_research_data, once an hour at the end of a tick.
Purge ==
    /\ pc = "sleep"
    /\ \E old \in SUBSET With("ended") : old # {} /\ Delete(old)
    /\ UNCHANGED <<coordinator, work, thread, faults>>

\* The next tick, or the end of the loop.
Wake ==
    /\ pc = "sleep"
    /\ Goto(IF stop THEN "shutdown" ELSE "reap")
    /\ UNCHANGED <<table, stop, due, todo, slots, hand, work, thread, faults>>

\* _shutdown_workers, once all have ended or after thirty seconds.
ShutDown ==
    /\ pc = "shutdown"
    /\ Drop({n \in Workers : Finished(n)})
    /\ Goto("ended")
    /\ UNCHANGED <<table, stop, due, todo, slots, hand, faults>>

------------------------------------------------------------------------------
\* The workers.

\* From the first line of run to the SDK session: a failure here is only logged.
Enter(n) ==
    /\ thread[n] = "setup"
    /\ thread' = [thread EXCEPT ![n] = "session"]
    /\ UNCHANGED <<table, coordinator, work, faults>>

\* The session ends, is stopped (completed all the same) or raises.
Finish(n) ==
    /\ thread[n] = "session"
    /\ thread' = [thread EXCEPT ![n] = "none"]
    /\ CompleteResearchTask(work[n])
    /\ UNCHANGED <<role, lastId, coordinator, work, faults>>

\* An exception outside the session, or in the update that ends it.
Crash(n) ==
    /\ Alive(n) /\ Fault
    /\ thread' = [thread EXCEPT ![n] = "none"]
    /\ UNCHANGED <<table, coordinator, work>>

------------------------------------------------------------------------------
\* The rest of the program.

\* get_due_roles: only the next tick looks, so the time of day is that of its sleep.
CadenceElapses ==
    /\ pc = "sleep"
    /\ \E r \in Roles \ due : due' = due \cup {r}
    /\ UNCHANGED <<table, pc, stop, todo, slots, hand, work, thread, faults>>

\* AgentPool.stop_swarm
Stop ==
    /\ pc \notin {"off", "ended"} /\ ~stop
    /\ stop' = TRUE
    /\ UNCHANGED <<table, pc, due, todo, slots, hand, work, thread, faults>>

\* "Clear all chats & history", at any moment.
ClearAgentHistory ==
    /\ Delete(Ids)
    /\ UNCHANGED <<coordinator, work, thread, faults>>

\* The process ends, at the user's wish or not, whatever it was doing.
Exit ==
    /\ pc # "off"
    /\ (pc = "ended" /\ faults' = faults) \/ Fault
    /\ Goto("off") /\ stop' = FALSE /\ todo' = {} /\ slots' = 0 /\ hand' = 0
    /\ due' = {}
    /\ work' = [n \in Names |-> 0] /\ thread' = [n \in Names |-> "none"]
    /\ UNCHANGED table

Tick ==
    \/ CollectFinished \/ GenerateTasks \/ InsertTask
    \/ AssignTasks \/ ClaimTask \/ SpawnWorker \/ AssignmentDone
    \/ Wake \/ ShutDown

Next ==
    \/ Start \/ Tick \/ Purge \/ CadenceElapses \/ Stop \/ ClearAgentHistory \/ Exit
    \/ \E n \in Names : Enter(n) \/ Finish(n) \/ Crash(n)

\* The coordinator's thread and the workers' go on; sessions end.
Fairness ==
    /\ WF_vars(Tick)
    /\ \A n \in Names : WF_vars(Enter(n)) /\ WF_vars(Finish(n))

Spec == Init /\ [][Next]_vars /\ Fairness

------------------------------------------------------------------------------
TypeOK ==
    /\ status \in [Ids -> Statuses] /\ role \in [Ids -> Roles \cup {Nobody}]
    /\ lastId \in 0..MaxTasks
    /\ pc \in Places /\ stop \in BOOLEAN
    /\ due \subseteq Roles /\ todo \subseteq Roles
    /\ slots \in 0..MaxWorkers /\ hand \in {0} \cup Ids
    /\ work \in [Names -> {0} \cup Ids]
    /\ thread \in [Names -> {"none", "setup", "session"}]
    /\ faults \in 0..MaxFaults

\* The pool never holds more workers than swarm.max_concurrent_workers, and every
\* thread that runs is in the pool, however reaping, spawning and dying interleave.
WithinCap ==
    /\ Cardinality(Workers) <= MaxWorkers
    /\ \A n \in Names : Alive(n) => n \in Workers

\* The state keeps its type.  Two workers never work on one task, nor is a claimed
\* task also given out.
ClaimedOnce ==
    /\ TypeOK
    /\ \A m, n \in Workers : m # n => work[m] # work[n]
    /\ \A n \in Workers : work[n] # hand /\ status[work[n]] # "pending"

\* A row waits, runs and ends, in this order: a worker that outlives the deletion
\* of its row does not end another one.
Lifecycle ==
    [][\A t \in Ids : status'[t] # status[t] =>
        \/ <<status[t], status'[t]>> \in
              {<<"none", "pending">>, <<"pending", "running">>, <<"running", "ended">>}
        \/ status'[t] = "none"]_vars

\* A waiting task of a quick role is claimed, or deleted, unless the coordinator
\* ends: sessions end, finished workers are reaped, slots are filled, deep tasks
\* do not overtake it.
QuickServed ==
    \A t \in Ids :
        status[t] = "pending" /\ role[t] \in Quick
            ~> status[t] # "pending" \/ pc \in {"off", "ended"}

\* "the swarm will land fresh findings shortly": a task that runs comes to an end.
RunningLands ==
    \A t \in Ids : status[t] = "running" ~> status[t] # "running"
================================================================================
