-------------------------------- MODULE ChatPool --------------------------------
(***************************************************************************)
(* The chat workers of the agent pool: the cap and the queue behind it     *)
(* (core/agent/pool.py, all on the GUI thread), the thread that answers    *)
(* one message (core/agent/chat_worker.py), the signals it sends to the    *)
(* GUI thread and the ids the window shows as thinking (desktop/app.py).   *)
(* A worker is made for one message and named by it.                       *)
(***************************************************************************)
EXTENDS Naturals, Sequences, FiniteSets

CONSTANTS Messages,   \* bound: what the user asks in a behaviour, each once
          Caps,       \* values of agent.max_chat_workers
          MaxFaults   \* bound: exceptions outside a session

ASSUME PoolAssumption ==
    /\ IsFiniteSet(Messages)
    /\ Caps \subseteq Nat \ {0} /\ Caps # {}
    /\ MaxFaults \in Nat

VARIABLES
    cap,       \* max_chat_workers, read anew from the config at each use
    caps,      \* history: the values it has had
    workers,   \* _chat_workers
    queue,     \* _chat_queue
    thread,    \* the thread of each message's worker
    signals,   \* signals under way to the GUI thread
    shown,     \* _chat_worker_ids of the window
    fate,      \* what has become of each message
    down,      \* the pool was shut down
    faults

vars == <<cap, caps, workers, queue, thread, signals, shown, fate, down, faults>>

Threads == {"none", "setup", "session", "over"}
Fates == {"new", "queued", "open", "answered", "failed", "lost", "cancelled"}
Signals == {"chat_error", "chat_done"} \X Messages
ToGui(m) == \E i \in DOMAIN signals : signals[i][2] = m

Init ==
    /\ cap \in Caps /\ caps = {cap}
    /\ workers = {} /\ queue = <<>>
    /\ thread = [m \in Messages |-> "none"]
    /\ signals = <<>> /\ shown = {}
    /\ fate = [m \in Messages |-> "new"]
    /\ down = FALSE /\ faults = 0

Fault == faults < MaxFaults /\ faults' = faults + 1

------------------------------------------------------------------------------
\* The pool.

\* A mutant lets one worker too many in.
FullLate == Cardinality(workers) > cap
Full == Cardinality(workers) >= cap

\* _spawn_worker_now with the workers `rest' in the pool.  The exception of a
\* worker that cannot be built is the caller's: the message is gone.
SpawnWorkerNow(m, rest) ==
    \/ /\ workers' = rest \cup {m}
       /\ thread' = [thread EXCEPT ![m] = "setup"]
       /\ fate' = [fate EXCEPT ![m] = "open"]
       /\ faults' = faults
    \/ /\ Fault
       /\ workers' = rest /\ thread' = thread
       /\ fate' = [fate EXCEPT ![m] = "lost"]

\* worker_spawned is handled at once, on the same thread.
Show(rest) == shown' = rest \cup (workers' \ workers)

\* spawn_chat_worker
SpawnChatWorker(m) ==
    /\ ~down /\ fate[m] = "new"
    /\ \/ /\ Full
          /\ queue' = Append(queue, m)
          /\ fate' = [fate EXCEPT ![m] = "queued"]
          /\ UNCHANGED <<workers, thread, faults>>
       \/ ~Full /\ SpawnWorkerNow(m, workers) /\ queue' = queue
    /\ Show(shown)
    /\ UNCHANGED <<cap, caps, signals, down>>

\* What _on_worker_done leaves in the queue; mutants forget to take the message
\* out, or to look at the queue at all.
Unpopped(q) == q
Popped(q) == Tail(q)
NeverAny == FALSE
SomeQueued == queue # <<>>

\* The slot of chat_done: the window first, then the pool.
OnWorkerDone ==
    /\ signals # <<>> /\ Head(signals)[1] = "chat_done"
    /\ signals' = Tail(signals)
    /\ LET m == Head(signals)[2]
           rest == workers \ {m}
       IN  \/ /\ SomeQueued
              /\ queue' = Popped(queue)
              /\ SpawnWorkerNow(Head(queue), rest)
              /\ shown' = (shown \ {m}) \cup (workers' \ rest)
           \/ /\ ~SomeQueued
              /\ workers' = rest /\ shown' = shown \ {m}
              /\ UNCHANGED <<queue, thread, fate, faults>>
    /\ UNCHANGED <<cap, caps, down>>

\* The window forgets a worker.
Forget(m) == shown' = shown \ {m}

\* The slot of chat_error: the pool only passes it on to the window.
OnChatError ==
    /\ signals # <<>> /\ Head(signals)[1] = "chat_error"
    /\ signals' = Tail(signals)
    /\ Forget(Head(signals)[2])
    /\ UNCHANGED <<cap, caps, workers, queue, thread, fate, down, faults>>

\* cancel_all_chat_workers, as the window closes: the queue is dropped, sessions
\* end at their next message.
Shutdown ==
    /\ ~down /\ down' = TRUE
    /\ queue' = <<>>
    /\ fate' = [m \in Messages |-> IF fate[m] = "queued" THEN "cancelled" ELSE fate[m]]
    /\ UNCHANGED <<cap, caps, workers, thread, signals, shown, faults>>

\* The user edits the configuration.
SetCap ==
    /\ \E c \in Caps \ {cap} : cap' = c /\ caps' = caps \cup {c}
    /\ UNCHANGED <<workers, queue, thread, signals, shown, fate, down, faults>>

------------------------------------------------------------------------------
\* A worker's thread.

\* Config, tools, prompt file: up to the session.
Enter(m) ==
    /\ thread[m] = "setup"
    /\ thread' = [thread EXCEPT ![m] = "session"]
    /\ UNCHANGED <<cap, caps, workers, queue, signals, shown, fate, down, faults>>

\* run() reports an exception outside the session as chat_error and nothing else.
Crash(m) ==
    /\ thread[m] = "setup" /\ Fault
    /\ thread' = [thread EXCEPT ![m] = "over"]
    /\ signals' = Append(signals, <<"chat_error", m>>)
    /\ fate' = [fate EXCEPT ![m] = "failed"]
    /\ UNCHANGED <<cap, caps, workers, queue, shown, down>>

\* The signals of a session that raised.
ErrorThenDone(m) == <<<<"chat_error", m>>, <<"chat_done", m>>>>

\* The session answers, is cancelled or raises; chat_done is sent in any case.
End(m) ==
    /\ thread[m] = "session"
    /\ thread' = [thread EXCEPT ![m] = "over"]
    /\ \/ /\ signals' = Append(signals, <<"chat_done", m>>)
          /\ fate' = [fate EXCEPT ![m] = "answered"]
       \/ /\ signals' = signals \o ErrorThenDone(m)
          /\ fate' = [fate EXCEPT ![m] = "failed"]
    /\ UNCHANGED <<cap, caps, workers, queue, shown, down, faults>>

Gui == OnWorkerDone \/ OnChatError

Next ==
    \/ Gui \/ Shutdown \/ SetCap
    \/ \E m \in Messages : SpawnChatWorker(m) \/ Enter(m) \/ Crash(m) \/ End(m)

\* The GUI thread handles its signals; a worker's thread goes on and its session
\* ends.
Fairness ==
    /\ WF_vars(Gui)
    /\ \A m \in Messages : WF_vars(Enter(m)) /\ WF_vars(End(m))

Spec == Init /\ [][Next]_vars /\ Fairness

------------------------------------------------------------------------------
TypeOK ==
    /\ cap \in Caps /\ caps \subseteq Caps
    /\ workers \subseteq Messages /\ shown \subseteq Messages
    /\ queue \in Seq(Messages) /\ signals \in Seq(Signals)
    /\ thread \in [Messages -> Threads] /\ fate \in [Messages -> Fates]
    /\ down \in BOOLEAN /\ faults \in 0..MaxFaults

\* However done signals, drains and edits of the cap interleave, no more workers
\* are in the pool than some cap in force so far allowed, although the drain
\* spawns without looking at the cap.
WithinCap == \E c \in caps : Cardinality(workers) <= c

\* A message waits once and then runs once: it is in the queue exactly while it is
\* queued, in one place, the pool holds every worker that lives and no worker whose
\* message still waits, and the window shows as thinking only those that live or
\* have sent word of their end.
OnceEach ==
    /\ \A m \in Messages :
        /\ fate[m] = "queued" <=> \E i \in DOMAIN queue : queue[i] = m
        /\ thread[m] \in {"setup", "session"} => m \in workers
        /\ m \in workers => fate[m] \notin {"new", "queued", "lost"}
        /\ m \in shown => thread[m] \in {"setup", "session"} \/ ToGui(m)
    /\ \A i, j \in DOMAIN queue : i # j => queue[i] # queue[j]

\* Nobody overtakes the queue: while a message waits the pool is full, so the next
\* one waits behind it.  A spawn that failed or an edit of the cap ends this.
NoOvertaking ==
    queue # <<>> /\ Cardinality(caps) = 1 /\ (\A m \in Messages : fate[m] # "lost")
        => Full

\* Each message asked is answered, fails or is cancelled, as long as nothing has
\* failed outside a session.
Settled ==
    \A m \in Messages :
        fate[m] \in {"queued", "open"} ~> fate[m] \notin {"queued", "open"} \/ faults > 0

\* "Additional chat messages queue in a small FIFO and are drained as workers
\* finish": a message does not wait for ever.
Drained ==
    \A m \in Messages : fate[m] = "queued" ~> fate[m] # "queued"
================================================================================
