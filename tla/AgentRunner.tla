------------------------------ MODULE AgentRunner ------------------------------
(***************************************************************************)
(* core/agent/runner.py, class AgentRunner: the supervisor's thread, which *)
(* iterates and sleeps, and the calls that cross it from other threads:    *)
(* start, stop and kill (core/agent/pool.py, from the GUI thread), a chat  *)
(* message that wakes it, a breaking headline (desktop/app.py, from the    *)
(* scraper's thread).  A step of the thread ends where another thread can  *)
(* see or change a flag it uses.                                           *)
(***************************************************************************)
EXTENDS Naturals

CONSTANTS Floor,      \* CADENCE_FLOOR_SECONDS
          SwarmMin,   \* SWARM_BUSY_MIN_WAIT_SECONDS
          HardCap,    \* SWARM_BUSY_HARD_CAP_SECONDS
          Cadences,   \* the waits the agent, the config or the market ask for
          Pauses      \* the lengths of a usage-limit pause

\* A pause ends a minute after the reset, or after USAGE_LIMIT_BACKOFF_SECONDS:
\* both are longer than the floor.
ASSUME TimesAssumption ==
    /\ Floor \in Nat /\ SwarmMin \in Nat /\ HardCap \in Nat
    /\ Cadences \subseteq Nat
    /\ Pauses \subseteq {p \in Nat : p >= Floor}

VARIABLES
    pc,         \* where the thread is
    stop,       \* _stop_requested
    interrupt,  \* _interrupt_sleep
    fast,       \* _force_fast_next_cadence
    pause,      \* time left until _usage_pause_until, 0 when it has passed
    left,       \* time left of the wait the loop has chosen
    cap,        \* time left until the hard deadline of the current sleep
    pending,    \* had_pending: the swarm was busy when the wait was chosen
    killing,    \* kill_supervisor is waiting for the thread
    \* History.
    gap,        \* time since the run's last iteration began, up to Floor
    quota,      \* time left of the usage-limit window, if no wake-up cut it
    woken,      \* someone asked for an iteration since the last sleep began
    owed,       \* a wake-up came while an iteration ran
    quick,      \* the wait was chosen for an urgent message
    nudged      \* a breaking headline came during this sleep

flags == <<stop, interrupt, fast>>
history == <<gap, quota, woken, owed, quick, nudged>>
vars == <<pc, flags, pause, left, cap, pending, killing, history>>

\* The thread runs but sleeps: in the usage-limit pause, for the wait it chose,
\* or past it because the swarm is busy.
Sleeping == {"paused", "sleep", "hold"}
Stations == {"off", "starting", "top", "iterate", "choose", "extend", "wait"}
                \cup Sleeping
isRunning == pc # "off"

AtLeast(low, t) == IF t < low THEN low ELSE t

Init ==
    /\ pc = "off"
    /\ stop = FALSE /\ interrupt = FALSE /\ fast = FALSE
    /\ pause = 0 /\ left = 0 /\ cap = 0
    /\ pending = FALSE /\ killing = FALSE
    /\ gap = Floor /\ quota = 0
    /\ woken = FALSE /\ owed = FALSE /\ quick = FALSE /\ nudged = FALSE

-----------------------------------------------------------------------------
(* The supervisor's thread.                                                *)

\* A step of the loop from one station to another.
Go(from, to) == pc = from /\ pc' = to

\* The head of run(): a stop left over goes, the pause and the urgency stay.
Begin ==
    /\ Go("starting", "top")
    /\ stop' = FALSE
    /\ gap' = Floor /\ woken' = FALSE
    /\ UNCHANGED <<interrupt, fast, pause, left, cap, pending, killing,
                   quota, owed, quick, nudged>>

Exit ==
    /\ Go("top", "off") /\ stop
    /\ UNCHANGED <<flags, pause, left, cap, pending, killing, history>>

\* Mutant: the sleeps leave the flag for their first poll.
FallAsleepKeepingFlag ==
    /\ interrupt' = interrupt
    /\ woken' = FALSE /\ nudged' = FALSE /\ owed' = FALSE
    /\ UNCHANGED <<stop, fast, pause, left, pending, killing, gap, quota, quick>>

\* Entering a sleep clears _interrupt_sleep.
FallAsleep ==
    /\ interrupt' = FALSE
    /\ woken' = FALSE /\ nudged' = FALSE /\ owed' = FALSE
    /\ UNCHANGED <<stop, fast, pause, left, pending, killing, gap, quota, quick>>

\* The usage-limit pause, when its deadline has not passed.
PauseSleep ==
    /\ Go("top", "paused") /\ ~stop /\ pause > 0
    /\ FallAsleep
    /\ UNCHANGED cap

\* The pause is over, or a flag ended it; either way the window is cleared.
LeavePause ==
    /\ pc = "paused"
    /\ stop \/ interrupt \/ pause = 0
    /\ IF stop THEN pc' = "off" /\ UNCHANGED pause
               ELSE pc' = "top" /\ pause' = 0
    /\ UNCHANGED <<flags, left, cap, pending, killing, history>>

\* Mutant: the loop does not look at the pause window.
IterateThroughPause ==
    /\ Go("top", "iterate") /\ ~stop
    /\ gap' = 0 /\ quota' = 0 /\ woken' = FALSE
    /\ UNCHANGED <<flags, pause, left, cap, pending, killing, owed, quick, nudged>>

\* Mutant: the flags are reset by each iteration, not by run().
IterateClearingStop ==
    /\ Go("top", "iterate") /\ pause = 0
    /\ stop' = FALSE /\ gap' = 0 /\ quota' = 0 /\ woken' = FALSE
    /\ UNCHANGED <<interrupt, fast, pause, left, cap, pending, killing,
                   owed, quick, nudged>>

\* An iteration of the agent begins.
Iterate ==
    /\ Go("top", "iterate") /\ ~stop /\ pause = 0
    /\ gap' = 0 /\ quota' = 0 /\ woken' = FALSE
    /\ UNCHANGED <<flags, pause, left, cap, pending, killing, owed, quick, nudged>>

\* _enter_usage_pause, when the CLI's output says the quota is gone.
EnterUsagePause ==
    /\ pc = "iterate"
    /\ pause' \in Pauses /\ quota' = pause'
    /\ UNCHANGED <<pc, flags, left, cap, pending, killing,
                   gap, woken, owed, quick, nudged>>

\* An iteration ends: with the agent's turn, with an exception, or at the first
\* message after a stop.
EndIteration ==
    /\ pc = "iterate"
    /\ pc' = IF stop THEN "off" ELSE IF pause > 0 THEN "top" ELSE "choose"
    /\ UNCHANGED <<flags, pause, left, cap, pending, killing, history>>

\* _compute_wait_seconds, which consumes the urgency flag.
ChooseWait ==
    /\ Go("choose", "extend")
    /\ \/ fast /\ left' = Floor
       \/ ~fast /\ \E t \in Cadences : left' = AtLeast(Floor, t)
    /\ fast' = FALSE /\ quick' = fast
    /\ UNCHANGED <<stop, interrupt, pause, cap, pending, killing,
                   gap, quota, woken, owed, nudged>>

\* _read_swarm_snapshot and the swarm-aware minimum.
ReadSwarm ==
    /\ Go("extend", "wait")
    /\ pending' \in BOOLEAN
    /\ left' = IF pending' /\ ~fast THEN AtLeast(SwarmMin, left) ELSE left
    /\ UNCHANGED <<flags, pause, cap, killing, history>>

EnterSleep ==
    /\ Go("wait", "sleep")
    /\ cap' = HardCap
    /\ FallAsleep

\* A sleep sees a flag at its next poll.
Wake ==
    /\ pc \in {"sleep", "hold"} /\ pc' = "top"
    /\ stop \/ interrupt
    /\ UNCHANGED <<flags, pause, left, cap, pending, killing, history>>

\* The chosen wait is over; a busy swarm prolongs it.
SleepOver ==
    /\ Go("sleep", IF pending THEN "hold" ELSE "top")
    /\ left = 0
    /\ UNCHANGED <<flags, pause, left, cap, pending, killing, history>>

\* A poll of the held sleep finds new findings, an idle swarm or an error.
SwarmDone ==
    /\ Go("hold", "top")
    /\ UNCHANGED <<flags, pause, left, cap, pending, killing, history>>

\* Mutant: the sleep is held until the swarm is done.
HoldCapNever == FALSE

\* Past the hard cap the thread wakes anyway.
HoldCap ==
    /\ Go("hold", "top")
    /\ cap = 0
    /\ UNCHANGED <<flags, pause, left, cap, pending, killing, history>>

\* What the thread does by itself; the iteration's end is the agent's.
Loop ==
    \/ Begin \/ Exit
    \/ PauseSleep \/ LeavePause
    \/ Iterate \/ EndIteration
    \/ ChooseWait \/ ReadSwarm \/ EnterSleep
    \/ Wake \/ SleepOver \/ HoldCap

-----------------------------------------------------------------------------
(* Calls of other threads.  The GUI thread makes no other call while       *)
(* kill_supervisor blocks it.                                              *)

\* start_supervisor, which does nothing while the thread runs.
Start ==
    /\ ~killing
    /\ Go("off", "starting")
    /\ UNCHANGED <<flags, pause, left, cap, pending, killing, history>>

\* stop_supervisor and request_stop.
RequestStop ==
    /\ ~killing /\ isRunning
    /\ stop' = TRUE /\ interrupt' = TRUE
    /\ UNCHANGED <<pc, fast, pause, left, cap, pending, killing, history>>

\* kill_supervisor: a stop, a wait, and then the thread is terminated where it is.
Kill ==
    /\ ~killing
    /\ stop' = TRUE /\ interrupt' = TRUE /\ killing' = TRUE
    /\ UNCHANGED <<pc, fast, pause, left, cap, pending, history>>

KillReturns ==
    /\ killing /\ killing' = FALSE /\ pc' = "off"
    /\ UNCHANGED <<flags, pause, left, cap, pending, history>>

\* A chat worker is spawned while the supervisor runs: notify_chat_activity, or
\* force_fast_iteration when the message is urgent.
Chat(urgent) ==
    /\ ~killing /\ isRunning
    /\ interrupt' = TRUE /\ fast' = (fast \/ urgent)
    /\ woken' = (woken \/ pc \in Sleeping)
    /\ owed' = (owed \/ pc = "iterate")
    /\ quota' = IF pc = "paused" THEN 0 ELSE quota
    /\ UNCHANGED <<pc, stop, pause, left, cap, pending, killing, gap, quick, nudged>>

\* The scraper's wake callback, _on_breaking_news: it calls the pool's property
\* supervisor, gets a TypeError and gives up.
BreakingNews ==
    /\ pc \in Sleeping
    /\ nudged' = TRUE
    /\ UNCHANGED <<pc, flags, pause, left, cap, pending, killing,
                   gap, quota, woken, owed, quick>>

Less(t) == IF t > 0 THEN t - 1 ELSE 0

\* Time passes, for every clock alike.
Tick ==
    /\ pause' = Less(pause) /\ quota' = Less(quota)
    /\ left' = IF pc = "sleep" THEN Less(left) ELSE left
    /\ cap' = IF pc \in {"sleep", "hold"} THEN Less(cap) ELSE cap
    /\ gap' = IF gap < Floor THEN gap + 1 ELSE gap
    /\ UNCHANGED <<pc, flags, pending, killing, woken, owed, quick, nudged>>

Next ==
    \/ Loop \/ SwarmDone \/ EnterUsagePause
    \/ Start \/ RequestStop \/ Kill \/ KillReturns
    \/ \E urgent \in BOOLEAN : Chat(urgent)
    \/ BreakingNews
    \/ Tick

\* The thread is scheduled, the agent's turns end, time passes; nothing is
\* assumed of the user, the scraper or the swarm.
Fairness == WF_vars(Loop) /\ WF_vars(KillReturns) /\ WF_vars(Tick)

Spec == Init /\ [][Next]_vars /\ Fairness

-----------------------------------------------------------------------------
(* Properties.                                                             *)

\* Every variable has its type; no clock runs below zero.
TypeOK ==
    /\ pc \in Stations
    /\ stop \in BOOLEAN /\ interrupt \in BOOLEAN /\ fast \in BOOLEAN
    /\ pending \in BOOLEAN /\ killing \in BOOLEAN
    /\ pause \in Nat /\ left \in Nat /\ cap \in Nat
    /\ gap \in 0 .. Floor /\ quota \in Nat
    /\ woken \in BOOLEAN /\ owed \in BOOLEAN /\ quick \in BOOLEAN
    /\ nudged \in BOOLEAN

Begins == pc # "iterate" /\ pc' = "iterate"

\* CADENCE_FLOOR_SECONDS ("the agent cannot run more than this often"): two
\* iterations begin at least Floor apart, through waits, holds and pauses,
\* unless someone asked for one after the sleep before it had begun.
FloorUnlessWoken == [][Begins => woken \/ gap >= Floor]_vars

\* No iteration begins inside a usage-limit window that an earlier one ran into,
\* not even after a stop and a new start, unless a wake-up has cut the pause.
PauseHonoured == [][Begins => quota = 0]_vars

\* A thread that was asked to stop does stop, wherever the request found it;
\* only a request between start() and run() may be lost.
StopHonoured == (stop /\ pc \notin {"off", "starting"}) ~> pc = "off"

\* "a wedged swarm can't starve the supervisor indefinitely": every sleep ends
\* in an iteration or in the end of the thread, whatever the swarm does.
WakesEventually == pc \in Sleeping ~> pc \in {"iterate", "off"}

\* notify_chat_activity: a wake-up during an iteration "will be picked up the
\* next time the runner enters _sleep_with_interrupt".
WakeKept == [][(pc \notin Sleeping /\ pc' \in Sleeping /\ owed) => interrupt']_vars

\* force_fast_iteration "clamps the next computed cadence to the 30s floor": a
\* wait chosen for an urgent message is not longer when the thread sleeps.
UrgentWait == [][(pc = "wait" /\ pc' = "sleep" /\ quick) => left <= Floor]_vars

\* The wake callback of the scraper: a breaking headline ends the sleep, so the
\* supervisor "doesn't sleep through a catalyst".
NewsWakes == (nudged /\ pc \in Sleeping) => interrupt

=============================================================================
