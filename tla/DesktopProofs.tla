--------------------------- MODULE DesktopProofs ------------------------------
(***************************************************************************)
(* Proofs about two services of the desktop: the loop that runs the agent  *)
(* (AgentRunner) and the one that updates the program                      *)
(* (UpdateService).  The two have no state in common.  No proof uses       *)
(* fairness: what is proved is what they may never do.                     *)
(***************************************************************************)
EXTENDS AgentRunner, UpdateService, TLAPS

-----------------------------------------------------------------------------
(* AgentRunner, for every cadence, pause and cap: the inductive invariant. *)

\* A window nobody has cut is no longer than the pause the loop honours, and a
\* wake-up that ends the pause has cut it.
QuotaCovered ==
    /\ quota <= pause
    /\ pc = "paused" /\ interrupt => stop \/ quota = 0

\* What is still to be waited for, wherever the thread is, makes up for what is
\* missing to the floor, unless someone asked for an iteration.
Spaced ==
    /\ pause > 0 \/ pc = "paused" => pause + gap >= Floor
    /\ pc \in {"extend", "wait"} => left >= Floor
    /\ pc = "sleep" => left + gap >= Floor
    /\ pc = "hold" => gap >= Floor
    /\ pc = "top" => stop \/ woken \/ pause + gap >= Floor

\* Only a request breaks a sleep.
BrokenByRequest == pc \in Sleeping /\ interrupt => stop \/ woken

IInv == TypeOK /\ QuotaCovered /\ Spaced /\ BrokenByRequest

\* The two halves of TypeOK.
FlagsTyped ==
    /\ stop \in BOOLEAN /\ interrupt \in BOOLEAN /\ fast \in BOOLEAN
    /\ pending \in BOOLEAN /\ killing \in BOOLEAN
    /\ woken \in BOOLEAN /\ owed \in BOOLEAN /\ quick \in BOOLEAN
    /\ nudged \in BOOLEAN

ClocksTyped ==
    /\ pc \in Stations
    /\ pause \in Nat /\ left \in Nat /\ cap \in Nat
    /\ gap \in 0 .. Floor /\ quota \in Nat

-----------------------------------------------------------------------------
\* TypeOK in two halves.
LEMMA Typed == TypeOK <=> FlagsTyped /\ ClocksTyped
  BY DEF TypeOK, FlagsTyped, ClocksTyped

\* The same of the next state.
LEMMA TypedNext == TypeOK' <=> FlagsTyped' /\ ClocksTyped'
  BY DEF TypeOK, FlagsTyped, ClocksTyped

\* The invariant holds at the start: the floor has passed and nothing runs.
LEMMA InitOK == Init => IInv
  <1> SUFFICES ASSUME Init PROVE IInv
    OBVIOUS
  <1>1. FlagsTyped
    BY DEF Init, FlagsTyped
  <1>2. ClocksTyped
    BY TimesAssumption DEF Init, ClocksTyped, Stations
  <1>3. QuotaCovered /\ Spaced
    BY TimesAssumption DEF Init, QuotaCovered, Spaced
  <1>4. BrokenByRequest
    BY DEF Init, BrokenByRequest, Sleeping
  <1> QED BY <1>1, <1>2, <1>3, <1>4, Typed DEF IInv

\* Falling asleep starts a wait that no request has broken yet.
LEMMA SleepSteps ==
    ASSUME IInv, PauseSleep \/ EnterSleep
    PROVE  IInv'
  <1>0. FlagsTyped /\ ClocksTyped /\ QuotaCovered /\ Spaced /\ BrokenByRequest
    BY Typed DEF IInv
  <1>1. CASE PauseSleep
    <2>1. FlagsTyped'
      BY <1>1, <1>0 DEF PauseSleep, FallAsleep, Go, Sleeping, FlagsTyped
    <2>2. ClocksTyped'
      BY <1>1, <1>0, TimesAssumption DEF PauseSleep, FallAsleep, Go, Sleeping,
          ClocksTyped, Stations
    <2>3. QuotaCovered'
      BY <1>1, <1>0, TimesAssumption DEF PauseSleep, FallAsleep, Go, Sleeping,
          ClocksTyped, QuotaCovered
    <2>4. Spaced'
      BY <1>1, <1>0, TimesAssumption DEF PauseSleep, FallAsleep, Go, Sleeping,
          ClocksTyped, Spaced
    <2>5. BrokenByRequest'
      BY <1>1, <1>0 DEF PauseSleep, FallAsleep, Go, Sleeping, BrokenByRequest
    <2> QED BY <2>1, <2>2, <2>3, <2>4, <2>5, TypedNext DEF IInv
  <1>2. CASE EnterSleep
    <2>1. FlagsTyped'
      BY <1>2, <1>0 DEF EnterSleep, FallAsleep, Go, Sleeping, FlagsTyped
    <2>2. ClocksTyped'
      BY <1>2, <1>0, TimesAssumption DEF EnterSleep, FallAsleep, Go, Sleeping,
          ClocksTyped, Stations
    <2>3. QuotaCovered'
      BY <1>2, <1>0, TimesAssumption DEF EnterSleep, FallAsleep, Go, Sleeping,
          ClocksTyped, QuotaCovered
    <2>4. Spaced'
      BY <1>2, <1>0, TimesAssumption DEF EnterSleep, FallAsleep, Go, Sleeping,
          ClocksTyped, Spaced
    <2>5. BrokenByRequest'
      BY <1>2, <1>0 DEF EnterSleep, FallAsleep, Go, Sleeping, BrokenByRequest
    <2> QED BY <2>1, <2>2, <2>3, <2>4, <2>5, TypedNext DEF IInv
  <1> QED BY <1>1, <1>2

\* A sleep ends because its wait has passed or because of a request.
LEMMA WakeSteps ==
    ASSUME IInv, LeavePause \/ Wake \/ SleepOver \/ SwarmDone \/ HoldCap
    PROVE  IInv'
  <1>0. FlagsTyped /\ ClocksTyped /\ QuotaCovered /\ Spaced /\ BrokenByRequest
    BY Typed DEF IInv
  <1>1. CASE LeavePause
    <2>1. FlagsTyped'
      BY <1>1, <1>0 DEF LeavePause, flags, history, BrokenByRequest, Sleeping,
          QuotaCovered, FlagsTyped
    <2>2. ClocksTyped'
      BY <1>1, <1>0, TimesAssumption DEF LeavePause, flags, history, BrokenByRequest,
          Sleeping, QuotaCovered, ClocksTyped, Stations
    <2>3. QuotaCovered'
      BY <1>1, <1>0, TimesAssumption DEF LeavePause, flags, history, BrokenByRequest,
          Sleeping, QuotaCovered, ClocksTyped
    <2>4. Spaced'
      BY <1>1, <1>0, TimesAssumption DEF LeavePause, flags, history, BrokenByRequest,
          Sleeping, QuotaCovered, ClocksTyped, Spaced
    <2>5. BrokenByRequest'
      BY <1>1, <1>0 DEF LeavePause, flags, history, BrokenByRequest, Sleeping,
          QuotaCovered
    <2> QED BY <2>1, <2>2, <2>3, <2>4, <2>5, TypedNext DEF IInv
  <1>2. CASE Wake
    <2>1. FlagsTyped'
      BY <1>2, <1>0 DEF Wake, flags, history, BrokenByRequest, Sleeping, FlagsTyped
    <2>2. ClocksTyped'
      BY <1>2, <1>0, TimesAssumption DEF Wake, flags, history, BrokenByRequest,
          Sleeping, ClocksTyped, Stations
    <2>3. QuotaCovered'
      BY <1>2, <1>0, TimesAssumption DEF Wake, flags, history, BrokenByRequest,
          Sleeping, ClocksTyped, QuotaCovered
    <2>4. Spaced'
      BY <1>2, <1>0, TimesAssumption DEF Wake, flags, history, BrokenByRequest,
          Sleeping, ClocksTyped, Spaced
    <2>5. BrokenByRequest'
      BY <1>2, <1>0 DEF Wake, flags, history, BrokenByRequest, Sleeping
    <2> QED BY <2>1, <2>2, <2>3, <2>4, <2>5, TypedNext DEF IInv
  <1>3. CASE SleepOver \/ SwarmDone \/ HoldCap
    <2>1. FlagsTyped'
      BY <1>3, <1>0 DEF SleepOver, SwarmDone, HoldCap, Go, flags, history, Sleeping,
          FlagsTyped
    <2>2. ClocksTyped'
      BY <1>3, <1>0, TimesAssumption DEF SleepOver, SwarmDone, HoldCap, Go, flags,
          history, Sleeping, ClocksTyped, Stations
    <2>3. QuotaCovered'
      BY <1>3, <1>0, TimesAssumption DEF SleepOver, SwarmDone, HoldCap, Go, flags,
          history, Sleeping, ClocksTyped, QuotaCovered
    <2>4. Spaced'
      BY <1>3, <1>0, TimesAssumption DEF SleepOver, SwarmDone, HoldCap, Go, flags,
          history, Sleeping, ClocksTyped, Spaced
    <2>5. BrokenByRequest'
      BY <1>3, <1>0 DEF SleepOver, SwarmDone, HoldCap, Go, flags, history, Sleeping,
          BrokenByRequest
    <2> QED BY <2>1, <2>2, <2>3, <2>4, <2>5, TypedNext DEF IInv
  <1> QED BY <1>1, <1>2, <1>3

\* An iteration, the pause it may run into and the wait it is followed by.
LEMMA IterationSteps ==
    ASSUME IInv, Iterate \/ EnterUsagePause \/ EndIteration \/ ChooseWait \/ ReadSwarm
    PROVE  IInv'
  <1>0. FlagsTyped /\ ClocksTyped /\ QuotaCovered /\ Spaced /\ BrokenByRequest
    BY Typed DEF IInv
  <1>1. CASE Iterate
    <2>1. FlagsTyped'
      BY <1>1, <1>0 DEF Iterate, Go, flags, FlagsTyped
    <2>2. ClocksTyped'
      BY <1>1, <1>0, TimesAssumption DEF Iterate, Go, flags, ClocksTyped, Stations,
          Sleeping
    <2>3. QuotaCovered'
      BY <1>1, <1>0, TimesAssumption DEF Iterate, Go, flags, ClocksTyped,
          QuotaCovered
    <2>4. Spaced'
      BY <1>1, <1>0, TimesAssumption DEF Iterate, Go, flags, ClocksTyped, Spaced
    <2>5. BrokenByRequest'
      BY <1>1, <1>0 DEF Iterate, Go, flags, BrokenByRequest, Sleeping
    <2> QED BY <2>1, <2>2, <2>3, <2>4, <2>5, TypedNext DEF IInv
  <1>2. CASE EnterUsagePause
    <2>1. FlagsTyped'
      BY <1>2, <1>0 DEF EnterUsagePause, flags, FlagsTyped
    <2>2. ClocksTyped'
      BY <1>2, <1>0, TimesAssumption DEF EnterUsagePause, flags, ClocksTyped,
          Stations, Sleeping
    <2>3. QuotaCovered'
      BY <1>2, <1>0, TimesAssumption DEF EnterUsagePause, flags, ClocksTyped,
          QuotaCovered
    <2>4. Spaced'
      <3>1. pc' = "iterate"
        BY <1>2 DEF EnterUsagePause
      <3>2. pause' \in Nat /\ pause' >= Floor /\ Floor \in Nat
        BY <1>2, TimesAssumption DEF EnterUsagePause
      <3>3. gap' \in Nat
        BY <2>2, TimesAssumption DEF ClocksTyped
      <3>4. \A p, g, f \in Nat : p >= f => p + g >= f
        OBVIOUS
      <3>5. pause' + gap' >= Floor
        BY <3>2, <3>3, <3>4
      <3> QED BY <3>1, <3>5 DEF Spaced
    <2>5. BrokenByRequest'
      BY <1>2, <1>0 DEF EnterUsagePause, flags, BrokenByRequest, Sleeping
    <2> QED BY <2>1, <2>2, <2>3, <2>4, <2>5, TypedNext DEF IInv
  <1>3. CASE EndIteration
    <2>1. FlagsTyped'
      BY <1>3, <1>0 DEF EndIteration, flags, history, FlagsTyped
    <2>2. ClocksTyped'
      BY <1>3, <1>0, TimesAssumption DEF EndIteration, flags, history, ClocksTyped,
          Stations, Sleeping
    <2>3. QuotaCovered'
      BY <1>3, <1>0, TimesAssumption DEF EndIteration, flags, history,
          ClocksTyped, QuotaCovered
    <2>4. Spaced'
      BY <1>3, <1>0, TimesAssumption DEF EndIteration, flags, history,
          ClocksTyped, Spaced
    <2>5. BrokenByRequest'
      BY <1>3, <1>0 DEF EndIteration, flags, history, BrokenByRequest, Sleeping
    <2> QED BY <2>1, <2>2, <2>3, <2>4, <2>5, TypedNext DEF IInv
  <1>4. CASE ChooseWait
    <2>1. FlagsTyped'
      BY <1>4, <1>0 DEF ChooseWait, AtLeast, Go, FlagsTyped
    <2>2. ClocksTyped'
      BY <1>4, <1>0, TimesAssumption DEF ChooseWait, AtLeast, Go, ClocksTyped,
          Stations, Sleeping
    <2>3. QuotaCovered'
      BY <1>4, <1>0, TimesAssumption DEF ChooseWait, AtLeast, Go, ClocksTyped,
          QuotaCovered
    <2>4. Spaced'
      BY <1>4, <1>0, TimesAssumption DEF ChooseWait, AtLeast, Go, ClocksTyped,
          Spaced
    <2>5. BrokenByRequest'
      BY <1>4, <1>0 DEF ChooseWait, AtLeast, Go, BrokenByRequest, Sleeping
    <2> QED BY <2>1, <2>2, <2>3, <2>4, <2>5, TypedNext DEF IInv
  <1>5. CASE ReadSwarm
    <2>1. FlagsTyped'
      BY <1>5, <1>0 DEF ReadSwarm, AtLeast, Go, flags, history, FlagsTyped
    <2>2. ClocksTyped'
      BY <1>5, <1>0, TimesAssumption DEF ReadSwarm, AtLeast, Go, flags, history,
          ClocksTyped, Stations, Sleeping
    <2>3. QuotaCovered'
      BY <1>5, <1>0, TimesAssumption DEF ReadSwarm, AtLeast, Go, flags, history,
          ClocksTyped, QuotaCovered
    <2>4. Spaced'
      BY <1>5, <1>0, TimesAssumption DEF ReadSwarm, AtLeast, Go, flags, history,
          ClocksTyped, Spaced
    <2>5. BrokenByRequest'
      BY <1>5, <1>0 DEF ReadSwarm, AtLeast, Go, flags, history,
          BrokenByRequest, Sleeping
    <2> QED BY <2>1, <2>2, <2>3, <2>4, <2>5, TypedNext DEF IInv
  <1> QED BY <1>1, <1>2, <1>3, <1>4, <1>5

\* The thread begins and ends.
LEMMA RunSteps ==
    ASSUME IInv, Begin \/ Exit \/ Start \/ KillReturns
    PROVE  IInv'
  <1>0. FlagsTyped /\ ClocksTyped /\ QuotaCovered /\ Spaced /\ BrokenByRequest
    BY Typed DEF IInv
  <1>1. CASE Begin
    <2>1. FlagsTyped'
      BY <1>1, <1>0 DEF Begin, Go, FlagsTyped
    <2>2. ClocksTyped'
      BY <1>1, <1>0, TimesAssumption DEF Begin, Go, ClocksTyped, Stations, Sleeping
    <2>3. QuotaCovered'
      BY <1>1, <1>0, TimesAssumption DEF Begin, Go, ClocksTyped, QuotaCovered
    <2>4. Spaced'
      BY <1>1, <1>0, TimesAssumption DEF Begin, Go, ClocksTyped, Spaced
    <2>5. BrokenByRequest'
      BY <1>1, <1>0 DEF Begin, Go, BrokenByRequest, Sleeping
    <2> QED BY <2>1, <2>2, <2>3, <2>4, <2>5, TypedNext DEF IInv
  <1>2. CASE Exit \/ Start \/ KillReturns
    <2>1. FlagsTyped'
      BY <1>2, <1>0 DEF Exit, Start, KillReturns, Go, flags, history, FlagsTyped
    <2>2. ClocksTyped'
      BY <1>2, <1>0, TimesAssumption DEF Exit, Start, KillReturns, Go, flags,
          history, ClocksTyped, Stations, Sleeping
    <2>3. QuotaCovered'
      BY <1>2, <1>0, TimesAssumption DEF Exit, Start, KillReturns, Go, flags,
          history, ClocksTyped, QuotaCovered
    <2>4. Spaced'
      BY <1>2, <1>0, TimesAssumption DEF Exit, Start, KillReturns, Go, flags,
          history, ClocksTyped, Spaced
    <2>5. BrokenByRequest'
      BY <1>2, <1>0 DEF Exit, Start, KillReturns, Go, flags, history,
          BrokenByRequest, Sleeping
    <2> QED BY <2>1, <2>2, <2>3, <2>4, <2>5, TypedNext DEF IInv
  <1> QED BY <1>1, <1>2

\* Other threads only ask; what they ask for they also record.
LEMMA RequestSteps ==
    ASSUME IInv, RequestStop \/ Kill \/ BreakingNews
                 \/ \E urgent \in BOOLEAN : Chat(urgent)
    PROVE  IInv'
  <1>0. FlagsTyped /\ ClocksTyped /\ QuotaCovered /\ Spaced /\ BrokenByRequest
    BY Typed DEF IInv
  <1>1. CASE RequestStop \/ Kill \/ BreakingNews
    <2>1. FlagsTyped'
      BY <1>1, <1>0 DEF RequestStop, Kill, BreakingNews, flags, history, FlagsTyped
    <2>2. ClocksTyped'
      BY <1>1, <1>0, TimesAssumption DEF RequestStop, Kill, BreakingNews, flags,
          history, ClocksTyped, Stations, Sleeping
    <2>3. QuotaCovered'
      BY <1>1, <1>0, TimesAssumption DEF RequestStop, Kill, BreakingNews, flags,
          history, ClocksTyped, QuotaCovered
    <2>4. Spaced'
      BY <1>1, <1>0, TimesAssumption DEF RequestStop, Kill, BreakingNews, flags,
          history, ClocksTyped, Spaced
    <2>5. BrokenByRequest'
      BY <1>1, <1>0 DEF RequestStop, Kill, BreakingNews, flags, history,
          BrokenByRequest, Sleeping
    <2> QED BY <2>1, <2>2, <2>3, <2>4, <2>5, TypedNext DEF IInv
  <1>2. ASSUME NEW urgent \in BOOLEAN, Chat(urgent)
        PROVE  IInv'
    <2>1. FlagsTyped'
      BY <1>2, <1>0 DEF Chat, Sleeping, FlagsTyped
    <2>2. ClocksTyped'
      BY <1>2, <1>0, TimesAssumption DEF Chat, Sleeping, ClocksTyped, Stations
    <2>3. QuotaCovered'
      BY <1>2, <1>0, TimesAssumption DEF Chat, Sleeping, ClocksTyped,
          QuotaCovered
    <2>4. Spaced'
      BY <1>2, <1>0, TimesAssumption DEF Chat, Sleeping, ClocksTyped, Spaced
    <2>5. BrokenByRequest'
      BY <1>2, <1>0 DEF Chat, Sleeping, BrokenByRequest
    <2> QED BY <2>1, <2>2, <2>3, <2>4, <2>5, TypedNext DEF IInv
  <1> QED BY <1>1, <1>2

\* Time that is taken from a wait is added to the gap.
LEMMA TickStep ==
    ASSUME IInv, Tick
    PROVE  IInv'
  <1>1. /\ pause' \in Nat /\ quota' \in Nat /\ left' \in Nat /\ cap' \in Nat
        /\ gap' \in 0 .. Floor
    BY TimesAssumption DEF Tick, Less, IInv, TypeOK
  <1>2. gap' = IF gap < Floor THEN gap + 1 ELSE Floor
    BY TimesAssumption DEF Tick, IInv, TypeOK
  <1>3. /\ quota' <= pause'
        /\ quota = 0 => quota' = 0
        /\ \A t \in {pause, left} : t + gap >= Floor => Less(t) + gap' >= Floor
        /\ gap >= Floor => gap' >= Floor
        /\ pause' > 0 => pause > 0
    BY <1>2, TimesAssumption DEF Tick, Less, IInv, TypeOK, QuotaCovered
  <1>4. TypeOK'
    BY <1>1 DEF Tick, flags, IInv, TypeOK
  <1>5. QuotaCovered' /\ BrokenByRequest'
    BY <1>3 DEF Tick, flags, IInv, QuotaCovered, BrokenByRequest
  <1>6. Spaced'
    BY <1>1, <1>3, TimesAssumption DEF Tick, flags, IInv, TypeOK, Spaced
  <1> QED BY <1>4, <1>5, <1>6 DEF IInv

\* Every step keeps the invariant.
LEMMA StepOK == IInv /\ [Next]_vars => IInv'
  <1> SUFFICES ASSUME IInv, [Next]_vars PROVE IInv'
    OBVIOUS
  <1>1. CASE Loop
    BY <1>1, RunSteps, SleepSteps, WakeSteps, IterationSteps DEF Loop
  <1>2. CASE SwarmDone \/ EnterUsagePause
    BY <1>2, WakeSteps, IterationSteps
  <1>3. CASE Start \/ KillReturns
    BY <1>3, RunSteps
  <1>4. CASE RequestStop \/ Kill \/ BreakingNews
             \/ \E urgent \in BOOLEAN : Chat(urgent)
    BY <1>4, RequestSteps
  <1>5. CASE Tick
    BY <1>5, TickStep
  <1>6. CASE UNCHANGED vars
    BY <1>6 DEF vars, flags, history, IInv, TypeOK, QuotaCovered, Spaced,
                BrokenByRequest
  <1> QED BY <1>1, <1>2, <1>3, <1>4, <1>5, <1>6 DEF Next

\* The invariant of the supervisor's loop.
THEOREM RunnerInvariant == Spec => []IInv
  BY InitOK, StepOK, PTL DEF Spec

\* The types of the runner's variables.
THEOREM RunnerTypes == Spec => []TypeOK
  <1>1. IInv => TypeOK
    BY DEF IInv
  <1> QED BY RunnerInvariant, <1>1, PTL

\* An iteration begins only at the top of the loop.
LEMMA OnlyIterateBegins ==
    ASSUME IInv, [Next]_vars, Begins
    PROVE  Iterate
  BY DEF Begins, Next, Loop, Begin, Exit, PauseSleep, LeavePause, Iterate,
         EndIteration, ChooseWait, ReadSwarm, EnterSleep, Wake, SleepOver, HoldCap,
         SwarmDone, EnterUsagePause, Start, RequestStop, Kill, KillReturns, Chat,
         BreakingNews, Tick, Go, vars

\* FloorUnlessWoken, for every floor: waits, swarm holds, usage pauses and the
\* early ends of all three leave at least the floor between two iterations,
\* unless a chat message arrived while the thread slept.
THEOREM FloorKept == Spec => FloorUnlessWoken
  <1>1. IInv /\ [Next]_vars => [Begins => woken \/ gap >= Floor]_vars
    <2> SUFFICES ASSUME IInv, [Next]_vars, Begins
                 PROVE  woken \/ gap >= Floor
      OBVIOUS
    <2>1. Iterate
      BY OnlyIterateBegins
    <2> QED BY <2>1, TimesAssumption DEF Iterate, Go, IInv, TypeOK, Spaced
  <1> QED BY RunnerInvariant, <1>1, PTL DEF Spec, FloorUnlessWoken

\* PauseHonoured, for every pause: a stop, a new start and the order in which the
\* clocks are read cannot shorten a usage-limit window; only a wake-up can.
THEOREM PauseKept == Spec => PauseHonoured
  <1>1. IInv /\ [Next]_vars => [Begins => quota = 0]_vars
    <2> SUFFICES ASSUME IInv, [Next]_vars, Begins
                 PROVE  quota = 0
      OBVIOUS
    <2>1. Iterate
      BY OnlyIterateBegins
    <2> QED BY <2>1 DEF Iterate, IInv, TypeOK, QuotaCovered
  <1> QED BY RunnerInvariant, <1>1, PTL DEF Spec, PauseHonoured

------------------------------------------------------------------------------
(***************************************************************************)
(* UpdateService, for any number of releases and faults.                   *)
(***************************************************************************)

\* Not older than the program, unless a restart has brought it back.
Onward(v) == v = 0 \/ running <= v \/ v \in revived

\* What is planned or under way has been asked for, and the service's own dict holds no
\* other schedule, but for those a restart has brought back.
Asked ==
    /\ planned \in consent \cup {0}
    /\ download \in consent \cup revived \cup {0}
    /\ mine.pending.version \in {0, planned} \cup revived

\* What can still be installed goes onward, and nothing is planned once an installer
\* is launched.
Forward ==
    /\ installing # 0 => planned = 0
    /\ Onward(planned) /\ Onward(installing) /\ Onward(download)
    /\ ~Up => download = 0
    /\ Up => /\ Onward(overlay) /\ Onward(last.version)
             /\ banner.shows # "nothing" => Onward(banner.version)

\* As long as saves succeed and the dicts have not parted, the three configurations are
\* one, and what is pending in it is what is planned.
Steady ==
    /\ shared /\ disk = mine /\ revived = {}
    /\ mine.pending.version = planned

Shown ==
    /\ banner.shows = "available" => banner.version # 0
    /\ last # NoManifest => last.version # 0

UpdateInv == UpdateTypeOK /\ Shown /\ Asked /\ Forward /\ (~astray => Steady)

LEMMA Blanks ==
    NoPlan \in Plans /\ Blank \in Configs /\ NoManifest \in Manifests /\ Hidden \in Banners
  BY UpdateAssumption DEF NoPlan, Plans, Times, Blank, Configs, NoManifest, Manifests, Hidden,
                          Banners, UpdateAssumption

LEMMA UpdateInitInv == UpdateInit => UpdateInv
<1> SUFFICES ASSUME UpdateInit PROVE UpdateInv
  OBVIOUS
<1>1. UpdateTypeOK
  <2>1. shared \in BOOLEAN /\ astray \in BOOLEAN /\ window = mine
    BY DEF UpdateInit
  <2>2. release \in Manifests /\ last \in Manifests /\ banner \in Banners
          /\ mine \in Configs /\ window \in Configs /\ disk \in Configs
    BY Blanks DEF UpdateInit
  <2>3. /\ app \in {"off", "starting", "on"} /\ consent \subseteq Versions
        /\ 0 \in 0..MaxVersion /\ 0 \in 0..MaxFaults
        /\ running = 0 /\ seen = 0 /\ overlay = 0 /\ download = 0 /\ installing = 0
        /\ faults = 0 /\ planned = 0 /\ revived = {}
    BY UpdateAssumption DEF UpdateInit, UpdateAssumption
  <2> QED BY <2>1, <2>2, <2>3 DEF UpdateTypeOK
<1>2. Shown
  BY DEF UpdateInit, Shown, Hidden
<1>3. Steady /\ Asked
  BY DEF UpdateInit, Steady, Asked, Blank, NoPlan
<1>4. Forward
  BY DEF UpdateInit, Forward, Onward, Up
<1> QED
  BY <1>1, <1>2, <1>3, <1>4 DEF UpdateInv

\* A change of the configuration, saved or not.
LEMMA ChangeEffect ==
    ASSUME UpdateTypeOK, NEW c \in Configs, Change(c)
    PROVE  /\ mine' = c /\ shared' = shared /\ mine' \in Configs /\ window' \in Configs
           /\ disk' \in Configs /\ (shared' => window' = mine') /\ shared' \in BOOLEAN
           /\ faults' \in 0..MaxFaults /\ astray' \in BOOLEAN /\ (astray => astray')
           /\ ~astray' /\ shared => disk' = c
<1>1. /\ mine' = c /\ shared' = shared /\ shared \in BOOLEAN
      /\ window' = IF shared THEN c ELSE window
      /\ window \in Configs /\ disk \in Configs /\ faults \in 0..MaxFaults
      /\ astray \in BOOLEAN
  BY DEF Change, UpdateTypeOK
<1>2. window' \in Configs /\ (shared' => window' = mine') /\ shared' \in BOOLEAN
  BY <1>1
<1>3. CASE disk' = window' /\ UNCHANGED <<faults, astray>>
  BY <1>1, <1>2, <1>3
<1>4. CASE disk' = disk /\ Fault /\ astray' = TRUE
  <2>1. faults' \in 0..MaxFaults
    BY <1>1, <1>4, UpdateAssumption DEF Fault, UpdateAssumption
  <2>2. astray' \in BOOLEAN /\ astray'
    BY <1>4
  <2> QED BY <1>1, <1>2, <1>4, <2>1, <2>2
<1> QED
  BY <1>3, <1>4 DEF Change

LEMMA ClearEffect ==
    ASSUME UpdateTypeOK, ClearPending
    PROVE  /\ mine' = [mine EXCEPT !.pending = NoPlan] /\ mine'.pending = NoPlan
           /\ shared' = shared /\ mine' \in Configs /\ window' \in Configs
           /\ disk' \in Configs /\ (shared' => window' = mine') /\ shared' \in BOOLEAN
           /\ faults' \in 0..MaxFaults /\ astray' \in BOOLEAN /\ (astray => astray')
           /\ ~astray' /\ shared /\ disk = mine => disk' = mine'
<1> DEFINE c == [mine EXCEPT !.pending = NoPlan]
<1>1. mine \in Configs
  BY DEF UpdateTypeOK
<1>2. c \in Configs /\ c.pending = NoPlan /\ (mine.pending = NoPlan => c = mine)
  BY <1>1, Blanks DEF Configs
<1> HIDE DEF c
<1>3. CASE mine.pending = NoPlan
  BY <1>2, <1>3 DEF ClearPending, config, UpdateTypeOK, c
<1>4. CASE mine.pending # NoPlan
  <2>1. Change(c)
    BY <1>4 DEF ClearPending, c
  <2> QED BY <1>2, <2>1, ChangeEffect DEF c
<1> QED
  BY <1>3, <1>4

LEMMA LaterEffect ==
    ASSUME NEW c \in Configs
    PROVE  /\ Later(c) \in Configs /\ Later(c).pending.version = c.pending.version
           /\ c.pending = NoPlan => Later(c).pending = NoPlan
<1>1. CASE c.pending = NoPlan
  BY <1>1 DEF Later
<1>2. CASE c.pending # NoPlan
  <2> DEFINE w == CASE c.pending.when = "later" -> "soon"
                    [] c.pending.when = "soon" -> "due" [] OTHER -> "past"
  <2>1. w \in Times
    BY DEF Times
  <2> HIDE DEF w
  <2>2. Later(c) = [c EXCEPT !.pending.when = w]
    BY <1>2 DEF Later, w
  <2> QED BY <1>2, <2>1, <2>2 DEF Configs, Plans
<1> QED
  BY <1>1, <1>2

------------------------------------------------------------------------------
\* Steps that touch neither the configuration nor what is planned.
LEMMA FindKeeps ==
    ASSUME UpdateInv, \/ Publish \/ Check \/ HideBanner \/ SaveConfig \/ SaveConfigKey
                      \/ DownloadFails \/ Crash
    PROVE  UpdateInv'
<1> USE DEF config, display, updateHistory
<1>0. /\ UpdateTypeOK /\ Shown /\ Asked /\ Forward /\ (~astray => Steady)
      /\ MaxVersion \in Nat /\ MaxFaults \in Nat
      /\ running \in 0..MaxVersion /\ release \in Manifests /\ release.version \in 0..MaxVersion
      /\ faults \in 0..MaxFaults
  BY UpdateAssumption DEF UpdateInv, UpdateTypeOK, UpdateAssumption, Manifests
<1>1. CASE Publish
  <2>1. release' \in Manifests
    <3>1. PICK m \in BOOLEAN : release' = [version |-> release.version + 1, mandatory |-> m]
      BY <1>1 DEF Publish
    <3>2. release.version + 1 \in 0..MaxVersion
      BY <1>0, <1>1 DEF Publish
    <3> QED BY <3>1, <3>2 DEF Manifests
  <2>2. UpdateTypeOK' /\ Shown'
    BY <1>0, <1>1, <2>1 DEF Publish, UpdateTypeOK, Shown
  <2>3. Asked' /\ Forward' /\ (~astray' => Steady')
    BY <1>0, <1>1 DEF Publish, Asked, Forward, Steady, Onward, Up
  <2> QED BY <2>2, <2>3 DEF UpdateInv
<1>2. CASE Check
  <2>1. /\ release.version # 0 /\ running <= release.version
        /\ seen' = release.version /\ last' = release
        /\ UNCHANGED <<release, running, app, config, download, installing, faults, updateHistory>>
    BY <1>0, <1>2 DEF Check
  <2>2. /\ banner' \in Banners /\ overlay' \in {0, release.version}
        /\ banner'.shows # "nothing" => banner'.version = release.version
    <3>1. CASE release.mandatory
      <4>1. banner' = Hidden /\ overlay' = release.version
        BY <1>2, <3>1 DEF Check
      <4> QED BY <4>1, Blanks DEF Hidden
    <3>2. CASE ~release.mandatory
      <4>1. release.mandatory \in BOOLEAN /\ release.version \in 0..MaxVersion
        BY <1>0 DEF Manifests
      <4>2. Available(release) \in Banners /\ Available(release).version = release.version
        BY <4>1 DEF Available, Banners
      <4>3. banner' = Available(release) /\ overlay' = 0
        BY <1>2, <3>2 DEF Check
      <4> QED BY <4>2, <4>3
    <3> QED BY <3>1, <3>2
  <2>3. UpdateTypeOK'
    BY <1>0, <2>1, <2>2 DEF UpdateTypeOK
  <2>4. Shown'
    BY <2>1, <2>2 DEF Shown
  <2>5. Asked' /\ (~astray' => Steady')
    BY <1>0, <2>1 DEF Asked, Steady
  <2>6. Forward'
    BY <1>0, <2>1, <2>2 DEF Forward, Onward, Up
  <2> QED BY <2>3, <2>4, <2>5, <2>6 DEF UpdateInv
<1>3. CASE HideBanner
  <2>1. UpdateTypeOK'
    BY <1>0, <1>3, Blanks DEF HideBanner, UpdateTypeOK
  <2>2. Shown' /\ Asked' /\ Forward' /\ (~astray' => Steady')
    BY <1>0, <1>3 DEF HideBanner, Shown, Asked, Forward, Steady, Onward, Up, Hidden
  <2> QED BY <2>1, <2>2 DEF UpdateInv
<1>4. CASE SaveConfig
  BY <1>0, <1>4 DEF SaveConfig, UpdateInv, UpdateTypeOK, Shown, Asked, Forward, Steady,
     Onward, Up
<1>5. CASE SaveConfigKey
  <2>1. window' = disk /\ shared' \in BOOLEAN /\ ~shared' /\ astray' \in BOOLEAN /\ astray'
    BY <1>5 DEF SaveConfigKey
  <2>2. UpdateTypeOK'
    BY <1>0, <1>5, <2>1 DEF SaveConfigKey, UpdateTypeOK
  <2> QED BY <1>0, <1>5, <2>1, <2>2 DEF SaveConfigKey, UpdateInv, Shown, Asked, Forward,
     Onward, Up
<1>6. CASE DownloadFails
  <2>1. download' = 0 /\ 0 \in 0..MaxVersion /\ faults' \in 0..MaxFaults
    BY <1>0, <1>6 DEF DownloadFails, Fault
  <2>2. UpdateTypeOK'
    BY <1>0, <1>6, <2>1 DEF DownloadFails, UpdateTypeOK
  <2>3. Shown' /\ Asked' /\ (~astray' => Steady')
    BY <1>0, <1>6, <2>1 DEF DownloadFails, Shown, Asked, Steady
  <2>4. Forward'
    BY <1>0, <1>6, <2>1 DEF DownloadFails, Forward, Onward, Up
  <2> QED BY <2>2, <2>3, <2>4 DEF UpdateInv
<1>7. CASE Crash
  <2>1. download' = 0 /\ 0 \in 0..MaxVersion /\ faults' \in 0..MaxFaults /\ app' = "off"
    BY <1>0, <1>7 DEF Crash, Fault
  <2>2. UpdateTypeOK'
    BY <1>0, <1>7, <2>1 DEF Crash, UpdateTypeOK
  <2>3. Shown' /\ Asked' /\ (~astray' => Steady')
    BY <1>0, <1>7, <2>1 DEF Crash, Shown, Asked, Steady
  <2>4. Forward'
    BY <1>0, <1>7, <2>1 DEF Crash, Forward, Onward, Up
  <2> QED BY <2>2, <2>3, <2>4 DEF UpdateInv
<1> QED
  BY <1>1, <1>2, <1>3, <1>4, <1>5, <1>6, <1>7

LEMMA ClickInstallKeeps == UpdateInv /\ ClickInstall => UpdateInv'
<1> SUFFICES ASSUME UpdateInv, ClickInstall PROVE UpdateInv'
  OBVIOUS
<1> USE DEF config, display, updateHistory
<1>1. PICK v \in Versions : Offered(v) /\ InstallNow(v) /\ consent' = consent \cup {v}
  BY DEF ClickInstall
<1>2. /\ UpdateTypeOK /\ Shown /\ MaxVersion \in Nat /\ running \in 0..MaxVersion
      /\ v \in 0..MaxVersion /\ download \in 0..MaxVersion /\ download' \in {v, download}
  BY <1>1, UpdateAssumption DEF UpdateInv, UpdateTypeOK, UpdateAssumption, Versions, InstallNow
<1>3. UpdateTypeOK' /\ Shown'
  BY <1>1, <1>2 DEF ClickInstall, UpdateTypeOK, Shown
<1>4. Asked' /\ (~astray' => Steady')
  BY <1>1, <1>2 DEF ClickInstall, UpdateInv, Asked, Steady
<1>5. Forward'
  <2>1. Forward /\ Onward(v) /\ Up
    BY <1>1 DEF Offered, UpdateInv, Forward
  <2> QED BY <1>2, <2>1 DEF ClickInstall, Forward, Onward, Up
<1> QED
  BY <1>3, <1>4, <1>5 DEF UpdateInv

LEMMA FireScheduleKeeps == UpdateInv /\ FireSchedule => UpdateInv'
<1> SUFFICES ASSUME UpdateInv, FireSchedule PROVE UpdateInv'
  OBVIOUS
<1> USE DEF config, display, updateHistory
<1>1. /\ UpdateTypeOK /\ Shown /\ download = 0 /\ download' = mine.pending.version
      /\ mine.pending # NoPlan /\ download' \in 0..MaxVersion
  BY DEF FireSchedule, InstallNow, UpdateInv, UpdateTypeOK, Configs, Plans
<1>2. UpdateTypeOK' /\ Shown'
  BY <1>1 DEF FireSchedule, UpdateTypeOK, Shown
<1>3. Asked' /\ (~astray' => Steady')
  BY <1>1 DEF FireSchedule, UpdateInv, Asked, Steady
<1>4. Forward'
  <2>1. Forward /\ download' \in {0, planned} \cup revived
    BY <1>1 DEF UpdateInv, Asked
  <2> QED BY <2>1 DEF FireSchedule, Forward, Onward, Up
<1> QED
  BY <1>2, <1>3, <1>4 DEF UpdateInv

LEMMA DownloadOkKeeps == UpdateInv /\ DownloadOk => UpdateInv'
<1> SUFFICES ASSUME UpdateInv, DownloadOk PROVE UpdateInv'
  OBVIOUS
<1> USE DEF display
<1>1. /\ UpdateTypeOK /\ Shown /\ ClearPending /\ download # 0 /\ download' = 0 /\ planned' = 0
      /\ installing' \in {download, installing} /\ 0 \in 0..MaxVersion
      /\ UNCHANGED <<release, running, app, seen, last, banner, overlay, consent, revived>>
  BY UpdateAssumption DEF DownloadOk, UpdateInv, UpdateAssumption
<1>2. /\ mine'.pending = NoPlan /\ shared' = shared /\ mine' \in Configs /\ window' \in Configs
      /\ disk' \in Configs /\ (shared' => window' = mine') /\ shared' \in BOOLEAN
      /\ faults' \in 0..MaxFaults /\ astray' \in BOOLEAN /\ (astray => astray')
      /\ ~astray' /\ shared /\ disk = mine => disk' = mine'
  BY <1>1, ClearEffect
<1>3. UpdateTypeOK'
  BY <1>1, <1>2 DEF UpdateTypeOK
<1>4. Shown'
  BY <1>1 DEF Shown
<1>5. ASSUME ~astray' PROVE Steady'
  <2>1. Steady
    BY <1>2, <1>5 DEF UpdateInv
  <2> QED BY <1>1, <1>2, <1>5, <2>1 DEF Steady, NoPlan
<1>6. Asked' /\ Forward'
  <2>1. Asked /\ Forward
    BY DEF UpdateInv
  <2>2. Asked'
    BY <1>1, <1>2, <2>1 DEF Asked, NoPlan
  <2>3. Forward'
    BY <1>1, <2>1 DEF Forward, Onward, Up
  <2> QED BY <2>2, <2>3
<1> QED
  BY <1>3, <1>4, <1>5, <1>6 DEF UpdateInv

LEMMA DropStrandedKeeps == UpdateInv /\ DropStranded => UpdateInv'
<1> SUFFICES ASSUME UpdateInv, DropStranded PROVE UpdateInv'
  OBVIOUS
<1> USE DEF display
<1>1. /\ UpdateTypeOK /\ Shown /\ ClearPending /\ planned' = 0 /\ 0 \in 0..MaxVersion
      /\ UNCHANGED <<release, running, app, seen, last, banner, overlay, download,
                     installing, consent, revived>>
  BY UpdateAssumption DEF DropStranded, UpdateInv, UpdateAssumption
<1>2. /\ mine'.pending = NoPlan /\ shared' = shared /\ mine' \in Configs /\ window' \in Configs
      /\ disk' \in Configs /\ (shared' => window' = mine') /\ shared' \in BOOLEAN
      /\ faults' \in 0..MaxFaults /\ astray' \in BOOLEAN /\ (astray => astray')
      /\ ~astray' /\ shared /\ disk = mine => disk' = mine'
  BY <1>1, ClearEffect
<1>3. UpdateTypeOK'
  BY <1>1, <1>2 DEF UpdateTypeOK
<1>4. Shown'
  BY <1>1 DEF Shown
<1>5. ASSUME ~astray' PROVE Steady'
  <2>1. Steady
    BY <1>2, <1>5 DEF UpdateInv
  <2> QED BY <1>1, <1>2, <1>5, <2>1 DEF Steady, NoPlan
<1>6. Asked' /\ Forward'
  <2>1. Asked /\ Forward
    BY DEF UpdateInv
  <2>2. Asked'
    BY <1>1, <1>2, <2>1 DEF Asked, NoPlan
  <2>3. Forward'
    BY <1>1, <2>1 DEF Forward, Onward, Up
  <2> QED BY <2>2, <2>3
<1> QED
  BY <1>3, <1>4, <1>5, <1>6 DEF UpdateInv

LEMMA CancelScheduleKeeps == UpdateInv /\ CancelSchedule => UpdateInv'
<1> SUFFICES ASSUME UpdateInv, CancelSchedule PROVE UpdateInv'
  OBVIOUS
<1>1. /\ UpdateTypeOK /\ Shown /\ ClearPending /\ planned' = 0 /\ MaxVersion \in Nat /\ Up
      /\ banner' = IF last = NoManifest THEN Hidden ELSE Available(last)
      /\ consent' = consent \ CalledOff
      /\ UNCHANGED <<release, running, app, seen, last, overlay, download, installing,
                     revived>>
  BY UpdateAssumption DEF CancelSchedule, UpdateInv, UpdateAssumption
<1>2. /\ mine'.pending = NoPlan /\ shared' = shared /\ mine' \in Configs /\ window' \in Configs
      /\ disk' \in Configs /\ (shared' => window' = mine') /\ shared' \in BOOLEAN
      /\ faults' \in 0..MaxFaults /\ astray' \in BOOLEAN /\ (astray => astray')
      /\ ~astray' /\ shared /\ disk = mine => disk' = mine'
  BY <1>1, ClearEffect
<1>3. /\ last \in Manifests /\ (last # NoManifest => last.version # 0)
      /\ banner' \in Banners /\ (banner'.shows = "nothing" \/ banner'.version = last.version)
      /\ banner'.shows # "nothing" => last # NoManifest
  <2>1. last \in Manifests /\ (last # NoManifest => last.version # 0)
    BY <1>1 DEF UpdateTypeOK, Shown
  <2>2. CASE last = NoManifest
    BY <1>1, <2>1, <2>2, Blanks DEF Hidden
  <2>3. CASE last # NoManifest
    BY <1>1, <2>1, <2>3 DEF Available, Banners, Manifests
  <2> QED BY <2>1, <2>2, <2>3
<1>4. UpdateTypeOK'
  BY <1>1, <1>2, <1>3 DEF UpdateTypeOK
<1>5. Shown'
  BY <1>1, <1>3 DEF Shown
<1>6. ASSUME ~astray' PROVE Steady'
  <2>1. Steady
    BY <1>2, <1>6 DEF UpdateInv
  <2> QED BY <1>1, <1>2, <1>6, <2>1 DEF Steady, NoPlan
<1>7. Asked'
  <2>1. Asked
    BY DEF UpdateInv
  <2>2. download' \in consent' \cup revived' \cup {0}
    BY <1>1, <2>1 DEF Asked, CalledOff
  <2> QED BY <1>1, <1>2, <2>2 DEF Asked, NoPlan
<1>8. Forward'
  <2>1. Forward
    BY DEF UpdateInv
  <2>2. banner'.shows # "nothing" => Onward(banner'.version)
    BY <1>1, <1>3, <2>1 DEF Forward
  <2> QED BY <1>1, <2>1, <2>2 DEF Forward, Onward, Up
<1> QED
  BY <1>4, <1>5, <1>6, <1>7, <1>8 DEF UpdateInv

------------------------------------------------------------------------------
\* Scheduling and skipping.
LEMMA ScheduleInstallKeeps == UpdateInv /\ ScheduleInstall => UpdateInv'
<1> SUFFICES ASSUME UpdateInv, ScheduleInstall PROVE UpdateInv'
  OBVIOUS
<1>1. PICK when \in {"later", "soon"} :
        LET p == [version |-> banner.version, when |-> when]
        IN  Change([mine EXCEPT !.pending = p]) /\ banner' = Scheduled(p)
  BY DEF ScheduleInstall
<1> DEFINE p == [version |-> banner.version, when |-> when]
           c == [mine EXCEPT !.pending = p]
<1>2. /\ UpdateTypeOK /\ Shown /\ Up /\ banner.shows = "available" /\ planned' = banner.version
      /\ consent' = (consent \ CalledOff) \cup {banner.version} /\ installing = 0
      /\ UNCHANGED <<release, running, app, seen, last, overlay, download, installing,
                     revived>>
  BY DEF ScheduleInstall, UpdateInv
<1>3. banner.version \in 0..MaxVersion /\ banner.version # 0 /\ mine \in Configs
        /\ MaxVersion \in Nat /\ banner.version \in Versions
  BY <1>2, UpdateAssumption DEF UpdateTypeOK, Shown, Banners, UpdateAssumption, Versions
<1>4. p \in Plans /\ p.version = banner.version
  BY <1>3 DEF Plans, Times
<1>5. Change(c) /\ banner' = Scheduled(p)
  BY <1>1
<1>6. banner' \in Banners /\ banner'.shows = "scheduled" /\ banner'.version = banner.version
  BY <1>3, <1>4, <1>5 DEF Scheduled, Banners
<1> HIDE DEF p
<1>7. c \in Configs /\ c.pending = p
  BY <1>3, <1>4 DEF Configs
<1> HIDE DEF c
<1>8. /\ mine' = c /\ shared' = shared /\ mine' \in Configs /\ window' \in Configs
      /\ disk' \in Configs /\ (shared' => window' = mine') /\ shared' \in BOOLEAN
      /\ faults' \in 0..MaxFaults /\ astray' \in BOOLEAN /\ (astray => astray')
      /\ ~astray' /\ shared => disk' = c
  BY <1>2, <1>5, <1>7, ChangeEffect
<1>9. UpdateTypeOK'
  <2>1. consent' \subseteq Versions
    BY <1>2, <1>3 DEF UpdateTypeOK
  <2> QED BY <1>2, <1>3, <1>6, <1>8, <2>1 DEF UpdateTypeOK
<1>10. Shown'
  BY <1>2, <1>6 DEF Shown
<1>11. mine'.pending.version = planned'
  BY <1>2, <1>4, <1>7, <1>8
<1>12. ASSUME ~astray' PROVE Steady'
  <2>1. Steady
    BY <1>8, <1>12 DEF UpdateInv
  <2> QED BY <1>2, <1>8, <1>11, <1>12, <2>1 DEF Steady
<1>13. Asked'
  <2>1. Asked
    BY DEF UpdateInv
  <2>2. download' \in consent' \cup revived' \cup {0}
    BY <1>2, <2>1 DEF Asked, CalledOff
  <2> QED BY <1>2, <1>11, <2>2 DEF Asked
<1>14. Forward'
  <2>1. Forward
    BY DEF UpdateInv
  <2>2. Onward(planned')
    BY <1>2, <2>1 DEF Forward
  <2> QED BY <1>2, <1>6, <2>1, <2>2 DEF Forward, Onward, Up
<1> QED
  BY <1>9, <1>10, <1>12, <1>13, <1>14 DEF UpdateInv

LEMMA DismissVersionKeeps == UpdateInv /\ DismissVersion => UpdateInv'
<1> SUFFICES ASSUME UpdateInv, DismissVersion PROVE UpdateInv'
  OBVIOUS
<1> DEFINE c == [mine EXCEPT !.skip = banner.version]
<1>1. /\ UpdateTypeOK /\ Shown /\ banner' = Hidden /\ MaxVersion \in Nat
      /\ UNCHANGED <<release, running, app, last, overlay, download, installing,
                     planned, consent, revived>>
  BY UpdateAssumption DEF DismissVersion, UpdateInv, UpdateAssumption
<1>2. \/ UNCHANGED <<config, faults, astray, seen>>
      \/ Change(c) /\ seen' = banner.version
  BY DEF DismissVersion
<1>3. /\ c \in Configs /\ c.pending = mine.pending /\ banner.version \in 0..MaxVersion
      /\ banner' \in Banners /\ banner'.shows = "nothing"
  BY <1>1, Blanks DEF UpdateTypeOK, Configs, Banners, Hidden
<1> HIDE DEF c
<1>4. /\ mine'.pending = mine.pending /\ shared' = shared /\ mine' \in Configs
      /\ window' \in Configs /\ disk' \in Configs /\ (shared' => window' = mine')
      /\ shared' \in BOOLEAN /\ faults' \in 0..MaxFaults /\ astray' \in BOOLEAN
      /\ (astray => astray') /\ seen' \in 0..MaxVersion
      /\ ~astray' /\ shared /\ disk = mine => disk' = mine'
  <2>1. CASE UNCHANGED <<config, faults, astray, seen>>
    BY <1>1, <2>1 DEF UpdateTypeOK, config
  <2>2. CASE Change(c) /\ seen' = banner.version
    BY <1>1, <1>3, <2>2, ChangeEffect
  <2> QED BY <1>2, <2>1, <2>2
<1>5. UpdateTypeOK'
  BY <1>1, <1>3, <1>4 DEF UpdateTypeOK
<1>6. Shown'
  BY <1>1, <1>3 DEF Shown
<1>7. ASSUME ~astray' PROVE Steady'
  <2>1. Steady
    BY <1>4, <1>7 DEF UpdateInv
  <2> QED BY <1>1, <1>4, <1>7, <2>1 DEF Steady
<1>8. Asked' /\ Forward'
  <2>1. Asked /\ Forward
    BY DEF UpdateInv
  <2>2. Asked'
    BY <1>1, <1>4, <2>1 DEF Asked
  <2>3. Forward'
    BY <1>1, <1>3, <2>1 DEF Forward, Onward, Up
  <2> QED BY <2>2, <2>3
<1> QED
  BY <1>5, <1>6, <1>7, <1>8 DEF UpdateInv

LEMMA TimePassesKeeps == UpdateInv /\ TimePasses => UpdateInv'
<1> SUFFICES ASSUME UpdateInv, TimePasses PROVE UpdateInv'
  OBVIOUS
<1> USE DEF display, updateHistory
<1>1. /\ UpdateTypeOK /\ Shown /\ mine' = Later(mine) /\ window' = Later(window)
      /\ disk' = Later(disk) /\ mine \in Configs /\ window \in Configs /\ disk \in Configs
      /\ UNCHANGED <<release, running, app, shared, seen, last, display, download,
                     installing, faults, updateHistory>>
  BY DEF TimePasses, UpdateInv, UpdateTypeOK
<1>2. /\ mine' \in Configs /\ window' \in Configs /\ disk' \in Configs
      /\ mine'.pending.version = mine.pending.version
      /\ mine.pending = NoPlan => mine'.pending = NoPlan
  BY <1>1, LaterEffect
<1>3. (shared' => window' = mine') /\ (disk = mine => disk' = mine')
  BY <1>1 DEF UpdateTypeOK
<1>4. UpdateTypeOK'
  BY <1>1, <1>2, <1>3 DEF UpdateTypeOK
<1>5. Shown'
  BY <1>1 DEF Shown
<1>6. ASSUME ~astray' PROVE Steady'
  <2>1. Steady
    BY <1>1, <1>6 DEF UpdateInv
  <2> QED BY <1>1, <1>2, <1>3, <2>1 DEF Steady
<1>7. Asked' /\ Forward'
  BY <1>1, <1>2 DEF UpdateInv, Asked, Forward, Onward, Up
<1> QED
  BY <1>4, <1>5, <1>6, <1>7 DEF UpdateInv

------------------------------------------------------------------------------
\* The process.
LEMMA StartKeeps == UpdateInv /\ StartProgram => UpdateInv'
<1> SUFFICES ASSUME UpdateInv, StartProgram PROVE UpdateInv'
  OBVIOUS
<1>1. /\ UpdateTypeOK /\ Asked /\ Forward /\ app = "off" /\ app' = "starting" /\ mine' = disk
      /\ window' = disk /\ shared' \in BOOLEAN
      /\ shared' /\ disk' = disk /\ seen' = 0 /\ last' = NoManifest /\ banner' = Hidden
      /\ overlay' = 0 /\ MaxVersion \in Nat
      /\ revived' = revived \cup ({disk.pending.version} \ {0, mine.pending.version})
      /\ UNCHANGED <<release, running, download, installing, faults, planned, consent, astray>>
  BY UpdateAssumption DEF StartProgram, UpdateInv, UpdateAssumption
<1>2. UpdateTypeOK'
  <2>1. disk.pending.version \in 0..MaxVersion
    BY <1>1 DEF UpdateTypeOK, Configs, Plans
  <2>2. revived' \subseteq Versions
    <3>1. disk.pending.version # 0 => disk.pending.version \in Versions
      BY <1>1, <2>1 DEF Versions
    <3>2. revived \subseteq Versions
      BY <1>1 DEF UpdateTypeOK
    <3> QED BY <1>1, <3>1, <3>2
  <2>3. /\ mine' \in Configs /\ window' \in Configs /\ disk' \in Configs
        /\ window' = mine' /\ shared' \in BOOLEAN
        /\ last' \in Manifests /\ banner' \in Banners
        /\ app' \in {"off", "starting", "on"} /\ 0 \in 0..MaxVersion
    BY <1>1, Blanks DEF UpdateTypeOK
  <2>4. /\ UpdateTypeOK /\ seen' = 0 /\ overlay' = 0
        /\ UNCHANGED <<release, running, download, installing, faults, planned, consent, astray>>
    BY <1>1
  <2> QED BY <2>2, <2>3, <2>4 DEF UpdateTypeOK
<1>3. Shown'
  BY <1>1 DEF Shown, Hidden
<1>4. ASSUME ~astray' PROVE Steady'
  BY <1>1, <1>4 DEF UpdateInv, Steady
<1>5. Asked'
  BY <1>1 DEF Asked
<1>6. Forward'
  <2>1. last'.version = 0 /\ banner'.shows = "nothing"
    BY <1>1 DEF NoManifest, Hidden
  <2> QED BY <1>1, <2>1 DEF Forward, Onward, Up
<1> QED
  BY <1>2, <1>3, <1>4, <1>5, <1>6 DEF UpdateInv

LEMMA EmitExistingScheduleKeeps == UpdateInv /\ EmitExistingSchedule => UpdateInv'
<1> SUFFICES ASSUME UpdateInv, EmitExistingSchedule PROVE UpdateInv'
  OBVIOUS
<1> USE DEF config, updateHistory
<1>1. /\ UpdateTypeOK /\ Shown /\ Up /\ app' = "on"
      /\ banner' = IF mine.pending = NoPlan THEN banner ELSE Scheduled(mine.pending)
      /\ UNCHANGED <<release, running, config, seen, last, overlay, download, installing,
                     faults, updateHistory>>
  BY DEF EmitExistingSchedule, UpdateInv, Up
<1>2. mine.pending \in Plans /\ mine.pending.version \in 0..MaxVersion
  BY <1>1 DEF UpdateTypeOK, Configs, Plans
<1>3. /\ Scheduled(mine.pending) \in Banners /\ Scheduled(mine.pending).shows = "scheduled"
      /\ Scheduled(mine.pending).version = mine.pending.version
  BY <1>2 DEF Scheduled, Banners
<1>4. UpdateTypeOK'
  BY <1>1, <1>3 DEF UpdateTypeOK
<1>5. Shown'
  BY <1>1, <1>3 DEF Shown
<1>6. Asked' /\ (~astray' => Steady')
  BY <1>1 DEF UpdateInv, Asked, Steady
<1>7. Forward'
  <2>1. Asked /\ Forward
    BY DEF UpdateInv
  <2>2. Onward(mine.pending.version)
    BY <2>1 DEF Asked, Forward, Onward
  <2>3. banner'.shows # "nothing" => Onward(banner'.version)
    BY <1>1, <1>3, <2>1, <2>2 DEF Forward
  <2> QED BY <1>1, <2>1, <2>3 DEF Forward, Onward, Up
<1> QED
  BY <1>4, <1>5, <1>6, <1>7 DEF UpdateInv

LEMMA CloseKeeps == UpdateInv /\ Close => UpdateInv'
<1> SUFFICES ASSUME UpdateInv, Close PROVE UpdateInv'
  OBVIOUS
<1> USE DEF display
<1> DEFINE v == IF download = 0 /\ Imminent THEN mine.pending.version ELSE download
           c == [mine EXCEPT !.pending = NoPlan]
<1>1. /\ UpdateTypeOK /\ Shown /\ app' = "off" /\ download' = 0 /\ disk' = window' /\ ~Up'
      /\ MaxVersion \in Nat
      /\ UNCHANGED <<release, running, shared, seen, last, display, faults, consent, astray,
                     revived>>
  BY UpdateAssumption DEF Close, UpdateInv, UpdateAssumption, Up
<1>2. \/ UNCHANGED <<mine, window, installing, planned>>
      \/ /\ v # 0 /\ installing' = v /\ planned' = 0
         /\ mine' = c /\ window' = IF shared THEN mine' ELSE window
  BY DEF Close
<1>3. mine \in Configs /\ mine.pending.version \in 0..MaxVersion /\ v \in 0..MaxVersion
  BY <1>1 DEF UpdateTypeOK, Configs, Plans
<1>4. c \in Configs /\ c.pending = NoPlan
  BY <1>3, Blanks DEF Configs
<1> HIDE DEF c
<1>7. Asked /\ Forward /\ Up
  BY DEF UpdateInv, Close
<1>8. Onward(v) /\ v \in consent \cup revived \cup {0}
  BY <1>7 DEF Asked, Forward, Onward
<1> HIDE DEF v
<1>5. CASE UNCHANGED <<mine, window, installing, planned>>
  <2>1. UpdateTypeOK' /\ Shown'
    BY <1>1, <1>5 DEF UpdateTypeOK, Shown
  <2>2. ~astray' => Steady'
    <3> SUFFICES ASSUME ~astray' PROVE Steady'
      OBVIOUS
    <3>1. Steady /\ window = mine
      BY <1>1 DEF UpdateInv, Steady, UpdateTypeOK
    <3> QED BY <1>1, <1>5, <3>1 DEF Steady
  <2>3. Asked' /\ Forward'
    BY <1>1, <1>7, <1>5 DEF Asked, Forward, Onward
  <2> QED BY <2>1, <2>2, <2>3 DEF UpdateInv
<1>6. CASE /\ v # 0 /\ installing' = v /\ planned' = 0
           /\ mine' = c /\ window' = IF shared THEN mine' ELSE window
  <2>1. UpdateTypeOK' /\ Shown'
    BY <1>1, <1>3, <1>4, <1>6 DEF UpdateTypeOK, Shown
  <2>2. ~astray' => Steady'
    <3> SUFFICES ASSUME ~astray' PROVE Steady'
      OBVIOUS
    <3>1. Steady
      BY <1>1 DEF UpdateInv
    <3> QED BY <1>1, <1>4, <1>6, <3>1 DEF Steady, NoPlan
  <2>3. Asked'
    BY <1>1, <1>4, <1>6 DEF Asked, NoPlan
  <2>4. Forward'
    BY <1>1, <1>7, <1>8, <1>6 DEF Forward, Onward
  <2> QED BY <2>1, <2>2, <2>3, <2>4 DEF UpdateInv
<1> QED
  BY <1>2, <1>5, <1>6

LEMMA InstallerRunsKeeps == UpdateInv /\ InstallerRuns => UpdateInv'
<1> SUFFICES ASSUME UpdateInv, InstallerRuns PROVE UpdateInv'
  OBVIOUS
<1> USE DEF display, updateHistory
<1>1. /\ UpdateTypeOK /\ Shown /\ installing # 0 /\ running' = installing /\ installing' = 0
      /\ disk' \in {window, disk} /\ app' = "off" /\ ~Up' /\ download' = 0
      /\ MaxVersion \in Nat
      /\ UNCHANGED <<release, mine, window, shared, seen, last, display, faults, updateHistory>>
  BY UpdateAssumption DEF InstallerRuns, UpdateInv, UpdateAssumption, Up
<1>2. UpdateTypeOK' /\ Shown'
  BY <1>1 DEF UpdateTypeOK, Shown
<1>3. ASSUME ~astray' PROVE Steady'
  <2>1. Steady /\ window = mine
    BY <1>1, <1>3 DEF UpdateInv, Steady, UpdateTypeOK
  <2> QED BY <1>1, <2>1 DEF Steady
<1>4. Asked' /\ Forward'
  <2>1. Asked /\ Forward /\ planned = 0
    BY <1>1 DEF UpdateInv, Forward
  <2> QED BY <1>1, <2>1 DEF Asked, Forward, Onward
<1> QED
  BY <1>2, <1>3, <1>4 DEF UpdateInv

LEMMA UpdateStepKeeps == UpdateInv /\ [UpdateNext]_updateVars => UpdateInv'
<1> SUFFICES ASSUME UpdateInv, [UpdateNext]_updateVars PROVE UpdateInv'
  OBVIOUS
<1>1. CASE UNCHANGED updateVars
  BY <1>1 DEF updateVars, config, display, updateHistory, UpdateInv, UpdateTypeOK, Shown,
     Asked, Forward, Steady, Onward, Up
<1>2. CASE UpdateNext
  BY <1>2, FindKeeps, ClickInstallKeeps, FireScheduleKeeps, DownloadOkKeeps, DropStrandedKeeps,
     CancelScheduleKeeps, ScheduleInstallKeeps, DismissVersionKeeps, TimePassesKeeps, StartKeeps,
     EmitExistingScheduleKeeps, CloseKeeps, InstallerRunsKeeps DEF UpdateNext
<1> QED
  BY <1>1, <1>2

\* The invariant holds through every signal, timer, save, crash and restart.
THEOREM UpdateInvariant == UpdateSpec => []UpdateInv
<1> QED BY UpdateInitInv, UpdateStepKeeps, PTL DEF UpdateSpec

\* ScheduleInForce: what the timer will install is what the user scheduled last and has
\* not called off, across restarts, unless a save failed or the dicts have parted.
THEOREM ScheduleInForceHolds == UpdateSpec => []ScheduleInForce
<1>1. UpdateInv => ScheduleInForce
  BY DEF UpdateInv, Steady, ScheduleInForce
<1> QED BY <1>1, UpdateInvariant, PTL

\* Only these steps launch an installer, and only one runs it.
LEMMA Launches ==
    UpdateNext /\ installing' \notin {0, installing} => DownloadOk \/ Close
  BY DEF UpdateNext, SaveConfigKey, SaveConfig, Publish, Check, ClickInstall, DownloadFails,
     InstallerRuns, ScheduleInstall, CancelSchedule, DismissVersion, HideBanner, DropStranded,
     FireSchedule, TimePasses, StartProgram, EmitExistingSchedule, Crash

LEMMA Replaces == UpdateNext /\ running' # running => InstallerRuns
  BY DEF UpdateNext, SaveConfigKey, SaveConfig, Publish, Check, ClickInstall, DownloadFails,
     DownloadOk, Close, ScheduleInstall, CancelSchedule, DismissVersion, HideBanner,
     DropStranded, FireSchedule, TimePasses, StartProgram, EmitExistingSchedule, Crash

\* Consented: an installer is launched only for a version the user asked for and has not
\* called off, or whose schedule a restart has brought back; whatever fails, and whether
\* or not the dicts have parted.
THEOREM ConsentedHolds == UpdateSpec => Consented
<1>1. ASSUME UpdateInv, [UpdateNext]_updateVars, installing' \notin {0, installing}
      PROVE  installing' \in consent' \cup revived
  <2>1. Asked /\ (DownloadOk \/ Close)
    BY <1>1, Launches DEF UpdateInv, updateVars
  <2>2. CASE DownloadOk
    BY <1>1, <2>1, <2>2 DEF DownloadOk, Asked
  <2>3. CASE Close
    <3>1. /\ consent' = consent
          /\ installing' \in {mine.pending.version, download}
      BY <1>1, <2>3 DEF Close
    <3>2. {mine.pending.version, download} \subseteq consent \cup revived \cup {0}
      BY <2>1 DEF Asked
    <3> QED BY <1>1, <3>1, <3>2
  <2> QED BY <2>1, <2>2, <2>3
<1> QED BY <1>1, UpdateInvariant, PTL DEF Consented, UpdateSpec

\* NoDowngrade: no schedule or download is left over that is older than the program
\* that would run it, but for a schedule a restart has brought back.
THEOREM NoDowngradeHolds == UpdateSpec => NoDowngrade
<1>1. ASSUME UpdateInv, [UpdateNext]_updateVars, running' < running
      PROVE  running' \in revived
  <2>1. UpdateTypeOK /\ Forward
    BY <1>1 DEF UpdateInv
  <2>2. running \in Nat /\ installing \in Nat
    BY <2>1, UpdateAssumption DEF UpdateTypeOK, UpdateAssumption
  <2>3. InstallerRuns
    BY <1>1, <2>2, Replaces DEF updateVars
  <2> QED BY <1>1, <2>1, <2>2, <2>3 DEF InstallerRuns, Forward, Onward
<1> QED BY <1>1, UpdateInvariant, PTL DEF NoDowngrade, UpdateSpec

===============================================================================
