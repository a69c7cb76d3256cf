------------------------------ MODULE SessionSlot ------------------------------
(***************************************************************************)
(* One running terminal per account: the row of `licenses' that names the  *)
(* active device (server/app.py), the terminals that claim it and post a   *)
(* heartbeat each second (desktop/session_manager.py, desktop/main.py) and *)
(* the network between them.  A device is one launch: it has an identity   *)
(* of its own and is never launched twice.  A post blocks its terminal; a  *)
(* post given up leaves its request behind, and the server may still obey. *)
(* The heartbeat starts while the start-up dialogs are open; who listens   *)
(* when it is told off is the main window, once there is one, and the      *)
(* window closes when its user has answered a dialog.                      *)
(***************************************************************************)
EXTENDS Naturals, FiniteSets

CONSTANTS Devices, None,
          DeadAfter,  \* SESSION_DEAD_AFTER_SECONDS
          Timeout,    \* REQUEST_TIMEOUT_SECONDS
          Prompt,     \* an answer that takes longer is counted as trouble
          MaxFaults   \* bound: packets lost, posts refused, posts answered too late

ASSUME SessionAssumption ==
    /\ None \notin Devices
    /\ DeadAfter \in Nat /\ Timeout \in Nat /\ Prompt \in Nat
    /\ MaxFaults \in Nat
    /\ 2 * Prompt + 1 < DeadAfter

VARIABLES
    slot,     \* active_device_id
    age,      \* seconds since last_heartbeat, up to DeadAfter
    pc,       \* what the terminal does
    window,   \* its MainWindow exists, session_taken_over is connected
    wait,     \* seconds its post has been under way
    net,      \* requests and answers under way
    faults,   \* faults so far
    trouble   \* history: posts of the device that failed or dragged on, up to 2

vars == <<slot, age, pc, window, wait, net, faults, trouble>>

\* `idle' and `due' are the two halves of the heartbeat timer's second.  Told off,
\* a terminal stops its timer and shows a dialog, or, without a window, nobody
\* hears of it; its agents run on either way.
Posting == {"register", "takeover", "heartbeat"}
Beating == {"idle", "due", "heartbeat"}
Told == {"taken over", "expired"}
Running == Beating \cup Told \cup {"deaf"}
Gone == {"out", "evicted"}
Places == {"off", "prompt"} \cup Posting \cup Running \cup Gone

Asked == {"sent", "checked"}
Answers == {"ok", "conflict", "denied"}
Messages == [dev : Devices, op : Posting, at : Asked \cup Answers, open : BOOLEAN]

Init ==
    /\ slot = None /\ age = DeadAfter
    /\ pc = [d \in Devices |-> "off"]
    /\ window = [d \in Devices |-> FALSE]
    /\ wait = [d \in Devices |-> 0]
    /\ net = {} /\ faults = 0
    /\ trouble = [d \in Devices |-> 0]

------------------------------------------------------------------------------
\* The server.

Alive == slot # None /\ age < DeadAfter

\* An answer nobody waits for is dropped with its connection.
Answer(r, a) ==
    net' = (net \ {r}) \cup (IF r.open THEN {[r EXCEPT !.at = a]} ELSE {})

\* _claim_session_slot, and a mutant that leaves last_heartbeat alone.
ClaimStale(d) == slot' = d /\ age' = age
Claim(d) == slot' = d /\ age' = 0

\* register reads the row ...
SessionRegister(r) ==
    /\ r.op = "register" /\ r.at = "sent"
    /\ IF slot # r.dev /\ Alive THEN Answer(r, "conflict")
       ELSE net' = (net \ {r}) \cup {[r EXCEPT !.at = "checked"]}
    /\ UNCHANGED <<slot, age>>

\* ... and claims the slot in a later statement, without looking again.
ClaimSessionSlot(r) ==
    /\ r.op = "register" /\ r.at = "checked"
    /\ Claim(r.dev)
    /\ Answer(r, "ok")

SessionForceTakeover(r) ==
    /\ r.op = "takeover" /\ r.at = "sent"
    /\ Claim(r.dev)
    /\ Answer(r, "ok")

\* A mutant: the heartbeat's UPDATE does not ask for the device.
HeartbeatAnyone(r) ==
    /\ r.op = "heartbeat" /\ r.at = "sent"
    /\ age' = 0 /\ Answer(r, "ok")
    /\ slot' = slot

SessionHeartbeat(r) ==
    /\ r.op = "heartbeat" /\ r.at = "sent"
    /\ IF slot = r.dev THEN age' = 0 /\ Answer(r, "ok")
                       ELSE age' = age /\ Answer(r, "conflict")
    /\ slot' = slot

Serve(r) ==
    /\ \/ SessionRegister(r) \/ ClaimSessionSlot(r)
       \/ SessionForceTakeover(r) \/ SessionHeartbeat(r)
    /\ UNCHANGED <<pc, window, wait, faults, trouble>>

\* require_auth refuses the token: 401.
RequireAuth(r) ==
    /\ r.at = "sent"
    /\ Answer(r, "denied")
    /\ UNCHANGED <<slot, age, pc, window, wait, faults, trouble>>

------------------------------------------------------------------------------
\* The terminals.

Post(d, op) ==
    /\ pc' = [pc EXCEPT ![d] = op]
    /\ wait' = [wait EXCEPT ![d] = 0]
    /\ net' = net \cup {[dev |-> d, op |-> op, at |-> "sent", open |-> TRUE]}
    /\ UNCHANGED <<slot, age, faults, trouble>>

Become(d, place) ==
    /\ pc' = [pc EXCEPT ![d] = place]
    /\ wait' = [wait EXCEPT ![d] = 0]

\* At start-up, or after a sign-in in a window that was open already.
Launch(d) ==
    /\ pc[d] = "off" /\ Post(d, "register")
    /\ \E open \in BOOLEAN : window' = [window EXCEPT ![d] = open]

\* The start-up dialogs have been answered.
OpenWindow(d) ==
    /\ ~window[d] /\ pc[d] \in {"idle", "due", "deaf"}
    /\ window' = [window EXCEPT ![d] = TRUE]
    /\ UNCHANGED <<slot, age, pc, wait, net, faults, trouble>>

\* _on_tick
Beat(d) == pc[d] = "due" /\ Post(d, "heartbeat") /\ UNCHANGED window

\* The user answers "blank is running on another device".
TakeOver(d) == pc[d] = "prompt" /\ Post(d, "takeover") /\ UNCHANGED window
Cancel(d) ==
    /\ pc[d] = "prompt"
    /\ Become(d, "out")
    /\ UNCHANGED <<slot, age, window, net, faults, trouble>>

\* What a terminal does with an answer to register or force-takeover.
AfterClaim(a) ==
    CASE a = "ok" -> "idle" [] a = "denied" -> "out" [] OTHER -> "prompt"

\* ... and to a heartbeat, and a mutant that tolerates a 409.
ToldOff(a) == IF a = "conflict" THEN "taken over" ELSE "expired"

Forgiving(a, open) ==
    IF a # "denied" THEN "idle" ELSE IF open THEN ToldOff(a) ELSE "deaf"

AfterHeartbeat(a, open) ==
    IF a = "ok" THEN "idle" ELSE IF open THEN ToldOff(a) ELSE "deaf"

AfterAnswer(op, a, open) ==
    IF op = "heartbeat" THEN AfterHeartbeat(a, open) ELSE AfterClaim(a)

Receive(r) ==
    /\ r.at \in Answers
    /\ net' = net \ {r}
    /\ Become(r.dev, AfterAnswer(r.op, r.at, window[r.dev]))
    /\ UNCHANGED <<slot, age, window, faults, trouble>>

\* The user answers "Your session was taken over"; only then the window closes.
Acknowledge(d) ==
    /\ pc[d] \in Told
    /\ Become(d, IF pc[d] = "taken over" THEN "evicted" ELSE "out")
    /\ UNCHANGED <<slot, age, window, net, faults, trouble>>

\* ... and with none: the heartbeat goes on, a failed takeover signs out, and a
\* launch that could not register starts its heartbeat all the same.
AfterFailure(op) == IF op = "takeover" THEN "out" ELSE "idle"

Saturate(t) == IF t < 2 THEN t + 1 ELSE t

Worry(d) == trouble' = [trouble EXCEPT ![d] = Saturate(@)]

\* The request of a post given up is still on its way to the server, or in it.
GiveUp(d) ==
    net' = {r \in net : r.dev # d \/ ~r.open}
            \cup {[r EXCEPT !.open = FALSE] :
                    r \in {q \in net : q.dev = d /\ q.at \in Asked}}

\* Its message was lost, or the server or the network is too slow for it.
UnderWay(d) == \E r \in net : r.dev = d /\ r.open

TimedOut(d) ==
    /\ pc[d] \in Posting /\ wait[d] >= Timeout
    /\ IF UnderWay(d) THEN faults < MaxFaults /\ faults' = faults + 1
                      ELSE faults' = faults
    /\ Become(d, AfterFailure(pc[d]))
    /\ GiveUp(d)
    /\ IF wait[d] > Prompt THEN trouble' = trouble ELSE Worry(d)
    /\ UNCHANGED <<slot, age, window>>

\* The connection is refused or reset, or the server answers 5xx.
PostFails(d) ==
    /\ pc[d] \in Posting /\ wait[d] < Timeout /\ faults < MaxFaults
    /\ faults' = faults + 1
    /\ Become(d, AfterFailure(pc[d]))
    /\ GiveUp(d)
    /\ IF wait[d] > Prompt THEN trouble' = trouble ELSE Worry(d)
    /\ UNCHANGED <<slot, age, window>>

\* The user closes the window or signs out, or the process dies: the server is
\* told nothing.
Quit(d) ==
    /\ pc[d] \notin {"off"} \cup Gone
    /\ Become(d, "out")
    /\ GiveUp(d)
    /\ UNCHANGED <<slot, age, window, faults, trouble>>

------------------------------------------------------------------------------
\* A request or an answer is lost; the terminal waits for it until its timeout.
Lose(r) ==
    /\ faults < MaxFaults
    /\ faults' = faults + 1
    /\ net' = net \ {r}
    /\ UNCHANGED <<slot, age, pc, window, wait, trouble>>

Older == IF age < DeadAfter THEN age + 1 ELSE age

\* A second passes.  The timer has fired in each running terminal before the
\* next one, and a post does not outlive its timeout.
Tick ==
    /\ \A d \in Devices : pc[d] # "due" /\ (pc[d] \in Posting => wait[d] < Timeout)
    /\ age' = Older
    /\ pc' = [d \in Devices |-> IF pc[d] = "idle" THEN "due" ELSE pc[d]]
    /\ wait' = [d \in Devices |-> IF pc[d] \in Posting THEN wait[d] + 1 ELSE 0]
    /\ trouble' = [d \in Devices |->
                     IF pc[d] \in Posting /\ wait[d] = Prompt
                     THEN Saturate(trouble[d]) ELSE trouble[d]]
    /\ UNCHANGED <<slot, window, net, faults>>

Next ==
    \/ Tick
    \/ \E d \in Devices : \/ Launch(d) \/ OpenWindow(d) \/ Beat(d) \/ TakeOver(d)
                          \/ Cancel(d) \/ Acknowledge(d)
                          \/ TimedOut(d) \/ PostFails(d) \/ Quit(d)
    \/ \E r \in net : Serve(r) \/ RequireAuth(r) \/ Receive(r) \/ Lose(r)

\* The clock, the heartbeat timer, the timeout, the network and the server go
\* on.  Nothing is asked of the users.
Fairness ==
    /\ WF_vars(Tick)
    /\ \A d \in Devices :
        /\ WF_vars(Beat(d)) /\ WF_vars(TimedOut(d))
        /\ WF_vars(\E r \in net : r.dev = d /\ (Serve(r) \/ Receive(r)))

Spec == Init /\ [][Next]_vars /\ Fairness

------------------------------------------------------------------------------
TypeOK ==
    /\ slot \in Devices \cup {None} /\ age \in 0..DeadAfter
    /\ pc \in [Devices -> Places] /\ window \in [Devices -> BOOLEAN]
    /\ wait \in [Devices -> Nat]
    /\ net \subseteq Messages /\ faults \in 0..MaxFaults
    /\ trouble \in [Devices -> 0..2]

\* A terminal whose posts have all been answered promptly is never taken for
\* dead: while it beats and holds the slot, no other device can register.
Healthy ==
    \A d \in Devices :
        slot = d /\ pc[d] \in Beating /\ trouble[d] = 0 => Alive

Pairs == {P \in SUBSET Devices : Cardinality(P) = 2}

ToldOrGone(d) == pc[d] \in Told \cup Gone

\* One terminal per account: two that beat at the same time, after a race of two
\* registrations, a takeover or a lost answer, do not both go on.  If both have
\* their window, one of them is closed or shows its user the dialog that closes
\* it; if not, its 409 may also have come before there was a window to hear it.
OneTerminal ==
    \A P \in Pairs :
        /\ (\A d \in P : pc[d] \in Beating)
              ~> \E d \in P : ToldOrGone(d) \/ pc[d] = "deaf"
        /\ (\A d \in P : pc[d] \in Beating /\ window[d])
              ~> \E d \in P : ToldOrGone(d)

\* "Only one blank terminal can run at a time per account": two that run do not
\* both run for ever, whatever their users do.
OnlyOneRuns ==
    \A P \in Pairs :
        (\A d \in P : pc[d] \in Running) ~> \E d \in P : pc[d] \notin Running

\* "so a crashed/closed terminal doesn't lock the user out forever": a slot held
\* by a terminal that beats no more comes to be free, whatever its late requests do.
NoLockout ==
    \A d \in Devices :
        slot = d /\ (ToldOrGone(d) \/ pc[d] = "deaf") ~> slot # d \/ ~Alive

\* "a single dropped packet shouldn't evict us": a registration that passes over
\* a running holder whose heartbeat was lost finds trouble with two of its posts.
DropTolerated ==
    [][\A r \in net :
        r.op = "register" /\ r.at = "sent" /\ [r EXCEPT !.at = "checked"] \in net'
            => \A d \in Devices :
                (/\ slot = d /\ d # r.dev
                 /\ pc[d] = "heartbeat" /\ ~UnderWay(d) /\ wait[d] > Prompt)
                    => trouble[d] = 2]_vars

\* A terminal told that it was taken over has been taken over: another device
\* has claimed the slot, "the user has already moved to the other device".
EvictedForAnother ==
    [][\A d \in Devices :
        pc[d] # "taken over" /\ pc'[d] = "taken over" => slot \notin {None, d}]_vars
================================================================================
