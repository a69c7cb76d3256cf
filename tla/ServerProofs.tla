--------------------------- MODULE ServerProofs -------------------------------
(***************************************************************************)
(* Proofs about two parts of the server: the slot a terminal holds         *)
(* (SessionSlot) and the accounts and their licences (SignUp).  The two    *)
(* have no state in common.                                                *)
(***************************************************************************)
EXTENDS SessionSlot, SignUp, SequenceTheorems, TLAPS

------------------------------------------------------------------------------
(***************************************************************************)
(* SessionSlot: a terminal that is answered promptly keeps its slot, for   *)
(* any number of terminals and any timeout that leaves room for two prompt *)
(* answers and one beat of the timer.                                      *)
(***************************************************************************)

\* The requests and answers somebody waits for: one for each post under way.
Posts ==
    /\ \A r \in net : r.at \in Answers => r.open
    /\ \A r \in net : r.open => pc[r.dev] \in Posting /\ r.op = pc[r.dev]
    /\ \A r, q \in net : r.open /\ q.open /\ r.dev = q.dev => r = q

\* A post that drags on is trouble.
Counted == \A d \in Devices : pc[d] \in Posting /\ wait[d] > Prompt => trouble[d] # 0

\* How old the heartbeat of a holder without trouble can be, at each of its places.
Fresh(d) ==
    /\ pc[d] = "idle" => age <= Prompt
    /\ pc[d] = "due" => age <= Prompt + 1
    /\ pc[d] = "heartbeat" => age <= Prompt + 1 + wait[d]
    /\ \A r \in net : r.dev = d /\ r.at = "ok" => age <= wait[d]

HoldersFresh == \A d \in Devices : slot = d /\ trouble[d] = 0 => Fresh(d)

IInv == TypeOK /\ Posts /\ Counted /\ HoldersFresh

------------------------------------------------------------------------------
\* What the server does with a request: it goes, or its successor stays, open as it
\* was; an "ok" comes with a heartbeat of this moment.
Handled(r, M) ==
    /\ net' = (net \ {r}) \cup M
    /\ M \subseteq Messages
    /\ \A q \in M : /\ q.dev = r.dev /\ q.op = r.op /\ q.open = r.open
                    /\ q.at \in Answers => q.open
                    /\ q.at = "ok" => slot' = r.dev /\ age' = 0
    /\ \A p, q \in M : p = q
    /\ slot' \in Devices \cup {None}
    /\ age' = 0 \/ (slot' = slot /\ age' = age)

LEMMA AnswerHandles ==
    ASSUME TypeOK, NEW r \in net, NEW a \in Answers, Answer(r, a),
           slot' \in Devices \cup {None}, age' = 0 \/ (slot' = slot /\ age' = age),
           a = "ok" => slot' = r.dev /\ age' = 0
    PROVE  \E M : Handled(r, M)
<1> DEFINE q == [r EXCEPT !.at = a]
           M == IF r.open THEN {q} ELSE {}
<1>1. r \in Messages
  BY DEF TypeOK
<1>2. q \in Messages /\ q.dev = r.dev /\ q.op = r.op /\ q.open = r.open /\ q.at = a
  BY <1>1 DEF Messages
<1>3. net' = (net \ {r}) \cup M
  BY DEF Answer
<1> HIDE DEF q
<1>4. Handled(r, M)
  BY <1>2, <1>3 DEF Handled
<1> QED BY <1>4

LEMMA ServeHandles ==
    ASSUME TypeOK, NEW r \in net, Serve(r) \/ RequireAuth(r)
    PROVE  (\E M : Handled(r, M)) /\ UNCHANGED <<pc, wait, trouble, faults>>
<1>0. r \in Messages /\ slot \in Devices \cup {None} /\ r.dev \in Devices
  BY DEF TypeOK, Messages
<1>1. ASSUME SessionRegister(r) /\ (slot # r.dev /\ Alive) PROVE \E M : Handled(r, M)
  BY <1>0, <1>1, AnswerHandles DEF SessionRegister, Answers
<1>2. ASSUME SessionRegister(r) /\ ~(slot # r.dev /\ Alive) PROVE \E M : Handled(r, M)
  <2> DEFINE q == [r EXCEPT !.at = "checked"]
  <2>1. q \in Messages /\ q.dev = r.dev /\ q.op = r.op /\ q.open = r.open /\ q.at = "checked"
    BY <1>0 DEF Messages, Asked
  <2>2. net' = (net \ {r}) \cup {q} /\ slot' = slot /\ age' = age
    BY <1>2 DEF SessionRegister
  <2> HIDE DEF q
  <2>3. Handled(r, {q})
    BY <1>0, <2>1, <2>2 DEF Handled, Answers
  <2> QED BY <2>3
<1>3. ASSUME ClaimSessionSlot(r) PROVE \E M : Handled(r, M)
  BY <1>0, <1>3, AnswerHandles DEF ClaimSessionSlot, Claim, Answers
<1>4. ASSUME SessionForceTakeover(r) PROVE \E M : Handled(r, M)
  BY <1>0, <1>4, AnswerHandles DEF SessionForceTakeover, Claim, Answers
<1>5. ASSUME SessionHeartbeat(r) PROVE \E M : Handled(r, M)
  BY <1>0, <1>5, AnswerHandles DEF SessionHeartbeat, Answers
<1>6. ASSUME RequireAuth(r) PROVE \E M : Handled(r, M)
  BY <1>0, <1>6, AnswerHandles DEF RequireAuth, Answers
<1>7. \E M : Handled(r, M)
  BY <1>1, <1>2, <1>3, <1>4, <1>5, <1>6 DEF Serve
<1> QED BY <1>7 DEF Serve, RequireAuth

\* What a terminal leaves behind when it gives a post up: nothing open of its own.
LEMMA GiveUpCloses ==
    ASSUME TypeOK, Posts, NEW d \in Devices, GiveUp(d)
    PROVE  /\ net' \subseteq Messages
           /\ \A r \in net' : r.dev = d => ~r.open /\ r.at \in Asked
           /\ \A r \in net' : r.dev # d => r \in net
<1> DEFINE closed == {[r EXCEPT !.open = FALSE] : r \in {q \in net : q.dev = d /\ q.at \in Asked}}
<1>1. net \subseteq Messages
  BY DEF TypeOK
<1>2. \A r \in closed : r \in Messages /\ r.dev = d /\ ~r.open /\ r.at \in Asked
  <2> SUFFICES ASSUME NEW q \in net, q.dev = d, q.at \in Asked
               PROVE  LET r == [q EXCEPT !.open = FALSE]
                      IN  r \in Messages /\ r.dev = d /\ ~r.open /\ r.at \in Asked
    OBVIOUS
  <2>1. q \in Messages
    BY <1>1
  <2> QED BY <2>1 DEF Messages
<1>3. net' = {r \in net : r.dev # d \/ ~r.open} \cup closed
  BY DEF GiveUp
<1>4. \A r \in net : r.at \in Asked \/ r.open
  BY <1>1 DEF Posts, Messages
<1> HIDE DEF closed
<1> QED BY <1>1, <1>2, <1>3, <1>4

LEMMA BecomeMoves ==
    ASSUME TypeOK, NEW d \in Devices, NEW place \in Places, Become(d, place)
    PROVE  /\ pc' \in [Devices -> Places] /\ wait' \in [Devices -> Nat]
           /\ pc'[d] = place /\ wait'[d] = 0
           /\ \A e \in Devices : e # d => pc'[e] = pc[e] /\ wait'[e] = wait[e]
BY DEF TypeOK, Become

LEMMA PostMoves ==
    ASSUME TypeOK, NEW d \in Devices, NEW op \in Posting, Post(d, op)
    PROVE  /\ pc' \in [Devices -> Places] /\ wait' \in [Devices -> Nat]
           /\ pc'[d] = op /\ wait'[d] = 0
           /\ \A e \in Devices : e # d => pc'[e] = pc[e] /\ wait'[e] = wait[e]
           /\ \E p \in Messages : /\ net' = net \cup {p}
                                  /\ p.dev = d /\ p.op = op /\ p.at = "sent" /\ p.open
           /\ UNCHANGED <<slot, age, faults, trouble>>
<1> DEFINE p == [dev |-> d, op |-> op, at |-> "sent", open |-> TRUE]
<1>1. p \in Messages /\ p.dev = d /\ p.op = op /\ p.at = "sent" /\ p.open
  BY DEF Messages, Asked
<1>2. net' = net \cup {p}
  BY DEF Post
<1>3. op \in Places
  BY DEF Places
<1>4. /\ pc' \in [Devices -> Places] /\ wait' \in [Devices -> Nat]
      /\ pc'[d] = op /\ wait'[d] = 0
      /\ \A e \in Devices : e # d => pc'[e] = pc[e] /\ wait'[e] = wait[e]
  BY <1>3 DEF TypeOK, Post
<1> HIDE DEF p
<1> QED BY <1>1, <1>2, <1>4 DEF Post

LEMMA FaultCounts == \A k, n \in Nat : k < n => k + 1 \in 0..n
OBVIOUS

\* A post that fails or times out.
Fails(d) ==
    /\ pc[d] \in Posting
    /\ Become(d, AfterFailure(pc[d])) /\ GiveUp(d)
    /\ IF wait[d] > Prompt THEN trouble' = trouble ELSE Worry(d)
    /\ UNCHANGED <<slot, age>>

LEMMA FailsFacts ==
    ASSUME TypeOK, Counted, NEW d \in Devices, TimedOut(d) \/ PostFails(d)
    PROVE  /\ Fails(d) /\ faults' \in 0..MaxFaults
           /\ AfterFailure(pc[d]) \in {"idle", "out"}
           /\ trouble' \in [Devices -> 0..2] /\ trouble'[d] # 0
           /\ \A e \in Devices : e # d => trouble'[e] = trouble[e]
<1>1. Fails(d)
  BY DEF TimedOut, PostFails, Fails
<1>2. faults' \in 0..MaxFaults
  <2>1. faults' = faults \/ (faults < MaxFaults /\ faults' = faults + 1)
    BY DEF TimedOut, PostFails
  <2> QED BY <2>1, FaultCounts, SessionAssumption DEF TypeOK
<1>3. trouble' \in [Devices -> 0..2] /\ trouble'[d] # 0
      /\ \A e \in Devices : e # d => trouble'[e] = trouble[e]
  <2>1. CASE wait[d] > Prompt
    BY <1>1, <2>1 DEF Fails, Counted, TypeOK
  <2>2. CASE ~(wait[d] > Prompt)
    <3>1. trouble' = [trouble EXCEPT ![d] = Saturate(trouble[d])]
      BY <1>1, <2>2 DEF Fails, Worry
    <3>2. trouble[d] \in 0..2
      BY DEF TypeOK
    <3>3. \A t \in 0..2 : Saturate(t) \in 0..2 /\ Saturate(t) # 0
      BY DEF Saturate
    <3> QED BY <3>1, <3>2, <3>3 DEF TypeOK
  <2> QED BY <2>1, <2>2
<1> QED BY <1>1, <1>2, <1>3 DEF AfterFailure

------------------------------------------------------------------------------
\* Each action, by what it does to the posts.

\* A step of the server, or a message lost: the terminals stay where they are.
LEMMA HandledKeeps ==
    ASSUME IInv, NEW r \in net, NEW M, Handled(r, M),
           UNCHANGED <<pc, wait, trouble>>, faults' \in 0..MaxFaults,
           window' \in [Devices -> BOOLEAN]
    PROVE  IInv'
<1>0. r \in Messages /\ r.dev \in Devices /\ net \subseteq Messages
  BY DEF IInv, TypeOK, Messages
<1>1. TypeOK'
  <2>1. age' \in 0..DeadAfter
    BY SessionAssumption DEF Handled, IInv, TypeOK
  <2> QED BY <1>0, <2>1 DEF Handled, IInv, TypeOK
<1>2. Posts'
  <2>1. \A q \in net' : q.at \in Answers => q.open
    BY DEF Handled, IInv, Posts
  <2>2. \A q \in net' : q.open => pc'[q.dev] \in Posting /\ q.op = pc'[q.dev]
    BY DEF Handled, IInv, Posts
  <2>3. \A p, q \in net' : p.open /\ q.open /\ p.dev = q.dev => p = q
    BY DEF Handled, IInv, Posts
  <2> QED BY <2>1, <2>2, <2>3 DEF Posts
<1>3. Counted'
  BY DEF IInv, Counted
<1>4. HoldersFresh'
  <2> SUFFICES ASSUME NEW d \in Devices, slot' = d, trouble'[d] = 0 PROVE Fresh(d)'
    BY DEF HoldersFresh
  <2>1. wait[d] \in Nat /\ wait' = wait /\ pc' = pc
    BY DEF IInv, TypeOK
  <2>2. CASE age' = 0
    <3>1. \A w \in Nat : 0 <= Prompt /\ 0 <= Prompt + 1 /\ 0 <= Prompt + 1 + w /\ 0 <= w
      BY SessionAssumption
    <3> QED BY <2>1, <2>2, <3>1 DEF Fresh
  <2>3. CASE age' # 0
    <3>1. slot' = slot /\ age' = age /\ trouble' = trouble
      BY <2>3 DEF Handled
    <3>2. Fresh(d)
      BY <3>1 DEF IInv, HoldersFresh
    <3>3. \A q \in net' : q.at = "ok" => q \in net
      BY <2>3 DEF Handled
    <3> QED BY <2>1, <3>1, <3>2, <3>3 DEF Fresh
  <2> QED BY <2>2, <2>3
<1> QED BY <1>1, <1>2, <1>3, <1>4 DEF IInv

\* A terminal posts.
LEMMA PostKeeps ==
    ASSUME IInv, NEW d \in Devices, NEW op \in Posting, Post(d, op),
           pc[d] \notin Posting, op = "heartbeat" => pc[d] = "due",
           window' \in [Devices -> BOOLEAN]
    PROVE  IInv'
<1>0. PICK p \in Messages : /\ net' = net \cup {p}
                            /\ p.dev = d /\ p.op = op /\ p.at = "sent" /\ p.open
  BY PostMoves DEF IInv
<1>1. /\ pc' \in [Devices -> Places] /\ wait' \in [Devices -> Nat]
      /\ pc'[d] = op /\ wait'[d] = 0
      /\ \A e \in Devices : e # d => pc'[e] = pc[e] /\ wait'[e] = wait[e]
      /\ UNCHANGED <<slot, age, faults, trouble>>
  BY PostMoves DEF IInv
<1>2. \A r \in net : ~(r.open /\ r.dev = d)
  BY DEF IInv, Posts
<1>3. \A r \in net : r.dev \in Devices
  BY DEF IInv, TypeOK, Messages
<1>4. TypeOK'
  BY <1>0, <1>1 DEF IInv, TypeOK
<1>5. Posts'
  <2>1. \A r \in net' : r.at \in Answers => r.open
    BY <1>0 DEF IInv, Posts
  <2>2. \A r \in net' : r.open => pc'[r.dev] \in Posting /\ r.op = pc'[r.dev]
    BY <1>0, <1>1, <1>2, <1>3 DEF IInv, Posts
  <2>3. \A r, q \in net' : r.open /\ q.open /\ r.dev = q.dev => r = q
    BY <1>0, <1>2 DEF IInv, Posts
  <2> QED BY <2>1, <2>2, <2>3 DEF Posts
<1>6. Counted'
  <2>1. ~(wait'[d] > Prompt)
    BY <1>1, SessionAssumption
  <2> QED BY <1>1, <2>1 DEF IInv, Counted
<1>7. HoldersFresh'
  <2> SUFFICES ASSUME NEW e \in Devices, slot' = e, trouble'[e] = 0 PROVE Fresh(e)'
    BY DEF HoldersFresh
  <2>1. Fresh(e)
    BY <1>1 DEF IInv, HoldersFresh
  <2>2. CASE e # d
    BY <1>0, <1>1, <2>1, <2>2 DEF Fresh
  <2>3. CASE e = d
    <3>1. \A r \in net' : r.dev = d => r.at # "ok"
      BY <1>0, <1>2 DEF IInv, Posts, Answers
    <3>2. op = "heartbeat" => age' <= Prompt + 1 + wait'[d]
      <4>1. op = "heartbeat" => age <= Prompt + 1
        BY <2>1, <2>3 DEF Fresh
      <4>2. Prompt + 1 + 0 = Prompt + 1
        BY SessionAssumption
      <4> QED BY <1>1, <4>1, <4>2
    <3>3. pc'[d] \notin {"idle", "due"}
      BY <1>1 DEF Posting
    <3> QED BY <1>1, <2>3, <3>1, <3>2, <3>3 DEF Fresh
  <2> QED BY <2>2, <2>3
<1> QED BY <1>4, <1>5, <1>6, <1>7 DEF IInv

\* A terminal leaves its post, or its place, and keeps nothing open: to a place that
\* is not running, or, with trouble, back to its timer.
LEMMA LeaveKeeps ==
    ASSUME IInv, NEW d \in Devices, NEW place \in Places \ Posting, Become(d, place),
           net' \subseteq Messages,
           \A r \in net' : r.dev = d => ~r.open /\ r.at \in Asked,
           \A r \in net' : r.dev # d => r \in net,
           UNCHANGED <<slot, age>>, faults' \in 0..MaxFaults,
           trouble' \in [Devices -> 0..2], window' \in [Devices -> BOOLEAN],
           \A e \in Devices : e # d => trouble'[e] = trouble[e],
           place \notin Beating \/ trouble'[d] # 0 \/ (place = "idle" /\ (slot = d => age <= Prompt))
    PROVE  IInv'
<1>1. /\ pc' \in [Devices -> Places] /\ wait' \in [Devices -> Nat]
      /\ pc'[d] = place /\ wait'[d] = 0
      /\ \A e \in Devices : e # d => pc'[e] = pc[e] /\ wait'[e] = wait[e]
  BY BecomeMoves DEF IInv
<1>2. \A r \in net' : r.dev \in Devices
  BY DEF Messages
<1>3. TypeOK'
  BY <1>1 DEF IInv, TypeOK
<1>4. Posts'
  <2>1. \A r \in net' : r.at \in Answers => r.open
    BY DEF IInv, Posts, Asked, Answers
  <2>2. \A r \in net' : r.open => pc'[r.dev] \in Posting /\ r.op = pc'[r.dev]
    BY <1>1, <1>2 DEF IInv, Posts
  <2>3. \A r, q \in net' : r.open /\ q.open /\ r.dev = q.dev => r = q
    BY DEF IInv, Posts
  <2> QED BY <2>1, <2>2, <2>3 DEF Posts
<1>5. Counted'
  BY <1>1 DEF IInv, Counted
<1>6. HoldersFresh'
  <2> SUFFICES ASSUME NEW e \in Devices, slot' = e, trouble'[e] = 0 PROVE Fresh(e)'
    BY DEF HoldersFresh
  <2>1. CASE e # d
    BY <1>1, <2>1 DEF IInv, HoldersFresh, Fresh
  <2>2. CASE e = d
    <3>1. \A r \in net' : r.dev = d => r.at # "ok"
      BY DEF Asked
    <3>2. place \notin Beating \/ (place = "idle" /\ age <= Prompt)
      BY <2>2
    <3> QED BY <1>1, <2>2, <3>1, <3>2 DEF Fresh, Beating
  <2> QED BY <2>1, <2>2
<1> QED BY <1>3, <1>4, <1>5, <1>6 DEF IInv

\* A second passes: the heartbeats age by it, and so do the posts.
LEMMA TickKeeps ==
    ASSUME IInv, Tick
    PROVE  IInv'
<1>0. /\ \A d \in Devices : pc[d] # "due" /\ (pc[d] \in Posting => wait[d] < Timeout)
      /\ age' = Older /\ UNCHANGED <<slot, window, net, faults>>
  BY DEF Tick
<1>1. \A d \in Devices :
          /\ pc'[d] = IF pc[d] = "idle" THEN "due" ELSE pc[d]
          /\ wait'[d] = IF pc[d] \in Posting THEN wait[d] + 1 ELSE 0
          /\ trouble'[d] = IF pc[d] \in Posting /\ wait[d] = Prompt
                           THEN Saturate(trouble[d]) ELSE trouble[d]
  BY DEF Tick
<1>2. \A d \in Devices : pc[d] \in Places /\ wait[d] \in Nat /\ trouble[d] \in 0..2
  BY DEF IInv, TypeOK
<1>3. \A t \in 0..2 : Saturate(t) \in 0..2 /\ Saturate(t) # 0
  BY DEF Saturate
<1>4. age \in 0..DeadAfter /\ age' \in 0..DeadAfter /\ age' <= age + 1
  BY <1>0, SessionAssumption DEF Older, IInv, TypeOK
<1>5. TypeOK'
  <2>1. \A d \in Devices : pc'[d] \in Places
    BY <1>1, <1>2 DEF Places, Running, Beating
  <2>2. \A d \in Devices : wait'[d] \in Nat
    BY <1>1, <1>2
  <2>3. \A d \in Devices : trouble'[d] \in 0..2
    BY <1>1, <1>2, <1>3
  <2>4. /\ pc' = [d \in Devices |-> pc'[d]] /\ wait' = [d \in Devices |-> wait'[d]]
        /\ trouble' = [d \in Devices |-> trouble'[d]]
    BY <1>1 DEF Tick
  <2>5. /\ pc' \in [Devices -> Places] /\ wait' \in [Devices -> Nat]
        /\ trouble' \in [Devices -> 0..2]
    BY <2>1, <2>2, <2>3, <2>4
  <2> QED BY <1>0, <1>4, <2>5 DEF IInv, TypeOK
<1>6. Posts'
  <2>1. \A r \in net : r.dev \in Devices
    BY DEF IInv, TypeOK, Messages
  <2>2. \A r \in net : r.open => pc'[r.dev] \in Posting /\ r.op = pc'[r.dev]
    BY <1>1, <2>1 DEF IInv, Posts, Posting
  <2> QED BY <1>0, <2>2 DEF IInv, Posts
<1>7. Counted'
  <2> SUFFICES ASSUME NEW d \in Devices, pc'[d] \in Posting, wait'[d] > Prompt
               PROVE  trouble'[d] # 0
    BY DEF Counted
  <2>1. pc[d] \in Posting
    BY <1>1, <1>2 DEF Posting
  <2>2. wait[d] = Prompt \/ wait[d] > Prompt
    <3>1. wait[d] + 1 > Prompt
      BY <1>1, <2>1
    <3> QED BY <3>1, <1>2, SessionAssumption
  <2>3. CASE wait[d] = Prompt
    BY <1>1, <1>2, <1>3, <2>1, <2>3
  <2>4. CASE wait[d] > Prompt /\ wait[d] # Prompt
    BY <1>1, <2>1, <2>4 DEF IInv, Counted
  <2> QED BY <2>2, <2>3, <2>4
<1>8. HoldersFresh'
  <2> SUFFICES ASSUME NEW d \in Devices, slot' = d, trouble'[d] = 0 PROVE Fresh(d)'
    BY DEF HoldersFresh
  <2>1. trouble[d] = 0
    BY <1>1, <1>2, <1>3
  <2>2. Fresh(d)
    BY <1>0, <2>1 DEF IInv, HoldersFresh
  <2>3. \A a, p, w \in Nat : \A b \in Nat : b <= a + 1 =>
            /\ a <= p => b <= p + 1
            /\ a <= p + 1 + w => b <= p + 1 + (w + 1)
            /\ a <= w => b <= w + 1
    OBVIOUS
  <2>4. age \in Nat /\ age' \in Nat /\ wait[d] \in Nat /\ Prompt \in Nat
    BY <1>2, <1>4, SessionAssumption
  <2>5. pc'[d] # "idle"
    BY <1>1
  <2>6. pc'[d] = "due" => age' <= Prompt + 1
    <3>1. pc'[d] = "due" => pc[d] = "idle"
      BY <1>0, <1>1
    <3> QED BY <1>4, <2>2, <2>3, <2>4, <3>1 DEF Fresh
  <2>7. pc'[d] = "heartbeat" => age' <= Prompt + 1 + wait'[d]
    <3>1. pc'[d] = "heartbeat" => pc[d] = "heartbeat" /\ wait'[d] = wait[d] + 1
      BY <1>1 DEF Posting
    <3> QED BY <1>4, <2>2, <2>3, <2>4, <3>1 DEF Fresh
  <2>8. \A r \in net' : r.dev = d /\ r.at = "ok" => age' <= wait'[d]
    <3> SUFFICES ASSUME NEW r \in net, r.dev = d, r.at = "ok" PROVE age' <= wait'[d]
      BY <1>0
    <3>1. pc[d] \in Posting
      BY DEF IInv, Posts, Answers
    <3>2. wait'[d] = wait[d] + 1 /\ age <= wait[d]
      BY <1>1, <2>2, <3>1 DEF Fresh
    <3> QED BY <1>4, <2>3, <2>4, <3>2
  <2> QED BY <2>5, <2>6, <2>7, <2>8 DEF Fresh
<1> QED BY <1>5, <1>6, <1>7, <1>8 DEF IInv

LEMMA InvStep == IInv /\ [Next]_vars => IInv'
<1> SUFFICES ASSUME IInv, [Next]_vars PROVE IInv'
  OBVIOUS
<1>0. TypeOK /\ Posts /\ Counted /\ faults \in 0..MaxFaults /\ trouble \in [Devices -> 0..2]
  BY DEF IInv, TypeOK
<1>00. window' \in [Devices -> BOOLEAN]
  <2>1. window' = window \/ \E d \in Devices, open \in BOOLEAN :
                                window' = [window EXCEPT ![d] = open]
    BY DEF Next, vars, Tick, Launch, OpenWindow, Beat, TakeOver, Cancel, Acknowledge,
           TimedOut, PostFails, Quit, Serve, RequireAuth, Receive, Lose
  <2> QED BY <2>1 DEF IInv, TypeOK
<1>1. CASE Tick
  BY <1>1, TickKeeps
<1>2. ASSUME NEW d \in Devices, Launch(d) \/ Beat(d) \/ TakeOver(d) PROVE IInv'
  <2>1. CASE Launch(d)
    BY <2>1, <1>00, PostKeeps DEF Launch, Posting
  <2>2. CASE Beat(d)
    BY <2>2, <1>00, PostKeeps DEF Beat, Posting
  <2>3. CASE TakeOver(d)
    BY <2>3, <1>00, PostKeeps DEF TakeOver, Posting
  <2> QED BY <1>2, <2>1, <2>2, <2>3
<1>3. ASSUME NEW d \in Devices, Cancel(d) PROVE IInv'
  <2>1. /\ pc[d] = "prompt" /\ Become(d, "out")
        /\ UNCHANGED <<slot, age, net, faults, trouble>>
    BY <1>3 DEF Cancel
  <2>2. net \subseteq Messages /\ \A r \in net : r.dev = d => ~r.open /\ r.at \in Asked
    BY <1>0, <2>1 DEF TypeOK, Posts, Messages, Posting
  <2>3. "out" \in Places \ Posting /\ "out" \notin Beating
    BY DEF Places, Posting, Beating, Gone
  <2> QED BY <1>0, <1>00, <2>1, <2>2, <2>3, LeaveKeeps
<1>4. ASSUME NEW d \in Devices, TimedOut(d) \/ PostFails(d) PROVE IInv'
  <2>1. /\ Fails(d) /\ faults' \in 0..MaxFaults
        /\ AfterFailure(pc[d]) \in {"idle", "out"}
        /\ trouble' \in [Devices -> 0..2] /\ trouble'[d] # 0
        /\ \A e \in Devices : e # d => trouble'[e] = trouble[e]
    BY <1>0, <1>4, FailsFacts
  <2>2. AfterFailure(pc[d]) \in Places \ Posting
    BY <2>1 DEF Places, Posting, Running, Beating, Gone
  <2>3. /\ Become(d, AfterFailure(pc[d])) /\ GiveUp(d) /\ UNCHANGED <<slot, age>>
    BY <2>1 DEF Fails
  <2>4. /\ net' \subseteq Messages
        /\ \A r \in net' : r.dev = d => ~r.open /\ r.at \in Asked
        /\ \A r \in net' : r.dev # d => r \in net
    BY <1>0, <2>3, GiveUpCloses
  <2> QED BY <1>00, <2>1, <2>2, <2>3, <2>4, LeaveKeeps
<1>5. ASSUME NEW d \in Devices, Quit(d) PROVE IInv'
  <2>1. /\ Become(d, "out") /\ GiveUp(d) /\ UNCHANGED <<slot, age, faults, trouble>>
    BY <1>5 DEF Quit
  <2>2. "out" \in Places \ Posting /\ "out" \notin Beating
    BY DEF Places, Posting, Beating, Gone
  <2>3. /\ net' \subseteq Messages
        /\ \A r \in net' : r.dev = d => ~r.open /\ r.at \in Asked
        /\ \A r \in net' : r.dev # d => r \in net
    BY <1>0, <2>1, GiveUpCloses
  <2> QED BY <1>0, <1>00, <2>1, <2>2, <2>3, LeaveKeeps
<1>6. ASSUME NEW r \in net, Serve(r) \/ RequireAuth(r) PROVE IInv'
  BY <1>0, <1>00, <1>6, ServeHandles, HandledKeeps
<1>7. ASSUME NEW r \in net, Receive(r) PROVE IInv'
  <2> DEFINE d == r.dev
             place == AfterAnswer(r.op, r.at, window[r.dev])
  <2>1. r \in Messages /\ d \in Devices /\ net \subseteq Messages
    BY <1>0 DEF TypeOK, Messages
  <2>2. /\ r.at \in Answers /\ net' = net \ {r} /\ Become(d, place)
        /\ UNCHANGED <<slot, age, faults, trouble>>
    BY <1>7 DEF Receive
  <2>3. r.open /\ pc[d] \in Posting
    BY <1>0, <2>2 DEF Posts
  <2>4. \A q \in net' : q.dev = d => ~q.open /\ q.at \in Asked
    BY <1>0, <2>1, <2>2, <2>3 DEF Posts, Messages
  <2>5. /\ place \in {"idle", "out", "prompt", "deaf"} \cup Told
        /\ place = "idle" => r.at = "ok"
    BY DEF AfterAnswer, AfterClaim, AfterHeartbeat, ToldOff, Told
  <2>6. place \in Places \ Posting
    BY <2>5 DEF Places, Posting, Running, Beating, Told, Gone
  <2>7. place \notin Beating \/ trouble'[d] # 0 \/ (place = "idle" /\ (slot = d => age <= Prompt))
    <3>1. CASE place # "idle"
      BY <2>5, <3>1 DEF Beating, Told
    <3>2. CASE place = "idle" /\ trouble[d] = 0
      <4>1. slot = d => age <= wait[d]
        BY <2>1, <2>5, <3>2 DEF IInv, HoldersFresh, Fresh
      <4>2. ~(wait[d] > Prompt)
        BY <1>0, <2>1, <2>3, <3>2 DEF Counted
      <4>3. age \in Nat /\ wait[d] \in Nat /\ Prompt \in Nat
        BY <1>0, <2>1, SessionAssumption DEF TypeOK
      <4>4. \A a, w, p \in Nat : a <= w /\ ~(w > p) => a <= p
        OBVIOUS
      <4> QED BY <3>2, <4>1, <4>2, <4>3, <4>4
    <3>3. CASE place = "idle" /\ trouble[d] # 0
      BY <2>2, <3>3
    <3> QED BY <3>1, <3>2, <3>3
  <2> HIDE DEF d, place
  <2>8. net' \subseteq Messages /\ \A q \in net' : q.dev # d => q \in net
    BY <2>1, <2>2
  <2> QED BY <1>0, <1>00, <2>1, <2>2, <2>4, <2>6, <2>7, <2>8, LeaveKeeps
<1>8. ASSUME NEW r \in net, Lose(r) PROVE IInv'
  <2>1. faults' \in 0..MaxFaults
    BY <1>0, <1>8, FaultCounts, SessionAssumption DEF Lose
  <2>2. Handled(r, {})
    BY <1>0, <1>8 DEF Lose, Handled, TypeOK
  <2>3. UNCHANGED <<pc, wait, trouble>>
    BY <1>8 DEF Lose
  <2> QED BY <1>00, <2>1, <2>2, <2>3, HandledKeeps
<1>9. ASSUME NEW d \in Devices, Acknowledge(d) PROVE IInv'
  <2> DEFINE place == IF pc[d] = "taken over" THEN "evicted" ELSE "out"
  <2>1. /\ pc[d] \in Told /\ Become(d, place)
        /\ UNCHANGED <<slot, age, net, faults, trouble>>
    BY <1>9 DEF Acknowledge
  <2>2. net \subseteq Messages /\ \A r \in net : r.dev = d => ~r.open /\ r.at \in Asked
    BY <1>0, <2>1 DEF TypeOK, Posts, Messages, Posting, Told
  <2>3. place \in Places \ Posting /\ place \notin Beating
    BY DEF Places, Posting, Beating, Gone
  <2> HIDE DEF place
  <2> QED BY <1>0, <1>00, <2>1, <2>2, <2>3, LeaveKeeps
<1>10. ASSUME NEW d \in Devices, OpenWindow(d) PROVE IInv'
  <2>1. UNCHANGED <<slot, age, pc, wait, net, faults, trouble>>
    BY <1>10 DEF OpenWindow
  <2> QED BY <1>00, <2>1 DEF IInv, TypeOK, Posts, Counted, HoldersFresh, Fresh
<1>11. CASE UNCHANGED vars
  BY <1>11 DEF vars, IInv, TypeOK, Posts, Counted, HoldersFresh, Fresh
<1> QED BY <1>1, <1>2, <1>3, <1>4, <1>5, <1>6, <1>7, <1>8, <1>9, <1>10, <1>11 DEF Next

LEMMA InvInit == Init => IInv
<1> SUFFICES ASSUME Init PROVE IInv
  OBVIOUS
<1>1. TypeOK
  BY SessionAssumption DEF Init, TypeOK, Places
<1>2. Posts /\ Counted
  BY DEF Init, Posts, Counted, Posting
<1>3. HoldersFresh
  BY SessionAssumption DEF Init, HoldersFresh
<1> QED BY <1>1, <1>2, <1>3 DEF IInv

------------------------------------------------------------------------------
\* The invariant behind the next two results: each post has at most one message that
\* is waited for, a post that drags on is counted, and a holder without trouble has
\* a heartbeat no older than its place in the cycle allows.
THEOREM SessionInvariant == Spec => []IInv
BY InvInit, InvStep, PTL DEF Spec

\* The slot, the terminals and the messages keep their types.
THEOREM TypesHold == Spec => []TypeOK
<1>1. IInv => TypeOK
  BY DEF IInv
<1> QED BY <1>1, SessionInvariant, PTL

\* A terminal whose posts are all answered promptly is never taken for dead, for any
\* number of devices and as long as two prompt answers and one beat fit into the
\* server's SESSION_DEAD_AFTER_SECONDS: register refuses every other device.
THEOREM HealthyHolds == Spec => []Healthy
<1>1. IInv => Healthy
  <2> SUFFICES ASSUME IInv, NEW d \in Devices, slot = d, pc[d] \in Beating, trouble[d] = 0
               PROVE  Alive
    BY DEF Healthy
  <2>1. Fresh(d)
    BY DEF IInv, HoldersFresh
  <2>2. slot # None
    BY SessionAssumption
  <2>3. age \in Nat /\ wait[d] \in Nat /\ Prompt \in Nat /\ DeadAfter \in Nat
    BY SessionAssumption DEF IInv, TypeOK
  <2>4. pc[d] = "heartbeat" => ~(wait[d] > Prompt)
    BY DEF IInv, Counted, Posting
  <2>5. \A a, p, w, n \in Nat : 2 * p + 1 < n =>
            /\ a <= p => a < n
            /\ a <= p + 1 => a < n
            /\ a <= p + 1 + w /\ ~(w > p) => a < n
    OBVIOUS
  <2>6. age < DeadAfter
    BY <2>1, <2>3, <2>4, <2>5, SessionAssumption DEF Fresh, Beating
  <2> QED BY <2>2, <2>6 DEF Alive
<1> QED BY <1>1, SessionInvariant, PTL

------------------------------------------------------------------------------
(***************************************************************************)
(* SignUp, for any number of requests, addresses and cards, every          *)
(* interleaving of their database calls, and restarts between them.  The   *)
(* invariant ties each request to the row it wrote, each row to the        *)
(* request whose password it has, and each request that came to write to   *)
(* those that had written when it looked (saw).  That an account is unique *)
(* is then a matter of who can have seen whom.                             *)
(***************************************************************************)

Creating == {"register", "signup"}

\* What a request of each kind carries, and where it can be.
Formed(q) ==
    /\ q.kind \in Creating \cup {"card"} => q.email \in Emails
    /\ q.kind = "register" => q.card \in Cards
    /\ q.kind = "signup" => q.card = NoCard /\ q.at \in {"write", "done", "dead"}
    /\ q.at = "save" => q.kind = "card"
    /\ q.at \in {"check", "drop"} => q.kind = "register"
    /\ q.at = "write" => q.kind \in Creating /\ ~q.wrote
    /\ q.at \in {"link", "mail"} => q.kind \in {"register", "resend"}
    /\ q.at = "verify" => q.kind = "open"
    /\ q.at = "check" => q.saw = {} /\ q.row = 0 /\ ~q.wrote
    /\ q.kind \in {"resend", "open"} => q.row # 0
    /\ q.kind = "register" /\ q.at \in {"drop", "link", "mail", "done"} => q.wrote
    /\ q.wrote => q.kind \in Creating /\ q.row # 0 /\ q.at # "refused"

\* What it knows of the tables is there.
Refers(q) ==
    /\ q.row \in 0..Len(licences)
    /\ q.kind # "open" /\ q.row # 0 => licences[q.row].email = q.email
    /\ q.saw \subseteq Writers

\* A password is that of the request that wrote it on this row, and a card has come
\* with a request for this address.
Owned(i) ==
    /\ licences[i].password # 0 =>
          /\ licences[i].password \in Writers
          /\ calls[licences[i].password].row = i
    /\ licences[i].card \in Marked =>
          \E c \in Writers : /\ calls[c].card = licences[i].card
                             /\ calls[c].email = licences[i].email

\* Links are made for one row and stay with it.
Made(l) ==
    /\ l \in DOMAIN calls
    /\ calls[l].kind \in {"register", "resend"} /\ calls[l].at \in {"mail", "done", "dead"}

Opened(c) ==
    calls[c].kind = "open" =>
        calls[c].link \in inbox /\ calls[calls[c].link].row = calls[c].row

Linked(i) ==
    /\ licences[i].link # 0 => Made(licences[i].link) /\ calls[licences[i].link].row = i
    /\ licences[i].verified =>
          \E c \in DOMAIN calls :
             calls[c].kind = "open" /\ calls[c].at = "done" /\ calls[c].row = i

\* An address the administrator has not dealt with: its rows are accounts, and a
\* request that came to write has seen no other that wrote.
OwnWay(c) ==
    calls[c].kind \in Creating =>
        /\ calls[c].at = "write" => calls[c].row = 0
        /\ calls[c].at = "done" => calls[c].wrote
        /\ calls[c].wrote => licences[calls[c].row].password = c
        /\ \A d \in calls[c].saw : calls[d].email # calls[c].email

Untouched(e) ==
    /\ \A i \in DOMAIN licences :
          licences[i].email = e => Live(i) /\ licences[i].password # 0
    /\ \A c \in DOMAIN calls : calls[c].email = e => OwnWay(c)

\* Two requests with one card for different addresses ran side by side.
Clash(k) ==
    \E c, d \in Writers :
        /\ calls[c].card = k /\ calls[d].card = k
        /\ calls[c].email # calls[d].email
        /\ Overlapped(c, d)

CardsApart ==
    \A i, j \in Rows :
        /\ licences[i].card \in Marked /\ licences[i].card = licences[j].card
        /\ licences[i].email # licences[j].email
        => Clash(licences[i].card)

\* What the check of a registration has established, when it comes to write: a row of
\* another address that has its card got it from a request it has not seen.
Checked(d) ==
    calls[d].kind = "register" /\ calls[d].at = "write" /\ calls[d].card \in Marked =>
        \A i \in Rows :
           licences[i].card = calls[d].card /\ licences[i].email # calls[d].email =>
              \/ Clash(calls[d].card)
              \/ \E c \in Writers \ calls[d].saw :
                    calls[c].card = calls[d].card /\ calls[c].email # calls[d].email

SignUpInv ==
    /\ SignUpTypeOK /\ Len(calls) <= MaxCalls
    /\ \A c \in DOMAIN calls : Formed(calls[c]) /\ Refers(calls[c]) /\ Opened(c) /\ Checked(c)
    /\ \A l \in inbox : Made(l)
    /\ \A i \in DOMAIN licences : Owned(i) /\ Linked(i)
    /\ \A e \in Emails \ touched : Untouched(e)
    /\ CardsApart

------------------------------------------------------------------------------
\* How the list of requests changes.

Begun(q) ==
    /\ calls' \in Seq(Call) /\ Len(calls') <= MaxCalls
    /\ Len(calls) + 1 \notin DOMAIN calls
    /\ DOMAIN calls' = DOMAIN calls \cup {Len(calls) + 1}
    /\ \A c \in DOMAIN calls : calls'[c] = calls[c]
    /\ calls'[Len(calls) + 1] = q
    /\ Writers' = IF q.wrote THEN Writers \cup {Len(calls) + 1} ELSE Writers

Goes(c, q) ==
    /\ calls' \in Seq(Call) /\ Len(calls') <= MaxCalls
    /\ DOMAIN calls' = DOMAIN calls /\ c \in DOMAIN calls
    /\ \A d \in DOMAIN calls : calls'[d] = IF d = c THEN q ELSE calls[d]
    /\ Writers' = IF q.wrote THEN Writers \cup {c} ELSE Writers \ {c}

LEMMA BeginShape ==
    ASSUME SignUpTypeOK, NEW q \in Call, Begin(q)
    PROVE  Begun(q)
<1>1. /\ calls \in Seq(Call) /\ Len(calls) \in Nat /\ MaxCalls \in Nat
      /\ Len(calls) < MaxCalls /\ calls' = Append(calls, q)
  BY SignUpAssumption DEF SignUpTypeOK, Begin
<1>2. /\ calls' \in Seq(Call) /\ Len(calls') = Len(calls) + 1
      /\ DOMAIN calls = 1..Len(calls) /\ DOMAIN calls' = 1..(Len(calls) + 1)
      /\ \A c \in DOMAIN calls : calls'[c] = calls[c]
      /\ calls'[Len(calls) + 1] = q
  BY <1>1
<1>3. DOMAIN calls' = DOMAIN calls \cup {Len(calls) + 1} /\ Len(calls) + 1 \notin DOMAIN calls
  BY <1>1, <1>2
<1> QED
  BY <1>1, <1>2, <1>3 DEF Begun, Writers

LEMMA StepShape ==
    ASSUME SignUpTypeOK, Len(calls) <= MaxCalls,
           NEW c \in DOMAIN calls, NEW q \in Call, calls' = [calls EXCEPT ![c] = q]
    PROVE  Goes(c, q)
<1>1. calls \in Seq(Call) /\ Len(calls) \in Nat
  BY DEF SignUpTypeOK
<1>2. calls' \in Seq(Call) /\ Len(calls') = Len(calls) /\ DOMAIN calls' = DOMAIN calls
      /\ \A d \in DOMAIN calls : calls'[d] = IF d = c THEN q ELSE calls[d]
  BY <1>1
<1> QED
  BY <1>1, <1>2 DEF Goes, Writers

\* Requests keep what they are about, and rows their address; whoever has written
\* stands by it.
Evolves ==
    /\ DOMAIN calls \subseteq DOMAIN calls' /\ Writers \subseteq Writers'
    /\ \A c \in DOMAIN calls :
          /\ calls'[c].kind = calls[c].kind /\ calls'[c].email = calls[c].email
          /\ calls'[c].card = calls[c].card /\ calls'[c].link = calls[c].link
          /\ calls[c].at # "check" => calls'[c].saw = calls[c].saw
          /\ calls[c].at \notin {"check", "write"} => calls'[c].row = calls[c].row
          /\ calls[c].at \in {"mail", "done", "dead"} => calls'[c].at \in {"mail", "done", "dead"}
          /\ calls[c].at = "done" => calls'[c].at = "done"

LEMMA ClashStays ==
    ASSUME SignUpInv, Evolves, NEW k, Clash(k)
    PROVE  Clash(k)'
<1>1. PICK c \in Writers, d \in Writers :
          /\ calls[c].card = k /\ calls[d].card = k
          /\ calls[c].email # calls[d].email
          /\ Overlapped(c, d)
  BY DEF Clash
<1>2. \A x \in Writers : x \in DOMAIN calls /\ calls[x].at # "check"
  BY DEF Writers, SignUpInv, Formed
<1> QED
  BY <1>1, <1>2 DEF Clash, Evolves, Overlapped

\* What is said of a row stays said while the row does not change, and likewise of a
\* request.
LEMMA Keeps ==
    ASSUME SignUpInv, Evolves
    PROVE  /\ \A l : Made(l) => Made(l)' /\ calls'[l].row = calls[l].row
           /\ \A i \in DOMAIN licences :
                 i \in DOMAIN licences' /\ licences'[i] = licences[i] => Linked(i)'
<1>1. \A l : Made(l) => Made(l)' /\ calls'[l].row = calls[l].row
  BY DEF Evolves, Made
<1>2. ASSUME NEW i \in DOMAIN licences, i \in DOMAIN licences', licences'[i] = licences[i]
      PROVE  Linked(i)'
  BY <1>1, <1>2 DEF Linked, SignUpInv, Evolves
<1> QED
  BY <1>1, <1>2

\* A request begins that has not written anything.
LEMMA BeginKeeps ==
    ASSUME SignUpInv, NEW q \in Call, Begin(q), Formed(q), Refers(q),
           q.at \in {"check", "save", "write", "link", "verify"}, ~q.wrote,
           q.kind = "register" => q.at = "check",
           q.kind = "open" => q.link \in inbox /\ calls[q.link].row = q.row,
           q.kind = "signup" /\ q.email \notin touched =>
               q.row = 0 /\ \A d \in q.saw : calls[d].email # q.email,
           UNCHANGED <<licences, pending, inbox, touched, admin, crashes>>
    PROVE  SignUpInv'
<1> DEFINE n == Len(calls) + 1
<1>0. Begun(q)
  BY BeginShape DEF SignUpInv
<1>1. Evolves /\ Writers' = Writers
  BY <1>0 DEF Begun, Evolves, Writers, SignUpTypeOK, SignUpInv
<1>2. SignUpTypeOK' /\ Len(calls') <= MaxCalls
  BY <1>0 DEF Begun, SignUpTypeOK, SignUpInv
<1>3. \A l \in inbox' : Made(l)'
  BY <1>1, Keeps DEF SignUpInv
<1>4. \A k : Clash(k) => Clash(k)'
  BY <1>1, ClashStays
<1>5. ASSUME NEW c \in DOMAIN calls'
      PROVE  Formed(calls[c])' /\ Refers(calls[c])' /\ Opened(c)' /\ Checked(c)'
  <2>1. CASE c = n
    <3>1. calls'[c] = q
      BY <2>1, <1>0 DEF Begun
    <3>2. Formed(calls[c])' /\ Checked(c)'
      BY <3>1 DEF Formed, Checked
    <3>3. Refers(calls[c])'
      BY <3>1, <1>1 DEF Refers
    <3>4. Opened(c)'
      BY <3>1, <1>1, Keeps DEF Opened, SignUpInv
    <3> QED BY <3>2, <3>3, <3>4
  <2>2. CASE c \in DOMAIN calls
    <3>1. calls'[c] = calls[c]
      BY <2>2, <1>0 DEF Begun
    <3>2. Formed(calls[c])' /\ Refers(calls[c])'
      BY <3>1, <2>2, <1>1 DEF Formed, Refers, SignUpInv
    <3>3. Opened(c)'
      BY <3>1, <2>2, <1>1, Keeps DEF Opened, SignUpInv
    <3>4. Checked(c)'
      BY <3>1, <2>2, <1>0, <1>1, <1>4 DEF Checked, SignUpInv, Begun, Rows, Live, Writers
    <3> QED BY <3>2, <3>3, <3>4
  <2> QED BY <2>1, <2>2, <1>0 DEF Begun
<1>6. ASSUME NEW i \in DOMAIN licences' PROVE Owned(i)' /\ Linked(i)'
  <2>1. Linked(i)'
    BY <1>1, Keeps DEF SignUpInv
  <2>2. Owned(i)'
    BY <1>0, <1>1 DEF Owned, SignUpInv, Begun, Writers
  <2> QED BY <2>1, <2>2
<1>7. ASSUME NEW e \in Emails \ touched' PROVE Untouched(e)'
  <2>1. ASSUME NEW c \in DOMAIN calls', calls'[c].email = e PROVE OwnWay(c)'
    <3>1. CASE c = n
      <4>1. calls'[c] = q BY <3>1, <1>0 DEF Begun
      <4>2. q.saw \subseteq DOMAIN calls BY DEF Refers, Writers
      <4> QED BY <2>1, <4>1, <4>2, <1>0, <1>7 DEF OwnWay, Begun, Creating, Formed
    <3>2. CASE c \in DOMAIN calls
      <4>1. calls'[c] = calls[c] /\ calls[c].saw \subseteq DOMAIN calls
        BY <3>2, <1>0 DEF Begun, SignUpInv, Refers, Writers
      <4>2. OwnWay(c) BY <3>2, <4>1, <2>1, <1>7 DEF SignUpInv, Untouched
      <4> QED BY <4>1, <4>2, <1>0 DEF OwnWay, Begun
    <3> QED BY <3>1, <3>2, <1>0 DEF Begun
  <2>2. Untouched(e)
    BY <1>7 DEF SignUpInv
  <2> QED BY <2>1, <2>2 DEF Untouched, Live
<1>8. CardsApart'
  BY <1>4 DEF CardsApart, SignUpInv, Rows, Live
<1> QED
  BY <1>2, <1>3, <1>5, <1>6, <1>7, <1>8 DEF SignUpInv

\* A request goes on, and leaves the licences alone.
LEMMA MoveKeeps ==
    ASSUME SignUpInv, NEW c \in DOMAIN calls, NEW q \in Call,
           calls' = [calls EXCEPT ![c] = q],
           q.kind = calls[c].kind, q.email = calls[c].email, q.card = calls[c].card,
           q.link = calls[c].link, q.wrote = calls[c].wrote,
           calls[c].at # "check" => q.row = calls[c].row /\ q.saw = calls[c].saw,
           calls[c].at \in {"mail", "done", "dead"} => q.at \in {"mail", "done", "dead"},
           calls[c].at # "done",
           Formed(q), Refers(q),
           q.at = "done" /\ q.kind \in Creating /\ q.email \notin touched => q.wrote,
           calls[c].at = "check" /\ q.email \notin touched =>
               q.row = 0 /\ \A d \in q.saw : calls[d].email # q.email,
           q.at = "write" => calls[c].at = "check" /\ \A i \in Rows :
              q.card \in Marked /\ licences[i].card = q.card /\ licences[i].email # q.email =>
                 \/ Clash(q.card)
                 \/ \E d \in Writers \ q.saw :
                       calls[d].card = q.card /\ calls[d].email # q.email,
           inbox' \in {inbox, inbox \cup {c}}, inbox' # inbox => q.at = "done" /\ Made(c),
           UNCHANGED <<licences, touched, admin, crashes>>,
           pending' \in [Emails -> Cards \cup {NoCard}]
    PROVE  SignUpInv'
<1>0. Goes(c, q)
  BY StepShape DEF SignUpInv
<1>a. \A d \in DOMAIN calls : d \in Writers <=> calls[d].wrote
  BY DEF Writers
<1>b. calls[c].wrote \in BOOLEAN
  BY DEF SignUpInv, SignUpTypeOK, Call
<1>c. Writers' = Writers
  <2>1. CASE calls[c].wrote
    BY <2>1, <1>0, <1>a DEF Goes
  <2>2. CASE ~calls[c].wrote
    BY <2>2, <1>0, <1>a DEF Goes
  <2> QED BY <2>1, <2>2
<1>1. Evolves /\ Writers' = Writers
  BY <1>0, <1>c DEF Goes, Evolves
<1>2. SignUpTypeOK' /\ Len(calls') <= MaxCalls
  <2>1. c \in 1..MaxCalls
    BY SignUpAssumption DEF SignUpTypeOK, SignUpInv, SignUpAssumption
  <2> QED BY <2>1, <1>0 DEF Goes, SignUpTypeOK, SignUpInv
<1>3. \A l \in inbox' : Made(l)'
  BY <1>1, Keeps DEF SignUpInv
<1>4. \A k : Clash(k) => Clash(k)'
  BY <1>1, ClashStays
<1>5. ASSUME NEW d \in DOMAIN calls'
      PROVE  Formed(calls[d])' /\ Refers(calls[d])' /\ Opened(d)' /\ Checked(d)'
  <2>1. CASE d = c
    <3>1. calls'[d] = q
      BY <2>1, <1>0 DEF Goes
    <3>2. Formed(calls[d])'
      BY <3>1 DEF Formed
    <3>3. Refers(calls[d])'
      BY <3>1, <1>1 DEF Refers
    <3>4. Opened(d)'
      <4> SUFFICES ASSUME q.kind = "open"
                   PROVE  q.link \in inbox' /\ calls'[q.link].row = q.row
        BY <3>1 DEF Opened
      <4>1. q.row = calls[c].row
        BY DEF SignUpInv, Formed
      <4>2. q.link \in inbox /\ calls[q.link].row = q.row
        BY <4>1 DEF SignUpInv, Opened
      <4> QED BY <4>2, <1>1, Keeps DEF SignUpInv
    <3>5. Checked(d)'
      BY <3>1, <1>0, <1>1, <1>4 DEF Checked, SignUpInv, Goes, Rows, Live, Writers
    <3> QED BY <3>2, <3>3, <3>4, <3>5
  <2>2. CASE d # c
    <3>1. d \in DOMAIN calls /\ calls'[d] = calls[d]
      BY <2>2, <1>0 DEF Goes
    <3>2. Formed(calls[d])' /\ Refers(calls[d])'
      BY <3>1, <1>1 DEF Formed, Refers, SignUpInv
    <3>3. Opened(d)'
      BY <3>1, <1>1, Keeps DEF Opened, SignUpInv
    <3>4. Checked(d)'
      BY <3>1, <1>0, <1>1, <1>4 DEF Checked, SignUpInv, Goes, Rows, Live, Writers
    <3> QED BY <3>2, <3>3, <3>4
  <2> QED BY <2>1, <2>2
<1>6. ASSUME NEW i \in DOMAIN licences' PROVE Owned(i)' /\ Linked(i)'
  <2>1. Linked(i)'
    BY <1>1, Keeps DEF SignUpInv
  <2>2. calls'[licences[i].password].row = calls[licences[i].password].row
            \/ licences[i].password \notin Writers
    BY <1>0, <1>a DEF Goes, Formed, SignUpInv
  <2>3. Owned(i)'
    BY <2>2, <1>0, <1>1 DEF Owned, SignUpInv, Goes, Writers
  <2> QED BY <2>1, <2>3
<1>7. ASSUME NEW e \in Emails \ touched' PROVE Untouched(e)'
  <2>0. Untouched(e)
    BY <1>7 DEF SignUpInv
  <2>1. ASSUME NEW d \in DOMAIN calls', calls'[d].email = e PROVE OwnWay(d)'
    <3>0. /\ calls[d].saw \subseteq DOMAIN calls /\ calls'[d].saw \subseteq DOMAIN calls
          /\ \A x \in DOMAIN calls : calls'[x].email = calls[x].email
      BY <1>0 DEF Goes, SignUpInv, Refers, Writers
    <3>1. CASE d = c
      <4>1. calls'[d] = q BY <3>1, <1>0 DEF Goes
      <4>2. OwnWay(d) BY <2>0, <2>1, <3>0, <1>0 DEF Untouched, Goes
      <4>3. CASE calls[c].at = "check"
        <5>1. ~q.wrote /\ calls[c].kind = "register" BY <4>3 DEF SignUpInv, Formed
        <5> QED BY <2>1, <4>1, <3>0, <3>1, <1>7, <4>3, <5>1 DEF OwnWay, Creating
      <4>4. CASE calls[c].at # "check"
        <5>1. q.at # "write" /\ (q.at = "done" /\ q.kind \in Creating => q.wrote)
          BY <4>4, <1>7, <4>1, <2>1, <3>1
        <5> QED BY <4>1, <3>0, <3>1, <4>4, <4>2, <5>1 DEF OwnWay
      <4> QED BY <4>3, <4>4
    <3>2. CASE d # c
      <4>1. calls'[d] = calls[d]
        BY <3>2, <1>0 DEF Goes
      <4>2. OwnWay(d) BY <4>1, <2>0, <2>1, <1>0 DEF Untouched, Goes
      <4> QED BY <4>1, <4>2, <3>0 DEF OwnWay
    <3> QED BY <3>1, <3>2
  <2> QED BY <2>1, <2>0 DEF Untouched, Live
<1>8. CardsApart'
  BY <1>4 DEF CardsApart, SignUpInv, Rows, Live
<1> QED
  BY <1>2, <1>3, <1>5, <1>6, <1>7, <1>8 DEF SignUpInv

\* How the table changes: row i is written, and may be a new one.
Put(i, r) ==
    /\ licences' \in Seq(Row)
    /\ i \in DOMAIN licences' /\ DOMAIN licences' = DOMAIN licences \cup {i}
    /\ Len(licences) <= Len(licences')
    /\ \A j \in DOMAIN licences' : licences'[j] = IF j = i THEN r ELSE licences[j]

LEMMA SetShape ==
    ASSUME SignUpTypeOK, NEW i \in DOMAIN licences, NEW r \in Row,
           licences' = [licences EXCEPT ![i] = r]
    PROVE  Put(i, r)
<1>1. licences \in Seq(Row) /\ Len(licences) \in Nat
  BY DEF SignUpTypeOK
<1>2. licences' \in Seq(Row) /\ Len(licences') = Len(licences) /\ DOMAIN licences' = DOMAIN licences
      /\ \A j \in DOMAIN licences : licences'[j] = IF j = i THEN r ELSE licences[j]
  BY <1>1
<1> QED
  BY <1>1, <1>2 DEF Put

LEMMA AddShape ==
    ASSUME SignUpTypeOK, NEW r \in Row, licences' = Append(licences, r)
    PROVE  Put(Len(licences) + 1, r) /\ Len(licences) + 1 \notin DOMAIN licences
<1>1. licences \in Seq(Row) /\ Len(licences) \in Nat
  BY DEF SignUpTypeOK
<1>2. /\ licences' \in Seq(Row) /\ Len(licences') = Len(licences) + 1
      /\ DOMAIN licences = 1..Len(licences) /\ DOMAIN licences' = 1..(Len(licences) + 1)
      /\ \A c \in DOMAIN licences : licences'[c] = licences[c]
      /\ licences'[Len(licences) + 1] = r
  BY <1>1
<1>3. DOMAIN licences' = DOMAIN licences \cup {Len(licences) + 1}
         /\ Len(licences) + 1 \notin DOMAIN licences
  BY <1>1, <1>2
<1> QED
  BY <1>1, <1>2, <1>3 DEF Put

\* A link is set, or opened: the row keeps its address, password, card and status.
LEMMA LinkKeeps ==
    ASSUME SignUpInv, NEW c \in DOMAIN calls, NEW label,
           NEW i \in DOMAIN licences, NEW r \in Row,
           calls' = [calls EXCEPT ![c].at = label],
           calls[c].row = i, licences' = [licences EXCEPT ![i] = r],
           \/ /\ calls[c].at = "link" /\ label = "mail"
              /\ r = [licences[i] EXCEPT !.link = c]
           \/ /\ calls[c].at = "verify" /\ label = "done"
              /\ r = [licences[i] EXCEPT !.verified = TRUE, !.link = 0],
           UNCHANGED <<pending, inbox, touched, admin, crashes>>
    PROVE  SignUpInv'
<1> DEFINE q == [calls[c] EXCEPT !.at = label]
<1>z. calls[c] \in Call /\ licences[i] \in Row /\ c \in 1..MaxCalls /\ SignUpTypeOK
  BY SignUpAssumption DEF SignUpInv, SignUpTypeOK, SignUpAssumption
<1>y. /\ q \in Call /\ q.at = label
      /\ q.kind = calls[c].kind /\ q.email = calls[c].email /\ q.card = calls[c].card
      /\ q.link = calls[c].link /\ q.wrote = calls[c].wrote /\ q.row = i
      /\ q.saw = calls[c].saw
  BY <1>z DEF Call
<1>x. /\ r.email = licences[i].email /\ r.password = licences[i].password
      /\ r.card = licences[i].card /\ r.status = licences[i].status
      /\ r.link = 0 \/ (r.link = c /\ label = "mail" /\ r.verified = licences[i].verified)
  BY <1>z DEF Row
<1>w. calls' = [calls EXCEPT ![c] = q]
  BY <1>z DEF SignUpTypeOK
<1> HIDE DEF q
<1>0. Goes(c, q)
  BY <1>y, <1>w, StepShape DEF SignUpInv
<1>p. Put(i, r)
  BY <1>z, SetShape
<1>a. \A d \in DOMAIN calls : d \in Writers <=> calls[d].wrote
  BY DEF Writers
<1>c. Writers' = Writers
  <2>1. CASE calls[c].wrote
    BY <2>1, <1>0, <1>a, <1>y DEF Goes
  <2>2. CASE ~calls[c].wrote
    BY <2>2, <1>0, <1>a, <1>y DEF Goes
  <2> QED BY <2>1, <2>2
<1>1. Evolves /\ Writers' = Writers
  BY <1>0, <1>c, <1>y DEF Goes, Evolves
<1>m. Formed(q)
  BY <1>y DEF Formed, SignUpInv
<1>r. Rows' = Rows /\ \A j \in DOMAIN licences' : licences'[j].email = licences[j].email
          /\ licences'[j].card = licences[j].card /\ licences'[j].password = licences[j].password
          /\ licences'[j].status = licences[j].status
  BY <1>p, <1>x DEF Put, Rows, Live
<1>2. SignUpTypeOK' /\ Len(calls') <= MaxCalls
  BY <1>0, <1>p, <1>z DEF Goes, Put, SignUpTypeOK
<1>3. \A l \in inbox' : Made(l)'
  BY <1>1, Keeps DEF SignUpInv
<1>4. \A k : Clash(k) => Clash(k)'
  BY <1>1, ClashStays
<1>5. ASSUME NEW d \in DOMAIN calls'
      PROVE  Formed(calls[d])' /\ Refers(calls[d])' /\ Opened(d)' /\ Checked(d)'
  <2>1. Formed(calls[d])'
    BY <1>0, <1>m DEF Goes, Formed, SignUpInv
  <2>2. Refers(calls[d])'
    BY <1>0, <1>y, <1>p, <1>r, <1>1 DEF Refers, Goes, Put, SignUpInv
  <2>3. Opened(d)'
    BY <1>0, <1>y, <1>1, Keeps DEF Opened, SignUpInv, Goes
  <2>4. Checked(d)'
    BY <1>0, <1>y, <1>1, <1>4, <1>r, <1>a DEF Checked, SignUpInv, Goes, Put, Rows
  <2> QED BY <2>1, <2>2, <2>3, <2>4
<1>6. ASSUME NEW j \in DOMAIN licences' PROVE Owned(j)' /\ Linked(j)'
  <2>0. j \in DOMAIN licences /\ \A d \in DOMAIN calls : calls'[d].row = calls[d].row
             /\ calls'[d].email = calls[d].email /\ calls'[d].card = calls[d].card
    BY <1>0, <1>y, <1>p DEF Goes, Put
  <2>1. Linked(j)'
    <3>1. CASE j # i
      BY <3>1, <2>0, <1>1, <1>p, Keeps DEF Put
    <3>2. CASE j = i /\ r.link = c /\ label = "mail" /\ r.verified = licences[i].verified
      <4>1. Made(c)'
        BY <3>2, <1>0, <1>y, <1>m DEF Goes, Made, Formed
      <4>2. licences'[j] = r /\ calls'[c].row = j
        BY <3>2, <1>0, <1>y, <1>p DEF Goes, Put
      <4> QED BY <4>1, <4>2, <3>2, <2>0, <1>1 DEF Linked, Evolves, SignUpInv
    <3>3. CASE j = i /\ r.link = 0 /\ label = "done"
      <4>1. licences'[j] = r /\ calls'[c].row = j /\ calls'[c].at = "done"
               /\ calls'[c].kind = "open" /\ c \in DOMAIN calls'
        BY <3>3, <1>0, <1>y, <1>p DEF Goes, Put, SignUpInv, Formed
      <4> QED BY <4>1, <3>3 DEF Linked
    <3> QED BY <3>1, <3>2, <3>3, <1>z, <1>x DEF Row
  <2>2. Owned(j)'
    BY <2>0, <1>r, <1>1, <1>a DEF Owned, SignUpInv
  <2> QED BY <2>1, <2>2
<1>7. ASSUME NEW e \in Emails \ touched' PROVE Untouched(e)'
  <2>0. Untouched(e)
    BY <1>7 DEF SignUpInv
  <2>1. ASSUME NEW d \in DOMAIN calls', calls'[d].email = e PROVE OwnWay(d)'
    <3>1. /\ d \in DOMAIN calls /\ calls[d].email = e /\ OwnWay(d)
          /\ calls'[d].saw = calls[d].saw /\ calls[d].saw \subseteq DOMAIN calls
          /\ calls'[d].row = calls[d].row /\ calls'[d].kind = calls[d].kind
          /\ calls'[d].wrote = calls[d].wrote
          /\ calls'[d].at \in {calls[d].at, label}
      BY <2>0, <2>1, <1>0, <1>y DEF Goes, Untouched, SignUpInv, Refers, Writers
    <3>2. calls[d].wrote => licences'[calls[d].row].password = licences[calls[d].row].password
      BY <3>1, <1>r, <1>p DEF SignUpInv, Formed, Refers, Put, SignUpTypeOK
    <3>3. label = "done" /\ calls[c].kind \in Creating => FALSE
      BY DEF SignUpInv, Formed, Creating
    <3>4. \A x \in calls[d].saw : calls'[x].email = calls[x].email
      BY <3>1, <1>1 DEF Evolves
    <3> QED BY <3>1, <3>2, <3>3, <3>4, <1>0, <1>y DEF OwnWay, Goes
  <2> QED BY <2>1, <2>0, <1>r, <1>p DEF Untouched, Live, Put
<1>8. CardsApart'
  BY <1>4, <1>r, <1>p DEF CardsApart, SignUpInv, Rows, Put
<1> QED
  BY <1>2, <1>3, <1>5, <1>6, <1>7, <1>8 DEF SignUpInv

\* An account is written: on a row that was there, or on a new one.
LEMMA AccountKeeps ==
    ASSUME SignUpInv, NEW c \in DOMAIN calls, calls[c].at = "write",
           NEW i \in Nat, Wrote(c, i), NEW r \in Row, Put(i, r),
           r.email = calls[c].email, r.password = c,
           \/ /\ i \in Rows /\ i = calls[c].row
              /\ r.status = licences[i].status /\ r.link = licences[i].link
              /\ r.verified = licences[i].verified
              /\ r.card = IF calls[c].kind = "register" THEN calls[c].card
                                                        ELSE licences[i].card
           \/ /\ i \notin DOMAIN licences /\ r.status = "active" /\ r.link = 0
              /\ ~r.verified /\ calls[c].row = 0
              /\ r.card = IF calls[c].kind = "register" THEN calls[c].card ELSE NoCard,
           UNCHANGED <<pending, inbox, touched, admin, crashes>>
    PROVE  SignUpInv'
<1> DEFINE q == [calls[c] EXCEPT !.row = i, !.wrote = TRUE,
                     !.at = IF calls[c].kind = "register" THEN "drop" ELSE "done"]
<1>z. calls[c] \in Call /\ c \in 1..MaxCalls /\ SignUpTypeOK /\ c \notin Writers
      /\ calls[c].kind \in Creating
  BY SignUpAssumption DEF SignUpInv, SignUpTypeOK, SignUpAssumption, Writers, Formed
<1>y. /\ q \in Call /\ q.row = i /\ q.wrote
      /\ q.at = IF calls[c].kind = "register" THEN "drop" ELSE "done"
      /\ q.kind = calls[c].kind /\ q.email = calls[c].email /\ q.card = calls[c].card
      /\ q.link = calls[c].link /\ q.saw = calls[c].saw
  BY <1>z DEF Call
<1>w. calls' = [calls EXCEPT ![c] = q]
  BY <1>z DEF SignUpTypeOK, Wrote
<1> HIDE DEF q
<1>0. Goes(c, q)
  BY <1>y, <1>w, StepShape DEF SignUpInv
<1>1. Evolves /\ Writers' = Writers \cup {c}
  BY <1>0, <1>y DEF Goes, Evolves
<1>i. i # 0 /\ i \in 1..Len(licences') /\ licences'[i] = r
      /\ \A j \in DOMAIN licences : j # i => licences'[j] = licences[j]
  BY DEF Put
<1>m. Formed(q)
  BY <1>y, <1>z, <1>i DEF Formed, SignUpInv
<1>r. /\ Rows' = Rows \cup {i}
      /\ \A j \in DOMAIN licences : licences'[j].email = licences[j].email
            /\ licences'[j].status = licences[j].status /\ licences'[j].link = licences[j].link
            /\ licences'[j].verified = licences[j].verified
  <2>1. ASSUME NEW j \in DOMAIN licences
        PROVE  licences'[j].email = licences[j].email
            /\ licences'[j].status = licences[j].status /\ licences'[j].link = licences[j].link
            /\ licences'[j].verified = licences[j].verified
    <3>1. CASE j # i BY <3>1, <1>i
    <3>2. CASE j = i
      BY <3>2, <1>i, <1>z DEF SignUpInv, Refers, Creating
    <3> QED BY <3>1, <3>2
  <2> QED BY <2>1, <1>i DEF Put, Rows, Live
<1>2. SignUpTypeOK' /\ Len(calls') <= MaxCalls
  BY <1>0, <1>z DEF Goes, Put, SignUpTypeOK
<1>3. \A l \in inbox' : Made(l)'
  BY <1>1, Keeps DEF SignUpInv
<1>4. \A k : Clash(k) => Clash(k)'
  BY <1>1, ClashStays
<1>o. \A d \in Writers : c \notin calls[d].saw /\ calls[d].saw \subseteq Writers
  BY <1>z DEF SignUpInv, Refers, Writers
<1>5. ASSUME NEW d \in DOMAIN calls'
      PROVE  Formed(calls[d])' /\ Refers(calls[d])' /\ Opened(d)' /\ Checked(d)'
  <2>1. Formed(calls[d])'
    BY <1>0, <1>m DEF Goes, Formed, SignUpInv
  <2>2. Refers(calls[d])'
    <3>1. CASE d = c
      BY <3>1, <1>0, <1>y, <1>i, <1>1 DEF Refers, Goes, SignUpInv
    <3>2. CASE d # c
      <4>1. calls'[d] = calls[d] /\ d \in DOMAIN calls BY <3>2, <1>0 DEF Goes
      <4>2. Refers(calls[d]) BY <4>1 DEF SignUpInv
      <4> QED BY <4>1, <4>2, <1>r, <1>1, <1>z DEF Refers, Put, SignUpTypeOK
    <3> QED BY <3>1, <3>2
  <2>3. Opened(d)'
    <3>1. CASE d = c
      BY <3>1, <1>0, <1>y, <1>z DEF Opened, Goes, Creating
    <3>2. CASE d # c
      BY <3>2, <1>0, <1>1, Keeps DEF Opened, SignUpInv, Goes
    <3> QED BY <3>1, <3>2
  <2>4. Checked(d)'
    <3> SUFFICES ASSUME calls'[d].kind = "register", calls'[d].at = "write",
                        calls'[d].card \in Marked, NEW j \in Rows',
                        licences'[j].card = calls'[d].card, licences'[j].email # calls'[d].email
                 PROVE  \/ Clash(calls[d].card)'
                        \/ \E x \in Writers' \ calls'[d].saw :
                              calls'[x].card = calls'[d].card /\ calls'[x].email # calls'[d].email
      BY DEF Checked
    <3>1. d # c /\ calls'[d] = calls[d] /\ d \in DOMAIN calls
      BY <1>0, <1>y DEF Goes
    <3>2. CASE j = i /\ calls[c].kind = "register"
      <4>1. c \in Writers' \ calls'[d].saw
        BY <3>1, <1>1, <1>z DEF SignUpInv, Refers
      <4> QED BY <4>1, <3>1, <3>2, <1>0, <1>y, <1>i DEF Goes
    <3>3. CASE j # i \/ calls[c].kind # "register"
      <4>1. j \in Rows /\ licences[j].card = calls[d].card /\ licences[j].email # calls[d].email
        BY <3>1, <3>3, <1>r, <1>i, SignUpAssumption
           DEF Put, SignUpInv, Formed, Rows, SignUpAssumption
      <4>2. \/ Clash(calls[d].card)
            \/ \E x \in Writers \ calls[d].saw :
                  calls[x].card = calls[d].card /\ calls[x].email # calls[d].email
        BY <4>1, <3>1 DEF SignUpInv, Checked
      <4> QED BY <4>2, <3>1, <1>1, <1>4 DEF Evolves, Writers
    <3> QED BY <3>2, <3>3
  <2> QED BY <2>1, <2>2, <2>3, <2>4
<1>6. ASSUME NEW j \in DOMAIN licences' PROVE Owned(j)' /\ Linked(j)'
  <2>1. Linked(j)'
    <3>1. CASE j \in DOMAIN licences
      <4>1. /\ licences'[j].link = licences[j].link
            /\ licences'[j].verified = licences[j].verified
            /\ Linked(j)
        BY <3>1, <1>r DEF SignUpInv
      <4>2. \A l : Made(l) => Made(l)' /\ calls'[l].row = calls[l].row
        BY <1>1, Keeps
      <4> QED BY <4>1, <4>2, <1>1 DEF Linked, Evolves
    <3>2. CASE j \notin DOMAIN licences
      BY <3>2, <1>i DEF Linked, Put, Rows
    <3> QED BY <3>1, <3>2
  <2>a. \A d \in DOMAIN calls : d # c => calls'[d] = calls[d]
    BY <1>0 DEF Goes
  <2>b. calls'[c] = q
    BY <1>0 DEF Goes
  <2>2. Owned(j)'
    <3>1. CASE j # i
      <4>1. j \in DOMAIN licences /\ licences'[j] = licences[j]
        BY <3>1, <1>i DEF Put
      <4>2. Owned(j) BY <4>1 DEF SignUpInv
      <4> QED BY <4>1, <4>2, <1>1, <1>z, <2>a DEF Owned, Writers
    <3>2. CASE j = i
      <4>1. c \in Writers' /\ calls'[c].row = i
        BY <1>1, <2>b, <1>y
      <4>2. r.card \in Marked => \E x \in Writers' :
                calls'[x].card = r.card /\ calls'[x].email = r.email
        <5>1. CASE calls[c].kind = "register"
          BY <5>1, <4>1, <2>b, <1>y
        <5>2. CASE calls[c].kind # "register" /\ i \in Rows
          <6>1. Owned(i) /\ r.card = licences[i].card /\ r.email = licences[i].email
            BY <5>2, <1>z DEF SignUpInv, Rows, Refers, Creating, Put
          <6> QED BY <6>1, <1>1, <1>z, <2>a DEF Owned, Writers
        <5>3. CASE calls[c].kind # "register" /\ i \notin Rows
          BY <5>3, SignUpAssumption DEF SignUpAssumption
        <5> QED BY <5>1, <5>2, <5>3
      <4> QED BY <3>2, <4>1, <4>2, <1>i DEF Owned
    <3> QED BY <3>1, <3>2
  <2> QED BY <2>1, <2>2
<1>7. ASSUME NEW e \in Emails \ touched' PROVE Untouched(e)'
  <2>0. Untouched(e)
    BY <1>7 DEF SignUpInv
  <2>1. ASSUME NEW j \in DOMAIN licences', licences'[j].email = e
        PROVE  Live(j)' /\ licences'[j].password # 0
    <3>1. CASE j = i
      BY <3>1, <1>i, <1>z DEF Rows, Live
    <3>2. CASE j # i
      BY <3>2, <1>i, <2>0, <2>1 DEF Untouched, Put, Live
    <3> QED BY <3>1, <3>2
  <2>2. ASSUME NEW d \in DOMAIN calls', calls'[d].email = e PROVE OwnWay(d)'
    <3>1. /\ d \in DOMAIN calls /\ calls[d].email = e /\ OwnWay(d)
          /\ calls[d].saw \subseteq DOMAIN calls /\ calls'[d].saw = calls[d].saw
      BY <2>0, <2>2, <1>0, <1>y DEF Goes, Untouched, SignUpInv, Refers, Writers
    <3>2. \A x \in calls[d].saw : calls'[x].email = calls[x].email
      BY <3>1, <1>1 DEF Evolves
    <3>3. CASE d = c
      <4>1. calls'[d] = q BY <3>3, <1>0 DEF Goes
      <4> QED BY <4>1, <3>1, <3>2, <3>3, <1>y, <1>i, <1>z DEF OwnWay
    <3>4. CASE d # c
      <4>1. calls'[d] = calls[d] BY <3>4, <1>0 DEF Goes
      <4>2. calls[d].wrote /\ calls[d].kind \in Creating => calls[d].row # i
        <5>1. SUFFICES ASSUME calls[d].wrote, calls[d].kind \in Creating, calls[d].row = i
                       PROVE  FALSE
          OBVIOUS
        <5>2. i \in DOMAIN licences /\ licences[i].email = e
          BY <5>1, <3>1, <1>i DEF SignUpInv, Refers, Creating, SignUpTypeOK
        <5>3. calls[c].row = i /\ calls[c].email = e
          BY <5>2, <1>z, <1>i DEF SignUpInv, Refers, Creating
        <5>4. calls[c].row = 0
          BY <5>3, <2>0, <1>z DEF Untouched, OwnWay
        <5> QED BY <5>3, <5>4, <1>i
      <4>3. calls[d].wrote /\ calls[d].kind \in Creating
              => licences'[calls[d].row].password = licences[calls[d].row].password
        BY <4>2, <3>1, <1>i DEF SignUpInv, Refers, Formed, SignUpTypeOK
      <4> QED BY <4>1, <4>3, <3>1, <3>2 DEF OwnWay
    <3> QED BY <3>3, <3>4
  <2> QED BY <2>1, <2>2 DEF Untouched
<1>8. CardsApart'
  <2>1. ASSUME NEW j \in Rows, j # i, r.card \in Marked, licences[j].card = r.card,
               licences[j].email # r.email
        PROVE  Clash(r.card)'
    <3>1. CASE calls[c].kind = "register"
      <4>1. r.card = calls[c].card /\ r.email = calls[c].email
        BY <3>1
      <4>2. \/ Clash(r.card)
            \/ \E x \in Writers \ calls[c].saw :
                  calls[x].card = calls[c].card /\ calls[x].email # calls[c].email
        BY <2>1, <3>1, <4>1 DEF SignUpInv, Checked
      <4>3. ASSUME NEW x \in Writers \ calls[c].saw,
                   calls[x].card = calls[c].card, calls[x].email # calls[c].email
            PROVE  Clash(r.card)'
        <5>1. x # c /\ c \notin calls[x].saw /\ x \in Writers' /\ c \in Writers'
          BY <4>3, <1>o, <1>1, <1>z
        <5>2. calls'[x] = calls[x] /\ calls'[c] = q
          BY <5>1, <1>0 DEF Goes, Writers
        <5>3. Overlapped(x, c)'
          BY <5>1, <5>2, <4>3, <1>y DEF Overlapped
        <5> QED BY <5>1, <5>2, <5>3, <4>1, <4>3, <1>y DEF Clash
      <4> QED BY <4>2, <4>3, <1>4
    <3>2. CASE calls[c].kind # "register"
      <4>1. i \in Rows /\ r.card = licences[i].card /\ licences[i].email = r.email
        BY <2>1, <3>2, <1>z, <1>i, SignUpAssumption
           DEF SignUpAssumption, SignUpInv, Refers, Creating
      <4> QED BY <4>1, <2>1, <1>4 DEF SignUpInv, CardsApart
    <3> QED BY <3>1, <3>2
  <2>2. ASSUME NEW j \in Rows', NEW k \in Rows',
               licences'[j].card \in Marked, licences'[j].card = licences'[k].card,
               licences'[j].email # licences'[k].email
        PROVE  Clash(licences[j].card)'
    <3>1. CASE j = i
      BY <3>1, <2>1, <2>2, <1>i, <1>r DEF Rows
    <3>2. CASE k = i
      BY <3>2, <2>1, <2>2, <1>i, <1>r DEF Rows
    <3>3. CASE j # i /\ k # i
      BY <3>3, <2>2, <1>i, <1>r, <1>4 DEF SignUpInv, CardsApart, Rows
    <3> QED BY <3>1, <3>2, <3>3
  <2> QED BY <2>2 DEF CardsApart
<1> QED
  BY <1>2, <1>3, <1>5, <1>6, <1>7, <1>8 DEF SignUpInv

\* The administrator writes a row: he creates it, or changes its status.
LEMMA AdminKeeps ==
    ASSUME SignUpInv, NEW i \in Nat, NEW r \in Row, Put(i, r), Act(r.email),
           \/ /\ i \notin DOMAIN licences /\ r.card = NoCard /\ r.password = 0 /\ r.link = 0
              /\ ~r.verified
           \/ /\ i \in Rows /\ r.email = licences[i].email
              /\ r.password = licences[i].password /\ r.card = licences[i].card
              /\ r.link = licences[i].link /\ r.verified = licences[i].verified,
           UNCHANGED <<pending, calls, inbox, crashes>>
    PROVE  SignUpInv'
<1>1. Evolves /\ Writers' = Writers /\ SignUpTypeOK
  BY DEF Evolves, Writers, SignUpInv
<1>i. licences'[i] = r /\ \A j \in DOMAIN licences : j # i => licences'[j] = licences[j]
  BY DEF Put
<1>r. /\ \A j \in DOMAIN licences : licences'[j].email = licences[j].email
            /\ licences'[j].link = licences[j].link /\ licences'[j].card = licences[j].card
            /\ licences'[j].verified = licences[j].verified
            /\ licences'[j].password = licences[j].password
      /\ \A j \in Rows' : licences'[j].card \in Marked => j \in Rows
  <2>1. i \in Rows => i \in DOMAIN licences
    BY DEF Rows
  <2>2. NoCard \notin Marked
    BY SignUpAssumption DEF SignUpAssumption
  <2>3. ASSUME NEW j \in Rows', licences'[j].card \in Marked
        PROVE  j \in Rows
    <3>1. CASE j = i
      BY <3>1, <2>2, <2>3, <1>i
    <3>2. CASE j # i
      BY <3>2, <2>3, <1>i DEF Put, Rows, Live
    <3> QED BY <3>1, <3>2
  <2> QED BY <2>1, <2>3, <1>i DEF Put
<1>2. SignUpTypeOK' /\ Len(calls') <= MaxCalls
  <2>1. r.email \in Emails /\ MaxEvents \in Nat
    BY SignUpAssumption DEF Row, SignUpAssumption
  <2>2. touched' \subseteq Emails /\ admin' \in Nat /\ admin' + crashes <= MaxEvents
    BY <1>1, <2>1 DEF SignUpTypeOK, Act
  <2> QED BY <1>1, <2>2 DEF Put, SignUpTypeOK, SignUpInv
<1>3. \A l \in inbox' : Made(l)'
  BY <1>1, Keeps DEF SignUpInv
<1>4. \A k : Clash(k) => Clash(k)'
  BY <1>1, ClashStays
<1>5. ASSUME NEW d \in DOMAIN calls'
      PROVE  Formed(calls[d])' /\ Refers(calls[d])' /\ Opened(d)' /\ Checked(d)'
  <2>1. Formed(calls[d])' /\ Opened(d)'
    BY <1>1 DEF Formed, SignUpInv, Opened
  <2>2. Refers(calls[d])'
    BY <1>r, <1>1 DEF Refers, Put, SignUpInv, SignUpTypeOK
  <2>3. Checked(d)'
    BY <1>r, <1>1, <1>4 DEF Checked, SignUpInv, Formed, Rows
  <2> QED BY <2>1, <2>2, <2>3
<1>6. ASSUME NEW j \in DOMAIN licences' PROVE Owned(j)' /\ Linked(j)'
  <2>1. CASE j \in DOMAIN licences
    <3>1. Owned(j) /\ Linked(j)
      BY <2>1 DEF SignUpInv
    <3>2. Owned(j)'
      BY <3>1, <2>1, <1>r, <1>1 DEF Owned
    <3>3. Linked(j)'
      BY <3>1, <2>1, <1>r, <1>1 DEF Linked, Made
    <3> QED BY <3>2, <3>3
  <2>2. CASE j \notin DOMAIN licences
    BY <2>2, <1>i, SignUpAssumption DEF Owned, Linked, Put, Rows, SignUpAssumption
  <2> QED BY <2>1, <2>2
<1>7. ASSUME NEW e \in Emails \ touched' PROVE Untouched(e)'
  <2>0. Untouched(e) /\ e # r.email
    BY <1>7 DEF SignUpInv, Act
  <2>1. ASSUME NEW j \in DOMAIN licences', licences'[j].email = e
        PROVE  Live(j)' /\ licences'[j].password # 0
    BY <2>0, <2>1, <1>i DEF Untouched, Live, Put
  <2>2. ASSUME NEW d \in DOMAIN calls', calls'[d].email = e PROVE OwnWay(d)'
    BY <2>0, <2>2, <1>r DEF Untouched, OwnWay, SignUpInv, Formed, Refers, SignUpTypeOK
  <2> QED BY <2>1, <2>2 DEF Untouched
<1>8. CardsApart'
  BY <1>4, <1>r DEF CardsApart, SignUpInv, Rows
<1> QED
  BY <1>2, <1>3, <1>5, <1>6, <1>7, <1>8 DEF SignUpInv

LEMMA CrashKeeps == SignUpInv /\ Crash => SignUpInv'
<1> SUFFICES ASSUME SignUpInv, Crash PROVE SignUpInv'
  OBVIOUS
<1> DEFINE q(c) == IF calls[c].at \in Over THEN calls[c] ELSE [calls[c] EXCEPT !.at = "dead"]
<1>a. calls \in Seq(Call) /\ DOMAIN calls = 1..Len(calls) /\ Len(calls) \in Nat
  BY DEF SignUpInv, SignUpTypeOK
<1>b. \A c \in DOMAIN calls : /\ q(c) \in Call /\ calls'[c] = q(c)
                              /\ q(c).at \in {calls[c].at, "dead"} /\ q(c).at \in Over
                              /\ calls[c].at = "done" => q(c).at = "done"
                              /\ calls[c].wrote => q(c).at # "refused"
                              /\ q(c).kind = calls[c].kind /\ q(c).email = calls[c].email
                              /\ q(c).card = calls[c].card /\ q(c).link = calls[c].link
                              /\ q(c).wrote = calls[c].wrote /\ q(c).row = calls[c].row
                              /\ q(c).saw = calls[c].saw
  <2> SUFFICES ASSUME NEW c \in DOMAIN calls
               PROVE  /\ q(c) \in Call /\ calls'[c] = q(c)
                      /\ q(c).at \in {calls[c].at, "dead"} /\ q(c).at \in Over
                      /\ calls[c].at = "done" => q(c).at = "done"
                      /\ calls[c].wrote => q(c).at # "refused"
                      /\ q(c).kind = calls[c].kind /\ q(c).email = calls[c].email
                      /\ q(c).card = calls[c].card /\ q(c).link = calls[c].link
                      /\ q(c).wrote = calls[c].wrote /\ q(c).row = calls[c].row
                      /\ q(c).saw = calls[c].saw
    OBVIOUS
  <2>1. calls[c] \in Call /\ calls'[c] = q(c) /\ (calls[c].wrote => calls[c].at # "refused")
    BY <1>a DEF Crash, SignUpInv, Formed
  <2> QED BY <2>1 DEF Call, Over
<1>c. /\ calls' \in Seq(Call) /\ Len(calls') = Len(calls) /\ DOMAIN calls' = DOMAIN calls
  BY <1>a, <1>b DEF Crash
<1> HIDE DEF q
<1>1. Evolves /\ Writers' = Writers
  BY <1>b, <1>c DEF Evolves, Writers, Over
<1>2. SignUpTypeOK' /\ Len(calls') <= MaxCalls
  <2>1. pending' \in [Emails -> Cards \cup {NoCard}] /\ crashes' \in Nat
            /\ admin + crashes' <= MaxEvents
    BY SignUpAssumption DEF Crash, SignUpInv, SignUpTypeOK, SignUpAssumption
  <2> QED BY <1>c, <2>1 DEF Crash, SignUpInv, SignUpTypeOK
<1>3. \A l \in inbox' : Made(l)'
  BY <1>1, Keeps DEF SignUpInv, Crash
<1>4. \A k : Clash(k) => Clash(k)'
  BY <1>1, ClashStays
<1>5. ASSUME NEW d \in DOMAIN calls'
      PROVE  Formed(calls[d])' /\ Refers(calls[d])' /\ Opened(d)' /\ Checked(d)'
  <2>1. Formed(calls[d])'
    BY <1>b, <1>c DEF Formed, SignUpInv, Over
  <2>2. Refers(calls[d])'
    BY <1>b, <1>c, <1>1 DEF Refers, SignUpInv, Crash
  <2>3. Opened(d)'
    BY <1>b, <1>c, <1>1, Keeps DEF Opened, SignUpInv, Crash
  <2>4. Checked(d)'
    BY <1>b, <1>c DEF Checked, Over
  <2> QED BY <2>1, <2>2, <2>3, <2>4
<1>6. ASSUME NEW j \in DOMAIN licences' PROVE Owned(j)' /\ Linked(j)'
  <2>1. Linked(j)'
    BY <1>1, Keeps DEF SignUpInv, Crash
  <2>2. Owned(j)'
    BY <1>b, <1>c, <1>1 DEF Owned, SignUpInv, Crash, Writers
  <2> QED BY <2>1, <2>2
<1>7. ASSUME NEW e \in Emails \ touched' PROVE Untouched(e)'
  <2>0. Untouched(e) /\ licences' = licences
    BY <1>7 DEF SignUpInv, Crash
  <2>1. ASSUME NEW d \in DOMAIN calls', calls'[d].email = e PROVE OwnWay(d)'
    <3>1. OwnWay(d) /\ calls[d].saw \subseteq DOMAIN calls /\ d \in DOMAIN calls
      BY <2>0, <2>1, <1>b, <1>c DEF Untouched, SignUpInv, Refers, Writers
    <3> QED BY <2>0, <3>1, <1>b, <1>c DEF OwnWay, Over
  <2> QED BY <2>0, <2>1 DEF Untouched, Live
<1>8. CardsApart'
  BY <1>4 DEF CardsApart, SignUpInv, Rows, Live, Crash
<1> QED
  BY <1>2, <1>3, <1>5, <1>6, <1>7, <1>8 DEF SignUpInv

------------------------------------------------------------------------------
\* The actions.

LEMMA SignUpInitInv == SignUpInit => SignUpInv
<1> SUFFICES ASSUME SignUpInit PROVE SignUpInv
  OBVIOUS
<1>1. SignUpTypeOK /\ Len(calls) <= MaxCalls
  BY SignUpAssumption DEF SignUpInit, SignUpTypeOK, SignUpAssumption
<1> QED
  BY <1>1 DEF SignUpInit, SignUpInv, Untouched, CardsApart, Rows

LEMMA NewCallShape ==
    ASSUME SignUpInv, NEW kind \in {"card", "register", "signup", "resend", "open"}
    PROVE  /\ NewCall(kind) \in Call /\ NewCall(kind).kind = kind /\ NewCall(kind).row = 0
           /\ NewCall(kind).saw = {} /\ ~NewCall(kind).wrote /\ NewCall(kind).at = "check"
           /\ NewCall(kind).card = NoCard
<1>1. Now \in Nat /\ MaxCalls \in Nat
  BY SignUpAssumption DEF SignUpInv, SignUpTypeOK, Now, SignUpAssumption
<1> QED
  BY <1>1 DEF NewCall, Call

LEMMA SetupCardKeeps == SignUpInv /\ SetupCard => SignUpInv'
<1> SUFFICES ASSUME SignUpInv, SetupCard PROVE SignUpInv'
  OBVIOUS
<1>1. PICK e \in Emails, k \in Cards :
          Begin([NewCall("card") EXCEPT !.email = e, !.card = k, !.at = "save"])
  BY DEF SetupCard
<1> DEFINE r == NewCall("card")
         q == [r EXCEPT !.email = e, !.card = k, !.at = "save"]
<1>0. r \in Call /\ r.kind = "card" /\ r.row = 0 /\ r.saw = {} /\ ~r.wrote /\ r.at = "check"
         /\ r.card = NoCard
  BY NewCallShape
<1>2. MaxCalls \in Nat /\ Len(licences) \in Nat
  BY SignUpAssumption DEF SignUpAssumption, SignUpInv, SignUpTypeOK
<1>3. /\ q \in Call /\ q.kind = "card" /\ q.at = "save" /\ ~q.wrote /\ q.row = 0
      /\ q.saw = {} /\ q.email = e
  <2> HIDE DEF r
  <2> QED BY <1>0, <1>2 DEF Call
<1> HIDE DEF q
<1>4. Formed(q) /\ Refers(q)
  BY <1>2, <1>3 DEF Formed, Refers, Creating
<1> QED
  <2>1. Begin(q)
    BY <1>1 DEF q
  <2> QED BY <2>1, <1>3, <1>4, BeginKeeps DEF SetupCard

LEMMA RegisterKeeps == SignUpInv /\ Register => SignUpInv'
<1> SUFFICES ASSUME SignUpInv, Register PROVE SignUpInv'
  OBVIOUS
<1>1. PICK e \in Emails :
          /\ pending[e] # NoCard
          /\ Begin([NewCall("register") EXCEPT !.email = e, !.card = pending[e]])
  BY DEF Register
<1> DEFINE r == NewCall("register")
         q == [r EXCEPT !.email = e, !.card = pending[e]]
<1>0. r \in Call /\ r.kind = "register" /\ r.row = 0 /\ r.saw = {} /\ ~r.wrote /\ r.at = "check"
         /\ r.card = NoCard
  BY NewCallShape
<1>2. MaxCalls \in Nat /\ pending[e] \in Cards /\ Len(licences) \in Nat
  BY <1>1, SignUpAssumption DEF SignUpInv, SignUpTypeOK, SignUpAssumption
<1>3. /\ q \in Call /\ q.kind = "register" /\ q.at = "check" /\ ~q.wrote /\ q.row = 0
      /\ q.saw = {} /\ q.email = e /\ q.card \in Cards
  <2> HIDE DEF r
  <2> QED BY <1>0, <1>2 DEF Call
<1> HIDE DEF q
<1>4. Formed(q) /\ Refers(q)
  BY <1>2, <1>3 DEF Formed, Refers, Creating
<1> QED
  <2>1. Begin(q)
    BY <1>1 DEF q
  <2> QED BY <2>1, <1>3, <1>4, BeginKeeps DEF Register

\* A writer of an address the administrator has not dealt with holds a live account of
\* it, so that no check of another request finds it free.
LEMMA NobodySeen ==
    ASSUME SignUpInv, NEW e \in Emails \ touched, NEW i \in Rows \cup {0},
           IF i = 0 THEN Unknown(e) ELSE Latest(e, i) /\ licences[i].password = 0
    PROVE  i = 0 /\ \A d \in Writers : calls[d].email # e
<1>0. Untouched(e)
  BY DEF SignUpInv
<1>1. i = 0
  BY <1>0 DEF Untouched, Latest, Rows
<1>2. ASSUME NEW d \in Writers, calls[d].email = e PROVE FALSE
  <2>1. Formed(calls[d]) /\ Refers(calls[d]) /\ calls[d].wrote
    BY DEF SignUpInv, Writers
  <2>2. calls[d].row \in DOMAIN licences /\ licences[calls[d].row].email = e
    BY <2>1, <1>2 DEF Formed, Refers, Creating, SignUpInv, SignUpTypeOK
  <2>3. calls[d].row \in Rows
    BY <2>2, <1>0 DEF Untouched, Rows
  <2> QED BY <1>1, <2>2, <2>3 DEF Unknown
<1> QED
  BY <1>1, <1>2

LEMMA SignUpKeeps == SignUpInv /\ SignUp => SignUpInv'
<1> SUFFICES ASSUME SignUpInv, SignUp PROVE SignUpInv'
  OBVIOUS
<1>1. PICK e \in Emails, i \in Rows \cup {0} :
          /\ IF i = 0 THEN Unknown(e) ELSE Latest(e, i) /\ licences[i].password = 0
          /\ Begin([NewCall("signup") EXCEPT !.email = e, !.row = i,
                        !.saw = Writers, !.at = "write"])
  BY DEF SignUp
<1> DEFINE r == NewCall("signup")
         q == [r EXCEPT !.email = e, !.row = i, !.saw = Writers, !.at = "write"]
<1>0. r \in Call /\ r.kind = "signup" /\ r.row = 0 /\ r.saw = {} /\ ~r.wrote /\ r.at = "check"
         /\ r.card = NoCard
  BY NewCallShape
<1>2. /\ MaxCalls \in Nat /\ i \in Nat /\ i \in 0..Len(licences)
      /\ Writers \in SUBSET (1..MaxCalls)
  BY <1>1, SignUpAssumption DEF SignUpInv, SignUpTypeOK, SignUpAssumption, Rows, Writers
<1>3. /\ q \in Call /\ q.kind = "signup" /\ q.at = "write" /\ ~q.wrote /\ q.row = i
      /\ q.saw = Writers /\ q.email = e /\ q.card = NoCard
  <2> HIDE DEF r
  <2> QED BY <1>0, <1>2 DEF Call
<1> HIDE DEF q
<1>4. Formed(q) /\ Refers(q)
  BY <1>1, <1>2, <1>3 DEF Formed, Refers, Latest, Creating
<1>5. q.email \notin touched => q.row = 0 /\ \A d \in q.saw : calls[d].email # q.email
  BY <1>1, <1>3, NobodySeen
<1> QED
  <2>1. Begin(q)
    BY <1>1 DEF q
  <2> QED BY <2>1, <1>3, <1>4, <1>5, BeginKeeps DEF SignUp

LEMMA ResendKeeps == SignUpInv /\ Resend => SignUpInv'
<1> SUFFICES ASSUME SignUpInv, Resend PROVE SignUpInv'
  OBVIOUS
<1>1. PICK i \in Rows :
          Begin([NewCall("resend") EXCEPT !.email = licences[i].email,
                        !.row = i, !.at = "link"])
  BY DEF Resend
<1> DEFINE r == NewCall("resend")
         q == [r EXCEPT !.email = licences[i].email, !.row = i, !.at = "link"]
<1>0. r \in Call /\ r.kind = "resend" /\ r.row = 0 /\ r.saw = {} /\ ~r.wrote /\ r.at = "check"
         /\ r.card = NoCard
  BY NewCallShape
<1>2. /\ MaxCalls \in Nat /\ i \in Nat /\ i \in 1..Len(licences)
      /\ licences[i].email \in Emails
  <2>1. licences[i] \in Row /\ i \in DOMAIN licences
    BY <1>1 DEF SignUpInv, SignUpTypeOK, Rows
  <2> QED BY <2>1, SignUpAssumption DEF SignUpInv, SignUpTypeOK, SignUpAssumption, Row
<1>3. /\ q \in Call /\ q.kind = "resend" /\ q.at = "link" /\ ~q.wrote /\ q.row = i
      /\ q.saw = {} /\ q.email = licences[i].email
  <2> HIDE DEF r
  <2> QED BY <1>0, <1>2 DEF Call
<1> HIDE DEF q
<1>4. Formed(q) /\ Refers(q)
  BY <1>2, <1>3 DEF Formed, Refers, Creating
<1> QED
  <2>1. Begin(q)
    BY <1>1 DEF q
  <2> QED BY <2>1, <1>3, <1>4, BeginKeeps DEF Resend

LEMMA OpenKeeps == SignUpInv /\ Open => SignUpInv'
<1> SUFFICES ASSUME SignUpInv, Open PROVE SignUpInv'
  OBVIOUS
<1>1. PICK l \in inbox : \E i \in {j \in Rows : licences[j].link = l} :
             Begin([NewCall("open") EXCEPT !.link = l, !.row = i, !.at = "verify"])
  BY DEF Open
<1>2. PICK i \in Rows : /\ licences[i].link = l
             /\ Begin([NewCall("open") EXCEPT !.link = l, !.row = i, !.at = "verify"])
  BY <1>1
<1> DEFINE r == NewCall("open")
         q == [r EXCEPT !.link = l, !.row = i, !.at = "verify"]
<1>0. r \in Call /\ r.kind = "open" /\ r.row = 0 /\ r.saw = {} /\ ~r.wrote /\ r.at = "check"
         /\ r.card = NoCard
  BY NewCallShape
<1>3. /\ MaxCalls \in Nat /\ i \in Nat /\ i \in 1..Len(licences)
      /\ l \in 0..MaxCalls /\ l # 0
  BY SignUpAssumption DEF SignUpInv, SignUpTypeOK, SignUpAssumption, Rows
<1>4. /\ q \in Call /\ q.kind = "open" /\ q.at = "verify" /\ ~q.wrote /\ q.row = i
      /\ q.saw = {} /\ q.link = l
  <2> HIDE DEF r
  <2> QED BY <1>0, <1>3 DEF Call
<1> HIDE DEF q
<1>5. Formed(q) /\ Refers(q)
  BY <1>3, <1>4 DEF Formed, Refers, Creating
<1>6. calls[l].row = i
  BY <1>2, <1>3 DEF SignUpInv, Linked, Rows
<1> QED
  <2>1. Begin(q)
    BY <1>2 DEF q
  <2> QED BY <2>1, <1>4, <1>5, <1>6, BeginKeeps DEF Open

LEMMA GotoShape ==
    ASSUME SignUpInv, NEW c \in DOMAIN calls,
           NEW label \in {"link", "mail", "done", "refused"}, Goto(c, label)
    PROVE  \E q \in Call :
              /\ calls' = [calls EXCEPT ![c] = q] /\ q.at = label
              /\ q.kind = calls[c].kind /\ q.email = calls[c].email
              /\ q.card = calls[c].card /\ q.link = calls[c].link
              /\ q.row = calls[c].row /\ q.saw = calls[c].saw /\ q.wrote = calls[c].wrote
<1> DEFINE q == [calls[c] EXCEPT !.at = label]
<1>1. calls[c] \in Call
  BY DEF SignUpInv, SignUpTypeOK
<1>2. /\ q \in Call /\ q.at = label
      /\ q.kind = calls[c].kind /\ q.email = calls[c].email
      /\ q.card = calls[c].card /\ q.link = calls[c].link
      /\ q.row = calls[c].row /\ q.saw = calls[c].saw /\ q.wrote = calls[c].wrote
  BY <1>1 DEF Call
<1>3. calls' = [calls EXCEPT ![c] = q]
  BY <1>1 DEF Goto
<1> QED
  BY <1>2, <1>3

LEMMA SaveCardKeeps == ASSUME SignUpInv, NEW c \in DOMAIN calls, SaveCard(c) PROVE SignUpInv'
<1>1. PICK q \in Call :
              /\ calls' = [calls EXCEPT ![c] = q] /\ q.at = "done"
              /\ q.kind = calls[c].kind /\ q.email = calls[c].email
              /\ q.card = calls[c].card /\ q.link = calls[c].link
              /\ q.row = calls[c].row /\ q.saw = calls[c].saw /\ q.wrote = calls[c].wrote
  BY GotoShape DEF SaveCard
<1>2. calls[c].kind = "card" /\ calls[c].at = "save" /\ Formed(calls[c]) /\ Refers(calls[c])
  BY DEF SaveCard, At, SignUpInv
<1>3. Formed(q) /\ Refers(q)
  BY <1>1, <1>2 DEF Formed, Refers, Creating
<1>4. pending' \in [Emails -> Cards \cup {NoCard}]
  <2>1. calls[c] \in Call /\ pending \in [Emails -> Cards \cup {NoCard}]
    BY DEF SignUpInv, SignUpTypeOK
  <2> QED BY <2>1, <1>2 DEF SaveCard, Formed, Call
<1> QED
  BY <1>1, <1>2, <1>3, <1>4, MoveKeeps DEF SaveCard, Creating

LEMMA DropPendingKeeps == ASSUME SignUpInv, NEW c \in DOMAIN calls, DropPending(c) PROVE SignUpInv'
<1>1. PICK q \in Call :
              /\ calls' = [calls EXCEPT ![c] = q] /\ q.at = "link"
              /\ q.kind = calls[c].kind /\ q.email = calls[c].email
              /\ q.card = calls[c].card /\ q.link = calls[c].link
              /\ q.row = calls[c].row /\ q.saw = calls[c].saw /\ q.wrote = calls[c].wrote
  BY GotoShape DEF DropPending
<1>2. calls[c].kind = "register" /\ calls[c].at = "drop" /\ Formed(calls[c]) /\ Refers(calls[c])
  BY DEF DropPending, At, SignUpInv
<1>3. Formed(q) /\ Refers(q)
  BY <1>1, <1>2 DEF Formed, Refers, Creating
<1>4. pending' \in [Emails -> Cards \cup {NoCard}]
  BY <1>2 DEF DropPending, SignUpInv, SignUpTypeOK
<1> QED
  BY <1>1, <1>2, <1>3, <1>4, MoveKeeps DEF DropPending

LEMMA MailLinkKeeps == ASSUME SignUpInv, NEW c \in DOMAIN calls, MailLink(c) PROVE SignUpInv'
<1>1. PICK q \in Call :
              /\ calls' = [calls EXCEPT ![c] = q] /\ q.at = "done"
              /\ q.kind = calls[c].kind /\ q.email = calls[c].email
              /\ q.card = calls[c].card /\ q.link = calls[c].link
              /\ q.row = calls[c].row /\ q.saw = calls[c].saw /\ q.wrote = calls[c].wrote
  BY GotoShape DEF MailLink
<1>2. /\ calls[c].kind \in {"register", "resend"} /\ calls[c].at = "mail"
      /\ Formed(calls[c]) /\ Refers(calls[c])
  BY DEF MailLink, At, SignUpInv
<1>3. Formed(q) /\ Refers(q) /\ Made(c)
  BY <1>1, <1>2 DEF Formed, Refers, Creating, Made
<1>4. pending' \in [Emails -> Cards \cup {NoCard}]
  BY DEF MailLink, SignUpInv, SignUpTypeOK
<1>5. q.kind \in Creating => q.wrote
  BY <1>1, <1>2 DEF Formed, Creating
<1> QED
  BY <1>1, <1>2, <1>3, <1>4, <1>5, MoveKeeps DEF MailLink

LEMMA SetLinkKeeps == ASSUME SignUpInv, NEW c \in DOMAIN calls, SetLink(c) PROVE SignUpInv'
<1>1. /\ calls[c].kind \in {"register", "resend"} /\ calls[c].at = "link"
      /\ Formed(calls[c]) /\ Refers(calls[c]) /\ calls[c] \in Call
  BY DEF SetLink, At, SignUpInv, SignUpTypeOK
<1>2. calls[c].row \in DOMAIN licences
  BY <1>1 DEF Formed, Refers, SignUpInv, SignUpTypeOK
<1>3. licences[calls[c].row] \in Row /\ c \in 1..MaxCalls /\ calls \in Seq(Call)
  BY <1>2, SignUpAssumption DEF SignUpInv, SignUpTypeOK, SignUpAssumption
<1>4. CASE Live(calls[c].row)
  <2> DEFINE r == [licences[calls[c].row] EXCEPT !.link = c]
  <2>1. r \in Row
    BY <1>3 DEF Row
  <2>2. licences' = [licences EXCEPT ![calls[c].row] = r]
    BY <1>2, <1>3, <1>4 DEF SetLink
  <2> QED
    BY <1>1, <1>2, <2>1, <2>2, LinkKeeps DEF SetLink, Goto
<1>5. CASE ~Live(calls[c].row)
  <2>1. PICK q \in Call :
              /\ calls' = [calls EXCEPT ![c] = q] /\ q.at = "mail"
              /\ q.kind = calls[c].kind /\ q.email = calls[c].email
              /\ q.card = calls[c].card /\ q.link = calls[c].link
              /\ q.row = calls[c].row /\ q.saw = calls[c].saw /\ q.wrote = calls[c].wrote
    BY GotoShape DEF SetLink
  <2>2. Formed(q) /\ Refers(q)
    BY <1>1, <2>1 DEF Formed, Refers, Creating
  <2>3. pending' \in [Emails -> Cards \cup {NoCard}]
    BY DEF SetLink, SignUpInv, SignUpTypeOK
  <2> QED
    BY <1>1, <1>5, <2>1, <2>2, <2>3, MoveKeeps DEF SetLink
<1> QED
  BY <1>4, <1>5

LEMMA VerifyKeeps == ASSUME SignUpInv, NEW c \in DOMAIN calls, Verify(c) PROVE SignUpInv'
<1>1. /\ calls[c].kind = "open" /\ calls[c].at = "verify"
      /\ Formed(calls[c]) /\ Refers(calls[c]) /\ calls[c] \in Call
  BY DEF Verify, At, SignUpInv, SignUpTypeOK
<1>2. calls[c].row \in DOMAIN licences
  BY <1>1 DEF Formed, Refers, SignUpInv, SignUpTypeOK
<1>3. licences[calls[c].row] \in Row /\ MaxCalls \in Nat
  BY <1>2, SignUpAssumption DEF SignUpInv, SignUpTypeOK, SignUpAssumption
<1>4. CASE Live(calls[c].row)
  <2> DEFINE r == [licences[calls[c].row] EXCEPT !.verified = TRUE, !.link = 0]
  <2>1. r \in Row
    <3>1. 0 \in 0..MaxCalls
      BY <1>3
    <3>2. \A w \in Row : [w EXCEPT !.verified = TRUE] \in Row
      BY DEF Row
    <3>3. \A w \in Row : [w EXCEPT !.link = 0] \in Row
      BY <3>1 DEF Row
    <3> QED BY <1>3, <3>2, <3>3
  <2>2. licences' = [licences EXCEPT ![calls[c].row] = r]
    BY <1>2, <1>3, <1>4 DEF Verify
  <2> QED
    BY <1>1, <1>2, <2>1, <2>2, LinkKeeps DEF Verify, Goto
<1>5. CASE ~Live(calls[c].row)
  <2>1. PICK q \in Call :
              /\ calls' = [calls EXCEPT ![c] = q] /\ q.at = "done"
              /\ q.kind = calls[c].kind /\ q.email = calls[c].email
              /\ q.card = calls[c].card /\ q.link = calls[c].link
              /\ q.row = calls[c].row /\ q.saw = calls[c].saw /\ q.wrote = calls[c].wrote
    BY GotoShape DEF Verify
  <2>2. Formed(q) /\ Refers(q)
    BY <1>1, <2>1 DEF Formed, Refers, Creating
  <2>3. pending' \in [Emails -> Cards \cup {NoCard}]
    BY DEF Verify, SignUpInv, SignUpTypeOK
  <2> QED
    BY <1>1, <1>5, <2>1, <2>2, <2>3, MoveKeeps DEF Verify, Creating
<1> QED
  BY <1>4, <1>5

LEMMA CheckKeeps == ASSUME SignUpInv, NEW c \in DOMAIN calls, Check(c) PROVE SignUpInv'
<1> DEFINE e == calls[c].email
<1>1. /\ calls[c].kind = "register" /\ calls[c].at = "check"
      /\ Formed(calls[c]) /\ Refers(calls[c]) /\ calls[c] \in Call
      /\ ~calls[c].wrote /\ calls[c].card \in Cards /\ e \in Emails
  <2>1. /\ calls[c].kind = "register" /\ calls[c].at = "check"
        /\ Formed(calls[c]) /\ Refers(calls[c]) /\ calls[c] \in Call
    <3>1. At(c, {"register"}, "check")
      BY DEF Check
    <3> QED BY <3>1 DEF At, SignUpInv, SignUpTypeOK
  <2> QED BY <2>1 DEF Formed, Creating
<1>2. pending' \in [Emails -> Cards \cup {NoCard}]
  BY DEF Check, SignUpInv, SignUpTypeOK
<1>3. CASE Refuse(c)
  <2>1. PICK q \in Call :
              /\ calls' = [calls EXCEPT ![c] = q] /\ q.at = "refused"
              /\ q.kind = calls[c].kind /\ q.email = calls[c].email
              /\ q.card = calls[c].card /\ q.link = calls[c].link
              /\ q.row = calls[c].row /\ q.saw = calls[c].saw /\ q.wrote = calls[c].wrote
    BY <1>3, GotoShape DEF Refuse
  <2>2. Formed(q) /\ Refers(q)
    BY <1>1, <2>1 DEF Formed, Refers, Creating
  <2>3. q.row = 0 /\ q.saw = {}
    BY <1>1, <2>1 DEF Formed
  <2> QED
    BY <1>1, <1>2, <2>1, <2>2, <2>3, MoveKeeps DEF Check
<1>4. CASE /\ MaybeFree(calls[c].card, e)
           /\ \E i \in Rows \cup {0} :
                 /\ IF i = 0 THEN Unknown(e) ELSE Latest(e, i) /\ licences[i].password = 0
                 /\ calls' = [calls EXCEPT ![c].row = i, ![c].saw = Writers,
                                           ![c].at = "write"]
  <2>1. PICK i \in Rows \cup {0} :
                 /\ IF i = 0 THEN Unknown(e) ELSE Latest(e, i) /\ licences[i].password = 0
                 /\ calls' = [calls EXCEPT ![c].row = i, ![c].saw = Writers,
                                           ![c].at = "write"]
    BY <1>4
  <2> DEFINE q == [calls[c] EXCEPT !.row = i, !.saw = Writers, !.at = "write"]
  <2>2. /\ i \in Nat /\ i \in 0..Len(licences) /\ Writers \in SUBSET (1..MaxCalls)
        /\ calls \in Seq(Call)
    BY SignUpAssumption DEF SignUpInv, SignUpTypeOK, SignUpAssumption, Rows, Writers
  <2>3. /\ q \in Call /\ q.at = "write" /\ q.kind = calls[c].kind /\ q.email = e
        /\ q.card = calls[c].card /\ q.link = calls[c].link
        /\ q.row = i /\ q.saw = Writers /\ q.wrote = calls[c].wrote
    BY <1>1, <2>2 DEF Call
  <2>4. calls' = [calls EXCEPT ![c] = q]
    BY <2>1, <2>2
  <2> HIDE DEF q
  <2>5. Formed(q) /\ Refers(q)
    BY <1>1, <2>1, <2>2, <2>3 DEF Formed, Refers, Creating, Latest
  <2>6. q.email \notin touched => q.row = 0 /\ \A d \in q.saw : calls[d].email # q.email
    BY <1>1, <2>1, <2>3, NobodySeen
  <2>7. ASSUME NEW j \in Rows, licences[j].card = q.card, licences[j].email # q.email,
               q.card \in Marked
        PROVE  Clash(q.card)
    <3>1. PICK k \in Owners(q.card) : licences[k].email = q.email
      BY <1>4, <2>3, <2>7 DEF MaybeFree, Owners
    <3> QED
      BY <1>1, <2>3, <2>7, <3>1 DEF SignUpInv, CardsApart, Owners
  <2> QED
    BY <1>1, <1>2, <2>3, <2>4, <2>5, <2>6, <2>7, MoveKeeps DEF Check
<1> QED
  BY <1>3, <1>4 DEF Check

LEMMA PromoteKeeps == ASSUME SignUpInv, NEW c \in DOMAIN calls, Promote(c) PROVE SignUpInv'
<1> DEFINE i == calls[c].row
<1>1. /\ calls[c].kind \in Creating /\ calls[c].at = "write" /\ i # 0
      /\ Formed(calls[c]) /\ Refers(calls[c]) /\ calls[c] \in Call
  BY DEF Promote, At, SignUpInv, SignUpTypeOK, Creating
<1>2. i \in DOMAIN licences /\ i \in Nat /\ licences[i].email = calls[c].email
  BY <1>1 DEF Refers, SignUpInv, SignUpTypeOK, Creating
<1>3. licences[i] \in Row /\ licences \in Seq(Row) /\ c \in 0..MaxCalls /\ SignUpTypeOK
  BY <1>2, SignUpAssumption DEF SignUpInv, SignUpTypeOK, SignUpAssumption
<1>4. CASE Live(i)
  <2> DEFINE card == IF calls[c].kind = "register" THEN calls[c].card ELSE licences[i].card
             r == [licences[i] EXCEPT !.password = c, !.card = card]
  <2>0. card \in Cards \cup {NoCard}
    BY <1>1, <1>3 DEF Call, Row
  <2> HIDE DEF card
  <2>1. /\ r \in Row /\ r.email = licences[i].email /\ r.password = c /\ r.card = card
        /\ r.status = licences[i].status /\ r.link = licences[i].link
        /\ r.verified = licences[i].verified
    BY <1>3, <2>0 DEF Row
  <2>2. licences' = [licences EXCEPT ![i] = r]
    BY <1>2, <1>3, <1>4 DEF Promote, card
  <2> HIDE DEF r
  <2>3. Put(i, r)
    BY <1>2, <1>3, <2>1, <2>2, SetShape
  <2>4. Wrote(c, i) /\ i \in Rows
    BY <1>2, <1>4 DEF Promote, Rows
  <2> QED
    BY <1>1, <1>2, <2>1, <2>3, <2>4, AccountKeeps DEF Promote, card
<1>5. CASE ~Live(i)
  <2> DEFINE label == IF calls[c].kind = "register" THEN "refused" ELSE "done"
  <2>1. PICK q \in Call :
              /\ calls' = [calls EXCEPT ![c] = q] /\ q.at = label
              /\ q.kind = calls[c].kind /\ q.email = calls[c].email
              /\ q.card = calls[c].card /\ q.link = calls[c].link
              /\ q.row = calls[c].row /\ q.saw = calls[c].saw /\ q.wrote = calls[c].wrote
    BY <1>5, GotoShape DEF Promote
  <2>2. Formed(q) /\ Refers(q)
    BY <1>1, <2>1 DEF Formed, Refers, Creating
  <2>3. pending' \in [Emails -> Cards \cup {NoCard}]
    BY DEF Promote, SignUpInv, SignUpTypeOK
  <2>4. q.email \in touched
    <3>1. calls[c].email \in Emails
      BY <1>1 DEF Formed
    <3> QED BY <1>1, <2>1, <3>1 DEF SignUpInv, Untouched, OwnWay
  <2> QED
    BY <1>1, <1>5, <2>1, <2>2, <2>3, <2>4, MoveKeeps DEF Promote
<1> QED
  BY <1>4, <1>5

LEMMA InsertKeeps == ASSUME SignUpInv, NEW c \in DOMAIN calls, Insert(c) PROVE SignUpInv'
<1> DEFINE card == IF calls[c].kind = "register" THEN calls[c].card ELSE NoCard
           r == NewRow(calls[c].email, c, card, calls[c].began)
           i == Len(licences) + 1
<1>1. /\ calls[c].kind \in Creating /\ calls[c].at = "write" /\ calls[c].row = 0
      /\ Formed(calls[c]) /\ calls[c] \in Call
  BY DEF Insert, At, SignUpInv, SignUpTypeOK, Creating
<1>2. /\ c \in 0..MaxCalls /\ SignUpTypeOK /\ i \in Nat /\ MaxCalls \in Nat
      /\ calls[c].email \in Emails
  BY <1>1, SignUpAssumption DEF SignUpInv, SignUpTypeOK, SignUpAssumption, Formed
<1>3. card \in Cards \cup {NoCard} /\ calls[c].began \in Nat
  BY <1>1 DEF Call
<1> HIDE DEF card
<1>4. r \in Row
  BY <1>2, <1>3 DEF NewRow, Row
<1>5. /\ r.email = calls[c].email /\ r.password = c /\ r.card = card
      /\ r.status = "active" /\ r.link = 0 /\ ~r.verified
  BY DEF NewRow
<1>6. licences' = Append(licences, r) /\ Wrote(c, i)
  BY DEF Insert, card
<1> HIDE DEF r
<1>7. Put(i, r) /\ i \notin DOMAIN licences
  BY <1>2, <1>4, <1>6, AddShape
<1> QED
  BY <1>1, <1>2, <1>4, <1>5, <1>6, <1>7, AccountKeeps DEF Insert, card

LEMMA AdminCreateKeeps == SignUpInv /\ AdminCreate => SignUpInv'
<1> SUFFICES ASSUME SignUpInv, AdminCreate PROVE SignUpInv'
  OBVIOUS
<1>1. PICK e \in Emails : Act(e) /\ licences' = Append(licences, NewRow(e, 0, NoCard, Now))
  BY DEF AdminCreate
<1> DEFINE r == NewRow(e, 0, NoCard, Now)
           i == Len(licences) + 1
<1>2. Now \in Nat /\ MaxCalls \in Nat /\ SignUpTypeOK /\ i \in Nat
  BY SignUpAssumption DEF SignUpInv, SignUpTypeOK, Now, SignUpAssumption
<1>3. r \in Row
  BY <1>2 DEF NewRow, Row
<1>4. /\ r.email = e /\ r.password = 0 /\ r.card = NoCard /\ r.link = 0 /\ ~r.verified
  BY DEF NewRow
<1>5. licences' = Append(licences, r)
  BY <1>1
<1> HIDE DEF r
<1>6. Put(i, r) /\ i \notin DOMAIN licences
  BY <1>2, <1>3, <1>5, AddShape
<1> QED
  BY <1>1, <1>2, <1>3, <1>4, <1>6, AdminKeeps DEF AdminCreate

LEMMA AdminStatusKeeps ==
    ASSUME SignUpInv, NEW i \in Rows, NEW status \in {"revoked", "deleted"},
           Act(licences[i].email),
           licences' = [licences EXCEPT ![i].status = status],
           UNCHANGED <<pending, calls, inbox, crashes>>
    PROVE  SignUpInv'
<1> DEFINE r == [licences[i] EXCEPT !.status = status]
<1>1. i \in DOMAIN licences /\ licences[i] \in Row /\ i \in Nat /\ SignUpTypeOK
  BY DEF Rows, SignUpInv, SignUpTypeOK
<1>2. /\ r \in Row /\ r.email = licences[i].email /\ r.password = licences[i].password
      /\ r.card = licences[i].card /\ r.link = licences[i].link
      /\ r.verified = licences[i].verified
  BY <1>1 DEF Row
<1>3. licences' = [licences EXCEPT ![i] = r]
  BY <1>1
<1> HIDE DEF r
<1>4. Put(i, r)
  BY <1>1, <1>2, <1>3, SetShape
<1> QED
  BY <1>1, <1>2, <1>4, AdminKeeps

\* The invariant holds in every state of the specification.
THEOREM SignUpInvariant == SignUpSpec => []SignUpInv
<1>1. SignUpInv /\ [SignUpNext]_signUpVars => SignUpInv'
  <2> SUFFICES ASSUME SignUpInv, [SignUpNext]_signUpVars PROVE SignUpInv'
    OBVIOUS
  <2>1. CASE SetupCard BY <2>1, SetupCardKeeps
  <2>2. CASE Register BY <2>2, RegisterKeeps
  <2>3. CASE SignUp BY <2>3, SignUpKeeps
  <2>4. CASE Resend BY <2>4, ResendKeeps
  <2>5. CASE Open BY <2>5, OpenKeeps
  <2>6. ASSUME NEW c \in DOMAIN calls,
               \/ SaveCard(c) \/ Check(c) \/ Promote(c) \/ Insert(c)
               \/ DropPending(c) \/ SetLink(c) \/ MailLink(c) \/ Verify(c)
        PROVE  SignUpInv'
    BY <2>6, SaveCardKeeps, CheckKeeps, PromoteKeeps, InsertKeeps,
       DropPendingKeeps, SetLinkKeeps, MailLinkKeeps, VerifyKeeps
  <2>7. CASE AdminCreate BY <2>7, AdminCreateKeeps
  <2>8. CASE AdminRevoke
    <3>1. PICK i \in Rows : /\ Act(licences[i].email)
                            /\ licences' = [licences EXCEPT ![i].status = "revoked"]
      BY <2>8 DEF AdminRevoke
    <3> QED BY <2>8, <3>1, AdminStatusKeeps DEF AdminRevoke
  <2>9. CASE AdminHardDelete
    <3>1. PICK i \in Rows : /\ Act(licences[i].email)
                            /\ licences' = [licences EXCEPT ![i].status = "deleted"]
      BY <2>9 DEF AdminHardDelete
    <3> QED BY <2>9, <3>1, AdminStatusKeeps DEF AdminHardDelete
  <2>10. CASE Crash BY <2>10, CrashKeeps
  <2>11. CASE UNCHANGED signUpVars
    BY <2>11 DEF signUpVars, SignUpInv, SignUpTypeOK, Formed, Refers, Opened, Checked, Made, Owned, Linked,
                 Untouched, OwnWay, CardsApart, Clash, Overlapped, Writers, Rows, Live
  <2> QED
    BY <2>1, <2>2, <2>3, <2>4, <2>5, <2>6, <2>7, <2>8, <2>9, <2>10, <2>11 DEF SignUpNext
<1> QED
  BY SignUpInitInv, <1>1, PTL DEF SignUpSpec

\* TypeOK: rows and requests keep their types through every handler and restart.
THEOREM SignUpTypesHold == SignUpSpec => []SignUpTypeOK
<1>1. SignUpInv => SignUpTypeOK
  BY DEF SignUpInv
<1> QED
  BY <1>1, SignUpInvariant, PTL

\* The account on row i is that of the request whose password it has.
LEMMA Holder ==
    ASSUME SignUpInv, NEW i \in Accounts
    PROVE  LET c == licences[i].password
           IN  /\ c \in Writers /\ calls[c].row = i /\ calls[c].kind \in Creating
               /\ calls[c].email = licences[i].email
<1>1. i \in DOMAIN licences /\ licences[i].password # 0 /\ Owned(i)
  BY DEF Accounts, Rows, SignUpInv
<1>2. licences[i].password \in Writers /\ calls[licences[i].password].row = i
  BY <1>1 DEF Owned
<1> QED
  BY <1>2 DEF Writers, SignUpInv, Formed, Refers, Creating

\* Two requests that wrote for an address the administrator has not dealt with ran side
\* by side: neither had seen the other.
LEMMA SideBySide ==
    ASSUME SignUpInv, NEW c \in Writers, NEW d \in Writers, c # d,
           calls[c].email = calls[d].email, calls[c].email \notin touched
    PROVE  Overlapped(c, d)
<1>1. /\ c \in DOMAIN calls /\ d \in DOMAIN calls
      /\ calls[c].kind \in Creating /\ calls[d].kind \in Creating
      /\ calls[c].email \in Emails
  BY DEF SignUpInv, Writers, Formed
<1>2. OwnWay(c) /\ OwnWay(d)
  BY <1>1 DEF SignUpInv, Untouched
<1> QED
  BY <1>1, <1>2 DEF OwnWay, Overlapped

\* AccountsApart: accounts share an address or a card only when the requests that wrote
\* them ran side by side, or the administrator had a hand in it.
THEOREM AccountsApartHolds == SignUpSpec => []AccountsApart
<1>1. ASSUME SignUpInv PROVE AccountsApart
  <2> SUFFICES ASSUME NEW i \in Accounts, NEW j \in Accounts
               PROVE  IF licences[i].email = licences[j].email
                      THEN i # j => \/ licences[i].email \in touched
                                    \/ \E c, d \in Writers :
                                          /\ calls[c].email = licences[i].email
                                          /\ calls[d].email = licences[i].email
                                          /\ Overlapped(c, d)
                      ELSE licences[i].card \in Marked /\ licences[i].card = licences[j].card
                           => Clash(licences[i].card)
    BY DEF AccountsApart, Clash
  <2>1. CASE licences[i].email # licences[j].email
    BY <1>1, <2>1 DEF SignUpInv, CardsApart, Accounts
  <2>2. CASE licences[i].email = licences[j].email /\ i # j
             /\ licences[i].email \notin touched
    <3> DEFINE c == licences[i].password
               d == licences[j].password
    <3>1. /\ c \in Writers /\ d \in Writers /\ c # d
          /\ calls[c].email = licences[i].email /\ calls[d].email = licences[i].email
      BY <1>1, <2>2, Holder
    <3> HIDE DEF c, d
    <3>2. Overlapped(c, d)
      BY <1>1, <2>2, <3>1, SideBySide
    <3> QED BY <2>2, <3>1, <3>2
  <2> QED BY <2>1, <2>2
<1> QED
  BY <1>1, SignUpInvariant, PTL

\* SignInWorks: who was told "ok" can sign in to the latest row of the address, unless
\* another request for it ran side by side or the administrator stepped in.
THEOREM SignInWorksHolds == SignUpSpec => []SignInWorks
<1>1. ASSUME SignUpInv PROVE SignInWorks
  <2> SUFFICES ASSUME NEW c \in DOMAIN calls, calls[c].kind \in Creating,
                      calls[c].at = "done", calls[c].email \notin touched,
                      ~\E i \in Rows : Latest(calls[c].email, i) /\ licences[i].password = c
               PROVE  \E d \in Writers \ {c} :
                         calls[d].email = calls[c].email /\ Overlapped(c, d)
    BY DEF SignInWorks, Creating
  <2> DEFINE e == calls[c].email
             i == calls[c].row
  <2>1. e \in Emails /\ Untouched(e) /\ OwnWay(c)
    BY <1>1 DEF SignUpInv, Formed, Untouched
  <2>2. calls[c].wrote /\ licences[i].password = c /\ c \in Writers
    BY <2>1 DEF OwnWay, Writers
  <2>3. i \in DOMAIN licences /\ licences[i].email = e
    BY <1>1, <2>2 DEF SignUpInv, Formed, Refers, Creating, SignUpTypeOK
  <2>4. i \in Rows
    BY <2>1, <2>3 DEF Untouched, Rows
  <2>5. PICK j \in Rows : licences[j].email = e /\ ~(licences[j].created <= licences[i].created)
    BY <2>2, <2>3, <2>4 DEF Latest
  <2>6. j # i /\ j \in Accounts
    <3>1. licences[i] \in Row
      BY <1>1, <2>3 DEF SignUpInv, SignUpTypeOK
    <3>2. j # i
      BY <2>5, <3>1 DEF Row
    <3> QED BY <2>1, <2>5, <3>2 DEF Untouched, Accounts, Rows
  <2> DEFINE d == licences[j].password
  <2>7. d \in Writers /\ calls[d].row = j /\ calls[d].email = e
    BY <1>1, <2>5, <2>6, Holder
  <2> HIDE DEF d
  <2>8. d # c
    BY <2>6, <2>7
  <2> QED
    BY <1>1, <2>2, <2>7, <2>8, SideBySide
<1> QED
  BY <1>1, SignUpInvariant, PTL

\* VerifiedByLink: an address is verified only by opening a link that was made for its
\* row and mailed.
THEOREM VerifiedByLinkHolds == SignUpSpec => []VerifiedByLink
<1>1. ASSUME SignUpInv PROVE VerifiedByLink
  BY <1>1 DEF SignUpInv, Linked, Opened, VerifiedByLink, Rows
<1> QED
  BY <1>1, SignUpInvariant, PTL

===============================================================================
