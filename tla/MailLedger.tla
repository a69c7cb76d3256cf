------------------------------ MODULE MailLedger ------------------------------
(***************************************************************************)
(* The letters of the licence server (server/app.py).  send_template_once  *)
(* claims a letter in the table email_sent, renders it, hands it to the    *)
(* provider and gives the claim back if that fails.  Its callers run       *)
(* beside each other: handlers that announce an event, the admin's and the *)
(* cron's tick with its sweeps over the licences, and the form by which    *)
(* the admin completes a draft.  A letter stands for one                   *)
(* (recipient, template_id, reason_key).                                   *)
(***************************************************************************)
EXTENDS Naturals, Sequences, FiniteSets

CONSTANTS Calls,      \* requests under way at the same time
          Cron,       \* the hourly tick's
          Events,     \* letters sent when something happens
          Drafted,    \* those that may need a word of the admin's first
          Sweeps,     \* letters of the tick's sweeps, in their order
          Drafts,     \* ids of drafts, drawn once
          MaxFaults   \* bound: failures of the provider, the database, the process

Swept == UNION {Sweeps[i] : i \in DOMAIN Sweeps}
Letters == Events \cup Swept
Handlers == Calls \cup {Cron}

ASSUME MailAssumption ==
    /\ Cron \notin Calls
    /\ Drafted \subseteq Events
    /\ Sweeps \in Seq(SUBSET Swept)
    /\ "none" \notin Drafts
    /\ MaxFaults \in Nat

VARIABLES
    email_sent,     \* the ledger: letters claimed
    email_drafts,   \* the drafts
    api_key,        \* RESEND_API_KEY is set, read when the process starts
    due,            \* letters whose licence a sweep would select now
    past,           \* those it would not select any more
    pc, todo, letter, form, sweep,   \* each request: see Init
    delivered,      \* history: how often each letter has gone out
    unheard,        \* history: how often its answer did not come back
    stuck,          \* history: letters whose claim outlived the request that held it
    faults

tables == <<email_sent, email_drafts>>
window == <<due, past>>
call == <<pc, todo, letter, form, sweep>>
history == <<delivered, unheard, stuck>>
vars == <<tables, api_key, window, call, history, faults>>

None == "none"
NoDraft == [of |-> None, at |-> None]
Places == {"idle", "form", "query", "letter", "claimed", "sent", "release"}
DraftStates == {"open", "unknown", "expired", "filled"}

Init ==
    /\ email_sent = {} /\ email_drafts = [d \in Drafts |-> NoDraft]
    /\ api_key \in BOOLEAN
    /\ due = {} /\ past = {}
    /\ pc = [c \in Handlers |-> "idle"]      \* where it is
    /\ todo = [c \in Handlers |-> {}]        \* letters it still has to send
    /\ letter = [c \in Handlers |-> None]    \* the one it has claimed
    /\ form = [c \in Handlers |-> None]      \* the draft it completes
    /\ sweep = [c \in Handlers |-> 0]        \* the sweep it is in
    /\ delivered = [s \in Letters |-> 0] /\ unheard = [s \in Letters |-> 0]
    /\ stuck = {} /\ faults = 0

Fault == faults < MaxFaults /\ faults' = faults + 1
Goto(c, place) == pc' = [pc EXCEPT ![c] = place]
Holds(c) == pc[c] \in {"claimed", "sent", "release"}

------------------------------------------------------------------------------
\* The licences, by the days that pass and by what is done to them.

Opens ==
    /\ \E s \in Swept \ (due \cup past) : due' = due \cup {s}
    /\ UNCHANGED <<tables, api_key, past, call, history, faults>>

Closes ==
    /\ \E s \in due : due' = due \ {s} /\ past' = past \cup {s}
    /\ UNCHANGED <<tables, api_key, call, history, faults>>

------------------------------------------------------------------------------
\* The callers.

\* A sign-up, a registration with its two letters, a licence issued, renewed or
\* revoked with a reason, a place on the waitlist: the event is committed before,
\* and whatever becomes of the letters.
Event(c) ==
    /\ pc[c] = "idle"
    /\ \E S \in SUBSET Events : S # {} /\ todo' = [todo EXCEPT ![c] = S]
    /\ Goto(c, "letter")
    /\ UNCHANGED <<tables, api_key, window, letter, form, sweep, history, faults>>

\* _queue_admin_fill: the draft is committed, and the admin told of it if the
\* provider takes that letter; nothing else knows the link.
QueueDraft(d) ==
    /\ email_drafts[d] = NoDraft
    /\ \E s \in Drafted, at \in {"open", "unknown"} :
        /\ at = "open" => api_key
        /\ email_drafts' = [email_drafts EXCEPT ![d] = [of |-> s, at |-> at]]
    /\ UNCHANGED <<email_sent, api_key, window, call, history, faults>>

ExpireDraft(d) ==
    /\ email_drafts[d].at \in {"open", "unknown"}
    /\ email_drafts' = [email_drafts EXCEPT ![d].at = "expired"]
    /\ UNCHANGED <<email_sent, api_key, window, call, history, faults>>

\* fill_form_post, up to the await of the form: the draft is read, and not again.
FillForm(c) ==
    /\ pc[c] = "idle"
    /\ \E d \in Drafts : email_drafts[d].at = "open" /\ form' = [form EXCEPT ![c] = d]
    /\ Goto(c, "form")
    /\ UNCHANGED <<tables, api_key, window, todo, letter, sweep, history, faults>>

\* The form is incomplete and shown again, or complete.
FormRead(c) ==
    /\ pc[c] = "form"
    /\ \/ /\ Goto(c, "idle") /\ form' = [form EXCEPT ![c] = None]
          /\ todo' = todo
       \/ /\ Goto(c, "letter") /\ form' = form
          /\ todo' = [todo EXCEPT ![c] = {email_drafts[form[c]].of}]
    /\ UNCHANGED <<tables, api_key, window, letter, sweep, history, faults>>

\* admin_emails_tick
Tick(c) ==
    /\ pc[c] = "idle"
    /\ Goto(c, "query")
    /\ UNCHANGED <<tables, api_key, window, todo, letter, form, sweep, history, faults>>

\* A mutant ends before the last sweep.
QueryShort(c) ==
    /\ pc[c] = "query"
    /\ IF sweep[c] + 1 >= Len(Sweeps)
       THEN Goto(c, "idle") /\ sweep' = [sweep EXCEPT ![c] = 0] /\ todo' = todo
       ELSE /\ Goto(c, "letter")
            /\ sweep' = [sweep EXCEPT ![c] = @ + 1]
            /\ todo' = [todo EXCEPT ![c] = Sweeps[sweep[c] + 1] \cap due]
    /\ UNCHANGED <<tables, api_key, window, letter, form, history, faults>>

\* Each sweep selects its rows when it begins.
Query(c) ==
    /\ pc[c] = "query"
    /\ IF sweep[c] = Len(Sweeps)
       THEN Goto(c, "idle") /\ sweep' = [sweep EXCEPT ![c] = 0] /\ todo' = todo
       ELSE /\ Goto(c, "letter")
            /\ sweep' = [sweep EXCEPT ![c] = @ + 1]
            /\ todo' = [todo EXCEPT ![c] = Sweeps[sweep[c] + 1] \cap due]
    /\ UNCHANGED <<tables, api_key, window, letter, form, history, faults>>

\* All its letters are done: the next sweep, or the answer.  A draft is filled
\* now, whether its letter went out or not.
Finish(c) ==
    /\ pc[c] = "letter" /\ todo[c] = {}
    /\ Goto(c, IF sweep[c] > 0 THEN "query" ELSE "idle")
    /\ email_drafts' = IF form[c] = None THEN email_drafts
                       ELSE [email_drafts EXCEPT ![form[c]].at = "filled"]
    /\ form' = [form EXCEPT ![c] = None]
    /\ UNCHANGED <<email_sent, api_key, window, todo, letter, sweep, history, faults>>

------------------------------------------------------------------------------
\* send_template_once.

\* A mutant does not look whether the row is there.
ClaimBlindly(c, s) ==
    /\ email_sent' = email_sent \cup {s}
    /\ letter' = [letter EXCEPT ![c] = s]
    /\ Goto(c, "claimed") /\ todo' = todo

\* _reserve_email_slot: the row is inserted and committed, or already there.
Claim(c, s) ==
    IF s \in email_sent
    THEN /\ todo' = [todo EXCEPT ![c] = @ \ {s}]
         /\ UNCHANGED <<email_sent, letter, pc>>
    ELSE /\ email_sent' = email_sent \cup {s}
         /\ letter' = [letter EXCEPT ![c] = s]
         /\ Goto(c, "claimed") /\ todo' = todo

Reserve(c) ==
    /\ pc[c] = "letter"
    /\ \E s \in todo[c] : Claim(c, s)
    /\ UNCHANGED <<email_drafts, api_key, window, form, sweep, history, faults>>

\* The letter is done with, whether it went out or not.
Done(c) ==
    /\ Goto(c, "letter")
    /\ todo' = [todo EXCEPT ![c] = @ \ {letter[c]}]
    /\ letter' = [letter EXCEPT ![c] = None]

\* The template does not render, there is no key, or the provider refuses or
\* cannot be reached.
NotSent(c) ==
    /\ pc[c] = "claimed"
    /\ (~api_key /\ faults' = faults) \/ Fault
    /\ Goto(c, "release")
    /\ UNCHANGED <<tables, api_key, window, todo, letter, form, sweep, history>>

Post(c) ==
    /\ pc[c] = "claimed" /\ api_key
    /\ delivered' = [delivered EXCEPT ![letter[c]] = @ + 1]
    /\ Goto(c, "sent")
    /\ UNCHANGED <<tables, api_key, window, todo, letter, form, sweep, unheard, stuck, faults>>

Answer(c) ==
    /\ pc[c] = "sent"
    /\ Done(c)
    /\ UNCHANGED <<tables, api_key, window, form, sweep, history, faults>>

\* The letter is out, but the answer is lost or comes after the timeout.
NoAnswer(c) ==
    /\ pc[c] = "sent" /\ Fault
    /\ unheard' = [unheard EXCEPT ![letter[c]] = @ + 1]
    /\ Goto(c, "release")
    /\ UNCHANGED <<tables, api_key, window, todo, letter, form, sweep, delivered, stuck>>

\* A mutant keeps the claim.
ReleaseNot(c) ==
    /\ pc[c] = "release"
    /\ Done(c)
    /\ UNCHANGED <<tables, api_key, window, form, sweep, history, faults>>

\* _release_email_slot
Release(c) ==
    /\ pc[c] = "release"
    /\ email_sent' = email_sent \ {letter[c]}
    /\ Done(c)
    /\ UNCHANGED <<email_drafts, api_key, window, form, sweep, history, faults>>

------------------------------------------------------------------------------
\* What the requests C leave when they are cut off.
CutOff(C) ==
    /\ pc' = [c \in Handlers |-> IF c \in C THEN "idle" ELSE pc[c]]
    /\ todo' = [c \in Handlers |-> IF c \in C THEN {} ELSE todo[c]]
    /\ letter' = [c \in Handlers |-> IF c \in C THEN None ELSE letter[c]]
    /\ form' = [c \in Handlers |-> IF c \in C THEN None ELSE form[c]]
    /\ sweep' = [c \in Handlers |-> IF c \in C THEN 0 ELSE sweep[c]]
    /\ stuck' = stuck \cup {letter[c] : c \in {d \in C : pc[d] \in {"claimed", "release"}}}

\* The database raises, and with it the request: a sweep loses its other rows.  At
\* "claimed" the claim was committed, and the answer to the commit was lost.
Abort(c) ==
    /\ pc[c] \in {"form", "query", "letter", "claimed", "release"} /\ Fault
    /\ CutOff({c})
    /\ UNCHANGED <<tables, api_key, window, delivered, unheard>>

\* The process dies, or a new version is deployed.
Restart ==
    /\ Fault
    /\ CutOff(Handlers)
    /\ api_key' \in BOOLEAN
    /\ UNCHANGED <<tables, window, delivered, unheard>>

Step(c) ==
    \/ FormRead(c) \/ Query(c) \/ Reserve(c) \/ NotSent(c) \/ Post(c)
    \/ Answer(c) \/ NoAnswer(c) \/ Release(c) \/ Finish(c)

Next ==
    \/ Opens \/ Closes \/ Restart
    \/ \E d \in Drafts : QueueDraft(d) \/ ExpireDraft(d)
    \/ \E c \in Calls : Event(c) \/ FillForm(c)
    \/ \E c \in Handlers : Tick(c) \/ Step(c) \/ Abort(c)

\* A request goes on, and the cron sends its own time and again.
Fairness == WF_vars(Tick(Cron)) /\ \A c \in Handlers : WF_vars(Step(c))

Spec == Init /\ [][Next]_vars /\ Fairness

------------------------------------------------------------------------------
TypeOK ==
    /\ email_sent \subseteq Letters /\ stuck \subseteq Letters
    /\ email_drafts \in [Drafts -> {NoDraft} \cup [of : Drafted, at : DraftStates]]
    /\ api_key \in BOOLEAN
    /\ due \subseteq Swept /\ past \subseteq Swept
    /\ pc \in [Handlers -> Places] /\ todo \in [Handlers -> SUBSET Letters]
    /\ letter \in [Handlers -> Letters \cup {None}]
    /\ form \in [Handlers -> Drafts \cup {None}]
    /\ sweep \in [Handlers -> 0..Len(Sweeps)]
    /\ delivered \in [Letters -> Nat] /\ unheard \in [Letters -> Nat]
    /\ faults \in 0..MaxFaults

\* "The composite unique constraint is what makes re-runs of the scheduler tick (or
\* a double-click in the admin UI) safe": whatever ticks, double clicks, drafts and
\* restarts meet, a letter goes out once, and once more only for an answer of the
\* provider that did not come back.
OnceUnlessUnheard == \A s \in Letters : delivered[s] <= 1 + unheard[s]

\* No letter is suppressed: one that the ledger has, and that nobody has received,
\* is in the hands of exactly one request, unless a request was cut off with it.
NotSuppressed ==
    \A s \in email_sent :
        delivered[s] = 0 /\ s \notin stuck
            => \E c \in Handlers :
                /\ Holds(c) /\ letter[c] = s
                /\ \A d \in Handlers : Holds(d) /\ letter[d] = s => d = c

\* "re-arm the slot for the next tick": a letter that the sweeps select, and go on
\* selecting, goes out, however often it failed before.
SweptGoOut ==
    \A s \in Swept :
        s \in due ~> delivered[s] > 0 \/ s \notin due \/ s \in stuck \/ ~api_key

\* Releasing the claim has "the mail retried the first time a real API key is
\* present"; so it does for the letters of the sweeps, and nobody sends again the
\* one of an event.
EventsGoOut ==
    []<>api_key =>
        \A s \in Events :
            (\E c \in Handlers : Holds(c) /\ letter[c] = s) ~> delivered[s] > 0 \/ s \in stuck

\* The page of a filled draft says "already sent"; the form fills it also when the
\* letter could not be sent.
FilledIsSent ==
    \A d \in Drafts :
        email_drafts[d].at = "filled" => delivered[email_drafts[d].of] > 0
================================================================================
