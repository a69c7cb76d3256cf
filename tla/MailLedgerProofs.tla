---------------------------- MODULE MailLedgerProofs ----------------------------
(***************************************************************************)
(* For any letters, requests and failures: a letter goes out once, and     *)
(* once more for each answer that was lost, and none is suppressed.  What  *)
(* makes it right is that a claim is in one pair of hands, and given back  *)
(* only by them.                                                           *)
(***************************************************************************)
EXTENDS MailLedger, TLAPS

\* A request that holds a letter has its row in the ledger, and no other holds it;
\* one that waits for the provider's answer has sent it.
Claims ==
    /\ \A c \in Handlers : Holds(c) => letter[c] \in email_sent
    /\ \A c \in Handlers : pc[c] = "sent" => delivered[letter[c]] # 0
    /\ \A c, d \in Handlers : Holds(c) /\ Holds(d) /\ letter[c] = letter[d] => c = d

\* A request at a form has a draft that exists.
Forms ==
    \A c \in Handlers :
        /\ pc[c] = "form" => form[c] # None
        /\ form[c] # None =>
            form[c] \in Drafts /\ email_drafts[form[c]] \in [of : Drafted, at : DraftStates]

\* A letter that has gone out once more than answers were lost is claimed for good.
Spent(s) ==
    /\ s \in email_sent
    /\ \A c \in Handlers : pc[c] \in {"claimed", "release"} => letter[c] # s

Account ==
    \A s \in Letters :
        /\ delivered[s] <= unheard[s] + 1
        /\ delivered[s] <= unheard[s] \/ Spent(s)

\* A claim that nobody holds is that of a letter that went out, or was cut off.
Claimed ==
    \A s \in email_sent :
        delivered[s] = 0 /\ s \notin stuck => \E c \in Handlers : Holds(c) /\ letter[c] = s

IInv == TypeOK /\ Forms /\ Claims /\ Account /\ Claimed

------------------------------------------------------------------------------
LEMMA SweptLetters == Swept \subseteq Letters /\ Drafted \subseteq Letters /\ Events \subseteq Letters
BY MailAssumption DEF Letters

LEMMA TypeInit == Init => TypeOK
<1> SUFFICES ASSUME Init PROVE TypeOK
  OBVIOUS
<1>1. email_sent \subseteq Letters /\ stuck \subseteq Letters /\ due \subseteq Swept /\ past \subseteq Swept
  BY DEF Init
<1>2. email_drafts \in [Drafts -> {NoDraft} \cup [of : Drafted, at : DraftStates]]
  BY DEF Init
<1>3. api_key \in BOOLEAN
  BY DEF Init
<1>4. pc \in [Handlers -> Places] /\ todo \in [Handlers -> SUBSET Letters]
  BY DEF Init, Places
<1>5. letter \in [Handlers -> Letters \cup {None}] /\ form \in [Handlers -> Drafts \cup {None}]
  BY DEF Init
<1>6. sweep \in [Handlers -> 0..Len(Sweeps)] /\ faults \in 0..MaxFaults
  BY MailAssumption DEF Init
<1>7. delivered \in [Letters -> Nat] /\ unheard \in [Letters -> Nat]
  BY DEF Init
<1> QED BY <1>1, <1>2, <1>3, <1>4, <1>5, <1>6, <1>7 DEF TypeOK

LEMMA InvInit == Init => IInv
<1> SUFFICES ASSUME Init PROVE IInv
  OBVIOUS
<1>1. TypeOK
  BY TypeInit
<1>2. \A c \in Handlers : ~Holds(c) /\ pc[c] = "idle" /\ form[c] = None
  BY DEF Init, Holds
<1>3. Forms /\ Claims /\ Claimed
  BY <1>2 DEF Init, Forms, Claims, Claimed
<1>4. Account
  BY DEF Init, Account
<1> QED BY <1>1, <1>3, <1>4 DEF IInv

------------------------------------------------------------------------------
\* A step that leaves ledger, letters and counts alone, and lets nobody take or give
\* up a claim, keeps what is said of them.
Aside ==
    /\ UNCHANGED <<email_sent, letter, history>>
    /\ \A c \in Handlers :
        pc'[c] # pc[c] =>
            {pc[c], pc'[c]} \cap {"claimed", "sent", "release"} = {}

LEMMA Untouched == IInv /\ Aside => Claims' /\ Account' /\ Claimed'
<1> SUFFICES ASSUME IInv, Aside PROVE Claims' /\ Account' /\ Claimed'
  OBVIOUS
<1>1. /\ email_sent' = email_sent /\ letter' = letter
      /\ delivered' = delivered /\ unheard' = unheard /\ stuck' = stuck
  BY DEF Aside, history
<1>2. \A c \in Handlers : Holds(c)' <=> Holds(c)
  BY DEF Aside, Holds
<1>3. \A c \in Handlers : /\ pc'[c] \in {"claimed", "release"} <=> pc[c] \in {"claimed", "release"}
                          /\ pc'[c] = "sent" <=> pc[c] = "sent"
  BY DEF Aside
<1>4. Claims'
  BY <1>1, <1>2, <1>3 DEF IInv, Claims
<1>5. Account'
  BY <1>1, <1>3 DEF IInv, Account, Spent
<1>6. Claimed'
  BY <1>1, <1>2 DEF IInv, Claimed
<1> QED BY <1>4, <1>5, <1>6

\* The steps of the licences and of the callers.
LEMMA CallerSteps ==
    ASSUME IInv,
           \/ Opens \/ Closes
           \/ \E d \in Drafts : QueueDraft(d) \/ ExpireDraft(d)
           \/ \E c \in Calls : Event(c) \/ FillForm(c)
           \/ \E c \in Handlers : Tick(c) \/ FormRead(c) \/ Query(c) \/ Finish(c)
    PROVE  IInv'
<1>0. TypeOK
  BY DEF IInv
<1> USE SweptLetters
<1>1. CASE Opens \/ Closes
  <2>1. TypeOK'
    BY <1>0, <1>1 DEF Opens, Closes, TypeOK, tables, call, history
  <2>2. Forms'
    BY <1>1 DEF Opens, Closes, IInv, Forms, tables, call
  <2>a. Aside
    BY <1>1 DEF Aside, Opens, Closes, tables, call
  <2>3. Claims' /\ Account' /\ Claimed'
    BY <2>a, Untouched
  <2> QED BY <2>1, <2>2, <2>3 DEF IInv
<1>2. CASE \E d \in Drafts : QueueDraft(d) \/ ExpireDraft(d)
  <2> PICK d \in Drafts : QueueDraft(d) \/ ExpireDraft(d)
    BY <1>2
  <2>1. /\ email_drafts' \in [Drafts -> {NoDraft} \cup [of : Drafted, at : DraftStates]]
        /\ \A x \in Drafts : email_drafts[x] \in [of : Drafted, at : DraftStates]
                => email_drafts'[x] \in [of : Drafted, at : DraftStates]
    <3>0. /\ email_drafts \in [Drafts -> {NoDraft} \cup [of : Drafted, at : DraftStates]]
          /\ NoDraft.at \notin DraftStates
      BY <1>0 DEF TypeOK, NoDraft, None, DraftStates
    <3>1. CASE QueueDraft(d)
      <4>1. \E n \in [of : Drafted, at : DraftStates] : email_drafts' = [email_drafts EXCEPT ![d] = n]
        BY <3>1 DEF QueueDraft, DraftStates
      <4> QED BY <3>0, <4>1
    <3>2. CASE ExpireDraft(d)
      <4>1. email_drafts[d] \in [of : Drafted, at : DraftStates]
        BY <3>0, <3>2 DEF ExpireDraft, DraftStates
      <4>2. [email_drafts[d] EXCEPT !.at = "expired"] \in [of : Drafted, at : DraftStates]
        BY <4>1 DEF DraftStates
      <4>3. email_drafts' = [email_drafts EXCEPT ![d] = [email_drafts[d] EXCEPT !.at = "expired"]]
        BY <3>2 DEF ExpireDraft
      <4> QED BY <3>0, <4>2, <4>3
    <3> QED BY <3>1, <3>2
  <2>2. UNCHANGED <<email_sent, api_key, window, call, history, faults>>
    BY DEF QueueDraft, ExpireDraft
  <2>3. TypeOK'
    BY <1>0, <2>1, <2>2 DEF TypeOK, window, call, history
  <2>4. Forms'
    BY <2>1, <2>2 DEF IInv, Forms, call
  <2>a. Aside
    BY <2>2 DEF Aside, call
  <2>5. Claims' /\ Account' /\ Claimed'
    BY <2>a, Untouched
  <2> QED BY <2>3, <2>4, <2>5 DEF IInv
<1>3. CASE \E c \in Calls : Event(c) \/ FillForm(c)
  <2> PICK c \in Calls : Event(c) \/ FillForm(c)
    BY <1>3
  <2>0. c \in Handlers /\ pc[c] = "idle" /\ UNCHANGED <<tables, api_key, window, letter, sweep, history, faults>>
    BY DEF Handlers, Event, FillForm
  <2>1. pc' \in [Handlers -> Places] /\ \A x \in Handlers : x # c => pc'[x] = pc[x]
    BY <1>0, <2>0 DEF Event, FillForm, Goto, TypeOK, Places
  <2>2. pc'[c] \in {"letter", "form"} /\ todo' \in [Handlers -> SUBSET Letters]
    BY <1>0, <2>0 DEF Event, FillForm, Goto, TypeOK
  <2>3. form' \in [Handlers -> Drafts \cup {None}] /\ Forms'
    <3>1. CASE Event(c)
      BY <1>0, <2>0, <2>1, <3>1 DEF Event, Goto, TypeOK, IInv, Forms, tables
    <3>2. CASE FillForm(c)
      <4> PICK d \in Drafts : email_drafts[d].at = "open" /\ form' = [form EXCEPT ![c] = d]
        BY <3>2 DEF FillForm
      <4>1. email_drafts[d] \in [of : Drafted, at : DraftStates]
        BY <1>0 DEF TypeOK, NoDraft, None
      <4>2. d # None
        BY MailAssumption DEF None
      <4>3. form' \in [Handlers -> Drafts \cup {None}]
        BY <1>0, <2>0 DEF TypeOK
      <4>4. \A x \in Handlers : form'[x] = IF x = c THEN d ELSE form[x]
        BY <1>0, <2>0 DEF TypeOK
      <4> QED BY <2>0, <2>1, <4>1, <4>2, <4>3, <4>4 DEF IInv, Forms, tables
    <3> QED BY <3>1, <3>2
  <2>4. TypeOK'
    BY <1>0, <2>0, <2>1, <2>2, <2>3 DEF TypeOK, tables, window, history
  <2>a. Aside
    BY <2>0, <2>1, <2>2 DEF Aside, tables
  <2>5. Claims' /\ Account' /\ Claimed'
    BY <2>a, Untouched
  <2> QED BY <2>3, <2>4, <2>5 DEF IInv
<1>4. CASE \E c \in Handlers : Tick(c) \/ FormRead(c) \/ Query(c) \/ Finish(c)
  <2> PICK c \in Handlers : Tick(c) \/ FormRead(c) \/ Query(c) \/ Finish(c)
    BY <1>4
  <2>0. UNCHANGED <<email_sent, api_key, window, letter, history, faults>>
    BY DEF Tick, FormRead, Query, Finish, tables
  <2>1. /\ pc' \in [Handlers -> Places] /\ \A x \in Handlers : x # c => pc'[x] = pc[x]
        /\ pc[c] \in {"idle", "form", "query", "letter"} /\ pc'[c] \in {"idle", "query", "letter"}
    BY <1>0 DEF Tick, FormRead, Query, Finish, Goto, TypeOK, Places
  <2>2. todo' \in [Handlers -> SUBSET Letters]
    <3>1. CASE Tick(c) \/ Finish(c)
      BY <1>0, <3>1 DEF Tick, Finish, TypeOK
    <3>2. CASE FormRead(c)
      <4>1. email_drafts[form[c]].of \in Letters
        BY <3>2 DEF FormRead, IInv, Forms
      <4>2. \E S \in SUBSET Letters : todo' = todo \/ todo' = [todo EXCEPT ![c] = S]
        BY <3>2, <4>1 DEF FormRead
      <4>3. todo \in [Handlers -> SUBSET Letters]
        BY <1>0 DEF TypeOK
      <4> QED BY <4>2, <4>3
    <3>3. CASE Query(c)
      BY <1>0, <3>3 DEF Query, TypeOK
    <3> QED BY <3>1, <3>2, <3>3
  <2>3. sweep' \in [Handlers -> 0..Len(Sweeps)]
    <3>1. CASE Tick(c) \/ FormRead(c) \/ Finish(c)
      BY <1>0, <3>1 DEF Tick, FormRead, Finish, TypeOK
    <3>2. CASE Query(c)
      <4>1. Len(Sweeps) \in Nat /\ sweep[c] \in 0..Len(Sweeps)
        BY <1>0, MailAssumption DEF TypeOK
      <4>2. \E n \in 0..Len(Sweeps) : sweep' = [sweep EXCEPT ![c] = n]
        BY <3>2, <4>1 DEF Query
      <4> QED BY <1>0, <4>2 DEF TypeOK
    <3> QED BY <3>1, <3>2
  <2>4. /\ form' \in [Handlers -> Drafts \cup {None}] /\ Forms'
        /\ email_drafts' \in [Drafts -> {NoDraft} \cup [of : Drafted, at : DraftStates]]
    <3>1. CASE Tick(c) \/ Query(c)
      BY <1>0, <2>1, <3>1 DEF Tick, Query, TypeOK, IInv, Forms, tables
    <3>2. CASE FormRead(c)
      BY <1>0, <2>1, <3>2 DEF FormRead, Goto, TypeOK, IInv, Forms, tables
    <3>3. CASE Finish(c)
      <4>1. form' = [form EXCEPT ![c] = None]
            /\ (email_drafts' = IF form[c] = None THEN email_drafts
                                ELSE [email_drafts EXCEPT ![form[c]].at = "filled"])
        BY <3>3 DEF Finish
      <4>2. form' \in [Handlers -> Drafts \cup {None}]
            /\ \A x \in Handlers : form'[x] = IF x = c THEN None ELSE form[x]
        BY <1>0, <4>1 DEF TypeOK
      <4>3. /\ email_drafts' \in [Drafts -> {NoDraft} \cup [of : Drafted, at : DraftStates]]
            /\ \A x \in Drafts : email_drafts[x] \in [of : Drafted, at : DraftStates]
                    => email_drafts'[x] \in [of : Drafted, at : DraftStates]
        BY <1>0, <4>1 DEF TypeOK, DraftStates, IInv, Forms
      <4> QED BY <2>1, <4>2, <4>3 DEF IInv, Forms
    <3> QED BY <3>1, <3>2, <3>3
  <2>5. TypeOK'
    BY <1>0, <2>0, <2>1, <2>2, <2>3, <2>4 DEF TypeOK, window, history
  <2>a. Aside
    BY <2>0, <2>1 DEF Aside
  <2>6. Claims' /\ Account' /\ Claimed'
    BY <2>a, Untouched
  <2> QED BY <2>4, <2>5, <2>6 DEF IInv
<1> QED BY <1>1, <1>2, <1>3, <1>4

------------------------------------------------------------------------------
\* The steps of send_template_once.
LEMMA ReserveStep == ASSUME IInv, NEW c \in Handlers, Reserve(c) PROVE IInv'
<1>0. TypeOK /\ pc[c] = "letter"
      /\ UNCHANGED <<email_drafts, api_key, window, form, sweep, history, faults>>
  BY DEF IInv, Reserve
<1> PICK s \in todo[c] : Claim(c, s)
  BY DEF Reserve
<1>1. s \in Letters
  BY <1>0 DEF TypeOK
<1>2. CASE s \in email_sent
  <2>1. todo' = [todo EXCEPT ![c] = @ \ {s}] /\ UNCHANGED <<email_sent, letter, pc>>
    BY <1>2 DEF Claim
  <2>2. TypeOK'
    BY <1>0, <2>1 DEF TypeOK, window, history
  <2>3. Forms'
    BY <1>0, <2>1 DEF IInv, Forms
  <2>a. Aside
    BY <1>0, <2>1 DEF Aside
  <2>4. Claims' /\ Account' /\ Claimed'
    BY <2>a, Untouched
  <2> QED BY <2>2, <2>3, <2>4 DEF IInv
<1>3. CASE s \notin email_sent
  <2>1. email_sent' = email_sent \cup {s} /\ letter' = [letter EXCEPT ![c] = s]
        /\ pc' = [pc EXCEPT ![c] = "claimed"] /\ todo' = todo
    BY <1>3 DEF Claim, Goto
  <2>2. TypeOK'
    BY <1>0, <1>1, <2>1 DEF TypeOK, window, history, Places
  <2>3. \A x \in Handlers : /\ pc'[x] = IF x = c THEN "claimed" ELSE pc[x]
                            /\ letter'[x] = IF x = c THEN s ELSE letter[x]
    BY <1>0, <2>1 DEF TypeOK
  <2>4. /\ delivered' = delivered /\ unheard' = unheard /\ stuck' = stuck
    BY <1>0 DEF history
  <2>5. Forms'
    BY <1>0, <2>3 DEF IInv, Forms
  <2>6. Claims'
    <3>1. \A x \in Handlers : Holds(x)' <=> (x = c \/ Holds(x))
      BY <2>3 DEF Holds
    <3>2. \A x \in Handlers : Holds(x) => letter[x] # s
      BY <1>3 DEF IInv, Claims
    <3>3. \A x \in Handlers : Holds(x)' => letter'[x] \in email_sent'
      BY <2>1, <2>3, <3>1 DEF IInv, Claims
    <3>4. \A x, y \in Handlers : Holds(x)' /\ Holds(y)' /\ letter'[x] = letter'[y] => x = y
      BY <2>3, <3>1, <3>2 DEF IInv, Claims
    <3>5. \A x \in Handlers : pc'[x] = "sent" => delivered'[letter'[x]] # 0
      BY <2>3, <2>4 DEF IInv, Claims
    <3> QED BY <3>3, <3>4, <3>5 DEF Claims
  <2>7. Account'
    <3>1. ~Spent(s)
      BY <1>3 DEF Spent
    <3>2. \A t \in Letters : Spent(t) => Spent(t)'
      BY <1>3, <2>1, <2>3 DEF Spent
    <3> QED BY <2>4, <3>2 DEF IInv, Account
  <2>8. Claimed'
    BY <1>0, <2>1, <2>3, <2>4 DEF IInv, Claimed, Holds
  <2> QED BY <2>2, <2>5, <2>6, <2>7, <2>8 DEF IInv
<1> QED BY <1>2, <1>3

LEMMA PostStep == ASSUME IInv, NEW c \in Handlers, Post(c) PROVE IInv'
<1>0. TypeOK /\ pc[c] = "claimed" /\ pc' = [pc EXCEPT ![c] = "sent"]
      /\ delivered' = [delivered EXCEPT ![letter[c]] = @ + 1]
      /\ UNCHANGED <<email_sent, email_drafts, api_key, window, todo, letter, form, sweep, unheard, stuck, faults>>
  BY DEF IInv, Post, Goto, tables
<1>1. letter[c] \in email_sent /\ letter[c] \in Letters /\ Holds(c)
  BY <1>0 DEF IInv, Claims, Holds, TypeOK
<1>2. TypeOK'
  BY <1>0, <1>1 DEF TypeOK, window, Places
<1>3. \A x \in Handlers : pc'[x] = IF x = c THEN "sent" ELSE pc[x]
  BY <1>0 DEF TypeOK
<1>4. \A x \in Handlers : Holds(x)' <=> Holds(x)
  BY <1>0, <1>3 DEF Holds
<1>5. Forms'
  BY <1>0, <1>3 DEF IInv, Forms
<1>6. Claims'
  <2>1. \A s \in Letters : delivered[s] # 0 => delivered'[s] # 0
    BY <1>0, <1>1 DEF TypeOK
  <2>2. delivered'[letter[c]] # 0
    BY <1>0, <1>1 DEF TypeOK
  <2>3. \A x \in Handlers : pc'[x] = "sent" => delivered'[letter'[x]] # 0
    <3> SUFFICES ASSUME NEW x \in Handlers, pc'[x] = "sent", x # c
                 PROVE  delivered'[letter[x]] # 0
      BY <1>0, <2>2
    <3>1. pc[x] = "sent" /\ letter[x] \in Letters
      BY <1>0, <1>3 DEF IInv, Claims, Holds, TypeOK
    <3> QED BY <2>1, <3>1 DEF IInv, Claims
  <2> QED BY <1>0, <1>4, <2>3 DEF IInv, Claims
<1>7. Account'
  <2> SUFFICES ASSUME NEW s \in Letters
               PROVE  delivered'[s] <= unheard'[s] + 1 /\ (delivered'[s] <= unheard'[s] \/ Spent(s)')
    BY DEF Account
  <2>1. CASE s = letter[c]
    <3>1. ~Spent(s)
      BY <1>0, <2>1 DEF Spent
    <3>2. delivered[s] <= unheard[s]
      BY <3>1 DEF IInv, Account
    <3>3. delivered'[s] = delivered[s] + 1 /\ unheard'[s] = unheard[s]
      BY <1>0, <2>1 DEF TypeOK
    <3>4. delivered'[s] <= unheard'[s] + 1
      BY <1>0, <3>2, <3>3 DEF TypeOK
    <3>5. Spent(s)'
      BY <1>0, <1>1, <1>3, <2>1 DEF IInv, Claims, Holds, Spent
    <3> QED BY <3>4, <3>5
  <2>2. CASE s # letter[c]
    <3>1. delivered'[s] = delivered[s] /\ unheard'[s] = unheard[s]
      BY <1>0, <2>2 DEF TypeOK
    <3>2. Spent(s) => Spent(s)'
      BY <1>0, <1>3 DEF Spent
    <3> QED BY <3>1, <3>2 DEF IInv, Account
  <2> QED BY <2>1, <2>2
<1>8. Claimed'
  <2>1. \A s \in Letters : delivered[s] = 0 \/ delivered'[s] # 0
    BY <1>0, <1>1 DEF TypeOK
  <2> QED BY <1>0, <1>4, <2>1 DEF IInv, Claimed, TypeOK
<1> QED BY <1>2, <1>5, <1>6, <1>7, <1>8 DEF IInv

\* The claim goes on, to be given back.
LEMMA FailStep == ASSUME IInv, NEW c \in Handlers, NotSent(c) \/ NoAnswer(c) PROVE IInv'
<1>0. TypeOK /\ pc[c] \in {"claimed", "sent"} /\ pc' = [pc EXCEPT ![c] = "release"]
      /\ UNCHANGED <<email_sent, email_drafts, api_key, window, todo, letter, form, sweep, delivered, stuck>>
  BY DEF IInv, NotSent, NoAnswer, Goto, tables, history
<1>1. letter[c] \in email_sent /\ letter[c] \in Letters /\ Holds(c)
  BY <1>0 DEF IInv, Claims, Holds, TypeOK
<1>2. /\ unheard' \in [Letters -> Nat] /\ faults' \in 0..MaxFaults
      /\ \A s \in Letters : unheard'[s] >= unheard[s]
      /\ pc[c] = "sent" => unheard'[letter[c]] = unheard[letter[c]] + 1
  <2>1. CASE NotSent(c)
    BY <1>0, <2>1, MailAssumption DEF NotSent, Fault, TypeOK, history
  <2>2. CASE NoAnswer(c)
    BY <1>0, <1>1, <2>2, MailAssumption DEF NoAnswer, Fault, TypeOK
  <2> QED BY <2>1, <2>2
<1>3. TypeOK'
  BY <1>0, <1>2 DEF TypeOK, window, Places
<1>4. \A x \in Handlers : pc'[x] = IF x = c THEN "release" ELSE pc[x]
  BY <1>0 DEF TypeOK
<1>5. \A x \in Handlers : Holds(x)' <=> Holds(x)
  BY <1>0, <1>4 DEF Holds
<1>6. Forms'
  BY <1>0, <1>4 DEF IInv, Forms
<1>7. Claims'
  BY <1>0, <1>4, <1>5 DEF IInv, Claims
<1>8. Account'
  <2> SUFFICES ASSUME NEW s \in Letters
               PROVE  delivered'[s] <= unheard'[s] + 1 /\ (delivered'[s] <= unheard'[s] \/ Spent(s)')
    BY DEF Account
  <2>0. delivered'[s] = delivered[s] /\ delivered[s] \in Nat /\ unheard[s] \in Nat /\ unheard'[s] \in Nat
    BY <1>0, <1>2 DEF TypeOK
  <2>1. CASE s = letter[c]
    <3>1. CASE pc[c] = "sent"
      <4>1. delivered[s] <= unheard[s] + 1
        BY DEF IInv, Account
      <4> QED BY <1>2, <2>0, <2>1, <3>1, <4>1
    <3>2. CASE pc[c] = "claimed"
      <4>1. ~Spent(s)
        BY <2>1, <3>2 DEF Spent
      <4>2. delivered[s] <= unheard[s]
        BY <4>1 DEF IInv, Account
      <4> QED BY <1>2, <2>0, <4>2
    <3> QED BY <1>0, <3>1, <3>2
  <2>2. CASE s # letter[c]
    <3>1. Spent(s) => Spent(s)'
      BY <1>0, <1>4, <2>2 DEF Spent
    <3>2. delivered[s] <= unheard[s] + 1 /\ (delivered[s] <= unheard[s] \/ Spent(s))
      BY DEF IInv, Account
    <3>3. delivered'[s] <= unheard'[s] + 1
      BY <1>2, <2>0, <3>2
    <3>4. delivered[s] <= unheard[s] => delivered'[s] <= unheard'[s]
      BY <1>2, <2>0
    <3> QED BY <3>1, <3>2, <3>3, <3>4
  <2> QED BY <2>1, <2>2
<1>9. Claimed'
  BY <1>0, <1>5 DEF IInv, Claimed
<1> QED BY <1>3, <1>6, <1>7, <1>8, <1>9 DEF IInv

\* The claim of a letter that is out is left where it is.
LEMMA AnswerStep == ASSUME IInv, NEW c \in Handlers, Answer(c) PROVE IInv'
<1>0. TypeOK /\ pc[c] = "sent" /\ pc' = [pc EXCEPT ![c] = "letter"]
      /\ todo' = [todo EXCEPT ![c] = @ \ {letter[c]}] /\ letter' = [letter EXCEPT ![c] = None]
      /\ UNCHANGED <<email_sent, email_drafts, api_key, window, form, sweep, delivered, unheard, stuck, faults>>
  BY DEF IInv, Answer, Done, Goto, tables, history
<1>1. TypeOK'
  BY <1>0 DEF TypeOK, window, Places
<1>2. \A x \in Handlers : /\ pc'[x] = IF x = c THEN "letter" ELSE pc[x]
                          /\ x # c => letter'[x] = letter[x]
  BY <1>0 DEF TypeOK
<1>3. Forms'
  BY <1>0, <1>2 DEF IInv, Forms
<1>4. Claims'
  BY <1>0, <1>2 DEF IInv, Claims, Holds
<1>5. Account'
  <2>1. \A s \in Letters : Spent(s) => Spent(s)'
    BY <1>0, <1>2 DEF Spent
  <2> QED BY <1>0, <2>1 DEF IInv, Account
<1>6. Claimed'
  <2>1. delivered[letter[c]] # 0
    BY <1>0 DEF IInv, Claims
  <2> QED BY <1>0, <1>2, <2>1 DEF IInv, Claimed, Holds
<1> QED BY <1>1, <1>3, <1>4, <1>5, <1>6 DEF IInv

\* The claim is given back by the request that held it, and by no other.
LEMMA ReleaseStep == ASSUME IInv, NEW c \in Handlers, Release(c) PROVE IInv'
<1>0. TypeOK /\ pc[c] = "release" /\ pc' = [pc EXCEPT ![c] = "letter"]
      /\ todo' = [todo EXCEPT ![c] = @ \ {letter[c]}] /\ letter' = [letter EXCEPT ![c] = None]
      /\ email_sent' = email_sent \ {letter[c]}
      /\ UNCHANGED <<email_drafts, api_key, window, form, sweep, delivered, unheard, stuck, faults>>
  BY DEF IInv, Release, Done, Goto, history
<1>1. TypeOK'
  BY <1>0 DEF TypeOK, window, Places
<1>2. \A x \in Handlers : /\ pc'[x] = IF x = c THEN "letter" ELSE pc[x]
                          /\ x # c => letter'[x] = letter[x]
  BY <1>0 DEF TypeOK
<1>3. Forms'
  BY <1>0, <1>2 DEF IInv, Forms
<1>4. Claims'
  BY <1>0, <1>2 DEF IInv, Claims, Holds
<1>5. Account'
  <2>1. \A s \in Letters : Spent(s) => Spent(s)'
    BY <1>0, <1>2 DEF Spent
  <2> QED BY <1>0, <2>1 DEF IInv, Account
<1>6. Claimed'
  BY <1>0, <1>2 DEF IInv, Claimed, Holds
<1> QED BY <1>1, <1>3, <1>4, <1>5, <1>6 DEF IInv

------------------------------------------------------------------------------
\* A request that is cut off before its letter was out leaves the claim, and the
\* letter is known to be stuck.
LEMMA CutOffStep ==
    ASSUME IInv, NEW C \in SUBSET Handlers, CutOff(C),
           UNCHANGED <<tables, window, delivered, unheard>>,
           api_key' \in BOOLEAN, faults' \in 0..MaxFaults
    PROVE  IInv'
<1>0. TypeOK
  BY DEF IInv
<1>1. \A c \in Handlers :
        /\ pc'[c] = IF c \in C THEN "idle" ELSE pc[c]
        /\ letter'[c] = IF c \in C THEN None ELSE letter[c]
        /\ form'[c] = IF c \in C THEN None ELSE form[c]
  BY DEF CutOff
<1>2. stuck' = stuck \cup {letter[c] : c \in {d \in C : pc[d] \in {"claimed", "release"}}}
  BY DEF CutOff
<1>3. \A c \in C : pc[c] \in {"claimed", "release"} => letter[c] \in Letters
  BY <1>0 DEF IInv, Claims, Holds, TypeOK
<1>4. TypeOK'
  <2>1. pc' \in [Handlers -> Places] /\ todo' \in [Handlers -> SUBSET Letters]
    BY <1>0 DEF CutOff, TypeOK, Places
  <2>2. letter' \in [Handlers -> Letters \cup {None}] /\ form' \in [Handlers -> Drafts \cup {None}]
    BY <1>0 DEF CutOff, TypeOK
  <2>3. sweep' \in [Handlers -> 0..Len(Sweeps)]
    <3>1. 0 \in 0..Len(Sweeps)
      BY MailAssumption
    <3> QED BY <1>0, <3>1 DEF CutOff, TypeOK
  <2>4. stuck' \subseteq Letters
    BY <1>0, <1>2, <1>3 DEF TypeOK
  <2> QED BY <1>0, <2>1, <2>2, <2>3, <2>4 DEF TypeOK, tables, window
<1>5. Forms'
  BY <1>1 DEF IInv, Forms, tables
<1>6. Claims'
  BY <1>1 DEF IInv, Claims, Holds, tables
<1>7. Account'
  <2>1. \A s \in Letters : Spent(s) => Spent(s)'
    BY <1>1 DEF Spent, tables
  <2> QED BY <2>1 DEF IInv, Account
<1>8. Claimed'
  <2> SUFFICES ASSUME NEW s \in email_sent, delivered[s] = 0, s \notin stuck'
               PROVE  \E c \in Handlers : Holds(c)' /\ letter'[c] = s
    BY DEF Claimed, tables
  <2>1. PICK c \in Handlers : Holds(c) /\ letter[c] = s
    BY <1>2 DEF IInv, Claimed
  <2>2. c \notin C
    BY <1>2, <2>1 DEF IInv, Claims, Holds
  <2> QED BY <1>1, <2>1, <2>2 DEF Holds
<1> QED BY <1>4, <1>5, <1>6, <1>7, <1>8 DEF IInv

LEMMA InvStep == IInv /\ [Next]_vars => IInv'
<1> SUFFICES ASSUME IInv, [Next]_vars PROVE IInv'
  OBVIOUS
<1>1. CASE UNCHANGED vars
  <2>1. TypeOK' /\ Forms'
    BY <1>1 DEF vars, tables, window, call, history, IInv, TypeOK, Forms
  <2>a. Aside
    BY <1>1 DEF Aside, vars, tables, call
  <2>2. Claims' /\ Account' /\ Claimed'
    BY <2>a, Untouched
  <2> QED BY <2>1, <2>2 DEF IInv
<1>2. CASE \/ Opens \/ Closes
           \/ \E d \in Drafts : QueueDraft(d) \/ ExpireDraft(d)
           \/ \E c \in Calls : Event(c) \/ FillForm(c)
           \/ \E c \in Handlers : Tick(c) \/ FormRead(c) \/ Query(c) \/ Finish(c)
  BY <1>2, CallerSteps
<1>3. CASE \E c \in Handlers : Reserve(c)
  BY <1>3, ReserveStep
<1>4. CASE \E c \in Handlers : Post(c)
  BY <1>4, PostStep
<1>5. CASE \E c \in Handlers : NotSent(c) \/ NoAnswer(c)
  BY <1>5, FailStep
<1>6. CASE \E c \in Handlers : Answer(c)
  BY <1>6, AnswerStep
<1>7. CASE \E c \in Handlers : Release(c)
  BY <1>7, ReleaseStep
<1>8. CASE Restart
  <2>1. faults' \in 0..MaxFaults
    BY <1>8, MailAssumption DEF Restart, Fault, IInv, TypeOK
  <2>2. CutOff(Handlers) /\ UNCHANGED <<tables, window, delivered, unheard>> /\ api_key' \in BOOLEAN
    BY <1>8 DEF Restart
  <2> QED BY <2>1, <2>2, CutOffStep
<1>9. CASE \E c \in Handlers : Abort(c)
  <2> PICK c \in Handlers : Abort(c)
    BY <1>9
  <2>1. faults' \in 0..MaxFaults
    BY MailAssumption DEF Abort, Fault, IInv, TypeOK
  <2>2. CutOff({c}) /\ UNCHANGED <<tables, window, delivered, unheard>> /\ api_key' \in BOOLEAN
    BY DEF Abort, IInv, TypeOK
  <2>3. {c} \in SUBSET Handlers
    OBVIOUS
  <2> QED BY <2>1, <2>2, <2>3, CutOffStep
<1> QED BY <1>1, <1>2, <1>3, <1>4, <1>5, <1>6, <1>7, <1>8, <1>9 DEF Next, Step

------------------------------------------------------------------------------
\* The ledger, the requests and what has gone out agree, whatever the letters,
\* requests and failures.
THEOREM MailInvariant == Spec => []IInv
BY InvInit, InvStep, PTL DEF Spec

\* Every variable keeps its type.
THEOREM TypesHold == Spec => []TypeOK
<1>1. IInv => TypeOK
  BY DEF IInv
<1> QED BY <1>1, MailInvariant, PTL

\* A letter goes out once, and once more for each answer that was lost.
THEOREM SentOnce == Spec => []OnceUnlessUnheard
<1>1. IInv => OnceUnlessUnheard
  <2> SUFFICES ASSUME IInv, NEW s \in Letters PROVE delivered[s] <= 1 + unheard[s]
    BY DEF OnceUnlessUnheard
  <2>1. delivered[s] <= unheard[s] + 1 /\ unheard[s] \in Nat
    BY DEF IInv, Account, TypeOK
  <2> QED BY <2>1
<1> QED BY <1>1, MailInvariant, PTL

\* A letter that is claimed and has not gone out is in one pair of hands.
THEOREM NoneSuppressed == Spec => []NotSuppressed
<1>1. IInv => NotSuppressed
  BY DEF IInv, Claimed, Claims, NotSuppressed
<1> QED BY <1>1, MailInvariant, PTL
================================================================================
