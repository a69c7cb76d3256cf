-------------------------------- MODULE SignUp --------------------------------
(***************************************************************************)
(* How an account comes to be on the server (server/app.py): the card is   *)
(* checked and noted (setup-card), the account is created (register, or    *)
(* the older signup), a link is mailed and opened.  Every request runs in  *)
(* a thread and on a connection of its own, with READ COMMITTED            *)
(* transactions: what it has checked may be stale when it writes.  The     *)
(* table has no unique index but on the licence key.                       *)
(*                                                                         *)
(* A password and a link are named by the request that made them, 0 stands *)
(* for the empty string.  A request begins with its first query; one that  *)
(* is refused there changes nothing and is no step.  The queries of one    *)
(* check, which nothing separates, are one step.  The page sends no phone  *)
(* number, so the phone steps are left out, as are letters other than the  *)
(* link's (MailLedger) and the notes to the administrator.  Names that     *)
(* SessionSlot has too begin with SignUp: ServerProofs extends both.       *)
(***************************************************************************)
EXTENDS Integers, Sequences, FiniteSets

CONSTANTS Emails,
          Cards,
          Marked,     \* those the payment provider gives a fingerprint of
          NoCard,
          MaxCalls,   \* bound: requests
          MaxEvents   \* bound: acts of the administrator and restarts

ASSUME SignUpAssumption ==
    /\ NoCard \notin Cards /\ Marked \subseteq Cards
    /\ MaxCalls \in Nat /\ MaxEvents \in Nat

VARIABLES licences, \* the rows of licenses in the order of their insertion
          pending,  \* pending_signups: the verified card, if there is a row
          calls,    \* the requests, in the order of their first query
          inbox,    \* links that have been mailed
          touched,  \* e-mail addresses the administrator has dealt with
          admin,    \* acts of the administrator
          crashes

signUpVars == <<licences, pending, calls, inbox, touched, admin, crashes>>

Row == [email: Emails, password: 0..MaxCalls, card: Cards \cup {NoCard},
        verified: BOOLEAN, link: 0..MaxCalls, created: Nat,
        status: {"active", "revoked", "deleted"}]

\* row is a licence, 0 for none; saw is history: the requests that had written
\* an account when this one made its check.
Call == [kind: {"card", "register", "signup", "resend", "open"},
         email: Emails \cup {"none"}, card: Cards \cup {NoCard}, row: Nat,
         link: 0..MaxCalls, began: Nat, wrote: BOOLEAN,
         saw: SUBSET (1..MaxCalls),
         at: {"check", "save", "write", "drop", "link", "mail", "verify",
              "done", "refused", "dead"}]

SignUpInit == /\ licences = <<>> /\ calls = <<>>
              /\ pending = [e \in Emails |-> NoCard]
              /\ inbox = {} /\ touched = {} /\ admin = 0 /\ crashes = 0

-----------------------------------------------------------------------------
(***************************************************************************)
(* Queries.                                                                *)
(***************************************************************************)
Live(i) == licences[i].status # "deleted"
Rows == {i \in DOMAIN licences : Live(i)}

\* ORDER BY created_at DESC LIMIT 1; created_at is when the transaction began.
Latest(email, i) ==
    /\ i \in Rows /\ licences[i].email = email
    /\ \A j \in Rows : licences[j].email = email
                       => licences[j].created <= licences[i].created

Unknown(email) == \A i \in Rows : licences[i].email # email

\* LIMIT 1: a row that has the card, any of them, is of another address.  A card
\* without a fingerprint is not looked for.
Owners(card) == {i \in Rows : card \in Marked /\ licences[i].card = card}
MaybeTaken(card, email) == \E i \in Owners(card) : licences[i].email # email
MaybeFree(card, email) ==
    Owners(card) = {} \/ \E i \in Owners(card) : licences[i].email = email

\* Both orders of writing and of beginning a transaction follow from this.
Now == Len(calls) + admin

NewCall(kind) ==
    [kind |-> kind, email |-> "none", card |-> NoCard, row |-> 0, link |-> 0,
     began |-> Now, wrote |-> FALSE, saw |-> {}, at |-> "check"]

Begin(call) == Len(calls) < MaxCalls /\ calls' = Append(calls, call)

\* Request c goes on at a label, having changed some of its locals.
Goto(c, label) == calls' = [calls EXCEPT ![c].at = label]
Refuse(c) == Goto(c, "refused")

At(c, kinds, label) == calls[c].kind \in kinds /\ calls[c].at = label

Writers == {c \in DOMAIN calls : calls[c].wrote}

-----------------------------------------------------------------------------
(***************************************************************************)
(* setup-card, after the payment provider has accepted the card.           *)
(***************************************************************************)
SetupCard ==
    /\ \E e \in Emails, k \in Cards :
          /\ MaybeFree(k, e)
          /\ Begin([NewCall("card") EXCEPT !.email = e, !.card = k, !.at = "save"])
    /\ UNCHANGED <<licences, pending, inbox, touched, admin, crashes>>

SaveCard(c) ==
    /\ At(c, {"card"}, "save")
    /\ pending' = [pending EXCEPT ![calls[c].email] = calls[c].card]
    /\ Goto(c, "done")
    /\ UNCHANGED <<licences, inbox, touched, admin, crashes>>

-----------------------------------------------------------------------------
(***************************************************************************)
(* register and signup.                                                    *)
(***************************************************************************)
\* Without a pending row that has a verified card register goes no further.
Register ==
    /\ \E e \in Emails :
          /\ pending[e] # NoCard
          /\ Begin([NewCall("register") EXCEPT !.email = e, !.card = pending[e]])
    /\ UNCHANGED <<licences, pending, inbox, touched, admin, crashes>>

\* Mutant: register relies on the check that setup-card has made.
CheckCardOnce(c) ==
    /\ At(c, {"register"}, "check")
    /\ LET e == calls[c].email
       IN  \/ /\ \E i \in Rows : Latest(e, i) /\ licences[i].password # 0
              /\ Refuse(c)
           \/ \E i \in Rows \cup {0} :
                 /\ IF i = 0 THEN Unknown(e)
                    ELSE Latest(e, i) /\ licences[i].password = 0
                 /\ calls' = [calls EXCEPT ![c].row = i, ![c].saw = Writers,
                                           ![c].at = "write"]
    /\ UNCHANGED <<licences, pending, inbox, touched, admin, crashes>>

\* "Re-check uniqueness": an address whose latest row has a password, or a
\* card of another address, is refused; a row without a password is promoted.
Check(c) ==
    /\ At(c, {"register"}, "check")
    /\ LET e == calls[c].email
       IN  \/ /\ \/ \E i \in Rows : Latest(e, i) /\ licences[i].password # 0
                 \/ MaybeTaken(calls[c].card, e)
              /\ Refuse(c)
           \/ /\ MaybeFree(calls[c].card, e)
              /\ \E i \in Rows \cup {0} :
                    /\ IF i = 0 THEN Unknown(e)
                       ELSE Latest(e, i) /\ licences[i].password = 0
                    /\ calls' = [calls EXCEPT ![c].row = i, ![c].saw = Writers,
                                              ![c].at = "write"]
    /\ UNCHANGED <<licences, pending, inbox, touched, admin, crashes>>

\* Mutant: an address that has an account is given the new password.
SignUpAgain ==
    /\ \E e \in Emails, i \in Rows \cup {0} :
          /\ IF i = 0 THEN Unknown(e) ELSE Latest(e, i)
          /\ Begin([NewCall("signup") EXCEPT !.email = e, !.row = i,
                        !.saw = Writers, !.at = "write"])
    /\ UNCHANGED <<licences, pending, inbox, touched, admin, crashes>>

SignUp ==
    /\ \E e \in Emails, i \in Rows \cup {0} :
          /\ IF i = 0 THEN Unknown(e)
             ELSE Latest(e, i) /\ licences[i].password = 0
          /\ Begin([NewCall("signup") EXCEPT !.email = e, !.row = i,
                        !.saw = Writers, !.at = "write"])
    /\ UNCHANGED <<licences, pending, inbox, touched, admin, crashes>>

\* The locals of the request after its licence is committed: register goes on
\* to drop the pending row, signup is done.
Wrote(c, i) ==
    calls' = [calls EXCEPT ![c].row = i, ![c].wrote = TRUE,
                  ![c].at = IF calls[c].kind = "register" THEN "drop" ELSE "done"]

\* Promote the row that was found.  When it has been deleted meanwhile, the
\* UPDATE finds nothing: register fails, signup answers "ok" without a token.
Promote(c) ==
    /\ At(c, {"register", "signup"}, "write") /\ calls[c].row # 0
    /\ LET i == calls[c].row
       IN  IF Live(i)
           THEN /\ licences' = [licences EXCEPT
                       ![i].password = c,
                       ![i].card = IF calls[c].kind = "register"
                                   THEN calls[c].card ELSE @]
                /\ Wrote(c, i)
           ELSE /\ Goto(c, IF calls[c].kind = "register" THEN "refused" ELSE "done")
                /\ UNCHANGED licences
    /\ UNCHANGED <<pending, inbox, touched, admin, crashes>>

NewRow(email, password, card, created) ==
    [email |-> email, password |-> password, card |-> card, verified |-> FALSE,
     link |-> 0, created |-> created, status |-> "active"]

Insert(c) ==
    /\ At(c, {"register", "signup"}, "write") /\ calls[c].row = 0
    /\ licences' = Append(licences, NewRow(calls[c].email, c,
           IF calls[c].kind = "register" THEN calls[c].card ELSE NoCard,
           calls[c].began))
    /\ Wrote(c, Len(licences) + 1)
    /\ UNCHANGED <<pending, inbox, touched, admin, crashes>>

DropPending(c) ==
    /\ At(c, {"register"}, "drop")
    /\ pending' = [pending EXCEPT ![calls[c].email] = NoCard]
    /\ Goto(c, "link")
    /\ UNCHANGED <<licences, inbox, touched, admin, crashes>>

-----------------------------------------------------------------------------
(***************************************************************************)
(* The link: made by register and by resend-verification, opened at        *)
(* verify-email.  A letter that does not arrive is one that is not opened. *)
(***************************************************************************)
\* A user who is signed in to a row asks for another link.
Resend ==
    /\ \E i \in Rows :
          /\ licences[i].password # 0 /\ ~licences[i].verified
          /\ Begin([NewCall("resend") EXCEPT !.email = licences[i].email,
                        !.row = i, !.at = "link"])
    /\ UNCHANGED <<licences, pending, inbox, touched, admin, crashes>>

SetLink(c) ==
    /\ At(c, {"register", "resend"}, "link")
    /\ licences' = IF Live(calls[c].row)
                   THEN [licences EXCEPT ![calls[c].row].link = c]
                   ELSE licences
    /\ Goto(c, "mail")
    /\ UNCHANGED <<pending, inbox, touched, admin, crashes>>

MailLink(c) ==
    /\ At(c, {"register", "resend"}, "mail")
    /\ inbox' = inbox \cup {c}
    /\ Goto(c, "done")
    /\ UNCHANGED <<licences, pending, touched, admin, crashes>>

\* Mutant: a visit without a token finds the rows that have none.
OpenBare ==
    /\ \E l \in inbox \cup {0} :
          \E i \in {j \in Rows : licences[j].link = l} :
             Begin([NewCall("open") EXCEPT !.link = l, !.row = i, !.at = "verify"])
    /\ UNCHANGED <<licences, pending, inbox, touched, admin, crashes>>

\* A link is opened that some row has.  After its 24 hours the link of an
\* unverified row is refused.
Open ==
    /\ \E l \in inbox :
          \E i \in {j \in Rows : licences[j].link = l} :
             Begin([NewCall("open") EXCEPT !.link = l, !.row = i, !.at = "verify"])
    /\ UNCHANGED <<licences, pending, inbox, touched, admin, crashes>>

\* By id: the row may have another link by now, which is cleared too.
Verify(c) ==
    /\ At(c, {"open"}, "verify")
    /\ licences' = IF Live(calls[c].row)
                   THEN [licences EXCEPT ![calls[c].row].verified = TRUE,
                                         ![calls[c].row].link = 0]
                   ELSE licences
    /\ Goto(c, "done")
    /\ UNCHANGED <<pending, inbox, touched, admin, crashes>>

-----------------------------------------------------------------------------
(***************************************************************************)
(* The administrator, and the end of the server's process.                 *)
(***************************************************************************)
Act(email) ==
    /\ admin + crashes < MaxEvents
    /\ admin' = admin + 1 /\ touched' = touched \cup {email}

AdminCreate ==
    /\ \E e \in Emails :
          /\ Act(e)
          /\ licences' = Append(licences, NewRow(e, 0, NoCard, Now))
    /\ UNCHANGED <<pending, calls, inbox, crashes>>

AdminRevoke ==
    /\ \E i \in Rows :
          /\ Act(licences[i].email)
          /\ licences' = [licences EXCEPT ![i].status = "revoked"]
    /\ UNCHANGED <<pending, calls, inbox, crashes>>

AdminHardDelete ==
    /\ \E i \in Rows :
          /\ licences[i].status = "revoked"
          /\ Act(licences[i].email)
          /\ licences' = [licences EXCEPT ![i].status = "deleted"]
    /\ UNCHANGED <<pending, calls, inbox, crashes>>

Over == {"done", "refused", "dead"}

\* The next process drops the pending rows that are older than 24 hours.
Crash ==
    /\ admin + crashes < MaxEvents /\ crashes' = crashes + 1
    /\ calls' = [c \in DOMAIN calls |->
                    IF calls[c].at \in Over THEN calls[c]
                    ELSE [calls[c] EXCEPT !.at = "dead"]]
    /\ \E old \in SUBSET Emails :
          pending' = [e \in Emails |-> IF e \in old THEN NoCard ELSE pending[e]]
    /\ UNCHANGED <<licences, inbox, touched, admin>>

SignUpNext == \/ SetupCard \/ Register \/ SignUp \/ Resend \/ Open
              \/ \E c \in DOMAIN calls :
                    \/ SaveCard(c) \/ Check(c) \/ Promote(c) \/ Insert(c)
                    \/ DropPending(c) \/ SetLink(c) \/ MailLink(c) \/ Verify(c)
              \/ AdminCreate \/ AdminRevoke \/ AdminHardDelete \/ Crash

SignUpSpec == SignUpInit /\ [][SignUpNext]_signUpVars

-----------------------------------------------------------------------------
(***************************************************************************)
(* Properties.                                                             *)
(***************************************************************************)
SignUpTypeOK ==
    /\ licences \in Seq(Row) /\ calls \in Seq(Call)
    /\ pending \in [Emails -> Cards \cup {NoCard}]
    /\ inbox \subseteq 1..MaxCalls /\ touched \subseteq Emails
    /\ admin \in Nat /\ crashes \in Nat /\ admin + crashes <= MaxEvents

\* Neither of two requests saw what the other wrote when it made its check.
Overlapped(c, d) == c # d /\ c \notin calls[d].saw /\ d \notin calls[c].saw

Accounts == {i \in Rows : licences[i].password # 0}

\* Two accounts never have one address, and accounts of different addresses
\* never one card, whatever was left pending and wherever a restart cut a
\* request off, unless requests for that address or with that card ran side by
\* side or the administrator has dealt with the address (register:
\* "email+phone+card must be unique across active accounts").
AccountsApart ==
    \A i, j \in Accounts :
       IF licences[i].email = licences[j].email
       THEN i # j => \/ licences[i].email \in touched
                     \/ \E c, d \in Writers :
                           /\ calls[c].email = licences[i].email
                           /\ calls[d].email = licences[i].email
                           /\ Overlapped(c, d)
       ELSE licences[i].card \in Marked /\ licences[i].card = licences[j].card
            => \E c, d \in Writers :
                  /\ calls[c].card = licences[i].card
                  /\ calls[d].card = licences[i].card
                  /\ calls[c].email # calls[d].email
                  /\ Overlapped(c, d)

\* A request that answered "ok" left an account its user can sign in to: the
\* latest row of the address has the password, unless another request for the
\* address ran side by side with it or the administrator has stepped in.
SignInWorks ==
    \A c \in DOMAIN calls :
       /\ calls[c].kind \in {"register", "signup"} /\ calls[c].at = "done"
       /\ calls[c].email \notin touched
       => \/ \E i \in Rows : Latest(calls[c].email, i) /\ licences[i].password = c
          \/ \E d \in Writers \ {c} :
                calls[d].email = calls[c].email /\ Overlapped(c, d)

\* An address counts as verified only when a link that was made for its row
\* and mailed has been opened, however many links were asked for meanwhile.
VerifiedByLink ==
    \A i \in Rows :
       licences[i].verified =>
          \E c \in DOMAIN calls :
             /\ calls[c].kind = "open" /\ calls[c].at = "done"
             /\ calls[c].link \in inbox
             /\ calls[calls[c].link].row = i

\* As the docstring of register has it, for every schedule.
UniqueAccounts ==
    \A i, j \in Accounts :
       i # j => licences[i].email # licences[j].email
                /\ (licences[i].card \notin Marked \/ licences[i].card # licences[j].card)

=============================================================================
