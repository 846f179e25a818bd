------------------------------ MODULE WaLogin ------------------------------
(***************************************************************************)
(* Sign-in by sending a code over WhatsApp: a browser opens an attempt,    *)
(* the mobed's phone sends its code, the webhook binds the phone to it and *)
(* sends back a number, and the browser finishes with that number (wa_login*)
(* and its routes).                                                        *)
(*                                                                         *)
(* The browser's calls and the webhook's deliveries are transactions that  *)
(* read the attempt's row and write it later, without a lock; the deletion *)
(* of a row that is gone finds nothing, an update of one fails.            *)
(***************************************************************************)
EXTENDS Naturals, FiniteSets, Sequences

CONSTANTS
    Attempt,     \* sign-in attempts, one of each browser
    Phone,
    CanJoin,     \* phones that may create an account (SIGNUP_MODE)
    Withheld,    \* phones whose number WhatsApp keeps to itself, of no mobed it knows
    Hook, Page,  \* deliveries of the webhook, and calls of browsers, at work at once
    Nobody,      \* no phone: not claimed
    Confirming,  \* SIGNIN_CONFIRMATION is on and messages can be sent
    MaxTries,    \* CONFIRM_MAX_ATTEMPTS
    MaxNumbers,  \* bound: confirmation numbers sent
    MaxSent      \* bound: times a code is sent or delivered again

ASSUME WaLoginAssumption ==
    /\ CanJoin \subseteq Phone /\ Withheld \subseteq Phone /\ Nobody \notin Phone
    /\ Confirming \in BOOLEAN /\ IsFiniteSet(Page)
    /\ MaxTries \in Nat \ {0} /\ MaxNumbers \in Nat /\ MaxSent \in Nat

VARIABLES
    att,      \* [Attempt -> its row: by is Nobody as long as claimed_at is unset]
    account,  \* [Phone -> its user: none, without a name, or named]
    numbers,  \* the phones that confirmation numbers were sent to, in order
    mail,     \* codes sent by phones that WhatsApp has (still) to deliver
    hook,     \* [Hook -> the code it delivers, and where it stands]
    page,     \* [Page -> a browser's call, and the row as it read it]
    begun,    \* [Attempt -> phones of the sessions started from it, in order]
    came,     \* observer: [Attempt -> phones that sent its code]
    typed,    \* observer: [Attempt -> phones whose number was asked for, and typed]
    asked,    \* observer: [Attempt -> phones whose number was asked for]
    wrong,    \* observer: [Attempt -> wrong numbers typed]
    calls,    \* observer: [Attempt -> the most calls of its browser at work at once]
    crossed,  \* observer: attempts with two deliveries at work at once
    sent      \* count bounded by MaxSent

watched == <<begun, came, typed, asked, wrong, calls, crossed, sent>>
waVars == <<att, account, numbers, mail, hook, page, begun, came, typed, asked, wrong,
            calls, crossed, sent>>

Row == [state : {"none", "open", "gone"}, late : BOOLEAN, by : Phone \cup {Nobody},
        confirm : 0 .. MaxNumbers, tries : 0 .. MaxTries]
Quiet == [at |-> "idle"]
HookState == [at : {"found", "bound"}, att : Attempt, from : Phone, confirm : 0 .. MaxNumbers]
PageState == [at : {"number", "claimed"}, att : Attempt, phone : Phone, name : BOOLEAN,
              typed : 0 .. MaxNumbers, confirm : 0 .. MaxNumbers, tries : 0 .. MaxTries]

WaInit ==
    /\ att = [a \in Attempt |-> [state |-> "none", late |-> FALSE, by |-> Nobody,
                                 confirm |-> 0, tries |-> 0]]
    /\ account \in [Phone -> {"none", "named"}]
    /\ numbers = <<>> /\ mail = {} /\ sent = 0
    /\ hook = [h \in Hook |-> Quiet]
    /\ page = [g \in Page |-> Quiet]
    /\ begun = [a \in Attempt |-> <<>>]
    /\ came = [a \in Attempt |-> {}] /\ typed = [a \in Attempt |-> {}]
    /\ asked = [a \in Attempt |-> {}] /\ wrong = [a \in Attempt |-> 0]
    /\ calls = [a \in Attempt |-> 0] /\ crossed = {}

-----------------------------------------------------------------------------
\* A delivery has written the attempt's row and not yet committed: who writes it waits.
Bound(a) == \E h \in Hook : hook[h].at = "bound" /\ hook[h].att = a

\* Whoever opens an attempt sweeps the expired ones on the way.
Swept == [a \in Attempt |-> IF att[a].state = "open" /\ att[a].late
                             THEN [att[a] EXCEPT !.state = "gone"] ELSE att[a]]

Open(a) ==
    /\ att[a].state = "none"
    /\ \A b \in Attempt : att[b].late => ~Bound(b)
    /\ att' = [Swept EXCEPT ![a].state = "open"]
    /\ UNCHANGED <<account, numbers, mail, hook, page, watched>>

\* A browser beyond these opens one.
OpenElsewhere ==
    /\ \A a \in Attempt : att[a].late => ~Bound(a)
    /\ att' = Swept
    /\ UNCHANGED <<account, numbers, mail, hook, page, watched>>

Expire(a) ==
    /\ att[a].state = "open" /\ ~att[a].late
    /\ att' = [att EXCEPT ![a].late = TRUE]
    /\ UNCHANGED <<account, numbers, mail, hook, page, watched>>

\* The phone sends the code shown in the browser, or WhatsApp repeats itself.
SendCode(a, p) ==
    /\ sent < MaxSent /\ sent' = sent + 1
    /\ att[a].state # "none"
    /\ mail' = mail \cup {<<a, p>>}
    /\ came' = [came EXCEPT ![a] = @ \cup {p}]
    /\ UNCHANGED <<att, account, numbers, hook, page, begun, typed, asked, wrong, calls, crossed>>

-----------------------------------------------------------------------------
(***************************************************************************)
(* The webhook: claim, require_confirmation, the message, the commit.      *)
(***************************************************************************)

Claimable(a) == att[a].state = "open" /\ ~att[a].late /\ att[a].by = Nobody

\* The code is looked up; an unknown, expired or claimed one ends the delivery.
FindAttempt(h, a, p) ==
    /\ hook[h] = Quiet /\ <<a, p>> \in mail
    /\ IF Claimable(a)
         THEN /\ hook' = [hook EXCEPT ![h] = [at |-> "found", att |-> a, from |-> p, confirm |-> 0]]
              /\ crossed' = IF \E g \in Hook : hook[g] # Quiet /\ hook[g].att = a
                            THEN crossed \cup {a} ELSE crossed
              /\ UNCHANGED mail
         ELSE mail' = mail \ {<<a, p>>} /\ UNCHANGED <<hook, crossed>>
    /\ UNCHANGED <<att, account, numbers, page, begun, came, typed, asked, wrong, calls, sent>>

\* The row is written, which locks it, and a number posted to the phone, if it is known.
\* If it is not accepted, the sign-in goes on without one.
BindSender(h) ==
    /\ hook[h].at = "found" /\ ~Bound(hook[h].att)
    /\ att[hook[h].att].state = "open"
    /\ \/ /\ Confirming /\ hook[h].from \notin Withheld /\ Len(numbers) < MaxNumbers
          /\ numbers' = Append(numbers, hook[h].from)
          /\ hook' = [hook EXCEPT ![h] = [@ EXCEPT !.at = "bound", !.confirm = Len(numbers')]]
       \/ /\ hook' = [hook EXCEPT ![h] = [@ EXCEPT !.at = "bound", !.confirm = 0]]
          /\ UNCHANGED numbers
    /\ UNCHANGED <<att, account, mail, page, watched>>

\* The columns a delivery writes.  It read a row nobody had claimed,
\* so a number that is withheld changes none that another delivery may have written
\* since, and the tries, read as none, are not written at all.
ClaimedBy(row, p, confirm) ==
    IF p \notin Withheld THEN [row EXCEPT !.by = p, !.confirm = confirm]
    ELSE IF row.by = Nobody THEN [row EXCEPT !.by = p] ELSE row

CommitClaim(h) ==
    /\ hook[h].at = "bound"
    /\ LET a == hook[h].att
           p == hook[h].from
       IN  /\ att' = [att EXCEPT ![a] = ClaimedBy(@, p, hook[h].confirm)]
           /\ asked' = IF hook[h].confirm # 0 THEN [asked EXCEPT ![a] = @ \cup {p}] ELSE asked
           /\ mail' = mail \ {<<a, p>>}
    /\ hook' = [hook EXCEPT ![h] = Quiet]
    /\ UNCHANGED <<account, numbers, page, begun, came, typed, wrong, calls, crossed, sent>>

\* The request dies, or finds its row gone; the code is delivered again.
HookFails(h) ==
    /\ hook[h] # Quiet
    /\ hook' = [hook EXCEPT ![h] = Quiet]
    /\ UNCHANGED <<att, account, numbers, mail, page, watched>>

-----------------------------------------------------------------------------
(***************************************************************************)
(* The browser, by the cookie of its attempt: poll, confirm, complete.     *)
(***************************************************************************)
Claimed(a, p, name) == [at |-> "claimed", att |-> a, phone |-> p, name |-> name,
                        typed |-> 0, confirm |-> 0, tries |-> 0]

AtOnce(a) == {g \in Page : page[g] # Quiet /\ page[g].att = a}

Call(g, a, state) ==
    /\ page[g] = Quiet
    /\ att[a].state = "open" /\ att[a].by # Nobody
    /\ page' = [page EXCEPT ![g] = state]
    /\ LET n == Cardinality(AtOnce(a)) + 1
       IN  calls' = [calls EXCEPT ![a] = IF n > @ THEN n ELSE @]
    /\ UNCHANGED <<att, account, numbers, mail, hook, begun, came, typed, asked, wrong, crossed, sent>>

\* Mutant: a claimed attempt is taken whether it was confirmed or not.
ProvenAnyway(a) == TRUE
Proven(a) == att[a].confirm = 0

\* A poll finds the attempt claimed, and confirmed or by nobody it can name; the name
\* of a first sign-in finds it claimed and confirmed.
Poll(g, a) == (att[a].by \in Withheld \/ Proven(a)) /\ Call(g, a, Claimed(a, att[a].by, FALSE))
Complete(g, a) == att[a].by \notin Withheld /\ Proven(a) /\ Call(g, a, Claimed(a, att[a].by, TRUE))
\* A number is typed: one that was sent to somebody, or another (0).
TypeNumber(g, a, n) ==
    /\ att[a].confirm # 0 /\ att[a].by \notin Withheld
    /\ Call(g, a, [at |-> "number", att |-> a, phone |-> att[a].by, name |-> FALSE, typed |-> n,
                   confirm |-> att[a].confirm, tries |-> att[a].tries])

TriesLeft(g) == page[g].tries < MaxTries
GoodTry(g) == TriesLeft(g) /\ ~att[page[g].att].late

\* confirm: judged on the row as it was read; the try is written on the row as it is.
CheckNumber(g) ==
    /\ page[g].at = "number" /\ ~Bound(page[g].att)
    /\ LET a == page[g].att
           right == page[g].typed = page[g].confirm
       IN  IF GoodTry(g) /\ att[a].state = "open"
             THEN /\ att' = [att EXCEPT ![a].tries = page[g].tries + 1,
                                        ![a].confirm = IF right THEN 0 ELSE @]
                  /\ page' = [page EXCEPT ![g] = IF right THEN Claimed(a, @.phone, FALSE) ELSE Quiet]
                  /\ typed' = IF right THEN [typed EXCEPT ![a] = @ \cup {page[g].phone}] ELSE typed
                  /\ wrong' = IF right THEN wrong ELSE [wrong EXCEPT ![a] = @ + 1]
             ELSE page' = [page EXCEPT ![g] = Quiet] /\ UNCHANGED <<att, typed, wrong>>
    /\ UNCHANGED <<account, numbers, mail, hook, begun, came, asked, calls, crossed, sent>>

\* Mutant: the attempt stays open once a session has begun.
Kept(a) == att
Consumed(a) == [att EXCEPT ![a].state = "gone"]

Refused(p) == p \in Withheld \/ (account[p] = "none" /\ p \notin CanJoin)

\* login_user and _wa_login_session, one transaction: a number that may not join, or
\* was withheld, is refused and its attempt spent; a first sign-in without a name waits
\* for one; else the attempt is consumed and a session begins.
Enter(g) ==
    /\ page[g].at = "claimed" /\ ~Bound(page[g].att)
    /\ LET a == page[g].att
           p == page[g].phone
           named == account[p] = "named" \/ page[g].name
       IN  \/ /\ Refused(p)
              /\ att' = Consumed(a)
              /\ UNCHANGED <<account, begun>>
           \/ /\ ~Refused(p)
              /\ account' = [account EXCEPT ![p] = IF named THEN "named" ELSE "unnamed"]
              /\ IF named
                   THEN att' = Consumed(a) /\ begun' = [begun EXCEPT ![a] = Append(@, p)]
                   ELSE UNCHANGED <<att, begun>>
    /\ page' = [page EXCEPT ![g] = Quiet]
    /\ UNCHANGED <<numbers, mail, hook, came, typed, asked, wrong, calls, crossed, sent>>

PageFails(g) ==
    /\ page[g] # Quiet
    /\ page' = [page EXCEPT ![g] = Quiet]
    /\ UNCHANGED <<att, account, numbers, mail, hook, watched>>

Deliver(h) ==
    \/ \E a \in Attempt, p \in Phone : FindAttempt(h, a, p)
    \/ BindSender(h) \/ CommitClaim(h)

Browse(g) ==
    \/ \E a \in Attempt : Poll(g, a) \/ Complete(g, a)
    \/ \E a \in Attempt, n \in 0 .. Len(numbers) : TypeNumber(g, a, n)
    \/ CheckNumber(g) \/ Enter(g)

WaNext ==
    \/ \E a \in Attempt : Open(a) \/ Expire(a) \/ \E p \in Phone : SendCode(a, p)
    \/ OpenElsewhere
    \/ \E h \in Hook : Deliver(h) \/ HookFails(h)
    \/ \E g \in Page : Browse(g) \/ PageFails(g)

WaSpec == WaInit /\ [][WaNext]_waVars

-----------------------------------------------------------------------------
(***************************************************************************)
(* Properties.                                                             *)
(***************************************************************************)

\* Who is signed in from an attempt sent its code; and where a number was sent back,
\* that number was typed - unless two deliveries for the attempt were at work at once
\* (routes: "the screen that started this finishes only with a number sent back").
SignedInByTheirPhone ==
    \A a \in Attempt : \A i \in 1 .. Len(begun[a]) :
        LET p == begun[a][i]
        IN  /\ p \in came[a]
            /\ a \notin crossed /\ p \in asked[a] => p \in typed[a]

\* An attempt starts no more sessions than there were ever calls of its browser at
\* work at once: one, where they come one by one (_wa_login_session; the screen polls
\* while the number is typed).  Once its tries are used up it starts none, "even for
\* the right number afterwards", where nothing overlapped (confirm).
OneSessionEach ==
    \A a \in Attempt :
        /\ Len(begun[a]) <= calls[a]
        /\ calls[a] <= 1 /\ a \notin crossed /\ wrong[a] >= MaxTries => begun[a] = <<>>
=============================================================================
