------------------------------ MODULE Receipts ------------------------------
(***************************************************************************)
(* Delivery receipts: what WhatsApp reports of the reminders it accepted,  *)
(* and what the rows come to show (apply_status behind the webhook).       *)
(*                                                                         *)
(* Each delivery of a receipt is a transaction of its own request.  It     *)
(* reads the row without locking it, decides on what it read, and writes   *)
(* the columns it changed; other requests run in between.  Receipts come   *)
(* in any order and, as WhatsApp repeats what it got no answer to, any     *)
(* number of times.                                                        *)
(***************************************************************************)
EXTENDS Naturals

CONSTANTS
    Msg,       \* reminders handed to WhatsApp
    Request,   \* webhook requests that can be at work at once
    Named,     \* messages whose recipient uses a username: their receipts carry its id
    NoWork     \* no receipt in hand

VARIABLES
    row,    \* [Msg -> the columns of its notifications row that receipts depend on]
    failureTold,   \* [Msg -> "reminder_failed" notices that receipts left for its mobed]
    meta,   \* [Msg -> how far WhatsApp got with it]
    mail,   \* receipts that WhatsApp has still to deliver, or delivers again
    handling,    \* [Request -> the receipt it is handling, and the row as it read it]
    heard,  \* observer: [Msg -> kinds of receipts that were applied to its row]
    raced   \* observer: messages with two receipts in hand at one time

receiptVars == <<row, failureTold, meta, mail, handling, heard, raced>>

Kind == {"sent", "delivered", "read", "failed"}
RowState == [status : {"sending"} \cup Kind, id : BOOLEAN, deliveredAt : BOOLEAN,
             readAt : BOOLEAN, userId : BOOLEAN]
Receipt == [msg : Msg, kind : Kind]
Handling == [receipt : Receipt, seen : RowState]

\* The types, and that only a row with its message's id is ever moved by a receipt.
ReceiptsTypeOK ==
    /\ row \in [Msg -> RowState]
    /\ failureTold \in [Msg -> Nat]
    /\ meta \in [Msg -> {"nothing", "accepted", "delivered", "read", "failed"}]
    /\ mail \subseteq Receipt
    /\ handling \in [Request -> Handling \cup {NoWork}]
    /\ heard \in [Msg -> SUBSET Kind]
    /\ raced \subseteq Msg
    /\ \A m \in Msg : /\ row[m].status = "sending" => ~row[m].id
                      /\ row[m].status \in {"delivered", "read"} => row[m].id

ReceiptsInit ==
    /\ row = [m \in Msg |-> [status |-> "sending", id |-> FALSE, deliveredAt |-> FALSE,
                             readAt |-> FALSE, userId |-> FALSE]]
    /\ failureTold = [m \in Msg |-> 0]
    /\ meta = [m \in Msg |-> "nothing"]
    /\ mail = {}
    /\ handling = [h \in Request |-> NoWork]
    /\ heard = [m \in Msg |-> {}]
    /\ raced = {}

-----------------------------------------------------------------------------
(***************************************************************************)
(* WhatsApp: a message is accepted, then delivered and perhaps read, or    *)
(* fails; each is reported.  A message that was delivered never fails.     *)
(***************************************************************************)
Reach(m, from, to, kind) ==
    /\ meta[m] = from
    /\ meta' = [meta EXCEPT ![m] = to]
    /\ mail' = mail \cup {[msg |-> m, kind |-> kind]}
    /\ UNCHANGED <<row, failureTold, handling, heard, raced>>

MetaMoves(m) ==
    \/ Reach(m, "nothing", "accepted", "sent")
    \/ Reach(m, "accepted", "delivered", "delivered")
    \/ Reach(m, "delivered", "read", "read")
    \/ Reach(m, "accepted", "failed", "failed")

\* The worker commits the answer, and with it the message's id if it has one ...
LearnAnswer(m, withId) ==
    /\ row[m].status = "sending" /\ meta[m] # "nothing"
    /\ row' = [row EXCEPT ![m].status = "sent", ![m].id = withId]
    /\ UNCHANGED <<failureTold, meta, mail, handling, heard, raced>>

\* ... or never learns it: the row is closed without an id.
LoseAnswer(m) ==
    /\ row[m].status = "sending" /\ meta[m] # "nothing"
    /\ row' = [row EXCEPT ![m].status = "failed"]
    /\ UNCHANGED <<failureTold, meta, mail, handling, heard, raced>>

-----------------------------------------------------------------------------
\* _RANK; any other status has none.
Rank(status) == CASE status = "sent" -> 1 [] status = "delivered" -> 2 [] status = "read" -> 3 [] OTHER -> 0

\* Mutant: a receipt of the same rank or lower is applied as well.
NewsAnyway(kind, seen) ==
    \/ kind = "failed" /\ seen.status # "failed"
    \/ kind \in {"delivered", "read"}

\* What is news to a row in this state: its only failure, or a step forward.
News(kind, seen) ==
    \/ kind = "failed" /\ seen.status # "failed"
    \/ kind \in {"delivered", "read"} /\ Rank(kind) > Rank(seen.status)

Overlap(h, m) ==
    raced' = IF \E g \in Request \ {h} : handling[g] # NoWork /\ handling[g].receipt.msg = m THEN raced \cup {m} ELSE raced

\* The receipt is looked up by its message's id; without a row it is dropped.
Read(h, receipt) ==
    /\ handling[h] = NoWork
    /\ row[receipt.msg].id
    /\ handling' = [handling EXCEPT ![h] = [receipt |-> receipt, seen |-> row[receipt.msg]]]
    /\ Overlap(h, receipt.msg)
    /\ UNCHANGED <<row, failureTold, meta, mail, heard>>

Drop(h, receipt) ==
    /\ handling[h] = NoWork
    /\ ~row[receipt.msg].id
    /\ mail' = mail \ {receipt}
    /\ UNCHANGED <<row, failureTold, meta, handling, heard, raced>>

\* Mutant: "read" is taken to have been preceded by "delivered".
NewRowOfRead(n, kind) ==
    [n EXCEPT !.status = kind, !.deliveredAt = @ \/ kind = "delivered", !.readAt = @ \/ kind = "read"]

NewRow(n, kind) ==
    [n EXCEPT !.status = kind, !.deliveredAt = @ \/ kind \in {"delivered", "read"}, !.readAt = @ \/ kind = "read"]

\* The id of a recipient who uses a username is kept from the first receipt with it.
Identified(n, m) == [n EXCEPT !.userId = @ \/ m \in Named]

\* What was decided on the row as read is written to the row as it is, with the
\* notice to the mobed; WhatsApp is answered, and may have repeated itself.
Apply(h) ==
    /\ handling[h] # NoWork
    /\ LET m == handling[h].receipt.msg
           kind == handling[h].receipt.kind
           news == News(kind, handling[h].seen)
           named == Identified(row[m], m)
       IN  /\ row' = [row EXCEPT ![m] = IF news THEN NewRow(named, kind) ELSE named]
           /\ failureTold' = [failureTold EXCEPT ![m] = IF news /\ kind = "failed" THEN @ + 1 ELSE @]
           /\ heard' = [heard EXCEPT ![m] = @ \cup {kind}]
           /\ mail' \in {mail, mail \ {handling[h].receipt}}
    /\ handling' = [handling EXCEPT ![h] = NoWork]
    /\ UNCHANGED <<meta, raced>>

\* The request dies: nothing was written and WhatsApp delivers again.
Fail(h) ==
    /\ handling[h] # NoWork
    /\ handling' = [handling EXCEPT ![h] = NoWork]
    /\ UNCHANGED <<row, failureTold, meta, mail, heard, raced>>

ReceiptsNext ==
    \/ \E m \in Msg : MetaMoves(m) \/ LoseAnswer(m)
    \/ \E m \in Msg, withId \in BOOLEAN : LearnAnswer(m, withId)
    \/ \E h \in Request : Apply(h) \/ Fail(h)
    \/ \E h \in Request, receipt \in mail : Read(h, receipt) \/ Drop(h, receipt)

ReceiptsSpec == ReceiptsInit /\ [][ReceiptsNext]_receiptVars

-----------------------------------------------------------------------------
(***************************************************************************)
(* Properties.                                                             *)
(***************************************************************************)

\* A row never claims more than happened to its message, however receipts are
\* ordered, repeated and interleaved, and what is shown as delivered or read
\* says when (apply_status).
ShowsWhatHappened ==
    \A m \in Msg :
        /\ row[m].status = "delivered" => meta[m] \in {"delivered", "read"}
        /\ row[m].status = "read" => meta[m] = "read"
        /\ row[m].id /\ row[m].status = "failed" => meta[m] = "failed"
        /\ row[m].status \in {"delivered", "read"} => row[m].deliveredAt
        /\ row[m].status = "read" => row[m].readAt

Furthest(kinds) ==
    IF "failed" \in kinds THEN "failed"
    ELSE IF "read" \in kinds THEN "read"
    ELSE IF "delivered" \in kinds THEN "delivered" ELSE "sent"

\* As long as no two of its receipts were handled at once, their order and their
\* number do not matter: a row shows the furthest that was heard of its message,
\* its mobed was told of a failure once, and the recipient's username id was kept.
FollowsReceipts ==
    \A m \in Msg \ raced : row[m].id =>
        /\ row[m].status = Furthest(heard[m])
        /\ failureTold[m] = IF "failed" \in heard[m] THEN 1 ELSE 0
        /\ row[m].userId = (m \in Named /\ heard[m] # {})
=============================================================================
