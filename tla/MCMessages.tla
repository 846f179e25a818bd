----------------------------- MODULE MCMessages -----------------------------
(***************************************************************************)
(* What is sent and heard beside the queue, for TLC: the mobeds' books,    *)
(* the delivery of STOPs, the receipts of messages, the daily report.  The *)
(* book takes a STOP as the one step that StopReply takes apart, and the   *)
(* others share no row, so each behaviour is of one of them.               *)
(*                                                                         *)
(* Books: one mobed with two families and a second mobed with one, who may *)
(* come to share a number.  STOPs: one number in the books of two mobeds,  *)
(* another that one of them keeps, and perhaps a stranger's.  Receipts: of *)
(* one message.  Reports: two mobeds, one without WhatsApp.                *)
(***************************************************************************)
EXTENDS MobedBook, StopReply, Receipts, DailyReport, TLC

CONSTANTS r1, r2, r3, m1, m2, p1, p2, p3
VARIABLE part

\* Of the numbers that reply STOP, whose entries they are in.
Shared == (r1 :> p1) @@ (r2 :> p1) @@ (r3 :> p2)
\* Of the books, whose records they are.
SharedTown == (r1 :> m1) @@ (r2 :> m1) @@ (r3 :> m2)
\* Two dates for the first family, one for the second mobed's.
TwoAndOther == <<r1, r1, r3>>

allVars == <<part, vars, bookVars, receiptVars, reportVars>>

\* The idle parts of a behaviour are as Init may leave them.
Quiet(p) == [kept |-> "listed", phone |-> p, enabled |-> FALSE, stopped |-> FALSE]

MessagesInit ==
    /\ part \in {"book", "stop", "receipts", "report"}
    /\ BookInit /\ Init /\ ReceiptsInit /\ ReportInit
    /\ part # "stop" => ~paused
    /\ part # "book" => record = (r1 :> Quiet(p1)) @@ (r2 :> Quiet(p2)) @@ (r3 :> Quiet(p1))
    /\ part # "report" => \A t \in Thing : down[t] = {}

InTheBook == part = "book" /\ BookNext /\ UNCHANGED <<part, vars, receiptVars, reportVars>>
OfAStop(A) == part = "stop" /\ A /\ UNCHANGED <<part, bookVars, receiptVars, reportVars>>
OfReceipts == part = "receipts" /\ ReceiptsNext /\ UNCHANGED <<part, vars, bookVars, reportVars>>
OfReports(A) == part = "report" /\ A /\ UNCHANGED <<part, vars, bookVars, receiptVars>>

MessagesSpec ==
    /\ MessagesInit
    /\ [][InTheBook \/ OfAStop(Next) \/ OfReceipts \/ OfReports(ReportNext)]_allVars
    /\ \A h \in Handler : WF_allVars(OfAStop(Handle(h)))
    /\ \A w \in Worker : WF_allVars(OfReports(StartPass(w))) /\ WF_allVars(OfReports(Step(w)))
=============================================================================
