--------------------------- MODULE ReminderPromise ---------------------------
(***************************************************************************)
(* What the reminders promise, without workers, ticks, caps or crashes: an  *)
(* observance's reminder is decided on once, is tried only while nobody     *)
(* knows of a copy that went, and ends with a fate that is never revised.   *)
(* ReminderQueue implements this specification.                            *)
(***************************************************************************)
EXTENDS Naturals

CONSTANT Obs   \* observances

VARIABLES
    fate,      \* [Obs -> what the app shows of its reminder]
    copies     \* [Obs -> messages that WhatsApp accepted for it]

promiseVars == <<fate, copies>>

Fate == {"none", "queued", "trying", "sent", "not sent", "unknown"}

Init ==
    /\ fate = [o \in Obs |-> "none"]
    /\ copies = [o \in Obs |-> 0]

-----------------------------------------------------------------------------
\* Where a reminder may go from each fate; what is final stays.
NextFate == [f \in Fate |->
    CASE f = "none"   -> {"queued", "not sent"}
      [] f = "queued" -> {"trying", "not sent"}
      [] f = "trying" -> {"queued", "sent", "not sent", "unknown"}
      [] OTHER        -> {}]

\* Only a copy that went makes it sent, and only if none went may it be tried
\* again or called not sent.
Honest(f, n) == (f = "sent" => n = 1) /\ (f \in {"queued", "not sent"} => n = 0)

Settle(o) ==
    /\ fate'[o] \in NextFate[fate[o]]
    /\ Honest(fate'[o], copies[o])
    /\ copies'[o] = copies[o]

Accept(o) ==
    /\ fate[o] = "trying" /\ fate'[o] = "trying"
    /\ copies[o] = 0 /\ copies'[o] = 1

Keep(o) == fate'[o] = fate[o] /\ copies'[o] = copies[o]

\* One pass may decide on several reminders at once.
Next ==
    /\ fate' \in [Obs -> Fate]
    /\ copies' \in [Obs -> Nat]
    /\ \A o \in Obs : Settle(o) \/ Accept(o) \/ Keep(o)

Spec == Init /\ [][Next]_promiseVars

-----------------------------------------------------------------------------
\* No family gets two messages for one observance, and what the app says of a
\* reminder agrees with what went (it may leave open only "unknown").
OneHonestCopy ==
    \A o \in Obs : copies[o] \in {0, 1} /\ (fate[o] = "none" => copies[o] = 0) /\ Honest(fate[o], copies[o])
=============================================================================
