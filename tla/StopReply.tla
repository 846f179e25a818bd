----------------------------- MODULE StopReply -----------------------------
(***************************************************************************)
(* A family's STOP, delivered by WhatsApp's webhook: it is recorded, the   *)
(* mobeds are told, and the first one is answered with one line.           *)
(*                                                                         *)
(* MobedBook takes the recording as one step; here a delivery is what it   *)
(* is, one transaction of several reads and writes with a post to WhatsApp *)
(* in the middle, beside other deliveries of the same or another number.   *)
(***************************************************************************)
EXTENDS Naturals, FiniteSets

CONSTANTS
    Number,        \* numbers that reply STOP
    Entry,       \* mobeds' records of those numbers
    PhoneOf,      \* [Entry -> Number]
    Agreeing,     \* records with reminders on
    Reminded,     \* numbers a reminder went to in the last 30 days
    Handler,      \* webhook requests that can be at work at once
    AckCap,       \* reminders_stop_ack_daily_cap
    MaxStops,     \* bound: STOPs sent, and deliveries repeated by WhatsApp
    MaxCrashes    \* bound: requests that die

ASSUME StopReplyAssumption ==
    /\ PhoneOf \in [Entry -> Number]
    /\ Agreeing \subseteq Entry
    /\ Reminded \subseteq Number
    /\ IsFiniteSet(Handler)
    /\ AckCap \in Nat /\ MaxStops \in Nat /\ MaxCrashes \in Nat

VARIABLES
    optedOut,     \* reminder_opt_outs
    acked,      \* ... of which acknowledged_at is set
    enabled,    \* records with reminders on
    stopped,    \* records with reminders_stopped_at set
    told,       \* [Entry -> "reminder_stopped" notices left for its mobed]
    paused,     \* the pause switch
    inbox,      \* STOPs that WhatsApp has to deliver, or deliver again
    job,        \* [Handler -> where its transaction is, and what it remembers]
    acks,       \* observer: [Number -> replies that WhatsApp accepted]
    crowd,      \* observer: the most requests at work at once so far
    crashes,    \* requests that died, bounded by MaxCrashes
    stops       \* bound only

dbVars == <<optedOut, acked, enabled, stopped, told>>
vars == <<dbVars, paused, inbox, job, acks, crowd, stops, crashes>>

Idle == [at |-> "idle"]
Job == {Idle} \cup
       [at : {"look", "weigh", "post", "commit"}, phone : Number, first : BOOLEAN,
        found : SUBSET Entry, on : SUBSET Entry, acked : BOOLEAN]

\* The types, and that a record that is stopped is not on.
StopTypeOK ==
    /\ optedOut \subseteq Number /\ acked \subseteq optedOut
    /\ enabled \subseteq Entry /\ stopped \subseteq Entry
    /\ enabled \cap stopped = {}
    /\ told \in [Entry -> Nat]
    /\ paused \in BOOLEAN
    /\ inbox \subseteq Number
    /\ job \in [Handler -> Job]
    /\ acks \in [Number -> Nat] /\ crowd \in Nat
    /\ stops \in 0 .. MaxStops /\ crashes \in 0 .. MaxCrashes

Init ==
    /\ optedOut = {} /\ acked = {}
    /\ enabled = Agreeing /\ stopped = {}
    /\ told = [r \in Entry |-> 0]
    /\ paused \in BOOLEAN
    /\ inbox = {}
    /\ job = [h \in Handler |-> Idle]
    /\ acks = [p \in Number |-> 0] /\ crowd = 0
    /\ stops = 0 /\ crashes = 0

-----------------------------------------------------------------------------
\* A family sends STOP (again), or WhatsApp repeats a delivery.
SendStop(p) ==
    /\ stops < MaxStops
    /\ stops' = stops + 1
    /\ inbox' = inbox \cup {p}
    /\ UNCHANGED <<dbVars, paused, job, acks, crowd, crashes>>

FlipPause ==
    /\ paused' = ~paused
    /\ UNCHANGED <<dbVars, inbox, job, acks, crowd, stops, crashes>>

UnderWay == {h \in Handler : job[h] # Idle}

\* Is this the number's first STOP?  Asked before it is recorded.
Look(h, p) ==
    /\ job[h] = Idle
    /\ p \in inbox
    /\ inbox' = inbox \ {p}
    /\ job' = [job EXCEPT ![h] = [at |-> "look", phone |-> p, first |-> p \notin optedOut,
                                  found |-> {}, on |-> {}, acked |-> FALSE]]
    /\ LET n == Cardinality(UnderWay) + 1 IN crowd' = IF n > crowd THEN n ELSE crowd
    /\ UNCHANGED <<dbVars, paused, acks, stops, crashes>>

\* Mutant: the opt-out is inserted without waiting.
NeverHeld(p) == FALSE

\* The opt-out of p is being written by a transaction that is still open.
Held(p) == \E g \in Handler : job[g].at \in {"weigh", "post", "commit"} /\ job[g].phone = p

\* Mutant: every STOP is answered.
AnswersAll(first) == TRUE
Answers(first) == first

\* The opt-out is inserted or, if another transaction inserts it, updated once
\* that one is over; then the records not yet stopped are looked up, and which
\* of them are on.
RecordOptOut(h) ==
    /\ job[h].at = "look"
    /\ ~Held(job[h].phone)
    /\ LET found == {r \in Entry \ stopped : PhoneOf[r] = job[h].phone}
       IN  job' = [job EXCEPT ![h].at = IF Answers(job[h].first) THEN "weigh" ELSE "commit",
                              ![h].found = found, ![h].on = found \cap enabled]
    /\ UNCHANGED <<dbVars, paused, inbox, acks, crowd, stops, crashes>>

\* The reply: only while nothing is paused, to a number that was reminded, and
\* under its own cap.
Weigh(h) ==
    /\ job[h].at = "weigh"
    /\ LET answers == ~paused /\ job[h].phone \in Reminded /\ Cardinality(acked) < AckCap
       IN  job' = [job EXCEPT ![h].at = IF answers THEN "post" ELSE "commit"]
    /\ UNCHANGED <<dbVars, paused, inbox, acks, crowd, stops, crashes>>

\* Accepted and answered, accepted with the answer lost, or not accepted.
Post(h) ==
    /\ job[h].at = "post"
    /\ \E taken, ok \in BOOLEAN :
         /\ ok => taken
         /\ acks' = IF taken THEN [acks EXCEPT ![job[h].phone] = @ + 1] ELSE acks
         /\ job' = [job EXCEPT ![h].at = "commit", ![h].acked = ok]
    /\ UNCHANGED <<dbVars, paused, inbox, crowd, stops, crashes>>

\* All of it is committed, and WhatsApp gets its 200.
Commit(h) ==
    /\ job[h].at = "commit"
    /\ optedOut' = optedOut \cup {job[h].phone}
    /\ acked' = IF job[h].acked THEN acked \cup {job[h].phone} ELSE acked
    /\ stopped' = stopped \cup job[h].found
    /\ enabled' = enabled \ job[h].found
    /\ told' = [r \in Entry |-> IF r \in job[h].on THEN told[r] + 1 ELSE told[r]]
    /\ job' = [job EXCEPT ![h] = Idle]
    /\ UNCHANGED <<paused, inbox, acks, crowd, stops, crashes>>

\* Mutant: WhatsApp had its answer already.
LosesDelivery(h) == UNCHANGED inbox
\* Without a 200 WhatsApp delivers again.
Redelivered(h) == inbox' = inbox \cup {job[h].phone}

Crash(h) ==
    /\ crashes < MaxCrashes
    /\ job[h] # Idle
    /\ crashes' = crashes + 1
    /\ job' = [job EXCEPT ![h] = Idle]
    /\ Redelivered(h)
    /\ UNCHANGED <<dbVars, paused, acks, crowd, stops>>

Handle(h) ==
    \/ \E p \in Number : Look(h, p)
    \/ RecordOptOut(h) \/ Weigh(h) \/ Post(h) \/ Commit(h)

Next ==
    \/ \E p \in Number : SendStop(p)
    \/ FlipPause
    \/ \E h \in Handler : Handle(h) \/ Crash(h)

Spec == Init /\ [][Next]_vars

\* A request once begun goes on, and a STOP not answered is delivered (again).
FairSpec == Spec /\ \A h \in Handler : WF_vars(Handle(h))

-----------------------------------------------------------------------------
(***************************************************************************)
(* Properties.                                                             *)
(***************************************************************************)

\* However often a STOP is sent and delivered, and with deliveries at work at
\* once, each mobed who had reminders on is told of it once, and no record of a
\* number that has stopped is left on (record_stop: the upsert makes deliveries
\* of one number take turns before either looks for records).
MobedsToldOnce ==
    /\ \A p \in optedOut, r \in Entry : PhoneOf[r] = p => r \in stopped \ enabled
    /\ \A r \in Entry : told[r] = IF r \in Agreeing \cap stopped THEN 1 ELSE 0

\* A STOP that was sent is recorded in the end, though requests die.
EveryStopIsHonoured == \A p \in Number : p \in inbox ~> p \in optedOut

\* A family gets no more replies than there were ever deliveries at work at once, and
\* one for each that died - one, where they come one by one - and only for a reminder it
\* had; the replies known to have gone are past their cap by no more than those at work
\* (acknowledge_stop).
AckedOnce ==
    /\ \A p \in Number : acks[p] <= crowd + crashes /\ (acks[p] > 0 => p \in Reminded)
    /\ acked = {} \/ Cardinality(acked) < AckCap + crowd
=============================================================================
