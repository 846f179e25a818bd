--------------------------- MODULE MessagesProofs ---------------------------
(***************************************************************************)
(* For any numbers, records, messages and requests at work at once: a      *)
(* mobed is told of a STOP once, every record of a number that stopped is  *)
(* off, and a number is answered no more often than deliveries were at     *)
(* work at once or died; no row claims more than happened to its message,  *)
(* and receipts handled one at a time make it show all of what was heard;  *)
(* a mobed has the daily report no more often than passes were at work at  *)
(* once or failed.                                                         *)
(***************************************************************************)
EXTENDS StopReply, Receipts, DailyReport, Counting

-----------------------------------------------------------------------------
(***************************************************************************)
(* The record of a STOP.                                                   *)
(***************************************************************************)
\* The transaction holds its number's opt-out.
Holds(h) == job[h].at \in {"weigh", "post", "commit"}

\* Of one number, one transaction at a time; and the records it found are still
\* the ones to stop when it commits, as nobody else stopped any in between.
TakingTurns ==
    /\ \A g, h \in Handler : Holds(g) /\ Holds(h) /\ job[g].phone = job[h].phone => g = h
    /\ \A h \in Handler : Holds(h) =>
         /\ job[h].found = {r \in Entry \ stopped : PhoneOf[r] = job[h].phone}
         /\ job[h].on = job[h].found \cap enabled

StopInv == StopTypeOK /\ MobedsToldOnce /\ TakingTurns /\ enabled = Agreeing \ stopped

\* A transaction that is not idle has a number and what it found.
LEMMA Busy ==
    ASSUME StopTypeOK, NEW h \in Handler, job[h].at # "idle"
    PROVE  /\ job[h].at \in {"look", "weigh", "post", "commit"} /\ job[h].phone \in Number
           /\ job[h].first \in BOOLEAN /\ job[h].found \in SUBSET Entry /\ job[h].on \in SUBSET Entry /\ job[h].acked \in BOOLEAN
           /\ job[h] \in [at : {"look", "weigh", "post", "commit"}, phone : Number, first : BOOLEAN,
                          found : SUBSET Entry, on : SUBSET Entry, acked : BOOLEAN]
  BY DEF StopTypeOK, Job, Idle

\* It stays one as it moves on with what it found ...
LEMMA Onwards ==
    ASSUME NEW j \in [at : {"look", "weigh", "post", "commit"}, phone : Number, first : BOOLEAN,
                      found : SUBSET Entry, on : SUBSET Entry, acked : BOOLEAN],
           NEW place \in {"weigh", "post", "commit"}, NEW found \in SUBSET Entry, NEW on \in SUBSET Entry
    PROVE  LET k == [j EXCEPT !.at = place, !.found = found, !.on = on]
           IN  k \in Job /\ k.at = place /\ k.phone = j.phone /\ k.found = found /\ k.on = on
  BY DEF Job

\* ... or with the answer to its post.
LEMMA Answered ==
    ASSUME NEW j \in [at : {"look", "weigh", "post", "commit"}, phone : Number, first : BOOLEAN,
                      found : SUBSET Entry, on : SUBSET Entry, acked : BOOLEAN],
           NEW ok \in BOOLEAN
    PROVE  LET k == [j EXCEPT !.at = "commit", !.acked = ok]
           IN  k \in Job /\ k.phone = j.phone /\ k.found = j.found /\ k.on = j.on
  BY DEF Job

\* A delivery that begins is counted among those at work.
LEMMA CrowdGrows ==
    ASSUME StopTypeOK, NEW h \in Handler, NEW p \in Number, Look(h, p)
    PROVE  /\ Cardinality(UnderWay) \in Nat
           /\ crowd' \in Nat /\ crowd <= crowd' /\ Cardinality(UnderWay) + 1 <= crowd'
<1>1. UnderWay \in SUBSET Handler
  BY DEF UnderWay
<1>2. Cardinality(UnderWay) \in Nat
  BY <1>1, StopReplyAssumption, FewerOf
<1>3. crowd' = IF Cardinality(UnderWay) + 1 > crowd THEN Cardinality(UnderWay) + 1 ELSE crowd
  BY DEF Look
<1> QED
  BY <1>2, <1>3 DEF StopTypeOK

\* At the beginning nobody has stopped and nobody was told.
LEMMA StopInit == Init => StopInv
  BY StopReplyAssumption
     DEF Init, StopInv, StopTypeOK, MobedsToldOnce, TakingTurns, Holds, Job, Idle

\* Steps outside the transactions.
LEMMA OutsideSteps ==
    ASSUME StopInv, (\E p \in Number : SendStop(p)) \/ FlipPause \/ UNCHANGED vars PROVE StopInv'
<1>1. ASSUME NEW p \in Number, SendStop(p) PROVE StopInv'
  BY <1>1, StopReplyAssumption DEF SendStop, StopInv, StopTypeOK, MobedsToldOnce, TakingTurns, Holds, dbVars
<1>2. ASSUME FlipPause PROVE StopInv'
  BY <1>2 DEF FlipPause, StopInv, StopTypeOK, MobedsToldOnce, TakingTurns, Holds, dbVars
<1>3. ASSUME UNCHANGED vars PROVE StopInv'
  BY <1>3 DEF vars, StopInv, StopTypeOK, MobedsToldOnce, TakingTurns, Holds, dbVars
<1> QED
  BY <1>1, <1>2, <1>3

\* A transaction that moves on without holding anew keeps the turns.
LEMMA MovesOn ==
    ASSUME StopInv, NEW h \in Handler, UNCHANGED dbVars, job' \in [Handler -> Job],
           \A g \in Handler : g # h => job'[g] = job[g],
           \/ ~Holds(h)'
           \/ Holds(h) /\ job'[h].phone = job[h].phone /\ job'[h].found = job[h].found /\ job'[h].on = job[h].on
    PROVE  TakingTurns' /\ MobedsToldOnce' /\ enabled' = Agreeing \ stopped'
  BY DEF StopInv, TakingTurns, MobedsToldOnce, Holds, dbVars

\* The steps of one transaction.
LEMMA HandleStep == ASSUME StopInv, NEW h \in Handler, Handle(h) \/ Crash(h) PROVE StopInv'
<1>1. ASSUME NEW p \in Number, Look(h, p) PROVE StopInv'
  <2> DEFINE new == [at |-> "look", phone |-> p, first |-> p \notin optedOut, found |-> {}, on |-> {}, acked |-> FALSE]
  <2>1. new \in Job /\ new.at = "look"
    BY DEF Job
  <2>2. job' = [job EXCEPT ![h] = new] /\ UNCHANGED dbVars
    BY <1>1 DEF Look
  <2> HIDE DEF new
  <2>3. job' \in [Handler -> Job] /\ ~Holds(h)' /\ \A g \in Handler : g # h => job'[g] = job[g]
    BY <2>1, <2>2 DEF StopInv, StopTypeOK, Holds
  <2>4. StopTypeOK'
    <3>1. crowd' \in Nat
      BY <1>1, CrowdGrows DEF StopInv
    <3>2. inbox' \subseteq Number /\ UNCHANGED <<paused, acks, stops, crashes>>
      BY <1>1 DEF Look, StopInv, StopTypeOK
    <3> QED
      BY <2>2, <2>3, <3>1, <3>2 DEF StopInv, StopTypeOK, dbVars
  <2> QED
    BY <2>2, <2>3, <2>4, MovesOn DEF StopInv
<1>2. ASSUME RecordOptOut(h) PROVE StopInv'
  <2> DEFINE found == {r \in Entry \ stopped : PhoneOf[r] = job[h].phone}
             on == found \cap enabled
             place == IF Answers(job[h].first) THEN "weigh" ELSE "commit"
  <2>1. /\ job[h].at = "look" /\ ~Held(job[h].phone) /\ UNCHANGED dbVars
        /\ job' = [job EXCEPT ![h].at = place, ![h].found = found, ![h].on = on]
    BY <1>2 DEF RecordOptOut
  <2>2. /\ job'[h] = [job[h] EXCEPT !.at = place, !.found = found, !.on = on]
        /\ \A g \in Handler : g # h => job'[g] = job[g]
    BY <2>1 DEF StopInv, StopTypeOK
  <2>3. found \in SUBSET Entry /\ on \in SUBSET Entry /\ place \in {"weigh", "commit"}
    OBVIOUS
  <2> HIDE DEF found, on, place
  <2>4. /\ job'[h] \in Job /\ Holds(h)'
        /\ job'[h].phone = job[h].phone /\ job'[h].found = found /\ job'[h].on = on
    <3>1. job[h].at # "idle" /\ StopTypeOK
      BY <2>1 DEF StopInv
    <3>2. job[h] \in [at : {"look", "weigh", "post", "commit"}, phone : Number, first : BOOLEAN,
                      found : SUBSET Entry, on : SUBSET Entry, acked : BOOLEAN]
      BY <3>1, Busy
    <3>3. job'[h] \in Job /\ job'[h].at = place /\ job'[h].phone = job[h].phone
          /\ job'[h].found = found /\ job'[h].on = on
      <4>1. place \in {"weigh", "post", "commit"}
        BY <2>3
      <4>2. LET k == [job[h] EXCEPT !.at = place, !.found = found, !.on = on]
            IN  k \in Job /\ k.at = place /\ k.phone = job[h].phone /\ k.found = found /\ k.on = on
        BY <2>3, <3>2, <4>1, Onwards, ZenonT(120)
      <4> QED
        BY <2>2, <4>2, Zenon
    <3> QED
      BY <2>1, <2>3, <3>3 DEF Holds
  <2>5. job' \in [Handler -> Job]
    BY <2>1, <2>2, <2>4 DEF StopInv, StopTypeOK
  <2>6. StopTypeOK'
    BY <1>2, <2>5 DEF RecordOptOut, StopInv, StopTypeOK, dbVars
  <2>7. \A g \in Handler : g # h /\ Holds(g) => job[g].phone # job[h].phone
    BY <2>1 DEF Held, Holds
  <2>8. TakingTurns'
    <3>1. UNCHANGED <<stopped, enabled>> /\ on = found \cap enabled /\ found = {r \in Entry \ stopped : PhoneOf[r] = job[h].phone}
      BY <2>1 DEF found, on, dbVars
    <3>2. \A g \in Handler : g # h => (Holds(g)' <=> Holds(g)) /\ job'[g] = job[g]
      BY <2>2 DEF Holds
    <3>3. \A g, k \in Handler : Holds(g)' /\ Holds(k)' /\ job'[g].phone = job'[k].phone => g = k
      BY <2>4, <2>7, <3>2 DEF StopInv, TakingTurns
    <3>4. \A g \in Handler : Holds(g)' =>
              /\ job'[g].found = {r \in Entry \ stopped : PhoneOf[r] = job'[g].phone}
              /\ job'[g].on = job'[g].found \cap enabled
      BY <2>4, <3>1, <3>2 DEF StopInv, TakingTurns
    <3> QED
      BY <3>1, <3>3, <3>4 DEF TakingTurns
  <2> QED
    BY <2>1, <2>6, <2>8 DEF StopInv, MobedsToldOnce, dbVars
<1>3. ASSUME Weigh(h) PROVE StopInv'
  <2>1. PICK place \in {"post", "commit"} :
            job[h].at = "weigh" /\ UNCHANGED dbVars /\ job' = [job EXCEPT ![h].at = place]
    BY <1>3 DEF Weigh
  <2>2. job'[h] = [job[h] EXCEPT !.at = place] /\ \A g \in Handler : g # h => job'[g] = job[g]
    BY <2>1 DEF StopInv, StopTypeOK
  <2>3. job'[h] \in Job /\ Holds(h) /\ job'[h].phone = job[h].phone /\ job'[h].found = job[h].found /\ job'[h].on = job[h].on
    BY <2>1, <2>2, Busy DEF StopInv, Job, Holds
  <2>4. job' \in [Handler -> Job]
    BY <2>1, <2>3 DEF StopInv, StopTypeOK
  <2>5. StopTypeOK'
    BY <1>3, <2>4 DEF Weigh, StopInv, StopTypeOK, dbVars
  <2> QED
    BY <2>1, <2>2, <2>3, <2>4, <2>5, MovesOn DEF StopInv
<1>4. ASSUME Post(h) PROVE StopInv'
  <2>1. PICK taken \in BOOLEAN, ok \in BOOLEAN :
            /\ job[h].at = "post" /\ UNCHANGED <<dbVars, paused, inbox, crowd, stops, crashes>>
            /\ acks' = IF taken THEN [acks EXCEPT ![job[h].phone] = @ + 1] ELSE acks
            /\ job' = [job EXCEPT ![h].at = "commit", ![h].acked = ok]
    BY <1>4 DEF Post
  <2>2. job'[h] = [job[h] EXCEPT !.at = "commit", !.acked = ok] /\ \A g \in Handler : g # h => job'[g] = job[g]
    BY <2>1 DEF StopInv, StopTypeOK
  <2>3. job'[h] \in Job /\ Holds(h) /\ job'[h].phone = job[h].phone /\ job'[h].found = job[h].found /\ job'[h].on = job[h].on
    <3>1. job[h].at # "idle" /\ StopTypeOK
      BY <2>1 DEF StopInv
    <3>2. job[h] \in [at : {"look", "weigh", "post", "commit"}, phone : Number, first : BOOLEAN,
                      found : SUBSET Entry, on : SUBSET Entry, acked : BOOLEAN]
      BY <3>1, Busy
    <3>3. [job[h] EXCEPT !.at = "commit", !.acked = ok] \in Job
          /\ [job[h] EXCEPT !.at = "commit", !.acked = ok].phone = job[h].phone
          /\ [job[h] EXCEPT !.at = "commit", !.acked = ok].found = job[h].found
          /\ [job[h] EXCEPT !.at = "commit", !.acked = ok].on = job[h].on
      BY <3>2, Answered
    <3> QED
      BY <2>1, <2>2, <3>3 DEF Holds
  <2>4. job' \in [Handler -> Job]
    BY <2>1, <2>3 DEF StopInv, StopTypeOK
  <2>5. acks' \in [Number -> Nat]
    BY <2>1, Busy DEF StopInv, StopTypeOK
  <2>6. StopTypeOK'
    BY <2>1, <2>4, <2>5 DEF StopInv, StopTypeOK, dbVars
  <2> QED
    BY <2>1, <2>2, <2>3, <2>4, <2>6, MovesOn DEF StopInv
<1>5. ASSUME Commit(h) PROVE StopInv'
  <2> DEFINE p == job[h].phone
             found == job[h].found
  <2>1. Holds(h) /\ p \in Number /\ found = {r \in Entry \ stopped : PhoneOf[r] = p}
        /\ job[h].on = found \cap enabled
    BY <1>5, Busy DEF Commit, Holds, StopInv, TakingTurns
  <2>2. /\ optedOut' = optedOut \cup {p} /\ acked' \in {acked, acked \cup {p}}
        /\ stopped' = stopped \cup found /\ enabled' = enabled \ found
        /\ told' = [r \in Entry |-> IF r \in found \cap enabled THEN told[r] + 1 ELSE told[r]]
        /\ job' = [job EXCEPT ![h] = Idle]
        /\ UNCHANGED <<paused, inbox, acks, crowd, stops, crashes>>
    BY <1>5, <2>1 DEF Commit
  <2> HIDE DEF p, found
  <2>3. Idle \in Job /\ Idle.at = "idle"
    BY DEF Job, Idle
  <2>4. StopTypeOK'
    <3>1. job' \in [Handler -> Job] /\ told' \in [Entry -> Nat]
      BY <2>2, <2>3 DEF StopInv, StopTypeOK
    <3> QED
      BY <2>1, <2>2, <3>1 DEF StopInv, StopTypeOK
  <2>5. enabled' = Agreeing \ stopped'
    BY <2>2 DEF StopInv
  <2>6. MobedsToldOnce'
    BY <2>1, <2>2, StopReplyAssumption DEF StopInv, MobedsToldOnce, StopTypeOK
  <2>7. ~Holds(h)' /\ \A g \in Handler : g # h => job'[g] = job[g]
    BY <2>2, <2>3 DEF StopInv, StopTypeOK, Holds
  <2>8. \A g \in Handler : g # h /\ Holds(g) => job[g].phone # p
    BY <2>1 DEF p, StopInv, TakingTurns
  <2>9. TakingTurns'
    BY <2>1, <2>2, <2>7, <2>8 DEF StopInv, TakingTurns, Holds
  <2> QED
    BY <2>4, <2>5, <2>6, <2>9 DEF StopInv
<1>6. ASSUME Crash(h) PROVE StopInv'
  <2>1. /\ crashes < MaxCrashes /\ job[h] # Idle /\ crashes' = crashes + 1 /\ job' = [job EXCEPT ![h] = Idle]
        /\ inbox' = inbox \cup {job[h].phone} /\ UNCHANGED <<dbVars, paused, acks, crowd, stops>>
    BY <1>6 DEF Crash, Redelivered
  <2>2. Idle \in Job /\ Idle.at = "idle"
    BY DEF Job, Idle
  <2>3. job' \in [Handler -> Job] /\ ~Holds(h)' /\ \A g \in Handler : g # h => job'[g] = job[g]
    BY <2>1, <2>2 DEF StopInv, StopTypeOK, Holds
  <2>4. job[h].phone \in Number
    BY <2>1 DEF StopInv, StopTypeOK, Job, Idle
  <2>5. StopTypeOK'
    <3>1. crashes \in 0 .. MaxCrashes /\ inbox \subseteq Number
      BY DEF StopInv, StopTypeOK
    <3>2. crashes' \in 0 .. MaxCrashes
      BY <2>1, <3>1, StopReplyAssumption
    <3>3. inbox' \subseteq Number
      BY <2>1, <2>4, <3>1
    <3> QED
      BY <2>1, <2>3, <3>2, <3>3 DEF StopInv, StopTypeOK, dbVars
  <2> QED
    BY <2>1, <2>3, <2>5, MovesOn DEF StopInv
<1> QED
  BY <1>1, <1>2, <1>3, <1>4, <1>5, <1>6 DEF Handle

\* Each mobed who had reminders on is told of a STOP exactly once, and no record
\* of a number that has stopped is on, whatever is delivered twice, at once or
\* again after a crash (record_stop).
THEOREM MobedsAreToldOnce == Spec => []MobedsToldOnce
<1>1. StopInv /\ [Next]_vars => StopInv'
  BY OutsideSteps, HandleStep DEF Next
<1>2. StopInv => MobedsToldOnce
  BY DEF StopInv
<1> QED
  BY <1>1, <1>2, StopInit, PTL DEF Spec

-----------------------------------------------------------------------------
(***************************************************************************)
(* The reply.                                                              *)
(***************************************************************************)

\* Deliveries of p at work that may still post a reply, and those that may have; and
\* those whose reply counts, or will, towards the cap.
Asking(p) == {h \in Handler : job[h].at \in {"look", "weigh", "post"} /\ job[h].phone = p /\ job[h].first}
Past(p) == {h \in Handler : job[h].at = "commit" /\ job[h].phone = p}
Counted == {h \in Handler : job[h].at = "post" \/ (job[h].at = "commit" /\ job[h].acked)}

\* What a delivery knows on its way.
JobOK(h) ==
    /\ job[h].at \in {"look", "weigh", "post"} => ~job[h].acked
    /\ job[h].at \in {"weigh", "post"} => job[h].first
    /\ job[h].at = "post" => job[h].phone \in Reminded

\* Until the first STOP is committed, only those that have not committed and those that
\* died can have replied: so a first one that begins now is not one too many.
RepliesOf(p) ==
    /\ acks[p] + Cardinality(Asking(p)) <= crowd + crashes
    /\ p \notin optedOut => acks[p] <= Cardinality(Past(p)) + crashes
    /\ acks[p] > 0 => p \in Reminded

WithinCap ==
    \/ acked = {} /\ Counted = {}
    \/ Cardinality(acked) + Cardinality(Counted) < AckCap + crowd

RepliesInv ==
    /\ IsFiniteSet(acked) /\ Cardinality(UnderWay) <= crowd
    /\ \A h \in Handler : JobOK(h)
    /\ \A p \in Number : RepliesOf(p)
    /\ WithinCap

\* One job moves, and these sets change by that one at most.
LEMMA OneJob ==
    ASSUME NEW h \in Handler, \A g \in Handler : g # h => job'[g] = job[g]
    PROVE  /\ LET now == Cardinality(UnderWay)
                  next == Cardinality(UnderWay')
              IN  /\ now \in Nat /\ next \in Nat
                  /\ (h \in UnderWay' => h \in UnderWay) => next <= now
                  /\ next <= now + 1
           /\ LET now == Cardinality(Counted)
                  next == Cardinality(Counted')
              IN  /\ now \in Nat /\ next \in Nat
                  /\ (h \in Counted <=> h \in Counted') => next = now /\ Counted' = Counted
                  /\ h \in Counted /\ h \notin Counted' => next = now - 1
           /\ Counted' \ {h} = Counted \ {h}
<1>1. /\ UnderWay \in SUBSET Handler /\ UnderWay' \in SUBSET Handler /\ UnderWay' \ {h} = UnderWay \ {h}
      /\ Counted \in SUBSET Handler /\ Counted' \in SUBSET Handler /\ Counted' \ {h} = Counted \ {h}
  BY DEF UnderWay, Counted
<1> HIDE DEF UnderWay, Counted
<1>2. /\ Cardinality(UnderWay) \in Nat /\ Cardinality(UnderWay') \in Nat
      /\ (h \in UnderWay <=> h \in UnderWay') => Cardinality(UnderWay') = Cardinality(UnderWay)
      /\ h \notin UnderWay /\ h \in UnderWay' => Cardinality(UnderWay') = Cardinality(UnderWay) + 1
      /\ h \in UnderWay /\ h \notin UnderWay' => Cardinality(UnderWay') = Cardinality(UnderWay) - 1
  BY <1>1, StopReplyAssumption, OneMoved
<1>3. /\ Cardinality(Counted) \in Nat /\ Cardinality(Counted') \in Nat
      /\ (h \in Counted <=> h \in Counted') => Cardinality(Counted') = Cardinality(Counted)
      /\ h \in Counted /\ h \notin Counted' => Cardinality(Counted') = Cardinality(Counted) - 1
  BY <1>1, StopReplyAssumption, OneMoved
<1>4. (h \in Counted <=> h \in Counted') => Counted' = Counted
  BY <1>1
<1>5. /\ (h \in UnderWay' => h \in UnderWay) => Cardinality(UnderWay') <= Cardinality(UnderWay)
      /\ Cardinality(UnderWay') <= Cardinality(UnderWay) + 1
  BY <1>2
<1> QED
  BY <1>1, <1>2, <1>3, <1>4, <1>5

\* So do those of one number.
LEMMA OneJobOf ==
    ASSUME NEW h \in Handler, \A g \in Handler : g # h => job'[g] = job[g], NEW p \in Number
    PROVE  /\ LET now == Cardinality(Asking(p))
                  next == Cardinality(Asking(p)')
              IN  /\ now \in Nat /\ next \in Nat
                  /\ (h \in Asking(p) <=> h \in Asking(p)') => next = now
                  /\ h \notin Asking(p) /\ h \in Asking(p)' => next = now + 1
                  /\ h \in Asking(p) /\ h \notin Asking(p)' => next = now - 1
           /\ LET now == Cardinality(Past(p))
                  next == Cardinality(Past(p)')
              IN  /\ now \in Nat /\ next \in Nat
                  /\ (h \in Past(p) <=> h \in Past(p)') => next = now
                  /\ h \notin Past(p) /\ h \in Past(p)' => next = now + 1
                  /\ h \in Past(p) /\ h \notin Past(p)' => next = now - 1
<1>1. /\ Asking(p) \in SUBSET Handler /\ Asking(p)' \in SUBSET Handler /\ Asking(p)' \ {h} = Asking(p) \ {h}
      /\ Past(p) \in SUBSET Handler /\ Past(p)' \in SUBSET Handler /\ Past(p)' \ {h} = Past(p) \ {h}
  BY DEF Asking, Past
<1> HIDE DEF Asking, Past
<1>2. /\ Cardinality(Asking(p)) \in Nat /\ Cardinality(Asking(p)') \in Nat
      /\ (h \in Asking(p) <=> h \in Asking(p)') => Cardinality(Asking(p)') = Cardinality(Asking(p))
      /\ h \notin Asking(p) /\ h \in Asking(p)' => Cardinality(Asking(p)') = Cardinality(Asking(p)) + 1
      /\ h \in Asking(p) /\ h \notin Asking(p)' => Cardinality(Asking(p)') = Cardinality(Asking(p)) - 1
  BY <1>1, StopReplyAssumption, OneMoved
<1>3. /\ Cardinality(Past(p)) \in Nat /\ Cardinality(Past(p)') \in Nat
      /\ (h \in Past(p) <=> h \in Past(p)') => Cardinality(Past(p)') = Cardinality(Past(p))
      /\ h \notin Past(p) /\ h \in Past(p)' => Cardinality(Past(p)') = Cardinality(Past(p)) + 1
      /\ h \in Past(p) /\ h \notin Past(p)' => Cardinality(Past(p)') = Cardinality(Past(p)) - 1
  BY <1>1, StopReplyAssumption, OneMoved
<1> QED
  BY <1>2, <1>3

\* Nobody counts twice among those at work.
LEMMA AmongThose ==
    ASSUME NEW p \in Number
    PROVE  /\ Cardinality(Asking(p)) + Cardinality(Past(p)) <= Cardinality(UnderWay)
           /\ Cardinality(Counted) <= Cardinality(UnderWay)
           /\ {Cardinality(Asking(p)), Cardinality(Past(p)), Cardinality(Counted),
               Cardinality(UnderWay)} \subseteq Nat
<1> DEFINE both == Asking(p) \cup Past(p)
<1>1. /\ both \in SUBSET UnderWay /\ Counted \in SUBSET UnderWay /\ UnderWay \in SUBSET Handler
      /\ Asking(p) \in SUBSET Handler /\ Past(p) \in SUBSET Handler
      /\ Asking(p) \cap Past(p) = {}
  BY DEF Asking, Past, Counted, UnderWay, Idle
<1>2. IsFiniteSet(Asking(p)) /\ IsFiniteSet(Past(p))
  BY <1>1, StopReplyAssumption, FS_Subset
<1>3. Cardinality(both) = Cardinality(Asking(p)) + Cardinality(Past(p)) - Cardinality(Asking(p) \cap Past(p))
  BY <1>2, FS_Union
<1>4. /\ Cardinality(both) <= Cardinality(UnderWay) /\ Cardinality(Counted) <= Cardinality(UnderWay)
      /\ Cardinality(UnderWay) \in Nat /\ Cardinality(Counted) \in Nat /\ Cardinality(both) \in Nat
  <2> HIDE DEF both
  <2> QED
    BY <1>1, StopReplyAssumption, FewerOf
<1>5. Cardinality(Asking(p)) \in Nat /\ Cardinality(Past(p)) \in Nat
  BY <1>2, FS_CardinalityType
<1>6. Cardinality(Asking(p) \cap Past(p)) = 0
  BY <1>1, FS_EmptySet
<1> QED
  BY <1>3, <1>4, <1>5, <1>6

\* Before anything was delivered.
LEMMA RepliesInit == Init => RepliesInv
<1> SUFFICES ASSUME Init PROVE RepliesInv
  OBVIOUS
<1>1. Cardinality({}) = 0 /\ IsFiniteSet({})
  BY FS_EmptySet
<1>2. \A h \in Handler : job[h].at = "idle" /\ job[h] = Idle
  BY DEF Init, Idle
<1>3. UnderWay = {} /\ Counted = {} /\ \A p \in Number : Asking(p) = {} /\ Past(p) = {}
  BY <1>2 DEF UnderWay, Counted, Asking, Past
<1>4. acked = {} /\ crowd = 0 /\ crashes = 0 /\ \A p \in Number : acks[p] = 0
  BY DEF Init
<1>5. \A p \in Number : RepliesOf(p)
  BY <1>1, <1>3, <1>4 DEF RepliesOf
<1> QED
  BY <1>1, <1>2, <1>3, <1>4, <1>5 DEF RepliesInv, WithinCap, JobOK

\* A delivery at work moves on: no more are at work than before.
LEMMA OneMovesOn ==
    ASSUME RepliesInv, NEW h \in Handler, h \in UnderWay, \A g \in Handler : g # h => job'[g] = job[g],
           crowd' = crowd, IsFiniteSet(acked'), JobOK(h)', \A p \in Number : RepliesOf(p)', WithinCap',
           crowd \in Nat
    PROVE  RepliesInv'
<1>1. Cardinality(UnderWay') <= crowd'
  BY OneJob DEF RepliesInv
<1>2. \A g \in Handler : JobOK(g)'
  BY DEF RepliesInv, JobOK
<1> QED
  BY <1>1, <1>2 DEF RepliesInv

\* Numbers that a step is not about.
LEMMA OtherNumbers ==
    ASSUME StopTypeOK, RepliesInv, NEW h \in Handler, \A g \in Handler : g # h => job'[g] = job[g],
           NEW p \in Number, h \notin Asking(p), h \notin Asking(p)', h \in Past(p) <=> h \in Past(p)',
           acks'[p] = acks[p], crashes' = crashes, crowd' \in Nat, crowd <= crowd',
           optedOut \subseteq optedOut'
    PROVE  RepliesOf(p)'
<1>1. /\ Cardinality(Asking(p)) \in Nat /\ Cardinality(Asking(p)') = Cardinality(Asking(p))
      /\ Cardinality(Past(p)) \in Nat /\ Cardinality(Past(p)') = Cardinality(Past(p))
  BY OneJobOf
<1>2. acks[p] \in Nat /\ crashes \in Nat /\ crowd \in Nat
  BY StopReplyAssumption DEF StopTypeOK
<1>3. /\ acks[p] + Cardinality(Asking(p)) <= crowd + crashes
      /\ p \notin optedOut => acks[p] <= Cardinality(Past(p)) + crashes
      /\ acks[p] > 0 => p \in Reminded
  BY DEF RepliesInv, RepliesOf
<1>4. /\ acks'[p] + Cardinality(Asking(p)') <= crowd' + crashes'
      /\ p \notin optedOut' => acks'[p] <= Cardinality(Past(p)') + crashes'
      /\ acks'[p] > 0 => p \in Reminded
  BY <1>1, <1>2, <1>3
<1> QED
  BY <1>4 DEF RepliesOf

\* A delivery begins.
LEMMA LookKeepsReplies ==
    ASSUME StopTypeOK, RepliesInv, NEW h \in Handler, NEW p \in Number, Look(h, p) PROVE RepliesInv'
<1> DEFINE new == [at |-> "look", phone |-> p, first |-> p \notin optedOut, found |-> {}, on |-> {}, acked |-> FALSE]
<1>1. /\ job[h].at = "idle" /\ job'[h] = new /\ \A g \in Handler : g # h => job'[g] = job[g]
      /\ UNCHANGED <<dbVars, acks, crashes>>
  BY DEF Look, StopTypeOK, Idle
<1>2. /\ new.at = "look" /\ new.phone = p /\ ~new.acked /\ (new.first <=> p \notin optedOut)
  OBVIOUS
<1> HIDE DEF new
<1>3. /\ Cardinality(UnderWay) \in Nat /\ crowd' \in Nat /\ crowd <= crowd' /\ Cardinality(UnderWay) + 1 <= crowd'
      /\ crowd \in Nat
  BY CrowdGrows DEF StopTypeOK
<1>4. UNCHANGED <<acked, optedOut>>
  BY <1>1 DEF dbVars
<1>5. ASSUME NEW q \in Number PROVE RepliesOf(q)'
  <2>1. /\ h \notin Asking(q) /\ h \notin Past(q) /\ h \notin Past(q)'
        /\ h \in Asking(q)' <=> q = p /\ p \notin optedOut
    BY <1>1, <1>2 DEF Asking, Past
  <2>2. CASE h \notin Asking(q)'
    BY <1>1, <1>3, <1>4, <2>1, <2>2, OtherNumbers
  <2>3. CASE h \in Asking(q)'
    <3>1. /\ Cardinality(Asking(q)') = Cardinality(Asking(q)) + 1
          /\ Cardinality(Past(q)') = Cardinality(Past(q))
      BY <1>1, <2>1, <2>3, OneJobOf
    <3>2. /\ {Cardinality(Asking(q)), Cardinality(Past(q))} \subseteq Nat
          /\ Cardinality(Asking(q)) + Cardinality(Past(q)) <= Cardinality(UnderWay)
      BY AmongThose
    <3>3. acks[q] \in Nat /\ crashes \in Nat
      BY StopReplyAssumption DEF StopTypeOK
    <3>4. acks[q] <= Cardinality(Past(q)) + crashes /\ (acks[q] > 0 => q \in Reminded)
      BY <2>1, <2>3 DEF RepliesInv, RepliesOf
    <3>5. acks[q] + Cardinality(Asking(q)') <= crowd' + crashes
      BY <1>3, <3>1, <3>2, <3>3, <3>4
    <3> QED
      BY <1>1, <1>4, <3>1, <3>4, <3>5 DEF RepliesOf
  <2> QED
    BY <2>2, <2>3
<1>6. WithinCap'
  <2>1. h \notin Counted /\ h \notin Counted'
    BY <1>1, <1>2 DEF Counted
  <2>2. Counted' = Counted /\ Cardinality(Counted) \in Nat
    BY <1>1, <2>1, OneJob
  <2>3. Cardinality(acked) \in Nat
    BY FS_CardinalityType DEF RepliesInv
  <2> QED
    BY <1>3, <1>4, <2>2, <2>3, StopReplyAssumption DEF RepliesInv, WithinCap
<1>7. Cardinality(UnderWay') <= crowd'
  BY <1>1, <1>3, OneJob
<1>8. \A g \in Handler : JobOK(g)'
  BY <1>1, <1>2 DEF RepliesInv, JobOK
<1> QED
  BY <1>4, <1>5, <1>6, <1>7, <1>8 DEF RepliesInv

\* A delivery at work has its number, and its place.
LEMMA AtItsPlace ==
    ASSUME StopTypeOK, NEW h \in Handler, job[h] # Idle
    PROVE  /\ h \in UnderWay /\ job[h].phone \in Number
           /\ job[h].at \in {"look", "weigh", "post", "commit"}
           /\ job[h] \in [at : {"look", "weigh", "post", "commit"}, phone : Number, first : BOOLEAN,
                          found : SUBSET Entry, on : SUBSET Entry, acked : BOOLEAN]
           /\ crowd \in Nat /\ crashes \in Nat /\ \A p \in Number : acks[p] \in Nat
<1>1. job[h].at # "idle"
  BY DEF StopTypeOK, Job, Idle
<1> QED
  BY <1>1, Busy, StopReplyAssumption DEF UnderWay, StopTypeOK

\* It goes on without a post: it may give up asking, and none is counted anew.
LEMMA GoesOnUnposted ==
    ASSUME StopTypeOK, RepliesInv, NEW h \in Handler, job[h] # Idle, job[h].at # "commit",
           \A g \in Handler : g # h => job'[g] = job[g], job'[h].at \in {"weigh", "post", "commit"},
           job'[h].phone = job[h].phone, job'[h].first = job[h].first,
           UNCHANGED <<optedOut, acked, acks, crowd, crashes>>, JobOK(h)', WithinCap'
    PROVE  RepliesInv'
<1>1. h \in UnderWay /\ crowd \in Nat /\ crashes \in Nat /\ \A p \in Number : acks[p] \in Nat
  BY AtItsPlace
<1>2. ASSUME NEW p \in Number PROVE RepliesOf(p)'
  <2>1. /\ h \in Asking(p)' => h \in Asking(p)
        /\ h \notin Past(p)
    <3>1. job[h].at \in {"look", "weigh", "post"}
      BY AtItsPlace
    <3> QED
      BY <3>1 DEF Asking, Past
  <2>2. /\ Cardinality(Asking(p)) \in Nat /\ Cardinality(Asking(p)') \in Nat
        /\ Cardinality(Past(p)) \in Nat /\ Cardinality(Past(p)') \in Nat
        /\ Cardinality(Asking(p)') <= Cardinality(Asking(p))
        /\ Cardinality(Past(p)) <= Cardinality(Past(p)')
    BY <2>1, OneJobOf
  <2>3. /\ acks[p] + Cardinality(Asking(p)) <= crowd + crashes
        /\ p \notin optedOut => acks[p] <= Cardinality(Past(p)) + crashes
        /\ acks[p] > 0 => p \in Reminded
    BY DEF RepliesInv, RepliesOf
  <2>4. /\ acks'[p] + Cardinality(Asking(p)') <= crowd' + crashes'
        /\ p \notin optedOut' => acks'[p] <= Cardinality(Past(p)') + crashes'
    BY <1>1, <2>2, <2>3
  <2> QED
    BY <2>3, <2>4 DEF RepliesOf
<1>3. IsFiniteSet(acked')
  BY DEF RepliesInv
<1> QED
  BY <1>1, <1>2, <1>3, OneMovesOn

\* It records the STOP, and will ask to reply if it is the first.
LEMMA RecordKeepsReplies ==
    ASSUME StopTypeOK, RepliesInv, NEW h \in Handler, RecordOptOut(h) PROVE RepliesInv'
<1> DEFINE found == {r \in Entry \ stopped : PhoneOf[r] = job[h].phone}
           place == IF Answers(job[h].first) THEN "weigh" ELSE "commit"
<1>1. /\ job[h].at = "look" /\ UNCHANGED <<dbVars, acks, crowd, crashes>>
      /\ job'[h] = [job[h] EXCEPT !.at = place, !.found = found, !.on = found \cap enabled]
      /\ \A g \in Handler : g # h => job'[g] = job[g]
  BY DEF RecordOptOut, StopTypeOK
<1>2. place = IF job[h].first THEN "weigh" ELSE "commit"
  BY DEF Answers
<1>3. job[h] # Idle
  BY <1>1 DEF Idle
<1>4. /\ job'[h].at = place /\ job'[h].phone = job[h].phone /\ job'[h].first = job[h].first
      /\ job'[h].acked = job[h].acked
  <2> HIDE DEF place, found
  <2> QED
    BY <1>1, <1>3, AtItsPlace
<1> HIDE DEF place, found
<1>5. ~job[h].acked /\ job[h].first \in BOOLEAN
  BY <1>1, <1>3, AtItsPlace DEF RepliesInv, JobOK
<1>6. JobOK(h)'
  BY <1>2, <1>4, <1>5 DEF JobOK
<1>7. WithinCap'
  <2>1. h \notin Counted /\ h \notin Counted'
    BY <1>1, <1>2, <1>4, <1>5 DEF Counted
  <2>2. Counted' = Counted
    BY <1>1, <2>1, OneJob
  <2> QED
    BY <1>1, <2>2 DEF RepliesInv, WithinCap, dbVars
<1> QED
  BY <1>1, <1>2, <1>3, <1>4, <1>6, <1>7, GoesOnUnposted DEF dbVars

\* It weighs the reply: under the cap, one more of those at work is counted.
LEMMA WeighKeepsReplies ==
    ASSUME StopTypeOK, RepliesInv, NEW h \in Handler, Weigh(h) PROVE RepliesInv'
<1> DEFINE answers == ~paused /\ job[h].phone \in Reminded /\ Cardinality(acked) < AckCap
           place == IF answers THEN "post" ELSE "commit"
<1>1. /\ job[h].at = "weigh" /\ UNCHANGED <<dbVars, acks, crowd, crashes>>
      /\ job'[h] = [job[h] EXCEPT !.at = place]
      /\ \A g \in Handler : g # h => job'[g] = job[g]
  BY DEF Weigh, StopTypeOK
<1>2. place = "commit" \/ (place = "post" /\ job[h].phone \in Reminded /\ Cardinality(acked) < AckCap)
  OBVIOUS
<1>3. job[h] # Idle
  BY <1>1 DEF Idle
<1> HIDE DEF place
<1>4. /\ job'[h].at = place /\ job'[h].phone = job[h].phone /\ job'[h].first = job[h].first
      /\ job'[h].acked = job[h].acked
  BY <1>1, <1>3, AtItsPlace
<1>5. ~job[h].acked /\ job[h].first
  BY <1>1 DEF RepliesInv, JobOK
<1>6. JobOK(h)'
  BY <1>2, <1>4, <1>5 DEF JobOK
<1>7. WithinCap'
  <2>1. CASE place = "commit"
    <3>1. h \notin Counted /\ h \notin Counted'
      BY <1>1, <1>4, <1>5, <2>1 DEF Counted
    <3>2. Counted' = Counted
      BY <1>1, <3>1, OneJob
    <3> QED
      BY <1>1, <3>2 DEF RepliesInv, WithinCap, dbVars
  <2>2. CASE place = "post"
    <3>1. h \in UnderWay /\ UnderWay \in SUBSET Handler /\ Counted \subseteq UnderWay
      BY <1>3 DEF UnderWay, Counted, Idle
    <3>2. Counted' \in SUBSET UnderWay
      <4>1. Counted' \ {h} = Counted \ {h}
        BY <1>1, OneJob
      <4>2. Counted' \subseteq Handler
        BY DEF Counted
      <4> QED
        BY <3>1, <4>1, <4>2
    <3>3. Cardinality(Counted') \in Nat /\ Cardinality(UnderWay) \in Nat /\ Cardinality(Counted') <= Cardinality(UnderWay)
      BY <3>1, <3>2, StopReplyAssumption, FewerOf
    <3>4. Cardinality(acked) \in Nat /\ Cardinality(acked) < AckCap /\ Cardinality(UnderWay) <= crowd
          /\ crowd \in Nat /\ AckCap \in Nat
      BY <1>2, <2>2, FS_CardinalityType, StopReplyAssumption DEF RepliesInv, StopTypeOK
    <3>5. Cardinality(acked) + Cardinality(Counted') < AckCap + crowd
      BY <3>3, <3>4
    <3>6. acked' = acked /\ crowd' = crowd
      BY <1>1 DEF dbVars
    <3> QED
      BY <3>5, <3>6 DEF WithinCap
  <2> QED
    BY <1>2, <2>1, <2>2
<1> QED
  BY <1>1, <1>2, <1>3, <1>4, <1>6, <1>7, GoesOnUnposted DEF dbVars

\* It posts: one that asked no more does.
LEMMA PostKeepsReplies ==
    ASSUME StopTypeOK, RepliesInv, NEW h \in Handler, Post(h) PROVE RepliesInv'
<1>1. PICK taken \in BOOLEAN, ok \in BOOLEAN :
          /\ job[h].at = "post" /\ UNCHANGED <<dbVars, crowd, crashes>>
          /\ acks' = IF taken THEN [acks EXCEPT ![job[h].phone] = @ + 1] ELSE acks
          /\ job' = [job EXCEPT ![h].at = "commit", ![h].acked = ok]
  BY DEF Post
<1>2. job[h] # Idle
  BY <1>1 DEF Idle
<1>p. PICK p \in Number : job[h].phone = p
  BY <1>2, AtItsPlace
<1>3. h \in UnderWay /\ crowd \in Nat /\ crashes \in Nat /\ \A q \in Number : acks[q] \in Nat
  BY <1>2, AtItsPlace
<1>4. /\ job'[h] = [job[h] EXCEPT !.at = "commit", !.acked = ok]
      /\ \A g \in Handler : g # h => job'[g] = job[g]
  BY <1>1 DEF StopTypeOK
<1>5. job'[h].at = "commit" /\ job'[h].phone = p
  BY <1>2, <1>4, <1>p, AtItsPlace
<1>6. job[h].first /\ p \in Reminded
  BY <1>1, <1>p DEF RepliesInv, JobOK
<1>7. acks'[p] \in {acks[p], acks[p] + 1} /\ \A q \in Number : q # p => acks'[q] = acks[q]
  <2>1. acks \in [Number -> Nat]
    BY DEF StopTypeOK
  <2> QED
    BY <1>1, <1>p, <2>1
<1>8. ASSUME NEW q \in Number PROVE RepliesOf(q)'
  <2>1. CASE q # p
    <3>1. h \notin Asking(q) /\ h \notin Asking(q)' /\ (h \in Past(q) <=> h \in Past(q)')
      BY <1>1, <1>5, <1>p, <2>1 DEF Asking, Past
    <3>2. acks'[q] = acks[q]
      BY <1>7, <2>1
    <3>3. crashes' = crashes /\ crowd' \in Nat /\ crowd <= crowd' /\ optedOut \subseteq optedOut'
      BY <1>1, <1>3 DEF dbVars
    <3> QED
      BY <1>4, <3>1, <3>2, <3>3, OtherNumbers
  <2>2. CASE q = p
    <3>1. h \in Asking(p) /\ h \notin Asking(p)' /\ h \notin Past(p) /\ h \in Past(p)'
      BY <1>1, <1>5, <1>6, <1>p DEF Asking, Past
    <3>2. /\ Cardinality(Asking(p)) \in Nat /\ Cardinality(Asking(p)') = Cardinality(Asking(p)) - 1
          /\ Cardinality(Past(p)) \in Nat /\ Cardinality(Past(p)') = Cardinality(Past(p)) + 1
      BY <1>3, <1>4, <3>1, OneJobOf
    <3>3. /\ acks[p] + Cardinality(Asking(p)) <= crowd + crashes
          /\ p \notin optedOut => acks[p] <= Cardinality(Past(p)) + crashes
      BY <1>3 DEF RepliesInv, RepliesOf
    <3>4. /\ acks'[p] + Cardinality(Asking(p)') <= crowd + crashes
          /\ p \notin optedOut => acks'[p] <= Cardinality(Past(p)') + crashes
      BY <1>3, <1>7, <3>2, <3>3
    <3> QED
      BY <1>1, <1>6, <2>2, <3>4 DEF RepliesOf, dbVars
  <2> QED
    BY <2>1, <2>2
<1>9. WithinCap'
  <2>1. h \in Counted
    BY <1>1 DEF Counted
  <2>2. /\ Cardinality(Counted) \in Nat /\ Cardinality(Counted') \in Nat
        /\ Cardinality(Counted') <= Cardinality(Counted)
    <3>1. /\ Cardinality(Counted) \in Nat /\ Cardinality(Counted') \in Nat
          /\ (h \in Counted <=> h \in Counted') => Cardinality(Counted') = Cardinality(Counted)
          /\ h \in Counted /\ h \notin Counted' => Cardinality(Counted') = Cardinality(Counted) - 1
      BY <1>4, OneJob
    <3> QED
      BY <2>1, <3>1
  <2>3. Cardinality(acked) + Cardinality(Counted) < AckCap + crowd /\ Cardinality(acked) \in Nat
    BY <2>1, FS_CardinalityType DEF RepliesInv, WithinCap
  <2>4. Cardinality(acked) + Cardinality(Counted') < AckCap + crowd
    BY <1>3, <2>2, <2>3, StopReplyAssumption
  <2> QED
    BY <1>1, <2>4 DEF WithinCap, dbVars
<1>10. JobOK(h)' /\ IsFiniteSet(acked')
  BY <1>1, <1>5 DEF JobOK, RepliesInv, dbVars
<1> QED
  BY <1>1, <1>3, <1>4, <1>8, <1>9, <1>10, OneMovesOn DEF dbVars

\* It commits: from now on the number has stopped, and a reply known to have gone counts.
LEMMA CommitKeepsReplies ==
    ASSUME StopTypeOK, RepliesInv, NEW h \in Handler, Commit(h) PROVE RepliesInv'
<1> DEFINE p == job[h].phone
<1>1. /\ job[h].at = "commit" /\ UNCHANGED <<acks, crowd, crashes>>
      /\ optedOut' = optedOut \cup {p}
      /\ acked' = IF job[h].acked THEN acked \cup {p} ELSE acked
      /\ job'[h] = Idle /\ \A g \in Handler : g # h => job'[g] = job[g]
  BY DEF Commit, StopTypeOK
<1>2. job[h] # Idle
  BY <1>1 DEF Idle
<1>3. h \in UnderWay /\ p \in Number /\ crowd \in Nat /\ crashes \in Nat /\ \A q \in Number : acks[q] \in Nat
  BY <1>2, AtItsPlace
<1>4. job'[h].at = "idle"
  BY <1>1 DEF Idle
<1>5. ASSUME NEW q \in Number PROVE RepliesOf(q)'
  <2>1. h \notin Asking(q) /\ h \notin Asking(q)'
    BY <1>1, <1>4 DEF Asking
  <2>2. CASE q # p
    <3>1. h \notin Past(q) /\ h \notin Past(q)'
      BY <1>4, <2>2 DEF Past
    <3> QED
      BY <1>1, <1>3, <2>1, <3>1, OtherNumbers
  <2>3. CASE q = p
    <3>1. Cardinality(Asking(q)') = Cardinality(Asking(q))
      BY <1>1, <2>1, OneJobOf
    <3>2. acks[q] + Cardinality(Asking(q)) <= crowd + crashes /\ (acks[q] > 0 => q \in Reminded)
      BY DEF RepliesInv, RepliesOf
    <3>3. q \in optedOut'
      BY <1>1, <2>3
    <3> QED
      BY <1>1, <3>1, <3>2, <3>3 DEF RepliesOf
  <2> QED
    BY <2>2, <2>3
<1>6. h \notin Counted'
  BY <1>4 DEF Counted
<1>7. IsFiniteSet(acked') /\ WithinCap'
  <2>1. IsFiniteSet(acked) /\ Cardinality(acked) \in Nat
    BY FS_CardinalityType DEF RepliesInv
  <2>2. CASE ~job[h].acked
    <3>1. h \notin Counted
      BY <1>1, <2>2 DEF Counted
    <3>2. Counted' = Counted /\ acked' = acked
      BY <1>1, <1>6, <2>2, <3>1, OneJob
    <3> QED
      BY <1>1, <2>1, <3>2 DEF RepliesInv, WithinCap
  <2>3. CASE job[h].acked
    <3>1. h \in Counted
      BY <1>1, <2>3 DEF Counted
    <3>2. Cardinality(acked) + Cardinality(Counted) < AckCap + crowd
      BY <3>1 DEF RepliesInv, WithinCap
    <3>3. Cardinality(Counted) \in Nat /\ Cardinality(Counted') = Cardinality(Counted) - 1
      BY <1>1, <1>6, <3>1, OneJob
    <3>4. /\ IsFiniteSet(acked \cup {p})
          /\ Cardinality(acked \cup {p}) = IF p \in acked THEN Cardinality(acked) ELSE Cardinality(acked) + 1
      BY <2>1, FS_AddElement
    <3>5. Cardinality(acked') \in {Cardinality(acked), Cardinality(acked) + 1}
      <4> HIDE DEF p
      <4> QED
        BY <1>1, <2>3, <3>4
    <3>6. Cardinality(acked') + Cardinality(Counted') < AckCap + crowd
      BY <1>3, <2>1, <3>2, <3>3, <3>5, StopReplyAssumption
    <3> QED
      BY <1>1, <2>3, <3>4, <3>6 DEF WithinCap
  <2> QED
    BY <2>2, <2>3
<1>8. JobOK(h)'
  BY <1>4 DEF JobOK
<1> QED
  BY <1>1, <1>3, <1>5, <1>7, <1>8, OneMovesOn

\* It dies, and with it what it knew of its reply.
LEMMA CrashKeepsReplies ==
    ASSUME StopTypeOK, RepliesInv, NEW h \in Handler, Crash(h) PROVE RepliesInv'
<1>1. /\ job[h] # Idle /\ crashes' = crashes + 1 /\ UNCHANGED <<dbVars, acks, crowd>>
      /\ job'[h] = Idle /\ \A g \in Handler : g # h => job'[g] = job[g]
  BY DEF Crash, StopTypeOK
<1>2. h \in UnderWay /\ crowd \in Nat /\ crashes \in Nat /\ \A q \in Number : acks[q] \in Nat
  BY <1>1, AtItsPlace
<1>3. job'[h].at = "idle"
  BY <1>1 DEF Idle
<1>4. ASSUME NEW q \in Number PROVE RepliesOf(q)'
  <2>1. h \notin Asking(q)' /\ h \notin Past(q)'
    BY <1>3 DEF Asking, Past
  <2>2. /\ Cardinality(Asking(q)) \in Nat /\ Cardinality(Asking(q)') \in Nat
        /\ Cardinality(Past(q)) \in Nat /\ Cardinality(Past(q)') \in Nat
        /\ Cardinality(Asking(q)') <= Cardinality(Asking(q))
        /\ Cardinality(Past(q)) <= Cardinality(Past(q)') + 1
    BY <1>1, <2>1, OneJobOf
  <2>3. /\ acks[q] + Cardinality(Asking(q)) <= crowd + crashes
        /\ q \notin optedOut => acks[q] <= Cardinality(Past(q)) + crashes
        /\ acks[q] > 0 => q \in Reminded
    BY DEF RepliesInv, RepliesOf
  <2>4. /\ acks[q] + Cardinality(Asking(q)') <= crowd + (crashes + 1)
        /\ q \notin optedOut => acks[q] <= Cardinality(Past(q)') + (crashes + 1)
    BY <1>2, <2>2, <2>3
  <2> QED
    BY <1>1, <2>3, <2>4 DEF RepliesOf, dbVars
<1>5. WithinCap'
  <2>1. h \notin Counted'
    BY <1>3 DEF Counted
  <2>2. CASE h \notin Counted
    <3>1. Counted' = Counted
      BY <1>1, <2>1, <2>2, OneJob
    <3> QED
      BY <1>1, <3>1 DEF RepliesInv, WithinCap, dbVars
  <2>3. CASE h \in Counted
    <3>1. Cardinality(acked) + Cardinality(Counted) < AckCap + crowd
      BY <2>3 DEF RepliesInv, WithinCap
    <3>2. Cardinality(Counted) \in Nat /\ Cardinality(Counted') = Cardinality(Counted) - 1
      BY <1>1, <2>1, <2>3, OneJob
    <3>3. Cardinality(acked) \in Nat
      BY FS_CardinalityType DEF RepliesInv
    <3>4. Cardinality(acked) + Cardinality(Counted') < AckCap + crowd
      BY <1>2, <3>1, <3>2, <3>3, StopReplyAssumption
    <3> QED
      BY <1>1, <3>4 DEF WithinCap, dbVars
  <2> QED
    BY <2>2, <2>3
<1>6. JobOK(h)' /\ IsFiniteSet(acked')
  BY <1>1, <1>3 DEF JobOK, RepliesInv, dbVars
<1> QED
  BY <1>1, <1>2, <1>4, <1>5, <1>6, OneMovesOn

\* Every step.
LEMMA RepliesStep == ASSUME StopTypeOK, RepliesInv, [Next]_vars PROVE RepliesInv'
<1>1. ASSUME UNCHANGED <<optedOut, acked, job, acks, crowd, crashes>> PROVE RepliesInv'
  BY <1>1 DEF RepliesInv, JobOK, RepliesOf, WithinCap, UnderWay, Counted, Asking, Past
<1>2. CASE UNCHANGED vars
  BY <1>1, <1>2 DEF vars, dbVars
<1>3. ASSUME NEW p \in Number, SendStop(p) PROVE RepliesInv'
  BY <1>1, <1>3 DEF SendStop, dbVars
<1>4. CASE FlipPause
  BY <1>1, <1>4 DEF FlipPause, dbVars
<1> QED
  BY <1>2, <1>3, <1>4, LookKeepsReplies, RecordKeepsReplies, WeighKeepsReplies, PostKeepsReplies,
     CommitKeepsReplies, CrashKeepsReplies DEF Next, Handle

\* A number is answered no more often than deliveries were at work at once and died,
\* only if it was reminded, and the answers known to have gone are past their cap by no
\* more than those at work at once (acknowledge_stop).
THEOREM AckedOnceAlways == Spec => []AckedOnce
<1>1. Init => StopInv /\ RepliesInv
  BY StopInit, RepliesInit
<1>2. StopInv /\ RepliesInv /\ [Next]_vars => (StopInv /\ RepliesInv)'
  BY OutsideSteps, HandleStep, RepliesStep DEF Next, StopInv
<1>3. ASSUME StopInv, RepliesInv PROVE AckedOnce
  <2>1. ASSUME NEW p \in Number PROVE acks[p] <= crowd + crashes /\ (acks[p] > 0 => p \in Reminded)
    <3>1. Cardinality(Asking(p)) \in Nat
      BY AmongThose
    <3>2. acks[p] \in Nat /\ crowd \in Nat /\ crashes \in Nat
      BY <1>3, StopReplyAssumption DEF StopInv, StopTypeOK
    <3>3. acks[p] + Cardinality(Asking(p)) <= crowd + crashes /\ (acks[p] > 0 => p \in Reminded)
      BY <1>3 DEF RepliesInv, RepliesOf
    <3> QED
      BY <3>1, <3>2, <3>3
  <2>2. acked = {} \/ Cardinality(acked) < AckCap + crowd
    <3>1. Cardinality(acked) \in Nat
      BY <1>3, FS_CardinalityType DEF RepliesInv
    <3>2. Cardinality(Counted) \in Nat
      <4>1. Counted \in SUBSET Handler
        BY DEF Counted
      <4> QED
        BY <4>1, StopReplyAssumption, FewerOf
    <3>3. crowd \in Nat
      BY <1>3 DEF StopInv, StopTypeOK
    <3> QED
      BY <1>3, <3>1, <3>2, <3>3, StopReplyAssumption DEF RepliesInv, WithinCap
  <2> QED
    BY <2>1, <2>2 DEF AckedOnce
<1> QED
  BY <1>1, <1>2, <1>3, PTL DEF Spec

-----------------------------------------------------------------------------
(***************************************************************************)
(* What a row shows of its message.                                        *)
(***************************************************************************)
\* What a receipt reports has happened.
Happened(receipt) ==
    /\ receipt.kind = "delivered" => meta[receipt.msg] \in {"delivered", "read"}
    /\ receipt.kind = "read" => meta[receipt.msg] = "read"
    /\ receipt.kind = "failed" => meta[receipt.msg] = "failed"

\* Every receipt under way, in the mail or in a request's hands, is true, and a
\* row in a request's hands has its id: that is what applying one late relies on.
TrueMail ==
    /\ \A receipt \in mail : Happened(receipt)
    /\ \A h \in Request : handling[h] # NoWork => Happened(handling[h].receipt) /\ row[handling[h].receipt.msg].id

ReceiptsInv == ReceiptsTypeOK /\ ShowsWhatHappened /\ TrueMail

\* What is done to a row makes a row again; only its moment and status change.
LEMMA AppliedRow ==
    ASSUME NEW n \in RowState, NEW kind \in Kind
    PROVE  /\ NewRow(n, kind) \in RowState
           /\ NewRow(n, kind).status = kind /\ NewRow(n, kind).id = n.id
           /\ kind \in {"delivered", "read"} => NewRow(n, kind).deliveredAt
           /\ kind = "read" => NewRow(n, kind).readAt
  BY DEF NewRow, RowState, Kind

\* Knowing the recipient changes nothing else.
LEMMA IdentifiedRow ==
    ASSUME NEW n \in RowState, NEW m
    PROVE  /\ Identified(n, m) \in RowState
           /\ Identified(n, m).status = n.status /\ Identified(n, m).id = n.id
           /\ Identified(n, m).deliveredAt = n.deliveredAt /\ Identified(n, m).readAt = n.readAt
<1>1. Identified(n, m).userId = (n.userId \/ m \in Named)
  BY DEF Identified, RowState
<1> QED
  BY <1>1 DEF Identified, RowState

\* WhatsApp's own steps only add to what has happened.
LEMMA MetaStep == ASSUME ReceiptsInv, NEW m \in Msg, MetaMoves(m) PROVE ReceiptsInv'
<1> USE DEF ReceiptsInv
<1>1. PICK from \in {"nothing", "accepted", "delivered"}, to \in {"accepted", "delivered", "read", "failed"},
           kind \in Kind : /\ Reach(m, from, to, kind)
                           /\ from = "delivered" => to = "read"
                           /\ kind = to \/ (to = "accepted" /\ kind = "sent")
  BY DEF MetaMoves, Kind
<1>2. ReceiptsTypeOK'
  BY <1>1 DEF Reach, ReceiptsTypeOK, Receipt
<1>3. meta' = [meta EXCEPT ![m] = to] /\ meta[m] = from
  BY <1>1 DEF Reach
<1>4. \A q \in Msg : /\ meta[q] \in {"delivered", "read"} => meta'[q] \in {"delivered", "read"}
                     /\ meta[q] = "read" => meta'[q] = "read"
                     /\ meta[q] = "failed" => meta'[q] = "failed"
  BY <1>1, <1>3 DEF ReceiptsTypeOK
<1>5. ShowsWhatHappened'
  BY <1>1, <1>4 DEF Reach, ShowsWhatHappened
<1>6. TrueMail'
  <2>1. \A receipt \in Receipt : Happened(receipt) => Happened(receipt)'
    BY <1>4 DEF Happened, Receipt
  <2>2. Happened([msg |-> m, kind |-> kind])'
    BY <1>1, <1>3 DEF Happened, ReceiptsTypeOK, Kind
  <2>3. \A receipt \in mail' : Happened(receipt)'
    BY <1>1, <2>1, <2>2 DEF Reach, TrueMail, ReceiptsTypeOK
  <2>4. \A h \in Request : handling[h] # NoWork => handling[h].receipt \in Receipt
    BY DEF ReceiptsTypeOK, Handling
  <2>5. \A h \in Request : handling[h] # NoWork => Happened(handling[h].receipt)'
    BY <1>1, <2>1, <2>4 DEF Reach, TrueMail
  <2> QED
    BY <1>1, <2>3, <2>5 DEF Reach, TrueMail, Happened
<1> QED
  BY <1>2, <1>5, <1>6

\* A receipt is applied to the row as it is by then.
LEMMA ApplyStep == ASSUME ReceiptsInv, NEW h \in Request, Apply(h) PROVE ReceiptsInv'
<1> DEFINE m == handling[h].receipt.msg
           kind == handling[h].receipt.kind
           news == News(kind, handling[h].seen)
           named == Identified(row[m], m)
<1>1. /\ handling[h] # NoWork /\ handling[h] \in Handling /\ m \in Msg /\ kind \in Kind /\ row[m].id
      /\ kind = "delivered" => meta[m] \in {"delivered", "read"}
      /\ kind = "read" => meta[m] = "read"
      /\ kind = "failed" => meta[m] = "failed"
  BY DEF ReceiptsInv, Apply, ReceiptsTypeOK, Receipt, Handling, TrueMail, Happened
<1>2. row[m] \in RowState
  BY <1>1 DEF ReceiptsInv, ReceiptsTypeOK
<1>3. /\ row' = [row EXCEPT ![m] = IF news THEN NewRow(named, kind) ELSE named]
      /\ failureTold' = [failureTold EXCEPT ![m] = IF news /\ kind = "failed" THEN @ + 1 ELSE @]
      /\ heard' = [heard EXCEPT ![m] = @ \cup {kind}]
      /\ mail' \subseteq mail
      /\ handling' = [handling EXCEPT ![h] = NoWork]
      /\ meta' = meta /\ raced' = raced
  BY DEF Apply
<1>4. news => kind \in {"delivered", "read", "failed"}
  BY DEF News
<1> HIDE DEF m, kind, news
<1>5. row'[m] = (IF news THEN NewRow(named, kind) ELSE named) /\ \A q \in Msg : q # m => row'[q] = row[q]
  BY <1>1, <1>3 DEF ReceiptsInv, ReceiptsTypeOK
<1>6. /\ row'[m] \in RowState /\ row'[m].id
      /\ \/ /\ kind \in {"delivered", "read", "failed"} /\ row'[m].status = kind
            /\ kind \in {"delivered", "read"} => row'[m].deliveredAt
            /\ kind = "read" => row'[m].readAt
         \/ /\ row'[m].status = row[m].status
            /\ row'[m].deliveredAt = row[m].deliveredAt /\ row'[m].readAt = row[m].readAt
  BY <1>1, <1>2, <1>4, <1>5, AppliedRow, IdentifiedRow
<1>7. ReceiptsTypeOK'
  <2>1. row' \in [Msg -> RowState]
    BY <1>1, <1>2, <1>3, AppliedRow, IdentifiedRow DEF ReceiptsInv, ReceiptsTypeOK
  <2>2. failureTold' \in [Msg -> Nat]
    BY <1>1, <1>3 DEF ReceiptsInv, ReceiptsTypeOK
  <2>3. heard' \in [Msg -> SUBSET Kind] /\ mail' \subseteq Receipt /\ handling' \in [Request -> Handling \cup {NoWork}]
    BY <1>1, <1>3 DEF ReceiptsInv, ReceiptsTypeOK
  <2>4. \A q \in Msg : /\ row'[q].status = "sending" => ~row'[q].id
                       /\ row'[q].status \in {"delivered", "read"} => row'[q].id
    BY <1>1, <1>5, <1>6 DEF ReceiptsInv, ReceiptsTypeOK
  <2> QED
    BY <1>3, <2>1, <2>2, <2>3, <2>4 DEF ReceiptsInv, ReceiptsTypeOK
<1>8. ShowsWhatHappened'
  BY <1>1, <1>3, <1>5, <1>6 DEF ReceiptsInv, ShowsWhatHappened, ReceiptsTypeOK
<1>9. TrueMail'
  BY <1>1, <1>3, <1>5, <1>6 DEF ReceiptsInv, TrueMail, Happened, ReceiptsTypeOK, Handling, Receipt
<1> QED
  BY <1>7, <1>8, <1>9 DEF ReceiptsInv

\* The worker's own writes, and the steps that write nothing.
LEMMA OtherSteps ==
    ASSUME ReceiptsInv,
           \/ \E m \in Msg : LoseAnswer(m)
           \/ \E m \in Msg, withId \in BOOLEAN : LearnAnswer(m, withId)
           \/ \E h \in Request : Fail(h)
           \/ \E h \in Request, receipt \in mail : Read(h, receipt) \/ Drop(h, receipt)
           \/ UNCHANGED receiptVars
    PROVE  ReceiptsInv'
<1>1. ASSUME NEW m \in Msg, LoseAnswer(m) PROVE ReceiptsInv'
  BY <1>1 DEF ReceiptsInv, LoseAnswer, ReceiptsTypeOK, RowState, Kind, ShowsWhatHappened, TrueMail, Happened, Handling, Receipt
<1>2. ASSUME NEW m \in Msg, NEW withId \in BOOLEAN, LearnAnswer(m, withId) PROVE ReceiptsInv'
  BY <1>2, SMTT(30) DEF ReceiptsInv, LearnAnswer, ReceiptsTypeOK, RowState, Kind, ShowsWhatHappened, TrueMail, Happened, Handling, Receipt
<1>3. ASSUME NEW h \in Request, Fail(h) PROVE ReceiptsInv'
  BY <1>3 DEF ReceiptsInv, Fail, ReceiptsTypeOK, ShowsWhatHappened, TrueMail, Happened
<1>4. ASSUME NEW h \in Request, NEW receipt \in mail, Read(h, receipt) PROVE ReceiptsInv'
  BY <1>4 DEF ReceiptsInv, Read, Overlap, ReceiptsTypeOK, ShowsWhatHappened, TrueMail, Happened, Handling, Receipt
<1>5. ASSUME NEW h \in Request, NEW receipt \in mail, Drop(h, receipt) PROVE ReceiptsInv'
  BY <1>5 DEF ReceiptsInv, Drop, ReceiptsTypeOK, ShowsWhatHappened, TrueMail, Happened
<1>6. ASSUME UNCHANGED receiptVars PROVE ReceiptsInv'
  BY <1>6 DEF ReceiptsInv, receiptVars, ReceiptsTypeOK, ShowsWhatHappened, TrueMail, Happened
<1> QED
  BY <1>1, <1>2, <1>3, <1>4, <1>5, <1>6

\* Before anything was accepted there is nothing to claim.
LEMMA ReceiptsInvInit == ReceiptsInit => ReceiptsInv
  BY DEF ReceiptsInit, ReceiptsInv, ReceiptsTypeOK, RowState, Kind, ShowsWhatHappened, TrueMail

\* No order, repetition or interleaving of receipts makes a row show more than
\* happened to its message (apply_status, for any number of requests at once).
THEOREM RowsNeverOverclaim == ReceiptsSpec => []ShowsWhatHappened
<1>1. ReceiptsInv /\ [ReceiptsNext]_receiptVars => ReceiptsInv'
  BY MetaStep, ApplyStep, OtherSteps DEF ReceiptsNext
<1>2. ReceiptsInv => ShowsWhatHappened
  BY DEF ReceiptsInv
<1> QED
  BY <1>1, <1>2, ReceiptsInvInit, PTL DEF ReceiptsSpec

-----------------------------------------------------------------------------
(***************************************************************************)
(* The order and the number of receipts.                                   *)
(***************************************************************************)

\* Unless two of its receipts were in hand at once, a request that has one in
\* hand saw the row as it still is; and no receipt touches a row without an id.
SeenIsTrue ==
    \A h \in Request : handling[h] # NoWork =>
        \/ handling[h].receipt.msg \in raced
        \/ /\ handling[h].seen = row[handling[h].receipt.msg]
           /\ \A g \in Request : handling[g] # NoWork /\ handling[g].receipt.msg = handling[h].receipt.msg => g = h

NothingHeard == \A m \in Msg : ~row[m].id => heard[m] = {} /\ failureTold[m] = 0 /\ ~row[m].userId

Follows == FollowsReceipts /\ SeenIsTrue /\ NothingHeard

\* What applying a receipt makes of the recipient's id.
LEMMA AppliedUser ==
    ASSUME NEW n \in RowState, NEW m, NEW kind \in Kind
    PROVE  /\ Identified(n, m).userId = (n.userId \/ m \in Named)
           /\ NewRow(Identified(n, m), kind).userId = (n.userId \/ m \in Named)
<1>1. Identified(n, m).userId = (n.userId \/ m \in Named)
  BY DEF Identified, RowState
<1>2. NewRow(Identified(n, m), kind).userId = Identified(n, m).userId
  BY DEF Identified, NewRow, RowState
<1> QED
  BY <1>1, <1>2

\* The furthest of what was heard, with one more receipt, of a message that does
\* not fail after all or arrive after failing.
LEMMA OneMoreHeard ==
    ASSUME NEW H \in SUBSET Kind, NEW kind \in Kind, NEW n, n.status = Furthest(H),
           kind \in {"delivered", "read"} => "failed" \notin H
    PROVE  /\ News(kind, n) => Furthest(H \cup {kind}) = kind
           /\ ~News(kind, n) => Furthest(H \cup {kind}) = Furthest(H)
           /\ News(kind, n) /\ kind = "failed" <=> kind = "failed" /\ "failed" \notin H
  BY DEF News, Rank, Furthest, Kind

\* The receipt in hand is applied to what was seen.
LEMMA ApplyFollows == ASSUME ReceiptsInv, Follows, NEW h \in Request, Apply(h) PROVE Follows'
<1> DEFINE m == handling[h].receipt.msg
           kind == handling[h].receipt.kind
           news == News(kind, handling[h].seen)
           named == Identified(row[m], m)
<1>1. /\ handling[h] # NoWork /\ handling[h] \in Handling /\ m \in Msg /\ kind \in Kind /\ row[m].id
      /\ kind = "delivered" => meta[m] \in {"delivered", "read"}
      /\ kind = "read" => meta[m] = "read"
  BY DEF ReceiptsInv, Apply, ReceiptsTypeOK, Receipt, Handling, TrueMail, Happened
<1>2. row[m] \in RowState /\ heard[m] \in SUBSET Kind /\ failureTold[m] \in Nat
  BY <1>1 DEF ReceiptsInv, ReceiptsTypeOK
<1>3. /\ row' = [row EXCEPT ![m] = IF news THEN NewRow(named, kind) ELSE named]
      /\ failureTold' = [failureTold EXCEPT ![m] = IF news /\ kind = "failed" THEN @ + 1 ELSE @]
      /\ heard' = [heard EXCEPT ![m] = @ \cup {kind}]
      /\ handling' = [handling EXCEPT ![h] = NoWork]
      /\ raced' = raced
  BY DEF Apply
<1>s. handling[h].seen = row[m] \/ m \in raced
  BY <1>1 DEF Follows, SeenIsTrue
<1>o. m \notin raced => \A g \in Request : handling[g] # NoWork /\ handling[g].receipt.msg = m => g = h
  BY <1>1 DEF Follows, SeenIsTrue
<1>n. news = News(kind, handling[h].seen)
  OBVIOUS
<1> HIDE DEF m, kind, news
<1>4. /\ row'[m] = (IF news THEN NewRow(named, kind) ELSE named)
      /\ failureTold'[m] = IF news /\ kind = "failed" THEN failureTold[m] + 1 ELSE failureTold[m]
      /\ heard'[m] = heard[m] \cup {kind}
      /\ \A q \in Msg : q # m => row'[q] = row[q] /\ failureTold'[q] = failureTold[q] /\ heard'[q] = heard[q]
  BY <1>1, <1>3 DEF ReceiptsInv, ReceiptsTypeOK
<1>5. row'[m].id /\ row'[m].status = (IF news THEN kind ELSE row[m].status)
      /\ row'[m].userId = (row[m].userId \/ m \in Named)
  BY <1>1, <1>2, <1>4, AppliedRow, IdentifiedRow, AppliedUser
<1>6. ASSUME m \notin raced
      PROVE  /\ row'[m].status = Furthest(heard'[m])
             /\ failureTold'[m] = IF "failed" \in heard'[m] THEN 1 ELSE 0
             /\ row'[m].userId = (m \in Named /\ heard'[m] # {})
  <2>1. /\ row[m].status = Furthest(heard[m])
        /\ failureTold[m] = IF "failed" \in heard[m] THEN 1 ELSE 0
        /\ row[m].userId = (m \in Named /\ heard[m] # {})
    BY <1>1, <1>6 DEF Follows, FollowsReceipts
  <2>2. "failed" \in heard[m] => meta[m] = "failed"
    BY <1>1, <2>1 DEF ReceiptsInv, ShowsWhatHappened, Furthest
  <2>3. news = News(kind, row[m])
    BY <1>s, <1>n, <1>6
  <2>4. /\ news => Furthest(heard'[m]) = kind
        /\ ~news => Furthest(heard'[m]) = Furthest(heard[m])
        /\ news /\ kind = "failed" <=> kind = "failed" /\ "failed" \notin heard[m]
    BY <1>1, <1>2, <1>4, <2>1, <2>2, <2>3, OneMoreHeard
  <2>5. row'[m].status = Furthest(heard'[m])
    BY <1>5, <2>1, <2>4
  <2>6. failureTold'[m] = IF "failed" \in heard'[m] THEN 1 ELSE 0
    BY <1>4, <2>1, <2>4
  <2>7. row'[m].userId = (m \in Named /\ heard'[m] # {})
    BY <1>4, <1>5, <2>1
  <2> QED
    BY <2>5, <2>6, <2>7
<1>7. FollowsReceipts'
  <2> SUFFICES ASSUME NEW q \in Msg \ raced', row'[q].id
               PROVE  /\ row'[q].status = Furthest(heard'[q])
                      /\ failureTold'[q] = IF "failed" \in heard'[q] THEN 1 ELSE 0
                      /\ row'[q].userId = (q \in Named /\ heard'[q] # {})
    BY DEF FollowsReceipts
  <2>1. CASE q = m
    BY <1>3, <1>6, <2>1
  <2>2. CASE q # m
    BY <1>3, <1>4, <2>2 DEF Follows, FollowsReceipts
  <2> QED
    BY <2>1, <2>2
<1>8. NothingHeard'
  BY <1>4, <1>5 DEF Follows, NothingHeard
<1>9. SeenIsTrue'
  <2> SUFFICES ASSUME NEW g \in Request, handling'[g] # NoWork, handling'[g].receipt.msg \notin raced
               PROVE  /\ handling'[g].seen = row'[handling'[g].receipt.msg]
                      /\ \A k \in Request : handling'[k] # NoWork /\ handling'[k].receipt.msg = handling'[g].receipt.msg => k = g
    BY <1>3 DEF SeenIsTrue
  <2>1. g # h /\ handling'[g] = handling[g] /\ handling[g].receipt.msg \in Msg
    BY <1>3 DEF ReceiptsInv, ReceiptsTypeOK, Handling, Receipt
  <2>2. handling[g].receipt.msg # m
    BY <1>o, <2>1
  <2>3. \A k \in Request : handling'[k] # NoWork => handling'[k] = handling[k]
    BY <1>3 DEF ReceiptsInv, ReceiptsTypeOK
  <2> QED
    BY <1>4, <2>1, <2>2, <2>3 DEF Follows, SeenIsTrue
<1> QED
  BY <1>7, <1>8, <1>9 DEF Follows

\* The worker's answer reaches only a row that no receipt has found yet.
LEMMA AnswerFollows ==
    ASSUME ReceiptsInv, Follows, NEW m \in Msg, LoseAnswer(m) \/ \E withId \in BOOLEAN : LearnAnswer(m, withId)
    PROVE  Follows'
<1>1. row[m] \in RowState /\ row[m].status = "sending" /\ ~row[m].id
  BY DEF LoseAnswer, LearnAnswer, ReceiptsInv, ReceiptsTypeOK
<1>2. PICK status \in {"sent", "failed"}, withId \in BOOLEAN :
          /\ status = "failed" => ~withId
          /\ row' = [row EXCEPT ![m] = [row[m] EXCEPT !.status = status, !.id = withId]]
          /\ UNCHANGED <<failureTold, meta, mail, handling, heard, raced>>
  <2>1. CASE LoseAnswer(m)
    <3>1. row' = [row EXCEPT ![m] = [row[m] EXCEPT !.status = "failed"]]
      BY <2>1 DEF LoseAnswer
    <3>2. [row[m] EXCEPT !.status = "failed"] = [row[m] EXCEPT !.status = "failed", !.id = FALSE]
      BY <1>1 DEF RowState
    <3> QED
      BY <2>1, <3>1, <3>2 DEF LoseAnswer
  <2>2. CASE \E withId \in BOOLEAN : LearnAnswer(m, withId)
    BY <2>2 DEF LearnAnswer
  <2> QED
    BY <2>1, <2>2
<1>3. /\ row'[m].status = status /\ row'[m].id = withId /\ row'[m].userId = row[m].userId
      /\ \A q \in Msg : q # m => row'[q] = row[q]
  BY <1>1, <1>2 DEF ReceiptsInv, ReceiptsTypeOK, RowState
<1>4. heard[m] = {} /\ failureTold[m] = 0 /\ ~row[m].userId
  BY <1>1 DEF Follows, NothingHeard
<1>5. FollowsReceipts'
  <2> SUFFICES ASSUME NEW q \in Msg \ raced', row'[q].id
               PROVE  /\ row'[q].status = Furthest(heard'[q])
                      /\ failureTold'[q] = IF "failed" \in heard'[q] THEN 1 ELSE 0
                      /\ row'[q].userId = (q \in Named /\ heard'[q] # {})
    BY DEF FollowsReceipts
  <2>1. CASE q = m
    <3>1. heard'[m] = {} /\ failureTold'[m] = 0 /\ row'[m].userId = FALSE
      BY <1>1, <1>2, <1>3, <1>4 DEF RowState
    <3>2. withId
      BY <1>3, <2>1
    <3>3. status = "sent"
      BY <1>2, <3>2
    <3> QED
      BY <1>3, <2>1, <3>1, <3>3 DEF Furthest
  <2>2. CASE q # m
    BY <1>2, <1>3, <2>2 DEF Follows, FollowsReceipts
  <2> QED
    BY <2>1, <2>2
<1>6. NothingHeard'
  BY <1>2, <1>3, <1>4 DEF Follows, NothingHeard
<1>7. SeenIsTrue'
  <2>1. \A h \in Request : handling[h] # NoWork =>
            handling[h].receipt.msg \in Msg /\ handling[h].receipt.msg # m
    BY <1>1 DEF ReceiptsInv, TrueMail, ReceiptsTypeOK, Handling, Receipt
  <2> QED
    BY <1>2, <1>3, <2>1 DEF Follows, SeenIsTrue
<1> QED
  BY <1>5, <1>6, <1>7 DEF Follows

\* A request that takes up a receipt sees the row; if another has one of the same
\* message in hand they race.
LEMMA ReadFollows == ASSUME ReceiptsInv, Follows, NEW h \in Request, NEW receipt \in mail, Read(h, receipt) PROVE Follows'
<1> DEFINE m == receipt.msg
           work == [receipt |-> receipt, seen |-> row[m]]
<1>1. m \in Msg
  BY DEF ReceiptsInv, ReceiptsTypeOK, Receipt
<1>2. /\ handling[h] = NoWork /\ handling' = [handling EXCEPT ![h] = work]
      /\ UNCHANGED <<row, failureTold, heard>>
      /\ raced \subseteq raced'
      /\ \A g \in Request : g # h /\ handling[g] # NoWork /\ handling[g].receipt.msg = m => m \in raced'
  BY DEF Read, Overlap
<1>3. handling'[h] = work /\ \A g \in Request : g # h => handling'[g] = handling[g]
  BY <1>2 DEF ReceiptsInv, ReceiptsTypeOK
<1>4. FollowsReceipts'
  BY <1>2 DEF Follows, FollowsReceipts
<1>5. NothingHeard'
  BY <1>2 DEF Follows, NothingHeard
<1>6. SeenIsTrue'
  <2> SUFFICES ASSUME NEW g \in Request, handling'[g] # NoWork, handling'[g].receipt.msg \notin raced'
               PROVE  /\ handling'[g].seen = row[handling'[g].receipt.msg]
                      /\ \A k \in Request : handling'[k] # NoWork /\ handling'[k].receipt.msg = handling'[g].receipt.msg => k = g
    BY <1>2 DEF SeenIsTrue
  <2>1. work.receipt.msg = m /\ work.seen = row[m]
    OBVIOUS
  <2> HIDE DEF work, m
  <2>2. CASE g = h
    BY <1>2, <1>3, <2>1, <2>2
  <2>3. CASE g # h
    BY <1>2, <1>3, <2>1, <2>3 DEF Follows, SeenIsTrue
  <2> QED
    BY <2>2, <2>3
<1> QED
  BY <1>4, <1>5, <1>6 DEF Follows

\* The steps that apply nothing.
LEMMA RestFollows ==
    ASSUME ReceiptsInv, Follows,
           \/ \E m \in Msg : MetaMoves(m)
           \/ \E h \in Request : Fail(h)
           \/ \E h \in Request, receipt \in mail : Drop(h, receipt)
           \/ UNCHANGED receiptVars
    PROVE  Follows'
<1>1. UNCHANGED <<row, failureTold, heard, raced>>
  BY DEF MetaMoves, Reach, Fail, Drop, receiptVars
<1>2. \A h \in Request : handling'[h] # NoWork => handling'[h] = handling[h]
  BY DEF MetaMoves, Reach, Fail, Drop, receiptVars, ReceiptsInv, ReceiptsTypeOK
<1>3. SeenIsTrue'
  BY <1>1, <1>2 DEF Follows, SeenIsTrue
<1> QED
  BY <1>1, <1>3 DEF Follows, FollowsReceipts, NothingHeard

\* A row shows the furthest that was heard of its message, whatever the order and
\* the number of its receipts, if they were handled one at a time (apply_status).
THEOREM RowsFollowReceipts == ReceiptsSpec => []FollowsReceipts
<1>1. ReceiptsInit => Follows
  BY DEF ReceiptsInit, Follows, FollowsReceipts, SeenIsTrue, NothingHeard
<1>2. ReceiptsInv /\ [ReceiptsNext]_receiptVars => ReceiptsInv'
  BY MetaStep, ApplyStep, OtherSteps DEF ReceiptsNext
<1>3. ReceiptsInv /\ Follows /\ [ReceiptsNext]_receiptVars => Follows'
  BY ApplyFollows, AnswerFollows, ReadFollows, RestFollows DEF ReceiptsNext
<1>4. Follows => FollowsReceipts
  BY DEF Follows
<1> QED
  BY <1>1, <1>2, <1>3, <1>4, ReceiptsInvInit, PTL DEF ReceiptsSpec

-----------------------------------------------------------------------------
(***************************************************************************)
(* The daily report.  What remembers a report is the notice that its pass  *)
(* has yet to commit; the pass is at one mobed after the other, so nobody  *)
(* comes up twice before that.                                             *)
(***************************************************************************)
\* Every variable the property depends on is what it should be.
ReportTypeOK ==
    /\ pass \in [Worker -> {Resting} \cup PassState]
    /\ notices \in [Mobed -> Nat] /\ got \in [Mobed -> Nat]
    /\ asking \subseteq Mobed /\ halted \in BOOLEAN
    /\ fails \in Nat /\ abreast \in Nat

AtWork(w) == pass[w] # Resting

Last(S, u) == u \in S /\ \A v \in S : v <= u

\* Whose notice is made comes before whoever is left; a message is for the last of
\* them.
InOrder == \A w \in Worker : AtWork(w) =>
    /\ \A u \in pass[w].made, v \in pass[w].left : u < v
    /\ pass[w].at = "post" => \E u \in Mobed : Last(pass[w].made, u)

\* The passes that made u a notice and have it to commit; and those of them that have
\* no message for u left to send.
Making(u) == {w \in Worker : AtWork(w) /\ u \in pass[w].made}
Waits(w, u) == pass[w].at = "post" /\ Last(pass[w].made, u)
Through(u) == {w \in Making(u) : ~Waits(w, u)}

\* A notice, made or committed, is one of a pass that had company; a message more than
\* the notices is of a pass that failed, or has yet to commit its notice.
Told(u) ==
    /\ notices[u] + Cardinality(Making(u)) <= abreast
    /\ got[u] <= notices[u] + Cardinality(Through(u)) + fails

ReportInv ==
    /\ ReportTypeOK /\ InOrder
    /\ Cardinality(Passing) <= abreast
    /\ \A u \in Mobed : Told(u)
-----------------------------------------------------------------------------
\* Whoever is first of those who are left is one of them, and the least.
LEMMA FirstIsFirst ==
    ASSUME NEW T, T \subseteq Mobed, T # {}
    PROVE  First(T) \in T /\ \A v \in T : First(T) <= v
<1>1. T \in SUBSET Nat
  BY ReportAssumption
<1>2. PICK m \in T : \A k \in T : m <= k
  BY <1>1, LeastNat
<1> QED
  BY <1>2, Zenon DEF First

\* A pass at work, and its parts.
LEMMA PassAtWork ==
    ASSUME ReportTypeOK, NEW w \in Worker, AtWork(w)
    PROVE  pass[w] \in PassState
BY DEF ReportTypeOK, AtWork

\* Steps in which no pass moves and nobody is told.
LEMMA NobodyTold ==
    ASSUME ReportInv, UNCHANGED <<notices, pass, got, abreast, fails>>,
           asking' \subseteq Mobed, halted' \in BOOLEAN
    PROVE  ReportInv'
BY DEF ReportInv, ReportTypeOK, InOrder, Told, Making, Through, Waits, Passing, AtWork

\* One pass moves: these sets change by that one at most.
LEMMA OnePass ==
    ASSUME NEW w \in Worker, \A v \in Worker : v # w => pass'[v] = pass[v], NEW u \in Mobed
    PROVE  /\ LET now == Cardinality(Making(u))
                  next == Cardinality(Making(u)')
              IN  /\ now \in Nat /\ next \in Nat
                  /\ (w \in Making(u) <=> w \in Making(u)') => next = now
                  /\ w \in Making(u) /\ w \notin Making(u)' => next = now - 1
           /\ LET now == Cardinality(Through(u))
                  next == Cardinality(Through(u)')
              IN  /\ now \in Nat /\ next \in Nat
                  /\ (w \in Through(u) <=> w \in Through(u)') => next = now
                  /\ w \notin Through(u) /\ w \in Through(u)' => next = now + 1
                  /\ w \in Through(u) /\ w \notin Through(u)' => next = now - 1
           /\ Making(u)' \ {w} = Making(u) \ {w}
<1>1. /\ Making(u) \in SUBSET Worker /\ Making(u)' \in SUBSET Worker /\ Making(u)' \ {w} = Making(u) \ {w}
      /\ Through(u) \in SUBSET Worker /\ Through(u)' \in SUBSET Worker /\ Through(u)' \ {w} = Through(u) \ {w}
  BY DEF Making, Through, Waits, AtWork
<1> HIDE DEF Making, Through
<1>2. /\ Cardinality(Making(u)) \in Nat /\ Cardinality(Making(u)') \in Nat
      /\ (w \in Making(u) <=> w \in Making(u)') => Cardinality(Making(u)') = Cardinality(Making(u))
      /\ w \in Making(u) /\ w \notin Making(u)' => Cardinality(Making(u)') = Cardinality(Making(u)) - 1
  BY <1>1, ReportAssumption, OneMoved
<1>3. /\ Cardinality(Through(u)) \in Nat /\ Cardinality(Through(u)') \in Nat
      /\ (w \in Through(u) <=> w \in Through(u)') => Cardinality(Through(u)') = Cardinality(Through(u))
      /\ w \notin Through(u) /\ w \in Through(u)' => Cardinality(Through(u)') = Cardinality(Through(u)) + 1
      /\ w \in Through(u) /\ w \notin Through(u)' => Cardinality(Through(u)') = Cardinality(Through(u)) - 1
  BY <1>1, ReportAssumption, OneMoved
<1> QED
  BY <1>1, <1>2, <1>3

\* So does the set of passes at work.
LEMMA OnePassing ==
    ASSUME NEW w \in Worker, \A v \in Worker : v # w => pass'[v] = pass[v]
    PROVE  /\ Cardinality(Passing) \in Nat /\ Cardinality(Passing') \in Nat
           /\ AtWork(w) \/ ~AtWork(w)' => Cardinality(Passing') <= Cardinality(Passing)
           /\ Cardinality(Passing') <= Cardinality(Passing) + 1
<1>1. /\ Passing \in SUBSET Worker /\ Passing' \in SUBSET Worker /\ Passing' \ {w} = Passing \ {w}
      /\ w \in Passing <=> AtWork(w)
      /\ w \in Passing' <=> AtWork(w)'
  BY DEF Passing, AtWork
<1> HIDE DEF Passing, AtWork
<1>2. /\ Cardinality(Passing) \in Nat /\ Cardinality(Passing') \in Nat
      /\ (w \in Passing <=> w \in Passing') => Cardinality(Passing') = Cardinality(Passing)
      /\ w \notin Passing /\ w \in Passing' => Cardinality(Passing') = Cardinality(Passing) + 1
      /\ w \in Passing /\ w \notin Passing' => Cardinality(Passing') = Cardinality(Passing) - 1
  BY <1>1, ReportAssumption, OneMoved
<1>3. Cardinality(Passing') <= Cardinality(Passing) + 1
  BY <1>2
<1>4. AtWork(w) \/ ~AtWork(w)' => Cardinality(Passing') <= Cardinality(Passing)
  BY <1>1, <1>2
<1> QED
  BY <1>2, <1>3, <1>4

\* Where a step changes nothing for a mobed.
LEMMA AsBefore ==
    ASSUME ReportInv, NEW w \in Worker, \A v \in Worker : v # w => pass'[v] = pass[v], NEW u \in Mobed,
           w \in Making(u) <=> w \in Making(u)', w \in Through(u) <=> w \in Through(u)',
           notices'[u] = notices[u], got'[u] = got[u], fails' = fails, abreast' \in Nat, abreast <= abreast'
    PROVE  Told(u)'
<1>1. /\ Cardinality(Making(u)) \in Nat /\ Cardinality(Making(u)') = Cardinality(Making(u))
      /\ Cardinality(Through(u)') = Cardinality(Through(u))
  BY OnePass
<1>2. /\ notices[u] + Cardinality(Making(u)) <= abreast /\ notices[u] \in Nat /\ abreast \in Nat
      /\ got[u] <= notices[u] + Cardinality(Through(u)) + fails
  BY DEF ReportInv, ReportTypeOK, Told
<1>3. notices[u] + Cardinality(Making(u)) <= abreast'
  BY <1>1, <1>2
<1> QED
  BY <1>1, <1>2, <1>3 DEF Told

\* A pass begins, and is counted among those at work.
LEMMA StartKeeps == ASSUME ReportInv, NEW w \in Worker, StartPass(w) PROVE ReportInv'
<1> DEFINE new == [at |-> "next", left |-> asking, paused |-> halted, made |-> {}, sent |-> {}]
           n == Cardinality(Passing) + 1
<1>1. new \in PassState /\ new.made = {} /\ new.at = "next" /\ new # Resting
  BY DEF ReportInv, ReportTypeOK, PassState, Resting
<1>2. /\ pass' = [pass EXCEPT ![w] = new] /\ ~AtWork(w)
      /\ abreast' = IF n > abreast THEN n ELSE abreast
      /\ UNCHANGED <<notices, got, fails, asking, halted>>
  BY DEF StartPass, AtWork, dayVars, seenByAll
<1> HIDE DEF new
<1>3. pass'[w] = new /\ \A v \in Worker : v # w => pass'[v] = pass[v]
  BY <1>2 DEF ReportInv, ReportTypeOK
<1>4. /\ Cardinality(Passing) \in Nat /\ abreast' \in Nat /\ abreast <= abreast'
      /\ Cardinality(Passing') <= abreast'
  <2>1. Cardinality(Passing) \in Nat /\ Cardinality(Passing') \in Nat /\ Cardinality(Passing') <= n
    BY <1>3, OnePassing
  <2>2. abreast \in Nat
    BY DEF ReportInv, ReportTypeOK
  <2> QED
    BY <1>2, <2>1, <2>2
<1>5. ReportTypeOK'
  <2>1. pass' \in [Worker -> {Resting} \cup PassState]
    BY <1>1, <1>2 DEF ReportInv, ReportTypeOK
  <2> QED
    BY <1>2, <1>4, <2>1 DEF ReportInv, ReportTypeOK
<1>6. InOrder'
  BY <1>1, <1>3 DEF ReportInv, InOrder, AtWork
<1>7. ASSUME NEW u \in Mobed PROVE Told(u)'
  <2>1. w \notin Making(u) /\ w \notin Making(u)' /\ w \notin Through(u) /\ w \notin Through(u)'
    BY <1>1, <1>2, <1>3 DEF Making, Through
  <2> QED
    BY <1>2, <1>3, <1>4, <2>1, AsBefore
<1> QED
  BY <1>4, <1>5, <1>6, <1>7 DEF ReportInv

\* A pass goes on, and no notice is seen yet.
LEMMA PassMoves ==
    ASSUME ReportInv, NEW w \in Worker, AtWork(w), NEW p \in PassState, p # Resting,
           pass' = [pass EXCEPT ![w] = p],
           UNCHANGED <<notices, abreast, fails, asking, halted>>, got' \in [Mobed -> Nat],
           \A u \in p.made, v \in p.left : u < v,
           p.at = "post" => \E u \in Mobed : Last(p.made, u),
           \A u \in Mobed : Told(u)'
    PROVE  ReportInv'
<1>1. pass'[w] = p /\ \A v \in Worker : v # w => pass'[v] = pass[v]
  BY DEF ReportInv, ReportTypeOK
<1>2. ReportTypeOK'
  BY DEF ReportInv, ReportTypeOK
<1>3. InOrder'
  BY <1>1 DEF ReportInv, InOrder, AtWork
<1>4. Cardinality(Passing') <= abreast'
  <2>1. /\ Cardinality(Passing) \in Nat /\ Cardinality(Passing') \in Nat
        /\ Cardinality(Passing') <= Cardinality(Passing)
    BY <1>1, OnePassing
  <2>2. Cardinality(Passing) <= abreast /\ abreast \in Nat
    BY DEF ReportInv, ReportTypeOK
  <2> QED
    BY <2>1, <2>2
<1> QED
  BY <1>2, <1>3, <1>4 DEF ReportInv

\* The mobed a pass is at is one it has left, the first, and has no notice made.
LEMMA TurnIsLeft ==
    ASSUME ReportInv, NEW w \in Worker, NEW u \in Mobed, Turn(w, u)
    PROVE  /\ AtWork(w) /\ pass[w] \in PassState /\ pass[w].at = "next"
           /\ u \in pass[w].left /\ \A v \in pass[w].left : u <= v
           /\ u \notin pass[w].made /\ \A v \in pass[w].made : v < u
<1>1. AtWork(w)
  BY DEF Turn, AtWork, Resting
<1>2. pass[w] \in PassState
  BY <1>1, PassAtWork DEF ReportInv
<1>3. pass[w].left \subseteq Mobed
  BY <1>2 DEF PassState
<1>4. u \in pass[w].left /\ \A v \in pass[w].left : u <= v
  BY <1>3, FirstIsFirst DEF Turn
<1>5. \A v \in pass[w].made : v < u
  BY <1>1, <1>4 DEF ReportInv, InOrder
<1>6. u \notin pass[w].made
  BY <1>5, ReportAssumption
<1> QED
  BY <1>1, <1>2, <1>4, <1>5, <1>6 DEF Turn

\* Nobody to tell: one fewer is left.
LEMMA PassOverKeeps ==
    ASSUME ReportInv, NEW w \in Worker, NEW u \in Mobed, PassOver(w, u) PROVE ReportInv'
<1> DEFINE p == [pass[w] EXCEPT !.left = pass[w].left \ {u}]
<1>1. AtWork(w) /\ pass[w] \in PassState /\ pass[w].at = "next"
  BY TurnIsLeft DEF PassOver
<1>2. /\ pass' = [pass EXCEPT ![w] = p] /\ UNCHANGED <<notices, got, abreast, fails, asking, halted>>
  BY DEF PassOver, TheOthers, dayVars, seenByAll
<1>3. p \in PassState /\ p # Resting /\ p.left = pass[w].left \ {u} /\ p.made = pass[w].made /\ p.at = pass[w].at
  BY <1>1 DEF PassState, Resting
<1> HIDE DEF p
<1>4. /\ \A x \in p.made, v \in p.left : x < v
      /\ p.at # "post"
  BY <1>1, <1>3 DEF ReportInv, InOrder
<1>5. pass'[w] = p /\ \A v \in Worker : v # w => pass'[v] = pass[v]
  BY <1>2 DEF ReportInv, ReportTypeOK
<1>6. ASSUME NEW x \in Mobed PROVE Told(x)'
  <2>1. (w \in Making(x) <=> w \in Making(x)') /\ (w \in Through(x) <=> w \in Through(x)')
    BY <1>1, <1>3, <1>5 DEF Making, Through, Waits, AtWork
  <2>2. abreast' \in Nat /\ abreast <= abreast' /\ notices'[x] = notices[x] /\ got'[x] = got[x] /\ fails' = fails
    BY <1>2 DEF ReportInv, ReportTypeOK
  <2> QED
    BY <1>5, <2>1, <2>2, AsBefore
<1> QED
  BY <1>1, <1>2, <1>3, <1>4, <1>6, PassMoves DEF ReportInv, ReportTypeOK

\* A notice is made for somebody without one: one more of those at work has made it.
LEMMA LeaveKeeps ==
    ASSUME ReportInv, NEW w \in Worker, NEW u \in Mobed, LeaveNotice(w, u) PROVE ReportInv'
<1> DEFINE to == IF WhyNotWhatsApp(w, u) THEN "next" ELSE "post"
           p == [pass[w] EXCEPT !.made = @ \cup {u}, !.left = @ \ {u}, !.at = to]
<1>1. /\ AtWork(w) /\ pass[w] \in PassState
      /\ u \in pass[w].left /\ \A v \in pass[w].left : u <= v
      /\ u \notin pass[w].made /\ \A v \in pass[w].made : v < u
  BY TurnIsLeft DEF LeaveNotice
<1>2. /\ pass' = [pass EXCEPT ![w] = p] /\ UNCHANGED <<notices, got, abreast, fails, asking, halted>>
      /\ ~Already(u)
  BY DEF LeaveNotice, dayVars, seenByAll
<1>3. to \in {"next", "post"}
  OBVIOUS
<1> HIDE DEF to
<1>4. /\ p \in PassState /\ p # Resting
      /\ p.left = pass[w].left \ {u} /\ p.made = pass[w].made \cup {u} /\ p.at = to
  BY <1>1, <1>3 DEF PassState, Resting
<1> HIDE DEF p
<1>5. p.made \subseteq Nat /\ p.left \subseteq Nat
  BY <1>4, ReportAssumption DEF PassState
<1>6. \A x \in p.made, v \in p.left : x < v
  <2> TAKE x \in p.made, v \in p.left
  <2>1. CASE x = u
    <3>1. u <= v /\ u # v /\ u \in Nat /\ v \in Nat
      BY <1>1, <1>4, <1>5, <2>1
    <3> QED
      BY <2>1, <3>1
  <2>2. CASE x # u
    BY <1>1, <1>4, <2>2 DEF ReportInv, InOrder
  <2> QED
    BY <2>1, <2>2
<1>7. pass'[w] = p /\ \A v \in Worker : v # w => pass'[v] = pass[v]
  BY <1>2 DEF ReportInv, ReportTypeOK
<1>a. Last(p.made, u) /\ \A v \in Mobed : Last(p.made, v) => v = u
  <2>1. Last(p.made, u)
    BY <1>1, <1>4, <1>5 DEF Last
  <2>2. ASSUME NEW v \in Mobed, Last(p.made, v), v # u PROVE FALSE
    <3>1. v \in pass[w].made /\ u <= v /\ v < u
      BY <1>1, <1>4, <2>1, <2>2 DEF Last
    <3>2. u \in Nat /\ v \in Nat
      BY ReportAssumption
    <3> QED
      BY <3>1, <3>2
  <2> QED
    BY <2>1, <2>2
<1>8. ASSUME NEW x \in Mobed PROVE Told(x)'
  <2>1. abreast \in Nat /\ fails \in Nat /\ notices[x] \in Nat /\ got[x] \in Nat
    BY DEF ReportInv, ReportTypeOK
  <2>2. CASE x # u
    <3>1. (w \in Making(x) <=> w \in Making(x)')
      BY <1>1, <1>4, <1>7, <2>2 DEF Making, AtWork
    <3>2. (w \in Through(x) <=> w \in Through(x)')
      <4>1. ~Waits(w, x)
        BY TurnIsLeft DEF LeaveNotice, Waits
      <4>2. ~Waits(w, x)'
        BY <1>a, <1>7, <2>2 DEF Waits
      <4> QED
        BY <3>1, <4>1, <4>2 DEF Through
    <3>3. notices'[x] = notices[x] /\ got'[x] = got[x] /\ fails' = fails /\ abreast' \in Nat /\ abreast <= abreast'
      BY <1>2, <2>1
    <3> QED
      BY <1>7, <3>1, <3>2, <3>3, AsBefore
  <2>3. CASE x = u
    <3>1. w \notin Making(u) /\ w \notin Through(u) /\ w \in Passing
      BY <1>1 DEF Making, Through, Passing, AtWork
    <3>2. Making(u)' \in SUBSET Passing
      <4>1. Making(u)' \ {w} = Making(u) \ {w} /\ Making(u) \subseteq Passing
        BY <1>7, OnePass DEF Making, Passing, AtWork
      <4>2. Making(u)' \subseteq Making(u) \cup {w}
        BY <4>1
      <4> QED
        BY <3>1, <4>1, <4>2
    <3>3. Passing \in SUBSET Worker
      BY DEF Passing
    <3>4. /\ Cardinality(Passing) \in Nat /\ Cardinality(Making(u)') \in Nat
          /\ Cardinality(Making(u)') <= Cardinality(Passing)
      BY <3>2, <3>3, ReportAssumption, FewerOf
    <3>5. notices[u] = 0 /\ Cardinality(Passing) <= abreast
      BY <1>2, <2>1, <2>3 DEF ReportInv, Already
    <3>6. /\ Cardinality(Through(u)) \in Nat /\ Cardinality(Through(u)') \in Nat
          /\ Cardinality(Through(u)) <= Cardinality(Through(u)')
      <4>1. /\ Cardinality(Through(u)) \in Nat /\ Cardinality(Through(u)') \in Nat
            /\ (w \in Through(u) <=> w \in Through(u)') => Cardinality(Through(u)') = Cardinality(Through(u))
            /\ w \notin Through(u) /\ w \in Through(u)' => Cardinality(Through(u)') = Cardinality(Through(u)) + 1
        BY <1>7, OnePass
      <4> QED
        BY <3>1, <4>1
    <3>7. got[u] <= notices[u] + Cardinality(Through(u)) + fails
      BY DEF ReportInv, Told
    <3>8. /\ notices[u] + Cardinality(Making(u)') <= abreast
          /\ got[u] <= notices[u] + Cardinality(Through(u)') + fails
      BY <2>1, <2>3, <3>4, <3>5, <3>6, <3>7
    <3> QED
      BY <1>2, <2>3, <3>8 DEF Told
  <2> QED
    BY <2>2, <2>3
<1> QED
  BY <1>1, <1>2, <1>4, <1>6, <1>8, <1>a, PassMoves DEF ReportInv, ReportTypeOK

\* The message goes to the one whose notice was made last, and waits for no more.
LEMMA SendKeeps == ASSUME ReportInv, NEW w \in Worker, SendWhatsApp(w) PROVE ReportInv'
<1>1. PICK accepted \in BOOLEAN, answered \in BOOLEAN :
         /\ got' = IF accepted THEN [got EXCEPT ![Latest(w)] = @ + 1] ELSE got
         /\ pass' = [pass EXCEPT ![w] = [pass[w] EXCEPT !.at = "next",
                        !.sent = IF accepted /\ answered THEN @ \cup {Latest(w)} ELSE @]]
  BY DEF SendWhatsApp
<1> DEFINE out == IF accepted /\ answered THEN pass[w].sent \cup {Latest(w)} ELSE pass[w].sent
           p == [pass[w] EXCEPT !.at = "next", !.sent = out]
<1>2. AtWork(w) /\ pass[w] \in PassState /\ pass[w].at = "post"
  BY PassAtWork DEF SendWhatsApp, AtWork, Resting, ReportInv
<1>3. Last(pass[w].made, Latest(w))
  <2>1. PICK u \in Mobed : Last(pass[w].made, u)
    BY <1>2 DEF ReportInv, InOrder
  <2> QED
    BY <2>1, Zenon DEF Last, Latest
<1>4. PICK last \in Mobed : last = Latest(w) /\ Last(pass[w].made, last)
  BY <1>2, <1>3 DEF Last, PassState
<1>5. p \in PassState /\ p # Resting /\ p.left = pass[w].left /\ p.made = pass[w].made /\ p.at = "next"
  <2>1. out \in SUBSET Mobed
    BY <1>2, <1>4 DEF PassState
  <2> HIDE DEF out
  <2> QED
    BY <1>2, <2>1 DEF PassState, Resting
<1>6. pass' = [pass EXCEPT ![w] = p]
  BY <1>1
<1> HIDE DEF p
<1>7. /\ got' \in [Mobed -> Nat]
      /\ \A u \in Mobed : got'[u] = got[u] \/ (u = last /\ got'[u] = got[u] + 1)
  BY <1>1, <1>4 DEF ReportInv, ReportTypeOK
<1>8. UNCHANGED <<notices, abreast, fails, asking, halted>>
  BY DEF SendWhatsApp, dayVars, seenByAll
<1>9. pass'[w] = p /\ \A v \in Worker : v # w => pass'[v] = pass[v]
  BY <1>6 DEF ReportInv, ReportTypeOK
<1>10. ASSUME NEW u \in Mobed PROVE Told(u)'
  <2>1. abreast \in Nat /\ fails \in Nat /\ notices[u] \in Nat /\ got[u] \in Nat
    BY DEF ReportInv, ReportTypeOK
  <2>2. w \in Making(u) <=> w \in Making(u)'
    BY <1>2, <1>5, <1>9 DEF Making, AtWork
  <2>3. w \in Through(u)' <=> w \in Making(u)
    BY <1>5, <1>9, <2>2 DEF Through, Waits
  <2>4. CASE u # last
    <3>1. ~Waits(w, u)
      <4>1. ASSUME Last(pass[w].made, u) PROVE FALSE
        <5>1. u <= last /\ last <= u
          BY <1>4, <4>1 DEF Last
        <5>2. u \in Nat /\ last \in Nat
          BY <1>4, ReportAssumption
        <5> QED
          BY <2>4, <5>1, <5>2
      <4> QED
        BY <4>1 DEF Waits
    <3>2. w \in Through(u) <=> w \in Through(u)'
      BY <2>3, <3>1 DEF Through
    <3>3. notices'[u] = notices[u] /\ got'[u] = got[u] /\ fails' = fails /\ abreast' \in Nat /\ abreast <= abreast'
      BY <1>7, <1>8, <2>1, <2>4
    <3> QED
      BY <1>9, <2>2, <3>2, <3>3, AsBefore
  <2>5. CASE u = last
    <3>1. w \in Making(u) /\ w \notin Through(u)
      BY <1>2, <1>4, <2>5 DEF Making, Through, Waits, Last
    <3>2. /\ Cardinality(Making(u)') = Cardinality(Making(u))
          /\ Cardinality(Through(u)) \in Nat /\ Cardinality(Through(u)') = Cardinality(Through(u)) + 1
      BY <1>9, <2>2, <2>3, <3>1, OnePass
    <3>3. /\ notices[u] + Cardinality(Making(u)) <= abreast
          /\ got[u] <= notices[u] + Cardinality(Through(u)) + fails
      BY DEF ReportInv, Told
    <3>4. got'[u] <= notices[u] + Cardinality(Through(u)') + fails
      BY <1>7, <2>1, <3>2, <3>3
    <3> QED
      BY <1>8, <3>2, <3>3, <3>4 DEF Told
  <2> QED
    BY <2>4, <2>5
<1>11. \A u \in p.made, v \in p.left : u < v
  BY <1>2, <1>5 DEF ReportInv, InOrder
<1> QED
  BY <1>2, <1>5, <1>6, <1>7, <1>8, <1>10, <1>11, PassMoves DEF ReportInv, ReportTypeOK

\* The notices are committed, and the pass has them to make no more.
LEMMA CommitKeeps == ASSUME ReportInv, NEW w \in Worker, CommitPass(w) PROVE ReportInv'
<1>1. AtWork(w) /\ pass[w] \in PassState
  BY PassAtWork DEF CommitPass, AtWork, Resting, ReportInv
<1>2. /\ pass' = [pass EXCEPT ![w] = Resting] /\ notices' = Added(notices, pass[w].made)
      /\ UNCHANGED <<got, abreast, fails, asking, halted>>
  BY DEF CommitPass, dayVars
<1>3. pass'[w] = Resting /\ \A v \in Worker : v # w => pass'[v] = pass[v]
  BY <1>2 DEF ReportInv, ReportTypeOK
<1>4. /\ notices' \in [Mobed -> Nat]
      /\ \A u \in Mobed : notices'[u] = IF u \in pass[w].made THEN notices[u] + 1 ELSE notices[u]
  BY <1>2 DEF Added, ReportInv, ReportTypeOK
<1>5. ReportTypeOK'
  BY <1>2, <1>4 DEF ReportInv, ReportTypeOK
<1>6. InOrder'
  BY <1>3 DEF ReportInv, InOrder, AtWork
<1>7. ~AtWork(w)' /\ pass[w].at = "next"
  BY <1>3 DEF AtWork, CommitPass
<1>8. ASSUME NEW u \in Mobed PROVE Told(u)'
  <2>1. abreast \in Nat /\ fails \in Nat /\ notices[u] \in Nat /\ got[u] \in Nat
    BY DEF ReportInv, ReportTypeOK
  <2>2. w \notin Making(u)' /\ w \notin Through(u)'
    BY <1>7 DEF Making, Through
  <2>3. CASE u \in pass[w].made
    <3>1. w \in Making(u) /\ w \in Through(u)
      BY <1>1, <1>7, <2>3 DEF Making, Through, Waits
    <3>2. /\ Cardinality(Making(u)) \in Nat /\ Cardinality(Making(u)') = Cardinality(Making(u)) - 1
          /\ Cardinality(Through(u)) \in Nat /\ Cardinality(Through(u)') = Cardinality(Through(u)) - 1
      BY <1>3, <2>2, <3>1, OnePass
    <3>3. /\ notices[u] + Cardinality(Making(u)) <= abreast
          /\ got[u] <= notices[u] + Cardinality(Through(u)) + fails
      BY DEF ReportInv, Told
    <3>4. /\ notices'[u] + Cardinality(Making(u)') <= abreast
          /\ got[u] <= notices'[u] + Cardinality(Through(u)') + fails
      BY <1>4, <2>1, <2>3, <3>2, <3>3
    <3> QED
      BY <1>2, <3>4 DEF Told
  <2>4. CASE u \notin pass[w].made
    <3>1. w \notin Making(u) /\ w \notin Through(u)
      BY <2>4 DEF Making, Through
    <3>2. notices'[u] = notices[u] /\ got'[u] = got[u] /\ fails' = fails /\ abreast' \in Nat /\ abreast <= abreast'
      BY <1>2, <1>4, <2>1, <2>4
    <3> QED
      BY <1>3, <2>2, <3>1, <3>2, AsBefore
  <2> QED
    BY <2>3, <2>4
<1>9. Cardinality(Passing') <= abreast'
  <2>1. /\ Cardinality(Passing) \in Nat /\ Cardinality(Passing') \in Nat
        /\ Cardinality(Passing') <= Cardinality(Passing)
    BY <1>3, <1>7, OnePassing
  <2> QED
    BY <1>2, <2>1 DEF ReportInv, ReportTypeOK
<1> QED
  BY <1>5, <1>6, <1>8, <1>9 DEF ReportInv

\* A pass fails: a message of each mobed may have no notice.
LEMMA FailKeeps == ASSUME ReportInv, NEW w \in Worker, PassFails(w) PROVE ReportInv'
<1>1. /\ pass' = [pass EXCEPT ![w] = Resting] /\ fails' = fails + 1
      /\ UNCHANGED <<notices, got, abreast, asking, halted>>
  BY DEF PassFails, dayVars, seenByAll
<1>2. pass'[w] = Resting /\ \A v \in Worker : v # w => pass'[v] = pass[v]
  BY <1>1 DEF ReportInv, ReportTypeOK
<1>3. ReportTypeOK'
  BY <1>1 DEF ReportInv, ReportTypeOK
<1>4. InOrder' /\ ~AtWork(w)'
  BY <1>2 DEF ReportInv, InOrder, AtWork
<1>5. ASSUME NEW u \in Mobed PROVE Told(u)'
  <2>1. abreast \in Nat /\ fails \in Nat /\ notices[u] \in Nat /\ got[u] \in Nat
    BY DEF ReportInv, ReportTypeOK
  <2>2. w \notin Making(u)' /\ w \notin Through(u)'
    BY <1>4 DEF Making, Through
  <2>3. /\ Cardinality(Making(u)) \in Nat /\ Cardinality(Making(u)') \in Nat
        /\ Cardinality(Making(u)') <= Cardinality(Making(u))
        /\ Cardinality(Through(u)) \in Nat /\ Cardinality(Through(u)') \in Nat
        /\ Cardinality(Through(u)) <= Cardinality(Through(u)') + 1
    BY <1>2, <2>2, OnePass
  <2>4. /\ notices[u] + Cardinality(Making(u)) <= abreast
        /\ got[u] <= notices[u] + Cardinality(Through(u)) + fails
    BY DEF ReportInv, Told
  <2>5. /\ notices[u] + Cardinality(Making(u)') <= abreast
        /\ got[u] <= notices[u] + Cardinality(Through(u)') + (fails + 1)
    BY <2>1, <2>3, <2>4
  <2> QED
    BY <1>1, <2>5 DEF Told
<1>6. Cardinality(Passing') <= abreast'
  <2>1. /\ Cardinality(Passing) \in Nat /\ Cardinality(Passing') \in Nat
        /\ Cardinality(Passing') <= Cardinality(Passing)
    BY <1>2, <1>4, OnePassing
  <2> QED
    BY <1>1, <2>1 DEF ReportInv, ReportTypeOK
<1> QED
  BY <1>3, <1>4, <1>5, <1>6 DEF ReportInv

\* Before the evening nobody was told of anything.
LEMMA ReportStart == ReportInit => ReportInv
<1> SUFFICES ASSUME ReportInit PROVE ReportInv
  OBVIOUS
<1>1. /\ \A w \in Worker : pass[w] = Resting
      /\ \A u \in Mobed : notices[u] = 0 /\ got[u] = 0
  BY DEF ReportInit
<1>2. ReportTypeOK
  BY DEF ReportInit, ReportTypeOK
<1>3. Passing = {} /\ \A u \in Mobed : Making(u) = {} /\ Through(u) = {}
  BY <1>1 DEF Passing, Making, Through, AtWork
<1>4. abreast = 0 /\ fails = 0 /\ Cardinality({}) = 0
  BY FS_EmptySet DEF ReportInit
<1>5. \A u \in Mobed : Told(u)
  BY <1>1, <1>3, <1>4 DEF Told
<1> QED
  BY <1>1, <1>2, <1>3, <1>4, <1>5 DEF ReportInv, InOrder, AtWork

\* Every step.
LEMMA ReportKept == ReportInv /\ [ReportNext]_reportVars => ReportInv'
<1> SUFFICES ASSUME ReportInv, [ReportNext]_reportVars PROVE ReportInv'
  OBVIOUS
<1>t. asking \subseteq Mobed /\ halted \in BOOLEAN
  BY DEF ReportInv, ReportTypeOK
<1>1. CASE UNCHANGED reportVars
  BY <1>t, <1>1, NobodyTold DEF reportVars, dayVars, seenByAll
<1>2. ASSUME NEW w \in Worker, StartPass(w) \/ Step(w) \/ PassFails(w) PROVE ReportInv'
  BY <1>2, StartKeeps, SendKeeps, CommitKeeps, PassOverKeeps, LeaveKeeps, FailKeeps DEF Step
<1>3. ASSUME NEW t \in Thing, NEW S \in SUBSET Mobed, TakeOnOrCancel(t, S) PROVE ReportInv'
  BY <1>t, <1>3, NobodyTold DEF TakeOnOrCancel, Change, seenByAll
<1>4. ASSUME NEW u \in Mobed, PutDailyReport(u) PROVE ReportInv'
  <2>1. asking' = (asking \ {u}) \cup ({u} \ asking) /\ UNCHANGED <<halted, notices, pass, got, abreast, fails>>
    BY <1>4 DEF PutDailyReport, Change, seenByAll
  <2>2. asking' \subseteq Mobed
    BY <1>t, <2>1
  <2> QED
    BY <1>t, <2>1, <2>2, NobodyTold
<1>5. CASE FlipSwitch
  BY <1>t, <1>5, NobodyTold DEF FlipSwitch, Change, seenByAll
<1>6. CASE CutOff
  BY <1>t, <1>6, NobodyTold DEF CutOff, dayVars, seenByAll
<1> QED
  BY <1>1, <1>2, <1>3, <1>4, <1>5, <1>6 DEF ReportNext

\* A mobed finds tomorrow's list in the app no more often than passes were at work at
\* once, is sent it once more at most for each that failed, and between passes has it on
\* WhatsApp alone only from those, whatever changes meanwhile (send_daily_reports).
THEOREM ReportedOnceAlways == ReportSpec => []ReportedOnce
<1>1. ASSUME ReportInv PROVE ReportedOnce
  <2>1. ASSUME NEW u \in Mobed
        PROVE  notices[u] <= abreast /\ got[u] <= abreast + fails
    <3>1. abreast \in Nat /\ fails \in Nat /\ notices[u] \in Nat /\ got[u] \in Nat
      BY <1>1 DEF ReportInv, ReportTypeOK
    <3>2. Making(u) \in SUBSET Worker /\ Through(u) \in SUBSET Making(u)
      BY DEF Making, Through
    <3>3. /\ Cardinality(Making(u)) \in Nat /\ Cardinality(Through(u)) \in Nat
          /\ Cardinality(Through(u)) <= Cardinality(Making(u))
      BY <3>2, ReportAssumption, FewerOf
    <3>4. /\ notices[u] + Cardinality(Making(u)) <= abreast
          /\ got[u] <= notices[u] + Cardinality(Through(u)) + fails
      BY <1>1 DEF ReportInv, Told
    <3> QED
      BY <3>1, <3>3, <3>4
  <2>2. ASSUME \A w \in Worker : pass[w] = Resting, NEW u \in Mobed
        PROVE  got[u] <= notices[u] + fails
    <3>1. Through(u) = {} /\ Cardinality({}) = 0
      BY <2>2, FS_EmptySet DEF Through, Making, AtWork
    <3>2. got[u] <= notices[u] + Cardinality(Through(u)) + fails /\ notices[u] \in Nat /\ fails \in Nat
      BY <1>1 DEF ReportInv, ReportTypeOK, Told
    <3> QED
      BY <3>1, <3>2
  <2> QED
    BY <2>1, <2>2 DEF ReportedOnce
<1> QED
  BY <1>1, ReportStart, ReportKept, PTL DEF ReportSpec
=============================================================================
