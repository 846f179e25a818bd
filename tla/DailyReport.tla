---------------------------- MODULE DailyReport ----------------------------
(***************************************************************************)
(* The daily report (services/daily_report.py): on one evening, each mobed *)
(* who has asked for it is told what is on tomorrow, in the app and, where *)
(* that is on, by WhatsApp.                                                *)
(*                                                                         *)
(* A pass is one transaction over all of them: its notices and its rows    *)
(* are seen by nobody before it commits, its messages have gone the moment *)
(* they are posted.  What a message says is left out.                      *)
(***************************************************************************)
EXTENDS Naturals, FiniteSets

CONSTANTS
    Mobed,        \* by the number of their account: a pass takes them in this order
    Thing,        \* what may be on tomorrow: services, machis, memorial prayers
    OnWhatsApp,   \* mobeds with a fire temple, whose number may be sent to
    Worker,       \* reminder workers (two overlap while one replaces the other)
    MaxFails,     \* bound: passes that fail or die
    MaxChanges    \* bound: changes to the day, the switches and the reports asked for

ASSUME ReportAssumption == Mobed \subseteq Nat /\ IsFiniteSet(Worker)

VARIABLES
    down,       \* [Thing -> the mobeds down for it]
    asking,     \* mobeds with daily_report on
    halted,     \* the pause switch
    open,       \* from daily_report_hour to daily_report_cutoff_hour
    notices,    \* [Mobed -> reports of this evening in the app]
    logged,     \* [Mobed -> rows of this evening that say "sent"]
    pass,       \* [Worker -> its pass, and what it has yet to commit]
    got,        \* observer: [Mobed -> messages that WhatsApp accepted]
    abreast,    \* observer: the most passes at work at once so far
    fails,      \* passes that failed or died, bounded by MaxFails
    changes     \* bound

seenByAll == <<notices, logged>>
dayVars == <<down, asking, halted>>
reportVars == <<dayVars, open, seenByAll, pass, got, abreast, fails, changes>>

Resting == [at |-> "rest"]
PassState == [at : {"next", "post"}, left : SUBSET Mobed, paused : BOOLEAN,
              made : SUBSET Mobed, sent : SUBSET Mobed]

ReportInit ==
    /\ down \in [Thing -> {{}, Mobed}]
    /\ asking = Mobed
    /\ halted = FALSE /\ open = TRUE
    /\ notices = [u \in Mobed |-> 0] /\ logged = [u \in Mobed |-> 0]
    /\ pass = [w \in Worker |-> Resting]
    /\ got = [u \in Mobed |-> 0] /\ abreast = 0 /\ fails = 0 /\ changes = 0

-----------------------------------------------------------------------------
\* Services they have accepted, machis they made or were given, prayers of the
\* families they look after; what was cancelled has nobody down for it.
TomorrowsItems(u) == {t \in Thing : u \in down[t]}

\* Mutant: the report is had once WhatsApp's row says it was sent.
LoggedAsSent(u) == logged[u] > 0
Already(u) == notices[u] > 0

WhyNotWhatsApp(w, u) == pass[w].paused \/ u \notin OnWhatsApp

First(S) == CHOOSE u \in S : \A v \in S : u <= v
Turn(w, u) == pass[w].at = "next" /\ pass[w].left # {} /\ u = First(pass[w].left)

Passing == {w \in Worker : pass[w] # Resting}

\* Who asks, and whether sending is paused, is read once.
StartPass(w) ==
    /\ open /\ pass[w] = Resting
    /\ pass' = [pass EXCEPT ![w] = [at |-> "next", left |-> asking, paused |-> halted,
                                    made |-> {}, sent |-> {}]]
    /\ LET n == Cardinality(Passing) + 1 IN abreast' = IF n > abreast THEN n ELSE abreast
    /\ UNCHANGED <<dayVars, open, seenByAll, got, fails, changes>>

\* Mutant: the pass is over at the first mobed who needs no report.
NobodyElse(w, u) == {}
TheOthers(w, u) == pass[w].left \ {u}
\* Told already, or with nothing on tomorrow.
PassOver(w, u) ==
    /\ Turn(w, u)
    /\ Already(u) \/ TomorrowsItems(u) = {}
    /\ pass' = [pass EXCEPT ![w].left = TheOthers(w, u)]
    /\ UNCHANGED <<dayVars, open, seenByAll, got, abreast, fails, changes>>

\* The notice in the app, and then WhatsApp unless there is a reason not to.
LeaveNotice(w, u) ==
    /\ Turn(w, u)
    /\ ~Already(u) /\ TomorrowsItems(u) # {}
    /\ pass' = [pass EXCEPT ![w].made = @ \cup {u},
                            ![w].left = @ \ {u},
                            ![w].at = IF WhyNotWhatsApp(w, u) THEN "next" ELSE "post"]
    /\ UNCHANGED <<dayVars, open, seenByAll, got, abreast, fails, changes>>

\* The one whose notice was made last.
Latest(w) == CHOOSE u \in pass[w].made : \A v \in pass[w].made : v <= u
\* Accepted; refused; or no answer, which is a failure whether or not it went.
SendWhatsApp(w) ==
    /\ pass[w].at = "post"
    /\ \E accepted, answered \in BOOLEAN :
         /\ got' = IF accepted THEN [got EXCEPT ![Latest(w)] = @ + 1] ELSE got
         /\ pass' = [pass EXCEPT ![w].at = "next",
                        ![w].sent = IF accepted /\ answered THEN @ \cup {Latest(w)} ELSE @]
    /\ UNCHANGED <<dayVars, open, seenByAll, abreast, fails, changes>>

Added(count, S) == [u \in Mobed |-> IF u \in S THEN count[u] + 1 ELSE count[u]]
CommitPass(w) ==
    /\ pass[w].at = "next" /\ pass[w].left = {}
    /\ notices' = Added(notices, pass[w].made)
    /\ logged' = Added(logged, pass[w].sent)
    /\ pass' = [pass EXCEPT ![w] = Resting]
    /\ UNCHANGED <<dayVars, open, got, abreast, fails, changes>>

\* A step of the pass raises, or the process dies: all of it is rolled back.
PassFails(w) ==
    /\ pass[w] # Resting /\ fails < MaxFails
    /\ pass' = [pass EXCEPT ![w] = Resting]
    /\ fails' = fails + 1
    /\ UNCHANGED <<dayVars, open, seenByAll, got, abreast, changes>>

\* Meanwhile: something is taken on or cancelled, a mobed turns the report on or
\* off, an admin pauses or resumes.
Change(A) == changes < MaxChanges /\ changes' = changes + 1 /\ A
             /\ UNCHANGED <<open, seenByAll, pass, got, abreast, fails>>
TakeOnOrCancel(t, S) == Change(down' = [down EXCEPT ![t] = S] /\ UNCHANGED <<asking, halted>>)
PutDailyReport(u) ==
    Change(/\ asking' = (asking \ {u}) \cup ({u} \ asking)
           /\ UNCHANGED <<down, halted>>)
FlipSwitch == Change(halted' = ~halted /\ UNCHANGED <<down, asking>>)

\* A pass that is under way goes on to its end.
CutOff ==
    /\ open /\ open' = FALSE
    /\ UNCHANGED <<dayVars, seenByAll, pass, got, abreast, fails, changes>>

Step(w) == SendWhatsApp(w) \/ CommitPass(w) \/ \E u \in Mobed : PassOver(w, u) \/ LeaveNotice(w, u)
ReportNext ==
    \/ \E w \in Worker : StartPass(w) \/ Step(w) \/ PassFails(w)
    \/ \E t \in Thing, S \in SUBSET Mobed : TakeOnOrCancel(t, S)
    \/ \E u \in Mobed : PutDailyReport(u)
    \/ FlipSwitch \/ CutOff

ReportSpec == ReportInit /\ [][ReportNext]_reportVars
\* The loop starts a pass every minute, and a pass goes on.
ReportFairness == \A w \in Worker : WF_reportVars(StartPass(w)) /\ WF_reportVars(Step(w))
FairReportSpec == ReportSpec /\ ReportFairness
-----------------------------------------------------------------------------
\* A mobed finds the list in the app no more often than there were ever passes at work
\* at once - once, where they do not overlap - and is sent it on WhatsApp once more at
\* most for every pass that failed, whatever changes meanwhile.  Between passes nobody
\* has it on WhatsApp alone, but from a pass that failed ("the in-app one is there
\* either way").
ReportedOnce ==
    /\ \A u \in Mobed : notices[u] <= abreast /\ got[u] <= abreast + fails
    /\ (\A w \in Worker : pass[w] = Resting) => \A u \in Mobed : got[u] <= notices[u] + fails

\* A mobed who goes on asking and has something on tomorrow finds the report in the
\* app, unless the evening ends first: nothing of the other mobeds keeps it away.
ReportComes ==
    \A u \in Mobed :
        <>[](open /\ u \in asking /\ TomorrowsItems(u) # {}) => <>(notices[u] > 0)

\* daily_report.py: "so a mobed is never sent the same list twice" (refuted by a
\* run of its own).
NeverSentTwice == \A u \in Mobed : got[u] <= 1
=============================================================================
