------------------------------ MODULE Sessions ------------------------------
(***************************************************************************)
(* A mobed's signed-in devices: sessions, the generations of their refresh *)
(* tokens, and the tokens from before sessions existed (mobed_auth).       *)
(*                                                                         *)
(* A refresh spends a token and hands out the next one.  The answer can be *)
(* lost, a second tab can send the same token, and refreshes of one        *)
(* session are taken in turn, as each locks its row.  A token without a    *)
(* session is moved into a new one, without a lock.                        *)
(***************************************************************************)
EXTENDS Naturals, FiniteSets

CONSTANTS
    Device,     \* browsers of the mobed, each with one cookie
    MaxSession, \* bound: sessions started; their ids are serial
    Refresh,    \* refresh requests that can be on their way at once
    Older,      \* devices that still hold such a token
    MaxGen,     \* bound: refreshes of one session
    MaxActs     \* bound: sign-ins, sign-outs, copies and ends of sessions

ASSUME SessionsAssumption ==
    /\ Older \subseteq Device
    /\ MaxSession \in Nat /\ MaxGen \in Nat /\ MaxActs \in Nat

Session == 1 .. MaxSession
NoSession == 0    \* what a token from before sessions names

VARIABLES
    session,    \* [Session -> its row: state, generation, used within the grace]
    refusesOld, \* tokens_valid_after is set: no token without a session counts
    cookie,     \* [Device -> its refresh token]
    call,       \* [Refresh -> a refresh, where it stands, and the row as it read it]
    since,      \* observer: sessions a "sign out" of the others has not reached
    straddled,    \* observer: that sign-out came while such a token was being moved
    excused,    \* observer: sessions copied, signed out, or left behind for too long
    acts        \* count of the acts bounded by MaxActs

sessionVars == <<session, refusesOld>>
seen == <<since, straddled, excused>>
sVars == <<session, refusesOld, cookie, call, since, straddled, excused, acts>>

Token == [sid : Session \cup {NoSession}, gen : 0 .. MaxGen]
NoToken == [sid |-> NoSession, gen |-> MaxGen + 1]
Old == [sid |-> NoSession, gen |-> 0]
SessionState == [state : {"none", "live", "over", "ended"}, gen : 0 .. MaxGen, recent : BOOLEAN]
Idle == [at |-> "idle"]
CallState == [at : {"sent", "read", "answered"}, dev : Device, token : Token \cup {NoToken},
         gen : 0 .. MaxGen, answer : Token \cup {NoToken}]

SessionsInit ==
    /\ session = [s \in Session |-> [state |-> "none", gen |-> 0, recent |-> FALSE]]
    /\ refusesOld = FALSE
    /\ cookie = [d \in Device |-> IF d \in Older THEN Old ELSE NoToken]
    /\ call = [q \in Refresh |-> Idle]
    /\ since = Session /\ excused = {}
    /\ straddled = FALSE /\ acts = 0

-----------------------------------------------------------------------------
Live(s) == s \in Session /\ session[s].state = "live"
NextId(s) == session[s].state = "none" /\ \A r \in 1 .. (s - 1) : session[r].state # "none"
NewSession(s) == [session EXCEPT ![s] = [state |-> "live", gen |-> 0, recent |-> TRUE]]
InHand(q) == call[q].at = "read"

\* No refresh holds the lock of the session's row.
Unlocked(s) == \A q \in Refresh : ~(InHand(q) /\ call[q].token.sid = s)

\* A token of s older than gen is in a cookie or on its way.
Behind(s, gen) ==
    \/ \E d \in Device : cookie[d].sid = s /\ cookie[d].gen < gen
    \/ \E q \in Refresh : call[q].at \in {"sent", "read"} /\ call[q].token.sid = s /\ call[q].token.gen < gen
    \/ \E q \in Refresh : call[q].at = "answered" /\ call[q].answer.sid = s /\ call[q].answer.gen < gen

\* The end of a sign-in: a new session, and its cookie.
StartSession(d, s) ==
    /\ NextId(s)
    /\ session' = NewSession(s)
    /\ cookie' = [cookie EXCEPT ![d] = [sid |-> s, gen |-> 0]]
    /\ since' = since \cup {s}
    /\ UNCHANGED <<refusesOld, call, straddled, excused>>

\* The app refreshes; two tabs of one browser do so with the same cookie.
Send(d, q) ==
    /\ cookie[d] # NoToken
    /\ call[q] = Idle
    /\ call' = [call EXCEPT ![q] = [at |-> "sent", dev |-> d, token |-> cookie[d],
                                    gen |-> 0, answer |-> NoToken]]
    /\ UNCHANGED <<sessionVars, cookie, seen>>

\* An answer with a token is on its way; an error leaves the browser as it is.
Answer(q, token) ==
    call' = [call EXCEPT ![q] = [at |-> "answered", dev |-> @.dev, token |-> NoToken,
                                 gen |-> 0, answer |-> token]]
Refuse(q) == call' = [call EXCEPT ![q] = Idle]

\* The session the token names is locked and read, or found not to stand.
ReadSession(q) ==
    /\ call[q].at = "sent" /\ call[q].token.sid # NoSession
    /\ LET s == call[q].token.sid
       IN  /\ Unlocked(s)
           /\ IF Live(s)
                THEN call' = [call EXCEPT ![q].at = "read", ![q].gen = session[s].gen]
                ELSE Refuse(q)
    /\ UNCHANGED <<sessionVars, cookie, seen>>

\* Mutant: no retry is forgiven.
NeverGrace(s, gen, now) == FALSE
\* The token just replaced still counts, for a while.
InGrace(s, gen, now) == gen + 1 = now /\ session[s].recent

\* rotate: repeat the answer, end the session, or move it on.
Rotate(q) ==
    /\ InHand(q) /\ call[q].token.sid # NoSession
    /\ LET s == call[q].token.sid
           gen == call[q].token.gen
           now == call[q].gen
       IN  \/ /\ InGrace(s, gen, now)
              /\ Answer(q, [sid |-> s, gen |-> now])
              /\ UNCHANGED <<session, excused>>
           \/ /\ ~InGrace(s, gen, now) /\ gen # now
              /\ session' = [session EXCEPT ![s].state = "ended"]
              /\ Refuse(q)
              /\ UNCHANGED excused
           \/ /\ gen = now /\ now < MaxGen
              /\ session' = [session EXCEPT ![s].gen = now + 1, ![s].recent = TRUE]
              /\ Answer(q, [sid |-> s, gen |-> now + 1])
              /\ excused' = IF Behind(s, now) THEN excused \cup {s} ELSE excused
    /\ UNCHANGED <<refusesOld, cookie, since, straddled>>

\* _adopt_legacy: judged on the mobed's row as it is read, without a lock ...
JudgeOld(q) ==
    /\ call[q].at = "sent" /\ call[q].token = Old
    /\ IF refusesOld THEN Refuse(q) ELSE call' = [call EXCEPT ![q].at = "read"]
    /\ UNCHANGED <<sessionVars, cookie, since, straddled, excused>>

\* ... and moved into a session of its own.
AdoptOld(q, s) ==
    /\ InHand(q) /\ call[q].token = Old
    /\ NextId(s)
    /\ session' = NewSession(s)
    /\ refusesOld' = TRUE
    /\ Answer(q, [sid |-> s, gen |-> 0])
    /\ UNCHANGED <<cookie, since, straddled, excused>>

\* The browser takes the new cookie.
TakeCookie(q) ==
    /\ call[q].at = "answered"
    /\ cookie' = [cookie EXCEPT ![call[q].dev] = call[q].answer]
    /\ call' = [call EXCEPT ![q] = Idle]
    /\ UNCHANGED <<sessionVars, seen>>

\* The answer is lost on the way; what the server did stays done.
Lose(q) ==
    /\ call[q].at = "answered"
    /\ call' = [call EXCEPT ![q] = Idle]
    /\ UNCHANGED <<sessionVars, cookie, seen>>

-----------------------------------------------------------------------------
(***************************************************************************)
(* Time, signing out, and a browser's data copied to another device.       *)
(***************************************************************************)
GraceOver(s) ==
    /\ session[s].recent
    /\ session' = [session EXCEPT ![s].recent = FALSE]
    /\ excused' = IF Behind(s, session[s].gen) THEN excused \cup {s} ELSE excused
    /\ UNCHANGED <<refusesOld, cookie, call, since, straddled>>

\* jwt_session_max_days after its start a session is over, however much it is used.
PastItsEnd(s) ==
    /\ Live(s)
    /\ session' = [session EXCEPT ![s].state = "over"]
    /\ UNCHANGED <<refusesOld, cookie, call, seen>>

Revoked(ended) ==
    [s \in Session |-> IF s \in ended THEN [session[s] EXCEPT !.state = "ended"] ELSE session[s]]
Standing == {s \in Session : session[s].state \in {"live", "over"}}

\* Signing out ends the session the cookie names; an old token takes all like it along.
Logout(d) ==
    /\ cookie[d] # NoToken
    /\ cookie[d].sid # NoSession => Unlocked(cookie[d].sid)
    /\ session' = Revoked(Standing \cap {cookie[d].sid})
    /\ refusesOld' = (refusesOld \/ cookie[d] = Old)
    /\ cookie' = [cookie EXCEPT ![d] = NoToken]
    /\ excused' = excused \cup (Standing \cap {cookie[d].sid})
    /\ UNCHANGED <<call, since, straddled>>

\* Mutant: old tokens are forgotten.
OthersOnly(old) == old
AndOldTokens(old) == TRUE

\* end_all_sessions: all but one, or all.
EndAll(keep) ==
    /\ \A s \in Standing \ keep : Unlocked(s)
    /\ session' = Revoked(Standing \ keep)
    /\ refusesOld' = AndOldTokens(refusesOld)
    /\ since' = keep
    /\ straddled' = \E q \in Refresh : InHand(q) /\ call[q].token = Old
    /\ excused' = excused \cup (Standing \ keep)
    /\ UNCHANGED <<cookie, call>>

\* From one device, which must be signed in itself; or by an admin.
SignOutOthers(d) == Live(cookie[d].sid) /\ EndAll({cookie[d].sid})
SignOutEverywhere == Standing # {} /\ EndAll({})

\* A backup of one browser is restored on another device.
CopyCookie(d, e) ==
    /\ d # e /\ cookie[d].sid \in Session /\ cookie[e] = NoToken
    /\ cookie' = [cookie EXCEPT ![e] = cookie[d]]
    /\ excused' = excused \cup {cookie[d].sid}
    /\ UNCHANGED <<sessionVars, call, since, straddled>>

Refreshing(q) ==
    \/ \E d \in Device : Send(d, q)
    \/ ReadSession(q) \/ Rotate(q)
    \/ JudgeOld(q) \/ \E s \in Session : AdoptOld(q, s)
    \/ TakeCookie(q) \/ Lose(q)

Acting ==
    /\ acts < MaxActs /\ acts' = acts + 1
    /\ \/ \E d \in Device, s \in Session : StartSession(d, s)
       \/ \E s \in Session : PastItsEnd(s)
       \/ \E d \in Device : Logout(d) \/ SignOutOthers(d)
       \/ SignOutEverywhere
       \/ \E d, e \in Device : CopyCookie(d, e)

SessionsNext ==
    \/ UNCHANGED acts /\ \E q \in Refresh : Refreshing(q)
    \/ UNCHANGED acts /\ \E s \in Session : GraceOver(s)
    \/ Acting

SessionsSpec == SessionsInit /\ [][SessionsNext]_sVars

-----------------------------------------------------------------------------
(***************************************************************************)
(* Properties.                                                             *)
(***************************************************************************)

\* A session is ended only by a sign-out, or after its cookie was copied, or when a
\* token stayed behind past the grace or past two refreshes: a second tab, a retry
\* and a lost answer do not end it (ROTATE_GRACE).
EndedForAReason == \A s \in Session : session[s].state = "ended" => s \in excused

\* After a sign-out of the other devices only the device that asked, and sign-ins
\* since, are signed in, unless an old token was just being moved (end_all_sessions).
SignOutReaches == ~straddled => \A s \in Session : Live(s) => s \in since
=============================================================================
