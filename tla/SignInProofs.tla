--------------------------- MODULE SignInProofs ---------------------------
(***************************************************************************)
(* The three parts of signing in, each for any devices, phones and         *)
(* requests at work at once: what ends a session and whom a sign-out of    *)
(* the others reaches; whom an attempt by message signs in, and how often; *)
(* that a code signs in once, within its tries, and that a number is sent  *)
(* no more of them at a time than requests overlap.                        *)
(***************************************************************************)
EXTENDS Sessions, WaLogin, Otp, Counting

-----------------------------------------------------------------------------
(***************************************************************************)
(* Sessions: what ends one, and whom a sign-out reaches.                   *)
(***************************************************************************)
\* Every variable is what it should be.
SessionsTypeOK ==
    /\ session \in [Session -> SessionState] /\ refusesOld \in BOOLEAN
    /\ cookie \in [Device -> Token \cup {NoToken}]
    /\ call \in [Refresh -> {Idle} \cup CallState]
    /\ since \subseteq Session /\ excused \subseteq Session /\ straddled \in BOOLEAN

\* A token that is out is not ahead of its session.  Unless there is an excuse, it is
\* the session's own, or the one before while the grace lasts.
Close(t) == t.sid \in Session =>
    /\ t.gen <= session[t.sid].gen
    /\ \/ t.sid \in excused
       \/ t.gen = session[t.sid].gen
       \/ t.gen + 1 = session[t.sid].gen /\ session[t.sid].recent

\* Wherever it is: in a cookie, on its way to the server, or on its way back.
OnItsWay(c) == /\ c.at \in {"sent", "read"} => Close(c.token)
               /\ c.at = "answered" => Close(c.answer)

TokensClose == (\A d \in Device : Close(cookie[d])) /\ \A q \in Refresh : OnItsWay(call[q])

\* A refresh that has read its session holds the lock: it knows the generation still,
\* and nobody else has it in hand.
Locked(q) ==
    /\ call[q].token.sid \notin Session => call[q].token = Old
    /\ call[q].token.sid \in Session =>
         /\ call[q].gen = session[call[q].token.sid].gen
         /\ session[call[q].token.sid].state # "none"
         /\ \A o \in Refresh : InHand(o) /\ call[o].token.sid = call[q].token.sid => o = q

InTurn == \A q \in Refresh : InHand(q) => Locked(q)

\* Where no session has begun no token was issued.
NoneYet == \A s \in Session : session[s].state = "none" => session[s].gen = 0

SessionsInv == SessionsTypeOK /\ TokensClose /\ InTurn /\ NoneYet /\ EndedForAReason

\* A call that is not idle.
LEMMA Under ==
    ASSUME SessionsTypeOK, NEW q \in Refresh, call[q].at # "idle"
    PROVE  /\ call[q] \in CallState /\ call[q].dev \in Device
           /\ call[q].token \in Token \cup {NoToken} /\ call[q].answer \in Token \cup {NoToken}
           /\ call[q].gen \in 0 .. MaxGen
  BY DEF SessionsTypeOK, CallState, Idle

\* What a token names is a session or none.
LEMMA TokenNames ==
    ASSUME NEW t \in Token \cup {NoToken}
    PROVE  t.sid \in Session \cup {NoSession} /\ t.gen \in Nat
           /\ (t \in Token => t.gen \in 0 .. MaxGen) /\ (t.sid \in Session => t \in Token)
           /\ NoSession \notin Session
  BY SessionsAssumption DEF Token, NoToken, Session, NoSession

\* Tokens stay close while no session moves on and no grace ends.
LEMMA StaysClose ==
    ASSUME TokensClose, excused \subseteq excused',
           \A s \in Session : session'[s].gen = session[s].gen /\ (session[s].recent => session'[s].recent),
           \A d \in Device : cookie'[d] = cookie[d] \/ Close(cookie'[d]),
           \A q \in Refresh : call'[q] = call[q] \/ OnItsWay(call'[q])
    PROVE  TokensClose'
<1>1. ASSUME NEW t, Close(t) PROVE (t.sid \in Session =>
          /\ t.gen <= session'[t.sid].gen
          /\ \/ t.sid \in excused'
             \/ t.gen = session'[t.sid].gen
             \/ t.gen + 1 = session'[t.sid].gen /\ session'[t.sid].recent)
  BY <1>1 DEF Close
<1>2. \A d \in Device : Close(cookie'[d])
  BY DEF TokensClose
<1>3. \A q \in Refresh : OnItsWay(call'[q])
  BY DEF TokensClose
<1>4. \A d \in Device : Close(cookie[d])'
  BY <1>1, <1>2 DEF Close
<1>5. \A q \in Refresh : OnItsWay(call[q])'
  <2> SUFFICES ASSUME NEW q \in Refresh PROVE OnItsWay(call[q])'
    OBVIOUS
  <2>1. call'[q].at \in {"sent", "read"} => Close(call[q].token)'
    BY <1>1, <1>3 DEF OnItsWay, Close
  <2>2. call'[q].at = "answered" => Close(call[q].answer)'
    BY <1>1, <1>3 DEF OnItsWay, Close
  <2> QED
    BY <2>1, <2>2 DEF OnItsWay
<1> QED
  BY <1>4, <1>5 DEF TokensClose

\* The locks stay with who has them, while no session moves on.
LEMMA StaysInTurn ==
    ASSUME InTurn, \A s \in Session : /\ session'[s].gen = session[s].gen
                                      /\ session'[s].state = "none" => session[s].state = "none",
           \A q \in Refresh : InHand(q)' => call'[q] = call[q]
    PROVE  InTurn'
<1> SUFFICES ASSUME NEW q \in Refresh, InHand(q)' PROVE Locked(q)'
  BY DEF InTurn
<1>1. InHand(q) /\ call'[q] = call[q] /\ Locked(q)
  BY DEF InHand, InTurn
<1>2. \A o \in Refresh : InHand(o)' => InHand(o) /\ call'[o] = call[o]
  BY DEF InHand
<1> QED
  BY <1>1, <1>2 DEF Locked

\* A refresh moves on without touching a row.
LEMMA CallMoves ==
    ASSUME SessionsInv, NEW q \in Refresh, NEW c \in {Idle} \cup CallState,
           call' = [call EXCEPT ![q] = c], UNCHANGED <<session, refusesOld, since, straddled, excused>>,
           cookie' \in [Device -> Token \cup {NoToken}],
           \A d \in Device : cookie'[d] = cookie[d] \/ Close(cookie'[d]),
           OnItsWay(c),
           c.at = "read" =>
             /\ c.token.sid \notin Session => c.token = Old
             /\ c.token.sid \in Session => /\ c.gen = session[c.token.sid].gen
                                       /\ session[c.token.sid].state # "none" /\ Unlocked(c.token.sid)
    PROVE  SessionsInv'
<1>1. call'[q] = c /\ \A o \in Refresh : o # q => call'[o] = call[o]
  BY DEF SessionsInv, SessionsTypeOK
<1>2. SessionsTypeOK'
  BY DEF SessionsInv, SessionsTypeOK
<1>3. TokensClose'
  BY <1>1, StaysClose DEF SessionsInv
<1>4. InTurn'
  <2> SUFFICES ASSUME NEW o \in Refresh, InHand(o)' PROVE Locked(o)'
    BY DEF InTurn
  <2>1. CASE o = q
    BY <1>1, <2>1 DEF Locked, InHand, Unlocked
  <2>2. CASE o # q
    <3>1. InHand(o) /\ call'[o] = call[o] /\ Locked(o)
      BY <1>1, <2>2 DEF InHand, SessionsInv, InTurn
    <3> QED
      BY <1>1, <2>2, <3>1 DEF Locked, InHand, Unlocked
  <2> QED
    BY <2>1, <2>2
<1> QED
  BY <1>2, <1>3, <1>4 DEF SessionsInv, NoneYet, EndedForAReason

\* A session or a cookie changes, and no session moves on.
LEMMA RowChanges ==
    ASSUME SessionsInv, SessionsTypeOK', excused \subseteq excused',
           \A s \in Session : /\ session'[s].gen = session[s].gen /\ (session[s].recent => session'[s].recent)
                              /\ session'[s].state = "none" => session[s].state = "none"
                              /\ session'[s].state = "ended" => session[s].state = "ended" \/ s \in excused',
           \A d \in Device : cookie'[d] = cookie[d] \/ Close(cookie'[d]),
           \A q \in Refresh : call'[q] = call[q] \/ (call'[q].at # "read" /\ OnItsWay(call'[q]))
    PROVE  SessionsInv'
<1>1. TokensClose'
  BY StaysClose DEF SessionsInv
<1>2. InTurn'
  BY StaysInTurn DEF SessionsInv, InHand
<1>3. NoneYet' /\ EndedForAReason'
  BY DEF SessionsInv, NoneYet, EndedForAReason
<1> QED
  BY <1>1, <1>2, <1>3 DEF SessionsInv

\* Sending, reading, judging, and the answers that change no row.
LEMMA QuietCalls ==
    ASSUME SessionsInv, NEW q \in Refresh,
           (\E d \in Device : Send(d, q)) \/ ReadSession(q) \/ JudgeOld(q) \/ TakeCookie(q) \/ Lose(q)
    PROVE  SessionsInv'
<1> USE DEF SessionsInv
<1>a. Idle.at = "idle" /\ OnItsWay(Idle)
  BY DEF Idle, OnItsWay
<1>1. ASSUME NEW d \in Device, Send(d, q) PROVE SessionsInv'
  <2> DEFINE c == [at |-> "sent", dev |-> d, token |-> cookie[d], gen |-> 0, answer |-> NoToken]
  <2>1. c \in CallState /\ c.at = "sent" /\ c.token = cookie[d]
    <3>1. cookie[d] \in Token \cup {NoToken} /\ 0 \in 0 .. MaxGen
      BY SessionsAssumption DEF SessionsTypeOK
    <3> QED
      BY <3>1 DEF CallState
  <2>2. call' = [call EXCEPT ![q] = c] /\ UNCHANGED <<session, refusesOld, cookie, since, straddled, excused>>
    BY <1>1 DEF Send, sessionVars, seen
  <2> HIDE DEF c
  <2>3. OnItsWay(c)
    BY <2>1 DEF TokensClose, OnItsWay
  <2> QED
    BY <2>1, <2>2, <2>3, CallMoves DEF SessionsTypeOK
<1>2. ASSUME ReadSession(q) PROVE SessionsInv'
  <2> DEFINE s == call[q].token.sid
             c == [call[q] EXCEPT !.at = "read", !.gen = session[s].gen]
  <2>1. /\ call[q].at = "sent" /\ s # NoSession /\ Unlocked(s)
        /\ UNCHANGED <<session, refusesOld, cookie, since, straddled, excused>>
        /\ \/ call' = [call EXCEPT ![q] = Idle]
           \/ Live(s) /\ call' = [call EXCEPT ![q] = c]
    BY <1>2 DEF ReadSession, sessionVars, seen, Refuse, SessionsTypeOK
  <2>2. call[q] \in CallState /\ call[q].token \in Token \cup {NoToken}
    BY <2>1, Under
  <2>3. s \in Session
    BY <2>1, <2>2, TokenNames
  <2>4. c \in CallState /\ c.at = "read" /\ c.token = call[q].token /\ c.gen = session[s].gen
    <3>1. session[s].gen \in 0 .. MaxGen
      BY <2>3 DEF SessionsTypeOK, SessionState
    <3> QED
      BY <2>2, <3>1 DEF CallState
  <2>5. OnItsWay(c)
    BY <2>1, <2>4 DEF TokensClose, OnItsWay
  <2>6. s = call[q].token.sid
    OBVIOUS
  <2> HIDE DEF c, s
  <2> QED
    BY <1>a, <2>1, <2>3, <2>4, <2>5, <2>6, CallMoves DEF SessionsTypeOK, Live
<1>3. ASSUME JudgeOld(q) PROVE SessionsInv'
  <2> DEFINE c == [call[q] EXCEPT !.at = "read"]
  <2>1. /\ call[q].at = "sent" /\ call[q].token = Old
        /\ UNCHANGED <<session, refusesOld, cookie, since, straddled, excused>>
        /\ call' = [call EXCEPT ![q] = Idle] \/ call' = [call EXCEPT ![q] = c]
    BY <1>3 DEF JudgeOld, sessionVars, Refuse, SessionsTypeOK
  <2>2. call[q] \in CallState
    BY <2>1, Under
  <2>3. c \in CallState /\ c.at = "read" /\ c.token = Old
    BY <2>1, <2>2 DEF CallState
  <2>4. Old.sid = NoSession /\ NoSession \notin Session
    BY DEF Old, Session, NoSession
  <2> HIDE DEF c
  <2>5. OnItsWay(c)
    BY <2>3, <2>4 DEF OnItsWay, Close
  <2> QED
    BY <1>a, <2>1, <2>3, <2>4, <2>5, CallMoves DEF SessionsTypeOK
<1>4. ASSUME TakeCookie(q) \/ Lose(q) PROVE SessionsInv'
  <2>1. /\ call[q].at = "answered" /\ UNCHANGED <<session, refusesOld, since, straddled, excused>>
        /\ call' = [call EXCEPT ![q] = Idle]
        /\ cookie' = cookie \/ cookie' = [cookie EXCEPT ![call[q].dev] = call[q].answer]
    BY <1>4 DEF TakeCookie, Lose, sessionVars, seen
  <2>2. call[q].answer \in Token \cup {NoToken} /\ Close(call[q].answer)
    BY <2>1, Under DEF TokensClose, OnItsWay
  <2>3. cookie' \in [Device -> Token \cup {NoToken}] /\ \A d \in Device : cookie'[d] = cookie[d] \/ Close(cookie'[d])
    BY <2>1, <2>2 DEF SessionsTypeOK
  <2> QED
    BY <1>a, <2>1, <2>3, CallMoves
<1> QED
  BY <1>1, <1>2, <1>3, <1>4

\* rotate: the answer is repeated, the session ended or moved on.
LEMMA RotateKeeps == ASSUME SessionsInv, NEW q \in Refresh, Rotate(q) PROVE SessionsInv'
<1> DEFINE s == call[q].token.sid
           gen == call[q].token.gen
           now == call[q].gen
<1>1. /\ InHand(q) /\ call[q] \in CallState /\ call[q].token \in Token /\ s \in Session
      /\ call[q].dev \in Device /\ gen \in Nat
      /\ now = session[s].gen /\ now \in 0 .. MaxGen /\ session[s] \in SessionState /\ session[s].state # "none"
      /\ \A o \in Refresh : InHand(o) /\ call[o].token.sid = s => o = q
      /\ Close(call[q].token)
  <2>1. InHand(q) /\ s # NoSession /\ call[q].at = "read"
    BY DEF Rotate, InHand
  <2>2. call[q] \in CallState /\ call[q].token \in Token \cup {NoToken} /\ call[q].dev \in Device /\ now \in 0 .. MaxGen
    BY <2>1, Under DEF SessionsInv
  <2>3. s \in Session /\ call[q].token \in Token /\ gen \in Nat
    BY <2>1, <2>2, TokenNames
  <2>4. session[s] \in SessionState
    BY <2>3 DEF SessionsInv, SessionsTypeOK
  <2> QED
    BY <2>1, <2>2, <2>3, <2>4 DEF SessionsInv, InTurn, Locked, TokensClose, OnItsWay
<1>2. UNCHANGED <<refusesOld, cookie, since, straddled>>
  BY DEF Rotate
<1>i. Idle.at = "idle" /\ OnItsWay(Idle) /\ Idle \in {Idle} \cup CallState
  BY DEF Idle, OnItsWay
<1>t. ASSUME NEW token \in Token, Answer(q, token)
      PROVE  \E c \in CallState : c.at = "answered" /\ c.answer = token /\ call' = [call EXCEPT ![q] = c]
  <2> DEFINE c == [at |-> "answered", dev |-> call[q].dev, token |-> NoToken, gen |-> 0, answer |-> token]
  <2>1. 0 \in 0 .. MaxGen
    BY SessionsAssumption
  <2>2. c \in CallState /\ c.at = "answered" /\ c.answer = token
    BY <1>1, <2>1 DEF CallState
  <2>3. call' = [call EXCEPT ![q] = c]
    BY <1>t DEF Answer
  <2> HIDE DEF c
  <2> QED
    BY <2>2, <2>3
<1>3. CASE /\ InGrace(s, gen, now) /\ Answer(q, [sid |-> s, gen |-> now]) /\ UNCHANGED <<session, excused>>
  <2> DEFINE token == [sid |-> s, gen |-> now]
  <2>1. token \in Token /\ token.sid = s /\ token.gen = now
    BY <1>1 DEF Token
  <2>2. Answer(q, token)
    BY <1>3
  <2> HIDE DEF token
  <2>3. PICK c \in CallState : c.at = "answered" /\ c.answer = token /\ call' = [call EXCEPT ![q] = c]
    BY <1>t, <2>1, <2>2
  <2>4. OnItsWay(c)
    BY <1>1, <2>1, <2>3 DEF OnItsWay, Close
  <2> QED
    BY <1>2, <1>3, <2>3, <2>4, CallMoves DEF SessionsInv, SessionsTypeOK
<1>4. CASE /\ ~InGrace(s, gen, now) /\ gen # now /\ session' = [session EXCEPT ![s].state = "ended"]
           /\ Refuse(q) /\ UNCHANGED excused
  <2>1. s \in excused
    BY <1>1, <1>4 DEF Close, InGrace
  <2>2. /\ session'[s].state = "ended" /\ session'[s].gen = session[s].gen /\ session'[s].recent = session[s].recent
        /\ session'[s] \in SessionState /\ \A r \in Session : r # s => session'[r] = session[r]
    BY <1>1, <1>4 DEF SessionsInv, SessionsTypeOK, SessionState
  <2>3. session' \in [Session -> SessionState]
    BY <1>4, <2>2 DEF SessionsInv, SessionsTypeOK
  <2>4. call' = [call EXCEPT ![q] = Idle] /\ call' \in [Refresh -> {Idle} \cup CallState]
    BY <1>4 DEF Refuse, SessionsInv, SessionsTypeOK
  <2>5. SessionsTypeOK'
    BY <1>2, <1>4, <2>3, <2>4 DEF SessionsInv, SessionsTypeOK
  <2>6. \A o \in Refresh : call'[o] = call[o] \/ (call'[o].at # "read" /\ OnItsWay(call'[o]))
    BY <1>i, <2>4 DEF SessionsInv, SessionsTypeOK
  <2> QED
    BY <1>2, <1>4, <2>1, <2>2, <2>5, <2>6, RowChanges
<1>5. CASE /\ gen = now /\ now < MaxGen
           /\ session' = [session EXCEPT ![s].gen = now + 1, ![s].recent = TRUE]
           /\ Answer(q, [sid |-> s, gen |-> now + 1])
           /\ excused' = IF Behind(s, now) THEN excused \cup {s} ELSE excused
  <2> DEFINE token == [sid |-> s, gen |-> now + 1]
  <2>1. token \in Token /\ token.sid = s /\ token.gen = now + 1
    BY <1>1, <1>5, SessionsAssumption, SMTT(30) DEF Token
  <2>2. Answer(q, token)
    BY <1>5
  <2> HIDE DEF token
  <2>3. PICK c \in CallState : c.at = "answered" /\ c.answer = token /\ call' = [call EXCEPT ![q] = c]
    BY <1>t, <2>1, <2>2
  <2>4. call'[q] = c /\ \A o \in Refresh : o # q => call'[o] = call[o]
    BY <2>3 DEF SessionsInv, SessionsTypeOK
  <2>5. /\ session'[s].gen = now + 1 /\ session'[s].recent = TRUE /\ session'[s].state = session[s].state
        /\ session'[s] \in SessionState /\ \A r \in Session : r # s => session'[r] = session[r]
    <3>1. now + 1 \in 0 .. MaxGen
      BY <1>1, <1>5, SessionsAssumption, SMTT(30)
    <3>2. /\ session'[s] = [session[s] EXCEPT !.gen = now + 1, !.recent = TRUE]
          /\ \A r \in Session : r # s => session'[r] = session[r]
      BY <1>1, <1>5 DEF SessionsInv, SessionsTypeOK
    <3> HIDE DEF now
    <3> QED
      BY <1>1, <3>1, <3>2 DEF SessionState
  <2>6. SessionsTypeOK'
    <3>1. session' \in [Session -> SessionState]
      BY <1>5, <2>5 DEF SessionsInv, SessionsTypeOK
    <3>2. call' \in [Refresh -> {Idle} \cup CallState]
      BY <2>3 DEF SessionsInv, SessionsTypeOK
    <3>3. excused' \subseteq Session
      BY <1>1, <1>5 DEF SessionsInv, SessionsTypeOK
    <3> QED
      BY <1>2, <3>1, <3>2, <3>3 DEF SessionsInv, SessionsTypeOK
  <2>7. excused \subseteq excused' /\ (s \notin excused' => ~Behind(s, now))
    BY <1>5
  \* Whatever of s is out and not behind is the session's own, so from now the one before.
  <2>8. ASSUME NEW t, t.gen \in Nat, Close(t), t.sid = s /\ t.gen < now => s \in excused' PROVE Close(t)'
    <3>1. CASE t.sid = s
      <4>1. t.gen <= now /\ (s \in excused' \/ t.gen = now)
        BY <1>1, <2>8, <3>1 DEF Close
      <4>2. session'[t.sid].gen = now + 1 /\ session'[t.sid].recent = TRUE /\ now \in Nat
        BY <1>1, <2>5, <3>1
      <4> HIDE DEF now, s
      <4>3. t.gen <= now + 1 /\ (t.gen = now => t.gen + 1 = now + 1)
        BY <2>8, <4>1, <4>2
      <4> QED
        BY <3>1, <4>1, <4>2, <4>3 DEF Close
    <3>2. CASE t.sid # s
      BY <2>5, <2>7, <2>8, <3>2 DEF Close
    <3> QED
      BY <3>1, <3>2
  <2>9. TokensClose'
    <3>1. ASSUME NEW d \in Device PROVE Close(cookie[d])'
      <4>1. cookie[d].gen \in Nat /\ Close(cookie[d])
        <5>1. cookie[d] \in Token \cup {NoToken}
          BY DEF SessionsInv, SessionsTypeOK
        <5> QED
          BY <5>1, TokenNames DEF SessionsInv, TokensClose
      <4>2. cookie[d].sid = s /\ cookie[d].gen < now => s \in excused'
        BY <2>7 DEF Behind
      <4> QED
        BY <1>2, <2>8, <4>1, <4>2
    <3>2. ASSUME NEW o \in Refresh, o # q, call[o].at # "idle" PROVE OnItsWay(call[o])'
      <4>1. call[o].token.gen \in Nat /\ call[o].answer.gen \in Nat /\ OnItsWay(call[o])
        BY <3>2, Under, TokenNames DEF SessionsInv, TokensClose
      <4>2. call[o].at \in {"sent", "read"} => Close(call[o].token)'
        <5> SUFFICES ASSUME call[o].at \in {"sent", "read"} PROVE Close(call[o].token)'
          OBVIOUS
        <5>1. call[o].token.sid = s /\ call[o].token.gen < now => s \in excused'
          BY <2>7 DEF Behind
        <5> QED
          BY <2>4, <2>8, <3>2, <4>1, <5>1 DEF OnItsWay
      <4>3. call[o].at = "answered" => Close(call[o].answer)'
        <5>1. call[o].at = "answered" /\ call[o].answer.sid = s /\ call[o].answer.gen < now => s \in excused'
          BY <2>7 DEF Behind
        <5> QED
          BY <2>4, <2>8, <3>2, <4>1, <5>1 DEF OnItsWay
      <4> QED
        BY <2>4, <3>2, <4>2, <4>3 DEF OnItsWay
    <3>3. OnItsWay(call[q])'
      BY <1>1, <2>1, <2>3, <2>4, <2>5 DEF OnItsWay, Close
    <3>4. ASSUME NEW o \in Refresh, o # q, call[o].at = "idle" PROVE OnItsWay(call[o])'
      BY <2>4, <3>4 DEF OnItsWay
    <3> QED
      BY <3>1, <3>2, <3>3, <3>4 DEF TokensClose
  <2>10. InTurn'
    <3> SUFFICES ASSUME NEW o \in Refresh, InHand(o)' PROVE Locked(o)'
      BY DEF InTurn
    <3>1. o # q /\ call'[o] = call[o] /\ InHand(o) /\ Locked(o)
      BY <2>3, <2>4 DEF InHand, SessionsInv, InTurn
    <3>2. call[o].token.sid # s
      BY <1>1, <3>1
    <3>3. \A p \in Refresh : InHand(p)' => InHand(p) /\ call'[p] = call[p]
      BY <2>3, <2>4 DEF InHand
    <3> QED
      BY <2>5, <3>1, <3>2, <3>3 DEF Locked
  <2>11. NoneYet' /\ EndedForAReason'
    BY <1>1, <2>5, <2>7 DEF SessionsInv, NoneYet, EndedForAReason
  <2> QED
    BY <2>6, <2>9, <2>10, <2>11 DEF SessionsInv
<1> QED
  BY <1>3, <1>4, <1>5 DEF Rotate

\* A session begins: by a sign-in, or with an old token moved into it.
LEMMA NewSessionFields ==
    ASSUME SessionsInv, NEW s \in Session, session[s].state = "none", session' = NewSession(s)
    PROVE  /\ session' \in [Session -> SessionState]
           /\ session'[s].state = "live" /\ session'[s].gen = 0 /\ session'[s].recent = TRUE
           /\ session[s].gen = 0 /\ \A r \in Session : r # s => session'[r] = session[r]
<1> DEFINE row == [state |-> "live", gen |-> 0, recent |-> TRUE]
<1>1. row \in SessionState /\ row.state = "live" /\ row.gen = 0 /\ row.recent = TRUE
  BY SessionsAssumption DEF SessionState
<1>2. session' = [session EXCEPT ![s] = row]
  BY DEF NewSession
<1> HIDE DEF row
<1> QED
  BY <1>1, <1>2 DEF SessionsInv, SessionsTypeOK, NoneYet

\* A token of a session that did not exist before is its own.
LEMMA NewToken ==
    ASSUME SessionsInv, NEW s \in Session
    PROVE  /\ [sid |-> s, gen |-> 0] \in Token /\ [sid |-> s, gen |-> 0].sid = s /\ [sid |-> s, gen |-> 0].gen = 0
           /\ session[s].gen = 0 => Close([sid |-> s, gen |-> 0])
  BY SessionsAssumption DEF Token, Close

\* A sign-in begins a session.
LEMMA StartKeeps ==
    ASSUME SessionsInv, NEW d \in Device, NEW s \in Session, StartSession(d, s) PROVE SessionsInv'
<1> DEFINE token == [sid |-> s, gen |-> 0]
<1>1. /\ session[s].state = "none" /\ session' = NewSession(s)
      /\ cookie' = [cookie EXCEPT ![d] = token] /\ since' = since \cup {s}
      /\ UNCHANGED <<refusesOld, call, straddled, excused>>
  BY DEF StartSession, NextId
<1>2. token \in Token /\ (session[s].gen = 0 => Close(token))
  BY NewToken
<1> HIDE DEF token
<1>3. /\ session' \in [Session -> SessionState]
      /\ session'[s].state = "live" /\ session'[s].gen = 0 /\ session'[s].recent = TRUE
      /\ session[s].gen = 0 /\ \A r \in Session : r # s => session'[r] = session[r]
  BY <1>1, NewSessionFields
<1>4. SessionsTypeOK'
  BY <1>1, <1>2, <1>3 DEF SessionsInv, SessionsTypeOK
<1>5. \A e \in Device : cookie'[e] = cookie[e] \/ Close(cookie'[e])
  BY <1>1, <1>2, <1>3 DEF SessionsInv, SessionsTypeOK
<1> QED
  BY <1>1, <1>3, <1>4, <1>5, RowChanges

\* An old token is moved into a session of its own.
LEMMA AdoptKeeps ==
    ASSUME SessionsInv, NEW q \in Refresh, NEW s \in Session, AdoptOld(q, s) PROVE SessionsInv'
<1> DEFINE token == [sid |-> s, gen |-> 0]
           c == [at |-> "answered", dev |-> call[q].dev, token |-> NoToken, gen |-> 0, answer |-> token]
<1>1. /\ session[s].state = "none" /\ session' = NewSession(s) /\ refusesOld' = TRUE
      /\ call' = [call EXCEPT ![q] = c] /\ call[q].at = "read"
      /\ UNCHANGED <<cookie, since, straddled, excused>>
  BY DEF AdoptOld, NextId, Answer, InHand
<1>2. token \in Token /\ (session[s].gen = 0 => Close(token))
  BY NewToken
<1>3. c \in CallState /\ c.at = "answered" /\ c.answer = token
  <2>1. call[q].dev \in Device /\ 0 \in 0 .. MaxGen
    BY <1>1, Under, SessionsAssumption DEF SessionsInv
  <2> HIDE DEF token
  <2> QED
    BY <1>2, <2>1 DEF CallState
<1> HIDE DEF token, c
<1>4. /\ session' \in [Session -> SessionState]
      /\ session'[s].state = "live" /\ session'[s].gen = 0 /\ session'[s].recent = TRUE
      /\ session[s].gen = 0 /\ \A r \in Session : r # s => session'[r] = session[r]
  BY <1>1, NewSessionFields
<1>5. OnItsWay(c)
  BY <1>2, <1>3, <1>4 DEF OnItsWay
<1>6. SessionsTypeOK'
  BY <1>1, <1>3, <1>4 DEF SessionsInv, SessionsTypeOK
<1>7. \A o \in Refresh : call'[o] = call[o] \/ (call'[o].at # "read" /\ OnItsWay(call'[o]))
  BY <1>1, <1>3, <1>5 DEF SessionsInv, SessionsTypeOK
<1> QED
  BY <1>1, <1>4, <1>6, <1>7, RowChanges

\* The grace ends: what is one behind excuses the session from now on.
LEMMA GraceKeeps == ASSUME SessionsInv, NEW s \in Session, GraceOver(s) PROVE SessionsInv'
<1> DEFINE now == session[s].gen
<1>1. /\ session' = [session EXCEPT ![s].recent = FALSE]
      /\ excused' = IF Behind(s, now) THEN excused \cup {s} ELSE excused
      /\ UNCHANGED <<refusesOld, cookie, call, since, straddled>>
  BY DEF GraceOver
<1>2. /\ session'[s] \in SessionState /\ session'[s].state = session[s].state /\ session'[s].gen = now
      /\ now \in Nat /\ \A r \in Session : r # s => session'[r] = session[r]
  <2>1. session[s] \in SessionState /\ session'[s] = [session[s] EXCEPT !.recent = FALSE]
        /\ \A r \in Session : r # s => session'[r] = session[r]
    BY <1>1 DEF SessionsInv, SessionsTypeOK
  <2>2. ASSUME NEW row \in SessionState
        PROVE  /\ [row EXCEPT !.recent = FALSE] \in SessionState
               /\ [row EXCEPT !.recent = FALSE].state = row.state
               /\ [row EXCEPT !.recent = FALSE].gen = row.gen /\ row.gen \in Nat
    <3>1. row.gen \in 0 .. MaxGen /\ row.gen \in Nat
      BY SessionsAssumption DEF SessionState
    <3>2. [row EXCEPT !.recent = FALSE] \in SessionState
      BY DEF SessionState
    <3>3. [row EXCEPT !.recent = FALSE].state = row.state /\ [row EXCEPT !.recent = FALSE].gen = row.gen
      BY DEF SessionState
    <3> QED
      BY <3>1, <3>2, <3>3
  <2> QED
    BY <2>1, <2>2
<1>3. excused \subseteq excused' /\ (s \notin excused' => ~Behind(s, now))
  BY <1>1
<1>4. SessionsTypeOK'
  <2>1. session' \in [Session -> SessionState]
    BY <1>1, <1>2 DEF SessionsInv, SessionsTypeOK
  <2> QED
    BY <1>1, <2>1 DEF SessionsInv, SessionsTypeOK
<1>5. ASSUME NEW t, t.gen \in Nat, Close(t), t.sid = s /\ t.gen < now => s \in excused' PROVE Close(t)'
  <2>1. CASE t.sid = s
    <3>1. t.gen <= now /\ (s \in excused' \/ t.gen = now)
      BY <1>2, <1>5, <2>1 DEF Close
    <3> QED
      BY <1>2, <2>1, <3>1 DEF Close
  <2>2. CASE t.sid # s
    BY <1>2, <1>3, <1>5, <2>2 DEF Close
  <2> QED
    BY <2>1, <2>2
<1>6. TokensClose'
  <2>1. ASSUME NEW d \in Device PROVE Close(cookie[d])'
    <3>1. cookie[d] \in Token \cup {NoToken}
      BY DEF SessionsInv, SessionsTypeOK
    <3>2. cookie[d].gen \in Nat /\ Close(cookie[d])
      BY <3>1, TokenNames DEF SessionsInv, TokensClose
    <3>3. cookie[d].sid = s /\ cookie[d].gen < now => s \in excused'
      BY <1>3 DEF Behind
    <3> QED
      BY <1>1, <1>5, <3>2, <3>3
  <2>2. ASSUME NEW o \in Refresh, call[o].at # "idle" PROVE OnItsWay(call[o])'
    <3>1. call[o].token.gen \in Nat /\ call[o].answer.gen \in Nat /\ OnItsWay(call[o])
      BY <2>2, Under, TokenNames DEF SessionsInv, TokensClose
    <3>2. call[o].at \in {"sent", "read"} /\ call[o].token.sid = s /\ call[o].token.gen < now => s \in excused'
      BY <1>3 DEF Behind
    <3>3. call[o].at = "answered" /\ call[o].answer.sid = s /\ call[o].answer.gen < now => s \in excused'
      BY <1>3 DEF Behind
    <3>4. call[o].at \in {"sent", "read"} => Close(call[o].token)'
      BY <1>1, <1>5, <3>1, <3>2 DEF OnItsWay
    <3>5. call[o].at = "answered" => Close(call[o].answer)'
      BY <1>1, <1>5, <3>1, <3>3 DEF OnItsWay
    <3> QED
      BY <1>1, <3>4, <3>5 DEF OnItsWay
  <2>3. ASSUME NEW o \in Refresh, call[o].at = "idle" PROVE OnItsWay(call[o])'
    BY <1>1, <2>3 DEF OnItsWay
  <2> QED
    BY <2>1, <2>2, <2>3 DEF TokensClose
<1>7. InTurn'
  BY <1>1, <1>2, StaysInTurn DEF SessionsInv
<1>8. NoneYet' /\ EndedForAReason'
  BY <1>2, <1>3 DEF SessionsInv, NoneYet, EndedForAReason
<1> QED
  BY <1>4, <1>6, <1>7, <1>8 DEF SessionsInv

\* The ends of a session that have a reason, and a copied cookie.
LEMMA EndsKeep ==
    ASSUME SessionsInv,
           \/ \E s \in Session : PastItsEnd(s)
           \/ \E d \in Device : Logout(d) \/ SignOutOthers(d)
           \/ SignOutEverywhere
           \/ \E d, e \in Device : CopyCookie(d, e)
           \/ UNCHANGED sVars
    PROVE  SessionsInv'
<1>n. NoToken \in Token \cup {NoToken} /\ Close(NoToken)
  BY TokenNames DEF NoToken, Close, Session, NoSession
<1>a. ASSUME NEW ended \in SUBSET Session
      PROVE  /\ Revoked(ended) \in [Session -> SessionState]
             /\ \A s \in Session : /\ Revoked(ended)[s].gen = session[s].gen /\ Revoked(ended)[s].recent = session[s].recent
                                   /\ Revoked(ended)[s].state = IF s \in ended THEN "ended" ELSE session[s].state
  BY DEF SessionsInv, SessionsTypeOK, SessionState, Revoked
<1>1. ASSUME NEW s \in Session, PastItsEnd(s) PROVE SessionsInv'
  <2>1. /\ session'[s] \in SessionState /\ session'[s].state = "over" /\ session'[s].gen = session[s].gen
        /\ session'[s].recent = session[s].recent /\ \A r \in Session : r # s => session'[r] = session[r]
    BY <1>1 DEF PastItsEnd, SessionsInv, SessionsTypeOK, SessionState
  <2>2. UNCHANGED <<refusesOld, cookie, call, since, straddled, excused>> /\ session' \in [Session -> SessionState]
    BY <1>1, <2>1 DEF PastItsEnd, seen, SessionsInv, SessionsTypeOK
  <2>3. SessionsTypeOK'
    BY <2>2 DEF SessionsInv, SessionsTypeOK
  <2> QED
    BY <2>1, <2>2, <2>3, RowChanges
<1>2. ASSUME NEW d \in Device, Logout(d) PROVE SessionsInv'
  <2> DEFINE ended == Standing \cap {cookie[d].sid}
  <2>1. /\ session' = Revoked(ended) /\ refusesOld' \in BOOLEAN /\ cookie' = [cookie EXCEPT ![d] = NoToken]
        /\ excused' = excused \cup ended /\ UNCHANGED <<call, since, straddled>>
    BY <1>2 DEF Logout, SessionsInv, SessionsTypeOK
  <2>2. ended \in SUBSET Session
    BY DEF Standing
  <2> HIDE DEF ended
  <2>3. \A e \in Device : cookie'[e] = cookie[e] \/ Close(cookie'[e])
    BY <1>n, <2>1 DEF SessionsInv, SessionsTypeOK
  <2>4. SessionsTypeOK'
    BY <1>a, <2>1, <2>2 DEF SessionsInv, SessionsTypeOK
  <2> QED
    BY <1>a, <2>1, <2>2, <2>3, <2>4, RowChanges
<1>3. ASSUME NEW keep \in SUBSET Session, EndAll(keep) PROVE SessionsInv'
  <2> DEFINE ended == Standing \ keep
  <2>1. /\ session' = Revoked(ended) /\ refusesOld' = TRUE /\ since' = keep /\ straddled' \in BOOLEAN
        /\ excused' = excused \cup ended /\ UNCHANGED <<cookie, call>>
    BY <1>3 DEF EndAll, AndOldTokens
  <2>2. ended \in SUBSET Session
    BY DEF Standing
  <2> HIDE DEF ended
  <2>3. SessionsTypeOK'
    BY <1>a, <2>1, <2>2 DEF SessionsInv, SessionsTypeOK
  <2> QED
    BY <1>a, <2>1, <2>2, <2>3, RowChanges
<1>4. ASSUME NEW d \in Device, NEW e \in Device, CopyCookie(d, e) PROVE SessionsInv'
  <2>1. /\ cookie' = [cookie EXCEPT ![e] = cookie[d]] /\ cookie[d].sid \in Session
        /\ excused' = excused \cup {cookie[d].sid}
        /\ UNCHANGED <<session, refusesOld, call, since, straddled>>
    BY <1>4 DEF CopyCookie, sessionVars
  <2>2. \A f \in Device : cookie'[f] = cookie[f] \/ Close(cookie'[f])
    BY <2>1 DEF SessionsInv, SessionsTypeOK, TokensClose
  <2>3. SessionsTypeOK'
    BY <2>1 DEF SessionsInv, SessionsTypeOK
  <2> QED
    BY <2>1, <2>2, <2>3, RowChanges
<1>5. ASSUME UNCHANGED sVars PROVE SessionsInv'
  <2>1. SessionsTypeOK'
    BY <1>5 DEF sVars, SessionsInv, SessionsTypeOK
  <2> QED
    BY <1>5, <2>1, RowChanges DEF sVars
<1>6. \A d \in Device : SignOutOthers(d) => \E keep \in SUBSET Session : EndAll(keep)
  BY DEF SignOutOthers, Live
<1>7. SignOutEverywhere => \E keep \in SUBSET Session : EndAll(keep)
  BY DEF SignOutEverywhere
<1> QED
  BY <1>1, <1>2, <1>3, <1>4, <1>5, <1>6, <1>7

\* At the beginning no session has begun.
LEMMA SessionsStart == SessionsInit => SessionsInv
<1> SUFFICES ASSUME SessionsInit PROVE SessionsInv
  OBVIOUS
<1>1. Old \in Token /\ Old.sid = NoSession /\ NoToken.sid = NoSession /\ NoSession \notin Session
      /\ Idle.at = "idle" /\ [state |-> "none", gen |-> 0, recent |-> FALSE] \in SessionState
  BY SessionsAssumption DEF Old, Token, NoToken, NoSession, Session, Idle, SessionState
<1>2. SessionsTypeOK
  BY <1>1 DEF SessionsInit, SessionsTypeOK
<1>3. \A d \in Device : cookie[d].sid = NoSession
  BY <1>1 DEF SessionsInit
<1>4. \A q \in Refresh : call[q].at = "idle"
  BY <1>1 DEF SessionsInit
<1>5. \A s \in Session : session[s].state = "none" /\ session[s].gen = 0
  BY DEF SessionsInit
<1> QED
  BY <1>1, <1>2, <1>3, <1>4, <1>5
     DEF SessionsInv, TokensClose, Close, OnItsWay, InTurn, InHand, NoneYet, EndedForAReason

\* Every step.
LEMMA SessionsKept == SessionsInv /\ [SessionsNext]_sVars => SessionsInv'
  BY QuietCalls, RotateKeeps, StartKeeps, AdoptKeeps, GraceKeeps, EndsKeep DEF SessionsNext, Refreshing, Acting

\* A session ends only by a sign-out, or after its cookie was copied, or when one of
\* its tokens stayed behind past the grace or past two refreshes: no second tab, no
\* retry and no lost answer ends it, for any number of devices, refreshes and sessions
\* (ROTATE_GRACE).
THEOREM EndsHaveReasons == SessionsSpec => []EndedForAReason
<1>1. SessionsInv => EndedForAReason
  BY DEF SessionsInv
<1> QED
  BY <1>1, SessionsStart, SessionsKept, PTL DEF SessionsSpec

\* Unless an old token was just being moved when the last sign-out of the others came,
\* none is in hand since and none counts any more; or no such sign-out came yet.
Reached ==
    /\ SignOutReaches
    /\ ~straddled => \/ since = Session
                     \/ refusesOld /\ \A q \in Refresh : InHand(q) => call[q].token # Old

\* Steps that sign nobody in and judge no old token.
LEMMA ReachStays ==
    ASSUME Reached, UNCHANGED <<since, straddled>>, refusesOld => refusesOld',
           \A s \in Session : Live(s)' => Live(s),
           \A q \in Refresh : InHand(q)' /\ call'[q].token = Old => InHand(q) /\ call[q].token = Old
    PROVE  Reached'
  BY DEF Reached, SignOutReaches

\* Every step leaves whom the last sign-out reached signed out.
LEMMA ReachKept == SessionsInv /\ Reached /\ [SessionsNext]_sVars => Reached'
<1> SUFFICES ASSUME SessionsInv, Reached, [SessionsNext]_sVars PROVE Reached'
  OBVIOUS
<1> USE DEF SessionsInv
<1>i. Idle.at = "idle"
  BY DEF Idle
<1>1. ASSUME NEW q \in Refresh,
             (\E d \in Device : Send(d, q)) \/ ReadSession(q) \/ TakeCookie(q) \/ Lose(q) PROVE Reached'
  <2>1. UNCHANGED <<session, refusesOld, since, straddled>>
    BY <1>1 DEF Send, ReadSession, TakeCookie, Lose, sessionVars, seen
  <2>2. \A o \in Refresh : InHand(o)' => call'[o] = call[o] \/ (o = q /\ call'[q].token # Old)
    <3>1. ASSUME NEW d \in Device, Send(d, q) PROVE \A o \in Refresh : InHand(o)' => call'[o] = call[o]
      BY <3>1 DEF Send, InHand, SessionsTypeOK
    <3>2. ASSUME TakeCookie(q) \/ Lose(q) PROVE \A o \in Refresh : InHand(o)' => call'[o] = call[o]
      BY <1>i, <3>2 DEF TakeCookie, Lose, InHand, SessionsTypeOK
    <3>3. ASSUME ReadSession(q) PROVE \A o \in Refresh : InHand(o)' => call'[o] = call[o] \/ (o = q /\ call'[q].token # Old)
      <4>1. call[q].at = "sent" /\ call[q].token.sid # NoSession /\ call[q] \in CallState
        BY <3>3, Under DEF ReadSession
      <4>2. \A g : [call[q] EXCEPT !.at = "read", !.gen = g].token = call[q].token
        BY <4>1 DEF CallState
      <4>3. call[q].token # Old
        BY <4>1 DEF Old
      <4>4. \A o \in Refresh : o # q => call'[o] = call[o]
        BY <3>3 DEF ReadSession, Refuse, SessionsTypeOK
      <4>5. call'[q] = Idle \/ \E g : call'[q] = [call[q] EXCEPT !.at = "read", !.gen = g]
        BY <3>3 DEF ReadSession, Refuse, SessionsTypeOK
      <4>6. InHand(q)' => call'[q].token # Old
        BY <1>i, <4>2, <4>3, <4>5 DEF InHand
      <4> QED
        BY <4>4, <4>6
    <3> QED
      BY <1>1, <3>1, <3>2, <3>3
  <2> QED
    BY <2>1, <2>2, ReachStays DEF InHand, Live
<1>2. ASSUME NEW q \in Refresh, JudgeOld(q) PROVE Reached'
  <2>1. UNCHANGED <<session, refusesOld, since, straddled>>
    BY <1>2 DEF JudgeOld, sessionVars
  <2>2. CASE refusesOld
    <3>1. \A o \in Refresh : InHand(o)' => call'[o] = call[o]
      BY <1>2, <1>i, <2>2 DEF JudgeOld, Refuse, InHand, SessionsTypeOK
    <3> QED
      BY <2>1, <3>1, ReachStays DEF InHand, Live
  <2>3. CASE ~refusesOld
    BY <2>1, <2>3 DEF Reached, SignOutReaches, Live
  <2> QED
    BY <2>2, <2>3
<1>3. ASSUME NEW q \in Refresh, Rotate(q) PROVE Reached'
  <2>1. UNCHANGED <<refusesOld, since, straddled>> /\ call[q].token.sid # NoSession
    BY <1>3 DEF Rotate
  <2>2. \A o \in Refresh : InHand(o)' => call'[o] = call[o]
    <3>1. ASSUME NEW token, Answer(q, token) PROVE \A o \in Refresh : InHand(o)' => call'[o] = call[o]
      BY <3>1 DEF Answer, InHand, SessionsTypeOK
    <3>2. ASSUME Refuse(q) PROVE \A o \in Refresh : InHand(o)' => call'[o] = call[o]
      BY <1>i, <3>2 DEF Refuse, InHand, SessionsTypeOK
    <3> QED
      BY <1>3, <3>1, <3>2 DEF Rotate
  <2>3. \A s \in Session : session'[s].state = session[s].state \/ session'[s].state = "ended"
    <3>1. \A row \in SessionState : \A n : /\ [row EXCEPT !.state = "ended"].state = "ended"
                                          /\ [row EXCEPT !.gen = n, !.recent = TRUE].state = row.state
      BY DEF SessionState
    <3>2. \/ UNCHANGED session
          \/ \E s \in Session : session' = [session EXCEPT ![s].state = "ended"]
          \/ \E s \in Session : \E n : session' = [session EXCEPT ![s].gen = n, ![s].recent = TRUE]
      <4>1. call[q].at = "read"
        BY <1>3 DEF Rotate, InHand
      <4>2. call[q].token.sid \in Session
        BY <2>1, <4>1, Under, TokenNames
      <4> QED
        BY <1>3, <4>2 DEF Rotate
    <3>3. ASSUME NEW r \in Session, session' = [session EXCEPT ![r].state = "ended"]
          PROVE  \A s \in Session : session'[s].state = session[s].state \/ session'[s].state = "ended"
      BY <3>1, <3>3 DEF SessionsTypeOK
    <3>4. ASSUME NEW r \in Session, NEW n, session' = [session EXCEPT ![r].gen = n, ![r].recent = TRUE]
          PROVE  \A s \in Session : session'[s].state = session[s].state
      BY <3>1, <3>4 DEF SessionsTypeOK
    <3> QED
      BY <3>2, <3>3, <3>4
  <2> QED
    BY <2>1, <2>2, <2>3, ReachStays DEF InHand, Live
<1>4. ASSUME NEW q \in Refresh, NEW s \in Session, AdoptOld(q, s) PROVE Reached'
  <2>1. InHand(q) /\ call[q].token = Old /\ UNCHANGED <<since, straddled>>
    BY <1>4 DEF AdoptOld
  <2>2. ~straddled => since = Session
    BY <2>1 DEF Reached
  <2> QED
    BY <2>1, <2>2 DEF Reached, SignOutReaches, Live
<1>5. ASSUME NEW d \in Device, NEW s \in Session, StartSession(d, s) PROVE Reached'
  <2>1. UNCHANGED <<refusesOld, call, straddled>> /\ since' = since \cup {s} /\ since \subseteq Session
    BY <1>5 DEF StartSession, SessionsTypeOK
  <2>2. \A r \in Session : r # s => session'[r] = session[r]
    BY <1>5 DEF StartSession, NewSession, SessionsTypeOK
  <2> QED
    BY <2>1, <2>2 DEF Reached, SignOutReaches, Live, InHand
<1>6. ASSUME NEW keep \in SUBSET Session, EndAll(keep) PROVE Reached'
  <2>1. /\ session' = Revoked(Standing \ keep) /\ refusesOld' = TRUE /\ since' = keep /\ call' = call
        /\ straddled' = \E q \in Refresh : InHand(q) /\ call[q].token = Old
    BY <1>6 DEF EndAll, AndOldTokens
  <2>2. \A s \in Session : session'[s].state = "live" => s \in keep
    <3>1. \A s \in Standing \ keep : session'[s].state = "ended"
      BY <2>1 DEF Revoked, Standing, SessionsTypeOK, SessionState
    <3>2. \A s \in Session : s \notin Standing \ keep => session'[s] = session[s]
      BY <2>1 DEF Revoked
    <3> QED
      BY <3>1, <3>2 DEF Standing
  <2> QED
    BY <2>1, <2>2 DEF Reached, SignOutReaches, Live, InHand
<1>7. ASSUME NEW s \in Session, GraceOver(s) \/ PastItsEnd(s) PROVE Reached'
  <2>1. UNCHANGED <<refusesOld, call, since, straddled>>
    BY <1>7 DEF GraceOver, PastItsEnd, seen
  <2>2. \A r \in Session : session'[r].state = session[r].state \/ session'[r].state = "over"
    BY <1>7 DEF GraceOver, PastItsEnd, SessionsTypeOK, SessionState
  <2> QED
    BY <2>1, <2>2, ReachStays DEF InHand, Live
<1>8. ASSUME NEW d \in Device, Logout(d) PROVE Reached'
  <2>1. UNCHANGED <<call, since, straddled>> /\ (refusesOld => refusesOld')
    BY <1>8 DEF Logout
  <2>2. \A s \in Session : session'[s].state = session[s].state \/ session'[s].state = "ended"
    BY <1>8 DEF Logout, Revoked, SessionsTypeOK, SessionState
  <2> QED
    BY <2>1, <2>2, ReachStays DEF InHand, Live
<1>9. ASSUME (\E d, e \in Device : CopyCookie(d, e)) \/ UNCHANGED sVars PROVE Reached'
  <2>1. UNCHANGED <<session, refusesOld, call, since, straddled>>
    BY <1>9 DEF CopyCookie, sessionVars, sVars
  <2> QED
    BY <2>1, ReachStays DEF InHand, Live
<1>10. ASSUME (\E d \in Device : SignOutOthers(d)) \/ SignOutEverywhere PROVE Reached'
  BY <1>6, <1>10 DEF SignOutOthers, SignOutEverywhere, Live
<1> QED
  BY <1>1, <1>2, <1>3, <1>4, <1>5, <1>7, <1>8, <1>9, <1>10 DEF SessionsNext, Refreshing, Acting

\* After a sign-out of the other devices only the one that asked and sign-ins since are
\* signed in, unless an old token was just being moved into a session when it came
\* (end_all_sessions).
THEOREM SignOutAlwaysReaches == SessionsSpec => []SignOutReaches
<1>1. SessionsInit => Reached
  BY DEF SessionsInit, Reached, SignOutReaches, Live
<1>2. Reached => SignOutReaches
  BY DEF Reached
<1> QED
  BY <1>1, <1>2, SessionsStart, SessionsKept, ReachKept, PTL DEF SessionsSpec

-----------------------------------------------------------------------------
(***************************************************************************)
(* The sign-in by message: who it signs in, and how often.                 *)
(***************************************************************************)
\* Every variable is what it should be.
WaTypeOK ==
    /\ att \in [Attempt -> Row]
    /\ numbers \in Seq(Phone) /\ Len(numbers) <= MaxNumbers
    /\ mail \subseteq Attempt \X Phone
    /\ hook \in [Hook -> {Quiet} \cup HookState]
    /\ page \in [Page -> {Quiet} \cup PageState]
    /\ begun \in [Attempt -> Seq(Phone)]
    /\ came \in [Attempt -> SUBSET Phone] /\ typed \in [Attempt -> SUBSET Phone]
    /\ asked \in [Attempt -> SUBSET Phone] /\ wrong \in [Attempt -> Nat]
    /\ calls \in [Attempt -> Nat] /\ crossed \subseteq Attempt

\* A delivery, or a call of the browser, is at work on the attempt.
Delivering(h, a) == hook[h].at # "idle" /\ hook[h].att = a
Calling(g, a) == page[g].at # "idle" /\ page[g].att = a

\* A phone comes into an attempt only by having sent its code.
CameByCode ==
    /\ \A m \in mail : m[2] \in came[m[1]]
    /\ \A h \in Hook, a \in Attempt : Delivering(h, a) => hook[h].from \in came[a]
    /\ \A g \in Page, a \in Attempt : Calling(g, a) => page[g].phone \in came[a]
    /\ \A a \in Attempt : att[a].by # Nobody => att[a].by \in came[a]
    /\ \A a \in Attempt : \A i \in 1 .. Len(begun[a]) : begun[a][i] \in came[a]

\* No number is sent to a phone whose own is withheld.
WithheldUnasked ==
    \A h \in Hook : hook[h].at # "idle" /\ hook[h].from \in Withheld => hook[h].confirm = 0

\* Where deliveries did not overlap, an attempt is claimed once, before anything else
\* happens to it, and only the phone that claimed it goes on: with its number typed, if
\* it was asked for one and is past that.
ClaimedOnce(a) == a \notin crossed =>
    /\ \A h, k \in Hook : Delivering(h, a) /\ Delivering(k, a) => h = k
    /\ \A h \in Hook : Delivering(h, a) => att[a].by = Nobody
    /\ att[a].by = Nobody => /\ asked[a] = {} /\ begun[a] = <<>> /\ wrong[a] = 0
                             /\ \A g \in Page : ~Calling(g, a)
    /\ att[a].by \in Withheld \cup {Nobody} => att[a].confirm = 0
    /\ \A p \in asked[a] : p = att[a].by
    /\ att[a].by \in asked[a] /\ att[a].confirm = 0 => att[a].by \in typed[a]
    /\ \A g \in Page : Calling(g, a) =>
         /\ page[g].phone = att[a].by
         /\ page[g].at = "claimed" /\ page[g].phone \in asked[a] => page[g].phone \in typed[a]
    /\ \A i \in 1 .. Len(begun[a]) : begun[a][i] \in asked[a] => begun[a][i] \in typed[a]

\* The sessions begun, and the calls that may begin one, are no more than there were
\* calls at once: when the first begins, the attempt is gone.
BegunWithin(a) ==
    /\ Len(begun[a]) + Cardinality(AtOnce(a)) <= calls[a]
    /\ Len(begun[a]) > 0 => att[a].state = "gone"

\* Where neither overlapped, every wrong number is counted in the row, and nobody is
\* past the numbers whose tries were used up.
TriesCounted(a) == calls[a] <= 1 /\ a \notin crossed =>
    /\ att[a].confirm # 0 => wrong[a] <= att[a].tries
    /\ att[a].confirm = 0 => wrong[a] < MaxTries
    /\ Len(begun[a]) = 1 => wrong[a] < MaxTries
    /\ \A g \in Page : Calling(g, a) =>
         /\ page[g].at = "number" => att[a].confirm # 0 /\ page[g].tries = att[a].tries
         /\ page[g].at = "claimed" => att[a].confirm = 0

WaInv ==
    /\ WaTypeOK /\ CameByCode /\ WithheldUnasked
    /\ \A a \in Attempt : ClaimedOnce(a) /\ BegunWithin(a) /\ TriesCounted(a)

\* Only what is not at work is idle.
LEMMA QuietIs == \A r \in {Quiet} \cup PageState : r # Quiet <=> r.at # "idle"
  BY DEF Quiet, PageState

\* The calls at work are those that are not over.
LEMMA AtOnceIs ==
    ASSUME WaTypeOK, NEW a \in Attempt
    PROVE  /\ AtOnce(a) \in SUBSET Page
           /\ \A g \in Page : g \in AtOnce(a) <=> Calling(g, a)
           /\ Cardinality(AtOnce(a)) \in Nat /\ IsFiniteSet(AtOnce(a))
           /\ calls[a] \in Nat /\ begun[a] \in Seq(Phone) /\ Len(begun[a]) \in Nat
<1>1. AtOnce(a) \in SUBSET Page
  BY DEF AtOnce
<1>2. Cardinality(AtOnce(a)) \in Nat /\ IsFiniteSet(AtOnce(a))
  BY <1>1, WaLoginAssumption, FewerOf, FS_Subset
<1>3. \A g \in Page : g \in AtOnce(a) <=> Calling(g, a)
  BY QuietIs DEF AtOnce, Calling, WaTypeOK
<1>4. calls[a] \in Nat /\ begun[a] \in Seq(Phone)
  BY DEF WaTypeOK
<1>5. Len(begun[a]) \in Nat
  BY <1>4
<1> QED
  BY <1>1, <1>2, <1>3, <1>4, <1>5

\* Where calls come one by one, the one at work is alone, and has begun nothing.
LEMMA OneByOne ==
    ASSUME WaTypeOK, NEW a \in Attempt, BegunWithin(a), calls[a] <= 1
    PROVE  /\ \A g, k \in Page : Calling(g, a) /\ Calling(k, a) => g = k
           /\ Len(begun[a]) <= 1
           /\ \A g \in Page : Calling(g, a) => Len(begun[a]) < 1
<1>1. /\ Cardinality(AtOnce(a)) \in Nat /\ Len(begun[a]) \in Nat /\ calls[a] \in Nat
      /\ Len(begun[a]) + Cardinality(AtOnce(a)) <= 1
  <2>1. Len(begun[a]) + Cardinality(AtOnce(a)) <= calls[a]
    BY DEF BegunWithin
  <2> QED
    BY <2>1, AtOnceIs
<1>2. ASSUME NEW g \in Page, NEW k \in Page, Calling(g, a), Calling(k, a), g # k PROVE FALSE
  <2>1. {g, k} \in SUBSET AtOnce(a) /\ AtOnce(a) \in SUBSET Page
    BY <1>2, AtOnceIs
  <2>2. Cardinality({g, k}) <= Cardinality(AtOnce(a)) /\ Cardinality({g, k}) \in Nat
    BY <2>1, WaLoginAssumption, FewerOf
  <2>3. IsFiniteSet({g}) /\ Cardinality({g}) = 1
    BY FS_Singleton
  <2>4. Cardinality({g} \cup {k}) = Cardinality({g}) + 1
    BY <1>2, <2>3, FS_AddElement
  <2>5. {g, k} = {g} \cup {k}
    OBVIOUS
  <2>6. Cardinality({g, k}) = 2
    BY <2>3, <2>4, <2>5
  <2>7. PICK n \in Nat : n = Cardinality(AtOnce(a)) /\ Cardinality({g, k}) <= n
    BY <1>1, <2>2
  <2>8. n <= 1
    BY <1>1, <2>7
  <2> QED
    BY <2>6, <2>7, <2>8
<1>3. ASSUME NEW g \in Page, Calling(g, a) PROVE Len(begun[a]) < 1
  <2>1. g \in AtOnce(a) /\ IsFiniteSet(AtOnce(a))
    BY <1>3, AtOnceIs
  <2>2. PICK S : S = AtOnce(a)
    OBVIOUS
  <2>3. S # {} /\ IsFiniteSet(S)
    BY <2>1, <2>2
  <2>4. Cardinality(S) # 0
    BY <2>3, FS_EmptySet
  <2> QED
    BY <1>1, <2>2, <2>4
<1> QED
  BY <1>1, <1>2, <1>3

\* No new call, and nothing begun: what is counted is counted still.
LEMMA NoNewCall ==
    ASSUME WaTypeOK, WaTypeOK', NEW a \in Attempt, BegunWithin(a),
           begun'[a] = begun[a], calls'[a] = calls[a],
           \A g \in Page : Calling(g, a)' => Calling(g, a),
           att[a].state = "gone" => att'[a].state = "gone"
    PROVE  BegunWithin(a)'
<1>1. \A g \in Page : g \in AtOnce(a)' <=> Calling(g, a)'
  BY QuietIs DEF AtOnce, Calling, WaTypeOK
<1>2. AtOnce(a)' \subseteq Page
  BY DEF AtOnce
<1>3. AtOnce(a)' \in SUBSET AtOnce(a)
  BY <1>1, <1>2, AtOnceIs
<1>4. AtOnce(a) \in SUBSET Page /\ calls[a] \in Nat /\ Len(begun[a]) \in Nat
  BY AtOnceIs
<1>5. /\ Cardinality(AtOnce(a)') \in Nat /\ Cardinality(AtOnce(a)) \in Nat
      /\ Cardinality(AtOnce(a)') <= Cardinality(AtOnce(a))
  <2> HIDE DEF AtOnce
  <2> QED
    BY <1>3, <1>4, WaLoginAssumption, FewerOf
<1>6. Len(begun[a]) + Cardinality(AtOnce(a)') <= calls[a]
  <2>1. Len(begun[a]) + Cardinality(AtOnce(a)) <= calls[a]
    BY DEF BegunWithin
  <2> QED
    BY <1>4, <1>5, <2>1
<1> QED
  BY <1>6 DEF BegunWithin

\* Steps in which nobody enters an attempt, claims it or is judged.
LEMMA Rests ==
    ASSUME WaInv, WaTypeOK', UNCHANGED <<begun, typed, asked, wrong, calls, crossed>>,
           \A a \in Attempt : came[a] \subseteq came'[a], \A m \in mail' : m[2] \in came'[m[1]],
           \A a \in Attempt : /\ att'[a].by = att[a].by /\ att'[a].confirm = att[a].confirm
                              /\ att'[a].tries = att[a].tries
                              /\ att[a].state = "gone" => att'[a].state = "gone",
           \A h \in Hook : hook'[h].at # "idle" =>
               /\ hook[h].at # "idle" /\ hook'[h].att = hook[h].att /\ hook'[h].from = hook[h].from
               /\ hook'[h].from \in Withheld => hook'[h].confirm = hook[h].confirm,
           \A g \in Page : page'[g].at # "idle" => page'[g] = page[g]
    PROVE  WaInv'
<1>1. \A h \in Hook, a \in Attempt : Delivering(h, a)' => Delivering(h, a) /\ hook'[h].from = hook[h].from
  BY DEF Delivering
<1>2. \A g \in Page, a \in Attempt : Calling(g, a)' => Calling(g, a) /\ page'[g] = page[g]
  BY DEF Calling
<1>3. CameByCode'
  BY <1>1, <1>2 DEF WaInv, CameByCode
<1>4. ASSUME NEW a \in Attempt PROVE ClaimedOnce(a)'
  BY <1>1, <1>2 DEF WaInv, ClaimedOnce
<1>5. ASSUME NEW a \in Attempt PROVE BegunWithin(a)'
  BY <1>2, NoNewCall DEF WaInv
<1>6. ASSUME NEW a \in Attempt PROVE TriesCounted(a)'
  BY <1>2 DEF WaInv, TriesCounted
<1>7. WithheldUnasked'
  BY DEF WaInv, WithheldUnasked
<1> QED
  BY <1>3, <1>4, <1>5, <1>6, <1>7 DEF WaInv

\* A delivery at work has an attempt and a sender.
LEMMA HookAt ==
    ASSUME WaTypeOK, NEW h \in Hook, hook[h].at # "idle"
    PROVE  /\ hook[h] \in HookState /\ hook[h].att \in Attempt /\ hook[h].from \in Phone
           /\ hook[h].confirm \in 0 .. MaxNumbers /\ Delivering(h, hook[h].att)
  BY DEF WaTypeOK, HookState, Quiet, Delivering

\* A call of the browser has an attempt.
LEMMA PageAt ==
    ASSUME WaTypeOK, NEW g \in Page, page[g].at # "idle"
    PROVE  /\ page[g] \in PageState /\ page[g].att \in Attempt /\ page[g].phone \in Phone
           /\ page[g].at \in {"number", "claimed"} /\ page[g].tries \in 0 .. MaxTries
           /\ Calling(g, page[g].att)
  BY DEF WaTypeOK, PageState, Quiet, Calling

\* The rows age and are swept, codes are sent, requests die or find nothing.
LEMMA OutsideRests ==
    ASSUME WaInv,
           \/ \E a \in Attempt : Open(a) \/ Expire(a) \/ \E p \in Phone : SendCode(a, p)
           \/ OpenElsewhere
           \/ \E h \in Hook : HookFails(h)
           \/ \E g \in Page : PageFails(g)
           \/ UNCHANGED waVars
    PROVE  WaInv'
<1> USE DEF WaInv
<1>q. Quiet.at = "idle"
  BY DEF Quiet
<1>m. \A m \in mail : m[2] \in came[m[1]]
  BY DEF CameByCode
<1>s. /\ Swept \in [Attempt -> Row]
      /\ \A a \in Attempt : /\ Swept[a].by = att[a].by /\ Swept[a].confirm = att[a].confirm /\ Swept[a].tries = att[a].tries
                            /\ att[a].state = "gone" => Swept[a].state = "gone"
                            /\ att[a].state = "none" => Swept[a].state = "none"
  BY DEF Swept, WaTypeOK, Row
<1>o. ASSUME NEW row \in Row
      PROVE  /\ [row EXCEPT !.state = "open"] \in Row /\ [row EXCEPT !.state = "open"].by = row.by
             /\ [row EXCEPT !.state = "open"].confirm = row.confirm /\ [row EXCEPT !.state = "open"].tries = row.tries
  BY DEF Row
<1>l. ASSUME NEW row \in Row
      PROVE  /\ [row EXCEPT !.late = TRUE] \in Row /\ [row EXCEPT !.late = TRUE].by = row.by
             /\ [row EXCEPT !.late = TRUE].confirm = row.confirm /\ [row EXCEPT !.late = TRUE].tries = row.tries
             /\ [row EXCEPT !.late = TRUE].state = row.state
  BY DEF Row
<1>1. ASSUME NEW a \in Attempt, Open(a) PROVE WaInv'
  <2>1. /\ att' = [Swept EXCEPT ![a] = [Swept[a] EXCEPT !.state = "open"]] /\ att[a].state = "none"
        /\ UNCHANGED <<numbers, mail, hook, page, begun, came, typed, asked, wrong, calls, crossed>>
    BY <1>1 DEF Open, watched
  <2>2. /\ att' \in [Attempt -> Row]
        /\ \A b \in Attempt : /\ att'[b].by = att[b].by /\ att'[b].confirm = att[b].confirm /\ att'[b].tries = att[b].tries
                              /\ att[b].state = "gone" => att'[b].state = "gone"
    BY <1>s, <1>o, <2>1
  <2>3. WaTypeOK'
    BY <2>1, <2>2 DEF WaTypeOK
  <2> QED
    BY <1>m, <2>1, <2>2, <2>3, Rests
<1>2. ASSUME OpenElsewhere PROVE WaInv'
  <2>1. /\ att' = Swept /\ UNCHANGED <<numbers, mail, hook, page, begun, came, typed, asked, wrong, calls, crossed>>
    BY <1>2 DEF OpenElsewhere, watched
  <2>2. WaTypeOK'
    BY <1>s, <2>1 DEF WaTypeOK
  <2> QED
    BY <1>m, <1>s, <2>1, <2>2, Rests
<1>3. ASSUME NEW a \in Attempt, Expire(a) PROVE WaInv'
  <2>1. /\ att' = [att EXCEPT ![a] = [att[a] EXCEPT !.late = TRUE]]
        /\ UNCHANGED <<numbers, mail, hook, page, begun, came, typed, asked, wrong, calls, crossed>>
    BY <1>3 DEF Expire, watched
  <2>2. /\ att' \in [Attempt -> Row]
        /\ \A b \in Attempt : /\ att'[b].by = att[b].by /\ att'[b].confirm = att[b].confirm /\ att'[b].tries = att[b].tries
                              /\ att[b].state = "gone" => att'[b].state = "gone"
    BY <1>l, <2>1 DEF WaTypeOK
  <2>3. WaTypeOK'
    BY <2>1, <2>2 DEF WaTypeOK
  <2> QED
    BY <1>m, <2>1, <2>2, <2>3, Rests
<1>4. ASSUME NEW a \in Attempt, NEW p \in Phone, SendCode(a, p) PROVE WaInv'
  <2>1. /\ mail' = mail \cup {<<a, p>>} /\ came' = [came EXCEPT ![a] = came[a] \cup {p}]
        /\ UNCHANGED <<att, numbers, hook, page, begun, typed, asked, wrong, calls, crossed>>
    BY <1>4 DEF SendCode
  <2>2. /\ came' \in [Attempt -> SUBSET Phone] /\ p \in came'[a]
        /\ \A b \in Attempt : came[b] \subseteq came'[b]
    BY <2>1 DEF WaTypeOK
  <2>3. \A m \in mail' : m[2] \in came'[m[1]]
    <3> SUFFICES ASSUME NEW m \in mail' PROVE m[2] \in came'[m[1]]
      OBVIOUS
    <3>1. CASE m = <<a, p>>
      BY <2>2, <3>1
    <3>2. CASE m \in mail
      <4>1. m[1] \in Attempt /\ m[2] \in came[m[1]]
        BY <1>m, <3>2 DEF WaTypeOK
      <4> QED
        BY <2>2, <4>1
    <3> QED
      BY <2>1, <3>1, <3>2
  <2>4. WaTypeOK'
    BY <2>1, <2>2 DEF WaTypeOK
  <2> QED
    BY <2>1, <2>2, <2>3, <2>4, Rests
<1>5. ASSUME NEW h \in Hook, HookFails(h) PROVE WaInv'
  <2>1. /\ hook' = [hook EXCEPT ![h] = Quiet]
        /\ UNCHANGED <<att, numbers, mail, page, begun, came, typed, asked, wrong, calls, crossed>>
    BY <1>5 DEF HookFails, watched
  <2>2. WaTypeOK' /\ \A k \in Hook : hook'[k].at # "idle" => hook'[k] = hook[k]
    BY <1>q, <2>1 DEF WaTypeOK
  <2> QED
    BY <1>m, <2>1, <2>2, Rests
<1>6. ASSUME NEW g \in Page, PageFails(g) PROVE WaInv'
  <2>1. /\ page' = [page EXCEPT ![g] = Quiet]
        /\ UNCHANGED <<att, numbers, mail, hook, begun, came, typed, asked, wrong, calls, crossed>>
    BY <1>6 DEF PageFails, watched
  <2>2. WaTypeOK' /\ \A k \in Page : page'[k].at # "idle" => page'[k] = page[k]
    BY <1>q, <2>1 DEF WaTypeOK
  <2> QED
    BY <1>m, <2>1, <2>2, Rests
<1>7. ASSUME UNCHANGED waVars PROVE WaInv'
  <2>1. WaTypeOK'
    BY <1>7 DEF waVars, WaTypeOK
  <2> QED
    BY <1>m, <1>7, <2>1, Rests DEF waVars
<1> QED
  BY <1>1, <1>2, <1>3, <1>4, <1>5, <1>6, <1>7

\* A delivery finds an attempt nobody has claimed, or nothing.
LEMMA FindKeeps ==
    ASSUME WaInv, NEW h \in Hook, NEW a \in Attempt, NEW p \in Phone, FindAttempt(h, a, p) PROVE WaInv'
<1> USE DEF WaInv
<1> DEFINE new == [at |-> "found", att |-> a, from |-> p, confirm |-> 0]
<1>1. /\ hook[h] = Quiet /\ <<a, p>> \in mail /\ Quiet.at = "idle"
      /\ UNCHANGED <<att, numbers, page, begun, came, typed, asked, wrong, calls>>
  BY DEF FindAttempt, Quiet
<1>2. \A m \in mail : m[2] \in came[m[1]]
  BY DEF CameByCode
<1>3. CASE ~Claimable(a)
  <2>1. mail' \subseteq mail /\ UNCHANGED <<hook, crossed>>
    BY <1>3 DEF FindAttempt
  <2>2. WaTypeOK'
    BY <1>1, <2>1 DEF WaTypeOK
  <2> QED
    BY <1>1, <1>2, <2>1, <2>2, Rests
<1>4. CASE Claimable(a)
  <2>1. /\ att[a].by = Nobody /\ hook' = [hook EXCEPT ![h] = new] /\ mail' = mail
        /\ crossed' = IF \E g \in Hook : hook[g] # Quiet /\ hook[g].att = a THEN crossed \cup {a} ELSE crossed
    BY <1>4 DEF FindAttempt, Claimable
  <2>2. new \in HookState /\ new.at = "found" /\ new.att = a /\ new.from = p
    BY WaLoginAssumption DEF HookState
  <2>n. new.confirm = 0
    OBVIOUS
  <2> HIDE DEF new
  <2>3. hook'[h] = new /\ \A k \in Hook : k # h => hook'[k] = hook[k]
    BY <2>1 DEF WaTypeOK
  <2>4. WaTypeOK'
    BY <1>1, <2>1, <2>2 DEF WaTypeOK
  <2>5. \A k \in Hook, b \in Attempt : Delivering(k, b)' <=> (k = h /\ b = a) \/ Delivering(k, b)
    BY <1>1, <2>2, <2>3 DEF Delivering
  <2>6. \A g \in Page, b \in Attempt : Calling(g, b)' <=> Calling(g, b)
    BY <1>1 DEF Calling
  <2>7. p \in came[a]
    BY <1>1, <1>2
  <2>8. CameByCode'
    <3>1. \A k \in Hook, b \in Attempt : Delivering(k, b)' => hook'[k].from \in came[b]
      <4> SUFFICES ASSUME NEW k \in Hook, NEW b \in Attempt, Delivering(k, b)' PROVE hook'[k].from \in came[b]
        OBVIOUS
      <4>1. CASE k = h
        <5>1. b = a
          BY <2>2, <2>3, <4>1 DEF Delivering
        <5> QED
          BY <2>2, <2>3, <2>7, <4>1, <5>1
      <4>2. CASE k # h
        BY <2>3, <2>5, <4>2 DEF CameByCode
      <4> QED
        BY <4>1, <4>2
    <3>2. \A g \in Page, b \in Attempt : Calling(g, b)' => page'[g].phone \in came[b]
      BY <1>1, <2>6 DEF CameByCode
    <3> QED
      BY <1>1, <2>1, <3>1, <3>2 DEF CameByCode
  <2>9. crossed \subseteq crossed'
    BY <2>1
  <2>10. a \notin crossed' => \A k \in Hook : ~Delivering(k, a)
    BY <1>1, <2>1 DEF Delivering
  <2>11. ASSUME NEW b \in Attempt PROVE ClaimedOnce(b)'
    <3> SUFFICES ASSUME b \notin crossed' PROVE ClaimedOnce(b)'
      BY DEF ClaimedOnce
    <3>1. \A k, j \in Hook : Delivering(k, b)' /\ Delivering(j, b)' => k = j
      BY <2>5, <2>9, <2>10 DEF ClaimedOnce
    <3>2. \A k \in Hook : Delivering(k, b)' => att[b].by = Nobody
      BY <2>1, <2>5, <2>9 DEF ClaimedOnce
    <3> QED
      BY <1>1, <2>6, <2>9, <3>1, <3>2 DEF ClaimedOnce
  <2>12. ASSUME NEW b \in Attempt PROVE BegunWithin(b)'
    BY <1>1, <2>4, <2>6, NoNewCall
  <2>13. ASSUME NEW b \in Attempt PROVE TriesCounted(b)'
    BY <1>1, <2>6, <2>9 DEF TriesCounted
  <2>14. WithheldUnasked'
    BY <2>2, <2>3, <2>n DEF WithheldUnasked
  <2> QED
    BY <2>4, <2>8, <2>11, <2>12, <2>13, <2>14
<1> QED
  BY <1>3, <1>4

\* The sender is bound; nobody sees it before the commit.
LEMMA BindKeeps == ASSUME WaInv, NEW h \in Hook, BindSender(h) PROVE WaInv'
<1> USE DEF WaInv
<1>1. PICK n \in 0 .. MaxNumbers :
          /\ hook' = [hook EXCEPT ![h] = [hook[h] EXCEPT !.at = "bound", !.confirm = n]]
          /\ hook[h].from \in Withheld => n = 0
  <2>1. CASE /\ hook[h].from \notin Withheld
             /\ Len(numbers) < MaxNumbers /\ numbers' = Append(numbers, hook[h].from)
             /\ hook' = [hook EXCEPT ![h] = [hook[h] EXCEPT !.at = "bound", !.confirm = Len(numbers')]]
    <3>1. Len(numbers') \in 0 .. MaxNumbers
      BY <2>1, WaLoginAssumption DEF WaTypeOK
    <3> QED
      BY <2>1, <3>1
  <2>2. CASE hook' = [hook EXCEPT ![h] = [hook[h] EXCEPT !.at = "bound", !.confirm = 0]]
    <3>1. 0 \in 0 .. MaxNumbers
      BY WaLoginAssumption
    <3> QED
      BY <2>2, <3>1
  <2> QED
    BY <2>1, <2>2 DEF BindSender
<1>2. hook[h].at = "found" /\ UNCHANGED <<att, mail, page, begun, came, typed, asked, wrong, calls, crossed>>
  BY DEF BindSender, watched
<1>3. hook[h] \in HookState /\ hook[h].from \in Phone
  BY <1>2, HookAt
<1>4. PICK new \in HookState :
          /\ new.att = hook[h].att /\ new.from = hook[h].from /\ new.confirm = n
          /\ hook' = [hook EXCEPT ![h] = new]
  <2> DEFINE new == [hook[h] EXCEPT !.at = "bound", !.confirm = n]
  <2>1. new \in HookState /\ new.att = hook[h].att /\ new.from = hook[h].from /\ new.confirm = n
    BY <1>3 DEF HookState
  <2>2. hook' = [hook EXCEPT ![h] = new]
    BY <1>1
  <2> QED
    BY <2>1, <2>2
<1>5. numbers' \in Seq(Phone) /\ Len(numbers') <= MaxNumbers
  <2>1. CASE UNCHANGED numbers
    BY <2>1 DEF WaTypeOK
  <2>2. CASE Len(numbers) < MaxNumbers /\ numbers' = Append(numbers, hook[h].from)
    BY <1>3, <2>2, WaLoginAssumption DEF WaTypeOK
  <2> QED
    BY <2>1, <2>2 DEF BindSender
<1>6. WaTypeOK'
  BY <1>2, <1>4, <1>5 DEF WaTypeOK
<1>7. \A k \in Hook : hook'[k].at # "idle" =>
          /\ hook[k].at # "idle" /\ hook'[k].att = hook[k].att /\ hook'[k].from = hook[k].from
          /\ hook'[k].from \in Withheld => hook'[k].confirm = hook[k].confirm
  <2>1. hook[h].from \in Withheld => hook[h].confirm = 0
    BY <1>2 DEF WithheldUnasked
  <2>2. hook[h].from \in Withheld => n = 0
    BY <1>1
  <2>3. hook[h].at # "idle"
    BY <1>2
  <2>4. hook'[h] = new /\ \A k \in Hook : k # h => hook'[k] = hook[k]
    BY <1>4 DEF WaTypeOK
  <2> QED
    BY <1>4, <2>1, <2>2, <2>3, <2>4
<1>8. \A m \in mail : m[2] \in came[m[1]]
  BY DEF CameByCode
<1> QED
  BY <1>2, <1>6, <1>7, <1>8, Rests

\* The claim is committed: where deliveries did not overlap, nothing came before it.
LEMMA CommitKeeps == ASSUME WaInv, NEW h \in Hook, CommitClaim(h) PROVE WaInv'
<1> USE DEF WaInv
<1>p. PICK a \in Attempt, p \in Phone, n \in 0 .. MaxNumbers :
          a = hook[h].att /\ p = hook[h].from /\ n = hook[h].confirm
  BY HookAt DEF CommitClaim
<1>1. /\ att' = [att EXCEPT ![a] = ClaimedBy(att[a], p, n)]
      /\ asked' = IF n # 0 THEN [asked EXCEPT ![a] = asked[a] \cup {p}] ELSE asked
      /\ mail' = mail \ {<<a, p>>} /\ hook' = [hook EXCEPT ![h] = Quiet] /\ hook[h].at = "bound"
      /\ UNCHANGED <<numbers, page, begun, came, typed, wrong, calls, crossed>>
  BY <1>p DEF CommitClaim
<1>2. p # Nobody /\ Delivering(h, a) /\ p \in came[a] /\ Quiet.at = "idle"
  BY <1>p, <1>1, HookAt, WaLoginAssumption DEF CameByCode, Quiet
<1>w. p \in Withheld => n = 0
  BY <1>p, <1>2 DEF WithheldUnasked, Delivering
<1>3. /\ att'[a] \in Row /\ att'[a].state = att[a].state
      /\ att'[a].by \in {p, att[a].by} /\ att'[a].by # Nobody /\ (att[a].by = Nobody => att'[a].by = p)
      /\ att'[a].confirm = IF p \in Withheld THEN att[a].confirm ELSE n
      /\ \A b \in Attempt : b # a => att'[b] = att[b]
  <2>1. att[a] \in Row
    BY DEF WaTypeOK
  <2>2. att'[a] = ClaimedBy(att[a], p, n) /\ \A b \in Attempt : b # a => att'[b] = att[b]
    BY <1>1, <1>2 DEF WaTypeOK
  <2>3. ASSUME NEW row \in Row
        PROVE  /\ [row EXCEPT !.by = p] \in Row /\ [row EXCEPT !.by = p].by = p
               /\ [row EXCEPT !.by = p].state = row.state /\ [row EXCEPT !.by = p].confirm = row.confirm
               /\ [row EXCEPT !.by = p, !.confirm = n] \in Row /\ [row EXCEPT !.by = p, !.confirm = n].by = p
               /\ [row EXCEPT !.by = p, !.confirm = n].state = row.state
               /\ [row EXCEPT !.by = p, !.confirm = n].confirm = n
    BY DEF Row
  <2>4. CASE p \notin Withheld
    <3>1. att'[a] = [att[a] EXCEPT !.by = p, !.confirm = n]
      BY <2>2, <2>4 DEF ClaimedBy
    <3>2. att'[a] \in Row /\ att'[a].by = p /\ att'[a].state = att[a].state /\ att'[a].confirm = n
      BY <2>1, <2>3, <3>1
    <3> QED
      BY <1>2, <2>2, <2>4, <3>2
  <2>5. CASE p \in Withheld /\ att[a].by = Nobody
    <3>1. att'[a] = [att[a] EXCEPT !.by = p]
      BY <2>2, <2>5 DEF ClaimedBy
    <3> QED
      BY <1>2, <2>1, <2>2, <2>3, <2>5, <3>1
  <2>6. CASE p \in Withheld /\ att[a].by # Nobody
    BY <1>2, <2>1, <2>2, <2>6 DEF ClaimedBy
  <2> QED
    BY <2>4, <2>5, <2>6
<1>4. /\ n # 0 => asked'[a] = asked[a] \cup {p}
      /\ n = 0 => asked'[a] = asked[a]
      /\ \A b \in Attempt : b # a => asked'[b] = asked[b]
      /\ asked' \in [Attempt -> SUBSET Phone]
  BY <1>1, <1>2 DEF WaTypeOK
<1>5. WaTypeOK'
  <2>1. att' \in [Attempt -> Row]
    BY <1>1, <1>2, <1>3 DEF WaTypeOK
  <2> QED
    BY <1>1, <1>4, <2>1 DEF WaTypeOK
<1>6. \A k \in Hook, b \in Attempt : Delivering(k, b)' => k # h /\ Delivering(k, b) /\ hook'[k] = hook[k]
  BY <1>1, <1>2 DEF Delivering, WaTypeOK
<1>7. \A g \in Page, b \in Attempt : Calling(g, b)' <=> Calling(g, b)
  BY <1>1 DEF Calling
<1>8. CameByCode'
  BY <1>1, <1>2, <1>3, <1>6, <1>7 DEF CameByCode
<1>9. a \notin crossed => /\ asked[a] = {} /\ begun[a] = <<>> /\ wrong[a] = 0
                          /\ att'[a].by = p /\ att'[a].confirm = n
                          /\ \A g \in Page : ~Calling(g, a)
                          /\ \A k \in Hook : ~Delivering(k, a)'
  <2> SUFFICES ASSUME a \notin crossed
               PROVE  /\ asked[a] = {} /\ begun[a] = <<>> /\ wrong[a] = 0
                      /\ att'[a].by = p /\ att'[a].confirm = n
                      /\ \A g \in Page : ~Calling(g, a)
                      /\ \A k \in Hook : ~Delivering(k, a)'
    OBVIOUS
  <2>1. ClaimedOnce(a)
    BY <1>2
  <2>2. att[a].by = Nobody /\ \A k \in Hook : Delivering(k, a) => k = h
    BY <1>2, <2>1 DEF ClaimedOnce
  <2>3. att[a].confirm = 0
    BY <2>1, <2>2 DEF ClaimedOnce
  <2>4. att'[a].by = p /\ att'[a].confirm = n
    BY <1>3, <1>w, <2>2, <2>3
  <2> QED
    BY <1>6, <2>1, <2>2, <2>4 DEF ClaimedOnce
<1>10. ASSUME NEW b \in Attempt PROVE ClaimedOnce(b)'
  <2>1. ClaimedOnce(a)'
    <3> SUFFICES ASSUME a \notin crossed' PROVE ClaimedOnce(a)'
      BY DEF ClaimedOnce
    <3>c. a \notin crossed
      BY <1>1
    <3>1. \A q \in asked'[a] : q = p /\ n # 0
      BY <1>4, <1>9, <3>c
    <3>2. begun'[a] = <<>> /\ Len(begun'[a]) = 0
      BY <1>1, <1>9, <3>c
    <3>3. p \in Withheld \cup {Nobody} => n = 0
      BY <1>2, <1>w
    <3> QED
      BY <1>2, <1>3, <1>7, <1>9, <3>c, <3>1, <3>2, <3>3 DEF ClaimedOnce
  <2>2. CASE b # a
    BY <1>1, <1>3, <1>4, <1>6, <1>7, <2>2 DEF ClaimedOnce
  <2> QED
    BY <2>1, <2>2
<1>11. ASSUME NEW b \in Attempt PROVE BegunWithin(b)'
  <2>1. att'[b].state = att[b].state
    BY <1>3
  <2> QED
    BY <1>1, <1>5, <1>7, <2>1, NoNewCall
<1>12. ASSUME NEW b \in Attempt PROVE TriesCounted(b)'
  <2>1. TriesCounted(a)'
    <3> SUFFICES ASSUME a \notin crossed' PROVE TriesCounted(a)'
      BY DEF TriesCounted
    <3>c. a \notin crossed
      BY <1>1
    <3>1. Len(begun'[a]) = 0 /\ wrong'[a] = 0 /\ \A g \in Page : ~Calling(g, a)'
      BY <1>1, <1>7, <1>9, <3>c
    <3>2. att'[a].tries \in Nat
      BY <1>3, WaLoginAssumption DEF Row
    <3> QED
      BY <3>1, <3>2, WaLoginAssumption DEF TriesCounted
  <2>2. CASE b # a
    BY <1>1, <1>3, <1>7, <2>2 DEF TriesCounted
  <2> QED
    BY <2>1, <2>2
<1>13. WithheldUnasked'
  BY <1>1, <1>2 DEF WithheldUnasked, WaTypeOK
<1> QED
  BY <1>5, <1>8, <1>10, <1>11, <1>12, <1>13

\* A call of the browser takes up an attempt that is claimed.
LEMMA CallKeeps ==
    ASSUME WaInv, NEW g \in Page, NEW a \in Attempt, NEW new \in PageState, Call(g, a, new),
           new.att = a, new.phone = att[a].by,
           \/ new.at = "claimed" /\ (att[a].confirm = 0 \/ att[a].by \in Withheld)
           \/ new.at = "number" /\ att[a].confirm # 0 /\ new.tries = att[a].tries
    PROVE  WaInv'
<1> USE DEF WaInv
<1>1. /\ page[g].at = "idle" /\ att[a].state = "open" /\ att[a].by # Nobody
      /\ page' = [page EXCEPT ![g] = new]
      /\ calls' = [calls EXCEPT ![a] = IF Cardinality(AtOnce(a)) + 1 > calls[a] THEN Cardinality(AtOnce(a)) + 1 ELSE calls[a]]
      /\ UNCHANGED <<att, numbers, mail, hook, begun, came, typed, asked, wrong, crossed>>
  BY DEF Call, Quiet
<1>2. page'[g] = new /\ \A o \in Page : o # g => page'[o] = page[o]
  BY <1>1 DEF WaTypeOK
<1>c. /\ Cardinality(AtOnce(a)) \in Nat /\ calls'[a] \in Nat
      /\ Cardinality(AtOnce(a)) + 1 <= calls'[a]
      /\ \A b \in Attempt : calls[b] <= calls'[b] /\ (b # a => calls'[b] = calls[b])
      /\ calls' \in [Attempt -> Nat]
  <2>1. Cardinality(AtOnce(a)) \in Nat /\ calls[a] \in Nat
    BY AtOnceIs
  <2>2. calls' \in [Attempt -> Nat] /\ \A b \in Attempt : b # a => calls'[b] = calls[b] /\ calls[b] \in Nat
    BY <1>1, <2>1 DEF WaTypeOK
  <2>3. calls'[a] = IF Cardinality(AtOnce(a)) + 1 > calls[a] THEN Cardinality(AtOnce(a)) + 1 ELSE calls[a]
    BY <1>1 DEF WaTypeOK
  <2>4. calls'[a] \in Nat /\ Cardinality(AtOnce(a)) + 1 <= calls'[a] /\ calls[a] <= calls'[a]
    BY <2>1, <2>3
  <2>5. \A b \in Attempt : b # a => calls[b] <= calls'[b]
    BY <2>2
  <2> QED
    BY <2>1, <2>2, <2>4, <2>5
<1>3. WaTypeOK'
  BY <1>1, <1>c DEF WaTypeOK
<1>5. /\ \A o \in Page, b \in Attempt : Calling(o, b)' => (o = g /\ b = a) \/ (o # g /\ Calling(o, b))
      /\ \A h \in Hook, b \in Attempt : Delivering(h, b)' <=> Delivering(h, b)
  BY <1>1, <1>2 DEF Calling, Delivering
<1>6. CameByCode'
  BY <1>1, <1>2, <1>5 DEF CameByCode
<1>7. ASSUME NEW b \in Attempt PROVE ClaimedOnce(b)'
  <2> SUFFICES ASSUME b \notin crossed PROVE ClaimedOnce(b)'
    BY <1>1 DEF ClaimedOnce
  <2>1. ClaimedOnce(b)
    OBVIOUS
  <2>2. \A o \in Page : Calling(o, b)' =>
          /\ att[b].by # Nobody /\ page'[o].phone = att[b].by
          /\ page'[o].at = "claimed" /\ page'[o].phone \in asked[b] => page'[o].phone \in typed[b]
    <3> SUFFICES ASSUME NEW o \in Page, Calling(o, b)'
                 PROVE  /\ att[b].by # Nobody /\ page'[o].phone = att[b].by
                        /\ page'[o].at = "claimed" /\ page'[o].phone \in asked[b] => page'[o].phone \in typed[b]
      OBVIOUS
    <3>1. CASE o = g /\ b = a
      BY <1>1, <1>2, <2>1, <3>1 DEF ClaimedOnce
    <3>2. CASE o # g /\ Calling(o, b)
      BY <1>2, <2>1, <3>2 DEF ClaimedOnce
    <3> QED
      BY <1>5, <3>1, <3>2
  <2> QED
    BY <1>1, <1>5, <2>1, <2>2 DEF ClaimedOnce
<1>8. ASSUME NEW b \in Attempt PROVE BegunWithin(b)'
  <2>1. CASE b # a
    <3>1. \A o \in Page : Calling(o, b)' => Calling(o, b)
      BY <1>5, <2>1
    <3> QED
      BY <1>1, <1>3, <1>c, <2>1, <3>1, NoNewCall
  <2>2. CASE b = a
    <3>1. Len(begun[a]) = 0
      <4>1. ~(Len(begun[a]) > 0) /\ Len(begun[a]) \in Nat
        BY <1>1, AtOnceIs DEF BegunWithin
      <4> QED
        BY <4>1
    <3>2. g \notin AtOnce(a) /\ AtOnce(a)' \ {g} = AtOnce(a) \ {g} /\ AtOnce(a)' \in SUBSET Page
      <4>1. g \notin AtOnce(a)
        BY <1>1, AtOnceIs DEF Calling
      <4> QED
        BY <1>2, <4>1 DEF AtOnce
    <3>3. Cardinality(AtOnce(a)') <= Cardinality(AtOnce(a)) + 1 /\ Cardinality(AtOnce(a)') \in Nat
      <4>1. AtOnce(a) \in SUBSET Page
        BY AtOnceIs
      <4> HIDE DEF AtOnce
      <4>2. /\ Cardinality(AtOnce(a)) \in Nat /\ Cardinality(AtOnce(a)') \in Nat
            /\ (g \in AtOnce(a) <=> g \in AtOnce(a)') => Cardinality(AtOnce(a)') = Cardinality(AtOnce(a))
            /\ g \notin AtOnce(a) /\ g \in AtOnce(a)' => Cardinality(AtOnce(a)') = Cardinality(AtOnce(a)) + 1
        BY <3>2, <4>1, WaLoginAssumption, OneMoved
      <4> QED
        BY <3>2, <4>2
    <3>4. Len(begun'[a]) = 0 /\ Len(begun'[a]) + Cardinality(AtOnce(a)') <= calls'[a]
      BY <1>1, <1>c, <3>1, <3>3
    <3> QED
      BY <2>2, <3>4 DEF BegunWithin
  <2> QED
    BY <2>1, <2>2
<1>9. ASSUME NEW b \in Attempt PROVE TriesCounted(b)'
  <2> SUFFICES ASSUME calls'[b] <= 1, b \notin crossed PROVE TriesCounted(b)'
    BY <1>1 DEF TriesCounted
  <2>1. TriesCounted(b) /\ calls[b] <= 1
    <3>1. calls[b] \in Nat /\ calls'[b] \in Nat /\ calls[b] <= calls'[b]
      BY <1>c, AtOnceIs
    <3> QED
      BY <3>1
  <2>2. \A o \in Page : Calling(o, b)' =>
         /\ page'[o].at = "number" => att[b].confirm # 0 /\ page'[o].tries = att[b].tries
         /\ page'[o].at = "claimed" => att[b].confirm = 0
    <3>1. ClaimedOnce(b) /\ (att[b].by \in Withheld => att[b].confirm = 0)
      BY DEF ClaimedOnce
    <3> QED
      BY <1>2, <1>5, <2>1, <3>1 DEF TriesCounted
  <2> QED
    BY <1>1, <2>1, <2>2 DEF TriesCounted
<1>10. WithheldUnasked'
  BY <1>1 DEF WithheldUnasked
<1> QED
  BY <1>3, <1>6, <1>7, <1>8, <1>9, <1>10

\* Polling, giving a name, and typing a number.
LEMMA BrowserCalls ==
    ASSUME WaInv, NEW g \in Page, NEW a \in Attempt,
           Poll(g, a) \/ Complete(g, a) \/ \E n \in 0 .. Len(numbers) : TypeNumber(g, a, n)
    PROVE  WaInv'
<1>1. att[a] \in Row /\ 0 \in 0 .. MaxNumbers /\ 0 \in 0 .. MaxTries
      /\ numbers \in Seq(Phone) /\ Len(numbers) <= MaxNumbers
  BY WaLoginAssumption DEF WaInv, WaTypeOK
<1>2. att[a].confirm \in 0 .. MaxNumbers /\ att[a].tries \in 0 .. MaxTries /\ att[a].by \in Phone \cup {Nobody}
  BY <1>1 DEF Row
<1>3. ASSUME NEW name \in BOOLEAN, att[a].by \in Withheld \/ Proven(a), Call(g, a, Claimed(a, att[a].by, name)) PROVE WaInv'
  <2> DEFINE new == [at |-> "claimed", att |-> a, phone |-> att[a].by, name |-> name,
                     typed |-> 0, confirm |-> 0, tries |-> 0]
  <2>1. att[a].by \in Phone
    BY <1>2, <1>3 DEF Call
  <2>2. new \in PageState /\ new.at = "claimed" /\ new.att = a /\ new.phone = att[a].by
    BY <1>1, <2>1 DEF PageState
  <2>3. Call(g, a, new)
    BY <1>3 DEF Claimed
  <2> HIDE DEF new
  <2> QED
    BY <1>3, <2>2, <2>3, CallKeeps DEF Proven
<1>4. ASSUME NEW n \in 0 .. Len(numbers), TypeNumber(g, a, n) PROVE WaInv'
  <2> DEFINE new == [at |-> "number", att |-> a, phone |-> att[a].by, name |-> FALSE, typed |-> n,
                     confirm |-> att[a].confirm, tries |-> att[a].tries]
  <2>1. att[a].by \in Phone
    BY <1>2, <1>4 DEF TypeNumber, Call
  <2>2. n \in 0 .. MaxNumbers
    BY <1>1, WaLoginAssumption
  <2>3. new \in PageState /\ new.at = "number" /\ new.att = a /\ new.phone = att[a].by /\ new.tries = att[a].tries
    BY <1>2, <2>1, <2>2 DEF PageState
  <2>4. Call(g, a, new) /\ att[a].confirm # 0
    BY <1>4 DEF TypeNumber
  <2> HIDE DEF new
  <2> QED
    BY <2>3, <2>4, CallKeeps
<1> QED
  BY <1>3, <1>4 DEF Poll, Complete

\* A number is judged: the try is counted on the row, and the right one lets its
\* phone on.
LEMMA CheckKeeps == ASSUME WaInv, NEW g \in Page, CheckNumber(g) PROVE WaInv'
<1> USE DEF WaInv
<1>p. PICK a \in Attempt, p \in Phone, k \in 0 .. MaxTries, right \in BOOLEAN :
          /\ a = page[g].att /\ p = page[g].phone /\ k = page[g].tries
          /\ right = (page[g].typed = page[g].confirm)
  BY PageAt DEF CheckNumber
<1>1. /\ page[g].at = "number" /\ Calling(g, a) /\ page[g] \in PageState /\ p \in came[a] /\ Quiet.at = "idle"
      /\ UNCHANGED <<numbers, mail, hook, begun, came, asked, calls, crossed>>
  BY <1>p, PageAt DEF CheckNumber, CameByCode, Quiet
<1>2. \A m \in mail : m[2] \in came[m[1]]
  BY DEF CameByCode
<1>3. CASE ~(GoodTry(g) /\ att[a].state = "open")
  <2>1. page' = [page EXCEPT ![g] = Quiet] /\ UNCHANGED <<att, typed, wrong>>
    BY <1>p, <1>3 DEF CheckNumber
  <2>2. WaTypeOK' /\ \A o \in Page : page'[o].at # "idle" => page'[o] = page[o]
    BY <1>1, <2>1 DEF WaTypeOK
  <2> QED
    BY <1>1, <1>2, <2>1, <2>2, Rests
<1>4. CASE GoodTry(g) /\ att[a].state = "open"
  <2> DEFINE row == [[att[a] EXCEPT !.tries = k + 1] EXCEPT !.confirm = IF right THEN 0 ELSE att[a].confirm]
             next == IF right THEN Claimed(a, p, FALSE) ELSE Quiet
  <2>1. /\ k < MaxTries
        /\ att' = [att EXCEPT ![a] = row]
        /\ page' = [page EXCEPT ![g] = next]
        /\ typed' = IF right THEN [typed EXCEPT ![a] = typed[a] \cup {p}] ELSE typed
        /\ wrong' = IF right THEN wrong ELSE [wrong EXCEPT ![a] = wrong[a] + 1]
    BY <1>p, <1>4 DEF CheckNumber, GoodTry, TriesLeft
  <2>2. /\ row \in Row /\ row.by = att[a].by /\ row.tries = k + 1 /\ row.state = att[a].state
        /\ right => row.confirm = 0
        /\ ~right => row.confirm = att[a].confirm
    <3>1. k + 1 \in 0 .. MaxTries /\ 0 \in 0 .. MaxNumbers /\ att[a] \in Row
      BY <2>1, WaLoginAssumption DEF WaTypeOK
    <3> QED
      BY <3>1 DEF Row
  <2>3. /\ next \in {Quiet} \cup PageState
        /\ right => next.at = "claimed" /\ next.att = a /\ next.phone = p
        /\ ~right => next.at = "idle"
    <3>1. 0 \in 0 .. MaxTries /\ 0 \in 0 .. MaxNumbers
      BY WaLoginAssumption
    <3> QED
      BY <1>1, <3>1 DEF Claimed, PageState
  <2> HIDE DEF row, next
  <2>4. /\ att'[a] = row /\ \A b \in Attempt : b # a => att'[b] = att[b]
        /\ page'[g] = next /\ \A o \in Page : o # g => page'[o] = page[o]
    BY <2>1 DEF WaTypeOK
  <2>5. /\ \A b \in Attempt : typed[b] \subseteq typed'[b]
        /\ right => p \in typed'[a] /\ wrong' = wrong
        /\ ~right => wrong'[a] = wrong[a] + 1
        /\ \A b \in Attempt : b # a => wrong'[b] = wrong[b]
        /\ typed' \in [Attempt -> SUBSET Phone] /\ wrong' \in [Attempt -> Nat]
    BY <2>1 DEF WaTypeOK
  <2>6. WaTypeOK'
    <3>1. att' \in [Attempt -> Row] /\ page' \in [Page -> {Quiet} \cup PageState]
      BY <2>1, <2>2, <2>3 DEF WaTypeOK
    <3> QED
      BY <1>1, <2>5, <3>1 DEF WaTypeOK
  <2>7. /\ \A o \in Page, b \in Attempt :
              Calling(o, b)' => Calling(o, b) /\ (o # g \/ (o = g /\ b = a /\ right /\ page'[o] = next))
        /\ \A h \in Hook, b \in Attempt : Delivering(h, b)' <=> Delivering(h, b)
        /\ \A o \in Page : o # g => page'[o] = page[o]
    BY <1>1, <2>3, <2>4 DEF Calling, Delivering
  <2>8. CameByCode'
    <3>1. \A o \in Page, b \in Attempt : Calling(o, b)' => page'[o].phone \in came[b]
      BY <1>1, <2>3, <2>7 DEF CameByCode
    <3>2. \A b \in Attempt : att'[b].by = att[b].by
      BY <2>2, <2>4
    <3> QED
      BY <1>1, <2>7, <3>1, <3>2 DEF CameByCode
  <2>9. ASSUME NEW b \in Attempt PROVE ClaimedOnce(b)'
    <3> SUFFICES ASSUME b \notin crossed PROVE ClaimedOnce(b)'
      BY <1>1 DEF ClaimedOnce
    <3>1. ClaimedOnce(b) /\ att'[b].by = att[b].by
      BY <2>2, <2>4
    <3>2. b = a => att[b].by # Nobody /\ p = att[b].by
      BY <1>1, <1>p, <3>1 DEF ClaimedOnce
    <3>3. att[b].by = Nobody => wrong'[b] = wrong[b]
      BY <2>5, <3>2
    <3>4. att'[b].by \in asked[b] /\ att'[b].confirm = 0 => att'[b].by \in typed'[b]
      BY <2>2, <2>4, <2>5, <3>1, <3>2 DEF ClaimedOnce
    <3>5. \A o \in Page : Calling(o, b)' =>
            /\ att[b].by # Nobody /\ page'[o].phone = att[b].by
            /\ page'[o].at = "claimed" /\ page'[o].phone \in asked[b] => page'[o].phone \in typed'[b]
      <4> SUFFICES ASSUME NEW o \in Page, Calling(o, b)'
                   PROVE  /\ att[b].by # Nobody /\ page'[o].phone = att[b].by
                          /\ page'[o].at = "claimed" /\ page'[o].phone \in asked[b] => page'[o].phone \in typed'[b]
        OBVIOUS
      <4>1. CASE o = g
        BY <2>3, <2>5, <2>7, <3>2, <4>1
      <4>2. CASE o # g
        BY <2>5, <2>7, <3>1, <4>2 DEF ClaimedOnce
      <4> QED
        BY <4>1, <4>2
    <3>6. att'[b].by \in Withheld \cup {Nobody} => att'[b].confirm = 0
      BY <2>2, <2>4, <3>1 DEF ClaimedOnce
    <3>7. \A o \in Page : att'[b].by = Nobody => ~Calling(o, b)'
      BY <3>1, <3>5
    <3> HIDE DEF WaInv
    <3> QED
      BY <1>1, <2>5, <2>7, <3>1, <3>3, <3>4, <3>5, <3>6, <3>7 DEF ClaimedOnce
  <2>10. ASSUME NEW b \in Attempt PROVE BegunWithin(b)'
    <3>1. att'[b].state = att[b].state
      BY <2>2, <2>4
    <3> QED
      BY <1>1, <2>6, <2>7, <3>1, NoNewCall
  <2>11. ASSUME NEW b \in Attempt PROVE TriesCounted(b)'
    <3> SUFFICES ASSUME calls[b] <= 1, b \notin crossed PROVE TriesCounted(b)'
      BY <1>1 DEF TriesCounted
    <3>1. CASE b # a
      BY <1>1, <2>4, <2>5, <2>7, <3>1 DEF TriesCounted
    <3>2. CASE b = a
      <4>1. att[a].confirm # 0 /\ k = att[a].tries /\ wrong[a] <= k /\ wrong[a] \in Nat
        BY <1>p, <1>1, <3>2 DEF TriesCounted, WaTypeOK
      <4>2. Len(begun[a]) # 1 /\ \A o \in Page : Calling(o, a) => o = g
        <5>1. /\ \A o, l \in Page : Calling(o, a) /\ Calling(l, a) => o = l
              /\ \A o \in Page : Calling(o, a) => Len(begun[a]) < 1
          BY <3>2, OneByOne
        <5>2. Len(begun[a]) \in Nat /\ Len(begun[a]) < 1
          BY <1>1, <5>1, AtOnceIs
        <5>3. \A n \in Nat : n < 1 => n # 1
          OBVIOUS
        <5>4. Len(begun[a]) # 1
          BY <5>2, <5>3, Zenon
        <5> QED
          BY <1>1, <5>1, <5>4
      <4>3. wrong[a] < MaxTries
        BY <2>1, <4>1, WaLoginAssumption
      <4>4. CASE right
        <5>1. att'[a].confirm = 0 /\ wrong'[a] < MaxTries
          BY <2>2, <2>4, <2>5, <4>3, <4>4
        <5>2. \A o \in Page : Calling(o, a)' => page'[o].at = "claimed"
          BY <2>3, <2>4, <2>7, <4>2, <4>4
        <5> QED
          BY <1>1, <3>2, <4>2, <5>1, <5>2 DEF TriesCounted
      <4>5. CASE ~right
        <5>1. att'[a].confirm # 0 /\ wrong'[a] <= att'[a].tries
          BY <2>2, <2>4, <2>5, <4>1, <4>5
        <5>2. \A o \in Page : ~Calling(o, a)'
          BY <2>7, <4>2, <4>5
        <5> QED
          BY <1>1, <3>2, <4>2, <5>1, <5>2 DEF TriesCounted
      <4> QED
        BY <4>4, <4>5
    <3> QED
      BY <3>1, <3>2
  <2>12. WithheldUnasked'
    BY <1>1 DEF WithheldUnasked
  <2> QED
    BY <2>6, <2>8, <2>9, <2>10, <2>11, <2>12
<1> QED
  BY <1>3, <1>4

\* A session begins, a name is waited for, or the attempt is spent.
LEMMA EnterKeeps == ASSUME WaInv, NEW g \in Page, Enter(g) PROVE WaInv'
<1> USE DEF WaInv
<1>p. PICK a \in Attempt, p \in Phone : a = page[g].att /\ p = page[g].phone
  BY PageAt DEF Enter
<1>1. /\ page[g].at = "claimed" /\ Calling(g, a) /\ p \in came[a] /\ Quiet.at = "idle"
      /\ page' = [page EXCEPT ![g] = Quiet]
      /\ UNCHANGED <<numbers, mail, hook, came, typed, asked, wrong, calls, crossed>>
  BY <1>p, PageAt DEF Enter, CameByCode, Quiet
<1>2. \A m \in mail : m[2] \in came[m[1]]
  BY DEF CameByCode
<1>3. page' \in [Page -> {Quiet} \cup PageState] /\ page'[g].at = "idle" /\ \A o \in Page : o # g => page'[o] = page[o]
  BY <1>1 DEF WaTypeOK
<1>4. /\ Consumed(a) \in [Attempt -> Row] /\ Consumed(a)[a].state = "gone"
      /\ \A b \in Attempt : /\ Consumed(a)[b].by = att[b].by /\ Consumed(a)[b].confirm = att[b].confirm
                            /\ Consumed(a)[b].tries = att[b].tries
                            /\ att[b].state = "gone" => Consumed(a)[b].state = "gone"
  <2>1. ASSUME NEW row \in Row
        PROVE  /\ [row EXCEPT !.state = "gone"] \in Row /\ [row EXCEPT !.state = "gone"].by = row.by
               /\ [row EXCEPT !.state = "gone"].confirm = row.confirm /\ [row EXCEPT !.state = "gone"].tries = row.tries
               /\ [row EXCEPT !.state = "gone"].state = "gone"
    BY DEF Row
  <2>2. Consumed(a) = [att EXCEPT ![a] = [att[a] EXCEPT !.state = "gone"]]
    BY DEF Consumed
  <2> QED
    BY <2>1, <2>2 DEF WaTypeOK
<1>5. CASE begun' = begun /\ att' \in {att, Consumed(a)}
  <2>1. WaTypeOK'
    BY <1>1, <1>3, <1>4, <1>5 DEF WaTypeOK
  <2> QED
    BY <1>1, <1>2, <1>3, <1>4, <1>5, <2>1, Rests
<1>6. CASE att' = Consumed(a) /\ begun' = [begun EXCEPT ![a] = Append(begun[a], p)]
  <2>1. begun[a] \in Seq(Phone) /\ begun'[a] = Append(begun[a], p) /\ \A b \in Attempt : b # a => begun'[b] = begun[b]
    BY <1>6 DEF WaTypeOK
  <2>2. Len(begun'[a]) = Len(begun[a]) + 1
        /\ \A i \in 1 .. Len(begun'[a]) : begun'[a][i] = p \/ (i \in 1 .. Len(begun[a]) /\ begun'[a][i] = begun[a][i])
    BY <2>1
  <2>3. WaTypeOK'
    <3>1. begun' \in [Attempt -> Seq(Phone)]
      BY <1>6, <2>1 DEF WaTypeOK
    <3> QED
      BY <1>1, <1>3, <1>4, <1>6, <3>1 DEF WaTypeOK
  <2>4. /\ \A o \in Page, b \in Attempt : Calling(o, b)' => o # g /\ Calling(o, b)
        /\ \A h \in Hook, b \in Attempt : Delivering(h, b)' <=> Delivering(h, b)
    BY <1>1, <1>3 DEF Calling, Delivering
  <2>5. CameByCode'
    <3>1. \A b \in Attempt : \A i \in 1 .. Len(begun'[b]) : begun'[b][i] \in came[b]
      <4>1. \A i \in 1 .. Len(begun'[a]) : begun'[a][i] \in came[a]
        BY <1>1, <2>2 DEF CameByCode
      <4> QED
        BY <2>1, <4>1 DEF CameByCode
    <3>2. \A b \in Attempt : att'[b].by = att[b].by
      BY <1>4, <1>6
    <3>3. \A o \in Page, b \in Attempt : Calling(o, b)' => page'[o].phone \in came[b]
      BY <1>3, <2>4 DEF CameByCode
    <3> QED
      BY <1>1, <2>4, <3>1, <3>2, <3>3 DEF CameByCode
  <2>6. ASSUME NEW b \in Attempt PROVE ClaimedOnce(b)'
    <3> SUFFICES ASSUME b \notin crossed PROVE ClaimedOnce(b)'
      BY <1>1 DEF ClaimedOnce
    <3>1. ClaimedOnce(b) /\ att'[b].by = att[b].by /\ att'[b].confirm = att[b].confirm
      BY <1>4, <1>6
    <3>2. b = a => att[b].by # Nobody /\ (p \in asked[b] => p \in typed[b])
      BY <1>1, <1>p, <3>1 DEF ClaimedOnce
    <3>3. \A i \in 1 .. Len(begun'[b]) : begun'[b][i] \in asked[b] => begun'[b][i] \in typed[b]
      <4>1. CASE b = a
        BY <2>2, <3>1, <3>2, <4>1 DEF ClaimedOnce
      <4>2. CASE b # a
        BY <2>1, <3>1, <4>2 DEF ClaimedOnce
      <4> QED
        BY <4>1, <4>2
    <3>4. att[b].by = Nobody => begun'[b] = begun[b]
      BY <2>1, <3>2
    <3> QED
      BY <1>1, <1>3, <2>4, <3>1, <3>3, <3>4 DEF ClaimedOnce
  <2>7. ASSUME NEW b \in Attempt PROVE BegunWithin(b)'
    <3>1. CASE b = a
      <4>1. /\ Len(begun[a]) \in Nat /\ calls[a] \in Nat /\ g \in AtOnce(a) /\ AtOnce(a) \in SUBSET Page
            /\ Len(begun[a]) + Cardinality(AtOnce(a)) <= calls[a]
        BY <1>1, AtOnceIs DEF BegunWithin
      <4>2. g \notin AtOnce(a)' /\ AtOnce(a)' \ {g} = AtOnce(a) \ {g} /\ AtOnce(a)' \in SUBSET Page
        BY <1>3 DEF AtOnce, WaTypeOK, PageState, Quiet
      <4>3. /\ Cardinality(AtOnce(a)) \in Nat
            /\ Cardinality(AtOnce(a)') = Cardinality(AtOnce(a)) - 1
        <5> HIDE DEF AtOnce
        <5> QED
          BY <4>1, <4>2, WaLoginAssumption, OneMoved
      <4>4. att'[a].state = "gone" /\ calls' = calls
        BY <1>1, <1>4, <1>6
      <4>5. Len(begun'[a]) + Cardinality(AtOnce(a)') <= calls'[a]
        BY <2>2, <4>1, <4>3, <4>4
      <4> QED
        BY <3>1, <4>4, <4>5 DEF BegunWithin
    <3>2. CASE b # a
      <4>1. att[b].state = "gone" => att'[b].state = "gone"
        BY <1>4, <1>6
      <4> QED
        BY <1>1, <2>1, <2>3, <2>4, <3>2, <4>1, NoNewCall
    <3> QED
      BY <3>1, <3>2
  <2>8. ASSUME NEW b \in Attempt PROVE TriesCounted(b)'
    <3> SUFFICES ASSUME calls[b] <= 1, b \notin crossed PROVE TriesCounted(b)'
      BY <1>1 DEF TriesCounted
    <3>1. att'[b].confirm = att[b].confirm /\ att'[b].tries = att[b].tries
      BY <1>4, <1>6
    <3>2. b = a => wrong[b] < MaxTries
      BY <1>1 DEF TriesCounted
    <3> QED
      BY <1>1, <1>3, <2>1, <2>4, <3>1, <3>2 DEF TriesCounted
  <2>9. WithheldUnasked'
    BY <1>1 DEF WithheldUnasked
  <2> QED
    BY <2>3, <2>5, <2>6, <2>7, <2>8, <2>9
<1> QED
  BY <1>p, <1>5, <1>6 DEF Enter

\* Before anything was opened.
LEMMA WaStart == WaInit => WaInv
<1> SUFFICES ASSUME WaInit PROVE WaInv
  OBVIOUS
<1>1. [state |-> "none", late |-> FALSE, by |-> Nobody, confirm |-> 0, tries |-> 0] \in Row
  BY WaLoginAssumption DEF Row
<1>2. WaTypeOK
  BY <1>1, WaLoginAssumption DEF WaInit, WaTypeOK
<1>3. /\ \A h \in Hook, a \in Attempt : ~Delivering(h, a)
      /\ \A g \in Page, a \in Attempt : ~Calling(g, a)
  BY DEF WaInit, Delivering, Calling, Quiet
<1>4. \A a \in Attempt : /\ att[a].by = Nobody /\ begun[a] = <<>> /\ Len(begun[a]) = 0
                        /\ asked[a] = {} /\ wrong[a] = 0
  BY DEF WaInit
<1>5. CameByCode
  BY <1>3, <1>4 DEF WaInit, CameByCode
<1>9. WithheldUnasked
  BY DEF WaInit, WithheldUnasked, Quiet
<1>6. ASSUME NEW a \in Attempt PROVE ClaimedOnce(a)
  BY <1>3, <1>4 DEF WaInit, ClaimedOnce
<1>7. ASSUME NEW a \in Attempt PROVE BegunWithin(a)
  <2>1. Cardinality({}) = 0
    BY FS_EmptySet
  <2>2. AtOnce(a) = {} /\ calls[a] = 0
    BY DEF WaInit, AtOnce
  <2> QED
    BY <1>4, <2>1, <2>2 DEF BegunWithin
<1>8. ASSUME NEW a \in Attempt PROVE TriesCounted(a)
  BY <1>3, <1>4, WaLoginAssumption DEF WaInit, TriesCounted
<1> QED
  BY <1>2, <1>5, <1>6, <1>7, <1>8, <1>9 DEF WaInv

\* Every step.
LEMMA WaKept == WaInv /\ [WaNext]_waVars => WaInv'
  BY OutsideRests, FindKeeps, BindKeeps, CommitKeeps, BrowserCalls, CheckKeeps, EnterKeeps DEF WaNext, Deliver, Browse

\* Whoever is signed in from an attempt sent its code; and where the phone was sent a
\* number back, that number was typed, unless two deliveries for the attempt were at
\* work at once (routes of the sign-in).
THEOREM SignedInRightly == WaSpec => []SignedInByTheirPhone
<1>1. WaInv => SignedInByTheirPhone
  BY DEF WaInv, CameByCode, ClaimedOnce, SignedInByTheirPhone
<1> QED
  BY <1>1, WaStart, WaKept, PTL DEF WaSpec

\* An attempt starts no more sessions than calls of its browser were at work at once;
\* and where they came one by one, and deliveries too, none once its tries are used up
\* (_wa_login_session, confirm).
THEOREM OneSessionAlways == WaSpec => []OneSessionEach
<1>1. ASSUME WaInv PROVE OneSessionEach
  <2> SUFFICES ASSUME NEW a \in Attempt
               PROVE  /\ Len(begun[a]) <= calls[a]
                      /\ calls[a] <= 1 /\ a \notin crossed /\ wrong[a] >= MaxTries => begun[a] = <<>>
    BY DEF OneSessionEach
  <2>a. WaTypeOK /\ BegunWithin(a) /\ TriesCounted(a)
    BY <1>1 DEF WaInv
  <2>1. Len(begun[a]) <= calls[a]
    <3>1. Cardinality(AtOnce(a)) \in Nat /\ Len(begun[a]) \in Nat /\ calls[a] \in Nat
      BY <2>a, AtOnceIs
    <3> QED
      BY <2>a, <3>1 DEF BegunWithin
  <2>2. ASSUME calls[a] <= 1, a \notin crossed, wrong[a] >= MaxTries PROVE begun[a] = <<>>
    <3>1. begun[a] \in Seq(Phone) /\ Len(begun[a]) \in Nat /\ wrong[a] \in Nat
      BY <2>a, AtOnceIs DEF WaTypeOK
    <3>2. Len(begun[a]) <= 1
      BY <2>a, <2>2, OneByOne
    <3>3. Len(begun[a]) # 1
      BY <2>a, <2>2, <3>1, WaLoginAssumption DEF TriesCounted
    <3>4. \A n \in Nat : n <= 1 => n = 0 \/ n = 1
      OBVIOUS
    <3>5. Len(begun[a]) = 0
      BY <3>1, <3>2, <3>3, <3>4, Zenon
    <3> QED
      BY <3>1, <3>5
  <2> QED
    BY <2>1, <2>2
<1> QED
  BY <1>1, WaStart, WaKept, PTL DEF WaSpec

-----------------------------------------------------------------------------
(***************************************************************************)
(* The one-time code.  A row can be replaced by a commit and counted up by *)
(* a check; what holds rests on whose a code is: that of a request until   *)
(* its row is committed, then of at most one check at a time, which still  *)
(* finds in the row what it read when it locked it.                        *)
(***************************************************************************)
\* The parts of the state the property depends on.
OtpTypeOK ==
    /\ otp \in [Code -> OtpRow]
    /\ made \in 0 .. MaxCodes
    /\ ask \in [Ask -> {Waiting} \cup AskState]
    /\ guess \in [Guess -> {NoGuess} \cup GuessState]
    /\ taken \subseteq Code
    /\ uses \in [Code -> Nat]
    /\ tried \in [Code -> Nat]
    /\ crowd \in Nat

\* Rows count every guess and remember every sign-in.
Accounted ==
    \A c \in Code : /\ tried[c] = otp[c].tries
                    /\ uses[c] <= 1
                    /\ uses[c] # 0 => otp[c].spent = TRUE

\* A code that is being made has no row yet, and is of one request.
Unborn ==
    /\ \A c \in Code : c > made => otp[c].status = "none"
    /\ \A c \in Code : otp[c].status = "none" => otp[c].tries = 0 /\ otp[c].spent = FALSE
    /\ \A q \in Ask : ask[q] # Waiting =>
           /\ ask[q] \in AskState /\ ask[q].code <= made
           /\ otp[ask[q].code].status = "none"
    /\ \A q, o \in Ask : ask[q] # Waiting /\ ask[o] # Waiting /\ q # o => ask[q].code # ask[o].code

\* A check that holds a code finds in its row what it read.
InOneHand ==
    /\ \A v \in Guess : guess[v] # NoGuess =>
           /\ guess[v] \in GuessState
           /\ otp[guess[v].code].status = "sent"
           /\ otp[guess[v].code].spent = FALSE
           /\ otp[guess[v].code].tries = guess[v].tries
           /\ guess[v].tries < MaxGuesses
    /\ \A v, w \in Guess : guess[v] # NoGuess /\ guess[w] # NoGuess /\ v # w
           => guess[v].code # guess[w].code

OtpInv == OtpTypeOK /\ Accounted /\ Unborn /\ InOneHand

\* What a judged guess leaves of the row.
LEMMA JudgedRow ==
    ASSUME NEW row \in OtpRow, NEW n \in 0 .. MaxGuesses, NEW right \in BOOLEAN
    PROVE  /\ Judged(row, n, right) \in OtpRow
           /\ Judged(row, n, right).status = row.status /\ Judged(row, n, right).tries = n
           /\ right => Judged(row, n, right).spent = TRUE
<1>1. row.spent \in BOOLEAN
  BY DEF OtpRow
<1>2. Judged(row, n, right).spent = (row.spent \/ right)
  BY DEF OtpRow, Judged
<1>3. (row.spent \/ right) \in BOOLEAN
  OBVIOUS
<1>4. /\ Judged(row, n, right) \in OtpRow
      /\ Judged(row, n, right).status = row.status /\ Judged(row, n, right).tries = n
  BY <1>2, <1>3 DEF OtpRow, Judged
<1>5. right => Judged(row, n, right).spent = TRUE
  BY <1>1, <1>2
<1> QED
  BY <1>4, <1>5

\* Before any code is made there is nothing to account for.
LEMMA OtpStart == OtpInit => OtpInv
  BY OtpAssumption DEF OtpInit, OtpInv, OtpTypeOK, OtpRow, Age, Accounted, Unborn, InOneHand, Waiting, NoGuess

\* The requests at work, and one more.
LEMMA AtWorkIs == AtWork \in SUBSET Ask /\ IsFiniteSet(AtWork) /\ Cardinality(AtWork) \in Nat
<1>1. AtWork \in SUBSET Ask
  BY DEF AtWork
<1> QED
  BY <1>1, OtpAssumption, FewerOf, FS_Subset

\* A request takes the next code, which has no row and is nobody else's.
LEMMA WeighKeeps ==
    ASSUME OtpInv, NEW q \in Ask, NEW p \in Caller, NEW ip \in Address, Weigh(q, p, ip)
    PROVE  OtpInv'
<1> DEFINE new == [at |-> "weighed", phone |-> p, from |-> ip, new |-> IsNew(p),
                   code |-> made + 1, age |-> 0]
<1>0. IsNew(p) \in BOOLEAN
  BY DEF IsNew
<1>1. /\ made' = made + 1 /\ made + 1 \in Code
      /\ new \in AskState
      /\ ask' = [ask EXCEPT ![q] = new]
      /\ UNCHANGED <<otp, guess, taken, uses, tried>>
  BY <1>0, OtpAssumption DEF Weigh, OtpInv, OtpTypeOK, Code, AskState, Age
<1>a. new.code = made + 1
  OBVIOUS
<1> HIDE DEF new
<1>b. crowd' \in Nat
  BY AtWorkIs DEF Weigh, Grown, OtpInv, OtpTypeOK
<1>2. OtpTypeOK'
  BY <1>1, <1>b, OtpAssumption, SMTT(30) DEF OtpInv, OtpTypeOK, Code
<1>3. Accounted' /\ InOneHand'
  BY <1>1 DEF OtpInv, Accounted, InOneHand
<1>4. \A o \in Ask : o # q /\ ask'[o] # Waiting => ask'[o] = ask[o] /\ ask[o] \in AskState /\ ask[o].code <= made
  BY <1>1 DEF OtpInv, OtpTypeOK, Unborn
<1>5. ask'[q] = new /\ new.code = made + 1 /\ otp[made + 1].status = "none"
  BY <1>1, <1>a, OtpAssumption DEF OtpInv, OtpTypeOK, Unborn, Code
<1>6. made \in Nat /\ \A o \in Ask : ask[o] \in AskState => ask[o].code \in Nat
  BY DEF OtpInv, OtpTypeOK, AskState, Code
<1>7. Unborn'
  <2>1. \A c \in Code : c > made' => otp'[c].status = "none"
    BY <1>1, <1>6 DEF OtpInv, Unborn, Code
  <2>2. \A c \in Code : otp'[c].status = "none" => otp'[c].tries = 0 /\ otp'[c].spent = FALSE
    BY <1>1 DEF OtpInv, Unborn
  <2>3. \A o \in Ask : ask'[o] # Waiting =>
           /\ ask'[o] \in AskState /\ ask'[o].code <= made'
           /\ otp'[ask'[o].code].status = "none"
    BY <1>1, <1>4, <1>5, <1>6 DEF OtpInv, Unborn
  <2>4. \A o \in Ask : o # q /\ ask'[o] # Waiting => ask'[o].code # ask'[q].code
    BY <1>4, <1>5, <1>6
  <2>5. \A o, u \in Ask : ask'[o] # Waiting /\ ask'[u] # Waiting /\ o # u => ask'[o].code # ask'[u].code
    BY <1>4, <2>4 DEF OtpInv, Unborn
  <2> QED
    BY <2>1, <2>2, <2>3, <2>5 DEF Unborn
<1> QED
  BY <1>2, <1>3, <1>7 DEF OtpInv

\* The post changes neither whose code it is nor any row; a dead request has none.
LEMMA PostKeeps ==
    ASSUME OtpInv, NEW q \in Ask, PostCode(q) \/ AskDies(q) PROVE OtpInv'
<1>1. ask[q] \in AskState
  BY DEF OtpInv, OtpTypeOK, PostCode, AskDies, Unborn, Waiting
<1>2. /\ ask' \in [Ask -> {Waiting} \cup AskState]
      /\ \A o \in Ask : ask'[o] # Waiting =>
             ask[o] # Waiting /\ ask'[o] \in AskState /\ ask'[o].code = ask[o].code
  <2>1. CASE AskDies(q)
    BY <2>1 DEF AskDies, OtpInv, OtpTypeOK, Unborn
  <2>2. CASE PostCode(q)
    <3>1. PICK answer \in {"sent", "failed", "account"} : ask' = [ask EXCEPT ![q].at = answer]
      BY <2>2 DEF PostCode
    <3>2. [ask[q] EXCEPT !.at = answer] \in AskState /\ [ask[q] EXCEPT !.at = answer].code = ask[q].code
      BY <1>1 DEF AskState
    <3>3. ask[q] # Waiting
      BY <2>2 DEF PostCode, Waiting
    <3> QED
      BY <3>1, <3>2, <3>3 DEF OtpInv, OtpTypeOK, Unborn
  <2> QED
    BY <2>1, <2>2
<1>3. taken' \subseteq Code /\ UNCHANGED <<otp, made, guess, uses, tried, crowd>>
  BY <1>1 DEF PostCode, AskDies, otpSeen, OtpInv, OtpTypeOK, AskState
<1> QED
  BY <1>2, <1>3 DEF OtpInv, OtpTypeOK, Accounted, Unborn, InOneHand

\* A committed row is that of a code nobody has guessed at, as it had none before.
LEMMA SaveKeeps == ASSUME OtpInv, NEW q \in Ask, SaveCode(q) PROVE OtpInv'
<1> DEFINE c == ask[q].code
<1>1. /\ ask[q] \in AskState /\ c \in Code /\ c <= made
      /\ otp[c].status = "none" /\ otp[c].tries = 0 /\ otp[c].spent = FALSE
      /\ ask[q] # Waiting
  BY DEF SaveCode, OtpInv, OtpTypeOK, Unborn, Waiting, AskState
<1>2. PICK row \in OtpRow : /\ otp' = [otp EXCEPT ![c] = row]
                            /\ row.status # "none" /\ row.tries = 0 /\ row.spent = FALSE
  <2>1. PICK status \in {"sent", "suppressed", "failed"} : Saved(q, status)
    BY DEF SaveCode
  <2> DEFINE row == [status |-> status, phone |-> ask[q].phone, from |-> ask[q].from, new |-> ask[q].new,
                     age |-> ask[q].age, tries |-> 0, spent |-> FALSE]
  <2>2. row \in OtpRow
    BY <1>1, OtpAssumption DEF OtpRow, AskState
  <2> QED
    BY <2>1, <2>2 DEF Saved
<1>3. ask' = [ask EXCEPT ![q] = Waiting] /\ UNCHANGED <<made, guess, taken, uses, tried, crowd>>
  BY DEF SaveCode, otpSeen
<1>4. OtpTypeOK'
  BY <1>2, <1>3 DEF OtpInv, OtpTypeOK
<1>5. \A d \in Code : otp'[d] = IF d = c THEN row ELSE otp[d]
  BY <1>2 DEF OtpInv, OtpTypeOK
<1>6. Accounted'
  BY <1>1, <1>2, <1>3, <1>5 DEF OtpInv, Accounted
<1>7. \A o \in Ask : ask'[o] # Waiting => o # q /\ ask'[o] = ask[o]
  BY <1>3 DEF OtpInv, OtpTypeOK
<1>8. Unborn'
  <2>1. \A d \in Code : d > made' => otp'[d].status = "none"
    BY <1>1, <1>3, <1>5 DEF OtpInv, OtpTypeOK, Unborn, Code
  <2>2. \A d \in Code : otp'[d].status = "none" => otp'[d].tries = 0 /\ otp'[d].spent = FALSE
    BY <1>2, <1>5 DEF OtpInv, Unborn
  <2>3. \A o \in Ask : ask'[o] # Waiting => ask'[o].code # c /\ ask'[o].code \in Code
    BY <1>1, <1>7 DEF OtpInv, Unborn, AskState
  <2>4. \A o \in Ask : ask'[o] # Waiting =>
           /\ ask'[o] \in AskState /\ ask'[o].code <= made'
           /\ otp'[ask'[o].code].status = "none"
    BY <1>3, <1>5, <1>7, <2>3 DEF OtpInv, Unborn
  <2>5. \A o, u \in Ask : ask'[o] # Waiting /\ ask'[u] # Waiting /\ o # u => ask'[o].code # ask'[u].code
    BY <1>7 DEF OtpInv, Unborn
  <2> QED
    BY <2>1, <2>2, <2>4, <2>5 DEF Unborn
<1>9. InOneHand'
  <2>1. \A v \in Guess : guess[v] # NoGuess => guess[v].code # c /\ guess[v].code \in Code
    BY <1>1 DEF OtpInv, InOneHand, GuessState
  <2> QED
    BY <1>3, <1>5, <2>1 DEF OtpInv, InOneHand
<1> QED
  BY <1>4, <1>6, <1>8, <1>9 DEF OtpInv

\* A check locks a live code that no other check holds.
LEMMA HoldKeeps ==
    ASSUME OtpInv, NEW v \in Guess, NEW p \in Caller, NEW entry \in taken, HoldCode(v, p, entry)
    PROVE  OtpInv'
<1>1. PICK c \in Newest(p) :
         /\ NotHeld(c) /\ ~Dead(c)
         /\ guess' = [guess EXCEPT ![v] = [code |-> c, typed |-> entry, tries |-> otp[c].tries]]
  BY DEF HoldCode
<1>2. c \in Code /\ otp[c].status = "sent" /\ otp[c] \in OtpRow
  BY <1>1 DEF Newest, SentTo, OtpInv, OtpTypeOK
<1>3. otp[c].tries \in 0 .. MaxGuesses /\ otp[c].tries < MaxGuesses /\ otp[c].spent = FALSE
  BY <1>1, <1>2, OtpAssumption DEF Dead, OtpRow
<1>4. UNCHANGED <<otp, made, ask, taken, uses, tried, crowd>>
  BY DEF HoldCode, otpSeen
<1>5. [code |-> c, typed |-> entry, tries |-> otp[c].tries] \in GuessState
  BY <1>2, <1>3 DEF GuessState, OtpInv, OtpTypeOK
<1>6. OtpTypeOK'
  BY <1>1, <1>4, <1>5 DEF OtpInv, OtpTypeOK
<1>7. Accounted' /\ Unborn'
  BY <1>4 DEF OtpInv, Accounted, Unborn
<1>8. InOneHand'
  <2>1. guess'[v] = [code |-> c, typed |-> entry, tries |-> otp[c].tries]
    BY <1>1 DEF OtpInv, OtpTypeOK
  <2>2. \A w \in Guess : w # v => guess'[w] = guess[w] /\ guess[w].code # c
    BY <1>1 DEF OtpInv, OtpTypeOK, NotHeld
  <2> QED
    BY <1>2, <1>3, <1>4, <1>5, <2>1, <2>2 DEF OtpInv, InOneHand
<1> QED
  BY <1>6, <1>7, <1>8 DEF OtpInv

\* A judged guess is counted in the row it was read from; only one is judged right.
LEMMA JudgeKeeps == ASSUME OtpInv, NEW v \in Guess, JudgeGuess(v) PROVE OtpInv'
<1> DEFINE c == guess[v].code
           right == guess[v].typed = c
           n == guess[v].tries + 1
<1>1. /\ guess[v] \in GuessState /\ c \in Code
      /\ otp[c].status = "sent" /\ otp[c].spent = FALSE /\ otp[c].tries = guess[v].tries
      /\ otp[c] \in OtpRow
      /\ tried[c] = guess[v].tries /\ n \in 0 .. MaxGuesses
      /\ uses[c] \in Nat /\ uses[c] <= 1
  BY OtpAssumption DEF JudgeGuess, OtpInv, OtpTypeOK, InOneHand, Accounted, GuessState
<1>2. uses[c] = 0
  BY <1>1 DEF OtpInv, Accounted
<1>3. /\ otp' = [otp EXCEPT ![c] = Judged(otp[c], n, right)]
      /\ tried' = [tried EXCEPT ![c] = tried[c] + 1]
      /\ uses' = IF right THEN [uses EXCEPT ![c] = uses[c] + 1] ELSE uses
      /\ guess' = [guess EXCEPT ![v] = NoGuess]
      /\ UNCHANGED <<made, ask, taken, crowd>>
  BY DEF JudgeGuess
<1>4. right \in BOOLEAN
  OBVIOUS
<1>5. /\ Judged(otp[c], n, right) \in OtpRow
      /\ Judged(otp[c], n, right).status = "sent" /\ Judged(otp[c], n, right).tries = n
      /\ right => Judged(otp[c], n, right).spent = TRUE
  <2> HIDE DEF n, right
  <2> QED
    BY <1>1, <1>4, JudgedRow
<1>6. \A d \in Code : d # c => otp'[d] = otp[d] /\ tried'[d] = tried[d] /\ uses'[d] = uses[d]
  BY <1>3 DEF OtpInv, OtpTypeOK
<1>7. otp'[c] = Judged(otp[c], n, right) /\ tried'[c] = n /\ uses'[c] = IF right THEN 1 ELSE 0
  BY <1>1, <1>2, <1>3 DEF OtpInv, OtpTypeOK
<1>8. OtpTypeOK'
  BY <1>1, <1>3, <1>5 DEF OtpInv, OtpTypeOK
<1>9. Accounted'
  BY <1>5, <1>6, <1>7 DEF OtpInv, Accounted
<1>10. Unborn'
  <2>1. \A d \in Code : otp'[d].status = "none" <=> otp[d].status = "none"
    BY <1>1, <1>5, <1>6, <1>7
  <2>2. \A d \in Code : otp'[d].status = "none" => otp'[d] = otp[d]
    BY <1>5, <1>6, <1>7
  <2>3. \A q \in Ask : ask[q] # Waiting => ask[q].code \in Code
    BY DEF OtpInv, Unborn, AskState
  <2> QED
    BY <1>3, <2>1, <2>2, <2>3 DEF OtpInv, Unborn
<1>11. InOneHand'
  <2>1. \A w \in Guess : guess'[w] # NoGuess =>
           w # v /\ guess'[w] = guess[w] /\ guess[w].code # c /\ guess[w].code \in Code
    BY <1>1, <1>3 DEF OtpInv, OtpTypeOK, InOneHand, GuessState, JudgeGuess
  <2> QED
    BY <1>6, <2>1 DEF OtpInv, InOneHand
<1> QED
  BY <1>8, <1>9, <1>10, <1>11 DEF OtpInv

\* Time makes codes older and changes nothing else.
LEMMA WaitKeeps == ASSUME OtpInv, NEW k \in 1 .. 3, Wait(k) PROVE OtpInv'
<1>1. UNCHANGED <<made, guess, taken, uses, tried, crowd>>
  BY DEF Wait, otpSeen
<1>2. /\ otp' \in [Code -> OtpRow]
      /\ \A c \in Code : /\ otp'[c].status = otp[c].status /\ otp'[c].tries = otp[c].tries
                         /\ otp'[c].spent = otp[c].spent
  <2>1. \A row \in OtpRow : LET older == [row EXCEPT !.age = k]
                            IN  /\ older \in OtpRow /\ older.status = row.status
                                /\ older.tries = row.tries /\ older.spent = row.spent
    BY DEF OtpRow, Age
  <2>2. otp' = [c \in Code |-> IF otp[c].status # "none" /\ otp[c].age < k
                               THEN [otp[c] EXCEPT !.age = k] ELSE otp[c]]
    BY DEF Wait
  <2>3. \A c \in Code : otp[c] \in OtpRow
    BY DEF OtpInv, OtpTypeOK
  <2> QED
    BY <2>1, <2>2, <2>3
<1>3. \A row \in AskState : [row EXCEPT !.age = k] \in AskState /\ [row EXCEPT !.age = k].code = row.code
  BY DEF AskState, Age
<1>4. /\ ask' \in [Ask -> {Waiting} \cup AskState]
      /\ \A q \in Ask : ask'[q] # Waiting =>
             ask[q] # Waiting /\ ask'[q] \in AskState /\ ask'[q].code = ask[q].code /\ ask[q].code \in Code
  BY <1>3 DEF Wait, OtpInv, OtpTypeOK, Unborn, AskState
<1>5. \A v \in Guess : guess[v] # NoGuess => guess[v].code \in Code
  BY DEF OtpInv, InOneHand, GuessState
<1>6. Accounted'
  BY <1>1, <1>2 DEF OtpInv, Accounted
<1>7. Unborn'
  BY <1>1, <1>2, <1>4 DEF OtpInv, Unborn
<1>8. InOneHand'
  BY <1>1, <1>2, <1>5 DEF OtpInv, InOneHand
<1> QED
  BY <1>1, <1>2, <1>4, <1>6, <1>7, <1>8 DEF OtpInv, OtpTypeOK

\* Every step keeps the account of the codes.
LEMMA OtpKept == OtpInv /\ [OtpNext]_otpVars => OtpInv'
<1> SUFFICES ASSUME OtpInv, [OtpNext]_otpVars PROVE OtpInv'
  OBVIOUS
<1>1. ASSUME NEW p \in Caller, NEW ip \in Address, RefuseForCap(p, ip) PROVE OtpInv'
  BY <1>1 DEF RefuseForCap, OtpInv, OtpTypeOK, Accounted, Unborn, InOneHand
<1>2. CASE FlipPause
  BY <1>2 DEF FlipPause, otpSeen, OtpInv, OtpTypeOK, Accounted, Unborn, InOneHand
<1>3. CASE UNCHANGED otpVars
  BY <1>3 DEF otpVars, OtpInv, OtpTypeOK, Accounted, Unborn, InOneHand
<1> QED
  BY <1>1, <1>2, <1>3, WeighKeeps, PostKeeps, SaveKeeps, HoldKeeps, JudgeKeeps, WaitKeeps DEF OtpNext

\* However many checks of a code run at once, it signs in once and is guessed at no
\* more often than its limit: the lock of verify_code is enough, whatever requests for
\* new codes do meanwhile.
THEOREM OneUseAlways == OtpSpec => []OneUseWithinTries
<1>1. OtpInv => OneUseWithinTries
  BY OtpAssumption DEF OtpInv, OtpTypeOK, Accounted, OneUseWithinTries, OtpRow
<1> QED
  BY <1>1, OtpKept, OtpStart, PTL DEF OtpSpec

-----------------------------------------------------------------------------
(***************************************************************************)
(* One code at a time: a code made for a number that is not cooling down   *)
(* is fresh beside no code but those of other requests at work.            *)
(***************************************************************************)

\* The codes of a number still cooling down, with those a request is at work on.
Fresh(p) ==
    {c \in Code : \/ otp[c].status # "none" /\ otp[c].phone = p /\ otp[c].age = 0
                  \/ \E q \in Ask : ask[q] # Waiting /\ ask[q].code = c /\ ask[q].phone = p /\ ask[q].age = 0}

\* Of a number there are no more than requests were ever at work at once; and a code
\* without a row is nobody's.
WithinCrowd ==
    /\ \A c \in Code : otp[c].status = "none" => otp[c].phone = NoCaller
    /\ Cardinality(AtWork) <= crowd
    /\ \A p \in Caller : Cardinality(Fresh(p)) <= crowd

\* The fresh codes of a number can be counted.
LEMMA FreshIs ==
    ASSUME NEW p \in Caller
    PROVE  Fresh(p) \in SUBSET Code /\ IsFiniteSet(Code) /\ Cardinality(Fresh(p)) \in Nat
<1>1. Fresh(p) \in SUBSET Code
  BY DEF Fresh
<1>2. IsFiniteSet(Code)
  <2>1. \A i, j \in Int : IsFiniteSet(i .. j)
    BY FS_Interval
  <2>2. 1 \in Int /\ MaxCodes \in Int
    BY OtpAssumption
  <2> QED
    BY <2>1, <2>2 DEF Code
<1> QED
  BY <1>1, <1>2, FewerOf

\* Steps that let no code become fresh and no request begin.
LEMMA FreshShrinks ==
    ASSUME WithinCrowd, crowd' = crowd, crowd \in Nat,
           \A c \in Code : otp'[c].status = "none" => otp'[c].phone = NoCaller,
           \A q \in Ask : ask'[q] # Waiting => ask[q] # Waiting,
           \A p \in Caller : Fresh(p)' \subseteq Fresh(p)
    PROVE  WithinCrowd'
<1>1. AtWork' \in SUBSET AtWork
  BY DEF AtWork
<1>2. PICK now : now = AtWork' /\ now \in SUBSET AtWork
  BY <1>1
<1>3. /\ Cardinality(AtWork) \in Nat /\ Cardinality(now) \in Nat
      /\ Cardinality(now) <= Cardinality(AtWork)
  BY <1>2, AtWorkIs, OtpAssumption, FewerOf
<1>4. Cardinality(AtWork)' <= crowd'
  BY <1>2, <1>3 DEF WithinCrowd
<1>5. ASSUME NEW p \in Caller PROVE Cardinality(Fresh(p))' <= crowd'
  <2>1. PICK now2 : now2 = Fresh(p)' /\ now2 \in SUBSET Fresh(p)
    OBVIOUS
  <2>2. /\ Cardinality(Fresh(p)) \in Nat /\ Cardinality(now2) \in Nat
        /\ Cardinality(now2) <= Cardinality(Fresh(p))
    BY <2>1, FreshIs, FewerOf
  <2>3. Cardinality(Fresh(p)) <= crowd
    BY DEF WithinCrowd
  <2>4. Cardinality(now2) <= crowd
    BY <2>2, <2>3
  <2> QED
    BY <2>1, <2>4
<1> QED
  BY <1>4, <1>5 DEF WithinCrowd

\* A code is made for a number that is not cooling down: every fresh code of it is
\* that of a request at work.
LEMMA WeighWithin ==
    ASSUME OtpInv, WithinCrowd, NEW q \in Ask, NEW p \in Caller, NEW ip \in Address, Weigh(q, p, ip)
    PROVE  WithinCrowd'
<1> DEFINE new == [at |-> "weighed", phone |-> p, from |-> ip, new |-> IsNew(p),
                   code |-> made + 1, age |-> 0]
<1>1. /\ ask' = [ask EXCEPT ![q] = new] /\ otp' = otp /\ ask[q] = Waiting
      /\ crowd' = Grown(Cardinality(AtWork) + 1)
      /\ ~Cooling(p)
  BY DEF Weigh, Turned
<1>2. ask'[q] = new /\ \A o \in Ask : o # q => ask'[o] = ask[o]
  BY <1>1 DEF OtpInv, OtpTypeOK
<1>3. new.phone = p /\ new.code = made + 1 /\ new # Waiting
  BY DEF Waiting
<1> HIDE DEF new
<1>4. PICK now : now = AtWork' /\ now \in SUBSET Ask
  BY DEF AtWork
<1>5. Cardinality(AtWork) \in Nat /\ Cardinality(now) = Cardinality(AtWork) + 1
  <2>1. q \in now /\ q \notin AtWork /\ now \ {q} = AtWork \ {q}
    BY <1>1, <1>2, <1>3, <1>4 DEF AtWork
  <2> QED
    BY <1>4, <2>1, AtWorkIs, OtpAssumption, OneMoved
<1>6. crowd' \in Nat /\ crowd \in Nat /\ crowd <= crowd' /\ Cardinality(now) <= crowd'
  BY <1>1, <1>5 DEF Grown, OtpInv, OtpTypeOK
<1>7. ASSUME NEW r \in Caller PROVE Cardinality(Fresh(r))' <= crowd'
  <2>1. CASE r = p
    <3>1. PICK codes : codes = Fresh(p)'
      OBVIOUS
    <3>2. PICK of : of = [o \in Ask |-> ask'[o].code]
      OBVIOUS
    <3>3. \A c \in codes : \E o \in now : c = of[o]
      BY <1>1, <1>4, <3>1, <3>2 DEF Fresh, Cooling, RowsOf, AtWork
    <3>4. codes \in SUBSET {of[o] : o \in now}
      BY <3>3
    <3>5. IsFiniteSet(now)
      BY <1>4, OtpAssumption, FS_Subset
    <3>6. Cardinality(codes) \in Nat /\ Cardinality(now) \in Nat /\ Cardinality(codes) <= Cardinality(now)
      BY <3>4, <3>5, OneOfEach
    <3>7. Cardinality(codes) <= crowd'
      BY <1>6, <3>6
    <3> QED
      BY <2>1, <3>1, <3>7
  <2>2. CASE r # p
    <3>1. Fresh(r)' = Fresh(r)
      BY <1>1, <1>2, <1>3, <2>2 DEF Fresh
    <3>2. Cardinality(Fresh(r)) \in Nat /\ Cardinality(Fresh(r)) <= crowd
      BY FreshIs DEF WithinCrowd
    <3>3. Cardinality(Fresh(r)) <= crowd'
      BY <1>6, <3>2
    <3> QED
      BY <3>1, <3>3
  <2> QED
    BY <2>1, <2>2
<1>8. \A c \in Code : otp'[c].status = "none" => otp'[c].phone = NoCaller
  BY <1>1 DEF WithinCrowd
<1>9. Cardinality(AtWork)' <= crowd'
  BY <1>4, <1>6
<1> QED
  BY <1>7, <1>8, <1>9 DEF WithinCrowd

\* The post changes nothing of whose code it is and how old.
LEMMA PostWithin == ASSUME OtpInv, WithinCrowd, NEW q \in Ask, PostCode(q) PROVE WithinCrowd'
<1>1. PICK answer \in {"sent", "failed", "account"} : ask' = [ask EXCEPT ![q].at = answer]
  BY DEF PostCode
<1>2. UNCHANGED <<otp, crowd>> /\ crowd \in Nat /\ ask[q] \in AskState /\ ask[q] # Waiting
  BY DEF PostCode, OtpInv, OtpTypeOK, Unborn, Waiting
<1>3. /\ ask'[q].code = ask[q].code /\ ask'[q].phone = ask[q].phone /\ ask'[q].age = ask[q].age
      /\ \A o \in Ask : o # q => ask'[o] = ask[o]
  BY <1>1, <1>2 DEF OtpInv, OtpTypeOK, AskState
<1>4. \A p \in Caller : Fresh(p)' \subseteq Fresh(p)
  BY <1>2, <1>3 DEF Fresh
<1> QED
  BY <1>2, <1>3, <1>4, FreshShrinks DEF WithinCrowd

\* A committed row is as old as its request, and of its number.
LEMMA SaveWithin == ASSUME OtpInv, WithinCrowd, NEW q \in Ask, SaveCode(q) PROVE WithinCrowd'
<1>1. PICK status \in {"sent", "suppressed", "failed"} : Saved(q, status)
  BY DEF SaveCode
<1> DEFINE row == [status |-> status, phone |-> ask[q].phone, from |-> ask[q].from, new |-> ask[q].new,
                   age |-> ask[q].age, tries |-> 0, spent |-> FALSE]
           code == ask[q].code
<1>2. otp' = [otp EXCEPT ![code] = row] /\ row.status # "none" /\ row.phone = ask[q].phone /\ row.age = ask[q].age
  BY <1>1 DEF Saved
<1> HIDE DEF row
<1>3. ask' = [ask EXCEPT ![q] = Waiting] /\ crowd' = crowd /\ crowd \in Nat /\ ask[q] # Waiting /\ code \in Code
  BY DEF SaveCode, otpSeen, Waiting, OtpInv, OtpTypeOK, Unborn, AskState
<1>4. /\ otp'[code] = row /\ \A c \in Code : c # code => otp'[c] = otp[c]
      /\ \A o \in Ask : ask'[o] # Waiting => ask'[o] = ask[o]
  BY <1>2, <1>3 DEF OtpInv, OtpTypeOK
<1>5. ASSUME NEW p \in Caller, NEW c \in Fresh(p)' PROVE c \in Fresh(p)
  BY <1>2, <1>3, <1>4, <1>5 DEF Fresh
<1>6. \A c \in Code : otp'[c].status = "none" => otp'[c].phone = NoCaller
  BY <1>2, <1>4 DEF WithinCrowd
<1> QED
  BY <1>3, <1>4, <1>5, <1>6, FreshShrinks

\* A guess changes neither whose a code is nor its age.
LEMMA GuessWithin ==
    ASSUME OtpInv, WithinCrowd,
           (\E v \in Guess, p \in Caller, entry \in taken : HoldCode(v, p, entry)) \/ \E v \in Guess : JudgeGuess(v)
    PROVE  WithinCrowd'
<1>1. UNCHANGED <<ask, crowd>> /\ crowd \in Nat
  BY DEF HoldCode, JudgeGuess, otpSeen, OtpInv, OtpTypeOK
<1>2. \A row \in OtpRow : \A n : \A right \in BOOLEAN :
          /\ Judged(row, n, right).status = row.status
          /\ Judged(row, n, right).phone = row.phone /\ Judged(row, n, right).age = row.age
  BY DEF Judged, OtpRow
<1>3. \A c \in Code : otp'[c].status = otp[c].status /\ otp'[c].phone = otp[c].phone /\ otp'[c].age = otp[c].age
  <2>1. CASE otp' = otp
    BY <2>1
  <2>2. CASE \E v \in Guess : JudgeGuess(v)
    <3>1. PICK v \in Guess : JudgeGuess(v)
      BY <2>2
    <3> DEFINE c == guess[v].code
               n == guess[v].tries + 1
               right == guess[v].typed = c
    <3>2. otp' = [otp EXCEPT ![c] = Judged(@, n, right)] /\ right \in BOOLEAN
      BY <3>1 DEF JudgeGuess
    <3> HIDE DEF c, n, right
    <3>3. \A d \in Code : otp'[d] = IF d = c THEN Judged(otp[d], n, right) ELSE otp[d]
      BY <3>2 DEF OtpInv, OtpTypeOK
    <3> QED
      BY <1>2, <3>2, <3>3 DEF OtpInv, OtpTypeOK
  <2> QED
    BY <2>1, <2>2 DEF HoldCode
<1>4. \A p \in Caller : Fresh(p)' \subseteq Fresh(p)
  BY <1>1, <1>3 DEF Fresh
<1> QED
  BY <1>1, <1>3, <1>4, FreshShrinks DEF WithinCrowd

\* With time no code becomes younger.
LEMMA WaitWithin == ASSUME OtpInv, WithinCrowd, NEW k \in 1 .. 3, Wait(k) PROVE WithinCrowd'
<1>1. crowd' = crowd /\ crowd \in Nat
  BY DEF Wait, otpSeen, OtpInv, OtpTypeOK
<1>2. \A c \in Code : /\ otp'[c].status = otp[c].status /\ otp'[c].phone = otp[c].phone
                      /\ otp'[c].status # "none" /\ otp'[c].age = 0 => otp[c].age = 0
  BY DEF Wait, OtpInv, OtpTypeOK, OtpRow, Age
<1>3. \A j \in AskState : /\ [j EXCEPT !.age = k].code = j.code /\ [j EXCEPT !.age = k].phone = j.phone
                          /\ [j EXCEPT !.age = k].age # 0
  BY DEF AskState
<1>4. \A q \in Ask : ask'[q] = IF ask[q] # Waiting /\ ask[q].age < k THEN [ask[q] EXCEPT !.age = k] ELSE ask[q]
  BY DEF Wait
<1>5. \A q \in Ask : ask'[q] # Waiting => /\ ask[q] # Waiting
                                          /\ ask'[q].code = ask[q].code /\ ask'[q].phone = ask[q].phone
                                          /\ ask'[q].age = 0 => ask[q].age = 0
  BY <1>3, <1>4, ZenonT(60) DEF OtpInv, Unborn
<1>6. \A p \in Caller : Fresh(p)' \subseteq Fresh(p)
  BY <1>2, <1>5 DEF Fresh
<1> QED
  BY <1>1, <1>2, <1>5, <1>6, FreshShrinks DEF WithinCrowd

\* Within the cool-down a number is sent no more codes than there were ever requests
\* at work at once, even if the answer to a post was lost: one, where they do not
\* overlap (request_code).
THEOREM OneAtATimeAlways == OtpSpec => []OneAtATime
<1>1. OtpInit => WithinCrowd
  <2> SUFFICES ASSUME OtpInit PROVE WithinCrowd
    OBVIOUS
  <2>1. AtWork = {} /\ \A p \in Caller : Fresh(p) = {}
    BY DEF OtpInit, AtWork, Fresh, Waiting
  <2>2. Cardinality({}) = 0
    BY FS_EmptySet
  <2>3. Cardinality(AtWork) <= crowd /\ \A p \in Caller : Cardinality(Fresh(p)) <= crowd
    BY <2>1, <2>2, SMTT(30) DEF OtpInit
  <2>4. \A c \in Code : otp[c].phone = NoCaller
    BY DEF OtpInit
  <2> QED
    BY <2>3, <2>4 DEF WithinCrowd
<1>2. OtpInv /\ WithinCrowd /\ [OtpNext]_otpVars => WithinCrowd'
  <2> SUFFICES ASSUME OtpInv, WithinCrowd, [OtpNext]_otpVars PROVE WithinCrowd'
    OBVIOUS
  <2>1. CASE UNCHANGED <<otp, ask, crowd>>
    BY <2>1 DEF WithinCrowd, Fresh, AtWork
  <2>2. CASE (\E p \in Caller, ip \in Address : RefuseForCap(p, ip)) \/ FlipPause \/ UNCHANGED otpVars
    BY <2>1, <2>2 DEF RefuseForCap, FlipPause, otpSeen, otpVars
  <2>3. ASSUME NEW q \in Ask, AskDies(q) PROVE WithinCrowd'
    <3>1. /\ ask' = [ask EXCEPT ![q] = Waiting] /\ otp' = otp
          /\ crowd' = crowd /\ crowd \in Nat
      BY <2>3 DEF AskDies, otpSeen, OtpInv, OtpTypeOK
    <3>2. \A o \in Ask : ask'[o] # Waiting => ask'[o] = ask[o]
      BY <3>1 DEF OtpInv, OtpTypeOK
    <3>3. \A p \in Caller : Fresh(p)' \subseteq Fresh(p)
      BY <3>1, <3>2 DEF Fresh
    <3> QED
      BY <3>1, <3>2, <3>3, FreshShrinks DEF WithinCrowd
  <2> QED
    BY <2>2, <2>3, WeighWithin, PostWithin, SaveWithin, GuessWithin, WaitWithin DEF OtpNext
<1>3. OtpInv /\ WithinCrowd => OneAtATime
  <2> SUFFICES ASSUME OtpInv, WithinCrowd, NEW p \in Caller PROVE Cardinality(JustSent(p)) <= crowd
    BY DEF OneAtATime
  <2>1. JustSent(p) \in SUBSET Fresh(p)
    BY OtpAssumption DEF JustSent, Fresh, WithinCrowd, OtpInv, OtpTypeOK
  <2>2. /\ Cardinality(JustSent(p)) \in Nat /\ Cardinality(Fresh(p)) \in Nat
        /\ Cardinality(JustSent(p)) <= Cardinality(Fresh(p))
    BY <2>1, FreshIs, FewerOf
  <2>3. Cardinality(Fresh(p)) <= crowd /\ crowd \in Nat
    BY DEF WithinCrowd, OtpInv, OtpTypeOK
  <2> QED
    BY <2>2, <2>3
<1> QED
  BY <1>1, <1>2, <1>3, OtpStart, OtpKept, PTL DEF OtpSpec
=============================================================================
