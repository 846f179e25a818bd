-------------------------------- MODULE Otp --------------------------------
(***************************************************************************)
(* Sign-in by a six digit code sent over WhatsApp (otp and its routes).    *)
(*                                                                         *)
(* A request counts the codes of the number and of the day, posts a new    *)
(* one, and commits its row only after the post: meanwhile other requests  *)
(* count without it.  A check locks the newest code of its number.  A      *)
(* refusal raises, and what its transaction wrote is not kept unless it    *)
(* was committed first.                                                    *)
(*                                                                         *)
(* It is one day, of a server with codes switched on and an access token;  *)
(* the bot check and the limits of the routes, kept in memory, are left    *)
(* out.                                                                    *)
(***************************************************************************)
EXTENDS Naturals, FiniteSets

CONSTANTS
    Caller,     \* phones for which a code is asked
    NoCaller,   \* none
    Known,      \* phones that may sign in
    Member,     \* ... of which have an account in the morning
    Address,    \* where requests come from
    Ask, Guess, \* requests for a code, and checks of one, at work at once
    MaxCodes,   \* bound: codes made; each is known by its turn
    HourCap, PhoneDayCap,        \* PER_PHONE_HOURLY, PER_PHONE_DAILY
    AddressHour, AddressDayCap,  \* otp_per_address_hourly, otp_per_address_daily
    DayCap,     \* otp_daily_cap
    NewHourCap, \* otp_new_number_hourly_cap
    MaxGuesses    \* MAX_ATTEMPTS

ASSUME OtpAssumption ==
    /\ Member \subseteq Known /\ Known \subseteq Caller /\ NoCaller \notin Caller
    /\ IsFiniteSet(Ask)
    /\ MaxCodes \in Nat /\ MaxGuesses \in Nat \ {0}
    /\ {HourCap, PhoneDayCap, AddressHour, AddressDayCap, DayCap, NewHourCap} \subseteq Nat

Code == 1 .. MaxCodes

VARIABLES
    otp,      \* [Code -> its login_otps row, as committed]
    made,     \* codes made so far
    paused,   \* the pause switch
    alerted,  \* the admins have their "Sign-in code limit reached"
    ask,      \* [Ask -> a request for a code, and where it stands]
    guess,    \* [Guess -> a check, the row it locked and what was typed]
    taken,    \* observer: codes whose message WhatsApp accepted
    uses,     \* observer: [Code -> sign-ins with it]
    tried,    \* observer: [Code -> guesses judged against it]
    capHit,   \* observer: a request was refused for the day's cap
    crowd     \* observer: the most requests for codes at work at once so far

otpSeen == <<taken, uses, tried, capHit, crowd>>
otpVars == <<otp, made, paused, alerted, ask, guess, taken, uses, tried, capHit, crowd>>

\* Ages: within the cool-down, live, expired, more than an hour old.
Age == 0 .. 3
OtpRow == [status : {"none", "sent", "suppressed", "failed"}, phone : Caller \cup {NoCaller},
           from : Address \cup {NoCaller}, new : BOOLEAN, age : Age,
           tries : 0 .. MaxGuesses, spent : BOOLEAN]
Waiting == [at |-> "idle"]
NoGuess == [code |-> 0]
AskState == [at : {"weighed", "sent", "failed", "account"}, phone : Caller, from : Address, new : BOOLEAN,
             code : Code, age : Age]
GuessState == [code : Code, typed : Code, tries : 0 .. MaxGuesses]

OtpInit ==
    /\ otp = [c \in Code |-> [status |-> "none", phone |-> NoCaller, from |-> NoCaller,
                               new |-> FALSE, age |-> 0, tries |-> 0, spent |-> FALSE]]
    /\ made = 0
    /\ paused = FALSE /\ alerted = FALSE
    /\ ask = [q \in Ask |-> Waiting]
    /\ guess = [v \in Guess |-> NoGuess]
    /\ taken = {} /\ capHit = FALSE /\ crowd = 0
    /\ uses = [c \in Code |-> 0] /\ tried = [c \in Code |-> 0]

-----------------------------------------------------------------------------
RowsOf(p) == {c \in Code : otp[c].status # "none" /\ otp[c].phone = p}

\* Mutant: a code that could not be sent does not hold back the next one.
CoolingUnlessFailed(p) == \E c \in RowsOf(p) : otp[c].age = 0 /\ otp[c].status # "failed"
Cooling(p) == \E c \in RowsOf(p) : otp[c].age = 0

Recent(S) == {c \in S : otp[c].age < 3}
Unfailed(p) == {c \in RowsOf(p) : otp[c].status # "failed"}
FromThere(ip) == {c \in Code : otp[c].status # "none" /\ otp[c].from = ip}
Today == {c \in Code : otp[c].status = "sent"}

\* An account begins with the first code that is right.
IsNew(p) == p \notin Member /\ \A c \in RowsOf(p) : ~otp[c].spent
Strangers == {c \in Today : otp[c].new}

\* Refused before the money is looked at: for the number, or for the address.
Turned(p, ip) ==
    \/ paused \/ Cooling(p)
    \/ Cardinality(Recent(Unfailed(p))) >= HourCap \/ Cardinality(Unfailed(p)) >= PhoneDayCap
    \/ Cardinality(Recent(FromThere(ip))) >= AddressHour
    \/ Cardinality(FromThere(ip)) >= AddressDayCap
AtDayCap == Cardinality(Today) >= DayCap
\* And after it, a number without an account.
TooManyNew(p) == IsNew(p) /\ Cardinality(Recent(Strangers)) >= NewHourCap

\* The day's cap is reached: an alert is written, and the refusal that follows ends
\* the transaction without a commit.
KeptOfRefusal == alerted

RefuseForCap(p, ip) ==
    /\ ~Turned(p, ip) /\ AtDayCap
    /\ alerted' = KeptOfRefusal
    /\ capHit' = TRUE
    /\ UNCHANGED <<otp, made, paused, ask, guess, taken, uses, tried, crowd>>

AtWork == {q \in Ask : ask[q] # Waiting}
Grown(n) == IF n > crowd THEN n ELSE crowd

\* Within all limits: a code is made; its row is seen by nobody else before the commit.
\* (A refusal other than that of the day's cap leaves nothing behind, and is no step.)
Weigh(q, p, ip) ==
    /\ ask[q] = Waiting /\ made < MaxCodes
    /\ ~Turned(p, ip) /\ ~AtDayCap /\ ~TooManyNew(p)
    /\ made' = made + 1
    /\ ask' = [ask EXCEPT ![q] = [at |-> "weighed", phone |-> p, from |-> ip, new |-> IsNew(p),
                                   code |-> made + 1, age |-> 0]]
    /\ crowd' = Grown(Cardinality(AtWork) + 1)
    /\ UNCHANGED <<otp, paused, alerted, guess, taken, uses, tried, capHit>>

\* The post: accepted; refused, or the answer lost; or refused for the account itself.
PostCode(q) ==
    /\ ask[q].at = "weighed" /\ ask[q].phone \in Known
    /\ \E accepted \in BOOLEAN, answer \in {"sent", "failed", "account"} :
         /\ answer = "sent" => accepted
         /\ answer = "account" => ~accepted
         /\ taken' = IF accepted THEN taken \cup {ask[q].code} ELSE taken
         /\ ask' = [ask EXCEPT ![q].at = answer]
    /\ UNCHANGED <<otp, made, paused, alerted, guess, uses, tried, capHit, crowd>>

Saved(q, status) ==
    otp' = [otp EXCEPT ![ask[q].code] = [status |-> status, phone |-> ask[q].phone,
                                         from |-> ask[q].from, new |-> ask[q].new,
                                         age |-> ask[q].age, tries |-> 0, spent |-> FALSE]]

\* The row is committed: a number that could not sign in was sent nothing, and a
\* problem with the account pauses all sending.
SaveCode(q) ==
    /\ \/ /\ ask[q].at = "weighed" /\ ask[q].phone \notin Known
          /\ Saved(q, "suppressed") /\ UNCHANGED paused
       \/ /\ ask[q].at \in {"sent", "failed"}
          /\ Saved(q, ask[q].at) /\ UNCHANGED paused
       \/ /\ ask[q].at = "account"
          /\ Saved(q, "failed") /\ paused' = TRUE
    /\ ask' = [ask EXCEPT ![q] = Waiting]
    /\ UNCHANGED <<made, alerted, guess, otpSeen>>

\* The process dies; the code may have gone, and its row is lost.
AskDies(q) ==
    /\ ask[q] # Waiting
    /\ ask' = [ask EXCEPT ![q] = Waiting]
    /\ UNCHANGED <<otp, made, paused, alerted, guess, otpSeen>>

-----------------------------------------------------------------------------
SentTo(p) == {c \in Code : otp[c].status = "sent" /\ otp[c].phone = p}
Newest(p) == {c \in SentTo(p) : \A b \in SentTo(p) : b <= c}

\* Mutant: the row is read without a lock.
NeverHeld(c) == TRUE
NotHeld(c) == \A v \in Guess : guess[v].code # c

Dead(c) == otp[c].spent \/ otp[c].age >= 2 \/ otp[c].tries >= MaxGuesses

\* verify_code: the newest code of the number is locked and read ...
HoldCode(v, p, typed) ==
    /\ guess[v] = NoGuess
    /\ \E c \in Newest(p) :
         /\ NotHeld(c) /\ ~Dead(c)
         /\ guess' = [guess EXCEPT ![v] = [code |-> c, typed |-> typed, tries |-> otp[c].tries]]
    /\ UNCHANGED <<otp, made, paused, alerted, ask, otpSeen>>

Judged(row, tries, right) == [row EXCEPT !.tries = tries, !.spent = @ \/ right]

\* ... the guess is counted, and the right one spends the code: a sign-in.
JudgeGuess(v) ==
    /\ guess[v] # NoGuess
    /\ LET c == guess[v].code
           right == guess[v].typed = c
       IN  /\ otp' = [otp EXCEPT ![c] = Judged(@, guess[v].tries + 1, right)]
           /\ tried' = [tried EXCEPT ![c] = @ + 1]
           /\ uses' = IF right THEN [uses EXCEPT ![c] = @ + 1] ELSE uses
    /\ guess' = [guess EXCEPT ![v] = NoGuess]
    /\ UNCHANGED <<made, paused, alerted, ask, taken, capHit, crowd>>

\* Time passes: every code is at least of this age.
Wait(k) ==
    /\ otp' = [c \in Code |-> IF otp[c].status # "none" /\ otp[c].age < k
                              THEN [otp[c] EXCEPT !.age = k] ELSE otp[c]]
    /\ otp' # otp
    /\ ask' = [q \in Ask |-> IF ask[q] # Waiting /\ ask[q].age < k
                             THEN [ask[q] EXCEPT !.age = k] ELSE ask[q]]
    /\ UNCHANGED <<made, paused, alerted, guess, otpSeen>>

FlipPause ==
    /\ paused' = ~paused
    /\ UNCHANGED <<otp, made, alerted, ask, guess, otpSeen>>

OtpNext ==
    \/ \E p \in Caller, ip \in Address : RefuseForCap(p, ip) \/ \E q \in Ask : Weigh(q, p, ip)
    \/ \E q \in Ask : PostCode(q) \/ SaveCode(q) \/ AskDies(q)
    \/ \E v \in Guess, p \in Caller, typed \in taken : HoldCode(v, p, typed)
    \/ \E v \in Guess : JudgeGuess(v)
    \/ \E k \in 1 .. 3 : Wait(k)
    \/ FlipPause

OtpSpec == OtpInit /\ [][OtpNext]_otpVars

-----------------------------------------------------------------------------
(***************************************************************************)
(* Properties.                                                             *)
(***************************************************************************)

\* A code signs in once, and no more guesses are judged against it than its limit,
\* though checks of it run at once (verify_code: "which it then spends").
OneUseWithinTries == \A c \in Code : uses[c] <= 1 /\ tried[c] <= MaxGuesses

\* The codes WhatsApp took for p that are no older than the cool-down.
JustSent(p) ==
    {c \in taken : \/ otp[c].phone = p /\ otp[c].age = 0
                   \/ \E q \in Ask : ask[q] # Waiting /\ ask[q].code = c
                                     /\ ask[q].phone = p /\ ask[q].age = 0}

\* "One code at a time to a number": within the cool-down a number is sent no more
\* codes than there were ever requests at work at once - one, where they do not
\* overlap - even if an answer was lost (request_code).  The code of a request that
\* died is not counted, as the code that follows it has no row to know of it.
OneAtATime == \A p \in Caller : Cardinality(JustSent(p)) <= crowd

\* The test "the daily cap stops all codes and alerts the admins" (refuted by a run
\* of its own).
CapAlerts == capHit => alerted
=============================================================================
