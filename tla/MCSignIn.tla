------------------------------ MODULE MCSignIn ------------------------------
(***************************************************************************)
(* The three parts of signing in, for TLC.  Each hands the next one row    *)
(* that it never touches again (a code that is right opens an attempt that *)
(* is claimed from the start, an attempt ends in a new session), so they   *)
(* are run side by side, one in each behaviour.                            *)
(***************************************************************************)
EXTENDS Sessions, WaLogin, Otp, TLC

VARIABLE part

signInVars == <<sVars, waVars, otpVars, part>>

SignInInit ==
    /\ part \in {"sessions", "message", "code"}
    /\ SessionsInit /\ WaInit /\ OtpInit
    /\ \A p \in IF part = "message" THEN Withheld ELSE Phone : account[p] = "none"

SignInNext ==
    /\ UNCHANGED part
    /\ \/ part = "sessions" /\ SessionsNext /\ UNCHANGED <<waVars, otpVars>>
       \/ part = "message" /\ WaNext /\ UNCHANGED <<sVars, otpVars>>
       \/ part = "code" /\ OtpNext /\ UNCHANGED <<sVars, waVars>>

SignInSpec == SignInInit /\ [][SignInNext]_signInVars

\* Requests are interchangeable; those of the three parts share their names.
CONSTANTS x1, x2
Interchangeable == Permutations({x1, x2})
=============================================================================
