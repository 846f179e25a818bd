--------------------------- MODULE MCReminderQueue ---------------------------
(***************************************************************************)
(* Instances of ReminderQueue for TLC.                                     *)
(***************************************************************************)
EXTENDS ReminderQueue, TLC

CONSTANTS r1, r2, r3, m1, m2

\* Two families, each in the book of a mobed of its own; three, two of them one mobed's.
TwoMobeds == (r1 :> m1) @@ (r2 :> m2)
ThreeFamilies == (r1 :> m1) @@ (r2 :> m1) @@ (r3 :> m2)

\* The families of the observances, by id.
FirstOnly == <<r1>>
OneEach == <<r1, r2>>
OneEachOfThree == <<r1, r2, r3>>
=============================================================================
