----------------------------- MODULE MCMemorials -----------------------------
EXTENDS MemorialPlan

D(year, mah, roj) == [year |-> year, mah |-> mah, roj |-> roj]
Rule(opening, named, months, years) ==
    [opening |-> opening, named |-> named, months |-> months, years |-> years,
     parabs |-> "none", parabYears |-> 0, parabCount |-> 0,
     birthday |-> <<>>, birthdayYears |-> 0, fravardin |-> 0]
AllNamed == {10, 29, 30, 59, 60, 179, 180, 359, 360}
SomeDeaths == {D(1394, 12, 30), D(1393, 1, 1), D(1393, 1, 19), D(1392, 6, 15), D(1393, 10, 2),
               D(1393, 13, 5), D(1393, 13, 6)}
SomeWishes ==
    {Rule("days_1_to_10", AllNamed, 0, 0), Rule("none", AllNamed, 13, 2), Rule("days_5_to_9", {10, 360}, 13, 0),
     [Rule("tenth_only", {29, 30, 359}, 2, 1) EXCEPT !.parabs = "all", !.parabYears = 1],
     [Rule("none", {}, 0, 2) EXCEPT !.parabs = "fravardin_tir", !.parabCount = 5, !.fravardin = 14],
     [Rule("none", {}, 1, 0) EXCEPT !.parabs = "all", !.parabCount = 3,
                                    !.birthday = <<19, 1>>, !.birthdayYears = 2]}
SomeLate == {NoDay, 9, 400, 900}
=============================================================================
