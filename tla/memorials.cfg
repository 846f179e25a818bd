SPECIFICATION Spec
CONSTANTS
    LastYear = 2101
    Systems = {"shenshai", "kadmi", "fasli"}
    Deaths <- SomeDeaths
    Wishes <- SomeWishes
    Late <- SomeLate
INVARIANTS
    CalendarAgrees
    DeathIsTheLatest
    ScheduleIsWhatWasAsked
    NamesAreKept
    PassedDaysAreLeftOut
CHECK_DEADLOCK FALSE
