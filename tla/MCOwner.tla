------------------------------ MODULE MCOwner ------------------------------
(* TLC instances of what the owner of the machine does: Schedule,            *)
(* ConfigStore and GuiController.  They share no variable, and no property   *)
(* relates two of them, so a behaviour explores one of them and leaves the   *)
(* others where they begin, instead of all their interleavings.              *)
EXTENDS Schedule, ConfigStore, GuiController

CONSTANTS Parts, m1, m2, p1, p2, w1, w2

VARIABLE explored

(* The hours of a short week: every shape of window occurs, wrapping the day, *)
(* the week, or neither.                                                      *)
Window(start, end, days) == [start |-> start, end |-> end, days |-> days]

\* Every window on every day, on the first and on the last of the week.
EveryShape ==
  {Window(s, e, days) : s, e \in HourOfDay, days \in {{}, {0}, {WeekDays - 1}}}

\* And input no schedule should be made of, or that only looks special.
Odd == {Window(1, 2, {NoDay}), Window(1, 2, {0, NoDay}), Window(0, HoursPerDay, {}),
        Window(-1, 1, {0}), Window(2, 1, {1})}

OwnerRequests == EveryShape \cup Odd
DayLists == {Window(1, 2, days) : days \in SUBSET Day}
AnyWindow == EveryShape

Init ==
  /\ explored \in Parts
  /\ ScheduleInit /\ (explored # "schedule" => now = 0 /\ ~everSet)
  /\ ConfigInit /\ (explored # "config" => config = NoFile)
  /\ GuiInit

Next ==
  \/ explored = "schedule" /\ ScheduleNext /\ UNCHANGED <<explored, configVars, guiVars>>
  \/ explored = "config" /\ ConfigNext /\ UNCHANGED <<explored, scheduleVars, guiVars>>
  \/ explored = "gui" /\ GuiNext /\ UNCHANGED <<explored, scheduleVars, configVars>>

Spec == Init /\ [][Next]_<<explored, scheduleVars, configVars, guiVars>>

\* The app alone, with the fairness of its goroutines.
FairSpec == Spec /\ GuiFairness
=============================================================================
