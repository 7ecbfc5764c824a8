------------------------------ MODULE Schedule ------------------------------
(***************************************************************************)
(* The earning schedule (internal/config/schedule.go), the commands that    *)
(* edit it (main.go, gui.go) and the form it is saved in (config.go).       *)
(*                                                                          *)
(* Time is an hour of the week.  The names a weekday may be written with    *)
(* are abstracted to the weekday; a name that is none is NoDay.  The days   *)
(* of a window and the windows of a schedule are sets: the code does not    *)
(* depend on their order and repetitions, but for the copy of the first     *)
(* window in start_hour and end_hour, which nothing reads while there are   *)
(* windows.                                                                 *)
(*                                                                          *)
(* Left out: time zones and changes of the clock, which shift the hour of   *)
(* the week; the wording of labels.                                         *)
(***************************************************************************)
EXTENDS Integers, FiniteSetsExt

CONSTANTS
  HoursPerDay, \* 24
  WeekDays,    \* 7
  NoDay,       \* a name that is not a weekday
  NoLabel,     \* no next transition is announced
  Requests,    \* the windows an owner may ask for
  MaxWindows   \* bound: windows of a schedule, for --add

Day == 0 .. WeekDays - 1
HourOfDay == 0 .. HoursPerDay - 1
Hours == 0 .. HoursPerDay * WeekDays - 1

ASSUME ScheduleAssumption ==
  /\ HoursPerDay \in Nat \ {0} /\ WeekDays \in Nat \ {0, 1}
  /\ NoDay \notin Day /\ NoLabel \notin Nat
  /\ MaxWindows \in Nat \ {0}
  /\ Requests \subseteq [start : Int, end : Int, days : SUBSET (Day \cup {NoDay})]

VARIABLES
  now,      \* the hour of the week, in the zone of the schedule
  paused,   \* paused, as saved
  schedule, \* schedule, as saved
  hoursAsked,    \* history: the hours the owner's commands asked for
  everSet,  \* history: a command has set a schedule
  refusal   \* history: the window the last command was refused with, or none

scheduleVars == <<now, paused, schedule, hoursAsked, everSet, refusal>>

(***************************************************************************)
(* Windows.                                                                 *)
(***************************************************************************)

ClampHour(h) == IF h < 0 THEN 0 ELSE IF h >= HoursPerDay THEN HoursPerDay - 1 ELSE h

\* Mutant of NormalizeDays: names that are no weekday are kept.
Mut_NormalizeDays(days) == IF days = Day THEN {} ELSE days

\* No days left means every day, and so do all of them.
NormalizeDays(days) == LET valid == days \cap Day IN IF valid = Day THEN {} ELSE valid

NormalizeWindow(w) ==
  [start |-> ClampHour(w.start), end |-> ClampHour(w.end), days |-> NormalizeDays(w.days)]

\* A schedule without windows has the one of its start_hour and end_hour.
ScheduleWindows(s) ==
  {NormalizeWindow(w) : w \in IF s.windows # {} THEN s.windows
                              ELSE {[start |-> s.start, end |-> s.end, days |-> {}]}}

NormalizeSchedule(s) == [s EXCEPT !.windows = ScheduleWindows(s)]

InDay(h) == h \in HourOfDay
ValidateSchedule(s) ==
  IF s.windows = {} THEN InDay(s.start) /\ InDay(s.end)
  ELSE \A w \in s.windows : InDay(w.start) /\ InDay(w.end) /\ w.days \subseteq Day

DayMatches(days, d) == NormalizeDays(days) = {} \/ d \in NormalizeDays(days)
\* Mutant of PreviousWeekday: the morning belongs to its own day.
Mut_PreviousWeekday(d) == d
PreviousWeekday(d) == (d + WeekDays - 1) % WeekDays

WindowActive(w, t) ==
  LET start == ClampHour(w.start)
      end == ClampHour(w.end)
      hour == t % HoursPerDay
      day == t \div HoursPerDay
  IN \/ start = end /\ DayMatches(w.days, day)
     \/ start < end /\ hour >= start /\ hour < end /\ DayMatches(w.days, day)
     \/ start > end /\ hour >= start /\ DayMatches(w.days, day)
     \/ start > end /\ hour < end /\ DayMatches(w.days, PreviousWeekday(day))

ScheduleOpen(ws, t) == \E w \in ws : WindowActive(w, t)

Later(t, k) == (t + k) % (HoursPerDay * WeekDays)

\* Mutant of NextTransition: one day is looked at.
Mut_NextTransition(ws, t, wantOpen) ==
  LET found == {k \in 1 .. HoursPerDay : ScheduleOpen(ws, Later(t, k)) = wantOpen}
  IN IF found = {} THEN HoursPerDay + 1 ELSE Min(found)

\* Hours from t to the next full hour that is open (or closed), looked for
\* over eight days; one more when there is none.
NextTransition(ws, t, wantOpen) ==
  LET horizon == HoursPerDay * (WeekDays + 1)
      found == {k \in 1 .. horizon : ScheduleOpen(ws, Later(t, k)) = wantOpen}
  IN IF found = {} THEN horizon + 1 ELSE Min(found)

EvaluateEarning(isPaused, s, t) ==
  LET ws == ScheduleWindows(NormalizeSchedule(s))
      open == ScheduleOpen(ws, t)
  IN IF isPaused THEN [mode |-> "paused", open |-> FALSE, next |-> NoLabel]
     ELSE IF ~s.enabled THEN [mode |-> "earning", open |-> TRUE, next |-> NoLabel]
     ELSE [mode |-> IF open THEN "earning" ELSE "scheduled_pause",
           open |-> open, next |-> NextTransition(ws, t, ~open)]

Status == EvaluateEarning(paused, schedule, now)

\* Mutant of Saved: only the windows that are there are written.
Mut_Saved(s) == [s EXCEPT !.start = 0, !.end = 0]

\* What a saved file says of a schedule: the windows it means, and not the
\* start_hour and end_hour of older files.
Saved(s) == [enabled |-> s.enabled, start |-> 0, end |-> 0,
             windows |-> ScheduleWindows(NormalizeSchedule(s))]

NeverScheduled == [enabled |-> FALSE, start |-> 0, end |-> 0, windows |-> {}]

(***************************************************************************)
(* The hours of a window, defined without looking at a clock: on each of    *)
(* its days, the hours that follow its start, up to its end.                *)
(***************************************************************************)
HoursOf(w) ==
  LET days == IF w.days \cap Day = {} THEN Day ELSE w.days \cap Day
      first == IF w.start = w.end THEN 0 ELSE w.start
      length == IF w.start = w.end THEN HoursPerDay
                ELSE (w.end - w.start + HoursPerDay) % HoursPerDay
  IN {Later(d * HoursPerDay + first, k) : d \in days, k \in 0 .. length - 1}

OpenHours(s) == LET ws == ScheduleWindows(NormalizeSchedule(s)) IN {t \in Hours : ScheduleOpen(ws, t)}

(***************************************************************************)
(* Actions.                                                                 *)
(***************************************************************************)

\* A machine enrolled by this version, or a file of an older one with hours
\* and no windows.
ScheduleInit ==
  /\ now \in Hours
  /\ paused = FALSE
  /\ \/ schedule = Saved(NeverScheduled) /\ everSet = FALSE /\ hoursAsked = Hours
     \/ \E start, end \in HourOfDay :
          /\ schedule = [enabled |-> TRUE, start |-> start, end |-> end, windows |-> {}]
          /\ hoursAsked = HoursOf([start |-> start, end |-> end, days |-> {}])
          /\ everSet = TRUE
  /\ refusal = NoLabel

Tick == now' = Later(now, 1) /\ UNCHANGED <<paused, schedule, hoursAsked, everSet, refusal>>

\* Pause and resume load the file, change one field and save it all.
SetPaused(p) ==
  /\ paused' = p
  /\ schedule' = Saved(schedule)
  /\ refusal' = NoLabel
  /\ UNCHANGED <<now, hoursAsked, everSet>>

RefuseWindow(w) == refusal' = w /\ UNCHANGED <<now, paused, schedule, hoursAsked, everSet>>

\* Normalised, and once more when it is saved.
Store(s, hours) ==
  /\ schedule' = Saved(s)
  /\ hoursAsked' = hours
  /\ everSet' = TRUE
  /\ refusal' = NoLabel
  /\ UNCHANGED <<now, paused>>

\* ParseDaysFlag: the flag is refused when no day is left of it.
DaysFlagRefused(days) == days # {} /\ NormalizeDays(days) = {}

CmdSchedule(w, add) ==
  LET parsed == [w EXCEPT !.days = NormalizeDays(w.days)]
      windows == {parsed} \cup IF add THEN ScheduleWindows(NormalizeSchedule(schedule)) ELSE {}
  IN IF DaysFlagRefused(w.days) \/ ~InDay(w.start) \/ ~InDay(w.end)
       THEN RefuseWindow(w)
       ELSE /\ Cardinality(windows) <= MaxWindows
            /\ Store([enabled |-> TRUE, start |-> 0, end |-> 0, windows |-> windows],
                     HoursOf(w) \cup (IF add THEN hoursAsked ELSE {}))

CmdScheduleOff ==
  /\ schedule' = [Saved(schedule) EXCEPT !.enabled = FALSE]
  /\ refusal' = NoLabel
  /\ UNCHANGED <<now, paused, hoursAsked, everSet>>

\* The form in the window, here with one earning window at a time.  An enabled
\* schedule comes with its windows; a draft may leave the saved ones.
GuiSchedule(w, enabled) ==
  LET s == [schedule EXCEPT !.enabled = enabled, !.windows = {w}]
  IN IF ValidateSchedule(s) THEN Store(s, HoursOf(w)) ELSE RefuseWindow(w)

GuiDraft ==
  LET s == [schedule EXCEPT !.enabled = FALSE]
  IN ValidateSchedule(s) /\ Store(s, hoursAsked)

ScheduleNext ==
  \/ Tick
  \/ \E p \in BOOLEAN : SetPaused(p)
  \/ \E w \in Requests, add \in BOOLEAN : CmdSchedule(w, add)
  \/ CmdScheduleOff
  \/ \E w \in Requests, enabled \in BOOLEAN : GuiSchedule(w, enabled)
  \/ GuiDraft

ScheduleSpec == ScheduleInit /\ [][ScheduleNext]_scheduleVars

(***************************************************************************)
(* Properties.                                                              *)
(***************************************************************************)

Windows == [start : HourOfDay, end : HourOfDay, days : SUBSET Day]

ScheduleTypeOK ==
  /\ now \in Hours
  /\ paused \in BOOLEAN
  /\ schedule \in [enabled : BOOLEAN, start : HourOfDay, end : HourOfDay,
                   windows : SUBSET Windows]
  /\ Cardinality(schedule.windows) <= MaxWindows
  /\ hoursAsked \subseteq Hours
  /\ everSet \in BOOLEAN
  /\ refusal \in Requests \cup {NoLabel}

\* The hours that are open are those the owner asked for: over midnight and over
\* the end of the week, through days that are all listed or none, after adding
\* to a schedule, and after the file was saved and read again.
OpenHoursAreAsked == OpenHours(schedule) = hoursAsked

\* The announced transition comes true: an hour later it is an hour nearer, and
\* when it was an hour away, the schedule opens or closes.  A schedule that
\* never closes announces a pause all the same, so it is left out.
LabelComesTrue ==
  [][(Tick /\ Status.next # NoLabel /\ hoursAsked \notin {Hours, {}}) =>
       IF Status.next = 1 THEN Status'.open # Status.open
       ELSE Status'.open = Status.open /\ Status'.next = Status.next - 1]_scheduleVars

\* A command that is not about the hours leaves them alone, though it writes the
\* whole file, whatever version wrote the file before.
OtherCommandsKeepHours ==
  [][paused' # paused => /\ OpenHours(schedule') = OpenHours(schedule)
                         /\ schedule'.enabled = schedule.enabled]_scheduleVars

\* main.go:134: --add adds "this window instead of replacing the schedule", and
\* the command reports "Schedule set" with that window (main.go:170).  On a
\* machine that never had a schedule, the schedule is then that window.
AddedWindowIsTheSchedule ==
  [][\A w \in Requests : (CmdSchedule(w, TRUE) /\ ~everSet /\ everSet') =>
                            OpenHours(schedule') = HoursOf(w)]_scheduleVars

\* schedule.go:275 refuses days because they "must be weekday names": then one
\* of the names is not a weekday, or an hour is none.
RefusedDaysAreNoWeekdays ==
  refusal # NoLabel =>
    NoDay \in refusal.days \/ ~InDay(refusal.start) \/ ~InDay(refusal.end)
=============================================================================
