------------------------------- MODULE Schedule -------------------------------
(***************************************************************************)
(* The loop of the scheduler container (app/scheduler.py): it computes the *)
(* next weekday slot, sleeps until then, runs `idx-platform daily` for the *)
(* date it wakes up on, waits for the command, and begins again.           *)
(*                                                                         *)
(* Time is counted in hours from the midnight before a Monday, in Jakarta  *)
(* time (which has no daylight saving).  A sleep may end late, the command *)
(* may take any time, and the container may be down for any time.          *)
(***************************************************************************)
EXTENDS Integers, FiniteSetsExt

CONSTANTS HoursPerDay,
          Hour,         \* SCHEDULER_HOUR
          MaxLate,      \* hours by which a sleep may end late
          Horizon,      \* bound: hours
          MaxOutages    \* bound: stops of the container

ASSUME ScheduleAssumption ==
    /\ HoursPerDay \in Nat \ {0} /\ Hour \in 0..(HoursPerDay - 1)
    /\ MaxLate \in Nat /\ Hour + MaxLate < HoursPerDay  \* it wakes up the same day
    /\ Horizon \in Nat /\ MaxOutages \in Nat

VARIABLES now, phase, scheduled,
          launches,  \* history: the dates of the commands
          away,      \* history: the days whose slot found the loop busy or down
          outages    \* history: how often the container stopped

scheduleVars == <<now, phase, scheduled, launches, away, outages>>

Day(t) == t \div HoursPerDay
Slot(d) == d * HoursPerDay + Hour

Weekend(d) == d % 7 >= 5

\* Mutant: a slot that has come is not passed.
FromThisHour(t) == Min({d \in Day(t)..Day(t) + 3 : Slot(d) >= t /\ ~Weekend(d)})

\* Mutant: the candidate is always tomorrow.
FromTomorrow(t) == Min({d \in Day(t) + 1..Day(t) + 3 : ~Weekend(d)})

\* The first weekday after t's slot, or t's day if the slot is still to come.
NextDay(t) == Min({d \in Day(t)..Day(t) + 3 : Slot(d) > t /\ ~Weekend(d)})

NextScheduledRun(t) == Slot(NextDay(t))

\* The day at whose slot (or within the lateness of a sleep) t is.
SlotDays(t) == {d \in {Day(t)} : Slot(d) <= t /\ t <= Slot(d) + MaxLate}

ScheduleInit == /\ now = 0 /\ phase = "down" /\ scheduled = 0
                /\ launches = {} /\ away = SlotDays(0) /\ outages = 0

\* The iteration of the loop up to time.sleep.
Plan == /\ phase = "ready"
        /\ scheduled' = NextScheduledRun(now)
        /\ phase' = "sleeping"
        /\ UNCHANGED <<now, launches, away, outages>>

EndDate == Day(now)

\* The sleep ends, and the command starts with today's date.
RunCommand == /\ phase = "sleeping" /\ now >= scheduled
              /\ phase' = "running"
              /\ launches' = launches \cup {EndDate}
              /\ UNCHANGED <<now, scheduled, away, outages>>

\* The command ends; whatever its exit code, only a line is logged.
Return == /\ phase = "running" /\ phase' = "ready"
          /\ UNCHANGED <<now, scheduled, launches, away, outages>>

HourPasses == /\ now < Horizon
              /\ phase # "ready"
              /\ phase = "sleeping" => now < scheduled + MaxLate
              /\ now' = now + 1
              /\ away' = away \cup
                     {d \in SlotDays(now + 1) : \/ phase = "down"
                                               \/ (phase = "running" /\ Day(scheduled) < d)}
              /\ UNCHANGED <<phase, scheduled, launches, outages>>

\* The container starts; restart: unless-stopped.
Start == /\ phase = "down" /\ phase' = "ready"
         /\ UNCHANGED <<now, scheduled, launches, away, outages>>

\* The container stops, and its command with it.
Stop == /\ phase # "down" /\ outages < MaxOutages
        /\ phase' = "down" /\ scheduled' = 0
        /\ outages' = outages + 1
        /\ away' = away \cup SlotDays(now)
        /\ UNCHANGED <<now, launches>>

\* The end of the clock.
Rest == now = Horizon /\ UNCHANGED scheduleVars

ScheduleNext == Plan \/ RunCommand \/ Return \/ HourPasses \/ Start \/ Stop \/ Rest

ScheduleSpec == ScheduleInit /\ [][ScheduleNext]_scheduleVars

-------------------------------------------------------------------------------
(* Properties                                                              *)

ScheduleTypes == /\ now \in 0..Horizon /\ scheduled \in Nat
                 /\ phase \in {"down", "ready", "sleeping", "running"}
                 /\ launches \subseteq Nat
                 /\ away \subseteq 0..Day(Horizon) /\ outages \in 0..MaxOutages

\* Every command is for the weekday of its slot, and no day is launched twice,
\* however long commands and outages last.
OneLaunchPerWeekday ==
    [][RunCommand => /\ EndDate = Day(scheduled) /\ EndDate % 7 \notin {5, 6}
                     /\ \A d \in launches : d < EndDate]_scheduleVars

\* A weekday whose slot has passed without a command is one at whose slot the
\* command of an earlier day was still running (such a day has no command of its
\* own), or the container was not up.
MissedSlotsAreExplained ==
    \A d \in 0..Day(now) :
        d % 7 < 5 /\ Slot(d) + MaxLate < now =>
            d \in away \cup launches
===============================================================================
