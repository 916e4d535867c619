------------------------------ MODULE Schedule ------------------------------
(***************************************************************************)
(* The calendar of a repeated date trigger (ScriptWebRunnerTrigger): a     *)
(* time of the day, or a minute of every n-th hour, on some days of the    *)
(* week, with or without holidays, and optionally not again before some    *)
(* minutes have passed. Only the next firing is ever registered; it is     *)
(* computed from the clock when the trigger is loaded and when it fires.   *)
(*                                                                         *)
(* Time is counted in seconds from a midnight. Module WebTrigger has the   *)
(* registrations and their interleavings; here one trigger is registered.  *)
(***************************************************************************)
EXTENDS Integers, FiniteSets

CONSTANTS HoursPerDay, MinutesPerHour, SecondsPerMinute, DaysPerWeek,
          Holidays,      \* days that are holidays (is_japan_holiday)
          Hourlies,      \* values of if_date_loop_hourly
          Weeks,         \* values of if_date_loop_dayofweek, as sets of days
          Stoppers,      \* values of if_stopper_minute
          MaxLag,        \* seconds by which Trigger may fire late
          MaxDays        \* bound on the time that passes

VARIABLES setting,   \* hour, minute, if_date_loop_hourly, _dayofweek, _holiday, stopper
          now,       \* the clock
          due,       \* the time registered with Trigger
          lastfire,  \* trigger_N_lastfire, 0 if it never fired
          fired,     \* the times registered that led to triggerFire
          overtaken, \* those a reload replaced when they were due already
          since      \* when the trigger was loaded first

vars == <<setting, now, due, lastfire, fired, overtaken, since>>

Hour == MinutesPerHour * SecondsPerMinute
Day == HoursPerDay * Hour
Times == 0..(MaxDays * Day)
HourOf(t) == (t % Day) \div Hour
MinuteOf(t) == (t % Hour) \div SecondsPerMinute
DayOf(t) == t \div Day
Setting == [hour : 0..(HoursPerDay - 1), minute : 0..(MinutesPerHour - 1), hourly : Hourlies,
            dayofweek : Weeks, holiday : 1..3, stopper_use : BOOLEAN, stopper : Stoppers]

-----------------------------------------------------------------------------
(* Mutant of convertTriggerDate: the minute that runs counts as well.      *)
convertTriggerDateNow(t, s) ==
    LET ahead == {i \in 0..(HoursPerDay - 1) :
                    /\ i % s.hourly = 0
                    /\ (i = HourOf(t) /\ s.minute >= MinuteOf(t)) \/ i > HourOf(t)}
        hour == IF s.hourly = 0 THEN s.hour
                ELSE IF ahead = {} THEN 0 ELSE CHOOSE i \in ahead : \A j \in ahead : i <= j
        plainTime == DayOf(t) * Day + hour * Hour + s.minute * SecondsPerMinute
    IN  IF t <= plainTime THEN plainTime ELSE plainTime + Day

(* The next time: today if that is still ahead, else tomorrow. For a       *)
(* repetition within the day the loop finds the first hour that is still   *)
(* ahead, and otherwise leaves hour zero.                                  *)
convertTriggerDate(t, s) ==
    LET ahead == {i \in 0..(HoursPerDay - 1) :
                    /\ i % s.hourly = 0
                    /\ (i = HourOf(t) /\ s.minute > MinuteOf(t)) \/ i > HourOf(t)}
        hour == IF s.hourly = 0 THEN s.hour
                ELSE IF ahead = {} THEN 0 ELSE CHOOSE i \in ahead : \A j \in ahead : i <= j
        plainTime == DayOf(t) * Day + hour * Hour + s.minute * SecondsPerMinute
    IN  IF t < plainTime THEN plainTime ELSE plainTime + Day

(* The day must be one of those ticked, and 2 is without holidays and 3    *)
(* only on holidays.                                                       *)
convertTriggerDateWeekDay(t, s) ==
    /\ s.holiday = 2 => DayOf(t) \notin Holidays
    /\ s.holiday = 3 => DayOf(t) \in Holidays
    /\ (DayOf(t) % DaysPerWeek) \in s.dayofweek

(* The condition on the last firing: lastfire is compared with a time not  *)
(* before now.                                                             *)
StopperAllows(t, s) ==
    LET wait == IF s.stopper * SecondsPerMinute < SecondsPerMinute
                THEN s.stopper * SecondsPerMinute ELSE SecondsPerMinute
    IN  ~(s.stopper_use /\ lastfire > t + wait)

TypeOK == /\ setting \in Setting /\ now \in Times /\ due \in 0..((MaxDays + 1) * Day)
          /\ lastfire \in Times /\ since \in Times
          /\ fired \subseteq Times /\ overtaken \subseteq Times
          /\ now <= due + MaxLag

Init == /\ setting \in Setting /\ now \in 0..(Day - 1) /\ due = convertTriggerDate(now, setting)
        /\ lastfire = 0 /\ fired = {} /\ overtaken = {} /\ since = now

-----------------------------------------------------------------------------
(* The clock runs; Trigger looks at it often enough.                       *)
Tick == /\ now + 1 \in Times /\ now < due + MaxLag
        /\ now' = now + 1
        /\ UNCHANGED <<setting, due, lastfire, fired, overtaken, since>>

(* Mutant of Fire: the next one is always looked for on another day.       *)
FireFromDay ==
    /\ due <= now
    /\ IF convertTriggerDateWeekDay(now, setting) /\ StopperAllows(now, setting)
       THEN lastfire' = now /\ fired' = fired \cup {due}
       ELSE UNCHANGED <<lastfire, fired>>
    /\ due' = convertTriggerDate(now, setting) + Day
    /\ UNCHANGED <<setting, now, overtaken, since>>

(* triggerFireTimeCallbackFunction with loop_use.                          *)
Fire ==
    /\ due <= now
    /\ IF convertTriggerDateWeekDay(now, setting) /\ StopperAllows(now, setting)
       THEN lastfire' = now /\ fired' = fired \cup {due}
       ELSE UNCHANGED <<lastfire, fired>>
    /\ due' = convertTriggerDate(now, setting)
    /\ UNCHANGED <<setting, now, overtaken, since>>

(* ReloadTrigger, because of this trigger or of another one.               *)
Reload == /\ due' = convertTriggerDate(now, setting)
          /\ overtaken' = IF due <= now THEN overtaken \cup {due} ELSE overtaken
          /\ UNCHANGED <<setting, now, lastfire, fired, since>>

Next == Tick \/ Fire \/ Reload

Spec == Init /\ [][Next]_vars

-----------------------------------------------------------------------------
(* The times a reader of the settings page expects.                        *)
Wanted(s) == {t \in Times :
                /\ t % SecondsPerMinute = 0 /\ MinuteOf(t) = s.minute
                /\ IF s.hourly = 0 THEN HourOf(t) = s.hour ELSE HourOf(t) % s.hourly = 0
                /\ s.holiday = 2 => DayOf(t) \notin Holidays
                /\ s.holiday = 3 => DayOf(t) \in Holidays
                /\ (DayOf(t) % DaysPerWeek) \in s.dayofweek}

(* The trigger fires at every time the settings name and at no other, each *)
(* once, although only one firing ahead is ever known and although it may  *)
(* fire some seconds late; the one exception is a time that has come and   *)
(* is replaced by a reload before Trigger looks at it                      *)
(* (ScriptWebRunnerTrigger.cpp:160-220, 572-611).                          *)
EveryWantedTime ==
    /\ fired \subseteq Wanted(setting)
    /\ {t \in Wanted(setting) : since < t /\ t < due} \subseteq fired \cup overtaken

(* What is registered lies after the last firing: a trigger that took      *)
(* place is not registered for the minute it took place in, and so does    *)
(* not fire over and over within that minute                               *)
(* (ScriptWebRunnerTrigger.cpp:587-608).                                   *)
OncePerTime == lastfire < due
=============================================================================
