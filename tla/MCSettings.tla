----------------------------- MODULE MCSettings -----------------------------
(***************************************************************************)
(* Five components that keep settings, tables and records, checked in one  *)
(* run: a behaviour is one of ConfigStore, Macro, Schedule, SensorGraph or *)
(* MultiRoom (with a few changes in three rooms, or with more in a pair),  *)
(* as part says; the others stay in an initial state.                      *)
(***************************************************************************)
EXTENDS Integers, Sequences, TLC

CONSTANTS Keys, k1, k2, None, Tree, Texts, x, Garbled, Threads, Files, MaxCuts,
          Actions, MaxCallCount, MaxEntries, MaxDepth, MaxEdits,
          HoursPerDay, MinutesPerHour, SecondsPerMinute, DaysPerWeek,
          Holidays, Hourlies, Weeks, Stoppers, MaxLag, MaxDays,
          SpanSec, RotateSpan, SavePeriod, ShortSize, Values, MaxStep, MaxTime,
          Rooms, MaxChanges, RoomPair, MaxPairChanges, MaxVersion

VARIABLES part,
          ConfigData, conf, tmp, phase, at, localSetting, out, todo, saved, written, cuts,
          settings, stack, count, outcome, accepted, edits,
          setting, now, due, lastfire, fired, overtaken, since,
          clock, RecStartTime, FileData, file, rounds, log, savedlog, restarted,
          own, table, pc, snap, posts, request, was, changes

(* What the theorems about the sensor record rest on: it has entries, they *)
(* have a size, and some round is the one that saves.                      *)
ASSUME RecordAssumption == /\ RotateSpan \in Nat \ {0} /\ ShortSize \in Nat \ {0}
                           /\ SavePeriod \in Nat \ {0} /\ MaxTime \in Nat

(* What the types of the rooms rest on.                                    *)
ASSUME RoomAssumption == /\ MaxVersion \in Nat \ {0}
                         /\ MaxChanges \in Nat /\ MaxPairChanges \in Nat

(* What the one about the calendar rests on: there are hours, minutes and  *)
(* seconds, repetitions are every n-th hour, and Trigger fires within the  *)
(* minute it was told.                                                     *)
ASSUME CalendarAssumption ==
    /\ HoursPerDay \in Nat \ {0} /\ MinutesPerHour \in Nat \ {0} /\ SecondsPerMinute \in Nat \ {0}
    /\ Hourlies \subseteq Nat /\ Stoppers \subseteq Nat
    /\ MaxLag \in Nat /\ MaxLag < SecondsPerMinute /\ MaxDays \in Nat \ {0}

(* What the one about macros rests on: the entries of one macro alone do   *)
(* not reach the limit on calls (nine and thirty in the program).          *)
ASSUME MacroAssumption ==
    /\ MaxEntries \in Nat \ {0} /\ MaxCallCount \in Nat /\ MaxEntries < MaxCallCount
    /\ MaxDepth \in Nat \ {0} /\ MaxEdits \in Nat

F == INSTANCE ConfigStore
M == INSTANCE Macro
D == INSTANCE Schedule
G == INSTANCE SensorGraph WITH now <- clock, count <- rounds
R == INSTANCE MultiRoom WITH todo <- posts, edits <- changes, MaxEdits <- MaxChanges
P == INSTANCE MultiRoom WITH todo <- posts, edits <- changes, MaxEdits <- MaxPairChanges,
                             Rooms <- RoomPair

(* What those about the settings rest on: a file that was edited by hand   *)
(* ends with a line break, and no value stands for a key without one.      *)
ASSUME FilesAssumption == /\ Files \subseteq Seq({l \in F!Line : l.ended})
                          /\ None \notin F!Value /\ MaxCuts \in Nat

fvars == <<ConfigData, conf, tmp, phase, at, localSetting, out, todo, saved, written, cuts>>
mvars == <<settings, stack, count, outcome, accepted, edits>>
dvars == <<setting, now, due, lastfire, fired, overtaken, since>>
gvars == <<clock, RecStartTime, FileData, file, rounds, log, savedlog, restarted>>
rvars == <<own, table, pc, snap, posts, request, was, changes>>
vars == <<part, fvars, mvars, dvars, gvars, rvars>>

(* A key given twice, a comment and a line without an =, edited by hand.   *)
Setting(k, p) == [kind |-> "pair", key |-> k, value |-> [text |-> x, padded |-> p], ended |-> TRUE]
MCFiles == {<<Setting(k1, FALSE), [kind |-> "comment", ended |-> TRUE], Setting(k1, TRUE),
              [kind |-> "garbage", ended |-> TRUE], Setting(k2, TRUE)>>}
(* The threads that use the settings are interchangeable.                  *)
Symmetry == Permutations(Threads)
MCHolidays == {1}
MCHourlies == {0, 1, 2}
MCWeeks == {{0}, {0, 1}}
MCStoppers == {5}
MCValues == {1, 3}

Init == /\ part \in {"config", "macro", "schedule", "graph", "rooms", "pair"}
        /\ F!Init /\ M!Init /\ D!Init /\ G!Init
        /\ IF part = "pair" THEN P!Init ELSE R!Init
        /\ part # "schedule" => now = 0 /\ setting = CHOOSE s \in D!Setting : TRUE

Next == \/ part = "config" /\ F!Next /\ UNCHANGED <<part, mvars, dvars, gvars, rvars>>
        \/ part = "macro" /\ M!Next /\ UNCHANGED <<part, fvars, dvars, gvars, rvars>>
        \/ part = "schedule" /\ D!Next /\ UNCHANGED <<part, fvars, mvars, gvars, rvars>>
        \/ part = "graph" /\ G!Next /\ UNCHANGED <<part, fvars, mvars, dvars, rvars>>
        \/ part = "rooms" /\ R!Next /\ UNCHANGED <<part, fvars, mvars, dvars, gvars>>
        \/ part = "pair" /\ P!Next /\ UNCHANGED <<part, fvars, mvars, dvars, gvars>>

Spec == Init /\ [][Next]_vars

-----------------------------------------------------------------------------
(* The types of the five components (Config.h, Fire.cpp,                   *)
(* ScriptWebRunnerTrigger.cpp, SensorGraph.h, MultiRoom.h).                *)
TypeOK == /\ part = "config" => F!TypeOK
          /\ part = "macro" => M!TypeOK
          /\ part = "schedule" => D!TypeOK
          /\ part = "graph" => G!TypeOK
          /\ part = "rooms" => R!TypeOK
          /\ part = "pair" => P!TypeOK

(* What saveConfig wrote is what loadConfig reads, with one line for each  *)
(* setting (Config.cpp:88-164).                                            *)
SavedIsLoaded == part = "config" => F!SavedIsLoaded /\ F!OneLineEach

(* The first power cut leaves the old or the new settings whole, in one of *)
(* the two files (Config.cpp:78, 164-165).                                 *)
CutLeavesOne == F!CutLeavesOne

(* A macro that check_macroE accepts runs to its end, and its nesting is   *)
(* bounded (Fire.cpp:431-455, ScriptWebRunner.cpp:836).                    *)
AcceptedRuns == part = "macro" => M!AcceptedRuns /\ M!AcceptedDepth

(* A repeated trigger fires at every time the settings name, at no other,  *)
(* and once (ScriptWebRunnerTrigger.cpp:160-220, 572-611).                 *)
FiredAsWanted == part = "schedule" => D!EveryWantedTime /\ D!OncePerTime

(* What was measured is found in the record at its time, also after a      *)
(* restart as far as the file goes (SensorGraph.cpp:24-64, 126-202).       *)
RecentKept == part = "graph" => G!RecentKept

(* A room never loses its own row, and what it knows of another one is     *)
(* what that one once was, name and key of one time (MultiRoomUtil.cpp:62- *)
(* 86, ScriptWebRunner.cpp:4249, 4385-4394, 4475-4484).                    *)
RoomTables == /\ part = "rooms" => R!SelfKnown /\ R!CardsAreReal
              /\ part = "pair" => P!SelfKnown /\ P!CardsAreReal
=============================================================================
