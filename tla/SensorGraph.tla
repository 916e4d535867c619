---------------------------- MODULE SensorGraph ----------------------------
(***************************************************************************)
(* SensorGraph: the readings of a sensor, one short per SpanSec seconds    *)
(* since RecStartTime, in an array that is to be rotated when two thirds   *)
(* of it are used, and a file it is saved to; and Sensor_Factory, whose    *)
(* thread takes a reading at every round and saves at every SavePeriod-th. *)
(* Web workers take readings too. Readings, saves and reads of the graph   *)
(* are each under the lock of Sensor_Factory.                              *)
(*                                                                         *)
(* The program may stop at any moment and start again from the file.       *)
(***************************************************************************)
EXTENDS Integers

CONSTANTS SpanSec,      \* 300
          RotateSpan,   \* 105120: a year
          SavePeriod,   \* 12
          ShortSize,    \* sizeof(short), 2
          Values,       \* readings
          MaxStep,      \* bound on the seconds between two steps
          MaxTime       \* bound on the clock

Size == RotateSpan * 3
Half == Size \div ShortSize
Invalid == -32768   \* INVALIDATE_VALUE

VARIABLES now,
          RecStartTime, FileData,
          file,       \* what was saved last: start and the entries written, or NoFile
          count,      \* rounds since the thread saved
          log,        \* the last reading of each span since RecStartTime
          savedlog,   \* log when it was saved last
          restarted   \* FileData comes from the file

vars == <<now, RecStartTime, FileData, file, count, log, savedlog, restarted>>

Blocks == 0..(Size - 1)
Data == [Blocks -> Values \cup {Invalid, 0}]
NoFile == [start |-> 0, data |-> <<>>]
Blank == [b \in Blocks |-> Invalid]

TypeOK == /\ now \in 0..MaxTime /\ RecStartTime \in 0..now
          /\ FileData \in Data /\ log \in Data /\ savedlog \in Data
          /\ \/ file = NoFile
             \/ file.start \in 0..now /\ file.data \in [0..(Half - 1) -> Values \cup {Invalid, 0}]
          /\ count \in 0..(SavePeriod - 1)
          /\ restarted \in BOOLEAN

Init == /\ now = 0 /\ RecStartTime = 0 /\ FileData = Blank
        /\ file = NoFile /\ count = 0
        /\ log = Blank /\ savedlog = Blank /\ restarted = FALSE

-----------------------------------------------------------------------------
(* The position stands for the time.                                       *)
Block(t) == (IF t > RecStartTime THEN t - RecStartTime ELSE 0) \div SpanSec

(* Mutant of WriteData: RecStartTime is kept when the array is full.       *)
WriteDataKeepStart(val) ==
    LET block == Block(now)
    IN  /\ UNCHANGED RecStartTime
        /\ FileData' = IF block >= Size THEN FileData
                       ELSE IF block > RotateSpan * 2 THEN [FileData EXCEPT ![0] = val]
                       ELSE [FileData EXCEPT ![block] = val]
        /\ log' = IF block >= Size THEN log ELSE [log EXCEPT ![block] = val]

(* When two thirds are used and the reading would still fit, the record    *)
(* begins anew with it, and SpanSec * 3 entries are made invalid. When it  *)
(* would not fit, the last two thirds move to the front and SpanSec * 2    *)
(* and following are made invalid; RecStartTime stays, so the reading goes *)
(* outside of the array.                                                   *)
WriteData(val) ==
    LET block == Block(now)
        again == [b \in Blocks |-> IF b < SpanSec * 3 THEN Invalid ELSE FileData[b]]
        moved == [b \in Blocks |-> IF b >= SpanSec * 2 THEN Invalid
                                   ELSE IF b < RotateSpan * 2 THEN FileData[b + RotateSpan]
                                   ELSE FileData[b]]
    IN  CASE block <= RotateSpan * 2 ->
                /\ FileData' = [FileData EXCEPT ![block] = val]
                /\ log' = [log EXCEPT ![block] = val]
                /\ UNCHANGED RecStartTime
          [] block > RotateSpan * 2 /\ Size >= block ->
                /\ RecStartTime' = now
                /\ FileData' = [again EXCEPT ![0] = val]
                /\ log' = [Blank EXCEPT ![0] = val]
          [] OTHER ->
                /\ FileData' = moved /\ log' = Blank
                /\ UNCHANGED RecStartTime

Saved(data, start) == [start |-> start, data |-> [b \in 0..(Half - 1) |-> data[b]]]

(* The number of entries is divided by their size: half of them are        *)
(* written. The file is written under another name and moved.              *)
Save == /\ file' = Saved(FileData', RecStartTime')
        /\ savedlog' = log'

(* Mutant of ThreadMain: it saves one round too late.                      *)
ThreadMainLate(val) ==
    /\ WriteData(val)
    /\ IF count >= SavePeriod THEN count' = 0 /\ Save
       ELSE count' = count + 1 /\ UNCHANGED <<file, savedlog>>
    /\ UNCHANGED <<now, restarted>>

(* A reading by the thread, with the save when it is time.                 *)
ThreadMain(val) ==
    /\ WriteData(val)
    /\ IF count + 1 >= SavePeriod THEN count' = 0 /\ Save
       ELSE count' = count + 1 /\ UNCHANGED <<file, savedlog>>
    /\ UNCHANGED <<now, restarted>>

(* One for a web page, or for the server.                                  *)
getSensorNow(val) ==
    /\ WriteData(val)
    /\ UNCHANGED <<now, file, count, savedlog, restarted>>

Flush == /\ UNCHANGED <<now, RecStartTime, FileData, log, count, restarted>>
         /\ Save

(* Load, or NewCreate if there is no file. The entries that are not in the *)
(* file are those that resize makes: zero.                                 *)
Restart ==
    /\ count' = 0
    /\ IF file = NoFile
       THEN RecStartTime' = now /\ FileData' = Blank /\ log' = Blank /\ UNCHANGED restarted
       ELSE /\ RecStartTime' = file.start
            /\ FileData' = [b \in Blocks |-> IF b < Half THEN file.data[b] ELSE 0]
            /\ log' = savedlog /\ restarted' = TRUE
    /\ UNCHANGED <<now, file, savedlog>>

Tick(d) == /\ now + d <= MaxTime /\ now' = now + d
           /\ UNCHANGED <<RecStartTime, FileData, file, count, log, savedlog, restarted>>

Next == \/ \E val \in Values : ThreadMain(val) \/ getSensorNow(val)
        \/ Flush \/ Restart \/ \E d \in 1..MaxStep : Tick(d)

Spec == Init /\ [][Next]_vars

-----------------------------------------------------------------------------
(* Every reading since the start of the record is found at its time; after *)
(* a restart, those in the half of the array that the file has, as far as  *)
(* they had been saved (SensorGraph.cpp:24-64, 126-202).                   *)
RecentKept ==
    \A b \in (IF restarted THEN 0..(Half - 1) ELSE Blocks) : log[b] # Invalid => FileData[b] = log[b]
=============================================================================
