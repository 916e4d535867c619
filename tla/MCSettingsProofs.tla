-------------------------- MODULE MCSettingsProofs --------------------------
(***************************************************************************)
(* What is proved of the components MCSettings puts side by side: that the *)
(* tables of rooms are right (from MultiRoomProofs, for the two instances  *)
(* of MultiRoom), that readings are found in the sensor record, that a     *)
(* repeated trigger fires when it should, that what is saved is loaded,    *)
(* also after a power cut, that a macro which was accepted runs to its     *)
(* end, and the types of all of them.                                      *)
(***************************************************************************)
EXTENDS MCSettings, WellFoundedInduction, TLAPS

RP == INSTANCE MultiRoomProofs WITH todo <- posts, edits <- changes, MaxEdits <- MaxChanges
PP == INSTANCE MultiRoomProofs WITH todo <- posts, edits <- changes, MaxEdits <- MaxPairChanges,
                                    Rooms <- RoomPair

-----------------------------------------------------------------------------
(* The rooms.                                                              *)

RoomsInv == /\ part = "rooms" => RP!RoomInv
            /\ part = "pair" => PP!RoomInv

(* MultiRoomProofs is about the same initial states and steps.             *)
LEMMA SameInit == (R!Init <=> RP!Init) /\ (P!Init <=> PP!Init)
<1>1. R!Init <=> RP!Init
  BY DEF R!Init, R!Empty, R!NoCard, R!Idle, RP!Init, RP!Empty, RP!NoCard, RP!Idle
<1>2. P!Init <=> PP!Init
  BY DEF P!Init, P!Empty, P!NoCard, P!Idle, PP!Init, PP!Empty, PP!NoCard, PP!Idle
<1> QED
  BY <1>1, <1>2

LEMMA SameNext == (R!Next <=> RP!Next) /\ (P!Next <=> PP!Next)
<1>1. R!Next <=> RP!Next
  BY DEF R!Next, R!changeAuthkey, R!changeName, R!ChangeCard, R!MayEdit, R!Idle, R!Empty, R!NoCard,
         R!startSync, R!setting_multiroom_append, R!setting_multiroom_delete, R!registadd, R!Run, R!Touch,
         R!Sync, R!SyncEnd, R!Merge, R!registdel, R!Known, R!multiroom_sync, R!PostLost, R!SpuriousWake,
         R!RequestLost,
         RP!Next, RP!changeAuthkey, RP!changeName, RP!ChangeCard, RP!MayEdit, RP!Idle, RP!Empty, RP!NoCard,
         RP!startSync, RP!setting_multiroom_append, RP!setting_multiroom_delete, RP!registadd, RP!Run, RP!Touch,
         RP!Sync, RP!SyncEnd, RP!Merge, RP!registdel, RP!Known, RP!multiroom_sync, RP!PostLost, RP!SpuriousWake,
         RP!RequestLost
<1>2. P!Next <=> PP!Next
  BY DEF P!Next, P!changeAuthkey, P!changeName, P!ChangeCard, P!MayEdit, P!Idle, P!Empty, P!NoCard,
         P!startSync, P!setting_multiroom_append, P!setting_multiroom_delete, P!registadd, P!Run, P!Touch,
         P!Sync, P!SyncEnd, P!Merge, P!registdel, P!Known, P!multiroom_sync, P!PostLost, P!SpuriousWake,
         P!RequestLost,
         PP!Next, PP!changeAuthkey, PP!changeName, PP!ChangeCard, PP!MayEdit, PP!Idle, PP!Empty, PP!NoCard,
         PP!startSync, PP!setting_multiroom_append, PP!setting_multiroom_delete, PP!registadd, PP!Run, PP!Touch,
         PP!Sync, PP!SyncEnd, PP!Merge, PP!registdel, PP!Known, PP!multiroom_sync, PP!PostLost, PP!SpuriousWake,
         PP!RequestLost
<1> QED
  BY <1>1, <1>2

LEMMA RoomsInvInit == Init => RoomsInv
BY SameInit, RP!RoomInvInit, PP!RoomInvInit DEF Init, RoomsInv

LEMMA RoomsInvNext == RoomsInv /\ [Next]_vars => RoomsInv'
<1> SUFFICES ASSUME RoomsInv, [Next]_vars PROVE RoomsInv'
  OBVIOUS
<1>3. part' = part
  BY DEF Next, vars
<1>4. CASE part = "rooms"
  <2>1. R!Next \/ UNCHANGED rvars
    BY <1>4 DEF Next, vars
  <2>2. [RP!Next]_(RP!vars)
    BY SameNext, <2>1 DEF rvars, RP!vars
  <2>3. RP!RoomInv'
    BY <1>4, <2>2, RP!RoomInvNext DEF RoomsInv
  <2> QED
    BY <1>3, <1>4, <2>3 DEF RoomsInv
<1>5. CASE part = "pair"
  <2>1. P!Next \/ UNCHANGED rvars
    BY <1>5 DEF Next, vars
  <2>2. [PP!Next]_(PP!vars)
    BY SameNext, <2>1 DEF rvars, PP!vars
  <2>3. PP!RoomInv'
    BY <1>5, <2>2, PP!RoomInvNext DEF RoomsInv
  <2> QED
    BY <1>3, <1>5, <2>3 DEF RoomsInv
<1> QED
  BY <1>3, <1>4, <1>5 DEF RoomsInv

(* In any number of rooms, no room loses its own row and every row is what *)
(* its room once was (MultiRoomUtil.cpp:62-86, ScriptWebRunner.cpp:4249,   *)
(* 4385-4394, 4475-4484).                                                  *)
THEOREM RoomTablesThm == Spec => []RoomTables
<1>1. RoomsInv => RoomTables
  <2>1. RP!RoomInv => R!SelfKnown /\ R!CardsAreReal
    BY DEF RP!RoomInv, RP!AllReal, RP!Real, RP!SelfKnown, RP!NoCard, R!SelfKnown, R!CardsAreReal, R!NoCard
  <2>2. PP!RoomInv => P!SelfKnown /\ P!CardsAreReal
    BY DEF PP!RoomInv, PP!AllReal, PP!Real, PP!SelfKnown, PP!NoCard, P!SelfKnown, P!CardsAreReal, P!NoCard
  <2> QED
    BY <2>1, <2>2 DEF RoomsInv, RoomTables
<1> QED
  BY <1>1, RoomsInvInit, RoomsInvNext, PTL DEF Spec

-----------------------------------------------------------------------------
(* The sensor record.                                                      *)

(* The entries of the array that the file has.                             *)
InFile == 0..(G!Half - 1)

(* What is in the file is what had been read when it was written.          *)
FileKept == file # G!NoFile =>
              \A b \in InFile : savedlog[b] # G!Invalid => file.data[b] = savedlog[b]

RecordInv == /\ DOMAIN FileData = G!Blocks /\ DOMAIN log = G!Blocks /\ DOMAIN savedlog = G!Blocks
             /\ G!RecentKept
             /\ FileKept

LEMMA HalfIsLess == InFile \subseteq G!Blocks
<1>1. PICK n \in Nat : n = G!Size
  BY RecordAssumption DEF G!Size
<1>2. PICK s \in Nat \ {0} : s = ShortSize
  BY RecordAssumption
<1>3. n \div s \in Nat /\ s * (n \div s) <= n
  BY <1>2
<1>4. PICK q \in Nat : q = n \div s
  BY <1>3
<1>5. q <= s * q
  BY <1>2
<1>6. q <= n
  BY <1>2, <1>3, <1>4, <1>5
<1>7. G!Half = q
  BY <1>1, <1>2, <1>4 DEF G!Half
<1>8. G!Half \in Nat /\ G!Half <= n
  BY <1>6, <1>7
<1> QED
  BY <1>1, <1>8 DEF InFile, G!Blocks

LEMMA RecordInvInit == G!Init => RecordInv
<1> SUFFICES ASSUME G!Init PROVE RecordInv
  OBVIOUS
<1>1. FileData = G!Blank /\ log = G!Blank /\ savedlog = G!Blank /\ file = G!NoFile /\ restarted = FALSE
  BY DEF G!Init
<1> QED
  BY <1>1 DEF RecordInv, FileKept, G!RecentKept, G!Blank

(* A reading goes to the same place in the record and in what should be    *)
(* there, in each of the three cases.                                      *)
LEMMA WriteDataKeeps ==
    ASSUME RecordInv, NEW val \in Values, G!WriteData(val), UNCHANGED restarted
    PROVE  DOMAIN FileData' = G!Blocks /\ DOMAIN log' = G!Blocks /\ G!RecentKept'
<1>d. DOMAIN FileData = G!Blocks /\ DOMAIN log = G!Blocks /\ G!RecentKept
  BY DEF RecordInv
<1>s. PICK shown : shown = IF restarted THEN InFile ELSE G!Blocks
  OBVIOUS
<1>k. shown \subseteq G!Blocks /\ \A b \in shown : log[b] # G!Invalid => FileData[b] = log[b]
  BY <1>d, <1>s, HalfIsLess DEF G!RecentKept, InFile
<1> SUFFICES /\ DOMAIN FileData' = G!Blocks /\ DOMAIN log' = G!Blocks
             /\ \A b \in shown : log'[b] # G!Invalid => FileData'[b] = log'[b]
  BY <1>s DEF G!RecentKept, InFile
<1>1. PICK block : block = G!Block(clock)
  OBVIOUS
<1>2. CASE FileData' = [FileData EXCEPT ![block] = val] /\ log' = [log EXCEPT ![block] = val]
  BY <1>2, <1>d, <1>k
<1>3. CASE /\ \E again \in [G!Blocks -> {FileData[b] : b \in G!Blocks} \cup {G!Invalid}] : FileData' = [again EXCEPT ![0] = val]
           /\ log' = [G!Blank EXCEPT ![0] = val]
  BY <1>3, <1>k DEF G!Blank
<1>4. CASE DOMAIN FileData' = G!Blocks /\ log' = G!Blank
  BY <1>4, <1>k DEF G!Blank
<1> QED
  <2>1. PICK again : again = [b \in G!Blocks |-> IF b < SpanSec * 3 THEN G!Invalid ELSE FileData[b]]
    OBVIOUS
  <2>2. again \in [G!Blocks -> {FileData[b] : b \in G!Blocks} \cup {G!Invalid}]
    BY <2>1
  <2>3. \/ FileData' = [FileData EXCEPT ![block] = val] /\ log' = [log EXCEPT ![block] = val]
        \/ FileData' = [again EXCEPT ![0] = val] /\ log' = [G!Blank EXCEPT ![0] = val]
        \/ DOMAIN FileData' = G!Blocks /\ log' = G!Blank
    BY <1>1, <2>1 DEF G!WriteData
  <2> QED
    BY <1>2, <1>3, <1>4, <2>2, <2>3

(* What is saved is the part of the record that is right.                  *)
LEMMA SaveKeeps ==
    ASSUME G!RecentKept', G!Save
    PROVE  FileKept'
<1>1. /\ file' = [start |-> RecStartTime', data |-> [b \in InFile |-> FileData'[b]]]
      /\ savedlog' = log'
  BY DEF G!Save, G!Saved, InFile
<1>2. \A b \in InFile : log'[b] # G!Invalid => FileData'[b] = log'[b]
  BY HalfIsLess DEF G!RecentKept, InFile
<1>3. \A b \in InFile : file'.data[b] = FileData'[b]
  BY <1>1
<1> QED
  BY <1>1, <1>2, <1>3 DEF FileKept, InFile

LEMMA RestartKeeps ==
    ASSUME RecordInv, G!Restart
    PROVE  RecordInv'
<1>1. UNCHANGED <<file, savedlog>> /\ DOMAIN savedlog = G!Blocks /\ FileKept
  BY DEF G!Restart, RecordInv
<1>2. CASE file = G!NoFile
  <2>1. FileData' = G!Blank /\ log' = G!Blank
    BY <1>2 DEF G!Restart
  <2>2. \A b \in G!Blocks : log'[b] = G!Invalid
    BY <2>1 DEF G!Blank
  <2>3. G!RecentKept'
    BY <2>2, HalfIsLess DEF G!RecentKept, InFile
  <2>4. FileKept'
    BY <1>1, <1>2 DEF FileKept
  <2> QED
    BY <1>1, <2>1, <2>3, <2>4 DEF RecordInv, G!Blank
<1>3. CASE file # G!NoFile
  <2>1. /\ FileData' = [b \in G!Blocks |-> IF b < G!Half THEN file.data[b] ELSE 0]
        /\ log' = savedlog /\ restarted' = TRUE
    BY <1>3 DEF G!Restart
  <2>2. \A b \in InFile : b \in G!Blocks /\ b < G!Half
    <3>1. G!Half \in Int
      BY RecordAssumption DEF G!Half, G!Size
    <3> QED
      BY <3>1, HalfIsLess DEF InFile
  <2>3. \A b \in InFile : FileData'[b] = file.data[b]
    BY <2>1, <2>2
  <2>4. \A b \in InFile : log'[b] # G!Invalid => FileData'[b] = log'[b]
    BY <1>1, <1>3, <2>1, <2>3 DEF FileKept
  <2>5. G!RecentKept'
    BY <2>1, <2>4 DEF G!RecentKept, InFile
  <2>6. FileKept'
    BY <1>1 DEF FileKept, InFile
  <2> QED
    BY <1>1, <2>1, <2>5, <2>6 DEF RecordInv
<1> QED
  BY <1>2, <1>3

LEMMA RecordInvNext == RecordInv /\ (G!Next \/ UNCHANGED gvars) => RecordInv'
<1> SUFFICES ASSUME RecordInv, G!Next \/ UNCHANGED gvars PROVE RecordInv'
  OBVIOUS
<1>s. ASSUME UNCHANGED <<file, savedlog>> PROVE FileKept' /\ DOMAIN savedlog' = G!Blocks
  BY <1>s DEF RecordInv, FileKept, InFile
<1>k. ASSUME UNCHANGED <<FileData, log, restarted>>
      PROVE  DOMAIN FileData' = G!Blocks /\ DOMAIN log' = G!Blocks /\ G!RecentKept'
  BY <1>k DEF RecordInv, G!RecentKept
<1>1. ASSUME NEW val \in Values, G!ThreadMain(val) PROVE RecordInv'
  <2>1. G!WriteData(val) /\ UNCHANGED restarted /\ (G!Save \/ UNCHANGED <<file, savedlog>>)
    BY <1>1 DEF G!ThreadMain
  <2>2. DOMAIN FileData' = G!Blocks /\ DOMAIN log' = G!Blocks /\ G!RecentKept'
    BY <2>1, WriteDataKeeps
  <2>3. FileKept' /\ DOMAIN savedlog' = G!Blocks
    BY <1>s, <2>1, <2>2, SaveKeeps DEF G!Save
  <2> QED
    BY <2>2, <2>3 DEF RecordInv
<1>2. ASSUME NEW val \in Values, G!getSensorNow(val) PROVE RecordInv'
  <2>1. G!WriteData(val) /\ UNCHANGED <<restarted, file, savedlog>>
    BY <1>2 DEF G!getSensorNow
  <2>2. DOMAIN FileData' = G!Blocks /\ DOMAIN log' = G!Blocks /\ G!RecentKept'
    BY <2>1, WriteDataKeeps
  <2> QED
    BY <1>s, <2>1, <2>2 DEF RecordInv
<1>3. CASE G!Flush
  <2>1. UNCHANGED <<FileData, log, restarted>> /\ G!Save
    BY <1>3 DEF G!Flush
  <2>2. FileKept' /\ DOMAIN savedlog' = G!Blocks
    BY <1>k, <2>1, SaveKeeps DEF G!Save
  <2> QED
    BY <1>k, <2>1, <2>2 DEF RecordInv
<1>4. CASE G!Restart
  BY <1>4, RestartKeeps
<1>5. CASE UNCHANGED gvars \/ \E d \in 1..MaxStep : G!Tick(d)
  <2>1. UNCHANGED <<FileData, log, restarted, file, savedlog>>
    BY <1>5 DEF gvars, G!Tick
  <2> QED
    BY <1>s, <1>k, <2>1 DEF RecordInv
<1> QED
  BY <1>1, <1>2, <1>3, <1>4, <1>5 DEF G!Next

(* For a record of any length and any way its rotations, saves and         *)
(* restarts follow each other, every reading since its start is found at   *)
(* its time, after a restart as far as the file goes (SensorGraph.cpp:     *)
(* 24-64, 126-202).                                                        *)
THEOREM ReadingsAreFound == Spec => []RecentKept
<1> DEFINE Inv == part = "graph" => RecordInv
<1>1. Init => Inv
  BY RecordInvInit DEF Init
<1>2. Inv /\ [Next]_vars => Inv'
  BY RecordInvNext DEF Next, vars
<1>3. Inv => RecentKept
  BY DEF RecordInv, RecentKept
<1> QED
  BY <1>1, <1>2, <1>3, PTL DEF Spec

-----------------------------------------------------------------------------
(* The calendar. A time is a day, an hour of it, a minute of that and a    *)
(* second of that; first the facts about the lengths of these, which are   *)
(* any numbers.                                                            *)

LEMMA Quotient ==
    ASSUME NEW b \in Nat \ {0}, NEW q \in Nat, NEW r \in 0..(b - 1)
    PROVE  (q * b + r) \div b = q /\ (q * b + r) % b = r
OBVIOUS

LEMMA Division ==
    ASSUME NEW b \in Nat \ {0}, NEW a \in Nat
    PROVE  a \div b \in Nat /\ (a % b) \in 0..(b - 1) /\ a = (a \div b) * b + (a % b)
OBVIOUS

(* A full unit more outweighs whatever is left of the smaller one.         *)
LEMMA UnitMore ==
    ASSUME NEW a \in Nat, NEW b \in Nat, NEW c \in Nat, a < b
    PROVE  a * c + c <= b * c
<1>1. PICK e \in Nat : b = a + 1 + e
  <2>1. b - a - 1 \in Nat /\ b = a + 1 + (b - a - 1)
    OBVIOUS
  <2> QED
    BY <2>1
<1>2. b * c = a * c + c + e * c
  BY <1>1
<1>3. e * c \in Nat /\ a * c \in Nat
  OBVIOUS
<1> QED
  BY <1>2, <1>3

LEMMA Lengths == /\ SecondsPerMinute \in Nat \ {0} /\ MinutesPerHour \in Nat \ {0} /\ HoursPerDay \in Nat \ {0}
                 /\ D!Hour \in Nat \ {0} /\ D!Day \in Nat \ {0}
<1>1. SecondsPerMinute \in Nat \ {0} /\ MinutesPerHour \in Nat \ {0} /\ HoursPerDay \in Nat \ {0}
  BY CalendarAssumption
<1>2. \A a, b \in Nat \ {0} : a * b \in Nat \ {0}
  OBVIOUS
<1>3. D!Hour \in Nat \ {0}
  BY <1>1, <1>2 DEF D!Hour
<1> QED
  BY <1>1, <1>2, <1>3 DEF D!Day

At(d, h, m, s) == d * D!Day + (h * D!Hour + (m * SecondsPerMinute + s))

Parts(d, h, m, s) == /\ d \in Nat /\ h \in 0..(HoursPerDay - 1)
                     /\ m \in 0..(MinutesPerHour - 1) /\ s \in 0..(SecondsPerMinute - 1)

(* The seconds of an hour, and of a day, that the parts make.              *)
LEMMA Remainders ==
    ASSUME NEW d, NEW h, NEW m, NEW s, Parts(d, h, m, s)
    PROVE  /\ m * SecondsPerMinute + s \in 0..(D!Hour - 1)
           /\ h * D!Hour + (m * SecondsPerMinute + s) \in 0..(D!Day - 1)
           /\ At(d, h, m, s) \in Nat
<1>1. d \in Nat /\ h \in Nat /\ h < HoursPerDay /\ m \in Nat /\ m < MinutesPerHour /\ s \in Nat /\ s < SecondsPerMinute
  BY Lengths DEF Parts
<1>2. m * SecondsPerMinute + SecondsPerMinute <= MinutesPerHour * SecondsPerMinute
  BY <1>1, UnitMore, Lengths
<1>3. m * SecondsPerMinute \in Nat
  BY <1>1, Lengths
<1>4. PICK r \in Nat : r = m * SecondsPerMinute + s
  BY <1>1, <1>3
<1>5. r < D!Hour
  BY <1>1, <1>2, <1>3, <1>4, Lengths DEF D!Hour
<1>6. h * D!Hour + D!Hour <= HoursPerDay * D!Hour
  BY <1>1, UnitMore, Lengths
<1>7. h * D!Hour \in Nat /\ d * D!Day \in Nat
  BY <1>1, Lengths
<1>8. h * D!Hour + r < D!Day
  <2>1. HoursPerDay * D!Hour = D!Day
    BY DEF D!Day
  <2> QED
    BY <1>5, <1>6, <1>7, <2>1, Lengths
<1>9. h * D!Hour + r \in Nat /\ d * D!Day + (h * D!Hour + r) \in Nat
  BY <1>4, <1>7
<1> QED
  BY <1>4, <1>5, <1>8, <1>9, Lengths DEF At

(* The parts of a time are those the calendar's operators find.            *)
LEMMA PartsOfAt ==
    ASSUME NEW d, NEW h, NEW m, NEW s, Parts(d, h, m, s)
    PROVE  /\ D!DayOf(At(d, h, m, s)) = d /\ D!HourOf(At(d, h, m, s)) = h
           /\ D!MinuteOf(At(d, h, m, s)) = m /\ At(d, h, m, s) % SecondsPerMinute = s
<1>1. d \in Nat /\ h \in Nat /\ m \in Nat /\ s \in 0..(SecondsPerMinute - 1)
  BY Lengths DEF Parts
<1>2. PICK r2 \in 0..(D!Hour - 1) : r2 = m * SecondsPerMinute + s
  BY Remainders
<1>3. PICK r1 \in 0..(D!Day - 1) : r1 = h * D!Hour + r2
  BY <1>2, Remainders
<1>4. PICK t \in Nat : t = At(d, h, m, s)
  BY Remainders
<1>5. t = d * D!Day + r1
  BY <1>2, <1>3, <1>4 DEF At
<1>6. D!DayOf(t) = d /\ t % D!Day = r1
  BY <1>1, <1>3, <1>5, Quotient, Lengths DEF D!DayOf
<1>7. D!HourOf(t) = h
  <2>1. (h * D!Hour + r2) \div D!Hour = h
    BY <1>1, <1>2, Quotient, Lengths
  <2> QED
    BY <1>3, <1>6, <2>1 DEF D!HourOf
<1>8. PICK hours \in Nat : hours = d * HoursPerDay + h
  BY <1>1, Lengths
<1>9. t = hours * D!Hour + r2
  <2>1. d * (HoursPerDay * D!Hour) = (d * HoursPerDay) * D!Hour
    BY <1>1, Lengths
  <2>2. hours * D!Hour = (d * HoursPerDay) * D!Hour + h * D!Hour
    BY <1>1, <1>8, Lengths
  <2> QED
    BY <1>1, <1>2, <1>3, <1>5, <2>1, <2>2, Lengths DEF D!Day
<1>10. t % D!Hour = r2
  BY <1>2, <1>8, <1>9, Quotient, Lengths
<1>11. D!MinuteOf(t) = m
  <2>1. (m * SecondsPerMinute + s) \div SecondsPerMinute = m
    BY <1>1, Quotient, Lengths
  <2> QED
    BY <1>2, <1>10, <2>1 DEF D!MinuteOf
<1>12. PICK minutes \in Nat : minutes = hours * MinutesPerHour + m
  BY <1>1, <1>8, Lengths
<1>13. t = minutes * SecondsPerMinute + s
  <2>1. hours * (MinutesPerHour * SecondsPerMinute) = (hours * MinutesPerHour) * SecondsPerMinute
    BY <1>8, Lengths
  <2>2. minutes * SecondsPerMinute = (hours * MinutesPerHour) * SecondsPerMinute + m * SecondsPerMinute
    BY <1>1, <1>8, <1>12, Lengths
  <2> QED
    BY <1>1, <1>2, <1>9, <2>1, <2>2, Lengths DEF D!Hour
<1>14. t % SecondsPerMinute = s
  BY <1>1, <1>12, <1>13, Quotient, Lengths
<1> QED
  BY <1>4, <1>6, <1>7, <1>11, <1>14

(* Every time has its parts.                                               *)
LEMMA EveryTime ==
    ASSUME NEW t \in Nat
    PROVE  \E d, h, m, s : Parts(d, h, m, s) /\ t = At(d, h, m, s)
<1>1. PICK d \in Nat, r1 \in 0..(D!Day - 1) : t = d * D!Day + r1
  <2>1. t \div D!Day \in Nat /\ (t % D!Day) \in 0..(D!Day - 1) /\ t = (t \div D!Day) * D!Day + (t % D!Day)
    BY Division, Lengths
  <2> QED
    BY ONLY <2>1
<1>2. r1 \in Nat /\ r1 < D!Day
  BY <1>1, Lengths
<1>3. PICK h \in Nat, r2 \in 0..(D!Hour - 1) : r1 = h * D!Hour + r2
  <2>1. /\ r1 \div D!Hour \in Nat /\ (r1 % D!Hour) \in 0..(D!Hour - 1)
        /\ r1 = (r1 \div D!Hour) * D!Hour + (r1 % D!Hour)
    BY <1>2, Division, Lengths
  <2> QED
    BY ONLY <2>1
<1>4. r2 \in Nat /\ r2 < D!Hour
  BY <1>3, Lengths
<1>5. PICK m \in Nat, s \in 0..(SecondsPerMinute - 1) : r2 = m * SecondsPerMinute + s
  <2>1. /\ r2 \div SecondsPerMinute \in Nat /\ (r2 % SecondsPerMinute) \in 0..(SecondsPerMinute - 1)
        /\ r2 = (r2 \div SecondsPerMinute) * SecondsPerMinute + (r2 % SecondsPerMinute)
    BY <1>4, Division, Lengths
  <2> QED
    BY ONLY <2>1
<1>6. h < HoursPerDay
  <2>1. SUFFICES ASSUME h >= HoursPerDay PROVE FALSE
    BY <1>3, Lengths
  <2>2. h * D!Hour >= HoursPerDay * D!Hour
    BY <1>3, <2>1, Lengths
  <2> QED
    BY <1>2, <1>3, <1>4, <2>2, Lengths DEF D!Day
<1>7. m < MinutesPerHour
  <2>1. SUFFICES ASSUME m >= MinutesPerHour PROVE FALSE
    BY <1>5, Lengths
  <2>2. m * SecondsPerMinute >= MinutesPerHour * SecondsPerMinute
    BY <1>5, <2>1, Lengths
  <2> QED
    BY <1>4, <1>5, <2>2, Lengths DEF D!Hour
<1>8. Parts(d, h, m, s)
  BY <1>1, <1>3, <1>5, <1>6, <1>7, Lengths DEF Parts
<1>9. t = At(d, h, m, s)
  BY <1>1, <1>3, <1>5 DEF At
<1> QED
  BY <1>8, <1>9

(* Times are ordered by day, then hour, then minute, then second.          *)
LEMMA TimeOrder ==
    ASSUME NEW d, NEW h, NEW m, NEW s, Parts(d, h, m, s),
           NEW e, NEW i, NEW n, NEW u, Parts(e, i, n, u),
           \/ d < e
           \/ d = e /\ h < i
           \/ d = e /\ h = i /\ m < n
           \/ d = e /\ h = i /\ m = n /\ s < u
    PROVE  At(d, h, m, s) < At(e, i, n, u)
<1>1. /\ d \in Nat /\ h \in Nat /\ m \in Nat /\ s \in Nat /\ s < SecondsPerMinute
      /\ e \in Nat /\ i \in Nat /\ n \in Nat /\ u \in Nat
  BY Lengths DEF Parts
<1>2. PICK r2 \in Nat : r2 = m * SecondsPerMinute + s /\ r2 < D!Hour
  BY Remainders, Lengths
<1>3. PICK r1 \in Nat : r1 = h * D!Hour + r2 /\ r1 < D!Day
  BY <1>2, Remainders, Lengths
<1>4. PICK q2 \in Nat : q2 = n * SecondsPerMinute + u
  BY Remainders, Lengths
<1>5. PICK q1 \in Nat : q1 = i * D!Hour + q2
  BY <1>4, Remainders, Lengths
<1>6. At(d, h, m, s) = d * D!Day + r1 /\ At(e, i, n, u) = e * D!Day + q1
  BY <1>2, <1>3, <1>4, <1>5 DEF At
<1>7. d * D!Day \in Nat /\ e * D!Day \in Nat /\ h * D!Hour \in Nat /\ i * D!Hour \in Nat
      /\ m * SecondsPerMinute \in Nat /\ n * SecondsPerMinute \in Nat
  BY <1>1, Lengths
<1>8. CASE d < e
  <2>1. d * D!Day + D!Day <= e * D!Day
    BY <1>1, <1>8, UnitMore, Lengths
  <2> QED
    BY <1>3, <1>5, <1>6, <1>7, <2>1, Lengths
<1>9. CASE d = e /\ h < i
  <2>1. h * D!Hour + D!Hour <= i * D!Hour
    BY <1>1, <1>9, UnitMore, Lengths
  <2>2. r1 < q1
    BY <1>2, <1>3, <1>4, <1>5, <1>7, <2>1, Lengths
  <2> QED
    BY <1>3, <1>5, <1>6, <1>7, <1>9, <2>2
<1>10. CASE d = e /\ h = i /\ m < n
  <2>1. m * SecondsPerMinute + SecondsPerMinute <= n * SecondsPerMinute
    BY <1>1, <1>10, UnitMore, Lengths
  <2>2. r2 < q2
    BY <1>1, <1>2, <1>4, <1>7, <2>1, Lengths
  <2>3. r1 < q1
    BY <1>2, <1>3, <1>4, <1>5, <1>7, <1>10, <2>2
  <2> QED
    BY <1>3, <1>5, <1>6, <1>7, <1>10, <2>3
<1>11. CASE d = e /\ h = i /\ m = n /\ s < u
  <2>1. r2 < q2
    BY <1>1, <1>2, <1>4, <1>7, <1>11
  <2>2. r1 < q1
    BY <1>2, <1>3, <1>4, <1>5, <1>7, <1>11, <2>1
  <2> QED
    BY <1>3, <1>5, <1>6, <1>7, <1>11, <2>2
<1> QED
  BY <1>8, <1>9, <1>10, <1>11

LEMMA FirstNumber ==
    ASSUME NEW A, A \subseteq Nat, A # {}
    PROVE  \E i \in A : \A j \in A : i <= j
<1>1. PICK i \in A : \A j \in A : ~(<<j, i>> \in OpToRel(<, Nat))
  BY NatLessThanWellFounded, WFMin
<1>2. \A j \in A : ~(j < i)
  BY <1>1 DEF OpToRel
<1>3. \A j \in A : i <= j
  BY <1>2
<1> QED
  BY <1>3

(* Times that are not before each other.                                   *)
LEMMA TimeAfter ==
    ASSUME NEW d, NEW h, NEW m, NEW s, Parts(d, h, m, s),
           NEW e, NEW i, NEW n, Parts(e, i, n, 0),
           At(d, h, m, s) < At(e, i, n, 0)
    PROVE  d < e \/ (d = e /\ h < i) \/ (d = e /\ h = i /\ m < n)
<1>1. d \in Nat /\ h \in Nat /\ m \in Nat /\ s \in Nat /\ e \in Nat /\ i \in Nat /\ n \in Nat
  BY Lengths DEF Parts
<1>2. PICK t \in Nat, c \in Nat : t = At(d, h, m, s) /\ c = At(e, i, n, 0)
  BY Remainders
<1>3. ASSUME e < d \/ (e = d /\ i < h) \/ (e = d /\ i = h /\ n < m) \/ (e = d /\ i = h /\ n = m /\ 0 < s)
      PROVE  FALSE
  <2>1. At(e, i, n, 0) < At(d, h, m, s)
    BY <1>3, TimeOrder
  <2> QED
    BY <1>2, <2>1
<1>4. ASSUME d = e, h = i, m = n, s = 0 PROVE FALSE
  <2>1. t = c
    BY <1>2, <1>4
  <2> QED
    BY <1>2, <2>1
<1> QED
  BY <1>1, <1>3, <1>4

-----------------------------------------------------------------------------
(* The times of the day that the settings name, on any day.                *)
HourFits(h, s) == IF s.hourly = 0 THEN h = s.hour ELSE h % s.hourly = 0
Named(c, s) == /\ c % SecondsPerMinute = 0 /\ D!MinuteOf(c) = s.minute
               /\ HourFits(D!HourOf(c), s)

LEMMA NamedParts ==
    ASSUME NEW s \in D!Setting, NEW c \in Nat, Named(c, s)
    PROVE  \E d, h : Parts(d, h, s.minute, 0) /\ c = At(d, h, s.minute, 0) /\ HourFits(h, s)
<1>1. PICK d, h, m, u : Parts(d, h, m, u) /\ c = At(d, h, m, u)
  BY EveryTime
<1>2. D!HourOf(c) = h /\ D!MinuteOf(c) = m /\ c % SecondsPerMinute = u
  BY <1>1, PartsOfAt
<1> QED
  BY <1>1, <1>2 DEF Named

LEMMA AtIsNamed ==
    ASSUME NEW s \in D!Setting, NEW d, NEW h, Parts(d, h, s.minute, 0), HourFits(h, s)
    PROVE  Named(At(d, h, s.minute, 0), s)
BY PartsOfAt DEF Named

LEMMA SettingType ==
    ASSUME NEW s \in D!Setting
    PROVE  /\ s.hour \in 0..(HoursPerDay - 1) /\ s.minute \in 0..(MinutesPerHour - 1)
           /\ s.hourly \in Nat /\ s.stopper \in Nat
BY CalendarAssumption DEF D!Setting

(* The next time is after now, one that is named, and the first such.      *)
LEMMA NextIsFirst ==
    ASSUME NEW t \in Nat, NEW s \in D!Setting
    PROVE  /\ D!convertTriggerDate(t, s) \in Nat /\ t < D!convertTriggerDate(t, s)
           /\ Named(D!convertTriggerDate(t, s), s)
           /\ \A c \in Nat : Named(c, s) /\ t < c => D!convertTriggerDate(t, s) <= c
<1>1. PICK d, h, m, u : Parts(d, h, m, u) /\ t = At(d, h, m, u)
  BY EveryTime
<1>2. /\ d \in Nat /\ h \in 0..(HoursPerDay - 1) /\ m \in 0..(MinutesPerHour - 1)
      /\ D!DayOf(t) = d /\ D!HourOf(t) = h /\ D!MinuteOf(t) = m
  BY <1>1, PartsOfAt DEF Parts
<1>3. PICK min \in 0..(MinutesPerHour - 1) : min = s.minute
  BY SettingType
<1>a. PICK ahead : ahead = {i \in 0..(HoursPerDay - 1) :
                              /\ i % s.hourly = 0
                              /\ (i = D!HourOf(t) /\ s.minute > D!MinuteOf(t)) \/ i > D!HourOf(t)}
  OBVIOUS
<1>4. ahead = {i \in 0..(HoursPerDay - 1) :
                 /\ i % s.hourly = 0
                 /\ (i = h /\ min > m) \/ i > h}
  BY <1>2, <1>3, <1>a
<1>5. PICK hour : hour = IF s.hourly = 0 THEN s.hour
                         ELSE IF ahead = {} THEN 0 ELSE CHOOSE i \in ahead : \A j \in ahead : i <= j
  OBVIOUS
<1>6. PICK plain : plain = At(d, hour, min, 0)
  OBVIOUS
<1>7. ahead # {} => (CHOOSE i \in ahead : \A j \in ahead : i <= j) \in ahead
                    /\ \A j \in ahead : (CHOOSE i \in ahead : \A k \in ahead : i <= k) <= j
  <2>1. ahead \subseteq Nat
    BY <1>4, Lengths
  <2>2. ahead # {} => \E i \in ahead : \A j \in ahead : i <= j
    BY <2>1, FirstNumber
  <2> QED
    BY <2>2
<1>8. hour \in 0..(HoursPerDay - 1) /\ HourFits(hour, s)
  <2>1. CASE s.hourly = 0
    BY <1>5, <2>1, SettingType DEF HourFits
  <2>2. CASE s.hourly # 0 /\ ahead = {}
    BY <1>5, <2>2, SettingType, Lengths DEF HourFits
  <2>3. CASE s.hourly # 0 /\ ahead # {}
    <3>1. hour \in ahead
      BY <1>5, <1>7, <2>3
    <3> QED
      BY <1>4, <2>3, <3>1 DEF HourFits
  <2> QED
    BY <2>1, <2>2, <2>3
<1>9. Parts(d, hour, min, 0) /\ Parts(d + 1, hour, min, 0)
  BY <1>2, <1>3, <1>8, Lengths DEF Parts
<1>10. plain \in Nat /\ plain + D!Day = At(d + 1, hour, min, 0)
  <2>1. plain \in Nat
    BY <1>6, <1>9, Remainders
  <2>2. (d + 1) * D!Day = d * D!Day + D!Day
    BY <1>2, Lengths
  <2>3. PICK r \in Nat : r = hour * D!Hour + (min * SecondsPerMinute + 0)
    BY <1>9, Remainders, Lengths
  <2>4. d * D!Day \in Nat
    BY <1>2, Lengths
  <2> QED
    BY <1>6, <2>1, <2>2, <2>3, <2>4, Lengths DEF At
<1>11. PICK next : next = D!convertTriggerDate(t, s)
  OBVIOUS
<1>12. next = IF t < plain THEN plain ELSE plain + D!Day
  <2>1. d * D!Day + hour * D!Hour + min * SecondsPerMinute = plain
    <3>1. d * D!Day \in Nat /\ hour * D!Hour \in Nat /\ min * SecondsPerMinute \in Nat
      BY <1>2, <1>3, <1>8, Lengths
    <3> QED
      BY <1>6, <3>1 DEF At
  <2>2. PICK p : p = D!DayOf(t) * D!Day + hour * D!Hour + s.minute * SecondsPerMinute
    OBVIOUS
  <2>3. next = IF t < p THEN p ELSE p + D!Day
    BY ONLY <1>a, <1>5, <1>11, <2>2 DEF D!convertTriggerDate
  <2> QED
    BY <1>2, <1>3, <2>1, <2>2, <2>3
<1>13. t < plain + D!Day
  <2>1. At(d, h, m, u) < At(d + 1, hour, min, 0)
    BY <1>1, <1>2, <1>9, TimeOrder
  <2> QED
    BY <1>1, <1>10, <2>1
<1>14. next \in Nat /\ t < next
  BY <1>10, <1>12, <1>13, Lengths
<1>15. Named(next, s)
  <2>1. next = At(d, hour, min, 0) \/ next = At(d + 1, hour, min, 0)
    BY <1>6, <1>10, <1>12
  <2> QED
    BY <1>3, <1>8, <1>9, <2>1, AtIsNamed
<1>16. ASSUME NEW c \in Nat, Named(c, s), t < c PROVE next <= c
  <2>1. PICK e, i : Parts(e, i, min, 0) /\ c = At(e, i, min, 0) /\ HourFits(i, s)
    BY <1>3, <1>16, NamedParts
  <2>2. e \in Nat /\ i \in 0..(HoursPerDay - 1)
    BY <2>1 DEF Parts
  <2>3. d < e \/ (d = e /\ h < i) \/ (d = e /\ h = i /\ m < min)
    BY <1>1, <1>16, <2>1, TimeAfter
  <2>4. ASSUME d = e, s.hourly # 0 PROVE i \in ahead
    BY <1>2, <1>3, <1>4, <2>1, <2>2, <2>3, <2>4 DEF HourFits
  (* Today: it is the hour that was found. *)
  <2>5. CASE d = e
    <3>1. CASE s.hourly = 0
      <4>1. i = hour
        BY <1>5, <2>1, <3>1 DEF HourFits
      <4>2. c = plain
        BY <1>6, <2>1, <2>5, <4>1
      <4> QED
        BY <1>12, <1>16, <4>2
    <3>2. CASE s.hourly # 0
      <4>1. i \in ahead
        BY <2>4, <2>5, <3>2
      <4>2. hour \in ahead /\ hour <= i
        BY <1>5, <1>7, <3>2, <4>1
      <4>3. t < plain
        <5>1. (hour = h /\ min > m) \/ hour > h
          BY <1>4, <4>2
        <5>2. h < hour \/ (h = hour /\ m < min)
          BY <1>2, <1>3, <1>8, <5>1
        <5> QED
          BY <1>1, <1>6, <1>9, <5>2, TimeOrder
      <4>4. hour = i \/ hour < i
        BY <1>8, <2>2, <4>2
      <4>5. CASE hour = i
        <5>1. plain = c
          BY <1>6, <2>1, <2>5, <4>5
        <5> QED
          BY <1>10, <1>12, <4>3, <5>1
      <4>6. CASE hour < i
        <5>1. plain < c
          BY <1>6, <1>9, <2>1, <2>5, <4>6, TimeOrder
        <5> QED
          BY <1>10, <1>12, <4>3, <5>1
      <4> QED
        BY <4>4, <4>5, <4>6
    <3> QED
      BY <3>1, <3>2
  (* Another day: it is the hour found, today or tomorrow, or later. *)
  <2>6. CASE d < e
    <3>1. CASE t < plain
      <4>1. plain < c
        BY <1>6, <1>9, <2>1, <2>6, TimeOrder
      <4> QED
        BY <1>10, <1>12, <3>1, <4>1
    <3>2. CASE ~(t < plain)
      <4>1. next = At(d + 1, hour, min, 0)
        BY <1>10, <1>12, <3>2
      <4>2. hour <= i
        <5>1. CASE s.hourly = 0
          BY <1>5, <1>8, <2>1, <5>1 DEF HourFits
        <5>2. CASE s.hourly # 0
          <6>1. ahead = {}
            <7>1. SUFFICES ASSUME ahead # {} PROVE FALSE
              OBVIOUS
            <7>2. hour \in ahead
              BY <1>5, <1>7, <5>2, <7>1
            <7>3. h < hour \/ (h = hour /\ m < min)
              BY <1>2, <1>3, <1>4, <1>8, <7>2
            <7> QED
              BY <1>1, <1>6, <1>9, <3>2, <7>3, TimeOrder
          <6> QED
            BY <1>5, <2>2, <5>2, <6>1, Lengths
        <5> QED
          BY <5>1, <5>2
      <4>3. d + 1 < e \/ (d + 1 = e /\ hour < i) \/ (d + 1 = e /\ hour = i)
        BY <1>2, <1>8, <2>2, <2>6, <4>2
      <4>4. CASE d + 1 < e \/ (d + 1 = e /\ hour < i)
        <5>1. next < c
          BY <1>9, <2>1, <4>1, <4>4, TimeOrder
        <5> QED
          BY <1>14, <5>1
      <4>5. CASE d + 1 = e /\ hour = i
        <5>1. next = c
          BY <2>1, <4>1, <4>5
        <5> QED
          BY <1>14, <5>1
      <4> QED
        BY <4>3, <4>4, <4>5
    <3> QED
      BY <3>1, <3>2
  <2> QED
    BY <1>2, <2>2, <2>3, <2>5, <2>6
<1> QED
  BY <1>11, <1>14, <1>15, <1>16

(* A time within the minute that begins at c.                              *)
LEMMA WithinMinute ==
    ASSUME NEW c \in Nat, c % SecondsPerMinute = 0, NEW n \in Nat, c <= n, n <= c + MaxLag
    PROVE  D!DayOf(n) = D!DayOf(c) /\ n % SecondsPerMinute = n - c
<1>1. PICK d, h, m, s : Parts(d, h, m, s) /\ c = At(d, h, m, s)
  BY EveryTime
<1>2. s = 0 /\ D!DayOf(c) = d
  BY <1>1, PartsOfAt
<1>3. PICK j \in 0..(SecondsPerMinute - 1) : j = n - c
  BY CalendarAssumption
<1>4. Parts(d, h, m, j)
  BY <1>1 DEF Parts
<1>5. n = At(d, h, m, j)
  <2>1. d * D!Day \in Nat /\ h * D!Hour \in Nat /\ m * SecondsPerMinute \in Nat
    BY <1>1, Lengths DEF Parts
  <2>2. c = d * D!Day + (h * D!Hour + (m * SecondsPerMinute + 0))
    BY <1>1, <1>2 DEF At
  <2>3. n = d * D!Day + (h * D!Hour + (m * SecondsPerMinute + j))
    BY <1>3, <2>1, <2>2
  <2> QED
    BY <2>3 DEF At
<1> QED
  BY <1>2, <1>3, <1>4, <1>5, PartsOfAt

-----------------------------------------------------------------------------
(* The trigger: what is registered is a time the settings name, and all    *)
(* those before it have been dealt with.                                   *)
Passed(bound) == \A c \in D!Wanted(setting) : since < c /\ c < bound => c \in fired \cup overtaken

ScheduleInv ==
    /\ setting \in D!Setting /\ now \in D!Times /\ due \in Nat /\ lastfire \in Nat /\ since \in Nat
    /\ Named(due, setting)
    /\ lastfire <= now /\ lastfire < due /\ since <= now /\ now <= due + MaxLag
    /\ fired \subseteq D!Wanted(setting)
    /\ Passed(due)

LEMMA TimesAreNumbers == D!Times \subseteq Nat /\ \A n \in Nat : \A t \in D!Times : n <= t => n \in D!Times
<1>1. MaxDays * D!Day \in Nat
  BY CalendarAssumption, Lengths
<1> QED
  BY <1>1 DEF D!Times

LEMMA WantedIsNamed ==
    ASSUME NEW s, NEW c
    PROVE  c \in D!Wanted(s) <=> c \in D!Times /\ Named(c, s) /\ D!convertTriggerDateWeekDay(c, s)
BY DEF D!Wanted, Named, HourFits, D!convertTriggerDateWeekDay

(* The stopper never holds a firing back (the time it compares with is in  *)
(* the future).                                                            *)
LEMMA StopperNever ==
    ASSUME ScheduleInv
    PROVE  D!StopperAllows(now, setting)
<1>1. setting.stopper \in Nat /\ now \in Nat /\ lastfire \in Nat /\ lastfire <= now
  BY SettingType, TimesAreNumbers DEF ScheduleInv
<1>2. setting.stopper * SecondsPerMinute \in Nat
  BY <1>1, Lengths
<1>3. PICK wait \in Nat : wait = IF setting.stopper * SecondsPerMinute < SecondsPerMinute
                                 THEN setting.stopper * SecondsPerMinute ELSE SecondsPerMinute
  BY <1>2, Lengths
<1>4. ~(lastfire > now + wait)
  BY <1>1, <1>3
<1> QED
  BY <1>3, <1>4 DEF D!StopperAllows

LEMMA ScheduleInvInit == D!Init => ScheduleInv
<1> SUFFICES ASSUME D!Init PROVE ScheduleInv
  OBVIOUS
<1>1. /\ setting \in D!Setting /\ now \in 0..(D!Day - 1) /\ due = D!convertTriggerDate(now, setting)
      /\ lastfire = 0 /\ fired = {} /\ since = now
  BY DEF D!Init
<1>2. now \in Nat /\ now < D!Day
  BY <1>1, Lengths
<1>3. now \in D!Times
  <2>1. D!Day <= MaxDays * D!Day /\ MaxDays * D!Day \in Nat
    <3>1. MaxDays \in Nat \ {0} /\ D!Day \in Nat
      BY CalendarAssumption, Lengths
    <3>2. \A a \in Nat \ {0}, b \in Nat : b <= a * b /\ a * b \in Nat
      OBVIOUS
    <3> QED
      BY <3>1, <3>2
  <2> QED
    BY <1>2, <2>1, Lengths DEF D!Times
<1>4. /\ due \in Nat /\ now < due /\ Named(due, setting)
      /\ \A c \in Nat : Named(c, setting) /\ now < c => due <= c
  BY <1>1, <1>2, NextIsFirst
<1>5. Passed(due)
  <2> SUFFICES ASSUME NEW c \in D!Wanted(setting), since < c, c < due PROVE FALSE
    BY DEF Passed
  <2>1. c \in Nat /\ Named(c, setting)
    BY WantedIsNamed, TimesAreNumbers
  <2> QED
    BY <1>1, <1>4, <2>1
<1>6. now <= due + MaxLag
  BY <1>2, <1>4, CalendarAssumption
<1> QED
  BY <1>1, <1>2, <1>3, <1>4, <1>5, <1>6 DEF ScheduleInv

(* The next time is looked for, by a firing or a reload: nothing lies      *)
(* between what was registered and what is registered now.                 *)
LEMMA NextRegistered ==
    ASSUME ScheduleInv, NEW next, next = D!convertTriggerDate(now, setting)
    PROVE  /\ next \in Nat /\ now < next /\ Named(next, setting)
           /\ \A c \in D!Wanted(setting) : since < c /\ c < next /\ c # due => c \in fired \cup overtaken
           /\ due > now => Passed(next)
<1>1. setting \in D!Setting /\ now \in Nat /\ due \in Nat /\ Named(due, setting) /\ now <= due + MaxLag /\ Passed(due)
  BY TimesAreNumbers DEF ScheduleInv
<1>2. next \in Nat /\ now < next /\ Named(next, setting) /\ \A c \in Nat : Named(c, setting) /\ now < c => next <= c
  BY <1>1, NextIsFirst
<1>3. ASSUME NEW c \in D!Wanted(setting), since < c, c < next, c # due PROVE c \in fired \cup overtaken
  <2>1. c \in Nat /\ Named(c, setting)
    BY WantedIsNamed, TimesAreNumbers
  <2>2. c <= now
    BY <1>1, <1>2, <1>3, <2>1
  <2>3. c < due
    <3>1. SUFFICES ASSUME due < c PROVE FALSE
      BY <1>1, <1>3, <2>1
    <3>2. c <= due + MaxLag
      BY <1>1, <2>1, <2>2, CalendarAssumption
    <3>3. c % SecondsPerMinute = c - due
      BY <1>1, <2>1, <3>1, <3>2, WithinMinute DEF Named
    <3> QED
      BY <1>1, <2>1, <3>1, <3>3 DEF Named
  <2> QED
    BY <1>1, <1>3, <2>3 DEF Passed
<1>4. ASSUME due > now PROVE Passed(next)
  <2>1. next <= due
    BY <1>1, <1>2, <1>4
  <2> SUFFICES ASSUME NEW c \in D!Wanted(setting), since < c, c < next PROVE c \in fired \cup overtaken
    BY DEF Passed
  <2>2. c \in Nat
    BY WantedIsNamed, TimesAreNumbers
  <2>3. c # due
    BY <1>1, <1>2, <2>1, <2>2
  <2> QED
    BY <1>3, <2>3
<1> QED
  BY <1>2, <1>3, <1>4

LEMMA FireKeeps ==
    ASSUME ScheduleInv, D!Fire
    PROVE  ScheduleInv'
<1>1. /\ due <= now /\ due' = D!convertTriggerDate(now, setting) /\ UNCHANGED <<setting, now, overtaken, since>>
      /\ \/ /\ D!convertTriggerDateWeekDay(now, setting)
            /\ lastfire' = now /\ fired' = fired \cup {due}
         \/ /\ ~D!convertTriggerDateWeekDay(now, setting)
            /\ UNCHANGED <<lastfire, fired>>
  BY StopperNever DEF D!Fire
<1>2. setting \in D!Setting /\ now \in D!Times /\ now \in Nat /\ due \in Nat /\ lastfire \in Nat /\ since \in Nat
      /\ Named(due, setting) /\ lastfire <= now /\ since <= now /\ now <= due + MaxLag /\ fired \subseteq D!Wanted(setting)
  BY TimesAreNumbers DEF ScheduleInv
<1>3. /\ due' \in Nat /\ now < due' /\ Named(due', setting)
      /\ \A c \in D!Wanted(setting) : since < c /\ c < due' /\ c # due => c \in fired \cup overtaken
  BY <1>1, NextRegistered
<1>4. D!convertTriggerDateWeekDay(now, setting) <=> D!convertTriggerDateWeekDay(due, setting)
  <2>1. D!DayOf(now) = D!DayOf(due)
    BY <1>1, <1>2, WithinMinute DEF Named
  <2> QED
    BY <2>1 DEF D!convertTriggerDateWeekDay
<1>5. due \in D!Times
  BY <1>1, <1>2, TimesAreNumbers
<1>6. fired' \subseteq D!Wanted(setting)
  BY <1>1, <1>2, <1>4, <1>5, WantedIsNamed
<1>7. \A c \in D!Wanted(setting) : since < c /\ c < due' => c \in fired' \cup overtaken
  <2> SUFFICES ASSUME NEW c \in D!Wanted(setting), since < c, c < due' PROVE c \in fired' \cup overtaken
    OBVIOUS
  <2>1. CASE c # due
    BY <1>1, <1>3, <2>1
  <2>2. CASE c = due
    BY <1>1, <1>4, <2>2, WantedIsNamed
  <2> QED
    BY <2>1, <2>2
<1>8. D!Wanted(setting)' = D!Wanted(setting) /\ Named(due, setting)' = Named(due', setting) /\ Passed(due)' =
         (\A c \in D!Wanted(setting) : since < c /\ c < due' => c \in fired' \cup overtaken)
  BY <1>1 DEF Passed, D!Wanted, Named, HourFits
<1>9. lastfire' \in Nat /\ lastfire' <= now /\ lastfire' < due' /\ now <= due' + MaxLag
  BY <1>1, <1>2, <1>3, CalendarAssumption
<1> QED
  BY <1>1, <1>2, <1>3, <1>6, <1>7, <1>8, <1>9 DEF ScheduleInv

LEMMA ReloadKeeps ==
    ASSUME ScheduleInv, D!Reload
    PROVE  ScheduleInv'
<1>1. /\ due' = D!convertTriggerDate(now, setting) /\ UNCHANGED <<setting, now, lastfire, fired, since>>
      /\ overtaken' = IF due <= now THEN overtaken \cup {due} ELSE overtaken
  BY DEF D!Reload
<1>2. setting \in D!Setting /\ now \in D!Times /\ now \in Nat /\ due \in Nat /\ lastfire \in Nat /\ since \in Nat
      /\ lastfire <= now /\ since <= now /\ fired \subseteq D!Wanted(setting)
  BY TimesAreNumbers DEF ScheduleInv
<1>3. /\ due' \in Nat /\ now < due' /\ Named(due', setting)
      /\ \A c \in D!Wanted(setting) : since < c /\ c < due' /\ c # due => c \in fired \cup overtaken
      /\ due > now => Passed(due')
  BY <1>1, NextRegistered
<1>4. \A c \in D!Wanted(setting) : since < c /\ c < due' => c \in fired \cup overtaken'
  <2>1. CASE due <= now
    <3>1. due \in overtaken' /\ overtaken \subseteq overtaken'
      BY <1>1, <2>1
    <3> QED
      BY <1>3, <3>1
  <2>2. CASE due > now
    <3>1. overtaken' = overtaken
      BY <1>1, <1>2, <2>2
    <3> QED
      BY <1>3, <2>2, <3>1 DEF Passed
  <2> QED
    BY <1>2, <2>1, <2>2
<1>5. D!Wanted(setting)' = D!Wanted(setting) /\ Named(due, setting)' = Named(due', setting) /\ Passed(due)' =
         (\A c \in D!Wanted(setting) : since < c /\ c < due' => c \in fired \cup overtaken')
  BY <1>1 DEF Passed, D!Wanted, Named, HourFits
<1>6. lastfire < due' /\ now <= due' + MaxLag
  <2>1. PICK next \in Nat : next = due' /\ now < next
    BY <1>3
  <2>2. now \in Nat /\ lastfire \in Nat /\ lastfire <= now
    BY <1>2
  <2>3. lastfire < next
    BY <2>1, <2>2
  <2>4. PICK lag \in Nat : lag = MaxLag
    BY CalendarAssumption
  <2>5. now <= next + lag
    <3>1. now < next
      BY <2>1
    <3> QED
      BY <2>2, <3>1
  <2> QED
    BY <2>1, <2>3, <2>4, <2>5
<1> QED
  BY <1>1, <1>2, <1>3, <1>4, <1>5, <1>6 DEF ScheduleInv

LEMMA TickKeeps ==
    ASSUME ScheduleInv, D!Tick
    PROVE  ScheduleInv'
<1>1. /\ now + 1 \in D!Times /\ now < due + MaxLag /\ now' = now + 1
      /\ UNCHANGED <<setting, due, lastfire, fired, overtaken, since>>
  BY DEF D!Tick
<1>2. now \in Nat /\ due \in Nat /\ lastfire \in Nat /\ since \in Nat /\ lastfire <= now /\ since <= now
  BY TimesAreNumbers DEF ScheduleInv
<1>3. lastfire <= now' /\ since <= now' /\ now' <= due + MaxLag
  BY <1>1, <1>2, CalendarAssumption
<1>4. D!Wanted(setting)' = D!Wanted(setting) /\ Named(due, setting)' = Named(due, setting) /\ Passed(due)' = Passed(due)
  BY <1>1 DEF Passed, D!Wanted, Named, HourFits
<1> QED
  BY <1>1, <1>3, <1>4 DEF ScheduleInv

LEMMA ScheduleInvNext == ScheduleInv /\ (D!Next \/ UNCHANGED dvars) => ScheduleInv'
<1> SUFFICES ASSUME ScheduleInv, D!Next \/ UNCHANGED dvars PROVE ScheduleInv'
  OBVIOUS
<1>1. CASE UNCHANGED dvars
  BY <1>1 DEF dvars, ScheduleInv, Passed, D!Wanted, Named, HourFits
<1> QED
  BY <1>1, FireKeeps, ReloadKeeps, TickKeeps DEF D!Next

(* For days, hours and minutes of any length, any settings and any         *)
(* holidays, a repeated trigger fires at every time the settings name, at  *)
(* no other, and is never registered for a time it fired at already        *)
(* (ScriptWebRunnerTrigger.cpp:160-220, 572-611).                          *)
THEOREM FiresAsSet == Spec => []FiredAsWanted
<1> DEFINE Inv == part = "schedule" => ScheduleInv
<1>1. Init => Inv
  BY ScheduleInvInit DEF Init
<1>2. Inv /\ [Next]_vars => Inv'
  BY ScheduleInvNext DEF Next, vars
<1>3. Inv => FiredAsWanted
  <2>1. ScheduleInv => D!EveryWantedTime /\ D!OncePerTime
    BY DEF ScheduleInv, Passed, D!EveryWantedTime, D!OncePerTime
  <2> QED
    BY <2>1 DEF FiredAsWanted
<1> QED
  BY <1>1, <1>2, <1>3, PTL DEF Spec

-----------------------------------------------------------------------------
(* The settings.                                                           *)

Ended(lines) == \A i \in DOMAIN lines : lines[i].ended

(* How far a save has come: the settings that are left have no line yet,   *)
(* those that are written have one, with their value.                      *)
MergedKey(lines, map, left, k) ==
    IF map[k] = None \/ left[k] # None THEN F!LinesOf(lines, k) = {}
    ELSE \E i \in DOMAIN lines : F!LinesOf(lines, k) = {i} /\ F!chop(lines[i].value) = F!chop(map[k])
Merged(lines, map, left) == \A k \in Keys : MergedKey(lines, map, left, k)

(* What holds until the power fails for the first time.                    *)
Sound == /\ Ended(conf) /\ F!loadConfig(conf) = F!ChopAll(saved)
         /\ written => \A k \in Keys : \A i, j \in F!LinesOf(conf, k) : i = j
         /\ phase = "write" => /\ Ended(out) /\ Merged(out, ConfigData, localSetting)
                               /\ \A k \in Keys : localSetting[k] \in {ConfigData[k], None}
         /\ phase = "copy" => Merged(tmp, ConfigData, F!Empty) /\ Ended(tmp)

ConfigInv == F!TypeOK /\ (cuts = 0 => Sound)

LEMMA LargestNumber ==
    ASSUME NEW n \in Nat, NEW S, S \subseteq 1..n, S # {}
    PROVE  \E m \in S : \A j \in S : j <= m
<1> DEFINE U == {i \in Nat : \A j \in S : j <= i}
<1>1. n \in U
  OBVIOUS
<1>2. PICK u \in U : \A i \in U : u <= i
  BY <1>1, FirstNumber
<1>3. u \in S
  <2>1. SUFFICES ASSUME u \notin S PROVE FALSE
    OBVIOUS
  <2>2. \A j \in S : j <= u - 1
    BY <2>1
  <2>3. u - 1 \in Nat
    <3>1. PICK j \in S : TRUE
      OBVIOUS
    <3>2. j \in 1..n /\ j <= u - 1
      BY <2>2, <3>1
    <3> QED
      BY <3>2
  <2> QED
    BY <1>2, <2>2, <2>3
<1> QED
  BY <1>3

LEMMA Chopped == /\ \A v \in F!Value : /\ v # None /\ F!chop(v) \in F!Value
                                       /\ F!chop(F!chop(v)) = F!chop(v)
                 /\ F!chop(None) = None
<1>1. None \notin F!Value
  BY FilesAssumption
<1> QED
  BY <1>1 DEF F!chop, F!Value

LEMMA LineTypes == ASSUME NEW l \in F!Line
                   PROVE  /\ l.ended \in BOOLEAN /\ l.kind \in {"pair", "comment", "garbage"}
                          /\ l.kind = "pair" => l.key \in Keys /\ l.value \in F!Value
  BY DEF F!Line, F!Comment, F!Garbage

LEMMA LoadTypes ==
    ASSUME NEW lines \in Seq(F!Line)
    PROVE  F!loadConfig(lines) \in F!Map /\ F!ChopAll(F!loadConfig(lines)) = F!loadConfig(lines)
<1>1. ASSUME NEW k \in Keys, F!LinesOf(lines, k) # {}
      PROVE  lines[F!LastOf(lines, k)].value \in F!Value
  <2>1. F!LinesOf(lines, k) \subseteq 1..Len(lines)
    BY DEF F!LinesOf
  <2>2. F!LastOf(lines, k) \in F!LinesOf(lines, k)
    BY <1>1, <2>1, LargestNumber DEF F!LastOf
  <2>3. lines[F!LastOf(lines, k)] \in F!Line /\ lines[F!LastOf(lines, k)].kind = "pair"
    BY <2>1, <2>2 DEF F!LinesOf
  <2> QED
    BY <2>3, LineTypes
<1> QED
  BY <1>1, Chopped DEF F!loadConfig, F!Map, F!ChopAll

LEMMA RunTogetherType ==
    ASSUME NEW l \in F!Line, NEW m \in F!Line
    PROVE  F!RunTogether(l, m) \in F!Line
<1>1. m.ended \in BOOLEAN
  BY LineTypes
<1>2. CASE l \in [kind : {"pair"}, key : Keys, value : F!Value, ended : BOOLEAN]
  <2>1. F!RunTogether(l, m) = [l EXCEPT !.value.text = Garbled, !.ended = m.ended]
    BY <1>2 DEF F!RunTogether
  <2>2. [l.value EXCEPT !.text = Garbled] \in F!Value
    BY <1>2 DEF F!Value
  <2> QED
    BY <1>1, <1>2, <2>1, <2>2 DEF F!Line
<1>3. CASE l \in F!Comment \cup F!Garbage
  BY <1>1, <1>3 DEF F!RunTogether, F!Line, F!Comment, F!Garbage
<1> QED
  BY <1>2, <1>3 DEF F!Line

LEMMA FprintfType ==
    ASSUME NEW lines \in Seq(F!Line), NEW l \in F!Line
    PROVE  F!fprintf(lines, l) \in Seq(F!Line)
<1>1. CASE lines = <<>> \/ F!Last(lines).ended
  BY <1>1 DEF F!fprintf
<1>2. CASE ~(lines = <<>> \/ F!Last(lines).ended)
  <2>1. Len(lines) \in Nat \ {0} /\ F!Last(lines) \in F!Line
    BY <1>2 DEF F!Last
  <2>2. F!Front(lines) \in Seq(F!Line)
    BY <2>1 DEF F!Front
  <2> QED
    BY <1>2, <2>1, <2>2, RunTogetherType DEF F!fprintf
<1> QED
  BY <1>1, <1>2

LEMMA FprintfEnded ==
    ASSUME NEW lines \in Seq(F!Line), NEW l \in F!Line, Ended(lines)
    PROVE  F!fprintf(lines, l) = Append(lines, l)
<1>1. lines = <<>> \/ F!Last(lines).ended
  BY DEF Ended, F!Last
<1> QED
  BY <1>1 DEF F!fprintf

LEMMA TornsType ==
    ASSUME NEW lines \in Seq(F!Line)
    PROVE  F!Torns(lines) \subseteq Seq(F!Line)
<1>1. ASSUME NEW l \in F!Line PROVE F!TornLine(l) \subseteq F!Line
  <2>1. F!Open(l) \in F!Line
    BY DEF F!Open, F!Line, F!Comment, F!Garbage
  <2>2. [kind |-> "garbage", ended |-> FALSE] \in F!Line
    BY DEF F!Line, F!Garbage
  <2>3. l.kind = "pair" => F!CutValue(l) \in F!Line
    <3>1. l.kind = "pair" => l \in [kind : {"pair"}, key : Keys, value : F!Value, ended : BOOLEAN]
      BY DEF F!Line, F!Comment, F!Garbage
    <3>2. [text |-> Garbled, padded |-> FALSE] \in F!Value
      BY DEF F!Value
    <3> QED
      BY <3>1, <3>2 DEF F!CutValue, F!Open, F!Line
  <2> QED
    BY <2>1, <2>2, <2>3 DEF F!TornLine
<1>2. ASSUME NEW n \in 1..Len(lines), NEW l \in F!TornLine(lines[n])
      PROVE  Append(SubSeq(lines, 1, n - 1), l) \in Seq(F!Line)
  <2>1. l \in F!Line
    BY <1>1
  <2>2. SubSeq(lines, 1, n - 1) \in Seq(F!Line)
    OBVIOUS
  <2> QED
    BY <2>1, <2>2
<1>3. ASSUME NEW t \in F!Torns(lines), t # <<>> PROVE t \in Seq(F!Line)
  <2>1. \E n \in 1..Len(lines) : t \in {Append(SubSeq(lines, 1, n - 1), l) : l \in F!TornLine(lines[n])}
    BY <1>3, Zenon DEF F!Torns
  <2>2. PICK n \in 1..Len(lines) : \E l \in F!TornLine(lines[n]) : t = Append(SubSeq(lines, 1, n - 1), l)
    BY <2>1
  <2> QED
    BY <1>2, <2>2
<1>4. <<>> \in Seq(F!Line)
  OBVIOUS
<1> QED
  BY <1>3, <1>4, Zenon

(* What a save prints next counts for its key, and no other.               *)
LEMMA LinesAfter ==
    ASSUME NEW lines \in Seq(F!Line), NEW l \in F!Line, Ended(lines), l.ended
    PROVE  LET new == F!fprintf(lines, l) IN
           /\ Ended(new)
           /\ \A i \in DOMAIN lines : i \in DOMAIN new /\ new[i] = lines[i]
           /\ \A k \in Keys : IF l.kind = "pair" /\ l.key = k
                                THEN F!LinesOf(new, k) = F!LinesOf(lines, k) \cup {Len(lines) + 1}
                                ELSE F!LinesOf(new, k) = F!LinesOf(lines, k)
           /\ Len(lines) + 1 \in DOMAIN new /\ new[Len(lines) + 1] = l
<1> DEFINE new == Append(lines, l)
<1>1. F!fprintf(lines, l) = new
  BY FprintfEnded
<1>2. /\ DOMAIN new = 1..(Len(lines) + 1) /\ DOMAIN lines = 1..Len(lines) /\ Len(lines) \in Nat
      /\ \A i \in 1..Len(lines) : new[i] = lines[i]
      /\ new[Len(lines) + 1] = l
  OBVIOUS
<1>3. Ended(new)
  BY <1>2 DEF Ended
<1>4. \A k \in Keys : IF l.kind = "pair" /\ l.key = k
                     THEN F!LinesOf(new, k) = F!LinesOf(lines, k) \cup {Len(lines) + 1}
                     ELSE F!LinesOf(new, k) = F!LinesOf(lines, k)
  BY <1>2 DEF F!LinesOf
<1> QED
  BY <1>1, <1>2, <1>3, <1>4

LEMMA PairIsLine == ASSUME NEW k \in Keys, NEW v \in F!Value
                    PROVE  /\ F!Pair(k, v) \in F!Line /\ F!Pair(k, v).ended /\ F!Pair(k, v).kind = "pair"
                           /\ F!Pair(k, v).key = k /\ F!Pair(k, v).value = v
  BY DEF F!Pair, F!Line

(* The line of a setting is printed and the setting crossed off.           *)
LEMMA PairMerged ==
    ASSUME NEW lines \in Seq(F!Line), Ended(lines), NEW map \in F!Map, NEW left \in F!Map,
           Merged(lines, map, left), \A k \in Keys : left[k] \in {map[k], None},
           NEW l \in F!Line, l.ended, l.kind = "pair", left[l.key] # None,
           F!chop(l.value) = F!chop(map[l.key])
    PROVE  Merged(F!fprintf(lines, l), map, [left EXCEPT ![l.key] = None])
<1>a. PICK new : new = F!fprintf(lines, l)
  OBVIOUS
<1>b. PICK rest : rest = [left EXCEPT ![l.key] = None]
  OBVIOUS
<1>1. /\ \A i \in DOMAIN lines : i \in DOMAIN new /\ new[i] = lines[i]
      /\ \A k \in Keys : IF l.kind = "pair" /\ l.key = k
                           THEN F!LinesOf(new, k) = F!LinesOf(lines, k) \cup {Len(lines) + 1}
                           ELSE F!LinesOf(new, k) = F!LinesOf(lines, k)
      /\ Len(lines) + 1 \in DOMAIN new /\ new[Len(lines) + 1] = l
  BY <1>a, LinesAfter
<1>2. l.key \in Keys
  BY LineTypes
<1>3. rest[l.key] = None /\ \A k \in Keys : k # l.key => rest[k] = left[k]
  BY <1>b, <1>2 DEF F!Map
<1>4. map[l.key] # None /\ F!LinesOf(lines, l.key) = {}
  BY <1>2 DEF Merged, MergedKey
<1>5. F!LinesOf(new, l.key) = {Len(lines) + 1}
  BY <1>1, <1>2, <1>4
<1>6. ASSUME NEW k \in Keys, k # l.key PROVE F!LinesOf(new, k) = F!LinesOf(lines, k)
  BY <1>1, <1>6
<1>7. ASSUME NEW k \in Keys
      PROVE  MergedKey(new, map, rest, k)
  <2>1. CASE k = l.key
    BY <1>1, <1>3, <1>4, <1>5, <2>1 DEF MergedKey
  <2>2. CASE k # l.key
    BY <1>1, <1>3, <1>6, <2>2 DEF Merged, MergedKey
  <2> QED
    BY <2>1, <2>2
<1>8. Merged(new, map, rest)
  BY <1>7, Zenon DEF Merged
<1> QED
  BY <1>a, <1>b, <1>8

(* What is merged entirely is what a start reads.                          *)
LEMMA MergedIsLoaded ==
    ASSUME NEW lines \in Seq(F!Line), NEW map \in F!Map, Merged(lines, map, F!Empty)
    PROVE  /\ F!loadConfig(lines) = F!ChopAll(map)
           /\ \A k \in Keys : \A i, j \in F!LinesOf(lines, k) : i = j
<1>1. ASSUME NEW k \in Keys
      PROVE  /\ (IF F!LinesOf(lines, k) = {} THEN None ELSE F!chop(lines[F!LastOf(lines, k)].value)) = F!chop(map[k])
             /\ \A i, j \in F!LinesOf(lines, k) : i = j
  <2>1. F!Empty[k] = None
    BY DEF F!Empty
  <2>2. CASE map[k] = None
    BY <2>2, Chopped DEF Merged, MergedKey
  <2>3. CASE map[k] # None
    <3>1. PICK i \in DOMAIN lines : F!LinesOf(lines, k) = {i} /\ F!chop(lines[i].value) = F!chop(map[k])
      BY <2>1, <2>3 DEF Merged, MergedKey
    <3>2. i <= i
      OBVIOUS
    <3>3. F!LastOf(lines, k) = i
      BY <3>1, <3>2 DEF F!LastOf
    <3> QED
      BY <3>1, <3>3
  <2> QED
    BY <2>2, <2>3
<1> QED
  BY <1>1 DEF F!loadConfig, F!ChopAll

-----------------------------------------------------------------------------
LEMMA ConfigInvInit == F!Init => ConfigInv
<1> SUFFICES ASSUME F!Init PROVE ConfigInv
  OBVIOUS
<1>1. conf \in Seq(F!Line) /\ Ended(conf)
  <2>1. conf \in Seq({l \in F!Line : l.ended})
    BY FilesAssumption DEF F!Init
  <2>2. \A i \in DOMAIN conf : conf[i] \in F!Line /\ conf[i].ended
    BY <2>1
  <2>3. conf \in Seq(F!Line)
    BY <2>1, <2>2
  <2> QED
    BY <2>2, <2>3 DEF Ended
<1>2. ConfigData \in F!Map /\ saved = ConfigData /\ F!loadConfig(conf) = F!ChopAll(saved)
  BY <1>1, LoadTypes DEF F!Init
<1>3. F!Empty \in F!Map
  BY DEF F!Empty, F!Map
<1>4. F!TypeOK
  <2>1. at \in 0..Len(conf)
    BY <1>1 DEF F!Init
  <2>2. todo \in [Threads -> SUBSET Tree]
    BY DEF F!Init
  <2>3. cuts \in 0..MaxCuts
    BY FilesAssumption DEF F!Init
  <2>4. tmp \in Seq(F!Line) /\ out \in Seq(F!Line)
    BY DEF F!Init
  <2> QED
    BY <1>1, <1>2, <1>3, <2>1, <2>2, <2>3, <2>4 DEF F!Init, F!TypeOK
<1> QED
  BY <1>1, <1>2, <1>4 DEF ConfigInv, Sound, F!Init

(* The settings change while no save is under way.                         *)
LEMMA EditKeeps ==
    ASSUME ConfigInv, phase = "none", ConfigData' \in F!Map, todo' \in [Threads -> SUBSET Tree],
           UNCHANGED <<conf, tmp, phase, F!save, saved, written, cuts>>
    PROVE  ConfigInv'
<1>1. UNCHANGED <<conf, tmp, phase, at, localSetting, out, saved, written, cuts>>
  BY DEF F!save
<1>2. F!TypeOK'
  BY <1>1 DEF ConfigInv, F!TypeOK
<1>3. Sound => Sound'
  BY <1>1 DEF Sound
<1> QED
  BY <1>1, <1>2, <1>3 DEF ConfigInv

LEMMA CallKeeps ==
    ASSUME ConfigInv, NEW t \in Threads, NEW k \in Keys,
           \/ \E v \in F!Value : F!Set(t, k, v)
           \/ F!RemoveKey(t, k) \/ F!RemoveTree(t) \/ F!RemoveTreeNext(t, k)
    PROVE  ConfigInv'
<1>1. ConfigData \in F!Map /\ todo \in [Threads -> SUBSET Tree]
  BY DEF ConfigInv, F!TypeOK
<1>2. CASE \E v \in F!Value : F!Set(t, k, v)
  <2>1. PICK v \in F!Value : F!Set(t, k, v)
    BY <1>2
  <2>2. ConfigData' \in F!Map
    BY <1>1, <2>1 DEF F!Set, F!Map
  <2> QED
    BY <1>1, <2>1, <2>2, EditKeeps DEF F!Set, F!Unlocked
<1>3. CASE F!RemoveKey(t, k)
  <2>1. ConfigData' \in F!Map
    BY <1>1, <1>3 DEF F!RemoveKey, F!Map
  <2> QED
    BY <1>1, <1>3, <2>1, EditKeeps DEF F!RemoveKey, F!Unlocked
<1>4. CASE F!RemoveTree(t)
  <2>1. todo' \in [Threads -> SUBSET Tree]
    BY <1>1, <1>4 DEF F!RemoveTree
  <2> QED
    BY <1>1, <1>4, <2>1, EditKeeps DEF F!RemoveTree, F!Unlocked
<1>5. CASE F!RemoveTreeNext(t, k)
  <2>1. ConfigData' \in F!Map
    BY <1>1, <1>5 DEF F!RemoveTreeNext, F!Map
  <2>2. todo' \in [Threads -> SUBSET Tree]
    BY <1>1, <1>5 DEF F!RemoveTreeNext
  <2> QED
    BY <1>5, <2>1, <2>2, EditKeeps DEF F!RemoveTreeNext, F!Unlocked
<1> QED
  BY <1>2, <1>3, <1>4, <1>5

LEMMA SaveStarts == ASSUME ConfigInv, NEW t \in Threads, F!saveConfig(t) PROVE ConfigInv'
<1>1. /\ phase' = "write" /\ tmp' = <<>> /\ at' = 0 /\ localSetting' = ConfigData /\ out' = <<>>
      /\ UNCHANGED <<ConfigData, conf, todo, saved, written, cuts>>
  BY DEF F!saveConfig
<1>2. F!TypeOK'
  <2>1. at' \in 0..Len(conf')
    BY <1>1 DEF ConfigInv, F!TypeOK
  <2> QED
    BY <1>1, <2>1 DEF ConfigInv, F!TypeOK
<1>3. \A k \in Keys : F!LinesOf(out', k) = {}
  BY <1>1 DEF F!LinesOf
<1>4. Merged(out', ConfigData', localSetting') /\ Ended(out')
  BY <1>1, <1>3 DEF Merged, MergedKey, Ended
<1>5. Sound => Sound'
  BY <1>1, <1>4 DEF Sound
<1> QED
  BY <1>1, <1>2, <1>5 DEF ConfigInv

(* A line is read or printed.                                              *)
LEMMA MergeKeeps ==
    ASSUME ConfigInv, phase = "write", F!Rest, at' \in 0..Len(conf),
           out' \in Seq(F!Line), localSetting' \in F!Map,
           cuts = 0 => /\ Ended(out') /\ Merged(out', ConfigData, localSetting')
                       /\ \A k \in Keys : localSetting'[k] \in {ConfigData[k], None}
    PROVE  ConfigInv'
<1>1. UNCHANGED <<ConfigData, conf, tmp, phase, todo, saved, written, cuts>>
  BY DEF F!Rest
<1>2. F!TypeOK'
  BY <1>1 DEF ConfigInv, F!TypeOK
<1>3. ASSUME cuts = 0 PROVE Sound'
  <2>1. /\ Ended(conf') /\ F!loadConfig(conf') = F!ChopAll(saved')
        /\ written' => \A k \in Keys : \A i, j \in F!LinesOf(conf', k) : i = j
    BY <1>1, <1>3 DEF ConfigInv, Sound
  <2>2. phase' = "write" /\ Ended(out') /\ Merged(out', ConfigData', localSetting')
    BY <1>1, <1>3
  <2>3. \A k \in Keys : localSetting'[k] \in {ConfigData'[k], None}
    BY <1>1, <1>3
  <2> QED
    BY <2>1, <2>2, <2>3 DEF Sound
<1> QED
  BY <1>1, <1>2, <1>3 DEF ConfigInv

(* What a line is, and what the settings that are left are.                *)
LEMMA LineRead ==
    ASSUME ConfigInv, F!Reading
    PROVE  /\ F!line \in F!Line /\ at' \in 0..Len(conf) /\ phase = "write"
           /\ cuts = 0 => F!line.ended
<1>1. conf \in Seq(F!Line) /\ at \in 0..Len(conf) /\ at < Len(conf) /\ at' = at + 1
  BY DEF ConfigInv, F!TypeOK, F!Reading
<1>2. at + 1 \in DOMAIN conf
  BY <1>1
<1> QED
  BY <1>1, <1>2 DEF ConfigInv, Sound, Ended, F!line, F!Reading

(* A comment is printed.                                                   *)
LEMMA CommentKeeps == ASSUME ConfigInv, F!KeepComment PROVE ConfigInv'
<1>1. F!Reading /\ F!line.kind = "comment" /\ out' = F!fprintf(out, F!line) /\ localSetting' = localSetting /\ F!Rest
  BY DEF F!KeepComment, F!Printed
<1>2. out \in Seq(F!Line) /\ localSetting \in F!Map
  BY DEF ConfigInv, F!TypeOK
<1>3. F!line \in F!Line /\ at' \in 0..Len(conf) /\ phase = "write" /\ (cuts = 0 => F!line.ended)
  BY <1>1, LineRead
<1>4. PICK l \in F!Line : l = F!line
  BY <1>3
<1>5. out' \in Seq(F!Line)
  BY <1>1, <1>2, <1>4, FprintfType
<1>6. ASSUME cuts = 0
      PROVE  /\ Ended(out') /\ Merged(out', ConfigData, localSetting')
             /\ \A k \in Keys : localSetting'[k] \in {ConfigData[k], None}
  <2>1. /\ Ended(out) /\ Merged(out, ConfigData, localSetting)
        /\ \A k \in Keys : localSetting[k] \in {ConfigData[k], None}
    BY <1>3, <1>6 DEF ConfigInv, Sound
  <2>2. PICK new : new = F!fprintf(out, l)
    OBVIOUS
  <2>3. /\ Ended(new)
        /\ \A i \in DOMAIN out : i \in DOMAIN new /\ new[i] = out[i]
        /\ \A k \in Keys : F!LinesOf(new, k) = F!LinesOf(out, k)
    BY <1>1, <1>2, <1>3, <1>4, <1>6, <2>1, <2>2, LinesAfter
  <2>4. Merged(new, ConfigData, localSetting)
    BY <2>1, <2>3 DEF Merged, MergedKey
  <2> QED
    BY <1>1, <1>4, <2>1, <2>2, <2>3, <2>4
<1> QED
  BY <1>1, <1>2, <1>3, <1>5, <1>6, MergeKeeps

LEMMA DropKeeps == ASSUME ConfigInv, F!DropLine PROVE ConfigInv'
<1>1. F!Reading /\ UNCHANGED <<localSetting, out>> /\ F!Rest
  BY DEF F!DropLine
<1>2. at' \in 0..Len(conf) /\ phase = "write"
  BY <1>1, LineRead
<1>3. out' \in Seq(F!Line) /\ localSetting' \in F!Map
  BY <1>1 DEF ConfigInv, F!TypeOK
<1>4. cuts = 0 => /\ Ended(out') /\ Merged(out', ConfigData, localSetting')
                  /\ \A k \in Keys : localSetting'[k] \in {ConfigData[k], None}
  BY <1>1, <1>2 DEF ConfigInv, Sound
<1> QED
  BY <1>1, <1>2, <1>3, <1>4, MergeKeeps

(* The line of a setting is printed, taken over or new.                    *)
LEMMA PairKeeps ==
    ASSUME ConfigInv, phase = "write", F!Rest, at' \in 0..Len(conf),
           NEW l \in F!Line, l.kind = "pair", localSetting[l.key] # None, cuts = 0 => l.ended,
           F!chop(l.value) = F!chop(localSetting[l.key]),
           F!Printed(l), F!Erased(l.key)
    PROVE  ConfigInv'
<1>1. out \in Seq(F!Line) /\ localSetting \in F!Map /\ ConfigData \in F!Map
  BY DEF ConfigInv, F!TypeOK
<1>2. out' = F!fprintf(out, l) /\ localSetting' = [localSetting EXCEPT ![l.key] = None] /\ l.key \in Keys
  BY LineTypes DEF F!Printed, F!Erased
<1>3. out' \in Seq(F!Line)
  BY <1>1, <1>2, FprintfType
<1>4. localSetting' \in F!Map
  BY <1>1, <1>2 DEF F!Map
<1>5. ASSUME cuts = 0
      PROVE  /\ Ended(out') /\ Merged(out', ConfigData, localSetting')
             /\ \A k \in Keys : localSetting'[k] \in {ConfigData[k], None}
  <2>1. /\ Ended(out) /\ Merged(out, ConfigData, localSetting) /\ l.ended
        /\ \A k \in Keys : localSetting[k] \in {ConfigData[k], None}
    BY <1>5 DEF ConfigInv, Sound
  <2>2. localSetting[l.key] = ConfigData[l.key]
    BY <1>2, <2>1
  <2>3. Merged(F!fprintf(out, l), ConfigData, [localSetting EXCEPT ![l.key] = None])
    BY <1>1, <2>1, <2>2, PairMerged
  <2>4. Ended(F!fprintf(out, l))
    BY <1>1, <2>1, LinesAfter
  <2>5. \A k \in Keys : localSetting'[k] \in {ConfigData[k], None}
    BY <1>1, <1>2, <2>1 DEF F!Map
  <2> QED
    BY <1>2, <2>3, <2>4, <2>5
<1> QED
  BY <1>3, <1>4, <1>5, MergeKeeps

LEMMA WriteKeeps == ASSUME ConfigInv, F!WriteLine PROVE ConfigInv'
<1> DEFINE k == F!line.key
           old == F!chop(F!line.value) = localSetting[k]
<1>1. /\ F!Reading /\ F!line.kind = "pair" /\ localSetting[k] # None
      /\ F!Printed(IF old THEN F!line ELSE F!New(k)) /\ F!Erased(k) /\ F!Rest
  BY DEF F!WriteLine
<1>2. F!line \in F!Line /\ at' \in 0..Len(conf) /\ phase = "write" /\ (cuts = 0 => F!line.ended)
  BY <1>1, LineRead
<1>3. k \in Keys /\ F!line.value \in F!Value
  BY <1>1, <1>2, LineTypes
<1>4. localSetting[k] \in F!Value
  BY <1>1, <1>3 DEF ConfigInv, F!TypeOK, F!Map
<1>5. CASE old
  <2>1. F!chop(F!line.value) = F!chop(localSetting[k])
    BY <1>3, <1>5, Chopped
  <2>2. F!Printed(F!line)
    BY <1>1, <1>5
  <2> QED
    BY <1>1, <1>2, <2>1, <2>2, PairKeeps
<1>6. CASE ~old
  <2>1. /\ F!New(k) \in F!Line /\ F!New(k).ended /\ F!New(k).kind = "pair"
        /\ F!New(k).key = k /\ F!New(k).value = localSetting[k]
    BY <1>3, <1>4, PairIsLine DEF F!New
  <2>2. F!Printed(F!New(k))
    BY <1>1, <1>6
  <2> HIDE DEF k
  <2> QED
    BY <1>1, <1>2, <2>1, <2>2, PairKeeps
<1> QED
  BY <1>5, <1>6

LEMMA NewKeeps == ASSUME ConfigInv, NEW k \in Keys, F!WriteNew(k) PROVE ConfigInv'
<1>1. /\ phase = "write" /\ localSetting[k] # None /\ at' = at
      /\ F!Printed(F!New(k)) /\ F!Erased(k) /\ F!Rest
  BY DEF F!WriteNew
<1>2. localSetting[k] \in F!Value /\ at' \in 0..Len(conf)
  BY <1>1 DEF ConfigInv, F!TypeOK, F!Map
<1>3. /\ F!New(k) \in F!Line /\ F!New(k).ended /\ F!New(k).kind = "pair"
      /\ F!New(k).key = k /\ F!New(k).value = localSetting[k]
  BY <1>2, PairIsLine DEF F!New
<1> QED
  BY <1>1, <1>2, <1>3, PairKeeps

LEMMA WrittenKeeps == ASSUME ConfigInv, F!Written PROVE ConfigInv'
<1>1. /\ phase = "write" /\ localSetting = F!Empty /\ phase' = "copy" /\ tmp' = out
      /\ UNCHANGED <<ConfigData, conf, at, localSetting, out, todo, saved, written, cuts>>
  BY DEF F!Written, F!save
<1>2. F!TypeOK'
  BY <1>1 DEF ConfigInv, F!TypeOK
<1>3. Sound => Sound'
  BY <1>1 DEF Sound, Ended, Merged, MergedKey, F!Empty, F!loadConfig, F!ChopAll, F!LinesOf, F!LastOf
<1> QED
  BY <1>1, <1>2, <1>3 DEF ConfigInv

LEMMA CopiedKeeps == ASSUME ConfigInv, F!Copied PROVE ConfigInv'
<1>1. /\ phase = "copy" /\ phase' = "none" /\ conf' = tmp
      /\ at' = 0 /\ localSetting' = F!Empty /\ out' = <<>>
      /\ saved' = ConfigData /\ written' = TRUE /\ UNCHANGED <<ConfigData, tmp, todo, cuts>>
  BY DEF F!Copied, F!SaveEnds
<1>2. F!TypeOK'
  <2>1. F!Empty \in F!Map
    BY DEF F!Empty, F!Map
  <2>2. tmp \in Seq(F!Line) /\ at' \in 0..Len(conf')
    BY <1>1 DEF ConfigInv, F!TypeOK
  <2> QED
    BY <1>1, <2>1, <2>2 DEF ConfigInv, F!TypeOK
<1>3. ASSUME cuts = 0 PROVE Sound'
  <2>1. Merged(tmp, ConfigData, F!Empty) /\ Ended(tmp) /\ tmp \in Seq(F!Line) /\ ConfigData \in F!Map
    BY <1>1, <1>3 DEF ConfigInv, Sound, F!TypeOK
  <2>2. /\ F!loadConfig(tmp) = F!ChopAll(ConfigData)
        /\ \A k \in Keys : \A i, j \in F!LinesOf(tmp, k) : i = j
    BY <2>1, MergedIsLoaded
  <2> QED
    BY <1>1, <2>1, <2>2 DEF Sound
<1> QED
  BY <1>1, <1>2, <1>3 DEF ConfigInv

LEMMA CutKeeps == ASSUME ConfigInv, F!PowerCut PROVE ConfigInv'
<1>1. tmp' \in Seq(F!Line) /\ conf' \in Seq(F!Line)
  BY TornsType DEF ConfigInv, F!TypeOK, F!PowerCut
<1>2. ConfigData' \in F!Map /\ saved' \in F!Map
  BY <1>1, LoadTypes DEF F!PowerCut
<1>3. F!Empty \in F!Map
  BY DEF F!Empty, F!Map
<1>4. at' \in 0..Len(conf') /\ todo' \in [Threads -> SUBSET Tree] /\ localSetting' = F!Empty /\ out' = <<>>
  BY <1>1 DEF F!PowerCut, F!SaveEnds
<1>5. cuts' \in 0..MaxCuts /\ cuts' # 0
  BY FilesAssumption DEF F!PowerCut, ConfigInv, F!TypeOK
<1>6. F!TypeOK'
  BY <1>1, <1>2, <1>3, <1>4, <1>5 DEF F!PowerCut, ConfigInv, F!TypeOK
<1> QED
  BY <1>5, <1>6 DEF ConfigInv

LEMMA ConfigInvNext == ConfigInv /\ (F!Next \/ UNCHANGED fvars) => ConfigInv'
<1> SUFFICES ASSUME ConfigInv, F!Next \/ UNCHANGED fvars PROVE ConfigInv'
  OBVIOUS
<1>1. CASE UNCHANGED fvars
  <2>1. F!TypeOK'
    BY <1>1 DEF fvars, ConfigInv, F!TypeOK
  <2>2. Sound => Sound'
    BY <1>1 DEF fvars, Sound
  <2> QED
    BY <1>1, <2>1, <2>2 DEF fvars, ConfigInv
<1>2. ASSUME NEW t \in Threads, F!RemoveTree(t) PROVE ConfigInv'
  <2>1. todo' \in [Threads -> SUBSET Tree] /\ ConfigData' \in F!Map
    BY <1>2 DEF F!RemoveTree, ConfigInv, F!TypeOK
  <2> QED
    BY <1>2, <2>1, EditKeeps DEF F!RemoveTree, F!Unlocked
<1> QED
  BY <1>1, <1>2, CallKeeps, SaveStarts, CommentKeeps, DropKeeps, WriteKeeps, NewKeeps, WrittenKeeps, CopiedKeeps, CutKeeps
  DEF F!Next

(* For any settings, and any file edited by hand whose last line is ended, *)
(* what was saved is what the next start reads, with one line for each     *)
(* setting, until the power fails (Config.cpp:88-164).                     *)
THEOREM SavesAreLoaded == Spec => []SavedIsLoaded
<1> DEFINE Inv == part = "config" => ConfigInv
<1>1. Init => Inv
  BY ConfigInvInit DEF Init
<1>2. Inv /\ [Next]_vars => Inv'
  BY ConfigInvNext DEF Next, vars
<1>3. Inv => SavedIsLoaded
  BY DEF ConfigInv, Sound, SavedIsLoaded, F!SavedIsLoaded, F!OneLineEach
<1> QED
  BY <1>1, <1>2, <1>3, PTL DEF Spec

(* The first power cut leaves the old settings whole in config.conf or the *)
(* new ones in config.conf.tmp, whatever the moment (Config.cpp:78,        *)
(* 164-165).                                                               *)
THEOREM FirstCutLeavesOne == Spec => CutLeavesOne
<1> DEFINE Inv == part = "config" => ConfigInv
<1>1. Init => Inv
  BY ConfigInvInit DEF Init
<1>2. Inv /\ [Next]_vars => Inv'
  BY ConfigInvNext DEF Next, vars
<1>3. ASSUME Inv, [Next]_vars
      PROVE  [cuts = 0 /\ cuts' # cuts => \/ F!loadConfig(conf') = F!ChopAll(saved)
                                         \/ F!loadConfig(tmp') = F!ChopAll(ConfigData)]_(F!vars)
  <2> SUFFICES ASSUME cuts = 0, cuts' # cuts
               PROVE  \/ F!loadConfig(conf') = F!ChopAll(saved)
                      \/ F!loadConfig(tmp') = F!ChopAll(ConfigData)
    OBVIOUS
  <2>1. part = "config" /\ F!Next
    BY <1>3 DEF Next, vars, fvars
  <2>2. ConfigInv /\ Sound
    BY <1>3, <2>1 DEF ConfigInv
  <2>3. F!PowerCut
    BY <2>1 DEF F!Next, F!Set, F!RemoveKey, F!RemoveTree, F!RemoveTreeNext, F!saveConfig, F!KeepComment, F!DropLine,
                F!WriteLine, F!WriteNew, F!Rest, F!Written, F!Copied
  <2>4. CASE phase = "copy"
    BY <2>2, <2>3, <2>4, MergedIsLoaded DEF ConfigInv, F!TypeOK, Sound, F!PowerCut
  <2>5. CASE phase # "copy"
    BY <2>2, <2>3, <2>5 DEF Sound, F!PowerCut
  <2> QED
    BY <2>4, <2>5
<1> QED
  BY <1>1, <1>2, <1>3, PTL DEF Spec, CutLeavesOne, F!CutLeavesOne

-----------------------------------------------------------------------------
(* A recursive definition whose every step looks only at smaller arguments *)
(* has a solution: step applied to a function that is right for the        *)
(* arguments below n is right for those below n + 1.                       *)
Descends(X, V, Fs, step, bound, rank) ==
    /\ Fs \subseteq [X -> V] /\ Fs # {} /\ step \in [Fs -> Fs]
    /\ bound \in Nat /\ rank \in [X -> 0..bound]
    /\ \A g, h \in Fs : \A z \in X :
           (\A y \in X : rank[y] < rank[z] => g[y] = h[y]) => step[g][z] = step[h][z]

LEMMA FixedPoint ==
    ASSUME NEW X, NEW V, NEW Fs, NEW step, NEW bound, NEW rank,
           Descends(X, V, Fs, step, bound, rank)
    PROVE  \E f \in Fs : f = step[f]
<1> USE DEF Descends
<1> DEFINE Right(g, n) == \A y \in X : rank[y] < n => step[g][y] = g[y]
           Wrong == {n \in Nat : ~ \E g \in Fs : Right(g, n)}
<1>1. \A n \in Nat : \A g \in Fs : Right(g, n) => Right(step[g], n + 1)
  <2> SUFFICES ASSUME NEW n \in Nat, NEW g \in Fs, Right(g, n), NEW y \in X, rank[y] < n + 1
               PROVE  step[step[g]][y] = step[g][y]
    OBVIOUS
  <2>1. step[g] \in Fs
    OBVIOUS
  <2>2. \A z \in X : rank[z] < rank[y] => step[g][z] = g[z]
    <3> SUFFICES ASSUME NEW z \in X, rank[z] < rank[y] PROVE step[g][z] = g[z]
      OBVIOUS
    <3>1. rank[z] \in Nat /\ rank[y] \in Nat
      OBVIOUS
    <3> QED
      BY <3>1
  <2> QED
    BY <2>1, <2>2
<1>2. Wrong = {}
  <2> SUFFICES ASSUME Wrong # {} PROVE FALSE
    OBVIOUS
  <2>1. PICK n \in Wrong : \A j \in Wrong : n <= j
    BY FirstNumber
  <2>2. n # 0
    <3>1. PICK g \in Fs : TRUE
      OBVIOUS
    <3>2. Right(g, 0)
      OBVIOUS
    <3> QED
      BY <2>1, <3>2
  <2>3. n - 1 \in Nat /\ n - 1 \notin Wrong
    BY <2>1, <2>2
  <2>4. PICK g \in Fs : Right(g, n - 1)
    BY <2>3
  <2>5. Right(step[g], n - 1 + 1)
    BY <1>1, <2>3, <2>4
  <2>6. Right(step[g], n) /\ step[g] \in Fs
    BY <2>1, <2>5
  <2> QED
    BY <2>1, <2>6
<1>3. PICK f \in Fs : Right(f, bound + 1)
  <2>1. bound + 1 \in Nat
    OBVIOUS
  <2>2. bound + 1 \notin Wrong
    BY <1>2
  <2> QED
    BY <2>1, <2>2
<1>4. \A y \in X : step[f][y] = f[y]
  BY <1>3
<1>5. f \in [X -> V] /\ step[f] \in [X -> V]
  OBVIOUS
<1>6. f = step[f]
  BY <1>4, <1>5
<1> QED
  BY <1>6

-----------------------------------------------------------------------------
(* The check of macros.                                                    *)

LEMMA Limits == /\ MaxEntries \in Nat /\ MaxCallCount \in Nat /\ MaxEntries < MaxCallCount /\ 2 <= MaxCallCount
                /\ M!TooMany = MaxCallCount + 1 /\ M!TooMany \in Nat
                /\ 0..MaxCallCount \subseteq 0..M!TooMany
  BY MacroAssumption DEF M!TooMany

LEMMA EntriesAre ==
    ASSUME NEW es
    PROVE  es \in M!Entries <=> es \in Seq(Actions \cup {None}) /\ Len(es) <= MaxEntries
<1>1. ASSUME es \in M!Entries PROVE es \in Seq(Actions \cup {None}) /\ Len(es) <= MaxEntries
  <2>1. PICK m \in 0..MaxEntries : es \in [1..m -> Actions \cup {None}]
    BY <1>1 DEF M!Entries, M!SeqOf
  <2>2. es \in Seq(Actions \cup {None}) /\ Len(es) = m
    BY <2>1, Limits
  <2> QED
    BY <2>1, <2>2, Limits
<1>2. ASSUME es \in Seq(Actions \cup {None}), Len(es) <= MaxEntries PROVE es \in M!Entries
  <2>1. Len(es) \in 0..MaxEntries /\ es \in [1..Len(es) -> Actions \cup {None}]
    BY <1>2, Limits
  <2> QED
    BY <2>1 DEF M!Entries, M!SeqOf
<1> QED
  BY <1>1, <1>2

LEMMA EntriesParts ==
    ASSUME NEW es \in M!Entries
    PROVE  /\ Len(es) \in Nat /\ Len(es) <= MaxEntries /\ es \in Seq(Actions \cup {None})
           /\ es # <<>> => /\ Head(es) \in Actions \cup {None} /\ Head(es) = es[1]
                           /\ Tail(es) \in M!Entries /\ Len(Tail(es)) = Len(es) - 1 /\ Len(es) >= 1
                           /\ \A i \in 1..Len(Tail(es)) : Tail(es)[i] = es[i + 1]
<1>1. es \in Seq(Actions \cup {None}) /\ Len(es) <= MaxEntries
  BY EntriesAre
<1>2. es # <<>> => /\ Tail(es) \in Seq(Actions \cup {None}) /\ Len(Tail(es)) = Len(es) - 1 /\ Len(es) >= 1
                   /\ Head(es) \in Actions \cup {None} /\ Head(es) = es[1]
                   /\ \A i \in 1..Len(Tail(es)) : Tail(es)[i] = es[i + 1]
  BY <1>1
<1>3. es # <<>> => Len(Tail(es)) <= MaxEntries
  BY <1>1, <1>2, Limits
<1>4. es # <<>> => Tail(es) \in M!Entries
  BY <1>2, <1>3, EntriesAre
<1> QED
  BY <1>1, <1>2, <1>4

CheckDomain == (0..M!TooMany) \X M!Entries

(* What the loop over the entries does, by what it does for what is left.  *)
CheckStep(acts, g, y) ==
    IF y[1] = M!TooMany \/ y[2] = <<>> THEN y[1]
    ELSE g[<<IF Head(y[2]) = None THEN y[1] ELSE M!CheckAction(acts, g, Head(y[2]), y[1] + 1), Tail(y[2])>>]

(* Counts that do not go down.                                             *)
Growing == {g \in [CheckDomain -> 0..M!TooMany] : \A y \in CheckDomain : y[1] <= g[y]}

CheckRank(y) == (M!TooMany - y[1]) * (MaxEntries + 1) + Len(y[2])

LEMMA DomainParts ==
    ASSUME NEW y \in CheckDomain
    PROVE  y = <<y[1], y[2]>> /\ y[1] \in 0..M!TooMany /\ y[2] \in M!Entries
  BY DEF CheckDomain

LEMMA Product ==
    ASSUME NEW a \in Nat, NEW b \in Nat, NEW k \in Nat, a < b
    PROVE  a * k + k <= b * k
<1>1. PICK d \in Nat : b = a + 1 + d
  <2>1. b - a - 1 \in Nat /\ b = a + 1 + (b - a - 1)
    OBVIOUS
  <2> QED
    BY <2>1
<1>2. b * k = a * k + k + d * k
  BY <1>1
<1>3. d * k \in Nat /\ a * k \in Nat
  OBVIOUS
<1> QED
  BY <1>2, <1>3

LEMMA RankIsNumber ==
    ASSUME NEW y \in CheckDomain
    PROVE  CheckRank(y) \in 0..((M!TooMany + 1) * (MaxEntries + 1))
<1>1. PICK t \in Nat, k \in Nat : t = M!TooMany /\ k = MaxEntries + 1
  BY Limits
<1>2. PICK m \in 0..t, n \in Nat : m = y[1] /\ n = Len(y[2]) /\ n < k
  BY <1>1, DomainParts, EntriesParts, Limits
<1>3. t - m \in Nat /\ t - m < t + 1
  BY <1>1, <1>2
<1>4. PICK q \in Nat : q = t - m
  BY <1>3
<1>5. q * k + k <= (t + 1) * k /\ q * k \in Nat
  BY <1>1, <1>3, <1>4, Product
<1>6. q * k + n \in 0..((t + 1) * k)
  <2>1. PICK u \in Nat, w \in Nat : u = (t + 1) * k /\ w = q * k
    BY <1>1, <1>5
  <2>2. w + k <= u
    BY <1>5, <2>1
  <2>3. w + n \in 0..u
    BY <1>2, <2>2
  <2> QED
    BY <2>1, <2>3
<1> QED
  BY <1>1, <1>2, <1>4, <1>6 DEF CheckRank

(* More is counted, or fewer entries are left.                             *)
LEMMA RankFalls ==
    ASSUME NEW m \in 0..M!TooMany, NEW es \in M!Entries, NEW c \in 0..M!TooMany, NEW fs \in M!Entries,
           m < c \/ (m = c /\ Len(fs) < Len(es))
    PROVE  CheckRank(<<c, fs>>) < CheckRank(<<m, es>>)
<1>1. PICK t \in Nat, k \in Nat : t = M!TooMany /\ k = MaxEntries + 1
  BY Limits
<1>2. Len(es) \in Nat /\ Len(fs) \in Nat /\ Len(fs) < k
  BY <1>1, EntriesParts, Limits
<1>3. CheckRank(<<c, fs>>) = (t - c) * k + Len(fs) /\ CheckRank(<<m, es>>) = (t - m) * k + Len(es)
  BY <1>1 DEF CheckRank
<1>4. PICK p \in Nat, q \in Nat : p = t - c /\ q = t - m
  BY <1>1
<1>5. PICK u \in Nat, w \in Nat : u = p * k /\ w = q * k
  BY <1>1
<1>6. CASE m < c
  <2>1. p < q
    BY <1>1, <1>4, <1>6
  <2>2. u + k <= w
    BY <1>1, <1>5, <2>1, Product
  <2>3. u + Len(fs) < w + Len(es)
    BY <1>1, <1>2, <2>2
  <2> QED
    BY <1>3, <1>4, <1>5, <2>3
<1>7. CASE m = c /\ Len(fs) < Len(es)
  BY <1>2, <1>3, <1>4, <1>5, <1>7
<1> QED
  BY <1>6, <1>7

SettingsType(acts) == DOMAIN acts = Actions /\ \A a \in Actions : acts[a] \in M!Setting

LEMMA MacroEntries ==
    ASSUME NEW acts, SettingsType(acts), NEW a \in Actions
    PROVE  /\ acts[a].flag \in {"macro", "command", "absent"} /\ acts[a].entries \in M!Entries
           /\ acts[a].flag = "absent" => acts[a] = M!Absent
<1>1. <<>> \in M!Entries
  <2>1. <<>> \in Seq(Actions \cup {None}) /\ Len(<<>>) <= MaxEntries
    BY Limits
  <2> QED
    BY <2>1, EntriesAre
<1>2. acts[a] \in M!Setting
  BY DEF SettingsType
<1> QED
  BY <1>1, <1>2 DEF M!Setting, M!Absent

(* What is counted for an action.                                          *)
LEMMA ActionBounds ==
    ASSUME NEW acts, SettingsType(acts), NEW g,
           \A y \in CheckDomain : g[y] \in 0..M!TooMany /\ y[1] <= g[y],
           NEW e \in Actions \cup {None}, NEW m \in 0..M!TooMany
    PROVE  /\ M!CheckAction(acts, g, e, m) \in 0..M!TooMany /\ m <= M!CheckAction(acts, g, e, m)
           /\ m = M!TooMany \/ e = None => M!CheckAction(acts, g, e, m) = m
           /\ m # M!TooMany /\ e # None /\ acts[e].flag # "absent" => m + 1 <= M!CheckAction(acts, g, e, m)
           /\ m # M!TooMany /\ e # None /\ acts[e].flag = "macro" /\ M!CheckAction(acts, g, e, m) # M!TooMany =>
                 /\ m + 1 # M!TooMany /\ m + 1 \in 0..M!TooMany
                 /\ M!CheckAction(acts, g, e, m) = g[<<m + 1, acts[e].entries>>]
<1>1. PICK t \in Nat : t = M!TooMany
  BY Limits
<1>2. CASE m = M!TooMany \/ e = None
  BY <1>1, <1>2 DEF M!CheckAction
<1>3. CASE m # M!TooMany /\ e # None /\ acts[e].flag = "absent"
  BY <1>1, <1>3 DEF M!CheckAction
<1>4. CASE m # M!TooMany /\ e # None /\ acts[e].flag # "absent" /\ (acts[e].flag # "macro" \/ m + 1 = M!TooMany)
  <2>1. M!CheckAction(acts, g, e, m) = m + 1
    BY <1>4 DEF M!CheckAction
  <2> QED
    BY <1>1, <1>4, <2>1
<1>5. CASE m # M!TooMany /\ e # None /\ acts[e].flag = "macro" /\ m + 1 # M!TooMany
  <2>1. M!CheckAction(acts, g, e, m) = g[<<m + 1, acts[e].entries>>]
    BY <1>5 DEF M!CheckAction
  <2>2. <<m + 1, acts[e].entries>> \in CheckDomain
    BY <1>1, <1>5, MacroEntries DEF CheckDomain
  <2>3. /\ g[<<m + 1, acts[e].entries>>] \in 0..M!TooMany
        /\ m + 1 <= g[<<m + 1, acts[e].entries>>]
    BY <2>2
  <2> QED
    BY <1>1, <1>5, <2>1, <2>3
<1> QED
  BY <1>2, <1>3, <1>4, <1>5

LEMMA GrowingIs == ASSUME NEW g \in Growing
                   PROVE  g \in [CheckDomain -> 0..M!TooMany] /\ \A y \in CheckDomain : g[y] \in 0..M!TooMany /\ y[1] <= g[y]
  BY DEF Growing

(* Where the loop goes on: at a pair that ranks lower.                     *)
Onward(acts, g, y) ==
    <<IF Head(y[2]) = None THEN y[1] ELSE M!CheckAction(acts, g, Head(y[2]), y[1] + 1), Tail(y[2])>>

LEMMA OnwardFalls ==
    ASSUME NEW acts, SettingsType(acts), NEW g,
           NEW y \in CheckDomain, y[1] # M!TooMany, y[2] # <<>>,
           Head(y[2]) # None => /\ M!CheckAction(acts, g, Head(y[2]), y[1] + 1) \in 0..M!TooMany
                                /\ y[1] + 1 <= M!CheckAction(acts, g, Head(y[2]), y[1] + 1)
    PROVE  /\ Onward(acts, g, y) \in CheckDomain /\ CheckRank(Onward(acts, g, y)) < CheckRank(y)
           /\ y[1] <= Onward(acts, g, y)[1]
<1>1. y = <<y[1], y[2]>> /\ y[1] \in 0..M!TooMany /\ y[2] \in M!Entries
  BY DomainParts
<1>2. Tail(y[2]) \in M!Entries /\ Len(Tail(y[2])) < Len(y[2])
  BY <1>1, EntriesParts
<1>3. PICK c \in 0..M!TooMany : Onward(acts, g, y) = <<c, Tail(y[2])>> /\ y[1] <= c
  <2>1. CASE Head(y[2]) = None
    <3>1. Onward(acts, g, y) = <<y[1], Tail(y[2])>>
      BY <2>1 DEF Onward
    <3> QED
      BY <1>1, <3>1
  <2>2. CASE Head(y[2]) # None
    <3>1. PICK c \in 0..M!TooMany : c = M!CheckAction(acts, g, Head(y[2]), y[1] + 1)
      BY <2>2
    <3>2. y[1] <= c
      BY <1>1, <2>2, <3>1, Limits
    <3> QED
      BY <2>2, <3>1, <3>2 DEF Onward
  <2> QED
    BY <2>1, <2>2
<1>4. <<c, Tail(y[2])>> \in CheckDomain
  BY <1>2 DEF CheckDomain
<1>5. y[1] < c \/ (y[1] = c /\ Len(Tail(y[2])) < Len(y[2]))
  BY <1>1, <1>2, <1>3
<1>6. CheckRank(<<c, Tail(y[2])>>) < CheckRank(<<y[1], y[2]>>)
  BY <1>1, <1>2, <1>5, RankFalls
<1>7. CheckRank(<<c, Tail(y[2])>>) < CheckRank(y)
  BY <1>1, <1>6
<1>8. Onward(acts, g, y)[1] = c
  BY <1>3
<1> QED
  BY <1>3, <1>4, <1>7, <1>8

LEMMA StepGrows ==
    ASSUME NEW acts, SettingsType(acts), NEW g \in Growing, NEW y \in CheckDomain
    PROVE  CheckStep(acts, g, y) \in 0..M!TooMany /\ y[1] <= CheckStep(acts, g, y)
<1>1. y[1] \in 0..M!TooMany /\ y[2] \in M!Entries
  BY DomainParts
<1>2. CASE y[1] = M!TooMany \/ y[2] = <<>>
  BY <1>1, <1>2, Limits DEF CheckStep
<1>3. CASE y[1] # M!TooMany /\ y[2] # <<>>
  <2>1. Head(y[2]) \in Actions \cup {None} /\ y[1] + 1 \in 0..M!TooMany
    BY <1>1, <1>3, EntriesParts, Limits
  <2>2. Onward(acts, g, y) \in CheckDomain /\ y[1] <= Onward(acts, g, y)[1]
    BY <1>3, <2>1, ActionBounds, GrowingIs, OnwardFalls
  <2>3. CheckStep(acts, g, y) = g[Onward(acts, g, y)]
    BY <1>3 DEF CheckStep, Onward
  <2>4. /\ g[Onward(acts, g, y)] \in 0..M!TooMany /\ Onward(acts, g, y)[1] <= g[Onward(acts, g, y)]
        /\ Onward(acts, g, y)[1] \in 0..M!TooMany
    BY <2>2, GrowingIs, DomainParts
  <2> QED
    BY <1>1, <2>2, <2>3, <2>4, Limits
<1> QED
  BY <1>2, <1>3

(* The value for an argument depends on those for arguments of lower rank. *)
LEMMA StepLooksDown ==
    ASSUME NEW acts, SettingsType(acts), NEW g \in Growing, NEW h, NEW y \in CheckDomain,
           \A z \in CheckDomain : CheckRank(z) < CheckRank(y) => g[z] = h[z]
    PROVE  CheckStep(acts, g, y) = CheckStep(acts, h, y)
<1>1. y = <<y[1], y[2]>> /\ y[1] \in 0..M!TooMany /\ y[2] \in M!Entries
  BY DomainParts
<1>2. CASE y[1] = M!TooMany \/ y[2] = <<>>
  BY <1>2 DEF CheckStep
<1>3. CASE y[1] # M!TooMany /\ y[2] # <<>>
  <2>1. PICK e \in Actions \cup {None} : e = Head(y[2])
    BY <1>1, <1>3, EntriesParts
  <2>2. PICK m \in 0..M!TooMany : m = y[1] + 1 /\ y[1] < m
    BY <1>1, <1>3, Limits
  <2>3. ASSUME e # None PROVE M!CheckAction(acts, g, e, m) = M!CheckAction(acts, h, e, m)
    <3>1. CASE m = M!TooMany \/ acts[e].flag # "macro" \/ m + 1 = M!TooMany
      BY <2>3, <3>1 DEF M!CheckAction
    <3>2. CASE m # M!TooMany /\ acts[e].flag = "macro" /\ m + 1 # M!TooMany
      <4>1. m + 1 \in 0..M!TooMany /\ y[1] < m + 1 /\ acts[e].entries \in M!Entries
        BY <1>1, <2>2, <2>3, <3>2, MacroEntries, Limits
      <4>2. <<m + 1, acts[e].entries>> \in CheckDomain /\ CheckRank(<<m + 1, acts[e].entries>>) < CheckRank(y)
        BY <1>1, <4>1, RankFalls DEF CheckDomain
      <4>3. g[<<m + 1, acts[e].entries>>] = h[<<m + 1, acts[e].entries>>]
        BY <4>2
      <4> QED
        BY <2>3, <3>2, <4>3 DEF M!CheckAction
    <3> QED
      BY <3>1, <3>2
  <2>4. Onward(acts, g, y) = Onward(acts, h, y)
    BY <2>1, <2>2, <2>3 DEF Onward
  <2>5. e # None => /\ M!CheckAction(acts, g, e, m) \in 0..M!TooMany
                    /\ m <= M!CheckAction(acts, g, e, m)
    BY <2>1, <2>2, ActionBounds, GrowingIs
  <2>6. Onward(acts, g, y) \in CheckDomain /\ CheckRank(Onward(acts, g, y)) < CheckRank(y)
    BY <1>3, <2>1, <2>2, <2>5, OnwardFalls
  <2>7. CheckStep(acts, g, y) = g[Onward(acts, g, y)] /\ CheckStep(acts, h, y) = h[Onward(acts, h, y)]
    BY <1>3 DEF CheckStep, Onward
  <2> QED
    BY <2>4, <2>6, <2>7
<1> QED
  BY <1>2, <1>3

LEMMA CountsEquation ==
    ASSUME NEW acts, SettingsType(acts)
    PROVE  M!Counts(acts) = [y \in CheckDomain |-> CheckStep(acts, M!Counts(acts), y)]
<1> DEFINE step == [g \in Growing |-> [y \in CheckDomain |-> CheckStep(acts, g, y)]]
           rank == [y \in CheckDomain |-> CheckRank(y)]
           bound == (M!TooMany + 1) * (MaxEntries + 1)
<1>1. Growing \subseteq [CheckDomain -> 0..M!TooMany] /\ Growing # {}
  <2>1. [y \in CheckDomain |-> y[1]] \in Growing
    <3>1. \A y \in CheckDomain : y[1] \in 0..M!TooMany /\ y[1] <= y[1]
      BY DomainParts, Limits
    <3> QED
      BY <3>1 DEF Growing
  <2> QED
    BY <2>1 DEF Growing
<1>2. step \in [Growing -> Growing]
  <2>1. \A g \in Growing : [y \in CheckDomain |-> CheckStep(acts, g, y)] \in Growing
    BY StepGrows DEF Growing
  <2> QED
    BY <2>1
<1>3. bound \in Nat /\ rank \in [CheckDomain -> 0..bound]
  <2>1. bound \in Nat
    BY Limits
  <2> QED
    BY <2>1, RankIsNumber
<1>4. \A g, h \in Growing : \A x_ \in CheckDomain :
          (\A y \in CheckDomain : rank[y] < rank[x_] => g[y] = h[y]) => step[g][x_] = step[h][x_]
  <2> SUFFICES ASSUME NEW g \in Growing, NEW h \in Growing, NEW x_ \in CheckDomain,
                      \A y \in CheckDomain : rank[y] < rank[x_] => g[y] = h[y]
               PROVE  step[g][x_] = step[h][x_]
    OBVIOUS
  <2>1. \A y \in CheckDomain : CheckRank(y) < CheckRank(x_) => g[y] = h[y]
    OBVIOUS
  <2>2. CheckStep(acts, g, x_) = CheckStep(acts, h, x_)
    BY <2>1, StepLooksDown
  <2> QED
    BY <2>2
<1>5. \E f \in Growing : f = step[f]
  <2> HIDE DEF step, rank, bound
  <2>1. Descends(CheckDomain, 0..M!TooMany, Growing, step, bound, rank)
    BY <1>1, <1>2, <1>3, <1>4 DEF Descends
  <2> QED
    BY <2>1, FixedPoint
<1>6. \E f : f = [y \in CheckDomain |-> CheckStep(acts, f, y)]
  BY <1>5
<1>7. M!Counts(acts) = CHOOSE f : f = [y \in CheckDomain |-> CheckStep(acts, f, y)]
  BY DEF M!Counts, CheckDomain, CheckStep
<1> QED
  BY <1>6, <1>7


LEMMA CountsBounds ==
    ASSUME NEW acts, SettingsType(acts)
    PROVE  \A y \in CheckDomain : /\ M!Counts(acts)[y] = CheckStep(acts, M!Counts(acts), y)
                                  /\ M!Counts(acts)[y] \in 0..M!TooMany /\ y[1] <= M!Counts(acts)[y]
<1>1. PICK h : h = M!Counts(acts)
  OBVIOUS
<1>2. \A y \in CheckDomain : h[y] = CheckStep(acts, h, y)
  <2>1. h = [y \in CheckDomain |-> CheckStep(acts, h, y)]
    BY <1>1, CountsEquation
  <2> QED
    BY <2>1
<1> DEFINE Good(y) == h[y] \in 0..M!TooMany /\ y[1] <= h[y]
           Ranks == {n \in Nat : \E y \in CheckDomain : n = CheckRank(y) /\ ~ Good(y)}
<1>3. \A y \in CheckDomain : CheckRank(y) \in Nat
  BY RankIsNumber
<1>4. Ranks = {}
  <2> SUFFICES ASSUME Ranks # {} PROVE FALSE
    OBVIOUS
  <2>1. PICK n \in Ranks : \A j \in Ranks : n <= j
    BY FirstNumber
  <2>2. PICK y \in CheckDomain : n = CheckRank(y) /\ ~ Good(y)
    BY <2>1
  <2>3. \A z \in CheckDomain : CheckRank(z) < CheckRank(y) => Good(z)
    BY <1>3, <2>1, <2>2
  <2> DEFINE g == [z \in CheckDomain |-> IF CheckRank(z) < CheckRank(y) THEN h[z] ELSE M!TooMany]
  <2>4. g \in Growing
    <3>1. \A z \in CheckDomain : g[z] \in 0..M!TooMany /\ z[1] <= g[z]
      BY <2>3, DomainParts, Limits
    <3> QED
      BY <3>1 DEF Growing
  <2>5. \A z \in CheckDomain : CheckRank(z) < CheckRank(y) => g[z] = h[z]
    OBVIOUS
  <2>6. CheckStep(acts, g, y) = CheckStep(acts, h, y)
    <3> HIDE DEF g
    <3> QED
      BY <2>4, <2>5, StepLooksDown
  <2>7. CheckStep(acts, g, y) \in 0..M!TooMany /\ y[1] <= CheckStep(acts, g, y)
    BY <2>4, StepGrows
  <2> QED
    BY <1>2, <2>2, <2>6, <2>7
<1>5. \A y \in CheckDomain : Good(y)
  BY <1>3, <1>4
<1> QED
  BY <1>1, <1>2, <1>5

(* What the check answers, by its parts.                                   *)
LEMMA CheckAnswers ==
    ASSUME NEW acts, SettingsType(acts), NEW e \in Actions \cup {None}, NEW m \in 0..M!TooMany
    PROVE  /\ M!check_macroE(acts, e, m) \in 0..M!TooMany /\ m <= M!check_macroE(acts, e, m)
           /\ m = M!TooMany \/ e = None => M!check_macroE(acts, e, m) = m
           /\ m # M!TooMany /\ e # None /\ acts[e].flag # "absent" => m + 1 <= M!check_macroE(acts, e, m)
           /\ m # M!TooMany /\ e # None /\ acts[e].flag = "macro" /\ M!check_macroE(acts, e, m) # M!TooMany =>
                 /\ m + 1 # M!TooMany /\ m + 1 \in 0..M!TooMany
                 /\ M!check_macroE(acts, e, m) = M!Counts(acts)[<<m + 1, acts[e].entries>>]
  BY CountsBounds, ActionBounds DEF M!check_macroE

(* The loop over the entries, one entry at a time.                         *)
LEMMA LoopAnswers ==
    ASSUME NEW acts, SettingsType(acts), NEW m \in 0..M!TooMany, NEW es \in M!Entries
    PROVE  /\ M!Counts(acts)[<<m, es>>] \in 0..M!TooMany /\ m <= M!Counts(acts)[<<m, es>>]
           /\ m = M!TooMany \/ es = <<>> => M!Counts(acts)[<<m, es>>] = m
           /\ m # M!TooMany /\ es # <<>> =>
                 M!Counts(acts)[<<m, es>>] =
                     M!Counts(acts)[<<IF Head(es) = None THEN m ELSE M!check_macroE(acts, Head(es), m + 1), Tail(es)>>]
<1>1. <<m, es>> \in CheckDomain
  BY DEF CheckDomain
<1>2. /\ M!Counts(acts)[<<m, es>>] = CheckStep(acts, M!Counts(acts), <<m, es>>)
      /\ M!Counts(acts)[<<m, es>>] \in 0..M!TooMany /\ m <= M!Counts(acts)[<<m, es>>]
  BY <1>1, CountsBounds
<1> QED
  BY <1>2 DEF CheckStep, M!check_macroE

LEMMA NothingLeft ==
    ASSUME NEW acts, SettingsType(acts), NEW m \in 0..M!TooMany, <<>> \in M!Entries
    PROVE  M!Counts(acts)[<<m, <<>>>>] = m
<1>1. PICK es \in M!Entries : es = <<>>
  OBVIOUS
<1>2. M!Counts(acts)[<<m, es>>] = m
  BY <1>1, LoopAnswers
<1> QED
  BY <1>1, <1>2

(* The entries es pass the check when c actions are counted before them.   *)
Top(acts, es, c) == \E t \in [0..Len(es) -> 0..MaxCallCount] :
                        t[0] = c /\ \A i \in 1..Len(es) : t[i] = M!check_macroE(acts, es[i], t[i - 1])

LEMMA TopNext ==
    ASSUME NEW acts, NEW es \in M!Entries, es # <<>>, NEW c, Top(acts, es, c)
    PROVE  /\ c \in 0..MaxCallCount /\ M!check_macroE(acts, Head(es), c) \in 0..MaxCallCount
           /\ Top(acts, Tail(es), M!check_macroE(acts, Head(es), c))
<1>1. PICK t \in [0..Len(es) -> 0..MaxCallCount] :
          t[0] = c /\ \A i \in 1..Len(es) : t[i] = M!check_macroE(acts, es[i], t[i - 1])
  BY DEF Top
<1>2. /\ Len(es) \in Nat /\ Head(es) = es[1] /\ Len(Tail(es)) = Len(es) - 1 /\ Len(es) >= 1
      /\ \A i \in 1..Len(Tail(es)) : Tail(es)[i] = es[i + 1]
  BY EntriesParts
<1>3. t[1] = M!check_macroE(acts, Head(es), c) /\ c \in 0..MaxCallCount /\ t[1] \in 0..MaxCallCount
  BY <1>1, <1>2
<1> DEFINE u == [i \in 0..Len(Tail(es)) |-> t[i + 1]]
<1>4. u \in [0..Len(Tail(es)) -> 0..MaxCallCount] /\ u[0] = t[1]
  BY <1>2
<1>5. \A i \in 1..Len(Tail(es)) : u[i] = M!check_macroE(acts, Tail(es)[i], u[i - 1])
  <2> SUFFICES ASSUME NEW i \in 1..Len(Tail(es)) PROVE u[i] = M!check_macroE(acts, Tail(es)[i], u[i - 1])
    OBVIOUS
  <2>1. i + 1 \in 1..Len(es) /\ i \in 0..Len(Tail(es)) /\ i - 1 \in 0..Len(Tail(es)) /\ (i + 1) - 1 = i /\ (i - 1) + 1 = i
    BY <1>2
  <2>2. u[i] = t[i + 1] /\ u[i - 1] = t[i]
    BY <2>1
  <2>3. t[i + 1] = M!check_macroE(acts, es[i + 1], t[i])
    BY <1>1, <2>1
  <2> QED
    BY <1>2, <2>2, <2>3
<1>6. Top(acts, Tail(es), t[1])
  <2> HIDE DEF u
  <2> QED
    BY <1>4, <1>5 DEF Top
<1> QED
  BY <1>3, <1>6

LEMMA CheckedIsTop ==
    ASSUME NEW acts, SettingsType(acts), NEW es \in M!Entries, M!CheckEntries(acts, es)
    PROVE  Top(acts, es, 0)
<1> DEFINE n == Len(es)
           Next1(g, i) == IF i = 0 THEN 0 ELSE M!check_macroE(acts, es[i], g[i - 1])
           Fs == [0..n -> 0..M!TooMany]
           step == [g \in Fs |-> [i \in 0..n |-> Next1(g, i)]]
           rank == [i \in 0..n |-> i]
<1>1. n \in Nat /\ \A i \in 1..n : es[i] \in Actions \cup {None}
  BY EntriesParts
<1>2. \A g, i : i \in 0..n /\ (i # 0 => g[i - 1] \in 0..M!TooMany) => Next1(g, i) \in 0..M!TooMany
  <2> SUFFICES ASSUME NEW g, NEW i \in 0..n, i # 0 => g[i - 1] \in 0..M!TooMany
               PROVE  Next1(g, i) \in 0..M!TooMany
    OBVIOUS
  <2>1. CASE i = 0
    BY <2>1, Limits
  <2>2. CASE i # 0
    <3>1. es[i] \in Actions \cup {None} /\ g[i - 1] \in 0..M!TooMany
      BY <1>1, <2>2
    <3>2. M!check_macroE(acts, es[i], g[i - 1]) \in 0..M!TooMany
      BY <3>1, CheckAnswers
    <3> QED
      BY <2>2, <3>2
  <2> QED
    BY <2>1, <2>2
<1>3. \E f : f = [i \in 0..n |-> Next1(f, i)]
  <2>1. step \in [Fs -> Fs]
    <3>1. \A g \in Fs : [i \in 0..n |-> Next1(g, i)] \in Fs
      <4> SUFFICES ASSUME NEW g \in Fs PROVE \A i \in 0..n : Next1(g, i) \in 0..M!TooMany
        OBVIOUS
      <4>1. \A i \in 0..n : i # 0 => g[i - 1] \in 0..M!TooMany
        BY <1>1
      <4> HIDE DEF Next1
      <4> QED
        BY <1>2, <4>1
    <3> HIDE DEF Fs, Next1
    <3> QED
      BY <3>1
  <2>2. Fs \subseteq [0..n -> 0..M!TooMany] /\ Fs # {}
    <3>1. [i \in 0..n |-> 0] \in Fs
      BY Limits
    <3> QED
      BY <3>1
  <2>3. rank \in [0..n -> 0..n] /\ n \in Nat
    BY <1>1
  <2>4. \A g, h \in Fs : \A z \in 0..n :
            (\A y \in 0..n : rank[y] < rank[z] => g[y] = h[y]) => step[g][z] = step[h][z]
    <3> SUFFICES ASSUME NEW g \in Fs, NEW h \in Fs, NEW z \in 0..n,
                        \A y \in 0..n : rank[y] < rank[z] => g[y] = h[y]
                 PROVE  step[g][z] = step[h][z]
      OBVIOUS
    <3>1. z # 0 => g[z - 1] = h[z - 1]
      BY <1>1
    <3>2. Next1(g, z) = Next1(h, z)
      BY <3>1
    <3> HIDE DEF Fs, Next1
    <3> QED
      BY <3>2
  <2>5. \E f \in Fs : f = step[f]
    <3> HIDE DEF Fs, step, rank, n
    <3>1. Descends(0..n, 0..M!TooMany, Fs, step, n, rank)
      BY <2>1, <2>2, <2>3, <2>4 DEF Descends
    <3> QED
      BY <3>1, FixedPoint
  <2> HIDE DEF Fs, Next1
  <2> QED
    BY <2>5
<1>4. PICK t : t = CHOOSE f : f = [i \in 0..n |-> Next1(f, i)]
  OBVIOUS
<1>5. t = [i \in 0..n |-> Next1(t, i)]
  <2> HIDE DEF Next1, n
  <2> QED
    BY <1>3, <1>4
<1>6. t[n] # M!TooMany
  BY <1>4 DEF M!CheckEntries
<1>7. \A i \in 0..n : t[i] \in 0..M!TooMany
  <2> DEFINE Bad == {i \in 0..n : t[i] \notin 0..M!TooMany}
  <2> SUFFICES ASSUME Bad # {} PROVE FALSE
    OBVIOUS
  <2>1. PICK i \in Bad : \A j \in Bad : i <= j
    <3>1. Bad \subseteq Nat
      BY <1>1
    <3> HIDE DEF Bad
    <3> QED
      BY <3>1, FirstNumber
  <2>2. i # 0 => t[i - 1] \in 0..M!TooMany
    BY <1>1, <2>1
  <2>3. Next1(t, i) \in 0..M!TooMany
    <3> HIDE DEF Next1
    <3> QED
      BY <1>2, <2>1, <2>2
  <2>4. t[i] = Next1(t, i)
    <3> HIDE DEF Next1
    <3> QED
      BY <1>5, <2>1
  <2> QED
    BY <2>1, <2>3, <2>4
<1>8. \A i \in 0..n : t[i] # M!TooMany
  <2> SUFFICES ASSUME NEW i \in 0..n, t[i] = M!TooMany PROVE FALSE
    OBVIOUS
  <2> DEFINE Later == {j \in i..n : t[j] # M!TooMany}
  <2>1. Later # {} /\ Later \subseteq Nat
    BY <1>1, <1>6
  <2>2. PICK j \in Later : \A k \in Later : j <= k
    <3> HIDE DEF Later
    <3> QED
      BY <2>1, FirstNumber
  <2>3. j # 0 /\ j - 1 \in 0..n /\ t[j - 1] = M!TooMany /\ j \in 1..n
    BY <1>1, <2>2
  <2>4. t[j] = M!check_macroE(acts, es[j], t[j - 1])
    BY <1>5, <2>3
  <2>5. es[j] \in Actions \cup {None} /\ t[j - 1] \in 0..M!TooMany
    BY <1>1, <1>7, <2>3
  <2>6. t[j] = M!TooMany
    BY <2>3, <2>4, <2>5, CheckAnswers
  <2> QED
    BY <2>2, <2>6
<1>9. \A i \in 0..n : t[i] \in 0..MaxCallCount
  BY <1>7, <1>8, Limits
<1>10. t \in [0..n -> 0..MaxCallCount] /\ t[0] = 0
  BY <1>1, <1>5, <1>9
<1>11. \A i \in 1..n : t[i] = M!check_macroE(acts, es[i], t[i - 1])
  BY <1>1, <1>5
<1> QED
  BY <1>10, <1>11 DEF Top

-----------------------------------------------------------------------------
(* What the check counted, followed through a run: v[j] when it had seen   *)
(* what frame j of the stack has behind it.                                *)

After(stk, d) == [SubSeq(stk, 1, d) EXCEPT ![d] = Tail(@)]

(* The entries that frame j has not begun.                                 *)
Left(stk, j) == IF j = Len(stk) THEN stk[j] ELSE Tail(stk[j])

Chain(acts, stk, v) ==
    /\ v \in [1..Len(stk) -> 0..MaxCallCount]
    /\ Top(acts, Left(stk, 1), v[1])
    /\ \A j \in 2..Len(stk) : M!Counts(acts)[<<v[j], Left(stk, j)>>] = v[j - 1]

(* Each frame was entered by an entry that is there.                       *)
Present(acts, stk) ==
    \A j \in 1..Len(stk) : /\ j # Len(stk) => stk[j] # <<>>
                           /\ \A i \in 1..Len(stk[j]) : stk[j][i] # None => acts[stk[j][i]].flag # "absent"

LEMMA AfterIs ==
    ASSUME NEW stk \in Seq(M!Entries), NEW d \in 1..Len(stk), stk[d] # <<>>
    PROVE  /\ After(stk, d) \in Seq(M!Entries) /\ Len(After(stk, d)) = d
           /\ After(stk, d)[d] = Tail(stk[d]) /\ \A j \in 1..(d - 1) : After(stk, d)[j] = stk[j]
<1>1. Tail(stk[d]) \in M!Entries
  BY EntriesParts
<1>2. SubSeq(stk, 1, d) \in Seq(M!Entries) /\ Len(SubSeq(stk, 1, d)) = d /\ \A j \in 1..d : SubSeq(stk, 1, d)[j] = stk[j]
  OBVIOUS
<1>3. PICK sub : sub = SubSeq(stk, 1, d)
  OBVIOUS
<1>4. sub \in [1..d -> M!Entries] /\ d \in 1..d /\ d \in Nat /\ sub[d] = stk[d]
  <2>1. d \in 1..d /\ d \in Nat
    OBVIOUS
  <2>2. sub \in Seq(M!Entries) /\ Len(sub) = d
    BY <1>2, <1>3
  <2>3. sub \in [1..d -> M!Entries]
    BY <2>1, <2>2
  <2> QED
    BY <1>2, <1>3, <2>1, <2>3
<1>5. After(stk, d) = [sub EXCEPT ![d] = Tail(stk[d])]
  BY <1>3, <1>4 DEF After
<1>6. After(stk, d) \in [1..d -> M!Entries]
  BY <1>1, <1>4, <1>5
<1>7. After(stk, d) \in Seq(M!Entries) /\ Len(After(stk, d)) = d
  BY <1>4, <1>6
<1>8. After(stk, d)[d] = Tail(stk[d]) /\ \A j \in 1..(d - 1) : After(stk, d)[j] = stk[j]
  <2>1. \A j \in 1..(d - 1) : j \in 1..d /\ j # d
    BY <1>4
  <2>2. DOMAIN sub = 1..d /\ \A j \in 1..d : sub[j] = stk[j]
    BY <1>2, <1>3, <1>4
  <2> QED
    BY <1>4, <1>5, <2>1, <2>2
<1> QED
  BY <1>7, <1>8

(* m is what is counted when frame d is done with its entry.               *)
Goes(acts, stk, v, d, m) == /\ m \in 0..MaxCallCount /\ d \in 1..Len(stk) /\ stk[d] # <<>>
                            /\ d = 1 => Top(acts, Tail(stk[d]), m)
                            /\ d # 1 => M!Counts(acts)[<<m, Tail(stk[d])>>] = v[d - 1]

LEMMA ChainAfter ==
    ASSUME NEW acts, NEW stk \in Seq(M!Entries), NEW v, Chain(acts, stk, v), NEW d, NEW m, Goes(acts, stk, v, d, m)
    PROVE  \E w : Chain(acts, After(stk, d), w) /\ w[d] = m
<1> DEFINE w == [j \in 1..d |-> IF j = d THEN m ELSE v[j]]
           new == After(stk, d)
<1>0. /\ m \in 0..MaxCallCount /\ d \in 1..Len(stk) /\ stk[d] # <<>>
      /\ d = 1 => Top(acts, Tail(stk[d]), m)
      /\ d # 1 => M!Counts(acts)[<<m, Tail(stk[d])>>] = v[d - 1]
  BY DEF Goes
<1>1. /\ new \in Seq(M!Entries) /\ Len(new) = d
      /\ new[d] = Tail(stk[d]) /\ \A j \in 1..(d - 1) : new[j] = stk[j]
  BY <1>0, AfterIs
<1>2. w \in [1..d -> 0..MaxCallCount] /\ w[d] = m /\ \A j \in 1..(d - 1) : w[j] = v[j]
  <2>1. d \in Nat \ {0} /\ d <= Len(stk) /\ Len(stk) \in Nat
    BY <1>0
  <2>2. \A j \in 1..d : v[j] \in 0..MaxCallCount
    BY <2>1 DEF Chain
  <2> QED
    BY <1>0, <2>1, <2>2
<1>3. Left(new, d) = Tail(stk[d]) /\ \A j \in 1..(d - 1) : Left(new, j) = Left(stk, j)
  <2> HIDE DEF new
  <2> QED
    BY <1>0, <1>1 DEF Left
<1> HIDE DEF w, new
<1>4. Top(acts, Left(new, 1), w[1])
  <2>1. CASE d = 1
    BY <1>0, <1>2, <1>3, <2>1
  <2>2. CASE d # 1
    BY <1>0, <1>2, <1>3, <2>2 DEF Chain
  <2> QED
    BY <2>1, <2>2
<1>5. \A j \in 2..d : M!Counts(acts)[<<w[j], Left(new, j)>>] = w[j - 1]
  <2> SUFFICES ASSUME NEW j \in 2..d PROVE M!Counts(acts)[<<w[j], Left(new, j)>>] = w[j - 1]
    OBVIOUS
  <2>1. w[j - 1] = v[j - 1]
    BY <1>0, <1>2
  <2>2. CASE j = d
    <3>1. d # 1 /\ w[j] = m /\ Left(new, j) = Tail(stk[d]) /\ w[j - 1] = v[d - 1]
      BY <1>0, <1>2, <1>3, <2>1, <2>2
    <3> QED
      BY <1>0, <3>1
  <2>3. CASE j # d
    <3>1. w[j] = v[j] /\ Left(new, j) = Left(stk, j) /\ j \in 2..Len(stk)
      BY <1>0, <1>2, <1>3, <2>3
    <3> QED
      BY <2>1, <3>1 DEF Chain
  <2> QED
    BY <2>2, <2>3
<1>6. Chain(acts, new, w)
  BY <1>1, <1>2, <1>4, <1>5 DEF Chain
<1> QED
  BY <1>2, <1>6 DEF new

LEMMA ChainCall ==
    ASSUME NEW acts, NEW stk \in Seq(M!Entries), NEW es \in M!Entries, NEW v, Chain(acts, stk, v),
           NEW m, Goes(acts, stk, v, Len(stk), m), NEW c \in 0..MaxCallCount, M!Counts(acts)[<<c, es>>] = m
    PROVE  \E w : Chain(acts, Append(stk, es), w) /\ w[Len(stk) + 1] = c
<1>a. PICK d \in Nat : d = Len(stk)
  OBVIOUS
<1>0. /\ m \in 0..MaxCallCount /\ d \in Nat \ {0} /\ d = Len(stk)
      /\ d = 1 => Top(acts, Tail(stk[d]), m)
      /\ d # 1 => M!Counts(acts)[<<m, Tail(stk[d])>>] = v[d - 1]
  BY <1>a DEF Goes
<1> DEFINE w == [j \in 1..(d + 1) |-> IF j = d + 1 THEN c ELSE IF j = d THEN m ELSE v[j]]
           new == Append(stk, es)
<1>1. /\ new \in Seq(M!Entries) /\ Len(new) = d + 1
      /\ new[d + 1] = es /\ \A j \in 1..d : new[j] = stk[j]
  BY <1>0
<1>2. w \in [1..(d + 1) -> 0..MaxCallCount] /\ w[d + 1] = c /\ w[d] = m /\ \A j \in 1..(d - 1) : w[j] = v[j]
  BY <1>0 DEF Chain
<1>3. Left(new, d + 1) = es /\ Left(new, d) = Tail(stk[d]) /\ \A j \in 1..(d - 1) : Left(new, j) = Left(stk, j)
  <2> HIDE DEF new
  <2>1. d # d + 1 /\ \A j \in 1..(d - 1) : j # d /\ j # d + 1
    BY <1>0
  <2>2. Left(new, d + 1) = es /\ Left(new, d) = Tail(stk[d])
    BY <1>0, <1>1, <2>1 DEF Left
  <2>3. ASSUME NEW j \in 1..(d - 1) PROVE Left(new, j) = Left(stk, j)
    <3>1. j # d /\ j # d + 1 /\ j \in 1..d
      BY <1>0
    <3>2. new[j] = stk[j] /\ Len(new) = d + 1 /\ Len(stk) = d
      BY <1>0, <1>1, <3>1
    <3> QED
      BY <3>1, <3>2 DEF Left
  <2> QED
    BY <2>2, <2>3
<1> HIDE DEF w, new
<1>4. Top(acts, Left(new, 1), w[1])
  <2>1. CASE d = 1
    BY <1>0, <1>2, <1>3, <2>1
  <2>2. CASE d # 1
    BY <1>0, <1>2, <1>3, <2>2 DEF Chain
  <2> QED
    BY <2>1, <2>2
<1>5. \A j \in 2..(d + 1) : M!Counts(acts)[<<w[j], Left(new, j)>>] = w[j - 1]
  <2> SUFFICES ASSUME NEW j \in 2..(d + 1) PROVE M!Counts(acts)[<<w[j], Left(new, j)>>] = w[j - 1]
    OBVIOUS
  <2>1. CASE j = d + 1
    <3>1. j - 1 = d
      BY <1>0, <2>1
    <3> QED
      BY <1>0, <1>2, <1>3, <2>1, <3>1
  <2>2. CASE j = d
    <3>1. d # 1 /\ w[j - 1] = v[d - 1]
      BY <1>0, <1>2, <2>2
    <3> QED
      BY <1>0, <1>2, <1>3, <2>2, <3>1
  <2>3. CASE j # d /\ j # d + 1
    <3>1. w[j] = v[j] /\ w[j - 1] = v[j - 1] /\ Left(new, j) = Left(stk, j) /\ j \in 2..Len(stk)
      BY <1>0, <1>2, <1>3, <2>3
    <3> QED
      BY <3>1 DEF Chain
  <2> QED
    BY <2>1, <2>2, <2>3
<1>6. Chain(acts, new, w)
  BY <1>1, <1>2, <1>4, <1>5 DEF Chain
<1> QED
  BY <1>0, <1>2, <1>6 DEF new

(* What the check goes on with after the entry that is next.               *)
Following(acts, stk, m) ==
    LET e == Head(stk[Len(stk)])
    IN  IF e = None THEN m ELSE M!check_macroE(acts, e, IF Len(stk) = 1 THEN m ELSE m + 1)

Ready(acts, stk, v) == /\ SettingsType(acts) /\ stk \in Seq(M!Entries) /\ stk # <<>> /\ stk[Len(stk)] # <<>>
                       /\ Present(acts, stk) /\ Chain(acts, stk, v)

LEMMA FollowingIs ==
    ASSUME NEW acts, NEW stk, NEW v, Ready(acts, stk, v)
    PROVE  \E m \in 0..MaxCallCount : \E k \in Nat :
               /\ Goes(acts, stk, v, Len(stk), m)
               /\ v[Len(stk)] \in 0..MaxCallCount /\ k = IF Len(stk) = 1 THEN v[Len(stk)] + 1 ELSE v[Len(stk)] + 2
               /\ Head(stk[Len(stk)]) = None => m = v[Len(stk)]
               /\ Head(stk[Len(stk)]) # None => k <= m
               /\ Head(stk[Len(stk)]) # None /\ acts[Head(stk[Len(stk)])].flag = "macro" =>
                     k \in 0..MaxCallCount /\ M!Counts(acts)[<<k, acts[Head(stk[Len(stk)])].entries>>] = m
<1>a. /\ SettingsType(acts) /\ stk \in Seq(M!Entries) /\ stk # <<>> /\ stk[Len(stk)] # <<>>
      /\ Present(acts, stk) /\ Chain(acts, stk, v)
  BY DEF Ready
<1>b. PICK d \in Nat \ {0} : d = Len(stk)
  BY <1>a
<1>c. PICK e, m, k : e = Head(stk[d]) /\ m = Following(acts, stk, v[d]) /\ k = IF d = 1 THEN v[d] + 1 ELSE v[d] + 2
  OBVIOUS
<1>0. d \in Nat \ {0} /\ d = Len(stk)
  BY <1>b
<1> DEFINE Goal == /\ m \in 0..MaxCallCount /\ v[d] \in 0..MaxCallCount
                   /\ d = 1 => Top(acts, Tail(stk[d]), m)
                   /\ d # 1 => M!Counts(acts)[<<m, Tail(stk[d])>>] = v[d - 1]
                   /\ e = None => m = v[d]
                   /\ e # None => k <= m
                   /\ e # None /\ acts[e].flag = "macro" =>
                         k \in 0..MaxCallCount /\ M!Counts(acts)[<<k, acts[e].entries>>] = m
<1>1. PICK es : es = stk[d] /\ e = Head(es)
  BY <1>c
<1>2. es \in M!Entries /\ es # <<>> /\ e \in Actions \cup {None} /\ Tail(es) \in M!Entries
  <2>1. es \in M!Entries /\ es # <<>>
    BY <1>a, <1>0, <1>1
  <2> QED
    BY <1>1, <2>1, EntriesParts
<1>3. e # None => acts[e].flag # "absent"
  <2>1. 1 \in 1..Len(es) /\ es[1] = e /\ d \in 1..Len(stk)
    BY <1>0, <1>1, <1>2, EntriesParts
  <2> QED
    BY <1>a, <1>1, <2>1 DEF Present
<1>4. PICK c \in 0..MaxCallCount : c = v[d]
  BY <1>a, <1>0 DEF Chain
<1>5. Left(stk, d) = es
  BY <1>0, <1>1 DEF Left
<1>6. ASSUME d = 1 PROVE Goal
  <2>1. Top(acts, es, c)
    BY <1>a, <1>4, <1>5, <1>6 DEF Chain
  <2>2. M!check_macroE(acts, e, c) \in 0..MaxCallCount /\ Top(acts, Tail(es), M!check_macroE(acts, e, c))
    BY <1>1, <1>2, <2>1, TopNext
  <2>3. e = None => M!check_macroE(acts, e, c) = c
    BY <1>a, <1>2, CheckAnswers, Limits
  <2>4. Following(acts, stk, c) = M!check_macroE(acts, e, c)
    BY <1>0, <1>1, <1>6, <2>3 DEF Following
  <2>5. c # M!TooMany /\ M!check_macroE(acts, e, c) # M!TooMany /\ c \in 0..M!TooMany
    BY <1>4, <2>2, Limits
  <2>6. e # None => c + 1 <= M!check_macroE(acts, e, c)
    BY <1>a, <1>2, <1>3, <2>5, CheckAnswers
  <2>7. e # None /\ acts[e].flag = "macro" =>
            c + 1 # M!TooMany /\ c + 1 \in 0..M!TooMany
            /\ M!Counts(acts)[<<c + 1, acts[e].entries>>] = M!check_macroE(acts, e, c)
    BY <1>a, <1>2, <2>5, CheckAnswers
  <2> QED
    BY <1>c, <1>1, <1>4, <1>6, <2>2, <2>3, <2>4, <2>6, <2>7, Limits
<1>7. ASSUME d # 1 PROVE Goal
  <2>1. d \in 2..Len(stk) /\ d - 1 \in 1..Len(stk)
    BY <1>0, <1>7
  <2>2. M!Counts(acts)[<<c, es>>] = v[d - 1] /\ v[d - 1] \in 0..MaxCallCount
    BY <1>a, <1>4, <1>5, <2>1 DEF Chain
  <2>3. c # M!TooMany /\ c \in 0..M!TooMany /\ c + 1 \in 0..M!TooMany
    BY <1>4, Limits
  <2>4. PICK p : p = IF e = None THEN c ELSE M!check_macroE(acts, e, c + 1)
    OBVIOUS
  <2>5. p \in 0..M!TooMany
    BY <1>a, <1>2, <2>3, <2>4, CheckAnswers
  <2>6. M!Counts(acts)[<<p, Tail(es)>>] = v[d - 1]
    BY <1>a, <1>1, <1>2, <2>2, <2>3, <2>4, LoopAnswers
  <2>7. p <= v[d - 1]
    <3>1. p <= M!Counts(acts)[<<p, Tail(es)>>]
      BY <1>a, <1>2, <2>5, LoopAnswers
    <3> QED
      BY <2>6, <3>1
  <2>8. p \in 0..MaxCallCount /\ p # M!TooMany
    BY <2>2, <2>5, <2>7, Limits
  <2>9. Following(acts, stk, c) = p
    BY <1>0, <1>1, <1>7, <2>4 DEF Following
  <2>10. e # None => c + 1 # M!TooMany
    BY <1>a, <1>2, <2>3, <2>4, <2>8, CheckAnswers
  <2>11. e # None => (c + 1) + 1 <= p
    BY <1>a, <1>2, <1>3, <2>3, <2>4, <2>10, CheckAnswers
  <2>12. e # None /\ acts[e].flag = "macro" =>
            (c + 1) + 1 # M!TooMany /\ (c + 1) + 1 \in 0..M!TooMany
            /\ M!Counts(acts)[<<(c + 1) + 1, acts[e].entries>>] = p
    BY <1>a, <1>2, <2>3, <2>4, <2>8, <2>10, CheckAnswers
  <2>13. (c + 1) + 1 = c + 2
    BY <1>4, Limits
  <2>14. k = c + 2 /\ m = p
    BY <1>c, <1>4, <1>7, <2>9
  <2>15. e # None => k <= m
    BY <2>11, <2>13, <2>14
  <2>16. e # None /\ acts[e].flag = "macro" => M!Counts(acts)[<<k, acts[e].entries>>] = m
    BY <2>12, <2>13, <2>14
  <2>17. e # None /\ acts[e].flag = "macro" => k \in 0..MaxCallCount
    BY <1>4, <2>12, <2>13, <2>14, Limits
  <2>18. e = None => m = v[d]
    BY <1>4, <2>4, <2>14
  <2>19. M!Counts(acts)[<<m, Tail(stk[d])>>] = v[d - 1]
    BY <1>1, <2>6, <2>14
  <2> QED
    BY <1>4, <1>7, <2>8, <2>14, <2>15, <2>16, <2>17, <2>18, <2>19
<1>8. Goal
  BY <1>6, <1>7
<1>9. k \in Nat
  <2>1. v[d] \in Nat
    BY <1>8, Limits
  <2> QED
    BY <1>c, <2>1
<1>10. Goes(acts, stk, v, Len(stk), m)
  <2>1. d \in 1..Len(stk) /\ stk[d] # <<>>
    BY <1>a, <1>0
  <2> QED
    BY <1>0, <1>8, <2>1 DEF Goes
<1> QED
  BY <1>0, <1>c, <1>8, <1>9, <1>10

LEMMA PresentAfter ==
    ASSUME NEW acts, NEW stk \in Seq(M!Entries), Present(acts, stk), NEW d \in 1..Len(stk), stk[d] # <<>>
    PROVE  Present(acts, After(stk, d))
<1>1. /\ Len(After(stk, d)) = d
      /\ After(stk, d)[d] = Tail(stk[d]) /\ \A j \in 1..(d - 1) : After(stk, d)[j] = stk[j]
  BY AfterIs
<1> SUFFICES ASSUME NEW j \in 1..d
             PROVE  /\ j # d => After(stk, d)[j] # <<>>
                    /\ \A i \in 1..Len(After(stk, d)[j]) :
                           After(stk, d)[j][i] # None => acts[After(stk, d)[j][i]].flag # "absent"
  BY <1>1 DEF Present
<1>2. j \in 1..Len(stk) /\ (j # d => j # Len(stk) /\ j \in 1..(d - 1))
  OBVIOUS
<1>3. CASE j # d
  <2>1. After(stk, d)[j] = stk[j]
    BY <1>1, <1>2, <1>3
  <2> QED
    BY <1>2, <1>3, <2>1 DEF Present
<1>4. CASE j = d
  <2>1. stk[d] \in M!Entries
    OBVIOUS
  <2>2. Len(stk[d]) \in Nat /\ Len(Tail(stk[d])) = Len(stk[d]) - 1 /\ \A i \in 1..Len(Tail(stk[d])) : Tail(stk[d])[i] = stk[d][i + 1]
    BY <2>1, EntriesParts
  <2>3. \A i \in 1..Len(Tail(stk[d])) : i + 1 \in 1..Len(stk[d])
    BY <2>2
  <2>4. \A i \in 1..Len(Tail(stk[d])) : Tail(stk[d])[i] # None => acts[Tail(stk[d])[i]].flag # "absent"
    BY <2>2, <2>3 DEF Present
  <2> QED
    BY <1>1, <1>4, <2>4
<1> QED
  BY <1>3, <1>4

LEMMA PresentCall ==
    ASSUME NEW acts, NEW stk \in Seq(M!Entries), Present(acts, stk), stk # <<>>, stk[Len(stk)] # <<>>,
           NEW es \in M!Entries, \A i \in 1..Len(es) : es[i] # None => acts[es[i]].flag # "absent"
    PROVE  Present(acts, Append(stk, es))
<1>0. PICK n \in Nat : n = Len(stk)
  OBVIOUS
<1>1. PICK new : new = Append(stk, es) /\ n = Len(stk)
  BY <1>0
<1>2. Len(new) = n + 1 /\ new[n + 1] = es /\ \A j \in 1..n : new[j] = stk[j] /\ j # n + 1
  BY <1>1
<1>3. ASSUME NEW j \in 1..(n + 1)
      PROVE  /\ j # n + 1 => new[j] # <<>>
             /\ \A i \in 1..Len(new[j]) : new[j][i] # None => acts[new[j][i]].flag # "absent"
  <2>1. CASE j = n + 1
    BY <1>2, <2>1
  <2>2. CASE j # n + 1
    <3>1. j \in 1..n /\ new[j] = stk[j] /\ j \in 1..Len(stk)
      BY <1>1, <1>2, <2>2
    <3>2. stk[j] # <<>>
      BY <1>1, <3>1 DEF Present
    <3> QED
      BY <3>1, <3>2 DEF Present
  <2> QED
    BY <2>1, <2>2
<1> QED
  BY <1>1, <1>2, <1>3 DEF Present

(* Only the innermost frame can be at its end.                             *)
Nested(stk) == \A j \in 1..Len(stk) : j # Len(stk) => stk[j] # <<>>

LEMMA NestedAfter ==
    ASSUME NEW stk \in Seq(M!Entries), Nested(stk), NEW d \in 1..Len(stk), stk[d] # <<>>
    PROVE  Nested(After(stk, d))
<1>1. Len(After(stk, d)) = d /\ \A j \in 1..(d - 1) : After(stk, d)[j] = stk[j]
  BY AfterIs
<1> SUFFICES ASSUME NEW j \in 1..d, j # d
             PROVE  After(stk, d)[j] # <<>>
  BY <1>1 DEF Nested
<1>2. j \in 1..(d - 1) /\ j \in 1..Len(stk) /\ j # Len(stk)
  OBVIOUS
<1> QED
  BY <1>1, <1>2 DEF Nested

LEMMA NestedCall ==
    ASSUME NEW stk \in Seq(M!Entries), Nested(stk), stk # <<>>, stk[Len(stk)] # <<>>, NEW es \in M!Entries
    PROVE  Nested(Append(stk, es))
<1>1. PICK n \in Nat : n = Len(stk)
  OBVIOUS
<1>2. Len(Append(stk, es)) = n + 1 /\ \A j \in 1..n : Append(stk, es)[j] = stk[j]
  BY <1>1
<1> SUFFICES ASSUME NEW j \in 1..(n + 1), j # n + 1
             PROVE  Append(stk, es)[j] # <<>>
  BY <1>2 DEF Nested
<1>3. j \in 1..n
  OBVIOUS
<1>4. stk[j] # <<>>
  BY <1>1, <1>3 DEF Nested
<1> QED
  BY <1>2, <1>3, <1>4

(* The check is ahead of the run: it has counted an action for each the    *)
(* run counted, and for each frame but the first. The macro of a trigger   *)
(* starts with one; until it has run an entry of a macro it contains, it   *)
(* counts no more than its own entries.                                    *)
Reached(d, n, c, m) == c + d <= m + 1 \/ (d <= 2 /\ c + d <= m + 2 /\ c + n <= MaxEntries + 1)

Covers(acts, stk, c, v) == /\ Chain(acts, stk, v)
                           /\ Len(stk) >= 2 => 2 * Len(stk) <= v[Len(stk)] + 3
                           /\ Reached(Len(stk), Len(stk[1]), c, v[Len(stk)])


(* An entry is passed over, or done and counted, in a frame with b entries *)
(* of the first one left after it.                                         *)
Behind(d, a, b, c, m) == /\ Reached(d, a, c, m) /\ (d >= 2 => 2 * d <= m + 3)
                         /\ (d = 1 /\ b = a - 1) \/ (d # 1 /\ b = a)

LEMMA ReachedEntry ==
    ASSUME NEW d \in Nat \ {0}, NEW a \in Nat \ {0}, NEW b \in Nat, NEW c \in Nat, NEW m \in Nat, NEW p \in Nat,
           Behind(d, a, b, c, m)
    PROVE  /\ m = p => Reached(d, b, c, p) /\ (d >= 2 => 2 * d <= p + 3)
           /\ (IF d = 1 THEN m + 1 ELSE m + 2) <= p /\ p <= MaxCallCount =>
                 Reached(d, b, c + 1, p) /\ (d >= 2 => 2 * d <= p + 3) /\ c + 1 <= MaxCallCount
<1> USE DEF Behind
<1>1. MaxEntries \in Nat /\ MaxCallCount \in Nat /\ MaxEntries < MaxCallCount
  BY Limits
<1>2. CASE d = 1
  BY <1>1, <1>2 DEF Reached
<1>3. CASE d # 1
  BY <1>1, <1>3 DEF Reached
<1> QED
  BY <1>2, <1>3

LEMMA ReachedCall ==
    ASSUME NEW d \in Nat \ {0}, NEW a \in Nat, NEW c \in Nat, NEW m \in Nat, NEW k \in Nat,
           Reached(d, a, c, m), d >= 2 => 2 * d <= m + 3, k = IF d = 1 THEN m + 1 ELSE m + 2
    PROVE  Reached(d + 1, a, c, k) /\ 2 * (d + 1) <= k + 3
<1>1. MaxEntries \in Nat
  BY Limits
<1>2. CASE d = 1
  BY <1>1, <1>2 DEF Reached
<1>3. CASE d # 1
  BY <1>1, <1>3 DEF Reached
<1> QED
  BY <1>2, <1>3

LEMMA ReachedReturn ==
    ASSUME NEW d \in Nat \ {0}, NEW a \in Nat \ {0}, NEW b \in Nat, NEW c \in Nat, NEW m \in Nat, m <= MaxCallCount,
           Reached(d + 1, a, c, m), 2 * (d + 1) <= m + 3,
           (d = 1 /\ b = a - 1) \/ (d # 1 /\ b = a)
    PROVE  Reached(d, b, c + 1, m) /\ (d >= 2 => 2 * d <= m + 3) /\ c + 1 <= MaxCallCount
<1>1. MaxEntries \in Nat /\ MaxCallCount \in Nat /\ MaxEntries < MaxCallCount
  BY Limits
<1>2. CASE d = 1
  BY <1>1, <1>2 DEF Reached
<1>3. CASE d # 1
  BY <1>1, <1>3 DEF Reached
<1> QED
  BY <1>2, <1>3

LEMMA EntryCovered ==
    ASSUME NEW acts, SettingsType(acts), NEW stk \in Seq(M!Entries), stk # <<>>, Present(acts, stk),
           stk[Len(stk)] # <<>>, NEW c \in Nat, NEW v, Covers(acts, stk, c, v)
    PROVE  /\ Head(stk[Len(stk)]) = None => \E w : Covers(acts, After(stk, Len(stk)), c, w)
           /\ Head(stk[Len(stk)]) # None =>
                 c + 1 <= MaxCallCount /\ \E w : Covers(acts, After(stk, Len(stk)), c + 1, w)
<1>0. PICK d \in Nat \ {0} : d = Len(stk)
  OBVIOUS
<1>1. PICK e : d = Len(stk) /\ e = Head(stk[d])
  BY <1>0
<1>2. Ready(acts, stk, v)
  BY DEF Ready, Covers
<1>2a. PICK m \in 0..MaxCallCount : \E k \in Nat :
           /\ Goes(acts, stk, v, d, m) /\ v[d] \in 0..MaxCallCount /\ k = IF d = 1 THEN v[d] + 1 ELSE v[d] + 2
           /\ e = None => m = v[d]
           /\ e # None => k <= m
  BY <1>1, <1>2, FollowingIs
<1>3. PICK new : new = After(stk, d)
  OBVIOUS
<1>4. d \in 1..Len(stk) /\ stk[d] # <<>>
  BY <1>1
<1>5. /\ new \in Seq(M!Entries) /\ Len(new) = d
      /\ new[d] = Tail(stk[d]) /\ \A j \in 1..(d - 1) : new[j] = stk[j]
  BY <1>3, <1>4, AfterIs
<1>7. PICK w : Chain(acts, new, w) /\ w[d] = m
  BY <1>2a, <1>3, ChainAfter DEF Covers
<1>8. PICK a \in Nat \ {0}, b \in Nat : /\ a = Len(stk[1]) /\ b = Len(new[1])
                                        /\ (d = 1 /\ b = a - 1) \/ (d # 1 /\ b = a)
  <2>1. stk[1] \in M!Entries /\ stk[1] # <<>>
    BY <1>1, <1>4 DEF Present
  <2>2. Len(stk[1]) \in Nat /\ Len(Tail(stk[1])) = Len(stk[1]) - 1 /\ Len(stk[1]) >= 1
    BY <2>1, EntriesParts
  <2>3. CASE d = 1
    <3>1. Len(new[1]) = Len(stk[1]) - 1
      BY <1>5, <2>2, <2>3
    <3> QED
      BY <2>2, <2>3, <3>1
  <2>4. CASE d # 1
    <3>1. 1 \in 1..(d - 1)
      BY <2>4
    <3>2. new[1] = stk[1]
      BY <1>5, <3>1
    <3> QED
      BY <2>2, <2>4, <3>2
  <2> QED
    BY <2>3, <2>4
<1>9. PICK z \in Nat, p \in Nat : z = v[d] /\ p = m /\ p <= MaxCallCount
  BY <1>2a, Limits
<1>10. Reached(d, a, c, z) /\ (d >= 2 => 2 * d <= z + 3)
  BY <1>1, <1>8, <1>9 DEF Covers
<1>10a. Behind(d, a, b, c, z)
  BY <1>8, <1>10 DEF Behind
<1>11. ASSUME e = None PROVE Covers(acts, new, c, w)
  <2>1. z = p
    BY <1>2a, <1>9, <1>11
  <2>2. Reached(d, b, c, p) /\ (d >= 2 => 2 * d <= p + 3)
    BY <1>10a, <2>1, ReachedEntry
  <2> QED
    BY <1>5, <1>7, <1>8, <1>9, <2>2 DEF Covers
<1>12. ASSUME e # None PROVE c + 1 <= MaxCallCount /\ Covers(acts, new, c + 1, w)
  <2>1. (IF d = 1 THEN z + 1 ELSE z + 2) <= p
    BY <1>2a, <1>9, <1>12
  <2>2. Reached(d, b, c + 1, p) /\ (d >= 2 => 2 * d <= p + 3) /\ c + 1 <= MaxCallCount
    BY <1>9, <1>10a, <2>1, ReachedEntry
  <2> QED
    BY <1>5, <1>7, <1>8, <1>9, <2>2 DEF Covers
<1> QED
  BY <1>1, <1>3, <1>11, <1>12

LEMMA CallCovered ==
    ASSUME NEW acts, SettingsType(acts), NEW stk \in Seq(M!Entries), stk # <<>>, Present(acts, stk),
           stk[Len(stk)] # <<>>, NEW c \in Nat, NEW v, Covers(acts, stk, c, v),
           NEW e \in Actions, e = Head(stk[Len(stk)]), e # None, acts[e].flag = "macro"
    PROVE  \E w : Covers(acts, Append(stk, acts[e].entries), c, w)
<1>0. PICK d \in Nat \ {0} : d = Len(stk)
  OBVIOUS
<1>1. d = Len(stk) /\ e = Head(stk[d])
  BY <1>0
<1>1a. Ready(acts, stk, v)
  BY DEF Ready, Covers
<1>2. PICK m \in 0..MaxCallCount : \E k \in Nat :
          /\ Goes(acts, stk, v, Len(stk), m)
          /\ v[Len(stk)] \in 0..MaxCallCount /\ k = IF Len(stk) = 1 THEN v[Len(stk)] + 1 ELSE v[Len(stk)] + 2
          /\ Head(stk[Len(stk)]) # None /\ acts[Head(stk[Len(stk)])].flag = "macro" =>
                k \in 0..MaxCallCount /\ M!Counts(acts)[<<k, acts[Head(stk[Len(stk)])].entries>>] = m
  BY <1>1a, FollowingIs
<1>2a. PICK k \in Nat :
          /\ Goes(acts, stk, v, Len(stk), m) /\ v[d] \in 0..MaxCallCount /\ k = IF d = 1 THEN v[d] + 1 ELSE v[d] + 2
          /\ k \in 0..MaxCallCount /\ M!Counts(acts)[<<k, acts[e].entries>>] = m
  BY <1>0, <1>2
<1>3. PICK es \in M!Entries : es = acts[e].entries
  BY MacroEntries
<1>3a. PICK new : new = Append(stk, es)
  OBVIOUS
<1>4. Len(new) = d + 1 /\ new[1] = stk[1]
  BY <1>1, <1>3a
<1>5. M!Counts(acts)[<<k, es>>] = m
  BY <1>2a, <1>3
<1>6. PICK w : Chain(acts, new, w) /\ w[Len(stk) + 1] = k
  <2>1. Chain(acts, stk, v)
    BY DEF Covers
  <2>2. \E w : Chain(acts, Append(stk, es), w) /\ w[Len(stk) + 1] = k
    BY <1>2a, <1>5, <2>1, ChainCall
  <2> QED
    BY <1>3a, <2>2
<1>7. w[d + 1] = k
  BY <1>1, <1>6
<1>8. PICK a \in Nat, z \in Nat, q \in Nat : a = Len(stk[1]) /\ z = v[d] /\ q = k
  <2>1. stk[1] \in M!Entries
    BY <1>1
  <2> QED
    BY <1>2a, <2>1, EntriesParts, Limits
<1>9. Reached(d, a, c, z) /\ (d >= 2 => 2 * d <= z + 3)
  BY <1>1, <1>8 DEF Covers
<1>10. q = IF d = 1 THEN z + 1 ELSE z + 2
  BY <1>2a, <1>8
<1>11. Reached(d + 1, a, c, q) /\ 2 * (d + 1) <= q + 3
  BY <1>9, <1>10, ReachedCall
<1>12. Covers(acts, new, c, w)
  BY <1>4, <1>6, <1>7, <1>8, <1>11 DEF Covers
<1> QED
  BY <1>3, <1>3a, <1>12

LEMMA ReturnCovered ==
    ASSUME NEW acts, SettingsType(acts), NEW stk \in Seq(M!Entries), Len(stk) > 1, Present(acts, stk),
           stk[Len(stk)] = <<>>, NEW c \in Nat, NEW v, Covers(acts, stk, c, v)
    PROVE  c + 1 <= MaxCallCount /\ \E w : Covers(acts, After(stk, Len(stk) - 1), c + 1, w)
<1>1. PICK d \in Nat \ {0} : d + 1 = Len(stk) /\ d = Len(stk) - 1
  <2>1. Len(stk) \in Nat
    OBVIOUS
  <2> QED
    BY <2>1
<1>1a. PICK n \in Nat : n = Len(stk) /\ n = d + 1 /\ d # n /\ 1 # n /\ d \in 1..n /\ 1 \in 1..n /\ d + 1 \in 1..n
  <2>1. d + 1 \in Nat /\ d # d + 1 /\ 1 # d + 1 /\ d \in 1..(d + 1) /\ 1 \in 1..(d + 1) /\ d + 1 \in 1..(d + 1)
    OBVIOUS
  <2> QED
    BY <1>1, <2>1
<1>2. /\ d \in 1..Len(stk) /\ stk[d] # <<>> /\ stk[1] # <<>> /\ stk[d] \in M!Entries /\ stk[1] \in M!Entries
      /\ d + 1 \in 1..Len(stk)
  <2>1. d \in 1..Len(stk) /\ d + 1 \in 1..Len(stk) /\ 1 \in 1..Len(stk) /\ d # Len(stk) /\ 1 # Len(stk)
    BY <1>1a
  <2>2. stk[d] # <<>> /\ stk[1] # <<>>
    BY <2>1 DEF Present
  <2> QED
    BY <2>1, <2>2
<1>3. PICK m \in 0..MaxCallCount, z \in 0..MaxCallCount : m = v[d] /\ z = v[d + 1]
  BY <1>2 DEF Covers, Chain
<1>4. m = z
  <2>1. Left(stk, d + 1) = <<>>
    BY <1>1 DEF Left
  <2>2. M!Counts(acts)[<<z, <<>>>>] = m
    <3>1. d + 1 \in 2..Len(stk) /\ (d + 1) - 1 = d
      BY <1>1
    <3>2. M!Counts(acts)[<<v[d + 1], Left(stk, d + 1)>>] = v[(d + 1) - 1]
      BY <3>1 DEF Covers, Chain
    <3> QED
      BY <1>3, <2>1, <3>1, <3>2
  <2>3. <<>> \in M!Entries /\ z \in 0..M!TooMany
    BY <1>2, <1>1, <1>3, Limits
  <2>4. M!Counts(acts)[<<z, <<>>>>] = z
    BY <2>3, NothingLeft
  <2> QED
    BY <2>2, <2>4
<1>5. PICK new : new = After(stk, d)
  OBVIOUS
<1>6. /\ new \in Seq(M!Entries) /\ Len(new) = d
      /\ new[d] = Tail(stk[d]) /\ \A j \in 1..(d - 1) : new[j] = stk[j]
  BY <1>2, <1>5, AfterIs
<1>7. Left(stk, d) = Tail(stk[d])
  <2>1. d # Len(stk)
    BY <1>1a
  <2> QED
    BY <2>1 DEF Left
<1>8. d = 1 => Top(acts, Tail(stk[d]), m)
  BY <1>3, <1>7 DEF Covers, Chain
<1>9. d # 1 => M!Counts(acts)[<<m, Tail(stk[d])>>] = v[d - 1]
  <2>1. d # 1 => d \in 2..Len(stk)
    BY <1>1
  <2> QED
    BY <1>3, <1>7, <2>1 DEF Covers, Chain
<1>10. PICK w : Chain(acts, new, w) /\ w[d] = m
  <2>1. Goes(acts, stk, v, d, m)
    BY <1>2, <1>8, <1>9 DEF Goes
  <2> QED
    BY <1>5, <2>1, ChainAfter DEF Covers
<1>11. PICK a \in Nat \ {0}, b \in Nat : /\ a = Len(stk[1]) /\ b = Len(new[1])
                                         /\ (d = 1 /\ b = a - 1) \/ (d # 1 /\ b = a)
  <2>1. Len(stk[1]) \in Nat /\ Len(Tail(stk[1])) = Len(stk[1]) - 1 /\ Len(stk[1]) >= 1
    BY <1>2, EntriesParts
  <2>2. CASE d = 1
    <3>1. Len(new[1]) = Len(stk[1]) - 1
      BY <1>6, <2>1, <2>2
    <3> QED
      BY <2>1, <2>2, <3>1
  <2>3. CASE d # 1
    <3>1. 1 \in 1..(d - 1)
      BY <2>3
    <3>2. new[1] = stk[1]
      BY <1>6, <3>1
    <3> QED
      BY <2>1, <2>3, <3>2
  <2> QED
    BY <2>2, <2>3
<1>12. Reached(d + 1, a, c, m) /\ 2 * (d + 1) <= m + 3
  <2>1. Len(stk) >= 2 /\ Len(stk) = d + 1
    BY <1>1
  <2> QED
    BY <1>3, <1>4, <1>11, <2>1 DEF Covers
<1>13. Reached(d, b, c + 1, m) /\ (d >= 2 => 2 * d <= m + 3) /\ c + 1 <= MaxCallCount
  <2>1. m \in Nat /\ m <= MaxCallCount
    BY Limits
  <2> QED
    BY <1>11, <1>12, <2>1, ReachedReturn
<1>14. Covers(acts, new, c + 1, w)
  BY <1>6, <1>10, <1>11, <1>13 DEF Covers
<1> QED
  BY <1>1, <1>5, <1>13, <1>14

-----------------------------------------------------------------------------
(* The invariant of the macros.                                            *)

RunType == /\ SettingsType(settings) /\ stack \in Seq(M!Entries) /\ Len(stack) <= MaxDepth /\ Nested(stack)
           /\ count \in 0..MaxCallCount /\ outcome \in {"none", "running", "done", "thrown"}
           /\ outcome = "running" <=> stack # <<>>
           /\ accepted \in BOOLEAN /\ edits \in 0..MaxEdits

CheckAhead == M!Vouched /\ outcome = "running" =>
                 M!Complete /\ Present(settings, stack) /\ \E v : Covers(settings, stack, count, v)

MacroInv == RunType /\ M!AcceptedRuns /\ CheckAhead

LEMMA MacroInvType == MacroInv => M!TypeOK
<1> SUFFICES ASSUME MacroInv PROVE M!TypeOK
  OBVIOUS
<1>1. \A d \in 1..Len(stack) : stack[d] \in M!Entries
  BY DEF MacroInv, RunType
<1>2. \A a \in Actions : settings[a] \in M!Setting
  BY DEF MacroInv, RunType, SettingsType
<1> QED
  BY <1>1, <1>2 DEF MacroInv, RunType, M!TypeOK

LEMMA MacroInvInit == M!Init => MacroInv
<1> SUFFICES ASSUME M!Init PROVE MacroInv
  OBVIOUS
<1>1. SettingsType(settings)
  BY DEF M!Init, SettingsType, M!Absent, M!Setting
<1>2. stack = <<>> /\ stack \in Seq(M!Entries) /\ Len(stack) = 0 /\ count = 0 /\ outcome = "none" /\ accepted = FALSE /\ edits = 0
  BY DEF M!Init
<1>3. 0 \in 0..MaxCallCount /\ 0 <= MaxDepth /\ 0 \in 0..MaxEdits
  BY MacroAssumption
<1>4. Nested(stack)
  BY <1>2 DEF Nested
<1>5. RunType
  BY <1>1, <1>2, <1>3, <1>4 DEF RunType
<1> QED
  BY <1>2, <1>5 DEF MacroInv, CheckAhead, M!Vouched, M!AcceptedRuns

(* The web handlers.                                                       *)
LEMMA EditsKeep ==
    ASSUME MacroInv, NEW a \in Actions, NEW s \in M!Setting, settings' = [settings EXCEPT ![a] = s],
           M!Edited, UNCHANGED <<stack, count, outcome, accepted>>
    PROVE  MacroInv'
<1>1. SettingsType(settings')
  <2>1. DOMAIN settings' = Actions
    BY DEF MacroInv, RunType, SettingsType
  <2>2. \A b \in Actions : settings'[b] \in M!Setting
    BY DEF MacroInv, RunType, SettingsType
  <2> QED
    BY <2>1, <2>2 DEF SettingsType
<1>2. edits' \in 0..MaxEdits /\ (outcome = "running" => edits' # 0) /\ (outcome # "running" => edits' = edits)
  BY MacroAssumption DEF MacroInv, RunType, M!Edited
<1>3. RunType'
  BY <1>1, <1>2 DEF MacroInv, RunType
<1>4. M!AcceptedRuns'
  <2>1. CASE outcome = "running"
    BY <2>1 DEF M!AcceptedRuns
  <2>2. CASE outcome # "running"
    BY <1>2, <2>2 DEF MacroInv, M!AcceptedRuns, M!Vouched
  <2> QED
    BY <2>1, <2>2
<1>5. CheckAhead'
  BY <1>2 DEF CheckAhead, M!Vouched
<1> QED
  BY <1>3, <1>4, <1>5 DEF MacroInv

(* FireAction: the check begins with nothing counted.                      *)
LEMMA PresentIs ==
    ASSUME SettingsType(settings), M!Complete, NEW a \in Actions
    PROVE  \A i \in 1..Len(settings[a].entries) :
               settings[a].entries[i] # None => settings[settings[a].entries[i]].flag # "absent"
<1> SUFFICES ASSUME NEW i \in 1..Len(settings[a].entries), settings[a].entries[i] # None,
                    settings[settings[a].entries[i]].flag = "absent"
             PROVE  FALSE
  OBVIOUS
<1>1. settings[a].entries \in M!Entries
  BY MacroEntries
<1>2. settings[a].entries \in Seq(Actions \cup {None})
  BY <1>1, EntriesParts
<1>3. PICK b \in Actions : b = settings[a].entries[i]
  BY <1>2
<1>4. settings[b] = M!Absent
  BY <1>3, MacroEntries
<1> QED
  BY <1>3, <1>4 DEF M!Complete

LEMMA MacroFires ==
    ASSUME MacroInv, NEW a \in Actions, NEW n \in {0, 1}, M!FireAction(a, n)
    PROVE  MacroInv'
<1>1. /\ settings[a].flag = "macro" /\ stack' = <<settings[a].entries>> /\ count' = n /\ outcome' = "running"
      /\ accepted' = M!Accepted(a) /\ edits' = 0 /\ settings' = settings
  BY DEF M!FireAction
<1>2. PICK es \in M!Entries : es = settings[a].entries
  BY MacroEntries DEF MacroInv, RunType
<1>3. stack' = <<es>> /\ stack' \in Seq(M!Entries) /\ Len(stack') = 1 /\ stack'[1] = es /\ stack' # <<>>
  BY <1>1, <1>2
<1>4. RunType'
  <2>1. accepted' \in BOOLEAN
    BY <1>1 DEF M!Accepted, M!CheckEntries, M!Complete
  <2>2. SettingsType(settings')
    BY <1>1 DEF MacroInv, RunType
  <2>3. 1 <= MaxDepth /\ 0 \in 0..MaxEdits /\ n \in 0..MaxCallCount
    BY MacroAssumption
  <2>4. Nested(<<es>>)
    BY DEF Nested
  <2> QED
    BY <1>1, <1>3, <2>1, <2>2, <2>3, <2>4 DEF RunType
<1>5. M!AcceptedRuns'
  BY <1>1 DEF M!AcceptedRuns
<1>6. CheckAhead'
  <2> SUFFICES ASSUME accepted'
               PROVE  M!Complete' /\ Present(settings', stack') /\ \E v : Covers(settings', stack', count', v)
    BY DEF CheckAhead, M!Vouched
  <2>1. M!CheckEntries(settings, es) /\ M!Complete /\ SettingsType(settings)
    BY <1>1, <1>2 DEF M!Accepted, MacroInv, RunType
  <2>2. M!Complete'
    BY <1>1, <2>1 DEF M!Complete
  <2>3. Present(settings, <<es>>)
    BY <1>2, <2>1, PresentIs DEF Present
  <2>4. Top(settings, es, 0)
    BY <2>1, CheckedIsTop
  <2> DEFINE v == [j \in 1..1 |-> 0]
  <2>5. v[1] = 0 /\ v \in [1..1 -> 0..MaxCallCount]
    BY Limits
  <2>6. Chain(settings, <<es>>, v)
    <3>1. Left(<<es>>, 1) = es /\ Len(<<es>>) = 1
      BY DEF Left
    <3> HIDE DEF v
    <3> QED
      BY <2>4, <2>5, <3>1 DEF Chain
  <2>7. Reached(1, Len(es), n, 0)
    <3>1. Len(es) \in Nat /\ Len(es) <= MaxEntries /\ MaxEntries \in Nat
      BY EntriesParts, Limits
    <3> QED
      BY <3>1 DEF Reached
  <2>8. Covers(settings, <<es>>, n, v)
    <3>1. Len(<<es>>) = 1 /\ <<es>>[1] = es
      OBVIOUS
    <3> HIDE DEF v
    <3> QED
      BY <2>5, <2>6, <2>7, <3>1 DEF Covers
  <2> QED
    BY <1>1, <1>3, <2>2, <2>3, <2>8
<1> QED
  BY <1>4, <1>5, <1>6 DEF MacroInv

(* A step of the run: rest is the stack after it, counted or not.          *)
LEMMA RunKeeps ==
    ASSUME MacroInv, outcome = "running", NEW rest \in Seq(M!Entries), rest # <<>>, Len(rest) <= MaxDepth, Nested(rest),
           UNCHANGED <<settings, accepted, edits>>,
           \/ /\ stack' = rest /\ UNCHANGED <<count, outcome>>
              /\ M!Vouched => Present(settings, rest) /\ \E w : Covers(settings, rest, count, w)
           \/ /\ M!Counted(rest)
              /\ M!Vouched => /\ Present(settings, rest)
                              /\ count + 1 <= MaxCallCount /\ \E w : Covers(settings, rest, count + 1, w)
    PROVE  MacroInv'
<1>1. M!Complete <=> M!Complete'
  BY DEF M!Complete
<1>2. M!Vouched <=> M!Vouched'
  BY DEF M!Vouched
<1>3. CASE /\ stack' = rest /\ UNCHANGED <<count, outcome>>
           /\ M!Vouched => Present(settings, rest) /\ \E w : Covers(settings, rest, count, w)
  <2>1. RunType'
    BY <1>3 DEF MacroInv, RunType
  <2>2. M!AcceptedRuns'
    BY <1>3 DEF M!AcceptedRuns
  <2>3. CheckAhead'
    BY <1>1, <1>2, <1>3 DEF MacroInv, CheckAhead
  <2> QED
    BY <2>1, <2>2, <2>3 DEF MacroInv
<1>4. CASE /\ M!Counted(rest)
           /\ M!Vouched => /\ Present(settings, rest)
                           /\ count + 1 <= MaxCallCount /\ \E w : Covers(settings, rest, count + 1, w)
  <2>1. CASE count + 1 > MaxCallCount
    <3>1. outcome' = "thrown" /\ stack' = <<>> /\ count' = count
      BY <1>4, <2>1, Limits DEF M!Counted, MacroInv, RunType
    <3>2. ~ M!Vouched
      BY <1>4, <2>1, Limits DEF MacroInv, RunType
    <3>3. <<>> \in Seq(M!Entries) /\ Len(<<>>) = 0 /\ 0 <= MaxDepth
      BY MacroAssumption
    <3>4. RunType'
      BY <3>1, <3>3 DEF MacroInv, RunType, Nested
    <3> QED
      BY <1>2, <3>1, <3>2, <3>4 DEF MacroInv, M!AcceptedRuns, CheckAhead
  <2>2. CASE count + 1 <= MaxCallCount
    <3>1. outcome' = outcome /\ stack' = rest /\ count' = count + 1 /\ count' \in 0..MaxCallCount
      BY <1>4, <2>2, Limits DEF M!Counted, MacroInv, RunType
    <3>2. RunType'
      BY <3>1 DEF MacroInv, RunType
    <3>3. M!AcceptedRuns'
      BY <3>1 DEF M!AcceptedRuns
    <3>4. CheckAhead'
      BY <1>1, <1>2, <1>4, <3>1 DEF MacroInv, CheckAhead
    <3> QED
      BY <3>2, <3>3, <3>4 DEF MacroInv
  <2> QED
    BY <2>1, <2>2, Limits DEF MacroInv, RunType
<1> QED
  BY <1>3, <1>4

LEMMA LastIs ==
    ASSUME MacroInv, outcome = "running"
    PROVE  /\ stack \in Seq(M!Entries) /\ stack # <<>> /\ Len(stack) \in 1..MaxDepth /\ M!Last(stack) = stack[Len(stack)]
           /\ SettingsType(settings) /\ count \in Nat /\ Nested(stack)
           /\ M!Vouched => Present(settings, stack) /\ \E v : Covers(settings, stack, count, v)
<1>1. stack \in Seq(M!Entries) /\ stack # <<>> /\ Len(stack) <= MaxDepth
  BY DEF MacroInv, RunType
<1>2. Len(stack) \in 1..MaxDepth
  BY <1>1, MacroAssumption
<1> QED
  BY <1>1, <1>2, Limits DEF MacroInv, RunType, CheckAhead, M!Last

LEMMA SkipKeeps ==
    ASSUME MacroInv, M!SkipNone \/ M!RunEntry
    PROVE  MacroInv'
<1>1. outcome = "running" /\ M!Last(stack) # <<>>
  BY DEF M!SkipNone, M!RunEntry, M!AtEntry, M!Running
<1>2. /\ stack \in Seq(M!Entries) /\ stack # <<>> /\ Len(stack) \in 1..MaxDepth /\ M!Last(stack) = stack[Len(stack)]
      /\ SettingsType(settings) /\ count \in Nat /\ Nested(stack)
      /\ M!Vouched => Present(settings, stack) /\ \E v : Covers(settings, stack, count, v)
  BY <1>1, LastIs
<1>3. PICK d \in 1..Len(stack) : d = Len(stack) /\ d <= MaxDepth
  BY <1>2
<1>4. PICK rest : rest = After(stack, d) /\ rest = M!AfterEntry(d)
  BY DEF After, M!AfterEntry
<1>5. rest \in Seq(M!Entries) /\ Len(rest) = d /\ rest # <<>> /\ Nested(rest)
  <2>1. stack[d] # <<>>
    BY <1>1, <1>2, <1>3
  <2>2. rest \in Seq(M!Entries) /\ Len(rest) = d /\ Nested(rest)
    BY <1>2, <1>4, <2>1, AfterIs, NestedAfter
  <2>3. d # 0
    BY <1>3
  <2> QED
    BY <2>2, <2>3
<1>6. M!Vouched => Present(settings, rest)
  BY <1>1, <1>2, <1>3, <1>4, PresentAfter
<1>7. CASE M!SkipNone
  <2>1. /\ Head(stack[Len(stack)]) = None /\ stack' = rest
        /\ UNCHANGED <<settings, accepted, edits>> /\ UNCHANGED <<count, outcome>>
    BY <1>2, <1>3, <1>4, <1>7 DEF M!SkipNone
  <2>2. M!Vouched => \E w : Covers(settings, rest, count, w)
    BY <1>1, <1>2, <1>3, <1>4, <2>1, EntryCovered
  <2> QED
    BY <1>1, <1>3, <1>5, <1>6, <2>1, <2>2, RunKeeps
<1>8. CASE M!RunEntry
  <2>1. Head(stack[Len(stack)]) # None /\ M!Counted(rest) /\ UNCHANGED <<settings, accepted, edits>>
    BY <1>2, <1>3, <1>4, <1>8 DEF M!RunEntry
  <2>2. M!Vouched => count + 1 <= MaxCallCount /\ \E w : Covers(settings, rest, count + 1, w)
    BY <1>1, <1>2, <1>3, <1>4, <2>1, EntryCovered
  <2> QED
    BY <1>1, <1>3, <1>5, <1>6, <2>1, <2>2, RunKeeps
<1> QED
  BY <1>7, <1>8

LEMMA CallKeepsMacro ==
    ASSUME MacroInv, M!CallMacro
    PROVE  MacroInv'
<1>1. outcome = "running" /\ M!Last(stack) # <<>>
  BY DEF M!CallMacro, M!AtEntry, M!Running
<1>2. /\ stack \in Seq(M!Entries) /\ stack # <<>> /\ Len(stack) \in 1..MaxDepth /\ M!Last(stack) = stack[Len(stack)]
      /\ SettingsType(settings) /\ count \in Nat /\ Nested(stack)
      /\ M!Vouched => Present(settings, stack) /\ \E v : Covers(settings, stack, count, v)
  BY <1>1, LastIs
<1>3. PICK e : e = Head(stack[Len(stack)])
  OBVIOUS
<1>4. /\ e # None /\ settings[e].flag = "macro" /\ Len(stack) < MaxDepth
      /\ stack' = Append(stack, settings[e].entries) /\ UNCHANGED <<settings, accepted, edits>> /\ UNCHANGED <<count, outcome>>
  BY <1>2, <1>3 DEF M!CallMacro
<1>5. e \in Actions
  <2>1. stack[Len(stack)] \in M!Entries /\ stack[Len(stack)] # <<>>
    BY <1>1, <1>2
  <2> QED
    BY <1>3, <1>4, <2>1, EntriesParts
<1>6. PICK es \in M!Entries : es = settings[e].entries
  BY <1>2, <1>5, MacroEntries
<1>7. PICK rest : rest = Append(stack, es)
  OBVIOUS
<1>8. rest \in Seq(M!Entries) /\ rest # <<>> /\ Len(rest) <= MaxDepth /\ Nested(rest)
  <2>1. rest \in Seq(M!Entries) /\ rest # <<>> /\ Len(rest) <= MaxDepth
    BY <1>2, <1>4, <1>7, MacroAssumption
  <2> QED
    BY <1>1, <1>2, <1>7, <2>1, NestedCall
<1>9. M!Vouched => Present(settings, rest)
  <2> SUFFICES ASSUME M!Vouched PROVE Present(settings, rest)
    OBVIOUS
  <2>1. M!Complete
    BY <1>1 DEF MacroInv, CheckAhead
  <2>2. \A i \in 1..Len(es) : es[i] # None => settings[es[i]].flag # "absent"
    BY <1>2, <1>5, <1>6, <2>1, PresentIs
  <2> QED
    BY <1>1, <1>2, <1>7, <2>2, PresentCall
<1>10. M!Vouched => \E w : Covers(settings, rest, count, w)
  <2> SUFFICES ASSUME M!Vouched PROVE \E w : Covers(settings, rest, count, w)
    OBVIOUS
  <2>1. PICK v : Covers(settings, stack, count, v)
    BY <1>2
  <2>2. \E w : Covers(settings, Append(stack, settings[e].entries), count, w)
    BY <1>1, <1>2, <1>3, <1>4, <1>5, <2>1, CallCovered
  <2> QED
    BY <1>6, <1>7, <2>2
<1>11. stack' = rest
  BY <1>4, <1>6, <1>7
<1> QED
  BY <1>1, <1>4, <1>8, <1>9, <1>10, <1>11, RunKeeps

LEMMA ReturnKeeps ==
    ASSUME MacroInv, M!ReturnMacro
    PROVE  MacroInv'
<1>1. /\ outcome = "running" /\ M!Last(stack) = <<>> /\ Len(stack) > 1 /\ UNCHANGED <<settings, accepted, edits>>
      /\ M!Counted(M!AfterEntry(Len(stack) - 1))
  BY DEF M!ReturnMacro, M!Running
<1>2. /\ stack \in Seq(M!Entries) /\ stack # <<>> /\ Len(stack) \in 1..MaxDepth /\ M!Last(stack) = stack[Len(stack)]
      /\ SettingsType(settings) /\ count \in Nat /\ Nested(stack)
      /\ M!Vouched => Present(settings, stack) /\ \E v : Covers(settings, stack, count, v)
  BY <1>1, LastIs
<1>3. PICK d \in 1..Len(stack) : d = Len(stack) - 1 /\ d <= MaxDepth /\ d # Len(stack) /\ d # 0
  <2>1. Len(stack) - 1 \in 1..Len(stack) /\ Len(stack) - 1 <= MaxDepth /\ Len(stack) - 1 # Len(stack) /\ Len(stack) - 1 # 0
    BY <1>1, <1>2, MacroAssumption
  <2> QED
    BY <2>1
<1>4. PICK rest : rest = After(stack, d) /\ rest = M!AfterEntry(d)
  BY DEF After, M!AfterEntry
<1>5. stack[d] # <<>>
  BY <1>2, <1>3 DEF Nested
<1>6. rest \in Seq(M!Entries) /\ Len(rest) = d /\ rest # <<>> /\ Nested(rest)
  <2>1. rest \in Seq(M!Entries) /\ Len(rest) = d /\ Nested(rest)
    BY <1>2, <1>4, <1>5, AfterIs, NestedAfter
  <2> QED
    BY <1>3, <2>1
<1>7. M!Vouched => Present(settings, rest)
  BY <1>2, <1>4, <1>5, PresentAfter
<1>8. M!Vouched => count + 1 <= MaxCallCount /\ \E w : Covers(settings, rest, count + 1, w)
  <2> SUFFICES ASSUME M!Vouched PROVE count + 1 <= MaxCallCount /\ \E w : Covers(settings, rest, count + 1, w)
    OBVIOUS
  <2>1. PICK v : Covers(settings, stack, count, v)
    BY <1>2
  <2>2. stack[Len(stack)] = <<>> /\ Present(settings, stack)
    BY <1>1, <1>2
  <2>3. count + 1 <= MaxCallCount /\ \E w : Covers(settings, After(stack, Len(stack) - 1), count + 1, w)
    BY <1>1, <1>2, <2>1, <2>2, ReturnCovered
  <2> QED
    BY <1>3, <1>4, <2>3
<1>9. M!Counted(rest)
  BY <1>1, <1>3, <1>4
<1> QED
  BY <1>1, <1>3, <1>6, <1>7, <1>8, <1>9, RunKeeps

LEMMA EndKeeps ==
    ASSUME MacroInv, M!MacroEnd
    PROVE  MacroInv'
<1>1. stack' = <<>> /\ outcome' = "done" /\ UNCHANGED <<settings, count, accepted, edits>>
  BY DEF M!MacroEnd
<1>2. <<>> \in Seq(M!Entries) /\ Len(<<>>) = 0 /\ 0 <= MaxDepth
  BY MacroAssumption
<1>3. RunType'
  BY <1>1, <1>2 DEF MacroInv, RunType, Nested
<1> QED
  BY <1>1, <1>3 DEF MacroInv, M!AcceptedRuns, CheckAhead

LEMMA MacroInvNext == MacroInv /\ M!Next => MacroInv'
<1> SUFFICES ASSUME MacroInv, M!Next PROVE MacroInv'
  OBVIOUS
<1>1. ASSUME NEW a \in Actions, NEW s \in M!Setting, M!remocon_update_elec_action(a, s) PROVE MacroInv'
  BY <1>1, EditsKeep DEF M!remocon_update_elec_action
<1>2. ASSUME NEW a \in Actions, M!remocon_delete_elec_action(a) PROVE MacroInv'
  <2>1. M!Absent \in M!Setting
    BY DEF M!Absent, M!Setting
  <2> QED
    BY <1>2, <2>1, EditsKeep DEF M!remocon_delete_elec_action
<1>3. ASSUME NEW a \in Actions, NEW n \in {0, 1}, M!FireAction(a, n) PROVE MacroInv'
  BY <1>3, MacroFires
<1>4. CASE M!Runner
  BY <1>4, SkipKeeps, CallKeepsMacro, ReturnKeeps, EndKeeps DEF M!Runner
<1> QED
  BY <1>1, <1>2, <1>3, <1>4 DEF M!Next

LEMMA MacroInvSafe == MacroInv => M!AcceptedRuns /\ M!AcceptedDepth
<1> SUFFICES ASSUME MacroInv, M!Vouched PROVE Len(stack) <= MaxCallCount
  BY DEF MacroInv, M!AcceptedDepth
<1>1. CASE outcome # "running"
  BY <1>1, Limits DEF MacroInv, RunType
<1>2. CASE outcome = "running"
  <2>1. PICK v : Covers(settings, stack, count, v)
    BY <1>2 DEF MacroInv, CheckAhead
  <2>2. PICK d \in Nat \ {0} : d = Len(stack)
    BY <1>2 DEF MacroInv, RunType
  <2>3. PICK m \in 0..MaxCallCount : m = v[d]
    <3>1. d \in 1..Len(stack)
      BY <2>2
    <3> QED
      BY <2>1, <3>1 DEF Covers, Chain
  <2>4. d >= 2 => 2 * d <= m + 3
    BY <2>1, <2>2, <2>3 DEF Covers
  <2>5. d <= MaxCallCount
    BY <2>4, Limits
  <2> QED
    BY <2>2, <2>5
<1> QED
  BY <1>1, <1>2

LEMMA MacroInvAlways == Spec => [](part = "macro" => MacroInv)
<1> DEFINE Inv == part = "macro" => MacroInv
<1>1. Init => Inv
  BY MacroInvInit DEF Init
<1>2. Inv /\ [Next]_vars => Inv'
  <2> SUFFICES ASSUME Inv, [Next]_vars PROVE Inv'
    OBVIOUS
  <2>1. CASE part = "macro" /\ M!Next /\ UNCHANGED part
    BY <2>1, MacroInvNext
  <2>2. CASE UNCHANGED <<part, mvars>>
    BY <2>2 DEF mvars, MacroInv, RunType, CheckAhead, M!AcceptedRuns, M!Vouched, M!Complete
  <2>3. CASE part # "macro" /\ UNCHANGED part
    BY <2>3
  <2> QED
    BY <2>1, <2>2, <2>3 DEF Next, vars
<1> QED
  BY <1>1, <1>2, PTL DEF Spec

(* A macro that the check of the web handler accepts is not stopped by the *)
(* limit of run_macroE, and does not nest deeper than it (Fire.cpp:431-    *)
(* 455, ScriptWebRunner.cpp:836), with any number of actions, of entries   *)
(* and any limit beyond the entries of one macro.                          *)
THEOREM AcceptedMacrosRun == Spec => []AcceptedRuns
<1>1. (part = "macro" => MacroInv) => AcceptedRuns
  BY MacroInvSafe DEF AcceptedRuns
<1> QED
  BY <1>1, MacroInvAlways, PTL

-----------------------------------------------------------------------------
(* The types of all of them.                                               *)

(* The rooms.                                                              *)
RoomsBounds == /\ part = "rooms" => RP!RoomBounds
               /\ part = "pair" => PP!RoomBounds

LEMMA RoomsBoundsInit == Init => RoomsBounds
<1>1. RP!Bounds /\ PP!Bounds
  BY RoomAssumption DEF RP!Bounds, PP!Bounds
<1> QED
  BY <1>1, SameInit, RP!RoomBoundsInit, PP!RoomBoundsInit DEF Init, RoomsBounds

LEMMA RoomsBoundsNext == RoomsBounds /\ [Next]_vars => RoomsBounds'
<1> SUFFICES ASSUME RoomsBounds, [Next]_vars PROVE RoomsBounds'
  OBVIOUS
<1>1. part' = part
  BY DEF Next, vars
<1>2. RP!Bounds /\ PP!Bounds
  BY RoomAssumption DEF RP!Bounds, PP!Bounds
<1>3. CASE part = "rooms"
  <2>1. [RP!Next]_(RP!vars)
    BY <1>3, SameNext DEF Next, vars, rvars, RP!vars
  <2> QED
    BY <1>1, <1>2, <1>3, <2>1, RP!RoomBoundsNext DEF RoomsBounds
<1>4. CASE part = "pair"
  <2>1. [PP!Next]_(PP!vars)
    BY <1>4, SameNext DEF Next, vars, rvars, PP!vars
  <2> QED
    BY <1>1, <1>2, <1>4, <2>1, PP!RoomBoundsNext DEF RoomsBounds
<1> QED
  BY <1>1, <1>3, <1>4 DEF RoomsBounds

LEMMA RoomsBoundsType == /\ RP!RoomBounds => R!TypeOK
                         /\ PP!RoomBounds => P!TypeOK
<1>1. RP!TypeOK <=> R!TypeOK
  BY DEF RP!TypeOK, R!TypeOK, RP!Card, R!Card, RP!Table, R!Table, RP!NoCard, R!NoCard
<1>2. PP!TypeOK <=> P!TypeOK
  BY DEF PP!TypeOK, P!TypeOK, PP!Card, P!Card, PP!Table, P!Table, PP!NoCard, P!NoCard
<1> QED
  BY <1>1, <1>2, RP!BoundsType, PP!BoundsType

(* The sensor record.                                                      *)
LEMMA BlankIsData == G!Blank \in G!Data
BY DEF G!Blank, G!Data

LEMMA WriteDataType ==
    ASSUME G!TypeOK, NEW val \in Values, G!WriteData(val)
    PROVE  RecStartTime' \in 0..clock /\ FileData' \in G!Data /\ log' \in G!Data
<1> DEFINE again == [b \in G!Blocks |-> IF b < SpanSec * 3 THEN G!Invalid ELSE FileData[b]]
           moved == [b \in G!Blocks |-> IF b >= SpanSec * 2 THEN G!Invalid
                                        ELSE IF b < RotateSpan * 2 THEN FileData[b + RotateSpan]
                                        ELSE FileData[b]]
<1>1. FileData \in G!Data /\ log \in G!Data /\ RecStartTime \in 0..clock /\ clock \in Nat
  BY RecordAssumption DEF G!TypeOK
<1>2. again \in G!Data
  BY <1>1 DEF G!Data
<1>3. moved \in G!Data
  <2>1. \A b \in G!Blocks : b < RotateSpan * 2 => b + RotateSpan \in G!Blocks
    BY RecordAssumption DEF G!Blocks, G!Size
  <2> QED
    BY <1>1, <2>1 DEF G!Data
<1>4. \A d \in G!Data : \A b : [d EXCEPT ![b] = val] \in G!Data
  BY DEF G!Data
<1>5. \/ \E b : FileData' = [FileData EXCEPT ![b] = val] /\ log' = [log EXCEPT ![b] = val] /\ UNCHANGED RecStartTime
      \/ RecStartTime' = clock /\ FileData' = [again EXCEPT ![0] = val] /\ log' = [G!Blank EXCEPT ![0] = val]
      \/ FileData' = moved /\ log' = G!Blank /\ UNCHANGED RecStartTime
  BY DEF G!WriteData
<1> HIDE DEF again, moved
<1> QED
  BY <1>1, <1>2, <1>3, <1>4, <1>5, BlankIsData

LEMMA SaveType ==
    ASSUME FileData' \in G!Data, log' \in G!Data, RecStartTime' \in 0..clock, G!Save
    PROVE  /\ file'.start \in 0..clock /\ file'.data \in [0..(G!Half - 1) -> Values \cup {G!Invalid, 0}]
           /\ savedlog' \in G!Data
<1>1. file'.start = RecStartTime' /\ file'.data = [b \in InFile |-> FileData'[b]] /\ savedlog' = log'
  BY DEF G!Save, G!Saved, InFile
<1>2. file'.data \in [InFile -> Values \cup {G!Invalid, 0}]
  BY <1>1, HalfIsLess DEF G!Data
<1> QED
  BY <1>1, <1>2 DEF InFile

LEMMA RecordTypeNext == G!TypeOK /\ (G!Next \/ UNCHANGED gvars) => G!TypeOK'
<1> SUFFICES ASSUME G!TypeOK, G!Next \/ UNCHANGED gvars PROVE G!TypeOK'
  OBVIOUS
<1>t. /\ clock \in 0..MaxTime /\ RecStartTime \in 0..clock /\ FileData \in G!Data /\ log \in G!Data
      /\ savedlog \in G!Data /\ rounds \in 0..(SavePeriod - 1) /\ restarted \in BOOLEAN
      /\ \/ file = G!NoFile
         \/ file.start \in 0..clock /\ file.data \in [0..(G!Half - 1) -> Values \cup {G!Invalid, 0}]
  BY DEF G!TypeOK
<1>1. ASSUME NEW val \in Values, G!ThreadMain(val) PROVE G!TypeOK'
  <2>1. /\ G!WriteData(val) /\ UNCHANGED <<clock, restarted>>
        /\ \/ rounds' = 0 /\ G!Save
           \/ rounds + 1 < SavePeriod /\ rounds' = rounds + 1 /\ UNCHANGED <<file, savedlog>>
    BY <1>1, <1>t, RecordAssumption DEF G!ThreadMain
  <2>2. RecStartTime' \in 0..clock /\ FileData' \in G!Data /\ log' \in G!Data
    BY <2>1, WriteDataType
  <2>3. rounds' \in 0..(SavePeriod - 1)
    BY <1>t, <2>1, RecordAssumption
  <2>4. CASE G!Save
    BY <1>t, <2>1, <2>2, <2>3, <2>4, SaveType DEF G!TypeOK
  <2>5. CASE UNCHANGED <<file, savedlog>>
    BY <1>t, <2>1, <2>2, <2>3, <2>5 DEF G!TypeOK
  <2> QED
    BY <2>1, <2>4, <2>5
<1>2. ASSUME NEW val \in Values, G!getSensorNow(val) PROVE G!TypeOK'
  <2>1. G!WriteData(val) /\ UNCHANGED <<clock, file, rounds, savedlog, restarted>>
    BY <1>2 DEF G!getSensorNow
  <2>2. RecStartTime' \in 0..clock /\ FileData' \in G!Data /\ log' \in G!Data
    BY <2>1, WriteDataType
  <2> QED
    BY <1>t, <2>1, <2>2 DEF G!TypeOK
<1>3. CASE G!Flush
  <2>1. UNCHANGED <<clock, RecStartTime, FileData, log, rounds, restarted>> /\ G!Save
    BY <1>3 DEF G!Flush
  <2> QED
    BY <1>t, <2>1, SaveType DEF G!TypeOK
<1>4. CASE G!Restart
  <2>1. rounds' \in 0..(SavePeriod - 1) /\ UNCHANGED <<clock, file, savedlog>>
    BY <1>4, RecordAssumption DEF G!Restart
  <2>2. CASE file = G!NoFile
    <3>1. RecStartTime' = clock /\ FileData' = G!Blank /\ log' = G!Blank /\ UNCHANGED restarted
      BY <1>4, <2>2 DEF G!Restart
    <3>2. clock \in 0..clock
      BY <1>t, RecordAssumption
    <3> QED
      BY <1>t, <2>1, <2>2, <3>1, <3>2, BlankIsData DEF G!TypeOK
  <2>3. CASE file # G!NoFile
    <3>1. /\ RecStartTime' = file.start /\ log' = savedlog /\ restarted' = TRUE
          /\ FileData' = [b \in G!Blocks |-> IF b < G!Half THEN file.data[b] ELSE 0]
      BY <1>4, <2>3 DEF G!Restart
    <3>2. \A b \in G!Blocks : b < G!Half => b \in 0..(G!Half - 1)
      BY RecordAssumption DEF G!Blocks, G!Half, G!Size
    <3>3. FileData' \in G!Data
      BY <1>t, <2>3, <3>1, <3>2 DEF G!Data
    <3> QED
      BY <1>t, <2>1, <2>3, <3>1, <3>3 DEF G!TypeOK
  <2> QED
    BY <2>2, <2>3
<1>5. ASSUME NEW d \in 1..MaxStep, G!Tick(d) PROVE G!TypeOK'
  <2>1. /\ clock' = clock + d /\ clock + d <= MaxTime
        /\ UNCHANGED <<RecStartTime, FileData, file, rounds, log, savedlog, restarted>>
    BY <1>5 DEF G!Tick
  <2>2. clock' \in 0..MaxTime /\ \A t \in 0..clock : t \in 0..clock'
    BY <1>t, <2>1, RecordAssumption
  <2> QED
    BY <1>t, <2>1, <2>2 DEF G!TypeOK
<1>6. CASE UNCHANGED gvars
  BY <1>6 DEF gvars, G!TypeOK
<1> QED
  BY <1>1, <1>2, <1>3, <1>4, <1>5, <1>6 DEF G!Next

LEMMA RecordTypeInit == G!Init => G!TypeOK
<1> SUFFICES ASSUME G!Init PROVE G!TypeOK
  OBVIOUS
<1>1. clock \in 0..MaxTime /\ RecStartTime \in 0..clock /\ rounds \in 0..(SavePeriod - 1)
  BY RecordAssumption DEF G!Init
<1>2. FileData \in G!Data /\ log \in G!Data /\ savedlog \in G!Data /\ file = G!NoFile /\ restarted = FALSE
  BY BlankIsData DEF G!Init
<1> QED
  BY <1>1, <1>2 DEF G!TypeOK

(* The calendar. The next time is within a day: the time a day before it   *)
(* is named too, and it is the first.                                      *)
LEMMA NextWithinDay ==
    ASSUME NEW t \in Nat, NEW s \in D!Setting
    PROVE  D!convertTriggerDate(t, s) <= t + D!Day
<1>1. PICK next \in Nat : next = D!convertTriggerDate(t, s)
  BY NextIsFirst
<1>2. t < next /\ Named(next, s) /\ \A c \in Nat : Named(c, s) /\ t < c => next <= c
  BY <1>1, NextIsFirst
<1>3. PICK d, h : Parts(d, h, s.minute, 0) /\ next = At(d, h, s.minute, 0) /\ HourFits(h, s)
  BY <1>1, <1>2, NamedParts
<1>4. D!Day \in Nat \ {0}
  BY Lengths
<1> SUFFICES ASSUME next > t + D!Day PROVE FALSE
  BY <1>1, <1>4
<1>5. d \in Nat /\ 0 \in 0..(SecondsPerMinute - 1)
  BY <1>3 DEF Parts
<1>6. PICK rest \in 0..(D!Day - 1) : rest = h * D!Hour + (s.minute * SecondsPerMinute + 0)
  BY <1>3, Remainders
<1>7. next = d * D!Day + rest
  BY <1>3, <1>6 DEF At
<1>8. PICK e \in Nat : d = e + 1
  <2>1. d # 0
    BY <1>4, <1>6, <1>7
  <2> QED
    BY <1>5, <2>1
<1>9. PICK before \in Nat : before = At(e, h, s.minute, 0) /\ Named(before, s)
  <2>1. Parts(e, h, s.minute, 0)
    BY <1>3 DEF Parts
  <2> QED
    BY <1>3, <2>1, Remainders, AtIsNamed
<1>10. before = e * D!Day + rest /\ e * D!Day \in Nat /\ d * D!Day = e * D!Day + D!Day
  BY <1>4, <1>6, <1>8, <1>9 DEF At
<1>11. next = before + D!Day
  BY <1>4, <1>6, <1>7, <1>10
<1>12. t < before /\ before < next
  BY <1>4, <1>9, <1>11
<1> QED
  BY <1>2, <1>9, <1>12

(* All that is registered, fired or overtaken is a time.                   *)
ScheduleBounds == due \in 0..((MaxDays + 1) * D!Day) /\ overtaken \subseteq D!Times

LEMMA NextInBounds ==
    ASSUME setting \in D!Setting, now \in D!Times
    PROVE  D!convertTriggerDate(now, setting) \in 0..((MaxDays + 1) * D!Day)
<1>1. PICK next \in Nat : next = D!convertTriggerDate(now, setting)
  BY NextIsFirst, TimesAreNumbers
<1>2. PICK long \in Nat : long = MaxDays * D!Day
  BY Lengths, CalendarAssumption
<1>3. now \in Nat /\ now <= long
  BY <1>2 DEF D!Times
<1>4. next <= now + D!Day
  BY <1>1, <1>3, NextWithinDay
<1>5. (MaxDays + 1) * D!Day = long + D!Day
  BY <1>2, Lengths, CalendarAssumption
<1>6. next <= long + D!Day
  BY <1>3, <1>4, Lengths
<1> QED
  BY <1>1, <1>2, <1>5, <1>6, Lengths

LEMMA ScheduleBoundsInit == D!Init => ScheduleBounds
<1> SUFFICES ASSUME D!Init PROVE ScheduleBounds
  OBVIOUS
<1>1. setting \in D!Setting /\ now \in D!Times
  BY ScheduleInvInit DEF ScheduleInv
<1> QED
  BY <1>1, NextInBounds DEF D!Init, ScheduleBounds

LEMMA ScheduleBoundsNext ==
    ScheduleInv /\ ScheduleBounds /\ (D!Next \/ UNCHANGED dvars) => ScheduleBounds'
<1> SUFFICES ASSUME ScheduleInv, ScheduleBounds, D!Next \/ UNCHANGED dvars PROVE ScheduleBounds'
  OBVIOUS
<1>1. setting \in D!Setting /\ now \in D!Times /\ due \in Nat
  BY DEF ScheduleInv
<1>2. CASE D!Fire
  BY <1>1, <1>2, NextInBounds DEF D!Fire, ScheduleBounds
<1>3. CASE D!Reload
  <2>1. due <= now => due \in D!Times
    BY <1>1, TimesAreNumbers
  <2> QED
    BY <1>1, <1>3, <2>1, NextInBounds DEF D!Reload, ScheduleBounds
<1>4. CASE D!Tick \/ UNCHANGED dvars
  BY <1>4 DEF D!Tick, dvars, ScheduleBounds
<1> QED
  BY <1>2, <1>3, <1>4 DEF D!Next

LEMMA ScheduleType == ScheduleInv /\ ScheduleBounds => D!TypeOK
<1> SUFFICES ASSUME ScheduleInv, ScheduleBounds PROVE D!TypeOK
  OBVIOUS
<1>1. lastfire \in D!Times /\ since \in D!Times
  BY TimesAreNumbers DEF ScheduleInv
<1>2. fired \subseteq D!Times
  BY WantedIsNamed DEF ScheduleInv
<1> QED
  BY <1>1, <1>2 DEF ScheduleInv, ScheduleBounds, D!TypeOK

(* For every value of the constants, each of the five components keeps to  *)
(* its types, the bounds on clocks, rounds, versions and times included    *)
(* (Config.h, Fire.cpp, ScriptWebRunnerTrigger.cpp, SensorGraph.h,         *)
(* MultiRoom.h).                                                           *)
THEOREM TypesHold == Spec => []TypeOK
<1> DEFINE Inv == /\ part = "config" => ConfigInv
                  /\ part = "schedule" => ScheduleInv /\ ScheduleBounds
                  /\ part = "graph" => G!TypeOK
                  /\ RoomsBounds
<1>1. Init => Inv
  BY ConfigInvInit, ScheduleInvInit, ScheduleBoundsInit, RecordTypeInit, RoomsBoundsInit DEF Init
<1>2. Inv /\ [Next]_vars => Inv'
  <2> SUFFICES ASSUME Inv, [Next]_vars PROVE Inv'
    OBVIOUS
  <2>1. part' = part
    BY DEF Next, vars
  <2>2. part = "config" => F!Next \/ UNCHANGED fvars
    BY DEF Next, vars
  <2>3. part = "schedule" => D!Next \/ UNCHANGED dvars
    BY DEF Next, vars
  <2>4. part = "graph" => G!Next \/ UNCHANGED gvars
    BY DEF Next, vars
  <2> QED
    BY <2>1, <2>2, <2>3, <2>4, ConfigInvNext, ScheduleInvNext, ScheduleBoundsNext, RecordTypeNext, RoomsBoundsNext
<1>3. Inv /\ (part = "macro" => MacroInv) => TypeOK
  <2>1. ConfigInv => F!TypeOK
    BY DEF ConfigInv
  <2> QED
    BY <2>1, MacroInvType, ScheduleType, RoomsBoundsType DEF TypeOK, RoomsBounds
<1> QED
  BY <1>1, <1>2, <1>3, MacroInvAlways, PTL DEF Spec
=============================================================================
