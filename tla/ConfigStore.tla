---------------------------- MODULE ConfigStore ----------------------------
(***************************************************************************)
(* The settings: a map in memory, shared by all threads under a lock, and  *)
(* the file config.conf. A save reads the old file line by line, keeps its *)
(* comments, takes over, rewrites or drops each setting in it, appends     *)
(* what is new, writes all that to config.conf.tmp and copies it over      *)
(* config.conf. The program reads config.conf when it starts, and never    *)
(* the other file.                                                         *)
(*                                                                         *)
(* A value is a text that may have blanks around it, which a load takes    *)
(* off. Keys and values with a line break are refused by Set, and left out *)
(* here. A power cut tears the file that is being written, at any place;   *)
(* what was written before is on the disk.                                 *)
(***************************************************************************)
EXTENDS Naturals, Sequences, SequencesExt

CONSTANTS Keys,
          None,        \* no value
          Tree,        \* the keys with the prefix RemoveTree is called with
          Texts,
          Garbled,     \* a text cut in two, or run together with the next line
          Threads,
          Files,       \* config.conf, as it may have been edited by hand
          MaxCuts      \* bound on the power cuts

Value == [text : Texts \cup {Garbled}, padded : BOOLEAN]
chop(v) == IF v = None THEN v ELSE [v EXCEPT !.padded = FALSE]
Map == [Keys -> Value \cup {None}]
Empty == [k \in Keys |-> None]

(* A line is ended by a line break, but for the last one of a file, which  *)
(* may lack it. Empty lines count as comments, and those that follow four  *)
(* others as garbage.                                                      *)
Pair(k, v) == [kind |-> "pair", key |-> k, value |-> v, ended |-> TRUE]
Comment == [kind : {"comment"}, ended : BOOLEAN]
Garbage == [kind : {"garbage"}, ended : BOOLEAN]     \* no comment, and no = in it
Line == [kind : {"pair"}, key : Keys, value : Value, ended : BOOLEAN] \cup Comment \cup Garbage

VARIABLES ConfigData, conf, tmp,
          phase,         \* of the save under way, whose thread holds the lock
          at,            \* the lines of config.conf it has read
          localSetting,  \* the settings it has not written yet
          out,           \* what it has written, up to the buffers
          todo,          \* what each thread in RemoveTree still removes
          saved,         \* the map that config.conf was written from
          written,       \* config.conf was written by a save
          cuts

save == <<at, localSetting, out>>
vars == <<ConfigData, conf, tmp, phase, save, todo, saved, written, cuts>>

TypeOK == /\ ConfigData \in Map /\ saved \in Map /\ localSetting \in Map
          /\ conf \in Seq(Line) /\ tmp \in Seq(Line) /\ out \in Seq(Line)
          /\ phase \in {"none", "write", "copy"} /\ at \in 0..Len(conf)
          /\ todo \in [Threads -> SUBSET Tree]
          /\ written \in BOOLEAN /\ cuts \in 0..MaxCuts

-----------------------------------------------------------------------------
(* loadConfig: the last line of a key counts.                              *)
LinesOf(file, k) == {i \in DOMAIN file : file[i].kind = "pair" /\ file[i].key = k}
LastOf(file, k) == CHOOSE i \in LinesOf(file, k) : \A j \in LinesOf(file, k) : j <= i
loadConfig(file) == [k \in Keys |-> IF LinesOf(file, k) = {} THEN None
                                    ELSE chop(file[LastOf(file, k)].value)]

(* What is printed after a line without a line break belongs to it: to the *)
(* comment, or to the value.                                               *)
RunTogether(l, next) == IF l.kind = "pair" THEN [l EXCEPT !.value.text = Garbled, !.ended = next.ended]
                        ELSE [l EXCEPT !.ended = next.ended]
fprintf(lines, l) == IF lines = <<>> \/ Last(lines).ended THEN Append(lines, l)
                     ELSE Append(Front(lines), RunTogether(Last(lines), l))

(* What a power cut leaves of a file: some lines, the last of which may be *)
(* cut before or after the =, or lack its line break.                      *)
Open(l) == [l EXCEPT !.ended = FALSE]
CutValue(l) == [Open(l) EXCEPT !.value = [text |-> Garbled, padded |-> FALSE]]
TornLine(l) == {l, Open(l), [kind |-> "garbage", ended |-> FALSE]} \cup IF l.kind = "pair" THEN {CutValue(l)} ELSE {}
Torns(file) == {<<>>} \cup UNION {{Append(SubSeq(file, 1, n - 1), l) : l \in TornLine(file[n])} : n \in 1..Len(file)}

-----------------------------------------------------------------------------
Init == /\ conf \in Files /\ tmp = <<>>
        /\ ConfigData = loadConfig(conf) /\ saved = ConfigData
        /\ phase = "none" /\ at = 0 /\ localSetting = Empty /\ out = <<>>
        /\ todo = [t \in Threads |-> {}]
        /\ written = FALSE /\ cuts = 0

Unlocked == phase = "none"

(* A thread that is not in RemoveTree may call.                            *)
Set(t, k, v) == /\ Unlocked /\ todo[t] = {}
                /\ ConfigData' = [ConfigData EXCEPT ![k] = v]
                /\ UNCHANGED <<conf, tmp, phase, save, todo, saved, written, cuts>>

RemoveKey(t, k) == /\ Unlocked /\ todo[t] = {}
                   /\ ConfigData' = [ConfigData EXCEPT ![k] = None]
                   /\ UNCHANGED <<conf, tmp, phase, save, todo, saved, written, cuts>>

(* RemoveTree lists the keys, and then removes them one by one: others may *)
(* come between.                                                           *)
RemoveTree(t) == /\ Unlocked /\ todo[t] = {}
                 /\ todo' = [todo EXCEPT ![t] = {k \in Tree : ConfigData[k] # None}]
                 /\ UNCHANGED <<ConfigData, conf, tmp, phase, save, saved, written, cuts>>

RemoveTreeNext(t, k) == /\ Unlocked /\ k \in todo[t]
                        /\ ConfigData' = [ConfigData EXCEPT ![k] = None]
                        /\ todo' = [todo EXCEPT ![t] = @ \ {k}]
                        /\ UNCHANGED <<conf, tmp, phase, save, saved, written, cuts>>

(* saveConfig takes the lock and keeps it, and begins with a copy of the   *)
(* settings. The .tmp file is opened, which empties it.                    *)
saveConfig(t) == /\ Unlocked /\ todo[t] = {}
                 /\ phase' = "write" /\ tmp' = <<>>
                 /\ at' = 0 /\ localSetting' = ConfigData /\ out' = <<>>
                 /\ UNCHANGED <<ConfigData, conf, todo, saved, written, cuts>>

Reading == phase = "write" /\ at < Len(conf) /\ at' = at + 1
line == conf[at + 1]
Printed(l) == out' = fprintf(out, l)
Erased(k) == localSetting' = [localSetting EXCEPT ![k] = None]
Rest == UNCHANGED <<ConfigData, conf, tmp, phase, todo, saved, written, cuts>>

KeepComment == Reading /\ line.kind = "comment" /\ Printed(line) /\ UNCHANGED localSetting /\ Rest

(* Mutant of DropLine: a setting that was removed stays in the file.       *)
DropLineKept ==
    /\ Reading
    /\ \/ line.kind = "garbage" /\ UNCHANGED out
       \/ line.kind = "pair" /\ localSetting[line.key] = None /\ Printed(line)
    /\ UNCHANGED localSetting /\ Rest

(* What is neither a comment nor a setting, and a setting that is not, or  *)
(* no more, to be written.                                                 *)
DropLine ==
    /\ Reading
    /\ line.kind = "garbage" \/ (line.kind = "pair" /\ localSetting[line.key] = None)
    /\ UNCHANGED <<localSetting, out>> /\ Rest

New(k) == Pair(k, localSetting[k])

(* Mutant of WriteLine: a setting that was written is not crossed off.     *)
WriteLineAgain ==
    /\ Reading /\ line.kind = "pair" /\ localSetting[line.key] # None
    /\ Printed(IF chop(line.value) = localSetting[line.key] THEN line ELSE New(line.key))
    /\ UNCHANGED localSetting /\ Rest

(* Mutant of WriteLine: whether the setting is still there is not looked   *)
(* at.                                                                     *)
WriteLineUnchecked ==
    /\ Reading /\ line.kind = "pair"
    /\ Printed(New(line.key)) /\ Erased(line.key) /\ Rest

(* A setting whose value did not change is copied as it stands, and        *)
(* rewritten otherwise; then it is crossed off.                            *)
WriteLine ==
    /\ Reading /\ line.kind = "pair" /\ localSetting[line.key] # None
    /\ Printed(IF chop(line.value) = localSetting[line.key] THEN line ELSE New(line.key))
    /\ Erased(line.key) /\ Rest

(* What the old file does not have. The program goes by the order of keys, *)
(* here it is any.                                                         *)
WriteNew(k) == /\ phase = "write" /\ at = Len(conf) /\ localSetting[k] # None
               /\ Printed(New(k)) /\ Erased(k) /\ UNCHANGED at /\ Rest

(* Mutant of Written: the copy begins before the file is closed, and its   *)
(* last line is still in the buffer.                                       *)
WrittenOpen == /\ phase = "write" /\ at = Len(conf) /\ localSetting = Empty
               /\ phase' = "copy"
               /\ tmp' = IF out = <<>> THEN out ELSE Front(out)
               /\ UNCHANGED <<ConfigData, conf, save, todo, saved, written, cuts>>

(* Both files are closed, and the copy begins.                             *)
Written == /\ phase = "write" /\ at = Len(conf) /\ localSetting = Empty
           /\ phase' = "copy"
           /\ tmp' = out
           /\ UNCHANGED <<ConfigData, conf, save, todo, saved, written, cuts>>

SaveEnds == at' = 0 /\ localSetting' = Empty /\ out' = <<>>

Copied == /\ phase = "copy" /\ phase' = "none"
          /\ conf' = tmp /\ SaveEnds
          /\ saved' = ConfigData /\ written' = TRUE
          /\ UNCHANGED <<ConfigData, tmp, todo, cuts>>

(* The power fails and the program starts anew.                            *)
PowerCut == /\ cuts < MaxCuts /\ cuts' = cuts + 1
            /\ IF phase = "write" THEN tmp' \in Torns(out) ELSE tmp' = tmp
            /\ IF phase = "copy" THEN conf' \in Torns(tmp) ELSE conf' = conf
            /\ ConfigData' = loadConfig(conf') /\ saved' = ConfigData'
            /\ phase' = "none" /\ SaveEnds /\ todo' = [t \in Threads |-> {}]
            /\ UNCHANGED written

Next == \/ \E t \in Threads, k \in Keys :
              \/ \E v \in Value : v.text # Garbled /\ Set(t, k, v)
              \/ RemoveKey(t, k) \/ RemoveTreeNext(t, k)
        \/ \E t \in Threads : RemoveTree(t) \/ saveConfig(t)
        \/ KeepComment \/ DropLine \/ WriteLine
        \/ \E k \in Keys : WriteNew(k)
        \/ Written \/ Copied \/ PowerCut

Spec == Init /\ [][Next]_vars

-----------------------------------------------------------------------------
ChopAll(map) == [k \in Keys |-> chop(map[k])]

(* What was saved is what the next start reads, up to the blanks around    *)
(* values: whatever the old file held, a save neither loses a setting nor  *)
(* brings a removed one back (Config.cpp:88-164). A file that a power cut  *)
(* has torn may end without a line break, and is left out.                 *)
SavedIsLoaded == cuts = 0 /\ phase # "copy" => loadConfig(conf) = ChopAll(saved)

(* A file written by a save has one line for each setting, however often   *)
(* it is merged with itself (Config.cpp:134-149).                          *)
OneLineEach == cuts = 0 /\ written => \A k \in Keys : \A i, j \in LinesOf(conf, k) : i = j

(* A power cut leaves the old settings in config.conf or the new ones in   *)
(* config.conf.tmp, so that they can be restored by hand (Config.cpp:78,   *)
(* 164-165). A second one need not: what a save appends to a torn line     *)
(* belongs to that line.                                                   *)
CutLeavesOne == [][cuts = 0 /\ cuts' # cuts => \/ loadConfig(conf') = ChopAll(saved)
                                               \/ loadConfig(tmp') = ChopAll(ConfigData)]_vars
=============================================================================
