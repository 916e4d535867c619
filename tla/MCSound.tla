------------------------------ MODULE MCSound ------------------------------
(***************************************************************************)
(* The two sound queues of the program, checked in one run: a behaviour is *)
(* one of Speech or one of MusicPlayer, as part says; the other one stays  *)
(* in its initial state. They share nothing that either model keeps.       *)
(***************************************************************************)
EXTENDS Integers, Sequences

CONSTANTS Tasks, NoTask, Scripts, MaxRebuilds, Songs, Clients, MaxCount

ASSUME SoundAssumption == /\ NoTask \notin Tasks \cup Songs
                          /\ MaxRebuilds \in Nat /\ MaxCount \in Nat

VARIABLES part,
          queue, lock, stopFlag, spc, task, mpc, arg, wpc, cache, asked, spoken, ended, rebuilds,
          files, pc, file, left, playcount, playLock, cpc, given, sounded, played

S == INSTANCE Speech
M == INSTANCE MusicPlayer WITH Tasks <- Songs, queue <- files, task <- file, asked <- given

svars == <<queue, lock, stopFlag, spc, task, mpc, arg, wpc, cache, asked, spoken, ended, rebuilds>>
mvars == <<files, pc, file, left, playcount, playLock, cpc, given, sounded, played>>
vars == <<part, svars, mvars>>

Init == part \in {"speech", "music"} /\ S!Init /\ M!Init

Next == \/ part = "speech" /\ S!Next /\ UNCHANGED part /\ UNCHANGED mvars
        \/ part = "music" /\ M!Next /\ UNCHANGED part /\ UNCHANGED svars

Spec == Init /\ [][Next]_vars

FairSpec == /\ Spec
            /\ part = "speech" => S!Fairness
            /\ part = "music" => M!Fairness

-----------------------------------------------------------------------------
(* The types of both, and who holds the engine's Lock when                 *)
(* (Speak_OpenJTalk.h, MusicPlayAsync.h).                                  *)
TypeOK == S!TypeOK /\ M!TypeOK

(* Who is told that a sound is done: the text was spoken before its script *)
(* hears of it, and the file had all its rounds (Speak_OpenJTalk.cpp:155-  *)
(* 164, MusicPlayAsync.cpp:90-102).                                        *)
DoneIsPlayed == S!CallbackAfterText /\ M!PlayedInFull

(* Both queues play what they accepted once, one at a time, in that order  *)
(* (Speak_OpenJTalk.cpp:122-166, MusicPlayAsync.cpp:57-112).               *)
ImplementsPlayQueue == S!ImplementsPlayQueue /\ M!ImplementsPlayQueue

(* What was accepted is played in the end, although the threads wait       *)
(* without a condition (Speak_OpenJTalk.cpp:132, MusicPlayAsync.cpp:67).   *)
AllIsPlayed == S!TextIsSpoken /\ M!FileIsPlayed

(* When the engine is rebuilt, the join returns but for the two places in  *)
(* which the speech thread hangs (Speak_OpenJTalk.cpp:34-41, 132, 163).    *)
EngineStops == S!EngineStops
=============================================================================
