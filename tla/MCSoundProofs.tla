--------------------------- MODULE MCSoundProofs ---------------------------
(***************************************************************************)
(* Proofs about the speech output and the music player, for any texts and  *)
(* files and any number of rounds and rebuilds: each has an inductive      *)
(* invariant of its own (SInv, MInv), and from these follow the types, the *)
(* order of sound and callback, and that both implement PlayQueue.         *)
(***************************************************************************)
EXTENDS MCSound, SequenceTheorems, TLAPS

(* Where the speech thread has a text, and what the texts it has, and that *)
(* the main thread has, are.                                               *)
SpeechTask == /\ task # NoTask <=> spc \in {"speak", "speaking", "end", "invoke"}
              /\ task # NoTask => task \in asked
              /\ mpc = "push" => arg \in asked
              /\ lock = "web" => wpc = "delete"

(* The text is among the spoken ones before its callback is due.           *)
SpeechDone == spc \in {"end", "invoke"} => \E i \in 1..Len(spoken) : spoken[i] = task

SInv == /\ S!TypeOK
        /\ SpeechTask
        /\ SpeechDone
        /\ S!CallbackAfterText

(* Each file is in one place: not yet given to Play, in the queue, played  *)
(* now, or done with.                                                      *)
MusicPlaces ==
    /\ \A i, j \in 1..Len(files) : files[i] = files[j] => i = j
    /\ \A i \in 1..Len(files) : \A j \in 1..Len(played) : files[i] # played[j]
    /\ \A i \in 1..Len(files) : files[i] # file
    /\ \A j \in 1..Len(played) : played[j] # file
    /\ file # NoTask <=> pc \in {"play", "want", "sound", "end"}
    /\ file # NoTask => file \in given

(* How often it was played in each of them.                                *)
MusicCounts ==
    /\ \A t \in Songs : t \notin given => sounded[t] = 0
    /\ \A i \in 1..Len(files) : sounded[files[i]] = 0
    /\ file # NoTask => sounded[file] + left = playcount[file]
    /\ pc \in {"want", "sound"} => left > 0
    /\ pc = "end" => left = 0

MInv == /\ M!TypeOK
        /\ MusicPlaces
        /\ MusicCounts
        /\ M!PlayedInFull

IInv == SInv /\ MInv

-----------------------------------------------------------------------------
(* Speech.                                                                 *)

(* What was in a sequence stays in it when something is appended: spoken   *)
(* and played are only appended to.                                        *)
LEMMA AppendKeeps == ASSUME NEW A, NEW s \in Seq(A), NEW e \in A
                     PROVE  /\ Append(s, e) \in Seq(A)
                            /\ Len(Append(s, e)) = Len(s) + 1
                            /\ \A i \in 1..Len(s) : Append(s, e)[i] = s[i]
                            /\ Append(s, e)[Len(s) + 1] = e
  BY AppendProperties

(* Pop takes the first of a sequence; the rest moves up.                   *)
LEMMA PopFacts == ASSUME NEW A, NEW s \in Seq(A), s # <<>>
                  PROVE  /\ Head(s) \in A /\ Head(s) = s[1] /\ 1 \in 1..Len(s)
                         /\ Tail(s) \in Seq(A) /\ Len(Tail(s)) = Len(s) - 1
                         /\ \A i \in 1..Len(Tail(s)) : Tail(s)[i] = s[i + 1] /\ i + 1 \in 1..Len(s)
  BY HeadTailProperties, EmptySeq, ElementOfSeq
(* The initial state.                                                      *)
LEMMA SpeechInit == Init => SInv
<1> SUFFICES ASSUME Init PROVE SInv
  OBVIOUS
<1>1. <<>> \in Seq({}) /\ 0 \in 0..MaxRebuilds /\ NoTask \notin Tasks
  BY SoundAssumption, EmptySeq
<1>2. S!TypeOK
  BY <1>1 DEF Init, S!Init, S!TypeOK
<1> QED
  BY <1>1, <1>2 DEF Init, S!Init, SInv, SpeechTask, SpeechDone, S!CallbackAfterText

(* Every step of the main thread, of the web worker and of the speech      *)
(* thread keeps SInv.                                                      *)
LEMMA SpeechStep == SInv /\ (S!Next \/ UNCHANGED svars) => SInv'
<1> SUFFICES ASSUME SInv, S!Next \/ UNCHANGED svars PROVE SInv'
  OBVIOUS
<1>t. /\ S!TypeOK /\ SpeechTask /\ SpeechDone /\ S!CallbackAfterText
  BY DEF SInv
<1>a. NoTask \notin Tasks /\ MaxRebuilds \in Nat
  BY SoundAssumption
<1> USE <1>t, <1>a DEF SInv, S!TypeOK, SpeechTask, SpeechDone, S!CallbackAfterText, S!main, S!history

<1>1. ASSUME NEW t \in Tasks, S!SpeakAsync(t) PROVE SInv'
  <2>1. queue \in Seq(asked') /\ spoken \in Seq(asked')
    BY <1>1, SeqMonotonic DEF S!SpeakAsync, S!Serve
  <2> QED
    BY <1>1, <2>1 DEF S!SpeakAsync, S!Serve
<1>2. CASE S!RemoveCallback
  BY <1>2 DEF S!RemoveCallback, S!Serve
<1>3. CASE S!PushQueeOnly
  <2>1. queue' \in Seq(asked)
    BY <1>3, AppendKeeps DEF S!PushQueeOnly
  <2> QED
    BY <1>3, <2>1 DEF S!PushQueeOnly
<1>4. CASE S!FireQuee
  BY <1>4 DEF S!FireQuee, S!Notified
<1>5. CASE S!SpeakSyncLock
  BY <1>5 DEF S!SpeakSyncLock
<1>6. CASE S!SpeakSyncUnlock
  BY <1>6 DEF S!SpeakSyncUnlock
<1>7. CASE S!CallbackRemoved
  BY <1>7 DEF S!CallbackRemoved
<1>8. CASE S!Rebuild
  BY <1>8 DEF S!Rebuild
<1>9. CASE S!StopNotify
  BY <1>9 DEF S!StopNotify, S!Notified
<1>10. CASE S!Joined
  BY <1>10, EmptySeq DEF S!Joined
<1>11. CASE S!DeleteBegin
  BY <1>11 DEF S!DeleteBegin
<1>12. ASSUME NEW t \in Tasks, S!DeleteSpeakCacheDB(t) PROVE SInv'
  BY <1>12 DEF S!DeleteSpeakCacheDB
<1>13. CASE S!LoopTest
  BY <1>13 DEF S!LoopTest, S!Step, S!Quiet
<1>14. CASE S!TestAndWait
  BY <1>14 DEF S!TestAndWait, S!Step, S!Quiet
<1>15. CASE S!SpuriousWake
  BY <1>15 DEF S!SpuriousWake, S!Step, S!Quiet
<1>16. CASE S!Awake
  BY <1>16 DEF S!Awake, S!Step, S!Quiet
<1>17. CASE S!StopTest
  BY <1>17 DEF S!StopTest, S!Step, S!Quiet
<1>18. CASE S!Pop
  <2>1. queue # <<>> => Head(queue) \in asked /\ Tail(queue) \in Seq(asked)
    BY PopFacts
  <2> QED
    BY <1>18, <2>1 DEF S!Pop, S!Step
<1>19. CASE S!SpeakSync
  BY <1>19 DEF S!SpeakSync, S!Step
<1>20. CASE S!Spoken
  <2>1. task \in asked
    BY <1>20 DEF S!Spoken, S!Step
  <2>2. /\ spoken' \in Seq(asked) /\ Len(spoken') = Len(spoken) + 1
        /\ \A i \in 1..Len(spoken) : spoken'[i] = spoken[i]
        /\ spoken'[Len(spoken) + 1] = task /\ Len(spoken) \in Nat
    BY <1>20, <2>1, AppendKeeps DEF S!Spoken
  <2> QED
    BY <1>20, <2>1, <2>2 DEF S!Spoken, S!Step
<1>21. CASE S!SpeakEnd
  BY <1>21 DEF S!SpeakEnd, S!Step
<1>22. CASE S!Invoked
  BY <1>22 DEF S!Invoked, S!Step
<1>23. CASE UNCHANGED svars
  BY <1>23 DEF svars
<1> QED
  BY <1>1, <1>2, <1>3, <1>4, <1>5, <1>6, <1>7, <1>8, <1>9, <1>10, <1>11, <1>12, <1>13, <1>14, <1>15, <1>16, <1>17, <1>18, <1>19, <1>20, <1>21, <1>22, <1>23 DEF S!Next, S!MainNext, S!WebNext, S!SpeechNext

-----------------------------------------------------------------------------
(* The music player.                                                       *)

(* The initial state.                                                      *)
LEMMA MusicInit == Init => MInv
<1> SUFFICES ASSUME Init PROVE MInv
  OBVIOUS
<1>1. <<>> \in Seq({}) /\ Len(<<>>) = 0 /\ 0 \in 0..MaxCount /\ NoTask \notin Songs
  BY SoundAssumption, EmptySeq
<1>2. M!TypeOK
  BY <1>1 DEF Init, M!Init, M!TypeOK, M!Files, M!Player
<1> QED
  BY <1>1, <1>2 DEF Init, M!Init, MInv, MusicPlaces, MusicCounts, M!PlayedInFull

(* Play puts a file at the end of the queue that is nowhere else.          *)
LEMMA PlayStep == ASSUME MInv, NEW t \in Songs, NEW n \in 1..MaxCount, M!Play(t, n)
                  PROVE  MInv'
<1>t. M!TypeOK /\ MusicPlaces /\ MusicCounts /\ M!PlayedInFull
  BY DEF MInv
<1>a. NoTask \notin Songs /\ MaxCount \in Nat
  BY SoundAssumption
<1>1. /\ t \notin given /\ given' = given \cup {t}
      /\ playcount' = [playcount EXCEPT ![t] = n]
      /\ files' = Append(files, t)
      /\ UNCHANGED <<file, left, playLock, cpc, sounded, played>>
      /\ pc' = IF pc = "wait" THEN "wake" ELSE pc
  BY DEF M!Play
<1>2. /\ files' \in Seq(given') /\ Len(files') = Len(files) + 1 /\ Len(files) \in Nat
      /\ \A i \in 1..Len(files) : files'[i] = files[i] /\ files[i] \in given
      /\ files'[Len(files) + 1] = t
  BY <1>t, <1>1, SeqMonotonic, AppendKeeps, ElementOfSeq DEF M!TypeOK
<1>3. played \in Seq(given') /\ \A j \in 1..Len(played) : played[j] \in given
  BY <1>t, <1>1, SeqMonotonic, ElementOfSeq DEF M!TypeOK
<1>4. M!TypeOK'
  BY <1>t, <1>a, <1>1, <1>2, <1>3 DEF M!TypeOK, M!Files
<1>5. MusicPlaces'
  <2>1. file # t
    BY <1>t, <1>a, <1>1 DEF MusicPlaces
  <2>2. \A i \in 1..Len(files') : files'[i] = IF i = Len(files) + 1 THEN t ELSE files[i]
    BY <1>2
  <2>3. \A i \in 1..Len(files') : i = Len(files) + 1 \/ i \in 1..Len(files)
    BY <1>2
  <2>4. \A i, j \in 1..Len(files') : files'[i] = files'[j] => i = j
    BY <1>t, <1>1, <1>2, <2>2, <2>3 DEF MusicPlaces
  <2>5. \A i \in 1..Len(files') : \A j \in 1..Len(played') : files'[i] # played'[j]
    BY <1>t, <1>1, <1>2, <1>3, <2>2, <2>3 DEF MusicPlaces
  <2>6. \A i \in 1..Len(files') : files'[i] # file'
    BY <1>t, <1>1, <2>1, <2>2, <2>3 DEF MusicPlaces
  <2> QED
    BY <1>t, <1>1, <2>4, <2>5, <2>6 DEF MusicPlaces
<1>6. MusicCounts'
  BY <1>t, <1>a, <1>1, <1>2, <1>3 DEF M!TypeOK, M!Files, MusicPlaces, MusicCounts
<1>7. M!PlayedInFull'
  BY <1>t, <1>1, <1>3 DEF M!TypeOK, M!PlayedInFull
<1> QED
  BY <1>4, <1>5, <1>6, <1>7 DEF MInv

(* One round of a file, played or refused.                                 *)
LEMMA SoundedStep ==
    ASSUME MInv, pc \in {"want", "sound"}, pc' = "play", M!Sounded,
           UNCHANGED <<files, file, playcount, cpc, given, played>>,
           playLock' \in Clients \cup {M!Player, "free"}
    PROVE  MInv'
<1>t. M!TypeOK /\ MusicPlaces /\ MusicCounts /\ M!PlayedInFull
  BY DEF MInv
<1>a. NoTask \notin Songs /\ MaxCount \in Nat
  BY SoundAssumption
<1>1. file \in given /\ file \in Songs /\ left > 0 /\ left' = left - 1 /\ file # NoTask
  BY <1>t DEF M!TypeOK, MusicPlaces, MusicCounts, M!Sounded
<1>2. sounded[file] + left = playcount[file] /\ playcount[file] \in 0..MaxCount /\ sounded[file] \in 0..MaxCount
      /\ left \in 0..MaxCount
  BY <1>t, <1>1 DEF M!TypeOK, MusicCounts
<1>3. sounded' = [sounded EXCEPT ![file] = sounded[file] + 1] /\ sounded[file] + 1 \in 0..MaxCount
      /\ left' \in 0..MaxCount /\ sounded[file] + 1 + left' = playcount[file]
  BY <1>1, <1>2, <1>a DEF M!Sounded
<1>4. M!TypeOK'
  BY <1>t, <1>1, <1>3 DEF M!TypeOK, M!Files
<1>5. MusicPlaces'
  BY <1>t, <1>1 DEF MusicPlaces
<1>6. \A t \in Songs : sounded'[t] = IF t = file THEN sounded[t] + 1 ELSE sounded[t]
  BY <1>t, <1>3 DEF M!TypeOK
<1>7. /\ \A i \in 1..Len(files) : files[i] \in given /\ files[i] \in Songs
      /\ \A i \in 1..Len(played) : played[i] \in given /\ played[i] \in Songs
  BY <1>t, ElementOfSeq DEF M!TypeOK
<1>8. MusicCounts'
  BY <1>t, <1>1, <1>3, <1>6, <1>7 DEF MusicCounts, MusicPlaces
<1>9. M!PlayedInFull'
  BY <1>t, <1>6, <1>7 DEF M!PlayedInFull, MusicPlaces
<1> QED
  BY <1>4, <1>5, <1>8, <1>9 DEF MInv

(* Every step of the clients and of the player thread keeps MInv.          *)
LEMMA MusicStep == MInv /\ (M!Next \/ UNCHANGED mvars) => MInv'
<1> SUFFICES ASSUME MInv, M!Next \/ UNCHANGED mvars PROVE MInv'
  OBVIOUS
<1>t. M!TypeOK /\ MusicPlaces /\ MusicCounts /\ M!PlayedInFull
  BY DEF MInv
<1>a. NoTask \notin Songs /\ MaxCount \in Nat
  BY SoundAssumption
<1>1. ASSUME NEW t \in Songs, NEW n \in 1..MaxCount, M!Play(t, n) PROVE MInv'
  BY <1>1, PlayStep
<1>2. ASSUME NEW c \in Clients, M!PlaySync(c) \/ M!PlaySyncLow(c) \/ M!PlaySyncEnd(c) PROVE MInv'
  <2>1. /\ cpc' \in [Clients -> {"idle", "want", "play"}] /\ playLock' \in Clients \cup {M!Player, "free"}
        /\ UNCHANGED <<files, pc, file, left, playcount, given, sounded, played>>
    BY <1>2, <1>t DEF M!PlaySync, M!PlaySyncLow, M!PlaySyncEnd, M!Client, M!TypeOK
  <2>2. M!TypeOK'
    BY <1>t, <2>1 DEF M!TypeOK
  <2>3. MusicPlaces' /\ MusicCounts' /\ M!PlayedInFull'
    BY <1>t, <2>1 DEF M!PlayedInFull, MusicPlaces, MusicCounts
  <2> QED
    BY <2>2, <2>3 DEF MInv
<1>3. CASE M!TestAndWait \/ M!SpuriousWake \/ M!Awake \/ M!PlayLoop
  <2>1. /\ pc' \in {"wait", "wake", "pop", "end", "want"}
        /\ pc' = "want" => pc = "play" /\ left # 0
        /\ pc' = "end" => pc = "play" /\ left = 0
        /\ pc' \notin {"want", "end"} => pc \in {"loop", "wait", "wake"}
        /\ UNCHANGED <<files, file, left, playcount, playLock, cpc, given, sounded, played>>
    BY <1>3 DEF M!TestAndWait, M!SpuriousWake, M!Awake, M!PlayLoop, M!Step, M!Quiet
  <2>2. M!TypeOK'
    BY <1>t, <2>1 DEF M!TypeOK
  <2>3. MusicPlaces' /\ MusicCounts' /\ M!PlayedInFull'
    BY <1>t, <1>a, <2>1 DEF M!PlayedInFull, M!TypeOK, MusicPlaces, MusicCounts
  <2> QED
    BY <2>2, <2>3 DEF MInv
<1>4. CASE M!Pop
  <2>1. CASE files = <<>>
    BY <1>4, <1>t, <2>1 DEF M!Pop, M!Step, MInv, M!TypeOK, M!PlayedInFull, MusicPlaces, MusicCounts
  <2>2. CASE files # <<>>
    <3>1. /\ pc = "pop" /\ pc' = "play" /\ file' = Head(files) /\ files' = Tail(files)
          /\ left' = playcount[Head(files)]
          /\ UNCHANGED <<playcount, cpc, given, playLock, sounded, played>>
      BY <1>4, <2>2 DEF M!Pop, M!Step
    <3>2. /\ file' \in given /\ file' = files[1] /\ 1 \in 1..Len(files) /\ files' \in Seq(given)
          /\ \A i \in 1..Len(files') : files'[i] = files[i + 1] /\ i + 1 \in 1..Len(files)
          /\ Len(files') \in Nat
      BY <1>t, <2>2, <3>1, PopFacts DEF M!TypeOK
    <3>3. M!TypeOK'
      BY <1>t, <3>1, <3>2 DEF M!TypeOK, M!Files
    <3>4. MusicPlaces'
      <4>1. \A i, j \in 1..Len(files') : files'[i] = files'[j] => i = j
        BY SMTT(30), <1>t, <3>2 DEF MusicPlaces
      <4>2. \A i \in 1..Len(files') : \A j \in 1..Len(played') : files'[i] # played'[j]
        BY <1>t, <3>1, <3>2 DEF MusicPlaces
      <4>3. \A i \in 1..Len(files') : files'[i] # file'
        BY <1>t, <3>2 DEF MusicPlaces
      <4>4. \A j \in 1..Len(played') : played'[j] # file'
        BY <1>t, <3>1, <3>2 DEF MusicPlaces
      <4> QED
        BY <1>t, <1>a, <3>1, <3>2, <4>1, <4>2, <4>3, <4>4 DEF M!TypeOK, MusicPlaces
    <3>5. MusicCounts'
      BY <1>t, <3>1, <3>2 DEF M!TypeOK, MusicCounts
    <3>6. M!PlayedInFull'
      BY <1>t, <3>1 DEF M!PlayedInFull
    <3> QED
      BY <3>3, <3>4, <3>5, <3>6 DEF MInv
  <2> QED
    BY <2>1, <2>2
<1>5. CASE M!Refused
  BY <1>5, <1>t, SoundedStep DEF M!Refused, M!Step, M!TypeOK
<1>6. CASE M!Sound
  BY <1>6, <1>t DEF M!Sound, M!Step, MInv, M!TypeOK, M!PlayedInFull, MusicPlaces, MusicCounts
<1>7. CASE M!SoundEnd
  BY <1>7, SoundedStep DEF M!SoundEnd, M!Step
<1>8. CASE M!SpeakEnd
  <2>1. /\ pc = "end" /\ pc' = "loop" /\ played' = Append(played, file) /\ file' = NoTask
        /\ UNCHANGED <<playcount, cpc, given, files, left, playLock, sounded>>
    BY <1>8 DEF M!SpeakEnd, M!Step
  <2>2. file \in given /\ file # NoTask /\ left = 0 /\ sounded[file] = playcount[file]
    BY <1>t, <2>1 DEF M!TypeOK, MusicPlaces, MusicCounts
  <2>3. /\ played' \in Seq(given) /\ Len(played') = Len(played) + 1 /\ Len(played) \in Nat
        /\ \A i \in 1..Len(played) : played'[i] = played[i]
        /\ played'[Len(played) + 1] = file
    BY <1>t, <2>1, <2>2, AppendKeeps DEF M!TypeOK
  <2>4. /\ \A i \in 1..Len(files) : files[i] # NoTask
        /\ \A i \in 1..Len(played) : played[i] # NoTask
    BY <1>t, <1>a, ElementOfSeq DEF M!TypeOK
  <2>5. M!TypeOK'
    BY <1>t, <2>1, <2>3 DEF M!TypeOK, M!Files
  <2>6. MusicPlaces'
    BY <1>t, <2>1, <2>2, <2>3, <2>4 DEF MusicPlaces
  <2>7. MusicCounts'
    BY <1>t, <2>1 DEF MusicCounts
  <2>8. M!PlayedInFull'
    BY <1>t, <2>1, <2>2, <2>3 DEF M!PlayedInFull
  <2> QED
    BY <2>5, <2>6, <2>7, <2>8 DEF MInv
<1>9. CASE UNCHANGED mvars
  BY <1>9, <1>t DEF mvars, MInv, M!TypeOK, M!PlayedInFull, MusicPlaces, MusicCounts
<1> QED
  BY <1>1, <1>2, <1>3, <1>4, <1>5, <1>6, <1>7, <1>8, <1>9 DEF M!Next, M!PlayerNext

-----------------------------------------------------------------------------
(* Both together: part does not change, and the part that is not run is    *)
(* left as it is.                                                          *)
LEMMA Inductive == Spec => []IInv
<1>1. Init => IInv
  BY SpeechInit, MusicInit DEF IInv
<1>2. IInv /\ [Next]_vars => IInv'
  BY SpeechStep, MusicStep DEF IInv, Next, vars
<1> QED
  BY <1>1, <1>2, PTL DEF Spec

(* Types, and who holds Lock when (Speak_OpenJTalk.h, MusicPlayAsync.h).   *)
THEOREM TypeCorrect == Spec => []TypeOK
<1>1. IInv => TypeOK
  BY DEF IInv, SInv, MInv, TypeOK
<1> QED
  BY <1>1, Inductive, PTL

(* Nobody is told of a sound that was not played: the text was spoken      *)
(* before its script hears of it, and the file had all its rounds          *)
(* (Speak_OpenJTalk.cpp:155-164, MusicPlayAsync.cpp:90-102).               *)
THEOREM DoneIsPlayedThm == Spec => []DoneIsPlayed
<1>1. IInv => DoneIsPlayed
  BY DEF IInv, SInv, MInv, DoneIsPlayed
<1> QED
  BY <1>1, Inductive, PTL

-----------------------------------------------------------------------------
(* The refinement of PlayQueue, step by step.                              *)

(* Each step of the speech side is one of PlayQueue or changes nothing it  *)
(* sees: PushQueeOnly accepts, Pop begins, Spoken ends, Joined throws      *)
(* away.                                                                   *)
LEMMA SpeechRefines == SInv /\ (S!Next \/ UNCHANGED svars) => [S!PQ!QNext]_(S!PQ!qvars)
<1> SUFFICES ASSUME SInv, S!Next \/ UNCHANGED svars
             PROVE  S!PQ!QNext \/ UNCHANGED <<queue, S!Playing, spoken>>
  BY DEF S!PQ!qvars
<1>t. S!TypeOK /\ SpeechTask
  BY DEF SInv
<1>a. NoTask \notin Tasks
  BY SoundAssumption
<1>1. CASE S!PushQueeOnly
  <2>1. arg \in Tasks /\ S!PQ!Accept(arg)
    BY <1>1, <1>t DEF S!PushQueeOnly, S!TypeOK, SpeechTask, S!PQ!Accept, S!Playing, S!history
  <2> QED
    BY <2>1 DEF S!PQ!QNext
<1>2. CASE S!Pop /\ queue # <<>>
  BY <1>2 DEF S!Pop, S!Step, S!history, S!PQ!QNext, S!PQ!Begin, S!Playing
<1>3. CASE S!Spoken
  BY <1>3, <1>t DEF S!Spoken, S!Step, SpeechTask, S!PQ!QNext, S!PQ!End, S!Playing
<1>4. CASE S!Joined
  BY <1>4 DEF S!Joined, S!history, S!PQ!QNext, S!PQ!ThrowAway, S!Playing
<1>5. CASE \/ \E t \in Tasks : S!SpeakAsync(t) \/ S!DeleteSpeakCacheDB(t)
           \/ S!RemoveCallback \/ S!FireQuee \/ S!SpeakSyncLock \/ S!SpeakSyncUnlock \/ S!CallbackRemoved
           \/ S!Rebuild \/ S!StopNotify \/ S!DeleteBegin
  BY <1>5 DEF S!SpeakAsync, S!DeleteSpeakCacheDB, S!RemoveCallback, S!FireQuee, S!SpeakSyncLock,
              S!SpeakSyncUnlock, S!CallbackRemoved, S!Rebuild, S!StopNotify, S!DeleteBegin, S!Serve,
              S!Notified, S!history, S!main, S!Playing
<1>6. CASE \/ S!LoopTest \/ S!TestAndWait \/ S!SpuriousWake \/ S!Awake \/ S!StopTest
           \/ (S!Pop /\ queue = <<>>) \/ S!SpeakSync \/ S!SpeakEnd \/ S!Invoked
  BY <1>6 DEF S!LoopTest, S!TestAndWait, S!SpuriousWake, S!Awake, S!StopTest, S!Pop, S!SpeakSync,
              S!SpeakEnd, S!Invoked, S!Step, S!Quiet, S!history, S!Playing
<1>7. CASE UNCHANGED svars
  BY <1>7 DEF svars, S!Playing
<1> QED
  BY <1>1, <1>2, <1>3, <1>4, <1>5, <1>6, <1>7 DEF S!Next, S!MainNext, S!WebNext, S!SpeechNext

(* Each step of the music side: Play accepts, Pop begins, SpeakEnd ends.   *)
LEMMA MusicRefines == MInv /\ (M!Next \/ UNCHANGED mvars) => [M!PQ!QNext]_(M!PQ!qvars)
<1> SUFFICES ASSUME MInv, M!Next \/ UNCHANGED mvars
             PROVE  M!PQ!QNext \/ UNCHANGED <<files, file, played>>
  BY DEF M!PQ!qvars
<1>t. M!TypeOK /\ MusicPlaces
  BY DEF MInv
<1>1. ASSUME NEW t \in Songs, NEW n \in 1..MaxCount, M!Play(t, n)
      PROVE  M!PQ!QNext \/ UNCHANGED <<files, file, played>>
  BY <1>1 DEF M!Play, M!PQ!QNext, M!PQ!Accept
<1>2. CASE M!Pop /\ files # <<>>
  BY <1>2, <1>t DEF M!Pop, M!Step, MusicPlaces, M!PQ!QNext, M!PQ!Begin
<1>3. CASE M!SpeakEnd
  BY <1>3, <1>t DEF M!SpeakEnd, M!Step, MusicPlaces, M!PQ!QNext, M!PQ!End
<1>4. ASSUME NEW c \in Clients, M!PlaySync(c) \/ M!PlaySyncLow(c) \/ M!PlaySyncEnd(c)
      PROVE  M!PQ!QNext \/ UNCHANGED <<files, file, played>>
  BY <1>4 DEF M!PlaySync, M!PlaySyncLow, M!PlaySyncEnd, M!Client
<1>5. CASE \/ M!TestAndWait \/ M!SpuriousWake \/ M!Awake \/ (M!Pop /\ files = <<>>) \/ M!PlayLoop
           \/ M!Refused \/ M!Sound \/ M!SoundEnd
  BY <1>5 DEF M!TestAndWait, M!SpuriousWake, M!Awake, M!Pop, M!PlayLoop, M!Refused, M!Sound, M!SoundEnd,
              M!Step, M!Quiet
<1>6. CASE UNCHANGED mvars
  BY <1>6 DEF mvars
<1> QED
  BY <1>1, <1>2, <1>3, <1>4, <1>5, <1>6 DEF M!Next, M!PlayerNext

(* Both queues play what they accepted once, one at a time and in that     *)
(* order: Speech and MusicPlayer implement PlayQueue                       *)
(* (Speak_OpenJTalk.cpp:122-166, MusicPlayAsync.cpp:57-112).               *)
THEOREM Refinement == Spec => ImplementsPlayQueue
<1>1. Init => S!PQ!QInit /\ M!PQ!QInit
  BY DEF Init, S!Init, M!Init, S!PQ!QInit, M!PQ!QInit, S!Playing
<1>2. IInv /\ [Next]_vars => [S!PQ!QNext]_(S!PQ!qvars) /\ [M!PQ!QNext]_(M!PQ!qvars)
  BY SpeechRefines, MusicRefines DEF IInv, Next, vars
<1> QED
  BY <1>1, <1>2, Inductive, PTL DEF Spec, ImplementsPlayQueue, S!ImplementsPlayQueue,
     M!ImplementsPlayQueue, S!PQ!QSpec, M!PQ!QSpec
=============================================================================
