---------------------------- MODULE MusicPlayer ----------------------------
(***************************************************************************)
(* MusicPlayAsync: any thread puts files into PlayQueue, one thread plays  *)
(* them, each playcount times, and then calls their callbacks. PlaySync    *)
(* plays on the caller's thread; PlayLock keeps two sounds apart, and      *)
(* Lock, unlike in Speech, is free while a file plays.                     *)
(*                                                                         *)
(* VolumeControll may refuse a sound: it is then passed over. StopPlay is  *)
(* called by the SIP server only, which is compiled out, and the player    *)
(* lives as long as the program: both are left out.                        *)
(***************************************************************************)
EXTENDS Integers, Sequences

CONSTANTS Tasks,        \* files given to Play, each once
          NoTask,
          Clients,      \* threads that call Play and PlaySync
          MaxCount      \* bound on playcount

VARIABLES queue,        \* PlayQueue
          pc, task,     \* the player thread and its local task
          left,         \* how often the file is still to be played
          playcount,    \* what Play was asked for
          playLock,     \* who holds PlayLock
          cpc,          \* the clients: "idle", "want" or "play" in PlaySync
          asked,        \* the files given to Play
          sounded,      \* how often each was played or refused
          played        \* the files that are done with, in that order

vars == <<queue, pc, task, left, playcount, playLock, cpc, asked, sounded, played>>

Player == "player"
Files == Tasks \cup {NoTask}

TypeOK == /\ queue \in Seq(asked)
          /\ pc \in {"loop", "wait", "wake", "pop", "play", "want", "sound", "end"}
          /\ task \in Files /\ left \in 0..MaxCount
          /\ playcount \in [Tasks -> 0..MaxCount] /\ sounded \in [Tasks -> 0..MaxCount]
          /\ playLock \in Clients \cup {Player, "free"}
          /\ cpc \in [Clients -> {"idle", "want", "play"}]
          /\ asked \subseteq Tasks
          /\ played \in Seq(asked)

Init == /\ queue = <<>> /\ pc = "loop" /\ task = NoTask /\ left = 0
        /\ playcount = [t \in Tasks |-> 0] /\ sounded = [t \in Tasks |-> 0]
        /\ playLock = "free" /\ cpc = [c \in Clients |-> "idle"]
        /\ asked = {} /\ played = <<>>

-----------------------------------------------------------------------------
(* Play: push and notify under Lock, of which no other step is longer.     *)
Play(t, n) == /\ t \notin asked /\ asked' = asked \cup {t}
              /\ playcount' = [playcount EXCEPT ![t] = n]
              /\ queue' = Append(queue, t)
              /\ pc' = IF pc = "wait" THEN "wake" ELSE pc
              /\ UNCHANGED <<task, left, playLock, cpc, sounded, played>>

(* PlaySync on a client's thread.                                          *)
Client(c, from, to) == /\ cpc[c] = from /\ cpc' = [cpc EXCEPT ![c] = to]
                       /\ UNCHANGED <<queue, pc, task, left, playcount, asked, sounded, played>>
PlaySync(c) == Client(c, "idle", "want") /\ UNCHANGED playLock
PlaySyncLow(c) == Client(c, "want", "play") /\ playLock = "free" /\ playLock' = c
PlaySyncEnd(c) == Client(c, "play", "idle") /\ playLock' = "free"

-----------------------------------------------------------------------------
(* The player thread.                                                      *)
Step(from, to) == pc = from /\ pc' = to /\ UNCHANGED <<playcount, cpc, asked>>
Quiet == UNCHANGED <<queue, task, left, playLock, sounded, played>>

TestAndWait == Step("loop", IF queue = <<>> THEN "wait" ELSE "pop") /\ Quiet
SpuriousWake == Step("wait", "wake") /\ Quiet
Awake == Step("wake", "pop") /\ Quiet

(* Mutant of Pop: the task is taken from the back.                         *)
PopBack == /\ Step("pop", IF queue = <<>> THEN "loop" ELSE "play")
           /\ IF queue = <<>> THEN UNCHANGED <<queue, task, left>>
              ELSE LET t == queue[Len(queue)]
                   IN  task' = t /\ left' = playcount[t] /\ queue' = SubSeq(queue, 1, Len(queue) - 1)
           /\ UNCHANGED <<playLock, sounded, played>>

Pop == /\ Step("pop", IF queue = <<>> THEN "loop" ELSE "play")
       /\ IF queue = <<>> THEN UNCHANGED <<queue, task, left>>
          ELSE task' = Head(queue) /\ left' = playcount[Head(queue)] /\ queue' = Tail(queue)
       /\ UNCHANGED <<playLock, sounded, played>>

(* Mutants of PlayLoop: i < playcount - 1, and i <= playcount.             *)
PlayLoopShort == Step("play", IF left <= 1 THEN "end" ELSE "want") /\ Quiet
PlayLoopLong == Step("play", IF left < 0 THEN "end" ELSE "want") /\ Quiet

(* The loop over playcount.                                                *)
PlayLoop == Step("play", IF left = 0 THEN "end" ELSE "want") /\ Quiet

Sounded == sounded' = [sounded EXCEPT ![task] = @ + 1] /\ left' = left - 1

(* The volume is zero, or the file is gone: nothing is played.             *)
Refused == /\ Step("want", "play") /\ Sounded
           /\ UNCHANGED <<queue, task, playLock, played>>
Sound == /\ Step("want", "sound") /\ playLock = "free" /\ playLock' = Player
         /\ UNCHANGED <<queue, task, left, sounded, played>>
SoundEnd == /\ Step("sound", "play") /\ playLock' = "free" /\ Sounded
            /\ UNCHANGED <<queue, task, played>>

(* Mutant of SpeakEnd: the thread goes to its wait without a look at the   *)
(* queue.                                                                  *)
SpeakEndAndWait == /\ Step("end", "wait")
                   /\ played' = Append(played, task) /\ task' = NoTask
                   /\ UNCHANGED <<queue, left, playLock, sounded>>

(* The callback, if there is one, runs on the main thread.                 *)
SpeakEnd == /\ Step("end", "loop")
            /\ played' = Append(played, task) /\ task' = NoTask
            /\ UNCHANGED <<queue, left, playLock, sounded>>

PlayerNext == \/ TestAndWait \/ SpuriousWake \/ Awake \/ Pop \/ PlayLoop
              \/ Refused \/ Sound \/ SoundEnd \/ SpeakEnd

Next == \/ \E t \in Tasks, n \in 1..MaxCount : Play(t, n)
        \/ \E c \in Clients : PlaySync(c) \/ PlaySyncLow(c) \/ PlaySyncEnd(c)
        \/ PlayerNext

Spec == Init /\ [][Next]_vars

(* Threads run and a thread that keeps asking for PlayLock gets it; a file *)
(* ends. Nobody is woken without a notification.                           *)
Fairness == /\ WF_vars(TestAndWait) /\ WF_vars(Awake) /\ WF_vars(Pop) /\ WF_vars(PlayLoop)
            /\ SF_vars(Sound) /\ WF_vars(SoundEnd) /\ WF_vars(SpeakEnd)
            /\ \A c \in Clients : WF_vars(PlaySyncEnd(c))

FairSpec == Spec /\ Fairness

-----------------------------------------------------------------------------
PQ == INSTANCE PlayQueue WITH waiting <- queue, playing <- task, played <- played

(* Files are played one at a time in the order of Play                     *)
(* (MusicPlayAsync.cpp:57-112).                                            *)
ImplementsPlayQueue == PQ!QSpec

(* A file that is done with was played, or refused, playcount times, on    *)
(* each of its turns (MusicPlayAsync.cpp:90-102).                          *)
PlayedInFull == \A i \in 1..Len(played) : sounded[played[i]] = playcount[played[i]]

(* Every file given to Play is done with some time, also when other        *)
(* threads play sounds all the time and Play comes while the thread is     *)
(* about to wait (MusicPlayAsync.cpp:63-69, 129-130).                      *)
FileIsPlayed == \A t \in Tasks : (t \in asked) ~> (\E i \in 1..Len(played) : played[i] = t)
=============================================================================
