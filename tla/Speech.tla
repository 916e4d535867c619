------------------------------- MODULE Speech -------------------------------
(***************************************************************************)
(* Speech output: Speak_Factory on the main thread and the thread of the   *)
(* synthesis engine, Speak_OpenJTalk::Run, which speaks the texts of       *)
(* SpeakQueue and then calls their callbacks. Lock guards the queue and is *)
(* held while a text is synthesised and played. The callback of a script   *)
(* runs on the main thread, through SyncInvoke (module MainLoop; here: it  *)
(* waits until the main thread is between two functions).                  *)
(*                                                                         *)
(* The main thread also rebuilds the engine when its settings change, and  *)
(* a web worker deletes texts from the cache, under Lock. Speak_Factory's  *)
(* Cancel has no caller and is left out.                                   *)
(***************************************************************************)
EXTENDS Integers, Sequences

CONSTANTS Tasks,        \* texts to be spoken, each given to SpeakAsync once
          NoTask,
          Scripts,      \* those with the callback of a script
          MaxRebuilds   \* bound on the rebuilding of the engine

VARIABLES queue,        \* SpeakQueue
          lock,         \* who holds Lock
          stopFlag,     \* StopFlag
          spc, task,    \* the speech thread and its local task
          mpc, arg,     \* the main thread and the text it was given
          wpc,          \* a web worker that deletes from the cache
          cache,        \* the texts whose wav file is there
          asked,        \* the texts that were given to SpeakAsync
          spoken,       \* the texts that were spoken, in that order
          ended,        \* those whose callback was called
          rebuilds

vars == <<queue, lock, stopFlag, spc, task, mpc, arg, wpc, cache, asked, spoken, ended, rebuilds>>
main == <<mpc, arg>>
history == <<asked, spoken, ended, rebuilds>>

TypeOK == /\ queue \in Seq(asked)
          /\ lock \in {"free", "speech", "main", "web"}
          /\ stopFlag \in BOOLEAN
          /\ spc \in {"loop", "lock", "wait", "wake", "check", "pop", "speak", "speaking",
                      "end", "invoke", "exit"}
          /\ task \in Tasks \cup {NoTask}
          /\ mpc \in {"idle", "push", "fire", "sync", "remove", "stop", "join"}
          /\ arg \in Tasks \cup {NoTask}
          /\ wpc \in {"idle", "delete"}
          /\ lock = "speech" <=> spc = "speaking"
          /\ lock = "main" <=> mpc = "sync"
          /\ cache \subseteq Tasks /\ asked \subseteq Tasks
          /\ spoken \in Seq(asked)
          /\ ended \subseteq asked /\ rebuilds \in 0..MaxRebuilds

Init == /\ queue = <<>> /\ lock = "free" /\ stopFlag = FALSE
        /\ spc = "loop" /\ task = NoTask /\ mpc = "idle" /\ arg = NoTask /\ wpc = "idle"
        /\ cache = {} /\ asked = {} /\ spoken = <<>> /\ ended = {} /\ rebuilds = 0

-----------------------------------------------------------------------------
(* The main thread.                                                        *)

Serve(label, t) == /\ mpc = "idle" /\ mpc' = label /\ arg' = t
                   /\ UNCHANGED <<queue, lock, stopFlag, spc, task, wpc, cache, spoken, ended>>

SpeakAsync(t) == /\ t \notin asked /\ asked' = asked \cup {t}
                 /\ Serve("push", t) /\ UNCHANGED rebuilds

(* Mutant of PushQueeOnly: push_front.                                     *)
PushQueeFront == /\ mpc = "push" /\ lock = "free"
                 /\ queue' = <<arg>> \o queue /\ mpc' = "fire"
                 /\ UNCHANGED <<lock, stopFlag, spc, task, arg, wpc, cache>> /\ UNCHANGED history

PushQueeOnly == /\ mpc = "push" /\ lock = "free"
                /\ queue' = Append(queue, arg) /\ mpc' = "fire"
                /\ UNCHANGED <<lock, stopFlag, spc, task, arg, wpc, cache>> /\ UNCHANGED history

(* notify_one, without Lock. *)
Notified == IF spc = "wait" THEN "wake" ELSE spc
FireQuee == /\ mpc = "fire" /\ mpc' = "idle" /\ arg' = NoTask
            /\ spc' = Notified
            /\ UNCHANGED <<queue, lock, stopFlag, task, wpc, cache>> /\ UNCHANGED history

(* SpeakSync on the main thread: another holder of Lock.                   *)
SpeakSyncLock == /\ mpc = "idle" /\ lock = "free"
                 /\ mpc' = "sync" /\ lock' = "main"
                 /\ UNCHANGED <<queue, stopFlag, spc, task, arg, wpc, cache>> /\ UNCHANGED history
SpeakSyncUnlock == /\ mpc = "sync" /\ mpc' = "idle" /\ lock' = "free"
                   /\ UNCHANGED <<queue, stopFlag, spc, task, arg, wpc, cache>> /\ UNCHANGED history

(* ScriptRunner::Reset removes its callbacks: the engine takes Lock and    *)
(* gives it back; a text keeps its callback.                               *)
RemoveCallback == Serve("remove", NoTask) /\ UNCHANGED <<asked, rebuilds>>
CallbackRemoved == /\ mpc = "remove" /\ lock = "free" /\ mpc' = "idle"
                   /\ UNCHANGED <<queue, lock, stopFlag, spc, task, arg, wpc, cache>> /\ UNCHANGED history

(* ReCreateSpeakEngine: the destructor raises StopFlag, notifies, joins.   *)
Rebuild == /\ mpc = "idle" /\ rebuilds < MaxRebuilds
           /\ mpc' = "stop" /\ stopFlag' = TRUE /\ rebuilds' = rebuilds + 1
           /\ UNCHANGED <<queue, lock, spc, task, arg, wpc, cache, asked, spoken, ended>>
StopNotify == /\ mpc = "stop" /\ mpc' = "join" /\ spc' = Notified
              /\ UNCHANGED <<queue, lock, stopFlag, task, arg, wpc, cache>> /\ UNCHANGED history
Joined == /\ mpc = "join" /\ spc = "exit"
          /\ mpc' = "idle" /\ spc' = "loop" /\ stopFlag' = FALSE /\ queue' = <<>>
          /\ lock' = "free"
          /\ UNCHANGED <<task, arg, wpc, cache>> /\ UNCHANGED history

-----------------------------------------------------------------------------
(* A web worker: TryDeleteSpeakCacheDB. The Lock it gives back is that of  *)
(* the engine it found, which may have been deleted meanwhile.             *)
DeleteBegin == /\ wpc = "idle" /\ lock = "free" /\ wpc' = "delete" /\ lock' = "web"
               /\ UNCHANGED <<queue, stopFlag, spc, task, cache>> /\ UNCHANGED main /\ UNCHANGED history
DeleteSpeakCacheDB(t) ==
    /\ wpc = "delete" /\ wpc' = "idle" /\ cache' = cache \ {t}
    /\ lock' = IF lock = "web" THEN "free" ELSE lock
    /\ UNCHANGED <<queue, stopFlag, spc, task>> /\ UNCHANGED main /\ UNCHANGED history

-----------------------------------------------------------------------------
(* The speech thread.                                                      *)

Step(from, to) == /\ spc = from /\ spc' = to
                  /\ UNCHANGED <<stopFlag, wpc>> /\ UNCHANGED main
Quiet == UNCHANGED <<queue, lock, task, cache>> /\ UNCHANGED history

(* Mutant of LoopTest: StopFlag is only looked at after the wait.          *)
LoopTestNot == Step("loop", "lock") /\ Quiet

LoopTest == Step("loop", IF stopFlag THEN "exit" ELSE "lock") /\ Quiet

(* Mutant of TestAndWait: the thread waits without a look at the queue.    *)
WaitBlindly == Step("lock", "wait") /\ lock = "free" /\ Quiet

(* The queue is looked at and the wait begun in one critical section.      *)
TestAndWait == Step("lock", IF queue = <<>> THEN "wait" ELSE "check") /\ lock = "free" /\ Quiet
SpuriousWake == Step("wait", "wake") /\ Quiet
Awake == Step("wake", "check") /\ lock = "free" /\ Quiet
StopTest == Step("check", IF stopFlag THEN "exit" ELSE "pop") /\ Quiet

(* Mutant of Pop: the text is passed over, its callback is not.            *)
PopSilently == /\ Step("pop", IF queue = <<>> THEN "loop" ELSE "end") /\ lock = "free"
               /\ IF queue = <<>> THEN UNCHANGED <<queue, task>>
                  ELSE task' = Head(queue) /\ queue' = Tail(queue)
               /\ UNCHANGED <<lock, cache>> /\ UNCHANGED history

Pop == /\ Step("pop", IF queue = <<>> THEN "loop" ELSE "speak") /\ lock = "free"
       /\ IF queue = <<>> THEN UNCHANGED <<queue, task>>
          ELSE task' = Head(queue) /\ queue' = Tail(queue)
       /\ UNCHANGED <<lock, cache>> /\ UNCHANGED history

(* Mutant of SpeakSync: the lock_guard is left out.                        *)
SpeakSyncUnlocked == /\ Step("speak", "speaking") /\ cache' = cache \cup {task}
                     /\ UNCHANGED <<lock, queue, task>> /\ UNCHANGED history

(* SpeakSync: from the cache, or synthesised into it, and played.          *)
SpeakSync == /\ Step("speak", "speaking") /\ lock = "free" /\ lock' = "speech"
             /\ cache' = cache \cup {task}
             /\ UNCHANGED <<queue, task>> /\ UNCHANGED history
Spoken == /\ Step("speaking", "end") /\ lock' = "free"
          /\ spoken' = Append(spoken, task)
          /\ UNCHANGED <<queue, task, cache, asked, ended, rebuilds>>

(* SpeakEnd: nothing for NoCallback, else SyncInvoke.                      *)
SpeakEnd == /\ Step("end", IF task \in Scripts THEN "invoke" ELSE "loop")
            /\ task' = IF task \in Scripts THEN task ELSE NoTask
            /\ UNCHANGED <<queue, lock, cache>> /\ UNCHANGED history

(* The callback runs on the main thread.                                    *)
Invoked == /\ mpc = "idle" /\ Step("invoke", "loop")
           /\ ended' = ended \cup {task}
           /\ task' = NoTask
           /\ UNCHANGED <<queue, lock, cache, asked, spoken, rebuilds>>

MainNext == \/ (\E t \in Tasks : SpeakAsync(t)) \/ RemoveCallback
            \/ PushQueeOnly \/ FireQuee \/ SpeakSyncLock \/ SpeakSyncUnlock \/ CallbackRemoved
            \/ Rebuild \/ StopNotify \/ Joined
WebNext == DeleteBegin \/ \E t \in Tasks : DeleteSpeakCacheDB(t)
SpeechNext == \/ LoopTest \/ TestAndWait \/ SpuriousWake \/ Awake \/ StopTest
              \/ Pop \/ SpeakSync \/ Spoken \/ SpeakEnd \/ Invoked

Next == MainNext \/ WebNext \/ SpeechNext

Spec == Init /\ [][Next]_vars

(* Threads run, and a thread that keeps asking for Lock, or for the main   *)
(* thread, gets it. No wake-up is owed without a notification.             *)
Fairness ==
    /\ WF_vars(LoopTest) /\ WF_vars(StopTest) /\ WF_vars(Spoken) /\ WF_vars(SpeakEnd)
    /\ SF_vars(TestAndWait) /\ SF_vars(Awake) /\ SF_vars(Pop) /\ SF_vars(SpeakSync) /\ SF_vars(Invoked)
    /\ SF_vars(PushQueeOnly) /\ SF_vars(CallbackRemoved) /\ WF_vars(FireQuee)
    /\ WF_vars(SpeakSyncUnlock) /\ WF_vars(StopNotify) /\ WF_vars(Joined)
    /\ WF_vars(\E t \in Tasks : DeleteSpeakCacheDB(t))

FairSpec == Spec /\ Fairness

-----------------------------------------------------------------------------
Playing == IF spc \in {"speak", "speaking"} THEN task ELSE NoTask
PQ == INSTANCE PlayQueue WITH waiting <- queue, playing <- Playing, played <- spoken

(* Texts are spoken once, in the order of SpeakAsync, by whichever engine  *)
(* there is: Speech implements PlayQueue (Speak_OpenJTalk.cpp:122-166).    *)
ImplementsPlayQueue == PQ!QSpec

(* A callback comes after its text, never before and never for a text that *)
(* was not spoken (Speak_OpenJTalk.cpp:155-164).                           *)
CallbackAfterText == \A t \in ended : \E i \in 1..Len(spoken) : spoken[i] = t

(* Every text is spoken and every script hears of it: the notification is  *)
(* not lost between the test of the queue and the wait, with spurious      *)
(* wake-ups and Lock held by others (Speak_OpenJTalk.cpp:129-133). When    *)
(* the engine is rebuilt, its queue is thrown away.                        *)
TextIsSpoken == \A t \in Tasks :
    (t \in asked) ~> \/ (\E i \in 1..Len(spoken) : spoken[i] = t) /\ (t \in Scripts => t \in ended)
                     \/ rebuilds > 0

(* The destructor's join returns (Speak_OpenJTalk.cpp:34-41), unless the   *)
(* notification, which is given without Lock, finds the speech thread      *)
(* between its look at StopFlag and its wait, or that thread is in         *)
(* SyncInvoke and waits for the very thread that joins it.                 *)
EngineStops == (mpc = "join" /\ spc \notin {"lock", "wait"}) ~> (mpc = "idle" \/ spc = "invoke")
=============================================================================
