------------------------------ MODULE MainLoop ------------------------------
(***************************************************************************)
(* The message pump of MainWindow in the Linux build: the list Queue under *)
(* the mutex Lock and the condition variable EventObject, the main thread  *)
(* in BlockMessageLoop and RunMessagePump, and every other thread of the   *)
(* controller (web workers, triggers, speech, recognition, cloud) that     *)
(* hands functions to the main thread with SyncInvoke and AsyncInvoke or   *)
(* ends the program with Shutdown(level, false).                           *)
(*                                                                         *)
(* A critical section whose body touches nothing but Queue is one step,    *)
(* enabled while Lock is free; the pump's critical section, which spans    *)
(* the handlers of all queued messages, is as many steps as it has         *)
(* handlers and promises.                                                  *)
(***************************************************************************)
EXTENDS Integers, Sequences

CONSTANTS Threads,      \* the threads other than the main one
          Main,         \* the main thread
          NoOne,        \* the owner of a free mutex
          Levels,       \* the exit levels Shutdown is called with
          MaxCalls      \* bound on the calls one thread makes

ASSUME ThreadsAssumption == Main \notin Threads /\ NoOne \notin Threads /\ Main # NoOne
ASSUME LevelsAssumption == Levels \subseteq {0, 5, 10, 20, 30}
ASSUME MaxCallsAssumption == MaxCalls \in Nat

VARIABLES lock,         \* owner of MainWindow::Lock
          queue,        \* MainWindow::Queue
          stopFlag,     \* MainWindow::StopFlag
          exitLevel,    \* MainWindow::ExitLevel
          mpc,          \* where the main thread is
          idx,          \* the pump's iterator, 0 outside the pump
          retCode,      \* what BlockMessageLoop returned, -1 before that
          pc,           \* where each other thread is
          future,       \* state of the promise on a SyncInvoke caller's stack
          calls,        \* calls a thread has made
          ran           \* history: the functions executed, in order

threadVars == <<pc, future, calls>>
mainVars == <<mpc, idx, retCode, ran>>
vars == <<lock, queue, stopFlag, exitLevel, mpc, idx, retCode, pc, future, calls, ran>>

ErrorLevel == 5         \* EXITCODE_LEVEL_ERROR
NormalEnd == 0          \* EXITCODE_LEVEL_NORMALEND

(* struct Message. result says whether it->result points at the promise on *)
(* the stack of the sending thread; <<from, n>> identifies the function.   *)
Message == [kind : {"callback", "destroy"}, from : Threads, n : 1..MaxCalls,
            level : Levels \cup {ErrorLevel}, result : BOOLEAN]

MainStates == {"test", "enter", "asleep", "waking", "recheck", "pump",
               "next", "handler", "setvalue", "settle", "done"}
PumpStates == {"next", "handler", "setvalue", "settle"}
ThreadStates == {"idle", "send", "post", "destroy", "sent", "posted", "get", "spin"}

(* The states of a thread in which the stack frame of SendMessage, and the *)
(* promise in it, exists and is known to the queue.                        *)
FrameStates == {"sent", "get", "spin"}

TypeOK == /\ lock \in Threads \cup {Main, NoOne}
          /\ queue \in Seq(Message)
          /\ stopFlag \in BOOLEAN
          /\ exitLevel \in Levels \cup {ErrorLevel}
          /\ mpc \in MainStates
          /\ idx \in Nat
          /\ retCode \in Levels \cup {ErrorLevel, NormalEnd, -1}
          /\ pc \in [Threads -> ThreadStates]
          /\ future \in [Threads -> {"unset", "set"}]
          /\ calls \in [Threads -> 0..MaxCalls]
          /\ ran \in Seq(Threads \X (1..MaxCalls))

(* MainWindow::Create, up to the start of the threads by OnInit.           *)
Init == /\ lock = NoOne
        /\ queue = <<>>
        /\ stopFlag = FALSE
        /\ exitLevel = ErrorLevel
        /\ mpc = "test"
        /\ idx = 0
        /\ retCode = -1
        /\ pc = [t \in Threads |-> "idle"]
        /\ future = [t \in Threads |-> "unset"]
        /\ calls = [t \in Threads |-> 0]
        /\ ran = <<>>

-----------------------------------------------------------------------------
(* The main thread: BlockMessageLoop.                                      *)

MainGoesTo(s) == mpc' = s /\ UNCHANGED <<idx, retCode, ran>>

(* Mutant of LoopTest: while(true), the flag is only looked at after a wait. *)
LoopForever ==
    /\ mpc = "test"
    /\ MainGoesTo("enter")
    /\ UNCHANGED <<lock, queue, stopFlag, exitLevel>> /\ UNCHANGED threadVars

(* while(!this->StopFlag) ... return this->ExitLevel                       *)
LoopTest ==
    /\ mpc = "test"
    /\ IF stopFlag
         THEN mpc' = "done" /\ retCode' = exitLevel
         ELSE mpc' = "enter" /\ UNCHANGED retCode
    /\ UNCHANGED <<lock, queue, stopFlag, exitLevel, idx, ran>> /\ UNCHANGED threadVars

(* if (this->Queue.empty()) this->EventObject.wait(al)                     *)
EnterWait ==
    /\ mpc = "enter"
    /\ lock = NoOne
    /\ MainGoesTo(IF queue = <<>> THEN "asleep" ELSE "recheck")
    /\ UNCHANGED <<lock, queue, stopFlag, exitLevel>> /\ UNCHANGED threadVars

(* A condition variable may also wake up without a notification.           *)
SpuriousWake ==
    /\ mpc = "asleep"
    /\ MainGoesTo("waking")
    /\ UNCHANGED <<lock, queue, stopFlag, exitLevel>> /\ UNCHANGED threadVars

(* wait returns once it holds Lock again; the block ends and releases it.  *)
LeaveWait ==
    /\ mpc = "waking"
    /\ lock = NoOne
    /\ MainGoesTo("recheck")
    /\ UNCHANGED <<lock, queue, stopFlag, exitLevel>> /\ UNCHANGED threadVars

(* if (this->StopFlag) return EXITCODE_LEVEL_NORMALEND                     *)
Recheck ==
    /\ mpc = "recheck"
    /\ IF stopFlag
         THEN mpc' = "done" /\ retCode' = NormalEnd
         ELSE mpc' = "pump" /\ UNCHANGED retCode
    /\ UNCHANGED <<lock, queue, stopFlag, exitLevel, idx, ran>> /\ UNCHANGED threadVars

-----------------------------------------------------------------------------
(* The main thread: RunMessagePump, WndProc and OnDestory.                 *)

PumpLock ==
    /\ mpc = "pump"
    /\ lock = NoOne
    /\ lock' = Main
    /\ mpc' = "next"
    /\ idx' = 1
    /\ UNCHANGED <<queue, stopFlag, exitLevel, retCode, ran>> /\ UNCHANGED threadVars

(* Mutant of BeginHandler: OnDestory is given lParam (isForce) for wParam. *)
BeginHandlerLParam ==
    /\ mpc = "next"
    /\ idx <= Len(queue)
    /\ mpc' = "handler"
    /\ IF queue[idx].kind = "destroy"
         THEN stopFlag' = TRUE /\ exitLevel' = 0
         ELSE UNCHANGED <<stopFlag, exitLevel>>
    /\ UNCHANGED <<lock, queue, idx, retCode, ran>> /\ UNCHANGED threadVars

(* WndProc for the message at the iterator. A WM_DESTROY runs OnDestory,   *)
(* which sets the flag and the level before it stops the web server.       *)
BeginHandler ==
    /\ mpc = "next"
    /\ idx <= Len(queue)
    /\ mpc' = "handler"
    /\ IF queue[idx].kind = "destroy"
         THEN stopFlag' = TRUE /\ exitLevel' = queue[idx].level
         ELSE UNCHANGED <<stopFlag, exitLevel>>
    /\ UNCHANGED <<lock, queue, idx, retCode, ran>> /\ UNCHANGED threadVars

(* WndProc returns; a message without a promise is finished with.          *)
EndHandler ==
    /\ mpc = "handler"
    /\ ran' = Append(ran, <<queue[idx].from, queue[idx].n>>)
    /\ IF queue[idx].result THEN mpc' = "setvalue" /\ UNCHANGED idx
                            ELSE mpc' = "next" /\ idx' = idx + 1
    /\ UNCHANGED <<lock, queue, stopFlag, exitLevel, retCode>> /\ UNCHANGED threadVars

(* it->result->set_value(r): the caller can see the value from here on ... *)
SetValue ==
    /\ mpc = "setvalue"
    /\ mpc' = "settle"
    /\ future' = [future EXCEPT ![queue[idx].from] = "set"]
    /\ UNCHANGED <<lock, queue, stopFlag, exitLevel, idx, retCode, ran, pc, calls>>

(* ... while set_value, still inside the promise, returns. it->result = NULL *)
Settle ==
    /\ mpc = "settle"
    /\ queue' = [queue EXCEPT ![idx].result = FALSE]
    /\ mpc' = "next"
    /\ idx' = idx + 1
    /\ UNCHANGED <<lock, stopFlag, exitLevel, retCode, ran>> /\ UNCHANGED threadVars

(* Mutant of PumpClear: the queue is not emptied, its messages run again.  *)
PumpKeep ==
    /\ mpc = "next"
    /\ idx > Len(queue)
    /\ lock' = NoOne
    /\ mpc' = "test"
    /\ idx' = 0
    /\ UNCHANGED <<queue, stopFlag, exitLevel, retCode, ran>> /\ UNCHANGED threadVars

(* this->Queue.clear(), and lock_guard releases Lock.                      *)
PumpClear ==
    /\ mpc = "next"
    /\ idx > Len(queue)
    /\ queue' = <<>>
    /\ lock' = NoOne
    /\ mpc' = "test"
    /\ idx' = 0
    /\ UNCHANGED <<stopFlag, exitLevel, retCode, ran>> /\ UNCHANGED threadVars

-----------------------------------------------------------------------------
(* The other threads: SyncInvoke, AsyncInvoke, Shutdown(level, false).     *)

ThreadGoesTo(t, s) == pc' = [pc EXCEPT ![t] = s]

CanCall(t) == pc[t] = "idle" /\ calls[t] < MaxCalls

(* Mutant of SyncInvoke: one promise for all calls of a thread.            *)
SyncInvokeOldPromise(t) ==
    /\ CanCall(t)
    /\ calls' = [calls EXCEPT ![t] = @ + 1]
    /\ IF stopFlag THEN UNCHANGED pc ELSE ThreadGoesTo(t, "send")
    /\ UNCHANGED <<lock, queue, stopFlag, exitLevel, future>> /\ UNCHANGED mainVars

(* if (this->StopFlag) return, read without Lock; otherwise SendMessage.   *)
SyncInvoke(t) ==
    /\ CanCall(t)
    /\ calls' = [calls EXCEPT ![t] = @ + 1]
    /\ IF stopFlag THEN UNCHANGED <<pc, future>>
                   ELSE /\ ThreadGoesTo(t, "send")
                        /\ future' = [future EXCEPT ![t] = "unset"]
    /\ UNCHANGED <<lock, queue, stopFlag, exitLevel>> /\ UNCHANGED mainVars

AsyncInvoke(t) ==
    /\ CanCall(t)
    /\ calls' = [calls EXCEPT ![t] = @ + 1]
    /\ IF stopFlag THEN UNCHANGED pc ELSE ThreadGoesTo(t, "post")
    /\ UNCHANGED <<lock, queue, stopFlag, exitLevel, future>> /\ UNCHANGED mainVars

Shutdown(t) ==
    /\ CanCall(t)
    /\ calls' = [calls EXCEPT ![t] = @ + 1]
    /\ ThreadGoesTo(t, "destroy")
    /\ UNCHANGED <<lock, queue, stopFlag, exitLevel, future>> /\ UNCHANGED mainVars

(* Mutant of Push: the message jumps the queue (push_front).               *)
PushFront(t, kind, level, hasResult) ==
    /\ lock = NoOne
    /\ queue' = <<[kind |-> kind, from |-> t, n |-> calls[t],
                   level |-> level, result |-> hasResult]>> \o queue
    /\ UNCHANGED <<lock, stopFlag, exitLevel, future, calls>> /\ UNCHANGED mainVars

(* lock_guard<mutex> al(this->Lock); this->Queue.push_back(m)              *)
Push(t, kind, level, hasResult) ==
    /\ lock = NoOne
    /\ queue' = Append(queue, [kind |-> kind, from |-> t, n |-> calls[t],
                               level |-> level, result |-> hasResult])
    /\ UNCHANGED <<lock, stopFlag, exitLevel, future, calls>> /\ UNCHANGED mainVars

(* SendMessage and PostMessage: the block that pushes under Lock.          *)
SendPush(t) == pc[t] = "send" /\ ThreadGoesTo(t, "sent") /\ Push(t, "callback", ErrorLevel, TRUE)

PostPush(t) == pc[t] = "post" /\ ThreadGoesTo(t, "posted") /\ Push(t, "callback", ErrorLevel, FALSE)

DestroyPush(t) == /\ pc[t] = "destroy"
                  /\ ThreadGoesTo(t, "posted")
                  /\ \E level \in Levels : Push(t, "destroy", level, FALSE)

(* Mutant of Notify: the notification is forgotten.                        *)
NoNotify(t) ==
    /\ pc[t] \in {"sent", "posted"}
    /\ ThreadGoesTo(t, IF pc[t] = "sent" THEN "get" ELSE "idle")
    /\ UNCHANGED <<lock, queue, stopFlag, exitLevel, mpc, idx, retCode, ran, future, calls>>

(* this->EventObject.notify_one(), after Lock was released; PostMessage    *)
(* is over, SendMessage goes on to the future.                             *)
Notify(t) ==
    /\ pc[t] \in {"sent", "posted"}
    /\ ThreadGoesTo(t, IF pc[t] = "sent" THEN "get" ELSE "idle")
    /\ mpc' = IF mpc = "asleep" THEN "waking" ELSE mpc
    /\ UNCHANGED <<lock, queue, stopFlag, exitLevel, idx, retCode, ran, future, calls>>

(* Mutant of FutureGet: return as soon as the value is there, without the  *)
(* wait for an empty queue.                                                *)
FutureGetReturn(t) ==
    /\ pc[t] = "get"
    /\ future[t] = "set"
    /\ ThreadGoesTo(t, "idle")
    /\ UNCHANGED <<lock, queue, stopFlag, exitLevel, future, calls>> /\ UNCHANGED mainVars

(* Mutant of FutureGet: the value is taken without waiting for it.         *)
FutureGetNoWait(t) ==
    /\ pc[t] = "get"
    /\ ThreadGoesTo(t, "spin")
    /\ UNCHANGED <<lock, queue, stopFlag, exitLevel, future, calls>> /\ UNCHANGED mainVars

(* LRESULT result = future.get()                                           *)
FutureGet(t) ==
    /\ pc[t] = "get"
    /\ future[t] = "set"
    /\ ThreadGoesTo(t, "spin")
    /\ UNCHANGED <<lock, queue, stopFlag, exitLevel, future, calls>> /\ UNCHANGED mainVars

(* while(true) { lock; if (this->Queue.size() <= 0) break; } A turn that   *)
(* finds the queue filled changes nothing.                                 *)
SpinReturn(t) ==
    /\ pc[t] = "spin"
    /\ lock = NoOne
    /\ queue = <<>>
    /\ ThreadGoesTo(t, "idle")
    /\ UNCHANGED <<lock, queue, stopFlag, exitLevel, future, calls>> /\ UNCHANGED mainVars

-----------------------------------------------------------------------------
BlockMessageLoop == LoopTest \/ EnterWait \/ LeaveWait \/ Recheck
RunMessagePump == PumpLock \/ BeginHandler \/ EndHandler \/ SetValue \/ Settle \/ PumpClear
MainStep == BlockMessageLoop \/ RunMessagePump

Invoke(t) == SyncInvoke(t) \/ AsyncInvoke(t) \/ Shutdown(t)
ThreadStep(t) == SendPush(t) \/ PostPush(t) \/ DestroyPush(t) \/ Notify(t)
                 \/ FutureGet(t) \/ SpinReturn(t)

Next == \/ MainStep
        \/ SpuriousWake
        \/ \E t \in Threads : Invoke(t) \/ ThreadStep(t)

Spec == Init /\ [][Next]_vars

(* A thread in the middle of a call, and the main thread, are scheduled.   *)
(* The mutex is not kept for ever from a thread that asks for it again and *)
(* again: strong fairness, as the pump, run by spurious wake-ups, takes it *)
(* infinitely often. Nobody has to make a call, and no spurious wake-up    *)
(* has to come.                                                            *)
FairSpec == /\ Spec
            /\ WF_vars(MainStep)
            /\ \A t \in Threads : SF_vars(ThreadStep(t))

-----------------------------------------------------------------------------
(* Properties.                                                             *)

(* Whenever the pump holds a pointer to a promise, the stack frame of the  *)
(* SendMessage that owns the promise still exists: also while set_value,   *)
(* whose value the caller may already have seen, has not returned          *)
(* (MainWindow.cpp:485 against 520-535).                                   *)
PromiseAlive ==
    \A i \in 1..Len(queue) : queue[i].result => pc[queue[i].from] \in FrameStates

(* set_value is never applied to a promise that has its value: no          *)
(* "Promise already satisfied" (MainWindow.cpp:485 and the comment at 523).*)
PromiseSetOnce == mpc = "setvalue" => future[queue[idx].from] = "unset"

(* A caller that got the value of its future, and so goes on to return     *)
(* from SyncInvoke, has had its function executed (MainWindow.cpp:521).    *)
SyncInvokeRan ==
    \A t \in Threads : pc[t] = "spin" => \E i \in 1..Len(ran) : ran[i] = <<t, calls[t]>>

(* The functions of one thread run in the order of its calls, and none     *)
(* runs twice, although the pump leaves them in the list until it has run  *)
(* them all (MainWindow.cpp:480-489).                                      *)
RunInCallOrder ==
    \A i, j \in 1..Len(ran) : i < j /\ ran[i][1] = ran[j][1] => ran[i][2] < ran[j][2]

(* The loop returns the level that a WM_DESTROY carried: the early return  *)
(* of NORMALEND at MainWindow.cpp:172 never swallows a reboot or upgrade.  *)
ExitLevelHonoured == mpc = "done" => stopFlag /\ retCode = exitLevel

(* As long as the program is not told to stop, a SyncInvoke returns: no    *)
(* notification is lost between the emptiness test and the wait            *)
(* (MainWindow.cpp:163-167, 505-535).                                      *)
SyncInvokeReturns ==
    \A t \in Threads : pc[t] = "send" ~> (pc[t] = "idle" \/ stopFlag)

(* The pump implements the first-in first-out queue of functions that its  *)
(* callers rely on: the part of the list behind the iterator is what is    *)
(* still to be executed.                                                   *)
Handled == IF mpc \notin PumpStates THEN 0
           ELSE IF mpc \in {"setvalue", "settle"} THEN idx ELSE idx - 1

pendingIds == [i \in 1..(Len(queue) - Handled) |->
                  <<queue[i + Handled].from, queue[i + Handled].n>>]

blockedCalls == [t \in Threads |-> IF pc[t] \in FrameStates THEN calls[t] ELSE 0]

Abstract == INSTANCE MainThreadQueue
                WITH pending <- pendingIds, executed <- ran, blocked <- blockedCalls

ImplementsMainThreadQueue == Abstract!Spec
=============================================================================
