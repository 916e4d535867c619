--------------------------- MODULE MainLoopProofs ---------------------------
(***************************************************************************)
(* The safety properties of the message pump for any number of threads and *)
(* calls. The properties are not inductive: PromiseAlive needs to know     *)
(* that a message still holding a promise belongs to the call its sender   *)
(* is in, that no two such messages are of one sender, and that Lock is    *)
(* held from the first handler to the clearing of the list.                *)
(***************************************************************************)
EXTENDS MainLoop, SequenceTheorems, TLAPS

LockInv == /\ lock \in {Main, NoOne}
           /\ lock = Main <=> mpc \in PumpStates

IterInv == /\ mpc \in PumpStates => idx \in 1..(Len(queue) + 1)
           /\ mpc \in {"handler", "setvalue", "settle"} => idx <= Len(queue)
           /\ mpc \in {"setvalue", "settle"} => queue[idx].result

(* i is the message whose promise has its value and is being left.         *)
Settling(i) == mpc = "settle" /\ i = idx

PromiseInv ==
    \A i \in 1..Len(queue) : queue[i].result =>
        /\ \/ pc[queue[i].from] \in {"sent", "get"}
           \/ Settling(i) /\ pc[queue[i].from] = "spin"
        /\ queue[i].n = calls[queue[i].from]
        /\ future[queue[i].from] = "unset" \/ Settling(i)

OnePromise ==
    \A i, j \in 1..Len(queue) :
        queue[i].result /\ queue[j].result /\ queue[i].from = queue[j].from => i = j

RanIn(r, id) == \E i \in 1..Len(r) : r[i] = id

RanInv == /\ \A t \in Threads : pc[t] = "send" => future[t] = "unset"
          /\ \A t \in Threads : pc[t] = "spin" => future[t] = "set"
          /\ \A t \in Threads : pc[t] \in FrameStates /\ future[t] = "set" => RanIn(ran, <<t, calls[t]>>)
          /\ mpc \in {"setvalue", "settle"} => RanIn(ran, <<queue[idx].from, queue[idx].n>>)

StopInv == /\ stopFlag => mpc \in PumpStates \cup {"test", "done"}
           /\ mpc = "done" => stopFlag /\ retCode = exitLevel

(* A call in progress has a number of its own.                             *)
CallInv == \A t \in Threads : pc[t] # "idle" => calls[t] \in 1..MaxCalls

IInv == TypeOK /\ LockInv /\ IterInv /\ PromiseInv /\ OnePromise /\ RanInv /\ StopInv /\ CallInv

-----------------------------------------------------------------------------
(* The initial state, Create's, satisfies the invariant.                   *)
LEMMA InitIInv == Init => IInv
  <1> SUFFICES ASSUME Init PROVE IInv
    OBVIOUS
  <1>1. TypeOK
    <2>1. queue \in Seq(Message) /\ ran \in Seq(Threads \X (1..MaxCalls))
      BY DEF Init
    <2>2. calls \in [Threads -> 0..MaxCalls]
      BY MaxCallsAssumption DEF Init
    <2>3. pc \in [Threads -> ThreadStates] /\ future \in [Threads -> {"unset", "set"}]
      BY DEF Init, ThreadStates
    <2>4. idx \in Nat /\ retCode \in Levels \cup {ErrorLevel, NormalEnd, -1}
      BY DEF Init
    <2>5. stopFlag \in BOOLEAN /\ mpc \in MainStates
          /\ exitLevel \in Levels \cup {ErrorLevel} /\ lock \in Threads \cup {Main, NoOne}
      BY DEF Init, MainStates
    <2> QED
      BY <2>1, <2>2, <2>3, <2>4, <2>5 DEF TypeOK
  <1>2. LockInv /\ IterInv /\ PromiseInv /\ OnePromise
    BY ThreadsAssumption DEF Init, LockInv, IterInv, PromiseInv, OnePromise, PumpStates
  <1>3. RanInv /\ StopInv /\ CallInv
    BY DEF Init, RanInv, StopInv, CallInv, FrameStates, PumpStates
  <1> QED
    BY <1>1, <1>2, <1>3 DEF IInv

(* Steps of the main thread outside the pump: none of them touches the     *)
(* queue, the other threads or the history.                                *)
LEMMA LoopIInv ==
  ASSUME IInv, LoopTest \/ EnterWait \/ SpuriousWake \/ LeaveWait \/ Recheck
  PROVE  IInv'
  <1>1. /\ UNCHANGED <<lock, queue, stopFlag, exitLevel, idx, ran, pc, future, calls>>
        /\ mpc \notin PumpStates /\ mpc' \notin PumpStates
        /\ mpc' \in MainStates
    BY DEF LoopTest, EnterWait, SpuriousWake, LeaveWait, Recheck, MainGoesTo, threadVars,
           PumpStates, MainStates, IInv, TypeOK
  <1>2. retCode' \in Levels \cup {ErrorLevel, NormalEnd, -1}
    BY DEF LoopTest, EnterWait, SpuriousWake, LeaveWait, Recheck, MainGoesTo, IInv, TypeOK
  <1>3. TypeOK'
    BY <1>1, <1>2 DEF IInv, TypeOK
  <1>4. LockInv' /\ IterInv'
    BY <1>1 DEF IInv, LockInv, IterInv, PumpStates
  <1>5. PromiseInv' /\ OnePromise' /\ CallInv'
    BY <1>1 DEF IInv, PromiseInv, OnePromise, CallInv, Settling, PumpStates
  <1>6. RanInv'
    BY <1>1 DEF IInv, RanInv, RanIn, PumpStates
  <1>7. StopInv'
    BY <1>1 DEF IInv, StopInv, LoopTest, EnterWait, SpuriousWake, LeaveWait, Recheck,
                MainGoesTo, PumpStates
  <1> QED
    BY <1>3, <1>4, <1>5, <1>6, <1>7 DEF IInv

(* The message at the pump's iterator is a message of some thread.         *)
LEMMA QueuedMessage ==
  ASSUME queue \in Seq(Message), NEW i \in 1..Len(queue)
  PROVE  queue[i] \in Message /\ queue[i].from \in Threads
  <1>1. queue[i] \in Message
    OBVIOUS
  <1> QED
    BY <1>1 DEF Message

(* Taking Lock for a turn of the pump.                                     *)
LEMMA PumpLockIInv == ASSUME IInv, PumpLock PROVE IInv'
  <1>1. TypeOK'
    BY DEF IInv, TypeOK, PumpLock, threadVars, MainStates
  <1>2. LockInv' /\ IterInv' /\ StopInv' /\ CallInv'
    BY DEF IInv, TypeOK, LockInv, IterInv, StopInv, CallInv, PumpLock, threadVars, PumpStates
  <1>3. PromiseInv' /\ OnePromise' /\ RanInv'
    BY DEF IInv, PromiseInv, OnePromise, RanInv, RanIn, Settling, PumpLock, threadVars
  <1> QED
    BY <1>1, <1>2, <1>3 DEF IInv

(* WndProc is entered: at most the flag and the level change, together.    *)
LEMMA BeginHandlerIInv == ASSUME IInv, BeginHandler PROVE IInv'
  <1>1. queue[idx] \in Message
    BY DEF IInv, TypeOK, IterInv, BeginHandler, PumpStates
  <1>2. TypeOK'
    BY <1>1 DEF IInv, TypeOK, BeginHandler, threadVars, MainStates, Message
  <1>3. LockInv' /\ IterInv' /\ StopInv' /\ CallInv'
    BY DEF IInv, LockInv, IterInv, StopInv, CallInv, BeginHandler, threadVars, PumpStates
  <1>4. PromiseInv' /\ OnePromise' /\ RanInv'
    BY DEF IInv, PromiseInv, OnePromise, RanInv, RanIn, Settling, BeginHandler, threadVars
  <1> QED
    BY <1>2, <1>3, <1>4 DEF IInv

(* A longer history still records what it recorded.                        *)
LEMMA RanAppend ==
  ASSUME NEW S, ran \in Seq(S), NEW id \in S, ran' = Append(ran, id)
  PROVE  /\ \A x : RanIn(ran, x) => RanIn(ran', x)
         /\ RanIn(ran', id)
  <1>1. /\ Len(ran') = Len(ran) + 1 /\ Len(ran) \in Nat
        /\ \A i \in 1..Len(ran) : ran'[i] = ran[i]
        /\ ran'[Len(ran) + 1] = id
    OBVIOUS
  <1> QED
    BY <1>1 DEF RanIn

(* A handler has returned: its function is in the history, and its         *)
(* promise, if there is one, is about to be set.                           *)
LEMMA EndHandlerIInv == ASSUME IInv, EndHandler PROVE IInv'
  <1> DEFINE id == <<queue[idx].from, queue[idx].n>>
  <1>1. queue[idx] \in Message /\ idx \in Nat /\ idx \in 1..Len(queue)
    BY DEF IInv, TypeOK, IterInv, EndHandler, PumpStates
  <1>2. id \in Threads \X (1..MaxCalls)
    BY <1>1 DEF Message
  <1>3. ran' = Append(ran, id)
    BY DEF EndHandler
  <1>4. /\ \A x : RanIn(ran, x) => RanIn(ran', x)
        /\ RanIn(ran', id)
    BY <1>2, <1>3, RanAppend DEF IInv, TypeOK
  <1>5. TypeOK'
    <2>1. ran' \in Seq(Threads \X (1..MaxCalls))
      BY <1>2, <1>3 DEF IInv, TypeOK
    <2> QED
      BY <1>1, <2>1 DEF IInv, TypeOK, EndHandler, threadVars, MainStates
  <1>6. LockInv' /\ IterInv' /\ StopInv' /\ CallInv'
    BY <1>1 DEF IInv, TypeOK, LockInv, IterInv, StopInv, CallInv, EndHandler, threadVars, PumpStates
  <1>7. PromiseInv' /\ OnePromise'
    BY DEF IInv, PromiseInv, OnePromise, Settling, EndHandler, threadVars
  <1>8. RanInv'
    <2>1. UNCHANGED <<pc, future, calls, queue>> /\ (mpc' \in {"setvalue", "settle"} => idx' = idx)
      BY DEF EndHandler, threadVars
    <2>2. mpc' \in {"setvalue", "settle"} => RanIn(ran', <<queue'[idx'].from, queue'[idx'].n>>)
      BY <2>1, <1>4
    <2> QED
      BY <2>1, <2>2, <1>4 DEF IInv, RanInv
  <1> QED
    BY <1>5, <1>6, <1>7, <1>8 DEF IInv

(* set_value: the promise is that of a caller still inside SendMessage,    *)
(* and it has no value yet.                                                *)
LEMMA SetValueIInv == ASSUME IInv, SetValue PROVE IInv'
  <1>1. queue[idx] \in Message /\ idx \in Nat /\ idx \in 1..Len(queue) /\ queue[idx].result
    BY DEF IInv, TypeOK, IterInv, SetValue, PumpStates
  <1>2. queue[idx].from \in Threads
    BY <1>1 DEF Message
  <1>3. TypeOK'
    BY <1>2 DEF IInv, TypeOK, SetValue, MainStates
  <1>4. LockInv' /\ IterInv' /\ StopInv' /\ CallInv' /\ OnePromise'
    BY <1>1 DEF IInv, LockInv, IterInv, StopInv, CallInv, OnePromise, SetValue, PumpStates
  <1>5. PromiseInv'
    <2> SUFFICES ASSUME NEW i \in 1..Len(queue), queue[i].result
                 PROVE  /\ \/ pc[queue[i].from] \in {"sent", "get"}
                           \/ Settling(i)' /\ pc[queue[i].from] = "spin"
                        /\ queue[i].n = calls[queue[i].from]
                        /\ future'[queue[i].from] = "unset" \/ Settling(i)'
      BY DEF PromiseInv, SetValue
    <2>1. queue[i].from = queue[idx].from => i = idx
      BY <1>1 DEF IInv, OnePromise
    <2>2. queue[i].from \in Threads
      BY QueuedMessage DEF IInv, TypeOK
    <2>3. mpc = "setvalue" /\ mpc' = "settle" /\ idx' = idx
      BY DEF SetValue
    <2> QED
      BY <2>1, <2>2, <2>3, <1>2 DEF IInv, TypeOK, PromiseInv, Settling, SetValue
  <1>6. RanInv'
    <2>1. RanIn(ran, <<queue[idx].from, calls[queue[idx].from]>>)
      BY <1>1 DEF IInv, RanInv, PromiseInv, SetValue
    <2>2. pc[queue[idx].from] # "send"
      BY <1>1 DEF IInv, PromiseInv
    <2> QED
      BY <2>1, <2>2, <1>2 DEF IInv, TypeOK, RanInv, SetValue
  <1> QED
    BY <1>3, <1>4, <1>5, <1>6 DEF IInv

(* The message lets go of its promise, so that the caller may leave.       *)
LEMMA SettleIInv == ASSUME IInv, Settle PROVE IInv'
  <1>1. queue[idx] \in Message /\ idx \in Nat /\ idx \in 1..Len(queue) /\ Len(queue) \in Nat
    BY DEF IInv, TypeOK, IterInv, Settle, PumpStates
  <1>2. queue' = [queue EXCEPT ![idx] = [queue[idx] EXCEPT !.result = FALSE]]
    BY DEF Settle
  <1>3. [queue[idx] EXCEPT !.result = FALSE] \in Message
    BY <1>1 DEF Message
  <1>4. /\ queue' \in Seq(Message) /\ Len(queue') = Len(queue)
        /\ \A i \in 1..Len(queue) : i # idx => queue'[i] = queue[i]
        /\ ~ queue'[idx].result
    BY <1>1, <1>2, <1>3 DEF IInv, TypeOK, Message
  <1>5. TypeOK'
    BY <1>1, <1>4 DEF IInv, TypeOK, Settle, threadVars, MainStates
  <1>6. LockInv' /\ IterInv' /\ StopInv' /\ CallInv'
    BY <1>1, <1>4 DEF IInv, LockInv, IterInv, StopInv, CallInv, Settle, threadVars, PumpStates
  <1>7. PromiseInv' /\ OnePromise'
    <2>1. \A i \in 1..Len(queue') : queue'[i].result => i # idx /\ queue'[i] = queue[i]
      BY <1>4
    <2> QED
      BY <2>1, <1>4 DEF IInv, PromiseInv, OnePromise, Settling, Settle, threadVars
  <1>8. RanInv'
    BY DEF IInv, RanInv, RanIn, Settle, threadVars
  <1> QED
    BY <1>5, <1>6, <1>7, <1>8 DEF IInv

(* By the time the list is cleared no message in it has a promise.         *)
LEMMA PumpClearIInv == ASSUME IInv, PumpClear PROVE IInv'
  <1>1. TypeOK'
    <2>1. queue' \in Seq(Message)
      BY DEF PumpClear
    <2> QED
      BY <2>1 DEF IInv, TypeOK, PumpClear, threadVars, MainStates
  <1>2. LockInv' /\ IterInv' /\ StopInv' /\ CallInv'
    BY ThreadsAssumption
    DEF IInv, LockInv, IterInv, StopInv, CallInv, PumpClear, threadVars, PumpStates
  <1>3. PromiseInv' /\ OnePromise'
    <2>1. Len(queue') = 0
      BY DEF PumpClear
    <2> QED
      BY <2>1 DEF PromiseInv, OnePromise
  <1>4. RanInv'
    BY DEF IInv, RanInv, PumpClear, threadVars
  <1> QED
    BY <1>1, <1>2, <1>3, <1>4 DEF IInv

-----------------------------------------------------------------------------
(* Steps of the other threads. A thread that is not inside SendMessage     *)
(* owns no promise the queue knows of.                                     *)
LEMMA NoPromiseOutside ==
  ASSUME IInv, NEW t \in Threads, pc[t] \notin FrameStates,
         NEW i \in 1..Len(queue), queue[i].result
  PROVE  queue[i].from # t
  BY DEF IInv, PromiseInv, FrameStates

(* A thread begins SyncInvoke, AsyncInvoke or Shutdown, with a fresh       *)
(* promise in the first case.                                              *)
LEMMA CallIInv ==
  ASSUME IInv, NEW t \in Threads, Invoke(t)
  PROVE  IInv'
  <1>1. /\ UNCHANGED <<lock, queue, stopFlag, exitLevel, mpc, idx, retCode, ran>>
        /\ pc[t] = "idle" /\ calls[t] < MaxCalls
        /\ calls' = [calls EXCEPT ![t] = @ + 1]
    BY DEF Invoke, SyncInvoke, AsyncInvoke, Shutdown, CanCall, mainVars
  <1>2. \E s \in {"idle", "send", "post", "destroy"} : pc' = [pc EXCEPT ![t] = s]
    BY <1>1 DEF Invoke, SyncInvoke, AsyncInvoke, Shutdown, ThreadGoesTo, IInv, TypeOK
  <1>3. \/ future' = future /\ pc'[t] # "send"
        \/ future' = [future EXCEPT ![t] = "unset"]
    BY <1>1, <1>2 DEF Invoke, SyncInvoke, AsyncInvoke, Shutdown, ThreadGoesTo, IInv, TypeOK
  <1>4. /\ calls[t] \in 0..MaxCalls /\ calls[t] + 1 \in 1..MaxCalls
        /\ calls'[t] = calls[t] + 1
        /\ \A u \in Threads : u # t => calls'[u] = calls[u] /\ pc'[u] = pc[u] /\ future'[u] = future[u]
        /\ pc'[t] \in {"idle", "send", "post", "destroy"}
        /\ pc'[t] = "send" => future'[t] = "unset"
    BY <1>1, <1>2, <1>3, MaxCallsAssumption DEF IInv, TypeOK
  <1>5. TypeOK'
    <2>1. calls' \in [Threads -> 0..MaxCalls]
      BY <1>1, <1>4 DEF IInv, TypeOK
    <2>2. pc' \in [Threads -> ThreadStates]
      BY <1>2 DEF IInv, TypeOK, ThreadStates
    <2>3. future' \in [Threads -> {"unset", "set"}]
      BY <1>3 DEF IInv, TypeOK
    <2> QED
      BY <1>1, <2>1, <2>2, <2>3 DEF IInv, TypeOK
  <1>6. LockInv' /\ IterInv' /\ StopInv' /\ OnePromise'
    BY <1>1 DEF IInv, LockInv, IterInv, StopInv, OnePromise
  <1>7. CallInv'
    BY <1>4 DEF IInv, CallInv
  <1>8. PromiseInv'
    <2> SUFFICES ASSUME NEW i \in 1..Len(queue), queue[i].result
                 PROVE  /\ \/ pc'[queue[i].from] \in {"sent", "get"}
                           \/ Settling(i)' /\ pc'[queue[i].from] = "spin"
                        /\ queue[i].n = calls'[queue[i].from]
                        /\ future'[queue[i].from] = "unset" \/ Settling(i)'
      BY <1>1 DEF PromiseInv
    <2>1. queue[i].from # t /\ queue[i].from \in Threads
      BY <1>1, NoPromiseOutside, QueuedMessage DEF FrameStates, IInv, TypeOK
    <2> QED
      BY <1>1, <1>4, <2>1 DEF IInv, PromiseInv, Settling
  <1>9. RanInv'
    BY <1>1, <1>4 DEF IInv, RanInv, FrameStates
  <1> QED
    BY <1>5, <1>6, <1>7, <1>8, <1>9 DEF IInv

(* Pushing: the new message carries a promise only when the sender is in   *)
(* SendMessage with a promise that has no value yet.                       *)
LEMMA PushIInv ==
  ASSUME IInv, NEW t \in Threads, SendPush(t) \/ PostPush(t) \/ DestroyPush(t)
  PROVE  IInv'
  <1>1. PICK m : /\ queue' = Append(queue, m)
                 /\ m.kind \in {"callback", "destroy"} /\ m.level \in Levels \cup {ErrorLevel}
                 /\ m = [kind |-> m.kind, from |-> t, n |-> calls[t],
                         level |-> m.level, result |-> m.result]
                 /\ m.result \in BOOLEAN
                 /\ IF m.result THEN pc[t] = "send" /\ pc' = [pc EXCEPT ![t] = "sent"]
                                ELSE pc[t] # "idle" /\ pc[t] \notin FrameStates
                                     /\ pc' = [pc EXCEPT ![t] = "posted"]
    <2>1. CASE SendPush(t)
      <3> WITNESS [kind |-> "callback", from |-> t, n |-> calls[t],
                   level |-> ErrorLevel, result |-> TRUE]
      <3> QED
        BY <2>1 DEF SendPush, Push, ThreadGoesTo
    <2>2. CASE PostPush(t)
      <3> WITNESS [kind |-> "callback", from |-> t, n |-> calls[t],
                   level |-> ErrorLevel, result |-> FALSE]
      <3> QED
        BY <2>2 DEF PostPush, Push, ThreadGoesTo, FrameStates
    <2>3. CASE DestroyPush(t)
      <3>1. PICK level \in Levels : Push(t, "destroy", level, FALSE)
        BY <2>3 DEF DestroyPush
      <3> WITNESS [kind |-> "destroy", from |-> t, n |-> calls[t],
                   level |-> level, result |-> FALSE]
      <3> QED
        BY <2>3, <3>1 DEF DestroyPush, Push, ThreadGoesTo, FrameStates
    <2> QED
      BY <2>1, <2>2, <2>3
  <1>2. /\ UNCHANGED <<lock, stopFlag, exitLevel, mpc, idx, retCode, ran, future, calls>>
        /\ lock = NoOne
    BY DEF SendPush, PostPush, DestroyPush, Push, mainVars
  <1>3. mpc \notin PumpStates
    BY <1>2, ThreadsAssumption DEF IInv, LockInv
  <1>4. m \in Message /\ m.from = t /\ m.n = calls[t]
    <2>1. calls[t] \in 1..MaxCalls
      BY <1>1 DEF IInv, CallInv
    <2> QED
      BY <1>1, <2>1 DEF Message
  <1>5. /\ Len(queue') = Len(queue) + 1 /\ Len(queue) \in Nat
        /\ \A i \in 1..Len(queue) : queue'[i] = queue[i]
        /\ queue'[Len(queue) + 1] = m
        /\ queue' \in Seq(Message)
    BY <1>1, <1>4 DEF IInv, TypeOK
  <1>6. /\ \A u \in Threads : u # t => pc'[u] = pc[u]
        /\ pc'[t] = IF m.result THEN "sent" ELSE "posted"
        /\ pc' \in [Threads -> ThreadStates]
    BY <1>1 DEF IInv, TypeOK, ThreadStates
  <1>7. TypeOK'
    BY <1>2, <1>5, <1>6 DEF IInv, TypeOK
  <1>8. LockInv' /\ IterInv' /\ StopInv'
    BY <1>2, <1>3, <1>5 DEF IInv, LockInv, IterInv, StopInv, PumpStates
  <1>9. CallInv'
    BY <1>1, <1>2, <1>6 DEF IInv, CallInv
  <1>10. \A i \in 1..Len(queue) : queue[i].result => queue[i].from # t /\ queue[i].from \in Threads
    <2>1. pc[t] \notin FrameStates
      BY <1>1 DEF FrameStates
    <2> QED
      BY <2>1, NoPromiseOutside, QueuedMessage DEF IInv, TypeOK
  <1>11. OnePromise'
    <2>1. \A i \in 1..Len(queue') : i \in 1..Len(queue) \/ i = Len(queue) + 1
      BY <1>5
    <2> QED
      BY <1>4, <1>5, <1>10, <2>1 DEF IInv, OnePromise
  <1>12. PromiseInv'
    <2> SUFFICES ASSUME NEW i \in 1..Len(queue'), queue'[i].result
                 PROVE  /\ pc'[queue'[i].from] \in {"sent", "get"}
                        /\ queue'[i].n = calls[queue'[i].from]
                        /\ future[queue'[i].from] = "unset"
      BY <1>2 DEF PromiseInv
    <2>1. CASE i \in 1..Len(queue)
      <3>1. ~ Settling(i)
        BY <1>3 DEF Settling, PumpStates
      <3> QED
        BY <2>1, <3>1, <1>5, <1>6, <1>10 DEF IInv, PromiseInv
    <2>2. CASE i = Len(queue) + 1
      BY <2>2, <1>1, <1>4, <1>5, <1>6 DEF IInv, RanInv
    <2> QED
      BY <2>1, <2>2, <1>5
  <1>13. RanInv'
    BY <1>1, <1>2, <1>3, <1>6 DEF IInv, RanInv, FrameStates, PumpStates
  <1> QED
    BY <1>7, <1>8, <1>9, <1>11, <1>12, <1>13 DEF IInv

(* notify_one moves the sender and perhaps the sleeping main thread.       *)
LEMMA NotifyIInv ==
  ASSUME IInv, NEW t \in Threads, Notify(t)
  PROVE  IInv'
  <1>1. /\ UNCHANGED <<lock, queue, stopFlag, exitLevel, idx, retCode, ran, future, calls>>
        /\ pc[t] \in {"sent", "posted"}
        /\ pc' = [pc EXCEPT ![t] = IF pc[t] = "sent" THEN "get" ELSE "idle"]
        /\ mpc' = mpc \/ (mpc = "asleep" /\ mpc' = "waking")
    BY DEF Notify, ThreadGoesTo
  <1>2. /\ \A u \in Threads : u # t => pc'[u] = pc[u]
        /\ pc[t] = "sent" => pc'[t] = "get"
        /\ pc[t] = "posted" => pc'[t] = "idle"
        /\ pc' \in [Threads -> ThreadStates]
    BY <1>1 DEF IInv, TypeOK, ThreadStates
  <1>3. TypeOK'
    BY <1>1, <1>2 DEF IInv, TypeOK, MainStates
  <1>4. LockInv' /\ IterInv' /\ StopInv' /\ OnePromise'
    BY <1>1 DEF IInv, LockInv, IterInv, StopInv, OnePromise, PumpStates
  <1>5. CallInv'
    BY <1>1, <1>2 DEF IInv, CallInv
  <1>6. PromiseInv'
    <2>1. \A i \in 1..Len(queue) : queue[i].from \in Threads
      BY QueuedMessage DEF IInv, TypeOK
    <2> QED
      BY <1>1, <1>2, <2>1 DEF IInv, PromiseInv, Settling
  <1>7. RanInv'
    BY <1>1, <1>2 DEF IInv, RanInv, FrameStates
  <1> QED
    BY <1>3, <1>4, <1>5, <1>6, <1>7 DEF IInv

(* future.get() and the wait for an empty queue: a caller leaves its frame *)
(* only when no message points into it.                                    *)
LEMMA ReturnIInv ==
  ASSUME IInv, NEW t \in Threads, FutureGet(t) \/ SpinReturn(t)
  PROVE  IInv'
  <1>1. UNCHANGED <<lock, queue, stopFlag, exitLevel, mpc, idx, retCode, ran, future, calls>>
    BY DEF FutureGet, SpinReturn, mainVars
  <1>2. \/ pc[t] = "get" /\ future[t] = "set" /\ pc' = [pc EXCEPT ![t] = "spin"]
        \/ queue = <<>> /\ pc' = [pc EXCEPT ![t] = "idle"]
    BY DEF FutureGet, SpinReturn, ThreadGoesTo
  <1>3. pc[t] # "idle" /\ pc[t] # "send"
    BY DEF FutureGet, SpinReturn
  <1>4. /\ \A u \in Threads : u # t => pc'[u] = pc[u]
        /\ pc'[t] \in {"spin", "idle"}
        /\ pc' \in [Threads -> ThreadStates]
    BY <1>2 DEF IInv, TypeOK, ThreadStates
  <1>5. TypeOK'
    BY <1>1, <1>4 DEF IInv, TypeOK
  <1>6. LockInv' /\ IterInv' /\ StopInv' /\ OnePromise'
    BY <1>1 DEF IInv, LockInv, IterInv, StopInv, OnePromise
  <1>7. CallInv'
    BY <1>1, <1>3, <1>4 DEF IInv, CallInv
  <1>8. PromiseInv'
    <2>1. \A i \in 1..Len(queue) : queue[i].from \in Threads
      BY QueuedMessage DEF IInv, TypeOK
    <2>2. CASE queue = <<>>
      <3>1. Len(queue') = 0
        BY <2>2, <1>1
      <3> QED
        BY <3>1 DEF PromiseInv
    <2>3. CASE future[t] = "set" /\ pc' = [pc EXCEPT ![t] = "spin"]
      <3>1. pc'[t] = "spin"
        BY <2>3 DEF IInv, TypeOK
      <3> QED
        BY <2>1, <2>3, <3>1, <1>1, <1>4 DEF IInv, PromiseInv, Settling
    <2> QED
      BY <1>2, <2>2, <2>3
  <1>9. RanInv'
    <2>1. pc'[t] = "spin" => pc[t] \in FrameStates /\ future[t] = "set"
      BY <1>2, <1>4 DEF IInv, TypeOK, FrameStates
    <2> QED
      BY <1>1, <1>4, <2>1 DEF IInv, RanInv, FrameStates
  <1> QED
    BY <1>5, <1>6, <1>7, <1>8, <1>9 DEF IInv

-----------------------------------------------------------------------------
(* Every step of the system, of the main thread or of another one, keeps   *)
(* the inductive invariant.                                                *)
LEMMA NextIInv == ASSUME IInv, [Next]_vars PROVE IInv'
  <1>1. CASE MainStep \/ SpuriousWake
    BY <1>1, LoopIInv, PumpLockIInv, BeginHandlerIInv, EndHandlerIInv, SetValueIInv, SettleIInv,
       PumpClearIInv DEF MainStep, BlockMessageLoop, RunMessagePump
  <1>2. CASE \E t \in Threads : Invoke(t)
    BY <1>2, CallIInv
  <1>3. CASE \E t \in Threads : ThreadStep(t)
    BY <1>3, PushIInv, NotifyIInv, ReturnIInv DEF ThreadStep
  <1>4. CASE UNCHANGED vars
    <2>1. UNCHANGED <<lock, queue, stopFlag, exitLevel, mpc, idx, retCode, pc, future, calls, ran>>
      BY <1>4 DEF vars
    <2> QED
      BY <2>1 DEF IInv, TypeOK, LockInv, IterInv, PromiseInv, OnePromise, RanInv, StopInv, CallInv,
                  Settling
  <1> QED
    BY <1>1, <1>2, <1>3, <1>4 DEF Next

(* IInv is inductive, so it holds in every reachable state.                *)
LEMMA Invariance == Spec => []IInv
  BY InitIInv, NextIInv, PTL DEF Spec

(* Type correctness of the pump and of its callers.                        *)
THEOREM TypeCorrect == Spec => []TypeOK
  <1>1. IInv => TypeOK
    BY DEF IInv
  <1> QED
    BY <1>1, Invariance, PTL

(* RunMessagePump never reaches a promise whose SendMessage has returned.  *)
THEOREM PromiseAliveThm == Spec => []PromiseAlive
  <1>1. IInv => PromiseAlive
    BY DEF IInv, PromiseInv, PromiseAlive, FrameStates
  <1> QED
    BY <1>1, Invariance, PTL

(* set_value is called at most once on a promise.                          *)
THEOREM PromiseSetOnceThm == Spec => []PromiseSetOnce
  <1>1. IInv => PromiseSetOnce
    <2> SUFFICES ASSUME IInv, mpc = "setvalue" PROVE future[queue[idx].from] = "unset"
      BY DEF PromiseSetOnce
    <2>1. idx \in 1..Len(queue) /\ queue[idx].result
      BY DEF IInv, TypeOK, IterInv, PumpStates
    <2> QED
      BY <2>1 DEF IInv, PromiseInv, Settling
  <1> QED
    BY <1>1, Invariance, PTL

(* SyncInvoke does not return before its function has run.                 *)
THEOREM SyncInvokeRanThm == Spec => []SyncInvokeRan
  <1>1. IInv => SyncInvokeRan
    BY DEF IInv, RanInv, RanIn, SyncInvokeRan, FrameStates
  <1> QED
    BY <1>1, Invariance, PTL

(* BlockMessageLoop returns the level of a WM_DESTROY.                     *)
THEOREM ExitLevelThm == Spec => []ExitLevelHonoured
  <1>1. IInv => ExitLevelHonoured
    BY DEF IInv, StopInv, ExitLevelHonoured
  <1> QED
    BY <1>1, Invariance, PTL

-----------------------------------------------------------------------------
(* The order of the calls. RunInCallOrder speaks of the history alone; it  *)
(* is kept because the part of the list that is still to be handled        *)
(* continues the history in the same order, and because no number in       *)
(* either is beyond the calls its thread has made; the call a thread is    *)
(* about to push is newer than all of them.                                *)
Pushing(t) == pc[t] \in {"send", "post", "destroy"}

KnownTo(t, n) == n <= calls[t] /\ (Pushing(t) => n < calls[t])

OrderInv == /\ \A i \in 1..Len(ran) : KnownTo(ran[i][1], ran[i][2])
            /\ \A j \in 1..Len(queue) : KnownTo(queue[j].from, queue[j].n)
            /\ RunInCallOrder
            /\ \A i \in 1..Len(ran), j \in 1..Len(queue) :
                  Handled < j /\ ran[i][1] = queue[j].from => ran[i][2] < queue[j].n
            /\ \A i, j \in 1..Len(queue) :
                  Handled < i /\ i < j /\ queue[i].from = queue[j].from => queue[i].n < queue[j].n

(* How many messages of the list have been handled, in each place of the   *)
(* pump.                                                                   *)
LEMMA HandledValue ==
  ASSUME IInv
  PROVE  /\ Len(queue) \in Nat /\ Handled \in 0..Len(queue)
         /\ mpc \notin PumpStates => Handled = 0
         /\ mpc \in {"next", "handler"} => Handled = idx - 1
         /\ mpc \in {"setvalue", "settle"} => Handled = idx
  <1>1. Len(queue) \in Nat
    BY DEF IInv, TypeOK
  <1> QED
    BY <1>1 DEF IInv, TypeOK, IterInv, Handled, PumpStates

(* The steps that neither push, handle nor clear: the list of unhandled    *)
(* functions, the history and the numbers of the calls stay as they are,   *)
(* apart from the number a thread that is idle takes for its next call.    *)
Quiet == /\ ran' = ran /\ Handled' = Handled /\ Len(queue') = Len(queue)
         /\ \A i \in 1..Len(queue) : queue'[i].from = queue[i].from /\ queue'[i].n = queue[i].n

LEMMA QuietSteps ==
  ASSUME IInv, IInv',
         \/ LoopTest \/ EnterWait \/ SpuriousWake \/ LeaveWait \/ Recheck
         \/ PumpLock \/ BeginHandler \/ SetValue \/ Settle
         \/ \E t \in Threads : Invoke(t) \/ Notify(t) \/ FutureGet(t) \/ SpinReturn(t)
         \/ UNCHANGED vars
  PROVE  Quiet
  <1> USE DEF Quiet
  <1>1. CASE LoopTest \/ EnterWait \/ SpuriousWake \/ LeaveWait \/ Recheck
    <2>1. UNCHANGED <<ran, queue>> /\ mpc \notin PumpStates /\ mpc' \notin PumpStates
      BY <1>1 DEF LoopTest, EnterWait, SpuriousWake, LeaveWait, Recheck, MainGoesTo, PumpStates
    <2> QED
      BY <2>1 DEF Handled
  <1>2. CASE PumpLock
    BY <1>2 DEF PumpLock, Handled, PumpStates
  <1>3. CASE BeginHandler
    BY <1>3 DEF BeginHandler, Handled, PumpStates
  <1>4. CASE SetValue
    BY <1>4 DEF SetValue, Handled, PumpStates
  <1>5. CASE Settle
    <2>1. queue[idx] \in Message /\ idx \in Nat /\ idx \in 1..Len(queue) /\ Len(queue) \in Nat
      BY <1>5 DEF IInv, TypeOK, IterInv, Settle, PumpStates
    <2>2. queue' = [queue EXCEPT ![idx] = [queue[idx] EXCEPT !.result = FALSE]]
          /\ ran' = ran /\ mpc = "settle" /\ mpc' = "next" /\ idx' = idx + 1
      BY <1>5 DEF Settle
    <2>3. /\ Len(queue') = Len(queue)
          /\ \A i \in 1..Len(queue) : i # idx => queue'[i] = queue[i]
          /\ queue'[idx].from = queue[idx].from /\ queue'[idx].n = queue[idx].n
      BY <2>1, <2>2 DEF IInv, TypeOK, Message
    <2>4. Handled' = Handled
      BY <2>1, <2>2 DEF Handled, PumpStates
    <2> QED
      BY <2>2, <2>3, <2>4
  <1>6. ASSUME NEW t \in Threads, Invoke(t) \/ FutureGet(t) \/ SpinReturn(t)
        PROVE  Quiet
    <2>1. UNCHANGED <<ran, queue, mpc, idx>>
      BY <1>6 DEF Invoke, SyncInvoke, AsyncInvoke, Shutdown, FutureGet, SpinReturn, mainVars
    <2> QED
      BY <2>1 DEF Handled
  <1>7. ASSUME NEW t \in Threads, Notify(t)
        PROVE  Quiet
    <2>1. UNCHANGED <<ran, queue, idx>> /\ (mpc' = mpc \/ (mpc = "asleep" /\ mpc' = "waking"))
      BY <1>7 DEF Notify
    <2> QED
      BY <2>1 DEF Handled, PumpStates
  <1>8. CASE UNCHANGED vars
    BY <1>8 DEF vars, Handled
  <1> QED
    BY <1>1, <1>2, <1>3, <1>4, <1>5, <1>6, <1>7, <1>8

(* A step that is quiet, and leaves every number known to its thread, is   *)
(* harmless.                                                               *)
LEMMA QuietOrder ==
  ASSUME OrderInv, Quiet,
         \A i \in 1..Len(ran) : KnownTo(ran[i][1], ran[i][2])',
         \A j \in 1..Len(queue) : KnownTo(queue[j].from, queue[j].n)'
  PROVE  OrderInv'
  <1> USE DEF OrderInv, Quiet
  <1>1. RunInCallOrder'
    BY DEF RunInCallOrder
  <1>2. \A i \in 1..Len(ran'), j \in 1..Len(queue') :
           Handled' < j /\ ran'[i][1] = queue'[j].from => ran'[i][2] < queue'[j].n
    OBVIOUS
  <1>3. \A i, j \in 1..Len(queue') :
           Handled' < i /\ i < j /\ queue'[i].from = queue'[j].from => queue'[i].n < queue'[j].n
    OBVIOUS
  <1> QED
    BY <1>1, <1>2, <1>3

(* An idle thread takes a number for its call: all it knew is older.       *)
LEMMA InvokeOrder ==
  ASSUME IInv, IInv', OrderInv, NEW t \in Threads, Invoke(t)
  PROVE  OrderInv'
  <1>1. Quiet
    BY QuietSteps
  <1>2. /\ UNCHANGED <<queue, ran>> /\ pc[t] = "idle"
        /\ calls' = [calls EXCEPT ![t] = @ + 1]
        /\ \A u \in Threads : u # t => pc'[u] = pc[u]
    BY DEF Invoke, SyncInvoke, AsyncInvoke, Shutdown, CanCall, ThreadGoesTo, mainVars, IInv, TypeOK
  <1>3. /\ \A u \in Threads : u # t => calls'[u] = calls[u]
        /\ calls'[t] = calls[t] + 1 /\ calls[t] \in Nat
    BY <1>2 DEF IInv, TypeOK
  <1>4. ASSUME NEW u \in Threads, NEW n \in 1..MaxCalls, KnownTo(u, n)
        PROVE  KnownTo(u, n)'
    BY <1>2, <1>3, <1>4, MaxCallsAssumption DEF KnownTo, Pushing
  <1>5. \A i \in 1..Len(ran) : ran[i][1] \in Threads /\ ran[i][2] \in 1..MaxCalls
    <2>1. \A i \in 1..Len(ran) : ran[i] \in Threads \X (1..MaxCalls)
      BY DEF IInv, TypeOK
    <2> QED
      BY <2>1
  <1>6. \A j \in 1..Len(queue) : queue[j].from \in Threads /\ queue[j].n \in 1..MaxCalls
    BY QueuedMessage DEF IInv, TypeOK, Message
  <1>7. /\ \A i \in 1..Len(ran) : KnownTo(ran[i][1], ran[i][2])'
        /\ \A j \in 1..Len(queue) : KnownTo(queue[j].from, queue[j].n)'
    BY <1>2, <1>4, <1>5, <1>6 DEF OrderInv
  <1> QED
    BY <1>1, <1>7, QuietOrder

(* The quiet steps that do not begin a call.                               *)
LEMMA SilentOrder ==
  ASSUME IInv, IInv', OrderInv, Quiet, calls' = calls,
         \A u \in Threads : Pushing(u)' => Pushing(u)
  PROVE  OrderInv'
  <1>1. \A i \in 1..Len(ran) : ran[i][1] \in Threads /\ ran'[i] = ran[i]
    BY DEF IInv, TypeOK, Quiet
  <1>2. \A j \in 1..Len(queue) : /\ queue[j].from \in Threads
                                 /\ queue'[j].from = queue[j].from /\ queue'[j].n = queue[j].n
    BY QueuedMessage DEF IInv, TypeOK, Quiet
  <1>3. /\ \A i \in 1..Len(ran) : KnownTo(ran[i][1], ran[i][2])'
        /\ \A j \in 1..Len(queue) : KnownTo(queue[j].from, queue[j].n)'
    BY <1>1, <1>2 DEF OrderInv, KnownTo
  <1> QED
    BY <1>3, QuietOrder

(* push_back appends a call newer than all that its thread made before.    *)
LEMMA PushOrder ==
  ASSUME IInv, IInv', OrderInv, NEW t \in Threads, SendPush(t) \/ PostPush(t) \/ DestroyPush(t)
  PROVE  OrderInv'
  <1>1. PICK m : queue' = Append(queue, m) /\ m.from = t /\ m.n = calls[t]
    <2>1. PICK kind, level, hasResult : Push(t, kind, level, hasResult)
      BY DEF SendPush, PostPush, DestroyPush
    <2> WITNESS [kind |-> kind, from |-> t, n |-> calls[t], level |-> level, result |-> hasResult]
    <2> QED
      BY <2>1 DEF Push
  <1>2. /\ UNCHANGED <<mpc, idx, ran, calls>> /\ lock = NoOne /\ Pushing(t)
        /\ pc' = [pc EXCEPT ![t] = IF pc[t] = "send" THEN "sent" ELSE "posted"]
    BY DEF SendPush, PostPush, DestroyPush, Push, ThreadGoesTo, mainVars, Pushing
  <1>3. Handled = 0 /\ Handled' = 0
    BY <1>2, ThreadsAssumption DEF IInv, LockInv, Handled
  <1>4. /\ Len(queue) \in Nat /\ Len(queue') = Len(queue) + 1
        /\ \A j \in 1..Len(queue) : queue'[j] = queue[j]
        /\ queue'[Len(queue) + 1] = m
    BY <1>1 DEF IInv, TypeOK
  <1>5. \A u \in Threads : (Pushing(u)' => Pushing(u)) /\ ~ Pushing(t)'
    BY <1>2 DEF IInv, TypeOK, Pushing
  <1>6. \A i \in 1..Len(ran) : ran[i][1] \in Threads
    BY SMTT(30) DEF IInv, TypeOK
  <1>7. \A j \in 1..Len(queue) : queue[j].from \in Threads
    BY QueuedMessage DEF IInv, TypeOK
  <1>8. \A i \in 1..Len(ran') : KnownTo(ran[i][1], ran[i][2])'
    BY <1>2, <1>5, <1>6 DEF OrderInv, KnownTo
  <1>9. \A j \in 1..Len(queue') : KnownTo(queue[j].from, queue[j].n)'
    <2>1. KnownTo(t, calls[t])'
      BY <1>2, <1>5 DEF KnownTo, IInv, TypeOK
    <2>2. \A j \in 1..Len(queue) : KnownTo(queue[j].from, queue[j].n)'
      BY <1>2, <1>4, <1>5, <1>7 DEF OrderInv, KnownTo
    <2> QED
      BY <1>1, <1>2, <1>4, <2>1, <2>2
  <1>10. /\ \A i \in 1..Len(ran) : ran[i][1] = t => ran[i][2] < calls[t]
         /\ \A j \in 1..Len(queue) : queue[j].from = t => queue[j].n < calls[t]
    BY <1>2 DEF OrderInv, KnownTo
  <1>11. \A i \in 1..Len(ran'), j \in 1..Len(queue') :
            Handled' < j /\ ran'[i][1] = queue'[j].from => ran'[i][2] < queue'[j].n
    BY SMTT(30), <1>1, <1>2, <1>3, <1>4, <1>10 DEF OrderInv
  <1>12. \A i, j \in 1..Len(queue') :
            Handled' < i /\ i < j /\ queue'[i].from = queue'[j].from => queue'[i].n < queue'[j].n
    <2> SUFFICES ASSUME NEW i \in 1..Len(queue'), NEW j \in 1..Len(queue'), i < j,
                        queue'[i].from = queue'[j].from
                 PROVE  queue'[i].n < queue'[j].n
      BY <1>3
    <2>1. i \in 1..Len(queue) /\ (j \in 1..Len(queue) \/ j = Len(queue) + 1)
      BY <1>4
    <2> QED
      BY <1>1, <1>3, <1>4, <1>10, <2>1 DEF OrderInv
  <1>13. RunInCallOrder'
    BY <1>2 DEF OrderInv, RunInCallOrder
  <1> QED
    BY <1>8, <1>9, <1>11, <1>12, <1>13 DEF OrderInv

(* What a returning handler does to the list and to the history.           *)
LEMMA EndHandlerStep ==
  ASSUME IInv, IInv', EndHandler
  PROVE  /\ Handled + 1 \in 1..Len(queue) /\ Handled' = Handled + 1
         /\ UNCHANGED <<queue, pc, calls>>
         /\ ran' = Append(ran, <<queue[Handled + 1].from, queue[Handled + 1].n>>)
         /\ Len(ran) \in Nat /\ Len(ran') = Len(ran) + 1
         /\ \A i \in 1..Len(ran) : ran'[i] = ran[i]
         /\ ran'[Len(ran) + 1] = <<queue[Handled + 1].from, queue[Handled + 1].n>>
  <1>1. idx \in 1..Len(queue) /\ queue[idx] \in Message /\ ran \in Seq(Threads \X (1..MaxCalls))
    BY DEF IInv, TypeOK, IterInv, EndHandler, PumpStates
  <1>2. /\ Handled = idx - 1 /\ Handled' = Handled + 1
    BY <1>1 DEF EndHandler, Handled, PumpStates
  <1>3. /\ UNCHANGED <<queue, pc, calls>>
        /\ ran' = Append(ran, <<queue[idx].from, queue[idx].n>>)
    BY DEF EndHandler, threadVars
  <1>4. idx = Handled + 1
    BY <1>1, <1>2
  <1>5. <<queue[idx].from, queue[idx].n>> \in Threads \X (1..MaxCalls)
    BY <1>1 DEF Message
  <1> QED
    BY <1>1, <1>2, <1>3, <1>4, <1>5

(* The oldest unhandled function moves to the end of the history.          *)
LEMMA EndHandlerOrder == ASSUME IInv, IInv', OrderInv, EndHandler PROVE OrderInv'
  <1> DEFINE k == Handled + 1
  <1>1. Len(queue) \in Nat /\ Handled \in 0..Len(queue) /\ k \in 1..Len(queue)
    BY HandledValue, EndHandlerStep
  <1>2. \A i \in 1..Len(ran') : i \in 1..Len(ran) \/ (i = Len(ran) + 1 /\ ran'[i] = <<queue[k].from, queue[k].n>>)
    BY EndHandlerStep
  <1>3. \A i \in 1..Len(ran') : KnownTo(ran[i][1], ran[i][2])'
    BY <1>1, <1>2, EndHandlerStep DEF OrderInv, KnownTo, Pushing
  <1>4. \A j \in 1..Len(queue') : KnownTo(queue[j].from, queue[j].n)'
    BY EndHandlerStep DEF OrderInv, KnownTo, Pushing
  <1>5. RunInCallOrder'
    <2> SUFFICES ASSUME NEW i \in 1..Len(ran'), NEW j \in 1..Len(ran'), i < j, ran'[i][1] = ran'[j][1]
                 PROVE  ran'[i][2] < ran'[j][2]
      BY DEF RunInCallOrder
    <2>1. i \in 1..Len(ran) /\ ran'[i] = ran[i]
      BY EndHandlerStep
    <2>2. CASE j \in 1..Len(ran)
      BY <2>1, <2>2, EndHandlerStep DEF OrderInv, RunInCallOrder
    <2>3. CASE j = Len(ran) + 1
      BY SMTT(30), <2>1, <2>3, <1>1, EndHandlerStep DEF OrderInv
    <2> QED
      BY <1>2, <2>2, <2>3
  <1>6. \A i \in 1..Len(ran'), j \in 1..Len(queue') :
           Handled' < j /\ ran'[i][1] = queue'[j].from => ran'[i][2] < queue'[j].n
    <2> SUFFICES ASSUME NEW i \in 1..Len(ran'), NEW j \in 1..Len(queue), k < j,
                        ran'[i][1] = queue[j].from
                 PROVE  ran'[i][2] < queue[j].n
      BY EndHandlerStep
    <2>1. CASE i \in 1..Len(ran)
      BY <2>1, <1>1, EndHandlerStep DEF OrderInv
    <2>2. CASE i = Len(ran) + 1
      BY <2>2, <1>1, EndHandlerStep DEF OrderInv
    <2> QED
      BY <1>2, <2>1, <2>2
  <1>7. \A i, j \in 1..Len(queue') :
           Handled' < i /\ i < j /\ queue'[i].from = queue'[j].from => queue'[i].n < queue'[j].n
    BY <1>1, EndHandlerStep DEF OrderInv
  <1> QED
    BY <1>3, <1>4, <1>5, <1>6, <1>7 DEF OrderInv

(* Queue.clear() drops handled messages only.                              *)
LEMMA PumpClearStep ==
  ASSUME IInv, PumpClear
  PROVE  /\ Handled = Len(queue) /\ Handled' = 0 /\ Len(queue') = 0
         /\ UNCHANGED <<ran, pc, calls>>
  <1>1. idx = Len(queue) + 1 /\ Len(queue) \in Nat
    BY DEF IInv, TypeOK, IterInv, PumpClear, PumpStates
  <1> QED
    BY <1>1 DEF PumpClear, Handled, PumpStates, threadVars

(* Every step keeps the order.                                             *)
LEMMA NextOrder == ASSUME IInv, IInv', OrderInv, [Next]_vars PROVE OrderInv'
  <1>1. CASE \E t \in Threads : Invoke(t)
    BY <1>1, InvokeOrder
  <1>2. CASE \E t \in Threads : SendPush(t) \/ PostPush(t) \/ DestroyPush(t)
    BY <1>2, PushOrder
  <1>3. CASE EndHandler
    BY <1>3, EndHandlerOrder
  <1>4. CASE PumpClear
    BY <1>4, PumpClearStep DEF OrderInv, KnownTo, Pushing, RunInCallOrder
  <1>5. CASE \/ LoopTest \/ EnterWait \/ SpuriousWake \/ LeaveWait \/ Recheck
             \/ PumpLock \/ BeginHandler \/ SetValue \/ Settle \/ UNCHANGED vars
    <2>1. UNCHANGED <<pc, calls>>
      BY <1>5 DEF LoopTest, EnterWait, SpuriousWake, LeaveWait, Recheck, MainGoesTo, PumpLock,
                  BeginHandler, SetValue, Settle, threadVars, vars
    <2>2. Quiet
      BY <1>5, QuietSteps
    <2> QED
      BY <2>1, <2>2, SilentOrder DEF Pushing
  <1>6. ASSUME NEW t \in Threads, Notify(t) \/ FutureGet(t) \/ SpinReturn(t)
        PROVE  OrderInv'
    <2>1. calls' = calls /\ \A u \in Threads : Pushing(u)' => Pushing(u)
      BY <1>6 DEF Notify, FutureGet, SpinReturn, ThreadGoesTo, Pushing, IInv, TypeOK
    <2>2. Quiet
      BY <1>6, QuietSteps
    <2> QED
      BY <2>1, <2>2, SilentOrder
  <1> QED
    BY <1>1, <1>2, <1>3, <1>4, <1>5, <1>6
    DEF Next, MainStep, BlockMessageLoop, RunMessagePump, ThreadStep

(* The invariant with the order of the calls holds in every state.         *)
LEMMA OrderInvariance == Spec => []OrderInv
  <1>1. Init => OrderInv
    BY DEF Init, OrderInv, RunInCallOrder
  <1>2. IInv /\ IInv' /\ OrderInv /\ [Next]_vars => OrderInv'
    BY NextOrder
  <1> QED
    BY <1>1, <1>2, Invariance, PTL DEF Spec

(* The functions of a thread run once each and in the order of its calls.  *)
THEOREM RunInCallOrderThm == Spec => []RunInCallOrder
  <1>1. OrderInv => RunInCallOrder
    BY DEF OrderInv
  <1> QED
    BY <1>1, OrderInvariance, PTL

-----------------------------------------------------------------------------
(* The refinement: what a step of the pump and of its callers is in terms  *)
(* of the abstract queue.                                                  *)

(* A function on 1..k is a sequence of length k.                           *)
LEMMA FunctionIsSeq ==
  ASSUME NEW S, NEW k \in Nat, NEW f \in [1..k -> S]
  PROVE  f \in Seq(S) /\ Len(f) = k
  OBVIOUS

(* The unhandled part of the list, as a sequence.                          *)
LEMMA PendingSeq ==
  ASSUME IInv
  PROVE  /\ Len(queue) \in Nat /\ Handled \in 0..Len(queue)
         /\ pendingIds \in Seq(Threads \X (1..MaxCalls))
         /\ Len(pendingIds) = Len(queue) - Handled
         /\ \A i \in 1..Len(pendingIds) :
               pendingIds[i] = <<queue[i + Handled].from, queue[i + Handled].n>>
  <1> DEFINE k == Len(queue) - Handled
  <1>1. Len(queue) \in Nat /\ Handled \in 0..Len(queue) /\ k \in Nat
    BY HandledValue
  <1>2. ASSUME NEW i \in 1..k
        PROVE  <<queue[i + Handled].from, queue[i + Handled].n>> \in Threads \X (1..MaxCalls)
    <2>1. queue[i + Handled] \in Message
      BY <1>1 DEF IInv, TypeOK
    <2> QED
      BY <2>1 DEF Message
  <1>3. pendingIds \in [1..k -> Threads \X (1..MaxCalls)]
    BY <1>2 DEF pendingIds
  <1>4. pendingIds \in Seq(Threads \X (1..MaxCalls)) /\ Len(pendingIds) = k
    BY <1>1, <1>3, FunctionIsSeq
  <1>5. \A i \in 1..k : pendingIds[i] = <<queue[i + Handled].from, queue[i + Handled].n>>
    BY DEF pendingIds
  <1> QED
    BY <1>1, <1>4, <1>5

(* A quiet step leaves the unhandled functions alone.                      *)
LEMMA QuietPending ==
  ASSUME IInv, Quiet
  PROVE  pendingIds' = pendingIds
  BY HandledValue DEF Quiet, pendingIds

(* push_back submits the function of the call the thread is in.            *)
LEMMA PushPending ==
  ASSUME IInv, IInv', NEW t \in Threads, SendPush(t) \/ PostPush(t) \/ DestroyPush(t)
  PROVE  pendingIds' = Append(pendingIds, <<t, calls[t]>>)
  <1>1. PICK m : queue' = Append(queue, m) /\ m.from = t /\ m.n = calls[t]
    <2>1. PICK kind, level, hasResult : Push(t, kind, level, hasResult)
      BY DEF SendPush, PostPush, DestroyPush
    <2> WITNESS [kind |-> kind, from |-> t, n |-> calls[t], level |-> level, result |-> hasResult]
    <2> QED
      BY <2>1 DEF Push
  <1>2. Handled = 0 /\ Handled' = 0
    <2>1. lock = NoOne /\ UNCHANGED mpc
      BY DEF SendPush, PostPush, DestroyPush, Push, mainVars
    <2> QED
      BY <2>1, ThreadsAssumption DEF IInv, LockInv, Handled
  <1>3. /\ Len(queue') = Len(queue) + 1 /\ Len(queue) \in Nat
        /\ \A i \in 1..Len(queue) : queue'[i] = queue[i]
        /\ queue'[Len(queue) + 1] = m
    BY <1>1 DEF IInv, TypeOK
  <1>4. /\ Len(pendingIds) = Len(queue) /\ Len(pendingIds') = Len(queue) + 1
        /\ \A i \in 1..Len(queue) : pendingIds'[i] = pendingIds[i]
        /\ pendingIds'[Len(queue) + 1] = <<t, calls[t]>>
    <2>1. /\ Len(pendingIds) = Len(queue)
          /\ \A i \in 1..Len(queue) : pendingIds[i] = <<queue[i].from, queue[i].n>>
      BY <1>2, PendingSeq
    <2>2. /\ Len(pendingIds') = Len(queue')
          /\ \A i \in 1..Len(queue') : pendingIds'[i] = <<queue'[i].from, queue'[i].n>>
      BY <1>2, <1>3 DEF pendingIds
    <2>3. Len(queue) + 1 \in 1..Len(queue') /\ \A i \in 1..Len(queue) : i \in 1..Len(queue')
      BY <1>3
    <2>4. pendingIds'[Len(queue) + 1] = <<m.from, m.n>>
      BY <1>3, <2>2, <2>3
    <2>5. \A i \in 1..Len(queue) : pendingIds'[i] = <<queue[i].from, queue[i].n>>
      BY <1>3, <2>2, <2>3
    <2> QED
      BY <1>1, <1>3, <2>1, <2>2, <2>4, <2>5
  <1>5. /\ pendingIds \in Seq(Threads \X (1..MaxCalls))
        /\ pendingIds' \in Seq(Threads \X (1..MaxCalls))
        /\ <<t, calls[t]>> \in Threads \X (1..MaxCalls)
    <2>1. pendingIds \in Seq(Threads \X (1..MaxCalls))
      BY PendingSeq
    <2>2. <<t, calls[t]>> \in Threads \X (1..MaxCalls)
      BY DEF SendPush, PostPush, DestroyPush, IInv, CallInv
    <2>3. Len(queue) + 1 \in Nat
      BY <1>3
    <2>4. pendingIds' \in [1..(Len(queue) + 1) -> Threads \X (1..MaxCalls)]
      <3>1. pendingIds' = [i \in 1..(Len(queue) + 1) |-> pendingIds'[i]]
        BY <1>2, <1>3 DEF pendingIds
      <3>2. \A i \in 1..(Len(queue) + 1) : pendingIds'[i] \in Threads \X (1..MaxCalls)
        <4>1. \A i \in 1..Len(queue) : pendingIds[i] \in Threads \X (1..MaxCalls)
          BY <1>4, <2>1, ElementOfSeq
        <4>2. \A i \in 1..(Len(queue) + 1) : i \in 1..Len(queue) \/ i = Len(queue) + 1
          BY <1>3
        <4> QED
          BY <1>4, <2>2, <4>1, <4>2
      <3> QED
        BY <3>1, <3>2
    <2>5. pendingIds' \in Seq(Threads \X (1..MaxCalls))
      BY <2>3, <2>4, FunctionIsSeq
    <2> QED
      BY <2>1, <2>2, <2>5
  <1> DEFINE longer == Append(pendingIds, <<t, calls[t]>>)
  <1>6. /\ longer \in Seq(Threads \X (1..MaxCalls)) /\ Len(longer) = Len(queue) + 1
        /\ \A i \in 1..Len(queue) : longer[i] = pendingIds[i]
        /\ longer[Len(queue) + 1] = <<t, calls[t]>>
    BY <1>4, <1>5, AppendProperties
  <1> HIDE DEF longer
  <1>7. \A i \in 1..Len(pendingIds') : pendingIds'[i] = longer[i]
    <2>1. \A i \in 1..Len(pendingIds') : i \in 1..Len(queue) \/ i = Len(queue) + 1
      BY <1>3, <1>4
    <2> QED
      BY <1>4, <1>6, <2>1
  <1>8. pendingIds' = longer
    BY <1>4, <1>5, <1>6, <1>7, SeqEqual
  <1> QED
    BY <1>8 DEF longer

(* A returning handler has executed the oldest of them.                    *)
LEMMA EndHandlerPending ==
  ASSUME IInv, IInv', EndHandler
  PROVE  /\ pendingIds # <<>> /\ pendingIds' = Tail(pendingIds)
         /\ ran' = Append(ran, Head(pendingIds))
  <1>1. /\ Handled + 1 \in 1..Len(queue) /\ Handled' = Handled + 1 /\ queue' = queue
        /\ ran' = Append(ran, <<queue[Handled + 1].from, queue[Handled + 1].n>>)
        /\ Len(queue) \in Nat /\ Handled \in 0..Len(queue)
    BY EndHandlerStep, HandledValue
  <1>2. /\ pendingIds = [i \in 1..(Len(queue) - Handled) |->
                            <<queue[i + Handled].from, queue[i + Handled].n>>]
        /\ pendingIds' = [i \in 1..(Len(queue) - Handled - 1) |->
                             <<queue[i + Handled + 1].from, queue[i + Handled + 1].n>>]
    BY <1>1 DEF pendingIds
  <1>3. /\ pendingIds \in Seq(Threads \X (1..MaxCalls))
        /\ Len(pendingIds) = Len(queue) - Handled
        /\ Len(pendingIds) \in Nat \ {0}
    BY <1>1, PendingSeq
  <1>4. pendingIds # <<>> /\ Head(pendingIds) = pendingIds[1]
    BY <1>3
  <1>5. pendingIds[1] = <<queue[Handled + 1].from, queue[Handled + 1].n>>
    BY <1>1, <1>2
  <1> DEFINE rest == Tail(pendingIds)
  <1>6. /\ rest \in Seq(Threads \X (1..MaxCalls)) /\ Len(rest) = Len(queue) - Handled - 1
        /\ \A i \in 1..Len(rest) : rest[i] = pendingIds[i + 1]
    BY <1>3, <1>4, HeadTailProperties
  <1>7. \A i \in 1..(Len(queue) - Handled - 1) : pendingIds'[i] = rest[i]
    <2> TAKE i \in 1..(Len(queue) - Handled - 1)
    <2>1. i + 1 \in 1..(Len(queue) - Handled) /\ i + 1 + Handled = i + Handled + 1
      BY <1>1
    <2>2. pendingIds[i + 1] = <<queue[i + Handled + 1].from, queue[i + Handled + 1].n>>
      BY <1>1, <1>2, <2>1
    <2> QED
      BY <1>2, <1>6, <2>2
  <1>8. pendingIds' \in Seq(Threads \X (1..MaxCalls)) /\ Len(pendingIds') = Len(queue) - Handled - 1
    <2>1. \A i \in 1..(Len(queue) - Handled - 1) : pendingIds'[i] \in Threads \X (1..MaxCalls)
      BY SMTT(30), <1>6, <1>7, ElementOfSeq
    <2>2. Len(queue) - Handled - 1 \in Nat
      BY <1>1
    <2>3. pendingIds' \in [1..(Len(queue) - Handled - 1) -> Threads \X (1..MaxCalls)]
      BY <1>2, <2>1
    <2> QED
      BY <2>2, <2>3, FunctionIsSeq
  <1> HIDE DEF rest
  <1>9. pendingIds' = rest
    BY <1>6, <1>7, <1>8, SeqEqual
  <1> QED
    BY <1>1, <1>4, <1>5, <1>9 DEF rest

(* Each push is a submission; only SendMessage's makes its thread wait.    *)
LEMMA PushSubmits ==
  ASSUME IInv, IInv', OrderInv, NEW t \in Threads, SendPush(t) \/ PostPush(t) \/ DestroyPush(t)
  PROVE  \E n \in 1..MaxCalls, wait \in BOOLEAN : Abstract!Submit(t, n, wait)
  <1>1. /\ Pushing(t) /\ calls[t] \in 1..MaxCalls /\ UNCHANGED <<ran, calls>>
        /\ pc' = [pc EXCEPT ![t] = IF pc[t] = "send" THEN "sent" ELSE "posted"]
    BY DEF SendPush, PostPush, DestroyPush, Push, ThreadGoesTo, mainVars, Pushing, IInv, CallInv
  <1>2. blockedCalls[t] = 0
    BY <1>1 DEF blockedCalls, Pushing, FrameStates
  <1>3. blockedCalls' = [blockedCalls EXCEPT ![t] = IF pc[t] = "send" THEN calls[t] ELSE 0]
    BY <1>1 DEF blockedCalls, FrameStates, Pushing, IInv, TypeOK
  <1>4. Abstract!Newer(t, calls[t], ran)
    BY <1>1 DEF Abstract!Newer, OrderInv, KnownTo
  <1>5. Abstract!Newer(t, calls[t], pendingIds)
    <2> SUFFICES ASSUME NEW i \in 1..Len(pendingIds), pendingIds[i][1] = t
                 PROVE  pendingIds[i][2] < calls[t]
      BY DEF Abstract!Newer
    <2>1. /\ i + Handled \in 1..Len(queue)
          /\ pendingIds[i] = <<queue[i + Handled].from, queue[i + Handled].n>>
      BY PendingSeq
    <2> QED
      BY <1>1, <2>1 DEF OrderInv, KnownTo
  <1>6. Abstract!Submit(t, calls[t], pc[t] = "send")
    BY <1>1, <1>2, <1>3, <1>4, <1>5, PushPending DEF Abstract!Submit
  <1> QED
    BY <1>1, <1>6

(* Every step of the pump and of its callers is a step of the queue they   *)
(* rely on, or does not concern it.                                        *)
LEMMA StepSimulation ==
  ASSUME IInv, IInv', OrderInv, [Next]_vars
  PROVE  [Abstract!Next]_(Abstract!vars)
  <1> USE DEF Abstract!vars
  <1>1. CASE \E t \in Threads : SendPush(t) \/ PostPush(t) \/ DestroyPush(t)
    BY <1>1, PushSubmits DEF Abstract!Next
  <1>2. CASE EndHandler
    <2>1. blockedCalls' = blockedCalls
      BY <1>2, EndHandlerStep DEF blockedCalls
    <2> QED
      BY <1>2, <2>1, EndHandlerPending DEF Abstract!Next, Abstract!Execute
  <1>3. CASE PumpClear
    BY <1>3, PumpClearStep DEF pendingIds, blockedCalls
  <1>4. ASSUME NEW t \in Threads, SpinReturn(t)
        PROVE  Abstract!Return(t)
    <2>1. /\ UNCHANGED <<ran, calls>> /\ pc[t] = "spin" /\ pc' = [pc EXCEPT ![t] = "idle"]
          /\ calls[t] \in 1..MaxCalls
      BY <1>4 DEF SpinReturn, ThreadGoesTo, mainVars, IInv, CallInv
    <2>2. pendingIds' = pendingIds
      BY <1>4, QuietSteps, QuietPending
    <2>3. blockedCalls[t] = calls[t] /\ blockedCalls' = [blockedCalls EXCEPT ![t] = 0]
      BY <2>1 DEF blockedCalls, FrameStates, IInv, TypeOK
    <2>4. Abstract!Occurs(ran, <<t, calls[t]>>)
      BY <2>1 DEF Abstract!Occurs, IInv, RanInv, RanIn, FrameStates
    <2> QED
      BY <2>1, <2>2, <2>3, <2>4 DEF Abstract!Return
  <1>5. CASE \/ LoopTest \/ EnterWait \/ SpuriousWake \/ LeaveWait \/ Recheck
             \/ PumpLock \/ BeginHandler \/ SetValue \/ Settle \/ UNCHANGED vars
    <2>1. UNCHANGED <<pc, calls>>
      BY <1>5 DEF LoopTest, EnterWait, SpuriousWake, LeaveWait, Recheck, MainGoesTo, PumpLock,
                  BeginHandler, SetValue, Settle, threadVars, vars
    <2>2. Quiet
      BY <1>5, QuietSteps
    <2> QED
      BY <2>1, <2>2, QuietPending DEF Quiet, blockedCalls
  <1>6. ASSUME NEW t \in Threads, Invoke(t) \/ Notify(t) \/ FutureGet(t)
        PROVE  UNCHANGED <<pendingIds, ran, blockedCalls>>
    <2>1. Quiet
      BY <1>6, QuietSteps
    <2>2. /\ \A u \in Threads : u # t => calls'[u] = calls[u] /\ pc'[u] = pc[u]
          /\ pc[t] \in FrameStates => calls'[t] = calls[t] /\ pc'[t] \in FrameStates
          /\ pc[t] \notin FrameStates => pc'[t] \notin FrameStates
      BY <1>6 DEF Invoke, SyncInvoke, AsyncInvoke, Shutdown, CanCall, Notify, FutureGet, ThreadGoesTo,
                  FrameStates, IInv, TypeOK
    <2>3. blockedCalls' = blockedCalls
      BY <2>2 DEF blockedCalls
    <2> QED
      BY <2>1, <2>3, QuietPending DEF Quiet
  <1> QED
    BY <1>1, <1>2, <1>3, <1>4, <1>5, <1>6
    DEF Next, MainStep, BlockMessageLoop, RunMessagePump, ThreadStep, Abstract!Next

(* SyncInvoke, AsyncInvoke and the pump implement a first-in first-out     *)
(* queue of functions whose synchronous callers return after theirs.       *)
THEOREM Refinement == Spec => ImplementsMainThreadQueue
  <1>1. Init => Abstract!Init
    BY DEF Init, Abstract!Init, pendingIds, blockedCalls, Handled, PumpStates, FrameStates
  <1>2. IInv /\ IInv' /\ OrderInv /\ [Next]_vars => [Abstract!Next]_(Abstract!vars)
    BY StepSimulation
  <1> QED
    BY <1>1, <1>2, Invariance, OrderInvariance, PTL DEF Spec, ImplementsMainThreadQueue, Abstract!Spec
=============================================================================
