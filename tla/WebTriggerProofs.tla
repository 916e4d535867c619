-------------------------- MODULE WebTriggerProofs --------------------------
(***************************************************************************)
(* The sleep timer and the triggers that repeat, for any number of         *)
(* triggers, workers and changes of the settings. What keeps a trigger     *)
(* from being lost is divided over the threads: as long as no live         *)
(* registration is there, some thread is between the two halves of         *)
(* ReloadTrigger, or the trigger's own callback has yet to register its    *)
(* next firing.                                                            *)
(***************************************************************************)
EXTENDS WebTrigger, SequenceTheorems, TLAPS

(* The closures in the queue are about callbacks of CallbackList.          *)
QueueInv == \A q \in 1..Len(queue) : queue[q].callbacks \subseteq callbackList

(* Where the trigger thread is says whose callback it runs.                *)
StepInv == /\ loop_use => self # Timer
           /\ At("check") => self \in Triggers
           /\ At("next") => loop_use
           /\ pc[TriggerThread] \in {"timer", "dotimer"} => self = Timer
           /\ sets <= changes + 1

(* Every setting of the timer allows one execution, which is used up when  *)
(* firetime has been removed.                                              *)
TimerInv == execs + (IF firetime \/ At("dotimer") THEN 1 ELSE 0) <= sets

(* What is to be registered, and who sees to it.                           *)
IsWanted(k) == IF k = Timer THEN firetime ELSE k \in Enabled \ excused /\ conf[k].loop
Reloading == \E t \in Threads : pc[t] \in {"remove", "register"}
InCallback(k) == /\ self = k
                 /\ IF k = Timer THEN pc[TriggerThread] \in {"timer", "dotimer"}
                    ELSE loop_use /\ pc[TriggerThread] \in {"check", "fire", "after", "next"}
KeptInv == \A k \in Whats : IsWanted(k) => HasLive(k) \/ Reloading \/ InCallback(k)

IInv == TypeOK /\ QueueInv /\ StepInv /\ TimerInv /\ KeptInv

-----------------------------------------------------------------------------
LEMMA InitIInv == Init => IInv
  <1> SUFFICES ASSUME Init PROVE IInv
    OBVIOUS
  <1> USE WebTriggerAssumption
  <1>1. queue = <<>> /\ Len(queue) = 0 /\ queue \in Seq(Closure)
    BY DEF Init
  <1>2. ToRegister \subseteq Whats
    BY DEF ToRegister, Enabled, Whats
  <1>3. callbackList \subseteq Callback /\ \A c \in callbackList : c.id = 1
    BY <1>2 DEF Init, New, Callback
  <1>4. TypeOK
    <2>1. conf \in [Triggers -> Conf] /\ firetime \in BOOLEAN /\ loop_use \in BOOLEAN
      BY DEF Init
    <2>2. ids \in 1..MaxIds /\ regs \subseteq callbackList /\ \A c \in callbackList : c.id <= ids
      BY <1>3 DEF Init
    <2>3. /\ pc \in [Threads -> {"idle", "drain", "remove", "register", "check", "fire", "after", "next",
                                 "timer", "dotimer"}]
          /\ \A w \in Workers : pc[w] \in {"idle", "remove", "register"}
      BY DEF Init, Threads
    <2>4. /\ self \in Whats /\ excused \subseteq Triggers /\ changes \in 0..MaxSets
          /\ sets \in 0..(MaxSets + 1) /\ execs \in 0..(MaxSets + 1)
      BY DEF Init, Whats
    <2> QED
      BY <1>1, <1>3, <2>1, <2>2, <2>3, <2>4 DEF TypeOK
  <1>5. QueueInv
    BY <1>1 DEF QueueInv
  <1>6. StepInv /\ TimerInv
    BY DEF Init, StepInv, TimerInv, At, Threads
  <1>7. KeptInv
    <2> SUFFICES ASSUME NEW k \in Whats, IsWanted(k)
                 PROVE  HasLive(k)
      BY DEF KeptInv
    <2>1. k \in ToRegister
      BY DEF IsWanted, ToRegister
    <2>2. [id |-> 1, what |-> k] \in callbackList /\ [id |-> 1, what |-> k] \in regs
      BY <2>1 DEF Init, New
    <2> QED
      BY <1>1, <2>2 DEF HasLive, IsLive, RemovedFrom
  <1> QED
    BY <1>4, <1>5, <1>6, <1>7 DEF IInv

-----------------------------------------------------------------------------
(* Which registrations are live after a closure was queued or run.         *)
LEMMA DeferStep ==
  ASSUME TypeOK, QueueInv, NEW o \in Closure, Defer(o), callbackList \subseteq callbackList',
         o.callbacks \subseteq callbackList'
  PROVE  /\ queue' \in Seq(Closure) /\ QueueInv' /\ ~ At("drain")
         /\ o.op = "append" /\ UNCHANGED regs =>
               \A c : IsLive(c) \/ c \in o.callbacks => IsLive(c)'
  <1>1. queue' = Append(queue, o) /\ ~ At("drain") /\ Len(queue) \in Nat /\ queue \in Seq(Closure)
    BY LenProperties DEF Defer, At, TypeOK
  <1>2. /\ queue' \in Seq(Closure) /\ Len(queue') = Len(queue) + 1
        /\ \A q \in 1..Len(queue) : queue'[q] = queue[q]
        /\ queue'[Len(queue) + 1] = o
    BY <1>1, AppendProperties
  <1>3. \A q \in 1..Len(queue') : q \in 1..Len(queue) \/ q = Len(queue) + 1
    BY <1>1, <1>2
  <1>4. QueueInv'
    BY <1>2, <1>3 DEF QueueInv
  <1>5. ASSUME o.op = "append", UNCHANGED regs, NEW c
        PROVE  IsLive(c) \/ c \in o.callbacks => IsLive(c)'
    <2>1. ASSUME NEW n \in 1..(Len(queue) + 2), RemovedFrom(c, n)' PROVE RemovedFrom(c, n)
      <3>1. PICK q \in n..Len(queue') : queue'[q].op = "remove" /\ c \in queue'[q].callbacks
        BY <2>1 DEF RemovedFrom
      <3>2. q \in 1..Len(queue')
        BY <1>1, <1>2
      <3>3. q # Len(queue) + 1
        BY <1>2, <1>5, <3>1
      <3>4. q \in n..Len(queue) /\ queue'[q] = queue[q]
        BY <1>1, <1>2, <1>3, <3>2, <3>3
      <3> QED
        BY <3>1, <3>4 DEF RemovedFrom
    <2>2. 1 \in 1..(Len(queue) + 2) /\ \A p \in 1..Len(queue) : p + 1 \in 1..(Len(queue) + 2) /\ p \in 1..Len(queue')
      BY <1>1, <1>2
    <2>3. CASE c \in regs /\ ~ RemovedFrom(c, 1)
      <3>1. ~ RemovedFrom(c, 1)'
        BY <2>1, <2>2, <2>3
      <3> QED
        BY <1>5, <2>3, <3>1 DEF IsLive
    <2>4. ASSUME NEW p \in 1..Len(queue), queue[p].op = "append", c \in queue[p].callbacks,
                 ~ RemovedFrom(c, p + 1)
          PROVE  IsLive(c)'
      <3>1. ~ RemovedFrom(c, p + 1)' /\ queue'[p] = queue[p] /\ p \in 1..Len(queue')
        BY <1>2, <2>1, <2>2, <2>4
      <3> QED
        BY <2>4, <3>1 DEF IsLive
    <2>5. CASE c \in o.callbacks
      <3>1. PICK n : n = Len(queue) + 1
        OBVIOUS
      <3>2. n \in 1..Len(queue') /\ queue'[n] = o /\ \A q \in (n + 1)..Len(queue') : FALSE
        BY <1>1, <1>2, <3>1
      <3>3. ~ RemovedFrom(c, n + 1)'
        BY <3>2 DEF RemovedFrom
      <3> QED
        BY <1>5, <2>5, <3>2, <3>3 DEF IsLive
    <2> QED
      BY <2>3, <2>4, <2>5 DEF IsLive
  <1> QED
    BY <1>1, <1>2, <1>4, <1>5

(* A closure is run: a live registration stays one.                        *)
LEMMA DrainStep ==
  ASSUME TypeOK, QueueInv, Drain
  PROVE  /\ queue' \in Seq(Closure) /\ QueueInv' /\ regs' \subseteq callbackList
         /\ \A c : IsLive(c) => IsLive(c)'
  <1>1. /\ queue # <<>> /\ queue \in Seq(Closure) /\ queue' = Tail(queue) /\ UNCHANGED callbackList
        /\ regs' = Apply(regs, Head(queue))
    BY DEF Drain, TypeOK
  <1>2. PICK o : o = Head(queue)
    OBVIOUS
  <1>3. /\ queue' \in Seq(Closure) /\ o \in Closure /\ Len(queue) \in Nat /\ 1 \in 1..Len(queue) /\ o = queue[1]
        /\ Len(queue') = Len(queue) - 1 /\ \A q \in 1..Len(queue') : queue'[q] = queue[q + 1]
    BY <1>1, <1>2, HeadTailProperties, LenProperties
  <1>4. \A q \in 1..Len(queue') : q + 1 \in 1..Len(queue) /\ queue'[q] = queue[q + 1]
    BY <1>3
  <1>5. \A q \in 1..Len(queue) : q # 1 => q - 1 \in 1..Len(queue') /\ queue'[q - 1] = queue[q]
    BY <1>3
  <1>6. QueueInv'
    BY <1>1, <1>4 DEF QueueInv
  <1>7. regs' \subseteq callbackList
    BY <1>1, <1>2, <1>3 DEF QueueInv, TypeOK, Apply
  <1>8. ASSUME NEW c, IsLive(c) PROVE IsLive(c)'
    <2>1. ASSUME NEW n \in 1..Len(queue), RemovedFrom(c, n)' PROVE RemovedFrom(c, n + 1)
      <3>1. PICK q \in n..Len(queue') : queue'[q].op = "remove" /\ c \in queue'[q].callbacks
        BY <2>1 DEF RemovedFrom
      <3>2. q + 1 \in (n + 1)..Len(queue) /\ queue'[q] = queue[q + 1]
        BY <1>3
      <3> QED
        BY <3>1, <3>2 DEF RemovedFrom
    <2>2. CASE c \in regs /\ ~ RemovedFrom(c, 1)
      <3>1. ~ (o.op = "remove" /\ c \in o.callbacks)
        BY <1>3, <2>2 DEF RemovedFrom
      <3>2. c \in regs'
        BY <1>1, <1>2, <1>3, <2>2, <3>1 DEF Apply, Closure
      <3>3. RemovedFrom(c, 1 + 1) => RemovedFrom(c, 1)
        BY <1>3 DEF RemovedFrom
      <3>4. ~ RemovedFrom(c, 1)'
        BY <1>3, <2>1, <2>2, <3>3
      <3> QED
        BY <3>2, <3>4 DEF IsLive
    <2>3. ASSUME NEW p \in 1..Len(queue), queue[p].op = "append", c \in queue[p].callbacks,
                 ~ RemovedFrom(c, p + 1)
          PROVE  IsLive(c)'
      <3>1. CASE p = 1
        <4>1. c \in regs'
          BY <1>1, <1>2, <1>3, <2>3, <3>1 DEF Apply
        <4>2. ~ RemovedFrom(c, 1)'
          BY <1>3, <2>1, <2>3, <3>1
        <4> QED
          BY <4>1, <4>2 DEF IsLive
      <3>2. CASE p # 1
        <4>1. p - 1 \in 1..Len(queue') /\ queue'[p - 1] = queue[p] /\ p \in 1..Len(queue)
          BY <1>5, <3>2
        <4>2. (p - 1) + 1 = p /\ ~ RemovedFrom(c, p)'
          BY <2>1, <2>3
        <4> QED
          BY <2>3, <4>1, <4>2 DEF IsLive
      <3> QED
        BY <3>1, <3>2
    <2> QED
      BY <1>8, <2>2, <2>3 DEF IsLive
  <1> QED
    BY <1>3, <1>6, <1>7, <1>8

(* A thread moves; the others do not.                                      *)
WorkerLabels == {"idle", "remove", "register"}
Labels == {"idle", "drain", "remove", "register", "check", "fire", "after", "next", "timer", "dotimer"}

LEMMA GotoStep ==
  ASSUME TypeOK, NEW t \in Threads, NEW label, Goto(t, label),
         label \in IF t = TriggerThread THEN Labels ELSE WorkerLabels
  PROVE  /\ pc'[t] = label /\ \A u \in Threads : u # t => pc'[u] = pc[u]
         /\ pc[t] \notin {"remove", "register"} /\ Reloading => Reloading'
         /\ label \in {"remove", "register"} => Reloading'
         /\ pc' \in [Threads -> Labels] /\ \A w \in Workers : pc'[w] \in WorkerLabels
  <1>1. pc \in [Threads -> Labels] /\ pc' = [pc EXCEPT ![t] = label] /\ label \in Labels
    BY DEF Goto, TypeOK, Labels, WorkerLabels
  <1>2. pc'[t] = label /\ (\A u \in Threads : u # t => pc'[u] = pc[u]) /\ pc' \in [Threads -> Labels]
    BY <1>1
  <1>3. pc[t] \notin {"remove", "register"} /\ Reloading => Reloading'
    BY <1>2 DEF Reloading, Threads
  <1>4. label \in {"remove", "register"} => Reloading'
    BY <1>2 DEF Reloading, Threads
  <1>5. TriggerThread \notin Workers /\ \A w \in Workers : w \in Threads
    BY WebTriggerAssumption DEF TriggerThread, Threads
  <1>6. \A w \in Workers : pc'[w] \in WorkerLabels
    BY <1>2, <1>5 DEF TypeOK, WorkerLabels
  <1> QED
    BY <1>2, <1>3, <1>4, <1>6

LEMMA SameLive ==
  ASSUME UNCHANGED <<callbackList, queue, regs>>
  PROVE  (\A k : HasLive(k)' <=> HasLive(k)) /\ (QueueInv' <=> QueueInv)
  BY DEF HasLive, IsLive, RemovedFrom, QueueInv

LEMMA NewCallbacksStep ==
  ASSUME TypeOK, QueueInv, NEW whats \in SUBSET Whats, NewCallbacks(whats), UNCHANGED regs
  PROVE  /\ callbackList' \subseteq Callback /\ regs' \subseteq callbackList' /\ queue' \in Seq(Closure)
         /\ ids' \in 1..MaxIds /\ \A c \in callbackList' : c.id <= ids'
         /\ QueueInv' /\ \A k : HasLive(k) \/ k \in whats => HasLive(k)'
  <1>1. CASE whats = {}
    <2>1. UNCHANGED <<ids, callbackList, queue>>
      BY <1>1 DEF NewCallbacks
    <2> QED
      BY <1>1, <2>1, SameLive DEF TypeOK
  <1>2. CASE whats # {}
    <2>1. PICK n : n = ids + 1
      OBVIOUS
    <2>2. PICK o : o = [op |-> "append", callbacks |-> New(n, whats)]
      OBVIOUS
    <2>3. /\ ids < MaxIds /\ ids' = n /\ callbackList' = callbackList \cup New(n, whats) /\ Defer(o)
      BY <1>2, <2>1, <2>2 DEF NewCallbacks
    <2>4. n \in 1..MaxIds /\ ids < n /\ ids \in Nat
      BY <2>1, <2>3, WebTriggerAssumption DEF TypeOK
    <2>5. New(n, whats) \subseteq Callback /\ (\A c \in New(n, whats) : c.id = n)
          /\ \A k \in whats : \E c \in New(n, whats) : c.what = k
      <3>1. New(n, whats) \subseteq Callback /\ \A c \in New(n, whats) : c.id = n
        BY <2>4 DEF New, Callback
      <3>2. ASSUME NEW k \in whats PROVE \E c \in New(n, whats) : c.what = k
        <4>1. [id |-> n, what |-> k] \in New(n, whats) /\ [id |-> n, what |-> k].what = k
          BY DEF New
        <4> QED
          BY <4>1
      <3> QED
        BY <3>1, <3>2
    <2>6. o \in Closure /\ o.op = "append" /\ o.callbacks = New(n, whats)
      BY <2>2, <2>5 DEF Closure
    <2>7. /\ queue' \in Seq(Closure) /\ QueueInv' /\ \A c : IsLive(c) \/ c \in o.callbacks => IsLive(c)'
      BY <2>3, <2>6, DeferStep
    <2>8. \A c \in callbackList' : c.id <= ids'
      <3>1. \A c \in callbackList : c.id \in Int /\ c.id <= ids
        BY DEF TypeOK, Callback
      <3> QED
        BY <2>3, <2>4, <2>5, <3>1
    <2>9. \A k : HasLive(k) \/ k \in whats => HasLive(k)'
      BY <2>3, <2>5, <2>6, <2>7 DEF HasLive
    <2>10. callbackList' \subseteq Callback /\ regs' \subseteq callbackList'
      BY <2>3, <2>5 DEF TypeOK
    <2> QED
      BY <2>3, <2>4, <2>7, <2>8, <2>9, <2>10
  <1> QED
    BY <1>1, <1>2

(* The first half of ReloadTrigger takes every registration back; the      *)
(* thread itself is the one that will see to the new ones.                 *)
LEMMA ReloadRemoveIInv == ASSUME IInv, NEW t \in Threads, ReloadRemove(t) PROVE IInv'
  <1>t. TypeOK
    BY DEF IInv
  <1>1. PICK o : o = [op |-> "remove", callbacks |-> callbackList]
    OBVIOUS
  <1>2. /\ pc[t] = "remove" /\ Goto(t, "register") /\ Defer(o)
        /\ UNCHANGED <<conf, firetime, callbackList, ids, regs, self, loop_use, changes, sets, execs, excused>>
    BY <1>1 DEF ReloadRemove
  <1>3. o \in Closure /\ o.callbacks \subseteq callbackList
    BY <1>t, <1>1 DEF TypeOK, Closure
  <1>4. queue' \in Seq(Closure) /\ QueueInv'
    BY <1>t, <1>2, <1>3, DeferStep DEF IInv
  <1>5. /\ pc'[t] = "register" /\ (\A u \in Threads : u # t => pc'[u] = pc[u]) /\ Reloading'
        /\ pc' \in [Threads -> Labels] /\ \A w \in Workers : pc'[w] \in WorkerLabels
    BY <1>t, <1>2, GotoStep DEF Labels, WorkerLabels
  <1>6. TypeOK'
    BY <1>t, <1>2, <1>4, <1>5 DEF TypeOK, Labels, WorkerLabels
  <1>7. TriggerThread \in Threads
    BY DEF Threads
  <1>8. StepInv'
    BY <1>2, <1>5, <1>7 DEF IInv, StepInv, At
  <1>9. TimerInv'
    <2>1. (firetime \/ At("dotimer"))' <=> (firetime \/ At("dotimer"))
      BY <1>2, <1>5, <1>7 DEF At
    <2> QED
      BY <1>2, <2>1 DEF IInv, TimerInv
  <1>10. KeptInv'
    BY <1>5 DEF KeptInv
  <1> QED
    BY <1>4, <1>6, <1>8, <1>9, <1>10 DEF IInv

(* The second half registers all that is wanted now.                       *)
LEMMA ReloadRegisterIInv == ASSUME IInv, NEW t \in Threads, ReloadRegister(t) PROVE IInv'
  <1>t. TypeOK
    BY DEF IInv
  <1>1. PICK label : label = IF t = TriggerThread THEN "after" ELSE "idle"
    OBVIOUS
  <1>2. /\ pc[t] = "register" /\ Goto(t, label) /\ NewCallbacks(ToRegister)
        /\ UNCHANGED <<conf, firetime, regs, self, loop_use, changes, sets, execs, excused>>
    BY <1>1 DEF ReloadRegister
  <1>3. ToRegister \in SUBSET Whats
    BY DEF ToRegister, Enabled, Whats
  <1>4. /\ callbackList' \subseteq Callback /\ regs' \subseteq callbackList' /\ queue' \in Seq(Closure)
        /\ ids' \in 1..MaxIds /\ \A c \in callbackList' : c.id <= ids'
        /\ QueueInv' /\ \A k \in ToRegister : HasLive(k)'
    BY <1>t, <1>2, <1>3, NewCallbacksStep DEF IInv
  <1>5. /\ pc'[t] = label /\ (\A u \in Threads : u # t => pc'[u] = pc[u])
        /\ pc' \in [Threads -> Labels] /\ \A w \in Workers : pc'[w] \in WorkerLabels
    BY <1>t, <1>1, <1>2, GotoStep DEF Labels, WorkerLabels
  <1>6. TypeOK'
    BY <1>t, <1>2, <1>4, <1>5 DEF TypeOK, Labels, WorkerLabels
  <1>7. TriggerThread \in Threads
    BY DEF Threads
  <1>8. StepInv'
    BY <1>1, <1>2, <1>5, <1>7 DEF IInv, StepInv, At
  <1>9. TimerInv'
    <2>1. (firetime \/ At("dotimer"))' <=> (firetime \/ At("dotimer"))
      BY <1>1, <1>2, <1>5, <1>7 DEF At
    <2> QED
      BY <1>2, <2>1 DEF IInv, TimerInv
  <1>10. KeptInv'
    <2> SUFFICES ASSUME NEW k \in Whats, IsWanted(k)'
                 PROVE  HasLive(k)'
      BY DEF KeptInv
    <2>1. k \in ToRegister
      BY <1>2 DEF IsWanted, ToRegister, Enabled
    <2> QED
      BY <1>4, <2>1
  <1> QED
    BY <1>4, <1>6, <1>8, <1>9, <1>10 DEF IInv

-----------------------------------------------------------------------------
(* A change of the settings that is followed by a reload.                  *)
LEMMA ChangeIInv ==
  ASSUME IInv, NEW w \in Workers, Change(w), conf' \in [Triggers -> Conf], firetime' \in BOOLEAN,
         \/ sets' = sets /\ (firetime' => firetime)
         \/ sets' = sets + 1
  PROVE  IInv'
  <1>t. TypeOK
    BY DEF IInv
  <1>1. /\ pc[w] = "idle" /\ changes < MaxSets /\ changes' = changes + 1 /\ Goto(w, "remove")
        /\ UNCHANGED <<callbackList, ids, queue, regs, self, loop_use, execs, excused>>
    BY DEF Change
  <1>2. w \in Threads /\ w # TriggerThread /\ TriggerThread \in Threads
    BY WebTriggerAssumption DEF Threads, TriggerThread
  <1>3. /\ pc'[w] = "remove" /\ (\A u \in Threads : u # w => pc'[u] = pc[u]) /\ Reloading'
        /\ pc' \in [Threads -> Labels] /\ \A v \in Workers : pc'[v] \in WorkerLabels
    BY <1>t, <1>1, <1>2, GotoStep DEF Labels, WorkerLabels
  <1>4. pc'[TriggerThread] = pc[TriggerThread]
    BY <1>2, <1>3
  <1>5. /\ changes \in Nat /\ sets \in Nat /\ execs \in Nat /\ sets <= changes + 1 /\ MaxSets \in Nat
    BY <1>t, WebTriggerAssumption DEF TypeOK, IInv, StepInv
  <1>6. changes' \in 0..MaxSets /\ sets' \in 0..(MaxSets + 1) /\ sets' <= changes' + 1
    BY <1>1, <1>5
  <1>7. TypeOK'
    BY <1>t, <1>1, <1>3, <1>6 DEF TypeOK, Labels, WorkerLabels
  <1>8. QueueInv'
    BY <1>1, SameLive DEF IInv
  <1>9. StepInv'
    BY <1>1, <1>4, <1>6 DEF IInv, StepInv, At
  <1>10. TimerInv'
    BY <1>1, <1>4, <1>5 DEF IInv, TimerInv, At
  <1>11. KeptInv'
    BY <1>3 DEF KeptInv
  <1> QED
    BY <1>7, <1>8, <1>9, <1>10, <1>11 DEF IInv

LEMMA WorkerIInv ==
  ASSUME IInv, NEW w \in Workers,
         \/ \E k \in Triggers, l \in BOOLEAN : setting_trigger_update(w, k, l)
         \/ \E k \in Triggers : setting_trigger_delete(w, k)
         \/ \E on \in BOOLEAN : SetTimerByWeb(w, on)
  PROVE  IInv'
  <1>t. TypeOK
    BY DEF IInv
  <1>1. CASE \E k \in Triggers, l \in BOOLEAN : setting_trigger_update(w, k, l)
    <2>1. /\ Change(w) /\ conf' \in [Triggers -> Conf] /\ firetime' \in BOOLEAN
          /\ sets' = sets /\ firetime' = firetime
      BY <1>t, <1>1 DEF setting_trigger_update, TypeOK, Conf
    <2> QED
      BY <2>1, ChangeIInv
  <1>2. CASE \E k \in Triggers : setting_trigger_delete(w, k)
    <2>1. /\ Change(w) /\ conf' \in [Triggers -> Conf] /\ firetime' \in BOOLEAN
          /\ sets' = sets /\ firetime' = firetime
      BY <1>t, <1>2 DEF setting_trigger_delete, TypeOK, Conf, Absent
    <2> QED
      BY <2>1, ChangeIInv
  <1>3. CASE \E on \in BOOLEAN : SetTimerByWeb(w, on)
    <2>1. PICK on \in BOOLEAN : SetTimerByWeb(w, on)
      BY <1>3
    <2>2. /\ Change(w) /\ conf' \in [Triggers -> Conf] /\ firetime' \in BOOLEAN
          /\ (sets' = sets /\ ~ firetime') \/ sets' = sets + 1
      BY <1>t, <2>1 DEF SetTimerByWeb, run_set_electimer, TypeOK
    <2> QED
      BY <2>2, ChangeIInv
  <1> QED
    BY <1>1, <1>2, <1>3

(* The switch on the page: the trigger is excused from then on.            *)
LEMMA EnableChangeIInv ==
  ASSUME IInv, NEW w \in Workers, NEW k \in Triggers, NEW e \in BOOLEAN,
         setting_trigger_enable_change(w, k, e)
  PROVE  IInv'
  <1>t. TypeOK
    BY DEF IInv
  <1>1. /\ changes < MaxSets /\ changes' = changes + 1 /\ excused' = excused \cup {k}
        /\ conf' = [conf EXCEPT ![k].enable = e, ![k].present = TRUE]
        /\ UNCHANGED <<firetime, callbackList, ids, queue, regs, pc, self, loop_use, sets, execs>>
    BY DEF setting_trigger_enable_change
  <1>2. conf' \in [Triggers -> Conf] /\ \A j \in Triggers : j # k => conf'[j] = conf[j]
    BY ZenonT(60), <1>t, <1>1 DEF TypeOK, Conf
  <1>3. changes \in Nat /\ sets \in Nat /\ MaxSets \in Nat
    BY <1>t, WebTriggerAssumption DEF TypeOK
  <1>4. TypeOK'
    BY <1>t, <1>1, <1>2, <1>3 DEF TypeOK
  <1>5. QueueInv' /\ \A j : HasLive(j)' <=> HasLive(j)
    BY <1>1, SameLive DEF IInv
  <1>6. StepInv' /\ TimerInv'
    BY <1>1, <1>3 DEF IInv, StepInv, TimerInv, At
  <1>7. KeptInv'
    <2>1. \A j \in Whats : IsWanted(j)' => IsWanted(j)
      BY <1>1, <1>2 DEF IsWanted, Enabled, Whats
    <2>2. (Reloading' <=> Reloading) /\ \A j \in Whats : InCallback(j)' <=> InCallback(j)
      BY <1>1 DEF Reloading, InCallback
    <2> QED
      BY <1>5, <2>1, <2>2 DEF IInv, KeptInv
  <1> QED
    BY <1>4, <1>5, <1>6, <1>7 DEF IInv

-----------------------------------------------------------------------------
(* The steps of the trigger thread that leave the Trigger component and    *)
(* the settings alone.                                                     *)
LEMMA ThreadMoveIInv ==
  ASSUME IInv, NEW label \in Labels, ThreadGoto(label), pc[TriggerThread] \notin {"remove", "register"},
         TriggerKept, UNCHANGED <<conf, firetime, changes, sets, execs, self, loop_use>>,
         excused \subseteq excused', excused' \subseteq Triggers,
         label = "check" => self \in Triggers,
         label = "next" => loop_use,
         label \in {"timer", "dotimer"} => self = Timer,
         label = "dotimer" => firetime,
         At("dotimer") => firetime',
         \A k \in Whats : IsWanted(k)' /\ InCallback(k) => InCallback(k)'
  PROVE  IInv'
  <1>t. TypeOK
    BY DEF IInv
  <1>1. UNCHANGED <<callbackList, ids, queue, regs>> /\ TriggerThread \in Threads
    BY DEF TriggerKept, Threads
  <1>2. /\ pc'[TriggerThread] = label /\ (Reloading => Reloading')
        /\ pc' \in [Threads -> Labels] /\ \A w \in Workers : pc'[w] \in WorkerLabels
    BY <1>t, <1>1, GotoStep DEF ThreadGoto
  <1>3. TypeOK'
    BY <1>t, <1>1, <1>2 DEF TypeOK, Labels, WorkerLabels
  <1>4. QueueInv' /\ \A k : HasLive(k)' <=> HasLive(k)
    BY <1>1, SameLive DEF IInv
  <1>5. StepInv'
    BY <1>2 DEF IInv, StepInv, At
  <1>6. TimerInv'
    BY <1>2 DEF IInv, TimerInv, At
  <1>7. KeptInv'
    <2>1. \A k \in Whats : IsWanted(k)' => IsWanted(k)
      BY DEF IsWanted, Enabled
    <2> QED
      BY <1>2, <1>4, <2>1 DEF IInv, KeptInv
  <1> QED
    BY <1>3, <1>4, <1>5, <1>6, <1>7 DEF IInv

LEMMA CallbackMoves ==
  ASSUME IInv, WrongDay \/ triggerCheckExIf \/ WeatherFails \/ triggerFire \/ ElecTimerCheck
  PROVE  IInv'
  <1>t. TypeOK
    BY DEF IInv
  <1>1. TriggerThread \in Threads
    BY DEF Threads
  <1>2. ASSUME NEW label, ThreadGoto(label) PROVE pc'[TriggerThread] = label
    BY <1>t, <1>1, <1>2 DEF ThreadGoto, Goto, TypeOK
  <1>3. CASE WrongDay
    <2>1. /\ At("check") /\ loop_use /\ ThreadGoto("next") /\ TriggerKept
          /\ UNCHANGED <<conf, firetime, changes, sets, execs, excused, self, loop_use>>
      BY <1>3 DEF WrongDay, SettingsKept
    <2>2. \A k \in Whats : InCallback(k) => InCallback(k)'
      BY <1>2, <2>1 DEF InCallback, At
    <2>3. excused \subseteq Triggers /\ "next" \in Labels
      BY <1>t DEF TypeOK, Labels
    <2> QED
      BY <2>1, <2>2, <2>3, ThreadMoveIInv DEF At
  <1>4. CASE triggerCheckExIf
    <2>1. PICK label \in {"fire", "after"} : ThreadGoto(label)
      BY <1>4 DEF triggerCheckExIf
    <2>2. /\ At("check") /\ TriggerKept
          /\ UNCHANGED <<conf, firetime, changes, sets, execs, excused, self, loop_use>>
      BY <1>4 DEF triggerCheckExIf, SettingsKept
    <2>3. \A k \in Whats : InCallback(k) => InCallback(k)'
      BY <1>2, <2>1, <2>2 DEF InCallback, At
    <2>4. excused \subseteq Triggers /\ label \in Labels
      BY <1>t, <2>1 DEF TypeOK, Labels
    <2> QED
      BY <2>1, <2>2, <2>3, <2>4, ThreadMoveIInv DEF At
  <1>5. CASE WeatherFails
    <2>1. /\ At("check") /\ self \in Enabled /\ ThreadGoto("idle") /\ TriggerKept
          /\ excused' = excused \cup {self}
          /\ UNCHANGED <<conf, firetime, changes, sets, execs, self, loop_use>>
      BY <1>5 DEF WeatherFails
    <2>2. self \in Triggers /\ self # Timer
      BY <2>1, WebTriggerAssumption DEF Enabled
    <2>3. \A k \in Whats : IsWanted(k)' /\ InCallback(k) => InCallback(k)'
      BY <2>1, <2>2 DEF InCallback, IsWanted, At
    <2>4. excused \subseteq Triggers /\ "idle" \in Labels
      BY <1>t DEF TypeOK, Labels
    <2> QED
      BY <2>1, <2>2, <2>3, <2>4, ThreadMoveIInv DEF At
  <1>6. CASE triggerFire
    <2>1. /\ At("fire") /\ ThreadGoto("after") /\ TriggerKept
          /\ UNCHANGED <<conf, firetime, changes, sets, execs, excused, self, loop_use>>
      BY <1>6 DEF triggerFire, SettingsKept
    <2>2. \A k \in Whats : InCallback(k) => InCallback(k)'
      BY <1>2, <2>1 DEF InCallback, At
    <2>3. excused \subseteq Triggers /\ "after" \in Labels
      BY <1>t DEF TypeOK, Labels
    <2> QED
      BY <2>1, <2>2, <2>3, ThreadMoveIInv DEF At
  <1>7. CASE ElecTimerCheck
    <2>1. PICK label : label = IF firetime THEN "dotimer" ELSE "idle"
      OBVIOUS
    <2>2. /\ At("timer") /\ ThreadGoto(label) /\ TriggerKept
          /\ UNCHANGED <<conf, firetime, changes, sets, execs, excused, self, loop_use>>
      BY <1>7, <2>1 DEF ElecTimerCheck, SettingsKept
    <2>3. self = Timer
      BY <2>2 DEF IInv, StepInv, At
    <2>4. \A k \in Whats : IsWanted(k)' /\ InCallback(k) => InCallback(k)'
      BY <1>2, <2>1, <2>2, <2>3 DEF InCallback, IsWanted, At
    <2>5. excused \subseteq Triggers /\ label \in Labels
      BY <1>t, <2>1 DEF TypeOK, Labels
    <2>6. label # "check" /\ label # "next" /\ (label = "dotimer" => firetime) /\ label # "timer"
      BY <2>1
    <2> QED
      BY <2>2, <2>3, <2>4, <2>5, <2>6, ThreadMoveIInv DEF At
  <1> QED
    BY <1>3, <1>4, <1>5, <1>6, <1>7

(* A registration fires: its trigger is now in the hands of its callback.  *)
LEMMA FireTriggerIInv == ASSUME IInv, NEW c \in regs, FireTrigger(c) PROVE IInv'
  <1>t. TypeOK
    BY DEF IInv
  <1>1. PICK label : label = IF c.what = Timer THEN "timer" ELSE "check"
    OBVIOUS
  <1>2. /\ At("idle") /\ regs' = regs \ {c} /\ self' = c.what /\ ThreadGoto(label)
        /\ loop_use' = (c.what # Timer /\ conf[c.what].loop)
        /\ UNCHANGED <<callbackList, ids, queue, conf, firetime, changes, sets, execs, excused>>
    BY <1>1 DEF FireTrigger, SettingsKept
  <1>3. c \in callbackList /\ c.what \in Whats /\ TriggerThread \in Threads
    BY <1>t DEF TypeOK, Callback, Threads
  <1>4. /\ pc'[TriggerThread] = label /\ (Reloading => Reloading')
        /\ pc' \in [Threads -> Labels] /\ \A w \in Workers : pc'[w] \in WorkerLabels
    <2>1. label \in Labels /\ pc[TriggerThread] \notin {"remove", "register"}
      BY <1>1, <1>2 DEF Labels, At
    <2> QED
      BY <1>t, <1>2, <1>3, <2>1, GotoStep DEF ThreadGoto
  <1>5. TypeOK'
    BY <1>t, <1>2, <1>3, <1>4 DEF TypeOK, Labels, WorkerLabels
  <1>6. QueueInv'
    BY <1>2 DEF IInv, QueueInv
  <1>7. StepInv'
    BY <1>1, <1>2, <1>3, <1>4, WebTriggerAssumption DEF IInv, StepInv, At, Whats
  <1>8. TimerInv'
    <2>1. (firetime \/ At("dotimer"))' <=> (firetime \/ At("dotimer"))
      BY <1>1, <1>2, <1>4 DEF At
    <2> QED
      BY <1>2, <2>1 DEF IInv, TimerInv
  <1>9. KeptInv'
    <2> SUFFICES ASSUME NEW k \in Whats, IsWanted(k)'
                 PROVE  HasLive(k)' \/ Reloading' \/ InCallback(k)'
      BY DEF KeptInv
    <2>1. IsWanted(k) /\ ~ InCallback(k)
      BY <1>2 DEF IsWanted, Enabled, InCallback, At
    <2>2. CASE k = c.what
      BY <1>1, <1>2, <1>4, <2>1, <2>2 DEF InCallback, IsWanted
    <2>3. CASE k # c.what
      <3>1. HasLive(k) \/ Reloading
        BY <2>1 DEF IInv, KeptInv
      <3>2. ASSUME NEW d \in callbackList, d.what = k, IsLive(d) PROVE IsLive(d)'
        BY <1>2, <2>3, <3>2 DEF IsLive, RemovedFrom
      <3>3. HasLive(k) => HasLive(k)'
        BY <1>2, <3>2 DEF HasLive
      <3> QED
        BY <1>4, <3>1, <3>3
    <2> QED
      BY <2>2, <2>3
  <1> QED
    BY <1>5, <1>6, <1>7, <1>8, <1>9 DEF IInv

LEMMA DrainIInv == ASSUME IInv, Drain PROVE IInv'
  <1>t. TypeOK
    BY DEF IInv
  <1>1. PICK label : label = IF Tail(queue) = <<>> THEN "idle" ELSE "drain"
    OBVIOUS
  <1>2. /\ pc[TriggerThread] \in {"idle", "drain"} /\ ThreadGoto(label) /\ TriggerThread \in Threads
        /\ UNCHANGED <<callbackList, ids, self, loop_use, conf, firetime, changes, sets, execs, excused>>
    BY <1>1 DEF Drain, SettingsKept, Threads
  <1>3. /\ queue' \in Seq(Closure) /\ QueueInv' /\ regs' \subseteq callbackList
        /\ \A c : IsLive(c) => IsLive(c)'
    BY <1>t, DrainStep DEF IInv
  <1>4. /\ pc'[TriggerThread] = label /\ (Reloading => Reloading')
        /\ pc' \in [Threads -> Labels] /\ \A w \in Workers : pc'[w] \in WorkerLabels
    <2>1. label \in Labels /\ pc[TriggerThread] \notin {"remove", "register"}
      BY <1>1, <1>2 DEF Labels
    <2> QED
      BY <1>t, <1>2, <2>1, GotoStep DEF ThreadGoto
  <1>5. TypeOK'
    BY <1>t, <1>2, <1>3, <1>4 DEF TypeOK, Labels, WorkerLabels
  <1>6. StepInv'
    BY <1>1, <1>2, <1>4 DEF IInv, StepInv, At
  <1>7. TimerInv'
    <2>1. (firetime \/ At("dotimer"))' <=> (firetime \/ At("dotimer"))
      BY <1>1, <1>2, <1>4 DEF At
    <2> QED
      BY <1>2, <2>1 DEF IInv, TimerInv
  <1>8. KeptInv'
    <2>1. \A k : HasLive(k) => HasLive(k)'
      BY <1>2, <1>3 DEF HasLive
    <2>2. \A k \in Whats : (IsWanted(k)' => IsWanted(k)) /\ ~ InCallback(k)
      BY <1>2 DEF IsWanted, Enabled, InCallback
    <2> QED
      BY <1>4, <2>1, <2>2 DEF IInv, KeptInv
  <1> QED
    BY <1>3, <1>5, <1>6, <1>7, <1>8 DEF IInv

(* An action of the macro sets the timer: the trigger thread reloads.      *)
LEMMA SetTimerByMacroIInv == ASSUME IInv, NEW on \in BOOLEAN, SetTimerByMacro(on) PROVE IInv'
  <1>t. TypeOK
    BY DEF IInv
  <1>1. /\ At("fire") /\ changes < MaxSets /\ changes' = changes + 1 /\ ThreadGoto("remove")
        /\ firetime' = on /\ sets' = (IF on THEN sets + 1 ELSE sets)
        /\ UNCHANGED <<callbackList, ids, queue, regs, conf, self, loop_use, execs, excused>>
        /\ TriggerThread \in Threads
    BY DEF SetTimerByMacro, run_set_electimer, TriggerKept, Threads
  <1>2. /\ pc'[TriggerThread] = "remove" /\ Reloading'
        /\ pc' \in [Threads -> Labels] /\ \A w \in Workers : pc'[w] \in WorkerLabels
    BY <1>t, <1>1, GotoStep DEF ThreadGoto, Labels
  <1>3. changes \in Nat /\ sets \in Nat /\ execs \in Nat /\ sets <= changes + 1 /\ MaxSets \in Nat
    BY <1>t, WebTriggerAssumption DEF TypeOK, IInv, StepInv
  <1>4. changes' \in 0..MaxSets /\ sets' \in 0..(MaxSets + 1) /\ sets' <= changes' + 1
    BY <1>1, <1>3
  <1>5. TypeOK'
    BY <1>t, <1>1, <1>2, <1>4 DEF TypeOK, Labels, WorkerLabels
  <1>6. QueueInv'
    BY <1>1, SameLive DEF IInv
  <1>7. StepInv'
    BY <1>1, <1>2, <1>4 DEF IInv, StepInv, At
  <1>8. TimerInv'
    BY <1>1, <1>2, <1>3 DEF IInv, TimerInv, At
  <1>9. KeptInv'
    BY <1>2 DEF KeptInv
  <1> QED
    BY <1>5, <1>6, <1>7, <1>8, <1>9 DEF IInv

(* A trigger that does not repeat is disabled, and not wanted any more.    *)
LEMMA AfterFireIInv == ASSUME IInv, AfterFire PROVE IInv'
  <1>t. TypeOK
    BY DEF IInv
  <1>1. PICK label : label = IF loop_use THEN "next" ELSE "idle"
    OBVIOUS
  <1>2. /\ At("after") /\ ThreadGoto(label) /\ TriggerThread \in Threads
        /\ conf' = (IF loop_use \/ self = Timer THEN conf
                    ELSE [conf EXCEPT ![self].enable = FALSE, ![self].present = TRUE])
        /\ UNCHANGED <<callbackList, ids, queue, regs, firetime, self, loop_use, changes, sets, execs, excused>>
    BY <1>1 DEF AfterFire, TriggerKept, Threads
  <1>3. /\ pc'[TriggerThread] = label /\ (Reloading => Reloading')
        /\ pc' \in [Threads -> Labels] /\ \A w \in Workers : pc'[w] \in WorkerLabels
    <2>1. label \in Labels /\ pc[TriggerThread] \notin {"remove", "register"}
      BY <1>1, <1>2 DEF Labels, At
    <2> QED
      BY <1>t, <1>2, <2>1, GotoStep DEF ThreadGoto
  <1>4. conf' \in [Triggers -> Conf] /\ \A k \in Whats : IsWanted(k)' => IsWanted(k)
    <2>1. CASE loop_use \/ self = Timer
      BY <1>t, <1>2, <2>1 DEF TypeOK, IsWanted, Enabled
    <2>2. CASE ~ (loop_use \/ self = Timer)
      <3>1. self \in Triggers /\ conf \in [Triggers -> Conf]
        BY <1>t, <2>2 DEF TypeOK, Whats
      <3>2. /\ conf' \in [Triggers -> Conf] /\ ~ conf'[self].enable
            /\ \A k \in Triggers : k # self => conf'[k] = conf[k]
        BY <1>2, <2>2, <3>1 DEF Conf
      <3>3. \A k \in Triggers : k # Timer
        BY WebTriggerAssumption
      <3> QED
        BY <1>2, <3>1, <3>2, <3>3 DEF IsWanted, Enabled, Whats
    <2> QED
      BY <2>1, <2>2
  <1>5. TypeOK'
    BY <1>t, <1>2, <1>3, <1>4 DEF TypeOK, Labels, WorkerLabels
  <1>6. QueueInv' /\ \A k : HasLive(k)' <=> HasLive(k)
    BY <1>2, SameLive DEF IInv
  <1>7. StepInv'
    BY <1>1, <1>2, <1>3 DEF IInv, StepInv, At
  <1>8. TimerInv'
    <2>1. (firetime \/ At("dotimer"))' <=> (firetime \/ At("dotimer"))
      BY <1>1, <1>2, <1>3 DEF At
    <2> QED
      BY <1>2, <2>1 DEF IInv, TimerInv
  <1>9. KeptInv'
    <2>1. \A k \in Whats : InCallback(k) => InCallback(k)'
      BY <1>1, <1>2, <1>3 DEF InCallback, At
    <2> QED
      BY <1>3, <1>4, <1>6, <2>1 DEF IInv, KeptInv
  <1> QED
    BY <1>5, <1>6, <1>7, <1>8, <1>9 DEF IInv

LEMMA RegisterNextIInv == ASSUME IInv, RegisterNext PROVE IInv'
  <1>t. TypeOK
    BY DEF IInv
  <1>1. /\ At("next") /\ ThreadGoto("idle") /\ NewCallbacks({self}) /\ TriggerThread \in Threads
        /\ UNCHANGED <<regs, conf, firetime, changes, sets, execs, excused, self, loop_use>>
    BY DEF RegisterNext, SettingsKept, Threads
  <1>2. {self} \in SUBSET Whats
    BY <1>t DEF TypeOK
  <1>3. /\ callbackList' \subseteq Callback /\ regs' \subseteq callbackList' /\ queue' \in Seq(Closure)
        /\ ids' \in 1..MaxIds /\ \A c \in callbackList' : c.id <= ids'
        /\ QueueInv' /\ \A k : HasLive(k) \/ k \in {self} => HasLive(k)'
    BY <1>t, <1>1, <1>2, NewCallbacksStep DEF IInv
  <1>4. /\ pc'[TriggerThread] = "idle" /\ (Reloading => Reloading')
        /\ pc' \in [Threads -> Labels] /\ \A w \in Workers : pc'[w] \in WorkerLabels
    BY <1>t, <1>1, GotoStep DEF ThreadGoto, Labels, At
  <1>5. TypeOK'
    BY <1>t, <1>1, <1>3, <1>4 DEF TypeOK, Labels, WorkerLabels
  <1>6. StepInv'
    BY <1>1, <1>4 DEF IInv, StepInv, At
  <1>7. TimerInv'
    <2>1. (firetime \/ At("dotimer"))' <=> (firetime \/ At("dotimer"))
      BY <1>1, <1>4 DEF At
    <2> QED
      BY <1>1, <2>1 DEF IInv, TimerInv
  <1>8. KeptInv'
    <2>1. \A k \in Whats : (IsWanted(k)' => IsWanted(k)) /\ (InCallback(k) => k = self)
      BY <1>1 DEF IsWanted, Enabled, InCallback
    <2> QED
      BY <1>3, <1>4, <2>1 DEF IInv, KeptInv
  <1> QED
    BY <1>3, <1>5, <1>6, <1>7, <1>8 DEF IInv

(* The timer is executed: firetime is removed, and with it the permission. *)
LEMMA ElecTimerFireIInv == ASSUME IInv, ElecTimerFire PROVE IInv'
  <1>t. TypeOK
    BY DEF IInv
  <1>1. /\ At("dotimer") /\ ThreadGoto("fire") /\ firetime' = FALSE /\ execs' = execs + 1
        /\ TriggerThread \in Threads
        /\ UNCHANGED <<callbackList, ids, queue, regs, conf, self, loop_use, changes, sets, excused>>
    BY DEF ElecTimerFire, TriggerKept, Threads
  <1>2. /\ pc'[TriggerThread] = "fire" /\ (Reloading => Reloading')
        /\ pc' \in [Threads -> Labels] /\ \A w \in Workers : pc'[w] \in WorkerLabels
    BY <1>t, <1>1, GotoStep DEF ThreadGoto, Labels, At
  <1>3. execs + 1 <= sets /\ sets \in 0..(MaxSets + 1) /\ execs \in Nat /\ MaxSets \in Nat
    BY <1>t, <1>1, WebTriggerAssumption DEF IInv, TimerInv, TypeOK
  <1>4. TypeOK'
    <2>1. execs' \in 0..(MaxSets + 1)
      BY <1>1, <1>3
    <2> QED
      BY <1>t, <1>1, <1>2, <2>1 DEF TypeOK, Labels, WorkerLabels
  <1>5. QueueInv' /\ \A k : HasLive(k)' <=> HasLive(k)
    BY <1>1, SameLive DEF IInv
  <1>6. StepInv'
    BY <1>1, <1>2 DEF IInv, StepInv, At
  <1>7. TimerInv'
    BY <1>1, <1>2, <1>3 DEF TimerInv, At
  <1>8. KeptInv'
    <2>1. \A k \in Whats : IsWanted(k)' => IsWanted(k) /\ k # Timer
      BY <1>1 DEF IsWanted, Enabled
    <2>2. \A k \in Whats : k # Timer => ~ InCallback(k)
      BY <1>1 DEF InCallback, At
    <2> QED
      BY <1>2, <1>5, <2>1, <2>2 DEF IInv, KeptInv
  <1> QED
    BY <1>4, <1>5, <1>6, <1>7, <1>8 DEF IInv

LEMMA NextIInv == ASSUME IInv, [Next]_vars PROVE IInv'
  <1>1. CASE \E t \in Threads : Reload(t)
    BY <1>1, ReloadRemoveIInv, ReloadRegisterIInv DEF Reload
  <1>2. CASE \E w \in Workers : \/ \E k \in Triggers, l \in BOOLEAN : setting_trigger_update(w, k, l)
                                \/ \E k \in Triggers : setting_trigger_delete(w, k)
                                \/ \E on \in BOOLEAN : SetTimerByWeb(w, on)
    BY <1>2, WorkerIInv
  <1>3. CASE \E w \in Workers, k \in Triggers, e \in BOOLEAN : setting_trigger_enable_change(w, k, e)
    BY <1>3, EnableChangeIInv
  <1>4. CASE \E on \in BOOLEAN : SetTimerByMacro(on)
    BY <1>4, SetTimerByMacroIInv
  <1>5. CASE \E c \in regs : FireTrigger(c)
    BY <1>5, FireTriggerIInv
  <1>6. CASE Drain
    BY <1>6, DrainIInv
  <1>7. CASE WrongDay \/ triggerCheckExIf \/ WeatherFails \/ triggerFire \/ ElecTimerCheck
    BY <1>7, CallbackMoves
  <1>8. CASE AfterFire
    BY <1>8, AfterFireIInv
  <1>9. CASE RegisterNext
    BY <1>9, RegisterNextIInv
  <1>10. CASE ElecTimerFire
    BY <1>10, ElecTimerFireIInv
  <1>11. CASE UNCHANGED vars
    <2>1. /\ UNCHANGED <<callbackList, queue, regs>> /\ TypeOK' /\ StepInv' /\ TimerInv'
      BY <1>11 DEF vars, IInv, TypeOK, StepInv, TimerInv, At
    <2>2. QueueInv' /\ \A k : HasLive(k)' <=> HasLive(k)
      BY <2>1, SameLive DEF IInv
    <2>3. KeptInv'
      BY <1>11, <2>2 DEF vars, IInv, KeptInv, IsWanted, Enabled, Reloading, InCallback
    <2> QED
      BY <2>1, <2>2, <2>3 DEF IInv
  <1> QED
    BY <1>1, <1>2, <1>3, <1>4, <1>5, <1>6, <1>7, <1>8, <1>9, <1>10, <1>11 DEF Next

LEMMA Invariance == Spec => []IInv
  <1>1. Init => IInv
    BY InitIInv
  <1>2. IInv /\ [Next]_vars => IInv'
    BY NextIInv
  <1> QED
    BY <1>1, <1>2, PTL DEF Spec

-----------------------------------------------------------------------------
(* The settings, the registrations and the threads keep their types: what  *)
(* is registered is in CallbackList, so that the next reload takes it back *)
(* (ScriptWebRunnerTrigger.cpp:28-43).                                     *)
THEOREM TypeCorrect == Spec => []TypeOK
  <1>1. IInv => TypeOK
    BY DEF IInv
  <1> QED
    BY <1>1, Invariance, PTL

(* The sleep timer is executed at most once for every time it was set      *)
(* (ScriptWebRunnerTrigger.cpp:677-686).                                   *)
THEOREM TimerRunsOnce == Spec => []ElecTimerOnce
  <1>1. IInv => ElecTimerOnce
    BY DEF IInv, TypeOK, TimerInv, ElecTimerOnce
  <1> QED
    BY <1>1, Invariance, PTL

LEMMA NobodyAtWork ==
  ASSUME AtRest, NEW k
  PROVE  ~ Reloading /\ ~ InCallback(k)
  BY DEF AtRest, Reloading, InCallback, Threads

(* A sleep timer that is set has a live registration whenever no thread is *)
(* at work (ScriptWebRunnerTrigger.cpp:122-157).                           *)
THEOREM TimerIsKept == Spec => []TimerKept
  <1>1. IInv => TimerKept
    <2> SUFFICES ASSUME IInv, AtRest, firetime
                 PROVE  HasLive(Timer)
      BY DEF TimerKept
    <2>1. Timer \in Whats /\ IsWanted(Timer)
      BY DEF Whats, IsWanted
    <2> QED
      BY <2>1, NobodyAtWork DEF IInv, KeptInv
  <1> QED
    BY <1>1, Invariance, PTL

(* A trigger that repeats and is enabled has its next firing registered    *)
(* whenever no thread is at work (ScriptWebRunnerTrigger.cpp:207-220).     *)
THEOREM RepeatIsKept == Spec => []RepeatKept
  <1>1. IInv => RepeatKept
    <2> SUFFICES ASSUME IInv, AtRest, NEW k \in Enabled \ excused, conf[k].loop
                 PROVE  HasLive(k)
      BY DEF RepeatKept
    <2>1. k \in Whats /\ IsWanted(k)
      BY WebTriggerAssumption DEF Whats, IsWanted, Enabled
    <2> QED
      BY <2>1, NobodyAtWork DEF IInv, KeptInv
  <1> QED
    BY <1>1, Invariance, PTL
=============================================================================
