---------------------------- MODULE TriggerProofs ----------------------------
(***************************************************************************)
(* The safety properties of the trigger thread for any number of callbacks *)
(* and closures. What makes them true is spread over the state: a callback *)
(* is registered once, so it is in one place only; a removal is queued     *)
(* behind the registration it is about, and is still queued as long as it  *)
(* has not been carried out; what was fired in a pass is behind the        *)
(* iterator of that pass.                                                  *)
(***************************************************************************)
EXTENDS Trigger, SequenceTheorems, TLAPS

Removes(o, c) == o.op = "remove" /\ o.callback = c
IsRegistration(o) == o.op \in {"second", "time", "sensor"}

ThreadInv == /\ now <= clock
             /\ firing # NoCallback <=> pc = "fire"
             /\ pc = "drain" => list = "cron" /\ it = 1
             /\ pc = "fire" => it \in 1..Len(lists[list]) /\ lists[list][it].callback = firing
             /\ pc = "fire" /\ list # "sensor" => clock >= request[firing].from /\ clock >= BadTime

(* A callback that nobody has registered is nowhere.                       *)
FreshInv == \A c \in Callbacks : request[c] = NoRequest =>
                ~ Listed(c) /\ ~ Pending(c) /\ c \notin asked /\ fires[c] = 0 /\ late[c] = 0

(* A callback has one element in the lists or one closure, not both.       *)
UniqueInv ==
    /\ \A l, m \in ListNames : \A i \in 1..Len(lists[l]), j \in 1..Len(lists[m]) :
          lists[l][i].callback = lists[m][j].callback => l = m /\ i = j
    /\ \A p, q \in 1..Len(queue) :
          IsRegistration(queue[p]) /\ Registers(queue[q], queue[p].callback) => p = q
    /\ \A c \in Callbacks : ~ (Listed(c) /\ Pending(c))

RemoveInv ==
    /\ \A c \in asked \ gone : \E q \in 1..Len(queue) : Removes(queue[q], c)
    /\ \A q \in 1..Len(queue) : queue[q].op = "remove" => queue[q].callback \in asked
    /\ \A p, q \in 1..Len(queue) :
          queue[p].op = "remove" /\ p < q => ~ Registers(queue[q], queue[p].callback)
    /\ \A c \in gone : ~ Listed(c) /\ ~ Pending(c)

(* The elements that the pass under way has yet to come to.                *)
Later(l, m) == (m = "cron" /\ l \in {"at", "sensor"}) \/ (m = "at" /\ l = "sensor")

InFront(l, j) == \/ pc \in {"walk", "fire"} /\ Later(l, list)
                 \/ pc = "walk" /\ l = list /\ j >= it
                 \/ pc = "fire" /\ l = list /\ j > it

Ahead(c) == \E l \in ListNames : \E j \in 1..Len(lists[l]) : lists[l][j].callback = c /\ InFront(l, j)

LateInv == \A c \in Callbacks : late[c] # 0 => late[c] = 1 /\ c \in asked /\ ~ Ahead(c)

(* No fire time is before the time asked for.                              *)
FromInv ==
    /\ \A l \in {"cron", "at"} : \A j \in 1..Len(lists[l]) :
          lists[l][j].fireTime >= request[lists[l][j].callback].from
    /\ \A q \in 1..Len(queue) :
          queue[q].op = "second" => clock + queue[q].second >= request[queue[q].callback].from
    /\ \A q \in 1..Len(queue) :
          queue[q].op = "time" => queue[q].fireTime >= request[queue[q].callback].from

(* A callback is where its registration says; what has been fired is not   *)
(* registered again, and is to be erased or is marked.                     *)
OnceInv ==
    /\ \A l \in ListNames : \A j \in 1..Len(lists[l]) : request[lists[l][j].callback].list = l
    /\ \A q \in 1..Len(queue) :
          IsRegistration(queue[q]) => request[queue[q].callback].list = ListOf(queue[q])
    /\ \A c \in Callbacks : fires[c] # 0 => ~ Pending(c)
    /\ \A j \in 1..Len(lists["at"]) :
          fires[lists["at"][j].callback] # 0 => pc = "fire" /\ list = "at" /\ it = j
    /\ \A j \in 1..Len(lists["sensor"]) :
          fires[lists["sensor"][j].callback] # 0 => lists["sensor"][j].lastResult
    /\ OneShot

IInv == TypeOK /\ ThreadInv /\ FreshInv /\ UniqueInv /\ RemoveInv /\ LateInv /\ FromInv /\ OnceInv

-----------------------------------------------------------------------------
(* What the types say of the elements of the lists and of the closures.    *)
LEMMA Elements ==
  ASSUME TypeOK
  PROVE  /\ \A l \in ListNames : /\ lists[l] \in Seq(TimerEntry \cup SensorEntry)
                                 /\ Len(lists[l]) \in Nat
         /\ \A l \in ListNames : \A j \in 1..Len(lists[l]) : lists[l][j].callback \in Callbacks
         /\ \A l \in {"cron", "at"} : \A j \in 1..Len(lists[l]) : lists[l][j] \in TimerEntry
         /\ \A j \in 1..Len(lists["sensor"]) : lists["sensor"][j] \in SensorEntry
  <1>1. /\ \A l \in {"cron", "at"} : \A j \in 1..Len(lists[l]) : lists[l][j] \in TimerEntry
        /\ \A j \in 1..Len(lists["sensor"]) : lists["sensor"][j] \in SensorEntry
    BY ElementOfSeq DEF TypeOK
  <1>2. \A e \in TimerEntry \cup SensorEntry : e.callback \in Callbacks
    BY DEF TimerEntry, SensorEntry
  <1>3. \A l \in ListNames : lists[l] \in Seq(TimerEntry) \/ lists[l] \in Seq(SensorEntry)
    BY DEF TypeOK, ListNames
  <1>4. \A l \in ListNames : lists[l] \in Seq(TimerEntry \cup SensorEntry)
    BY <1>3, SeqMonotonic
  <1>5. \A l \in ListNames : \A j \in 1..Len(lists[l]) : lists[l][j] \in TimerEntry \cup SensorEntry
    BY <1>4, ElementOfSeq
  <1>6. \A l \in ListNames : Len(lists[l]) \in Nat
    BY <1>4, LenProperties
  <1> QED
    BY <1>1, <1>2, <1>4, <1>5, <1>6

LEMMA Closures ==
  ASSUME NEW o \in Operation
  PROVE  /\ IsRegistration(o) \/ o.op = "remove" => o.callback \in Callbacks
         /\ o.op = "second" => o.list \in {"cron", "at"} /\ o.second \in Seconds
         /\ o.op = "time" => o.fireTime \in Dates
         /\ o.op = "sensor" => o.type \in Types /\ o.value \in Values /\ o.expr \in Exprs
         /\ o.op = "update" => o.reading \in [Types -> Values]
         /\ o.op \in {"second", "time", "sensor", "update", "remove"}
         /\ IsRegistration(o) => ListOf(o) \in ListNames
  <1>1. CASE o \in [op : {"second"}, list : {"cron", "at"}, callback : Callbacks, second : Seconds]
    BY <1>1 DEF IsRegistration, ListOf, ListNames
  <1>2. CASE o \in [op : {"time"}, callback : Callbacks, fireTime : Dates]
    BY <1>2 DEF IsRegistration, ListOf, ListNames
  <1>3. CASE o \in [op : {"sensor"}, callback : Callbacks, type : Types, value : Values, expr : Exprs]
    BY <1>3 DEF IsRegistration, ListOf, ListNames
  <1>4. CASE o \in [op : {"update"}, reading : [Types -> Values]]
    BY <1>4 DEF IsRegistration
  <1>5. CASE o \in [op : {"remove"}, callback : Callbacks]
    BY <1>5 DEF IsRegistration
  <1> QED
    BY <1>1, <1>2, <1>3, <1>4, <1>5 DEF Operation

LEMMA Queued ==
  ASSUME TypeOK
  PROVE  /\ Len(queue) \in Nat /\ \A q \in 1..Len(queue) : queue[q] \in Operation
         /\ \A q \in 1..Len(queue) :
               IsRegistration(queue[q]) \/ queue[q].op = "remove" => queue[q].callback \in Callbacks
  BY Closures, ElementOfSeq, LenProperties DEF TypeOK

(* The initial state of the thread.                                        *)
LEMMA InitIInv == Init => IInv
  <1> SUFFICES ASSUME Init PROVE IInv
    OBVIOUS
  <1>1. /\ queue = <<>> /\ Len(queue) = 0 /\ \A l \in ListNames : lists[l] = <<>> /\ Len(lists[l]) = 0
        /\ lists["cron"] = <<>> /\ lists["at"] = <<>> /\ lists["sensor"] = <<>>
    BY DEF Init, ListNames
  <1>2. TypeOK
    <2>1. clock \in 0..MaxClock /\ now \in 0..MaxClock /\ sensor \in [Types -> Values]
      BY TimeAssumption, ValuesAssumption DEF Init
    <2>2. /\ queue \in Seq(Operation) /\ Len(queue) <= MaxQueue /\ DOMAIN lists = ListNames
          /\ lists["cron"] \in Seq(TimerEntry) /\ lists["at"] \in Seq(TimerEntry)
          /\ lists["sensor"] \in Seq(SensorEntry)
      <3>1. Len(queue) <= MaxQueue /\ DOMAIN lists = ListNames
        BY <1>1, NoCallbackAssumption DEF Init
      <3>2. queue \in Seq(Operation)
        BY <1>1
      <3>3. /\ lists["cron"] \in Seq(TimerEntry) /\ lists["at"] \in Seq(TimerEntry)
            /\ lists["sensor"] \in Seq(SensorEntry)
        BY <1>1
      <3> QED
        BY <3>1, <3>2, <3>3
    <2>3. pc \in ThreadStates /\ list \in ListNames /\ it \in 1..(Len(lists[list]) + 1)
      BY <1>1 DEF Init, ThreadStates, ListNames
    <2>4. request \in [Callbacks -> Request] /\ firing \in Callbacks \cup {NoCallback}
      BY DEF Init, Request, NoRequest
    <2>5. fires \in [Callbacks -> 0..2] /\ late \in [Callbacks -> 0..2]
          /\ asked \subseteq Callbacks /\ gone \subseteq asked
      BY DEF Init
    <2> QED
      BY <2>1, <2>2, <2>3, <2>4, <2>5 DEF TypeOK
  <1>3. ThreadInv
    BY DEF Init, ThreadInv
  <1>4. FreshInv
    BY <1>1 DEF Init, FreshInv, Listed, Pending
  <1>5. UniqueInv /\ RemoveInv
    BY <1>1 DEF Init, UniqueInv, RemoveInv, Listed
  <1>6. LateInv /\ FromInv
    BY <1>1 DEF Init, LateInv, FromInv, ListNames
  <1>7. OnceInv
    BY <1>1 DEF Init, OnceInv, OneShot, ListNames
  <1> QED
    BY <1>2, <1>3, <1>4, <1>5, <1>6, <1>7 DEF IInv

-----------------------------------------------------------------------------
(* The steps that only move the thread or the clock: nothing comes to lie  *)
(* ahead of the iterator, except at the beginning of a pass, when every    *)
(* removal that was asked for has been carried out.                        *)
LEMMA MoveIInv ==
  ASSUME IInv, UNCHANGED <<queue, lists, sensor, firing>>, UNCHANGED history,
         clock' \in 0..MaxClock, clock <= clock', now' \in 0..MaxClock, now' <= clock',
         pc' \in ThreadStates, (pc = "fire") <=> (pc' = "fire"), pc = "fire" => UNCHANGED <<list, it>>,
         list' \in ListNames, it' \in 1..(Len(lists[list']) + 1),
         pc' = "drain" => list' = "cron" /\ it' = 1,
         \A l \in ListNames : \A j \in 1..Len(lists[l]) : InFront(l, j)' => InFront(l, j) \/ queue = <<>>
  PROVE  IInv'
  <1>1. UNCHANGED <<request, asked, gone, fires, late>>
    BY DEF history
  <1>2. TypeOK'
    BY <1>1 DEF IInv, TypeOK
  <1>3. ThreadInv'
    BY <1>1, TimeAssumption DEF IInv, TypeOK, ThreadInv, Request
  <1>4. FreshInv'
    BY <1>1 DEF IInv, FreshInv, Listed, Pending
  <1>5. UniqueInv' /\ RemoveInv'
    BY <1>1 DEF IInv, UniqueInv, RemoveInv, Listed, Pending
  <1>6. LateInv'
    <2> SUFFICES ASSUME NEW c \in Callbacks, late[c] # 0, Ahead(c)'
                 PROVE  FALSE
      BY <1>1 DEF IInv, LateInv
    <2>1. PICK l \in ListNames : \E j \in 1..Len(lists[l]) : lists[l][j].callback = c /\ InFront(l, j)'
      BY DEF Ahead
    <2>2. PICK j \in 1..Len(lists[l]) : lists[l][j].callback = c /\ InFront(l, j)'
      BY <2>1
    <2>3. ~ Ahead(c) /\ c \in asked
      BY DEF IInv, LateInv
    <2>4. CASE InFront(l, j)
      BY <2>2, <2>3, <2>4 DEF Ahead
    <2>5. CASE queue = <<>>
      <3>1. Len(queue) = 0
        BY <2>5
      <3>2. c \in gone
        BY <2>3, <3>1 DEF IInv, RemoveInv
      <3> QED
        BY <2>2, <3>2 DEF IInv, RemoveInv, Listed
    <2> QED
      BY <2>2, <2>4, <2>5
  <1>7. FromInv'
    <2>1. \A c \in Callbacks : request[c].from \in Nat
      BY DEF IInv, TypeOK, Request
    <2>2. \A q \in 1..Len(queue) : queue[q].op = "second" =>
             queue[q].second \in Nat /\ queue[q].callback \in Callbacks
      BY Queued, Closures, TimeAssumption DEF IInv, IsRegistration
    <2>3. clock \in Nat /\ clock' \in Nat
      BY TimeAssumption DEF IInv, TypeOK
    <2> QED
      BY SMTT(30), <1>1, <2>1, <2>2, <2>3 DEF IInv, FromInv
  <1>8. OnceInv'
    <2>1. UNCHANGED OneShot
      BY <1>1 DEF OneShot
    <2>2. \A j \in 1..Len(lists["at"]) :
             fires[lists["at"][j].callback] # 0 => pc' = "fire" /\ list' = "at" /\ it' = j
      BY DEF IInv, OnceInv
    <2> QED
      BY <1>1, <2>1, <2>2 DEF IInv, OnceInv, Pending, ListOf
  <1> QED
    BY <1>2, <1>3, <1>4, <1>5, <1>6, <1>7, <1>8 DEF IInv

LEMMA ThreadMoves ==
  ASSUME IInv, BeginPass \/ DrainEnds \/ WalkOn \/ SecSleepEx \/ Tick \/ UNCHANGED vars
  PROVE  IInv'
  <1>1. /\ UNCHANGED <<queue, lists, sensor, firing>> /\ UNCHANGED history
        /\ clock' \in 0..MaxClock /\ clock <= clock' /\ now' \in 0..MaxClock /\ now' <= clock'
    BY TimeAssumption DEF BeginPass, DrainEnds, WalkOn, SecSleepEx, Tick, vars, thread, history, IInv,
                          TypeOK, ThreadInv
  <1>2. /\ pc' \in ThreadStates /\ (pc = "fire" <=> pc' = "fire")
        /\ pc = "fire" => UNCHANGED <<list, it>>
        /\ list' \in ListNames
        /\ pc' = "drain" => list' = "cron" /\ it' = 1
    BY DEF BeginPass, DrainEnds, WalkOn, SecSleepEx, Tick, vars, thread, IInv, TypeOK, ThreadInv,
           ThreadStates, ListNames
  <1>3. it' \in 1..(Len(lists[list']) + 1)
    BY <1>1, <1>2, Elements DEF BeginPass, DrainEnds, WalkOn, SecSleepEx, Tick, vars, thread, IInv, TypeOK
  <1>4. \A l \in ListNames : \A j \in 1..Len(lists[l]) : InFront(l, j)' => InFront(l, j) \/ queue = <<>>
    <2>1. CASE BeginPass \/ DrainEnds \/ SecSleepEx
      BY <2>1 DEF BeginPass, DrainEnds, SecSleepEx, InFront
    <2>2. CASE Tick \/ UNCHANGED vars
      BY <2>2 DEF Tick, vars, thread, InFront
    <2>3. CASE WalkOn
      BY <2>3 DEF WalkOn, InFront, Later, IInv, TypeOK, ListNames
    <2> QED
      BY <2>1, <2>2, <2>3
  <1> QED
    BY <1>1, <1>2, <1>3, <1>4, MoveIInv

-----------------------------------------------------------------------------
(* push_back of a closure.                                                 *)
LEMMA DeferStep ==
  ASSUME TypeOK, NEW o \in Operation, Defer(o)
  PROVE  /\ queue' \in Seq(Operation) /\ Len(queue') = Len(queue) + 1 /\ Len(queue') <= MaxQueue
         /\ Len(queue) \in Nat /\ queue'[Len(queue) + 1] = o
         /\ \A q \in 1..Len(queue) : queue'[q] = queue[q]
         /\ \A q \in 1..Len(queue') : q \in 1..Len(queue) \/ q = Len(queue) + 1
         /\ \A c : Pending(c)' <=> Pending(c) \/ Registers(o, c)
         /\ UNCHANGED <<clock, lists, sensor, gone, fires, late, pc, list, it, now, firing>>
         /\ \A c : (Listed(c)' <=> Listed(c)) /\ (Ahead(c)' <=> Ahead(c))
  <1>1. /\ queue' = Append(queue, o) /\ Len(queue) < MaxQueue /\ Len(queue) \in Nat
        /\ UNCHANGED <<clock, lists, sensor, gone, fires, late, pc, list, it, now, firing>>
    BY LenProperties DEF Defer, thread, TypeOK
  <1>2. /\ queue' \in Seq(Operation) /\ Len(queue') = Len(queue) + 1
        /\ \A q \in 1..Len(queue) : queue'[q] = queue[q]
        /\ queue'[Len(queue) + 1] = o
    BY <1>1, AppendProperties DEF TypeOK
  <1>3. \A q \in 1..Len(queue') : q \in 1..Len(queue) \/ q = Len(queue) + 1
    BY <1>1, <1>2
  <1>4. Len(queue') <= MaxQueue
    BY <1>1, <1>2, NoCallbackAssumption
  <1>5. ASSUME NEW c PROVE Pending(c)' <=> Pending(c) \/ Registers(o, c)
    <2>1. Len(queue) + 1 \in 1..Len(queue') /\ \A q \in 1..Len(queue) : q \in 1..Len(queue')
      BY <1>1, <1>2
    <2> QED
      BY <1>2, <1>3, <2>1 DEF Pending, Registers
  <1>6. \A c : (Listed(c)' <=> Listed(c)) /\ (Ahead(c)' <=> Ahead(c))
    BY <1>1 DEF Listed, Ahead, InFront
  <1> QED
    BY <1>1, <1>2, <1>3, <1>4, <1>5, <1>6

(* A registration: the callback was nowhere before.                        *)
LEMMA RegisterIInv ==
  ASSUME IInv, NEW c \in Callbacks, NEW l \in ListNames, NEW from \in Nat, Registered(c, l, from),
         NEW o \in Operation, Defer(o), IsRegistration(o), o.callback = c, ListOf(o) = l,
         o.op = "second" => clock + o.second >= from,
         o.op = "time" => o.fireTime >= from
  PROVE  IInv'
  <1>1. /\ request[c] = NoRequest /\ UNCHANGED asked
        /\ request' = [request EXCEPT ![c] = [list |-> l, from |-> from]]
    BY DEF Registered
  <1>2. /\ request' \in [Callbacks -> Request] /\ request'[c] = [list |-> l, from |-> from]
        /\ \A d \in Callbacks : d # c => request'[d] = request[d]
    BY <1>1 DEF IInv, TypeOK, Request, ListNames
  <1>3. ~ Listed(c) /\ ~ Pending(c) /\ c \notin asked /\ fires[c] = 0 /\ late[c] = 0
    BY <1>1 DEF IInv, FreshInv
  <1>4. \A d : Registers(o, d) <=> d = c
    BY DEF Registers, IsRegistration
  <1>t. TypeOK
    BY DEF IInv
  <1> USE <1>t, DeferStep
  <1>5. TypeOK'
    BY SMTT(30), <1>1, <1>2 DEF IInv, TypeOK
  <1>6. ThreadInv'
    <2>1. pc = "fire" => firing # c
      BY <1>3 DEF IInv, ThreadInv, Listed, TypeOK
    <2>2. pc = "fire" => firing \in Callbacks
      BY NoCallbackAssumption DEF IInv, ThreadInv, TypeOK
    <2> QED
      BY <1>1, <1>2, <2>1, <2>2 DEF IInv, ThreadInv
  <1>7. FreshInv'
    BY <1>1, <1>2, <1>4 DEF IInv, FreshInv, NoRequest, ListNames
  <1>8. UniqueInv'
    <2>1. \A p, q \in 1..Len(queue') :
             IsRegistration(queue'[p]) /\ Registers(queue'[q], queue'[p].callback) => p = q
      <3>1. \A p \in 1..Len(queue) : IsRegistration(queue[p]) => queue[p].callback # c
        BY <1>3 DEF Pending, Registers, IsRegistration
      <3>2. \A q \in 1..Len(queue) : ~ Registers(queue[q], c)
        BY <1>3 DEF Pending
      <3> QED
        BY <1>4, <3>1, <3>2 DEF IInv, UniqueInv
    <2>2. \A d \in Callbacks : ~ (Listed(d) /\ Pending(d))'
      BY <1>3, <1>4 DEF IInv, UniqueInv
    <2> QED
      BY <2>1, <2>2 DEF IInv, UniqueInv
  <1>9. RemoveInv'
    <2>1. \A d \in asked \ gone : \E q \in 1..Len(queue') : Removes(queue'[q], d)
      BY DEF IInv, RemoveInv
    <2>2. \A q \in 1..Len(queue') : queue'[q].op = "remove" => queue'[q].callback \in asked /\ q \in 1..Len(queue)
      BY DEF IInv, RemoveInv, IsRegistration
    <2>3. \A p, q \in 1..Len(queue') :
             queue'[p].op = "remove" /\ p < q => ~ Registers(queue'[q], queue'[p].callback)
      BY <1>3, <1>4, <2>2 DEF IInv, RemoveInv
    <2>4. c \notin gone
      BY <1>3 DEF IInv, TypeOK
    <2>5. \A d \in gone : ~ Listed(d)' /\ ~ Pending(d)'
      BY <1>4, <2>4 DEF IInv, RemoveInv
    <2> QED
      BY <1>1, <2>1, <2>2, <2>3, <2>5 DEF RemoveInv
  <1>10. LateInv'
    BY <1>1 DEF IInv, LateInv
  <1>11. FromInv'
    <2>1. \A k \in {"cron", "at"} : \A j \in 1..Len(lists[k]) :
             lists[k][j].callback # c /\ lists[k][j].callback \in Callbacks
      BY <1>3, Elements DEF IInv, Listed, ListNames
    <2>2. \A q \in 1..Len(queue) : IsRegistration(queue[q]) => queue[q].callback # c /\ queue[q].callback \in Callbacks
      BY <1>3, Queued DEF IInv, Pending, Registers, IsRegistration
    <2>3. \A k \in {"cron", "at"} : \A j \in 1..Len(lists[k]) :
             lists[k][j].fireTime >= request'[lists[k][j].callback].from
      BY SMTT(30), <1>2, <2>1 DEF IInv, FromInv
    <2>4. \A q \in 1..Len(queue') :
             queue'[q].op = "second" => clock + queue'[q].second >= request'[queue'[q].callback].from
      BY <1>2, <2>2 DEF IInv, FromInv, IsRegistration
    <2>5. \A q \in 1..Len(queue') :
             queue'[q].op = "time" => queue'[q].fireTime >= request'[queue'[q].callback].from
      BY <1>2, <2>2 DEF IInv, FromInv, IsRegistration
    <2> QED
      BY <2>3, <2>4, <2>5 DEF FromInv
  <1>12. OnceInv'
    <2>1. \A k \in ListNames : \A j \in 1..Len(lists[k]) :
             lists[k][j].callback # c /\ lists[k][j].callback \in Callbacks
      BY <1>3, Elements DEF IInv, Listed
    <2>2. \A q \in 1..Len(queue) : IsRegistration(queue[q]) => queue[q].callback # c /\ queue[q].callback \in Callbacks
      BY <1>3, Queued DEF IInv, Pending, Registers, IsRegistration
    <2>3. \A k \in ListNames : \A j \in 1..Len(lists[k]) : request'[lists[k][j].callback].list = k
      BY <1>2, <2>1 DEF IInv, OnceInv
    <2>4. \A q \in 1..Len(queue') :
             IsRegistration(queue'[q]) => request'[queue'[q].callback].list = ListOf(queue'[q])
      BY <1>2, <2>2 DEF IInv, OnceInv
    <2>5. \A d \in Callbacks : fires[d] # 0 => ~ Pending(d)'
      BY <1>3, <1>4 DEF IInv, OnceInv
    <2>6. OneShot'
      BY <1>2, <1>3 DEF IInv, OnceInv, OneShot
    <2> QED
      BY SMTT(30), <2>3, <2>4, <2>5, <2>6 DEF IInv, OnceInv
  <1> QED
    BY <1>5, <1>6, <1>7, <1>8, <1>9, <1>10, <1>11, <1>12 DEF IInv

(* A new reading of the sensors, or a removal: no registration.            *)
LEMMA OtherDeferIInv ==
  ASSUME IInv, NEW o \in Operation, Defer(o), request' = request,
         \/ o.op = "update" /\ asked' = asked
         \/ o.op = "remove" /\ request[o.callback] # NoRequest /\ asked' = asked \cup {o.callback}
  PROVE  IInv'
  <1>1. ~ IsRegistration(o) /\ \A c : ~ Registers(o, c)
    BY DEF IsRegistration, Registers
  <1>2. /\ asked \subseteq asked' /\ asked' \subseteq Callbacks
        /\ \A c \in asked' : c \in asked \/ (o.op = "remove" /\ c = o.callback /\ request[c] # NoRequest)
    BY Closures DEF IInv, TypeOK
  <1>t. TypeOK
    BY DEF IInv
  <1> USE <1>t, DeferStep
  <1>3. TypeOK'
    BY <1>2 DEF IInv, TypeOK
  <1>4. ThreadInv'
    BY DEF IInv, ThreadInv
  <1>5. FreshInv'
    BY <1>1, <1>2 DEF IInv, FreshInv
  <1>6. UniqueInv'
    <2>1. \A p, q \in 1..Len(queue') :
             IsRegistration(queue'[p]) /\ Registers(queue'[q], queue'[p].callback) => p = q
      BY <1>1 DEF IInv, UniqueInv
    <2>2. \A d \in Callbacks : ~ (Listed(d) /\ Pending(d))'
      BY <1>1 DEF IInv, UniqueInv
    <2> QED
      BY <2>1, <2>2 DEF IInv, UniqueInv
  <1>7. RemoveInv'
    <2>1. \A d \in asked' \ gone : \E q \in 1..Len(queue') : Removes(queue'[q], d)
      <3> SUFFICES ASSUME NEW d \in asked' \ gone
                   PROVE  \E q \in 1..Len(queue') : Removes(queue'[q], d)
        OBVIOUS
      <3>1. CASE d \in asked
        BY <3>1 DEF IInv, RemoveInv
      <3>2. CASE o.op = "remove" /\ d = o.callback
        <4>1. Len(queue) + 1 \in 1..Len(queue') /\ Removes(queue'[Len(queue) + 1], d)
          BY <3>2 DEF Removes
        <4> QED
          BY <4>1
      <3> QED
        BY <1>2, <3>1, <3>2
    <2>2. \A q \in 1..Len(queue') : queue'[q].op = "remove" => queue'[q].callback \in asked'
      BY <1>2 DEF IInv, RemoveInv
    <2>3. \A p, q \in 1..Len(queue') :
             queue'[p].op = "remove" /\ p < q => ~ Registers(queue'[q], queue'[p].callback)
      <3> SUFFICES ASSUME NEW p \in 1..Len(queue'), NEW q \in 1..Len(queue'), queue'[p].op = "remove", p < q
                   PROVE  ~ Registers(queue'[q], queue'[p].callback)
        OBVIOUS
      <3>1. p \in 1..Len(queue)
        OBVIOUS
      <3> QED
        BY <1>1, <3>1 DEF IInv, RemoveInv
    <2>4. \A d \in gone : ~ Listed(d)' /\ ~ Pending(d)'
      BY <1>1 DEF IInv, RemoveInv
    <2> QED
      BY <2>1, <2>2, <2>3, <2>4 DEF RemoveInv
  <1>8. LateInv'
    BY <1>2 DEF IInv, LateInv
  <1>9. FromInv'
    BY <1>1 DEF IInv, FromInv, IsRegistration
  <1>10. OnceInv'
    <2>1. \A q \in 1..Len(queue') :
             IsRegistration(queue'[q]) => request'[queue'[q].callback].list = ListOf(queue'[q])
      BY <1>1 DEF IInv, OnceInv
    <2>2. \A d \in Callbacks : fires[d] # 0 => ~ Pending(d)'
      BY <1>1 DEF IInv, OnceInv
    <2>3. OneShot'
      BY DEF IInv, OnceInv, OneShot
    <2> QED
      BY <2>1, <2>2, <2>3 DEF IInv, OnceInv
  <1> QED
    BY <1>3, <1>4, <1>5, <1>6, <1>7, <1>8, <1>9, <1>10 DEF IInv

-----------------------------------------------------------------------------
(* The head of the list of closures has been run and is dropped.           *)
LEMMA DropStep ==
  ASSUME TypeOK, queue # <<>>, queue' = Tail(queue)
  PROVE  /\ queue' \in Seq(Operation) /\ Len(queue') = Len(queue) - 1 /\ Len(queue') <= MaxQueue
         /\ Len(queue) \in Nat \ {0} /\ Len(queue') \in Nat
         /\ Closure \in Operation /\ Closure = queue[1] /\ 1 \in 1..Len(queue)
         /\ \A q \in 1..Len(queue') : q + 1 \in 1..Len(queue) /\ queue'[q] = queue[q + 1]
         /\ \A q \in 1..Len(queue) : q # 1 => q - 1 \in 1..Len(queue') /\ queue'[q - 1] = queue[q]
         /\ \A c : Pending(c)' => Pending(c)
  <1>1. /\ Len(queue) \in Nat \ {0} /\ Closure \in Operation
        /\ Tail(queue) \in Seq(Operation) /\ Len(Tail(queue)) = Len(queue) - 1
        /\ \A q \in 1..Len(Tail(queue)) : Tail(queue)[q] = queue[q + 1]
    BY HeadTailProperties, EmptySeq DEF TypeOK, Closure
  <1>2. Closure = queue[1]
    BY DEF Closure, TypeOK
  <1>3. \A q \in 1..Len(queue') : q + 1 \in 1..Len(queue) /\ queue'[q] = queue[q + 1]
    BY <1>1
  <1>4. \A q \in 1..Len(queue) : q # 1 => q - 1 \in 1..Len(queue') /\ queue'[q - 1] = queue[q]
    <2> SUFFICES ASSUME NEW q \in 1..Len(queue), q # 1
                 PROVE  q - 1 \in 1..Len(queue') /\ queue'[q - 1] = queue[q]
      OBVIOUS
    <2>1. q - 1 \in 1..Len(queue') /\ (q - 1) + 1 = q
      BY <1>1
    <2> QED
      BY <1>3, <2>1
  <1>5. Len(queue') <= MaxQueue
    BY <1>1, NoCallbackAssumption DEF TypeOK
  <1>6. \A c : Pending(c)' => Pending(c)
    BY <1>3 DEF Pending, Registers
  <1>7. 1 \in 1..Len(queue) /\ Len(queue') \in Nat
    BY <1>1
  <1> QED
    BY <1>1, <1>2, <1>3, <1>4, <1>5, <1>6, <1>7

(* push_back on one of the three lists.                                    *)
LEMMA PushStep ==
  ASSUME TypeOK, NEW l \in ListNames, NEW e,
         IF l = "sensor" THEN e \in SensorEntry ELSE e \in TimerEntry,
         lists' = [lists EXCEPT ![l] = Append(@, e)]
  PROVE  /\ DOMAIN lists' = ListNames /\ lists'["cron"] \in Seq(TimerEntry)
         /\ lists'["at"] \in Seq(TimerEntry) /\ lists'["sensor"] \in Seq(SensorEntry)
         /\ \A m \in ListNames : m # l => lists'[m] = lists[m]
         /\ Len(lists[l]) \in Nat /\ Len(lists'[l]) = Len(lists[l]) + 1
         /\ \A j \in 1..Len(lists[l]) : lists'[l][j] = lists[l][j]
         /\ lists'[l][Len(lists[l]) + 1] = e
         /\ \A j \in 1..Len(lists'[l]) : j \in 1..Len(lists[l]) \/ j = Len(lists[l]) + 1
         /\ \A c : Listed(c)' <=> Listed(c) \/ e.callback = c
  <1>1. /\ DOMAIN lists' = ListNames /\ lists'[l] = Append(lists[l], e)
        /\ \A m \in ListNames : m # l => lists'[m] = lists[m]
    BY DEF TypeOK
  <1>2. l \in {"cron", "at"} \/ l = "sensor"
    BY DEF ListNames
  <1>3. /\ l = "sensor" => lists[l] \in Seq(SensorEntry) /\ lists'[l] \in Seq(SensorEntry)
        /\ l # "sensor" => lists[l] \in Seq(TimerEntry) /\ lists'[l] \in Seq(TimerEntry)
        /\ Len(lists'[l]) = Len(lists[l]) + 1
        /\ \A j \in 1..Len(lists[l]) : lists'[l][j] = lists[l][j]
        /\ lists'[l][Len(lists[l]) + 1] = e
    <2>1. CASE l = "sensor"
      BY <1>1, <2>1, AppendProperties DEF TypeOK
    <2>2. CASE l \in {"cron", "at"}
      BY <1>1, <2>2, AppendProperties DEF TypeOK
    <2> QED
      BY <1>2, <2>1, <2>2
  <1>4. /\ lists'["cron"] \in Seq(TimerEntry)
        /\ lists'["at"] \in Seq(TimerEntry) /\ lists'["sensor"] \in Seq(SensorEntry)
    BY <1>1, <1>3 DEF TypeOK, ListNames
  <1>5. Len(lists[l]) \in Nat
    BY Elements
  <1>6. \A j \in 1..Len(lists'[l]) : j \in 1..Len(lists[l]) \/ j = Len(lists[l]) + 1
    BY <1>3, <1>5
  <1>7. ASSUME NEW c PROVE Listed(c)' <=> Listed(c) \/ e.callback = c
    <2>1. Len(lists[l]) + 1 \in 1..Len(lists'[l]) /\ \A j \in 1..Len(lists[l]) : j \in 1..Len(lists'[l])
      BY <1>3, <1>5
    <2>2. Listed(c) => Listed(c)'
      <3> SUFFICES ASSUME NEW m \in ListNames, NEW j \in 1..Len(lists[m]), lists[m][j].callback = c
                   PROVE  \E k \in 1..Len(lists'[m]) : lists'[m][k].callback = c
        BY DEF Listed
      <3> QED
        BY <1>1, <1>3, <2>1
    <2>3. e.callback = c => Listed(c)'
      BY <1>3, <2>1 DEF Listed
    <2>4. Listed(c)' => Listed(c) \/ e.callback = c
      <3> SUFFICES ASSUME NEW m \in ListNames, NEW j \in 1..Len(lists'[m]), lists'[m][j].callback = c,
                          e.callback # c
                   PROVE  \E k \in 1..Len(lists[m]) : lists[m][k].callback = c
        BY DEF Listed
      <3> QED
        BY <1>1, <1>3, <1>6
    <2> QED
      BY <2>2, <2>3, <2>4
  <1> QED
    BY <1>1, <1>3, <1>4, <1>5, <1>6, <1>7

(* A registration takes effect: the closure becomes an element.            *)
LEMMA RunAppendIInv == ASSUME IInv, RunAppend PROVE IInv'
  <1>o. PICK o : o = Closure
    OBVIOUS
  <1> DEFINE l == ListOf(o)
             e == EntryOf(o)
  <1>t. TypeOK
    BY DEF IInv
  <1>1. /\ pc = "drain" /\ queue # <<>> /\ queue' = Tail(queue)
        /\ IsRegistration(o) /\ lists' = [lists EXCEPT ![l] = Append(@, e)]
        /\ UNCHANGED <<clock, sensor, pc, list, it, now, firing, request, asked, gone, fires, late>>
    BY <1>o DEF RunAppend, Running, IsRegistration, thread, history
  <1>2. /\ o \in Operation /\ o = queue[1] /\ 1 \in 1..Len(queue)
    BY <1>o, <1>t, <1>1, DropStep
  <1>3. /\ o.callback \in Callbacks /\ l \in ListNames
    BY <1>1, <1>2, Closures
  <1>4. /\ e.callback = o.callback
        /\ IF l = "sensor" THEN e \in SensorEntry /\ o.op = "sensor" ELSE e \in TimerEntry
        /\ l # "sensor" => e.fireTime >= request[o.callback].from
    <2>1. CASE o.op = "second"
      <3>1. o.list \in {"cron", "at"} /\ o.second \in Nat
        BY <1>2, <2>1, Closures, TimeAssumption
      <3>2. clock \in Nat /\ clock + o.second \in Nat
        BY <3>1, TimeAssumption DEF IInv, TypeOK
      <3>3. clock + o.second >= request[o.callback].from
        BY <1>2, <2>1 DEF IInv, FromInv
      <3> QED
        BY <1>3, <2>1, <3>1, <3>2, <3>3 DEF EntryOf, ListOf, TimeAfter, TimerEntry
    <2>2. CASE o.op = "time"
      <3>1. o.fireTime \in Nat
        <4>1. o.fireTime \in 0..MaxClock
          BY <1>2, <2>2, Closures, TimeAssumption
        <4> QED
          BY <4>1
      <3>2. o.fireTime >= request[o.callback].from
        BY <1>2, <2>2 DEF IInv, FromInv
      <3> QED
        BY <1>3, <2>2, <3>1, <3>2 DEF EntryOf, ListOf, TimerEntry
    <2>3. CASE o.op = "sensor"
      <3>1. o.type \in Types /\ o.value \in Values /\ o.expr \in Exprs
        BY <1>2, <2>3, Closures
      <3> QED
        BY <1>3, <2>3, <3>1 DEF EntryOf, ListOf, SensorEntry
    <2> QED
      BY <1>1, <2>1, <2>2, <2>3 DEF IsRegistration
  <1>5. Pending(o.callback) /\ ~ Listed(o.callback)
    <2>1. Pending(o.callback)
      BY <1>1, <1>2 DEF Pending, Registers, IsRegistration
    <2> QED
      BY <1>3, <2>1 DEF IInv, UniqueInv
  <1>6. ~ Pending(o.callback)'
    <2>1. \A q \in 1..Len(queue') : ~ Registers(queue'[q], o.callback)
      <3> SUFFICES ASSUME NEW q \in 1..Len(queue'), Registers(queue'[q], o.callback)
                   PROVE  FALSE
        OBVIOUS
      <3>1. q + 1 \in 1..Len(queue) /\ queue'[q] = queue[q + 1] /\ 1 # q + 1
        BY <1>t, <1>1, DropStep
      <3> QED
        BY <1>1, <1>2, <3>1 DEF IInv, UniqueInv
    <2> QED
      BY <2>1 DEF Pending
  <1> HIDE DEF l, e
  <1>d. /\ queue' \in Seq(Operation) /\ Len(queue') \in Nat /\ Len(queue') <= MaxQueue
        /\ \A q \in 1..Len(queue') : q + 1 \in 1..Len(queue) /\ queue'[q] = queue[q + 1]
        /\ \A q \in 1..Len(queue) : q # 1 => q - 1 \in 1..Len(queue') /\ queue'[q - 1] = queue[q]
        /\ \A c : Pending(c)' => Pending(c)
    BY <1>t, <1>1, DropStep
  <1>p. /\ DOMAIN lists' = ListNames /\ lists'["cron"] \in Seq(TimerEntry)
        /\ lists'["at"] \in Seq(TimerEntry) /\ lists'["sensor"] \in Seq(SensorEntry)
        /\ \A m \in ListNames : m # l => lists'[m] = lists[m]
        /\ Len(lists[l]) \in Nat /\ Len(lists'[l]) = Len(lists[l]) + 1
        /\ \A j \in 1..Len(lists[l]) : lists'[l][j] = lists[l][j]
        /\ lists'[l][Len(lists[l]) + 1] = e
        /\ \A j \in 1..Len(lists'[l]) : j \in 1..Len(lists[l]) \/ j = Len(lists[l]) + 1
        /\ \A c : Listed(c)' <=> Listed(c) \/ o.callback = c
    BY ZenonT(60), <1>t, <1>1, <1>3, <1>4, PushStep
  <1>s. \A q \in 1..Len(queue) : queue[q].op = "remove" => q # 1
    BY <1>1, <1>2 DEF IsRegistration
  <1>7. TypeOK'
    <2>1. it' \in 1..(Len(lists'[list']) + 1)
      <3>1. list = "cron" /\ it = 1
        BY <1>1 DEF IInv, ThreadInv
      <3>2. Len(lists'["cron"]) \in Nat
        BY <1>p
      <3> QED
        BY <1>1, <3>1, <3>2
    <2> QED
      BY <1>t, <1>1, <1>d, <1>p, <2>1 DEF TypeOK
  <1>8. ThreadInv'
    BY <1>1 DEF IInv, ThreadInv
  <1>9. FreshInv'
    BY <1>1, <1>5, <1>d, <1>p DEF IInv, FreshInv
  <1>10. UniqueInv'
    <2>1. ASSUME NEW m \in ListNames, NEW n \in ListNames,
                 NEW i \in 1..Len(lists'[m]), NEW j \in 1..Len(lists'[n]),
                 lists'[m][i].callback = lists'[n][j].callback
          PROVE  m = n /\ i = j
      <3>1. CASE m = l /\ i = Len(lists[l]) + 1
        <4>1. lists'[m][i].callback = o.callback
          BY <1>4, <1>p, <3>1
        <4>2. \A k \in 1..Len(lists[n]) : lists[n][k].callback # o.callback
          BY <1>5 DEF Listed
        <4>3. n = l /\ j = Len(lists[l]) + 1
          BY <1>p, <2>1, <4>1, <4>2
        <4> QED
          BY <3>1, <4>3
      <3>2. CASE n = l /\ j = Len(lists[l]) + 1
        <4>1. lists'[n][j].callback = o.callback
          BY <1>4, <1>p, <3>2
        <4>2. \A k \in 1..Len(lists[m]) : lists[m][k].callback # o.callback
          BY <1>5 DEF Listed
        <4>3. m = l /\ i = Len(lists[l]) + 1
          BY <1>p, <2>1, <4>1, <4>2
        <4> QED
          BY <3>2, <4>3
      <3>3. CASE ~ (m = l /\ i = Len(lists[l]) + 1) /\ ~ (n = l /\ j = Len(lists[l]) + 1)
        <4>1. i \in 1..Len(lists[m]) /\ lists'[m][i] = lists[m][i]
          BY <1>p, <3>3
        <4>2. j \in 1..Len(lists[n]) /\ lists'[n][j] = lists[n][j]
          BY <1>p, <3>3
        <4> QED
          BY <2>1, <4>1, <4>2 DEF IInv, UniqueInv
      <3> QED
        BY <3>1, <3>2, <3>3
    <2>2. \A p, q \in 1..Len(queue') :
             IsRegistration(queue'[p]) /\ Registers(queue'[q], queue'[p].callback) => p = q
      <3> SUFFICES ASSUME NEW p \in 1..Len(queue'), NEW q \in 1..Len(queue'),
                          IsRegistration(queue'[p]), Registers(queue'[q], queue'[p].callback)
                   PROVE  p = q
        OBVIOUS
      <3>1. p + 1 = q + 1
        BY <1>d DEF IInv, UniqueInv
      <3> QED
        BY <1>d, <3>1
    <2>3. \A c \in Callbacks : ~ (Listed(c) /\ Pending(c))'
      BY <1>6, <1>d, <1>p DEF IInv, UniqueInv
    <2> QED
      BY <2>1, <2>2, <2>3 DEF UniqueInv
  <1>11. RemoveInv'
    <2>1. \A c \in asked \ gone : \E q \in 1..Len(queue') : Removes(queue'[q], c)
      BY <1>d, <1>s DEF IInv, RemoveInv, Removes
    <2>2. \A q \in 1..Len(queue') : queue'[q].op = "remove" => queue'[q].callback \in asked
      BY <1>d DEF IInv, RemoveInv
    <2>3. \A p, q \in 1..Len(queue') :
             queue'[p].op = "remove" /\ p < q => ~ Registers(queue'[q], queue'[p].callback)
      BY <1>d DEF IInv, RemoveInv
    <2>4. \A c \in gone : ~ Listed(c)' /\ ~ Pending(c)'
      BY <1>5, <1>d, <1>p DEF IInv, RemoveInv
    <2> QED
      BY <1>1, <2>1, <2>2, <2>3, <2>4 DEF RemoveInv
  <1>12. LateInv'
    BY <1>1 DEF IInv, LateInv, Ahead, InFront
  <1>13. FromInv'
    <2>1. \A m \in {"cron", "at"} : \A j \in 1..Len(lists'[m]) :
             lists'[m][j].fireTime >= request[lists'[m][j].callback].from
      BY <1>4, <1>p DEF IInv, FromInv, ListNames
    <2>2. \A q \in 1..Len(queue') :
             queue'[q].op = "second" => clock + queue'[q].second >= request[queue'[q].callback].from
      BY SMTT(30), <1>d DEF IInv, FromInv
    <2>3. \A q \in 1..Len(queue') :
             queue'[q].op = "time" => queue'[q].fireTime >= request[queue'[q].callback].from
      BY <1>d DEF IInv, FromInv
    <2> QED
      BY <1>1, <2>1, <2>2, <2>3 DEF FromInv
  <1>14. OnceInv'
    <2>1. fires[o.callback] = 0
      BY <1>3, <1>5 DEF IInv, OnceInv
    <2>2. request[o.callback].list = l
      BY <1>1, <1>2 DEF IInv, OnceInv, l
    <2>3. \A m \in ListNames : \A j \in 1..Len(lists'[m]) : request[lists'[m][j].callback].list = m
      BY SMTT(30), <1>4, <1>p, <2>2 DEF IInv, OnceInv
    <2>4. \A q \in 1..Len(queue') :
             IsRegistration(queue'[q]) => request[queue'[q].callback].list = ListOf(queue'[q])
      BY <1>d DEF IInv, OnceInv
    <2>5. \A c \in Callbacks : fires[c] # 0 => ~ Pending(c)'
      BY <1>d DEF IInv, OnceInv
    <2>6. \A j \in 1..Len(lists'["at"]) :
             fires[lists'["at"][j].callback] # 0 => pc' = "fire" /\ list' = "at" /\ it' = j
      <3>1. \A j \in 1..Len(lists["at"]) : fires[lists["at"][j].callback] = 0
        BY <1>1 DEF IInv, OnceInv
      <3>2. CASE l = "at"
        BY SMTT(30), <1>4, <1>p, <2>1, <3>1, <3>2
      <3>3. CASE l # "at"
        BY <1>p, <3>1, <3>3 DEF ListNames
      <3> QED
        BY <3>2, <3>3
    <2>7. \A j \in 1..Len(lists'["sensor"]) :
             fires[lists'["sensor"][j].callback] # 0 => lists'["sensor"][j].lastResult
      BY <1>1, <1>4, <1>p, <2>1 DEF IInv, OnceInv, ListNames
    <2>8. OneShot'
      BY <1>1 DEF IInv, OnceInv, OneShot
    <2> QED
      BY <1>1, <2>3, <2>4, <2>5, <2>6, <2>7, <2>8 DEF OnceInv
  <1> QED
    BY <1>7, <1>8, <1>9, <1>10, <1>11, <1>12, <1>13, <1>14 DEF IInv

(* What dropping a closure means when the lists are left alone: all that   *)
(* remains to be seen is that no removal has been forgotten.               *)
LEMMA DropIInv ==
  ASSUME IInv, TypeOK', pc = "drain", UNCHANGED <<clock, lists, pc, list, it, now, firing, request, asked, fires, late>>,
         Len(queue') \in Nat,
         \A q \in 1..Len(queue') : q + 1 \in 1..Len(queue) /\ queue'[q] = queue[q + 1],
         \A c : Pending(c)' => Pending(c),
         \A c \in asked \ gone' : \E q \in 1..Len(queue') : Removes(queue'[q], c),
         \A c \in gone' : c \in gone \/ (~ Listed(c) /\ ~ Pending(c)')
  PROVE  IInv'
  <1>1. \A c : Listed(c)' <=> Listed(c)
    BY DEF Listed
  <1>2. ThreadInv'
    BY DEF IInv, ThreadInv
  <1>3. FreshInv'
    BY <1>1 DEF IInv, FreshInv
  <1>4. UniqueInv'
    <2>1. \A p, q \in 1..Len(queue') :
             IsRegistration(queue'[p]) /\ Registers(queue'[q], queue'[p].callback) => p = q
      <3> SUFFICES ASSUME NEW p \in 1..Len(queue'), NEW q \in 1..Len(queue'),
                          IsRegistration(queue'[p]), Registers(queue'[q], queue'[p].callback)
                   PROVE  p = q
        OBVIOUS
      <3>1. p + 1 = q + 1
        BY DEF IInv, UniqueInv
      <3> QED
        BY <3>1
    <2>2. \A c \in Callbacks : ~ (Listed(c) /\ Pending(c))'
      BY <1>1 DEF IInv, UniqueInv
    <2> QED
      BY SMTT(30), <2>1, <2>2 DEF IInv, UniqueInv
  <1>5. RemoveInv'
    <2>1. \A q \in 1..Len(queue') : queue'[q].op = "remove" => queue'[q].callback \in asked
      BY DEF IInv, RemoveInv
    <2>2. \A p, q \in 1..Len(queue') :
             queue'[p].op = "remove" /\ p < q => ~ Registers(queue'[q], queue'[p].callback)
      BY DEF IInv, RemoveInv
    <2>3. \A c \in gone' : ~ Listed(c)' /\ ~ Pending(c)'
      BY <1>1 DEF IInv, RemoveInv
    <2> QED
      BY <2>1, <2>2, <2>3 DEF RemoveInv
  <1>6. LateInv'
    BY DEF IInv, LateInv, Ahead, InFront
  <1>7. FromInv'
    BY DEF IInv, FromInv
  <1>8. OnceInv'
    <2>1. \A q \in 1..Len(queue') :
             IsRegistration(queue'[q]) => request[queue'[q].callback].list = ListOf(queue'[q])
      BY DEF IInv, OnceInv
    <2>2. \A c \in Callbacks : fires[c] # 0 => ~ Pending(c)'
      BY DEF IInv, OnceInv
    <2>3. OneShot'
      BY DEF IInv, OnceInv, OneShot
    <2> QED
      BY <2>1, <2>2, <2>3 DEF IInv, OnceInv
  <1> QED
    BY <1>2, <1>3, <1>4, <1>5, <1>6, <1>7, <1>8 DEF IInv

(* The readings change; no invariant is about their values.                *)
LEMMA RunUpdateIInv == ASSUME IInv, RunUpdate PROVE IInv'
  <1>t. TypeOK
    BY DEF IInv
  <1>o. PICK o : o = Closure
    OBVIOUS
  <1>1. /\ pc = "drain" /\ queue # <<>> /\ queue' = Tail(queue) /\ o.op = "update" /\ sensor' = o.reading
        /\ UNCHANGED <<clock, lists, pc, list, it, now, firing, request, asked, gone, fires, late>>
    BY <1>o DEF RunUpdate, Running, thread, history
  <1>2. o \in Operation /\ o = queue[1] /\ 1 \in 1..Len(queue)
    BY <1>o, <1>t, <1>1, DropStep
  <1>d. /\ queue' \in Seq(Operation) /\ Len(queue') \in Nat /\ Len(queue') <= MaxQueue
        /\ \A q \in 1..Len(queue') : q + 1 \in 1..Len(queue) /\ queue'[q] = queue[q + 1]
        /\ \A q \in 1..Len(queue) : q # 1 => q - 1 \in 1..Len(queue') /\ queue'[q - 1] = queue[q]
        /\ \A c : Pending(c)' => Pending(c)
    BY <1>t, <1>1, DropStep
  <1>3. \A c : Listed(c)' <=> Listed(c)
    BY <1>1 DEF Listed
  <1>4. TypeOK'
    BY <1>t, <1>1, <1>2, <1>d, Closures DEF TypeOK
  <1>5. \A c \in asked \ gone : \E q \in 1..Len(queue') : Removes(queue'[q], c)
    <2>1. \A q \in 1..Len(queue) : queue[q].op = "remove" => q # 1
      BY <1>1, <1>2
    <2> QED
      BY <1>d, <2>1 DEF IInv, RemoveInv, Removes
  <1> QED
    BY <1>1, <1>d, <1>3, <1>4, <1>5, DropIInv

(* RemoveCallbackLow has returned: its callback is in no list, and as no   *)
(* registration of it is queued behind the removal, it is gone for good.   *)
LEMMA RemoveReturnsIInv == ASSUME IInv, RemoveReturns PROVE IInv'
  <1>t. TypeOK
    BY DEF IInv
  <1>o. PICK o : o = Closure
    OBVIOUS
  <1>1. /\ pc = "drain" /\ queue # <<>> /\ queue' = Tail(queue) /\ o.op = "remove"
        /\ gone' = gone \cup {o.callback} /\ ~ Listed(o.callback)
        /\ UNCHANGED <<clock, lists, sensor, pc, list, it, now, firing, request, asked, fires, late>>
    BY <1>o DEF RemoveReturns, Running, thread
  <1>2. o \in Operation /\ o = queue[1] /\ 1 \in 1..Len(queue)
    BY <1>o, <1>t, <1>1, DropStep
  <1>d. /\ queue' \in Seq(Operation) /\ Len(queue') \in Nat /\ Len(queue') <= MaxQueue
        /\ \A q \in 1..Len(queue') : q + 1 \in 1..Len(queue) /\ queue'[q] = queue[q + 1]
        /\ \A q \in 1..Len(queue) : q # 1 => q - 1 \in 1..Len(queue') /\ queue'[q - 1] = queue[q]
        /\ \A c : Pending(c)' => Pending(c)
    BY <1>t, <1>1, DropStep
  <1>3. o.callback \in asked
    BY <1>1, <1>2 DEF IInv, RemoveInv
  <1>4. TypeOK'
    BY <1>t, <1>1, <1>3, <1>d DEF TypeOK
  <1>5. \A c \in asked \ gone' : \E q \in 1..Len(queue') : Removes(queue'[q], c)
    <2> SUFFICES ASSUME NEW c \in asked \ gone'
                 PROVE  \E q \in 1..Len(queue') : Removes(queue'[q], c)
      OBVIOUS
    <2>1. c \notin gone /\ c # o.callback
      BY <1>1
    <2>2. PICK q \in 1..Len(queue) : Removes(queue[q], c)
      BY <2>1 DEF IInv, RemoveInv
    <2>3. q # 1
      BY <1>2, <2>1, <2>2 DEF Removes
    <2> QED
      BY <1>d, <2>2, <2>3
  <1>6. ~ \E q \in 1..Len(queue') : Registers(queue'[q], o.callback)
    <2> SUFFICES ASSUME NEW q \in 1..Len(queue'), Registers(queue'[q], o.callback)
                 PROVE  FALSE
      OBVIOUS
    <2>1. q + 1 \in 1..Len(queue) /\ queue'[q] = queue[q + 1] /\ 1 < q + 1
      BY <1>d
    <2> QED
      BY <1>1, <1>2, <2>1 DEF IInv, RemoveInv
  <1>7. \A c \in gone' : c \in gone \/ (~ Listed(c) /\ ~ Pending(c)')
    <2>1. ~ Pending(o.callback)'
      BY <1>6 DEF Pending
    <2> QED
      BY <1>1, <2>1
  <1> QED
    BY <1>1, <1>d, <1>4, <1>5, <1>7, DropIInv

-----------------------------------------------------------------------------
(* Steps that erase or change elements. Each element that is left stems    *)
(* from one of before: f[m][j] is the old place of the element at j.       *)
LEMMA Survivors ==
  ASSUME IInv, UNCHANGED <<queue, asked, gone>>, NEW f,
         \A m \in ListNames : \A j \in 1..Len(lists'[m]) :
            f[m][j] \in 1..Len(lists[m]) /\ lists'[m][j].callback = lists[m][f[m][j]].callback,
         \A m \in ListNames : \A i, j \in 1..Len(lists'[m]) : f[m][i] = f[m][j] => i = j
  PROVE  /\ UniqueInv' /\ RemoveInv'
         /\ \A c : (Listed(c)' => Listed(c)) /\ (Pending(c)' <=> Pending(c))
  <1>1. \A c : Listed(c)' => Listed(c)
    BY SMTT(30) DEF Listed
  <1>2. \A c : Pending(c)' <=> Pending(c)
    BY DEF Pending
  <1>3. UniqueInv'
    <2>1. ASSUME NEW m \in ListNames, NEW n \in ListNames,
                 NEW i \in 1..Len(lists'[m]), NEW j \in 1..Len(lists'[n]),
                 lists'[m][i].callback = lists'[n][j].callback
          PROVE  m = n /\ i = j
      <3>1. /\ f[m][i] \in 1..Len(lists[m]) /\ f[n][j] \in 1..Len(lists[n])
            /\ lists[m][f[m][i]].callback = lists[n][f[n][j]].callback
        BY <2>1
      <3>2. \A a \in 1..Len(lists[m]), b \in 1..Len(lists[n]) :
               lists[m][a].callback = lists[n][b].callback => m = n /\ a = b
        BY DEF IInv, UniqueInv
      <3>3. m = n /\ f[m][i] = f[n][j]
        BY <3>1, <3>2
      <3> QED
        BY <3>3
    <2>2. \A c \in Callbacks : ~ (Listed(c) /\ Pending(c))'
      BY <1>1, <1>2 DEF IInv, UniqueInv
    <2> QED
      BY <2>1, <2>2 DEF IInv, UniqueInv
  <1>4. RemoveInv'
    BY <1>1, <1>2 DEF IInv, RemoveInv
  <1> QED
    BY <1>1, <1>2, <1>3, <1>4

(* erase at a place of one of the lists.                                   *)
LEMMA EraseStep ==
  ASSUME NEW S, NEW s \in Seq(S), NEW k \in 1..Len(s)
  PROVE  /\ RemoveAt(s, k) \in Seq(S) /\ Len(RemoveAt(s, k)) = Len(s) - 1
         /\ \A j \in 1..(Len(s) - 1) : RemoveAt(s, k)[j] = IF j < k THEN s[j] ELSE s[j + 1]
  <1> DEFINE a == SubSeq(s, 1, k - 1)
             b == SubSeq(s, k + 1, Len(s))
  <1>1. Len(s) \in Nat /\ k \in Nat
    BY LenProperties
  <1>2. (\A i \in 1..(k - 1) : s[i] \in S) /\ (\A i \in (k + 1)..Len(s) : s[i] \in S)
    <2>1. (\A i \in 1..(k - 1) : i \in 1..Len(s)) /\ (\A i \in (k + 1)..Len(s) : i \in 1..Len(s))
      BY <1>1
    <2> QED
      BY <2>1, ElementOfSeq
  <1>3. /\ a \in Seq(S) /\ Len(a) = k - 1 /\ \A i \in 1..(k - 1) : a[i] = s[i]
    <2>1. /\ 1 \in Int /\ k - 1 \in Int
      BY <1>1
    <2>2. /\ a \in Seq(S) /\ Len(a) = (IF 1 <= k - 1 THEN (k - 1) - 1 + 1 ELSE 0)
          /\ \A i \in 1..((k - 1) - 1 + 1) : a[i] = s[1 + i - 1]
      BY <1>2, <2>1, SubSeqProperties
    <2>3. \A i \in 1..(k - 1) : i \in 1..((k - 1) - 1 + 1) /\ 1 + i - 1 = i
      BY <1>1
    <2>4. \A i \in 1..(k - 1) : a[i] = s[i]
      BY <2>2, <2>3
    <2>5. Len(a) = k - 1
      BY <1>1, <2>2
    <2> QED
      BY <2>2, <2>4, <2>5
  <1>4. /\ b \in Seq(S) /\ Len(b) = Len(s) - k /\ \A i \in 1..(Len(s) - k) : b[i] = s[k + i]
    <2>1. /\ k + 1 \in Int /\ Len(s) \in Int
      BY <1>1
    <2>2. /\ b \in Seq(S) /\ Len(b) = (IF k + 1 <= Len(s) THEN Len(s) - (k + 1) + 1 ELSE 0)
          /\ \A i \in 1..(Len(s) - (k + 1) + 1) : b[i] = s[(k + 1) + i - 1]
      BY <1>2, <2>1, SubSeqProperties
    <2>3. \A i \in 1..(Len(s) - k) : i \in 1..(Len(s) - (k + 1) + 1) /\ (k + 1) + i - 1 = k + i
      BY <1>1
    <2>4. \A i \in 1..(Len(s) - k) : b[i] = s[k + i]
      BY <2>2, <2>3
    <2>5. Len(b) = Len(s) - k
      BY <1>1, <2>2
    <2> QED
      BY <2>2, <2>4, <2>5
  <1>5. RemoveAt(s, k) = a \o b
    BY DEF RemoveAt
  <1> HIDE DEF a, b
  <1>6. /\ a \o b \in Seq(S) /\ Len(a \o b) = Len(a) + Len(b)
        /\ \A i \in 1..(Len(a) + Len(b)) : (a \o b)[i] = IF i <= Len(a) THEN a[i] ELSE b[i - Len(a)]
    BY <1>3, <1>4, ConcatProperties
  <1>7. Len(a) + Len(b) = Len(s) - 1
    BY <1>1, <1>3, <1>4
  <1>8. ASSUME NEW j \in 1..(Len(s) - 1)
        PROVE  RemoveAt(s, k)[j] = IF j < k THEN s[j] ELSE s[j + 1]
    <2>1. RemoveAt(s, k)[j] = IF j <= Len(a) THEN a[j] ELSE b[j - Len(a)]
      BY <1>5, <1>6, <1>7
    <2>2. CASE j < k
      <3>1. j <= Len(a) /\ j \in 1..(k - 1)
        BY <1>1, <1>3, <2>2
      <3> QED
        BY <1>3, <2>1, <2>2, <3>1
    <2>3. CASE ~ (j < k)
      <3>1. ~ (j <= Len(a)) /\ j - Len(a) \in 1..(Len(s) - k) /\ k + (j - Len(a)) = j + 1
        BY <1>1, <1>3, <2>3
      <3> QED
        BY <1>4, <2>1, <2>3, <3>1
    <2> QED
      BY <2>2, <2>3
  <1> QED
    BY <1>5, <1>6, <1>7, <1>8

LEMMA EraseLists ==
  ASSUME IInv, NEW l \in ListNames, NEW k \in 1..Len(lists[l]),
         lists' = [lists EXCEPT ![l] = RemoveAt(@, k)], UNCHANGED <<queue, asked, gone>>
  PROVE  /\ DOMAIN lists' = ListNames /\ lists'["cron"] \in Seq(TimerEntry)
         /\ lists'["at"] \in Seq(TimerEntry) /\ lists'["sensor"] \in Seq(SensorEntry)
         /\ \A m \in ListNames : m # l => lists'[m] = lists[m]
         /\ Len(lists[l]) \in Nat /\ Len(lists'[l]) = Len(lists[l]) - 1
         /\ \A j \in 1..Len(lists'[l]) :
               /\ lists'[l][j] = lists[l][IF j < k THEN j ELSE j + 1]
               /\ (IF j < k THEN j ELSE j + 1) \in (1..Len(lists[l])) \ {k}
         /\ UniqueInv' /\ RemoveInv'
         /\ \A c : (Listed(c)' => Listed(c)) /\ (Pending(c)' <=> Pending(c))
  <1>t. TypeOK
    BY DEF IInv
  <1>1. /\ DOMAIN lists' = ListNames /\ lists'[l] = RemoveAt(lists[l], k)
        /\ \A m \in ListNames : m # l => lists'[m] = lists[m]
    BY <1>t DEF TypeOK
  <1>2. /\ l = "sensor" => lists[l] \in Seq(SensorEntry) /\ lists'[l] \in Seq(SensorEntry)
        /\ l # "sensor" => lists[l] \in Seq(TimerEntry) /\ lists'[l] \in Seq(TimerEntry)
        /\ Len(lists'[l]) = Len(lists[l]) - 1
        /\ \A j \in 1..(Len(lists[l]) - 1) : lists'[l][j] = IF j < k THEN lists[l][j] ELSE lists[l][j + 1]
    <2>1. CASE l = "sensor"
      BY <1>t, <1>1, <2>1, EraseStep DEF TypeOK
    <2>2. CASE l \in {"cron", "at"}
      <3>1. lists[l] \in Seq(TimerEntry)
        BY <1>t, <2>2 DEF TypeOK
      <3>2. l # "sensor"
        BY <2>2
      <3>3. /\ RemoveAt(lists[l], k) \in Seq(TimerEntry)
            /\ Len(RemoveAt(lists[l], k)) = Len(lists[l]) - 1
            /\ \A j \in 1..(Len(lists[l]) - 1) :
                  RemoveAt(lists[l], k)[j] = IF j < k THEN lists[l][j] ELSE lists[l][j + 1]
        BY <3>1, EraseStep
      <3> QED
        BY <1>1, <3>1, <3>2, <3>3
    <2> QED
      BY <2>1, <2>2 DEF ListNames
  <1>3. Len(lists[l]) \in Nat /\ Len(lists'[l]) \in Nat
    BY <1>t, <1>2, Elements
  <1>4. /\ lists'["cron"] \in Seq(TimerEntry)
        /\ lists'["at"] \in Seq(TimerEntry) /\ lists'["sensor"] \in Seq(SensorEntry)
    BY <1>t, <1>1, <1>2 DEF TypeOK, ListNames
  <1>5. \A j \in 1..Len(lists'[l]) :
           /\ lists'[l][j] = lists[l][IF j < k THEN j ELSE j + 1]
           /\ (IF j < k THEN j ELSE j + 1) \in (1..Len(lists[l])) \ {k}
    BY <1>2, <1>3
  <1> DEFINE f == [m \in ListNames |-> [j \in 1..Len(lists'[m]) |-> IF m = l /\ ~ (j < k) THEN j + 1 ELSE j]]
  <1>6. \A m \in ListNames : \A j \in 1..Len(lists'[m]) :
           f[m][j] \in 1..Len(lists[m]) /\ lists'[m][j].callback = lists[m][f[m][j]].callback
    BY <1>1, <1>5
  <1>7. \A m \in ListNames : \A i, j \in 1..Len(lists'[m]) : f[m][i] = f[m][j] => i = j
    <2> SUFFICES ASSUME NEW m \in ListNames, NEW i \in 1..Len(lists'[m]), NEW j \in 1..Len(lists'[m]),
                        f[m][i] = f[m][j]
                 PROVE  i = j
      OBVIOUS
    <2>1. i \in Int /\ j \in Int /\ k \in Int
      OBVIOUS
    <2> QED
      BY <2>1
  <1> HIDE DEF f
  <1>8. /\ UniqueInv' /\ RemoveInv'
        /\ \A c : (Listed(c)' => Listed(c)) /\ (Pending(c)' <=> Pending(c))
    BY <1>6, <1>7, Survivors
  <1> QED
    BY <1>1, <1>2, <1>3, <1>4, <1>5, <1>8

(* One turn of RemoveCallbackLow that finds an element.                    *)
LEMMA RemoveEraseIInv == ASSUME IInv, RemoveErase PROVE IInv'
  <1>t. TypeOK
    BY DEF IInv
  <1>1. PICK l \in ListNames : \E k \in 1..Len(lists[l]) : lists' = [lists EXCEPT ![l] = RemoveAt(@, k)]
    BY DEF RemoveErase
  <1>2. PICK k \in 1..Len(lists[l]) : lists' = [lists EXCEPT ![l] = RemoveAt(@, k)]
    BY <1>1
  <1>3. /\ pc = "drain"
        /\ UNCHANGED <<clock, queue, sensor, pc, list, it, now, firing, request, asked, gone, fires, late>>
    BY DEF RemoveErase, Running, thread, history
  <1>4. /\ DOMAIN lists' = ListNames /\ lists'["cron"] \in Seq(TimerEntry)
        /\ lists'["at"] \in Seq(TimerEntry) /\ lists'["sensor"] \in Seq(SensorEntry)
        /\ \A m \in ListNames : m # l => lists'[m] = lists[m]
        /\ \A j \in 1..Len(lists'[l]) :
              /\ lists'[l][j] = lists[l][IF j < k THEN j ELSE j + 1]
              /\ (IF j < k THEN j ELSE j + 1) \in (1..Len(lists[l])) \ {k}
        /\ UniqueInv' /\ RemoveInv'
        /\ \A c : (Listed(c)' => Listed(c)) /\ (Pending(c)' <=> Pending(c))
    BY <1>2, <1>3, EraseLists
  <1>5. \A m \in ListNames : \A j \in 1..Len(lists'[m]) : \E i \in 1..Len(lists[m]) : lists'[m][j] = lists[m][i]
    BY <1>4
  <1>m. /\ \A m \in {"cron", "at"} : \A j \in 1..Len(lists'[m]) :
              \E i \in 1..Len(lists[m]) : lists'[m][j] = lists[m][i]
        /\ \A j \in 1..Len(lists'["at"]) : \E i \in 1..Len(lists["at"]) : lists'["at"][j] = lists["at"][i]
        /\ \A j \in 1..Len(lists'["sensor"]) :
              \E i \in 1..Len(lists["sensor"]) : lists'["sensor"][j] = lists["sensor"][i]
    BY SMTT(30), <1>5 DEF ListNames
  <1>6. TypeOK'
    <2>1. it' \in 1..(Len(lists'[list']) + 1)
      <3>1. list = "cron" /\ it = 1
        BY <1>3 DEF IInv, ThreadInv
      <3>2. Len(lists'["cron"]) \in Nat
        BY <1>4
      <3> QED
        BY <1>3, <3>1, <3>2
    <2> QED
      BY <1>t, <1>3, <1>4, <2>1 DEF TypeOK
  <1>7. ThreadInv'
    BY <1>3 DEF IInv, ThreadInv
  <1>8. FreshInv'
    BY <1>3, <1>4 DEF IInv, FreshInv
  <1>9. LateInv'
    BY <1>3 DEF IInv, LateInv, Ahead, InFront
  <1>10. FromInv'
    BY <1>3, <1>m DEF IInv, FromInv
  <1>11. OnceInv'
    <2>1. \A m \in ListNames : \A j \in 1..Len(lists'[m]) : request[lists'[m][j].callback].list = m
      BY <1>5 DEF IInv, OnceInv
    <2>2. \A j \in 1..Len(lists'["at"]) :
             fires[lists'["at"][j].callback] # 0 => pc' = "fire" /\ list' = "at" /\ it' = j
      <3>1. \A i \in 1..Len(lists["at"]) : fires[lists["at"][i].callback] = 0
        BY <1>3 DEF IInv, OnceInv
      <3> QED
        BY <1>3, <1>m, <3>1
    <2>3. \A j \in 1..Len(lists'["sensor"]) :
             fires[lists'["sensor"][j].callback] # 0 => lists'["sensor"][j].lastResult
      BY <1>3, <1>m DEF IInv, OnceInv
    <2>4. OneShot'
      BY <1>3 DEF IInv, OnceInv, OneShot
    <2> QED
      BY <1>3, <1>4, <2>1, <2>2, <2>3, <2>4 DEF IInv, OnceInv, ListOf
  <1> QED
    BY <1>4, <1>6, <1>7, <1>8, <1>9, <1>10, <1>11 DEF IInv

-----------------------------------------------------------------------------
(* The iterator comes to an element that is due. Its callback was ahead,   *)
(* so it has not been fired since its removal was asked for, and it is not *)
(* ahead any more.                                                         *)
LEMMA WalkStep ==
  ASSUME TypeOK, NEW j \in 1..Len(lists[list]),
         lists' = IF list = "sensor" THEN [lists EXCEPT !["sensor"][j].lastResult = TRUE] ELSE lists
  PROVE  /\ DOMAIN lists' = ListNames /\ lists'["cron"] = lists["cron"] /\ lists'["at"] = lists["at"]
         /\ lists'["sensor"] \in Seq(SensorEntry)
         /\ \A m \in ListNames : Len(lists'[m]) = Len(lists[m])
         /\ \A m \in ListNames : \A i \in 1..Len(lists[m]) : lists'[m][i].callback = lists[m][i].callback
         /\ list = "sensor" => lists'["sensor"][j].lastResult
         /\ \A i \in 1..Len(lists["sensor"]) : lists["sensor"][i].lastResult => lists'["sensor"][i].lastResult
  <1>1. CASE list # "sensor"
    BY <1>1 DEF TypeOK
  <1>2. CASE list = "sensor"
    <2>1. /\ DOMAIN lists' = ListNames /\ lists'["cron"] = lists["cron"] /\ lists'["at"] = lists["at"]
          /\ lists'["sensor"] = [lists["sensor"] EXCEPT ![j].lastResult = TRUE]
      BY <1>2 DEF TypeOK, ListNames
    <2>2. lists["sensor"] \in Seq(SensorEntry) /\ j \in 1..Len(lists["sensor"])
      BY <1>2 DEF TypeOK
    <2>3. \A i \in 1..Len(lists["sensor"]) : lists["sensor"][i] \in SensorEntry
      BY <2>2, ElementOfSeq
    <2>4. /\ lists'["sensor"] \in Seq(SensorEntry) /\ Len(lists'["sensor"]) = Len(lists["sensor"])
          /\ \A i \in 1..Len(lists["sensor"]) : i # j => lists'["sensor"][i] = lists["sensor"][i]
          /\ lists'["sensor"][j] = [lists["sensor"][j] EXCEPT !.lastResult = TRUE]
      <3>1. PICK e : e = [lists["sensor"][j] EXCEPT !.lastResult = TRUE]
        OBVIOUS
      <3>2. e \in SensorEntry
        BY <2>2, <2>3, <3>1 DEF SensorEntry
      <3>3. PICK s : s = lists["sensor"]
        OBVIOUS
      <3>4. lists'["sensor"] = [s EXCEPT ![j] = e] /\ s \in Seq(SensorEntry) /\ j \in 1..Len(s)
        BY <2>1, <2>2, <3>1, <3>3
      <3>5. /\ [s EXCEPT ![j] = e] \in Seq(SensorEntry) /\ Len([s EXCEPT ![j] = e]) = Len(s)
            /\ \A i \in 1..Len(s) : [s EXCEPT ![j] = e][i] = IF i = j THEN e ELSE s[i]
        BY <3>2, <3>4, ExceptSeq
      <3> QED
        BY <3>1, <3>3, <3>4, <3>5
    <2>5. lists'["sensor"][j].lastResult /\ lists'["sensor"][j].callback = lists["sensor"][j].callback
      BY <2>2, <2>3, <2>4 DEF SensorEntry
    <2>6. \A m \in ListNames : Len(lists'[m]) = Len(lists[m])
      BY <2>1, <2>4 DEF ListNames
    <2>7. \A m \in ListNames : \A i \in 1..Len(lists[m]) : lists'[m][i].callback = lists[m][i].callback
      BY <2>1, <2>4, <2>5 DEF ListNames
    <2>8. \A i \in 1..Len(lists["sensor"]) : lists["sensor"][i].lastResult => lists'["sensor"][i].lastResult
      BY <2>4, <2>5
    <2> QED
      BY <2>1, <2>4, <2>5, <2>6, <2>7, <2>8
  <1> QED
    BY <1>1, <1>2

LEMMA WalkToDueIInv == ASSUME IInv, WalkToDue PROVE IInv'
  <1>t. TypeOK
    BY DEF IInv
  <1>1. PICK j \in it..Len(lists[list]) :
           /\ Due(lists[list][j]) /\ it' = j /\ firing' = lists[list][j].callback
           /\ fires' = [fires EXCEPT ![lists[list][j].callback] = OneMore(@)]
           /\ late' = IF lists[list][j].callback \in asked
                        THEN [late EXCEPT ![lists[list][j].callback] = OneMore(@)] ELSE late
           /\ lists' = IF list = "sensor" THEN [lists EXCEPT !["sensor"][j].lastResult = TRUE] ELSE lists
    BY DEF WalkToDue
  <1>2. /\ pc = "walk" /\ pc' = "fire"
        /\ UNCHANGED <<clock, queue, sensor, list, now, request, asked, gone>>
    BY DEF WalkToDue
  <1>3. j \in 1..Len(lists[list]) /\ it <= j /\ list \in ListNames /\ it \in Nat
    BY <1>t DEF TypeOK
  <1>4. PICK c : c = lists[list][j].callback
    OBVIOUS
  <1>5. c \in Callbacks /\ c # NoCallback
    BY <1>t, <1>3, <1>4, Elements, NoCallbackAssumption
  <1>6. /\ DOMAIN lists' = ListNames /\ lists'["cron"] = lists["cron"] /\ lists'["at"] = lists["at"]
        /\ lists'["sensor"] \in Seq(SensorEntry)
        /\ \A m \in ListNames : Len(lists'[m]) = Len(lists[m])
        /\ \A m \in ListNames : \A i \in 1..Len(lists[m]) : lists'[m][i].callback = lists[m][i].callback
        /\ list = "sensor" => lists'["sensor"][j].lastResult
        /\ \A i \in 1..Len(lists["sensor"]) : lists["sensor"][i].lastResult => lists'["sensor"][i].lastResult
    BY <1>t, <1>1, <1>3, WalkStep
  <1>7. /\ Listed(c) /\ Ahead(c)
        /\ \A m \in ListNames : \A i \in 1..Len(lists[m]) : lists[m][i].callback = c => m = list /\ i = j
    <2>1. Listed(c) /\ Ahead(c)
      BY <1>2, <1>3, <1>4 DEF Listed, Ahead, InFront
    <2> QED
      BY <1>3, <1>4, <2>1 DEF IInv, UniqueInv
  <1>8. /\ late[c] = 0 /\ request[c] # NoRequest /\ request[c].list = list /\ ~ Pending(c)
    BY <1>3, <1>4, <1>5, <1>7 DEF IInv, LateInv, FreshInv, OnceInv, UniqueInv
  <1>9. /\ fires' \in [Callbacks -> 0..2] /\ late' \in [Callbacks -> 0..2]
        /\ fires'[c] = OneMore(fires[c]) /\ late'[c] \in 0..1 /\ (late'[c] # 0 => c \in asked)
        /\ \A d \in Callbacks : d # c => fires'[d] = fires[d] /\ late'[d] = late[d]
    <2>1. fires \in [Callbacks -> 0..2] /\ late \in [Callbacks -> 0..2]
      BY <1>t DEF TypeOK
    <2>2. fires' = [fires EXCEPT ![c] = OneMore(@)]
      BY <1>1, <1>4
    <2>3. late' = IF c \in asked THEN [late EXCEPT ![c] = OneMore(@)] ELSE late
      BY <1>1, <1>4
    <2>4. /\ fires' \in [Callbacks -> 0..2] /\ fires'[c] = OneMore(fires[c])
          /\ \A d \in Callbacks : d # c => fires'[d] = fires[d]
      BY <1>5, <2>1, <2>2 DEF OneMore
    <2>5. /\ late' \in [Callbacks -> 0..2] /\ late'[c] \in 0..1 /\ (late'[c] # 0 => c \in asked)
          /\ \A d \in Callbacks : d # c => late'[d] = late[d]
      BY <1>5, <1>8, <2>1, <2>3 DEF OneMore
    <2> QED
      BY <2>4, <2>5
  <1>10. TypeOK'
    <2>1. it' \in 1..(Len(lists'[list']) + 1)
      BY <1>t, <1>1, <1>2, <1>3, <1>6, Elements
    <2>2. firing' \in Callbacks \cup {NoCallback}
      BY <1>1, <1>4, <1>5
    <2> QED
      BY <1>t, <1>2, <1>6, <1>9, <2>1, <2>2 DEF TypeOK, ThreadStates
  <1>11. ThreadInv'
    <2>1. list # "sensor" => clock >= request[c].from /\ clock >= BadTime
      <3> SUFFICES ASSUME list # "sensor"
                   PROVE  clock >= request[c].from /\ clock >= BadTime
        OBVIOUS
      <3>1. list \in {"cron", "at"}
        BY <1>3 DEF ListNames
      <3>2. now >= BadTime /\ now >= lists[list][j].fireTime
        BY <1>1 DEF Due
      <3>3. lists[list][j].fireTime >= request[c].from
        BY <1>3, <1>4, <3>1 DEF IInv, FromInv
      <3>4. lists[list][j].fireTime \in Nat
        BY <1>t, <1>3, <3>1, Elements DEF TimerEntry
      <3>5. request[c].from \in Nat /\ now \in Nat /\ clock \in Nat /\ now <= clock /\ BadTime \in Nat
        BY <1>t, <1>5, TimeAssumption DEF TypeOK, Request, IInv, ThreadInv
      <3>6. \A b, n, k, t, r \in Nat : n >= b /\ n >= t /\ t >= r /\ n <= k => k >= r /\ k >= b
        OBVIOUS
      <3> QED
        BY ONLY <3>2, <3>3, <3>4, <3>5, <3>6
    <2>2. it' \in 1..Len(lists'[list']) /\ lists'[list'][it'].callback = firing'
      BY <1>1, <1>2, <1>3, <1>6
    <2>3. now' <= clock'
      BY <1>2 DEF IInv, ThreadInv
    <2> QED
      BY <1>1, <1>2, <1>4, <1>5, <2>1, <2>2, <2>3 DEF ThreadInv
  <1>12. /\ UniqueInv' /\ RemoveInv'
         /\ \A d : (Listed(d)' => Listed(d)) /\ (Pending(d)' <=> Pending(d))
    <2> DEFINE f == [m \in ListNames |-> [i \in 1..Len(lists[m]) |-> i]]
    <2>1. \A m \in ListNames : \A i \in 1..Len(lists'[m]) :
             f[m][i] \in 1..Len(lists[m]) /\ lists'[m][i].callback = lists[m][f[m][i]].callback
      BY <1>6
    <2>2. \A m \in ListNames : \A i, k \in 1..Len(lists'[m]) : f[m][i] = f[m][k] => i = k
      BY <1>6
    <2> HIDE DEF f
    <2> QED
      BY <1>2, <2>1, <2>2, Survivors
  <1>13. FreshInv'
    BY <1>2, <1>8, <1>9, <1>12 DEF IInv, FreshInv
  <1>14. LateInv'
    <2> SUFFICES ASSUME NEW d \in Callbacks, late'[d] # 0
                 PROVE  late'[d] = 1 /\ d \in asked /\ ~ Ahead(d)'
      BY <1>2 DEF LateInv
    <2>1. ASSUME NEW l \in ListNames, NEW i \in 1..Len(lists[l]), lists[l][i].callback = d, InFront(l, i)'
          PROVE  d # c /\ Ahead(d)
      <3>1. Later(l, list) \/ (l = list /\ i > j)
        BY <1>1, <1>2, <2>1 DEF InFront
      <3>2. ~ Later(list, list)
        BY DEF Later
      <3>3. d # c
        BY <1>3, <1>7, <2>1, <3>1, <3>2
      <3>4. InFront(l, i)
        BY <1>2, <1>3, <3>1 DEF InFront
      <3> QED
        BY <2>1, <3>3, <3>4 DEF Ahead
    <2>2. Ahead(d)' => d # c /\ Ahead(d)
      BY <1>6, <2>1 DEF Ahead
    <2>3. CASE d = c
      BY <1>9, <2>2, <2>3
    <2>4. CASE d # c
      BY <1>9, <2>2, <2>4 DEF IInv, LateInv
    <2> QED
      BY <2>3, <2>4
  <1>15. FromInv'
    BY <1>2, <1>6 DEF IInv, FromInv
  <1>16. OnceInv'
    <2>1. \A m \in ListNames : \A i \in 1..Len(lists'[m]) : request[lists'[m][i].callback].list = m
      BY <1>6 DEF IInv, OnceInv
    <2>2. \A q \in 1..Len(queue) :
             IsRegistration(queue[q]) => request[queue[q].callback].list = ListOf(queue[q])
      BY DEF IInv, OnceInv
    <2>3. \A d \in Callbacks : fires'[d] # 0 => ~ Pending(d)'
      BY <1>8, <1>9, <1>12 DEF IInv, OnceInv
    <2>4. \A i \in 1..Len(lists["at"]) :
             fires'[lists["at"][i].callback] # 0 => pc' = "fire" /\ list' = "at" /\ it' = i
      <3> SUFFICES ASSUME NEW i \in 1..Len(lists["at"]), fires'[lists["at"][i].callback] # 0
                   PROVE  list = "at" /\ i = j
        BY <1>1, <1>2
      <3>1. lists["at"][i].callback \in Callbacks /\ "at" \in ListNames
        BY <1>t, Elements DEF ListNames
      <3>2. fires[lists["at"][i].callback] = 0
        BY <1>2 DEF IInv, OnceInv
      <3>3. lists["at"][i].callback = c
        BY <1>9, <3>1, <3>2
      <3> QED
        BY <1>7, <3>1, <3>3
    <2>5. \A i \in 1..Len(lists["sensor"]) :
             fires'[lists["sensor"][i].callback] # 0 => lists'["sensor"][i].lastResult
      <3> SUFFICES ASSUME NEW i \in 1..Len(lists["sensor"]), fires'[lists["sensor"][i].callback] # 0
                   PROVE  lists'["sensor"][i].lastResult
        OBVIOUS
      <3>1. lists["sensor"][i].callback \in Callbacks /\ "sensor" \in ListNames
        BY <1>t, Elements DEF ListNames
      <3>2. CASE lists["sensor"][i].callback = c
        BY <1>6, <1>7, <3>1, <3>2
      <3>3. CASE lists["sensor"][i].callback # c
        <4>1. fires[lists["sensor"][i].callback] # 0
          BY <1>9, <3>1, <3>3
        <4> QED
          BY <1>6, <4>1 DEF IInv, OnceInv
      <3> QED
        BY <3>2, <3>3
    <2>6. OneShot'
      <3> SUFFICES ASSUME NEW d \in Callbacks, fires'[d] > 1
                   PROVE  request[d].list = "cron"
        BY <1>2 DEF OneShot
      <3>1. CASE d # c
        BY <1>9, <3>1 DEF IInv, OnceInv, OneShot
      <3>2. CASE d = c
        <4>1. fires[c] # 0
          <5>1. fires[c] \in 0..2
            BY <1>t, <1>5 DEF TypeOK
          <5> QED
            BY <1>9, <3>2, <5>1 DEF OneMore
        <4>2. list # "at"
          BY <1>2, <1>3, <1>4, <4>1 DEF IInv, OnceInv
        <4>3. list = "sensor" => lists["sensor"][j].lastResult
          BY <1>3, <1>4, <4>1 DEF IInv, OnceInv
        <4>4. list = "sensor" => ~ lists["sensor"][j].lastResult
          BY <1>1 DEF Due
        <4> QED
          BY <1>3, <1>8, <3>2, <4>2, <4>3, <4>4 DEF ListNames
      <3> QED
        BY <3>1, <3>2
    <2>7. /\ \A i \in 1..Len(lists'["at"]) :
                fires'[lists'["at"][i].callback] # 0 => pc' = "fire" /\ list' = "at" /\ it' = i
          /\ \A i \in 1..Len(lists'["sensor"]) :
                fires'[lists'["sensor"][i].callback] # 0 => lists'["sensor"][i].lastResult
      <3>1. Len(lists'["sensor"]) = Len(lists["sensor"])
            /\ \A i \in 1..Len(lists["sensor"]) : lists'["sensor"][i].callback = lists["sensor"][i].callback
        BY <1>6 DEF ListNames
      <3> QED
        BY <1>6, <2>4, <2>5, <3>1
    <2> QED
      BY <1>2, <2>1, <2>2, <2>3, <2>6, <2>7 DEF OnceInv, ListOf
  <1> QED
    BY <1>10, <1>11, <1>12, <1>13, <1>14, <1>15, <1>16 DEF IInv

-----------------------------------------------------------------------------
(* The callback has come back: its element is extended, erased or left,    *)
(* and the iterator moves past it.                                         *)
LEMMA ReturnStep ==
  ASSUME IInv, pc = "fire", pc' = "walk", firing' = NoCallback,
         UNCHANGED <<clock, queue, sensor, list, now>>, UNCHANGED history,
         TypeOK', UniqueInv', RemoveInv', \A c : (Listed(c)' => Listed(c)) /\ (Pending(c)' <=> Pending(c)),
         \A m \in ListNames : \A j \in 1..Len(lists'[m]) : \E i \in 1..Len(lists[m]) :
            lists'[m][j].callback = lists[m][i].callback /\ (InFront(m, j)' => InFront(m, i)),
         \A m \in {"cron", "at"} : \A j \in 1..Len(lists'[m]) :
            lists'[m][j].fireTime >= request[lists'[m][j].callback].from,
         lists'["sensor"] = lists["sensor"],
         \A j \in 1..Len(lists'["at"]) : fires[lists'["at"][j].callback] = 0
  PROVE  IInv'
  <1>1. UNCHANGED <<request, asked, gone, fires, late>>
    BY DEF history
  <1>2. ThreadInv'
    BY DEF IInv, ThreadInv
  <1>3. FreshInv'
    BY <1>1 DEF IInv, FreshInv
  <1>4. LateInv'
    <2>1. \A c : Ahead(c)' => Ahead(c)
      <3> SUFFICES ASSUME NEW c, NEW m \in ListNames, NEW j \in 1..Len(lists'[m]),
                          lists'[m][j].callback = c, InFront(m, j)'
                   PROVE  Ahead(c)
        BY DEF Ahead
      <3>1. PICK i \in 1..Len(lists[m]) : lists[m][i].callback = c /\ InFront(m, i)
        OBVIOUS
      <3> QED
        BY <3>1 DEF Ahead
    <2> QED
      BY <1>1, <2>1 DEF IInv, LateInv
  <1>5. FromInv'
    BY <1>1 DEF IInv, FromInv
  <1>6. OnceInv'
    <2>1. \A m \in ListNames : \A j \in 1..Len(lists'[m]) : request[lists'[m][j].callback].list = m
      <3> SUFFICES ASSUME NEW m \in ListNames, NEW j \in 1..Len(lists'[m])
                   PROVE  request[lists'[m][j].callback].list = m
        OBVIOUS
      <3>1. PICK i \in 1..Len(lists[m]) : lists'[m][j].callback = lists[m][i].callback
        OBVIOUS
      <3> QED
        BY <3>1 DEF IInv, OnceInv
    <2>2. \A q \in 1..Len(queue) :
             IsRegistration(queue[q]) => request[queue[q].callback].list = ListOf(queue[q])
      BY DEF IInv, OnceInv
    <2>3. \A c \in Callbacks : fires[c] # 0 => ~ Pending(c)'
      BY DEF IInv, OnceInv
    <2>4. \A j \in 1..Len(lists["sensor"]) :
             fires[lists["sensor"][j].callback] # 0 => lists["sensor"][j].lastResult
      BY DEF IInv, OnceInv
    <2>5. OneShot'
      BY <1>1 DEF IInv, OnceInv, OneShot
    <2> QED
      BY <1>1, <2>1, <2>2, <2>3, <2>4, <2>5 DEF OnceInv, ListOf
  <1> QED
    BY <1>2, <1>3, <1>4, <1>5, <1>6 DEF IInv

LEMMA FireReturnsIInv == ASSUME IInv, FireReturns PROVE IInv'
  <1>t. TypeOK
    BY DEF IInv
  <1>1. /\ pc = "fire" /\ pc' = "walk" /\ firing' = NoCallback
        /\ UNCHANGED <<clock, queue, sensor, list, now>> /\ UNCHANGED history
        /\ UNCHANGED <<request, asked, gone, fires, late>>
    BY DEF FireReturns, history
  <1>2. it \in 1..Len(lists[list]) /\ lists[list][it].callback = firing /\ list \in ListNames
    BY <1>t, <1>1 DEF IInv, ThreadInv, TypeOK
  <1>3. \A m \in {"cron", "at"} : \A j \in 1..Len(lists[m]) :
           lists[m][j].fireTime >= request[lists[m][j].callback].from
    BY DEF IInv, FromInv
  <1>4. \A j \in 1..Len(lists["at"]) : fires[lists["at"][j].callback] # 0 => list = "at" /\ it = j
    BY DEF IInv, OnceInv
  <1>5. \A m \in ListNames : Len(lists[m]) \in Nat
    BY <1>t, Elements
  <1>6. CASE list = "cron"
    <2>1. /\ lists' = [lists EXCEPT !["cron"][it].fireTime = TimeAfter(lists["cron"][it].nextSecond)]
          /\ it' = it + 1 /\ it \in 1..Len(lists["cron"])
      BY <1>2, <1>6 DEF FireReturns
    <2>2. PICK e : e = [lists["cron"][it] EXCEPT !.fireTime = TimeAfter(lists["cron"][it].nextSecond)]
      OBVIOUS
    <2>3. PICK s : s = lists["cron"]
      OBVIOUS
    <2>4. s \in Seq(TimerEntry) /\ it \in 1..Len(s) /\ s[it] \in TimerEntry /\ s[it].callback = firing
      BY <1>t, <1>2, <1>6, <2>1, <2>3, Elements DEF TypeOK
    <2>5. clock \in Nat /\ clock >= request[firing].from
      BY <1>t, <1>1, <1>6, TimeAssumption DEF TypeOK, IInv, ThreadInv
    <2>6. e \in TimerEntry /\ e.callback = s[it].callback /\ e.fireTime = clock + s[it].nextSecond
      <3>1. \A x \in TimerEntry, t \in Nat : LET y == [x EXCEPT !.fireTime = t]
               IN  y \in TimerEntry /\ y.callback = x.callback /\ y.fireTime = t
        BY DEF TimerEntry
      <3>2. s[it].nextSecond \in Nat
        BY <2>4 DEF TimerEntry
      <3>3. clock + s[it].nextSecond \in Nat /\ e = [s[it] EXCEPT !.fireTime = clock + s[it].nextSecond]
        BY <2>2, <2>3, <2>5, <3>2 DEF TimeAfter
      <3> QED
        BY <2>4, <3>1, <3>3
    <2>7. e.fireTime >= request[e.callback].from
      <3>1. firing \in Callbacks
        BY <2>4 DEF TimerEntry
      <3>2. request[firing].from \in Nat /\ s[it].nextSecond \in Nat
        BY <1>t, <2>4, <3>1 DEF TypeOK, Request, TimerEntry
      <3>3. \A a, b, c \in Nat : a >= b => a + c >= b
        OBVIOUS
      <3> QED
        BY ONLY <2>4, <2>5, <2>6, <3>2, <3>3
    <2>8. /\ DOMAIN lists' = ListNames /\ lists'["cron"] = [s EXCEPT ![it] = e]
          /\ \A m \in ListNames : m # "cron" => lists'[m] = lists[m]
          /\ lists'["at"] = lists["at"] /\ lists'["sensor"] = lists["sensor"]
      BY <1>t, <2>1, <2>2, <2>3 DEF TypeOK, ListNames
    <2>9. /\ [s EXCEPT ![it] = e] \in Seq(TimerEntry) /\ Len([s EXCEPT ![it] = e]) = Len(s)
          /\ \A i \in 1..Len(s) : [s EXCEPT ![it] = e][i] = IF i = it THEN e ELSE s[i]
      BY <2>4, <2>6, ExceptSeq
    <2>10. /\ lists'["cron"] \in Seq(TimerEntry) /\ Len(lists'["cron"]) = Len(lists["cron"])
           /\ \A i \in 1..Len(lists["cron"]) : lists'["cron"][i].callback = lists["cron"][i].callback
           /\ \A i \in 1..Len(lists["cron"]) : i # it => lists'["cron"][i] = lists["cron"][i]
           /\ lists'["cron"][it] = e
      BY <2>3, <2>4, <2>6, <2>8, <2>9
    <2>11. TypeOK'
      <3>1. it' \in 1..(Len(lists'[list']) + 1)
        BY <1>1, <1>5, <1>6, <2>1, <2>10 DEF ListNames
      <3> QED
        BY <1>t, <1>1, <2>8, <2>10, <3>1 DEF TypeOK, ThreadStates
    <2>12. \A m \in ListNames : \A i \in 1..Len(lists'[m]) :
              i \in 1..Len(lists[m]) /\ lists'[m][i].callback = lists[m][i].callback
      <3> SUFFICES ASSUME NEW m \in ListNames
                   PROVE  \A i \in 1..Len(lists'[m]) :
                             i \in 1..Len(lists[m]) /\ lists'[m][i].callback = lists[m][i].callback
        OBVIOUS
      <3>1. CASE m = "cron"
        BY <2>10, <3>1
      <3>2. CASE m # "cron"
        BY <2>8, <3>2
      <3> QED
        BY <3>1, <3>2
    <2>13. /\ UniqueInv' /\ RemoveInv'
           /\ \A c : (Listed(c)' => Listed(c)) /\ (Pending(c)' <=> Pending(c))
      <3> DEFINE f == [m \in ListNames |-> [i \in 1..Len(lists'[m]) |-> i]]
      <3>1. \A m \in ListNames : \A i \in 1..Len(lists'[m]) :
               f[m][i] \in 1..Len(lists[m]) /\ lists'[m][i].callback = lists[m][f[m][i]].callback
        BY <2>12
      <3>2. \A m \in ListNames : \A i, k \in 1..Len(lists'[m]) : f[m][i] = f[m][k] => i = k
        OBVIOUS
      <3> HIDE DEF f
      <3> QED
        BY <1>1, <3>1, <3>2, Survivors
    <2>14. \A m \in ListNames : \A j \in 1..Len(lists'[m]) : \E i \in 1..Len(lists[m]) :
              lists'[m][j].callback = lists[m][i].callback /\ (InFront(m, j)' => InFront(m, i))
      <3>1. \A m \in ListNames : \A j \in 1..Len(lists'[m]) : InFront(m, j)' => InFront(m, j)
        BY <1>1, <1>2, <2>1 DEF InFront
      <3> QED
        BY <2>12, <3>1
    <2>15. \A m \in {"cron", "at"} : \A j \in 1..Len(lists'[m]) :
              lists'[m][j].fireTime >= request[lists'[m][j].callback].from
      <3>1. \A j \in 1..Len(lists'["at"]) :
               lists'["at"][j].fireTime >= request[lists'["at"][j].callback].from
        BY <1>3, <2>8
      <3>2. \A j \in 1..Len(lists'["cron"]) :
               lists'["cron"][j].fireTime >= request[lists'["cron"][j].callback].from
        <4> SUFFICES ASSUME NEW j \in 1..Len(lists'["cron"])
                     PROVE  lists'["cron"][j].fireTime >= request[lists'["cron"][j].callback].from
          OBVIOUS
        <4>1. CASE j = it
          BY <2>7, <2>10, <4>1
        <4>2. CASE j # it
          BY <1>3, <2>10, <4>2
        <4> QED
          BY <4>1, <4>2
      <3> QED
        BY <3>1, <3>2
    <2>16. \A j \in 1..Len(lists'["at"]) : fires[lists'["at"][j].callback] = 0
      BY <1>4, <1>6, <2>8
    <2> QED
      BY <1>1, <2>8, <2>11, <2>13, <2>14, <2>15, <2>16, ReturnStep
  <1>7. CASE list = "at"
    <2>1. /\ lists' = [lists EXCEPT !["at"] = RemoveAt(@, it)] /\ it' = it
          /\ it \in 1..Len(lists["at"]) /\ "at" \in ListNames
      BY <1>2, <1>7 DEF FireReturns, ListNames
    <2>2. /\ DOMAIN lists' = ListNames /\ lists'["cron"] \in Seq(TimerEntry)
          /\ lists'["at"] \in Seq(TimerEntry) /\ lists'["sensor"] \in Seq(SensorEntry)
          /\ \A m \in ListNames : m # "at" => lists'[m] = lists[m]
          /\ Len(lists'["at"]) = Len(lists["at"]) - 1
          /\ \A j \in 1..Len(lists'["at"]) :
                /\ lists'["at"][j] = lists["at"][IF j < it THEN j ELSE j + 1]
                /\ (IF j < it THEN j ELSE j + 1) \in (1..Len(lists["at"])) \ {it}
          /\ UniqueInv' /\ RemoveInv'
          /\ \A c : (Listed(c)' => Listed(c)) /\ (Pending(c)' <=> Pending(c))
      BY <1>1, <2>1, EraseLists
    <2>3. lists'["cron"] = lists["cron"] /\ lists'["sensor"] = lists["sensor"] /\ Len(lists["at"]) \in Nat
      BY <1>5, <2>2 DEF ListNames
    <2>4. TypeOK'
      <3>1. it' \in 1..(Len(lists'[list']) + 1)
        BY <1>1, <1>7, <2>1, <2>2, <2>3
      <3> QED
        BY <1>t, <1>1, <2>2, <3>1 DEF TypeOK, ThreadStates
    <2>5. \A j \in 1..Len(lists'["at"]) : \E i \in 1..Len(lists["at"]) :
             i # it /\ lists'["at"][j] = lists["at"][i] /\ (j >= it => i > it)
      <3> SUFFICES ASSUME NEW j \in 1..Len(lists'["at"])
                   PROVE  \E i \in 1..Len(lists["at"]) :
                             i # it /\ lists'["at"][j] = lists["at"][i] /\ (j >= it => i > it)
        OBVIOUS
      <3>1. PICK i : i = IF j < it THEN j ELSE j + 1
        OBVIOUS
      <3>2. i \in 1..Len(lists["at"]) /\ i # it /\ lists'["at"][j] = lists["at"][i]
        BY <2>2, <3>1
      <3>3. j >= it => i > it
        BY <2>1, <3>1
      <3> QED
        BY <3>2, <3>3
    <2>6. \A m \in ListNames : \A j \in 1..Len(lists'[m]) : \E i \in 1..Len(lists[m]) :
             lists'[m][j].callback = lists[m][i].callback /\ (InFront(m, j)' => InFront(m, i))
      <3> SUFFICES ASSUME NEW m \in ListNames, NEW j \in 1..Len(lists'[m])
                   PROVE  \E i \in 1..Len(lists[m]) :
                             lists'[m][j].callback = lists[m][i].callback /\ (InFront(m, j)' => InFront(m, i))
        OBVIOUS
      <3>1. CASE m # "at"
        <4>1. InFront(m, j)' => InFront(m, j)
          BY <1>1, <1>7, <3>1 DEF InFront
        <4> QED
          BY <2>2, <3>1, <4>1
      <3>2. CASE m = "at"
        <4>1. PICK i \in 1..Len(lists["at"]) : lists'["at"][j] = lists["at"][i] /\ (j >= it => i > it)
          BY <2>5, <3>2
        <4>2. InFront("at", j)' => InFront("at", i)
          BY <1>1, <1>7, <2>1, <4>1 DEF InFront
        <4> QED
          BY <3>2, <4>1, <4>2
      <3> QED
        BY <3>1, <3>2
    <2>7. \A m \in {"cron", "at"} : \A j \in 1..Len(lists'[m]) :
             lists'[m][j].fireTime >= request[lists'[m][j].callback].from
      BY <1>3, <2>3, <2>5
    <2>8. \A j \in 1..Len(lists'["at"]) : fires[lists'["at"][j].callback] = 0
      BY <1>4, <2>5
    <2> QED
      BY <1>1, <2>2, <2>3, <2>4, <2>6, <2>7, <2>8, ReturnStep
  <1>8. CASE list = "sensor"
    <2>1. lists' = lists /\ it' = it + 1
      BY <1>8 DEF FireReturns
    <2>2. TypeOK'
      <3>1. it' \in 1..(Len(lists'[list']) + 1)
        BY <1>1, <1>2, <1>5, <2>1
      <3> QED
        BY <1>t, <1>1, <2>1, <3>1 DEF TypeOK, ThreadStates
    <2>3. \A c : (Listed(c)' => Listed(c)) /\ (Pending(c)' <=> Pending(c))
      BY <1>1, <2>1 DEF Listed, Pending
    <2>4. UniqueInv' /\ RemoveInv'
      BY <1>1, <2>1, <2>3 DEF IInv, UniqueInv, RemoveInv
    <2>5. \A m \in ListNames : \A j \in 1..Len(lists'[m]) : InFront(m, j)' => InFront(m, j)
      BY <1>1, <1>2, <2>1 DEF InFront
    <2>6. \A m \in ListNames : \A j \in 1..Len(lists'[m]) : \E i \in 1..Len(lists[m]) :
             lists'[m][j].callback = lists[m][i].callback /\ (InFront(m, j)' => InFront(m, i))
      BY <2>1, <2>5
    <2>7. \A j \in 1..Len(lists'["at"]) : fires[lists'["at"][j].callback] = 0
      BY <1>4, <1>8, <2>1
    <2> QED
      BY <1>1, <1>3, <2>1, <2>2, <2>3, <2>4, <2>6, <2>7, ReturnStep
  <1> QED
    BY <1>2, <1>6, <1>7, <1>8 DEF ListNames

-----------------------------------------------------------------------------
(* What the other threads and the callbacks ask for.                       *)
LEMMA AppendSecondIInv ==
  ASSUME IInv, NEW c \in Callbacks, NEW n \in Seconds, NEW isAutoInterval \in BOOLEAN,
         AppendNextSecondTrigger(c, n, isAutoInterval)
  PROVE  IInv'
  <1>1. PICK l : l = IF isAutoInterval THEN "cron" ELSE "at"
    OBVIOUS
  <1>2. PICK o : o = [op |-> "second", list |-> l, callback |-> c, second |-> n]
    OBVIOUS
  <1>3. Registered(c, l, clock + n) /\ Defer(o)
    BY <1>1, <1>2 DEF AppendNextSecondTrigger
  <1>4. l \in ListNames /\ clock + n \in Nat
    BY <1>1, TimeAssumption DEF ListNames, IInv, TypeOK
  <1>5. o \in Operation /\ IsRegistration(o) /\ o.callback = c /\ ListOf(o) = l
    BY <1>1, <1>2 DEF Operation, IsRegistration, ListOf
  <1>6. o.op = "second" /\ o.second = n /\ clock + o.second >= clock + n
    BY <1>2, <1>4
  <1> QED
    BY <1>3, <1>4, <1>5, <1>6, RegisterIInv

LEMMA AppendTimeIInv ==
  ASSUME IInv, NEW c \in Callbacks, NEW t \in Dates, AppendNextTimeTrigger(c, t)
  PROVE  IInv'
  <1>1. PICK o : o = [op |-> "time", callback |-> c, fireTime |-> t]
    OBVIOUS
  <1>2. Registered(c, "at", t) /\ Defer(o)
    BY <1>1 DEF AppendNextTimeTrigger
  <1>3. "at" \in ListNames /\ t \in Nat
    BY TimeAssumption DEF ListNames
  <1>4. o \in Operation /\ IsRegistration(o) /\ o.callback = c /\ ListOf(o) = "at"
    BY <1>1 DEF Operation, IsRegistration, ListOf
  <1>5. o.op = "time" /\ o.fireTime >= t
    BY <1>1, <1>3
  <1> QED
    BY <1>2, <1>3, <1>4, <1>5, RegisterIInv

LEMMA AppendSensorIInv ==
  ASSUME IInv, NEW c \in Callbacks, NEW t \in Types, NEW v \in Values, NEW x \in Exprs,
         AppendSensorCallbackableTrigger(c, t, v, x)
  PROVE  IInv'
  <1>1. PICK o : o = [op |-> "sensor", callback |-> c, type |-> t, value |-> v, expr |-> x]
    OBVIOUS
  <1>2. Registered(c, "sensor", 0) /\ Defer(o)
    BY <1>1 DEF AppendSensorCallbackableTrigger
  <1>3. "sensor" \in ListNames /\ 0 \in Nat
    BY DEF ListNames
  <1>4. o \in Operation /\ IsRegistration(o) /\ o.callback = c /\ ListOf(o) = "sensor"
    BY <1>1 DEF Operation, IsRegistration, ListOf
  <1>5. o.op = "sensor"
    BY <1>1
  <1> QED
    BY <1>2, <1>3, <1>4, <1>5, RegisterIInv

LEMMA AskIInv ==
  ASSUME IInv, \/ \E r \in [Types -> Values] : OnSensorUpdate(r)
               \/ \E c \in Callbacks : RemoveCallbackDelay(c)
  PROVE  IInv'
  <1>1. CASE \E r \in [Types -> Values] : OnSensorUpdate(r)
    <2>1. PICK r \in [Types -> Values] : OnSensorUpdate(r)
      BY <1>1
    <2>2. PICK o : o = [op |-> "update", reading |-> r]
      OBVIOUS
    <2>3. o \in Operation /\ o.op = "update" /\ Defer(o) /\ request' = request /\ asked' = asked
      BY <2>1, <2>2 DEF OnSensorUpdate, Operation
    <2> QED
      BY <2>3, OtherDeferIInv
  <1>2. CASE \E c \in Callbacks : RemoveCallbackDelay(c)
    <2>1. PICK c \in Callbacks : RemoveCallbackDelay(c)
      BY <1>2
    <2>2. PICK o : o = [op |-> "remove", callback |-> c]
      OBVIOUS
    <2>3. /\ o \in Operation /\ o.op = "remove" /\ Defer(o) /\ request' = request
          /\ request[o.callback] # NoRequest /\ asked' = asked \cup {o.callback}
      BY <2>1, <2>2 DEF RemoveCallbackDelay, Operation
    <2> QED
      BY <2>3, OtherDeferIInv
  <1> QED
    BY <1>1, <1>2

(* Every step of the specification preserves the invariant.                *)
LEMMA NextIInv == ASSUME IInv, [Next]_vars PROVE IInv'
  <1>1. CASE BeginPass \/ DrainEnds \/ WalkOn \/ SecSleepEx \/ Tick \/ UNCHANGED vars
    BY <1>1, ThreadMoves
  <1>2. CASE RunAppend
    BY <1>2, RunAppendIInv
  <1>3. CASE RunUpdate
    BY <1>3, RunUpdateIInv
  <1>4. CASE RemoveErase
    BY <1>4, RemoveEraseIInv
  <1>5. CASE RemoveReturns
    BY <1>5, RemoveReturnsIInv
  <1>6. CASE WalkToDue
    BY <1>6, WalkToDueIInv
  <1>7. CASE FireReturns
    BY <1>7, FireReturnsIInv
  <1>8. CASE \E c \in Callbacks, n \in Seconds, isAutoInterval \in BOOLEAN :
                AppendNextSecondTrigger(c, n, isAutoInterval)
    BY <1>8, AppendSecondIInv
  <1>9. CASE \E c \in Callbacks, t \in Dates : AppendNextTimeTrigger(c, t)
    BY <1>9, AppendTimeIInv
  <1>10. CASE \E c \in Callbacks, t \in Types, v \in Values, x \in Exprs :
                 AppendSensorCallbackableTrigger(c, t, v, x)
    BY <1>10, AppendSensorIInv
  <1>11. CASE \/ \E r \in [Types -> Values] : OnSensorUpdate(r)
              \/ \E c \in Callbacks : RemoveCallbackDelay(c)
    BY <1>11, AskIInv
  <1> QED
    BY <1>1, <1>2, <1>3, <1>4, <1>5, <1>6, <1>7, <1>8, <1>9, <1>10, <1>11
       DEF Next, TriggerThread, Drain, RemoveCallbackLow

(* The trigger thread and everyone who uses it keep the invariant.         *)
LEMMA Invariance == Spec => []IInv
  <1>1. Init => IInv
    BY InitIInv
  <1>2. IInv /\ [Next]_vars => IInv'
    BY NextIInv
  <1> QED
    BY <1>1, <1>2, PTL DEF Spec

-----------------------------------------------------------------------------
(* The state of the trigger thread, its lists and ASyncFunctionList keep   *)
(* their types; in particular the iterator never leaves the list it walks, *)
(* whatever is erased (Trigger.cpp:141-222).                               *)
THEOREM TypeCorrect == Spec => []TypeOK
  <1>1. IInv => TypeOK
    BY DEF IInv
  <1> QED
    BY <1>1, Invariance, PTL

(* The iterator that is used after a callback has returned still denotes   *)
(* the element that was fired (Trigger.cpp:51-55, 159-218).                *)
THEOREM IteratorStaysValid == Spec => []IteratorValid
  <1>1. IInv => IteratorValid
    BY DEF IInv, TypeOK, ThreadInv, IteratorValid
  <1> QED
    BY <1>1, Invariance, PTL

(* A callback whose removal was carried out is in no list, is not to be    *)
(* registered and is not running (Trigger.cpp:150-154, 257-309).           *)
THEOREM RemovedIsGone == Spec => []RemovedForGood
  <1>1. IInv => RemovedForGood
    <2> SUFFICES ASSUME IInv, NEW c \in gone
                 PROVE  ~ Listed(c) /\ ~ Pending(c) /\ firing # c
      BY DEF RemovedForGood
    <2>1. ~ Listed(c) /\ ~ Pending(c) /\ c \in Callbacks
      BY DEF IInv, RemoveInv, TypeOK
    <2>2. CASE pc = "fire"
      <3>1. it \in 1..Len(lists[list]) /\ lists[list][it].callback = firing /\ list \in ListNames
        BY <2>2 DEF IInv, ThreadInv, TypeOK
      <3> QED
        BY <2>1, <3>1 DEF Listed
    <2>3. CASE pc # "fire"
      BY <2>1, <2>3, NoCallbackAssumption DEF IInv, ThreadInv
    <2> QED
      BY <2>1, <2>2, <2>3
  <1> QED
    BY <1>1, Invariance, PTL

(* After clearTimeout, clearInterval or a reload has returned, the callback *)
(* is fired at most once more (Trigger.cpp:145-155).                       *)
THEOREM RemovedFiresOnceAtMost == Spec => []AtMostOnceAfterRemove
  <1>1. IInv => AtMostOnceAfterRemove
    <2> SUFFICES ASSUME IInv, NEW c \in Callbacks
                 PROVE  late[c] <= 1
      BY DEF AtMostOnceAfterRemove
    <2>1. late[c] = 0 \/ late[c] = 1
      BY DEF IInv, LateInv
    <2> QED
      BY <2>1
  <1> QED
    BY <1>1, Invariance, PTL

(* No timer fires before its delay has passed or before the clock was set  *)
(* (Trigger.cpp:62, 72, 161, 176).                                         *)
THEOREM NeverTooEarly == Spec => []NotTooEarly
  <1>1. IInv => NotTooEarly
    BY DEF IInv, ThreadInv, NotTooEarly
  <1> QED
    BY <1>1, Invariance, PTL

(* What is fired twice is an interval (Trigger.cpp:183-189, 198-216).      *)
THEOREM OnlyIntervalsRepeat == Spec => []OneShot
  <1>1. IInv => OneShot
    BY DEF IInv, OnceInv
  <1> QED
    BY <1>1, Invariance, PTL
=============================================================================
