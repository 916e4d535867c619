------------------------------ MODULE Trigger ------------------------------
(***************************************************************************)
(* The Trigger component: timers, scheduled callbacks and sensor           *)
(* conditions. Any thread may register or remove a callback at any time,   *)
(* the callbacks themselves included. Nobody but the trigger thread        *)
(* touches the three lists: the others append a closure to                 *)
(* ASyncFunctionList, which the trigger thread runs at the head of each of *)
(* its passes. It then walks the lists and fires what is due; no lock is   *)
(* held while a callback runs.                                             *)
(*                                                                         *)
(* updatelock is held for an append, which is one step, and by the trigger *)
(* thread while it runs ASyncFunctionList, which is the state "drain".     *)
(***************************************************************************)
EXTENDS Integers, Sequences, SequencesExt

CONSTANTS Callbacks,    \* the CallbackPP objects, told apart by ObjectID
          NoCallback,   \* stands for none of them
          Seconds,      \* the values of nextSecond, at least 1
          Dates,        \* the fire times that are asked for
          Values,       \* sensor readings and thresholds
          Exprs,        \* the comparisons that are configured
          BadTime,      \* BAD_TIME: before it the clock has not been set
          MaxClock,     \* bound on the wall clock
          MaxQueue      \* bound on the length of ASyncFunctionList

ASSUME TimeAssumption == /\ BadTime \in Nat /\ MaxClock \in Nat /\ BadTime < MaxClock
                         /\ Seconds \subseteq Nat \ {0} /\ Dates \subseteq 0..MaxClock
ASSUME NoCallbackAssumption == NoCallback \notin Callbacks /\ MaxQueue \in Nat
ASSUME ValuesAssumption == Values \subseteq Int /\ 0 \in Values
ASSUME ExprsAssumption ==
    Exprs \subseteq {"none", "equal", "not", "greater", "less", "greatereq", "lesseq"}

VARIABLES clock,        \* time(NULL)
          queue,        \* ASyncFunctionList
          lists,        \* the three ...CallbackableTriggerLists
          sensor,       \* SensorTemp and SensorLumi
          pc,           \* where the trigger thread is
          list, it,     \* the list it walks and its iterator
          now,          \* its local variable now
          firing,       \* the callback it gave to FireTrigger
          request,      \* what each callback was registered for, and from when on
          asked,        \* the callbacks whose removal was asked for
          gone,         \* those whose removal was carried out
          fires,        \* how often each callback was fired: 0, 1 or more
          late          \* how often after its removal was asked for: 0, 1 or more

thread == <<pc, list, it, now, firing>>
history == <<request, asked, gone, fires, late>>
vars == <<clock, queue, lists, sensor, pc, list, it, now, firing, request, asked, gone, fires, late>>

ListNames == {"cron", "at", "sensor"}
Types == {"temp", "lumi"}
Request == [list : ListNames \cup {"none"}, from : Nat]
NoRequest == [list |-> "none", from |-> 0]

TimerEntry == [callback : Callbacks, nextSecond : Nat, fireTime : Nat]
SensorEntry == [callback : Callbacks, type : Types, value : Values, expr : Exprs,
                lastResult : BOOLEAN]

(* The closures of ASyncFunctionList.                                      *)
Operation == [op : {"second"}, list : {"cron", "at"}, callback : Callbacks, second : Seconds]
        \cup [op : {"time"}, callback : Callbacks, fireTime : Dates]
        \cup [op : {"sensor"}, callback : Callbacks, type : Types, value : Values, expr : Exprs]
        \cup [op : {"update"}, reading : [Types -> Values]]
        \cup [op : {"remove"}, callback : Callbacks]

(* updatelock is held by the trigger thread in the state "drain".          *)
ThreadStates == {"begin", "drain", "walk", "fire", "sleep"}

TypeOK == /\ clock \in 0..MaxClock /\ now \in 0..MaxClock
          /\ queue \in Seq(Operation) /\ Len(queue) <= MaxQueue
          /\ DOMAIN lists = ListNames
          /\ lists["cron"] \in Seq(TimerEntry) /\ lists["at"] \in Seq(TimerEntry)
          /\ lists["sensor"] \in Seq(SensorEntry)
          /\ sensor \in [Types -> Values]
          /\ pc \in ThreadStates
          /\ list \in ListNames
          /\ it \in 1..(Len(lists[list]) + 1)
          /\ asked \subseteq Callbacks /\ gone \subseteq asked
          /\ firing \in Callbacks \cup {NoCallback}
          /\ request \in [Callbacks -> Request]
          /\ fires \in [Callbacks -> 0..2] /\ late \in [Callbacks -> 0..2]

Init == /\ clock = 0 /\ now = 0
        /\ queue = <<>>
        /\ lists = [l \in ListNames |-> <<>>]
        /\ sensor = [t \in Types |-> 0]
        /\ pc = "begin" /\ list = "cron" /\ it = 1
        /\ asked = {} /\ gone = {}
        /\ firing = NoCallback
        /\ request = [c \in Callbacks |-> NoRequest]
        /\ fires = [c \in Callbacks |-> 0] /\ late = [c \in Callbacks |-> 0]

-----------------------------------------------------------------------------
(* What the other threads and the callbacks do.                            *)

(* Mutant of Defer: push_front for push_back.                              *)
DeferFront(o) == /\ pc # "drain" /\ Len(queue) < MaxQueue
                 /\ queue' = <<o>> \o queue
                 /\ UNCHANGED <<clock, lists, sensor, gone, fires, late>> /\ UNCHANGED thread

(* ASyncFunctionList.push_back, under updatelock.                          *)
Defer(o) == /\ pc # "drain" /\ Len(queue) < MaxQueue
            /\ queue' = Append(queue, o)
            /\ UNCHANGED <<clock, lists, sensor, gone, fires, late>> /\ UNCHANGED thread

(* CallbackPP::New gives every registration an ObjectID of its own.        *)
Registered(c, l, from) ==
    /\ request[c] = NoRequest
    /\ request' = [request EXCEPT ![c] = [list |-> l, from |-> from]]
    /\ UNCHANGED asked

AppendNextSecondTrigger(c, second, isAutoInterval) ==
    LET l == IF isAutoInterval THEN "cron" ELSE "at"
    IN  /\ Registered(c, l, clock + second)
        /\ Defer([op |-> "second", list |-> l, callback |-> c, second |-> second])

AppendNextTimeTrigger(c, fireTime) ==
    /\ Registered(c, "at", fireTime)
    /\ Defer([op |-> "time", callback |-> c, fireTime |-> fireTime])

AppendSensorCallbackableTrigger(c, type, value, expr) ==
    /\ Registered(c, "sensor", 0)
    /\ Defer([op |-> "sensor", callback |-> c, type |-> type, value |-> value, expr |-> expr])

OnSensorUpdate(reading) ==
    /\ Defer([op |-> "update", reading |-> reading])
    /\ UNCHANGED <<request, asked>>

(* Mutant of RemoveCallbackDelay: the removal is done on the spot.         *)
RemoveCallbackNow(c) ==
    /\ request[c] # NoRequest
    /\ lists' = [l \in ListNames |-> SelectSeq(lists[l], LAMBDA e : e.callback # c)]
    /\ asked' = asked \cup {c}
    /\ UNCHANGED <<clock, queue, sensor, request, gone, fires, late>> /\ UNCHANGED thread

(* clearTimeout, clearInterval, the reload of a script or of the triggers: *)
(* the caller has registered c before, and may remove it again.            *)
RemoveCallbackDelay(c) ==
    /\ request[c] # NoRequest
    /\ Defer([op |-> "remove", callback |-> c])
    /\ asked' = asked \cup {c}
    /\ UNCHANGED request

-----------------------------------------------------------------------------
(* A pass of the trigger thread, ThreadMain.                               *)

(* The head of the loop takes updatelock ...                               *)
BeginPass ==
    /\ pc = "begin"
    /\ pc' = "drain" /\ list' = "cron" /\ it' = 1
    /\ UNCHANGED <<clock, queue, lists, sensor, now, firing>> /\ UNCHANGED history

(* Mutant of TimeAfter: the delay is counted from the epoch.               *)
TimeAfterEpoch(n) == n

(* time(NULL) + nextSecond                                                 *)
TimeAfter(n) == clock + n

(* The element that a closure adds, and the list it adds it to.            *)
EntryOf(o) ==
    CASE o.op = "second" -> [callback |-> o.callback, nextSecond |-> o.second,
                             fireTime |-> TimeAfter(o.second)]
      [] o.op = "time"   -> [callback |-> o.callback, nextSecond |-> 0, fireTime |-> o.fireTime]
      [] o.op = "sensor" -> [callback |-> o.callback, type |-> o.type, value |-> o.value,
                             expr |-> o.expr, lastResult |-> FALSE]

ListOf(o) == CASE o.op = "second" -> o.list [] o.op = "time" -> "at" [] o.op = "sensor" -> "sensor"

(* ... and runs the closures in their order, with no other thread able to  *)
(* look at the list before it is cleared: each is dropped as it returns.   *)
Closure == Head(queue)
Running(ops) == pc = "drain" /\ queue # <<>> /\ Closure.op \in ops

RunAppend ==
    /\ Running({"second", "time", "sensor"})
    /\ lists' = [lists EXCEPT ![ListOf(Closure)] = Append(@, EntryOf(Closure))]
    /\ queue' = Tail(queue)
    /\ UNCHANGED <<clock, sensor>> /\ UNCHANGED thread /\ UNCHANGED history

RunUpdate ==
    /\ Running({"update"})
    /\ sensor' = Closure.reading
    /\ queue' = Tail(queue)
    /\ UNCHANGED <<clock, lists>> /\ UNCHANGED thread /\ UNCHANGED history

Listed(c) == \E l \in ListNames : \E j \in 1..Len(lists[l]) : lists[l][j].callback = c

(* erase(ite), for an element of the callback that the walk over the three *)
(* lists meets.                                                            *)
RemoveErase ==
    /\ Running({"remove"})
    /\ \E l \in ListNames : \E j \in 1..Len(lists[l]) :
          /\ lists[l][j].callback = Closure.callback
          /\ lists' = [lists EXCEPT ![l] = RemoveAt(@, j)]
    /\ UNCHANGED <<clock, queue, sensor>> /\ UNCHANGED thread /\ UNCHANGED history

(* RemoveCallbackLow returns when none is left.                            *)
RemoveReturns ==
    /\ Running({"remove"})
    /\ ~ Listed(Closure.callback)
    /\ gone' = gone \cup {Closure.callback}
    /\ queue' = Tail(queue)
    /\ UNCHANGED <<clock, lists, sensor, request, asked, fires, late>> /\ UNCHANGED thread

RemoveCallbackLow == RemoveErase \/ RemoveReturns

(* updatelock is released; now = time(NULL).                               *)
DrainEnds ==
    /\ pc = "drain"
    /\ queue = <<>>
    /\ now' = clock
    /\ pc' = "walk"
    /\ UNCHANGED <<clock, queue, lists, sensor, list, it, firing>> /\ UNCHANGED history

checkExpr(expr, a, b) ==
    CASE expr = "equal"     -> a = b
      [] expr = "not"       -> a # b
      [] expr = "greater"   -> a > b
      [] expr = "less"      -> a < b
      [] expr = "greatereq" -> a >= b
      [] expr = "lesseq"    -> a <= b
      [] OTHER              -> FALSE

(* Mutant of Due: a sensor condition is met again and again.               *)
DueAgain(e) == IF list = "sensor" THEN checkExpr(e.expr, sensor[e.type], e.value)
                                  ELSE now >= BadTime /\ now >= e.fireTime

(* Is the element that the iterator denotes to be fired?                   *)
Due(e) == IF list = "sensor" THEN ~ e.lastResult /\ checkExpr(e.expr, sensor[e.type], e.value)
                             ELSE now >= BadTime /\ now >= e.fireTime

OneMore(n) == IF n < 2 THEN n + 1 ELSE 2

(* The three for loops: on to the next element that is due ...             *)
WalkToDue ==
    /\ pc = "walk"
    /\ \E j \in it..Len(lists[list]) :
          /\ Due(lists[list][j]) /\ \A i \in it..(j - 1) : ~ Due(lists[list][i])
          /\ it' = j
          /\ LET c == lists[list][j].callback
             IN  /\ firing' = c
                 /\ fires' = [fires EXCEPT ![c] = OneMore(@)]
                 /\ late' = IF c \in asked THEN [late EXCEPT ![c] = OneMore(@)] ELSE late
          /\ lists' = IF list = "sensor" THEN [lists EXCEPT !["sensor"][j].lastResult = TRUE]
                                         ELSE lists
    /\ pc' = "fire"
    /\ UNCHANGED <<clock, queue, sensor, list, now, request, asked, gone>>

(* ... or to the next list, when none is, or to the sleep of one second.   *)
WalkOn ==
    /\ pc = "walk"
    /\ \A j \in it..Len(lists[list]) : ~ Due(lists[list][j])
    /\ IF list = "sensor"
         THEN pc' = "sleep" /\ UNCHANGED <<list, it>>
         ELSE list' = (IF list = "cron" THEN "at" ELSE "sensor") /\ it' = 1 /\ UNCHANGED pc
    /\ UNCHANGED <<clock, queue, lists, sensor, now, firing>> /\ UNCHANGED history

(* FireTrigger comes back, when the callback has ended or has thrown: an   *)
(* interval is extended, a timeout erased.                                 *)
FireReturns ==
    /\ pc = "fire"
    /\ pc' = "walk" /\ firing' = NoCallback
    /\ \/ /\ list = "cron"
          /\ lists' = [lists EXCEPT !["cron"][it].fireTime = TimeAfter(lists["cron"][it].nextSecond)]
          /\ it' = it + 1
       \/ list = "at" /\ lists' = [lists EXCEPT !["at"] = RemoveAt(@, it)] /\ UNCHANGED it
       \/ list = "sensor" /\ it' = it + 1 /\ UNCHANGED lists
    /\ UNCHANGED <<clock, queue, sensor, list, now>> /\ UNCHANGED history

(* Mutant of SecSleepEx: the pass begins with the lists as they are.       *)
SleepNoDrain ==
    /\ pc = "sleep"
    /\ pc' = "walk" /\ list' = "cron" /\ it' = 1 /\ now' = clock
    /\ UNCHANGED <<clock, queue, lists, sensor, firing>> /\ UNCHANGED history

SecSleepEx ==
    /\ pc = "sleep"
    /\ pc' = "begin"
    /\ UNCHANGED <<clock, queue, lists, sensor, list, it, now, firing>> /\ UNCHANGED history

-----------------------------------------------------------------------------
(* Time goes on, or the clock is set, forwards.                            *)
Tick == /\ \E t \in (clock + 1)..MaxClock : clock' = t
        /\ UNCHANGED <<queue, lists, sensor>> /\ UNCHANGED thread /\ UNCHANGED history

Drain == BeginPass \/ RunAppend \/ RunUpdate \/ RemoveCallbackLow \/ DrainEnds

TriggerThread == Drain \/ WalkToDue \/ WalkOn \/ FireReturns \/ SecSleepEx

Next == \/ TriggerThread
        \/ Tick
        \/ \E c \in Callbacks, n \in Seconds, isAutoInterval \in BOOLEAN :
              AppendNextSecondTrigger(c, n, isAutoInterval)
        \/ \E c \in Callbacks, t \in Dates : AppendNextTimeTrigger(c, t)
        \/ \E c \in Callbacks, t \in Types, v \in Values, x \in Exprs :
              AppendSensorCallbackableTrigger(c, t, v, x)
        \/ \E r \in [Types -> Values] : OnSensorUpdate(r)
        \/ \E c \in Callbacks : RemoveCallbackDelay(c)

Spec == Init /\ [][Next]_vars

(* The thread runs, its callbacks come back, and time goes on.             *)
FairSpec == Spec /\ WF_vars(TriggerThread) /\ WF_vars(Tick)

-----------------------------------------------------------------------------
(* Properties.                                                             *)

Registers(o, c) == o.op \in {"second", "time", "sensor"} /\ o.callback = c
Pending(c) == \E q \in 1..Len(queue) : Registers(queue[q], c)

(* While a callback runs, the iterator still denotes its element, whatever *)
(* timers the callback or the other threads add or remove meanwhile: the   *)
(* element is used and erased after the call (Trigger.cpp:51-55, 159-218). *)
IteratorValid ==
    pc = "fire" => it <= Len(lists[list]) /\ lists[list][it].callback = firing

(* A removed callback is in no list and is never registered or fired       *)
(* again: a removal is run after the registration it is about, although    *)
(* both are deferred (Trigger.cpp:150-154, 257-309).                       *)
RemovedForGood == \A c \in gone : ~ Listed(c) /\ ~ Pending(c) /\ firing # c

(* After clearTimeout or a reload has returned, the callback is fired at   *)
(* most once more, by the pass that is under way (Trigger.cpp:145-155).    *)
AtMostOnceAfterRemove == \A c \in Callbacks : late[c] <= 1

(* A timeout, a date and a sensor condition fire once and for all; only an *)
(* interval is repeated (Trigger.cpp:183-189, 198-216).                    *)
OneShot == \A c \in Callbacks : fires[c] > 1 => request[c].list = "cron"

(* A timer never fires before the delay its caller asked for has passed on *)
(* the wall clock, nor before the clock was set, although the delay is     *)
(* only added when the closure is run (Trigger.cpp:62, 72, 161, 176).      *)
NotTooEarly ==
    firing # NoCallback /\ list # "sensor" => clock >= request[firing].from /\ clock >= BadTime

(* A date is fired or removed, however many closures arrive in the         *)
(* meantime (Trigger.cpp:141-222). A date is within the bound on the clock. *)
DateIsFired ==
    \A c \in Callbacks, t \in Dates :
        (\E q \in 1..Len(queue) : queue[q] = [op |-> "time", callback |-> c, fireTime |-> t])
            ~> (fires[c] > 0 \/ c \in gone)
=============================================================================
