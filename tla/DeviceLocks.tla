---------------------------- MODULE DeviceLocks ----------------------------
(***************************************************************************)
(* The extension board (CapeBord_IRR) has an infrared transmitter and      *)
(* receiver, a thermometer and a light sensor. Its updatelock serialises   *)
(* all uses. Learning a code (Capture) keeps it while a program runs on    *)
(* the main thread, by SyncInvoke, since the recognition engine must be    *)
(* still. Sensor_Factory::getSensorNow has a lock of its own, which it     *)
(* keeps while it reads the sensors.                                       *)
(*                                                                         *)
(* Web workers learn, transmit and read; the sensor thread reads; a script *)
(* that runs on the main thread may transmit and read too. The main thread *)
(* is seen through MainThreadQueue: it runs invoked functions in order,    *)
(* between scripts.                                                        *)
(***************************************************************************)
EXTENDS Sequences, SequencesExt

CONSTANT Workers       \* web workers

VARIABLES pc,          \* what each thread does
          updatelock,  \* who has CapeBord_IRR::updatelock
          lock,        \* who has Sensor_Factory::lock
          queue        \* workers in SyncInvoke

vars == <<pc, updatelock, lock, queue>>

Main == "mainThread"
SensorThread == "sensorThread"
Threads == Workers \cup {Main, SensorThread}
Nobody == "nobody"
Owners == Threads \cup {Nobody}

TypeOK == /\ pc \in [Threads -> {"idle", "capture", "invoke", "invoked", "captured", "capturing",
                                 "radiate", "radiating", "sensor", "temp", "gettemp", "lumi",
                                 "getlumi", "write", "writing"}]
          /\ updatelock \in Owners /\ lock \in Owners
          /\ ToSet(queue) = {w \in Workers : pc[w] = "invoked"} /\ Len(queue) <= 1

Init == /\ pc = [t \in Threads |-> "idle"]
        /\ updatelock = Nobody /\ lock = Nobody /\ queue = <<>>

Step(t, from, to) == pc[t] = from /\ pc' = [pc EXCEPT ![t] = to]

-----------------------------------------------------------------------------
(* What begins: a request of a web page, a round of the sensor thread, a   *)
(* script on the main thread when the pump calls one.                      *)

remocon_ir_leaning(w) == Step(w, "idle", "capture") /\ UNCHANGED <<updatelock, lock, queue>>

remocon_ir_fire(t) == /\ t # SensorThread
                      /\ Step(t, "idle", "radiate") /\ UNCHANGED <<updatelock, lock, queue>>

getSensorNow(t) == Step(t, "idle", "sensor") /\ UNCHANGED <<updatelock, lock, queue>>

-----------------------------------------------------------------------------
(* Sensor_Factory::getSensorNow: both sensors under lock, then the graphs  *)
(* under lock again.                                                       *)

TakeLock(t) == /\ lock = Nobody /\ lock' = t
               /\ Step(t, "sensor", "temp") \/ Step(t, "write", "writing")
               /\ UNCHANGED <<updatelock, queue>>

SensorsRead(t) == /\ lock = t /\ lock' = Nobody
                  /\ Step(t, "writing", "idle")
                  /\ UNCHANGED <<updatelock, queue>>

(* Everything on the board begins by taking updatelock.                    *)
TakeUpdatelock(t) ==
    /\ updatelock = Nobody /\ updatelock' = t
    /\ \/ Step(t, "temp", "gettemp") \/ Step(t, "lumi", "getlumi")
       \/ Step(t, "radiate", "radiating") \/ Step(t, "capture", "invoke")
    /\ UNCHANGED <<lock, queue>>

(* Mutant of Done: what failed to be transmitted is transmitted again.     *)
DoneRetry(t) ==
    /\ updatelock = t /\ updatelock' = Nobody
    /\ \/ Step(t, "gettemp", "lumi") \/ Step(t, "getlumi", "write")
       \/ Step(t, "radiating", "radiate") \/ Step(t, "captured", "idle")
    /\ lock' = IF pc[t] = "getlumi" THEN Nobody ELSE lock
    /\ UNCHANGED queue

(* getTemp, getLumi, Radiate and Capture return and release it; after the  *)
(* second sensor getSensorNow releases its lock too.                       *)
Done(t) ==
    /\ updatelock = t /\ updatelock' = Nobody
    /\ \/ Step(t, "gettemp", "lumi") \/ Step(t, "getlumi", "write")
       \/ Step(t, "radiating", "idle") \/ Step(t, "captured", "idle")
    /\ lock' = IF pc[t] = "getlumi" THEN Nobody ELSE lock
    /\ UNCHANGED queue

-----------------------------------------------------------------------------
(* Mutant of Invoke: updatelock is released for the time of the call.      *)
InvokeUnlocked(w) == /\ Step(w, "invoke", "invoked")
                     /\ queue' = Append(queue, w)
                     /\ updatelock' = Nobody
                     /\ UNCHANGED lock

(* Capture: SyncInvoke with updatelock held.                               *)
Invoke(w) == /\ Step(w, "invoke", "invoked")
             /\ queue' = Append(queue, w)
             /\ UNCHANGED <<updatelock, lock>>

(* The main thread runs the program, and the worker's SyncInvoke returns.  *)
RunInvoked == /\ queue # <<>> /\ Step(Main, "idle", "capturing")
              /\ UNCHANGED <<updatelock, lock, queue>>

InvokedEnds == /\ pc[Main] = "capturing"
               /\ pc' = [pc EXCEPT ![Main] = "idle", ![Head(queue)] = "captured"]
               /\ queue' = Tail(queue)
               /\ UNCHANGED <<updatelock, lock>>

Run(t) == SensorsRead(t) \/ Done(t) \/ (t \in Workers /\ Invoke(t))

Next == \/ \E w \in Workers : remocon_ir_leaning(w)
        \/ \E t \in Threads : \/ remocon_ir_fire(t) \/ getSensorNow(t)
                              \/ TakeLock(t) \/ TakeUpdatelock(t) \/ Run(t)
        \/ RunInvoked \/ InvokedEnds

Spec == Init /\ [][Next]_vars

(* The threads run, the main thread gets to what is queued, and a mutex    *)
(* that becomes free again and again is got in the end.                    *)
Fairness == /\ \A t \in Threads : WF_vars(Run(t)) /\ SF_vars(TakeLock(t)) /\ SF_vars(TakeUpdatelock(t))
            /\ SF_vars(RunInvoked) /\ WF_vars(InvokedEnds)

FairSpec == Spec /\ Fairness

-----------------------------------------------------------------------------
(* While the learning program runs on the main thread nobody transmits or  *)
(* reads sensors: updatelock, held by the thread that waits, protects what *)
(* another thread does (CapeBord_IRR.cpp:66-78).                           *)
CaptureAlone == pc[Main] = "capturing"
                => \A t \in Threads : pc[t] \notin {"radiating", "gettemp", "getlumi", "captured"}

(* Whoever uses the board gets it and returns, although two locks and the  *)
(* main thread are waited for: unless a script on the main thread waits    *)
(* for the board while a capture waits for the main thread                 *)
(* (CapeBord_IRR.cpp:44-111, Sensor_Factory.cpp:216-291).                  *)
ScriptMeetsCapture == queue # <<>> /\ pc[Main] \notin {"idle", "capturing"}
EveryoneReturns == \A t \in Threads : pc[t] # "idle" ~> (pc[t] = "idle" \/ ScriptMeetsCapture)
=============================================================================
