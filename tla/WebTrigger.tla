----------------------------- MODULE WebTrigger -----------------------------
(***************************************************************************)
(* The triggers of the settings page (ScriptWebRunnerTrigger): every       *)
(* enabled trigger, and the sleep timer of an appliance, is registered     *)
(* with the Trigger component. A date is registered for one firing; its    *)
(* callback registers the next one. ReloadTrigger takes all registrations  *)
(* back and makes them anew. It is called by web workers after a change of *)
(* the settings and, when an action sets the sleep timer, by whichever     *)
(* thread runs the action: the trigger thread too, inside a callback.      *)
(*                                                                         *)
(* Trigger (module Trigger) is seen through its interface: appends and     *)
(* removals are queued and its thread carries them out one by one; a       *)
(* registered date fires once, at some time. Hours and days are left out.  *)
(* Of an ObjectID only its being a new one matters: what is registered     *)
(* together is told apart by what it is for.                               *)
(***************************************************************************)
EXTENDS Integers, Sequences

CONSTANTS Triggers,     \* keys of configured date triggers
          Timer,        \* stands for the sleep timer
          Workers,      \* web workers
          MaxIds,       \* bound on how often CallbackPP objects are made
          MaxSets       \* bound on the changes of the settings

ASSUME WebTriggerAssumption == /\ Timer \notin Triggers
                               /\ "triggerThread" \notin Workers
                               /\ MaxIds \in Nat \ {0} /\ MaxSets \in Nat

VARIABLES conf,         \* trigger_N_enable and trigger_N_if_date_loop_use
          firetime,     \* elec_N_timer_firetime is set
          callbackList, \* CallbackList
          ids,          \* how often CallbackPP objects were made
          queue, regs,  \* Trigger: its ASyncFunctionList and its lists
          pc,           \* of the trigger thread and of the workers
          self,         \* the trigger whose callback runs
          loop_use,     \* its local variable
          changes,      \* how often the settings were changed
          sets, execs,  \* how often the sleep timer was set, and executed
          excused       \* triggers that were switched, or whose weather script failed

vars == <<conf, firetime, callbackList, ids, queue, regs, pc, self, loop_use, changes, sets, execs, excused>>

TriggerThread == "triggerThread"
Threads == Workers \cup {TriggerThread}
Whats == Triggers \cup {Timer}
Conf == [enable : BOOLEAN, loop : BOOLEAN, present : BOOLEAN]
Absent == [enable |-> FALSE, loop |-> FALSE, present |-> FALSE]
Callback == [id : 1..MaxIds, what : Whats]
Closure == [op : {"append", "remove"}, callbacks : SUBSET Callback]

TypeOK == /\ conf \in [Triggers -> Conf] /\ firetime \in BOOLEAN
          /\ callbackList \subseteq Callback /\ regs \subseteq callbackList
          /\ queue \in Seq(Closure)
          /\ ids \in 1..MaxIds
          /\ \A c \in callbackList : c.id <= ids
          /\ pc \in [Threads -> {"idle", "drain", "remove", "register", "check", "fire", "after", "next",
                                 "timer", "dotimer"}]
          /\ \A w \in Workers : pc[w] \in {"idle", "remove", "register"}
          /\ self \in Whats /\ loop_use \in BOOLEAN
          /\ changes \in 0..MaxSets /\ sets \in 0..(MaxSets + 1) /\ execs \in 0..(MaxSets + 1)
          /\ excused \subseteq Triggers

Enabled == {k \in Triggers : conf[k].present /\ conf[k].enable}
ToRegister == Enabled \cup IF firetime THEN {Timer} ELSE {}
New(n, whats) == {[id |-> n, what |-> k] : k \in whats}

(* ScriptWebRunner::Create has registered what is configured.              *)
Init == /\ conf \in [Triggers -> {c \in Conf : c.present}] /\ firetime \in BOOLEAN
        /\ ids = 1 /\ queue = <<>>
        /\ callbackList = New(1, ToRegister) /\ regs = callbackList
        /\ pc = [t \in Threads |-> "idle"]
        /\ self = Timer /\ loop_use = FALSE
        /\ changes = 0 /\ sets = (IF firetime THEN 1 ELSE 0) /\ execs = 0
        /\ excused = {}

Goto(t, label) == pc' = [pc EXCEPT ![t] = label]

-----------------------------------------------------------------------------
(* The closures of ASyncFunctionList, which nobody can reach while the     *)
(* trigger thread runs them.                                               *)
Defer(o) == pc[TriggerThread] # "drain" /\ queue' = Append(queue, o)

(* Mutant of NewCallbacks: CallbackList is not told of them.               *)
NewCallbacksUnlisted(whats) ==
    IF whats = {} THEN UNCHANGED <<ids, callbackList, queue>>
    ELSE /\ ids < MaxIds /\ ids' = ids + 1
         /\ callbackList' = callbackList
         /\ Defer([op |-> "append", callbacks |-> New(ids + 1, whats)])

(* NewCallback and the append to Trigger, for a set of triggers.           *)
NewCallbacks(whats) ==
    IF whats = {} THEN UNCHANGED <<ids, callbackList, queue>>
    ELSE /\ ids < MaxIds /\ ids' = ids + 1
         /\ callbackList' = callbackList \cup New(ids + 1, whats)
         /\ Defer([op |-> "append", callbacks |-> New(ids + 1, whats)])

-----------------------------------------------------------------------------
(* ReloadTrigger, on any thread.                                           *)

(* Everything that was ever registered is taken back; the list stays.      *)
ReloadRemove(t) ==
    /\ pc[t] = "remove" /\ Goto(t, "register")
    /\ Defer([op |-> "remove", callbacks |-> callbackList])
    /\ UNCHANGED <<conf, firetime, callbackList, ids, regs, self, loop_use, changes, sets, execs, excused>>

(* Mutant of ReloadRegister: the sleep timer is left out.                  *)
ReloadRegisterDates(t) ==
    /\ pc[t] = "register"
    /\ NewCallbacks(Enabled)
    /\ Goto(t, IF t = TriggerThread THEN "after" ELSE "idle")
    /\ UNCHANGED <<conf, firetime, regs, self, loop_use, changes, sets, execs, excused>>

(* Then what is enabled now, and the timer if it is set.                   *)
ReloadRegister(t) ==
    /\ pc[t] = "register"
    /\ NewCallbacks(ToRegister)
    /\ Goto(t, IF t = TriggerThread THEN "after" ELSE "idle")
    /\ UNCHANGED <<conf, firetime, regs, self, loop_use, changes, sets, execs, excused>>

-----------------------------------------------------------------------------
(* What web workers change before they reload.                             *)

Change(w) == /\ pc[w] = "idle" /\ changes < MaxSets
             /\ changes' = changes + 1
             /\ Goto(w, "remove")
             /\ UNCHANGED <<callbackList, ids, queue, regs, self, loop_use, execs, excused>>

setting_trigger_update(w, k, loop) ==
    /\ Change(w)
    /\ conf' = [conf EXCEPT ![k] = [enable |-> TRUE, loop |-> loop, present |-> TRUE]]
    /\ UNCHANGED <<firetime, sets>>

setting_trigger_delete(w, k) ==
    /\ Change(w)
    /\ conf' = [conf EXCEPT ![k] = Absent]
    /\ UNCHANGED <<firetime, sets>>

(* The switch on the page of triggers: the triggers are not reloaded.      *)
setting_trigger_enable_change(w, k, enable) ==
    /\ pc[w] = "idle" /\ changes < MaxSets
    /\ changes' = changes + 1
    /\ conf' = [conf EXCEPT ![k].enable = enable, ![k].present = TRUE]
    /\ excused' = excused \cup {k}
    /\ UNCHANGED <<firetime, callbackList, ids, queue, regs, pc, self, loop_use, sets, execs>>

(* An action of the remote control that sets or resets the sleep timer.    *)
run_set_electimer(t, on) ==
    /\ firetime' = on
    /\ sets' = IF on THEN sets + 1 ELSE sets
    /\ UNCHANGED conf

SetTimerByWeb(w, on) == Change(w) /\ run_set_electimer(w, on)

-----------------------------------------------------------------------------
(* The trigger thread.                                                     *)

Apply(r, o) == IF o.op = "append" THEN r \cup o.callbacks ELSE r \ o.callbacks
At(label) == pc[TriggerThread] = label
ThreadGoto(label) == Goto(TriggerThread, label)
SettingsKept == UNCHANGED <<conf, firetime, changes, sets, execs, excused>>
TriggerKept == UNCHANGED <<callbackList, ids, queue, regs>>

(* The head of a pass runs the closures in their order, all of them.       *)
Drain == /\ pc[TriggerThread] \in {"idle", "drain"} /\ queue # <<>>
         /\ regs' = Apply(regs, Head(queue)) /\ queue' = Tail(queue)
         /\ ThreadGoto(IF Tail(queue) = <<>> THEN "idle" ELSE "drain")
         /\ UNCHANGED <<callbackList, ids, self, loop_use>> /\ SettingsKept

(* FireTrigger takes the entry off its list and calls the callback.        *)
FireTrigger(c) ==
    /\ At("idle") /\ c \in regs
    /\ regs' = regs \ {c} /\ self' = c.what
    /\ ThreadGoto(IF c.what = Timer THEN "timer" ELSE "check")
    /\ loop_use' = (c.what # Timer /\ conf[c.what].loop)
    /\ UNCHANGED <<callbackList, ids, queue>> /\ SettingsKept

(* Mutant of WrongDay: a callback of another day of the week just returns. *)
WrongDayReturn == /\ At("check") /\ loop_use
                  /\ ThreadGoto("idle")
                  /\ TriggerKept /\ SettingsKept /\ UNCHANGED <<self, loop_use>>

(* Not a day for this trigger: only the next firing is registered.         *)
WrongDay == /\ At("check") /\ loop_use
            /\ ThreadGoto("next")
            /\ TriggerKept /\ SettingsKept /\ UNCHANGED <<self, loop_use>>

(* triggerCheckExIf: it must still be enabled; the further conditions      *)
(* hold, or do not.                                                        *)
triggerCheckExIf == /\ At("check")
                    /\ \/ self \in Enabled /\ ThreadGoto("fire")
                       \/ ThreadGoto("after")
                    /\ TriggerKept /\ SettingsKept /\ UNCHANGED <<self, loop_use>>

(* Or the script of the weather condition fails, and its exception leaves  *)
(* the callback; FireTrigger logs it.                                      *)
WeatherFails == /\ At("check") /\ self \in Enabled
                /\ ThreadGoto("idle")
                /\ excused' = excused \cup {self}
                /\ TriggerKept /\ UNCHANGED <<conf, firetime, changes, sets, execs, self, loop_use>>

(* triggerFire: speech, music, commands and macros change nothing here.    *)
triggerFire == /\ At("fire") /\ ThreadGoto("after")
               /\ TriggerKept /\ SettingsKept /\ UNCHANGED <<self, loop_use>>

(* Unless an action of its macro sets or resets the sleep timer, and       *)
(* reloads the triggers while this callback runs.                          *)
SetTimerByMacro(on) ==
    /\ At("fire") /\ changes < MaxSets /\ changes' = changes + 1
    /\ run_set_electimer(TriggerThread, on)
    /\ ThreadGoto("remove")
    /\ TriggerKept /\ UNCHANGED <<self, loop_use, execs, excused>>

(* The end of a callback: a trigger that does not repeat is disabled; the  *)
(* key is written also when the trigger was deleted meanwhile.             *)
AfterFire ==
    /\ At("after")
    /\ ThreadGoto(IF loop_use THEN "next" ELSE "idle")
    /\ conf' = IF loop_use \/ self = Timer THEN conf
               ELSE [conf EXCEPT ![self].enable = FALSE, ![self].present = TRUE]
    /\ TriggerKept /\ UNCHANGED <<firetime, self, loop_use, changes, sets, execs, excused>>

RegisterNext == /\ At("next") /\ ThreadGoto("idle")
                /\ NewCallbacks({self})
                /\ SettingsKept /\ UNCHANGED <<regs, self, loop_use>>

(* triggerFireElecTimerCallbackFunction: nothing, if firetime is no longer *)
(* set.                                                                    *)
ElecTimerCheck ==
    /\ At("timer")
    /\ ThreadGoto(IF firetime THEN "dotimer" ELSE "idle")
    /\ TriggerKept /\ SettingsKept /\ UNCHANGED <<self, loop_use>>

(* Mutant of ElecTimerFire: firetime stays, for the next registration too. *)
ElecTimerFireKeep ==
    /\ At("dotimer") /\ ThreadGoto("fire")
    /\ firetime' = firetime /\ execs' = execs + 1
    /\ TriggerKept /\ UNCHANGED <<conf, self, loop_use, changes, sets, excused>>

(* Else it is removed, whatever it is now, and the timer's action fired.   *)
ElecTimerFire ==
    /\ At("dotimer") /\ ThreadGoto("fire")
    /\ firetime' = FALSE /\ execs' = execs + 1
    /\ TriggerKept /\ UNCHANGED <<conf, self, loop_use, changes, sets, excused>>

Reload(t) == ReloadRemove(t) \/ ReloadRegister(t)
Next == \/ \E t \in Threads : Reload(t)
        \/ \E w \in Workers, k \in Triggers : \/ \E l \in BOOLEAN : setting_trigger_update(w, k, l)
                                              \/ \E e \in BOOLEAN : setting_trigger_enable_change(w, k, e)
                                              \/ setting_trigger_delete(w, k)
        \/ \E on \in BOOLEAN : \/ \E w \in Workers : SetTimerByWeb(w, on)
                               \/ SetTimerByMacro(on)
        \/ \E c \in regs : FireTrigger(c)
        \/ Drain \/ WrongDay \/ triggerCheckExIf \/ WeatherFails \/ triggerFire
        \/ AfterFire \/ RegisterNext \/ ElecTimerCheck \/ ElecTimerFire

Spec == Init /\ [][Next]_vars

-----------------------------------------------------------------------------
AtRest == \A t \in Threads : pc[t] = "idle"

(* A registration that is in a list, or will be once the closures are run. *)
RemovedFrom(c, n) ==
    \E q \in n..Len(queue) : queue[q].op = "remove" /\ c \in queue[q].callbacks
IsLive(c) ==
    \/ c \in regs /\ ~ RemovedFrom(c, 1)
    \/ \E p \in 1..Len(queue) :
          queue[p].op = "append" /\ c \in queue[p].callbacks /\ ~ RemovedFrom(c, p + 1)
HasLive(k) == \E c \in callbackList : c.what = k /\ IsLive(c)

(* The sleep timer is executed at most once for every time it is set, in   *)
(* spite of registrations made twice, reloads and resets at any moment     *)
(* (ScriptWebRunnerTrigger.cpp:677-686).                                   *)
ElecTimerOnce == execs <= sets

(* A timer that is set is registered once no thread is at work: a reload   *)
(* never loses it (ScriptWebRunnerTrigger.cpp:122-157).                    *)
TimerKept == AtRest /\ firetime => HasLive(Timer)

(* ScriptWebRunnerTrigger.cpp:207-220: a trigger that repeats and is       *)
(* enabled has its next firing registered once no thread is at work,       *)
(* whatever was saved, deleted or fired meanwhile: unless it was switched, *)
(* which reloads nothing, or its weather script failed, which ends the     *)
(* callback before 207.                                                    *)
RepeatKept == AtRest => \A k \in Enabled \ excused : conf[k].loop => HasLive(k)
=============================================================================
