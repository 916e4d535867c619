------------------------------- MODULE Macro -------------------------------
(***************************************************************************)
(* Macros: actions of appliances that run other actions (Fire.cpp), and    *)
(* the web handler that saves them (remocon_update_elec_action). Two       *)
(* limits guard against macros that contain each other: check_macroE,      *)
(* which the handler asks before it saves, and nestcount, which            *)
(* run_macroE counts while a macro runs. Both count against                *)
(* NAICHICHI_MACRO_MAX_CALLCOUNT.                                          *)
(*                                                                         *)
(* One thread runs a macro while web workers save and delete actions. An   *)
(* entry is the action it names; waits between two entries and what an     *)
(* action sends are left out. The entries of an action that is not a macro *)
(* are never read, and are empty here.                                     *)
(***************************************************************************)
EXTENDS Integers, Sequences, SequencesExt

CONSTANTS Actions,       \* pairs of an appliance and an action
          None,          \* an entry set to "none"
          MaxCallCount,  \* NAICHICHI_MACRO_MAX_CALLCOUNT
          MaxEntries,    \* the entries of a macro, nine in the program
          MaxDepth,      \* bound on the depth of the C++ stack
          MaxEdits       \* bound on the saves and deletions during one run

VARIABLES settings,      \* what is saved for each action
          stack,         \* the run_macroE calls, each with the entries it has left
          count,         \* *nestcount
          outcome,       \* of the macro that runs or ran last
          accepted,      \* the check accepted it, with the settings it began with
          edits          \* how often they were changed while it ran

vars == <<settings, stack, count, outcome, accepted, edits>>

Entries == SeqOf(Actions \cup {None}, MaxEntries)
Absent == [flag |-> "absent", entries |-> <<>>]
Setting == [flag : {"command", "absent"}, entries : {<<>>}] \cup [flag : {"macro"}, entries : Entries]

TypeOK == /\ \A a \in Actions : settings[a] \in Setting
          /\ Len(stack) <= MaxDepth /\ \A d \in 1..Len(stack) : stack[d] \in Entries
          /\ count \in 0..MaxCallCount
          /\ outcome \in {"none", "running", "done", "thrown"}
          /\ outcome # "running" => stack = <<>>
          /\ accepted \in BOOLEAN /\ edits \in 0..MaxEdits

Init == /\ settings = [a \in Actions |-> Absent]
        /\ stack = <<>> /\ count = 0 /\ outcome = "none"
        /\ accepted = FALSE /\ edits = 0

-----------------------------------------------------------------------------
(* The check of the web handler. It answers the count it ended with, or    *)
(* TooMany.                                                                *)

TooMany == MaxCallCount + 1

(* The action e is counted, and if it is a macro, its entries as after     *)
(* says; one that is not found (type2key fails, also for "none") is        *)
(* accepted without a count.                                               *)
CheckAction(acts, after, e, m) ==
    IF m = TooMany \/ e = None \/ acts[e].flag = "absent" THEN m
    ELSE IF acts[e].flag # "macro" \/ m + 1 = TooMany THEN m + 1
    ELSE after[<<m + 1, acts[e].entries>>]

(* The loop over the entries of a macro: each is counted before it is      *)
(* checked, and counted again.                                             *)
Counts(acts) ==
    LET after[x \in (0..TooMany) \X Entries] ==
          LET m == x[1]
              e == Head(x[2])
          IN  IF m = TooMany \/ x[2] = <<>> THEN m
              ELSE after[<<IF e = None THEN m ELSE CheckAction(acts, after, e, m + 1), Tail(x[2])>>]
    IN  after

(* Mutant of check_macroE: it does not follow the macros it meets.         *)
check_macroEShallow(acts, e, m) ==
    IF m = TooMany \/ e = None \/ acts[e].flag = "absent" THEN m ELSE m + 1

check_macroE(acts, e, m) == CheckAction(acts, Counts(acts), e, m)

(* The nine checks of the handler share one count: t[i] after the i-th.    *)
CheckEntries(acts, es) ==
    LET t[i \in 0..Len(es)] == IF i = 0 THEN 0 ELSE check_macroE(acts, es[i], t[i - 1])
    IN  t[Len(es)] # TooMany

Edited == \/ outcome # "running" /\ UNCHANGED edits
          \/ outcome = "running" /\ edits < MaxEdits /\ edits' = edits + 1

(* A macro is checked against the settings as they are before it is saved. *)
remocon_update_elec_action(a, s) ==
    /\ s.flag # "absent"
    /\ s.flag = "macro" => CheckEntries(settings, s.entries)
    /\ settings' = [settings EXCEPT ![a] = s]
    /\ Edited
    /\ UNCHANGED <<stack, count, outcome, accepted>>

remocon_delete_elec_action(a) ==
    /\ settings[a] # Absent
    /\ settings' = [settings EXCEPT ![a] = Absent]
    /\ Edited
    /\ UNCHANGED <<stack, count, outcome, accepted>>

-----------------------------------------------------------------------------
(* A run.                                                                  *)

(* All that a macro names is there: no entry was deleted under it.         *)
Complete == \A a, b \in Actions :
                (settings[b] = Absent) => \A i \in 1..Len(settings[a].entries) : settings[a].entries[i] # b

(* What the check would say of the saved macro today.                      *)
Accepted(a) == CheckEntries(settings, settings[a].entries) /\ Complete

(* FireAction starts with nestcount 0, the macro of a trigger with 1.      *)
FireAction(a, n) == /\ outcome # "running" /\ settings[a].flag = "macro"
                    /\ stack' = <<settings[a].entries>>
                    /\ count' = n
                    /\ outcome' = "running"
                    /\ accepted' = Accepted(a) /\ edits' = 0
                    /\ UNCHANGED settings

(* Mutant of Counted: the limit is looked at before the count goes up.     *)
CountedLate(rest) == \/ /\ count > MaxCallCount
                        /\ outcome' = "thrown" /\ stack' = <<>> /\ UNCHANGED count
                     \/ /\ count <= MaxCallCount
                        /\ count' = count + 1 /\ stack' = rest /\ UNCHANGED outcome

(* After an entry: nestcount + 1, and the exception that unwinds them all. *)
Counted(rest) == \/ /\ count + 1 > MaxCallCount
                    /\ outcome' = "thrown" /\ stack' = <<>> /\ UNCHANGED count
                 \/ /\ count + 1 <= MaxCallCount
                    /\ count' = count + 1 /\ stack' = rest /\ UNCHANGED outcome

AfterEntry(d) == [SubSeq(stack, 1, d) EXCEPT ![d] = Tail(@)]
Running == outcome = "running"
AtEntry == Running /\ Last(stack) # <<>>

SkipNone == /\ AtEntry /\ Head(Last(stack)) = None
            /\ stack' = AfterEntry(Len(stack))
            /\ UNCHANGED <<settings, count, outcome, accepted, edits>>

(* An entry that is no macro, names nothing, or is left out because its    *)
(* appliance has that state already (ifnext).                              *)
RunEntry == /\ AtEntry /\ Head(Last(stack)) # None
            /\ Counted(AfterEntry(Len(stack)))
            /\ UNCHANGED <<settings, accepted, edits>>

(* An entry that is a macro: run_macroE calls itself, with the settings of *)
(* now and nestcount as it is.                                             *)
CallMacro == /\ AtEntry /\ Head(Last(stack)) # None
             /\ settings[Head(Last(stack))].flag = "macro"
             /\ Len(stack) < MaxDepth
             /\ stack' = Append(stack, settings[Head(Last(stack))].entries)
             /\ UNCHANGED <<settings, count, outcome, accepted, edits>>

ReturnMacro == /\ Running /\ Last(stack) = <<>> /\ Len(stack) > 1
               /\ Counted(AfterEntry(Len(stack) - 1))
               /\ UNCHANGED <<settings, accepted, edits>>

MacroEnd == /\ Running /\ Last(stack) = <<>> /\ Len(stack) = 1
            /\ stack' = <<>> /\ outcome' = "done"
            /\ UNCHANGED <<settings, count, accepted, edits>>

Runner == SkipNone \/ RunEntry \/ CallMacro \/ ReturnMacro \/ MacroEnd

Next == \/ \E a \in Actions, s \in Setting : remocon_update_elec_action(a, s)
        \/ \E a \in Actions : remocon_delete_elec_action(a)
        \/ \E a \in Actions, n \in {0, 1} : FireAction(a, n)
        \/ Runner

Spec == Init /\ [][Next]_vars

-----------------------------------------------------------------------------
Vouched == accepted /\ edits = 0

(* A macro that check_macroE accepts with the settings of today is never   *)
(* cut off by the limit of run_macroE (Fire.cpp:452): what may be saved    *)
(* may be run, although the two count differently.                         *)
AcceptedRuns == Vouched => outcome # "thrown"

(* Nor does it nest deeper than the limit (Fire.cpp:431): the C++ stack    *)
(* that the recursion of run_macroE needs is bounded for it.               *)
AcceptedDepth == Vouched => Len(stack) <= MaxCallCount
=============================================================================
