-------------------------- MODULE MainThreadQueue --------------------------
(***************************************************************************)
(* What MainWindow::SyncInvoke and AsyncInvoke promise the other threads   *)
(* of the home controller, with the message pump, its mutex and its        *)
(* promises left out: one first-in first-out queue of functions that the   *)
(* main thread executes, and callers that may block until theirs has run.  *)
(***************************************************************************)
EXTENDS Integers, Sequences

CONSTANTS Threads,      \* the threads that call SyncInvoke / AsyncInvoke
          MaxCalls      \* bound on the calls a thread makes

VARIABLES pending,      \* functions submitted and not executed, oldest first
          executed,     \* functions executed, in order
          blocked       \* blocked[t]: the call t waits for, 0 when it waits for none

vars == <<pending, executed, blocked>>

Ids == Threads \X (1..MaxCalls)

Occurs(s, id) == \E i \in 1..Len(s) : s[i] = id

Init == /\ pending = <<>>
        /\ executed = <<>>
        /\ blocked = [t \in Threads |-> 0]

(* A thread numbers its calls upwards, so a function is submitted once.    *)
Newer(t, n, s) == \A i \in 1..Len(s) : s[i][1] = t => s[i][2] < n

Submit(t, n, wait) ==
    /\ blocked[t] = 0
    /\ Newer(t, n, pending) /\ Newer(t, n, executed)
    /\ pending' = Append(pending, <<t, n>>)
    /\ blocked' = [blocked EXCEPT ![t] = IF wait THEN n ELSE 0]
    /\ UNCHANGED executed

Execute ==
    /\ pending # <<>>
    /\ executed' = Append(executed, Head(pending))
    /\ pending' = Tail(pending)
    /\ UNCHANGED blocked

Return(t) ==
    /\ blocked[t] # 0
    /\ Occurs(executed, <<t, blocked[t]>>)
    /\ blocked' = [blocked EXCEPT ![t] = 0]
    /\ UNCHANGED <<pending, executed>>

Next == \/ \E t \in Threads, n \in 1..MaxCalls, wait \in BOOLEAN : Submit(t, n, wait)
        \/ Execute
        \/ \E t \in Threads : Return(t)

Spec == Init /\ [][Next]_vars
=============================================================================
