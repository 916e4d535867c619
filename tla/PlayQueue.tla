----------------------------- MODULE PlayQueue -----------------------------
(***************************************************************************)
(* What a sound queue of the program promises: what is accepted is played  *)
(* once, one at a time and in the order it was accepted, unless the queue  *)
(* is thrown away with its engine. Speech and MusicPlayer implement it.    *)
(***************************************************************************)
EXTENDS Sequences

CONSTANTS Tasks, NoTask

VARIABLES waiting,   \* accepted and not begun
          playing,   \* what is being played
          played     \* what was played to its end, in that order

qvars == <<waiting, playing, played>>

QInit == waiting = <<>> /\ playing = NoTask /\ played = <<>>

Accept(t) == waiting' = Append(waiting, t) /\ UNCHANGED <<playing, played>>

Begin == /\ waiting # <<>> /\ playing = NoTask
         /\ playing' = Head(waiting) /\ waiting' = Tail(waiting)
         /\ UNCHANGED played

End == /\ playing # NoTask
       /\ playing' = NoTask /\ played' = Append(played, playing)
       /\ UNCHANGED waiting

(* The engine is deleted, between two tasks.                               *)
ThrowAway == /\ playing = NoTask
             /\ waiting' = <<>> /\ UNCHANGED <<playing, played>>

QNext == (\E t \in Tasks : Accept(t)) \/ Begin \/ End \/ ThrowAway

QSpec == QInit /\ [][QNext]_qvars
=============================================================================
