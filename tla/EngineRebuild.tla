--------------------------- MODULE EngineRebuild ---------------------------
(***************************************************************************)
(* The message pump together with the recognition engine that one of its   *)
(* functions rebuilds. A web worker hands ReCreateRecognitionEngine or     *)
(* CommitRule to the main thread; there Recognition_JuliusPlus::JuliusStop *)
(* clears the callback table, closes the audio stream and joins the        *)
(* recognition thread, inside a handler and so with MainWindow::Lock held. *)
(* The recognition thread itself calls SyncInvoke from its result callback *)
(* (OnOutputResult, ScriptManager::VoiceRecogntion, the registered         *)
(* callback). Speak_Factory::Create and the threads of the speech engines  *)
(* have the same shape.                                                    *)
(***************************************************************************)
EXTENDS MainLoop

CONSTANTS Engine,       \* the recognition thread, one of Threads
          Rebuilder     \* the web worker that has the engine rebuilt, another one

VARIABLES streamOpen,   \* the callback table is set and the stream open
          alive         \* the recognition thread has not ended

engineVars == <<streamOpen, alive>>
allVars == <<vars, engineVars>>

EngineInit == Init /\ streamOpen = TRUE /\ alive = TRUE

(* The message at the pump's iterator asks for a rebuild.                  *)
IsRebuild == queue[idx].from = Rebuilder

(* callback_init and j_close_stream, at the start of JuliusStop.           *)
JuliusStop ==
    /\ BeginHandler
    /\ streamOpen' = (streamOpen /\ ~IsRebuild)
    /\ UNCHANGED alive

(* JuliusThread->join() returns when the thread has ended; JuliusStart     *)
(* then opens a stream and starts a thread.                                *)
JuliusJoinAndStart ==
    /\ EndHandler
    /\ IsRebuild => ~alive
    /\ streamOpen' = (streamOpen \/ IsRebuild)
    /\ alive' = (alive \/ IsRebuild)

(* The recognition thread has a result: the callback calls SyncInvoke.     *)
OnOutputResult == alive /\ streamOpen /\ SyncInvoke(Engine) /\ UNCHANGED engineVars

(* j_recognize_stream returns once the stream is closed.                   *)
StreamEnd ==
    /\ alive /\ ~streamOpen /\ pc[Engine] = "idle"
    /\ alive' = FALSE
    /\ UNCHANGED streamOpen /\ UNCHANGED vars

ReCreateRecognitionEngine == SyncInvoke(Rebuilder) /\ UNCHANGED engineVars

PumpRest == PumpLock \/ SetValue \/ Settle \/ PumpClear

EngineMainStep == \/ (BlockMessageLoop \/ PumpRest) /\ UNCHANGED engineVars
                  \/ JuliusStop
                  \/ JuliusJoinAndStart

EngineNext == \/ EngineMainStep
              \/ OnOutputResult
              \/ StreamEnd
              \/ ReCreateRecognitionEngine
              \/ \E t \in Threads : ThreadStep(t) /\ UNCHANGED engineVars

EngineSpec == /\ EngineInit /\ [][EngineNext]_allVars
              /\ WF_allVars(EngineMainStep)
              /\ WF_allVars(StreamEnd)
              /\ \A t \in Threads : SF_allVars(ThreadStep(t) /\ UNCHANGED engineVars)

(* JuliusStop ends: clearing the callback table before the stream is       *)
(* closed is meant to keep the thread from staying in a callback           *)
(* (Recognition_JuliusPlus.cpp:1062-1064), and 1068 waits for it to stop.  *)
JuliusStopEnds == (mpc = "handler" /\ IsRebuild) ~> (mpc # "handler")
=============================================================================
