----------------------------- MODULE HttpServer -----------------------------
(***************************************************************************)
(* The web server of the home controller: the accept thread of HttpServer  *)
(* and its pool of HttpWorker threads. A worker sleeps on a condition      *)
(* variable of its own; the accept thread looks for a worker without a     *)
(* connection and posts the accepted socket to it. What travels between    *)
(* them is the ownership of an XLSocket object.                            *)
(*                                                                         *)
(* HttpWorker::lock is held only inside Post, StopRequest, the wait and    *)
(* the release of the socket, none of which blocks: each is one step.      *)
(***************************************************************************)
EXTENDS Integers

CONSTANTS N,            \* httpd__workerthread, the number of workers
          Sockets,      \* the connections that clients may open
          NoSocket      \* the NULL of XLSocket*

ASSUME NAssumption == N \in Nat \ {0}
ASSUME NoSocketAssumption == NoSocket \notin Sockets

Workers == 1..N

VARIABLES stopFlag,     \* HttpServer::StopFlag
          apc,          \* where the accept thread is
          cur,          \* its local variable socket
          i,            \* its loop variable i
          wpc,          \* where each worker is
          wsock,        \* HttpWorker::ConnectSocket
          wstop,        \* HttpWorker::StopFlag
          sock,         \* the XLSocket objects
          dead          \* the process has been terminated

acceptVars == <<apc, cur, i>>
workerVars == <<wpc, wsock, wstop>>
vars == <<stopFlag, apc, cur, i, wpc, wsock, wstop, sock, dead>>

AcceptStates == {"loop", "accept", "accepted", "scan", "post", "full",
                 "request", "stop", "join", "ended"}
WorkerStates == {"loop", "sleep", "asleep", "awake", "work", "release", "ended"}
(* "none": not accepted yet, "closed": Close was called, "deleted": freed. *)
SocketStates == {"none", "open", "closed", "deleted"}

TypeOK == /\ stopFlag \in BOOLEAN /\ dead \in BOOLEAN
          /\ apc \in AcceptStates
          /\ cur \in Sockets \cup {NoSocket}
          /\ i \in 1..(N + 1)
          /\ wpc \in [Workers -> WorkerStates]
          /\ wsock \in [Workers -> Sockets \cup {NoSocket}]
          /\ wstop \in [Workers -> BOOLEAN]
          /\ sock \in [Sockets -> SocketStates]

(* Create: the listening socket is open, the worker threads are started.   *)
Init == /\ stopFlag = FALSE /\ dead = FALSE
        /\ apc = "loop" /\ cur = NoSocket /\ i = 1
        /\ wpc = [w \in Workers |-> "loop"]
        /\ wsock = [w \in Workers |-> NoSocket]
        /\ wstop = [w \in Workers |-> FALSE]
        /\ sock = [s \in Sockets |-> "none"]

-----------------------------------------------------------------------------
(* The accept thread, acceptThreadMain.                                    *)

AcceptLoop ==
    /\ ~dead /\ apc = "loop"
    /\ apc' = IF stopFlag THEN "request" ELSE "accept"
    /\ i' = 1
    /\ UNCHANGED <<stopFlag, cur, sock, dead>> /\ UNCHANGED workerVars

(* XLSocket* socket = this->Socket.Accept()                                *)
Accept(s) ==
    /\ ~dead /\ apc = "accept"
    /\ sock[s] = "none"
    /\ apc' = "accepted"
    /\ cur' = s
    /\ sock' = [sock EXCEPT ![s] = "open"]
    /\ UNCHANGED <<stopFlag, i, dead>> /\ UNCHANGED workerVars

(* accept() fails, because Stop closed the listening socket or for want of *)
(* a descriptor: Accept throws, the thread function rethrows, and an       *)
(* exception that leaves a thread terminates the process.                  *)
AcceptThrows ==
    /\ ~dead /\ apc = "accept"
    /\ dead' = TRUE
    /\ UNCHANGED <<stopFlag, sock>> /\ UNCHANGED acceptVars /\ UNCHANGED workerVars

(* if (this->StopFlag) { delete socket; break; }                           *)
Accepted ==
    /\ ~dead /\ apc = "accepted"
    /\ IF stopFlag
         THEN /\ apc' = "request"
              /\ sock' = [sock EXCEPT ![cur] = "deleted"]
              /\ cur' = NoSocket
         ELSE apc' = "scan" /\ UNCHANGED <<cur, sock>>
    /\ UNCHANGED <<stopFlag, i, dead>> /\ UNCHANGED workerVars

(* Mutant of Scan: a full pool is not noticed, the loop runs on.           *)
ScanPastEnd ==
    /\ ~dead /\ apc = "scan"
    /\ \/ i <= N /\ wsock[i] = NoSocket /\ apc' = "post" /\ UNCHANGED i
       \/ (i <= N => wsock[i] # NoSocket) /\ UNCHANGED apc /\ i' = i + 1
    /\ UNCHANGED <<stopFlag, cur, sock, dead>> /\ UNCHANGED workerVars

(* Mutant of Scan: the first worker is taken without asking isEmpty.       *)
ScanBlindly ==
    /\ ~dead /\ apc = "scan"
    /\ apc' = IF i > N THEN "full" ELSE "post"
    /\ UNCHANGED <<i, stopFlag, cur, sock, dead>> /\ UNCHANGED workerVars

(* The for loop over the workers; isEmpty reads ConnectSocket without lock. *)
Scan ==
    /\ ~dead /\ apc = "scan"
    /\ \/ i > N /\ apc' = "full" /\ UNCHANGED i
       \/ i <= N /\ wsock[i] = NoSocket /\ apc' = "post" /\ UNCHANGED i
       \/ i <= N /\ wsock[i] # NoSocket /\ UNCHANGED apc /\ i' = i + 1
    /\ UNCHANGED <<stopFlag, cur, sock, dead>> /\ UNCHANGED workerVars

WakeUp(w) == wpc' = [wpc EXCEPT ![w] = IF @ = "asleep" THEN "awake" ELSE @]

(* Mutant of Post: the scan goes on after the socket was handed over.      *)
PostContinue ==
    /\ ~dead /\ apc = "post"
    /\ IF wstop[i] \/ wsock[i] # NoSocket
         THEN UNCHANGED workerVars
         ELSE wsock' = [wsock EXCEPT ![i] = cur] /\ WakeUp(i) /\ UNCHANGED wstop
    /\ apc' = "scan" /\ i' = i + 1
    /\ UNCHANGED <<stopFlag, sock, dead, cur>>

(* HttpWorkers[i].Post(socket), and continue or break.                     *)
Post ==
    /\ ~dead /\ apc = "post"
    /\ IF wstop[i] \/ wsock[i] # NoSocket
         THEN apc' = "scan" /\ i' = i + 1 /\ UNCHANGED cur /\ UNCHANGED workerVars
         ELSE /\ apc' = "loop" /\ UNCHANGED i
              /\ cur' = NoSocket
              /\ wsock' = [wsock EXCEPT ![i] = cur]
              /\ WakeUp(i)
              /\ UNCHANGED wstop
    /\ UNCHANGED <<stopFlag, sock, dead>>

(* All workers are busy: delete socket, whose destructor shuts it down.    *)
Full ==
    /\ ~dead /\ apc = "full"
    /\ apc' = "loop"
    /\ sock' = [sock EXCEPT ![cur] = "deleted"]
    /\ cur' = NoSocket
    /\ UNCHANGED <<stopFlag, i, dead>> /\ UNCHANGED workerVars

-----------------------------------------------------------------------------
(* Stopping.                                                               *)

(* HttpServer::Stop, on the main thread; it then joins the accept thread.  *)
Stop ==
    /\ ~dead /\ ~stopFlag
    /\ stopFlag' = TRUE
    /\ UNCHANGED <<sock, dead>> /\ UNCHANGED acceptVars /\ UNCHANGED workerVars

(* Mutant of StopRequest: the connection is left open.                     *)
StopRequestOnly(w) ==
    /\ wstop' = [wstop EXCEPT ![w] = TRUE]
    /\ WakeUp(w)
    /\ UNCHANGED <<wsock, sock>>

(* HttpWorker::StopRequest                                                 *)
StopRequest(w) ==
    /\ wstop' = [wstop EXCEPT ![w] = TRUE]
    /\ WakeUp(w)
    /\ sock' = IF wsock[w] = NoSocket THEN sock ELSE [sock EXCEPT ![wsock[w]] = "closed"]
    /\ UNCHANGED wsock

(* The loop that asks every worker to stop.                                *)
RequestAll ==
    /\ ~dead /\ apc = "request"
    /\ IF i <= N THEN StopRequest(i) /\ i' = i + 1 /\ UNCHANGED apc
                 ELSE apc' = "stop" /\ i' = 1 /\ UNCHANGED <<wpc, wsock, wstop, sock>>
    /\ UNCHANGED <<stopFlag, cur, dead>>

(* HttpWorker::Stop: it asks once more ...                                 *)
StopWorker ==
    /\ ~dead /\ apc = "stop"
    /\ IF i <= N THEN StopRequest(i) /\ apc' = "join"
                 ELSE apc' = "ended" /\ UNCHANGED <<wpc, wsock, wstop, sock>>
    /\ UNCHANGED <<stopFlag, cur, i, dead>>

(* ... and joins the thread.                                               *)
JoinWorker ==
    /\ ~dead /\ apc = "join"
    /\ wpc[i] = "ended"
    /\ apc' = "stop" /\ i' = i + 1
    /\ UNCHANGED <<stopFlag, cur, sock, dead>> /\ UNCHANGED workerVars

-----------------------------------------------------------------------------
(* A worker, WorkThreadMain.                                               *)

WorkerGoesTo(w, s) == /\ wpc' = [wpc EXCEPT ![w] = s]
                      /\ UNCHANGED <<wsock, wstop, stopFlag, dead>> /\ UNCHANGED acceptVars

WorkerLoop(w) == /\ ~dead /\ wpc[w] = "loop"
                 /\ WorkerGoesTo(w, IF wstop[w] THEN "ended" ELSE "sleep")
                 /\ UNCHANGED sock

(* this->EventObject.wait(al), without a condition: a notification given   *)
(* before this step is lost.                                               *)
Sleep(w) == ~dead /\ wpc[w] = "sleep" /\ WorkerGoesTo(w, "asleep") /\ UNCHANGED sock

SpuriousWake(w) == ~dead /\ wpc[w] = "asleep" /\ WorkerGoesTo(w, "awake") /\ UNCHANGED sock

(* if (this->StopFlag) break; WorkHTTP1_1()                                *)
Awake(w) == /\ ~dead /\ wpc[w] = "awake"
            /\ WorkerGoesTo(w, IF wstop[w] THEN "ended" ELSE "work")
            /\ UNCHANGED sock

(* WorkHTTP1_1 on a NULL ConnectSocket: the assertion at its head, or the  *)
(* access to the object where assertions are compiled out, is fatal.       *)
WorkOnNothing(w) ==
    /\ ~dead /\ wpc[w] = "work" /\ wsock[w] = NoSocket
    /\ dead' = TRUE
    /\ UNCHANGED <<stopFlag, sock>> /\ UNCHANGED acceptVars /\ UNCHANGED workerVars

(* One turn of the do loop of WorkHTTP1_1: StopFlag ends it, and so does   *)
(* HttpTrans when it fails or when the connection is not kept alive.       *)
HttpTrans(w) == /\ ~dead /\ wpc[w] = "work" /\ wsock[w] # NoSocket
                /\ \E doContinue \in BOOLEAN :
                      WorkerGoesTo(w, IF doContinue /\ ~wstop[w] THEN "work" ELSE "release")
                /\ UNCHANGED sock

(* ConnectSocket->Close(); delete ConnectSocket; ConnectSocket = NULL      *)
Release(w) ==
    /\ ~dead /\ wpc[w] = "release"
    /\ wpc' = [wpc EXCEPT ![w] = "loop"]
    /\ sock' = [sock EXCEPT ![wsock[w]] = "deleted"]
    /\ wsock' = [wsock EXCEPT ![w] = NoSocket]
    /\ UNCHANGED <<stopFlag, wstop, dead>> /\ UNCHANGED acceptVars

-----------------------------------------------------------------------------
AcceptThread == \/ AcceptLoop \/ Accepted \/ Scan \/ Post \/ Full
                \/ RequestAll \/ StopWorker \/ JoinWorker

WorkerThread(w) == \/ WorkerLoop(w) \/ Sleep(w) \/ Awake(w)
                   \/ WorkOnNothing(w) \/ HttpTrans(w) \/ Release(w)

Next == \/ AcceptThread \/ AcceptThrows \/ Stop
        \/ \E s \in Sockets : Accept(s)
        \/ \E w \in Workers : WorkerThread(w) \/ SpuriousWake(w)

Spec == Init /\ [][Next]_vars

(* Threads are scheduled, and a client does not keep a connection alive    *)
(* for ever (SetTimeout(5)): the worker reaches the end of its do loop.    *)
FairSpec == /\ Spec
            /\ WF_vars(AcceptThread)
            /\ \A w \in Workers : /\ WF_vars(WorkerThread(w))
                                  /\ SF_vars(HttpTrans(w) /\ wpc'[w] = "release")

-----------------------------------------------------------------------------
(* Properties.                                                             *)

(* Who holds a pointer to the socket object.                               *)
Owners(s) == {w \in Workers : wsock[w] = s} \cup (IF cur = s THEN {0} ELSE {})

(* A connection that was accepted and not freed has exactly one owner, and *)
(* a freed one has none: it is neither leaked nor served by two workers,   *)
(* and StopRequest never closes a freed object (HttpServer.cpp:31-67,      *)
(* 335-341, 727-753).                                                      *)
SocketOwned ==
    \A s \in Sockets : /\ sock[s] \in {"open", "closed"} <=> Owners(s) # {}
                       /\ \A o, p \in Owners(s) : o = p

(* Post is only called for a worker that has no connection, as the         *)
(* assertion at HttpServer.cpp:33 says, although isEmpty was asked without *)
(* the lock.                                                               *)
PostFindsEmpty == apc = "post" => wsock[i] = NoSocket /\ ~wstop[i]

(* When the accept thread has ended no connection is open and no worker    *)
(* runs on: every socket was closed by StopRequest or by its worker        *)
(* (HttpServer.cpp:755-762).                                               *)
AllClosedAtEnd ==
    apc = "ended" => /\ \A s \in Sockets : sock[s] # "open"
                     /\ \A w \in Workers : wpc[w] = "ended"

(* A worker works on the connection it was given: the assertion at         *)
(* HttpServer.cpp:347.                                                     *)
WorkerHasSocket == \A w \in Workers : wpc[w] = "work" => wsock[w] # NoSocket

(* A connection given to a worker is served and closed: the notification   *)
(* at HttpServer.cpp:49-50 is meant to wake the worker up.                 *)
PostedIsServed ==
    \A w \in Workers, s \in Sockets :
        (wsock[w] = s /\ sock[s] = "open") ~> (sock[s] # "open" \/ dead)
=============================================================================
