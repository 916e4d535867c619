-------------------------- MODULE HttpServerProofs --------------------------
(***************************************************************************)
(* Ownership of the connections of the web server, for any number of       *)
(* workers and connections. The invariant says in addition which thread    *)
(* can hold a pointer in which of its states, that a worker's StopFlag is  *)
(* raised only after the accept loop, and how far the two stop loops got.  *)
(***************************************************************************)
EXTENDS HttpServer, TLAPS

Held(s) == sock[s] \in {"open", "closed"}

(* The accept thread holds a socket from accept to Post or delete.         *)
AcceptInv == /\ cur # NoSocket <=> apc \in {"accepted", "scan", "post", "full"}
             /\ apc \in {"accept", "accepted"} => i = 1
             /\ apc = "post" => i \in Workers /\ wsock[i] = NoSocket
             /\ apc = "join" => i \in Workers
             /\ apc = "ended" => i = N + 1

WorkerInv == \A w \in Workers : wpc[w] = "release" => wsock[w] # NoSocket

OwnerInv == /\ \A w \in Workers : wsock[w] # NoSocket => Held(wsock[w])
            /\ cur # NoSocket => Held(cur)
            /\ \A v, w \in Workers : wsock[v] = wsock[w] /\ wsock[v] # NoSocket => v = w
            /\ \A w \in Workers : cur # NoSocket => wsock[w] # cur
            /\ \A s \in Sockets : Held(s) => cur = s \/ \E w \in Workers : wsock[w] = s

(* Asked to stop, with its connection, if any, closed.                     *)
Asked(w) == wstop[w] /\ (wsock[w] # NoSocket => sock[wsock[w]] = "closed")

StopInv == /\ \A w \in Workers : wstop[w] => apc \in {"request", "stop", "join", "ended"}
           /\ apc = "request" => \A w \in Workers : w < i => Asked(w)
           /\ apc \in {"stop", "join", "ended"} => \A w \in Workers : Asked(w)
           /\ apc \in {"stop", "join", "ended"} => \A w \in Workers : w < i => wpc[w] = "ended"

IInv == TypeOK /\ AcceptInv /\ WorkerInv /\ OwnerInv /\ StopInv

-----------------------------------------------------------------------------
(* Create's state: no connection was accepted.                             *)
LEMMA InitIInv == Init => IInv
  <1> SUFFICES ASSUME Init PROVE IInv
    OBVIOUS
  <1>1. TypeOK
    <2>1. i \in 1..(N + 1)
      BY NAssumption DEF Init
    <2>4. stopFlag \in BOOLEAN /\ dead \in BOOLEAN
      BY DEF Init
    <2>2. apc \in AcceptStates /\ cur \in Sockets \cup {NoSocket}
      BY DEF Init, AcceptStates
    <2>3. /\ wpc \in [Workers -> WorkerStates] /\ wsock \in [Workers -> Sockets \cup {NoSocket}]
          /\ wstop \in [Workers -> BOOLEAN] /\ sock \in [Sockets -> SocketStates]
      BY DEF Init, WorkerStates, SocketStates
    <2> QED
      BY <2>1, <2>2, <2>3, <2>4 DEF TypeOK
  <1>2. AcceptInv /\ WorkerInv /\ OwnerInv /\ StopInv
    BY NoSocketAssumption DEF Init, AcceptInv, WorkerInv, OwnerInv, StopInv, Held
  <1> QED
    BY <1>1, <1>2 DEF IInv

(* The steps of the accept thread that only move it along.                 *)
LEMMA AcceptMoveIInv == ASSUME IInv, AcceptLoop \/ Scan \/ JoinWorker \/ Stop \/ AcceptThrows
                        PROVE  IInv'
  <1>1. UNCHANGED <<cur, wpc, wsock, wstop, sock>>
    BY DEF AcceptLoop, Scan, JoinWorker, Stop, AcceptThrows, workerVars, acceptVars
  <1>2. /\ apc' \in AcceptStates /\ i' \in 1..(N + 1)
        /\ stopFlag' \in BOOLEAN /\ dead' \in BOOLEAN
    <2>1. apc' \in AcceptStates
      BY DEF AcceptLoop, Scan, JoinWorker, Stop, AcceptThrows, acceptVars, AcceptStates, IInv, TypeOK
    <2>2. i' \in 1..(N + 1)
      BY NAssumption DEF AcceptLoop, Scan, JoinWorker, Stop, AcceptThrows, acceptVars,
                         IInv, TypeOK, AcceptInv, Workers
    <2>3. stopFlag' \in BOOLEAN /\ dead' \in BOOLEAN
      BY DEF AcceptLoop, Scan, JoinWorker, Stop, AcceptThrows, IInv, TypeOK
    <2> QED
      BY <2>1, <2>2, <2>3
  <1>3. TypeOK'
    BY <1>1, <1>2 DEF IInv, TypeOK
  <1>4. AcceptInv'
    BY <1>1, NAssumption
    DEF IInv, TypeOK, AcceptInv, AcceptLoop, Scan, JoinWorker, Stop, AcceptThrows, workerVars,
        acceptVars, Workers
  <1>5. WorkerInv' /\ OwnerInv'
    BY <1>1 DEF IInv, WorkerInv, OwnerInv, Held
  <1>6. StopInv'
    BY <1>1, NAssumption
    DEF IInv, TypeOK, AcceptInv, StopInv, Asked, AcceptLoop, Scan, JoinWorker, Stop,
        AcceptThrows, workerVars, acceptVars, Workers
  <1> QED
    BY <1>3, <1>4, <1>5, <1>6 DEF IInv

(* accept() returns a socket that nobody has held before.                  *)
LEMMA AcceptIInv == ASSUME IInv, NEW s \in Sockets, Accept(s) PROVE IInv'
  <1>1. cur = NoSocket /\ cur' = s /\ sock' = [sock EXCEPT ![s] = "open"] /\ sock[s] = "none"
    BY DEF Accept, IInv, AcceptInv
  <1>2. UNCHANGED <<stopFlag, i, dead, wpc, wsock, wstop>> /\ apc = "accept" /\ apc' = "accepted"
    BY DEF Accept, workerVars
  <1>3. \A x \in Sockets : sock'[x] = IF x = s THEN "open" ELSE sock[x]
    BY <1>1 DEF IInv, TypeOK
  <1>4. \A w \in Workers : wsock[w] # s
    BY <1>1, NoSocketAssumption DEF IInv, OwnerInv, Held
  <1>5. TypeOK'
    BY <1>1, <1>2 DEF IInv, TypeOK, AcceptStates, SocketStates
  <1>6. AcceptInv' /\ WorkerInv' /\ StopInv'
    BY <1>1, <1>2, <1>3, <1>4, NoSocketAssumption
    DEF IInv, TypeOK, AcceptInv, WorkerInv, StopInv, Asked
  <1>7. OwnerInv'
    BY <1>1, <1>2, <1>3, <1>4, NoSocketAssumption DEF IInv, TypeOK, OwnerInv, Held
  <1> QED
    BY <1>5, <1>6, <1>7 DEF IInv

(* The accept thread frees the socket it holds.                            *)
LEMMA DropIInv == ASSUME IInv, Accepted \/ Full PROVE IInv'
  <1>1. CASE UNCHANGED <<cur, sock>>
    <2>1. /\ UNCHANGED <<stopFlag, i, dead, wpc, wsock, wstop>>
          /\ apc = "accepted" /\ apc' = "scan"
      BY <1>1, NoSocketAssumption DEF Accepted, Full, workerVars, IInv, AcceptInv
    <2>2. TypeOK' /\ AcceptInv' /\ WorkerInv' /\ OwnerInv' /\ StopInv'
      BY <1>1, <2>1
      DEF IInv, TypeOK, AcceptStates, AcceptInv, WorkerInv, OwnerInv, StopInv, Held, Asked
    <2> QED
      BY <2>2 DEF IInv
  <1>2. CASE ~ UNCHANGED <<cur, sock>>
    <2>1. /\ UNCHANGED <<stopFlag, i, dead, wpc, wsock, wstop>>
          /\ apc \in {"accepted", "full"} /\ apc' \in {"request", "loop"}
          /\ apc' = "request" => apc = "accepted"
          /\ cur' = NoSocket /\ sock' = [sock EXCEPT ![cur] = "deleted"]
      BY <1>2 DEF Accepted, Full, workerVars
    <2>2. cur \in Sockets
      BY <2>1 DEF IInv, TypeOK, AcceptInv
    <2>3. \A x \in Sockets : sock'[x] = IF x = cur THEN "deleted" ELSE sock[x]
      BY <2>1 DEF IInv, TypeOK
    <2>4. TypeOK' /\ AcceptInv' /\ WorkerInv'
      BY <2>1, <2>2 DEF IInv, TypeOK, AcceptStates, SocketStates, AcceptInv, WorkerInv
    <2>5. OwnerInv'
      BY <2>1, <2>2, <2>3, NoSocketAssumption DEF IInv, TypeOK, OwnerInv, Held
    <2>6. StopInv'
      <3>1. i = 1 \/ apc' = "loop"
        BY <2>1 DEF IInv, AcceptInv
      <3> QED
        BY <2>1, <2>2, <2>3, <3>1 DEF IInv, TypeOK, StopInv, OwnerInv, Asked, Workers
    <2> QED
      BY <2>4, <2>5, <2>6 DEF IInv
  <1> QED
    BY <1>1, <1>2

(* Post hands the socket over to a worker that has none.                   *)
LEMMA PostIInv == ASSUME IInv, Post PROVE IInv'
  <1>1. i \in Workers /\ wsock[i] = NoSocket /\ ~ wstop[i] /\ apc = "post" /\ cur \in Sockets
    BY DEF Post, IInv, AcceptInv, StopInv, TypeOK
  <1>2. /\ apc' = "loop" /\ cur' = NoSocket /\ wsock' = [wsock EXCEPT ![i] = cur]
        /\ wpc' = [wpc EXCEPT ![i] = IF wpc[i] = "asleep" THEN "awake" ELSE wpc[i]]
        /\ UNCHANGED <<i, wstop, stopFlag, sock, dead>>
    BY <1>1 DEF Post, WakeUp
  <1>3. \A w \in Workers : /\ wsock'[w] = IF w = i THEN cur ELSE wsock[w]
                           /\ wpc'[w] = "release" => wpc[w] = "release"
    BY <1>2 DEF IInv, TypeOK
  <1>4. TypeOK'
    BY <1>1, <1>2 DEF IInv, TypeOK, AcceptStates, WorkerStates
  <1>5. AcceptInv' /\ WorkerInv' /\ StopInv'
    BY <1>1, <1>2, <1>3, NoSocketAssumption DEF IInv, AcceptInv, WorkerInv, StopInv
  <1>6. OwnerInv'
    BY <1>1, <1>2, <1>3, NoSocketAssumption DEF IInv, TypeOK, OwnerInv, Held
  <1> QED
    BY <1>4, <1>5, <1>6 DEF IInv

(* StopRequest closes the connection of worker w, which keeps it.          *)
LEMMA StopRequestFacts ==
  ASSUME IInv, NEW w \in Workers, StopRequest(w)
  PROVE  /\ wsock' = wsock
         /\ wstop' \in [Workers -> BOOLEAN] /\ wpc' \in [Workers -> WorkerStates]
         /\ sock' \in [Sockets -> SocketStates]
         /\ \A v \in Workers : /\ wstop'[v] <=> (v = w \/ wstop[v])
                               /\ wpc'[v] = "release" => wpc[v] = "release"
                               /\ wpc[v] = "ended" => wpc'[v] = "ended"
         /\ \A s \in Sockets : sock'[s] = IF s = wsock[w] THEN "closed" ELSE sock[s]
  <1>1. wsock' = wsock /\ wstop' = [wstop EXCEPT ![w] = TRUE]
        /\ wpc' = [wpc EXCEPT ![w] = IF wpc[w] = "asleep" THEN "awake" ELSE wpc[w]]
    BY DEF StopRequest, WakeUp
  <1>2. sock' = IF wsock[w] = NoSocket THEN sock ELSE [sock EXCEPT ![wsock[w]] = "closed"]
    BY DEF StopRequest
  <1>3. /\ sock' \in [Sockets -> SocketStates]
        /\ \A s \in Sockets : sock'[s] = IF s = wsock[w] THEN "closed" ELSE sock[s]
    BY <1>2, NoSocketAssumption DEF IInv, TypeOK, SocketStates
  <1>4. wstop' \in [Workers -> BOOLEAN] /\ (\A v \in Workers : wstop'[v] <=> (v = w \/ wstop[v]))
    BY <1>1 DEF IInv, TypeOK
  <1>5. /\ wpc' \in [Workers -> WorkerStates]
        /\ \A v \in Workers : /\ wpc'[v] = "release" => wpc[v] = "release"
                              /\ wpc[v] = "ended" => wpc'[v] = "ended"
    BY <1>1 DEF IInv, TypeOK, WorkerStates
  <1> QED
    BY <1>1, <1>3, <1>4, <1>5

(* The two loops over the workers that end acceptThreadMain.               *)
LEMMA StopLoopIInv == ASSUME IInv, RequestAll \/ StopWorker PROVE IInv'
  <1>1. /\ UNCHANGED <<stopFlag, cur, dead>>
        /\ apc \in {"request", "stop"} /\ apc' \in {"request", "stop", "join", "ended"}
        /\ i \in 1..(N + 1)
    BY DEF RequestAll, StopWorker, IInv, TypeOK
  <1>2. CASE i <= N
    <2>1. i \in Workers /\ StopRequest(i)
      BY <1>1, <1>2 DEF RequestAll, StopWorker, Workers
    <2>2. \/ apc = "request" /\ apc' = "request" /\ i' = i + 1
          \/ apc = "stop" /\ apc' = "join" /\ i' = i
      BY <1>2 DEF RequestAll, StopWorker
    <2>3. i' \in 1..(N + 1)
      BY <1>1, <1>2, <2>2, NAssumption
    <2>4. /\ wsock' = wsock
          /\ wstop' \in [Workers -> BOOLEAN] /\ wpc' \in [Workers -> WorkerStates]
          /\ sock' \in [Sockets -> SocketStates]
          /\ \A v \in Workers : /\ wstop'[v] <=> (v = i \/ wstop[v])
                                /\ wpc'[v] = "release" => wpc[v] = "release"
                                /\ wpc[v] = "ended" => wpc'[v] = "ended"
          /\ \A s \in Sockets : sock'[s] = IF s = wsock[i] THEN "closed" ELSE sock[s]
      BY <2>1, StopRequestFacts
    <2>5. TypeOK'
      BY <1>1, <2>2, <2>3, <2>4 DEF IInv, TypeOK, AcceptStates
    <2>6. AcceptInv' /\ WorkerInv'
      <3>1. AcceptInv'
        BY <1>1, <2>1, <2>2, <2>4 DEF IInv, AcceptInv
      <3>2. WorkerInv'
        BY <2>4 DEF IInv, WorkerInv
      <3> QED
        BY <3>1, <3>2
    <2>7. OwnerInv'
      BY <1>1, <2>1, <2>4 DEF IInv, TypeOK, OwnerInv, Held
    <2>8. \A v \in Workers : Asked(v) \/ v = i => Asked(v)'
      <3> SUFFICES ASSUME NEW v \in Workers, Asked(v) \/ v = i PROVE Asked(v)'
        OBVIOUS
      <3>1. wsock[v] # NoSocket => wsock[v] \in Sockets
        BY DEF IInv, TypeOK
      <3>2. wstop'[v]
        <4>1. wstop'[v] <=> (v = i \/ wstop[v])
          BY <2>4
        <4>2. v = i \/ wstop[v]
          BY Zenon DEF Asked
        <4> QED
          BY <4>1, <4>2, Zenon
      <3>3. wsock[v] # NoSocket => sock'[wsock[v]] = "closed"
        BY <2>4, <3>1 DEF Asked
      <3> QED
        BY <2>4, <3>2, <3>3 DEF Asked
    <2>9. StopInv'
      <3>1. \A v \in Workers : wstop'[v] => apc' \in {"request", "stop", "join", "ended"}
        BY <1>1
      <3>2. apc' = "request" => \A v \in Workers : v < i' => Asked(v)'
        BY <1>1, <2>2, <2>8 DEF IInv, StopInv, Workers
      <3>3. apc' \in {"stop", "join", "ended"} =>
               \A v \in Workers : Asked(v)' /\ (v < i' => wpc'[v] = "ended")
        <4> SUFFICES ASSUME apc' \in {"stop", "join", "ended"}, NEW v \in Workers
                     PROVE  Asked(v)' /\ (v < i' => wpc'[v] = "ended")
          OBVIOUS
        <4>1. apc = "stop" /\ i' = i
          BY <2>2
        <4>2. Asked(v) /\ (v < i => wpc[v] = "ended")
          BY <4>1 DEF IInv, StopInv
        <4>3. Asked(v)'
          BY <4>2, <2>8
        <4>4. wpc[v] = "ended" => wpc'[v] = "ended"
          BY <2>4
        <4>5. v < i' => wpc'[v] = "ended"
          BY <4>1, <4>2, <4>4, Zenon
        <4> QED
          BY <4>3, <4>5
      <3> QED
        BY <3>1, <3>2, <3>3 DEF StopInv
    <2> QED
      BY <2>5, <2>6, <2>7, <2>9 DEF IInv
  <1>3. CASE ~(i <= N)
    <2>1. /\ UNCHANGED <<wpc, wsock, wstop, sock>>
          /\ \/ apc = "request" /\ apc' = "stop" /\ i' = 1
             \/ apc = "stop" /\ apc' = "ended" /\ i' = i
          /\ i = N + 1
      BY <1>1, <1>3, NAssumption DEF RequestAll, StopWorker
    <2>2. TypeOK'
      BY <1>1, <2>1, NAssumption DEF IInv, TypeOK, AcceptStates
    <2>3. AcceptInv' /\ WorkerInv' /\ OwnerInv'
      BY <1>1, <2>1 DEF IInv, AcceptInv, WorkerInv, OwnerInv, Held
    <2>4. StopInv'
      BY <2>1, NAssumption DEF IInv, StopInv, Asked, Workers
    <2> QED
      BY <2>2, <2>3, <2>4 DEF IInv
  <1> QED
    BY <1>2, <1>3

(* A worker moves without touching its connection.                         *)
LEMMA WorkerMoveIInv ==
  ASSUME IInv, NEW w \in Workers,
         WorkerLoop(w) \/ Sleep(w) \/ SpuriousWake(w) \/ Awake(w) \/ HttpTrans(w)
  PROVE  IInv'
  <1>1. UNCHANGED <<wsock, wstop, stopFlag, dead, apc, cur, i, sock>>
    BY DEF WorkerLoop, Sleep, SpuriousWake, Awake, HttpTrans, WorkerGoesTo, acceptVars
  <1>2. \E x \in WorkerStates : /\ wpc' = [wpc EXCEPT ![w] = x]
                                /\ x = "release" => wsock[w] # NoSocket
    BY DEF WorkerLoop, Sleep, SpuriousWake, Awake, HttpTrans, WorkerGoesTo, WorkerStates
  <1>3. wpc[w] # "ended"
    BY DEF WorkerLoop, Sleep, SpuriousWake, Awake, HttpTrans
  <1>4. /\ wpc' \in [Workers -> WorkerStates]
        /\ \A v \in Workers : v # w => wpc'[v] = wpc[v]
        /\ wpc'[w] = "release" => wsock[w] # NoSocket
    BY <1>2 DEF IInv, TypeOK
  <1>5. TypeOK'
    BY <1>1, <1>4 DEF IInv, TypeOK
  <1>6. AcceptInv' /\ WorkerInv' /\ OwnerInv'
    BY <1>1, <1>4 DEF IInv, AcceptInv, WorkerInv, OwnerInv, Held
  <1>7. StopInv'
    BY <1>1, <1>3, <1>4 DEF IInv, StopInv, Asked
  <1> QED
    BY <1>5, <1>6, <1>7 DEF IInv

(* The end of the process leaves every pointer as it is.                   *)
LEMMA WorkOnNothingIInv == ASSUME IInv, NEW w \in Workers, WorkOnNothing(w) PROVE IInv'
  <1>1. UNCHANGED <<wsock, wstop, stopFlag, apc, cur, i, sock, wpc>> /\ dead' = TRUE
    BY DEF WorkOnNothing, acceptVars, workerVars
  <1>2. TypeOK'
    BY <1>1 DEF IInv, TypeOK
  <1>3. AcceptInv' /\ WorkerInv' /\ OwnerInv' /\ StopInv'
    BY <1>1 DEF IInv, AcceptInv, WorkerInv, OwnerInv, StopInv, Held, Asked
  <1> QED
    BY <1>2, <1>3 DEF IInv

(* The worker frees its connection and forgets it in one step.             *)
LEMMA ReleaseIInv == ASSUME IInv, NEW w \in Workers, Release(w) PROVE IInv'
  <1>1. wsock[w] \in Sockets /\ wsock[w] # NoSocket /\ wpc[w] = "release"
    BY DEF Release, IInv, TypeOK, WorkerInv
  <1>2. /\ UNCHANGED <<stopFlag, wstop, dead, apc, cur, i>>
        /\ wpc' = [wpc EXCEPT ![w] = "loop"]
        /\ sock' = [sock EXCEPT ![wsock[w]] = "deleted"]
        /\ wsock' = [wsock EXCEPT ![w] = NoSocket]
    BY DEF Release, acceptVars
  <1>3. /\ \A v \in Workers : wsock'[v] = IF v = w THEN NoSocket ELSE wsock[v]
        /\ \A v \in Workers : wpc'[v] = IF v = w THEN "loop" ELSE wpc[v]
        /\ \A s \in Sockets : sock'[s] = IF s = wsock[w] THEN "deleted" ELSE sock[s]
    <2>1. \A v \in Workers : wsock'[v] = IF v = w THEN NoSocket ELSE wsock[v]
      BY <1>2 DEF IInv, TypeOK
    <2>2. \A v \in Workers : wpc'[v] = IF v = w THEN "loop" ELSE wpc[v]
      BY <1>2 DEF IInv, TypeOK
    <2>3. \A s \in Sockets : sock'[s] = IF s = wsock[w] THEN "deleted" ELSE sock[s]
      BY <1>1, <1>2 DEF IInv, TypeOK
    <2> QED
      BY <2>1, <2>2, <2>3
  <1>4. TypeOK'
    BY <1>1, <1>2 DEF IInv, TypeOK, WorkerStates, SocketStates
  <1>5. AcceptInv' /\ WorkerInv'
    <2>1. AcceptInv'
      <3>1. apc = "post" => wsock'[i] = NoSocket
        BY <1>3 DEF IInv, AcceptInv
      <3> QED
        BY <3>1, <1>2 DEF IInv, AcceptInv
    <2>2. WorkerInv'
      BY <1>3 DEF IInv, WorkerInv
    <2> QED
      BY <2>1, <2>2
  <1>6. OwnerInv'
    <2>1. \A v \in Workers : wsock'[v] # NoSocket => v # w /\ wsock[v] # wsock[w]
                                                   /\ wsock'[v] = wsock[v] /\ wsock[v] \in Sockets
      <3> SUFFICES ASSUME NEW v \in Workers, wsock'[v] # NoSocket
                   PROVE  /\ v # w /\ wsock[v] # wsock[w]
                          /\ wsock'[v] = wsock[v] /\ wsock[v] \in Sockets
        OBVIOUS
      <3>1. v # w /\ wsock'[v] = wsock[v]
        BY <1>3
      <3>2. wsock[v] \in Sockets
        BY <3>1 DEF IInv, TypeOK
      <3>3. wsock[v] # wsock[w]
        BY <3>1, <1>1 DEF IInv, OwnerInv
      <3> QED
        BY <3>1, <3>2, <3>3
    <2>2. cur # NoSocket => cur \in Sockets /\ cur # wsock[w]
      BY DEF IInv, TypeOK, OwnerInv
    <2>3. \A s \in Sockets : Held(s)' => Held(s) /\ s # wsock[w]
      BY <1>3 DEF Held
    <2>4. \A s \in Sockets : Held(s) /\ s # wsock[w] => Held(s)'
      BY <1>3 DEF Held
    <2>5. (\A v \in Workers : wsock[v] # NoSocket => Held(wsock[v]))'
      <3> SUFFICES ASSUME NEW v \in Workers, wsock'[v] # NoSocket PROVE Held(wsock[v])'
        OBVIOUS
      <3>1. Held(wsock[v]) /\ wsock'[v] = wsock[v] /\ wsock[v] \in Sockets /\ wsock[v] # wsock[w]
        BY <2>1 DEF IInv, OwnerInv
      <3> QED
        BY <3>1, <1>3 DEF Held
    <2>6. (cur # NoSocket => Held(cur))'
      BY <1>2, <1>3, <2>2 DEF IInv, OwnerInv, Held
    <2>7. (\A s \in Sockets : Held(s) => cur = s \/ \E v \in Workers : wsock[v] = s)'
      <3> SUFFICES ASSUME NEW s \in Sockets, Held(s)' 
                   PROVE  cur = s \/ \E v \in Workers : wsock'[v] = s
        BY <1>2
      <3>1. cur = s \/ \E v \in Workers : wsock[v] = s
        BY <2>3 DEF IInv, OwnerInv
      <3>2. s # wsock[w]
        BY <2>3
      <3>3. CASE \E v \in Workers : wsock[v] = s
        <4>1. PICK v \in Workers : wsock[v] = s
          BY <3>3
        <4>2. wsock'[v] = s
          BY <4>1, <3>2, <1>3
        <4> QED
          BY <4>2
      <3> QED
        BY <3>1, <3>3
    <2> QED
      BY <1>2, <1>3, <2>1, <2>5, <2>6, <2>7 DEF IInv, OwnerInv
  <1>7. StopInv'
    <2>1. \A v \in Workers : Asked(v) => Asked(v)'
      <3> SUFFICES ASSUME NEW v \in Workers, Asked(v) PROVE Asked(v)'
        OBVIOUS
      <3>1. v # w /\ wsock[v] # NoSocket => wsock[v] # wsock[w] /\ wsock[v] \in Sockets
        BY <1>1 DEF IInv, TypeOK, OwnerInv
      <3> QED
        BY <3>1, <1>2, <1>3 DEF Asked
    <2> QED
      BY <1>1, <1>2, <1>3, <2>1 DEF IInv, StopInv
  <1> QED
    BY <1>4, <1>5, <1>6, <1>7 DEF IInv

-----------------------------------------------------------------------------
(* Every step of the accept thread, of Stop and of a worker keeps IInv.    *)
LEMMA NextIInv == ASSUME IInv, [Next]_vars PROVE IInv'
  <1>1. CASE AcceptThread \/ AcceptThrows \/ Stop
    BY <1>1, AcceptMoveIInv, DropIInv, PostIInv, StopLoopIInv DEF AcceptThread
  <1>2. CASE \E s \in Sockets : Accept(s)
    BY <1>2, AcceptIInv
  <1>3. CASE \E w \in Workers : WorkerThread(w) \/ SpuriousWake(w)
    BY <1>3, WorkerMoveIInv, WorkOnNothingIInv, ReleaseIInv DEF WorkerThread
  <1>4. CASE UNCHANGED vars
    <2>1. UNCHANGED <<stopFlag, apc, cur, i, wpc, wsock, wstop, sock, dead>>
      BY <1>4 DEF vars
    <2> QED
      BY <2>1 DEF IInv, TypeOK, AcceptInv, WorkerInv, OwnerInv, StopInv, Held, Asked
  <1> QED
    BY <1>1, <1>2, <1>3, <1>4 DEF Next

(* IInv is inductive, so it holds in every reachable state.                *)
LEMMA Invariance == Spec => []IInv
  BY InitIInv, NextIInv, PTL DEF Spec

(* Type correctness of the accept thread and the worker pool.              *)
THEOREM TypeCorrect == Spec => []TypeOK
  <1>1. IInv => TypeOK
    BY DEF IInv
  <1> QED
    BY <1>1, Invariance, PTL

(* Every connection object has exactly one owner from accept to delete.    *)
THEOREM SocketOwnedThm == Spec => []SocketOwned
  <1>1. IInv => SocketOwned
    <2> SUFFICES ASSUME IInv, NEW s \in Sockets
                 PROVE  /\ sock[s] \in {"open", "closed"} <=> Owners(s) # {}
                        /\ \A o, p \in Owners(s) : o = p
      BY DEF SocketOwned
    <2>1. \A o \in Owners(s) : (o = 0 /\ cur = s) \/ (o \in Workers /\ wsock[o] = s)
      BY DEF Owners
    <2>2. 0 \notin Workers /\ s # NoSocket
      BY NoSocketAssumption DEF Workers
    <2>3. \A o, p \in Owners(s) : o = p
      BY <2>1, <2>2 DEF IInv, OwnerInv
    <2>4. Owners(s) # {} => Held(s)
      BY <2>1, <2>2 DEF IInv, OwnerInv
    <2>5. Held(s) => Owners(s) # {}
      BY DEF IInv, OwnerInv, Owners
    <2> QED
      BY <2>3, <2>4, <2>5 DEF Held
  <1> QED
    BY <1>1, Invariance, PTL

(* The assertion of HttpWorker::Post holds.                                *)
THEOREM PostFindsEmptyThm == Spec => []PostFindsEmpty
  <1>1. IInv => PostFindsEmpty
    BY DEF IInv, AcceptInv, StopInv, PostFindsEmpty
  <1> QED
    BY <1>1, Invariance, PTL

(* The accept thread ends with every worker ended and nothing open.        *)
THEOREM AllClosedAtEndThm == Spec => []AllClosedAtEnd
  <1>1. IInv => AllClosedAtEnd
    <2> SUFFICES ASSUME IInv, apc = "ended"
                 PROVE  /\ \A s \in Sockets : sock[s] # "open"
                        /\ \A w \in Workers : wpc[w] = "ended"
      BY DEF AllClosedAtEnd
    <2>1. \A w \in Workers : wpc[w] = "ended"
      BY NAssumption DEF IInv, AcceptInv, StopInv, Workers
    <2>2. \A s \in Sockets : sock[s] # "open"
      BY NoSocketAssumption DEF IInv, AcceptInv, OwnerInv, StopInv, Asked, Held
    <2> QED
      BY <2>1, <2>2
  <1> QED
    BY <1>1, Invariance, PTL
=============================================================================
