-------------------------- MODULE MCDevicesProofs --------------------------
(***************************************************************************)
(* Proofs about the three components of MCDevices, for any number of       *)
(* clients, images, accounts, web workers and appliances. Each component   *)
(* has an inductive invariant of its own (CInv, LInv, EInv); the last      *)
(* section puts them together.                                             *)
(***************************************************************************)
EXTENDS MCDevices, SequenceTheorems, FiniteSetTheorems, TLAPS

-----------------------------------------------------------------------------
(* The board.                                                              *)

OnBoard == {"gettemp", "getlumi", "radiating", "invoke", "invoked", "captured"}

(* Who has updatelock is who is on the board, and only workers learn.      *)
BoardHeld ==
    /\ \A t \in L!Threads : pc[t] \in OnBoard => updatelock = t
    /\ \A t \in L!Threads : pc[t] \in {"capture", "invoke", "invoked", "captured"} => t \in Workers
    /\ \A t \in L!Threads : pc[t] = "capturing" => t = L!Main

(* The queue has the worker that is in SyncInvoke, and the main thread     *)
(* runs the program of that one.                                           *)
BoardQueue ==
    /\ queue = <<>> \/ \E w \in Workers : queue = <<w>> /\ pc[w] = "invoked"
    /\ \A w \in Workers : pc[w] = "invoked" => queue = <<w>>
    /\ pc[L!Main] = "capturing" => queue # <<>>

LInv == L!TypeOK /\ BoardHeld /\ BoardQueue

-----------------------------------------------------------------------------
(* The upload to the cloud.                                                *)

(* The server never has an image newer than the one here: a newer time is  *)
(* what makes the uploader replace it.                                     *)
ImagesNotNewer == \A f \in Files :
    /\ files[f] <= conf + 1
    /\ \A a \in Accounts : /\ srv[a].files[f] <= conf + 1
                           /\ files[f] # 0 => srv[a].files[f] <= files[f]

(* How far an upload has come during which nothing changed and failed.     *)
Alike(f) == srv[uplink].files[f] = files[f]
UploadedSoFar == clean /\ upc \in {"read", "post", "files", "del", "done"} =>
    /\ uplink # 0
    /\ upc = "post" => read = conf
    /\ upc \in {"files", "del", "done"} => srv[uplink].conf = conf
    /\ upc = "files" => \A f \in Files :
          IF f \notin scan /\ files[f] # 0 THEN f \in seen /\ Alike(f)
          ELSE f \notin seen /\ srv[uplink].files[f] = table[f]
    /\ upc = "del" => \A f \in Files : Alike(f) \/ (f \in scan /\ files[f] = 0)
    /\ upc = "del" => \A f \in scan : files[f] = 0
    /\ upc = "done" /\ target = "full" => \A f \in Files : Alike(f)

CInv == C!TypeOK /\ ImagesNotNewer /\ UploadedSoFar

-----------------------------------------------------------------------------
(* ECHONET Lite.                                                           *)

NewDevices == {d \in Devices : mapping[d] = E!Unknown}

(* The numbers suffice: for the Pickup under way and for new devices.      *)
TidsLeft == TIDTotal + (IF mpc \in {"look", "tid"} THEN 1 ELSE 0) + 3 * Cardinality(NewDevices) <= MaxTid

PickType == pick \in [no : Nat, name : E!Names, prop : Picked \cup {0}, tid : -1..(MaxTid - 1),
                      isUpdate : BOOLEAN, ret : SUBSET Int, heard : BOOLEAN]
MessageType == [from : {"us", "device"}, kind : {"search", "83", "9E", "9D", "get", "hello", "changed"},
                dev : Devices, tid : -1..(MaxTid - 1), prop : Picked \cup {0}]

(* Every message but an announcement has a number that was used, and a     *)
(* device is asked for its properties only once it is known.               *)
NetInv ==
    /\ net \subseteq MessageType
    /\ \A m \in net : m.kind # "changed" => m.tid < TIDTotal
    /\ \A m \in net : m.kind \in {"83", "9E", "9D"} => mapping[m.dev] # E!Unknown
    /\ rpc # "recv" => cur \in net

Waiting == mpc \in {"sendto", "wait", "timeout"}

(* The callback there is, is that of the Pickup under way; it outlives     *)
(* that one only while the receiving thread, done with the callback,       *)
(* erases it.                                                              *)
WatchInv ==
    /\ \A w \in TidWatch : /\ w.tid = pick.tid /\ w.no = pick.no
                           /\ Waiting \/ rpc = "erase"
    /\ rpc \in {"callback", "update", "erase"} => \E w \in TidWatch : w.tid = cur.tid
    /\ pick.isUpdate /\ TidWatch # {} => rpc = "erase"
    /\ rpc = "erase" => pick.isUpdate
    /\ mpc \in {"look", "tid", "append"} => ~pick.isUpdate
    /\ mpc \in {"sendto", "wait"} /\ ~pick.isUpdate => \E w \in TidWatch : w.tid = pick.tid

(* The number of the Pickup under way is its own.                          *)
TidInv ==
    /\ mpc = "append" \/ Waiting => pick.tid \in 0..(TIDTotal - 1)
    /\ mpc = "append" => \A m \in net : m.kind # "changed" => m.tid # pick.tid
    /\ Waiting => \A m \in net : m.kind # "changed" /\ m.tid = pick.tid
                                 => m.dev = pick.name[1] /\ m.prop = pick.prop
    /\ rpc \in {"update", "erase"} \/ pick.isUpdate
         => pick.heard \/ \E m \in net : m.kind = "changed" /\ m.tid = pick.tid

EInv == /\ E!TypeOK /\ PickType /\ life \in Nat
        /\ TidsLeft /\ NetInv /\ WatchInv /\ TidInv /\ E!PropertiesAreRight

IInv == CInv /\ LInv /\ EInv

-----------------------------------------------------------------------------
(* The board: the initial state.                                           *)
LEMMA BoardInit == Init => LInv
<1> SUFFICES ASSUME Init PROVE LInv
  OBVIOUS
<1>1. L!Main \in L!Threads /\ Workers \subseteq L!Threads /\ Len(<<>>) = 0 /\ DOMAIN <<>> = {}
  BY DEF L!Threads
<1>2. L!TypeOK
  BY <1>1 DEF Init, L!Init, L!TypeOK, L!ToSet, L!Owners
<1> QED
  BY <1>1, <1>2 DEF Init, L!Init, LInv, BoardHeld, BoardQueue, OnBoard

(* A step of a thread from one place to another, neither of them in        *)
(* SyncInvoke.                                                             *)
LEMMA BoardMove ==
    ASSUME LInv, NEW t \in L!Threads, NEW from, NEW to, L!Step(t, from, to),
           from \notin {"invoked", "capturing"}, to \notin {"invoked"},
           to \in {"idle", "capture", "invoke", "captured", "capturing", "radiate", "radiating",
                   "sensor", "temp", "gettemp", "lumi", "getlumi", "write", "writing"},
           to \in {"capture", "invoke", "captured"} => t \in Workers,
           to = "capturing" => t = L!Main /\ queue # <<>>,
           UNCHANGED queue,
           \/ UNCHANGED updatelock /\ (to \in OnBoard => from \in OnBoard)
           \/ updatelock = L!Nobody /\ updatelock' = t
           \/ updatelock = t /\ updatelock' = L!Nobody /\ to \notin OnBoard,
           lock' \in L!Owners
    PROVE  LInv'
<1>t. L!TypeOK /\ BoardHeld /\ BoardQueue
  BY DEF LInv
<1>a. L!Main \notin Workers /\ L!Nobody \notin L!Threads /\ L!Main \in L!Threads
      /\ Workers \subseteq L!Threads
  BY BoardAssumption DEF L!Threads, L!Main, L!SensorThread, L!Nobody
<1>1. pc[t] = from /\ pc' = [pc EXCEPT ![t] = to]
  BY DEF L!Step
<1>2. \A u \in L!Threads : pc'[u] = IF u = t THEN to ELSE pc[u]
  BY <1>1, <1>t DEF L!TypeOK
<1>3. {w \in Workers : pc'[w] = "invoked"} = {w \in Workers : pc[w] = "invoked"}
  BY <1>1, <1>2, <1>a
<1>4. L!TypeOK'
  BY <1>t, <1>1, <1>3 DEF L!TypeOK, L!Owners
<1>5. BoardHeld'
  BY <1>t, <1>a, <1>1, <1>2 DEF BoardHeld
<1>6. BoardQueue'
  BY <1>t, <1>a, <1>1, <1>2 DEF BoardQueue
<1> QED
  BY <1>4, <1>5, <1>6 DEF LInv

(* Every step on the board keeps LInv.                                     *)
LEMMA BoardStep == LInv /\ (L!Next \/ UNCHANGED lvars) => LInv'
<1> SUFFICES ASSUME LInv, L!Next \/ UNCHANGED lvars PROVE LInv'
  OBVIOUS
<1>t. L!TypeOK /\ BoardHeld /\ BoardQueue
  BY DEF LInv
<1>a. L!Main \notin Workers /\ L!Nobody \notin L!Threads /\ L!Main \in L!Threads
      /\ Workers \subseteq L!Threads
  BY BoardAssumption DEF L!Threads, L!Main, L!SensorThread, L!Nobody
<1>o. updatelock \in L!Owners /\ lock \in L!Owners /\ L!Nobody \in L!Owners /\ L!Threads \subseteq L!Owners
  BY <1>t DEF L!TypeOK, L!Owners
<1>1. ASSUME NEW w \in Workers, L!remocon_ir_leaning(w) PROVE LInv'
  BY <1>1, <1>a, <1>o, BoardMove DEF L!remocon_ir_leaning, OnBoard
<1>2. ASSUME NEW t \in L!Threads, L!remocon_ir_fire(t) PROVE LInv'
  BY <1>2, <1>o, BoardMove DEF L!remocon_ir_fire, OnBoard
<1>3. ASSUME NEW t \in L!Threads, L!getSensorNow(t) PROVE LInv'
  BY <1>3, <1>o, BoardMove DEF L!getSensorNow, OnBoard
<1>4. ASSUME NEW t \in L!Threads, L!TakeLock(t) PROVE LInv'
  <2>1. UNCHANGED <<updatelock, queue>> /\ lock' \in L!Owners
    BY <1>4, <1>o DEF L!TakeLock
  <2>2. CASE L!Step(t, "sensor", "temp")
    BY <2>1, <2>2, BoardMove DEF OnBoard
  <2>3. CASE L!Step(t, "write", "writing")
    BY <2>1, <2>3, BoardMove DEF OnBoard
  <2> QED
    BY <1>4, <2>2, <2>3 DEF L!TakeLock
<1>5. ASSUME NEW t \in L!Threads, L!TakeUpdatelock(t) PROVE LInv'
  <2>1. UNCHANGED queue /\ lock' \in L!Owners /\ updatelock = L!Nobody /\ updatelock' = t
    BY <1>5, <1>o DEF L!TakeUpdatelock
  <2>2. CASE L!Step(t, "temp", "gettemp")
    BY <2>1, <2>2, BoardMove
  <2>3. CASE L!Step(t, "lumi", "getlumi")
    BY <2>1, <2>3, BoardMove
  <2>4. CASE L!Step(t, "radiate", "radiating")
    BY <2>1, <2>4, BoardMove
  <2>5. CASE L!Step(t, "capture", "invoke")
    <3>1. t \in Workers
      BY <1>t, <2>5 DEF L!Step, BoardHeld
    <3> QED
      BY <2>1, <2>5, <3>1, BoardMove
  <2> QED
    BY <1>5, <2>2, <2>3, <2>4, <2>5 DEF L!TakeUpdatelock
<1>6. ASSUME NEW t \in L!Threads, L!SensorsRead(t) PROVE LInv'
  BY <1>6, <1>o, BoardMove DEF L!SensorsRead, OnBoard
<1>7. ASSUME NEW t \in L!Threads, L!Done(t) PROVE LInv'
  <2>1. UNCHANGED queue /\ lock' \in L!Owners /\ updatelock = t /\ updatelock' = L!Nobody
    BY <1>7, <1>o DEF L!Done
  <2>2. CASE L!Step(t, "gettemp", "lumi")
    BY <2>1, <2>2, BoardMove DEF OnBoard
  <2>3. CASE L!Step(t, "getlumi", "write")
    BY <2>1, <2>3, BoardMove DEF OnBoard
  <2>4. CASE L!Step(t, "radiating", "idle")
    BY <2>1, <2>4, BoardMove DEF OnBoard
  <2>5. CASE L!Step(t, "captured", "idle")
    BY <2>1, <2>5, BoardMove DEF OnBoard
  <2> QED
    BY <1>7, <2>2, <2>3, <2>4, <2>5 DEF L!Done
<1>8. ASSUME NEW w \in Workers, L!Invoke(w) PROVE LInv'
  <2>1. /\ pc[w] = "invoke" /\ pc' = [pc EXCEPT ![w] = "invoked"]
        /\ queue' = Append(queue, w) /\ UNCHANGED <<updatelock, lock>>
    BY <1>8 DEF L!Invoke, L!Step
  <2>2. updatelock = w
    BY <1>t, <1>a, <2>1 DEF BoardHeld, OnBoard
  <2>3. queue = <<>>
    BY <1>t, <1>a, <2>1, <2>2 DEF BoardHeld, BoardQueue, OnBoard
  <2>4. queue' = <<w>> /\ L!ToSet(queue') = {w} /\ Len(queue') = 1
    BY <2>1, <2>3 DEF L!ToSet
  <2>5. \A u \in L!Threads : pc'[u] = IF u = w THEN "invoked" ELSE pc[u]
    BY <1>t, <2>1 DEF L!TypeOK
  <2>6. \A u \in Workers : pc[u] # "invoked"
    BY <1>t, <2>3 DEF BoardQueue
  <2>7. L!TypeOK'
    BY <1>t, <1>a, <2>1, <2>4, <2>5, <2>6 DEF L!TypeOK
  <2>8. BoardHeld'
    BY <1>t, <1>a, <2>1, <2>2, <2>5 DEF BoardHeld
  <2>9. BoardQueue'
    BY <1>t, <1>a, <2>1, <2>4, <2>5, <2>6 DEF BoardQueue
  <2> QED
    BY <2>7, <2>8, <2>9 DEF LInv
<1>9. CASE L!RunInvoked
  BY <1>9, <1>a, <1>o, BoardMove DEF L!RunInvoked, OnBoard
<1>10. CASE L!InvokedEnds
  <2>1. PICK w \in Workers : queue = <<w>> /\ pc[w] = "invoked"
    BY <1>10, <1>t DEF L!InvokedEnds, BoardQueue
  <2>2. queue' = <<>> /\ pc' = [pc EXCEPT ![L!Main] = "idle", ![w] = "captured"] /\ UNCHANGED <<updatelock, lock>>
    BY <1>10, <2>1 DEF L!InvokedEnds
  <2>3. \A u \in L!Threads : pc'[u] = IF u = w THEN "captured" ELSE IF u = L!Main THEN "idle" ELSE pc[u]
    BY <1>t, <1>a, <2>2 DEF L!TypeOK
  <2>4. updatelock = w
    BY <1>t, <1>a, <2>1 DEF BoardHeld, OnBoard
  <2>5. \A u \in Workers : pc[u] = "invoked" => u = w
    BY <1>t, <1>a, <2>4 DEF BoardHeld, OnBoard
  <2>6. L!ToSet(queue') = {} /\ Len(queue') = 0
    BY <2>2 DEF L!ToSet
  <2>7. L!TypeOK'
    BY <1>t, <1>a, <2>2, <2>3, <2>5, <2>6 DEF L!TypeOK
  <2>8. BoardHeld'
    <3>1. \A u \in L!Threads : pc'[u] \in OnBoard => updatelock' = u
      BY <1>t, <2>2, <2>3, <2>4 DEF BoardHeld, OnBoard
    <3>2. \A u \in L!Threads : pc'[u] \in {"capture", "invoke", "invoked", "captured"} => u \in Workers
      BY <1>t, <2>3 DEF BoardHeld
    <3>3. \A u \in L!Threads : pc'[u] = "capturing" => u = L!Main
      BY <1>t, <2>3 DEF BoardHeld
    <3> QED
      BY <3>1, <3>2, <3>3 DEF BoardHeld, OnBoard, L!Threads
  <2>9. BoardQueue'
    <3>1. \A u \in Workers : pc'[u] # "invoked"
      BY <1>a, <2>3, <2>5
    <3>2. pc'[L!Main] # "capturing"
      BY <1>a, <2>3
    <3> QED
      BY <2>2, <3>1, <3>2 DEF BoardQueue
  <2> QED
    BY <2>7, <2>8, <2>9 DEF LInv
<1>11. CASE UNCHANGED lvars
  BY <1>11, <1>t DEF lvars, LInv, L!TypeOK, BoardHeld, BoardQueue
<1> QED
  BY <1>1, <1>2, <1>3, <1>4, <1>5, <1>6, <1>7, <1>8, <1>9, <1>10, <1>11 DEF L!Next, L!Run

(* While a code is learnt the worker that waits has updatelock, so that    *)
(* nobody else is on the board.                                            *)
LEMMA BoardAlone == LInv => L!CaptureAlone
<1> SUFFICES ASSUME LInv, pc[L!Main] = "capturing", NEW t \in L!Threads
             PROVE  pc[t] \notin {"radiating", "gettemp", "getlumi", "captured"}
  BY DEF L!CaptureAlone
<1>1. PICK w \in Workers : pc[w] = "invoked"
  BY DEF LInv, BoardQueue
<1>2. updatelock = w
  BY <1>1 DEF LInv, BoardHeld, OnBoard, L!Threads
<1> QED
  BY <1>1, <1>2 DEF LInv, BoardHeld, OnBoard

-----------------------------------------------------------------------------
(* The cloud: the initial state.                                           *)
LEMMA CloudInit == Init => CInv
<1> SUFFICES ASSUME Init PROVE CInv
  OBVIOUS
<1>1. 0 \in 0..MaxConf /\ <<>> \in Seq(C!Calls) /\ Len(<<>>) = 0
  BY CloudAssumption, EmptySeq
<1>2. C!NoFiles \in [Files -> C!Versions] /\ 0 \in C!Versions
  BY <1>1 DEF C!NoFiles, C!Versions
<1>3. srv \in [Accounts -> C!Kept]
  BY <1>2 DEF Init, C!Init, C!Kept
<1>4. todo \in [Clients -> C!CallLists]
  BY <1>1 DEF Init, C!Init, C!CallLists
<1>5. C!TypeOK
  BY <1>2, <1>3, <1>4 DEF Init, C!Init, C!TypeOK, C!Links
<1> QED
  BY <1>1, <1>5 DEF Init, C!Init, C!NoFiles, CInv, ImagesNotNewer, UploadedSoFar

(* The call a client makes is taken from its list.                         *)
LEMMA TodoAt == ASSUME todo \in [Clients -> C!CallLists], NEW c \in Clients, NEW call, C!At(c, call)
                PROVE  todo' \in [Clients -> C!CallLists]
<1>1. todo[c] \in Seq(C!Calls) /\ todo[c] # <<>> /\ Len(todo[c]) <= 4
      /\ todo' = [todo EXCEPT ![c] = Tail(todo[c])]
  BY DEF C!CallLists, C!At
<1>2. Tail(todo[c]) \in Seq(C!Calls) /\ Len(Tail(todo[c])) = Len(todo[c]) - 1 /\ Len(todo[c]) \in Nat
  BY <1>1, HeadTailProperties, EmptySeq
<1>3. Tail(todo[c]) \in C!CallLists
  BY <1>1, <1>2 DEF C!CallLists
<1> QED
  BY <1>1, <1>3

(* What a step must leave alone, or forget, for the upload: it changes     *)
(* nothing the invariant is about but for taking clean back, and at most   *)
(* wakes the uploader up.                                                  *)
LEMMA CloudAside ==
    ASSUME CInv, UNCHANGED <<conf, files, uplink, read, table, seen, scan, target, srv>>,
           clean' => clean, upc' = upc \/ (upc' \in {"asleep", "awake", "loop"})
    PROVE  ImagesNotNewer' /\ UploadedSoFar'
<1>1. ImagesNotNewer'
  BY DEF CInv, ImagesNotNewer
<1>2. UploadedSoFar'
  BY DEF CInv, UploadedSoFar, Alike
<1> QED
  BY <1>1, <1>2

(* A save of the settings gives a higher version, and takes clean back.    *)
LEMMA CloudSave ==
    ASSUME CInv, conf' = conf + 1, UNCHANGED <<files, srv>>, ~clean'
    PROVE  ImagesNotNewer' /\ UploadedSoFar'
<1>1. UploadedSoFar'
  BY DEF UploadedSoFar
<1>2. conf \in Int /\ \A f \in Files : files[f] \in Int /\ \A a \in Accounts : srv[a].files[f] \in Int
  BY DEF CInv, C!TypeOK, C!Versions, C!Kept
<1>3. ImagesNotNewer'
  BY <1>2 DEF CInv, ImagesNotNewer
<1> QED
  BY <1>1, <1>3

(* The steps of a client.                                                  *)
LEMMA ClientStep ==
    ASSUME CInv, NEW c \in Clients,
           \/ C!ChangeSetting(c) \/ C!ChangeImage(c) \/ C!setting_account_update(c)
           \/ C!ResetConfig(c) \/ C!Call(c)
    PROVE  CInv'
<1>t. C!TypeOK /\ ImagesNotNewer /\ UploadedSoFar /\ todo \in [Clients -> C!CallLists]
  BY DEF CInv, C!TypeOK
<1>v. MaxConf \in Nat /\ conf \in 0..MaxConf
  BY <1>t, CloudAssumption DEF C!TypeOK, C!Versions
<1>s. /\ <<"save", "only">> \in C!CallLists /\ <<"save", "full">> \in C!CallLists
      /\ <<"account", "save", "only">> \in C!CallLists
      /\ <<"save", "account", "full", "joinlink">> \in C!CallLists /\ <<"joinconfig">> \in C!CallLists
  BY DEF C!Calls, C!CallLists
<1>1. CASE C!ChangeSetting(c) \/ C!setting_account_update(c) \/ C!ResetConfig(c)
  <2>1. /\ UNCHANGED <<conf, files, id, isSyncServerOK, linkid, isSync, lpc, request, uplink, SyncTarget,
                       upIsSync, upc, target, read, table, seen, scan, srv, clean>>
        /\ \/ todo' = [todo EXCEPT ![c] = <<"save", "only">>]
           \/ todo' = [todo EXCEPT ![c] = <<"account", "save", "only">>]
           \/ todo' = [todo EXCEPT ![c] = <<"save", "account", "full", "joinlink">>]
    BY <1>1 DEF C!ChangeSetting, C!setting_account_update, C!ResetConfig, C!Begin, C!account, C!linkvars, C!upload
  <2>2. todo' \in [Clients -> C!CallLists]
    BY <1>t, <1>s, <2>1
  <2>3. C!TypeOK'
    BY <1>t, <2>1, <2>2 DEF C!TypeOK
  <2> QED
    BY <2>1, <2>3, CloudAside DEF CInv
<1>2. CASE C!ChangeImage(c)
  <2>1. PICK f \in Files, v \in {0, conf + 1} : files' = [files EXCEPT ![f] = v]
    BY <1>2 DEF C!ChangeImage
  <2>2. /\ UNCHANGED <<conf, id, isSyncServerOK, linkid, isSync, lpc, request, uplink, SyncTarget,
                       upIsSync, upc, target, read, table, seen, scan, srv>>
        /\ todo' = [todo EXCEPT ![c] = <<"save", "full">>]
        /\ clean' = FALSE /\ conf < MaxConf
    BY <1>2 DEF C!ChangeImage, C!Begin, C!account, C!linkvars, C!upload
  <2>3. todo' \in [Clients -> C!CallLists]
    BY <1>t, <1>s, <2>2
  <2>4. v \in C!Versions
    BY <1>v, <2>2 DEF C!Versions
  <2>5. C!TypeOK'
    BY ZenonT(60), <1>t, <2>1, <2>2, <2>3, <2>4 DEF C!TypeOK
  <2>6. UploadedSoFar'
    BY <2>2 DEF UploadedSoFar
  <2>7. \A g \in Files : files'[g] = IF g = f THEN v ELSE files[g]
    BY <1>t, <2>1 DEF C!TypeOK
  <2>8. ImagesNotNewer'
    BY <1>t, <1>v, <2>2, <2>7 DEF ImagesNotNewer
  <2> QED
    BY <2>5, <2>6, <2>8 DEF CInv
<1>3. CASE C!overrideSave(c)
  <2>1. /\ conf' = conf + 1 /\ conf < MaxConf /\ clean' = FALSE
        /\ UNCHANGED <<files, id, isSyncServerOK, linkid, isSync, lpc, request, uplink, SyncTarget,
                       upIsSync, upc, target, read, table, seen, scan, srv>>
    BY <1>3 DEF C!overrideSave, C!NoWakeup, C!account, C!linkvars
  <2>2. todo' \in [Clients -> C!CallLists]
    BY <1>3, <1>t, TodoAt DEF C!overrideSave
  <2>3. C!TypeOK'
    <3>1. conf' \in C!Versions
      BY <1>v, <2>1 DEF C!Versions
    <3> QED
      BY ZenonT(60), <1>t, <2>1, <2>2, <3>1 DEF C!TypeOK
  <2> QED
    BY <2>1, <2>3, CloudSave DEF CInv
<1>4. CASE C!WakeupByNewSyncID(c)
  <2>1. /\ id' \in Accounts /\ isSyncServerOK' \in BOOLEAN /\ linkid' = 0 /\ isSync' = FALSE
        /\ UNCHANGED <<conf, files, lpc, request, uplink, SyncTarget,
                       upIsSync, upc, target, read, table, seen, scan, srv, clean>>
    BY <1>4 DEF C!WakeupByNewSyncID, C!upload
  <2>2. todo' \in [Clients -> C!CallLists]
    BY <1>4, <1>t, TodoAt DEF C!WakeupByNewSyncID
  <2>3. C!TypeOK'
    BY ZenonT(60), <1>t, <2>1, <2>2 DEF C!TypeOK, C!Links
  <2> QED
    BY <2>1, <2>3, CloudAside DEF CInv
<1>5. ASSUME NEW what \in {"full", "only"}, C!WakeupSyncConfig(c, what) PROVE CInv'
  <2>1. /\ UNCHANGED <<conf, files, id, isSyncServerOK, linkid, isSync, lpc, request, uplink,
                       target, read, table, seen, scan, srv, clean>>
        /\ SyncTarget' \in {"full", "only"} /\ upIsSync' \in BOOLEAN
        /\ upc' = upc \/ upc' = "awake"
    BY <1>5, <1>t DEF C!TypeOK, C!WakeupSyncConfig, C!Wakeup, C!NoWakeup, C!account, C!linkvars
  <2>2. todo' \in [Clients -> C!CallLists]
    BY <1>5, <1>t, TodoAt DEF C!WakeupSyncConfig
  <2>3. C!TypeOK'
    BY <1>t, <2>1, <2>2 DEF C!TypeOK
  <2> QED
    BY <2>1, <2>3, CloudAside DEF CInv
<1>6. CASE C!JoinLink(c) \/ C!JoinConfig(c) \/ C!JoinReturns(c)
  <2>1. UNCHANGED <<conf, files, id, isSyncServerOK, linkid, isSync, lpc, request, uplink, SyncTarget,
                    upIsSync, upc, target, read, table, seen, scan, srv, clean>>
    BY <1>6 DEF C!JoinLink, C!JoinConfig, C!JoinReturns, C!account, C!linkvars, C!upload
  <2>2. todo' \in [Clients -> C!CallLists]
    <3>1. CASE C!JoinLink(c)
      BY <3>1, <1>t, <1>s DEF C!JoinLink
    <3>2. CASE C!JoinConfig(c) \/ C!JoinReturns(c)
      BY <3>2, <1>t, TodoAt DEF C!JoinConfig, C!JoinReturns
    <3> QED
      BY <1>6, <3>1, <3>2
  <2>3. C!TypeOK'
    BY <1>t, <2>1, <2>2 DEF C!TypeOK
  <2> QED
    BY <2>1, <2>3, CloudAside DEF CInv
<1> QED
  BY <1>1, <1>2, <1>3, <1>4, <1>5, <1>6 DEF C!Call

(* The steps of the thread that keeps the link.                            *)
LEMMA LinkThreadStep == ASSUME CInv, C!LinkThread PROVE CInv'
<1>t. C!TypeOK /\ ImagesNotNewer /\ UploadedSoFar
  BY DEF CInv
<1>v. MaxConf \in Nat /\ conf \in 0..MaxConf
  BY <1>t, CloudAssumption DEF C!TypeOK, C!Versions
<1>1. CASE C!Allowed \/ C!Rendezvous \/ C!SendGetLink \/ C!GotLink \/ C!NoLink \/ C!Pooling \/ C!PoolingFails
  <2>1. /\ UNCHANGED <<conf, files, todo, id, isSyncServerOK, uplink, SyncTarget, upIsSync, upc,
                       target, read, table, seen, scan, srv, clean>>
        /\ lpc' \in {"top", "rendezvous", "send", "answer", "tell", "pooling"}
        /\ linkid' \in {linkid, request} /\ request' \in {request, id} /\ isSync' \in BOOLEAN
    BY <1>1, <1>t DEF C!Allowed, C!Rendezvous, C!SendGetLink, C!GotLink, C!NoLink, C!Pooling, C!PoolingFails,
       C!LinkStep, C!NoWakeup, C!account, C!TypeOK
  <2>2. C!TypeOK'
    BY <1>t, <2>1 DEF C!TypeOK, C!Links
  <2> QED
    BY <2>1, <2>2, CloudAside DEF CInv
<1>2. CASE C!Tell
  <2>1. /\ lpc' = "pooling" /\ uplink' = linkid /\ clean' = (clean /\ uplink = linkid)
        /\ SyncTarget' = "full" /\ upIsSync' = FALSE /\ (upc' = upc \/ upc' = "awake")
        /\ UNCHANGED <<conf, files, todo, id, isSyncServerOK, linkid, isSync, request, target, read,
                       table, seen, scan, srv>>
    BY <1>2 DEF C!Tell, C!Wakeup, C!account
  <2>2. C!TypeOK'
    BY <1>t, <2>1 DEF C!TypeOK
  <2>3. ImagesNotNewer'
    BY <1>t, <2>1 DEF ImagesNotNewer
  <2>4. CASE clean'
    BY <2>1, <2>2, <2>4, CloudAside DEF CInv
  <2>5. CASE ~clean'
    BY <2>2, <2>3, <2>5 DEF CInv, UploadedSoFar
  <2> QED
    BY <2>4, <2>5
<1>3. CASE C!Reconfig
  <2>1. /\ conf' = conf + 1 /\ conf < MaxConf /\ clean' = FALSE /\ lpc' \in {"pooling", "top"}
        /\ UNCHANGED <<files, todo, id, isSyncServerOK, uplink, target, read, table, seen, scan, srv,
                       linkid, isSync, request>>
        /\ SyncTarget' \in {"full", "only"} /\ upIsSync' \in BOOLEAN
        /\ upc' = upc \/ upc' = "awake"
    BY <1>3, <1>t DEF C!TypeOK, C!Reconfig, C!LinkStep, C!Wakeup, C!NoWakeup, C!account
  <2>2. C!TypeOK'
    <3>1. conf' \in C!Versions
      BY <1>v, <2>1 DEF C!Versions
    <3> QED
      BY <1>t, <2>1, <3>1 DEF C!TypeOK
  <2> QED
    BY <2>1, <2>2, CloudSave DEF CInv
<1> QED
  BY <1>1, <1>2, <1>3 DEF C!LinkThread

(* The uploader stays off the requests: the rest of an upload's state is   *)
(* as it was.                                                              *)
LEMMA UpStepType ==
    ASSUME C!TypeOK, NEW from, NEW to, C!UpStep(from, to),
           to \in {"loop", "asleep", "awake", "read", "post", "files", "del", "done"},
           upIsSync' \in BOOLEAN, target' \in {"full", "only"}, read' \in C!Versions,
           table' \in [Files -> C!Versions], seen' \subseteq Files, scan' \subseteq Files,
           srv' \in [Accounts -> C!Kept], clean' \in BOOLEAN
    PROVE  C!TypeOK'
  BY DEF C!TypeOK, C!UpStep, C!account, C!linkvars

(* The server, when an image of the account is replaced or deleted.        *)
LEMMA ServerImage ==
    ASSUME C!TypeOK, uplink # 0, NEW f \in Files, NEW v \in C!Versions,
           srv' = [srv EXCEPT ![uplink].files[f] = v]
    PROVE  /\ srv' \in [Accounts -> C!Kept]
           /\ \A a \in Accounts : srv'[a].conf = srv[a].conf
           /\ \A a \in Accounts, g \in Files :
                 srv'[a].files[g] = IF a = uplink /\ g = f THEN v ELSE srv[a].files[g]
<1>1. uplink \in Accounts /\ srv \in [Accounts -> C!Kept]
  BY DEF C!TypeOK, C!Links
<1>2. srv[uplink].files \in [Files -> C!Versions] /\ srv[uplink].conf \in C!Versions
  BY <1>1 DEF C!Kept
<1>3. srv' = [srv EXCEPT ![uplink] = [srv[uplink] EXCEPT !.files = [srv[uplink].files EXCEPT ![f] = v]]]
  BY <1>1
<1>4. PICK k : k = [srv[uplink] EXCEPT !.files = [srv[uplink].files EXCEPT ![f] = v]]
  OBVIOUS
<1>5. /\ k \in C!Kept /\ k.conf = srv[uplink].conf
      /\ \A g \in Files : k.files[g] = IF g = f THEN v ELSE srv[uplink].files[g]
  BY <1>1, <1>2, <1>4 DEF C!Kept
<1> QED
  BY <1>1, <1>3, <1>4, <1>5

(* Every step of the uploader.                                             *)
LEMMA UploadStep == ASSUME CInv, C!Upload PROVE CInv'
<1>t. C!TypeOK /\ ImagesNotNewer /\ UploadedSoFar
  BY DEF CInv
<1>a. 0 \notin Accounts /\ (uplink # 0 => uplink \in Accounts)
  BY <1>t, CloudAssumption DEF C!TypeOK, C!Links
<1>v. /\ conf \in Nat /\ C!Versions \subseteq Nat
      /\ \A f \in Files : files[f] \in C!Versions /\ table[f] \in C!Versions
      /\ \A a \in Accounts : srv[a] \in C!Kept
  BY <1>t, CloudAssumption DEF C!TypeOK, C!Versions
<1>k. \A a \in Accounts : srv[a].conf \in C!Versions /\ srv[a].files \in [Files -> C!Versions]
  BY <1>v DEF C!Kept
<1>1. CASE C!UpWait \/ C!SpuriousWake \/ C!NoLinkYet \/ C!UpThrows \/ C!UpDone
  <2>1. /\ UNCHANGED <<conf, files, uplink, read, table, seen, scan, target, srv, clean>>
        /\ upc' \in {"asleep", "awake", "loop"}
    BY <1>1 DEF C!UpWait, C!SpuriousWake, C!NoLinkYet, C!UpThrows, C!UpDone, C!UpStep
  <2>2. C!TypeOK'
    BY ZenonT(60), <1>1, <1>t DEF C!UpWait, C!SpuriousWake, C!NoLinkYet, C!UpThrows, C!UpDone, C!UpStep, C!TypeOK,
                      C!account, C!linkvars
  <2> QED
    BY <2>1, <2>2, CloudAside DEF CInv
<1>2. CASE C!ReadTarget
  <2>1. /\ uplink # 0 /\ C!UpStep("awake", "read") /\ target' = SyncTarget /\ clean' = TRUE
        /\ UNCHANGED <<upIsSync, read, table, seen, scan, srv>>
    BY <1>2 DEF C!ReadTarget
  <2>2. C!TypeOK'
    BY <1>t, <2>1, UpStepType DEF C!TypeOK
  <2>3. ImagesNotNewer' /\ UploadedSoFar'
    BY <1>t, <2>1 DEF ImagesNotNewer, UploadedSoFar, C!UpStep
  <2> QED
    BY <2>2, <2>3 DEF CInv
<1>3. CASE C!ReadConfig
  <2>1. /\ C!UpStep("read", "post") /\ read' = conf
        /\ UNCHANGED <<upIsSync, target, table, seen, scan, srv, clean>>
    BY <1>3 DEF C!ReadConfig
  <2>2. C!TypeOK'
    BY <1>t, <2>1, UpStepType DEF C!TypeOK
  <2>3. ImagesNotNewer' /\ UploadedSoFar'
    BY <1>t, <2>1 DEF ImagesNotNewer, UploadedSoFar, C!UpStep
  <2> QED
    BY <2>2, <2>3 DEF CInv
<1>4. CASE C!PostConfig
  <2>1. /\ uplink # 0 /\ upc = "post" /\ srv' = [srv EXCEPT ![uplink].conf = read]
        /\ upc' = IF target = "only" THEN "done" ELSE "files"
        /\ table' = srv[uplink].files /\ seen' = {} /\ scan' = Files
        /\ UNCHANGED <<conf, files, uplink, upIsSync, target, read, clean>>
    BY <1>4 DEF C!PostConfig, C!UpStep
  <2>2. read \in C!Versions /\ uplink \in Accounts
    BY <1>t, <1>a, <2>1 DEF C!TypeOK
  <2>3. /\ srv' \in [Accounts -> C!Kept]
        /\ srv'[uplink].conf = read
        /\ \A a \in Accounts : srv'[a].files = srv[a].files
    <3>1. PICK k : k = [srv[uplink] EXCEPT !.conf = read]
      OBVIOUS
    <3>2. k \in C!Kept /\ k.conf = read /\ k.files = srv[uplink].files
      BY <1>v, <2>2, <3>1 DEF C!Kept
    <3>3. srv' = [srv EXCEPT ![uplink] = k] /\ srv \in [Accounts -> C!Kept]
      BY <1>t, <2>1, <3>1 DEF C!TypeOK
    <3> QED
      BY <2>2, <3>2, <3>3
  <2>4. C!TypeOK'
    <3>1. C!UpStep("post", IF target = "only" THEN "done" ELSE "files")
      BY <1>4 DEF C!PostConfig
    <3> QED
      BY <1>t, <1>k, <2>1, <2>2, <2>3, <3>1, UpStepType DEF C!TypeOK
  <2>5. ImagesNotNewer'
    BY <1>t, <2>1, <2>3 DEF ImagesNotNewer
  <2>6. UploadedSoFar'
    BY <1>t, <2>1, <2>2, <2>3 DEF UploadedSoFar, Alike
  <2> QED
    BY <2>4, <2>5, <2>6 DEF CInv
<1>5. ASSUME NEW f \in Files, C!SyncFile(f) PROVE CInv'
  <2>1. /\ f \in scan /\ scan' = scan \ {f} /\ C!UpStep("files", "files")
        /\ seen' = IF files[f] # 0 THEN seen \cup {f} ELSE seen
        /\ UNCHANGED <<upIsSync, target, read, table>>
        /\ \/ ~(files[f] > table[f]) /\ UNCHANGED <<srv, clean>>
           \/ files[f] > table[f] /\ uplink # 0 /\ srv' = [srv EXCEPT ![uplink].files[f] = files[f]] /\ UNCHANGED clean
           \/ files[f] > table[f] /\ clean' = FALSE /\ UNCHANGED srv
    BY <1>5 DEF C!SyncFile
  <2>u. upc = "files" /\ upc' = "files" /\ UNCHANGED <<conf, files, uplink>>
    BY <2>1 DEF C!UpStep
  <2>2. /\ srv' \in [Accounts -> C!Kept]
        /\ \A a \in Accounts : srv'[a].conf = srv[a].conf
        /\ \A a \in Accounts, g \in Files : g # f \/ a # uplink => srv'[a].files[g] = srv[a].files[g]
        /\ \A a \in Accounts : srv'[a].files[f] \in {srv[a].files[f], files[f]}
    <3>1. CASE srv' = srv
      BY <1>t, <3>1 DEF C!TypeOK
    <3>2. CASE uplink # 0 /\ srv' = [srv EXCEPT ![uplink].files[f] = files[f]]
      <4>1. /\ srv' \in [Accounts -> C!Kept]
            /\ \A a \in Accounts : srv'[a].conf = srv[a].conf
            /\ \A a \in Accounts, g \in Files :
                  srv'[a].files[g] = IF a = uplink /\ g = f THEN files[f] ELSE srv[a].files[g]
        BY ZenonT(60), <1>t, <1>v, <3>2, ServerImage
      <4> QED
        BY <4>1
    <3> QED
      BY <2>1, <3>1, <3>2
  <2>3. C!TypeOK'
    BY <1>t, <2>1, <2>2, UpStepType DEF C!TypeOK
  <2>4. ImagesNotNewer'
    <3> SUFFICES ASSUME NEW g \in Files, NEW a \in Accounts
                 PROVE  /\ files[g] <= conf + 1 /\ srv'[a].files[g] <= conf + 1
                        /\ files[g] # 0 => srv'[a].files[g] <= files[g]
      BY <1>t, <2>u DEF ImagesNotNewer
    <3>1. srv'[a].files[g] = srv[a].files[g] \/ (g = f /\ srv'[a].files[g] = files[g])
      BY <2>2
    <3>2. files[g] \in Nat
      BY <1>v
    <3> QED
      BY <1>t, <3>1, <3>2 DEF ImagesNotNewer
  <2>5. UploadedSoFar'
    <3> SUFFICES ASSUME clean' PROVE UploadedSoFar'
      BY DEF UploadedSoFar
    <3>1. clean /\ uplink # 0 /\ uplink \in Accounts /\ srv[uplink].conf = conf
      BY <1>t, <1>a, <2>1, <2>u DEF UploadedSoFar
    <3>2. \A g \in Files : IF g \notin scan /\ files[g] # 0 THEN g \in seen /\ srv[uplink].files[g] = files[g]
                           ELSE g \notin seen /\ srv[uplink].files[g] = table[g]
      BY <1>t, <2>u, <3>1 DEF UploadedSoFar, Alike
    <3>3. srv[uplink].files[f] = table[f] /\ f \notin seen
      BY <2>1, <3>2
    <3>4. files[f] # 0 => srv'[uplink].files[f] = files[f]
      <4>1. CASE files[f] > table[f]
        BY <1>t, <1>v, <2>1, <3>1, <4>1, ServerImage
      <4>2. CASE ~(files[f] > table[f])
        <5>1. srv' = srv
          BY <2>1, <4>2
        <5>2. files[f] # 0 => table[f] <= files[f]
          BY <1>t, <3>1, <3>3 DEF ImagesNotNewer
        <5>3. files[f] \in Nat /\ table[f] \in Nat
          BY <1>v
        <5> QED
          BY <3>3, <4>2, <5>1, <5>2, <5>3
      <4> QED
        BY <4>1, <4>2
    <3>5. files[f] = 0 => srv'[uplink].files[f] = table[f]
      <4> SUFFICES ASSUME files[f] = 0 PROVE srv'[uplink].files[f] = table[f]
        OBVIOUS
      <4>1. table[f] \in Nat
        BY <1>v
      <4>2. ~(files[f] > table[f])
        BY <4>1
      <4> QED
        BY <2>1, <3>3, <4>2
    <3>6. \A g \in Files : g # f => srv'[uplink].files[g] = srv[uplink].files[g]
      BY <2>2, <3>1
    <3>7. \A g \in Files : IF g \notin scan' /\ files[g] # 0 THEN g \in seen' /\ srv'[uplink].files[g] = files[g]
                           ELSE g \notin seen' /\ srv'[uplink].files[g] = table[g]
      BY <2>1, <3>2, <3>3, <3>4, <3>5, <3>6
    <3>8. srv'[uplink].conf = conf
      BY <2>2, <3>1
    <3> QED
      BY <2>1, <2>u, <3>1, <3>7, <3>8 DEF UploadedSoFar, Alike
  <2> QED
    BY <2>3, <2>4, <2>5 DEF CInv
<1>6. CASE C!Listed
  <2>1. /\ scan = {} /\ C!UpStep("files", "del")
        /\ scan' = {f \in Files : table[f] # 0 /\ f \notin seen}
        /\ UNCHANGED <<upIsSync, target, read, table, seen, srv, clean>>
    BY <1>6 DEF C!Listed
  <2>u. upc = "files" /\ upc' = "del" /\ UNCHANGED <<conf, files, uplink>>
    BY <2>1 DEF C!UpStep
  <2>2. C!TypeOK'
    BY <1>t, <2>1, UpStepType DEF C!TypeOK
  <2>3. ImagesNotNewer'
    BY <1>t, <2>1, <2>u DEF ImagesNotNewer
  <2>4. UploadedSoFar'
    BY <1>t, <2>1, <2>u DEF UploadedSoFar, Alike
  <2> QED
    BY <2>2, <2>3, <2>4 DEF CInv
<1>7. ASSUME NEW f \in Files, C!SyncDel(f) PROVE CInv'
  <2>1. /\ f \in scan /\ scan' = scan \ {f} /\ C!UpStep("del", "del")
        /\ \/ uplink # 0 /\ srv' = [srv EXCEPT ![uplink].files[f] = 0] /\ UNCHANGED clean
           \/ clean' = FALSE /\ UNCHANGED srv
        /\ UNCHANGED <<upIsSync, target, read, table, seen>>
    BY <1>7 DEF C!SyncDel
  <2>u. upc = "del" /\ upc' = "del" /\ UNCHANGED <<conf, files, uplink>>
    BY <2>1 DEF C!UpStep
  <2>z. 0 \in C!Versions
    BY CloudAssumption DEF C!Versions
  <2>2. /\ srv' \in [Accounts -> C!Kept]
        /\ \A a \in Accounts : srv'[a].conf = srv[a].conf
        /\ \A a \in Accounts, g \in Files : g # f \/ a # uplink => srv'[a].files[g] = srv[a].files[g]
        /\ \A a \in Accounts : srv'[a].files[f] \in {srv[a].files[f], 0}
    <3>1. CASE srv' = srv
      BY <1>t, <3>1 DEF C!TypeOK
    <3>2. CASE uplink # 0 /\ srv' = [srv EXCEPT ![uplink].files[f] = 0]
      <4>1. /\ srv' \in [Accounts -> C!Kept]
            /\ \A a \in Accounts : srv'[a].conf = srv[a].conf
            /\ \A a \in Accounts, g \in Files :
                  srv'[a].files[g] = IF a = uplink /\ g = f THEN 0 ELSE srv[a].files[g]
        BY ZenonT(60), <1>t, <2>z, <3>2, ServerImage
      <4> QED
        BY <4>1
    <3> QED
      BY <2>1, <3>1, <3>2
  <2>3. C!TypeOK'
    BY <1>t, <2>1, <2>2, UpStepType DEF C!TypeOK
  <2>4. ImagesNotNewer'
    <3> SUFFICES ASSUME NEW g \in Files, NEW a \in Accounts
                 PROVE  /\ files[g] <= conf + 1 /\ srv'[a].files[g] <= conf + 1
                        /\ files[g] # 0 => srv'[a].files[g] <= files[g]
      BY <1>t, <2>u DEF ImagesNotNewer
    <3>1. srv'[a].files[g] = srv[a].files[g] \/ srv'[a].files[g] = 0
      BY <2>2
    <3>2. files[g] \in Nat
      BY <1>v
    <3> QED
      BY <1>t, <1>v, <3>1, <3>2 DEF ImagesNotNewer
  <2>5. UploadedSoFar'
    <3> SUFFICES ASSUME clean' PROVE UploadedSoFar'
      BY DEF UploadedSoFar
    <3>1. clean /\ uplink # 0 /\ uplink \in Accounts /\ srv[uplink].conf = conf
      BY <1>t, <1>a, <2>1, <2>u DEF UploadedSoFar
    <3>2. /\ \A g \in Files : srv[uplink].files[g] = files[g] \/ (g \in scan /\ files[g] = 0)
          /\ \A g \in scan : files[g] = 0
      BY <1>t, <2>u, <3>1 DEF UploadedSoFar, Alike
    <3>3. srv'[uplink].files[f] = 0
      BY <1>t, <2>1, <2>z, <3>1, ServerImage
    <3>4. \A g \in Files : g # f => srv'[uplink].files[g] = srv[uplink].files[g]
      BY <2>2, <3>1
    <3>5. \A g \in Files : srv'[uplink].files[g] = files[g] \/ (g \in scan' /\ files[g] = 0)
      BY <2>1, <3>2, <3>3, <3>4
    <3>6. srv'[uplink].conf = conf
      BY <2>2, <3>1
    <3> QED
      BY <2>1, <2>u, <3>1, <3>2, <3>5, <3>6 DEF UploadedSoFar, Alike
  <2> QED
    BY <2>3, <2>4, <2>5 DEF CInv
<1>8. CASE C!Deleted
  <2>1. /\ scan = {} /\ C!UpStep("del", "done")
        /\ UNCHANGED <<upIsSync, target, read, table, seen, scan, srv, clean>>
    BY <1>8 DEF C!Deleted
  <2>u. upc = "del" /\ upc' = "done" /\ UNCHANGED <<conf, files, uplink>>
    BY <2>1 DEF C!UpStep
  <2>2. C!TypeOK'
    BY <1>t, <2>1, UpStepType DEF C!TypeOK
  <2>3. ImagesNotNewer'
    BY <1>t, <2>1, <2>u DEF ImagesNotNewer
  <2>4. UploadedSoFar'
    BY <1>t, <2>1, <2>u DEF UploadedSoFar, Alike
  <2> QED
    BY <2>2, <2>3, <2>4 DEF CInv
<1> QED
  BY <1>1, <1>2, <1>3, <1>4, <1>5, <1>6, <1>7, <1>8 DEF C!Upload

(* All steps of the cloud service.                                         *)
LEMMA CloudStep == CInv /\ (C!Next \/ UNCHANGED cvars) => CInv'
<1>1. ASSUME CInv, UNCHANGED cvars PROVE CInv'
  <2>1. C!TypeOK'
    BY <1>1 DEF cvars, CInv, C!TypeOK
  <2> QED
    BY <1>1, <2>1, CloudAside DEF cvars, CInv
<1> QED
  BY <1>1, ClientStep, LinkThreadStep, UploadStep DEF C!Next

(* At the end of a full upload every image is alike, and config.conf is.   *)
LEMMA CloudMirror == CInv => C!MirrorAfterFull
<1> SUFFICES ASSUME CInv, upc = "done", target = "full", clean
             PROVE  srv[uplink] = [conf |-> conf, files |-> files]
  BY DEF C!MirrorAfterFull
<1>1. uplink \in Accounts /\ srv[uplink].conf = conf /\ \A f \in Files : srv[uplink].files[f] = files[f]
  BY DEF CInv, UploadedSoFar, Alike, C!TypeOK, C!Links
<1>2. /\ srv[uplink] \in [conf : C!Versions, files : [Files -> C!Versions]] /\ files \in [Files -> C!Versions]
  BY <1>1 DEF CInv, C!TypeOK, C!Kept
<1>3. srv[uplink].files = files
  BY <1>1, <1>2
<1> QED
  BY <1>1, <1>2, <1>3

-----------------------------------------------------------------------------
(* ECHONET Lite: a list of properties is read as it was written, in the    *)
(* short form, one by one, and in the long one, a set of bits.             *)

(* The cardinality that EchonetLite uses is that of the theorems.          *)
LEMMA SameCardinality == ASSUME NEW S PROVE E!Cardinality(S) = Cardinality(S)
  BY DEF E!Cardinality, Cardinality

LEMMA FinitelyMany == ASSUME NEW S \in SUBSET (128..255) PROVE IsFiniteSet(S)
<1>1. 128 \in Int /\ 255 \in Int
  OBVIOUS
<1>2. IsFiniteSet(128..255)
  BY ONLY <1>1, FS_Interval, Zenon
<1> QED
  BY <1>2, FS_Subset

(* SetToSeq lists all elements.                                            *)
LEMMA ListedAll == ASSUME NEW S, IsFiniteSet(S)
                   PROVE  /\ E!SetToSeq(S) \in [1..Cardinality(S) -> S]
                          /\ Cardinality(S) \in Nat
                          /\ \A x \in S : \E i \in 1..Cardinality(S) : E!SetToSeq(S)[i] = x
<1>1. Cardinality(S) \in Nat /\ ExistsBijection(1..Cardinality(S), S)
  BY FS_CardinalityType
<1>2. PICK g \in [1..Cardinality(S) -> S] : IsInjective(g)
  BY <1>1 DEF ExistsBijection, Bijection, Injection
<1>3. E!SetToSeq(S) \in [1..Cardinality(S) -> S] /\ IsInjective(E!SetToSeq(S))
  BY <1>2, SameCardinality DEF E!SetToSeq, E!IsInjective, IsInjective
<1>4. E!SetToSeq(S) \in Injection(1..Cardinality(S), S)
  BY <1>3 DEF Injection
<1>5. IsFiniteSet(1..Cardinality(S)) /\ Cardinality(1..Cardinality(S)) = Cardinality(S)
  BY <1>1, FS_Interval
<1>6. E!SetToSeq(S) \in Surjection(1..Cardinality(S), S)
  BY <1>4, <1>5, FS_Injection
<1> QED
  BY <1>1, <1>3, <1>6 DEF Surjection

LEMMA ShortList == ASSUME NEW S \in SUBSET (128..255), Cardinality(S) < 16
                   PROVE  E!ParseDataList(E!PropertyMap(S)) = S
<1>1. IsFiniteSet(S)
  BY FinitelyMany
<1>2. PICK n \in Nat : n = Cardinality(S)
  BY <1>1, FS_CardinalityType
<1>3. PICK s : s = E!SetToSeq(S)
  OBVIOUS
<1>4. s \in [1..n -> S] /\ \A x \in S : \E i \in 1..n : s[i] = x
  BY <1>1, <1>2, <1>3, ListedAll
<1>5. s \in Seq(S) /\ Len(s) = n
  BY <1>4, SeqDef, LenProperties
<1>6. SubSeq(s, 1, n) = s
  BY <1>5, SubSeqProperties
<1>7. E!PropertyMap(S) = [edt_1 |-> n, pdc_1 |-> n + 1, rest |-> s]
  BY <1>2, <1>3, SameCardinality DEF E!PropertyMap
<1>8. E!ParseDataList(E!PropertyMap(S)) = E!ToSet(SubSeq(s, 1, n))
  BY <1>2, <1>5, <1>7 DEF E!ParseDataList, E!MIN
<1>9. E!ToSet(s) = S
  <2>1. DOMAIN s = 1..n /\ \A i \in 1..n : s[i] \in S
    BY <1>4
  <2>2. E!ToSet(s) = {s[i] : i \in 1..n}
    BY <2>1 DEF E!ToSet
  <2>3. \A x \in S : x \in {s[i] : i \in 1..n}
    BY <1>4
  <2>4. \A x \in {s[i] : i \in 1..n} : x \in S
    BY <2>1
  <2> QED
    BY <2>2, <2>3, <2>4
<1> QED
  BY <1>6, <1>8, <1>9

LEMMA LongList == ASSUME NEW S \in SUBSET (128..255), ~(Cardinality(S) < 16)
                  PROVE  E!ParseDataList(E!PropertyMap(S)) = S
<1>1. IsFiniteSet(S)
  BY FinitelyMany
<1>2. PICK n \in Nat : n = Cardinality(S)
  BY <1>1, FS_CardinalityType
<1>3. PICK d : E!PropertyMap(S) = d
  OBVIOUS
<1>4. d.edt_1 = n /\ d.pdc_1 = 17 /\ d.rest = E!Bitmap(S)
  BY <1>2, <1>3, SameCardinality DEF E!PropertyMap
<1>5. /\ \A i \in 1..16 : d.rest[i] = {b \in 0..7 : 128 + 16 * b + (i - 1) \in S}
      /\ Len(d.rest) = 16
  BY <1>4 DEF E!Bitmap
<1>6. E!ParseDataList(d) = UNION {{128 + 16 * b + (i - 1) : b \in d.rest[i]} : i \in 1..16}
  <2>1. E!ParseDataList(d) = UNION {{128 + 16 * b + (i - 1) : b \in d.rest[i]} : i \in 1..E!MIN(d.pdc_1, Len(d.rest))}
    BY <1>2, <1>4 DEF E!ParseDataList
  <2>2. E!MIN(d.pdc_1, Len(d.rest)) = 16
    BY <1>4, <1>5 DEF E!MIN
  <2> QED
    BY <2>1, <2>2, Zenon
<1>7. ASSUME NEW x \in S PROVE x \in UNION {{128 + 16 * b + (i - 1) : b \in d.rest[i]} : i \in 1..16}
  <2>1. PICK b \in 0..7, i \in 1..16 : x = 128 + 16 * b + (i - 1)
    <3>1. x \in 128..255
      OBVIOUS
    <3>2. PICK y \in 0..127 : x = 128 + y
      BY <3>1
    <3>3. (y \div 16) \in 0..7 /\ (y % 16) \in 0..15 /\ y = 16 * (y \div 16) + (y % 16)
      BY <3>2
    <3>4. (y % 16) + 1 \in 1..16 /\ x = 128 + 16 * (y \div 16) + (((y % 16) + 1) - 1)
      BY <3>2, <3>3
    <3> QED
      BY <3>3, <3>4
  <2>2. b \in d.rest[i]
    BY <1>5, <2>1
  <2> QED
    BY <2>1, <2>2
<1>8. ASSUME NEW x \in UNION {{128 + 16 * b + (i - 1) : b \in d.rest[i]} : i \in 1..16} PROVE x \in S
  <2>1. PICK i \in 1..16 : x \in {128 + 16 * b + (i - 1) : b \in d.rest[i]}
    OBVIOUS
  <2>2. PICK b \in d.rest[i] : x = 128 + 16 * b + (i - 1)
    BY <2>1
  <2> QED
    BY <1>5, <2>2
<1>9. UNION {{128 + 16 * b + (i - 1) : b \in d.rest[i]} : i \in 1..16} = S
  BY <1>7, <1>8
<1> QED
  BY ONLY <1>3, <1>6, <1>9, Zenon

(* A value of one byte that is taken for a list is empty.                  *)
LEMMA OneByteList == E!ParseDataList(E!OneByte) = {}
  BY DEF E!ParseDataList, E!OneByte, E!Reading, E!MIN

-----------------------------------------------------------------------------
(* Facts about the numbers, the messages and what is known of a device.    *)

LEMMA TidNumbers == ASSUME E!TypeOK PROVE MaxTid \in Nat /\ TIDTotal \in Nat
<1>1. MaxTid \in Nat
  BY TidAssumption
<1>2. TIDTotal \in 0..MaxTid
  BY DEF E!TypeOK
<1> QED
  BY <1>1, <1>2

(* NextTID does not wrap around below the bound.                           *)
LEMMA NoWrap == ASSUME TIDTotal \in Nat, NEW n \in Nat, TIDTotal + n <= MaxTid, E!NextTID(n)
                PROVE  TIDTotal' = TIDTotal + n
<1>1. PICK s \in Nat : s = TIDTotal + n
  OBVIOUS
<1>2. s <= 65535
  BY <1>1, TidAssumption
<1>3. s % 65536 = s
  BY <1>2
<1> QED
  BY <1>1, <1>3 DEF E!NextTID

LEMMA NewCount == IsFiniteSet(NewDevices) /\ Cardinality(NewDevices) \in Nat
<1>1. NewDevices \in SUBSET Devices /\ IsFiniteSet(Devices)
  BY DevicesAssumption DEF NewDevices
<1>2. IsFiniteSet(NewDevices)
  BY <1>1, FS_Subset
<1> QED
  BY <1>2, FS_CardinalityType

LEMMA SpareLeft == ASSUME NEW n, E!Spare(n)
                   PROVE  TIDTotal + n + 3 * Cardinality(NewDevices) <= MaxTid
  BY SameCardinality DEF E!Spare, NewDevices

LEMMA ParsedList == ASSUME NEW d \in Devices
                    PROVE  /\ E!ParseDataList(E!PropertyMap(getProps[d])) = getProps[d]
                           /\ getProps[d] \in SUBSET (128..255)
<1>1. getProps[d] \in SUBSET (128..255)
  BY PropertiesAssumption
<1> QED
  BY <1>1, ShortList, LongList

(* The initial state.                                                      *)
LEMMA EchonetInit == Init => EInv
<1> SUFFICES ASSUME Init PROVE EInv
  OBVIOUS
<1>1. /\ mapping = [d \in Devices |-> E!Unknown] /\ TIDTotal = 0 /\ TidWatch = {} /\ tidlock = FALSE /\ net = {}
      /\ rpc = "recv" /\ mpc = "idle" /\ pick = E!NoPick /\ life = 0
  BY DEF Init, E!Init
<1>2. MaxTid \in Nat
  BY TidAssumption
<1>3. E!TypeOK
  <2>1. DOMAIN mapping = Devices /\ \A d \in Devices : mapping[d] = E!Unknown
    BY <1>1
  <2>2. TIDTotal \in 0..MaxTid /\ TidWatch \subseteq [tid : 0..(MaxTid - 1), no : Nat]
    BY <1>1, <1>2
  <2>3. tidlock \in BOOLEAN /\ ~tidlock
    BY <1>1
  <2> QED
    BY <1>1, <2>1, <2>2, <2>3 DEF E!TypeOK
<1>4. PickType
  <2>1. PICK d \in Devices : TRUE
    BY DevicesAssumption
  <2>2. <<d, "real">> \in E!Names
    BY <2>1 DEF E!Names
  <2>3. (CHOOSE n \in E!Names : TRUE) \in E!Names
    BY <2>2
  <2> QED
    BY <1>1, <1>2, <2>3 DEF PickType, E!NoPick
<1>5. TidsLeft
  <2>1. NewDevices = Devices
    BY <1>1 DEF NewDevices
  <2>2. PICK k \in Nat : k = Cardinality(NewDevices)
    BY NewCount
  <2>3. 3 * k <= MaxTid
    BY <2>1, <2>2, TidAssumption, TidsAssumption
  <2> QED
    BY <1>1, <1>2, <2>2, <2>3 DEF TidsLeft
<1>6. NetInv /\ WatchInv
  BY <1>1 DEF NetInv, WatchInv, E!NoPick
<1>7. TidInv
  BY <1>1 DEF TidInv, Waiting, E!NoPick
<1>8. E!PropertiesAreRight
  BY <1>1 DEF E!PropertiesAreRight, E!Unknown
<1> QED
  BY <1>1, <1>3, <1>4, <1>5, <1>6, <1>7, <1>8 DEF EInv

(* A step that leaves the devices, and the numbers that are left for new   *)
(* ones, as they are.                                                      *)
LEMMA TidsKept ==
    ASSUME TidsLeft, UNCHANGED <<mapping, TIDTotal>>, TIDTotal \in Nat,
           mpc' \in {"look", "tid"} => mpc \in {"look", "tid"}
    PROVE  TidsLeft'
<1>1. PICK k \in Nat : k = Cardinality(NewDevices)
  BY NewCount
<1>2. NewDevices' = NewDevices
  BY DEF NewDevices
<1>3. MaxTid \in Nat
  BY TidAssumption
<1> QED
  BY <1>1, <1>2, <1>3 DEF TidsLeft

(* A step of the main thread that sends nothing new and leaves Pickup's    *)
(* variables alone, from one place to another.                             *)
LEMMA MainMove ==
    ASSUME EInv, UNCHANGED <<mapping, TIDTotal, TidWatch, tidlock, net, rpc, cur, pick>>, life' \in Nat,
           mpc' \in {"idle", "tid", "timeout"},
           mpc' = "tid" => mpc = "look",
           mpc' = "timeout" => mpc = "wait",
           mpc' = "idle" => mpc = "look" \/ (mpc = "wait" /\ pick.isUpdate)
    PROVE  EInv'
<1>t. E!TypeOK /\ PickType /\ TidsLeft /\ NetInv /\ WatchInv /\ TidInv /\ E!PropertiesAreRight
  BY DEF EInv
<1>1. E!TypeOK'
  BY <1>t DEF E!TypeOK
<1>2. PickType'
  BY <1>t DEF PickType
<1>3. TidsLeft'
  <2>1. TIDTotal \in Nat
    BY <1>t DEF E!TypeOK
  <2> QED
    BY <1>t, <2>1, TidsKept
<1>4. NetInv'
  BY <1>t DEF NetInv
<1>5. WatchInv'
  BY <1>t DEF WatchInv, Waiting
<1>6. TidInv'
  BY <1>t DEF TidInv, Waiting
<1>7. E!PropertiesAreRight'
  BY <1>t DEF E!PropertiesAreRight
<1> QED
  BY <1>1, <1>2, <1>3, <1>4, <1>5, <1>6, <1>7 DEF EInv

(* GetAll and a Pickup that does not know the device send a search.        *)
LEMMA SearchSent ==
    ASSUME E!TypeOK, NetInv, NEW n \in 1..2, E!Spare(n), E!sendSearchRequest,
           UNCHANGED <<mapping, rpc, cur>>
    PROVE  /\ NetInv' /\ net \subseteq net'
           /\ TIDTotal' = TIDTotal + 1 /\ TIDTotal' \in 0..MaxTid
           /\ TIDTotal' + (n - 1) + 3 * Cardinality(NewDevices) <= MaxTid
<1>1. PICK k \in Nat : k = Cardinality(NewDevices)
  BY NewCount
<1>2. TIDTotal + n + 3 * k <= MaxTid /\ TIDTotal \in Nat /\ MaxTid \in Nat
  BY <1>1, SpareLeft, TidNumbers
<1>3. TIDTotal' = TIDTotal + 1
  <2>1. TIDTotal + 1 <= MaxTid
    BY <1>2
  <2> QED
    BY <1>2, <2>1, NoWrap DEF E!sendSearchRequest
<1>4. net' = net \cup {E!Message("search", d, TIDTotal, 0) : d \in Devices}
  BY DEF E!sendSearchRequest
<1>5. TIDTotal \in -1..(MaxTid - 1)
  BY <1>2
<1>6. \A d \in Devices : /\ E!Message("search", d, TIDTotal, 0) \in MessageType
                         /\ E!Message("search", d, TIDTotal, 0).kind = "search"
                         /\ E!Message("search", d, TIDTotal, 0).tid = TIDTotal
  BY <1>5 DEF E!Message, MessageType
<1>7. \A m \in net' : m \in net \/ (m \in MessageType /\ m.kind = "search" /\ m.tid = TIDTotal)
  BY <1>4, <1>6
<1>8. \A m \in net : m.tid \in Int
  BY DEF NetInv, MessageType
<1>9. NetInv'
  <2>1. net' \subseteq MessageType'
    BY <1>7 DEF NetInv, MessageType
  <2>2. \A m \in net' : m.kind # "changed" => m.tid < TIDTotal'
    BY <1>2, <1>3, <1>7, <1>8 DEF NetInv
  <2>3. \A m \in net' : m.kind \in {"83", "9E", "9D"} => mapping'[m.dev] # E!Unknown
    BY <1>7 DEF NetInv
  <2> QED
    BY <1>4, <2>1, <2>2, <2>3 DEF NetInv
<1> QED
  BY <1>1, <1>2, <1>3, <1>4, <1>9

LEMMA GetAllStep == ASSUME EInv, E!GetAll PROVE EInv'
<1>t. E!TypeOK /\ PickType /\ TidsLeft /\ NetInv /\ WatchInv /\ TidInv /\ E!PropertiesAreRight
  BY DEF EInv
<1>1. /\ mpc = "idle" /\ E!Spare(1) /\ E!sendSearchRequest
      /\ UNCHANGED <<mapping, TidWatch, mpc, pick, life, rpc, cur, tidlock>>
  BY DEF E!GetAll, E!Receiver
<1>2. /\ NetInv' /\ net \subseteq net' /\ TIDTotal' = TIDTotal + 1 /\ TIDTotal' \in 0..MaxTid
      /\ TIDTotal' + (1 - 1) + 3 * Cardinality(NewDevices) <= MaxTid
  BY <1>t, <1>1, SearchSent
<1>3. E!TypeOK'
  BY <1>t, <1>1, <1>2 DEF E!TypeOK
<1>4. PickType' /\ E!PropertiesAreRight' /\ WatchInv'
  BY <1>t, <1>1 DEF PickType, E!PropertiesAreRight, WatchInv, Waiting
<1>5. TidsLeft'
  <2>1. PICK k \in Nat : k = Cardinality(NewDevices)
    BY NewCount
  <2>2. NewDevices' = NewDevices
    BY <1>1 DEF NewDevices
  <2> QED
    BY <1>1, <1>2, <2>1, <2>2 DEF TidsLeft
<1>6. TidInv'
  BY <1>t, <1>1, <1>2 DEF TidInv, Waiting
<1> QED
  BY <1>1, <1>2, <1>3, <1>4, <1>5, <1>6 DEF EInv

(* Without the lock, and while no Pickup waits, there is no callback.      *)
LEMMA NoWatch == ASSUME E!TypeOK, WatchInv, ~tidlock, ~Waiting
                 PROVE  TidWatch = {} /\ rpc \notin {"callback", "update", "erase"}
  BY DEF E!TypeOK, WatchInv

LEMMA PickupStep == ASSUME EInv, NEW name \in E!Names, NEW prop \in Picked, E!Pickup(name, prop)
                    PROVE  EInv'
<1>t. E!TypeOK /\ PickType /\ TidsLeft /\ NetInv /\ WatchInv /\ TidInv /\ E!PropertiesAreRight /\ life \in Nat
  BY DEF EInv
<1>1. /\ mpc = "idle" /\ ~tidlock /\ E!Spare(2)
      /\ pick' = [E!NoPick EXCEPT !.no = life + 1, !.name = name, !.prop = prop]
      /\ \/ mpc' = "tid" /\ UNCHANGED <<TIDTotal, net>>
         \/ mpc' = "look" /\ E!sendSearchRequest
      /\ UNCHANGED <<mapping, TidWatch, life, rpc, cur, tidlock>>
  BY DEF E!Pickup, E!Receiver
<1>2. TidWatch = {} /\ rpc \notin {"callback", "update", "erase"}
  BY <1>t, <1>1, NoWatch DEF Waiting
<1>3. PICK k \in Nat : k = Cardinality(NewDevices)
  BY NewCount
<1>4. MaxTid \in Nat /\ TIDTotal \in Nat /\ TIDTotal + 2 + 3 * k <= MaxTid
  <2>1. MaxTid \in Nat /\ TIDTotal \in Nat
    BY <1>t, TidNumbers
  <2>2. TIDTotal + 2 + 3 * Cardinality(NewDevices) <= MaxTid
    BY <1>1, SpareLeft
  <2> QED
    BY <1>3, <2>1, <2>2
<1>5. NetInv' /\ TIDTotal' \in 0..MaxTid /\ TIDTotal' + 1 + 3 * k <= MaxTid /\ net \subseteq net'
  <2>1. CASE UNCHANGED <<TIDTotal, net>>
    BY <1>t, <1>1, <1>4, <2>1 DEF NetInv, MessageType
  <2>2. CASE E!sendSearchRequest
    <3>1. /\ NetInv' /\ net \subseteq net' /\ TIDTotal' = TIDTotal + 1 /\ TIDTotal' \in 0..MaxTid
      BY <1>t, <1>1, <2>2, SearchSent
    <3> QED
      BY <1>4, <3>1
  <2> QED
    BY <1>1, <2>1, <2>2
<1>6. /\ pick' = [no |-> life + 1, name |-> name, prop |-> prop, tid |-> -1, isUpdate |-> FALSE, ret |-> {},
                  heard |-> FALSE]
  BY <1>1 DEF E!NoPick
<1>7. PickType'
  BY <1>t, <1>4, <1>6 DEF PickType
<1>8. E!TypeOK'
  BY <1>t, <1>1, <1>5 DEF E!TypeOK
<1>9. TidsLeft'
  <2>1. NewDevices' = NewDevices
    BY <1>1 DEF NewDevices
  <2> QED
    BY <1>1, <1>3, <1>5, <2>1 DEF TidsLeft
<1>i. ~pick'.isUpdate /\ TidWatch' = {} /\ rpc' \notin {"callback", "update", "erase"} /\ mpc' \in {"tid", "look"}
  <2>1. pick'.isUpdate = FALSE
    BY <1>6
  <2>2. TidWatch' = {} /\ rpc' \notin {"callback", "update", "erase"} /\ mpc' \in {"tid", "look"}
    BY <1>1, <1>2
  <2> QED
    BY <2>1, <2>2
<1>10. WatchInv'
  BY <1>i DEF WatchInv, Waiting
<1>11. TidInv'
  BY <1>i DEF TidInv, Waiting
<1>12. E!PropertiesAreRight'
  BY <1>t, <1>1 DEF E!PropertiesAreRight
<1> QED
  BY <1>t, <1>1, <1>5, <1>7, <1>8, <1>9, <1>10, <1>11, <1>12 DEF EInv

LEMMA TakeTIDStep == ASSUME EInv, E!TakeTID PROVE EInv'
<1>t. E!TypeOK /\ PickType /\ TidsLeft /\ NetInv /\ WatchInv /\ TidInv /\ E!PropertiesAreRight /\ life \in Nat
  BY DEF EInv
<1>1. /\ mpc = "tid" /\ ~tidlock /\ mpc' = "append" /\ E!NextTID(1)
      /\ pick' = [pick EXCEPT !.tid = TIDTotal]
      /\ UNCHANGED <<mapping, TidWatch, net, life, rpc, cur, tidlock>>
  BY DEF E!TakeTID, E!Receiver
<1>2. TidWatch = {} /\ rpc \notin {"callback", "update", "erase"}
  BY <1>t, <1>1, NoWatch DEF Waiting
<1>3. PICK k \in Nat : k = Cardinality(NewDevices)
  BY NewCount
<1>4. MaxTid \in Nat /\ TIDTotal \in Nat
  BY <1>t, TidNumbers
<1>5. TIDTotal + 1 + 3 * k <= MaxTid
  BY <1>t, <1>1, <1>3, <1>4 DEF TidsLeft
<1>6. TIDTotal' = TIDTotal + 1
  <2>1. TIDTotal + 1 <= MaxTid
    BY <1>4, <1>5
  <2> QED
    BY <1>1, <1>4, <2>1, NoWrap
<1>7. TIDTotal' \in 0..MaxTid /\ TIDTotal \in 0..(MaxTid - 1) /\ TIDTotal' + 3 * k <= MaxTid
  BY <1>4, <1>5, <1>6
<1>8. PickType' /\ pick'.tid = TIDTotal /\ pick'.isUpdate = pick.isUpdate
  BY <1>t, <1>1, <1>7 DEF PickType
<1>9. E!TypeOK'
  BY <1>t, <1>1, <1>7 DEF E!TypeOK
<1>10. TidsLeft'
  <2>1. NewDevices' = NewDevices
    BY <1>1 DEF NewDevices
  <2> QED
    BY <1>1, <1>3, <1>4, <1>7, <2>1 DEF TidsLeft
<1>11. \A m \in net : m.tid \in Int /\ (m.kind # "changed" => m.tid < TIDTotal)
  BY <1>t DEF NetInv, MessageType
<1>12. NetInv'
  BY <1>t, <1>1, <1>4, <1>6, <1>11 DEF NetInv, MessageType
<1>13. ~pick'.isUpdate
  BY <1>t, <1>1, <1>8 DEF WatchInv
<1>14. WatchInv'
  BY <1>1, <1>2, <1>13 DEF WatchInv
<1>15. TidInv'
  BY <1>1, <1>2, <1>4, <1>6, <1>8, <1>11, <1>13 DEF TidInv, Waiting
<1>16. E!PropertiesAreRight'
  BY <1>t, <1>1 DEF E!PropertiesAreRight
<1> QED
  BY <1>t, <1>1, <1>8, <1>9, <1>10, <1>12, <1>14, <1>15, <1>16 DEF EInv

LEMMA AppendStep == ASSUME EInv, E!AppendTIDCallback PROVE EInv'
<1>t. E!TypeOK /\ PickType /\ TidsLeft /\ NetInv /\ WatchInv /\ TidInv /\ E!PropertiesAreRight /\ life \in Nat
  BY DEF EInv
<1>1. /\ mpc = "append" /\ ~tidlock /\ mpc' = "sendto"
      /\ TidWatch' = TidWatch \cup {[tid |-> pick.tid, no |-> pick.no]}
      /\ UNCHANGED <<mapping, TIDTotal, net, pick, life, rpc, cur, tidlock>>
  BY DEF E!AppendTIDCallback, E!Receiver
<1>2. TidWatch = {} /\ rpc \notin {"callback", "update", "erase"}
  BY <1>t, <1>1, NoWatch DEF Waiting
<1>3. TidWatch' = {[tid |-> pick.tid, no |-> pick.no]}
  BY <1>1, <1>2
<1>4. MaxTid \in Nat /\ TIDTotal \in Nat /\ pick.tid \in -1..(MaxTid - 1) /\ pick.no \in Nat /\ pick.tid \in 0..(TIDTotal - 1)
  <2>1. MaxTid \in Nat /\ TIDTotal \in Nat
    BY <1>t, TidNumbers
  <2>2. pick.tid \in -1..(MaxTid - 1) /\ pick.no \in Nat
    BY <1>t DEF PickType
  <2>3. pick.tid \in 0..(TIDTotal - 1)
    BY <1>t, <1>1 DEF TidInv
  <2> QED
    BY <2>1, <2>2, <2>3
<1>5. TidWatch' \subseteq [tid : 0..(MaxTid - 1), no : Nat]
  BY <1>3, <1>4
<1>6. E!TypeOK'
  BY <1>t, <1>1, <1>5 DEF E!TypeOK
<1>7. PickType' /\ E!PropertiesAreRight' /\ NetInv'
  BY <1>t, <1>1 DEF PickType, E!PropertiesAreRight, NetInv
<1>8. TidsLeft'
  BY <1>t, <1>1, <1>4, TidsKept
<1>9. WatchInv'
  BY <1>t, <1>1, <1>2, <1>3 DEF WatchInv, Waiting
<1>10. TidInv'
  BY <1>t, <1>1, <1>2 DEF TidInv, Waiting
<1> QED
  BY <1>t, <1>1, <1>6, <1>7, <1>8, <1>9, <1>10 DEF EInv

(* A message is sent or comes into the net: one that the invariant allows. *)
LEMMA NetAdds ==
    ASSUME EInv, NEW m \in MessageType, net' = net \cup {m},
           m.kind # "changed" => m.tid < TIDTotal,
           m.kind \in {"83", "9E", "9D"} => mapping[m.dev] # E!Unknown,
           m.kind # "changed" /\ m.tid = pick.tid /\ (mpc = "append" \/ Waiting)
              => mpc # "append" /\ m.dev = pick.name[1] /\ m.prop = pick.prop,
           mpc' = mpc \/ (mpc = "sendto" /\ mpc' = "wait"),
           UNCHANGED <<mapping, TIDTotal, TidWatch, tidlock, rpc, cur, pick, life>>
    PROVE  EInv'
<1>t. E!TypeOK /\ PickType /\ TidsLeft /\ NetInv /\ WatchInv /\ TidInv /\ E!PropertiesAreRight /\ life \in Nat
  BY DEF EInv
<1>1. E!TypeOK'
  BY <1>t DEF E!TypeOK
<1>2. PickType' /\ E!PropertiesAreRight'
  BY <1>t DEF PickType, E!PropertiesAreRight
<1>3. TidsLeft'
  <2>1. TIDTotal \in Nat
    BY <1>t DEF E!TypeOK
  <2> QED
    BY <1>t, <2>1, TidsKept
<1>4. NetInv'
  BY <1>t DEF NetInv
<1>5. WatchInv'
  BY <1>t DEF WatchInv, Waiting
<1>6. TidInv'
  BY <1>t DEF TidInv, Waiting
<1> QED
  BY <1>t, <1>1, <1>2, <1>3, <1>4, <1>5, <1>6 DEF EInv

LEMMA SendToStep == ASSUME EInv, E!SendTo PROVE EInv'
<1>t. E!TypeOK /\ PickType /\ TidInv
  BY DEF EInv
<1>1. /\ mpc = "sendto" /\ mpc' = "wait"
      /\ net' = net \cup {E!Message("get", pick.name[1], pick.tid, pick.prop)}
      /\ UNCHANGED <<mapping, TIDTotal, TidWatch, pick, life, rpc, cur, tidlock>>
  BY DEF E!SendTo, E!Receiver
<1>2. PICK m : m = E!Message("get", pick.name[1], pick.tid, pick.prop)
  OBVIOUS
<1>3. m.kind = "get" /\ m.dev = pick.name[1] /\ m.tid = pick.tid /\ m.prop = pick.prop
  BY <1>2 DEF E!Message
<1>4. m \in MessageType
  BY <1>t, <1>2 DEF E!Message, MessageType, PickType, E!Names
<1>5. m.tid < TIDTotal
  BY <1>t, <1>1, <1>3 DEF TidInv, Waiting, E!TypeOK
<1> QED
  BY <1>1, <1>2, <1>3, <1>4, <1>5, NetAdds

LEMMA EraseTidWatchStep == ASSUME EInv, E!EraseTidWatch PROVE EInv'
<1>t. E!TypeOK /\ PickType /\ TidsLeft /\ NetInv /\ WatchInv /\ TidInv /\ E!PropertiesAreRight /\ life \in Nat
  BY DEF EInv
<1>1. /\ mpc = "timeout" /\ ~tidlock /\ mpc' = "idle" /\ life' = life + 1
      /\ TidWatch' = {w \in TidWatch : w.tid # pick.tid}
      /\ UNCHANGED <<mapping, TIDTotal, net, pick, rpc, cur, tidlock>>
  BY DEF E!EraseTidWatch, E!Return, E!Receiver
<1>2. TidWatch' = {} /\ rpc \notin {"callback", "update", "erase"}
  BY <1>t, <1>1 DEF WatchInv, E!TypeOK
<1>3. E!TypeOK'
  BY <1>t, <1>1, <1>2 DEF E!TypeOK
<1>4. PickType' /\ E!PropertiesAreRight' /\ NetInv'
  BY <1>t, <1>1 DEF PickType, E!PropertiesAreRight, NetInv
<1>5. TidsLeft'
  <2>1. TIDTotal \in Nat
    BY <1>t DEF E!TypeOK
  <2> QED
    BY <1>t, <1>1, <2>1, TidsKept
<1>6. WatchInv'
  BY <1>t, <1>1, <1>2 DEF WatchInv
<1>7. TidInv'
  BY <1>t, <1>1 DEF TidInv, Waiting
<1> QED
  BY <1>t, <1>1, <1>3, <1>4, <1>5, <1>6, <1>7 DEF EInv

(* The steps of DoCallback.                                                *)
LEMMA CallbackSteps == ASSUME EInv, E!ReceiverStep PROVE EInv'
<1>t. E!TypeOK /\ PickType /\ TidsLeft /\ NetInv /\ WatchInv /\ TidInv /\ E!PropertiesAreRight /\ life \in Nat
  BY DEF EInv
<1>u. UNCHANGED <<mapping, TIDTotal, net, cur, mpc, life>>
  BY DEF E!ReceiverStep, E!DoCallback, E!Callback, E!Update, E!Erase, E!Main
<1>n. TIDTotal \in Nat
  BY <1>t DEF E!TypeOK
<1>l. TidsLeft' /\ E!PropertiesAreRight'
  BY <1>t, <1>u, <1>n, TidsKept DEF E!PropertiesAreRight
<1>1. CASE E!DoCallback
  <2>1. /\ rpc = "docallback" /\ UNCHANGED <<TidWatch, pick>>
        /\ rpc' = IF E!Watched THEN "callback" ELSE "recv"
        /\ tidlock' = E!Watched
    BY <1>1 DEF E!DoCallback, E!Main
  <2>2. tidlock' \in BOOLEAN /\ (tidlock' <=> rpc' = "callback") /\ rpc' \in {"callback", "recv"}
        /\ (rpc' = "callback" => \E w \in TidWatch : w.tid = cur.tid)
    BY <2>1 DEF E!Watched
  <2>3. E!TypeOK'
    BY <1>t, <1>u, <2>1, <2>2 DEF E!TypeOK
  <2>4. PickType' /\ NetInv'
    BY <1>t, <1>u, <2>1, <2>2 DEF PickType, NetInv, MessageType
  <2>5. WatchInv'
    BY <1>t, <1>u, <2>1, <2>2 DEF WatchInv, Waiting
  <2>6. TidInv'
    BY <1>t, <1>u, <2>1, <2>2 DEF TidInv, Waiting
  <2> QED
    BY <1>t, <1>u, <1>l, <2>3, <2>4, <2>5, <2>6 DEF EInv
<1>2. CASE E!Callback
  <2>1. /\ rpc = "callback" /\ rpc' = "update" /\ UNCHANGED <<TidWatch, tidlock>>
        /\ pick' = [pick EXCEPT !.ret = E!ParseDataList(E!OneByte),
                                !.heard = cur.dev = pick.name[1] /\ cur.prop = pick.prop]
    BY <1>2 DEF E!Callback
  <2>2. /\ PickType' /\ pick'.tid = pick.tid /\ pick'.no = pick.no /\ pick'.isUpdate = pick.isUpdate
        /\ pick'.name = pick.name /\ pick'.prop = pick.prop
        /\ pick'.heard <=> cur.dev = pick.name[1] /\ cur.prop = pick.prop
    BY <1>t, <2>1, OneByteList DEF PickType
  <2>3. E!TypeOK'
    BY <1>t, <1>u, <2>1 DEF E!TypeOK
  <2>4. NetInv'
    BY <1>t, <1>u, <2>1 DEF NetInv, MessageType
  <2>5. WatchInv'
    BY <1>t, <1>u, <2>1, <2>2 DEF WatchInv, Waiting
  <2>6. cur \in net /\ cur.tid = pick.tid /\ Waiting
    BY <1>t, <2>1 DEF WatchInv, NetInv
  <2>7. pick'.heard \/ \E m \in net : m.kind = "changed" /\ m.tid = pick.tid
    BY <1>t, <2>2, <2>6 DEF TidInv
  <2>8. TidInv'
    BY <1>t, <1>u, <2>1, <2>2, <2>7 DEF TidInv, Waiting
  <2> QED
    BY <1>t, <1>u, <1>l, <2>2, <2>3, <2>4, <2>5, <2>8 DEF EInv
<1>3. CASE E!Update
  <2>1. /\ rpc = "update" /\ rpc' = "erase" /\ UNCHANGED <<TidWatch, tidlock>>
        /\ pick' = [pick EXCEPT !.isUpdate = TRUE]
    BY <1>3 DEF E!Update
  <2>2. /\ PickType' /\ pick'.tid = pick.tid /\ pick'.no = pick.no /\ pick'.isUpdate
        /\ pick'.name = pick.name /\ pick'.prop = pick.prop /\ pick'.heard = pick.heard
    BY <1>t, <2>1 DEF PickType
  <2>3. E!TypeOK'
    BY <1>t, <1>u, <2>1 DEF E!TypeOK
  <2>4. NetInv'
    BY <1>t, <1>u, <2>1 DEF NetInv, MessageType
  <2>5. Waiting
    BY <1>t, <2>1 DEF WatchInv
  <2>6. WatchInv'
    BY <1>t, <1>u, <2>1, <2>2, <2>5 DEF WatchInv, Waiting
  <2>7. TidInv'
    BY <1>t, <1>u, <2>1, <2>2 DEF TidInv, Waiting
  <2> QED
    BY <1>t, <1>u, <1>l, <2>2, <2>3, <2>4, <2>6, <2>7 DEF EInv
<1>4. CASE E!Erase
  <2>1. /\ rpc = "erase" /\ rpc' = "recv" /\ tidlock' = FALSE /\ UNCHANGED pick
        /\ TidWatch' = {w \in TidWatch : w.tid # cur.tid}
    BY <1>4 DEF E!Erase, E!Main
  <2>2. TidWatch' = {} /\ pick.isUpdate
    BY <1>t, <2>1 DEF WatchInv
  <2>3. E!TypeOK'
    BY <1>t, <1>u, <2>1, <2>2 DEF E!TypeOK
  <2>4. PickType' /\ NetInv'
    BY <1>t, <1>u, <2>1 DEF PickType, NetInv, MessageType
  <2>5. WatchInv'
    BY <1>t, <1>u, <2>1, <2>2 DEF WatchInv
  <2>6. TidInv'
    BY <1>t, <1>u, <2>1, <2>2 DEF TidInv, Waiting
  <2> QED
    BY <1>t, <1>u, <1>l, <2>3, <2>4, <2>5, <2>6 DEF EInv
<1> QED
  BY <1>1, <1>2, <1>3, <1>4 DEF E!ReceiverStep

(* The receiving thread takes a message that tells it nothing about        *)
(* numbers: what is known of a device changes, or nothing does.            *)
LEMMA ParseKnown ==
    ASSUME EInv, NEW m \in net, E!Receive(m), UNCHANGED <<TIDTotal, net>>,
           DOMAIN mapping' = Devices,
           \A d \in Devices : mapping'[d] = mapping[d] \/ (mapping[d] # E!Unknown /\ mapping'[d] \in E!Known),
           E!PropertiesAreRight'
    PROVE  EInv'
<1>t. E!TypeOK /\ PickType /\ TidsLeft /\ NetInv /\ WatchInv /\ TidInv /\ E!PropertiesAreRight /\ life \in Nat
  BY DEF EInv
<1>1. /\ rpc = "recv" /\ cur' = m /\ rpc' = "docallback" /\ UNCHANGED <<TidWatch, tidlock, mpc, pick, life>>
  BY DEF E!Receive, E!Main
<1>k. \A x \in E!Known : x # E!Unknown
  BY DEF E!Known, E!Unknown
<1>2. E!TypeOK'
  BY <1>t, <1>1 DEF E!TypeOK
<1>3. PickType'
  BY <1>t, <1>1 DEF PickType
<1>4. TidsLeft'
  <2>1. NewDevices' = NewDevices
    BY <1>k DEF NewDevices
  <2> QED
    BY <1>t, <1>1, <2>1 DEF TidsLeft
<1>5. \A x \in net : x.dev \in Devices
  BY <1>t DEF NetInv, MessageType
<1>6. NetInv'
  BY <1>t, <1>1, <1>5, <1>k DEF NetInv, MessageType
<1>7. WatchInv'
  BY <1>t, <1>1 DEF WatchInv, Waiting
<1>8. TidInv'
  BY <1>t, <1>1 DEF TidInv, Waiting
<1> QED
  BY <1>t, <1>1, <1>2, <1>3, <1>4, <1>6, <1>7, <1>8 DEF EInv

(* A new device is entered and asked for more, with three new numbers.     *)
LEMMA ParseNew ==
    ASSUME EInv, NEW m \in net, E!ParseResponsD6(m), mapping[m.dev] = E!Unknown
    PROVE  EInv'
<1>t. E!TypeOK /\ PickType /\ TidsLeft /\ NetInv /\ WatchInv /\ TidInv /\ E!PropertiesAreRight /\ life \in Nat
  BY DEF EInv
<1>1. /\ rpc = "recv" /\ cur' = m /\ rpc' = "docallback" /\ UNCHANGED <<TidWatch, tidlock, mpc, pick, life>>
  BY DEF E!ParseResponsD6, E!Receive, E!Main
<1>2. PICK d \in Devices : d = m.dev
  BY <1>t DEF NetInv, MessageType
<1>3. /\ mapping' = [mapping EXCEPT ![d].id = "anonymous"] /\ E!NextTID(3)
      /\ net' = net \cup {E!Message("83", d, TIDTotal, 0), E!Message("9E", d, TIDTotal + 1, 0),
                          E!Message("9D", d, TIDTotal + 2, 0)}
  BY <1>2 DEF E!ParseResponsD6
<1>4. PICK new : new = [id |-> "anonymous", setProp |-> {}, getProp |-> {}]
  OBVIOUS
<1>5. new \in E!Known /\ new # E!Unknown /\ new.getProp = {} /\ new.setProp = {}
  BY <1>4 DEF E!Known, E!Unknown
<1>6. mapping' = [mapping EXCEPT ![d] = new]
  <2>1. mapping[d] = E!Unknown
    BY <1>2
  <2>2. [mapping[d] EXCEPT !.id = "anonymous"] = new
    BY <2>1, <1>4 DEF E!Unknown
  <2>3. mapping' = [mapping EXCEPT ![d] = [mapping[d] EXCEPT !.id = "anonymous"]]
    BY ONLY <1>3
  <2> QED
    BY ONLY <2>2, <2>3
<1>7. DOMAIN mapping = Devices /\ DOMAIN mapping' = Devices
      /\ \A x \in Devices : mapping'[x] = IF x = d THEN new ELSE mapping[x]
  BY <1>t, <1>6 DEF E!TypeOK
<1>8. PICK k \in Nat : k = Cardinality(NewDevices)
  BY NewCount
<1>9. NewDevices' = NewDevices \ {d} /\ d \in NewDevices
  BY <1>2, <1>5, <1>7 DEF NewDevices
<1>10. Cardinality(NewDevices \ {d}) = k - 1 /\ k - 1 \in Nat
  <2>1. Cardinality(NewDevices \ {d}) = k - 1
    BY <1>8, <1>9, NewCount, FS_RemoveElement
  <2>2. IsFiniteSet(NewDevices \ {d})
    BY NewCount, FS_RemoveElement
  <2> QED
    BY <2>1, <2>2, FS_CardinalityType
<1>11. MaxTid \in Nat /\ TIDTotal \in Nat
  BY <1>t, TidNumbers
<1>12. PICK p \in {0, 1} : p = (IF mpc \in {"look", "tid"} THEN 1 ELSE 0)
  OBVIOUS
<1>13. TIDTotal + p + 3 * k <= MaxTid
  BY <1>t, <1>8, <1>12 DEF TidsLeft
<1>14. TIDTotal' = TIDTotal + 3
  <2>1. TIDTotal + 3 <= MaxTid
    BY <1>10, <1>11, <1>13
  <2> QED
    BY <1>3, <1>11, <2>1, NoWrap
<1>15. /\ TIDTotal' + p + 3 * (k - 1) <= MaxTid /\ TIDTotal' \in 0..MaxTid
       /\ TIDTotal + 2 <= MaxTid - 1
  BY <1>10, <1>11, <1>13, <1>14
<1>16. TidsLeft'
  <2>1. Cardinality(NewDevices') = k - 1
    BY <1>9, <1>10
  <2>2. p = (IF mpc' \in {"look", "tid"} THEN 1 ELSE 0)
    BY <1>1, <1>12
  <2> QED
    BY <1>15, <2>1, <2>2 DEF TidsLeft
<1>17. E!TypeOK'
  BY <1>t, <1>1, <1>5, <1>7, <1>15 DEF E!TypeOK
<1>18. \A x \in net' : x \in net \/ (/\ x \in MessageType /\ x.kind \in {"83", "9E", "9D"} /\ x.dev = d
                                     /\ x.tid \in TIDTotal..(TIDTotal + 2))
  <2>1. ASSUME NEW kind \in {"83", "9E", "9D"}, NEW t \in TIDTotal..(TIDTotal + 2), NEW x, x = E!Message(kind, d, t, 0)
        PROVE  /\ x \in MessageType /\ x.kind \in {"83", "9E", "9D"} /\ x.dev = d
               /\ x.tid \in TIDTotal..(TIDTotal + 2)
    <3>1. t \in -1..(MaxTid - 1)
      BY <1>11, <1>15
    <3> QED
      BY <2>1, <3>1 DEF E!Message, MessageType
  <2>2. /\ TIDTotal \in TIDTotal..(TIDTotal + 2) /\ TIDTotal + 1 \in TIDTotal..(TIDTotal + 2)
        /\ TIDTotal + 2 \in TIDTotal..(TIDTotal + 2)
    BY <1>11
  <2> QED
    BY <1>3, <2>1, <2>2
<1>19. \A x \in net : x.dev \in Devices /\ x.tid \in Int
  BY <1>t DEF NetInv, MessageType
<1>20. NetInv'
  <2>1. net' \subseteq MessageType'
    BY <1>t, <1>18 DEF NetInv, MessageType
  <2>2. \A x \in net' : x.kind # "changed" => x.tid < TIDTotal'
    BY <1>t, <1>11, <1>14, <1>18, <1>19 DEF NetInv
  <2>3. \A x \in net' : x.kind \in {"83", "9E", "9D"} => mapping'[x.dev] # E!Unknown
    BY <1>t, <1>5, <1>7, <1>18, <1>19 DEF NetInv
  <2> QED
    BY <1>1, <1>3, <2>1, <2>2, <2>3 DEF NetInv
<1>21. PickType'
  BY <1>t, <1>1 DEF PickType
<1>22. WatchInv'
  BY <1>t, <1>1 DEF WatchInv, Waiting
<1>23. TidInv'
  <2>1. mpc = "append" \/ Waiting => pick.tid \in 0..(TIDTotal - 1) /\ pick.tid \in 0..(TIDTotal' - 1)
    BY <1>t, <1>11, <1>14 DEF TidInv
  <2>2. \A x \in net' : (mpc = "append" \/ Waiting) /\ x.tid = pick.tid => x \in net
    BY <1>11, <1>18, <2>1
  <2>3. net \subseteq net'
    BY <1>3
  <2> QED
    BY <1>t, <1>1, <2>1, <2>2, <2>3 DEF TidInv, Waiting
<1>24. E!PropertiesAreRight'
  BY <1>t, <1>5, <1>7 DEF E!PropertiesAreRight
<1> QED
  BY <1>t, <1>1, <1>16, <1>17, <1>20, <1>21, <1>22, <1>23, <1>24 DEF EInv

LEMMA ParseStep == ASSUME EInv, NEW m \in net, E!Parse(m) PROVE EInv'
<1>t. E!TypeOK /\ NetInv /\ E!PropertiesAreRight
  BY DEF EInv
<1>d. m.dev \in Devices
  BY <1>t DEF NetInv, MessageType
<1>m. DOMAIN mapping = Devices /\ \A d \in Devices : mapping[d] = E!Unknown \/ mapping[d] \in E!Known
  BY <1>t DEF E!TypeOK
<1>p. PICK props \in SUBSET (128..255) : /\ props = getProps[m.dev]
                                         /\ props = E!ParseDataList(E!PropertyMap(getProps[m.dev]))
  BY <1>d, ParsedList
<1>1. CASE E!ParseResponsD6(m)
  <2>1. CASE mapping[m.dev] = E!Unknown
    BY <1>1, <2>1, ParseNew
  <2>2. CASE mapping[m.dev] # E!Unknown
    <3>1. E!Receive(m) /\ UNCHANGED <<mapping, TIDTotal, net>>
      BY <1>1, <2>2 DEF E!ParseResponsD6
    <3> QED
      BY <1>t, <1>m, <3>1, ParseKnown DEF E!PropertiesAreRight
  <2> QED
    BY <2>1, <2>2
<1>2. CASE E!ParseOther(m)
  <2>1. E!Receive(m) /\ UNCHANGED <<mapping, TIDTotal, net>>
    BY <1>2 DEF E!ParseOther
  <2> QED
    BY <1>t, <1>m, <2>1, ParseKnown DEF E!PropertiesAreRight
<1>3. CASE E!ParseRespons9E(m)
  <2>1. /\ E!Receive(m) /\ UNCHANGED <<TIDTotal, net>> /\ m.kind = "9E"
        /\ mapping' = [mapping EXCEPT ![m.dev].setProp = props]
    BY <1>3, <1>p DEF E!ParseRespons9E
  <2>2. mapping[m.dev] # E!Unknown /\ mapping[m.dev] \in E!Known
    BY <1>t, <1>d, <1>m, <2>1 DEF NetInv
  <2>3. PICK new : new = [mapping[m.dev] EXCEPT !.setProp = props]
    OBVIOUS
  <2>4. new \in E!Known /\ new.setProp = props /\ new.getProp = mapping[m.dev].getProp
    BY <2>2, <2>3 DEF E!Known
  <2>5. DOMAIN mapping' = Devices /\ \A d \in Devices : mapping'[d] = IF d = m.dev THEN new ELSE mapping[d]
    BY <1>m, <2>1, <2>3
  <2>6. E!PropertiesAreRight'
    BY <1>t, <1>p, <2>4, <2>5 DEF E!PropertiesAreRight
  <2> QED
    BY <2>1, <2>2, <2>4, <2>5, <2>6, ParseKnown
<1>4. CASE E!ParseRespons9D(m)
  <2>1. /\ E!Receive(m) /\ UNCHANGED <<TIDTotal, net>> /\ m.kind = "9D"
        /\ mapping' = [mapping EXCEPT ![m.dev].getProp = props]
    BY <1>4, <1>p DEF E!ParseRespons9D
  <2>2. mapping[m.dev] # E!Unknown /\ mapping[m.dev] \in E!Known
    BY <1>t, <1>d, <1>m, <2>1 DEF NetInv
  <2>3. PICK new : new = [mapping[m.dev] EXCEPT !.getProp = props]
    OBVIOUS
  <2>4. new \in E!Known /\ new.getProp = props /\ new.setProp = mapping[m.dev].setProp
    BY <2>2, <2>3 DEF E!Known
  <2>5. DOMAIN mapping' = Devices /\ \A d \in Devices : mapping'[d] = IF d = m.dev THEN new ELSE mapping[d]
    BY <1>m, <2>1, <2>3
  <2>6. E!PropertiesAreRight'
    BY <1>t, <1>p, <2>4, <2>5 DEF E!PropertiesAreRight
  <2> QED
    BY <2>1, <2>2, <2>4, <2>5, <2>6, ParseKnown
<1>5. CASE E!ParseRespons83(m)
  <2>1. /\ E!Receive(m) /\ UNCHANGED <<TIDTotal, net>> /\ m.kind = "83"
        /\ mapping' = [mapping EXCEPT ![m.dev].id = "real"] \/ UNCHANGED mapping
    BY <1>5 DEF E!ParseRespons83
  <2>2. mapping[m.dev] # E!Unknown /\ mapping[m.dev] \in E!Known
    BY <1>t, <1>d, <1>m, <2>1 DEF NetInv
  <2>3. PICK new : new = [mapping[m.dev] EXCEPT !.id = "real"]
    OBVIOUS
  <2>4. new \in E!Known /\ new.getProp = mapping[m.dev].getProp /\ new.setProp = mapping[m.dev].setProp
    BY <2>2, <2>3 DEF E!Known
  <2>5. CASE mapping' = [mapping EXCEPT ![m.dev].id = "real"]
    <3>1. DOMAIN mapping' = Devices /\ \A d \in Devices : mapping'[d] = IF d = m.dev THEN new ELSE mapping[d]
      BY <1>m, <2>5, <2>3
    <3>2. E!PropertiesAreRight'
      BY <1>t, <2>4, <3>1 DEF E!PropertiesAreRight
    <3> QED
      BY <2>1, <2>2, <2>4, <3>1, <3>2, ParseKnown
  <2>6. CASE UNCHANGED mapping
    BY <1>t, <1>m, <2>1, <2>6, ParseKnown DEF E!PropertiesAreRight
  <2> QED
    BY <2>1, <2>5, <2>6
<1> QED
  BY <1>1, <1>2, <1>3, <1>4, <1>5 DEF E!Parse

(* What devices send.                                                      *)
LEMMA DeviceSteps ==
    ASSUME EInv,
           \/ \E m \in net : E!Answer(m)
           \/ \E d \in Devices : \/ E!Hello(d)
                                 \/ \E prop \in Picked, tid \in 0..(MaxTid - 1) : E!Changed(d, prop, tid)
    PROVE  EInv'
<1>t. E!TypeOK /\ PickType /\ NetInv /\ TidInv
  BY DEF EInv
<1>n. MaxTid \in Nat /\ TIDTotal \in Nat
  BY <1>t, TidNumbers
<1>u. UNCHANGED <<mapping, TIDTotal, TidWatch, tidlock, rpc, cur, pick, life, mpc>>
  BY DEF E!Answer, E!Hello, E!Changed, E!Main, E!Receiver
<1>1. ASSUME NEW m \in net, E!Answer(m) PROVE EInv'
  <2>1. PICK x : x = [m EXCEPT !.from = "device"]
    OBVIOUS
  <2>2. net' = net \cup {x}
    BY <1>1, <2>1 DEF E!Answer
  <2>3. m \in MessageType
    BY <1>t DEF NetInv
  <2>4. x \in MessageType /\ x.kind = m.kind /\ x.tid = m.tid /\ x.dev = m.dev /\ x.prop = m.prop
    BY <2>1, <2>3 DEF MessageType
  <2>5. /\ x.kind # "changed" => x.tid < TIDTotal
        /\ x.kind \in {"83", "9E", "9D"} => mapping[x.dev] # E!Unknown
    BY <1>t, <2>4 DEF NetInv
  <2>6. x.kind # "changed" /\ x.tid = pick.tid /\ (mpc = "append" \/ Waiting)
              => mpc # "append" /\ x.dev = pick.name[1] /\ x.prop = pick.prop
    BY <1>t, <2>4 DEF TidInv, Waiting
  <2> QED
    BY <1>u, <2>2, <2>4, <2>5, <2>6, NetAdds
<1>2. ASSUME NEW d \in Devices, E!Hello(d) PROVE EInv'
  <2>1. PICK x : x = E!Told("hello", d, -1, 0)
    OBVIOUS
  <2>2. net' = net \cup {x}
    BY <1>2, <2>1 DEF E!Hello
  <2>3. x \in MessageType /\ x.kind = "hello" /\ x.tid = -1
    BY <1>n, <2>1 DEF E!Told, MessageType
  <2>4. x.tid < TIDTotal
    BY <1>n, <2>3
  <2>5. mpc = "append" \/ Waiting => x.tid # pick.tid
    BY <1>t, <1>n, <2>3 DEF TidInv
  <2> QED
    BY <1>u, <2>2, <2>3, <2>4, <2>5, NetAdds
<1>3. ASSUME NEW d \in Devices, NEW prop \in Picked, NEW tid \in 0..(MaxTid - 1), E!Changed(d, prop, tid) PROVE EInv'
  <2>1. PICK x : x = E!Told("changed", d, tid, prop)
    OBVIOUS
  <2>2. net' = net \cup {x}
    BY <1>3, <2>1 DEF E!Changed
  <2>3. x \in MessageType /\ x.kind = "changed"
    BY <1>n, <2>1 DEF E!Told, MessageType
  <2> QED
    BY <1>u, <2>2, <2>3, NetAdds
<1> QED
  BY <1>1, <1>2, <1>3

(* All steps.                                                              *)
LEMMA EchonetStep == EInv /\ (E!Next \/ UNCHANGED evars) => EInv'
<1> SUFFICES ASSUME EInv, E!Next \/ UNCHANGED evars PROVE EInv'
  OBVIOUS
<1>l. life \in Nat
  BY DEF EInv
<1>1. CASE E!MainStep
  <2>1. CASE E!LookFound \/ E!LookTimeout \/ E!Updated \/ E!Timeout
    BY <1>l, <2>1, MainMove DEF E!LookFound, E!LookTimeout, E!Updated, E!Timeout, E!Return, E!Receiver
  <2> QED
    BY <1>1, <2>1, TakeTIDStep, AppendStep, SendToStep, EraseTidWatchStep DEF E!MainStep
<1>2. CASE UNCHANGED evars
  <2>1. UNCHANGED <<mapping, TIDTotal, TidWatch, tidlock, net, rpc, cur, mpc, pick, life>>
    BY <1>2 DEF evars
  <2>2. TIDTotal \in Nat
    BY DEF EInv, E!TypeOK
  <2>3. TidsLeft'
    BY <2>1, <2>2, TidsKept DEF EInv
  <2> QED
    BY <2>1, <2>3 DEF EInv, E!TypeOK, PickType, NetInv, WatchInv, TidInv, Waiting, E!PropertiesAreRight
<1> QED
  BY <1>1, <1>2, GetAllStep, PickupStep, CallbackSteps, ParseStep, DeviceSteps DEF E!Next

(* What reaches Pickup.                                                    *)
LEMMA EchonetRight == EInv => E!CallbackAlive /\ E!AnswerFindsWatch /\ E!AnswerIsOurs /\ E!PropertiesAreRight
<1> SUFFICES ASSUME EInv PROVE E!CallbackAlive /\ E!AnswerFindsWatch /\ E!AnswerIsOurs /\ E!PropertiesAreRight
  OBVIOUS
<1>t. NetInv /\ WatchInv /\ TidInv /\ E!PropertiesAreRight
  BY DEF EInv
<1>1. E!CallbackAlive
  BY <1>t DEF WatchInv, Waiting, E!CallbackAlive
<1>2. E!AnswerFindsWatch
  BY <1>t DEF WatchInv, TidInv, E!AnswerFindsWatch
<1>3. E!AnswerIsOurs
  BY <1>t DEF TidInv, E!AnswerIsOurs
<1> QED
  BY <1>t, <1>1, <1>2, <1>3

-----------------------------------------------------------------------------
(* The three together.                                                     *)
LEMMA Inductive == Spec => []IInv
<1>1. Init => IInv
  BY CloudInit, BoardInit, EchonetInit DEF IInv
<1>2. IInv /\ [Next]_vars => IInv'
  BY CloudStep, BoardStep, EchonetStep DEF IInv, Next, vars
<1> QED
  BY <1>1, <1>2, PTL DEF Spec

(* Types, with who has which lock when (ColudSyncPooling.h,                *)
(* CapeBord_IRR.h, EcoNetLiteServer.h).                                    *)
THEOREM TypeCorrect == Spec => []TypeOK
<1>1. IInv => TypeOK
  BY DEF IInv, CInv, LInv, EInv, TypeOK
<1> QED
  BY <1>1, Inductive, PTL

(* A full upload without a failure leaves the server with the settings and *)
(* images that are here, whichever images it had before and however many   *)
(* clients ask for uploads meanwhile (ColudSyncConfig.cpp:140-195,         *)
(* 236-329).                                                               *)
THEOREM FullUploadMirrors == Spec => []MirrorAfterFull
<1>1. IInv => MirrorAfterFull
  BY CloudMirror DEF IInv, MirrorAfterFull
<1> QED
  BY <1>1, Inductive, PTL

(* While a code is learnt on the main thread nobody else uses the board,   *)
(* for any number of workers (CapeBord_IRR.cpp:66-78).                     *)
THEOREM CaptureIsAlone == Spec => []CaptureAlone
<1>1. IInv => CaptureAlone
  BY BoardAlone DEF IInv, CaptureAlone
<1> QED
  BY <1>1, Inductive, PTL

(* What an appliance sends reaches the call that asked for it, while that  *)
(* call lasts, and its list of properties is read as it was meant, for any *)
(* number of appliances and any set of properties                          *)
(* (EcoNetLiteServer.cpp:152-193, 392-410, 635-683,                        *)
(* NetDeviceEcoNetLite.cpp:916-949).                                       *)
THEOREM AnswersReachTheirCall == Spec => []AnswersAreRight
<1>1. IInv => AnswersAreRight
  BY EchonetRight DEF IInv, AnswersAreRight
<1> QED
  BY <1>1, Inductive, PTL
=============================================================================
