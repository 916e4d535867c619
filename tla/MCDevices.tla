----------------------------- MODULE MCDevices -----------------------------
(***************************************************************************)
(* Three components whose threads wait for a device or a server, checked   *)
(* in one run: a behaviour is one of CloudSync, of DeviceLocks or of       *)
(* EchonetLite, as part says; the others stay in an initial state.         *)
(***************************************************************************)
EXTENDS Integers, FiniteSets

CONSTANTS Clients, Files, Accounts, MaxConf,
          Workers,
          Devices, getProps, Picked, MaxAnnounced, MaxTid

VARIABLES part,
          conf, files, todo, id, isSyncServerOK, linkid, isSync, lpc, request, uplink, SyncTarget,
          upIsSync, upc, target, read, table, seen, scan, srv, clean,
          pc, updatelock, lock, queue,
          mapping, TIDTotal, TidWatch, tidlock, net, rpc, cur, mpc, pick, life

C == INSTANCE CloudSync
L == INSTANCE DeviceLocks
E == INSTANCE EchonetLite WITH lock <- tidlock

cvars == <<conf, files, todo, id, isSyncServerOK, linkid, isSync, lpc, request, uplink, SyncTarget,
           upIsSync, upc, target, read, table, seen, scan, srv, clean>>
lvars == <<pc, updatelock, lock, queue>>
evars == <<mapping, TIDTotal, TidWatch, tidlock, net, rpc, cur, mpc, pick, life>>
vars == <<part, cvars, lvars, evars>>

(* 0 is no link. The threads of the program have names of their own. A     *)
(* device has properties 80 to FF; the bound on the transaction numbers is *)
(* one of 16 bits and leaves the three that each new device takes.         *)
ASSUME CloudAssumption == 0 \notin Accounts /\ MaxConf \in Nat
ASSUME BoardAssumption == Workers \cap {L!Main, L!SensorThread, L!Nobody} = {}
ASSUME DevicesAssumption == IsFiniteSet(Devices) /\ Devices # {}
ASSUME PropertiesAssumption == getProps \in [Devices -> SUBSET (128..255)]
ASSUME TidAssumption == MaxTid \in Nat /\ MaxTid <= 65535
ASSUME TidsAssumption == 3 * Cardinality(Devices) <= MaxTid

MCAccounts == {1, 2}
(* The shortest list in the long form.                                     *)
MCgetProps == [d \in Devices |-> (128..141) \cup {176, 255}]

Init == /\ part \in {"cloud", "board", "echonet"}
        /\ C!Init /\ L!Init /\ E!Init
        /\ part # "cloud" => id = (CHOOSE a \in Accounts : TRUE) /\ isSyncServerOK

Next == \/ part = "cloud" /\ C!Next /\ UNCHANGED <<part, lvars, evars>>
        \/ part = "board" /\ L!Next /\ UNCHANGED <<part, cvars, evars>>
        \/ part = "echonet" /\ E!Next /\ UNCHANGED <<part, cvars, lvars>>

Spec == Init /\ [][Next]_vars

-----------------------------------------------------------------------------
(* The types of the three components, with what the locks imply            *)
(* (ColudSyncPooling.h, CapeBord_IRR.h, EcoNetLiteServer.h).               *)
TypeOK == /\ part = "cloud" => C!TypeOK
          /\ part = "board" => L!TypeOK
          /\ part = "echonet" => E!TypeOK

(* An upload of everything without a failure leaves the server with what   *)
(* is here (ColudSyncConfig.cpp:140-195, 236-329).                         *)
MirrorAfterFull == part = "cloud" => C!MirrorAfterFull

(* While a code is learnt on the main thread, nobody else uses the board   *)
(* (CapeBord_IRR.cpp:66-78).                                               *)
CaptureAlone == part = "board" => L!CaptureAlone

(* What an appliance sends reaches the call that asked for it, while that  *)
(* call lasts, and its list of properties is read as it was meant          *)
(* (EcoNetLiteServer.cpp:152-193, 392-410, 635-683,                        *)
(* NetDeviceEcoNetLite.cpp:916-949).                                       *)
AnswersAreRight == part = "echonet" => /\ E!CallbackAlive /\ E!AnswerFindsWatch /\ E!AnswerIsOurs
                                       /\ E!PropertiesAreRight
=============================================================================
