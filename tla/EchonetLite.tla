---------------------------- MODULE EchonetLite ----------------------------
(***************************************************************************)
(* Appliances on the home network (EcoNetLiteServer, NetDeviceEcoNetLite). *)
(* A receiving thread enters the devices that announce themselves or       *)
(* answer a search, and asks each new one for its identification and for   *)
(* the properties it can set and get. A script on the main thread reads a  *)
(* property with Pickup: it registers a callback for the transaction       *)
(* number of its request, and looks for two seconds whether the receiving  *)
(* thread has called it; the callback refers to its local variables.       *)
(*                                                                         *)
(* The messages are UDP: any of them may be lost, late, or come twice, so  *)
(* that net is the set of all that was ever sent.                          *)
(***************************************************************************)
EXTENDS Integers, Sequences, SequencesExt, FiniteSets

CONSTANTS Devices,      \* an address and an object code each
          getProps,     \* the properties each device has
          Picked,       \* the properties that scripts read
          MaxAnnounced, \* bound on what devices tell on their own; it may carry any number, also one of ours
          MaxTid        \* bound on the numbers used, below 2^16

VARIABLES mapping,      \* MappingList
          TIDTotal,
          TidWatch,     \* the numbers that have a callback, of the Pickup under way or an earlier one
          lock,         \* held by DoCallback
          net,
          rpc, cur,     \* of the receiving thread: its place and its message
          mpc,          \* of the main thread
          pick,         \* the local variables of Pickup
          life          \* how many Pickup have returned

vars == <<mapping, TIDTotal, TidWatch, lock, net, rpc, cur, mpc, pick, life>>

-----------------------------------------------------------------------------
(* A list of properties has their number in its first byte. Up to 15 are   *)
(* given one by one, more as 16 bytes, here the set of their bits.         *)
Bitmap(S) == [i \in 1..16 |-> {b \in 0..7 : 128 + 16 * b + (i - 1) \in S}]
PropertyMap(S) == [edt_1 |-> Cardinality(S), pdc_1 |-> IF Cardinality(S) < 16 THEN Cardinality(S) + 1 ELSE 17,
                   rest |-> IF Cardinality(S) < 16 THEN SetToSeq(S) ELSE Bitmap(S)]

(* A property that is read has one byte, which comes first.                *)
Reading == 48
OneByte == [edt_1 |-> Reading, pdc_1 |-> 1, rest |-> <<>>]

MIN(a, b) == IF a < b THEN a ELSE b

(* Mutant of ParseDataList: the bits of a byte are neighbours.             *)
ParseDataListByRow(data) ==
    IF data.edt_1 < 16 THEN ToSet(SubSeq(data.rest, 1, MIN(data.edt_1, Len(data.rest))))
    ELSE UNION {{128 + 8 * (i - 1) + b : b \in data.rest[i]} : i \in 1..MIN(data.pdc_1, Len(data.rest))}

ParseDataList(data) ==
    IF data.edt_1 < 16 THEN ToSet(SubSeq(data.rest, 1, MIN(data.edt_1, Len(data.rest))))
    ELSE UNION {{128 + 16 * b + (i - 1) : b \in data.rest[i]} : i \in 1..MIN(data.pdc_1, Len(data.rest))}

-----------------------------------------------------------------------------
Unknown == [id |-> "unknown", setProp |-> {}, getProp |-> {}]
Names == Devices \X {"anonymous", "real"}
Found(name) == mapping[name[1]].id = name[2]

(* What we send, and what devices send: an answer is its request, come     *)
(* back.                                                                   *)
Message(kind, dev, tid, prop) == [from |-> "us", kind |-> kind, dev |-> dev, tid |-> tid, prop |-> prop]
Told(kind, dev, tid, prop) == [from |-> "device", kind |-> kind, dev |-> dev, tid |-> tid, prop |-> prop]
NoPick == [no |-> 0, name |-> CHOOSE n \in Names : TRUE, prop |-> 0, tid |-> -1,
           isUpdate |-> FALSE, ret |-> {}, heard |-> FALSE]

Known == [id : {"anonymous", "real"}, setProp : SUBSET (128..255), getProp : SUBSET (128..255)]

TypeOK == /\ DOMAIN mapping = Devices
          /\ \A d \in Devices : mapping[d] = Unknown \/ mapping[d] \in Known
          /\ TIDTotal \in 0..MaxTid /\ lock \in BOOLEAN
          /\ TidWatch \subseteq [tid : 0..(MaxTid - 1), no : Nat]
          /\ rpc \in {"recv", "docallback", "callback", "update", "erase"}
          /\ lock <=> rpc \in {"callback", "update", "erase"}
          /\ mpc \in {"idle", "look", "tid", "append", "sendto", "wait", "timeout"}

Init == /\ mapping = [d \in Devices |-> Unknown]
        /\ TIDTotal = 0 /\ TidWatch = {} /\ lock = FALSE /\ net = {}
        /\ rpc = "recv" /\ cur = Message("none", CHOOSE d \in Devices : TRUE, -1, 0)
        /\ mpc = "idle" /\ pick = NoPick /\ life = 0

Main == <<mpc, pick, life>>
Receiver == <<rpc, cur, lock>>

(* NextTID, n times.                                                       *)
NextTID(n) == TIDTotal' = (TIDTotal + n) % 65536

(* A call that needs up to n numbers is made if the bound leaves as many,  *)
(* and those for the devices that may still turn up.                       *)
Spare(n) == TIDTotal + n + 3 * Cardinality({d \in Devices : mapping[d] = Unknown}) <= MaxTid

-----------------------------------------------------------------------------
(* The main thread. A search is a multicast.                               *)
sendSearchRequest == /\ NextTID(1)
                     /\ net' = net \cup {Message("search", d, TIDTotal, 0) : d \in Devices}

(* NetDevice::GetAll searches and returns the names known already.         *)
GetAll == /\ mpc = "idle" /\ ~lock /\ Spare(1)
          /\ sendSearchRequest
          /\ UNCHANGED <<mapping, TidWatch, mpc, pick, life>> /\ UNCHANGED Receiver

Pickup(name, prop) ==
    /\ mpc = "idle" /\ ~lock /\ Spare(2)
    /\ pick' = [NoPick EXCEPT !.no = life + 1, !.name = name, !.prop = prop]
    /\ IF Found(name) THEN mpc' = "tid" /\ UNCHANGED <<TIDTotal, net>>
       ELSE mpc' = "look" /\ sendSearchRequest
    /\ UNCHANGED <<mapping, TidWatch, life>> /\ UNCHANGED Receiver

LookFound == /\ mpc = "look" /\ ~lock /\ Found(pick.name)
             /\ mpc' = "tid"
             /\ UNCHANGED <<mapping, TIDTotal, TidWatch, net, pick, life>> /\ UNCHANGED Receiver

Return == mpc' = "idle" /\ life' = life + 1

LookTimeout == /\ mpc = "look" /\ Return
               /\ UNCHANGED <<mapping, TIDTotal, TidWatch, net, pick>> /\ UNCHANGED Receiver

TakeTID == /\ mpc = "tid" /\ ~lock /\ mpc' = "append"
           /\ NextTID(1) /\ pick' = [pick EXCEPT !.tid = TIDTotal]
           /\ UNCHANGED <<mapping, TidWatch, net, life>> /\ UNCHANGED Receiver

(* Mutant of AppendTIDCallback: the request is sent first, by the time of  *)
(* this step it is under way.                                              *)
AppendTIDCallbackLate == /\ mpc = "append" /\ mpc' = "sendto"
                         /\ net' = net \cup {Message("get", pick.name[1], pick.tid, pick.prop)}
                         /\ UNCHANGED <<mapping, TIDTotal, TidWatch, pick, life>> /\ UNCHANGED Receiver

AppendTIDCallback == /\ mpc = "append" /\ ~lock /\ mpc' = "sendto"
                     /\ TidWatch' = TidWatch \cup {[tid |-> pick.tid, no |-> pick.no]}
                     /\ UNCHANGED <<mapping, TIDTotal, net, pick, life>> /\ UNCHANGED Receiver

SendTo == /\ mpc = "sendto" /\ mpc' = "wait"
          /\ net' = net \cup {Message("get", pick.name[1], pick.tid, pick.prop)}
          /\ UNCHANGED <<mapping, TIDTotal, TidWatch, pick, life>> /\ UNCHANGED Receiver

(* isUpdate is read without the lock.                                      *)
Updated == /\ mpc = "wait" /\ pick.isUpdate /\ Return
           /\ UNCHANGED <<mapping, TIDTotal, TidWatch, net, pick>> /\ UNCHANGED Receiver

Timeout == /\ mpc = "wait" /\ mpc' = "timeout"
           /\ UNCHANGED <<mapping, TIDTotal, TidWatch, net, pick, life>> /\ UNCHANGED Receiver

(* Mutant of EraseTidWatch: the callback stays.                            *)
EraseTidWatchNot == /\ mpc = "timeout" /\ Return
                    /\ UNCHANGED <<mapping, TIDTotal, TidWatch, net, pick>> /\ UNCHANGED Receiver

EraseTidWatch == /\ mpc = "timeout" /\ ~lock /\ Return
                 /\ TidWatch' = {w \in TidWatch : w.tid # pick.tid}
                 /\ UNCHANGED <<mapping, TIDTotal, net, pick>> /\ UNCHANGED Receiver

-----------------------------------------------------------------------------
(* The receiving thread. Each handler is followed by DoCallback.           *)
Receive(m) == /\ rpc = "recv" /\ m \in net /\ m.from = "device"
              /\ cur' = m /\ rpc' = "docallback"
              /\ UNCHANGED <<TidWatch, lock>> /\ UNCHANGED Main

(* A device that is new is entered under a name made from its address, and *)
(* asked for more; one that is known is not.                               *)
ParseResponsD6(m) ==
    /\ m.kind \in {"search", "hello"} /\ Receive(m)
    /\ IF mapping[m.dev] # Unknown THEN UNCHANGED <<mapping, TIDTotal, net>>
       ELSE /\ mapping' = [mapping EXCEPT ![m.dev].id = "anonymous"]
            /\ NextTID(3)
            /\ net' = net \cup {Message("83", m.dev, TIDTotal, 0), Message("9E", m.dev, TIDTotal + 1, 0),
                                Message("9D", m.dev, TIDTotal + 2, 0)}

ParseRespons9E(m) ==
    /\ m.kind = "9E" /\ Receive(m)
    /\ mapping' = [mapping EXCEPT ![m.dev].setProp = ParseDataList(PropertyMap(getProps[m.dev]))]
    /\ UNCHANGED <<TIDTotal, net>>

ParseRespons9D(m) ==
    /\ m.kind = "9D" /\ Receive(m)
    /\ mapping' = [mapping EXCEPT ![m.dev].getProp = ParseDataList(PropertyMap(getProps[m.dev]))]
    /\ UNCHANGED <<TIDTotal, net>>

(* An identification that is too short is not taken.                       *)
ParseRespons83(m) ==
    /\ m.kind = "83" /\ Receive(m)
    /\ \/ mapping' = [mapping EXCEPT ![m.dev].id = "real"] \/ UNCHANGED mapping
    /\ UNCHANGED <<TIDTotal, net>>

ParseOther(m) == /\ m.kind \in {"get", "changed"} /\ Receive(m)
                 /\ UNCHANGED <<mapping, TIDTotal, net>>

(* DoCallback takes the lock if it finds the number of the message; the    *)
(* callback decodes the value as a list and writes what it gets to ret,    *)
(* then sets isUpdate; then the entry is erased.                           *)
Watched == \E w \in TidWatch : w.tid = cur.tid

(* Mutant of DoCallback: the lock is not taken.                            *)
DoCallbackUnlocked == /\ rpc = "docallback"
                      /\ rpc' = IF Watched THEN "callback" ELSE "recv"
                      /\ UNCHANGED <<mapping, TIDTotal, TidWatch, lock, net, cur>> /\ UNCHANGED Main

DoCallback == /\ rpc = "docallback"
              /\ rpc' = IF Watched THEN "callback" ELSE "recv"
              /\ lock' = Watched
              /\ UNCHANGED <<mapping, TIDTotal, TidWatch, net, cur>> /\ UNCHANGED Main

Callback == /\ rpc = "callback" /\ rpc' = "update"
            /\ pick' = [pick EXCEPT !.ret = ParseDataList(OneByte),
                                    !.heard = cur.dev = pick.name[1] /\ cur.prop = pick.prop]
            /\ UNCHANGED <<mapping, TIDTotal, TidWatch, lock, net, cur, mpc, life>>

Update == /\ rpc = "update" /\ rpc' = "erase"
          /\ pick' = [pick EXCEPT !.isUpdate = TRUE]
          /\ UNCHANGED <<mapping, TIDTotal, TidWatch, lock, net, cur, mpc, life>>

Erase == /\ rpc = "erase" /\ rpc' = "recv" /\ lock' = FALSE
         /\ TidWatch' = {w \in TidWatch : w.tid # cur.tid}
         /\ UNCHANGED <<mapping, TIDTotal, net, cur>> /\ UNCHANGED Main

-----------------------------------------------------------------------------
(* The devices: they answer with the number of the request, and say hello  *)
(* when they are switched on.                                              *)
Answer(m) == /\ m.from = "us"
             /\ net' = net \cup {[m EXCEPT !.from = "device"]}
             /\ UNCHANGED <<mapping, TIDTotal, TidWatch>> /\ UNCHANGED Main /\ UNCHANGED Receiver

Hello(d) == /\ net' = net \cup {Told("hello", d, -1, 0)}
            /\ UNCHANGED <<mapping, TIDTotal, TidWatch>> /\ UNCHANGED Main /\ UNCHANGED Receiver

Changed(d, prop, tid) == /\ Cardinality({m \in net : m.kind = "changed"}) < MaxAnnounced
                         /\ net' = net \cup {Told("changed", d, tid, prop)}
                         /\ UNCHANGED <<mapping, TIDTotal, TidWatch>> /\ UNCHANGED Main /\ UNCHANGED Receiver

Parse(m) == \/ ParseResponsD6(m) \/ ParseRespons9E(m) \/ ParseRespons9D(m) \/ ParseRespons83(m)
            \/ ParseOther(m)
MainStep == LookFound \/ LookTimeout \/ TakeTID \/ AppendTIDCallback \/ SendTo \/ Updated \/ Timeout
            \/ EraseTidWatch
ReceiverStep == DoCallback \/ Callback \/ Update \/ Erase

Next == \/ GetAll \/ \E name \in Names, prop \in Picked : Pickup(name, prop)
        \/ MainStep \/ ReceiverStep
        \/ \E m \in net : Parse(m) \/ Answer(m)
        \/ \E d \in Devices : Hello(d) \/ \E prop \in Picked, tid \in 0..(MaxTid - 1) : Changed(d, prop, tid)

Spec == Init /\ [][Next]_vars

-----------------------------------------------------------------------------
(* The callback refers to local variables of Pickup: when the receiving    *)
(* thread runs it, that Pickup has not returned, whichever of the answer   *)
(* and the timeout comes first (NetDeviceEcoNetLite.cpp:916-949,           *)
(* EcoNetLiteServer.cpp:635-683).                                          *)
CallbackAlive == rpc \in {"callback", "update"} =>
    \E w \in TidWatch : w.tid = cur.tid /\ w.no = pick.no /\ mpc # "idle"

(* An answer that comes while Pickup waits finds its callback, however     *)
(* early it comes (EcoNetLiteServer.cpp:392-410).                          *)
AnswerFindsWatch == mpc \in {"append", "sendto", "wait"} /\ ~pick.isUpdate
                    /\ (\E m \in net : m.kind = "get" /\ m.tid = pick.tid)
                    => \E w \in TidWatch : w.tid = pick.tid

(* The callback gets the value that was asked for, of that device and no   *)
(* other, unless a notification carries the number of the request          *)
(* (EcoNetLiteServer.cpp:383, 635-683).                                    *)
AnswerIsOurs == pick.isUpdate => \/ pick.heard
                                 \/ \E m \in net : m.kind = "changed" /\ m.tid = pick.tid

(* What is known of a device's properties is what it sent, in either form  *)
(* of the list (EcoNetLiteServer.cpp:152-193).                             *)
PropertiesAreRight == \A d \in Devices : /\ mapping[d].getProp \in {{}, getProps[d]}
                                         /\ mapping[d].setProp \in {{}, getProps[d]}
=============================================================================
