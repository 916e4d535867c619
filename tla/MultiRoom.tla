----------------------------- MODULE MultiRoom -----------------------------
(***************************************************************************)
(* MultiRoom: several machines, one per room, keep a table of all rooms,   *)
(* and the remote control moves from one to the next. A room is added or   *)
(* deleted on the settings page of another; a room whose name or key       *)
(* changes, or whose table was edited, sends its whole table to every room *)
(* in it, which replaces its own by it. Requests carry the key of the room *)
(* they go to.                                                             *)
(*                                                                         *)
(* A row of a table is a card: what the room was called and which key it   *)
(* had, by version numbers. Rows are found by uuid. Any request, or the    *)
(* answer to it, may be lost (XLException).                                *)
(***************************************************************************)
EXTENDS Integers, FiniteSets

CONSTANTS Rooms,
          MaxVersion,   \* bound on the changes of a name and of a key
          MaxEdits      \* bound on what the users change, add and delete

VARIABLES own,      \* webapi_apikey and system_room_string of each room
          table,    \* multiroom_*
          pc,       \* of the MultiRoom thread
          snap,     \* what Sync posts, read when it began
          todo,     \* rooms it still posts to
          request,  \* what a web worker of each room waits for
          was,      \* the cards each room ever had
          edits

vars == <<own, table, pc, snap, todo, request, was, edits>>

Card == [authkey : 1..MaxVersion, name : 1..MaxVersion]
NoCard == [authkey |-> 0, name |-> 0]
Table == [Rooms -> Card \cup {NoCard}]
Known(t) == {x \in Rooms : t[x] # NoCard}
Empty == [x \in Rooms |-> NoCard]
Idle == [what |-> "nothing", to |-> Empty, card |-> NoCard]

TypeOK == /\ own \in [Rooms -> Card]
          /\ table \in [Rooms -> Table] /\ snap \in [Rooms -> Table]
          /\ pc \in [Rooms -> {"wait", "touch", "sync", "post"}]
          /\ todo \in [Rooms -> SUBSET Rooms]
          /\ \A r \in Rooms : request[r].what \in {"nothing", "answer", "registdel"} /\ r \notin todo[r]
          /\ was \in [Rooms -> SUBSET Card] /\ edits \in 0..MaxEdits

(* Every room has touched its table and knows itself only.                 *)
Init == /\ own = [r \in Rooms |-> [authkey |-> 1, name |-> 1]]
        /\ table = [r \in Rooms |-> [Empty EXCEPT ![r] = own[r]]]
        /\ pc = [r \in Rooms |-> "wait"]
        /\ snap = [r \in Rooms |-> Empty] /\ todo = [r \in Rooms |-> {}]
        /\ request = [r \in Rooms |-> Idle]
        /\ was = [r \in Rooms |-> {own[r]}] /\ edits = 0

MayEdit(r) == request[r] = Idle /\ edits < MaxEdits

-----------------------------------------------------------------------------
(* startSync: a notification without the lock; nobody may be waiting.      *)
startSync(r) == pc' = [pc EXCEPT ![r] = IF @ = "wait" THEN "touch" ELSE @]

(* changeAuthkey and changeName, after the setting itself was changed.     *)
ChangeCard(r, card) ==
    /\ MayEdit(r) /\ edits' = edits + 1
    /\ own' = [own EXCEPT ![r] = card]
    /\ was' = [was EXCEPT ![r] = @ \cup {card}]
    /\ IF table[r][r] = NoCard THEN UNCHANGED <<table, pc>>
       ELSE table' = [table EXCEPT ![r][r] = card] /\ startSync(r)
    /\ UNCHANGED <<snap, todo, request>>

changeAuthkey(r) == /\ own[r].authkey < MaxVersion
                    /\ ChangeCard(r, [own[r] EXCEPT !.authkey = @ + 1])
changeName(r) == /\ own[r].name < MaxVersion
                 /\ ChangeCard(r, [own[r] EXCEPT !.name = @ + 1])

-----------------------------------------------------------------------------
(* Adding room x on the settings page of room r.                           *)

(* Mutant of registadd: the name is taken over and the key is not, if the  *)
(* room is known already.                                                  *)
registaddName(r, x) ==
    [table EXCEPT ![x][r] = IF @ = NoCard THEN own[r] ELSE [@ EXCEPT !.name = own[r].name]]

(* The handler of the other room: the new room is entered.                 *)
registadd(r, x) == [table EXCEPT ![x][r] = own[r]]

setting_multiroom_append(r, x) ==
    /\ MayEdit(r) /\ x # r
    /\ edits' = edits + 1
    /\ table' = registadd(r, x)
    /\ request' = [request EXCEPT ![r] = [what |-> "answer", to |-> table'[x], card |-> NoCard]]
    /\ UNCHANGED <<own, pc, snap, todo, was>>

(* The answer is the table of the other room; the own row is kept.         *)
Merge(r) ==
    /\ request[r].what = "answer"
    /\ request' = [request EXCEPT ![r] = Idle]
    /\ table' = [table EXCEPT ![r] = [y \in Rooms |->
                    IF y = r \/ request[r].to[y] = NoCard THEN @[y] ELSE request[r].to[y]]]
    /\ startSync(r)
    /\ UNCHANGED <<own, snap, todo, was, edits>>

-----------------------------------------------------------------------------
(* Mutant of setting_multiroom_delete: a room may delete itself.           *)
setting_multiroom_delete_any(r, x) ==
    /\ MayEdit(r) /\ table[r][x] # NoCard
    /\ edits' = edits + 1
    /\ table' = [table EXCEPT ![r][x] = NoCard]
    /\ request' = [request EXCEPT ![r] = [what |-> "registdel", to |-> [Empty EXCEPT ![x] = table[r][x]],
                                          card |-> table[r][x]]]
    /\ UNCHANGED <<own, pc, snap, todo, was>>

(* Deleting room x: here at once, then the other room is told.             *)
setting_multiroom_delete(r, x) ==
    /\ MayEdit(r) /\ x # r /\ table[r][x] # NoCard
    /\ edits' = edits + 1
    /\ table' = [table EXCEPT ![r][x] = NoCard]
    /\ request' = [request EXCEPT ![r] = [what |-> "registdel", to |-> [Empty EXCEPT ![x] = table[r][x]],
                                          card |-> table[r][x]]]
    /\ UNCHANGED <<own, pc, snap, todo, was>>

(* The handler of the other room removes who asks, if it knows it and the  *)
(* key is right.                                                           *)
registdel(r) ==
    /\ request[r].what = "registdel"
    /\ request' = [request EXCEPT ![r] = Idle]
    /\ \E x \in Known(request[r].to) :
          table' = IF table[x][r] # NoCard /\ request[r].card.authkey = own[x].authkey
                   THEN [table EXCEPT ![x][r] = NoCard] ELSE table
    /\ startSync(r)
    /\ UNCHANGED <<own, snap, todo, was, edits>>

(* The request is lost: an append gives up, a delete goes on. When the     *)
(* answer to an append is lost, the other room has made its entry.         *)
RequestLost(r) ==
    /\ request[r] # Idle
    /\ request' = [request EXCEPT ![r] = Idle]
    /\ IF request[r].what = "registdel" THEN startSync(r) ELSE UNCHANGED pc
    /\ UNCHANGED <<own, table, snap, todo, was, edits>>

-----------------------------------------------------------------------------
(* The MultiRoom thread.                                                   *)

SpuriousWake(r) == /\ pc[r] = "wait" /\ pc' = [pc EXCEPT ![r] = "touch"]
                   /\ UNCHANGED <<own, table, snap, todo, request, was, edits>>

(* The own row is entered, or brought up to date.                          *)
Touch(r) == /\ pc[r] = "touch" /\ pc' = [pc EXCEPT ![r] = "sync"]
            /\ table' = [table EXCEPT ![r][r] = own[r]]
            /\ UNCHANGED <<own, snap, todo, request, was, edits>>

(* Mutant of Sync: the own room is posted to as well.                      *)
SyncAll(r) == /\ pc[r] = "sync" /\ pc' = [pc EXCEPT ![r] = "post"]
              /\ snap' = [snap EXCEPT ![r] = table[r]]
              /\ todo' = [todo EXCEPT ![r] = Known(table[r])]
              /\ UNCHANGED <<own, table, request, was, edits>>

(* The table is read, and is to be posted to every other room in it.       *)
Sync(r) == /\ pc[r] = "sync" /\ pc' = [pc EXCEPT ![r] = "post"]
           /\ snap' = [snap EXCEPT ![r] = table[r]]
           /\ todo' = [todo EXCEPT ![r] = Known(table[r]) \ {r}]
           /\ UNCHANGED <<own, table, request, was, edits>>

(* multiroom_sync at room x: the key must be right and the sender known;   *)
(* then the table is replaced.                                             *)
multiroom_sync(r, x) ==
    /\ pc[r] = "post" /\ x \in todo[r]
    /\ todo' = [todo EXCEPT ![r] = @ \ {x}]
    /\ table' = IF snap[r][x].authkey = own[x].authkey /\ table[x][r] # NoCard
                THEN [table EXCEPT ![x] = snap[r]] ELSE table
    /\ UNCHANGED <<own, pc, snap, request, was, edits>>

PostLost(r, x) ==
    /\ pc[r] = "post" /\ x \in todo[r]
    /\ todo' = [todo EXCEPT ![r] = @ \ {x}]
    /\ UNCHANGED <<own, table, pc, snap, request, was, edits>>

SyncEnd(r) == /\ pc[r] = "post" /\ todo[r] = {}
              /\ pc' = [pc EXCEPT ![r] = "wait"]
              /\ snap' = [snap EXCEPT ![r] = Empty]
              /\ UNCHANGED <<own, table, todo, request, was, edits>>

Run(r) == \/ Touch(r) \/ Sync(r) \/ SyncEnd(r) \/ Merge(r) \/ registdel(r)
          \/ \E x \in Rooms : multiroom_sync(r, x)

Next == \E r \in Rooms :
            \/ changeAuthkey(r) \/ changeName(r)
            \/ \E x \in Rooms : setting_multiroom_append(r, x) \/ setting_multiroom_delete(r, x)
            \/ Run(r) \/ RequestLost(r) \/ \E x \in Rooms : PostLost(r, x)
            \/ SpuriousWake(r)

Spec == Init /\ [][Next]_vars

-----------------------------------------------------------------------------
(* A room never loses its own row, whoever replaces its table and whoever  *)
(* deletes it: without it changes of its name and key would not be told    *)
(* (MultiRoomUtil.cpp:81-86, ScriptWebRunner.cpp:4249, 4432, 4475-4484).   *)
SelfKnown == \A r \in Rooms : table[r][r] # NoCard

(* Whatever is merged, replaced and lost on the way, and in whichever      *)
(* order, a card that a room has of another one is one that room really    *)
(* had: name and key of different times are never mixed                    *)
(* (MultiRoomUtil.cpp:62-68, ScriptWebRunner.cpp:4385-4394).               *)
CardsAreReal == \A r, x \in Rooms : table[r][x] \in was[x] \cup {NoCard}
=============================================================================
