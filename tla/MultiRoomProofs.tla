-------------------------- MODULE MultiRoomProofs --------------------------
(***************************************************************************)
(* That no room loses its own row and that every row is real, for any      *)
(* number of rooms, versions and changes. A table travels: it is read and  *)
(* sent, or asked for and merged, while the rooms go on changing. So the   *)
(* invariant speaks of the tables under way as well.                       *)
(***************************************************************************)
EXTENDS MultiRoom, TLAPS

(* Cards without a bound on their versions, and tables of them.            *)
AnyCard == [authkey : Nat \ {0}, name : Nat \ {0}]
AnyTable == [Rooms -> AnyCard \cup {NoCard}]

(* Every card in a table is one its room had.                              *)
Real(t) == \A x \in Rooms : t[x] \in was[x] \cup {NoCard}

RoomType == /\ own \in [Rooms -> AnyCard] /\ table \in [Rooms -> AnyTable]
            /\ snap \in [Rooms -> AnyTable] /\ was \in [Rooms -> SUBSET AnyCard]
            /\ DOMAIN todo = Rooms /\ DOMAIN request = Rooms
            /\ \A r \in Rooms : request[r].what = "answer" => request[r].to \in AnyTable

(* A room's own card is one it had; so are the rows in all tables, kept,   *)
(* being sent, or in an answer.                                            *)
AllReal == /\ \A r \in Rooms : own[r] \in was[r] /\ Real(table[r]) /\ Real(snap[r])
           /\ \A r \in Rooms : request[r].what = "answer" => Real(request[r].to)

(* A table that is sent to a room has that room's row.                     *)
SentHasRow == \A r \in Rooms : \A x \in todo[r] : snap[r][x] # NoCard

(* No room is asked to delete itself.                                      *)
DeletesOthers == \A r \in Rooms : request[r].what = "registdel" => request[r].to[r] = NoCard

RoomInv == RoomType /\ AllReal /\ SentHasRow /\ DeletesOthers /\ SelfKnown

LEMMA NoCardIsNone == NoCard \notin AnyCard
BY DEF NoCard, AnyCard

LEMMA RoomInvInit == Init => RoomInv
<1> SUFFICES ASSUME Init PROVE RoomInv
  OBVIOUS
<1>1. \A r \in Rooms : /\ own[r] \in AnyCard /\ was[r] = {own[r]} /\ snap[r] = Empty /\ todo[r] = {}
                       /\ request[r] = Idle /\ table[r] = [Empty EXCEPT ![r] = own[r]]
  BY DEF Init, AnyCard
<1>2. Empty \in AnyTable /\ \A x \in Rooms : Empty[x] = NoCard
  BY DEF Empty, AnyTable
<1>3. Idle.what = "nothing"
  BY DEF Idle
<1>4. \A r \in Rooms : table[r] \in AnyTable /\ \A x \in Rooms : table[r][x] = IF x = r THEN own[r] ELSE NoCard
  BY <1>1, <1>2 DEF AnyTable, Empty
<1>5. RoomType
  <2>1. own \in [Rooms -> AnyCard] /\ snap \in [Rooms -> AnyTable] /\ DOMAIN todo = Rooms /\ DOMAIN request = Rooms
    BY <1>1, <1>2 DEF Init
  <2>2. table \in [Rooms -> AnyTable]
    BY <1>4 DEF Init
  <2>3. was \in [Rooms -> SUBSET AnyCard]
    BY <1>1 DEF Init
  <2> QED
    BY <1>1, <1>3, <2>1, <2>2, <2>3 DEF RoomType
<1>6. AllReal
  BY <1>1, <1>2, <1>3, <1>4 DEF AllReal, Real
<1>7. SentHasRow /\ DeletesOthers
  BY <1>1, <1>3 DEF SentHasRow, DeletesOthers
<1>8. SelfKnown
  BY ZenonT(60), <1>1, <1>4, NoCardIsNone DEF SelfKnown
<1> QED
  BY <1>5, <1>6, <1>7, <1>8 DEF RoomInv

-----------------------------------------------------------------------------
(* What the users do.                                                      *)

LEMMA ChangeCardKeeps ==
    ASSUME RoomInv, NEW r \in Rooms, NEW card \in AnyCard, ChangeCard(r, card)
    PROVE  RoomInv'
<1>t. RoomType /\ AllReal /\ SentHasRow /\ DeletesOthers /\ SelfKnown
  BY DEF RoomInv
<1>1. /\ own' = [own EXCEPT ![r] = card] /\ was' = [was EXCEPT ![r] = @ \cup {card}]
      /\ table' = [table EXCEPT ![r][r] = card] /\ UNCHANGED <<snap, todo, request>>
  BY <1>t DEF ChangeCard, SelfKnown
<1>2. /\ own' \in [Rooms -> AnyCard] /\ was' \in [Rooms -> SUBSET AnyCard]
      /\ \A x \in Rooms : was[x] \subseteq was'[x]
      /\ card \in was'[r] /\ own'[r] = card /\ \A x \in Rooms : x # r => own'[x] = own[x]
  BY <1>t, <1>1 DEF RoomType
<1>3. /\ table' \in [Rooms -> AnyTable]
      /\ \A y, x \in Rooms : table'[y][x] = IF y = r /\ x = r THEN card ELSE table[y][x]
  BY <1>t, <1>1 DEF RoomType, AnyTable
<1>4. RoomType'
  BY <1>t, <1>1, <1>2, <1>3 DEF RoomType, AnyTable
<1>5. AllReal'
  <2>1. \A y \in Rooms : own'[y] \in was'[y]
    BY <1>t, <1>2 DEF AllReal
  <2>2. \A y, x \in Rooms : table'[y][x] \in was'[x] \cup {NoCard}
    BY <1>t, <1>2, <1>3 DEF AllReal, Real
  <2>3. \A y, x \in Rooms : snap'[y][x] \in was'[x] \cup {NoCard}
    BY <1>t, <1>1, <1>2 DEF AllReal, Real
  <2>4. \A y \in Rooms : request'[y].what = "answer" =>
            \A x \in Rooms : request'[y].to[x] \in was'[x] \cup {NoCard}
    BY <1>t, <1>1, <1>2 DEF AllReal, Real
  <2> QED
    BY <2>1, <2>2, <2>3, <2>4 DEF AllReal, Real
<1>6. SentHasRow' /\ DeletesOthers'
  BY <1>t, <1>1 DEF SentHasRow, DeletesOthers
<1>7. SelfKnown'
  BY <1>t, <1>3, NoCardIsNone DEF SelfKnown
<1> QED
  BY <1>4, <1>5, <1>6, <1>7 DEF RoomInv

LEMMA ChangesKeep ==
    ASSUME RoomInv, NEW r \in Rooms, changeAuthkey(r) \/ changeName(r)
    PROVE  RoomInv'
<1>1. own[r] \in AnyCard
  BY DEF RoomInv, RoomType
<1>2. /\ [own[r] EXCEPT !.authkey = @ + 1] \in AnyCard
      /\ [own[r] EXCEPT !.name = @ + 1] \in AnyCard
  BY <1>1 DEF AnyCard
<1> QED
  BY <1>2, ChangeCardKeeps DEF changeAuthkey, changeName

LEMMA AppendKeeps ==
    ASSUME RoomInv, NEW r \in Rooms, NEW x \in Rooms, setting_multiroom_append(r, x)
    PROVE  RoomInv'
<1>t. RoomType /\ AllReal /\ SentHasRow /\ DeletesOthers /\ SelfKnown
  BY DEF RoomInv
<1>1. /\ table' = [table EXCEPT ![x][r] = own[r]] /\ UNCHANGED <<own, pc, snap, todo, was>>
      /\ request' = [request EXCEPT ![r] = [what |-> "answer", to |-> table'[x], card |-> NoCard]]
  BY DEF setting_multiroom_append, registadd
<1>2. /\ table' \in [Rooms -> AnyTable]
      /\ \A y, z \in Rooms : table'[y][z] = IF y = x /\ z = r THEN own[r] ELSE table[y][z]
  BY <1>t, <1>1 DEF RoomType, AnyTable
<1>3. /\ DOMAIN request' = Rooms /\ request'[r].what = "answer" /\ request'[r].to = table'[x]
      /\ \A y \in Rooms : y # r => request'[y] = request[y]
  BY <1>t, <1>1 DEF RoomType
<1>4. RoomType'
  <2>1. \A y \in Rooms : request'[y].what = "answer" => request'[y].to \in AnyTable
    BY <1>t, <1>2, <1>3 DEF RoomType
  <2>2. AnyTable' = AnyTable
    BY DEF AnyTable
  <2> QED
    BY <1>t, <1>1, <1>2, <1>3, <2>1, <2>2 DEF RoomType
<1>5. AllReal'
  <2>1. \A y, z \in Rooms : table'[y][z] \in was[z] \cup {NoCard}
    BY <1>t, <1>2 DEF AllReal, Real
  <2>2. \A y \in Rooms : request'[y].what = "answer" => \A z \in Rooms : request'[y].to[z] \in was[z] \cup {NoCard}
    BY <1>t, <1>3, <2>1 DEF AllReal, Real
  <2> QED
    BY <1>t, <1>1, <2>1, <2>2 DEF AllReal, Real
<1>6. SentHasRow'
  BY <1>t, <1>1 DEF SentHasRow
<1>7. DeletesOthers'
  BY <1>t, <1>3 DEF DeletesOthers
<1>8. SelfKnown'
  BY <1>t, <1>2, NoCardIsNone DEF SelfKnown, RoomType
<1> QED
  BY <1>4, <1>5, <1>6, <1>7, <1>8 DEF RoomInv

LEMMA DeleteKeeps ==
    ASSUME RoomInv, NEW r \in Rooms, NEW x \in Rooms, setting_multiroom_delete(r, x)
    PROVE  RoomInv'
<1>t. RoomType /\ AllReal /\ SentHasRow /\ DeletesOthers /\ SelfKnown
  BY DEF RoomInv
<1>1. /\ x # r /\ table' = [table EXCEPT ![r][x] = NoCard] /\ UNCHANGED <<own, pc, snap, todo, was>>
      /\ request' = [request EXCEPT ![r] = [what |-> "registdel", to |-> [Empty EXCEPT ![x] = table[r][x]],
                                            card |-> table[r][x]]]
  BY DEF setting_multiroom_delete
<1>2. /\ table' \in [Rooms -> AnyTable]
      /\ \A y, z \in Rooms : table'[y][z] = IF y = r /\ z = x THEN NoCard ELSE table[y][z]
  BY <1>t, <1>1 DEF RoomType, AnyTable
<1>3. /\ DOMAIN request' = Rooms /\ request'[r].what = "registdel" /\ request'[r].to[r] = NoCard
      /\ \A y \in Rooms : y # r => request'[y] = request[y]
  BY <1>t, <1>1 DEF RoomType, Empty
<1>4. RoomType'
  <2>1. \A y \in Rooms : request'[y].what = "answer" => request'[y].to \in AnyTable
    BY <1>t, <1>3 DEF RoomType
  <2>2. AnyTable' = AnyTable
    BY DEF AnyTable
  <2> QED
    BY <1>t, <1>1, <1>2, <1>3, <2>1, <2>2 DEF RoomType
<1>5. AllReal'
  <2>1. \A y, z \in Rooms : table'[y][z] \in was[z] \cup {NoCard}
    BY <1>t, <1>2 DEF AllReal, Real
  <2>2. \A y \in Rooms : request'[y].what = "answer" => \A z \in Rooms : request'[y].to[z] \in was[z] \cup {NoCard}
    BY <1>t, <1>3 DEF AllReal, Real
  <2> QED
    BY <1>t, <1>1, <2>1, <2>2 DEF AllReal, Real
<1>6. SentHasRow' /\ DeletesOthers'
  BY <1>t, <1>1, <1>3 DEF SentHasRow, DeletesOthers
<1>7. SelfKnown'
  BY <1>t, <1>1, <1>2 DEF SelfKnown
<1> QED
  BY <1>4, <1>5, <1>6, <1>7 DEF RoomInv

-----------------------------------------------------------------------------
(* What happens to a table: every step of the threads and of the web       *)
(* handlers of another room changes at most tables, and ends at most one   *)
(* request. If the new tables are real and every room keeps itself, the    *)
(* invariant is kept.                                                      *)

Ends(r) == request' = [request EXCEPT ![r] = Idle]

LEMMA TablesChange ==
    ASSUME RoomInv, table' \in [Rooms -> AnyTable],
           \A y, z \in Rooms : table'[y][z] \in was[z] \cup {NoCard},
           \A y \in Rooms : table'[y][y] # NoCard,
           UNCHANGED request \/ \E r \in Rooms : Ends(r),
           UNCHANGED <<own, snap, todo, was>>
    PROVE  RoomInv'
<1>t. RoomType /\ AllReal /\ SentHasRow /\ DeletesOthers /\ SelfKnown
  BY DEF RoomInv
<1>1. DOMAIN request' = Rooms /\ \A y \in Rooms : request'[y] = request[y] \/ request'[y].what = "nothing"
  BY <1>t DEF RoomType, Ends, Idle
<1>2. RoomType'
  <2>1. \A y \in Rooms : request'[y].what = "answer" => request'[y].to \in AnyTable
    BY <1>t, <1>1 DEF RoomType
  <2>2. AnyTable' = AnyTable
    BY DEF AnyTable
  <2> QED
    BY <1>t, <1>1, <2>1, <2>2 DEF RoomType
<1>3. AllReal'
  <2>1. \A y \in Rooms : request'[y].what = "answer" => \A z \in Rooms : request'[y].to[z] \in was[z] \cup {NoCard}
    BY <1>t, <1>1 DEF AllReal, Real
  <2> QED
    BY <1>t, <2>1 DEF AllReal, Real
<1>4. SentHasRow' /\ DeletesOthers'
  BY <1>t, <1>1 DEF SentHasRow, DeletesOthers
<1> QED
  BY <1>2, <1>3, <1>4 DEF RoomInv, SelfKnown

LEMMA TablesStay ==
    ASSUME RoomInv
    PROVE  /\ table \in [Rooms -> AnyTable]
           /\ \A y, z \in Rooms : table[y][z] \in was[z] \cup {NoCard}
           /\ \A y \in Rooms : table[y][y] # NoCard
BY DEF RoomInv, RoomType, AllReal, Real, SelfKnown

LEMMA MergeKeeps ==
    ASSUME RoomInv, NEW r \in Rooms, Merge(r)
    PROVE  RoomInv'
<1>1. PICK to : to = request[r].to
  OBVIOUS
<1>2. to \in AnyTable /\ \A z \in Rooms : to[z] \in was[z] \cup {NoCard}
  BY <1>1 DEF Merge, RoomInv, RoomType, AllReal, Real
<1>3. table' = [table EXCEPT ![r] = [y \in Rooms |-> IF y = r \/ to[y] = NoCard THEN table[r][y] ELSE to[y]]]
  BY <1>1, TablesStay DEF Merge
<1>4. table' \in [Rooms -> AnyTable]
  BY <1>2, <1>3, TablesStay DEF AnyTable
<1>5. \A y, z \in Rooms : table'[y][z] = IF y = r /\ z # r /\ to[z] # NoCard THEN to[z] ELSE table[y][z]
  BY <1>3, TablesStay
<1>6. Ends(r) /\ UNCHANGED <<own, snap, todo, was>>
  BY DEF Merge, Ends
<1>7. \A y, z \in Rooms : table'[y][z] \in was[z] \cup {NoCard}
  BY <1>2, <1>5, TablesStay
<1>8. \A y \in Rooms : table'[y][y] # NoCard
  BY <1>5, TablesStay
<1> QED
  BY <1>4, <1>6, <1>7, <1>8, TablesChange

LEMMA RegistdelKeeps ==
    ASSUME RoomInv, NEW r \in Rooms, registdel(r)
    PROVE  RoomInv'
<1>1. PICK x \in Known(request[r].to) :
         table' = IF table[x][r] # NoCard /\ request[r].card.authkey = own[x].authkey
                  THEN [table EXCEPT ![x][r] = NoCard] ELSE table
  BY DEF registdel
<1>2. x \in Rooms /\ x # r
  BY DEF Known, registdel, RoomInv, DeletesOthers
<1>3. Ends(r) /\ UNCHANGED <<own, snap, todo, was>>
  BY DEF registdel, Ends
<1>4. table' = [table EXCEPT ![x][r] = NoCard] \/ table' = table
  BY <1>1
<1>5. table' \in [Rooms -> AnyTable]
  BY <1>4, TablesStay DEF AnyTable
<1>6. \A y, z \in Rooms : table'[y][z] = table[y][z] \/ (table'[y][z] = NoCard /\ y = x /\ z = r)
  BY <1>4, TablesStay DEF AnyTable
<1> QED
  BY <1>2, <1>3, <1>5, <1>6, TablesStay, TablesChange

LEMMA TouchKeeps ==
    ASSUME RoomInv, NEW r \in Rooms, Touch(r)
    PROVE  RoomInv'
<1>1. table' = [table EXCEPT ![r][r] = own[r]] /\ UNCHANGED <<own, snap, todo, was, request>>
  BY DEF Touch
<1>2. own[r] \in AnyCard /\ own[r] \in was[r] /\ own[r] # NoCard
  BY NoCardIsNone DEF RoomInv, RoomType, AllReal
<1>3. table' \in [Rooms -> AnyTable]
  BY <1>1, <1>2, TablesStay DEF AnyTable
<1>4. \A y, z \in Rooms : table'[y][z] = table[y][z] \/ (table'[y][z] = own[r] /\ y = r /\ z = r)
  BY <1>1, TablesStay DEF AnyTable
<1> QED
  BY <1>1, <1>2, <1>3, <1>4, TablesStay, TablesChange

LEMMA NothingChanges ==
    ASSUME RoomInv, UNCHANGED <<own, table, snap, todo, was>>,
           UNCHANGED request \/ \E r \in Rooms : Ends(r)
    PROVE  RoomInv'
BY TablesStay, TablesChange

LEMMA SyncKeeps ==
    ASSUME RoomInv, NEW r \in Rooms, Sync(r)
    PROVE  RoomInv'
<1>t. RoomType /\ AllReal /\ SentHasRow /\ DeletesOthers /\ SelfKnown
  BY DEF RoomInv
<1>1. /\ snap' = [snap EXCEPT ![r] = table[r]] /\ todo' = [todo EXCEPT ![r] = Known(table[r]) \ {r}]
      /\ UNCHANGED <<own, table, request, was>>
  BY DEF Sync
<1>2. \A y \in Rooms : /\ snap'[y] = IF y = r THEN table[r] ELSE snap[y]
                       /\ todo'[y] = IF y = r THEN Known(table[r]) \ {r} ELSE todo[y]
  BY <1>t, <1>1 DEF RoomType
<1>3. RoomType'
  BY <1>t, <1>1, <1>2 DEF RoomType, AnyTable
<1>4. AllReal'
  BY <1>t, <1>1, <1>2 DEF AllReal, Real
<1>5. SentHasRow' /\ DeletesOthers' /\ SelfKnown'
  <2>1. \A z \in todo'[r] : snap'[r][z] # NoCard
    BY <1>2 DEF Known
  <2>2. SentHasRow'
    BY <1>t, <1>2, <2>1 DEF SentHasRow
  <2> QED
    BY <1>t, <1>1, <2>2 DEF DeletesOthers, SelfKnown
<1> QED
  BY <1>3, <1>4, <1>5 DEF RoomInv

(* The post of a table ends, whether it arrived or was lost.               *)
LEMMA PostEnds ==
    ASSUME RoomInv, NEW r \in Rooms, NEW x \in todo[r], todo' = [todo EXCEPT ![r] = @ \ {x}],
           UNCHANGED <<own, snap, was, request>>,
           table' = table \/ (x \in Rooms /\ table' = [table EXCEPT ![x] = snap[r]])
    PROVE  RoomInv'
<1>t. RoomType /\ AllReal /\ SentHasRow /\ DeletesOthers /\ SelfKnown
  BY DEF RoomInv
<1>1. DOMAIN todo' = Rooms /\ \A y \in Rooms : todo'[y] \subseteq todo[y]
  BY <1>t DEF RoomType
<1>2. table' \in [Rooms -> AnyTable]
  BY <1>t DEF RoomType
<1>3. \A y, z \in Rooms : table'[y][z] = table[y][z] \/ (table'[y][z] = snap[r][z] /\ y = x)
  BY <1>t DEF RoomType
<1>4. RoomType'
  <2>1. AnyTable' = AnyTable
    BY DEF AnyTable
  <2> QED
    BY <1>t, <1>1, <1>2, <2>1 DEF RoomType
<1>5. AllReal'
  BY <1>t, <1>3 DEF AllReal, Real
<1>6. SentHasRow' /\ DeletesOthers'
  BY <1>t, <1>1 DEF SentHasRow, DeletesOthers
<1>7. SelfKnown'
  BY <1>t, <1>3 DEF SelfKnown, SentHasRow
<1> QED
  BY <1>4, <1>5, <1>6, <1>7 DEF RoomInv

LEMMA PostsKeep ==
    ASSUME RoomInv, NEW r \in Rooms, NEW x \in Rooms, multiroom_sync(r, x) \/ PostLost(r, x)
    PROVE  RoomInv'
<1>1. /\ x \in todo[r] /\ todo' = [todo EXCEPT ![r] = @ \ {x}] /\ UNCHANGED <<own, snap, was, request>>
      /\ table' = table \/ table' = [table EXCEPT ![x] = snap[r]]
  BY DEF multiroom_sync, PostLost
<1> QED
  BY <1>1, PostEnds

LEMMA SyncEndKeeps ==
    ASSUME RoomInv, NEW r \in Rooms, SyncEnd(r)
    PROVE  RoomInv'
<1>t. RoomType /\ AllReal /\ SentHasRow /\ DeletesOthers /\ SelfKnown
  BY DEF RoomInv
<1>1. /\ snap' = [snap EXCEPT ![r] = Empty] /\ todo[r] = {} /\ UNCHANGED <<own, table, todo, request, was>>
  BY DEF SyncEnd
<1>2. Empty \in AnyTable /\ \A x \in Rooms : Empty[x] = NoCard
  BY DEF Empty, AnyTable
<1>3. \A y \in Rooms : snap'[y] = IF y = r THEN Empty ELSE snap[y]
  BY <1>t, <1>1 DEF RoomType
<1>4. RoomType'
  BY <1>t, <1>1, <1>2, <1>3 DEF RoomType, AnyTable
<1>5. AllReal'
  BY <1>t, <1>1, <1>2, <1>3 DEF AllReal, Real
<1>6. SentHasRow' /\ DeletesOthers' /\ SelfKnown'
  BY <1>t, <1>1, <1>3 DEF SentHasRow, DeletesOthers, SelfKnown
<1> QED
  BY <1>4, <1>5, <1>6 DEF RoomInv

-----------------------------------------------------------------------------
LEMMA RoomInvNext == RoomInv /\ [Next]_vars => RoomInv'
<1> SUFFICES ASSUME RoomInv, [Next]_vars PROVE RoomInv'
  OBVIOUS
<1>1. CASE UNCHANGED vars
  BY <1>1, NothingChanges DEF vars
<1>2. CASE Next
  <2>1. PICK r \in Rooms :
            \/ changeAuthkey(r) \/ changeName(r)
            \/ \E x \in Rooms : setting_multiroom_append(r, x) \/ setting_multiroom_delete(r, x)
            \/ Run(r) \/ RequestLost(r) \/ \E x \in Rooms : PostLost(r, x)
            \/ SpuriousWake(r)
    BY <1>2 DEF Next
  <2>2. CASE changeAuthkey(r) \/ changeName(r)
    BY <2>2, ChangesKeep
  <2>3. CASE \E x \in Rooms : setting_multiroom_append(r, x) \/ setting_multiroom_delete(r, x)
    BY <2>3, AppendKeeps, DeleteKeeps
  <2>4. CASE Run(r)
    BY <2>4, TouchKeeps, SyncKeeps, SyncEndKeeps, MergeKeeps, RegistdelKeeps, PostsKeep DEF Run
  <2>5. CASE RequestLost(r)
    BY <2>5, NothingChanges DEF RequestLost, Ends
  <2>6. CASE \E x \in Rooms : PostLost(r, x)
    BY <2>6, PostsKeep
  <2>7. CASE SpuriousWake(r)
    BY <2>7, NothingChanges DEF SpuriousWake
  <2> QED
    BY <2>1, <2>2, <2>3, <2>4, <2>5, <2>6, <2>7
<1> QED
  BY <1>1, <1>2

(* In any number of rooms: no room loses its own row (MultiRoomUtil.cpp:   *)
(* 81-86), and every row is what its room once was, name and key of one    *)
(* time (ScriptWebRunner.cpp:4385-4394).                                   *)
THEOREM RowsAreKept == Spec => [](SelfKnown /\ CardsAreReal)
<1>1. RoomInv => SelfKnown /\ CardsAreReal
  BY DEF RoomInv, AllReal, Real, CardsAreReal
<1> QED
  BY <1>1, RoomInvInit, RoomInvNext, PTL DEF Spec

-----------------------------------------------------------------------------
(* The types, with the bounds on versions and changes.                     *)

Request == [what : {"nothing", "answer", "registdel"}, to : Table, card : Card \cup {NoCard}]
Bounds == MaxVersion \in Nat \ {0} /\ MaxEdits \in Nat
PcType == [Rooms -> {"wait", "touch", "sync", "post"}]

RoomBounds == /\ own \in [Rooms -> Card] /\ table \in [Rooms -> Table] /\ snap \in [Rooms -> Table]
              /\ pc \in PcType /\ todo \in [Rooms -> SUBSET Rooms] /\ \A r \in Rooms : r \notin todo[r]
              /\ request \in [Rooms -> Request] /\ was \in [Rooms -> SUBSET Card] /\ edits \in 0..MaxEdits

LEMMA BoundsType == RoomBounds => TypeOK
<1> SUFFICES ASSUME RoomBounds PROVE TypeOK
  OBVIOUS
<1>1. \A r \in Rooms : request[r].what \in {"nothing", "answer", "registdel"}
  BY DEF RoomBounds, Request
<1> QED
  BY <1>1 DEF RoomBounds, TypeOK, PcType

LEMMA EmptyIsTable == /\ Empty \in Table /\ Idle \in Request
                      /\ \A t \in Table, x \in Rooms, c \in Card \cup {NoCard} : [t EXCEPT ![x] = c] \in Table
<1>1. Empty \in Table /\ NoCard \in Card \cup {NoCard}
  BY DEF Empty, Table
<1>2. Idle \in Request
  BY <1>1 DEF Idle, Request
<1>3. \A t \in Table, x \in Rooms, c \in Card \cup {NoCard} : [t EXCEPT ![x] = c] \in Table
  BY DEF Table
<1> QED
  BY <1>1, <1>2, <1>3

LEMMA RoomBoundsInit == Bounds /\ Init => RoomBounds
<1> SUFFICES ASSUME Bounds, Init PROVE RoomBounds
  OBVIOUS
<1>1. own \in [Rooms -> Card]
  BY DEF Init, Card, Bounds
<1>2. table \in [Rooms -> Table]
  BY <1>1, EmptyIsTable DEF Init
<1>3. snap \in [Rooms -> Table] /\ request \in [Rooms -> Request]
  BY EmptyIsTable DEF Init
<1>4. was \in [Rooms -> SUBSET Card] /\ edits \in 0..MaxEdits
  BY <1>1 DEF Init, Bounds
<1>5. pc \in PcType /\ todo \in [Rooms -> SUBSET Rooms] /\ \A r \in Rooms : r \notin todo[r]
  BY DEF Init, PcType
<1> QED
  BY <1>1, <1>2, <1>3, <1>4, <1>5 DEF RoomBounds

(* A step that changes some of the variables within their types.           *)
LEMMA StartType == ASSUME RoomBounds, NEW r \in Rooms, startSync(r) PROVE pc' \in PcType
BY DEF RoomBounds, startSync, PcType

LEMMA ChangeBounded ==
    ASSUME Bounds, RoomBounds, NEW r \in Rooms, changeAuthkey(r) \/ changeName(r)
    PROVE  RoomBounds'
<1>0. own \in [Rooms -> Card] /\ own[r] \in Card
  BY DEF RoomBounds
<1>1. PICK card \in Card : ChangeCard(r, card)
  <2>1. CASE changeAuthkey(r)
    <3>1. [own[r] EXCEPT !.authkey = @ + 1] \in Card
      BY <1>0, <2>1 DEF changeAuthkey, Card, Bounds
    <3> QED
      BY <2>1, <3>1 DEF changeAuthkey
  <2>2. CASE changeName(r)
    <3>1. [own[r] EXCEPT !.name = @ + 1] \in Card
      BY <1>0, <2>2 DEF changeName, Card, Bounds
    <3> QED
      BY <2>2, <3>1 DEF changeName
  <2> QED
    BY <2>1, <2>2
<1>2. own' \in [Rooms -> Card] /\ was' \in [Rooms -> SUBSET Card] /\ UNCHANGED <<snap, todo, request>>
  BY <1>1 DEF ChangeCard, RoomBounds
<1>3. edits' \in 0..MaxEdits
  BY <1>1 DEF ChangeCard, MayEdit, RoomBounds, Bounds
<1>4. table' \in [Rooms -> Table] /\ pc' \in PcType
  <2>1. CASE UNCHANGED <<table, pc>>
    BY <2>1 DEF RoomBounds
  <2>2. CASE table' = [table EXCEPT ![r][r] = card] /\ startSync(r)
    <3>1. [table[r] EXCEPT ![r] = card] \in Table
      BY EmptyIsTable DEF RoomBounds
    <3> QED
      BY <2>2, <3>1, StartType DEF RoomBounds
  <2> QED
    BY <1>1, <2>1, <2>2 DEF ChangeCard
<1> QED
  BY <1>2, <1>3, <1>4 DEF RoomBounds

LEMMA AppendBounded ==
    ASSUME Bounds, RoomBounds, NEW r \in Rooms, NEW x \in Rooms, setting_multiroom_append(r, x)
    PROVE  RoomBounds'
<1>1. /\ table' = [table EXCEPT ![x][r] = own[r]] /\ UNCHANGED <<own, pc, snap, todo, was>>
      /\ request' = [request EXCEPT ![r] = [what |-> "answer", to |-> table'[x], card |-> NoCard]]
  BY DEF setting_multiroom_append, registadd
<1>2. [table[x] EXCEPT ![r] = own[r]] \in Table
  BY EmptyIsTable DEF RoomBounds
<1>3. table' \in [Rooms -> Table]
  BY <1>1, <1>2 DEF RoomBounds
<1>4. request' \in [Rooms -> Request]
  <2>1. [what |-> "answer", to |-> table'[x], card |-> NoCard] \in Request
    BY <1>3 DEF Request
  <2> QED
    BY <1>1, <2>1 DEF RoomBounds
<1>5. edits' \in 0..MaxEdits
  BY DEF setting_multiroom_append, MayEdit, RoomBounds, Bounds
<1> QED
  BY <1>1, <1>3, <1>4, <1>5 DEF RoomBounds

LEMMA DeleteBounded ==
    ASSUME Bounds, RoomBounds, NEW r \in Rooms, NEW x \in Rooms, setting_multiroom_delete(r, x)
    PROVE  RoomBounds'
<1>1. /\ table' = [table EXCEPT ![r][x] = NoCard] /\ UNCHANGED <<own, pc, snap, todo, was>>
      /\ request' = [request EXCEPT ![r] = [what |-> "registdel", to |-> [Empty EXCEPT ![x] = table[r][x]],
                                            card |-> table[r][x]]]
  BY DEF setting_multiroom_delete
<1>2. table[r][x] \in Card \cup {NoCard} /\ table[r] \in Table
  BY DEF RoomBounds, Table
<1>3. [table[r] EXCEPT ![x] = NoCard] \in Table /\ [Empty EXCEPT ![x] = table[r][x]] \in Table
  BY <1>2, EmptyIsTable
<1>4. table' \in [Rooms -> Table]
  BY <1>1, <1>3 DEF RoomBounds
<1>5. request' \in [Rooms -> Request]
  <2>1. [what |-> "registdel", to |-> [Empty EXCEPT ![x] = table[r][x]], card |-> table[r][x]] \in Request
    BY <1>2, <1>3 DEF Request
  <2> QED
    BY <1>1, <2>1 DEF RoomBounds
<1>6. edits' \in 0..MaxEdits
  BY DEF setting_multiroom_delete, MayEdit, RoomBounds, Bounds
<1> QED
  BY <1>1, <1>4, <1>5, <1>6 DEF RoomBounds

LEMMA RequestsBounded ==
    ASSUME RoomBounds, NEW r \in Rooms, Merge(r) \/ registdel(r) \/ RequestLost(r)
    PROVE  RoomBounds'
<1>1. request' = [request EXCEPT ![r] = Idle] /\ UNCHANGED <<own, snap, todo, was, edits>>
  BY DEF Merge, registdel, RequestLost
<1>2. request' \in [Rooms -> Request]
  BY <1>1, EmptyIsTable DEF RoomBounds
<1>3. pc' \in PcType
  BY StartType DEF Merge, registdel, RequestLost, RoomBounds
<1>4. table' \in [Rooms -> Table]
  <2>1. CASE Merge(r)
    <3>1. table[r] \in Table /\ request[r].to \in Table
      BY DEF RoomBounds, Request
    <3>2. [y \in Rooms |-> IF y = r \/ request[r].to[y] = NoCard THEN table[r][y] ELSE request[r].to[y]] \in Table
      BY <3>1 DEF Table
    <3>3. table' = [table EXCEPT ![r] = [y \in Rooms |-> IF y = r \/ request[r].to[y] = NoCard THEN table[r][y] ELSE request[r].to[y]]]
      BY <2>1 DEF Merge, RoomBounds
    <3> QED
      BY <3>2, <3>3 DEF RoomBounds
  <2>2. CASE registdel(r)
    <3>1. PICK x \in Rooms : table' = table \/ table' = [table EXCEPT ![x][r] = NoCard]
      BY <2>2 DEF registdel, Known
    <3>2. [table[x] EXCEPT ![r] = NoCard] \in Table
      BY EmptyIsTable DEF RoomBounds
    <3> QED
      BY <3>1, <3>2 DEF RoomBounds
  <2>3. CASE RequestLost(r)
    BY <2>3 DEF RequestLost, RoomBounds
  <2> QED
    BY <2>1, <2>2, <2>3
<1> QED
  BY <1>1, <1>2, <1>3, <1>4 DEF RoomBounds

LEMMA ThreadBounded ==
    ASSUME RoomBounds, NEW r \in Rooms, Touch(r) \/ Sync(r) \/ SyncEnd(r) \/ SpuriousWake(r)
    PROVE  RoomBounds'
<1>1. UNCHANGED <<own, request, was, edits>>
  BY DEF Touch, Sync, SyncEnd, SpuriousWake
<1>2. pc' \in PcType
  BY DEF Touch, Sync, SyncEnd, SpuriousWake, RoomBounds, PcType
<1>3. table' \in [Rooms -> Table]
  <2>1. [table[r] EXCEPT ![r] = own[r]] \in Table
    BY EmptyIsTable DEF RoomBounds
  <2> QED
    BY <2>1 DEF Touch, Sync, SyncEnd, SpuriousWake, RoomBounds
<1>4. snap' \in [Rooms -> Table]
  BY EmptyIsTable DEF Touch, Sync, SyncEnd, SpuriousWake, RoomBounds
<1>5. todo' \in [Rooms -> SUBSET Rooms] /\ \A y \in Rooms : y \notin todo'[y]
  BY DEF Touch, Sync, SyncEnd, SpuriousWake, RoomBounds, Known
<1> QED
  BY <1>1, <1>2, <1>3, <1>4, <1>5 DEF RoomBounds

LEMMA PostsBounded ==
    ASSUME RoomBounds, NEW r \in Rooms, NEW x \in Rooms, multiroom_sync(r, x) \/ PostLost(r, x)
    PROVE  RoomBounds'
<1>1. /\ todo' = [todo EXCEPT ![r] = @ \ {x}] /\ UNCHANGED <<own, pc, snap, was, request, edits>>
      /\ table' = table \/ table' = [table EXCEPT ![x] = snap[r]]
  BY DEF multiroom_sync, PostLost
<1>2. table' \in [Rooms -> Table]
  BY <1>1 DEF RoomBounds
<1>3. todo' \in [Rooms -> SUBSET Rooms] /\ \A y \in Rooms : y \notin todo'[y]
  BY <1>1 DEF RoomBounds
<1> QED
  BY <1>1, <1>2, <1>3 DEF RoomBounds

LEMMA RoomBoundsNext == Bounds /\ RoomBounds /\ [Next]_vars => RoomBounds'
<1> SUFFICES ASSUME Bounds, RoomBounds, [Next]_vars PROVE RoomBounds'
  OBVIOUS
<1>1. CASE UNCHANGED vars
  BY <1>1 DEF vars, RoomBounds
<1>2. CASE Next
  BY <1>2, ChangeBounded, AppendBounded, DeleteBounded, RequestsBounded, ThreadBounded, PostsBounded DEF Next, Run
<1> QED
  BY <1>1, <1>2
=============================================================================
