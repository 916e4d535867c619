----------------------------- MODULE CloudSync -----------------------------
(***************************************************************************)
(* The cloud service (ColudSyncPooling and ColudSyncConfig). One thread    *)
(* keeps a link to the server and polls it for commands; a second one      *)
(* uploads config.conf, or that and all images. Web workers and the reader *)
(* of networksetting.reset (ResetConfigEndel) change settings, images and  *)
(* the account, and ask for uploads.                                       *)
(*                                                                         *)
(* A version number stands for a content. That of an image is its file     *)
(* time, by which the program compares: a later one is not lower, and is   *)
(* higher once the settings were saved. A link is the account it was made  *)
(* for, 0 is none. The server is external: it keeps, per account, what was *)
(* uploaded, and any request to it may fail. The flag isWakeupFlag only    *)
(* shortens waits and is left out, as are the waits themselves.            *)
(***************************************************************************)
EXTENDS Integers, Sequences

CONSTANTS Clients,    \* threads that change settings
          Files,      \* images
          Accounts,   \* the user's accounts
          MaxConf     \* bound on the saves

VARIABLES conf, files,         \* the version on disk of config.conf and of each image, 0: no such image
          todo,                \* the calls each client still has to make
          id, isSyncServerOK,  \* the account, and whether synchronising is allowed
          linkid, isSync,      \* of ColudSyncPooling
          lpc, request,        \* its thread, and the account it sent in getlink
          uplink, SyncTarget,  \* of ColudSyncConfig
          upIsSync,            \* its isSync
          upc, target,         \* its thread; what the running upload uploads
          read, table, seen,   \* config.conf as read; the server's list; the images found
          scan,                \* images that findfile has not reported yet
          srv,                 \* the server
          clean                \* no failure and no change since the upload began

linkvars == <<linkid, isSync, lpc, request>>
upload == <<upc, target, read, table, seen, scan>>
account == <<id, isSyncServerOK>>
vars == <<conf, files, todo, account, linkvars, uplink, SyncTarget, upIsSync, upload, srv,
          clean>>

Versions == 0..MaxConf
Links == Accounts \cup {0}
Kept == [conf : Versions, files : [Files -> Versions]]
Calls == {"save", "account", "only", "full", "joinlink", "joinconfig"}
CallLists == {s \in Seq(Calls) : Len(s) <= 4}

TypeOK == /\ conf \in Versions /\ files \in [Files -> Versions]
          /\ todo \in [Clients -> CallLists]
          /\ id \in Accounts /\ isSyncServerOK \in BOOLEAN
          /\ linkid \in Links /\ isSync \in BOOLEAN
          /\ lpc \in {"top", "rendezvous", "send", "answer", "tell", "pooling"} /\ request \in Accounts
          /\ uplink \in Links /\ SyncTarget \in {"full", "only"} /\ upIsSync \in BOOLEAN
          /\ upc \in {"loop", "asleep", "awake", "read", "post", "files", "del", "done"}
          /\ target \in {"full", "only"} /\ read \in Versions /\ table \in [Files -> Versions]
          /\ seen \subseteq Files /\ scan \subseteq Files
          /\ srv \in [Accounts -> Kept]
          /\ clean \in BOOLEAN

NoFiles == [f \in Files |-> 0]
Init == /\ conf = 0 /\ files = NoFiles
        /\ todo = [c \in Clients |-> <<>>]
        /\ id \in Accounts /\ isSyncServerOK \in BOOLEAN
        /\ linkid = 0 /\ isSync = FALSE /\ lpc = "top" /\ request = id
        /\ uplink = 0 /\ SyncTarget = "full" /\ upIsSync = FALSE
        /\ upc = "loop" /\ target = "full" /\ read = 0 /\ table = NoFiles
        /\ seen = {} /\ scan = {}
        /\ srv = [a \in Accounts |-> [conf |-> 0, files |-> NoFiles]]
        /\ clean = FALSE

-----------------------------------------------------------------------------
(* The uploader's interface: each call sets the target and notifies.       *)

Wakeup(what) == /\ SyncTarget' = what
                /\ upIsSync' = FALSE
                /\ upc' = IF upc = "asleep" THEN "awake" ELSE upc

NoWakeup == UNCHANGED <<SyncTarget, upIsSync, upc>>
-----------------------------------------------------------------------------
(* The clients.                                                            *)

Begin(c, calls) == /\ todo[c] = <<>> /\ conf < MaxConf
                   /\ todo' = [todo EXCEPT ![c] = calls]
                   /\ UNCHANGED <<conf, account, linkvars, uplink, SyncTarget, upIsSync,
                                  upload, srv>>

(* A handler that changes settings only.                                   *)
ChangeSetting(c) == Begin(c, <<"save", "only">>) /\ UNCHANGED <<files, clean>>

(* One that stores or deletes an image too.                                *)
ChangeImage(c) == /\ Begin(c, <<"save", "full">>)
                  /\ \E f \in Files : \E v \in {0, conf + 1} : files' = [files EXCEPT ![f] = v]
                  /\ clean' = FALSE

setting_account_update(c) == Begin(c, <<"account", "save", "only">>) /\ UNCHANGED <<files, clean>>

(* ResetConfigEndel::loadConfig, from the save of the settings on.         *)
ResetConfig(c) == /\ Begin(c, <<"save", "account", "full", "joinlink">>)
                  /\ UNCHANGED <<files, clean>>

At(c, call) == /\ todo[c] # <<>> /\ Head(todo[c]) = call
               /\ todo' = [todo EXCEPT ![c] = Tail(@)]

(* Config.overrideSave on the main thread.                                 *)
overrideSave(c) == /\ At(c, "save") /\ conf < MaxConf
                   /\ conf' = conf + 1
                   /\ clean' = FALSE /\ NoWakeup
                   /\ UNCHANGED <<files, account, linkvars, uplink, target, read, table, seen, scan,
                                  srv>>

(* ColudSyncPooling::WakeupByNewSyncID. The uploader keeps its link.       *)
WakeupByNewSyncID(c) ==
    /\ At(c, "account")
    /\ id' \in Accounts
    /\ isSyncServerOK' \in IF todo[c][2] = "full" THEN {TRUE} ELSE BOOLEAN
    /\ linkid' = 0 /\ isSync' = FALSE
    /\ UNCHANGED <<conf, files, lpc, request, uplink, SyncTarget, upIsSync, upload, srv,
                   clean>>

WakeupSyncConfig(c, what) ==
    /\ At(c, what)
    /\ IF isSyncServerOK THEN Wakeup(what) ELSE NoWakeup
    /\ UNCHANGED <<conf, files, account, linkvars, uplink, target, read, table, seen, scan,
                   srv, clean>>

(* SyncJoin, first until there is a link, then until the uploader is done. *)
(* It gives up after some seconds, and returns at once where synchronising *)
(* is not allowed.                                                         *)
JoinLink(c) == /\ todo[c] = <<"joinlink">> /\ isSync /\ isSyncServerOK
               /\ todo' = [todo EXCEPT ![c] = <<"joinconfig">>]
               /\ UNCHANGED <<conf, files, account, linkvars, uplink, SyncTarget, upIsSync,
                              upload, srv, clean>>
JoinConfig(c) == /\ At(c, "joinconfig") /\ upIsSync
                 /\ UNCHANGED <<conf, files, account, linkvars, uplink, SyncTarget, upIsSync,
                                upload, srv, clean>>
JoinReturns(c) == /\ At(c, "joinlink") \/ At(c, "joinconfig")
                  /\ UNCHANGED <<conf, files, account, linkvars, uplink, SyncTarget, upIsSync,
                                 upload, srv, clean>>

Call(c) == \/ overrideSave(c) \/ WakeupByNewSyncID(c)
           \/ \E what \in {"full", "only"} : WakeupSyncConfig(c, what)
           \/ JoinLink(c) \/ JoinConfig(c) \/ JoinReturns(c)

-----------------------------------------------------------------------------
(* The link thread, ColudSyncPooling::ThreadMain.                          *)

LinkStep(from, to) == /\ lpc = from /\ lpc' = to
                      /\ UNCHANGED <<files, todo, account, uplink, target, read, table, seen,
                                     scan, srv>>

(* Where synchronising is not allowed it waits at the top.                 *)
Allowed == /\ isSyncServerOK /\ LinkStep("top", "rendezvous")
           /\ NoWakeup /\ UNCHANGED <<conf, linkid, isSync, request, clean>>

Rendezvous == /\ LinkStep("rendezvous", "send")
              /\ isSync' = FALSE
              /\ NoWakeup /\ UNCHANGED <<conf, linkid, request, clean>>

(* Mutant of SendGetLink: it asks for the link it has, not the account.    *)
SendGetLinkOld == /\ LinkStep("send", "answer")
                  /\ request' = linkid
                  /\ NoWakeup /\ UNCHANGED <<conf, linkid, isSync, clean>>

(* OpeartionGetLink reads the account without the lock.                    *)
SendGetLink == /\ LinkStep("send", "answer")
               /\ request' = id
               /\ NoWakeup /\ UNCHANGED <<conf, linkid, isSync, clean>>

GotLink == /\ LinkStep("answer", "tell")
           /\ linkid' = request /\ isSync' = TRUE
           /\ NoWakeup /\ UNCHANGED <<conf, request, clean>>

(* An error or an exception: try again after half a minute.                *)
NoLink == /\ LinkStep("answer", "rendezvous")
          /\ NoWakeup /\ UNCHANGED <<conf, linkid, isSync, request, clean>>

(* The uploader is told the link, and to upload everything.                *)
Tell == /\ lpc = "tell" /\ lpc' = "pooling"
        /\ uplink' = linkid
        /\ clean' = (clean /\ uplink = linkid)
        /\ Wakeup("full")
        /\ UNCHANGED <<conf, files, todo, account, linkid, isSync, request, target, read,
                       table, seen, scan, srv>>

(* OpeartionPooling and RunOpline: a command to wait or to operate an      *)
(* appliance leaves everything here as it is.                              *)
Pooling == /\ linkid # 0
           /\ LinkStep("pooling", IF isSync THEN "pooling" ELSE "top")
           /\ NoWakeup /\ UNCHANGED <<conf, linkid, isSync, request, clean>>

(* The command reconfig saves the settings and asks for an upload.         *)
Reconfig == /\ linkid # 0 /\ conf < MaxConf
            /\ LinkStep("pooling", IF isSync THEN "pooling" ELSE "top")
            /\ conf' = conf + 1 /\ clean' = FALSE
            /\ IF isSyncServerOK THEN Wakeup("full") ELSE NoWakeup
            /\ UNCHANGED <<linkid, isSync, request>>

(* An exception, BAD, or a command without its arguments.                  *)
PoolingFails == /\ LinkStep("pooling", "top")
                /\ NoWakeup /\ UNCHANGED <<conf, linkid, isSync, request, clean>>

LinkThread == \/ Allowed \/ Rendezvous \/ SendGetLink \/ GotLink \/ NoLink \/ Tell
              \/ Pooling \/ PoolingFails \/ Reconfig

-----------------------------------------------------------------------------
(* The uploader, ColudSyncConfig::ThreadMain.                              *)

UpStep(from, to) == /\ upc = from /\ upc' = to
                    /\ UNCHANGED <<conf, files, todo, account, linkvars, uplink, SyncTarget>>

(* The wait has no condition.                                              *)
UpWait == UpStep("loop", "asleep") /\ UNCHANGED <<upIsSync, target, read, table, seen, scan, srv, clean>>

SpuriousWake == UpStep("asleep", "awake") /\ UNCHANGED <<upIsSync, target, read, table, seen, scan, srv, clean>>

NoLinkYet == /\ uplink = 0
             /\ UpStep("awake", "loop") /\ UNCHANGED <<upIsSync, target, read, table, seen, scan, srv, clean>>

ReadTarget == /\ uplink # 0
              /\ UpStep("awake", "read")
              /\ target' = SyncTarget
              /\ clean' = TRUE
              /\ UNCHANGED <<upIsSync, read, table, seen, scan, srv>>

ReadConfig == /\ UpStep("read", "post")
              /\ read' = conf
              /\ UNCHANGED <<upIsSync, target, table, seen, scan, srv, clean>>

(* The server takes config.conf and answers with the images it has.        *)
PostConfig == /\ uplink # 0
              /\ UpStep("post", IF target = "only" THEN "done" ELSE "files")
              /\ srv' = [srv EXCEPT ![uplink].conf = read]
              /\ table' = srv[uplink].files /\ seen' = {} /\ scan' = Files
              /\ UNCHANGED <<upIsSync, target, read, clean>>

(* Mutant of SyncFile: an image the server has in any version is skipped.  *)
SyncFileMissing(f) ==
    /\ f \in scan /\ scan' = scan \ {f}
    /\ UpStep("files", "files")
    /\ seen' = IF files[f] # 0 THEN seen \cup {f} ELSE seen
    /\ LET needed == table[f] = 0 /\ files[f] # 0
       IN  \/ ~needed /\ UNCHANGED <<srv, clean>>
           \/ needed /\ uplink # 0 /\ srv' = [srv EXCEPT ![uplink].files[f] = files[f]] /\ UNCHANGED clean
           \/ needed /\ clean' = FALSE /\ UNCHANGED srv
    /\ UNCHANGED <<upIsSync, target, read, table>>

(* V2SyncDirecotry, for a name: an image that is missing on the server or  *)
(* older there is uploaded; an error is passed over.                       *)
SyncFile(f) ==
    /\ f \in scan /\ scan' = scan \ {f}
    /\ UpStep("files", "files")
    /\ seen' = IF files[f] # 0 THEN seen \cup {f} ELSE seen
    /\ LET needed == files[f] > table[f]
       IN  \/ ~needed /\ UNCHANGED <<srv, clean>>
           \/ needed /\ uplink # 0 /\ srv' = [srv EXCEPT ![uplink].files[f] = files[f]] /\ UNCHANGED clean
           \/ needed /\ clean' = FALSE /\ UNCHANGED srv
    /\ UNCHANGED <<upIsSync, target, read, table>>

Listed == /\ scan = {}
          /\ UpStep("files", "del")
          /\ scan' = {f \in Files : table[f] # 0 /\ f \notin seen}
          /\ UNCHANGED <<upIsSync, target, read, table, seen, srv, clean>>

(* What only the server has is deleted there; its answer is not looked at. *)
SyncDel(f) == /\ f \in scan /\ scan' = scan \ {f}
              /\ UpStep("del", "del")
              /\ \/ uplink # 0 /\ srv' = [srv EXCEPT ![uplink].files[f] = 0] /\ UNCHANGED clean
                 \/ clean' = FALSE /\ UNCHANGED srv
              /\ UNCHANGED <<upIsSync, target, read, table, seen>>

Deleted == /\ scan = {}
           /\ UpStep("del", "done")
           /\ UNCHANGED <<upIsSync, target, read, table, seen, scan, srv, clean>>

(* isSync is set without the lock.                                         *)
UpDone == /\ UpStep("done", "loop")
          /\ upIsSync' = TRUE
          /\ UNCHANGED <<target, read, table, seen, scan, srv, clean>>

(* A request throws: the upload ends and isSync stays as it is.            *)
UpThrows == /\ upc \in {"post", "files", "del"}
            /\ UpStep(upc, "loop")
            /\ UNCHANGED <<upIsSync, target, read, table, seen, scan, srv, clean>>

Upload == \/ UpWait \/ NoLinkYet \/ ReadTarget \/ ReadConfig \/ PostConfig \/ Listed
          \/ Deleted \/ UpDone \/ UpThrows \/ SpuriousWake
          \/ \E f \in Files : SyncFile(f) \/ SyncDel(f)

Next == \/ \E c \in Clients : \/ ChangeSetting(c) \/ ChangeImage(c)
                             \/ setting_account_update(c) \/ ResetConfig(c) \/ Call(c)
        \/ LinkThread \/ Upload

Spec == Init /\ [][Next]_vars

-----------------------------------------------------------------------------
(* An upload of everything in which no request failed, and during which    *)
(* nothing was changed, leaves the server with the very settings and       *)
(* images of this machine: newer images are uploaded and deleted ones      *)
(* deleted (ColudSyncConfig.cpp:140-195, 236-329).                         *)
MirrorAfterFull == upc = "done" /\ target = "full" /\ clean
                   => srv[uplink] = [conf |-> conf, files |-> files]
=============================================================================
