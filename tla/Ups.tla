--------------------------------- MODULE Ups ---------------------------------
(***************************************************************************)
(* src/xpr_ups.c: settings kept in memory, in a JSON document and in a     *)
(* file with three older generations of it.                                *)
(*                                                                         *)
(* sLock is a recursive mutex around every call, so a call is one step     *)
(* unless it stops half-way: XPR_UPS_Sync reads sHaveChanges before it     *)
(* takes the lock and then writes file after file, any of which a crash    *)
(* may leave torn; XPR_UPS_Fini asks for the lock of the timer queue while *)
(* it holds sLock.  The timer queue's thread runs storageSync holding that *)
(* queue's lock from its start to its end, as module TimerQueue has it.    *)
(*                                                                         *)
(* The tree of entries is flattened to the set of the entries linked to    *)
(* it, and sHaveChanges, which is only compared with 0, is a boolean.  Of  *)
(* types it matters that the document may have an object of another type   *)
(* for an entry (Alien): it reads as Zero and is never written.  (A string *)
(* entry's is read by strdup(NULL), which ends the process as Crash does.) *)
(* Every thread calls XPR_UPS_Init before it uses the settings and         *)
(* XPR_UPS_Fini once, so that sHasInited is the number of threads in       *)
(* joined; the application does not let calls of Init and Fini overlap.    *)
(***************************************************************************)
EXTENDS Integers, FiniteSets

CONSTANTS Users,       \* application threads
          SyncThread,  \* the thread of the default timer queue
          NoThread,
          Entries,
          Stored,      \* entries without XPR_UPS_ENTRY_FLAG_NOSTOR
          Values, Default, Zero,
          Unstorable,  \* values that JSON has no number for: infinities, NaN
          NoValue,     \* the document has no object for the entry
          Alien,       \* the document's object has not the entry's type
          NoJson, Torn, Missing,
          MaxHolds     \* bound: how often the lock is taken by one thread

ASSUME UpsConstants ==
  /\ SyncThread \notin Users /\ NoThread \notin Users \union {SyncThread}
  /\ Stored \subseteq Entries /\ {Default, Zero} \subseteq Values
  /\ {NoValue, Alien} \cap Values = {} /\ NoValue # Alien
  /\ Unstorable \subseteq Values
  /\ {NoJson, Torn, Missing} \cap [Stored -> Values \union {NoValue, Alien}] = {}
  /\ NoJson \notin {Torn, Missing} /\ Torn # Missing
  /\ MaxHolds \in Nat

VARIABLES joined,      \* threads between their Init and their Fini
          lock,        \* sLock: its owner and how often that one took it
          timerOn,     \* sStorageSyncTimer is on the timer queue
          json,        \* sStorageJson
          cur,         \* curVal of each entry
          linked,      \* entries that findEntry finds
          registered,  \* entries with XPR_UPS_ENTRY_FLAG_REGIST
          haveChanges,
          pc,
          copied, open,  \* the saving thread: copies made; a file is truncated
          files,       \* 0 is the storage, n is the storage's backup ".n"
          lastSaved,   \* history: what the last complete dump wrote
          risk         \* history: generations put at risk since that dump, all
                       \* of them by a copy that was torn or passed over

memory == <<joined, lock, timerOn, json, cur, linked, registered, haveChanges>>
saver == <<copied, open>>
disk == <<files, lastSaved, risk>>
vars == <<memory, pc, saver, disk>>

Threads == Users \union {SyncThread}
Documents == [Stored -> (Values \ Unstorable) \union {NoValue, Alien}]
Generations == 3               \* ".1", ".2" and ".3"
Free == [owner |-> NoThread, depth |-> 0]

TypeOK == /\ joined \subseteq Users
          /\ lock \in [owner : Threads \union {NoThread}, depth : 0 .. MaxHolds + 1]
          /\ lock.owner = NoThread <=> lock.depth = 0
          /\ timerOn \in BOOLEAN /\ haveChanges \in BOOLEAN /\ open \in BOOLEAN
          /\ json \in Documents \union {NoJson}
          /\ cur \in [Entries -> Values]
          /\ registered \subseteq linked /\ linked \subseteq Entries
          /\ pc \in [Threads -> {"idle", "sync", "saving", "fini", "unmount"}]
          /\ copied \in 0 .. Generations
          /\ files \in [0 .. Generations -> Documents \union {Torn, Missing}]
          /\ lastSaved \in Documents \union {Missing}
          /\ risk \in 0 .. Generations

Init == /\ joined = {} /\ lock = Free /\ timerOn = FALSE /\ json = NoJson
        /\ cur = [e \in Entries |-> Default]
        /\ linked = {} /\ registered = {} /\ haveChanges = FALSE
        /\ pc = [t \in Threads |-> "idle"]
        /\ copied = 0 /\ open = FALSE
        /\ lastSaved \in Documents \union {Missing}
        /\ files = [n \in 0 .. Generations |-> IF n = 0 THEN lastSaved ELSE Missing]
        /\ risk = 0

-----------------------------------------------------------------------------
(* The lock, and what a thread may do.                                     *)

CanLock(t) == lock.owner \in {NoThread, t}
Taken(t, n) == [owner |-> t, depth |-> lock.depth + n]

Released == IF lock.depth = 1 THEN Free ELSE [lock EXCEPT !.depth = @ - 1]

MayCall(u) == u \in joined /\ pc[u] = "idle"
NoInitOrFini == \A u \in Users : pc[u] \notin {"fini", "unmount"}

Goto(t, where) == pc' = [pc EXCEPT ![t] = where]
Waits(t, where) == pc[t] = where /\ CanLock(t)

-----------------------------------------------------------------------------
(* XPR_UPS_Init and XPR_UPS_Fini.                                          *)

\* mountStorage, loadJson, startSyncTimer: without a document no timer.
MountStorage == IF files[0] \in {Torn, Missing}
                  THEN UNCHANGED <<json, timerOn>>
                  ELSE json' = files[0] /\ timerOn' = TRUE

\* Only the call that finds sHasInited 0 initialises; the others are told
\* XPR_ERR_GEN_BUSY and use what it initialised.
UpsInit(u) ==
  /\ u \notin joined /\ pc[u] = "idle" /\ NoInitOrFini
  /\ joined' = joined \union {u}
  /\ IF joined = {} THEN lock' = Free /\ MountStorage
                    ELSE UNCHANGED <<lock, json, timerOn>>
  /\ UNCHANGED <<cur, linked, registered, haveChanges, pc, saver, disk>>

Fini(u) ==
  /\ MayCall(u) /\ NoInitOrFini
  /\ joined' = joined \ {u}
  /\ IF joined = {u} THEN Goto(u, "fini") ELSE UNCHANGED pc
  /\ UNCHANGED <<lock, timerOn, json, cur, linked, registered, haveChanges, saver, disk>>

\* The lock, and XPR_UPS_UnRegisterAll.
FiniUnregister(u) ==
  /\ Waits(u, "fini")
  /\ lock' = Taken(u, 1) /\ linked' = {} /\ registered' = {}
  /\ Goto(u, "unmount")
  /\ UNCHANGED <<joined, timerOn, json, cur, haveChanges, saver, disk>>

\* A mutant of FiniUnmount: the callback that runs is not waited for.
UnmountAtOnce(u) ==
  /\ pc[u] = "unmount"
  /\ timerOn' = FALSE /\ json' = NoJson /\ lock' = Released
  /\ Goto(u, "idle")
  /\ UNCHANGED <<joined, cur, linked, registered, haveChanges, saver, disk>>

\* stopSyncTimer takes the queue's lock, which a callback that runs holds;
\* changes that were not saved are dropped with the document.
FiniUnmount(u) ==
  /\ pc[u] = "unmount" /\ (timerOn => pc[SyncThread] = "idle")
  /\ timerOn' = FALSE /\ json' = NoJson /\ lock' = Released
  /\ Goto(u, "idle")
  /\ UNCHANGED <<joined, cur, linked, registered, haveChanges, saver, disk>>

-----------------------------------------------------------------------------
(* Entries.                                                                *)

InDocument(e) == e \in Stored /\ json # NoJson /\ json[e] # NoValue

\* A mutant of Register: the default value goes over the stored one.
RegisterDefault(u, e) ==
  /\ MayCall(u) /\ CanLock(u)
  /\ e \notin linked \/ e \in registered
  /\ cur' = [cur EXCEPT ![e] = Default]
  /\ linked' = linked \union {e}
  /\ \E ok \in BOOLEAN : registered' = IF ok THEN registered \union {e} ELSE registered \ {e}
  /\ UNCHANGED <<joined, lock, timerOn, json, haveChanges, pc, saver, disk>>

\* storageFetchValue, or else entryUseDefaultValue; neither for NOSTOR.
Fetched(e) == CASE InDocument(e) -> IF json[e] = Alien THEN Zero ELSE json[e]
                [] e \in Stored /\ ~InDocument(e) -> Default
                [] e \notin Stored -> cur[e]

\* XPR_UPS_RegisterSingle, of a new entry or (OVRIDE) over a registered one;
\* one whose init fails stays linked.
Register(u, e) ==
  /\ MayCall(u) /\ CanLock(u)
  /\ e \notin linked \/ e \in registered
  /\ cur' = [cur EXCEPT ![e] = Fetched(e)]
  /\ linked' = linked \union {e}
  /\ \E ok \in BOOLEAN : registered' = IF ok THEN registered \union {e} ELSE registered \ {e}
  /\ UNCHANGED <<joined, lock, timerOn, json, haveChanges, pc, saver, disk>>

\* XPR_UPS_UnRegister: entryUnregister skips what is not registered.
Unregister(u, e) ==
  /\ MayCall(u) /\ CanLock(u) /\ e \in registered
  /\ linked' = linked \ {e} /\ registered' = registered \ {e}
  /\ UNCHANGED <<joined, lock, timerOn, json, cur, haveChanges, pc, saver, disk>>

\* writeDataToJson fails when the document has no object for the entry, one of
\* another type, or jansson does not take the value.
CanWrite(e, v) == InDocument(e) /\ json[e] # Alien /\ v \notin Unstorable
Written(e, v) == IF CanWrite(e, v) THEN [json EXCEPT ![e] = v] ELSE json

\* A mutant of SetData: the change is not marked.
SetUnmarked(u, e, v) ==
  /\ MayCall(u) /\ CanLock(u) /\ e \in linked
  /\ cur' = [cur EXCEPT ![e] = v]
  /\ json' = Written(e, v)
  /\ UNCHANGED <<joined, lock, timerOn, linked, registered, haveChanges, pc, saver, disk>>

\* XPR_UPS_SetData, when no setter refuses: WriteValue, then WriteData, which may
\* fail when the entry has its new value already.
SetData(u, e, v) ==
  /\ MayCall(u) /\ CanLock(u) /\ e \in linked
  /\ cur' = [cur EXCEPT ![e] = v]
  /\ json' = Written(e, v)
  /\ haveChanges' = (haveChanges \/ CanWrite(e, v))
  /\ UNCHANGED <<joined, lock, timerOn, linked, registered, pc, saver, disk>>

\* XPR_UPS_GetData when XPR_UPS_ReadValue fails (a short buffer, a type it
\* cannot read): XPR_UPS_ReadData takes the lock twice and never releases it.
GetDataFails(u, e) ==
  /\ MayCall(u) /\ CanLock(u) /\ e \in linked
  /\ lock.depth + 2 <= MaxHolds
  /\ lock' = Taken(u, 2)
  /\ UNCHANGED <<joined, timerOn, json, cur, linked, registered, haveChanges, pc, saver, disk>>

-----------------------------------------------------------------------------
(* XPR_UPS_Sync, called by the application or by storageSync.              *)

Sync(u) == /\ MayCall(u) /\ haveChanges /\ Goto(u, "sync")
           /\ UNCHANGED <<memory, saver, disk>>

\* A mutant of TimerFires: storageSync returns XPR_TIMER_TERMINATE.
TimerFiresOnce == /\ timerOn /\ pc[SyncThread] = "idle" /\ haveChanges
                  /\ Goto(SyncThread, "sync")
                  /\ timerOn' = FALSE
                  /\ UNCHANGED <<joined, lock, json, cur, linked, registered, haveChanges,
                                 saver, disk>>

\* storageSync, when there is something to save; the timer goes on.
TimerFires == /\ timerOn /\ pc[SyncThread] = "idle" /\ haveChanges
              /\ Goto(SyncThread, "sync")
              /\ UNCHANGED <<memory, saver, disk>>

SyncLock(t) ==
  /\ Waits(t, "sync")
  /\ lock' = Taken(t, 1) /\ haveChanges' = FALSE
  /\ copied' = 0 /\ Goto(t, "saving")
  /\ UNCHANGED <<joined, timerOn, json, cur, linked, registered, open, disk>>

\* A mutant of Source and Target: the newest file is copied first.
SourceNewestFirst(n) == n

\* syncStorage copies ".2" to ".3", ".1" to ".2" and the storage to ".1".
Source(n) == Generations - 1 - n
Target(n) == Source(n) + 1

\* XPR_FileCopy truncates the target.  Nobody looks at its result: a source that
\* is not there, or a source or target it cannot open, is passed over.
CopyOpen(t) ==
  /\ pc[t] = "saving" /\ copied < Generations /\ ~open
  /\ \/ /\ files[Source(copied)] # Missing
        /\ open' = TRUE /\ files' = [files EXCEPT ![Target(copied)] = Torn]
        /\ UNCHANGED <<copied, risk>>
     \/ /\ copied' = copied + 1
        /\ risk' = IF files[Source(copied)] = Missing THEN risk ELSE Generations
        /\ UNCHANGED <<open, files>>
  /\ UNCHANGED <<memory, pc, lastSaved>>

\* It writes the copy, or what fits on the disk.
CopyWrite(t) ==
  /\ pc[t] = "saving" /\ copied < Generations /\ open
  /\ \/ files' = [files EXCEPT ![Target(copied)] = files[Source(copied)]] /\ UNCHANGED risk
     \/ risk' = Generations /\ UNCHANGED files
  /\ copied' = copied + 1 /\ open' = FALSE
  /\ UNCHANGED <<memory, pc, lastSaved>>

MoreRisk == IF risk < Generations THEN risk + 1 ELSE risk

\* A mutant of SaveEnds: the lock is kept.
SaveKeepsLock(t) == /\ copied' = 0 /\ open' = FALSE /\ Goto(t, "idle")
                    /\ UNCHANGED <<joined, lock, timerOn, json, cur, linked, registered,
                                   haveChanges>>

\* The end of a save: XPR_UPS_Sync releases the lock and forgets the error.
SaveEnds(t) == /\ copied' = 0 /\ open' = FALSE /\ lock' = Released /\ Goto(t, "idle")
               /\ UNCHANGED <<joined, timerOn, json, cur, linked, registered, haveChanges>>

\* XPR_JSON_DumpFileName cannot open the storage, or there is no document.
DumpSkipped(t) ==
  /\ pc[t] = "saving" /\ copied = Generations /\ ~open
  /\ SaveEnds(t)
  /\ risk' = MoreRisk /\ UNCHANGED <<files, lastSaved>>

\* XPR_JSON_DumpFileName truncates the storage.
DumpOpen(t) ==
  /\ pc[t] = "saving" /\ copied = Generations /\ ~open /\ json # NoJson
  /\ open' = TRUE /\ files' = [files EXCEPT ![0] = Torn]
  /\ UNCHANGED <<memory, pc, copied, lastSaved, risk>>

\* It writes the document, or fails half-way.
DumpWrite(t) ==
  /\ pc[t] = "saving" /\ copied = Generations /\ open
  /\ SaveEnds(t)
  /\ \/ /\ files' = [files EXCEPT ![0] = json]
        /\ lastSaved' = json /\ risk' = 0
     \/ risk' = MoreRisk /\ UNCHANGED <<files, lastSaved>>

Save(t) == SyncLock(t) \/ CopyOpen(t) \/ CopyWrite(t) \/ DumpSkipped(t) \/ DumpOpen(t) \/ DumpWrite(t)

\* The process dies and is started again: what it had in memory is gone.
Crash == /\ joined' = {} /\ lock' = Free /\ timerOn' = FALSE /\ json' = NoJson
         /\ cur' = [e \in Entries |-> Default]
         /\ linked' = {} /\ registered' = {} /\ haveChanges' = FALSE
         /\ pc' = [t \in Threads |-> "idle"]
         /\ copied' = 0 /\ open' = FALSE
         /\ risk' = IF \E t \in Threads : pc[t] = "saving" THEN MoreRisk ELSE risk
         /\ UNCHANGED <<files, lastSaved>>

-----------------------------------------------------------------------------
UserNext(u) ==
  \/ UpsInit(u) \/ Fini(u) \/ FiniUnregister(u) \/ FiniUnmount(u) \/ Sync(u)
  \/ \E e \in Entries : \/ Register(u, e) \/ Unregister(u, e) \/ GetDataFails(u, e)
                        \/ \E v \in Values : SetData(u, e, v)

Next == \/ \E u \in Users : UserNext(u)
        \/ TimerFires
        \/ \E t \in Threads : Save(t)
        \/ Crash

\* The timer expires every five seconds, and a thread that has begun to save
\* goes on.  Nothing makes an application call.
Fairness == WF_vars(TimerFires) /\ \A t \in Threads : WF_vars(Save(t))

Spec == Init /\ [][Next]_vars
FairSpec == Spec /\ Fairness
-----------------------------------------------------------------------------
(* Properties.                                                             *)

Saving(t) == pc[t] = "saving"
LockLeaked == lock.depth > 1

\* What the document holds is in the file, or marked to be saved, or its save
\* failed: haveChanges is cleared before a save and set by every change, in
\* other threads, and the check before the save takes no lock.
DirtyTracked ==
  json # NoJson /\ (\A t \in Threads : ~Saving(t))
    => json = files[0] \/ haveChanges \/ risk > 0

\* An entry and the document differ only where the second of the two writes of a
\* XPR_UPS_Set call must fail: the document's object has another type, or JSON has
\* no number for the entry's value.  Such a setting is lost at the next start.
DocumentAgrees ==
  \A e \in registered : InDocument(e) =>
    cur[e] = json[e] \/ json[e] = Alien \/ cur[e] \in Unstorable

\* What was last saved completely is whole in the storage or in a backup,
\* whatever file a crash or a failed dump has torn, until a third save in a
\* row fails or a backup copy is torn or, unnoticed, not made at all.
BackupSurvives == risk < Generations => \E n \in DOMAIN files : files[n] = lastSaved

\* storageSync neither runs nor waits for sLock when XPR_UPS_Fini, which
\* destroys the lock and the document, has returned.
NoSyncAfterFini == pc[SyncThread] # "idle" => timerOn /\ json # NoJson

\* "Call sync with locking": the timer's thread, which has the queue's lock,
\* and XPR_UPS_Fini, which has sLock, never wait for each other.
NoWaitCycle == ~ (pc[SyncThread] = "sync" /\ \E u \in Users : pc[u] = "unmount")

\* After a save that went well, a change gets into the storage in the end: the
\* timer's saves, and those of the application, go on until one has written the
\* document with nothing left to mark.  Unless a save fails (it is not tried again
\* before the next change), the settings are closed, or a failed read keeps the lock.
ChangesSaved ==
  haveChanges /\ json # NoJson /\ risk = 0
    ~> \/ json = files[0] /\ ~haveChanges
       \/ risk > 0 \/ joined = {} \/ LockLeaked
==============================================================================
