------------------------------- MODULE UpsProofs -------------------------------
(***************************************************************************)
(* The settings of xpr_ups.c, for any number of threads, entries and       *)
(* values: what was last saved survives in the storage or a backup,        *)
(* changes are marked, entries and document agree, and the timer's thread  *)
(* does not run into a settings system that was closed.                    *)
(*                                                                         *)
(* The invariant is a conjunction of parts.  One lemma a part shows that   *)
(* every step preserves it: it has a step for each action that changes a   *)
(* variable of the part, and one for all the others.                       *)
(***************************************************************************)
EXTENDS Ups, TLAPS

-----------------------------------------------------------------------------
(* The inductive invariant.                                                *)

LockType == /\ lock \in [owner : Threads \union {NoThread}, depth : 0 .. MaxHolds + 1]
            /\ lock.owner = NoThread <=> lock.depth = 0
MemoryType == /\ joined \subseteq Users
              /\ timerOn \in BOOLEAN /\ haveChanges \in BOOLEAN /\ open \in BOOLEAN
              /\ json \in Documents \union {NoJson}
              /\ registered \subseteq linked /\ linked \subseteq Entries
CurType == cur \in [Entries -> Values]
PcType == pc \in [Threads -> {"idle", "sync", "saving", "fini", "unmount"}]
CountType == copied \in 0 .. Generations /\ risk \in 0 .. Generations
FilesType == /\ files \in [0 .. Generations -> Documents \union {Torn, Missing}]
             /\ lastSaved \in Documents \union {Missing}

\* A thread that saves or unmounts has the lock, and so is the only one; the
\* lock is taken once more than the bound only by such a thread.
Holds(t) == pc[t] \in {"saving", "unmount"}
LockInv == /\ \A t \in Threads : Holds(t) => lock.owner = t
           /\ lock.depth > MaxHolds => \E t \in Threads : Holds(t)

\* A thread that is in XPR_UPS_Sync has joined, and nobody has while the last
\* XPR_UPS_Fini goes on.
CallsInv == /\ \A u \in Users : pc[u] \in {"sync", "saving"} => u \in joined
            /\ pc[SyncThread] \in {"idle", "sync", "saving"}
            /\ (\E u \in Users : pc[u] \in {"fini", "unmount"}) => joined = {}

\* The timer goes with the document; between the last XPR_UPS_Fini and the
\* next XPR_UPS_Init there is neither, nor a registered entry.
MountInv == /\ NoSyncAfterFini
            /\ timerOn => json # NoJson
            /\ joined = {} /\ NoInitOrFini => ~timerOn /\ json = NoJson
            /\ joined = {} /\ (\A u \in Users : pc[u] # "fini") => registered = {}

\* A save that is over leaves nothing open, and a dump has a document.
SaverInv == /\ (\A t \in Threads : ~Saving(t)) => copied = 0 /\ ~open
            /\ open /\ copied = Generations => json # NoJson

MemoryInv == /\ LockType /\ MemoryType /\ CurType /\ PcType /\ CountType /\ FilesType
             /\ LockInv /\ CallsInv /\ MountInv /\ SaverInv

\* A document comes from a storage that was saved.
SavedInv == /\ lastSaved = Missing => \A n \in 0 .. Generations : files[n] = Missing
            /\ json # NoJson => lastSaved # Missing

\* Where the document is now that generation n held before the save: copying
\* has reached generation Generations - copied, from the oldest down.
Now(n) == IF n >= Generations - copied THEN n + 1 ELSE n

\* The last save is among the generations that failures since have left alone,
\* or was copied from there to the next.
BackupInv == risk < Generations => \E n \in 0 .. risk : files[Now(n)] = lastSaved

DiskInv == MemoryInv /\ SavedInv /\ BackupInv

-----------------------------------------------------------------------------
\* The special values are no documents.
LEMMA NoDocument == {NoJson, Torn, Missing} \cap Documents = {}
BY UpsConstants DEF Documents

LEMMA InvType == MemoryInv => TypeOK
BY DEF MemoryInv, TypeOK, LockType, MemoryType, CurType, PcType, CountType, FilesType

LEMMA InitInv == Init => DiskInv /\ DirtyTracked /\ DocumentAgrees
<1> SUFFICES ASSUME Init PROVE DiskInv /\ DirtyTracked /\ DocumentAgrees OBVIOUS
<1> USE UpsConstants DEF Init, Threads, Free
<1>1. LockType /\ MemoryType /\ CurType /\ PcType
  <2>1. LockType BY DEF LockType
  <2>2. MemoryType BY DEF MemoryType
  <2>3. CurType BY DEF CurType
  <2>4. PcType BY DEF PcType
  <2> QED BY <2>1, <2>2, <2>3, <2>4
<1>2. CountType /\ FilesType BY DEF CountType, FilesType, Generations
<1>3. LockInv /\ CallsInv BY DEF LockInv, CallsInv, Holds
<1>4. MountInv BY DEF MountInv, NoSyncAfterFini, NoInitOrFini
<1>5. SaverInv BY DEF SaverInv
<1>6. SavedInv BY DEF SavedInv, Generations
<1>7. BackupInv BY DEF BackupInv, Now, Generations
<1>8. DirtyTracked /\ DocumentAgrees BY DEF DirtyTracked, DocumentAgrees
<1> QED BY <1>1, <1>2, <1>3, <1>4, <1>5, <1>6, <1>7, <1>8 DEF DiskInv, MemoryInv

-----------------------------------------------------------------------------
(* One lemma for each part.                                                *)

\* The lock's depth never grows past the bound: only a saver or Fini exceeds it.
LEMMA LockTypeNext == ASSUME MemoryInv, [Next]_vars PROVE LockType'
<1> USE UpsConstants, NoDocument DEF MemoryInv, LockType, LockInv, Holds, Waits,
        CanLock, Taken, Released, Free, Threads
<1>1. ASSUME NEW u \in Users, UpsInit(u) PROVE LockType'
  BY <1>1 DEF UpsInit, MountStorage
<1>2. ASSUME NEW u \in Users, FiniUnregister(u) PROVE LockType'
  BY <1>2 DEF FiniUnregister
<1>3. ASSUME NEW u \in Users, FiniUnmount(u) PROVE LockType'
  BY <1>3 DEF FiniUnmount
<1>4. ASSUME NEW u \in Users, NEW e \in Entries, GetDataFails(u, e) PROVE LockType'
  BY <1>4 DEF GetDataFails
<1>5. ASSUME NEW t \in Threads, SyncLock(t) PROVE LockType' BY <1>5 DEF SyncLock
<1>6. ASSUME NEW t \in Threads, DumpSkipped(t) PROVE LockType'
  BY <1>6 DEF DumpSkipped, SaveEnds, MoreRisk
<1>7. ASSUME NEW t \in Threads, DumpWrite(t) PROVE LockType'
  BY <1>7 DEF DumpWrite, SaveEnds, MoreRisk
<1>8. CASE Crash BY <1>8 DEF Crash, MoreRisk
<1>9. CASE UNCHANGED lock BY <1>9
<1> QED BY <1>1, <1>2, <1>3, <1>4, <1>5, <1>6, <1>7, <1>8, <1>9 DEF Next,
       UserNext, Save, vars, memory, saver, disk, Fini, Register, Unregister,
       SetData, Sync, TimerFires, CopyOpen, CopyWrite, DumpOpen

LEMMA MemoryTypeNext == ASSUME MemoryInv, [Next]_vars PROVE MemoryType'
<1> USE UpsConstants, NoDocument DEF MemoryInv, MemoryType, memory, saver, FilesType,
        Generations
<1>1. ASSUME NEW u \in Users, UpsInit(u) PROVE MemoryType'
  <2>1. joined' \subseteq Users BY <1>1 DEF UpsInit
  <2>2. timerOn' \in BOOLEAN BY <1>1 DEF UpsInit, MountStorage
  <2>3. json' \in Documents \union {NoJson} BY <1>1 DEF UpsInit, MountStorage
  <2>4. UNCHANGED <<haveChanges, open, linked, registered>> BY <1>1 DEF UpsInit
  <2> QED BY <2>1, <2>2, <2>3, <2>4
<1>2. ASSUME NEW u \in Users, Fini(u) PROVE MemoryType' BY <1>2 DEF Fini
<1>3. ASSUME NEW u \in Users, FiniUnregister(u) PROVE MemoryType'
  BY <1>3 DEF FiniUnregister
<1>4. ASSUME NEW u \in Users, FiniUnmount(u) PROVE MemoryType'
  BY <1>4 DEF FiniUnmount
<1>5. ASSUME NEW u \in Users, NEW e \in Entries, Register(u, e) PROVE MemoryType'
  BY <1>5 DEF Register, Fetched, InDocument
<1>6. ASSUME NEW u \in Users, NEW e \in Entries, Unregister(u, e) PROVE MemoryType'
  BY <1>6 DEF Unregister
<1>7. ASSUME NEW u \in Users, NEW e \in Entries, NEW v \in Values,
           SetData(u, e, v)
    PROVE  MemoryType'
  BY <1>7 DEF SetData, Written, CanWrite, InDocument, Documents
<1>8. ASSUME NEW t \in Threads, SyncLock(t) PROVE MemoryType' BY <1>8 DEF SyncLock
<1>9. ASSUME NEW t \in Threads, CopyOpen(t) PROVE MemoryType'
  BY <1>9 DEF CopyOpen, Source, Target
<1>10. ASSUME NEW t \in Threads, CopyWrite(t) PROVE MemoryType'
  BY <1>10 DEF CopyWrite, Source, Target
<1>11. ASSUME NEW t \in Threads, DumpSkipped(t) PROVE MemoryType'
  BY <1>11 DEF DumpSkipped, SaveEnds, MoreRisk
<1>12. ASSUME NEW t \in Threads, DumpOpen(t) PROVE MemoryType'
  BY <1>12 DEF DumpOpen
<1>13. ASSUME NEW t \in Threads, DumpWrite(t) PROVE MemoryType'
  BY <1>13 DEF DumpWrite, SaveEnds, MoreRisk
<1>14. CASE Crash BY <1>14 DEF Crash, MoreRisk
<1>15. CASE UNCHANGED <<joined, timerOn, haveChanges, open, json, registered, linked>>
  BY <1>15
<1> QED BY <1>1, <1>2, <1>3, <1>4, <1>5, <1>6, <1>7, <1>8, <1>9, <1>10, <1>11,
       <1>12, <1>13, <1>14, <1>15 DEF Next, UserNext, Save, vars, memory, saver,
       disk, GetDataFails, Sync, TimerFires

\* An entry's value is its default or comes from the document.
LEMMA CurTypeNext == ASSUME MemoryInv, [Next]_vars PROVE CurType'
<1> USE UpsConstants, NoDocument DEF MemoryInv, MemoryType, memory, CurType, Documents
<1>1. ASSUME NEW u \in Users, UpsInit(u) PROVE CurType'
  BY <1>1 DEF UpsInit, MountStorage
<1>2. ASSUME NEW u \in Users, Fini(u) PROVE CurType' BY <1>2 DEF Fini
<1>3. ASSUME NEW u \in Users, FiniUnregister(u) PROVE CurType'
  BY <1>3 DEF FiniUnregister
<1>4. ASSUME NEW u \in Users, FiniUnmount(u) PROVE CurType'
  BY <1>4 DEF FiniUnmount
<1>5. ASSUME NEW u \in Users, NEW e \in Entries, Register(u, e) PROVE CurType'
  BY <1>5 DEF Register, Fetched, InDocument
<1>6. ASSUME NEW u \in Users, NEW e \in Entries, Unregister(u, e) PROVE CurType'
  BY <1>6 DEF Unregister
<1>7. ASSUME NEW u \in Users, NEW e \in Entries, NEW v \in Values,
           SetData(u, e, v)
    PROVE  CurType'
  BY <1>7 DEF SetData, Written, CanWrite, InDocument, Documents
<1>8. ASSUME NEW u \in Users, NEW e \in Entries, GetDataFails(u, e) PROVE CurType'
  BY <1>8 DEF GetDataFails
<1>9. ASSUME NEW u \in Users, Sync(u) PROVE CurType' BY <1>9 DEF Sync
<1>10. CASE TimerFires BY <1>10 DEF TimerFires
<1>11. ASSUME NEW t \in Threads, SyncLock(t) PROVE CurType' BY <1>11 DEF SyncLock
<1>12. ASSUME NEW t \in Threads, CopyOpen(t) PROVE CurType'
  BY <1>12 DEF CopyOpen, Source, Target
<1>13. ASSUME NEW t \in Threads, CopyWrite(t) PROVE CurType'
  BY <1>13 DEF CopyWrite, Source, Target
<1>14. ASSUME NEW t \in Threads, DumpSkipped(t) PROVE CurType'
  BY <1>14 DEF DumpSkipped, SaveEnds, MoreRisk
<1>15. ASSUME NEW t \in Threads, DumpOpen(t) PROVE CurType' BY <1>15 DEF DumpOpen
<1>16. ASSUME NEW t \in Threads, DumpWrite(t) PROVE CurType'
  BY <1>16 DEF DumpWrite, SaveEnds, MoreRisk
<1>17. CASE Crash BY <1>17 DEF Crash, MoreRisk
<1>18. CASE UNCHANGED vars BY <1>18 DEF vars
<1> QED BY <1>1, <1>2, <1>3, <1>4, <1>5, <1>6, <1>7, <1>8, <1>9, <1>10, <1>11,
       <1>12, <1>13, <1>14, <1>15, <1>16, <1>17, <1>18 DEF Next, UserNext, Save

LEMMA PcTypeNext == ASSUME MemoryInv, [Next]_vars PROVE PcType'
<1> USE UpsConstants, NoDocument DEF MemoryInv, PcType, Goto
<1>1. ASSUME NEW u \in Users, Fini(u) PROVE PcType' BY <1>1 DEF Fini
<1>2. ASSUME NEW u \in Users, FiniUnregister(u) PROVE PcType'
  BY <1>2 DEF FiniUnregister
<1>3. ASSUME NEW u \in Users, FiniUnmount(u) PROVE PcType' BY <1>3 DEF FiniUnmount
<1>4. ASSUME NEW u \in Users, Sync(u) PROVE PcType' BY <1>4 DEF Sync
<1>5. CASE TimerFires BY <1>5 DEF TimerFires
<1>6. ASSUME NEW t \in Threads, SyncLock(t) PROVE PcType' BY <1>6 DEF SyncLock
<1>7. ASSUME NEW t \in Threads, DumpSkipped(t) PROVE PcType'
  BY <1>7 DEF DumpSkipped, SaveEnds, MoreRisk
<1>8. ASSUME NEW t \in Threads, DumpWrite(t) PROVE PcType'
  BY <1>8 DEF DumpWrite, SaveEnds, MoreRisk
<1>9. CASE Crash BY <1>9 DEF Crash, MoreRisk
<1>10. CASE UNCHANGED pc BY <1>10
<1> QED BY <1>1, <1>2, <1>3, <1>4, <1>5, <1>6, <1>7, <1>8, <1>9, <1>10 DEF Next,
       UserNext, Save, vars, memory, saver, disk, UpsInit, Register, Unregister,
       SetData, GetDataFails, CopyOpen, CopyWrite, DumpOpen

LEMMA CountTypeNext == ASSUME MemoryInv, [Next]_vars PROVE CountType'
<1> USE UpsConstants, NoDocument DEF MemoryInv, disk, CountType, Generations
<1>1. ASSUME NEW t \in Threads, SyncLock(t) PROVE CountType' BY <1>1 DEF SyncLock
<1>2. ASSUME NEW t \in Threads, CopyOpen(t) PROVE CountType'
  BY <1>2 DEF CopyOpen, Source, Target
<1>3. ASSUME NEW t \in Threads, CopyWrite(t) PROVE CountType'
  BY <1>3 DEF CopyWrite, Source, Target
<1>4. ASSUME NEW t \in Threads, DumpSkipped(t) PROVE CountType'
  BY <1>4 DEF DumpSkipped, SaveEnds, MoreRisk
<1>5. ASSUME NEW t \in Threads, DumpWrite(t) PROVE CountType'
  BY <1>5 DEF DumpWrite, SaveEnds, MoreRisk
<1>6. CASE Crash BY <1>6 DEF Crash, MoreRisk
<1>7. CASE UNCHANGED <<copied, risk>> BY <1>7
<1> QED BY <1>1, <1>2, <1>3, <1>4, <1>5, <1>6, <1>7 DEF Next, UserNext, Save,
       vars, memory, saver, disk, UpsInit, Fini, FiniUnregister, FiniUnmount,
       Register, Unregister, SetData, GetDataFails, Sync, TimerFires, DumpOpen

LEMMA FilesTypeNext == ASSUME MemoryInv, [Next]_vars PROVE FilesType'
<1> USE UpsConstants, NoDocument DEF MemoryInv, MemoryType, SaverInv, CountType,
        FilesType, Generations
<1>1. ASSUME NEW t \in Threads, CopyOpen(t) PROVE FilesType'
  BY <1>1 DEF CopyOpen, Source, Target
<1>2. ASSUME NEW t \in Threads, CopyWrite(t) PROVE FilesType'
  BY <1>2 DEF CopyWrite, Source, Target
<1>3. ASSUME NEW t \in Threads, DumpOpen(t) PROVE FilesType' BY <1>3 DEF DumpOpen
<1>4. ASSUME NEW t \in Threads, DumpWrite(t) PROVE FilesType'
  BY <1>4 DEF DumpWrite, SaveEnds, MoreRisk
<1>5. CASE UNCHANGED <<files, lastSaved>> BY <1>5
<1> QED BY <1>1, <1>2, <1>3, <1>4, <1>5 DEF Next, UserNext, Save, vars, memory,
       saver, disk, UpsInit, Fini, FiniUnregister, FiniUnmount, Register,
       Unregister, SetData, GetDataFails, Sync, TimerFires, SyncLock,
       DumpSkipped, Crash

\* Who saves or unmounts took the lock and gives it back as it goes.
LEMMA LockNext == ASSUME MemoryInv, [Next]_vars PROVE LockInv'
<1> USE UpsConstants, NoDocument DEF MemoryInv, LockType, PcType, LockInv, CallsInv,
        MountInv, NoSyncAfterFini, NoInitOrFini, MayCall, Holds, Goto, Waits, CanLock,
        Taken, Released, Free, Threads, memory
<1>1. ASSUME NEW u \in Users, UpsInit(u) PROVE LockInv'
  BY <1>1 DEF UpsInit, MountStorage
<1>2. ASSUME NEW u \in Users, Fini(u) PROVE LockInv' BY <1>2 DEF Fini
<1>3. ASSUME NEW u \in Users, FiniUnregister(u) PROVE LockInv'
  BY <1>3 DEF FiniUnregister
<1>4. ASSUME NEW u \in Users, FiniUnmount(u) PROVE LockInv'
  BY <1>4 DEF FiniUnmount
<1>5. ASSUME NEW u \in Users, NEW e \in Entries, GetDataFails(u, e) PROVE LockInv'
  BY <1>5 DEF GetDataFails
<1>6. ASSUME NEW u \in Users, Sync(u) PROVE LockInv' BY <1>6 DEF Sync
<1>7. CASE TimerFires BY <1>7 DEF TimerFires
<1>8. ASSUME NEW t \in Threads, SyncLock(t) PROVE LockInv' BY <1>8 DEF SyncLock
<1>9. ASSUME NEW t \in Threads, DumpSkipped(t) PROVE LockInv'
  BY <1>9 DEF DumpSkipped, SaveEnds, MoreRisk
<1>10. ASSUME NEW t \in Threads, DumpWrite(t) PROVE LockInv'
  BY <1>10 DEF DumpWrite, SaveEnds, MoreRisk
<1>11. CASE Crash BY <1>11 DEF Crash, MoreRisk
<1>12. CASE UNCHANGED <<pc, lock>> BY <1>12
<1> QED BY <1>1, <1>2, <1>3, <1>4, <1>5, <1>6, <1>7, <1>8, <1>9, <1>10, <1>11,
       <1>12 DEF Next, UserNext, Save, vars, memory, saver, disk, Register,
       Unregister, SetData, CopyOpen, CopyWrite, DumpOpen

\* A thread leaves before it closes, so that no other is in a call then.
LEMMA CallsNext == ASSUME MemoryInv, [Next]_vars PROVE CallsInv'
<1> USE UpsConstants, NoDocument DEF MemoryInv, PcType, CallsInv, NoInitOrFini, MayCall,
        Goto, Waits, Threads, memory
<1>1. ASSUME NEW u \in Users, UpsInit(u) PROVE CallsInv'
  BY <1>1 DEF UpsInit, MountStorage
<1>2. ASSUME NEW u \in Users, Fini(u) PROVE CallsInv' BY <1>2 DEF Fini
<1>3. ASSUME NEW u \in Users, FiniUnregister(u) PROVE CallsInv'
  BY <1>3 DEF FiniUnregister
<1>4. ASSUME NEW u \in Users, FiniUnmount(u) PROVE CallsInv'
  BY <1>4 DEF FiniUnmount
<1>5. ASSUME NEW u \in Users, Sync(u) PROVE CallsInv' BY <1>5 DEF Sync
<1>6. CASE TimerFires BY <1>6 DEF TimerFires
<1>7. ASSUME NEW t \in Threads, SyncLock(t) PROVE CallsInv' BY <1>7 DEF SyncLock
<1>8. ASSUME NEW t \in Threads, DumpSkipped(t) PROVE CallsInv'
  BY <1>8 DEF DumpSkipped, SaveEnds, MoreRisk
<1>9. ASSUME NEW t \in Threads, DumpWrite(t) PROVE CallsInv'
  BY <1>9 DEF DumpWrite, SaveEnds, MoreRisk
<1>10. CASE Crash BY <1>10 DEF Crash, MoreRisk
<1>11. CASE UNCHANGED <<pc, joined>> BY <1>11
<1> QED BY <1>1, <1>2, <1>3, <1>4, <1>5, <1>6, <1>7, <1>8, <1>9, <1>10, <1>11
       DEF Next, UserNext, Save, vars, memory, saver, disk, Register,
       Unregister, SetData, GetDataFails, CopyOpen, CopyWrite, DumpOpen

\* Fini waits for the callback; only then do timer and document go.
LEMMA MountNext == ASSUME MemoryInv, [Next]_vars PROVE MountInv'
<1> USE UpsConstants, NoDocument DEF MemoryInv, MemoryType, PcType, MountInv,
        NoSyncAfterFini, NoInitOrFini, MayCall, Goto, Waits, Threads, memory, FilesType,
        Generations
<1>1. ASSUME NEW u \in Users, UpsInit(u) PROVE MountInv'
  BY <1>1 DEF UpsInit, MountStorage
<1>2. ASSUME NEW u \in Users, Fini(u) PROVE MountInv' BY <1>2 DEF Fini
<1>3. ASSUME NEW u \in Users, FiniUnregister(u) PROVE MountInv'
  BY <1>3 DEF FiniUnregister
<1>4. ASSUME NEW u \in Users, FiniUnmount(u) PROVE MountInv'
  BY <1>4 DEF FiniUnmount
<1>5. ASSUME NEW u \in Users, NEW e \in Entries, Register(u, e) PROVE MountInv'
  BY <1>5 DEF Register, Fetched, InDocument
<1>6. ASSUME NEW u \in Users, NEW e \in Entries, Unregister(u, e) PROVE MountInv'
  BY <1>6 DEF Unregister
<1>7. ASSUME NEW u \in Users, NEW e \in Entries, NEW v \in Values,
           SetData(u, e, v)
    PROVE  MountInv'
  BY <1>7 DEF SetData, Written, CanWrite, InDocument, Documents
<1>8. ASSUME NEW u \in Users, Sync(u) PROVE MountInv' BY <1>8 DEF Sync
<1>9. CASE TimerFires BY <1>9 DEF TimerFires
<1>10. ASSUME NEW t \in Threads, SyncLock(t) PROVE MountInv' BY <1>10 DEF SyncLock
<1>11. ASSUME NEW t \in Threads, DumpSkipped(t) PROVE MountInv'
  BY <1>11 DEF DumpSkipped, SaveEnds, MoreRisk
<1>12. ASSUME NEW t \in Threads, DumpWrite(t) PROVE MountInv'
  BY <1>12 DEF DumpWrite, SaveEnds, MoreRisk
<1>13. CASE Crash BY <1>13 DEF Crash, MoreRisk
<1>14. CASE UNCHANGED <<pc, timerOn, json, joined, registered>> BY <1>14
<1> QED BY <1>1, <1>2, <1>3, <1>4, <1>5, <1>6, <1>7, <1>8, <1>9, <1>10, <1>11,
       <1>12, <1>13, <1>14 DEF Next, UserNext, Save, vars, memory, saver, disk,
       GetDataFails, CopyOpen, CopyWrite, DumpOpen

\* The document stays while a dump writes it, for Fini needs the lock.
LEMMA SaverNext == ASSUME MemoryInv, [Next]_vars PROVE SaverInv'
<1> USE UpsConstants, NoDocument DEF MemoryInv, PcType, LockInv, SaverInv, MayCall,
        Holds, Saving, Goto, Waits, CanLock, Threads, memory, saver, FilesType,
        Generations
<1>1. ASSUME NEW u \in Users, UpsInit(u) PROVE SaverInv'
  BY <1>1 DEF UpsInit, MountStorage
<1>2. ASSUME NEW u \in Users, Fini(u) PROVE SaverInv' BY <1>2 DEF Fini
<1>3. ASSUME NEW u \in Users, FiniUnregister(u) PROVE SaverInv'
  BY <1>3 DEF FiniUnregister
<1>4. ASSUME NEW u \in Users, FiniUnmount(u) PROVE SaverInv'
  BY <1>4 DEF FiniUnmount
<1>5. ASSUME NEW u \in Users, NEW e \in Entries, NEW v \in Values,
           SetData(u, e, v)
    PROVE  SaverInv'
  BY <1>5 DEF SetData, Written, CanWrite, InDocument, Documents
<1>6. ASSUME NEW u \in Users, Sync(u) PROVE SaverInv' BY <1>6 DEF Sync
<1>7. CASE TimerFires BY <1>7 DEF TimerFires
<1>8. ASSUME NEW t \in Threads, SyncLock(t) PROVE SaverInv' BY <1>8 DEF SyncLock
<1>9. ASSUME NEW t \in Threads, CopyOpen(t) PROVE SaverInv'
  BY <1>9 DEF CopyOpen, Source, Target
<1>10. ASSUME NEW t \in Threads, CopyWrite(t) PROVE SaverInv'
  BY <1>10 DEF CopyWrite, Source, Target
<1>11. ASSUME NEW t \in Threads, DumpSkipped(t) PROVE SaverInv'
  BY <1>11 DEF DumpSkipped, SaveEnds, MoreRisk
<1>12. ASSUME NEW t \in Threads, DumpOpen(t) PROVE SaverInv' BY <1>12 DEF DumpOpen
<1>13. ASSUME NEW t \in Threads, DumpWrite(t) PROVE SaverInv'
  BY <1>13 DEF DumpWrite, SaveEnds, MoreRisk
<1>14. CASE Crash BY <1>14 DEF Crash, MoreRisk
<1>15. CASE UNCHANGED <<pc, copied, open, json>> BY <1>15
<1> QED BY <1>1, <1>2, <1>3, <1>4, <1>5, <1>6, <1>7, <1>8, <1>9, <1>10, <1>11,
       <1>12, <1>13, <1>14, <1>15 DEF Next, UserNext, Save, vars, memory, saver,
       disk, Register, Unregister, GetDataFails

LEMMA MemoryNext == ASSUME MemoryInv, [Next]_vars PROVE MemoryInv'
BY LockTypeNext, MemoryTypeNext, CurTypeNext, PcTypeNext, CountTypeNext, FilesTypeNext,
   LockNext, CallsNext, MountNext, SaverNext DEF MemoryInv

\* A document is read from a storage, so a save of one is known.
LEMMA SavedNext == ASSUME DiskInv, [Next]_vars PROVE SavedInv'
<1> USE UpsConstants, NoDocument DEF MemoryInv, MemoryType, memory, disk, CountType,
        FilesType, Generations, DiskInv, SavedInv
<1>1. ASSUME NEW u \in Users, UpsInit(u) PROVE SavedInv'
  BY <1>1 DEF UpsInit, MountStorage
<1>2. ASSUME NEW u \in Users, Fini(u) PROVE SavedInv' BY <1>2 DEF Fini
<1>3. ASSUME NEW u \in Users, FiniUnregister(u) PROVE SavedInv'
  BY <1>3 DEF FiniUnregister
<1>4. ASSUME NEW u \in Users, FiniUnmount(u) PROVE SavedInv'
  BY <1>4 DEF FiniUnmount
<1>5. ASSUME NEW u \in Users, NEW e \in Entries, Register(u, e) PROVE SavedInv'
  BY <1>5 DEF Register, Fetched, InDocument
<1>6. ASSUME NEW u \in Users, NEW e \in Entries, Unregister(u, e) PROVE SavedInv'
  BY <1>6 DEF Unregister
<1>7. ASSUME NEW u \in Users, NEW e \in Entries, NEW v \in Values,
           SetData(u, e, v)
    PROVE  SavedInv'
  BY <1>7 DEF SetData, Written, CanWrite, InDocument, Documents
<1>8. ASSUME NEW u \in Users, NEW e \in Entries, GetDataFails(u, e) PROVE SavedInv'
  BY <1>8 DEF GetDataFails
<1>9. ASSUME NEW u \in Users, Sync(u) PROVE SavedInv' BY <1>9 DEF Sync
<1>10. CASE TimerFires BY <1>10 DEF TimerFires
<1>11. ASSUME NEW t \in Threads, SyncLock(t) PROVE SavedInv' BY <1>11 DEF SyncLock
<1>12. ASSUME NEW t \in Threads, CopyOpen(t) PROVE SavedInv'
  BY <1>12 DEF CopyOpen, Source, Target
<1>13. ASSUME NEW t \in Threads, CopyWrite(t) PROVE SavedInv'
  BY <1>13 DEF CopyWrite, Source, Target
<1>14. ASSUME NEW t \in Threads, DumpSkipped(t) PROVE SavedInv'
  BY <1>14 DEF DumpSkipped, SaveEnds, MoreRisk
<1>15. ASSUME NEW t \in Threads, DumpOpen(t) PROVE SavedInv' BY <1>15 DEF DumpOpen
<1>16. ASSUME NEW t \in Threads, DumpWrite(t) PROVE SavedInv'
  BY <1>16 DEF DumpWrite, SaveEnds, MoreRisk
<1>17. CASE Crash BY <1>17 DEF Crash, MoreRisk
<1>18. CASE UNCHANGED vars BY <1>18 DEF vars
<1> QED BY <1>1, <1>2, <1>3, <1>4, <1>5, <1>6, <1>7, <1>8, <1>9, <1>10, <1>11,
       <1>12, <1>13, <1>14, <1>15, <1>16, <1>17, <1>18 DEF Next, UserNext, Save

\* A failure puts the next generation at risk, where a copy of the last save may be.
LEMMA BackupNext == ASSUME DiskInv, [Next]_vars PROVE BackupInv'
<1> USE UpsConstants, NoDocument DEF MemoryInv, LockInv, CallsInv, MountInv, SaverInv,
        NoInitOrFini, Holds, Saving, Waits, CanLock, Threads, disk, CountType,
        FilesType, Generations, DiskInv, BackupInv, SavedInv, Now
<1>1. ASSUME NEW t \in Threads, SyncLock(t) PROVE BackupInv' BY <1>1 DEF SyncLock
<1>2. ASSUME NEW t \in Threads, CopyOpen(t) PROVE BackupInv'
  BY <1>2 DEF CopyOpen, Source, Target
<1>3. ASSUME NEW t \in Threads, CopyWrite(t) PROVE BackupInv'
  BY <1>3 DEF CopyWrite, Source, Target
<1>4. ASSUME NEW t \in Threads, DumpSkipped(t) PROVE BackupInv'
  BY <1>4 DEF DumpSkipped, SaveEnds, MoreRisk
<1>5. ASSUME NEW t \in Threads, DumpOpen(t) PROVE BackupInv' BY <1>5 DEF DumpOpen
<1>6. ASSUME NEW t \in Threads, DumpWrite(t) PROVE BackupInv'
  <2>1. CASE files' = [files EXCEPT ![0] = json] /\ lastSaved' = json /\ risk' = 0
    <3>1. files'[0] = lastSaved' BY <2>1
    <3>2. copied' = 0 BY <1>6 DEF DumpWrite, SaveEnds
    <3> QED BY <2>1, <3>1, <3>2
  <2>2. CASE risk' = MoreRisk /\ UNCHANGED <<files, lastSaved>>
    BY <1>6, <2>2 DEF DumpWrite, SaveEnds, MoreRisk
  <2> QED BY <1>6, <2>1, <2>2 DEF DumpWrite
<1>7. CASE Crash BY <1>7 DEF Crash, MoreRisk
<1>8. CASE UNCHANGED <<risk, files, copied, lastSaved>> BY <1>8
<1> QED BY <1>1, <1>2, <1>3, <1>4, <1>5, <1>6, <1>7, <1>8 DEF Next, UserNext,
       Save, vars, memory, saver, disk, UpsInit, Fini, FiniUnregister,
       FiniUnmount, Register, Unregister, SetData, GetDataFails, Sync,
       TimerFires

\* A change between the unlocked test and the save is marked or saved.
LEMMA DirtyNext == ASSUME MemoryInv, DirtyTracked, [Next]_vars PROVE DirtyTracked'
<1> USE UpsConstants, NoDocument DEF MemoryInv, PcType, MayCall, Saving, Goto, Waits,
        memory, disk, CountType, FilesType, Generations, DirtyTracked
<1>1. ASSUME NEW u \in Users, UpsInit(u) PROVE DirtyTracked'
  BY <1>1 DEF UpsInit, MountStorage
<1>2. ASSUME NEW u \in Users, Fini(u) PROVE DirtyTracked' BY <1>2 DEF Fini
<1>3. ASSUME NEW u \in Users, FiniUnregister(u) PROVE DirtyTracked'
  BY <1>3 DEF FiniUnregister
<1>4. ASSUME NEW u \in Users, FiniUnmount(u) PROVE DirtyTracked'
  BY <1>4 DEF FiniUnmount
<1>5. ASSUME NEW u \in Users, NEW e \in Entries, NEW v \in Values,
           SetData(u, e, v)
    PROVE  DirtyTracked'
  BY <1>5 DEF SetData, Written, CanWrite, InDocument, Documents
<1>6. ASSUME NEW u \in Users, Sync(u) PROVE DirtyTracked' BY <1>6 DEF Sync
<1>7. CASE TimerFires BY <1>7 DEF TimerFires
<1>8. ASSUME NEW t \in Threads, SyncLock(t) PROVE DirtyTracked'
  BY <1>8 DEF SyncLock
<1>9. ASSUME NEW t \in Threads, CopyOpen(t) PROVE DirtyTracked'
  BY <1>9 DEF CopyOpen, Source, Target
<1>10. ASSUME NEW t \in Threads, CopyWrite(t) PROVE DirtyTracked'
  BY <1>10 DEF CopyWrite, Source, Target
<1>11. ASSUME NEW t \in Threads, DumpSkipped(t) PROVE DirtyTracked'
  BY <1>11 DEF DumpSkipped, SaveEnds, MoreRisk
<1>12. ASSUME NEW t \in Threads, DumpOpen(t) PROVE DirtyTracked'
  BY <1>12 DEF DumpOpen
<1>13. ASSUME NEW t \in Threads, DumpWrite(t) PROVE DirtyTracked'
  BY <1>13 DEF DumpWrite, SaveEnds, MoreRisk
<1>14. CASE Crash BY <1>14 DEF Crash, MoreRisk
<1>15. CASE UNCHANGED <<json, pc, files, haveChanges, risk>> BY <1>15
<1> QED BY <1>1, <1>2, <1>3, <1>4, <1>5, <1>6, <1>7, <1>8, <1>9, <1>10, <1>11,
       <1>12, <1>13, <1>14, <1>15 DEF Next, UserNext, Save, vars, memory, saver,
       disk, Register, Unregister, GetDataFails

\* Set, register and mount write entry and document alike, or fail to as said.
LEMMA CurNext == ASSUME MemoryInv, DocumentAgrees, [Next]_vars PROVE DocumentAgrees'
<1> USE UpsConstants, NoDocument DEF MemoryInv, MemoryType, MountInv, NoInitOrFini,
        memory, DocumentAgrees, InDocument, CurType
<1>1. ASSUME NEW u \in Users, UpsInit(u) PROVE DocumentAgrees'
  BY <1>1 DEF UpsInit, MountStorage
<1>2. ASSUME NEW u \in Users, Fini(u) PROVE DocumentAgrees' BY <1>2 DEF Fini
<1>3. ASSUME NEW u \in Users, FiniUnregister(u) PROVE DocumentAgrees'
  BY <1>3 DEF FiniUnregister
<1>4. ASSUME NEW u \in Users, FiniUnmount(u) PROVE DocumentAgrees'
  BY <1>4 DEF FiniUnmount
<1>5. ASSUME NEW u \in Users, NEW e \in Entries, Register(u, e) PROVE DocumentAgrees'
  BY <1>5 DEF Register, Fetched, InDocument
<1>6. ASSUME NEW u \in Users, NEW e \in Entries, Unregister(u, e) PROVE DocumentAgrees'
  BY <1>6 DEF Unregister
<1>7. ASSUME NEW u \in Users, NEW e \in Entries, NEW v \in Values,
           SetData(u, e, v)
    PROVE  DocumentAgrees'
  BY <1>7 DEF SetData, Written, CanWrite, InDocument, Documents
<1>8. ASSUME NEW u \in Users, NEW e \in Entries, GetDataFails(u, e) PROVE DocumentAgrees'
  BY <1>8 DEF GetDataFails
<1>9. ASSUME NEW u \in Users, Sync(u) PROVE DocumentAgrees' BY <1>9 DEF Sync
<1>10. CASE TimerFires BY <1>10 DEF TimerFires
<1>11. ASSUME NEW t \in Threads, SyncLock(t) PROVE DocumentAgrees'
  BY <1>11 DEF SyncLock
<1>12. ASSUME NEW t \in Threads, CopyOpen(t) PROVE DocumentAgrees'
  BY <1>12 DEF CopyOpen, Source, Target
<1>13. ASSUME NEW t \in Threads, CopyWrite(t) PROVE DocumentAgrees'
  BY <1>13 DEF CopyWrite, Source, Target
<1>14. ASSUME NEW t \in Threads, DumpSkipped(t) PROVE DocumentAgrees'
  BY <1>14 DEF DumpSkipped, SaveEnds, MoreRisk
<1>15. ASSUME NEW t \in Threads, DumpOpen(t) PROVE DocumentAgrees'
  BY <1>15 DEF DumpOpen
<1>16. ASSUME NEW t \in Threads, DumpWrite(t) PROVE DocumentAgrees'
  BY <1>16 DEF DumpWrite, SaveEnds, MoreRisk
<1>17. CASE Crash BY <1>17 DEF Crash, MoreRisk
<1>18. CASE UNCHANGED vars BY <1>18 DEF vars
<1> QED BY <1>1, <1>2, <1>3, <1>4, <1>5, <1>6, <1>7, <1>8, <1>9, <1>10, <1>11,
       <1>12, <1>13, <1>14, <1>15, <1>16, <1>17, <1>18 DEF Next, UserNext, Save

-----------------------------------------------------------------------------
(* The theorems.                                                           *)

(* The state of the settings stays well-formed, the lock's depth included.  *)
THEOREM UpsTypeOK == Spec => []TypeOK
<1>1. Init => MemoryInv BY InitInv DEF DiskInv
<1>2. MemoryInv /\ [Next]_vars => MemoryInv' BY MemoryNext
<1>3. MemoryInv => TypeOK BY InvType
<1> QED BY <1>1, <1>2, <1>3, PTL DEF Spec

LEMMA MemoryInvariant == Spec => []MemoryInv
<1>1. Init => MemoryInv BY InitInv DEF DiskInv
<1>2. MemoryInv /\ [Next]_vars => MemoryInv' BY MemoryNext
<1> QED BY <1>1, <1>2, PTL DEF Spec

(* storageSync neither runs nor waits once XPR_UPS_Fini has returned.       *)
THEOREM UpsNoSyncAfterFini == Spec => []NoSyncAfterFini
<1>1. MemoryInv => NoSyncAfterFini BY DEF MemoryInv, MountInv
<1> QED BY <1>1, MemoryInvariant, PTL

(* A change of the document is in the storage or marked, or a save failed.  *)
THEOREM UpsDirtyTracked == Spec => []DirtyTracked
<1>1. Init => DirtyTracked BY InitInv
<1>2. MemoryInv /\ DirtyTracked /\ [Next]_vars => DirtyTracked' BY DirtyNext
<1> QED BY <1>1, <1>2, MemoryInvariant, PTL DEF Spec

(* A registered entry has the value that the document has, unless the second *)
(* write of its last XPR_UPS_Set call had to fail.                          *)
THEOREM UpsDocumentAgrees == Spec => []DocumentAgrees
<1>1. Init => DocumentAgrees BY InitInv
<1>2. MemoryInv /\ DocumentAgrees /\ [Next]_vars => DocumentAgrees' BY CurNext
<1> QED BY <1>1, <1>2, MemoryInvariant, PTL DEF Spec

(* The last complete save is whole in the storage or in a backup, whatever  *)
(* crashes and failed saves tear, up to two in a row and no copy failing.   *)
THEOREM UpsBackupSurvives == Spec => []BackupSurvives
<1>1. Init => DiskInv BY InitInv
<1>2. DiskInv /\ [Next]_vars => DiskInv'
  BY MemoryNext, SavedNext, BackupNext DEF DiskInv
<1>3. DiskInv => BackupSurvives
  <2> SUFFICES ASSUME DiskInv, risk < Generations
               PROVE  \E n \in DOMAIN files : files[n] = lastSaved
    BY DEF BackupSurvives
  <2>1. PICK n \in 0 .. risk : files[Now(n)] = lastSaved BY DEF DiskInv, BackupInv
  <2>2. Now(n) \in DOMAIN files
    BY DEF DiskInv, MemoryInv, FilesType, CountType, Now, Generations
  <2> QED BY <2>1, <2>2
<1> QED BY <1>1, <1>2, <1>3, PTL DEF Spec
===============================================================================
