----------------------------- MODULE FlexQueue -----------------------------
(***************************************************************************)
(* The flexible queue of src/xpr_fq.c: maxQueues entries that go round     *)
(* between a free fifo, the pushing threads, a queued fifo and the popping *)
(* threads.  Each entry carries a block of heap memory while it is queued  *)
(* or popped.                                                              *)
(*                                                                         *)
(* Both fifos are built with HAVE_MP (module Fifo), so a fifo call is one  *)
(* step; between two of them the calls of the threads interleave.  The     *)
(* codes returned by XPR_FifoPutAsAtomic are ignored, as in the source.    *)
(***************************************************************************)
EXTENDS Naturals, Sequences

CONSTANTS
  Pushers,     \* threads that call XPR_FQ_PushBack or XPR_FQ_PushBackRaw
  Poppers,     \* threads that call XPR_FQ_PopFront, XPR_FQ_ReleaseEntry
  maxQueues,   \* the number of entries
  Lengths,     \* the lengths of the pushed data
  MaxBlocks,   \* bound on the number of allocations
  NULL         \* the null pointer

Entries == 1 .. maxQueues
Threads == Pushers \union Poppers
Blocks == [id : 1 .. MaxBlocks, length : Lengths]

ASSUME FlexQueueAssumption ==
  /\ maxQueues \in Nat \ {0}
  /\ Lengths \subseteq Nat
  /\ MaxBlocks \in Nat
  /\ Pushers \intersect Poppers = {}
  /\ NULL \notin Entries \union Blocks

VARIABLES
  freeList,    \* XPR_FQ.freeList
  queuedList,  \* XPR_FQ.queuedList
  entry,       \* XPR_FQ.entries: data and length of each
  heap,        \* the blocks allocated and not freed
  allocated,   \* how many blocks were ever allocated
  pc,          \* where the call of each thread stands
  ent,         \* ent[t]: the entry thread t works on
  ptr,         \* ptr[t]: the block a pusher has just allocated
  destroyed    \* XPR_FQ_Destroy has returned

vars == <<freeList, queuedList, entry, heap, allocated, pc, ent, ptr, destroyed>>

Blank == [data |-> NULL, length |-> 0]

-----------------------------------------------------------------------------
(* The fifos hold maxQueues pointers each. *)

Put(fifo, e) == IF Len(fifo) = maxQueues THEN fifo ELSE Append(fifo, e)

\* free(data) of an entry whose data pointer is set
Freed(e) == heap \ {entry[e].data}

\* XPR_FQ_Create puts every entry into the free fifo.
Init ==
  /\ freeList = [i \in 1 .. maxQueues |-> i]
  /\ queuedList = <<>>
  /\ entry = [e \in Entries |-> Blank]
  /\ heap = {}
  /\ allocated = 0
  /\ pc = [t \in Threads |-> "idle"]
  /\ ent = [t \in Threads |-> NULL]
  /\ ptr = [t \in Pushers |-> NULL]
  /\ destroyed = FALSE

-----------------------------------------------------------------------------
(* XPR_FQ_PushBack *)

PushTake(t) ==
  /\ ~destroyed
  /\ pc[t] = "idle"
  /\ freeList # <<>>
  /\ ent' = [ent EXCEPT ![t] = Head(freeList)]
  /\ freeList' = Tail(freeList)
  /\ pc' = [pc EXCEPT ![t] = "alloc"]
  /\ UNCHANGED <<queuedList, entry, heap, allocated, ptr, destroyed>>

\* No free entry: XPR_ERR_GEN_NOBUF.
PushRefused(t) ==
  /\ ~destroyed
  /\ pc[t] = "idle"
  /\ freeList = <<>>
  /\ UNCHANGED vars

PushAlloc(t, length) ==
  /\ pc[t] = "alloc"
  /\ allocated < MaxBlocks
  /\ allocated' = allocated + 1
  /\ LET block == [id |-> allocated + 1, length |-> length]
     IN  /\ heap' = heap \union {block}
         /\ ptr' = [ptr EXCEPT ![t] = block]
  /\ pc' = [pc EXCEPT ![t] = "fill"]
  /\ UNCHANGED <<freeList, queuedList, entry, ent, destroyed>>

\* Mutant of PushAllocFails: the entry is not given back.
PushAllocFailsLeak(t) ==
  /\ pc[t] = "alloc"
  /\ ent' = [ent EXCEPT ![t] = NULL]
  /\ pc' = [pc EXCEPT ![t] = "idle"]
  /\ UNCHANGED <<freeList, queuedList, entry, heap, allocated, ptr, destroyed>>

\* Out of memory: the entry goes back, XPR_ERR_GEN_NOMEM.
PushAllocFails(t) ==
  /\ pc[t] = "alloc"
  /\ freeList' = Put(freeList, ent[t])
  /\ ent' = [ent EXCEPT ![t] = NULL]
  /\ pc' = [pc EXCEPT ![t] = "idle"]
  /\ UNCHANGED <<queuedList, entry, heap, allocated, ptr, destroyed>>

\* Mutant of PushFill: the length is rounded up in the entry.
PushFillPadded(t) ==
  /\ pc[t] = "fill"
  /\ entry' = [entry EXCEPT ![ent[t]] =
                 [data |-> ptr[t], length |-> ptr[t].length + 4]]
  /\ ptr' = [ptr EXCEPT ![t] = NULL]
  /\ pc' = [pc EXCEPT ![t] = "queue"]
  /\ UNCHANGED <<freeList, queuedList, heap, allocated, ent, destroyed>>

PushFill(t) ==
  /\ pc[t] = "fill"
  /\ entry' = [entry EXCEPT ![ent[t]] =
                 [data |-> ptr[t], length |-> ptr[t].length]]
  /\ ptr' = [ptr EXCEPT ![t] = NULL]
  /\ pc' = [pc EXCEPT ![t] = "queue"]
  /\ UNCHANGED <<freeList, queuedList, heap, allocated, ent, destroyed>>

\* Mutant of PushQueue: the entry overtakes those that wait.
PushQueueFront(t) ==
  /\ pc[t] = "queue"
  /\ queuedList' = <<ent[t]>> \o queuedList
  /\ ent' = [ent EXCEPT ![t] = NULL]
  /\ pc' = [pc EXCEPT ![t] = "idle"]
  /\ UNCHANGED <<freeList, entry, heap, allocated, ptr, destroyed>>

PushQueue(t) ==
  /\ pc[t] = "queue"
  /\ queuedList' = Put(queuedList, ent[t])
  /\ ent' = [ent EXCEPT ![t] = NULL]
  /\ pc' = [pc EXCEPT ![t] = "idle"]
  /\ UNCHANGED <<freeList, entry, heap, allocated, ptr, destroyed>>

-----------------------------------------------------------------------------
(* XPR_FQ_PopFront, and XPR_FQ_ReleaseEntry of what it returned *)

PopFront(t) ==
  /\ ~destroyed
  /\ pc[t] = "idle"
  /\ queuedList # <<>>
  /\ ent' = [ent EXCEPT ![t] = Head(queuedList)]
  /\ queuedList' = Tail(queuedList)
  /\ pc' = [pc EXCEPT ![t] = "popped"]
  /\ UNCHANGED <<freeList, entry, heap, allocated, ptr, destroyed>>

\* Mutant of ReleaseClear: the data pointer is kept.
ReleaseClearKeep(t) ==
  /\ pc[t] = "popped"
  /\ heap' = Freed(ent[t])
  /\ pc' = [pc EXCEPT ![t] = "put_back"]
  /\ UNCHANGED <<freeList, queuedList, entry, allocated, ent, ptr, destroyed>>

ReleaseClear(t) ==
  /\ pc[t] = "popped"
  /\ heap' = Freed(ent[t])
  /\ entry' = [entry EXCEPT ![ent[t]] = Blank]
  /\ pc' = [pc EXCEPT ![t] = "put_back"]
  /\ UNCHANGED <<freeList, queuedList, allocated, ent, ptr, destroyed>>

ReleasePutBack(t) ==
  /\ pc[t] = "put_back"
  /\ freeList' = Put(freeList, ent[t])
  /\ ent' = [ent EXCEPT ![t] = NULL]
  /\ pc' = [pc EXCEPT ![t] = "idle"]
  /\ UNCHANGED <<queuedList, entry, heap, allocated, ptr, destroyed>>

-----------------------------------------------------------------------------
(* XPR_FQ_Clear returns XPR_ERR_OK and does nothing else.                   *)
Clear(t) ==
  /\ ~destroyed
  /\ pc[t] = "idle"
  /\ UNCHANGED vars

(* XPR_FQ_Destroy frees the data of the queued entries and then the entries *)
(* themselves: for a queue that no thread uses and whose popped entries     *)
(* have been released.                                                      *)
Destroy ==
  /\ ~destroyed
  /\ \A t \in Threads : pc[t] = "idle"
  /\ heap' = heap \ {entry[queuedList[i]].data : i \in 1 .. Len(queuedList)}
  /\ entry' = [e \in Entries |->
                 IF \E i \in 1 .. Len(queuedList) : queuedList[i] = e
                 THEN Blank ELSE entry[e]]
  /\ queuedList' = <<>>
  /\ freeList' = <<>>
  /\ destroyed' = TRUE
  /\ UNCHANGED <<allocated, pc, ent, ptr>>

\* Nothing is called any more.
Destroyed == destroyed /\ UNCHANGED vars

-----------------------------------------------------------------------------
PusherNext(t) ==
  \/ PushTake(t) \/ PushRefused(t) \/ PushAllocFails(t)
  \/ \E length \in Lengths : PushAlloc(t, length)
  \/ PushFill(t) \/ PushQueue(t)

PopperNext(t) ==
  \/ PopFront(t) \/ ReleaseClear(t) \/ ReleasePutBack(t)
  \/ Clear(t)

Next ==
  \/ \E t \in Pushers : PusherNext(t)
  \/ \E t \in Poppers : PopperNext(t)
  \/ Destroy
  \/ Destroyed

Spec == Init /\ [][Next]_vars

-----------------------------------------------------------------------------
(* Correctness. *)

PusherSteps == {"idle", "alloc", "fill", "queue"}
PopperSteps == {"idle", "popped", "put_back"}

\* Every variable stays in its type.
TypeOK ==
  /\ freeList \in Seq(Entries)
  /\ queuedList \in Seq(Entries)
  /\ entry \in [Entries -> [data : Blocks \union {NULL}, length : Lengths \union {0}]]
  /\ heap \subseteq Blocks
  /\ allocated \in 0 .. MaxBlocks
  /\ pc \in [Threads -> PusherSteps \union PopperSteps]
  /\ \A t \in Pushers : pc[t] \in PusherSteps
  /\ \A t \in Poppers : pc[t] \in PopperSteps
  /\ ent \in [Threads -> Entries \union {NULL}]
  /\ ptr \in [Pushers -> Blocks \union {NULL}]
  /\ destroyed \in BOOLEAN

InFifo(fifo, e) == \E i \in 1 .. Len(fifo) : fifo[i] = e
Distinct(fifo) == \A i, j \in 1 .. Len(fifo) : i # j => fifo[i] # fifo[j]

(* Every entry is in exactly one place: the free fifo, the queued fifo or   *)
(* the hands of one thread.  So neither fifo can be full when an entry is   *)
(* put into it, which is why PushBack and ReleaseEntry may ignore the code  *)
(* that XPR_FifoPutAsAtomic returns.                                        *)
OnePlace ==
  /\ Distinct(freeList) /\ Distinct(queuedList)
  /\ ~destroyed => \A e \in Entries :
       \/ InFifo(freeList, e) \/ InFifo(queuedList, e)
       \/ \E t \in Threads : ent[t] = e
  /\ \A e \in Entries : ~(InFifo(freeList, e) /\ InFifo(queuedList, e))
  /\ \A t \in Threads : ent[t] # NULL =>
       /\ ~InFifo(freeList, ent[t]) /\ ~InFifo(queuedList, ent[t])
       /\ \A u \in Threads \ {t} : ent[u] # ent[t]

\* The entries whose data a popper may still be given or is using.
Filled ==
  {e \in Entries : \/ InFifo(queuedList, e)
                   \/ \E t \in Threads : ent[t] = e /\ pc[t] \in {"queue", "popped"}}

(* The heap holds exactly the blocks of the entries queued or popped and    *)
(* those being filled, each in one entry: nothing leaks on an out-of-memory *)
(* or a refused push, nothing is freed twice or while a popper reads it,    *)
(* and after XPR_FQ_Destroy nothing is left.                                *)
BlocksOwned ==
  /\ heap = {entry[e].data : e \in Filled}
              \union {ptr[t] : t \in {u \in Pushers : ptr[u] # NULL}}
  /\ \A e \in Filled : /\ entry[e].data # NULL
                       /\ entry[e].length = entry[e].data.length
  /\ \A e \in Entries \ Filled : entry[e] = Blank
  /\ \A e, f \in Filled : entry[e].data = entry[f].data => e = f

\* What a call in progress holds: an entry, and a pusher its new block, which is
\* the only pointer to it.
Holding ==
  /\ \A t \in Threads : ent[t] # NULL <=> pc[t] # "idle"
  /\ \A t \in Pushers : ptr[t] # NULL <=> pc[t] = "fill"
  /\ \A t \in Pushers : ptr[t] # NULL =>
       /\ \A u \in Pushers \ {t} : ptr[u] # ptr[t]
       /\ \A e \in Filled : entry[e].data # ptr[t]
  /\ \A block \in heap : block.id <= allocated

\* Nothing is in use once the queue is destroyed.
Gone ==
  destroyed => /\ freeList = <<>> /\ queuedList = <<>>
               /\ \A t \in Threads : pc[t] = "idle"

(* The inductive invariant.                                                 *)
FQInv == TypeOK /\ OnePlace /\ BlocksOwned /\ Holding /\ Gone

\* A popper's entry, as long as the data is there.
Taken ==
  [t \in Poppers |-> IF pc[t] = "popped" THEN <<entry[ent[t]].data>> ELSE <<>>]

\* What waits, in order.
Waiting == [i \in 1 .. Len(queuedList) |-> entry[queuedList[i]].data]

Queue == INSTANCE BoundedQueue
           WITH Elements <- Blocks, Capacity <- maxQueues, Readers <- Poppers,
                queue <- Waiting, taken <- Taken

(* What is pushed successfully is popped once, in the order in which the    *)
(* pushes ended, with its own data, although the entries are recycled in    *)
(* whatever order the poppers release them.                                 *)
IsQueue == Queue!Spec
=============================================================================
