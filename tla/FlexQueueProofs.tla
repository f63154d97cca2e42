-------------------------- MODULE FlexQueueProofs --------------------------
(***************************************************************************)
(* Proofs about FlexQueue, for every number of threads, entries, lengths   *)
(* and allocations: no entry is lost or shared, neither fifo is ever full  *)
(* when an entry is put into it, and the heap holds exactly what the       *)
(* entries and the pushes in progress own.                                 *)
(***************************************************************************)
EXTENDS FlexQueue, FiniteSetTheorems, TLAPS

-----------------------------------------------------------------------------
(* The fifos. *)

\* A fifo of different entries that misses one of them has room for it.
LEMMA Room ==
  ASSUME NEW fifo \in Seq(Entries), Distinct(fifo),
         NEW e \in Entries, ~InFifo(fifo, e)
  PROVE  Len(fifo) < maxQueues
<1> DEFINE others == Entries \ {e}
<1>1. IsFiniteSet(others) /\ Cardinality(others) = maxQueues - 1
  <2>1. IsFiniteSet(Entries) /\ Cardinality(Entries) = maxQueues
    BY FlexQueueAssumption, FS_Interval DEF Entries
  <2> QED BY <2>1, FS_RemoveElement
<1>2. fifo \in Injection(1 .. Len(fifo), others)
  <2>1. fifo \in [1 .. Len(fifo) -> others]
    BY DEF InFifo
  <2> QED BY <2>1 DEF Distinct, Injection, IsInjective
<1>3. Cardinality(1 .. Len(fifo)) <= Cardinality(others)
  BY <1>1, <1>2, FS_Injection
<1>4. Cardinality(1 .. Len(fifo)) = Len(fifo)
  <2> DEFINE n == Len(fifo)
  <2>1. n \in Nat
    OBVIOUS
  <2> HIDE DEF n
  <2>2. Cardinality(1 .. n) = n
    BY ONLY <2>1, FS_Interval
  <2> QED BY <2>2 DEF n
<1> QED BY <1>1, <1>3, <1>4, FlexQueueAssumption

\* Putting an entry that is not there adds this entry and nothing else.
LEMMA PutIn ==
  ASSUME NEW fifo \in Seq(Entries), Distinct(fifo),
         NEW e \in Entries, ~InFifo(fifo, e)
  PROVE  /\ Put(fifo, e) \in Seq(Entries)
         /\ Distinct(Put(fifo, e))
         /\ \A d : InFifo(Put(fifo, e), d) <=> InFifo(fifo, d) \/ d = e
<1>1. Put(fifo, e) = Append(fifo, e)
  BY Room, FlexQueueAssumption DEF Put
<1> DEFINE put == Append(fifo, e)
<1>2. /\ put \in Seq(Entries)
      /\ Len(put) = Len(fifo) + 1
      /\ \A i \in 1 .. Len(fifo) : put[i] = fifo[i]
      /\ put[Len(fifo) + 1] = e
      /\ Len(fifo) \in Nat
  OBVIOUS
<1> HIDE DEF put
<1>3. Distinct(put)
  BY <1>2 DEF Distinct, InFifo
<1>4. ASSUME NEW d PROVE InFifo(put, d) <=> InFifo(fifo, d) \/ d = e
  <2>1. ASSUME InFifo(put, d) PROVE InFifo(fifo, d) \/ d = e
    BY <1>2, <2>1 DEF InFifo
  <2>2. ASSUME InFifo(fifo, d) PROVE InFifo(put, d)
    BY <1>2, <2>2 DEF InFifo
  <2>3. ASSUME d = e PROVE InFifo(put, d)
    BY <1>2, <2>3 DEF InFifo
  <2> QED BY <2>1, <2>2, <2>3
<1> QED BY <1>1, <1>2, <1>3, <1>4 DEF put

\* Taking the oldest entry removes this entry and nothing else.
LEMMA TakenOut ==
  ASSUME NEW fifo \in Seq(Entries), Distinct(fifo), fifo # <<>>
  PROVE  /\ Head(fifo) \in Entries /\ InFifo(fifo, Head(fifo))
         /\ Tail(fifo) \in Seq(Entries)
         /\ Distinct(Tail(fifo))
         /\ \A d : InFifo(Tail(fifo), d) <=> InFifo(fifo, d) /\ d # Head(fifo)
<1> DEFINE rest == Tail(fifo)
<1>1. /\ Len(fifo) \in Nat \ {0}
      /\ Head(fifo) = fifo[1]
      /\ Head(fifo) \in Entries
      /\ rest \in Seq(Entries)
      /\ Len(rest) = Len(fifo) - 1
      /\ \A i \in 1 .. Len(rest) : rest[i] = fifo[i + 1]
  OBVIOUS
<1> HIDE DEF rest
<1>2. InFifo(fifo, Head(fifo))
  BY <1>1 DEF InFifo
<1>3. Distinct(rest)
  BY <1>1 DEF Distinct
<1>4. ASSUME NEW d PROVE InFifo(rest, d) <=> InFifo(fifo, d) /\ d # Head(fifo)
  <2>1. ASSUME InFifo(rest, d) PROVE InFifo(fifo, d) /\ d # Head(fifo)
    <3>1. PICK i \in 1 .. Len(rest) : rest[i] = d
      BY <2>1 DEF InFifo
    <3>2. i + 1 \in 1 .. Len(fifo) /\ fifo[i + 1] = d /\ i + 1 # 1 /\ 1 \in 1 .. Len(fifo)
      BY <1>1, <3>1
    <3> QED BY <1>1, <3>2 DEF InFifo, Distinct
  <2>2. ASSUME InFifo(fifo, d), d # Head(fifo) PROVE InFifo(rest, d)
    <3>1. PICK i \in 1 .. Len(fifo) : fifo[i] = d
      BY <2>2 DEF InFifo
    <3>2. i - 1 \in 1 .. Len(rest) /\ rest[i - 1] = d
      BY <1>1, <2>2, <3>1
    <3> QED BY <3>2 DEF InFifo
  <2> QED BY <2>1, <2>2
<1> QED BY <1>1, <1>2, <1>3, <1>4 DEF rest

\* At the start every entry is in the free fifo, once.
LEMMA AllFree ==
  /\ [i \in 1 .. maxQueues |-> i] \in Seq(Entries)
  /\ Distinct([i \in 1 .. maxQueues |-> i])
  /\ \A e \in Entries : InFifo([i \in 1 .. maxQueues |-> i], e)
BY FlexQueueAssumption DEF Entries, Distinct, InFifo

\* Nothing is in an empty fifo.
LEMMA EmptyFifo == Distinct(<<>>) /\ <<>> \in Seq(Entries) /\ \A e : ~InFifo(<<>>, e)
BY DEF Distinct, InFifo

-----------------------------------------------------------------------------
(* What the invariant says of one call, and of a step that leaves the      *)
(* blocks alone.                                                           *)

\* A thread inside a call holds one entry, which nothing else has.
LEMMA Held ==
  ASSUME FQInv, NEW t \in Threads, pc[t] # "idle"
  PROVE  /\ ent[t] \in Entries /\ ent[t] # NULL
         /\ ~InFifo(freeList, ent[t]) /\ ~InFifo(queuedList, ent[t])
         /\ \A u \in Threads \ {t} : ent[u] # ent[t]
         /\ ~destroyed
BY DEF FQInv, TypeOK, OnePlace, Holding, Gone

\* A thread outside every call holds nothing.
LEMMA HoldsNone ==
  ASSUME FQInv, NEW t \in Threads, pc[t] = "idle"
  PROVE  ent[t] = NULL /\ (t \in Pushers => ptr[t] = NULL)
BY DEF FQInv, Holding

\* An entry in a fifo is in no thread's hands.
LEMMA InFifoNotHeld ==
  ASSUME FQInv, NEW e \in Entries, InFifo(freeList, e) \/ InFifo(queuedList, e)
  PROVE  /\ e # NULL /\ \A u \in Threads : ent[u] # e
         /\ ~(InFifo(freeList, e) /\ InFifo(queuedList, e))
BY FlexQueueAssumption DEF FQInv, OnePlace

\* A call that moves on leaves the other calls where they are.
LEMMA PcStep ==
  ASSUME TypeOK, NEW t \in Threads, NEW step, pc' = [pc EXCEPT ![t] = step],
         t \in Pushers => step \in PusherSteps,
         t \in Poppers => step \in PopperSteps
  PROVE  /\ pc'[t] = step /\ \A u \in Threads \ {t} : pc'[u] = pc[u]
         /\ pc' \in [Threads -> PusherSteps \union PopperSteps]
         /\ \A u \in Pushers : pc'[u] \in PusherSteps
         /\ \A u \in Poppers : pc'[u] \in PopperSteps
BY DEF TypeOK, Threads

\* A call that takes an entry, or lets it go, leaves the other calls theirs.
LEMMA EntStep ==
  ASSUME TypeOK, NEW t \in Threads, NEW e \in Entries \union {NULL},
         ent' = [ent EXCEPT ![t] = e]
  PROVE  /\ ent'[t] = e /\ \A u \in Threads \ {t} : ent'[u] = ent[u]
         /\ ent' \in [Threads -> Entries \union {NULL}]
BY DEF TypeOK

\* The blocks stay with their owners.
LEMMA SameBlocks ==
  ASSUME FQInv, Filled' = Filled, UNCHANGED <<entry, heap, allocated, ptr>>
  PROVE  /\ BlocksOwned'
         /\ \A t \in Pushers : ptr'[t] # NULL =>
              /\ \A u \in Pushers \ {t} : ptr'[u] # ptr'[t]
              /\ \A e \in Filled' : entry'[e].data # ptr'[t]
         /\ \A block \in heap' : block.id <= allocated'
BY DEF FQInv, BlocksOwned, Holding

-----------------------------------------------------------------------------
(* The steps of a push. *)

\* Taking a free entry.
LEMMA PushTakeInv ==
  ASSUME FQInv, NEW t \in Pushers, PushTake(t)
  PROVE  FQInv'
<1> DEFINE e == Head(freeList)
<1>1. /\ e \in Entries /\ InFifo(freeList, e)
      /\ freeList' \in Seq(Entries) /\ Distinct(freeList')
      /\ \A d : InFifo(freeList', d) <=> InFifo(freeList, d) /\ d # e
  BY TakenOut DEF FQInv, TypeOK, OnePlace, PushTake
<1>2. ent[t] = NULL /\ ptr[t] = NULL /\ t \in Threads
  BY HoldsNone DEF PushTake, Threads
<1>3. e # NULL /\ (\A u \in Threads : ent[u] # e) /\ ~InFifo(queuedList, e)
  BY <1>1, InFifoNotHeld
<1>4. /\ UNCHANGED <<queuedList, entry, heap, allocated, ptr, destroyed>>
      /\ ~destroyed /\ pc[t] = "idle"
  BY DEF PushTake
<1>e. /\ ent'[t] = e /\ \A u \in Threads \ {t} : ent'[u] = ent[u]
      /\ ent' \in [Threads -> Entries \union {NULL}]
  BY <1>1, <1>2, EntStep DEF FQInv, PushTake
<1>p. /\ pc'[t] = "alloc" /\ \A u \in Threads \ {t} : pc'[u] = pc[u]
      /\ pc' \in [Threads -> PusherSteps \union PopperSteps]
      /\ \A u \in Pushers : pc'[u] \in PusherSteps
      /\ \A u \in Poppers : pc'[u] \in PopperSteps
  BY <1>2, PcStep, FlexQueueAssumption DEF FQInv, PushTake, PusherSteps
<1> HIDE DEF e
<1>5. TypeOK'
  BY <1>1, <1>4, <1>e, <1>p DEF FQInv, TypeOK
<1>6. OnePlace'
  BY <1>1, <1>2, <1>3, <1>4, <1>e, FlexQueueAssumption DEF FQInv, OnePlace
<1>7. Filled' = Filled
  BY <1>1, <1>2, <1>3, <1>4, <1>e, <1>p DEF Filled
<1>8. Holding'
  BY <1>2, <1>3, <1>4, <1>7, <1>e, <1>p, SameBlocks DEF FQInv, Holding, Threads
<1> QED BY <1>4, <1>5, <1>6, <1>7, <1>8, SameBlocks DEF FQInv, Gone

\* Out of memory: the entry goes back, to a fifo that has room.
LEMMA PushAllocFailsInv ==
  ASSUME FQInv, NEW t \in Pushers, PushAllocFails(t)
  PROVE  FQInv'
<1> DEFINE e == ent[t]
<1>1. t \in Threads /\ pc[t] = "alloc"
  BY DEF PushAllocFails, Threads
<1>2. /\ e \in Entries /\ e # NULL
      /\ ~InFifo(freeList, e) /\ ~InFifo(queuedList, e)
      /\ \A u \in Threads \ {t} : ent[u] # e
      /\ ~destroyed
  BY <1>1, Held
<1>3. /\ freeList' \in Seq(Entries) /\ Distinct(freeList')
      /\ \A d : InFifo(freeList', d) <=> InFifo(freeList, d) \/ d = e
  BY <1>2, PutIn DEF FQInv, TypeOK, OnePlace, PushAllocFails
<1>4. UNCHANGED <<queuedList, entry, heap, allocated, ptr, destroyed>>
  BY DEF PushAllocFails
<1>e. /\ ent'[t] = NULL /\ \A u \in Threads \ {t} : ent'[u] = ent[u]
      /\ ent' \in [Threads -> Entries \union {NULL}]
  BY <1>1, EntStep DEF FQInv, PushAllocFails
<1>p. /\ pc'[t] = "idle" /\ \A u \in Threads \ {t} : pc'[u] = pc[u]
      /\ pc' \in [Threads -> PusherSteps \union PopperSteps]
      /\ \A u \in Pushers : pc'[u] \in PusherSteps
      /\ \A u \in Poppers : pc'[u] \in PopperSteps
  BY <1>1, PcStep, FlexQueueAssumption DEF FQInv, PushAllocFails, PusherSteps, Threads
<1>5. ent[t] = e
  OBVIOUS
<1> HIDE DEF e
<1>6. TypeOK'
  BY <1>3, <1>4, <1>e, <1>p DEF FQInv, TypeOK
<1>7. OnePlace'
  BY <1>1, <1>2, <1>3, <1>4, <1>5, <1>e, FlexQueueAssumption DEF FQInv, OnePlace
<1>8. Filled' = Filled
  BY <1>1, <1>2, <1>3, <1>4, <1>5, <1>e, <1>p, FlexQueueAssumption DEF Filled
<1>9. Holding'
  BY <1>1, <1>4, <1>8, <1>e, <1>p, SameBlocks DEF FQInv, Holding, Threads
<1> QED BY <1>2, <1>4, <1>6, <1>7, <1>8, <1>9, SameBlocks DEF FQInv, Gone

\* The filled entry is queued, in a fifo that has room, with its block.
LEMMA PushQueueInv ==
  ASSUME FQInv, NEW t \in Pushers, PushQueue(t)
  PROVE  FQInv'
<1> DEFINE e == ent[t]
<1>1. t \in Threads /\ pc[t] = "queue"
  BY DEF PushQueue, Threads
<1>2. /\ e \in Entries /\ e # NULL
      /\ ~InFifo(freeList, e) /\ ~InFifo(queuedList, e)
      /\ \A u \in Threads \ {t} : ent[u] # e
      /\ ~destroyed
  BY <1>1, Held
<1>3. /\ queuedList' \in Seq(Entries) /\ Distinct(queuedList')
      /\ \A d : InFifo(queuedList', d) <=> InFifo(queuedList, d) \/ d = e
  BY <1>2, PutIn DEF FQInv, TypeOK, OnePlace, PushQueue
<1>4. UNCHANGED <<freeList, entry, heap, allocated, ptr, destroyed>>
  BY DEF PushQueue
<1>e. /\ ent'[t] = NULL /\ \A u \in Threads \ {t} : ent'[u] = ent[u]
      /\ ent' \in [Threads -> Entries \union {NULL}]
  BY <1>1, EntStep DEF FQInv, PushQueue
<1>p. /\ pc'[t] = "idle" /\ \A u \in Threads \ {t} : pc'[u] = pc[u]
      /\ pc' \in [Threads -> PusherSteps \union PopperSteps]
      /\ \A u \in Pushers : pc'[u] \in PusherSteps
      /\ \A u \in Poppers : pc'[u] \in PopperSteps
  BY <1>1, PcStep, FlexQueueAssumption DEF FQInv, PushQueue, PusherSteps, Threads
<1>5. ent[t] = e
  OBVIOUS
<1> HIDE DEF e
<1>6. TypeOK'
  BY <1>3, <1>4, <1>e, <1>p DEF FQInv, TypeOK
<1>7. OnePlace'
  BY <1>1, <1>2, <1>3, <1>4, <1>5, <1>e, FlexQueueAssumption DEF FQInv, OnePlace
<1>8. Filled' = Filled
  BY <1>1, <1>2, <1>3, <1>4, <1>5, <1>e, <1>p, FlexQueueAssumption DEF Filled
<1>9. Holding'
  BY <1>1, <1>4, <1>8, <1>e, <1>p, SameBlocks DEF FQInv, Holding, Threads
<1> QED BY <1>2, <1>4, <1>6, <1>7, <1>8, <1>9, SameBlocks DEF FQInv, Gone

\* The new block is unlike every other, so that one push owns it.
LEMMA PushAllocInv ==
  ASSUME FQInv, NEW t \in Pushers, NEW length \in Lengths, PushAlloc(t, length)
  PROVE  FQInv'
<1> DEFINE block == [id |-> allocated + 1, length |-> length]
<1>1. /\ t \in Threads /\ pc[t] = "alloc"
      /\ heap' = heap \union {block} /\ allocated' = allocated + 1
      /\ UNCHANGED <<freeList, queuedList, entry, ent, destroyed>>
  BY DEF PushAlloc, Threads
<1>2. /\ allocated \in Nat /\ allocated' \in 0 .. MaxBlocks
      /\ block \in Blocks /\ block # NULL /\ block.id = allocated + 1
      /\ heap \subseteq Blocks
  BY FlexQueueAssumption DEF FQInv, TypeOK, PushAlloc, Blocks
<1>3. block \notin heap
  BY <1>2 DEF FQInv, Holding
<1>4. /\ ptr'[t] = block /\ \A u \in Pushers \ {t} : ptr'[u] = ptr[u]
      /\ ptr' \in [Pushers -> Blocks \union {NULL}]
  BY <1>2 DEF FQInv, TypeOK, PushAlloc
<1>p. /\ pc'[t] = "fill" /\ \A u \in Threads \ {t} : pc'[u] = pc[u]
      /\ pc' \in [Threads -> PusherSteps \union PopperSteps]
      /\ \A u \in Pushers : pc'[u] \in PusherSteps
      /\ \A u \in Poppers : pc'[u] \in PopperSteps
  BY <1>1, PcStep, FlexQueueAssumption DEF FQInv, PushAlloc, PusherSteps, Threads
<1>5. ptr[t] = NULL
  BY <1>1 DEF FQInv, Holding
<1>6. \A b \in heap' : b.id <= allocated'
  BY <1>1, <1>2 DEF FQInv, Holding, Blocks
<1> HIDE DEF block
<1>7. TypeOK'
  BY <1>1, <1>2, <1>4, <1>p DEF FQInv, TypeOK
<1>8. Filled' = Filled
  BY <1>1, <1>p DEF Filled
<1>9. /\ \A e \in Filled : entry[e].data # block
      /\ \A u \in Pushers : ptr[u] # block
  <2>1. \A e \in Filled : entry[e].data \in heap
    BY DEF FQInv, BlocksOwned
  <2>2. \A u \in Pushers : ptr[u] # NULL => ptr[u] \in heap
    BY DEF FQInv, BlocksOwned
  <2> QED BY <1>2, <1>3, <2>1, <2>2
<1>10. BlocksOwned'
  BY <1>1, <1>2, <1>4, <1>5, <1>8, <1>9 DEF FQInv, BlocksOwned
<1>11. Holding'
  BY <1>1, <1>2, <1>4, <1>6, <1>8, <1>9, <1>p DEF FQInv, Holding, Threads
<1>12. OnePlace'
  BY <1>1 DEF FQInv, OnePlace
<1> QED BY <1>1, <1>7, <1>10, <1>11, <1>12, <1>p DEF FQInv, Gone

\* Filling the entry hands the block over to it.
LEMMA PushFillInv ==
  ASSUME FQInv, NEW t \in Pushers, PushFill(t)
  PROVE  FQInv'
<1> DEFINE e == ent[t]
           block == ptr[t]
<1>1. /\ t \in Threads /\ pc[t] = "fill"
      /\ UNCHANGED <<freeList, queuedList, heap, allocated, ent, destroyed>>
  BY DEF PushFill, Threads
<1>2. /\ e \in Entries /\ e # NULL /\ ~InFifo(queuedList, e)
      /\ \A u \in Threads \ {t} : ent[u] # e
  BY <1>1, Held
<1>3. /\ block # NULL /\ block \in Blocks /\ block.length \in Lengths
      /\ \A u \in Pushers \ {t} : ptr[u] # block
      /\ \A d \in Filled : entry[d].data # block
  BY <1>1 DEF FQInv, TypeOK, Holding, Blocks
<1>4. /\ ptr'[t] = NULL /\ \A u \in Pushers \ {t} : ptr'[u] = ptr[u]
      /\ ptr' \in [Pushers -> Blocks \union {NULL}]
  BY DEF FQInv, TypeOK, PushFill
<1>5. /\ entry'[e].data = block /\ entry'[e].length = block.length
      /\ \A d \in Entries \ {e} : entry'[d] = entry[d]
      /\ entry' \in [Entries -> [data : Blocks \union {NULL}, length : Lengths \union {0}]]
  BY <1>2, <1>3 DEF FQInv, TypeOK, PushFill
<1>p. /\ pc'[t] = "queue" /\ \A u \in Threads \ {t} : pc'[u] = pc[u]
      /\ pc' \in [Threads -> PusherSteps \union PopperSteps]
      /\ \A u \in Pushers : pc'[u] \in PusherSteps
      /\ \A u \in Poppers : pc'[u] \in PopperSteps
  BY <1>1, PcStep, FlexQueueAssumption DEF FQInv, PushFill, PusherSteps, Threads
<1>6. ent[t] = e /\ ptr[t] = block
  OBVIOUS
<1> HIDE DEF e, block
<1>7. TypeOK'
  BY <1>1, <1>4, <1>5, <1>p DEF FQInv, TypeOK
<1>8. Filled' = Filled \union {e} /\ e \notin Filled
  BY <1>1, <1>2, <1>6, <1>p DEF Filled
<1>9. Filled \subseteq Entries
  BY DEF Filled
<1>10. BlocksOwned'
  <2>1. {entry'[d].data : d \in Filled'} = {entry[d].data : d \in Filled} \union {block}
    BY <1>5, <1>8, <1>9
  <2>2. {ptr[u] : u \in {v \in Pushers : ptr[v] # NULL}}
          = {ptr'[u] : u \in {v \in Pushers : ptr'[v] # NULL}} \union {block}
    BY <1>3, <1>4, <1>6
  <2>3. heap' = {entry'[d].data : d \in Filled'}
                  \union {ptr'[u] : u \in {v \in Pushers : ptr'[v] # NULL}}
    BY <1>1, <2>1, <2>2 DEF FQInv, BlocksOwned
  <2>4. \A d \in Filled' : /\ entry'[d].data # NULL
                           /\ entry'[d].length = entry'[d].data.length
    BY <1>3, <1>5, <1>8, <1>9 DEF FQInv, BlocksOwned
  <2>5. \A d \in Entries \ Filled' : entry'[d] = Blank
    BY <1>5, <1>8 DEF FQInv, BlocksOwned
  <2>6. \A d, f \in Filled' : entry'[d].data = entry'[f].data => d = f
    BY <1>3, <1>5, <1>8, <1>9 DEF FQInv, BlocksOwned
  <2> QED BY <2>3, <2>4, <2>5, <2>6 DEF BlocksOwned
<1>11. Holding'
  BY <1>1, <1>3, <1>4, <1>5, <1>6, <1>8, <1>9, <1>p DEF FQInv, Holding, Threads
<1>12. OnePlace'
  BY <1>1 DEF FQInv, OnePlace
<1> QED BY <1>1, <1>7, <1>10, <1>11, <1>12 DEF FQInv, Gone

-----------------------------------------------------------------------------
(* The steps of a pop and of the release that follows it. *)

\* Popping takes the entry with its block.
LEMMA PopFrontInv ==
  ASSUME FQInv, NEW t \in Poppers, PopFront(t)
  PROVE  FQInv'
<1> DEFINE e == Head(queuedList)
<1>1. t \in Threads /\ pc[t] = "idle" /\ ent[t] = NULL /\ ~destroyed
  BY HoldsNone DEF PopFront, Threads
<1>2. /\ e \in Entries /\ InFifo(queuedList, e)
      /\ queuedList' \in Seq(Entries) /\ Distinct(queuedList')
      /\ \A d : InFifo(queuedList', d) <=> InFifo(queuedList, d) /\ d # e
  BY TakenOut DEF FQInv, TypeOK, OnePlace, PopFront
<1>3. e # NULL /\ (\A u \in Threads : ent[u] # e) /\ ~InFifo(freeList, e)
  BY <1>2, InFifoNotHeld
<1>4. UNCHANGED <<freeList, entry, heap, allocated, ptr, destroyed>>
  BY DEF PopFront
<1>e. /\ ent'[t] = e /\ \A u \in Threads \ {t} : ent'[u] = ent[u]
      /\ ent' \in [Threads -> Entries \union {NULL}]
  BY <1>1, <1>2, EntStep DEF FQInv, PopFront
<1>p. /\ pc'[t] = "popped" /\ \A u \in Threads \ {t} : pc'[u] = pc[u]
      /\ pc' \in [Threads -> PusherSteps \union PopperSteps]
      /\ \A u \in Pushers : pc'[u] \in PusherSteps
      /\ \A u \in Poppers : pc'[u] \in PopperSteps
  BY <1>1, PcStep, FlexQueueAssumption DEF FQInv, PopFront, PopperSteps, Threads
<1> HIDE DEF e
<1>5. TypeOK'
  BY <1>2, <1>4, <1>e, <1>p DEF FQInv, TypeOK
<1>6. OnePlace'
  BY <1>1, <1>2, <1>3, <1>4, <1>e, FlexQueueAssumption DEF FQInv, OnePlace
<1>7. Filled' = Filled
  BY <1>1, <1>2, <1>3, <1>e, <1>p, FlexQueueAssumption DEF Filled
<1>8. Holding'
  BY <1>1, <1>3, <1>4, <1>7, <1>e, <1>p, SameBlocks, FlexQueueAssumption
     DEF FQInv, Holding, Threads
<1> QED BY <1>1, <1>4, <1>5, <1>6, <1>7, <1>8, SameBlocks DEF FQInv, Gone

\* Releasing frees the block of the popped entry and no other.
LEMMA ReleaseClearInv ==
  ASSUME FQInv, NEW t \in Poppers, ReleaseClear(t)
  PROVE  FQInv'
<1> DEFINE e == ent[t]
           block == entry[e].data
<1>1. /\ t \in Threads /\ pc[t] = "popped" /\ t \notin Pushers
      /\ UNCHANGED <<freeList, queuedList, allocated, ent, ptr, destroyed>>
  BY FlexQueueAssumption DEF ReleaseClear, Threads
<1>2. /\ e \in Entries /\ e # NULL /\ ~InFifo(queuedList, e)
      /\ \A u \in Threads \ {t} : ent[u] # e
  BY <1>1, Held
<1>3. heap' = heap \ {block}
  BY DEF ReleaseClear, Freed
<1>4. /\ entry'[e] = Blank
      /\ \A d \in Entries \ {e} : entry'[d] = entry[d]
      /\ entry' \in [Entries -> [data : Blocks \union {NULL}, length : Lengths \union {0}]]
  BY <1>2 DEF FQInv, TypeOK, ReleaseClear, Blank
<1>p. /\ pc'[t] = "put_back" /\ \A u \in Threads \ {t} : pc'[u] = pc[u]
      /\ pc' \in [Threads -> PusherSteps \union PopperSteps]
      /\ \A u \in Pushers : pc'[u] \in PusherSteps
      /\ \A u \in Poppers : pc'[u] \in PopperSteps
  BY <1>1, PcStep, FlexQueueAssumption DEF FQInv, ReleaseClear, PopperSteps, Threads
<1>5. ent[t] = e /\ entry[e].data = block
  OBVIOUS
<1> HIDE DEF e, block
<1>6. TypeOK'
  BY <1>1, <1>3, <1>4, <1>p DEF FQInv, TypeOK
<1>7. Filled' = Filled \ {e} /\ e \in Filled /\ Filled \subseteq Entries
  BY <1>1, <1>2, <1>5, <1>p DEF Filled
<1>8. /\ \A d \in Filled' : entry[d].data # block
      /\ \A u \in Pushers : ptr[u] # NULL => ptr[u] # block
  BY <1>5, <1>7 DEF FQInv, BlocksOwned, Holding
<1>9. BlocksOwned'
  <2>1. {entry[d].data : d \in Filled}
          = {entry'[d].data : d \in Filled'} \union {block}
    BY <1>4, <1>5, <1>7
  <2>2. block \notin {entry'[d].data : d \in Filled'}
                       \union {ptr[u] : u \in {v \in Pushers : ptr[v] # NULL}}
    BY <1>4, <1>7, <1>8
  <2>3. heap' = {entry'[d].data : d \in Filled'}
                  \union {ptr'[u] : u \in {v \in Pushers : ptr'[v] # NULL}}
    BY <1>1, <1>3, <2>1, <2>2 DEF FQInv, BlocksOwned
  <2>4. \A d \in Filled' : /\ entry'[d].data # NULL
                           /\ entry'[d].length = entry'[d].data.length
    BY <1>4, <1>7 DEF FQInv, BlocksOwned
  <2>5. \A d \in Entries \ Filled' : entry'[d] = Blank
    BY <1>4, <1>7 DEF FQInv, BlocksOwned
  <2>6. \A d, f \in Filled' : entry'[d].data = entry'[f].data => d = f
    BY <1>4, <1>7 DEF FQInv, BlocksOwned
  <2> QED BY <2>3, <2>4, <2>5, <2>6 DEF BlocksOwned
<1>10. Holding'
  <2>1. \A u \in Pushers : ptr[u] # NULL => \A d \in Filled' : entry'[d].data # ptr[u]
    BY <1>4, <1>7 DEF FQInv, Holding
  <2> QED BY <1>1, <1>3, <1>p, <2>1 DEF FQInv, Holding, Threads
<1>11. OnePlace'
  BY <1>1 DEF FQInv, OnePlace
<1> QED BY <1>1, <1>6, <1>9, <1>10, <1>11, Held DEF FQInv, Gone

\* The cleared entry goes back, to a fifo that has room.
LEMMA ReleasePutBackInv ==
  ASSUME FQInv, NEW t \in Poppers, ReleasePutBack(t)
  PROVE  FQInv'
<1> DEFINE e == ent[t]
<1>1. t \in Threads /\ pc[t] = "put_back"
  BY DEF ReleasePutBack, Threads
<1>2. /\ e \in Entries /\ e # NULL
      /\ ~InFifo(freeList, e) /\ ~InFifo(queuedList, e)
      /\ \A u \in Threads \ {t} : ent[u] # e
      /\ ~destroyed
  BY <1>1, Held
<1>3. /\ freeList' \in Seq(Entries) /\ Distinct(freeList')
      /\ \A d : InFifo(freeList', d) <=> InFifo(freeList, d) \/ d = e
  BY <1>2, PutIn DEF FQInv, TypeOK, OnePlace, ReleasePutBack
<1>4. UNCHANGED <<queuedList, entry, heap, allocated, ptr, destroyed>>
  BY DEF ReleasePutBack
<1>e. /\ ent'[t] = NULL /\ \A u \in Threads \ {t} : ent'[u] = ent[u]
      /\ ent' \in [Threads -> Entries \union {NULL}]
  BY <1>1, EntStep DEF FQInv, ReleasePutBack
<1>p. /\ pc'[t] = "idle" /\ \A u \in Threads \ {t} : pc'[u] = pc[u]
      /\ pc' \in [Threads -> PusherSteps \union PopperSteps]
      /\ \A u \in Pushers : pc'[u] \in PusherSteps
      /\ \A u \in Poppers : pc'[u] \in PopperSteps
  BY <1>1, PcStep, FlexQueueAssumption DEF FQInv, ReleasePutBack, PopperSteps, Threads
<1>5. ent[t] = e
  OBVIOUS
<1> HIDE DEF e
<1>6. TypeOK'
  BY <1>3, <1>4, <1>e, <1>p DEF FQInv, TypeOK
<1>7. OnePlace'
  BY <1>1, <1>2, <1>3, <1>4, <1>5, <1>e, FlexQueueAssumption DEF FQInv, OnePlace
<1>8. Filled' = Filled
  BY <1>1, <1>2, <1>3, <1>4, <1>5, <1>e, <1>p, FlexQueueAssumption DEF Filled
<1>9. Holding'
  BY <1>1, <1>4, <1>8, <1>e, <1>p, SameBlocks DEF FQInv, Holding, Threads
<1> QED BY <1>2, <1>4, <1>6, <1>7, <1>8, <1>9, SameBlocks DEF FQInv, Gone

-----------------------------------------------------------------------------
(* The whole queue. *)

\* Destroying frees the blocks of the queued entries, which are all there are.
LEMMA DestroyInv ==
  ASSUME FQInv, Destroy
  PROVE  FQInv'
<1>1. /\ \A t \in Threads : pc[t] = "idle"
      /\ queuedList' = <<>> /\ freeList' = <<>> /\ destroyed'
      /\ UNCHANGED <<allocated, pc, ent, ptr>>
  BY DEF Destroy
<1>2. (\A t \in Threads : ent[t] = NULL) /\ (\A t \in Pushers : ptr[t] = NULL)
  BY <1>1, HoldsNone DEF Threads
<1>3. Filled = {e \in Entries : InFifo(queuedList, e)}
  BY <1>1 DEF Filled
<1>4. heap' = {}
  <2>1. heap = {entry[e].data : e \in Filled}
    BY <1>2 DEF FQInv, BlocksOwned
  <2>2. heap' = heap \ {entry[queuedList[i]].data : i \in 1 .. Len(queuedList)}
    BY DEF Destroy
  <2> QED BY <1>3, <2>1, <2>2 DEF InFifo
<1>5. entry' = [e \in Entries |-> Blank]
  <2>1. \A e \in Entries : ~InFifo(queuedList, e) => entry[e] = Blank
    BY <1>3 DEF FQInv, BlocksOwned
  <2> QED BY <2>1 DEF Destroy, InFifo
<1>6. Filled' = {}
  BY <1>1, EmptyFifo DEF Filled
<1>7. TypeOK'
  BY <1>1, <1>4, <1>5, EmptyFifo DEF FQInv, TypeOK, Blank
<1>8. OnePlace'
  BY <1>1, <1>2, EmptyFifo DEF OnePlace
<1>9. BlocksOwned'
  BY <1>1, <1>2, <1>4, <1>5, <1>6 DEF BlocksOwned
<1>10. Holding'
  BY <1>1, <1>2, <1>4, <1>6 DEF FQInv, Holding
<1> QED BY <1>1, <1>7, <1>8, <1>9, <1>10 DEF FQInv, Gone

\* The invariant holds of the queue that XPR_FQ_Create returns.
LEMMA InitInv ==
  ASSUME Init
  PROVE  FQInv
<1>1. Filled = {}
  BY EmptyFifo, FlexQueueAssumption DEF Init, Filled, Threads
<1>2. TypeOK
  <2>1. entry \in [Entries -> [data : Blocks \union {NULL}, length : Lengths \union {0}]]
    BY DEF Init, Blank
  <2>2. freeList \in Seq(Entries) /\ queuedList \in Seq(Entries)
    BY AllFree, EmptyFifo DEF Init
  <2>3. /\ pc \in [Threads -> PusherSteps \union PopperSteps]
        /\ \A t \in Pushers : pc[t] \in PusherSteps
        /\ \A t \in Poppers : pc[t] \in PopperSteps
    BY DEF Init, PusherSteps, PopperSteps, Threads
  <2>4. heap \subseteq Blocks /\ destroyed \in BOOLEAN
    BY DEF Init
  <2>6. allocated \in 0 .. MaxBlocks
    BY FlexQueueAssumption DEF Init
  <2>5. ent \in [Threads -> Entries \union {NULL}] /\ ptr \in [Pushers -> Blocks \union {NULL}]
    BY DEF Init
  <2> QED BY <2>1, <2>2, <2>3, <2>4, <2>5, <2>6 DEF TypeOK
<1>3. OnePlace
  BY AllFree, EmptyFifo DEF Init, OnePlace
<1>4. BlocksOwned
  BY <1>1 DEF Init, BlocksOwned
<1>5. Holding /\ Gone
  BY <1>1 DEF Init, Holding, Gone, Threads
<1> QED BY <1>2, <1>3, <1>4, <1>5 DEF FQInv

\* No step leaves the invariant.
LEMMA NextInv ==
  ASSUME FQInv, [Next]_vars
  PROVE  FQInv'
<1>1. ASSUME UNCHANGED vars PROVE FQInv'
  <2>1. Filled' = Filled
    BY <1>1 DEF Filled, vars
  <2> QED BY <1>1, <2>1
          DEF FQInv, TypeOK, OnePlace, BlocksOwned, Holding, Gone, vars
<1>2. ASSUME NEW t \in Pushers, PusherNext(t) PROVE FQInv'
  BY <1>1, <1>2, PushTakeInv, PushAllocFailsInv, PushAllocInv, PushFillInv, PushQueueInv
     DEF PusherNext, PushRefused
<1>3. ASSUME NEW t \in Poppers, PopperNext(t) PROVE FQInv'
  BY <1>1, <1>3, PopFrontInv, ReleaseClearInv, ReleasePutBackInv DEF PopperNext, Clear
<1> QED BY <1>1, <1>2, <1>3, DestroyInv DEF Next, Destroyed

\* The queue keeps its inductive invariant: whatever the threads do between the
\* two fifo calls of XPR_FQ_PushBack and of XPR_FQ_ReleaseEntry.
THEOREM FQInvariant == Spec => []FQInv
<1>1. Init => FQInv
  BY InitInv
<1>2. FQInv /\ [Next]_vars => FQInv'
  BY NextInv
<1> QED BY <1>1, <1>2, PTL DEF Spec

\* Every entry is in one fifo or in the hands of one thread, for any number of
\* threads and entries, so the puts whose result xpr_fq.c ignores succeed.
THEOREM FQOnePlace == Spec => []OnePlace
<1>1. FQInv => OnePlace
  BY DEF FQInv
<1> QED BY <1>1, FQInvariant, PTL

\* No block leaks, is freed twice or is freed while a popper reads it, for any
\* number of threads, entries and allocations.
THEOREM FQBlocksOwned == Spec => []BlocksOwned
<1>1. FQInv => BlocksOwned
  BY DEF FQInv
<1> QED BY <1>1, FQInvariant, PTL

-----------------------------------------------------------------------------
(* The refinement: the data of the queued entries is the bounded queue, and *)
(* the data of a popped entry is what its reader took.                      *)

\* Steps that leave the queued entries alone.
LEMMA SameWaiting ==
  ASSUME FQInv, UNCHANGED queuedList,
         \A e \in Entries : InFifo(queuedList, e) => entry'[e] = entry[e]
  PROVE  Waiting' = Waiting
<1>1. ASSUME NEW i \in 1 .. Len(queuedList)
      PROVE  entry'[queuedList[i]].data = entry[queuedList[i]].data
  <2>1. queuedList[i] \in Entries BY DEF FQInv, TypeOK
  <2> QED BY <2>1 DEF InFifo
<1> QED BY <1>1 DEF Waiting

\* Steps that leave the popped entries alone.
LEMMA SameTaken ==
  ASSUME \A u \in Poppers : /\ (pc'[u] = "popped") = (pc[u] = "popped")
                            /\ pc[u] = "popped" =>
                                 ent'[u] = ent[u] /\ entry'[ent[u]] = entry[ent[u]]
  PROVE  Taken' = Taken
BY DEF Taken

\* The step of a thread that fills, queues or releases its entry changes what no
\* other thread holds.
LEMMA OthersKeep ==
  ASSUME FQInv, NEW t \in Threads, NEW step, NEW e, step # "popped",
         pc[t] # "popped", pc' = [pc EXCEPT ![t] = step],
         ent' = [ent EXCEPT ![t] = e],
         \A d \in Entries : d # ent[t] => entry'[d] = entry[d]
  PROVE  Taken' = Taken
<1> SUFFICES ASSUME NEW u \in Poppers
             PROVE  /\ (pc'[u] = "popped") = (pc[u] = "popped")
                    /\ pc[u] = "popped" =>
                         ent'[u] = ent[u] /\ entry'[ent[u]] = entry[ent[u]]
  BY SameTaken
<1>1. (pc'[u] = "popped") = (pc[u] = "popped") BY DEF FQInv, TypeOK, Threads
<1>2. ASSUME pc[u] = "popped"
      PROVE  ent'[u] = ent[u] /\ entry'[ent[u]] = entry[ent[u]]
  <2>1. u # t /\ u \in Threads BY <1>2 DEF Threads
  <2>2. ent[u] \in Entries /\ ent[u] # ent[t] BY <1>2, <2>1, Held
  <2>3. ent'[u] = ent[u] BY <2>1 DEF FQInv, TypeOK
  <2> QED BY <2>2, <2>3
<1> QED BY <1>1, <1>2

\* Queueing an entry puts its data behind what waits.
LEMMA PushQueueEnqueues ==
  ASSUME FQInv, NEW t \in Pushers, PushQueue(t)
  PROVE  \E block \in Blocks : Queue!Enqueue(block)
<1> DEFINE e == ent[t]
           block == entry[e].data
<1>1. t \in Threads /\ pc[t] = "queue" BY DEF PushQueue, Threads
<1>2. e \in Entries /\ ~InFifo(queuedList, e) BY <1>1, Held
<1>3. queuedList \in Seq(Entries) /\ Len(queuedList) < maxQueues
  BY <1>2, Room DEF FQInv, TypeOK, OnePlace
<1>4. queuedList' = Append(queuedList, e) /\ entry' = entry
  BY <1>3 DEF PushQueue, Put
<1>5. block \in Blocks
  <2>1. e \in Filled BY <1>1, <1>2 DEF Filled
  <2> QED BY <1>2, <2>1 DEF FQInv, TypeOK, BlocksOwned
<1>6. Len(Waiting) = Len(queuedList) BY <1>3 DEF Waiting
<1>7. Waiting' = Append(Waiting, block) BY <1>3, <1>4 DEF Waiting
<1>8. Taken' = Taken BY <1>1, <1>4, OthersKeep DEF PushQueue
<1> QED BY <1>3, <1>5, <1>6, <1>7, <1>8 DEF Queue!Enqueue

\* Popping an entry takes the first of what waits.
LEMMA PopFrontDequeues ==
  ASSUME FQInv, NEW t \in Poppers, PopFront(t) PROVE Queue!Dequeue(t)
<1> DEFINE e == Head(queuedList)
<1>1. t \in Threads /\ pc[t] = "idle" /\ queuedList # <<>> /\ entry' = entry
  BY DEF PopFront, Threads
<1>2. queuedList \in Seq(Entries) /\ queuedList' = Tail(queuedList)
  BY DEF FQInv, TypeOK, PopFront
<1>3. /\ Waiting # <<>> /\ Head(Waiting) = entry[e].data
      /\ Waiting' = Tail(Waiting)
  BY <1>1, <1>2 DEF Waiting
<1>4. Taken' = [Taken EXCEPT ![t] = Append(@, entry[e].data)]
  <2>1. pc'[t] = "popped" /\ ent'[t] = e /\ \A u \in Poppers \ {t} :
          pc'[u] = pc[u] /\ ent'[u] = ent[u]
    BY <1>1 DEF PopFront, FQInv, TypeOK, Threads
  <2>2. Taken[t] = <<>> BY <1>1 DEF Taken
  <2>3. Taken'[t] = Append(Taken[t], entry[e].data)
    <3>1. Taken'[t] = <<entry'[ent'[t]].data>> BY <2>1 DEF Taken
    <3>2. <<entry[e].data>> = Append(<<>>, entry[e].data) OBVIOUS
    <3> QED BY <1>1, <2>1, <2>2, <3>1, <3>2
  <2>4. \A u \in Poppers \ {t} : Taken'[u] = Taken[u] BY <1>1, <2>1 DEF Taken
  <2>5. Taken = [u \in Poppers |-> Taken[u]] /\ Taken' = [u \in Poppers |-> Taken'[u]]
    BY DEF Taken
  <2> QED BY <2>3, <2>4, <2>5
<1> QED BY <1>3, <1>4 DEF Queue!Dequeue

\* Releasing an entry ends the reader's call.
LEMMA ReleaseClearForgets ==
  ASSUME FQInv, NEW t \in Poppers, ReleaseClear(t) PROVE Queue!Forget(t)
<1>1. t \in Threads /\ pc[t] = "popped" BY DEF ReleaseClear, Threads
<1>2. /\ ent[t] \in Entries /\ ~InFifo(queuedList, ent[t])
      /\ \A u \in Threads \ {t} : ent[u] # ent[t]
  BY <1>1, Held
<1>3. \A d \in Entries : d # ent[t] => entry'[d] = entry[d]
  BY DEF ReleaseClear, FQInv, TypeOK
<1>4. Waiting' = Waiting BY <1>2, <1>3, SameWaiting DEF ReleaseClear
<1>5. pc'[t] = "put_back" /\ \A u \in Poppers \ {t} : pc'[u] = pc[u] /\ ent'[u] = ent[u]
  BY <1>1 DEF ReleaseClear, FQInv, TypeOK, Threads
<1>6. Taken'[t] = <<>> BY <1>5 DEF Taken
<1>7. ASSUME NEW u \in Poppers \ {t} PROVE Taken'[u] = Taken[u]
  <2>1. CASE pc[u] = "popped"
    <3>1. u \in Threads /\ ent[u] \in Entries BY <2>1, Held DEF Threads
    <3>2. entry'[ent[u]] = entry[ent[u]] BY <1>2, <1>3, <3>1
    <3> QED BY <1>5, <3>2 DEF Taken
  <2>2. CASE pc[u] # "popped" BY <1>5, <2>2 DEF Taken
  <2> QED BY <2>1, <2>2
<1>8. Taken = [u \in Poppers |-> Taken[u]] /\ Taken' = [u \in Poppers |-> Taken'[u]]
  BY DEF Taken
<1>9. Taken' = [Taken EXCEPT ![t] = <<>>] BY <1>6, <1>7, <1>8
<1> QED BY <1>4, <1>9 DEF Queue!Forget

\* Destroying the queue throws away what waits.
LEMMA DestroyDiscards ==
  ASSUME FQInv, Destroy PROVE [Queue!Next]_Queue!vars
<1>1. Taken' = Taken
  <2>1. \A u \in Poppers : pc[u] # "popped" /\ pc'[u] # "popped" BY DEF Destroy, Threads
  <2> QED BY <2>1, SameTaken
<1>2. queuedList' = <<>> /\ queuedList \in Seq(Entries) BY DEF Destroy, FQInv, TypeOK
<1>3. Waiting' = <<>> BY <1>2 DEF Waiting
<1>4. Waiting \in Seq({entry[d].data : d \in Entries}) /\ Len(Waiting) = Len(queuedList)
  BY <1>2 DEF Waiting
<1>5. CASE Len(queuedList) = 0
  <2>1. Waiting = <<>> BY <1>4, <1>5
  <2> QED BY <1>1, <1>3, <2>1 DEF Queue!vars
<1>6. CASE Len(queuedList) # 0
  <2> DEFINE n == Len(Waiting)
  <2>1. n \in 1 .. Len(Waiting) BY <1>2, <1>4, <1>6
  <2>2. SubSeq(Waiting, n + 1, Len(Waiting)) = <<>> BY <1>4, <2>1
  <2>3. Queue!Discard(n) BY <1>1, <1>3, <2>2 DEF Queue!Discard
  <2> QED BY <2>1, <2>3 DEF Queue!Next
<1> QED BY <1>5, <1>6

LEMMA StepRefines == ASSUME FQInv, [Next]_vars PROVE [Queue!Next]_Queue!vars
<1>1. ASSUME Waiting' = Waiting, Taken' = Taken PROVE UNCHANGED Queue!vars
  BY <1>1 DEF Queue!vars
<1>2. CASE UNCHANGED vars
  <2>1. Waiting' = Waiting BY <1>2 DEF vars, Waiting
  <2>2. Taken' = Taken BY <1>2 DEF vars, Taken
  <2> QED BY <1>1, <2>1, <2>2
<1>3. ASSUME NEW t \in Pushers, PusherNext(t) PROVE [Queue!Next]_Queue!vars
  <2> t \in Threads BY DEF Threads
  <2>1. CASE PushTake(t)
    <3>1. Waiting' = Waiting BY <2>1, SameWaiting DEF PushTake
    <3>2. Taken' = Taken BY <2>1, OthersKeep DEF PushTake
    <3> QED BY <1>1, <3>1, <3>2
  <2>2. CASE PushRefused(t) BY <1>2, <2>2 DEF PushRefused
  <2>3. CASE PushAllocFails(t)
    <3>1. Waiting' = Waiting BY <2>3, SameWaiting DEF PushAllocFails
    <3>2. Taken' = Taken BY <2>3, OthersKeep DEF PushAllocFails
    <3> QED BY <1>1, <3>1, <3>2
  <2>4. ASSUME NEW length \in Lengths, PushAlloc(t, length) PROVE UNCHANGED Queue!vars
    <3>1. Waiting' = Waiting BY <2>4, SameWaiting DEF PushAlloc
    <3>2. pc[t] = "alloc" /\ pc' = [pc EXCEPT ![t] = "fill"] /\ UNCHANGED <<ent, entry>>
      BY <2>4 DEF PushAlloc
    <3>3. Taken' = Taken BY <3>2, SameTaken DEF FQInv, TypeOK
    <3> QED BY <1>1, <3>1, <3>3
  <2>5. CASE PushFill(t)
    <3>1. pc[t] = "fill" /\ pc' = [pc EXCEPT ![t] = "queue"] /\ UNCHANGED ent
      BY <2>5 DEF PushFill
    <3>2. \A d \in Entries : d # ent[t] => entry'[d] = entry[d]
      BY <2>5 DEF PushFill, FQInv, TypeOK
    <3>3. ~InFifo(queuedList, ent[t]) BY <3>1, Held
    <3>4. Waiting' = Waiting BY <2>5, <3>2, <3>3, SameWaiting DEF PushFill
    <3>5. ent' = [ent EXCEPT ![t] = ent[t]] BY <3>1 DEF FQInv, TypeOK
    <3>6. Taken' = Taken BY <3>1, <3>2, <3>5, OthersKeep
    <3> QED BY <1>1, <3>4, <3>6
  <2>6. CASE PushQueue(t) BY <2>6, PushQueueEnqueues DEF Queue!Next
  <2> QED BY <1>3, <2>1, <2>2, <2>3, <2>4, <2>5, <2>6 DEF PusherNext
<1>4. ASSUME NEW t \in Poppers, PopperNext(t) PROVE [Queue!Next]_Queue!vars
  <2> t \in Threads BY DEF Threads
  <2>1. CASE PopFront(t) BY <2>1, PopFrontDequeues DEF Queue!Next
  <2>2. CASE ReleaseClear(t) BY <2>2, ReleaseClearForgets DEF Queue!Next
  <2>3. CASE ReleasePutBack(t)
    <3>1. Waiting' = Waiting BY <2>3, SameWaiting DEF ReleasePutBack
    <3>2. Taken' = Taken BY <2>3, OthersKeep DEF ReleasePutBack
    <3> QED BY <1>1, <3>1, <3>2
  <2>4. CASE Clear(t) BY <1>2, <2>4 DEF Clear
  <2> QED BY <1>4, <2>1, <2>2, <2>3, <2>4 DEF PopperNext
<1> QED BY <1>2, <1>3, <1>4, DestroyDiscards DEF Next, Destroyed

\* The queue implements the bounded queue, for any number of threads and
\* entries: what is pushed is popped once, in order and with its own data, in
\* whatever order the entries are released.
THEOREM FQIsQueue == Spec => IsQueue
<1>1. Init => Queue!Init
  BY DEF Init, Queue!Init, Waiting, Taken, Threads
<1>2. FQInv /\ [Next]_vars => [Queue!Next]_Queue!vars
  BY StepRefines
<1> QED BY <1>1, <1>2, FQInvariant, PTL DEF Spec, IsQueue, Queue!Spec

=============================================================================
