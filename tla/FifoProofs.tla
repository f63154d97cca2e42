----------------------------- MODULE FifoProofs -----------------------------
(***************************************************************************)
(* Proofs about Fifo, under FifoUsage, for every number of threads, slots, *)
(* elements and puts: the types, the distance of the counters, and that no *)
(* slot is copied by two threads at once.                                  *)
(***************************************************************************)
EXTENDS FifoInvariant, TLAPS

-----------------------------------------------------------------------------
(* Arithmetic of the slots. *)

\* A counter modulo the number of slots is the number of a slot.
LEMMA SlotType ==
  ASSUME NEW n \in Nat
  PROVE  Slot(n) \in 0 .. maxElements - 1
BY FifoAssumption DEF Slot

\* Counters less than maxElements apart lie in different slots.
LEMMA SlotsDistinct ==
  ASSUME NEW a \in Nat, NEW b \in Nat, a < b, b - a < maxElements
  PROVE  Slot(a) # Slot(b)
<1> DEFINE m == maxElements
<1>1. m \in Nat /\ m > 0
  BY FifoAssumption
<1>2. a = m * (a \div m) + Slot(a) /\ b = m * (b \div m) + Slot(b)
  BY <1>1 DEF Slot
<1>3. a \div m \in Int /\ b \div m \in Int
  BY <1>1
<1>4. SUFFICES ASSUME Slot(a) = Slot(b)
               PROVE  FALSE
  OBVIOUS
<1> DEFINE k == (b \div m) - (a \div m)
<1>5. k \in Int /\ b - a = m * k
  <2>1. Slot(a) \in Int
    BY SlotType
  <2> QED BY <1>1, <1>2, <1>3, <1>4, <2>1
<1>6. k >= 1
  <2>1. ASSUME k <= 0 PROVE m * k <= 0
    BY <1>1, <1>5, <2>1
  <2> QED BY <1>5, <2>1
<1>7. m * k >= m
  BY <1>1, <1>5, <1>6
<1> QED BY <1>1, <1>5, <1>7

-----------------------------------------------------------------------------
(* Who may be inside a call. *)

\* At most one producer is inside a call: the one that holds the lock, or
\* the only one there is.
LEMMA OneProducer ==
  ASSUME FifoInv, NEW p \in Producers, NEW q \in Producers,
         pc[p] # "idle", pc[q] # "idle"
  PROVE  p = q
<1>1. pc[p] \in LockedSteps /\ pc[q] \in LockedSteps
  BY DEF FifoInv, TypeOK, CallTypeOK, ProducerSteps, ConsumerSteps, LockedSteps, DrainSteps
<1>2. CASE HaveMP
  BY <1>1, <1>2 DEF FifoInv, LockInv, Threads
<1>3. CASE ~HaveMP
  BY <1>3, FifoUsage
<1> QED BY <1>2, <1>3

\* At most one consumer is inside a call.
LEMMA OneConsumer ==
  ASSUME FifoInv, NEW c \in Consumers, NEW d \in Consumers,
         pc[c] # "idle", pc[d] # "idle"
  PROVE  c = d
<1>1. CASE HaveMP /\ "Drain" \notin Calls
  <2>1. pc[c] \in LockedSteps /\ pc[d] \in LockedSteps
    BY <1>1 DEF FifoInv, TypeOK, CallTypeOK, LockInv, ProducerSteps, ConsumerSteps,
                LockedSteps, DrainSteps, Threads
  <2> QED BY <1>1, <2>1 DEF FifoInv, LockInv, Threads
<1>2. CASE ~HaveMP \/ "Drain" \in Calls
  BY <1>2, FifoUsage
<1> QED BY <1>1, <1>2

\* A producer that finds the lock free finds no producer inside a call.
LEMMA ProducerAlone ==
  ASSUME FifoInv, NEW p \in Producers, NEW name, MayEnter(p, name)
  PROVE  \A q \in Producers : pc[q] = "idle"
<1> SUFFICES ASSUME NEW q \in Producers, pc[q] # "idle"
             PROVE  FALSE
  OBVIOUS
<1>1. CASE HaveMP
  <2>1. pc[q] \in LockedSteps
    BY DEF FifoInv, TypeOK, CallTypeOK, ProducerSteps, ConsumerSteps,
           LockedSteps, DrainSteps
  <2>2. lock = q /\ lock = NoThread
    BY <1>1, <2>1 DEF FifoInv, LockInv, MayEnter, Threads
  <2> QED BY <2>2, FifoAssumption DEF Threads
<1>2. CASE ~HaveMP
  BY <1>2, FifoUsage DEF MayEnter
<1> QED BY <1>1, <1>2

\* A consumer that finds the lock free, or that drains, finds no consumer
\* inside a call.
LEMMA ConsumerAlone ==
  ASSUME FifoInv, NEW c \in Consumers, pc[c] = "idle",
         "Drain" \in Calls \/ (HaveMP => lock = NoThread)
  PROVE  \A d \in Consumers : pc[d] = "idle"
<1> SUFFICES ASSUME NEW d \in Consumers, pc[d] # "idle"
             PROVE  FALSE
  OBVIOUS
<1>1. CASE HaveMP /\ "Drain" \notin Calls
  <2>1. pc[d] \in LockedSteps
    BY <1>1 DEF FifoInv, TypeOK, CallTypeOK, LockInv, ProducerSteps,
                ConsumerSteps, LockedSteps, DrainSteps, Threads
  <2>2. lock = d /\ lock = NoThread
    BY <1>1, <2>1 DEF FifoInv, LockInv, Threads
  <2> QED BY <2>2, FifoAssumption DEF Threads
<1>2. CASE ~HaveMP \/ "Drain" \in Calls
  BY <1>2, FifoUsage
<1> QED BY <1>1, <1>2

-----------------------------------------------------------------------------
(* What every step does to the lock and to the place of its thread. *)

LEMMA ReturnInv ==
  ASSUME FifoInv, NEW t \in Threads, Return(t)
  PROVE  CallTypeOK' /\ LockInv'
<1> USE DEF FifoInv, TypeOK
<1>1. CallTypeOK'
  BY FifoAssumption
  DEF Return, CallTypeOK, NoCall, Locals, LocalsType, Offsets, ProducerSteps,
      ConsumerSteps
<1>2. LockInv'
  BY FifoAssumption
  DEF Return, CallTypeOK, LockInv, LockedSteps, DrainSteps, AtomicSteps, Threads
<1> QED BY <1>1, <1>2

\* The next step of thread t is one that its kind of thread takes.
IsStepOf(t, step) ==
  /\ t \in Producers => step \in ProducerSteps
  /\ t \in Consumers => step \in ConsumerSteps

LEMMA GotoInv ==
  ASSUME FifoInv, NEW t \in Threads, NEW step, Goto(t, step), IsStepOf(t, step),
         pc[t] \in LockedSteps <=> step \in LockedSteps,
         step \in DrainSteps => "Drain" \in Calls,
         step \in AtomicSteps => HaveMP,
         call' \in [Threads -> LocalsType]
  PROVE  CallTypeOK' /\ LockInv'
<1> USE DEF FifoInv, TypeOK
<1>1. CallTypeOK'
  BY FifoAssumption DEF Goto, CallTypeOK, IsStepOf, Threads
<1>2. LockInv'
  BY DEF Goto, CallTypeOK, LockInv, Threads
<1> QED BY <1>1, <1>2

LEMMA EnterInv ==
  ASSUME FifoInv, NEW t \in Threads, NEW step, NEW locals \in LocalsType,
         NEW name, MayEnter(t, name), Enter(t, step, locals), IsStepOf(t, step),
         step \in LockedSteps,
         step \in AtomicSteps => HaveMP
  PROVE  CallTypeOK' /\ LockInv'
<1> USE DEF FifoInv, TypeOK
<1>1. CallTypeOK'
  BY FifoAssumption DEF Enter, MayEnter, CallTypeOK, IsStepOf, Threads
<1>2. LockInv'
  BY FifoAssumption
  DEF Enter, MayEnter, CallTypeOK, LockInv, Threads, LockedSteps, DrainSteps
<1> QED BY <1>1, <1>2

-----------------------------------------------------------------------------
(* A step of a producer leaves consumers what they measured, and the other  *)
(* way round.                                                               *)

LEMMA ConsumersUndisturbed ==
  ASSUME FifoInv, head' \in Nat, head' >= head, tail' = tail, buffer' = buffer,
         \A c \in Consumers : pc'[c] = pc[c] /\ call'[c] = call[c]
  PROVE  \A c \in Consumers : GetInv(c)'
<1> SUFFICES ASSUME NEW c \in Consumers
             PROVE  GetInv(c)'
  OBVIOUS
<1>1. /\ call[c].size \in Nat /\ call[c].offset \in Nat
      /\ Len(buffer[c]) \in Nat
      /\ head \in Nat /\ tail \in Nat
  BY FifoAssumption DEF FifoInv, TypeOK, CallTypeOK, LocalsType, Threads, Offsets
<1>2. GetInv(c) /\ pc'[c] = pc[c] /\ call'[c] = call[c] /\ buffer'[c] = buffer[c]
  BY DEF FifoInv
<1>3. head' \in Nat /\ head' >= head /\ tail' = tail
  OBVIOUS
<1> DEFINE size == call[c].size
           offset == call[c].offset
           l == Len(buffer[c])
<1>4. /\ tail + size - l <= head => tail' + size - l <= head'
      /\ tail + size - l < head => tail' + size - l < head'
      /\ tail < head => tail' < head'
      /\ tail + offset + size <= head => tail' + offset + size <= head'
      /\ tail + size <= head => tail' + size <= head'
  <2>1. size \in Nat /\ offset \in Nat /\ l \in Nat /\ head \in Nat /\ tail \in Nat
    BY <1>1
  <2> HIDE DEF size, offset, l
  <2> QED BY ONLY <2>1, <1>3
<1> QED BY ONLY <1>2, <1>4 DEF GetInv

LEMMA ProducersUndisturbed ==
  ASSUME FifoInv, tail' \in Nat, tail' >= tail, head' = head,
         \A p \in Producers : pc'[p] = pc[p] /\ call'[p] = call[p]
  PROVE  \A p \in Producers : PutInv(p)'
<1> SUFFICES ASSUME NEW p \in Producers
             PROVE  PutInv(p)'
  OBVIOUS
<1>1. /\ call[p].size \in Nat /\ call[p].l \in Nat
      /\ head \in Nat /\ tail \in Nat /\ maxElements \in Nat
  BY FifoAssumption DEF FifoInv, TypeOK, CallTypeOK, LocalsType, Threads
<1>2. PutInv(p) /\ pc'[p] = pc[p] /\ call'[p] = call[p]
  BY DEF FifoInv
<1>3. tail' \in Nat /\ tail' >= tail /\ head' = head
  OBVIOUS
<1> QED BY ONLY <1>1, <1>2, <1>3 DEF PutInv

\* The types of what the steps of a thread read.
LEMMA Types ==
  ASSUME FifoInv
  PROVE  /\ head \in Nat /\ tail \in Nat /\ maxElements \in Nat /\ maxElements > 0
         /\ tail <= head /\ head - tail <= maxElements
         /\ \A t \in Threads :
              /\ call[t] \in LocalsType
              /\ call[t].arg \in Seq(Elements) /\ Len(call[t].arg) \in Nat
              /\ call[t].size \in Nat /\ call[t].l \in Nat
              /\ call[t].offset \in Nat /\ call[t].slot \in 0 .. maxElements - 1
         /\ \A c \in Consumers :
              /\ buffer[c] \in Seq(Elements \union {NoElement})
              /\ Len(buffer[c]) \in Nat
BY FifoAssumption
DEF FifoInv, TypeOK, CallTypeOK, LocalsType, Offsets, NoOverrun

-----------------------------------------------------------------------------
(* What is left to show of a step of a thread that returns, or that goes on *)
(* to another step of its call.                                             *)

LEMMA ProducerReturns ==
  ASSUME FifoInv, NEW p \in Producers, Return(p),
         \A q \in Producers : q # p => pc[q] = "idle",
         head' \in Nat, head' >= head, head' - tail <= maxElements,
         tail' = tail, buffer' = buffer,
         data' \in [0 .. maxElements - 1 -> Elements \union {NoElement}]
  PROVE  FifoInv'
<1>1. CallTypeOK' /\ LockInv'
  BY ReturnInv DEF Threads
<1>2. TypeOK' /\ NoOverrun'
  BY <1>1, Types DEF FifoInv, TypeOK, NoOverrun
<1>3. \A q \in Producers : PutInv(q)'
  BY DEF FifoInv, TypeOK, CallTypeOK, PutInv, Return, Threads
<1>4. \A c \in Consumers : GetInv(c)'
  BY ConsumersUndisturbed, FifoAssumption
  DEF FifoInv, TypeOK, CallTypeOK, Return, Threads
<1> QED BY <1>1, <1>2, <1>3, <1>4 DEF FifoInv

LEMMA ConsumerReturns ==
  ASSUME FifoInv, NEW c \in Consumers, Return(c),
         \A d \in Consumers : d # c => pc[d] = "idle",
         tail' \in Nat, tail' >= tail, tail' <= head,
         head' = head, data' = data,
         buffer' \in [Consumers -> Seq(Elements \union {NoElement})]
  PROVE  FifoInv'
<1>1. CallTypeOK' /\ LockInv'
  BY ReturnInv DEF Threads
<1>2. TypeOK' /\ NoOverrun'
  BY <1>1, Types DEF FifoInv, TypeOK, NoOverrun
<1>3. \A d \in Consumers : GetInv(d)'
  BY DEF FifoInv, TypeOK, CallTypeOK, GetInv, Return, Threads
<1>4. \A p \in Producers : PutInv(p)'
  BY ProducersUndisturbed, FifoAssumption
  DEF FifoInv, TypeOK, CallTypeOK, Return, Threads
<1> QED BY <1>1, <1>2, <1>3, <1>4 DEF FifoInv

OthersStay(t) ==
  \A u \in Threads : u # t => pc'[u] = pc[u] /\ call'[u] = call[u]

LEMMA ProducerGoesOn ==
  ASSUME FifoInv, NEW p \in Producers, OthersStay(p),
         CallTypeOK', LockInv', PutInv(p)',
         \A q \in Producers : q # p => pc[q] = "idle",
         head' \in Nat, head' >= head, head' - tail <= maxElements,
         tail' = tail, buffer' = buffer,
         data' \in [0 .. maxElements - 1 -> Elements \union {NoElement}]
  PROVE  FifoInv'
<1>1. TypeOK' /\ NoOverrun'
  BY Types DEF FifoInv, TypeOK, NoOverrun
<1>2. \A q \in Producers : PutInv(q)'
  BY DEF PutInv, OthersStay, Threads
<1>3. \A c \in Consumers : GetInv(c)'
  BY ConsumersUndisturbed, FifoAssumption
  DEF OthersStay, Threads
<1> QED BY <1>1, <1>2, <1>3 DEF FifoInv

LEMMA ConsumerGoesOn ==
  ASSUME FifoInv, NEW c \in Consumers, OthersStay(c),
         CallTypeOK', LockInv', GetInv(c)',
         \A d \in Consumers : d # c => pc[d] = "idle",
         tail' \in Nat, tail' >= tail, tail' <= head,
         head' = head, data' = data,
         buffer' \in [Consumers -> Seq(Elements \union {NoElement})]
  PROVE  FifoInv'
<1>1. TypeOK' /\ NoOverrun'
  BY Types DEF FifoInv, TypeOK, NoOverrun
<1>2. \A d \in Consumers : GetInv(d)'
  BY DEF GetInv, OthersStay, Threads
<1>3. \A p \in Producers : PutInv(p)'
  BY ProducersUndisturbed, FifoAssumption
  DEF OthersStay, Threads
<1> QED BY <1>1, <1>2, <1>3 DEF FifoInv

-----------------------------------------------------------------------------
(* The initial states, and one lemma per action. *)

LEMMA InitFifoInv == Init => FifoInv
BY FifoAssumption, SlotType
DEF Init, FifoInv, TypeOK, CallTypeOK, LocalsType, NoOverrun, LockInv, PutInv,
    GetInv, NoCall, Locals, Offsets, ProducerSteps, ConsumerSteps, LockedSteps,
    DrainSteps, AtomicSteps, Threads

LEMMA PutEnterInv ==
  ASSUME FifoInv, NEW p \in Producers, NEW elements \in Batches,
         PutEnter(p, elements)
  PROVE  FifoInv'
<1> USE DEF PutEnter
<1>1. \A q \in Producers : pc[q] = "idle"
  BY ProducerAlone
<1>2. CallTypeOK' /\ LockInv'
  <2>1. Locals(elements, 0, 0, 0, 0) \in LocalsType
    BY FifoAssumption DEF Locals, LocalsType, Offsets
  <2> QED BY <2>1, EnterInv, FifoAssumption
          DEF IsStepOf, ProducerSteps, LockedSteps, DrainSteps, AtomicSteps, Threads
<1>3. PutInv(p)'
  BY DEF FifoInv, TypeOK, CallTypeOK, PutInv, Enter, Threads
<1>4. OthersStay(p)
  BY DEF FifoInv, TypeOK, CallTypeOK, Enter, OthersStay
<1> QED BY <1>1, <1>2, <1>3, <1>4, ProducerGoesOn, Types DEF FifoInv, TypeOK

LEMMA PutSizeInv ==
  ASSUME FifoInv, NEW p \in Producers, PutSize(p)
  PROVE  FifoInv'
<1> DEFINE n == MIN(Len(call[p].arg), AvailableSize)
           locals == Locals(call[p].arg, n, 0, call[p].offset, 0)
<1> USE DEF PutSize
<1>1. pc[p] = "put_size" /\ p \in Threads
  BY DEF Threads
<1>2. \A q \in Producers : q # p => pc[q] = "idle"
  BY <1>1, OneProducer
<1>3. /\ n \in Int /\ n <= Len(call[p].arg)
      /\ n <= maxElements - (head - tail)
  BY <1>1, Types DEF MIN, AvailableSize, Length
<1>4. CASE n > 0
  <2>1. Goto(p, "put_copy") /\ call' = [call EXCEPT ![p] = locals]
    BY <1>4 DEF Begin
  <2>2. locals \in LocalsType
    BY <1>1, <1>3, <1>4, Types DEF Locals, LocalsType
  <2>3. CallTypeOK' /\ LockInv'
    <3>1. call' \in [Threads -> LocalsType]
      BY <2>1, <2>2 DEF FifoInv, TypeOK, CallTypeOK
    <3> QED BY <1>1, <2>1, <3>1, GotoInv, FifoAssumption
            DEF IsStepOf, ProducerSteps, LockedSteps, DrainSteps, AtomicSteps
  <2>4. call'[p] = locals /\ pc'[p] = "put_copy" /\ OthersStay(p)
    BY <1>1, <2>1 DEF FifoInv, TypeOK, CallTypeOK, Goto, OthersStay
  <2>5. PutInv(p)'
    <3>1. locals.l = 0 /\ locals.size = n /\ locals.arg = call[p].arg
      BY DEF Locals
    <3>2. head' = head /\ tail' = tail
      OBVIOUS
    <3> HIDE DEF n, locals
    <3> QED BY <1>3, <1>4, <2>4, <3>1, <3>2, Types DEF PutInv
  <2> QED BY <1>2, <2>3, <2>4, <2>5, ProducerGoesOn, Types DEF FifoInv, TypeOK
<1>5. CASE ~(n > 0)
  BY <1>2, <1>5, ProducerReturns, Types DEF Begin, FifoInv, TypeOK
<1> QED BY <1>4, <1>5

LEMMA PutCopyInv ==
  ASSUME FifoInv, NEW p \in Producers, PutCopy(p)
  PROVE  FifoInv'
<1> USE DEF PutCopy
<1>1. pc[p] = "put_copy" /\ p \in Threads
  BY DEF Threads
<1>2. \A q \in Producers : q # p => pc[q] = "idle"
  BY <1>1, OneProducer
<1>3. CallTypeOK' /\ LockInv'
  BY <1>1, GotoInv, FifoAssumption
  DEF IsStepOf, ProducerSteps, LockedSteps, DrainSteps, AtomicSteps, FifoInv,
      TypeOK, CallTypeOK
<1>4. data' \in [0 .. maxElements - 1 -> Elements \union {NoElement}]
  <2>1. call[p].l + 1 \in 1 .. Len(call[p].arg)
    <3>1. /\ call[p].l \in Nat /\ call[p].size \in Nat
          /\ Len(call[p].arg) \in Nat
      BY <1>1, Types
    <3>2. call[p].l < call[p].size /\ call[p].size <= Len(call[p].arg)
      BY <1>1 DEF FifoInv, PutInv
    <3> QED BY <3>1, <3>2
  <2>2. call[p].arg[call[p].l + 1] \in Elements
    BY <1>1, <2>1, Types
  <2> QED BY <2>2 DEF FifoInv, TypeOK
<1>5. PutInv(p)' /\ OthersStay(p)
  BY <1>1 DEF FifoInv, TypeOK, CallTypeOK, PutInv, Goto, OthersStay
<1> QED BY <1>2, <1>3, <1>4, <1>5, ProducerGoesOn, Types DEF FifoInv, TypeOK

LEMMA PutIncInv ==
  ASSUME FifoInv, NEW p \in Producers, PutInc(p)
  PROVE  FifoInv'
<1> DEFINE locals == Locals(call[p].arg, call[p].size, call[p].l + 1, 0, 0)
<1> USE DEF PutInc
<1>1. pc[p] = "put_inc" /\ p \in Threads
  BY DEF Threads
<1>2. \A q \in Producers : q # p => pc[q] = "idle"
  BY <1>1, OneProducer
<1>3. /\ head' \in Nat /\ head' = head + 1 /\ head' - tail <= maxElements
      /\ head' - tail + (call[p].size - (call[p].l + 1)) <= maxElements
      /\ call[p].size <= Len(call[p].arg)
  <2>1. /\ call[p].l \in Nat /\ call[p].size \in Nat
        /\ head \in Nat /\ tail \in Nat /\ maxElements \in Nat
    BY <1>1, Types
  <2>2. /\ call[p].l < call[p].size
        /\ call[p].size <= Len(call[p].arg)
        /\ head - tail + (call[p].size - call[p].l) <= maxElements
    BY <1>1 DEF FifoInv, PutInv
  <2> QED BY <2>1, <2>2
<1>4. CASE call[p].l + 1 < call[p].size
  <2>1. Goto(p, "put_copy") /\ call' = [call EXCEPT ![p] = locals]
    BY <1>4
  <2>2. locals \in LocalsType
    BY <1>1, Types DEF Locals, LocalsType, Offsets
  <2>3. CallTypeOK' /\ LockInv'
    <3>1. call' \in [Threads -> LocalsType]
      BY <2>1, <2>2 DEF FifoInv, TypeOK, CallTypeOK
    <3> QED BY <1>1, <2>1, <3>1, GotoInv, FifoAssumption
            DEF IsStepOf, ProducerSteps, LockedSteps, DrainSteps, AtomicSteps
  <2>4. call'[p] = locals /\ pc'[p] = "put_copy" /\ OthersStay(p)
    BY <1>1, <2>1 DEF FifoInv, TypeOK, CallTypeOK, Goto, OthersStay
  <2>5. PutInv(p)'
    <3>1. /\ locals.l = call[p].l + 1 /\ locals.size = call[p].size
          /\ locals.arg = call[p].arg
      BY DEF Locals
    <3>2. tail' = tail
      OBVIOUS
    <3> HIDE DEF locals
    <3> QED BY <1>1, <1>3, <1>4, <2>4, <3>1, <3>2, Types DEF PutInv
  <2> QED BY <1>2, <1>3, <2>3, <2>4, <2>5, ProducerGoesOn, Types
          DEF FifoInv, TypeOK
<1>5. CASE ~(call[p].l + 1 < call[p].size)
  BY <1>2, <1>3, <1>5, ProducerReturns, Types DEF FifoInv, TypeOK
<1> QED BY <1>4, <1>5

LEMMA PutAsAtomicEnterInv ==
  ASSUME FifoInv, NEW p \in Producers, NEW e \in Elements, PutAsAtomicEnter(p, e)
  PROVE  FifoInv'
<1> DEFINE locals == Locals(<<e>>, 0, 0, 0, Slot(head))
<1> USE DEF PutAsAtomicEnter
<1>1. \A q \in Producers : pc[q] = "idle"
  BY ProducerAlone
<1>2. locals \in LocalsType
  BY SlotType, Types DEF Locals, LocalsType, Offsets
<1>3. HaveMP
  BY FifoUsage DEF MayEnter, AtomicCalls
<1>4. CallTypeOK' /\ LockInv'
  BY <1>2, <1>3, EnterInv, FifoAssumption
  DEF IsStepOf, ProducerSteps, LockedSteps, DrainSteps, AtomicSteps, Threads
<1>5. head - tail < maxElements
  BY Types DEF IsFull, Length
<1>6. pc'[p] = "puta_inc" /\ call'[p] = locals /\ OthersStay(p)
  BY DEF FifoInv, TypeOK, CallTypeOK, Enter, OthersStay, Threads
<1>7. PutInv(p)'
  BY <1>5, <1>6 DEF PutInv, Locals
<1> QED BY <1>1, <1>4, <1>6, <1>7, ProducerGoesOn, Types DEF FifoInv, TypeOK

LEMMA PutAsAtomicIncInv ==
  ASSUME FifoInv, NEW p \in Producers, PutAsAtomicInc(p)
  PROVE  FifoInv'
<1> USE DEF PutAsAtomicInc
<1>1. pc[p] = "puta_inc" /\ p \in Threads
  BY DEF Threads
<1>2. \A q \in Producers : q # p => pc[q] = "idle"
  BY <1>1, OneProducer
<1>3. HaveMP
  BY <1>1 DEF FifoInv, LockInv, AtomicSteps
<1>4. CallTypeOK' /\ LockInv'
  BY <1>1, <1>3, GotoInv, FifoAssumption
  DEF IsStepOf, ProducerSteps, LockedSteps, DrainSteps, AtomicSteps, FifoInv,
      TypeOK, CallTypeOK
<1>5. PutInv(p)' /\ OthersStay(p)
  BY <1>1 DEF FifoInv, TypeOK, CallTypeOK, PutInv, Goto, OthersStay
<1>6. head - tail < maxElements
  BY <1>1 DEF FifoInv, PutInv
<1>7. head' \in Nat /\ head' >= head /\ head' - tail <= maxElements
  BY <1>6, Types
<1> QED BY <1>2, <1>4, <1>5, <1>7, ProducerGoesOn, Types DEF FifoInv, TypeOK

LEMMA PutAsAtomicStoreInv ==
  ASSUME FifoInv, NEW p \in Producers, PutAsAtomicStore(p)
  PROVE  FifoInv'
<1> USE DEF PutAsAtomicStore
<1>1. pc[p] = "puta_store" /\ p \in Threads
  BY DEF Threads
<1>2. \A q \in Producers : q # p => pc[q] = "idle"
  BY <1>1, OneProducer
<1>3. data' \in [0 .. maxElements - 1 -> Elements \union {NoElement}]
  <2>1. Len(call[p].arg) = 1 /\ call[p].arg \in Seq(Elements)
    BY <1>1, Types DEF FifoInv, PutInv
  <2>2. call[p].arg[1] \in Elements
    BY <2>1
  <2> QED BY <2>2 DEF FifoInv, TypeOK
<1> QED BY <1>2, <1>3, ProducerReturns, Types DEF FifoInv, TypeOK

LEMMA PutRefusedInv ==
  ASSUME FifoInv, NEW p \in Producers, PutRefused(p)
  PROVE  FifoInv'
<1>1. \A q \in Producers : pc[q] = "idle"
  BY ProducerAlone DEF PutRefused
<1> QED BY <1>1, ProducerReturns, Types DEF PutRefused, FifoInv, TypeOK

LEMMA GetEnterInv ==
  ASSUME FifoInv, NEW c \in Consumers, GetEnter(c)
  PROVE  FifoInv'
<1> USE DEF GetEnter
<1>1. \A d \in Consumers : pc[d] = "idle"
  BY ConsumerAlone DEF MayEnter
<1>2. CallTypeOK' /\ LockInv'
  <2>1. NoCall \in LocalsType
    BY FifoAssumption DEF NoCall, Locals, LocalsType, Offsets
  <2> QED BY <2>1, EnterInv, FifoAssumption
          DEF IsStepOf, ConsumerSteps, LockedSteps, DrainSteps, AtomicSteps, Threads
<1>3. GetInv(c)' /\ OthersStay(c)
  BY DEF FifoInv, TypeOK, CallTypeOK, GetInv, Enter, OthersStay, Threads
<1> QED BY <1>1, <1>2, <1>3, ConsumerGoesOn, Types DEF FifoInv, TypeOK

LEMMA GetSizeInv ==
  ASSUME FifoInv, NEW c \in Consumers, NEW size \in Sizes, GetSize(c, size)
  PROVE  FifoInv'
<1> DEFINE n == MIN(size, Length)
           locals == Locals(call[c].arg, n, 0, call[c].offset, 0)
<1> USE DEF GetSize
<1>1. pc[c] = "get_size" /\ c \in Threads
  BY DEF Threads
<1>2. \A d \in Consumers : d # c => pc[d] = "idle"
  BY <1>1, OneConsumer
<1>3. n \in Int /\ n <= head - tail
  BY Types DEF MIN, Length, Sizes
<1>4. CASE n > 0
  <2>1. Goto(c, "get_copy") /\ call' = [call EXCEPT ![c] = locals]
    BY <1>4 DEF Begin
  <2>2. locals \in LocalsType
    BY <1>1, <1>3, <1>4, Types DEF Locals, LocalsType
  <2>3. CallTypeOK' /\ LockInv'
    <3>1. call' \in [Threads -> LocalsType]
      BY <2>1, <2>2 DEF FifoInv, TypeOK, CallTypeOK
    <3> QED BY <1>1, <2>1, <3>1, GotoInv, FifoAssumption
            DEF IsStepOf, ConsumerSteps, LockedSteps, DrainSteps, AtomicSteps
  <2>4. call'[c] = locals /\ pc'[c] = "get_copy" /\ OthersStay(c)
    BY <1>1, <2>1 DEF FifoInv, TypeOK, CallTypeOK, Goto, OthersStay
  <2>5. buffer[c] = <<>>
    BY <1>1 DEF FifoInv, GetInv
  <2>6. GetInv(c)'
    <3>1. locals.size = n
      BY DEF Locals
    <3>2. head' = head /\ tail' = tail /\ Len(buffer'[c]) = 0
      BY <2>5
    <3>3. head \in Nat /\ tail \in Nat
      BY Types
    <3> HIDE DEF n, locals
    <3> QED BY ONLY <1>3, <1>4, <2>4, <3>1, <3>2, <3>3 DEF GetInv
  <2>7. /\ head' = head /\ data' = data /\ tail' = tail
        /\ tail \in Nat /\ tail <= head
        /\ buffer' \in [Consumers -> Seq(Elements \union {NoElement})]
    BY Types DEF FifoInv, TypeOK
  <2> QED BY <1>2, <2>3, <2>4, <2>6, <2>7, ConsumerGoesOn
<1>5. CASE ~(n > 0)
  <2>1. Return(c)
    BY <1>5 DEF Begin
  <2> QED BY <1>2, <2>1, ConsumerReturns, Types DEF FifoInv, TypeOK
<1> QED BY <1>4, <1>5

LEMMA GetCopyInv ==
  ASSUME FifoInv, NEW c \in Consumers, GetCopy(c)
  PROVE  FifoInv'
<1> USE DEF GetCopy
<1>1. pc[c] = "get_copy" /\ c \in Threads
  BY DEF Threads
<1>2. \A d \in Consumers : d # c => pc[d] = "idle"
  BY <1>1, OneConsumer
<1>3. CallTypeOK' /\ LockInv'
  BY <1>1, GotoInv, FifoAssumption
  DEF IsStepOf, ConsumerSteps, LockedSteps, DrainSteps, AtomicSteps, FifoInv,
      TypeOK, CallTypeOK
<1>4. data[Slot(tail)] \in Elements \union {NoElement}
  BY SlotType, Types DEF FifoInv, TypeOK
<1>5. buffer' \in [Consumers -> Seq(Elements \union {NoElement})]
  BY <1>4, Types DEF FifoInv, TypeOK
<1>6. Len(buffer'[c]) = Len(buffer[c]) + 1
  BY <1>4, Types DEF FifoInv, TypeOK
<1>7. pc'[c] = "get_inc" /\ call'[c] = call[c] /\ OthersStay(c)
  BY <1>1 DEF FifoInv, TypeOK, CallTypeOK, Goto, OthersStay
<1>8. GetInv(c)'
  <2>1. /\ Len(buffer[c]) < call[c].size
        /\ tail + call[c].size - Len(buffer[c]) <= head
    BY <1>1 DEF FifoInv, GetInv
  <2>2. /\ Len(buffer[c]) \in Nat /\ call[c].size \in Nat
        /\ tail \in Nat /\ head \in Nat /\ tail' = tail /\ head' = head
    BY <1>1, Types
  <2> QED BY ONLY <1>6, <1>7, <2>1, <2>2 DEF GetInv
<1>9. head' = head /\ data' = data /\ tail' = tail /\ tail \in Nat /\ tail <= head
  BY Types
<1> QED BY <1>2, <1>3, <1>5, <1>7, <1>8, <1>9, ConsumerGoesOn

LEMMA GetIncInv ==
  ASSUME FifoInv, NEW c \in Consumers, GetInc(c)
  PROVE  FifoInv'
<1> USE DEF GetInc
<1>1. pc[c] = "get_inc" /\ c \in Threads
  BY DEF Threads
<1>2. \A d \in Consumers : d # c => pc[d] = "idle"
  BY <1>1, OneConsumer
<1>3. /\ Len(buffer[c]) <= call[c].size
      /\ tail + call[c].size - Len(buffer[c]) < head
  BY <1>1 DEF FifoInv, GetInv
<1>4. /\ Len(buffer[c]) \in Nat /\ call[c].size \in Nat
      /\ tail \in Nat /\ head \in Nat
      /\ tail' = tail + 1 /\ head' = head /\ data' = data /\ buffer' = buffer
  BY <1>1, Types
<1>5. /\ tail' \in Nat /\ tail' >= tail /\ tail' <= head
      /\ buffer' \in [Consumers -> Seq(Elements \union {NoElement})]
  BY <1>3, <1>4 DEF FifoInv, TypeOK
<1>6. CASE Len(buffer[c]) < call[c].size
  <2>1. Goto(c, "get_copy") /\ call' = call
    BY <1>6
  <2>2. CallTypeOK' /\ LockInv'
    BY <1>1, <2>1, GotoInv, FifoAssumption
    DEF IsStepOf, ConsumerSteps, LockedSteps, DrainSteps, AtomicSteps, FifoInv,
        TypeOK, CallTypeOK
  <2>3. pc'[c] = "get_copy" /\ call'[c] = call[c] /\ OthersStay(c)
    BY <1>1, <2>1 DEF FifoInv, TypeOK, CallTypeOK, Goto, OthersStay
  <2>4. GetInv(c)'
    BY ONLY <1>3, <1>4, <1>6, <2>3 DEF GetInv
  <2> QED BY <1>2, <1>4, <1>5, <2>2, <2>3, <2>4, ConsumerGoesOn
<1>7. CASE ~(Len(buffer[c]) < call[c].size)
  BY <1>2, <1>4, <1>5, <1>7, ConsumerReturns
<1> QED BY <1>6, <1>7

LEMMA GetAsAtomicEnterInv ==
  ASSUME FifoInv, NEW c \in Consumers, GetAsAtomicEnter(c)
  PROVE  FifoInv'
<1> DEFINE locals == Locals(<<>>, 0, 0, 0, Slot(tail))
<1> USE DEF GetAsAtomicEnter
<1>1. \A d \in Consumers : pc[d] = "idle"
  BY ConsumerAlone DEF MayEnter
<1>2. locals \in LocalsType
  BY SlotType, Types DEF Locals, LocalsType, Offsets
<1>3. HaveMP
  BY FifoUsage DEF MayEnter, AtomicCalls
<1>4. CallTypeOK' /\ LockInv'
  BY <1>2, <1>3, EnterInv, FifoAssumption
  DEF IsStepOf, ConsumerSteps, LockedSteps, DrainSteps, AtomicSteps, Threads
<1>5. tail < head
  BY Types DEF IsEmpty, Length
<1>6. pc'[c] = "geta_inc" /\ OthersStay(c)
  BY DEF FifoInv, TypeOK, CallTypeOK, Enter, OthersStay, Threads
<1>7. GetInv(c)'
  BY <1>5, <1>6 DEF GetInv
<1>8. /\ head' = head /\ data' = data /\ tail' = tail
      /\ tail \in Nat /\ tail <= head
      /\ buffer' \in [Consumers -> Seq(Elements \union {NoElement})]
  BY Types DEF FifoInv, TypeOK
<1> QED BY <1>1, <1>4, <1>6, <1>7, <1>8, ConsumerGoesOn

LEMMA GetAsAtomicIncInv ==
  ASSUME FifoInv, NEW c \in Consumers, GetAsAtomicInc(c)
  PROVE  FifoInv'
<1> USE DEF GetAsAtomicInc
<1>1. pc[c] = "geta_inc" /\ c \in Threads
  BY DEF Threads
<1>2. \A d \in Consumers : d # c => pc[d] = "idle"
  BY <1>1, OneConsumer
<1>3. HaveMP
  BY <1>1 DEF FifoInv, LockInv, AtomicSteps
<1>4. CallTypeOK' /\ LockInv'
  BY <1>1, <1>3, GotoInv, FifoAssumption
  DEF IsStepOf, ConsumerSteps, LockedSteps, DrainSteps, AtomicSteps, FifoInv,
      TypeOK, CallTypeOK
<1>5. pc'[c] = "geta_load" /\ OthersStay(c)
  BY <1>1 DEF FifoInv, TypeOK, CallTypeOK, Goto, OthersStay
<1>6. GetInv(c)'
  BY <1>5 DEF GetInv
<1>7. tail < head
  BY <1>1 DEF FifoInv, GetInv
<1>8. /\ tail' \in Nat /\ tail' >= tail /\ tail' <= head
      /\ head' = head /\ data' = data
      /\ buffer' \in [Consumers -> Seq(Elements \union {NoElement})]
  BY <1>7, Types DEF FifoInv, TypeOK
<1> QED BY <1>2, <1>4, <1>5, <1>6, <1>8, ConsumerGoesOn

LEMMA GetAsAtomicLoadInv ==
  ASSUME FifoInv, NEW c \in Consumers, GetAsAtomicLoad(c)
  PROVE  FifoInv'
<1> USE DEF GetAsAtomicLoad
<1>1. pc[c] = "geta_load" /\ c \in Threads
  BY DEF Threads
<1>2. \A d \in Consumers : d # c => pc[d] = "idle"
  BY <1>1, OneConsumer
<1>3. buffer' \in [Consumers -> Seq(Elements \union {NoElement})]
  <2>1. data[call[c].slot] \in Elements \union {NoElement}
    BY <1>1, Types DEF FifoInv, TypeOK
  <2> QED BY <2>1 DEF FifoInv, TypeOK
<1> QED BY <1>2, <1>3, ConsumerReturns, Types

LEMMA PeekEnterInv ==
  ASSUME FifoInv, NEW c \in Consumers, NEW offset \in Offsets,
         PeekEnter(c, offset)
  PROVE  FifoInv'
<1> DEFINE locals == Locals(<<>>, 0, 0, offset, 0)
<1> USE DEF PeekEnter
<1>1. \A d \in Consumers : pc[d] = "idle"
  BY ConsumerAlone DEF MayEnter
<1>2. CallTypeOK' /\ LockInv'
  <2>1. locals \in LocalsType
    BY FifoAssumption DEF Locals, LocalsType
  <2> QED BY <2>1, EnterInv, FifoAssumption
          DEF IsStepOf, ConsumerSteps, LockedSteps, DrainSteps, AtomicSteps, Threads
<1>3. GetInv(c)' /\ OthersStay(c)
  BY DEF FifoInv, TypeOK, CallTypeOK, GetInv, Enter, OthersStay, Threads
<1>4. /\ head' = head /\ data' = data /\ tail' = tail
      /\ tail \in Nat /\ tail <= head
      /\ buffer' \in [Consumers -> Seq(Elements \union {NoElement})]
  BY Types DEF FifoInv, TypeOK
<1> QED BY <1>1, <1>2, <1>3, <1>4, ConsumerGoesOn

LEMMA PeekSizeInv ==
  ASSUME FifoInv, NEW c \in Consumers, NEW size \in Sizes, PeekSize(c, size)
  PROVE  FifoInv'
<1> DEFINE n == MIN(size, Length - call[c].offset)
           locals == Locals(call[c].arg, n, 0, call[c].offset, 0)
<1> USE DEF PeekSize
<1>1. pc[c] = "peek_size" /\ c \in Threads
  BY DEF Threads
<1>2. \A d \in Consumers : d # c => pc[d] = "idle"
  BY <1>1, OneConsumer
<1>3. n \in Int /\ n <= head - tail - call[c].offset /\ call[c].offset \in Nat
  <2>1. /\ call[c].offset \in Nat /\ head \in Nat /\ tail \in Nat
        /\ tail <= head /\ maxElements \in Nat
    BY <1>1, Types
  <2> QED BY <2>1 DEF MIN, Length, Sizes
<1>4. /\ head' = head /\ data' = data /\ tail' = tail
      /\ tail \in Nat /\ head \in Nat /\ tail <= head
      /\ buffer' = buffer
      /\ buffer' \in [Consumers -> Seq(Elements \union {NoElement})]
  BY Types DEF FifoInv, TypeOK
<1>5. CASE n > 0
  <2>1. Goto(c, "peek_copy") /\ call' = [call EXCEPT ![c] = locals]
    BY <1>5 DEF Begin
  <2>2. locals \in LocalsType
    <3>1. call[c] \in LocalsType
      BY <1>1, Types
    <3> QED BY <1>3, <1>5, <3>1, Types DEF Locals, LocalsType
  <2>3. CallTypeOK' /\ LockInv'
    <3>1. call' \in [Threads -> LocalsType]
      BY <2>1, <2>2 DEF FifoInv, TypeOK, CallTypeOK
    <3> QED BY <1>1, <2>1, <3>1, GotoInv, FifoAssumption
            DEF IsStepOf, ConsumerSteps, LockedSteps, DrainSteps, AtomicSteps
  <2>4. call'[c] = locals /\ pc'[c] = "peek_copy" /\ OthersStay(c)
    BY <1>1, <2>1 DEF FifoInv, TypeOK, CallTypeOK, Goto, OthersStay
  <2>5. Len(buffer'[c]) = 0
    BY <1>1, <1>4 DEF FifoInv, GetInv
  <2>6. GetInv(c)'
    <3>1. locals.size = n /\ locals.offset = call[c].offset
      BY DEF Locals
    <3> HIDE DEF n, locals
    <3> QED BY ONLY <1>3, <1>4, <1>5, <2>4, <2>5, <3>1 DEF GetInv
  <2> QED BY <1>2, <1>4, <2>3, <2>4, <2>6, ConsumerGoesOn
<1>6. CASE ~(n > 0)
  <2>1. Return(c)
    BY <1>6 DEF Begin
  <2> QED BY <1>2, <1>4, <2>1, ConsumerReturns
<1> QED BY <1>5, <1>6

LEMMA PeekAsAtomicEnterInv ==
  ASSUME FifoInv, NEW c \in Consumers, NEW offset \in Offsets,
         PeekAsAtomicEnter(c, offset)
  PROVE  FifoInv'
<1> DEFINE locals == Locals(<<>>, 1, 0, offset, 0)
<1> USE DEF PeekAsAtomicEnter
<1>1. \A d \in Consumers : pc[d] = "idle"
  BY ConsumerAlone DEF MayEnter
<1>2. CallTypeOK' /\ LockInv'
  <2>1. locals \in LocalsType
    BY FifoAssumption DEF Locals, LocalsType
  <2> QED BY <2>1, EnterInv, FifoAssumption
          DEF IsStepOf, ConsumerSteps, LockedSteps, DrainSteps, AtomicSteps, Threads
<1>3. HaveMP
  BY FifoUsage DEF MayEnter, AtomicCalls
<1>4. /\ pc'[c] = "peek_copy" /\ call'[c] = locals /\ OthersStay(c)
      /\ buffer'[c] = <<>>
  BY DEF FifoInv, TypeOK, CallTypeOK, Enter, OthersStay, Threads
<1>5. GetInv(c)'
  BY <1>3, <1>4 DEF GetInv, Locals
<1>6. /\ head' = head /\ data' = data /\ tail' = tail
      /\ tail \in Nat /\ tail <= head
      /\ buffer' \in [Consumers -> Seq(Elements \union {NoElement})]
  BY Types DEF FifoInv, TypeOK
<1> QED BY <1>1, <1>2, <1>4, <1>5, <1>6, ConsumerGoesOn

LEMMA PeekCopyInv ==
  ASSUME FifoInv, NEW c \in Consumers, PeekCopy(c)
  PROVE  FifoInv'
<1> USE DEF PeekCopy
<1>1. pc[c] = "peek_copy" /\ c \in Threads
  BY DEF Threads
<1>2. \A d \in Consumers : d # c => pc[d] = "idle"
  BY <1>1, OneConsumer
<1>3. CallTypeOK' /\ LockInv' /\ OthersStay(c)
  BY DEF FifoInv, TypeOK, CallTypeOK, LockInv, OthersStay
<1> DEFINE e == data[Slot(tail + call[c].offset + Len(buffer[c]))]
<1>4. e \in Elements \union {NoElement}
  <2>1. tail + call[c].offset + Len(buffer[c]) \in Nat
    BY <1>1, Types
  <2> QED BY <2>1, SlotType DEF FifoInv, TypeOK
<1>5. /\ buffer' = [buffer EXCEPT ![c] = Append(@, e)]
      /\ buffer' \in [Consumers -> Seq(Elements \union {NoElement})]
      /\ Len(buffer'[c]) = Len(buffer[c]) + 1
  BY <1>4, Types DEF FifoInv, TypeOK
<1>6. GetInv(c)'
  <2>1. Len(buffer[c]) \in Nat /\ call[c].size \in Nat
    BY <1>1, Types
  <2>2. GetInv(c) /\ Len(buffer[c]) < call[c].size
    BY DEF FifoInv
  <2>3. head' = head /\ tail' = tail /\ call'[c] = call[c] /\ pc'[c] = pc[c]
    OBVIOUS
  <2> QED BY ONLY <1>1, <1>5, <2>1, <2>2, <2>3 DEF GetInv
<1>7. head' = head /\ data' = data /\ tail' = tail /\ tail \in Nat /\ tail <= head
  BY Types
<1> QED BY <1>2, <1>3, <1>5, <1>6, <1>7, ConsumerGoesOn

LEMMA PeekReturnInv ==
  ASSUME FifoInv, NEW c \in Consumers, PeekReturn(c)
  PROVE  FifoInv'
<1> USE DEF PeekReturn
<1>1. \A d \in Consumers : d # c => pc[d] = "idle"
  BY OneConsumer
<1> QED BY <1>1, ConsumerReturns, Types DEF FifoInv, TypeOK

LEMMA GetRefusedInv ==
  ASSUME FifoInv, NEW c \in Consumers, GetRefused(c)
  PROVE  FifoInv'
<1> USE DEF GetRefused
<1>1. \A d \in Consumers : d # c => pc[d] = "idle"
  BY ConsumerAlone DEF MayEnter
<1> QED BY <1>1, ConsumerReturns, Types DEF FifoInv, TypeOK

LEMMA DrainEnterInv ==
  ASSUME FifoInv, NEW c \in Consumers, DrainEnter(c)
  PROVE  FifoInv'
<1> USE DEF DrainEnter
<1>1. \A d \in Consumers : pc[d] = "idle"
  BY ConsumerAlone
<1>2. CallTypeOK' /\ LockInv'
  BY GotoInv, FifoAssumption
  DEF IsStepOf, ConsumerSteps, LockedSteps, DrainSteps, AtomicSteps, FifoInv,
      TypeOK, CallTypeOK, Threads
<1>3. GetInv(c)' /\ OthersStay(c)
  BY DEF FifoInv, TypeOK, CallTypeOK, GetInv, Goto, OthersStay, Threads
<1> QED BY <1>1, <1>2, <1>3, ConsumerGoesOn, Types DEF FifoInv, TypeOK

LEMMA DrainSizeInv ==
  ASSUME FifoInv, NEW c \in Consumers, NEW size \in Sizes, DrainSize(c, size)
  PROVE  FifoInv'
<1> DEFINE n == MIN(size, Length)
           locals == Locals(<<>>, n, 0, 0, 0)
<1> USE DEF DrainSize
<1>1. pc[c] = "drain_size" /\ c \in Threads
  BY DEF Threads
<1>2. \A d \in Consumers : d # c => pc[d] = "idle"
  BY <1>1, OneConsumer
<1>3. n \in Nat /\ n <= head - tail
  BY Types DEF MIN, Length, Sizes
<1>4. CallTypeOK' /\ LockInv'
  <2>1. locals \in LocalsType
    BY <1>3, FifoAssumption DEF Locals, LocalsType, Offsets
  <2>2. call' \in [Threads -> LocalsType]
    BY <2>1 DEF FifoInv, TypeOK, CallTypeOK
  <2>3. "Drain" \in Calls
    BY <1>1 DEF FifoInv, LockInv, DrainSteps
  <2> QED BY <1>1, <2>2, <2>3, GotoInv, FifoAssumption
          DEF IsStepOf, ConsumerSteps, LockedSteps, DrainSteps, AtomicSteps
<1>5. call'[c] = locals /\ pc'[c] = "drain_add" /\ OthersStay(c)
  BY <1>1 DEF FifoInv, TypeOK, CallTypeOK, Goto, OthersStay
<1>6. /\ head' = head /\ data' = data /\ tail' = tail
      /\ tail \in Nat /\ head \in Nat /\ tail <= head
      /\ buffer' \in [Consumers -> Seq(Elements \union {NoElement})]
  BY Types DEF FifoInv, TypeOK
<1>7. GetInv(c)'
  <2>1. locals.size = n
    BY DEF Locals
  <2> HIDE DEF n, locals
  <2> QED BY ONLY <1>3, <1>5, <1>6, <2>1 DEF GetInv
<1> QED BY <1>2, <1>4, <1>5, <1>6, <1>7, ConsumerGoesOn

LEMMA DrainAddInv ==
  ASSUME FifoInv, NEW c \in Consumers, DrainAdd(c)
  PROVE  FifoInv'
<1> USE DEF DrainAdd
<1>1. pc[c] = "drain_add" /\ c \in Threads
  BY DEF Threads
<1>2. \A d \in Consumers : d # c => pc[d] = "idle"
  BY <1>1, OneConsumer
<1>3. tail' \in Nat /\ tail' >= tail /\ tail' <= head
  <2>1. tail \in Nat /\ call[c].size \in Nat
    BY <1>1, Types
  <2>2. tail + call[c].size <= head
    BY <1>1 DEF FifoInv, GetInv
  <2> QED BY <2>1, <2>2
<1> QED BY <1>2, <1>3, ConsumerReturns DEF FifoInv, TypeOK

LEMMA ResetInv ==
  ASSUME FifoInv, Reset
  PROVE  FifoInv'
BY FifoAssumption
DEF Reset, Quiet, FifoInv, TypeOK, CallTypeOK, NoOverrun, LockInv, PutInv, GetInv, Threads

-----------------------------------------------------------------------------
(* The inductive invariant holds. *)

LEMMA NextFifoInv ==
  ASSUME FifoInv, [Next]_vars
  PROVE  FifoInv'
<1>1. CASE \E p \in Producers : ProducerNext(p)
  BY <1>1, PutEnterInv, PutAsAtomicEnterInv, PutRefusedInv, PutSizeInv,
     PutCopyInv, PutIncInv, PutAsAtomicIncInv, PutAsAtomicStoreInv
  DEF ProducerNext
<1>2. CASE \E c \in Consumers : ConsumerNext(c)
  BY <1>2, GetEnterInv, GetAsAtomicEnterInv, DrainEnterInv, PeekEnterInv,
     PeekAsAtomicEnterInv, GetRefusedInv, GetSizeInv, PeekSizeInv, DrainSizeInv,
     GetCopyInv, GetIncInv, GetAsAtomicIncInv, GetAsAtomicLoadInv, PeekCopyInv,
     PeekReturnInv, DrainAddInv
  DEF ConsumerNext
<1>3. CASE Reset
  BY <1>3, ResetInv
<1>4. CASE UNCHANGED vars
  BY <1>4
  DEF vars, FifoInv, TypeOK, CallTypeOK, NoOverrun, LockInv, PutInv, GetInv
<1> QED BY <1>1, <1>2, <1>3, <1>4 DEF Next

(* The invariant the other theorems follow from: whatever the threads are   *)
(* doing, what each call in progress measured of the fifo is still there.   *)
THEOREM FifoInvariant == Spec => []FifoInv
<1>1. Init => FifoInv
  BY InitFifoInv
<1>2. FifoInv /\ [Next]_vars => FifoInv'
  BY NextFifoInv
<1> QED BY <1>1, <1>2, PTL DEF Spec

(* The counters and the locals of the calls keep their types: in particular *)
(* every slot number lies inside the array of slots.                        *)
THEOREM FifoTypeOK == Spec => []TypeOK
<1>1. FifoInv => TypeOK
  BY DEF FifoInv
<1> QED BY <1>1, FifoInvariant, PTL

(* The counters never cross and are never more than the slots apart, for    *)
(* any number of threads, slots and puts, the unlocked drain included.      *)
THEOREM FifoNoOverrun == Spec => []NoOverrun
<1>1. FifoInv => NoOverrun
  BY DEF FifoInv
<1> QED BY <1>1, FifoInvariant, PTL

-----------------------------------------------------------------------------
(* No slot is copied by two threads at once. *)

LEMMA InvNoSlotRace ==
  ASSUME FifoInv
  PROVE  NoSlotRace
<1> SUFFICES ASSUME NEW p \in Producers, NEW t \in Threads, t # p,
                    Writes(p) # {}
             PROVE  Writes(p) \intersect (Writes(t) \union Reads(t)) = {}
  BY DEF NoSlotRace
<1>1. pc[p] \in {"put_copy", "puta_store"} /\ p \in Threads
  BY DEF Writes, Threads
<1>2. CASE t \in Producers
  <2>1. pc[t] = "idle"
    BY <1>1, <1>2, OneProducer
  <2> QED BY <2>1 DEF Writes, Reads
<1>3. CASE t \in Consumers /\ HaveMP
  <2>1. lock = p
    BY <1>1, <1>3
    DEF FifoInv, LockInv, LockedSteps, ProducerSteps, DrainSteps
  <2>2. pc[t] \notin LockedSteps
    BY <1>1, <1>3, <2>1 DEF FifoInv, LockInv
  <2> QED BY <1>3, <2>2
          DEF Writes, Reads, LockedSteps, ProducerSteps, ConsumerSteps, DrainSteps
<1>4. CASE t \in Consumers /\ ~HaveMP
  <2>1. pc[p] = "put_copy" /\ head - tail < maxElements
    <3>1. pc[p] = "put_copy"
      BY <1>1, <1>4 DEF FifoInv, LockInv, AtomicSteps
    <3>2. /\ call[p].l < call[p].size
          /\ head - tail + (call[p].size - call[p].l) <= maxElements
      BY <3>1 DEF FifoInv, PutInv
    <3>3. call[p].l \in Nat /\ call[p].size \in Nat /\ head \in Nat /\ tail \in Nat
          /\ maxElements \in Nat
      BY <1>1, Types
    <3> QED BY <3>1, <3>2, <3>3
  <2>2. pc[t] \in ConsumerSteps \ {"geta_inc", "geta_load"}
    BY <1>4 DEF FifoInv, LockInv, AtomicSteps, TypeOK, CallTypeOK
  <2>3. Writes(p) = {Slot(head)} /\ Writes(t) = {}
    BY <2>1, <2>2 DEF Writes, ConsumerSteps
  <2>4. head \in Nat /\ tail \in Nat /\ maxElements \in Nat
    BY Types
  <2>5. \A n \in Nat : tail <= n /\ n < head => Slot(n) # Slot(head)
    BY <2>1, <2>4, SlotsDistinct
  <2>6. CASE pc[t] = "get_copy"
    <3>1. tail < head
      <4>1. /\ Len(buffer[t]) < call[t].size
            /\ tail + call[t].size - Len(buffer[t]) <= head
        BY <1>4, <2>6 DEF FifoInv, GetInv
      <4>2. Len(buffer[t]) \in Nat /\ call[t].size \in Nat
        BY <1>4, Types
      <4> QED BY <2>4, <4>1, <4>2
    <3> QED BY <2>3, <2>4, <2>5, <2>6, <3>1 DEF Reads
  <2>7. CASE pc[t] = "peek_copy" /\ Len(buffer[t]) < call[t].size
    <3> DEFINE n == tail + call[t].offset + Len(buffer[t])
    <3>1. n \in Nat /\ tail <= n /\ n < head
      <4> DEFINE l == Len(buffer[t])
                 size == call[t].size
                 offset == call[t].offset
      <4>1. tail + offset + size <= head
        BY <1>4, <2>7 DEF FifoInv, GetInv
      <4>2. l \in Nat /\ size \in Nat /\ offset \in Nat
        BY <1>4, Types
      <4>3. l < size
        BY <2>7
      <4> HIDE DEF l, size, offset
      <4>4. /\ tail + offset + l \in Nat
            /\ tail <= tail + offset + l
            /\ tail + offset + l < head
        BY <2>4, <4>1, <4>2, <4>3
      <4> QED BY <4>4 DEF l, offset
    <3> QED BY <2>3, <2>5, <2>7, <3>1 DEF Reads
  <2>8. CASE ~(pc[t] = "get_copy") /\ ~(pc[t] = "peek_copy" /\ Len(buffer[t]) < call[t].size)
    BY <2>2, <2>3, <2>8 DEF Reads
  <2> QED BY <2>6, <2>7, <2>8
<1> QED BY <1>2, <1>3, <1>4 DEF Threads

(* No slot is written while another thread copies it, with the lock or,     *)
(* between one producer and one consumer, without.                          *)
THEOREM FifoNoSlotRace == Spec => []NoSlotRace
<1>1. FifoInv => NoSlotRace
  BY InvNoSlotRace
<1> QED BY <1>1, FifoInvariant, PTL
=============================================================================
