-------------------------- MODULE FifoQueueProofs --------------------------
(***************************************************************************)
(* The fifo is a bounded queue, for any number of threads, slots and puts: *)
(* Fifo implements BoundedQueue, and a peek sees what waits, although the  *)
(* AsAtomic calls move the counters before they touch the slots.           *)
(*                                                                         *)
(* FifoInv says where the counters are; DataInv, which rests on it, says   *)
(* what the calls in progress know of the slots.                           *)
(***************************************************************************)
EXTENDS FifoProofs, SequenceTheorems

-----------------------------------------------------------------------------
(* A step is the step of one thread. *)

\* What a producer does leaves the other threads' calls alone, and the other
\* producers are outside of theirs.
LEMMA ProducerSteps1 ==
  ASSUME FifoInv, NEW p \in Producers, ProducerNext(p)
  PROVE  /\ \A u \in Threads \ {p} : pc'[u] = pc[u] /\ call'[u] = call[u]
         /\ \A q \in Producers \ {p} : pc[q] = "idle" /\ pc'[q] = "idle"
         /\ UNCHANGED <<tail, buffer>>
<1>1. p \in Threads /\ Producers \subseteq Threads BY DEF Threads
<1>2. UNCHANGED <<tail, buffer>>
  BY DEF ProducerNext, PutEnter, PutAsAtomicEnter, PutRefused, PutSize, PutCopy, PutInc,
         PutAsAtomicInc, PutAsAtomicStore
<1>3. \A u \in Threads \ {p} : pc'[u] = pc[u] /\ call'[u] = call[u]
  BY <1>1 DEF ProducerNext, PutEnter, PutAsAtomicEnter, PutRefused, PutSize, PutCopy,
         PutInc, PutAsAtomicInc, PutAsAtomicStore, Enter, Goto, Return, Begin, FifoInv,
         TypeOK, CallTypeOK
<1>4. \A q \in Producers \ {p} : pc[q] = "idle"
  <2>1. CASE pc[p] # "idle" BY <2>1, OneProducer
  <2>2. CASE pc[p] = "idle"
    <3>1. \E name : MayEnter(p, name)
      BY <2>2 DEF ProducerNext, PutEnter, PutAsAtomicEnter, PutRefused, PutSize, PutCopy,
         PutInc, PutAsAtomicInc, PutAsAtomicStore
    <3> QED BY <3>1, ProducerAlone
  <2> QED BY <2>1, <2>2
<1> QED BY <1>1, <1>2, <1>3, <1>4

LEMMA ConsumerSteps1 ==
  ASSUME FifoInv, NEW c \in Consumers, ConsumerNext(c)
  PROVE  /\ \A u \in Threads \ {c} : pc'[u] = pc[u] /\ call'[u] = call[u]
         /\ \A d \in Consumers \ {c} : pc[d] = "idle" /\ pc'[d] = "idle"
         /\ \A d \in Consumers \ {c} : buffer'[d] = buffer[d]
         /\ UNCHANGED <<head, data>>
<1> USE DEF ConsumerNext, GetEnter, GetAsAtomicEnter, DrainEnter, PeekEnter,
            PeekAsAtomicEnter, GetRefused, GetSize, PeekSize, DrainSize, GetCopy,
            GetInc, GetAsAtomicInc, GetAsAtomicLoad, PeekCopy, PeekReturn, DrainAdd
<1>1. c \in Threads /\ Consumers \subseteq Threads BY DEF Threads
<1>2. UNCHANGED <<head, data>> OBVIOUS
<1>3. \A u \in Threads \ {c} : pc'[u] = pc[u] /\ call'[u] = call[u]
  BY <1>1 DEF Enter, Goto, Return, Begin, FifoInv, TypeOK, CallTypeOK
<1>4. \A d \in Consumers \ {c} : pc[d] = "idle"
  <2>1. CASE pc[c] # "idle" BY <2>1, OneConsumer
  <2>2. CASE pc[c] = "idle"
    <3>1. "Drain" \in Calls \/ (HaveMP => lock = NoThread) BY <2>2 DEF MayEnter
    <3> QED BY <2>2, <3>1, ConsumerAlone
  <2> QED BY <2>1, <2>2
<1>5. \A d \in Consumers \ {c} : buffer'[d] = buffer[d] BY DEF FifoInv, TypeOK
<1> QED BY <1>1, <1>2, <1>3, <1>4, <1>5

\* With the lock, who holds it is alone but for a drain.
LEMMA LockExcludes ==
  ASSUME FifoInv, HaveMP, NEW t \in Threads, pc[t] \in LockedSteps,
         NEW u \in Threads, u # t
  PROVE  pc[u] \in DrainSteps \union {"idle"}
BY DEF FifoInv, LockInv, TypeOK, CallTypeOK, LockedSteps, ProducerSteps, ConsumerSteps

-----------------------------------------------------------------------------
(* The invariant about the slots. *)

LEMMA InitDataInv == Init => DataInv
BY DEF Init, DataInv, PutData, GetData, Threads

\* The slot a put writes is not among those between tail and head.
LEMMA FreeSlot ==
  ASSUME FifoInv, head - tail < maxElements,
         NEW n \in Nat, tail <= n, n < head
  PROVE  Slot(n) # Slot(head)
BY Types, SlotsDistinct

\* The room of a put that has measured it.
LEMMA RoomLeft ==
  ASSUME FifoInv, NEW p \in Producers,
         pc[p] \in {"put_copy", "put_inc", "puta_inc"}
  PROVE  head - tail < maxElements
<1>1. call[p].l \in Nat /\ call[p].size \in Nat BY Types DEF Threads
<1> QED BY <1>1, Types DEF FifoInv, PutInv

LEMMA PutDataNext ==
  ASSUME FifoInv, DataInv, NEW p \in Producers, ProducerNext(p)
  PROVE  \A q \in Producers : PutData(q)'
<1>1. \A q \in Producers \ {p} : PutData(q)' BY ProducerSteps1 DEF PutData
<1>2. PutData(p)'
  <2> p \in Threads BY DEF Threads
  <2>1. ASSUME NEW elements \in Batches, PutEnter(p, elements) PROVE PutData(p)'
    BY <2>1 DEF PutEnter, Enter, PutData, FifoInv, TypeOK, CallTypeOK
  <2>2. ASSUME NEW e \in Elements, PutAsAtomicEnter(p, e) PROVE PutData(p)'
    BY <2>2 DEF PutAsAtomicEnter, Enter, Locals, PutData, FifoInv, TypeOK, CallTypeOK
  <2>3. CASE PutRefused(p)
    BY <2>3 DEF PutRefused, Return, PutData, FifoInv, TypeOK, CallTypeOK
  <2>4. CASE PutSize(p)
    BY <2>4 DEF PutSize, Begin, Goto, Return, PutData, FifoInv, TypeOK, CallTypeOK
  <2>5. CASE PutCopy(p)
    <3>1. Slot(head) \in 0 .. maxElements - 1 BY SlotType DEF FifoInv, TypeOK
    <3> QED BY <2>5, <3>1 DEF PutCopy, Goto, PutData, FifoInv, TypeOK, CallTypeOK
  <2>6. CASE PutInc(p)
    BY <2>6 DEF PutInc, Goto, Return, PutData, FifoInv, TypeOK, CallTypeOK
  <2>7. CASE PutAsAtomicInc(p)
    <3>1. pc'[p] = "puta_store" /\ call' = call /\ head' = head + 1
      BY <2>7 DEF PutAsAtomicInc, Goto, FifoInv, TypeOK, CallTypeOK
    <3>2. call[p].slot = Slot(head) BY <2>7 DEF PutAsAtomicInc, DataInv, PutData
    <3>3. head' - 1 = head /\ head' > 0 BY <3>1, Types
    <3>4. Slot(head' - 1) = Slot(head) BY <3>3
    <3> QED BY <3>1, <3>2, <3>3, <3>4 DEF PutData
  <2>8. CASE PutAsAtomicStore(p)
    BY <2>8 DEF PutAsAtomicStore, Return, PutData, FifoInv, TypeOK, CallTypeOK
  <2> QED BY <2>1, <2>2, <2>3, <2>4, <2>5, <2>6, <2>7, <2>8 DEF ProducerNext
<1> QED BY <1>1, <1>2

\* A producer does not write what a consumer relies on.
LEMMA GetDataKept ==
  ASSUME FifoInv, DataInv, NEW p \in Producers, ProducerNext(p)
  PROVE  \A c \in Consumers : GetData(c)'
<1> SUFFICES ASSUME NEW c \in Consumers PROVE GetData(c)'
  OBVIOUS
<1>0. c \in Threads /\ p \in Threads /\ c # p BY FifoAssumption DEF Threads
<1>1. /\ pc'[c] = pc[c] /\ call'[c] = call[c] /\ buffer'[c] = buffer[c] /\ tail' = tail
  BY <1>0, ProducerSteps1
<1>2. CASE UNCHANGED data BY <1>1, <1>2 DEF DataInv, GetData
<1>3. CASE HaveMP /\ pc[p] \in LockedSteps
  <2>1. pc[c] \in DrainSteps \union {"idle"} BY <1>0, <1>3, LockExcludes
  <2> QED BY <1>1, <2>1 DEF GetData, DrainSteps
<1>4. CASE PutCopy(p) /\ ~HaveMP
  <2> DEFINE x == call[p].arg[call[p].l + 1]
  <2>1. data' = [data EXCEPT ![Slot(head)] = x] /\ head - tail < maxElements
    BY <1>4, RoomLeft DEF PutCopy
  <2>2. ASSUME NEW n \in Nat, tail <= n, n < head PROVE data'[Slot(n)] = data[Slot(n)]
    BY <2>1, <2>2, FreeSlot, SlotType DEF FifoInv, TypeOK
  <2>3. CASE pc[c] = "get_inc"
    <3>1. tail < head
      <4>1. /\ Len(buffer[c]) <= call[c].size
            /\ tail + call[c].size - Len(buffer[c]) < head
        BY <2>3 DEF FifoInv, GetInv
      <4> QED BY <1>0, <4>1, Types
    <3>2. data'[Slot(tail)] = data[Slot(tail)] BY <2>2, <3>1, Types
    <3> QED BY <1>1, <2>3, <3>2 DEF DataInv, GetData
  <2>4. CASE pc[c] = "geta_inc" BY <1>0, <1>4, <2>4 DEF FifoInv, LockInv, AtomicSteps
  <2>5. CASE pc[c] = "peek_copy"
    <3>1. ASSUME NEW i \in 1 .. Len(buffer[c])
          PROVE  buffer[c][i] = data'[Slot(tail + call[c].offset + i - 1)]
      <4> DEFINE n == tail + call[c].offset + i - 1
      <4>1. tail + call[c].offset + call[c].size <= head /\ Len(buffer[c]) <= call[c].size
        BY <1>4, <2>5 DEF FifoInv, GetInv
      <4>2. /\ call[c].offset \in Nat /\ call[c].size \in Nat /\ Len(buffer[c]) \in Nat
            /\ tail \in Nat /\ head \in Nat
        BY <1>0, Types
      <4>3. n \in Nat /\ tail <= n /\ n < head
        <5> DEFINE o == call[c].offset
                   size == call[c].size
                   l == Len(buffer[c])
        <5>1. /\ o \in Nat /\ size \in Nat /\ l \in Nat /\ i \in 1 .. l
              /\ tail + o + size <= head /\ l <= size
          BY <4>1, <4>2
        <5> HIDE DEF o, size, l
        <5>2. /\ tail + o + i - 1 \in Nat /\ tail <= tail + o + i - 1
              /\ tail + o + i - 1 < head
          BY <4>2, <5>1
        <5> QED BY <5>2 DEF o
      <4>4. buffer[c][i] = data[Slot(n)] BY <2>5 DEF DataInv, GetData
      <4> QED BY <2>2, <4>3, <4>4
    <3> QED BY <1>1, <2>5, <3>1 DEF GetData
  <2>6. CASE pc[c] \notin {"get_inc", "geta_inc", "peek_copy"} BY <1>1, <2>6 DEF GetData
  <2> QED BY <2>3, <2>4, <2>5, <2>6
<1>5. PutAsAtomicStore(p) => HaveMP
  BY <1>0 DEF PutAsAtomicStore, FifoInv, LockInv, AtomicSteps
<1>6. PutCopy(p) \/ PutAsAtomicStore(p) => pc[p] \in LockedSteps
  BY DEF PutCopy, PutAsAtomicStore, LockedSteps, ProducerSteps, DrainSteps
<1>7. PutCopy(p) \/ PutAsAtomicStore(p) \/ UNCHANGED data
  BY DEF ProducerNext, PutEnter, PutAsAtomicEnter, PutRefused, PutSize, PutInc,
         PutAsAtomicInc
<1> QED BY <1>2, <1>3, <1>4, <1>5, <1>6, <1>7

LEMMA ConsumerDataNext ==
  ASSUME FifoInv, DataInv, NEW c \in Consumers, ConsumerNext(c)
  PROVE  DataInv'
<1>0. c \in Threads /\ Producers \subseteq Threads \ {c} BY FifoAssumption DEF Threads
<1>1. \A p \in Producers : PutData(p)'
  <2> SUFFICES ASSUME NEW p \in Producers PROVE PutData(p)'
    OBVIOUS
  <2>1. pc'[p] = pc[p] /\ call'[p] = call[p] /\ UNCHANGED <<head, data>>
    BY <1>0, ConsumerSteps1
  <2> QED BY <2>1 DEF DataInv, PutData
<1>2. \A d \in Consumers \ {c} : GetData(d)' BY ConsumerSteps1 DEF GetData
<1>3. GetData(c)'
  <2> USE <1>0 DEF FifoInv, TypeOK, CallTypeOK
  <2>1. CASE GetEnter(c) BY <2>1 DEF GetEnter, Enter, GetData
  <2>2. CASE GetAsAtomicEnter(c) BY <2>2 DEF GetAsAtomicEnter, Enter, Locals, GetData
  <2>3. CASE DrainEnter(c) BY <2>3 DEF DrainEnter, Goto, GetData
  <2>4. ASSUME NEW offset \in Offsets, PeekEnter(c, offset) PROVE GetData(c)'
    BY <2>4 DEF PeekEnter, Enter, GetData
  <2>5. ASSUME NEW offset \in Offsets, PeekAsAtomicEnter(c, offset) PROVE GetData(c)'
    BY <2>5 DEF PeekAsAtomicEnter, Enter, Locals, GetData
  <2>6. CASE GetRefused(c) BY <2>6 DEF GetRefused, Return, GetData
  <2>7. ASSUME NEW size \in Sizes, GetSize(c, size) PROVE GetData(c)'
    BY <2>7 DEF GetSize, Begin, Goto, Return, GetData
  <2>8. ASSUME NEW size \in Sizes, PeekSize(c, size) PROVE GetData(c)'
    BY <2>8 DEF PeekSize, Begin, Goto, Return, GetData, GetInv
  <2>9. ASSUME NEW size \in Sizes, DrainSize(c, size) PROVE GetData(c)'
    BY <2>9 DEF DrainSize, Goto, GetData
  <2>10. CASE GetCopy(c)
    <3>1. /\ pc'[c] = "get_inc" /\ buffer'[c] = Append(buffer[c], data[Slot(tail)])
          /\ UNCHANGED <<tail, data>>
      BY <2>10 DEF GetCopy, Goto
    <3>2. /\ buffer'[c] # <<>> /\ buffer'[c][Len(buffer'[c])] = data[Slot(tail)]
      <4> DEFINE b == buffer[c]
                 x == data[Slot(tail)]
      <4>1. b \in Seq(Elements \union {NoElement}) BY Types
      <4>2. x \in Elements \union {NoElement} BY Types, SlotType DEF FifoInv, TypeOK
      <4> HIDE DEF b, x
      <4>3. /\ Append(b, x) # <<>> /\ Len(Append(b, x)) = Len(b) + 1
            /\ Append(b, x)[Len(b) + 1] = x
        BY ONLY <4>1, <4>2, AppendProperties
      <4> QED BY <3>1, <4>3 DEF b, x
    <3> QED BY <3>1, <3>2 DEF GetData
  <2>11. CASE GetInc(c) BY <2>11 DEF GetInc, Goto, Return, GetData
  <2>12. CASE GetAsAtomicInc(c) BY <2>12 DEF GetAsAtomicInc, Goto, GetData
  <2>13. CASE GetAsAtomicLoad(c) BY <2>13 DEF GetAsAtomicLoad, Return, GetData
  <2>14. CASE PeekCopy(c)
    <3> DEFINE b == buffer[c]
               o == call[c].offset
               x == data[Slot(tail + o + Len(b))]
    <3>1. /\ pc[c] = "peek_copy" /\ pc'[c] = pc[c] /\ call' = call
          /\ UNCHANGED <<tail, data>> /\ buffer'[c] = Append(b, x)
      BY <2>14 DEF PeekCopy
    <3>2. \A i \in 1 .. Len(b) : b[i] = data[Slot(tail + o + i - 1)]
      BY <3>1 DEF DataInv, GetData
    <3>3. b \in Seq(Elements \union {NoElement}) /\ o \in Nat /\ tail \in Nat
      BY Types
    <3> HIDE DEF b, x
    <3>4. ASSUME NEW i \in 1 .. Len(Append(b, x))
          PROVE  Append(b, x)[i] = data[Slot(tail + o + i - 1)]
      <4>1. CASE i = Len(b) + 1
        <5>1. tail + o + i - 1 = tail + o + Len(b) BY <3>3, <4>1
        <5> QED BY <3>3, <4>1, <5>1 DEF x
      <4>2. CASE i \in 1 .. Len(b) BY <3>2, <3>3, <4>2
      <4> QED BY <3>3, <4>1, <4>2
    <3> QED BY <3>1, <3>4 DEF GetData
  <2>15. CASE PeekReturn(c) BY <2>15 DEF PeekReturn, Return, GetData
  <2>16. CASE DrainAdd(c) BY <2>16 DEF DrainAdd, Return, GetData
  <2> QED BY <2>1, <2>2, <2>3, <2>4, <2>5, <2>6, <2>7, <2>8, <2>9, <2>10, <2>11, <2>12,
             <2>13, <2>14, <2>15, <2>16 DEF ConsumerNext
<1> QED BY <1>1, <1>2, <1>3 DEF DataInv

LEMMA NextDataInv ==
  ASSUME FifoInv, DataInv, [Next]_vars
  PROVE  DataInv'
<1>1. ASSUME NEW p \in Producers, ProducerNext(p) PROVE DataInv'
  BY <1>1, PutDataNext, GetDataKept DEF DataInv
<1>2. ASSUME NEW c \in Consumers, ConsumerNext(c) PROVE DataInv'
  BY <1>2, ConsumerDataNext
<1>3. CASE Reset BY <1>3 DEF Reset, Quiet, DataInv, PutData, GetData, Threads
<1>4. CASE UNCHANGED vars BY <1>4 DEF vars, DataInv, PutData, GetData
<1> QED BY <1>1, <1>2, <1>3, <1>4 DEF Next

LEMMA DataInvariant == Spec => []DataInv
<1>1. Init => DataInv BY InitDataInv
<1>2. FifoInv /\ DataInv /\ [Next]_vars => DataInv' BY NextDataInv
<1> QED BY <1>1, <1>2, FifoInvariant, PTL DEF Spec

-----------------------------------------------------------------------------
(* What waits in the fifo, with a store in progress and without. *)

\* A put that advanced head and has not stored yet is the only one.
LEMMA OneStores ==
  ASSUME FifoInv, NEW p \in Producers, pc[p] = "puta_store"
  PROVE  /\ \A q \in Producers : pc[q] = "puta_store" <=> q = p
         /\ (CHOOSE q \in Producers : pc[q] = "puta_store") = p
         /\ HaveMP
<1>1. \A q \in Producers : pc[q] = "puta_store" <=> q = p BY OneProducer
<1>2. HaveMP BY DEF FifoInv, LockInv, AtomicSteps, Threads
<1> QED BY <1>1, <1>2

LEMMA WindowStored ==
  ASSUME \A p \in Producers : pc[p] # "puta_store"
  PROVE  Window = [i \in 1 .. head - tail |-> data[Slot(tail + i - 1)]]
BY DEF Window

LEMMA WindowStoredNext ==
  ASSUME \A p \in Producers : pc'[p] # "puta_store"
  PROVE  Window' = [i \in 1 .. head' - tail' |-> data'[Slot(tail' + i - 1)]]
BY DEF Window

LEMMA WindowStoring ==
  ASSUME NEW p \in Producers, \A q \in Producers : pc[q] = "puta_store" <=> q = p
  PROVE  Window = [i \in 1 .. head - tail |-> IF i = head - tail THEN call[p].arg[1]
                                              ELSE data[Slot(tail + i - 1)]]
<1>1. (CHOOSE q \in Producers : pc[q] = "puta_store") = p OBVIOUS
<1>2. \E q \in Producers : pc[q] = "puta_store" OBVIOUS
<1> QED BY <1>1, <1>2 DEF Window

LEMMA WindowStoringNext ==
  ASSUME NEW p \in Producers, \A q \in Producers : pc'[q] = "puta_store" <=> q = p
  PROVE  Window' = [i \in 1 .. head' - tail' |->
                      IF i = head' - tail' THEN call'[p].arg[1]
                      ELSE data'[Slot(tail' + i - 1)]]
<1>1. (CHOOSE q \in Producers : pc'[q] = "puta_store") = p OBVIOUS
<1>2. \E q \in Producers : pc'[q] = "puta_store" OBVIOUS
<1> QED BY <1>1, <1>2 DEF Window

\* Steps that leave the counters, the slots in between and the stores alone.
LEMMA SameWindow ==
  ASSUME FifoInv, UNCHANGED <<head, tail, data>>,
         \A p \in Producers : /\ (pc'[p] = "puta_store") = (pc[p] = "puta_store")
                              /\ pc[p] = "puta_store" => call'[p].arg = call[p].arg
  PROVE  Window' = Window
<1>1. CASE \A p \in Producers : pc[p] # "puta_store"
  BY <1>1, WindowStored, WindowStoredNext
<1>2. ASSUME NEW p \in Producers, pc[p] = "puta_store" PROVE Window' = Window
  <2>1. \A q \in Producers : pc[q] = "puta_store" <=> q = p BY <1>2, OneStores
  <2>2. \A q \in Producers : pc'[q] = "puta_store" <=> q = p BY <2>1
  <2>3. call'[p].arg = call[p].arg BY <1>2
  <2>4. Window = [i \in 1 .. head - tail |-> IF i = head - tail THEN call[p].arg[1]
                                               ELSE data[Slot(tail + i - 1)]]
    BY <2>1, WindowStoring
  <2>5. Window' = [i \in 1 .. head' - tail' |-> IF i = head' - tail' THEN call'[p].arg[1]
                                                 ELSE data'[Slot(tail' + i - 1)]]
    BY <2>2, WindowStoringNext
  <2> QED BY <2>3, <2>4, <2>5
<1> QED BY <1>1, <1>2

\* Nothing is taken by a step that leaves the consumers alone.
LEMMA SameTaken ==
  ASSUME \A c \in Consumers :
           /\ pc'[c] = pc[c] /\ call'[c] = call[c] /\ buffer'[c] = buffer[c]
           /\ pc[c] = "geta_load" => data'[call[c].slot] = data[call[c].slot]
  PROVE  Taken' = Taken
BY DEF Taken

LEMMA ProducerTakesNone ==
  ASSUME FifoInv, NEW p \in Producers, ProducerNext(p)
  PROVE  Taken' = Taken
<1> SUFFICES ASSUME NEW c \in Consumers
             PROVE  /\ pc'[c] = pc[c] /\ call'[c] = call[c] /\ buffer'[c] = buffer[c]
                    /\ pc[c] = "geta_load" => UNCHANGED data
  BY SameTaken
<1>1. c \in Threads /\ p \in Threads /\ c # p BY FifoAssumption DEF Threads
<1>2. pc[c] = "geta_load" => HaveMP BY <1>1 DEF FifoInv, LockInv, AtomicSteps
<1>3. PutCopy(p) \/ PutAsAtomicStore(p) => pc[p] \in LockedSteps
  BY DEF PutCopy, PutAsAtomicStore, LockedSteps, ProducerSteps, DrainSteps
<1>4. PutCopy(p) \/ PutAsAtomicStore(p) \/ UNCHANGED data
  BY DEF ProducerNext, PutEnter, PutAsAtomicEnter, PutRefused, PutSize, PutInc,
         PutAsAtomicInc
<1>5. pc[c] = "geta_load" => UNCHANGED data
  BY <1>1, <1>2, <1>3, <1>4, LockExcludes DEF DrainSteps
<1> QED BY <1>1, <1>5, ProducerSteps1

-----------------------------------------------------------------------------
(* The steps of a producer. *)

\* What a put stores becomes the last that waits as head passes it.
LEMMA PutIncEnqueues ==
  ASSUME FifoInv, DataInv, NEW p \in Producers, PutInc(p)
  PROVE  \E e \in Elements : Queue!Enqueue(e)
<1> DEFINE e == data[Slot(head)]
<1>0. p \in Threads /\ pc[p] = "put_inc" BY DEF PutInc, Threads
<1>1. ProducerNext(p) BY DEF ProducerNext
<1>2. head' = head + 1 /\ UNCHANGED <<tail, data>> BY DEF PutInc
<1>3. \A q \in Producers : pc[q] # "puta_store" /\ pc'[q] # "puta_store"
  BY <1>0, <1>1, ProducerSteps1 DEF PutInc, Goto, Return, FifoInv, TypeOK, CallTypeOK
<1>4. e \in Elements
  <2>1. /\ call[p].l \in Nat /\ call[p].size \in Nat /\ Len(call[p].arg) \in Nat
        /\ call[p].arg \in Seq(Elements)
    BY <1>0, Types
  <2>2. call[p].l < call[p].size /\ call[p].size <= Len(call[p].arg)
    BY <1>0 DEF FifoInv, PutInv
  <2>3. call[p].l + 1 \in 1 .. Len(call[p].arg) BY <2>1, <2>2
  <2>4. e = call[p].arg[call[p].l + 1] BY <1>0 DEF DataInv, PutData
  <2> QED BY <2>1, <2>3, <2>4
<1>5. head \in Nat /\ tail \in Nat /\ tail <= head /\ head - tail < maxElements
  BY <1>0, RoomLeft, Types
<1>6. Window = [i \in 1 .. head - tail |-> data[Slot(tail + i - 1)]]
  BY <1>3, WindowStored
<1>7. Window' = [i \in 1 .. head + 1 - tail |-> data[Slot(tail + i - 1)]]
  <2>1. Window' = [i \in 1 .. head' - tail' |-> data'[Slot(tail' + i - 1)]]
    BY <1>3, WindowStoredNext
  <2>2. head' - tail' = head + 1 - tail /\ tail' = tail /\ data' = data BY <1>2, <1>5
  <2> QED BY <2>1, <2>2
<1>8. Window' = Append(Window, e) BY <1>5, <1>6, <1>7
<1>9. Len(Window) < maxElements BY <1>5, <1>6
<1> QED BY <1>1, <1>4, <1>8, <1>9, ProducerTakesNone DEF Queue!Enqueue

\* What an AsAtomic put is about to store is taken as stored.
LEMMA PutAsAtomicIncEnqueues ==
  ASSUME FifoInv, DataInv, NEW p \in Producers, PutAsAtomicInc(p)
  PROVE  \E e \in Elements : Queue!Enqueue(e)
<1> DEFINE e == call[p].arg[1]
<1>0. p \in Threads /\ pc[p] = "puta_inc" BY DEF PutAsAtomicInc, Threads
<1>1. ProducerNext(p) BY DEF ProducerNext
<1>2. head' = head + 1 /\ UNCHANGED <<tail, data, call>> BY DEF PutAsAtomicInc
<1>3. \A q \in Producers : pc[q] # "puta_store" BY <1>0, <1>1, ProducerSteps1
<1>4. \A q \in Producers : pc'[q] = "puta_store" <=> q = p
  BY <1>0, <1>1, ProducerSteps1 DEF PutAsAtomicInc, Goto, FifoInv, TypeOK, CallTypeOK
<1>5. e \in Elements
  <2>1. Len(call[p].arg) = 1 BY <1>0 DEF FifoInv, PutInv
  <2> QED BY <1>0, <2>1, Types
<1>6. head \in Nat /\ tail \in Nat /\ tail <= head /\ head - tail < maxElements
  BY <1>0, RoomLeft, Types
<1>7. Window = [i \in 1 .. head - tail |-> data[Slot(tail + i - 1)]]
  BY <1>3, WindowStored
<1>8. Window' = [i \in 1 .. head + 1 - tail |->
                   IF i = head + 1 - tail THEN e ELSE data[Slot(tail + i - 1)]]
  <2>1. Window' = [i \in 1 .. head' - tail' |-> IF i = head' - tail' THEN call'[p].arg[1]
                                                 ELSE data'[Slot(tail' + i - 1)]]
    BY <1>4, WindowStoringNext
  <2>2. /\ head' - tail' = head + 1 - tail /\ tail' = tail /\ data' = data
        /\ call'[p].arg[1] = e
    BY <1>2, <1>6
  <2> HIDE DEF e
  <2> QED BY <2>1, <2>2
<1>9. Window' = Append(Window, e) BY <1>6, <1>7, <1>8
<1>10. Len(Window) < maxElements BY <1>6, <1>7
<1> QED BY <1>1, <1>5, <1>9, <1>10, ProducerTakesNone DEF Queue!Enqueue

\* The store itself changes nothing more.
LEMMA StoreKeepsWindow ==
  ASSUME FifoInv, DataInv, NEW p \in Producers, PutAsAtomicStore(p)
  PROVE  Window' = Window
<1>0. p \in Threads /\ pc[p] = "puta_store" BY DEF PutAsAtomicStore, Threads
<1>1. ProducerNext(p) BY DEF ProducerNext
<1>2. data' = [data EXCEPT ![Slot(head - 1)] = call[p].arg[1]]
  BY <1>0 DEF PutAsAtomicStore, DataInv, PutData
<1>3. UNCHANGED <<head, tail>> BY DEF PutAsAtomicStore
<1>4. \A q \in Producers : pc[q] = "puta_store" <=> q = p BY <1>0, OneStores
<1>5. \A q \in Producers : pc'[q] # "puta_store"
  <2>1. pc'[p] = "idle"
    BY <1>0 DEF PutAsAtomicStore, Return, FifoInv, TypeOK, CallTypeOK
  <2>2. \A q \in Producers \ {p} : pc'[q] = "idle" BY <1>1, ProducerSteps1
  <2> QED BY <2>1, <2>2
<1>6. /\ head \in Nat /\ tail \in Nat /\ tail <= head /\ head - tail <= maxElements
      /\ head > 0
  BY <1>0, Types DEF DataInv, PutData
<1>7. ASSUME NEW i \in 1 .. head - tail
      PROVE  data'[Slot(tail + i - 1)] = IF i = head - tail THEN call[p].arg[1]
                                         ELSE data[Slot(tail + i - 1)]
  <2>1. Slot(head - 1) \in 0 .. maxElements - 1 /\ Slot(tail + i - 1) \in 0 .. maxElements - 1
    BY <1>6, SlotType
  <2>2. CASE i = head - tail
    <3>1. tail + i - 1 = head - 1 BY <1>6, <2>2
    <3> QED BY <1>2, <2>1, <2>2, <3>1 DEF FifoInv, TypeOK
  <2>3. CASE i # head - tail
    <3>1. Slot(tail + i - 1) # Slot(head - 1)
      <4>1. /\ tail + i - 1 \in Nat /\ head - 1 \in Nat /\ tail + i - 1 < head - 1
            /\ head - 1 - (tail + i - 1) < maxElements
        BY <1>6, <2>3, Types
      <4> QED BY <4>1, SlotsDistinct
    <3> QED BY <1>2, <2>1, <2>3, <3>1 DEF FifoInv, TypeOK
  <2> QED BY <2>2, <2>3
<1>8. Window = [i \in 1 .. head - tail |-> IF i = head - tail THEN call[p].arg[1]
                                           ELSE data[Slot(tail + i - 1)]]
  BY <1>4, WindowStoring
<1>9. Window' = [i \in 1 .. head - tail |-> data'[Slot(tail + i - 1)]]
  BY <1>3, <1>5, WindowStoredNext
<1> QED BY <1>7, <1>8, <1>9

\* A copy goes to a slot that nothing waits in.
LEMMA CopyKeepsWindow ==
  ASSUME FifoInv, NEW p \in Producers, PutCopy(p)
  PROVE  Window' = Window
<1>0. p \in Threads /\ pc[p] = "put_copy" BY DEF PutCopy, Threads
<1>1. ProducerNext(p) BY DEF ProducerNext
<1>2. UNCHANGED <<head, tail>> BY DEF PutCopy
<1>3. \A q \in Producers : pc[q] # "puta_store" /\ pc'[q] # "puta_store"
  BY <1>0, <1>1, ProducerSteps1 DEF PutCopy, Goto, FifoInv, TypeOK, CallTypeOK
<1>4. head \in Nat /\ tail \in Nat /\ tail <= head /\ head - tail < maxElements
  BY <1>0, RoomLeft, Types
<1>5. ASSUME NEW i \in 1 .. head - tail
      PROVE  data'[Slot(tail + i - 1)] = data[Slot(tail + i - 1)]
  <2>1. tail + i - 1 \in Nat /\ tail <= tail + i - 1 /\ tail + i - 1 < head BY <1>4
  <2>2. Slot(tail + i - 1) # Slot(head) BY <1>4, <2>1, FreeSlot
  <2> QED BY <2>1, <2>2, SlotType DEF PutCopy, FifoInv, TypeOK
<1>6. Window = [i \in 1 .. head - tail |-> data[Slot(tail + i - 1)]]
  BY <1>3, WindowStored
<1>7. Window' = [i \in 1 .. head - tail |-> data'[Slot(tail + i - 1)]]
  BY <1>2, <1>3, WindowStoredNext
<1> QED BY <1>5, <1>6, <1>7

LEMMA ProducerRefines ==
  ASSUME FifoInv, DataInv, NEW p \in Producers, ProducerNext(p)
  PROVE  [Queue!Next]_Queue!vars
<1>0. p \in Threads BY DEF Threads
<1>1. Taken' = Taken BY ProducerTakesNone
<1>2. ASSUME Window' = Window PROVE [Queue!Next]_Queue!vars
  BY <1>1, <1>2 DEF Queue!vars
<1>3. CASE PutInc(p) BY <1>3, PutIncEnqueues DEF Queue!Next
<1>4. CASE PutAsAtomicInc(p) BY <1>4, PutAsAtomicIncEnqueues DEF Queue!Next
<1>5. CASE PutAsAtomicStore(p) BY <1>2, <1>5, StoreKeepsWindow
<1>6. CASE PutCopy(p) BY <1>2, <1>6, CopyKeepsWindow
<1>7. CASE \/ \E elements \in Batches : PutEnter(p, elements)
           \/ \E e \in Elements : PutAsAtomicEnter(p, e)
           \/ PutRefused(p) \/ PutSize(p)
  <2>1. UNCHANGED <<head, tail, data>> /\ pc[p] # "puta_store" /\ pc'[p] # "puta_store"
    BY <1>0, <1>7 DEF PutEnter, PutAsAtomicEnter, PutRefused, PutSize, MayEnter, Enter,
         Begin, Goto, Return, FifoInv, TypeOK, CallTypeOK
  <2>2. \A q \in Producers : pc[q] # "puta_store" /\ pc'[q] # "puta_store"
    BY <2>1, ProducerSteps1
  <2> QED BY <1>2, <2>1, <2>2, SameWindow
<1> QED BY <1>3, <1>4, <1>5, <1>6, <1>7 DEF ProducerNext

-----------------------------------------------------------------------------
(* The steps of a consumer. *)

\* What consumer c takes is its own affair.
LEMMA OthersTakeNone ==
  ASSUME FifoInv, NEW c \in Consumers, ConsumerNext(c)
  PROVE  /\ \A d \in Consumers \ {c} : Taken'[d] = Taken[d]
         /\ \A s : Taken'[c] = s => Taken' = [Taken EXCEPT ![c] = s]
<1>1. \A d \in Consumers \ {c} : Taken'[d] = Taken[d] BY ConsumerSteps1 DEF Taken, Threads
<1>2. Taken = [d \in Consumers |-> Taken[d]] /\ Taken' = [d \in Consumers |-> Taken'[d]]
  BY DEF Taken
<1> QED BY <1>1, <1>2

\* A consumer does not disturb the producers.
LEMMA ConsumerKeepsStores ==
  ASSUME FifoInv, NEW c \in Consumers, ConsumerNext(c), NEW p \in Producers
  PROVE  pc'[p] = pc[p] /\ call'[p] = call[p]
BY FifoAssumption, ConsumerSteps1 DEF Threads

\* A consumer that holds the lock meets no store in progress, nor one without it.
LEMMA NoStore ==
  ASSUME FifoInv, NEW c \in Consumers, pc[c] \in LockedSteps, NEW p \in Producers
  PROVE  pc[p] # "puta_store"
<1>1. c \in Threads /\ p \in Threads /\ c # p BY FifoAssumption DEF Threads
<1>2. CASE HaveMP BY <1>1, <1>2, LockExcludes DEF DrainSteps
<1>3. CASE ~HaveMP BY <1>1, <1>3 DEF FifoInv, LockInv, AtomicSteps
<1> QED BY <1>2, <1>3

\* What is left of a sequence without its first k elements.
LEMMA DropFirst ==
  ASSUME NEW V, NEW n \in Nat, NEW k \in 0 .. n,
         NEW s \in [1 .. n -> V], NEW t \in [1 .. n - k -> V],
         \A i \in 1 .. n - k : t[i] = s[i + k]
  PROVE  s \in Seq(V) /\ Len(s) = n /\ t = SubSeq(s, k + 1, n)
<1>1. s \in Seq(V) /\ Len(s) = n BY SeqDef, LenProperties
<1>2. t \in Seq(V) /\ Len(t) = n - k
  <2>1. n - k \in Nat OBVIOUS
  <2> QED BY <2>1, SeqDef, LenProperties
<1> DEFINE u == SubSeq(s, k + 1, n)
<1>3. /\ u \in Seq(V) /\ Len(u) = (IF k + 1 <= n THEN n - (k + 1) + 1 ELSE 0)
      /\ \A i \in 1 .. n - (k + 1) + 1 : u[i] = s[k + 1 + i - 1]
  <2>1. k + 1 \in Int /\ n \in Int OBVIOUS
  <2>2. \A m \in Int, l \in Int : (\A i \in m .. l : s[i] \in V) =>
          /\ SubSeq(s, m, l) \in Seq(V)
          /\ Len(SubSeq(s, m, l)) = IF m <= l THEN l - m + 1 ELSE 0
          /\ \A i \in 1 .. l - m + 1 : SubSeq(s, m, l)[i] = s[m + i - 1]
    BY SubSeqProperties
  <2>3. \A i \in k + 1 .. n : s[i] \in V OBVIOUS
  <2> QED BY <2>1, <2>2, <2>3
<1> HIDE DEF u
<1>4. Len(u) = n - k BY <1>3
<1>5. ASSUME NEW i \in 1 .. n - k PROVE t[i] = u[i]
  <2>1. i \in 1 .. n - (k + 1) + 1 /\ k + 1 + i - 1 = i + k OBVIOUS
  <2> QED BY <1>3, <2>1
<1>6. t = u BY <1>2, <1>3, <1>4, <1>5, SeqEqual
<1> QED BY <1>1, <1>6 DEF u

LEMMA DropOne ==
  ASSUME NEW V, NEW n \in Nat \ {0}, NEW s \in [1 .. n -> V], NEW t \in [1 .. n - 1 -> V],
         \A i \in 1 .. n - 1 : t[i] = s[i + 1]
  PROVE  t = Tail(s)
<1>1. n \in Nat /\ 1 \in 0 .. n /\ 1 + 1 = 2 OBVIOUS
<1>2. s \in Seq(V) /\ Len(s) = n /\ t = SubSeq(s, 1 + 1, n) BY <1>1, DropFirst
<1>3. s # <<>> BY <1>2
<1> QED BY <1>1, <1>2, <1>3, TailIsSubSeq

\* Moving tail past the first takes it out of what waits.
LEMMA TailMoves ==
  ASSUME FifoInv, NEW c \in Consumers, ConsumerNext(c), pc[c] \in LockedSteps,
         tail < head, tail' = tail + 1
  PROVE  /\ Window # <<>> /\ Head(Window) = data[Slot(tail)] /\ Window' = Tail(Window)
<1>1. \A p \in Producers : pc[p] # "puta_store" /\ pc'[p] # "puta_store"
  BY NoStore, ConsumerKeepsStores
<1>2. UNCHANGED <<head, data>> BY ConsumerSteps1
<1>3. head \in Nat /\ tail \in Nat BY Types
<1>4. Window = [i \in 1 .. head - tail |-> data[Slot(tail + i - 1)]]
  BY <1>1, WindowStored
<1>5. Window' = [i \in 1 .. head - (tail + 1) |-> data[Slot(tail + 1 + i - 1)]]
  BY <1>1, <1>2, WindowStoredNext
<1>6. Len(Window) = head - tail /\ Window # <<>> BY <1>3, <1>4
<1>7. Head(Window) = data[Slot(tail)]
  <2>1. 1 \in 1 .. head - tail /\ tail + 1 - 1 = tail BY <1>3
  <2> QED BY <1>4, <2>1
<1>8. head - (tail + 1) = head - tail - 1 BY <1>3
<1>9. \A i \in 1 .. head - tail - 1 : Window'[i] = Window[i + 1]
  <2> TAKE i \in 1 .. head - tail - 1
  <2>1. i + 1 \in 1 .. head - tail /\ tail + (i + 1) - 1 = tail + 1 + i - 1 BY <1>3
  <2> QED BY <1>4, <1>5, <1>8, <2>1
<1>10. Window' = Tail(Window)
  <2> DEFINE n == head - tail
  <2>1. n \in Nat \ {0} BY <1>3
  <2> DEFINE V == {Window[i] : i \in 1 .. n}
  <2>2. Window \in [1 .. n -> V] BY <1>4
  <2>3. Window' \in [1 .. n - 1 -> V]
    <3>1. ASSUME NEW i \in 1 .. n - 1 PROVE Window'[i] \in V
      <4>1. i + 1 \in 1 .. n BY <1>3
      <4> QED BY <1>9, <4>1
    <3> QED BY <1>5, <1>8, <3>1
  <2>4. \A i \in 1 .. n - 1 : Window'[i] = Window[i + 1] BY <1>9
  <2> HIDE DEF n, V
  <2> QED BY <2>1, <2>2, <2>3, <2>4, DropOne
<1> QED BY <1>6, <1>7, <1>10

\* An element that was copied out is taken as tail passes it.
LEMMA GetIncDequeues ==
  ASSUME FifoInv, DataInv, NEW c \in Consumers, GetInc(c)
  PROVE  Queue!Dequeue(c)
<1>0. c \in Threads /\ pc[c] = "get_inc" /\ ConsumerNext(c) /\ tail' = tail + 1
  BY DEF GetInc, ConsumerNext, Threads
<1> DEFINE b == buffer[c]
           s == SubSeq(b, 1, Len(b) - 1)
<1>1. b \in Seq(Elements \union {NoElement}) /\ b # <<>> /\ b[Len(b)] = data[Slot(tail)]
  BY <1>0, Types DEF DataInv, GetData
<1>2. tail < head
  <2>1. Len(b) <= call[c].size /\ tail + call[c].size - Len(b) < head
    BY <1>0 DEF FifoInv, GetInv
  <2> QED BY <1>0, <2>1, Types
<1>3. pc[c] \in LockedSteps BY <1>0 DEF LockedSteps, ConsumerSteps, DrainSteps
<1>4. Window # <<>> /\ Head(Window) = b[Len(b)] /\ Window' = Tail(Window)
  BY <1>0, <1>1, <1>2, <1>3, TailMoves
<1>5. Taken[c] = s BY <1>0 DEF Taken
<1>6. Taken'[c] = b
  <2>1. pc'[c] \in {"get_copy", "idle"} /\ buffer' = buffer
    BY <1>0 DEF GetInc, Goto, Return, FifoInv, TypeOK, CallTypeOK
  <2> QED BY <2>1 DEF Taken
<1>7. b = Append(s, b[Len(b)])
  <2> HIDE DEF b
  <2> QED BY <1>1
<1>8. Taken' = [Taken EXCEPT ![c] = b] BY <1>0, <1>6, OthersTakeNone
<1>9. Taken' = [Taken EXCEPT ![c] = Append(Taken[c], Head(Window))]
  BY <1>4, <1>5, <1>7, <1>8
<1> QED BY <1>4, <1>9 DEF Queue!Dequeue

\* An AsAtomic get has taken its element when it has advanced tail, and the
\* slot keeps it until it is read.
LEMMA GetAsAtomicIncDequeues ==
  ASSUME FifoInv, DataInv, NEW c \in Consumers, GetAsAtomicInc(c)
  PROVE  Queue!Dequeue(c)
<1>0. /\ c \in Threads /\ pc[c] = "geta_inc" /\ pc'[c] = "geta_load" /\ tail' = tail + 1
      /\ ConsumerNext(c) /\ UNCHANGED <<data, call, buffer>>
  BY DEF GetAsAtomicInc, Goto, ConsumerNext, Threads, FifoInv, TypeOK, CallTypeOK
<1> DEFINE x == data[Slot(tail)]
<1>1. buffer[c] = <<>> /\ call[c].slot = Slot(tail) BY <1>0 DEF DataInv, GetData
<1>2. tail < head BY <1>0 DEF FifoInv, GetInv
<1>3. pc[c] \in LockedSteps BY <1>0 DEF LockedSteps, ConsumerSteps, DrainSteps
<1>4. Window # <<>> /\ Head(Window) = x /\ Window' = Tail(Window)
  BY <1>0, <1>2, <1>3, TailMoves
<1>5. Taken[c] = <<>> BY <1>0, <1>1 DEF Taken
<1>6. Taken'[c] = <<x>> BY <1>0, <1>1 DEF Taken
<1>7. Taken' = [Taken EXCEPT ![c] = <<x>>] BY <1>0, <1>6, OthersTakeNone
<1>8. <<x>> = Append(Taken[c], x) BY <1>5
<1>9. Taken' = [Taken EXCEPT ![c] = Append(Taken[c], Head(Window))]
  BY <1>4, <1>7, <1>8
<1> QED BY <1>4, <1>9 DEF Queue!Dequeue

\* The unlocked drain discards what it measured, even while a store goes on.
LEMMA DrainDiscards ==
  ASSUME FifoInv, NEW c \in Consumers, DrainAdd(c)
  PROVE  [Queue!Next]_Queue!vars
<1> DEFINE n == call[c].size
<1>0. c \in Threads /\ pc[c] = "drain_add" /\ ConsumerNext(c) /\ tail' = tail + n
  BY DEF DrainAdd, ConsumerNext, Threads
<1>1. n \in Nat /\ tail \in Nat /\ head \in Nat /\ tail + n <= head
  BY <1>0, Types DEF FifoInv, GetInv
<1>2. UNCHANGED <<head, data>> BY <1>0, ConsumerSteps1
<1>3. Taken' = Taken
  <2>1. pc'[c] = "idle" /\ buffer' = buffer
    BY <1>0 DEF DrainAdd, Return, FifoInv, TypeOK, CallTypeOK
  <2>2. Taken'[c] = Taken[c] BY <1>0, <2>1 DEF Taken
  <2>3. Taken' = [Taken EXCEPT ![c] = Taken[c]] BY <1>0, <2>2, OthersTakeNone
  <2> QED BY <2>3 DEF Taken
<1>4. \A p \in Producers : pc'[p] = pc[p] /\ call'[p] = call[p]
  BY <1>0, ConsumerKeepsStores
<1>5. /\ Len(Window) = head - tail /\ Len(Window') = head - tail - n
      /\ Window = [i \in 1 .. head - tail |-> Window[i]]
      /\ Window' = [i \in 1 .. head - tail - n |-> Window'[i]]
  BY <1>0, <1>1, <1>2 DEF Window
<1>6. ASSUME NEW i \in 1 .. head - tail - n PROVE Window'[i] = Window[i + n]
  <2>1. /\ i + n \in 1 .. head - tail /\ tail + (i + n) - 1 = tail' + i - 1
        /\ i \in 1 .. head' - tail'
        /\ (i + n = head - tail) <=> (i = head' - tail')
    BY <1>0, <1>1, <1>2
  <2>2. CASE \A p \in Producers : pc[p] # "puta_store"
    <3>1. Window[i + n] = data[Slot(tail + (i + n) - 1)] BY <2>1, <2>2, WindowStored
    <3>2. Window'[i] = data'[Slot(tail' + i - 1)] BY <1>4, <2>1, <2>2, WindowStoredNext
    <3> QED BY <1>2, <2>1, <3>1, <3>2
  <2>3. ASSUME NEW p \in Producers, pc[p] = "puta_store" PROVE Window'[i] = Window[i + n]
    <3>1. \A q \in Producers : pc[q] = "puta_store" <=> q = p BY <2>3, OneStores
    <3>2. Window[i + n] = IF i + n = head - tail THEN call[p].arg[1]
                          ELSE data[Slot(tail + (i + n) - 1)]
      BY <2>1, <3>1, WindowStoring
    <3>3. Window' = [j \in 1 .. head' - tail' |-> IF j = head' - tail' THEN call'[p].arg[1]
                                                   ELSE data'[Slot(tail' + j - 1)]]
      <4>1. \A q \in Producers : pc'[q] = "puta_store" <=> q = p BY <1>4, <3>1
      <4> QED BY <4>1, WindowStoringNext
    <3>4. Window'[i] = IF i = head' - tail' THEN call'[p].arg[1]
                       ELSE data'[Slot(tail' + i - 1)]
      BY <2>1, <3>3
    <3> QED BY <1>2, <1>4, <2>1, <3>2, <3>4
  <2> QED BY <2>2, <2>3
<1> HIDE DEF n
<1>7. CASE n = 0
  <2>1. head - tail - n = head - tail BY <1>1, <1>7
  <2>2. \A i \in 1 .. head - tail : Window'[i] = Window[i] BY <1>6, <1>7, <2>1
  <2>3. Window' = Window BY <1>5, <2>1, <2>2
  <2> QED BY <1>3, <2>3 DEF Queue!vars
<1>8. CASE n > 0
  <2>1. n \in 1 .. Len(Window) BY <1>1, <1>5, <1>8
  <2>2. head - tail \in Nat /\ n \in 0 .. head - tail BY <1>1
  <2>3. Window' = SubSeq(Window, n + 1, Len(Window))
    <3> DEFINE m == head - tail
    <3> DEFINE V == {Window[i] : i \in 1 .. m}
    <3>1. m \in Nat /\ n \in 0 .. m BY <2>2
    <3>2. Window \in [1 .. m -> V] /\ Len(Window) = m BY <1>5
    <3>3. Window' \in [1 .. m - n -> V]
      <4>1. ASSUME NEW i \in 1 .. m - n PROVE Window'[i] \in V
        <5>1. i + n \in 1 .. m BY <1>1
        <5> QED BY <1>6, <5>1
      <4> QED BY <1>5, <4>1
    <3>4. \A i \in 1 .. m - n : Window'[i] = Window[i + n] BY <1>6
    <3> HIDE DEF m, V
    <3> QED BY <3>1, <3>2, <3>3, <3>4, DropFirst
  <2> QED BY <1>3, <2>1, <2>3 DEF Queue!Discard, Queue!Next
<1> QED BY <1>1, <1>7, <1>8

LEMMA ConsumerRefines ==
  ASSUME FifoInv, DataInv, NEW c \in Consumers, ConsumerNext(c)
  PROVE  [Queue!Next]_Queue!vars
<1>0. c \in Threads BY DEF Threads
<1>1. CASE GetInc(c) BY <1>1, GetIncDequeues DEF Queue!Next
<1>2. CASE GetAsAtomicInc(c) BY <1>2, GetAsAtomicIncDequeues DEF Queue!Next
<1>3. CASE DrainAdd(c) BY <1>3, DrainDiscards
<1>4. ASSUME tail' = tail PROVE Window' = Window
  BY <1>4, ConsumerSteps1, ConsumerKeepsStores, SameWindow
<1>5. ASSUME tail' = tail, Taken'[c] = <<>> PROVE [Queue!Next]_Queue!vars
  <2>1. Taken' = [Taken EXCEPT ![c] = <<>>] BY <1>5, OthersTakeNone
  <2> QED BY <1>4, <1>5, <2>1 DEF Queue!Forget, Queue!Next
<1>6. ASSUME tail' = tail, Taken'[c] = Taken[c] PROVE [Queue!Next]_Queue!vars
  <2>1. Taken' = [Taken EXCEPT ![c] = Taken[c]] BY <1>6, OthersTakeNone
  <2>2. Taken' = Taken BY <2>1 DEF Taken
  <2> QED BY <1>4, <1>6, <2>2 DEF Queue!vars
<1> USE <1>0 DEF FifoInv, TypeOK, CallTypeOK
<1>7. CASE GetEnter(c) BY <1>5, <1>7 DEF GetEnter, Enter, Taken
<1>8. CASE GetAsAtomicEnter(c) BY <1>5, <1>8 DEF GetAsAtomicEnter, Enter, Taken
<1>9. CASE DrainEnter(c) BY <1>6, <1>9 DEF DrainEnter, Goto, Taken
<1>10. ASSUME NEW offset \in Offsets, PeekEnter(c, offset) PROVE [Queue!Next]_Queue!vars
  BY <1>5, <1>10 DEF PeekEnter, Enter, Taken
<1>11. ASSUME NEW offset \in Offsets, PeekAsAtomicEnter(c, offset)
       PROVE  [Queue!Next]_Queue!vars
  BY <1>5, <1>11 DEF PeekAsAtomicEnter, Enter, Taken
<1>12. CASE GetRefused(c) BY <1>5, <1>12 DEF GetRefused, Return, Taken
<1>13. ASSUME NEW size \in Sizes, GetSize(c, size) PROVE [Queue!Next]_Queue!vars
  BY <1>6, <1>13 DEF GetSize, Begin, Goto, Return, Taken
<1>14. ASSUME NEW size \in Sizes, PeekSize(c, size) PROVE [Queue!Next]_Queue!vars
  <2>1. buffer[c] = <<>> BY <1>14 DEF PeekSize, GetInv
  <2> QED BY <1>5, <1>14, <2>1 DEF PeekSize, Begin, Goto, Return, Taken
<1>15. ASSUME NEW size \in Sizes, DrainSize(c, size) PROVE [Queue!Next]_Queue!vars
  BY <1>6, <1>15 DEF DrainSize, Goto, Taken
<1>16. CASE GetCopy(c)
  <2> DEFINE b == buffer[c]
             x == data[Slot(tail)]
  <2>1. /\ pc[c] = "get_copy" /\ pc'[c] = "get_inc" /\ tail' = tail
        /\ buffer'[c] = Append(b, x)
    BY <1>16 DEF GetCopy, Goto
  <2>2. b \in Seq(Elements \union {NoElement}) /\ x \in Elements \union {NoElement}
    BY Types, SlotType
  <2>3. Taken[c] = b BY <2>1 DEF Taken
  <2>4. Taken'[c] = SubSeq(Append(b, x), 1, Len(Append(b, x)) - 1) BY <2>1 DEF Taken
  <2> HIDE DEF b, x
  <2>5. SubSeq(Append(b, x), 1, Len(Append(b, x)) - 1) = b BY <2>2
  <2> QED BY <1>6, <2>1, <2>3, <2>4, <2>5
<1>17. CASE GetAsAtomicLoad(c) BY <1>6, <1>17 DEF GetAsAtomicLoad, Return, Taken
<1>18. CASE PeekCopy(c) BY <1>5, <1>18 DEF PeekCopy, Taken
<1>19. CASE PeekReturn(c) BY <1>5, <1>19 DEF PeekReturn, Return, Taken
<1> QED BY <1>1, <1>2, <1>3, <1>7, <1>8, <1>9, <1>10, <1>11, <1>12, <1>13, <1>14, <1>15,
           <1>16, <1>17, <1>18, <1>19 DEF ConsumerNext

-----------------------------------------------------------------------------
(* The theorems. *)

LEMMA ResetRefines == ASSUME FifoInv, Reset PROVE [Queue!Next]_Queue!vars
<1>1. Taken' = Taken BY DEF Reset, Quiet, Taken
<1>2. \A p \in Producers : pc[p] # "puta_store" /\ pc'[p] # "puta_store"
  BY DEF Reset, Quiet, Threads
<1>3. Window = [i \in 1 .. head - tail |-> data[Slot(tail + i - 1)]]
  BY <1>2, WindowStored
<1>4. Window' = <<>> BY <1>2, WindowStoredNext DEF Reset
<1>5. head - tail \in Nat BY Types
<1>6. CASE head - tail = 0
  <2>1. Window = <<>> BY <1>3, <1>6
  <2> QED BY <1>1, <1>4, <2>1 DEF Queue!vars
<1>7. CASE head - tail # 0
  <2>1. Len(Window) = head - tail BY <1>3, <1>5
  <2>2. SubSeq(Window, Len(Window) + 1, Len(Window)) = <<>> BY <1>5, <2>1
  <2>3. Len(Window) \in 1 .. Len(Window) BY <1>5, <1>7, <2>1
  <2>4. Queue!Discard(Len(Window)) BY <1>1, <1>4, <2>2 DEF Queue!Discard
  <2> QED BY <2>3, <2>4 DEF Queue!Next
<1> QED BY <1>6, <1>7

LEMMA StepRefines == ASSUME FifoInv, DataInv, [Next]_vars PROVE [Queue!Next]_Queue!vars
<1>1. CASE UNCHANGED vars
  <2>1. Window' = Window BY <1>1, SameWindow DEF vars
  <2>2. Taken' = Taken BY <1>1 DEF vars, Taken
  <2> QED BY <2>1, <2>2 DEF Queue!vars
<1> QED BY <1>1, ProducerRefines, ConsumerRefines, ResetRefines DEF Next

(* xpr_fifo.c implements the bounded queue: each element put is handed to   *)
(* one consumer, once and in order, for any number of threads and slots.    *)
THEOREM FifoIsQueue == Spec => IsQueue
<1>1. Init => Queue!Init
  <2> SUFFICES ASSUME Init PROVE Queue!Init OBVIOUS
  <2>1. Window = <<>>
    <3>1. \A p \in Producers : pc[p] # "puta_store" BY DEF Init, Threads
    <3> QED BY <3>1, WindowStored DEF Init
  <2>2. Taken = [c \in Consumers |-> <<>>] BY DEF Init, Taken, Threads
  <2> QED BY <2>1, <2>2 DEF Queue!Init
<1>2. FifoInv /\ DataInv /\ [Next]_vars => [Queue!Next]_Queue!vars BY StepRefines
<1> QED BY <1>1, <1>2, FifoInvariant, DataInvariant, PTL DEF Spec, IsQueue, Queue!Spec

(* A peek has copied what waits from its offset on, one slot at a time,     *)
(* with the lock or beside one producer without it.                         *)
THEOREM FifoPeekCoherent == Spec => []PeekCoherent
<1>1. FifoInv /\ DataInv => PeekCoherent
  <2> SUFFICES ASSUME FifoInv, DataInv, NEW c \in Consumers, pc[c] = "peek_copy",
                      NEW i \in 1 .. Len(buffer[c]), call[c].offset + i <= head - tail
               PROVE  buffer[c][i] = Window[call[c].offset + i]
    BY DEF PeekCoherent
  <2> DEFINE o == call[c].offset
  <2>1. o \in Nat /\ head \in Nat /\ tail \in Nat /\ Len(buffer[c]) \in Nat
    BY Types DEF Threads
  <2>2. pc[c] \in LockedSteps BY DEF LockedSteps, ConsumerSteps, DrainSteps
  <2>3. Window = [j \in 1 .. head - tail |-> data[Slot(tail + j - 1)]]
    BY <2>2, NoStore, WindowStored
  <2>4. o + i \in 1 .. head - tail /\ tail + (o + i) - 1 = tail + o + i - 1
    <3> DEFINE l == Len(buffer[c])
    <3>1. i \in 1 .. l /\ o + i <= head - tail OBVIOUS
    <3> HIDE DEF o, l
    <3> QED BY <2>1, <3>1
  <2>5. buffer[c][i] = data[Slot(tail + o + i - 1)] BY DEF DataInv, GetData
  <2> QED BY <2>3, <2>4, <2>5
<1> QED BY <1>1, FifoInvariant, DataInvariant, PTL
=============================================================================
