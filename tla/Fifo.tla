-------------------------------- MODULE Fifo --------------------------------
(***************************************************************************)
(* The element ring of src/xpr_fifo.c: two counters that only grow, head   *)
(* and tail, over maxElements slots; a counter modulo maxElements is a     *)
(* slot.                                                                   *)
(*                                                                         *)
(* A call is the steps between its accesses of shared memory.  With        *)
(* HAVE_MP a spin lock is held from the first step to the return; without  *)
(* it the steps of the calls interleave freely.  Taking the lock and the   *)
(* emptiness (fullness) test that follows are one step: no other thread    *)
(* can tell them apart.  XPR_FifoDrain and XPR_FifoReset take no lock in   *)
(* either build.                                                           *)
(*                                                                         *)
(* The counters are `long`: 64 bits on the hosts modelled here, so they do *)
(* not wrap.  MaxCount bounds them.                                        *)
(***************************************************************************)
EXTENDS Integers, Sequences, FiniteSets

CONSTANTS
  Producers,    \* threads that put
  Consumers,    \* threads that get, peek and drain
  Elements,     \* what can be put
  Batches,      \* the arrays of elements passed to XPR_FifoPut
  maxElements,  \* the slots
  HaveMP,       \* built with HAVE_MP
  Calls,        \* the calls the program makes
  MaxCount,     \* bound on head
  NoElement,    \* an uninitialised slot
  NoThread      \* the lock is free

Threads == Producers \union Consumers

AllCalls == {"Put", "PutAsAtomic", "Get", "GetAsAtomic", "Peek",
             "PeekAsAtomic", "Drain", "Reset"}

ASSUME FifoAssumption ==
  /\ maxElements \in Nat \ {0}
  /\ MaxCount \in Nat
  /\ HaveMP \in BOOLEAN
  /\ Calls \subseteq AllCalls
  /\ Batches \subseteq Seq(Elements)
  /\ Producers \intersect Consumers = {}
  /\ NoThread \notin Threads
  /\ NoElement \notin Elements

VARIABLES
  head, tail,  \* XPR_Fifo.head, XPR_Fifo.tail
  data,        \* XPR_Fifo.data: the slots
  lock,        \* XPR_Fifo.lock: its holder
  pc,          \* pc[t]: where the call of thread t stands
  call,        \* call[t]: its arguments and locals
  buffer       \* buffer[c]: what the current or last call of c copied out

vars == <<head, tail, data, lock, pc, call, buffer>>

(* arg: the elements put; size: how many will be transferred; l: how many   *)
(* have been put; offset: where a peek starts; slot: the variable n of an   *)
(* AsAtomic call.                                                           *)
Locals(arg, size, l, offset, slot) ==
  [arg |-> arg, size |-> size, l |-> l, offset |-> offset, slot |-> slot]
NoCall == Locals(<<>>, 0, 0, 0, 0)

-----------------------------------------------------------------------------
(* The observers: XPR_FifoGetLength and the tests made of it.  If a race    *)
(* takes tail past head, the length is head + (0xffffffff - tail) cut to a  *)
(* 32-bit int, one less than the difference.                                *)

Length == IF head < tail THEN head - tail - 1 ELSE head - tail
IsEmpty == Length = 0
IsFull == Length = maxElements
\* Mutant of AvailableSize: the elements already waiting are not counted.
AvailableSizeWhole == maxElements
AvailableSize == maxElements - Length
Slot(counter) == counter % maxElements
MIN(a, b) == IF a < b THEN a ELSE b

Init ==
  /\ head = 0
  /\ tail = 0
  /\ data = [i \in 0 .. maxElements - 1 |-> NoElement]
  /\ lock = NoThread
  /\ pc = [t \in Threads |-> "idle"]
  /\ call = [t \in Threads |-> NoCall]
  /\ buffer = [c \in Consumers |-> <<>>]

-----------------------------------------------------------------------------
(* Entering and leaving a call. *)

\* Mutant of MayEnter: the lock is not waited for.
MayEnterAnyway(t, name) ==
  /\ name \in Calls
  /\ pc[t] = "idle"

\* The spin lock is free, or there is none.
MayEnter(t, name) ==
  /\ name \in Calls
  /\ pc[t] = "idle"
  /\ HaveMP => lock = NoThread

Enter(t, step, locals) ==
  /\ pc' = [pc EXCEPT ![t] = step]
  /\ call' = [call EXCEPT ![t] = locals]
  /\ lock' = IF HaveMP THEN t ELSE lock

Goto(t, step) ==
  /\ pc' = [pc EXCEPT ![t] = step]
  /\ UNCHANGED lock

Return(t) ==
  /\ pc' = [pc EXCEPT ![t] = "idle"]
  /\ call' = [call EXCEPT ![t] = NoCall]
  /\ lock' = IF lock = t THEN NoThread ELSE lock

\* The size is now known: copy if there is anything to copy.
Begin(t, n, step) ==
  IF n > 0 THEN /\ Goto(t, step)
                /\ call' = [call EXCEPT ![t] =
                              Locals(call[t].arg, n, 0, call[t].offset, 0)]
           ELSE Return(t)

-----------------------------------------------------------------------------
(* XPR_FifoPut: copies as many elements as fit, publishing each by          *)
(* advancing head.                                                          *)

PutEnter(t, elements) ==
  /\ MayEnter(t, "Put")
  /\ head + Len(elements) <= MaxCount
  /\ ~IsFull
  /\ Enter(t, "put_size", Locals(elements, 0, 0, 0, 0))
  /\ UNCHANGED <<head, tail, data, buffer>>

PutSize(t) ==
  /\ pc[t] = "put_size"
  /\ Begin(t, MIN(Len(call[t].arg), AvailableSize), "put_copy")
  /\ UNCHANGED <<head, tail, data, buffer>>

PutCopy(t) ==
  /\ pc[t] = "put_copy"
  /\ data' = [data EXCEPT ![Slot(head)] = call[t].arg[call[t].l + 1]]
  /\ Goto(t, "put_inc")
  /\ UNCHANGED <<head, tail, call, buffer>>

PutInc(t) ==
  /\ pc[t] = "put_inc"
  /\ head' = head + 1
  /\ IF call[t].l + 1 < call[t].size
     THEN /\ Goto(t, "put_copy")
          /\ call' = [call EXCEPT ![t] =
                        Locals(call[t].arg, call[t].size, call[t].l + 1, 0, 0)]
     ELSE Return(t)
  /\ UNCHANGED <<tail, data, buffer>>

-----------------------------------------------------------------------------
(* XPR_FifoPutAsAtomic: advances head first and stores the element after,   *)
(* which only the lock hides from the consumers.  The fullness test and the *)
(* reading of the slot number are one step, here and in GetAsAtomic.        *)

PutAsAtomicEnter(t, e) ==
  /\ MayEnter(t, "PutAsAtomic")
  /\ head < MaxCount
  /\ ~IsFull
  /\ Enter(t, "puta_inc", Locals(<<e>>, 0, 0, 0, Slot(head)))
  /\ UNCHANGED <<head, tail, data, buffer>>

PutAsAtomicInc(t) ==
  /\ pc[t] = "puta_inc"
  /\ head' = head + 1
  /\ Goto(t, "puta_store")
  /\ UNCHANGED <<tail, data, call, buffer>>

PutAsAtomicStore(t) ==
  /\ pc[t] = "puta_store"
  /\ data' = [data EXCEPT ![call[t].slot] = call[t].arg[1]]
  /\ Return(t)
  /\ UNCHANGED <<head, tail, buffer>>

\* Either put on a full fifo: the lock is given back and nothing is stored.
PutRefused(t) ==
  /\ \E name \in {"Put", "PutAsAtomic"} : MayEnter(t, name)
  /\ IsFull
  /\ Return(t)
  /\ UNCHANGED <<head, tail, data, buffer>>

-----------------------------------------------------------------------------
(* XPR_FifoGet: copies each element out before advancing tail past it. *)

GetEnter(t) ==
  /\ MayEnter(t, "Get")
  /\ ~IsEmpty
  /\ Enter(t, "get_size", NoCall)
  /\ buffer' = [buffer EXCEPT ![t] = <<>>]
  /\ UNCHANGED <<head, tail, data>>

GetSize(t, size) ==
  /\ pc[t] = "get_size"
  /\ Begin(t, MIN(size, Length), "get_copy")
  /\ UNCHANGED <<head, tail, data, buffer>>

\* Mutant of GetCopy: the newest element instead of the oldest.
GetCopyNewest(t) ==
  /\ pc[t] = "get_copy"
  /\ buffer' = [buffer EXCEPT ![t] = Append(@, data[Slot(head - 1)])]
  /\ Goto(t, "get_inc")
  /\ UNCHANGED <<head, tail, data, call>>

GetCopy(t) ==
  /\ pc[t] = "get_copy"
  /\ buffer' = [buffer EXCEPT ![t] = Append(@, data[Slot(tail)])]
  /\ Goto(t, "get_inc")
  /\ UNCHANGED <<head, tail, data, call>>

GetInc(t) ==
  /\ pc[t] = "get_inc"
  /\ tail' = tail + 1
  /\ IF Len(buffer[t]) < call[t].size
     THEN Goto(t, "get_copy") /\ UNCHANGED call
     ELSE Return(t)
  /\ UNCHANGED <<head, data, buffer>>

-----------------------------------------------------------------------------
(* XPR_FifoGetAsAtomic: advances tail, and only then reads the slot it has  *)
(* already given back; the lock keeps a producer from refilling it.         *)

GetAsAtomicEnter(t) ==
  /\ MayEnter(t, "GetAsAtomic")
  /\ ~IsEmpty
  /\ Enter(t, "geta_inc", Locals(<<>>, 0, 0, 0, Slot(tail)))
  /\ buffer' = [buffer EXCEPT ![t] = <<>>]
  /\ UNCHANGED <<head, tail, data>>

GetAsAtomicInc(t) ==
  /\ pc[t] = "geta_inc"
  /\ tail' = tail + 1
  /\ Goto(t, "geta_load")
  /\ UNCHANGED <<head, data, call, buffer>>

GetAsAtomicLoad(t) ==
  /\ pc[t] = "geta_load"
  /\ buffer' = [buffer EXCEPT ![t] = <<data[call[t].slot]>>]
  /\ Return(t)
  /\ UNCHANGED <<head, tail, data>>

-----------------------------------------------------------------------------
(* XPR_FifoPeek and XPR_FifoPeekAsAtomic: read at an offset from the tail   *)
(* and leave the counters alone.                                            *)

PeekEnter(t, offset) ==
  /\ MayEnter(t, "Peek")
  /\ ~IsEmpty
  /\ Enter(t, "peek_size", Locals(<<>>, 0, 0, offset, 0))
  /\ buffer' = [buffer EXCEPT ![t] = <<>>]
  /\ UNCHANGED <<head, tail, data>>

PeekSize(t, size) ==
  /\ pc[t] = "peek_size"
  /\ Begin(t, MIN(size, Length - call[t].offset), "peek_copy")
  /\ UNCHANGED <<head, tail, data, buffer>>

\* The offset is not compared with the length: past it the slot is stale.
PeekAsAtomicEnter(t, offset) ==
  /\ MayEnter(t, "PeekAsAtomic")
  /\ ~IsEmpty
  /\ Enter(t, "peek_copy", Locals(<<>>, 1, 0, offset, 0))
  /\ buffer' = [buffer EXCEPT ![t] = <<>>]
  /\ UNCHANGED <<head, tail, data>>

\* Mutant of PeekCopy: the offset is forgotten.
PeekCopyFront(t) ==
  /\ pc[t] = "peek_copy"
  /\ Len(buffer[t]) < call[t].size
  /\ buffer' = [buffer EXCEPT ![t] = Append(@, data[Slot(tail + Len(@))])]
  /\ UNCHANGED <<head, tail, data, lock, pc, call>>

PeekCopy(t) ==
  /\ pc[t] = "peek_copy"
  /\ Len(buffer[t]) < call[t].size
  /\ buffer' = [buffer EXCEPT ![t] =
                  Append(@, data[Slot(tail + call[t].offset + Len(@))])]
  /\ UNCHANGED <<head, tail, data, lock, pc, call>>

\* What was peeked is the caller's; only what was removed is remembered.
PeekReturn(t) ==
  /\ pc[t] = "peek_copy"
  /\ Len(buffer[t]) = call[t].size
  /\ Return(t)
  /\ buffer' = [buffer EXCEPT ![t] = <<>>]
  /\ UNCHANGED <<head, tail, data>>

\* A get or a peek on an empty fifo: nothing is copied out.
GetRefused(t) ==
  /\ \E name \in {"Get", "GetAsAtomic", "Peek", "PeekAsAtomic"} :
       MayEnter(t, name)
  /\ IsEmpty
  /\ Return(t)
  /\ buffer' = [buffer EXCEPT ![t] = <<>>]
  /\ UNCHANGED <<head, tail, data>>

-----------------------------------------------------------------------------
(* XPR_FifoDrain: no lock; test, measure, then advance tail at once. *)

DrainEnter(t) ==
  /\ "Drain" \in Calls
  /\ pc[t] = "idle"
  /\ ~IsEmpty
  /\ Goto(t, "drain_size")
  /\ UNCHANGED <<head, tail, data, call, buffer>>

DrainSize(t, size) ==
  /\ pc[t] = "drain_size"
  /\ Goto(t, "drain_add")
  /\ call' = [call EXCEPT ![t] = Locals(<<>>, MIN(size, Length), 0, 0, 0)]
  /\ UNCHANGED <<head, tail, data, buffer>>

DrainAdd(t) ==
  /\ pc[t] = "drain_add"
  /\ tail' = tail + call[t].size
  /\ Return(t)
  /\ UNCHANGED <<head, data, buffer>>

\* How XPR_FifoReset is used: no other call begins before it is over.  The code
\* does not see to that, and nothing in src calls it.
Quiet == \A t \in Threads : pc[t] = "idle"

\* XPR_FifoReset stores both counters without the lock; in a quiet fifo the two
\* stores are one step.
Reset ==
  /\ "Reset" \in Calls
  /\ Quiet
  /\ head # 0
  /\ head' = 0
  /\ tail' = 0
  /\ UNCHANGED <<data, lock, pc, call, buffer>>

-----------------------------------------------------------------------------
Offsets == 0 .. maxElements
Sizes == 1 .. maxElements

ProducerNext(t) ==
  \/ \E elements \in Batches : PutEnter(t, elements)
  \/ \E e \in Elements : PutAsAtomicEnter(t, e)
  \/ PutRefused(t)
  \/ PutSize(t) \/ PutCopy(t) \/ PutInc(t)
  \/ PutAsAtomicInc(t) \/ PutAsAtomicStore(t)

ConsumerNext(t) ==
  \/ GetEnter(t) \/ GetAsAtomicEnter(t) \/ DrainEnter(t)
  \/ \E offset \in Offsets : PeekEnter(t, offset) \/ PeekAsAtomicEnter(t, offset)
  \/ GetRefused(t)
  \/ \E size \in Sizes : GetSize(t, size) \/ PeekSize(t, size) \/ DrainSize(t, size)
  \/ GetCopy(t) \/ GetInc(t)
  \/ GetAsAtomicInc(t) \/ GetAsAtomicLoad(t)
  \/ PeekCopy(t) \/ PeekReturn(t)
  \/ DrainAdd(t)

Next ==
  \/ \E p \in Producers : ProducerNext(p)
  \/ \E c \in Consumers : ConsumerNext(c)
  \/ Reset

Spec == Init /\ [][Next]_vars

-----------------------------------------------------------------------------
(* Correctness. *)

ProducerSteps == {"idle", "put_size", "put_copy", "put_inc", "puta_inc",
                  "puta_store"}
ConsumerSteps == {"idle", "get_size", "get_copy", "get_inc", "geta_inc",
                  "geta_load", "peek_size", "peek_copy", "drain_size",
                  "drain_add"}

LocalsType ==
  [arg : Seq(Elements), size : Nat, l : Nat, offset : Offsets,
   slot : 0 .. maxElements - 1]

CallTypeOK ==
  /\ lock \in Threads \union {NoThread}
  /\ pc \in [Threads -> ProducerSteps \union ConsumerSteps]
  /\ \A p \in Producers : pc[p] \in ProducerSteps
  /\ \A c \in Consumers : pc[c] \in ConsumerSteps
  /\ call \in [Threads -> LocalsType]

\* Every variable stays in its type: XPR_Fifo and the locals of its calls.
TypeOK ==
  /\ head \in Nat
  /\ tail \in Nat
  /\ data \in [0 .. maxElements - 1 -> Elements \union {NoElement}]
  /\ buffer \in [Consumers -> Seq(Elements \union {NoElement})]
  /\ CallTypeOK

(* The counters never cross and never drift further apart than the slots    *)
(* there are, in whatever order the steps of the calls (the unlocked drain  *)
(* among them) fall: no element is overwritten before it is taken, none is  *)
(* taken twice.                                                             *)
NoOverrun ==
  /\ tail <= head
  /\ head - tail <= maxElements

\* The slots thread t writes, and reads, in its next step.
Writes(t) == CASE pc[t] = "put_copy" -> {Slot(head)}
               [] pc[t] = "puta_store" -> {call[t].slot}
               [] OTHER -> {}
Reads(t) == CASE pc[t] = "get_copy" -> {Slot(tail)}
              [] pc[t] = "geta_load" -> {call[t].slot}
              [] pc[t] = "peek_copy" /\ Len(buffer[t]) < call[t].size ->
                   {Slot(tail + call[t].offset + Len(buffer[t]))}
              [] OTHER -> {}

(* No slot is written by one thread while another thread is copying it out  *)
(* or in: the memcpy of an element is never torn.                           *)
NoSlotRace ==
  \A p \in Producers : \A t \in Threads \ {p} :
    Writes(p) \intersect (Writes(t) \union Reads(t)) = {}

\* The elements between tail and head, a store in progress counted as made.
Window ==
  [i \in 1 .. head - tail |->
     IF i = head - tail /\ \E p \in Producers : pc[p] = "puta_store"
     THEN call[CHOOSE p \in Producers : pc[p] = "puta_store"].arg[1]
     ELSE data[Slot(tail + i - 1)]]

(* What a peek has copied so far is what waits in the fifo from its offset  *)
(* on, though it reads one slot at a time.                                  *)
PeekCoherent ==
  \A c \in Consumers : pc[c] = "peek_copy" =>
    \A i \in 1 .. Len(buffer[c]) :
      call[c].offset + i <= head - tail => buffer[c][i] = Window[call[c].offset + i]

\* What the current or last call of c has taken out of the fifo.
Taken ==
  [c \in Consumers |->
     CASE pc[c] = "geta_load" -> <<data[call[c].slot]>>
       [] pc[c] = "get_inc" -> SubSeq(buffer[c], 1, Len(buffer[c]) - 1)
       [] pc[c] = "peek_copy" -> <<>>
       [] OTHER -> buffer[c]]

Queue == INSTANCE BoundedQueue
           WITH Capacity <- maxElements, Readers <- Consumers,
                queue <- Window, taken <- Taken

(* The fifo is a bounded first-in first-out queue: each element put is      *)
(* handed to one consumer, once, in the order of the puts, although the     *)
(* AsAtomic calls move the counters before they touch the slots.            *)
IsQueue == Queue!Spec
=============================================================================
