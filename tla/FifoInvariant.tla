--------------------------- MODULE FifoInvariant ---------------------------
(***************************************************************************)
(* How the rest of xpr uses a fifo, and the inductive invariant of Fifo    *)
(* under that use.                                                         *)
(***************************************************************************)
EXTENDS Fifo

AtomicCalls == {"PutAsAtomic", "GetAsAtomic", "PeekAsAtomic"}

(* Without the spin lock a fifo has one producer and one consumer, and the  *)
(* AsAtomic calls, which move a counter before they touch the slot, are not *)
(* made.  XPR_FifoDrain, which takes the lock in neither build, is called   *)
(* by the only consumer.  XPR_FifoReset, which stores both counters with    *)
(* no lock either, is called when no other call is in progress (Quiet).     *)
ASSUME FifoUsage ==
  /\ ~HaveMP => /\ Calls \intersect AtomicCalls = {}
                /\ \A p, q \in Producers : p = q
                /\ \A c, d \in Consumers : c = d
  /\ "Drain" \in Calls => \A c, d \in Consumers : c = d

DrainSteps == {"drain_size", "drain_add"}
LockedSteps == (ProducerSteps \union ConsumerSteps) \ (DrainSteps \union {"idle"})
AtomicSteps == {"puta_inc", "puta_store", "geta_inc", "geta_load"}

(* The holder of the lock is the thread inside a locking call, and only the *)
(* calls the program makes are in progress.                                 *)
LockInv ==
  /\ HaveMP => \A t \in Threads : pc[t] \in LockedSteps <=> lock = t
  /\ \A t \in Threads : pc[t] \in DrainSteps => "Drain" \in Calls
  /\ \A t \in Threads : pc[t] \in AtomicSteps => HaveMP

\* What a put in progress may still rely on: the room it measured is there.
PutInv(p) ==
  /\ pc[p] \in {"put_copy", "put_inc"} =>
       /\ call[p].l < call[p].size
       /\ call[p].size <= Len(call[p].arg)
       /\ head - tail + (call[p].size - call[p].l) <= maxElements
  /\ pc[p] = "puta_inc" => head - tail < maxElements
  /\ pc[p] \in {"puta_inc", "puta_store"} => Len(call[p].arg) = 1

\* What a get, peek or drain in progress may still rely on: the elements it
\* measured are there.
GetInv(c) ==
  /\ pc[c] \in {"get_size", "peek_size"} => buffer[c] = <<>>
  /\ pc[c] = "get_copy" =>
       /\ Len(buffer[c]) < call[c].size
       /\ tail + call[c].size - Len(buffer[c]) <= head
  /\ pc[c] = "get_inc" =>
       /\ Len(buffer[c]) <= call[c].size
       /\ tail + call[c].size - Len(buffer[c]) < head
  /\ pc[c] = "geta_inc" => tail < head
  /\ pc[c] = "peek_copy" =>
       /\ Len(buffer[c]) <= call[c].size
       /\ ~HaveMP => tail + call[c].offset + call[c].size <= head
  /\ pc[c] = "drain_add" => tail + call[c].size <= head

(* The inductive invariant: the types, the lock, the distance of the        *)
(* counters, and what every call in progress measured is still so.          *)
FifoInv ==
  /\ TypeOK
  /\ NoOverrun
  /\ LockInv
  /\ \A p \in Producers : PutInv(p)
  /\ \A c \in Consumers : GetInv(c)

(* What the calls in progress know of the slots: what a put has stored is   *)
(* still in its slot when head passes it, and what a get or a peek copied   *)
(* is still what its slots hold.                                            *)
PutData(p) ==
  /\ pc[p] = "put_inc" => data[Slot(head)] = call[p].arg[call[p].l + 1]
  /\ pc[p] = "puta_inc" => call[p].slot = Slot(head)
  /\ pc[p] = "puta_store" => head > 0 /\ call[p].slot = Slot(head - 1)

GetData(c) ==
  /\ pc[c] = "get_inc" => /\ buffer[c] # <<>>
                          /\ buffer[c][Len(buffer[c])] = data[Slot(tail)]
  /\ pc[c] = "geta_inc" => buffer[c] = <<>> /\ call[c].slot = Slot(tail)
  /\ pc[c] = "peek_copy" =>
       \A i \in 1 .. Len(buffer[c]) :
         buffer[c][i] = data[Slot(tail + call[c].offset + i - 1)]

DataInv ==
  /\ \A p \in Producers : PutData(p)
  /\ \A c \in Consumers : GetData(c)
=============================================================================
