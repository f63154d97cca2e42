----------------------------- MODULE TimerQueue -----------------------------
(***************************************************************************)
(* src/xpr_timer_unix.c: a queue of timers served by one thread.           *)
(*                                                                         *)
(* The thread sleeps on a condition variable until the earliest timer of   *)
(* activeTimers expires, then runs every expired timer while it HOLDS the  *)
(* (recursive) lock: other threads wait, but a callback may itself call    *)
(* the queue.  Every other call takes the lock for one list operation,     *)
(* except that the calls by identifier take it twice (find, then act) and  *)
(* that the flags are also changed with no lock at all.                    *)
(*                                                                         *)
(* Time is relative: expire and deadline count the ticks that are left.    *)
(* Overdue is a bound of the model, not of the code: a timer late by more  *)
(* than Overdue ticks counts as late by Overdue.                           *)
(* A timer is an address: a freed one may be allocated again.              *)
(* activeTimers is the sequence of its timers; the order of suspendTimers  *)
(* decides nothing, so it is a set.  A variable of the thread that it will *)
(* assign before it reads it again is reset.                               *)
(*                                                                         *)
(* The model stops when the pass is led astray (GoOn): a callback removed  *)
(* or suspended the very timer the pass was to go on with.                 *)
(***************************************************************************)
EXTENDS Integers, SequencesExt

CONSTANTS Users,         \* application threads
          Timers,        \* addresses XPR_Alloc can return for a timer
          Ids,           \* identifiers the application gives its timers
          Intervals,     \* intervals of its timers, in ticks
          Overdue,       \* how late a timer is told from a later one
          NoId, SingleId, NoTimer

ASSUME TimerUsage == /\ Intervals \subseteq Nat \ {0}
                     /\ \E i \in Intervals : \A j \in Intervals : j <= i
                     /\ Overdue \in Nat
                     /\ {NoId, SingleId} \cap Ids = {} /\ SingleId # NoId
                     /\ NoTimer \notin Timers

VARIABLES timer,      \* contents of each address
          active,     \* activeTimers
          suspended,  \* suspendTimers
          exitLoop,
          queue,      \* "creating", "up", "closing" (in Destroy) or "gone"
          pc,         \* where the thread is in timerQueueLoop
          cur, next,  \* its variables timer and nextTimer
          deadline,   \* until when it waits
          signalled,  \* the condition was signalled since it began to wait
          call        \* call in progress of each application thread

listVars == <<timer, active, suspended>>
loopVars == <<pc, cur, next, deadline>>
vars == <<timer, active, suspended, exitLoop, queue, loopVars, signalled, call>>

Flags == {"ENABLED", "SINGLESHOT", "TERMINATE"}
Latest == CHOOSE i \in Intervals : \A j \in Intervals : j <= i
Never == Latest + 1              \* the deadline of pthread_cond_wait

Freed == [id |-> NoId, interval |-> 0, expire |-> 0, flags |-> {}]
NoCall == [op |-> "none", t |-> NoTimer, id |-> NoId, flags |-> {}]

Live == {t \in Timers : timer[t].id # NoId}
Listed == ToSet(active) \union suspended

\* The thread has taken a timer off its list and chosen the next one.
Running == pc \in {"exec", "callback", "returning"}

\* The thread holds the lock from its wake-up to the end of the pass.
InPass == pc \in {"inspect", "exec", "callback", "returning", "astray"}
LockFree == ~InPass

TypeOK == /\ timer \in [Timers -> [id : Ids \union {NoId, SingleId},
                                   interval : Intervals \union {0},
                                   expire : -Overdue .. Latest,
                                   flags : SUBSET Flags]]
          /\ active \in Seq(Timers)
          /\ suspended \subseteq Timers
          /\ exitLoop \in BOOLEAN /\ signalled \in BOOLEAN
          /\ queue \in {"creating", "up", "closing", "gone"}
          /\ pc \in {"start", "test", "lock", "waiting", "inspect", "exec",
                     "callback", "returning", "astray", "done"}
          /\ cur \in Timers \union {NoTimer} /\ next \in Timers \union {NoTimer}
          /\ deadline \in -Overdue .. Never
          /\ call \in [Users -> [op : {"none", "remove", "resume", "suspend", "terminate"},
                                 t : Timers \union {NoTimer},
                                 id : Ids \union {NoId, SingleId},
                                 flags : SUBSET Flags]]

\* XPR_TimerQueueCreate: the creator waits for the thread's signal.
Init == /\ timer = [t \in Timers |-> Freed]
        /\ active = << >> /\ suspended = {}
        /\ exitLoop = FALSE /\ queue = "creating"
        /\ pc = "start" /\ cur = NoTimer /\ next = NoTimer
        /\ deadline = Never /\ signalled = FALSE
        /\ call = [u \in Users |-> NoCall]

-----------------------------------------------------------------------------
(* The lists and the condition variable.                                   *)

\* A mutant of Inserted: the list is not kept sorted.
InsertedLast(s, t, T) == Append(s, t)

\* slistAppend with nodeCompare: in front of the first timer that expires
\* later.  T holds the expire fields.
Inserted(s, t, T) == LET Follows(u) == T[u].expire > T[t].expire
                         i == SelectInSeq(s, Follows)
                     IN  IF i = 0 THEN Append(s, t) ELSE InsertAt(s, i, t)

First(s) == IF s = << >> THEN NoTimer ELSE Head(s)

NextOf(s, t) == LET Follows(i) == i > 1 /\ s[i - 1] = t
                    S == {i \in DOMAIN s : Follows(i)}
                IN  IF S = {} THEN NoTimer ELSE s[CHOOSE i \in S : TRUE]

\* pthread_cond_signal: only the thread waits on the condition.
Signal == signalled' = (signalled \/ pc = "waiting")

WithFlags(t, f) == [timer EXCEPT ![t] =
                      [id |-> timer[t].id, interval |-> timer[t].interval,
                       expire |-> timer[t].expire, flags |-> f]]

\* Calls of XPR_TimerTerminate that have read the flags of t and not yet
\* written them.
Terminating(t) == {v \in Users : call[v].op = "terminate" /\ call[v].t = t}

\* The calls of done return.  A change of t's flags under the lock is itself
\* a read and a write: that of a Terminate may fall between them and be lost.
Return(done, t) == \E lost \in SUBSET Terminating(t) :
                     call' = [v \in Users |-> IF v \in done \union lost
                                                THEN NoCall ELSE call[v]]

\* XPR_TimerQueueAdd of a timer with contents r.
AddOne(t, r) ==
  /\ timer' = [timer EXCEPT ![t] = r]
  /\ IF "ENABLED" \in r.flags
       THEN active' = Inserted(active, t, timer') /\ UNCHANGED suspended
       ELSE suspended' = suspended \union {t} /\ UNCHANGED active
  /\ Signal

\* XPR_TimerQueueRemove; the application does not free a timer that another
\* of its threads is passing to XPR_TimerTerminate.
RemoveTimer(t, done) ==
  /\ Terminating(t) = {}
  /\ call' = [v \in Users |-> IF v \in done THEN NoCall ELSE call[v]]
  /\ IF t \in Listed
       THEN /\ active' = RemoveFirst(active, t)
            /\ suspended' = IF t \in ToSet(active) THEN suspended ELSE suspended \ {t}
            /\ timer' = [timer EXCEPT ![t] = Freed]
            /\ Signal
       ELSE UNCHANGED <<listVars, signalled>>

\* A mutant of ResumeTimer: the thread is not told.
ResumeQuietly(t, done) ==
  IF t \in suspended
    THEN /\ timer' = WithFlags(t, timer[t].flags \union {"ENABLED"})
         /\ suspended' = suspended \ {t}
         /\ active' = Inserted(active, t, timer)
         /\ UNCHANGED signalled
         /\ Return(done, t)
    ELSE /\ UNCHANGED <<listVars, signalled>>
         /\ call' = [v \in Users |-> IF v \in done THEN NoCall ELSE call[v]]

\* A mutant of ResumeTimer: the timer starts anew, from its old expiry.
ResumePostpones(t, done) ==
  IF t \in suspended
    THEN /\ timer' = [timer EXCEPT ![t] =
                        [id |-> timer[t].id, interval |-> timer[t].interval,
                         expire |-> timer[t].expire + timer[t].interval,
                         flags |-> timer[t].flags \union {"ENABLED"}]]
         /\ suspended' = suspended \ {t}
         /\ active' = Inserted(active, t, timer')
         /\ Signal
         /\ Return(done, t)
    ELSE /\ UNCHANGED <<listVars, signalled>>
         /\ call' = [v \in Users |-> IF v \in done THEN NoCall ELSE call[v]]

\* XPR_TimerQueueResume: the expiry is the one of the last addition.
ResumeTimer(t, done) ==
  IF t \in suspended
    THEN /\ timer' = WithFlags(t, timer[t].flags \union {"ENABLED"})
         /\ suspended' = suspended \ {t}
         /\ active' = Inserted(active, t, timer)
         /\ Signal
         /\ Return(done, t)
    ELSE /\ UNCHANGED <<listVars, signalled>>
         /\ call' = [v \in Users |-> IF v \in done THEN NoCall ELSE call[v]]

\* A mutant of SuspendTimer: the timer is copied to the other list, not taken.
SuspendCopies(t, done) ==
  IF t \in ToSet(active)
    THEN /\ timer' = WithFlags(t, timer[t].flags \ {"ENABLED"})
         /\ suspended' = suspended \union {t}
         /\ UNCHANGED active
         /\ Signal
         /\ Return(done, t)
    ELSE /\ UNCHANGED <<listVars, signalled>>
         /\ call' = [v \in Users |-> IF v \in done THEN NoCall ELSE call[v]]

\* XPR_TimerQueueSuspend
SuspendTimer(t, done) ==
  IF t \in ToSet(active)
    THEN /\ timer' = WithFlags(t, timer[t].flags \ {"ENABLED"})
         /\ active' = RemoveFirst(active, t)
         /\ suspended' = suspended \union {t}
         /\ Signal
         /\ Return(done, t)
    ELSE /\ UNCHANGED <<listVars, signalled>>
         /\ call' = [v \in Users |-> IF v \in done THEN NoCall ELSE call[v]]

Perform(op, t, done) == \/ op = "remove" /\ RemoveTimer(t, done)
                        \/ op = "resume" /\ ResumeTimer(t, done)
                        \/ op = "suspend" /\ SuspendTimer(t, done)

-----------------------------------------------------------------------------
(* The application's threads.                                              *)

Idle(u) == queue = "up" /\ call[u] = NoCall

\* Identifiers are unique among the application's timers.
UnusedIds == {i \in Ids : \A t \in Timers : timer[t].id # i}

NewTimer(i, n, f) == [id |-> i, interval |-> n, expire |-> n, flags |-> f]

NewTimers == {NewTimer(i, n, f) : i \in UnusedIds, n \in Intervals, f \in {{}, {"ENABLED"}}}

SingleShots == {NewTimer(SingleId, n, {"ENABLED", "SINGLESHOT"}) : n \in Intervals}

\* XPR_TimerCreate, XPR_TimerEnable or not, XPR_TimerQueueAdd; with the flags
\* clear it is XPR_TimerQueueAddNew.
AddTimer(u) == /\ Idle(u) /\ LockFree
               /\ \E t \in Timers \ Live, r \in NewTimers : AddOne(t, r)
               /\ UNCHANGED <<exitLoop, queue, loopVars, call>>

\* XPR_TimerQueueSingleShot
SingleShot(u) == /\ Idle(u) /\ LockFree
                 /\ \E t \in Timers \ Live, r \in SingleShots : AddOne(t, r)
                 /\ UNCHANGED <<exitLoop, queue, loopVars, call>>

Begin(u, op, t, id) ==
  call' = [call EXCEPT ![u] = [op |-> op, t |-> t, id |-> id,
                               flags |-> IF op = "terminate" THEN timer[t].flags ELSE {}]]

\* The first half of XPR_TimerQueueRemoveId, ResumeId and SuspendId.  (When
\* FindId returns NULL they return.)
FindId(u) == /\ Idle(u) /\ LockFree
             /\ \E op \in {"remove", "resume", "suspend"}, t \in Listed :
                  /\ timer[t].id # SingleId
                  /\ "TERMINATE" \notin timer[t].flags
                  /\ Begin(u, op, t, timer[t].id)
             /\ UNCHANGED <<listVars, exitLoop, queue, loopVars, signalled>>

\* XPR_TimerQueueRemove, Resume or Suspend is called with a pointer, or
\* XPR_TimerDestroy, which for a timer of the queue is Remove.  (Destroy
\* frees a timer that Remove did not find, one that is running: left out.)
CallWith(u) == /\ Idle(u)
               /\ \E op \in {"remove", "resume", "suspend"}, t \in Live :
                    /\ timer[t].id # SingleId
                    /\ Begin(u, op, t, NoId)
               /\ UNCHANGED <<listVars, exitLoop, queue, loopVars, signalled>>

\* XPR_TimerEnable and XPR_TimerDisable look at the flags without the lock, and
\* do nothing when they have the wanted value already.
EnableOrDisable(u) ==
  /\ Idle(u)
  /\ \E t \in Live :
       /\ timer[t].id # SingleId
       /\ Begin(u, IF "ENABLED" \in timer[t].flags THEN "suspend" ELSE "resume", t, NoId)
  /\ UNCHANGED <<listVars, exitLoop, queue, loopVars, signalled>>

\* XPR_TimerSetInterval: the next expiry the thread computes follows it.
SetInterval(u) ==
  /\ Idle(u)
  /\ \E t \in Live, n \in Intervals :
       /\ timer[t].id # SingleId
       /\ timer' = [timer EXCEPT ![t] = [id |-> timer[t].id, interval |-> n,
                                        expire |-> timer[t].expire, flags |-> timer[t].flags]]
  /\ UNCHANGED <<active, suspended, exitLoop, queue, loopVars, signalled, call>>

\* A mutant of ListCall: the lock is not taken.
ListCallUnlocked(u) ==
  /\ Perform(call[u].op, call[u].t, {u})
  /\ UNCHANGED <<exitLoop, queue, loopVars>>

\* What the call does once it has the lock.
ListCall(u) ==
  /\ LockFree
  /\ Perform(call[u].op, call[u].t, {u})
  /\ UNCHANGED <<exitLoop, queue, loopVars>>

\* XPR_TimerTerminate reads the flags and writes them back with no lock.  The
\* caller owns the timer: it has not terminated it yet.
TerminateRead(u) == /\ Idle(u)
                    /\ \E t \in Live : /\ timer[t].id # SingleId
                                       /\ "TERMINATE" \notin timer[t].flags
                                       /\ Terminating(t) = {}
                                       /\ Begin(u, "terminate", t, NoId)
                    /\ UNCHANGED <<listVars, exitLoop, queue, loopVars, signalled>>

TerminateWrite(u) == /\ call[u].op = "terminate"
                     /\ timer' = WithFlags(call[u].t, call[u].flags \union {"TERMINATE"})
                     /\ call' = [call EXCEPT ![u] = NoCall]
                     /\ UNCHANGED <<active, suspended, exitLoop, queue, loopVars, signalled>>

\* XPR_TimerQueueCreate returns: it was signalled, or woken for no reason.
CreateReturns == /\ queue = "creating" /\ queue' = "up"
                 /\ UNCHANGED <<listVars, exitLoop, loopVars, signalled, call>>

\* XPR_TimerQueueDestroy, when no thread uses the queue any more.
DestroyBegins == /\ queue = "up" /\ LockFree
                 /\ \A u \in Users : call[u] = NoCall
                 /\ exitLoop' = TRUE /\ queue' = "closing"
                 /\ Signal
                 /\ UNCHANGED <<listVars, loopVars, call>>

\* The thread is joined, and the lists are freed with their timers.
DestroyEnds == /\ queue = "closing" /\ pc = "done"
               /\ queue' = "gone"
               /\ active' = << >> /\ suspended' = {}
               /\ timer' = [t \in Timers |-> IF t \in Listed THEN Freed ELSE timer[t]]
               /\ UNCHANGED <<exitLoop, loopVars, signalled, call>>

-----------------------------------------------------------------------------
(* timerQueueLoop.                                                         *)

LoopOnly == UNCHANGED <<listVars, exitLoop, queue, call>>

Start == /\ pc = "start" /\ pc' = "test"
         /\ LoopOnly /\ UNCHANGED <<cur, next, deadline, signalled>>

\* The flag is tested before the lock is taken...
Test == /\ pc = "test"
        /\ pc' = IF exitLoop THEN "done" ELSE "lock"
        /\ LoopOnly /\ UNCHANGED <<cur, next, deadline, signalled>>

\* A mutant of Wait: the wait has no deadline.
WaitForever == /\ pc = "lock" /\ pc' = "waiting"
               /\ deadline' = Never
               /\ signalled' = FALSE
               /\ LoopOnly /\ UNCHANGED <<cur, next>>

\* ... and not again before the wait.
Wait == /\ pc = "lock" /\ pc' = "waiting"
        /\ deadline' = IF active = << >> THEN Never ELSE timer[Head(active)].expire
        /\ signalled' = FALSE
        /\ LoopOnly /\ UNCHANGED <<cur, next>>

WakeUp == /\ cur' = IF exitLoop THEN NoTimer ELSE First(active)
          /\ pc' = IF exitLoop THEN "done" ELSE "inspect"
          /\ deadline' = Never /\ signalled' = FALSE
          /\ LoopOnly /\ UNCHANGED next

Wake == pc = "waiting" /\ (signalled \/ deadline <= 0) /\ WakeUp

SpuriousWake == pc = "waiting" /\ ~signalled /\ deadline > 0 /\ WakeUp

PassEnds == /\ pc = "inspect"
            /\ \/ cur = NoTimer
               \/ cur # NoTimer /\ timer[cur].expire > 0
            /\ pc' = "test" /\ cur' = NoTimer
            /\ LoopOnly /\ UNCHANGED <<next, deadline, signalled>>

\* An expired timer leaves activeTimers, for suspendTimers when disabled.
Inspect == /\ pc = "inspect" /\ cur # NoTimer
           /\ timer[cur].expire <= 0
           /\ active' = RemoveFirst(active, cur)
           /\ IF "ENABLED" \in timer[cur].flags
                THEN /\ next' = NextOf(active, cur) /\ pc' = "exec"
                     /\ UNCHANGED <<suspended, cur>>
                ELSE /\ suspended' = suspended \union {cur}
                     /\ cur' = NextOf(active, cur)
                     /\ UNCHANGED <<next, pc>>
           /\ UNCHANGED <<timer, exitLoop, queue, deadline, signalled, call>>

\* timer = nextTimer.  When the callback removed or suspended that timer, the
\* loop goes on with freed memory, or with one of suspendTimers: the model stops.
GoOn == /\ pc' = IF next \in ToSet(active) \union {NoTimer} THEN "inspect" ELSE "astray"
        /\ cur' = next /\ next' = NoTimer

Free(t) == timer' = [timer EXCEPT ![t] = Freed]

\* timerExec: a terminated timer is freed, any other runs its callback.
Exec == /\ pc = "exec"
        /\ IF "TERMINATE" \in timer[cur].flags
             THEN Free(cur) /\ GoOn
             ELSE pc' = "callback" /\ UNCHANGED <<timer, cur, next>>
        /\ UNCHANGED <<active, suspended, exitLoop, queue, deadline, signalled, call>>

\* The callback calls the queue: it adds a timer, or acts on another by its
\* identifier (it can find neither itself nor a terminated one).
CallbackCall ==
  /\ pc = "callback" /\ pc' = "returning"
  /\ \/ /\ \E t \in Timers \ Live, r \in NewTimers \union SingleShots : AddOne(t, r)
        /\ UNCHANGED call
     \/ \E op \in {"remove", "resume", "suspend"}, t \in Listed :
          /\ timer[t].id # SingleId
          /\ "TERMINATE" \notin timer[t].flags
          /\ Perform(op, t, {})
  /\ UNCHANGED <<exitLoop, queue, cur, next, deadline>>

\* A mutant of AfterCallback: SINGLESHOT does not override the result.
AfterCallbackAsTold(ret) == ret

\* What timerExec returns when the callback returned ret.
AfterCallback(ret) == IF "SINGLESHOT" \in timer[cur].flags THEN "TERMINATE" ELSE ret

\* The callback returns.  The application's callback does not terminate a timer
\* that one of its threads is passing to XPR_TimerTerminate.
CallbackReturns ==
  /\ pc \in {"callback", "returning"} /\ GoOn
  /\ \E ret \in {"CONTINUE", "SUSPEND", "TERMINATE"} :
       LET tr == AfterCallback(ret)
           again == [timer EXCEPT ![cur] =
                       [id |-> timer[cur].id, interval |-> timer[cur].interval,
                        expire |-> timer[cur].interval, flags |-> timer[cur].flags]]
       IN  \/ /\ tr = "CONTINUE"
              /\ timer' = again /\ active' = Inserted(active, cur, again)
              /\ UNCHANGED suspended
           \/ /\ tr = "SUSPEND"
              /\ suspended' = suspended \union {cur}
              /\ UNCHANGED <<timer, active>>
           \/ /\ tr = "TERMINATE" /\ Terminating(cur) = {}
              /\ Free(cur)
              /\ UNCHANGED <<active, suspended>>
  /\ UNCHANGED <<exitLoop, queue, deadline, signalled, call>>

-----------------------------------------------------------------------------
(* Time.                                                                   *)

\* One tick later, up to the bound Overdue.
Later(left) == IF left > -Overdue THEN left - 1 ELSE left

\* The monotonic clock of XPR_SYS_GetCTS and of the condition variable.
Tick == /\ timer' = [t \in Timers |->
                       IF t \notin Live THEN Freed
                       ELSE [id |-> timer[t].id, interval |-> timer[t].interval,
                             expire |-> Later(timer[t].expire), flags |-> timer[t].flags]]
        /\ deadline' = IF deadline = Never THEN Never ELSE Later(deadline)
        /\ UNCHANGED <<active, suspended, exitLoop, queue, pc, cur, next, signalled, call>>

\* A queue that was destroyed stays so, and so does a pass that went astray.
Over == (queue = "gone" \/ pc = "astray") /\ UNCHANGED vars

LoopStep == Start \/ Test \/ Wait \/ Wake \/ PassEnds \/ Inspect \/ Exec \/ CallbackReturns

UserStep(u) == \/ AddTimer(u) \/ SingleShot(u) \/ FindId(u) \/ CallWith(u)
               \/ EnableOrDisable(u) \/ SetInterval(u) \/ TerminateRead(u) \/ ListCall(u) \/ TerminateWrite(u)

Next == \/ \E u \in Users : UserStep(u)
        \/ CreateReturns \/ DestroyBegins \/ DestroyEnds
        \/ LoopStep \/ SpuriousWake \/ CallbackCall
        \/ Tick \/ Over

\* The thread is scheduled, its callbacks return, time passes, and calls that
\* have begun go on.  Nobody has to call, and nothing wakes for no reason.
Fairness == /\ WF_vars(LoopStep) /\ WF_vars(Tick) /\ WF_vars(DestroyEnds)
            /\ WF_vars(CreateReturns)
            /\ \A u \in Users : WF_vars(ListCall(u) \/ TerminateWrite(u))

Spec == Init /\ [][Next]_vars /\ Fairness

-----------------------------------------------------------------------------
(* Properties.                                                             *)

\* A timer of the queue is on exactly one of its lists, once, except the one the
\* thread has taken off to run it: calls, callbacks and the pass neither lose a
\* timer, nor list it twice, nor keep a freed one.
OneList == LET taken == IF Running THEN {cur} ELSE {}
           IN  /\ IsInjective(active)
               /\ ToSet(active) \cap suspended = {}
               /\ Listed \cap taken = {}
               /\ Live = Listed \union taken

\* A thread that sleeps with nothing to wake it sleeps no longer than the
\* earliest active timer: whoever makes another timer the earliest signals it.
NoOversleep == pc = "waiting" /\ ~signalled =>
                 \A t \in ToSet(active) : deadline <= timer[t].expire

\* Between the choice of nextTimer (224) and its use (238) only a call that the
\* running callback itself makes takes this timer off activeTimers: no thread of
\* the application does, whatever call it was in the middle of.
NextStays == [][Running /\ next \in ToSet(active) /\ next \notin ToSet(active')
                  => pc = "callback" /\ pc' = "returning"]_vars

\* A single shot timer that was taken to run does not come back on a list.
SingleShotOnce == [][\A t \in Live \ Listed :
                       "SINGLESHOT" \in timer[t].flags => t \notin Listed']_vars

\* As long as each pass ends, an active timer is taken to run, removed or suspended
\* in the end.  (A pass that callbacks longer than the intervals keep going for
\* ever does starve a timer that was inserted behind it.)
ActiveFires == []<>~InPass => \A t \in Timers : t \in ToSet(active) ~> t \notin ToSet(active)

\* XPR_TimerQueueDestroy returns.
DestroyReturns == queue = "closing" ~> queue = "gone"
=============================================================================
