------------------------------ MODULE RtspStream ------------------------------
(***************************************************************************)
(* src/drivers/rtsp/live/rtsp_server.cpp: one stream of the RTSP server,   *)
(* from XPR_RTSP_PushData to the frames handed to live555, with the worker *)
(* (rtsp_worker.cpp) whose thread fetches them and the calls that open,    *)
(* start, stop and close both (through rtsp.cpp).                          *)
(*                                                                         *)
(* Stream has no lock: pushers and the worker's thread meet in the fifo    *)
(* mVideoQ, each call of which is one step (module Fifo, HAVE_MP), and a   *)
(* push or a fetch is several such calls.  The audio queue has the same    *)
(* code.  A frame is the block that is queued, the caller's own            *)
(* (REFERABLE) or a duplicate; NoFrame is queued when none was allocated.  *)
(*                                                                         *)
(* One thread of the application makes the calls that open, start, stop    *)
(* and close.  As rtsp_server.cpp:1379 asks, it stops a server it started  *)
(* before it closes it; and it closes a stream when nobody pushes to it    *)
(* and, like tests/rtsp.c, when it has stopped the stream and the server.  *)
(***************************************************************************)
EXTENDS Integers, FiniteSets, SequencesExt

CONSTANTS Pushers,     \* threads that push to the stream
          Capacity,    \* vql, the length of the video queue
          MaxFrames,   \* bound: frames of each pusher
          NoFrame, NoQueue

Frames == Pushers \X (1 .. MaxFrames)

ASSUME StreamConstants == /\ Capacity \in Nat \ {0} /\ MaxFrames \in Nat
                          /\ NoFrame \notin Frames
                          /\ NoQueue \notin Seq(Frames \union {NoFrame})

VARIABLES flags,     \* activeFlags of the server; {} when there is no server
          session,   \* mSMS of the stream: "none", "created" or "added"
          queue,     \* mVideoQ
          exitLoop, thread, \* of the worker; "none" is mThread = NULL
          app,       \* the application's call that joins the worker's thread
          running,   \* the application started the server and did not stop it
          fetch,     \* the frame source: "off", "due", "get" or "given"
          push, sent,   \* per pusher: where its push is, frames it pushed
          released, leaked  \* history: frames released, frames nobody will

server == <<flags, session, exitLoop, thread, app, running>>
history == <<released, leaked>>
vars == <<server, queue, fetch, push, sent, history>>

TypeOK == /\ flags \subseteq {"OPEN", "START", "STOP"}
          /\ session \in {"none", "created", "added"}
          /\ queue = NoQueue \/ queue \in Seq(Frames \union {NoFrame})
          /\ exitLoop \in BOOLEAN /\ running \in BOOLEAN
          /\ thread \in {"none", "top", "turn", "exited"}
          /\ app \in {"idle", "stopping", "closing"}
          /\ fetch \in {"off", "due", "get", "given"}
          /\ push \in [Pushers -> {"idle", "drop", "put"}]
          /\ sent \in [Pushers -> 0 .. MaxFrames]
          /\ released \subseteq Frames /\ leaked \subseteq Frames

Init == /\ flags = {} /\ session = "none" /\ queue = NoQueue
        /\ exitLoop = FALSE /\ thread = "none" /\ app = "idle" /\ running = FALSE
        /\ fetch = "off"
        /\ push = [p \in Pushers |-> "idle"] /\ sent = [p \in Pushers |-> 0]
        /\ released = {} /\ leaked = {}

Queued == IF queue = NoQueue THEN {} ELSE ToSet(queue) \ {NoFrame}
NobodyPushes == \A p \in Pushers : push[p] = "idle"

-----------------------------------------------------------------------------
(* The server and its worker's thread.                                     *)

OpenServer ==
  /\ app = "idle" /\ flags = {}
  /\ flags' = {"OPEN"} /\ exitLoop' = FALSE
  /\ UNCHANGED <<session, thread, app, running, queue, fetch, push, sent, history>>

\* A mutant of StartServer: the worker's exit flag is reset.
StartServerAfresh ==
  /\ app = "idle" /\ flags # {}
  /\ thread' = IF thread = "none" THEN "top" ELSE thread
  /\ flags' = flags \union {"START"} /\ running' = TRUE /\ exitLoop' = FALSE
  /\ UNCHANGED <<session, app, queue, fetch, push, sent, history>>

\* Worker::start says BUSY when there is a thread, which startServer ignores.
StartServer ==
  /\ app = "idle" /\ flags # {}
  /\ thread' = IF thread = "none" THEN "top" ELSE thread
  /\ flags' = flags \union {"START"} /\ running' = TRUE
  /\ UNCHANGED <<exitLoop, session, app, queue, fetch, push, sent, history>>

\* A mutant of StopServer: the thread is joined before it is told to exit.
StopJoinsFirst ==
  /\ app = "idle" /\ "START" \in flags
  /\ IF thread = "none"
       THEN flags' = flags \union {"STOP"} /\ running' = FALSE /\ UNCHANGED app
       ELSE app' = "stopping" /\ UNCHANGED <<flags, running>>
  /\ UNCHANGED <<exitLoop, session, thread, queue, fetch, push, sent, history>>

\* Worker::stop: the flag, then the join.
StopServer ==
  /\ app = "idle" /\ "START" \in flags
  /\ IF thread = "none"
       THEN /\ flags' = flags \union {"STOP"} /\ running' = FALSE
            /\ UNCHANGED <<exitLoop, app>>
       ELSE /\ exitLoop' = TRUE /\ app' = "stopping"
            /\ UNCHANGED <<flags, running>>
  /\ UNCHANGED <<session, thread, queue, fetch, push, sent, history>>

StopReturns ==
  /\ app = "stopping" /\ thread = "exited"
  /\ thread' = "none" /\ app' = "idle"
  /\ flags' = flags \union {"STOP"} /\ running' = FALSE
  /\ UNCHANGED <<session, exitLoop, queue, fetch, push, sent, history>>

\* clearServer of rtsp.cpp.  closeServer closes the clients and deletes the
\* streams, with the queue of an open one, before ~Worker joins the thread; of
\* a server that was never started it deletes nothing.
CloseServer ==
  /\ app = "idle" /\ flags # {} /\ NobodyPushes
  /\ "START" \in flags => "STOP" \in flags
  /\ app' = "closing" /\ exitLoop' = TRUE
  /\ session' = "none" /\ fetch' = "off"
  /\ queue' = NoQueue /\ leaked' = leaked \union Queued
  /\ UNCHANGED <<flags, thread, running, push, sent, released>>

CloseReturns ==
  /\ app = "closing" /\ thread \in {"none", "exited"}
  /\ app' = "idle" /\ flags' = {} /\ thread' = "none" /\ running' = FALSE
  /\ UNCHANGED <<session, exitLoop, queue, fetch, push, sent, history>>

-----------------------------------------------------------------------------
(* The stream.                                                             *)

OpenStream ==
  /\ app = "idle" /\ flags # {} /\ queue = NoQueue
  /\ queue' = << >> /\ session' = "created"
  /\ UNCHANGED <<flags, exitLoop, thread, app, running, fetch, push, sent, history>>

StartStream ==
  /\ app = "idle" /\ session # "none"
  /\ session' = "added"
  /\ UNCHANGED <<flags, exitLoop, thread, app, running, queue, fetch, push, sent, history>>

\* The clients that play the stream go on.
StopStream ==
  /\ app = "idle" /\ session # "none"
  /\ session' = "none"
  /\ UNCHANGED <<flags, exitLoop, thread, app, running, queue, fetch, push, sent, history>>

\* How the application closes a stream; Stream::close checks none of it, and
\* closing a stream that is pushed to or fetched from destroys the queue under
\* its users.
ClosedLast == NobodyPushes /\ session = "none" /\ ~running

\* The queue is destroyed with the frames in it.
CloseStream ==
  /\ app = "idle" /\ flags # {} /\ queue # NoQueue
  /\ ClosedLast
  /\ queue' = NoQueue /\ leaked' = leaked \union Queued
  /\ UNCHANGED <<server, fetch, push, sent, released>>

-----------------------------------------------------------------------------
(* putVideoFrame                                                           *)

\* The application sees a push of a closed stream fail.
PushTest(p) ==
  /\ push[p] = "idle" /\ queue # NoQueue /\ app # "closing" /\ sent[p] < MaxFrames
  /\ sent' = [sent EXCEPT ![p] = @ + 1]
  /\ push' = [push EXCEPT ![p] = IF Len(queue) = Capacity THEN "drop" ELSE "put"]
  /\ UNCHANGED <<server, queue, fetch, history>>

\* A mutant of PushDrop: the frame that is dropped is not released.
PushLeaks(p) ==
  /\ push[p] = "drop"
  /\ IF queue = << >> THEN UNCHANGED queue ELSE queue' = Tail(queue)
  /\ push' = [push EXCEPT ![p] = "put"]
  /\ UNCHANGED <<server, fetch, sent, history>>

\* releaseVideoFrame(getVideoFrame()), the queue full or not any more.
PushDrop(p) ==
  /\ push[p] = "drop"
  /\ IF queue = << >>
       THEN UNCHANGED <<queue, released>>
       ELSE queue' = Tail(queue) /\ released' = released \union ({Head(queue)} \ {NoFrame})
  /\ push' = [push EXCEPT ![p] = "put"]
  /\ UNCHANGED <<server, fetch, sent, leaked>>

\* Duplicate, put, and release what another pusher left no room for.
PushPut(p) ==
  /\ push[p] = "put"
  /\ \E f \in {<<p, sent[p]>>, NoFrame} :
       /\ queue' = IF Len(queue) < Capacity THEN Append(queue, f) ELSE queue
       /\ released' = released \union ({<<p, sent[p]>>} \ ToSet(queue'))
  /\ push' = [push EXCEPT ![p] = "idle"]
  /\ UNCHANGED <<server, fetch, sent, leaked>>

-----------------------------------------------------------------------------
(* The worker's thread: Worker::run, one handler of live555 per turn.      *)

LoopTest ==
  /\ thread = "top"
  /\ thread' = IF exitLoop THEN "exited" ELSE "turn"
  /\ UNCHANGED <<flags, session, exitLoop, app, running, queue, fetch, push, sent, history>>

EndOfTurn(f) == /\ thread = "turn" /\ thread' = "top" /\ fetch' = f
                /\ UNCHANGED <<flags, session, exitLoop, app, running, push, sent, leaked>>

\* Nothing was due; a client began to play, or left (~FramedSource).
IdleTurn == fetch # "get" /\ EndOfTurn(fetch) /\ UNCHANGED <<queue, released>>
ClientPlays == fetch = "off" /\ session = "added" /\ EndOfTurn("due") /\ UNCHANGED <<queue, released>>
ClientLeaves == fetch \in {"due", "given"} /\ EndOfTurn("off") /\ UNCHANGED <<queue, released>>

\* The RTP sink asks for the next frame: doGetNextFrame.
SinkAsks == fetch = "given" /\ EndOfTurn("due") /\ UNCHANGED <<queue, released>>

\* A mutant of FetchTest: the test is the wrong way round.
FetchWhenEmpty ==
  /\ thread = "turn" /\ fetch = "due"
  /\ IF queue # << >> THEN EndOfTurn("due") /\ UNCHANGED <<queue, released>>
     ELSE /\ fetch' = "get"
          /\ UNCHANGED <<server, queue, push, sent, history>>

\* A mutant of FetchTest: there is no test.
FetchUntested ==
  /\ thread = "turn" /\ fetch = "due" /\ fetch' = "get"
  /\ UNCHANGED <<server, queue, push, sent, history>>

\* fetchFrame: with no frame, another look 5 ms later.
FetchTest ==
  /\ thread = "turn" /\ fetch = "due"
  /\ IF queue = << >> THEN EndOfTurn("due") /\ UNCHANGED <<queue, released>>
     ELSE /\ fetch' = "get"
          /\ UNCHANGED <<server, queue, push, sent, history>>

\* A mutant of FetchGet: a queued NULL is released too.
FetchReleasesNull ==
  /\ fetch = "get" /\ EndOfTurn("given")
  /\ IF queue = << >>
       THEN UNCHANGED <<queue, released>>
       ELSE queue' = Tail(queue) /\ released' = released \union {Head(queue)}

\* The frame is copied and released; afterGetting.
FetchGet ==
  /\ fetch = "get" /\ EndOfTurn("given")
  /\ IF queue = << >>
       THEN UNCHANGED <<queue, released>>
       ELSE queue' = Tail(queue) /\ released' = released \union ({Head(queue)} \ {NoFrame})

-----------------------------------------------------------------------------
Calls == \/ OpenServer \/ StartServer \/ StopServer \/ StopReturns
         \/ CloseServer \/ CloseReturns
         \/ OpenStream \/ StartStream \/ StopStream \/ CloseStream

Pushes == \E p \in Pushers : PushTest(p) \/ PushDrop(p) \/ PushPut(p)

Fetches == FetchTest \/ FetchGet
Turns == IdleTurn \/ ClientPlays \/ ClientLeaves \/ SinkAsks \/ Fetches

Next == Calls \/ Pushes \/ LoopTest \/ Turns

Spec == Init /\ [][Next]_vars

\* The thread goes on, and live555's scheduler runs in the end what is due.
FairSpec == /\ Spec
            /\ WF_vars(LoopTest) /\ WF_vars(IdleTurn)
            /\ SF_vars(Fetches) /\ SF_vars(SinkAsks)
            /\ WF_vars(StopReturns) /\ WF_vars(CloseReturns)

-----------------------------------------------------------------------------
(* Properties.                                                             *)

InHand(p, n) == n = sent[p] /\ push[p] # "idle"
TimesQueued(f) == IF queue = NoQueue THEN 0
                  ELSE Cardinality({i \in DOMAIN queue : queue[i] = f})

\* A frame that was pushed is in the pusher's hand, in the queue, released or
\* lost with a queue that was closed: it is nowhere twice, though pushers drop
\* each other's frames and the thread takes them away meanwhile.
FramesAccounted ==
  \A p \in Pushers : \A n \in 1 .. sent[p] :
    LET f == <<p, n>> IN
    TimesQueued(f) + Cardinality({x \in {"hand", "released", "leaked"} :
        \/ x = "hand" /\ InHand(p, n)
        \/ x = "released" /\ f \in released
        \/ x = "leaked" /\ f \in leaked}) = 1

\* The thread uses neither a queue that was destroyed nor streams that
\* closeServer deleted, although that deletes them before it joins the thread:
\* stopping has joined it, and a worker that was started again exits at once,
\* since mExitLoop stays set.  (That a stream is closed last is ClosedLast.)
StreamAlive == thread = "turn" => /\ app # "closing"
                                  /\ fetch \in {"due", "get"} => queue # NoQueue

\* rtsp_server.cpp:485 says "Should never run here" of a fetch that finds no
\* frame after its test: it may, but only while a pusher that dropped the last
\* frame is about to put its own.
EmptyFetchIsBrief ==
  fetch = "get" /\ queue = << >> => \E p \in Pushers : push[p] = "put"

\* A queued frame is fetched or dropped in the end while a client plays, until
\* the server is stopped (for ever: a worker does not run a second time).
Served ==
  \A f \in Frames : f \in Queued /\ fetch # "off" /\ thread # "none" /\ ~exitLoop
                      ~> f \notin Queued \/ fetch = "off" \/ exitLoop

\* XPR_RTSP_Stop and XPR_RTSP_Close join a thread that exits.
CallsReturn == app # "idle" ~> app = "idle"
===============================================================================
