--------------------------- MODULE RtspConnection ---------------------------
(***************************************************************************)
(* A client port of src/drivers/rtsp/live: Connection and MyRTSPClient of  *)
(* rtsp_connection.cpp, and the loop of their Worker (rtsp_worker.cpp).    *)
(*                                                                         *)
(* The application calls open, start, stop and close in its own thread.    *)
(* start and stop only put a task in the worker's fifo and THEN mark the   *)
(* port PENDING; the worker runs the tasks and, between them, one event of *)
(* the live555 scheduler at a time: a reply of the server, the end of the  *)
(* stream, or a delayed task.  Both threads change the flags of the port   *)
(* by plain read and write.                                                *)
(*                                                                         *)
(* A client object is an address; what its server answers, and whether     *)
(* media arrived in time, is chosen by the environment.  Delayed tasks may *)
(* run at any time.                                                        *)
(***************************************************************************)
EXTENDS Naturals, Sequences, FiniteSets

CONSTANTS Clients,     \* addresses of MyRTSPClient objects
          Tokens,      \* tokens of delayed restart tasks
          MaxTasks,    \* capacity of the fifo of tasks
          Careful,     \* the application starts, stops and closes in turn
          None

ASSUME ConnectionUsage == /\ MaxTasks \in Nat \ {0} /\ Careful \in BOOLEAN
                          /\ None \notin Clients /\ None \notin Tokens

VARIABLES flags,        \* mActiveFlags
          autoRestart,  \* mAutoRestart
          mClient,
          mRestartTask, \* token of the last restart task, even after it ran
          restarts,     \* tokens of the restart tasks in the scheduler
          tasks,        \* mAsyncTasks
          client,       \* the client objects
          loop,         \* where the worker's thread is in Worker::run and what it calls
          app,          \* the application's call of start or stop in progress
          asked,        \* the application's last successful call was start
          last          \* the last task that was run

portVars == <<flags, autoRestart, mClient, mRestartTask, restarts>>
vars == <<portVars, tasks, client, loop, app, asked, last>>

PortFlags == {"OPEN", "START", "STOP", "PENDING", "RESTART"}

\* A client object: the reply it waits for ("none" when it waits for no more,
\* "refused" when PLAY failed and setPlaying(false) is still to be called),
\* mIsPlaying, whether it has sinks, whether the delayed tasks keepAlive,
\* timeoutCheck and streamTimerHandler are due, whether a GET_PARAMETER is
\* unanswered, and whether it reported a failure with mAutoRestart set.
Closed == [awaits |-> "closed", playing |-> FALSE, sinks |-> FALSE, keepAlive |-> FALSE,
           timeoutCheck |-> FALSE, ending |-> FALSE, parameter |-> FALSE, failed |-> FALSE]
Created == [Closed EXCEPT !.awaits = "DESCRIBE"]

Live == {c \in Clients : client[c].awaits # "closed"}

Idle == [pc |-> "idle", read |-> {}]

\* The places of stop before it puts its task.
Stopping == {"cancel", "forget", "put stop"}

ClientType == [awaits : {"closed", "DESCRIBE", "SETUP", "PLAY", "refused", "none"},
               playing : BOOLEAN, sinks : BOOLEAN, keepAlive : BOOLEAN,
               timeoutCheck : BOOLEAN, ending : BOOLEAN, parameter : BOOLEAN,
               failed : BOOLEAN]
AppType == [pc : {"idle", "read", "write"} \union Stopping, read : SUBSET PortFlags]
LoopType == {"drain", "step", "restart", "schedule", "mark", "refused"}

TypeOK == /\ flags \subseteq PortFlags
          /\ autoRestart \in BOOLEAN /\ asked \in BOOLEAN
          /\ mClient \in Clients \union {None}
          /\ mRestartTask \in Tokens \union {None} /\ restarts \subseteq Tokens
          /\ tasks \in Seq({"start", "stop"}) /\ Len(tasks) <= MaxTasks
          /\ client \in [Clients -> ClientType]
          /\ loop \in LoopType
          /\ app \in AppType
          /\ last \in {"none", "start", "stop"}

Init == /\ flags = {} /\ autoRestart = FALSE
        /\ mClient = None /\ mRestartTask = None /\ restarts = {}
        /\ tasks = << >>
        /\ client = [c \in Clients |-> Closed]
        /\ loop = "drain"
        /\ app = Idle /\ asked = FALSE /\ last = "none"

-----------------------------------------------------------------------------
(* The application.                                                        *)

\* Connection::open; the URL may set mAutoRestart or clear it.
Open == /\ app = Idle
        /\ "OPEN" \notin flags
        /\ autoRestart' \in BOOLEAN
        /\ flags' = {"OPEN"}
        /\ UNCHANGED <<mClient, mRestartTask, restarts, tasks, client, loop, app, asked, last>>

\* Connection::close
Close == /\ app = Idle /\ (Careful => ~asked)
         /\ flags # {}
         /\ "PENDING" \notin flags
         /\ "START" \in flags => "STOP" \in flags
         /\ flags' = {}
         /\ UNCHANGED <<autoRestart, mClient, mRestartTask, restarts, tasks, client,
                        loop, app, asked, last>>

\* A mutant of AsyncTask: the wrong task is put.
AsyncTaskRestart(task) == /\ Len(tasks) < MaxTasks
                          /\ tasks' = Append(tasks, "restart")
                          /\ app' = [Idle EXCEPT !.pc = "read"]

\* Worker::asyncTask; a full fifo refuses the task.
AsyncTask(task) == /\ Len(tasks) < MaxTasks
                   /\ tasks' = Append(tasks, task)
                   /\ app' = [Idle EXCEPT !.pc = "read"]

\* Connection::start up to its last statement
StartPut == /\ app = Idle /\ (Careful => ~asked)
            /\ "OPEN" \in flags
            /\ "PENDING" \notin flags
            /\ AsyncTask("start")
            /\ asked' = TRUE
            /\ UNCHANGED <<portVars, client, loop, last>>

\* Connection::stop: no failure restarts the port from now on, ...
StopDisable == /\ app = Idle /\ (Careful => asked)
               /\ autoRestart' = FALSE
               /\ app' = [Idle EXCEPT !.pc = "cancel"]
               /\ UNCHANGED <<flags, mClient, mRestartTask, restarts, tasks, client,
                              loop, asked, last>>

\* ... and the restart task it knows of is cancelled, and forgotten with
\* whatever task the worker has put in its place, ...
StopCancel == /\ app.pc = "cancel"
              /\ restarts' = restarts \ {mRestartTask}
              /\ app' = [Idle EXCEPT !.pc = IF mRestartTask = None THEN "put stop" ELSE "forget"]
              /\ UNCHANGED <<flags, autoRestart, mClient, mRestartTask, tasks, client,
                             loop, asked, last>>

StopForget == /\ app.pc = "forget"
              /\ mRestartTask' = None
              /\ app' = [Idle EXCEPT !.pc = "put stop"]
              /\ UNCHANGED <<flags, autoRestart, mClient, restarts, tasks, client,
                             loop, asked, last>>

\* ... then puts its task, ...
StopPut == /\ app.pc = "put stop"
           /\ IF "START" \in flags /\ "PENDING" \notin flags /\ Len(tasks) < MaxTasks
                THEN AsyncTask("stop") /\ asked' = FALSE
                ELSE app' = Idle /\ UNCHANGED <<tasks, asked>>
           /\ UNCHANGED <<portVars, client, loop, last>>

\* ... and like start it marks the port PENDING when the task is in the fifo.
MarkRead == /\ app.pc = "read"
            /\ app' = [pc |-> "write", read |-> flags]
            /\ UNCHANGED <<portVars, tasks, client, loop, asked, last>>

MarkWrite == /\ app.pc = "write"
             /\ flags' = app.read \union {"PENDING"}
             /\ app' = Idle
             /\ UNCHANGED <<autoRestart, mClient, mRestartTask, restarts, tasks, client,
                            loop, asked, last>>

-----------------------------------------------------------------------------
(* The worker's changes of the port.                                       *)

\* activeFlags(added, removed) in the worker: a write of the application that
\* falls between the worker's read and its write is lost.
FlagsBecome(f) == /\ flags' = f
                  /\ \/ UNCHANGED app
                     \/ app.pc = "write" /\ app' = Idle

\* stateChanged(STOP_CLOSE)
StopClose == IF {"START", "PENDING"} \subseteq flags
               THEN FlagsBecome((flags \union {"STOP"}) \ {"PENDING"})
               ELSE UNCHANGED <<flags, app>>

\* Where the worker goes on after stateChanged.
Onward == IF \E c \in Clients : client'[c].awaits = "refused" THEN "refused" ELSE "drain"

\* Connection::restart: a delayed task, whose token replaces the former one, ...
FreeTokens == Tokens \ (restarts \union {mRestartTask})

ScheduleRestart == /\ loop = "schedule" /\ loop' = "mark"
                   /\ \E k \in FreeTokens : /\ restarts' = restarts \union {k}
                                            /\ mRestartTask' = k
                   /\ UNCHANGED <<flags, autoRestart, mClient, tasks, client, app, asked, last>>

\* ... and then the mark.
MarkRestart == /\ loop = "mark"
               /\ FlagsBecome(flags \union {"RESTART"})
               /\ UNCHANGED <<autoRestart, mClient, mRestartTask, restarts, tasks, client,
                              asked, last>>
               /\ loop' = Onward

\* A mutant of Reports: a time-out does not restart.
ReportsButTimeout(tr) == tr \in {"PLAYING_STOP", "START_UNREACHED"}

\* The transitions for which stateChanged may restart.
Reports(tr) == tr \in {"PLAYING_STOP", "PLAYING_TIMEOUT", "START_UNREACHED"}

\* stateChanged(tr) called by client c, whose fields become r.  The bound on
\* restart tasks is here: the application takes tokens away only.
StateChanged(c, r, tr) ==
  LET again == Reports(tr) /\ autoRestart
  IN  /\ again => FreeTokens # {}
      /\ IF tr \in {"START_PLAYING", "START_STOP"}
           THEN FlagsBecome((flags \union {"START"}) \ {"PENDING"})
           ELSE UNCHANGED <<flags, app>>
      /\ client' = [client EXCEPT ![c] =
           [r EXCEPT !.failed = @ \/ (autoRestart /\ tr \in {"PLAYING_STOP", "PLAYING_TIMEOUT",
                                                              "START_UNREACHED"})]]
      /\ loop' = IF again THEN "schedule" ELSE Onward

\* setTimeouted: START_TIMEOUT is ignored by stateChanged.
SetTimeouted(c, r) ==
  StateChanged(c, r, IF r.playing THEN "PLAYING_TIMEOUT" ELSE "START_TIMEOUT")

\* setPlaying(false)
SetStopped(c, r) ==
  StateChanged(c, [r EXCEPT !.playing = FALSE],
               IF r.playing THEN "PLAYING_STOP" ELSE "START_STOP")

-----------------------------------------------------------------------------
(* The worker: tasks.                                                      *)

\* The fifo was seen empty.
Drained == /\ loop = "drain" /\ tasks = << >>
           /\ loop' = "step"
           /\ UNCHANGED <<portVars, tasks, client, app, asked, last>>

\* What the rest of the fifo is once a task was taken.
TaskIs(task) == /\ loop = "drain" /\ tasks # << >> /\ Head(tasks) = task
                /\ tasks' = Tail(tasks)
                /\ last' = task

\* startInTask: whatever client there was is forgotten.
StartInTask == /\ TaskIs("start")
               /\ \E c \in Clients \ Live :
                    /\ mClient' = c
                    /\ client' = [client EXCEPT ![c] = Created]
               /\ FlagsBecome((flags \union {"START"}) \ {"PENDING"})
               /\ UNCHANGED <<autoRestart, mRestartTask, restarts, loop, asked>>

\* A mutant of StopInTask: mClient still points to the closed client.
StopInTaskKeeps == /\ TaskIs("stop")
                   /\ IF mClient = None
                        THEN UNCHANGED <<flags, mClient, client, app>>
                        ELSE /\ client' = [client EXCEPT ![mClient] = Closed]
                             /\ UNCHANGED mClient
                             /\ StopClose
                   /\ UNCHANGED <<autoRestart, mRestartTask, restarts, loop, asked>>

\* stopInTask: nothing at all when there is no client.
StopInTask == /\ TaskIs("stop")
              /\ IF mClient = None
                   THEN UNCHANGED <<flags, mClient, client, app>>
                   ELSE /\ client' = [client EXCEPT ![mClient] = Closed]
                        /\ mClient' = None
                        /\ StopClose
              /\ UNCHANGED <<autoRestart, mRestartTask, restarts, loop, asked>>

-----------------------------------------------------------------------------
(* The worker: events of the scheduler.                                    *)

Event == loop = "step" /\ UNCHANGED <<autoRestart, mRestartTask, restarts, tasks, asked, last>>

\* The event leaves the port as it is.
PortSame == loop' = "drain" /\ UNCHANGED <<flags, app>>

\* SingleStep returns with nothing done.
NoEvent == Event /\ PortSame /\ UNCHANGED <<mClient, client>>

\* A new client in the place of mClient, if there was one.
Replace == \E c \in (Clients \ Live) \union ({mClient} \ {None}) :
             /\ client' = [d \in Clients |-> IF d = c THEN Created
                                             ELSE IF d = mClient THEN Closed
                                             ELSE client[d]]
             /\ mClient' = c

\* restartInTask clears PENDING, ...
RestartBegins ==
  /\ loop = "step" /\ loop' = "restart"
  /\ \E k \in restarts : restarts' = restarts \ {k}
  /\ FlagsBecome(flags \ {"PENDING"})
  /\ UNCHANGED <<autoRestart, mClient, mRestartTask, tasks, client, asked, last>>

\* A mutant of RestartInTask: it starts although there was nothing to stop.
RestartInTaskAnyway ==
  /\ loop = "restart" /\ loop' = "drain"
  /\ Replace /\ FlagsBecome((flags \union {"START"}) \ {"PENDING", "RESTART"})
  /\ UNCHANGED <<autoRestart, mRestartTask, restarts, tasks, asked, last>>

\* ... then stops the client, if there is one, and starts another: the port is
\* marked STOP only when the application marked it PENDING in between.
RestartInTask ==
  /\ loop = "restart" /\ loop' = "drain"
  /\ IF mClient = None
       THEN FlagsBecome(flags \ {"RESTART"}) /\ UNCHANGED <<mClient, client>>
       ELSE LET stopped == IF {"START", "PENDING"} \subseteq flags THEN {"STOP"} ELSE {}
            IN  /\ Replace
                /\ FlagsBecome((flags \union stopped \union {"START"}) \ {"PENDING", "RESTART"})
  /\ UNCHANGED <<autoRestart, mRestartTask, restarts, tasks, asked, last>>

\* An event of client c: live555 calls the handlers of objects that exist only.
Of(c) == Event /\ c \in Live /\ UNCHANGED mClient

\* continueAfterDESCRIBE: an error, a description that does not parse, or one
\* without media, is reported; otherwise the first track is set up, or when
\* none can be initiated the session is played.
DescribeReply(c) == /\ Of(c) /\ client[c].awaits = "DESCRIBE"
                    /\ \/ StateChanged(c, [client[c] EXCEPT !.awaits = "none"], "START_UNREACHED")
                       \/ /\ \E next \in {"SETUP", "PLAY"} :
                               client' = [client EXCEPT ![c].awaits = next]
                          /\ PortSame

\* continueAfterSETUP: the track gets a sink or, after an error, none.
SetupReply(c) == /\ Of(c) /\ client[c].awaits = "SETUP"
                 /\ \E next \in {"SETUP", "PLAY"}, ok \in BOOLEAN :
                      client' = [client EXCEPT ![c].awaits = next, ![c].sinks = @ \/ ok]
                 /\ PortSame

\* continueAfterPLAY: whatever the reply, keepAlive and timeoutCheck are scheduled.
Playing(c, ends) == [client[c] EXCEPT !.awaits = "none", !.playing = TRUE,
                                      !.ending = ends, !.keepAlive = TRUE, !.timeoutCheck = TRUE]

PlayReply(c) == /\ Of(c) /\ client[c].awaits = "PLAY"
                /\ \E ends \in BOOLEAN : StateChanged(c, Playing(c, ends), "START_PLAYING")

\* After an error setUnreached is called first, which may restart, ...
PlayRefused(c) == /\ Of(c) /\ client[c].awaits = "PLAY"
                  /\ StateChanged(c, [client[c] EXCEPT !.awaits = "refused"], "START_UNREACHED")

\* ... and setPlaying(false) when that is done.
PlayStops(c) ==
  /\ loop = "refused" /\ client[c].awaits = "refused"
  /\ SetStopped(c, [Playing(c, FALSE) EXCEPT !.playing = client[c].playing])
  /\ UNCHANGED <<autoRestart, mClient, mRestartTask, restarts, tasks, asked, last>>

\* keepAlive sends a GET_PARAMETER.
KeepAlive(c) == /\ Of(c) /\ client[c].keepAlive
                /\ client' = [client EXCEPT ![c].keepAlive = FALSE, ![c].parameter = TRUE]
                /\ PortSame

\* continueAfterGET_PARAMETER: the next keepAlive is scheduled when the reply is
\* good and media came in time, otherwise timeoutCheck is cancelled.
ParameterReply(c) ==
  /\ Of(c) /\ client[c].parameter
  /\ \/ /\ client' = [client EXCEPT ![c].parameter = FALSE, ![c].keepAlive = TRUE]
        /\ PortSame
     \/ SetTimeouted(c, [client[c] EXCEPT !.parameter = FALSE, !.timeoutCheck = FALSE])

\* timeoutCheck found that no media came in time; the keepAlive that is due is
\* cancelled, not the GET_PARAMETER that was sent.  (Otherwise it is scheduled
\* again, which NoEvent stands for.)
TimeoutCheck(c) ==
  /\ Of(c) /\ client[c].timeoutCheck
  /\ SetTimeouted(c, [client[c] EXCEPT !.timeoutCheck = FALSE, !.keepAlive = FALSE])

\* subsessionAfterPlaying, for the last sink: the source closed or said BYE.
AfterPlaying(c) ==
  /\ Of(c) /\ client[c].sinks
  /\ SetStopped(c, [client[c] EXCEPT !.sinks = FALSE, !.timeoutCheck = FALSE,
                                     !.keepAlive = FALSE])

\* streamTimerHandler: the stream has lasted its duration.
StreamTimer(c) == /\ Of(c) /\ client[c].ending
                  /\ SetTimeouted(c, [client[c] EXCEPT !.ending = FALSE])

ClientEvent(c) == \/ DescribeReply(c) \/ SetupReply(c) \/ PlayReply(c) \/ PlayRefused(c)
                  \/ PlayStops(c)
                  \/ KeepAlive(c) \/ ParameterReply(c) \/ TimeoutCheck(c)
                  \/ AfterPlaying(c) \/ StreamTimer(c)

Loop == Drained \/ StartInTask \/ StopInTask \/ NoEvent \/ RestartInTask
        \/ ScheduleRestart \/ MarkRestart

Next == \/ Open \/ Close \/ StartPut \/ StopDisable \/ StopCancel \/ StopForget \/ StopPut
        \/ MarkRead \/ MarkWrite
        \/ Loop \/ RestartBegins
        \/ \E c \in Clients : ClientEvent(c)

\* The worker's thread goes on, a call that began ends, and the scheduler runs a
\* delayed restart in the end although it runs one event at a time.  Nothing is
\* asked of the server, nor does the application have to call.
Spec == /\ Init /\ [][Next]_vars
        /\ WF_vars(Loop \/ RestartBegins \/ \E c \in Clients : ClientEvent(c))
        /\ WF_vars(StopCancel \/ StopForget \/ StopPut \/ MarkRead \/ MarkWrite)
        /\ SF_vars(RestartBegins)
        /\ SF_vars(StartInTask) /\ SF_vars(StopInTask)

-----------------------------------------------------------------------------
(* Properties.                                                             *)

\* The port has at most one client object, the one mClient points to: no
\* interleaving of tasks, restarts and the application's calls leaks a client,
\* which would go on receiving, or leaves a pointer to a closed one.
OneClient == /\ Live \subseteq {mClient}
             /\ mClient # None => mClient \in Live

\* After a stop task nothing brings a client to life before the next start task,
\* not even a restart that stop() did not cancel.
StoppedStaysDead == last # "start" => Live = {}

\* The task before the i-th of the fifo, and the newest one.
Before(i) == IF i = 1 THEN last ELSE tasks[i - 1]
Newest == IF tasks = << >> THEN last ELSE tasks[Len(tasks)]

\* The tasks are a start and a stop in turn, as the application asked for them,
\* though its marking of the port may be lost or come too late.
InTurn == /\ asked <=> Newest = "start"
          /\ app.pc \in Stopping => asked
          /\ \A i \in 1 .. Len(tasks) : tasks[i] = "start" <=> Before(i) # "start"

\* The inductive invariant, for a careful application: there is a client from each
\* start task to the next stop task, and only then, whatever restarts run.
PortInv == /\ TypeOK /\ InTurn /\ OneClient
           /\ mClient # None <=> last = "start"

\* "Enable auto restart when src stopped or timeouted" (rtsp-conn-rx-264.c:16): a
\* client that reported a failure to a port with auto restart is closed in the end,
\* unless the application stops the port.
FailedIsReplaced ==
  \A c \in Clients : client[c].failed /\ autoRestart ~> ~client[c].failed \/ ~autoRestart

\* "The activeFlags changed in stateChanged()" (1452): when a stop task has run and
\* the call that put it is over, the port is not PENDING any more, or not for ever.
PendingEnds == last = "stop" /\ "PENDING" \in flags ~> "PENDING" \notin flags \/ last # "stop"
=============================================================================
