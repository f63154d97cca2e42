------------------------ MODULE RtspConnectionProofs ------------------------
(***************************************************************************)
(* A port never has two client objects, nor a pointer to a closed one, and *)
(* a stopped port stays dead, for any number of addresses, restart tasks   *)
(* and queued tasks, when the application starts and stops in turn.        *)
(***************************************************************************)
EXTENDS RtspConnection, TLAPS

-----------------------------------------------------------------------------
(* Types.                                                                  *)

LEMMA ClientTypes == /\ Closed \in ClientType /\ Closed.awaits = "closed"
                     /\ Created \in ClientType /\ Created.awaits = "DESCRIBE"
BY DEF Closed, Created, ClientType

LEMMA IdleType == Idle \in AppType /\ Idle.pc = "idle"
BY DEF Idle, AppType

(* The flags stay flags, whether or not a mark of the application is lost.  *)
LEMMA FlagsBecomeType ==
  ASSUME TypeOK, NEW f \in SUBSET PortFlags, FlagsBecome(f)
  PROVE  /\ flags' \subseteq PortFlags /\ app' \in AppType
         /\ app' = app \/ app' = Idle
BY IdleType DEF TypeOK, FlagsBecome

LEMMA OnwardType == Onward \in LoopType
BY DEF Onward, LoopType

-----------------------------------------------------------------------------
(* An event of a client leaves the port with the clients it has.           *)

\* What an event of a client leaves alone, ...
Quiet == UNCHANGED <<autoRestart, mClient, mRestartTask, restarts, tasks, asked, last>>

\* ... and what the worker's thread leaves alone, and what it may change, but
\* when it runs a task or restarts.
Harmless ==
  /\ UNCHANGED <<autoRestart, mClient, tasks, asked, last>>
  /\ flags' \subseteq PortFlags /\ app' \in AppType /\ (app' = app \/ app' = Idle)
  /\ mRestartTask' \in Tokens \union {None} /\ restarts' \subseteq Tokens
  /\ loop' \in LoopType
  /\ client' \in [Clients -> ClientType] /\ Live' = Live

LEMMA SameClients ==
  ASSUME TypeOK, NEW c \in Live, NEW r \in ClientType, r.awaits # "closed",
         client' = [client EXCEPT ![c] = r]
  PROVE  client' \in [Clients -> ClientType] /\ Live' = Live
<1>1. c \in Clients /\ client[c].awaits # "closed" BY DEF Live
<1>2. client' \in [Clients -> ClientType] BY <1>1 DEF TypeOK
<1>3. ASSUME NEW d \in Clients
      PROVE  client'[d].awaits # "closed" <=> client[d].awaits # "closed"
  <2>1. CASE d = c BY <2>1, <1>1 DEF TypeOK
  <2>2. CASE d # c
    <3>1. client'[d] = client[d] BY <2>2, <1>1 DEF TypeOK
    <3> QED BY <3>1
  <2> QED BY <2>1, <2>2
<1> QED BY <1>2, <1>3 DEF Live

LEMMA HarmlessInv == ASSUME PortInv, Harmless PROVE PortInv'
<1> USE DEF PortInv, Harmless
<1>1. TypeOK' BY DEF TypeOK
<1>2. OneClient' BY DEF OneClient
<1>3. app'.pc \in Stopping => app.pc \in Stopping BY IdleType DEF Stopping
<1>4. InTurn'
  <2>1. \A i : Before(i)' = Before(i) BY DEF Before
  <2>2. Newest' = Newest BY DEF Newest
  <2> QED BY <2>1, <2>2, <1>3 DEF InTurn
<1> QED BY <1>1, <1>2, <1>4

(* A transition reported by a client that exists, with any new fields.      *)
LEMMA StateChangedHarmless ==
  ASSUME TypeOK, Quiet, NEW c \in Live, NEW r \in ClientType, r.awaits # "closed",
         NEW tr, StateChanged(c, r, tr)
  PROVE  Harmless
<1> DEFINE s == [r EXCEPT !.failed = @ \/ (autoRestart /\ tr \in {"PLAYING_STOP",
                                            "PLAYING_TIMEOUT", "START_UNREACHED"})]
<1>1. s \in ClientType /\ s.awaits # "closed" BY DEF ClientType
<1>2. client' = [client EXCEPT ![c] = s] BY DEF StateChanged
<1>3. client' \in [Clients -> ClientType] /\ Live' = Live
  <2> HIDE DEF s
  <2> QED BY <1>1, <1>2, SameClients
<1>4. (flags \union {"START"}) \ {"PENDING"} \in SUBSET PortFlags BY DEF TypeOK, PortFlags
<1>5. flags' \subseteq PortFlags /\ app' \in AppType /\ (app' = app \/ app' = Idle)
  <2>1. CASE UNCHANGED <<flags, app>> BY <2>1 DEF TypeOK
  <2>2. CASE ~UNCHANGED <<flags, app>>
    <3>1. FlagsBecome((flags \union {"START"}) \ {"PENDING"}) BY <2>2 DEF StateChanged
    <3> QED BY <3>1, <1>4, FlagsBecomeType
  <2> QED BY <2>1, <2>2
<1>6. loop' \in LoopType BY OnwardType DEF StateChanged, LoopType
<1> QED BY <1>3, <1>5, <1>6 DEF Quiet, Harmless, TypeOK

(* An event after which only the fields of the client differ.               *)
LEMMA ClientOnlyHarmless ==
  ASSUME TypeOK, Quiet, NEW c \in Live, NEW r \in ClientType, r.awaits # "closed",
         client' = [client EXCEPT ![c] = r],
         PortSame
  PROVE  Harmless
<1>1. client' \in [Clients -> ClientType] /\ Live' = Live BY SameClients
<1> QED BY <1>1 DEF PortSame, Quiet, Harmless, TypeOK, LoopType

LEMMA SetTimeoutedHarmless ==
  ASSUME TypeOK, Quiet, NEW c \in Live, NEW r \in ClientType, r.awaits # "closed",
         SetTimeouted(c, r)
  PROVE  Harmless
<1>1. PICK tr : StateChanged(c, r, tr) BY DEF SetTimeouted
<1> QED BY <1>1, StateChangedHarmless

LEMMA SetStoppedHarmless ==
  ASSUME TypeOK, Quiet, NEW c \in Live, NEW r \in ClientType, r.awaits # "closed",
         SetStopped(c, r)
  PROVE  Harmless
<1> DEFINE s == [r EXCEPT !.playing = FALSE]
<1>1. s \in ClientType /\ s.awaits # "closed" BY DEF ClientType
<1>2. PICK tr : StateChanged(c, s, tr) BY DEF SetStopped
<1> HIDE DEF s
<1> QED BY <1>1, <1>2, StateChangedHarmless

(* The events of a client, one by one.                                      *)
LEMMA ClientEventHarmless ==
  ASSUME TypeOK, NEW c \in Clients, ClientEvent(c)
  PROVE  Harmless
<1>1. Quiet /\ c \in Live
  BY DEF ClientEvent, DescribeReply, SetupReply, PlayReply, PlayRefused, PlayStops, KeepAlive,
         ParameterReply, TimeoutCheck, AfterPlaying, StreamTimer, Of, Event, Quiet, Live
<1>2. client[c] \in ClientType /\ client[c].awaits # "closed" BY <1>1 DEF TypeOK, Live
<1>3. CASE DescribeReply(c)
  <2>1. CASE StateChanged(c, [client[c] EXCEPT !.awaits = "none"], "START_UNREACHED")
    <3>1. /\ [client[c] EXCEPT !.awaits = "none"] \in ClientType
          /\ [client[c] EXCEPT !.awaits = "none"].awaits # "closed"
      BY <1>2 DEF ClientType
    <3> QED BY <1>1, <2>1, <3>1, StateChangedHarmless
  <2>2. ASSUME NEW next \in {"SETUP", "PLAY"}, client' = [client EXCEPT ![c].awaits = next],
               PortSame
        PROVE  Harmless
    <3>1. /\ [client[c] EXCEPT !.awaits = next] \in ClientType
          /\ [client[c] EXCEPT !.awaits = next].awaits # "closed"
      BY <1>2 DEF ClientType
    <3>2. client' = [client EXCEPT ![c] = [client[c] EXCEPT !.awaits = next]] BY <2>2
    <3> QED BY <1>1, <2>2, <3>1, <3>2, ClientOnlyHarmless
  <2> QED BY <1>3, <2>1, <2>2 DEF DescribeReply
<1>4. CASE SetupReply(c)
  <2>1. PICK next \in {"SETUP", "PLAY"}, ok \in BOOLEAN :
          client' = [client EXCEPT ![c].awaits = next, ![c].sinks = @ \/ ok]
    BY <1>4 DEF SetupReply
  <2> DEFINE r == [client[c] EXCEPT !.awaits = next, !.sinks = @ \/ ok]
  <2>2. r \in ClientType /\ r.awaits # "closed" BY <1>2 DEF ClientType
  <2>3. client' = [client EXCEPT ![c] = r] BY <1>1, <2>1 DEF TypeOK, Live, ClientType
  <2>4. PortSame BY <1>4 DEF SetupReply
  <2> HIDE DEF r
  <2> QED BY <1>1, <2>2, <2>3, <2>4, ClientOnlyHarmless
<1>5. CASE PlayReply(c)
  <2>1. PICK ends \in BOOLEAN : StateChanged(c, Playing(c, ends), "START_PLAYING")
    BY <1>5 DEF PlayReply
  <2>2. Playing(c, ends) \in ClientType /\ Playing(c, ends).awaits # "closed"
    BY <1>2 DEF Playing, ClientType
  <2> QED BY <1>1, <2>1, <2>2, StateChangedHarmless
<1>6. CASE PlayRefused(c)
  <2> DEFINE r == [client[c] EXCEPT !.awaits = "refused"]
  <2>1. r \in ClientType /\ r.awaits # "closed" BY <1>2 DEF ClientType
  <2>2. StateChanged(c, r, "START_UNREACHED") BY <1>6 DEF PlayRefused
  <2> HIDE DEF r
  <2> QED BY <1>1, <2>1, <2>2, StateChangedHarmless
<1>12. CASE PlayStops(c)
  <2> DEFINE r == [Playing(c, FALSE) EXCEPT !.playing = client[c].playing]
  <2>1. Playing(c, FALSE) \in ClientType /\ Playing(c, FALSE).awaits = "none"
        /\ client[c].playing \in BOOLEAN
    BY <1>2 DEF Playing, ClientType
  <2>2. r \in ClientType /\ r.awaits # "closed" BY <2>1 DEF ClientType
  <2>3. SetStopped(c, r) BY <1>12 DEF PlayStops
  <2> HIDE DEF r
  <2> QED BY <1>1, <2>2, <2>3, SetStoppedHarmless
<1>7. CASE KeepAlive(c)
  <2> DEFINE r == [client[c] EXCEPT !.keepAlive = FALSE, !.parameter = TRUE]
  <2>1. r \in ClientType /\ r.awaits # "closed" BY <1>2 DEF ClientType
  <2>2. client' = [client EXCEPT ![c] = r]
    BY <1>1, <1>7 DEF KeepAlive, TypeOK, Live, ClientType
  <2>3. PortSame BY <1>7 DEF KeepAlive
  <2> HIDE DEF r
  <2> QED BY <1>1, <2>1, <2>2, <2>3, ClientOnlyHarmless
<1>8. CASE ParameterReply(c)
  <2>1. ASSUME client' = [client EXCEPT ![c].parameter = FALSE, ![c].keepAlive = TRUE],
               PortSame
        PROVE  Harmless
    <3> DEFINE r == [client[c] EXCEPT !.parameter = FALSE, !.keepAlive = TRUE]
    <3>1. r \in ClientType /\ r.awaits # "closed" BY <1>2 DEF ClientType
    <3>2. client' = [client EXCEPT ![c] = r] BY <1>1, <2>1 DEF TypeOK, Live, ClientType
    <3> HIDE DEF r
    <3> QED BY <1>1, <2>1, <3>1, <3>2, ClientOnlyHarmless
  <2>2. ASSUME SetTimeouted(c, [client[c] EXCEPT !.parameter = FALSE, !.timeoutCheck = FALSE])
        PROVE  Harmless
    <3> DEFINE r == [client[c] EXCEPT !.parameter = FALSE, !.timeoutCheck = FALSE]
    <3>1. r \in ClientType /\ r.awaits # "closed" BY <1>2 DEF ClientType
    <3>2. SetTimeouted(c, r) BY <2>2
    <3> HIDE DEF r
    <3> QED BY <1>1, <3>1, <3>2, SetTimeoutedHarmless
  <2> QED BY <1>8, <2>1, <2>2 DEF ParameterReply
<1>9. CASE TimeoutCheck(c)
  <2> DEFINE r == [client[c] EXCEPT !.timeoutCheck = FALSE, !.keepAlive = FALSE]
  <2>1. r \in ClientType /\ r.awaits # "closed" BY <1>2 DEF ClientType
  <2>2. SetTimeouted(c, r) BY <1>9 DEF TimeoutCheck
  <2> HIDE DEF r
  <2> QED BY <1>1, <2>1, <2>2, SetTimeoutedHarmless
<1>10. CASE AfterPlaying(c)
  <2> DEFINE r == [client[c] EXCEPT !.sinks = FALSE, !.timeoutCheck = FALSE,
                                    !.keepAlive = FALSE]
  <2>1. r \in ClientType /\ r.awaits # "closed" BY <1>2 DEF ClientType
  <2>2. SetStopped(c, r) BY <1>10 DEF AfterPlaying
  <2> HIDE DEF r
  <2> QED BY <1>1, <2>1, <2>2, SetStoppedHarmless
<1>11. CASE StreamTimer(c)
  <2> DEFINE r == [client[c] EXCEPT !.ending = FALSE]
  <2>1. r \in ClientType /\ r.awaits # "closed" BY <1>2 DEF ClientType
  <2>2. SetTimeouted(c, r) BY <1>11 DEF StreamTimer
  <2> HIDE DEF r
  <2> QED BY <1>1, <2>1, <2>2, SetTimeoutedHarmless
<1> QED BY <1>3, <1>4, <1>5, <1>6, <1>7, <1>8, <1>9, <1>10, <1>11, <1>12 DEF ClientEvent

-----------------------------------------------------------------------------
(* The other actions.                                                      *)

LEMMA InitInv == Init => PortInv
<1> SUFFICES ASSUME Init PROVE PortInv OBVIOUS
<1>1. TypeOK
  <2>1. tasks \in Seq({"start", "stop"}) /\ Len(tasks) <= MaxTasks
    BY ConnectionUsage DEF Init
  <2>2. client \in [Clients -> ClientType] /\ app \in AppType
    BY ClientTypes, IdleType DEF Init
  <2> QED BY <2>1, <2>2 DEF Init, TypeOK, PortFlags, LoopType
<1>2. Live = {} BY ClientTypes DEF Init, Live
<1>3. InTurn BY IdleType DEF Init, InTurn, Newest, Stopping
<1> QED BY <1>1, <1>2, <1>3 DEF PortInv, OneClient, Init

\* What no action of the application but a call of start or stop changes.
LEMMA SameOrderInv ==
  ASSUME PortInv, TypeOK', UNCHANGED <<mClient, client, tasks, asked, last>>,
         app'.pc \in Stopping => asked
  PROVE  PortInv'
<1>1. OneClient' BY DEF PortInv, OneClient, Live
<1>2. InTurn'
  <2>1. \A i : Before(i)' = Before(i) BY DEF Before
  <2>2. Newest' = Newest BY DEF Newest
  <2> QED BY <2>1, <2>2 DEF InTurn, PortInv
<1> QED BY <1>1, <1>2 DEF PortInv

(* A task put behind the newest one, which it takes turns with.             *)
LEMMA PutTaskInv ==
  ASSUME PortInv, NEW task \in {"start", "stop"}, AsyncTask(task),
         task = "start" <=> Newest # "start", asked' = (task = "start"),
         UNCHANGED <<portVars, client, loop, last>>
  PROVE  PortInv'
<1> USE DEF PortInv
<1>1. /\ tasks \in Seq({"start", "stop"}) /\ MaxTasks \in Nat /\ Len(tasks) \in Nat
      /\ Len(tasks) < MaxTasks /\ tasks' = Append(tasks, task)
  BY ConnectionUsage DEF TypeOK, AsyncTask
<1>2. /\ tasks' \in Seq({"start", "stop"}) /\ Len(tasks') = Len(tasks) + 1
      /\ tasks'[Len(tasks) + 1] = task
      /\ \A i \in 1 .. Len(tasks) : tasks'[i] = tasks[i]
  BY <1>1
<1>3. app' \in AppType /\ app'.pc = "read"
  BY DEF AsyncTask, AppType, Idle
<1>4. TypeOK'
  <2>1. Len(tasks') <= MaxTasks BY <1>1, <1>2
  <2> QED BY <1>2, <1>3, <2>1 DEF TypeOK, portVars
<1>5. OneClient' BY DEF OneClient, Live, portVars
<1>6. InTurn'
  <2>1. Newest' = task BY <1>1, <1>2 DEF Newest
  <2>2. ASSUME NEW i \in 1 .. Len(tasks')
        PROVE  tasks'[i] = "start" <=> Before(i)' # "start"
    <3>1. CASE i = Len(tasks) + 1
      <4>1. Before(i)' = Newest BY <1>1, <1>2, <3>1 DEF Before, Newest
      <4> QED BY <1>2, <3>1, <4>1
    <3>2. CASE i # Len(tasks) + 1
      <4>1. i \in 1 .. Len(tasks) BY <1>1, <1>2, <3>2
      <4>2. Before(i)' = Before(i) BY <1>1, <1>2, <4>1 DEF Before
      <4> QED BY <1>2, <4>1, <4>2 DEF InTurn
    <3> QED BY <3>1, <3>2
  <2> QED BY <1>3, <2>1, <2>2 DEF InTurn, Stopping
<1> QED BY <1>4, <1>5, <1>6 DEF portVars

(* The worker takes the oldest task, which ends the turn of the last one.   *)
LEMMA TakeTaskInv ==
  ASSUME PortInv, NEW task \in {"start", "stop"}, TaskIs(task), UNCHANGED asked,
         app' = app \/ app' = Idle
  PROVE  /\ InTurn' /\ (task = "start" <=> last # "start")
         /\ tasks' \in Seq({"start", "stop"}) /\ Len(tasks') <= MaxTasks
         /\ last' = task
<1> USE DEF PortInv
<1>1. /\ tasks \in Seq({"start", "stop"}) /\ tasks # << >> /\ Head(tasks) = task
      /\ tasks' = Tail(tasks) /\ last' = task /\ Len(tasks) \in Nat /\ MaxTasks \in Nat
      /\ Len(tasks) <= MaxTasks
  BY ConnectionUsage DEF TypeOK, TaskIs
<1>2. /\ tasks' \in Seq({"start", "stop"}) /\ Len(tasks') = Len(tasks) - 1
      /\ Len(tasks) >= 1 /\ tasks[1] = task
      /\ \A i \in 1 .. Len(tasks) - 1 : tasks'[i] = tasks[i + 1]
  BY <1>1
<1>3. task = "start" <=> last # "start"
  <2>1. 1 \in 1 .. Len(tasks) /\ Before(1) = last BY <1>1, <1>2 DEF Before
  <2> QED BY <1>2, <2>1 DEF InTurn
<1>4. Newest' = Newest
  <2>1. CASE Len(tasks) = 1
    <3>1. tasks' = << >> BY <1>2, <2>1
    <3> QED BY <1>1, <1>2, <2>1, <3>1 DEF Newest
  <2>2. CASE Len(tasks) # 1
    <3>1. Len(tasks) - 1 \in 1 .. Len(tasks) - 1 /\ tasks' # << >> BY <1>1, <1>2, <2>2
    <3>2. tasks'[Len(tasks) - 1] = tasks[Len(tasks)] BY <1>1, <1>2, <3>1
    <3> QED BY <1>1, <1>2, <3>1, <3>2 DEF Newest
  <2> QED BY <2>1, <2>2
<1>5. ASSUME NEW i \in 1 .. Len(tasks')
      PROVE  tasks'[i] = "start" <=> Before(i)' # "start"
  <2>1. i + 1 \in 1 .. Len(tasks) /\ i \in 1 .. Len(tasks) - 1 BY <1>1, <1>2
  <2>2. Before(i)' = Before(i + 1) BY <1>1, <1>2, <2>1 DEF Before
  <2> QED BY <1>2, <2>1, <2>2 DEF InTurn
<1>6. app'.pc \in Stopping => app.pc \in Stopping BY IdleType DEF Stopping
<1>7. InTurn' BY <1>4, <1>5, <1>6 DEF InTurn
<1>8. Len(tasks') <= MaxTasks BY <1>1, <1>2
<1> QED BY <1>1, <1>2, <1>3, <1>7, <1>8

LEMMA StartInTaskInv == ASSUME PortInv, StartInTask PROVE PortInv'
<1> USE DEF PortInv
<1>1. TaskIs("start") /\ FlagsBecome((flags \union {"START"}) \ {"PENDING"})
  BY DEF StartInTask
<1>2. /\ flags' \subseteq PortFlags /\ app' \in AppType
      /\ app' = app \/ app' = Idle
  <2>1. (flags \union {"START"}) \ {"PENDING"} \in SUBSET PortFlags
    BY DEF TypeOK, PortFlags
  <2> QED BY <1>1, <2>1, FlagsBecomeType
<1>3. /\ InTurn' /\ last # "start" /\ tasks' \in Seq({"start", "stop"})
      /\ Len(tasks') <= MaxTasks /\ last' = "start"
  BY <1>1, <1>2, TakeTaskInv DEF StartInTask
<1>4. PICK c \in Clients : mClient' = c /\ client' = [client EXCEPT ![c] = Created]
  BY DEF StartInTask
<1>5. client' \in [Clients -> ClientType] BY <1>4, ClientTypes DEF TypeOK
<1>6. Live' = {c}
  <2>1. Live = {} BY <1>3, ConnectionUsage DEF OneClient, TypeOK, Live
  <2>2. \A d \in Clients : client'[d].awaits # "closed" <=> d = c
    BY <1>4, <2>1, ClientTypes DEF TypeOK, Live
  <2> QED BY <2>2 DEF Live
<1>7. TypeOK' BY <1>2, <1>3, <1>4, <1>5 DEF TypeOK, StartInTask
<1> QED BY <1>3, <1>4, <1>6, <1>7, ConnectionUsage DEF OneClient

LEMMA StopInTaskInv == ASSUME PortInv, StopInTask PROVE PortInv'
<1> USE DEF PortInv
<1>1. TaskIs("stop") BY DEF StopInTask
<1>2. /\ flags' \subseteq PortFlags /\ app' \in AppType
      /\ app' = app \/ app' = Idle
  <2>1. CASE UNCHANGED <<flags, app>> BY <2>1 DEF TypeOK
  <2>2. CASE FlagsBecome((flags \union {"STOP"}) \ {"PENDING"})
    <3>1. (flags \union {"STOP"}) \ {"PENDING"} \in SUBSET PortFlags
      BY DEF TypeOK, PortFlags
    <3> QED BY <2>2, <3>1, FlagsBecomeType
  <2> QED BY <2>1, <2>2 DEF StopInTask, StopClose
<1>3. /\ InTurn' /\ last = "start" /\ tasks' \in Seq({"start", "stop"})
      /\ Len(tasks') <= MaxTasks /\ last' = "stop"
  BY <1>1, <1>2, TakeTaskInv DEF StopInTask
<1>4. mClient \in Clients /\ mClient' = None
      /\ client' = [client EXCEPT ![mClient] = Closed]
  BY <1>3 DEF StopInTask, TypeOK
<1>5. client' \in [Clients -> ClientType] BY <1>4, ClientTypes DEF TypeOK
<1>6. Live' = {}
  <2>1. \A d \in Clients : client'[d].awaits = "closed"
    BY <1>4, ClientTypes DEF TypeOK, OneClient, Live
  <2> QED BY <2>1 DEF Live
<1>7. TypeOK' BY <1>2, <1>3, <1>4, <1>5 DEF TypeOK, StopInTask
<1> QED BY <1>3, <1>4, <1>6, <1>7 DEF OneClient

(* One client takes the place of the other.                                 *)
LEMMA ReplaceClients ==
  ASSUME PortInv, mClient # None, Replace
  PROVE  /\ mClient' \in Clients /\ client' \in [Clients -> ClientType]
         /\ Live' = {mClient'}
<1>1. mClient \in Clients /\ Live = {mClient} BY DEF PortInv, TypeOK, OneClient
<1>2. PICK c \in Clients :
        /\ mClient' = c
        /\ client' = [d \in Clients |-> IF d = c THEN Created
                                        ELSE IF d = mClient THEN Closed
                                        ELSE client[d]]
  BY <1>1 DEF Replace, Live
<1>3. client' \in [Clients -> ClientType]
  BY <1>2, ClientTypes DEF PortInv, TypeOK
<1>4. \A d \in Clients : client'[d].awaits # "closed" <=> d = c
  BY <1>1, <1>2, ClientTypes DEF Live
<1> QED BY <1>2, <1>3, <1>4 DEF Live

LEMMA RestartBeginsInv == ASSUME PortInv, RestartBegins PROVE PortInv'
<1>1. flags \ {"PENDING"} \in SUBSET PortFlags /\ TypeOK BY DEF PortInv, TypeOK
<1>2. flags' \subseteq PortFlags /\ app' \in AppType /\ (app' = app \/ app' = Idle)
  BY <1>1, FlagsBecomeType DEF RestartBegins
<1>3. Live' = Live BY DEF RestartBegins, Live
<1>4. Harmless BY <1>1, <1>2, <1>3 DEF RestartBegins, Harmless, TypeOK, LoopType
<1> QED BY <1>4, HarmlessInv

LEMMA ScheduleRestartInv == ASSUME PortInv, ScheduleRestart PROVE PortInv'
<1>1. TypeOK BY DEF PortInv
<1>2. Live' = Live BY DEF ScheduleRestart, Live
<1>3. Harmless BY <1>1, <1>2 DEF ScheduleRestart, FreeTokens, Harmless, TypeOK, LoopType
<1> QED BY <1>3, HarmlessInv

LEMMA MarkRestartInv == ASSUME PortInv, MarkRestart PROVE PortInv'
<1>1. flags \union {"RESTART"} \in SUBSET PortFlags /\ TypeOK
  BY DEF PortInv, TypeOK, PortFlags
<1>2. flags' \subseteq PortFlags /\ app' \in AppType /\ (app' = app \/ app' = Idle)
  BY <1>1, FlagsBecomeType DEF MarkRestart
<1>3. Live' = Live /\ loop' \in LoopType BY OnwardType DEF MarkRestart, Live
<1>4. Harmless BY <1>1, <1>2, <1>3 DEF MarkRestart, Harmless, TypeOK
<1> QED BY <1>4, HarmlessInv

LEMMA RestartInTaskInv == ASSUME PortInv, RestartInTask PROVE PortInv'
<1>1. TypeOK BY DEF PortInv
<1>2. PICK f \in SUBSET PortFlags : FlagsBecome(f)
  <2>1. \A S \in SUBSET PortFlags : (flags \union S \union {"START"}) \ {"PENDING", "RESTART"}
                                      \in SUBSET PortFlags
    BY <1>1 DEF TypeOK, PortFlags
  <2>2. {"STOP"} \in SUBSET PortFlags /\ {} \in SUBSET PortFlags
        /\ flags \ {"RESTART"} \in SUBSET PortFlags
    BY <1>1 DEF TypeOK, PortFlags
  <2> QED BY <2>1, <2>2 DEF RestartInTask
<1>3. flags' \subseteq PortFlags /\ app' \in AppType /\ (app' = app \/ app' = Idle)
  BY <1>1, <1>2, FlagsBecomeType
<1>4. CASE mClient = None
  <2>1. Harmless
    BY <1>1, <1>3, <1>4 DEF RestartInTask, Harmless, TypeOK, Live, LoopType
  <2> QED BY <2>1, HarmlessInv
<1>5. CASE mClient # None
  <2>1. /\ mClient' \in Clients /\ client' \in [Clients -> ClientType]
        /\ Live' = {mClient'}
    BY <1>5, ReplaceClients DEF RestartInTask
  <2>2. UNCHANGED <<tasks, asked, last>> BY DEF RestartInTask
  <2>3. InTurn'
    <3>1. \A i : Before(i)' = Before(i) BY <2>2 DEF Before
    <3>2. Newest' = Newest BY <2>2 DEF Newest
    <3>3. app'.pc \in Stopping => app.pc \in Stopping BY <1>3, IdleType DEF Stopping
    <3> QED BY <2>2, <3>1, <3>2, <3>3 DEF InTurn, PortInv
  <2>4. TypeOK' BY <1>1, <1>3, <2>1, <2>2 DEF RestartInTask, TypeOK, LoopType
  <2> QED BY <1>5, <2>1, <2>2, <2>3, <2>4, ConnectionUsage DEF PortInv, OneClient
<1> QED BY <1>4, <1>5

-----------------------------------------------------------------------------
(* Every step, and the theorems.                                           *)

LEMMA NextInv == ASSUME Careful, PortInv, [Next]_vars PROVE PortInv'
<1> USE DEF PortInv
<1>1. CASE Open
  <2>1. TypeOK' BY <1>1 DEF Open, TypeOK, PortFlags
  <2> QED BY <1>1, <2>1, SameOrderInv DEF Open, Idle, Stopping
<1>2. CASE Close
  <2>1. TypeOK' BY <1>2 DEF Close, TypeOK
  <2> QED BY <1>2, <2>1, SameOrderInv DEF Close, Idle, Stopping
<1>3. CASE StartPut
  <2>1. Newest # "start" BY <1>3 DEF StartPut, InTurn
  <2> QED BY <1>3, <2>1, PutTaskInv DEF StartPut
<1>12. CASE StopDisable
  <2>1. app' \in AppType BY <1>12 DEF StopDisable, AppType, Idle, Stopping
  <2>2. TypeOK' BY <1>12, <2>1 DEF StopDisable, TypeOK
  <2> QED BY <1>12, <2>2, SameOrderInv DEF StopDisable
<1>4. CASE StopCancel
  <2>1. app' \in AppType /\ asked
    BY <1>4 DEF StopCancel, AppType, Idle, Stopping, InTurn
  <2>2. TypeOK' BY <1>4, <2>1 DEF StopCancel, TypeOK
  <2> QED BY <1>4, <2>1, <2>2, SameOrderInv DEF StopCancel
<1>13. CASE StopForget
  <2>1. app' \in AppType /\ asked
    BY <1>13 DEF StopForget, AppType, Idle, Stopping, InTurn
  <2>2. TypeOK' BY <1>13, <2>1 DEF StopForget, TypeOK
  <2> QED BY <1>13, <2>1, <2>2, SameOrderInv DEF StopForget
<1>5. CASE StopPut
  <2>1. asked /\ Newest = "start" BY <1>5 DEF StopPut, InTurn, Stopping
  <2>2. CASE AsyncTask("stop") /\ asked' = FALSE
    BY <1>5, <2>1, <2>2, PutTaskInv DEF StopPut
  <2>3. CASE app' = Idle /\ UNCHANGED <<tasks, asked>>
    <3>1. TypeOK' BY <1>5, <2>3, IdleType DEF StopPut, TypeOK, portVars
    <3> QED BY <1>5, <2>3, <3>1, IdleType, SameOrderInv DEF StopPut, portVars, Stopping
  <2> QED BY <1>5, <2>2, <2>3 DEF StopPut
<1>6. CASE MarkRead
  <2>1. app' \in AppType /\ app'.pc = "write" BY <1>6 DEF MarkRead, AppType, TypeOK
  <2>2. TypeOK' BY <1>6, <2>1 DEF MarkRead, TypeOK, portVars
  <2> QED BY <1>6, <2>1, <2>2, SameOrderInv DEF MarkRead, portVars, Stopping
<1>7. CASE MarkWrite
  <2>1. TypeOK' BY <1>7, IdleType DEF MarkWrite, TypeOK, AppType, PortFlags
  <2> QED BY <1>7, <2>1, IdleType, SameOrderInv DEF MarkWrite, Stopping
<1>8. CASE Drained
  <2>1. Harmless BY <1>8 DEF Drained, Harmless, TypeOK, portVars, Live, LoopType
  <2> QED BY <2>1, HarmlessInv
<1>9. CASE NoEvent
  <2>1. Harmless BY <1>9 DEF NoEvent, PortSame, Event, Harmless, TypeOK, Live, LoopType
  <2> QED BY <2>1, HarmlessInv
<1>10. CASE \E c \in Clients : ClientEvent(c)
  BY <1>10, ClientEventHarmless, HarmlessInv
<1>11. CASE UNCHANGED vars
  <2>1. TypeOK' BY <1>11 DEF vars, portVars, TypeOK
  <2> QED BY <1>11, <2>1, SameOrderInv DEF vars, portVars, InTurn
<1> QED BY <1>1, <1>2, <1>3, <1>4, <1>5, <1>6, <1>7, <1>8, <1>9, <1>10, <1>11, <1>12,
           <1>13, StartInTaskInv, StopInTaskInv, RestartBeginsInv, RestartInTaskInv,
           ScheduleRestartInv, MarkRestartInv
        DEF Next, Loop

(* The tasks alternate, and a client lives from each start task to the next *)
(* stop task, whatever restarts, replies and lost marks fall between.       *)
THEOREM PortInvariant == ASSUME Careful PROVE Spec => []PortInv
<1>1. Init => PortInv BY InitInv
<1>2. PortInv /\ [Next]_vars => PortInv' BY NextInv
<1> QED BY <1>1, <1>2, PTL DEF Spec

(* The port never has two client objects, nor a pointer to a closed one.    *)
THEOREM PortOneClient == ASSUME Careful PROVE Spec => []OneClient
<1>1. PortInv => OneClient BY DEF PortInv
<1> QED BY <1>1, PortInvariant, PTL

(* Once a stop task has run, no restart that is still pending brings a      *)
(* client to life before the next start task.                               *)
THEOREM PortStoppedStaysDead == ASSUME Careful PROVE Spec => []StoppedStaysDead
<1>1. PortInv => StoppedStaysDead
  BY ConnectionUsage DEF PortInv, OneClient, StoppedStaysDead, TypeOK, Live
<1> QED BY <1>1, PortInvariant, PTL
=============================================================================
