---------------------------- MODULE RtspStreamProofs ----------------------------
(***************************************************************************)
(* A stream of the RTSP server, for any number of pushers and frames and   *)
(* any length of the queue: no frame is lost or released twice, and the    *)
(* worker's thread never meets a queue or a stream that was destroyed.     *)
(*                                                                         *)
(* ControlInv, about the calls that open, start, stop and close, is        *)
(* inductive by itself; FramesInv, about where each frame is, needs it.    *)
(***************************************************************************)
EXTENDS RtspStream, SequenceTheorems, FiniteSetTheorems, TLAPS

-----------------------------------------------------------------------------
(* The inductive invariant of the calls.                                   *)

ServerType == /\ flags \subseteq {"OPEN", "START", "STOP"}
              /\ session \in {"none", "created", "added"}
              /\ exitLoop \in BOOLEAN /\ running \in BOOLEAN
              /\ thread \in {"none", "top", "turn", "exited"}
              /\ app \in {"idle", "stopping", "closing"}
              /\ fetch \in {"off", "due", "get", "given"}
PushType == /\ push \in [Pushers -> {"idle", "drop", "put"}]
            /\ sent \in [Pushers -> 0 .. MaxFrames]
            /\ \A p \in Pushers : push[p] # "idle" => sent[p] > 0
QueueType == queue = NoQueue \/ queue \in Seq(Frames \union {NoFrame})
FrameType == released \subseteq Frames /\ leaked \subseteq Frames

\* A server has STOP for ever once it was stopped, and its thread, if it was
\* started again, exits before it serves anything.
WorkerInv ==
  /\ thread # "none" => "START" \in flags
  /\ "STOP" \in flags => thread # "turn" /\ exitLoop
  /\ ~running => "START" \notin flags \/ "STOP" \in flags
  /\ thread = "none" /\ "START" \in flags => "STOP" \in flags
  /\ app = "stopping" => exitLoop /\ thread # "none"
  /\ app = "closing" => exitLoop /\ thread # "turn" /\ fetch = "off" /\ queue = NoQueue
  /\ flags = {} => app = "idle" /\ fetch = "off" /\ queue = NoQueue

\* Who fetches or pushes has a queue; a client that played when the server was
\* stopped may outlive it.
StreamInv ==
  /\ fetch # "off" => "START" \in flags /\ (queue # NoQueue \/ "STOP" \in flags)
  /\ fetch = "get" => thread = "turn"
  /\ session # "none" => queue # NoQueue
  /\ \A p \in Pushers : push[p] # "idle" => queue # NoQueue

Items == Frames \union {NoFrame}

ControlInv == ServerType /\ PushType /\ QueueType /\ FrameType /\ WorkerInv /\ StreamInv

-----------------------------------------------------------------------------
(* What the operations on the queue return.                                *)

LEMMA IsQueue == NoQueue \notin Seq(Items) /\ << >> \in Seq(Items)
BY StreamConstants DEF Items

LEMMA TakeOne ==
  ASSUME NEW q \in Seq(Items), q # << >>
  PROVE  Tail(q) \in Seq(Items) /\ Head(q) \in Items /\ Len(Tail(q)) = Len(q) - 1
BY HeadTailProperties

LEMMA InHandIsFrame ==
  ASSUME PushType, NEW p \in Pushers, push[p] # "idle" PROVE <<p, sent[p]>> \in Frames
BY StreamConstants DEF PushType, Frames

LEMMA PutOne ==
  ASSUME NEW q \in Seq(Items), NEW f \in Items
  PROVE  Append(q, f) \in Seq(Items) /\ Append(q, f) # << >>
BY AppendProperties

LEMMA Pushed ==
  ASSUME ControlInv, NEW p \in Pushers, PushPut(p)
  PROVE  queue' \in Seq(Items) /\ queue' # << >>
<1>1. queue \in Seq(Items) BY DEF ControlInv, PushPut, QueueType, StreamInv, Items
<1>2. PICK f \in {<<p, sent[p]>>, NoFrame} :
         queue' = IF Len(queue) < Capacity THEN Append(queue, f) ELSE queue
  BY DEF PushPut
<1>3. f \in Items BY InHandIsFrame DEF ControlInv, PushPut, Items
<1>4. Capacity > 0 /\ Capacity \in Nat BY StreamConstants
<1>5. CASE Len(queue) < Capacity BY <1>1, <1>2, <1>3, <1>5, PutOne
<1>6. CASE ~(Len(queue) < Capacity)
  <2>1. queue # << >> BY <1>4, <1>6
  <2> QED BY <1>1, <1>2, <1>6, <2>1
<1> QED BY <1>5, <1>6

-----------------------------------------------------------------------------
(* One lemma for each part: a step for each action that changes a variable *)
(* of the part, and one for all the others.                                *)

LEMMA ServerTypeNext == ASSUME ControlInv, [Next]_vars PROVE ServerType'
<1> USE StreamConstants DEF server, history, ControlInv, ServerType
<1>1. CASE OpenServer BY <1>1 DEF OpenServer
<1>2. CASE StartServer BY <1>2 DEF StartServer
<1>3. CASE StopServer BY <1>3 DEF StopServer
<1>4. CASE StopReturns BY <1>4 DEF StopReturns
<1>5. CASE CloseServer BY <1>5 DEF CloseServer
<1>6. CASE CloseReturns BY <1>6 DEF CloseReturns
<1>7. CASE OpenStream BY <1>7 DEF OpenStream
<1>8. CASE StartStream BY <1>8 DEF StartStream
<1>9. CASE StopStream BY <1>9 DEF StopStream
<1>10. CASE LoopTest BY <1>10 DEF LoopTest
<1>11. CASE IdleTurn BY <1>11 DEF IdleTurn, EndOfTurn
<1>12. CASE ClientPlays BY <1>12 DEF ClientPlays, EndOfTurn
<1>13. CASE ClientLeaves BY <1>13 DEF ClientLeaves, EndOfTurn
<1>14. CASE SinkAsks BY <1>14 DEF SinkAsks, EndOfTurn
<1>15. CASE FetchTest BY <1>15 DEF FetchTest, EndOfTurn
<1>16. CASE FetchGet BY <1>16 DEF FetchGet, EndOfTurn
<1>17. CASE UNCHANGED <<flags, session, exitLoop, thread, app, running, fetch>>
  BY <1>17
<1> QED BY <1>1, <1>2, <1>3, <1>4, <1>5, <1>6, <1>7, <1>8, <1>9, <1>10, <1>11,
       <1>12, <1>13, <1>14, <1>15, <1>16, <1>17 DEF Next, Calls, Pushes, Turns,
       Fetches, vars, CloseStream, ClosedLast, PushTest, PushDrop, PushPut

LEMMA PushTypeNext == ASSUME ControlInv, [Next]_vars PROVE PushType'
<1> USE StreamConstants DEF server, history, ControlInv, PushType
<1>1. ASSUME NEW p \in Pushers, PushTest(p) PROVE PushType' BY <1>1 DEF PushTest
<1>2. ASSUME NEW p \in Pushers, PushDrop(p) PROVE PushType' BY <1>2 DEF PushDrop
<1>3. ASSUME NEW p \in Pushers, PushPut(p) PROVE PushType' BY <1>3 DEF PushPut
<1>4. CASE UNCHANGED <<push, sent>> BY <1>4
<1> QED BY <1>1, <1>2, <1>3, <1>4 DEF Next, Calls, Pushes, Turns, Fetches, vars,
       OpenServer, StartServer, StopServer, StopReturns, CloseServer,
       CloseReturns, OpenStream, StartStream, StopStream, CloseStream, ClosedLast, LoopTest,
       IdleTurn, ClientPlays, ClientLeaves, SinkAsks, FetchTest, FetchGet,
       EndOfTurn

LEMMA QueueTypeNext == ASSUME ControlInv, [Next]_vars PROVE QueueType'
<1> USE StreamConstants DEF server, history, ControlInv, PushType, QueueType,
             StreamInv, WorkerInv
<1>1. CASE CloseServer BY <1>1 DEF CloseServer
<1>2. CASE OpenStream BY <1>2 DEF OpenStream
<1>3. CASE CloseStream BY <1>3 DEF CloseStream, ClosedLast
<1>4. ASSUME NEW p \in Pushers, PushDrop(p) PROVE QueueType'
  <2>1. queue \in Seq(Items) BY <1>4 DEF PushDrop, Items
  <2> QED BY <1>4, <2>1, TakeOne DEF PushDrop, Items
<1>5. ASSUME NEW p \in Pushers, PushPut(p) PROVE QueueType'
  <2>1. queue' \in Seq(Items) BY <1>5, Pushed
  <2> QED BY <2>1 DEF Items
<1>6. CASE FetchTest BY <1>6 DEF FetchTest, EndOfTurn
<1>7. CASE FetchGet
  <2>1. queue \in Seq(Items) BY <1>7 DEF FetchGet, EndOfTurn, Items
  <2> QED BY <1>7, <2>1, TakeOne DEF FetchGet, EndOfTurn, Items
<1>8. CASE UNCHANGED <<queue>> BY <1>8
<1> QED BY <1>1, <1>2, <1>3, <1>4, <1>5, <1>6, <1>7, <1>8 DEF Next, Calls,
       Pushes, Turns, Fetches, vars, OpenServer, StartServer, StopServer,
       StopReturns, CloseReturns, StartStream, StopStream, PushTest, LoopTest,
       IdleTurn, ClientPlays, ClientLeaves, SinkAsks, EndOfTurn

LEMMA FrameTypeNext == ASSUME ControlInv, [Next]_vars PROVE FrameType'
<1> USE StreamConstants DEF server, history, ControlInv, PushType, FrameType,
             QueueType, StreamInv, WorkerInv
<1>1. CASE CloseServer
  <2>1. Queued \subseteq Frames BY DEF Queued, ToSet
  <2> QED BY <1>1, <2>1 DEF CloseServer
<1>2. CASE CloseStream
  <2>1. Queued \subseteq Frames BY DEF Queued, ToSet
  <2> QED BY <1>2, <2>1 DEF CloseStream, ClosedLast
<1>3. ASSUME NEW p \in Pushers, PushDrop(p) PROVE FrameType'
  <2>1. queue \in Seq(Items) BY <1>3 DEF PushDrop, Items
  <2> QED BY <1>3, <2>1, TakeOne DEF PushDrop, Items
<1>4. ASSUME NEW p \in Pushers, PushPut(p) PROVE FrameType'
  <2>1. <<p, sent[p]>> \in Frames BY <1>4, InHandIsFrame DEF PushPut
  <2> QED BY <1>4, <2>1 DEF PushPut
<1>5. CASE FetchGet
  <2>1. queue \in Seq(Items) BY <1>5 DEF FetchGet, EndOfTurn, WorkerInv, Items
  <2> QED BY <1>5, <2>1, TakeOne DEF FetchGet, EndOfTurn, Items
<1>6. CASE UNCHANGED <<released, leaked>> BY <1>6
<1> QED BY <1>1, <1>2, <1>3, <1>4, <1>5, <1>6 DEF Next, Calls, Pushes, Turns,
       Fetches, vars, OpenServer, StartServer, StopServer, StopReturns,
       CloseReturns, OpenStream, StartStream, StopStream, PushTest, LoopTest,
       IdleTurn, ClientPlays, ClientLeaves, SinkAsks, FetchTest, EndOfTurn

LEMMA WorkerNext == ASSUME ControlInv, [Next]_vars PROVE WorkerInv'
<1> USE StreamConstants DEF server, history, ControlInv, ServerType, PushType,
             QueueType, StreamInv, WorkerInv, NobodyPushes
<1>1. CASE OpenServer BY <1>1 DEF OpenServer
<1>2. CASE StartServer BY <1>2 DEF StartServer
<1>3. CASE StopServer BY <1>3 DEF StopServer
<1>4. CASE StopReturns BY <1>4 DEF StopReturns
<1>5. CASE CloseServer BY <1>5 DEF CloseServer
<1>6. CASE CloseReturns BY <1>6 DEF CloseReturns
<1>7. CASE OpenStream BY <1>7 DEF OpenStream
<1>8. CASE StartStream BY <1>8 DEF StartStream
<1>9. CASE StopStream BY <1>9 DEF StopStream
<1>10. CASE CloseStream BY <1>10 DEF CloseStream, ClosedLast
<1>11. ASSUME NEW p \in Pushers, PushDrop(p) PROVE WorkerInv'
  BY <1>11 DEF PushDrop
<1>12. ASSUME NEW p \in Pushers, PushPut(p) PROVE WorkerInv'
  BY <1>12 DEF PushPut
<1>13. CASE LoopTest BY <1>13 DEF LoopTest
<1>14. CASE IdleTurn BY <1>14 DEF IdleTurn, EndOfTurn
<1>15. CASE ClientPlays BY <1>15 DEF ClientPlays, EndOfTurn
<1>16. CASE ClientLeaves BY <1>16 DEF ClientLeaves, EndOfTurn
<1>17. CASE SinkAsks BY <1>17 DEF SinkAsks, EndOfTurn
<1>18. CASE FetchTest BY <1>18 DEF FetchTest, EndOfTurn
<1>19. CASE FetchGet BY <1>19 DEF FetchGet, EndOfTurn
<1>20. CASE UNCHANGED <<flags, session, exitLoop, thread, app, running, fetch, queue>>
  BY <1>20
<1> QED BY <1>1, <1>2, <1>3, <1>4, <1>5, <1>6, <1>7, <1>8, <1>9, <1>10, <1>11,
       <1>12, <1>13, <1>14, <1>15, <1>16, <1>17, <1>18, <1>19, <1>20 DEF Next,
       Calls, Pushes, Turns, Fetches, vars, PushTest

LEMMA StreamNext == ASSUME ControlInv, [Next]_vars PROVE StreamInv'
<1> USE StreamConstants DEF server, history, ControlInv, ServerType, PushType,
             QueueType, StreamInv, WorkerInv, NobodyPushes
<1>1. CASE OpenServer BY <1>1 DEF OpenServer
<1>2. CASE StartServer BY <1>2 DEF StartServer
<1>3. CASE StopServer BY <1>3 DEF StopServer
<1>4. CASE StopReturns BY <1>4 DEF StopReturns
<1>5. CASE CloseServer BY <1>5 DEF CloseServer
<1>6. CASE CloseReturns BY <1>6 DEF CloseReturns
<1>7. CASE OpenStream
  <2>1. queue' # NoQueue BY <1>7, IsQueue DEF OpenStream
  <2> QED BY <1>7, <2>1 DEF OpenStream
<1>8. CASE StartStream BY <1>8 DEF StartStream
<1>9. CASE StopStream BY <1>9 DEF StopStream
<1>10. CASE CloseStream BY <1>10 DEF CloseStream, ClosedLast
<1>11. ASSUME NEW p \in Pushers, PushTest(p) PROVE StreamInv'
  BY <1>11 DEF PushTest
<1>12. ASSUME NEW p \in Pushers, PushDrop(p) PROVE StreamInv'
  <2>1. queue \in Seq(Items) BY <1>12 DEF PushDrop, Items
  <2>2. queue' \in Seq(Items) BY <1>12, <2>1, TakeOne DEF PushDrop
  <2>3. queue' # NoQueue BY <2>2, IsQueue
  <2> QED BY <1>12, <2>3 DEF PushDrop
<1>13. ASSUME NEW p \in Pushers, PushPut(p) PROVE StreamInv'
  <2>1. queue' # NoQueue BY <1>13, Pushed, IsQueue
  <2> QED BY <1>13, <2>1 DEF PushPut
<1>14. CASE LoopTest BY <1>14 DEF LoopTest
<1>15. CASE IdleTurn BY <1>15 DEF IdleTurn, EndOfTurn
<1>16. CASE ClientPlays BY <1>16 DEF ClientPlays, EndOfTurn
<1>17. CASE ClientLeaves BY <1>17 DEF ClientLeaves, EndOfTurn
<1>18. CASE SinkAsks BY <1>18 DEF SinkAsks, EndOfTurn
<1>19. CASE FetchTest BY <1>19 DEF FetchTest, EndOfTurn
<1>20. CASE FetchGet
  <2>1. queue \in Seq(Items) BY <1>20 DEF FetchGet, EndOfTurn, Items
  <2>2. queue' # NoQueue BY <1>20, <2>1, TakeOne, IsQueue DEF FetchGet, EndOfTurn
  <2> QED BY <1>20, <2>2 DEF FetchGet, EndOfTurn
<1>21. CASE UNCHANGED <<flags, session, exitLoop, thread, app, running, fetch, queue, push>>
  BY <1>21
<1> QED BY <1>1, <1>2, <1>3, <1>4, <1>5, <1>6, <1>7, <1>8, <1>9, <1>10, <1>11,
       <1>12, <1>13, <1>14, <1>15, <1>16, <1>17, <1>18, <1>19, <1>20, <1>21 DEF
       Next, Calls, Pushes, Turns, Fetches, vars

LEMMA EmptyNext == ASSUME ControlInv, EmptyFetchIsBrief, [Next]_vars PROVE EmptyFetchIsBrief'
<1> USE StreamConstants DEF server, history, ControlInv, ServerType, PushType,
             QueueType, StreamInv, WorkerInv, NobodyPushes, EmptyFetchIsBrief
<1>1. CASE CloseServer BY <1>1 DEF CloseServer
<1>2. CASE OpenStream
  <2>1. fetch # "get" BY <1>2 DEF OpenStream
  <2> QED BY <1>2, <2>1 DEF OpenStream
<1>3. CASE CloseStream
  <2>1. queue' # << >> BY <1>3, IsQueue DEF CloseStream, ClosedLast
  <2> QED BY <2>1
<1>4. ASSUME NEW p \in Pushers, PushTest(p) PROVE EmptyFetchIsBrief'
  BY <1>4 DEF PushTest
<1>5. ASSUME NEW p \in Pushers, PushDrop(p) PROVE EmptyFetchIsBrief'
  <2>1. push'[p] = "put" BY <1>5 DEF PushDrop
  <2> QED BY <2>1
<1>6. ASSUME NEW p \in Pushers, PushPut(p) PROVE EmptyFetchIsBrief'
  <2>1. queue' # << >> BY <1>6, Pushed
  <2> QED BY <2>1
<1>7. CASE IdleTurn BY <1>7 DEF IdleTurn, EndOfTurn
<1>8. CASE ClientPlays BY <1>8 DEF ClientPlays, EndOfTurn
<1>9. CASE ClientLeaves BY <1>9 DEF ClientLeaves, EndOfTurn
<1>10. CASE SinkAsks BY <1>10 DEF SinkAsks, EndOfTurn
<1>11. CASE FetchTest BY <1>11 DEF FetchTest, EndOfTurn
<1>12. CASE FetchGet BY <1>12 DEF FetchGet, EndOfTurn
<1>13. CASE UNCHANGED <<fetch, queue, push>> BY <1>13
<1> QED BY <1>1, <1>2, <1>3, <1>4, <1>5, <1>6, <1>7, <1>8, <1>9, <1>10, <1>11,
       <1>12, <1>13 DEF Next, Calls, Pushes, Turns, Fetches, vars, OpenServer,
       StartServer, StopServer, StopReturns, CloseReturns, StartStream,
       StopStream, LoopTest

-----------------------------------------------------------------------------
(* Where the frames are.                                                   *)

Contents == IF queue = NoQueue THEN << >> ELSE queue
Has(q, f) == \E i \in 1 .. Len(q) : q[i] = f
Distinct(q) == \A i, j \in 1 .. Len(q) : q[i] = q[j] /\ q[i] # NoFrame => i = j

Placed(p, n) ==
  LET f == <<p, n>> IN
  /\ Has(Contents, f) => n <= sent[p] /\ ~InHand(p, n) /\ f \notin released \union leaked
  /\ f \in released => n <= sent[p] /\ ~InHand(p, n) /\ f \notin leaked
  /\ f \in leaked => n <= sent[p] /\ ~InHand(p, n)
  /\ n <= sent[p] => InHand(p, n) \/ Has(Contents, f) \/ f \in released \union leaked

FramesInv == /\ Distinct(Contents)
             /\ \A p \in Pushers : \A n \in 1 .. MaxFrames : Placed(p, n)

LEMMA TakeKeeps ==
  ASSUME NEW q \in Seq(Items), q # << >>, Distinct(q)
  PROVE  /\ Distinct(Tail(q)) /\ Has(q, Head(q))
         /\ \A f \in Frames : Has(Tail(q), f) <=> Has(q, f) /\ f # Head(q)
<1> DEFINE t == Tail(q)
<1>1. /\ Len(q) \in Nat /\ Len(q) > 0 /\ Head(q) = q[1]
      /\ Len(t) = Len(q) - 1
      /\ \A i \in 1 .. Len(t) : t[i] = q[i + 1]
  OBVIOUS
<1> HIDE DEF t
<1>2. Distinct(t) BY <1>1 DEF Distinct
<1>3. Has(q, Head(q)) BY <1>1 DEF Has
<1>4. ASSUME NEW f \in Frames, Has(t, f) PROVE Has(q, f) /\ f # Head(q)
  <2>1. PICK i \in 1 .. Len(t) : t[i] = f BY <1>4 DEF Has
  <2>2. q[i + 1] = f /\ i + 1 \in 1 .. Len(q) /\ i + 1 # 1 /\ 1 \in 1 .. Len(q)
    BY <1>1, <2>1
  <2>3. f # NoFrame BY StreamConstants
  <2> QED BY <1>1, <2>2, <2>3 DEF Distinct, Has
<1>5. ASSUME NEW f \in Frames, Has(q, f), f # Head(q) PROVE Has(t, f)
  <2>1. PICK i \in 1 .. Len(q) : q[i] = f BY <1>5 DEF Has
  <2>2. i # 1 BY <1>1, <1>5, <2>1
  <2>3. i - 1 \in 1 .. Len(t) /\ t[i - 1] = f BY <1>1, <2>1, <2>2
  <2> QED BY <2>3 DEF Has
<1> QED BY <1>2, <1>3, <1>4, <1>5 DEF t

LEMMA PutKeeps ==
  ASSUME NEW q \in Seq(Items), Distinct(q), NEW f \in Items, f = NoFrame \/ ~Has(q, f)
  PROVE  /\ Distinct(Append(q, f))
         /\ \A g : Has(Append(q, f), g) <=> Has(q, g) \/ g = f
<1> DEFINE a == Append(q, f)
<1>1. /\ Len(q) \in Nat /\ Len(a) = Len(q) + 1 /\ a[Len(q) + 1] = f
      /\ \A i \in 1 .. Len(q) : a[i] = q[i]
  OBVIOUS
<1> HIDE DEF a
<1>2. Distinct(a)
  <2>1. ASSUME NEW i \in 1 .. Len(a), NEW j \in 1 .. Len(a), a[i] = a[j], a[i] # NoFrame
        PROVE  i = j
    BY <1>1, <2>1 DEF Distinct, Has
  <2> QED BY <2>1 DEF Distinct
<1>3. ASSUME NEW g PROVE Has(a, g) <=> Has(q, g) \/ g = f BY <1>1 DEF Has
<1> QED BY <1>2, <1>3 DEF a

\* What takes a frame from the queue and releases it keeps the frames placed.
LEMMA TakeReleases ==
  ASSUME ControlInv, FramesInv, queue \in Seq(Items), UNCHANGED <<sent, leaked>>,
         \A p \in Pushers : push'[p] # "idle" <=> push[p] # "idle",
         IF queue = << >>
           THEN UNCHANGED <<queue, released>>
           ELSE /\ queue' = Tail(queue)
                /\ released' = released \union ({Head(queue)} \ {NoFrame})
  PROVE  FramesInv'
<1>1. Contents = queue /\ Contents' = queue'
  <2>1. queue' \in Seq(Items) BY TakeOne
  <2> QED BY <2>1, IsQueue DEF Contents
<1>2. CASE queue = << >>
  BY <1>1, <1>2 DEF FramesInv, Placed, InHand, Contents
<1>3. CASE queue # << >>
  <2>1. /\ Distinct(queue') /\ Has(queue, Head(queue))
        /\ \A f \in Frames : Has(queue', f) <=> Has(queue, f) /\ f # Head(queue)
    BY <1>1, <1>3, TakeKeeps DEF FramesInv
  <2>2. \A f \in Frames : f \in released' <=> f \in released \/ f = Head(queue)
    BY <1>3, StreamConstants
  <2>3. ASSUME NEW p \in Pushers, NEW n \in 1 .. MaxFrames PROVE Placed(p, n)'
    <3>1. <<p, n>> \in Frames BY DEF Frames
    <3>2. Placed(p, n) BY DEF FramesInv
    <3> QED BY <1>1, <2>1, <2>2, <3>1, <3>2 DEF Placed, InHand
  <2> QED BY <1>1, <2>1, <2>3 DEF FramesInv
<1> QED BY <1>2, <1>3

\* What destroys the queue leaks what is in it and nothing else.
LEMMA CloseLeaks ==
  ASSUME FramesInv, QueueType, UNCHANGED <<sent, push, released>>,
         queue' = NoQueue, leaked' = leaked \union Queued
  PROVE  FramesInv'
<1>1. Contents' = << >> BY DEF Contents
<1>2. \A f \in Frames : f \in Queued <=> Has(Contents, f)
  BY StreamConstants DEF Queued, ToSet, Has, Contents, QueueType
<1>3. Distinct(Contents') /\ \A f : ~Has(Contents', f) BY <1>1 DEF Distinct, Has
<1>4. ASSUME NEW p \in Pushers, NEW n \in 1 .. MaxFrames PROVE Placed(p, n)'
  <2>1. <<p, n>> \in Frames BY DEF Frames
  <2>2. Placed(p, n) BY DEF FramesInv
  <2> QED BY <1>2, <1>3, <2>1, <2>2 DEF Placed, InHand
<1> QED BY <1>3, <1>4 DEF FramesInv

\* A new frame is in the pusher's hand.
LEMMA TestPlaces ==
  ASSUME ControlInv, FramesInv, NEW p \in Pushers, PushTest(p)
  PROVE  FramesInv'
<1>1. UNCHANGED <<Contents, released, leaked>> BY DEF PushTest, Contents, history
<1>2. ASSUME NEW r \in Pushers, NEW n \in 1 .. MaxFrames PROVE Placed(r, n)'
  <2>1. Placed(r, n) BY DEF FramesInv
  <2>2. sent[p] \in Nat /\ sent[r] \in Nat BY StreamConstants DEF ControlInv, PushType
  <2>3. /\ sent' = [sent EXCEPT ![p] = @ + 1] /\ push[p] = "idle"
        /\ sent \in [Pushers -> 0 .. MaxFrames]
    BY DEF PushTest, ControlInv, PushType
  <2>4. push'[p] # "idle" /\ (r # p => push'[r] = push[r])
    BY DEF PushTest, ControlInv, PushType
  <2>5. CASE r = p BY <1>1, <2>1, <2>2, <2>3, <2>4, <2>5 DEF Placed, InHand
  <2>6. CASE r # p BY <1>1, <2>1, <2>2, <2>3, <2>4, <2>6 DEF Placed, InHand
  <2> QED BY <2>5, <2>6
<1> QED BY <1>1, <1>2 DEF FramesInv

\* The frame in hand is put, or released.
LEMMA PutPlaces ==
  ASSUME ControlInv, FramesInv, NEW p \in Pushers, PushPut(p)
  PROVE  FramesInv'
<1> DEFINE own == <<p, sent[p]>>
<1>1. own \in Frames /\ sent[p] \in 1 .. MaxFrames /\ queue \in Seq(Items)
  <2>1. push[p] # "idle" BY DEF PushPut
  <2>2. own \in Frames BY <2>1, InHandIsFrame DEF ControlInv
  <2> QED BY <2>1, <2>2, StreamConstants
          DEF ControlInv, PushType, QueueType, StreamInv, Items
<1>2. PICK f \in {own, NoFrame} :
         /\ queue' = IF Len(queue) < Capacity THEN Append(queue, f) ELSE queue
         /\ released' = released \union ({own} \ ToSet(queue'))
  BY DEF PushPut
<1>3. queue' \in Seq(Items) BY Pushed
<1>4. Contents = queue /\ Contents' = queue' BY <1>1, <1>3, IsQueue DEF Contents
<1>5. Placed(p, sent[p]) /\ InHand(p, sent[p])
  BY <1>1 DEF FramesInv, InHand, PushPut
<1>6. ~Has(queue, own) /\ own \notin released /\ own \notin leaked
  BY <1>4, <1>5 DEF Placed
<1>7. Distinct(queue') /\ \A g \in Frames : g # own => (Has(queue', g) <=> Has(queue, g))
  <2>1. Distinct(queue) BY <1>4 DEF FramesInv
  <2>2. CASE Len(queue) < Capacity
    <3>1. f \in Items /\ (f = NoFrame \/ ~Has(queue, f)) BY <1>1, <1>2, <1>6 DEF Items
    <3> QED BY <1>1, <1>2, <2>1, <2>2, <3>1, PutKeeps, StreamConstants
  <2>3. CASE ~(Len(queue) < Capacity) BY <1>2, <2>1, <2>3
  <2> QED BY <2>2, <2>3
<1>8. \A g : g \in released' <=> g \in released \/ (g = own /\ ~Has(queue', g))
  BY <1>2, <1>3 DEF ToSet, Has
<1>9. /\ UNCHANGED <<sent, leaked>> /\ push'[p] = "idle"
      /\ \A r \in Pushers : r # p => push'[r] = push[r]
  BY DEF PushPut, ControlInv, PushType
<1>10. ASSUME NEW r \in Pushers, NEW n \in 1 .. MaxFrames PROVE Placed(r, n)'
  <2>1. Placed(r, n) /\ <<r, n>> \in Frames BY DEF FramesInv, Frames
  <2>2. CASE r = p /\ n = sent[p]
    BY <1>1, <1>4, <1>6, <1>8, <1>9, <2>2 DEF Placed, InHand
  <2>3. CASE ~(r = p /\ n = sent[p])
    <3>1. <<r, n>> # own BY <2>3
    <3>2. InHand(r, n)' <=> InHand(r, n) BY <1>9, <2>3 DEF InHand
    <3> QED BY <1>4, <1>7, <1>8, <1>9, <2>1, <3>1, <3>2 DEF Placed
  <2> QED BY <2>2, <2>3
<1> QED BY <1>4, <1>7, <1>10 DEF FramesInv

LEMMA FramesNext == ASSUME ControlInv, FramesInv, [Next]_vars PROVE FramesInv'
<1> USE DEF history
<1>1. ASSUME NEW p \in Pushers, PushTest(p) PROVE FramesInv' BY <1>1, TestPlaces
<1>2. ASSUME NEW p \in Pushers, PushDrop(p) PROVE FramesInv'
  <2>1. queue \in Seq(Items)
    BY <1>2 DEF PushDrop, ControlInv, QueueType, StreamInv, Items
  <2>2. \A r \in Pushers : push'[r] # "idle" <=> push[r] # "idle"
    BY <1>2 DEF PushDrop, ControlInv, PushType
  <2> QED BY <1>2, <2>1, <2>2, TakeReleases DEF PushDrop
<1>3. ASSUME NEW p \in Pushers, PushPut(p) PROVE FramesInv' BY <1>3, PutPlaces
<1>4. CASE FetchGet
  <2>1. queue \in Seq(Items)
    BY <1>4 DEF FetchGet, EndOfTurn, ControlInv, QueueType, StreamInv, WorkerInv, Items
  <2> QED BY <1>4, <2>1, TakeReleases DEF FetchGet, EndOfTurn
<1>5. CASE CloseServer BY <1>5, CloseLeaks DEF CloseServer, ControlInv
<1>6. CASE CloseStream BY <1>6, CloseLeaks DEF CloseStream, ClosedLast, ControlInv
<1>7. CASE OpenStream
  <2>1. Contents' = Contents BY <1>7, IsQueue DEF OpenStream, Contents
  <2> QED BY <1>7, <2>1 DEF OpenStream, FramesInv, Placed, InHand
<1>8. CASE UNCHANGED <<queue, sent, push, released, leaked>>
  BY <1>8 DEF FramesInv, Placed, InHand, Contents
<1> QED BY <1>1, <1>2, <1>3, <1>4, <1>5, <1>6, <1>7, <1>8
    DEF Next, Calls, Pushes, Turns, Fetches, vars, server, OpenServer, StartServer,
        StopServer, StopReturns, CloseReturns, StartStream, StopStream, LoopTest,
        IdleTurn, ClientPlays, ClientLeaves, SinkAsks, FetchTest, EndOfTurn

\* Exactly one place holds: the counts of FramesAccounted add up to one.
LEMMA PlacedOnce == ControlInv /\ FramesInv => FramesAccounted
<1> SUFFICES ASSUME ControlInv, FramesInv, NEW p \in Pushers, NEW n \in 1 .. sent[p]
             PROVE  LET f == <<p, n>> IN
                    TimesQueued(f) + Cardinality({x \in {"hand", "released", "leaked"} :
                        \/ x = "hand" /\ InHand(p, n)
                        \/ x = "released" /\ f \in released
                        \/ x = "leaked" /\ f \in leaked}) = 1
  BY DEF FramesAccounted
<1> DEFINE f == <<p, n>>
           at == {x \in {"hand", "released", "leaked"} :
                        \/ x = "hand" /\ InHand(p, n)
                        \/ x = "released" /\ f \in released
                        \/ x = "leaked" /\ f \in leaked}
<1>1. n \in 1 .. MaxFrames /\ f \in Frames /\ n <= sent[p]
  BY StreamConstants DEF ControlInv, PushType, Frames
<1>2. Placed(p, n) BY <1>1 DEF FramesInv
<1>3. TimesQueued(f) = IF Has(Contents, f) THEN 1 ELSE 0
  <2>1. CASE queue = NoQueue BY <2>1 DEF TimesQueued, Has, Contents
  <2>2. CASE queue # NoQueue
    <3> DEFINE is == {i \in DOMAIN queue : queue[i] = f}
    <3>1. TimesQueued(f) = Cardinality(is) /\ Contents = queue
      BY <2>2 DEF TimesQueued, Contents
    <3>2. queue \in Seq(Items) BY <2>2 DEF ControlInv, QueueType, Items
    <3>3. CASE Has(queue, f)
      <4>1. PICK i \in 1 .. Len(queue) : queue[i] = f BY <3>3 DEF Has
      <4>2. f # NoFrame BY <1>1, StreamConstants
      <4>3. is = {i} BY <3>1, <3>2, <4>1, <4>2 DEF FramesInv, Distinct
      <4> QED BY <3>1, <3>3, <4>3, FS_Singleton
    <3>4. CASE ~Has(queue, f)
      <4>1. is = {} BY <3>2, <3>4 DEF Has
      <4> QED BY <3>1, <3>4, <4>1, FS_EmptySet
    <3> QED BY <3>3, <3>4
  <2> QED BY <2>1, <2>2
<1>4. Cardinality(at) = IF Has(Contents, f) THEN 0 ELSE 1
  <2>1. CASE Has(Contents, f)
    <3>1. at = {} BY <1>2, <2>1 DEF Placed
    <3> QED BY <2>1, <3>1, FS_EmptySet
  <2>2. CASE ~Has(Contents, f)
    <3>1. at = {"hand"} \/ at = {"released"} \/ at = {"leaked"}
      BY <1>1, <1>2, <2>2 DEF Placed
    <3> QED BY <2>2, <3>1, FS_Singleton
  <2> QED BY <2>1, <2>2
<1> HIDE DEF f, at
<1>5. TimesQueued(f) + Cardinality(at) = 1 BY <1>3, <1>4
<1> QED BY <1>5 DEF f, at

-----------------------------------------------------------------------------
(* The theorems.                                                           *)

LEMMA InitInv == Init => ControlInv /\ FramesInv /\ EmptyFetchIsBrief
<1> SUFFICES ASSUME Init PROVE ControlInv /\ FramesInv /\ EmptyFetchIsBrief OBVIOUS
<1> USE StreamConstants DEF Init
<1>1. ServerType /\ PushType /\ QueueType /\ FrameType
  <2>1. ServerType BY DEF ServerType
  <2>2. PushType
    <3>1. push \in [Pushers -> {"idle", "drop", "put"}] OBVIOUS
    <3>2. sent \in [Pushers -> 0 .. MaxFrames] OBVIOUS
    <3> QED BY <3>1, <3>2 DEF PushType
  <2>3. QueueType /\ FrameType BY DEF QueueType, FrameType
  <2> QED BY <2>1, <2>2, <2>3
<1>2. WorkerInv /\ StreamInv BY DEF WorkerInv, StreamInv
<1>3. EmptyFetchIsBrief BY DEF EmptyFetchIsBrief
<1>4. FramesInv BY DEF FramesInv, Placed, Contents, Has, Distinct, InHand
<1> QED BY <1>1, <1>2, <1>3, <1>4 DEF ControlInv

LEMMA ControlNext == ASSUME ControlInv, [Next]_vars PROVE ControlInv'
BY ServerTypeNext, PushTypeNext, QueueTypeNext, FrameTypeNext, WorkerNext, StreamNext
   DEF ControlInv

LEMMA ControlInvariant == Spec => []ControlInv
<1>1. Init => ControlInv BY InitInv
<1>2. ControlInv /\ [Next]_vars => ControlInv' BY ControlNext
<1> QED BY <1>1, <1>2, PTL DEF Spec

(* The state of server and stream stays well-formed: XPR_RTSP_PushData and  *)
(* the calls of the application leave no flag, queue or frame out of range. *)
THEOREM StreamTypeOK == Spec => []TypeOK
<1>1. ControlInv => TypeOK
  BY DEF ControlInv, TypeOK, ServerType, PushType, QueueType, FrameType
<1> QED BY <1>1, ControlInvariant, PTL

(* Worker::run serves no stream that closeServer deletes and fetches from   *)
(* no queue that Stream::close destroyed.                                   *)
THEOREM StreamStaysAlive == Spec => []StreamAlive
<1>1. ControlInv => StreamAlive BY DEF ControlInv, WorkerInv, StreamInv, StreamAlive
<1> QED BY <1>1, ControlInvariant, PTL

(* fetchFrame finds no frame after its test only while a pusher that took   *)
(* the last one is about to put its own.                                    *)
THEOREM EmptyFetchStaysBrief == Spec => []EmptyFetchIsBrief
<1>1. Init => EmptyFetchIsBrief BY InitInv
<1>2. ControlInv /\ EmptyFetchIsBrief /\ [Next]_vars => EmptyFetchIsBrief' BY EmptyNext
<1> QED BY <1>1, <1>2, ControlInvariant, PTL DEF Spec

(* putVideoFrame and fetchFrame lose no frame and release none twice.       *)
THEOREM FramesStayAccounted == Spec => []FramesAccounted
<1>1. Init => FramesInv BY InitInv
<1>2. ControlInv /\ FramesInv /\ [Next]_vars => FramesInv' BY FramesNext
<1>3. ControlInv /\ FramesInv => FramesAccounted BY PlacedOnce
<1> QED BY <1>1, <1>2, <1>3, ControlInvariant, PTL DEF Spec
=================================================================================
