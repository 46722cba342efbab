--------------------------- MODULE StreamSessions ---------------------------
(***************************************************************************)
(* The stream-node sidecar: WebSocket connections (index.ts), the session  *)
(* manager (sessionManager.ts) and the start and close protocols of one    *)
(* scrcpy session (scrcpySession.ts).                                      *)
(*                                                                         *)
(* Node runs one callback at a time, so a step of the model is the code    *)
(* between two awaits of a call that leaves the process (ADB, scrcpy, a    *)
(* WebSocket); awaits on values that are already there belong to the step. *)
(* One connection makes at most one session, so both are named by the same *)
(* identifier.  A session whose close() and start() overlap runs both      *)
(* protocols at once: `start` and `closing` are its two program counters.  *)
(***************************************************************************)
EXTENDS Naturals, Sequences, FiniteSets

CONSTANTS
  Conns,      \* WebSocket connections, and the session each of them makes
  Udids,      \* devices named in the query of a connection
  Allowed,    \* the devices isDeviceAllowed accepts
  MaxStarts,  \* MAX_START_CONCURRENCY
  None        \* no connection, no device

ASSUME ConstantsAssumption ==
  /\ IsFiniteSet(Conns)
  /\ Allowed \subseteq Udids
  /\ MaxStarts \in Nat \ {0}
  /\ None \notin Conns /\ None \notin Udids

VARIABLES
  conn,     \* per connection: its socket and the progress of its handler
  sess,     \* per session: its two program counters and what it holds
  current,  \* SessionManager.#sessions: device -> session
  queue,    \* SessionManager.#queue
  active,   \* SessionManager.#activeStarts
  exit,     \* "no", "closing" (SIGINT/SIGTERM received) or "done"
  awaited   \* the sessions closeAll() waits for

vars == <<conn, sess, current, queue, active, exit, awaited>>

-----------------------------------------------------------------------------
(* Types.                                                                  *)

\* "idle" is a connection that has not arrived.  The handler is at the await
\* of manager.close ("closePrev"), of the start job ("starting"), of
\* session.close in the catch of start ("unwinding"), or it has ended.
Handlers == {"idle", "closePrev", "starting", "running", "unwinding", "failed", "rejected"}

\* start(): "removing" and "failing" are the catch block, before and after its
\* adb rm; "ended" is a video stream the device has ended.
Starts == {"none", "queued", "connecting", "pushing", "spawning", "video",
           "live", "ended", "removing", "failing", "failed"}

\* close(): the await it is at, in the order of the code.
Closings == {"no", "release", "push", "rm", "client", "adb", "done"}

\* The start jobs that hold one of the MaxStarts slots.
Holding == {"connecting", "pushing", "spawning", "video", "removing", "failing"}

\* `transport` and `client`: the ADB transport and scrcpy client the session
\* opened.  `path`: #remoteServerPath is defined.  `jar`: the session's JAR on
\* the device, ours to remove ("ours") or left to scrcpy's CleanUp ("scrcpy").
\* `lost` (history): a push or rm of this JAR failed in a way code cannot mend.
Session == [start : Starts, closing : Closings,
            transport : {"none", "open", "closed"},
            client : {"none", "open", "closed"},
            path : BOOLEAN, jar : {"none", "ours", "scrcpy"}, lost : BOOLEAN]

Connection == [ws : {"none", "open", "closed"}, handler : Handlers,
               udid : Udids \cup {None}, prev : Conns \cup {None}]

TypeOK ==
  /\ conn \in [Conns -> Connection]
  /\ sess \in [Conns -> Session]
  /\ current \in [Udids -> Conns \cup {None}]
  /\ queue \in Seq(Conns)
  /\ active \in Nat
  /\ exit \in {"no", "closing", "done"}
  /\ awaited \subseteq Conns

NewSession ==
  [start |-> "none", closing |-> "no", transport |-> "none",
   client |-> "none", path |-> FALSE, jar |-> "none", lost |-> FALSE]

Init ==
  /\ conn = [c \in Conns |->
               [ws |-> "none", handler |-> "idle", udid |-> None, prev |-> None]]
  /\ sess = [c \in Conns |-> NewSession]
  /\ current = [u \in Udids |-> None]
  /\ queue = <<>>
  /\ active = 0
  /\ exit = "no"
  /\ awaited = {}

Closed(s) == s.closing # "no"

-----------------------------------------------------------------------------
(* close() of one session, as the states it goes through.                  *)

AfterClient(s) ==
  [s EXCEPT !.closing = IF s.transport = "open" THEN "adb" ELSE "done"]

\* Mutant: a close() whose rm failed starts over and never reaches the client.
AfterRm_RetryRm(s) ==
  IF s.lost THEN [s EXCEPT !.closing = "rm"] ELSE AfterClient(s)

AfterRm(s) ==
  IF s.client = "open" THEN [s EXCEPT !.closing = "client"] ELSE AfterClient(s)

\* #removePendingServer takes the path before it waits, so that start() and
\* close() never both remove the JAR.
AfterPush(s) ==
  IF s.path THEN [s EXCEPT !.path = FALSE, !.closing = "rm"] ELSE AfterRm(s)

\* Mutant: close() does not wait for the push in flight.
AfterRelease_NoPushWait(s) == AfterPush(s)

AfterRelease(s) ==
  IF s.start = "pushing" THEN [s EXCEPT !.closing = "push"] ELSE AfterPush(s)

\* The synchronous part of close(): it is idempotent, and waits to release the
\* UHID devices only when there is a controller.
Closing(s) ==
  IF Closed(s) THEN s
  ELSE IF s.client = "open" THEN [s EXCEPT !.closing = "release"]
  ELSE AfterRelease(s)

\* The catch block of start().
Fail(s) ==
  IF s.path THEN [s EXCEPT !.path = FALSE, !.start = "removing"]
  ELSE [s EXCEPT !.start = "failing"]

-----------------------------------------------------------------------------
(* The start queue.                                                        *)

\* How many jobs #pump dequeues from q when a jobs are running.
Room(q, a) ==
  IF a >= MaxStarts THEN 0
  ELSE IF Len(q) <= MaxStarts - a THEN Len(q) ELSE MaxStarts - a

\* session.start() up to its first await: a session closed while it was in the
\* queue is refused, any other one asks ADB for its device.
Run(s) == [s EXCEPT !.start = IF Closed(s) THEN "failing" ELSE "connecting"]

Pump(q, a, ss) ==
  LET n == Room(q, a)
      out == {q[i] : i \in 1 .. n}
  IN /\ queue' = SubSeq(q, n + 1, Len(q))
     /\ active' = a + n
     /\ sess' = [c \in Conns |-> IF c \in out THEN Run(ss[c]) ELSE ss[c]]

\* Mutant: the slot of a finished job is never given to a waiting one.
Release_NoPump(ss) ==
  /\ active' = active - 1
  /\ sess' = ss
  /\ UNCHANGED queue

\* Mutant: a job that failed gives its slot back twice.
Release_Twice(ss) ==
  Pump(queue, IF \E c \in Conns : ss[c].start = "failed" THEN active - 2 ELSE active - 1, ss)

\* The finally of a job: give the slot back, then pump.
Release(ss) == Pump(queue, active - 1, ss)

\* start() from the end of `await this.close(udid)`: register the session and
\* queue its job, whatever has been registered for the device meanwhile.
Register(c, u) ==
  /\ current' = [current EXCEPT ![u] = c]
  /\ Pump(Append(queue, c), active, [sess EXCEPT ![c].start = "queued"])

-----------------------------------------------------------------------------
(* Connections.                                                            *)

\* A socket whose device is not in the allowlist is closed at once.
Reject(c, u) ==
  /\ conn[c].ws = "none" /\ u \notin Allowed
  /\ conn' = [conn EXCEPT ![c].ws = "closed", ![c].handler = "rejected", ![c].udid = u]
  /\ UNCHANGED <<sess, current, queue, active, exit, awaited>>

\* A socket for a device without a session: nothing to wait for.
Arrive(c, u) ==
  /\ conn[c].ws = "none" /\ u \in Allowed
  /\ current[u] = None
  /\ conn' = [conn EXCEPT ![c].ws = "open", ![c].handler = "starting", ![c].udid = u]
  /\ Register(c, u)
  /\ UNCHANGED <<exit, awaited>>

\* A socket for a device that has a session: the session leaves the map before
\* its close() is awaited.
Replace(c, u) ==
  /\ conn[c].ws = "none" /\ u \in Allowed
  /\ LET p == current[u] IN
     /\ p # None
     /\ conn' = [conn EXCEPT ![c].ws = "open", ![c].handler = "closePrev",
                             ![c].udid = u, ![c].prev = p]
     /\ current' = [current EXCEPT ![u] = None]
     /\ sess' = [sess EXCEPT ![p] = Closing(@)]
  /\ UNCHANGED <<queue, active, exit, awaited>>

PrevClosed(c) ==
  /\ conn[c].handler = "closePrev"
  /\ sess[conn[c].prev].closing = "done"
  /\ conn' = [conn EXCEPT ![c].handler = "starting"]
  /\ Register(c, conn[c].udid)
  /\ UNCHANGED <<exit, awaited>>

\* Mutant: a closing socket closes whatever session its device has now.
WsCloses_ByUdid(c) ==
  /\ conn[c].ws = "open"
  /\ conn' = [conn EXCEPT ![c].ws = "closed"]
  /\ LET d == IF conn[c].handler = "running" THEN current[conn[c].udid] ELSE None IN
     /\ sess' = [s \in Conns |-> IF s = d THEN Closing(sess[s]) ELSE sess[s]]
     /\ current' = [u \in Udids |-> IF d # None /\ current[u] = d THEN None ELSE current[u]]
  /\ UNCHANGED <<queue, active, exit, awaited>>

\* Mutant: the entry of the closed session stays in the map.
WsCloses_KeepEntry(c) ==
  /\ conn[c].ws = "open"
  /\ conn' = [conn EXCEPT ![c].ws = "closed"]
  /\ sess' = IF conn[c].handler = "running" THEN [sess EXCEPT ![c] = Closing(@)] ELSE sess
  /\ UNCHANGED <<current, queue, active, exit, awaited>>

\* The socket closes.  The handler for it is attached only once the start has
\* resolved; it then closes the session only if that is still the current one.
WsCloses(c) ==
  /\ conn[c].ws = "open"
  /\ conn' = [conn EXCEPT ![c].ws = "closed"]
  /\ IF conn[c].handler = "running" /\ current[conn[c].udid] = c
     THEN /\ sess' = [sess EXCEPT ![c] = Closing(@)]
          /\ current' = [current EXCEPT ![conn[c].udid] = None]
     ELSE UNCHANGED <<sess, current>>
  /\ UNCHANGED <<queue, active, exit, awaited>>

\* The catch of SessionManager.start; session.close() returns at once when the
\* session is already closed, even if that close has not finished.
StartRejected(c) ==
  LET u == conn[c].udid
      mine == sess[c]
  IN /\ mine.start = "failing"
     /\ current' = IF current[u] = c THEN [current EXCEPT ![u] = None] ELSE current
     /\ conn' = IF Closed(mine)
                THEN [conn EXCEPT ![c].handler = "failed", ![c].ws = "closed"]
                ELSE [conn EXCEPT ![c].handler = "unwinding"]
     /\ Release([sess EXCEPT ![c] = Closing([mine EXCEPT !.start = "failed"])])
     /\ UNCHANGED <<exit, awaited>>

\* The error has been reported to the socket, which is closed with 1011.
Unwound(c) ==
  /\ conn[c].handler = "unwinding"
  /\ sess[c].closing = "done"
  /\ conn' = [conn EXCEPT ![c].handler = "failed", ![c].ws = "closed"]
  /\ UNCHANGED <<sess, current, queue, active, exit, awaited>>

-----------------------------------------------------------------------------
(* start() of one session: each step is the answer of one external call.   *)

Becomes(c, s) ==
  /\ sess' = [sess EXCEPT ![c] = s]
  /\ UNCHANGED <<conn, current, queue, active, exit, awaited>>

\* listDevices and createAdbForSerial; a close() before this finds no transport.
Connected(c) ==
  /\ sess[c].start = "connecting"
  /\ LET s == [sess[c] EXCEPT !.transport = "open"] IN
     Becomes(c, IF Closed(s) THEN Fail(s)
                ELSE [s EXCEPT !.path = TRUE, !.start = "pushing"])

\* The device is not listed, or its transport cannot be created.
ConnectFails(c) ==
  /\ sess[c].start = "connecting"
  /\ Becomes(c, Fail(sess[c]))

Pushed(c) ==
  /\ sess[c].start = "pushing"
  /\ LET s == [sess[c] EXCEPT !.jar = "ours"] IN
     Becomes(c, IF Closed(s) THEN Fail(s) ELSE [s EXCEPT !.start = "spawning"])

\* The push fails, perhaps leaving a part of the file, or has not answered in
\* SERVER_IO_TIMEOUT_MS and goes on behind the back of the session.
PushFails(c) ==
  /\ sess[c].start = "pushing"
  /\ \E j \in {"none", "ours"}, late \in BOOLEAN :
       Becomes(c, Fail([sess[c] EXCEPT !.jar = j, !.lost = @ \/ late]))

\* Mutant: a session closed while scrcpy was being spawned goes on.
Spawned_NoCancelCheck(c) ==
  /\ sess[c].start = "spawning" /\ sess[c].transport = "open"
  /\ Becomes(c, [sess[c] EXCEPT !.client = "open", !.path = FALSE, !.start = "video",
                                !.jar = IF @ = "ours" THEN "scrcpy" ELSE @])

\* AdbScrcpyClient.start resolves; it cannot over a transport that is closed.
Spawned(c) ==
  /\ sess[c].start = "spawning" /\ sess[c].transport = "open"
  /\ LET s == [sess[c] EXCEPT !.client = "open", !.path = FALSE,
                              !.jar = IF @ = "ours" THEN "scrcpy" ELSE @] IN
     Becomes(c, IF Closed(s) THEN Fail(s) ELSE [s EXCEPT !.start = "video"])

SpawnFails(c) ==
  /\ sess[c].start = "spawning"
  /\ Becomes(c, Fail(sess[c]))

\* The video stream is there: the start resolves, its slot is released and the
\* handlers of the socket are attached.
VideoReady(c) ==
  /\ sess[c].start = "video"
  /\ sess[c].client = "open" /\ sess[c].transport = "open"
  /\ conn' = [conn EXCEPT ![c].handler = "running"]
  /\ Release([sess EXCEPT ![c].start = "live"])
  /\ UNCHANGED <<current, exit, awaited>>

VideoFails(c) ==
  /\ sess[c].start = "video"
  /\ Becomes(c, Fail(sess[c]))

\* The adb rm of the catch block answers, or fails, or times out.
StartRmDone(c) ==
  /\ sess[c].start = "removing"
  /\ \E ok \in BOOLEAN :
       Becomes(c, [sess[c] EXCEPT !.start = "failing", !.lost = @ \/ ~ok,
                                  !.jar = IF ok THEN "none" ELSE @])

\* The device ends the video stream; nothing else of the session changes.
ReaderEnds(c) ==
  /\ sess[c].start = "live"
  /\ Becomes(c, [sess[c] EXCEPT !.start = "ended"])

-----------------------------------------------------------------------------
(* close() of one session.                                                 *)

ReleaseDone(c) ==
  /\ sess[c].closing = "release"
  /\ Becomes(c, AfterRelease(sess[c]))

PushSettled(c) ==
  /\ sess[c].closing = "push" /\ sess[c].start # "pushing"
  /\ Becomes(c, AfterPush(sess[c]))

CloseRmDone(c) ==
  /\ sess[c].closing = "rm"
  /\ \E ok \in BOOLEAN :
       Becomes(c, AfterRm([sess[c] EXCEPT !.lost = @ \/ ~ok,
                                   !.jar = IF ok THEN "none" ELSE @]))

ClientClosed(c) ==
  /\ sess[c].closing = "client"
  /\ Becomes(c, AfterClient([sess[c] EXCEPT !.client = "closed"]))

AdbClosed(c) ==
  /\ sess[c].closing = "adb"
  /\ Becomes(c, [sess[c] EXCEPT !.transport = "closed", !.closing = "done"])

-----------------------------------------------------------------------------
(* The signal handlers: closeAll, then exit.                               *)

Registered == {c \in Conns : \E u \in Udids : current[u] = c}

Shutdown ==
  /\ exit = "no"
  /\ exit' = "closing"
  /\ awaited' = Registered
  /\ current' = [u \in Udids |-> None]
  /\ sess' = [c \in Conns |-> IF c \in Registered THEN Closing(sess[c]) ELSE sess[c]]
  /\ UNCHANGED <<conn, queue, active>>

Exit ==
  /\ exit = "closing"
  /\ \A c \in awaited : sess[c].closing = "done"
  /\ exit' = "done"
  /\ UNCHANGED <<conn, sess, current, queue, active, awaited>>

\* The process has gone.
Terminated == exit = "done" /\ UNCHANGED vars

-----------------------------------------------------------------------------
StartStep(c) ==
  \/ Connected(c) \/ ConnectFails(c) \/ Pushed(c) \/ PushFails(c)
  \/ Spawned(c) \/ SpawnFails(c) \/ VideoReady(c) \/ VideoFails(c)
  \/ StartRmDone(c) \/ StartRejected(c)

CloseStep(c) ==
  \/ ReleaseDone(c) \/ PushSettled(c) \/ CloseRmDone(c)
  \/ ClientClosed(c) \/ AdbClosed(c)

HandlerStep(c) == PrevClosed(c) \/ Unwound(c)

Environment(c) ==
  \/ \E u \in Udids : Reject(c, u) \/ Arrive(c, u) \/ Replace(c, u)
  \/ WsCloses(c) \/ ReaderEnds(c)

Next ==
  \/ /\ exit # "done"
     /\ \/ \E c \in Conns : Environment(c) \/ StartStep(c) \/ CloseStep(c) \/ HandlerStep(c)
        \/ Shutdown
        \/ Exit
  \/ Terminated

Spec == Init /\ [][Next]_vars

\* Every call that leaves the process answers, or fails, in the end: push and rm
\* have a timeout of their own, the rest is ADB's and scrcpy's.  Connections,
\* sockets, devices and signals owe the system nothing.
Fairness ==
  \A c \in Conns :
    /\ WF_vars(exit # "done" /\ StartStep(c))
    /\ WF_vars(exit # "done" /\ CloseStep(c))
    /\ WF_vars(exit # "done" /\ HandlerStep(c))

FairSpec == Spec /\ Fairness

-----------------------------------------------------------------------------
(* Properties.                                                             *)

\* A slot is held exactly by the jobs that run, never more than MaxStarts, and a
\* job waits only while every slot is held (#pump, sessionManager.ts:83): no
\* path through a failed, cancelled or closed start loses a slot or a wake-up.
SlotsExact ==
  /\ active = Cardinality({c \in Conns : sess[c].start \in Holding})
  /\ active <= MaxStarts
  /\ queue # <<>> => active = MaxStarts

\* A session the manager hands out as the current one of a device is that
\* device's and has not been closed, although close() takes it out of the map in
\* one step and closes it over many (sessionManager.ts:51-69).
CurrentIsOpen ==
  \A u \in Udids : current[u] # None =>
    /\ conn[current[u]].udid = u
    /\ ~Closed(sess[current[u]])

\* A session is closed by its own socket, its own failed start, a newer
\* connection for the same device, or a shutdown; and an entry that leaves the
\* map takes its session into close().
OwnerCloses ==
  /\ \A c \in Conns : ~Closed(sess[c]) /\ Closed(sess'[c]) =>
       \/ conn[c].ws = "open" /\ conn'[c].ws = "closed"
       \/ conn'[c].handler = "unwinding"
       \/ \E d \in Conns : /\ conn[d].ws = "none" /\ conn'[d].prev = c
                           /\ conn'[d].udid = conn[c].udid
       \/ exit # exit'
  /\ \A u \in Udids : current[u] # None /\ current'[u] = None =>
       Closed(sess'[current[u]])

\* Nobody else ever closes a session, and no connection takes the entry of
\* another one away.  This is the race "old WebSocket kills the new session" that
\* closeIfCurrent was written for (REPORT_STREAM_FIX_HANDOFF_2026-06-26.md:209).
OnlyTheOwnerCloses == [][OwnerCloses]_vars

\* Once both protocols of a session have ended, its JAR is still on the device
\* only if a push or an rm failed: whichever of start() and close() takes the
\* path removes the file, and close() waits for a push in flight
\* (work_log.md:33, scrcpySession.ts:608).
NoJarLeftBehind ==
  \A c \in Conns :
    sess[c].closing = "done" /\ sess[c].start \in {"failed", "live", "ended"} =>
      (sess[c].jar = "ours" => sess[c].lost)

\* close() never leaves a client or a transport behind that it could see: a
\* session that has resolved its start and has finished its close() holds
\* nothing of the device (scrcpySession.ts:601).
ClosedHoldsNothing ==
  \A c \in Conns :
    sess[c].closing = "done" /\ sess[c].start \in {"live", "ended"} =>
      sess[c].transport # "open" /\ sess[c].client # "open"

\* A connection is told, in the end, that its session runs or that it failed,
\* however many others wait for a slot or for a close (sessionManager.ts:24-45).
EveryConnectionIsAnswered ==
  \A c \in Conns :
    conn[c].ws # "none" ~>
      conn[c].handler \in {"running", "failed", "rejected"} \/ exit = "done"

\* A close() that has begun ends, even when it waits for a push of the start it
\* overlaps (scrcpySession.ts:608).
EveryCloseEnds ==
  \A c \in Conns :
    Closed(sess[c]) ~> sess[c].closing = "done" \/ exit = "done"

\* index.ts:178 says that the manager "already cleans up the failed session it
\* created": a connection that was told its start failed has no ADB transport.
FailedStartIsCleanedUp ==
  \A c \in Conns :
    conn[c].handler = "failed" /\ sess[c].closing = "done" => sess[c].transport # "open"

\* TANGO_STREAM_V2.md:503 (and 315-316) says that closing the WebSocket breaks the
\* scrcpy session off: a session whose start has resolved has no closed socket.
ClosedSocketClosesSession ==
  \A c \in Conns :
    conn[c].handler = "running" /\ conn[c].ws = "closed" => Closed(sess[c])
=============================================================================
