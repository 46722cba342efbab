----------------------------- MODULE TileStream -----------------------------
(***************************************************************************)
(* The stream of each tile (useTileStream.ts): the leases that keep two    *)
(* tiles from streaming one device, the batched connect queue all tiles    *)
(* share, and each tile's socket, timers and render watchdog.              *)
(*                                                                         *)
(* A step is one browser task: an effect, a timer, or an event of the      *)
(* socket or the engine.  Handlers of a socket are cleared when it is left, *)
(* so a tile only has events of its current one.  Time is abstract: a timer *)
(* that is set may fire, and a delay the watchdog measures may have passed. *)
(***************************************************************************)
EXTENDS Naturals, Sequences, FiniteSets

CONSTANTS
  Tiles,       \* the tiles of the grid and the viewer
  Keys,        \* streamSessionKey: the devices they can show
  BatchSize,   \* STREAM_CONNECT_BATCH_SIZE
  None,        \* no tile, no device
  MaxReloads,  \* bound: reloads asked for by the user
  MaxQueue     \* bound: items in the queue when a tile is mounted or reloaded

ASSUME TileConstants ==
  /\ IsFiniteSet(Tiles) /\ BatchSize \in Nat \ {0}
  /\ None \notin Tiles /\ None \notin Keys
  /\ MaxReloads \in Nat /\ MaxQueue \in Nat

VARIABLES
  tile,     \* per tile: the state of its effect
  lease,    \* activeStreamSessions
  queue,    \* connectQueue
  timer,    \* connectQueueTimer is set
  reloads   \* MaxReloads counter

vars == <<tile, lease, queue, timer, reloads>>

\* `key` is None while the effect is not mounted.  `closing`: closingRef.
\* `retry`, `initial`: the reconnect and initial-load timers.  `engine`: there is
\* one.  `first`: firstFrame; `fed`: the engine has been given video.  `render`:
\* pendingRenderSince ("pending") and lastDecoderRestartAt ("restarted").
\* `packets`: is lastPacketAt older than NO_PACKET_BEFORE_FIRST_FRAME_TIMEOUT_MS?
Tile ==
  [key : Keys \cup {None}, ws : {"none", "connecting", "open", "closed"},
   closing : BOOLEAN, retry : BOOLEAN, initial : BOOLEAN, engine : BOOLEAN,
   first : BOOLEAN, fed : BOOLEAN, render : {"idle", "pending", "restarted"},
   packets : {"recent", "old"}]

\* `live`: the item is not cancelled and its generation is the tile's; cleanupWs
\* always ends both.
Item == [tile : Tiles, live : BOOLEAN]

Free == [owner |-> None, state |-> "none"]

\* No entry in the map, or an entry with both its fields.
Lease == {Free} \cup [owner : Tiles, state : {"queued", "connecting", "connected"}]

Unmounted ==
  [key |-> None, ws |-> "none", closing |-> TRUE, retry |-> FALSE, initial |-> FALSE,
   engine |-> FALSE, first |-> FALSE, fed |-> FALSE, render |-> "idle", packets |-> "recent"]

TypeOK ==
  /\ tile \in [Tiles -> Tile]
  /\ lease \in [Keys -> Lease]
  /\ queue \in Seq(Item)
  /\ timer \in BOOLEAN
  /\ reloads \in 0 .. MaxReloads

Init ==
  /\ tile = [t \in Tiles |-> Unmounted]
  /\ lease = [k \in Keys |-> Free]
  /\ queue = <<>>
  /\ timer = FALSE
  /\ reloads = 0

Streams(s) == s.ws \in {"connecting", "open"}

-----------------------------------------------------------------------------
(* Leases and the queue.                                                   *)

Owned(k, t, state) == [lease EXCEPT ![k] = [owner |-> t, state |-> state]]

\* Mutant: a lease is released by whoever asks.
Released_Anyone(k, t) == [lease EXCEPT ![k] = Free]

\* Mutant: the release forgets the owner and keeps the state.
Released_KeepState(k, t) ==
  IF lease[k].owner = t THEN [lease EXCEPT ![k].owner = None] ELSE lease

\* releaseStreamSession: only the owner's own lease.
Released(k, t) == IF lease[k].owner = t THEN [lease EXCEPT ![k] = Free] ELSE lease

\* updateStreamSession: leaves another tile's lease alone.
Updated(k, t, state) ==
  IF lease[k].owner \in {None, t} THEN Owned(k, t, state) ELSE lease

\* queuedConnectCancel, for the item of t that is still live.
Cancelled(t) ==
  [i \in DOMAIN queue |-> IF queue[i].tile = t THEN [queue[i] EXCEPT !.live = FALSE] ELSE queue[i]]

\* Mutant: the reconnect timer is not cleared.
Cleaned_KeepRetry(s) ==
  [s EXCEPT !.ws = "none", !.closing = TRUE, !.initial = FALSE, !.engine = FALSE]

\* The tile's own part of cleanupWs.
Cleaned(s) ==
  [s EXCEPT !.ws = "none", !.closing = TRUE, !.retry = FALSE, !.initial = FALSE,
            !.engine = FALSE]

\* claimStreamSession fails: another tile has the device.
Refused(k, t) == lease[k].owner \notin {None, t}

Enqueue(t) ==
  /\ queue' = Append(Cancelled(t), [tile |-> t, live |-> TRUE])
  /\ timer' = TRUE

\* connect(): leave what the tile has, claim the device, and queue for it; a tile
\* that is refused just stops there.
Connect(t, s) ==
  /\ tile' = [tile EXCEPT ![t] = Cleaned(s)]
  /\ IF Refused(s.key, t)
     THEN queue' = Cancelled(t) /\ UNCHANGED <<lease, timer>>
     ELSE Enqueue(t) /\ lease' = Owned(s.key, t, "queued")

-----------------------------------------------------------------------------
(* The queue timer.                                                        *)

LiveUpTo(i) == Cardinality({j \in 1 .. i : queue[j].live})

\* flushConnectQueue takes items until it has started BatchSize of them.
Taken == Cardinality({i \in 1 .. Len(queue) : LiveUpTo(i - 1) < BatchSize})

\* The run of a queued item: a new engine, a new socket.
Started(s) ==
  [s EXCEPT !.ws = "connecting", !.closing = FALSE, !.initial = TRUE, !.engine = TRUE,
            !.first = FALSE, !.fed = FALSE, !.render = "idle", !.packets = "recent"]

Batch == {queue[i].tile : i \in {j \in 1 .. Taken : queue[j].live}}

Rest == SubSeq(queue, Taken + 1, Len(queue))

StartBatch ==
  /\ tile' = [t \in Tiles |-> IF t \in Batch THEN Started(tile[t]) ELSE tile[t]]
  /\ lease' = [k \in Keys |->
                 LET by == {t \in Batch : tile[t].key = k /\ lease[k].owner \in {None, t}}
                 IN IF by = {} THEN lease[k]
                    ELSE [owner |-> CHOOSE t \in by : TRUE, state |-> "connecting"]]

\* The timer runs a batch, and is set again when live items are left.
Flush ==
  /\ timer
  /\ StartBatch
  /\ LET more == \E i \in DOMAIN Rest : Rest[i].live IN
     queue' = (IF more THEN Rest ELSE <<>>) /\ timer' = more
  /\ UNCHANGED reloads

-----------------------------------------------------------------------------
(* The effect of a tile.                                                   *)

Mount(t, k) ==
  /\ tile[t].key = None /\ Len(queue) < MaxQueue
  /\ Connect(t, [Unmounted EXCEPT !.key = k])
  /\ UNCHANGED reloads

\* The cleanup of the effect: the tile goes, or will show another device.
Unmount(t) ==
  /\ tile[t].key # None
  /\ tile' = [tile EXCEPT ![t] = Unmounted]
  /\ queue' = Cancelled(t)
  /\ lease' = Released(tile[t].key, t)
  /\ UNCHANGED <<timer, reloads>>

Reload(t) ==
  /\ tile[t].key # None /\ reloads < MaxReloads /\ Len(queue) < MaxQueue
  /\ reloads' = reloads + 1
  /\ Connect(t, tile[t])

-----------------------------------------------------------------------------
(* The socket, the engine and the timers of a tile.                        *)

WsOpens(t) ==
  /\ tile[t].ws = "connecting"
  /\ tile' = [tile EXCEPT ![t].ws = "open", ![t].packets = "recent"]
  /\ lease' = Updated(tile[t].key, t, "connected")
  /\ UNCHANGED <<queue, timer, reloads>>

\* Mutant: a closed socket keeps the lease.
WsCloses_KeepLease(t) ==
  /\ Streams(tile[t])
  /\ tile' = [tile EXCEPT ![t].ws = "closed", ![t].initial = FALSE, ![t].retry = TRUE]
  /\ UNCHANGED <<lease, queue, timer, reloads>>

\* Mutant: only a socket that was open is tried again.
WsCloses_OpenOnly(t) ==
  /\ Streams(tile[t])
  /\ tile' = [tile EXCEPT ![t].ws = "closed", ![t].initial = FALSE,
                          ![t].retry = (tile[t].ws = "open")]
  /\ lease' = Released(tile[t].key, t)
  /\ UNCHANGED <<queue, timer, reloads>>

\* The socket fails or the server closes it.
WsCloses(t) ==
  /\ Streams(tile[t])
  /\ tile' = [tile EXCEPT ![t].ws = "closed", ![t].initial = FALSE, ![t].retry = TRUE]
  /\ lease' = Released(tile[t].key, t)
  /\ UNCHANGED <<queue, timer, reloads>>

Only(t, s) ==
  /\ tile' = [tile EXCEPT ![t] = s]
  /\ UNCHANGED <<lease, queue, timer, reloads>>

\* A binary message is fed to the engine; a text (a status, an error) is not.
Packet(t) ==
  /\ tile[t].ws = "open"
  /\ LET s == [tile[t] EXCEPT !.packets = "recent"] IN
     \/ Only(t, s)
     \/ Only(t, [s EXCEPT !.fed = TRUE,
                          !.render = IF s.first /\ @ = "idle" THEN "pending" ELSE @])

Silence(t) ==
  /\ tile[t].ws = "open" /\ tile[t].packets = "recent"
  /\ Only(t, [tile[t] EXCEPT !.packets = "old"])

\* A frame has been drawn: onFirstFrame and onFrame of the engine.
Frame(t) ==
  /\ tile[t].engine /\ tile[t].fed
  /\ Only(t, [tile[t] EXCEPT !.first = TRUE, !.initial = FALSE, !.render = "idle"])

\* The reconnect timer.
Retry(t) ==
  /\ tile[t].retry
  /\ Connect(t, tile[t])
  /\ UNCHANGED reloads

\* The initial-load timer; it is cleared with the first frame and the socket.
InitialTimeout(t) ==
  /\ tile[t].initial /\ ~tile[t].closing /\ ~tile[t].first
  /\ Connect(t, tile[t])
  /\ UNCHANGED reloads

Watched(s) == ~s.closing /\ s.ws = "open"

\* The watchdog, when the picture has stood still since a packet came ...
RestartsDecoder(t) ==
  /\ Watched(tile[t]) /\ tile[t].render = "pending"
  /\ Only(t, [tile[t] EXCEPT !.render = "restarted"])

\* Mutant: a restart that has not helped is tried again, for ever.
RebuildsStream_RestartAgain(t) ==
  /\ Watched(tile[t]) /\ tile[t].render = "restarted"
  /\ Only(t, [tile[t] EXCEPT !.render = "pending"])

\* ... when a restart of the decoder has not helped ...
RebuildsStream(t) ==
  /\ Watched(tile[t]) /\ tile[t].render = "restarted"
  /\ Connect(t, tile[t])
  /\ UNCHANGED reloads

\* ... and when nothing has come at all.
SilentTimeout(t) ==
  /\ Watched(tile[t]) /\ ~tile[t].first /\ tile[t].packets = "old"
  /\ Connect(t, tile[t])
  /\ UNCHANGED reloads

Watchdog(t) == RestartsDecoder(t) \/ RebuildsStream(t) \/ SilentTimeout(t)

Next ==
  \/ Flush
  \/ \E t \in Tiles :
       \/ \E k \in Keys : Mount(t, k)
       \/ Unmount(t) \/ Reload(t)
       \/ WsOpens(t) \/ WsCloses(t) \/ Packet(t) \/ Silence(t) \/ Frame(t)
       \/ Retry(t) \/ InitialTimeout(t) \/ Watchdog(t)

Spec == Init /\ [][Next]_vars

\* Timers that are set fire, and the interval of the watchdog keeps running.
Fairness ==
  /\ WF_vars(Flush)
  /\ \A t \in Tiles :
       WF_vars(Retry(t)) /\ WF_vars(InitialTimeout(t)) /\ WF_vars(Watchdog(t))

FairSpec == Spec /\ Fairness

-----------------------------------------------------------------------------
(* Properties.                                                             *)

leaseHolder == [k \in Keys |-> lease[k].owner]
leasedStream == [t \in Tiles |-> IF Streams(tile[t]) THEN tile[t].key ELSE None]

SL == INSTANCE StreamLease WITH holder <- leaseHolder, stream <- leasedStream

\* The tiles implement the lease: whatever the order of mounts, reloads, closed
\* sockets, timers and batches, a device has one holder, and a tile opens a socket
\* only under its lease (useTileStream.ts:117).
ImplementsLease == SL!LeaseSpec

Waits(t) == \E i \in DOMAIN queue : queue[i].tile = t /\ queue[i].live

\* A lease is held by a tile that shows the device and either waits in the queue
\* or has a socket: no cleanup, cancelled item or closed socket leaves a lease that
\* keeps every other tile away for good (useTileStream.ts:102-135, 309-338).
LeaseIsUsed ==
  \A k \in Keys : lease[k].owner # None =>
    LET t == lease[k].owner IN
    /\ tile[t].key = k
    /\ IF lease[k].state = "queued" THEN Waits(t) ELSE Streams(tile[t])

\* What runs for a tile runs for one reason: a queued tile has no socket, no timer
\* and no engine, and a tile that is gone has nothing at all, so that no callback
\* of an earlier connection can disturb a later one (useTileStream.ts:309-338).
OneReasonToRun ==
  \A t \in Tiles :
    /\ Waits(t) => ~Streams(tile[t]) /\ ~tile[t].retry /\ ~tile[t].initial /\ ~tile[t].engine
    /\ tile[t].retry => tile[t].ws = "closed"
    /\ tile[t].initial => Streams(tile[t])
    /\ tile[t].key = None => tile[t] = Unmounted /\ ~Waits(t)
    /\ Cardinality({i \in DOMAIN queue : queue[i].tile = t /\ queue[i].live}) <= 1

\* A tile that lost its socket, or waits in the queue for its first one, gets one,
\* unless it goes or another tile has taken the device: no retry is lost between
\* timers, queue and leases, and the queue is never left without its one timer
\* (useTileStream.ts:86-115, 424-438).
LostStreamComesBack ==
  \A t \in Tiles :
    (tile[t].ws = "closed" \/ Waits(t)) ~>
      Streams(tile[t]) \/ tile[t].key = None \/ Refused(tile[t].key, t)

\* A picture that stands still while packets come is drawn again, or its stream is
\* rebuilt: the watchdog never waits for ever (useTileStream.ts:453-503).
StalledPictureIsRebuilt ==
  \A t \in Tiles :
    tile[t].render # "idle" /\ tile[t].ws = "open" ~>
      tile[t].render = "idle" \/ tile[t].ws # "open"
=============================================================================
