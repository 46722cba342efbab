-------------------------- MODULE TileStreamProofs --------------------------
(***************************************************************************)
(* Proofs about TileStream: that the tiles implement the lease of          *)
(* StreamLease, and the invariants this rests on, for any tiles, devices,  *)
(* size of a batch and bounds.                                             *)
(***************************************************************************)
EXTENDS TileStream, FiniteSetTheorems, SequenceTheorems, TLAPS

\* What a tile has goes with its place: waiting it has the lease and nothing that
\* runs, streaming it has the lease, closed it may have its reconnect timer.
TileFits(t) ==
  /\ Waits(t) => /\ tile[t].key \in Keys /\ tile[t].ws = "none"
                 /\ ~tile[t].retry /\ ~tile[t].initial /\ ~tile[t].engine
                 /\ lease[tile[t].key] = [owner |-> t, state |-> "queued"]
  /\ Streams(tile[t]) => /\ tile[t].key \in Keys /\ lease[tile[t].key].owner = t
                         /\ lease[tile[t].key].state # "queued"
  /\ tile[t].retry => tile[t].ws = "closed"
  /\ tile[t].initial => Streams(tile[t])
  /\ tile[t].key = None => tile[t] = Unmounted

\* A tile has one item in the queue that is live.
OneItem ==
  \A i, j \in DOMAIN queue :
    queue[i].live /\ queue[j].live /\ queue[i].tile = queue[j].tile => i = j

\* LeaseIsUsed, told of the tile that holds the lease.
LeaseFits ==
  \A k \in Keys, t \in Tiles : lease[k].owner = t =>
    /\ tile[t].key = k
    /\ lease[k].state = "queued" => Waits(t)
    /\ lease[k].state # "queued" => Streams(tile[t])

TInv == TypeOK /\ OneItem /\ LeaseFits /\ \A t \in Tiles : TileFits(t)

\* A step of the tiles is one of the lease, or none.
LeaseStep == SL!LeaseNext \/ UNCHANGED <<leaseHolder, leasedStream>>

-----------------------------------------------------------------------------
(* The queue.                                                              *)

LEMMA QueueType == ASSUME queue \in Seq(Item)
                   PROVE  /\ Len(queue) \in Nat /\ DOMAIN queue = 1 .. Len(queue)
                          /\ \A i \in 1 .. Len(queue) : queue[i] \in Item
BY LenProperties, ElementOfSeq

\* The items of a tile are cancelled, and no other's.
LEMMA CancelledLemma ==
  ASSUME queue \in Seq(Item), NEW t \in Tiles
  PROVE  /\ Cancelled(t) \in Seq(Item) /\ Len(Cancelled(t)) = Len(queue)
         /\ DOMAIN Cancelled(t) = DOMAIN queue
         /\ \A i \in DOMAIN queue :
              /\ Cancelled(t)[i].tile = queue[i].tile
              /\ Cancelled(t)[i].live <=> queue[i].live /\ queue[i].tile # t
<1>1. Cancelled(t) \in [1 .. Len(queue) -> Item]
  BY QueueType DEF Cancelled, Item
<1>2. Cancelled(t) \in Seq(Item) /\ Len(Cancelled(t)) = Len(queue)
  BY <1>1, QueueType
<1> QED BY <1>1, <1>2, QueueType DEF Cancelled, Item

LEMMA DropLemma ==
  ASSUME queue \in Seq(Item), OneItem, NEW t \in Tiles, queue' = Cancelled(t)
  PROVE  /\ queue' \in Seq(Item) /\ OneItem' /\ ~Waits(t)'
         /\ \A u \in Tiles : u # t => (Waits(u)' <=> Waits(u))
BY CancelledLemma DEF OneItem, Waits

LEMMA EnqueueLemma ==
  ASSUME queue \in Seq(Item), OneItem, NEW t \in Tiles, Enqueue(t)
  PROVE  /\ queue' \in Seq(Item) /\ OneItem' /\ Waits(t)'
         /\ \A u \in Tiles : u # t => (Waits(u)' <=> Waits(u))
<1> DEFINE old == Cancelled(t)
           item == [tile |-> t, live |-> TRUE]
<1>1. /\ old \in Seq(Item) /\ Len(old) = Len(queue) /\ DOMAIN old = DOMAIN queue
      /\ \A i \in DOMAIN queue : /\ old[i].tile = queue[i].tile
                                 /\ old[i].live <=> queue[i].live /\ queue[i].tile # t
  BY CancelledLemma
<1>2. item \in Item /\ item.tile = t /\ item.live
  BY DEF Item
<1>3. queue' = Append(old, item)
  BY DEF Enqueue
<1> HIDE DEF old, item
<1>4. /\ queue' \in Seq(Item) /\ Len(queue') = Len(queue) + 1
      /\ \A i \in 1 .. Len(queue) : queue'[i] = old[i]
      /\ queue'[Len(queue) + 1] = item
  BY <1>1, <1>2, <1>3, AppendProperties
<1>5. DOMAIN queue = 1 .. Len(queue) /\ DOMAIN queue' = 1 .. (Len(queue) + 1) /\ Len(queue) \in Nat
  BY <1>4, QueueType, LenProperties
<1>6. \A i \in DOMAIN queue' :
        \/ i \in DOMAIN queue /\ queue'[i] = old[i]
        \/ i = Len(queue) + 1 /\ queue'[i] = item
  BY <1>4, <1>5
<1>7. OneItem'
  BY <1>1, <1>2, <1>5, <1>6 DEF OneItem
<1>8. Waits(t)'
  BY <1>2, <1>4, <1>5 DEF Waits
<1>9. ASSUME NEW u \in Tiles, u # t PROVE Waits(u)' <=> Waits(u)
  <2>1. Waits(u)' => Waits(u)
    BY <1>1, <1>2, <1>6, <1>9 DEF Waits
  <2>2. Waits(u) => Waits(u)'
    BY <1>1, <1>4, <1>5, <1>9 DEF Waits
  <2> QED BY <2>1, <2>2
<1> QED BY <1>4, <1>7, <1>8, <1>9

LEMMA TakenLemma == ASSUME queue \in Seq(Item) PROVE Taken \in 0 .. Len(queue)
<1> DEFINE S == {i \in 1 .. Len(queue) : LiveUpTo(i - 1) < BatchSize}
<1>1. Len(queue) \in Nat /\ S \subseteq 1 .. Len(queue)
  BY QueueType
<1> HIDE DEF S
<1>2. IsFiniteSet(1 .. Len(queue)) /\ Cardinality(1 .. Len(queue)) = Len(queue)
  BY <1>1, FS_Interval
<1>3. IsFiniteSet(S) /\ Cardinality(S) <= Len(queue)
  BY <1>1, <1>2, FS_Subset
<1>4. Cardinality(S) \in Nat
  BY <1>3, FS_CardinalityType
<1> QED BY <1>1, <1>3, <1>4 DEF Taken, S

\* A batch is taken out of the queue: what is left waits, and nobody else.
LEMMA FlushLemma ==
  ASSUME queue \in Seq(Item), OneItem, Flush
  PROVE  /\ queue' \in Seq(Item) /\ OneItem' /\ timer' \in BOOLEAN
         /\ Batch \subseteq Tiles /\ \A t \in Batch : Waits(t)
         /\ \A t \in Tiles : Waits(t)' <=> Waits(t) /\ t \notin Batch
<1>1. /\ Len(queue) \in Nat /\ DOMAIN queue = 1 .. Len(queue)
      /\ \A i \in 1 .. Len(queue) : queue[i] \in Item
  BY QueueType
<1>2. Taken \in 0 .. Len(queue)
  BY TakenLemma
<1> DEFINE n == Taken
<1> HIDE DEF n
<1>3. n \in 0 .. Len(queue) /\ n \in Int /\ Len(queue) \in Int /\ n + 1 \in Int
  BY <1>1, <1>2 DEF n
<1>4. /\ Rest \in Seq(Item)
      /\ Len(Rest) = Len(queue) - n
      /\ \A i \in 1 .. (Len(queue) - n) : Rest[i] = queue[n + i]
  <2>1. \A i \in (n + 1) .. Len(queue) : queue[i] \in Item
    BY <1>1, <1>3
  <2>2. /\ SubSeq(queue, n + 1, Len(queue)) \in Seq(Item)
        /\ Len(SubSeq(queue, n + 1, Len(queue))) =
             IF n + 1 <= Len(queue) THEN Len(queue) - (n + 1) + 1 ELSE 0
        /\ \A i \in 1 .. Len(queue) - (n + 1) + 1 :
             SubSeq(queue, n + 1, Len(queue))[i] = queue[n + 1 + i - 1]
    BY <1>3, <2>1, SubSeqProperties
  <2>3. Rest = SubSeq(queue, n + 1, Len(queue))
    BY DEF Rest, n
  <2>4. (IF n + 1 <= Len(queue) THEN Len(queue) - (n + 1) + 1 ELSE 0) = Len(queue) - n
    BY <1>3
  <2>6. ASSUME NEW i \in 1 .. (Len(queue) - n) PROVE Rest[i] = queue[n + i]
    <3>1. i \in 1 .. Len(queue) - (n + 1) + 1 /\ n + 1 + i - 1 = n + i
      BY <1>3
    <3> QED BY <2>2, <2>3, <3>1
  <2> QED BY <2>2, <2>3, <2>4, <2>6
<1>5. DOMAIN Rest = 1 .. (Len(queue) - n)
  BY <1>4, LenProperties
<1>6. /\ Batch \subseteq Tiles
      /\ \A t \in Tiles : t \in Batch <=> \E i \in 1 .. n : queue[i].live /\ queue[i].tile = t
  BY <1>1, <1>3 DEF Batch, Item, n
<1>7. \A t \in Batch : Waits(t)
  BY <1>1, <1>3, <1>6 DEF Waits
<1> DEFINE left(t) == \E i \in DOMAIN Rest : Rest[i].tile = t /\ Rest[i].live
<1>8. ASSUME NEW t \in Tiles PROVE left(t) <=> Waits(t) /\ t \notin Batch
  <2>1. ASSUME left(t) PROVE Waits(t) /\ t \notin Batch
    <3>1. PICK i \in 1 .. (Len(queue) - n) : Rest[i].tile = t /\ Rest[i].live
      BY <1>5, <2>1
    <3>2. n + i \in DOMAIN queue /\ queue[n + i].tile = t /\ queue[n + i].live
      BY <1>1, <1>3, <1>4, <3>1
    <3>3. \A j \in 1 .. n : j \in DOMAIN queue /\ j # n + i
      BY <1>1, <1>3, <3>1
    <3> QED BY <1>6, <3>2, <3>3 DEF OneItem, Waits
  <2>2. ASSUME Waits(t), t \notin Batch PROVE left(t)
    <3>1. PICK i \in 1 .. Len(queue) : queue[i].tile = t /\ queue[i].live
      BY <1>1, <2>2 DEF Waits
    <3>2. i - n \in 1 .. (Len(queue) - n) /\ n + (i - n) = i
      BY <1>3, <1>6, <2>2, <3>1
    <3> QED BY <1>4, <1>5, <3>1, <3>2
  <2> QED BY <2>1, <2>2
<1>9. /\ \/ queue' = Rest
         \/ queue' = <<>> /\ ~\E i \in DOMAIN Rest : Rest[i].live
      /\ timer' \in BOOLEAN
  BY DEF Flush
<1>10. CASE queue' = Rest
  <2>1. \A t \in Tiles : Waits(t)' <=> left(t)
    BY <1>10 DEF Waits
  <2>2. OneItem'
    <3>1. \A i \in DOMAIN Rest : n + i \in DOMAIN queue /\ Rest[i] = queue[n + i]
      BY <1>1, <1>3, <1>4, <1>5
    <3>2. \A i, j \in DOMAIN Rest : n + i = n + j => i = j
      BY <1>3, <1>5
    <3> QED BY <1>10, <3>1, <3>2 DEF OneItem
  <2> HIDE DEF left
  <2> QED BY <1>4, <1>6, <1>7, <1>8, <1>9, <1>10, <2>1, <2>2
<1>11. CASE queue' = <<>> /\ ~\E i \in DOMAIN Rest : Rest[i].live
  <2>1. queue' \in Seq(Item) /\ DOMAIN queue' = {}
    BY <1>11
  <2>2. OneItem' /\ \A t \in Tiles : ~Waits(t)' /\ ~left(t)
    BY <1>11, <2>1 DEF OneItem, Waits
  <2> HIDE DEF left
  <2> QED BY <1>6, <1>7, <1>8, <1>9, <2>1, <2>2
<1> QED BY <1>9, <1>10, <1>11

-----------------------------------------------------------------------------
(* Who holds what.                                                         *)

\* A tile holds at most the lease of the device that it shows.
LEMMA OneLease ==
  ASSUME TInv, NEW t \in Tiles, NEW k \in Keys, lease[k].owner = t
  PROVE  tile[t].key = k
BY DEF TInv, LeaseFits

\* Steps that leave leases, queue and sockets alone.
LEMMA LocalLemma ==
  ASSUME TInv, NEW t \in Tiles, NEW s \in Tile, Only(t, s), s.key = tile[t].key, s.ws = tile[t].ws,
         s.key # None, s.retry = tile[t].retry, s.engine = tile[t].engine,
         s.initial => tile[t].initial
  PROVE  TInv' /\ LeaseStep
<1>1. /\ tile' \in [Tiles -> Tile] /\ tile'[t] = s
      /\ \A u \in Tiles : u # t => tile'[u] = tile[u]
  BY DEF Only, TInv, TypeOK
<1>2. \A u \in Tiles : Waits(u)' <=> Waits(u)
  BY DEF Only, Waits
<1>3. \A u \in Tiles : tile'[u].key = tile[u].key /\ tile'[u].ws = tile[u].ws
  BY <1>1
<1>4. \A u \in Tiles : TileFits(u)'
  <2>1. TileFits(t)'
    BY <1>1, <1>2 DEF Only, TInv, TileFits, Streams
  <2>2. ASSUME NEW u \in Tiles, u # t PROVE TileFits(u)'
    BY <1>1, <1>2, <2>2 DEF Only, TInv, TileFits, Streams
  <2> QED BY <2>1, <2>2
<1>5. LeaseFits'
  BY <1>2, <1>3 DEF Only, TInv, LeaseFits, Streams
<1>6. TypeOK' /\ OneItem'
  BY <1>1 DEF Only, TInv, TypeOK, OneItem
<1>7. UNCHANGED <<leaseHolder, leasedStream>>
  BY <1>3 DEF Only, leaseHolder, leasedStream, Streams
<1> QED BY <1>4, <1>5, <1>6, <1>7 DEF TInv, LeaseStep

\* connect() leaves the tile with the lease it needs, or with nothing.
LEMMA ConnectLemma ==
  ASSUME TInv, NEW t \in Tiles, NEW s \in Tile, s.key \in Keys, s = tile[t] \/ tile[t].key = None,
         reloads' \in 0 .. MaxReloads, Connect(t, s)
  PROVE  TInv' /\ LeaseStep
<1> DEFINE k == s.key
<1>1. \A j \in Keys : lease[j].owner = t => j = k /\ tile[t].key = k
  BY OneLease, TileConstants
<1>2. /\ Cleaned(s) \in Tile /\ Cleaned(s).key = k /\ Cleaned(s).ws = "none"
      /\ ~Cleaned(s).retry /\ ~Cleaned(s).initial /\ ~Cleaned(s).engine
  BY DEF Cleaned, Tile
<1>3. /\ tile' \in [Tiles -> Tile] /\ tile'[t] = Cleaned(s)
      /\ \A u \in Tiles : u # t => tile'[u] = tile[u]
  BY <1>2 DEF Connect, TInv, TypeOK
<1>4. k \in Keys /\ k # None /\ t # None /\ lease \in [Keys -> Lease] /\ queue \in Seq(Item) /\ OneItem
      /\ timer \in BOOLEAN
  BY TileConstants DEF TInv, TypeOK
<1>5. Streams(tile[t]) => tile[t].key = k /\ lease[k].owner = t
  BY <1>1 DEF TInv, TileFits
<1>6. tile'[t].ws = "none"
  BY <1>2, <1>3
<1> HIDE DEF k
<1>7. CASE Refused(s.key, t)
  <2>1. queue' = Cancelled(t) /\ lease' = lease /\ timer' = timer
    BY <1>7 DEF Connect
  <2>2. /\ queue' \in Seq(Item) /\ OneItem' /\ ~Waits(t)'
        /\ \A u \in Tiles : u # t => (Waits(u)' <=> Waits(u))
    BY <1>4, <2>1, DropLemma
  <2>3. lease[k].owner # t /\ ~Streams(tile[t]) /\ \A j \in Keys : lease[j].owner # t
    BY <1>1, <1>5, <1>7 DEF Refused, k
  <2>4. LeaseFits'
    BY <1>3, <2>1, <2>2, <2>3 DEF TInv, LeaseFits, Streams
  <2>5. \A u \in Tiles : TileFits(u)'
    <3>1. TileFits(t)'
      BY <1>2, <1>3, <1>4, <1>6, <2>2 DEF TileFits, Streams
    <3>2. ASSUME NEW u \in Tiles, u # t PROVE TileFits(u)'
      BY <1>3, <2>1, <2>2, <3>2 DEF TInv, TileFits, Streams
    <3> QED BY <3>1, <3>2
  <2>6. UNCHANGED <<leaseHolder, leasedStream>>
    BY <1>3, <1>6, <2>1, <2>3 DEF leaseHolder, leasedStream, Streams
  <2> QED BY <1>3, <1>4, <2>1, <2>2, <2>4, <2>5, <2>6 DEF TInv, TypeOK, LeaseStep
<1>8. CASE ~Refused(s.key, t)
  <2>1. Enqueue(t) /\ lease' = Owned(k, t, "queued") /\ timer'
    BY <1>8 DEF Connect, Enqueue, k
  <2>2. /\ queue' \in Seq(Item) /\ OneItem' /\ Waits(t)'
        /\ \A u \in Tiles : u # t => (Waits(u)' <=> Waits(u))
    BY <1>4, <2>1, EnqueueLemma
  <2>3. /\ lease' \in [Keys -> Lease] /\ lease'[k] = [owner |-> t, state |-> "queued"]
        /\ \A j \in Keys : j # k => lease'[j] = lease[j]
    BY <1>4, <2>1 DEF Owned, Lease
  <2>4. lease[k].owner \in {None, t}
    BY <1>8 DEF Refused, k
  <2>5. LeaseFits'
    <3>1. ASSUME NEW j \in Keys, NEW u \in Tiles, lease'[j].owner = u
          PROVE  /\ tile'[u].key = j
                 /\ lease'[j].state = "queued" => Waits(u)'
                 /\ lease'[j].state # "queued" => Streams(tile[u])'
      <4>1. CASE j = k
        BY <1>2, <1>3, <2>2, <2>3, <3>1, <4>1
      <4>2. CASE j # k
        <5>1. lease'[j] = lease[j] /\ u # t
          BY <1>1, <2>3, <3>1, <4>2
        <5> QED BY <1>3, <2>2, <3>1, <5>1 DEF TInv, LeaseFits, Streams
      <4> QED BY <4>1, <4>2
    <3> QED BY <3>1 DEF LeaseFits
  <2>6. \A u \in Tiles : TileFits(u)'
    <3>1. TileFits(t)'
      BY <1>2, <1>3, <1>4, <1>6, <2>2, <2>3 DEF TileFits, Streams
    <3>2. ASSUME NEW u \in Tiles, u # t PROVE TileFits(u)'
      <4>1. TileFits(u)
        BY DEF TInv
      <4>2. Waits(u) \/ Streams(tile[u]) => tile[u].key \in Keys /\ lease[tile[u].key].owner = u
        BY <4>1 DEF TileFits
      <4>3. lease[k].owner # u
        BY <2>4, <3>2, TileConstants
      <4>4. Waits(u) \/ Streams(tile[u]) => lease'[tile[u].key] = lease[tile[u].key]
        BY <2>3, <4>2, <4>3
      <4> QED BY <1>3, <2>2, <3>2, <4>1, <4>4 DEF TileFits, Streams
    <3> QED BY <3>1, <3>2
  <2>7. LeaseStep
    <3>1. leaseHolder' = [leaseHolder EXCEPT ![k] = t]
      <4>1. \A j \in Keys : lease'[j].owner = IF j = k THEN t ELSE lease[j].owner
        BY <2>3
      <4> QED BY <1>4, <4>1 DEF leaseHolder
    <3>2. CASE lease[k].owner = None
      <4>1. ~Streams(tile[t]) /\ \A j \in Keys : lease[j].owner # t
        BY <1>1, <1>4, <1>5, <3>2
      <4>2. leasedStream' = leasedStream
        BY <1>3, <1>6, <4>1 DEF leasedStream, Streams
      <4>3. leaseHolder[k] = None /\ \A j \in Keys : leaseHolder[j] # t
        BY <1>4, <3>2, <4>1 DEF leaseHolder
      <4>4. SL!Acquire(t, k)
        BY <3>1, <4>2, <4>3 DEF SL!Acquire
      <4> QED BY <1>4, <4>4 DEF LeaseStep, SL!LeaseNext
    <3>3. CASE lease[k].owner = t
      <4>1. leaseHolder' = leaseHolder
        BY <1>4, <2>3, <3>3 DEF leaseHolder
      <4>2. CASE ~Streams(tile[t])
        BY <1>3, <1>6, <4>1, <4>2 DEF LeaseStep, leasedStream, Streams
      <4>3. CASE Streams(tile[t])
        <5>1. leasedStream[t] # None
          BY <1>4, <1>5, <4>3 DEF leasedStream
        <5>2. leasedStream' = [leasedStream EXCEPT ![t] = None]
          BY <1>3, <1>6 DEF leasedStream, Streams
        <5>3. SL!Restart(t)
          BY <4>1, <5>1, <5>2 DEF SL!Restart
        <5> QED BY <5>3 DEF LeaseStep, SL!LeaseNext
      <4> QED BY <4>2, <4>3
    <3> QED BY <2>4, <3>2, <3>3
  <2> QED BY <1>3, <1>4, <2>1, <2>2, <2>3, <2>5, <2>6, <2>7 DEF TInv, TypeOK
<1> QED BY <1>7, <1>8

\* A tile that gives back what it has leaves the others as they were.
LEMMA ReleaseLemma ==
  ASSUME TInv, NEW t \in Tiles, NEW s \in Tile, tile[t].key \in Keys,
         tile' = [tile EXCEPT ![t] = s], lease' = Released(tile[t].key, t),
         s.ws \in {"none", "closed"}, ~s.initial, s.retry => s.ws = "closed",
         s.key = None => s = Unmounted,
         queue' \in Seq(Item), OneItem', ~Waits(t)',
         \A u \in Tiles : u # t => (Waits(u)' <=> Waits(u)),
         timer' = timer, reloads' = reloads
  PROVE  TInv' /\ LeaseStep
<1> DEFINE k == tile[t].key
<1>1. \A j \in Keys : lease[j].owner = t => j = k
  BY OneLease
<1>2. /\ tile' \in [Tiles -> Tile] /\ tile'[t] = s
      /\ \A u \in Tiles : u # t => tile'[u] = tile[u]
  BY DEF TInv, TypeOK
<1>3. k \in Keys /\ t # None /\ lease \in [Keys -> Lease]
  BY TileConstants DEF TInv, TypeOK
<1>4. ~Streams(s) /\ (Streams(tile[t]) => lease[k].owner = t)
  BY DEF Streams, TInv, TileFits
<1> HIDE DEF k
<1>5. lease' = Released(k, t)
  BY DEF k
<1>6. /\ lease' \in [Keys -> Lease]
      /\ \A j \in Keys : lease'[j] = IF lease[j].owner = t THEN Free ELSE lease[j]
  BY <1>1, <1>3, <1>5 DEF Released, Lease
<1>7. LeaseFits'
  <2>1. ASSUME NEW j \in Keys, NEW u \in Tiles, lease'[j].owner = u
        PROVE  /\ tile'[u].key = j
               /\ lease'[j].state = "queued" => Waits(u)'
               /\ lease'[j].state # "queued" => Streams(tile[u])'
    <3>1. lease'[j] = lease[j] /\ u # t
      BY <1>6, <2>1, TileConstants DEF Free
    <3> QED BY <1>2, <2>1, <3>1 DEF TInv, LeaseFits, Streams
  <2> QED BY <2>1 DEF LeaseFits
<1>8. \A u \in Tiles : TileFits(u)'
  <2>1. TileFits(t)'
    BY <1>2, <1>4 DEF TileFits, Streams
  <2>2. ASSUME NEW u \in Tiles, u # t PROVE TileFits(u)'
    <3>1. TileFits(u)
      BY DEF TInv
    <3>2. Waits(u) \/ Streams(tile[u]) => tile[u].key \in Keys /\ lease[tile[u].key].owner = u
      BY <3>1 DEF TileFits
    <3>3. Waits(u) \/ Streams(tile[u]) => lease'[tile[u].key] = lease[tile[u].key]
      BY <1>6, <2>2, <3>2
    <3> QED BY <1>2, <2>2, <3>1, <3>3 DEF TileFits, Streams
  <2> QED BY <2>1, <2>2
<1>9. LeaseStep
  <2>1. CASE lease[k].owner = t
    <3>1. leaseHolder[k] = t /\ leaseHolder' = [leaseHolder EXCEPT ![k] = None]
      <4>1. \A j \in Keys : lease'[j].owner = IF j = k THEN None ELSE lease[j].owner
        BY <1>1, <1>6, <2>1 DEF Free
      <4> QED BY <1>3, <2>1, <4>1 DEF leaseHolder
    <3>2. leasedStream' = [leasedStream EXCEPT ![t] = None]
      BY <1>2, <1>4 DEF leasedStream, Streams
    <3>3. SL!GiveBack(t, k)
      BY <3>1, <3>2 DEF SL!GiveBack
    <3> QED BY <1>3, <3>3 DEF LeaseStep, SL!LeaseNext
  <2>2. CASE lease[k].owner # t
    <3>1. lease' = lease
      BY <1>5, <2>2 DEF Released
    <3>2. leasedStream' = leasedStream
      BY <1>2, <1>4, <2>2 DEF leasedStream, Streams
    <3> QED BY <3>1, <3>2 DEF LeaseStep, leaseHolder
  <2> QED BY <2>1, <2>2
<1> QED BY <1>2, <1>6, <1>7, <1>8, <1>9 DEF TInv, TypeOK

-----------------------------------------------------------------------------
(* The steps.                                                              *)

LEMMA InitHolds == ASSUME Init PROVE TInv /\ SL!LeaseInit
<1>1. Unmounted \in Tile /\ Free \in Lease
  BY DEF Unmounted, Tile, Free, Lease
<1>2. TypeOK
  <2>1. queue \in Seq(Item)
    BY EmptySeq DEF Init
  <2>2. reloads \in 0 .. MaxReloads
    BY TileConstants DEF Init
  <2> QED BY <1>1, <2>1, <2>2 DEF Init, TypeOK
<1>3. OneItem /\ \A t \in Tiles : ~Waits(t)
  BY DEF Init, OneItem, Waits
<1>4. LeaseFits
  BY TileConstants DEF Init, LeaseFits, Free
<1>5. \A t \in Tiles : TileFits(t)
  BY <1>3 DEF Init, TileFits, Streams, Unmounted
<1>6. SL!LeaseInit
  BY DEF Init, SL!LeaseInit, leaseHolder, leasedStream, Free, Streams, Unmounted
<1> QED BY <1>2, <1>3, <1>4, <1>5, <1>6 DEF TInv

\* The steps that end in connect().
LEMMA ConnectSteps ==
  ASSUME TInv, NEW t \in Tiles,
         \/ \E k \in Keys : Mount(t, k)
         \/ Reload(t) \/ Retry(t) \/ InitialTimeout(t) \/ RebuildsStream(t) \/ SilentTimeout(t)
  PROVE  TInv' /\ LeaseStep
<1>1. tile[t] \in Tile /\ TileFits(t) /\ reloads \in 0 .. MaxReloads /\ MaxReloads \in Nat
  BY TileConstants DEF TInv, TypeOK
<1>2. ASSUME NEW k \in Keys, Mount(t, k) PROVE TInv' /\ LeaseStep
  <2> DEFINE s == [Unmounted EXCEPT !.key = k]
  <2>1. s \in Tile /\ s.key = k
    BY DEF Unmounted, Tile
  <2>2. tile[t].key = None /\ Connect(t, s) /\ reloads' = reloads
    BY <1>2 DEF Mount
  <2> HIDE DEF s
  <2> QED BY <1>1, <2>1, <2>2, ConnectLemma
<1>3. ASSUME tile[t].key # None, Connect(t, tile[t]), reloads' \in 0 .. MaxReloads
      PROVE  TInv' /\ LeaseStep
  <2>1. tile[t].key \in Keys
    BY <1>1, <1>3 DEF Tile
  <2> QED BY <1>1, <1>3, <2>1, ConnectLemma
<1>4. CASE Reload(t)
  <2>1. tile[t].key # None /\ Connect(t, tile[t]) /\ reloads' \in 0 .. MaxReloads
    BY <1>1, <1>4 DEF Reload
  <2> QED BY <1>3, <2>1
<1>5. CASE Retry(t) \/ InitialTimeout(t) \/ RebuildsStream(t) \/ SilentTimeout(t)
  <2>1. Connect(t, tile[t]) /\ reloads' = reloads
    BY <1>5 DEF Retry, InitialTimeout, RebuildsStream, SilentTimeout
  <2>2. tile[t] # Unmounted
    BY <1>5 DEF Retry, InitialTimeout, RebuildsStream, SilentTimeout, Watched, Unmounted
  <2>3. tile[t].key # None
    BY <1>1, <2>2 DEF TileFits
  <2> QED BY <1>1, <1>3, <2>1, <2>3
<1> QED BY <1>2, <1>4, <1>5

\* The steps that give a lease back.
LEMMA ReleaseSteps ==
  ASSUME TInv, NEW t \in Tiles, Unmount(t) \/ WsCloses(t)
  PROVE  TInv' /\ LeaseStep
<1>1. tile[t] \in Tile /\ TileFits(t) /\ queue \in Seq(Item) /\ OneItem
  BY DEF TInv, TypeOK
<1>2. CASE Unmount(t)
  <2>1. /\ tile[t].key \in Keys /\ tile' = [tile EXCEPT ![t] = Unmounted]
        /\ queue' = Cancelled(t) /\ lease' = Released(tile[t].key, t)
        /\ timer' = timer /\ reloads' = reloads
    BY <1>1, <1>2 DEF Unmount, Tile
  <2>2. /\ Unmounted \in Tile /\ Unmounted.ws \in {"none", "closed"} /\ ~Unmounted.initial
        /\ ~Unmounted.retry
    BY DEF Unmounted, Tile
  <2>3. /\ queue' \in Seq(Item) /\ OneItem' /\ ~Waits(t)'
        /\ \A u \in Tiles : u # t => (Waits(u)' <=> Waits(u))
    BY <1>1, <2>1, DropLemma
  <2> QED BY <2>1, <2>2, <2>3, ReleaseLemma
<1>3. CASE WsCloses(t)
  <2> DEFINE s == [tile[t] EXCEPT !.ws = "closed", !.initial = FALSE, !.retry = TRUE]
  <2>1. /\ Streams(tile[t]) /\ tile' = [tile EXCEPT ![t] = s]
        /\ lease' = Released(tile[t].key, t) /\ queue' = queue /\ timer' = timer
        /\ reloads' = reloads
    BY <1>3 DEF WsCloses
  <2>2. tile[t].key \in Keys /\ tile[t].key # None /\ ~Waits(t)
    BY <1>1, <2>1, TileConstants DEF TileFits, Streams
  <2>3. s \in Tile /\ s.key = tile[t].key /\ s.ws = "closed" /\ ~s.initial
    BY <1>1 DEF Tile
  <2>4. /\ queue' \in Seq(Item) /\ OneItem' /\ ~Waits(t)'
        /\ \A u \in Tiles : Waits(u)' <=> Waits(u)
    BY <1>1, <2>1, <2>2 DEF OneItem, Waits
  <2> HIDE DEF s
  <2> QED BY <2>1, <2>2, <2>3, <2>4, ReleaseLemma
<1> QED BY <1>2, <1>3

\* The steps of the picture.
LEMMA PictureSteps ==
  ASSUME TInv, NEW t \in Tiles, Packet(t) \/ Silence(t) \/ Frame(t) \/ RestartsDecoder(t)
  PROVE  TInv' /\ LeaseStep
<1>1. tile[t] \in Tile /\ TileFits(t)
  BY DEF TInv, TypeOK
<1>2. tile[t].key # None
  <2>1. tile[t] # Unmounted
    BY DEF Packet, Silence, Frame, RestartsDecoder, Watched, Unmounted
  <2> QED BY <1>1, <2>1 DEF TileFits
<1>3. PICK s \in Tile :
        /\ Only(t, s) /\ s.key = tile[t].key /\ s.ws = tile[t].ws /\ s.retry = tile[t].retry
        /\ s.engine = tile[t].engine /\ (s.initial => tile[t].initial)
  <2>1. CASE Packet(t)
    <3> DEFINE r == [tile[t] EXCEPT !.packets = "recent"]
               p == [r EXCEPT !.fed = TRUE,
                              !.render = IF r.first /\ @ = "idle" THEN "pending" ELSE @]
    <3>1. Only(t, r) \/ Only(t, p)
      BY <2>1 DEF Packet
    <3>2. /\ r \in Tile /\ r.key = tile[t].key /\ r.ws = tile[t].ws /\ r.retry = tile[t].retry
          /\ r.engine = tile[t].engine /\ r.initial = tile[t].initial
      BY <1>1 DEF Tile
    <3>3. /\ p \in Tile /\ p.key = tile[t].key /\ p.ws = tile[t].ws /\ p.retry = tile[t].retry
          /\ p.engine = tile[t].engine /\ p.initial = tile[t].initial
      BY <1>1 DEF Tile
    <3> HIDE DEF r, p
    <3> QED BY <3>1, <3>2, <3>3
  <2>2. CASE Silence(t)
    BY <1>1, <2>2 DEF Silence, Tile
  <2>3. CASE Frame(t)
    <3> DEFINE f == [tile[t] EXCEPT !.first = TRUE, !.initial = FALSE, !.render = "idle"]
    <3>1. Only(t, f)
      BY <2>3 DEF Frame
    <3>2. /\ f \in Tile /\ f.key = tile[t].key /\ f.ws = tile[t].ws /\ f.retry = tile[t].retry
          /\ f.engine = tile[t].engine /\ ~f.initial
      BY <1>1 DEF Tile
    <3> HIDE DEF f
    <3> QED BY <3>1, <3>2
  <2>4. CASE RestartsDecoder(t)
    BY <1>1, <2>4 DEF RestartsDecoder, Tile
  <2> QED BY <2>1, <2>2, <2>3, <2>4
<1> QED BY <1>2, <1>3, LocalLemma

\* An open socket is what its lease says.
LEMMA OpenStep ==
  ASSUME TInv, NEW t \in Tiles, WsOpens(t)
  PROVE  TInv' /\ LeaseStep
<1> DEFINE k == tile[t].key
           s == [tile[t] EXCEPT !.ws = "open", !.packets = "recent"]
<1>1. /\ tile[t] \in Tile /\ TileFits(t) /\ lease \in [Keys -> Lease] /\ tile \in [Tiles -> Tile]
      /\ tile[t].ws = "connecting"
  BY DEF TInv, TypeOK, WsOpens
<1>2. k \in Keys /\ k # None /\ lease[k].owner = t /\ ~Waits(t) /\ Streams(tile[t])
  BY <1>1, TileConstants DEF TileFits, Streams
<1>3. s \in Tile /\ s.key = k /\ s.ws = "open" /\ s.retry = tile[t].retry /\ s.initial = tile[t].initial
  BY <1>1 DEF Tile
<1>4. /\ tile' = [tile EXCEPT ![t].ws = "open", ![t].packets = "recent"]
      /\ lease' = Updated(k, t, "connected") /\ queue' = queue /\ timer' = timer /\ reloads' = reloads
  BY DEF WsOpens
<1>5. tile' \in [Tiles -> Tile] /\ tile'[t] = s /\ \A u \in Tiles : u # t => tile'[u] = tile[u]
  <2>1. tile' = [tile EXCEPT ![t] = s]
    BY <1>1, <1>4
  <2> QED BY <1>1, <1>3, <2>1
<1> HIDE DEF s, k
<1>6. /\ lease' \in [Keys -> Lease] /\ lease'[k] = [owner |-> t, state |-> "connected"]
      /\ \A j \in Keys : j # k => lease'[j] = lease[j]
  BY <1>1, <1>2, <1>4 DEF Updated, Owned, Lease
<1>7. \A u \in Tiles : /\ Waits(u)' <=> Waits(u)
                       /\ Streams(tile[u])' <=> Streams(tile[u])
                       /\ tile'[u].key = tile[u].key
  BY <1>2, <1>3, <1>4, <1>5 DEF Waits, Streams, k
<1>8. \A j \in Keys : lease'[j].owner = lease[j].owner
  BY <1>2, <1>6
<1>9. LeaseFits'
  <2>1. ASSUME NEW j \in Keys, NEW u \in Tiles, lease'[j].owner = u
        PROVE  /\ tile'[u].key = j
               /\ lease'[j].state = "queued" => Waits(u)'
               /\ lease'[j].state # "queued" => Streams(tile[u])'
    <3>1. CASE j = k
      BY <1>2, <1>6, <1>7, <2>1, <3>1 DEF k
    <3>2. CASE j # k
      BY <1>6, <1>7, <2>1, <3>2 DEF TInv, LeaseFits
    <3> QED BY <3>1, <3>2
  <2> QED BY <2>1 DEF LeaseFits
<1>10. \A u \in Tiles : TileFits(u)'
  <2>1. TileFits(t)'
    BY <1>1, <1>2, <1>3, <1>5, <1>6, <1>7 DEF TileFits, k
  <2>2. ASSUME NEW u \in Tiles, u # t PROVE TileFits(u)'
    <3>1. TileFits(u)
      BY DEF TInv
    <3>2. Waits(u) \/ Streams(tile[u]) => tile[u].key \in Keys /\ lease[tile[u].key].owner = u
      BY <3>1 DEF TileFits
    <3>3. Waits(u) \/ Streams(tile[u]) => lease'[tile[u].key] = lease[tile[u].key]
      BY <1>2, <1>6, <2>2, <3>2
    <3> QED BY <1>5, <1>7, <2>2, <3>1, <3>3 DEF TileFits
  <2> QED BY <2>1, <2>2
<1>11. UNCHANGED <<leaseHolder, leasedStream>>
  BY <1>7, <1>8 DEF leaseHolder, leasedStream
<1> QED BY <1>4, <1>5, <1>6, <1>9, <1>10, <1>11 DEF TInv, TypeOK, OneItem, LeaseStep

\* The batch has the leases it needs: each of its tiles begins under its own.
LEMMA FlushStep ==
  ASSUME TInv, Flush
  PROVE  TInv' /\ LeaseStep
<1>1. /\ tile \in [Tiles -> Tile] /\ lease \in [Keys -> Lease] /\ queue \in Seq(Item) /\ OneItem
      /\ reloads \in 0 .. MaxReloads /\ \A t \in Tiles : TileFits(t)
  BY DEF TInv, TypeOK
<1>2. /\ queue' \in Seq(Item) /\ OneItem' /\ timer' \in BOOLEAN
      /\ Batch \subseteq Tiles /\ \A t \in Batch : Waits(t)
      /\ \A t \in Tiles : Waits(t)' <=> Waits(t) /\ t \notin Batch
  BY <1>1, FlushLemma
<1>3. /\ tile' = [t \in Tiles |-> IF t \in Batch THEN Started(tile[t]) ELSE tile[t]]
      /\ lease' = [k \in Keys |->
                     LET by == {t \in Batch : tile[t].key = k /\ lease[k].owner \in {None, t}}
                     IN IF by = {} THEN lease[k]
                        ELSE [owner |-> CHOOSE t \in by : TRUE, state |-> "connecting"]]
      /\ reloads' = reloads
  BY DEF Flush, StartBatch
<1>4. ASSUME NEW t \in Batch
      PROVE  /\ t \in Tiles /\ tile[t].key \in Keys /\ ~Streams(tile[t]) /\ ~tile[t].retry
             /\ lease[tile[t].key].owner = t
  <2>1. t \in Tiles /\ Waits(t)
    BY <1>2
  <2>2. TileFits(t)
    BY <1>1, <2>1
  <2> QED BY <2>1, <2>2 DEF TileFits, Streams
<1>5. ASSUME NEW t \in Tiles
      PROVE  /\ tile'[t] \in Tile /\ tile'[t].key = tile[t].key
             /\ t \in Batch => tile'[t].ws = "connecting" /\ ~tile'[t].retry /\ Streams(tile[t])'
             /\ t \notin Batch => tile'[t] = tile[t]
  <2>1. tile[t] \in Tile
    BY <1>1
  <2>2. CASE t \in Batch
    <3> DEFINE s == Started(tile[t])
    <3>1. /\ s \in Tile /\ s.key = tile[t].key /\ s.ws = "connecting" /\ s.retry = tile[t].retry
      BY <2>1 DEF Started, Tile
    <3>2. tile'[t] = s
      BY <1>3, <2>2
    <3> HIDE DEF s
    <3> QED BY <1>4, <2>2, <3>1, <3>2 DEF Streams
  <2>3. CASE t \notin Batch
    BY <1>3, <2>1, <2>3
  <2> QED BY <2>2, <2>3
<1>6. \A t \in Batch : \A k \in Keys :
        tile[t].key = k /\ lease[k].owner \in {None, t} <=> lease[k].owner = t
  BY <1>1, <1>4, OneLease
<1>7. ASSUME NEW k \in Keys
      PROVE  /\ lease'[k] \in Lease /\ lease'[k].owner = lease[k].owner
             /\ lease[k].owner \in Batch => lease'[k].state = "connecting"
             /\ lease[k].owner \notin Batch => lease'[k] = lease[k]
  <2> DEFINE by == {t \in Batch : tile[t].key = k /\ lease[k].owner \in {None, t}}
  <2>1. lease'[k] = IF by = {} THEN lease[k]
                    ELSE [owner |-> CHOOSE t \in by : TRUE, state |-> "connecting"]
    BY <1>3
  <2>2. by = {t \in Batch : lease[k].owner = t}
    BY <1>6
  <2> HIDE DEF by
  <2>3. lease[k].owner \in Batch => by = {lease[k].owner}
    BY <2>2
  <2>4. lease[k].owner \notin Batch => by = {}
    BY <2>2
  <2>5. CASE lease[k].owner \in Batch
    <3> DEFINE t == lease[k].owner
    <3>1. t \in Tiles /\ by = {t}
      BY <1>2, <2>3, <2>5
    <3> HIDE DEF t
    <3>2. lease'[k] = [owner |-> t, state |-> "connecting"]
      BY <2>1, <3>1
    <3>3. lease'[k] \in Lease /\ lease'[k].owner = t /\ lease'[k].state = "connecting"
      BY <3>1, <3>2 DEF Lease
    <3> QED BY <2>5, <3>3 DEF t
  <2>6. CASE lease[k].owner \notin Batch
    BY <1>1, <2>1, <2>4, <2>6
  <2> QED BY <2>5, <2>6
<1>8. lease' \in [Keys -> Lease]
  BY <1>3, <1>7
<1>9. tile' \in [Tiles -> Tile]
  BY <1>3, <1>5
<1>10. LeaseFits'
  <2>1. ASSUME NEW k \in Keys, NEW u \in Tiles, lease'[k].owner = u
        PROVE  /\ tile'[u].key = k
               /\ lease'[k].state = "queued" => Waits(u)'
               /\ lease'[k].state # "queued" => Streams(tile[u])'
    <3>1. lease[k].owner = u /\ tile[u].key = k
      BY <1>7, <2>1, OneLease
    <3>2. CASE u \in Batch
      BY <1>5, <1>7, <3>1, <3>2
    <3>3. CASE u \notin Batch
      BY <1>2, <1>5, <1>7, <3>1, <3>3 DEF TInv, LeaseFits, Streams
    <3> QED BY <3>2, <3>3
  <2> QED BY <2>1 DEF LeaseFits
<1>11. \A t \in Tiles : TileFits(t)'
  <2>1. ASSUME NEW t \in Tiles PROVE TileFits(t)'
    <3>1. CASE t \in Batch
      <4>1. ~Waits(t)' /\ Streams(tile[t])' /\ ~tile'[t].retry /\ tile'[t].key \in Keys
        BY <1>2, <1>4, <1>5, <3>1
      <4>2. lease'[tile'[t].key].owner = t /\ lease'[tile'[t].key].state = "connecting"
        BY <1>4, <1>5, <1>7, <3>1
      <4> QED BY <4>1, <4>2, TileConstants DEF TileFits
    <3>2. CASE t \notin Batch
      <4>1. tile'[t] = tile[t] /\ TileFits(t) /\ (Waits(t)' <=> Waits(t))
        BY <1>1, <1>2, <1>5, <3>2
      <4>2. Waits(t) \/ Streams(tile[t]) => lease'[tile[t].key] = lease[tile[t].key]
        BY <1>7, <3>2, <4>1 DEF TileFits
      <4> QED BY <4>1, <4>2 DEF TileFits, Streams
    <3> QED BY <3>1, <3>2
  <2> QED BY <2>1
<1>12. LeaseStep
  <2>1. leaseHolder' = leaseHolder
    <3>1. \A k \in Keys : lease'[k].owner = lease[k].owner
      BY <1>7
    <3> QED BY <3>1 DEF leaseHolder
  <2>2. \A t \in Batch : leasedStream[t] = None /\ \E k \in Keys : leaseHolder[k] = t
    BY <1>4 DEF leasedStream, leaseHolder
  <2>3. \A t \in Batch : (CHOOSE k \in Keys : leaseHolder[k] = t) = tile[t].key
    <3>1. ASSUME NEW t \in Batch, NEW k \in Keys
          PROVE  leaseHolder[k] = t <=> k = tile[t].key
      BY <1>4, OneLease DEF leaseHolder
    <3> QED BY <1>4, <3>1
  <2>4. leasedStream' = [t \in Tiles |-> IF t \in Batch THEN CHOOSE k \in Keys : leaseHolder[k] = t
                                          ELSE leasedStream[t]]
    <3>1. leasedStream' = [t \in Tiles |-> IF Streams(tile[t])' THEN tile'[t].key ELSE None]
      BY DEF leasedStream
    <3>2. ASSUME NEW t \in Tiles
          PROVE  (IF Streams(tile[t])' THEN tile'[t].key ELSE None) =
                   IF t \in Batch THEN CHOOSE k \in Keys : leaseHolder[k] = t ELSE leasedStream[t]
      <4>1. CASE t \in Batch
        BY <1>5, <2>3, <4>1
      <4>2. CASE t \notin Batch
        BY <1>5, <4>2 DEF leasedStream, Streams
      <4> QED BY <4>1, <4>2
    <3> QED BY <3>1, <3>2
  <2>5. SL!Begin(Batch)
    BY <2>1, <2>2, <2>4 DEF SL!Begin
  <2> QED BY <1>2, <2>5 DEF LeaseStep, SL!LeaseNext
<1> QED BY <1>1, <1>2, <1>3, <1>8, <1>9, <1>10, <1>11, <1>12 DEF TInv, TypeOK

LEMMA NextStep ==
  ASSUME TInv, [Next]_vars
  PROVE  TInv' /\ [SL!LeaseNext]_(SL!leaseVars)
<1>1. TInv' /\ LeaseStep
  <2>1. CASE UNCHANGED vars
    BY <2>1 DEF vars, TInv, TypeOK, OneItem, LeaseFits, TileFits, Waits, Streams, LeaseStep,
                leaseHolder, leasedStream
  <2>2. CASE Flush
    BY <2>2, FlushStep
  <2>3. ASSUME NEW t \in Tiles,
               \/ \E k \in Keys : Mount(t, k)
               \/ Reload(t) \/ Retry(t) \/ InitialTimeout(t) \/ RebuildsStream(t)
               \/ SilentTimeout(t)
        PROVE  TInv' /\ LeaseStep
    BY <2>3, ConnectSteps
  <2>4. ASSUME NEW t \in Tiles, Unmount(t) \/ WsCloses(t) PROVE TInv' /\ LeaseStep
    BY <2>4, ReleaseSteps
  <2>5. ASSUME NEW t \in Tiles, Packet(t) \/ Silence(t) \/ Frame(t) \/ RestartsDecoder(t)
        PROVE  TInv' /\ LeaseStep
    BY <2>5, PictureSteps
  <2>6. ASSUME NEW t \in Tiles, WsOpens(t) PROVE TInv' /\ LeaseStep
    BY <2>6, OpenStep
  <2> QED BY <2>1, <2>2, <2>3, <2>4, <2>5, <2>6 DEF Next, Watchdog
<1> QED BY <1>1 DEF LeaseStep, SL!leaseVars

-----------------------------------------------------------------------------
(* Theorems.                                                               *)

\* What a tile has goes with its place in the queue and with its lease, whatever
\* the order of mounts, sockets, timers and batches (useTileStream.ts:86-135, 309-338).
THEOREM TilesInductive == Spec => []TInv
<1>1. Init => TInv
  BY InitHolds
<1>2. TInv /\ [Next]_vars => TInv'
  BY NextStep
<1> QED BY <1>1, <1>2, PTL DEF Spec

\* The state of the tiles, the leases and the queue is what it is declared to be.
THEOREM TilesTypeCorrect == Spec => []TypeOK
<1>1. TInv => TypeOK
  BY DEF TInv
<1> QED BY <1>1, TilesInductive, PTL

\* The tiles implement the lease: a device has one holder, and a tile has a socket
\* for a device only under its lease (useTileStream.ts:86-135).
THEOREM TilesImplementLease == Spec => ImplementsLease
<1>1. Init => SL!LeaseInit
  BY InitHolds
<1>2. TInv /\ [Next]_vars => [SL!LeaseNext]_(SL!leaseVars)
  BY NextStep
<1> QED BY <1>1, <1>2, TilesInductive, PTL DEF Spec, ImplementsLease, SL!LeaseSpec

\* No lease stays behind: the tile that holds it waits in the queue or has a socket
\* (useTileStream.ts:102-135, 309-338).
THEOREM LeasesAreUsed == Spec => []LeaseIsUsed
<1>1. TInv => LeaseIsUsed
  <2> SUFFICES ASSUME TInv, NEW k \in Keys, lease[k].owner # None
               PROVE  /\ tile[lease[k].owner].key = k
                      /\ IF lease[k].state = "queued" THEN Waits(lease[k].owner)
                         ELSE Streams(tile[lease[k].owner])
    BY DEF LeaseIsUsed
  <2>1. lease[k].owner \in Tiles
    BY DEF TInv, TypeOK, Lease, Free
  <2> QED BY <2>1 DEF TInv, LeaseFits
<1> QED BY <1>1, TilesInductive, PTL

\* What runs for a tile runs for one reason, and a tile that is gone has nothing
\* (useTileStream.ts:309-338).
THEOREM TilesHaveOneReason == Spec => []OneReasonToRun
<1>1. TInv => OneReasonToRun
  <2> SUFFICES ASSUME TInv, NEW t \in Tiles
               PROVE  /\ Waits(t) => /\ ~Streams(tile[t]) /\ ~tile[t].retry /\ ~tile[t].initial
                                     /\ ~tile[t].engine
                      /\ tile[t].retry => tile[t].ws = "closed"
                      /\ tile[t].initial => Streams(tile[t])
                      /\ tile[t].key = None => tile[t] = Unmounted /\ ~Waits(t)
                      /\ Cardinality({i \in DOMAIN queue : queue[i].tile = t /\ queue[i].live}) <= 1
    BY DEF OneReasonToRun
  <2>1. TileFits(t)
    BY DEF TInv
  <2>2. /\ Waits(t) => /\ ~Streams(tile[t]) /\ ~tile[t].retry /\ ~tile[t].initial
                       /\ ~tile[t].engine
        /\ tile[t].retry => tile[t].ws = "closed"
        /\ tile[t].initial => Streams(tile[t])
        /\ tile[t].key = None => tile[t] = Unmounted /\ ~Waits(t)
    BY <2>1, TileConstants DEF TileFits, Streams
  <2> DEFINE S == {i \in DOMAIN queue : queue[i].tile = t /\ queue[i].live}
  <2>3. \A i, j \in S : i = j
    BY DEF TInv, OneItem
  <2> HIDE DEF S
  <2>4. S = {} \/ \E i \in S : S = {i}
    BY <2>3
  <2>5. Cardinality(S) <= 1
    <3>1. CASE S = {}
      BY <3>1, FS_EmptySet
    <3>2. ASSUME NEW i \in S, S = {i} PROVE Cardinality(S) <= 1
      <4>1. Cardinality({i}) = 1
        BY FS_Singleton
      <4> QED BY <3>2, <4>1
    <3> QED BY <2>4, <3>1, <3>2
  <2> QED BY <2>2, <2>5 DEF S
<1> QED BY <1>1, TilesInductive, PTL
=============================================================================
