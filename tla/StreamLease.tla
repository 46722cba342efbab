----------------------------- MODULE StreamLease -----------------------------
(***************************************************************************)
(* What the tiles of the client promise stream-node: a device is leased to *)
(* one tile at a time, and only the tile that holds the lease streams it.  *)
(***************************************************************************)
CONSTANTS Tiles, Keys, None

VARIABLES
  holder,  \* per device: the tile its lease belongs to
  stream   \* per tile: the device it streams

leaseVars == <<holder, stream>>

LeaseInit == holder = [k \in Keys |-> None] /\ stream = [t \in Tiles |-> None]

\* A tile takes a free device, before it may stream it.
Acquire(t, k) ==
  /\ holder[k] = None /\ \A j \in Keys : holder[j] # t
  /\ holder' = [holder EXCEPT ![k] = t]
  /\ UNCHANGED stream

\* Tiles that hold a lease begin to stream; the queue starts them in batches.
Begin(batch) ==
  /\ \A t \in batch : stream[t] = None /\ \E k \in Keys : holder[k] = t
  /\ stream' = [t \in Tiles |-> IF t \in batch THEN CHOOSE k \in Keys : holder[k] = t
                                ELSE stream[t]]
  /\ UNCHANGED holder

\* A tile gives its lease, and its stream, back.
GiveBack(t, k) ==
  /\ holder[k] = t
  /\ holder' = [holder EXCEPT ![k] = None]
  /\ stream' = [stream EXCEPT ![t] = None]

\* A tile drops its stream to make another one, under the same lease.
Restart(t) ==
  /\ stream[t] # None
  /\ stream' = [stream EXCEPT ![t] = None]
  /\ UNCHANGED holder

LeaseNext ==
  \/ \E t \in Tiles, k \in Keys : Acquire(t, k) \/ GiveBack(t, k)
  \/ \E t \in Tiles : Restart(t)
  \/ \E batch \in SUBSET Tiles : Begin(batch)

LeaseSpec == LeaseInit /\ [][LeaseNext]_leaseVars
=============================================================================
