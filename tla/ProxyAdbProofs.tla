---------------------------- MODULE ProxyAdbProofs ----------------------------
(***************************************************************************)
(* Proofs about ProxyAdb: its slots, locks, restarts and forwards, for any *)
(* requests, devices, attempts, evictions of locks and failures of ADB.    *)
(***************************************************************************)
EXTENDS ProxyAdb, FiniteSetTheorems, TLAPS

-----------------------------------------------------------------------------
(* The inductive invariant.                                                *)

Busy == {p \in Proxies : px[p].pc \in HasSlot}
Working == {p \in Proxies : px[p].pc \in HasLock}

SlotsFit == slots = Cardinality(Busy)

\* Those who work have different mutexes, the ones that are locked.
LocksFit ==
  /\ held = {px[p].lock : p \in Working}
  /\ \A p, q \in Working : p # q => px[p].lock # px[q].lock

\* What the locals of a proxy hold at its place.
LocalsFit(r) ==
  /\ r.pc \in {"idle", "failed", "ended"} => r = [Idle EXCEPT !.pc = r.pc, !.udid = r.udid]
  /\ r.pc \notin {"idle", "failed", "ended"} => r.udid \in Udids /\ r.attempt \in 1 .. MaxAttempts
  /\ r.pc \in HasSlot => r.lock \in Locks
  /\ r.pc = "waiting" => r.on \in Attempts
  /\ r.forced => r.pc \in HasSlot \cup {"slot", "report", "forget"}
  /\ r.pc \in {"report", "forget"} => r.forced

\* A restart stays the one in flight for its device until it is forgotten, and the
\* channels that are open are those of restarts that have not reported yet.
RestartsFit ==
  /\ \A p \in Proxies : px[p].forced => inFlight[px[p].udid] = Self(p)
  /\ \A c \in Attempts : chan[c] = "open" =>
       px[c[1]].forced /\ px[c[1]].pc # "forget" /\ Self(c[1]) = c

PInv ==
  /\ TypeOK
  /\ SlotsFit /\ LocksFit /\ RestartsFit /\ ForwardsAreAccountedFor
  /\ \A p \in Proxies : LocalsFit(px[p])

-----------------------------------------------------------------------------
(* One proxy moves.                                                        *)

LEMMA ToLemma ==
  ASSUME px \in [Proxies -> Proxy], NEW p \in Proxies, NEW r \in Proxy, To(p, r)
  PROVE  /\ px' \in [Proxies -> Proxy] /\ px'[p] = r
         /\ \A q \in Proxies : q # p => px'[q] = px[q]
BY DEF To

\* What holds of the locals of every proxy holds after the move of one.
LEMMA LocalsLemma ==
  ASSUME px \in [Proxies -> Proxy], NEW p \in Proxies, NEW r \in Proxy, To(p, r),
         LocalsFit(r), \A q \in Proxies : LocalsFit(px[q])
  PROVE  (\A q \in Proxies : LocalsFit(px[q]))'
<1> SUFFICES ASSUME NEW q \in Proxies PROVE LocalsFit(px[q])'
  OBVIOUS
<1>1. CASE q = p
  <2>1. px'[q] = r
    BY <1>1, ToLemma
  <2> QED BY <2>1 DEF LocalsFit
<1>2. CASE q # p
  <2>1. px'[q] = px[q]
    BY <1>2, ToLemma
  <2>2. LocalsFit(px[q])
    OBVIOUS
  <2> QED BY <2>1, <2>2 DEF LocalsFit
<1> QED BY <1>1, <1>2

LEMMA AttemptsLemma ==
  ASSUME NEW p \in Proxies, px[p].attempt \in 1 .. MaxAttempts
  PROVE  Self(p) \in Attempts /\ Self(p)[1] = p /\ Self(p)[2] = px[p].attempt
BY DEF Self, Attempts

LEMMA NoChannel == \A c \in Attempts : c # <<>>
BY DEF Attempts

LEMMA BusyFinite == IsFiniteSet(Busy) /\ Cardinality(Busy) \in Nat
BY ProxyConstants, FS_Subset, FS_CardinalityType DEF Busy

\* The slot of a proxy that moves.
LEMMA SlotLemma ==
  ASSUME px \in [Proxies -> Proxy], SlotsFit, NEW p \in Proxies, NEW r \in Proxy, To(p, r)
  PROVE  /\ (r.pc \in HasSlot <=> px[p].pc \in HasSlot) => Cardinality(Busy)' = slots
         /\ r.pc \in HasSlot /\ px[p].pc \notin HasSlot => Cardinality(Busy)' = slots + 1
         /\ r.pc \notin HasSlot /\ px[p].pc \in HasSlot => Cardinality(Busy)' = slots - 1 /\ slots > 0
<1>1. px'[p] = r /\ \A q \in Proxies : q # p => px'[q] = px[q]
  BY ToLemma
<1>2. IsFiniteSet(Busy) /\ Cardinality(Busy) \in Nat /\ slots = Cardinality(Busy)
  BY BusyFinite DEF SlotsFit
<1>3. CASE r.pc \in HasSlot <=> px[p].pc \in HasSlot
  <2>1. Busy' = Busy
    BY <1>1, <1>3 DEF Busy
  <2> QED BY <1>2, <1>3, <2>1
<1>4. CASE r.pc \in HasSlot /\ px[p].pc \notin HasSlot
  <2>1. Busy' = Busy \cup {p} /\ p \notin Busy
    BY <1>1, <1>4 DEF Busy
  <2>2. Cardinality(Busy \cup {p}) = Cardinality(Busy) + 1
    BY <1>2, <2>1, FS_AddElement
  <2> QED BY <1>2, <1>4, <2>1, <2>2
<1>5. CASE r.pc \notin HasSlot /\ px[p].pc \in HasSlot
  <2>1. Busy' = Busy \ {p} /\ p \in Busy
    BY <1>1, <1>5 DEF Busy
  <2>2. Cardinality(Busy \ {p}) = Cardinality(Busy) - 1
    BY <1>2, <2>1, FS_RemoveElement
  <2>3. Cardinality(Busy) > 0
    BY <1>2, <2>1, FS_EmptySet
  <2> QED BY <1>2, <1>5, <2>1, <2>2, <2>3
<1> QED BY <1>3, <1>4, <1>5

\* The mutex of a proxy that moves.
LEMMA LockLemma ==
  ASSUME px \in [Proxies -> Proxy], LocksFit, NEW p \in Proxies, NEW r \in Proxy, To(p, r),
         \/ /\ r.pc \in HasLock <=> px[p].pc \in HasLock
            /\ r.pc \in HasLock => r.lock = px[p].lock
            /\ held' = held
         \/ /\ r.pc \in HasLock /\ px[p].pc \notin HasLock
            /\ r.lock \notin held /\ held' = held \cup {r.lock}
         \/ /\ r.pc \notin HasLock /\ px[p].pc \in HasLock
            /\ held' = held \ {px[p].lock}
  PROVE  LocksFit'
<1>1. px'[p] = r /\ \A q \in Proxies : q # p => px'[q] = px[q]
  BY ToLemma
<1>2. /\ held = {px[q].lock : q \in Working}
      /\ \A q, s \in Working : q # s => px[q].lock # px[s].lock
  BY DEF LocksFit
<1>3. CASE /\ r.pc \in HasLock <=> px[p].pc \in HasLock
           /\ r.pc \in HasLock => r.lock = px[p].lock
           /\ held' = held
  <2>1. Working' = Working /\ \A q \in Working : px'[q].lock = px[q].lock
    BY <1>1, <1>3 DEF Working
  <2> QED BY <1>2, <1>3, <2>1 DEF LocksFit
<1>4. CASE /\ r.pc \in HasLock /\ px[p].pc \notin HasLock
           /\ r.lock \notin held /\ held' = held \cup {r.lock}
  <2>1. /\ Working' = Working \cup {p} /\ p \notin Working
        /\ \A q \in Working : px'[q].lock = px[q].lock
    BY <1>1, <1>4 DEF Working
  <2> QED BY <1>1, <1>2, <1>4, <2>1 DEF LocksFit
<1>5. CASE /\ r.pc \notin HasLock /\ px[p].pc \in HasLock
           /\ held' = held \ {px[p].lock}
  <2>1. /\ Working' = Working \ {p} /\ p \in Working
        /\ \A q \in Working' : px'[q].lock = px[q].lock
    BY <1>1, <1>5 DEF Working
  <2> QED BY <1>2, <1>5, <2>1 DEF LocksFit
<1> QED BY <1>3, <1>4, <1>5

\* A proxy that moves without a word to those who wait.
LEMMA RestartLemma ==
  ASSUME px \in [Proxies -> Proxy], RestartsFit, NEW p \in Proxies, NEW r \in Proxy, To(p, r),
         r.forced <=> px[p].forced,
         r.forced => r.udid = px[p].udid /\ r.attempt = px[p].attempt /\ r.pc # "forget",
         inFlight' = inFlight, \A c \in Attempts : chan'[c] = "open" => chan[c] = "open"
  PROVE  RestartsFit'
<1>1. px'[p] = r /\ \A q \in Proxies : q # p => px'[q] = px[q]
  BY ToLemma
<1>2. ASSUME NEW q \in Proxies, px'[q].forced PROVE inFlight'[px'[q].udid] = Self(q)'
  BY <1>1, <1>2 DEF RestartsFit, Self
<1>3. ASSUME NEW c \in Attempts, chan'[c] = "open"
      PROVE  px'[c[1]].forced /\ px'[c[1]].pc # "forget" /\ Self(c[1])' = c
  <2>1. c[1] \in Proxies /\ px[c[1]].forced /\ px[c[1]].pc # "forget" /\ Self(c[1]) = c
    BY <1>3 DEF RestartsFit, Attempts
  <2> QED BY <1>1, <2>1 DEF Self
<1> QED BY <1>2, <1>3 DEF RestartsFit

\* A proxy that neither makes nor loses a forward of its own.
LEMMA ForwardLemma ==
  ASSUME px \in [Proxies -> Proxy], forwards \subseteq Attempts, ForwardsAreAccountedFor,
         NEW p \in Proxies, NEW r \in Proxy, To(p, r),
         forwards' \subseteq forwards, stuck \subseteq stuck',
         \/ px[p].pc \notin {"dial", "piping"}
         \/ r.pc = "piping" /\ r.attempt = px[p].attempt
         \/ Self(p) \notin forwards' \ stuck'
  PROVE  ForwardsAreAccountedFor'
<1>1. px'[p] = r /\ \A q \in Proxies : q # p => px'[q] = px[q]
  BY ToLemma
<1>2. ASSUME NEW f \in forwards' \ stuck'
      PROVE  Self(f[1])' = f /\ px'[f[1]].pc \in {"dial", "piping"}
  <2>1. f[1] \in Proxies /\ Self(f[1]) = f /\ px[f[1]].pc \in {"dial", "piping"}
    BY DEF Attempts, ForwardsAreAccountedFor
  <2>2. CASE f[1] = p
    BY <1>1, <2>1, <2>2 DEF Self
  <2>3. CASE f[1] # p
    BY <1>1, <2>1, <2>3 DEF Self
  <2> QED BY <2>2, <2>3
<1> QED BY <1>2 DEF ForwardsAreAccountedFor

\* What an attempt leaves behind.
LEMMA PreparedLemma ==
  ASSUME NEW p \in Proxies, px[p] \in Proxy, px[p].udid \in Udids, px[p].attempt \in 1 .. MaxAttempts,
         NEW ok \in BOOLEAN
  PROVE  /\ Prepared(p, ok) \in Proxy /\ LocalsFit(Prepared(p, ok))
         /\ Prepared(p, ok).pc \in {"clean", "prepare", "failed"} /\ ~Prepared(p, ok).forced
         /\ Again(p) \in Proxy /\ LocalsFit(Again(p))
         /\ Again(p).pc \in {"prepare", "failed"} /\ ~Again(p).forced
<1>1. Idle \in Proxy
  BY ProxyConstants DEF Idle, Proxy, Pcs
<1>2. /\ Again(p) \in Proxy /\ LocalsFit(Again(p))
      /\ Again(p).pc \in {"prepare", "failed"} /\ ~Again(p).forced
  <2>1. CASE px[p].attempt < MaxAttempts
    <3>1. px[p].attempt + 1 \in 1 .. MaxAttempts /\ px[p].attempt + 1 \in 0 .. MaxAttempts
      BY <2>1, ProxyConstants
    <3> QED BY <2>1, <3>1 DEF Again, Idle, Proxy, Pcs, LocalsFit, HasSlot
  <2>2. CASE ~(px[p].attempt < MaxAttempts)
    BY <1>1, <2>2 DEF Again, Idle, Proxy, Pcs, LocalsFit, HasSlot
  <2> QED BY <2>1, <2>2
<1>3. CASE ok
  BY <1>2, <1>3, ProxyConstants DEF Prepared, Idle, Proxy, Pcs, LocalsFit, HasSlot
<1>4. CASE ~ok
  BY <1>2, <1>4 DEF Prepared
<1> QED BY <1>2, <1>3, <1>4

\* A proxy that has no slot, no lock and no restart goes to another such place, and
\* leaves slots, locks and restarts alone.
LEMMA QuietLemma ==
  ASSUME PInv, NEW p \in Proxies, NEW r \in Proxy, To(p, r), LocalsFit(r),
         px[p].pc \notin HasSlot, r.pc \notin HasSlot, ~px[p].forced, ~r.forced,
         slots' = slots, held' = held, gen' = gen, server' = server, inFlight' = inFlight,
         chan' \in [Attempts -> {"none", "open", "ok", "err", "drained"}],
         \A c \in Attempts : chan'[c] = "open" => chan[c] = "open",
         forwards' \subseteq Attempts, stuck' \subseteq Attempts, ForwardsAreAccountedFor'
  PROVE  PInv'
<1>1. /\ px \in [Proxies -> Proxy] /\ SlotsFit /\ LocksFit /\ RestartsFit
      /\ \A q \in Proxies : LocalsFit(px[q])
  BY DEF PInv, TypeOK
<1>2. /\ px' \in [Proxies -> Proxy] /\ px'[p] = r
      /\ \A q \in Proxies : q # p => px'[q] = px[q]
  BY <1>1, ToLemma
<1>3. SlotsFit'
  BY <1>1, SlotLemma DEF SlotsFit
<1>4. LocksFit'
  <2>1. r.pc \notin HasLock /\ px[p].pc \notin HasLock
    BY DEF HasLock
  <2> QED BY <1>1, <2>1, LockLemma
<1>5. RestartsFit'
  BY <1>1, RestartLemma
<1>6. \A q \in Proxies : LocalsFit(px[q])'
  BY <1>1, LocalsLemma
<1>7. TypeOK'
  BY <1>2 DEF PInv, TypeOK
<1> QED BY <1>3, <1>4, <1>5, <1>6, <1>7 DEF PInv

\* A proxy that keeps, or takes, its slot and its mutex.
LEMMA WorkLemma ==
  ASSUME PInv, NEW p \in Proxies, NEW r \in Proxy, To(p, r), LocalsFit(r),
         px[p].pc \in HasSlot \cup {"slot"}, r.pc \in HasSlot \cup {"report"},
         r.forced <=> px[p].forced, r.udid = px[p].udid, r.attempt = px[p].attempt,
         \/ slots' = slots /\ (r.pc \in HasSlot <=> px[p].pc \in HasSlot)
         \/ slots' = slots + 1 /\ slots < MaxOps /\ px[p].pc = "slot" /\ r.pc \in HasSlot
         \/ slots' = slots - 1 /\ px[p].pc \in HasSlot /\ r.pc \notin HasSlot,
         held' \subseteq Locks,
         \/ /\ r.pc \in HasLock <=> px[p].pc \in HasLock
            /\ r.pc \in HasLock => r.lock = px[p].lock
            /\ held' = held
         \/ /\ r.pc \in HasLock /\ px[p].pc \notin HasLock
            /\ r.lock \notin held /\ held' = held \cup {r.lock}
         \/ /\ r.pc \notin HasLock /\ px[p].pc \in HasLock
            /\ held' = held \ {px[p].lock},
         gen' = gen, server' \in [Udids -> {"down", "starting", "up"}],
         inFlight' = inFlight, chan' = chan, forwards' = forwards, stuck' = stuck
  PROVE  PInv'
<1>1. /\ px \in [Proxies -> Proxy] /\ SlotsFit /\ LocksFit /\ RestartsFit
      /\ ForwardsAreAccountedFor /\ forwards \subseteq Attempts
      /\ \A q \in Proxies : LocalsFit(px[q])
  BY DEF PInv, TypeOK
<1>2. /\ px' \in [Proxies -> Proxy] /\ px'[p] = r
      /\ \A q \in Proxies : q # p => px'[q] = px[q]
  BY <1>1, ToLemma
<1>3. SlotsFit' /\ slots' \in 0 .. MaxOps
  <2>1. slots \in 0 .. MaxOps /\ "slot" \notin HasSlot /\ MaxOps \in Nat
    BY ProxyConstants DEF PInv, TypeOK, HasSlot
  <2> QED BY <1>1, <2>1, SlotLemma DEF SlotsFit
<1>4. LocksFit'
  BY <1>1, LockLemma
<1>5. RestartsFit'
  <2>1. r.pc # "forget"
    BY DEF HasSlot
  <2> QED BY <1>1, <2>1, RestartLemma
<1>6. ForwardsAreAccountedFor'
  <2>1. px[p].pc \notin {"dial", "piping"}
    BY DEF HasSlot
  <2> QED BY <1>1, <2>1, ForwardLemma
<1>7. \A q \in Proxies : LocalsFit(px[q])'
  BY <1>1, LocalsLemma
<1>8. TypeOK'
  BY <1>2, <1>3 DEF PInv, TypeOK
<1> QED BY <1>3, <1>4, <1>5, <1>6, <1>7, <1>8 DEF PInv

\* The deferred unlock and the deferred receive of the slot, on every way out.
LEMMA FinishLemma ==
  ASSUME PInv, NEW p \in Proxies, px[p].pc \in HasLock, NEW ok \in BOOLEAN, Finish(p, ok),
         gen' = gen, server' \in [Udids -> {"down", "starting", "up"}],
         inFlight' = inFlight, chan' = chan, forwards' = forwards, stuck' = stuck
  PROVE  PInv'
<1>1. /\ px[p] \in Proxy /\ LocalsFit(px[p]) /\ held \subseteq Locks
      /\ px[p].pc \in HasSlot /\ px[p].pc \notin {"idle", "failed", "ended"}
  BY DEF PInv, TypeOK, HasLock, HasSlot
<1>2. px[p].udid \in Udids /\ px[p].attempt \in 1 .. MaxAttempts
  BY <1>1 DEF LocalsFit
<1>3. slots' = slots - 1 /\ held' = held \ {px[p].lock} /\ held' \subseteq Locks
  BY <1>1 DEF Finish
<1>4. CASE px[p].forced
  <2> DEFINE r == [px[p] EXCEPT !.pc = "report", !.ok = ok, !.lock = <<>>]
  <2>1. To(p, r)
    BY <1>4 DEF Finish
  <2>2. /\ r \in Proxy /\ r.pc = "report" /\ r.forced /\ r.udid = px[p].udid
        /\ r.attempt = px[p].attempt
    BY <1>1, <1>4 DEF Proxy, Pcs
  <2>3. LocalsFit(r) /\ r.pc \notin HasSlot /\ r.pc \notin HasLock
    BY <1>2, <2>2 DEF LocalsFit, HasSlot, HasLock
  <2> HIDE DEF r
  <2> QED BY <1>1, <1>3, <1>4, <2>1, <2>2, <2>3, WorkLemma
<1>5. CASE ~px[p].forced
  <2> DEFINE r == Prepared(p, ok)
  <2>1. To(p, r)
    BY <1>5 DEF Finish
  <2>2. r \in Proxy /\ LocalsFit(r) /\ r.pc \in {"clean", "prepare", "failed"} /\ ~r.forced
    BY <1>1, <1>2, PreparedLemma
  <2> HIDE DEF r
  <2>3. r.pc \notin HasSlot /\ r.pc \notin HasLock
    BY <2>2 DEF HasSlot, HasLock
  <2>4. /\ px \in [Proxies -> Proxy] /\ SlotsFit /\ LocksFit /\ RestartsFit
        /\ ForwardsAreAccountedFor /\ forwards \subseteq Attempts
        /\ \A q \in Proxies : LocalsFit(px[q])
    BY DEF PInv, TypeOK
  <2>5. /\ px' \in [Proxies -> Proxy] /\ px'[p] = r
        /\ \A q \in Proxies : q # p => px'[q] = px[q]
    BY <2>1, <2>2, <2>4, ToLemma
  <2>6. SlotsFit' /\ slots' \in 0 .. MaxOps
    <3>1. slots \in 0 .. MaxOps /\ MaxOps \in Nat
      BY ProxyConstants DEF PInv, TypeOK
    <3> QED BY <1>1, <1>3, <2>1, <2>2, <2>3, <2>4, <3>1, SlotLemma DEF SlotsFit
  <2>7. LocksFit'
    BY <1>1, <1>3, <2>1, <2>2, <2>3, <2>4, LockLemma
  <2>8. RestartsFit'
    BY <1>5, <2>1, <2>2, <2>4, RestartLemma
  <2>9. ForwardsAreAccountedFor'
    <3>1. px[p].pc \notin {"dial", "piping"}
      BY <1>1 DEF HasSlot
    <3> QED BY <2>1, <2>2, <2>4, <3>1, ForwardLemma
  <2>10. \A q \in Proxies : LocalsFit(px[q])'
    BY <2>1, <2>2, <2>4, LocalsLemma
  <2>11. TypeOK'
    BY <1>3, <2>5, <2>6 DEF PInv, TypeOK
  <2> QED BY <2>6, <2>7, <2>8, <2>9, <2>10, <2>11 DEF PInv
<1> QED BY <1>4, <1>5

-----------------------------------------------------------------------------
(* The steps.                                                              *)

LEMMA InitLemma == Init => PInv
<1> SUFFICES ASSUME Init PROVE PInv
  OBVIOUS
<1>1. Idle \in Proxy
  BY ProxyConstants DEF Idle, Proxy, Pcs
<1>2. TypeOK
  <2>1. slots \in 0 .. MaxOps
    BY ProxyConstants DEF Init
  <2>2. gen \in [Udids -> 0 .. MaxEvictions]
    BY ProxyConstants DEF Init
  <2> QED BY <1>1, <2>1, <2>2 DEF Init, TypeOK
<1>3. Busy = {} /\ Working = {}
  BY DEF Init, Idle, Busy, Working, HasSlot, HasLock
<1>4. SlotsFit /\ LocksFit
  BY <1>3, FS_EmptySet DEF Init, SlotsFit, LocksFit
<1>5. RestartsFit /\ ForwardsAreAccountedFor
  BY DEF Init, Idle, RestartsFit, ForwardsAreAccountedFor
<1>6. \A p \in Proxies : LocalsFit(px[p])
  BY DEF Init, Idle, LocalsFit, HasSlot
<1> QED BY <1>2, <1>4, <1>5, <1>6 DEF PInv

\* A request, an attempt that begins with EnsureServer, and one that joins a restart.
LEMMA PrepareStep ==
  ASSUME PInv, NEW p \in Proxies,
         \/ \E u \in Udids, restart \in BOOLEAN : Request(p, u, restart)
         \/ Ensure(p)
         \/ ForceRestart(p) /\ inFlight[px[p].udid] # <<>>
  PROVE  PInv'
<1>1. /\ px[p] \in Proxy /\ LocalsFit(px[p]) /\ ForwardsAreAccountedFor /\ forwards \subseteq Attempts
      /\ px \in [Proxies -> Proxy] /\ inFlight \in [Udids -> Attempts \cup {<<>>}]
      /\ chan \in [Attempts -> {"none", "open", "ok", "err", "drained"}]
      /\ stuck \subseteq Attempts
  BY DEF PInv, TypeOK
<1>2. px[p].pc \in {"idle", "prepare"} /\ ~px[p].forced
  BY <1>1 DEF Request, Ensure, ForceRestart, At, LocalsFit, HasSlot
<1>3. PICK r \in Proxy : /\ To(p, r) /\ LocalsFit(r) /\ ~r.forced
                         /\ r.pc \in {"prepare", "slot", "waiting"}
  <2>1. CASE \E u \in Udids, restart \in BOOLEAN : Request(p, u, restart)
    <3>1. PICK u \in Udids, restart \in BOOLEAN : Request(p, u, restart)
      BY <2>1
    <3> DEFINE r == [px[p] EXCEPT !.pc = "prepare", !.udid = u, !.restart = restart, !.attempt = 1]
    <3>2. To(p, r)
      BY <3>1 DEF Request
    <3>3. /\ r.pc = "prepare" /\ r.udid = u /\ r.attempt = 1 /\ ~r.forced /\ r \in Proxy
      <4>1. 1 \in 0 .. MaxAttempts
        BY ProxyConstants
      <4> QED BY <1>1, <1>2, <4>1 DEF Proxy, Pcs
    <3>4. r.attempt \in 1 .. MaxAttempts
      BY <3>3, ProxyConstants
    <3> HIDE DEF r
    <3>5. LocalsFit(r)
      BY <3>3, <3>4 DEF LocalsFit, HasSlot
    <3> QED BY <3>2, <3>3, <3>5
  <2>2. CASE Ensure(p)
    <3> DEFINE r == [px[p] EXCEPT !.pc = "slot", !.forced = FALSE]
    <3>1. To(p, r) /\ px[p].pc = "prepare"
      BY <2>2 DEF Ensure, At
    <3>2. /\ r \in Proxy /\ r.pc = "slot" /\ ~r.forced /\ r.udid = px[p].udid
          /\ r.attempt = px[p].attempt
      BY <1>1 DEF Proxy, Pcs
    <3> HIDE DEF r
    <3>3. LocalsFit(r)
      BY <1>1, <3>1, <3>2 DEF LocalsFit, HasSlot
    <3> QED BY <3>1, <3>2, <3>3
  <2>3. CASE ForceRestart(p) /\ inFlight[px[p].udid] # <<>>
    <3> DEFINE on == inFlight[px[p].udid]
               r == [px[p] EXCEPT !.pc = "waiting", !.on = on]
    <3>1. To(p, r) /\ px[p].pc = "prepare"
      BY <2>3 DEF ForceRestart, At
    <3>2. px[p].udid \in Udids /\ on \in Attempts
      BY <1>1, <2>3, <3>1 DEF LocalsFit
    <3> HIDE DEF on
    <3>3. /\ r \in Proxy /\ r.pc = "waiting" /\ ~r.forced /\ r.udid = px[p].udid
          /\ r.attempt = px[p].attempt /\ r.on = on
      BY <1>1, <1>2, <3>2 DEF Proxy, Pcs
    <3> HIDE DEF r
    <3>4. LocalsFit(r)
      BY <1>1, <3>1, <3>2, <3>3 DEF LocalsFit, HasSlot
    <3> QED BY <3>1, <3>3, <3>4
  <2> QED BY <2>1, <2>2, <2>3
<1>4. /\ slots' = slots /\ held' = held /\ gen' = gen /\ server' = server /\ inFlight' = inFlight
      /\ chan' = chan /\ forwards' = forwards /\ stuck' = stuck
  BY DEF Request, Ensure, ForceRestart, opVars, restartVars, deviceVars, forwardVars
<1>5. ForwardsAreAccountedFor'
  BY <1>1, <1>2, <1>3, <1>4, ForwardLemma
<1>6. px[p].pc \notin HasSlot /\ r.pc \notin HasSlot
  BY <1>2, <1>3 DEF HasSlot
<1> QED BY <1>1, <1>2, <1>3, <1>4, <1>5, <1>6, QuietLemma

\* A restart of its own: the first one for the device, whose channel is open.
LEMMA RestartStep ==
  ASSUME PInv, NEW p \in Proxies, ForceRestart(p), inFlight[px[p].udid] = <<>>
  PROVE  PInv'
<1> DEFINE u == px[p].udid
           r == [px[p] EXCEPT !.pc = "slot", !.forced = TRUE]
<1>1. /\ px[p] \in Proxy /\ LocalsFit(px[p]) /\ px \in [Proxies -> Proxy]
      /\ SlotsFit /\ LocksFit /\ RestartsFit /\ ForwardsAreAccountedFor /\ forwards \subseteq Attempts
      /\ inFlight \in [Udids -> Attempts \cup {<<>>}]
      /\ chan \in [Attempts -> {"none", "open", "ok", "err", "drained"}]
      /\ \A q \in Proxies : LocalsFit(px[q])
  BY DEF PInv, TypeOK
<1>2. /\ px[p].pc = "prepare" /\ To(p, r)
      /\ inFlight' = [inFlight EXCEPT ![u] = Self(p)] /\ chan' = [chan EXCEPT ![Self(p)] = "open"]
      /\ slots' = slots /\ held' = held /\ gen' = gen /\ server' = server
      /\ forwards' = forwards /\ stuck' = stuck
  BY DEF ForceRestart, At, opVars, deviceVars, forwardVars
<1>3. u \in Udids /\ px[p].attempt \in 1 .. MaxAttempts /\ ~px[p].forced
  BY <1>1, <1>2 DEF LocalsFit, HasSlot
<1>4. Self(p) \in Attempts /\ Self(p)[1] = p
  BY <1>3, AttemptsLemma
<1>5. /\ r \in Proxy /\ r.pc = "slot" /\ r.forced /\ r.udid = u /\ r.attempt = px[p].attempt
  BY <1>1 DEF Proxy, Pcs
<1> HIDE DEF r, u
<1>6. LocalsFit(r) /\ r.pc \notin HasSlot /\ r.pc \notin HasLock
  BY <1>3, <1>5 DEF LocalsFit, HasSlot, HasLock
<1>7. px[p].pc \notin HasSlot /\ px[p].pc \notin HasLock
  BY <1>2 DEF HasSlot, HasLock
<1>8. px' \in [Proxies -> Proxy] /\ px'[p] = r /\ \A q \in Proxies : q # p => px'[q] = px[q]
  BY <1>1, <1>2, <1>5, ToLemma
<1>9. SlotsFit'
  BY <1>1, <1>2, <1>5, <1>6, <1>7, SlotLemma DEF SlotsFit
<1>10. LocksFit'
  BY <1>1, <1>2, <1>5, <1>6, <1>7, LockLemma
<1>11. ForwardsAreAccountedFor'
  BY <1>1, <1>2, <1>5, ForwardLemma
<1>12. RestartsFit'
  <2>1. Self(p)' = Self(p)
    BY <1>5, <1>8 DEF Self
  <2>2. ASSUME NEW q \in Proxies, px'[q].forced PROVE inFlight'[px'[q].udid] = Self(q)'
    <3>1. CASE q = p
      BY <1>1, <1>2, <1>3, <1>5, <1>8, <2>1, <3>1
    <3>2. CASE q # p
      <4>1. /\ px'[q] = px[q] /\ px[q].forced /\ inFlight[px[q].udid] = Self(q) /\ Self(q)' = Self(q)
            /\ px[q].udid \in Udids /\ px[q].attempt \in 1 .. MaxAttempts
        BY <1>1, <1>8, <2>2, <3>2 DEF RestartsFit, Self, LocalsFit, HasSlot
      <4>2. Self(q) # <<>>
        BY <4>1, AttemptsLemma, NoChannel
      <4>3. px[q].udid # u
        BY <4>1, <4>2 DEF u
      <4> QED BY <1>1, <1>2, <4>1, <4>3
    <3> QED BY <3>1, <3>2
  <2>3. ASSUME NEW c \in Attempts, chan'[c] = "open"
        PROVE  px'[c[1]].forced /\ px'[c[1]].pc # "forget" /\ Self(c[1])' = c
    <3>1. CASE c = Self(p)
      BY <1>4, <1>5, <1>8, <2>1, <3>1
    <3>2. CASE c # Self(p)
      <4>1. c[1] \in Proxies /\ px[c[1]].forced /\ px[c[1]].pc # "forget" /\ Self(c[1]) = c
        BY <1>1, <1>2, <2>3, <3>2 DEF RestartsFit, Attempts
      <4>2. c[1] # p
        BY <1>3, <4>1
      <4> QED BY <1>8, <4>1, <4>2 DEF Self
    <3> QED BY <3>1, <3>2
  <2> QED BY <2>2, <2>3 DEF RestartsFit
<1>13. \A q \in Proxies : LocalsFit(px[q])'
  BY <1>1, <1>2, <1>5, <1>6, LocalsLemma
<1>14. TypeOK'
  BY <1>1, <1>2, <1>4, <1>8 DEF PInv, TypeOK
<1> QED BY <1>9, <1>10, <1>11, <1>12, <1>13, <1>14 DEF PInv

\* A waiter takes the result, or finds the channel closed.
LEMMA ReceiveStep ==
  ASSUME PInv, NEW p \in Proxies, Receive(p)
  PROVE  PInv'
<1> DEFINE ok == chan[px[p].on] # "err"
           r == Prepared(p, ok)
<1>1. /\ px[p] \in Proxy /\ LocalsFit(px[p]) /\ px \in [Proxies -> Proxy]
      /\ ForwardsAreAccountedFor /\ forwards \subseteq Attempts /\ stuck \subseteq Attempts
      /\ chan \in [Attempts -> {"none", "open", "ok", "err", "drained"}]
  BY DEF PInv, TypeOK
<1>2. px[p].pc = "waiting" /\ To(p, r)
  BY DEF Receive, At
<1>3. px[p].on \in Attempts /\ px[p].udid \in Udids /\ px[p].attempt \in 1 .. MaxAttempts /\ ~px[p].forced
  BY <1>1, <1>2 DEF LocalsFit, HasSlot
<1>4. /\ chan' \in [Attempts -> {"none", "open", "ok", "err", "drained"}]
      /\ \A c \in Attempts : chan'[c] = "open" => chan[c] = "open"
  BY <1>1, <1>3 DEF Receive
<1>5. r \in Proxy /\ LocalsFit(r) /\ r.pc \in {"clean", "prepare", "failed"} /\ ~r.forced
  BY <1>1, <1>3, PreparedLemma
<1>6. /\ slots' = slots /\ held' = held /\ gen' = gen /\ server' = server /\ inFlight' = inFlight
      /\ forwards' = forwards /\ stuck' = stuck
  BY DEF Receive, opVars, deviceVars, forwardVars
<1> HIDE DEF r
<1>7. px[p].pc \notin HasSlot /\ r.pc \notin HasSlot /\ px[p].pc \notin {"dial", "piping"}
  BY <1>2, <1>5 DEF HasSlot
<1>8. ForwardsAreAccountedFor'
  BY <1>1, <1>2, <1>5, <1>6, <1>7, ForwardLemma
<1> QED BY <1>1, <1>2, <1>3, <1>4, <1>5, <1>6, <1>7, <1>8, QuietLemma

\* A server operation takes a slot and looks up its mutex, then locks it.
LEMMA TakeStep ==
  ASSUME PInv, NEW p \in Proxies, TakeSlot(p) \/ TakeLock(p)
  PROVE  PInv'
<1>1. /\ px[p] \in Proxy /\ LocalsFit(px[p]) /\ held \subseteq Locks
      /\ gen \in [Udids -> 0 .. MaxEvictions] /\ server \in [Udids -> {"down", "starting", "up"}]
  BY DEF PInv, TypeOK
<1>2. CASE TakeSlot(p)
  <2> DEFINE lock == <<px[p].udid, gen[px[p].udid]>>
             r == [px[p] EXCEPT !.pc = "lock", !.lock = lock]
  <2>1. px[p].pc = "slot" /\ slots < MaxOps /\ slots' = slots + 1 /\ To(p, r)
    BY <1>2 DEF TakeSlot, At
  <2>2. px[p].udid \in Udids
    BY <1>1, <2>1 DEF LocalsFit
  <2>3. lock \in Locks
    BY <1>1, <2>2 DEF Locks
  <2> HIDE DEF lock
  <2>4. /\ r \in Proxy /\ r.pc = "lock" /\ (r.forced <=> px[p].forced) /\ r.udid = px[p].udid
        /\ r.attempt = px[p].attempt /\ r.lock = lock
    BY <1>1, <2>3 DEF Proxy, Pcs
  <2> HIDE DEF r
  <2>5. LocalsFit(r) /\ r.pc \in HasSlot /\ r.pc \notin HasLock /\ px[p].pc \notin HasLock
    BY <1>1, <2>1, <2>3, <2>4 DEF LocalsFit, HasSlot, HasLock
  <2>6. /\ held' = held /\ gen' = gen /\ server' = server /\ inFlight' = inFlight /\ chan' = chan
        /\ forwards' = forwards /\ stuck' = stuck
    BY <1>2 DEF TakeSlot, restartVars, deviceVars, forwardVars
  <2> QED BY <1>1, <2>1, <2>4, <2>5, <2>6, WorkLemma
<1>3. CASE TakeLock(p)
  <2> DEFINE pc == IF px[p].forced THEN "kill" ELSE "inspect"
             r == [px[p] EXCEPT !.pc = pc]
  <2>1. /\ px[p].pc = "lock" /\ px[p].lock \notin held /\ held' = held \cup {px[p].lock}
        /\ To(p, r)
    BY <1>3 DEF TakeLock, At, Goto
  <2>2. pc \in {"kill", "inspect"} /\ px[p].lock \in Locks
    BY <1>1, <2>1 DEF LocalsFit, HasSlot
  <2> HIDE DEF pc
  <2>3. /\ r \in Proxy /\ r.pc = pc /\ (r.forced <=> px[p].forced) /\ r.udid = px[p].udid
        /\ r.attempt = px[p].attempt /\ r.lock = px[p].lock /\ r.on = px[p].on
    BY <1>1, <2>2 DEF Proxy, Pcs
  <2> HIDE DEF r
  <2>4. /\ r.pc \in HasSlot /\ r.pc \in HasLock
        /\ px[p].pc \in HasSlot /\ px[p].pc \notin HasLock
    BY <2>1, <2>2, <2>3 DEF HasSlot, HasLock
  <2>5. LocalsFit(r)
    BY <1>1, <2>1, <2>2, <2>3, <2>4 DEF LocalsFit
  <2>6. /\ slots' = slots /\ gen' = gen /\ server' = server /\ inFlight' = inFlight /\ chan' = chan
        /\ forwards' = forwards /\ stuck' = stuck
    BY <1>3 DEF TakeLock, restartVars, deviceVars, forwardVars
  <2>7. held' \subseteq Locks
    BY <1>1, <2>1, <2>2
  <2> QED BY <1>1, <2>1, <2>3, <2>4, <2>5, <2>6, <2>7, WorkLemma
<1> QED BY <1>2, <1>3

\* A step from one place of an operation past its lock to another.
LEMMA GotoLemma ==
  ASSUME PInv, NEW p \in Proxies, NEW pc \in HasLock, px[p].pc \in HasLock, Goto(p, pc),
         slots' = slots, held' = held, gen' = gen, server' \in [Udids -> {"down", "starting", "up"}],
         inFlight' = inFlight, chan' = chan, forwards' = forwards, stuck' = stuck
  PROVE  PInv'
<1> DEFINE r == [px[p] EXCEPT !.pc = pc]
<1>1. px[p] \in Proxy /\ LocalsFit(px[p]) /\ held \subseteq Locks /\ To(p, r)
  BY DEF PInv, TypeOK, Goto
<1>2. pc \in HasSlot /\ px[p].pc \in HasSlot /\ pc \in Pcs
  BY DEF HasLock, HasSlot, Pcs
<1>3. /\ r \in Proxy /\ r.pc = pc /\ (r.forced <=> px[p].forced) /\ r.udid = px[p].udid
      /\ r.attempt = px[p].attempt /\ r.lock = px[p].lock /\ r.on = px[p].on
  BY <1>1, <1>2 DEF Proxy
<1> HIDE DEF r
<1>4. LocalsFit(r)
  BY <1>1, <1>2, <1>3 DEF LocalsFit, HasSlot
<1> QED BY <1>1, <1>2, <1>3, <1>4, WorkLemma

\* The body of EnsureServer and of a restart, up to the end of startServerUnlocked.
LEMMA OperationStep ==
  ASSUME PInv, NEW p \in Proxies, Inspect(p) \/ Kill(p) \/ Start(p) \/ Boot(p)
  PROVE  PInv'
<1>1. server \in [Udids -> {"down", "starting", "up"}]
  BY DEF PInv, TypeOK
<1>2. px[p].pc \in HasLock
  BY DEF Inspect, Kill, Start, Boot, At, HasLock, HasSlot
<1>3. /\ gen' = gen /\ inFlight' = inFlight /\ chan' = chan /\ forwards' = forwards /\ stuck' = stuck
      /\ server' \in [Udids -> {"down", "starting", "up"}]
  BY <1>1 DEF Inspect, Kill, Start, Boot, restartVars, deviceVars, forwardVars
<1>4. \/ \E ok \in BOOLEAN : Finish(p, ok)
      \/ \E pc \in {"kill", "start", "boot"} : Goto(p, pc) /\ UNCHANGED opVars
  BY DEF Inspect, Kill, Start, Boot
<1>5. ASSUME NEW ok \in BOOLEAN, Finish(p, ok) PROVE PInv'
  BY <1>2, <1>3, <1>5, FinishLemma
<1>6. ASSUME NEW pc \in {"kill", "start", "boot"}, Goto(p, pc), UNCHANGED opVars PROVE PInv'
  <2>1. pc \in HasLock /\ slots' = slots /\ held' = held
    BY <1>6 DEF HasLock, HasSlot, opVars
  <2> QED BY <1>2, <1>3, <1>6, <2>1, GotoLemma
<1> QED BY <1>4, <1>5, <1>6

\* The proxy that ran a restart moves on: nothing but its channel and its entry in
\* restartInFlight changes.
LEMMA SettleLemma ==
  ASSUME PInv, NEW p \in Proxies, px[p].forced, px[p].pc \in {"report", "forget"},
         NEW r \in Proxy, To(p, r), LocalsFit(r), r.pc \notin HasSlot,
         r.pc \notin {"dial", "piping"},
         slots' = slots, held' = held, gen' = gen, server' = server,
         forwards' = forwards, stuck' = stuck,
         inFlight' \in [Udids -> Attempts \cup {<<>>}],
         chan' \in [Attempts -> {"none", "open", "ok", "err", "drained"}],
         r.forced => r.udid = px[p].udid /\ r.attempt = px[p].attempt /\ inFlight' = inFlight,
         \A u \in Udids \ {px[p].udid} : inFlight'[u] = inFlight[u],
         \A c \in Attempts : chan'[c] = "open" => chan[c] = "open" /\ c # Self(p)
  PROVE  PInv'
<1>1. /\ px \in [Proxies -> Proxy] /\ SlotsFit /\ LocksFit /\ RestartsFit
      /\ ForwardsAreAccountedFor /\ forwards \subseteq Attempts
      /\ \A q \in Proxies : LocalsFit(px[q])
  BY DEF PInv, TypeOK
<1>2. px' \in [Proxies -> Proxy] /\ px'[p] = r /\ \A q \in Proxies : q # p => px'[q] = px[q]
  BY <1>1, ToLemma
<1>3. px[p].pc \notin HasSlot /\ px[p].pc \notin HasLock /\ r.pc \notin HasLock
  BY DEF HasSlot, HasLock
<1>4. SlotsFit'
  BY <1>1, <1>3, SlotLemma DEF SlotsFit
<1>5. LocksFit'
  BY <1>1, <1>3, LockLemma
<1>6. ForwardsAreAccountedFor'
  <2>1. px[p].pc \notin {"dial", "piping"}
    OBVIOUS
  <2> QED BY <1>1, <2>1, ForwardLemma
<1>7. RestartsFit'
  <2>1. \A q \in Proxies : px[q].forced =>
          px[q].udid \in Udids /\ px[q].attempt \in 1 .. MaxAttempts /\ inFlight[px[q].udid] = Self(q)
    BY <1>1 DEF RestartsFit, LocalsFit, HasSlot
  <2>2. ASSUME NEW q \in Proxies, px'[q].forced PROVE inFlight'[px'[q].udid] = Self(q)'
    <3>1. CASE q = p
      BY <1>2, <2>1, <2>2, <3>1 DEF Self
    <3>2. CASE q # p
      <4>1. px'[q] = px[q] /\ px[q].forced /\ Self(q)' = Self(q)
        BY <1>2, <2>2, <3>2 DEF Self
      <4>2. Self(q) # Self(p)
        BY <3>2 DEF Self
      <4>3. px[q].udid \in Udids \ {px[p].udid}
        BY <2>1, <4>1, <4>2
      <4> QED BY <2>1, <4>1, <4>3
    <3> QED BY <3>1, <3>2
  <2>3. ASSUME NEW c \in Attempts, chan'[c] = "open"
        PROVE  px'[c[1]].forced /\ px'[c[1]].pc # "forget" /\ Self(c[1])' = c
    <3>1. c[1] \in Proxies /\ px[c[1]].forced /\ px[c[1]].pc # "forget" /\ Self(c[1]) = c /\ c # Self(p)
      BY <1>1, <2>3 DEF RestartsFit, Attempts
    <3>2. px'[c[1]] = px[c[1]]
      BY <1>2, <3>1
    <3> QED BY <3>1, <3>2 DEF Self
  <2> QED BY <2>2, <2>3 DEF RestartsFit
<1>8. \A q \in Proxies : LocalsFit(px[q])'
  BY <1>1, LocalsLemma
<1>9. TypeOK'
  BY <1>2 DEF PInv, TypeOK
<1> QED BY <1>4, <1>5, <1>6, <1>7, <1>8, <1>9 DEF PInv

\* A restart sends its result and closes its channel, then leaves restartInFlight.
LEMMA SettleStep ==
  ASSUME PInv, NEW p \in Proxies, Report(p) \/ Forget(p)
  PROVE  PInv'
<1>1. /\ px[p] \in Proxy /\ LocalsFit(px[p]) /\ RestartsFit
      /\ inFlight \in [Udids -> Attempts \cup {<<>>}]
      /\ chan \in [Attempts -> {"none", "open", "ok", "err", "drained"}]
  BY DEF PInv, TypeOK
<1>2. px[p].pc \in {"report", "forget"} /\ px[p].forced
  BY <1>1 DEF Report, Forget, At, LocalsFit
<1>3. px[p].udid \in Udids /\ px[p].attempt \in 1 .. MaxAttempts
  BY <1>1, <1>2 DEF LocalsFit
<1>4. Self(p) \in Attempts /\ Self(p)[1] = p
  BY <1>3, AttemptsLemma
<1>5. CASE Report(p)
  <2> DEFINE r == [px[p] EXCEPT !.pc = "forget"]
  <2>1. To(p, r)
    BY <1>5 DEF Report, Goto
  <2>2. /\ r \in Proxy /\ r.pc = "forget" /\ r.forced /\ r.udid = px[p].udid
        /\ r.attempt = px[p].attempt
    BY <1>1, <1>2 DEF Proxy, Pcs
  <2> HIDE DEF r
  <2>3. LocalsFit(r) /\ r.pc \notin HasSlot
    BY <1>3, <2>2 DEF LocalsFit, HasSlot
  <2>4. /\ chan' \in [Attempts -> {"none", "open", "ok", "err", "drained"}]
        /\ \A c \in Attempts : chan'[c] = "open" => chan[c] = "open" /\ c # Self(p)
    BY <1>1, <1>4, <1>5 DEF Report
  <2>5. /\ slots' = slots /\ held' = held /\ gen' = gen /\ server' = server /\ inFlight' = inFlight
        /\ forwards' = forwards /\ stuck' = stuck
    BY <1>5 DEF Report, opVars, deviceVars, forwardVars
  <2> QED BY <1>1, <1>2, <2>1, <2>2, <2>3, <2>4, <2>5, SettleLemma
<1>6. CASE Forget(p)
  <2> DEFINE r == Prepared(p, px[p].ok)
  <2>1. To(p, r) /\ inFlight' = [inFlight EXCEPT ![px[p].udid] = <<>>] /\ px[p].pc = "forget"
    BY <1>6 DEF Forget, At
  <2>2. r \in Proxy /\ LocalsFit(r) /\ r.pc \in {"clean", "prepare", "failed"} /\ ~r.forced
    <3>1. px[p].ok \in BOOLEAN
      BY <1>1 DEF Proxy
    <3> QED BY <1>1, <1>3, <3>1, PreparedLemma
  <2> HIDE DEF r
  <2>3. r.pc \notin HasSlot
    BY <2>2 DEF HasSlot
  <2>4. chan[Self(p)] # "open"
    BY <1>1, <1>4, <2>1 DEF RestartsFit
  <2>5. /\ chan' \in [Attempts -> {"none", "open", "ok", "err", "drained"}]
        /\ \A c \in Attempts : chan'[c] = "open" => chan[c] = "open" /\ c # Self(p)
    BY <1>1, <1>4, <1>6, <2>4 DEF Forget
  <2>6. /\ inFlight' \in [Udids -> Attempts \cup {<<>>}]
        /\ \A u \in Udids \ {px[p].udid} : inFlight'[u] = inFlight[u]
    BY <1>1, <1>3, <2>1
  <2>7. /\ slots' = slots /\ held' = held /\ gen' = gen /\ server' = server
        /\ forwards' = forwards /\ stuck' = stuck
    BY <1>6 DEF Forget, opVars, deviceVars, forwardVars
  <2> QED BY <1>1, <1>2, <2>1, <2>2, <2>3, <2>5, <2>6, <2>7, SettleLemma
<1> QED BY <1>5, <1>6

\* The device WebSocket: a forward is made, dialled, and removed again.
LEMMA ConnectStep ==
  ASSUME PInv, NEW p \in Proxies,
         Clean(p) \/ Forward(p) \/ Dialled(p) \/ DialFails(p) \/ PipeEnds(p)
  PROVE  PInv'
<1>1. /\ px[p] \in Proxy /\ LocalsFit(px[p]) /\ px \in [Proxies -> Proxy]
      /\ ForwardsAreAccountedFor /\ forwards \subseteq Attempts /\ stuck \subseteq Attempts
      /\ chan \in [Attempts -> {"none", "open", "ok", "err", "drained"}]
  BY DEF PInv, TypeOK
<1>2. px[p].pc \in {"clean", "forward", "dial", "piping"}
  BY DEF Clean, Forward, Dialled, DialFails, PipeEnds, At
<1>3. /\ px[p].udid \in Udids /\ px[p].attempt \in 1 .. MaxAttempts /\ ~px[p].forced
      /\ px[p].pc \notin HasSlot
  BY <1>1, <1>2 DEF LocalsFit, HasSlot
<1>4. Self(p) \in Attempts /\ Self(p)[1] = p
  BY <1>3, AttemptsLemma
<1>5. /\ slots' = slots /\ held' = held /\ gen' = gen /\ server' = server /\ inFlight' = inFlight
      /\ chan' = chan
  BY DEF Clean, Forward, Dialled, DialFails, PipeEnds, opVars, restartVars, deviceVars
<1>6. ASSUME NEW r \in Proxy, To(p, r), LocalsFit(r), r.pc \notin HasSlot, ~r.forced,
             forwards' \subseteq Attempts, stuck' \subseteq Attempts, ForwardsAreAccountedFor'
      PROVE  PInv'
  BY <1>1, <1>3, <1>5, <1>6, QuietLemma
\* To another place of the same attempt.
<1>7. ASSUME NEW pc \in {"forward", "dial", "piping"}
      PROVE  LET r == [px[p] EXCEPT !.pc = pc]
             IN  /\ r \in Proxy /\ LocalsFit(r) /\ r.pc = pc /\ r.pc \notin HasSlot /\ ~r.forced
                 /\ r.attempt = px[p].attempt
  <2> DEFINE r == [px[p] EXCEPT !.pc = pc]
  <2>1. /\ r \in Proxy /\ r.pc = pc /\ ~r.forced /\ r.udid = px[p].udid /\ r.attempt = px[p].attempt
    BY <1>1, <1>3 DEF Proxy, Pcs
  <2> HIDE DEF r
  <2>2. LocalsFit(r) /\ r.pc \notin HasSlot
    BY <1>3, <2>1 DEF LocalsFit, HasSlot
  <2>3. /\ r \in Proxy /\ LocalsFit(r) /\ r.pc = pc /\ r.pc \notin HasSlot /\ ~r.forced
        /\ r.attempt = px[p].attempt
    BY <2>1, <2>2
  <2> QED BY <2>3 DEF r
\* To the next attempt, or to the end.
<1>8. LET r == Again(p)
      IN  /\ r \in Proxy /\ LocalsFit(r) /\ r.pc \notin HasSlot /\ ~r.forced
  BY <1>1, <1>3, PreparedLemma DEF HasSlot
<1>9. CASE Clean(p)
  <2> DEFINE r == [px[p] EXCEPT !.pc = "forward"]
  <2>1. /\ To(p, r) /\ px[p].pc = "clean" /\ forwards' \subseteq forwards
        /\ stuck \subseteq stuck' /\ stuck' \subseteq stuck \cup forwards
    BY <1>9 DEF Clean, Goto, At, OfDevice
  <2>2. r \in Proxy /\ LocalsFit(r) /\ r.pc \notin HasSlot /\ ~r.forced
    BY <1>7
  <2> HIDE DEF r
  <2>3. ForwardsAreAccountedFor'
    BY <1>1, <2>1, <2>2, ForwardLemma
  <2>4. forwards' \subseteq Attempts /\ stuck' \subseteq Attempts
    BY <1>1, <2>1
  <2> QED BY <1>6, <2>1, <2>2, <2>3, <2>4
<1>10. CASE Forward(p)
  <2>1. px[p].pc = "forward"
    BY <1>10 DEF Forward, At
  <2>2. CASE Goto(p, "dial") /\ forwards' = forwards \cup {Self(p)} /\ UNCHANGED stuck
    <3> DEFINE r == [px[p] EXCEPT !.pc = "dial"]
    <3>1. To(p, r)
      BY <2>2 DEF Goto
    <3>2. /\ r \in Proxy /\ LocalsFit(r) /\ r.pc = "dial" /\ r.pc \notin HasSlot /\ ~r.forced
          /\ r.attempt = px[p].attempt
      BY <1>7
    <3> HIDE DEF r
    <3>3. px'[p] = r /\ \A q \in Proxies : q # p => px'[q] = px[q]
      BY <1>1, <3>1, <3>2, ToLemma
    <3>4. ASSUME NEW f \in forwards' \ stuck'
          PROVE  Self(f[1])' = f /\ px'[f[1]].pc \in {"dial", "piping"}
      <4>1. CASE f = Self(p)
        BY <1>4, <3>2, <3>3, <4>1 DEF Self
      <4>2. CASE f # Self(p)
        <5>1. f[1] \in Proxies /\ Self(f[1]) = f /\ px[f[1]].pc \in {"dial", "piping"}
          BY <1>1, <2>2, <3>4, <4>2 DEF Attempts, ForwardsAreAccountedFor
        <5>2. f[1] # p
          BY <2>1, <5>1
        <5> QED BY <3>3, <5>1, <5>2 DEF Self
      <4> QED BY <4>1, <4>2
    <3>5. ForwardsAreAccountedFor'
      BY <3>4 DEF ForwardsAreAccountedFor
    <3>6. forwards' \subseteq Attempts /\ stuck' \subseteq Attempts
      BY <1>1, <1>4, <2>2
    <3> QED BY <1>6, <3>1, <3>2, <3>5, <3>6
  <2>3. CASE /\ To(p, Again(p))
             /\ \/ UNCHANGED forwardVars
                \/ forwards' = forwards \cup {Self(p)} /\ stuck' = stuck \cup {Self(p)}
    <3> DEFINE r == Again(p)
    <3>1. To(p, r) /\ r \in Proxy /\ LocalsFit(r) /\ r.pc \notin HasSlot /\ ~r.forced
      BY <1>8, <2>3
    <3> HIDE DEF r
    <3>2. /\ forwards' \subseteq Attempts /\ stuck' \subseteq Attempts
          /\ forwards' \ stuck' \subseteq forwards \ stuck
      BY <1>1, <1>4, <2>3 DEF forwardVars
    <3>3. px'[p] = r /\ \A q \in Proxies : q # p => px'[q] = px[q]
      BY <1>1, <3>1, ToLemma
    <3>4. ASSUME NEW f \in forwards' \ stuck'
          PROVE  Self(f[1])' = f /\ px'[f[1]].pc \in {"dial", "piping"}
      <4>1. f[1] \in Proxies /\ Self(f[1]) = f /\ px[f[1]].pc \in {"dial", "piping"}
        BY <1>1, <3>2 DEF Attempts, ForwardsAreAccountedFor
      <4>2. f[1] # p
        BY <2>1, <4>1
      <4> QED BY <3>3, <4>1, <4>2 DEF Self
    <3>5. ForwardsAreAccountedFor'
      BY <3>4 DEF ForwardsAreAccountedFor
    <3> QED BY <1>6, <3>1, <3>2, <3>5
  <2> QED BY <1>10, <2>2, <2>3 DEF Forward
<1>11. CASE Dialled(p)
  <2> DEFINE r == [px[p] EXCEPT !.pc = "piping"]
  <2>1. To(p, r) /\ forwards' = forwards /\ stuck' = stuck
    BY <1>11 DEF Dialled, Goto, forwardVars
  <2>2. /\ r \in Proxy /\ LocalsFit(r) /\ r.pc = "piping" /\ r.pc \notin HasSlot /\ ~r.forced
        /\ r.attempt = px[p].attempt
    BY <1>7
  <2> HIDE DEF r
  <2>3. ForwardsAreAccountedFor'
    BY <1>1, <2>1, <2>2, ForwardLemma
  <2> QED BY <1>1, <1>6, <2>1, <2>2, <2>3
<1>12. CASE DialFails(p) \/ PipeEnds(p)
  <2>1. PICK r \in Proxy : To(p, r) /\ LocalsFit(r) /\ r.pc \notin HasSlot /\ ~r.forced
    <3>1. CASE DialFails(p)
      BY <1>8, <3>1 DEF DialFails
    <3>2. CASE PipeEnds(p)
      <4> DEFINE r == [Idle EXCEPT !.pc = "ended", !.udid = px[p].udid]
      <4>1. To(p, r)
        BY <3>2 DEF PipeEnds
      <4>2. r \in Proxy /\ r.pc = "ended" /\ ~r.forced
        <5>1. Idle \in Proxy /\ ~Idle.forced
          BY ProxyConstants DEF Idle, Proxy, Pcs
        <5> QED BY <1>3, <5>1 DEF Proxy, Pcs
      <4>3. LocalsFit(r)
        BY DEF LocalsFit, Idle, HasSlot
      <4> HIDE DEF r
      <4> QED BY <4>1, <4>2, <4>3 DEF HasSlot
    <3> QED BY <1>12, <3>1, <3>2
  <2>2. /\ forwards' \subseteq forwards /\ stuck \subseteq stuck' /\ stuck' \subseteq stuck \cup {Self(p)}
        /\ Self(p) \notin forwards' \ stuck'
    BY <1>12 DEF DialFails, PipeEnds, Remove
  <2>3. ForwardsAreAccountedFor'
    BY <1>1, <2>1, <2>2, ForwardLemma
  <2>4. forwards' \subseteq Attempts /\ stuck' \subseteq Attempts
    BY <1>1, <1>4, <2>2
  <2> QED BY <1>6, <2>1, <2>3, <2>4
<1> QED BY <1>9, <1>10, <1>11, <1>12

\* The device's server comes or goes, or the cleanup of main.go evicts its lock.
LEMMA DeviceStep ==
  ASSUME PInv, NEW u \in Udids, ServerChanges(u) \/ CleanDeviceLocks(u)
  PROVE  PInv'
<1>1. /\ px' = px /\ slots' = slots /\ held' = held /\ inFlight' = inFlight /\ chan' = chan
      /\ forwards' = forwards /\ stuck' = stuck
  BY DEF ServerChanges, CleanDeviceLocks, opVars, restartVars, forwardVars
<1>2. /\ gen' \in [Udids -> 0 .. MaxEvictions]
      /\ server' \in [Udids -> {"down", "starting", "up"}]
  <2>1. gen \in [Udids -> 0 .. MaxEvictions] /\ server \in [Udids -> {"down", "starting", "up"}]
    BY DEF PInv, TypeOK
  <2>2. CASE ServerChanges(u)
    BY <2>1, <2>2 DEF ServerChanges
  <2>3. CASE CleanDeviceLocks(u)
    <3>1. gen[u] + 1 \in 0 .. MaxEvictions
      BY <2>1, <2>3, ProxyConstants DEF CleanDeviceLocks
    <3> QED BY <2>1, <2>3, <3>1 DEF CleanDeviceLocks
  <2> QED BY <2>2, <2>3
<1>3. \A p \in Proxies : LocalsFit(px[p])'
  BY <1>1 DEF PInv, LocalsFit
<1>4. (SlotsFit /\ LocksFit /\ RestartsFit /\ ForwardsAreAccountedFor)'
  BY <1>1 DEF PInv, SlotsFit, LocksFit, RestartsFit, Busy, Working, Self, ForwardsAreAccountedFor
<1> QED BY <1>1, <1>2, <1>3, <1>4 DEF PInv, TypeOK

LEMMA NextStep == PInv /\ [Next]_vars => PInv'
<1> SUFFICES ASSUME PInv, [Next]_vars PROVE PInv'
  OBVIOUS
<1>1. ASSUME NEW p \in Proxies,
             \/ \E u \in Udids, restart \in BOOLEAN : Request(p, u, restart)
             \/ Step(p) \/ TakeSlot(p) \/ TakeLock(p) \/ PipeEnds(p)
      PROVE  PInv'
  <2>1. CASE \/ \E u \in Udids, restart \in BOOLEAN : Request(p, u, restart)
             \/ Ensure(p)
             \/ ForceRestart(p) /\ inFlight[px[p].udid] # <<>>
    BY <2>1, PrepareStep
  <2>2. CASE ForceRestart(p) /\ inFlight[px[p].udid] = <<>>
    BY <2>2, RestartStep
  <2>3. CASE Receive(p)
    BY <2>3, ReceiveStep
  <2>4. CASE TakeSlot(p) \/ TakeLock(p)
    BY <2>4, TakeStep
  <2>5. CASE Inspect(p) \/ Kill(p) \/ Start(p) \/ Boot(p)
    BY <2>5, OperationStep
  <2>6. CASE Report(p) \/ Forget(p)
    BY <2>6, SettleStep
  <2>7. CASE Clean(p) \/ Forward(p) \/ Dialled(p) \/ DialFails(p) \/ PipeEnds(p)
    BY <2>7, ConnectStep
  <2> QED BY <1>1, <2>1, <2>2, <2>3, <2>4, <2>5, <2>6, <2>7 DEF Step
<1>2. ASSUME NEW u \in Udids, ServerChanges(u) \/ CleanDeviceLocks(u) PROVE PInv'
  BY <1>2, DeviceStep
<1>3. CASE UNCHANGED vars
  <2>1. \A p \in Proxies : LocalsFit(px[p])'
    BY <1>3 DEF vars, PInv, LocalsFit
  <2>2. (TypeOK /\ SlotsFit /\ LocksFit /\ RestartsFit /\ ForwardsAreAccountedFor)'
    BY <1>3 DEF vars, PInv, TypeOK, SlotsFit, LocksFit, RestartsFit, Busy, Working, Self,
                ForwardsAreAccountedFor
  <2> QED BY <2>1, <2>2 DEF PInv
<1> QED BY <1>1, <1>2, <1>3 DEF Next, AllEnded

-----------------------------------------------------------------------------
(* The theorems.                                                           *)

\* The slots, the mutexes, the restarts and their channels, the forwards and the
\* locals of every goroutine fit each other after every step.
THEOREM ProxiesInductive == Spec => []PInv
<1>1. Init => PInv
  BY InitLemma
<1>2. PInv /\ [Next]_vars => PInv'
  BY NextStep
<1> QED BY <1>1, <1>2, PTL DEF Spec

\* Every variable stays within its type; in particular serverOps never holds more
\* than its capacity, and never less than nothing (server.go:58).
THEOREM TypeCorrect == Spec => []TypeOK
<1>1. PInv => TypeOK
  BY DEF PInv
<1> QED BY <1>1, ProxiesInductive, PTL

\* No way out of a server operation keeps its slot or its mutex, and none gives back
\* one it does not have (server.go:58, 179-236).
THEOREM SlotsAndLocksAreExact == Spec => []SlotsAndLocksExact
<1>1. PInv => SlotsAndLocksExact
  BY DEF PInv, SlotsFit, LocksFit, Busy, Working, SlotsAndLocksExact
<1> QED BY <1>1, ProxiesInductive, PTL

\* Two operations on one device hold two mutexes, whatever was evicted while they ran
\* (server.go:40-56).
THEOREM OperationsAreSerialised == Spec => []OneOperationPerDevice
<1>1. PInv => OneOperationPerDevice
  BY DEF PInv, LocksFit, Working, OneOperationPerDevice
<1> QED BY <1>1, ProxiesInductive, PTL

\* At most one restart of a device runs, and a channel that is open belongs to a restart
\* that has yet to report: nobody waits for one that is gone (server.go:204-236).
THEOREM RestartsAreShared == Spec => []RestartsAreJoined
<1>1. PInv => RestartsAreJoined
  <2> SUFFICES ASSUME PInv PROVE RestartsAreJoined
    OBVIOUS
  <2>1. RestartsFit /\ \A p \in Proxies : LocalsFit(px[p])
    BY DEF PInv
  <2>2. ASSUME NEW p \in Proxies, NEW q \in Proxies, p # q, px[p].udid = px[q].udid
        PROVE  ~(Restarting(p) /\ Restarting(q))
    BY <2>1, <2>2 DEF RestartsFit, Restarting, Self
  <2>3. ASSUME NEW p \in Proxies, At(p, "waiting"), chan[px[p].on] = "open"
        PROVE  Restarting(px[p].on[1]) /\ Self(px[p].on[1]) = px[p].on
    <3>1. px[p].on \in Attempts
      BY <2>1, <2>3 DEF LocalsFit, At
    <3>2. /\ px[p].on[1] \in Proxies /\ px[px[p].on[1]].forced /\ px[px[p].on[1]].pc # "forget"
          /\ Self(px[p].on[1]) = px[p].on
      BY <2>1, <2>3, <3>1 DEF RestartsFit, Attempts
    <3>3. px[px[p].on[1]].pc \in HasSlot \cup {"slot", "report"}
      BY <2>1, <3>2 DEF LocalsFit
    <3> QED BY <3>2, <3>3 DEF Restarting
  <2> QED BY <2>2, <2>3 DEF RestartsAreJoined
<1> QED BY <1>1, ProxiesInductive, PTL

\* A forward that no call of ADB has failed on belongs to an attempt that still dials
\* over it or pipes (proxy.go:67-72, 196-232).
THEOREM ForwardsAreRemoved == Spec => []ForwardsAreAccountedFor
<1>1. PInv => ForwardsAreAccountedFor
  BY DEF PInv
<1> QED BY <1>1, ProxiesInductive, PTL
=============================================================================
