------------------------------ MODULE ProxyAdb ------------------------------
(***************************************************************************)
(* The older stream path of server-go: a WebSocket of the browser is piped *)
(* to the scrcpy server on its device (websocket/proxy.go), over a forward *)
(* of ADB, once that server has been ensured or restarted                  *)
(* (scrcpy/server.go).  Each proxy is a goroutine; a step is the code      *)
(* between two of its calls of ADB, or of its waits for another goroutine. *)
(* Every call of ADB may fail or time out.                                 *)
(***************************************************************************)
EXTENDS Naturals, FiniteSets

CONSTANTS
  Proxies,       \* requests of HandleProxyAdb
  Udids,         \* devices
  MaxOps,        \* capacity of serverOps
  MaxAttempts,   \* maxAttempts of connectDeviceWsWithRecovery
  None,          \* no device
  MaxStuck,      \* bound: forwards ADB loses track of for the code
  MaxEvictions   \* bound: times the lock of a device is evicted

ASSUME ProxyConstants ==
  /\ IsFiniteSet(Proxies) /\ None \notin Udids
  /\ MaxOps \in Nat \ {0} /\ MaxAttempts \in Nat \ {0} /\ MaxEvictions \in Nat /\ MaxStuck \in Nat

VARIABLES
  px,        \* per proxy: its program counter and its locals
  slots,     \* values in the channel serverOps
  gen,       \* per device: how often its entry of deviceLocks was evicted
  held,      \* the mutexes that are locked
  inFlight,  \* restartInFlight: per device, its channel, or <<>>
  chan,      \* per channel: empty, or closed with a result that may be taken
  server,    \* per device: its scrcpy server
  forwards,  \* forwards to tcp:8886 that ADB has
  stuck      \* history: forwards whose removal, or whose adb forward, has failed

vars == <<px, slots, gen, held, inFlight, chan, server, forwards, stuck>>

-----------------------------------------------------------------------------
\* A restart and a forward belong to one attempt of one proxy.  A lock is named
\* by its device and the number of evictions before it was stored.
Attempts == Proxies \X (1 .. MaxAttempts)
Locks == Udids \X (0 .. MaxEvictions)

\* `restart`: this attempt is to force a restart, as every one after the first is.
\* pc: "slot" to "report" are the steps of a server operation, from before
\* withServerOpSlot to the value sent to the channel of a restart; "waiting" is
\* a proxy at the channel of another; "clean" to "dial" make the device WebSocket.
Pcs == {"idle", "prepare", "slot", "lock", "inspect", "kill", "start", "boot", "report",
        "forget", "waiting", "clean", "forward", "dial", "piping", "failed", "ended"}

HasSlot == {"lock", "inspect", "kill", "start", "boot"}
HasLock == HasSlot \ {"lock"}

Proxy == [pc : Pcs, udid : Udids \cup {None}, restart : BOOLEAN, attempt : 0 .. MaxAttempts,
          forced : BOOLEAN, ok : BOOLEAN, lock : Locks \cup {<<>>}, on : Attempts \cup {<<>>}]

Idle == [pc |-> "idle", udid |-> None, restart |-> FALSE, attempt |-> 0,
         forced |-> FALSE, ok |-> FALSE, lock |-> <<>>, on |-> <<>>]

TypeOK ==
  /\ px \in [Proxies -> Proxy]
  /\ slots \in 0 .. MaxOps
  /\ gen \in [Udids -> 0 .. MaxEvictions]
  /\ held \subseteq Locks
  /\ inFlight \in [Udids -> Attempts \cup {<<>>}]
  /\ chan \in [Attempts -> {"none", "open", "ok", "err", "drained"}]
  /\ server \in [Udids -> {"down", "starting", "up"}]
  /\ forwards \subseteq Attempts /\ stuck \subseteq Attempts

Init ==
  /\ px = [p \in Proxies |-> Idle]
  /\ slots = 0
  /\ gen = [u \in Udids |-> 0]
  /\ held = {}
  /\ inFlight = [u \in Udids |-> <<>>]
  /\ chan = [a \in Attempts |-> "none"]
  /\ server \in [Udids -> {"down", "up"}]
  /\ forwards = {} /\ stuck = {}

opVars == <<slots, held>>
restartVars == <<inFlight, chan>>
deviceVars == <<gen, server>>
forwardVars == <<forwards, stuck>>

At(p, pc) == px[p].pc = pc
Self(p) == <<p, px[p].attempt>>
To(p, s) == px' = [px EXCEPT ![p] = s]
Goto(p, pc) == To(p, [px[p] EXCEPT !.pc = pc])

\* The end of an attempt that did not connect.
Again(p) ==
  IF px[p].attempt < MaxAttempts
  THEN [Idle EXCEPT !.pc = "prepare", !.udid = px[p].udid, !.restart = TRUE,
                    !.attempt = px[p].attempt + 1]
  ELSE [Idle EXCEPT !.pc = "failed", !.udid = px[p].udid]

\* The result of prepareScrcpyServerForAttempt; its locals are gone.
Prepared(p, ok) ==
  IF ok THEN [Idle EXCEPT !.pc = "clean", !.udid = px[p].udid, !.attempt = px[p].attempt]
  ELSE Again(p)

-----------------------------------------------------------------------------
(* HandleProxyAdb and prepareScrcpyServerForAttempt.                       *)

Request(p, u, restart) ==
  /\ At(p, "idle")
  /\ To(p, [px[p] EXCEPT !.pc = "prepare", !.udid = u, !.restart = restart, !.attempt = 1])
  /\ UNCHANGED <<opVars, restartVars, deviceVars, forwardVars>>

Ensure(p) ==
  /\ At(p, "prepare") /\ ~px[p].restart
  /\ To(p, [px[p] EXCEPT !.pc = "slot", !.forced = FALSE])
  /\ UNCHANGED <<opVars, restartVars, deviceVars, forwardVars>>

\* Mutant: every caller starts a restart of its own.
ForceRestart_Always(p) ==
  /\ At(p, "prepare") /\ px[p].restart
  /\ To(p, [px[p] EXCEPT !.pc = "slot", !.forced = TRUE])
  /\ inFlight' = [inFlight EXCEPT ![px[p].udid] = Self(p)]
  /\ chan' = [chan EXCEPT ![Self(p)] = "open"]
  /\ UNCHANGED <<opVars, deviceVars, forwardVars>>

\* ForceRestartServer under restartMutex: join the restart in flight, or start one.
ForceRestart(p) ==
  /\ At(p, "prepare") /\ px[p].restart
  /\ LET u == px[p].udid IN
     IF inFlight[u] # <<>>
     THEN /\ To(p, [px[p] EXCEPT !.pc = "waiting", !.on = inFlight[u]])
          /\ UNCHANGED restartVars
     ELSE /\ To(p, [px[p] EXCEPT !.pc = "slot", !.forced = TRUE])
          /\ inFlight' = [inFlight EXCEPT ![u] = Self(p)]
          /\ chan' = [chan EXCEPT ![Self(p)] = "open"]
  /\ UNCHANGED <<opVars, deviceVars, forwardVars>>

\* Somebody else still waits on channel c; one that nobody can reach is forgotten.
Reachable(c, besides) == \E q \in Proxies \ besides : px[q].on = c

\* A waiter takes the one value that was sent, or nil from the closed channel.
Receive(p) ==
  /\ At(p, "waiting") /\ chan[px[p].on] # "open"
  /\ To(p, Prepared(p, chan[px[p].on] # "err"))
  /\ chan' = [chan EXCEPT ![px[p].on] =
                IF Reachable(px[p].on, {p}) \/ px[p].on = inFlight[px[p].udid]
                THEN "drained" ELSE "none"]
  /\ UNCHANGED <<inFlight, opVars, deviceVars, forwardVars>>

-----------------------------------------------------------------------------
(* A server operation: withServerOpSlot, then the lock of the device.      *)

\* The lock is looked up after the slot has been taken.
TakeSlot(p) ==
  /\ At(p, "slot") /\ slots < MaxOps
  /\ slots' = slots + 1
  /\ To(p, [px[p] EXCEPT !.pc = "lock", !.lock = <<px[p].udid, gen[px[p].udid]>>])
  /\ UNCHANGED <<held, restartVars, deviceVars, forwardVars>>

\* Mutant: the mutex of the device is not locked.
TakeLock_NoWait(p) ==
  /\ At(p, "lock")
  /\ held' = held \cup {px[p].lock}
  /\ Goto(p, IF px[p].forced THEN "kill" ELSE "inspect")
  /\ UNCHANGED <<slots, restartVars, deviceVars, forwardVars>>

TakeLock(p) ==
  /\ At(p, "lock") /\ px[p].lock \notin held
  /\ held' = held \cup {px[p].lock}
  /\ Goto(p, IF px[p].forced THEN "kill" ELSE "inspect")
  /\ UNCHANGED <<slots, restartVars, deviceVars, forwardVars>>

\* Mutant: an operation that fails keeps its slot.
Finish_KeepSlot(p, ok) ==
  /\ slots' = IF ok THEN slots - 1 ELSE slots
  /\ held' = held \ {px[p].lock}
  /\ To(p, IF px[p].forced THEN [px[p] EXCEPT !.pc = "report", !.ok = ok, !.lock = <<>>]
           ELSE Prepared(p, ok))

\* The deferred unlock and the deferred receive of the slot.
Finish(p, ok) ==
  /\ slots' = slots - 1
  /\ held' = held \ {px[p].lock}
  /\ To(p, IF px[p].forced THEN [px[p] EXCEPT !.pc = "report", !.ok = ok, !.lock = <<>>]
           ELSE Prepared(p, ok))

\* EnsureServer is content with a server that runs and listens; one that its shell
\* commands miss, because they fail, counts as none.
Inspect(p) ==
  /\ At(p, "inspect")
  /\ \/ server[px[p].udid] = "up" /\ Finish(p, TRUE)
     \/ Goto(p, "kill") /\ UNCHANGED opVars
  /\ UNCHANGED <<restartVars, deviceVars, forwardVars>>

\* The servers found are killed and their files removed; only a restart gives up
\* when that fails.
Kill(p) ==
  /\ At(p, "kill")
  /\ \/ Goto(p, "start") /\ UNCHANGED opVars
     \/ px[p].forced /\ Finish(p, FALSE)
  /\ \/ server' = [server EXCEPT ![px[p].udid] = "down"]
     \/ UNCHANGED server
  /\ UNCHANGED <<gen, restartVars, forwardVars>>

\* startServerUnlocked: the JAR is pushed when it is missing, and app_process run.
Start(p) ==
  /\ At(p, "start")
  /\ \/ Finish(p, FALSE) /\ UNCHANGED server
     \/ /\ Goto(p, "boot") /\ UNCHANGED opVars
        /\ server' = [server EXCEPT ![px[p].udid] = IF @ = "up" THEN "up" ELSE "starting"]
  /\ UNCHANGED <<gen, restartVars, forwardVars>>

\* waitForServer sees the server, or its 30 seconds are over without.
Boot(p) ==
  /\ At(p, "boot")
  /\ \E ok \in BOOLEAN : (ok => server[px[p].udid] = "up") /\ Finish(p, ok)
  /\ UNCHANGED <<restartVars, deviceVars, forwardVars>>

\* Mutant: a restart that failed is not reported to those who wait.
Report_OkOnly(p) ==
  /\ At(p, "report")
  /\ chan' = [chan EXCEPT ![Self(p)] = IF px[p].ok THEN "ok" ELSE @]
  /\ Goto(p, "forget")
  /\ UNCHANGED <<inFlight, opVars, deviceVars, forwardVars>>

\* The result is sent and the channel closed ...
Report(p) ==
  /\ At(p, "report")
  /\ chan' = [chan EXCEPT ![Self(p)] = IF px[p].ok THEN "ok" ELSE "err"]
  /\ Goto(p, "forget")
  /\ UNCHANGED <<inFlight, opVars, deviceVars, forwardVars>>

\* ... and only then the restart leaves restartInFlight, without restartMutex.
Forget(p) ==
  /\ At(p, "forget")
  /\ inFlight' = [inFlight EXCEPT ![px[p].udid] = <<>>]
  /\ chan' = [chan EXCEPT ![Self(p)] = IF Reachable(Self(p), {}) THEN @ ELSE "none"]
  /\ To(p, Prepared(p, px[p].ok))
  /\ UNCHANGED <<opVars, deviceVars, forwardVars>>

-----------------------------------------------------------------------------
(* dialForwardedDeviceWs and the pipe.                                     *)

\* Those that a proxy which has ended has left behind are among them.
OfDevice(u) == {f \in forwards : px[f[1]].udid = u}

\* CleanForwardsForDevice removes the forwards of the device, whosever they are;
\* a removal that fails is ignored.
Clean(p) ==
  /\ At(p, "clean")
  /\ \E gone \in SUBSET OfDevice(px[p].udid) :
       /\ forwards' = forwards \ gone
       /\ stuck' = stuck \cup (OfDevice(px[p].udid) \ gone)
       /\ Cardinality(stuck') <= MaxStuck
  /\ Goto(p, "forward")
  /\ UNCHANGED <<opVars, restartVars, deviceVars>>

\* adb forward; one that times out, or answers without a port, may have made the
\* forward, which nobody removes then.
Forward(p) ==
  /\ At(p, "forward")
  /\ \/ /\ Goto(p, "dial")
        /\ forwards' = forwards \cup {Self(p)} /\ UNCHANGED stuck
     \/ /\ To(p, Again(p)) /\ UNCHANGED forwardVars
     \/ /\ To(p, Again(p)) /\ Cardinality(stuck) < MaxStuck
        /\ forwards' = forwards \cup {Self(p)} /\ stuck' = stuck \cup {Self(p)}
  /\ UNCHANGED <<opVars, restartVars, deviceVars>>

\* RemoveForward: its error is logged.
Remove(p) ==
  \/ forwards' = forwards \ {Self(p)} /\ UNCHANGED stuck
  \/ /\ Cardinality(stuck) < MaxStuck
     /\ stuck' = stuck \cup {Self(p)} /\ UNCHANGED forwards

Dialled(p) ==
  /\ At(p, "dial")
  /\ server[px[p].udid] = "up" /\ Self(p) \in forwards
  /\ Goto(p, "piping")
  /\ UNCHANGED <<opVars, restartVars, deviceVars, forwardVars>>

\* Mutant: the forward of a dial that failed stays.
DialFails_KeepForward(p) ==
  /\ At(p, "dial")
  /\ To(p, Again(p))
  /\ UNCHANGED <<forwardVars, opVars, restartVars, deviceVars>>

DialFails(p) ==
  /\ At(p, "dial")
  /\ Remove(p)
  /\ To(p, Again(p))
  /\ UNCHANGED <<opVars, restartVars, deviceVars>>

\* One of the two sockets closes; both are closed and the forward removed.
PipeEnds(p) ==
  /\ At(p, "piping")
  /\ Remove(p)
  /\ To(p, [Idle EXCEPT !.pc = "ended", !.udid = px[p].udid])
  /\ UNCHANGED <<opVars, restartVars, deviceVars>>

-----------------------------------------------------------------------------
(* The device, and the cleanup goroutine of main.go.                       *)

ServerChanges(u) ==
  /\ \/ server[u] = "starting" /\ server' = [server EXCEPT ![u] = "up"]
     \/ server[u] # "down" /\ server' = [server EXCEPT ![u] = "down"]
  /\ UNCHANGED <<px, opVars, gen, restartVars, forwardVars>>

\* The tracker does not list the device as online: its entry is deleted, whether the
\* mutex is locked or not.
CleanDeviceLocks(u) ==
  /\ gen[u] < MaxEvictions
  /\ gen' = [gen EXCEPT ![u] = @ + 1]
  /\ UNCHANGED <<px, opVars, server, restartVars, forwardVars>>

\* Every request of this instance has been served.
AllEnded == (\A p \in Proxies : px[p].pc \in {"failed", "ended"}) /\ UNCHANGED vars

-----------------------------------------------------------------------------
Step(p) ==
  \/ Ensure(p) \/ ForceRestart(p) \/ Receive(p)
  \/ Inspect(p) \/ Kill(p) \/ Start(p) \/ Boot(p) \/ Report(p) \/ Forget(p)
  \/ Clean(p) \/ Forward(p) \/ Dialled(p) \/ DialFails(p)

Next ==
  \/ \E p \in Proxies :
       \/ \E u \in Udids, restart \in BOOLEAN : Request(p, u, restart)
       \/ Step(p) \/ TakeSlot(p) \/ TakeLock(p) \/ PipeEnds(p)
  \/ \E u \in Udids : ServerChanges(u) \/ CleanDeviceLocks(u)
  \/ AllEnded

Spec == Init /\ [][Next]_vars

\* Goroutines run and every call of ADB ends, by its timeout if not before.  The
\* senders of a channel and the waiters of a sync.Mutex are served in order, so
\* that neither starves.
Fairness ==
  \A p \in Proxies : WF_vars(Step(p)) /\ SF_vars(TakeSlot(p)) /\ SF_vars(TakeLock(p))

FairSpec == Spec /\ Fairness

-----------------------------------------------------------------------------
(* Properties.                                                             *)

\* The slots in use are those of the operations that run, and the mutexes locked
\* are those of the operations past their lock: no error path between the slot,
\* the lock and the results of a restart keeps either (server.go:58, 179-236).
SlotsAndLocksExact ==
  /\ slots = Cardinality({p \in Proxies : px[p].pc \in HasSlot})
  /\ held = {px[p].lock : p \in {q \in Proxies : px[q].pc \in HasLock}}

\* Two operations work on one device at once only if its lock was evicted between
\* them, that is, if the tracker lost sight of the device while the first one ran
\* (server.go:40-56): then each has a mutex of its own.
OneOperationPerDevice ==
  \A p, q \in Proxies :
    p # q /\ px[p].udid = px[q].udid /\ {px[p].pc, px[q].pc} \subseteq HasLock
      => px[p].lock # px[q].lock

Restarting(p) == px[p].forced /\ px[p].pc \in HasSlot \cup {"slot", "report"}

\* Restarts of a device are joined: one runs at a time, even when locks have been
\* evicted; and whoever waits on a channel that is still open waits for a restart
\* that is under way (server.go:204-236).
RestartsAreJoined ==
  /\ \A p, q \in Proxies :
       p # q /\ px[p].udid = px[q].udid => ~(Restarting(p) /\ Restarting(q))
  /\ \A p \in Proxies :
       At(p, "waiting") /\ chan[px[p].on] = "open" =>
         LET q == px[p].on[1] IN Restarting(q) /\ Self(q) = px[p].on

\* A forward outlives the attempt it was made for only if a call of ADB failed:
\* neither a failed dial nor a closed pipe leaves one (proxy.go:67-72, 196-232).
ForwardsAreAccountedFor ==
  \A f \in forwards \ stuck :
    Self(f[1]) = f /\ px[f[1]].pc \in {"dial", "piping"}

\* A browser that asks for a device is connected or told that it cannot be, however
\* many others hold the slots, the lock or a restart of the device
\* (connectDeviceWsWithRecovery, proxy.go:151).
EveryRequestIsAnswered ==
  \A p \in Proxies : At(p, "prepare") ~> px[p].pc \in {"piping", "failed", "ended"}
=============================================================================
