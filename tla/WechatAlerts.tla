---------------------------- MODULE WechatAlerts ----------------------------
(***************************************************************************)
(* WeChat notifications from the phone to the badge of a tile: the helper  *)
(* on the phone writes lines to its log, a collector of server-go per      *)
(* device reads them (wechat_notify.go), the hub publishes them to the     *)
(* bounded channel of each subscriber, and the page of the browser keeps   *)
(* one alert per profile (useWechatNotifications.ts).                      *)
(*                                                                         *)
(* There is one page, with one event stream at a time.  Timers of the hub  *)
(* and of a collector's retries may fire at any time, so the hub's wake    *)
(* channel, which only makes the next run come sooner, is left out.        *)
(***************************************************************************)
EXTENDS Naturals, Sequences, FiniteSets, SequencesExt

CONSTANTS
  Udids,        \* devices
  Users,        \* Android users that have WeChat: the profiles
  KeysPerUser,  \* bound: notifications a profile can show at once
  ChanCap,      \* capacity of a subscriber's channel (64)
  SeenCap,      \* event ids the page remembers (1000)
  MaxPosts,     \* bound: notifications ever posted
  MaxLosses,    \* bound: devices, event streams and processes that are lost
  MaxLag,       \* bound: lines a collector is behind when the helper logs
  Slots,        \* bound: collector goroutines at one time
  Streams,      \* bound: event streams the server knows of at one time
  None

ASSUME AlertConstants ==
  /\ IsFiniteSet(Udids) /\ IsFiniteSet(Users)
  /\ {KeysPerUser, ChanCap, SeenCap} \subseteq Nat \ {0} /\ {MaxPosts, MaxLag, MaxLosses} \subseteq Nat
  /\ None \notin Slots /\ None \notin Streams

\* A notification key belongs to a profile; an event id is the number of its post.
Keys == Users \X (1 .. KeysPerUser)
UserOf(k) == k[1]
Ids == 1 .. MaxPosts

\* A line of the helper: POSTED and ACTIVE, which everybody treats alike, have an
\* event id, REMOVED has none: 0.
Lines == [key : Keys, id : Ids \cup {0}]
Events == [udid : Udids, key : Keys, id : Ids \cup {0}]

VARIABLES
  shown,      \* phone: per device and key, the id of its notification, or 0
  enabled,    \* phone: the devices and profiles whose listener is enabled
  last,       \* phone: per device, <<>> or the last line of its log
  posts,      \* ids given so far
  losses,     \* devices, event streams and processes lost so far
  tracker,    \* devices the tracker has as online
  running,    \* hub.collectors: per device, the collector its cancel belongs to
  collector,  \* per slot: a goroutine of collectDevice
  stream,     \* per stream: a handler of handleEvents and its subscriber
  conn,       \* page: its EventSource's stream, or None
  monitored,  \* page: registeredUdids
  seen,       \* page: seenEventIdsRef, oldest first
  alerts,     \* page: per device and profile, its alert, or None
  sounded,    \* history: per event, 0 or the sounds since its own, that one included
  repeated,   \* history: events that sounded again too early
  blamed      \* history: notifications of which a line was lost, or came late

phoneVars == <<shown, enabled, last, posts>>
hubVars == <<tracker, running>>
pageVars == <<conn, monitored, seen, alerts, sounded, repeated>>
vars == <<phoneVars, hubVars, collector, stream, pageVars, blamed, losses>>

\* pc: "listing" profiles, logcat being "started", "reading" it; "none": no
\* goroutine.  `alive`: its adb process; `todo`: lines that wait to be scanned;
\* `ensure`: the profiles its ensureMonhelperWechatProfiles has still to come to.
Collector ==
  [pc : {"none", "listing", "started", "reading"}, udid : Udids \cup {None},
   cancelled : BOOLEAN, alive : BOOLEAN, todo : Seq(Lines), ensure : SUBSET Users]

NoCollector == [pc |-> "none", udid |-> None, cancelled |-> FALSE, alive |-> FALSE,
                todo |-> <<>>, ensure |-> {}]

\* "left": the browser has closed it, its handler does not know yet.
Stream == [state : {"none", "open", "left"}, allowed : SUBSET Udids, events : Seq(Events)]

NoStream == [state |-> "none", allowed |-> {}, events |-> <<>>]

TypeOK ==
  /\ shown \in [Udids -> [Keys -> 0 .. MaxPosts]]
  /\ enabled \subseteq Udids \X Users /\ tracker \subseteq Udids /\ monitored \subseteq Udids
  /\ last \in [Udids -> Lines \cup {<<>>}]
  /\ posts \in 0 .. MaxPosts /\ losses \in 0 .. MaxLosses
  /\ running \in [Udids -> Slots \cup {None}]
  /\ collector \in [Slots -> Collector]
  /\ stream \in [Streams -> Stream] /\ \A s \in Streams : Len(stream[s].events) <= ChanCap
  /\ conn \in Streams \cup {None}
  /\ seen \in Seq(Udids \X Ids) /\ Len(seen) <= SeenCap
  /\ alerts \in [Udids \X Users -> Events \cup {None}]
  /\ sounded \in [Udids \X Ids -> 0 .. SeenCap + 1] /\ repeated \subseteq Udids \X Ids
  /\ blamed \subseteq Udids \X Keys

Init ==
  /\ shown = [d \in Udids |-> [k \in Keys |-> 0]]
  /\ enabled = {} /\ tracker = {} /\ monitored = {} /\ blamed = {}
  /\ last = [d \in Udids |-> <<>>]
  /\ posts = 0 /\ losses = 0
  /\ conn = None
  /\ running = [d \in Udids |-> None]
  /\ collector = [c \in Slots |-> NoCollector]
  /\ stream = [s \in Streams |-> NoStream]
  /\ seen = <<>> /\ repeated = {}
  /\ sounded = [e \in Udids \X Ids |-> 0]
  /\ alerts = [p \in Udids \X Users |-> None]

-----------------------------------------------------------------------------
Lose == losses < MaxLosses /\ losses' = losses + 1

-----------------------------------------------------------------------------
(* The phone.  A line goes to every adb process that reads the log by then. *)

KeysOf(ls) == {l.key : l \in ToSet(ls)}

Blame(d, ks) == blamed' = blamed \cup ({d} \X ks)

Readers(d) == {c \in Slots : collector[c].udid = d /\ collector[c].pc = "reading" /\ collector[c].alive}

\* The helper logs the lines ls, given the collectors as cs has them.
Logged(d, ls, cs) ==
  /\ \A c \in Readers(d) : Len(cs[c].todo) + Len(ls) <= MaxLag
  /\ collector' = [c \in Slots |-> IF c \in Readers(d) THEN [cs[c] EXCEPT !.todo = @ \o ls] ELSE cs[c]]
  /\ last' = IF ls = <<>> THEN last ELSE [last EXCEPT ![d] = Last(ls)]
  /\ Blame(d, IF Readers(d) = {} THEN KeysOf(ls) ELSE {})

\* A notification of key k is posted, or replaced by a new one.
Post(d, k) ==
  /\ posts < MaxPosts /\ posts' = posts + 1
  /\ shown' = [shown EXCEPT ![d][k] = posts + 1]
  /\ IF <<d, UserOf(k)>> \in enabled
     THEN Logged(d, <<[key |-> k, id |-> posts + 1]>>, collector)
     ELSE Blame(d, {k}) /\ UNCHANGED <<collector, last>>
  /\ UNCHANGED <<enabled, hubVars, stream, pageVars, losses>>

Withdraw(d, k) ==
  /\ shown[d][k] # 0
  /\ shown' = [shown EXCEPT ![d][k] = 0]
  /\ IF <<d, UserOf(k)>> \in enabled
     THEN Logged(d, <<[key |-> k, id |-> 0]>>, collector)
     ELSE Blame(d, {k}) /\ UNCHANGED <<collector, last>>
  /\ UNCHANGED <<enabled, posts, hubVars, stream, pageVars, losses>>

\* ensureMonhelperWechatProfiles, in a goroutine that no cancel reaches: the
\* listener that it enables for a profile logs what that shows.  It may fail for a
\* profile, or for all, and find the listener enabled and change nothing.
Ensure(c) ==
  LET d == collector[c].udid
      shownNow(u) == {k \in Keys : UserOf(k) = u /\ shown[d][k] # 0}
      active == [k \in Keys |-> [key |-> k, id |-> shown[d][k]]]
      left(rest) == [collector EXCEPT
        ![c].ensure = rest,
        ![c].udid = IF collector[c].pc = "none" /\ rest = {} THEN None ELSE d]
  IN
  /\ \/ /\ \E rest \in (SUBSET collector[c].ensure) \ {collector[c].ensure} : collector' = left(rest)
        /\ UNCHANGED <<enabled, last, blamed>>
     \/ \E u \in collector[c].ensure :
          /\ enabled' = enabled \cup {<<d, u>>}
          /\ \E order \in SetToSeqs(shownNow(u)) :
               Logged(d, [i \in DOMAIN order |-> active[order[i]]], left(collector[c].ensure \ {u}))
  /\ UNCHANGED <<shown, posts, hubVars, stream, pageVars, losses>>

-----------------------------------------------------------------------------
(* The hub.                                                                *)

\* pollDevices: the devices adb reports.
Poll ==
  /\ \E S \in SUBSET Udids :
       /\ S # tracker /\ tracker' = S
       /\ IF tracker \subseteq S THEN UNCHANGED losses ELSE Lose
  /\ UNCHANGED <<phoneVars, running, collector, stream, pageVars, blamed>>

Known(s) == stream[s].state # "none"

Desired == {d \in tracker : \E s \in Streams : Known(s) /\ d \in stream[s].allowed}

\* Mutant: a cancelled collector stays in the map.
Unwanted_KeepInMap(desired) == running

\* The map without the collectors that are cancelled.
Unwanted(desired) == [d \in Udids |-> IF d \in desired THEN running[d] ELSE None]

\* Mutant: a collector is started although one runs.
ToStart_All(desired) == desired

ToStart(desired) == {d \in desired : running[d] = None}

\* Cancel what is no longer desired and start what is missing.  The tracker is read
\* before the hub's mutex is taken; a poll in between might as well come after.
Reconcile ==
  /\ LET free == {c \in Slots : collector[c].pc = "none" /\ collector[c].ensure = {}}
         start == ToStart(Desired)
     IN \E new \in [start -> free] :
          /\ \A d, e \in start : new[d] = new[e] => d = e
          /\ running' = [d \in Udids |-> IF d \in start THEN new[d] ELSE Unwanted(Desired)[d]]
          /\ collector' =
               [c \in Slots |->
                  IF \E d \in start : new[d] = c
                  THEN [NoCollector EXCEPT !.pc = "listing", !.udid = CHOOSE d \in start : new[d] = c]
                  ELSE [collector[c] EXCEPT
                          !.cancelled = @ \/ \E d \in Udids \ Desired : running[d] = c]]
  /\ UNCHANGED <<phoneVars, tracker, stream, pageVars, blamed, losses>>

-----------------------------------------------------------------------------
(* A collector.                                                            *)

\* The goroutine returns; its ensure may still run.
Ended(r) == [NoCollector EXCEPT !.ensure = r.ensure, !.udid = IF r.ensure = {} THEN None ELSE r.udid]

\* The profiles that have WeChat, those the listing finds, get an ensure; logcat is
\* started, which fails once cancelled.
StartLogcat(c) ==
  /\ collector[c].pc = "listing"
  /\ \E profiles \in (SUBSET Users) \ {{}} :
       collector' = [collector EXCEPT ![c] =
         IF @.cancelled THEN Ended(@)
         ELSE [@ EXCEPT !.pc = "started", !.alive = TRUE, !.ensure = collector[c].ensure \cup profiles]]
  /\ UNCHANGED <<phoneVars, hubVars, stream, pageVars, blamed, losses>>

\* adb reads the log from its last line on (-T 1).
Attach(c) ==
  /\ collector[c].pc = "started" /\ collector[c].alive
  /\ collector' = [collector EXCEPT
       ![c].pc = "reading",
       ![c].todo = IF last[collector[c].udid] = <<>> THEN <<>> ELSE <<last[collector[c].udid]>>]
  /\ UNCHANGED <<phoneVars, hubVars, stream, pageVars, blamed, losses>>

\* The process ends, killed by the cancel or with the connection; what it has not
\* handed over is lost.
Dies(c) ==
  /\ collector[c].alive
  /\ IF collector[c].cancelled THEN UNCHANGED losses ELSE Lose
  /\ \E n \in 0 .. Len(collector[c].todo) :
       /\ collector' = [collector EXCEPT
            ![c].alive = FALSE, ![c].pc = "reading",
            ![c].todo = SubSeq(@, 1, n)]
       /\ Blame(collector[c].udid, KeysOf(SubSeq(collector[c].todo, n + 1, Len(collector[c].todo))))
  /\ UNCHANGED <<phoneVars, hubVars, stream, pageVars>>

\* The subscribers publish offers an event of d.
Reached(d) == {s \in Streams : Known(s) /\ d \in stream[s].allowed}

\* Mutant: a full channel takes one more.
Open_Always(s) == TRUE

Open(s) == Len(stream[s].events) < ChanCap

\* publish: a full channel drops the event.
Publish(c) ==
  /\ collector[c].pc = "reading" /\ collector[c].todo # <<>>
  /\ LET d == collector[c].udid
         l == Head(collector[c].todo)
         event == [udid |-> d, key |-> l.key, id |-> l.id]
         got == {s \in Reached(d) : Open(s)}
     IN /\ stream' = [s \in Streams |->
             IF s \in got THEN [stream[s] EXCEPT !.events = Append(@, event)] ELSE stream[s]]
        /\ Blame(d, IF collector[c].cancelled \/ conn \notin got THEN {l.key} ELSE {})
  /\ collector' = [collector EXCEPT ![c].todo = Tail(@)]
  /\ UNCHANGED <<phoneVars, hubVars, pageVars, losses>>

\* The scanner is at its end: return when cancelled, or begin again after 2 s.
ScanEnds(c) ==
  /\ collector[c].pc = "reading" /\ ~collector[c].alive /\ collector[c].todo = <<>>
  /\ collector' = [collector EXCEPT ![c] =
       IF @.cancelled THEN Ended(@) ELSE [@ EXCEPT !.pc = "listing"]]
  /\ UNCHANGED <<phoneVars, hubVars, stream, pageVars, blamed, losses>>

\* handleEvents returns once its request's context is done: unsubscribe.
HandlerReturns(s) ==
  /\ stream[s].state = "left"
  /\ stream' = [stream EXCEPT ![s] = NoStream]
  /\ UNCHANGED <<phoneVars, hubVars, collector, pageVars, blamed, losses>>

-----------------------------------------------------------------------------
(* The page.                                                               *)

\* The EventSource is closed, by the effect's cleanup or by the network.
Leave ==
  /\ conn' = None
  /\ IF conn = None THEN UNCHANGED <<stream, blamed>>
     ELSE /\ stream' = [stream EXCEPT ![conn].state = "left", ![conn].events = <<>>]
          /\ blamed' = blamed \cup {<<e.udid, e.key>> : e \in ToSet(stream[conn].events)}

\* Another set of registered devices: the effect runs again.
Monitor ==
  /\ \E S \in SUBSET Udids : S # monitored /\ monitored' = S
  /\ IF conn = None THEN UNCHANGED losses ELSE Lose
  /\ Leave
  /\ UNCHANGED <<phoneVars, hubVars, collector, seen, alerts, sounded, repeated>>

Disconnect ==
  /\ Lose
  /\ conn # None
  /\ Leave
  /\ UNCHANGED <<phoneVars, hubVars, collector, monitored, seen, alerts, sounded, repeated>>

\* The EventSource connects, or reconnects, and its handler subscribes.
Connect ==
  /\ conn = None /\ monitored # {}
  /\ \E s \in Streams :
       /\ ~Known(s) /\ conn' = s
       /\ stream' = [stream EXCEPT ![s] = [state |-> "open", allowed |-> monitored, events |-> <<>>]]
  /\ UNCHANGED <<phoneVars, hubVars, collector, monitored, seen, alerts, sounded, repeated, blamed, losses>>

\* Mutant: the event's id, not the notification's key, is compared.
Cleared_ById(d, u, key) == [alerts EXCEPT ![<<d, u>>] = IF @ # None /\ @.id = 0 THEN None ELSE @]

\* clearWechatAlert, for the notification of a key.
Cleared(d, u, key) ==
  [alerts EXCEPT ![<<d, u>>] = IF @ # None /\ @.key = key THEN None ELSE @]

\* clearWechatAlert, for the whole profile.
ClearedAll(d, u) == [alerts EXCEPT ![<<d, u>>] = None]

\* Mutant: the newest id is forgotten.
Remembered_DropNewest(id) ==
  IF Len(seen) = SeenCap THEN seen ELSE Append(seen, id)

\* seenEventIdsRef with one more id, without its oldest when there are too many.
Remembered(id) ==
  LET all == Append(seen, id) IN IF Len(all) > SeenCap THEN Tail(all) ELSE all

\* History of playAlertSound; the count of other sounds stops at SeenCap.
Sound(id) ==
  /\ sounded' = [e \in DOMAIN sounded |->
       IF e = id THEN 1
       ELSE IF sounded[e] \in 1 .. SeenCap THEN sounded[e] + 1 ELSE sounded[e]]
  /\ repeated' = IF sounded[id] \in 1 .. SeenCap THEN repeated \cup {id} ELSE repeated

\* Mutant: the key of seenEventIdsRef lacks the event's id.
Seen_WithoutId(e) == \E id \in Ids : <<e.udid, id>> \in ToSet(seen)

Seen(e) == <<e.udid, e.id>> \in ToSet(seen)

\* handleEvent.
Handle ==
  /\ conn # None /\ stream[conn].events # <<>>
  /\ LET e == Head(stream[conn].events)
         id == <<e.udid, e.id>>
     IN \/ /\ e.id = 0
           /\ alerts' = Cleared(e.udid, UserOf(e.key), e.key)
           /\ UNCHANGED <<seen, sounded, repeated>>
        \/ /\ e.id # 0 /\ Seen(e)
           /\ UNCHANGED <<seen, alerts, sounded, repeated>>
        \/ /\ e.id # 0 /\ ~Seen(e)
           /\ seen' = Remembered(id)
           /\ alerts' = [alerts EXCEPT ![<<e.udid, UserOf(e.key)>>] = e]
           /\ Sound(id)
  /\ stream' = [stream EXCEPT ![conn].events = Tail(@)]
  /\ UNCHANGED <<phoneVars, hubVars, collector, conn, monitored, blamed, losses>>

\* openWechatAlert after openApp, or acknowledgeFocusedWechatAlert after dumpsys: the
\* profile's alert goes, also one that came while the call was awaited.
Acknowledge(d, u) ==
  /\ alerts[<<d, u>>] # None
  /\ alerts' = ClearedAll(d, u)
  /\ UNCHANGED <<phoneVars, hubVars, collector, stream, conn, monitored, seen, sounded, repeated, blamed, losses>>

-----------------------------------------------------------------------------
Next ==
  \/ \E d \in Udids : (\E k \in Keys : Post(d, k) \/ Withdraw(d, k)) \/ (\E u \in Users : Acknowledge(d, u))
  \/ \E c \in Slots : \/ Ensure(c) \/ StartLogcat(c) \/ Attach(c) \/ Dies(c)
                      \/ Publish(c) \/ ScanEnds(c)
  \/ \E s \in Streams : HandlerReturns(s)
  \/ Poll \/ Reconcile
  \/ Monitor \/ Disconnect \/ Connect \/ Handle

Spec == Init /\ [][Next]_vars

\* The hub's ticker fires, its goroutine and the collectors run, the handler of a
\* closed stream is told, calls of adb return, and a process that is killed ends.
\* Nothing is asked of the phone, the tracker or the page.
Fairness ==
  /\ WF_vars(Reconcile)
  /\ \A s \in Streams : WF_vars(HandlerReturns(s))
  /\ \A c \in Slots : /\ WF_vars(Ensure(c)) /\ WF_vars(StartLogcat(c)) /\ WF_vars(Publish(c))
                      /\ WF_vars(ScanEnds(c))
                      /\ WF_vars(collector[c].cancelled /\ Dies(c))

FairSpec == Spec /\ Fairness

-----------------------------------------------------------------------------
(* Properties.                                                             *)

Live(d) == {c \in Slots : /\ collector[c].pc # "none" /\ collector[c].udid = d
                          /\ ~collector[c].cancelled}

\* A device never has two collectors that are not cancelled, and the one it has is
\* the one the hub's map can cancel (reconcileCollectors).
OneLiveCollector ==
  \A d \in Udids : Live(d) = IF running[d] = None THEN {} ELSE {running[d]}

\* An event sounds again, when a second collector, a replay of the log's last line
\* or an ACTIVE line repeats it, only after SeenCap other events (handleEvent).
SoundsOnce == repeated = {}

\* Lines on their way to the page about a notification of d.
Coming(d, k) ==
  \/ \E c \in Slots : collector[c].udid = d /\ k \in KeysOf(collector[c].todo)
  \/ conn # None /\ \E e \in ToSet(stream[conn].events) : e.udid = d /\ e.key = k

\* An alert whose notification the phone no longer shows has the news on its way,
\* unless a line about it was lost or came late: dropped by a full channel, logged
\* while nothing read the log, or in a stream or a process that ended.
StaleAlertsAreExplained ==
  \A d \in Udids, u \in Users :
    LET a == alerts[<<d, u>>] IN
    (a # None /\ shown[d][a.key] # a.id) => (Coming(d, a.key) \/ <<d, a.key>> \in blamed)

\* A notification the phone shows has sounded in the page, or is on its way to it,
\* unless a line about it was lost.
NotificationsArrive ==
  \A d \in Udids, k \in Keys :
    shown[d][k] # 0 =>
      \/ sounded[<<d, shown[d][k]>>] # 0
      \/ Coming(d, k)
      \/ <<d, k>> \in blamed

\* A device that stays online and monitored gets a collector and keeps it; one that
\* does not is left by all its collectors (run, reconcileCollectors, collectDevice).
CollectorsFollow ==
  \A d \in Udids :
    /\ <>[](d \in Desired) => <>[](Live(d) # {})
    /\ <>[](d \notin Desired) => <>[](\A c \in Slots : collector[c].udid # d)
=============================================================================
