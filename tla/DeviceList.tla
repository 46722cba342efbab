----------------------------- MODULE DeviceList -----------------------------
(***************************************************************************)
(* How a phone comes to have a tile: the tracker polls ADB                 *)
(* (adb/tracker.go), a loop per WebSocket turns what it knows into a list  *)
(* (websocket/devicelist.go), and the page merges the USB serial and the   *)
(* Wi-Fi endpoint of a phone into one device (App.tsx).  The serial behind *)
(* an endpoint is asked from the phone or remembered, in memory and on     *)
(* disk (adb/wifi_mapping.go); requests of the page connect and disconnect *)
(* phones over Wi-Fi (device_connect.go).                                  *)
(*                                                                         *)
(* A step of the server is the code of a goroutine between two calls of    *)
(* ADB; the server may stop before any of them and start again.            *)
(***************************************************************************)
EXTENDS Naturals, FiniteSets

CONSTANTS
  Serials,      \* phones, named as ADB names them over USB
  Endpoints,    \* the addresses, with port, at which they may be
  Loops,        \* goroutines of HandleSimpleDevicesList
  None,         \* no phone, no endpoint, no loop
  Broken,       \* a mapping file that cannot be parsed
  MaxChanges,   \* bound: phones plugged, unplugged or moved, links dropped
  MaxRequests,  \* bound: requests of /api/devices/connect
  MaxStops,     \* bound: restarts of the server
  MaxFaults     \* bound: writes of wifi_mapping.json that fail

ASSUME DeviceConstants ==
  /\ Serials \cap Endpoints = {} /\ None \notin Serials \cup Endpoints \cup Loops
  /\ Broken \notin [Endpoints -> Serials \cup {None}]
  /\ {MaxChanges, MaxRequests, MaxStops, MaxFaults} \subseteq Nat

VARIABLES
  phone,     \* per serial: its USB cable, its address, and whether it listens there
  link,      \* per endpoint: its state in `adb devices`
  tracked,   \* Tracker.devices: what is online
  mapping,   \* WifiEndpointToSerial
  disk,      \* wifi_mapping.json, or Broken
  failed,    \* resolveFailedCache, but for what is older than resolveRetryAfter
  loop,      \* per loop: its program counter and its locals
  req,       \* the request under way
  page,      \* the page: remoteDevices, remoteDeviceLastSeenRef, its WebSocket
  spent      \* the counters of the bounds

phoneVars == <<phone, link>>
serverVars == <<tracked, mapping, disk, failed>>
vars == <<phoneVars, serverVars, loop, req, page, spent>>

-----------------------------------------------------------------------------
Ids == Serials \cup Endpoints
Mappings == [Endpoints -> Serials \cup {None}]

\* A list has at most one entry per id: the serial of the phone behind it, or None.
Lists == [Ids -> Serials \cup {None}]
EmptyList == [i \in Ids |-> None]
NoMapping == [e \in Endpoints |-> None]

\* pc: "begin" before a list, "resolve" between two entries, "asking" within
\* getprop, "storing" before RememberWifiEndpoint.
Loop == [pc : {"none", "begin", "resolve", "asking", "storing"}, todo : SUBSET Endpoints,
         key : Endpoints \cup {None}, answer : Serials \cup {None}, list : Lists]

NoLoop == [pc |-> "none", todo |-> {}, key |-> None, answer |-> None, list |-> EmptyList]

\* pc: before the calls of connectDeviceWifi ("ip" to "remember") and of
\* disconnectDeviceWifi ("disconnect", "forget"); "connected" before the
\* reply, which the page merges or not.
Req == [pc : {"none", "ip", "tcpip", "connect", "check", "remember", "connected",
              "disconnect", "forget"},
        serial : Serials \cup {None}, endpoint : Endpoints \cup {None}, merge : BOOLEAN]

NoReq == [pc |-> "none", serial |-> None, endpoint |-> None, merge |-> FALSE]

\* RemoteDevice: its endpoints; one with neither is not in remoteDevices.
Device == [adb : BOOLEAN, wifi : Endpoints \cup {None}]
Absent == [adb |-> FALSE, wifi |-> None]

Page == [dev : [Serials -> Device], seen : SUBSET Serials, ws : Loops \cup {None}]

Spent == [changes : 0 .. MaxChanges, requests : 0 .. MaxRequests,
          stops : 0 .. MaxStops, faults : 0 .. MaxFaults]

TypeOK ==
  /\ phone \in [Serials -> [usb : BOOLEAN, at : Endpoints \cup {None}, tcp : BOOLEAN]]
  /\ link \in [Endpoints -> {"none", "offline", "device"}]
  /\ tracked \subseteq Ids
  /\ mapping \in Mappings /\ disk \in Mappings \cup {Broken}
  /\ failed \subseteq Endpoints
  /\ loop \in [Loops -> Loop]
  /\ req \in Req
  /\ page \in Page
  /\ spent \in Spent

\* The phone that ADB can reach at e.
Listening(e) == {s \in Serials : phone[s].at = e /\ phone[s].tcp}

\* Phones are plugged in, perhaps with an address; ADB may still have links to some
\* from before, but nothing has been remembered.
Init ==
  /\ phone \in [Serials -> [usb : {TRUE}, at : Endpoints \cup {None}, tcp : BOOLEAN]]
  /\ \A s, t \in Serials : s # t /\ phone[s].at # None => phone[s].at # phone[t].at
  /\ \A s \in Serials : phone[s].tcp => phone[s].at # None
  /\ link = [e \in Endpoints |-> IF Listening(e) = {} THEN "none" ELSE "device"]
  /\ tracked = {}
  /\ mapping = NoMapping /\ disk = NoMapping
  /\ failed = {}
  /\ loop = [l \in Loops |-> NoLoop]
  /\ req = NoReq
  /\ page = [dev |-> [s \in Serials |-> Absent], seen |-> {}, ws |-> None]
  /\ spent = [changes |-> 0, requests |-> 0, stops |-> 0, faults |-> 0]

Spend(what) == spent' = [spent EXCEPT ![what] = @ + 1]

-----------------------------------------------------------------------------
(* Phones, their cables and addresses, and ADB's links to them.            *)

Online == {s \in Serials : phone[s].usb} \cup {e \in Endpoints : link[e] = "device"}

Cable(s) ==
  /\ spent.changes < MaxChanges /\ Spend("changes")
  /\ phone' = [phone EXCEPT ![s].usb = ~@]
  /\ UNCHANGED <<link, serverVars, loop, req, page>>

\* The phone gets another address, or leaves the network; its link goes.
Moves(s, e) ==
  /\ spent.changes < MaxChanges /\ Spend("changes")
  /\ e # phone[s].at /\ \A t \in Serials : phone[t].at # e \/ e = None
  /\ phone' = [phone EXCEPT ![s].at = e]
  /\ link' = [x \in Endpoints |->
                IF x = phone[s].at /\ link[x] = "device" THEN "offline" ELSE link[x]]
  /\ UNCHANGED <<serverVars, loop, req, page>>

LinkDrops(e) ==
  /\ spent.changes < MaxChanges /\ Spend("changes")
  /\ link[e] = "device"
  /\ \E state \in {"none", "offline"} : link' = [link EXCEPT ![e] = state]
  /\ UNCHANGED <<phone, serverVars, loop, req, page>>

\* ADB tries the endpoints it knows again, whoever is there by now.
LinkReturns(e) ==
  /\ link[e] = "offline" /\ Listening(e) # {}
  /\ link' = [link EXCEPT ![e] = "device"]
  /\ UNCHANGED <<phone, serverVars, loop, req, page, spent>>

-----------------------------------------------------------------------------
(* The tracker and the mapping.                                            *)

\* pollDevices; one that fails changes nothing.
Poll ==
  /\ tracked # Online
  /\ tracked' = Online
  /\ UNCHANGED <<phoneVars, mapping, disk, failed, loop, req, page, spent>>

\* saveToDisk, under the lock of the map: a write that fails is logged, and leaves
\* the old text or a part of the new one.
Save(m) ==
  \/ disk' = m /\ UNCHANGED spent
  \/ /\ spent.faults < MaxFaults /\ Spend("faults")
     /\ disk' \in {disk, Broken}

Remember(e, s) ==
  LET m == [mapping EXCEPT ![e] = s] IN mapping' = m /\ Save(m)

\* Mutant: the file is not written.
Forget_MemoryOnly(e) ==
  /\ mapping' = [mapping EXCEPT ![e] = None] /\ UNCHANGED <<disk, spent>>
  /\ failed' = failed \ {e}

Forget(e) ==
  LET m == [mapping EXCEPT ![e] = None] IN
  /\ mapping' = m /\ Save(m)
  /\ failed' = failed \ {e}

\* Mutant: a failure is remembered for ever.
FailureExpires_Never(e) == FALSE /\ e \in failed

\* resolveRetryAfter has passed.
FailureExpires(e) ==
  /\ e \in failed
  /\ failed' = failed \ {e}
  /\ UNCHANGED <<phoneVars, tracked, mapping, disk, loop, req, page, spent>>

-----------------------------------------------------------------------------
(* The loop behind a WebSocket, and the page that reads it.                *)

Goto(l, s) == loop' = [loop EXCEPT ![l] = s]

\* The page opens its WebSocket, at first or three seconds after it has closed.
Opens(l) ==
  /\ page.ws = None /\ loop[l].pc = "none"
  /\ page' = [page EXCEPT !.ws = l]
  /\ Goto(l, [NoLoop EXCEPT !.pc = "begin"])
  /\ UNCHANGED <<phoneVars, serverVars, req, spent>>

Closes ==
  /\ page.ws # None /\ spent.changes < MaxChanges /\ Spend("changes")
  /\ page' = [page EXCEPT !.ws = None]
  /\ UNCHANGED <<phoneVars, serverVars, loop, req>>

\* A copy of what the tracker has; a loop whose WebSocket is closed ends here.
Begin(l) ==
  /\ loop[l].pc = "begin"
  /\ Goto(l, IF page.ws # l THEN NoLoop
             ELSE [NoLoop EXCEPT !.pc = "resolve", !.todo = tracked \cap Endpoints,
                     !.list = [i \in Ids |-> IF i \in tracked \cap Serials THEN i ELSE None]])
  /\ UNCHANGED <<phoneVars, serverVars, req, page, spent>>

\* The entry of e is done: e is listed under s, or left out.
Listed(l, e, s) ==
  [loop[l] EXCEPT !.pc = "resolve", !.key = None, !.answer = None,
                  !.todo = @ \ {e}, !.list[e] = s]

\* ResolveWifiSerial until it asks the phone: the map, then the recent failures.
Resolve(l, e) ==
  /\ loop[l].pc = "resolve" /\ e \in loop[l].todo
  /\ Goto(l, IF mapping[e] # None THEN Listed(l, e, mapping[e])
             ELSE IF e \in failed THEN Listed(l, e, None)
             ELSE [loop[l] EXCEPT !.pc = "asking", !.key = e])
  /\ UNCHANGED <<phoneVars, serverVars, req, page, spent>>

\* A phone that is there tells its serial.
Answers(l) ==
  /\ loop[l].pc = "asking" /\ link[loop[l].key] = "device"
  /\ \E s \in Listening(loop[l].key) :
       Goto(l, [loop[l] EXCEPT !.pc = "storing", !.answer = s])
  /\ UNCHANGED <<phoneVars, serverVars, req, page, spent>>

AnswerFails(l) ==
  /\ loop[l].pc = "asking"
  /\ failed' = failed \cup {loop[l].key}
  /\ Goto(l, Listed(l, loop[l].key, None))
  /\ UNCHANGED <<phoneVars, tracked, mapping, disk, req, page, spent>>

Stores(l) ==
  /\ loop[l].pc = "storing"
  /\ Remember(loop[l].key, loop[l].answer)
  /\ Goto(l, Listed(l, loop[l].key, loop[l].answer))
  /\ UNCHANGED <<phoneVars, tracked, failed, req, page>>

\* The endpoints that a list has for s.
WifiOf(list, s) == {e \in Endpoints : list[e] = s}

\* A list has s.
Has(list, s) == list[s] = s \/ WifiOf(list, s) # {}

\* The order of a list is that of a Go map: the last of two endpoints stays.
WifiChoices(list) ==
  {w \in [Serials -> Endpoints \cup {None}] :
     \A s \in Serials : IF WifiOf(list, s) = {} THEN w[s] = None ELSE w[s] \in WifiOf(list, s)}

\* Mutant: a device that a list does not have stays.
Merged_KeepOld(list, wifi, s) ==
  IF Has(list, s) THEN [adb |-> list[s] = s, wifi |-> wifi[s]] ELSE page.dev[s]

\* s in remoteDevices after a list: as in the list, or as it was where it was seen
\* within DEVICE_LIST_OFFLINE_GRACE_MS.
Merged(list, wifi, s) ==
  IF Has(list, s) THEN [adb |-> list[s] = s, wifi |-> wifi[s]]
  ELSE IF s \in page.seen THEN page.dev[s] ELSE Absent

\* The list is written, and the page takes it.
Writes(l) ==
  /\ loop[l].pc = "resolve" /\ loop[l].todo = {}
  /\ IF page.ws # l THEN Goto(l, NoLoop) /\ UNCHANGED page
     ELSE /\ Goto(l, [NoLoop EXCEPT !.pc = "begin"])
          /\ LET list == loop[l].list IN
             \E wifi \in WifiChoices(list) :
               page' = [page EXCEPT !.dev = [s \in Serials |-> Merged(list, wifi, s)],
                                    !.seen = @ \cup {s \in Serials : Has(list, s)}]
  /\ UNCHANGED <<phoneVars, serverVars, req, spent>>

\* DEVICE_LIST_OFFLINE_GRACE_MS have passed since a list had s.
GraceEnds(s) ==
  /\ s \in page.seen
  /\ page' = [page EXCEPT !.seen = @ \ {s}]
  /\ UNCHANGED <<phoneVars, serverVars, loop, req, spent>>

-----------------------------------------------------------------------------
(* POST /api/devices/connect.                                              *)

ToReq(r) == req' = r
Done == ToReq(NoReq)
Step(pc) == ToReq([req EXCEPT !.pc = pc])

\* ensureAndSwitchConnectionForDevices asks for a phone it has over USB only, and
\* merges the reply; the dialog of ports asks for any, and does not.
RequestWifi(s) ==
  /\ req.pc = "none" /\ page.dev[s] # Absent
  /\ spent.requests < MaxRequests /\ Spend("requests")
  /\ \E merge \in BOOLEAN :
       /\ merge => page.dev[s].adb /\ page.dev[s].wifi = None
       /\ ToReq([pc |-> "ip", serial |-> s, endpoint |-> None, merge |-> merge])
  /\ UNCHANGED <<phoneVars, serverVars, loop, page>>

\* disconnectDeviceWifi looks for an endpoint of the phone, any one.
RequestUsb(s) ==
  /\ req.pc = "none" /\ page.dev[s] # Absent
  /\ spent.requests < MaxRequests /\ Spend("requests")
  /\ LET known == {e \in Endpoints : mapping[e] = s} IN
     IF known = {} THEN UNCHANGED req
     ELSE \E e \in known :
            ToReq([NoReq EXCEPT !.pc = "disconnect", !.serial = s, !.endpoint = e])
  /\ UNCHANGED <<phoneVars, serverVars, loop, page>>

\* A call of ADB fails or times out, or the endpoint is not online after it.
RequestFails ==
  /\ req.pc \in {"ip", "tcpip", "connect", "check"}
  /\ Done
  /\ UNCHANGED <<phoneVars, serverVars, loop, page, spent>>

FindIp ==
  /\ req.pc = "ip" /\ phone[req.serial].usb /\ phone[req.serial].at # None
  /\ ToReq([req EXCEPT !.pc = "tcpip", !.endpoint = phone[req.serial].at])
  /\ UNCHANGED <<phoneVars, serverVars, loop, page, spent>>

Tcpip ==
  /\ req.pc = "tcpip" /\ phone[req.serial].usb
  /\ phone' = [phone EXCEPT ![req.serial].tcp = TRUE]
  /\ Step("connect")
  /\ UNCHANGED <<link, serverVars, loop, page, spent>>

\* adb connect may report no error where it made no connection.
AdbConnects ==
  /\ req.pc = "connect"
  /\ \/ UNCHANGED link
     \/ Listening(req.endpoint) # {} /\ link' = [link EXCEPT ![req.endpoint] = "device"]
  /\ Step("check")
  /\ UNCHANGED <<phone, serverVars, loop, page, spent>>

Checks ==
  /\ req.pc = "check" /\ link[req.endpoint] = "device"
  /\ Step("remember")
  /\ UNCHANGED <<phoneVars, serverVars, loop, page, spent>>

Remembers ==
  /\ req.pc = "remember"
  /\ Remember(req.endpoint, req.serial)
  /\ Step("connected")
  /\ UNCHANGED <<phoneVars, tracked, failed, loop, page>>

\* The page merges the endpoint into the device it may still have.
Replies ==
  /\ req.pc = "connected"
  /\ page' = IF ~req.merge \/ page.dev[req.serial] = Absent THEN page
             ELSE [page EXCEPT !.dev[req.serial].wifi = req.endpoint]
  /\ Done
  /\ UNCHANGED <<phoneVars, serverVars, loop, spent>>

\* The error of adb disconnect is ignored.
Disconnects ==
  /\ req.pc = "disconnect"
  /\ \/ link' = [link EXCEPT ![req.endpoint] = "none"]
     \/ UNCHANGED link
  /\ Step("forget")
  /\ UNCHANGED <<phone, serverVars, loop, page, spent>>

Forgets ==
  /\ req.pc = "forget"
  /\ Forget(req.endpoint)
  /\ Done
  /\ UNCHANGED <<phoneVars, tracked, loop, page>>

-----------------------------------------------------------------------------
\* A stop ends every goroutine and WebSocket; one within saveToDisk may leave a part
\* of the text.  A file that cannot be parsed is passed over at the start.
InSave == req.pc \in {"remember", "forget"} \/ \E l \in Loops : loop[l].pc = "storing"

Restart ==
  /\ spent.stops < MaxStops /\ Spend("stops")
  /\ disk' \in IF InSave THEN {disk, Broken} ELSE {disk}
  /\ mapping' = IF disk' = Broken THEN NoMapping ELSE disk'
  /\ tracked' = {} /\ failed' = {}
  /\ loop' = [l \in Loops |-> NoLoop]
  /\ req' = NoReq
  /\ page' = [page EXCEPT !.ws = None]
  /\ UNCHANGED phoneVars

-----------------------------------------------------------------------------
LoopStep(l) ==
  \/ Begin(l) \/ Stores(l) \/ Writes(l)
  \/ \E e \in Endpoints : Resolve(l, e)

RequestStep ==
  \/ FindIp \/ Tcpip \/ AdbConnects \/ Checks \/ Remembers \/ Replies
  \/ Disconnects \/ Forgets \/ RequestFails

Next ==
  \/ \E s \in Serials :
       \/ Cable(s) \/ GraceEnds(s) \/ RequestWifi(s) \/ RequestUsb(s)
       \/ \E e \in Endpoints \cup {None} : Moves(s, e)
  \/ \E e \in Endpoints : LinkDrops(e) \/ LinkReturns(e) \/ FailureExpires(e)
  \/ \E l \in Loops : Opens(l) \/ LoopStep(l) \/ Answers(l) \/ AnswerFails(l)
  \/ Poll \/ Closes \/ RequestStep \/ Restart

Spec == Init /\ [][Next]_vars

\* The loops of tracker, lists and page run for ever, time passes, calls of ADB end,
\* and a phone that is asked again and again answers at last.
Fairness ==
  /\ WF_vars(Poll) /\ WF_vars(RequestStep)
  /\ \A l \in Loops : WF_vars(LoopStep(l)) /\ WF_vars(Answers(l) \/ AnswerFails(l))
  /\ \A l \in Loops : SF_vars(Answers(l))
  /\ WF_vars(\E l \in Loops : Opens(l))
  /\ \A e \in Endpoints : WF_vars(FailureExpires(e))
  /\ \A s \in Serials : WF_vars(GraceEnds(s))

FairSpec == Spec /\ Fairness

-----------------------------------------------------------------------------
\* wifi_mapping.json is written at every change and read at the start: a server that
\* starts again knows the phones it knew, unless a write of the file had failed or
\* the server stopped within one.
MappingSurvivesRestart ==
  [][spent'.stops # spent.stops /\ spent.faults = 0 /\ ~InSave => mapping' = mapping]_vars

\* s is at e, and e is not taken for the endpoint of another phone.
Reaches(e, s) == link[e] = "device" /\ Listening(e) = {s} /\ mapping[e] \in {None, s}

\* A phone that stays plugged in, or within reach at an address, is in time on the
\* page with that connection, and stays there: whatever answers failed before,
\* and through restarts, closed WebSockets and replies merged late.
ReachablePhonesAreListed ==
  \A s \in Serials :
    /\ <>[]phone[s].usb => <>[]page.dev[s].adb
    /\ \A e \in Endpoints : <>[]Reaches(e, s) => <>[](page.dev[s].wifi # None)

\* A connection that is lost for good leaves the page, once the grace of the list has
\* passed: neither a late answer, nor a merged reply, nor an old list keeps it.
LostConnectionsLeave ==
  \A s \in Serials :
    /\ <>[](~phone[s].usb) => <>[](~page.dev[s].adb)
    /\ <>[](\A e \in Endpoints : link[e] = "device" => mapping[e] \notin {None, s})
         => <>[](page.dev[s].wifi = None)
=============================================================================
