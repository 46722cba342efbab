# MonViewPhone: TLA+ models, model checks and proofs

MonViewPhone shows and controls a farm of Android phones in a browser. This
directory holds TLA+ models of the parts of it whose correctness depends on the order
in which things happen, the TLC runs that check them on small instances, and
the proofs (TLAPS) that carry the most important results to every instance. The
models are written from the source; a path without `src/` below is under `src/`.

`PROJECT.json` lists, for tools and reviewers: the components, the runs, a mutant for
every checked property (a plausible bug that the property catches), the source
lines each definition stands for, the hazards of the code, the findings and the
theorems.

## 1. The system

A phone's picture takes this way: `stream-node` (Node) starts scrcpy on the phone
and turns its H.264 stream into WebSocket packets; the client (React) decodes them with
WebCodecs and draws them on the canvas of a tile. Touches and keys go
back over the same socket. `server-go` serves the client, tracks devices, and does
everything else over ADB: an older stream path (`proxy-adb`), files, apps,
settings, accounts, WeChat notifications.

| Component | State it keeps | Operations | Module |
|---|---|---|---|
| stream-node sessions: `stream-node/src/{index,sessionManager,scrcpySession,runtime,adb}.ts` | map device -> session, queue of starts, count of running starts; per session transport, client, JAR on the device, the fact that it is closed | connection, start, close, close if current, close all | `StreamSessions` |
| video gate and sink: `stream-node/src/{videoBackpressure,index,protocol}.ts` | `congested`, latest configuration, socket backlog | decide, send, drop, recover | `VideoPipeline` |
| client decoding: `client/src/stream/**` | cached SPS/PPS, decoder, recovery flags, pending frame | feed packet, decode, recover, output, draw | `VideoPipeline` |
| tile stream: `client/src/components/tile/useTileStream.ts` | leases, shared connect queue and its timer; per tile socket, engine, timers, watchdog | mount, unmount, reload, connect, socket events, timers | `TileStream`, `StreamLease` |
| proxy and scrcpy server: `server-go/websocket/proxy.go`, `server-go/scrcpy/server.go`, `server-go/adb/utils.go` | slots, device locks, restarts in flight, forwards | proxy, ensure, force restart, clean and add forward, dial, pipe | `ProxyAdb` |
| control and UHID devices: `stream-node/src/{scrcpySession,protocol}.ts` | created UHID devices, pressed keys, touch calibration | control messages, release | `UhidInput` |
| keyboard and pointers: `client/src/hooks/useDirectKeyboard.ts`, `client/src/lib/touchControls.ts`, `client/src/context/ActiveContext.tsx` | pressed usages, targets, pointer identifiers, gestures under way, delayed followers | key, pointer and wheel events, release, replay | `UhidInput`, `TouchGestures` |
| automation: `client/src/lib/automation.ts` | running script | run, abort | `TouchGestures` |
| WeChat notifications: `server-go/wechat_notify.go`, `client/src/hooks/useWechatNotifications.ts` | subscribers with bounded channels, collectors, seen events, alerts | subscribe, publish, reconcile, collect, open alert | `WechatAlerts` |
| settings and accounts: `server-go/{rest,account_db}.go`, `client/src/main.tsx`, `client/src/lib/{backendSettings,deviceAccountVault}.ts` | `settings.json`, account table, local storage of each browser | start, save a key, save or move an account, get, merge | `SettingsStore` |
| tile order: `client/src/store/useTileOrder.ts`, device table | numbers of tiles | drag, renumber | not modelled |
| visual alerts: `client/src/hooks/useVisualAlert.ts` | confirmations, cooldown, verification | frame, verify | not modelled |
| device list, tracker, Wi-Fi mapping: `server-go/adb/{tracker,wifi_mapping}.go`, `server-go/websocket/devicelist.go`, `server-go/device_connect.go`, `client/src/App.tsx` | devices online, endpoint -> serial in memory and in `wifi_mapping.json`, recent failures; the page's devices with their connections | poll, list, resolve, remember, forget, connect, disconnect, merge, restart | `DeviceList` |
| multiplexer and server API, file/media/app/display helpers | channels; caches of pushed helpers | requests | not modelled |
| client UI, launchers, Android helpers | presentation, process start | - | not modelled |

How they interact. A browser page has many tiles; each has at most one WebSocket to
stream-node, and stream-node closes the session of a device when a second
connection for that device comes. That is why the tiles lease devices from each other
(`useTileStream.ts:117`), and why the session manager must cope with connections
that do not (other pages, the viewer). Inside stream-node everything is one event loop:
races are between awaits. In server-go each request is a goroutine: races are
between any two statements outside a lock.

Behaviours that are hard to get right, and what each component must guarantee:

* *stream-node sessions.* `start()` and `close()` of one session overlap at eleven
  awaits; a third and fourth party (newer connection, shutdown, old socket's close
  event) join in. Slots must be given back exactly once; the registered session must be
  open; files and connections on the phone must be released whoever comes
  first; every connection must be answered.
* *video.* Two places drop frames independently (gate, engine), both then wait for a key
  frame. Neither may let through a delta whose reference is missing, nor starve the
  other; no `VideoFrame` may leak.
* *tiles.* Five kinds of asynchronous events per tile (socket, reconnect timer, initial
  timer, watchdog, user) and a shared queue. Leases, queue and timers must agree.
* *proxy.* A semaphore, a lock per device which may be evicted while held, joined
  restarts over a channel, forwards that any proxy of the device may remove.

* *input.* A page sends keys and touches without waiting; on the other side each message has a
  handler of its own that may wait for a device to be created, and others overtake it. Targets,
  sockets and focus change while keys and fingers are down. What is down must have somebody who
  lets go of it, and only he may.
* *WeChat notifications.* A line of a log passes a process that dies, a goroutine that is
  cancelled, a channel that drops and a stream that reconnects. The page may miss news only when
  one of these is to blame, and must not sound twice for an event that is repeated.
* *settings.* Two copies (browser, server), requests nobody waits for, a file that is read, merged and
  written without a lock.
* *device list.* A phone has a USB serial and addresses that come and go; which phone is behind an address is
  asked from it or remembered, on disk as well. The tile must come when the phone does, go when it has
  gone, and outlive a restart of the server.

The full list of hazards, each with its line and its properties, is in
`PROJECT.json` (`hazards`); those with a note instead of properties are either outside what
the code tries to guarantee or belong to components that are not modelled (section 7).

## 2. Modules

### StreamSessions

One connection makes at most one session, so both share an identifier.
A step is the code between two awaits of a call that leaves the process.
`sess[c].start` is the program counter of `ScrcpySession.start()` (with the job of the
manager around it), `sess[c].closing` that of `close()`: a session can be at an
await of each at the same time. `conn[c].handler` is where the connection handler
of `index.ts` is, or where `SessionManager.start` is on its behalf.

| Model | Code |
|---|---|
| `Arrive`, `Replace`, `PrevClosed`, `Register` | `SessionManager.start` before the job, with `close(udid)` of the device's old session |
| `Pump`, `Room`, `Run`, `Release` | `#pump`, and the `finally` of a job |
| `Connected` ... `VideoFails` | the awaits of `start()`; each checks `#closed` as the code does |
| `Fail`, `StartRmDone`, `StartRejected`, `Unwound` | the two catch blocks |
| `Closing`, `AfterRelease`, `AfterPush`, `AfterRm`, `AfterClient` and the steps that use them | `close()` and `#removePendingServer` |
| `WsCloses` | the close event; without effect before the start has resolved, because the handler is attached after it |
| `Shutdown`, `Exit` | SIGINT and SIGTERM: `closeAll`, then exit |

The history variable `lost` records that a push or an `rm` failed or timed
out, after which the code cannot know whether the JAR is on the device.

Left out: the options of scrcpy, tracing, control messages (`UhidInput`;
`release` is the await at which `close()` releases UHID devices), socket errors
after the start (they do what a close does), and crashes of Node itself (nothing
is persisted: a new process begins at `Init`).

### VideoPipeline

One stream: encoder (external), gate and sink, the WebSocket, assembler,
engine, renderer. A frame is described by what decides whether it can be
decoded: is it a key frame, which SPS/PPS it was encoded with, and whether the frame
before it was sent. `wire` has the packets that are under way and `buffered` their bytes, which is
`bufferedAmount` at its largest (bytes that the network has taken already are counted until they
arrive). The gate compares `buffered` with its marks before it sends, and what it sends has any size up to
`MaxPacket` (`Grows`): one key frame may pass the high mark alone, as the self-check of
`videoBackpressure.ts` says. `eng.ref` is a history variable: what the current decoder can build the next delta on, `bad`
being a chunk that cannot be decoded.

Output callbacks of abandoned decoders (`StaleOutput`), `configure()` that
throws (`ok = FALSE`, for a new configuration and for a decoder that is made anew), decoder errors, restarts by the watchdog and
reconnects of the tile happen at any time, up to `MaxFaults` in all. Left out: packets
that come once the socket is closed (the sink returns at once, `index.ts:106`), other messages of the
socket (status, pong: a few bytes), a canvas without 2D context, NAL unit parsing and packet headers.

### StreamLease and TileStream

`StreamLease` is the promise to stream-node: a device is leased to one tile at a
time and only its holder streams it. `TileStream` is the code: every handler of the
hook's effect is an action, with the queue and leases shared by all tiles. The
refinement (`INSTANCE StreamLease WITH holder <- leaseHolder, stream <- leasedStream`) takes for
holders the owners in `activeStreamSessions`, and for streams the devices of the tiles whose
socket is connecting or open.

Time is abstract: a timer that is set may fire at any moment, and a delay measured by
the watchdog may have passed at any of its ticks (`Silence` makes `lastPacketAt` old).
Left out: canvas size, status texts, statistics, `pagehide`/`beforeunload` (they run
the same `cleanupWs` as an unmount, on a page that goes away).

### ProxyAdb

Each proxy is a goroutine with a program counter and the locals of
`connectDeviceWsWithRecovery`, `EnsureServer` or `ForceRestartServer`, whichever it runs.
A device mutex is named by its device and the number of evictions before it was
stored, so that two mutexes of one device can be held at once, as in the code.
Each restart has its own channel: `open`, closed with `ok` or `err`
still to be taken, or `drained`. `Clean` removes any subset of the device's forwards:
each removal may fail. A forward belongs to one attempt, for local ports that ADB
chooses (`tcp:0`) are distinct while in use; one that its proxy could not remove stays, after that proxy has
ended as well, until another proxy cleans the device. The shell commands that look for a server may
fail, so that `Inspect` and `Boot` may miss one that runs.

Left out: remotes other than `tcp:8886` (one attempt, no server operation), the bytes
of the pipe, `StartServer` (no caller), the clean-up at program start (before requests are
served). `CleanForwardsForDevice`'s list and removals are one step. The tracker that
tells the cleanup goroutine which devices are online is abstracted: an eviction may come
at any time, at most `MaxEvictions` times per device.

### UhidInput

A page, and one session per device. `pressed` is what `useDirectKeyboard` remembers, `target` the
devices that `resolveTargets` finds for the active one. A session keeps the fields of
`ScrcpySession` that its UHID handlers read and write, and three sets of handlers that wait:
for the creation of the keyboard (`keyCreates`), of the touch screen (`touchCreates`), or for the
answer of `dumpsys input` (`asking`). `shown` and `contact` are what Android sees.

| Model | Code |
|---|---|
| `KeyDown`, `KeyUp`, `Release`, `Forgotten` | `onKeyDown`, `onKeyUp`, `releaseUhidKeyboard` and its listeners |
| `Retarget` | a change of what `resolveTargets` returns |
| `Send`, `KeyboardCreated`, `Applied`, `Reported` | `sendToActive`, then `#injectUhidKeyboard` before and after its await |
| `Touch`, `Receive`, `TouchCreated`, `Answered`, `Calibrated` | `sendTouch`, then `#injectUhidTouch` at its awaits |
| `Start`, `End` | a session's start, and its end with `#releaseUhidDevices` |

What a handler writes to the controller keeps its order, so that a write and its effect are one
step; only the acknowledgement of a creation and `dumpsys` take time. The way of a message over
the socket is not modelled: it delays the message and keeps the order. The exceptions of
`KeysAgree` are the history variable `excused`: keys held while a device becomes or ceases to be
a target or its session begins, and keys whose message waited for the creation while another
one did not. The last one is the overtaking that the code allows.

Left out: a creation of the keyboard that the controller rejects. It does so only once the control
connection is gone, which for the device is the end of the session (`End`); that the session stays
registered is a matter of `StreamSessions`.

### TouchGestures

Every canvas with touch controls, the asynchronous functions that send touches by themselves
(players: `replayDelayedFollowers`, the pinch of the wheel, the BACK key, `runScript`), and the
fingers that are down on each device. `gesture[c][p]` is the entry of pointer `p` in `active`
of canvas `c`; `Press`, `Move` and `Lift` are the three pointer handlers; `Next_`, `PlayerLifts` and
`Returns` are the steps of a player, `Abort` and `SetDelay` what cancels it. `Reattach` is the
React effect that attaches the controls anew, with new closures. `reach` is what `resolveTargets`
makes of a canvas before it looks at sockets; `Regroup` changes it to what any main device, followers,
`syncAll` and Alt over a tile give (`Resolved`), nothing at all included. A socket that closes takes the
fingers of its device with it (the session ends, `StreamSessions`).

BACK is a key, modelled like a finger with an identifier of its own, -1: `sendBackKey` sends DOWN to the
targets of its canvas (`KeyTargets`, which is `sendToTargets`) and, in a timeout, UP to the targets that the
canvas has by then (`BackLifts`), whoever holds the key there.

A script waits between its devices (`applyStaggerDelay`); aborted meanwhile, it has passed the check for the next
device and still puts that finger down: `Abort` leaves at most one device to come.

Left out: coordinates and offsets, the order among followers, the encoding of messages, and the
time between steps.

### WechatAlerts

The phone's notifications and the last line of the helper's log (external), the hub with its
collectors and subscribers, and one page. Each slot of `collector` is a goroutine of
`collectDevice` at one of its awaits, with the lines that wait between `adb logcat` and the scanner;
each slot of `stream` a handler of `handleEvents` with its channel. `seen`, `alerts` and
`monitored` are the page's.

| Model | Code |
|---|---|
| `Reconcile`, with `Desired`, `Unwanted`, `ToStart` | `run`, `reconcileCollectors` |
| `StartLogcat`, `Attach`, `Publish`, `Dies`, `ScanEnds`, `Ensure` | `collectDevice`, its process, `publish`, `ensureMonhelperWechatProfiles` |
| `Connect`, `Leave`, `HandlerReturns` | `handleEvents` with `subscribe` and `unsubscribe`, the `EventSource` |
| `Monitor`, `Handle`, `Acknowledge` | the effect, `handleEvent`, `openWechatAlert` and `acknowledgeFocusedWechatAlert` |
| `Post`, `Withdraw`, `Poll` | the phone; `Tracker.pollDevices` |

`Ensure` goes from profile to profile: for each the listener is enabled, or the call fails and the profile is
passed over. A notification is logged only once the listener of its own profile is enabled.

The history variables `sounded` and `blamed` say which events have sounded, and about
which notifications a line was lost or came late. The wake channel of the hub is left out: the
ticker may fire at any time.

### SettingsStore

Browsers with their local storage, requests under way, `settings.json` and the account table. A
value of a key is the number of the change that made it. The steps of a POST of keys are those
between which another goroutine can come: `Read`, `Truncate` and `Write` (`os.WriteFile`
truncates the file, then writes); the accounts are replaced in one transaction (`SyncVault`), or
not at all (`SyncRefused`). A page starts with a GET (`Start`, `Get`, `Hydrate`) and, if it has keys that the
server lacks, an upload (`Uploaded`); after 1.5 s it goes on without (`StartTimesOut`).
A GET or a POST may fail in every place where the code has an error path: a file that a POST cannot read counts
as empty and is then overwritten (`Read`), a write fails after the truncation (`WriteFails`), accounts that
cannot be loaded are left out of the answer (`Get`) or refuse the POST (`LoadFails`). A change may also store
an empty value, which counts as missing when another browser starts.

Two history variables serve `NewestIsStored`: `newest`, what the last change of each item made of it, and `lost`,
the items of which it went lost, until they are changed again. A request carries the last change of the items
in its `fresh`; `whole` says that a merge still knows the file. Every cause by which an item gets
into `lost` is named in the comment of the property: its own request failed or did not arrive, an older change or
a start's upload came after it, two merges overlapped, or the file could not be read or written. All that is
left, saves of other keys by either browser, starts, answers, restarts at any other moment, must not undo it.

Left out: the order and numbers of tiles with their own table, the vault branch of `POST
/settings` (no page uses it), and every field of an account but its device.

### DeviceList

Phones with a cable and an address, and the links that ADB has to addresses, are external. The server is
the tracker, the mapping with its file and its recent failures, one goroutine of
`HandleSimpleDevicesList` for each slot of `loop`, and the one request under way. A step of it is the code
between two calls of ADB; `Restart` may come before any of them, and cut a write of the file short.

| Model | Code |
|---|---|
| `Poll` | `Tracker.Start`, `pollDevices` |
| `Begin`, `Resolve`, `Answers`, `AnswerFails`, `Stores` | `HandleSimpleDevicesList`, `simpleDevicePayloads`, `ResolveWifiSerial` around its `getprop` |
| `Remember`, `Forget`, `Save`, `Restart` | `RememberWifiEndpoint`, `ForgetWifiEndpoint`, `saveToDisk`, `loadFromDisk` |
| `RequestWifi` ... `Remembers` | `connectDeviceWifi` at its calls of ADB |
| `RequestUsb`, `Disconnects`, `Forgets` | `disconnectDeviceWifi` |
| `Opens`, `Closes`, `Writes`, `Merged`, `GraceEnds`, `Replies` | the page's WebSocket effect and `ensureAndSwitchConnectionForDevices` |

A list is a function from what ADB calls a device to the phone behind it; where a phone has two endpoints
the page keeps the last one of the list, whose order is that of a Go map (`WifiChoices`). Time is
abstract: the 30 seconds of a failure and the 15 of the grace may have passed at any moment.
Left out: the older `goog-device-list` with its cache of properties, preferred connections, the
blacklist, the names of all known devices, several devices in one request, and requests that overlap;
a request for USB that names an address instead of a phone (`device_connect.go:138`), as the page sends it
for a device that is known by nothing else: it only disconnects the address.

## 3. Runs

| Run | Instance | Shows |
|---|---|---|
| `sessions` | 2 connections, 2 devices and one that is not allowed, 1 slot, fair | all safety properties of `StreamSessions`; every connection is answered, every close ends |
| `sessions_failed_start`, `sessions_orphan` | as `sessions`, without fairness | two counterexamples, section 5 |
| `video` | 3 configurations, packets of 1 to 3 bytes, water marks of 3 and 1 bytes, decode queue limit 1, 2 faults, fair | safety and recovery of the picture |
| `tile` | 2 tiles, 2 devices, batch of 1, 2 reloads, queue of 3, fair | refinement, leases, timers, recovery |
| `proxy` | 3 proxies (symmetric) of one device, 2 slots, 2 attempts, 1 eviction, 1 failed ADB call on forwards | safety of `ProxyAdb` |
| `proxy_live` | 2 proxies, 1 slot, fair | every request is answered |
| `wechat` | 1 phone, 1 profile with 2 notifications, 2 posts, channel of 1, 1 remembered event, 2 collectors, 2 streams, 1 loss, fair | alerts, sounds, collectors; deadlock is not checked, for the bounds do end the behaviour |
| `uhid` | 1 phone, a modifier and 2 keys, room for 1 key, 3 waiting handlers | safety of `UhidInput` |
| `touch` | 2 devices, 2 pointers, 2 players (all symmetric); at most 1 abandoned and 2 shared fingers (constraint `FewStray`), at most 2 gestures and players at a time before another begins (`FewGestures`) | safety of `TouchGestures` |
| `settings` | 2 browsers, 2 keys, 1 account, 2 devices, 2 requests (all symmetric), 3 changes, 1 failure | safety of `SettingsStore` |
| `devices` | 1 phone, 2 addresses, 1 loop, 2 changes of cable, network or socket, 1 request, 1 restart, 1 failed write, fair | the mapping survives a restart; the page comes to show what is there, and only that |

What the properties say is stated above each of them in its module. `TypeOK` of `ProxyAdb`,
`UhidInput`, `TouchGestures` and `DeviceList` is not checked by a run: it is part of a proved invariant
(section 6). The definitions of `SettingsStore` that every module has (`SettingsInit`, `SettingsSpec`, ...)
carry its name, so that its proofs can stand beside those of `DeviceList`.

Why these bounds are enough to be interesting:

* *sessions.* With two connections a session is replaced while its start or its close is under way; one
  slot makes the queue non-trivial. Two devices let two starts compete without replacing each
  other. The theorems of section 6 remove the bounds for the safety properties of this module
  and of the next.
* *video.* The largest packet is as large as the high mark, so that one alone closes the gate and a recovery passes
  it; the smallest leaves the gate open twice. Marks that differ by two let the gate pass and hold both
  kinds of packets; three configurations allow two rotations in one
  congestion; a queue limit of one is passed by two chunks. Two faults are the smallest
  number with which a recovery is interrupted by another one.
* *tile.* Two tiles and two devices give every conflict there is between a holder and
  another tile; a batch of one (`STREAM_CONNECT_BATCH_SIZE`, 3 in the code) makes the queue need its timer
  again. `MaxQueue` bounds the items, cancelled ones included, at a mount or a
  reload by the user.
* *proxy.* Three proxies on one device: one restarts, one waits, one comes late.
  Two attempts (three in the code) are the first, which may only ensure the
  server, and a later one, which restarts it. One eviction gives two mutexes.

* *wechat.* A channel of one event drops the second; one remembered event (1000 in the code) makes the page
  forget. Two collectors of one device are an old one that still ends and a new one, two
  streams an old handler and a new one. Two posts are a notification and its update, or two
  notifications of one profile. `MaxLag` bounds the lines that wait in a process.
* *uhid.* One phone is enough: sessions share nothing. Room for one key (6 in the code) makes the
  second one overflow the report; with three handlers a creation is overtaken by a message that does not
  wait while another still waits.
* *touch.* Two devices give a source and a follower, and two canvases that share a device;
  two pointers give every collision of identifiers there is on one canvas, and two players the
  collisions of replays, scripts and BACK keys. The constraints keep the number of gestures and of fingers
  that nobody will lift, or that two share, small; the theorems of section 6 need neither.
* *settings.* Two requests are the least that overlap, and three changes let one browser change what the other
  has changed, and once more. One failure is a refused transaction, a failed read or write, or a restart.
* *devices.* Two addresses let the phone move with a link, a question or a request under way, and be at
  two endpoints at once in a list. ADB may have links from the start, so one request is enough
  to connect or to disconnect. The second phone that the stale entry of section 5 needs is left to the proof.

Symmetry is used only in runs without liveness properties.

## 4. Fairness

* `StreamSessions`: weak fairness of the steps that answer an external call. Push and rm
  have a timeout in the code (`SERVER_IO_TIMEOUT_MS`); for the others it is an
  assumption on ADB and scrcpy. Connections, close events, video ends and signals have
  none.
* `VideoPipeline`: the encoder starts and keeps making key frames (it is configured with an
  i-frame interval), the socket delivers, the decoder puts out what it was given, animation
  frames come. No fairness for faults, rotations or deltas.
* `TileStream`: timers that are set fire; the watchdog's interval keeps running.
  Nothing is assumed of sockets, packets or frames.
* `ProxyAdb`: goroutines run and ADB calls end (every one has a timeout, `adb/utils.go`).
  Strong fairness for the slot and the device lock: senders blocked on a
  channel are served in order, and `sync.Mutex` hands over to a starving waiter. No fairness
  for pipes, devices, requests and evictions.

* `WechatAlerts`: the hub's ticker fires, collectors and handlers run, calls of ADB end (they have
  timeouts), and a process that is killed ends. Nothing is asked of the phone, the tracker, or the page.
* `DeviceList`: tracker, loops and the page's reconnect timer run for ever, times pass, calls of ADB end; strong
  fairness of the answer: a phone that is within reach and asked again and again answers once. Nothing is asked of
  cables, networks, requests or restarts.
* `UhidInput`, `TouchGestures` and `SettingsStore` state safety only.

## 5. Findings

Two runs have counterexamples: disagreements between the code and what its
documents and comments say of it. Each is in `PROJECT.json` with its quote.

1. `sessions_failed_start` (`stream-node/src/scrcpySession.ts:282`). A session closed while its
   transport is created: `close()` finds no transport and ends; `start()` then stores
   one, throws, and its `close()` returns at once. The ADB transport stays open, although
   `index.ts:178` counts on the manager's clean-up.
2. `sessions_orphan` (`stream-node/src/index.ts:163`). The close handler is attached after
   the start has resolved. A socket closed before that leaves a running session
   without a viewer until the device is asked for again.
What else the models show of the code, without a run of its own:

* `tile`: 12 seconds after a decoder restart that has not helped, the tile reconnects though packets
  come; `TANGO_STREAM_V2.md:324` says it does not. The newer comment at `useTileStream.ts:461`
  describes the code: the document is behind.
* `proxy`: a restart sends one result and closes its channel (`scrcpy/server.go:232`). Of several waiters,
  one reads the error of a failed restart, the others read nil and go on to dial. The dial fails
  and is retried, so requests are still answered, at the price of an attempt.
* `uhid`, `touch`: a key held while the active device changes stays down there until its session ends or
  a RESET reaches it; a script aborted in a swipe, a drag during which the controls are attached anew, and BACK
  on a group that changes leave a finger or key down. The properties name these cases.
* `touch`: two BACK keys whose targets change between DOWN and UP lift each other's key (`touchControls.ts`,
  `sendBackKey`). The proof of `OwnedFingersAreHeld` asked for this case: with one player a run does not meet it.
* `settings`: of two overlapping POSTs of keys one may be lost, as may the whole file. A file that cannot be read
  counts as empty (`rest.go:1320`), so that the next POST keeps nothing but its own key; a write that fails leaves
  no settings behind (`rest.go:1416`). A key that has been emptied counts as missing: another browser that starts
  brings its old value back (`main.tsx:97`). The two POSTs of an
  account that moves may be handled in reverse order, and then the account is gone from the server. An
  empty account table is not sent to a browser that starts (`account_db.go:354`), which keeps
  its own accounts then.
* `devices`: the server trusts an endpoint that it remembers. When another phone gets the address, its picture appears
  in the tile of the first one until somebody disconnects it or connects it anew; and an answer of
  `getprop` that comes after a disconnect request puts the entry back (`wifi_mapping.go:104`). A write of
  `wifi_mapping.json` that is cut short makes the next start forget every phone it cannot ask.

## 6. Proofs

`StreamSessionsProofs` proves, for any finite set of connections, any devices and any
positive number of slots (`ConstantsAssumption`), that every state reachable by `Spec` satisfies
`TypeOK`, `SlotsExact`, `CurrentIsOpen`, `NoJarLeftBehind` and `ClosedHoldsNothing`, and that
every step satisfies `OnlyTheOwnerCloses`.

None of these is inductive alone. The invariant `IInv` adds:

* `QueueInv`: `active` counts the sessions whose job runs, the sessions in the queue are all at
  "queued", and none is in it twice, so that dequeuing one makes exactly one more job run;
* that a non-empty queue means that every slot is taken, which `Room` needs;
* `HandlerInv`: until its start is queued, a connection's session is untouched, so that a
  registration never overwrites one that somebody closes;
* `CurrentInv`: a registered session is past that point, belongs to its device and is open;
* `JarInv`, for each session: who still has to remove the JAR (whoever holds the path, the
  `rm` of the catch block, or the `rm` of `close()`), and that `close()` is past its wait for the
  push only when no push runs;
* `HoldInv`, for each session past its spawn: its client and its transport are open
  until the step of `close()` that closes them.

Each action has one lemma; those that change the queue go through lemmas on `Pump` and
`Release`, which need facts about cardinalities (slots in use are counted) and about
`SubSeq`. `TypeOK` is proved with the rest, for `active \in Nat` needs that a job that gives its slot
back had one.

`VideoPipelineProofs` proves, for any water marks, sizes of packets, queue limit, configurations and number of
faults (`WaterMarks`, `OtherConstants`), that `Spec` of `VideoPipeline` keeps `TypeOK`, `NeverDecodesBroken`,
`FramesAccountedFor` and `BacklogBounded`. The invariant `VInv` that carries them relates
the two ends of the socket:

* `SinkInv`: once the encoder has begun, the sink remembers its configuration; while the gate is open
  no frame has been skipped, and that configuration is the one in effect at the end of the wire
  (`InEffect`: it was cached by the assembler, or is the last configuration on the wire);
* `WireInv`: every key frame on the wire comes behind its configuration, every delta behind the
  frame it follows. This is where the two halves meet: `SinkInv` establishes it for a packet that is
  sent, and `DeliverStep` uses it for the first packet of the wire;
* `Good`: an engine that would decode a delta has decoded the frame before it; a decoder is
  configured only once there is a configuration; the open frames are the pending one.

The lemmas go from the functions of the engine (`DiscardLemma` to `AcceptLemma`), over the wire
(`InEffectAppend` to `WireTail`), to one lemma per action.

`TileStreamProofs` proves, for any finite set of tiles, any devices, any size of a batch and any bounds
(`TileConstants`), that `Spec` of `TileStream` implements `StreamLease` (`ImplementsLease`) and keeps `TypeOK`,
`LeaseIsUsed` and `OneReasonToRun`. The invariant `TInv` says what leases, queue and sockets know of each other:

* `TileFits`, for each tile: waiting, it holds its lease as "queued" and has nothing that runs; streaming, it
  holds its lease as something else; a tile that is gone is `Unmounted`;
* `LeaseFits`, for each lease: its holder shows the device, and waits or streams as the lease says;
* `OneItem`: a tile has one live item, so that a batch that starts it leaves none of it behind.

The refinement needs the converse of `LeaseIsUsed` too: a tile that waits or streams holds its lease.
That rests on `OneItem`, for a second item left behind would start a tile that streams already.
The queue has its own lemmas (`DropLemma`, `EnqueueLemma`, `FlushLemma`: who waits after a cleanup,
a `connect()`, a batch). `ConnectLemma` then covers the six steps that end in `connect()`,
`ReleaseLemma` the two that give a lease back, and `FlushStep` shows that a batch is one `Begin` of the abstract
specification, each tile under the one lease it holds.

`ProxyAdbProofs` proves, for any requests, devices, slots, attempts and evictions (`ProxyConstants`), that
`Spec` of `ProxyAdb` keeps `TypeOK`, `SlotsAndLocksExact`, `OneOperationPerDevice`, `RestartsAreJoined` and
`ForwardsAreAccountedFor`. The invariant `PInv` adds to the types what each place in an operation means:

* `SlotsFit`: the slots taken are counted by the proxies at places that have one;
* `LocksFit`: proxies at places that have a mutex have different ones, and these are the locked ones. It is
  about mutexes and not devices, for after an eviction a device has two;
* `LocalsFit`: the locals that the next step reads are set at its place;
* `RestartsFit`: whoever runs a restart is the one that `inFlight` names for its device, from its entry until
  it deletes it; an open channel belongs to such a proxy, before its report.

`TouchGesturesProofs` proves, for any canvases, pointers and players (`TouchConstants`), that `Spec` of
`TouchGestures` keeps `TypeOK`, `HeldFingersAreOwned` and `OwnedFingersAreHeld`, and that two pointers
of a canvas never have the same identifier (`PointersStayApart`). The invariant `GInv` treats pointers and
players alike, as owners: a finger that is down is abandoned or an owner has it, what an owner has is down or
shared, and (`Exclusive`) what two owners have is shared. `IdentifiersDiffer` rests on
`FreeIdLemma`: among as many identifiers as there are pointers, and one more, the least one that
no pointer has exists. `DownLemma` and `LiftLemma` are the two ways in which fingers change.

`UhidInputProofs` proves, for any phones, keys and bounds (`UhidConstants`), that `Spec` of
`UhidInput` keeps `TypeOK`, `KeysAgree`, `CreationLosesNoKey` and `ContactFollows`. The invariant `UInv` says,
for each key that is not excused, where what the page wants of it is (`KeyFits`): in the last waiting
message about it or, if none waits, in the session. An overtaken message would
break this, so that its keys are excused at that step and not before. `KeyboardFits` adds that the
keyboard shows what the session has as far as the report has room, `TouchFits` that a session whose touches
came in order has no handler left and the contact that the page wants.

`WechatAlertsProofs` proves, for any devices, profiles, notifications, capacities and bounds (`AlertConstants`),
that `Spec` of `WechatAlerts` keeps `TypeOK`, `OneLiveCollector`, `SoundsOnce`, `StaleAlertsAreExplained` and
`NotificationsArrive`. The invariant `WInv` follows a notification from the phone to the page:

* `HubFits`: the hub's map has exactly the collectors that are not cancelled, each for its device;
* `NewsFit`, for each notification that is not blamed: `News`, read over the events that the page has still to handle and
  the lines that its collector has still to publish. The last of them says what is shown now; an id that has
  come is not followed by an older one; with nothing on its way, the page has heard of it;
* `IdsFit`: an id in a line or an event has been given, and to nobody else that is shown. Without it `NewsFit` is not
  inductive, though true of every reachable state: an event of another notification with the
  same id would count as heard;
* `LastFits`: the line with which `logcat -T 1` begins is the news, unless the news was not logged;
* `SoundsFit`: the ids that sounded of late are those remembered, in their order, so that one that the
  page has forgotten has been followed by as many others as it remembers.

Its lemmas first say where the entries of a sequence are after `Tail`, `Append` and concatenation, then
what becomes of `News` when something is logged, published, dropped or handled, then there is one for each action.

`ServerStoresProofs` is about the two stores that server-go keeps in files. For any phones, endpoints, loops and
bounds (`DeviceConstants`), `Spec` of `DeviceList` keeps its types and every restart satisfies
`MappingSurvivesRestart`. The invariant `IInv` adds `Keyed` (a loop that asks or stores knows its endpoint, a request
its phone) and `FileAgrees`: as long as no write has failed, reading the file gives what the
server knows. `SaveLemma` carries it through every change of the mapping, `RestartStep` through a restart, also
one that has torn the file.

For any browsers, keys, accounts, devices and requests (`SettingsConstants`), `SettingsSpec` of
`SettingsStore` keeps `SettingsTypeOK` (no account is on two devices, in any vault) and `NewestIsStored`.
That a POST stores what others have stored before says nothing of the POSTs that are still on their way, so the
invariant `SettingsInv` adds what they carry and what they have read:

* `RequestsFit`: a request that carries the last change of an item has its value, and no other;
* `WholeFits`: a merge that is `whole` has read what is in the file still, and nobody is within a write; once it has
  truncated the file, it is the only one that writes, and what it has read has each last change that is neither
  lost nor on its way.

`Keeps`, with `KeepsOrDrops` and `KeepsOrChanges` for steps that drop a request or change an item, carries both
through every step that leaves the file alone. `AfterWrite` is for the two ends of a write, of which
`WriteStep` needs `WholeFits`.

Only model-checked: liveness (`EveryConnectionIsAnswered`, `EveryCloseEnds`,
`PictureComesBack`, `LostStreamComesBack`, `StalledPictureIsRebuilt`,
`EveryRequestIsAnswered`, `CollectorsFollow`, `ReachablePhonesAreListed`, `LostConnectionsLeave`), since it needs
fairness and ENABLED, which the prover does not handle. Every safety property that a run checks is proved, but for
the two of section 5 that the code violates.

## 7. Plan

Done: the core (sessions), then along the way of a picture: video, tiles, proxy; then the way back
(UHID keys and touches, gestures), notifications, settings, and the device list.

Not modelled, and why:

* visual alerts: the matching of images is numeric. Confirmation count, cooldown and a
  verification in flight (`useVisualAlert.ts:217`) would be the next module;
* the cache of properties of `goog-device-list`, and the pushed helpers: caches filled outside their locks. What
  can go wrong is a stale entry; the code promises nothing about it that a property could state;
* the multiplexer's channels: a protocol that only the shell page uses;
* order and numbers of tiles: one browser's list and table, small and sequential apart from the
  races of the settings file that `SettingsStore` has;
* file, media, app and display helpers: sequences of ADB calls within one request;
* client UI, launchers, Android helpers: presentation, and programs that start, do one thing and end.

Most of the client's lines are such presentation (`App.tsx`, the panels and modals): the map
covers the hooks and libraries where their state machines are.

Next proofs: the action lemmas behind the liveness properties (that the step which fairness forces
brings what is waited for nearer), and the invariants of a module for visual alerts once there is one.

## 8. How to run

    tlc -config sessions.cfg MCStreamSessions
    tlc -config video.cfg MCVideoPipeline
    tlc -config tile.cfg MCTileStream
    tlc -config proxy.cfg MCProxyAdb
    tlc -config wechat.cfg MCWechatAlerts
    tlc -config uhid.cfg MCUhidInput
    tlc -config touch.cfg MCTouchGestures
    tlc -config settings.cfg MCSettingsStore
    tlc -config devices.cfg MCDeviceList
    tlapm StreamSessionsProofs.tla
    tlapm VideoPipelineProofs.tla
    tlapm TileStreamProofs.tla
    tlapm ProxyAdbProofs.tla
    tlapm TouchGesturesProofs.tla
    tlapm UhidInputProofs.tla
    tlapm WechatAlertsProofs.tla
    tlapm ServerStoresProofs.tla

Each run takes about two minutes at most, as do the proofs of a module.
