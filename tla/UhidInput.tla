------------------------------ MODULE UhidInput ------------------------------
(***************************************************************************)
(* UHID keyboards and touch screens: the page sends key and touch messages *)
(* to its target devices (useDirectKeyboard.ts, touchControls.ts), and the *)
(* session of each device in stream-node handles them (scrcpySession.ts).  *)
(*                                                                         *)
(* A handler awaits the creation of its device, and for touches the answer *)
(* of its own dumpsys, and the next message does not wait for it: index.ts *)
(* calls handleControl from an async listener.  Writes to the controller   *)
(* keep their order, so what a handler writes is there at once, and only   *)
(* the acknowledgement of a creation is awaited.  A message is received    *)
(* when it is sent: its way over the socket only delays it, in order.      *)
(***************************************************************************)
EXTENDS Naturals, Sequences, FiniteSets, SequencesExt

CONSTANTS
  Udids,       \* devices
  Usages,      \* HID usages, those of modifiers too
  Modifiers,   \* usages that a bit of the report's first byte stands for
  MaxKeys,     \* other keys a report has room for (6)
  MaxPending   \* bound: handlers that wait in one session

ASSUME UhidConstants ==
  /\ IsFiniteSet(Udids) /\ IsFiniteSet(Usages) /\ Modifiers \subseteq Usages
  /\ MaxKeys \in Nat \ {0} /\ MaxPending \in Nat \ {0}

\* Key messages: u is 0 in a RESET.
Messages == [action : {"DOWN", "UP"}, usage : Usages] \cup [action : {"RESET"}, usage : {0}]

Affected(m) == IF m.action = "RESET" THEN Usages ELSE {m.usage}

VARIABLES
  pressed,   \* page: pressedUhidUsagesRef
  target,    \* page: devices resolveTargets finds for the active one
  finger,    \* page: devices that a pointer is down on
  session,   \* per device: its session, whose socket is open while it is up
  shown,     \* device: keys of its UHID keyboard that are down
  contact,   \* device: whether its UHID touch screen is touched
  excused,   \* history: keys that page and device may disagree on
  wanted,    \* history: per device, what the last touch message asked for
  inOrder    \* history: devices with a touch message that no other waited before

vars == <<pressed, target, finger, session, shown, contact, excused, wanted, inOrder>>
touchVars == <<finger, contact, wanted, inOrder>>
keyVars == <<pressed, target, shown, excused>>

\* `keyboard`, `touch`: #uHidKeyboardReady and #uHidTouchReady; `calibration`:
\* #uHidTouchCalibration, undefined, there or null; `keys`: #uHidKeyboardKeys and
\* #uHidKeyboardModifiers.  Handlers wait in `keyCreates` and `touchCreates` for
\* their creation, in `asking` for their dumpsys.
Session ==
  [up : BOOLEAN, keyboard : BOOLEAN, touch : BOOLEAN, calibration : {"unknown", "found", "missing"},
   keys : SUBSET Usages, keyCreates : Seq(Messages), touchCreates : Seq(BOOLEAN), asking : Seq(BOOLEAN)]

NoSession ==
  [up |-> FALSE, keyboard |-> FALSE, touch |-> FALSE, calibration |-> "unknown", keys |-> {},
   keyCreates |-> <<>>, touchCreates |-> <<>>, asking |-> <<>>]

Pending(r) == Len(r.keyCreates) + Len(r.touchCreates) + Len(r.asking)

TypeOK ==
  /\ pressed \subseteq Usages /\ target \subseteq Udids
  /\ finger \subseteq Udids /\ contact \subseteq Udids /\ inOrder \subseteq Udids
  /\ session \in [Udids -> Session]
  /\ \A d \in Udids : Pending(session[d]) <= MaxPending
  /\ shown \in [Udids -> SUBSET Usages] /\ excused \in [Udids -> SUBSET Usages]
  /\ wanted \in [Udids -> BOOLEAN]

Init ==
  /\ pressed = {} /\ target = {} /\ finger = {} /\ contact = {} /\ inOrder = {}
  /\ session = [d \in Udids |-> NoSession]
  /\ shown = [d \in Udids |-> {}]
  /\ excused = [d \in Udids |-> {}]
  /\ wanted = [d \in Udids |-> FALSE]

-----------------------------------------------------------------------------
(* A session.                                                              *)

\* Mutant: a RESET leaves the modifiers.
Applied_KeepModifiers(keys, m) ==
  CASE m.action = "DOWN" -> keys \cup {m.usage}
    [] m.action = "UP" -> keys \ {m.usage}
    [] m.action = "RESET" -> keys \cap Modifiers

\* #injectUhidKeyboard: the keys after a message.
Applied(keys, m) ==
  CASE m.action = "DOWN" -> keys \cup {m.usage}
    [] m.action = "UP" -> keys \ {m.usage}
    [] m.action = "RESET" -> {}

\* What the keyboard shows after #sendUhidKeyboardReport: with more keys than there
\* is room for the report says so, and only its modifiers count.
Reported(keys, old) ==
  IF Cardinality(keys \ Modifiers) > MaxKeys
  THEN (old \ Modifiers) \cup (keys \cap Modifiers)
  ELSE keys

\* Mutant: the flag is set by the last handler that waits for a creation.
Ready_LastCreation(r) == Len(r.keyCreates) = 1

\* #uHidKeyboardReady, once a handler's creation is acknowledged.
Ready(r) == TRUE

\* The sessions and keyboards after the page has sent m to its targets.  A session
\* without a keyboard creates one, anew if another handler waits for it: what the
\* keyboard showed is gone.
Send(m) ==
  LET to == {d \in target : session[d].up}
      direct == {d \in to : session[d].keyboard}
  IN
  /\ \A d \in to \ direct : Pending(session[d]) < MaxPending
  /\ session' = [d \in Udids |->
       IF d \in direct THEN [session[d] EXCEPT !.keys = Applied(@, m)]
       ELSE IF d \in to THEN [session[d] EXCEPT !.keyCreates = Append(@, m)]
       ELSE session[d]]
  /\ shown' = [d \in Udids |->
       IF d \in direct THEN Reported(Applied(session[d].keys, m), shown[d])
       ELSE IF d \in to THEN {}
       ELSE shown[d]]
  /\ excused' = [d \in Udids |->
       IF d \in direct
       THEN (excused[d] \ Affected(m)) \cup UNION {Affected(w) : w \in ToSet(session[d].keyCreates)}
       ELSE excused[d]]

\* #ensureUhidKeyboard resumes, and #injectUhidKeyboard with it.  A creation fails only
\* with the controller's connection, and then the session ends.
KeyboardCreated(d) ==
  /\ session[d].keyCreates # <<>>
  /\ LET m == Head(session[d].keyCreates)
         keys == Applied(session[d].keys, m)
     IN /\ session' = [session EXCEPT
             ![d].keyboard = @ \/ Ready(session[d]), ![d].keys = keys, ![d].keyCreates = Tail(@)]
        /\ shown' = [shown EXCEPT ![d] = Reported(keys, @)]
  /\ UNCHANGED <<touchVars, pressed, target, excused>>

\* Mutant: null is asked for again.
Calibrates_Found(r) == r.calibration = "found"

\* #uHidTouchCalibration is not undefined.
Calibrates(r) == r.calibration # "unknown"

Touched(d, t) == contact' = IF t THEN contact \cup {d} ELSE contact \ {d}

\* #injectUhidTouch, from the calibration on, for a handler of session r: its report,
\* or a dumpsys of its own.
Calibrated(d, r, t) ==
  IF Calibrates(r)
  THEN session' = [session EXCEPT ![d] = r] /\ Touched(d, t)
  ELSE session' = [session EXCEPT ![d] = [r EXCEPT !.asking = Append(@, t)]] /\ UNCHANGED contact

\* A touch message: t for DOWN and MOVE, which report the same, otherwise UP.
Receive(d, t) ==
  /\ wanted' = [wanted EXCEPT ![d] = t]
  /\ inOrder' = IF session[d].calibration # "unknown" /\ Pending(session[d]) = 0 THEN inOrder \cup {d} ELSE inOrder
  /\ IF session[d].touch THEN Calibrated(d, session[d], t)
     ELSE /\ session' = [session EXCEPT ![d].touchCreates = Append(@, t)]
          /\ contact' = contact \ {d}

\* #ensureUhidTouch resumes.
TouchCreated(d) ==
  /\ session[d].touchCreates # <<>>
  /\ Calibrated(d, [session[d] EXCEPT !.touch = TRUE, !.touchCreates = Tail(@)],
                Head(session[d].touchCreates))
  /\ UNCHANGED <<keyVars, finger, wanted, inOrder>>

\* One of the dumpsys ends, any of them first, well or not: #getUhidTouchCalibration
\* keeps what it finds and the handler reports.
Answered(d) ==
  /\ \E i \in DOMAIN session[d].asking, found \in {"found", "missing"} :
       /\ session' = [session EXCEPT ![d].calibration = found, ![d].asking = RemoveAt(@, i)]
       /\ Touched(d, session[d].asking[i])
  /\ UNCHANGED <<keyVars, finger, wanted, inOrder>>

\* The session starts, on a device without UHID devices of an earlier one.
Start(d) ==
  /\ ~session[d].up
  /\ session' = [session EXCEPT ![d].up = TRUE]
  /\ excused' = [excused EXCEPT ![d] = pressed]
  /\ UNCHANGED <<touchVars, pressed, target, shown>>

\* It ends: #releaseUhidDevices, and the end of the scrcpy server, take the devices away.
End(d) ==
  /\ session[d].up
  /\ session' = [session EXCEPT ![d] = NoSession]
  /\ shown' = [shown EXCEPT ![d] = {}]
  /\ excused' = [excused EXCEPT ![d] = Usages]
  /\ contact' = contact \ {d} /\ finger' = finger \ {d} /\ inOrder' = inOrder \ {d}
  /\ wanted' = [wanted EXCEPT ![d] = FALSE]
  /\ UNCHANGED <<pressed, target>>

-----------------------------------------------------------------------------
(* The page.                                                               *)

\* onKeyDown: a key that is pressed already is not sent again.
KeyDown(u) ==
  /\ u \notin pressed
  /\ pressed' = pressed \cup {u}
  /\ Send([action |-> "DOWN", usage |-> u])
  /\ UNCHANGED <<touchVars, target>>

\* onKeyUp; it is not called, or returns early, while an editable element or another
\* window has the focus.
KeyUp(u) ==
  /\ pressed' = pressed \ {u}
  /\ Send([action |-> "UP", usage |-> u])
  /\ UNCHANGED <<touchVars, target>>

\* The keys are forgotten and the targets are told.
Forgotten == pressed' = {} /\ Send([action |-> "RESET", usage |-> 0])

\* releaseUhidKeyboard: on blur, a change of the control mode or of the pointer lock.
Release ==
  /\ pressed # {}
  /\ Forgotten
  /\ UNCHANGED <<touchVars, target>>

\* Another device gets active, or the sync group changes: no key is released.
Retarget ==
  /\ \E T \in SUBSET Udids : T # target /\ target' = T
  /\ excused' = [d \in Udids |->
       IF d \in target \ target'
       THEN excused[d] \cup session[d].keys \cup UNION {Affected(m) : m \in ToSet(session[d].keyCreates)}
       ELSE IF d \in target' \ target THEN excused[d] \cup pressed \cup session[d].keys
       ELSE excused[d]]
  /\ UNCHANGED <<touchVars, pressed, session, shown>>

\* A pointer is pressed, moved or lifted on a device in UHID mode.
Touch(d) ==
  /\ session[d].up /\ Pending(session[d]) < MaxPending
  /\ \/ finger' = finger \cup {d} /\ Receive(d, TRUE)
     \/ d \in finger /\ finger' = finger \ {d} /\ Receive(d, FALSE)
  /\ UNCHANGED keyVars

-----------------------------------------------------------------------------
Next ==
  \/ \E d \in Udids : Start(d) \/ End(d) \/ KeyboardCreated(d) \/ TouchCreated(d) \/ Answered(d) \/ Touch(d)
  \/ \E u \in Usages : KeyDown(u) \/ KeyUp(u)
  \/ Release \/ Retarget

Spec == Init /\ [][Next]_vars

-----------------------------------------------------------------------------
(* Properties.                                                             *)

\* The keys a device shows are the ones the page has pressed for it, if no handler
\* waits and the report had room for all, except where a key was held while the
\* device became or ceased to be a target or its session began, or where the handler
\* that created the keyboard was overtaken (useDirectKeyboard, #injectUhidKeyboard).
KeysAgree ==
  \A d \in Udids :
    LET r == session[d] IN
    (r.up /\ r.keyCreates = <<>> /\ Cardinality(r.keys \ Modifiers) <= MaxKeys) =>
      \A u \in Usages \ excused[d] : u \in shown[d] <=> (d \in target /\ u \in pressed)

\* A keyboard that shows a key is never created again, which would let go of it: the
\* creations that overlap are all written before the first report (#ensureUhidKeyboard).
CreationLosesNoKey == \A d \in Udids : ~session[d].keyboard => shown[d] = {}

\* From the first touch message on that finds the calibration there and nothing
\* waiting, the contact is what the last message asked for (#injectUhidTouch).
ContactFollows == \A d \in inOrder : d \in contact <=> wanted[d]
=============================================================================
