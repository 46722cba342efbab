--------------------------- MODULE TouchGestures ---------------------------
(***************************************************************************)
(* Fingers that the page puts on the devices: the pointers of a canvas and *)
(* the replays for delayed followers (touchControls.ts), the pinch of the  *)
(* wheel, the BACK key of the right button, and the swipes and taps of a   *)
(* script (automation.ts).                                                 *)
(*                                                                         *)
(* A finger is known to a device by its identifier alone, and each canvas  *)
(* counts its own from 0.  Coordinates, offsets and the order among        *)
(* followers are left out.  What a gesture has captured of a socket that   *)
(* closed is of no use to it any more: its sends there are dropped.        *)
(***************************************************************************)
EXTENDS Integers, FiniteSets, FiniteSetsExt

CONSTANTS
  Udids,      \* devices, each with a canvas that has touch controls
  Pointers,   \* pointers of the browser
  Players,    \* bound: replays, pinches, BACK keys and scripts under way
  None

ASSUME TouchConstants ==
  /\ IsFiniteSet(Udids) /\ IsFiniteSet(Pointers) /\ None \notin Udids \cup Pointers \cup Int

\* Identifiers: of pointers from 0, of scripts 0, of the pinch 90 (that stands for 91
\* too), and -1 for the BACK key, which is no finger.
PointerIds == 0 .. Cardinality(Pointers) - 1
IdOf == [pinch |-> 90, back |-> -1]
Pids == PointerIds \cup {0, IdOf.pinch, IdOf.back}

VARIABLES
  link,       \* devices whose tile has an open socket and a canvas
  reach,      \* per device: those that are controlled with it, now
  delay,      \* syncTimeSettings.delayEnabled
  gesture,    \* per canvas and pointer: its state in `active`, and its identifier
  player,     \* per slot: an asynchronous function that sends touches
  fingers,    \* device: identifiers that are down
  abandoned,  \* history: fingers whose gesture has ended without an UP
  shared      \* history: fingers that two have put down, or BACK has lifted for another

history == <<abandoned, shared>>
vars == <<link, reach, delay, gesture, player, fingers, abandoned, shared>>

\* `targets`: touchTargets; `later`: delayedFollowers.
Gesture == [pid : PointerIds \cup {None}, targets : SUBSET Udids, later : SUBSET Udids]
NoGesture == [pid |-> None, targets |-> {}, later |-> {}]

\* `down`: devices it has sent a DOWN; `todo`: those still to come; `live`: its delay
\* generation is the current one, or its signal is not aborted; `isolated`: Alt was
\* down, and a BACK key is for its own canvas alone.
Player == [kind : {"none", "replay", "pinch", "back", "tap", "swipe"}, pid : Pids \cup {None},
           canvas : Udids \cup {None}, isolated : BOOLEAN, down : SUBSET Udids, todo : SUBSET Udids,
           live : BOOLEAN]
NoPlayer == [kind |-> "none", pid |-> None, canvas |-> None, isolated |-> FALSE, down |-> {}, todo |-> {},
             live |-> TRUE]

Fingers == Udids \X Pids

TypeOK ==
  /\ link \subseteq Udids /\ reach \in [Udids -> SUBSET Udids]
  /\ delay \in BOOLEAN
  /\ gesture \in [Udids -> [Pointers -> Gesture]]
  /\ player \in [Players -> Player]
  /\ fingers \subseteq Fingers /\ abandoned \subseteq Fingers /\ shared \subseteq Fingers

Init ==
  /\ link = {} /\ reach = [c \in Udids |-> {c}]
  /\ delay = FALSE
  /\ gesture = [c \in Udids |-> [p \in Pointers |-> NoGesture]]
  /\ player = [s \in Players |-> NoPlayer]
  /\ fingers = {} /\ abandoned = {} /\ shared = {}

-----------------------------------------------------------------------------

\* Fingers that a pointer, or a player, has down.
OfPointer(g) == g.targets \X {g.pid}
OfPlayer(r) == r.down \X {r.pid}
Owned ==
  (UNION {OfPointer(gesture[c][p]) : c \in Udids, p \in Pointers})
    \cup UNION {OfPlayer(player[s]) : s \in Players}

\* Those of others than the pointers of a canvas.
OwnedElsewhere(c) ==
  (UNION {OfPointer(gesture[e][p]) : e \in Udids \ {c}, p \in Pointers})
    \cup UNION {OfPlayer(player[s]) : s \in Players}

\* sendTouch for DOWN: a finger that another has is shared from now on.
Down(D, pid, others) ==
  LET fs == D \X {pid} IN
  /\ fingers' = fingers \cup fs
  /\ abandoned' = abandoned \ fs
  /\ shared' = (shared \ fs) \cup (fs \cap others)

\* sendTouch for UP.
Up(D, pid) ==
  /\ fingers' = fingers \ (D \X {pid})
  /\ abandoned' = abandoned \ (D \X {pid})
  /\ UNCHANGED shared

\* resolveTargets, for the device of a canvas: those of its devices that are open.
Targets(c) == link \cap reach[c]

\* prepareTouchTargets: the source, or the first target if its own socket is closed.
Sources(c) == IF c \in Targets(c) THEN {c} ELSE Targets(c)

\* Mutant: the number of pointers that are down, which one of them may have.
FreeId_Count(c) == Cardinality({p \in Pointers : gesture[c][p] # NoGesture})

\* makePointerIdAllocator: the least that no pointer of the canvas has.
FreeId(c) == Min(PointerIds \ {gesture[c][p].pid : p \in Pointers})

Idle(s) == player[s].kind = "none"

-----------------------------------------------------------------------------
(* Pointers.                                                               *)

\* onPointerDown, also from onPointerMove with a button down.  A pointer that a
\* canvas has captured is on no other.
Press(c, p) ==
  /\ Targets(c) # {}
  /\ \A e \in Udids : gesture[e][p] = NoGesture
  /\ \E source \in Sources(c), isolated \in BOOLEAN :
       LET followers == IF isolated THEN {} ELSE Targets(c) \ {source}
           slow == delay /\ followers # {}
           g == [pid |-> FreeId(c),
                 targets |-> IF slow THEN {source} ELSE {source} \cup followers,
                 later |-> IF slow THEN followers ELSE {}]
       IN /\ gesture' = [gesture EXCEPT ![c][p] = g]
          /\ Down(g.targets, g.pid, OwnedElsewhere(c))
  /\ UNCHANGED <<link, reach, delay, player>>

\* onPointerMove and scheduleMoveFlush; a device takes a MOVE of a finger that was
\* lifted for a finger.
Move(c, p) ==
  /\ gesture[c][p] # NoGesture
  /\ fingers' = fingers \cup OfPointer(gesture[c][p])
  /\ UNCHANGED <<link, reach, delay, gesture, player, history>>

\* Mutant: the targets of an UP are looked up anew.
LiftedOn_Now(c, p) == Targets(c)

LiftedOn(c, p) == gesture[c][p].targets

\* onPointerUpOrCancel, with replayDelayedFollowers for those that are delayed.
Lift(c, p) ==
  /\ gesture[c][p] # NoGesture
  /\ Up(LiftedOn(c, p), gesture[c][p].pid)
  /\ IF gesture[c][p].later = {} THEN UNCHANGED player
     ELSE \E s \in Players :
            /\ Idle(s)
            /\ player' = [player EXCEPT ![s] =
                 [NoPlayer EXCEPT !.kind = "replay", !.pid = gesture[c][p].pid, !.todo = gesture[c][p].later]]
  /\ gesture' = [gesture EXCEPT ![c][p] = NoGesture]
  /\ UNCHANGED <<link, reach, delay>>

\* The effect that attaches the controls runs again, or for good on an unmount: the
\* pointers that are down are forgotten with the old closure.
Reattach(c) ==
  /\ gesture' = [gesture EXCEPT ![c] = [p \in Pointers |-> NoGesture]]
  /\ abandoned' = abandoned \cup UNION {OfPointer(gesture[c][p]) : p \in Pointers}
  /\ UNCHANGED <<link, reach, delay, player, fingers, shared>>

-----------------------------------------------------------------------------
(* Players.                                                                *)

\* sendToTargets: all targets of now or, isolated, the canvas's own.
KeyTargets(c, isolated) == IF isolated THEN Targets(c) \cap {c} ELSE Targets(c)

\* sendPinchGestureFromWheel and sendBackKey: DOWN at once.  A slow pinch is for
\* its source alone, as an isolated one is.
Burst(c) ==
  /\ Targets(c) # {}
  /\ \E s \in Players, kind \in {"pinch", "back"}, source \in Sources(c), isolated \in BOOLEAN :
       LET D == IF kind = "back" THEN KeyTargets(c, isolated)
                ELSE IF isolated \/ delay THEN {source} ELSE Targets(c)
       IN /\ Idle(s)
          /\ player' = [player EXCEPT ![s] =
               [NoPlayer EXCEPT !.kind = kind, !.pid = IdOf[kind], !.canvas = c, !.isolated = isolated,
                                !.down = D]]
          /\ Down(D, IdOf[kind], Owned)
  /\ UNCHANGED <<link, reach, delay, gesture>>

\* runScript: one tap or swipe on some devices, with identifier 0.
Run ==
  /\ \E s \in Players, kind \in {"tap", "swipe"}, D \in (SUBSET link) \ {{}} :
       /\ Idle(s)
       /\ player' = [player EXCEPT ![s] = [NoPlayer EXCEPT !.kind = kind, !.pid = 0, !.todo = D]]
  /\ UNCHANGED <<link, reach, delay, gesture, fingers, history>>

\* Whether a player goes on with its next device; a script that is aborted forgets its own.
GoesOn(r) == r.kind = "replay" => r.live /\ delay

\* The DOWN on the next device.
Next_(s) ==
  /\ player[s].down = {} /\ GoesOn(player[s])
  /\ \E d \in player[s].todo :
       /\ player' = [player EXCEPT ![s].down = {d}, ![s].todo = @ \ {d}]
       /\ Down({d}, player[s].pid, Owned)
  /\ UNCHANGED <<link, reach, delay, gesture>>

\* A replay, a pinch and a tap lift what they put down, cancelled or not.
LiftsAtEnd(r) == r.kind = "swipe" => r.live

\* The UP, or, of a swipe that is aborted, none.
PlayerLifts(s) ==
  LET r == player[s] IN
  /\ r.kind # "back" /\ r.down # {}
  /\ IF LiftsAtEnd(r)
     THEN Up(r.down, r.pid) /\ player' = [player EXCEPT ![s].down = {}]
     ELSE /\ abandoned' = abandoned \cup OfPlayer(r)
          /\ player' = [player EXCEPT ![s] = NoPlayer]
          /\ UNCHANGED <<fingers, shared>>
  /\ UNCHANGED <<link, reach, delay, gesture>>

\* The timeout of sendBackKey: BACK goes up on the targets of now, one or more of which
\* another BACK may hold.
BackLifts(s) ==
  LET r == player[s]
      D == KeyTargets(r.canvas, r.isolated)
      others == UNION {OfPlayer(player[q]) : q \in Players \ {s}}
  IN
  /\ r.kind = "back"
  /\ fingers' = fingers \ (D \X {r.pid})
  /\ abandoned' = (abandoned \cup OfPlayer(r)) \ (D \X {r.pid})
  /\ shared' = shared \cup ((D \X {r.pid}) \cap others)
  /\ player' = [player EXCEPT ![s] = NoPlayer]
  /\ UNCHANGED <<link, reach, delay, gesture>>

\* It returns: at its end, or cancelled between two devices.
Returns(s) ==
  /\ player[s].kind \notin {"none", "back"} /\ player[s].down = {}
  /\ player[s].todo = {} \/ ~GoesOn(player[s])
  /\ player' = [player EXCEPT ![s] = NoPlayer]
  /\ UNCHANGED <<link, reach, delay, gesture, fingers, history>>

\* A script's signal is aborted.  If it waits for the delay of its next device, it
\* still goes on with that one.
Abort(s) ==
  /\ player[s].kind \in {"tap", "swipe"} /\ player[s].live
  /\ \E rest \in {{}} \cup {{d} : d \in player[s].todo} :
       /\ player[s].down # {} => rest = {}
       /\ player' = [player EXCEPT ![s].live = FALSE, ![s].todo = rest]
  /\ UNCHANGED <<link, reach, delay, gesture, fingers, history>>

\* saveSyncTimeSettings: without the delay the generation of every replay is over.
SetDelay ==
  /\ delay' = ~delay
  /\ player' = [s \in Players |->
       IF delay /\ player[s].kind = "replay" THEN [player[s] EXCEPT !.live = FALSE] ELSE player[s]]
  /\ UNCHANGED <<link, reach, gesture, fingers, history>>

-----------------------------------------------------------------------------
(* Devices.                                                                *)

\* What the sync group (`main` and `others`), syncAll and Alt over one device, `solo`,
\* make of a canvas.
Resolved(c, main, others, all, solo) ==
  LET group == others \cup {main} IN
  IF solo # None THEN {c} \cap {solo}
  ELSE IF c \in group THEN group \ {None}
  ELSE IF all THEN {c} \cup others ELSE {c}

Reaches ==
  {[c \in Udids |-> Resolved(c, main, others, all, solo)] :
     main \in Udids \cup {None}, solo \in Udids \cup {None}, others \in SUBSET Udids, all \in BOOLEAN}

\* The sync group or syncAll changes, or Alt is pressed, released or moved to another tile.
Regroup ==
  /\ reach' \in Reaches \ {reach}
  /\ UNCHANGED <<link, delay, gesture, player, fingers, history>>

LinkOpens(d) ==
  /\ d \notin link /\ link' = link \cup {d}
  /\ UNCHANGED <<reach, delay, gesture, player, fingers, history>>

\* The session of a socket that closes ends, and with it the fingers on the device.
LinkCloses(d) ==
  /\ d \in link /\ link' = link \ {d}
  /\ fingers' = {f \in fingers : f[1] # d}
  /\ abandoned' = {f \in abandoned : f[1] # d}
  /\ shared' = {f \in shared : f[1] # d}
  /\ gesture' = [c \in Udids |-> [p \in Pointers |->
       [gesture[c][p] EXCEPT !.targets = @ \ {d}, !.later = @ \ {d}]]]
  /\ player' = [s \in Players |-> [player[s] EXCEPT !.down = @ \ {d}, !.todo = @ \ {d}]]
  /\ UNCHANGED <<reach, delay>>

-----------------------------------------------------------------------------
Next ==
  \/ \E c \in Udids : \/ Burst(c) \/ Reattach(c) \/ LinkOpens(c) \/ LinkCloses(c)
                      \/ \E p \in Pointers : Press(c, p) \/ Move(c, p) \/ Lift(c, p)
  \/ \E s \in Players : Next_(s) \/ PlayerLifts(s) \/ BackLifts(s) \/ Returns(s) \/ Abort(s)
  \/ Run \/ SetDelay \/ Regroup

Spec == Init /\ [][Next]_vars

-----------------------------------------------------------------------------
(* Properties.                                                             *)

\* A finger that is down on a device belongs to a pointer or a player that will lift
\* it, unless its gesture was detached, its script aborted within a swipe, or the
\* targets changed while BACK was down (onPointerUpOrCancel, replayDelayedFollowers).
HeldFingersAreOwned == fingers \subseteq Owned \cup abandoned

\* A finger that a pointer or a player has put down stays down until that one lifts
\* it, unless another has put down a finger with the same identifier meanwhile, from
\* another canvas, a replay or a script (makePointerIdAllocator), or another BACK key
\* went up on targets it had not gone down on (sendBackKey).
OwnedFingersAreHeld == Owned \subseteq fingers \cup shared
=============================================================================
