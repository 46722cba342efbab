--------------------------- MODULE UhidInputProofs ---------------------------
(***************************************************************************)
(* Proofs about UhidInput: the keys a device shows, the creation of its    *)
(* keyboard and the contact of its touch screen, for any devices, usages,  *)
(* room in a report and number of handlers that wait.                      *)
(***************************************************************************)
EXTENDS UhidInput, FiniteSetTheorems, SequenceTheorems, TLAPS

-----------------------------------------------------------------------------
(* The inductive invariant.                                                *)

\* What the page wants of a key of d.
Wanted(d, u) == d \in target /\ u \in pressed

\* The waiting message i is the last one about u.
LastAbout(kc, i, u) ==
  /\ i \in DOMAIN kc /\ u \in Affected(kc[i])
  /\ \A j \in DOMAIN kc : j > i => u \notin Affected(kc[j])

\* What the page wants of u is what the last waiting message about u says, or what
\* the handler has if none waits.
KeyFits(d, u) ==
  LET r == session[d] IN
  /\ \A i \in DOMAIN r.keyCreates :
       LastAbout(r.keyCreates, i, u) => (r.keyCreates[i].action = "DOWN" <=> Wanted(d, u))
  /\ (\A i \in DOMAIN r.keyCreates : u \notin Affected(r.keyCreates[i]))
       => (u \in r.keys <=> Wanted(d, u))

\* The keyboard shows what the session has, where the report had room; a session
\* without a keyboard has no key.
KeyboardFits(d) ==
  /\ ~session[d].keyboard => session[d].keys = {}
  /\ Cardinality(session[d].keys \ Modifiers) <= MaxKeys => shown[d] = session[d].keys

KeysFit == \A d \in Udids : session[d].up => \A u \in Usages \ excused[d] : KeyFits(d, u)

\* Handlers ask for the calibration once there is a touch screen; in order, none waits.
TouchFits(d) ==
  /\ session[d].asking # <<>> \/ session[d].calibration # "unknown" => session[d].touch
  /\ d \in inOrder => /\ session[d].up /\ session[d].calibration # "unknown"
                      /\ session[d].touchCreates = <<>> /\ session[d].asking = <<>>
                      /\ d \in contact <=> wanted[d]

UInv ==
  /\ TypeOK /\ KeysFit
  /\ \A d \in Udids : ~session[d].up => session[d] = NoSession
  /\ \A d \in Udids : KeyboardFits(d) /\ TouchFits(d)

-----------------------------------------------------------------------------
(* Messages and sequences.                                                 *)

\* After a message a key that it is about is down if the message says so, and the
\* others are as before.
LEMMA AppliedLemma ==
  ASSUME NEW keys \in SUBSET Usages, NEW m \in Messages
  PROVE  /\ Applied(keys, m) \in SUBSET Usages
         /\ \A u \in Usages :
              u \in Applied(keys, m) <=> IF u \in Affected(m) THEN m.action = "DOWN" ELSE u \in keys
<1>1. CASE m.action = "DOWN"
  BY <1>1 DEF Applied, Affected, Messages
<1>2. CASE m.action = "UP"
  BY <1>2 DEF Applied, Affected, Messages
<1>3. CASE m.action = "RESET"
  BY <1>3 DEF Applied, Affected, Messages
<1> QED BY <1>1, <1>2, <1>3 DEF Messages

\* A report shows the keys of its session where there is room.
LEMMA ReportedLemma ==
  ASSUME NEW keys \in SUBSET Usages, NEW old \in SUBSET Usages
  PROVE  /\ Reported(keys, old) \in SUBSET Usages
         /\ Cardinality(keys \ Modifiers) <= MaxKeys => Reported(keys, old) = keys
<1>1. IsFiniteSet(keys \ Modifiers)
  BY UhidConstants, FS_Subset
<1>2. Cardinality(keys \ Modifiers) \in Nat /\ MaxKeys \in Nat
  BY <1>1, FS_CardinalityType, UhidConstants
<1> QED BY <1>2, UhidConstants DEF Reported

LEMMA NoKeysLemma == Cardinality({} \ Modifiers) <= MaxKeys
<1>1. {} \ Modifiers = {}
  OBVIOUS
<1> QED BY <1>1, FS_EmptySet, UhidConstants

LEMMA RemoveAtLemma ==
  ASSUME NEW S, NEW s \in Seq(S), NEW i \in DOMAIN s
  PROVE  RemoveAt(s, i) \in Seq(S) /\ Len(RemoveAt(s, i)) = Len(s) - 1
<1>1. Len(s) \in Nat /\ i \in 1 .. Len(s) /\ \A j \in 1 .. Len(s) : s[j] \in S
  BY LenProperties
<1> DEFINE a == SubSeq(s, 1, i - 1)
           b == SubSeq(s, i + 1, Len(s))
<1>2. a \in Seq(S) /\ Len(a) = i - 1
  <2>1. i - 1 \in Int /\ \A j \in 1 .. i - 1 : s[j] \in S
    BY <1>1
  <2>2. a \in Seq(S) /\ Len(a) = IF 1 <= i - 1 THEN (i - 1) - 1 + 1 ELSE 0
    BY <2>1, SubSeqProperties
  <2> QED BY <1>1, <2>2
<1>3. b \in Seq(S) /\ Len(b) = Len(s) - i
  <2>1. i + 1 \in Int /\ Len(s) \in Int /\ \A j \in i + 1 .. Len(s) : s[j] \in S
    BY <1>1
  <2>2. b \in Seq(S) /\ Len(b) = IF i + 1 <= Len(s) THEN Len(s) - (i + 1) + 1 ELSE 0
    BY <2>1, SubSeqProperties
  <2> QED BY <1>1, <2>2
<1>4. RemoveAt(s, i) = a \o b
  BY DEF RemoveAt
<1> HIDE DEF a, b
<1> QED BY <1>1, <1>2, <1>3, <1>4, ConcatProperties

\* The number of handlers that wait in a session, by its three queues.
LEMMA PendingLemma ==
  ASSUME NEW r \in Session
  PROVE  /\ Len(r.keyCreates) \in Nat /\ Len(r.touchCreates) \in Nat /\ Len(r.asking) \in Nat
         /\ Pending(r) \in Nat
         /\ Pending(r) = Len(r.keyCreates) + Len(r.touchCreates) + Len(r.asking)
         /\ Pending(r) = 0 => r.keyCreates = <<>> /\ r.touchCreates = <<>> /\ r.asking = <<>>
<1>1. r.keyCreates \in Seq(Messages) /\ r.touchCreates \in Seq(BOOLEAN) /\ r.asking \in Seq(BOOLEAN)
  BY DEF Session
<1>2. Len(r.keyCreates) \in Nat /\ Len(r.touchCreates) \in Nat /\ Len(r.asking) \in Nat
  BY <1>1, LenProperties
<1>3. /\ r.keyCreates # <<>> => Len(r.keyCreates) # 0
      /\ r.touchCreates # <<>> => Len(r.touchCreates) # 0
      /\ r.asking # <<>> => Len(r.asking) # 0
  BY <1>1, EmptySeq
<1>4. Pending(r) = Len(r.keyCreates) + Len(r.touchCreates) + Len(r.asking)
  BY DEF Pending
<1>5. \A i, j, k \in Nat : i + j + k = 0 => i = 0 /\ j = 0 /\ k = 0
  OBVIOUS
<1>6. Pending(r) = 0 =>
        Len(r.keyCreates) = 0 /\ Len(r.touchCreates) = 0 /\ Len(r.asking) = 0
  BY <1>2, <1>4, <1>5
<1>7. \A i, j, k \in Nat : i + j + k \in Nat
  OBVIOUS
<1>8. Pending(r) \in Nat
  BY <1>2, <1>4, <1>7
<1> QED BY <1>2, <1>3, <1>4, <1>6, <1>8

LEMMA NoSessionLemma ==
  /\ NoSession \in Session /\ Pending(NoSession) = 0
  /\ NoSession.up = FALSE /\ NoSession.keyboard = FALSE /\ NoSession.touch = FALSE
  /\ NoSession.calibration = "unknown" /\ NoSession.keys = {}
  /\ NoSession.keyCreates = <<>> /\ NoSession.touchCreates = <<>> /\ NoSession.asking = <<>>
BY EmptySeq DEF NoSession, Session, Pending

-----------------------------------------------------------------------------
(* One session moves.                                                      *)

LEMMA DeviceSettles ==
  ASSUME UInv, NEW d \in Udids, NEW r \in Session, session' = [session EXCEPT ![d] = r],
         Pending(r) <= MaxPending, ~r.up => r = NoSession,
         UNCHANGED <<pressed, target>>,
         finger' \subseteq Udids, contact' \subseteq Udids, inOrder' \subseteq Udids,
         shown' \in [Udids -> SUBSET Usages], excused' \in [Udids -> SUBSET Usages],
         wanted' \in [Udids -> BOOLEAN],
         \A e \in Udids \ {d} :
           /\ shown'[e] = shown[e] /\ excused'[e] = excused[e] /\ wanted'[e] = wanted[e]
           /\ e \in contact' <=> e \in contact
           /\ e \in inOrder' <=> e \in inOrder,
         r.up => \A u \in Usages \ excused'[d] : KeyFits(d, u)',
         KeyboardFits(d)', TouchFits(d)'
  PROVE  UInv'
<1>1. session' \in [Udids -> Session] /\ session'[d] = r /\ \A e \in Udids \ {d} : session'[e] = session[e]
  BY DEF UInv, TypeOK
<1>2. TypeOK'
  BY <1>1 DEF UInv, TypeOK
<1>3. KeysFit'
  <2>1. ASSUME NEW e \in Udids \ {d}, session'[e].up, NEW u \in Usages \ excused'[e]
        PROVE  KeyFits(e, u)'
    <3>1. session'[e] = session[e] /\ (Wanted(e, u)' <=> Wanted(e, u)) /\ u \in Usages \ excused[e]
      BY <1>1, <2>1 DEF Wanted
    <3>2. KeyFits(e, u)
      BY <2>1, <3>1 DEF UInv, KeysFit
    <3> QED BY <3>1, <3>2 DEF KeyFits, LastAbout
  <2> QED BY <1>1, <2>1 DEF KeysFit
<1>4. ASSUME NEW e \in Udids
      PROVE  (~session[e].up => session[e] = NoSession)'
  BY <1>1 DEF UInv
<1>5. ASSUME NEW e \in Udids
      PROVE  KeyboardFits(e)' /\ TouchFits(e)'
  <2>1. CASE e # d
    <3>1. session'[e] = session[e]
      BY <1>1, <2>1
    <3> QED BY <2>1, <3>1 DEF UInv, KeyboardFits, TouchFits
  <2> QED BY <2>1
<1> QED BY <1>2, <1>3, <1>4, <1>5 DEF UInv

\* What a step of the touch screen leaves alone in session r of d.
LEMMA TouchSettles ==
  ASSUME UInv, NEW d \in Udids, NEW r \in Session, session' = [session EXCEPT ![d] = r],
         session[d].up, r.up, Pending(r) <= MaxPending,
         r.keyboard = session[d].keyboard, r.keys = session[d].keys,
         r.keyCreates = session[d].keyCreates,
         UNCHANGED keyVars,
         finger' \subseteq Udids, contact' \subseteq Udids, inOrder' \subseteq Udids,
         wanted' \in [Udids -> BOOLEAN],
         \A e \in Udids \ {d} :
           /\ wanted'[e] = wanted[e]
           /\ e \in contact' <=> e \in contact
           /\ e \in inOrder' <=> e \in inOrder,
         TouchFits(d)'
  PROVE  UInv'
<1>1. session'[d] = r
  BY DEF UInv, TypeOK
<1>2. ASSUME NEW u \in Usages \ excused'[d]
      PROVE  KeyFits(d, u)'
  <2>1. KeyFits(d, u)
    BY DEF UInv, KeysFit, keyVars
  <2> QED BY <1>1, <2>1 DEF KeyFits, LastAbout, Wanted, keyVars
<1>3. KeyboardFits(d)'
  BY <1>1 DEF UInv, KeyboardFits, keyVars
<1>4. shown' = shown /\ excused' = excused /\ pressed' = pressed /\ target' = target
  BY DEF keyVars
<1> QED BY <1>2, <1>3, <1>4, DeviceSettles DEF UInv, TypeOK

-----------------------------------------------------------------------------
(* The steps.                                                              *)

LEMMA InitLemma == Init => UInv
<1> SUFFICES ASSUME Init PROVE UInv
  OBVIOUS
<1>1. \A d \in Udids : session[d] = NoSession
  BY DEF Init
<1>2. 0 <= MaxPending
  BY UhidConstants
<1>3. TypeOK
  BY <1>1, <1>2, NoSessionLemma DEF Init, TypeOK
<1>4. KeysFit
  BY <1>1, NoSessionLemma DEF KeysFit
<1>5. \A d \in Udids : KeyboardFits(d) /\ TouchFits(d)
  BY <1>1, NoSessionLemma DEF Init, KeyboardFits, TouchFits
<1> QED BY <1>1, <1>3, <1>4, <1>5 DEF UInv

LEMMA StartStep ==
  ASSUME UInv, NEW d \in Udids, Start(d)
  PROVE  UInv'
<1> DEFINE r == [NoSession EXCEPT !.up = TRUE]
<1>1. session[d] = NoSession
  BY DEF UInv, Start
<1>2. session' = [session EXCEPT ![d] = r]
  BY <1>1 DEF Start, UInv, TypeOK
<1>3. r \in Session /\ Pending(r) = 0
  BY NoSessionLemma DEF Session, Pending, NoSession
<1>4. /\ r.up = TRUE /\ r.keyboard = FALSE /\ r.touch = FALSE /\ r.calibration = "unknown"
      /\ r.keys = {} /\ r.keyCreates = <<>> /\ r.touchCreates = <<>> /\ r.asking = <<>>
  BY DEF NoSession
<1> HIDE DEF r
<1>5. 0 <= MaxPending
  BY UhidConstants
<1>6. /\ shown' = shown /\ finger' = finger /\ contact' = contact /\ wanted' = wanted
      /\ inOrder' = inOrder /\ pressed' = pressed /\ target' = target
      /\ excused' = [excused EXCEPT ![d] = pressed]
  BY DEF Start, touchVars
<1>7. session'[d] = r /\ excused'[d] = pressed
  BY <1>2, <1>6 DEF UInv, TypeOK
<1>8. \A u \in Usages \ excused'[d] : KeyFits(d, u)'
  BY <1>4, <1>6, <1>7 DEF KeyFits, Wanted
<1>9. KeyboardFits(d)'
  BY <1>1, <1>4, <1>6, <1>7, NoSessionLemma DEF UInv, KeyboardFits
<1>10. TouchFits(d)'
  BY <1>1, <1>4, <1>6, <1>7, NoSessionLemma DEF UInv, TouchFits
<1>11. /\ excused' \in [Udids -> SUBSET Usages]
       /\ \A e \in Udids \ {d} : excused'[e] = excused[e]
  BY <1>6 DEF UInv, TypeOK
<1> QED BY <1>2, <1>3, <1>4, <1>5, <1>6, <1>8, <1>9, <1>10, <1>11, DeviceSettles DEF UInv, TypeOK

LEMMA EndStep ==
  ASSUME UInv, NEW d \in Udids, End(d)
  PROVE  UInv'
<1>1. session' = [session EXCEPT ![d] = NoSession] /\ session'[d] = NoSession
  BY DEF End, UInv, TypeOK
<1>2. /\ shown' = [shown EXCEPT ![d] = {}] /\ excused' = [excused EXCEPT ![d] = Usages]
      /\ wanted' = [wanted EXCEPT ![d] = FALSE]
      /\ contact' = contact \ {d} /\ finger' = finger \ {d} /\ inOrder' = inOrder \ {d}
      /\ pressed' = pressed /\ target' = target
  BY DEF End
<1>3. /\ shown' \in [Udids -> SUBSET Usages] /\ shown'[d] = {}
      /\ excused' \in [Udids -> SUBSET Usages]
      /\ wanted' \in [Udids -> BOOLEAN]
      /\ \A e \in Udids \ {d} : shown'[e] = shown[e] /\ excused'[e] = excused[e] /\ wanted'[e] = wanted[e]
  BY <1>2 DEF UInv, TypeOK
<1>4. KeyboardFits(d)'
  BY <1>1, <1>3, NoSessionLemma DEF KeyboardFits
<1>5. TouchFits(d)'
  BY <1>1, <1>2, NoSessionLemma DEF TouchFits
<1>6. 0 <= MaxPending
  BY UhidConstants
<1> QED BY <1>1, <1>2, <1>3, <1>4, <1>5, <1>6, NoSessionLemma, DeviceSettles DEF UInv, TypeOK

\* The first handler that waits for the keyboard takes it, and its message with it.
LEMMA KeyboardCreatedStep ==
  ASSUME UInv, NEW d \in Udids, KeyboardCreated(d)
  PROVE  UInv'
<1> DEFINE kc == session[d].keyCreates
           m == Head(kc)
           keys == Applied(session[d].keys, m)
           r == [session[d] EXCEPT !.keyboard = TRUE, !.keys = keys, !.keyCreates = Tail(@)]
<1>1. session[d] \in Session /\ kc \in Seq(Messages) /\ kc # <<>>
      /\ session[d].keys \in SUBSET Usages /\ shown[d] \in SUBSET Usages
  BY DEF UInv, TypeOK, KeyboardCreated, Session
<1>2. /\ m \in Messages /\ Tail(kc) \in Seq(Messages) /\ Len(Tail(kc)) = Len(kc) - 1 /\ Len(kc) \in Nat
      /\ \A i \in 1 .. Len(Tail(kc)) : Tail(kc)[i] = kc[i + 1]
  BY <1>1, HeadTailProperties, LenProperties
<1>3. m = kc[1] /\ Len(kc) >= 1
  BY <1>1, <1>2, EmptySeq
<1>4. /\ keys \in SUBSET Usages
      /\ \A u \in Usages :
           u \in keys <=> IF u \in Affected(m) THEN m.action = "DOWN" ELSE u \in session[d].keys
  BY <1>1, <1>2, AppliedLemma
<1>5. /\ session' = [session EXCEPT ![d] = r]
      /\ shown' = [shown EXCEPT ![d] = Reported(keys, shown[d])]
  BY DEF KeyboardCreated, Ready, UInv, TypeOK, Session
<1>6. /\ Reported(keys, shown[d]) \in SUBSET Usages
      /\ Cardinality(keys \ Modifiers) <= MaxKeys => Reported(keys, shown[d]) = keys
  BY <1>1, <1>4, ReportedLemma
<1> HIDE DEF keys
<1>7. r \in Session
  BY <1>1, <1>2, <1>4 DEF Session
<1>8. /\ r.up = session[d].up /\ r.keyboard = TRUE /\ r.touch = session[d].touch
      /\ r.calibration = session[d].calibration /\ r.keys = keys
      /\ r.keyCreates = Tail(kc) /\ r.touchCreates = session[d].touchCreates /\ r.asking = session[d].asking
  BY <1>1 DEF Session
<1> HIDE DEF r
<1>9. Pending(r) <= MaxPending
  <2>1. /\ Pending(r) = Len(r.keyCreates) + Len(r.touchCreates) + Len(r.asking)
        /\ Pending(session[d]) = Len(kc) + Len(session[d].touchCreates) + Len(session[d].asking)
        /\ Len(session[d].touchCreates) \in Nat /\ Len(session[d].asking) \in Nat
    BY <1>1, <1>7, PendingLemma
  <2>3. Len(r.keyCreates) = Len(kc) - 1 /\ r.touchCreates = session[d].touchCreates /\ r.asking = session[d].asking
    BY <1>2, <1>8
  <2>2. Pending(session[d]) <= MaxPending /\ MaxPending \in Nat
    BY UhidConstants DEF UInv, TypeOK
  <2>4. Pending(r) = (Len(kc) - 1) + Len(session[d].touchCreates) + Len(session[d].asking)
    BY <2>1, <2>3
  <2>5. \A i, j, k, n \in Nat : i + j + k <= n => (i - 1) + j + k <= n
    OBVIOUS
  <2>6. Len(kc) + Len(session[d].touchCreates) + Len(session[d].asking) <= MaxPending
    BY <2>1, <2>2
  <2> QED BY <1>2, <2>1, <2>2, <2>4, <2>5, <2>6
<1>10. session[d].up
  BY <1>1, NoSessionLemma DEF UInv
<1>11. /\ pressed' = pressed /\ target' = target /\ excused' = excused /\ finger' = finger
       /\ contact' = contact /\ wanted' = wanted /\ inOrder' = inOrder
  BY DEF KeyboardCreated, touchVars
<1>12. session'[d] = r /\ shown'[d] = Reported(keys, shown[d])
       /\ shown' \in [Udids -> SUBSET Usages] /\ \A e \in Udids \ {d} : shown'[e] = shown[e]
  BY <1>5, <1>6 DEF UInv, TypeOK
<1>13. ASSUME NEW u \in Usages \ excused'[d]
       PROVE  KeyFits(d, u)'
  <2>1. KeyFits(d, u) /\ (Wanted(d, u)' <=> Wanted(d, u))
    BY <1>10, <1>11 DEF UInv, KeysFit, Wanted
  <2>2. DOMAIN kc = 1 .. Len(kc) /\ DOMAIN Tail(kc) = 1 .. Len(Tail(kc))
    BY <1>1, <1>2, LenProperties
  <2>3. /\ \A i \in DOMAIN kc : LastAbout(kc, i, u) => (kc[i].action = "DOWN" <=> Wanted(d, u))
        /\ (\A i \in DOMAIN kc : u \notin Affected(kc[i])) => (u \in session[d].keys <=> Wanted(d, u))
    BY <2>1 DEF KeyFits
  <2>4. ASSUME NEW i \in DOMAIN Tail(kc), LastAbout(Tail(kc), i, u)
        PROVE  Tail(kc)[i].action = "DOWN" <=> Wanted(d, u)
    <3>1. i + 1 \in DOMAIN kc /\ Tail(kc)[i] = kc[i + 1]
      BY <1>2, <2>2
    <3>2. ASSUME NEW j \in DOMAIN kc, j > i + 1
          PROVE  u \notin Affected(kc[j])
      <4>1. j - 1 \in DOMAIN Tail(kc) /\ j - 1 > i /\ Tail(kc)[j - 1] = kc[j]
        BY <1>2, <2>2, <3>2
      <4> QED BY <2>4, <4>1 DEF LastAbout
    <3>3. LastAbout(kc, i + 1, u)
      BY <2>4, <3>1, <3>2 DEF LastAbout
    <3> QED BY <2>3, <3>1, <3>3
  <2>5. ASSUME \A i \in DOMAIN Tail(kc) : u \notin Affected(Tail(kc)[i])
        PROVE  u \in keys <=> Wanted(d, u)
    <3>1. ASSUME NEW j \in DOMAIN kc, j > 1
          PROVE  u \notin Affected(kc[j])
      <4>1. j - 1 \in DOMAIN Tail(kc) /\ Tail(kc)[j - 1] = kc[j]
        BY <1>2, <2>2, <3>1
      <4> QED BY <2>5, <4>1
    <3>2. 1 \in DOMAIN kc
      BY <1>2, <1>3, <2>2
    <3>3. CASE u \in Affected(m)
      <4>1. LastAbout(kc, 1, u)
        BY <1>3, <3>1, <3>2, <3>3 DEF LastAbout
      <4> QED BY <1>3, <1>4, <2>3, <3>2, <3>3, <4>1
    <3>4. CASE u \notin Affected(m)
      <4>1. \A i \in DOMAIN kc : u \notin Affected(kc[i])
        BY <1>2, <1>3, <2>2, <3>1, <3>4
      <4> QED BY <1>4, <2>3, <3>4, <4>1
    <3> QED BY <3>3, <3>4
  <2> HIDE DEF kc
  <2> QED BY <1>8, <1>12, <2>1, <2>4, <2>5 DEF KeyFits, LastAbout
<1>14. KeyboardFits(d)'
  BY <1>6, <1>8, <1>12 DEF KeyboardFits
<1>15. TouchFits(d)'
  BY <1>8, <1>11, <1>12 DEF UInv, TouchFits
<1> QED BY <1>5, <1>7, <1>8, <1>9, <1>10, <1>11, <1>12, <1>13, <1>14, <1>15, DeviceSettles DEF UInv, TypeOK

\* A handler with a touch screen reports, or asks and waits.
LEMMA CalibratedLemma ==
  ASSUME UInv, NEW d \in Udids, NEW r \in Session, NEW t \in BOOLEAN, Calibrated(d, r, t)
  PROVE  \E s \in Session :
           /\ session' = [session EXCEPT ![d] = s]
           /\ s.up = r.up /\ s.keyboard = r.keyboard /\ s.touch = r.touch /\ s.calibration = r.calibration
           /\ s.keys = r.keys /\ s.keyCreates = r.keyCreates /\ s.touchCreates = r.touchCreates
           /\ Pending(s) <= Pending(r) + 1
           /\ contact' \subseteq Udids
           /\ \A e \in Udids \ {d} : e \in contact' <=> e \in contact
           /\ r.calibration # "unknown" => s.asking = r.asking /\ (d \in contact' <=> t)
<1>1. Pending(r) \in Nat
  BY PendingLemma
<1>2. CASE r.calibration # "unknown"
  <2>1. session' = [session EXCEPT ![d] = r] /\ contact' = IF t THEN contact \cup {d} ELSE contact \ {d}
    BY <1>2 DEF Calibrated, Calibrates, Touched
  <2>2. Pending(r) <= Pending(r) + 1
    BY <1>1
  <2>3. /\ contact' \subseteq Udids
        /\ \A e \in Udids \ {d} : e \in contact' <=> e \in contact
        /\ d \in contact' <=> t
    BY <2>1 DEF UInv, TypeOK
  <2> QED BY <2>1, <2>2, <2>3
<1>3. CASE r.calibration = "unknown"
  <2> DEFINE s == [r EXCEPT !.asking = Append(@, t)]
  <2>1. session' = [session EXCEPT ![d] = s] /\ contact' = contact
    BY <1>3 DEF Calibrated, Calibrates
  <2>2. r.asking \in Seq(BOOLEAN)
    BY DEF Session
  <2>3. Append(r.asking, t) \in Seq(BOOLEAN) /\ Len(Append(r.asking, t)) = Len(r.asking) + 1
    BY <2>2, AppendProperties
  <2>4. s \in Session
    BY <2>3 DEF Session
  <2>5. /\ s.up = r.up /\ s.keyboard = r.keyboard /\ s.touch = r.touch /\ s.calibration = r.calibration
        /\ s.keys = r.keys /\ s.keyCreates = r.keyCreates /\ s.touchCreates = r.touchCreates
        /\ s.asking = Append(r.asking, t)
    BY DEF Session
  <2> HIDE DEF s
  <2>6. Pending(s) <= Pending(r) + 1
    <3>1. /\ Pending(s) = Len(s.keyCreates) + Len(s.touchCreates) + Len(s.asking)
          /\ Pending(r) = Len(r.keyCreates) + Len(r.touchCreates) + Len(r.asking)
          /\ Len(r.keyCreates) \in Nat /\ Len(r.touchCreates) \in Nat /\ Len(r.asking) \in Nat
      BY <2>4, PendingLemma
    <3>2. Pending(s) = Len(r.keyCreates) + Len(r.touchCreates) + (Len(r.asking) + 1)
      BY <2>3, <2>5, <3>1
    <3>3. \A i, j, k \in Nat : i + j + (k + 1) <= (i + j + k) + 1
      OBVIOUS
    <3> QED BY <3>1, <3>2, <3>3
  <2> QED BY <1>3, <2>1, <2>4, <2>5, <2>6 DEF UInv, TypeOK
<1> QED BY <1>2, <1>3

\* The first handler that waits for the touch screen has it.
LEMMA TouchCreatedStep ==
  ASSUME UInv, NEW d \in Udids, TouchCreated(d)
  PROVE  UInv'
<1> DEFINE tc == session[d].touchCreates
           r == [session[d] EXCEPT !.touch = TRUE, !.touchCreates = Tail(@)]
<1>1. session[d] \in Session /\ tc \in Seq(BOOLEAN) /\ tc # <<>> /\ Calibrated(d, r, Head(tc))
  BY DEF UInv, TypeOK, TouchCreated, Session
<1>2. Head(tc) \in BOOLEAN /\ Tail(tc) \in Seq(BOOLEAN) /\ Len(Tail(tc)) = Len(tc) - 1
  BY <1>1, HeadTailProperties
<1>3. r \in Session
  BY <1>1, <1>2 DEF Session
<1>4. /\ r.up = session[d].up /\ r.keyboard = session[d].keyboard /\ r.touch = TRUE
      /\ r.calibration = session[d].calibration /\ r.keys = session[d].keys
      /\ r.keyCreates = session[d].keyCreates /\ r.touchCreates = Tail(tc) /\ r.asking = session[d].asking
  BY <1>1 DEF Session
<1> HIDE DEF r
<1>5. Pending(r) + 1 <= MaxPending
  <2>1. /\ Pending(r) = Len(r.keyCreates) + Len(r.touchCreates) + Len(r.asking)
        /\ Pending(session[d]) = Len(session[d].keyCreates) + Len(tc) + Len(session[d].asking)
        /\ Len(session[d].keyCreates) \in Nat /\ Len(tc) \in Nat /\ Len(session[d].asking) \in Nat
    BY <1>1, <1>3, PendingLemma
  <2>2. Pending(session[d]) <= MaxPending /\ MaxPending \in Nat
    BY UhidConstants DEF UInv, TypeOK
  <2>3. Pending(r) = Len(session[d].keyCreates) + (Len(tc) - 1) + Len(session[d].asking)
    BY <1>2, <1>4, <2>1
  <2>4. \A i, j, k, n \in Nat : i + j + k <= n => (i + (j - 1) + k) + 1 <= n
    OBVIOUS
  <2>5. Len(session[d].keyCreates) + Len(tc) + Len(session[d].asking) <= MaxPending
    BY <2>1, <2>2
  <2> QED BY <2>1, <2>2, <2>3, <2>4, <2>5
<1>6. PICK s \in Session :
        /\ session' = [session EXCEPT ![d] = s]
        /\ s.up = r.up /\ s.keyboard = r.keyboard /\ s.touch = r.touch /\ s.calibration = r.calibration
        /\ s.keys = r.keys /\ s.keyCreates = r.keyCreates /\ s.touchCreates = r.touchCreates
        /\ Pending(s) <= Pending(r) + 1
        /\ contact' \subseteq Udids
        /\ \A e \in Udids \ {d} : e \in contact' <=> e \in contact
  BY <1>1, <1>2, <1>3, CalibratedLemma
<1>7. Pending(s) <= MaxPending
  <2>1. Pending(s) \in Nat /\ Pending(r) \in Nat /\ MaxPending \in Nat
    BY <1>3, PendingLemma, UhidConstants
  <2> QED BY <1>5, <1>6, <2>1
<1>8. session[d].up
  BY <1>1, NoSessionLemma DEF UInv
<1>9. UNCHANGED keyVars /\ finger' = finger /\ wanted' = wanted /\ inOrder' = inOrder
  BY DEF TouchCreated
<1>10. d \notin inOrder
  BY <1>1 DEF UInv, TouchFits
<1>11. session'[d] = s
  BY <1>6 DEF UInv, TypeOK
<1>12. TouchFits(d)'
  BY <1>4, <1>6, <1>9, <1>10, <1>11 DEF TouchFits
<1> QED BY <1>4, <1>6, <1>7, <1>8, <1>9, <1>12, TouchSettles DEF UInv, TypeOK

\* One of those that ask for the calibration has it and reports.
LEMMA AnsweredStep ==
  ASSUME UInv, NEW d \in Udids, Answered(d)
  PROVE  UInv'
<1>1. PICK i \in DOMAIN session[d].asking, found \in {"found", "missing"} :
        /\ session' = [session EXCEPT ![d].calibration = found, ![d].asking = RemoveAt(@, i)]
        /\ Touched(d, session[d].asking[i])
  BY DEF Answered
<1> DEFINE asking == session[d].asking
           r == [session[d] EXCEPT !.calibration = found, !.asking = RemoveAt(@, i)]
<1>2. session[d] \in Session /\ asking \in Seq(BOOLEAN) /\ asking # <<>>
  BY <1>1 DEF UInv, TypeOK, Session
<1>3. RemoveAt(asking, i) \in Seq(BOOLEAN) /\ Len(RemoveAt(asking, i)) = Len(asking) - 1
  BY <1>1, <1>2, RemoveAtLemma
<1>4. session' = [session EXCEPT ![d] = r]
  BY <1>1 DEF UInv, TypeOK, Session
<1>5. r \in Session
  BY <1>2, <1>3 DEF Session
<1>6. /\ r.up = session[d].up /\ r.keyboard = session[d].keyboard /\ r.touch = session[d].touch
      /\ r.calibration = found /\ r.keys = session[d].keys
      /\ r.keyCreates = session[d].keyCreates /\ r.touchCreates = session[d].touchCreates
      /\ r.asking = RemoveAt(asking, i)
  BY <1>2 DEF Session
<1> HIDE DEF r
<1>7. Pending(r) <= MaxPending
  <2>1. /\ Pending(r) = Len(r.keyCreates) + Len(r.touchCreates) + Len(r.asking)
        /\ Pending(session[d]) = Len(session[d].keyCreates) + Len(session[d].touchCreates) + Len(asking)
        /\ Len(session[d].keyCreates) \in Nat /\ Len(session[d].touchCreates) \in Nat /\ Len(asking) \in Nat
    BY <1>2, <1>5, PendingLemma
  <2>2. Pending(session[d]) <= MaxPending /\ MaxPending \in Nat
    BY UhidConstants DEF UInv, TypeOK
  <2>3. Pending(r) = Len(session[d].keyCreates) + Len(session[d].touchCreates) + (Len(asking) - 1)
    BY <1>3, <1>6, <2>1
  <2>4. \A k, l, m, n \in Nat : k + l + m <= n => k + l + (m - 1) <= n
    OBVIOUS
  <2>5. Len(session[d].keyCreates) + Len(session[d].touchCreates) + Len(asking) <= MaxPending
    BY <2>1, <2>2
  <2> QED BY <2>1, <2>2, <2>3, <2>4, <2>5
<1>8. session[d].up /\ session[d].touch /\ d \notin inOrder
  BY <1>2, NoSessionLemma DEF UInv, TouchFits
<1>9. UNCHANGED keyVars /\ finger' = finger /\ wanted' = wanted /\ inOrder' = inOrder
  BY DEF Answered
<1>10. contact' \subseteq Udids /\ \A e \in Udids \ {d} : e \in contact' <=> e \in contact
  BY <1>1 DEF Touched, UInv, TypeOK
<1>11. session'[d] = r
  BY <1>4 DEF UInv, TypeOK
<1>12. TouchFits(d)'
  BY <1>6, <1>8, <1>9, <1>11 DEF TouchFits
<1> QED BY <1>4, <1>5, <1>6, <1>7, <1>8, <1>9, <1>10, <1>12, TouchSettles DEF UInv, TypeOK

\* A touch message: to the handler of a session with a touch screen, or to one that
\* waits for it.
LEMMA TouchStep ==
  ASSUME UInv, NEW d \in Udids, Touch(d)
  PROVE  UInv'
<1>1. PICK t \in BOOLEAN : Receive(d, t)
  BY DEF Touch
<1>2. finger' \subseteq Udids /\ UNCHANGED keyVars /\ session[d].up
  BY DEF Touch, UInv, TypeOK
<1>3. session[d] \in Session /\ Pending(session[d]) \in Nat /\ Pending(session[d]) + 1 <= MaxPending
  <2>1. session[d] \in Session /\ Pending(session[d]) < MaxPending /\ MaxPending \in Nat
    BY UhidConstants DEF Touch, UInv, TypeOK
  <2>2. Pending(session[d]) \in Nat
    BY <2>1, PendingLemma
  <2> QED BY <2>1, <2>2
<1>4. /\ wanted' = [wanted EXCEPT ![d] = t]
      /\ inOrder' = IF session[d].calibration # "unknown" /\ Pending(session[d]) = 0
                    THEN inOrder \cup {d} ELSE inOrder
  BY <1>1 DEF Receive
<1>5. /\ wanted' \in [Udids -> BOOLEAN] /\ wanted'[d] = t /\ inOrder' \subseteq Udids
      /\ \A e \in Udids \ {d} : wanted'[e] = wanted[e] /\ (e \in inOrder' <=> e \in inOrder)
  BY <1>4 DEF UInv, TypeOK
<1>6. d \in inOrder' => /\ session[d].calibration # "unknown"
                        /\ session[d].touchCreates = <<>> /\ session[d].asking = <<>>
  BY <1>3, <1>4, PendingLemma DEF UInv, TouchFits
<1>7. session[d].asking # <<>> \/ session[d].calibration # "unknown" => session[d].touch
  BY DEF UInv, TouchFits
<1>8. CASE session[d].touch
  <2>1. Calibrated(d, session[d], t)
    BY <1>1, <1>8 DEF Receive
  <2>2. PICK s \in Session :
          /\ session' = [session EXCEPT ![d] = s]
          /\ s.up = session[d].up /\ s.keyboard = session[d].keyboard /\ s.touch = session[d].touch
          /\ s.calibration = session[d].calibration
          /\ s.keys = session[d].keys /\ s.keyCreates = session[d].keyCreates
          /\ s.touchCreates = session[d].touchCreates
          /\ Pending(s) <= Pending(session[d]) + 1
          /\ contact' \subseteq Udids
          /\ \A e \in Udids \ {d} : e \in contact' <=> e \in contact
          /\ session[d].calibration # "unknown" => s.asking = session[d].asking /\ (d \in contact' <=> t)
    BY <1>3, <2>1, CalibratedLemma
  <2>3. Pending(s) <= MaxPending
    <3>1. Pending(s) \in Nat /\ MaxPending \in Nat
      BY PendingLemma, UhidConstants
    <3> QED BY <1>3, <2>2, <3>1
  <2>4. session'[d] = s
    BY <2>2 DEF UInv, TypeOK
  <2>5. TouchFits(d)'
    BY <1>2, <1>5, <1>6, <1>8, <2>2, <2>4 DEF TouchFits
  <2> QED BY <1>2, <1>5, <2>2, <2>3, <2>5, TouchSettles
<1>9. CASE ~session[d].touch
  <2> DEFINE tc == session[d].touchCreates
             r == [session[d] EXCEPT !.touchCreates = Append(@, t)]
  <2>1. session' = [session EXCEPT ![d] = r] /\ contact' = contact \ {d}
    BY <1>1, <1>9 DEF Receive, UInv, TypeOK
  <2>2. tc \in Seq(BOOLEAN)
    BY <1>3 DEF Session
  <2>3. Append(tc, t) \in Seq(BOOLEAN) /\ Len(Append(tc, t)) = Len(tc) + 1
    BY <2>2, AppendProperties
  <2>4. r \in Session
    BY <1>3, <2>3 DEF Session
  <2>5. /\ r.up = session[d].up /\ r.keyboard = session[d].keyboard /\ r.touch = session[d].touch
        /\ r.calibration = session[d].calibration /\ r.keys = session[d].keys
        /\ r.keyCreates = session[d].keyCreates /\ r.touchCreates = Append(tc, t)
        /\ r.asking = session[d].asking
    BY <1>3 DEF Session
  <2> HIDE DEF r
  <2>6. Pending(r) <= MaxPending
    <3>1. /\ Pending(r) = Len(r.keyCreates) + Len(r.touchCreates) + Len(r.asking)
          /\ Pending(session[d]) = Len(session[d].keyCreates) + Len(tc) + Len(session[d].asking)
          /\ Len(session[d].keyCreates) \in Nat /\ Len(tc) \in Nat /\ Len(session[d].asking) \in Nat
      BY <1>3, <2>4, PendingLemma
    <3>2. Pending(r) = Len(session[d].keyCreates) + (Len(tc) + 1) + Len(session[d].asking)
      BY <2>3, <2>5, <3>1
    <3>3. MaxPending \in Nat
      BY UhidConstants
    <3>4. \A i, j, k, n \in Nat : (i + j + k) + 1 <= n => i + (j + 1) + k <= n
      OBVIOUS
    <3>5. (Len(session[d].keyCreates) + Len(tc) + Len(session[d].asking)) + 1 <= MaxPending
      BY <1>3, <3>1
    <3> QED BY <3>1, <3>2, <3>3, <3>4, <3>5
  <2>7. session'[d] = r
    BY <2>1 DEF UInv, TypeOK
  <2>8. TouchFits(d)'
    BY <1>6, <1>7, <1>9, <2>5, <2>7 DEF TouchFits
  <2>9. contact' \subseteq Udids /\ \A e \in Udids \ {d} : e \in contact' <=> e \in contact
    BY <2>1 DEF UInv, TypeOK
  <2> QED BY <1>2, <1>5, <2>1, <2>4, <2>5, <2>6, <2>8, <2>9, TouchSettles
<1> QED BY <1>8, <1>9

\* A key message changes the page and what it wants of its targets together: a session
\* with a keyboard has the key as the message says, and in one without it the message
\* is the last that waits.
LEMMA SendStep ==
  ASSUME UInv, NEW m \in Messages, Send(m), pressed' = Applied(pressed, m),
         UNCHANGED <<touchVars, target>>
  PROVE  UInv'
<1> DEFINE to == {d \in target : session[d].up}
           direct == {d \in to : session[d].keyboard}
<1>1. /\ \A d \in to \ direct : Pending(session[d]) < MaxPending
      /\ session' = [d \in Udids |->
           IF d \in direct THEN [session[d] EXCEPT !.keys = Applied(@, m)]
           ELSE IF d \in to THEN [session[d] EXCEPT !.keyCreates = Append(@, m)]
           ELSE session[d]]
      /\ shown' = [d \in Udids |->
           IF d \in direct THEN Reported(Applied(session[d].keys, m), shown[d])
           ELSE IF d \in to THEN {}
           ELSE shown[d]]
      /\ excused' = [d \in Udids |->
           IF d \in direct
           THEN (excused[d] \ Affected(m)) \cup UNION {Affected(w) : w \in ToSet(session[d].keyCreates)}
           ELSE excused[d]]
  BY DEF Send
<1>2. /\ target' = target /\ finger' = finger /\ contact' = contact /\ wanted' = wanted /\ inOrder' = inOrder
  BY DEF touchVars
<1>3. /\ pressed' \in SUBSET Usages
      /\ \A u \in Usages :
           u \in pressed' <=> IF u \in Affected(m) THEN m.action = "DOWN" ELSE u \in pressed
  BY AppliedLemma DEF UInv, TypeOK
<1>4. \A d \in Udids :
        /\ session[d] \in Session /\ session[d].keys \in SUBSET Usages
        /\ session[d].keyCreates \in Seq(Messages)
        /\ shown[d] \in SUBSET Usages /\ excused[d] \in SUBSET Usages
        /\ Pending(session[d]) <= MaxPending
  BY DEF UInv, TypeOK, Session
<1>5. target \subseteq Udids
  BY DEF UInv, TypeOK
<1> DEFINE Sent(d) ==
      /\ session'[d] \in Session /\ Pending(session'[d]) <= MaxPending
      /\ shown'[d] \in SUBSET Usages /\ excused'[d] \in SUBSET Usages
      /\ ~session'[d].up => session'[d] = NoSession
      /\ session'[d].up => \A u \in Usages \ excused'[d] : KeyFits(d, u)'
      /\ KeyboardFits(d)' /\ TouchFits(d)'
<1>6. ASSUME NEW d \in Udids, d \in direct
      PROVE  Sent(d)
  <2> DEFINE kc == session[d].keyCreates
             keys == Applied(session[d].keys, m)
             r == [session[d] EXCEPT !.keys = keys]
  <2>1. d \in target /\ session[d].up /\ session[d].keyboard
    BY <1>6
  <2>2. /\ keys \in SUBSET Usages
        /\ \A u \in Usages :
             u \in keys <=> IF u \in Affected(m) THEN m.action = "DOWN" ELSE u \in session[d].keys
    BY <1>4, AppliedLemma
  <2>3. /\ session'[d] = r /\ shown'[d] = Reported(keys, shown[d])
        /\ excused'[d] = (excused[d] \ Affected(m)) \cup UNION {Affected(w) : w \in ToSet(kc)}
    BY <1>1, <1>6
  <2> HIDE DEF keys
  <2>4. /\ Reported(keys, shown[d]) \in SUBSET Usages
        /\ Cardinality(keys \ Modifiers) <= MaxKeys => Reported(keys, shown[d]) = keys
    BY <1>4, <2>2, ReportedLemma
  <2>5. r \in Session
    BY <1>4, <2>2 DEF Session
  <2>6. /\ r.up = session[d].up /\ r.keyboard = session[d].keyboard /\ r.touch = session[d].touch
        /\ r.calibration = session[d].calibration /\ r.keys = keys
        /\ r.keyCreates = kc /\ r.touchCreates = session[d].touchCreates /\ r.asking = session[d].asking
    BY <1>4 DEF Session
  <2> HIDE DEF r
  <2>7. \A w \in ToSet(kc) : Affected(w) \subseteq Usages
    <3>1. \A w \in Messages : Affected(w) \subseteq Usages
      BY DEF Affected, Messages
    <3>2. ToSet(kc) \subseteq Messages
      BY <1>4, LenProperties DEF ToSet
    <3> QED BY <3>1, <3>2
  <2>8. excused'[d] \in SUBSET Usages
    BY <1>4, <2>3, <2>7
  <2>9. Pending(r) = Pending(session[d])
    BY <2>6 DEF Pending
  <2>10. ASSUME NEW u \in Usages \ excused'[d]
         PROVE  KeyFits(d, u)'
    <3>1. u \notin excused[d] \/ u \in Affected(m)
      BY <2>3
    <3>2. \A i \in DOMAIN kc : u \notin Affected(kc[i])
      BY <2>3 DEF ToSet
    <3>3. CASE u \in Affected(m)
      <4>1. (u \in keys <=> m.action = "DOWN") /\ (Wanted(d, u)' <=> m.action = "DOWN")
        BY <1>2, <1>3, <2>1, <2>2, <3>3 DEF Wanted
      <4> QED BY <2>3, <2>6, <3>2, <4>1 DEF KeyFits, LastAbout
    <3>4. CASE u \notin Affected(m)
      <4>1. (u \in keys <=> u \in session[d].keys) /\ (Wanted(d, u)' <=> Wanted(d, u))
        BY <1>2, <1>3, <2>2, <3>4 DEF Wanted
      <4>2. KeyFits(d, u)
        BY <2>1, <3>1, <3>4 DEF UInv, KeysFit
      <4>3. u \in session[d].keys <=> Wanted(d, u)
        BY <3>2, <4>2 DEF KeyFits
      <4> QED BY <2>3, <2>6, <3>2, <4>1, <4>3 DEF KeyFits, LastAbout
    <3> QED BY <3>3, <3>4
  <2>11. KeyboardFits(d)'
    BY <2>1, <2>3, <2>4, <2>6 DEF KeyboardFits
  <2>12. TouchFits(d)'
    BY <1>2, <2>3, <2>6 DEF UInv, TouchFits
  <2> HIDE DEF to, direct
  <2> QED BY <1>4, <2>1, <2>3, <2>4, <2>5, <2>6, <2>8, <2>9, <2>10, <2>11, <2>12
<1>7. ASSUME NEW d \in Udids, d \in to \ direct
      PROVE  Sent(d)
  <2> DEFINE kc == session[d].keyCreates
             r == [session[d] EXCEPT !.keyCreates = Append(@, m)]
  <2>1. d \in target /\ session[d].up /\ ~session[d].keyboard /\ Pending(session[d]) < MaxPending
    BY <1>1, <1>7
  <2>2. session'[d] = r /\ shown'[d] = {} /\ excused'[d] = excused[d]
    BY <1>1, <1>7
  <2>3. /\ Append(kc, m) \in Seq(Messages) /\ Len(Append(kc, m)) = Len(kc) + 1 /\ Len(kc) \in Nat
        /\ \A i \in 1 .. Len(kc) : Append(kc, m)[i] = kc[i]
        /\ Append(kc, m)[Len(kc) + 1] = m
    BY <1>4, AppendProperties, LenProperties
  <2>4. r \in Session
    BY <1>4, <2>3 DEF Session
  <2>5. /\ r.up = session[d].up /\ r.keyboard = session[d].keyboard /\ r.touch = session[d].touch
        /\ r.calibration = session[d].calibration /\ r.keys = session[d].keys
        /\ r.keyCreates = Append(kc, m) /\ r.touchCreates = session[d].touchCreates
        /\ r.asking = session[d].asking
    BY <1>4 DEF Session
  <2> HIDE DEF r
  <2>6. Pending(r) <= MaxPending
    <3>1. /\ Pending(r) = Len(r.keyCreates) + Len(r.touchCreates) + Len(r.asking)
          /\ Pending(session[d]) = Len(kc) + Len(session[d].touchCreates) + Len(session[d].asking)
          /\ Len(session[d].touchCreates) \in Nat /\ Len(session[d].asking) \in Nat
      BY <1>4, <2>4, PendingLemma
    <3>2. Pending(r) = (Len(kc) + 1) + Len(session[d].touchCreates) + Len(session[d].asking)
      BY <2>3, <2>5, <3>1
    <3>3. MaxPending \in Nat
      BY UhidConstants
    <3>4. \A i, j, k, n \in Nat : i + j + k < n => (i + 1) + j + k <= n
      OBVIOUS
    <3>5. Len(kc) + Len(session[d].touchCreates) + Len(session[d].asking) < MaxPending
      BY <2>1, <3>1
    <3> QED BY <2>3, <3>1, <3>2, <3>3, <3>4, <3>5
  <2>7. DOMAIN kc = 1 .. Len(kc) /\ DOMAIN Append(kc, m) = 1 .. Len(kc) + 1
    BY <1>4, <2>3, LenProperties
  <2>8. ASSUME NEW u \in Usages \ excused'[d]
        PROVE  KeyFits(d, u)'
    <3>1. KeyFits(d, u)
      BY <2>1, <2>2 DEF UInv, KeysFit
    <3>2. /\ \A i \in DOMAIN kc : LastAbout(kc, i, u) => (kc[i].action = "DOWN" <=> Wanted(d, u))
          /\ (\A i \in DOMAIN kc : u \notin Affected(kc[i])) => (u \in session[d].keys <=> Wanted(d, u))
      BY <3>1 DEF KeyFits
    <3>3. Wanted(d, u)' <=> IF u \in Affected(m) THEN m.action = "DOWN" ELSE Wanted(d, u)
      BY <1>2, <1>3, <2>1 DEF Wanted
    <3>4. Len(kc) + 1 \in DOMAIN Append(kc, m) /\ \A i \in DOMAIN kc : i < Len(kc) + 1 /\ i \in DOMAIN Append(kc, m)
      BY <2>3, <2>7
    <3>5. ASSUME NEW i \in DOMAIN Append(kc, m), LastAbout(Append(kc, m), i, u)
          PROVE  Append(kc, m)[i].action = "DOWN" <=> Wanted(d, u)'
      <4>1. CASE i = Len(kc) + 1
        BY <2>3, <3>3, <3>5, <4>1 DEF LastAbout
      <4>2. CASE i # Len(kc) + 1
        <5>1. i \in DOMAIN kc /\ Append(kc, m)[i] = kc[i]
          BY <2>3, <2>7, <4>2
        <5>2. u \notin Affected(m)
          BY <2>3, <3>4, <3>5, <5>1 DEF LastAbout
        <5>3. LastAbout(kc, i, u)
          BY <2>3, <2>7, <3>4, <3>5, <5>1 DEF LastAbout
        <5> QED BY <3>2, <3>3, <5>1, <5>2, <5>3
      <4> QED BY <4>1, <4>2
    <3>6. ASSUME \A i \in DOMAIN Append(kc, m) : u \notin Affected(Append(kc, m)[i])
          PROVE  u \in session[d].keys <=> Wanted(d, u)'
      <4>1. u \notin Affected(m) /\ \A i \in DOMAIN kc : u \notin Affected(kc[i])
        BY <2>3, <2>7, <3>4, <3>6
      <4> QED BY <3>2, <3>3, <4>1
    <3> HIDE DEF kc
    <3> QED BY <2>2, <2>5, <3>5, <3>6 DEF KeyFits, LastAbout
  <2>9. KeyboardFits(d)'
    BY <2>1, <2>2, <2>5 DEF UInv, KeyboardFits
  <2>10. TouchFits(d)'
    BY <1>2, <2>2, <2>5 DEF UInv, TouchFits
  <2> HIDE DEF to, direct
  <2> QED BY <1>4, <2>1, <2>2, <2>4, <2>5, <2>6, <2>8, <2>9, <2>10
<1>8. ASSUME NEW d \in Udids, d \notin to
      PROVE  Sent(d)
  <2>1. session'[d] = session[d] /\ shown'[d] = shown[d] /\ excused'[d] = excused[d]
    BY <1>1, <1>8
  <2>2. session[d].up => d \notin target
    BY <1>8
  <2>3. ASSUME session[d].up, NEW u \in Usages \ excused'[d]
        PROVE  KeyFits(d, u)'
    <3>1. KeyFits(d, u) /\ (Wanted(d, u)' <=> Wanted(d, u))
      BY <1>2, <2>1, <2>2, <2>3 DEF UInv, KeysFit, Wanted
    <3> QED BY <2>1, <3>1 DEF KeyFits, LastAbout
  <2>4. KeyboardFits(d)' /\ TouchFits(d)'
    BY <1>2, <2>1 DEF UInv, KeyboardFits, TouchFits
  <2>5. ~session[d].up => session[d] = NoSession
    BY DEF UInv
  <2> QED BY <1>4, <2>1, <2>3, <2>4, <2>5
<1>9. \A d \in Udids : Sent(d)
  BY <1>6, <1>7, <1>8
<1>10. TypeOK'
  <2>1. session' = [d \in Udids |-> session'[d]] /\ shown' = [d \in Udids |-> shown'[d]]
        /\ excused' = [d \in Udids |-> excused'[d]]
    BY <1>1
  <2>2. session' \in [Udids -> Session] /\ shown' \in [Udids -> SUBSET Usages]
        /\ excused' \in [Udids -> SUBSET Usages]
    BY <1>9, <2>1
  <2> QED BY <1>2, <1>3, <1>9, <2>2 DEF UInv, TypeOK
<1> QED BY <1>9, <1>10 DEF UInv, KeysFit

LEMMA RetargetStep ==
  ASSUME UInv, Retarget
  PROVE  UInv'
<1>1. /\ session' = session /\ shown' = shown /\ pressed' = pressed /\ target' \in SUBSET Udids
      /\ finger' = finger /\ contact' = contact /\ wanted' = wanted /\ inOrder' = inOrder
  BY DEF Retarget, touchVars
<1>2. excused' = [d \in Udids |->
        IF d \in target \ target'
        THEN excused[d] \cup session[d].keys \cup UNION {Affected(m) : m \in ToSet(session[d].keyCreates)}
        ELSE IF d \in target' \ target THEN excused[d] \cup pressed \cup session[d].keys
        ELSE excused[d]]
  BY DEF Retarget
<1>3. ASSUME NEW d \in Udids
      PROVE  excused'[d] \in SUBSET Usages
  <2>1. /\ session[d].keys \in SUBSET Usages /\ session[d].keyCreates \in Seq(Messages)
        /\ excused[d] \in SUBSET Usages /\ pressed \in SUBSET Usages
    BY DEF UInv, TypeOK, Session
  <2>2. \A m \in Messages : Affected(m) \subseteq Usages
    BY DEF Affected, Messages
  <2>3. ToSet(session[d].keyCreates) \subseteq Messages
    BY <2>1, LenProperties DEF ToSet
  <2> QED BY <1>2, <2>1, <2>2, <2>3
<1>4. TypeOK'
  <2>1. excused' \in [Udids -> SUBSET Usages]
    BY <1>2, <1>3
  <2> QED BY <1>1, <2>1 DEF UInv, TypeOK
<1>5. ASSUME NEW d \in Udids, session'[d].up, NEW u \in Usages \ excused'[d]
      PROVE  KeyFits(d, u)'
  <2>1. u \notin excused[d] /\ session[d].up
    BY <1>1, <1>2, <1>5
  <2>2. KeyFits(d, u)
    BY <2>1 DEF UInv, KeysFit
  <2>3. CASE d \in target \ target'
    <3>1. u \notin session[d].keys /\ \A i \in DOMAIN session[d].keyCreates : u \notin Affected(session[d].keyCreates[i])
      BY <1>2, <1>5, <2>3 DEF ToSet
    <3>2. ~Wanted(d, u)'
      BY <2>3 DEF Wanted
    <3> QED BY <1>1, <3>1, <3>2 DEF KeyFits, LastAbout
  <2>4. CASE d \notin target \ target'
    <3>1. Wanted(d, u)' <=> Wanted(d, u)
      BY <1>1, <1>2, <1>5, <2>4 DEF Wanted
    <3> QED BY <1>1, <2>2, <3>1 DEF KeyFits, LastAbout
  <2> QED BY <2>3, <2>4
<1>6. ASSUME NEW d \in Udids
      PROVE  (~session[d].up => session[d] = NoSession)' /\ KeyboardFits(d)' /\ TouchFits(d)'
  BY <1>1 DEF UInv, KeyboardFits, TouchFits
<1> QED BY <1>4, <1>5, <1>6 DEF UInv, KeysFit

LEMMA NextStep == UInv /\ [Next]_vars => UInv'
<1> SUFFICES ASSUME UInv, [Next]_vars PROVE UInv'
  OBVIOUS
<1>1. ASSUME NEW d \in Udids, Start(d) PROVE UInv'
  BY <1>1, StartStep
<1>2. ASSUME NEW d \in Udids, End(d) PROVE UInv'
  BY <1>2, EndStep
<1>3. ASSUME NEW d \in Udids, KeyboardCreated(d) PROVE UInv'
  BY <1>3, KeyboardCreatedStep
<1>4. ASSUME NEW d \in Udids, TouchCreated(d) PROVE UInv'
  BY <1>4, TouchCreatedStep
<1>5. ASSUME NEW d \in Udids, Answered(d) PROVE UInv'
  BY <1>5, AnsweredStep
<1>6. ASSUME NEW d \in Udids, Touch(d) PROVE UInv'
  BY <1>6, TouchStep
<1>7. ASSUME NEW u \in Usages, KeyDown(u) PROVE UInv'
  <2> DEFINE m == [action |-> "DOWN", usage |-> u]
  <2>1. m \in Messages /\ pressed' = Applied(pressed, m) /\ Send(m) /\ UNCHANGED <<touchVars, target>>
    BY <1>7 DEF KeyDown, Messages, Applied
  <2> QED BY <2>1, SendStep
<1>8. ASSUME NEW u \in Usages, KeyUp(u) PROVE UInv'
  <2> DEFINE m == [action |-> "UP", usage |-> u]
  <2>1. m \in Messages /\ pressed' = Applied(pressed, m) /\ Send(m) /\ UNCHANGED <<touchVars, target>>
    BY <1>8 DEF KeyUp, Messages, Applied
  <2> QED BY <2>1, SendStep
<1>9. ASSUME Release PROVE UInv'
  <2> DEFINE m == [action |-> "RESET", usage |-> 0]
  <2>1. m \in Messages /\ pressed' = Applied(pressed, m) /\ Send(m) /\ UNCHANGED <<touchVars, target>>
    BY <1>9 DEF Release, Forgotten, Messages, Applied
  <2> QED BY <2>1, SendStep
<1>10. ASSUME Retarget PROVE UInv'
  BY <1>10, RetargetStep
<1>11. CASE UNCHANGED vars
  BY <1>11 DEF vars, UInv, TypeOK, KeysFit, KeyFits, LastAbout, Wanted, KeyboardFits, TouchFits
<1> QED BY <1>1, <1>2, <1>3, <1>4, <1>5, <1>6, <1>7, <1>8, <1>9, <1>10, <1>11 DEF Next

-----------------------------------------------------------------------------
(* The theorems.                                                           *)

\* UInv holds in every state: what each session, its keyboard and its touch screen are
\* to each other, and to the page's keys, whatever handlers wait and whichever of their
\* creations and dumpsys end first (scrcpySession.ts, useDirectKeyboard.ts).
THEOREM UhidInductive == Spec => []UInv
<1>1. Init => UInv
  BY InitLemma
<1>2. UInv /\ [Next]_vars => UInv'
  BY NextStep
<1> QED BY <1>1, <1>2, PTL DEF Spec

\* Every variable keeps its type, and no session has more handlers waiting than the
\* bound of the model (#uHidKeyboardReady and the other fields of ScrcpySession).
THEOREM TypeCorrect == Spec => []TypeOK
<1>1. UInv => TypeOK
  BY DEF UInv
<1> QED BY <1>1, UhidInductive, PTL

\* A device shows the keys the page has pressed for it, where nothing the code leaves
\* unsynchronised came between (useDirectKeyboard, #injectUhidKeyboard).
THEOREM KeysShownArePressed == Spec => []KeysAgree
<1>1. UInv => KeysAgree
  <2> SUFFICES ASSUME UInv, NEW d \in Udids, session[d].up, session[d].keyCreates = <<>>,
                      Cardinality(session[d].keys \ Modifiers) <= MaxKeys,
                      NEW u \in Usages \ excused[d]
               PROVE  u \in shown[d] <=> (d \in target /\ u \in pressed)
    BY DEF KeysAgree
  <2>1. KeyFits(d, u)
    BY DEF UInv, KeysFit
  <2>2. \A i \in DOMAIN session[d].keyCreates : u \notin Affected(session[d].keyCreates[i])
    OBVIOUS
  <2>3. u \in session[d].keys <=> Wanted(d, u)
    BY <2>1, <2>2 DEF KeyFits
  <2>4. shown[d] = session[d].keys
    BY DEF UInv, KeyboardFits
  <2> QED BY <2>3, <2>4 DEF Wanted
<1> QED BY <1>1, UhidInductive, PTL

\* No creation of a keyboard lets go of a key: while a session has no keyboard its
\* device shows none (#ensureUhidKeyboard).
THEOREM CreationsLoseNoKey == Spec => []CreationLosesNoKey
<1>1. UInv => CreationLosesNoKey
  <2> SUFFICES ASSUME UInv, NEW d \in Udids, ~session[d].keyboard
               PROVE  shown[d] = {}
    BY DEF CreationLosesNoKey
  <2>1. session[d].keys = {}
    BY DEF UInv, KeyboardFits
  <2> QED BY <2>1, NoKeysLemma DEF UInv, KeyboardFits
<1> QED BY <1>1, UhidInductive, PTL

\* Once touch messages are handled in order the touch screen follows them
\* (#injectUhidTouch).
THEOREM ContactsFollow == Spec => []ContactFollows
<1>1. UInv => ContactFollows
  BY DEF UInv, TypeOK, TouchFits, ContactFollows
<1> QED BY <1>1, UhidInductive, PTL
=============================================================================
