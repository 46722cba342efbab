------------------------- MODULE TouchGesturesProofs -------------------------
(***************************************************************************)
(* Proofs about TouchGestures: which fingers are down, for any devices,    *)
(* pointers and players.                                                   *)
(***************************************************************************)
EXTENDS TouchGestures, FiniteSetTheorems, TLAPS

-----------------------------------------------------------------------------
(* The inductive invariant.                                                *)

\* Pointers and players alike: who may have fingers down, and which ones.
Owners == [kind : {"pointer"}, canvas : Udids, pointer : Pointers] \cup [kind : {"player"}, slot : Players]
OwnerPointer(c, p) == [kind |-> "pointer", canvas |-> c, pointer |-> p]
OwnerPlayer(s) == [kind |-> "player", slot |-> s]
Has(o) == IF o.kind = "pointer" THEN OfPointer(gesture[o.canvas][o.pointer]) ELSE OfPlayer(player[o.slot])

\* A pointer without an identifier, or a slot without a function, has nothing.
GestureFits(g) == g.pid = None => g.targets = {} /\ g.later = {}
GesturesFit == \A c \in Udids, p \in Pointers : GestureFits(gesture[c][p])
PlayerFits(r) ==
  /\ IF r.kind = "none" THEN r.down = {} /\ r.todo = {} ELSE r.pid # None
  /\ r.kind = "back" => r.pid = IdOf.back
PlayersFit == \A s \in Players : PlayerFits(player[s])

\* Pointers of one canvas have different identifiers.
IdentifiersDiffer ==
  \A c \in Udids, p, q \in Pointers :
    p # q /\ gesture[c][p].pid # None => gesture[c][p].pid # gesture[c][q].pid

\* A finger that is not shared has one owner at most.
Exclusive == \A o, q \in Owners : o # q => Has(o) \cap Has(q) \subseteq shared

FingersFit ==
  /\ \A f \in fingers : f \in abandoned \/ \E o \in Owners : f \in Has(o)
  /\ \A o \in Owners : Has(o) \subseteq fingers \cup shared
  /\ Exclusive

GInv == TypeOK /\ GesturesFit /\ PlayersFit /\ IdentifiersDiffer /\ FingersFit

-----------------------------------------------------------------------------
(* Fingers and their owners.                                               *)

LEMMA OwnersLemma ==
  /\ \A o \in Owners : \/ \E c \in Udids, p \in Pointers : o = OwnerPointer(c, p)
                       \/ \E s \in Players : o = OwnerPlayer(s)
  /\ \A c \in Udids, p \in Pointers : OwnerPointer(c, p) \in Owners
  /\ \A s \in Players : OwnerPlayer(s) \in Owners
  /\ \A c \in Udids, p \in Pointers, s \in Players : OwnerPointer(c, p) # OwnerPlayer(s)
  /\ \A c, e \in Udids, p, q \in Pointers : OwnerPointer(c, p) = OwnerPointer(e, q) => c = e /\ p = q
  /\ \A s, t \in Players : OwnerPlayer(s) = OwnerPlayer(t) => s = t
<1>1. \A o \in Owners : \/ \E c \in Udids, p \in Pointers : o = OwnerPointer(c, p)
                        \/ \E s \in Players : o = OwnerPlayer(s)
  BY DEF Owners, OwnerPointer, OwnerPlayer
<1>2. /\ \A c \in Udids, p \in Pointers : OwnerPointer(c, p) \in Owners
      /\ \A s \in Players : OwnerPlayer(s) \in Owners
  BY DEF Owners, OwnerPointer, OwnerPlayer
<1>3. \A c \in Udids, p \in Pointers : /\ OwnerPointer(c, p).kind = "pointer"
                                       /\ OwnerPointer(c, p).canvas = c /\ OwnerPointer(c, p).pointer = p
  BY DEF OwnerPointer
<1>4. \A s \in Players : OwnerPlayer(s).kind = "player" /\ OwnerPlayer(s).slot = s
  BY DEF OwnerPlayer
<1> QED BY <1>1, <1>2, <1>3, <1>4

LEMMA HasLemma ==
  /\ \A c \in Udids, p \in Pointers : Has(OwnerPointer(c, p)) = OfPointer(gesture[c][p])
  /\ \A s \in Players : Has(OwnerPlayer(s)) = OfPlayer(player[s])
BY DEF Has, OwnerPointer, OwnerPlayer

\* What is owned is what the owners have.
LEMMA OwnedLemma == \A f : f \in Owned <=> \E o \in Owners : f \in Has(o)
<1> TAKE f
<1>1. f \in Owned <=> \/ \E c \in Udids, p \in Pointers : f \in OfPointer(gesture[c][p])
                      \/ \E s \in Players : f \in OfPlayer(player[s])
  <2> DEFINE P == {OfPointer(gesture[c][p]) : c \in Udids, p \in Pointers}
             S == {OfPlayer(player[s]) : s \in Players}
  <2>1. /\ \A X : X \in P <=> \E c \in Udids, p \in Pointers : X = OfPointer(gesture[c][p])
        /\ \A X : X \in S <=> \E s \in Players : X = OfPlayer(player[s])
    OBVIOUS
  <2>2. Owned = (UNION P) \cup (UNION S)
    BY DEF Owned
  <2> HIDE DEF P, S
  <2>3. f \in Owned <=> (\E X \in P : f \in X) \/ (\E X \in S : f \in X)
    BY <2>2
  <2> QED BY <2>1, <2>3
<1>2. ASSUME \E c \in Udids, p \in Pointers : f \in OfPointer(gesture[c][p])
      PROVE  \E o \in Owners : f \in Has(o)
  BY <1>2, OwnersLemma, HasLemma
<1>3. ASSUME \E s \in Players : f \in OfPlayer(player[s]) PROVE \E o \in Owners : f \in Has(o)
  BY <1>3, OwnersLemma, HasLemma
<1>4. ASSUME NEW o \in Owners, f \in Has(o)
      PROVE  \/ \E c \in Udids, p \in Pointers : f \in OfPointer(gesture[c][p])
             \/ \E s \in Players : f \in OfPlayer(player[s])
  BY <1>4, OwnersLemma, HasLemma
<1> QED BY <1>1, <1>2, <1>3, <1>4

\* An owner that had nothing puts fingers down; whoever has one of them is counted.
LEMMA DownLemma ==
  ASSUME FingersFit, NEW o \in Owners, Has(o) = {}, NEW D, NEW pid, NEW others, Down(D, pid, others),
         Has(o)' = D \X {pid}, \A q \in Owners \ {o} : Has(q)' = Has(q),
         \A q \in Owners \ {o} : Has(q) \cap (D \X {pid}) \subseteq others
  PROVE  FingersFit'
<1> DEFINE fs == D \X {pid}
<1>1. /\ fingers' = fingers \cup fs /\ abandoned' = abandoned \ fs
      /\ shared' = (shared \ fs) \cup (fs \cap others)
  BY DEF Down
<1> HIDE DEF fs
<1>2. Has(o)' = fs /\ \A q \in Owners \ {o} : Has(q) \cap fs \subseteq others
  BY DEF fs
<1>3. ASSUME NEW f \in fingers' PROVE f \in abandoned' \/ \E q \in Owners : f \in Has(q)'
  <2>1. CASE f \in fs
    BY <1>2, <2>1
  <2>2. CASE f \notin fs
    BY <1>1, <2>2 DEF FingersFit
  <2> QED BY <2>1, <2>2
<1>4. ASSUME NEW q \in Owners PROVE Has(q)' \subseteq fingers' \cup shared'
  BY <1>1, <1>2 DEF FingersFit
<1>5. ASSUME NEW q \in Owners, NEW r \in Owners, q # r PROVE Has(q)' \cap Has(r)' \subseteq shared'
  <2>1. CASE q # o /\ r # o
    BY <1>1, <1>2, <1>5, <2>1 DEF FingersFit, Exclusive
  <2>2. CASE q = o \/ r = o
    BY <1>1, <1>2, <1>5, <2>2
  <2> QED BY <2>1, <2>2
<1> QED BY <1>3, <1>4, <1>5 DEF FingersFit, Exclusive

\* An owner gives up what it has and lifts some fingers, its own or not.
LEMMA LiftLemma ==
  ASSUME FingersFit, NEW o \in Owners, NEW L, Has(o)' = {}, \A q \in Owners \ {o} : Has(q)' = Has(q),
         fingers' = fingers \ L, (abandoned \cup Has(o)) \ L \subseteq abandoned',
         shared \subseteq shared', \A q \in Owners \ {o} : L \cap Has(q) \subseteq shared'
  PROVE  FingersFit'
<1>1. ASSUME NEW f \in fingers' PROVE f \in abandoned' \/ \E q \in Owners : f \in Has(q)'
  BY DEF FingersFit
<1>2. ASSUME NEW q \in Owners PROVE Has(q)' \subseteq fingers' \cup shared'
  BY DEF FingersFit
<1>3. ASSUME NEW q \in Owners, NEW r \in Owners, q # r PROVE Has(q)' \cap Has(r)' \subseteq shared'
  BY <1>3 DEF FingersFit, Exclusive
<1> QED BY <1>1, <1>2, <1>3 DEF FingersFit, Exclusive

\* Nobody's fingers change.
LEMMA SameLemma ==
  ASSUME FingersFit, \A q \in Owners : Has(q)' = Has(q), \A f \in fingers' \ fingers : \E q \in Owners : f \in Has(q),
         fingers \subseteq fingers', abandoned' = abandoned, shared' = shared
  PROVE  FingersFit'
BY DEF FingersFit, Exclusive

-----------------------------------------------------------------------------
(* Identifiers.                                                            *)

LEMMA PidsLemma ==
  /\ Cardinality(Pointers) \in Nat
  /\ PointerIds \subseteq Nat /\ PointerIds \subseteq Pids /\ None \notin Pids
  /\ 0 \in Pids /\ IdOf["pinch"] \in Pids /\ IdOf["back"] \in Pids /\ IdOf["back"] \notin PointerIds
<1>1. Cardinality(Pointers) \in Nat
  BY TouchConstants, FS_CardinalityType
<1>2. PointerIds \subseteq Nat
  BY <1>1 DEF PointerIds
<1>3. IdOf["pinch"] = 90 /\ IdOf["back"] = -1 /\ IdOf.pinch = 90 /\ IdOf.back = -1
  BY DEF IdOf
<1>4. Pids = PointerIds \cup {0, 90, -1}
  BY <1>3 DEF Pids
<1>5. Pids \subseteq Int /\ -1 \notin PointerIds
  BY <1>2, <1>4
<1>6. None \notin Int
  BY TouchConstants
<1> QED BY <1>1, <1>2, <1>3, <1>4, <1>5, <1>6

\* A set of natural numbers that is not empty has a least one.
LEMMA MinLemma ==
  ASSUME NEW S \in SUBSET Nat, S # {}
  PROVE  Min(S) \in S
<1> DEFINE Less == {xy \in Nat \X Nat : xy[1] < xy[2]}
<1>1. IsWellFoundedOn(Less, Nat)
  BY NatLessThanWellFounded DEF OpToRel
<1>2. \E x \in S : \A y \in S : <<y, x>> \notin Less
  <2> HIDE DEF Less
  <2> QED BY <1>1, WFMin
<1>3. \E x \in S : \A y \in S : x =< y
  <2>1. ASSUME NEW x \in Nat, NEW y \in Nat, <<y, x>> \notin Less PROVE x =< y
    BY <2>1
  <2> HIDE DEF Less
  <2> QED BY <1>2, <2>1
<1> QED BY <1>3 DEF Min

\* makePointerIdAllocator finds an identifier that no pointer of the canvas has: there
\* are as many identifiers as pointers, and the one that asks has none.
LEMMA FreeIdLemma ==
  ASSUME TypeOK, NEW c \in Udids, NEW p \in Pointers, gesture[c][p].pid = None
  PROVE  FreeId(c) \in PointerIds /\ \A q \in Pointers : gesture[c][q].pid # FreeId(c)
<1> DEFINE others == Pointers \ {p}
           f == [q \in others |-> gesture[c][q].pid]
           used == {gesture[c][q].pid : q \in Pointers}
           T == {f[q] : q \in others}
           n == Cardinality(Pointers)
<1>1. n \in Nat /\ n > 0 /\ IsFiniteSet(others) /\ Cardinality(others) = n - 1
  <2>1. IsFiniteSet(Pointers) /\ n \in Nat
    BY TouchConstants, PidsLemma
  <2>2. n # 0
    BY <2>1, FS_EmptySet
  <2> QED BY <2>1, <2>2, FS_RemoveElement
<1>2. IsFiniteSet(T) /\ Cardinality(T) \in Nat /\ Cardinality(T) <= n - 1
  <2>1. f \in Surjection(others, T)
    BY DEF Surjection
  <2>2. IsFiniteSet(T) /\ Cardinality(T) <= Cardinality(others)
    <3> HIDE DEF f, T, others
    <3> QED BY <1>1, <2>1, FS_Surjection
  <2> QED BY <1>1, <2>2, FS_CardinalityType
<1>3. Cardinality(PointerIds) = n
  <2>1. Cardinality(0 .. n - 1) = n
    BY <1>1, FS_Interval
  <2> QED BY <2>1 DEF PointerIds
<1>4. used \subseteq T \cup {None}
  OBVIOUS
<1>5. PointerIds \ used # {}
  <2> SUFFICES ASSUME PointerIds \subseteq used PROVE FALSE
    OBVIOUS
  <2>1. PointerIds \subseteq T
    BY <1>4, PidsLemma
  <2>2. Cardinality(PointerIds) <= Cardinality(T)
    <3> HIDE DEF T
    <3> QED BY <1>2, <2>1, FS_Subset
  <2> QED BY <1>1, <1>2, <1>3, <2>2
<1>6. FreeId(c) \in PointerIds \ used
  <2>1. PointerIds \ used \in SUBSET Nat
    BY PidsLemma
  <2> HIDE DEF used
  <2>2. Min(PointerIds \ used) \in PointerIds \ used
    BY <1>5, <2>1, MinLemma
  <2> QED BY <2>2 DEF FreeId, used
<1> QED BY <1>6

-----------------------------------------------------------------------------
(* One pointer, or one player, moves.                                      *)

LEMMA NothingLemma ==
  /\ OfPointer(NoGesture) = {} /\ NoGesture \in Gesture /\ GestureFits(NoGesture) /\ NoGesture.pid = None
  /\ OfPlayer(NoPlayer) = {} /\ NoPlayer \in Player /\ PlayerFits(NoPlayer)
BY DEF OfPointer, OfPlayer, NoGesture, NoPlayer, GestureFits, PlayerFits, Gesture, Player

\* Who has no identifier, or does not run, has no finger either.
LEMMA FitsLemma ==
  /\ \A g : GestureFits(g) /\ g.pid = None => OfPointer(g) = {}
  /\ \A r : PlayerFits(r) /\ r.kind = "none" => OfPlayer(r) = {}
BY DEF GestureFits, PlayerFits, OfPointer, OfPlayer

LEMMA PointerHas ==
  ASSUME TypeOK, NEW c \in Udids, NEW p \in Pointers, NEW g, gesture' = [gesture EXCEPT ![c][p] = g],
         player' = player
  PROVE  /\ gesture'[c][p] = g
         /\ \A e \in Udids, q \in Pointers : e # c \/ q # p => gesture'[e][q] = gesture[e][q]
         /\ Has(OwnerPointer(c, p))' = OfPointer(g)
         /\ \A o \in Owners \ {OwnerPointer(c, p)} : Has(o)' = Has(o)
<1>1. /\ gesture'[c][p] = g
      /\ \A e \in Udids, q \in Pointers : e # c \/ q # p => gesture'[e][q] = gesture[e][q]
  BY DEF TypeOK
<1>2. Has(OwnerPointer(c, p))' = OfPointer(g)
  BY <1>1 DEF Has, OwnerPointer
<1>3. ASSUME NEW o \in Owners \ {OwnerPointer(c, p)} PROVE Has(o)' = Has(o)
  <2>1. CASE \E e \in Udids, q \in Pointers : o = OwnerPointer(e, q)
    <3>1. PICK e \in Udids, q \in Pointers : o = OwnerPointer(e, q)
      BY <2>1
    <3>2. gesture'[e][q] = gesture[e][q]
      BY <1>1, <1>3, <3>1
    <3> QED BY <3>1, <3>2 DEF Has, OwnerPointer, OfPointer
  <2>2. CASE \E s \in Players : o = OwnerPlayer(s)
    BY <2>2 DEF Has, OwnerPlayer, OfPlayer
  <2> QED BY <2>1, <2>2, OwnersLemma
<1> QED BY <1>1, <1>2, <1>3

LEMMA PlayerHas ==
  ASSUME TypeOK, NEW s \in Players, NEW r, player' = [player EXCEPT ![s] = r], gesture' = gesture
  PROVE  /\ player'[s] = r /\ \A t \in Players \ {s} : player'[t] = player[t]
         /\ Has(OwnerPlayer(s))' = OfPlayer(r)
         /\ \A o \in Owners \ {OwnerPlayer(s)} : Has(o)' = Has(o)
<1>1. player'[s] = r /\ \A t \in Players \ {s} : player'[t] = player[t]
  BY DEF TypeOK
<1>2. Has(OwnerPlayer(s))' = OfPlayer(r)
  BY <1>1 DEF Has, OwnerPlayer
<1>3. ASSUME NEW o \in Owners \ {OwnerPlayer(s)} PROVE Has(o)' = Has(o)
  <2>1. CASE \E e \in Udids, q \in Pointers : o = OwnerPointer(e, q)
    BY <2>1 DEF Has, OwnerPointer, OfPointer
  <2>2. CASE \E t \in Players : o = OwnerPlayer(t)
    BY <1>1, <1>3, <2>2 DEF Has, OwnerPlayer, OfPlayer
  <2> QED BY <2>1, <2>2, OwnersLemma
<1> QED BY <1>1, <1>2, <1>3

\* Fingers of a device and an identifier.
LEMMA DownType ==
  ASSUME TypeOK, NEW D \in SUBSET Udids, NEW pid \in Pids, NEW others, Down(D, pid, others)
  PROVE  fingers' \subseteq Fingers /\ abandoned' \subseteq Fingers /\ shared' \subseteq Fingers
BY DEF TypeOK, Down, Fingers

LEMMA PointerSettles ==
  ASSUME GInv, NEW c \in Udids, NEW p \in Pointers, NEW g \in Gesture,
         gesture' = [gesture EXCEPT ![c][p] = g], GestureFits(g),
         g.pid # None => \A q \in Pointers \ {p} : gesture[c][q].pid # g.pid,
         player' \in [Players -> Player], PlayersFit', UNCHANGED <<link, reach, delay>>,
         fingers' \subseteq Fingers, abandoned' \subseteq Fingers, shared' \subseteq Fingers,
         FingersFit'
  PROVE  GInv'
<1>1. /\ gesture'[c][p] = g
      /\ \A e \in Udids, q \in Pointers : e # c \/ q # p => gesture'[e][q] = gesture[e][q]
  BY DEF GInv, TypeOK
<1>2. TypeOK'
  BY DEF GInv, TypeOK
<1>3. GesturesFit'
  BY <1>1 DEF GInv, GesturesFit
<1>4. IdentifiersDiffer'
  BY <1>1 DEF GInv, IdentifiersDiffer
<1> QED BY <1>2, <1>3, <1>4 DEF GInv

LEMMA PlayerSettles ==
  ASSUME GInv, NEW s \in Players, NEW r \in Player, player' = [player EXCEPT ![s] = r],
         PlayerFits(r),
         UNCHANGED <<link, reach, delay, gesture>>,
         fingers' \subseteq Fingers, abandoned' \subseteq Fingers, shared' \subseteq Fingers,
         FingersFit'
  PROVE  GInv'
<1>1. player'[s] = r /\ \A t \in Players \ {s} : player'[t] = player[t]
  BY DEF GInv, TypeOK
<1>2. TypeOK'
  BY DEF GInv, TypeOK
<1>3. PlayersFit'
  BY <1>1 DEF GInv, PlayersFit, PlayerFits, Idle
<1>4. GesturesFit' /\ IdentifiersDiffer'
  BY DEF GInv, GesturesFit, IdentifiersDiffer
<1> QED BY <1>2, <1>3, <1>4 DEF GInv

\* A player of whom nothing changes but whether it goes on, or what is to do.
LEMMA PlayerIdles ==
  ASSUME GInv, NEW s \in Players, NEW r \in Player, player' = [player EXCEPT ![s] = r],
         OfPlayer(r) = OfPlayer(player[s]),
         PlayerFits(r),
         UNCHANGED <<link, reach, delay, gesture, fingers, history>>
  PROVE  GInv'
<1>1. TypeOK /\ FingersFit /\ OwnerPlayer(s) \in Owners
  BY OwnersLemma DEF GInv
<1>2. fingers' = fingers /\ abandoned' = abandoned /\ shared' = shared /\ gesture' = gesture
  BY DEF history
<1>3. \A o \in Owners : Has(o)' = Has(o)
  BY <1>1, <1>2, PlayerHas, HasLemma
<1>4. FingersFit'
  BY <1>1, <1>2, <1>3, SameLemma
<1>5. fingers' \subseteq Fingers /\ abandoned' \subseteq Fingers /\ shared' \subseteq Fingers
  BY <1>1, <1>2 DEF TypeOK
<1> QED BY <1>2, <1>4, <1>5, PlayerSettles

-----------------------------------------------------------------------------
(* The steps.                                                              *)

LEMMA InitLemma == Init => GInv
<1> SUFFICES ASSUME Init PROVE GInv
  OBVIOUS
<1>1. /\ \A c \in Udids, p \in Pointers : gesture[c][p] = NoGesture
      /\ \A s \in Players : player[s] = NoPlayer
  BY DEF Init
<1>2. TypeOK
  <2>1. NoGesture \in Gesture /\ NoPlayer \in Player
    BY NothingLemma
  <2> QED BY <2>1 DEF Init, TypeOK
<1>3. GesturesFit /\ PlayersFit /\ IdentifiersDiffer
  <2>1. GesturesFit
    BY <1>1, NothingLemma DEF GesturesFit
  <2>2. PlayersFit
    BY <1>1, NothingLemma DEF PlayersFit
  <2>3. IdentifiersDiffer
    BY <1>1 DEF IdentifiersDiffer, NoGesture
  <2> QED BY <2>1, <2>2, <2>3
<1>4. \A o \in Owners : Has(o) = {}
  BY <1>1, OwnersLemma, HasLemma, NothingLemma
<1>5. FingersFit
  BY <1>4 DEF Init, FingersFit, Exclusive
<1> QED BY <1>2, <1>3, <1>5 DEF GInv

LEMMA TargetsLemma ==
  ASSUME TypeOK, NEW c \in Udids
  PROVE  Targets(c) \subseteq Udids /\ Sources(c) \subseteq Udids
BY DEF TypeOK, Targets, Sources

\* A pointer goes down on its canvas.
LEMMA PressStep ==
  ASSUME GInv, NEW c \in Udids, NEW p \in Pointers, Press(c, p)
  PROVE  GInv'
<1>1. TypeOK /\ FingersFit /\ OwnerPointer(c, p) \in Owners /\ gesture[c][p] = NoGesture
  BY OwnersLemma DEF GInv, Press
<1>2. PICK source \in Sources(c), isolated \in BOOLEAN :
        LET followers == IF isolated THEN {} ELSE Targets(c) \ {source}
            slow == delay /\ followers # {}
            g == [pid |-> FreeId(c),
                  targets |-> IF slow THEN {source} ELSE {source} \cup followers,
                  later |-> IF slow THEN followers ELSE {}]
        IN gesture' = [gesture EXCEPT ![c][p] = g] /\ Down(g.targets, g.pid, OwnedElsewhere(c))
  BY DEF Press
<1> DEFINE followers == IF isolated THEN {} ELSE Targets(c) \ {source}
           slow == delay /\ followers # {}
           D == IF slow THEN {source} ELSE {source} \cup followers
           later == IF slow THEN followers ELSE {}
           g == [pid |-> FreeId(c), targets |-> D, later |-> later]
<1>3. D \in SUBSET Udids /\ later \in SUBSET Udids
  BY <1>1, TargetsLemma
<1>4. FreeId(c) \in PointerIds /\ \A q \in Pointers : gesture[c][q].pid # FreeId(c)
  BY <1>1, FreeIdLemma DEF NoGesture
<1>5. FreeId(c) \in Pids /\ FreeId(c) # None
  BY <1>4, PidsLemma
<1>6. gesture' = [gesture EXCEPT ![c][p] = g] /\ Down(D, FreeId(c), OwnedElsewhere(c))
  BY <1>2
<1> HIDE DEF followers, slow, D, later
<1>7. g \in Gesture /\ g.pid = FreeId(c) /\ OfPointer(g) = D \X {FreeId(c)}
  BY <1>3, <1>4 DEF Gesture, OfPointer
<1> HIDE DEF g
<1>8. player' = player /\ UNCHANGED <<link, reach, delay>>
  BY DEF Press
<1>9. /\ Has(OwnerPointer(c, p))' = D \X {FreeId(c)}
      /\ \A o \in Owners \ {OwnerPointer(c, p)} : Has(o)' = Has(o)
  BY <1>1, <1>6, <1>7, <1>8, PointerHas
<1>10. Has(OwnerPointer(c, p)) = {}
  BY <1>1, HasLemma, NothingLemma
<1>11. ASSUME NEW o \in Owners \ {OwnerPointer(c, p)}
       PROVE  Has(o) \cap (D \X {FreeId(c)}) \subseteq OwnedElsewhere(c)
  <2>1. CASE \E q \in Pointers : o = OwnerPointer(c, q)
    <3>1. PICK q \in Pointers : o = OwnerPointer(c, q)
      BY <2>1
    <3>2. Has(o) = OfPointer(gesture[c][q]) /\ gesture[c][q].pid # FreeId(c)
      BY <1>4, <3>1, HasLemma
    <3> QED BY <3>2 DEF OfPointer
  <2>2. CASE \E e \in Udids \ {c}, q \in Pointers : o = OwnerPointer(e, q)
    <3>1. PICK e \in Udids \ {c}, q \in Pointers : o = OwnerPointer(e, q)
      BY <2>2
    <3>2. Has(o) = OfPointer(gesture[e][q])
      BY <3>1, HasLemma
    <3> QED BY <3>2 DEF OwnedElsewhere
  <2>3. CASE \E s \in Players : o = OwnerPlayer(s)
    <3>1. PICK s \in Players : o = OwnerPlayer(s)
      BY <2>3
    <3>2. Has(o) = OfPlayer(player[s])
      BY <3>1, HasLemma
    <3> QED BY <3>2 DEF OwnedElsewhere
  <2> QED BY <2>1, <2>2, <2>3, OwnersLemma
<1>12. FingersFit'
  BY <1>1, <1>6, <1>9, <1>10, <1>11, DownLemma
<1>13. fingers' \subseteq Fingers /\ abandoned' \subseteq Fingers /\ shared' \subseteq Fingers
  BY <1>1, <1>3, <1>5, <1>6, DownType
<1>14. player' \in [Players -> Player] /\ PlayersFit'
  BY <1>1, <1>8 DEF GInv, TypeOK, PlayersFit, Idle
<1>15. GestureFits(g)
  BY <1>5, <1>7 DEF GestureFits
<1> QED BY <1>1, <1>4, <1>6, <1>7, <1>8, <1>12, <1>13, <1>14, <1>15, PointerSettles

\* It moves: a device takes the MOVE of a finger that was lifted for a finger.
LEMMA MoveStep ==
  ASSUME GInv, NEW c \in Udids, NEW p \in Pointers, Move(c, p)
  PROVE  GInv'
<1>1. TypeOK /\ FingersFit /\ OwnerPointer(c, p) \in Owners
      /\ Has(OwnerPointer(c, p)) = OfPointer(gesture[c][p])
  BY OwnersLemma, HasLemma DEF GInv
<1>2. /\ fingers' = fingers \cup OfPointer(gesture[c][p]) /\ gesture' = gesture /\ player' = player
      /\ abandoned' = abandoned /\ shared' = shared /\ link' = link /\ reach' = reach /\ delay' = delay
  BY DEF Move, history
<1>3. \A o \in Owners : Has(o)' = Has(o)
  BY <1>2 DEF Has, OfPointer, OfPlayer
<1>4. FingersFit'
  BY <1>1, <1>2, <1>3, SameLemma
<1>5. fingers' \subseteq Fingers
  <2>1. OfPointer(gesture[c][p]) \subseteq Fingers
    <3>1. CASE gesture[c][p].pid = None
      BY <3>1, FitsLemma DEF GInv, GesturesFit
    <3>2. CASE gesture[c][p].pid # None
      <4>1. gesture[c][p] \in Gesture
        BY <1>1 DEF TypeOK
      <4>2. gesture[c][p].pid \in Pids /\ gesture[c][p].targets \subseteq Udids
        BY <3>2, <4>1, PidsLemma DEF Gesture
      <4> QED BY <4>2 DEF OfPointer, Fingers
    <3> QED BY <3>1, <3>2
  <2> QED BY <1>1, <1>2, <2>1 DEF TypeOK
<1> QED BY <1>2, <1>4, <1>5 DEF GInv, TypeOK, GesturesFit, PlayersFit, IdentifiersDiffer, Idle

\* It goes up where it went down, and what is left to do for its followers is replayed.
LEMMA LiftStep ==
  ASSUME GInv, NEW c \in Udids, NEW p \in Pointers, Lift(c, p)
  PROVE  GInv'
<1> DEFINE o == OwnerPointer(c, p)
           L == OfPointer(gesture[c][p])
<1>1. TypeOK /\ FingersFit /\ o \in Owners /\ Has(o) = L /\ gesture[c][p] \in Gesture
  BY OwnersLemma, HasLemma DEF GInv, TypeOK
<1>2. /\ fingers' = fingers \ L /\ abandoned' = abandoned \ L /\ shared' = shared
      /\ gesture' = [gesture EXCEPT ![c][p] = NoGesture]
      /\ UNCHANGED <<link, reach, delay>>
  BY DEF Lift, Up, LiftedOn, OfPointer
<1>3. /\ player' \in [Players -> Player] /\ PlayersFit'
      /\ \A s \in Players : OfPlayer(player'[s]) = OfPlayer(player[s])
  <2>1. CASE gesture[c][p].later = {}
    <3>1. player' = player
      BY <2>1 DEF Lift
    <3> QED BY <1>1, <3>1 DEF GInv, TypeOK, PlayersFit, Idle
  <2>2. CASE gesture[c][p].later # {}
    <3>1. PICK s \in Players :
            /\ Idle(s)
            /\ player' = [player EXCEPT ![s] =
                 [NoPlayer EXCEPT !.kind = "replay", !.pid = gesture[c][p].pid, !.todo = gesture[c][p].later]]
      BY <2>2 DEF Lift
    <3> DEFINE r == [NoPlayer EXCEPT !.kind = "replay", !.pid = gesture[c][p].pid, !.todo = gesture[c][p].later]
    <3>2. gesture[c][p].pid \in Pids /\ gesture[c][p].pid # None /\ gesture[c][p].later \subseteq Udids
      <4>1. gesture[c][p].pid # None
        BY <2>2 DEF GInv, GesturesFit, GestureFits
      <4> QED BY <1>1, <4>1, PidsLemma DEF Gesture
    <3>3. r \in Player /\ r.kind = "replay" /\ r.pid # None /\ r.down = {}
      BY <3>2 DEF NoPlayer, Player
    <3> HIDE DEF r
    <3>4. player'[s] = r /\ \A t \in Players \ {s} : player'[t] = player[t]
      BY <1>1, <3>1 DEF TypeOK, r
    <3>5. OfPlayer(player[s]) = {}
      BY <3>1, FitsLemma DEF GInv, PlayersFit, Idle
    <3>6. OfPlayer(r) = {}
      BY <3>3 DEF OfPlayer
    <3>7. PlayersFit'
      BY <3>3, <3>4 DEF GInv, PlayersFit, PlayerFits, Idle
    <3>8. player' \in [Players -> Player]
      BY <1>1, <3>1, <3>3 DEF TypeOK, r
    <3> QED BY <3>4, <3>5, <3>6, <3>7, <3>8
  <2> QED BY <2>1, <2>2
<1>4. Has(o)' = {} /\ \A q \in Owners \ {o} : Has(q)' = Has(q)
  <2>1. /\ gesture'[c][p] = NoGesture
        /\ \A e \in Udids, q \in Pointers : e # c \/ q # p => gesture'[e][q] = gesture[e][q]
    BY <1>1, <1>2 DEF TypeOK
  <2>2. Has(o)' = {}
    BY <2>1, HasLemma, NothingLemma DEF Has, OwnerPointer
  <2>3. ASSUME NEW q \in Owners \ {o} PROVE Has(q)' = Has(q)
    <3>1. CASE \E e \in Udids, x \in Pointers : q = OwnerPointer(e, x)
      <4>1. PICK e \in Udids, x \in Pointers : q = OwnerPointer(e, x)
        BY <3>1
      <4>2. gesture'[e][x] = gesture[e][x]
        BY <2>1, <2>3, <4>1
      <4> QED BY <4>1, <4>2 DEF Has, OwnerPointer, OfPointer
    <3>2. CASE \E s \in Players : q = OwnerPlayer(s)
      BY <1>3, <3>2 DEF Has, OwnerPlayer, OfPlayer
    <3> QED BY <3>1, <3>2, OwnersLemma
  <2> QED BY <2>2, <2>3
<1>5. \A q \in Owners \ {o} : L \cap Has(q) \subseteq shared'
  BY <1>1, <1>2 DEF FingersFit, Exclusive
<1> HIDE DEF o, L
<1>6. FingersFit'
  BY <1>1, <1>2, <1>4, <1>5, LiftLemma
<1>7. fingers' \subseteq Fingers /\ abandoned' \subseteq Fingers /\ shared' \subseteq Fingers
  BY <1>1, <1>2 DEF TypeOK
<1> QED BY <1>2, <1>3, <1>6, <1>7, NothingLemma, PointerSettles

\* The controls are attached anew: what the old ones held stays down, for nobody.
LEMMA ReattachStep ==
  ASSUME GInv, NEW c \in Udids, Reattach(c)
  PROVE  GInv'
<1> DEFINE gone == UNION {OfPointer(gesture[c][p]) : p \in Pointers}
<1>1. TypeOK /\ FingersFit
  BY DEF GInv
<1>2. /\ gesture' = [gesture EXCEPT ![c] = [p \in Pointers |-> NoGesture]]
      /\ abandoned' = abandoned \cup gone /\ fingers' = fingers /\ shared' = shared
      /\ link' = link /\ reach' = reach /\ delay' = delay /\ player' = player
  BY DEF Reattach
<1>3. /\ \A p \in Pointers : gesture'[c][p] = NoGesture
      /\ \A e \in Udids \ {c}, p \in Pointers : gesture'[e][p] = gesture[e][p]
  BY <1>1, <1>2 DEF TypeOK
<1>4. \A f \in gone : \E p \in Pointers : f \in OfPointer(gesture[c][p])
  OBVIOUS
<1>5. \A p \in Pointers : OfPointer(gesture[c][p]) \subseteq gone
  OBVIOUS
<1> HIDE DEF gone
<1>6. \A o \in Owners : Has(o)' = Has(o) \/ (Has(o)' = {} /\ Has(o) \subseteq gone)
  <2> TAKE o \in Owners
  <2>1. CASE \E e \in Udids, p \in Pointers : o = OwnerPointer(e, p)
    <3>1. PICK e \in Udids, p \in Pointers : o = OwnerPointer(e, p)
      BY <2>1
    <3>2. Has(o) = OfPointer(gesture[e][p]) /\ Has(o)' = OfPointer(gesture'[e][p])
      BY <3>1 DEF Has, OwnerPointer, OfPointer
    <3>3. CASE e = c
      BY <1>3, <1>5, <3>2, <3>3, NothingLemma
    <3>4. CASE e # c
      BY <1>3, <3>2, <3>4
    <3> QED BY <3>3, <3>4
  <2>2. CASE \E s \in Players : o = OwnerPlayer(s)
    BY <1>2, <2>2 DEF Has, OwnerPlayer, OfPlayer
  <2> QED BY <2>1, <2>2, OwnersLemma
<1>7. FingersFit'
  BY <1>1, <1>2, <1>6 DEF FingersFit, Exclusive
<1>8. gone \subseteq Fingers
  <2>1. ASSUME NEW f \in gone PROVE f \in Fingers
    <3>1. PICK p \in Pointers : f \in OfPointer(gesture[c][p])
      BY <1>4
    <3>2. gesture[c][p] \in Gesture /\ gesture[c][p].pid # None
      BY <1>1, <3>1, FitsLemma DEF GInv, TypeOK, GesturesFit
    <3>3. gesture[c][p].pid \in Pids /\ gesture[c][p].targets \subseteq Udids
      BY <3>2, PidsLemma DEF Gesture
    <3> QED BY <3>1, <3>3 DEF OfPointer, Fingers
  <2> QED BY <2>1
<1>9. TypeOK'
  <2> QED BY <1>1, <1>2, <1>8, NothingLemma DEF TypeOK
<1>10. GesturesFit' /\ IdentifiersDiffer' /\ PlayersFit'
  <2>1. GesturesFit'
    BY <1>3, NothingLemma DEF GInv, GesturesFit
  <2>2. IdentifiersDiffer'
    BY <1>3, NothingLemma DEF GInv, IdentifiersDiffer
  <2>3. PlayersFit'
    BY <1>2 DEF GInv, PlayersFit, PlayerFits, Idle
  <2> QED BY <2>1, <2>2, <2>3
<1> QED BY <1>7, <1>9, <1>10 DEF GInv

\* A pinch, or BACK, goes down on its targets at once.
LEMMA BurstStep ==
  ASSUME GInv, NEW c \in Udids, Burst(c)
  PROVE  GInv'
<1>1. TypeOK /\ FingersFit
  BY DEF GInv
<1>2. PICK s \in Players, kind \in {"pinch", "back"}, source \in Sources(c), isolated \in BOOLEAN :
        LET D == IF kind = "back" THEN KeyTargets(c, isolated)
                 ELSE IF isolated \/ delay THEN {source} ELSE Targets(c)
        IN /\ Idle(s)
           /\ player' = [player EXCEPT ![s] =
                [NoPlayer EXCEPT !.kind = kind, !.pid = IdOf[kind], !.canvas = c, !.isolated = isolated,
                                 !.down = D]]
           /\ Down(D, IdOf[kind], Owned)
  BY DEF Burst
<1> DEFINE D == IF kind = "back" THEN KeyTargets(c, isolated)
                ELSE IF isolated \/ delay THEN {source} ELSE Targets(c)
           r == [NoPlayer EXCEPT !.kind = kind, !.pid = IdOf[kind], !.canvas = c, !.isolated = isolated,
                                 !.down = D]
           o == OwnerPlayer(s)
<1>3. player' = [player EXCEPT ![s] = r] /\ Down(D, IdOf[kind], Owned) /\ OfPlayer(player[s]) = {}
  BY <1>2, FitsLemma DEF GInv, PlayersFit, Idle
<1>4. D \in SUBSET Udids
  BY <1>1, TargetsLemma DEF KeyTargets
<1>5. IdOf[kind] \in Pids /\ IdOf[kind] # None
  BY PidsLemma
<1> HIDE DEF D
<1>6. r \in Player /\ r.kind = kind /\ r.pid = IdOf[kind] /\ r.down = D
  BY <1>4, <1>5 DEF NoPlayer, Player
<1> HIDE DEF r
<1>7. OfPlayer(r) = D \X {IdOf[kind]}
  BY <1>6 DEF OfPlayer
<1>8. UNCHANGED <<link, reach, delay, gesture>>
  BY DEF Burst
<1>9. /\ Has(o)' = D \X {IdOf[kind]} /\ \A q \in Owners \ {o} : Has(q)' = Has(q)
      /\ o \in Owners /\ Has(o) = {}
  BY <1>1, <1>3, <1>7, <1>8, PlayerHas, OwnersLemma, HasLemma, NothingLemma
<1>10. \A q \in Owners \ {o} : Has(q) \cap (D \X {IdOf[kind]}) \subseteq Owned
  BY OwnedLemma
<1>11. FingersFit'
  <2> HIDE DEF o
  <2> QED BY <1>1, <1>3, <1>9, <1>10, DownLemma
<1>12. fingers' \subseteq Fingers /\ abandoned' \subseteq Fingers /\ shared' \subseteq Fingers
  BY <1>1, <1>3, <1>4, <1>5, DownType
<1>13. PlayerFits(r)
  BY <1>5, <1>6 DEF PlayerFits, IdOf
<1> QED BY <1>3, <1>6, <1>8, <1>11, <1>12, <1>13, PlayerSettles

\* A script starts, a player returns, or its signal is aborted: no finger moves.
LEMMA IdleStep ==
  ASSUME GInv, Run \/ \E s \in Players : Returns(s) \/ Abort(s)
  PROVE  GInv'
<1>1. TypeOK /\ PlayersFit
  BY DEF GInv
<1>2. CASE Run
  <2>1. PICK s \in Players, kind \in {"tap", "swipe"}, D \in SUBSET link :
          /\ Idle(s)
          /\ player' = [player EXCEPT ![s] = [NoPlayer EXCEPT !.kind = kind, !.pid = 0, !.todo = D]]
          /\ UNCHANGED <<link, reach, delay, gesture, fingers, history>>
    BY <1>2 DEF Run
  <2> DEFINE r == [NoPlayer EXCEPT !.kind = kind, !.pid = 0, !.todo = D]
  <2>2. 0 \in Pids /\ 0 # None /\ D \subseteq Udids
    BY <1>1, PidsLemma DEF TypeOK
  <2>3. r \in Player /\ r.kind = kind /\ r.pid = 0 /\ r.down = {}
    BY <2>2 DEF NoPlayer, Player
  <2>4. player' = [player EXCEPT ![s] = r]
    BY <2>1
  <2> HIDE DEF r
  <2>5. OfPlayer(player[s]) = {}
    BY <1>1, <2>1, FitsLemma DEF PlayersFit, Idle
  <2>6. OfPlayer(r) = OfPlayer(player[s])
    BY <2>3, <2>5 DEF OfPlayer
  <2>7. PlayerFits(r)
    BY <2>2, <2>3 DEF PlayerFits
  <2> QED BY <2>1, <2>3, <2>4, <2>6, <2>7, PlayerIdles
<1>3. ASSUME NEW s \in Players, Returns(s) PROVE GInv'
  <2>1. /\ player[s].down = {} /\ player' = [player EXCEPT ![s] = NoPlayer]
        /\ UNCHANGED <<link, reach, delay, gesture, fingers, history>>
    BY <1>3 DEF Returns
  <2>2. OfPlayer(NoPlayer) = OfPlayer(player[s])
    BY <2>1, NothingLemma DEF OfPlayer
  <2> QED BY <2>1, <2>2, NothingLemma, PlayerIdles
<1>4. ASSUME NEW s \in Players, Abort(s) PROVE GInv'
  <2>0. PICK rest \in {{}} \cup {{d} : d \in player[s].todo} :
          player' = [player EXCEPT ![s].live = FALSE, ![s].todo = rest]
    BY <1>4 DEF Abort
  <2> DEFINE r == [player[s] EXCEPT !.live = FALSE, !.todo = rest]
  <2>1. /\ player[s].kind \in {"tap", "swipe"} /\ player' = [player EXCEPT ![s] = r]
        /\ UNCHANGED <<link, reach, delay, gesture, fingers, history>>
    BY <1>1, <1>4, <2>0 DEF Abort, TypeOK
  <2>2. /\ r \in Player /\ r.kind = player[s].kind /\ r.pid = player[s].pid /\ r.down = player[s].down
    <3>1. player[s] \in Player /\ rest \subseteq player[s].todo
      BY <1>1, <2>0 DEF TypeOK
    <3>2. rest \in SUBSET Udids
      BY <3>1 DEF Player
    <3> QED BY <3>1, <3>2 DEF Player
  <2> HIDE DEF r
  <2>3. PlayerFits(r)
    BY <1>1, <2>1, <2>2 DEF PlayersFit, PlayerFits
  <2>4. OfPlayer(r) = OfPlayer(player[s])
    BY <2>2 DEF OfPlayer
  <2> QED BY <2>1, <2>2, <2>3, <2>4, PlayerIdles
<1> QED BY <1>2, <1>3, <1>4

\* A player puts its finger down on its next device.
LEMMA NextDeviceStep ==
  ASSUME GInv, NEW s \in Players, Next_(s)
  PROVE  GInv'
<1>1. TypeOK /\ FingersFit /\ PlayersFit /\ player[s] \in Player
  BY DEF GInv, TypeOK
<1>2. PICK d \in player[s].todo :
        /\ player' = [player EXCEPT ![s].down = {d}, ![s].todo = @ \ {d}]
        /\ Down({d}, player[s].pid, Owned)
  BY DEF Next_
<1> DEFINE r == [player[s] EXCEPT !.down = {d}, !.todo = @ \ {d}]
           o == OwnerPlayer(s)
           pid == player[s].pid
<1>3. player' = [player EXCEPT ![s] = r] /\ UNCHANGED <<link, reach, delay, gesture>>
  BY <1>1, <1>2 DEF Next_, TypeOK
<1>4. player[s].down = {} /\ player[s].todo \subseteq Udids /\ d \in Udids
  BY <1>1 DEF Next_, Player
<1>5. player[s].kind # "none" /\ pid # None /\ PlayerFits(player[s])
  BY <1>1 DEF PlayersFit, PlayerFits
<1>6. pid \in Pids
  BY <1>1, <1>5 DEF Player
<1>7. r \in Player /\ r.kind = player[s].kind /\ r.pid = pid /\ r.down = {d}
  BY <1>1, <1>4 DEF Player
<1> HIDE DEF r, pid
<1>8. OfPlayer(r) = {d} \X {pid}
  BY <1>7 DEF OfPlayer
<1>9. /\ Has(o)' = {d} \X {pid} /\ \A q \in Owners \ {o} : Has(q)' = Has(q)
      /\ o \in Owners /\ Has(o) = {}
  <2>1. Has(o) = OfPlayer(player[s]) /\ OfPlayer(player[s]) = {}
    BY <1>4, HasLemma DEF OfPlayer
  <2> QED BY <1>1, <1>3, <1>8, <2>1, PlayerHas, OwnersLemma
<1>10. \A q \in Owners \ {o} : Has(q) \cap ({d} \X {pid}) \subseteq Owned
  BY OwnedLemma
<1>11. FingersFit'
  <2> HIDE DEF o
  <2> QED BY <1>1, <1>2, <1>9, <1>10, DownLemma DEF pid
<1>12. fingers' \subseteq Fingers /\ abandoned' \subseteq Fingers /\ shared' \subseteq Fingers
  <2>1. {d} \in SUBSET Udids /\ Down({d}, pid, Owned)
    BY <1>2, <1>4 DEF pid
  <2> QED BY <1>1, <1>6, <2>1, DownType
<1>13. PlayerFits(r)
  BY <1>5, <1>7 DEF PlayerFits, pid
<1> QED BY <1>3, <1>7, <1>11, <1>12, <1>13, PlayerSettles

\* A player lifts its finger, or leaves it; BACK goes up on the targets of now.
LEMMA UpStep ==
  ASSUME GInv, NEW s \in Players, PlayerLifts(s) \/ BackLifts(s)
  PROVE  GInv'
<1> DEFINE o == OwnerPlayer(s)
           before == player[s]
<1>1. TypeOK /\ FingersFit /\ PlayersFit /\ before \in Player /\ o \in Owners /\ Has(o) = OfPlayer(before)
  BY OwnersLemma, HasLemma DEF GInv, TypeOK
<1>2. UNCHANGED <<link, reach, delay, gesture>>
  BY DEF PlayerLifts, BackLifts
<1>3. NoPlayer \in Player /\ PlayerFits(NoPlayer) /\ OfPlayer(NoPlayer) = {}
  BY NothingLemma
<1>4. ASSUME NEW r \in Player, player' = [player EXCEPT ![s] = r], OfPlayer(r) = {},
             PlayerFits(r),
             NEW L, fingers' = fingers \ L, (abandoned \cup Has(o)) \ L \subseteq abandoned',
             abandoned' \subseteq abandoned \cup Has(o), shared \subseteq shared', shared' \subseteq shared \cup fingers \cup Owned,
             \A q \in Owners \ {o} : L \cap Has(q) \subseteq shared'
      PROVE  GInv'
  <2>1. Has(o)' = {} /\ \A q \in Owners \ {o} : Has(q)' = Has(q)
    BY <1>1, <1>2, <1>4, PlayerHas
  <2>2. FingersFit'
    <3> HIDE DEF o
    <3> QED BY <1>1, <1>4, <2>1, LiftLemma
  <2>3. fingers \subseteq Fingers /\ abandoned \subseteq Fingers /\ shared \subseteq Fingers
    BY <1>1 DEF TypeOK
  <2>4. Owned \subseteq Fingers /\ Has(o) \subseteq Fingers
    <3>1. ASSUME NEW f \in Owned PROVE f \in Fingers
      BY <1>1, <2>3, OwnedLemma DEF FingersFit
    <3> QED BY <1>1, <2>3, <3>1 DEF FingersFit
  <2>5. fingers' \subseteq Fingers /\ abandoned' \subseteq Fingers /\ shared' \subseteq Fingers
    BY <1>4, <2>3, <2>4
  <2> QED BY <1>2, <1>4, <2>2, <2>5, PlayerSettles
<1>5. CASE PlayerLifts(s) /\ LiftsAtEnd(before)
  <2> DEFINE r == [before EXCEPT !.down = {}]
             L == before.down \X {before.pid}
  <2>1. /\ player' = [player EXCEPT ![s] = r] /\ before.down # {}
        /\ fingers' = fingers \ L /\ abandoned' = abandoned \ L /\ shared' = shared
    BY <1>1, <1>5 DEF PlayerLifts, Up, TypeOK
  <2>2. r \in Player /\ r.kind = before.kind /\ r.pid = before.pid /\ r.down = {}
    BY <1>1 DEF Player
  <2>3. Has(o) = L
    BY <1>1 DEF OfPlayer
  <2> HIDE DEF r, L
  <2>4. OfPlayer(r) = {}
    BY <2>2 DEF OfPlayer
  <2>5. PlayerFits(r)
    BY <1>1, <2>1, <2>2 DEF PlayersFit, PlayerFits
  <2>6. \A q \in Owners \ {o} : L \cap Has(q) \subseteq shared'
    BY <1>1, <2>1, <2>3 DEF FingersFit, Exclusive
  <2> HIDE DEF o
  <2> QED BY <1>4, <2>1, <2>2, <2>3, <2>4, <2>5, <2>6
<1>6. CASE PlayerLifts(s) /\ ~LiftsAtEnd(before)
  <2>1. /\ player' = [player EXCEPT ![s] = NoPlayer] /\ fingers' = fingers \ {}
        /\ abandoned' = abandoned \cup Has(o) /\ shared' = shared
    BY <1>1, <1>6 DEF PlayerLifts
  <2> HIDE DEF o
  <2>2. \A q \in Owners \ {o} : {} \cap Has(q) \subseteq shared'
    OBVIOUS
  <2> QED BY <1>3, <1>4, <2>1, <2>2
<1>7. CASE BackLifts(s)
  <2> DEFINE D == KeyTargets(before.canvas, before.isolated)
             L == D \X {before.pid}
             others == UNION {OfPlayer(player[q]) : q \in Players \ {s}}
  <2>1. /\ before.kind = "back" /\ player' = [player EXCEPT ![s] = NoPlayer]
        /\ fingers' = fingers \ L /\ abandoned' = (abandoned \cup Has(o)) \ L
        /\ shared' = shared \cup (L \cap others)
    BY <1>1, <1>7 DEF BackLifts
  <2>2. others \subseteq Owned
    BY DEF Owned
  <2>3. before.pid = IdOf["back"] /\ before.pid \notin PointerIds
    BY <1>1, <2>1, PidsLemma DEF PlayersFit, PlayerFits
  <2>4. ASSUME NEW q \in Owners \ {o} PROVE L \cap Has(q) \subseteq others
    <3>1. CASE \E c \in Udids, p \in Pointers : q = OwnerPointer(c, p)
      <4>1. PICK c \in Udids, p \in Pointers : q = OwnerPointer(c, p)
        BY <3>1
      <4>2. Has(q) = OfPointer(gesture[c][p]) /\ gesture[c][p] \in Gesture
        BY <1>1, <4>1, HasLemma DEF TypeOK
      <4>3. gesture[c][p].pid \in PointerIds \/ Has(q) = {}
        BY <4>2, FitsLemma DEF GInv, GesturesFit, Gesture
      <4>4. L \cap Has(q) = {}
        BY <2>3, <4>2, <4>3 DEF OfPointer
      <4> QED BY <4>4
    <3>2. CASE \E t \in Players : q = OwnerPlayer(t)
      <4>1. PICK t \in Players : q = OwnerPlayer(t)
        BY <3>2
      <4>2. t \in Players \ {s} /\ Has(q) = OfPlayer(player[t])
        BY <2>4, <4>1, HasLemma
      <4> QED BY <4>2
    <3> QED BY <3>1, <3>2, OwnersLemma
  <2> HIDE DEF L, others, o
  <2>5. \A q \in Owners \ {o} : L \cap Has(q) \subseteq shared'
    BY <2>1, <2>4
  <2>6. abandoned' \subseteq abandoned \cup Has(o) /\ shared' \subseteq shared \cup fingers \cup Owned
    BY <2>1, <2>2
  <2> QED BY <1>3, <1>4, <2>1, <2>5, <2>6
<1> QED BY <1>5, <1>6, <1>7

\* Whatever the group is, a canvas reaches devices.
LEMMA ReachesLemma == Reaches \subseteq [Udids -> SUBSET Udids]
<1>1. ASSUME NEW main \in Udids \cup {None}, NEW solo \in Udids \cup {None},
             NEW others \in SUBSET Udids, NEW all \in BOOLEAN, NEW c \in Udids
      PROVE  Resolved(c, main, others, all, solo) \subseteq Udids
  BY DEF Resolved
<1>2. SUFFICES ASSUME NEW f \in Reaches PROVE f \in [Udids -> SUBSET Udids]
  OBVIOUS
<1>3. PICK main \in Udids \cup {None}, solo \in Udids \cup {None}, others \in SUBSET Udids, all \in BOOLEAN :
        f = [c \in Udids |-> Resolved(c, main, others, all, solo)]
  BY DEF Reaches
<1>4. \A c \in Udids : Resolved(c, main, others, all, solo) \in SUBSET Udids
  BY <1>1
<1> QED BY <1>3, <1>4

\* The delay is switched, the group changes or a socket opens: nobody's fingers change.
LEMMA SettingsStep ==
  ASSUME GInv, SetDelay \/ Regroup \/ \E d \in Udids : LinkOpens(d)
  PROVE  GInv'
<1>1. TypeOK /\ FingersFit /\ PlayersFit
  BY DEF GInv
<1>2. /\ gesture' = gesture /\ fingers' = fingers /\ abandoned' = abandoned /\ shared' = shared
      /\ link' \subseteq Udids /\ reach' \in [Udids -> SUBSET Udids] /\ delay' \in BOOLEAN
  <2>1. CASE Regroup
    BY <1>1, <2>1, ReachesLemma DEF Regroup, history, TypeOK
  <2>2. CASE SetDelay \/ \E d \in Udids : LinkOpens(d)
    BY <1>1, <2>2 DEF SetDelay, LinkOpens, history, TypeOK
  <2> QED BY <2>1, <2>2
<1>3. /\ player' \in [Players -> Player]
      /\ \A s \in Players : OfPlayer(player'[s]) = OfPlayer(player[s]) /\ PlayerFits(player'[s])
  <2>1. CASE player' = player
    BY <1>1, <2>1 DEF TypeOK, PlayersFit
  <2>2. CASE SetDelay
    <3>1. ASSUME NEW s \in Players
          PROVE  /\ player'[s] \in Player /\ OfPlayer(player'[s]) = OfPlayer(player[s])
                 /\ PlayerFits(player'[s])
      <4>1. CASE delay /\ player[s].kind = "replay"
        <5> DEFINE r == [player[s] EXCEPT !.live = FALSE]
        <5>1. player'[s] = r
          BY <2>2, <4>1 DEF SetDelay
        <5>2. /\ r \in Player /\ r.kind = "replay" /\ r.pid = player[s].pid
              /\ r.down = player[s].down
          BY <1>1, <4>1 DEF TypeOK, Player
        <5> HIDE DEF r
        <5> QED BY <1>1, <4>1, <5>1, <5>2 DEF OfPlayer, PlayersFit, PlayerFits
      <4>2. CASE ~(delay /\ player[s].kind = "replay")
        BY <1>1, <2>2, <4>2 DEF SetDelay, TypeOK, PlayersFit
      <4> QED BY <4>1, <4>2
    <3>2. player' = [s \in Players |-> player'[s]]
      BY <2>2 DEF SetDelay
    <3> QED BY <3>1, <3>2
  <2> QED BY <2>1, <2>2 DEF Regroup, LinkOpens
<1>4. \A o \in Owners : Has(o)' = Has(o)
  <2> TAKE o \in Owners
  <2>1. CASE \E c \in Udids, p \in Pointers : o = OwnerPointer(c, p)
    BY <1>2, <2>1 DEF Has, OwnerPointer, OfPointer
  <2>2. CASE \E s \in Players : o = OwnerPlayer(s)
    BY <1>3, <2>2 DEF Has, OwnerPlayer, OfPlayer
  <2> QED BY <2>1, <2>2, OwnersLemma
<1>5. FingersFit'
  BY <1>1, <1>2, <1>4, SameLemma
<1>6. PlayersFit'
  BY <1>3 DEF PlayersFit
<1>7. TypeOK' /\ GesturesFit' /\ IdentifiersDiffer'
  BY <1>2, <1>3 DEF GInv, TypeOK, GesturesFit, IdentifiersDiffer
<1> QED BY <1>5, <1>6, <1>7 DEF GInv

\* A socket closes: the session on the device ends, and all fingers on it are gone.
LEMMA LinkClosesStep ==
  ASSUME GInv, NEW d \in Udids, LinkCloses(d)
  PROVE  GInv'
<1> DEFINE Gone(f) == f[1] = d
<1>1. TypeOK /\ FingersFit /\ PlayersFit
  BY DEF GInv
<1>2. /\ fingers' = {f \in fingers : f[1] # d} /\ abandoned' = {f \in abandoned : f[1] # d}
      /\ shared' = {f \in shared : f[1] # d}
      /\ link' \subseteq Udids /\ reach' \in [Udids -> SUBSET Udids] /\ delay' \in BOOLEAN
  BY <1>1 DEF LinkCloses, TypeOK
<1>3. ASSUME NEW c \in Udids, NEW p \in Pointers
      PROVE  /\ gesture'[c][p] \in Gesture /\ gesture'[c][p].pid = gesture[c][p].pid
             /\ gesture'[c][p].targets = gesture[c][p].targets \ {d} /\ GestureFits(gesture'[c][p])
  <2> DEFINE g == [gesture[c][p] EXCEPT !.targets = @ \ {d}, !.later = @ \ {d}]
  <2>1. gesture'[c][p] = g /\ gesture[c][p] \in Gesture /\ GestureFits(gesture[c][p])
    BY <1>1 DEF LinkCloses, TypeOK, GInv, GesturesFit
  <2>2. /\ g \in Gesture /\ g.pid = gesture[c][p].pid /\ g.targets = gesture[c][p].targets \ {d}
        /\ g.later = gesture[c][p].later \ {d}
    BY <2>1 DEF Gesture
  <2> HIDE DEF g
  <2> QED BY <2>1, <2>2 DEF GestureFits
<1>4. ASSUME NEW s \in Players
      PROVE  /\ player'[s] \in Player /\ player'[s].pid = player[s].pid
             /\ player'[s].down = player[s].down \ {d} /\ PlayerFits(player'[s])
  <2> DEFINE r == [player[s] EXCEPT !.down = @ \ {d}, !.todo = @ \ {d}]
  <2>1. player'[s] = r /\ player[s] \in Player /\ PlayerFits(player[s])
    BY <1>1 DEF LinkCloses, TypeOK, PlayersFit
  <2>2. /\ r \in Player /\ r.pid = player[s].pid /\ r.kind = player[s].kind
        /\ r.down = player[s].down \ {d} /\ r.todo = player[s].todo \ {d}
    BY <2>1 DEF Player
  <2> HIDE DEF r
  <2> QED BY <2>1, <2>2 DEF PlayerFits
<1>5. \A o \in Owners : Has(o)' = {f \in Has(o) : f[1] # d}
  <2> TAKE o \in Owners
  <2>1. CASE \E c \in Udids, p \in Pointers : o = OwnerPointer(c, p)
    <3>1. PICK c \in Udids, p \in Pointers : o = OwnerPointer(c, p)
      BY <2>1
    <3>2. /\ Has(o) = gesture[c][p].targets \X {gesture[c][p].pid}
          /\ Has(o)' = (gesture[c][p].targets \ {d}) \X {gesture[c][p].pid}
      BY <1>3, <3>1 DEF Has, OwnerPointer, OfPointer
    <3> QED BY <3>2
  <2>2. CASE \E s \in Players : o = OwnerPlayer(s)
    <3>1. PICK s \in Players : o = OwnerPlayer(s)
      BY <2>2
    <3>2. /\ Has(o) = player[s].down \X {player[s].pid}
          /\ Has(o)' = (player[s].down \ {d}) \X {player[s].pid}
      BY <1>4, <3>1 DEF Has, OwnerPlayer, OfPlayer
    <3> QED BY <3>2
  <2> QED BY <2>1, <2>2, OwnersLemma
<1>6. FingersFit'
  <2>1. ASSUME NEW f \in fingers' PROVE f \in abandoned' \/ \E o \in Owners : f \in Has(o)'
    BY <1>1, <1>2, <1>5 DEF FingersFit
  <2>2. ASSUME NEW o \in Owners PROVE Has(o)' \subseteq fingers' \cup shared'
    BY <1>1, <1>2, <1>5 DEF FingersFit
  <2>3. ASSUME NEW o \in Owners, NEW q \in Owners, o # q PROVE Has(o)' \cap Has(q)' \subseteq shared'
    BY <1>1, <1>2, <1>5, <2>3 DEF FingersFit, Exclusive
  <2> QED BY <2>1, <2>2, <2>3 DEF FingersFit, Exclusive
<1>7. TypeOK'
  <2>1. gesture' = [c \in Udids |-> [p \in Pointers |-> gesture'[c][p]]]
    BY DEF LinkCloses
  <2>2. gesture' \in [Udids -> [Pointers -> Gesture]]
    BY <1>3, <2>1
  <2>3. player' = [s \in Players |-> player'[s]]
    BY DEF LinkCloses
  <2>4. player' \in [Players -> Player]
    BY <1>4, <2>3
  <2> QED BY <1>1, <1>2, <2>2, <2>4 DEF TypeOK
<1>8. GesturesFit' /\ IdentifiersDiffer' /\ PlayersFit'
  <2>1. GesturesFit'
    BY <1>3 DEF GesturesFit
  <2>2. IdentifiersDiffer'
    BY <1>3 DEF GInv, IdentifiersDiffer
  <2>3. PlayersFit'
    BY <1>4 DEF PlayersFit
  <2> QED BY <2>1, <2>2, <2>3
<1> QED BY <1>6, <1>7, <1>8 DEF GInv

LEMMA NextStep == GInv /\ [Next]_vars => GInv'
<1> SUFFICES ASSUME GInv, [Next]_vars PROVE GInv'
  OBVIOUS
<1>1. ASSUME NEW c \in Udids, NEW p \in Pointers, Press(c, p) \/ Move(c, p) \/ Lift(c, p) PROVE GInv'
  BY <1>1, PressStep, MoveStep, LiftStep
<1>2. ASSUME NEW c \in Udids, Burst(c) \/ Reattach(c) PROVE GInv'
  BY <1>2, BurstStep, ReattachStep
<1>3. ASSUME NEW c \in Udids, LinkCloses(c) PROVE GInv'
  BY <1>3, LinkClosesStep
<1>4. ASSUME NEW s \in Players, Next_(s) \/ PlayerLifts(s) \/ BackLifts(s) PROVE GInv'
  BY <1>4, NextDeviceStep, UpStep
<1>5. CASE Run \/ \E s \in Players : Returns(s) \/ Abort(s)
  BY <1>5, IdleStep
<1>6. CASE SetDelay \/ Regroup \/ \E d \in Udids : LinkOpens(d)
  BY <1>6, SettingsStep
<1>7. CASE UNCHANGED vars
  <2>1. \A o \in Owners : Has(o)' = Has(o)
    BY <1>7 DEF vars, Has, OfPointer, OfPlayer
  <2>2. FingersFit'
    BY <1>7, <2>1, SameLemma DEF GInv, vars
  <2> QED BY <1>7, <2>2 DEF vars, GInv, TypeOK, GesturesFit, PlayersFit, IdentifiersDiffer
<1> QED BY <1>1, <1>2, <1>3, <1>4, <1>5, <1>6, <1>7 DEF Next

-----------------------------------------------------------------------------
(* The theorems.                                                           *)

\* Every finger has the owners that the pointers and players say it has.
THEOREM GesturesInductive == Spec => []GInv
<1>1. Init => GInv
  BY InitLemma
<1>2. GInv /\ [Next]_vars => GInv'
  BY NextStep
<1> QED BY <1>1, <1>2, PTL DEF Spec

\* Every variable stays within its type; in particular no canvas runs out of
\* identifiers for its pointers (makePointerIdAllocator, touchControls.ts:36).
THEOREM TypeCorrect == Spec => []TypeOK
<1>1. GInv => TypeOK
  BY DEF GInv
<1> QED BY <1>1, GesturesInductive, PTL

\* Two pointers that are down on one canvas never have the same identifier, so that
\* neither lifts the finger of the other (makePointerIdAllocator, touchControls.ts:36).
THEOREM PointersStayApart == Spec => []IdentifiersDiffer
<1>1. GInv => IdentifiersDiffer
  BY DEF GInv
<1> QED BY <1>1, GesturesInductive, PTL

\* A finger that is down belongs to someone who will lift it, or it is one of those that
\* a detached gesture, an aborted swipe or a changed target has left (onPointerUpOrCancel).
THEOREM FingersAreOwned == Spec => []HeldFingersAreOwned
<1>1. GInv => HeldFingersAreOwned
  BY OwnedLemma DEF GInv, FingersFit, HeldFingersAreOwned
<1> QED BY <1>1, GesturesInductive, PTL

\* A finger that someone has put down is down, unless it was shared with another gesture
\* or another BACK key went up for it (sendTouch, sendBackKey).
THEOREM OwnersHoldFingers == Spec => []OwnedFingersAreHeld
<1>1. GInv => OwnedFingersAreHeld
  BY OwnedLemma DEF GInv, FingersFit, OwnedFingersAreHeld
<1> QED BY <1>1, GesturesInductive, PTL
=============================================================================
