------------------------- MODULE VideoPipelineProofs -------------------------
(***************************************************************************)
(* Proofs about VideoPipeline, for any water marks, queue limit, set of    *)
(* configurations and number of faults: its types, the accounting of       *)
(* frames, the bound of the backlog, and that nothing undecodable is ever  *)
(* decoded.                                                                *)
(***************************************************************************)
EXTENDS VideoPipeline, SequenceTheorems, TLAPS

-----------------------------------------------------------------------------
(* The inductive invariant.                                                *)

\* The engine: its frames, and that it has no decoder before it has a
\* configuration.
Sound(e) ==
  /\ e \in Engine
  /\ e.open = (IF e.pending = "none" THEN 0 ELSE 1)
  /\ e.pending # "old"
  /\ e.last = None => e.dec # "configured"
  /\ e.ref # "bad"

\* The engine would decode a delta.
Ready(e) == e.dec = "configured" /\ ~e.fresh /\ ~e.drop /\ e.keyframeReceived

\* An engine that would decode the next delta has decoded the frame before it.
Good(e) == Sound(e) /\ (Ready(e) => e.ref = "good")

\* Configuration c is in effect for the client in front of packet i of w, when
\* its assembler has cached a before the first one.
InEffect(w, a, c, i) ==
  \/ a = c /\ \A j \in 1 .. i - 1 : w[j].type # "config"
  \/ \E j \in 1 .. i - 1 :
       /\ w[j].type = "config" /\ w[j].cfg = c
       /\ \A k \in j + 1 .. i - 1 : w[k].type # "config"

\* On the wire, a key frame comes behind its configuration, and a delta behind
\* the frame it follows.
WireInv(w, a) ==
  \A i \in 1 .. Len(w) :
    /\ w[i].type = "key" => InEffect(w, a, w[i].cfg, i)
    /\ w[i].type = "delta" => w[i].follows

\* The sink knows the configuration of the encoder; and while its gate is open
\* the client is going to know it as well, and no frame has been skipped.
SinkInv ==
  /\ enc.owes = "config" => ~congested /\ ~skipped
  /\ enc.owes # "config" => latest = enc.cfg
  /\ enc.owes # "config" /\ ~congested => InEffect(wire, asm, enc.cfg, Len(wire) + 1)
  /\ skipped => congested

\* There are bytes for every packet on the wire, and no others.
Backed == buffered \in Nat /\ Len(wire) <= buffered /\ (wire = <<>> => buffered = 0)

VInv ==
  /\ TypeOK
  /\ Good(eng)
  /\ eng.last # None => asm # None
  /\ WireInv(wire, asm)
  /\ SinkInv
  /\ BacklogBounded

-----------------------------------------------------------------------------
(* The engine.                                                             *)

\* Discarding a pending frame closes it and nothing else.
LEMMA DiscardLemma ==
  ASSUME NEW e, Sound(e)
  PROVE  /\ Discard(e) \in Engine
         /\ Discard(e).open = 0 /\ Discard(e).pending = "none"
         /\ Discard(e).last = e.last /\ Discard(e).drop = e.drop
         /\ Discard(e).dec = e.dec /\ Discard(e).ref = e.ref
         /\ Discard(e).fresh = e.fresh /\ Discard(e).stale = e.stale
         /\ Discard(e).queued = e.queued
         /\ Discard(e).keyframeReceived = e.keyframeReceived
<1>1. (IF e.pending = "none" THEN e.open ELSE e.open - 1) = 0
  BY DEF Sound, Engine
<1>2. Discard(e) = [e EXCEPT !.pending = "none", !.open = 0]
  BY <1>1 DEF Discard
<1>3. e \in Engine
  BY DEF Sound
<1>4. [e EXCEPT !.pending = "none", !.open = 0] \in Engine
  BY <1>3, Zenon DEF Engine
<1>5. Discard(e) \in Engine
  BY <1>2, <1>4
<1>. QED
  BY <1>2, <1>3, <1>5 DEF Engine

\* A new decoder resets these fields of the engine.
LEMMA NewDecoderLemma ==
  ASSUME NEW d \in Engine, NEW dec \in {"unconfigured", "configured", "closed"},
         NEW late \in BOOLEAN
  PROVE  [d EXCEPT !.dec = dec, !.fresh = TRUE, !.queued = 0, !.stale = late, !.ref = "none"]
           \in Engine
<1>1. \A fresh \in BOOLEAN, n \in Nat, ref \in {"none", "good", "bad"} :
        [d EXCEPT !.dec = dec, !.fresh = fresh, !.queued = n, !.stale = late, !.ref = ref]
          \in Engine
  BY DEF Engine
<1>. QED
  BY <1>1

LEMMA RecreateLemma ==
  ASSUME NEW e, Sound(e), NEW ok \in BOOLEAN
  PROVE  /\ Sound(Recreate(e, ok)) /\ Recreate(e, ok).drop = e.drop /\ Recreate(e, ok).last = e.last
<1> DEFINE d == Discard(e)
           dec == IF e.last = None \/ ~ok THEN "unconfigured" ELSE "configured"
<1>1. /\ d \in Engine /\ d.open = 0 /\ d.pending = "none"
      /\ d.drop = e.drop /\ d.last = e.last
  BY DiscardLemma
<1>2. dec \in {"unconfigured", "configured", "closed"} /\ (e.last = None => dec # "configured")
  OBVIOUS
<1>3. (d.stale \/ e.queued > 0) \in BOOLEAN
  BY <1>1 DEF Engine
<1>4. PICK late \in BOOLEAN :
        Recreate(e, ok) =
          [d EXCEPT !.dec = dec, !.fresh = TRUE, !.queued = 0, !.stale = late, !.ref = "none"]
  BY <1>3 DEF Recreate
<1> HIDE DEF d, dec
<1>5. /\ Recreate(e, ok) \in Engine
      /\ Recreate(e, ok).last = d.last /\ Recreate(e, ok).drop = d.drop
      /\ Recreate(e, ok).open = 0 /\ Recreate(e, ok).pending = "none"
      /\ Recreate(e, ok).dec = dec /\ Recreate(e, ok).ref = "none"
  <2>1. [d EXCEPT !.dec = dec, !.fresh = TRUE, !.queued = 0, !.stale = late, !.ref = "none"]
          \in Engine
    BY <1>1, <1>2, NewDecoderLemma
  <2>. QED
    BY <1>1, <1>4, <2>1 DEF Engine
<1>. QED
  BY <1>1, <1>2, <1>5 DEF Sound

LEMMA FlagsLemma ==
  ASSUME NEW e \in Engine, NEW x \in BOOLEAN, NEW y \in BOOLEAN
  PROVE  [e EXCEPT !.drop = x, !.keyframeReceived = y] \in Engine
BY DEF Engine

\* A recovery throws the decoder away and waits for a key frame.
LEMMA RecoverLemma ==
  ASSUME NEW e, Sound(e), NEW ok \in BOOLEAN
  PROVE  Good(Recover(e, ok)) /\ Recover(e, ok).drop /\ Recover(e, ok).last = e.last
<1>1. CASE e.drop
  BY <1>1 DEF Recover, Good, Ready, Sound
<1>2. CASE ~e.drop
  <2> DEFINE f == [e EXCEPT !.drop = TRUE, !.keyframeReceived = FALSE]
  <2>1. Sound(f) /\ f.drop /\ f.last = e.last
    <3>1. e \in Engine
      BY DEF Sound
    <3>2. f \in Engine
      BY <3>1, FlagsLemma
    <3>. QED
      BY <3>1, <3>2 DEF Sound, Engine
  <2>2. Recover(e, ok) = Recreate(f, ok)
    BY <1>2 DEF Recover
  <2> HIDE DEF f
  <2>3. Sound(Recover(e, ok)) /\ Recover(e, ok).drop /\ Recover(e, ok).last = e.last
    BY <2>1, <2>2, RecreateLemma
  <2>. QED
    BY <2>3 DEF Good, Ready
<1>3. e.drop \in BOOLEAN
  BY DEF Sound, Engine
<1>. QED
  BY <1>1, <1>2, <1>3

\* New parameter sets leave the engine with a decoder that is fresh.
LEMMA ReconfigureLemma ==
  ASSUME NEW e, Good(e), NEW c \in Configs \cup {None}, NEW ok \in BOOLEAN
  PROVE  /\ Good(Reconfigure(e, c, ok))
         /\ Reconfigure(e, c, ok).last = IF c = None THEN e.last ELSE c
<1>0. e \in Engine
  BY DEF Good, Sound
<1>1. CASE c = None \/ c = e.last
  BY <1>1 DEF Reconfigure
<1>2. CASE ~(c = None \/ c = e.last) /\ ~ok
  <2>1. Reconfigure(e, c, ok) = [e EXCEPT !.last = c, !.drop = TRUE]
    BY <1>2 DEF Reconfigure
  <2>2. Reconfigure(e, c, ok) \in Engine
    BY <1>0, <2>1 DEF Engine
  <2>. QED
    BY <1>0, <1>2, <2>1, <2>2 DEF Good, Ready, Sound, Engine
<1>3. CASE ~(c = None \/ c = e.last) /\ ok /\ e.dec = "closed"
  <2>1. Reconfigure(e, c, ok) = [e EXCEPT !.last = c]
    BY <1>3 DEF Reconfigure
  <2>2. Reconfigure(e, c, ok) \in Engine
    BY <1>0, <2>1 DEF Engine
  <2>. QED
    BY <1>0, <1>3, <2>1, <2>2 DEF Good, Ready, Sound, Engine
<1>4. CASE ~(c = None \/ c = e.last) /\ ok /\ e.dec # "closed"
  <2>1. Reconfigure(e, c, ok) = [e EXCEPT !.last = c, !.dec = "configured", !.fresh = TRUE]
    BY <1>4 DEF Reconfigure
  <2>2. Reconfigure(e, c, ok) \in Engine
    BY <1>0, <2>1 DEF Engine
  <2>. QED
    BY <1>0, <1>4, <2>1, <2>2 DEF Good, Ready, Sound, Engine
<1>. QED
  BY <1>1, <1>2, <1>3, <1>4

\* A chunk whose reference is there is decoded well, or starts a recovery.
LEMMA DecodeLemma ==
  ASSUME NEW e, Sound(e), NEW p \in Packet, NEW ok \in BOOLEAN,
         \/ p.type = "key" /\ p.cfg = e.last
         \/ p.type = "delta" /\ p.follows /\ (Ready(e) => e.ref = "good")
                             /\ ~e.drop /\ e.keyframeReceived
  PROVE  Good(Decode(e, p, ok)) /\ Decode(e, p, ok).last = e.last
<1>1. CASE e.dec # "configured" \/ (e.fresh /\ p.type = "delta")
  BY <1>1, RecoverLemma DEF Decode
<1>2. CASE ~(e.dec # "configured" \/ (e.fresh /\ p.type = "delta"))
  <2> DEFINE ref == IF p.type = "key" /\ e.last = p.cfg THEN "good"
                    ELSE IF p.type = "delta" /\ p.follows /\ e.ref = "good" THEN "good" ELSE "bad"
  <2>1. ref = "good"
    BY <1>2 DEF Ready, Sound, Engine
  <2>2. Decode(e, p, ok) = [e EXCEPT !.queued = e.queued + 1, !.fresh = FALSE, !.ref = "good"]
    BY <1>2, <2>1 DEF Decode
  <2>3. e \in Engine /\ e.queued + 1 \in Nat
    BY DEF Sound, Engine
  <2> HIDE DEF ref
  <2>4. [e EXCEPT !.queued = e.queued + 1, !.fresh = FALSE, !.ref = "good"] \in Engine
    BY <2>3, Zenon DEF Engine
  <2>5. /\ Decode(e, p, ok).ref = "good" /\ Decode(e, p, ok).open = e.open
        /\ Decode(e, p, ok).pending = e.pending /\ Decode(e, p, ok).last = e.last
        /\ Decode(e, p, ok).dec = e.dec
    BY <2>2, <2>3 DEF Engine
  <2>. QED
    BY <2>2, <2>4, <2>5 DEF Good, Sound
<1>. QED
  BY <1>1, <1>2

\* What the assembler hands over is decoded, held back or recovered from.
LEMMA AcceptLemma ==
  ASSUME NEW e, Good(e), NEW p \in Packet, NEW ok \in BOOLEAN,
         \/ p.type = "key" /\ (e.last = None \/ p.cfg = e.last)
         \/ p.type = "delta" /\ p.follows
  PROVE  Good(Accept(e, p, ok)) /\ Accept(e, p, ok).last = e.last
<1> DEFINE f == IF e.queued > QueueLimit THEN Recover(e, ok) ELSE e
           g == IF p.type = "key" THEN [f EXCEPT !.drop = FALSE, !.keyframeReceived = TRUE] ELSE f
<1>1. Good(f) /\ f.last = e.last
  BY RecoverLemma DEF Good
<1> HIDE DEF f
<1>2. CASE e.last = None
  BY <1>2 DEF Accept, Good, Ready, Sound, Engine
<1>3. CASE e.last # None /\ p.type = "delta" /\ (f.drop \/ ~f.keyframeReceived)
  <2>1. Accept(e, p, ok) = [f EXCEPT !.ref = "none"]
    BY <1>3 DEF Accept, f
  <2>. QED
    BY <1>1, <1>3, <2>1 DEF Good, Ready, Sound, Engine
<1>4. CASE e.last # None /\ ~(p.type = "delta" /\ (f.drop \/ ~f.keyframeReceived))
  <2>1. Accept(e, p, ok) = Decode(g, p, ok)
    BY <1>4 DEF Accept, f, g
  <2>2. Sound(g) /\ g.last = e.last
    <3>1. f \in Engine /\ Sound(f)
      BY <1>1 DEF Good, Sound
    <3>2. g \in Engine
      BY <3>1, FlagsLemma DEF g
    <3>. QED
      BY <1>1, <3>1, <3>2 DEF g, Sound, Engine
  <2>3. \/ p.type = "key" /\ p.cfg = g.last
        \/ p.type = "delta" /\ p.follows /\ (Ready(g) => g.ref = "good")
                            /\ ~g.drop /\ g.keyframeReceived
    BY <1>1, <1>4, <2>2 DEF Good
  <2> HIDE DEF g
  <2>4. Good(Decode(g, p, ok)) /\ Decode(g, p, ok).last = g.last
    BY <2>2, <2>3, DecodeLemma
  <2>. QED
    BY <2>1, <2>2, <2>4
<1>. QED
  BY <1>2, <1>3, <1>4
-----------------------------------------------------------------------------
(* The wire.                                                               *)

\* What is in effect in front of a packet stays so when another one is put on the wire.
LEMMA InEffectAppend ==
  ASSUME NEW w \in Seq(Packet), NEW a, NEW c, NEW p \in Packet, NEW i \in 1 .. Len(w) + 1,
         InEffect(w, a, c, i)
  PROVE  InEffect(Append(w, p), a, c, i)
<1> DEFINE v == Append(w, p)
<1>1. \A j \in 1 .. i - 1 : v[j] = w[j]
  OBVIOUS
<1>2. i \in Int
  OBVIOUS
<1> SUFFICES InEffect(v, a, c, i)
  OBVIOUS
<1> HIDE DEF v
<1>3. CASE a = c /\ \A j \in 1 .. i - 1 : w[j].type # "config"
  BY <1>1, <1>3 DEF InEffect
<1>4. CASE \E j \in 1 .. i - 1 : /\ w[j].type = "config" /\ w[j].cfg = c
                                 /\ \A k \in j + 1 .. i - 1 : w[k].type # "config"
  <2>1. PICK j \in 1 .. i - 1 : /\ w[j].type = "config" /\ w[j].cfg = c
                                /\ \A k \in j + 1 .. i - 1 : w[k].type # "config"
    BY <1>4
  <2>2. \A k \in j + 1 .. i - 1 : v[k].type # "config"
    BY <1>1, <1>2, <2>1
  <2>3. v[j].type = "config" /\ v[j].cfg = c
    BY <1>1, <2>1
  <2>. QED
    BY <2>2, <2>3 DEF InEffect
<1>5. \/ a = c /\ \A j \in 1 .. i - 1 : w[j].type # "config"
      \/ \E j \in 1 .. i - 1 : /\ w[j].type = "config" /\ w[j].cfg = c
                               /\ \A k \in j + 1 .. i - 1 : w[k].type # "config"
  BY Zenon DEF InEffect
<1>. QED
  BY <1>3, <1>4, <1>5

\* A configuration is in effect behind itself.
LEMMA InEffectConfig ==
  ASSUME NEW w \in Seq(Packet), NEW a, NEW c \in Configs
  PROVE  InEffect(Append(w, ConfigPacket(c)), a, c, Len(w) + 2)
<1> DEFINE v == Append(w, ConfigPacket(c))
<1>1. v[Len(w) + 1] = ConfigPacket(c)
  BY DEF ConfigPacket, Packet
<1>2. \A k \in Len(w) + 2 .. Len(w) + 1 : v[k].type # "config"
  OBVIOUS
<1>. QED
  BY <1>1, <1>2 DEF InEffect, ConfigPacket

\* Any other packet leaves it in effect behind itself.
LEMMA InEffectFrame ==
  ASSUME NEW w \in Seq(Packet), NEW a, NEW c, NEW p \in Packet, p.type # "config",
         InEffect(w, a, c, Len(w) + 1)
  PROVE  InEffect(Append(w, p), a, c, Len(w) + 2)
<1> DEFINE v == Append(w, p)
<1>1. v[Len(w) + 1] = p /\ \A j \in 1 .. Len(w) : v[j] = w[j]
  OBVIOUS
<1>. QED
  BY <1>1 DEF InEffect

\* What the assembler has cached, once it has been given packet p.
Cached(a, p) == IF p.type = "config" THEN p.cfg ELSE a

\* Delivering the first packet moves what is in effect one place forward.
LEMMA InEffectTail ==
  ASSUME NEW w \in Seq(Packet), w # <<>>, NEW a, NEW c, NEW i \in 2 .. Len(w) + 1,
         InEffect(w, a, c, i)
  PROVE  InEffect(Tail(w), Cached(a, Head(w)), c, i - 1)
<1>1. \A j \in 1 .. Len(w) - 1 : Tail(w)[j] = w[j + 1]
  OBVIOUS
<1>2. Head(w) = w[1]
  OBVIOUS
<1>3. CASE a = c /\ \A j \in 1 .. i - 1 : w[j].type # "config"
  BY <1>1, <1>2, <1>3 DEF InEffect, Cached
<1>4. CASE \E j \in 1 .. i - 1 : /\ w[j].type = "config" /\ w[j].cfg = c
                                 /\ \A k \in j + 1 .. i - 1 : w[k].type # "config"
  <2>1. PICK j \in 1 .. i - 1 : /\ w[j].type = "config" /\ w[j].cfg = c
                                /\ \A k \in j + 1 .. i - 1 : w[k].type # "config"
    BY <1>4
  <2>2. \A k \in j .. i - 2 : Tail(w)[k].type # "config"
    BY <1>1, <2>1
  <2>3. CASE j = 1
    BY <1>2, <2>1, <2>2, <2>3 DEF InEffect, Cached
  <2>4. CASE j # 1
    <3>1. j - 1 \in 1 .. i - 2 /\ Tail(w)[j - 1] = w[j]
      BY <1>1, <2>4
    <3>. QED
      BY <2>1, <2>2, <3>1 DEF InEffect
  <2>. QED
    BY <2>3, <2>4
<1>. QED
  BY <1>3, <1>4 DEF InEffect

\* The wire keeps its invariant when a packet is put on it in good order.
LEMMA WireAppend ==
  ASSUME NEW w \in Seq(Packet), NEW a, NEW p \in Packet, WireInv(w, a),
         p.type = "key" => InEffect(w, a, p.cfg, Len(w) + 1),
         p.type = "delta" => p.follows
  PROVE  WireInv(Append(w, p), a)
<1> SUFFICES ASSUME NEW i \in 1 .. Len(w) + 1
             PROVE  LET v == Append(w, p) IN
                    /\ v[i].type = "key" => InEffect(v, a, v[i].cfg, i)
                    /\ v[i].type = "delta" => v[i].follows
  BY DEF WireInv
<1>1. CASE i = Len(w) + 1
  BY <1>1, InEffectAppend
<1>2. CASE i # Len(w) + 1
  <2>1. i \in 1 .. Len(w) /\ Append(w, p)[i] = w[i]
    BY <1>2
  <2>. QED
    BY <2>1, InEffectAppend DEF WireInv
<1>. QED
  BY <1>1, <1>2

LEMMA WireTail ==
  ASSUME NEW w \in Seq(Packet), w # <<>>, NEW a, WireInv(w, a)
  PROVE  WireInv(Tail(w), Cached(a, Head(w)))
<1>0. Len(Tail(w)) = Len(w) - 1
  OBVIOUS
<1> SUFFICES ASSUME NEW i \in 1 .. Len(w) - 1
             PROVE  LET v == Tail(w) IN
                    /\ v[i].type = "key" => InEffect(v, Cached(a, Head(w)), v[i].cfg, i)
                    /\ v[i].type = "delta" => v[i].follows
  BY <1>0 DEF WireInv
<1>1. Tail(w)[i] = w[i + 1] /\ i + 1 \in 2 .. Len(w) /\ (i + 1) - 1 = i
  OBVIOUS
<1>. QED
  BY <1>1, InEffectTail DEF WireInv
\* One packet, or two, are put on the wire, and their bytes on the backlog.
LEMMA GrowsLemma ==
  ASSUME Backed, wire \in Seq(Packet), wire' \in Seq(Packet), NEW n \in {1, 2},
         Len(wire') = Len(wire) + n, Grows(n)
  PROVE  Backed' /\ buffered' <= buffered + n * MaxPacket
<1>1. CASE n = 1
  BY <1>1, OtherConstants DEF Backed, Grows
<1>2. CASE n = 2
  BY <1>2, OtherConstants DEF Backed, Grows
<1>. QED
  BY <1>1, <1>2

-----------------------------------------------------------------------------
(* The steps.                                                              *)

LEMMA InitVInv == Init => VInv
<1> SUFFICES ASSUME Init PROVE VInv
  OBVIOUS
<1>1. NewEngine(FALSE) \in Engine
  BY DEF NewEngine, Engine
<1>2. Good(NewEngine(FALSE)) /\ NewEngine(FALSE).last = None
  BY <1>1 DEF Good, Ready, Sound, NewEngine
<1>3. eng = NewEngine(FALSE) /\ asm = None /\ wire = <<>> /\ Len(wire) = 0
  BY DEF Init
<1>4. TypeOK
  <2>1. enc \in [cfg : Configs, owes : {"config", "key", "any"}]
    BY DEF Init
  <2>2. wire \in Seq(Packet) /\ faults \in 0 .. MaxFaults
    BY OtherConstants DEF Init
  <2>3. Backed
    BY <1>3 DEF Init, Backed
  <2>. QED
    BY <1>1, <1>3, <2>1, <2>2, <2>3 DEF Init, TypeOK, Backed
<1>5. WireInv(wire, asm) /\ BacklogBounded
  BY <1>3, WaterMarks, OtherConstants DEF Init, WireInv, BacklogBounded
<1>6. SinkInv
  BY DEF Init, SinkInv
<1>. QED
  BY <1>2, <1>3, <1>4, <1>5, <1>6 DEF VInv

\* A step of the engine alone.
LEMMA EngineStep ==
  ASSUME VInv, UNCHANGED Transport, faults' \in 0 .. MaxFaults,
         Good(eng'), eng'.last = eng.last
  PROVE  VInv'
<1>1. TypeOK'
  BY DEF VInv, TypeOK, Transport, Good, Sound
<1>. QED
  BY <1>1 DEF VInv, Transport, SinkInv, BacklogBounded

LEMMA OutputStep == VInv /\ Output => VInv'
<1> SUFFICES ASSUME VInv, Output PROVE VInv'
  OBVIOUS
<1> DEFINE f == [eng EXCEPT !.queued = eng.queued - 1]
<1>1. Sound(f) /\ Ready(f) = Ready(eng) /\ f.ref = eng.ref /\ f.last = eng.last
  BY DEF Output, VInv, Good, Ready, Sound, Engine
<1>2. eng' = Draw(f)
  BY DEF Output
<1> HIDE DEF f
<1> DEFINE d == Discard(f)
<1>3. /\ d \in Engine /\ d.open = 0 /\ d.pending = "none" /\ d.last = f.last
      /\ d.dec = f.dec /\ d.ref = f.ref /\ Ready(d) = Ready(f)
  BY <1>1, DiscardLemma DEF Ready
<1>4. eng' = [d EXCEPT !.pending = "current", !.open = 1]
  BY <1>2, <1>3 DEF Draw
<1> HIDE DEF d
<1>5. eng' \in Engine
  BY <1>3, <1>4, Zenon DEF Engine
<1>6. /\ eng'.open = 1 /\ eng'.pending = "current" /\ eng'.last = d.last
      /\ eng'.dec = d.dec /\ eng'.ref = d.ref /\ Ready(eng') = Ready(d)
  BY <1>3, <1>4, <1>5 DEF Engine, Ready
<1>7. Good(eng') /\ eng'.last = eng.last
  BY <1>1, <1>3, <1>5, <1>6 DEF VInv, Good, Sound
<1>. QED
  BY <1>7, EngineStep DEF Output, VInv, TypeOK

LEMMA StaleOutputStep == VInv /\ StaleOutput => VInv'
<1> SUFFICES ASSUME VInv, StaleOutput PROVE VInv'
  OBVIOUS
<1>1. Good(eng') /\ eng'.last = eng.last
  BY DEF StaleOutput, VInv, Good, Ready, Sound, Engine
<1>. QED
  BY <1>1, EngineStep DEF StaleOutput, VInv, TypeOK

LEMMA PresentStep == VInv /\ Present => VInv'
<1> SUFFICES ASSUME VInv, Present PROVE VInv'
  OBVIOUS
<1>1. Good(eng') /\ eng'.last = eng.last
  BY DiscardLemma DEF Present, VInv, Good, Ready, Sound
<1>. QED
  BY <1>1, EngineStep DEF Present, VInv, TypeOK

LEMMA DecoderErrorStep == VInv /\ DecoderError => VInv'
<1> SUFFICES ASSUME VInv, DecoderError PROVE VInv'
  OBVIOUS
<1> DEFINE f == [eng EXCEPT !.dec = "closed", !.queued = 0, !.ref = "none"]
<1>1. eng \in Engine
  BY DEF VInv, Good, Sound
<1>2. f \in Engine
  BY <1>1, Zenon DEF Engine
<1>3. Sound(f) /\ f.last = eng.last
  BY <1>1, <1>2 DEF VInv, Good, Sound, Engine
<1>4. PICK ok \in BOOLEAN : eng' = Recover(f, ok)
  BY DEF DecoderError
<1> HIDE DEF f
<1>5. Good(eng') /\ eng'.last = eng.last
  BY <1>3, <1>4, RecoverLemma
<1>. QED
  BY <1>5, EngineStep, OtherConstants DEF DecoderError, Fault, VInv, TypeOK

LEMMA RestartDecoderStep == VInv /\ RestartDecoder => VInv'
<1> SUFFICES ASSUME VInv, RestartDecoder PROVE VInv'
  OBVIOUS
<1>1. Good(eng') /\ eng'.last = eng.last
  BY RecoverLemma DEF RestartDecoder, VInv, Good
<1>. QED
  BY <1>1, EngineStep, OtherConstants DEF RestartDecoder, Fault, VInv, TypeOK

LEMMA ReconnectStep == VInv /\ Reconnect => VInv'
<1> SUFFICES ASSUME VInv, Reconnect PROVE VInv'
  OBVIOUS
<1>1. PICK late \in BOOLEAN : eng' = NewEngine(late)
  BY DEF Reconnect, VInv, TypeOK, Engine
<1>2. NewEngine(late) \in Engine
  BY DEF NewEngine, Engine
<1>3. Good(eng') /\ eng'.last = None
  BY <1>1, <1>2 DEF Good, Ready, Sound, NewEngine
<1>4. enc' \in [cfg : Configs, owes : {"config", "key", "any"}] /\ enc'.owes = "config"
  BY DEF Reconnect, VInv, TypeOK
<1>5. TypeOK'
  <2>1. wire' \in Seq(Packet) /\ faults' \in 0 .. MaxFaults
    BY OtherConstants DEF Reconnect, Fault, VInv, TypeOK
  <2>2. Backed'
    BY DEF Reconnect, Backed
  <2>. QED
    BY <1>3, <1>4, <2>1, <2>2 DEF Reconnect, TypeOK, Backed, Good, Sound
<1>6. WireInv(wire', asm') /\ BacklogBounded'
  BY WaterMarks, OtherConstants DEF Reconnect, WireInv, BacklogBounded
<1>7. SinkInv'
  BY <1>4 DEF Reconnect, SinkInv
<1>. QED
  BY <1>3, <1>5, <1>6, <1>7 DEF VInv

\* The encoder begins anew: an open gate lets the configuration through, a closed
\* one keeps it in the sink.
LEMMA EmitConfigStep == VInv /\ EmitConfig => VInv'
<1> SUFFICES ASSUME VInv, EmitConfig PROVE VInv'
  OBVIOUS
<1>1. PICK c \in Configs : enc' = [cfg |-> c, owes |-> "key"] /\ SinkConfig(c)
  BY DEF EmitConfig
<1>2. UNCHANGED <<asm, eng, faults, skipped>> /\ latest' = c /\ congested' = Congested
  BY <1>1 DEF EmitConfig, Client, SinkConfig
<1>3. ConfigPacket(c) \in Packet /\ ConfigPacket(c).type = "config"
  BY DEF ConfigPacket, Packet
<1>4. wire \in Seq(Packet) /\ WireInv(wire, asm) /\ Len(wire) \in Nat
  BY DEF VInv, TypeOK
<1>5. CASE Congested
  <2>1. wire' = wire /\ congested' = TRUE /\ buffered' = buffered
    BY <1>1, <1>2, <1>5 DEF SinkConfig
  <2>2. TypeOK'
    BY <1>1, <1>2, <2>1 DEF VInv, TypeOK
  <2>. QED
    BY <1>1, <1>2, <2>1, <2>2 DEF VInv, SinkInv, BacklogBounded
<1>6. CASE ~Congested
  <2>1. wire' = Append(wire, ConfigPacket(c)) /\ congested' = FALSE
    BY <1>1, <1>2, <1>6 DEF SinkConfig
  <2>2. wire' \in Seq(Packet) /\ Len(wire') = Len(wire) + 1
    BY <1>3, <1>4, <2>1
  <2>8. Backed' /\ buffered' <= buffered + 1 * MaxPacket
    <3>1. Grows(1)
      BY <1>1, <1>6 DEF SinkConfig
    <3>. QED
      BY <1>4, <2>2, <3>1, GrowsLemma DEF VInv, TypeOK, Backed
  <2>3. TypeOK'
    BY <1>1, <1>2, <2>1, <2>2, <2>8 DEF VInv, TypeOK, Backed
  <2>4. WireInv(wire', asm')
    BY <1>2, <1>3, <1>4, <2>1, WireAppend
  <2>5. InEffect(wire', asm', c, Len(wire') + 1)
    <3>1. Len(wire') + 1 = Len(wire) + 2
      BY <1>4, <2>2
    <3>. QED
      BY <1>4, <2>1, <3>1, InEffectConfig
  <2>6. SinkInv'
    BY <1>1, <1>2, <1>6, <2>1, <2>5 DEF VInv, SinkInv, Congested
  <2>7. BacklogBounded'
    BY <1>6, <2>8, WaterMarks, OtherConstants DEF VInv, TypeOK, BacklogBounded, Backed, Congested
  <2>. QED
    BY <1>2, <2>3, <2>4, <2>6, <2>7 DEF VInv
<1>. QED
  BY <1>5, <1>6

\* A frame passes an open gate, opens it behind its configuration, or is skipped.
LEMMA SinkFrameLemma ==
  ASSUME VInv, NEW key \in BOOLEAN, SinkFrame(key), enc.owes # "config",
         enc' = [enc EXCEPT !.owes = "any"], UNCHANGED <<asm, eng, faults>>
  PROVE  VInv'
<1> DEFINE p == [type |-> IF key THEN "key" ELSE "delta", cfg |-> enc.cfg, follows |-> ~skipped]
<1>1. /\ enc' \in [cfg : Configs, owes : {"config", "key", "any"}]
      /\ enc'.owes = "any" /\ enc'.cfg = enc.cfg /\ enc.cfg \in Configs
  BY DEF VInv, TypeOK
<1>2. /\ p \in Packet /\ p.cfg = enc.cfg /\ p.follows = ~skipped
      /\ p.type = (IF key THEN "key" ELSE "delta")
  BY <1>1 DEF VInv, TypeOK, Packet
<1>3. /\ congested' = (Congested /\ ~Recovers(key)) /\ skipped' = congested' /\ latest' = latest
      /\ wire' = IF ~Congested THEN Append(wire, p)
                 ELSE IF Recovers(key) THEN wire \o <<ConfigPacket(latest), p>> ELSE wire
      /\ IF ~Congested THEN Grows(1) ELSE IF Recovers(key) THEN Grows(2) ELSE buffered' = buffered
  BY DEF SinkFrame
<1> HIDE DEF p
<1>4. /\ wire \in Seq(Packet) /\ WireInv(wire, asm) /\ Len(wire) \in Nat
      /\ latest = enc.cfg /\ skipped \in BOOLEAN /\ Backed
  BY DEF VInv, TypeOK, SinkInv, Backed
<1>5. CASE ~Congested
  <2>1. wire' = Append(wire, p) /\ congested' = FALSE /\ skipped' = FALSE
    BY <1>3, <1>5
  <2>2. wire' \in Seq(Packet) /\ Len(wire') = Len(wire) + 1
    BY <1>2, <1>4, <2>1
  <2>8. Backed' /\ buffered' <= buffered + 1 * MaxPacket
    BY <1>3, <1>4, <1>5, <2>2, GrowsLemma
  <2>3. InEffect(wire, asm, enc.cfg, Len(wire) + 1) /\ p.follows
    BY <1>2, <1>5 DEF VInv, SinkInv, Congested
  <2>4. WireInv(wire', asm)
    BY <1>2, <1>4, <2>1, <2>3, WireAppend
  <2>5. InEffect(wire', asm, enc.cfg, Len(wire') + 1)
    <3>1. Len(wire') + 1 = Len(wire) + 2
      BY <1>4, <2>2
    <3>. QED
      BY <1>2, <1>4, <2>1, <2>3, <3>1, InEffectFrame
  <2>6. BacklogBounded'
    BY <1>4, <1>5, <2>8, WaterMarks, OtherConstants DEF BacklogBounded, Backed, Congested
  <2>7. TypeOK'
    BY <1>1, <1>3, <1>4, <2>1, <2>2, <2>8 DEF VInv, TypeOK, Backed
  <2>. QED
    BY <1>1, <1>3, <1>4, <2>1, <2>2, <2>4, <2>5, <2>6, <2>7 DEF VInv, SinkInv
<1>6. CASE Congested /\ Recovers(key)
  <2> DEFINE v == Append(wire, ConfigPacket(enc.cfg))
  <2>1. congested' = FALSE /\ skipped' = FALSE /\ key /\ buffered <= Low
    BY <1>3, <1>6 DEF Recovers
  <2>2. ConfigPacket(enc.cfg) \in Packet /\ ConfigPacket(enc.cfg).type = "config"
    BY <1>1 DEF ConfigPacket, Packet
  <2>3. v \in Seq(Packet) /\ Len(v) = Len(wire) + 1
    BY <1>4, <2>2
  <2>4. wire' = Append(v, p)
    BY <1>2, <1>3, <1>4, <1>6, <2>2
  <2>5. WireInv(v, asm)
    BY <1>4, <2>2, WireAppend
  <2>6. InEffect(v, asm, enc.cfg, Len(v) + 1)
    <3>1. Len(v) + 1 = Len(wire) + 2
      BY <1>4, <2>3
    <3>. QED
      BY <1>1, <1>4, <3>1, InEffectConfig
  <2> HIDE DEF v
  <2>7. wire' \in Seq(Packet) /\ Len(wire') = Len(v) + 1 /\ Len(v) \in Nat
    BY <1>2, <2>3, <2>4
  <2>12. Backed' /\ buffered' <= buffered + 2 * MaxPacket
    <3>1. Len(wire') = Len(wire) + 2
      BY <1>4, <2>3, <2>7
    <3>. QED
      BY <1>3, <1>4, <1>6, <2>7, <3>1, GrowsLemma
  <2>8. WireInv(wire', asm)
    BY <1>2, <2>1, <2>3, <2>4, <2>5, <2>6, WireAppend
  <2>9. InEffect(wire', asm, enc.cfg, Len(wire') + 1)
    <3>1. Len(wire') + 1 = Len(v) + 2
      BY <2>7
    <3>. QED
      BY <1>2, <2>1, <2>3, <2>4, <2>6, <3>1, InEffectFrame
  <2>10. BacklogBounded'
    BY <1>4, <2>1, <2>12, WaterMarks, OtherConstants DEF BacklogBounded, Backed
  <2>11. TypeOK'
    BY <1>1, <1>3, <1>4, <2>1, <2>7, <2>12 DEF VInv, TypeOK, Backed
  <2>. QED
    BY <1>1, <1>3, <1>4, <2>1, <2>7, <2>8, <2>9, <2>10, <2>11 DEF VInv, SinkInv
<1>7. CASE Congested /\ ~Recovers(key)
  <2>1. wire' = wire /\ buffered' = buffered /\ congested' = TRUE /\ skipped' = TRUE
    BY <1>3, <1>7
  <2>. QED
    BY <1>1, <1>3, <2>1 DEF VInv, TypeOK, SinkInv, BacklogBounded
<1>. QED
  BY <1>5, <1>6, <1>7

LEMMA EmitKeyStep == VInv /\ EmitKey => VInv'
BY SinkFrameLemma DEF EmitKey, Client

LEMMA EmitDeltaStep == VInv /\ EmitDelta => VInv'
<1> SUFFICES ASSUME VInv, EmitDelta PROVE VInv'
  OBVIOUS
<1>1. enc' = [enc EXCEPT !.owes = "any"]
  BY DEF EmitDelta, VInv, TypeOK
<1>. QED
  BY <1>1, SinkFrameLemma DEF EmitDelta, Client

\* The client takes the first packet off the wire.
LEMMA DeliverStep == VInv /\ Deliver => VInv'
<1> SUFFICES ASSUME VInv, Deliver PROVE VInv'
  OBVIOUS
<1> DEFINE p == Head(wire)
<1>1. /\ wire \in Seq(Packet) /\ wire # <<>> /\ wire' = Tail(wire) /\ Len(wire) \in Nat \ {0}
      /\ asm \in Configs \cup {None} /\ WireInv(wire, asm)
      /\ UNCHANGED <<enc, congested, latest, skipped>>
  BY DEF Deliver, VInv, TypeOK
<1>2. p \in Packet /\ p = wire[1] /\ wire' \in Seq(Packet) /\ Len(wire') = Len(wire) - 1
  BY <1>1
<1>3. asm' = Cached(asm, p)
  BY DEF Deliver, Cached
<1>4. asm' \in Configs \cup {None} /\ (asm # None => asm' # None)
  BY <1>1, <1>2, <1>3, OtherConstants DEF Cached, Packet
<1>5. WireInv(wire', asm')
  BY <1>1, <1>3, WireTail
<1>6. InEffect(wire, asm, enc.cfg, Len(wire) + 1) => InEffect(wire', asm', enc'.cfg, Len(wire') + 1)
  <2>1. Len(wire) + 1 \in 2 .. Len(wire) + 1 /\ Len(wire') + 1 = (Len(wire) + 1) - 1
    BY <1>1, <1>2
  <2>. QED
    BY <1>1, <1>3, <2>1, InEffectTail
<1>7. Backed' /\ buffered' <= buffered
  <2>1. buffered \in Nat /\ Len(wire) <= buffered
    BY DEF VInv, TypeOK
  <2>2. CASE Len(wire) = 1
    BY <1>1, <1>2, <2>1, <2>2 DEF Deliver, Backed
  <2>3. CASE Len(wire) # 1
    <3>1. buffered' \in Len(wire) - 1 .. buffered - 1 /\ Len(wire') # 0
      BY <1>1, <1>2, <2>3 DEF Deliver
    <3>. QED
      BY <1>1, <1>2, <2>1, <3>1 DEF Backed
  <2>. QED
    BY <2>2, <2>3
<1>10. SinkInv' /\ BacklogBounded'
  BY <1>1, <1>2, <1>6, <1>7, WaterMarks, OtherConstants DEF VInv, TypeOK, SinkInv, Backed, BacklogBounded
<1>8. Good(eng') /\ (eng'.last # None => asm' # None) /\ faults' \in 0 .. MaxFaults
  <2>1. CASE p.type = "config"
    BY <1>4, <2>1 DEF Deliver, VInv, TypeOK
  <2>2. CASE p.type # "config"
    <3>1. PICK ok \in BOOLEAN :
            /\ ~ok => faults < MaxFaults
            /\ faults' = IF ok THEN faults ELSE faults + 1
            /\ eng' = Accept(IF p.type = "key" THEN Reconfigure(eng, asm, ok) ELSE eng, p, ok)
      BY <2>2 DEF Deliver
    <3>2. faults' \in 0 .. MaxFaults
      BY <3>1, OtherConstants DEF VInv, TypeOK
    <3>3. asm' = asm
      BY <1>3, <2>2 DEF Cached
    <3> HIDE DEF p
    <3>4. CASE p.type = "key"
      <4> DEFINE e == Reconfigure(eng, asm, ok)
      <4>1. InEffect(wire, asm, p.cfg, 1)
        BY <1>1, <1>2, <3>4 DEF WireInv
      <4>2. asm = p.cfg
        BY <4>1 DEF InEffect
      <4>3. p.cfg \in Configs
        BY <1>2, <3>4 DEF Packet
      <4>4. Good(e) /\ e.last = p.cfg
        BY <1>1, <4>2, <4>3, ReconfigureLemma, OtherConstants DEF VInv
      <4>5. eng' = Accept(e, p, ok)
        BY <3>1, <3>4
      <4> HIDE DEF e
      <4>. QED
        BY <1>2, <3>2, <3>3, <3>4, <4>2, <4>3, <4>4, <4>5, AcceptLemma, OtherConstants
    <3>5. CASE p.type = "delta"
      <4>1. p.follows
        BY <1>1, <1>2, <3>5 DEF WireInv
      <4>2. eng' = Accept(eng, p, ok)
        BY <3>1, <3>5
      <4>. QED
        BY <1>2, <3>2, <3>3, <3>5, <4>1, <4>2, AcceptLemma DEF VInv
    <3>6. p.type \in {"key", "delta"}
      BY <1>2, <2>2 DEF Packet, p
    <3>. QED
      BY <3>4, <3>5, <3>6
  <2>. QED
    BY <2>1, <2>2
<1>9. TypeOK'
  BY <1>1, <1>2, <1>4, <1>7, <1>8 DEF VInv, TypeOK, Backed, Good, Sound
<1>. QED
  BY <1>5, <1>8, <1>9, <1>10 DEF VInv

\* Every step keeps the invariant.
LEMMA NextVInv == VInv /\ [Next]_vars => VInv'
<1> SUFFICES ASSUME VInv, [Next]_vars PROVE VInv'
  OBVIOUS
<1>1. CASE EmitConfig \/ EmitKey \/ EmitDelta
  BY <1>1, EmitConfigStep, EmitKeyStep, EmitDeltaStep
<1>2. CASE Deliver
  BY <1>2, DeliverStep
<1>3. CASE Output \/ StaleOutput \/ Present
  BY <1>3, OutputStep, StaleOutputStep, PresentStep
<1>4. CASE DecoderError \/ RestartDecoder \/ Reconnect
  BY <1>4, DecoderErrorStep, RestartDecoderStep, ReconnectStep
<1>5. CASE UNCHANGED vars
  BY <1>5 DEF vars, VInv, TypeOK, SinkInv, BacklogBounded
<1>. QED
  BY <1>1, <1>2, <1>3, <1>4, <1>5 DEF Next

-----------------------------------------------------------------------------
(* Theorems.                                                               *)

\* The invariant holds in every behaviour of the stream.
THEOREM VideoInductive == Spec => []VInv
BY InitVInv, NextVInv, PTL DEF Spec

\* Encoder, gate, wire, assembler and engine keep their shape.
THEOREM VideoTypeCorrect == Spec => []TypeOK
<1>1. VInv => TypeOK
  BY DEF VInv
<1>. QED
  BY <1>1, VideoInductive, PTL

\* Whatever gate and engine drop, in any order, no delta is decoded without its
\* reference and no key frame with another stream's configuration
\* (videoBackpressure.ts:19, WebCodecsH264Engine.ts:189).
THEOREM NothingBrokenIsDecoded == Spec => []NeverDecodesBroken
<1>1. VInv => NeverDecodesBroken
  BY DEF VInv, Good, Sound, NeverDecodesBroken
<1>. QED
  BY <1>1, VideoInductive, PTL

\* No frame of a decoder leaks or is drawn after its decoder was replaced
\* (Canvas2DVideoFrameRenderer.ts:16).
THEOREM EveryFrameIsAccountedFor == Spec => []FramesAccountedFor
<1>1. VInv => FramesAccountedFor
  BY DEF VInv, Good, Sound, FramesAccountedFor
<1>. QED
  BY <1>1, VideoInductive, PTL

\* For any water marks and sizes of packets: the bytes that wait on the socket of a slow
\* client stay within one packet of the high mark or one recovery of the low one; the
\* gate sees the backlog before it sends, so High itself may be passed (index.ts:108).
THEOREM BacklogIsBounded == Spec => []BacklogBounded
<1>1. VInv => BacklogBounded
  BY DEF VInv
<1>. QED
  BY <1>1, VideoInductive, PTL
=============================================================================
