---------------------------- MODULE VideoPipeline ----------------------------
(***************************************************************************)
(* One video stream from the scrcpy reader of stream-node to the canvas of *)
(* a tile: the backpressure gate and packet sink of the sidecar            *)
(* (videoBackpressure.ts, index.ts), the WebSocket, and the access-unit    *)
(* assembler, WebCodecs engine and 2D renderer of the client.              *)
(*                                                                         *)
(* A frame is named by what decides whether it can be decoded: is it a key *)
(* frame, which SPS/PPS it was encoded with, and whether the frame before  *)
(* it was sent too.                                                        *)
(*                                                                         *)
(* ws.bufferedAmount is counted in bytes, as the gate counts it.  The size *)
(* of a packet is not kept: when one is delivered, what leaves the backlog *)
(* is any number of bytes that leaves some for each packet behind it.      *)
(***************************************************************************)
EXTENDS Naturals, Sequences

CONSTANTS
  High, Low,   \* water marks of the gate, in bytes
  MaxPacket,   \* bytes of the largest packet, a key frame
  QueueLimit,  \* MAX_DECODE_QUEUE_SIZE
  Configs,     \* SPS/PPS pairs the encoder uses, one after the other
  None,        \* no SPS/PPS yet
  MaxFaults    \* bound: decoder errors and restarts, refused codecs, reconnects

\* The constructor of the gate refuses any other water marks.
ASSUME WaterMarks == Low \in Nat /\ High \in Nat /\ Low < High
ASSUME OtherConstants ==
  MaxPacket \in Nat \ {0} /\
  QueueLimit \in Nat /\ MaxFaults \in Nat /\ None \notin Configs /\ Configs # {}

VARIABLES
  enc,        \* encoder: its SPS/PPS and the packet it owes ("config", "key", "any")
  congested,  \* VideoBackpressureGate.congested
  latest,     \* latestConfiguration of the sink
  wire,       \* packets between the sink and the client, in order
  buffered,   \* ws.bufferedAmount: bytes of the packets on the wire
  skipped,    \* (history) a frame was dropped since the last frame sent
  asm,        \* cachedSps and cachedPps of the assembler
  eng,        \* the engine, its decoder and its renderer
  faults      \* MaxFaults counter

vars == <<enc, congested, latest, wire, buffered, skipped, asm, eng, faults>>

Packet ==
  [type : {"config"}, cfg : Configs] \cup
  [type : {"key", "delta"}, cfg : Configs, follows : BOOLEAN]

\* `last`: lastSps/lastPps.  `drop`: dropUntilKeyframe.  `dec`: state of the
\* VideoDecoder; `fresh`: it accepts nothing but a key chunk; `queued`: its
\* decodeQueueSize.  `stale`: an output task of an abandoned decoder may still
\* run.  `pending`: "current" or "old" is the decoder whose frame waits for the
\* animation frame.  History: `open` counts the VideoFrames nobody has closed;
\* `ref` is what the current decoder can build the next delta on.
Engine ==
  [last : Configs \cup {None}, drop : BOOLEAN, keyframeReceived : BOOLEAN,
   dec : {"unconfigured", "configured", "closed"}, fresh : BOOLEAN,
   queued : Nat, stale : BOOLEAN, pending : {"none", "current", "old"},
   open : Nat, ref : {"none", "good", "bad"}]

TypeOK ==
  /\ enc \in [cfg : Configs, owes : {"config", "key", "any"}]
  /\ congested \in BOOLEAN /\ skipped \in BOOLEAN
  /\ latest \in Configs \cup {None} /\ asm \in Configs \cup {None}
  /\ wire \in Seq(Packet)
  /\ buffered \in Nat /\ Len(wire) <= buffered /\ (wire = <<>> => buffered = 0)
  /\ eng \in Engine
  /\ faults \in 0 .. MaxFaults

\* start() of an engine; `late` is an output the previous decoder still owes.
NewEngine(late) ==
  [last |-> None, drop |-> FALSE, keyframeReceived |-> FALSE,
   dec |-> "unconfigured", fresh |-> TRUE, queued |-> 0, stale |-> late,
   pending |-> "none", open |-> 0, ref |-> "none"]

Init ==
  /\ enc \in [cfg : Configs, owes : {"config"}]
  /\ congested = FALSE /\ latest = None /\ wire = <<>> /\ buffered = 0 /\ skipped = FALSE
  /\ asm = None /\ eng = NewEngine(FALSE) /\ faults = 0

-----------------------------------------------------------------------------
(* The gate and the sink.                                                  *)

\* Mutant: the high-water mark is not looked at once the gate is open.
Congested_Never == congested

\* decide() looks at the backlog before it looks at the packet.
Congested == congested \/ buffered >= High

\* Mutant: any frame opens the gate, as long as the backlog is drained.
Recovers_AnyFrame(key) == buffered <= Low /\ latest # None

\* The gate opens again for a key frame that finds the backlog drained and a
\* configuration to resend.
Recovers(key) == buffered <= Low /\ key /\ latest # None

ConfigPacket(c) == [type |-> "config", cfg |-> c]

\* n packets are sent, of any size, whatever the backlog is by then.
Grows(n) == buffered' \in buffered + n .. buffered + n * MaxPacket

\* Mutant: a configuration that cannot be sent is forgotten.
SinkConfig_Forget(c) ==
  /\ congested' = Congested
  /\ latest' = IF Congested THEN latest ELSE c
  /\ wire' = IF Congested THEN wire ELSE Append(wire, ConfigPacket(c))
  /\ IF Congested THEN UNCHANGED buffered ELSE Grows(1)
  /\ UNCHANGED skipped

SinkConfig(c) ==
  /\ congested' = Congested
  /\ latest' = c
  /\ wire' = IF Congested THEN wire ELSE Append(wire, ConfigPacket(c))
  /\ IF Congested THEN UNCHANGED buffered ELSE Grows(1)
  /\ UNCHANGED skipped

SinkFrame(key) ==
  LET p == [type |-> IF key THEN "key" ELSE "delta", cfg |-> enc.cfg, follows |-> ~skipped]
  IN /\ congested' = (Congested /\ ~Recovers(key))
     /\ skipped' = congested'
     /\ wire' = IF ~Congested THEN Append(wire, p)
                ELSE IF Recovers(key) THEN wire \o <<ConfigPacket(latest), p>>
                ELSE wire
     /\ IF ~Congested THEN Grows(1) ELSE IF Recovers(key) THEN Grows(2) ELSE UNCHANGED buffered
     /\ UNCHANGED latest

Client == <<asm, eng>>

\* A new encoder session (start of the stream, rotation): new SPS/PPS, and the
\* next frame is a key frame.
EmitConfig ==
  /\ enc.owes \in {"config", "any"}
  /\ \E c \in Configs :
       /\ enc.owes = "any" => c # enc.cfg
       /\ enc' = [cfg |-> c, owes |-> "key"]
       /\ SinkConfig(c)
  /\ UNCHANGED <<Client, faults>>

EmitKey ==
  /\ enc.owes \in {"key", "any"}
  /\ enc' = [enc EXCEPT !.owes = "any"]
  /\ SinkFrame(TRUE)
  /\ UNCHANGED <<Client, faults>>

EmitDelta ==
  /\ enc.owes = "any"
  /\ SinkFrame(FALSE)
  /\ UNCHANGED <<enc, Client, faults>>

-----------------------------------------------------------------------------
(* The decoder.                                                            *)

\* Mutant: a pending frame is closed whether or not there is one.
Discard_Always(e) == [e EXCEPT !.pending = "none", !.open = @ - 1]

\* discardPending: the pending frame is closed and never drawn.
Discard(e) ==
  [e EXCEPT !.pending = "none", !.open = IF e.pending = "none" THEN @ ELSE @ - 1]

\* Mutant: the frame that waits to be drawn survives its decoder.
Recreate_KeepPending(e, ok) ==
  [e EXCEPT !.pending = IF @ = "none" THEN @ ELSE "old",
            !.dec = IF e.last = None \/ ~ok THEN "unconfigured" ELSE "configured",
            !.fresh = TRUE, !.queued = 0, !.stale = @ \/ e.queued > 0, !.ref = "none"]

\* recreateDecoder: a new decoder, configured with the SPS/PPS seen last; `ok` is
\* whether configure() accepts the codec.
Recreate(e, ok) ==
  [Discard(e) EXCEPT !.dec = IF e.last = None \/ ~ok THEN "unconfigured" ELSE "configured",
            !.fresh = TRUE, !.queued = 0, !.stale = @ \/ e.queued > 0, !.ref = "none"]

\* recoverDecoder does nothing while a recovery is already waiting.
Recover(e, ok) ==
  IF e.drop THEN e ELSE Recreate([e EXCEPT !.drop = TRUE, !.keyframeReceived = FALSE], ok)

\* reconfigureDecoder, called for SPS/PPS that differ from the last ones.
Reconfigure(e, c, ok) ==
  IF c = None \/ c = e.last THEN e
  ELSE IF ~ok THEN [e EXCEPT !.last = c, !.drop = TRUE]
  ELSE IF e.dec = "closed" THEN [e EXCEPT !.last = c]
  ELSE [e EXCEPT !.last = c, !.dec = "configured", !.fresh = TRUE]

\* decode() of one chunk: a delta is decodable after the frame it follows, a key
\* frame with the SPS/PPS it was encoded with.
Decode(e, p, ok) ==
  IF e.dec # "configured" \/ (e.fresh /\ p.type = "delta")
  THEN Recover(e, ok)
  ELSE [e EXCEPT !.queued = @ + 1, !.fresh = FALSE,
                 !.ref = IF p.type = "key" /\ e.last = p.cfg THEN "good"
                         ELSE IF p.type = "delta" /\ p.follows /\ @ = "good" THEN "good"
                         ELSE "bad"]

\* The rest of handleAssembledFrame, once the parameter sets are handled.
Accept(e, p, ok) ==
  LET key == p.type = "key"
      f == IF e.queued > QueueLimit THEN Recover(e, ok) ELSE e
  IN IF e.last = None THEN [e EXCEPT !.ref = "none"]
     ELSE IF ~key /\ (f.drop \/ ~f.keyframeReceived) THEN [f EXCEPT !.ref = "none"]
     ELSE Decode(IF key THEN [f EXCEPT !.drop = FALSE, !.keyframeReceived = TRUE] ELSE f, p, ok)

\* The next message of the WebSocket: the assembler caches a configuration, and
\* puts the cached one in front of a key frame.
Deliver ==
  /\ wire # <<>>
  /\ wire' = Tail(wire)
  /\ buffered' \in IF Len(wire) = 1 THEN {0} ELSE Len(wire) - 1 .. buffered - 1
  /\ LET p == Head(wire) IN
     IF p.type = "config"
     THEN asm' = p.cfg /\ UNCHANGED <<eng, faults>>
     ELSE /\ UNCHANGED asm
          /\ \E ok \in BOOLEAN :
               /\ ~ok => faults < MaxFaults
               /\ faults' = IF ok THEN faults ELSE faults + 1
               /\ eng' = Accept(IF p.type = "key" THEN Reconfigure(eng, asm, ok) ELSE eng, p, ok)
  /\ UNCHANGED <<enc, congested, latest, skipped>>

Transport == <<enc, congested, latest, wire, buffered, skipped, asm>>

\* draw(): the latest frame wins.
Draw(e) == [Discard(e) EXCEPT !.pending = "current", !.open = @ + 1]

\* Output callback of the current decoder.
Output ==
  /\ eng.queued > 0
  /\ eng' = Draw([eng EXCEPT !.queued = @ - 1])
  /\ UNCHANGED <<Transport, faults>>

\* Output callback of an abandoned decoder: its frame is closed at once.
StaleOutput ==
  /\ eng.stale
  /\ eng' = [eng EXCEPT !.stale = FALSE]
  /\ UNCHANGED <<Transport, faults>>

\* requestAnimationFrame: the frame is drawn, or drawImage throws; it is closed.
Present ==
  /\ eng.pending # "none"
  /\ eng' = Discard(eng)
  /\ UNCHANGED <<Transport, faults>>

Fault == faults < MaxFaults /\ faults' = faults + 1

\* Error callback of the current decoder, which the browser has closed.
DecoderError ==
  /\ Fault
  /\ eng.dec = "configured"
  /\ \E ok \in BOOLEAN :
       eng' = Recover([eng EXCEPT !.dec = "closed", !.queued = 0, !.ref = "none"], ok)
  /\ UNCHANGED Transport

\* restartDecoderOnly, called by the watchdog of the tile.
RestartDecoder ==
  /\ Fault
  /\ \E ok \in BOOLEAN : eng' = Recover(eng, ok)
  /\ UNCHANGED Transport

\* The tile reconnects: engine, socket, sink and scrcpy session are all new.
Reconnect ==
  /\ Fault
  /\ enc' = [enc EXCEPT !.owes = "config"]
  /\ congested' = FALSE /\ latest' = None /\ wire' = <<>> /\ buffered' = 0 /\ skipped' = FALSE
  /\ asm' = None
  /\ eng' = NewEngine(eng.stale \/ eng.queued > 0)

Next ==
  \/ EmitConfig \/ EmitKey \/ EmitDelta
  \/ Deliver \/ Output \/ StaleOutput \/ Present
  \/ DecoderError \/ RestartDecoder \/ Reconnect

Spec == Init /\ [][Next]_vars

\* The encoder starts and keeps its key-frame interval, the network drains, the
\* browser decodes and draws.
Fairness ==
  /\ WF_vars(enc.owes = "config" /\ EmitConfig)
  /\ WF_vars(EmitKey)
  /\ WF_vars(Deliver)
  /\ WF_vars(Output)
  /\ WF_vars(Present)

FairSpec == Spec /\ Fairness

-----------------------------------------------------------------------------
(* Properties.                                                             *)

\* Whatever the gate, a slow decoder, a decoder error or a rotation drop, in any
\* order, the decoder is never handed a delta whose predecessor it has not
\* decoded, nor a key frame behind another stream's SPS/PPS.  This is the
\* corruption TANGO_STREAM_V2.md:329 describes, across two processes.
NeverDecodesBroken == eng.ref # "bad"

\* The gate adds to a backlog only what it sends below its water marks: a packet on
\* top of less than High, or a configuration and a key frame on top of at most Low.
\* A large packet may pass High (videoBackpressure.ts:43), but while the gate is
\* congested neither frames nor configurations add to it (videoBackpressure.ts:20).
BacklogBounded ==
  buffered < High + MaxPacket \/ buffered <= Low + 2 * MaxPacket

\* Every VideoFrame but the one that waits to be drawn is closed, exactly once,
\* and that one comes from the current decoder: stale outputs, recoveries and
\* frames overtaken before the animation frame leak nothing and draw nothing old
\* (WebCodecsH264Engine.ts:90, Canvas2DVideoFrameRenderer.ts:27).
FramesAccountedFor ==
  /\ eng.open = IF eng.pending = "none" THEN 0 ELSE 1
  /\ eng.pending # "old"

\* Once faults stop, a picture that was lost comes back: neither the gate nor the
\* engine waits for a key frame that the other one will not let through.
PictureComesBack == eng.ref # "good" ~> eng.ref = "good"
=============================================================================
