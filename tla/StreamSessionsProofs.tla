------------------------ MODULE StreamSessionsProofs ------------------------
(***************************************************************************)
(* Proofs about StreamSessions, for any number of connections, devices and *)
(* start slots: its types, and the safety properties its runs check.       *)
(***************************************************************************)
EXTENDS StreamSessions, FiniteSetTheorems, SequenceTheorems, TLAPS

-----------------------------------------------------------------------------
(* The inductive invariant.                                                *)

HoldingIn(ss) == {c \in Conns : ss[c].start \in Holding}

\* What #activeStarts and #queue say of the sessions ss: SlotsExact, and the
\* queue lists sessions that wait to start, each of them once.
QueueInv(q, a, ss) ==
  /\ a = Cardinality(HoldingIn(ss))
  /\ a <= MaxStarts
  /\ \A i \in 1 .. Len(q) : ss[q[i]].start = "queued"
  /\ \A i, j \in 1 .. Len(q) : q[i] = q[j] => i = j

\* Before its start is queued a connection has a session nobody knows.
HandlerInv ==
  \A c \in Conns :
    /\ conn[c].ws = "none" => conn[c].handler = "idle"
    /\ conn[c].handler # "idle" => conn[c].udid \in Udids
    /\ conn[c].handler \in {"idle", "closePrev", "rejected"} =>
         sess[c].start = "none" /\ sess[c].closing = "no"
    /\ conn[c].handler = "closePrev" => conn[c].prev \in Conns

\* The map holds sessions that have been queued, under their own device.
CurrentInv ==
  \A u \in Udids : current[u] # None =>
    /\ conn[current[u]].handler \notin {"idle", "closePrev", "rejected"}
    /\ conn[current[u]].udid = u
    /\ sess[current[u]].closing = "no"

\* Who still has to remove the JAR of session s, unless an ADB call failed.
JarInv(s) ==
  /\ s.closing \in {"rm", "client", "adb", "done"} => ~s.path
  /\ s.path => s.start \in {"pushing", "spawning"}
  /\ s.start = "pushing" => s.closing \in {"no", "release", "push"}
  /\ s.start = "pushing" => s.path
  /\ s.jar = "ours" /\ ~s.lost => s.path \/ s.start = "removing" \/ s.closing = "rm"

\* What session s still holds while close() works its way through it.
HoldInv(s) ==
  s.start \in {"video", "live", "ended"} =>
    /\ s.client = (IF s.closing \in {"adb", "done"} THEN "closed" ELSE "open")
    /\ s.transport = (IF s.closing = "done" THEN "closed" ELSE "open")

IInv ==
  /\ TypeOK
  /\ QueueInv(queue, active, sess)
  /\ queue # <<>> => active = MaxStarts
  /\ HandlerInv
  /\ CurrentInv
  /\ \A c \in Conns : JarInv(sess[c]) /\ HoldInv(sess[c])

-----------------------------------------------------------------------------
(* Sessions.                                                               *)

Local(s) == JarInv(s) /\ HoldInv(s)

\* close() and its later steps move nothing but what they say, and leave the
\* session one that is being closed.
LEMMA AfterRmLemma ==
  ASSUME NEW s \in Session
  PROVE  /\ AfterRm(s) = [s EXCEPT !.closing = AfterRm(s).closing]
         /\ AfterRm(s).closing = IF s.client = "open" THEN "client"
                                 ELSE IF s.transport = "open" THEN "adb" ELSE "done"
BY DEF AfterRm, AfterClient, Session

\* Once the rm has answered, nothing is left to remove unless it failed.
LEMMA RemovedLemma ==
  ASSUME NEW s \in Session, s.closing = "rm", ~s.path, s.start # "pushing",
         s.jar = "ours" => s.lost, HoldInv(s)
  PROVE  /\ AfterRm(s) \in Session
         /\ AfterRm(s).start = s.start
         /\ AfterRm(s).closing # "no"
         /\ Local(AfterRm(s))
BY DEF AfterRm, AfterClient, Local, JarInv, HoldInv, Closings, Starts, Session

LEMMA AfterPushLemma ==
  ASSUME NEW s \in Session
  PROVE  /\ AfterPush(s) \in Session
         /\ AfterPush(s).start = s.start
         /\ AfterPush(s).closing # "no"
         /\ s.start # "pushing" /\ s.closing \in {"no", "release", "push"} /\ Local(s)
              => Local(AfterPush(s))
BY AfterRmLemma DEF AfterPush, Local, JarInv, HoldInv, Closings, Starts, Session

LEMMA AfterReleaseLemma ==
  ASSUME NEW s \in Session
  PROVE  /\ AfterRelease(s) \in Session
         /\ AfterRelease(s).start = s.start
         /\ AfterRelease(s).closing # "no"
         /\ s.closing \in {"no", "release"} /\ Local(s) => Local(AfterRelease(s))
BY AfterPushLemma DEF AfterRelease, Local, JarInv, HoldInv, Closings, Starts, Session

LEMMA ClosingLemma ==
  ASSUME NEW s \in Session
  PROVE  /\ Closing(s) \in Session
         /\ Closing(s).start = s.start
         /\ Closing(s).closing # "no"
         /\ Local(s) => Local(Closing(s))
BY AfterReleaseLemma DEF Closing, Closed, Local, JarInv, HoldInv, Closings, Starts, Session

LEMMA RunLemma ==
  ASSUME NEW s \in Session, s.start = "queued"
  PROVE  /\ Run(s) \in Session
         /\ Run(s).start \in Holding
         /\ Run(s).start \in {"connecting", "failing"}
         /\ Run(s).closing = s.closing
         /\ Local(s) => Local(Run(s))
BY DEF Run, Closed, Holding, Local, JarInv, HoldInv, Closings, Starts, Session

-----------------------------------------------------------------------------
(* Slots.                                                                  *)

LEMMA HoldingFinite ==
  ASSUME NEW ss
  PROVE  IsFiniteSet(HoldingIn(ss)) /\ Cardinality(HoldingIn(ss)) \in Nat
BY ConstantsAssumption, FS_Subset, FS_CardinalityType DEF HoldingIn

\* As many different sessions leave the queue as #pump counts.
LEMMA PrefixCardinality ==
  ASSUME NEW q \in Seq(Conns), NEW n \in 0 .. Len(q),
         \A i, j \in 1 .. Len(q) : q[i] = q[j] => i = j
  PROVE  LET out == {q[i] : i \in 1 .. n}
         IN  IsFiniteSet(out) /\ Cardinality(out) = n
<1> DEFINE out == {q[i] : i \in 1 .. n}
           f == [i \in 1 .. n |-> q[i]]
<1>1. n \in Nat /\ 1 .. n \subseteq 1 .. Len(q)
  OBVIOUS
<1>2. f \in Bijection(1 .. n, out)
  BY <1>1 DEF Bijection, Injection, IsInjective, Surjection
<1>3. ExistsBijection(1 .. n, out)
  BY <1>2 DEF ExistsBijection
<1>4. IsFiniteSet(1 .. n) /\ Cardinality(1 .. n) = n
  BY <1>1, FS_Interval
<1>. QED
  BY <1>3, <1>4, FS_Bijection

\* Filling the free slots keeps the count exact, and leaves a queue only when
\* every slot is taken; it runs sessions that were queued and no others.
LEMMA PumpLemma ==
  ASSUME NEW q \in Seq(Conns), NEW a \in Nat, NEW ss \in [Conns -> Session],
         QueueInv(q, a, ss), Pump(q, a, ss)
  PROVE  /\ queue' \in Seq(Conns) /\ active' \in Nat /\ sess' \in [Conns -> Session]
         /\ QueueInv(queue', active', sess')
         /\ queue' # <<>> => active' = MaxStarts
         /\ \A c \in Conns : \/ sess'[c] = ss[c]
                             \/ ss[c].start = "queued" /\ sess'[c] = Run(ss[c])
<1> DEFINE n == Room(q, a)
           out == {q[i] : i \in 1 .. n}
<1>1. n \in 0 .. Len(q) /\ a + n <= MaxStarts /\ (n < Len(q) => a + n = MaxStarts)
  BY ConstantsAssumption DEF Room, QueueInv
<1>2. /\ queue' = SubSeq(q, n + 1, Len(q))
      /\ active' = a + n
      /\ sess' = [c \in Conns |-> IF c \in out THEN Run(ss[c]) ELSE ss[c]]
  BY DEF Pump
<1>3. \A i \in 1 .. Len(q) : q[i] \in Conns /\ ss[q[i]].start = "queued"
  BY DEF QueueInv
<1>4. \A c \in out : c \in Conns /\ ss[c].start = "queued"
  BY <1>1, <1>3
<1>5. \A c \in out : Run(ss[c]) \in Session /\ Run(ss[c]).start \in Holding
  BY <1>4, RunLemma
<1>6. sess' \in [Conns -> Session]
  BY <1>2, <1>5
<1>7. /\ queue' \in Seq(Conns)
      /\ Len(queue') = Len(q) - n
      /\ \A i \in 1 .. Len(queue') : queue'[i] = q[n + i]
  <2>1. n + 1 \in Int /\ Len(q) \in Int /\ \A i \in n + 1 .. Len(q) : q[i] \in Conns
    BY <1>1, <1>3
  <2>2. /\ SubSeq(q, n + 1, Len(q)) \in Seq(Conns)
        /\ Len(SubSeq(q, n + 1, Len(q))) =
             IF n + 1 <= Len(q) THEN Len(q) - (n + 1) + 1 ELSE 0
        /\ \A i \in 1 .. Len(q) - (n + 1) + 1 : SubSeq(q, n + 1, Len(q))[i] = q[n + 1 + i - 1]
    BY <2>1, SubSeqProperties
  <2>. QED
    BY <1>1, <1>2, <2>2
<1>8. HoldingIn(sess') = HoldingIn(ss) \cup out
  <2>1. ASSUME NEW c \in Conns
        PROVE  sess'[c].start \in Holding <=> ss[c].start \in Holding \/ c \in out
    <3>1. CASE c \in out
      BY <1>2, <1>5, <3>1
    <3>2. CASE c \notin out
      BY <1>2, <3>2
    <3>. QED
      BY <3>1, <3>2
  <2>. QED
    BY <1>4, <2>1 DEF HoldingIn
<1>9. HoldingIn(ss) \cap out = {}
  BY <1>4 DEF HoldingIn, Holding
<1>10. Cardinality(HoldingIn(sess')) = a + n
  <2>1. IsFiniteSet(out) /\ Cardinality(out) = n
    BY <1>1, PrefixCardinality DEF QueueInv
  <2>2. Cardinality(HoldingIn(ss) \cup out) =
          Cardinality(HoldingIn(ss)) + Cardinality(out) - Cardinality(HoldingIn(ss) \cap out)
    BY <2>1, HoldingFinite, FS_Union
  <2>3. Cardinality(HoldingIn(ss) \cap out) = 0
    BY <1>9, FS_EmptySet
  <2>4. Cardinality(HoldingIn(ss)) = a
    BY DEF QueueInv
  <2>. QED
    BY <1>1, <1>8, <2>1, <2>2, <2>3, <2>4
<1>11. \A i, j \in 1 .. Len(queue') : queue'[i] = queue'[j] => i = j
  <2> SUFFICES ASSUME NEW i \in 1 .. Len(queue'), NEW j \in 1 .. Len(queue'),
                      queue'[i] = queue'[j]
               PROVE  i = j
    OBVIOUS
  <2>1. n + i \in 1 .. Len(q) /\ n + j \in 1 .. Len(q) /\ q[n + i] = q[n + j]
    BY <1>1, <1>7
  <2>2. n + i = n + j
    BY <2>1 DEF QueueInv
  <2>. QED
    BY <1>1, <2>2
<1>12. \A i \in 1 .. Len(queue') : sess'[queue'[i]].start = "queued"
  <2> SUFFICES ASSUME NEW i \in 1 .. Len(queue')
               PROVE  sess'[queue'[i]].start = "queued"
    OBVIOUS
  <2>1. n + i \in 1 .. Len(q) /\ queue'[i] = q[n + i]
    BY <1>1, <1>7
  <2>2. \A j \in 1 .. n : j \in 1 .. Len(q) /\ j # n + i
    BY <1>1, <2>1
  <2>3. q[n + i] \notin out
    BY <2>1, <2>2 DEF QueueInv
  <2>. QED
    BY <1>2, <1>3, <2>1, <2>3
<1>. QED
  <2>1. queue' # <<>> => n < Len(q)
    BY <1>1, <1>7, EmptySeq
  <2>2. \A c \in Conns : \/ sess'[c] = ss[c]
                         \/ ss[c].start = "queued" /\ sess'[c] = Run(ss[c])
    BY <1>2, <1>4
  <2>3. active' \in Nat /\ active' <= MaxStarts /\ active' = Cardinality(HoldingIn(sess'))
    BY <1>1, <1>2, <1>10
  <2>4. QueueInv(queue', active', sess')
    BY <1>11, <1>12, <2>3 DEF QueueInv
  <2>. QED
    BY <1>1, <1>2, <1>6, <1>7, <2>1, <2>2, <2>3, <2>4

\* The count and the queue only look at which sessions wait and which hold a slot.
LEMMA SameStarts ==
  ASSUME NEW q \in Seq(Conns), NEW a, NEW ss, NEW tt, QueueInv(q, a, ss),
         \A c \in Conns : /\ tt[c].start \in Holding <=> ss[c].start \in Holding
                          /\ tt[c].start = "queued" <=> ss[c].start = "queued"
  PROVE  QueueInv(q, a, tt)
<1>1. HoldingIn(tt) = HoldingIn(ss)
  BY DEF HoldingIn
<1>2. \A i \in 1 .. Len(q) : q[i] \in Conns
  OBVIOUS
<1>. QED
  BY <1>1, <1>2 DEF QueueInv

-----------------------------------------------------------------------------
(* Steps of one session.                                                   *)

\* A step of one session keeps the invariant when it keeps what is local to the
\* session, its slot, its place in the queue and whether it is being closed.
LEMMA BecomesLemma ==
  ASSUME IInv, NEW c \in Conns, NEW s \in Session, Becomes(c, s), Local(s),
         s.start \in Holding <=> sess[c].start \in Holding,
         s.start = "queued" <=> sess[c].start = "queued",
         s.start = "none" <=> sess[c].start = "none",
         s.closing = "no" <=> sess[c].closing = "no"
  PROVE  IInv'
<1>1. /\ sess' = [sess EXCEPT ![c] = s]
      /\ conn' = conn /\ current' = current /\ queue' = queue /\ active' = active
      /\ exit' = exit /\ awaited' = awaited
  BY DEF Becomes
<1>2. TypeOK'
  BY <1>1 DEF IInv, TypeOK
<1>3. /\ sess'[c] = s
      /\ \A d \in Conns : d # c => sess'[d] = sess[d]
  BY <1>1 DEF IInv, TypeOK
<1>4. QueueInv(queue', active', sess')
  <2>1. QueueInv(queue, active, sess')
    BY <1>3, SameStarts DEF IInv, TypeOK
  <2>. QED
    BY <1>1, <2>1
<1>5. HandlerInv'
  BY <1>1, <1>3 DEF IInv, HandlerInv
<1>6. CurrentInv'
  <2>1. \A u \in Udids : current[u] # None => current[u] \in Conns
    BY DEF IInv, TypeOK
  <2>. QED
    BY <1>1, <1>3, <2>1 DEF IInv, CurrentInv
<1>7. \A d \in Conns : JarInv(sess'[d]) /\ HoldInv(sess'[d])
  BY <1>3 DEF IInv, Local
<1>. QED
  BY <1>1, <1>2, <1>4, <1>5, <1>6, <1>7 DEF IInv

LEMMA FailLemma ==
  ASSUME NEW s \in Session, Local(s), s.start \in Holding \ {"removing", "failing"}
  PROVE  /\ Fail(s) \in Session /\ Local(Fail(s))
         /\ Fail(s).start \in {"removing", "failing"}
         /\ Fail(s).closing = s.closing
BY DEF Fail, Holding, Local, JarInv, HoldInv, Closings, Starts, Session

\* The steps of start() that only touch their session.
LEMMA StartLemma ==
  ASSUME IInv, NEW c \in Conns,
         \/ Connected(c) \/ ConnectFails(c) \/ Pushed(c) \/ PushFails(c) \/ Spawned(c)
         \/ SpawnFails(c) \/ VideoFails(c) \/ StartRmDone(c) \/ ReaderEnds(c)
  PROVE  IInv'
<1> DEFINE old == sess[c]
<1>1. old \in Session /\ Local(old)
  BY DEF IInv, TypeOK, Local
<1>2. ASSUME old.start \in Holding, NEW s \in Session, Becomes(c, s), Local(s),
             s.start \in Holding, s.closing = old.closing
      PROVE  IInv'
  <2>1. /\ s.start \notin {"queued", "none"} /\ old.start \notin {"queued", "none"}
        /\ (s.closing = "no" <=> old.closing = "no")
    BY <1>2 DEF Holding
  <2>. QED
    BY <1>2, <2>1, BecomesLemma
<1>3. ASSUME NEW s \in Session, Local(s), old.start \in Holding, s.closing = old.closing,
             s.start \in Holding \ {"removing", "failing"}, Becomes(c, Fail(s))
      PROVE  IInv'
  <2>1. Fail(s).start \in Holding
    BY <1>3, FailLemma DEF Holding
  <2>. QED
    BY <1>2, <1>3, <2>1, FailLemma
<1>4. CASE Connected(c)
  <2> DEFINE s == [old EXCEPT !.transport = "open"]
             t == [s EXCEPT !.path = TRUE, !.start = "pushing"]
  <2>1. /\ s \in Session /\ Local(s) /\ old.start \in Holding /\ s.closing = old.closing
        /\ s.start \in Holding \ {"removing", "failing"}
    BY <1>1, <1>4 DEF Connected, Session, Holding, Local, JarInv, HoldInv
  <2>2. CASE Closed(s)
    BY <1>3, <1>4, <2>1, <2>2 DEF Connected
  <2>3. CASE ~Closed(s)
    <3>1. /\ t \in Session /\ Local(t) /\ t.start \in Holding /\ t.closing = old.closing
      BY <1>1, <1>4, <2>3
      DEF Connected, Closed, Session, Starts, Holding, Local, JarInv, HoldInv
    <3>2. Becomes(c, t)
      BY <1>4, <2>3 DEF Connected
    <3>. QED
      BY <1>2, <2>1, <3>1, <3>2
  <2>. QED
    BY <2>2, <2>3
<1>5. CASE ConnectFails(c)
  BY <1>1, <1>3, <1>5 DEF ConnectFails, Holding
<1>6. CASE Pushed(c)
  <2> DEFINE s == [old EXCEPT !.jar = "ours"]
             t == [s EXCEPT !.start = "spawning"]
  <2>1. /\ s \in Session /\ Local(s) /\ old.start \in Holding /\ s.closing = old.closing
        /\ s.start \in Holding \ {"removing", "failing"}
    BY <1>1, <1>6 DEF Pushed, Session, Holding, Local, JarInv, HoldInv
  <2>2. CASE Closed(s)
    BY <1>3, <1>6, <2>1, <2>2 DEF Pushed
  <2>3. CASE ~Closed(s)
    <3>1. /\ t \in Session /\ Local(t) /\ t.start \in Holding /\ t.closing = old.closing
      BY <1>1, <1>6, <2>3
      DEF Pushed, Closed, Session, Starts, Holding, Local, JarInv, HoldInv
    <3>2. Becomes(c, t)
      BY <1>6, <2>3 DEF Pushed
    <3>. QED
      BY <1>2, <2>1, <3>1, <3>2
  <2>. QED
    BY <2>2, <2>3
<1>7. CASE PushFails(c)
  <2>1. PICK j \in {"none", "ours"}, late \in BOOLEAN :
          Becomes(c, Fail([old EXCEPT !.jar = j, !.lost = @ \/ late]))
    BY <1>7 DEF PushFails
  <2> DEFINE s == [old EXCEPT !.jar = j, !.lost = @ \/ late]
  <2>2. /\ s \in Session /\ Local(s) /\ old.start \in Holding /\ s.closing = old.closing
        /\ s.start \in Holding \ {"removing", "failing"}
    BY <1>1, <1>7 DEF PushFails, Session, Holding, Local, JarInv, HoldInv
  <2>. QED
    BY <1>3, <2>1, <2>2
<1>8. CASE Spawned(c)
  <2> DEFINE s == [old EXCEPT !.client = "open", !.path = FALSE,
                              !.jar = IF @ = "ours" THEN "scrcpy" ELSE @]
             t == [s EXCEPT !.start = "video"]
  <2>1. /\ s \in Session /\ Local(s) /\ old.start \in Holding /\ s.closing = old.closing
        /\ s.start \in Holding \ {"removing", "failing"}
    BY <1>1, <1>8 DEF Spawned, Session, Holding, Local, JarInv, HoldInv
  <2>2. CASE Closed(s)
    BY <1>3, <1>8, <2>1, <2>2 DEF Spawned
  <2>3. CASE ~Closed(s)
    <3>1. /\ t \in Session /\ Local(t) /\ t.start \in Holding /\ t.closing = old.closing
      BY <1>1, <1>8, <2>3
      DEF Spawned, Closed, Session, Starts, Holding, Local, JarInv, HoldInv
    <3>2. Becomes(c, t)
      BY <1>8, <2>3 DEF Spawned
    <3>. QED
      BY <1>2, <2>1, <3>1, <3>2
  <2>. QED
    BY <2>2, <2>3
<1>9. CASE SpawnFails(c)
  BY <1>1, <1>3, <1>9 DEF SpawnFails, Holding
<1>10. CASE VideoFails(c)
  BY <1>1, <1>3, <1>10 DEF VideoFails, Holding
<1>11. CASE StartRmDone(c)
  <2>1. PICK ok \in BOOLEAN :
          Becomes(c, [old EXCEPT !.start = "failing", !.lost = @ \/ ~ok,
                                 !.jar = IF ok THEN "none" ELSE @])
    BY <1>11 DEF StartRmDone
  <2> DEFINE s == [old EXCEPT !.start = "failing", !.lost = @ \/ ~ok,
                              !.jar = IF ok THEN "none" ELSE @]
  <2>2. /\ s \in Session /\ Local(s) /\ old.start \in Holding
        /\ s.start \in Holding /\ s.closing = old.closing
    BY <1>1, <1>11 DEF StartRmDone, Session, Starts, Holding, Local, JarInv, HoldInv
  <2>. QED
    BY <1>2, <2>1, <2>2
<1>12. CASE ReaderEnds(c)
  <2> DEFINE s == [old EXCEPT !.start = "ended"]
  <2>1. /\ s \in Session /\ Local(s) /\ s.closing = old.closing
        /\ s.start = "ended" /\ old.start = "live"
    BY <1>1, <1>12 DEF ReaderEnds, Session, Starts, Local, JarInv, HoldInv
  <2>2. Becomes(c, s)
    BY <1>12 DEF ReaderEnds
  <2>. QED
    BY <2>1, <2>2, BecomesLemma DEF Holding
<1>. QED
  BY <1>4, <1>5, <1>6, <1>7, <1>8, <1>9, <1>10, <1>11, <1>12

\* The steps of close() that follow its synchronous part.
LEMMA CloseLemma ==
  ASSUME IInv, NEW c \in Conns, CloseStep(c)
  PROVE  IInv'
<1> DEFINE old == sess[c]
<1>1. old \in Session /\ Local(old)
  BY DEF IInv, TypeOK, Local
<1>2. ASSUME NEW s \in Session, Becomes(c, s), Local(s), old.closing # "no",
             s.start = old.start, s.closing # "no"
      PROVE  IInv'
  BY <1>2, BecomesLemma
<1>3. CASE ReleaseDone(c)
  BY <1>1, <1>2, <1>3, AfterReleaseLemma DEF ReleaseDone
<1>4. CASE PushSettled(c)
  BY <1>1, <1>2, <1>4, AfterPushLemma DEF PushSettled
<1>5. CASE CloseRmDone(c)
  <2>1. PICK ok \in BOOLEAN :
          Becomes(c, AfterRm([old EXCEPT !.lost = @ \/ ~ok, !.jar = IF ok THEN "none" ELSE @]))
    BY <1>5 DEF CloseRmDone
  <2> DEFINE s == [old EXCEPT !.lost = @ \/ ~ok, !.jar = IF ok THEN "none" ELSE @]
  <2>2. s \in Session
    BY <1>1 DEF Session
  <2>3. s.closing = "rm" /\ s.start = old.start /\ (s.jar = "ours" => s.lost)
    BY <1>1, <1>5 DEF CloseRmDone, Session
  <2>4. ~s.path /\ s.start # "pushing"
    BY <1>1, <1>5 DEF CloseRmDone, Session, Local, JarInv
  <2>5. HoldInv(s)
    BY <1>1 DEF Session, Local, HoldInv
  <2>6. /\ AfterRm(s) \in Session /\ Local(AfterRm(s))
        /\ AfterRm(s).start = old.start /\ AfterRm(s).closing # "no"
    BY <2>2, <2>3, <2>4, <2>5, RemovedLemma
  <2>. QED
    BY <1>2, <1>5, <2>1, <2>6 DEF CloseRmDone
<1>6. CASE ClientClosed(c)
  <2> DEFINE s == AfterClient([old EXCEPT !.client = "closed"])
  <2>1. /\ s \in Session /\ Local(s) /\ s.start = old.start /\ s.closing # "no"
    BY <1>1, <1>6 DEF ClientClosed, AfterClient, Session, Closings, Local, JarInv, HoldInv
  <2>. QED
    BY <1>2, <1>6, <2>1 DEF ClientClosed
<1>7. CASE AdbClosed(c)
  <2> DEFINE s == [old EXCEPT !.transport = "closed", !.closing = "done"]
  <2>1. /\ s \in Session /\ Local(s) /\ s.start = old.start /\ s.closing # "no"
    BY <1>1, <1>7 DEF AdbClosed, Session, Closings, Local, JarInv, HoldInv
  <2>. QED
    BY <1>2, <1>7, <2>1 DEF AdbClosed
<1>. QED
  BY <1>3, <1>4, <1>5, <1>6, <1>7 DEF CloseStep

-----------------------------------------------------------------------------
(* Steps that run the queue.                                               *)

\* The part of the invariant that speaks of sessions and slots only.
QueuePart ==
  /\ queue \in Seq(Conns) /\ active \in Nat /\ sess \in [Conns -> Session]
  /\ QueueInv(queue, active, sess)
  /\ queue # <<>> => active = MaxStarts
  /\ \A c \in Conns : JarInv(sess[c]) /\ HoldInv(sess[c])

\* A pump that begins with the sessions ss keeps that part, and moves no session
\* out of "none", into it, or towards its close.
LEMMA PumpPart ==
  ASSUME NEW q \in Seq(Conns), NEW a \in Nat, NEW ss \in [Conns -> Session],
         QueueInv(q, a, ss), Pump(q, a, ss), \A c \in Conns : Local(ss[c])
  PROVE  /\ QueuePart'
         /\ \A c \in Conns : /\ sess'[c].closing = ss[c].closing
                             /\ sess'[c].start = "none" <=> ss[c].start = "none"
<1>1. ASSUME NEW c \in Conns
      PROVE  /\ Local(sess'[c])
             /\ sess'[c].closing = ss[c].closing
             /\ sess'[c].start = "none" <=> ss[c].start = "none"
  <2>1. CASE sess'[c] = ss[c]
    BY <2>1
  <2>2. CASE ss[c].start = "queued" /\ sess'[c] = Run(ss[c])
    BY <2>2, RunLemma
  <2>. QED
    BY <2>1, <2>2, PumpLemma
<1>. QED
  BY <1>1, PumpLemma DEF QueuePart, Local

\* The end of a job: the session of c becomes s and leaves its slot to others.
LEMMA ReleaseLemma ==
  ASSUME IInv, NEW c \in Conns, NEW s \in Session, Local(s),
         sess[c].start \in Holding, s.start \notin Holding \cup {"queued", "none"},
         Release([sess EXCEPT ![c] = s])
  PROVE  /\ QueuePart'
         /\ sess'[c].closing = s.closing
         /\ \A d \in Conns \ {c} : sess'[d].closing = sess[d].closing
         /\ \A d \in Conns : sess'[d].start = "none" <=> sess[d].start = "none"
<1> DEFINE ss == [sess EXCEPT ![c] = s]
<1>1. /\ ss \in [Conns -> Session] /\ ss[c] = s
      /\ \A d \in Conns \ {c} : ss[d] = sess[d]
  BY DEF IInv, TypeOK
<1>2. HoldingIn(ss) = HoldingIn(sess) \ {c} /\ c \in HoldingIn(sess)
  BY <1>1 DEF HoldingIn
<1>3. Cardinality(HoldingIn(ss)) = active - 1
  BY <1>2, HoldingFinite, FS_RemoveElement DEF IInv, QueueInv
<1>4. active - 1 \in Nat
  BY <1>3, HoldingFinite
<1>5. \A i \in 1 .. Len(queue) : queue[i] \in Conns
  BY DEF IInv, TypeOK
<1>6. \A i \in 1 .. Len(queue) : ss[queue[i]].start = "queued"
  BY <1>1, <1>5 DEF IInv, QueueInv, Holding
<1>7. QueueInv(queue, active - 1, ss)
  BY <1>3, <1>4, <1>6, ConstantsAssumption DEF IInv, TypeOK, QueueInv
<1>8. Pump(queue, active - 1, ss)
  BY DEF Release
<1>9. \A d \in Conns : Local(ss[d])
  BY <1>1 DEF IInv, Local
<1>10. queue \in Seq(Conns)
  BY DEF IInv, TypeOK
<1> HIDE DEF ss
<1>11. /\ QueuePart'
       /\ \A d \in Conns : /\ sess'[d].closing = ss[d].closing
                           /\ sess'[d].start = "none" <=> ss[d].start = "none"
  BY <1>1, <1>4, <1>7, <1>8, <1>9, <1>10, PumpPart
<1>. QED
  BY <1>1, <1>11 DEF Holding

\* The end of `await this.close(udid)`: the new session of c enters the queue.
LEMMA RegisterLemma ==
  ASSUME IInv, NEW c \in Conns, NEW u \in Udids,
         sess[c].start = "none", sess[c].closing = "no", Register(c, u)
  PROVE  /\ QueuePart'
         /\ \A d \in Conns : sess'[d].closing = sess[d].closing
         /\ \A d \in Conns \ {c} : sess'[d].start = "none" <=> sess[d].start = "none"
         /\ sess'[c].start # "none"
         /\ current' = [current EXCEPT ![u] = c]
<1> DEFINE ss == [sess EXCEPT ![c].start = "queued"]
           q == Append(queue, c)
<1>1. /\ ss \in [Conns -> Session]
      /\ ss[c] = [sess[c] EXCEPT !.start = "queued"]
      /\ \A d \in Conns \ {c} : ss[d] = sess[d]
  BY DEF IInv, TypeOK, Session, Starts
<1>2. queue \in Seq(Conns) /\ q \in Seq(Conns) /\ active \in Nat
  BY DEF IInv, TypeOK
<1>3. ss[c].start = "queued" /\ ss[c].closing = "no"
  BY <1>1 DEF IInv, TypeOK, Session
<1>4. HoldingIn(ss) = HoldingIn(sess)
  BY <1>1, <1>3 DEF HoldingIn, Holding
<1>5. \A i \in 1 .. Len(queue) : queue[i] \in Conns \ {c} /\ sess[queue[i]].start = "queued"
  BY <1>2 DEF IInv, QueueInv
<1>6. /\ Len(q) = Len(queue) + 1 /\ q[Len(queue) + 1] = c
      /\ \A i \in 1 .. Len(queue) : q[i] = queue[i]
  BY <1>2
<1>7. \A i \in 1 .. Len(q) : ss[q[i]].start = "queued"
  BY <1>1, <1>2, <1>3, <1>5, <1>6
<1>8. \A i, j \in 1 .. Len(q) : q[i] = q[j] => i = j
  BY <1>2, <1>5, <1>6 DEF IInv, QueueInv
<1>9. QueueInv(q, active, ss)
  BY <1>4, <1>7, <1>8 DEF IInv, QueueInv
<1>10. Local(ss[c])
  BY <1>1, <1>3 DEF IInv, TypeOK, Session, Local, JarInv, HoldInv
<1>11. \A d \in Conns : Local(ss[d])
  BY <1>1, <1>10 DEF IInv, Local
<1>12. Pump(q, active, ss) /\ current' = [current EXCEPT ![u] = c]
  BY DEF Register
<1> HIDE DEF ss, q
<1>13. /\ QueuePart'
       /\ \A d \in Conns : /\ sess'[d].closing = ss[d].closing
                           /\ sess'[d].start = "none" <=> ss[d].start = "none"
  BY <1>1, <1>2, <1>9, <1>11, <1>12, PumpPart
<1>. QED
  BY <1>1, <1>3, <1>12, <1>13

-----------------------------------------------------------------------------
(* Steps of connections, and the signal handlers.                          *)

\* The invariant, split into what the steps below prove one after the other.
LEMMA Parts ==
  IInv <=> /\ QueuePart /\ HandlerInv /\ CurrentInv
           /\ conn \in [Conns -> Connection]
           /\ current \in [Udids -> Conns \cup {None}]
           /\ exit \in {"no", "closing", "done"} /\ awaited \subseteq Conns
BY DEF IInv, TypeOK, QueuePart

\* A step that closes some of the registered sessions and keeps queue and slots.
LEMMA CloseSome ==
  ASSUME IInv, NEW D \in SUBSET Conns, queue' = queue, active' = active,
         sess' = [c \in Conns |-> IF c \in D THEN Closing(sess[c]) ELSE sess[c]]
  PROVE  /\ QueuePart'
         /\ \A c \in Conns : sess'[c].start = sess[c].start
<1>1. ASSUME NEW c \in Conns
      PROVE  /\ sess'[c] \in Session /\ Local(sess'[c])
             /\ sess'[c].start = sess[c].start
  <2>1. sess[c] \in Session /\ Local(sess[c])
    BY DEF IInv, TypeOK, Local
  <2>. QED
    BY <2>1, ClosingLemma
<1>2. sess' \in [Conns -> Session]
  BY <1>1
<1>3. QueueInv(queue, active, sess')
  BY <1>1, SameStarts DEF IInv, TypeOK
<1>. QED
  BY <1>1, <1>2, <1>3 DEF QueuePart, IInv, TypeOK, Local

LEMMA RejectStep ==
  ASSUME IInv, NEW c \in Conns, NEW u \in Udids, Reject(c, u)
  PROVE  IInv'
<1>1. conn' \in [Conns -> Connection]
  <2>1. conn' = [conn EXCEPT ![c].ws = "closed", ![c].handler = "rejected", ![c].udid = u]
    BY DEF Reject
  <2>2. \A d \in Conns : conn[d] \in Connection
    BY DEF IInv, TypeOK
  <2>3. [conn[c] EXCEPT !.ws = "closed", !.handler = "rejected", !.udid = u] \in Connection
    BY <2>2 DEF Connection, Handlers
  <2>4. conn' = [d \in Conns |->
                   IF d = c THEN [conn[c] EXCEPT !.ws = "closed", !.handler = "rejected",
                                                 !.udid = u]
                   ELSE conn[d]]
    BY <2>1 DEF IInv, TypeOK
  <2>. QED
    BY <2>2, <2>3, <2>4
<1>2. QueuePart'
  BY Parts DEF Reject, QueuePart
<1>3. HandlerInv'
  BY DEF Reject, IInv, TypeOK, Connection, HandlerInv
<1>4. CurrentInv'
  <2>1. \A v \in Udids : current[v] # None => current[v] \in Conns \ {c}
    BY DEF Reject, IInv, TypeOK, HandlerInv, CurrentInv
  <2>. QED
    BY <2>1 DEF Reject, IInv, TypeOK, CurrentInv
<1>. QED
  BY <1>1, <1>2, <1>3, <1>4, Parts DEF Reject, IInv, TypeOK, QueuePart

\* What registering a session for connection c asks of the connection.
LEMMA StartingStep ==
  ASSUME IInv, NEW c \in Conns, NEW u \in Udids,
         conn[c].handler \in {"idle", "closePrev"}, Register(c, u),
         conn' \in [Conns -> Connection], conn'[c].handler = "starting",
         conn'[c].udid = u, conn'[c].ws # "none",
         \A d \in Conns \ {c} : conn'[d] = conn[d],
         exit' = exit, awaited' = awaited
  PROVE  IInv'
<1>1. sess[c].start = "none" /\ sess[c].closing = "no"
  BY DEF IInv, HandlerInv
<1>2. /\ QueuePart'
      /\ \A d \in Conns : sess'[d].closing = sess[d].closing
      /\ \A d \in Conns \ {c} : sess'[d].start = "none" <=> sess[d].start = "none"
      /\ current' = [current EXCEPT ![u] = c]
  BY <1>1, RegisterLemma
<1>3. current' \in [Udids -> Conns \cup {None}]
  BY <1>2 DEF IInv, TypeOK
<1>4. HandlerInv'
  BY <1>2 DEF IInv, HandlerInv
<1>5. CurrentInv'
  <2>1. \A v \in Udids : current[v] # None => current[v] \in Conns \ {c}
    BY DEF IInv, TypeOK, CurrentInv
  <2>2. \A v \in Udids : current'[v] = IF v = u THEN c ELSE current[v]
    BY <1>2 DEF IInv, TypeOK
  <2>. QED
    BY <1>1, <1>2, <2>1, <2>2 DEF IInv, CurrentInv
<1>. QED
  BY <1>2, <1>3, <1>4, <1>5 DEF IInv, TypeOK, QueuePart

LEMMA ArriveStep ==
  ASSUME IInv, NEW c \in Conns, NEW u \in Udids, Arrive(c, u)
  PROVE  IInv'
<1>1. conn' = [conn EXCEPT ![c].ws = "open", ![c].handler = "starting", ![c].udid = u]
  BY DEF Arrive
<1>2. /\ conn' \in [Conns -> Connection] /\ conn'[c].handler = "starting"
      /\ conn'[c].udid = u /\ conn'[c].ws # "none"
      /\ \A d \in Conns \ {c} : conn'[d] = conn[d]
  BY <1>1 DEF IInv, TypeOK, Connection, Handlers
<1>3. conn[c].handler = "idle"
  BY DEF Arrive, IInv, HandlerInv
<1>. QED
  BY <1>2, <1>3, StartingStep DEF Arrive

LEMMA PrevClosedStep ==
  ASSUME IInv, NEW c \in Conns, PrevClosed(c)
  PROVE  IInv'
<1>1. conn' = [conn EXCEPT ![c].handler = "starting"]
  BY DEF PrevClosed
<1>2. conn[c].handler = "closePrev" /\ conn[c].udid \in Udids /\ conn[c].ws # "none"
  BY DEF PrevClosed, IInv, HandlerInv
<1>3. /\ conn' \in [Conns -> Connection] /\ conn'[c].handler = "starting"
      /\ conn'[c].udid = conn[c].udid /\ conn'[c].ws # "none"
      /\ \A d \in Conns \ {c} : conn'[d] = conn[d]
  BY <1>1, <1>2 DEF IInv, TypeOK, Connection, Handlers
<1>. QED
  BY <1>2, <1>3, StartingStep DEF PrevClosed

LEMMA ReplaceStep ==
  ASSUME IInv, NEW c \in Conns, NEW u \in Udids, Replace(c, u)
  PROVE  IInv'
<1> DEFINE p == current[u]
<1>1. p \in Conns /\ p # c /\ conn[c].handler = "idle"
  BY DEF Replace, IInv, TypeOK, HandlerInv, CurrentInv
<1>2. sess' = [d \in Conns |-> IF d \in {p} THEN Closing(sess[d]) ELSE sess[d]]
  BY <1>1 DEF Replace, IInv, TypeOK
<1>3. QueuePart' /\ \A d \in Conns : sess'[d].start = sess[d].start
  BY <1>1, <1>2, CloseSome DEF Replace
<1>4. \A d \in Conns \ {p} : sess'[d] = sess[d]
  BY <1>2
<1>5. /\ conn' \in [Conns -> Connection]
      /\ conn'[c].handler = "closePrev" /\ conn'[c].udid = u /\ conn'[c].ws = "open"
      /\ conn'[c].prev = p
      /\ \A d \in Conns \ {c} : conn'[d] = conn[d]
  BY <1>1 DEF Replace, IInv, TypeOK, Connection, Handlers
<1>6. /\ current' \in [Udids -> Conns \cup {None}]
      /\ \A v \in Udids : current'[v] = IF v = u THEN None ELSE current[v]
  BY DEF Replace, IInv, TypeOK
<1>7. \A v \in Udids : current'[v] # None => current'[v] \in Conns \ {c, p}
  BY <1>1, <1>6 DEF IInv, TypeOK, CurrentInv
<1>8. HandlerInv'
  BY <1>1, <1>3, <1>4, <1>5 DEF IInv, HandlerInv, CurrentInv, Replace
<1>9. CurrentInv'
  BY <1>4, <1>5, <1>6, <1>7 DEF IInv, CurrentInv
<1>. QED
  BY <1>3, <1>5, <1>6, <1>8, <1>9 DEF Replace, IInv, TypeOK, QueuePart

LEMMA WsClosesStep ==
  ASSUME IInv, NEW c \in Conns, WsCloses(c)
  PROVE  IInv'
<1> DEFINE owner == conn[c].handler = "running" /\ current[conn[c].udid] = c
           u == conn[c].udid
<1>1. /\ conn' \in [Conns -> Connection]
      /\ conn[c].ws # "none" /\ conn'[c].ws = "closed"
      /\ conn'[c].handler = conn[c].handler /\ conn'[c].udid = u
      /\ conn'[c].prev = conn[c].prev
      /\ \A d \in Conns \ {c} : conn'[d] = conn[d]
  <2>1. conn' = [conn EXCEPT ![c].ws = "closed"] /\ conn[c].ws = "open"
    BY DEF WsCloses
  <2>. QED
    BY <2>1 DEF IInv, TypeOK, Connection
<1>2. /\ QueuePart'
      /\ \A d \in Conns : sess'[d].start = sess[d].start
      /\ \A d \in Conns : sess'[d] = sess[d] \/ (owner /\ d = c)
  <2>1. CASE owner
    <3>1. sess' = [d \in Conns |-> IF d \in {c} THEN Closing(sess[d]) ELSE sess[d]]
      BY <2>1 DEF WsCloses, IInv, TypeOK
    <3>. QED
      BY <2>1, <3>1, CloseSome DEF WsCloses
  <2>2. CASE ~owner
    BY <2>2, Parts DEF WsCloses, QueuePart
  <2>. QED
    BY <2>1, <2>2
<1>3. /\ current' \in [Udids -> Conns \cup {None}]
      /\ \A v \in Udids : current'[v] = IF owner /\ v = u THEN None ELSE current[v]
  <2>1. CASE owner
    <3>1. current' = [current EXCEPT ![u] = None]
      BY <2>1 DEF WsCloses
    <3>. QED
      BY <2>1, <3>1 DEF IInv, TypeOK
  <2>2. CASE ~owner
    <3>1. current' = current
      BY <2>2 DEF WsCloses
    <3>. QED
      BY <2>2, <3>1 DEF IInv, TypeOK
  <2>. QED
    BY <2>1, <2>2
<1>4. HandlerInv'
  BY <1>1, <1>2 DEF IInv, HandlerInv
<1>5. CurrentInv'
  <2> SUFFICES ASSUME NEW v \in Udids, current'[v] # None
               PROVE  /\ conn'[current'[v]].handler \notin {"idle", "closePrev", "rejected"}
                      /\ conn'[current'[v]].udid = v
                      /\ sess'[current'[v]].closing = "no"
    BY DEF CurrentInv
  <2>1. current'[v] = current[v] /\ current[v] \in Conns /\ ~(owner /\ v = u)
    BY <1>3 DEF IInv, TypeOK
  <2>2. /\ conn[current[v]].handler \notin {"idle", "closePrev", "rejected"}
        /\ conn[current[v]].udid = v /\ sess[current[v]].closing = "no"
    BY <2>1 DEF IInv, CurrentInv
  <2>3. sess'[current[v]] = sess[current[v]]
    BY <1>2, <2>1, <2>2
  <2>. QED
    BY <1>1, <2>1, <2>2, <2>3
<1>. QED
  BY <1>1, <1>2, <1>3, <1>4, <1>5 DEF WsCloses, IInv, TypeOK, QueuePart

\* The end of a job, for a connection whose handler and socket move on.
LEMMA EndStep ==
  ASSUME IInv, NEW c \in Conns, NEW s \in Session, Local(s), sess[c].start \in Holding,
         s.start \notin Holding \cup {"queued", "none"},
         Release([sess EXCEPT ![c] = s]),
         conn' \in [Conns -> Connection], conn'[c].udid = conn[c].udid,
         conn'[c].handler \in {"running", "unwinding", "failed"},
         conn'[c].ws \in {conn[c].ws, "closed"},
         \A d \in Conns \ {c} : conn'[d] = conn[d],
         s.closing = sess[c].closing \/ \A v \in Udids : current'[v] # c,
         current' \in [Udids -> Conns \cup {None}],
         \A v \in Udids : current'[v] = current[v] \/ current'[v] = None,
         exit' = exit, awaited' = awaited
  PROVE  IInv'
<1>1. /\ QueuePart'
      /\ sess'[c].closing = s.closing
      /\ \A d \in Conns \ {c} : sess'[d].closing = sess[d].closing
      /\ \A d \in Conns : sess'[d].start = "none" <=> sess[d].start = "none"
  BY ReleaseLemma
<1>2. conn[c].handler \notin {"idle", "closePrev", "rejected"} /\ conn[c].ws # "none"
  BY DEF IInv, HandlerInv, Holding
<1>3. HandlerInv'
  BY <1>1, <1>2 DEF IInv, HandlerInv
<1>4. CurrentInv'
  <2> SUFFICES ASSUME NEW v \in Udids, current'[v] # None
               PROVE  /\ conn'[current'[v]].handler \notin {"idle", "closePrev", "rejected"}
                      /\ conn'[current'[v]].udid = v
                      /\ sess'[current'[v]].closing = "no"
    BY DEF CurrentInv
  <2>1. current'[v] = current[v] /\ current[v] \in Conns
    BY DEF IInv, TypeOK
  <2>2. /\ conn[current[v]].handler \notin {"idle", "closePrev", "rejected"}
        /\ conn[current[v]].udid = v /\ sess[current[v]].closing = "no"
    BY <2>1 DEF IInv, CurrentInv
  <2>3. sess'[current[v]].closing = sess[current[v]].closing
    BY <1>1, <2>1
  <2>. QED
    BY <2>1, <2>2, <2>3
<1>. QED
  BY <1>1, <1>3, <1>4 DEF IInv, TypeOK, QueuePart

LEMMA VideoReadyStep ==
  ASSUME IInv, NEW c \in Conns, VideoReady(c)
  PROVE  IInv'
<1> DEFINE s == [sess[c] EXCEPT !.start = "live"]
<1>1. sess[c] \in Session /\ Local(sess[c]) /\ sess[c].start = "video"
  BY DEF VideoReady, IInv, TypeOK, Local
<1>2. /\ s \in Session /\ Local(s) /\ s.closing = sess[c].closing
      /\ s.start \notin Holding \cup {"queued", "none"} /\ sess[c].start \in Holding
  BY <1>1 DEF Session, Starts, Holding, Local, JarInv, HoldInv
<1>3. Release([sess EXCEPT ![c] = s])
  <2>1. [sess EXCEPT ![c] = s] = [sess EXCEPT ![c].start = "live"]
    BY DEF IInv, TypeOK
  <2>. QED
    BY <2>1 DEF VideoReady
<1>4. /\ conn' \in [Conns -> Connection] /\ conn'[c].udid = conn[c].udid
      /\ conn'[c].handler = "running" /\ conn'[c].ws = conn[c].ws
      /\ \A d \in Conns \ {c} : conn'[d] = conn[d]
  <2>1. conn' = [conn EXCEPT ![c].handler = "running"]
    BY DEF VideoReady
  <2>. QED
    BY <2>1 DEF IInv, TypeOK, Connection, Handlers
<1>5. current' = current /\ exit' = exit /\ awaited' = awaited
  BY DEF VideoReady
<1>6. current' \in [Udids -> Conns \cup {None}]
  BY <1>5 DEF IInv, TypeOK
<1> HIDE DEF s
<1>. QED
  BY <1>2, <1>3, <1>4, <1>5, <1>6, EndStep

LEMMA StartRejectedStep ==
  ASSUME IInv, NEW c \in Conns, StartRejected(c)
  PROVE  IInv'
<1> DEFINE u == conn[c].udid
           f == [sess[c] EXCEPT !.start = "failed"]
           s == Closing(f)
<1>1. sess[c] \in Session /\ Local(sess[c]) /\ sess[c].start = "failing"
  BY DEF StartRejected, IInv, TypeOK, Local
<1>2. f \in Session /\ Local(f) /\ f.start = "failed"
  BY <1>1 DEF Session, Starts, Local, JarInv, HoldInv
<1>3. /\ s \in Session /\ Local(s) /\ s.start = "failed"
      /\ s.start \notin Holding \cup {"queued", "none"} /\ sess[c].start \in Holding
  BY <1>1, <1>2, ClosingLemma DEF Holding
<1>4. Release([sess EXCEPT ![c] = s])
  BY DEF StartRejected
<1>5. conn[c].handler \notin {"idle", "closePrev", "rejected"} /\ u \in Udids
  BY <1>1 DEF IInv, HandlerInv
<1>6. /\ conn' \in [Conns -> Connection] /\ conn'[c].udid = u
      /\ conn'[c].handler \in {"unwinding", "failed"}
      /\ conn'[c].ws \in {conn[c].ws, "closed"}
      /\ \A d \in Conns \ {c} : conn'[d] = conn[d]
  <2>1. CASE Closed(sess[c])
    <3>1. conn' = [conn EXCEPT ![c].handler = "failed", ![c].ws = "closed"]
      BY <2>1 DEF StartRejected
    <3>. QED
      BY <3>1 DEF IInv, TypeOK, Connection, Handlers
  <2>2. CASE ~Closed(sess[c])
    <3>1. conn' = [conn EXCEPT ![c].handler = "unwinding"]
      BY <2>2 DEF StartRejected
    <3>. QED
      BY <3>1 DEF IInv, TypeOK, Connection, Handlers
  <2>. QED
    BY <2>1, <2>2
<1>7. /\ current' \in [Udids -> Conns \cup {None}]
      /\ \A v \in Udids :
           current'[v] = IF v = u /\ current[u] = c THEN None ELSE current[v]
  BY <1>5 DEF StartRejected, IInv, TypeOK
<1>8. \A v \in Udids : current'[v] # c
  <2>1. \A v \in Udids : current[v] = c => v = u
    BY ConstantsAssumption DEF IInv, CurrentInv
  <2>. QED
    BY <1>7, <2>1, ConstantsAssumption
<1>9. exit' = exit /\ awaited' = awaited
  BY DEF StartRejected
<1> HIDE DEF f, s
<1>. QED
  BY <1>3, <1>4, <1>6, <1>7, <1>8, <1>9, EndStep

LEMMA UnwoundStep ==
  ASSUME IInv, NEW c \in Conns, Unwound(c)
  PROVE  IInv'
<1>1. conn' = [conn EXCEPT ![c].handler = "failed", ![c].ws = "closed"]
  BY DEF Unwound
<1>2. /\ conn' \in [Conns -> Connection] /\ conn'[c].udid = conn[c].udid
      /\ conn'[c].handler = "failed" /\ conn'[c].ws = "closed"
      /\ \A d \in Conns \ {c} : conn'[d] = conn[d]
  BY <1>1 DEF IInv, TypeOK, Connection, Handlers
<1>3. QueuePart'
  BY Parts DEF Unwound, QueuePart
<1>4. HandlerInv'
  BY <1>2 DEF Unwound, IInv, HandlerInv
<1>5. CurrentInv'
  <2>1. sess' = sess /\ current' = current
    BY DEF Unwound
  <2>2. \A v \in Udids : current[v] # None => current[v] \in Conns
    BY DEF IInv, TypeOK
  <2>. QED
    BY <1>2, <2>1, <2>2 DEF IInv, CurrentInv
<1>. QED
  BY <1>2, <1>3, <1>4, <1>5 DEF Unwound, IInv, TypeOK, QueuePart

LEMMA ShutdownStep ==
  ASSUME IInv, Shutdown
  PROVE  IInv'
<1>1. Registered \in SUBSET Conns
  BY DEF Registered
<1>2. QueuePart' /\ \A c \in Conns : sess'[c].start = sess[c].start
  BY <1>1, CloseSome DEF Shutdown
<1>3. \A c \in Conns : sess'[c] = sess[c] \/ c \in Registered
  BY DEF Shutdown
<1>4. \A c \in Registered : conn[c].handler \notin {"idle", "closePrev", "rejected"}
  BY ConstantsAssumption DEF Registered, IInv, CurrentInv
<1>5. HandlerInv'
  BY <1>2, <1>3, <1>4 DEF Shutdown, IInv, HandlerInv
<1>6. CurrentInv' /\ current' \in [Udids -> Conns \cup {None}]
  BY DEF Shutdown, CurrentInv
<1>. QED
  BY <1>1, <1>2, <1>5, <1>6 DEF Shutdown, IInv, TypeOK, QueuePart

LEMMA ExitStep ==
  ASSUME IInv, Exit \/ UNCHANGED vars
  PROVE  IInv'
<1>1. /\ conn' = conn /\ sess' = sess /\ current' = current /\ queue' = queue
      /\ active' = active /\ awaited' = awaited /\ exit' \in {exit, "done"}
  BY DEF Exit, vars
<1>. QED
  BY <1>1 DEF IInv, TypeOK, HandlerInv, CurrentInv

-----------------------------------------------------------------------------
(* Theorems.                                                               *)

LEMMA InitIInv == Init => IInv
<1> SUFFICES ASSUME Init PROVE IInv
  OBVIOUS
<1>1. \A c \in Conns : sess[c] = NewSession
  BY DEF Init
<1>2. NewSession \in Session /\ Local(NewSession) /\ NewSession.start = "none"
  BY DEF NewSession, Session, Starts, Closings, Local, JarInv, HoldInv
<1>3. TypeOK
  BY <1>2 DEF Init, TypeOK, Connection, Handlers
<1>4. HoldingIn(sess) = {}
  BY <1>1, <1>2 DEF HoldingIn, Holding
<1>5. QueueInv(queue, active, sess)
  <2>1. queue = <<>> /\ active = 0 /\ Len(queue) = 0 /\ active <= MaxStarts
    BY ConstantsAssumption DEF Init
  <2>2. Cardinality(HoldingIn(sess)) = 0
    BY <1>4, FS_EmptySet
  <2>. QED
    BY <2>1, <2>2 DEF QueueInv
<1>6. HandlerInv /\ CurrentInv
  BY DEF Init, NewSession, HandlerInv, CurrentInv
<1>. QED
  BY <1>1, <1>2, <1>3, <1>5, <1>6 DEF Init, IInv, Local

\* Every step of every actor keeps the invariant.
LEMMA NextIInv == IInv /\ [Next]_vars => IInv'
<1> SUFFICES ASSUME IInv, [Next]_vars PROVE IInv'
  OBVIOUS
<1>1. ASSUME NEW c \in Conns, Environment(c)
      PROVE  IInv'
  BY <1>1, RejectStep, ArriveStep, ReplaceStep, WsClosesStep, StartLemma DEF Environment
<1>2. ASSUME NEW c \in Conns, StartStep(c)
      PROVE  IInv'
  BY <1>2, StartLemma, VideoReadyStep, StartRejectedStep DEF StartStep
<1>3. ASSUME NEW c \in Conns, CloseStep(c)
      PROVE  IInv'
  BY <1>3, CloseLemma
<1>4. ASSUME NEW c \in Conns, HandlerStep(c)
      PROVE  IInv'
  BY <1>4, PrevClosedStep, UnwoundStep DEF HandlerStep
<1>5. CASE Shutdown
  BY <1>5, ShutdownStep
<1>6. CASE Exit \/ UNCHANGED vars
  BY <1>6, ExitStep
<1>. QED
  BY <1>1, <1>2, <1>3, <1>4, <1>5, <1>6 DEF Next, Terminated

\* The invariant holds in every behaviour of the sidecar.
THEOREM Inductive == Spec => []IInv
BY InitIInv, NextIInv, PTL DEF Spec

\* The state of the manager and of its sessions keeps its shape.
THEOREM TypeCorrect == Spec => []TypeOK
<1>1. IInv => TypeOK
  BY DEF IInv
<1>. QED
  BY <1>1, Inductive, PTL

\* No path through a failed, cancelled or closed start loses a slot, gives one
\* back twice, or leaves a job waiting beside a free one (sessionManager.ts:83).
THEOREM SlotsAreExact == Spec => []SlotsExact
<1>1. IInv => SlotsExact
  BY DEF IInv, QueueInv, HoldingIn, SlotsExact
<1>. QED
  BY <1>1, Inductive, PTL

\* The session registered for a device is that device's and is not being closed
\* (sessionManager.ts:51).
THEOREM CurrentSessionIsOpen == Spec => []CurrentIsOpen
<1>1. IInv => CurrentIsOpen
  BY DEF IInv, CurrentInv, CurrentIsOpen, Closed
<1>. QED
  BY <1>1, Inductive, PTL

\* However close() and start() of a session interleave, the JAR is left on the
\* device only by an ADB call that failed (scrcpySession.ts:608).
THEOREM NoJarIsLeftBehind == Spec => []NoJarLeftBehind
<1>1. IInv => NoJarLeftBehind
  BY DEF IInv, TypeOK, Session, JarInv, NoJarLeftBehind
<1>. QED
  BY <1>1, Inductive, PTL

\* A session that ran and was closed holds no client and no transport
\* (scrcpySession.ts:601).
THEOREM ClosedSessionHoldsNothing == Spec => []ClosedHoldsNothing
<1>1. IInv => ClosedHoldsNothing
  BY DEF IInv, HoldInv, ClosedHoldsNothing
<1>. QED
  BY <1>1, Inductive, PTL

-----------------------------------------------------------------------------
(* Who closes a session.                                                   *)

\* A step of start(), of close() or of a handler that keeps the map leaves open
\* every session that is open.
LEMMA StartKeepsOpen ==
  ASSUME IInv, NEW c \in Conns,
         \/ Connected(c) \/ ConnectFails(c) \/ Pushed(c) \/ PushFails(c) \/ Spawned(c)
         \/ SpawnFails(c) \/ VideoFails(c) \/ StartRmDone(c) \/ ReaderEnds(c)
  PROVE  /\ \A d \in Conns : sess'[d].closing = sess[d].closing
         /\ current' = current
<1>1. ASSUME NEW s, s \in Session PROVE Fail(s).closing = s.closing
  BY <1>1 DEF Fail, Session
<1>2. sess \in [Conns -> Session]
  BY DEF IInv, TypeOK
<1>3. PICK s \in Session : s.closing = sess[c].closing /\ (Becomes(c, s) \/ Becomes(c, Fail(s)))
  <2> DEFINE old == sess[c]
             spawned == [old EXCEPT !.client = "open", !.path = FALSE,
                                    !.jar = IF @ = "ours" THEN "scrcpy" ELSE @]
  <2>1. old \in Session
    BY <1>2
  <2>2. CASE ConnectFails(c) \/ SpawnFails(c) \/ VideoFails(c)
    BY <2>1, <2>2 DEF ConnectFails, SpawnFails, VideoFails
  <2>3. CASE Connected(c)
    <3>1. /\ [old EXCEPT !.transport = "open"] \in Session
          /\ [[old EXCEPT !.transport = "open"] EXCEPT !.path = TRUE, !.start = "pushing"]
               \in Session
      BY <2>1 DEF Session, Starts
    <3>. QED
      BY <2>1, <2>3, <3>1 DEF Connected, Session
  <2>4. CASE Pushed(c)
    <3>1. /\ [old EXCEPT !.jar = "ours"] \in Session
          /\ [[old EXCEPT !.jar = "ours"] EXCEPT !.start = "spawning"] \in Session
      BY <2>1 DEF Session, Starts
    <3>. QED
      BY <2>1, <2>4, <3>1 DEF Pushed, Session
  <2>5. CASE PushFails(c)
    <3>1. PICK j \in {"none", "ours"}, late \in BOOLEAN :
            Becomes(c, Fail([old EXCEPT !.jar = j, !.lost = @ \/ late]))
      BY <2>5 DEF PushFails
    <3>2. [old EXCEPT !.jar = j, !.lost = @ \/ late] \in Session
      BY <2>1 DEF Session
    <3>. QED
      BY <2>1, <3>1, <3>2 DEF Session
  <2>6. CASE Spawned(c)
    <3>1. spawned \in Session /\ [spawned EXCEPT !.start = "video"] \in Session
      BY <2>1 DEF Session, Starts
    <3>. QED
      BY <2>1, <2>6, <3>1 DEF Spawned, Session
  <2>7. CASE StartRmDone(c)
    <3>1. PICK ok \in BOOLEAN :
            Becomes(c, [old EXCEPT !.start = "failing", !.lost = @ \/ ~ok,
                                   !.jar = IF ok THEN "none" ELSE @])
      BY <2>7 DEF StartRmDone
    <3>2. [old EXCEPT !.start = "failing", !.lost = @ \/ ~ok,
                      !.jar = IF ok THEN "none" ELSE @] \in Session
      BY <2>1 DEF Session, Starts
    <3>. QED
      BY <2>1, <3>1, <3>2 DEF Session
  <2>8. CASE ReaderEnds(c)
    <3>1. [old EXCEPT !.start = "ended"] \in Session
      BY <2>1 DEF Session, Starts
    <3>. QED
      BY <2>1, <2>8, <3>1 DEF ReaderEnds, Session
  <2>. QED
    BY <2>2, <2>3, <2>4, <2>5, <2>6, <2>7, <2>8
<1>. QED
  BY <1>1, <1>2, <1>3 DEF Becomes

LEMMA NextOwner == IInv /\ [Next]_vars => [OwnerCloses]_vars
<1> SUFFICES ASSUME IInv, Next PROVE OwnerCloses \/ UNCHANGED vars
  OBVIOUS
<1>1. ASSUME \A c \in Conns : sess'[c].closing = sess[c].closing,
             \A u \in Udids : current'[u] = None => current[u] = None
      PROVE  OwnerCloses
  BY <1>1 DEF OwnerCloses, Closed
<1>2. ASSUME NEW c \in Conns, Environment(c)
      PROVE  OwnerCloses
  <2>1. CASE ReaderEnds(c)
    BY <1>1, <2>1, StartKeepsOpen
  <2>2. CASE WsCloses(c)
    <3> DEFINE u == conn[c].udid
               owner == conn[c].handler = "running" /\ current[u] = c
    <3>1. conn[c].ws = "open" /\ conn'[c].ws = "closed"
      BY <2>2 DEF WsCloses, IInv, TypeOK, Connection
    <3>2. CASE owner
      <4>1. sess' = [sess EXCEPT ![c] = Closing(@)] /\ current' = [current EXCEPT ![u] = None]
        BY <2>2, <3>2 DEF WsCloses
      <4>2. Closed(sess'[c]) /\ \A d \in Conns \ {c} : sess'[d] = sess[d]
        BY <4>1, ClosingLemma DEF IInv, TypeOK, Closed
      <4>3. \A v \in Udids : current'[v] = None /\ current[v] # None => current[v] = c
        BY <3>2, <4>1 DEF IInv, TypeOK
      <4>. QED
        BY <3>1, <4>2, <4>3 DEF OwnerCloses
    <3>3. CASE ~owner
      BY <1>1, <2>2, <3>3 DEF WsCloses
    <3>. QED
      BY <3>2, <3>3
  <2>3. ASSUME NEW u \in Udids, Reject(c, u)
        PROVE  OwnerCloses
    BY <1>1, <2>3 DEF Reject
  <2>4. ASSUME NEW u \in Udids, Arrive(c, u)
        PROVE  OwnerCloses
    <3>1. sess[c].start = "none" /\ sess[c].closing = "no"
      BY <2>4 DEF Arrive, IInv, HandlerInv
    <3>2. /\ \A d \in Conns : sess'[d].closing = sess[d].closing
          /\ current' = [current EXCEPT ![u] = c]
      BY <2>4, <3>1, RegisterLemma DEF Arrive
    <3>. QED
      BY <1>1, <3>2, ConstantsAssumption DEF IInv, TypeOK
  <2>5. ASSUME NEW u \in Udids, Replace(c, u)
        PROVE  OwnerCloses
    <3> DEFINE p == current[u]
    <3>1. p \in Conns /\ conn[p].udid = u
      BY <2>5 DEF Replace, IInv, TypeOK, CurrentInv
    <3>2. sess' = [sess EXCEPT ![p] = Closing(@)] /\ current' = [current EXCEPT ![u] = None]
      BY <2>5 DEF Replace
    <3>3. Closed(sess'[p]) /\ \A d \in Conns \ {p} : sess'[d] = sess[d]
      BY <3>1, <3>2, ClosingLemma DEF IInv, TypeOK, Closed
    <3>4. \A v \in Udids : current'[v] = None /\ current[v] # None => current[v] = p
      BY <3>2 DEF IInv, TypeOK
    <3>5. conn[c].ws = "none" /\ conn'[c].prev = p /\ conn'[c].udid = u
      <4>1. conn' = [conn EXCEPT ![c].ws = "open", ![c].handler = "closePrev",
                                 ![c].udid = u, ![c].prev = p]
        BY <2>5 DEF Replace
      <4>. QED
        BY <2>5, <4>1 DEF Replace, IInv, TypeOK, Connection
    <3>. QED
      BY <3>1, <3>3, <3>4, <3>5 DEF OwnerCloses
  <2>. QED
    BY <1>2, <2>1, <2>2, <2>3, <2>4, <2>5 DEF Environment
<1>3. ASSUME NEW c \in Conns, StartStep(c)
      PROVE  OwnerCloses
  <2>1. CASE VideoReady(c)
    <3> DEFINE s == [sess[c] EXCEPT !.start = "live"]
    <3>1. sess[c] \in Session /\ Local(sess[c]) /\ sess[c].start = "video"
      BY <2>1 DEF VideoReady, IInv, TypeOK, Local
    <3>2. /\ s \in Session /\ Local(s) /\ s.closing = sess[c].closing
          /\ s.start \notin Holding \cup {"queued", "none"} /\ sess[c].start \in Holding
      BY <3>1 DEF Session, Starts, Holding, Local, JarInv, HoldInv
    <3>3. Release([sess EXCEPT ![c] = s]) /\ current' = current
      BY <2>1 DEF VideoReady
    <3> HIDE DEF s
    <3>4. \A d \in Conns : sess'[d].closing = sess[d].closing
      BY <3>2, <3>3, ReleaseLemma
    <3>. QED
      BY <1>1, <3>3, <3>4
  <2>2. CASE StartRejected(c)
    <3> DEFINE u == conn[c].udid
               f == [sess[c] EXCEPT !.start = "failed"]
               s == Closing(f)
    <3>1. sess[c] \in Session /\ Local(sess[c]) /\ sess[c].start = "failing"
      BY <2>2 DEF StartRejected, IInv, TypeOK, Local
    <3>2. f \in Session /\ Local(f) /\ f.start = "failed"
      BY <3>1 DEF Session, Starts, Local, JarInv, HoldInv
    <3>3. /\ s \in Session /\ Local(s) /\ s.closing # "no"
          /\ s.start \notin Holding \cup {"queued", "none"} /\ sess[c].start \in Holding
      BY <3>1, <3>2, ClosingLemma DEF Holding
    <3>4. Release([sess EXCEPT ![c] = s])
      BY <2>2 DEF StartRejected
    <3>5. conn[c].handler # "idle" /\ u \in Udids
      BY <3>1 DEF IInv, HandlerInv
    <3>6. \A v \in Udids : current'[v] = None /\ current[v] # None => current[v] = c
      BY <2>2, <3>5 DEF StartRejected, IInv, TypeOK
    <3>7. ~Closed(sess[c]) => conn'[c].handler = "unwinding"
      <4>1. ASSUME ~Closed(sess[c]) PROVE conn' = [conn EXCEPT ![c].handler = "unwinding"]
        BY <2>2, <4>1 DEF StartRejected
      <4>. QED
        BY <4>1 DEF IInv, TypeOK, Connection
    <3> HIDE DEF f, s
    <3>8. /\ sess'[c].closing # "no"
          /\ \A d \in Conns \ {c} : sess'[d].closing = sess[d].closing
      BY <3>3, <3>4, ReleaseLemma
    <3>. QED
      BY <3>6, <3>7, <3>8 DEF OwnerCloses, Closed
  <2>. QED
    BY <1>1, <1>3, <2>1, <2>2, StartKeepsOpen DEF StartStep
<1>4. ASSUME NEW c \in Conns, CloseStep(c)
      PROVE  OwnerCloses
  <2>1. sess[c].closing # "no" /\ current' = current
    BY <1>4 DEF CloseStep, ReleaseDone, PushSettled, CloseRmDone, ClientClosed, AdbClosed, Becomes
  <2>2. \A d \in Conns \ {c} : sess'[d] = sess[d]
    BY <1>4 DEF CloseStep, ReleaseDone, PushSettled, CloseRmDone, ClientClosed, AdbClosed,
                Becomes, IInv, TypeOK
  <2>. QED
    BY <2>1, <2>2 DEF OwnerCloses, Closed
<1>5. ASSUME NEW c \in Conns, HandlerStep(c)
      PROVE  OwnerCloses
  <2>1. CASE Unwound(c)
    BY <1>1, <2>1 DEF Unwound
  <2>2. CASE PrevClosed(c)
    <3> DEFINE u == conn[c].udid
    <3>1. u \in Udids /\ sess[c].start = "none" /\ sess[c].closing = "no"
      BY <2>2 DEF PrevClosed, IInv, HandlerInv
    <3>2. /\ \A d \in Conns : sess'[d].closing = sess[d].closing
          /\ current' = [current EXCEPT ![u] = c]
      BY <2>2, <3>1, RegisterLemma DEF PrevClosed
    <3>. QED
      BY <1>1, <3>2, ConstantsAssumption DEF IInv, TypeOK
  <2>. QED
    BY <1>5, <2>1, <2>2 DEF HandlerStep
<1>6. CASE Shutdown
  <2>1. exit # exit'
    BY <1>6 DEF Shutdown
  <2>2. \A u \in Udids : current[u] # None =>
          current[u] \in Conns /\ Closed(sess'[current[u]])
    BY <1>6, ClosingLemma DEF Shutdown, Registered, IInv, TypeOK, Closed
  <2>. QED
    BY <2>1, <2>2 DEF OwnerCloses
<1>7. CASE Exit
  BY <1>1, <1>7 DEF Exit
<1>. QED
  BY <1>2, <1>3, <1>4, <1>5, <1>6, <1>7 DEF Next, Terminated

\* Only its own socket, its own failed start, a newer connection for its device
\* or a shutdown closes a session (sessionManager.ts:59).
THEOREM OnlyOwnersClose == Spec => OnlyTheOwnerCloses
BY Inductive, NextOwner, PTL DEF Spec, OnlyTheOwnerCloses

=============================================================================
