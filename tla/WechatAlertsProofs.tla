-------------------------- MODULE WechatAlertsProofs --------------------------
(***************************************************************************)
(* Proofs about WechatAlerts: the collectors of a device, the sounds of an *)
(* event, and the alerts of a page, for any devices, profiles, capacities, *)
(* streams and collectors, and any number of posts and losses.             *)
(***************************************************************************)
EXTENDS WechatAlerts, FiniteSetTheorems, SequenceTheorems, TLAPS

-----------------------------------------------------------------------------
(* Lines about one notification, and what they say.                        *)

LinesOf(k) == [key : {k}, id : Ids \cup {0}]
EventsOf(d, k) == [udid : {d}, key : {k}, id : Ids \cup {0}]

\* The places in s of what is in A; where the last of them is v; where those from a v
\* on are v; and where all are.
Pos(s, A) == {i \in DOMAIN s : s[i] \in A}
Ends(s, A, v) == \A i \in Pos(s, A) : (\A j \in Pos(s, A) : j <= i) => s[i].id = v
Steady(s, A, v) == \A i, j \in Pos(s, A) : i <= j /\ s[i].id = v => s[j].id = v
All(s, A, v) == \A i \in Pos(s, A) : s[i].id = v

\* The events `es` that the page has still to handle and, behind them, the lines `ls`
\* that the collector has still to publish, about a notification whose id is v now.
\* The last of them says v.  Unless that is 0, whatever comes after a v is v, and all
\* of them are v once v has sounded (n # 0).  With nothing on its way the page knows:
\* v has sounded, and the id of its alert, `a`, is v.
News(es, A, ls, B, v, n, a) ==
  /\ Ends(ls, B, v) /\ (Pos(ls, B) = {} => Ends(es, A, v))
  /\ v # 0 => /\ Steady(es, A, v) /\ Steady(ls, B, v)
              /\ (\E i \in Pos(es, A) : es[i].id = v) => All(ls, B, v)
              /\ n # 0 => All(es, A, v) /\ All(ls, B, v) /\ a = v
  /\ Pos(es, A) = {} /\ Pos(ls, B) = {} => a = v /\ (v # 0 => n # 0)

-----------------------------------------------------------------------------
(* The inductive invariant.                                                *)

\* What the page has still to handle, and the collector that is not cancelled to publish.
Arriving == IF conn = None THEN <<>> ELSE stream[conn].events
Waiting(d) == IF running[d] = None THEN <<>> ELSE collector[running[d]].todo

\* The sounds of what is shown, and the id of the alert about it: that, too, if there
\* is none.
Heard(d, k) == IF shown[d][k] = 0 THEN 0 ELSE sounded[<<d, shown[d][k]>>]
AlertId(d, k) ==
  LET a == alerts[<<d, UserOf(k)>>] IN IF a # None /\ a.key = k THEN a.id ELSE shown[d][k]

\* A line about it was lost or is with a collector that is cancelled; or what is on its
\* way is the news.
NewsFit(d, k) ==
  \/ <<d, k>> \in blamed
  \/ \E c \in Slots : /\ collector[c].udid = d /\ collector[c].cancelled
                      /\ Pos(collector[c].todo, LinesOf(k)) # {}
  \/ News(Arriving, EventsOf(d, k), Waiting(d), LinesOf(k),
          shown[d][k], Heard(d, k), AlertId(d, k))

CollectorFits(r) ==
  /\ r.pc # "none" \/ r.ensure # {} => r.udid \in Udids
  /\ r.pc # "reading" => r.todo = <<>>
  /\ r.pc = "none" => ~r.cancelled
  /\ r.alive => r.pc \in {"started", "reading"}

\* The hub's map has exactly the collectors that are not cancelled.
HubFits ==
  /\ \A d \in Udids : running[d] # None =>
       LET r == collector[running[d]] IN r.pc # "none" /\ r.udid = d /\ ~r.cancelled
  /\ \A c \in Slots : collector[c].pc # "none" /\ ~collector[c].cancelled => running[collector[c].udid] = c

\* The id of a line is given, and it is not the id of another notification now.
LineFits(d, key, id) ==
  id <= posts /\ \A k \in Keys : id # 0 /\ shown[d][k] = id => key = k

IdsFit ==
  /\ \A d \in Udids : last[d] # <<>> => LineFits(d, last[d].key, last[d].id)
  /\ \A d \in Udids, k \in Keys : LineFits(d, k, shown[d][k])
  /\ \A c \in Slots : \A i \in DOMAIN collector[c].todo :
       LineFits(collector[c].udid, collector[c].todo[i].key, collector[c].todo[i].id)
  /\ \A s \in Streams : \A i \in DOMAIN stream[s].events :
       LineFits(stream[s].events[i].udid, stream[s].events[i].key, stream[s].events[i].id)
  /\ \A d \in Udids, i \in Ids : sounded[<<d, i>>] # 0 => i <= posts

\* The last line of a log is the news, unless the news was not logged.
LastFits ==
  \A d \in Udids : last[d] # <<>> =>
    last[d].id = shown[d][last[d].key] \/ <<d, last[d].key>> \in blamed

\* The ids that sounded of late are remembered, in their order.
SoundsFit ==
  /\ repeated = {}
  /\ \A i \in DOMAIN seen : sounded[seen[i]] # 0
  /\ \A e \in Udids \X Ids : sounded[e] \in 1 .. SeenCap =>
       sounded[e] <= Len(seen) /\ seen[Len(seen) - sounded[e] + 1] = e

PageFits ==
  /\ conn # None => stream[conn].state = "open"
  /\ \A d \in Udids, u \in Users : alerts[<<d, u>>] # None => UserOf(alerts[<<d, u>>].key) = u

WInv ==
  /\ TypeOK
  /\ \A c \in Slots : CollectorFits(collector[c])
  /\ HubFits /\ IdsFit /\ LastFits /\ SoundsFit /\ PageFits
  /\ \A d \in Udids, k \in Keys : NewsFit(d, k)

-----------------------------------------------------------------------------
(* Places in sequences.                                                    *)

LEMMA PosLemma ==
  ASSUME NEW T, NEW s \in Seq(T), NEW A
  PROVE  /\ Pos(s, A) \subseteq 1 .. Len(s) /\ Len(s) \in Nat /\ DOMAIN s = 1 .. Len(s)
         /\ \A i \in Pos(s, A) : i \in Nat \ {0} /\ i <= Len(s) /\ s[i] \in A
BY LenProperties DEF Pos

LEMMA EmptyPos ==
  ASSUME NEW A
  PROVE  Pos(<<>>, A) = {}
BY DEF Pos

LEMMA TailPos ==
  ASSUME NEW T, NEW s \in Seq(T), s # <<>>, NEW A
  PROVE  /\ Tail(s) \in Seq(T) /\ Head(s) = s[1] /\ 1 \in DOMAIN s
         /\ \A i \in Pos(Tail(s), A) : i + 1 \in Pos(s, A) /\ Tail(s)[i] = s[i + 1] /\ i \in Nat
         /\ \A i \in Pos(s, A) : i \in Nat /\ (i # 1 => i - 1 \in Pos(Tail(s), A))
         /\ 1 \in Pos(s, A) <=> Head(s) \in A
<1>1. /\ Tail(s) \in Seq(T) /\ Len(Tail(s)) = Len(s) - 1 /\ Len(s) \in Nat
      /\ \A i \in 1 .. Len(Tail(s)) : Tail(s)[i] = s[i + 1]
  BY HeadTailProperties, LenProperties
<1>2. DOMAIN s = 1 .. Len(s) /\ DOMAIN Tail(s) = 1 .. Len(Tail(s))
  BY <1>1, LenProperties
<1>3. Head(s) = s[1] /\ Len(s) >= 1
  BY <1>1, EmptySeq
<1>4. ASSUME NEW i \in Pos(Tail(s), A)
      PROVE  i + 1 \in Pos(s, A) /\ Tail(s)[i] = s[i + 1] /\ i \in Nat
  BY <1>1, <1>2, <1>4 DEF Pos
<1>5. ASSUME NEW i \in Pos(s, A)
      PROVE  i \in Nat /\ (i # 1 => i - 1 \in Pos(Tail(s), A))
  <2>1. i \in 1 .. Len(s) /\ s[i] \in A
    BY <1>2, <1>5 DEF Pos
  <2>2. ASSUME i # 1
        PROVE  i - 1 \in Pos(Tail(s), A)
    <3>1. i - 1 \in 1 .. Len(Tail(s)) /\ (i - 1) + 1 = i
      BY <1>1, <2>1, <2>2
    <3>2. Tail(s)[i - 1] = s[i]
      BY <1>1, <3>1
    <3> QED BY <1>2, <2>1, <3>1, <3>2 DEF Pos
  <2> QED BY <2>1, <2>2
<1>6. 1 \in Pos(s, A) <=> Head(s) \in A
  BY <1>2, <1>3 DEF Pos
<1>7. 1 \in DOMAIN s
  BY <1>1, <1>2, <1>3
<1> QED BY <1>1, <1>3, <1>4, <1>5, <1>6, <1>7

\* What is behind s in s \o t comes after all of s.
LEMMA ConcatPos ==
  ASSUME NEW T, NEW s \in Seq(T), NEW t \in Seq(T), NEW A
  PROVE  /\ s \o t \in Seq(T)
         /\ \A i \in Pos(s, A) : i \in Pos(s \o t, A) /\ (s \o t)[i] = s[i] /\ i \in Nat /\ i <= Len(s)
         /\ \A i \in Pos(t, A) : i + Len(s) \in Pos(s \o t, A) /\ i \in Nat \ {0}
         /\ \A i \in Pos(s \o t, A) :
              /\ i \in Nat
              /\ IF i <= Len(s) THEN i \in Pos(s, A) /\ (s \o t)[i] = s[i]
                 ELSE i - Len(s) \in Pos(t, A) /\ (s \o t)[i] = t[i - Len(s)]
         /\ Len(s) \in Nat
<1>1. /\ s \o t \in Seq(T) /\ Len(s \o t) = Len(s) + Len(t) /\ Len(s) \in Nat /\ Len(t) \in Nat
      /\ \A i \in 1 .. Len(s) + Len(t) : (s \o t)[i] = IF i <= Len(s) THEN s[i] ELSE t[i - Len(s)]
  BY ConcatProperties, LenProperties
<1>2. DOMAIN s = 1 .. Len(s) /\ DOMAIN t = 1 .. Len(t) /\ DOMAIN (s \o t) = 1 .. Len(s) + Len(t)
  BY <1>1, LenProperties
<1>3. ASSUME NEW i \in Pos(s, A)
      PROVE  i \in Pos(s \o t, A) /\ (s \o t)[i] = s[i] /\ i \in Nat /\ i <= Len(s)
  <2>1. i \in 1 .. Len(s) /\ s[i] \in A /\ i \in 1 .. Len(s) + Len(t)
    BY <1>1, <1>2 DEF Pos
  <2>2. (s \o t)[i] = s[i]
    BY <1>1, <2>1
  <2> QED BY <1>2, <2>1, <2>2 DEF Pos
<1>4. ASSUME NEW i \in Pos(t, A)
      PROVE  i + Len(s) \in Pos(s \o t, A) /\ i \in Nat \ {0}
  <2>1. i \in 1 .. Len(t) /\ t[i] \in A
    BY <1>2 DEF Pos
  <2>2. i + Len(s) \in 1 .. Len(s) + Len(t) /\ ~(i + Len(s) <= Len(s)) /\ (i + Len(s)) - Len(s) = i
    BY <1>1, <2>1
  <2>3. (s \o t)[i + Len(s)] = t[i]
    BY <1>1, <2>2
  <2> QED BY <1>2, <2>1, <2>2, <2>3 DEF Pos
<1>5. ASSUME NEW i \in Pos(s \o t, A)
      PROVE  /\ i \in Nat
             /\ IF i <= Len(s) THEN i \in Pos(s, A) /\ (s \o t)[i] = s[i]
                ELSE i - Len(s) \in Pos(t, A) /\ (s \o t)[i] = t[i - Len(s)]
  <2>1. i \in 1 .. Len(s) + Len(t) /\ (s \o t)[i] \in A
    BY <1>2 DEF Pos
  <2>2. CASE i <= Len(s)
    <3>1. (s \o t)[i] = s[i] /\ i \in 1 .. Len(s)
      BY <1>1, <2>1, <2>2
    <3> QED BY <1>2, <2>1, <2>2, <3>1 DEF Pos
  <2>3. CASE ~(i <= Len(s))
    <3>1. (s \o t)[i] = t[i - Len(s)] /\ i - Len(s) \in 1 .. Len(t)
      BY <1>1, <2>1, <2>3
    <3> QED BY <1>2, <2>1, <2>3, <3>1 DEF Pos
  <2> QED BY <2>2, <2>3
<1> QED BY <1>1, <1>3, <1>4, <1>5

LEMMA AppendPos ==
  ASSUME NEW T, NEW s \in Seq(T), NEW x \in T, NEW A
  PROVE  /\ Append(s, x) \in Seq(T) /\ Len(s) \in Nat
         /\ \A i \in Pos(s, A) : Append(s, x)[i] = s[i] /\ i \in Nat /\ i <= Len(s)
         /\ x \in A => Pos(Append(s, x), A) = Pos(s, A) \cup {Len(s) + 1}
         /\ x \notin A => Pos(Append(s, x), A) = Pos(s, A)
         /\ Append(s, x)[Len(s) + 1] = x
<1>1. /\ Append(s, x) \in Seq(T) /\ Len(Append(s, x)) = Len(s) + 1 /\ Len(s) \in Nat
      /\ \A i \in 1 .. Len(s) : Append(s, x)[i] = s[i]
      /\ Append(s, x)[Len(s) + 1] = x
  BY AppendProperties, LenProperties
<1>2. DOMAIN s = 1 .. Len(s) /\ DOMAIN Append(s, x) = 1 .. Len(s) + 1
  BY <1>1, LenProperties
<1> QED BY <1>1, <1>2 DEF Pos

\* What holds of a sequence holds of its tail.
LEMMA TailKeeps ==
  ASSUME NEW T, NEW s \in Seq(T), s # <<>>, NEW A, NEW v
  PROVE  /\ Ends(s, A, v) => Ends(Tail(s), A, v)
         /\ Steady(s, A, v) => Steady(Tail(s), A, v)
         /\ All(s, A, v) => All(Tail(s), A, v)
         /\ (\E i \in Pos(Tail(s), A) : Tail(s)[i].id = v) => \E i \in Pos(s, A) : s[i].id = v
         /\ Pos(Tail(s), A) = {} => \A i \in Pos(s, A) : i = 1
         /\ Pos(Tail(s), A) = {} /\ Head(s) \notin A => Pos(s, A) = {}
         /\ Head(s) \in A => /\ 1 \in Pos(s, A) /\ s[1] = Head(s)
                             /\ \A i \in Pos(s, A) : 1 <= i
<1> DEFINE t == Tail(s)
<1>1. /\ Head(s) = s[1]
      /\ \A i \in Pos(t, A) : i + 1 \in Pos(s, A) /\ t[i] = s[i + 1] /\ i \in Nat
      /\ \A i \in Pos(s, A) : i \in Nat /\ (i # 1 => i - 1 \in Pos(t, A))
      /\ 1 \in Pos(s, A) <=> Head(s) \in A
  BY TailPos
<1>2. \A i \in Pos(s, A) : i \in Nat \ {0}
  BY PosLemma
<1> HIDE DEF t
<1>3. ASSUME Ends(s, A, v), NEW i \in Pos(t, A), \A j \in Pos(t, A) : j <= i
      PROVE  t[i].id = v
  <2>1. ASSUME NEW j \in Pos(s, A)
        PROVE  j <= i + 1
    <3>1. i \in Nat /\ j \in Nat
      BY <1>1
    <3>2. CASE j # 1
      <4>1. j - 1 <= i
        BY <1>1, <1>3, <3>2
      <4> QED BY <3>1, <4>1
    <3> QED BY <3>1, <3>2
  <2> QED BY <1>1, <1>3, <2>1 DEF Ends
<1>4. ASSUME Steady(s, A, v), NEW i \in Pos(t, A), NEW j \in Pos(t, A), i <= j, t[i].id = v
      PROVE  t[j].id = v
  <2>1. i + 1 <= j + 1 /\ i + 1 \in Pos(s, A) /\ j + 1 \in Pos(s, A)
    BY <1>1, <1>4
  <2> QED BY <1>1, <1>4, <2>1 DEF Steady
<1>5. All(s, A, v) => All(t, A, v)
  BY <1>1 DEF All
<1>6. \A i \in Pos(s, A) : 1 <= i
  BY <1>2
<1>7. /\ Ends(s, A, v) => Ends(t, A, v)
      /\ Steady(s, A, v) => Steady(t, A, v)
  BY <1>3, <1>4 DEF Ends, Steady
<1>8. /\ (\E i \in Pos(t, A) : t[i].id = v) => \E i \in Pos(s, A) : s[i].id = v
      /\ Pos(t, A) = {} => \A i \in Pos(s, A) : i = 1
      /\ Pos(t, A) = {} /\ Head(s) \notin A => Pos(s, A) = {}
      /\ Head(s) \in A => 1 \in Pos(s, A) /\ s[1] = Head(s)
  BY <1>1
<1> QED BY <1>5, <1>6, <1>7, <1>8 DEF t

-----------------------------------------------------------------------------
(* News.                                                                   *)

\* It depends on the lines about the notification alone.
LEMMA SameNews ==
  ASSUME NEW es, NEW es2, NEW ls, NEW ls2, NEW A, NEW B, NEW v, NEW n, NEW a,
         News(es, A, ls, B, v, n, a),
         Pos(es2, A) = Pos(es, A), \A i \in Pos(es, A) : es2[i] = es[i],
         Pos(ls2, B) = Pos(ls, B), \A i \in Pos(ls, B) : ls2[i] = ls[i]
  PROVE  News(es2, A, ls2, B, v, n, a)
BY DEF News, Ends, Steady, All

\* A clearer alert is as good.
LEMMA ClearedNews ==
  ASSUME NEW es, NEW ls, NEW A, NEW B, NEW v, NEW n, NEW a, NEW b,
         News(es, A, ls, B, v, n, a), a = v => b = v
  PROVE  News(es, A, ls, B, v, n, b)
BY DEF News

\* More lines that say v.
LEMMA LoggedNews ==
  ASSUME NEW es \in Seq(Events), NEW ls \in Seq(Lines), NEW ms \in Seq(Lines),
         NEW A, NEW B, NEW v, NEW n, NEW a,
         News(es, A, ls, B, v, n, a), All(ms, B, v)
  PROVE  News(es, A, ls \o ms, B, v, n, a)
<1>1. /\ \A i \in Pos(ls, B) : i \in Pos(ls \o ms, B) /\ (ls \o ms)[i] = ls[i] /\ i \in Nat /\ i <= Len(ls)
      /\ \A i \in Pos(ms, B) : i + Len(ls) \in Pos(ls \o ms, B) /\ i \in Nat \ {0}
      /\ \A i \in Pos(ls \o ms, B) :
              /\ i \in Nat
              /\ IF i <= Len(ls) THEN i \in Pos(ls, B) /\ (ls \o ms)[i] = ls[i]
                 ELSE i - Len(ls) \in Pos(ms, B) /\ (ls \o ms)[i] = ms[i - Len(ls)]
      /\ Len(ls) \in Nat
  BY ConcatPos
<1>2. \A i \in Pos(ls \o ms, B) : (i \in Pos(ls, B) /\ (ls \o ms)[i] = ls[i]) \/ (ls \o ms)[i].id = v
  BY <1>1 DEF All
<1>3. Ends(ls \o ms, B, v)
  <2> SUFFICES ASSUME NEW i \in Pos(ls \o ms, B), \A j \in Pos(ls \o ms, B) : j <= i, (ls \o ms)[i].id # v
               PROVE  FALSE
    BY DEF Ends
  <2>1. i \in Pos(ls, B) /\ (ls \o ms)[i] = ls[i]
    BY <1>2
  <2>2. \A j \in Pos(ls, B) : j <= i
    BY <1>1
  <2> QED BY <2>1, <2>2 DEF News, Ends
<1>4. Pos(ls \o ms, B) = {} => Pos(ls, B) = {}
  BY <1>1
<1>5. Steady(ls, B, v) => Steady(ls \o ms, B, v)
  <2> SUFFICES ASSUME Steady(ls, B, v), NEW i \in Pos(ls \o ms, B), NEW j \in Pos(ls \o ms, B), i <= j,
                      (ls \o ms)[i].id = v, (ls \o ms)[j].id # v
               PROVE  FALSE
    BY DEF Steady
  <2>1. j \in Pos(ls, B) /\ (ls \o ms)[j] = ls[j] /\ j <= Len(ls)
    BY <1>1, <1>2
  <2>2. i <= Len(ls)
    BY <1>1, <2>1
  <2>3. i \in Pos(ls, B) /\ (ls \o ms)[i] = ls[i]
    BY <1>1, <2>2
  <2> QED BY <2>1, <2>3 DEF Steady
<1>6. All(ls, B, v) => All(ls \o ms, B, v)
  BY <1>2 DEF All
<1> QED BY <1>3, <1>4, <1>5, <1>6 DEF News

\* Lines that say what is new: nothing on its way has said it, and nothing has sounded.
LEMMA FirstNews ==
  ASSUME NEW es \in Seq(Events), NEW ls \in Seq(Lines), NEW ms \in Seq(Lines),
         NEW A, NEW B, NEW v, NEW n, NEW a,
         All(ms, B, v), Pos(ms, B) # {},
         v # 0 => /\ \A i \in Pos(es, A) : es[i].id # v
                  /\ \A i \in Pos(ls, B) : ls[i].id # v
                  /\ n = 0
  PROVE  News(es, A, ls \o ms, B, v, n, a)
<1>1. /\ \A i \in Pos(ls, B) : i \in Pos(ls \o ms, B) /\ (ls \o ms)[i] = ls[i] /\ i \in Nat /\ i <= Len(ls)
      /\ \A i \in Pos(ms, B) : i + Len(ls) \in Pos(ls \o ms, B) /\ i \in Nat \ {0}
      /\ \A i \in Pos(ls \o ms, B) :
              /\ i \in Nat
              /\ IF i <= Len(ls) THEN i \in Pos(ls, B) /\ (ls \o ms)[i] = ls[i]
                 ELSE i - Len(ls) \in Pos(ms, B) /\ (ls \o ms)[i] = ms[i - Len(ls)]
      /\ Len(ls) \in Nat
  BY ConcatPos
<1>2. PICK m \in Pos(ms, B) : TRUE
  OBVIOUS
<1>3. m + Len(ls) \in Pos(ls \o ms, B) /\ m + Len(ls) > Len(ls)
  BY <1>1
<1>4. ASSUME NEW i \in Pos(ls \o ms, B), i > Len(ls)
      PROVE  (ls \o ms)[i].id = v
  <2>1. ~(i <= Len(ls))
    BY <1>1, <1>4
  <2>2. i - Len(ls) \in Pos(ms, B) /\ (ls \o ms)[i] = ms[i - Len(ls)]
    BY <1>1, <2>1
  <2> QED BY <2>2 DEF All
<1>5. Ends(ls \o ms, B, v)
  <2> SUFFICES ASSUME NEW i \in Pos(ls \o ms, B), \A j \in Pos(ls \o ms, B) : j <= i
               PROVE  (ls \o ms)[i].id = v
    BY DEF Ends
  <2>1. m + Len(ls) <= i
    BY <1>3
  <2>2. i > Len(ls)
    BY <1>1, <1>3, <2>1
  <2> QED BY <1>4, <2>2
<1>6. v # 0 => Steady(ls \o ms, B, v)
  <2> SUFFICES ASSUME v # 0, NEW i \in Pos(ls \o ms, B), NEW j \in Pos(ls \o ms, B), i <= j, (ls \o ms)[i].id = v
               PROVE  (ls \o ms)[j].id = v
    BY DEF Steady
  <2>1. ~(i <= Len(ls))
    BY <1>1
  <2>2. j > Len(ls)
    BY <1>1, <2>1
  <2> QED BY <1>4, <2>2
<1>7. v # 0 => Steady(es, A, v)
  BY DEF Steady
<1> QED BY <1>3, <1>5, <1>6, <1>7 DEF News

\* The first line is published.
LEMMA PublishedNews ==
  ASSUME NEW es \in Seq(Events), NEW ls \in Seq(Lines), NEW A, NEW B, NEW v, NEW n, NEW a,
         ls # <<>>, NEW x \in Events, x.id = Head(ls).id, x \in A <=> Head(ls) \in B,
         News(es, A, ls, B, v, n, a)
  PROVE  News(Append(es, x), A, Tail(ls), B, v, n, a)
<1> DEFINE e2 == Append(es, x)
           l2 == Tail(ls)
<1>1. /\ Len(es) \in Nat
      /\ \A i \in Pos(es, A) : e2[i] = es[i] /\ i \in Nat /\ i <= Len(es)
      /\ x \in A => Pos(e2, A) = Pos(es, A) \cup {Len(es) + 1}
      /\ x \notin A => Pos(e2, A) = Pos(es, A)
      /\ e2[Len(es) + 1] = x
  <2>1. es \in Seq(Events) /\ x \in Events
    OBVIOUS
  <2>2. Len(es) \in Nat /\ Append(es, x)[Len(es) + 1] = x
    BY <2>1, AppendPos
  <2>3. \A i \in Pos(es, A) : Append(es, x)[i] = es[i] /\ i \in Nat /\ i <= Len(es)
    BY <2>1, AppendPos
  <2>4. /\ x \in A => Pos(Append(es, x), A) = Pos(es, A) \cup {Len(es) + 1}
        /\ x \notin A => Pos(Append(es, x), A) = Pos(es, A)
    BY <2>1, AppendPos
  <2> QED BY <2>2, <2>3, <2>4
<1>2. /\ Ends(l2, B, v)
      /\ Steady(ls, B, v) => Steady(l2, B, v)
      /\ All(ls, B, v) => All(l2, B, v)
  BY TailKeeps DEF News
<1>3. /\ Pos(l2, B) = {} => \A i \in Pos(ls, B) : i = 1
      /\ Pos(l2, B) = {} /\ Head(ls) \notin B => Pos(ls, B) = {}
      /\ Head(ls) \in B => /\ 1 \in Pos(ls, B) /\ ls[1] = Head(ls)
                           /\ \A i \in Pos(ls, B) : 1 <= i
  BY TailKeeps
<1> HIDE DEF e2, l2
<1>4. ASSUME x \notin A
      PROVE  News(e2, A, l2, B, v, n, a)
  <2>1. Pos(e2, A) = Pos(es, A)
    BY <1>1, <1>4
  <2>2. Pos(l2, B) = {} => Pos(ls, B) = {}
    BY <1>3, <1>4
  <2>3. Ends(es, A, v) => Ends(e2, A, v)
    BY <1>1, <2>1 DEF Ends
  <2>4. Steady(es, A, v) => Steady(e2, A, v)
    BY <1>1, <2>1 DEF Steady
  <2>5. /\ All(es, A, v) => All(e2, A, v)
        /\ (\E i \in Pos(e2, A) : e2[i].id = v) => \E i \in Pos(es, A) : es[i].id = v
    BY <1>1, <2>1 DEF All
  <2>6. Pos(e2, A) = {} /\ Pos(l2, B) = {} => Pos(es, A) = {} /\ Pos(ls, B) = {}
    BY <2>1, <2>2
  <2> QED BY <1>2, <2>2, <2>3, <2>4, <2>5, <2>6 DEF News
<1>5. ASSUME x \in A
      PROVE  News(e2, A, l2, B, v, n, a)
  <2>1. /\ 1 \in Pos(ls, B) /\ x.id = ls[1].id /\ \A i \in Pos(ls, B) : 1 <= i
        /\ Pos(e2, A) = Pos(es, A) \cup {Len(es) + 1}
    BY <1>1, <1>3, <1>5
  <2>2. Pos(l2, B) = {} => x.id = v
    BY <1>3, <2>1 DEF News, Ends
  <2>3. ASSUME x.id = v
        PROVE  Ends(e2, A, v)
    <3> SUFFICES ASSUME NEW i \in Pos(e2, A), \A j \in Pos(e2, A) : j <= i
                 PROVE  e2[i].id = v
      BY DEF Ends
    <3>1. i = Len(es) + 1
      BY <1>1, <2>1
    <3> QED BY <1>1, <2>3, <3>1
  <2>4. ASSUME v # 0, \E i \in Pos(e2, A) : e2[i].id = v
        PROVE  All(ls, B, v)
    <3>1. PICK i \in Pos(e2, A) : e2[i].id = v
      BY <2>4
    <3>2. CASE i = Len(es) + 1
      <4>1. ls[1].id = v /\ Steady(ls, B, v)
        BY <1>1, <2>1, <2>4, <3>1, <3>2 DEF News
      <4> QED BY <2>1, <4>1 DEF Steady, All
    <3>3. CASE i # Len(es) + 1
      BY <1>1, <2>1, <2>4, <3>1, <3>3 DEF News
    <3> QED BY <3>2, <3>3
  <2>5. ASSUME v # 0, NEW i \in Pos(e2, A), NEW j \in Pos(e2, A), i <= j, e2[i].id = v
        PROVE  e2[j].id = v
    <3>1. CASE j = Len(es) + 1
      <4>1. All(ls, B, v)
        BY <2>4, <2>5
      <4> QED BY <1>1, <2>1, <3>1, <4>1 DEF All
    <3>2. CASE j # Len(es) + 1
      <4>1. j \in Pos(es, A) /\ i \in Pos(es, A)
        BY <1>1, <2>1, <2>5, <3>2
      <4> QED BY <1>1, <2>5, <4>1 DEF News, Steady
    <3> QED BY <3>1, <3>2
  <2>6. v # 0 => Steady(e2, A, v)
    BY <2>5 DEF Steady
  <2>7. All(es, A, v) /\ All(ls, B, v) => All(e2, A, v)
    BY <1>1, <2>1 DEF All
  <2>8. Pos(e2, A) # {}
    BY <2>1
  <2> QED BY <1>2, <2>2, <2>3, <2>4, <2>6, <2>7, <2>8 DEF News
<1>6. News(e2, A, l2, B, v, n, a)
  BY <1>4, <1>5
<1> QED BY <1>6 DEF e2, l2

\* The page handles the first event: v has sounded if it says so, and the alert is v then.
LEMMA HandledNews ==
  ASSUME NEW es \in Seq(Events), NEW ls, NEW A, NEW B, NEW v, NEW n, NEW m, NEW a, NEW b,
         es # <<>>, Head(es) \in A, News(es, A, ls, B, v, n, a),
         v # 0 => (m # 0 <=> n # 0 \/ Head(es).id = v),
         Head(es).id = v => b = v
  PROVE  News(Tail(es), A, ls, B, v, m, b)
<1>1. /\ Ends(es, A, v) => Ends(Tail(es), A, v)
      /\ Steady(es, A, v) => Steady(Tail(es), A, v)
      /\ All(es, A, v) => All(Tail(es), A, v)
      /\ (\E i \in Pos(Tail(es), A) : Tail(es)[i].id = v) => \E i \in Pos(es, A) : es[i].id = v
      /\ Pos(Tail(es), A) = {} => \A i \in Pos(es, A) : i = 1
      /\ 1 \in Pos(es, A) /\ es[1] = Head(es) /\ \A i \in Pos(es, A) : 1 <= i
  BY TailKeeps
<1>2. v # 0 /\ m # 0 => All(es, A, v) /\ All(ls, B, v) /\ b = v
  <2> SUFFICES ASSUME v # 0, m # 0 PROVE All(es, A, v) /\ All(ls, B, v) /\ b = v
    OBVIOUS
  <2>1. CASE n # 0
    <3>1. All(es, A, v) /\ All(ls, B, v)
      BY <2>1 DEF News
    <3>2. Head(es).id = v
      BY <1>1, <3>1 DEF All
    <3> QED BY <3>1, <3>2
  <2>2. CASE Head(es).id = v
    <3>1. Steady(es, A, v) /\ All(ls, B, v)
      BY <1>1, <2>2 DEF News
    <3>2. All(es, A, v)
      BY <1>1, <2>2, <3>1 DEF Steady, All
    <3> QED BY <2>2, <3>1, <3>2
  <2> QED BY <2>1, <2>2
<1>3. Pos(Tail(es), A) = {} /\ Pos(ls, B) = {} => Head(es).id = v
  BY <1>1 DEF News, Ends
<1> QED BY <1>1, <1>2, <1>3 DEF News

\* The first event is not about it.
LEMMA PassedNews ==
  ASSUME NEW es \in Seq(Events), NEW ls, NEW A, NEW B, NEW v, NEW n, NEW a,
         es # <<>>, Head(es) \notin A, News(es, A, ls, B, v, n, a)
  PROVE  News(Tail(es), A, ls, B, v, n, a)
<1>1. /\ Ends(es, A, v) => Ends(Tail(es), A, v)
      /\ Steady(es, A, v) => Steady(Tail(es), A, v)
      /\ All(es, A, v) => All(Tail(es), A, v)
  BY TailKeeps
<1>2. /\ \A i \in Pos(Tail(es), A) : i + 1 \in Pos(es, A) /\ Tail(es)[i] = es[i + 1]
      /\ \A i \in Pos(es, A) : i # 1 => i - 1 \in Pos(Tail(es), A)
      /\ 1 \in Pos(es, A) <=> Head(es) \in A
  BY TailPos
<1>3. Pos(Tail(es), A) = {} => Pos(es, A) = {}
  BY <1>2
<1>4. (\E i \in Pos(Tail(es), A) : Tail(es)[i].id = v) => \E i \in Pos(es, A) : es[i].id = v
  BY <1>2
<1> QED BY <1>1, <1>3, <1>4 DEF News

\* A line that is not about it is taken and offered to nobody.
LEMMA DroppedNews ==
  ASSUME NEW es, NEW ls \in Seq(Lines), NEW A, NEW B, NEW v, NEW n, NEW a,
         ls # <<>>, Head(ls) \notin B, News(es, A, ls, B, v, n, a)
  PROVE  News(es, A, Tail(ls), B, v, n, a)
<1>1. /\ Ends(ls, B, v) => Ends(Tail(ls), B, v)
      /\ Steady(ls, B, v) => Steady(Tail(ls), B, v)
      /\ All(ls, B, v) => All(Tail(ls), B, v)
      /\ Pos(Tail(ls), B) = {} => Pos(ls, B) = {}
  BY TailKeeps
<1> QED BY <1>1 DEF News

-----------------------------------------------------------------------------
(* What the invariant says of the state.                                   *)

LEMMA Bounds ==
  /\ ChanCap \in Nat \ {0} /\ SeenCap \in Nat \ {0} /\ MaxPosts \in Nat /\ MaxLosses \in Nat
  /\ None \notin Slots /\ None \notin Streams /\ Ids \subseteq Nat \ {0}
BY AlertConstants DEF Ids

LEMMA Types ==
  ASSUME TypeOK
  PROVE  /\ \A c \in Slots : collector[c] \in Collector /\ collector[c].todo \in Seq(Lines)
         /\ \A s \in Streams : stream[s] \in Stream /\ stream[s].events \in Seq(Events)
         /\ \A d \in Udids : running[d] # None => running[d] \in Slots
         /\ conn # None => conn \in Streams
         /\ Arriving \in Seq(Events)
         /\ \A d \in Udids : Waiting(d) \in Seq(Lines)
         /\ \A d \in Udids, k \in Keys : shown[d][k] \in Nat /\ shown[d][k] \in Ids \cup {0}
         /\ posts \in Nat
<1>1. \A c \in Slots : collector[c] \in Collector /\ collector[c].todo \in Seq(Lines)
  BY DEF TypeOK, Collector
<1>2. \A s \in Streams : stream[s] \in Stream /\ stream[s].events \in Seq(Events)
  BY DEF TypeOK, Stream
<1>3. /\ \A d \in Udids : running[d] # None => running[d] \in Slots
      /\ conn # None => conn \in Streams
  BY DEF TypeOK
<1>4. /\ \A d \in Udids, k \in Keys : shown[d][k] \in Nat /\ shown[d][k] \in Ids \cup {0}
      /\ posts \in Nat
  BY Bounds DEF TypeOK, Ids
<1>5. <<>> \in Seq(Events) /\ <<>> \in Seq(Lines)
  OBVIOUS
<1> QED BY <1>1, <1>2, <1>3, <1>4, <1>5 DEF Arriving, Waiting

LEMMA RecordTypes ==
  /\ \A l \in Lines : l.key \in Keys /\ l.id \in Ids \cup {0} /\ l.id \in Nat
  /\ \A e \in Events : e.udid \in Udids /\ e.key \in Keys /\ e.id \in Ids \cup {0} /\ e.id \in Nat
<1>1. \A i \in Ids \cup {0} : i \in Nat
  BY Bounds
<1>2. \A l \in Lines : l.key \in Keys /\ l.id \in Ids \cup {0}
  BY DEF Lines
<1>3. \A e \in Events : e.udid \in Udids /\ e.key \in Keys /\ e.id \in Ids \cup {0}
  BY DEF Events
<1> QED BY <1>1, <1>2, <1>3

\* A line is about its key, an event about its device and its key.
LEMMA AboutLemma ==
  ASSUME NEW d, NEW k
  PROVE  /\ \A l \in Lines : l \in LinesOf(k) <=> l.key = k
         /\ \A e \in Events : e \in EventsOf(d, k) <=> e.udid = d /\ e.key = k
BY DEF Lines, LinesOf, Events, EventsOf

\* A step of a collector from r to q that the hub's map need not know of.
Follows(r, q) ==
  /\ CollectorFits(q)
  /\ IF q.pc = "none" THEN r.pc = "none" \/ r.cancelled
     ELSE r.pc # "none" /\ q.udid = r.udid /\ q.cancelled = r.cancelled

LEMMA HubKept ==
  ASSUME WInv, running' = running, \A c \in Slots : Follows(collector[c], collector'[c])
  PROVE  (\A c \in Slots : CollectorFits(collector[c]))' /\ HubFits'
<1>1. \A d \in Udids : running[d] # None => running[d] \in Slots
  BY Types DEF WInv
<1>2. ASSUME NEW c \in Slots, collector'[c].pc # "none" /\ ~collector'[c].cancelled
      PROVE  running[collector'[c].udid] = c
  BY <1>2 DEF WInv, HubFits, Follows
<1>3. ASSUME NEW d \in Udids, running[d] # None
      PROVE  LET r == collector'[running[d]] IN r.pc # "none" /\ r.udid = d /\ ~r.cancelled
  BY <1>1, <1>3 DEF WInv, HubFits, Follows
<1>4. \A c \in Slots : CollectorFits(collector'[c])
  BY DEF Follows
<1> QED BY <1>2, <1>3, <1>4 DEF HubFits

\* What is on its way about a notification stays the same.
LEMMA NewsKept ==
  ASSUME NEW d \in Udids, NEW k \in Keys, NewsFit(d, k),
         blamed \subseteq blamed', shown'[d][k] = shown[d][k],
         sounded' = sounded, alerts' = alerts,
         Pos(Arriving', EventsOf(d, k)) = Pos(Arriving, EventsOf(d, k)),
         \A i \in Pos(Arriving, EventsOf(d, k)) : Arriving'[i] = Arriving[i],
         Pos(Waiting(d)', LinesOf(k)) = Pos(Waiting(d), LinesOf(k)),
         \A i \in Pos(Waiting(d), LinesOf(k)) : Waiting(d)'[i] = Waiting(d)[i],
         \A c \in Slots :
           collector[c].udid = d /\ collector[c].cancelled /\ Pos(collector[c].todo, LinesOf(k)) # {} =>
             \E b \in Slots : /\ collector'[b].udid = d /\ collector'[b].cancelled
                              /\ Pos(collector'[b].todo, LinesOf(k)) # {}
  PROVE  NewsFit(d, k)'
<1>1. CASE <<d, k>> \in blamed
  BY <1>1 DEF NewsFit
<1>2. CASE \E c \in Slots : /\ collector[c].udid = d /\ collector[c].cancelled
                            /\ Pos(collector[c].todo, LinesOf(k)) # {}
  BY <1>2 DEF NewsFit
<1>3. CASE News(Arriving, EventsOf(d, k), Waiting(d), LinesOf(k), shown[d][k], Heard(d, k), AlertId(d, k))
  <2>1. Heard(d, k)' = Heard(d, k) /\ AlertId(d, k)' = AlertId(d, k)
    BY DEF Heard, AlertId
  <2>2. News(Arriving', EventsOf(d, k), Waiting(d)', LinesOf(k), shown[d][k], Heard(d, k), AlertId(d, k))
    BY <1>3, SameNews
  <2>3. EventsOf(d, k)' = EventsOf(d, k) /\ LinesOf(k)' = LinesOf(k)
    BY DEF EventsOf, LinesOf
  <2> QED BY <2>1, <2>2, <2>3 DEF NewsFit
<1> QED BY <1>1, <1>2, <1>3 DEF NewsFit

\* The same, when no line moves at all.
LEMMA NewsQuiet ==
  ASSUME WInv, shown' = shown, sounded' = sounded, alerts' = alerts, blamed' = blamed,
         running' = running, Arriving' = Arriving,
         \A c \in Slots : /\ collector'[c].todo = collector[c].todo
                          /\ collector[c].todo # <<>> => /\ collector'[c].udid = collector[c].udid
                                                         /\ collector'[c].cancelled = collector[c].cancelled
  PROVE  (\A d \in Udids, k \in Keys : NewsFit(d, k))'
<1> SUFFICES ASSUME NEW d \in Udids, NEW k \in Keys
             PROVE  NewsFit(d, k)'
  OBVIOUS
<1>1. NewsFit(d, k)
  BY DEF WInv
<1>2. Waiting(d)' = Waiting(d)
  <2>1. running[d] # None => running[d] \in Slots
    BY Types DEF WInv
  <2>2. running'[d] = running[d]
    OBVIOUS
  <2> QED BY <2>1, <2>2 DEF Waiting
<1>3. ASSUME NEW c \in Slots, collector[c].udid = d, collector[c].cancelled,
             Pos(collector[c].todo, LinesOf(k)) # {}
      PROVE  /\ collector'[c].udid = d /\ collector'[c].cancelled
             /\ Pos(collector'[c].todo, LinesOf(k)) # {}
  BY <1>3, EmptyPos
<1>4. /\ Pos(Arriving', EventsOf(d, k)) = Pos(Arriving, EventsOf(d, k))
      /\ \A i \in Pos(Arriving, EventsOf(d, k)) : Arriving'[i] = Arriving[i]
      /\ Pos(Waiting(d)', LinesOf(k)) = Pos(Waiting(d), LinesOf(k))
      /\ \A i \in Pos(Waiting(d), LinesOf(k)) : Waiting(d)'[i] = Waiting(d)[i]
  BY <1>2
<1>5. blamed \subseteq blamed' /\ shown'[d][k] = shown[d][k]
  OBVIOUS
<1> QED BY <1>1, <1>3, <1>4, <1>5, NewsKept

LEMMA IdsKept ==
  ASSUME WInv, last' = last, shown' = shown, posts' = posts, sounded' = sounded,
         \A c \in Slots : \A i \in DOMAIN collector'[c].todo :
           LineFits(collector'[c].udid, collector'[c].todo[i].key, collector'[c].todo[i].id),
         \A s \in Streams : \A i \in DOMAIN stream'[s].events :
           LineFits(stream'[s].events[i].udid, stream'[s].events[i].key, stream'[s].events[i].id)
  PROVE  IdsFit'
<1>1. \A d, key, id : LineFits(d, key, id)' <=> LineFits(d, key, id)
  BY DEF LineFits
<1> QED BY <1>1 DEF WInv, IdsFit

\* A step of one collector that moves no line.
LEMMA CollectorQuiet ==
  ASSUME WInv, NEW c \in Slots, NEW r \in Collector, collector' = [collector EXCEPT ![c] = r],
         Follows(collector[c], r), r.todo = collector[c].todo,
         r.todo # <<>> => r.udid = collector[c].udid /\ r.cancelled = collector[c].cancelled,
         enabled' \subseteq Udids \X Users,
         UNCHANGED <<shown, last, posts, losses, hubVars, stream, pageVars, blamed>>
  PROVE  WInv'
<1>1. TypeOK
  BY DEF WInv
<1>2. collector' \in [Slots -> Collector] /\ \A b \in Slots : collector'[b] = IF b = c THEN r ELSE collector[b]
  BY <1>1 DEF TypeOK
<1>3. TypeOK'
  BY <1>1, <1>2 DEF TypeOK, hubVars, pageVars
<1>4. \A b \in Slots : Follows(collector[b], collector'[b])
  BY <1>2 DEF Follows, WInv, CollectorFits
<1>5. (\A b \in Slots : CollectorFits(collector[b]))' /\ HubFits'
  BY <1>4, HubKept DEF hubVars
<1>6. \A b \in Slots : /\ collector'[b].todo = collector[b].todo
                       /\ collector[b].todo # <<>> => /\ collector'[b].udid = collector[b].udid
                                                      /\ collector'[b].cancelled = collector[b].cancelled
  BY <1>2
<1>7. Arriving' = Arriving
  BY DEF Arriving, pageVars
<1>8. (\A d \in Udids, k \in Keys : NewsFit(d, k))'
  BY <1>6, <1>7, NewsQuiet DEF pageVars, hubVars
<1>9. ASSUME NEW b \in Slots, NEW i \in DOMAIN collector'[b].todo
      PROVE  LineFits(collector'[b].udid, collector'[b].todo[i].key, collector'[b].todo[i].id)
  <2>1. collector'[b].todo = collector[b].todo /\ i \in DOMAIN collector[b].todo
    BY <1>6, <1>9
  <2>2. collector[b].todo # <<>>
    BY <2>1
  <2> QED BY <1>6, <2>1, <2>2 DEF WInv, IdsFit
<1>10. IdsFit'
  BY <1>9, IdsKept DEF WInv, IdsFit, pageVars
<1>11. LastFits' /\ SoundsFit' /\ PageFits'
  BY DEF WInv, LastFits, SoundsFit, PageFits, pageVars
<1> QED BY <1>3, <1>5, <1>8, <1>10, <1>11 DEF WInv

LEMMA EndedLemma ==
  ASSUME NEW r \in Collector, r.todo = <<>>, r.cancelled, CollectorFits(r)
  PROVE  /\ Ended(r) \in Collector /\ Ended(r).todo = <<>> /\ Follows(r, Ended(r))
BY DEF Ended, NoCollector, Collector, Follows, CollectorFits

LEMMA StartLogcatStep ==
  ASSUME WInv, NEW c \in Slots, StartLogcat(c)
  PROVE  WInv'
<1>1. PICK profiles \in (SUBSET Users) \ {{}} :
        collector' = [collector EXCEPT ![c] =
          IF @.cancelled THEN Ended(@)
          ELSE [@ EXCEPT !.pc = "started", !.alive = TRUE, !.ensure = collector[c].ensure \cup profiles]]
  BY DEF StartLogcat
<1> DEFINE q == collector[c]
           r == IF q.cancelled THEN Ended(q)
                ELSE [q EXCEPT !.pc = "started", !.alive = TRUE, !.ensure = collector[c].ensure \cup profiles]
<1>2. q \in Collector /\ CollectorFits(q) /\ q.pc = "listing" /\ q.todo = <<>>
  BY Types DEF WInv, StartLogcat, CollectorFits
<1>3. collector' = [collector EXCEPT ![c] = r]
  BY <1>1
<1>4. r \in Collector /\ Follows(q, r) /\ r.todo = <<>>
  <2>1. CASE q.cancelled
    BY <1>2, <2>1, EndedLemma
  <2>2. CASE ~q.cancelled
    BY <1>2, <2>2 DEF Collector, Follows, CollectorFits
  <2> QED BY <2>1, <2>2
<1>5. enabled' \subseteq Udids \X Users
  BY DEF WInv, TypeOK, StartLogcat, phoneVars
<1> HIDE DEF r
<1> QED BY <1>2, <1>3, <1>4, <1>5, CollectorQuiet DEF StartLogcat, phoneVars

LEMMA ScanEndsStep ==
  ASSUME WInv, NEW c \in Slots, ScanEnds(c)
  PROVE  WInv'
<1> DEFINE q == collector[c]
           r == IF q.cancelled THEN Ended(q) ELSE [q EXCEPT !.pc = "listing"]
<1>1. q \in Collector /\ CollectorFits(q) /\ q.pc = "reading" /\ ~q.alive /\ q.todo = <<>>
  BY Types DEF WInv, ScanEnds
<1>2. collector' = [collector EXCEPT ![c] = r]
  BY DEF ScanEnds
<1>3. r \in Collector /\ Follows(q, r) /\ r.todo = <<>>
  <2>1. CASE q.cancelled
    BY <1>1, <2>1, EndedLemma
  <2>2. CASE ~q.cancelled
    BY <1>1, <2>2 DEF Collector, Follows, CollectorFits
  <2> QED BY <2>1, <2>2
<1>4. enabled' \subseteq Udids \X Users
  BY DEF WInv, TypeOK, ScanEnds, phoneVars
<1> HIDE DEF r
<1> QED BY <1>1, <1>2, <1>3, <1>4, CollectorQuiet DEF ScanEnds, phoneVars

\* A step that moves no line, and leaves the collectors and the sounds alone.
LEMMA PageQuiet ==
  ASSUME WInv, UNCHANGED <<shown, enabled, last, posts, running, collector, seen, sounded, repeated>>,
         TypeOK', PageFits', blamed' = blamed, alerts' = alerts, Arriving' = Arriving,
         \A s \in Streams : stream'[s].events = stream[s].events \/ stream'[s].events = <<>>
  PROVE  WInv'
<1>1. (\A d \in Udids, k \in Keys : NewsFit(d, k))'
  BY NewsQuiet
<1>2. IdsFit'
  <2>1. ASSUME NEW s \in Streams, NEW i \in DOMAIN stream'[s].events
        PROVE  LineFits(stream'[s].events[i].udid, stream'[s].events[i].key, stream'[s].events[i].id)
    <3>1. stream'[s].events = stream[s].events
      BY <2>1
    <3> QED BY <3>1 DEF WInv, IdsFit
  <2>2. \A c \in Slots : \A i \in DOMAIN collector'[c].todo :
          LineFits(collector'[c].udid, collector'[c].todo[i].key, collector'[c].todo[i].id)
    BY DEF WInv, IdsFit
  <2> QED BY <2>1, <2>2, IdsKept
<1>3. LastFits' /\ SoundsFit' /\ HubFits' /\ (\A c \in Slots : CollectorFits(collector[c]))'
  BY DEF WInv, LastFits, SoundsFit, HubFits
<1> QED BY <1>1, <1>2, <1>3 DEF WInv

LEMMA PollStep ==
  ASSUME WInv, Poll
  PROVE  WInv'
<1>1. tracker' \subseteq Udids /\ losses' \in 0 .. MaxLosses
  <2>1. PICK S \in SUBSET Udids : tracker' = S /\ IF tracker \subseteq S THEN UNCHANGED losses ELSE Lose
    BY DEF Poll
  <2>2. losses' = losses \/ (losses' = losses + 1 /\ losses < MaxLosses)
    BY <2>1 DEF Lose
  <2>3. losses \in 0 .. MaxLosses /\ MaxLosses \in Nat
    BY Bounds DEF WInv, TypeOK
  <2> QED BY <2>1, <2>2, <2>3
<1>2. TypeOK'
  BY <1>1 DEF Poll, phoneVars, pageVars, WInv, TypeOK
<1>3. PageFits' /\ Arriving' = Arriving
  BY DEF Poll, pageVars, WInv, PageFits, Arriving
<1> QED BY <1>2, <1>3, PageQuiet DEF Poll, phoneVars, pageVars

LEMMA HandlerReturnsStep ==
  ASSUME WInv, NEW s \in Streams, HandlerReturns(s)
  PROVE  WInv'
<1>1. TypeOK /\ stream[s].state = "left" /\ conn # s
  BY Bounds DEF HandlerReturns, WInv, PageFits
<1>2. NoStream \in Stream /\ NoStream.events = <<>> /\ Len(<<>>) <= ChanCap
  BY Bounds DEF NoStream, Stream
<1>3. \A t \in Streams : stream'[t] = IF t = s THEN NoStream ELSE stream[t]
  BY <1>1 DEF HandlerReturns, TypeOK
<1>4. stream' \in [Streams -> Stream]
  BY <1>1, <1>2 DEF HandlerReturns, TypeOK
<1>5. \A t \in Streams : Len(stream'[t].events) <= ChanCap
  BY <1>1, <1>2, <1>3 DEF TypeOK
<1>6. TypeOK'
  BY <1>1, <1>4, <1>5 DEF HandlerReturns, phoneVars, hubVars, pageVars, TypeOK
<1>7. conn # None => conn \in Streams
  BY <1>1, Types
<1>8. Arriving' = Arriving /\ PageFits'
  BY <1>1, <1>3, <1>7 DEF HandlerReturns, pageVars, WInv, PageFits, Arriving
<1>9. \A t \in Streams : stream'[t].events = stream[t].events \/ stream'[t].events = <<>>
  BY <1>2, <1>3
<1> QED BY <1>6, <1>8, <1>9, PageQuiet DEF HandlerReturns, phoneVars, hubVars, pageVars

LEMMA ConnectStep ==
  ASSUME WInv, Connect
  PROVE  WInv'
<1>1. PICK s \in Streams : /\ ~Known(s) /\ conn' = s
                           /\ stream' = [stream EXCEPT ![s] = [state |-> "open", allowed |-> monitored, events |-> <<>>]]
  BY DEF Connect
<1> DEFINE r == [state |-> "open", allowed |-> monitored, events |-> <<>>]
<1>2. TypeOK /\ conn = None
  BY DEF WInv, Connect
<1>3. r \in Stream /\ r.events = <<>> /\ r.state = "open" /\ Len(<<>>) <= ChanCap
  BY <1>2, Bounds DEF TypeOK, Stream
<1> HIDE DEF r
<1>4. \A t \in Streams : stream'[t] = IF t = s THEN r ELSE stream[t]
  BY <1>1, <1>2 DEF TypeOK, r
<1>5. stream' \in [Streams -> Stream]
  BY <1>1, <1>2, <1>3 DEF TypeOK, r
<1>6. \A t \in Streams : Len(stream'[t].events) <= ChanCap
  BY <1>2, <1>3, <1>4 DEF TypeOK
<1>7. TypeOK'
  BY <1>1, <1>2, <1>5, <1>6 DEF Connect, phoneVars, hubVars, TypeOK
<1>8. Arriving' = Arriving /\ PageFits'
  BY <1>1, <1>2, <1>3, <1>4, Bounds DEF Connect, WInv, PageFits, Arriving
<1>9. \A t \in Streams : stream'[t].events = stream[t].events \/ stream'[t].events = <<>>
  BY <1>3, <1>4
<1> QED BY <1>7, <1>8, <1>9, PageQuiet DEF Connect, phoneVars, hubVars

\* The page leaves its stream: what it had still to handle was lost.
LEMMA LeaveStep ==
  ASSUME WInv, Leave, UNCHANGED <<phoneVars, hubVars, collector, seen, alerts, sounded, repeated>>,
         monitored' \subseteq Udids, losses' \in 0 .. MaxLosses
  PROVE  WInv'
<1>1. TypeOK /\ conn' = None
  BY DEF WInv, Leave
<1>2. /\ stream' \in [Streams -> Stream] /\ blamed' \subseteq Udids \X Keys /\ blamed \subseteq blamed'
      /\ \A s \in Streams : /\ stream'[s].events = stream[s].events \/ stream'[s].events = <<>>
                            /\ Len(stream'[s].events) <= ChanCap
      /\ \A d \in Udids, k \in Keys : Pos(Arriving, EventsOf(d, k)) # {} => <<d, k>> \in blamed'
  <2>1. CASE conn = None
    <3>1. stream' = stream /\ blamed' = blamed /\ Arriving = <<>>
      BY <2>1 DEF Leave, Arriving
    <3> QED BY <1>1, <3>1, EmptyPos DEF TypeOK
  <2>2. CASE conn # None
    <3> DEFINE r == [stream[conn] EXCEPT !.state = "left", !.events = <<>>]
    <3>1. conn \in Streams /\ stream[conn] \in Stream /\ stream[conn].events \in Seq(Events)
      BY <1>1, <2>2, Types
    <3>2. r \in Stream /\ r.events = <<>> /\ Len(<<>>) <= ChanCap
      <4>1. <<>> \in Seq(Events) /\ Len(<<>>) <= ChanCap
        BY Bounds
      <4>2. r \in Stream /\ r.events = <<>>
        BY <3>1, <4>1 DEF Stream
      <4> QED BY <4>1, <4>2
    <3>3. stream' = [stream EXCEPT ![conn] = r]
      BY <2>2 DEF Leave
    <3> HIDE DEF r
    <3>4. stream' \in [Streams -> Stream] /\ \A s \in Streams : stream'[s] = IF s = conn THEN r ELSE stream[s]
      BY <1>1, <3>1, <3>2, <3>3 DEF TypeOK
    <3>5. \A s \in Streams : /\ stream'[s].events = stream[s].events \/ stream'[s].events = <<>>
                             /\ Len(stream'[s].events) <= ChanCap
      BY <1>1, <3>2, <3>4 DEF TypeOK
    <3>6. blamed' = blamed \cup {<<e.udid, e.key>> : e \in ToSet(Arriving)}
      BY <2>2 DEF Leave, Arriving
    <3>7. Arriving \in Seq(Events) /\ \A i \in DOMAIN Arriving : Arriving[i] \in Events
      BY <1>1, Types
    <3>8. blamed' \subseteq Udids \X Keys
      BY <1>1, <3>6, <3>7 DEF TypeOK, ToSet, Events
    <3>9. ASSUME NEW d \in Udids, NEW k \in Keys, Pos(Arriving, EventsOf(d, k)) # {}
          PROVE  <<d, k>> \in blamed'
      <4>1. PICK i \in DOMAIN Arriving : Arriving[i] \in EventsOf(d, k)
        BY <3>9 DEF Pos
      <4>2. Arriving[i].udid = d /\ Arriving[i].key = k /\ Arriving[i] \in ToSet(Arriving)
        BY <4>1 DEF EventsOf, ToSet
      <4> QED BY <3>6, <4>2
    <3> QED BY <3>4, <3>5, <3>6, <3>8, <3>9
  <2> QED BY <2>1, <2>2
<1>3. TypeOK'
  BY <1>1, <1>2 DEF TypeOK, phoneVars, hubVars
<1>4. PageFits'
  BY <1>1 DEF WInv, PageFits
<1>5. Arriving' = <<>>
  BY <1>1 DEF Arriving
<1>6. ASSUME NEW d \in Udids, NEW k \in Keys
      PROVE  NewsFit(d, k)'
  <2>1. CASE Pos(Arriving, EventsOf(d, k)) # {}
    BY <1>2, <2>1 DEF NewsFit
  <2>2. CASE Pos(Arriving, EventsOf(d, k)) = {}
    <3>1. NewsFit(d, k) /\ Waiting(d)' = Waiting(d) /\ shown' = shown
      BY DEF WInv, Waiting, phoneVars, hubVars
    <3>2. Pos(Arriving', EventsOf(d, k)) = {}
      BY <1>5, EmptyPos
    <3> QED BY <1>2, <2>2, <3>1, <3>2, NewsKept
  <2> QED BY <2>1, <2>2
<1>7. IdsFit'
  <2>1. ASSUME NEW s \in Streams, NEW i \in DOMAIN stream'[s].events
        PROVE  LineFits(stream'[s].events[i].udid, stream'[s].events[i].key, stream'[s].events[i].id)
    <3>1. stream'[s].events = stream[s].events
      BY <1>2, <2>1
    <3> QED BY <3>1 DEF WInv, IdsFit
  <2>2. \A c \in Slots : \A i \in DOMAIN collector'[c].todo :
          LineFits(collector'[c].udid, collector'[c].todo[i].key, collector'[c].todo[i].id)
    BY DEF WInv, IdsFit
  <2> QED BY <2>1, <2>2, IdsKept DEF phoneVars
<1>8. SoundsFit' /\ HubFits' /\ (\A c \in Slots : CollectorFits(collector[c]))'
  BY DEF WInv, SoundsFit, HubFits, hubVars
<1>9. LastFits'
  BY <1>2 DEF WInv, LastFits, phoneVars
<1> QED BY <1>3, <1>4, <1>6, <1>7, <1>8, <1>9 DEF WInv

LEMMA LossesLemma ==
  ASSUME TypeOK, losses' = losses \/ Lose
  PROVE  losses' \in 0 .. MaxLosses
<1>1. losses \in 0 .. MaxLosses /\ MaxLosses \in Nat
  BY Bounds DEF TypeOK
<1> QED BY <1>1 DEF Lose

LEMMA MonitorStep ==
  ASSUME WInv, Monitor
  PROVE  WInv'
<1>1. losses' \in 0 .. MaxLosses
  BY LossesLemma DEF WInv, Monitor
<1> QED BY <1>1, LeaveStep DEF Monitor

LEMMA DisconnectStep ==
  ASSUME WInv, Disconnect
  PROVE  WInv'
<1>1. losses' \in 0 .. MaxLosses
  BY LossesLemma DEF WInv, Disconnect
<1>2. monitored' \subseteq Udids
  BY DEF WInv, TypeOK, Disconnect
<1> QED BY <1>1, <1>2, LeaveStep DEF Disconnect

\* An alert goes.
LEMMA AcknowledgeStep ==
  ASSUME WInv, NEW d \in Udids, NEW u \in Users, Acknowledge(d, u)
  PROVE  WInv'
<1>1. /\ alerts' \in [Udids \X Users -> Events \cup {None}]
      /\ \A e \in Udids, w \in Users :
           alerts'[<<e, w>>] = IF <<e, w>> = <<d, u>> THEN None ELSE alerts[<<e, w>>]
  BY DEF WInv, TypeOK, Acknowledge, ClearedAll
<1>2. TypeOK'
  BY <1>1 DEF WInv, TypeOK, Acknowledge, phoneVars, hubVars
<1>3. ASSUME NEW e \in Udids, NEW k \in Keys
      PROVE  NewsFit(e, k)'
  <2>1. NewsFit(e, k)
    BY DEF WInv
  <2>2. CASE News(Arriving, EventsOf(e, k), Waiting(e), LinesOf(k), shown[e][k], Heard(e, k), AlertId(e, k))
    <3>1. UserOf(k) \in Users
      BY DEF Keys, UserOf
    <3>2. AlertId(e, k)' = AlertId(e, k) \/ AlertId(e, k)' = shown[e][k]
      BY <1>1, <3>1 DEF AlertId, Acknowledge, phoneVars
    <3>3. News(Arriving, EventsOf(e, k), Waiting(e), LinesOf(k), shown[e][k], Heard(e, k), AlertId(e, k)')
      BY <2>2, <3>2, ClearedNews
    <3>4. /\ Arriving' = Arriving /\ Waiting(e)' = Waiting(e) /\ shown' = shown /\ Heard(e, k)' = Heard(e, k)
          /\ EventsOf(e, k)' = EventsOf(e, k) /\ LinesOf(k)' = LinesOf(k)
      BY DEF Arriving, Waiting, Heard, EventsOf, LinesOf, Acknowledge, phoneVars, hubVars
    <3> QED BY <3>3, <3>4 DEF NewsFit
  <2>3. CASE <<e, k>> \in blamed
    BY <2>3 DEF NewsFit, Acknowledge
  <2>4. CASE \E c \in Slots : /\ collector[c].udid = e /\ collector[c].cancelled
                              /\ Pos(collector[c].todo, LinesOf(k)) # {}
    BY <2>4 DEF NewsFit, Acknowledge
  <2> QED BY <2>1, <2>2, <2>3, <2>4 DEF NewsFit
<1>4. PageFits'
  BY <1>1 DEF WInv, PageFits, Acknowledge
<1>5. SoundsFit' /\ HubFits' /\ (\A c \in Slots : CollectorFits(collector[c]))' /\ LastFits'
  BY DEF WInv, SoundsFit, HubFits, LastFits, Acknowledge, phoneVars, hubVars
<1>6. IdsFit'
  BY DEF WInv, IdsFit, LineFits, Acknowledge, phoneVars
<1> QED BY <1>2, <1>3, <1>4, <1>5, <1>6 DEF WInv

\* A collector attaches to the log, from its last line on.
LEMMA AttachStep ==
  ASSUME WInv, NEW c \in Slots, Attach(c)
  PROVE  WInv'
<1> DEFINE d == collector[c].udid
           ms == IF last[d] = <<>> THEN <<>> ELSE <<last[d]>>
           q == [collector[c] EXCEPT !.pc = "reading", !.todo = ms]
<1>1. TypeOK /\ collector[c] \in Collector /\ collector[c].pc = "started" /\ collector[c].todo = <<>> /\ d \in Udids
  BY Types DEF WInv, Attach, CollectorFits
<1>2. ms \in Seq(Lines) /\ \A i \in DOMAIN ms : last[d] # <<>> /\ ms[i] = last[d]
  BY <1>1 DEF TypeOK
<1> HIDE DEF ms
<1>3. /\ q \in Collector /\ q.udid = d /\ q.cancelled = collector[c].cancelled /\ q.todo = ms
      /\ q.pc = "reading" /\ q.alive = collector[c].alive /\ q.ensure = collector[c].ensure
  BY <1>1, <1>2 DEF Collector
<1> HIDE DEF q
<1>4. Follows(collector[c], q)
  BY <1>1, <1>3 DEF Follows, CollectorFits
<1>5. collector' = [collector EXCEPT ![c] = q]
  BY DEF Attach, q, ms
<1>6. collector' \in [Slots -> Collector] /\ \A b \in Slots : collector'[b] = IF b = c THEN q ELSE collector[b]
  BY <1>1, <1>3, <1>5 DEF TypeOK
<1>7. TypeOK'
  BY <1>1, <1>6 DEF TypeOK, Attach, phoneVars, hubVars, pageVars
<1>8. (\A b \in Slots : CollectorFits(collector[b]))' /\ HubFits'
  <2>1. \A b \in Slots : Follows(collector[b], collector'[b])
    BY <1>4, <1>6 DEF Follows, WInv, CollectorFits
  <2> QED BY <2>1, HubKept DEF Attach, hubVars
<1>9. IdsFit'
  <2>1. ASSUME NEW b \in Slots, NEW i \in DOMAIN collector'[b].todo
        PROVE  LineFits(collector'[b].udid, collector'[b].todo[i].key, collector'[b].todo[i].id)
    <3>1. CASE b = c
      <4>1. collector'[b].udid = d /\ last[d] # <<>> /\ collector'[b].todo[i] = last[d]
        BY <1>2, <1>3, <1>6, <2>1, <3>1
      <4> QED BY <1>1, <4>1 DEF WInv, IdsFit
    <3>2. CASE b # c
      BY <1>6, <2>1, <3>2 DEF WInv, IdsFit
    <3> QED BY <3>1, <3>2
  <2>2. \A s \in Streams : \A i \in DOMAIN stream'[s].events :
          LineFits(stream'[s].events[i].udid, stream'[s].events[i].key, stream'[s].events[i].id)
    BY DEF Attach, WInv, IdsFit
  <2> QED BY <2>1, <2>2, IdsKept DEF Attach, phoneVars, pageVars
<1>10. LastFits' /\ SoundsFit' /\ PageFits'
  BY DEF WInv, LastFits, SoundsFit, PageFits, Attach, phoneVars, pageVars
<1>11. ASSUME NEW e \in Udids, NEW k \in Keys
       PROVE  NewsFit(e, k)'
  <2>1. NewsFit(e, k) /\ Arriving' = Arriving
    BY DEF WInv, Arriving, Attach, pageVars
  <2>2. \A b \in Slots : /\ collector[b].udid = e /\ collector[b].cancelled
                         /\ Pos(collector[b].todo, LinesOf(k)) # {}
                         => /\ collector'[b].udid = e /\ collector'[b].cancelled
                            /\ Pos(collector'[b].todo, LinesOf(k)) # {}
    BY <1>1, <1>6, EmptyPos
  <2>3. CASE running[e] # c
    <3>1. Waiting(e)' = Waiting(e)
      <4>1. running[e] # None => running[e] \in Slots
        BY <1>1, Types
      <4>2. running'[e] = running[e]
        BY DEF Attach, hubVars
      <4> QED BY <1>6, <2>3, <4>1, <4>2 DEF Waiting
    <3>2. blamed \subseteq blamed' /\ shown'[e][k] = shown[e][k] /\ sounded' = sounded /\ alerts' = alerts
      BY DEF Attach, phoneVars, pageVars
    <3> QED BY <2>1, <2>2, <3>1, <3>2, NewsKept
  <2>4. CASE running[e] = c
    <3>1. c # None /\ e = d /\ Waiting(e) = <<>>
      BY <1>1, <2>4, Bounds DEF WInv, HubFits, Waiting
    <3>2. Waiting(e)' = ms
      BY <1>3, <1>6, <2>4, <3>1 DEF Waiting, Attach, hubVars
    <3>3. CASE <<e, k>> \in blamed
      BY <3>3 DEF NewsFit, Attach
    <3>4. CASE \E b \in Slots : /\ collector[b].udid = e /\ collector[b].cancelled
                                /\ Pos(collector[b].todo, LinesOf(k)) # {}
      BY <2>2, <3>4 DEF NewsFit, LinesOf
    <3>5. CASE /\ <<e, k>> \notin blamed
               /\ News(Arriving, EventsOf(e, k), Waiting(e), LinesOf(k), shown[e][k], Heard(e, k), AlertId(e, k))
      <4>1. All(ms, LinesOf(k), shown[e][k])
        <5>1. \A i \in Pos(ms, LinesOf(k)) : last[e] # <<>> /\ ms[i] = last[e] /\ last[e].key = k
          BY <1>2, <3>1 DEF Pos, LinesOf
        <5>2. last[e] # <<>> /\ last[e].key = k => last[e].id = shown[e][k]
          BY <3>5 DEF WInv, LastFits
        <5> QED BY <5>1, <5>2 DEF All
      <4>2. News(Arriving, EventsOf(e, k), <<>> \o ms, LinesOf(k), shown[e][k], Heard(e, k), AlertId(e, k))
        <5>1. Arriving \in Seq(Events) /\ <<>> \in Seq(Lines) /\ ms \in Seq(Lines)
          BY <1>1, <1>2, Types
        <5>2. News(Arriving, EventsOf(e, k), <<>>, LinesOf(k), shown[e][k], Heard(e, k), AlertId(e, k))
          BY <3>1, <3>5
        <5> QED BY <4>1, <5>1, <5>2, LoggedNews
      <4>3. <<>> \o ms = ms
        BY <1>2
      <4>4. /\ shown' = shown /\ Heard(e, k)' = Heard(e, k) /\ AlertId(e, k)' = AlertId(e, k)
            /\ EventsOf(e, k)' = EventsOf(e, k) /\ LinesOf(k)' = LinesOf(k)
        BY DEF Heard, AlertId, EventsOf, LinesOf, Attach, phoneVars, pageVars
      <4> QED BY <2>1, <3>2, <4>2, <4>3, <4>4 DEF NewsFit
    <3> QED BY <2>1, <3>3, <3>4, <3>5 DEF NewsFit
  <2> QED BY <2>3, <2>4
<1> QED BY <1>7, <1>8, <1>9, <1>10, <1>11 DEF WInv

\* The goroutine leaves some profiles, and no listener logs anything.
LEMMA LeftStep ==
  ASSUME WInv, NEW c \in Slots, collector[c].ensure # {}, NEW rest \in SUBSET collector[c].ensure,
         collector' = [collector EXCEPT
                         ![c].ensure = rest,
                         ![c].udid = IF collector[c].pc = "none" /\ rest = {} THEN None
                                     ELSE collector[c].udid],
         UNCHANGED <<phoneVars, losses, hubVars, stream, pageVars, blamed>>
  PROVE  WInv'
<1> DEFINE u == IF collector[c].pc = "none" /\ rest = {} THEN None ELSE collector[c].udid
           q == [collector[c] EXCEPT !.ensure = rest, !.udid = u]
<1>1. TypeOK /\ collector[c] \in Collector /\ CollectorFits(collector[c])
  BY Types DEF WInv
<1>2. u \in Udids \cup {None} /\ rest \in SUBSET Users
  BY <1>1 DEF Collector
<1>3. collector[c].pc # "none" \/ rest # {} => u = collector[c].udid
  OBVIOUS
<1> HIDE DEF u
<1>4. /\ q \in Collector /\ q.udid = u /\ q.cancelled = collector[c].cancelled /\ q.todo = collector[c].todo
      /\ q.pc = collector[c].pc /\ q.alive = collector[c].alive /\ q.ensure = rest
  BY <1>1, <1>2 DEF Collector
<1>5. collector' = [collector EXCEPT ![c] = q]
  BY DEF q, u
<1> HIDE DEF q
<1>6. Follows(collector[c], q)
  BY <1>1, <1>3, <1>4 DEF Follows, CollectorFits
<1>7. q.todo # <<>> => q.udid = collector[c].udid
  BY <1>1, <1>3, <1>4 DEF CollectorFits
<1>8. enabled' \subseteq Udids \X Users
  BY <1>1 DEF TypeOK, phoneVars
<1> QED BY <1>4, <1>5, <1>6, <1>7, <1>8, CollectorQuiet DEF phoneVars

-----------------------------------------------------------------------------
(* The helper's log.                                                       *)

\* The keys of lines.
LEMMA KeysOfLemma ==
  ASSUME NEW ls \in Seq(Lines)
  PROVE  /\ \A i \in DOMAIN ls : ls[i] \in Lines /\ ls[i].key \in KeysOf(ls) /\ ls[i].key \in Keys
         /\ \A k : k \in KeysOf(ls) <=> Pos(ls, LinesOf(k)) # {}
         /\ KeysOf(ls) \subseteq Keys
<1>1. \A i \in DOMAIN ls : ls[i] \in Lines /\ ls[i].key \in Keys
  <2>1. \A i \in DOMAIN ls : ls[i] \in Lines
    OBVIOUS
  <2>2. \A l \in Lines : l.key \in Keys
    BY DEF Lines
  <2> QED BY <2>1, <2>2
<1>2. \A i \in DOMAIN ls : ls[i].key \in KeysOf(ls)
  BY DEF KeysOf, ToSet
<1>3. ASSUME NEW k \in KeysOf(ls)
      PROVE  \E i \in DOMAIN ls : ls[i].key = k
  BY DEF KeysOf, ToSet
<1>4. ASSUME NEW k
      PROVE  k \in KeysOf(ls) <=> Pos(ls, LinesOf(k)) # {}
  <2>1. \A i \in DOMAIN ls : ls[i] \in LinesOf(k) <=> ls[i].key = k
    BY <1>1, AboutLemma
  <2> QED BY <1>2, <1>3, <2>1 DEF Pos
<1> QED BY <1>1, <1>2, <1>3, <1>4

\* The news of one notification when the lines `ls` are logged on d: it is as it was and
\* they say so, or it is new and they say that.
LEMMA LoggedFits ==
  ASSUME WInv, NEW d \in Udids, NEW k \in Keys, NEW ls \in Seq(Lines),
         \A c \in Slots :
           collector'[c].todo = IF c \in Readers(d) THEN collector[c].todo \o ls ELSE collector[c].todo,
         \A c \in Slots : collector[c].todo # <<>> \/ c \in Readers(d) =>
           collector'[c].udid = collector[c].udid /\ collector'[c].cancelled = collector[c].cancelled,
         Blame(d, IF Readers(d) = {} THEN KeysOf(ls) ELSE {}),
         UNCHANGED <<hubVars, stream, pageVars>>,
         shown'[d][k] \in Ids \cup {0},
         All(ls, LinesOf(k), shown'[d][k]),
         \/ shown'[d][k] = shown[d][k]
         \/ Pos(ls, LinesOf(k)) # {} /\ (shown'[d][k] # 0 => shown'[d][k] > posts)
  PROVE  NewsFit(d, k)'
<1> DEFINE v == shown'[d][k]
<1>1. /\ TypeOK /\ NewsFit(d, k) /\ Arriving \in Seq(Events) /\ Waiting(d) \in Seq(Lines)
      /\ running[d] # None => running[d] \in Slots
      /\ \A c \in Slots : collector[c].todo \in Seq(Lines) /\ CollectorFits(collector[c])
  BY Types DEF WInv
<1>2. blamed \subseteq blamed'
  BY DEF Blame
<1>3. CASE <<d, k>> \in blamed
  BY <1>2, <1>3 DEF NewsFit
<1>4. LinesOf(k)' = LinesOf(k) /\ EventsOf(d, k)' = EventsOf(d, k)
  BY DEF LinesOf, EventsOf
<1>5. ASSUME NEW c \in Slots, collector[c].udid = d, collector[c].cancelled, Pos(collector[c].todo, LinesOf(k)) # {}
      PROVE  NewsFit(d, k)'
  <2>1. collector'[c].udid = d /\ collector'[c].cancelled
    BY <1>5, EmptyPos
  <2>2. Pos(collector[c].todo \o ls, LinesOf(k)) # {}
    <3>1. collector[c].todo \in Seq(Lines)
      BY <1>1
    <3> QED BY <1>5, <3>1, ConcatPos
  <2>3. Pos(collector'[c].todo, LinesOf(k)) # {}
    BY <1>5, <2>2
  <2> QED BY <1>4, <2>1, <2>3 DEF NewsFit
<1>6. CASE News(Arriving, EventsOf(d, k), Waiting(d), LinesOf(k), shown[d][k], Heard(d, k), AlertId(d, k))
  <2>1. Arriving' = Arriving /\ (v = shown[d][k] => Heard(d, k)' = Heard(d, k) /\ AlertId(d, k)' = AlertId(d, k))
    BY DEF Arriving, pageVars, Heard, AlertId
  <2>2. CASE running[d] # None /\ running[d] \in Readers(d)
    <3>1. Waiting(d)' = Waiting(d) \o ls
      BY <1>1, <2>2 DEF Waiting, hubVars
    <3>2. CASE v = shown[d][k]
      <4>1. News(Arriving, EventsOf(d, k), Waiting(d) \o ls, LinesOf(k), v, Heard(d, k), AlertId(d, k))
        BY <1>1, <1>6, <3>2, LoggedNews
      <4> QED BY <1>4, <2>1, <3>1, <3>2, <4>1 DEF NewsFit
    <3>3. CASE v # shown[d][k]
      <4>1. v # 0 => /\ \A i \in Pos(Arriving, EventsOf(d, k)) : Arriving[i].id # v
                     /\ \A i \in Pos(Waiting(d), LinesOf(k)) : Waiting(d)[i].id # v
                     /\ Heard(d, k)' = 0
        <5> SUFFICES ASSUME v # 0
                     PROVE  /\ \A i \in Pos(Arriving, EventsOf(d, k)) : Arriving[i].id # v
                            /\ \A i \in Pos(Waiting(d), LinesOf(k)) : Waiting(d)[i].id # v
                            /\ Heard(d, k)' = 0
          OBVIOUS
        <5>1. v > posts /\ posts \in Nat /\ v \in Ids /\ v \in Nat
          BY <1>1, <3>3, Types, Bounds
        <5>2. ~(v <= posts)
          BY <5>1
        <5>3. ASSUME NEW i \in Pos(Arriving, EventsOf(d, k))
              PROVE  Arriving[i].id # v
          <6>1. conn # None /\ conn \in Streams /\ i \in DOMAIN stream[conn].events /\ Arriving[i] \in Events
            BY <1>1, Types DEF Arriving, Pos
          <6>2. Arriving[i].id <= posts
            BY <6>1 DEF WInv, IdsFit, LineFits, Arriving
          <6> QED BY <5>2, <6>2
        <5>4. ASSUME NEW i \in Pos(Waiting(d), LinesOf(k))
              PROVE  Waiting(d)[i].id # v
          <6>1. i \in DOMAIN collector[running[d]].todo /\ Waiting(d)[i] \in Lines
            BY <1>1, <2>2 DEF Waiting, Pos
          <6>2. Waiting(d)[i].id <= posts
            BY <1>1, <2>2, <6>1 DEF WInv, IdsFit, LineFits, Waiting
          <6> QED BY <5>2, <6>2
        <5>5. sounded[<<d, v>>] = 0
          BY <5>1 DEF WInv, IdsFit
        <5>6. Heard(d, k)' = 0
          BY <5>5 DEF Heard, pageVars
        <5> QED BY <5>3, <5>4, <5>6
      <4>2. Pos(ls, LinesOf(k)) # {}
        BY <3>3
      <4>3. News(Arriving, EventsOf(d, k), Waiting(d) \o ls, LinesOf(k), v, Heard(d, k)', AlertId(d, k)')
        BY <1>1, <4>1, <4>2, FirstNews
      <4> QED BY <1>4, <2>1, <3>1, <4>3 DEF NewsFit
    <3> QED BY <3>2, <3>3
  <2>3. CASE ~(running[d] # None /\ running[d] \in Readers(d))
    <3>1. Waiting(d)' = Waiting(d)
      BY <1>1, <2>3 DEF Waiting, hubVars
    <3>2. CASE Pos(ls, LinesOf(k)) = {}
      <4>1. News(Arriving, EventsOf(d, k), Waiting(d), LinesOf(k), v, Heard(d, k), AlertId(d, k)) /\ v = shown[d][k]
        BY <1>6, <3>2
      <4> QED BY <1>4, <2>1, <3>1, <4>1 DEF NewsFit
    <3>3. CASE Pos(ls, LinesOf(k)) # {} /\ Readers(d) = {}
      <4>1. <<d, k>> \in blamed'
        BY <3>3, KeysOfLemma DEF Blame
      <4> QED BY <4>1 DEF NewsFit
    <3>4. CASE Pos(ls, LinesOf(k)) # {} /\ Readers(d) # {}
      <4>1. PICK c \in Readers(d) : TRUE
        BY <3>4
      <4>2. c \in Slots /\ collector[c].udid = d /\ collector[c].pc = "reading"
        BY <4>1 DEF Readers
      <4>3. collector[c].cancelled
        BY <2>3, <4>1, <4>2, Bounds DEF WInv, HubFits
      <4>4. collector'[c].udid = d /\ collector'[c].cancelled /\ collector'[c].todo = collector[c].todo \o ls
        BY <4>1, <4>2, <4>3
      <4>5. Pos(collector[c].todo \o ls, LinesOf(k)) # {}
        <5>1. collector[c].todo \in Seq(Lines)
          BY <1>1, <4>2
        <5>2. PICK i \in Pos(ls, LinesOf(k)) : TRUE
          BY <3>4
        <5>3. i + Len(collector[c].todo) \in Pos(collector[c].todo \o ls, LinesOf(k))
          BY <5>1, ConcatPos
        <5> QED BY <5>3
      <4> QED BY <1>4, <4>2, <4>4, <4>5 DEF NewsFit
    <3> QED BY <3>2, <3>3, <3>4
  <2> QED BY <2>2, <2>3
<1> QED BY <1>1, <1>3, <1>5, <1>6 DEF NewsFit

\* The lines logged on d: who reads them, and that they are of d.
LEMMA LoggedStep ==
  ASSUME WInv, NEW d \in Udids, NEW ls \in Seq(Lines), NEW cs \in [Slots -> Collector],
         \A c \in Slots : /\ Follows(collector[c], cs[c]) /\ cs[c].todo = collector[c].todo
                          /\ cs[c].todo # <<>> \/ c \in Readers(d) =>
                               /\ cs[c].udid = collector[c].udid /\ cs[c].cancelled = collector[c].cancelled
                               /\ cs[c].pc = "reading",
         Logged(d, ls, cs),
         UNCHANGED <<hubVars, stream, pageVars, losses>>, enabled' \subseteq Udids \X Users,
         posts' \in 0 .. MaxPosts, posts <= posts',
         shown' \in [Udids -> [Keys -> 0 .. MaxPosts]],
         \A e \in Udids, k \in Keys : LineFits(e, k, shown[e][k])' /\ (e # d => shown'[e][k] = shown[e][k]),
         \A e \in Udids, k \in Keys : shown'[e][k] # 0 => shown'[e][k] = shown[e][k] \/ shown'[e][k] > posts,
         \A i \in DOMAIN ls : ls[i].id = shown'[d][ls[i].key],
         \A k \in Keys : shown'[d][k] = shown[d][k] \/ k \in KeysOf(ls)
  PROVE  WInv'
<1>1. /\ TypeOK /\ posts \in Nat /\ posts' \in Nat
      /\ \A c \in Slots : /\ collector[c] \in Collector /\ collector[c].todo \in Seq(Lines)
                          /\ CollectorFits(collector[c])
  BY Types, Bounds DEF WInv
<1> DEFINE q(c) == IF c \in Readers(d) THEN [cs[c] EXCEPT !.todo = @ \o ls] ELSE cs[c]
<1>2. ASSUME NEW c \in Slots
      PROVE  /\ collector'[c] = q(c) /\ q(c) \in Collector /\ q(c).pc = cs[c].pc /\ q(c).udid = cs[c].udid
             /\ q(c).cancelled = cs[c].cancelled /\ q(c).alive = cs[c].alive /\ q(c).ensure = cs[c].ensure
             /\ q(c).todo = IF c \in Readers(d) THEN collector[c].todo \o ls ELSE collector[c].todo
  <2>1. cs[c] \in Collector /\ cs[c].todo \in Seq(Lines) /\ cs[c].todo \o ls \in Seq(Lines)
    BY <1>1
  <2>2. collector'[c] = q(c)
    BY DEF Logged
  <2>3. cs[c].todo = collector[c].todo
    OBVIOUS
  <2>4. CASE c \in Readers(d)
    BY <2>1, <2>2, <2>3, <2>4 DEF Collector
  <2>5. CASE c \notin Readers(d)
    BY <2>1, <2>2, <2>3, <2>5
  <2> QED BY <2>4, <2>5
<1> HIDE DEF q
<1>3. collector' \in [Slots -> Collector]
  <2>1. collector' = [c \in Slots |-> q(c)]
    BY DEF Logged, q
  <2> QED BY <1>2, <2>1
<1>4. ASSUME NEW c \in Slots
      PROVE  Follows(collector[c], collector'[c])
  <2>1. /\ Follows(collector[c], cs[c]) /\ collector'[c].pc = cs[c].pc /\ collector'[c].udid = cs[c].udid
        /\ collector'[c].cancelled = cs[c].cancelled /\ collector'[c].alive = cs[c].alive
        /\ collector'[c].ensure = cs[c].ensure
    BY <1>2
  <2>2. collector'[c].pc # "reading" => collector'[c].todo = <<>>
    BY <1>2, <2>1 DEF Follows, CollectorFits
  <2> QED BY <2>1, <2>2 DEF Follows, CollectorFits
<1>5. (\A c \in Slots : CollectorFits(collector[c]))' /\ HubFits'
  BY <1>4, HubKept DEF hubVars
<1>6. ASSUME ls # <<>>
      PROVE  /\ Last(ls) \in Lines /\ \E i \in DOMAIN ls : Last(ls) = ls[i]
             /\ last' = [last EXCEPT ![d] = Last(ls)]
  <2>1. Len(ls) \in DOMAIN ls /\ Last(ls) = ls[Len(ls)]
    BY <1>6, EmptySeq, LenProperties DEF Last
  <2> QED BY <1>6, <2>1 DEF Logged
<1>7. ASSUME NEW e \in Udids
      PROVE  \/ last'[e] = last[e] /\ (e # d \/ ls = <<>>)
             \/ e = d /\ \E i \in DOMAIN ls : last'[e] = ls[i]
  <2>1. CASE ls = <<>>
    BY <2>1 DEF Logged
  <2>2. CASE ls # <<>>
    BY <1>1, <1>6, <2>2 DEF TypeOK
  <2> QED BY <2>1, <2>2
<1>8. last' \in [Udids -> Lines \cup {<<>>}]
  <2>1. CASE ls = <<>>
    BY <1>1, <2>1 DEF Logged, TypeOK
  <2>2. CASE ls # <<>>
    BY <1>1, <1>6, <2>2 DEF TypeOK
  <2> QED BY <2>1, <2>2
<1>9. blamed' \subseteq Udids \X Keys /\ blamed \subseteq blamed'
  <2>1. KeysOf(ls) \subseteq Keys
    BY KeysOfLemma
  <2> QED BY <1>1, <2>1 DEF Logged, Blame, TypeOK
<1>10. TypeOK'
  BY <1>1, <1>3, <1>8, <1>9 DEF TypeOK, hubVars, pageVars
<1>11. ASSUME NEW e \in Udids, NEW key \in Keys, NEW id \in Nat, LineFits(e, key, id)
       PROVE  LineFits(e, key, id)'
  <2>1. id <= posts /\ id <= posts'
    BY <1>1, <1>11 DEF LineFits
  <2>2. ASSUME NEW k \in Keys, id # 0, shown'[e][k] = id
        PROVE  key = k
    <3>1. ~(shown'[e][k] > posts)
      BY <1>1, <2>1, <2>2
    <3>2. shown[e][k] = id
      BY <2>2, <3>1
    <3> QED BY <1>11, <2>2, <3>2 DEF LineFits
  <2> QED BY <2>1, <2>2 DEF LineFits
<1>12. \A l \in Lines : l.key \in Keys /\ l.id \in Nat
  BY RecordTypes
<1>13. ASSUME NEW i \in DOMAIN ls
       PROVE  LineFits(d, ls[i].key, ls[i].id)'
  <2>1. ls[i] \in Lines
    OBVIOUS
  <2>2. ls[i].key \in Keys /\ ls[i].id = shown'[d][ls[i].key]
    BY <1>12, <2>1
  <2>3. LineFits(d, ls[i].key, shown[d][ls[i].key])'
    BY <2>2
  <2> QED BY <2>2, <2>3 DEF LineFits
<1>14. ASSUME NEW e \in Udids, last'[e] # <<>>
       PROVE  LineFits(e, last[e].key, last[e].id)'
  <2>1. CASE last'[e] = last[e]
    <3>1. last[e] \in Lines /\ LineFits(e, last[e].key, last[e].id)
      BY <1>1, <1>14, <2>1 DEF WInv, IdsFit, TypeOK
    <3>2. LineFits(e, last[e].key, last[e].id) => \A k \in Keys, id \in Nat : k = last[e].key /\ id = last[e].id => LineFits(e, k, id)'
      BY <1>11
    <3> QED BY <1>12, <2>1, <3>1, <3>2 DEF LineFits
  <2>2. CASE e = d /\ \E i \in DOMAIN ls : last'[e] = ls[i]
    BY <1>13, <2>2 DEF LineFits
  <2> QED BY <1>7, <2>1, <2>2
<1>15. ASSUME NEW c \in Slots, NEW i \in DOMAIN collector'[c].todo
       PROVE  LineFits(collector[c].udid, collector[c].todo[i].key, collector[c].todo[i].id)'
  <2>1. collector[c].todo \in Seq(Lines) /\ collector[c].todo # <<>> => collector[c].udid \in Udids
    BY <1>1 DEF CollectorFits
  <2>2. ASSUME i \in DOMAIN collector[c].todo, collector'[c].todo[i] = collector[c].todo[i]
        PROVE  LineFits(collector[c].udid, collector[c].todo[i].key, collector[c].todo[i].id)'
    <3>1. collector[c].todo \in Seq(Lines) /\ collector[c].todo # <<>>
      BY <1>1, <2>2
    <3>2. collector[c].udid \in Udids /\ collector'[c].udid = collector[c].udid
      BY <1>1, <1>2, <3>1 DEF CollectorFits
    <3>3. collector[c].todo[i] \in Lines
      BY <2>2, <3>1
    <3>4. LineFits(collector[c].udid, collector[c].todo[i].key, collector[c].todo[i].id)
      BY <2>2 DEF WInv, IdsFit
    <3>5. PICK u \in Udids, key \in Keys, id \in Nat :
            u = collector[c].udid /\ key = collector[c].todo[i].key /\ id = collector[c].todo[i].id
      BY <1>12, <3>2, <3>3
    <3>6. LineFits(u, key, id)'
      BY <1>11, <3>4, <3>5
    <3> QED BY <2>2, <3>2, <3>5, <3>6 DEF LineFits
  <2>3. CASE c \notin Readers(d)
    <3>1. collector'[c].todo = collector[c].todo
      BY <1>2, <2>3
    <3> QED BY <1>15, <2>2, <3>1
  <2>4. CASE c \in Readers(d)
    <3>1. collector'[c].todo = collector[c].todo \o ls /\ collector'[c].udid = d
      BY <1>2, <2>4 DEF Readers
    <3>2. collector[c].todo \in Seq(Lines)
      BY <1>1
    <3> DEFINE n == Len(collector[c].todo)
    <3>3. /\ n \in Nat /\ Len(ls) \in Nat /\ DOMAIN collector[c].todo = 1 .. n /\ DOMAIN ls = 1 .. Len(ls)
          /\ DOMAIN collector'[c].todo = 1 .. n + Len(ls)
          /\ \A j \in 1 .. n + Len(ls) :
               (collector[c].todo \o ls)[j] = IF j <= n THEN collector[c].todo[j] ELSE ls[j - n]
      BY <3>1, <3>2, ConcatProperties, LenProperties
    <3> HIDE DEF n
    <3>4. CASE i <= n
      <4>1. i \in DOMAIN collector[c].todo /\ collector'[c].todo[i] = collector[c].todo[i]
        BY <1>15, <3>1, <3>3, <3>4
      <4> QED BY <2>2, <4>1
    <3>5. CASE ~(i <= n)
      <4>1. i - n \in DOMAIN ls /\ collector'[c].todo[i] = ls[i - n]
        BY <1>15, <3>1, <3>3, <3>5
      <4> QED BY <1>13, <3>1, <4>1 DEF LineFits
    <3> QED BY <3>4, <3>5
  <2> QED BY <2>3, <2>4
<1>16. ASSUME NEW s \in Streams, NEW i \in DOMAIN stream'[s].events
       PROVE  LineFits(stream[s].events[i].udid, stream[s].events[i].key, stream[s].events[i].id)'
  <2>1. stream' = stream /\ stream[s].events \in Seq(Events) /\ i \in DOMAIN stream[s].events
    BY <1>1, Types
  <2>2. stream[s].events[i] \in Events
    BY <2>1
  <2>3. stream[s].events[i].udid \in Udids /\ stream[s].events[i].key \in Keys /\ stream[s].events[i].id \in Nat
    BY <2>2, RecordTypes
  <2>4. LineFits(stream[s].events[i].udid, stream[s].events[i].key, stream[s].events[i].id)
    BY <2>1 DEF WInv, IdsFit
  <2>5. PICK u \in Udids, key \in Keys, id \in Nat :
          u = stream[s].events[i].udid /\ key = stream[s].events[i].key /\ id = stream[s].events[i].id
    BY <2>3
  <2>6. LineFits(u, key, id)'
    BY <1>11, <2>4, <2>5
  <2> QED BY <2>1, <2>5, <2>6 DEF LineFits
<1>17. \A e \in Udids, i \in Ids : sounded'[<<e, i>>] # 0 => i <= posts'
  <2>1. \A e \in Udids, i \in Ids : sounded'[<<e, i>>] # 0 => i <= posts
    BY DEF WInv, IdsFit, pageVars
  <2>2. \A i \in Nat : i <= posts => i <= posts'
    BY <1>1
  <2>3. \A i \in Ids : i \in Nat
    BY Bounds
  <2> QED BY <2>1, <2>2, <2>3
<1>18. IdsFit'
  BY <1>14, <1>15, <1>16, <1>17 DEF IdsFit
<1>19. LastFits'
  <2> SUFFICES ASSUME NEW e \in Udids, last'[e] # <<>>
               PROVE  last'[e].id = shown'[e][last'[e].key] \/ <<e, last'[e].key>> \in blamed'
    BY DEF LastFits
  <2>1. CASE last'[e] = last[e] /\ (e # d \/ ls = <<>>)
    <3>1. last[e].key \in Keys
      BY <1>1, <1>12, <2>1 DEF TypeOK
    <3>2. KeysOf(<<>>) = {}
      BY DEF KeysOf, ToSet
    <3>3. shown'[e][last[e].key] = shown[e][last[e].key]
      BY <2>1, <3>1, <3>2
    <3> QED BY <1>9, <2>1, <3>3 DEF WInv, LastFits
  <2>2. CASE e = d /\ \E i \in DOMAIN ls : last'[e] = ls[i]
    BY <2>2
  <2> QED BY <1>7, <2>1, <2>2
<1>20. SoundsFit' /\ PageFits'
  BY DEF WInv, SoundsFit, PageFits, pageVars
<1>21. ASSUME NEW k \in Keys
       PROVE  NewsFit(d, k)'
  <2>1. \A c \in Slots :
           collector'[c].todo = IF c \in Readers(d) THEN collector[c].todo \o ls ELSE collector[c].todo
    BY <1>2
  <2>2. \A c \in Slots : collector[c].todo # <<>> \/ c \in Readers(d) =>
           collector'[c].udid = collector[c].udid /\ collector'[c].cancelled = collector[c].cancelled
    BY <1>2
  <2>3. Blame(d, IF Readers(d) = {} THEN KeysOf(ls) ELSE {})
    BY DEF Logged
  <2>4. shown'[d][k] \in Ids \cup {0}
    BY Bounds DEF Ids
  <2>5. All(ls, LinesOf(k), shown'[d][k])
    BY DEF All, Pos, LinesOf
  <2>6. \/ shown'[d][k] = shown[d][k]
        \/ Pos(ls, LinesOf(k)) # {} /\ (shown'[d][k] # 0 => shown'[d][k] > posts)
    BY KeysOfLemma
  <2> QED BY <2>1, <2>2, <2>3, <2>4, <2>5, <2>6, LoggedFits
<1>22. ASSUME NEW e \in Udids, e # d, NEW k \in Keys
       PROVE  NewsFit(e, k)'
  <2>1. NewsFit(e, k) /\ Arriving' = Arriving /\ shown'[e][k] = shown[e][k] /\ sounded' = sounded /\ alerts' = alerts
    BY <1>22 DEF WInv, Arriving, pageVars
  <2>2. \A c \in Readers(d) : collector[c].udid # e
    BY <1>22 DEF Readers
  <2>3. Waiting(e)' = Waiting(e)
    <3>1. running'[e] = running[e] /\ (running[e] # None => running[e] \in Slots /\ collector[running[e]].udid = e)
      BY <1>1, Types DEF WInv, HubFits, hubVars
    <3> QED BY <1>2, <2>2, <3>1 DEF Waiting
  <2>4. ASSUME NEW c \in Slots, collector[c].udid = e, collector[c].cancelled, Pos(collector[c].todo, LinesOf(k)) # {}
        PROVE  collector'[c].udid = e /\ collector'[c].cancelled /\ Pos(collector'[c].todo, LinesOf(k)) # {}
    <3>1. collector[c].todo # <<>> /\ c \notin Readers(d)
      BY <2>2, <2>4, EmptyPos
    <3> QED BY <1>2, <2>4, <3>1
  <2> QED BY <1>9, <2>1, <2>3, <2>4, NewsKept
<1> QED BY <1>5, <1>10, <1>18, <1>19, <1>20, <1>21, <1>22 DEF WInv

\* A notification that is posted, replaced or withdrawn: its id is new, or 0.
LEMMA ShownLemma ==
  ASSUME WInv, NEW d \in Udids, NEW k \in Keys, NEW v \in 0 .. MaxPosts,
         shown' = [shown EXCEPT ![d][k] = v], posts' \in 0 .. MaxPosts,
         (v = 0 /\ posts' = posts) \/ (v = posts + 1 /\ posts' = v)
  PROVE  /\ shown' \in [Udids -> [Keys -> 0 .. MaxPosts]]
         /\ posts <= posts'
         /\ \A e \in Udids, j \in Keys : shown'[e][j] = IF e = d /\ j = k THEN v ELSE shown[e][j]
         /\ \A e \in Udids, j \in Keys : shown'[e][j] # 0 => shown'[e][j] = shown[e][j] \/ shown'[e][j] > posts
         /\ \A e \in Udids, j \in Keys : LineFits(e, j, shown[e][j])'
<1>1. /\ shown \in [Udids -> [Keys -> 0 .. MaxPosts]] /\ posts \in Nat /\ posts' \in Nat /\ v \in Nat
      /\ MaxPosts \in Nat
  BY Bounds, Types DEF WInv, TypeOK
<1>2. shown' \in [Udids -> [Keys -> 0 .. MaxPosts]]
  BY <1>1
<1>3. posts <= posts'
  BY <1>1
<1>4. \A e \in Udids, j \in Keys : shown'[e][j] = IF e = d /\ j = k THEN v ELSE shown[e][j]
  BY <1>1
<1>5. ASSUME NEW e \in Udids, NEW j \in Keys
      PROVE  LineFits(e, j, shown[e][j])'
  <2>1. shown[e][j] \in Nat /\ shown[e][j] <= posts /\ LineFits(e, j, shown[e][j])
    BY <1>1 DEF WInv, IdsFit, LineFits
  <2>2. shown'[e][j] <= posts'
    BY <1>1, <1>3, <1>4, <2>1
  <2>3. ASSUME NEW i \in Keys, shown'[e][j] # 0, shown'[e][i] = shown'[e][j], j # i
        PROVE  FALSE
    <3>1. shown[e][i] <= posts /\ shown[e][i] \in Nat
      BY <1>1 DEF WInv, IdsFit, LineFits
    <3>2. CASE ~(e = d /\ j = k) /\ ~(e = d /\ i = k)
      BY <1>4, <2>1, <2>3, <3>2 DEF LineFits
    <3>3. CASE e = d /\ j = k
      BY <1>1, <1>4, <2>3, <3>1, <3>3
    <3>4. CASE e = d /\ i = k
      BY <1>1, <1>4, <2>1, <2>3, <3>4
    <3> QED BY <3>2, <3>3, <3>4
  <2> QED BY <2>2, <2>3 DEF LineFits
<1>6. \A e \in Udids, j \in Keys : shown'[e][j] # 0 => shown'[e][j] = shown[e][j] \/ shown'[e][j] > posts
  BY <1>1, <1>4
<1> QED BY <1>2, <1>3, <1>4, <1>5, <1>6

\* The listener of d is not enabled: nothing is logged.
LEMMA UnloggedStep ==
  ASSUME WInv, NEW d \in Udids, NEW k \in Keys, Blame(d, {k}), UNCHANGED <<collector, last>>,
         UNCHANGED <<enabled, hubVars, stream, pageVars, losses>>,
         posts' \in 0 .. MaxPosts, posts <= posts',
         shown' \in [Udids -> [Keys -> 0 .. MaxPosts]],
         \A e \in Udids, j \in Keys : LineFits(e, j, shown[e][j])',
         \A e \in Udids, j \in Keys : shown'[e][j] # 0 => shown'[e][j] = shown[e][j] \/ shown'[e][j] > posts,
         \A e \in Udids, j \in Keys : shown'[e][j] = shown[e][j] \/ (e = d /\ j = k)
  PROVE  WInv'
<1>1. TypeOK /\ posts \in Nat /\ posts' \in Nat
  BY Types, Bounds DEF WInv
<1>2. blamed' = blamed \cup {<<d, k>>}
  BY DEF Blame
<1>3. TypeOK'
  BY <1>1, <1>2 DEF TypeOK, hubVars, pageVars
<1>4. ASSUME NEW e \in Udids, NEW key \in Keys, NEW id \in Nat, LineFits(e, key, id)
      PROVE  LineFits(e, key, id)'
  <2>1. id <= posts /\ id <= posts'
    BY <1>1, <1>4 DEF LineFits
  <2>2. ASSUME NEW j \in Keys, id # 0, shown'[e][j] = id
        PROVE  key = j
    <3>1. ~(shown'[e][j] > posts)
      BY <1>1, <2>1, <2>2
    <3>2. shown[e][j] = id
      BY <2>2, <3>1
    <3> QED BY <1>4, <2>2, <3>2 DEF LineFits
  <2> QED BY <2>1, <2>2 DEF LineFits
<1>5. ASSUME NEW e \in Udids, last[e] # <<>>
      PROVE  LineFits(e, last[e].key, last[e].id)'
  <2>1. last[e] \in Lines /\ LineFits(e, last[e].key, last[e].id)
    BY <1>1, <1>5 DEF WInv, IdsFit, TypeOK
  <2>2. PICK key \in Keys, id \in Nat : key = last[e].key /\ id = last[e].id
    BY <2>1, RecordTypes
  <2>3. LineFits(e, key, id)'
    BY <1>4, <2>1, <2>2
  <2> QED BY <2>2, <2>3 DEF LineFits
<1>6. ASSUME NEW c \in Slots, NEW i \in DOMAIN collector[c].todo
      PROVE  LineFits(collector[c].udid, collector[c].todo[i].key, collector[c].todo[i].id)'
  <2>1. collector[c].todo \in Seq(Lines) /\ collector[c].todo # <<>> /\ CollectorFits(collector[c])
    BY <1>1, <1>6, Types DEF WInv
  <2>2. collector[c].udid \in Udids /\ collector[c].todo[i] \in Lines
    BY <1>6, <2>1 DEF CollectorFits
  <2>3. PICK u \in Udids, key \in Keys, id \in Nat :
          u = collector[c].udid /\ key = collector[c].todo[i].key /\ id = collector[c].todo[i].id
    BY <2>2, RecordTypes
  <2>4. LineFits(u, key, id)
    BY <1>6, <2>3 DEF WInv, IdsFit
  <2>5. LineFits(u, key, id)'
    BY <1>4, <2>4
  <2> QED BY <2>3, <2>5 DEF LineFits
<1>7. ASSUME NEW s \in Streams, NEW i \in DOMAIN stream[s].events
      PROVE  LineFits(stream[s].events[i].udid, stream[s].events[i].key, stream[s].events[i].id)'
  <2>1. stream[s].events \in Seq(Events)
    BY <1>1, Types
  <2>2. stream[s].events[i] \in Events
    BY <1>7, <2>1
  <2>3. PICK u \in Udids, key \in Keys, id \in Nat :
          u = stream[s].events[i].udid /\ key = stream[s].events[i].key /\ id = stream[s].events[i].id
    BY <2>2, RecordTypes
  <2>4. LineFits(u, key, id)
    BY <1>7, <2>3 DEF WInv, IdsFit
  <2>5. LineFits(u, key, id)'
    BY <1>4, <2>4
  <2> QED BY <2>3, <2>5 DEF LineFits
<1>8. \A e \in Udids, i \in Ids : sounded'[<<e, i>>] # 0 => i <= posts'
  <2>1. \A e \in Udids, i \in Ids : sounded'[<<e, i>>] # 0 => i <= posts
    BY DEF WInv, IdsFit, pageVars
  <2>2. \A i \in Nat : i <= posts => i <= posts'
    BY <1>1
  <2>3. \A i \in Ids : i \in Nat
    BY Bounds
  <2> QED BY <2>1, <2>2, <2>3
<1>9. IdsFit'
  BY <1>5, <1>6, <1>7, <1>8 DEF IdsFit
<1>10. LastFits'
  <2> SUFFICES ASSUME NEW e \in Udids, last[e] # <<>>
               PROVE  last[e].id = shown'[e][last[e].key] \/ <<e, last[e].key>> \in blamed'
    BY DEF LastFits
  <2>1. last[e].key \in Keys
    BY <1>1, RecordTypes DEF TypeOK
  <2>2. shown'[e][last[e].key] = shown[e][last[e].key] \/ <<e, last[e].key>> = <<d, k>>
    BY <2>1
  <2> QED BY <1>2, <2>2 DEF WInv, LastFits
<1>11. ASSUME NEW e \in Udids, NEW j \in Keys
       PROVE  NewsFit(e, j)'
  <2>1. CASE e = d /\ j = k
    BY <1>2, <2>1 DEF NewsFit
  <2>2. CASE ~(e = d /\ j = k)
    <3>1. NewsFit(e, j) /\ shown'[e][j] = shown[e][j] /\ blamed \subseteq blamed'
      BY <1>2, <2>2 DEF WInv
    <3>2. Arriving' = Arriving /\ Waiting(e)' = Waiting(e) /\ sounded' = sounded /\ alerts' = alerts
      BY DEF Arriving, Waiting, hubVars, pageVars
    <3> QED BY <3>1, <3>2, NewsKept
  <2> QED BY <2>1, <2>2
<1>12. SoundsFit' /\ PageFits' /\ HubFits' /\ (\A c \in Slots : CollectorFits(collector[c]))'
  BY DEF WInv, SoundsFit, PageFits, HubFits, hubVars, pageVars
<1> QED BY <1>3, <1>9, <1>10, <1>11, <1>12 DEF WInv

\* One line about key k of d.
LEMMA LineStep ==
  ASSUME WInv, NEW d \in Udids, NEW k \in Keys, NEW v \in Ids \cup {0},
         shown' = [shown EXCEPT ![d][k] = v], posts' \in 0 .. MaxPosts,
         (v = 0 /\ posts' = posts) \/ (v = posts + 1 /\ posts' = v),
         IF <<d, UserOf(k)>> \in enabled THEN Logged(d, <<[key |-> k, id |-> v]>>, collector)
         ELSE Blame(d, {k}) /\ UNCHANGED <<collector, last>>,
         UNCHANGED <<enabled, hubVars, stream, pageVars, losses>>
  PROVE  WInv'
<1>1. v \in 0 .. MaxPosts
  BY Bounds DEF Ids
<1>2. /\ shown' \in [Udids -> [Keys -> 0 .. MaxPosts]]
      /\ posts <= posts'
      /\ \A e \in Udids, j \in Keys : shown'[e][j] = IF e = d /\ j = k THEN v ELSE shown[e][j]
      /\ \A e \in Udids, j \in Keys : shown'[e][j] # 0 => shown'[e][j] = shown[e][j] \/ shown'[e][j] > posts
      /\ \A e \in Udids, j \in Keys : LineFits(e, j, shown[e][j])'
  BY <1>1, ShownLemma
<1>3. enabled' \subseteq Udids \X Users /\ posts' \in 0 .. MaxPosts
  BY DEF WInv, TypeOK
<1>4. CASE <<d, UserOf(k)>> \notin enabled
  <2>1. Blame(d, {k}) /\ UNCHANGED <<collector, last>>
    BY <1>4
  <2>2. \A e \in Udids, j \in Keys : shown'[e][j] = shown[e][j] \/ (e = d /\ j = k)
    BY <1>2
  <2> QED BY <1>2, <1>3, <2>1, <2>2, UnloggedStep
<1>5. CASE <<d, UserOf(k)>> \in enabled
  <2> DEFINE l == [key |-> k, id |-> v]
             ls == <<l>>
  <2>1. l \in Lines /\ l.key = k /\ l.id = v
    BY DEF Lines
  <2> HIDE DEF l
  <2>2. ls \in Seq(Lines) /\ DOMAIN ls = {1} /\ ls[1] = l
    BY <2>1
  <2>3. Logged(d, ls, collector)
    BY <1>5 DEF l
  <2> HIDE DEF ls
  <2>4. \A i \in DOMAIN ls : ls[i].id = shown'[d][ls[i].key]
    BY <1>2, <2>1, <2>2
  <2>5. k \in KeysOf(ls)
    BY <2>1, <2>2, KeysOfLemma
  <2>6. collector \in [Slots -> Collector]
    BY DEF WInv, TypeOK
  <2>7. \A c \in Slots : /\ Follows(collector[c], collector[c])
                         /\ collector[c].todo # <<>> \/ c \in Readers(d) => collector[c].pc = "reading"
    BY DEF WInv, Follows, CollectorFits, Readers
  <2>8. \A e \in Udids, j \in Keys : LineFits(e, j, shown[e][j])' /\ (e # d => shown'[e][j] = shown[e][j])
    BY <1>2
  <2>9. \A j \in Keys : shown'[d][j] = shown[d][j] \/ j \in KeysOf(ls)
    BY <1>2, <2>5
  <2> QED BY <1>2, <1>3, <2>2, <2>3, <2>4, <2>6, <2>7, <2>8, <2>9, LoggedStep
<1> QED BY <1>4, <1>5

LEMMA PostStep ==
  ASSUME WInv, NEW d \in Udids, NEW k \in Keys, Post(d, k)
  PROVE  WInv'
<1>1. /\ posts + 1 \in Ids \cup {0} /\ posts' \in 0 .. MaxPosts /\ posts' = posts + 1
      /\ shown' = [shown EXCEPT ![d][k] = posts + 1]
  BY Types, Bounds DEF Post, Ids, WInv
<1> QED BY <1>1, LineStep DEF Post

LEMMA WithdrawStep ==
  ASSUME WInv, NEW d \in Udids, NEW k \in Keys, Withdraw(d, k)
  PROVE  WInv'
<1>1. posts' = posts /\ posts' \in 0 .. MaxPosts
  BY DEF Withdraw, WInv, TypeOK
<1> QED BY <1>1, LineStep DEF Withdraw

\* The listener of a profile logs what that shows, in any order.
LEMMA EnsureStep ==
  ASSUME WInv, NEW c \in Slots, Ensure(c)
  PROVE  WInv'
<1> DEFINE d == collector[c].udid
           left(rest) == [collector EXCEPT
             ![c].ensure = rest,
             ![c].udid = IF collector[c].pc = "none" /\ rest = {} THEN None ELSE d]
           active == [k \in Keys |-> [key |-> k, id |-> shown[d][k]]]
           Enables(u) ==
             /\ enabled' = enabled \cup {<<d, u>>}
             /\ \E order \in SetToSeqs({k \in Keys : UserOf(k) = u /\ shown[d][k] # 0}) :
                  Logged(d, [i \in DOMAIN order |-> active[order[i]]], left(collector[c].ensure \ {u}))
<1>1. /\ collector[c].ensure # {}
      /\ \/ \E rest \in (SUBSET collector[c].ensure) \ {collector[c].ensure} :
              collector' = left(rest) /\ UNCHANGED <<enabled, last, blamed>>
         \/ \E user \in collector[c].ensure : Enables(user)
      /\ UNCHANGED <<shown, posts, hubVars, stream, pageVars, losses>>
  BY DEF Ensure
<1>2. TypeOK /\ collector[c] \in Collector /\ CollectorFits(collector[c]) /\ d \in Udids
  BY <1>1, Types DEF WInv, CollectorFits
<1>3. CASE \E rest \in (SUBSET collector[c].ensure) \ {collector[c].ensure} :
             collector' = left(rest) /\ UNCHANGED <<enabled, last, blamed>>
  BY <1>1, <1>3, LeftStep DEF phoneVars
<1>4. CASE \E user \in collector[c].ensure : Enables(user)
  <2>1. PICK user \in collector[c].ensure : Enables(user)
    BY <1>4
  <2> DEFINE shownNow == {k \in Keys : UserOf(k) = user /\ shown[d][k] # 0}
             rest == collector[c].ensure \ {user}
             u == IF collector[c].pc = "none" /\ rest = {} THEN None ELSE d
             q == [collector[c] EXCEPT !.ensure = rest, !.udid = u]
             done == left(rest)
  <2>2. PICK order \in SetToSeqs(shownNow) :
          Logged(d, [i \in DOMAIN order |-> active[order[i]]], done)
    BY <2>1
  <2> DEFINE ls == [i \in DOMAIN order |-> active[order[i]]]
  <2>3. IsFiniteSet(shownNow)
    <3>1. IsFiniteSet(1 .. KeysPerUser)
      BY FS_Interval, AlertConstants
    <3>2. IsFiniteSet(Keys)
      BY <3>1, FS_Product, AlertConstants DEF Keys
    <3> QED BY <3>2, FS_Subset
  <2>4. Cardinality(shownNow) \in Nat
    BY <2>3, FS_CardinalityType
  <2>5. /\ order \in [1 .. Cardinality(shownNow) -> shownNow]
    BY DEF SetToSeqs
  <2>6. /\ DOMAIN ls = 1 .. Cardinality(shownNow)
        /\ \A i \in DOMAIN ls : order[i] \in shownNow /\ ls[i] = active[order[i]]
    BY <2>5
  <2>7. ASSUME NEW k \in shownNow
        PROVE  active[k].key = k /\ active[k].id = shown[d][k] /\ active[k] \in Lines
    <3>1. k \in Keys /\ shown[d][k] \in Ids \cup {0}
      BY <1>2, Types
    <3>2. active[k] = [key |-> k, id |-> shown[d][k]]
      BY <3>1
    <3> QED BY <3>1, <3>2 DEF Lines
  <2>8. ls \in Seq(Lines)
    <3>1. ls \in [1 .. Cardinality(shownNow) -> Lines]
      <4>1. \A i \in 1 .. Cardinality(shownNow) : active[order[i]] \in Lines
        BY <2>5, <2>7
      <4> HIDE DEF active
      <4>2. ls = [i \in 1 .. Cardinality(shownNow) |-> active[order[i]]]
        BY <2>5
      <4> HIDE DEF ls
      <4> QED BY <4>1, <4>2
    <3> HIDE DEF ls
    <3>2. PICK n \in Nat : n = Cardinality(shownNow)
      BY <2>4
    <3>3. ls \in [1 .. n -> Lines]
      BY <3>1, <3>2
    <3>4. [1 .. n -> Lines] \in {[1 .. m -> Lines] : m \in Nat}
      OBVIOUS
    <3>5. ls \in UNION {[1 .. m -> Lines] : m \in Nat}
      BY <3>3, <3>4
    <3> QED BY <3>5, SeqDef
  <2>9. \A i \in DOMAIN ls : ls[i].id = shown[d][ls[i].key]
    BY <2>6, <2>7
  <2> HIDE DEF ls, active, shownNow
  <2>10. /\ u \in Udids \cup {None} /\ (collector[c].pc # "none" \/ rest # {} => u = d)
        /\ rest \in SUBSET Users
    BY <1>2 DEF Collector
  <2> HIDE DEF u, rest
  <2>11. /\ q \in Collector /\ q.udid = u /\ q.cancelled = collector[c].cancelled /\ q.todo = collector[c].todo
         /\ q.pc = collector[c].pc /\ q.alive = collector[c].alive /\ q.ensure = rest
    BY <1>2, <2>10 DEF Collector
  <2>12. /\ done \in [Slots -> Collector]
         /\ \A b \in Slots : done[b] = IF b = c THEN q ELSE collector[b]
    <3>1. done = [collector EXCEPT ![c] = q]
      BY DEF u
    <3> HIDE DEF done, q
    <3> QED BY <1>2, <2>11, <3>1 DEF TypeOK
  <2>13. Logged(d, ls, done)
    BY <2>2 DEF ls, rest
  <2> HIDE DEF q, done
  <2>14. ASSUME NEW b \in Slots
         PROVE  /\ Follows(collector[b], done[b]) /\ done[b].todo = collector[b].todo
                /\ done[b].todo # <<>> \/ b \in Readers(d) =>
                     /\ done[b].udid = collector[b].udid /\ done[b].cancelled = collector[b].cancelled
                     /\ done[b].pc = "reading"
    <3>1. CollectorFits(collector[b])
      BY DEF WInv
    <3>2. CASE b = c
      BY <1>2, <2>10, <2>11, <2>12, <3>1, <3>2 DEF Follows, CollectorFits, Readers
    <3>3. CASE b # c
      BY <2>12, <3>1, <3>3 DEF Follows, CollectorFits, Readers
    <3> QED BY <3>2, <3>3
  <2>15. shown' = shown /\ posts' = posts /\ enabled' \subseteq Udids \X Users /\ posts \in 0 .. MaxPosts
         /\ shown \in [Udids -> [Keys -> 0 .. MaxPosts]] /\ posts \in Nat
         /\ UNCHANGED <<hubVars, stream, pageVars, losses>>
    <3>1. enabled' = enabled \cup {<<d, user>>} /\ user \in Users /\ d \in Udids
      BY <1>2, <2>1 DEF Collector
    <3>2. enabled \subseteq Udids \X Users /\ <<d, user>> \in Udids \X Users
      BY <1>2, <3>1 DEF TypeOK
    <3>3. enabled' \subseteq Udids \X Users
      BY <3>1, <3>2
    <3> QED BY <1>1, <1>2, <3>3, Types DEF TypeOK
  <2>16. \A e \in Udids, k \in Keys : LineFits(e, k, shown[e][k])'
    BY <2>15 DEF WInv, IdsFit, LineFits
  <2>17. posts <= posts'
    BY <2>15
  <2> QED BY <1>2, <2>8, <2>9, <2>12, <2>13, <2>14, <2>15, <2>16, <2>17, LoggedStep
<1> QED BY <1>1, <1>3, <1>4

-----------------------------------------------------------------------------
(* A process that ends, and a line that is published.                      *)

\* A sequence of lines that is cut: what is left, and the keys of what is not.
LEMMA CutLemma ==
  ASSUME NEW s \in Seq(Lines), NEW n \in 0 .. Len(s)
  PROVE  /\ SubSeq(s, 1, n) \in Seq(Lines)
         /\ \A i \in DOMAIN SubSeq(s, 1, n) : i \in DOMAIN s /\ SubSeq(s, 1, n)[i] = s[i]
         /\ KeysOf(SubSeq(s, n + 1, Len(s))) \subseteq Keys
         /\ \A k : k \notin KeysOf(SubSeq(s, n + 1, Len(s))) =>
              /\ Pos(SubSeq(s, 1, n), LinesOf(k)) = Pos(s, LinesOf(k))
              /\ \A i \in Pos(s, LinesOf(k)) : SubSeq(s, 1, n)[i] = s[i]
<1> DEFINE p == SubSeq(s, 1, n)
           r == SubSeq(s, n + 1, Len(s))
<1>1. Len(s) \in Nat /\ n \in Nat /\ n <= Len(s) /\ DOMAIN s = 1 .. Len(s)
  BY LenProperties
<1>2. \A i \in 1 .. Len(s) : s[i] \in Lines
  BY <1>1
<1>3. p \in Seq(Lines) /\ DOMAIN p = 1 .. n /\ \A i \in 1 .. n : p[i] = s[i]
  <2>1. p \in Seq(Lines) /\ Len(p) = n /\ \A i \in 1 .. n : p[i] = s[i]
    BY <1>1, <1>2
  <2> QED BY <2>1, LenProperties
<1>4. /\ r \in Seq(Lines) /\ \A j \in n + 1 .. Len(s) : j - n \in DOMAIN r /\ r[j - n] = s[j]
  <2>1. r \in Seq(Lines) /\ Len(r) = Len(s) - n /\ \A j \in 1 .. Len(s) - n : r[j] = s[n + j]
    BY <1>1, <1>2
  <2>2. DOMAIN r = 1 .. Len(s) - n
    BY <2>1, LenProperties
  <2>3. ASSUME NEW j \in n + 1 .. Len(s)
        PROVE  j - n \in DOMAIN r /\ r[j - n] = s[j]
    <3>1. j - n \in 1 .. Len(s) - n /\ n + (j - n) = j
      BY <1>1
    <3> QED BY <2>1, <2>2, <3>1
  <2> QED BY <2>1, <2>3
<1> HIDE DEF p, r
<1>5. ASSUME NEW k, k \notin KeysOf(r)
      PROVE  Pos(p, LinesOf(k)) = Pos(s, LinesOf(k)) /\ \A i \in Pos(s, LinesOf(k)) : p[i] = s[i]
  <2>1. ASSUME NEW i \in Pos(s, LinesOf(k))
        PROVE  i \in Pos(p, LinesOf(k)) /\ p[i] = s[i]
    <3>1. i \in 1 .. Len(s) /\ s[i] \in LinesOf(k)
      BY <1>1, <2>1 DEF Pos
    <3>2. i <= n
      <4> SUFFICES ASSUME ~(i <= n) PROVE FALSE
        OBVIOUS
      <4>1. i \in n + 1 .. Len(s)
        BY <1>1, <3>1
      <4>2. i - n \in DOMAIN r /\ r[i - n] \in LinesOf(k)
        BY <1>4, <3>1, <4>1
      <4>3. Pos(r, LinesOf(k)) # {}
        BY <4>2 DEF Pos
      <4> QED BY <1>4, <1>5, <4>3, KeysOfLemma
    <3>3. i \in 1 .. n /\ p[i] = s[i]
      BY <1>1, <1>3, <3>1, <3>2
    <3> QED BY <1>3, <3>1, <3>3 DEF Pos
  <2>2. ASSUME NEW i \in Pos(p, LinesOf(k))
        PROVE  i \in Pos(s, LinesOf(k))
    <3>1. i \in 1 .. n /\ i \in 1 .. Len(s) /\ p[i] \in LinesOf(k)
      BY <1>1, <1>3, <2>2 DEF Pos
    <3> QED BY <1>1, <1>3, <3>1 DEF Pos
  <2> QED BY <2>1, <2>2
<1>6. KeysOf(r) \subseteq Keys
  BY <1>4, KeysOfLemma
<1>7. \A i \in DOMAIN p : i \in DOMAIN s /\ p[i] = s[i]
  BY <1>1, <1>3
<1> QED BY <1>3, <1>5, <1>6, <1>7 DEF p, r

LEMMA DiesStep ==
  ASSUME WInv, NEW c \in Slots, Dies(c)
  PROVE  WInv'
<1> DEFINE d == collector[c].udid
           s == collector[c].todo
<1>1. PICK n \in 0 .. Len(s) :
        /\ collector' = [collector EXCEPT ![c].alive = FALSE, ![c].pc = "reading", ![c].todo = SubSeq(@, 1, n)]
        /\ Blame(d, KeysOf(SubSeq(s, n + 1, Len(s))))
  BY DEF Dies
<1> DEFINE lost == KeysOf(SubSeq(s, n + 1, Len(s)))
           left == SubSeq(s, 1, n)
           q == [collector[c] EXCEPT !.alive = FALSE, !.pc = "reading", !.todo = left]
<1>2. /\ TypeOK /\ collector[c] \in Collector /\ CollectorFits(collector[c]) /\ s \in Seq(Lines) /\ collector[c].alive
      /\ collector[c].pc # "none" /\ d \in Udids
  BY Types DEF WInv, Dies, CollectorFits
<1>3. /\ left \in Seq(Lines) /\ \A i \in DOMAIN left : i \in DOMAIN s /\ left[i] = s[i]
      /\ lost \subseteq Keys
      /\ \A k : k \notin lost => /\ Pos(left, LinesOf(k)) = Pos(s, LinesOf(k))
                                 /\ \A i \in Pos(s, LinesOf(k)) : left[i] = s[i]
  BY <1>2, CutLemma
<1>4. collector' = [collector EXCEPT ![c] = q]
  BY <1>1
<1> HIDE DEF left, lost
<1>5. /\ q \in Collector /\ q.udid = d /\ q.cancelled = collector[c].cancelled /\ q.todo = left
      /\ q.pc = "reading" /\ q.alive = FALSE /\ q.ensure = collector[c].ensure
  BY <1>2, <1>3 DEF Collector
<1> HIDE DEF q
<1>6. collector' \in [Slots -> Collector] /\ \A b \in Slots : collector'[b] = IF b = c THEN q ELSE collector[b]
  BY <1>2, <1>4, <1>5 DEF TypeOK
<1>7. blamed' = blamed \cup ({d} \X lost)
  BY <1>1 DEF Blame, lost
<1>8. losses' \in 0 .. MaxLosses
  BY <1>2, LossesLemma DEF Dies
<1>9. TypeOK'
  BY <1>2, <1>3, <1>6, <1>7, <1>8 DEF TypeOK, Dies, phoneVars, hubVars, pageVars
<1>10. (\A b \in Slots : CollectorFits(collector[b]))' /\ HubFits'
  <2>1. \A b \in Slots : Follows(collector[b], collector'[b])
    BY <1>2, <1>5, <1>6 DEF Follows, WInv, CollectorFits
  <2> QED BY <2>1, HubKept DEF Dies, hubVars
<1>11. IdsFit'
  <2>1. ASSUME NEW b \in Slots, NEW i \in DOMAIN collector'[b].todo
        PROVE  LineFits(collector'[b].udid, collector'[b].todo[i].key, collector'[b].todo[i].id)
    <3>1. /\ collector'[b].udid = collector[b].udid
          /\ i \in DOMAIN collector[b].todo /\ collector'[b].todo[i] = collector[b].todo[i]
      BY <1>3, <1>5, <1>6, <2>1
    <3> QED BY <3>1 DEF WInv, IdsFit
  <2>2. \A t \in Streams : \A i \in DOMAIN stream'[t].events :
          LineFits(stream'[t].events[i].udid, stream'[t].events[i].key, stream'[t].events[i].id)
    BY DEF Dies, WInv, IdsFit
  <2> QED BY <2>1, <2>2, IdsKept DEF Dies, phoneVars, pageVars
<1>12. LastFits' /\ SoundsFit' /\ PageFits'
  BY <1>7 DEF WInv, LastFits, SoundsFit, PageFits, Dies, phoneVars, pageVars
<1>13. ASSUME NEW e \in Udids, NEW k \in Keys
       PROVE  NewsFit(e, k)'
  <2>1. CASE e = d /\ k \in lost
    BY <1>7, <2>1 DEF NewsFit
  <2>2. CASE ~(e = d /\ k \in lost)
    <3>1. NewsFit(e, k) /\ Arriving' = Arriving /\ blamed \subseteq blamed'
      BY <1>7 DEF WInv, Arriving, Dies, pageVars
    <3>2. shown' = shown /\ sounded' = sounded /\ alerts' = alerts
      BY DEF Dies, phoneVars, pageVars
    <3>3. /\ Pos(Waiting(e)', LinesOf(k)) = Pos(Waiting(e), LinesOf(k))
          /\ \A i \in Pos(Waiting(e), LinesOf(k)) : Waiting(e)'[i] = Waiting(e)[i]
      <4>1. running'[e] = running[e] /\ (running[e] # None => running[e] \in Slots /\ collector[running[e]].udid = e)
        BY <1>2, Types DEF WInv, HubFits, Dies, hubVars
      <4>2. CASE running[e] = c /\ running[e] # None
        <5>1. Waiting(e)' = left /\ Waiting(e) = s /\ e = d
          BY <1>5, <1>6, <4>1, <4>2 DEF Waiting
        <5> QED BY <1>3, <2>2, <5>1
      <4>3. CASE ~(running[e] = c /\ running[e] # None)
        <5>1. Waiting(e)' = Waiting(e)
          BY <1>6, <4>1, <4>3 DEF Waiting
        <5> QED BY <5>1
      <4> QED BY <4>2, <4>3
    <3>4. ASSUME NEW b \in Slots, collector[b].udid = e, collector[b].cancelled, Pos(collector[b].todo, LinesOf(k)) # {}
          PROVE  collector'[b].udid = e /\ collector'[b].cancelled /\ Pos(collector'[b].todo, LinesOf(k)) # {}
      BY <1>3, <1>5, <1>6, <2>2, <3>4
    <3> QED BY <3>1, <3>2, <3>3, <3>4, NewsKept
  <2> QED BY <2>1, <2>2
<1> QED BY <1>9, <1>10, <1>11, <1>12, <1>13 DEF WInv

LEMMA PublishStep ==
  ASSUME WInv, NEW c \in Slots, Publish(c)
  PROVE  WInv'
<1> DEFINE d == collector[c].udid
           todo == collector[c].todo
           l == Head(todo)
           event == [udid |-> d, key |-> l.key, id |-> l.id]
           got == {s \in Reached(d) : Open(s)}
           q == [collector[c] EXCEPT !.todo = Tail(todo)]
           r(s) == [stream[s] EXCEPT !.events = Append(@, event)]
<1>1. /\ TypeOK /\ collector[c] \in Collector /\ CollectorFits(collector[c]) /\ todo \in Seq(Lines) /\ todo # <<>>
      /\ collector[c].pc = "reading" /\ d \in Udids
  BY Types DEF WInv, Publish, CollectorFits
<1>2. /\ Tail(todo) \in Seq(Lines) /\ l = todo[1] /\ 1 \in DOMAIN todo /\ l \in Lines
      /\ \A i \in DOMAIN Tail(todo) : i + 1 \in DOMAIN todo /\ Tail(todo)[i] = todo[i + 1]
  <2>1. /\ Tail(todo) \in Seq(Lines) /\ Len(Tail(todo)) = Len(todo) - 1 /\ Len(todo) \in Nat
        /\ \A i \in 1 .. Len(Tail(todo)) : Tail(todo)[i] = todo[i + 1]
    BY <1>1, HeadTailProperties, LenProperties
  <2>2. DOMAIN todo = 1 .. Len(todo) /\ DOMAIN Tail(todo) = 1 .. Len(Tail(todo))
    BY <1>1, <2>1, LenProperties
  <2>3. l = todo[1] /\ 1 \in DOMAIN todo
    BY <1>1, TailPos
  <2>4. l \in Lines
    BY <1>1, <2>3
  <2> QED BY <2>1, <2>2, <2>3, <2>4
<1>3. l.key \in Keys /\ l.id \in Ids \cup {0}
  BY <1>2, RecordTypes
<1>4. event \in Events /\ event.udid = d /\ event.key = l.key /\ event.id = l.id
  BY <1>1, <1>3 DEF Events
<1>5. /\ stream' = [s \in Streams |-> IF s \in got THEN r(s) ELSE stream[s]]
      /\ Blame(d, IF collector[c].cancelled \/ conn \notin got THEN {l.key} ELSE {})
      /\ collector' = [collector EXCEPT ![c] = q]
      /\ UNCHANGED <<phoneVars, hubVars, pageVars, losses>>
  BY DEF Publish
<1>6. got \subseteq Streams /\ \A s \in got : Len(stream[s].events) < ChanCap
  BY DEF Reached, Open
<1> HIDE DEF event, l, got
<1>7. ASSUME NEW s \in Streams
      PROVE  /\ r(s) \in Stream /\ r(s).events = Append(stream[s].events, event) /\ r(s).state = stream[s].state
             /\ stream[s].events \in Seq(Events)
             /\ Len(r(s).events) = Len(stream[s].events) + 1 /\ Len(stream[s].events) \in Nat
             /\ \A i \in DOMAIN r(s).events : \/ i \in DOMAIN stream[s].events /\ r(s).events[i] = stream[s].events[i]
                                              \/ r(s).events[i] = event
  <2>1. stream[s] \in Stream /\ stream[s].events \in Seq(Events)
    BY <1>1, Types
  <2>2. Append(stream[s].events, event) \in Seq(Events)
    BY <1>4, <2>1
  <2>3. r(s) \in Stream /\ r(s).events = Append(stream[s].events, event) /\ r(s).state = stream[s].state
    BY <2>1, <2>2 DEF Stream
  <2>4. /\ Len(Append(stream[s].events, event)) = Len(stream[s].events) + 1 /\ Len(stream[s].events) \in Nat
        /\ \A i \in 1 .. Len(stream[s].events) : Append(stream[s].events, event)[i] = stream[s].events[i]
        /\ Append(stream[s].events, event)[Len(stream[s].events) + 1] = event
        /\ DOMAIN Append(stream[s].events, event) = 1 .. Len(stream[s].events) + 1
        /\ DOMAIN stream[s].events = 1 .. Len(stream[s].events)
    BY <1>4, <2>1, AppendProperties, LenProperties
  <2>5. \A i \in DOMAIN Append(stream[s].events, event) :
          \/ i \in DOMAIN stream[s].events /\ Append(stream[s].events, event)[i] = stream[s].events[i]
          \/ Append(stream[s].events, event)[i] = event
    BY <2>4
  <2> QED BY <2>1, <2>3, <2>4, <2>5
<1>8. /\ q \in Collector /\ q.udid = d /\ q.cancelled = collector[c].cancelled /\ q.todo = Tail(todo)
      /\ q.pc = "reading" /\ q.alive = collector[c].alive /\ q.ensure = collector[c].ensure
  BY <1>1, <1>2 DEF Collector
<1> HIDE DEF q, r
<1>9. collector' \in [Slots -> Collector] /\ \A b \in Slots : collector'[b] = IF b = c THEN q ELSE collector[b]
  BY <1>1, <1>5, <1>8 DEF TypeOK
<1>10. stream' \in [Streams -> Stream] /\ \A s \in Streams : stream'[s] = IF s \in got THEN r(s) ELSE stream[s]
  BY <1>1, <1>5, <1>7 DEF TypeOK
<1>11. \A s \in Streams : Len(stream'[s].events) <= ChanCap
  <2>1. ChanCap \in Nat
    BY Bounds
  <2>2. \A s \in Streams : Len(stream[s].events) <= ChanCap
    BY <1>1 DEF TypeOK
  <2>3. ASSUME NEW s \in got
        PROVE  Len(r(s).events) <= ChanCap
    BY <1>6, <1>7, <2>1, <2>3
  <2> QED BY <1>10, <2>2, <2>3
<1>12. /\ blamed \subseteq blamed' /\ blamed' \subseteq Udids \X Keys
       /\ collector[c].cancelled \/ conn \notin got => <<d, l.key>> \in blamed'
  BY <1>1, <1>3, <1>5 DEF Blame, TypeOK
<1>13. TypeOK'
  BY <1>1, <1>5, <1>9, <1>10, <1>11, <1>12 DEF TypeOK, phoneVars, hubVars, pageVars
<1>14. (\A b \in Slots : CollectorFits(collector[b]))' /\ HubFits'
  <2>1. \A b \in Slots : Follows(collector[b], collector'[b])
    BY <1>1, <1>8, <1>9 DEF Follows, WInv, CollectorFits
  <2> QED BY <1>5, <2>1, HubKept DEF hubVars
<1>15. IdsFit'
  <2>1. ASSUME NEW b \in Slots, NEW i \in DOMAIN collector'[b].todo
        PROVE  LineFits(collector'[b].udid, collector'[b].todo[i].key, collector'[b].todo[i].id)
    <3>1. \E j \in DOMAIN collector[b].todo : /\ collector'[b].udid = collector[b].udid
                                              /\ collector'[b].todo[i] = collector[b].todo[j]
      <4>1. CASE b # c
        <5>1. collector'[b] = collector[b]
          BY <1>9, <4>1
        <5> QED BY <2>1, <5>1
      <4>2. CASE b = c
        <5>1. collector'[b].udid = d /\ collector'[b].todo = Tail(todo)
          BY <1>8, <1>9, <4>2
        <5>2. i + 1 \in DOMAIN todo /\ collector'[b].todo[i] = todo[i + 1]
          BY <1>2, <2>1, <5>1
        <5> QED BY <4>2, <5>1, <5>2
      <4> QED BY <4>1, <4>2
    <3> QED BY <3>1 DEF WInv, IdsFit
  <2>2. LineFits(d, l.key, l.id)
    BY <1>2 DEF WInv, IdsFit
  <2>3. ASSUME NEW s \in Streams, NEW i \in DOMAIN stream'[s].events
        PROVE  LineFits(stream'[s].events[i].udid, stream'[s].events[i].key, stream'[s].events[i].id)
    <3>1. \/ i \in DOMAIN stream[s].events /\ stream'[s].events[i] = stream[s].events[i]
          \/ stream'[s].events[i] = event
      BY <1>7, <1>10, <2>3
    <3> QED BY <1>4, <2>2, <3>1 DEF WInv, IdsFit
  <2> QED BY <1>5, <2>1, <2>3, IdsKept DEF phoneVars, pageVars
<1>16. LastFits' /\ SoundsFit'
  BY <1>5, <1>12 DEF WInv, LastFits, SoundsFit, phoneVars, pageVars
<1>17. PageFits'
  <2>1. conn' = conn /\ alerts' = alerts /\ (conn # None => conn \in Streams /\ stream'[conn].state = stream[conn].state)
    BY <1>1, <1>5, <1>7, <1>10, Types DEF pageVars
  <2> QED BY <2>1 DEF WInv, PageFits
<1>18. Arriving \in Seq(Events) /\ Arriving' = IF conn \in got THEN Append(Arriving, event) ELSE Arriving
  <2>1. conn' = conn /\ None \notin got /\ (conn # None => conn \in Streams)
    BY <1>1, <1>5, <1>6, Bounds, Types DEF pageVars
  <2> QED BY <1>1, <1>7, <1>10, <2>1, Types DEF Arriving
<1>19. ASSUME NEW e \in Udids, NEW k \in Keys
       PROVE  NewsFit(e, k)'
  <2> DEFINE A == EventsOf(e, k)
             B == LinesOf(k)
  <2>1. (event \in A <=> e = d /\ k = l.key) /\ (l \in B <=> k = l.key)
    <3>1. event \in Events /\ l \in Lines
      BY <1>2, <1>4
    <3>2. event \in A <=> event.udid = e /\ event.key = k
      BY <3>1, AboutLemma
    <3>3. l \in B <=> l.key = k
      BY <3>1, AboutLemma
    <3> QED BY <1>4, <3>2, <3>3
  <2>2. CASE <<e, k>> \in blamed'
    BY <2>2 DEF NewsFit
  <2>3. CASE /\ <<e, k>> \notin blamed'
             /\ \E b \in Slots : collector[b].udid = e /\ collector[b].cancelled /\ Pos(collector[b].todo, B) # {}
    <3>1. PICK b \in Slots : collector[b].udid = e /\ collector[b].cancelled /\ Pos(collector[b].todo, B) # {}
      BY <2>3
    <3>2. CASE b # c
      <4>1. collector'[b] = collector[b]
        BY <1>9, <3>2
      <4> QED BY <3>1, <4>1 DEF NewsFit, LinesOf
    <3>3. CASE b = c
      <4>1. l \notin B
        BY <1>12, <2>1, <2>3, <3>1, <3>3
      <4>2. Pos(Tail(todo), B) # {}
        BY <1>1, <3>1, <3>3, <4>1, TailKeeps DEF l
      <4>3. collector'[b].udid = e /\ collector'[b].cancelled /\ Pos(collector'[b].todo, B) # {}
        BY <1>8, <1>9, <3>1, <3>3, <4>2
      <4> QED BY <4>3 DEF NewsFit, LinesOf
    <3> QED BY <3>2, <3>3
  <2>4. CASE /\ <<e, k>> \notin blamed'
             /\ News(Arriving, A, Waiting(e), B, shown[e][k], Heard(e, k), AlertId(e, k))
    <3>1. News(Arriving', A, Waiting(e)', B, shown[e][k], Heard(e, k), AlertId(e, k))
      <4>1. running'[e] = running[e] /\ (running[e] # None => running[e] \in Slots /\ collector[running[e]].udid = e)
        BY <1>1, <1>5, Types DEF WInv, HubFits, hubVars
      <4>2. CASE running[e] = c /\ running[e] # None
        <5>1. Waiting(e) = todo /\ Waiting(e)' = Tail(todo) /\ e = d
          BY <1>8, <1>9, <4>1, <4>2 DEF Waiting
        <5>2. CASE conn \in got
          <6>1. event \in Events /\ event.id = Head(todo).id /\ (event \in A <=> Head(todo) \in B)
            BY <1>4, <2>1, <5>1 DEF l
          <6>2. News(Append(Arriving, event), A, Tail(todo), B, shown[e][k], Heard(e, k), AlertId(e, k))
            BY <1>1, <1>18, <2>4, <5>1, <6>1, PublishedNews
          <6> QED BY <1>18, <5>1, <5>2, <6>2
        <5>3. CASE conn \notin got
          <6>1. Head(todo) \notin B
            BY <1>12, <2>1, <2>4, <5>1, <5>3 DEF l
          <6>2. News(Arriving, A, Tail(todo), B, shown[e][k], Heard(e, k), AlertId(e, k))
            BY <1>1, <2>4, <5>1, <6>1, DroppedNews
          <6> QED BY <1>18, <5>1, <5>3, <6>2
        <5> QED BY <5>2, <5>3
      <4>3. CASE ~(running[e] = c /\ running[e] # None)
        <5>1. Waiting(e)' = Waiting(e)
          BY <1>9, <4>1, <4>3 DEF Waiting
        <5>2. CASE conn \in got
          <6>1. event \notin A
            <7>1. e = d => collector[c].cancelled
              BY <1>1, <4>3, Bounds DEF WInv, HubFits
            <7> QED BY <1>12, <2>1, <2>4, <7>1
          <6>2. /\ Pos(Append(Arriving, event), A) = Pos(Arriving, A)
                /\ \A i \in Pos(Arriving, A) : Append(Arriving, event)[i] = Arriving[i]
            <7>1. event \in Events /\ Arriving \in Seq(Events)
              BY <1>4, <1>18
            <7>2. Pos(Append(Arriving, event), A) = Pos(Arriving, A)
              BY <6>1, <7>1, AppendPos
            <7>3. \A i \in Pos(Arriving, A) :
                    Append(Arriving, event)[i] = Arriving[i] /\ i \in Nat /\ i <= Len(Arriving)
              BY <7>1, AppendPos
            <7> QED BY <7>2, <7>3
          <6>3. News(Append(Arriving, event), A, Waiting(e), B, shown[e][k], Heard(e, k), AlertId(e, k))
            BY <2>4, <6>2, SameNews
          <6> QED BY <1>18, <5>1, <5>2, <6>3
        <5>3. CASE conn \notin got
          BY <1>18, <2>4, <5>1, <5>3
        <5> QED BY <5>2, <5>3
      <4> QED BY <4>2, <4>3
    <3>2. /\ shown' = shown /\ Heard(e, k)' = Heard(e, k) /\ AlertId(e, k)' = AlertId(e, k)
          /\ A' = A /\ B' = B
      BY <1>5 DEF Heard, AlertId, EventsOf, LinesOf, phoneVars, pageVars
    <3> QED BY <3>1, <3>2 DEF NewsFit
  <2>5. NewsFit(e, k) /\ blamed \subseteq blamed'
    BY <1>12 DEF WInv
  <2> QED BY <2>2, <2>3, <2>4, <2>5 DEF NewsFit
<1> QED BY <1>13, <1>14, <1>15, <1>16, <1>17, <1>19 DEF WInv

-----------------------------------------------------------------------------
(* The page handles an event.                                              *)

\* seenEventIdsRef and the sounds: what sounded of late is remembered in its order,
\* and the event that sounds now is the newest.
LEMMA RememberedLemma ==
  ASSUME WInv, NEW id \in Udids \X Ids, id \notin ToSet(seen), seen' = Remembered(id), Sound(id)
  PROVE  /\ seen' \in Seq(Udids \X Ids) /\ Len(seen') <= SeenCap
         /\ sounded' \in [Udids \X Ids -> 0 .. SeenCap + 1] /\ repeated' = {}
         /\ \A e \in Udids \X Ids : sounded'[e] # 0 <=> sounded[e] # 0 \/ e = id
         /\ SoundsFit'
<1> DEFINE all == Append(seen, id)
           L == Len(seen)
           D == Udids \X Ids
<1>1. /\ seen \in Seq(D) /\ L \in Nat /\ L <= SeenCap /\ DOMAIN seen = 1 .. L
      /\ sounded \in [D -> 0 .. SeenCap + 1] /\ SeenCap \in Nat \ {0}
      /\ \A i \in 1 .. L : seen[i] \in D
  BY Bounds, LenProperties DEF WInv, TypeOK
<1>2. /\ all \in Seq(D) /\ Len(all) = L + 1 /\ DOMAIN all = 1 .. L + 1 /\ all # <<>>
      /\ all[L + 1] = id /\ \A i \in 1 .. L : all[i] = seen[i]
  BY <1>1, AppendProperties, LenProperties
<1>3. /\ \A e \in D : sounded[e] \in 1 .. SeenCap => sounded[e] <= L /\ seen[L - sounded[e] + 1] = e
      /\ \A i \in 1 .. L : sounded[seen[i]] # 0
      /\ repeated = {}
  BY <1>1 DEF WInv, SoundsFit
<1>4. \A i \in 1 .. L : seen[i] # id
  BY <1>1 DEF ToSet
<1>5. sounded[id] \notin 1 .. SeenCap
  <2> SUFFICES ASSUME sounded[id] \in 1 .. SeenCap PROVE FALSE
    OBVIOUS
  <2>1. sounded[id] <= L /\ seen[L - sounded[id] + 1] = id
    BY <1>3
  <2>2. L - sounded[id] + 1 \in 1 .. L
    BY <1>1, <2>1
  <2> QED BY <1>4, <2>1, <2>2
<1>6. repeated' = {}
  BY <1>3, <1>5 DEF Sound
<1>7. \A e \in D : sounded'[e] = IF e = id THEN 1
                                 ELSE IF sounded[e] \in 1 .. SeenCap THEN sounded[e] + 1 ELSE sounded[e]
  BY <1>1 DEF Sound
<1>8. \A e \in D : sounded[e] \in Nat /\ sounded[e] <= SeenCap + 1
  BY <1>1
<1>9. \A e \in D : sounded'[e] \in 0 .. SeenCap + 1 /\ (sounded'[e] # 0 <=> sounded[e] # 0 \/ e = id)
  BY <1>1, <1>7, <1>8
<1>10. sounded' \in [D -> 0 .. SeenCap + 1]
  <2>1. sounded' = [e \in D |-> IF e = id THEN 1
                                ELSE IF sounded[e] \in 1 .. SeenCap THEN sounded[e] + 1 ELSE sounded[e]]
    BY <1>1 DEF Sound
  <2> QED BY <1>7, <1>9, <2>1
<1>13. seen' = IF Len(all) > SeenCap THEN Tail(all) ELSE all
  BY DEF Remembered
<1>14. seen' = IF L + 1 > SeenCap THEN Tail(all) ELSE all
  BY <1>2, <1>13
<1>15. L \in Nat /\ L <= SeenCap /\ SeenCap \in Nat \ {0}
  BY <1>1
<1>16. \A m, p \in Nat : p >= 1 /\ p + 1 <= m =>
         /\ m - (p + 1) + 1 \in 1 .. m /\ m - p + 1 \in 1 .. m
         /\ (m - (p + 1) + 1) + 1 = m - p + 1
  OBVIOUS
<1> HIDE DEF all, L
<1>11. CASE L + 1 <= SeenCap
  <2>1. seen' = all
    BY <1>1, <1>11, <1>14
  <2>2. ASSUME NEW e \in D, sounded'[e] \in 1 .. SeenCap
        PROVE  sounded'[e] <= L + 1 /\ all[(L + 1) - sounded'[e] + 1] = e
    <3>1. CASE e = id
      <4>1. sounded'[e] = 1 /\ (L + 1) - 1 + 1 = L + 1
        BY <1>1, <1>7, <3>1
      <4> QED BY <1>1, <1>2, <3>1, <4>1
    <3>2. CASE e # id
      <4>1. sounded[e] \in 1 .. SeenCap /\ sounded'[e] = sounded[e] + 1
        BY <1>1, <1>7, <2>2, <3>2
      <4>2. sounded[e] <= L /\ seen[L - sounded[e] + 1] = e
        BY <1>3, <4>1
      <4>3. L - sounded[e] + 1 \in 1 .. L /\ (L + 1) - (sounded[e] + 1) + 1 = L - sounded[e] + 1
        BY <1>1, <4>1, <4>2
      <4>4. sounded[e] + 1 <= L + 1
        BY <1>1, <4>1, <4>2
      <4> QED BY <1>2, <4>1, <4>2, <4>3, <4>4
    <3> QED BY <3>1, <3>2
  <2>3. \A i \in DOMAIN all : sounded'[all[i]] # 0
    <3> SUFFICES ASSUME NEW i \in DOMAIN all PROVE sounded'[all[i]] # 0
      OBVIOUS
    <3>1. CASE i = L + 1
      BY <1>2, <1>9, <3>1
    <3>2. CASE i # L + 1
      <4>1. i \in 1 .. L
        BY <1>1, <1>2, <3>2
      <4> QED BY <1>1, <1>2, <1>3, <1>9, <4>1
    <3> QED BY <3>1, <3>2
  <2> QED BY <1>2, <1>6, <1>9, <1>10, <1>11, <2>1, <2>2, <2>3 DEF SoundsFit
<1>12. CASE ~(L + 1 <= SeenCap)
  <2>1. seen' = Tail(all) /\ L = SeenCap
    BY <1>12, <1>14, <1>15
  <2>2. /\ Tail(all) \in Seq(D) /\ Len(Tail(all)) = L /\ DOMAIN Tail(all) = 1 .. L
        /\ \A i \in 1 .. L : Tail(all)[i] = all[i + 1]
    <3>1. Tail(all) \in Seq(D) /\ Len(Tail(all)) = L /\ \A i \in 1 .. L : Tail(all)[i] = all[i + 1]
      BY <1>1, <1>2, HeadTailProperties
    <3> QED BY <3>1, LenProperties
  <2>3. ASSUME NEW e \in D, sounded'[e] \in 1 .. SeenCap
        PROVE  sounded'[e] <= L /\ Tail(all)[L - sounded'[e] + 1] = e
    <3>1. CASE e = id
      <4>1. sounded'[e] = 1 /\ L - 1 + 1 = L /\ L \in 1 .. L
        BY <1>1, <1>7, <2>1, <3>1
      <4> QED BY <1>1, <1>2, <2>2, <3>1, <4>1
    <3>2. CASE e # id
      <4>1. sounded[e] \in 1 .. SeenCap /\ sounded'[e] = sounded[e] + 1
        BY <1>1, <1>7, <2>3, <3>2
      <4>2. sounded[e] <= L /\ seen[L - sounded[e] + 1] = e
        BY <1>3, <4>1
      <4>3. /\ L - (sounded[e] + 1) + 1 \in 1 .. L /\ L - sounded[e] + 1 \in 1 .. L
            /\ (L - (sounded[e] + 1) + 1) + 1 = L - sounded[e] + 1
        <5>1. sounded[e] \in Nat /\ sounded[e] >= 1 /\ sounded[e] + 1 <= L
          BY <1>15, <2>1, <2>3, <4>1
        <5> QED BY <1>15, <1>16, <5>1
      <4>4. sounded'[e] <= L
        BY <1>15, <2>1, <2>3
      <4>5. Tail(all)[L - (sounded[e] + 1) + 1] = e
        BY <1>2, <2>2, <4>2, <4>3
      <4> QED BY <4>1, <4>4, <4>5
    <3> QED BY <3>1, <3>2
  <2>4. \A i \in 1 .. L : sounded'[Tail(all)[i]] # 0
    <3> SUFFICES ASSUME NEW i \in 1 .. L PROVE sounded'[Tail(all)[i]] # 0
      OBVIOUS
    <3>1. CASE i = L
      BY <1>2, <1>9, <2>2, <3>1
    <3>2. CASE i # L
      <4>1. i + 1 \in 1 .. L
        BY <1>15, <3>2
      <4>2. Tail(all)[i] = seen[i + 1] /\ seen[i + 1] \in D
        BY <1>1, <1>2, <2>2, <4>1
      <4>3. sounded[seen[i + 1]] # 0
        BY <1>3, <4>1
      <4> QED BY <1>9, <4>2, <4>3
    <3> QED BY <3>1, <3>2
  <2>5. Len(seen') = L /\ DOMAIN seen' = 1 .. L /\ seen' \in Seq(D) /\ Len(seen') <= SeenCap
    BY <1>15, <2>1, <2>2
  <2>6. SoundsFit'
    BY <1>6, <2>1, <2>3, <2>4, <2>5 DEF SoundsFit
  <2> QED BY <1>6, <1>9, <1>10, <2>5, <2>6
<1> QED BY <1>11, <1>12

LEMMA HandleStep ==
  ASSUME WInv, Handle
  PROVE  WInv'
<1> DEFINE e == Head(stream[conn].events)
           id == <<e.udid, e.id>>
           q == [stream[conn] EXCEPT !.events = Tail(@)]
<1>1. /\ TypeOK /\ conn # None /\ conn \in Streams /\ stream[conn] \in Stream
      /\ stream[conn].events \in Seq(Events) /\ stream[conn].events # <<>>
  BY Types DEF WInv, Handle
<1>2. /\ stream' = [stream EXCEPT ![conn] = q]
      /\ UNCHANGED <<phoneVars, hubVars, collector, conn, monitored, blamed, losses>>
  BY DEF Handle
<1>3. \/ /\ e.id = 0
         /\ alerts' = Cleared(e.udid, UserOf(e.key), e.key)
         /\ UNCHANGED <<seen, sounded, repeated>>
      \/ /\ e.id # 0 /\ Seen(e)
         /\ UNCHANGED <<seen, alerts, sounded, repeated>>
      \/ /\ e.id # 0 /\ ~Seen(e)
         /\ seen' = Remembered(id)
         /\ alerts' = [alerts EXCEPT ![<<e.udid, UserOf(e.key)>>] = e]
         /\ Sound(id)
  BY DEF Handle
<1>4. /\ e = stream[conn].events[1] /\ 1 \in DOMAIN stream[conn].events /\ e \in Events
      /\ Tail(stream[conn].events) \in Seq(Events) /\ Len(stream[conn].events) \in Nat
      /\ Len(Tail(stream[conn].events)) = Len(stream[conn].events) - 1
      /\ \A i \in DOMAIN Tail(stream[conn].events) :
           i + 1 \in DOMAIN stream[conn].events /\ Tail(stream[conn].events)[i] = stream[conn].events[i + 1]
  <2> DEFINE es == stream[conn].events
  <2>1. /\ Tail(es) \in Seq(Events) /\ Len(Tail(es)) = Len(es) - 1 /\ Len(es) \in Nat
        /\ \A i \in 1 .. Len(Tail(es)) : Tail(es)[i] = es[i + 1]
    BY <1>1, HeadTailProperties, LenProperties
  <2>2. DOMAIN es = 1 .. Len(es) /\ DOMAIN Tail(es) = 1 .. Len(Tail(es))
    BY <1>1, <2>1, LenProperties
  <2>3. e = es[1] /\ 1 \in DOMAIN es
    BY <1>1, TailPos
  <2>4. e \in Events
    BY <1>1, <2>3
  <2> QED BY <2>1, <2>2, <2>3, <2>4
<1>5. e.udid \in Udids /\ e.key \in Keys /\ UserOf(e.key) \in Users /\ e.id \in Ids \cup {0} /\ e.id \in Nat
  BY <1>4, RecordTypes DEF Keys, UserOf
<1>6. /\ q \in Stream /\ q.events = Tail(stream[conn].events) /\ q.state = stream[conn].state
  BY <1>1, <1>4 DEF Stream
<1> HIDE DEF q, e
<1>7. stream' \in [Streams -> Stream] /\ \A s \in Streams : stream'[s] = IF s = conn THEN q ELSE stream[s]
  BY <1>1, <1>2, <1>6 DEF TypeOK
<1>8. \A s \in Streams : Len(stream'[s].events) <= ChanCap
  <2>1. \A s \in Streams : Len(stream[s].events) <= ChanCap
    BY <1>1 DEF TypeOK
  <2>2. Len(q.events) <= ChanCap
    BY <1>1, <1>4, <1>6, <2>1, Bounds
  <2> QED BY <1>7, <2>1, <2>2
<1>9. id \in Udids \X Ids \/ e.id = 0
  BY <1>5
<1>10. /\ seen' \in Seq(Udids \X Ids) /\ Len(seen') <= SeenCap
       /\ sounded' \in [Udids \X Ids -> 0 .. SeenCap + 1] /\ repeated' \subseteq Udids \X Ids
       /\ SoundsFit'
       /\ \A f \in Udids \X Ids : sounded'[f] # 0 <=> sounded[f] # 0 \/ (f = id /\ e.id # 0)
  <2>1. CASE /\ UNCHANGED <<seen, sounded, repeated>>
             /\ e.id = 0 \/ Seen(e)
    <3>1. SoundsFit'
      BY <2>1 DEF WInv, SoundsFit
    <3>2. e.id # 0 => sounded[id] # 0
      BY <2>1 DEF WInv, SoundsFit, Seen, ToSet
    <3> QED BY <1>1, <2>1, <3>1, <3>2 DEF TypeOK
  <2>2. CASE e.id # 0 /\ ~Seen(e) /\ seen' = Remembered(id) /\ Sound(id)
    <3>1. id \in Udids \X Ids /\ id \notin ToSet(seen)
      BY <1>9, <2>2 DEF Seen
    <3> HIDE DEF id
    <3>2. /\ seen' \in Seq(Udids \X Ids) /\ Len(seen') <= SeenCap
          /\ sounded' \in [Udids \X Ids -> 0 .. SeenCap + 1] /\ repeated' = {}
          /\ \A f \in Udids \X Ids : sounded'[f] # 0 <=> sounded[f] # 0 \/ f = id
          /\ SoundsFit'
      BY <2>2, <3>1, RememberedLemma
    <3> QED BY <2>2, <3>2
  <2> QED BY <1>3, <2>1, <2>2
<1>11. /\ alerts' \in [Udids \X Users -> Events \cup {None}]
       /\ \A d \in Udids, u \in Users :
            \/ alerts'[<<d, u>>] = alerts[<<d, u>>]
            \/ alerts'[<<d, u>>] = None
            \/ e.id # 0 /\ d = e.udid /\ u = UserOf(e.key) /\ alerts'[<<d, u>>] = e
       /\ e.id = 0 => alerts'[<<e.udid, UserOf(e.key)>>] = None
                      \/ (/\ alerts'[<<e.udid, UserOf(e.key)>>] = alerts[<<e.udid, UserOf(e.key)>>]
                          /\ alerts[<<e.udid, UserOf(e.key)>>].key # e.key)
       /\ e.id # 0 => IF Seen(e) THEN alerts' = alerts ELSE alerts'[<<e.udid, UserOf(e.key)>>] = e
  <2>1. alerts \in [Udids \X Users -> Events \cup {None}]
    BY <1>1 DEF TypeOK
  <2>2. CASE e.id = 0
    <3>1. alerts' = Cleared(e.udid, UserOf(e.key), e.key)
      BY <1>3, <2>2
    <3> QED BY <1>5, <2>1, <2>2, <3>1 DEF Cleared
  <2>3. CASE e.id # 0 /\ Seen(e)
    BY <1>3, <2>1, <2>3
  <2>4. CASE e.id # 0 /\ ~Seen(e)
    <3>1. alerts' = [alerts EXCEPT ![<<e.udid, UserOf(e.key)>>] = e]
      BY <1>3, <2>4
    <3> QED BY <1>4, <1>5, <2>1, <2>4, <3>1
  <2> QED BY <2>2, <2>3, <2>4
<1>12. TypeOK'
  BY <1>1, <1>2, <1>7, <1>8, <1>10, <1>11 DEF TypeOK, phoneVars, hubVars
<1>13. PageFits'
  <2>1. conn' # None => stream'[conn'].state = "open"
    BY <1>1, <1>2, <1>6, <1>7 DEF WInv, PageFits
  <2>2. ASSUME NEW d \in Udids, NEW u \in Users, alerts'[<<d, u>>] # None
        PROVE  UserOf(alerts'[<<d, u>>].key) = u
    <3>1. CASE alerts'[<<d, u>>] = alerts[<<d, u>>]
      BY <2>2, <3>1 DEF WInv, PageFits
    <3>2. CASE u = UserOf(e.key) /\ alerts'[<<d, u>>] = e
      BY <3>2
    <3> QED BY <1>11, <2>2, <3>1, <3>2
  <2> QED BY <2>1, <2>2 DEF PageFits
<1>14. LastFits' /\ HubFits' /\ (\A c \in Slots : CollectorFits(collector[c]))'
  BY <1>2 DEF WInv, LastFits, HubFits, phoneVars, hubVars
<1>15. LineFits(e.udid, e.key, e.id)
  BY <1>1, <1>4 DEF WInv, IdsFit
<1>16. IdsFit'
  <2>1. \A d, key, i : LineFits(d, key, i)' <=> LineFits(d, key, i)
    BY <1>2 DEF LineFits, phoneVars
  <2>2. ASSUME NEW s \in Streams, NEW i \in DOMAIN stream'[s].events
        PROVE  \E j \in DOMAIN stream[s].events : stream'[s].events[i] = stream[s].events[j]
    BY <1>4, <1>6, <1>7, <2>2
  <2>3. ASSUME NEW d \in Udids, NEW i \in Ids, sounded'[<<d, i>>] # 0
        PROVE  i <= posts
    <3>1. sounded[<<d, i>>] # 0 \/ i = e.id
      BY <1>10, <2>3
    <3> QED BY <1>15, <3>1 DEF WInv, IdsFit, LineFits
  <2> QED BY <1>2, <2>1, <2>2, <2>3 DEF WInv, IdsFit, phoneVars
<1>17. Arriving = stream[conn].events /\ Arriving' = Tail(Arriving) /\ Arriving # <<>> /\ Head(Arriving) = e
  BY <1>1, <1>2, <1>6, <1>7 DEF Arriving, e
<1>18. ASSUME NEW d \in Udids, NEW k \in Keys
       PROVE  NewsFit(d, k)'
  <2> DEFINE A == EventsOf(d, k)
             B == LinesOf(k)
             v == shown[d][k]
  <2>1. /\ NewsFit(d, k) /\ Waiting(d)' = Waiting(d) /\ shown' = shown /\ A' = A /\ B' = B
        /\ v \in Ids \cup {0} /\ v \in Nat
    BY <1>1, <1>2, Types DEF WInv, Waiting, EventsOf, LinesOf, phoneVars, hubVars
  <2>2. CASE <<d, k>> \in blamed
    BY <1>2, <2>2 DEF NewsFit
  <2>3. CASE \E c \in Slots : collector[c].udid = d /\ collector[c].cancelled /\ Pos(collector[c].todo, B) # {}
    BY <1>2, <2>3 DEF NewsFit, LinesOf
  <2>4. CASE News(Arriving, A, Waiting(d), B, v, Heard(d, k), AlertId(d, k))
    <3>1. e \in A <=> e.udid = d /\ e.key = k
      BY <1>4, AboutLemma
    <3>2. v # 0 => /\ Heard(d, k) = sounded[<<d, v>>] /\ Heard(d, k)' = sounded'[<<d, v>>]
                   /\ <<d, v>> \in Udids \X Ids /\ (<<d, v>> = id <=> d = e.udid /\ v = e.id)
      BY <2>1 DEF Heard
    <3>3. v # 0 => (Heard(d, k)' # 0 <=> Heard(d, k) # 0 \/ (d = e.udid /\ v = e.id))
      BY <1>10, <3>2
    <3>4. UserOf(k) \in Users
      BY DEF Keys, UserOf
    <3>5. Arriving \in Seq(Events) /\ e = Head(Arriving) /\ Arriving # <<>>
      BY <1>1, <1>17
    <3> HIDE DEF A, B, v
    <3>6. CASE e \in A
      <4>1. e.id = v => AlertId(d, k)' = v
        <5>1. CASE e.id = 0
          BY <1>11, <2>1, <3>1, <3>6, <5>1 DEF AlertId, v
        <5>2. CASE e.id # 0 /\ ~Seen(e)
          <6>1. alerts'[<<d, UserOf(k)>>] = e
            BY <1>11, <3>1, <3>6, <5>2
          <6>2. AlertId(d, k)' = e.id \/ AlertId(d, k)' = v
            BY <2>1, <6>1 DEF AlertId, v
          <6> QED BY <6>2
        <5>3. CASE e.id # 0 /\ Seen(e) /\ e.id = v
          <6>1. Heard(d, k) # 0
            BY <3>1, <3>2, <3>6, <5>3 DEF WInv, SoundsFit, Seen, ToSet
          <6>2. AlertId(d, k) = v
            BY <2>4, <5>3, <6>1 DEF News
          <6>3. alerts' = alerts
            BY <1>11, <5>3
          <6> QED BY <2>1, <6>2, <6>3 DEF AlertId
        <5> QED BY <5>1, <5>2, <5>3
      <4>2. v # 0 => (Heard(d, k)' # 0 <=> Heard(d, k) # 0 \/ e.id = v)
        BY <3>1, <3>3, <3>6
      <4>3. News(Tail(Arriving), A, Waiting(d), B, v, Heard(d, k)', AlertId(d, k)')
        BY <2>4, <3>5, <3>6, <4>1, <4>2, HandledNews
      <4> QED BY <1>17, <2>1, <4>3 DEF NewsFit, A, B, v
    <3>7. CASE e \notin A
      <4>1. News(Tail(Arriving), A, Waiting(d), B, v, Heard(d, k), AlertId(d, k))
        BY <2>4, <3>5, <3>7, PassedNews
      <4>2. v # 0 => (Heard(d, k)' # 0 <=> Heard(d, k) # 0)
        <5>1. v # 0 /\ d = e.udid /\ v = e.id => e.key = k
          BY <1>15 DEF LineFits, v
        <5> QED BY <3>1, <3>3, <3>7, <5>1
      <4>3. AlertId(d, k)' = AlertId(d, k) \/ AlertId(d, k)' = v
        BY <1>11, <2>1, <3>1, <3>4, <3>7 DEF AlertId, v
      <4>4. News(Tail(Arriving), A, Waiting(d), B, v, Heard(d, k)', AlertId(d, k)')
        BY <4>1, <4>2, <4>3 DEF News
      <4> QED BY <1>17, <2>1, <4>4 DEF NewsFit, A, B, v
    <3> QED BY <3>6, <3>7
  <2> QED BY <2>1, <2>2, <2>3, <2>4 DEF NewsFit
<1> QED BY <1>10, <1>12, <1>13, <1>14, <1>16, <1>18 DEF WInv

-----------------------------------------------------------------------------
(* The hub cancels and starts collectors.                                  *)

LEMMA ReconcileStep ==
  ASSUME WInv, Reconcile
  PROVE  WInv'
<1> DEFINE free == {c \in Slots : collector[c].pc = "none" /\ collector[c].ensure = {}}
           start == ToStart(Desired)
           Gone(c) == \E d \in Udids \ Desired : running[d] = c
           first(d) == [NoCollector EXCEPT !.pc = "listing", !.udid = d]
           same(c) == [collector[c] EXCEPT !.cancelled = @ \/ Gone(c)]
<1>1. PICK new \in [start -> free] :
        /\ \A d, e \in start : new[d] = new[e] => d = e
        /\ running' = [d \in Udids |-> IF d \in start THEN new[d] ELSE Unwanted(Desired)[d]]
        /\ collector' = [c \in Slots |->
              IF \E d \in start : new[d] = c
              THEN [NoCollector EXCEPT !.pc = "listing", !.udid = CHOOSE d \in start : new[d] = c]
              ELSE [collector[c] EXCEPT !.cancelled = @ \/ Gone(c)]]
  BY DEF Reconcile
<1>2. /\ TypeOK
      /\ \A c \in Slots : collector[c] \in Collector /\ CollectorFits(collector[c])
      /\ \A d \in Udids : running[d] # None =>
           /\ running[d] \in Slots /\ collector[running[d]].pc # "none"
           /\ collector[running[d]].udid = d /\ ~collector[running[d]].cancelled
      /\ \A c \in Slots : collector[c].pc # "none" /\ ~collector[c].cancelled => running[collector[c].udid] = c
  BY Types DEF WInv, HubFits
<1>3. UNCHANGED <<phoneVars, tracker, stream, pageVars, blamed, losses>>
  BY DEF Reconcile
<1>4. /\ start \subseteq Udids /\ start \subseteq Desired /\ \A d \in start : running[d] = None
      /\ \A d \in Desired : d \in Udids /\ (d \notin start => running[d] # None)
  BY <1>2 DEF ToStart, Desired, TypeOK
<1>5. \A d \in start : new[d] \in Slots /\ collector[new[d]].pc = "none" /\ collector[new[d]].ensure = {}
  OBVIOUS
<1> HIDE DEF free, start
<1>6. \A d \in Udids : running'[d] = IF d \in start THEN new[d] ELSE IF d \in Desired THEN running[d] ELSE None
  BY <1>1 DEF Unwanted
<1>7. ASSUME NEW d \in Udids
      PROVE  /\ first(d) \in Collector /\ first(d).pc = "listing" /\ first(d).udid = d /\ ~first(d).cancelled
             /\ first(d).todo = <<>> /\ ~first(d).alive /\ first(d).ensure = {}
  <2>1. <<>> \in Seq(Lines)
    OBVIOUS
  <2> QED BY <2>1 DEF NoCollector, Collector
<1>8. ASSUME NEW c \in Slots
      PROVE  /\ same(c) \in Collector /\ same(c).pc = collector[c].pc /\ same(c).udid = collector[c].udid
             /\ (same(c).cancelled <=> collector[c].cancelled \/ Gone(c)) /\ same(c).todo = collector[c].todo
             /\ same(c).alive = collector[c].alive /\ same(c).ensure = collector[c].ensure
  <2>1. Gone(c) \in BOOLEAN
    OBVIOUS
  <2> HIDE DEF Gone
  <2> QED BY <1>2, <2>1 DEF Collector
<1> HIDE DEF first, same
<1>9. ASSUME NEW c \in Slots
      PROVE  \/ \E d \in start : new[d] = c /\ collector'[c] = first(d)
             \/ (\A d \in start : new[d] # c) /\ collector'[c] = same(c)
  <2>1. CASE \E d \in start : new[d] = c
    <3>1. PICK d \in start : new[d] = c
      BY <2>1
    <3>2. (CHOOSE b \in start : new[b] = c) = d
      BY <1>1, <3>1
    <3>3. collector'[c] = [NoCollector EXCEPT !.pc = "listing", !.udid = CHOOSE b \in start : new[b] = c]
      BY <1>1, <2>1
    <3> QED BY <3>1, <3>2, <3>3 DEF first
  <2>2. CASE ~\E d \in start : new[d] = c
    BY <1>1, <2>2 DEF same
  <2> QED BY <2>1, <2>2
<1>10. collector' \in [Slots -> Collector]
  <2>1. \A c \in Slots : collector'[c] \in Collector
    BY <1>4, <1>7, <1>8, <1>9
  <2> QED BY <1>1, <2>1
<1>11. running' \in [Udids -> Slots \cup {None}]
  <2>1. \A d \in Udids : running'[d] \in Slots \cup {None}
    BY <1>2, <1>5, <1>6
  <2> QED BY <1>1, <2>1
<1>12. TypeOK'
  BY <1>2, <1>3, <1>10, <1>11 DEF TypeOK, phoneVars, pageVars
\* What the map has is not free, and is cancelled when its device is no longer desired.
<1>13. ASSUME NEW d \in Udids, running[d] # None
       PROVE  collector'[running[d]] = same(running[d]) /\ (Gone(running[d]) <=> d \notin Desired)
  <2>1. running[d] \in Slots /\ collector[running[d]].pc # "none"
    BY <1>2, <1>13
  <2>2. collector'[running[d]] = same(running[d])
    BY <1>5, <1>9, <2>1
  <2>3. \A e \in Udids : running[e] = running[d] => e = d
    BY <1>2, <1>13
  <2> QED BY <2>2, <2>3
<1>14. (\A c \in Slots : CollectorFits(collector[c]))'
  <2> SUFFICES ASSUME NEW c \in Slots
               PROVE  CollectorFits(collector'[c])
    OBVIOUS
  <2>1. CASE \E d \in start : new[d] = c /\ collector'[c] = first(d)
    BY <1>4, <1>7, <2>1 DEF CollectorFits
  <2>2. CASE collector'[c] = same(c)
    <3>1. collector[c].pc = "none" => ~Gone(c)
      BY <1>2, Bounds
    <3> QED BY <1>2, <1>8, <2>2, <3>1 DEF CollectorFits
  <2> QED BY <1>9, <2>1, <2>2
<1>15. HubFits'
  <2>1. ASSUME NEW d \in Udids, running'[d] # None
        PROVE  collector'[running'[d]].pc # "none" /\ collector'[running'[d]].udid = d
               /\ ~collector'[running'[d]].cancelled
    <3>1. CASE d \in start
      <4>1. running'[d] = new[d] /\ new[d] \in Slots
        BY <1>5, <1>6, <3>1
      <4>2. collector'[new[d]] = first(d)
        BY <1>1, <1>9, <3>1, <4>1
      <4> QED BY <1>7, <4>1, <4>2
    <3>2. CASE d \notin start
      <4>1. d \in Desired /\ running'[d] = running[d] /\ running[d] # None
        BY <1>6, <2>1, <3>2
      <4> QED BY <1>2, <1>8, <1>13, <4>1
    <3> QED BY <3>1, <3>2
  <2>2. ASSUME NEW c \in Slots, collector'[c].pc # "none", ~collector'[c].cancelled
        PROVE  running'[collector'[c].udid] = c
    <3>1. CASE \E d \in start : new[d] = c /\ collector'[c] = first(d)
      BY <1>4, <1>6, <1>7, <3>1
    <3>2. CASE (\A d \in start : new[d] # c) /\ collector'[c] = same(c)
      <4> DEFINE d == collector[c].udid
      <4>1. collector[c].pc # "none" /\ ~collector[c].cancelled /\ ~Gone(c) /\ collector'[c].udid = d
        BY <1>8, <2>2, <3>2
      <4>2. running[d] = c /\ d \in Udids
        BY <1>2, <4>1 DEF CollectorFits
      <4>3. d \in Desired /\ c # None
        BY <4>1, <4>2, Bounds
      <4>4. d \notin start
        BY <1>4, <4>2, <4>3
      <4> QED BY <1>6, <4>1, <4>2, <4>3, <4>4
    <3> QED BY <1>9, <3>1, <3>2
  <2> QED BY <2>1, <2>2 DEF HubFits
<1>16. IdsFit'
  <2>1. ASSUME NEW c \in Slots, NEW i \in DOMAIN collector'[c].todo
        PROVE  LineFits(collector'[c].udid, collector'[c].todo[i].key, collector'[c].todo[i].id)
    <3>1. collector'[c].todo # <<>>
      BY <2>1
    <3>2. collector'[c] = same(c)
      BY <1>4, <1>7, <1>9, <3>1
    <3> QED BY <1>8, <2>1, <3>2 DEF WInv, IdsFit
  <2>2. \A s \in Streams : \A i \in DOMAIN stream'[s].events :
          LineFits(stream'[s].events[i].udid, stream'[s].events[i].key, stream'[s].events[i].id)
    BY <1>3 DEF WInv, IdsFit
  <2> QED BY <1>3, <2>1, <2>2, IdsKept DEF phoneVars, pageVars
<1>17. LastFits' /\ SoundsFit' /\ PageFits'
  BY <1>3 DEF WInv, LastFits, SoundsFit, PageFits, phoneVars, pageVars
<1>18. ASSUME NEW d \in Udids, NEW k \in Keys
       PROVE  NewsFit(d, k)'
  <2> DEFINE B == LinesOf(k)
  <2>1. CASE running[d] # None /\ d \notin Desired /\ Pos(collector[running[d]].todo, B) # {}
    <3>1. running[d] \in Slots /\ collector'[running[d]] = same(running[d]) /\ Gone(running[d])
      BY <1>2, <1>13, <2>1
    <3>2. /\ collector'[running[d]].udid = d /\ collector'[running[d]].cancelled
          /\ Pos(collector'[running[d]].todo, B) # {}
      BY <1>2, <1>8, <2>1, <3>1
    <3> QED BY <3>1, <3>2 DEF NewsFit, LinesOf
  <2>2. CASE ~(running[d] # None /\ d \notin Desired /\ Pos(collector[running[d]].todo, B) # {})
    <3>1. /\ Pos(Waiting(d)', B) = Pos(Waiting(d), B)
          /\ \A i \in Pos(Waiting(d), B) : Waiting(d)'[i] = Waiting(d)[i]
      <4>1. CASE running[d] = None
        <5>1. Waiting(d) = <<>>
          BY <4>1 DEF Waiting
        <5>2. Waiting(d)' = <<>>
          <6>1. CASE d \in start
            <7>1. running'[d] = new[d] /\ new[d] \in Slots
              BY <1>5, <1>6, <6>1
            <7>2. collector'[new[d]] = first(d)
              BY <1>1, <1>9, <6>1, <7>1
            <7> QED BY <1>7, <7>1, <7>2 DEF Waiting
          <6>2. CASE d \notin start
            <7>1. running'[d] = None
              BY <1>6, <4>1, <6>2
            <7> QED BY <7>1 DEF Waiting
          <6> QED BY <6>1, <6>2
        <5> QED BY <5>1, <5>2
      <4>2. CASE running[d] # None /\ d \in Desired
        <5>1. d \notin start /\ running'[d] = running[d]
          BY <1>4, <1>6, <4>2
        <5>2. collector'[running[d]].todo = collector[running[d]].todo
          BY <1>2, <1>8, <1>13, <4>2
        <5>3. Waiting(d)' = Waiting(d)
          BY <5>1, <5>2 DEF Waiting
        <5> QED BY <5>3
      <4>3. CASE running[d] # None /\ d \notin Desired
        <5>1. running'[d] = None
          BY <1>4, <1>6, <4>3
        <5>2. Waiting(d)' = <<>> /\ Waiting(d) = collector[running[d]].todo
          BY <4>3, <5>1 DEF Waiting
        <5>3. Pos(Waiting(d), B) = {}
          BY <2>2, <4>3, <5>2
        <5> QED BY <5>2, <5>3, EmptyPos
      <4> QED BY <4>1, <4>2, <4>3
    <3>2. NewsFit(d, k) /\ Arriving' = Arriving /\ blamed' = blamed
          /\ shown' = shown /\ sounded' = sounded /\ alerts' = alerts
      BY <1>3 DEF WInv, Arriving, phoneVars, pageVars
    <3>3. ASSUME NEW c \in Slots, collector[c].udid = d, collector[c].cancelled, Pos(collector[c].todo, B) # {}
          PROVE  collector'[c].udid = d /\ collector'[c].cancelled /\ Pos(collector'[c].todo, B) # {}
      <4>1. collector[c].pc # "none"
        BY <1>2, <3>3 DEF CollectorFits
      <4>2. collector'[c] = same(c)
        BY <1>5, <1>9, <4>1
      <4> QED BY <1>8, <3>3, <4>2
    <3> QED BY <3>1, <3>2, <3>3, NewsKept
  <2> QED BY <2>1, <2>2
<1> QED BY <1>12, <1>14, <1>15, <1>16, <1>17, <1>18 DEF WInv

-----------------------------------------------------------------------------
(* The theorems.                                                           *)

LEMMA InitHolds ==
  ASSUME Init
  PROVE  WInv
<1>1. \A d \in Udids, k \in Keys : shown[d][k] = 0
  BY DEF Init
<1>2. \A c \in Slots : collector[c] = NoCollector
  BY DEF Init
<1>3. \A s \in Streams : stream[s] = NoStream
  BY DEF Init
<1>4. /\ NoCollector \in Collector /\ NoCollector.pc = "none" /\ NoCollector.todo = <<>>
      /\ NoCollector.udid = None /\ ~NoCollector.cancelled /\ ~NoCollector.alive /\ NoCollector.ensure = {}
  <2>1. <<>> \in Seq(Lines)
    OBVIOUS
  <2> QED BY <2>1 DEF NoCollector, Collector
<1>5. NoStream \in Stream /\ NoStream.events = <<>> /\ NoStream.state = "none"
  <2>1. <<>> \in Seq(Events) /\ {} \in SUBSET Udids
    OBVIOUS
  <2> QED BY <2>1 DEF NoStream, Stream
<1>6. TypeOK
  <2>1. <<>> \in Seq(Udids \X Ids) /\ Len(<<>>) = 0 /\ 0 <= SeenCap /\ 0 <= ChanCap /\ 0 \in 0 .. SeenCap + 1
        /\ 0 \in 0 .. MaxPosts /\ 0 \in 0 .. MaxLosses
    BY Bounds
  <2>2. collector \in [Slots -> Collector] /\ stream \in [Streams -> Stream]
    BY <1>4, <1>5 DEF Init
  <2>3. \A s \in Streams : Len(stream[s].events) <= ChanCap
    BY <1>3, <1>5, <2>1
  <2> QED BY <2>1, <2>2, <2>3 DEF Init, TypeOK
<1>7. \A c \in Slots : CollectorFits(collector[c])
  BY <1>2, <1>4 DEF CollectorFits
<1>8. HubFits
  BY <1>2, <1>4 DEF Init, HubFits
<1>9. LastFits /\ SoundsFit /\ PageFits
  <2>1. DOMAIN seen = {} /\ \A f \in Udids \X Ids : sounded[f] = 0
    BY DEF Init
  <2> QED BY <2>1 DEF Init, LastFits, SoundsFit, PageFits
<1>10. IdsFit
  <2>1. \A d \in Udids : last[d] = <<>>
    BY DEF Init
  <2>2. \A d \in Udids, k \in Keys : LineFits(d, k, shown[d][k])
    BY <1>1 DEF LineFits, Init
  <2>3. \A c \in Slots : DOMAIN collector[c].todo = {}
    BY <1>2, <1>4
  <2>4. \A s \in Streams : DOMAIN stream[s].events = {}
    BY <1>3, <1>5
  <2>5. \A d \in Udids, i \in Ids : sounded[<<d, i>>] = 0
    BY DEF Init
  <2> QED BY <2>1, <2>2, <2>3, <2>4, <2>5 DEF IdsFit
<1>11. ASSUME NEW d \in Udids, NEW k \in Keys
       PROVE  NewsFit(d, k)
  <2>1. Arriving = <<>> /\ Waiting(d) = <<>>
    BY DEF Init, Arriving, Waiting
  <2>2. AlertId(d, k) = shown[d][k] /\ shown[d][k] = 0
    BY <1>1 DEF AlertId, Init, Keys, UserOf
  <2> QED BY <2>1, <2>2, EmptyPos DEF NewsFit, News, Ends
<1> QED BY <1>6, <1>7, <1>8, <1>9, <1>10, <1>11 DEF WInv

LEMMA StutterStep ==
  ASSUME WInv, UNCHANGED vars
  PROVE  WInv'
<1>1. /\ TypeOK' /\ PageFits' /\ Arriving' = Arriving
      /\ UNCHANGED <<shown, enabled, last, posts, running, collector, seen, sounded, repeated, blamed, alerts, stream>>
  BY DEF vars, phoneVars, hubVars, pageVars, WInv, TypeOK, PageFits, Arriving
<1> QED BY <1>1, PageQuiet

\* Every step keeps the invariant.
THEOREM AlertsInductive == Spec => []WInv
<1>1. Init => WInv
  BY InitHolds
<1>2. WInv /\ [Next]_vars => WInv'
  <2> SUFFICES ASSUME WInv, [Next]_vars PROVE WInv'
    OBVIOUS
  <2>1. ASSUME NEW d \in Udids, NEW k \in Keys, Post(d, k)
        PROVE  WInv'
    BY <2>1, PostStep
  <2>2. ASSUME NEW d \in Udids, NEW k \in Keys, Withdraw(d, k)
        PROVE  WInv'
    BY <2>2, WithdrawStep
  <2>3. ASSUME NEW d \in Udids, NEW u \in Users, Acknowledge(d, u)
        PROVE  WInv'
    BY <2>3, AcknowledgeStep
  <2>4. ASSUME NEW c \in Slots,
               Ensure(c) \/ StartLogcat(c) \/ Attach(c) \/ Dies(c) \/ Publish(c) \/ ScanEnds(c)
        PROVE  WInv'
    BY <2>4, EnsureStep, StartLogcatStep, AttachStep, DiesStep, PublishStep, ScanEndsStep
  <2>5. ASSUME NEW s \in Streams, HandlerReturns(s)
        PROVE  WInv'
    BY <2>5, HandlerReturnsStep
  <2>6. ASSUME Poll \/ Reconcile \/ Monitor \/ Disconnect \/ Connect \/ Handle
        PROVE  WInv'
    BY <2>6, PollStep, ReconcileStep, MonitorStep, DisconnectStep, ConnectStep, HandleStep
  <2>7. CASE UNCHANGED vars
    BY <2>7, StutterStep
  <2> QED BY <2>1, <2>2, <2>3, <2>4, <2>5, <2>6, <2>7 DEF Next
<1> QED BY <1>1, <1>2, PTL DEF Spec

\* The types of the state: no channel is above its capacity (publish's default case),
\* and the page remembers no more ids than it may (seenEventIdsRef).
THEOREM TypeCorrect == Spec => []TypeOK
<1>1. WInv => TypeOK
  BY DEF WInv
<1> QED BY <1>1, AlertsInductive, PTL

\* A device never has two collectors that are not cancelled, and the hub's map has
\* the one it has (reconcileCollectors).
THEOREM CollectorsAreSingle == Spec => []OneLiveCollector
<1>1. ASSUME WInv
      PROVE  OneLiveCollector
  <2> SUFFICES ASSUME NEW d \in Udids
               PROVE  Live(d) = IF running[d] = None THEN {} ELSE {running[d]}
    BY DEF OneLiveCollector
  <2>1. \A c \in Live(d) : c \in Slots /\ running[d] = c
    BY <1>1 DEF Live, WInv, HubFits
  <2>2. running[d] # None => running[d] \in Live(d)
    BY <1>1, Types DEF Live, WInv, HubFits
  <2>3. \A c \in Slots : c # None
    BY Bounds
  <2> QED BY <2>1, <2>2, <2>3
<1> QED BY <1>1, AlertsInductive, PTL

\* An event sounds again only after SeenCap others, however often it is repeated by the
\* log and by collectors (handleEvent, seenEventIdsRef).
THEOREM EventsSoundOnce == Spec => []SoundsOnce
<1>1. WInv => SoundsOnce
  BY DEF WInv, SoundsFit, SoundsOnce
<1> QED BY <1>1, AlertsInductive, PTL

\* With nothing on its way and nothing lost, the alert is the notification's and it has
\* sounded.
LEMMA ArrivedLemma ==
  ASSUME WInv, NEW d \in Udids, NEW k \in Keys, ~Coming(d, k), <<d, k>> \notin blamed
  PROVE  AlertId(d, k) = shown[d][k] /\ (shown[d][k] # 0 => sounded[<<d, shown[d][k]>>] # 0)
<1>1. /\ TypeOK /\ NewsFit(d, k)
      /\ \A c \in Slots : collector[c].todo \in Seq(Lines)
      /\ running[d] # None => running[d] \in Slots /\ collector[running[d]].udid = d
      /\ conn # None => conn \in Streams /\ stream[conn].events \in Seq(Events)
  BY Types DEF WInv, HubFits
<1>2. \A c \in Slots : collector[c].udid = d => Pos(collector[c].todo, LinesOf(k)) = {}
  BY <1>1, KeysOfLemma DEF Coming
<1>3. Pos(Waiting(d), LinesOf(k)) = {}
  BY <1>1, <1>2, EmptyPos DEF Waiting
<1>4. Pos(Arriving, EventsOf(d, k)) = {}
  <2>1. CASE conn = None
    BY <2>1, EmptyPos DEF Arriving
  <2>2. CASE conn # None
    <3>1. \A i \in DOMAIN stream[conn].events : stream[conn].events[i] \in ToSet(stream[conn].events)
      BY DEF ToSet
    <3>2. \A i \in DOMAIN stream[conn].events : ~(/\ stream[conn].events[i].udid = d
                                                  /\ stream[conn].events[i].key = k)
      BY <2>2, <3>1 DEF Coming
    <3> QED BY <2>2, <3>2 DEF Arriving, Pos, EventsOf
  <2> QED BY <2>1, <2>2
<1>5. News(Arriving, EventsOf(d, k), Waiting(d), LinesOf(k), shown[d][k], Heard(d, k), AlertId(d, k))
  BY <1>1, <1>2 DEF NewsFit
<1> QED BY <1>3, <1>4, <1>5 DEF News, Heard

\* An alert whose notification the phone no longer shows has the news on its way, unless
\* a line about it was lost or came late (handleEvent, publish, collectDevice).
THEOREM StaleAlertsHaveNews == Spec => []StaleAlertsAreExplained
<1>1. ASSUME WInv
      PROVE  StaleAlertsAreExplained
  <2> SUFFICES ASSUME NEW d \in Udids, NEW u \in Users, alerts[<<d, u>>] # None,
                      shown[d][alerts[<<d, u>>].key] # alerts[<<d, u>>].id
               PROVE  Coming(d, alerts[<<d, u>>].key) \/ <<d, alerts[<<d, u>>].key>> \in blamed
    BY DEF StaleAlertsAreExplained
  <2> DEFINE a == alerts[<<d, u>>]
             k == a.key
  <2>1. a \in Events /\ UserOf(k) = u
    BY <1>1 DEF WInv, TypeOK, PageFits
  <2>2. k \in Keys
    BY <2>1, RecordTypes
  <2>3. AlertId(d, k) = a.id
    BY <2>1 DEF AlertId
  <2> QED BY <1>1, <2>2, <2>3, ArrivedLemma
<1> QED BY <1>1, AlertsInductive, PTL

\* A notification the phone shows has sounded in the page, or a line about it is on its
\* way, unless a line about it was lost.
THEOREM NotificationsAreHeard == Spec => []NotificationsArrive
<1>1. WInv => NotificationsArrive
  BY ArrivedLemma DEF NotificationsArrive
<1> QED BY <1>1, AlertsInductive, PTL
=============================================================================
