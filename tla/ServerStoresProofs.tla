------------------------ MODULE ServerStoresProofs ------------------------
(***************************************************************************)
(* Proofs about what server-go keeps in files: the mapping of endpoints to *)
(* phones (DeviceList), which survives a restart, for any phones, endpoints*)
(* and loops; and the settings and accounts (SettingsStore), of which the  *)
(* last change is what the server has, or is known to be lost, for any     *)
(* browsers, keys, accounts and requests.  The two share no variable.      *)
(***************************************************************************)
EXTENDS DeviceList, SettingsStore, TLAPS

-----------------------------------------------------------------------------
(* The mapping of endpoints to phones.                                     *)

\* What a loop or a request is about is known where it is used.
Keyed ==
  /\ \A l \in Loops :
       /\ loop[l].pc \in {"asking", "storing"} => loop[l].key \in Endpoints
       /\ loop[l].pc = "storing" => loop[l].answer \in Serials
  /\ req.pc # "none" => req.serial \in Serials
  /\ req.pc \notin {"none", "ip"} => req.endpoint \in Endpoints

\* What a start of the server would read.
Loaded == IF disk = Broken THEN NoMapping ELSE disk

\* As long as no write has failed, the file is what the server would write again.
FileAgrees == spent.faults = 0 => mapping = Loaded

IInv == TypeOK /\ Keyed /\ FileAgrees

-----------------------------------------------------------------------------
LEMMA InitHolds == Init => IInv
<1>1. SUFFICES ASSUME Init PROVE IInv
  OBVIOUS
<1>2. EmptyList \in Lists /\ NoMapping \in Mappings
  BY DEF EmptyList, Lists, NoMapping, Mappings
<1>3. NoLoop \in Loop /\ NoReq \in Req /\ Absent \in Device
  BY <1>2 DEF NoLoop, Loop, NoReq, Req, Absent, Device
<1>4. link \in [Endpoints -> {"none", "offline", "device"}]
  BY <1>1 DEF Init
<1>5. page \in Page /\ spent \in Spent
  BY <1>1, <1>3, DeviceConstants DEF Init, Page, Spent
<1>6. TypeOK
  BY <1>1, <1>2, <1>3, <1>4, <1>5 DEF Init, TypeOK, Ids
<1>7. Keyed
  BY <1>1 DEF Init, Keyed, NoLoop, NoReq
<1>8. FileAgrees
  BY <1>1, <1>2, DeviceConstants DEF Init, FileAgrees, Loaded, Mappings
<1> QED BY <1>6, <1>7, <1>8 DEF IInv

\* A counter that is below its bound stays in its range, and the others are kept.
LEMMA SpendLemma ==
  ASSUME spent \in Spent, NEW what,
         \/ what = "changes" /\ spent.changes < MaxChanges
         \/ what = "requests" /\ spent.requests < MaxRequests
         \/ what = "stops" /\ spent.stops < MaxStops
         \/ what = "faults" /\ spent.faults < MaxFaults,
         Spend(what)
  PROVE  /\ spent' \in Spent
         /\ what # "faults" => spent'.faults = spent.faults
         /\ what = "faults" => spent'.faults # 0
BY DeviceConstants DEF Spend, Spent

LEMMA LoopLemma ==
  ASSUME loop \in [Loops -> Loop], NEW l \in Loops, NEW s \in Loop, Goto(l, s)
  PROVE  /\ loop' \in [Loops -> Loop] /\ loop'[l] = s
         /\ \A k \in Loops \ {l} : loop'[k] = loop[k]
BY DEF Goto

LEMMA NoLoopType == NoLoop \in Loop
BY DEF NoLoop, Loop, EmptyList, Lists

LEMMA NoReqType == NoReq \in Req
BY DEF NoReq, Req

LEMMA ListedLemma ==
  ASSUME loop \in [Loops -> Loop], NEW l \in Loops, NEW e \in Endpoints,
         NEW s \in Serials \cup {None}
  PROVE  Listed(l, e, s) \in Loop /\ Listed(l, e, s).pc = "resolve"
<1>1. loop[l] \in Loop
  OBVIOUS
<1>2. [loop[l].list EXCEPT ![e] = s] \in Lists
  BY <1>1 DEF Loop, Lists
<1> QED BY <1>1, <1>2 DEF Listed, Loop

\* A change of the mapping is written, or else counted as a fault.
LEMMA SaveLemma ==
  ASSUME TypeOK, FileAgrees, NEW m \in Mappings, mapping' = m, Save(m)
  PROVE  mapping' \in Mappings /\ disk' \in Mappings \cup {Broken} /\ spent' \in Spent /\ FileAgrees'
<1>1. CASE disk' = m /\ UNCHANGED spent
  <2>1. m # Broken
    BY DeviceConstants DEF Mappings
  <2> QED BY <1>1, <2>1 DEF TypeOK, FileAgrees, Loaded
<1>2. CASE spent.faults < MaxFaults /\ Spend("faults") /\ disk' \in {disk, Broken}
  <2>1. spent' \in Spent /\ spent'.faults # 0
    BY <1>2, SpendLemma DEF TypeOK
  <2> QED BY <1>2, <2>1 DEF TypeOK, FileAgrees
<1> QED BY <1>1, <1>2 DEF Save

LEMMA UpdateType ==
  ASSUME mapping \in Mappings, NEW e \in Endpoints, NEW s \in Serials \cup {None}
  PROVE  [mapping EXCEPT ![e] = s] \in Mappings
BY DEF Mappings

-----------------------------------------------------------------------------
(* The steps of phones and links.                                          *)

LEMMA CableStep == ASSUME IInv, NEW s \in Serials, Cable(s) PROVE IInv'
<1>1. spent' \in Spent /\ spent'.faults = spent.faults
  BY SpendLemma DEF Cable, IInv, TypeOK
<1>2. phone' \in [Serials -> [usb : BOOLEAN, at : Endpoints \cup {None}, tcp : BOOLEAN]]
  BY DEF Cable, IInv, TypeOK
<1> QED BY <1>1, <1>2 DEF Cable, IInv, TypeOK, Keyed, FileAgrees, Loaded, serverVars

LEMMA MovesStep ==
  ASSUME IInv, NEW s \in Serials, NEW e \in Endpoints \cup {None}, Moves(s, e) PROVE IInv'
<1>1. spent' \in Spent /\ spent'.faults = spent.faults
  BY SpendLemma DEF Moves, IInv, TypeOK
<1>2. phone' \in [Serials -> [usb : BOOLEAN, at : Endpoints \cup {None}, tcp : BOOLEAN]]
  BY DEF Moves, IInv, TypeOK
<1>3. link' \in [Endpoints -> {"none", "offline", "device"}]
  BY DEF Moves, IInv, TypeOK
<1> QED BY <1>1, <1>2, <1>3 DEF Moves, IInv, TypeOK, Keyed, FileAgrees, Loaded, serverVars

LEMMA LinkStep ==
  ASSUME IInv, NEW e \in Endpoints, LinkDrops(e) \/ LinkReturns(e) PROVE IInv'
<1>1. link' \in [Endpoints -> {"none", "offline", "device"}]
  BY DEF LinkDrops, LinkReturns, IInv, TypeOK
<1>2. spent' \in Spent /\ spent'.faults = spent.faults
  <2>1. CASE LinkDrops(e)
    BY <2>1, SpendLemma DEF LinkDrops, IInv, TypeOK
  <2>2. CASE LinkReturns(e)
    BY <2>2 DEF LinkReturns, IInv, TypeOK
  <2> QED BY <2>1, <2>2
<1> QED BY <1>1, <1>2
        DEF LinkDrops, LinkReturns, IInv, TypeOK, Keyed, FileAgrees, Loaded, serverVars

LEMMA PollStep == ASSUME IInv, Poll PROVE IInv'
<1>1. tracked' \subseteq Ids
  BY DEF Poll, Online, Ids
<1> QED BY <1>1 DEF Poll, IInv, TypeOK, Keyed, FileAgrees, Loaded, phoneVars

LEMMA FailureExpiresStep ==
  ASSUME IInv, NEW e \in Endpoints, FailureExpires(e) PROVE IInv'
BY DEF FailureExpires, IInv, TypeOK, Keyed, FileAgrees, Loaded, phoneVars

-----------------------------------------------------------------------------
(* The steps of a loop and of the page.                                    *)

LEMMA OpensStep == ASSUME IInv, NEW l \in Loops, Opens(l) PROVE IInv'
<1>1. [NoLoop EXCEPT !.pc = "begin"] \in Loop /\ [NoLoop EXCEPT !.pc = "begin"].pc = "begin"
  BY NoLoopType DEF Loop
<1>2. /\ loop' \in [Loops -> Loop] /\ loop'[l].pc = "begin"
      /\ \A k \in Loops \ {l} : loop'[k] = loop[k]
  BY <1>1, LoopLemma DEF Opens, IInv, TypeOK
<1>3. page' \in Page
  BY DEF Opens, IInv, TypeOK, Page
<1>4. Keyed'
  BY <1>2 DEF Opens, IInv, Keyed
<1> QED BY <1>2, <1>3, <1>4 DEF Opens, IInv, TypeOK, FileAgrees, Loaded, phoneVars, serverVars

LEMMA ClosesStep == ASSUME IInv, Closes PROVE IInv'
<1>1. spent' \in Spent /\ spent'.faults = spent.faults
  BY SpendLemma DEF Closes, IInv, TypeOK
<1>2. page' \in Page
  BY DEF Closes, IInv, TypeOK, Page
<1> QED BY <1>1, <1>2 DEF Closes, IInv, TypeOK, Keyed, FileAgrees, Loaded, phoneVars, serverVars

\* A step of one loop that leaves the mapping alone.
LEMMA LoopOnly ==
  ASSUME IInv, NEW l \in Loops, NEW s \in Loop, Goto(l, s),
         s.pc \in {"asking", "storing"} => s.key \in Endpoints,
         s.pc = "storing" => s.answer \in Serials,
         failed' \subseteq Endpoints, page' \in Page,
         UNCHANGED <<phoneVars, tracked, mapping, disk, req, spent>>
  PROVE  IInv'
<1>1. /\ loop' \in [Loops -> Loop] /\ loop'[l] = s
      /\ \A k \in Loops \ {l} : loop'[k] = loop[k]
  BY LoopLemma DEF IInv, TypeOK
<1>2. Keyed'
  BY <1>1 DEF IInv, Keyed
<1> QED BY <1>1, <1>2 DEF IInv, TypeOK, FileAgrees, Loaded, phoneVars

LEMMA BeginStep == ASSUME IInv, NEW l \in Loops, Begin(l) PROVE IInv'
<1> DEFINE first == [NoLoop EXCEPT !.pc = "resolve", !.todo = tracked \cap Endpoints,
                       !.list = [i \in Ids |-> IF i \in tracked \cap Serials THEN i ELSE None]]
<1>1. first \in Loop /\ first.pc = "resolve"
  BY NoLoopType DEF Loop, Lists
<1>2. NoLoop \in Loop /\ NoLoop.pc = "none"
  BY NoLoopType DEF NoLoop
<1>3. Goto(l, NoLoop) \/ Goto(l, first)
  BY DEF Begin
<1> HIDE DEF first
<1> QED BY <1>1, <1>2, <1>3, LoopOnly DEF Begin, IInv, TypeOK, serverVars

LEMMA ResolveStep ==
  ASSUME IInv, NEW l \in Loops, NEW e \in Endpoints, Resolve(l, e) PROVE IInv'
<1> DEFINE ask == [loop[l] EXCEPT !.pc = "asking", !.key = e]
<1>1. ask \in Loop /\ ask.pc = "asking" /\ ask.key = e
  BY DEF IInv, TypeOK, Loop
<1>2. mapping[e] \in Serials \cup {None}
  BY DEF IInv, TypeOK, Mappings
<1>3. \/ Goto(l, Listed(l, e, mapping[e])) \/ Goto(l, Listed(l, e, None)) \/ Goto(l, ask)
  BY DEF Resolve
<1>4. UNCHANGED <<phoneVars, tracked, mapping, disk, req, spent>> /\ failed' \subseteq Endpoints
      /\ page' \in Page
  BY DEF Resolve, IInv, TypeOK, serverVars
<1> HIDE DEF ask
<1>5. CASE Goto(l, ask)
  BY <1>1, <1>4, <1>5, LoopOnly
<1>6. CASE \E s \in Serials \cup {None} : Goto(l, Listed(l, e, s))
  BY <1>4, <1>6, ListedLemma, LoopOnly DEF IInv, TypeOK
<1> QED BY <1>2, <1>3, <1>5, <1>6

LEMMA AnswersStep == ASSUME IInv, NEW l \in Loops, Answers(l) PROVE IInv'
<1>1. PICK s \in Listening(loop[l].key) : Goto(l, [loop[l] EXCEPT !.pc = "storing", !.answer = s])
  BY DEF Answers
<1>2. s \in Serials /\ loop[l].key \in Endpoints /\ loop[l] \in Loop
  BY <1>1 DEF Answers, Listening, IInv, Keyed, TypeOK
<1> DEFINE next == [loop[l] EXCEPT !.pc = "storing", !.answer = s]
<1>3. next \in Loop /\ next.pc = "storing" /\ next.key \in Endpoints /\ next.answer \in Serials
  BY <1>2 DEF Loop
<1> HIDE DEF next
<1> QED BY <1>1, <1>3, LoopOnly DEF Answers, IInv, TypeOK, serverVars, next

LEMMA AnswerFailsStep == ASSUME IInv, NEW l \in Loops, AnswerFails(l) PROVE IInv'
<1>1. loop[l].key \in Endpoints
  BY DEF AnswerFails, IInv, Keyed
<1>2. Listed(l, loop[l].key, None) \in Loop /\ Listed(l, loop[l].key, None).pc = "resolve"
  BY <1>1, ListedLemma DEF IInv, TypeOK
<1> QED BY <1>1, <1>2, LoopOnly DEF AnswerFails, IInv, TypeOK

LEMMA StoresStep == ASSUME IInv, NEW l \in Loops, Stores(l) PROVE IInv'
<1>1. loop[l].key \in Endpoints /\ loop[l].answer \in Serials
  BY DEF Stores, IInv, Keyed
<1>2. /\ Listed(l, loop[l].key, loop[l].answer) \in Loop
      /\ Listed(l, loop[l].key, loop[l].answer).pc = "resolve"
  BY <1>1, ListedLemma DEF IInv, TypeOK
<1>3. /\ loop' \in [Loops -> Loop] /\ loop'[l].pc = "resolve"
      /\ \A k \in Loops \ {l} : loop'[k] = loop[k]
  BY <1>2, LoopLemma DEF Stores, IInv, TypeOK
<1>4. Keyed'
  BY <1>3 DEF Stores, IInv, Keyed
<1>5. mapping' \in Mappings /\ disk' \in Mappings \cup {Broken} /\ spent' \in Spent /\ FileAgrees'
  BY <1>1, UpdateType, SaveLemma DEF Stores, Remember, IInv, TypeOK
<1> QED BY <1>3, <1>4, <1>5 DEF Stores, IInv, TypeOK, phoneVars

LEMMA MergedType ==
  ASSUME TypeOK, NEW list \in Lists, NEW s \in Serials,
         NEW wifi \in [Serials -> Endpoints \cup {None}]
  PROVE  Merged(list, wifi, s) \in Device
BY DEF TypeOK, Page, Device, Merged, Absent

LEMMA WritesStep == ASSUME IInv, NEW l \in Loops, Writes(l) PROVE IInv'
<1>1. NoLoop \in Loop /\ NoLoop.pc = "none"
  BY NoLoopType DEF NoLoop
<1>2. [NoLoop EXCEPT !.pc = "begin"] \in Loop /\ [NoLoop EXCEPT !.pc = "begin"].pc = "begin"
  BY NoLoopType DEF Loop
<1>3. UNCHANGED <<phoneVars, tracked, mapping, disk, req, spent>> /\ failed' \subseteq Endpoints
  BY DEF Writes, IInv, TypeOK, serverVars
<1>4. CASE Goto(l, NoLoop) /\ UNCHANGED page
  BY <1>1, <1>3, <1>4, LoopOnly DEF IInv, TypeOK
<1>5. CASE /\ Goto(l, [NoLoop EXCEPT !.pc = "begin"])
           /\ \E wifi \in WifiChoices(loop[l].list) :
                page' = [page EXCEPT !.dev = [s \in Serials |-> Merged(loop[l].list, wifi, s)],
                                     !.seen = @ \cup {s \in Serials : Has(loop[l].list, s)}]
  <2>1. PICK wifi \in WifiChoices(loop[l].list) :
          page' = [page EXCEPT !.dev = [s \in Serials |-> Merged(loop[l].list, wifi, s)],
                               !.seen = @ \cup {s \in Serials : Has(loop[l].list, s)}]
    BY <1>5
  <2>2. wifi \in [Serials -> Endpoints \cup {None}] /\ loop[l].list \in Lists
    BY <2>1 DEF WifiChoices, IInv, TypeOK, Loop
  <2>3. [s \in Serials |-> Merged(loop[l].list, wifi, s)] \in [Serials -> Device]
    BY <2>2, MergedType DEF IInv
  <2>4. page' \in Page
    BY <2>1, <2>3 DEF IInv, TypeOK, Page
  <2> QED BY <1>2, <1>3, <1>5, <2>4, LoopOnly
<1> QED BY <1>4, <1>5 DEF Writes

LEMMA GraceEndsStep == ASSUME IInv, NEW s \in Serials, GraceEnds(s) PROVE IInv'
<1>1. page' \in Page
  BY DEF GraceEnds, IInv, TypeOK, Page
<1> QED BY <1>1 DEF GraceEnds, IInv, TypeOK, Keyed, FileAgrees, Loaded, phoneVars, serverVars

-----------------------------------------------------------------------------
(* The steps of a request.                                                 *)

\* What Keyed says of a request.
KnownReq(r) ==
  /\ r.pc # "none" => r.serial \in Serials
  /\ r.pc \notin {"none", "ip"} => r.endpoint \in Endpoints

\* A step of the request that leaves the mapping alone.
LEMMA ReqOnly ==
  ASSUME IInv, NEW r \in Req, ToReq(r), KnownReq(r), spent' \in Spent,
         spent'.faults = spent.faults, page' \in Page,
         phone' \in [Serials -> [usb : BOOLEAN, at : Endpoints \cup {None}, tcp : BOOLEAN]],
         link' \in [Endpoints -> {"none", "offline", "device"}],
         UNCHANGED <<serverVars, loop>>
  PROVE  IInv'
BY DEF ToReq, KnownReq, IInv, TypeOK, Keyed, FileAgrees, Loaded, serverVars

LEMMA RequestWifiStep == ASSUME IInv, NEW s \in Serials, RequestWifi(s) PROVE IInv'
<1>1. spent' \in Spent /\ spent'.faults = spent.faults
  BY SpendLemma DEF RequestWifi, IInv, TypeOK
<1>2. PICK merge \in BOOLEAN :
        ToReq([pc |-> "ip", serial |-> s, endpoint |-> None, merge |-> merge])
  BY DEF RequestWifi
<1> DEFINE r == [pc |-> "ip", serial |-> s, endpoint |-> None, merge |-> merge]
<1>3. r \in Req /\ KnownReq(r)
  BY DEF Req, KnownReq
<1> HIDE DEF r
<1> QED BY <1>1, <1>2, <1>3, ReqOnly DEF RequestWifi, IInv, TypeOK, phoneVars, r

LEMMA RequestUsbStep == ASSUME IInv, NEW s \in Serials, RequestUsb(s) PROVE IInv'
<1>1. spent' \in Spent /\ spent'.faults = spent.faults
  <2>1. spent.requests < MaxRequests /\ Spend("requests") /\ spent \in Spent
    BY DEF RequestUsb, IInv, TypeOK
  <2> QED BY <2>1, SpendLemma
<1>2. CASE UNCHANGED req
  <2>1. ToReq(req) /\ req \in Req /\ KnownReq(req)
    BY <1>2 DEF ToReq, IInv, TypeOK, Keyed, KnownReq
  <2> QED BY <1>1, <2>1, ReqOnly DEF RequestUsb, IInv, TypeOK, phoneVars
<1>3. CASE \E e \in Endpoints :
             ToReq([NoReq EXCEPT !.pc = "disconnect", !.serial = s, !.endpoint = e])
  <2>1. PICK e \in Endpoints :
          ToReq([NoReq EXCEPT !.pc = "disconnect", !.serial = s, !.endpoint = e])
    BY <1>3
  <2> DEFINE r == [NoReq EXCEPT !.pc = "disconnect", !.serial = s, !.endpoint = e]
  <2>2. r \in Req /\ KnownReq(r)
    BY DEF NoReq, Req, KnownReq
  <2> HIDE DEF r
  <2> QED BY <1>1, <2>1, <2>2, ReqOnly DEF RequestUsb, IInv, TypeOK, phoneVars, r
<1> QED BY <1>2, <1>3 DEF RequestUsb

\* Every next program counter but "none" comes with what the request is about.
LEMMA StepLemma ==
  ASSUME IInv, req.pc # "none",
         NEW pc \in {"connect", "check", "remember", "connected", "forget"},
         req.endpoint \in Endpoints
  PROVE  [req EXCEPT !.pc = pc] \in Req /\ KnownReq([req EXCEPT !.pc = pc])
BY DEF IInv, TypeOK, Keyed, Req, KnownReq

LEMMA NoReqKnown == NoReq \in Req /\ KnownReq(NoReq)
BY NoReqType DEF KnownReq, NoReq

\* The steps that call ADB or wait for it.
LEMMA AdbStep ==
  ASSUME IInv, FindIp \/ Tcpip \/ AdbConnects \/ Checks \/ Disconnects \/ RequestFails
  PROVE  IInv'
<1>1. /\ phone' \in [Serials -> [usb : BOOLEAN, at : Endpoints \cup {None}, tcp : BOOLEAN]]
      /\ link' \in [Endpoints -> {"none", "offline", "device"}]
      /\ spent' \in Spent /\ spent'.faults = spent.faults /\ page' \in Page
      /\ UNCHANGED <<serverVars, loop>>
  <2>1. CASE FindIp \/ RequestFails
    BY <2>1 DEF FindIp, RequestFails, IInv, TypeOK, phoneVars
  <2>2. CASE Tcpip
    BY <2>2 DEF Tcpip, IInv, TypeOK, phoneVars
  <2>3. CASE AdbConnects
    BY <2>3 DEF AdbConnects, IInv, TypeOK, phoneVars
  <2>4. CASE Checks
    BY <2>4 DEF Checks, IInv, TypeOK, phoneVars
  <2>5. CASE Disconnects
    BY <2>5 DEF Disconnects, IInv, TypeOK, phoneVars
  <2> QED BY <2>1, <2>2, <2>3, <2>4, <2>5
<1>2. CASE FindIp
  <2>1. req.serial \in Serials /\ phone[req.serial].at \in Endpoints
    BY <1>2 DEF FindIp, IInv, TypeOK, Keyed
  <2> DEFINE r == [req EXCEPT !.pc = "tcpip", !.endpoint = phone[req.serial].at]
  <2>2. r \in Req /\ KnownReq(r)
    BY <2>1 DEF IInv, TypeOK, Req, KnownReq
  <2> HIDE DEF r
  <2> QED BY <1>1, <1>2, <2>2, ReqOnly DEF FindIp, r
<1>3. CASE Tcpip \/ AdbConnects \/ Checks \/ Disconnects
  <2>1. req.pc # "none" /\ req.endpoint \in Endpoints
    BY <1>3 DEF Tcpip, AdbConnects, Checks, Disconnects, IInv, Keyed
  <2>2. PICK pc \in {"connect", "check", "remember", "forget"} : ToReq([req EXCEPT !.pc = pc])
    BY <1>3 DEF Tcpip, AdbConnects, Checks, Disconnects, Step
  <2> QED BY <1>1, <2>1, <2>2, StepLemma, ReqOnly
<1>4. CASE RequestFails
  BY <1>1, <1>4, NoReqKnown, ReqOnly DEF RequestFails, Done
<1> QED BY <1>2, <1>3, <1>4

LEMMA RepliesStep == ASSUME IInv, Replies PROVE IInv'
<1>1. req.serial \in Serials /\ req.endpoint \in Endpoints
  BY DEF Replies, IInv, Keyed
<1>2. page' \in Page
  <2>1. [page.dev[req.serial] EXCEPT !.wifi = req.endpoint] \in Device
    BY <1>1 DEF IInv, TypeOK, Page, Device
  <2> QED BY <1>1, <2>1 DEF Replies, IInv, TypeOK, Page
<1> QED BY <1>2, NoReqKnown, ReqOnly DEF Replies, Done, IInv, TypeOK, phoneVars

LEMMA RememberStep == ASSUME IInv, Remembers \/ Forgets PROVE IInv'
<1>1. req.pc # "none" /\ req.endpoint \in Endpoints /\ req.serial \in Serials
  BY DEF Remembers, Forgets, IInv, Keyed
<1>2. [req EXCEPT !.pc = "connected"] \in Req /\ KnownReq([req EXCEPT !.pc = "connected"])
  BY <1>1, StepLemma
<1>3. req' \in Req /\ KnownReq(req')
  BY <1>2, NoReqKnown DEF Remembers, Forgets, Step, Done, ToReq
<1>4. mapping' \in Mappings /\ disk' \in Mappings \cup {Broken} /\ spent' \in Spent /\ FileAgrees'
  <2>1. CASE Remembers
    BY <1>1, <2>1, UpdateType, SaveLemma DEF Remembers, Remember, IInv, TypeOK
  <2>2. CASE Forgets
    BY <1>1, <2>2, UpdateType, SaveLemma DEF Forgets, Forget, IInv, TypeOK
  <2> QED BY <2>1, <2>2
<1>5. failed' \subseteq Endpoints
  BY DEF Remembers, Forgets, Forget, IInv, TypeOK
<1> QED BY <1>3, <1>4, <1>5
        DEF Remembers, Forgets, IInv, TypeOK, Keyed, KnownReq, phoneVars

-----------------------------------------------------------------------------
(* Restarts, and the theorems.                                             *)

LEMMA RestartStep == ASSUME IInv, Restart PROVE IInv'
<1>1. spent' \in Spent /\ spent'.faults = spent.faults
  BY SpendLemma DEF Restart, IInv, TypeOK
<1>2. disk' \in Mappings \cup {Broken} /\ mapping' = Loaded'
  BY DEF Restart, Loaded, IInv, TypeOK
<1>3. mapping' \in Mappings
  BY <1>2 DEF Loaded, NoMapping, Mappings
<1>4. page' \in Page
  BY DEF Restart, IInv, TypeOK, Page
<1>5. Keyed'
  BY DEF Restart, Keyed, NoLoop, NoReq
<1> QED BY <1>1, <1>2, <1>3, <1>4, <1>5, NoLoopType, NoReqType
        DEF Restart, IInv, TypeOK, FileAgrees, phoneVars

LEMMA NextStep == ASSUME IInv, [Next]_vars PROVE IInv'
<1>1. CASE \E s \in Serials : \/ Cable(s) \/ GraceEnds(s) \/ RequestWifi(s) \/ RequestUsb(s)
                              \/ \E e \in Endpoints \cup {None} : Moves(s, e)
  BY <1>1, CableStep, GraceEndsStep, RequestWifiStep, RequestUsbStep, MovesStep
<1>2. CASE \E e \in Endpoints : LinkDrops(e) \/ LinkReturns(e) \/ FailureExpires(e)
  BY <1>2, LinkStep, FailureExpiresStep
<1>3. CASE \E l \in Loops : Opens(l) \/ LoopStep(l) \/ Answers(l) \/ AnswerFails(l)
  BY <1>3, OpensStep, BeginStep, ResolveStep, AnswersStep, AnswerFailsStep, StoresStep, WritesStep
     DEF LoopStep
<1>4. CASE Poll \/ Closes \/ RequestStep \/ Restart
  BY <1>4, PollStep, ClosesStep, AdbStep, RepliesStep, RememberStep, RestartStep DEF RequestStep
<1>5. CASE UNCHANGED vars
  BY <1>5 DEF vars, phoneVars, serverVars, IInv, TypeOK, Keyed, FileAgrees, Loaded
<1> QED BY <1>1, <1>2, <1>3, <1>4, <1>5 DEF Next

\* The invariant holds in every reachable state.
THEOREM DevicesInductive == Spec => []IInv
<1>1. Init => IInv
  BY InitHolds
<1>2. IInv /\ [Next]_vars => IInv'
  BY NextStep
<1> QED BY <1>1, <1>2, PTL DEF Spec

\* Only a restart counts as one, and one that is not within a write reads what the
\* server knew.
LEMMA RestartKeeps ==
  ASSUME IInv, [Next]_vars, spent'.stops # spent.stops, spent.faults = 0, ~InSave
  PROVE  mapping' = mapping
<1>1. CASE Restart
  <2>1. disk' = disk /\ mapping' = Loaded
    BY <1>1 DEF Restart, Loaded
  <2> QED BY <2>1 DEF IInv, FileAgrees
<1>2. CASE ~Restart
  <2>1. ~Remembers /\ ~Forgets /\ \A l \in Loops : ~Stores(l)
    BY DEF InSave, Remembers, Forgets, Stores
  <2> QED BY <1>2, <2>1 DEF Next, LoopStep, RequestStep, Cable, GraceEnds, RequestWifi, RequestUsb,
        Moves, LinkDrops, LinkReturns, FailureExpires, Opens, Begin, Resolve, Writes, Answers,
        AnswerFails, Poll, Closes, FindIp, Tcpip, AdbConnects, Checks, Replies, Disconnects,
        RequestFails, vars, serverVars
<1> QED BY <1>1, <1>2

\* What the server knows of its phones survives a restart (wifi_mapping.go: every
\* change is written under the lock, and read at the start).
THEOREM MappingIsKept == Spec => MappingSurvivesRestart
<1>1. IInv /\ [Next]_vars => [spent'.stops # spent.stops /\ spent.faults = 0 /\ ~InSave
                               => mapping' = mapping]_vars
  BY RestartKeeps
<1> QED BY <1>1, DevicesInductive, PTL DEF Spec, MappingSurvivesRestart

\* Every variable keeps its type.
THEOREM DevicesTypeCorrect == Spec => []TypeOK
BY DevicesInductive, PTL DEF IInv

-----------------------------------------------------------------------------
(* Settings and accounts.                                                  *)

\* What merges is a POST of keys that has read the file.
Merges(q) == q.kind \in {"save", "upload"} /\ q.pc \in {"read", "truncated"}

\* A request that carries the last change of an item has its value.
Fit(q, n) ==
  /\ \A k \in Keys \cap q.fresh :
       /\ q.kind \in {"save", "upload"} /\ q.pc # "answered"
       /\ k \in q.patch /\ q.keys[k] = n.keys[k]
  /\ "vault" \in q.fresh => q.kind = "vault" /\ q.vault = n.vault
RequestsFit == \A r \in Requests : Fit(request[r], newest)

\* A merge that is still whole knows the file: as it is or, while it is written, as it
\* was before, when it had the last changes; and then nobody else writes.
WholeFits ==
  \A r \in Merging : request[r].whole =>
    /\ request[r].pc = "read" => request[r].seen = file /\ ~Truncated
    /\ request[r].pc = "truncated" =>
         /\ file = Empty
         /\ \A q \in Merging : request[q].pc = "truncated" => q = r
         /\ \A k \in Keys \ lost : Carried(k, request) \/ request[r].seen[k] = newest.keys[k]

SettingsInv == SettingsTypeOK /\ RequestsFit /\ WholeFits /\ NewestIsStored

-----------------------------------------------------------------------------
\* A merge that another step than its own leaves as it was, or that has just read.
MergeStays(r) ==
  /\ Merges(request'[r]) =>
       \/ /\ Merges(request[r]) /\ request'[r].pc = request[r].pc
          /\ request'[r].whole = request[r].whole /\ request'[r].seen = request[r].seen
       \/ request'[r].pc = "read" /\ (request'[r].whole => request'[r].seen = file /\ ~Truncated)
  /\ Merges(request[r]) /\ request[r].pc = "truncated" =>
       Merges(request'[r]) /\ request'[r].pc = "truncated"

\* The last change of an item is on its way, or is the one that was stored already.
ItemStays(i) == Carried(i, request') \/ (i \notin lost /\ ~Carried(i, request))

\* As long as the server writes no keys, the invariant holds if the requests fit, the
\* merges stay, and so does each item that is not lost, or just changed.
LEMMA Keeps ==
  ASSUME SettingsInv, SettingsTypeOK', file' = file,
         \A r \in Requests : Fit(request'[r], newest') /\ MergeStays(r),
         \A k \in Keys \ lost' :
           Carried(k, request') \/ (ItemStays(k) /\ newest'.keys[k] = newest.keys[k]),
         "vault" \notin lost' =>
           \/ Carried("vault", request') \/ db' = newest'.vault
           \/ ItemStays("vault") /\ db' = db /\ newest'.vault = newest.vault
  PROVE  SettingsInv'
<1>1. RequestsFit'
  BY DEF RequestsFit, Fit
<1>2. \A r \in Requests : /\ r \in Merging <=> Merges(request[r])
                          /\ r \in Merging' <=> Merges(request'[r])
  BY DEF Merging, Merges
<1>3. \A r \in Requests : (r \in Merging' /\ request'[r].pc = "truncated")
                            <=> (r \in Merging /\ request[r].pc = "truncated")
  BY <1>2 DEF MergeStays
<1>4. Truncated' <=> Truncated
  BY <1>3 DEF Truncated, Merging
<1>5. \A k \in Keys \ lost' : \/ Carried(k, request')
                              \/ k \in Keys \ lost /\ ~Carried(k, request) /\ newest'.keys[k] = newest.keys[k]
  BY DEF ItemStays
<1>6. WholeFits'
  <2>1. SUFFICES ASSUME NEW r \in Requests, r \in Merging', request'[r].whole
                 PROVE  /\ request'[r].pc = "read" => request'[r].seen = file /\ ~Truncated
                        /\ request'[r].pc = "truncated" =>
                             /\ file = Empty
                             /\ \A q \in Merging' : request'[q].pc = "truncated" => q = r
                             /\ \A k \in Keys \ lost' :
                                  Carried(k, request') \/ request'[r].seen[k] = newest'.keys[k]
    BY <1>4 DEF WholeFits, Merging, Empty, Carried
  <2>2. CASE request'[r].pc = "read" /\ request'[r].seen = file /\ ~Truncated
    BY <2>2
  <2>3. CASE /\ Merges(request[r]) /\ request'[r].pc = request[r].pc
             /\ request'[r].whole = request[r].whole /\ request'[r].seen = request[r].seen
    <3>1. r \in Merging /\ request[r].whole
      BY <1>2, <2>1, <2>3
    <3>2. /\ request[r].pc = "read" => request[r].seen = file /\ ~Truncated
          /\ request[r].pc = "truncated" =>
               /\ file = Empty
               /\ \A q \in Merging : request[q].pc = "truncated" => q = r
               /\ \A k \in Keys \ lost : Carried(k, request) \/ request[r].seen[k] = newest.keys[k]
      BY <3>1 DEF SettingsInv, WholeFits
    <3>3. \A q \in Merging' : q \in Requests
      BY DEF Merging
    <3> QED BY <1>3, <1>5, <2>3, <3>2, <3>3
  <2> QED BY <1>2, <2>1, <2>2, <2>3 DEF MergeStays
<1>7. NewestIsStored'
  BY <1>4, <1>5 DEF SettingsInv, NewestIsStored, Carried, ItemStays
<1> QED BY <1>1, <1>6, <1>7 DEF SettingsInv

\* So it does if nothing is changed, and what no longer is on its way is lost.
LEMMA KeepsOrDrops ==
  ASSUME SettingsInv, SettingsTypeOK', UNCHANGED <<file, db, newest>>,
         \A r \in Requests : Fit(request'[r], newest) /\ MergeStays(r),
         \/ lost' = lost \cup Dropped(request')
         \/ lost' = lost /\ \A r \in Requests : request[r].fresh \subseteq request'[r].fresh
  PROVE  SettingsInv'
<1>1. \A i \in Items \ lost' : i \notin lost /\ (Carried(i, request) => Carried(i, request'))
  BY DEF Dropped, Forgotten, Carried
<1>2. \A k \in Keys \ lost' : ItemStays(k)
  BY <1>1 DEF ItemStays, Items
<1>3. "vault" \notin lost' => ItemStays("vault")
  BY <1>1 DEF ItemStays, Items
<1> QED BY <1>2, <1>3, Keeps

\* And if one item is changed, which a request carries from then on.
LEMMA KeepsOrChanges ==
  ASSUME SettingsInv, SettingsTypeOK', UNCHANGED <<file, db>>, NEW i \in Items,
         \A r \in Requests : Fit(request'[r], newest') /\ MergeStays(r),
         lost' = lost \ {i}, Carried(i, request'),
         \A r \in Requests : request[r].fresh \ {i} \subseteq request'[r].fresh,
         \A k \in Keys \ {i} : newest'.keys[k] = newest.keys[k],
         i # "vault" => newest'.vault = newest.vault
  PROVE  SettingsInv'
<1>1. \A j \in Items \ {i} : j \notin lost' => ItemStays(j)
  BY DEF ItemStays, Carried
<1> QED BY <1>1, Keeps DEF Items

-----------------------------------------------------------------------------
LEMMA ValuesLemma ==
  /\ Empty \in Settings /\ NoAccounts \in Vaults
  /\ NoRequest.fresh = {} /\ ~Merges(NoRequest) /\ NoRequest.kind = "none"
  /\ \A kind \in {"get", "save", "upload", "vault"}, b \in Browsers :
       /\ Asked(kind, b) \in Request /\ Asked(kind, b).fresh = {}
       /\ Asked(kind, b).kind = kind /\ Asked(kind, b).pc = "sent"
<1>1. Empty \in Settings /\ NoAccounts \in Vaults
  BY SettingsConstants DEF Empty, Settings, NoAccounts, Vaults, OneRowEach
<1> QED BY <1>1 DEF Asked, Request, NoRequest, Merges

\* A request that is answered carries nothing, and merges nothing.
LEMMA HandledLemma ==
  ASSUME NEW q \in Request
  PROVE  Handled(q) \in Request \cup {NoRequest} /\ Handled(q).fresh = {} /\ ~Merges(Handled(q))
<1>1. q.by \in Browsers
  BY DEF Request
<1>2. Asked("upload", q.by) \in Request /\ Asked("upload", q.by).fresh = {}
  BY <1>1, ValuesLemma
<1>3. [Asked("upload", q.by) EXCEPT !.pc = "answered"] \in Request
  BY <1>2 DEF Request
<1> QED BY <1>2, <1>3, ValuesLemma DEF Handled, Asked, Merges

\* What carries nothing fits.
LEMMA EmptyFits == ASSUME NEW q, NEW n, q.fresh = {} PROVE Fit(q, n)
BY DEF Fit

\* An older request still fits, when the item it is older in has changed.
LEMMA OlderLemma ==
  ASSUME SettingsInv, NEW i \in Items, NEW n, NEW r \in Requests,
         \A k \in Keys \ {i} : n.keys[k] = newest.keys[k], i # "vault" => n.vault = newest.vault
  PROVE  /\ Older(request, i)[r] \in Request \cup {NoRequest}
         /\ Older(request, i)[r].fresh = request[r].fresh \ {i}
         /\ Fit(Older(request, i)[r], n)
         /\ Merges(Older(request, i)[r]) <=> Merges(request[r])
         /\ Older(request, i)[r].pc = request[r].pc
         /\ Older(request, i)[r].whole = request[r].whole
         /\ Older(request, i)[r].seen = request[r].seen
<1> DEFINE q == request[r]
           old == [q EXCEPT !.fresh = @ \ {i}]
<1>1. Older(request, i)[r] = old
  BY DEF Older
<1>2. CASE q = NoRequest
  <2>1. old = NoRequest
    BY <1>2 DEF NoRequest
  <2> QED BY <1>1, <1>2, <2>1, ValuesLemma, EmptyFits
<1>3. CASE q \in Request
  <2>1. /\ old \in Request /\ old.fresh = q.fresh \ {i} /\ old.kind = q.kind /\ old.pc = q.pc
        /\ old.keys = q.keys /\ old.patch = q.patch /\ old.vault = q.vault
        /\ old.whole = q.whole /\ old.seen = q.seen
    BY <1>3 DEF Request
  <2>2. Fit(q, newest)
    BY DEF SettingsInv, RequestsFit
  <2>3. Fit(old, n)
    BY <2>1, <2>2 DEF Fit
  <2> QED BY <1>1, <2>1, <2>3 DEF Merges
<1> QED BY <1>2, <1>3 DEF SettingsInv, SettingsTypeOK

\* A GET asks, and carries nothing.
LEMMA GetCarriesNothing ==
  ASSUME SettingsInv, NEW r \in Requests, request[r].kind = "get" PROVE request[r].fresh = {}
<1>1. Fit(request[r], newest) /\ request[r].fresh \subseteq Items
  BY DEF SettingsInv, SettingsTypeOK, RequestsFit, Request, NoRequest
<1> QED BY <1>1 DEF Fit, Items

LEMMA SettingsInitHolds == SettingsInit => SettingsInv
<1>1. SUFFICES ASSUME SettingsInit PROVE SettingsInv
  OBVIOUS
<1>2. \A r \in Requests : request[r] = NoRequest
  BY <1>1 DEF SettingsInit
<1>3. Merging = {}
  BY <1>2 DEF Merging, NoRequest
<1>4. SettingsTypeOK
  BY <1>1, ValuesLemma, SettingsConstants DEF SettingsInit, SettingsTypeOK, Browser
<1>5. RequestsFit
  BY <1>2, ValuesLemma, EmptyFits DEF RequestsFit
<1>6. WholeFits /\ NewestIsStored
  BY <1>1, <1>3 DEF SettingsInit, WholeFits, NewestIsStored
<1> QED BY <1>4, <1>5, <1>6 DEF SettingsInv

-----------------------------------------------------------------------------
LEMMA StartStep == ASSUME SettingsInv, NEW b \in Browsers, Start(b) PROVE SettingsInv'
<1>1. PICK r \in Requests : request[r] = NoRequest /\ request' = [request EXCEPT ![r] = Asked("get", b)]
  BY DEF Start
<1>2. SettingsTypeOK'
  BY <1>1, ValuesLemma DEF Start, SettingsInv, SettingsTypeOK, Browser
<1>3. \A q \in Requests : request'[q] = IF q = r THEN Asked("get", b) ELSE request[q]
  BY <1>1 DEF SettingsInv, SettingsTypeOK
<1>4. ~Merges(Asked("get", b)) /\ Asked("get", b).fresh = {}
  BY ValuesLemma DEF Merges
<1>5. \A q \in Requests : Fit(request'[q], newest) /\ MergeStays(q) /\ request[q].fresh \subseteq request'[q].fresh
  BY <1>1, <1>3, <1>4, ValuesLemma, EmptyFits DEF MergeStays, SettingsInv, RequestsFit
<1> QED BY <1>2, <1>5, KeepsOrDrops DEF Start

\* A GET carries nothing: its page goes on without the answer.
LEMMA StartTimesOutStep ==
  ASSUME SettingsInv, NEW b \in Browsers, StartTimesOut(b) PROVE SettingsInv'
<1>1. SettingsTypeOK'
  BY DEF StartTimesOut, SettingsInv, SettingsTypeOK, Browser
<1>2. ASSUME NEW r \in Requests
      PROVE  Fit(request'[r], newest) /\ MergeStays(r) /\ request[r].fresh \subseteq request'[r].fresh
  <2>1. CASE request'[r] = request[r]
    BY <2>1 DEF MergeStays, SettingsInv, RequestsFit
  <2>2. CASE request[r].kind = "get" /\ request'[r] = NoRequest
    <3>1. request[r].fresh = {}
      BY <2>2, GetCarriesNothing
    <3> QED BY <2>2, <3>1, ValuesLemma, EmptyFits DEF MergeStays, Merges
  <2> QED BY <2>1, <2>2 DEF StartTimesOut
<1> QED BY <1>1, <1>2, KeepsOrDrops DEF StartTimesOut

\* What the start uploads is no last change.
LEMMA HydrateStep == ASSUME SettingsInv, NEW r \in Requests, Hydrate(r) PROVE SettingsInv'
<1> DEFINE q == request[r]
           b == q.by
           taken == TakenOver(b, q.keys)
           missing == {k \in Keys : q.keys[k] = 0 /\ taken[k] # 0}
           keys == [k \in Keys |-> IF k \in missing THEN taken[k] ELSE 0]
           next == IF missing # {} THEN [Asked("upload", b) EXCEPT !.keys = keys, !.patch = missing] ELSE NoRequest
<1>1. q \in Request /\ q.kind = "get" /\ b \in Browsers
  BY DEF Hydrate, SettingsInv, SettingsTypeOK, Request, NoRequest
<1>2. browser[b] \in Browser /\ q.keys \in Settings /\ q.vault \in Vaults
  BY <1>1 DEF SettingsInv, SettingsTypeOK, Request
<1>3. taken \in Settings /\ keys \in Settings /\ missing \in SUBSET Keys
  BY <1>2, SettingsConstants DEF TakenOver, Settings, Browser
<1>4. next \in Request \cup {NoRequest} /\ ~Merges(next) /\ next.fresh = {}
  <2>1. Asked("upload", b) \in Request /\ Asked("upload", b).pc = "sent" /\ Asked("upload", b).fresh = {}
    BY <1>1, ValuesLemma
  <2> QED BY <1>3, <2>1, ValuesLemma DEF Request, Merges
<1>5. /\ request' = [request EXCEPT ![r] = next]
      /\ browser' = [browser EXCEPT ![b] =
           [state |-> IF missing # {} THEN "uploading" ELSE "open", keys |-> taken,
            vault |-> IF q.vault = NoAccounts THEN browser[b].vault ELSE q.vault]]
      /\ UNCHANGED <<file, db, saves, failures, newest, lost>>
  BY DEF Hydrate
<1> HIDE DEF q, next, b, taken, missing, keys
<1>6. browser' \in [Browsers -> Browser]
  BY <1>1, <1>2, <1>3, <1>5 DEF SettingsInv, SettingsTypeOK, Browser
<1>7. SettingsTypeOK'
  BY <1>4, <1>5, <1>6 DEF SettingsInv, SettingsTypeOK
<1>8. \A p \in Requests : request'[p] = IF p = r THEN next ELSE request[p]
  BY <1>5 DEF SettingsInv, SettingsTypeOK
<1>9. request[r].fresh = {} /\ ~Merges(request[r])
  BY <1>1, GetCarriesNothing DEF q, Merges
<1>10. \A p \in Requests : Fit(request'[p], newest) /\ MergeStays(p) /\ request[p].fresh \subseteq request'[p].fresh
  BY <1>4, <1>8, <1>9, EmptyFits DEF MergeStays, SettingsInv, RequestsFit
<1> QED BY <1>5, <1>7, <1>10, KeepsOrDrops

LEMMA UploadedStep == ASSUME SettingsInv, NEW r \in Requests, Uploaded(r) PROVE SettingsInv'
<1>1. request[r] \in Request /\ request[r].by \in Browsers /\ ~Merges(request[r])
  BY DEF Uploaded, SettingsInv, SettingsTypeOK, Request, NoRequest, Merges
<1>2. request[r].fresh = {}
  <2>1. Fit(request[r], newest) /\ request[r].fresh \subseteq Items
    BY <1>1 DEF SettingsInv, RequestsFit, Request
  <2> QED BY <2>1 DEF Uploaded, Fit, Items
<1>3. SettingsTypeOK'
  BY <1>1 DEF Uploaded, SettingsInv, SettingsTypeOK, Browser
<1>4. \A p \in Requests : request'[p] = IF p = r THEN NoRequest ELSE request[p]
  BY DEF Uploaded, SettingsInv, SettingsTypeOK
<1>5. \A p \in Requests : Fit(request'[p], newest) /\ MergeStays(p) /\ request[p].fresh \subseteq request'[p].fresh
  BY <1>1, <1>2, <1>4, ValuesLemma, EmptyFits DEF MergeStays, SettingsInv, RequestsFit
<1> QED BY <1>3, <1>5, KeepsOrDrops DEF Uploaded

LEMMA CloseStep == ASSUME SettingsInv, NEW b \in Browsers, Close(b) PROVE SettingsInv'
<1> DEFINE Mine == {r \in Requests : request[r] # NoRequest /\ request[r].by = b /\ request[r].pc = "sent"}
           Left(gone, r) ==
             IF request[r] = NoRequest \/ request[r].by # b THEN request[r]
             ELSE IF r \in gone \/ request[r].kind = "get" THEN NoRequest
             ELSE IF request[r].kind # "upload" THEN request[r]
             ELSE IF request[r].pc = "answered" THEN NoRequest ELSE [request[r] EXCEPT !.kind = "save"]
<1>1. PICK gone \in SUBSET Mine : request' = [r \in Requests |-> Left(gone, r)]
  BY DEF Close
<1>2. ASSUME NEW r \in Requests
      PROVE  request'[r] \in Request \cup {NoRequest} /\ Fit(request'[r], newest) /\ MergeStays(r)
  <2>1. /\ request[r] \in Request \cup {NoRequest} /\ request'[r] = Left(gone, r)
        /\ Fit(request[r], newest)
    BY <1>1 DEF SettingsInv, SettingsTypeOK, RequestsFit
  <2>2. CASE request'[r] = request[r]
    BY <2>1, <2>2 DEF MergeStays
  <2>3. CASE request'[r] = NoRequest /\ request[r] # NoRequest
    <3>1. request[r].pc = "sent" \/ request[r].kind = "get" \/ request[r].pc = "answered"
      BY <2>1, <2>3 DEF Request, NoRequest
    <3>2. ~Merges(request[r])
      BY <3>1 DEF Merges
    <3> QED BY <2>3, <3>2, ValuesLemma, EmptyFits DEF MergeStays
  <2>4. CASE /\ request[r] \in Request /\ request[r].kind = "upload"
             /\ request'[r] = [request[r] EXCEPT !.kind = "save"]
    <3> DEFINE q == [request[r] EXCEPT !.kind = "save"]
    <3>1. /\ q \in Request /\ q.kind = "save" /\ q.pc = request[r].pc /\ q.fresh = request[r].fresh
          /\ q.keys = request[r].keys /\ q.patch = request[r].patch
          /\ q.whole = request[r].whole /\ q.seen = request[r].seen
      BY <2>4 DEF Request
    <3>2. Fit(q, newest)
      BY <2>1, <2>4, <3>1 DEF Fit
    <3> QED BY <2>4, <3>1, <3>2 DEF MergeStays, Merges
  <2> QED BY <2>1, <2>2, <2>3, <2>4
<1>3. browser' \in [Browsers -> Browser]
  BY DEF Close, SettingsInv, SettingsTypeOK, Browser
<1>4. lost' \subseteq Items
  BY DEF Close, Dropped, Forgotten, SettingsInv, SettingsTypeOK
<1>5. SettingsTypeOK'
  BY <1>1, <1>2, <1>3, <1>4 DEF Close, SettingsInv, SettingsTypeOK
<1> QED BY <1>2, <1>5, KeepsOrDrops DEF Close

\* The new POST carries the change; the others are older.
LEMMA SaveKeyStep ==
  ASSUME SettingsInv, NEW b \in Browsers, NEW k \in Keys, SaveKey(b, k) PROVE SettingsInv'
<1> DEFINE new(v) == [Asked("save", b) EXCEPT !.keys[k] = v, !.patch = {k}, !.fresh = {k}]
<1>1. PICK v \in {0, saves + 1}, r \in Requests :
        /\ request[r] = NoRequest
        /\ browser' = [browser EXCEPT ![b].keys[k] = v]
        /\ request' = [Older(request, k) EXCEPT ![r] = new(v)]
        /\ newest' = [newest EXCEPT !.keys[k] = v]
  BY DEF SaveKey
<1>2. saves' \in 0 .. MaxSaves /\ v \in 0 .. MaxSaves
  BY SettingsConstants DEF SaveKey, SettingsInv, SettingsTypeOK
<1>3. newest' \in [keys : Settings, vault : Vaults] /\ newest'.vault = newest.vault
      /\ newest'.keys[k] = v /\ \A j \in Keys \ {k} : newest'.keys[j] = newest.keys[j]
  BY <1>1, <1>2 DEF SettingsInv, SettingsTypeOK, Settings
<1>4. /\ new(v) \in Request /\ new(v).fresh = {k} /\ new(v).kind = "save" /\ new(v).pc = "sent"
      /\ new(v).patch = {k} /\ new(v).keys[k] = v
  <2>1. Asked("save", b) \in Request /\ Asked("save", b).kind = "save" /\ Asked("save", b).pc = "sent"
    BY ValuesLemma
  <2> QED BY <1>2, <2>1 DEF Request, Settings, Items
<1>5. ~Merges(new(v)) /\ Fit(new(v), newest')
  BY <1>3, <1>4, SettingsConstants DEF Merges, Fit
<1> HIDE DEF new
<1>6. browser' \in [Browsers -> Browser]
  BY <1>1, <1>2 DEF SettingsInv, SettingsTypeOK, Browser, Settings
<1> DEFINE old == Older(request, k)
<1>7. \A q \in Requests : request'[q] = IF q = r THEN new(v) ELSE old[q]
  BY <1>1 DEF Older
<1>8. k \in Items /\ k # "vault"
  BY SettingsConstants DEF Items
<1>9. \A q \in Requests :
        /\ old[q] \in Request \cup {NoRequest} /\ old[q].fresh = request[q].fresh \ {k}
        /\ Fit(old[q], newest')
        /\ Merges(old[q]) <=> Merges(request[q])
        /\ old[q].pc = request[q].pc /\ old[q].whole = request[q].whole /\ old[q].seen = request[q].seen
  BY <1>3, <1>8, OlderLemma
<1>10. request' \in [Requests -> Request \cup {NoRequest}]
  BY <1>1, <1>4, <1>9 DEF Older
<1> HIDE DEF old
<1>11. SettingsTypeOK'
  BY <1>2, <1>3, <1>6, <1>10 DEF SaveKey, SettingsInv, SettingsTypeOK
<1>12. \A q \in Requests : Fit(request'[q], newest') /\ MergeStays(q)
  BY <1>1, <1>5, <1>7, <1>9, ValuesLemma DEF MergeStays
<1>13. Carried(k, request') /\ \A q \in Requests : request[q].fresh \ {k} \subseteq request'[q].fresh
  BY <1>1, <1>4, <1>7, <1>9, ValuesLemma DEF Carried
<1> QED BY <1>3, <1>8, <1>11, <1>12, <1>13, KeepsOrChanges DEF SaveKey

\* A page that changes its vault posts it whole, and that carries the change.
LEMMA VaultChanges ==
  ASSUME SettingsInv, NEW b \in Browsers, NEW v \in Vaults,
         browser' = [browser EXCEPT ![b].vault = v],
         saves < MaxSaves, saves' = saves + 1, UNCHANGED <<file, db, failures>>,
         newest' = [newest EXCEPT !.vault = v], lost' = lost \ {"vault"},
         NEW r \in Requests, request[r] = NoRequest,
         request'[r] \in Request, request'[r].kind = "vault", request'[r].vault = v,
         request'[r].fresh = {"vault"},
         request' = [q \in Requests |-> request'[q]],
         \A q \in Requests \ {r} :
           \/ request'[q] = Older(request, "vault")[q]
           \/ /\ request[q] = NoRequest /\ request'[q] \in Request /\ request'[q].kind = "vault"
              /\ request'[q].fresh = {}
  PROVE  SettingsInv'
<1> DEFINE old == Older(request, "vault")
<1>1. saves' \in 0 .. MaxSaves
  BY SettingsConstants DEF SettingsInv, SettingsTypeOK
<1>2. browser' \in [Browsers -> Browser]
  BY DEF SettingsInv, SettingsTypeOK, Browser
<1>3. newest' \in [keys : Settings, vault : Vaults] /\ newest'.vault = v /\ newest'.keys = newest.keys
  BY DEF SettingsInv, SettingsTypeOK
<1>4. \A q \in Requests :
        /\ old[q] \in Request \cup {NoRequest} /\ old[q].fresh = request[q].fresh \ {"vault"}
        /\ Fit(old[q], newest')
        /\ Merges(old[q]) <=> Merges(request[q])
        /\ old[q].pc = request[q].pc /\ old[q].whole = request[q].whole /\ old[q].seen = request[q].seen
  BY <1>3, OlderLemma DEF Items
<1> HIDE DEF old
<1>5. SettingsTypeOK'
  BY <1>1, <1>2, <1>3, <1>4 DEF SettingsInv, SettingsTypeOK, old
<1>6. Fit(request'[r], newest')
  BY <1>3, SettingsConstants DEF Fit
<1>7. \A q \in Requests : Fit(request'[q], newest') /\ MergeStays(q)
  BY <1>4, <1>6, ValuesLemma, EmptyFits DEF MergeStays, Merges, old
<1>8. \A q \in Requests : request[q].fresh \ {"vault"} \subseteq request'[q].fresh
  BY <1>4, ValuesLemma DEF old
<1>9. Carried("vault", request')
  BY DEF Carried
<1> QED BY <1>3, <1>5, <1>7, <1>8, <1>9, KeepsOrChanges DEF Items

LEMMA PostVaultLemma ==
  ASSUME NEW b \in Browsers, NEW v \in Vaults
  PROVE  /\ PostVault(b, v) \in Request /\ PostVault(b, v).kind = "vault"
         /\ PostVault(b, v).vault = v /\ PostVault(b, v).fresh = {"vault"}
<1>1. Asked("vault", b) \in Request /\ Asked("vault", b).kind = "vault"
  BY ValuesLemma
<1> QED BY <1>1 DEF PostVault, Request, Items

LEMMA SaveAccountStep ==
  ASSUME SettingsInv, NEW b \in Browsers, NEW a \in Accounts, SaveAccount(b, a) PROVE SettingsInv'
<1> DEFINE rows == browser[b].vault
           rest == {x \in rows : x[1] # a}
           new == IF rest = rows THEN {rows \cup {<<a, d>>} : d \in Udids} ELSE {rest}
<1>1. PICK v \in new, r \in Requests :
        /\ request[r] = NoRequest
        /\ browser' = [browser EXCEPT ![b].vault = v]
        /\ request' = [Older(request, "vault") EXCEPT ![r] = PostVault(b, v)]
        /\ newest' = [newest EXCEPT !.vault = v]
  BY DEF SaveAccount
<1>2. rows \in Vaults
  BY DEF SettingsInv, SettingsTypeOK, Browser
<1>3. v \in Vaults
  <2>1. rest \in Vaults
    BY <1>2 DEF Vaults, OneRowEach
  <2>2. ASSUME rest = rows, NEW d \in Udids PROVE rows \cup {<<a, d>>} \in Vaults
    BY <2>2, <1>2 DEF Vaults, OneRowEach
  <2> QED BY <2>1, <2>2
<1>4. request' = [q \in Requests |-> IF q = r THEN PostVault(b, v) ELSE Older(request, "vault")[q]]
  BY <1>1 DEF Older
<1>5. request' = [q \in Requests |-> request'[q]]
  BY <1>4
<1>6. /\ saves < MaxSaves /\ saves' = saves + 1 /\ UNCHANGED <<file, db, failures>>
      /\ lost' = lost \ {"vault"}
  BY DEF SaveAccount
<1>7. /\ request'[r] \in Request /\ request'[r].kind = "vault" /\ request'[r].vault = v
      /\ request'[r].fresh = {"vault"}
  BY <1>3, <1>4, PostVaultLemma
<1>8. \A q \in Requests \ {r} : request'[q] = Older(request, "vault")[q]
  BY <1>4
<1> HIDE DEF rows, rest, new
<1> QED BY <1>1, <1>3, <1>5, <1>6, <1>7, <1>8, VaultChanges

\* Off its device, an account has no row that the new one would double.
LEMMA MoveAccountStep ==
  ASSUME SettingsInv, NEW b \in Browsers, NEW x \in Accounts \X Udids, MoveAccount(b, x)
  PROVE  SettingsInv'
<1> DEFINE without == TakenFrom(browser[b].vault, x)
           moved(d) == without \cup {<<x[1], d>>}
           first == [PostVault(b, without) EXCEPT !.fresh = {}]
<1>1. PICK d \in Udids \ {x[2]}, r \in Requests, q \in Requests :
        /\ r # q /\ request[r] = NoRequest /\ request[q] = NoRequest
        /\ browser' = [browser EXCEPT ![b].vault = moved(d)]
        /\ request' = [Older(request, "vault") EXCEPT ![r] = first, ![q] = PostVault(b, moved(d))]
        /\ newest' = [newest EXCEPT !.vault = moved(d)]
  BY DEF MoveAccount
<1>2. browser[b].vault \in Vaults /\ x \in browser[b].vault
  BY DEF MoveAccount, SettingsInv, SettingsTypeOK, Browser
<1>3. without \in Vaults /\ \A y \in without : y[1] # x[1]
  BY <1>2 DEF TakenFrom, Vaults, OneRowEach
<1>4. moved(d) \in Vaults
  <2>1. moved(d) \in SUBSET (Accounts \X Udids)
    BY <1>3 DEF Vaults
  <2>2. OneRowEach(moved(d))
    BY <1>3 DEF Vaults, OneRowEach
  <2> QED BY <2>1, <2>2 DEF Vaults
<1>5. first \in Request /\ first.kind = "vault" /\ first.fresh = {}
  <2>1. PostVault(b, without) \in Request /\ PostVault(b, without).kind = "vault"
    BY <1>3, PostVaultLemma
  <2> QED BY <2>1 DEF Request
<1> HIDE DEF without, moved, first
<1>6. request' = [s \in Requests |-> IF s = q THEN PostVault(b, moved(d))
                                     ELSE IF s = r THEN first ELSE Older(request, "vault")[s]]
  BY <1>1 DEF Older
<1>7. request' = [s \in Requests |-> request'[s]]
  BY <1>6
<1>8. /\ saves < MaxSaves /\ saves' = saves + 1 /\ UNCHANGED <<file, db, failures>>
      /\ lost' = lost \ {"vault"}
  BY DEF MoveAccount
<1>9. /\ request'[q] \in Request /\ request'[q].kind = "vault" /\ request'[q].vault = moved(d)
      /\ request'[q].fresh = {"vault"}
  BY <1>4, <1>6, PostVaultLemma
<1>10. \A s \in Requests \ {q} :
         \/ request'[s] = Older(request, "vault")[s]
         \/ /\ request[s] = NoRequest /\ request'[s] \in Request /\ request'[s].kind = "vault"
            /\ request'[s].fresh = {}
  BY <1>1, <1>5, <1>6
<1> QED BY <1>1, <1>4, <1>7, <1>8, <1>9, <1>10, VaultChanges

-----------------------------------------------------------------------------
LEMMA GetStep == ASSUME SettingsInv, NEW r \in Requests, Get(r) PROVE SettingsInv'
<1> DEFINE new(ok) == [request[r] EXCEPT !.pc = "answered", !.keys = file,
                                         !.vault = IF ok THEN db ELSE NoAccounts]
<1>1. PICK ok \in BOOLEAN : Fails(ok) /\ request' = [request EXCEPT ![r] = new(ok)]
  BY DEF Get
<1>2. request[r] \in Request /\ request[r].kind = "get" /\ request[r].fresh = {}
  BY GetCarriesNothing DEF Get, SettingsInv, SettingsTypeOK, NoRequest
<1>3. new(ok) \in Request /\ ~Merges(request[r]) /\ ~Merges(new(ok)) /\ new(ok).fresh = {}
  BY <1>2, ValuesLemma DEF SettingsInv, SettingsTypeOK, Request, Merges
<1> HIDE DEF new
<1>4. \A p \in Requests : request'[p] = IF p = r THEN new(ok) ELSE request[p]
  BY <1>1 DEF SettingsInv, SettingsTypeOK
<1>5. SettingsTypeOK'
  BY <1>1, <1>3, SettingsConstants DEF Get, Fails, SettingsInv, SettingsTypeOK
<1>6. \A p \in Requests : Fit(request'[p], newest) /\ MergeStays(p) /\ request[p].fresh \subseteq request'[p].fresh
  BY <1>2, <1>3, <1>4, EmptyFits DEF MergeStays, SettingsInv, RequestsFit
<1> QED BY <1>5, <1>6, KeepsOrDrops DEF Get

\* What reads the file while nobody writes it has the whole file.
LEMMA ReadStep == ASSUME SettingsInv, NEW r \in Requests, Read(r) PROVE SettingsInv'
<1> DEFINE new(ok) == [request[r] EXCEPT !.pc = "read", !.seen = IF ok THEN file ELSE Empty,
                                         !.whole = ok /\ ~Truncated]
<1>1. PICK ok \in BOOLEAN : Fails(ok) /\ request' = [request EXCEPT ![r] = new(ok)]
  BY DEF Read
<1>2. request[r] \in Request /\ ~Merges(request[r]) /\ request[r].pc = "sent"
  BY DEF Read, Merges, SettingsInv, SettingsTypeOK, NoRequest
<1>3. (ok /\ ~Truncated) \in BOOLEAN /\ (IF ok THEN file ELSE Empty) \in Settings
  BY ValuesLemma DEF SettingsInv, SettingsTypeOK
<1>4. /\ new(ok) \in Request /\ new(ok).pc = "read" /\ new(ok).fresh = request[r].fresh
      /\ new(ok).kind = request[r].kind /\ new(ok).keys = request[r].keys
      /\ new(ok).patch = request[r].patch /\ new(ok).vault = request[r].vault
      /\ new(ok).seen = (IF ok THEN file ELSE Empty) /\ new(ok).whole = (ok /\ ~Truncated)
  BY <1>2, <1>3 DEF Request
<1>5. new(ok).whole => new(ok).seen = file /\ ~Truncated
  BY <1>4
<1> HIDE DEF new
<1>6. \A p \in Requests : request'[p] = IF p = r THEN new(ok) ELSE request[p]
  BY <1>1 DEF SettingsInv, SettingsTypeOK
<1>7. SettingsTypeOK'
  BY <1>1, <1>4, SettingsConstants DEF Read, Fails, SettingsInv, SettingsTypeOK
<1>8. Fit(new(ok), newest)
  <2>1. Fit(request[r], newest)
    BY DEF SettingsInv, RequestsFit
  <2> QED BY <1>4, <2>1 DEF Fit
<1>9. \A p \in Requests : Fit(request'[p], newest) /\ MergeStays(p) /\ request[p].fresh \subseteq request'[p].fresh
  BY <1>2, <1>4, <1>5, <1>6, <1>8 DEF MergeStays, SettingsInv, RequestsFit
<1> QED BY <1>7, <1>9, KeepsOrDrops DEF Read

\* A request that is answered, and leaves no write behind.
LEMMA RefusedStep ==
  ASSUME SettingsInv, NEW r \in Requests, request[r] # NoRequest,
         ~(Merges(request[r]) /\ request[r].pc = "truncated"),
         Fails(FALSE), request' = [request EXCEPT ![r] = Handled(@)],
         lost' = lost \cup Dropped(request'), UNCHANGED <<file, db, browser, saves, newest>>
  PROVE  SettingsInv'
<1>1. request[r] \in Request
  BY DEF SettingsInv, SettingsTypeOK
<1>2. Handled(request[r]) \in Request \cup {NoRequest} /\ Handled(request[r]).fresh = {} /\ ~Merges(Handled(request[r]))
  BY <1>1, HandledLemma
<1>3. \A p \in Requests : request'[p] = IF p = r THEN Handled(request[r]) ELSE request[p]
  BY DEF SettingsInv, SettingsTypeOK
<1>4. lost' \subseteq Items
  BY DEF Dropped, Forgotten, SettingsInv, SettingsTypeOK
<1>5. failures' \in 0 .. MaxFailures
  BY SettingsConstants DEF Fails, SettingsInv, SettingsTypeOK
<1>6. SettingsTypeOK'
  BY <1>2, <1>4, <1>5 DEF SettingsInv, SettingsTypeOK
<1>7. \A p \in Requests : Fit(request'[p], newest) /\ MergeStays(p)
  BY <1>2, <1>3, EmptyFits DEF MergeStays, SettingsInv, RequestsFit
<1> QED BY <1>6, <1>7, KeepsOrDrops

LEMMA LoadFailsStep == ASSUME SettingsInv, NEW r \in Requests, LoadFails(r) PROVE SettingsInv'
<1>1. r \in Merging /\ request[r].pc = "read"
  BY DEF LoadFails
<1>2. request[r] # NoRequest /\ request[r].pc # "truncated"
  BY <1>1 DEF Merging, NoRequest
<1> QED BY <1>2, RefusedStep DEF LoadFails

LEMMA SyncRefusedStep == ASSUME SettingsInv, NEW r \in Requests, SyncRefused(r) PROVE SettingsInv'
<1>1. request[r].kind = "vault" /\ request[r].pc = "sent"
  BY DEF SyncRefused
<1>2. request[r] # NoRequest /\ request[r].pc # "truncated"
  BY <1>1 DEF NoRequest
<1> QED BY <1>2, RefusedStep DEF SyncRefused

\* The file is empty now, and what its writer has read is what it had; no other merge
\* is whole any more.
LEMMA TruncateStep == ASSUME SettingsInv, NEW r \in Requests, Truncate(r) PROVE SettingsInv'
<1> DEFINE new(q) == IF q = r THEN [request[r] EXCEPT !.pc = "truncated"]
                     ELSE IF q \in Merging THEN [request[q] EXCEPT !.whole = FALSE] ELSE request[q]
<1>1. /\ file' = Empty /\ request' = [q \in Requests |-> new(q)]
      /\ UNCHANGED <<db, browser, saves, failures, newest, lost>>
      /\ r \in Merging /\ request[r].pc = "read"
  BY DEF Truncate
<1>2. ASSUME NEW q \in Requests
      PROVE  /\ new(q) \in Request \cup {NoRequest}
             /\ new(q).fresh = request[q].fresh /\ new(q).kind = request[q].kind
             /\ new(q).pc = IF q = r THEN "truncated" ELSE request[q].pc
             /\ new(q).seen = request[q].seen
             /\ new(q).whole = IF q # r /\ q \in Merging THEN FALSE ELSE request[q].whole
             /\ Fit(new(q), newest)
  <2>1. request[q] \in Request \cup {NoRequest} /\ Fit(request[q], newest)
    BY DEF SettingsInv, SettingsTypeOK, RequestsFit
  <2>2. CASE request[q] = NoRequest
    <3>1. q \notin Merging
      BY <2>2 DEF Merging, NoRequest
    <3>2. q # r
      BY <1>1, <3>1
    <3> QED BY <2>1, <2>2, <3>1, <3>2
  <2>3. CASE request[q] \in Request
    <3>1. /\ new(q) \in Request
          /\ new(q).fresh = request[q].fresh /\ new(q).kind = request[q].kind
          /\ new(q).pc = IF q = r THEN "truncated" ELSE request[q].pc
          /\ new(q).keys = request[q].keys /\ new(q).patch = request[q].patch
          /\ new(q).vault = request[q].vault /\ new(q).seen = request[q].seen
          /\ new(q).whole = IF q # r /\ q \in Merging THEN FALSE ELSE request[q].whole
      BY <2>3 DEF Request
    <3>2. Fit(new(q), newest)
      BY <1>1, <2>1, <3>1 DEF Fit
    <3> QED BY <3>1, <3>2
  <2> QED BY <2>1, <2>2, <2>3
<1> HIDE DEF new
<1>3. Merging' = Merging
  <2>1. \A q \in Requests :
          request'[q].kind = request[q].kind
            /\ (request'[q].pc \in {"read", "truncated"} <=> request[q].pc \in {"read", "truncated"})
    BY <1>1, <1>2
  <2> QED BY <2>1 DEF Merging
<1>4. Truncated'
  <2>1. r \in Merging' /\ request'[r].pc = "truncated"
    BY <1>1, <1>2, <1>3
  <2> QED BY <2>1 DEF Truncated
<1>5. SettingsTypeOK'
  BY <1>1, <1>2, ValuesLemma DEF SettingsInv, SettingsTypeOK
<1>6. RequestsFit'
  BY <1>1, <1>2 DEF RequestsFit, Fit
<1>7. \A i : Carried(i, request') <=> Carried(i, request)
  BY <1>1, <1>2 DEF Carried
<1>8. NewestIsStored'
  <2>1. "vault" \notin lost => Carried("vault", request) \/ db = newest.vault
    BY DEF SettingsInv, NewestIsStored
  <2> QED BY <1>1, <1>4, <1>7, <2>1 DEF NewestIsStored, Carried
<1>9. WholeFits'
  <2>1. SUFFICES ASSUME NEW p \in Merging', request'[p].whole
                 PROVE  /\ request'[p].pc # "read"
                        /\ request'[p].pc = "truncated" =>
                             /\ file' = Empty
                             /\ \A q \in Merging' : request'[q].pc = "truncated" => q = p
                             /\ \A k \in Keys \ lost' :
                                  Carried(k, request') \/ request'[p].seen[k] = newest'.keys[k]
    BY DEF WholeFits, Carried, Empty
  <2>2. p = r /\ request[r].whole /\ request'[r].pc = "truncated" /\ request'[r].seen = request[r].seen
    BY <1>1, <1>2, <1>3, <2>1 DEF Merging
  <2>3. request[r].seen = file /\ ~Truncated
    BY <1>1, <2>2 DEF SettingsInv, WholeFits
  <2>4. \A q \in Merging : request'[q].pc = "truncated" => q = r
    BY <1>1, <1>2, <2>3 DEF Truncated, Merging
  <2>5. \A k \in Keys \ lost : Carried(k, request) \/ file[k] = newest.keys[k]
    BY <2>3 DEF SettingsInv, NewestIsStored
  <2> QED BY <1>1, <1>3, <1>7, <2>2, <2>3, <2>4, <2>5
<1> QED BY <1>5, <1>6, <1>8, <1>9 DEF SettingsInv

\* While one writes, no other is whole; so after the write, or its failure, the
\* invariant holds if each key is lost, on its way, or stored.
LEMMA AfterWrite ==
  ASSUME SettingsInv, NEW r \in Merging, request[r].pc = "truncated",
         request' = [request EXCEPT ![r] = Handled(@)],
         file' \in Settings, failures' \in 0 .. MaxFailures,
         NEW more \in SUBSET Keys, lost' = lost \cup more, UNCHANGED <<db, browser, saves, newest>>,
         \A k \in Keys \ lost' : Carried(k, request') \/ file'[k] = newest.keys[k]
  PROVE  SettingsInv'
<1>1. r \in Requests /\ request[r] \in Request /\ request[r].kind \in {"save", "upload"} /\ Truncated
  BY DEF Merging, Truncated, SettingsInv, SettingsTypeOK, NoRequest
<1>2. Handled(request[r]) \in Request \cup {NoRequest} /\ Handled(request[r]).fresh = {} /\ ~Merges(Handled(request[r]))
  BY <1>1, HandledLemma
<1>3. \A p \in Requests : request'[p] = IF p = r THEN Handled(request[r]) ELSE request[p]
  BY DEF SettingsInv, SettingsTypeOK
<1>4. SettingsTypeOK'
  BY <1>1, <1>2 DEF SettingsInv, SettingsTypeOK, Items
<1>5. RequestsFit'
  <2>1. \A p \in Requests : Fit(request'[p], newest)
    BY <1>2, <1>3, EmptyFits DEF SettingsInv, RequestsFit
  <2> QED BY <2>1 DEF RequestsFit, Fit
<1>6. \A p \in Merging' : p \in Merging /\ p # r /\ request'[p] = request[p]
  BY <1>2, <1>3 DEF Merging, Merges
<1>7. \A p \in Merging : p # r => ~request[p].whole
  <2>1. SUFFICES ASSUME NEW p \in Merging, p # r, request[p].whole PROVE FALSE
    OBVIOUS
  <2>2. request[p].pc = "read" \/ request[p].pc = "truncated"
    BY DEF Merging
  <2> QED BY <1>1, <2>1, <2>2 DEF SettingsInv, WholeFits
<1>8. WholeFits'
  BY <1>6, <1>7 DEF WholeFits
<1>9. "vault" \notin lost' => Carried("vault", request') \/ db' = newest'.vault
  <2>1. "vault" \notin lost' => Carried("vault", request) \/ db = newest.vault
    BY DEF SettingsInv, NewestIsStored
  <2>2. "vault" \notin request[r].fresh
    BY <1>1 DEF SettingsInv, RequestsFit, Fit
  <2>3. Carried("vault", request) => Carried("vault", request')
    BY <1>3, <2>2 DEF Carried
  <2> QED BY <2>1, <2>3
<1>10. NewestIsStored'
  BY <1>9 DEF NewestIsStored, Carried
<1> QED BY <1>4, <1>5, <1>8, <1>10 DEF SettingsInv

\* A merge that is still whole writes what the file had, and the keys it carries.
LEMMA WriteStep == ASSUME SettingsInv, NEW r \in Requests, Write(r) PROVE SettingsInv'
<1> DEFINE q == request[r]
           more == Forgotten(IF q.whole THEN q.patch \ q.fresh ELSE Keys, request')
<1>1. /\ r \in Merging /\ q.pc = "truncated" /\ request' = [request EXCEPT ![r] = Handled(@)]
      /\ lost' = lost \cup more
      /\ UNCHANGED <<db, browser, saves, failures, newest>>
      /\ file' \in {MergedSettings(r)} \cup (IF file = Empty THEN {} ELSE {Empty})
  BY DEF Write
<1>2. q \in Request /\ q.kind \in {"save", "upload"}
  BY <1>1 DEF Merging, SettingsInv, SettingsTypeOK, NoRequest
<1>3. MergedSettings(r) \in Settings
  BY <1>2 DEF MergedSettings, Request, Settings
<1>4. file' \in Settings
  BY <1>1, <1>3, ValuesLemma
<1>5. more \in SUBSET Keys
  BY <1>2 DEF Forgotten, Request
<1>6. failures' \in 0 .. MaxFailures
  BY <1>1 DEF SettingsInv, SettingsTypeOK
<1>7. \A p \in Requests \ {r} : request'[p] = request[p]
  BY <1>1 DEF SettingsInv, SettingsTypeOK
<1>8. ASSUME NEW k \in Keys, k \notin lost', ~Carried(k, request') PROVE file'[k] = newest.keys[k]
  <2>1. k \notin lost /\ k \notin more
    BY <1>1, <1>8
  <2>2. q.whole /\ (k \in q.patch => k \in q.fresh)
    BY <1>8, <2>1 DEF Forgotten
  <2>3. /\ file = Empty
        /\ Carried(k, request) \/ q.seen[k] = newest.keys[k]
    BY <1>1, <2>1, <2>2 DEF SettingsInv, WholeFits
  <2>4. file'[k] = IF k \in q.patch THEN q.keys[k] ELSE q.seen[k]
    BY <1>1, <2>3 DEF MergedSettings
  <2>5. k \in q.fresh => k \in q.patch /\ q.keys[k] = newest.keys[k]
    BY DEF SettingsInv, RequestsFit, Fit
  <2>6. Carried(k, request) => k \in q.fresh
    BY <1>7, <1>8 DEF Carried
  <2> QED BY <2>2, <2>3, <2>4, <2>5, <2>6
<1> HIDE DEF more
<1> QED BY <1>1, <1>4, <1>5, <1>6, <1>8, AfterWrite

LEMMA WriteFailsStep == ASSUME SettingsInv, NEW r \in Requests, WriteFails(r) PROVE SettingsInv'
<1> DEFINE more == Forgotten(Keys, request')
<1>1. /\ r \in Merging /\ request[r].pc = "truncated" /\ request' = [request EXCEPT ![r] = Handled(@)]
      /\ lost' = lost \cup more
      /\ UNCHANGED <<db, browser, saves, newest>>
      /\ file' \in {file, Empty} /\ failures < MaxFailures /\ failures' = failures + 1
  BY DEF WriteFails, Fails
<1>2. file' \in Settings /\ failures' \in 0 .. MaxFailures
  BY <1>1, ValuesLemma, SettingsConstants DEF SettingsInv, SettingsTypeOK
<1>3. more \in SUBSET Keys /\ \A k \in Keys \ lost' : Carried(k, request')
  BY <1>1 DEF Forgotten
<1> HIDE DEF more
<1> QED BY <1>1, <1>2, <1>3, AfterWrite

\* The database has the vault of the request: the last one, if the request carries it.
LEMMA SyncVaultStep == ASSUME SettingsInv, NEW r \in Requests, SyncVault(r) PROVE SettingsInv'
<1> DEFINE q == request[r]
<1>1. /\ q.kind = "vault" /\ q.pc = "sent" /\ db' = q.vault /\ request' = [request EXCEPT ![r] = Handled(@)]
      /\ lost' = lost \cup Forgotten({"vault"} \ q.fresh, request')
      /\ UNCHANGED <<file, browser, saves, failures, newest>>
  BY DEF SyncVault
<1>2. q \in Request /\ q.vault \in Vaults /\ ~Merges(q) /\ Fit(q, newest)
  BY <1>1 DEF SettingsInv, SettingsTypeOK, Request, NoRequest, Merges, RequestsFit
<1>3. Handled(q) \in Request \cup {NoRequest} /\ Handled(q).fresh = {} /\ ~Merges(Handled(q))
  BY <1>2, HandledLemma
<1> HIDE DEF q
<1>4. \A p \in Requests : request'[p] = IF p = r THEN Handled(q) ELSE request[p]
  BY <1>1 DEF SettingsInv, SettingsTypeOK, q
<1>5. lost' \subseteq Items
  BY <1>1 DEF Forgotten, SettingsInv, SettingsTypeOK, Items
<1>6. SettingsTypeOK'
  BY <1>1, <1>2, <1>3, <1>5 DEF SettingsInv, SettingsTypeOK, q
<1>7. \A p \in Requests : Fit(request'[p], newest') /\ MergeStays(p)
  BY <1>1, <1>2, <1>3, <1>4, EmptyFits DEF MergeStays, SettingsInv, RequestsFit, q
<1>8. \A k \in Keys \ lost' : ItemStays(k) /\ newest'.keys[k] = newest.keys[k]
  <2>1. \A k \in Keys : k \notin q.fresh
    BY <1>1, <1>2 DEF Fit
  <2>2. \A k \in Keys : Carried(k, request) => Carried(k, request')
    BY <1>4, <2>1 DEF Carried, q
  <2> QED BY <1>1, <2>2 DEF ItemStays
<1>9. "vault" \notin lost' => Carried("vault", request') \/ db' = newest'.vault
  <2>1. CASE "vault" \in q.fresh
    BY <1>1, <1>2, <2>1 DEF Fit
  <2>2. CASE "vault" \notin q.fresh
    BY <1>1, <2>2 DEF Forgotten
  <2> QED BY <2>1, <2>2
<1> QED BY <1>1, <1>6, <1>7, <1>8, <1>9, Keeps

\* Nothing is on its way then.
LEMMA ServerRestartsStep == ASSUME SettingsInv, ServerRestarts PROVE SettingsInv'
<1>1. /\ request' = [r \in Requests |-> NoRequest]
      /\ lost' = lost \cup Dropped(request') \cup (IF Truncated THEN Keys ELSE {})
      /\ UNCHANGED <<file, db, saves, newest>>
      /\ failures' \in 0 .. MaxFailures
  BY SettingsConstants DEF ServerRestarts, Fails, SettingsInv, SettingsTypeOK
<1>2. browser' \in [Browsers -> Browser]
  BY DEF ServerRestarts, SettingsInv, SettingsTypeOK, Browser
<1>3. lost' \subseteq Items
  BY <1>1 DEF Dropped, Forgotten, Items, SettingsInv, SettingsTypeOK
<1>4. SettingsTypeOK'
  BY <1>1, <1>2, <1>3 DEF SettingsInv, SettingsTypeOK
<1>5. \A r \in Requests : request'[r] = NoRequest
  BY <1>1
<1>6. Merging' = {}
  BY <1>5 DEF Merging, NoRequest
<1>7. RequestsFit'
  <2>1. \A r \in Requests : Fit(request'[r], newest')
    BY <1>5, ValuesLemma, EmptyFits
  <2> QED BY <2>1 DEF RequestsFit, Fit
<1>8. WholeFits'
  BY <1>6 DEF WholeFits
<1>9. \A i \in Items \ lost' : i \notin lost /\ ~Carried(i, request)
  <2>1. \A i : ~Carried(i, request')
    BY <1>5, ValuesLemma DEF Carried
  <2> QED BY <1>1, <2>1 DEF Dropped, Forgotten
<1>10. \A k \in Keys \ lost' : ~Truncated /\ file[k] = newest.keys[k]
  BY <1>1, <1>9 DEF Items, SettingsInv, NewestIsStored
<1>11. "vault" \notin lost' => db = newest.vault
  BY <1>9 DEF Items, SettingsInv, NewestIsStored
<1>12. NewestIsStored'
  BY <1>1, <1>10, <1>11 DEF NewestIsStored
<1> QED BY <1>4, <1>7, <1>8, <1>12 DEF SettingsInv

-----------------------------------------------------------------------------
LEMMA SettingsNextHolds == SettingsInv /\ [SettingsNext]_settingsVars => SettingsInv'
<1>1. SUFFICES ASSUME SettingsInv, [SettingsNext]_settingsVars PROVE SettingsInv'
  OBVIOUS
<1>2. CASE UNCHANGED settingsVars
  BY <1>1, <1>2 DEF settingsVars, SettingsInv, SettingsTypeOK, RequestsFit, Fit, WholeFits,
     NewestIsStored, Merging, Truncated, Carried
<1>3. ASSUME NEW b \in Browsers, Start(b) \/ StartTimesOut(b) \/ Close(b) PROVE SettingsInv'
  BY <1>1, <1>3, StartStep, StartTimesOutStep, CloseStep
<1>4. ASSUME NEW b \in Browsers, NEW k \in Keys, SaveKey(b, k) PROVE SettingsInv'
  BY <1>1, <1>4, SaveKeyStep
<1>5. ASSUME NEW b \in Browsers, NEW a \in Accounts, SaveAccount(b, a) PROVE SettingsInv'
  BY <1>1, <1>5, SaveAccountStep
<1>6. ASSUME NEW b \in Browsers, NEW x \in Accounts \X Udids, MoveAccount(b, x) PROVE SettingsInv'
  BY <1>1, <1>6, MoveAccountStep
<1>7. ASSUME NEW r \in Requests, Hydrate(r) \/ Uploaded(r) PROVE SettingsInv'
  BY <1>1, <1>7, HydrateStep, UploadedStep
<1>8. ASSUME NEW r \in Requests, Get(r) \/ Read(r) \/ LoadFails(r) \/ Truncate(r) PROVE SettingsInv'
  BY <1>1, <1>8, GetStep, ReadStep, LoadFailsStep, TruncateStep
<1>9. ASSUME NEW r \in Requests, Write(r) \/ WriteFails(r) \/ SyncVault(r) \/ SyncRefused(r) PROVE SettingsInv'
  BY <1>1, <1>9, WriteStep, WriteFailsStep, SyncVaultStep, SyncRefusedStep
<1>10. ASSUME ServerRestarts PROVE SettingsInv'
  BY <1>1, <1>10, ServerRestartsStep
<1> QED BY <1>1, <1>2, <1>3, <1>4, <1>5, <1>6, <1>7, <1>8, <1>9, <1>10 DEF SettingsNext

\* Types hold in every state; a request that carries the last change has its value; and
\* who merges undisturbed knows what the file has or, while it is written, had (rest.go:1319).
THEOREM SettingsInductive == SettingsSpec => []SettingsInv
<1>1. SettingsInit => SettingsInv
  BY SettingsInitHolds
<1>2. SettingsInv /\ [SettingsNext]_settingsVars => SettingsInv'
  BY SettingsNextHolds
<1> QED BY <1>1, <1>2, PTL DEF SettingsSpec

\* Every value has its type in every reachable state; so no account is on two devices.
THEOREM SettingsTypeCorrect == SettingsSpec => []SettingsTypeOK
<1>1. SettingsInv => SettingsTypeOK
  BY DEF SettingsInv
<1> QED BY <1>1, SettingsInductive, PTL

\* What the last change in any page made of a key, or of the vault, is what the server
\* has, or is on its way there, unless it was lost in one of the ways NewestIsStored names.
THEOREM NewestSettingsAreStored == SettingsSpec => []NewestIsStored
<1>1. SettingsInv => NewestIsStored
  BY DEF SettingsInv
<1> QED BY <1>1, SettingsInductive, PTL
===========================================================================
