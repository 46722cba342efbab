--------------------------- MODULE SettingsStore ---------------------------
(***************************************************************************)
(* Settings and device accounts, kept twice: in the local storage of each  *)
(* browser profile, and by server-go in settings.json and data/Data.db.    *)
(*                                                                         *)
(* A browser starts by taking over what the server has (main.tsx) and      *)
(* saves each change by a POST that nobody waits for (backendSettings.ts,  *)
(* deviceAccountVault.ts).  The server handles each request in a goroutine *)
(* of its own (rest.go): it reads settings.json, merges, and writes it back*)
(* without a lock; the accounts are replaced in one transaction of SQLite  *)
(* (account_db.go).                                                        *)
(*                                                                         *)
(* The tile order, the other fields of an account, and the vault branch of *)
(* POST /settings, which no page uses, are left out.                       *)
(***************************************************************************)
EXTENDS Naturals, FiniteSets

CONSTANTS
  Browsers,    \* profiles, each with its local storage and one page
  Keys,        \* configKeysToSync
  Accounts,
  Udids,
  Requests,    \* bound: requests under way
  MaxSaves,    \* bound: changes made in the pages
  MaxFailures  \* bound: refused transactions, failed reads and writes, restarts

ASSUME SettingsConstants == MaxSaves \in Nat /\ MaxFailures \in Nat /\ "vault" \notin Keys

VARIABLES
  file,     \* settings.json: what a reader makes of each key
  db,       \* the table accounts
  browser,  \* per profile: the state of its page, and its local storage
  request,  \* requests
  saves,    \* bound: changes made
  failures, \* bound: failures met
  newest,   \* history: what the last change of each item made of it
  lost      \* history: the items whose last change was lost, see NewestIsStored

settingsVars == <<file, db, browser, request, saves, failures, newest, lost>>

\* A value is the number of the change that made it; 0 is missing, '', '[]' or '{}'.
Settings == [Keys -> 0 .. MaxSaves]
Empty == [k \in Keys |-> 0]

\* VaultData: the accounts of each device.  The table has one row for an account.
OneRowEach(v) == \A x, y \in v : x[1] = y[1] => x = y
Vaults == {v \in SUBSET (Accounts \X Udids) : OneRowEach(v)}
NoAccounts == {}

Items == Keys \cup {"vault"}

Browser == [state : {"closed", "starting", "uploading", "open"}, keys : Settings, vault : Vaults]

\* kind: a GET of the settings; a POST of keys, by a change or by a start; a POST of
\* the account vault.  `keys`: the values of the keys in `patch` or, of a GET, the
\* answer.  `seen`: the settings it has read.  History: `fresh`, the items it carries
\* the last change of; `whole`, it has read the whole file, and nobody has touched
\* the file since.
Request == [kind : {"get", "save", "upload", "vault"}, by : Browsers,
            pc : {"sent", "read", "truncated", "answered"},
            keys : Settings, patch : SUBSET Keys, seen : Settings, vault : Vaults,
            fresh : SUBSET Items, whole : BOOLEAN]
NoRequest == [kind |-> "none", fresh |-> {}]

Asked(kind, b) ==
  [kind |-> kind, by |-> b, pc |-> "sent", keys |-> Empty, patch |-> {}, seen |-> Empty,
   vault |-> NoAccounts, fresh |-> {}, whole |-> TRUE]

SettingsTypeOK ==
  /\ file \in Settings /\ db \in Vaults
  /\ browser \in [Browsers -> Browser]
  /\ request \in [Requests -> Request \cup {NoRequest}]
  /\ saves \in 0 .. MaxSaves /\ failures \in 0 .. MaxFailures
  /\ newest \in [keys : Settings, vault : Vaults] /\ lost \subseteq Items

SettingsInit ==
  /\ file = Empty /\ db = NoAccounts
  /\ browser = [b \in Browsers |-> [state |-> "closed", keys |-> Empty, vault |-> NoAccounts]]
  /\ request = [r \in Requests |-> NoRequest]
  /\ saves = 0 /\ failures = 0
  /\ newest = [keys |-> Empty, vault |-> NoAccounts] /\ lost = {}

-----------------------------------------------------------------------------
\* The server has handled a POST: only a start waits for its answer.
Handled(q) == IF q.kind = "upload" THEN [Asked("upload", q.by) EXCEPT !.pc = "answered"] ELSE NoRequest

\* POSTs of keys between their read and their write.
Merging == {r \in Requests : request[r].kind \in {"save", "upload"} /\ request[r].pc \in {"read", "truncated"}}
Truncated == \E r \in Merging : request[r].pc = "truncated"

\* The last change of an item is on its way to the server.
Carried(i, reqs) == \E r \in Requests : i \in reqs[r].fresh

\* Items whose last change goes lost when the requests become `reqs`: of some items
\* that the server forgets or overwrites; of those that were on their way.
Forgotten(items, reqs) == {i \in items : ~Carried(i, reqs)}
Dropped(reqs) == Forgotten({i \in Items : Carried(i, request)}, reqs)

\* The requests, when an item is changed: what they carry is older.
Older(reqs, i) == [r \in Requests |-> [reqs[r] EXCEPT !.fresh = @ \ {i}]]

-----------------------------------------------------------------------------
(* Pages.                                                                  *)

\* syncSettingsWithBackend asks the server.
Start(b) ==
  /\ browser[b].state = "closed"
  /\ \E r \in Requests : request[r] = NoRequest /\ request' = [request EXCEPT ![r] = Asked("get", b)]
  /\ browser' = [browser EXCEPT ![b].state = "starting"]
  /\ UNCHANGED <<file, db, saves, failures, newest, lost>>

\* After 1.5 seconds, or when the server cannot read the file and answers 500, the
\* page goes on with what it has.
StartTimesOut(b) ==
  /\ browser[b].state = "starting"
  /\ browser' = [browser EXCEPT ![b].state = "open"]
  /\ request' = [r \in Requests |->
       IF request[r].kind = "get" /\ request[r].by = b THEN NoRequest ELSE request[r]]
  /\ UNCHANGED <<file, db, saves, failures, newest, lost>>

\* The server's value of a key wins, unless it is empty.
TakenOver(b, keys) == [k \in Keys |-> IF keys[k] # 0 THEN keys[k] ELSE browser[b].keys[k]]

\* The answer to the GET.  Keys that only the browser has are uploaded first: older
\* values, if they were changed since, or if the last change has emptied them.  An
\* empty vault is not in the answer.
Hydrate(r) ==
  LET b == request[r].by
      taken == TakenOver(b, request[r].keys)
      missing == {k \in Keys : request[r].keys[k] = 0 /\ taken[k] # 0}
      upload == [Asked("upload", b) EXCEPT
                   !.keys = [k \in Keys |-> IF k \in missing THEN taken[k] ELSE 0], !.patch = missing]
  IN
  /\ request[r].kind = "get" /\ request[r].pc = "answered"
  /\ browser' = [browser EXCEPT ![b] =
       [state |-> IF missing # {} THEN "uploading" ELSE "open",
        keys |-> taken,
        vault |-> IF request[r].vault = NoAccounts THEN browser[b].vault ELSE request[r].vault]]
  /\ request' = [request EXCEPT ![r] = IF missing # {} THEN upload ELSE NoRequest]
  /\ UNCHANGED <<file, db, saves, failures, newest, lost>>

\* The answer to the upload, with which the start ends.
Uploaded(r) ==
  /\ request[r].kind = "upload" /\ request[r].pc = "answered"
  /\ browser' = [browser EXCEPT ![request[r].by].state = "open"]
  /\ request' = [request EXCEPT ![r] = NoRequest]
  /\ UNCHANGED <<file, db, saves, failures, newest, lost>>

\* saveBackendSetting, after localStorage.setItem; the value may be an empty one.
SaveKey(b, k) ==
  /\ browser[b].state = "open" /\ saves < MaxSaves
  /\ saves' = saves + 1
  /\ \E v \in {0, saves + 1}, r \in Requests :
       /\ request[r] = NoRequest
       /\ browser' = [browser EXCEPT ![b].keys[k] = v]
       /\ request' = [Older(request, k) EXCEPT
            ![r] = [Asked("save", b) EXCEPT !.keys[k] = v, !.patch = {k}, !.fresh = {k}]]
       /\ newest' = [newest EXCEPT !.keys[k] = v]
  /\ lost' = lost \ {k}
  /\ UNCHANGED <<file, db, failures>>

PostVault(b, v) == [Asked("vault", b) EXCEPT !.vault = v, !.fresh = {"vault"}]

\* saveDeviceAccountData: an account is added to a device, or deleted; the whole vault
\* is posted.
SaveAccount(b, a) ==
  LET old == browser[b].vault
      rest == {x \in old : x[1] # a}
      new == IF rest = old THEN {old \cup {<<a, d>>} : d \in Udids} ELSE {rest}
  IN
  /\ browser[b].state = "open" /\ saves < MaxSaves
  /\ saves' = saves + 1
  /\ \E v \in new, r \in Requests :
       /\ request[r] = NoRequest
       /\ browser' = [browser EXCEPT ![b].vault = v]
       /\ request' = [Older(request, "vault") EXCEPT ![r] = PostVault(b, v)]
       /\ newest' = [newest EXCEPT !.vault = v]
  /\ lost' = lost \ {"vault"}
  /\ UNCHANGED <<file, db, failures>>

\* Mutant: the account stays on its device as well.
TakenFrom_Copied(v, x) == v

\* The account is spliced from the list of its device.
TakenFrom(v, x) == v \ {x}

\* A move to another device is two changes, and two POSTs, of which the first is older.
MoveAccount(b, x) ==
  /\ browser[b].state = "open" /\ saves < MaxSaves
  /\ x \in browser[b].vault
  /\ saves' = saves + 1
  /\ \E d \in Udids \ {x[2]}, r, q \in Requests :
       LET without == TakenFrom(browser[b].vault, x)
           moved == without \cup {<<x[1], d>>}
       IN /\ r # q /\ request[r] = NoRequest /\ request[q] = NoRequest
          /\ browser' = [browser EXCEPT ![b].vault = moved]
          /\ request' = [Older(request, "vault") EXCEPT
               ![r] = [PostVault(b, without) EXCEPT !.fresh = {}], ![q] = PostVault(b, moved)]
          /\ newest' = [newest EXCEPT !.vault = moved]
  /\ lost' = lost \ {"vault"}
  /\ UNCHANGED <<file, db, failures>>

\* The page is closed: what it has sent may still arrive, or not.
Close(b) ==
  /\ browser[b].state # "closed"
  /\ browser' = [browser EXCEPT ![b].state = "closed"]
  /\ \E gone \in SUBSET {r \in Requests : request[r] # NoRequest /\ request[r].by = b /\ request[r].pc = "sent"} :
       request' = [r \in Requests |->
         IF request[r] = NoRequest \/ request[r].by # b THEN request[r]
         ELSE IF r \in gone \/ request[r].kind = "get" THEN NoRequest
         ELSE IF request[r].kind # "upload" THEN request[r]
         ELSE IF request[r].pc = "answered" THEN NoRequest ELSE [request[r] EXCEPT !.kind = "save"]]
  /\ lost' = lost \cup Dropped(request')
  /\ UNCHANGED <<file, db, saves, failures, newest>>

-----------------------------------------------------------------------------
(* The server.                                                             *)

Fails(ok) == IF ok THEN UNCHANGED failures ELSE failures < MaxFailures /\ failures' = failures + 1

\* handleSettings, GET: the file, and the accounts, if there are any and they can be loaded.
Get(r) ==
  /\ request[r].kind = "get" /\ request[r].pc = "sent"
  /\ \E ok \in BOOLEAN :
       /\ Fails(ok) /\ (~ok => db # NoAccounts)
       /\ request' = [request EXCEPT ![r] =
            [@ EXCEPT !.pc = "answered", !.keys = file, !.vault = IF ok THEN db ELSE NoAccounts]]
  /\ UNCHANGED <<file, db, browser, saves, newest, lost>>

\* handleSettings, POST: the file is read.  If that fails, it is taken to be empty.
Read(r) ==
  /\ request[r].kind \in {"save", "upload"} /\ request[r].pc = "sent"
  /\ \E ok \in BOOLEAN :
       /\ Fails(ok)
       /\ request' = [request EXCEPT ![r] =
            [@ EXCEPT !.pc = "read", !.seen = IF ok THEN file ELSE Empty, !.whole = ok /\ ~Truncated]]
  /\ UNCHANGED <<file, db, browser, saves, newest, lost>>

\* The accounts cannot be loaded, or the file cannot be opened: 500, before anything
\* is written.
LoadFails(r) ==
  /\ r \in Merging /\ request[r].pc = "read" /\ Fails(FALSE)
  /\ request' = [request EXCEPT ![r] = Handled(@)]
  /\ lost' = lost \cup Dropped(request')
  /\ UNCHANGED <<file, db, browser, saves, newest>>

\* os.WriteFile truncates the file ...
Truncate(r) ==
  /\ r \in Merging /\ request[r].pc = "read"
  /\ file' = Empty
  /\ request' = [q \in Requests |->
       IF q = r THEN [request[r] EXCEPT !.pc = "truncated"]
       ELSE IF q \in Merging THEN [request[q] EXCEPT !.whole = FALSE] ELSE request[q]]
  /\ UNCHANGED <<db, browser, saves, failures, newest, lost>>

\* Mutant: the keys of the request alone.
MergedSettings_PatchOnly(r) == request[r].keys

\* The settings that were read, with the keys of the request.
MergedSettings(r) == [k \in Keys |-> IF k \in request[r].patch THEN request[r].keys[k] ELSE request[r].seen[k]]

\* ... and writes it.  If another has written meanwhile, and more, the rest of that
\* stays behind, and the file is no JSON.
Write(r) ==
  /\ r \in Merging /\ request[r].pc = "truncated"
  /\ file' \in {MergedSettings(r)} \cup (IF file = Empty THEN {} ELSE {Empty})
  /\ request' = [request EXCEPT ![r] = Handled(@)]
  /\ lost' = lost \cup
       Forgotten(IF request[r].whole THEN request[r].patch \ request[r].fresh ELSE Keys, request')
  /\ UNCHANGED <<db, browser, saves, failures, newest>>

\* ... or fails, and leaves no JSON behind, or what another has written meanwhile: 500.
WriteFails(r) ==
  /\ r \in Merging /\ request[r].pc = "truncated" /\ Fails(FALSE)
  /\ file' \in {file, Empty}
  /\ request' = [request EXCEPT ![r] = Handled(@)]
  /\ lost' = lost \cup Forgotten(Keys, request')
  /\ UNCHANGED <<db, browser, saves, newest>>

\* syncDeviceAccountVaultToDB: every account is replaced, in one transaction.
SyncVault(r) ==
  /\ request[r].kind = "vault" /\ request[r].pc = "sent" /\ OneRowEach(request[r].vault)
  /\ db' = request[r].vault
  /\ request' = [request EXCEPT ![r] = Handled(@)]
  /\ lost' = lost \cup Forgotten({"vault"} \ request[r].fresh, request')
  /\ UNCHANGED <<file, browser, saves, failures, newest>>

\* Another writer has the database: tx.Rollback.
SyncRefused(r) ==
  /\ request[r].kind = "vault" /\ request[r].pc = "sent" /\ Fails(FALSE)
  /\ request' = [request EXCEPT ![r] = Handled(@)]
  /\ lost' = lost \cup Dropped(request')
  /\ UNCHANGED <<file, db, browser, saves, newest>>

\* The server restarts: what it was doing is lost, the text of a truncated file too.
ServerRestarts ==
  /\ Fails(FALSE)
  /\ request' = [r \in Requests |-> NoRequest]
  /\ browser' = [b \in Browsers |->
       IF browser[b].state \in {"starting", "uploading"} THEN [browser[b] EXCEPT !.state = "open"] ELSE browser[b]]
  /\ lost' = lost \cup Dropped(request') \cup (IF Truncated THEN Keys ELSE {})
  /\ UNCHANGED <<file, db, saves, newest>>

-----------------------------------------------------------------------------
SettingsNext ==
  \/ \E b \in Browsers :
       \/ Start(b) \/ StartTimesOut(b) \/ Close(b)
       \/ \E k \in Keys : SaveKey(b, k)
       \/ \E a \in Accounts : SaveAccount(b, a)
       \/ \E x \in Accounts \X Udids : MoveAccount(b, x)
  \/ \E r \in Requests :
       \/ Hydrate(r) \/ Uploaded(r)
       \/ Get(r) \/ Read(r) \/ LoadFails(r) \/ Truncate(r) \/ Write(r) \/ WriteFails(r)
       \/ SyncVault(r) \/ SyncRefused(r)
  \/ ServerRestarts

SettingsSpec == SettingsInit /\ [][SettingsNext]_settingsVars

-----------------------------------------------------------------------------
(* Properties.                                                             *)

\* What the last change in any page made of a key, or of the vault, is what the server
\* has, as long as nobody changes it again, or its POST is under way, or the file is
\* just being written.  Saves and starts of other pages never undo it.  It is lost
\* (and `lost` says so until the next change) in these cases, and no other:
\*  - its POST did not arrive when its page closed, was answered 500, or was under way
\*    when the server stopped;
\*  - it was overtaken: a POST of an older change of the item was handled after it, or
\*    a start uploaded what its profile had, because the server had no value when it
\*    asked, be it that the last change was to empty the key (main.tsx:97);
\*  - a POST of keys has merged settings that it could not read (rest.go:1320), that
\*    another POST was just writing, or had written by then;
\*  - a write failed, or the server stopped within it (rest.go:1416).
NewestIsStored ==
  /\ \A k \in Keys \ lost :
       Carried(k, request) \/ Truncated \/ file[k] = newest.keys[k]
  /\ "vault" \notin lost => Carried("vault", request) \/ db = newest.vault
=============================================================================
