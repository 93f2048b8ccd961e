------------------------------ MODULE Sessions ------------------------------
(***************************************************************************)
(* The Telegram session of one phone number and everything that reads,     *)
(* writes or uses it: status probes, code logins, session import and       *)
(* migration, logout and removal (webapi/account_manager.py), management   *)
(* operations (telegram_service.py) and the workers of the account's jobs  *)
(* (job_manager.py).  Module QrLogin adds the QR logins.                   *)
(*                                                                         *)
(* A request handler is a coroutine of the web server: between two awaits  *)
(* it is one step; a request that is refused changes nothing and is left   *)
(* out.  A session string is its authorisation key; whether Telegram       *)
(* accepts a key is Telegram's knowledge.  A client that starts from no    *)
(* session makes a fresh key when it connects.  The deployment is the one  *)
(* with a SQL session store: PostgreSQL and a master key.                  *)
(***************************************************************************)
EXTENDS Naturals

CONSTANTS
  Handlers,     (* request handlers, each serves one request               *)
  Workers,      (* runs of the account's jobs, in this or another process  *)
  Logins,       (* ids of code logins                                      *)
  Keys,         (* authorisation keys                                      *)
  LegacyKey,    (* the key in the legacy session file                      *)
  Nothing,      (* no key, no owner, no login                              *)
  MaxAccounts   (* bound: times the phone number is registered             *)

ASSUME SessionsAssumption ==
  /\ Handlers \cap Workers = {}
  /\ Nothing \notin Handlers \cup Workers \cup Logins \cup Keys
  /\ LegacyKey \in Keys
  /\ MaxAccounts \in Nat \ {0}

VARIABLES
  account,      (* id of the phone's telegram_accounts row, 0 for none     *)
  registered,   (* ids given out so far                                    *)
  session,      (* telegram_sessions: account id |-> key                   *)
  legacy,       (* whether the legacy session file exists                  *)
  authorised,   (* keys Telegram accepts                                   *)
  fresh,        (* keys nobody has made yet                                *)
  jobOpen,      (* has_unfinished_jobs_for_account                         *)
  lease,        (* owner of the account lease                              *)
  lock,         (* holder of the account's management lock                 *)
  login,        (* telegram_login_sessions                                 *)
  handler,      (* what each handler has in its local variables            *)
  worker        (* likewise, each worker                                   *)

accountVars  == <<account, registered, session, legacy>>
telegramVars == <<authorised, fresh>>
leaseVars    == <<lease, lock, jobOpen>>
sessionsVars == <<accountVars, telegramVars, leaseVars, login, handler, worker>>

Accounts == 1 .. MaxAccounts
MaybeKey == Keys \cup {Nothing}
Unleased == {"probe", "login", "submit"}   (* clients without account lease *)
Pending  == {"WAIT_CODE", "WAIT_2FA"}

SessionsTypeOK ==
  /\ account \in 0 .. registered /\ registered \in 0 .. MaxAccounts
  /\ session \in [Accounts -> MaybeKey]
  /\ legacy \in BOOLEAN /\ jobOpen \in BOOLEAN
  /\ authorised \subseteq Keys /\ fresh \subseteq Keys
  /\ lease \in Handlers \cup Workers \cup {Nothing}
  /\ lock \in Handlers \cup {Nothing}
  /\ login \in [Logins -> [state : Pending \cup {"none", "COMPLETED", "FAILED"},
                           account : 0 .. MaxAccounts, live : BOOLEAN]]
  /\ handler \in [Handlers ->
       [kind : Unleased \cup {"none", "import", "migrate", "manage"},
        pc : {"new", "connect", "check", "call", "confirm", "answer",
              "lock", "acquire", "done"},
        key : MaybeKey, sql : BOOLEAN, id : 0 .. MaxAccounts,
        row : Logins \cup {Nothing}, seen : Pending \cup {"none"},
        result : Pending \cup {"none", "ok", "void", "failed"}]]
  /\ worker \in [Workers -> [pc : {"idle", "claimed", "opening", "connected",
                                   "leaving", "over"},
                             key : MaybeKey, sql : BOOLEAN]]

NoRequest == [kind |-> "none", pc |-> "new", key |-> Nothing, sql |-> FALSE,
              id |-> 0, row |-> Nothing, seen |-> "none", result |-> "none"]
NoRun     == [pc |-> "idle", key |-> Nothing, sql |-> FALSE]

SessionsInit ==
  /\ account \in 0 .. 1 /\ registered = account
  /\ session = [i \in Accounts |-> Nothing]
  /\ legacy \in BOOLEAN
  /\ authorised \in {{}, {LegacyKey}}
  /\ fresh = Keys \ {LegacyKey}
  /\ jobOpen = FALSE /\ lease = Nothing /\ lock = Nothing
  /\ login = [l \in Logins |-> [state |-> "none", account |-> 0, live |-> FALSE]]
  /\ handler = [h \in Handlers |-> NoRequest]
  /\ worker = [w \in Workers |-> NoRun]

-----------------------------------------------------------------------------
(* The guards of AccountManager, and the session store.                    *)

InUse   == lease # Nothing                 (* is_account_owned              *)
Working == InUse \/ jobOpen                (* or has_unfinished_jobs        *)
LoginPending == \E l \in Logins :          (* active_login                  *)
  login[l].state \in Pending /\ login[l].account = account /\ login[l].live

Stored == IF account = 0 THEN Nothing ELSE session[account]
UsesSql(force) == force \/ Stored # Nothing \/ ~legacy       (* _new_service *)

(* _new_client loads the stored key, or opens the file.                    *)
Loaded(sql) == IF sql THEN Stored ELSE LegacyKey

(* store.save looks the phone's account up at the time of the write and    *)
(* raises when there is none; a client without a key has nothing to save.  *)
Saves(c)   == c.sql /\ c.key # Nothing
SaveOK(c)  == Saves(c) => account # 0
Persist(c) == session' = IF Saves(c) /\ account # 0
                         THEN [session EXCEPT ![account] = c.key] ELSE session

(* Connecting makes a key for a client that has none.                      *)
Connecting(c, k) ==
  /\ IF c.key = Nothing THEN k \in fresh ELSE k = c.key
  /\ fresh' = fresh \ {k}

Busy(h, kind, pc) == handler[h].kind = kind /\ handler[h].pc = pc
Become(h, c)      == handler' = [handler EXCEPT ![h] = c]
Go(h, pc)         == handler' = [handler EXCEPT ![h].pc = pc]
Request(h, kind)  == [handler[h] EXCEPT !.kind = kind, !.id = account]
Done(h)           == Become(h, [NoRequest EXCEPT !.pc = "done"])

-----------------------------------------------------------------------------
(* Clients of _status_for, start_login and submit_code.                    *)

(* The constructor of the service and, up to the connect, its client.      *)
Opened(h, kind, force) ==
  [Request(h, kind) EXCEPT !.pc = "connect", !.sql = UsesSql(force),
                           !.key = Loaded(UsesSql(force))]

StartProbe(h) ==
  /\ handler[h] = NoRequest /\ account # 0
  /\ ~LoginPending /\ ~InUse
  /\ Become(h, Opened(h, "probe", FALSE))
  /\ UNCHANGED <<accountVars, telegramVars, leaseVars, login, worker>>

StartLogin(h) ==
  /\ handler[h] = NoRequest /\ account # 0
  /\ ~InUse /\ ~LoginPending
  /\ \E force \in BOOLEAN, l \in Logins :
       /\ login[l].state = "none"
       /\ \A g \in Handlers : handler[g].row # l
       /\ Become(h, [Opened(h, "login", force) EXCEPT !.row = l])
  /\ UNCHANGED <<accountVars, telegramVars, leaseVars, login, worker>>

(* submit_code checks neither the lease nor the expiry of the login.       *)
StartSubmit(h, l) ==
  /\ handler[h] = NoRequest
  /\ account # 0 /\ login[l].account = account
  /\ login[l].state \in Pending
  /\ Become(h, [Opened(h, "submit", FALSE) EXCEPT !.row = l, !.seen = login[l].state])
  /\ UNCHANGED <<accountVars, telegramVars, leaseVars, login, worker>>

(* The finally clause: persist, disconnect.  A failing save replaces the   *)
(* result: "void" leaves the row of a submitted login alone.               *)
Finally(h, c, result) ==
  /\ Persist(c)
  /\ IF c.kind = "probe" THEN Done(h)
     ELSE Become(h, [c EXCEPT !.pc = "answer",
                              !.result = IF SaveOK(c) THEN result ELSE "void"])

ConnectFails(h) ==
  /\ handler[h].kind \in Unleased /\ handler[h].pc = "connect"
  /\ Finally(h, handler[h], "failed")
  /\ UNCHANGED <<account, registered, legacy, telegramVars, leaseVars, login, worker>>

(* All but sign_in persist once they are connected.                        *)
Connects(h) ==
  /\ handler[h].kind \in Unleased /\ handler[h].pc = "connect"
  /\ \E k \in Keys :
       LET c == [handler[h] EXCEPT !.key = k]
       IN  /\ Connecting(handler[h], k)
           /\ IF c.kind = "submit" THEN Become(h, [c EXCEPT !.pc = "call"]) /\ UNCHANGED session
              ELSE IF SaveOK(c) THEN Become(h, [c EXCEPT !.pc = "check"]) /\ Persist(c)
              ELSE Finally(h, c, "failed")
  /\ UNCHANGED <<account, registered, legacy, authorised, leaseVars, login, worker>>

(* is_user_authorized; request_login_code goes on to ask for a code.       *)
Checks(h) ==
  /\ handler[h].kind \in {"probe", "login"} /\ handler[h].pc = "check"
  /\ IF handler[h].kind = "login" /\ handler[h].key \notin authorised
     THEN Go(h, "call") /\ UNCHANGED session
     ELSE Finally(h, handler[h], "ok")
  /\ UNCHANGED <<account, registered, legacy, telegramVars, leaseVars, login, worker>>

CodeSent(h) ==
  /\ Busy(h, "login", "call")
  /\ \E result \in {"WAIT_CODE", "failed"} : Finally(h, handler[h], result)
  /\ UNCHANGED <<account, registered, legacy, telegramVars, leaseVars, login, worker>>

SignInRefused(h) ==                    (* or a password is needed           *)
  /\ Busy(h, "submit", "call")
  /\ \/ Finally(h, handler[h], "failed")
     \/ handler[h].seen = "WAIT_CODE" /\ Finally(h, handler[h], "WAIT_2FA")
  /\ UNCHANGED <<account, registered, legacy, telegramVars, leaseVars, login, worker>>

SignedIn(h) ==
  /\ Busy(h, "submit", "call")
  /\ authorised' = authorised \cup {handler[h].key}
  /\ IF SaveOK(handler[h]) THEN Go(h, "confirm") /\ Persist(handler[h])
                           ELSE Finally(h, handler[h], "ok")
  /\ UNCHANGED <<account, registered, legacy, fresh, leaseVars, login, worker>>

(* is_user_authorized after the sign-in.                                   *)
Confirms(h) ==
  /\ Busy(h, "submit", "confirm")
  /\ \E result \in {"ok", "void", "failed"} : Finally(h, handler[h], result)
  /\ UNCHANGED <<account, registered, legacy, telegramVars, leaseVars, login, worker>>

(* A COMPLETED login removes the file once the session is in SQL.          *)
RemoveFileIfStored == legacy' = (legacy /\ Stored = Nothing)

(* The state a finished call leaves in the row: a failed submit writes the *)
(* state it read back, whatever it is by now.                              *)
Outcome(c) ==
  CASE c.result = "ok" -> "COMPLETED"
    [] c.result \in Pending -> c.result
    [] c.result = "failed" /\ c.kind = "submit" -> c.seen
    [] c.result = "void" /\ c.kind = "submit" -> login[c.row].state
    [] OTHER -> "FAILED"

LoginAnswers(h) ==
  /\ handler[h].kind \in {"login", "submit"} /\ handler[h].pc = "answer"
  /\ Done(h)
  /\ login' = [login EXCEPT ![handler[h].row] =
       IF handler[h].kind = "submit" THEN [@ EXCEPT !.state = Outcome(handler[h])]
       ELSE [state |-> Outcome(handler[h]), account |-> handler[h].id, live |-> TRUE]]
  /\ IF handler[h].result = "ok" THEN RemoveFileIfStored ELSE UNCHANGED legacy
  /\ UNCHANGED <<account, registered, session, telegramVars, leaseVars, worker>>

CancelLogin(l) ==
  /\ login[l].state # "none"
  /\ login' = [login EXCEPT ![l].state = "FAILED"]
  /\ UNCHANGED <<accountVars, telegramVars, leaseVars, handler, worker>>

LoginExpires(l) ==
  /\ login[l].live
  /\ login' = [login EXCEPT ![l].live = FALSE]
  /\ UNCHANGED <<accountVars, telegramVars, leaseVars, handler, worker>>
-----------------------------------------------------------------------------
(* Requests without an await: one step each.                               *)

NewAccount == registered < MaxAccounts /\ account' = registered + 1
              /\ registered' = registered + 1

AddAccount ==
  /\ account = 0 /\ NewAccount
  /\ UNCHANGED <<session, legacy, telegramVars, leaseVars, login, handler, worker>>

Logout ==
  /\ account # 0 /\ ~Working /\ ~LoginPending
  /\ session' = [session EXCEPT ![account] = Nothing]
  /\ legacy' = FALSE
  /\ UNCHANGED <<account, registered, telegramVars, leaseVars, login, handler, worker>>

RemoveKeepingSession ==   (* mutant of RemoveAccount: the session row is forgotten *)
  /\ account # 0 /\ ~InUse /\ ~LoginPending /\ ~jobOpen
  /\ account' = 0 /\ legacy' = FALSE
  /\ UNCHANGED <<registered, session, telegramVars, leaseVars, login, handler, worker>>

RemoveAccount ==
  /\ account # 0 /\ ~InUse /\ ~LoginPending /\ ~jobOpen
  /\ session' = [session EXCEPT ![account] = Nothing]
  /\ account' = 0 /\ legacy' = FALSE
  /\ UNCHANGED <<registered, telegramVars, leaseVars, login, handler, worker>>

OpenJob ==
  /\ account # 0 /\ ~jobOpen /\ jobOpen' = TRUE
  /\ UNCHANGED <<accountVars, telegramVars, lease, lock, login, handler, worker>>

CancelJob ==                 (* of a job without a live worker              *)
  /\ jobOpen /\ jobOpen' = FALSE
  /\ \A w \in Workers : worker[w].pc \in {"idle", "over"}
  /\ UNCHANGED <<accountVars, telegramVars, lease, lock, login, handler, worker>>

-----------------------------------------------------------------------------
(* import_session_file and migrate_legacy_session: both convert a file in  *)
(* inspect_and_convert_session, with a connection of its own, and write    *)
(* the session when they come back.  An import may name its account.       *)

StartImport(h) ==
  /\ handler[h] = NoRequest
  /\ \E target \in {0, account}, k \in fresh :
       /\ target # 0 => ~Working
       /\ fresh' = fresh \ {k}
       /\ Become(h, [Request(h, "import") EXCEPT !.pc = "call", !.key = k,
                                                 !.id = target, !.sql = TRUE])
  /\ UNCHANGED <<accountVars, authorised, leaseVars, login, worker>>

StartMigrate(h) ==
  /\ handler[h] = NoRequest /\ account # 0 /\ legacy
  /\ ~InUse
  /\ Become(h, [Request(h, "migrate") EXCEPT !.pc = "call", !.key = LegacyKey,
                                             !.sql = TRUE])
  /\ UNCHANGED <<accountVars, telegramVars, leaseVars, login, worker>>

(* The file, its connection or its authorisation is bad.                   *)
InspectFails(h) ==
  /\ handler[h].kind \in {"import", "migrate"} /\ handler[h].pc = "call"
  /\ Done(h)
  /\ UNCHANGED <<accountVars, telegramVars, leaseVars, login, worker>>

EndImportUnchecked(h) ==     (* mutant of EndImport: no second check        *)
  /\ Busy(h, "import", "call") /\ Done(h)
  /\ authorised' = authorised \cup {handler[h].key}
  /\ account # 0 /\ Persist(handler[h]) /\ legacy' = FALSE
  /\ UNCHANGED <<account, registered, fresh, leaseVars, login, worker>>

(* The account is looked up again unless it was named: one that has work   *)
(* refuses the import, a missing one is created, a named one that has been *)
(* removed makes the save fail and the transaction roll back.              *)
EndImport(h) ==
  /\ Busy(h, "import", "call") /\ Done(h)
  /\ authorised' = authorised \cup {handler[h].key}
  /\ \/ /\ (account # 0 /\ Working) \/ (account = 0 /\ handler[h].id # 0)
        /\ UNCHANGED accountVars
     \/ /\ account # 0 /\ ~Working
        /\ Persist(handler[h]) /\ legacy' = FALSE
        /\ UNCHANGED <<account, registered>>
     \/ /\ account = 0 /\ handler[h].id = 0 /\ NewAccount
        /\ session' = [session EXCEPT ![account'] = handler[h].key]
        /\ legacy' = FALSE
  /\ UNCHANGED <<fresh, leaseVars, login, worker>>

EndMigrate(h) ==             (* the lease is not checked again              *)
  /\ Busy(h, "migrate", "call") /\ Done(h)
  /\ LegacyKey \in authorised
  /\ Persist(handler[h])
  /\ legacy' = (legacy /\ account = 0)
  /\ UNCHANGED <<account, registered, telegramVars, leaseVars, login, worker>>

-----------------------------------------------------------------------------
(* Management operations: management_service, then _authorized_call.       *)

StartManage(h) ==
  /\ handler[h] = NoRequest /\ account # 0
  /\ ~InUse
  /\ Become(h, [Request(h, "manage") EXCEPT !.pc = "lock", !.sql = UsesSql(FALSE)])
  /\ UNCHANGED <<accountVars, telegramVars, leaseVars, login, worker>>

TakeLock(h) ==
  /\ Busy(h, "manage", "lock") /\ lock = Nothing
  /\ lock' = h /\ Go(h, "acquire")
  /\ UNCHANGED <<accountVars, telegramVars, lease, jobOpen, login, worker>>

(* After the limiter's acquire: the claim, the client's session.  An       *)
(* account that was removed meanwhile makes the load fail, and the claim   *)
(* is given back in the same step.                                         *)
ClaimAccountLeaking(h) ==    (* mutant of ClaimAccount: a failing load      *)
  /\ Busy(h, "manage", "acquire")    (* does not give the claim back        *)
  /\ lease' = IF lease = Nothing THEN h ELSE lease
  /\ IF lease = Nothing /\ (handler[h].sql => account # 0)
     THEN /\ UNCHANGED lock
          /\ Become(h, [handler[h] EXCEPT !.pc = "connect",
                                          !.key = Loaded(handler[h].sql)])
     ELSE lock' = Nothing /\ Done(h)
  /\ UNCHANGED <<accountVars, telegramVars, jobOpen, login, worker>>

ClaimAccount(h) ==
  /\ Busy(h, "manage", "acquire")
  /\ IF lease = Nothing /\ (handler[h].sql => account # 0)
     THEN /\ lease' = h /\ UNCHANGED lock
          /\ Become(h, [handler[h] EXCEPT !.pc = "connect",
                                          !.key = Loaded(handler[h].sql)])
     ELSE lock' = Nothing /\ Done(h) /\ UNCHANGED lease
  /\ UNCHANGED <<accountVars, telegramVars, jobOpen, login, worker>>

ManageConnects(h) ==
  /\ Busy(h, "manage", "connect")
  /\ \E k \in Keys : /\ Connecting(handler[h], k)
                      /\ Become(h, [handler[h] EXCEPT !.pc = "call", !.key = k])
  /\ UNCHANGED <<accountVars, authorised, leaseVars, login, worker>>

(* The operation, or whatever failed before it, is over: the finally       *)
(* clause saves the session; a failing save would skip the disconnect and  *)
(* the release.                                                            *)
ManagePersistsReleasing(h) ==   (* mutant of ManagePersists: releases the    *)
  /\ handler[h].kind = "manage"    (* lease before it disconnects            *)
  /\ handler[h].pc \in {"connect", "call"}
  /\ Persist(handler[h]) /\ Go(h, "answer")
  /\ lease' = Nothing
  /\ UNCHANGED <<account, registered, legacy, telegramVars, lock, jobOpen, login, worker>>

ManagePersists(h) ==
  /\ handler[h].kind = "manage" /\ handler[h].pc \in {"connect", "call"}
  /\ Persist(handler[h])
  /\ IF SaveOK(handler[h]) THEN Go(h, "answer") /\ UNCHANGED lock
                           ELSE Done(h) /\ lock' = Nothing
  /\ UNCHANGED <<account, registered, legacy, telegramVars, lease, jobOpen, login, worker>>

ManageReleases(h) ==         (* the client is disconnected                  *)
  /\ Busy(h, "manage", "answer") /\ Done(h)
  /\ lease' = Nothing /\ lock' = Nothing
  /\ UNCHANGED <<accountVars, telegramVars, jobOpen, login, worker>>
-----------------------------------------------------------------------------
(* Workers: JobManager.run around Worker.process.  Module Runtime models   *)
(* the leases themselves; here a run holds its account lease throughout.   *)

WorkerGoes(w, pc) == worker' = [worker EXCEPT ![w].pc = pc]

WorkerClaims(w) ==
  /\ worker[w].pc = "idle" /\ account # 0 /\ lease = Nothing
  /\ lease' = w /\ jobOpen' = TRUE
  /\ worker' = [worker EXCEPT ![w].pc = "claimed", ![w].sql = UsesSql(FALSE)]
  /\ UNCHANGED <<accountVars, telegramVars, lock, login, handler>>

WorkerOpens(w) ==
  /\ worker[w].pc = "claimed"
  /\ worker' = [worker EXCEPT ![w].pc = "opening", ![w].key = Loaded(worker[w].sql)]
  /\ UNCHANGED <<accountVars, telegramVars, leaseVars, login, handler>>

(* The session is saved before the authorisation is checked; a client that *)
(* is not authorised ends the run and is forgotten.                        *)
WorkerConnects(w) ==
  /\ worker[w].pc = "opening"
  /\ \E k \in Keys :
       /\ Connecting(worker[w], k)
       /\ Persist([worker[w] EXCEPT !.key = k])
       /\ worker' = [worker EXCEPT ![w].key = k, ![w].pc =
                        IF k \in authorised THEN "connected" ELSE "leaving"]
  /\ UNCHANGED <<account, registered, legacy, authorised, leaseVars, login, handler>>

(* The run ends, with its job settled or open; disconnect() saves.         *)
WorkerEnds(w) ==
  /\ worker[w].pc \in {"opening", "connected"}
  /\ jobOpen' \in (IF worker[w].pc = "connected" THEN BOOLEAN ELSE {TRUE})
  /\ IF worker[w].pc = "connected" THEN Persist(worker[w]) ELSE UNCHANGED session
  /\ WorkerGoes(w, "leaving")
  /\ UNCHANGED <<account, registered, legacy, telegramVars, lease, lock, login, handler>>

WorkerReleases(w) ==
  /\ worker[w].pc = "leaving"
  /\ worker' = [worker EXCEPT ![w] = [NoRun EXCEPT !.pc = "over"]]
  /\ lease' = Nothing
  /\ UNCHANGED <<accountVars, telegramVars, lock, jobOpen, login, handler>>

-----------------------------------------------------------------------------
SessionsNext ==
  \/ AddAccount \/ Logout \/ RemoveAccount \/ OpenJob \/ CancelJob
  \/ \E l \in Logins : CancelLogin(l) \/ LoginExpires(l)
  \/ \E h \in Handlers :
       \/ StartProbe(h) \/ StartLogin(h) \/ \E l \in Logins : StartSubmit(h, l)
       \/ ConnectFails(h) \/ Connects(h) \/ Checks(h) \/ CodeSent(h)
       \/ SignInRefused(h) \/ SignedIn(h) \/ Confirms(h) \/ LoginAnswers(h)
       \/ StartImport(h) \/ StartMigrate(h) \/ InspectFails(h)
       \/ EndImport(h) \/ EndMigrate(h)
       \/ StartManage(h) \/ TakeLock(h) \/ ClaimAccount(h) \/ ManageConnects(h)
       \/ ManagePersists(h) \/ ManageReleases(h)
  \/ \E w \in Workers :
       \/ WorkerClaims(w) \/ WorkerOpens(w) \/ WorkerConnects(w)
       \/ WorkerEnds(w) \/ WorkerReleases(w)

SessionsSpec == SessionsInit /\ [][SessionsNext]_sessionsVars

-----------------------------------------------------------------------------
(* README.md:220-222 "Checker and Manager operations cannot use the same   *)
(* Telegram session concurrently": of all workers and management           *)
(* operations at most one has a client that may be connected, from before  *)
(* it connects until after it has disconnected, whoever asked first and    *)
(* although an operation sleeps between its first check and its claim.     *)
Connected(p) ==
  \/ p \in Workers /\ worker[p].pc \in {"opening", "connected", "leaving"}
  \/ p \in Handlers /\ handler[p].kind = "manage"
                    /\ handler[p].pc \in {"connect", "call", "answer"}

OneClient ==
  \A p, q \in Workers \cup Handlers : Connected(p) /\ Connected(q) => p = q

(* The session of a run is not replaced or deleted under it: while a       *)
(* worker may be connected, the account's row stays, and the only writes   *)
(* are its own and the write-backs of clients that were opened before (a   *)
(* migration counts as one: it does not check again).  Imports, QR logins, *)
(* logout and removal, whose checks lie before and after an await, write   *)
(* nothing.                                                                *)
WroteBack(c) == c.key # Nothing /\ session' = [session EXCEPT ![account] = c.key]

RunsKeepTheirSession ==
  [][(\E w \in Workers : worker[w].pc \in {"opening", "connected"})
       => /\ account' = account
          /\ \/ session' = session
             \/ \E w \in Workers : WroteBack(worker[w]) \/ WroteBack(worker'[w])
             \/ \E h \in Handlers : /\ WroteBack(handler[h]) \/ WroteBack(handler'[h])
                                    /\ handler[h].kind \in Unleased \cup {"migrate"}
    ]_sessionsVars

(* An encrypted session belongs to the registered account: none outlives   *)
(* the row of its account, although clients that were opened before a      *)
(* removal write their session back after it.                              *)
SessionsHaveAccounts ==
  \A i \in Accounts : session[i] # Nothing => i = account

(* The lease and the lock are given back on every path out of a            *)
(* management operation or a run: whoever holds one is still at work.      *)
NothingLeftBehind ==
  /\ lease \in Handlers => Connected(lease)
  /\ lease \in Workers => worker[lease].pc \notin {"idle", "over"}
  /\ lock # Nothing => handler[lock].kind = "manage" /\ handler[lock].pc # "lock"
=============================================================================
