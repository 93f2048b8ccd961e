---------------------------- MODULE AccountsProof ----------------------------
(***************************************************************************)
(* Proofs about the accounts of the web server: module Sessions with the   *)
(* QR logins of module QrLogin.  First what a step does to the local       *)
(* variables of one handler or worker; then that every step is typed;      *)
(* then who holds the lease, who writes the session, and who waits for a   *)
(* scan.                                                                   *)
(***************************************************************************)
EXTENDS QrLogin, TLAPS

AccountsTypeOK == SessionsTypeOK /\ QrTypeOK

Kind   == Unleased \cup {"none", "import", "migrate", "manage"}
PC     == {"new", "connect", "check", "call", "confirm", "answer", "lock", "acquire", "done"}
Result == Pending \cup {"none", "ok", "void", "failed"}

HandlerRow ==
  [kind : Kind, pc : PC, key : MaybeKey, sql : BOOLEAN, id : 0 .. MaxAccounts,
   row : Logins \cup {Nothing}, seen : Pending \cup {"none"}, result : Result]

WorkerPC  == {"idle", "claimed", "opening", "connected", "leaving", "over"}
WorkerRow == [pc : WorkerPC, key : MaybeKey, sql : BOOLEAN]

(* A request that signs in has connected, and so has a key; an import or a *)
(* migration has the key of its file.                                      *)
HasKey(c) ==
  (c.kind = "submit" /\ c.pc \in {"call", "confirm"}) \/ c.kind \in {"import", "migrate"}
    => c.key \in Keys

Sane == SessionsTypeOK /\ \A h \in Handlers : HasKey(handler[h])

LEMMA Typed ==
  ASSUME SessionsTypeOK
  PROVE  /\ handler \in [Handlers -> HandlerRow] /\ worker \in [Workers -> WorkerRow]
         /\ session \in [Accounts -> MaybeKey] /\ LegacyKey \in Keys
         /\ MaxAccounts \in Nat /\ registered \in 0 .. MaxAccounts
         /\ account \in 0 .. MaxAccounts /\ account \in 0 .. registered
  BY SessionsAssumption
  DEF SessionsTypeOK, HandlerRow, WorkerRow, Kind, PC, Result, WorkerPC, SessionsAssumption

-----------------------------------------------------------------------------
(* The local variables of a handler.                                       *)

Turns(h) == \A g \in Handlers \ {h} : handler'[g] = handler[g]

LEMMA Becomes ==
  ASSUME SessionsTypeOK, NEW h \in Handlers, NEW c \in HandlerRow,
         handler' = [handler EXCEPT ![h] = c]
  PROVE  handler' \in [Handlers -> HandlerRow] /\ handler'[h] = c /\ Turns(h)
  BY Typed DEF Turns

LEMMA DoneIs ==
  ASSUME SessionsTypeOK, NEW h \in Handlers, Done(h)
  PROVE  /\ handler' \in [Handlers -> HandlerRow] /\ Turns(h)
         /\ handler'[h].kind = "none" /\ handler'[h].pc = "done"
<1>. DEFINE c == [NoRequest EXCEPT !.pc = "done"]
<1>1. c \in HandlerRow /\ c.kind = "none" /\ c.pc = "done"
  <2>1. NoRequest \in HandlerRow /\ NoRequest.kind = "none"
    BY Typed DEF NoRequest, HandlerRow, Kind, PC, Result, MaybeKey
  <2>. QED
    BY <2>1 DEF HandlerRow, PC
<1>2. handler' = [handler EXCEPT ![h] = c]
  BY DEF Done, Become
<1>. HIDE DEF c
<1>. QED
  BY <1>1, <1>2, Becomes

LEMMA GoIs ==
  ASSUME SessionsTypeOK, NEW h \in Handlers, NEW pc \in PC, Go(h, pc)
  PROVE  /\ handler' \in [Handlers -> HandlerRow] /\ Turns(h)
         /\ handler'[h].kind = handler[h].kind /\ handler'[h].pc = pc
         /\ handler'[h].key = handler[h].key /\ handler'[h].sql = handler[h].sql
<1>. DEFINE c == [handler[h] EXCEPT !.pc = pc]
<1>1. /\ c \in HandlerRow /\ c.kind = handler[h].kind /\ c.pc = pc
      /\ c.key = handler[h].key /\ c.sql = handler[h].sql
  BY Typed DEF HandlerRow
<1>2. handler' = [handler EXCEPT ![h] = c]
  BY DEF Go
<1>. HIDE DEF c
<1>. QED
  BY <1>1, <1>2, Becomes

LEMMA RequestIs ==
  ASSUME SessionsTypeOK, NEW h \in Handlers, NEW kind \in Kind
  PROVE  Request(h, kind) \in HandlerRow /\ Request(h, kind).kind = kind
  BY Typed DEF Request, HandlerRow

LEMMA LoadedIs ==
  ASSUME SessionsTypeOK, NEW sql
  PROVE  /\ Loaded(sql) \in MaybeKey /\ Stored \in MaybeKey
         /\ \A force \in BOOLEAN : UsesSql(force) \in BOOLEAN
  BY Typed DEF Loaded, Stored, UsesSql, MaybeKey, Accounts, SessionsTypeOK

(* What a client writes back.                                              *)
LEMMA PersistIs ==
  ASSUME SessionsTypeOK, NEW c, c.key \in MaybeKey, Persist(c)
  PROVE  /\ session' \in [Accounts -> MaybeKey]
         /\ \/ session' = session
            \/ /\ account # 0 /\ c.key # Nothing /\ c.sql
               /\ session' = [session EXCEPT ![account] = c.key]
  BY Typed DEF Persist, Saves, Accounts

LEMMA FinallyIs ==
  ASSUME SessionsTypeOK, NEW h \in Handlers, NEW c \in HandlerRow, NEW result \in Result,
         c.kind \in Unleased, Finally(h, c, result)
  PROVE  /\ handler' \in [Handlers -> HandlerRow] /\ Turns(h)
         /\ handler'[h].kind # "manage" /\ HasKey(handler'[h])
         /\ session' \in [Accounts -> MaybeKey]
         /\ \/ session' = session
            \/ SaveOK(c) /\ account # 0 /\ c.key # Nothing
                         /\ session' = [session EXCEPT ![account] = c.key]
<1>1. /\ session' \in [Accounts -> MaybeKey]
      /\ \/ session' = session
         \/ SaveOK(c) /\ account # 0 /\ c.key # Nothing
                      /\ session' = [session EXCEPT ![account] = c.key]
  BY PersistIs DEF Finally, HandlerRow, SaveOK
<1>2. CASE c.kind = "probe"
  BY <1>1, <1>2, DoneIs DEF Finally, HasKey
<1>3. CASE c.kind # "probe"
  <2>. DEFINE v == IF SaveOK(c) THEN result ELSE "void"
              d == [c EXCEPT !.pc = "answer", !.result = v]
  <2>1. v \in Result
    BY DEF Result
  <2>2. handler' = [handler EXCEPT ![h] = d]
    BY <1>3 DEF Finally, Become
  <2>. HIDE DEF v
  <2>3. d \in HandlerRow /\ d.kind = c.kind /\ d.pc = "answer"
    BY <2>1 DEF HandlerRow, PC
  <2>. HIDE DEF d
  <2>. QED
    BY <1>1, <2>2, <2>3, Becomes DEF Unleased, HasKey
<1>. QED
  BY <1>2, <1>3

-----------------------------------------------------------------------------
(* What a step does to the account's session, and to the lease.            *)

SessionSame ==
  account' = account /\ registered' = registered /\ session' = session

WritesBack ==
  /\ account' = account /\ registered' = registered /\ account # 0
  /\ \/ \E w \in Workers : /\ WroteBack(worker[w]) \/ WroteBack(worker'[w])
                           /\ worker[w].pc \in {"opening", "connected"}
     \/ \E h \in Handlers : /\ WroteBack(handler[h]) \/ WroteBack(handler'[h])
                            /\ handler[h].kind \in Unleased \cup {"migrate"}
     \/ \E h \in Handlers : /\ WroteBack(handler[h])
                            /\ handler[h].kind = "manage"
                            /\ handler[h].pc \in {"connect", "call"}

WritesFree ==   (* after a check that nobody uses the account *)
  /\ account' = account /\ registered' = registered /\ account # 0 /\ ~InUse
  /\ \E k \in MaybeKey : session' = [session EXCEPT ![account] = k]

Registers ==
  /\ account = 0 /\ NewAccount
  /\ \/ session' = session
     \/ \E k \in MaybeKey : session' = [session EXCEPT ![account'] = k]

Removes ==
  /\ account # 0 /\ ~InUse /\ account' = 0 /\ registered' = registered
  /\ session' = [session EXCEPT ![account] = Nothing]

SessionKind == SessionSame \/ WritesBack \/ WritesFree \/ Registers \/ Removes

Holding(c) == c.kind = "manage" /\ c.pc \in {"connect", "call", "answer"}
Locking(c) == c.kind = "manage" /\ c.pc \in {"acquire", "connect", "call", "answer"}
Running(r) == r.pc \notin {"idle", "over"}

SameHolders ==
  /\ lease' = lease /\ lock' = lock
  /\ \A h \in Handlers : /\ Holding(handler'[h]) <=> Holding(handler[h])
                         /\ Locking(handler'[h]) <=> Locking(handler[h])
                         /\ Holding(handler[h]) => handler'[h].sql = handler[h].sql
  /\ \A w \in Workers : Running(worker'[w]) <=> Running(worker[w])

LeaseKind ==
  \/ SameHolders
  \/ \E h \in Handlers : TakeLock(h) \/ ClaimAccount(h) \/ ManagePersists(h) \/ ManageReleases(h)
  \/ \E w \in Workers : WorkerClaims(w) \/ WorkerReleases(w)

StepOK == Sane' /\ SessionKind /\ LeaseKind

LoginRow == [state : Pending \cup {"none", "COMPLETED", "FAILED"},
             account : 0 .. MaxAccounts, live : BOOLEAN]

RestTyped ==
  /\ legacy' \in BOOLEAN /\ authorised' \subseteq Keys /\ fresh' \subseteq Keys
  /\ login' \in [Logins -> LoginRow]

LEMMA Assembled ==
  ASSUME Sane, SessionKind, LeaseKind, RestTyped,
         session' \in [Accounts -> MaybeKey], jobOpen' \in BOOLEAN,
         lease' \in Handlers \cup Workers \cup {Nothing},
         lock' \in Handlers \cup {Nothing},
         handler' \in [Handlers -> HandlerRow], worker' \in [Workers -> WorkerRow],
         \A h \in Handlers : HasKey(handler'[h])
  PROVE  StepOK
<1>1. account' \in 0 .. registered' /\ registered' \in 0 .. MaxAccounts
  BY Typed DEF Sane, SessionKind, SessionSame, WritesBack, WritesFree, Registers, Removes,
     NewAccount
<1>. QED
  BY <1>1 DEF Sane, StepOK, RestTyped, SessionsTypeOK, HandlerRow, WorkerRow, Kind, PC, Result,
              WorkerPC, LoginRow, HasKey

(* A request other than a management operation.                            *)
LEMMA RequestOK ==
  ASSUME Sane, SessionKind, RestTyped, NEW h \in Handlers,
         handler[h].kind # "manage" \/ handler[h].pc = "new",
         handler'[h].kind # "manage" \/ handler'[h].pc = "lock",
         HasKey(handler'[h]),
         handler' \in [Handlers -> HandlerRow], Turns(h),
         session' \in [Accounts -> MaybeKey],
         UNCHANGED <<leaseVars, worker>>
  PROVE  StepOK
<1>1. LeaseKind
  BY DEF LeaseKind, SameHolders, Holding, Locking, Turns, leaseVars
<1>2. \A g \in Handlers : HasKey(handler'[g])
  BY DEF Sane, HasKey, Turns
<1>. QED
  BY <1>1, <1>2, Assembled DEF Sane, SessionsTypeOK, leaseVars, HandlerRow, WorkerRow, WorkerPC

LEMMA RestSame ==
  ASSUME Sane
  PROVE  /\ UNCHANGED legacy => legacy' \in BOOLEAN
         /\ UNCHANGED authorised => authorised' \subseteq Keys
         /\ UNCHANGED fresh => fresh' \subseteq Keys
         /\ UNCHANGED login => login' \in [Logins -> LoginRow]
  BY DEF Sane, SessionsTypeOK, LoginRow

LEMMA OpenedIs ==
  ASSUME SessionsTypeOK, NEW h \in Handlers, NEW kind \in Unleased, NEW force \in BOOLEAN
  PROVE  /\ Opened(h, kind, force) \in HandlerRow
         /\ Opened(h, kind, force).kind = kind /\ Opened(h, kind, force).pc = "connect"
<1>. DEFINE c == Request(h, kind)
            u == UsesSql(force)
            k == Loaded(u)
<1>1. c \in HandlerRow /\ c.kind = kind /\ u \in BOOLEAN /\ k \in MaybeKey
  BY RequestIs, LoadedIs DEF Kind
<1>2. Opened(h, kind, force) = [c EXCEPT !.pc = "connect", !.sql = u, !.key = k]
  BY DEF Opened
<1>. HIDE DEF c, u, k
<1>. QED
  BY <1>1, <1>2 DEF HandlerRow, PC

LEMMA StartOK ==
  ASSUME Sane, NEW h \in Handlers,
         StartProbe(h) \/ StartLogin(h) \/ \E l \in Logins : StartSubmit(h, l)
  PROVE  StepOK
<1>. USE DEF Sane
<1>1. /\ handler[h].kind # "manage" /\ SessionKind /\ UNCHANGED <<leaseVars, worker>>
      /\ session' \in [Accounts -> MaybeKey] /\ RestTyped
  <2>1. /\ handler[h] = NoRequest
        /\ UNCHANGED <<accountVars, telegramVars, leaseVars, login, worker>>
    BY DEF StartProbe, StartLogin, StartSubmit
  <2>2. NoRequest.kind # "manage"
    BY DEF NoRequest
  <2>. QED
    BY <2>1, <2>2, Typed, RestSame DEF SessionKind, SessionSame, RestTyped, accountVars,
       telegramVars
<1>2. PICK c \in HandlerRow : /\ c.kind \in Unleased /\ c.pc = "connect"
                              /\ handler' = [handler EXCEPT ![h] = c]
  <2>1. CASE StartProbe(h)
    BY <2>1, OpenedIs DEF StartProbe, Become, Unleased
  <2>2. CASE StartLogin(h)
    <3>1. PICK force \in BOOLEAN, l \in Logins :
            Become(h, [Opened(h, "login", force) EXCEPT !.row = l])
      BY <2>2 DEF StartLogin
    <3>. DEFINE o == Opened(h, "login", force)
                c == [o EXCEPT !.row = l]
    <3>2. o \in HandlerRow /\ o.kind = "login" /\ o.pc = "connect"
      BY OpenedIs DEF Unleased
    <3>3. handler' = [handler EXCEPT ![h] = c]
      BY <3>1 DEF Become
    <3>. HIDE DEF o
    <3>4. c \in HandlerRow /\ c.kind \in Unleased /\ c.pc = "connect"
      BY <3>2 DEF HandlerRow, Unleased
    <3>. QED
      BY <3>3, <3>4
  <2>3. ASSUME NEW l \in Logins, StartSubmit(h, l)
        PROVE  \E c \in HandlerRow : /\ c.kind \in Unleased /\ c.pc = "connect"
                                     /\ handler' = [handler EXCEPT ![h] = c]
    <3>. DEFINE o == Opened(h, "submit", FALSE)
                s == login[l].state
                c == [o EXCEPT !.row = l, !.seen = s]
    <3>1. o \in HandlerRow /\ o.kind = "submit" /\ o.pc = "connect" /\ s \in Pending
      BY <2>3, OpenedIs DEF Unleased, StartSubmit
    <3>2. handler' = [handler EXCEPT ![h] = c]
      BY <2>3 DEF Become, StartSubmit
    <3>. HIDE DEF o, s
    <3>3. c \in HandlerRow /\ c.kind \in Unleased /\ c.pc = "connect"
      BY <3>1 DEF HandlerRow, Unleased
    <3>. QED
      BY <3>2, <3>3
  <2>. QED
    BY <2>1, <2>2, <2>3
<1>3. handler'[h] = c /\ Turns(h) /\ handler' \in [Handlers -> HandlerRow]
  BY <1>2, Becomes
<1>. QED
  BY <1>1, <1>2, <1>3, RequestOK DEF Unleased, HasKey

(* A client of a request persists, with the key it had or the one it made. *)
LEMMA BackIs ==
  ASSUME NEW h \in Handlers, handler[h].kind \in Unleased \cup {"migrate"},
         UNCHANGED <<account, registered>>,
         \/ session' = session
         \/ account # 0 /\ (WroteBack(handler[h]) \/ WroteBack(handler'[h]))
  PROVE  SessionKind
  BY DEF SessionKind, SessionSame, WritesBack

LEMMA FinalOK ==
  ASSUME Sane, NEW h \in Handlers, handler[h].kind \in Unleased,
         \E result \in Result : Finally(h, handler[h], result),
         RestTyped, UNCHANGED <<account, registered, leaseVars, worker>>
  PROVE  StepOK
<1>1. handler[h] \in HandlerRow /\ handler[h].kind # "manage"
  BY Typed DEF Unleased, Sane
<1>2. SessionKind
  BY <1>1, FinallyIs, BackIs DEF WroteBack, Sane
<1>. QED
  BY <1>1, <1>2, FinallyIs, RequestOK DEF Sane

LEMMA ClientOK ==
  ASSUME Sane, NEW h \in Handlers,
         \/ ConnectFails(h) \/ Checks(h) \/ CodeSent(h) \/ SignInRefused(h)
         \/ SignedIn(h) \/ Confirms(h)
  PROVE  StepOK
<1>1. /\ handler[h].kind \in Unleased /\ RestTyped
      /\ UNCHANGED <<account, registered, leaseVars, worker>>
  <2>1. authorised' \subseteq Keys
    <3>1. CASE SignedIn(h)
      <4>1. handler[h].key \in Keys
        BY <3>1 DEF SignedIn, Busy, Sane, HasKey
      <4>. QED
        BY <3>1, <4>1 DEF SignedIn, Sane, SessionsTypeOK
    <3>. QED
      BY <3>1, RestSame DEF ConnectFails, Checks, CodeSent, SignInRefused, Confirms, telegramVars
  <2>. QED
    BY <2>1, RestSame DEF RestTyped, ConnectFails, Checks, CodeSent, SignInRefused, SignedIn,
       Confirms, telegramVars, Unleased, Busy
<1>2. \/ \E result \in Result : Finally(h, handler[h], result)
      \/ Go(h, "call") /\ session' = session /\ handler[h].kind = "login"
      \/ Go(h, "confirm") /\ Persist(handler[h]) /\ SaveOK(handler[h]) /\ Busy(h, "submit", "call")
  BY DEF ConnectFails, Checks, CodeSent, SignInRefused, SignedIn, Confirms, Result, Pending
<1>3. CASE Go(h, "call") /\ session' = session /\ handler[h].kind = "login"
  <2>1. HasKey(handler'[h]) /\ handler'[h].kind # "manage"
    BY <1>3, GoIs DEF Sane, PC, HasKey
  <2>2. SessionKind
    BY <1>1, <1>3 DEF SessionKind, SessionSame
  <2>. QED
    BY <1>1, <1>3, <2>1, <2>2, GoIs, RequestOK, Typed DEF Sane, PC
<1>4. CASE Go(h, "confirm") /\ Persist(handler[h]) /\ SaveOK(handler[h]) /\ Busy(h, "submit", "call")
  <2>1. HasKey(handler'[h]) /\ handler'[h].kind # "manage" /\ handler[h].key \in MaybeKey
    BY <1>4, GoIs DEF Sane, PC, HasKey, Busy, MaybeKey
  <2>2. SessionKind
    BY <1>1, <1>4, <2>1, PersistIs, BackIs DEF Sane, WroteBack
  <2>. QED
    BY <1>1, <1>4, <2>1, <2>2, GoIs, RequestOK, PersistIs DEF Sane, PC, Busy
<1>. QED
  BY <1>1, <1>2, <1>3, <1>4, FinalOK

LEMMA ConnectsOK ==
  ASSUME Sane, NEW h \in Handlers, Connects(h)
  PROVE  StepOK
<1>1. PICK k \in Keys :
        /\ fresh' = fresh \ {k}
        /\ IF handler[h].kind = "submit"
           THEN Become(h, [handler[h] EXCEPT !.key = k, !.pc = "call"]) /\ session' = session
           ELSE \/ /\ Become(h, [handler[h] EXCEPT !.key = k, !.pc = "check"])
                   /\ SaveOK([handler[h] EXCEPT !.key = k])
                   /\ Persist([handler[h] EXCEPT !.key = k])
                \/ /\ Finally(h, [handler[h] EXCEPT !.key = k], "failed")
                   /\ ~SaveOK([handler[h] EXCEPT !.key = k])
  BY Typed DEF Connects, Connecting, Sane, HandlerRow
<1>2. /\ handler[h].kind \in Unleased /\ handler[h] \in HandlerRow
      /\ UNCHANGED <<account, registered, legacy, authorised, leaseVars, login, worker>>
  BY Typed DEF Connects, Sane
<1>3. RestTyped /\ handler[h].kind # "manage"
  BY <1>1, <1>2, RestSame DEF RestTyped, Unleased, Sane, SessionsTypeOK
<1>. DEFINE c == [handler[h] EXCEPT !.key = k]
<1>4. c \in HandlerRow /\ c.kind = handler[h].kind /\ c.key = k
  BY <1>2 DEF HandlerRow, MaybeKey
<1>5. CASE handler[h].kind = "submit"
  <2>. DEFINE d == [handler[h] EXCEPT !.key = k, !.pc = "call"]
  <2>1. d \in HandlerRow /\ d.kind = "submit" /\ d.key = k
    BY <1>2, <1>5 DEF HandlerRow, MaybeKey, PC
  <2>2. handler' = [handler EXCEPT ![h] = d] /\ session' = session
    BY <1>1, <1>5 DEF Become
  <2>. HIDE DEF d
  <2>3. HasKey(handler'[h]) /\ handler'[h].kind # "manage"
    BY <2>1, <2>2, Becomes DEF HasKey, Sane
  <2>4. SessionKind
    BY <1>2, <2>2 DEF SessionKind, SessionSame
  <2>. QED
    BY <1>2, <1>3, <2>1, <2>2, <2>3, <2>4, Becomes, RequestOK, Typed DEF Sane
<1>6. CASE /\ Become(h, [handler[h] EXCEPT !.key = k, !.pc = "check"])
           /\ SaveOK(c) /\ Persist(c)
  <2>. DEFINE d == [handler[h] EXCEPT !.key = k, !.pc = "check"]
  <2>1. d \in HandlerRow /\ d.kind = handler[h].kind /\ d.key = k /\ d.pc = "check"
    BY <1>2 DEF HandlerRow, MaybeKey, PC
  <2>2. handler' = [handler EXCEPT ![h] = d]
    BY <1>6 DEF Become
  <2>. HIDE DEF d
  <2>3. /\ HasKey(handler'[h]) /\ handler'[h].kind # "manage" /\ handler'[h].key = c.key
    BY <1>2, <1>4, <2>1, <2>2, Becomes DEF HasKey, Sane, Unleased
  <2>. HIDE DEF c
  <2>4. /\ session' \in [Accounts -> MaybeKey]
        /\ \/ session' = session
           \/ account # 0 /\ WroteBack(handler'[h])
    BY <1>4, <1>6, <2>3, PersistIs DEF Sane, MaybeKey, WroteBack
  <2>5. SessionKind
    BY <1>2, <2>4, BackIs
  <2>. QED
    BY <1>2, <1>3, <2>1, <2>2, <2>3, <2>4, <2>5, Becomes, RequestOK DEF Sane
<1>7. CASE Finally(h, c, "failed") /\ ~SaveOK(c)
  <2>. HIDE DEF c
  <2>1. /\ handler' \in [Handlers -> HandlerRow] /\ Turns(h)
        /\ handler'[h].kind # "manage" /\ HasKey(handler'[h])
        /\ session' \in [Accounts -> MaybeKey]
        /\ \/ session' = session
           \/ SaveOK(c) /\ account # 0 /\ c.key # Nothing
                        /\ session' = [session EXCEPT ![account] = c.key]
    BY <1>2, <1>4, <1>7, FinallyIs DEF Sane, Result
  <2>2. SessionKind
    BY <1>2, <1>7, <2>1, BackIs
  <2>. QED
    BY <1>2, <1>3, <2>1, <2>2, RequestOK
<1>. QED
  BY <1>1, <1>5, <1>6, <1>7

LEMMA LoginAnswersOK ==
  ASSUME Sane, NEW h \in Handlers, LoginAnswers(h)
  PROVE  StepOK
<1>. DEFINE r == handler[h].row
            v == IF handler[h].kind = "submit"
                 THEN [login[r] EXCEPT !.state = Outcome(handler[h])]
                 ELSE [state |-> Outcome(handler[h]), account |-> handler[h].id, live |-> TRUE]
<1>1. /\ handler[h] \in HandlerRow /\ handler[h].kind # "manage" /\ Done(h)
      /\ login' = [login EXCEPT ![r] = v]
      /\ handler[h].result = "ok" => RemoveFileIfStored
      /\ handler[h].result # "ok" => legacy' = legacy
      /\ UNCHANGED <<account, registered, session, telegramVars, leaseVars, worker>>
  BY Typed DEF LoginAnswers, Sane
<1>2. login \in [Logins -> LoginRow] /\ legacy' \in BOOLEAN
  BY <1>1 DEF Sane, SessionsTypeOK, LoginRow, RemoveFileIfStored
<1>3. ASSUME r \in Logins PROVE v \in LoginRow
  <2>1. Outcome(handler[h]) \in Pending \cup {"none", "COMPLETED", "FAILED"}
    BY <1>1, <1>2, <1>3 DEF Outcome, HandlerRow, LoginRow, Pending
  <2>2. CASE handler[h].kind = "submit"
    BY <1>2, <1>3, <2>1, <2>2 DEF LoginRow
  <2>3. CASE handler[h].kind # "submit"
    BY <1>1, <2>1, <2>3 DEF LoginRow, HandlerRow
  <2>. QED
    BY <2>2, <2>3
<1>. HIDE DEF v, r
<1>4. login' \in [Logins -> LoginRow]
  BY <1>1, <1>2, <1>3
<1>5. RestTyped /\ SessionKind
  BY <1>1, <1>2, <1>4, RestSame DEF RestTyped, telegramVars, SessionKind, SessionSame
<1>. QED
  BY <1>1, <1>5, DoneIs, RequestOK, Typed DEF Sane, HasKey

(* Imports, migrations and the requests to manage.                         *)
LEMMA StartImportOK ==
  ASSUME Sane, NEW h \in Handlers, StartImport(h)
  PROVE  StepOK
<1>1. PICK target \in {0, account}, k \in fresh :
        /\ fresh' = fresh \ {k}
        /\ Become(h, [Request(h, "import") EXCEPT !.pc = "call", !.key = k,
                                                  !.id = target, !.sql = TRUE])
  BY DEF StartImport
<1>2. /\ handler[h].kind # "manage" /\ k \in Keys /\ target \in 0 .. MaxAccounts
      /\ UNCHANGED <<accountVars, authorised, leaseVars, login, worker>>
  BY Typed DEF StartImport, NoRequest, Sane, SessionsTypeOK
<1>. DEFINE o == Request(h, "import")
            d == [o EXCEPT !.pc = "call", !.key = k]
            c == [d EXCEPT !.id = target, !.sql = TRUE]
<1>3. o \in HandlerRow /\ o.kind = "import"
  BY RequestIs DEF Kind, Sane
<1>4. handler' = [handler EXCEPT ![h] = [o EXCEPT !.pc = "call", !.key = k, !.id = target,
                                                  !.sql = TRUE]]
  BY <1>1 DEF Become
<1>. HIDE DEF o
<1>5. d \in HandlerRow /\ d.kind = "import" /\ d.key = k
  BY <1>2, <1>3 DEF HandlerRow, PC, MaybeKey
<1>6. handler' = [handler EXCEPT ![h] = c]
  BY <1>3, <1>4 DEF HandlerRow
<1>. HIDE DEF d
<1>7. c \in HandlerRow /\ c.kind = "import" /\ c.key = k
  BY <1>2, <1>5 DEF HandlerRow
<1>8. /\ handler' \in [Handlers -> HandlerRow] /\ Turns(h) /\ HasKey(handler'[h])
      /\ handler'[h].kind # "manage"
  BY <1>2, <1>6, <1>7, Becomes DEF Sane, HasKey
<1>9. RestTyped /\ SessionKind
  BY <1>1, <1>2, RestSame DEF RestTyped, accountVars, SessionKind, SessionSame, Sane, SessionsTypeOK
<1>. QED
  BY <1>2, <1>8, <1>9, RequestOK, Typed DEF accountVars, Sane

LEMMA StartOtherOK ==
  ASSUME Sane, NEW h \in Handlers, StartMigrate(h) \/ StartManage(h)
  PROVE  StepOK
<1>1. /\ handler[h].kind # "manage" 
      /\ UNCHANGED <<accountVars, telegramVars, leaseVars, login, worker>>
  BY DEF StartMigrate, StartManage, NoRequest
<1>2. RestTyped /\ SessionKind
  BY <1>1, RestSame DEF RestTyped, accountVars, telegramVars, SessionKind, SessionSame
<1>3. /\ handler' \in [Handlers -> HandlerRow] /\ Turns(h) /\ HasKey(handler'[h])
      /\ handler'[h].kind # "manage" \/ handler'[h].pc = "lock"
  <2>1. CASE StartMigrate(h)
    <3>. DEFINE o == Request(h, "migrate")
                c == [o EXCEPT !.pc = "call", !.key = LegacyKey, !.sql = TRUE]
    <3>1. o \in HandlerRow /\ o.kind = "migrate" /\ LegacyKey \in Keys
      BY RequestIs, Typed DEF Kind, Sane
    <3>2. handler' = [handler EXCEPT ![h] = c]
      BY <2>1 DEF Become, StartMigrate
    <3>. HIDE DEF o
    <3>3. c \in HandlerRow /\ c.kind = "migrate" /\ c.key = LegacyKey
      BY <3>1 DEF HandlerRow, PC, MaybeKey
    <3>. QED
      BY <3>1, <3>2, <3>3, Becomes DEF Sane, HasKey
  <2>2. CASE StartManage(h)
    <3>. DEFINE o == Request(h, "manage")
                u == UsesSql(FALSE)
                c == [o EXCEPT !.pc = "lock", !.sql = u]
    <3>1. o \in HandlerRow /\ o.kind = "manage" /\ u \in BOOLEAN
      BY RequestIs, LoadedIs DEF Kind, Sane
    <3>2. handler' = [handler EXCEPT ![h] = c]
      BY <2>2 DEF Become, StartManage
    <3>. HIDE DEF o, u
    <3>3. c \in HandlerRow /\ c.kind = "manage" /\ c.pc = "lock"
      BY <3>1 DEF HandlerRow, PC
    <3>. QED
      BY <3>1, <3>2, <3>3, Becomes DEF Sane, HasKey
  <2>. QED
    BY <2>1, <2>2
<1>. QED
  BY <1>1, <1>2, <1>3, RequestOK, Typed DEF accountVars, Sane

LEMMA FileEndsOK ==
  ASSUME Sane, NEW h \in Handlers, InspectFails(h) \/ EndImport(h) \/ EndMigrate(h)
  PROVE  StepOK
<1>1. /\ handler[h] \in HandlerRow /\ handler[h].kind \in {"import", "migrate"} /\ Done(h)
      /\ UNCHANGED <<fresh, leaseVars, login, worker>>
      /\ handler[h].key \in Keys
  BY Typed DEF InspectFails, EndImport, EndMigrate, Busy, Sane, HasKey, telegramVars
<1>2. RestTyped
  <2>1. authorised' \subseteq Keys
    BY <1>1, RestSame DEF InspectFails, EndImport, EndMigrate, telegramVars, Sane, SessionsTypeOK
  <2>2. legacy' \in BOOLEAN
    BY DEF InspectFails, EndImport, EndMigrate, accountVars, Sane, SessionsTypeOK
  <2>. QED
    BY <1>1, <2>1, <2>2, RestSame DEF RestTyped
<1>3. SessionKind /\ session' \in [Accounts -> MaybeKey]
  <2>1. CASE accountVars' = accountVars
    BY <2>1, Typed DEF accountVars, SessionKind, SessionSame, Sane
  <2>2. CASE /\ account # 0 /\ ~Working /\ Persist(handler[h])
             /\ UNCHANGED <<account, registered>>
    <3>1. /\ session' \in [Accounts -> MaybeKey]
          /\ \/ session' = session
             \/ session' = [session EXCEPT ![account] = handler[h].key]
      BY <1>1, <2>2, PersistIs DEF Sane, MaybeKey
    <3>. QED
      BY <1>1, <2>2, <3>1 DEF SessionKind, SessionSame, WritesFree, Working, MaybeKey
  <2>3. CASE /\ account = 0 /\ NewAccount
             /\ session' = [session EXCEPT ![account'] = handler[h].key]
    <3>1. SessionKind
      BY <1>1, <2>3 DEF SessionKind, Registers, MaybeKey
    <3>. QED
      BY <1>1, <2>3, <3>1, Typed DEF Sane, MaybeKey
  <2>4. CASE EndMigrate(h)
    <3>1. /\ session' \in [Accounts -> MaybeKey]
          /\ \/ session' = session
             \/ account # 0 /\ WroteBack(handler[h])
      BY <1>1, <2>4, PersistIs DEF Sane, EndMigrate, MaybeKey, WroteBack
    <3>. QED
      BY <1>1, <2>4, <3>1, BackIs DEF EndMigrate, Busy
  <2>. QED
    BY <2>1, <2>2, <2>3, <2>4 DEF InspectFails, EndImport
<1>. QED
  BY <1>1, <1>2, <1>3, DoneIs, RequestOK DEF Sane, HasKey

-----------------------------------------------------------------------------
(* A step of a management operation.                                       *)
LEMMA ManageStepOK ==
  ASSUME Sane, SessionKind, RestTyped, LeaseKind, NEW h \in Handlers,
         handler'[h].kind \in {"none", "manage"},
         handler' \in [Handlers -> HandlerRow], Turns(h),
         session' \in [Accounts -> MaybeKey],
         lease' \in {lease, h, Nothing}, lock' \in {lock, h, Nothing},
         UNCHANGED <<jobOpen, worker>>
  PROVE  StepOK
<1>1. \A g \in Handlers : HasKey(handler'[g])
  BY DEF Sane, HasKey, Turns
<1>2. /\ lease' \in Handlers \cup Workers \cup {Nothing} /\ lock' \in Handlers \cup {Nothing}
      /\ jobOpen' \in BOOLEAN /\ worker' \in [Workers -> WorkerRow]
  BY Typed DEF Sane, SessionsTypeOK
<1>. QED
  BY <1>1, <1>2, Assembled

LEMMA TakeLockOK ==
  ASSUME Sane, NEW h \in Handlers, TakeLock(h)
  PROVE  StepOK
<1>1. /\ handler' \in [Handlers -> HandlerRow] /\ Turns(h) /\ handler'[h].kind = "manage"
      /\ lock' = h /\ UNCHANGED <<accountVars, telegramVars, lease, jobOpen, login, worker>>
  BY GoIs DEF TakeLock, Busy, Sane, PC
<1>2. RestTyped /\ SessionKind /\ session' \in [Accounts -> MaybeKey]
  BY <1>1, RestSame, Typed DEF RestTyped, accountVars, telegramVars, SessionKind, SessionSame, Sane
<1>. QED
  BY <1>1, <1>2, ManageStepOK DEF LeaseKind

LEMMA ClaimAccountOK ==
  ASSUME Sane, NEW h \in Handlers, ClaimAccount(h)
  PROVE  StepOK
<1>1. UNCHANGED <<accountVars, telegramVars, jobOpen, login, worker>>
  BY DEF ClaimAccount
<1>2. RestTyped /\ SessionKind /\ session' \in [Accounts -> MaybeKey]
  BY <1>1, RestSame, Typed DEF RestTyped, accountVars, telegramVars, SessionKind, SessionSame, Sane
<1>3. /\ handler' \in [Handlers -> HandlerRow] /\ Turns(h)
      /\ handler'[h].kind \in {"none", "manage"}
  <2>1. CASE Done(h)
    BY <2>1, DoneIs DEF Sane
  <2>2. CASE Become(h, [handler[h] EXCEPT !.pc = "connect", !.key = Loaded(handler[h].sql)])
    <3>. DEFINE k == Loaded(handler[h].sql)
                c == [handler[h] EXCEPT !.pc = "connect", !.key = k]
    <3>1. k \in MaybeKey /\ handler[h] \in HandlerRow /\ handler[h].kind = "manage"
      BY LoadedIs, Typed DEF Sane, ClaimAccount, Busy
    <3>2. handler' = [handler EXCEPT ![h] = c]
      BY <2>2 DEF Become
    <3>. HIDE DEF k
    <3>3. c \in HandlerRow /\ c.kind = "manage"
      BY <3>1 DEF HandlerRow, PC
    <3>. QED
      BY <3>2, <3>3, Becomes DEF Sane
  <2>. QED
    BY <2>1, <2>2 DEF ClaimAccount
<1>. QED
  BY <1>1, <1>2, <1>3, ManageStepOK DEF LeaseKind, ClaimAccount

LEMMA ManageConnectsOK ==
  ASSUME Sane, NEW h \in Handlers, ManageConnects(h)
  PROVE  StepOK
<1>1. PICK k \in Keys : /\ Connecting(handler[h], k)
                        /\ Become(h, [handler[h] EXCEPT !.pc = "call", !.key = k])
  BY DEF ManageConnects
<1>. DEFINE c == [handler[h] EXCEPT !.pc = "call", !.key = k]
<1>2. /\ handler[h] \in HandlerRow /\ handler[h].kind = "manage" /\ handler[h].pc = "connect"
      /\ UNCHANGED <<accountVars, authorised, leaseVars, login, worker>>
      /\ handler' = [handler EXCEPT ![h] = c]
  BY <1>1, Typed DEF ManageConnects, Busy, Sane, Become
<1>3. /\ c \in HandlerRow /\ c.kind = "manage" /\ c.pc = "call" /\ c.sql = handler[h].sql
  BY <1>2 DEF HandlerRow, PC, MaybeKey
<1>. HIDE DEF c
<1>4. /\ handler' \in [Handlers -> HandlerRow] /\ Turns(h) /\ handler'[h] = c
  BY <1>2, <1>3, Becomes DEF Sane
<1>5. SameHolders
  BY <1>2, <1>3, <1>4 DEF SameHolders, Holding, Locking, Turns, leaseVars
<1>6. RestTyped /\ SessionKind /\ session' \in [Accounts -> MaybeKey]
  BY <1>1, <1>2, RestSame, Typed DEF RestTyped, accountVars, SessionKind, SessionSame, Sane,
     Connecting, SessionsTypeOK
<1>. QED
  BY <1>2, <1>3, <1>4, <1>5, <1>6, ManageStepOK DEF LeaseKind, leaseVars

LEMMA ManageEndsOK ==
  ASSUME Sane, NEW h \in Handlers, ManagePersists(h) \/ ManageReleases(h)
  PROVE  StepOK
<1>1. /\ handler[h].kind = "manage" /\ handler[h] \in HandlerRow
      /\ UNCHANGED <<account, registered, legacy, telegramVars, jobOpen, login, worker>>
      /\ lease' \in {lease, Nothing} /\ lock' \in {lock, Nothing}
      /\ Done(h) \/ Go(h, "answer")
  BY Typed DEF ManagePersists, ManageReleases, Busy, Sane, accountVars
<1>2. /\ handler' \in [Handlers -> HandlerRow] /\ Turns(h)
      /\ handler'[h].kind \in {"none", "manage"}
  BY <1>1, DoneIs, GoIs DEF Sane, PC
<1>3. SessionKind /\ session' \in [Accounts -> MaybeKey]
  <2>1. CASE ManageReleases(h)
    BY <2>1, Typed DEF ManageReleases, accountVars, SessionKind, SessionSame, Sane
  <2>2. CASE ManagePersists(h)
    <3>1. /\ session' \in [Accounts -> MaybeKey]
          /\ \/ session' = session
             \/ account # 0 /\ WroteBack(handler[h])
      BY <1>1, <2>2, PersistIs DEF Sane, ManagePersists, HandlerRow, WroteBack
    <3>. QED
      BY <1>1, <2>2, <3>1 DEF SessionKind, SessionSame, WritesBack, ManagePersists
  <2>. QED
    BY <2>1, <2>2
<1>4. RestTyped
  BY <1>1, RestSame DEF RestTyped, telegramVars
<1>. QED
  BY <1>1, <1>2, <1>3, <1>4, ManageStepOK DEF LeaseKind

-----------------------------------------------------------------------------
(* A step of a worker.                                                     *)

LEMMA WorkerStepOK ==
  ASSUME Sane, SessionKind, LeaseKind, RestTyped,
         worker' \in [Workers -> WorkerRow],
         session' \in [Accounts -> MaybeKey], jobOpen' \in BOOLEAN,
         lease' \in Workers \cup {lease, Nothing}, UNCHANGED <<lock, handler>>
  PROVE  StepOK
<1>1. /\ lease' \in Handlers \cup Workers \cup {Nothing} /\ lock' \in Handlers \cup {Nothing}
      /\ handler' \in [Handlers -> HandlerRow]
      /\ \A g \in Handlers : HasKey(handler'[g])
  BY Typed DEF Sane, SessionsTypeOK, HasKey
<1>. QED
  BY <1>1, Assembled

LEMMA WorkerTakesOK ==
  ASSUME Sane, NEW w \in Workers, WorkerClaims(w) \/ WorkerReleases(w)
  PROVE  StepOK
<1>1. /\ UNCHANGED <<accountVars, telegramVars, lock, login, handler>>
      /\ lease' \in {w, Nothing} /\ jobOpen' \in BOOLEAN
  BY DEF WorkerClaims, WorkerReleases, Sane, SessionsTypeOK
<1>2. worker' \in [Workers -> WorkerRow]
  <2>1. worker \in [Workers -> WorkerRow] /\ UsesSql(FALSE) \in BOOLEAN
    BY Typed, LoadedIs DEF Sane
  <2>2. CASE WorkerClaims(w)
    <3>. DEFINE u == UsesSql(FALSE)
    <3>1. worker' = [worker EXCEPT ![w].pc = "claimed", ![w].sql = u]
      BY <2>2 DEF WorkerClaims
    <3>. HIDE DEF u
    <3>2. u \in BOOLEAN
      BY <2>1 DEF u
    <3>. QED
      BY <2>1, <3>1, <3>2 DEF WorkerRow, WorkerPC
  <2>3. CASE WorkerReleases(w)
    BY <2>1, <2>3 DEF WorkerReleases, WorkerRow, WorkerPC, NoRun, MaybeKey
  <2>. QED
    BY <2>2, <2>3
<1>3. RestTyped /\ SessionKind /\ session' \in [Accounts -> MaybeKey]
  BY <1>1, RestSame, Typed DEF RestTyped, accountVars, telegramVars, SessionKind, SessionSame, Sane
<1>. QED
  BY <1>1, <1>2, <1>3, WorkerStepOK DEF LeaseKind

LEMMA WorkerRunsOK ==
  ASSUME Sane, NEW w \in Workers, WorkerOpens(w) \/ WorkerConnects(w) \/ WorkerEnds(w)
  PROVE  StepOK
<1>1. /\ UNCHANGED <<account, registered, legacy, authorised, lease, lock, login, handler>>
      /\ jobOpen' \in BOOLEAN /\ fresh' \subseteq Keys
      /\ worker[w] \in WorkerRow
  BY Typed DEF WorkerOpens, WorkerConnects, WorkerEnds, Connecting, Sane, SessionsTypeOK,
     accountVars, telegramVars, leaseVars
<1>2. PICK r \in WorkerRow : /\ worker' = [worker EXCEPT ![w] = r]
                             /\ Running(r) /\ Running(worker[w])
                             /\ \/ session' = session
                                \/ /\ worker[w].pc \in {"opening", "connected"}
                                   /\ account # 0 /\ r.key # Nothing
                                   /\ session' = [session EXCEPT ![account] = r.key]
  <2>1. CASE WorkerOpens(w)
    <3>. DEFINE k == Loaded(worker[w].sql)
                r == [worker[w] EXCEPT !.pc = "opening", !.key = k]
    <3>1. k \in MaybeKey
      BY LoadedIs DEF Sane
    <3>2. worker' = [worker EXCEPT ![w] = r] /\ worker[w].pc = "claimed" /\ session' = session
      BY <2>1 DEF WorkerOpens, accountVars
    <3>. HIDE DEF k
    <3>3. r \in WorkerRow /\ r.pc = "opening"
      BY <1>1, <3>1 DEF WorkerRow, WorkerPC
    <3>. HIDE DEF r
    <3>. QED
      BY <3>2, <3>3 DEF Running
  <2>2. CASE WorkerConnects(w)
    <3>1. PICK k \in Keys :
            /\ Persist([worker[w] EXCEPT !.key = k])
            /\ worker' = [worker EXCEPT ![w].key = k, ![w].pc =
                            IF k \in authorised THEN "connected" ELSE "leaving"]
      BY <2>2 DEF WorkerConnects
    <3>. DEFINE v == IF k \in authorised THEN "connected" ELSE "leaving"
                c == [worker[w] EXCEPT !.key = k]
                r == [worker[w] EXCEPT !.key = k, !.pc = v]
    <3>2. v \in WorkerPC /\ v \notin {"idle", "over"} /\ k \in MaybeKey
      BY DEF WorkerPC, MaybeKey
    <3>3. worker' = [worker EXCEPT ![w] = r] /\ worker[w].pc = "opening"
      BY <2>2, <3>1 DEF WorkerConnects
    <3>. HIDE DEF v
    <3>4. r \in WorkerRow /\ r.pc = v /\ r.key = k /\ c.key = k
      BY <1>1, <3>2 DEF WorkerRow
    <3>. HIDE DEF r, c
    <3>5. \/ session' = session
          \/ account # 0 /\ k # Nothing /\ session' = [session EXCEPT ![account] = k]
      <4>1. Persist(c)
        BY <3>1 DEF c
      <4>. QED
        BY <3>2, <3>4, <4>1, PersistIs DEF Sane
    <3>. QED
      BY <3>2, <3>3, <3>4, <3>5 DEF Running
  <2>3. CASE WorkerEnds(w)
    <3>. DEFINE r == [worker[w] EXCEPT !.pc = "leaving"]
    <3>1. worker' = [worker EXCEPT ![w] = r] /\ worker[w].pc \in {"opening", "connected"}
      BY <2>3 DEF WorkerEnds, WorkerGoes
    <3>2. r \in WorkerRow /\ r.pc = "leaving" /\ r.key = worker[w].key
      BY <1>1 DEF WorkerRow, WorkerPC
    <3>3. \/ session' = session
          \/ account # 0 /\ r.key # Nothing /\ session' = [session EXCEPT ![account] = r.key]
      BY <1>1, <2>3, <3>2, PersistIs DEF WorkerEnds, Sane, WorkerRow
    <3>. HIDE DEF r
    <3>. QED
      BY <3>1, <3>2, <3>3 DEF Running
  <2>. QED
    BY <2>1, <2>2, <2>3
<1>3. /\ worker' \in [Workers -> WorkerRow] /\ worker'[w] = r
      /\ \A v \in Workers \ {w} : worker'[v] = worker[v]
  BY <1>2, Typed DEF Sane
<1>4. SameHolders
  BY <1>1, <1>2, <1>3 DEF SameHolders
<1>5. SessionKind /\ session' \in [Accounts -> MaybeKey]
  <2>1. session' \in [Accounts -> MaybeKey]
    BY <1>2, Typed DEF Sane, WorkerRow
  <2>2. SessionKind
    BY <1>1, <1>2, <1>3 DEF SessionKind, SessionSame, WritesBack, WroteBack
  <2>. QED
    BY <2>1, <2>2
<1>6. RestTyped
  BY <1>1, RestSame DEF RestTyped
<1>. QED
  BY <1>1, <1>3, <1>4, <1>5, <1>6, WorkerStepOK DEF LeaseKind

-----------------------------------------------------------------------------
(* Steps that change no handler and no worker.                             *)

LEMMA RowStepOK ==
  ASSUME Sane, SessionKind, RestTyped, session' \in [Accounts -> MaybeKey],
         jobOpen' \in BOOLEAN, UNCHANGED <<lease, lock, handler, worker>>
  PROVE  StepOK
<1>1. LeaseKind
  BY DEF LeaseKind, SameHolders
<1>2. /\ lease' \in Handlers \cup Workers \cup {Nothing} /\ lock' \in Handlers \cup {Nothing}
      /\ handler' \in [Handlers -> HandlerRow] /\ worker' \in [Workers -> WorkerRow]
      /\ \A g \in Handlers : HasKey(handler'[g])
  BY Typed DEF Sane, SessionsTypeOK, HasKey
<1>. QED
  BY <1>1, <1>2, Assembled

LEMMA RowsOK ==
  ASSUME Sane, AddAccount \/ Logout \/ RemoveAccount \/ OpenJob \/ CancelJob
  PROVE  StepOK
<1>1. /\ UNCHANGED <<lease, lock, handler, worker, login, authorised, fresh>>
      /\ jobOpen' \in BOOLEAN /\ legacy' \in BOOLEAN
  BY DEF AddAccount, Logout, RemoveAccount, OpenJob, CancelJob, leaseVars, telegramVars, accountVars,
     Sane, SessionsTypeOK
<1>2. SessionKind /\ session' \in [Accounts -> MaybeKey]
  <2>1. CASE AddAccount
    BY <2>1, Typed DEF AddAccount, SessionKind, Registers, Sane
  <2>2. CASE Logout \/ RemoveAccount
    <3>1. session' = [session EXCEPT ![account] = Nothing] /\ account # 0 /\ ~InUse
      BY <2>2 DEF Logout, RemoveAccount, Working
    <3>2. SessionKind
      BY <2>2, <3>1 DEF Logout, RemoveAccount, SessionKind, WritesFree, Removes, MaybeKey
    <3>. QED
      BY <3>1, <3>2, Typed DEF Sane, MaybeKey
  <2>3. CASE OpenJob \/ CancelJob
    BY <2>3, Typed DEF OpenJob, CancelJob, accountVars, SessionKind, SessionSame, Sane
  <2>. QED
    BY <2>1, <2>2, <2>3
<1>3. RestTyped
  BY <1>1, RestSame DEF RestTyped
<1>. QED
  BY <1>1, <1>2, <1>3, RowStepOK

LEMMA LoginRowsOK ==
  ASSUME Sane, NEW l \in Logins, CancelLogin(l) \/ LoginExpires(l)
  PROVE  StepOK
<1>1. /\ UNCHANGED <<accountVars, telegramVars, leaseVars, handler, worker>>
      /\ login' \in [Logins -> LoginRow]
  <2>1. login \in [Logins -> LoginRow]
    BY DEF Sane, SessionsTypeOK, LoginRow
  <2>2. CASE CancelLogin(l)
    BY <2>1, <2>2 DEF CancelLogin, LoginRow
  <2>3. CASE LoginExpires(l)
    BY <2>1, <2>3 DEF LoginExpires, LoginRow
  <2>. QED
    BY <2>2, <2>3
<1>2. RestTyped /\ SessionKind /\ session' \in [Accounts -> MaybeKey]
  BY <1>1, RestSame, Typed DEF RestTyped, accountVars, telegramVars, SessionKind, SessionSame, Sane
<1>. QED
  BY <1>1, <1>2, RowStepOK DEF leaseVars, Sane, SessionsTypeOK

LEMMA SessionsStepOK ==
  ASSUME Sane, SessionsNext
  PROVE  StepOK
<1>1. CASE \/ AddAccount \/ Logout \/ RemoveAccount \/ OpenJob \/ CancelJob
           \/ \E l \in Logins : CancelLogin(l) \/ LoginExpires(l)
  BY <1>1, RowsOK, LoginRowsOK
<1>2. ASSUME NEW h \in Handlers,
             \/ StartProbe(h) \/ StartLogin(h) \/ \E l \in Logins : StartSubmit(h, l)
             \/ ConnectFails(h) \/ Connects(h) \/ Checks(h) \/ CodeSent(h)
             \/ SignInRefused(h) \/ SignedIn(h) \/ Confirms(h) \/ LoginAnswers(h)
      PROVE  StepOK
  BY <1>2, StartOK, ClientOK, ConnectsOK, LoginAnswersOK
<1>3. ASSUME NEW h \in Handlers,
             \/ StartImport(h) \/ StartMigrate(h) \/ InspectFails(h)
             \/ EndImport(h) \/ EndMigrate(h)
             \/ StartManage(h) \/ TakeLock(h) \/ ClaimAccount(h) \/ ManageConnects(h)
             \/ ManagePersists(h) \/ ManageReleases(h)
      PROVE  StepOK
  BY <1>3, StartImportOK, StartOtherOK, FileEndsOK, TakeLockOK, ClaimAccountOK, ManageConnectsOK,
     ManageEndsOK
<1>4. ASSUME NEW w \in Workers,
             \/ WorkerClaims(w) \/ WorkerOpens(w) \/ WorkerConnects(w)
             \/ WorkerEnds(w) \/ WorkerReleases(w)
      PROVE  StepOK
  BY <1>4, WorkerTakesOK, WorkerRunsOK
<1>. QED
  BY <1>1, <1>2, <1>3, <1>4 DEF SessionsNext

-----------------------------------------------------------------------------
(* QR logins: every coroutine belongs to a login that was started, and the *)
(* task of a login is a waiting one of its own.                            *)

QrRow == [state : {"none", "WAIT_SCAN", "WAIT_2FA", "EXPIRED", "FAILED", "COMPLETED"},
          listed : BOOLEAN, key : MaybeKey, task : Coroutines \cup {Nothing}]

CoroutineRow ==
  [kind : {"none", "wait", "password", "refresh"}, qr : Qrs \cup {Nothing},
   pc : {"start", "scan", "password", "refresh", "me", "done"}]

EntriesOK ==
  \A q \in Qrs : qr[q].state # "none" \/ qr[q].listed =>
    /\ qr[q].state # "none" /\ qr[q].key \in Keys /\ qr[q].task \in Coroutines
    /\ coroutine[qr[q].task].kind = "wait" /\ Of(qr[q].task) = q

CoroutinesOK ==
  \A c \in Coroutines :
    /\ coroutine[c].kind = "none" <=> coroutine[c].pc = "start"
    /\ coroutine[c].pc = "refresh" => coroutine[c].kind = "refresh"
    /\ coroutine[c].kind # "none" => Of(c) \in Qrs /\ qr[Of(c)].state # "none"

QrSane == QrTypeOK /\ EntriesOK /\ CoroutinesOK

LEMMA QrTyped ==
  ASSUME QrSane
  PROVE  qr \in [Qrs -> QrRow] /\ coroutine \in [Coroutines -> CoroutineRow]
  BY DEF QrSane, QrTypeOK, QrRow, CoroutineRow

(* A coroutine that has something to do has a login with a key.            *)
LEMMA Begun ==
  ASSUME QrSane, NEW c \in Coroutines, coroutine[c].pc # "start"
  PROVE  Of(c) \in Qrs /\ qr[Of(c)].state # "none" /\ qr[Of(c)].key \in Keys
  BY DEF QrSane, CoroutinesOK, EntriesOK

LEMMA QrStepOK ==
  ASSUME Sane, QrSane, QrNext
  PROVE  StepOK
<1>1. ASSUME NEW c \in Coroutines, Scanned(c) \/ PasswordTaken(c)
      PROVE  StepOK
  <2>1. qr[Of(c)].key \in Keys
    BY <1>1, Begun DEF Scanned, PasswordTaken, At
  <2>2. /\ authorised' \subseteq Keys
        /\ UNCHANGED <<accountVars, fresh, leaseVars, login, handler, worker>>
    BY <1>1, <2>1 DEF Scanned, PasswordTaken, Sane, SessionsTypeOK
  <2>3. RestTyped /\ SessionKind /\ session' \in [Accounts -> MaybeKey]
    BY <2>2, RestSame, Typed DEF RestTyped, accountVars, SessionKind, SessionSame, Sane
  <2>. QED
    BY <2>2, <2>3, RowStepOK DEF leaseVars, Sane, SessionsTypeOK
<1>2. ASSUME NEW c \in Coroutines, Finalize(c)
      PROVE  StepOK
  <2>. DEFINE k == qr[Of(c)].key
  <2>1. k \in Keys
    BY <1>2, Begun DEF Finalize, At
  <2>2. /\ UNCHANGED <<legacy, telegramVars, leaseVars, login, handler, worker>>
        /\ session' = [session EXCEPT ![account'] = k]
        /\ IF account = 0 THEN NewAccount ELSE ~Working /\ UNCHANGED <<account, registered>>
    BY <1>2 DEF Finalize
  <2>. HIDE DEF k
  <2>3. SessionKind
    BY <2>1, <2>2 DEF SessionKind, Registers, WritesFree, Working, MaybeKey
  <2>4. session' \in [Accounts -> MaybeKey]
    BY <2>1, <2>2, Typed DEF Sane, MaybeKey
  <2>5. RestTyped
    BY <2>2, RestSame DEF RestTyped, telegramVars
  <2>. QED
    BY <2>2, <2>3, <2>4, <2>5, RowStepOK DEF leaseVars, Sane, SessionsTypeOK
<1>3. ASSUME /\ fresh' \subseteq Keys
             /\ UNCHANGED <<accountVars, authorised, leaseVars, login, handler, worker>>
      PROVE  StepOK
  <2>1. RestTyped /\ SessionKind /\ session' \in [Accounts -> MaybeKey]
    BY <1>3, RestSame, Typed DEF RestTyped, accountVars, SessionKind, SessionSame, Sane
  <2>. QED
    BY <1>3, <2>1, RowStepOK DEF leaseVars, Sane, SessionsTypeOK
<1>4. ASSUME NEW c \in Coroutines,
             \/ NotScanned(c) \/ Fails(c) \/ Refreshed(c)
             \/ \E q \in Qrs : StartQr(q, c) \/ SubmitPassword(c, q) \/ StartRefresh(c, q)
      PROVE  StepOK
  <2>1. /\ fresh' \subseteq Keys
        /\ UNCHANGED <<accountVars, authorised, leaseVars, login, handler, worker>>
    BY <1>4 DEF NotScanned, Fails, Refreshed, StartQr, SubmitPassword, StartRefresh, sessionsVars,
       telegramVars, Sane, SessionsTypeOK
  <2>. QED
    BY <1>3, <2>1
<1>5. ASSUME NEW q \in Qrs, CancelQr(q)
      PROVE  StepOK
  <2>1. /\ fresh' \subseteq Keys
        /\ UNCHANGED <<accountVars, authorised, leaseVars, login, handler, worker>>
    BY <1>5 DEF CancelQr, sessionsVars, telegramVars, Sane, SessionsTypeOK
  <2>. QED
    BY <1>3, <2>1
<1>. QED
  BY <1>1, <1>2, <1>4, <1>5 DEF QrNext

LEMMA SaneInit == AccountsInit => Sane /\ QrSane
<1>. SUFFICES ASSUME AccountsInit PROVE Sane /\ QrSane
  OBVIOUS
<1>1. NoRequest \in HandlerRow /\ NoRequest.kind = "none"
  BY SessionsAssumption DEF NoRequest, HandlerRow, Kind, PC, Result, MaybeKey, SessionsAssumption
<1>2. NoRun \in WorkerRow
  BY DEF NoRun, WorkerRow, WorkerPC, MaybeKey
<1>3. /\ handler \in [Handlers -> HandlerRow] /\ worker \in [Workers -> WorkerRow]
      /\ \A h \in Handlers : HasKey(handler[h])
  BY <1>1, <1>2 DEF AccountsInit, SessionsInit, HasKey
<1>4. SessionsTypeOK
  <2>1. account \in 0 .. registered /\ registered \in 0 .. MaxAccounts
    BY SessionsAssumption DEF AccountsInit, SessionsInit, SessionsAssumption
  <2>2. login \in [Logins -> LoginRow]
    BY SessionsAssumption DEF AccountsInit, SessionsInit, LoginRow, SessionsAssumption
  <2>3. /\ session \in [Accounts -> MaybeKey] /\ legacy \in BOOLEAN /\ jobOpen \in BOOLEAN
        /\ authorised \subseteq Keys /\ fresh \subseteq Keys
        /\ lease = Nothing /\ lock = Nothing
    BY SessionsAssumption DEF AccountsInit, SessionsInit, MaybeKey, SessionsAssumption
  <2>. QED
    BY <1>3, <2>1, <2>2, <2>3 DEF SessionsTypeOK, HandlerRow, WorkerRow, Kind, PC, Result, WorkerPC,
       LoginRow
<1>5. QrSane
  BY DEF AccountsInit, QrInit, QrSane, QrTypeOK, EntriesOK, CoroutinesOK, MaybeKey
<1>. QED
  BY <1>3, <1>4, <1>5 DEF Sane

(* What the steps of a QR login do to one coroutine.                       *)
LEMMA StepIs ==
  ASSUME QrSane, NEW c \in Coroutines, NEW pc \in {"scan", "me", "done"},
         coroutine[c].pc # "start", Step(c, pc)
  PROVE  /\ coroutine' \in [Coroutines -> CoroutineRow] /\ coroutine'[c].pc = pc
         /\ \A d \in Coroutines : /\ coroutine'[d].kind = coroutine[d].kind
                                  /\ coroutine'[d].qr = coroutine[d].qr
                                  /\ d # c => coroutine'[d].pc = coroutine[d].pc
  BY QrTyped DEF Step, CoroutineRow

LEMMA EntryIs ==
  ASSUME QrSane, NEW q \in Qrs,
         NEW state \in {"WAIT_SCAN", "WAIT_2FA", "EXPIRED", "FAILED", "COMPLETED"},
         Entry(q, state)
  PROVE  /\ qr' \in [Qrs -> QrRow] /\ qr'[q].state = state
         /\ \A p \in Qrs : /\ qr'[p].listed = qr[p].listed /\ qr'[p].key = qr[p].key
                           /\ qr'[p].task = qr[p].task
                           /\ p # q => qr'[p].state = qr[p].state
  BY QrTyped DEF Entry, QrRow

LEMMA CancelledIs ==
  ASSUME QrSane, NEW q \in Qrs
  PROVE  /\ Cancelled(q) \in [Coroutines -> CoroutineRow]
         /\ \A d \in Coroutines :
              /\ Cancelled(q)[d].kind = coroutine[d].kind
              /\ Cancelled(q)[d].qr = coroutine[d].qr
              /\ d = qr[q].task => Cancelled(q)[d].pc = "done"
              /\ d # qr[q].task => Cancelled(q)[d].pc = coroutine[d].pc
  BY QrTyped DEF Cancelled, CoroutineRow

LEMMA BeginIs ==
  ASSUME QrSane, NEW c \in Coroutines, NEW kind \in {"wait", "password"}, NEW q \in Qrs,
         NEW pc \in {"scan", "password"}, Begin(c, kind, q, pc)
  PROVE  /\ coroutine' \in [Coroutines -> CoroutineRow] /\ coroutine[c].kind = "none"
         /\ coroutine'[c].kind = kind /\ coroutine'[c].qr = q /\ coroutine'[c].pc = pc
         /\ \A d \in Coroutines : d # c => coroutine'[d] = coroutine[d]
  BY QrTyped DEF Begin, CoroutineRow

(* Somebody waits for the scan of a login that says so, and the coroutines *)
(* and logins belong to each other.                                        *)
QrPromise == QrSane /\ WaitingIsWaitedFor

LEMMA StepsQr ==   (* a coroutine goes on, and its login with it *)
  ASSUME QrPromise, NEW c \in Coroutines, NEW pc \in {"scan", "me", "done"},
         coroutine[c].pc # "start", Step(c, pc),
         \/ qr' = qr /\ (pc = "me" \/ ~qr[Of(c)].listed \/ coroutine[c].kind # "wait")
         \/ \E state \in {"WAIT_2FA", "EXPIRED", "FAILED", "COMPLETED"} : Entry(Of(c), state)
  PROVE  QrPromise'
<1>. USE DEF QrPromise
<1>1. Of(c) \in Qrs /\ qr[Of(c)].state # "none"
  BY Begun
<1>2. CASE qr' = qr /\ (pc = "me" \/ ~qr[Of(c)].listed \/ coroutine[c].kind # "wait")
  <2>1. QrSane'
    BY <1>2, StepIs, QrTyped DEF QrSane, QrTypeOK, EntriesOK, CoroutinesOK, Of, CoroutineRow
  <2>2. ASSUME NEW q \in Qrs, qr'[q].listed, qr'[q].state = "WAIT_SCAN"
        PROVE  \/ coroutine'[qr'[q].task].pc \in {"scan", "me"}
               \/ \E d \in Coroutines : Of(d)' = q /\ coroutine'[d].kind = "refresh"
    <3>1. /\ qr[q].task \in Coroutines /\ coroutine[qr[q].task].kind = "wait"
          /\ Of(qr[q].task) = q
      BY <1>2, <2>2 DEF QrSane, EntriesOK
    <3>2. CASE coroutine[qr[q].task].pc \in {"scan", "me"}
      BY <1>2, <2>2, <3>1, <3>2, StepIs
    <3>3. CASE \E d \in Coroutines : Of(d) = q /\ coroutine[d].kind = "refresh"
      BY <3>3, StepIs DEF Of
    <3>. QED
      BY <1>2, <2>2, <3>2, <3>3 DEF WaitingIsWaitedFor
  <2>. QED
    BY <2>1, <2>2 DEF WaitingIsWaitedFor, Of
<1>3. ASSUME NEW state \in {"WAIT_2FA", "EXPIRED", "FAILED", "COMPLETED"}, Entry(Of(c), state)
      PROVE  QrPromise'
  <2>1. QrSane'
    <3>1. /\ coroutine' \in [Coroutines -> CoroutineRow] /\ coroutine'[c].pc = pc
          /\ \A d \in Coroutines : /\ coroutine'[d].kind = coroutine[d].kind
                                   /\ coroutine'[d].qr = coroutine[d].qr
                                   /\ d # c => coroutine'[d].pc = coroutine[d].pc
      BY StepIs
    <3>2. /\ qr' \in [Qrs -> QrRow] /\ qr'[Of(c)].state = state
          /\ \A q \in Qrs : /\ qr'[q].listed = qr[q].listed /\ qr'[q].key = qr[q].key
                            /\ qr'[q].task = qr[q].task
                            /\ q # Of(c) => qr'[q].state = qr[q].state
      BY <1>1, <1>3, EntryIs
    <3>3. QrTypeOK'
      BY <3>1, <3>2 DEF QrTypeOK, CoroutineRow, QrRow
    <3>4. EntriesOK'
      BY <1>1, <3>1, <3>2 DEF QrSane, EntriesOK, Of
    <3>5. CoroutinesOK'
      BY <1>1, <3>1, <3>2 DEF QrSane, CoroutinesOK, Of
    <3>. QED
      BY <3>3, <3>4, <3>5 DEF QrSane
  <2>2. WaitingIsWaitedFor'
    BY <1>1, <1>3, StepIs, EntryIs, QrTyped DEF QrSane, EntriesOK, WaitingIsWaitedFor, Of
  <2>. QED
    BY <2>1, <2>2
<1>. QED
  BY <1>2, <1>3

LEMMA StartQrKeeps ==
  ASSUME Sane, QrPromise, NEW q \in Qrs, NEW c \in Coroutines, StartQr(q, c)
  PROVE  QrPromise'
<1>1. PICK k \in Keys :
        qr' = [qr EXCEPT ![q] = [state |-> "WAIT_SCAN", listed |-> TRUE, key |-> k, task |-> c]]
  BY DEF StartQr, Sane, SessionsTypeOK
<1>2. /\ qr' \in [Qrs -> QrRow] /\ qr'[q].state = "WAIT_SCAN" /\ qr'[q].key = k
      /\ qr'[q].task = c
      /\ \A p \in Qrs : p # q => qr'[p] = qr[p]
  BY <1>1, QrTyped DEF QrPromise, QrRow, MaybeKey
<1>3. /\ coroutine' \in [Coroutines -> CoroutineRow] /\ coroutine[c].kind = "none"
      /\ coroutine'[c].kind = "wait" /\ coroutine'[c].qr = q /\ coroutine'[c].pc = "scan"
      /\ \A d \in Coroutines : d # c => coroutine'[d] = coroutine[d]
  BY BeginIs DEF StartQr, QrPromise
<1>4. QrTypeOK'
  BY <1>2, <1>3 DEF QrTypeOK, CoroutineRow, QrRow
<1>5. EntriesOK' /\ CoroutinesOK'
  BY <1>2, <1>3 DEF QrPromise, QrSane, EntriesOK, CoroutinesOK, Of
<1>6. ASSUME NEW p \in Qrs, qr'[p].listed, qr'[p].state = "WAIT_SCAN", p # q
      PROVE  \/ coroutine'[qr'[p].task].pc \in {"scan", "me"}
             \/ \E d \in Coroutines : Of(d)' = p /\ coroutine'[d].kind = "refresh"
  <2>1. qr[p].task \in Coroutines /\ coroutine[qr[p].task].kind = "wait"
    BY <1>2, <1>6 DEF QrPromise, QrSane, EntriesOK
  <2>2. CASE coroutine[qr[p].task].pc \in {"scan", "me"}
    BY <1>2, <1>3, <1>6, <2>1, <2>2
  <2>3. CASE \E d \in Coroutines : Of(d) = p /\ coroutine[d].kind = "refresh"
    BY <1>3, <2>3 DEF Of
  <2>. QED
    BY <1>2, <1>6, <2>2, <2>3 DEF QrPromise, WaitingIsWaitedFor
<1>7. WaitingIsWaitedFor'
  BY <1>2, <1>3, <1>6 DEF WaitingIsWaitedFor, Of
<1>. QED
  BY <1>4, <1>5, <1>7 DEF QrPromise, QrSane

LEMMA SubmitPasswordKeeps ==
  ASSUME QrPromise, NEW q \in Qrs, NEW c \in Coroutines, SubmitPassword(c, q)
  PROVE  QrPromise'
<1>1. qr' = qr /\ qr[q].listed
  BY DEF SubmitPassword
<1>2. /\ coroutine' \in [Coroutines -> CoroutineRow] /\ coroutine[c].kind = "none"
      /\ coroutine'[c].kind = "password" /\ coroutine'[c].qr = q
      /\ coroutine'[c].pc = "password"
      /\ \A d \in Coroutines : d # c => coroutine'[d] = coroutine[d]
  BY BeginIs DEF SubmitPassword, QrPromise
<1>3. QrTypeOK'
  BY <1>1, <1>2 DEF QrPromise, QrSane, QrTypeOK, CoroutineRow, QrRow
<1>4. EntriesOK' /\ CoroutinesOK'
  BY <1>1, <1>2 DEF QrPromise, QrSane, EntriesOK, CoroutinesOK, Of
<1>5. ASSUME NEW p \in Qrs, qr'[p].listed, qr'[p].state = "WAIT_SCAN"
      PROVE  \/ coroutine'[qr'[p].task].pc \in {"scan", "me"}
             \/ \E d \in Coroutines : Of(d)' = p /\ coroutine'[d].kind = "refresh"
  <2>1. qr[p].task \in Coroutines /\ coroutine[qr[p].task].kind = "wait"
    BY <1>1, <1>5 DEF QrPromise, QrSane, EntriesOK
  <2>2. CASE coroutine[qr[p].task].pc \in {"scan", "me"}
    BY <1>1, <1>2, <2>1, <2>2
  <2>3. CASE \E d \in Coroutines : Of(d) = p /\ coroutine[d].kind = "refresh"
    BY <1>2, <2>3 DEF Of
  <2>. QED
    BY <1>1, <1>5, <2>2, <2>3 DEF QrPromise, WaitingIsWaitedFor
<1>6. WaitingIsWaitedFor'
  BY <1>5 DEF WaitingIsWaitedFor, Of
<1>. QED
  BY <1>3, <1>4, <1>6 DEF QrPromise, QrSane

LEMMA StartRefreshKeeps ==
  ASSUME QrPromise, NEW q \in Qrs, NEW c \in Coroutines, StartRefresh(c, q)
  PROVE  QrPromise'
<1>1. qr' = qr /\ qr[q].listed /\ coroutine[c].kind = "none"
  BY DEF StartRefresh, sessionsVars
<1>2. /\ qr[q].task \in Coroutines /\ coroutine[qr[q].task].kind = "wait" /\ Of(qr[q].task) = q
      /\ qr[q].task # c /\ qr[q].state # "none"
  BY <1>1 DEF QrPromise, QrSane, EntriesOK
<1>3. /\ coroutine' \in [Coroutines -> CoroutineRow]
      /\ coroutine'[c].kind = "refresh" /\ coroutine'[c].qr = q /\ coroutine'[c].pc = "refresh"
      /\ \A d \in Coroutines \ {c} :
           /\ coroutine'[d].kind = coroutine[d].kind /\ coroutine'[d].qr = coroutine[d].qr
           /\ d = qr[q].task => coroutine'[d].pc = "done"
           /\ d # qr[q].task => coroutine'[d].pc = coroutine[d].pc
  <2>. DEFINE f == Cancelled(q)
  <2>1. /\ f \in [Coroutines -> CoroutineRow]
        /\ \A d \in Coroutines : /\ f[d].kind = coroutine[d].kind /\ f[d].qr = coroutine[d].qr
                                 /\ d = qr[q].task => f[d].pc = "done"
                                 /\ d # qr[q].task => f[d].pc = coroutine[d].pc
    BY CancelledIs DEF QrPromise
  <2>2. coroutine' = [f EXCEPT ![c] = [kind |-> "refresh", qr |-> q, pc |-> "refresh"]]
    BY DEF StartRefresh
  <2>. HIDE DEF f
  <2>. QED
    BY <2>1, <2>2 DEF CoroutineRow
<1>4. QrTypeOK'
  BY <1>1, <1>3 DEF QrPromise, QrSane, QrTypeOK, CoroutineRow, QrRow
<1>5. EntriesOK'
  BY <1>1, <1>2, <1>3 DEF QrPromise, QrSane, EntriesOK, Of
<1>6. CoroutinesOK'
  BY <1>1, <1>2, <1>3 DEF QrPromise, QrSane, CoroutinesOK, Of
<1>7. ASSUME NEW p \in Qrs, qr'[p].listed, qr'[p].state = "WAIT_SCAN", p # q
      PROVE  \/ coroutine'[qr'[p].task].pc \in {"scan", "me"}
             \/ \E d \in Coroutines : Of(d)' = p /\ coroutine'[d].kind = "refresh"
  <2>1. /\ qr[p].task \in Coroutines \ {c} /\ coroutine[qr[p].task].kind = "wait"
        /\ Of(qr[p].task) = p
    BY <1>1, <1>7 DEF QrPromise, QrSane, EntriesOK
  <2>2. CASE coroutine[qr[p].task].pc \in {"scan", "me"}
    BY <1>1, <1>2, <1>3, <1>7, <2>1, <2>2
  <2>3. CASE \E d \in Coroutines : Of(d) = p /\ coroutine[d].kind = "refresh"
    BY <1>1, <1>3, <2>3 DEF Of
  <2>. QED
    BY <1>1, <1>7, <2>2, <2>3 DEF QrPromise, WaitingIsWaitedFor
<1>8. WaitingIsWaitedFor'
  BY <1>3, <1>7 DEF WaitingIsWaitedFor, Of
<1>. QED
  BY <1>4, <1>5, <1>6, <1>8 DEF QrPromise, QrSane

LEMMA CancelQrKeeps ==
  ASSUME QrPromise, NEW q \in Qrs, CancelQr(q)
  PROVE  QrPromise'
<1>1. /\ qr' \in [Qrs -> QrRow] /\ qr[q].listed /\ ~qr'[q].listed
      /\ qr'[q].state = qr[q].state /\ qr'[q].key = qr[q].key /\ qr'[q].task = qr[q].task
      /\ \A p \in Qrs : p # q => qr'[p] = qr[p]
  BY QrTyped DEF CancelQr, QrPromise, QrRow
<1>2. /\ qr[q].task \in Coroutines /\ coroutine[qr[q].task].kind = "wait" /\ Of(qr[q].task) = q
      /\ qr[q].state # "none"
  BY <1>1 DEF QrPromise, QrSane, EntriesOK
<1>3. /\ coroutine' \in [Coroutines -> CoroutineRow]
      /\ \A d \in Coroutines :
           /\ coroutine'[d].kind = coroutine[d].kind /\ coroutine'[d].qr = coroutine[d].qr
           /\ d = qr[q].task => coroutine'[d].pc = "done"
           /\ d # qr[q].task => coroutine'[d].pc = coroutine[d].pc
  BY CancelledIs DEF QrPromise, CancelQr
<1>4. QrTypeOK'
  BY <1>1, <1>3 DEF QrTypeOK, CoroutineRow, QrRow
<1>5. EntriesOK'
  BY <1>1, <1>2, <1>3 DEF QrPromise, QrSane, EntriesOK, Of
<1>6. CoroutinesOK'
  BY <1>1, <1>2, <1>3 DEF QrPromise, QrSane, CoroutinesOK, Of
<1>7. ASSUME NEW p \in Qrs, qr'[p].listed, qr'[p].state = "WAIT_SCAN"
      PROVE  \/ coroutine'[qr'[p].task].pc \in {"scan", "me"}
             \/ \E d \in Coroutines : Of(d)' = p /\ coroutine'[d].kind = "refresh"
  <2>1. p # q /\ qr[p].task \in Coroutines /\ Of(qr[p].task) = p
    BY <1>1, <1>7 DEF QrPromise, QrSane, EntriesOK
  <2>2. CASE coroutine[qr[p].task].pc \in {"scan", "me"}
    BY <1>1, <1>2, <1>3, <1>7, <2>1, <2>2
  <2>3. CASE \E d \in Coroutines : Of(d) = p /\ coroutine[d].kind = "refresh"
    BY <1>3, <2>3 DEF Of
  <2>. QED
    BY <1>1, <1>7, <2>1, <2>2, <2>3 DEF QrPromise, WaitingIsWaitedFor
<1>8. WaitingIsWaitedFor'
  BY <1>7 DEF WaitingIsWaitedFor, Of
<1>. QED
  BY <1>4, <1>5, <1>6, <1>8 DEF QrPromise, QrSane

LEMMA RefreshedKeeps ==
  ASSUME QrPromise, NEW c \in Coroutines, Refreshed(c)
  PROVE  QrPromise'
<1>1. /\ coroutine[c].pc = "refresh" /\ coroutine[c].kind = "refresh"
      /\ Of(c) \in Qrs /\ qr[Of(c)].state # "none" /\ qr[Of(c)].key \in Keys
  BY Begun DEF Refreshed, At, QrPromise, QrSane, CoroutinesOK
<1>2. CASE qr' = qr /\ Step(c, "done")
  BY <1>1, <1>2, StepsQr
<1>3. CASE /\ qr' = [qr EXCEPT ![Of(c)].state = "WAIT_SCAN", ![Of(c)].task = c]
           /\ coroutine' = [coroutine EXCEPT ![c].kind = "wait", ![c].pc = "scan"]
  <2>. DEFINE q == Of(c)
  <2>1. /\ qr' \in [Qrs -> QrRow] /\ qr'[q].state = "WAIT_SCAN" /\ qr'[q].task = c
        /\ qr'[q].key = qr[q].key
        /\ \A p \in Qrs : p # q => qr'[p] = qr[p]
    BY <1>1, <1>3, QrTyped DEF QrPromise, QrRow
  <2>2. /\ coroutine' \in [Coroutines -> CoroutineRow]
        /\ coroutine'[c].kind = "wait" /\ coroutine'[c].pc = "scan" /\ coroutine'[c].qr = q
        /\ \A d \in Coroutines : d # c => coroutine'[d] = coroutine[d]
    BY <1>3, QrTyped DEF QrPromise, CoroutineRow, Of
  <2>3. QrTypeOK'
    BY <2>1, <2>2 DEF QrTypeOK, CoroutineRow, QrRow
  <2>4. EntriesOK' /\ CoroutinesOK'
    BY <1>1, <2>1, <2>2 DEF QrPromise, QrSane, EntriesOK, CoroutinesOK, Of
  <2>5. ASSUME NEW p \in Qrs, qr'[p].listed, qr'[p].state = "WAIT_SCAN", p # q
        PROVE  \/ coroutine'[qr'[p].task].pc \in {"scan", "me"}
               \/ \E d \in Coroutines : Of(d)' = p /\ coroutine'[d].kind = "refresh"
    <3>1. qr[p].task \in Coroutines \ {c}
      BY <1>1, <2>1, <2>5 DEF QrPromise, QrSane, EntriesOK
    <3>2. CASE coroutine[qr[p].task].pc \in {"scan", "me"}
      BY <2>1, <2>2, <2>5, <3>1, <3>2
    <3>3. CASE \E d \in Coroutines : Of(d) = p /\ coroutine[d].kind = "refresh"
      BY <2>2, <2>5, <3>3 DEF Of
    <3>. QED
      BY <2>1, <2>5, <3>2, <3>3 DEF QrPromise, WaitingIsWaitedFor
  <2>6. WaitingIsWaitedFor'
    BY <2>1, <2>2, <2>5 DEF WaitingIsWaitedFor, Of
  <2>. QED
    BY <2>3, <2>4, <2>6 DEF QrPromise, QrSane
<1>. QED
  BY <1>2, <1>3 DEF Refreshed

LEMMA QrPromiseSame ==
  ASSUME QrPromise, UNCHANGED qrVars
  PROVE  QrPromise'
BY DEF QrPromise, QrSane, QrTypeOK, EntriesOK, CoroutinesOK, WaitingIsWaitedFor, Of, qrVars

LEMMA QrPromiseStep ==
  ASSUME Sane, QrPromise, QrNext
  PROVE  QrPromise'
<1>1. ASSUME NEW c \in Coroutines,
             Scanned(c) \/ NotScanned(c) \/ PasswordTaken(c) \/ Fails(c) \/ Finalize(c)
      PROVE  QrPromise'
  <2>1. coroutine[c].pc # "start"
    BY <1>1 DEF Scanned, NotScanned, PasswordTaken, Fails, Finalize, At
  <2>2. PICK pc \in {"scan", "me", "done"} :
          /\ Step(c, pc)
          /\ \/ qr' = qr /\ (pc = "me" \/ ~qr[Of(c)].listed \/ coroutine[c].kind # "wait")
             \/ \E state \in {"WAIT_2FA", "EXPIRED", "FAILED", "COMPLETED"} :
                  Entry(Of(c), state)
    BY <1>1 DEF Scanned, NotScanned, PasswordTaken, Fails, Finalize
  <2>. QED
    BY <2>1, <2>2, StepsQr
<1>2. ASSUME NEW c \in Coroutines,
             \/ Refreshed(c)
             \/ \E q \in Qrs : StartQr(q, c) \/ SubmitPassword(c, q) \/ StartRefresh(c, q)
      PROVE  QrPromise'
  BY <1>2, RefreshedKeeps, StartQrKeeps, SubmitPasswordKeeps, StartRefreshKeeps
<1>3. ASSUME NEW q \in Qrs, CancelQr(q)
      PROVE  QrPromise'
  BY <1>3, CancelQrKeeps
<1>. QED
  BY <1>1, <1>2, <1>3 DEF QrNext

-----------------------------------------------------------------------------
(* Who holds what.                                                         *)

Leases ==
  /\ \A h \in Handlers : /\ lease = h <=> Holding(handler[h])
                         /\ lock = h <=> Locking(handler[h])
                         /\ Holding(handler[h]) /\ handler[h].sql => account # 0
  /\ \A w \in Workers : /\ lease = w <=> Running(worker[w])
                        /\ Running(worker[w]) => account # 0

AccountsInv == Sane /\ QrPromise /\ Leases /\ SessionsHaveAccounts

LEMMA LeasesInit == AccountsInit => Leases /\ SessionsHaveAccounts
BY SessionsAssumption
DEF AccountsInit, SessionsInit, Leases, SessionsHaveAccounts, Holding, Locking, Running,
    NoRequest, NoRun, SessionsAssumption

(* An account in use is not removed.                                       *)
LEMMA InUseStays ==
  ASSUME Sane, SessionKind, account # 0, InUse
  PROVE  account' = account
BY Typed DEF SessionKind, SessionSame, WritesBack, WritesFree, Registers, Removes

LEMMA LeasesStep ==
  ASSUME Sane, Leases, StepOK
  PROVE  Leases'
<1>. USE SessionsAssumption DEF SessionsAssumption
<1>1. SessionKind /\ LeaseKind /\ \A x \in Handlers \cup Workers : x # Nothing
  BY DEF StepOK
<1>2. CASE SameHolders
  <2>1. ASSUME account # 0, lease # Nothing
        PROVE  account' # 0
    BY <1>1, <2>1, InUseStays DEF InUse
  <2>. QED
    BY <1>1, <1>2, <2>1 DEF SameHolders, Leases
<1>3. ASSUME NEW h \in Handlers, TakeLock(h)
      PROVE  Leases'
  <2>1. /\ Turns(h) /\ handler'[h].kind = "manage" /\ handler'[h].pc = "acquire"
        /\ handler[h].pc = "lock" /\ lock = Nothing /\ lock' = h
        /\ lease' = lease /\ account' = account /\ worker' = worker
    BY <1>3, GoIs DEF TakeLock, Busy, PC, Sane, accountVars
  <2>. QED
    BY <1>1, <2>1 DEF Leases, Turns, Holding, Locking
<1>4. ASSUME NEW h \in Handlers, ClaimAccount(h)
      PROVE  Leases'
  <2>1. /\ account' = account /\ worker' = worker /\ lock = h
        /\ handler[h].kind = "manage" /\ handler[h].pc = "acquire"
    BY <1>4 DEF ClaimAccount, Busy, Leases, Locking, accountVars
  <2>2. CASE Done(h) /\ lock' = Nothing /\ lease' = lease
    <3>1. Turns(h) /\ handler'[h].kind = "none"
      BY <2>2, DoneIs DEF Sane
    <3>. QED
      BY <1>1, <2>1, <2>2, <3>1 DEF Leases, Turns, Holding, Locking
  <2>3. CASE /\ Become(h, [handler[h] EXCEPT !.pc = "connect", !.key = Loaded(handler[h].sql)])
             /\ lease = Nothing /\ lease' = h /\ lock' = lock
             /\ handler[h].sql => account # 0
    <3>. DEFINE k == Loaded(handler[h].sql)
                c == [handler[h] EXCEPT !.pc = "connect", !.key = k]
    <3>1. k \in MaybeKey /\ handler[h] \in HandlerRow
      BY LoadedIs, Typed DEF Sane
    <3>2. handler' = [handler EXCEPT ![h] = c]
      BY <2>3 DEF Become
    <3>. HIDE DEF k
    <3>3. c \in HandlerRow /\ c.kind = "manage" /\ c.pc = "connect" /\ c.sql = handler[h].sql
      BY <2>1, <3>1 DEF HandlerRow, PC
    <3>4. handler'[h] = c /\ Turns(h)
      BY <3>2, <3>3, Becomes DEF Sane
    <3>. HIDE DEF c
    <3>5. /\ Holding(handler'[h]) /\ Locking(handler'[h])
          /\ handler'[h].sql => account # 0
      BY <2>3, <3>3, <3>4 DEF Holding, Locking
    <3>6. \A g \in Handlers \ {h} : handler'[g] = handler[g]
      BY <3>4 DEF Turns
    <3>. QED
      BY <1>1, <2>1, <2>3, <3>5, <3>6 DEF Leases
  <2>. QED
    BY <1>4, <2>2, <2>3 DEF ClaimAccount
<1>5. ASSUME NEW h \in Handlers, ManagePersists(h)
      PROVE  Leases'
  <2>1. /\ handler[h].kind = "manage" /\ handler[h].pc \in {"connect", "call"}
        /\ lease = h /\ lock = h /\ account' = account /\ worker' = worker /\ lease' = lease
    BY <1>5 DEF ManagePersists, Leases, Holding, Locking
  <2>2. SaveOK(handler[h])
    BY <2>1 DEF Leases, Holding, SaveOK, Saves
  <2>3. Go(h, "answer") /\ lock' = lock
    BY <1>5, <2>2 DEF ManagePersists
  <2>4. /\ Turns(h) /\ handler'[h].kind = "manage" /\ handler'[h].pc = "answer"
        /\ handler'[h].sql = handler[h].sql
    BY <2>1, <2>3, GoIs DEF PC, Sane
  <2>. QED
    BY <1>1, <2>1, <2>3, <2>4 DEF Leases, Turns, Holding, Locking
<1>6. ASSUME NEW h \in Handlers, ManageReleases(h)
      PROVE  Leases'
  <2>1. /\ lease = h /\ lock = h /\ account' = account /\ worker' = worker
        /\ lease' = Nothing /\ lock' = Nothing /\ Turns(h) /\ handler'[h].kind = "none"
    BY <1>6, DoneIs DEF ManageReleases, Busy, Leases, Holding, Locking, accountVars, Sane
  <2>. QED
    BY <1>1, <2>1 DEF Leases, Turns, Holding, Locking
<1>7. ASSUME NEW w \in Workers, WorkerClaims(w)
      PROVE  Leases'
  <2>1. /\ account # 0 /\ account' = account /\ lease = Nothing /\ lease' = w
        /\ lock' = lock /\ handler' = handler
    BY <1>7 DEF WorkerClaims, accountVars
  <2>2. Running(worker'[w]) /\ \A v \in Workers \ {w} : worker'[v] = worker[v]
    BY <1>7, Typed DEF WorkerClaims, Running, Sane, WorkerRow
  <2>. QED
    BY <1>1, <2>1, <2>2 DEF Leases
<1>8. ASSUME NEW w \in Workers, WorkerReleases(w)
      PROVE  Leases'
  <2>1. /\ account' = account /\ lease = w /\ lease' = Nothing
        /\ lock' = lock /\ handler' = handler
    BY <1>8 DEF WorkerReleases, Leases, Running, accountVars
  <2>2. ~Running(worker'[w]) /\ \A v \in Workers \ {w} : worker'[v] = worker[v]
    BY <1>8, Typed DEF WorkerReleases, Running, Sane, WorkerRow, NoRun
  <2>. QED
    BY <1>1, <2>1, <2>2 DEF Leases
<1>. QED
  BY <1>1, <1>2, <1>3, <1>4, <1>5, <1>6, <1>7, <1>8 DEF LeaseKind

LEMMA SessionsHaveAccountsStep ==
  ASSUME Sane, SessionsHaveAccounts, SessionKind
  PROVE  SessionsHaveAccounts'
<1>. USE Typed DEF Sane, SessionsHaveAccounts
<1>1. CASE SessionSame
  BY <1>1 DEF SessionSame
<1>2. CASE WritesBack \/ WritesFree
  <2>1. account' = account /\ \E k : session' = [session EXCEPT ![account] = k]
    BY <1>2 DEF WritesBack, WritesFree, WroteBack
  <2>. QED
    BY <2>1
<1>3. CASE Registers
  <2>1. \A i \in Accounts : session[i] = Nothing
    BY <1>3 DEF Registers, Accounts
  <2>. QED
    BY <1>3, <2>1 DEF Registers
<1>4. CASE Removes
  BY <1>4 DEF Removes
<1>. QED
  BY <1>1, <1>2, <1>3, <1>4 DEF SessionKind

LEMMA AccountsStep ==
  ASSUME AccountsInv, AccountsNext
  PROVE  AccountsInv' /\ StepOK
<1>. USE DEF AccountsInv
<1>1. StepOK
  BY SessionsStepOK, QrStepOK DEF AccountsNext, QrPromise
<1>2. QrPromise'
  BY QrPromiseSame, QrPromiseStep DEF AccountsNext
<1>. QED
  BY <1>1, <1>2, LeasesStep, SessionsHaveAccountsStep DEF StepOK

LEMMA AccountsSame ==
  ASSUME AccountsInv, UNCHANGED <<sessionsVars, qrVars>>
  PROVE  AccountsInv'
<1>. USE DEF AccountsInv
<1>1. /\ UNCHANGED <<account, registered, session, legacy, authorised, fresh, jobOpen, lease,
                     lock, login, handler, worker>>
      /\ UNCHANGED qrVars
  BY DEF sessionsVars, accountVars, telegramVars, leaseVars
<1>2. Sane'
  BY <1>1 DEF Sane, SessionsTypeOK, HasKey
<1>3. Leases' /\ SessionsHaveAccounts'
  BY <1>1 DEF Leases, SessionsHaveAccounts
<1>. QED
  BY <1>1, <1>2, <1>3, QrPromiseSame

LEMMA AccountsInvariant == AccountsSpec => []AccountsInv
<1>1. AccountsInit => AccountsInv
  <2>1. AccountsInit => WaitingIsWaitedFor
    BY DEF AccountsInit, QrInit, WaitingIsWaitedFor
  <2>. QED
    BY <2>1, SaneInit, LeasesInit DEF AccountsInv, QrPromise
<1>2. AccountsInv /\ [AccountsNext]_<<sessionsVars, qrVars>> => AccountsInv'
  BY AccountsStep, AccountsSame
<1>. QED
  BY <1>1, <1>2, PTL DEF AccountsSpec

-----------------------------------------------------------------------------
(* The theorems.                                                           *)

(* However requests, jobs of several processes, QR logins and removals     *)
(* interleave, at most one client of a worker or of a management operation *)
(* may be connected.                                                       *)
THEOREM OneClientAtATime == AccountsSpec => []OneClient
<1>1. AccountsInv => OneClient
  BY SessionsAssumption
  DEF AccountsInv, Leases, OneClient, Connected, Holding, Running, SessionsAssumption
<1>. QED
  BY <1>1, AccountsInvariant, PTL

(* Whoever has the lease or the management lock is still at work.          *)
THEOREM EverythingGivenBack == AccountsSpec => []NothingLeftBehind
<1>1. AccountsInv => NothingLeftBehind
  <2>. SUFFICES ASSUME AccountsInv PROVE NothingLeftBehind
    OBVIOUS
  <2>1. lease \in Handlers => Connected(lease)
    BY DEF AccountsInv, Leases, Connected, Holding
  <2>2. lease \in Workers => worker[lease].pc \notin {"idle", "over"}
    BY DEF AccountsInv, Leases, Running
  <2>3. lock # Nothing => handler[lock].kind = "manage" /\ handler[lock].pc # "lock"
    BY DEF AccountsInv, Leases, Locking, Sane, SessionsTypeOK
  <2>. QED
    BY <2>1, <2>2, <2>3 DEF NothingLeftBehind
<1>. QED
  BY <1>1, AccountsInvariant, PTL

(* No stored session outlives the row of its account.                      *)
THEOREM SessionsBelong == AccountsSpec => []SessionsHaveAccounts
<1>1. AccountsInv => SessionsHaveAccounts
  BY DEF AccountsInv
<1>. QED
  BY <1>1, AccountsInvariant, PTL

(* A login that shows a code is waited for.                                *)
THEOREM ScansAreAwaited == AccountsSpec => []WaitingIsWaitedFor
<1>1. AccountsInv => WaitingIsWaitedFor
  BY DEF AccountsInv, QrPromise
<1>. QED
  BY <1>1, AccountsInvariant, PTL

(* While a worker may be connected its account's row stays, and only the   *)
(* write-backs of clients that were opened before touch its session.       *)
THEOREM SessionsOfRunsStay == AccountsSpec => RunsKeepTheirSession
<1>. DEFINE Kept ==
       (\E w \in Workers : worker[w].pc \in {"opening", "connected"})
         => /\ account' = account
            /\ \/ session' = session
               \/ \E w \in Workers : WroteBack(worker[w]) \/ WroteBack(worker'[w])
               \/ \E h \in Handlers : /\ WroteBack(handler[h]) \/ WroteBack(handler'[h])
                                      /\ handler[h].kind \in Unleased \cup {"migrate"}
<1>1. AccountsInv /\ AccountsNext => Kept
  <2>. SUFFICES ASSUME AccountsInv, AccountsNext,
                       NEW w \in Workers, worker[w].pc \in {"opening", "connected"}
                PROVE  /\ account' = account
                       /\ \/ session' = session
                          \/ \E v \in Workers : WroteBack(worker[v]) \/ WroteBack(worker'[v])
                          \/ \E h \in Handlers :
                               /\ WroteBack(handler[h]) \/ WroteBack(handler'[h])
                               /\ handler[h].kind \in Unleased \cup {"migrate"}
    OBVIOUS
  <2>1. SessionKind /\ Sane
    BY AccountsStep DEF StepOK, AccountsInv
  <2>2. lease = w /\ account # 0 /\ InUse
    BY SessionsAssumption DEF AccountsInv, Leases, Running, InUse, SessionsAssumption
  <2>3. \A h \in Handlers : ~Holding(handler[h])
    BY <2>2, SessionsAssumption DEF AccountsInv, Leases, SessionsAssumption
  <2>4. account' = account /\ (SessionSame \/ WritesBack)
    BY <2>1, <2>2, InUseStays DEF SessionKind, WritesFree, Registers, Removes
  <2>. QED
    BY <2>3, <2>4 DEF SessionSame, WritesBack, Holding
<1>2. UNCHANGED <<sessionsVars, qrVars>> => UNCHANGED sessionsVars
  OBVIOUS
<1>3. AccountsInv /\ [AccountsNext]_<<sessionsVars, qrVars>> => [Kept]_sessionsVars
  BY <1>1, <1>2
<1>. QED
  BY <1>3, AccountsInvariant, PTL DEF AccountsSpec, RunsKeepTheirSession
=============================================================================
