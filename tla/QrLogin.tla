------------------------------- MODULE QrLogin ------------------------------
(***************************************************************************)
(* QR logins (webapi/account_manager.py, start_qr_login to cancel_qr)      *)
(* beside everything of module Sessions.  A login has an entry in          *)
(* _qr_pending with one client and one waiting task; requests refresh it,  *)
(* give its 2FA password or cancel it.  What Telegram answers is the       *)
(* account of the phone of module Sessions.  Each coroutine runs at most   *)
(* to its disconnect, after which nothing is shared.                       *)
(***************************************************************************)
EXTENDS Sessions

CONSTANTS
  Qrs,        (* ids of QR logins                                          *)
  Coroutines  (* waiting tasks and requests of QR logins                   *)

VARIABLES
  qr,         (* AccountManager._qr_pending; an entry that is no longer    *)
              (* listed is still reachable for the coroutines that hold it *)
  coroutine   (* what each of them is doing for which login                *)

qrVars == <<qr, coroutine>>

QrTypeOK ==
  /\ qr \in [Qrs -> [state : {"none", "WAIT_SCAN", "WAIT_2FA", "EXPIRED", "FAILED",
                              "COMPLETED"},
                     listed : BOOLEAN, key : MaybeKey, task : Coroutines \cup {Nothing}]]
  /\ coroutine \in [Coroutines ->
       [kind : {"none", "wait", "password", "refresh"}, qr : Qrs \cup {Nothing},
        pc : {"start", "scan", "password", "refresh", "me", "done"}]]

QrInit ==
  /\ qr = [q \in Qrs |-> [state |-> "none", listed |-> FALSE, key |-> Nothing,
                          task |-> Nothing]]
  /\ coroutine = [c \in Coroutines |-> [kind |-> "none", qr |-> Nothing, pc |-> "start"]]

Begin(c, kind, q, pc) ==
  /\ coroutine[c].kind = "none"
  /\ coroutine' = [coroutine EXCEPT ![c] = [kind |-> kind, qr |-> q, pc |-> pc]]

Step(c, pc)      == coroutine' = [coroutine EXCEPT ![c].pc = pc]
At(c, pc)        == coroutine[c].pc = pc
Of(c)            == coroutine[c].qr
Entry(q, state)  == qr' = [qr EXCEPT ![q].state = state]

(* The task whose await is interrupted by the CancelledError.              *)
Cancelled(q) ==
  [c \in Coroutines |-> IF c = qr[q].task THEN [coroutine[c] EXCEPT !.pc = "done"]
                                          ELSE coroutine[c]]

StartQr(q, c) ==
  /\ qr[q].state = "none"
  /\ \E k \in fresh :
       /\ qr' = [qr EXCEPT ![q] = [state |-> "WAIT_SCAN", listed |-> TRUE, key |-> k,
                                   task |-> c]]
       /\ fresh' = fresh \ {k}
  /\ Begin(c, "wait", q, "scan")
  /\ UNCHANGED <<accountVars, authorised, leaseVars, login, handler, worker>>

(* _wait_qr: scanned, a password is needed, timed out, failed.  A login    *)
(* that was cancelled past a second waiting task is not finalised.         *)
Scanned(c) ==
  /\ At(c, "scan") /\ Step(c, IF qr[Of(c)].listed THEN "me" ELSE "done")
  /\ authorised' = authorised \cup {qr[Of(c)].key}
  /\ UNCHANGED <<accountVars, fresh, leaseVars, login, handler, worker, qr>>

NotScannedSilently(c) ==     (* mutant of NotScanned: nothing recorded      *)
  /\ At(c, "scan") /\ Step(c, "done")
  /\ UNCHANGED <<sessionsVars, qr>>

NotScanned(c) ==
  /\ At(c, "scan") /\ Step(c, "done")
  /\ \E state \in {"WAIT_2FA", "EXPIRED", "FAILED"} : Entry(Of(c), state)
  /\ UNCHANGED <<accountVars, telegramVars, leaseVars, login, handler, worker>>

SubmitPassword(c, q) ==
  /\ qr[q].listed /\ qr[q].state = "WAIT_2FA"
  /\ Begin(c, "password", q, "password")
  /\ UNCHANGED <<sessionsVars, qr>>

(* sign_in, and _finalize_qr up to its get_me: the entry must be listed.   *)
PasswordTaken(c) ==
  /\ At(c, "password") /\ Step(c, IF qr[Of(c)].listed THEN "me" ELSE "done")
  /\ authorised' = authorised \cup {qr[Of(c)].key}
  /\ UNCHANGED <<accountVars, fresh, leaseVars, login, handler, worker, qr>>

(* get_me failed, or the account has work: the task records the failure,   *)
(* a request answers with it.                                              *)
Fails(c) ==
  /\ At(c, "password") \/ At(c, "me")
  /\ Step(c, "done")
  /\ IF coroutine[c].kind = "wait" THEN Entry(Of(c), "FAILED") ELSE UNCHANGED qr
  /\ UNCHANGED sessionsVars

(* The rest of _finalize_qr: the account is checked or created, and the    *)
(* session saved, in one step.  The legacy file stays.                     *)
Finalize(c) ==
  /\ At(c, "me") /\ Step(c, "done") /\ Entry(Of(c), "COMPLETED")
  /\ IF account = 0 THEN NewAccount ELSE ~Working /\ UNCHANGED <<account, registered>>
  /\ session' = [session EXCEPT ![account'] = qr[Of(c)].key]
  /\ UNCHANGED <<legacy, telegramVars, leaseVars, login, handler, worker>>

(* refresh_qr cancels the waiting task, asks for a new code and starts a   *)
(* new task, whatever has become of the entry meanwhile.                   *)
StartRefresh(c, q) ==
  /\ qr[q].listed /\ qr[q].state # "COMPLETED" /\ coroutine[c].kind = "none"
  /\ coroutine' = [Cancelled(q) EXCEPT ![c] = [kind |-> "refresh", qr |-> q,
                                               pc |-> "refresh"]]
  /\ UNCHANGED <<sessionsVars, qr>>

Refreshed(c) ==
  /\ At(c, "refresh")
  /\ \/ /\ qr' = [qr EXCEPT ![Of(c)].state = "WAIT_SCAN", ![Of(c)].task = c]
        /\ coroutine' = [coroutine EXCEPT ![c].kind = "wait", ![c].pc = "scan"]
     \/ Step(c, "done") /\ UNCHANGED qr
  /\ UNCHANGED sessionsVars

CancelQr(q) ==
  /\ qr[q].listed
  /\ qr' = [qr EXCEPT ![q].listed = FALSE]
  /\ coroutine' = Cancelled(q)
  /\ UNCHANGED sessionsVars

QrNext ==
  \/ \E c \in Coroutines : \/ Scanned(c) \/ NotScanned(c) \/ PasswordTaken(c) \/ Fails(c)
                           \/ Finalize(c) \/ Refreshed(c)
                           \/ \E q \in Qrs : \/ StartQr(q, c) \/ SubmitPassword(c, q)
                                             \/ StartRefresh(c, q)
  \/ \E q \in Qrs : CancelQr(q)

AccountsInit == SessionsInit /\ QrInit
AccountsNext == (SessionsNext /\ UNCHANGED qrVars) \/ QrNext
AccountsSpec == AccountsInit /\ [][AccountsNext]_<<sessionsVars, qrVars>>

-----------------------------------------------------------------------------
(* A QR login that shows a code has somebody who waits for its scan,       *)
(* however scans, refreshes, passwords and cancellations interleave; only  *)
(* a refresh whose request for a new code failed leaves an entry that      *)
(* says WAIT_SCAN to nobody.                                               *)
WaitingIsWaitedFor ==
  \A q \in Qrs : qr[q].listed /\ qr[q].state = "WAIT_SCAN"
    => \/ coroutine[qr[q].task].pc \in {"scan", "me"}
       \/ \E c \in Coroutines : Of(c) = q /\ coroutine[c].kind = "refresh"
=============================================================================
