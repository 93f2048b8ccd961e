------------------------------ MODULE JobStore ------------------------------
(***************************************************************************)
(* The rows of the database that the runtime fences itself with, and the   *)
(* SQL statements of JobRepository and ResultRepository that read and      *)
(* write them.  One statement is one atomic step (SQLite and PostgreSQL    *)
(* both serialise single-row statements); whatever a process does between  *)
(* two statements is a separate action of module Runtime.                  *)
(*                                                                         *)
(* Every timestamp column is kept as its distance from the current second: *)
(* `lease' is worker_lease_until - now, `retry' is next_retry_at - now,    *)
(* `recovery' is recovery_after - now.  A lease is live while it is        *)
(* positive.  Distances are clipped once no statement can tell them apart: *)
(* leases at -Horizon (NULL is kept there too, because every statement     *)
(* treats NULL as expired), due times at 0.                                *)
(*                                                                         *)
(* A definition whose comment calls it a mutant is not part of the model:  *)
(* it is the bug that a property, run with it instead of the definition    *)
(* below it, must catch.                                                   *)
(***************************************************************************)
EXTENDS Integers, FiniteSets

CONSTANTS
  Workers,          (* worker ids: one uuid per JobManager.run             *)
  Jobs,
  Accounts,
  Items,            (* check_items.id, ordered as integers                 *)
  AccountOf,        (* the Telegram account a job is configured with       *)
  JobOfItem,        (* check_items.job_id                                  *)
  None,             (* SQL NULL in an owner column                         *)
  LeaseSeconds,     (* Config.worker_lease_seconds                         *)
  TakeoverGrace,    (* Config.lease_takeover_grace_seconds                 *)
  RecoveryGrace,    (* Config.in_flight_recovery_grace_seconds             *)
  MaxAttempts,      (* check_items.max_attempts                            *)
  Horizon           (* how far in the past a lease is still distinguished  *)

ASSUME OwnersAssumption == None \notin Workers /\ None \notin Jobs
ASSUME ItemsAssumption  == Items \subseteq Nat \ {0}
ASSUME LayoutAssumption == /\ AccountOf \in [Jobs -> Accounts]
                           /\ JobOfItem \in [Items -> Jobs]
ASSUME TimesAssumption  == /\ LeaseSeconds \in Nat \ {0}
                           /\ TakeoverGrace \in Nat
                           /\ RecoveryGrace \in Nat
                           /\ MaxAttempts \in Nat \ {0}
                           /\ Horizon \in Nat
                           /\ TakeoverGrace <= Horizon
                           /\ RecoveryGrace <= Horizon

VARIABLES
  job,        (* the jobs table                                            *)
  account,    (* the account_worker_state table                            *)
  item        (* the check_items table                                     *)

rows == <<job, account, item>>

JobStatus   == {"CREATED", "RUNNING", "PAUSED", "RATE_LIMITED",
                "COMPLETED", "FAILED", "CANCELLED"}
JobCommand  == {"NONE", "PAUSE", "CANCEL"}

(* CheckStatus as the runtime writes it: TEMPORARY_ERROR and RATE_LIMITED  *)
(* are answers of the Telegram service, which the retry queue stores as    *)
(* RETRY_REQUIRED.                                                         *)
Terminal    == {"FOUND", "NOT_DISCOVERABLE", "PERMANENT_ERROR"}
CheckStatus == Terminal \cup {"PENDING", "PROCESSING", "IN_FLIGHT_UNKNOWN",
                              "RETRY_REQUIRED"}

Past     == -Horizon
Distance == Past .. LeaseSeconds

JobRow     == [status : JobStatus, cmd : JobCommand,
               worker : Workers \cup {None}, lease : Distance]
AccountRow == [worker : Workers \cup {None}, job : Jobs \cup {None},
               lease : Distance]

(* `sent' is not a column: it counts the claims of mark_processing.  The   *)
(* n-th claim's token is n, which is as fresh for this row as the code's   *)
(* uuid; 0 is a NULL token.                                                *)
ItemRow    == [status : CheckStatus, attempts : Nat, retry : Nat,
               recovery : Nat, token : Nat, sent : Nat]

StoreTypeOK ==
  /\ job \in [Jobs -> JobRow]
  /\ account \in [Accounts -> AccountRow]
  /\ item \in [Items -> ItemRow]

StoreInit ==
  /\ job = [j \in Jobs |-> [status |-> "CREATED", cmd |-> "NONE",
                            worker |-> None, lease |-> Past]]
  /\ account = [a \in Accounts |-> [worker |-> None, job |-> None,
                                    lease |-> Past]]
  /\ item = [i \in Items |-> [status |-> "PENDING", attempts |-> 0,
                              retry |-> 0, recovery |-> 0, token |-> 0,
                              sent |-> 0]]

-----------------------------------------------------------------------------
(* Leases.                                                                 *)

JobLive(j)        == job[j].worker # None /\ job[j].lease > 0
OwnsJob(w, j)     == job[j].worker = w /\ job[j].lease > 0
OwnsAccount(w, j) == LET row == account[AccountOf[j]]
                     IN  row.worker = w /\ row.job = j /\ row.lease > 0

AccountLiveFor(j) ==
  \E a \in Accounts : /\ account[a].job = j
                      /\ account[a].worker # None
                      /\ account[a].lease > 0

(* claim_worker and claim_account both begin with a SELECT that refuses an *)
(* owner whose lease plus the takeover grace is not over, and end with an  *)
(* UPDATE that takes a row whose owner is NULL or whose lease had run out  *)
(* `age' seconds ago, when the call read the clock.                        *)
RefusedWithoutGrace(row, w) ==   (* mutant of Refused: no takeover grace *)
  row.worker \notin {None, w} /\ row.lease > 0

Refused(row, w)    == row.worker \notin {None, w} /\ row.lease + TakeoverGrace > 0
Takeable(row, age) == row.worker = None \/ row.lease <= -age

ClaimWorker(w, j, age) ==
  job' = [job EXCEPT ![j] = [@ EXCEPT !.worker = w, !.lease = LeaseSeconds - age]]

ClaimAccount(w, j, age) ==
  account' = [account EXCEPT ![AccountOf[j]] =
                [worker |-> w, job |-> j, lease |-> LeaseSeconds - age]]

(* renew_worker refuses a lease that has run out, even to its last owner.  *)
RenewableByName(w, j) == job[j].worker = w   (* mutant of Renewable: no lease guard *)

Renewable(w, j)       == OwnsJob(w, j)
RenewWorker(j)        == job' = [job EXCEPT ![j].lease = LeaseSeconds]
RenewAccount(j)       == account' = [account EXCEPT ![AccountOf[j]].lease = LeaseSeconds]

ClearWorkerOwnership(j) ==
  job' = [job EXCEPT ![j] = [@ EXCEPT !.worker = None, !.lease = Past]]

ReleaseWorker(w, j) ==
  IF job[j].worker = w THEN ClearWorkerOwnership(j) ELSE job' = job

ClearAccount(a) ==
  account' = [account EXCEPT ![a] = [worker |-> None, job |-> None, lease |-> Past]]

ReleaseAccountOfJob(w, j) ==   (* mutant of ReleaseAccount: no owner guard *)
  IF account[AccountOf[j]].job = j THEN ClearAccount(AccountOf[j]) ELSE account' = account

ReleaseAccount(w, j) ==
  IF account[AccountOf[j]].worker = w /\ account[AccountOf[j]].job = j
  THEN ClearAccount(AccountOf[j]) ELSE account' = account

-----------------------------------------------------------------------------
(* Job status and command.                                                 *)

UpdateStatus(j, s) == job' = [job EXCEPT ![j].status = s]

UpdateStatusIfOwned(w, j, s) ==
  IF OwnsJob(w, j) THEN UpdateStatus(j, s) ELSE job' = job

SetCommand(j, c) == job' = [job EXCEPT ![j].cmd = c]

(* mark_started, mark_cancelled_*: the status write that also drops a      *)
(* pending command.                                                        *)
SettleStatus(j, s) == job' = [job EXCEPT ![j] = [@ EXCEPT !.status = s, !.cmd = "NONE"]]

AcknowledgePause(w, j) ==
  IF job[j].worker \in {None, w}
  THEN job' = [job EXCEPT ![j] = [status |-> "PAUSED", cmd |-> "NONE",
                                  worker |-> None, lease |-> Past]]
  ELSE job' = job

-----------------------------------------------------------------------------
(* Items.                                                                  *)

SelectableNoUnknown(i) ==   (* mutant of Selectable: a quarantined item is never due *)
  item[i].status \in {"PENDING", "RETRY_REQUIRED"} /\ item[i].retry = 0

SelectableInterrupted(i) ==   (* mutant of Selectable: a PROCESSING item is due *)
  item[i].status \notin Terminal /\ item[i].retry = 0 /\ item[i].recovery = 0

Selectable(i) ==
  \/ item[i].status \in {"PENDING", "RETRY_REQUIRED"} /\ item[i].retry = 0
  \/ item[i].status = "IN_FLIGHT_UNKNOWN" /\ item[i].recovery = 0

Due(j) == {i \in Items : JobOfItem[i] = j /\ Selectable(i)}

UnfinishedButUnknown(j) ==   (* mutant of Unfinished: a quarantined item counts as settled *)
  {i \in Items : /\ JobOfItem[i] = j
                 /\ item[i].status \notin Terminal \cup {"IN_FLIGHT_UNKNOWN"}}

Unfinished(j) == {i \in Items : JobOfItem[i] = j /\ item[i].status \notin Terminal}

MarkProcessing(i) ==
  item' = [item EXCEPT ![i] = [@ EXCEPT !.status = "PROCESSING", !.recovery = 0,
                                        !.token = item[i].sent + 1,
                                        !.sent = item[i].sent + 1]]

HoldsItem(i, token) == item[i].status = "PROCESSING" /\ item[i].token = token

SaveResult(i, status, attempts, retry) ==
  item' = [item EXCEPT ![i] = [@ EXCEPT !.status = status, !.attempts = attempts,
                                        !.retry = retry, !.recovery = 0, !.token = 0]]

InFlightUnknownAtOnce(row) ==   (* mutant of InFlightUnknown: no recovery grace *)
  [row EXCEPT !.status = "IN_FLIGHT_UNKNOWN", !.retry = 0, !.token = 0]

InFlightUnknown(row) ==
  [row EXCEPT !.status = "IN_FLIGHT_UNKNOWN", !.retry = 0,
              !.recovery = RecoveryGrace, !.token = 0]

MarkInFlightUnknown(i, token) ==
  IF HoldsItem(i, token)
  THEN item' = [item EXCEPT ![i] = InFlightUnknown(@)]
  ELSE item' = item

RecoverAll(j) ==   (* mutant of RecoverInterrupted: no status guard *)
  item' = [i \in Items |-> IF JobOfItem[i] = j THEN InFlightUnknown(item[i])
                                               ELSE item[i]]

RecoverInterrupted(j) ==
  item' = [i \in Items |-> IF JobOfItem[i] = j /\ item[i].status = "PROCESSING"
                           THEN InFlightUnknown(item[i]) ELSE item[i]]

-----------------------------------------------------------------------------
(* One second of wall-clock time, as every stored timestamp sees it.       *)

ElapseUnclipped(distance, floor) == distance - 1   (* mutant of Elapse *)

Elapse(distance, floor) == IF distance > floor THEN distance - 1 ELSE distance

StoreTick ==
  /\ job' = [j \in Jobs |-> [job[j] EXCEPT !.lease = Elapse(@, Past)]]
  /\ account' = [a \in Accounts |-> [account[a] EXCEPT !.lease = Elapse(@, Past)]]
  /\ item' = [i \in Items |-> [item[i] EXCEPT !.retry = Elapse(@, 0),
                                              !.recovery = Elapse(@, 0)]]
=============================================================================
