------------------------------ MODULE Runtime -------------------------------
(***************************************************************************)
(* The processes that share the job store: workers (one JobManager.run and *)
(* the Worker and LeaseKeeper it owns), monitors (recover_all_stale) and   *)
(* operators (pause, resume and cancel requests).                          *)
(*                                                                         *)
(* Each process steps from one SQL statement, or one await, to the next.   *)
(* Inside a worker the asyncio tasks (manager loop, worker loop,           *)
(* heartbeat) interleave only where the code awaits; across processes any  *)
(* two statements interleave.                                              *)
(***************************************************************************)
EXTENDS JobStore

CONSTANTS
  Monitors,           (* one call of recover_all_stale each                *)
  Operators,          (* one operator command each                         *)
  Commands,           (* which commands the operators may issue            *)
  Answers,            (* which answers Telegram may give                   *)
  RetryDelays,        (* the delays schedule_retry may compute             *)
  RenewFailureLimit,  (* Config.lease_renew_failure_limit                  *)
  MaxStall,           (* bound: seconds between the clock read and the     *)
                      (* UPDATE of one claim                               *)
  Faults              (* which faults may happen, see below                *)

(* "crash": the process dies.  "shutdown": its task is cancelled.  "db": a *)
(* statement of the worker loop or the heartbeat raises.  "connect":       *)
(* telegram.connect() raises.                                              *)
AllFaults   == {"crash", "shutdown", "db", "connect"}
AllAnswers  == Terminal \cup {"RETRY_REQUIRED", "TEMPORARY_ERROR", "RATE_LIMITED"}
AllCommands == {"pause", "resume", "cancel"}

ASSUME KindsAssumption ==
  /\ Faults \subseteq AllFaults
  /\ Answers \subseteq AllAnswers
  /\ Commands \subseteq AllCommands
  /\ RetryDelays \subseteq Nat
  /\ RenewFailureLimit \in Nat \ {0}
  /\ MaxStall \in Nat
  /\ MaxStall <= Horizon

Processes == Workers \cup Monitors \cup Operators

ASSUME ProcessesAssumption ==
  /\ Workers \cap Monitors = {}
  /\ Workers \cap Operators = {}
  /\ Monitors \cap Operators = {}

VARIABLE proc   (* the local state of every process *)

vars == <<rows, proc>>

RecoverPC  == {"recoverRead", "recoverJobLease", "recoverAccountLease",
               "recoverRelease", "recoverClear", "recoverPause", "recoverItems"}
ClaimPC    == {"policy", "claimJob", "selectAccount", "claimAccount", "rollback",
               "start"}
LoopPC     == {"sleep", "loop", "clearCommand", "gate", "acquire", "mark",
               "request", "save", "quarantine", "ackPause"}
StopPC     == {"settle", "finish", "disconnect", "releaseAccount", "releaseJob"}
OperatorPC == {"setPause", "forcePause", "resumeCheck", "resumeClear", "resumeStart",
               "setCancel", "cancelCheck", "cancelMark"}
PC == RecoverPC \cup ClaimPC \cup LoopPC \cup StopPC \cup OperatorPC
        \cup {"new", "connect", "hung", "done", "dead"}

Outcome == {"none", "drained", "cancelled", "paused", "lost", "failed", "shutdown"}

Local == [pc      : PC,
          job     : Jobs \cup {None},
          seen    : Workers \cup {None},     (* recover(): job.worker_id as read *)
          stale   : BOOLEAN,                 (* and whether it was RUNNING       *)
          age     : 0 .. Horizon,            (* seconds since claim read the     *)
                                             (* clock, or since the request left *)
          item    : Items \cup {0},          (* the CheckItem in hand            *)
          attempt : Nat,                     (* its attempt_count when read      *)
          token   : Nat,                     (* processing_token                 *)
          answer  : Answers \cup {"none"},
          command : JobCommand,              (* Worker._command                  *)
          lost    : BOOLEAN,                 (* _ownership_lost_event            *)
          fails   : 0 .. RenewFailureLimit,  (* _renew_failures                  *)
          cancel  : BOOLEAN,                 (* _cancel, set by the manager      *)
          rated   : BOOLEAN,                 (* _paused_on_rate_limit            *)
          blocked : Nat,                     (* limiter: seconds still blocked   *)
          outcome : Outcome]                 (* how Worker.process ended         *)

Fresh == [pc |-> "new", job |-> None, seen |-> None, stale |-> FALSE, age |-> 0, item |-> 0,
          attempt |-> 0, token |-> 0, answer |-> "none", command |-> "NONE",
          lost |-> FALSE, fails |-> 0, cancel |-> FALSE, rated |-> FALSE,
          blocked |-> 0, outcome |-> "none"]

TypeOK == StoreTypeOK /\ proc \in [Processes -> Local]

Init == StoreInit /\ proc = [p \in Processes |-> Fresh]

JobOf(p)    == proc[p].job
At(p, pc)   == proc[p].pc = pc
Go(p, next) == proc' = [proc EXCEPT ![p].pc = next]

(* A process that is over keeps nothing; a worker loop that is over drops  *)
(* the item in hand.                                                       *)
End(p, how)    == proc' = [proc EXCEPT ![p] = [Fresh EXCEPT !.pc = how, !.job = JobOf(p)]]
Dropped(w)     == [proc[w] EXCEPT !.item = 0, !.attempt = 0, !.token = 0,
                                  !.answer = "none", !.age = 0, !.command = "NONE"]
Settle(w, how) == proc' = [proc EXCEPT ![w] = [Dropped(w) EXCEPT !.pc = "settle",
                                                                 !.outcome = how]]

(* assert_ownership: the lost event, then the job row, then the account.   *)
Owner(w) == ~proc[w].lost /\ OwnsJob(w, JobOf(w)) /\ OwnsAccount(w, JobOf(w))

(* A failed assertion marks the lease lost and raises LostOwnershipError.  *)
LoseGate(w)    == proc' = [proc EXCEPT ![w] = [Dropped(w) EXCEPT !.pc = "settle",
                                                 !.outcome = "lost", !.lost = TRUE]]
LoseRequest(w) == proc' = [proc EXCEPT ![w] = [@ EXCEPT !.pc = "quarantine", !.lost = TRUE]]

(* Where the worker's coroutine is suspended, so that its heartbeat, its   *)
(* manager's status loop and a cancellation can run.                       *)
Processing(w) == proc[w].pc \in {"sleep", "acquire", "request", "hung"}
Suspended(w)  == Processing(w) \/ proc[w].pc \in {"connect", "settle", "disconnect"}

-----------------------------------------------------------------------------
(* JobManager.recover.                                                     *)

(* A recovery that is over: run() goes on, recover_all_stale returns.      *)
Recovered(p) ==
  IF p \in Workers
  THEN proc' = [proc EXCEPT ![p] = [@ EXCEPT !.pc = "policy", !.seen = None, !.stale = FALSE]]
  ELSE End(p, "done")

(* The row is read once; a RUNNING job's owner is remembered.              *)
RecoverRead(p) ==
  /\ At(p, "recoverRead")
  /\ LET row     == job[JobOf(p)]
         running == row.status \in {"RUNNING", "RATE_LIMITED"}
     IN  proc' = [proc EXCEPT ![p] = [@ EXCEPT !.pc = "recoverJobLease", !.stale = running,
                                               !.seen = IF running THEN row.worker ELSE None]]
  /\ UNCHANGED rows

(* has_live_worker_lease, then has_live_account_lease_for_job.             *)
RecoverJobLease(p) ==
  /\ At(p, "recoverJobLease")
  /\ IF JobLive(JobOf(p)) THEN Recovered(p) ELSE Go(p, "recoverAccountLease")
  /\ UNCHANGED rows

RecoverAccountLease(p) ==
  /\ At(p, "recoverAccountLease")
  /\ IF AccountLiveFor(JobOf(p)) THEN Recovered(p)
     ELSE Go(p, IF proc[p].stale THEN "recoverRelease" ELSE "recoverItems")
  /\ UNCHANGED rows

RecoverRelease(p) ==
  /\ At(p, "recoverRelease")
  /\ IF proc[p].seen = None THEN account' = account
                            ELSE ReleaseAccount(proc[p].seen, JobOf(p))
  /\ proc' = [proc EXCEPT ![p] = [@ EXCEPT !.pc = "recoverClear", !.seen = None]]
  /\ UNCHANGED <<job, item>>

RecoverClear(p) ==
  /\ At(p, "recoverClear")
  /\ ClearWorkerOwnership(JobOf(p))
  /\ Go(p, "recoverPause")
  /\ UNCHANGED <<account, item>>

RecoverPause(p) ==
  /\ At(p, "recoverPause")
  /\ UpdateStatus(JobOf(p), "PAUSED")
  /\ Go(p, "recoverItems")
  /\ UNCHANGED <<account, item>>

RecoverItems(p) ==
  /\ At(p, "recoverItems")
  /\ RecoverInterrupted(JobOf(p))
  /\ Recovered(p)
  /\ UNCHANGED <<job, account>>

Recover(p) == RecoverRead(p) \/ RecoverJobLease(p) \/ RecoverAccountLease(p)
                \/ RecoverRelease(p) \/ RecoverClear(p) \/ RecoverPause(p)
                \/ RecoverItems(p)

(* recover_all_stale: list_running_without_worker selected j.              *)
Scan(m, j) ==
  /\ At(m, "new")
  /\ job[j].status \in {"RUNNING", "RATE_LIMITED"} /\ ~JobLive(j)
  /\ proc' = [proc EXCEPT ![m] = [@ EXCEPT !.pc = "recoverRead", !.job = j]]
  /\ UNCHANGED rows

-----------------------------------------------------------------------------
(* JobManager.run up to the connection.                                    *)

(* run() refuses a RUNNING job with a live lease, otherwise recovers.      *)
Run(w, j) ==
  /\ At(w, "new")
  /\ ~(job[j].status \in {"RUNNING", "RATE_LIMITED"} /\ job[j].lease > 0)
  /\ proc' = [proc EXCEPT ![w] = [@ EXCEPT !.pc = "recoverRead", !.job = j]]
  /\ UNCHANGED rows

(* The row is reloaded, the limiter reads its persisted block, a PAUSED    *)
(* job stops unless auto-resume is on (either setting), and claim_worker   *)
(* reads the clock and the owner.                                          *)
Policy(w) ==
  /\ At(w, "policy")
  /\ \/ /\ job[JobOf(w)].status = "PAUSED" \/ Refused(job[JobOf(w)], w)
        /\ End(w, "done")
     \/ /\ ~Refused(job[JobOf(w)], w)
        /\ \E b \in {0} \cup (IF "RATE_LIMITED" \in Answers THEN RetryDelays ELSE {}) :
             proc' = [proc EXCEPT ![w] = [@ EXCEPT !.pc = "claimJob", !.age = 0, !.blocked = b]]
  /\ UNCHANGED rows

ClaimJob(w) ==
  /\ At(w, "claimJob")
  /\ \/ /\ Takeable(job[JobOf(w)], proc[w].age)
        /\ ClaimWorker(w, JobOf(w), proc[w].age)
        /\ Go(w, "selectAccount")
     \/ /\ ~Takeable(job[JobOf(w)], proc[w].age)
        /\ End(w, "done")
        /\ job' = job
  /\ UNCHANGED <<account, item>>

SelectAccount(w) ==
  /\ At(w, "selectAccount")
  /\ IF Refused(account[AccountOf[JobOf(w)]], w)
     THEN Go(w, "rollback")
     ELSE proc' = [proc EXCEPT ![w] = [@ EXCEPT !.pc = "claimAccount", !.age = 0]]
  /\ UNCHANGED rows

ClaimAccountRow(w) ==
  /\ At(w, "claimAccount")
  /\ LET row == account[AccountOf[JobOf(w)]]
     IN  \/ /\ Takeable(row, proc[w].age)
            /\ ClaimAccount(w, JobOf(w), proc[w].age)
            /\ Go(w, "start")
         \/ /\ ~Takeable(row, proc[w].age)
            /\ Go(w, "rollback")
            /\ account' = account
  /\ UNCHANGED <<job, item>>

RollbackForgotten(w) ==   (* mutant of Rollback: the job claim is kept *)
  At(w, "rollback") /\ End(w, "done") /\ UNCHANGED rows

(* AccountBusyError: give the job claim back.                              *)
Rollback(w) ==
  /\ At(w, "rollback")
  /\ ReleaseWorker(w, JobOf(w))
  /\ End(w, "done")
  /\ UNCHANGED <<account, item>>

(* mark_started_if_owned; then the lease keeper runs.                      *)
Start(w) ==
  /\ At(w, "start")
  /\ \/ /\ OwnsJob(w, JobOf(w))
        /\ SettleStatus(JobOf(w), "RUNNING")
        /\ Go(w, "connect")
     \/ /\ ~OwnsJob(w, JobOf(w))
        /\ job' = job
        /\ Go(w, "releaseAccount")
  /\ UNCHANGED <<account, item>>

Connect(w) ==
  /\ At(w, "connect")
  /\ Go(w, "sleep")
  /\ UNCHANGED rows

ConnectFails(w) ==
  /\ "connect" \in Faults
  /\ At(w, "connect")
  /\ Go(w, "disconnect")
  /\ UNCHANGED rows

-----------------------------------------------------------------------------
(* Worker.process.                                                         *)

(* The top of the loop: stop if the manager cancelled, else read the       *)
(* persisted command.                                                      *)
Poll(w) ==
  /\ proc[w].pc \in {"sleep", "loop"}
  /\ IF proc[w].cancel THEN Settle(w, "lost")
     ELSE proc' = [proc EXCEPT ![w] = [@ EXCEPT !.command = job[JobOf(w)].cmd,
                                                !.pc = IF job[JobOf(w)].cmd = "NONE"
                                                THEN "gate" ELSE "clearCommand"]]
  /\ UNCHANGED rows

(* clear_requested_command is a statement of its own, then the command is  *)
(* obeyed.                                                                 *)
ClearCommand(w) ==
  /\ At(w, "clearCommand")
  /\ SetCommand(JobOf(w), "NONE")
  /\ IF proc[w].command = "PAUSE" THEN Go(w, "ackPause") ELSE Settle(w, "cancelled")
  /\ UNCHANGED <<account, item>>

AckPause(w) ==
  /\ At(w, "ackPause")
  /\ AcknowledgePause(w, JobOf(w))
  /\ Settle(w, "paused")
  /\ UNCHANGED <<account, item>>

(* The ownership gate, the in-memory rate block, then the next due item.   *)
Gate(w) ==
  /\ At(w, "gate")
  /\ \/ ~Owner(w) /\ LoseGate(w)
     \/ /\ Owner(w) /\ proc[w].blocked > 0
        /\ proc' = [proc EXCEPT ![w] = [@ EXCEPT !.pc = "sleep", !.rated = TRUE]]
     \/ /\ Owner(w) /\ proc[w].blocked = 0
        /\ \/ \E i \in Due(JobOf(w)) :
                /\ \A k \in Due(JobOf(w)) : i <= k
                /\ proc' = [proc EXCEPT ![w] = [@ EXCEPT !.pc = "acquire", !.rated = FALSE,
                                                         !.item = i,
                                                         !.attempt = item[i].attempts]]
           \/ /\ Due(JobOf(w)) = {} /\ Unfinished(JobOf(w)) # {}
              /\ proc' = [proc EXCEPT ![w] = [@ EXCEPT !.pc = "sleep", !.rated = FALSE]]
           \/ /\ Unfinished(JobOf(w)) = {}
              /\ proc' = [proc EXCEPT ![w] = [@ EXCEPT !.pc = "settle", !.rated = FALSE,
                                                       !.outcome = "drained"]]
  /\ UNCHANGED rows

(* rate.acquire() returned: ownership is asserted once more.               *)
Acquire(w) ==
  /\ At(w, "acquire")
  /\ \/ Owner(w) /\ Go(w, "mark")
     \/ ~Owner(w) /\ LoseGate(w)
  /\ UNCHANGED rows

(* mark_processing, guarded by the item row and the live job lease; the    *)
(* request leaves as soon as the claim is won.                             *)
ClaimableByAll(w, i) == Selectable(i)   (* mutant of Claimable: no lease guard *)

Claimable(w, i) == Selectable(i) /\ OwnsJob(w, JobOf(w))

Mark(w) ==
  /\ At(w, "mark")
  /\ LET i == proc[w].item
     IN  \/ /\ Claimable(w, i)
            /\ MarkProcessing(i)
            /\ proc' = [proc EXCEPT ![w] = [@ EXCEPT !.pc = "request", !.age = 0,
                                                     !.token = item[i].sent + 1]]
         \/ /\ ~Claimable(w, i)
            /\ item' = item
            /\ Go(w, "loop")
  /\ UNCHANGED <<job, account>>

(* The answer arrives while the lost event is unset; ownership is asserted *)
(* before the write.                                                       *)
Respond(w) ==
  /\ At(w, "request")
  /\ ~proc[w].lost
  /\ \/ /\ Owner(w)
        /\ \E r \in Answers :
             proc' = [proc EXCEPT ![w] = [@ EXCEPT !.pc = "save", !.answer = r]]
     \/ ~Owner(w) /\ LoseRequest(w)
  /\ UNCHANGED rows

(* The lost event fires first: the request is cancelled.                   *)
CancelRequest(w) ==
  /\ At(w, "request")
  /\ proc[w].lost
  /\ LoseRequest(w)
  /\ UNCHANGED rows

Quarantine(w) ==
  /\ At(w, "quarantine")
  /\ MarkInFlightUnknown(proc[w].item, proc[w].token)
  /\ Settle(w, "lost")
  /\ UNCHANGED <<job, account>>

(* _handle_response and schedule_retry, up to the guarded save_result.     *)
Written(w) ==
  /\ HoldsItem(proc[w].item, proc[w].token)
  /\ OwnsJob(w, JobOf(w))

ExhaustedLate(attempt) == attempt > MaxAttempts   (* mutant of Exhausted *)

Exhausted(attempt) == attempt >= MaxAttempts

(* The snapshot of the row, not the row.                                   *)
Attempt(w) == proc[w].attempt + 1

SaveAnswer(w, d) ==
  LET i == proc[w].item
  IN  IF proc[w].answer \in Terminal THEN SaveResult(i, proc[w].answer, Attempt(w), 0)
      ELSE IF Exhausted(Attempt(w)) THEN SaveResult(i, "PERMANENT_ERROR", Attempt(w), 0)
      ELSE SaveResult(i, "RETRY_REQUIRED", Attempt(w), d)

(* register_rate_limit precedes the write and stays when it is rejected.   *)
Save(w) ==
  /\ At(w, "save")
  /\ \E d \in RetryDelays :
       LET limited == proc[w].answer = "RATE_LIMITED"
       IN  /\ IF Written(w) THEN SaveAnswer(w, d) ELSE item' = item
           /\ proc' = [proc EXCEPT ![w] =
                [Dropped(w) EXCEPT !.pc      = IF Written(w) THEN "loop" ELSE "settle",
                                   !.outcome = IF Written(w) THEN "none" ELSE "lost",
                                   !.blocked = IF limited THEN d ELSE @,
                                   !.rated   = @ \/ limited]]
  /\ UNCHANGED <<job, account>>

(* A statement of the loop raises: the worker task dies of it.  When it is *)
(* acknowledge_pause, in the finally clause, done_callback is not called   *)
(* and the manager's status loop goes on without a worker.                 *)
LoopFault(w) ==
  /\ "db" \in Faults
  /\ proc[w].pc \in LoopPC
  /\ IF At(w, "ackPause") THEN Go(w, "hung") ELSE Settle(w, "failed")
  /\ UNCHANGED rows

-----------------------------------------------------------------------------
(* The manager's side: status loop, finalisation and cleanup.              *)

(* Every two seconds the status is rewritten while the lease is owned and  *)
(* no pause is pending; a refused write is a LostOwnershipError.           *)
Refresh(w) ==
  /\ Processing(w) /\ ~proc[w].cancel
  /\ job[JobOf(w)].cmd # "PAUSE"
  /\ \/ /\ OwnsJob(w, JobOf(w))
        /\ UpdateStatus(JobOf(w), IF proc[w].rated THEN "RATE_LIMITED" ELSE "RUNNING")
        /\ proc' = proc
     \/ /\ ~OwnsJob(w, JobOf(w)) /\ ~At(w, "hung")
        /\ proc' = [proc EXCEPT ![w].cancel = TRUE]
        /\ job' = job
  /\ UNCHANGED <<account, item>>

(* The refused write when there is no worker task left to wait for.        *)
Abandon(w) ==
  /\ At(w, "hung")
  /\ job[JobOf(w)].cmd # "PAUSE"
  /\ ~OwnsJob(w, JobOf(w))
  /\ Settle(w, "lost")
  /\ UNCHANGED rows

(* What run() writes once the worker task is over.  has_unfinished_items   *)
(* and mark_finished_if_owned are two statements.                          *)
SettleJob(w) ==
  LET j == JobOf(w)
      how == proc[w].outcome
  IN  /\ At(w, "settle")
      /\ \/ /\ CASE proc[w].cancel \/ how = "lost" -> job' = job
                [] how = "failed"    -> UpdateStatusIfOwned(w, j, "FAILED")
                [] how = "shutdown"  -> UpdateStatusIfOwned(w, j, "PAUSED")
                [] how = "cancelled" -> IF OwnsJob(w, j) THEN SettleStatus(j, "CANCELLED")
                                                         ELSE job' = job
                [] proc[w].rated     -> UpdateStatusIfOwned(w, j, "RATE_LIMITED")
                [] OTHER             -> Unfinished(j) # {} /\ UpdateStatusIfOwned(w, j, "PAUSED")
            /\ Go(w, "disconnect")
         \/ /\ ~proc[w].cancel /\ how \in {"drained", "paused"} /\ ~proc[w].rated
            /\ Unfinished(j) = {}
            /\ job' = job
            /\ Go(w, "finish")
      /\ UNCHANGED <<account, item>>

FinishJob(w) ==
  /\ At(w, "finish")
  /\ UpdateStatusIfOwned(w, JobOf(w), "COMPLETED")
  /\ Go(w, "disconnect")
  /\ UNCHANGED <<account, item>>

(* telegram.disconnect(), whose errors are collected; then the keeper      *)
(* stops.                                                                  *)
Disconnect(w) ==
  /\ At(w, "disconnect")
  /\ Go(w, "releaseAccount")
  /\ UNCHANGED rows

ReleaseAccountRow(w) ==
  /\ At(w, "releaseAccount")
  /\ ReleaseAccount(w, JobOf(w))
  /\ Go(w, "releaseJob")
  /\ UNCHANGED <<job, item>>

ReleaseJob(w) ==
  /\ At(w, "releaseJob")
  /\ ReleaseWorker(w, JobOf(w))
  /\ End(w, "done")
  /\ UNCHANGED <<account, item>>

(* CancelledError at an await: the request is dropped with its item still  *)
(* PROCESSING.                                                             *)
Shutdown(w) ==
  /\ "shutdown" \in Faults
  /\ \/ At(w, "connect") /\ Go(w, "disconnect")
     \/ (Processing(w) \/ At(w, "settle")) /\ Settle(w, "shutdown")
  /\ UNCHANGED rows

(* The process dies; the rows keep what it wrote.                          *)
Crash(w) ==
  /\ "crash" \in Faults
  /\ proc[w].pc \notin {"new", "done", "dead"}
  /\ End(w, "dead")
  /\ UNCHANGED rows

-----------------------------------------------------------------------------
(* LeaseKeeper: one turn of the heartbeat loop.                            *)

(* `fault' names the renewal that fails; renew_account is not tried after  *)
(* renew_worker raised, and is tried after it was refused.  An account     *)
(* lease in its last second may run out between the two statements.        *)
RenewFaults(j) == (IF "db" \in Faults THEN {"job", "account"} ELSE {})
                    \cup (IF account[AccountOf[j]].lease = 1 THEN {"account"} ELSE {})

Heartbeat(w) ==
  /\ Suspended(w) /\ ~proc[w].lost
  /\ \E fault \in {"none"} \cup RenewFaults(JobOf(w)) :
       LET j         == JobOf(w)
           jobOk     == fault # "job" /\ Renewable(w, j)
           accountOk == fault = "none" /\ OwnsAccount(w, j)
           fails     == IF jobOk /\ accountOk THEN 0 ELSE proc[w].fails + 1
       IN  /\ IF jobOk THEN RenewWorker(j) ELSE job' = job
           /\ IF accountOk THEN RenewAccount(j) ELSE account' = account
           /\ proc' = [proc EXCEPT ![w] = [@ EXCEPT !.fails = fails,
                                                    !.lost = fails >= RenewFailureLimit]]
  /\ item' = item

-----------------------------------------------------------------------------
(* JobController.pause and resume, JobRunner.cancel.                       *)

OperatorRead(o, j) ==
  /\ At(o, "new")
  /\ job[j].status # "COMPLETED"
  /\ \E next \in OperatorPC :
       /\ \/ /\ "pause" \in Commands
             /\ next = IF job[j].status \in {"RUNNING", "RATE_LIMITED"}
                       THEN "setPause" ELSE "forcePause"
          \/ "resume" \in Commands /\ next = "resumeCheck"
          \/ "cancel" \in Commands /\ job[j].status # "CANCELLED" /\ next = "setCancel"
       /\ proc' = [proc EXCEPT ![o] = [@ EXCEPT !.pc = next, !.job = j]]
  /\ UNCHANGED rows

SetPause(o) ==
  /\ At(o, "setPause")
  /\ SetCommand(JobOf(o), "PAUSE")
  /\ End(o, "done")
  /\ UNCHANGED <<account, item>>

ForcePause(o) ==
  /\ At(o, "forcePause")
  /\ UpdateStatus(JobOf(o), "PAUSED")
  /\ End(o, "done")
  /\ UNCHANGED <<account, item>>

ResumeCheck(o) ==
  /\ At(o, "resumeCheck")
  /\ IF JobLive(JobOf(o)) THEN End(o, "done") ELSE Go(o, "resumeClear")
  /\ UNCHANGED rows

ResumeClear(o) ==
  /\ At(o, "resumeClear")
  /\ SetCommand(JobOf(o), "NONE")
  /\ Go(o, "resumeStart")
  /\ UNCHANGED <<account, item>>

ResumeStart(o) ==
  /\ At(o, "resumeStart")
  /\ SettleStatus(JobOf(o), "RUNNING")
  /\ End(o, "done")
  /\ UNCHANGED <<account, item>>

SetCancel(o) ==
  /\ At(o, "setCancel")
  /\ SetCommand(JobOf(o), "CANCEL")
  /\ Go(o, "cancelCheck")
  /\ UNCHANGED <<account, item>>

(* A task of this process or a live lease: the command is left to it.      *)
Active(j) == \E w \in Workers : JobOf(w) = j /\ proc[w].pc \notin {"new", "done", "dead"}

CancelCheck(o) ==
  /\ At(o, "cancelCheck")
  /\ \/ (JobLive(JobOf(o)) \/ Active(JobOf(o))) /\ End(o, "done")
     \/ ~JobLive(JobOf(o)) /\ Go(o, "cancelMark")
  /\ UNCHANGED rows

CancelMarkUnguarded(o) ==   (* mutant of CancelMark: no lease guard *)
  /\ At(o, "cancelMark")
  /\ SettleStatus(JobOf(o), "CANCELLED")
  /\ End(o, "done")
  /\ UNCHANGED <<account, item>>

CancelMark(o) ==
  /\ At(o, "cancelMark")
  /\ IF Takeable(job[JobOf(o)], 0) THEN SettleStatus(JobOf(o), "CANCELLED")
                                   ELSE job' = job
  /\ End(o, "done")
  /\ UNCHANGED <<account, item>>

Operate(o) == SetPause(o) \/ ForcePause(o) \/ ResumeCheck(o) \/ ResumeClear(o)
                \/ ResumeStart(o) \/ SetCancel(o) \/ CancelCheck(o) \/ CancelMark(o)

-----------------------------------------------------------------------------
Aging(p) == proc[p].pc \in {"claimJob", "claimAccount", "request"}

Tick ==
  /\ \A w \in Workers : proc[w].pc \in {"claimJob", "claimAccount"}
                          => proc[w].age < MaxStall
  /\ StoreTick
  /\ proc' = [p \in Processes |->
                [proc[p] EXCEPT !.age = IF Aging(p) /\ @ < Horizon THEN @ + 1 ELSE @,
                                !.blocked = Elapse(@, 0)]]

Claim(w) == Policy(w) \/ ClaimJob(w) \/ SelectAccount(w) \/ ClaimAccountRow(w)
              \/ Rollback(w) \/ Start(w) \/ Connect(w)
Process(w) == Poll(w) \/ ClearCommand(w) \/ AckPause(w) \/ Gate(w) \/ Acquire(w)
                \/ Mark(w) \/ Respond(w) \/ CancelRequest(w) \/ Quarantine(w) \/ Save(w)
                \/ Abandon(w)
Cleanup(w) == SettleJob(w) \/ FinishJob(w) \/ Disconnect(w) \/ ReleaseAccountRow(w) \/ ReleaseJob(w)
Fault(w) == ConnectFails(w) \/ LoopFault(w) \/ Shutdown(w) \/ Crash(w)

(* What a worker does once started, faults and heartbeats aside.           *)
Progress(w) == Recover(w) \/ Claim(w) \/ Process(w) \/ Cleanup(w)

Next ==
  \/ \E w \in Workers : \/ \E j \in Jobs : Run(w, j)
                        \/ Progress(w) \/ Refresh(w) \/ Heartbeat(w) \/ Fault(w)
  \/ \E m \in Monitors : Recover(m) \/ \E j \in Jobs : Scan(m, j)
  \/ \E o \in Operators : Operate(o) \/ \E j \in Jobs : OperatorRead(o, j)
  \/ Tick

Spec == Init /\ [][Next]_vars

(* The event loop runs every ready task, Telegram answers or times out, an *)
(* operator's and a monitor's call returns, and time passes.               *)
Fairness ==
  /\ \A w \in Workers : WF_vars(Progress(w))
  /\ \A m \in Monitors : WF_vars(Recover(m))
  /\ \A o \in Operators : WF_vars(Operate(o))
  /\ WF_vars(Tick)

FairSpec == Spec /\ Fairness
=============================================================================
