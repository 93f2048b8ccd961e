--------------------------- MODULE RuntimeSafety ----------------------------
(***************************************************************************)
(* What the runtime promises, as properties of Runtime's behaviours; then  *)
(* what its documentation and comments say and the code does not do.       *)
(***************************************************************************)
EXTENDS Runtime

(* Pcs while the Telegram client may be connected, those between a won job *)
(* claim and the end of the run, and those while an item is in hand.       *)
ConnectedPC == LoopPC \cup {"connect", "hung", "settle", "finish", "disconnect"}
ClaimedPC   == ConnectedPC \cup {"selectAccount", "claimAccount", "rollback",
                                 "start", "releaseAccount", "releaseJob"}
SentPC      == {"request", "save", "quarantine"}

Over(w)    == proc[w].pc \in {"done", "dead"}
Sends(w, i) == proc[w].pc \in SentPC /\ proc[w].item = i

-----------------------------------------------------------------------------
(* The items.                                                              *)

(* A number with a settled answer is never written or sent again           *)
(* (CheckpointManager: terminal statuses are never re-processed), by a     *)
(* late answer, by a recovery or by a successor.                           *)
TerminalStays ==
  [][\A i \in Items : item[i].status \in Terminal => item'[i] = item[i]]_vars

(* A number is given up after max_attempts answers, and not later          *)
(* (RetryQueue.schedule_retry), whichever workers received them.           *)
AttemptsBounded ==
  \A i \in Items :
    /\ item[i].attempts <= MaxAttempts
    /\ item[i].status \notin Terminal => item[i].attempts < MaxAttempts

(* Refinement: every request is answered once or recorded as lost before   *)
(* the next one for its number leaves, although attempt_count is written   *)
(* from a snapshot read before two awaits, and although recovery and the   *)
(* worker that lost its lease both write the row.  `sent' less the answers *)
(* and the request in flight is what was lost.                             *)
Phase(i) == CASE item[i].status \in {"PENDING", "RETRY_REQUIRED"} -> "waiting"
              [] item[i].status = "PROCESSING"                    -> "sent"
              [] item[i].status = "IN_FLIGHT_UNKNOWN"             -> "unknown"
              [] OTHER                                            -> item[i].status

LostRequests(i) ==
  item[i].sent - item[i].attempts - (IF item[i].status = "PROCESSING" THEN 1 ELSE 0)

Ledger == INSTANCE ItemLedger
            WITH Settled  <- Terminal,
                 phase    <- [i \in Items |-> Phase(i)],
                 answered <- [i \in Items |-> item[i].attempts],
                 lost     <- [i \in Items |-> LostRequests(i)]

LedgerSpec == Ledger!Spec

(* Two requests for one number are on the wire together only if the older  *)
(* has been out for the whole in-flight recovery grace (README: a          *)
(* PROCESSING item of a dead owner is never immediately retried).          *)
OverlapNeedsGrace ==
  \A v, w \in Workers :
    /\ At(v, "request") /\ At(w, "request")
    /\ proc[v].item = proc[w].item
    /\ proc[v].token < proc[w].token
    => proc[v].age >= RecoveryGrace

(* A job is COMPLETED only when every number has its answer, although the  *)
(* count and the status write are separate statements and a dead worker's  *)
(* number may come back (README: 100% of its numbers are terminal).        *)
CompletedIsSettled ==
  \A j \in Jobs : job[j].status = "COMPLETED" =>
    \A i \in Items : JobOfItem[i] = j => item[i].status \in Terminal

(* The inductive invariant behind the item properties.  A process past     *)
(* `new' has a job and a worker with an item in hand has one of that job;  *)
(* a PROCESSING row carries the newest token, and each claim has its own;  *)
(* a worker that still owns the job, or still holds the row's token, has   *)
(* the row's attempt count in hand, so the count it writes is the next.    *)
WellFormed ==
  /\ \A p \in Processes : ~At(p, "new") => JobOf(p) \in Jobs
  /\ \A w \in Workers : proc[w].pc \in {"acquire", "mark"} \cup SentPC =>
       proc[w].item \in Items /\ JobOfItem[proc[w].item] = JobOf(w)
  /\ \A w \in Workers : ~proc[w].lost => proc[w].fails < RenewFailureLimit

Tokens ==
  /\ \A i \in Items : item[i].token = IF item[i].status = "PROCESSING"
                                      THEN item[i].sent ELSE 0
  /\ \A w \in Workers : proc[w].pc \in SentPC =>
       proc[w].token \in 1 .. item[proc[w].item].sent
  /\ \A v, w \in Workers :
       /\ v # w /\ proc[v].pc \in SentPC /\ proc[w].pc \in SentPC
       /\ proc[v].item = proc[w].item
       => proc[v].token # proc[w].token

Snapshot ==
  \A w \in Workers :
    \/ proc[w].pc \in {"acquire", "mark"} /\ OwnsJob(w, JobOf(w))
    \/ proc[w].pc \in SentPC /\ HoldsItem(proc[w].item, proc[w].token)
    => item[proc[w].item].attempts = proc[w].attempt

Fencing == TypeOK /\ WellFormed /\ Tokens /\ Snapshot /\ AttemptsBounded

-----------------------------------------------------------------------------
(* The leases.                                                             *)

(* A worker whose lease ran out or was taken never owns the job again: no  *)
(* late heartbeat revives an expired lease (renew_worker, P0-09), so one   *)
(* failed ownership check is enough to stop for good.                      *)
LostForGood ==
  [][\A w \in Workers :
       proc[w].pc \in ClaimedPC /\ ~OwnsJob(w, JobOf(w))
         => ~OwnsJob(w, JobOf(w))']_vars

(* A run that is over without a crash holds no lease, however it ended: a  *)
(* lost claim, a failed connection, a database error, a cancellation       *)
(* (JobManager.run, P0-14: no orphan lease).                               *)
NoOrphanLease ==
  \A w \in Workers : At(w, "done") =>
    /\ \A j \in Jobs : job[j].worker # w
    /\ \A a \in Accounts : account[a].worker # w

(* Nobody takes a live account lease from a worker whose Telegram client   *)
(* is connected: not the worker of another job on the account, not a       *)
(* recovery that saw the job lease expired.                                *)
AccountHeldWhileConnected ==
  [][\A w \in Workers :
       proc[w].pc \in ConnectedPC /\ OwnsAccount(w, JobOf(w))
         => account'[AccountOf[JobOf(w)]].worker = w]_vars

(* A job lease changes hands only once it and the takeover grace are over, *)
(* although the grace is tested before the UPDATE and not by it.           *)
TakeoverWaits ==
  [][\A j \in Jobs :
       job[j].worker # None /\ job'[j].worker \notin {None, job[j].worker}
         => job[j].lease + TakeoverGrace <= 0]_vars

(* A job that is over has no live owner at work on a number: a cancel that *)
(* found no lease does not overtake the worker that claimed since          *)
(* (JobRunner.cancel, mark_cancelled_if_unowned).                          *)
OverIsIdle ==
  \A w \in Workers : \A j \in Jobs :
    /\ JobOf(w) = j /\ OwnsJob(w, j)
    /\ job[j].status \in {"COMPLETED", "CANCELLED", "FAILED"}
    => proc[w].pc \notin {"acquire", "mark"} \cup SentPC

-----------------------------------------------------------------------------
(* Progress.                                                               *)

(* A PROCESSING item whose claim no worker holds any more.                 *)
Orphaned(j) ==
  \E i \in Items : /\ JobOfItem[i] = j /\ item[i].status = "PROCESSING"
                   /\ \A w \in Workers : Sends(w, i) => proc[w].token # item[i].token

(* A run that starts ends: retries come due, quarantined numbers come      *)
(* back, a lost lease is noticed.  The exception is a number orphaned      *)
(* after the run's own recovery, see RunsEnd.                              *)
RunsEndUnlessOrphaned ==
  \A w \in Workers : At(w, "policy") ~> (Over(w) \/ []Orphaned(JobOf(w)))

-----------------------------------------------------------------------------
(* What the documentation or a comment says, and the code does not do.     *)

(* README 342: a PROCESSING item left by a dead owner is first quarantined *)
(* as IN_FLIGHT_UNKNOWN; the run that takes over can then settle it.       *)
RunsEnd == \A w \in Workers : At(w, "policy") ~> Over(w)

(* JobManager.recover (P0-06): if any live worker holds a lease on the     *)
(* job, its ownership is not cleared.                                      *)
JobHeldWhileConnected ==
  [][\A w \in Workers :
       proc[w].pc \in ConnectedPC /\ OwnsJob(w, JobOf(w))
         => job'[JobOf(w)].worker = w]_vars

(* JobRunner.cancel: the intent is persisted so that the owning worker     *)
(* stops; only a worker that obeys it, or CANCELLED itself, removes it.    *)
CancelReachesWorker ==
  [][\A j \in Jobs :
       job[j].cmd = "CANCEL" /\ job'[j].cmd = "NONE"
         => \/ job'[j].status = "CANCELLED"
            \/ \E w \in Workers : JobOf(w) = j /\ proc[w].command = "CANCEL"]_vars

(* README 307: after `job resume', `check --job-id' continues the work, so *)
(* a run does not pause a job that no earlier run left behind.             *)
ResumedIsNotPaused ==
  [][\A w \in Workers :
       At(w, "recoverPause") /\ (\A v \in Workers \ {w} : At(v, "new"))
         => job'[JobOf(w)].status = job[JobOf(w)].status]_vars
=============================================================================
