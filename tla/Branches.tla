------------------------------ MODULE Branches ------------------------------
(***************************************************************************)
(* webapi/runner.py: the tasks of the web server that run jobs, for one    *)
(* multi-account parent and its branches, and the job routes that start,   *)
(* pause, resume, cancel and delete them (webapi/routers/jobs.py).  What a *)
(* run does between its claim and its end is module Runtime's; here it is  *)
(* a lease and the status it leaves.  Another process may run a branch as  *)
(* well, and the server may crash.  RATE_LIMITED is written as RUNNING:    *)
(* every statement here treats the two alike.                              *)
(*                                                                         *)
(* The table of tasks is written without an await between check and write, *)
(* and a task leaves it in the step in which it ends, because the lock of  *)
(* the hub it publishes to is never contended (module EventHub).           *)
(***************************************************************************)
EXTENDS Naturals

CONSTANTS
  Parent,     (* the job whose job_mode is MULTI_PARENT                    *)
  Branch,     (* its branches                                              *)
  Tasks,      (* asyncio tasks; one that has ended is used again           *)
  Elsewhere,  (* a run in another process                                  *)
  Gone,       (* a run whose process died                                  *)
  NoTask      (* no task, no owner                                         *)

ASSUME BranchesAssumption ==
  /\ Parent \notin Branch
  /\ Elsewhere \notin Tasks /\ Gone \notin Tasks \cup {Elsewhere}
  /\ NoTask \notin Tasks \cup {Elsewhere, Gone}
  /\ NoTask \notin Branch \cup {Parent}

VARIABLES
  row,        (* jobs: status, requested_command, live lease; existence    *)
  table,      (* JobRunner._tasks                                          *)
  task,       (* every task                                                *)
  serving     (* whether the server is up                                  *)

branchVars == <<row, table, task, serving>>

RunnerJobs == Branch \cup {Parent}
Settled    == {"COMPLETED", "CANCELLED"}
RowStatus  == Settled \cup {"CREATED", "RUNNING", "PAUSED", "FAILED"}

BranchesTypeOK ==
  /\ row \in [RunnerJobs -> [exists : BOOLEAN, status : RowStatus,
                             cmd : {"NONE", "PAUSE", "CANCEL"},
                             owner : Tasks \cup {Elsewhere, Gone, NoTask}]]
  /\ table \in [RunnerJobs -> Tasks \cup {NoTask}]
  /\ task \in [Tasks -> [job : RunnerJobs \cup {NoTask}, resume : BOOLEAN,
                         pc : {"none", "created", "running", "leaving", "gather"},
                         gathers : SUBSET Tasks]]
  /\ serving \in BOOLEAN

Unused == [job |-> NoTask, resume |-> FALSE, pc |-> "none", gathers |-> {}]

BranchesInit ==
  /\ row = [j \in RunnerJobs |-> [exists |-> TRUE, status |-> "CREATED", cmd |-> "NONE",
                                  owner |-> NoTask]]
  /\ table = [j \in RunnerJobs |-> NoTask]
  /\ task = [t \in Tasks |-> Unused]
  /\ serving = TRUE

-----------------------------------------------------------------------------
IsActive(j)   == table[j] # NoTask            (* ended tasks are not listed *)
Children      == {b \in Branch : row[b].exists}
Targets(j)    == IF j = Parent THEN Children ELSE {j}
Found(j)      == serving /\ row[j].exists

Created(j, resume) == [job |-> j, resume |-> resume, pc |-> "created", gathers |-> {}]

(* A task ends: it is popped, and the lease it still has is released.      *)
Ended(t)      == [u \in Tasks |-> IF u = t THEN Unused
                                 ELSE [task[u] EXCEPT !.gathers = @ \ {t}]]
Popped(j)     == [table EXCEPT ![j] = NoTask]

-----------------------------------------------------------------------------
(* The routes.                                                             *)

StartJob(j, t) ==
  /\ Found(j) /\ ~IsActive(j) /\ task[t] = Unused
  /\ task' = [task EXCEPT ![t] = Created(j, FALSE)]
  /\ table' = [table EXCEPT ![j] = t]
  /\ UNCHANGED <<row, serving>>

(* JobController.pause of every target that is not settled: a live one is  *)
(* asked, another one is paused.                                           *)
PauseJob(j) ==
  /\ Found(j)
  /\ row' = [b \in RunnerJobs |->
       IF b \notin Targets(j) \/ row[b].status \in Settled THEN row[b]
       ELSE IF row[b].status = "RUNNING" THEN [row[b] EXCEPT !.cmd = "PAUSE"]
       ELSE [row[b] EXCEPT !.status = "PAUSED", !.cmd = "NONE"]]
  /\ UNCHANGED <<table, task, serving>>

(* resume marks the paused targets RUNNING and then starts the job.  The   *)
(* marks stay when the start is refused because its task is still active.  *)
(* A paused target with a live lease refuses the whole request; the        *)
(* targets before it stay marked.                                          *)
ResumeJob(j, t) ==
  /\ Found(j) /\ task[t] = Unused
  /\ LET paused == {b \in Targets(j) : row[b].status = "PAUSED"}
         busy   == {b \in paused : row[b].owner # NoTask}
     IN  \E marked \in SUBSET (paused \ busy) :
           /\ busy = {} => marked = paused
           /\ row' = [b \in RunnerJobs |->
                IF b \in marked THEN [row[b] EXCEPT !.status = "RUNNING", !.cmd = "NONE"]
                                ELSE row[b]]
           /\ IF busy = {} /\ ~IsActive(j)
              THEN /\ task' = [task EXCEPT ![t] = Created(j, TRUE)]
                   /\ table' = [table EXCEPT ![j] = t]
              ELSE UNCHANGED <<table, task>>
  /\ UNCHANGED serving

(* A branch with a task or a lease is asked to stop, another is cancelled. *)
(* The CANCEL in the parent's own row is left out: nothing reads it.       *)
CancelTheJob(j) ==
  /\ Found(j) /\ row[j].status \notin Settled
  /\ row' = [b \in RunnerJobs |->
       IF b \notin Targets(j) \/ row[b].status \in Settled THEN row[b]
       ELSE IF IsActive(b) \/ row[b].owner # NoTask THEN [row[b] EXCEPT !.cmd = "CANCEL"]
       ELSE [row[b] EXCEPT !.status = "CANCELLED", !.cmd = "NONE"]]
  /\ UNCHANGED <<table, task, serving>>

InUseForDelete(ids) == \E b \in ids : IsActive(b) \/ row[b].owner # NoTask

DeleteJobUnchecked(j) ==   (* mutant of DeleteJob: only the job named is checked *)
  /\ Found(j) /\ ~InUseForDelete({j})
  /\ row' = [b \in RunnerJobs |-> IF b \in Targets(j) \cup {j}
                                  THEN [row[b] EXCEPT !.exists = FALSE] ELSE row[b]]
  /\ UNCHANGED <<table, task, serving>>

DeleteJob(j) ==
  /\ Found(j) /\ ~InUseForDelete(Targets(j) \cup {j})
  /\ row' = [b \in RunnerJobs |-> IF b \in Targets(j) \cup {j}
                                  THEN [row[b] EXCEPT !.exists = FALSE] ELSE row[b]]
  /\ UNCHANGED <<table, task, serving>>

-----------------------------------------------------------------------------
(* _run_job.  JobManager.run up to its claim does not suspend.             *)

Begins(t) == task[t].pc = "created" /\ task[t].job \in Branch

Recovered(r) == IF r.status = "RUNNING" /\ r.owner = NoTask
                THEN [r EXCEPT !.status = "PAUSED"] ELSE r

RunRefused(t) ==             (* busy, paused, or the account is not free    *)
  /\ Begins(t)
  /\ row' = [row EXCEPT ![task[t].job] = Recovered(@)]
  /\ task' = Ended(t) /\ table' = Popped(task[t].job)
  /\ UNCHANGED serving

RunClaims(t) ==
  /\ Begins(t)
  /\ LET j == task[t].job
         r == Recovered(row[j])
     IN  /\ r.exists /\ r.owner = NoTask
         /\ r.status = "PAUSED" => task[t].resume
         /\ row' = [row EXCEPT ![j] = [r EXCEPT !.status = "RUNNING", !.cmd = "NONE",
                                                !.owner = t]]
  /\ task' = [task EXCEPT ![t].pc = "running", ![t].resume = FALSE]
  /\ UNCHANGED <<table, serving>>

(* What a run can leave behind: an acknowledged pause gives the lease back *)
(* while the task is still disconnecting, every other end keeps it.        *)
Ends(r, s) ==
  /\ s = "CANCELLED" => r.cmd = "CANCEL"
  /\ s \in {"PAUSED", "CANCELLED", "COMPLETED", "FAILED", "RUNNING"}

RunEnds(t, s) ==
  /\ task[t].pc = "running" /\ Ends(row[task[t].job], s)
  /\ LET j == task[t].job
         c == row[j].cmd
     IN  row' = [row EXCEPT ![j] =
           IF c = "PAUSE" /\ s = "PAUSED"
           THEN [@ EXCEPT !.status = s, !.cmd = "NONE", !.owner = NoTask]
           ELSE [@ EXCEPT !.status = s, !.cmd = IF s = "CANCELLED" THEN "NONE" ELSE c]]
  /\ task' = [task EXCEPT ![t].pc = "leaving"]
  /\ UNCHANGED <<table, serving>>

RunLeaves(t) ==
  /\ task[t].pc = "leaving"
  /\ row' = [row EXCEPT ![task[t].job].owner = IF @ = t THEN NoTask ELSE @]
  /\ task' = Ended(t) /\ table' = Popped(task[t].job)
  /\ UNCHANGED serving

(* A run of a branch in another process.                                   *)
ElsewhereClaims(j) ==
  /\ row[j].exists /\ row[j].owner = NoTask /\ row[j].status \notin Settled
  /\ row' = [row EXCEPT ![j] = [@ EXCEPT !.status = "RUNNING", !.cmd = "NONE",
                                         !.owner = Elsewhere]]
  /\ UNCHANGED <<table, task, serving>>

ElsewhereEnds(j, s) ==
  /\ row[j].owner = Elsewhere /\ Ends(row[j], s)
  /\ row' = [row EXCEPT ![j] = [@ EXCEPT !.status = s, !.cmd = "NONE", !.owner = NoTask]]
  /\ UNCHANGED <<table, task, serving>>

-----------------------------------------------------------------------------
(* _run_multi_parent.                                                      *)

Runnable == {b \in Children : row[b].status \notin Settled}

AllRunnable == Runnable      (* mutant of ToStart: running branches too     *)
ToStart     == {b \in Runnable : ~IsActive(b)}

(* New tasks for the branches that have none; the parent's own steps       *)
(* follow at once when there is nothing to wait for.                       *)
ParentBegins(t) ==
  /\ task[t].pc = "created" /\ task[t].job = Parent
  /\ \E started \in [ToStart -> {u \in Tasks : task[u] = Unused}] :
       /\ \A b, c \in ToStart : started[b] = started[c] => b = c
       /\ task' = [u \in Tasks |->
            IF u = t THEN [task[t] EXCEPT !.pc = "gather", !.resume = FALSE,
                                          !.gathers = {started[b] : b \in ToStart}]
            ELSE IF \E b \in ToStart : started[b] = u
            THEN Created(CHOOSE b \in ToStart : started[b] = u, task[t].resume)
            ELSE task[u]]
       /\ table' = [j \in RunnerJobs |-> IF j \in ToStart THEN started[j] ELSE table[j]]
  /\ UNCHANGED <<row, serving>>

AnyAndAll(states, s) ==      (* mutant of All: the wrong quantifier         *)
  \E b \in Children : row[b].status = s

All(states, s) == states = {s}

(* Nothing fits a mixture of COMPLETED and CANCELLED, or of live ones.     *)
ParentStatus(states) ==
  CASE All(states, "COMPLETED") -> "COMPLETED"
    [] ~All(states, "COMPLETED") /\ All(states, "CANCELLED") -> "CANCELLED"
    [] OTHER -> IF "PAUSED" \in states THEN "PAUSED"
                ELSE IF "FAILED" \in states THEN "FAILED" ELSE row[Parent].status

ParentEnds(t) ==
  /\ task[t].pc = "gather"
  /\ task[t].gathers = {}
  /\ LET s == ParentStatus({row[b].status : b \in Children})
     IN  row' = [row EXCEPT ![Parent].status = s]
  /\ task' = Ended(t) /\ table' = Popped(Parent)
  /\ UNCHANGED serving

-----------------------------------------------------------------------------
(* shutdown() cancels every task: a run that has its lease is PAUSED.      *)
Shutdown ==
  /\ serving /\ serving' = FALSE
  /\ row' = [j \in RunnerJobs |->
       IF row[j].owner \notin Tasks THEN row[j]
       ELSE [row[j] EXCEPT !.owner = NoTask,
                           !.status = IF task[row[j].owner].pc = "running" THEN "PAUSED"
                                      ELSE @]]
  /\ task' = [t \in Tasks |-> Unused]
  /\ table' = [j \in RunnerJobs |-> NoTask]

Crash ==
  /\ serving /\ serving' = FALSE
  /\ task' = [t \in Tasks |-> Unused]
  /\ table' = [j \in RunnerJobs |-> NoTask]
  /\ row' = [j \in RunnerJobs |-> IF row[j].owner \notin Tasks THEN row[j]
                                  ELSE [row[j] EXCEPT !.owner = Gone]]

LeaseExpires(j) ==           (* of a run that died with its process         *)
  /\ row[j].owner = Gone
  /\ row' = [row EXCEPT ![j].owner = NoTask]
  /\ UNCHANGED <<table, task, serving>>

StartMonitor ==              (* recover_all_stale                           *)
  /\ ~serving /\ serving' = TRUE
  /\ row' = [j \in RunnerJobs |-> IF row[j].exists THEN Recovered(row[j]) ELSE row[j]]
  /\ UNCHANGED <<table, task>>

BranchesNext ==
  \/ Shutdown \/ Crash \/ StartMonitor
  \/ \E j \in RunnerJobs :
       \/ PauseJob(j) \/ CancelTheJob(j) \/ DeleteJob(j) \/ LeaseExpires(j)
       \/ \E t \in Tasks : StartJob(j, t) \/ ResumeJob(j, t)
  \/ \E j \in Branch : ElsewhereClaims(j) \/ \E s \in RowStatus : ElsewhereEnds(j, s)
  \/ \E t \in Tasks :
       \/ RunRefused(t) \/ RunClaims(t) \/ RunLeaves(t) \/ ParentBegins(t) \/ ParentEnds(t)
       \/ \E s \in RowStatus : RunEnds(t, s)

BranchesSpec == BranchesInit /\ [][BranchesNext]_branchVars

-----------------------------------------------------------------------------
(* The table is the truth: a task that has not ended is the entry of its   *)
(* job, so that a job never has two tasks, whoever started them (the job   *)
(* itself, its parent, a resume), and shutdown() reaches every task.       *)
TasksTracked ==
  \A t \in Tasks : task[t] # Unused => table[task[t].job] = t

(* No row is deleted under a task or a live run: not under a branch whose  *)
(* parent is deleted, nor under a parent that still gathers, nor under a   *)
(* run in another process.                                                 *)
NoRunWithoutJob ==
  /\ \A t \in Tasks : task[t] # Unused => row[task[t].job].exists
  /\ \A j \in RunnerJobs : row[j].owner # NoTask => row[j].exists

(* A parent becomes COMPLETED only when it has branches, all of them are,  *)
(* and no run it started is left, although branches are deleted, paused    *)
(* and run by others while it waits.                                       *)
ParentCompletesLast ==
  [][row'[Parent].status = "COMPLETED" /\ row[Parent].status # "COMPLETED"
       => /\ \E b \in Branch : row[b].exists
          /\ \A b \in Branch : row[b].exists => row[b].status = "COMPLETED"
          /\ task[table[Parent]].gathers = {}
    ]_branchVars
=============================================================================
