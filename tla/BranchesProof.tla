---------------------------- MODULE BranchesProof ----------------------------
(***************************************************************************)
(* Proofs about module Branches: the table of tasks is complete, no run    *)
(* loses its job's row, and a parent is completed last.                    *)
(*                                                                         *)
(* The inductive invariant relates the three tables: tasks and entries of  *)
(* the table name each other, an owner that is a task runs the job it      *)
(* owns, and rows that anybody uses exist.                                 *)
(***************************************************************************)
EXTENDS Branches, TLAPS

JobRow == [exists : BOOLEAN, status : RowStatus, cmd : {"NONE", "PAUSE", "CANCEL"},
           owner : Tasks \cup {Elsewhere, Gone, NoTask}]

TaskRow == [job : RunnerJobs \cup {NoTask}, resume : BOOLEAN,
            pc : {"none", "created", "running", "leaving", "gather"},
            gathers : SUBSET Tasks]

Free(r) == r.job = NoTask

Shape(r) ==
  /\ Free(r) => ~r.resume /\ r.pc = "none" /\ r.gathers = {}
  /\ r.pc \in {"running", "leaving"} => r.job \in Branch
  /\ r.pc = "gather" => r.job = Parent

Tracked == \A t \in Tasks : Free(task[t]) \/ table[task[t].job] = t
Listed  == \A j \in RunnerJobs : table[j] # NoTask => task[table[j]].job = j
Owned   == \A j \in RunnerJobs : row[j].owner \in Tasks =>
             task[row[j].owner].job = j /\ task[row[j].owner].pc \in {"running", "leaving"}
Exist   == /\ \A t \in Tasks : Free(task[t]) \/ row[task[t].job].exists
           /\ \A j \in RunnerJobs : row[j].owner # NoTask => row[j].exists

BranchesInv ==
  /\ BranchesTypeOK /\ \A t \in Tasks : Shape(task[t])
  /\ Tracked /\ Listed /\ Owned /\ Exist

LEMMA Rows ==
  ASSUME BranchesTypeOK
  PROVE  /\ row \in [RunnerJobs -> JobRow] /\ task \in [Tasks -> TaskRow]
         /\ table \in [RunnerJobs -> Tasks \cup {NoTask}]
BY DEF BranchesTypeOK, JobRow, TaskRow

(* The constants are what their names say.                                 *)
LEMMA Names ==
  /\ Parent \in RunnerJobs /\ Parent \notin Branch /\ Branch \subseteq RunnerJobs
  /\ NoTask \notin Tasks /\ NoTask \notin RunnerJobs
  /\ Elsewhere \notin Tasks /\ Gone \notin Tasks
BY BranchesAssumption DEF BranchesAssumption, RunnerJobs

LEMMA UnusedIs ==
  /\ Unused \in TaskRow /\ Free(Unused) /\ Shape(Unused)
  /\ \A r \in TaskRow : Shape(r) => (r = Unused <=> Free(r))
<1>1. Unused \in TaskRow /\ Free(Unused) /\ Shape(Unused)
  BY Names DEF Unused, TaskRow, Free, Shape
<1>2. ASSUME NEW r \in TaskRow, Shape(r), Free(r)
      PROVE  r = Unused
  BY <1>2 DEF TaskRow, Shape, Free, Unused
<1>. QED
  BY <1>1, <1>2

-----------------------------------------------------------------------------
(* What a step does to the rows.  No step but a claim makes a task an      *)
(* owner, no row that has a task or an owner disappears.                   *)

RowStep ==
  /\ row' \in [RunnerJobs -> JobRow]
  /\ \A j \in RunnerJobs :
       /\ row'[j].exists = row[j].exists \/ (table[j] = NoTask /\ row'[j].owner = NoTask)
       /\ row'[j].owner \in Tasks => row'[j].owner = row[j].owner
       /\ row'[j].owner # NoTask => row'[j].exists

ParentKept == row'[Parent].status \in {row[Parent].status, "PAUSED"}

StepKeeps == BranchesInv' /\ ParentKept

(* Rows whose existence and owner stay.                                    *)
LEMMA RowsKept ==
  ASSUME BranchesInv, row' \in [RunnerJobs -> JobRow],
         \A j \in RunnerJobs : /\ row'[j].exists = row[j].exists
                               /\ row'[j].owner \in {row[j].owner, NoTask}
  PROVE  RowStep
BY Names DEF BranchesInv, Exist, RowStep

LEMMA TargetsAre ==
  ASSUME NEW j \in RunnerJobs
  PROVE  Parent \notin Targets(j) /\ Targets(j) \subseteq RunnerJobs
BY Names DEF Targets, Children, RunnerJobs

LEMMA RecoveredIs ==
  ASSUME NEW r \in JobRow
  PROVE  /\ Recovered(r) \in JobRow /\ Recovered(r).exists = r.exists
         /\ Recovered(r).owner = r.owner /\ Recovered(r).status \in {r.status, "PAUSED"}
BY DEF Recovered, JobRow, RowStatus

(* A step that keeps every task and entry.                                 *)
LEMMA KeepsTasks ==
  ASSUME BranchesInv, RowStep, UNCHANGED <<table, task>>, serving' \in BOOLEAN
  PROVE  BranchesInv'
<1>1. BranchesTypeOK'
  BY DEF BranchesInv, BranchesTypeOK, RowStep, JobRow
<1>2. (\A t \in Tasks : Shape(task'[t])) /\ Tracked' /\ Listed'
  BY DEF BranchesInv, Tracked, Listed
<1>3. Owned'
  BY DEF BranchesInv, Owned, RowStep
<1>4. Exist'
  <2>1. ASSUME NEW t \in Tasks, ~Free(task[t])
        PROVE  row'[task[t].job].exists
    <3>1. task[t].job \in RunnerJobs /\ table[task[t].job] = t /\ row[task[t].job].exists
      BY <2>1, Rows DEF BranchesInv, Tracked, Exist, Free, TaskRow
    <3>. QED
      BY <3>1, Names DEF RowStep
  <2>. QED
    BY <2>1 DEF Exist, RowStep
<1>. QED
  BY <1>1, <1>2, <1>3, <1>4 DEF BranchesInv

(* A new task for a job that has none.                                     *)
LEMMA StartsTask ==
  ASSUME BranchesInv, RowStep, NEW j \in RunnerJobs, NEW t \in Tasks, NEW resume \in BOOLEAN,
         table[j] = NoTask, task[t] = Unused, row'[j].exists,
         task' = [task EXCEPT ![t] = Created(j, resume)],
         table' = [table EXCEPT ![j] = t], serving' \in BOOLEAN
  PROVE  BranchesInv'
<1>1. /\ Created(j, resume) \in TaskRow /\ Shape(Created(j, resume))
      /\ Created(j, resume).job = j /\ ~Free(Created(j, resume))
  BY Names DEF Created, TaskRow, Shape, Free
<1>2. /\ task' \in [Tasks -> TaskRow] /\ Shape(task'[t]) /\ task'[t].job = j /\ ~Free(task'[t])
      /\ \A u \in Tasks \ {t} : task'[u] = task[u]
  BY <1>1, Rows DEF BranchesInv
<1>3. /\ table' \in [RunnerJobs -> Tasks \cup {NoTask}] /\ table'[j] = t
      /\ \A i \in RunnerJobs \ {j} : table'[i] = table[i]
  BY Rows DEF BranchesInv
<1>4. Free(task[t]) /\ \A u \in Tasks \ {t} : Free(task[u]) \/ task[u].job \in RunnerJobs \ {j}
  BY UnusedIs, Rows, Names DEF BranchesInv, Tracked, Free, TaskRow
<1>5. BranchesTypeOK'
  BY <1>2, <1>3 DEF BranchesTypeOK, RowStep, JobRow, TaskRow
<1>6. Tracked' /\ \A u \in Tasks : Shape(task'[u])
  BY <1>2, <1>3, <1>4 DEF BranchesInv, Tracked
<1>7. Listed'
  <2>. SUFFICES ASSUME NEW i \in RunnerJobs, table'[i] # NoTask PROVE task'[table'[i]].job = i
    BY DEF Listed
  <2>1. CASE i = j
    BY <2>1, <1>2, <1>3
  <2>2. CASE i # j
    <3>1. table'[i] = table[i] /\ table[i] \in Tasks /\ task[table[i]].job = i
      BY <2>2, <1>3, Rows DEF BranchesInv, Listed
    <3>. QED
      BY <3>1, <1>2, <1>4, Names DEF Free
  <2>. QED
    BY <2>1, <2>2
<1>8. Owned'
  <2>. SUFFICES ASSUME NEW i \in RunnerJobs, row'[i].owner \in Tasks
                PROVE  /\ task'[row'[i].owner].job = i
                       /\ task'[row'[i].owner].pc \in {"running", "leaving"}
    BY DEF Owned
  <2>1. /\ row'[i].owner = row[i].owner /\ task[row[i].owner].job = i
        /\ task[row[i].owner].pc \in {"running", "leaving"}
    BY DEF BranchesInv, RowStep, Owned
  <2>. QED
    BY <2>1, <1>2, <1>4, Names DEF Free
<1>9. Exist'
  <2>1. ASSUME NEW u \in Tasks \ {t}, ~Free(task[u])
        PROVE  row'[task[u].job].exists
    <3>1. task[u].job \in RunnerJobs /\ table[task[u].job] = u /\ row[task[u].job].exists
      BY <2>1, Rows DEF BranchesInv, Tracked, Exist, Free, TaskRow
    <3>. QED
      BY <3>1, Names DEF RowStep
  <2>. QED
    BY <1>2, <2>1 DEF Exist, RowStep
<1>. QED
  BY <1>5, <1>6, <1>7, <1>8, <1>9 DEF BranchesInv

(* A task that goes on with its job, and may become the owner of its row.  *)
LEMMA GoesOn ==
  ASSUME BranchesInv, NEW t \in Tasks, ~Free(task[t]),
         NEW r \in TaskRow, Shape(r), r.job = task[t].job, r.pc \in {"running", "leaving"},
         task' = [task EXCEPT ![t] = r], table' = table, serving' \in BOOLEAN,
         row' \in [RunnerJobs -> JobRow],
         \A j \in RunnerJobs :
           /\ row'[j].exists = row[j].exists
           /\ row'[j].owner # NoTask => row[j].exists
           /\ row'[j].owner \in Tasks =>
                row'[j].owner = row[j].owner \/ (row'[j].owner = t /\ j = r.job)
  PROVE  BranchesInv'
<1>1. /\ task' \in [Tasks -> TaskRow] /\ task'[t] = r
      /\ \A u \in Tasks : /\ task'[u].job = task[u].job /\ Shape(task'[u])
                          /\ Free(task'[u]) <=> Free(task[u])
                          /\ u # t => task'[u] = task[u]
  BY Rows DEF BranchesInv, Free
<1>2. BranchesTypeOK'
  BY <1>1 DEF BranchesInv, BranchesTypeOK, JobRow, TaskRow
<1>3. Tracked' /\ Listed'
  <2>1. Tracked'
    BY <1>1 DEF BranchesInv, Tracked
  <2>2. Listed'
    BY <1>1, Rows DEF BranchesInv, Listed
  <2>. QED
    BY <2>1, <2>2
<1>4. Owned'
  BY <1>1 DEF BranchesInv, Owned
<1>5. Exist'
  <2>1. ASSUME NEW u \in Tasks, ~Free(task'[u])
        PROVE  row'[task'[u].job].exists
    BY <1>1, <2>1, Rows DEF BranchesInv, Exist, Free, TaskRow
  <2>. QED
    BY <2>1 DEF Exist
<1>. QED
  BY <1>1, <1>2, <1>3, <1>4, <1>5 DEF BranchesInv

(* A task that ends.                                                       *)
LEMMA EndedIs ==
  ASSUME BranchesInv, NEW t \in Tasks
  PROVE  /\ Ended(t) \in [Tasks -> TaskRow] /\ Free(Ended(t)[t])
         /\ \A u \in Tasks : Shape(Ended(t)[u])
         /\ \A u \in Tasks \ {t} : /\ Ended(t)[u].job = task[u].job
                                   /\ Ended(t)[u].pc = task[u].pc
<1>1. /\ Ended(t) = [u \in Tasks |-> IF u = t THEN Unused
                                     ELSE [task[u] EXCEPT !.gathers = @ \ {t}]]
      /\ task \in [Tasks -> TaskRow]
  BY Rows DEF Ended, BranchesInv
<1>2. ASSUME NEW u \in Tasks \ {t}
      PROVE  /\ Ended(t)[u] \in TaskRow /\ Shape(Ended(t)[u])
             /\ Ended(t)[u].job = task[u].job /\ Ended(t)[u].pc = task[u].pc
  <2>. DEFINE g == task[u].gathers \ {t}
              r == [task[u] EXCEPT !.gathers = g]
  <2>1. Ended(t)[u] = r /\ task[u] \in TaskRow /\ Shape(task[u]) /\ g \in SUBSET Tasks
    BY <1>1 DEF BranchesInv, TaskRow
  <2>2. task[u].gathers = {} => g = {}
    OBVIOUS
  <2>. HIDE DEF g
  <2>3. /\ r \in TaskRow /\ r.job = task[u].job /\ r.pc = task[u].pc /\ r.gathers = g
        /\ r.resume = task[u].resume
    BY <2>1 DEF TaskRow
  <2>. HIDE DEF r
  <2>. QED
    BY <2>1, <2>2, <2>3 DEF Shape, Free
<1>3. Ended(t)[t] = Unused
  BY <1>1
<1>. QED
  BY <1>1, <1>2, <1>3, UnusedIs

LEMMA EndsTask ==
  ASSUME BranchesInv, RowStep, NEW t \in Tasks, ~Free(task[t]),
         \A j \in RunnerJobs : row'[j].owner # t,
         task' = Ended(t), table' = Popped(task[t].job), serving' \in BOOLEAN
  PROVE  BranchesInv'
<1>. DEFINE j == task[t].job
<1>1. j \in RunnerJobs /\ table[j] = t
  BY Rows DEF BranchesInv, Tracked, Free, TaskRow
<1>2. /\ table' \in [RunnerJobs -> Tasks \cup {NoTask}] /\ table'[j] = NoTask
      /\ \A i \in RunnerJobs \ {j} : table'[i] = table[i]
  BY <1>1, Rows DEF BranchesInv, Popped
<1>3. /\ task' \in [Tasks -> TaskRow] /\ Free(task'[t]) /\ \A u \in Tasks : Shape(task'[u])
      /\ \A u \in Tasks \ {t} : /\ task'[u].job = task[u].job /\ task'[u].pc = task[u].pc
                                /\ Free(task'[u]) <=> Free(task[u])
  BY EndedIs DEF Free
<1>4. BranchesTypeOK'
  BY <1>2, <1>3 DEF BranchesTypeOK, RowStep, JobRow, TaskRow
<1>5. Tracked'
  <2>. SUFFICES ASSUME NEW u \in Tasks, ~Free(task'[u]) PROVE table'[task'[u].job] = u
    BY DEF Tracked
  <2>1. u # t /\ ~Free(task[u]) /\ task'[u].job = task[u].job /\ task[u].job \in RunnerJobs
        /\ table[task[u].job] = u
    BY <1>3, Rows DEF BranchesInv, Tracked, Free, TaskRow
  <2>. QED
    BY <1>1, <1>2, <2>1
<1>6. Listed'
  <2>. SUFFICES ASSUME NEW i \in RunnerJobs, table'[i] # NoTask PROVE task'[table'[i]].job = i
    BY DEF Listed
  <2>1. /\ i # j /\ table'[i] = table[i] /\ table[i] \in Tasks /\ task[table[i]].job = i
    BY <1>2, Rows DEF BranchesInv, Listed
  <2>. QED
    BY <1>3, <2>1
<1>7. Owned'
  <2>. SUFFICES ASSUME NEW i \in RunnerJobs, row'[i].owner \in Tasks
                PROVE  /\ task'[row'[i].owner].job = i
                       /\ task'[row'[i].owner].pc \in {"running", "leaving"}
    BY DEF Owned
  <2>1. /\ row'[i].owner = row[i].owner /\ row'[i].owner # t /\ task[row[i].owner].job = i
        /\ task[row[i].owner].pc \in {"running", "leaving"}
    BY DEF BranchesInv, RowStep, Owned
  <2>. QED
    BY <1>3, <2>1
<1>8. Exist'
  <2>1. ASSUME NEW u \in Tasks, ~Free(task'[u])
        PROVE  row'[task'[u].job].exists
    <3>1. /\ u # t /\ task'[u].job = task[u].job /\ task[u].job \in RunnerJobs
          /\ table[task[u].job] = u /\ row[task[u].job].exists
      BY <1>3, <2>1, Rows DEF BranchesInv, Tracked, Exist, Free, TaskRow
    <3>. QED
      BY <3>1, Names DEF RowStep
  <2>. QED
    BY <2>1 DEF Exist, RowStep
<1>. QED
  BY <1>3, <1>4, <1>5, <1>6, <1>7, <1>8 DEF BranchesInv

(* The server stops, with every task.                                      *)
LEMMA AllEnd ==
  ASSUME BranchesInv, row' \in [RunnerJobs -> JobRow],
         \A j \in RunnerJobs : /\ row'[j].exists = row[j].exists /\ row'[j].owner \notin Tasks
                               /\ row'[j].owner # NoTask => row[j].exists,
         task' = [t \in Tasks |-> Unused], table' = [j \in RunnerJobs |-> NoTask],
         serving' \in BOOLEAN
  PROVE  BranchesInv'
<1>1. task' \in [Tasks -> TaskRow] /\ \A t \in Tasks : Free(task'[t]) /\ Shape(task'[t])
  BY UnusedIs
<1>2. BranchesTypeOK'
  BY <1>1 DEF BranchesTypeOK, JobRow, TaskRow
<1>3. Tracked' /\ Listed' /\ Owned' /\ Exist'
  BY <1>1 DEF Tracked, Listed, Owned, Exist
<1>. QED
  BY <1>1, <1>2, <1>3 DEF BranchesInv

-----------------------------------------------------------------------------
(* The routes.                                                             *)

LEMMA PauseKeeps ==
  ASSUME BranchesInv, NEW j \in RunnerJobs, PauseJob(j)
  PROVE  StepKeeps
<1>1. /\ Parent \notin Targets(j) /\ UNCHANGED <<table, task, serving>>
      /\ row \in [RunnerJobs -> JobRow]
      /\ row' = [b \in RunnerJobs |->
           IF b \notin Targets(j) \/ row[b].status \in Settled THEN row[b]
           ELSE IF row[b].status = "RUNNING" THEN [row[b] EXCEPT !.cmd = "PAUSE"]
           ELSE [row[b] EXCEPT !.status = "PAUSED", !.cmd = "NONE"]]
  BY TargetsAre, Rows DEF PauseJob, BranchesInv
<1>2. ASSUME NEW b \in RunnerJobs
      PROVE  row'[b] \in JobRow /\ row'[b].exists = row[b].exists /\ row'[b].owner = row[b].owner
  BY <1>1 DEF JobRow, RowStatus
<1>3. row' \in [RunnerJobs -> JobRow] /\ ParentKept
  BY <1>1, <1>2, Names DEF ParentKept
<1>. QED
  BY <1>1, <1>2, <1>3, RowsKept, KeepsTasks DEF StepKeeps, BranchesInv, BranchesTypeOK

LEMMA ResumeKeeps ==
  ASSUME BranchesInv, NEW j \in RunnerJobs, NEW t \in Tasks, ResumeJob(j, t)
  PROVE  StepKeeps
<1>. DEFINE paused == {b \in Targets(j) : row[b].status = "PAUSED"}
            busy   == {b \in paused : row[b].owner # NoTask}
<1>1. PICK marked \in SUBSET (paused \ busy) :
        /\ row' = [b \in RunnerJobs |->
             IF b \in marked THEN [row[b] EXCEPT !.status = "RUNNING", !.cmd = "NONE"]
                             ELSE row[b]]
        /\ IF busy = {} /\ ~IsActive(j)
           THEN /\ task' = [task EXCEPT ![t] = Created(j, TRUE)]
                /\ table' = [table EXCEPT ![j] = t]
           ELSE UNCHANGED <<table, task>>
  BY DEF ResumeJob
<1>2. /\ Parent \notin marked /\ row \in [RunnerJobs -> JobRow] /\ task[t] = Unused
      /\ row[j].exists /\ serving' \in BOOLEAN
  BY TargetsAre, Rows DEF ResumeJob, BranchesInv, BranchesTypeOK, Found
<1>3. ASSUME NEW b \in RunnerJobs
      PROVE  row'[b] \in JobRow /\ row'[b].exists = row[b].exists /\ row'[b].owner = row[b].owner
  BY <1>1, <1>2 DEF JobRow, RowStatus
<1>4. row' \in [RunnerJobs -> JobRow] /\ ParentKept
  BY <1>1, <1>2, <1>3, Names DEF ParentKept
<1>5. RowStep
  BY <1>3, <1>4, RowsKept
<1>6. CASE UNCHANGED <<table, task>>
  BY <1>2, <1>4, <1>5, <1>6, KeepsTasks DEF StepKeeps
<1>7. CASE /\ ~IsActive(j) /\ task' = [task EXCEPT ![t] = Created(j, TRUE)]
           /\ table' = [table EXCEPT ![j] = t]
  BY <1>2, <1>3, <1>4, <1>5, <1>7, StartsTask DEF StepKeeps, IsActive
<1>. QED
  BY <1>1, <1>6, <1>7

LEMMA CancelKeeps ==
  ASSUME BranchesInv, NEW j \in RunnerJobs, CancelTheJob(j)
  PROVE  StepKeeps
<1>1. /\ Parent \notin Targets(j) /\ UNCHANGED <<table, task, serving>>
      /\ row \in [RunnerJobs -> JobRow]
      /\ row' = [b \in RunnerJobs |->
           IF b \notin Targets(j) \/ row[b].status \in Settled THEN row[b]
           ELSE IF IsActive(b) \/ row[b].owner # NoTask THEN [row[b] EXCEPT !.cmd = "CANCEL"]
           ELSE [row[b] EXCEPT !.status = "CANCELLED", !.cmd = "NONE"]]
  BY TargetsAre, Rows DEF CancelTheJob, BranchesInv
<1>2. ASSUME NEW b \in RunnerJobs
      PROVE  row'[b] \in JobRow /\ row'[b].exists = row[b].exists /\ row'[b].owner = row[b].owner
  BY <1>1 DEF JobRow, RowStatus, Settled
<1>3. row' \in [RunnerJobs -> JobRow] /\ ParentKept
  BY <1>1, <1>2, Names DEF ParentKept
<1>. QED
  BY <1>1, <1>2, <1>3, RowsKept, KeepsTasks DEF StepKeeps, BranchesInv, BranchesTypeOK

LEMMA StartKeeps ==
  ASSUME BranchesInv, NEW j \in RunnerJobs, NEW t \in Tasks, StartJob(j, t)
  PROVE  StepKeeps
<1>1. RowStep /\ ParentKept /\ serving' \in BOOLEAN
  BY RowsKept, Rows DEF StartJob, ParentKept, BranchesInv, BranchesTypeOK
<1>. QED
  BY <1>1, StartsTask DEF StartJob, StepKeeps, IsActive, Found

(* Only rows that nobody uses disappear.                                   *)
LEMMA DeleteKeeps ==
  ASSUME BranchesInv, NEW j \in RunnerJobs, DeleteJob(j)
  PROVE  StepKeeps
<1>. DEFINE ids == Targets(j) \cup {j}
<1>1. /\ UNCHANGED <<table, task, serving>> /\ row \in [RunnerJobs -> JobRow]
      /\ \A b \in ids : table[b] = NoTask /\ row[b].owner = NoTask
      /\ row' = [b \in RunnerJobs |-> IF b \in ids THEN [row[b] EXCEPT !.exists = FALSE]
                                                   ELSE row[b]]
  BY Rows DEF DeleteJob, BranchesInv, InUseForDelete, IsActive
<1>. HIDE DEF ids
<1>2. ASSUME NEW b \in RunnerJobs
      PROVE  /\ row'[b] \in JobRow /\ row'[b].owner = row[b].owner
             /\ row'[b].status = row[b].status
             /\ row'[b].exists = row[b].exists \/ (table[b] = NoTask /\ row[b].owner = NoTask)
  BY <1>1 DEF JobRow
<1>3. RowStep /\ ParentKept
  <2>1. row' \in [RunnerJobs -> JobRow]
    BY <1>1, <1>2
  <2>. QED
    BY <1>2, <2>1, Names DEF RowStep, ParentKept, BranchesInv, Exist
<1>. QED
  BY <1>1, <1>3, KeepsTasks DEF StepKeeps, BranchesInv, BranchesTypeOK

-----------------------------------------------------------------------------
(* Runs.                                                                   *)

LEMMA RunRefusedKeeps ==
  ASSUME BranchesInv, NEW t \in Tasks, RunRefused(t)
  PROVE  StepKeeps
<1>. DEFINE j == task[t].job
            v == Recovered(row[j])
<1>1. /\ j \in Branch /\ j # Parent /\ j \in RunnerJobs /\ ~Free(task[t])
      /\ task[t].pc = "created" /\ row \in [RunnerJobs -> JobRow]
  BY Rows, Names DEF RunRefused, Begins, Free, BranchesInv
<1>2. v \in JobRow /\ v.exists = row[j].exists /\ v.owner = row[j].owner
  BY <1>1, RecoveredIs
<1>3. row' = [row EXCEPT ![j] = v]
  BY DEF RunRefused
<1>. HIDE DEF v
<1>4. /\ row' \in [RunnerJobs -> JobRow] /\ row'[Parent] = row[Parent]
      /\ \A i \in RunnerJobs : row'[i].exists = row[i].exists /\ row'[i].owner = row[i].owner
  BY <1>1, <1>2, <1>3, Names
<1>5. RowStep
  BY <1>4, RowsKept
<1>6. \A i \in RunnerJobs : row'[i].owner # t
  BY <1>1, <1>4 DEF BranchesInv, Owned
<1>7. task' = Ended(t) /\ table' = Popped(task[t].job) /\ serving' \in BOOLEAN
  BY DEF RunRefused, BranchesInv, BranchesTypeOK
<1>. QED
  BY <1>1, <1>4, <1>5, <1>6, <1>7, EndsTask DEF StepKeeps, ParentKept

LEMMA RunClaimsKeeps ==
  ASSUME BranchesInv, NEW t \in Tasks, RunClaims(t)
  PROVE  StepKeeps
<1>. DEFINE j == task[t].job
            v == Recovered(row[j])
            w == [v EXCEPT !.status = "RUNNING", !.cmd = "NONE", !.owner = t]
            r == [task[t] EXCEPT !.pc = "running", !.resume = FALSE]
<1>1. /\ j \in Branch /\ j # Parent /\ j \in RunnerJobs /\ ~Free(task[t])
      /\ task[t] \in TaskRow /\ Shape(task[t]) /\ row \in [RunnerJobs -> JobRow]
  BY Rows, Names DEF RunClaims, Begins, Free, BranchesInv
<1>2. v \in JobRow /\ v.exists = row[j].exists /\ v.exists
  BY <1>1, RecoveredIs DEF RunClaims
<1>3. row' = [row EXCEPT ![j] = w]
  BY DEF RunClaims
<1>. HIDE DEF v
<1>4. w \in JobRow /\ w.exists = row[j].exists /\ w.owner = t
  BY <1>2 DEF JobRow, RowStatus
<1>. HIDE DEF w
<1>5. /\ row' \in [RunnerJobs -> JobRow] /\ row'[Parent] = row[Parent]
      /\ \A i \in RunnerJobs : /\ row'[i].exists = row[i].exists
                               /\ i # j => row'[i] = row[i]
      /\ row'[j].owner = t
  BY <1>1, <1>3, <1>4, Names
<1>6. /\ r \in TaskRow /\ Shape(r) /\ r.job = j /\ r.pc = "running"
  BY <1>1 DEF TaskRow, Shape, Free
<1>7. task' = [task EXCEPT ![t] = r] /\ table' = table /\ serving' \in BOOLEAN
  BY DEF RunClaims, BranchesInv, BranchesTypeOK
<1>. HIDE DEF r
<1>8. \A i \in RunnerJobs :
        /\ row'[i].owner # NoTask => row[i].exists
        /\ row'[i].owner \in Tasks =>
             row'[i].owner = row[i].owner \/ (row'[i].owner = t /\ i = r.job)
  BY <1>2, <1>5, <1>6 DEF BranchesInv, Exist
<1>. QED
  BY <1>1, <1>5, <1>6, <1>7, <1>8, GoesOn, ZenonT(40) DEF StepKeeps, ParentKept

LEMMA RunEndsKeeps ==
  ASSUME BranchesInv, NEW t \in Tasks, NEW s \in RowStatus, RunEnds(t, s)
  PROVE  StepKeeps
<1>. DEFINE j == task[t].job
            c == IF s = "CANCELLED" THEN "NONE" ELSE row[j].cmd
            v == IF row[j].cmd = "PAUSE" /\ s = "PAUSED"
                 THEN [row[j] EXCEPT !.status = s, !.cmd = "NONE", !.owner = NoTask]
                 ELSE [row[j] EXCEPT !.status = s, !.cmd = c]
            r == [task[t] EXCEPT !.pc = "leaving"]
<1>1. /\ j \in Branch /\ j # Parent /\ j \in RunnerJobs /\ ~Free(task[t])
      /\ task[t] \in TaskRow /\ Shape(task[t]) /\ row[j] \in JobRow
      /\ row \in [RunnerJobs -> JobRow]
  BY Rows, Names DEF RunEnds, Free, Shape, BranchesInv
<1>2. row' = [row EXCEPT ![j] = v]
  BY DEF RunEnds
<1>3. c \in {"NONE", "PAUSE", "CANCEL"}
  BY <1>1 DEF JobRow
<1>. HIDE DEF c
<1>4. v \in JobRow /\ v.exists = row[j].exists /\ v.owner \in {row[j].owner, NoTask}
  BY <1>1, <1>3 DEF JobRow
<1>. HIDE DEF v
<1>5. /\ row' \in [RunnerJobs -> JobRow] /\ row'[Parent] = row[Parent]
      /\ \A i \in RunnerJobs : /\ row'[i].exists = row[i].exists
                               /\ row'[i].owner \in {row[i].owner, NoTask}
  BY <1>1, <1>2, <1>4, Names
<1>6. r \in TaskRow /\ Shape(r) /\ r.job = j /\ r.pc = "leaving"
  BY <1>1, Names DEF TaskRow, Shape, Free
<1>7. task' = [task EXCEPT ![t] = r] /\ table' = table /\ serving' \in BOOLEAN
  BY DEF RunEnds, BranchesInv, BranchesTypeOK
<1>. HIDE DEF r
<1>8. \A i \in RunnerJobs :
        /\ row'[i].owner # NoTask => row[i].exists
        /\ row'[i].owner \in Tasks => row'[i].owner = row[i].owner
  BY <1>5, Names DEF BranchesInv, Exist
<1>. QED
  BY <1>1, <1>5, <1>6, <1>7, <1>8, GoesOn, ZenonT(40) DEF StepKeeps, ParentKept

LEMMA RunLeavesKeeps ==
  ASSUME BranchesInv, NEW t \in Tasks, RunLeaves(t)
  PROVE  StepKeeps
<1>. DEFINE j == task[t].job
            o == IF row[j].owner = t THEN NoTask ELSE row[j].owner
            v == [row[j] EXCEPT !.owner = o]
<1>1. /\ j \in Branch /\ j # Parent /\ j \in RunnerJobs /\ ~Free(task[t])
      /\ row[j] \in JobRow /\ row \in [RunnerJobs -> JobRow]
  BY Rows, Names DEF RunLeaves, Free, Shape, BranchesInv
<1>2. row' = [row EXCEPT ![j] = v]
  BY DEF RunLeaves
<1>3. o \in Tasks \cup {Elsewhere, Gone, NoTask} /\ o \in {row[j].owner, NoTask} /\ o # t
  BY <1>1, Names DEF JobRow
<1>. HIDE DEF o
<1>4. v \in JobRow /\ v.exists = row[j].exists /\ v.owner = o
  BY <1>1, <1>3 DEF JobRow
<1>. HIDE DEF v
<1>5. /\ row' \in [RunnerJobs -> JobRow] /\ row'[Parent] = row[Parent]
      /\ \A i \in RunnerJobs : /\ row'[i].exists = row[i].exists
                               /\ row'[i].owner \in {row[i].owner, NoTask}
      /\ row'[j].owner # t /\ \A i \in RunnerJobs \ {j} : row'[i] = row[i]
  BY <1>1, <1>2, <1>3, <1>4, Names
<1>6. RowStep
  BY <1>5, RowsKept
<1>7. \A i \in RunnerJobs : row'[i].owner # t
  BY <1>5 DEF BranchesInv, Owned
<1>8. task' = Ended(t) /\ table' = Popped(task[t].job) /\ serving' \in BOOLEAN
  BY DEF RunLeaves, BranchesInv, BranchesTypeOK
<1>. QED
  BY <1>1, <1>5, <1>6, <1>7, <1>8, EndsTask DEF StepKeeps, ParentKept

(* Runs in other processes, and leases that expire.                        *)
LEMMA OthersKeep ==
  ASSUME BranchesInv, NEW j \in RunnerJobs,
         \/ LeaseExpires(j)
         \/ j \in Branch /\ ElsewhereClaims(j)
         \/ j \in Branch /\ \E s \in RowStatus : ElsewhereEnds(j, s)
  PROVE  StepKeeps
<1>1. /\ UNCHANGED <<table, task, serving>> /\ serving \in BOOLEAN
      /\ row[j] \in JobRow /\ row \in [RunnerJobs -> JobRow]
  BY Rows DEF LeaseExpires, ElsewhereClaims, ElsewhereEnds, BranchesInv, BranchesTypeOK
<1>2. PICK v \in JobRow : /\ row' = [row EXCEPT ![j] = v] /\ v.exists = row[j].exists
                          /\ v.owner \in {row[j].owner, NoTask, Elsewhere}
                          /\ v.owner # NoTask => row[j].exists
                          /\ v.status = row[j].status \/ j # Parent
  <2>1. CASE LeaseExpires(j)
    <3>. DEFINE v == [row[j] EXCEPT !.owner = NoTask]
    <3>1. v \in JobRow /\ v.exists = row[j].exists /\ v.owner = NoTask /\ v.status = row[j].status
      BY <1>1 DEF JobRow
    <3>2. row' = [row EXCEPT ![j] = v]
      BY <2>1 DEF LeaseExpires
    <3>. QED
      BY <3>1, <3>2
  <2>2. CASE j \in Branch /\ ElsewhereClaims(j)
    <3>. DEFINE v == [row[j] EXCEPT !.status = "RUNNING", !.cmd = "NONE", !.owner = Elsewhere]
    <3>1. v \in JobRow /\ v.exists = row[j].exists /\ v.owner = Elsewhere
      BY <1>1 DEF JobRow, RowStatus
    <3>2. row' = [row EXCEPT ![j] = v] /\ row[j].exists /\ j # Parent
      BY <2>2, Names DEF ElsewhereClaims
    <3>. HIDE DEF v
    <3>. QED
      BY <3>1, <3>2
  <2>3. ASSUME NEW s \in RowStatus, j \in Branch, ElsewhereEnds(j, s)
        PROVE  \E v \in JobRow : /\ row' = [row EXCEPT ![j] = v] /\ v.exists = row[j].exists
                                 /\ v.owner \in {row[j].owner, NoTask, Elsewhere}
                                 /\ v.owner # NoTask => row[j].exists
                                 /\ v.status = row[j].status \/ j # Parent
    <3>. DEFINE v == [row[j] EXCEPT !.status = s, !.cmd = "NONE", !.owner = NoTask]
    <3>1. v \in JobRow /\ v.exists = row[j].exists /\ v.owner = NoTask
      BY <1>1 DEF JobRow
    <3>2. row' = [row EXCEPT ![j] = v] /\ j # Parent
      BY <2>3, Names DEF ElsewhereEnds
    <3>. HIDE DEF v
    <3>. QED
      BY <3>1, <3>2
  <2>. QED
    BY <2>1, <2>2, <2>3
<1>3. /\ row' \in [RunnerJobs -> JobRow] /\ row'[j] = v
      /\ \A i \in RunnerJobs \ {j} : row'[i] = row[i]
  BY <1>1, <1>2
<1>4. RowStep
  BY <1>2, <1>3, Names DEF RowStep, BranchesInv, Exist
<1>5. ParentKept
  BY <1>2, <1>3, Names DEF ParentKept
<1>. QED
  BY <1>1, <1>4, <1>5, KeepsTasks DEF StepKeeps

-----------------------------------------------------------------------------
(* The server stops and starts.                                            *)

LEMMA StopKeeps ==
  ASSUME BranchesInv, Shutdown \/ Crash
  PROVE  StepKeeps
<1>1. /\ task' = [t \in Tasks |-> Unused] /\ table' = [j \in RunnerJobs |-> NoTask]
      /\ serving' \in BOOLEAN /\ row \in [RunnerJobs -> JobRow]
  BY Rows DEF Shutdown, Crash, BranchesInv
<1>2. ASSUME NEW j \in RunnerJobs
      PROVE  /\ row'[j] \in JobRow /\ row'[j].exists = row[j].exists
             /\ row'[j].owner \notin Tasks
             /\ row'[j].owner # NoTask => row[j].owner # NoTask
             /\ row'[j].status \in {row[j].status, "PAUSED"}
  <2>1. CASE row[j].owner \notin Tasks
    BY <1>1, <2>1 DEF Shutdown, Crash
  <2>2. CASE row[j].owner \in Tasks /\ Shutdown
    <3>. DEFINE s == IF task[row[j].owner].pc = "running" THEN "PAUSED" ELSE row[j].status
                v == [row[j] EXCEPT !.owner = NoTask, !.status = s]
    <3>1. row'[j] = v /\ row[j] \in JobRow
      BY <1>1, <2>2 DEF Shutdown
    <3>2. s \in RowStatus /\ s \in {row[j].status, "PAUSED"}
      BY <3>1 DEF JobRow, RowStatus
    <3>. HIDE DEF s
    <3>3. v \in JobRow /\ v.exists = row[j].exists /\ v.owner = NoTask /\ v.status = s
      BY <3>1, <3>2 DEF JobRow
    <3>. HIDE DEF v
    <3>. QED
      BY <3>1, <3>2, <3>3, Names
  <2>3. CASE row[j].owner \in Tasks /\ Crash
    <3>. DEFINE v == [row[j] EXCEPT !.owner = Gone]
    <3>1. row'[j] = v /\ row[j] \in JobRow
      BY <1>1, <2>3 DEF Crash
    <3>2. v \in JobRow /\ v.exists = row[j].exists /\ v.owner = Gone /\ v.status = row[j].status
      BY <3>1 DEF JobRow
    <3>. HIDE DEF v
    <3>. QED
      BY <2>3, <3>1, <3>2, Names
  <2>. QED
    BY <2>1, <2>2, <2>3
<1>3. row' \in [RunnerJobs -> JobRow]
  <2>1. row' = [j \in RunnerJobs |-> row'[j]]
    BY DEF Shutdown, Crash
  <2>. QED
    BY <1>2, <2>1
<1>4. BranchesInv'
  BY <1>1, <1>2, <1>3, AllEnd DEF BranchesInv, Exist
<1>. QED
  BY <1>2, <1>4, Names DEF StepKeeps, ParentKept

LEMMA StartMonitorKeeps ==
  ASSUME BranchesInv, StartMonitor
  PROVE  StepKeeps
<1>1. /\ UNCHANGED <<table, task>> /\ serving' \in BOOLEAN /\ row \in [RunnerJobs -> JobRow]
      /\ row' = [j \in RunnerJobs |-> IF row[j].exists THEN Recovered(row[j]) ELSE row[j]]
  BY Rows DEF StartMonitor, BranchesInv
<1>2. ASSUME NEW j \in RunnerJobs
      PROVE  /\ row'[j] \in JobRow /\ row'[j].exists = row[j].exists
             /\ row'[j].owner = row[j].owner /\ row'[j].status \in {row[j].status, "PAUSED"}
  BY <1>1, RecoveredIs
<1>3. row' \in [RunnerJobs -> JobRow]
  BY <1>1, <1>2
<1>. QED
  BY <1>1, <1>2, <1>3, RowsKept, KeepsTasks, Names DEF StepKeeps, ParentKept

-----------------------------------------------------------------------------
(* The parent's task.                                                      *)

LEMMA ParentBeginsKeeps ==
  ASSUME BranchesInv, NEW t \in Tasks, ParentBegins(t)
  PROVE  StepKeeps
<1>1. PICK started \in [ToStart -> {u \in Tasks : task[u] = Unused}] :
       /\ \A b, c \in ToStart : started[b] = started[c] => b = c
       /\ task' = [u \in Tasks |->
            IF u = t THEN [task[t] EXCEPT !.pc = "gather", !.resume = FALSE,
                                          !.gathers = {started[b] : b \in ToStart}]
            ELSE IF \E b \in ToStart : started[b] = u
            THEN Created(CHOOSE b \in ToStart : started[b] = u, task[t].resume)
            ELSE task[u]]
       /\ table' = [j \in RunnerJobs |-> IF j \in ToStart THEN started[j] ELSE table[j]]
  BY DEF ParentBegins
<1>2. /\ task[t].pc = "created" /\ task[t].job = Parent /\ UNCHANGED <<row, serving>>
      /\ task[t] \in TaskRow /\ ~Free(task[t])
  BY Rows, Names DEF ParentBegins, BranchesInv, Free
<1>3. \A b \in ToStart : /\ b \in Branch /\ b \in RunnerJobs /\ b # Parent /\ row[b].exists
                         /\ table[b] = NoTask
  BY Names DEF ToStart, Runnable, Children, IsActive
<1>4. \A b \in ToStart : started[b] \in Tasks /\ Free(task[started[b]]) /\ started[b] # t
  BY <1>2, UnusedIs
<1>5. \A u \in Tasks : ~Free(task[u]) => task[u].job \in RunnerJobs \ ToStart
  BY <1>3, Rows, Names DEF BranchesInv, Tracked, Free, TaskRow
<1>6. /\ task'[t] \in TaskRow /\ Shape(task'[t]) /\ task'[t].job = Parent
  <2>. DEFINE g == {started[b] : b \in ToStart}
              r == [task[t] EXCEPT !.pc = "gather", !.resume = FALSE, !.gathers = g]
  <2>1. task'[t] = r
    BY <1>1
  <2>2. g \in SUBSET Tasks
    BY <1>4
  <2>. HIDE DEF g
  <2>3. r \in TaskRow /\ r.job = Parent /\ r.pc = "gather"
    BY <1>2, <2>2 DEF TaskRow
  <2>. HIDE DEF r
  <2>. QED
    BY <2>1, <2>3, Names DEF Shape, Free
<1>7. \A b \in ToStart : /\ task'[started[b]] \in TaskRow /\ Shape(task'[started[b]])
                         /\ task'[started[b]].job = b
  <2>. SUFFICES ASSUME NEW b \in ToStart
                PROVE  /\ task'[started[b]] \in TaskRow /\ Shape(task'[started[b]])
                       /\ task'[started[b]].job = b
    OBVIOUS
  <2>. DEFINE u == started[b]
              d == CHOOSE c \in ToStart : started[c] = u
  <2>1. d \in ToStart /\ started[d] = u
    OBVIOUS
  <2>2. d = b
    BY <1>1, <2>1
  <2>3. task'[u] = Created(d, task[t].resume)
    BY <1>1, <1>4
  <2>4. task[t].resume \in BOOLEAN
    BY <1>2 DEF TaskRow
  <2>. HIDE DEF d
  <2>. QED
    BY <1>3, <2>2, <2>3, <2>4, Names DEF Created, TaskRow, Shape, Free
<1>8. \A u \in Tasks : u = t \/ (\E b \in ToStart : started[b] = u) \/ task'[u] = task[u]
  BY <1>1
<1>9. task' \in [Tasks -> TaskRow] /\ \A u \in Tasks : Shape(task'[u])
  <2>1. \A u \in Tasks : task'[u] \in TaskRow /\ Shape(task'[u])
    BY <1>6, <1>7, <1>8, Rows DEF BranchesInv
  <2>2. task' = [u \in Tasks |-> task'[u]]
    BY <1>1
  <2>. QED
    BY <2>1, <2>2
<1>10. /\ table' \in [RunnerJobs -> Tasks \cup {NoTask}]
       /\ \A b \in ToStart : table'[b] = started[b]
       /\ \A j \in RunnerJobs \ ToStart : table'[j] = table[j]
  BY <1>1, <1>3, <1>4, Rows DEF BranchesInv
<1>11. BranchesTypeOK'
  BY <1>2, <1>9, <1>10 DEF BranchesInv, BranchesTypeOK, TaskRow
<1>12. table[Parent] = t /\ Parent \notin ToStart
  BY <1>2, <1>3 DEF BranchesInv, Tracked
<1>13. Tracked'
  <2>. SUFFICES ASSUME NEW u \in Tasks, ~Free(task'[u]) PROVE table'[task'[u].job] = u
    BY DEF Tracked
  <2>1. CASE u = t
    BY <2>1, <1>6, <1>10, <1>12, Names
  <2>2. CASE \E b \in ToStart : started[b] = u
    BY <2>2, <1>7, <1>10
  <2>3. CASE task'[u] = task[u]
    BY <2>3, <1>5, <1>10 DEF BranchesInv, Tracked
  <2>. QED
    BY <2>1, <2>2, <2>3, <1>8
<1>14. Listed'
  <2>. SUFFICES ASSUME NEW j \in RunnerJobs, table'[j] # NoTask PROVE task'[table'[j]].job = j
    BY DEF Listed
  <2>1. CASE j \in ToStart
    BY <2>1, <1>7, <1>10
  <2>2. CASE j \notin ToStart
    <3>1. table'[j] = table[j] /\ table[j] \in Tasks /\ task[table[j]].job = j
      BY <2>2, <1>10, Rows DEF BranchesInv, Listed
    <3>2. ~Free(task[table[j]])
      BY <3>1, Names DEF Free
    <3>3. CASE table[j] = t
      BY <1>2, <1>6, <3>1, <3>3
    <3>4. CASE table[j] # t
      BY <1>4, <1>8, <3>1, <3>2, <3>4
    <3>. QED
      BY <3>3, <3>4
  <2>. QED
    BY <2>1, <2>2
<1>15. Owned'
  <2>. SUFFICES ASSUME NEW j \in RunnerJobs, row[j].owner \in Tasks
                PROVE  /\ task'[row[j].owner].job = j
                       /\ task'[row[j].owner].pc \in {"running", "leaving"}
    BY <1>2 DEF Owned
  <2>1. task[row[j].owner].job = j /\ task[row[j].owner].pc \in {"running", "leaving"}
    BY DEF BranchesInv, Owned
  <2>2. ~Free(task[row[j].owner]) /\ row[j].owner # t
    BY <1>2, <2>1, Names DEF Free
  <2>. QED
    BY <1>4, <1>8, <2>1, <2>2
<1>16. Exist'
  <2>1. ASSUME NEW u \in Tasks, ~Free(task'[u]) PROVE row[task'[u].job].exists
    BY <2>1, <1>2, <1>3, <1>6, <1>7, <1>8 DEF BranchesInv, Exist
  <2>. QED
    BY <1>2, <2>1 DEF BranchesInv, Exist
<1>. QED
  BY <1>2, <1>9, <1>11, <1>13, <1>14, <1>15, <1>16 DEF StepKeeps, BranchesInv, ParentKept

ChildStates == {row[b].status : b \in Children}

LEMMA ParentEndsKeeps ==
  ASSUME BranchesInv, NEW t \in Tasks, ParentEnds(t)
  PROVE  /\ BranchesInv'
         /\ row'[Parent].status = ParentStatus(ChildStates)
         /\ task[table[Parent]].gathers = {}
<1>. DEFINE s == ParentStatus(ChildStates)
            v == [row[Parent] EXCEPT !.status = s]
<1>1. /\ row' = [row EXCEPT ![Parent].status = s] /\ task' = Ended(t)
      /\ table' = Popped(Parent) /\ serving' \in BOOLEAN
      /\ task[t].gathers = {} /\ task[t].job = Parent /\ ~Free(task[t])
      /\ table[Parent] = t /\ row \in [RunnerJobs -> JobRow]
  BY Rows, Names DEF ParentEnds, ChildStates, BranchesInv, BranchesTypeOK, Shape, Free, Tracked
<1>2. s \in RowStatus
  <2>1. row[Parent].status \in RowStatus
    BY <1>1, Names DEF JobRow
  <2>. QED
    BY <2>1 DEF ParentStatus, RowStatus, Settled
<1>. HIDE DEF s
<1>3. v \in JobRow /\ v.exists = row[Parent].exists /\ v.owner = row[Parent].owner
      /\ v.status = s
  BY <1>1, <1>2, Names DEF JobRow
<1>4. row' = [row EXCEPT ![Parent] = v]
  BY <1>1, Names
<1>. HIDE DEF v
<1>5. /\ row' \in [RunnerJobs -> JobRow] /\ row'[Parent].status = s
      /\ \A i \in RunnerJobs : row'[i].exists = row[i].exists /\ row'[i].owner = row[i].owner
  BY <1>1, <1>3, <1>4, Names
<1>6. RowStep
  BY <1>5, RowsKept
<1>7. \A i \in RunnerJobs : row'[i].owner # t
  <2>1. task[t].pc = "gather"
    BY DEF ParentEnds
  <2>. QED
    BY <1>5, <2>1 DEF BranchesInv, Owned
<1>8. BranchesInv'
  BY <1>1, <1>6, <1>7, EndsTask
<1>. QED
  BY <1>1, <1>5, <1>8 DEF s

-----------------------------------------------------------------------------
(* The theorems.                                                           *)

CompletesLast ==
  row'[Parent].status = "COMPLETED" /\ row[Parent].status # "COMPLETED"
    => /\ \E b \in Branch : row[b].exists
       /\ \A b \in Branch : row[b].exists => row[b].status = "COMPLETED"
       /\ task[table[Parent]].gathers = {}

LEMMA BranchesStep ==
  ASSUME BranchesInv, BranchesNext
  PROVE  BranchesInv' /\ CompletesLast
<1>1. CASE StepKeeps
  BY <1>1 DEF StepKeeps, ParentKept, CompletesLast
<1>2. ASSUME NEW t \in Tasks, ParentEnds(t)
      PROVE  BranchesInv' /\ CompletesLast
  <2>1. /\ BranchesInv' /\ row'[Parent].status = ParentStatus(ChildStates)
        /\ task[table[Parent]].gathers = {}
    BY <1>2, ParentEndsKeeps
  <2>2. ASSUME row'[Parent].status = "COMPLETED", row[Parent].status # "COMPLETED"
        PROVE  ChildStates = {"COMPLETED"}
    BY <2>1, <2>2 DEF ParentStatus, All
  <2>3. ASSUME ChildStates = {"COMPLETED"}
        PROVE  /\ \E b \in Branch : row[b].exists
               /\ \A b \in Branch : row[b].exists => row[b].status = "COMPLETED"
    BY <2>3 DEF ChildStates, Children
  <2>. QED
    BY <2>1, <2>2, <2>3 DEF CompletesLast
<1>3. \/ \E t \in Tasks : ParentEnds(t)
      \/ StepKeeps
  <2>1. ASSUME NEW j \in RunnerJobs,
               \/ PauseJob(j) \/ CancelTheJob(j) \/ DeleteJob(j) \/ LeaseExpires(j)
               \/ \E t \in Tasks : StartJob(j, t) \/ ResumeJob(j, t)
        PROVE  StepKeeps
    BY <2>1, PauseKeeps, CancelKeeps, DeleteKeeps, OthersKeep, StartKeeps, ResumeKeeps
  <2>2. ASSUME NEW j \in Branch,
               ElsewhereClaims(j) \/ \E s \in RowStatus : ElsewhereEnds(j, s)
        PROVE  StepKeeps
    BY <2>2, OthersKeep, Names
  <2>3. ASSUME NEW t \in Tasks,
               \/ RunRefused(t) \/ RunClaims(t) \/ RunLeaves(t) \/ ParentBegins(t)
               \/ \E s \in RowStatus : RunEnds(t, s)
        PROVE  StepKeeps
    BY <2>3, RunRefusedKeeps, RunClaimsKeeps, RunLeavesKeeps, ParentBeginsKeeps, RunEndsKeeps
  <2>4. CASE Shutdown \/ Crash \/ StartMonitor
    BY <2>4, StopKeeps, StartMonitorKeeps
  <2>. QED
    BY <2>1, <2>2, <2>3, <2>4 DEF BranchesNext
<1>. QED
  BY <1>1, <1>2, <1>3

LEMMA BranchesInvariant == BranchesSpec => []BranchesInv
<1>1. BranchesInit => BranchesInv
  <2>. SUFFICES ASSUME BranchesInit PROVE BranchesInv
    OBVIOUS
  <2>1. \A t \in Tasks : task[t] = Unused
    BY DEF BranchesInit
  <2>2. task \in [Tasks -> TaskRow] /\ \A t \in Tasks : Free(task[t]) /\ Shape(task[t])
    BY <2>1, UnusedIs DEF BranchesInit
  <2>3. row \in [RunnerJobs -> JobRow]
    BY DEF BranchesInit, JobRow, RowStatus
  <2>4. BranchesTypeOK
    BY <2>2, <2>3 DEF BranchesInit, BranchesTypeOK, JobRow, TaskRow
  <2>5. Tracked /\ Listed /\ Owned /\ Exist
    BY <2>2, Names DEF BranchesInit, Tracked, Listed, Owned, Exist
  <2>. QED
    BY <2>2, <2>4, <2>5 DEF BranchesInv
<1>2. BranchesInv /\ [BranchesNext]_branchVars => BranchesInv'
  <2>1. BranchesInv /\ UNCHANGED branchVars => BranchesInv'
    BY DEF BranchesInv, BranchesTypeOK, Tracked, Listed, Owned, Exist, branchVars
  <2>. QED
    BY <2>1, BranchesStep
<1>. QED
  BY <1>1, <1>2, PTL DEF BranchesSpec

(* A task that has not ended is the one entry of its job.                  *)
THEOREM TasksAreTracked == BranchesSpec => []TasksTracked
<1>1. BranchesInv => TasksTracked
  BY UnusedIs, Rows DEF BranchesInv, Tracked, TasksTracked
<1>. QED
  BY <1>1, BranchesInvariant, PTL

(* No row is deleted under a task or a live run.                           *)
THEOREM RunsHaveJobs == BranchesSpec => []NoRunWithoutJob
<1>1. BranchesInv => NoRunWithoutJob
  BY UnusedIs, Rows DEF BranchesInv, Exist, NoRunWithoutJob
<1>. QED
  BY <1>1, BranchesInvariant, PTL

(* A parent becomes COMPLETED after its branches and its runs.             *)
THEOREM ParentLast == BranchesSpec => ParentCompletesLast
<1>1. BranchesInv /\ [BranchesNext]_branchVars => [CompletesLast]_branchVars
  BY BranchesStep
<1>. QED
  BY <1>1, BranchesInvariant, PTL DEF BranchesSpec, ParentCompletesLast, CompletesLast
=============================================================================
