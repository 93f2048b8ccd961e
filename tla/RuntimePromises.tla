--------------------------- MODULE RuntimePromises ---------------------------
(***************************************************************************)
(* The other promises of RuntimeSafety, for every value of the constants.  *)
(* Those about items follow from Fencing and the kinds of steps; those     *)
(* about leases from what a step does to a row of jobs or accounts and to  *)
(* a worker's place in its run.                                            *)
(***************************************************************************)
EXTENDS RuntimeFencing

-----------------------------------------------------------------------------
(* Items: what is settled stays, and what may be on the wire is waited for.*)

(* Nothing is due for a settled row.                                       *)
SettledRows ==
  \A i \in Items : item[i].status \in Terminal => item[i].retry = 0 /\ item[i].recovery = 0

(* A request on the wire has waited for the recovery grace, or it is the   *)
(* newest of its number and the row still says so, or says that it is      *)
(* unknown for at least the rest of the grace.                             *)
Waits(w, i) ==
  \/ proc[w].age >= RecoveryGrace
  \/ /\ proc[w].token = item[i].sent
     /\ \/ item[i].status = "PROCESSING"
        \/ /\ item[i].status = "IN_FLIGHT_UNKNOWN"
           /\ item[i].recovery + proc[w].age >= RecoveryGrace

RequestsWait == \A w \in Workers : At(w, "request") => Waits(w, proc[w].item)

LEMMA TerminalKept ==
  ASSUME Typed, Typed', FencedRows, SettledRows, Kinds,
         NEW i \in Items, item[i].status \in Terminal
  PROVE  item'[i] = item[i]
<1>0. item[i] \in ItemRow /\ item'[i] \in ItemRow
  BY DEF Typed, TypeOK, StoreTypeOK
<1>1. CASE Still
  <2>1. CASE item' = item
    BY <2>1
  <2>2. CASE Tick
    <3>. DEFINE a == Elapse(item[i].retry, 0)
                b == Elapse(item[i].recovery, 0)
    <3>1. item'[i] = [item[i] EXCEPT !.retry = a, !.recovery = b]
      BY <1>0, <2>2 DEF Tick, StoreTick, ItemRow
    <3>2. a = item[i].retry /\ b = item[i].recovery
      BY DEF SettledRows, Elapse
    <3>. HIDE DEF a, b
    <3>. QED
      BY <1>0, <3>1, <3>2 DEF ItemRow
  <2>. QED
    BY <1>1, <2>1, <2>2 DEF Still
<1>2. ASSUME NEW w \in Workers, Marks(w)
      PROVE  item'[i] = item[i]
  BY <1>2, MarkedRow DEF Terminal
<1>3. ASSUME NEW w \in Workers, Saves(w)
      PROVE  item'[i] = item[i]
  BY <1>3, SavedRow DEF Terminal, HoldsItem
<1>4. ASSUME NEW S \in SUBSET Items, Loses(S)
      PROVE  item'[i] = item[i]
  BY <1>4 DEF Loses, Terminal
<1>. QED
  BY <1>1, <1>2, <1>3, <1>4 DEF Kinds, Quiet, Picks

LEMMA SettledRowsKept ==
  ASSUME Typed, Typed', FencedRows, SettledRows, Kinds
  PROVE  SettledRows'
<1>. SUFFICES ASSUME NEW i \in Items, item'[i].status \in Terminal
              PROVE  item'[i].retry = 0 /\ item'[i].recovery = 0
  BY DEF SettledRows
<1>1. CASE item[i].status \in Terminal
  BY <1>1, TerminalKept DEF SettledRows
<1>2. CASE item[i].status \notin Terminal
  <2>1. ASSUME NEW w \in Workers, Saves(w)
        PROVE  item'[i].retry = 0 /\ item'[i].recovery = 0
    BY <1>2, <2>1, SavedRow
  <2>2. ASSUME NEW w \in Workers, Marks(w)
        PROVE  FALSE
    BY <1>2, <2>2, MarkedRow DEF Terminal
  <2>3. ASSUME NEW S \in SUBSET Items, Loses(S)
        PROVE  FALSE
    BY <1>2, <2>3, UnknownRow DEF Loses, Terminal
  <2>. QED
    BY <1>2, <2>1, <2>2, <2>3, StillKeeps DEF Kinds, Quiet, Picks, ItemsKeep
<1>. QED
  BY <1>1, <1>2

(* How long a request has been out, after a step that is not its own.      *)
LEMMA WaitGrows ==
  ASSUME Typed, Typed', NEW w \in Workers, Keeps(w), proc'[w].pc = "request"
  PROVE  /\ At(w, "request") /\ proc[w].pc \in SentPC /\ proc[w].item \in Items
         /\ proc'[w].item = proc[w].item /\ proc'[w].token = proc[w].token
         /\ proc[w].age \in 0 .. Horizon /\ proc'[w].age \in 0 .. Horizon
         /\ proc'[w].age = proc[w].age \/ Tick
<1>1. proc[w] \in Local /\ proc'[w] \in Local
  BY DEF Typed, TypeOK, Processes
<1>2. proc'[w].pc \in ItemPC /\ At(w, "request")
  BY DEF Keeps, ItemPC, SentPC, At
<1>. QED
  BY <1>1, <1>2, KeptInHand DEF Keeps, Local, At, SentPC

LEMMA WaitsKept ==
  ASSUME Typed, Typed', FencedRows, RequestsWait, Kinds,
         NEW w \in Workers, Keeps(w), proc'[w].pc = "request"
  PROVE  Waits(w, proc[w].item)'
<1>. DEFINE i == proc[w].item
<1>1. /\ At(w, "request") /\ proc[w].pc \in SentPC /\ i \in Items
      /\ proc'[w].item = i /\ proc'[w].token = proc[w].token
      /\ proc[w].age \in 0 .. Horizon /\ proc'[w].age \in 0 .. Horizon
      /\ proc'[w].age = proc[w].age \/ Tick
  BY WaitGrows
<1>2. Waits(w, i)
  BY <1>1 DEF RequestsWait
<1>3. /\ item[i].recovery \in Nat /\ item'[i].recovery \in Nat
      /\ item[i].token = IF item[i].status = "PROCESSING" THEN item[i].sent ELSE 0
      /\ Horizon \in Nat /\ RecoveryGrace \in 0 .. Horizon
  BY <1>1, TimesAssumption DEF FencedRows, Tokens, Typed, TypeOK, StoreTypeOK, ItemRow
<1>4. CASE Tick
  <2>1. proc'[w].age = IF proc[w].age < Horizon THEN proc[w].age + 1 ELSE proc[w].age
    BY <1>1, <1>4, TickLocal DEF Aging, At, Processes
  <2>2. /\ item'[i].status = item[i].status /\ item'[i].sent = item[i].sent
        /\ item'[i].recovery = Elapse(item[i].recovery, 0)
    BY <1>1, <1>4 DEF Tick, StoreTick, Typed, TypeOK, StoreTypeOK, ItemRow
  <2>. QED
    BY <1>1, <1>2, <1>3, <2>1, <2>2 DEF Waits, Elapse
<1>5. CASE ~Tick
  <2>1. proc'[w].age = proc[w].age
    BY <1>1, <1>5
  <2>2. item'[i] = item[i] => Waits(w, i)'
    BY <1>1, <1>2, <2>1 DEF Waits
  <2>3. ASSUME NEW v \in Workers, Marks(v), proc[v].item = i
        PROVE  Waits(w, i)'
    <3>1. item[i].status # "PROCESSING"
      BY <2>3, MarkedRow
    <3>2. item[i].status = "IN_FLIGHT_UNKNOWN" => item[i].recovery = 0
      BY <2>3 DEF Marks, Claimable, Selectable
    <3>. QED
      BY <1>1, <1>2, <1>3, <2>1, <3>1, <3>2 DEF Waits
  <2>4. ASSUME NEW v \in Workers, Saves(v), proc[v].item = i
        PROVE  Waits(w, i)'
    <3>1. v # w /\ proc[v].pc \in SentPC /\ HoldsItem(i, proc[v].token)
      BY <1>1, <2>4, SavedRow DEF Saves, At, SentPC
    <3>2. proc[v].token # proc[w].token
      BY <1>1, <2>4, <3>1 DEF FencedRows, Tokens
    <3>3. item[i].status = "PROCESSING" /\ item[i].token = proc[v].token
      BY <3>1 DEF HoldsItem
    <3>. QED
      BY <1>1, <1>2, <1>3, <2>1, <3>2, <3>3 DEF Waits
  <2>5. ASSUME NEW S \in SUBSET Items, Loses(S), i \in S
        PROVE  Waits(w, i)'
    <3>1. /\ item[i].status = "PROCESSING" /\ item'[i].status = "IN_FLIGHT_UNKNOWN"
          /\ item'[i].sent = item[i].sent /\ item'[i].recovery = RecoveryGrace
      BY <1>1, <2>5, RowTyped DEF Loses, InFlightUnknown, ItemRow
    <3>. QED
      BY <1>1, <1>2, <1>3, <2>1, <3>1 DEF Waits
  <2>6. CASE Still
    BY <1>5, <2>2, <2>6 DEF Still
  <2>7. ASSUME NEW v \in Workers, Picks(v) \/ Marks(v) \/ Saves(v)
        PROVE  Waits(w, i)'
    BY <1>1, <2>2, <2>3, <2>4, <2>7, MarkedRow, SavedRow DEF Picks
  <2>8. ASSUME NEW S \in SUBSET Items, Loses(S)
        PROVE  Waits(w, i)'
    BY <1>1, <2>2, <2>5, <2>8 DEF Loses
  <2>. QED
    BY <2>6, <2>7, <2>8 DEF Kinds, Quiet
<1>. QED
  BY <1>1, <1>4, <1>5

LEMMA RequestsWaitKept ==
  ASSUME Typed, Typed', FencedRows, RequestsWait, Kinds
  PROVE  RequestsWait'
<1>. SUFFICES ASSUME NEW w \in Workers, proc'[w].pc = "request"
              PROVE  Waits(w, proc[w].item)'
  BY DEF RequestsWait, At
<1>1. CASE Keeps(w)
  BY <1>1, WaitsKept
<1>2. CASE Picks(w)
  BY <1>2 DEF Picks
<1>3. CASE Marks(w)
  BY <1>3, MarkedRow DEF Marks, Waits
<1>. QED
  BY <1>1, <1>2, <1>3 DEF Kinds, Quiet, Saves, Loses, AllKeep, Picks, Marks

ItemPromises == Fencing /\ SettledRows /\ RequestsWait

LEMMA ItemPromisesHold == Spec => []ItemPromises
<1>1. Init => ItemPromises
  <2>. SUFFICES ASSUME Init PROVE ItemPromises
    OBVIOUS
  <2>1. \A i \in Items : item[i].status = "PENDING"
    BY DEF Init, StoreInit
  <2>2. \A w \in Workers : proc[w].pc = "new"
    BY FreshTyped DEF Init, Processes
  <2>. QED
    BY <2>1, <2>2, FencingInit DEF ItemPromises, SettledRows, RequestsWait, At, Terminal
<1>2. ItemPromises /\ [Next]_vars => ItemPromises'
  <2>. SUFFICES ASSUME ItemPromises, [Next]_vars PROVE ItemPromises'
    OBVIOUS
  <2>1. Fencing'
    BY FencingStep DEF ItemPromises
  <2>2. Typed /\ Typed' /\ FencedRows /\ SettledRows /\ RequestsWait
    BY <2>1 DEF ItemPromises, Fencing, Typed, FencedRows
  <2>3. Kinds
    BY <2>2, StepKinds
  <2>. QED
    BY <2>1, <2>2, <2>3, SettledRowsKept, RequestsWaitKept DEF ItemPromises
<1>. QED
  BY <1>1, <1>2, PTL DEF Spec

(* A settled number is never written again: every statement on items asks  *)
(* for a status or a token that a settled row does not have.               *)
THEOREM TerminalRowsStay == Spec => TerminalStays
<1>. DEFINE Step == \A i \in Items : item[i].status \in Terminal => item'[i] = item[i]
<1>1. ItemPromises /\ ItemPromises' /\ [Next]_vars => [Step]_vars
  <2>. SUFFICES ASSUME ItemPromises, ItemPromises', [Next]_vars PROVE Step
    OBVIOUS
  <2>1. Typed /\ Typed' /\ FencedRows /\ SettledRows
    BY DEF ItemPromises, Fencing, Typed, FencedRows
  <2>. QED
    BY <2>1, StepKinds, TerminalKept
<1>. HIDE DEF Step
<1>2. Spec => [][Step]_vars
  BY <1>1, ItemPromisesHold, PTL DEF Spec
<1>. QED
  BY <1>2 DEF TerminalStays, Step

(* Two requests for one number are on the wire together only if the older  *)
(* has been out for the whole recovery grace (in_flight_recovery_grace).   *)
THEOREM OverlapInvariant == Spec => []OverlapNeedsGrace
<1>1. ItemPromises => OverlapNeedsGrace
  <2>. SUFFICES ASSUME ItemPromises, NEW v \in Workers, NEW w \in Workers,
                       At(v, "request"), At(w, "request"),
                       proc[v].item = proc[w].item, proc[v].token < proc[w].token
                PROVE  proc[v].age >= RecoveryGrace
    BY DEF OverlapNeedsGrace
  <2>. DEFINE i == proc[v].item
  <2>1. Typed /\ Tokens /\ Waits(v, i)
    BY DEF ItemPromises, Fencing, Typed, RequestsWait
  <2>2. i \in Items /\ item[i].sent \in Nat
    BY <2>1, InHand, RowTyped DEF At, ItemPC, SentPC
  <2>3. proc[v].token \in 1 .. item[i].sent /\ proc[w].token \in 1 .. item[i].sent
    BY <2>1 DEF Tokens, At, SentPC
  <2>. QED
    BY <2>1, <2>2, <2>3 DEF Waits
<1>. QED
  BY <1>1, ItemPromisesHold, PTL

-----------------------------------------------------------------------------
(* What a step does to the rows of jobs.                                   *)

OverStatus == {"COMPLETED", "CANCELLED", "FAILED"}

RowBecomes(j, s, owner, lease) ==
  /\ job'[j].status = s /\ job'[j].worker = owner /\ job'[j].lease = lease
  /\ \A k \in Jobs \ {j} : job'[k] = job[k]

Rewrites(j, s) == RowBecomes(j, s, job[j].worker, job[j].lease)

LEMMA JobStatements ==
  ASSUME TypeOK, NEW j \in Jobs
  PROVE  /\ \A s : UpdateStatus(j, s) \/ SettleStatus(j, s) => Rewrites(j, s)
         /\ \A c : SetCommand(j, c) => Rewrites(j, job[j].status)
         /\ ClearWorkerOwnership(j) => RowBecomes(j, job[j].status, None, Past)
         /\ RenewWorker(j) => RowBecomes(j, job[j].status, job[j].worker, LeaseSeconds)
         /\ \A w : AcknowledgePause(w, j)
                     => job' = job \/ RowBecomes(j, "PAUSED", None, Past)
         /\ \A w, age : ClaimWorker(w, j, age)
                          => RowBecomes(j, job[j].status, w, LeaseSeconds - age)
<1>1. job \in [Jobs -> JobRow] /\ job[j] \in JobRow
  BY DEF TypeOK, StoreTypeOK
<1>2. ASSUME NEW r, job' = [job EXCEPT ![j] = r]
      PROVE  RowBecomes(j, r.status, r.worker, r.lease)
  BY <1>1, <1>2 DEF RowBecomes
<1>3. ASSUME NEW s, UpdateStatus(j, s) \/ SettleStatus(j, s)
      PROVE  Rewrites(j, s)
  <2>. DEFINE a == [job[j] EXCEPT !.status = s]
              b == [job[j] EXCEPT !.status = s, !.cmd = "NONE"]
  <2>1. /\ a.status = s /\ a.worker = job[j].worker /\ a.lease = job[j].lease
        /\ b.status = s /\ b.worker = job[j].worker /\ b.lease = job[j].lease
    BY <1>1 DEF JobRow
  <2>2. job' = [job EXCEPT ![j] = a] \/ job' = [job EXCEPT ![j] = b]
    BY <1>3 DEF UpdateStatus, SettleStatus
  <2>. HIDE DEF a, b
  <2>. QED
    BY <1>2, <2>1, <2>2 DEF Rewrites
<1>4. ASSUME NEW c, SetCommand(j, c)
      PROVE  Rewrites(j, job[j].status)
  BY <1>1, <1>4 DEF SetCommand, Rewrites, RowBecomes, JobRow
<1>5. ASSUME ClearWorkerOwnership(j)
      PROVE  RowBecomes(j, job[j].status, None, Past)
  <2>. DEFINE a == [job[j] EXCEPT !.worker = None, !.lease = Past]
  <2>1. a.status = job[j].status /\ a.worker = None /\ a.lease = Past
    BY <1>1 DEF JobRow
  <2>2. job' = [job EXCEPT ![j] = a]
    BY <1>5 DEF ClearWorkerOwnership
  <2>. HIDE DEF a
  <2>. QED
    BY <1>2, <2>1, <2>2
<1>6. ASSUME RenewWorker(j)
      PROVE  RowBecomes(j, job[j].status, job[j].worker, LeaseSeconds)
  BY <1>1, <1>6 DEF RenewWorker, RowBecomes, JobRow
<1>7. ASSUME NEW w, AcknowledgePause(w, j)
      PROVE  job' = job \/ RowBecomes(j, "PAUSED", None, Past)
  BY <1>1, <1>7 DEF AcknowledgePause, RowBecomes
<1>8. ASSUME NEW w, NEW age, ClaimWorker(w, j, age)
      PROVE  RowBecomes(j, job[j].status, w, LeaseSeconds - age)
  <2>. DEFINE a == [job[j] EXCEPT !.worker = w, !.lease = LeaseSeconds - age]
  <2>1. a.status = job[j].status /\ a.worker = w /\ a.lease = LeaseSeconds - age
    BY <1>1 DEF JobRow
  <2>2. job' = [job EXCEPT ![j] = a]
    BY <1>8 DEF ClaimWorker
  <2>. HIDE DEF a
  <2>. QED
    BY <1>2, <2>1, <2>2
<1>. QED
  BY <1>3, <1>4, <1>5, <1>6, <1>7, <1>8

(* The ways a step may change the row of j.  A job ends by a write of its  *)
(* owner at the end of its run, or by a cancel that finds it unowned.      *)
OwnersWrite(w, j) ==
  /\ JobOf(w) = j /\ OwnsJob(w, j)
  /\ \/ RowBecomes(j, job[j].status, job[j].worker, LeaseSeconds)
     \/ At(w, "settle") /\ \E s \in JobStatus \ {"COMPLETED"} : Rewrites(j, s)
     \/ At(w, "finish") /\ Rewrites(j, "COMPLETED")

Claims(w, j) ==
  /\ ClaimJob(w) /\ JobOf(w) = j
  /\ Takeable(job[j], proc[w].age)
  /\ RowBecomes(j, job[j].status, w, LeaseSeconds - proc[w].age)

RowChanges(j) ==
  \/ \E s \in {job[j].status} \cup (JobStatus \ OverStatus) :
       Rewrites(j, s) \/ RowBecomes(j, s, None, Past)
  \/ Takeable(job[j], 0) /\ Rewrites(j, "CANCELLED")
  \/ \E w \in Workers : OwnersWrite(w, j) \/ Claims(w, j)

JobKinds == job' = job \/ Tick \/ \E j \in Jobs : RowChanges(j)

LEMMA JobStep ==
  ASSUME Typed, [Next]_vars
  PROVE  JobKinds
<1>1. TypeOK
  BY DEF Typed
<1>2. \A p \in Processes : ~At(p, "new") => JobOf(p) \in Jobs
  BY DEF Typed, WellFormed
<1>3. ASSUME NEW j \in Jobs, NEW s \in {job[j].status} \cup (JobStatus \ OverStatus),
             Rewrites(j, s) \/ RowBecomes(j, s, None, Past)
      PROVE  JobKinds
  BY <1>3 DEF JobKinds, RowChanges
<1>4. ASSUME NEW p \in Workers \cup Monitors, Recover(p)
      PROVE  JobKinds
  <2>1. JobOf(p) \in Jobs
    BY <1>2, <1>4 DEF Processes, At, Recover, RecoverRead, RecoverJobLease,
       RecoverAccountLease, RecoverRelease, RecoverClear, RecoverPause, RecoverItems
  <2>2. job' = job \/ ClearWorkerOwnership(JobOf(p)) \/ UpdateStatus(JobOf(p), "PAUSED")
    BY <1>4 DEF Recover, RecoverRead, RecoverJobLease, RecoverAccountLease,
                RecoverRelease, RecoverClear, RecoverPause, RecoverItems, rows
  <2>. QED
    BY <1>1, <1>3, <2>1, <2>2, JobStatements DEF JobKinds, JobStatus, OverStatus
<1>5. ASSUME NEW w \in Workers, Claim(w)
      PROVE  JobKinds
  <2>1. JobOf(w) \in Jobs
    BY <1>2, <1>5 DEF Processes, At, Claim, Policy, ClaimJob, SelectAccount,
                      ClaimAccountRow, Rollback, Start, Connect
  <2>2. CASE ClaimJob(w) /\ job' # job
    <3>1. Takeable(job[JobOf(w)], proc[w].age) /\ ClaimWorker(w, JobOf(w), proc[w].age)
      BY <2>2 DEF ClaimJob
    <3>2. Claims(w, JobOf(w))
      BY <1>1, <2>1, <2>2, <3>1, JobStatements DEF Claims
    <3>. QED
      BY <2>1, <3>2 DEF JobKinds, RowChanges
  <2>3. CASE ~ClaimJob(w)
    <3>1. \/ job' = job \/ ClearWorkerOwnership(JobOf(w))
          \/ SettleStatus(JobOf(w), "RUNNING")
      BY <1>5, <2>3 DEF Claim, Policy, SelectAccount, ClaimAccountRow, Rollback, Start,
                        Connect, ReleaseWorker, rows
    <3>. QED
      BY <1>1, <1>3, <2>1, <3>1, JobStatements DEF JobKinds, JobStatus, OverStatus
  <2>. QED
    BY <2>2, <2>3 DEF JobKinds
<1>6. ASSUME NEW w \in Workers, Process(w)
      PROVE  JobKinds
  <2>1. job' = job \/ SetCommand(JobOf(w), "NONE") \/ AcknowledgePause(w, JobOf(w))
    BY <1>6 DEF Process, Poll, ClearCommand, AckPause, Gate, Acquire, Mark, Respond,
                CancelRequest, Quarantine, Save, Abandon, rows
  <2>2. JobOf(w) \in Jobs \/ job' = job
    BY <1>2, <1>6 DEF Processes, At, Process, Poll, ClearCommand, AckPause, Gate, Acquire,
                Mark, Respond, CancelRequest, Quarantine, Save, Abandon, rows
  <2>. QED
    BY <1>1, <1>3, <2>1, <2>2, JobStatements DEF JobKinds, JobStatus, OverStatus
<1>7. ASSUME NEW w \in Workers, Cleanup(w)
      PROVE  JobKinds
  <2>. DEFINE j == JobOf(w)
  <2>1. j \in Jobs
    BY <1>2, <1>7 DEF Processes, At, Cleanup, SettleJob, FinishJob, Disconnect,
                      ReleaseAccountRow, ReleaseJob
  <2>2. CASE SettleJob(w) /\ job' # job
    <3>1. /\ At(w, "settle") /\ OwnsJob(w, j)
          /\ \E s \in JobStatus \ {"COMPLETED"} : UpdateStatus(j, s) \/ SettleStatus(j, s)
      BY <2>2 DEF SettleJob, UpdateStatusIfOwned, JobStatus
    <3>2. OwnersWrite(w, j)
      BY <1>1, <2>1, <3>1, JobStatements DEF OwnersWrite
    <3>. QED
      BY <2>1, <3>2 DEF JobKinds, RowChanges
  <2>3. CASE FinishJob(w) /\ job' # job
    <3>1. At(w, "finish") /\ OwnsJob(w, j) /\ UpdateStatus(j, "COMPLETED")
      BY <2>3 DEF FinishJob, UpdateStatusIfOwned
    <3>2. OwnersWrite(w, j)
      BY <1>1, <2>1, <3>1, JobStatements DEF OwnersWrite
    <3>. QED
      BY <2>1, <3>2 DEF JobKinds, RowChanges
  <2>4. CASE Disconnect(w) \/ ReleaseAccountRow(w) \/ ReleaseJob(w)
    <3>1. job' = job \/ ClearWorkerOwnership(j)
      BY <2>4 DEF Disconnect, ReleaseAccountRow, ReleaseJob, ReleaseWorker, rows
    <3>. QED
      BY <1>1, <1>3, <2>1, <3>1, JobStatements DEF JobKinds
  <2>. QED
    BY <1>7, <2>2, <2>3, <2>4 DEF Cleanup, JobKinds
<1>8. ASSUME NEW w \in Workers, Refresh(w) \/ Heartbeat(w) \/ Fault(w)
      PROVE  JobKinds
  <2>. DEFINE j == JobOf(w)
  <2>1. \/ job' = job
        \/ OwnsJob(w, j) /\ RenewWorker(j)
        \/ \E s \in JobStatus \ OverStatus : UpdateStatus(j, s)
    BY <1>8 DEF Refresh, Heartbeat, Renewable, Fault, ConnectFails, LoopFault, Shutdown,
                Crash, JobStatus, OverStatus, rows
  <2>2. j \in Jobs \/ job' = job
    BY <1>2, <1>8 DEF Processes, At, Refresh, Heartbeat, Suspended, Processing, Fault,
                      ConnectFails, LoopFault, Shutdown, Crash, rows
  <2>3. j \in Jobs /\ OwnsJob(w, j) /\ RenewWorker(j) => OwnersWrite(w, j)
    BY <1>1, JobStatements DEF OwnersWrite
  <2>. QED
    BY <1>1, <1>3, <2>1, <2>2, <2>3, JobStatements DEF JobKinds, RowChanges
<1>9. ASSUME NEW o \in Operators, Operate(o)
      PROVE  JobKinds
  <2>. DEFINE j == JobOf(o)
  <2>1. j \in Jobs
    BY <1>2, <1>9 DEF Processes, At, Operate, SetPause, ForcePause, ResumeCheck, ResumeClear,
                      ResumeStart, SetCancel, CancelCheck, CancelMark
  <2>2. \/ job' = job
        \/ \E s \in JobStatus \ OverStatus : UpdateStatus(j, s) \/ SettleStatus(j, s)
        \/ \E c \in JobCommand : SetCommand(j, c)
        \/ Takeable(job[j], 0) /\ SettleStatus(j, "CANCELLED")
    BY <1>9 DEF Operate, SetPause, ForcePause, ResumeCheck, ResumeClear, ResumeStart,
                SetCancel, CancelCheck, CancelMark, JobStatus, OverStatus, JobCommand, rows
  <2>3. CASE Takeable(job[j], 0) /\ SettleStatus(j, "CANCELLED")
    BY <1>1, <2>1, <2>3, JobStatements DEF JobKinds, RowChanges
  <2>. QED
    BY <1>1, <1>3, <2>1, <2>2, <2>3, JobStatements DEF JobKinds
<1>10. ASSUME NEW p \in Processes, NEW j \in Jobs, Run(p, j) \/ Scan(p, j) \/ OperatorRead(p, j)
       PROVE  JobKinds
  BY <1>10 DEF Run, Scan, OperatorRead, rows, JobKinds
<1>11. CASE UNCHANGED vars
  BY <1>11 DEF vars, rows, JobKinds
<1>12. CASE Tick
  BY <1>12 DEF JobKinds
<1>. QED
  BY <1>4, <1>5, <1>6, <1>7, <1>8, <1>9, <1>10, <1>11, <1>12 DEF Next, Progress, Processes

-----------------------------------------------------------------------------
(* What a step does to the rows of accounts.                               *)

SameHolder(a) == /\ account'[a].worker = account[a].worker
                 /\ account'[a].job = account[a].job

Frees(w, a) ==
  /\ account[a].worker = w /\ account'[a].worker = None
  /\ \/ ReleaseAccountRow(w)
     \/ \E p \in Workers \cup Monitors :
          /\ RecoverRelease(p) /\ proc[p].seen = w
          /\ a = AccountOf[JobOf(p)] /\ account[a].job = JobOf(p)

Takes(w, a) ==
  /\ ClaimAccountRow(w) /\ a = AccountOf[JobOf(w)]
  /\ Takeable(account[a], proc[w].age)
  /\ account'[a].worker = w /\ account'[a].job = JobOf(w)

AccountKind(a) ==
  \/ account'[a] = account[a]
  \/ SameHolder(a) /\ (account[a].lease > 0 \/ account'[a].lease <= account[a].lease)
  \/ \E w \in Workers : Frees(w, a) \/ Takes(w, a)

LEMMA AccountStatements ==
  ASSUME TypeOK, NEW w \in Workers, NEW j \in Jobs, NEW a \in Accounts
  PROVE  /\ RenewAccount(j) /\ OwnsAccount(w, j)
              => account'[a] = account[a] \/ (SameHolder(a) /\ account[a].lease > 0)
         /\ ReleaseAccount(w, j)
              => \/ account'[a] = account[a]
                 \/ /\ account[a].worker = w /\ account[a].job = j
                    /\ a = AccountOf[j] /\ account'[a].worker = None
         /\ \A age : ClaimAccount(w, j, age)
              => \/ account'[a] = account[a]
                 \/ /\ a = AccountOf[j]
                    /\ account'[a].worker = w /\ account'[a].job = j
<1>. account \in [Accounts -> AccountRow] /\ AccountOf[j] \in Accounts
  BY LayoutAssumption DEF TypeOK, StoreTypeOK
<1>1. RenewAccount(j) /\ OwnsAccount(w, j)
        => account'[a] = account[a] \/ (SameHolder(a) /\ account[a].lease > 0)
  <2>. SUFFICES ASSUME RenewAccount(j), OwnsAccount(w, j)
                PROVE  account'[a] = account[a] \/ (SameHolder(a) /\ account[a].lease > 0)
    OBVIOUS
  <2>1. CASE a # AccountOf[j]
    BY <2>1 DEF RenewAccount
  <2>2. CASE a = AccountOf[j]
    <3>1. account'[a] = [account[a] EXCEPT !.lease = LeaseSeconds]
      BY <2>2 DEF RenewAccount
    <3>2. account[a] \in AccountRow /\ account[a].lease > 0
      BY <2>2 DEF OwnsAccount
    <3>. QED
      BY <3>1, <3>2 DEF SameHolder, AccountRow
  <2>. QED
    BY <2>1, <2>2
<1>2. ReleaseAccount(w, j)
        => \/ account'[a] = account[a]
           \/ /\ account[a].worker = w /\ account[a].job = j
              /\ a = AccountOf[j] /\ account'[a].worker = None
  BY DEF ReleaseAccount, ClearAccount
<1>3. ASSUME NEW age, ClaimAccount(w, j, age)
      PROVE  \/ account'[a] = account[a]
             \/ /\ a = AccountOf[j]
                /\ account'[a].worker = w /\ account'[a].job = j
  BY <1>3 DEF ClaimAccount
<1>. QED
  BY <1>1, <1>2, <1>3

LEMMA AccountStep ==
  ASSUME Typed, [Next]_vars, NEW a \in Accounts
  PROVE  AccountKind(a)
<1>1. TypeOK /\ \A p \in Processes : ~At(p, "new") => JobOf(p) \in Jobs
  BY DEF Typed, WellFormed
<1>2. account' = account => AccountKind(a)
  BY DEF AccountKind
<1>3. ASSUME NEW p \in Workers \cup Monitors, RecoverRelease(p), account' # account
      PROVE  AccountKind(a)
  <2>1. JobOf(p) \in Jobs /\ ReleaseAccount(proc[p].seen, JobOf(p)) /\ proc[p].seen # None
    BY <1>1, <1>3 DEF RecoverRelease, At, Processes
  <2>2. proc[p].seen \in Workers
    BY <1>1, <2>1 DEF TypeOK, Local, Processes
  <2>. QED
    BY <1>1, <1>3, <2>1, <2>2, AccountStatements DEF AccountKind, Frees, Processes
<1>4. ASSUME NEW w \in Workers, ClaimAccountRow(w), account' # account
      PROVE  AccountKind(a)
  <2>. DEFINE j == JobOf(w)
  <2>1. /\ j \in Jobs /\ Takeable(account[AccountOf[j]], proc[w].age)
        /\ ClaimAccount(w, j, proc[w].age)
    BY <1>1, <1>4 DEF ClaimAccountRow, At, Processes
  <2>. QED
    BY <1>1, <1>4, <2>1, AccountStatements DEF AccountKind, Takes
<1>5. ASSUME NEW w \in Workers, ReleaseAccountRow(w)
      PROVE  AccountKind(a)
  <2>1. JobOf(w) \in Jobs /\ ReleaseAccount(w, JobOf(w))
    BY <1>1, <1>5 DEF ReleaseAccountRow, At, Processes
  <2>. QED
    BY <1>1, <1>5, <2>1, AccountStatements DEF AccountKind, Frees
<1>6. ASSUME NEW w \in Workers, Heartbeat(w), account' # account
      PROVE  AccountKind(a)
  <2>1. RenewAccount(JobOf(w)) /\ OwnsAccount(w, JobOf(w)) /\ JobOf(w) \in Jobs
    BY <1>1, <1>6 DEF Heartbeat, Suspended, Processing, At, Processes
  <2>. QED
    BY <1>1, <2>1, AccountStatements DEF AccountKind
<1>7. CASE Tick
  <2>1. account'[a] = [account[a] EXCEPT !.lease = Elapse(account[a].lease, Past)]
    BY <1>7 DEF Tick, StoreTick
  <2>2. account[a] \in AccountRow /\ Past \in Int
    BY <1>1, TimesAssumption DEF TypeOK, StoreTypeOK, Past
  <2>3. account[a].lease \in Int
    BY <2>2, TimesAssumption DEF AccountRow, Distance, Past
  <2>4. Elapse(account[a].lease, Past) <= account[a].lease
    BY <2>2, <2>3 DEF Elapse
  <2>. QED
    BY <2>1, <2>2, <2>4 DEF AccountKind, SameHolder, AccountRow
<1>8. ASSUME NEW p \in Workers \cup Monitors, Recover(p), ~RecoverRelease(p)
      PROVE  account' = account
  BY <1>8 DEF Recover, RecoverRead, RecoverJobLease, RecoverAccountLease, RecoverClear,
              RecoverPause, RecoverItems, rows
<1>9. ASSUME NEW w \in Workers, Claim(w) \/ Cleanup(w),
             ~ClaimAccountRow(w), ~ReleaseAccountRow(w)
      PROVE  account' = account
  BY <1>9 DEF Claim, Policy, ClaimJob, SelectAccount, Rollback, Start, Connect, Cleanup,
              SettleJob, FinishJob, Disconnect, ReleaseJob, rows
<1>10. ASSUME NEW w \in Workers, Process(w) \/ Refresh(w) \/ Fault(w)
       PROVE  account' = account
  BY <1>10 DEF Process, Poll, ClearCommand, AckPause, Gate, Acquire, Mark, Respond,
               CancelRequest, Quarantine, Save, Abandon, Refresh, Fault, ConnectFails,
               LoopFault, Shutdown, Crash, rows
<1>11. ASSUME NEW o \in Operators, Operate(o)
       PROVE  account' = account
  BY <1>11 DEF Operate, SetPause, ForcePause, ResumeCheck, ResumeClear, ResumeStart,
               SetCancel, CancelCheck, CancelMark, rows
<1>12. ASSUME NEW p \in Processes, NEW j \in Jobs,
              Run(p, j) \/ Scan(p, j) \/ OperatorRead(p, j)
       PROVE  account' = account
  BY <1>12 DEF Run, Scan, OperatorRead, rows
<1>13. CASE UNCHANGED vars
  BY <1>2, <1>13 DEF vars, rows
<1>. QED
  BY <1>2, <1>3, <1>4, <1>5, <1>6, <1>7, <1>8, <1>9, <1>10, <1>11, <1>12, <1>13
  DEF Next, Progress, Processes

-----------------------------------------------------------------------------
(* What a step does to a worker's place in its run.                        *)

StaysPut(p) ==
  /\ proc'[p].pc = proc[p].pc /\ proc'[p].job = proc[p].job
  /\ proc'[p].seen = proc[p].seen
  /\ proc'[p].age = proc[p].age \/ Tick

Passes(w, next) == proc'[w].pc = next

(* A recovery remembers an owner it read, then sees that the job lease,    *)
(* and after it the account lease, is over.                                *)
LookPC == {"recoverJobLease", "recoverAccountLease", "recoverRelease"}

Looks(p) ==
  \/ proc'[p].pc \notin LookPC
  \/ StaysPut(p)
  \/ /\ proc'[p].job = proc[p].job /\ job' = job /\ account' = account
     /\ \/ At(p, "recoverRead") /\ Passes(p, "recoverJobLease")
           /\ proc'[p].seen \in {None, job[JobOf(p)].worker}
        \/ At(p, "recoverJobLease") /\ Passes(p, "recoverAccountLease")
           /\ ~JobLive(JobOf(p)) /\ proc'[p].seen = proc[p].seen
        \/ At(p, "recoverAccountLease") /\ Passes(p, "recoverRelease")
           /\ ~AccountLiveFor(JobOf(p)) /\ proc'[p].seen = proc[p].seen

BusyPC == LoopPC \cup {"connect", "hung"}

(* Up to the connection.                                                   *)
Rises(w) ==
  \/ /\ proc[w].pc \in {"new"} \cup RecoverPC
     /\ proc'[w].pc \in RecoverPC \cup {"policy"} /\ Looks(w)
  \/ At(w, "policy") /\ Passes(w, "done")
  \/ /\ At(w, "policy") /\ Passes(w, "claimJob") /\ job' = job
     /\ ~Refused(job[JobOf(w)], w) /\ proc'[w].age = 0
  \/ At(w, "claimJob") /\ Passes(w, "done") /\ job' = job
  \/ ClaimJob(w) /\ Passes(w, "selectAccount")
  \/ At(w, "selectAccount") /\ Passes(w, "rollback") /\ account' = account
  \/ At(w, "selectAccount") /\ Passes(w, "claimAccount") /\ proc'[w].age = 0
  \/ At(w, "claimAccount") /\ Passes(w, "rollback") /\ account' = account
  \/ ClaimAccountRow(w) /\ Passes(w, "start")
  \/ Rollback(w) /\ Passes(w, "done")
  \/ At(w, "start") /\ Passes(w, "releaseAccount")
  \/ /\ At(w, "start") /\ Passes(w, "connect")
     /\ OwnsJob(w, JobOf(w)) /\ job'[JobOf(w)].status = "RUNNING"

(* From the connection to the end.                                         *)
Falls(w) ==
  \/ proc[w].pc \in BusyPC /\ proc'[w].pc \in BusyPC \cup {"settle", "disconnect"}
  \/ At(w, "settle") /\ proc'[w].pc \in {"settle", "disconnect"}
  \/ At(w, "settle") /\ Passes(w, "finish") /\ Unfinished(JobOf(w)) = {}
  \/ At(w, "finish") /\ Passes(w, "disconnect")
  \/ At(w, "disconnect") /\ Passes(w, "releaseAccount")
  \/ ReleaseAccountRow(w) /\ Passes(w, "releaseJob")
  \/ ReleaseJob(w) /\ Passes(w, "done")
  \/ proc[w].pc \notin {"new", "done", "dead"} /\ Passes(w, "dead")

Flows(w) == StaysPut(w) \/ Rises(w) \/ Falls(w)

LEMMA Sets ==
  ASSUME TypeOK, NEW p \in Processes, NEW r, proc' = [proc EXCEPT ![p] = r]
  PROVE  proc'[p] = r
  BY DEF TypeOK

LEMMA GoSets ==
  ASSUME TypeOK, NEW p \in Processes, NEW next, Go(p, next)
  PROVE  /\ proc'[p].pc = next /\ proc'[p].job = proc[p].job
         /\ proc'[p].seen = proc[p].seen /\ proc'[p].age = proc[p].age
  BY DEF TypeOK, Go, Local

LEMMA EndSets ==
  ASSUME TypeOK, NEW p \in Processes, NEW how, End(p, how)
  PROVE  proc'[p].pc = how
<1>. DEFINE r == [Fresh EXCEPT !.pc = how, !.job = JobOf(p)]
<1>1. r.pc = how
  BY FreshTyped DEF Local
<1>2. proc' = [proc EXCEPT ![p] = r]
  BY DEF End
<1>. HIDE DEF r
<1>. QED
  BY <1>1, <1>2, Sets

LEMMA SettleSets ==
  ASSUME TypeOK, NEW w \in Workers, NEW how, Settle(w, how) \/ LoseGate(w)
  PROVE  proc'[w].pc = "settle"
<1>. DEFINE d == Dropped(w)
            r == [d EXCEPT !.pc = "settle", !.outcome = how]
            s == [d EXCEPT !.pc = "settle", !.outcome = "lost", !.lost = TRUE]
<1>1. d \in Local /\ w \in Processes
  BY DroppedTyped DEF Processes
<1>2. proc' = [proc EXCEPT ![w] = r] \/ proc' = [proc EXCEPT ![w] = s]
  BY DEF Settle, LoseGate
<1>. HIDE DEF d
<1>3. r.pc = "settle" /\ s.pc = "settle"
  BY <1>1 DEF Local
<1>. HIDE DEF r, s
<1>. QED
  BY <1>1, <1>2, <1>3, Sets

(* A step is one process's, or a second.                                   *)
Alone(p) == \A q \in Processes \ {p} : proc'[q] = proc[q]

LEMMA AloneStays ==
  ASSUME NEW p \in Processes, Alone(p), NEW q \in Processes, q # p
  PROVE  StaysPut(q)
  BY DEF Alone, StaysPut

LEMMA SetsAlone ==
  ASSUME TypeOK, NEW p \in Processes,
         proc' = proc \/ \E r : proc' = [proc EXCEPT ![p] = r]
  PROVE  Alone(p)
  BY DEF Alone, TypeOK

LEMMA WorkerAlone ==
  ASSUME TypeOK, NEW w \in Workers,
         Progress(w) \/ Refresh(w) \/ Heartbeat(w) \/ Fault(w) \/ \E j \in Jobs : Run(w, j)
  PROVE  Alone(w)
<1>. w \in Processes
  BY DEF Processes
<1>1. CASE Recover(w) \/ \E j \in Jobs : Run(w, j)
  BY <1>1, SetsAlone DEF Run, Recover, RecoverRead, RecoverJobLease, RecoverAccountLease,
     RecoverRelease, RecoverClear, RecoverPause, RecoverItems, Recovered, Go, End
<1>2. CASE Claim(w)
  BY <1>2, SetsAlone DEF Claim, Policy, ClaimJob, SelectAccount, ClaimAccountRow, Rollback,
     Start, Connect, Go, End
<1>3. CASE Process(w)
  BY <1>3, SetsAlone DEF Process, Poll, ClearCommand, AckPause, Gate, Acquire, Mark, Respond,
     CancelRequest, Quarantine, Save, Abandon, Go, Settle, LoseGate, LoseRequest
<1>4. CASE Cleanup(w) \/ Refresh(w) \/ Heartbeat(w) \/ Fault(w)
  BY <1>4, SetsAlone DEF Cleanup, SettleJob, FinishJob, Disconnect, ReleaseAccountRow,
     ReleaseJob, Refresh, Heartbeat, Fault, ConnectFails, LoopFault, Shutdown, Crash,
     Go, End, Settle
<1>. QED
  BY <1>1, <1>2, <1>3, <1>4 DEF Progress

LEMMA OtherAlone ==
  ASSUME TypeOK, NEW p \in Monitors \cup Operators,
         Recover(p) \/ Operate(p) \/ \E j \in Jobs : Scan(p, j) \/ OperatorRead(p, j)
  PROVE  Alone(p)
<1>. p \in Processes
  BY DEF Processes
<1>1. CASE Recover(p) \/ \E j \in Jobs : Scan(p, j) \/ OperatorRead(p, j)
  BY <1>1, SetsAlone DEF Scan, OperatorRead, Recover, RecoverRead, RecoverJobLease,
     RecoverAccountLease, RecoverRelease, RecoverClear, RecoverPause, RecoverItems,
     Recovered, Go, End
<1>2. CASE Operate(p)
  BY <1>2, SetsAlone DEF Operate, SetPause, ForcePause, ResumeCheck, ResumeClear,
     ResumeStart, SetCancel, CancelCheck, CancelMark, Go, End
<1>. QED
  BY <1>1, <1>2

LEMMA RecoverFlows ==
  ASSUME TypeOK, NEW p \in Workers \cup Monitors, Recover(p)
  PROVE  /\ Looks(p)
         /\ proc[p].pc \in RecoverPC
         /\ p \in Workers => proc'[p].pc \in RecoverPC \cup {"policy"}
<1>1. p \in Processes /\ proc[p] \in Local
  BY DEF TypeOK, Processes
<1>2. ASSUME Recovered(p)
      PROVE  /\ proc'[p].pc \in {"policy", "done"}
             /\ p \in Workers => proc'[p].pc = "policy"
  <2>. DEFINE r == [proc[p] EXCEPT !.pc = "policy", !.seen = None, !.stale = FALSE]
  <2>1. r.pc = "policy"
    BY <1>1 DEF Local
  <2>2. IF p \in Workers THEN proc' = [proc EXCEPT ![p] = r] ELSE End(p, "done")
    BY <1>2 DEF Recovered
  <2>. HIDE DEF r
  <2>. QED
    BY <1>1, <2>1, <2>2, Sets, EndSets
<1>3. CASE RecoverRead(p)
  <2>. DEFINE running == job[JobOf(p)].status \in {"RUNNING", "RATE_LIMITED"}
              seen == IF running THEN job[JobOf(p)].worker ELSE None
              r == [proc[p] EXCEPT !.pc = "recoverJobLease", !.stale = running, !.seen = seen]
  <2>1. proc' = [proc EXCEPT ![p] = r] /\ At(p, "recoverRead") /\ UNCHANGED rows
    BY <1>3 DEF RecoverRead
  <2>2. seen \in {None, job[JobOf(p)].worker}
    OBVIOUS
  <2>. HIDE DEF seen, running
  <2>3. r.pc = "recoverJobLease" /\ r.job = proc[p].job /\ r.seen = seen
    BY <1>1 DEF Local
  <2>. HIDE DEF r
  <2>4. proc'[p] = r
    BY <1>1, <2>1, Sets
  <2>. QED
    BY <2>1, <2>2, <2>3, <2>4 DEF Looks, Passes, RecoverPC, At, rows
<1>4. CASE RecoverJobLease(p)
  BY <1>1, <1>2, <1>4, GoSets DEF RecoverJobLease, Looks, Passes, RecoverPC, LookPC, At, rows
<1>5. CASE RecoverAccountLease(p)
  <2>1. \/ Recovered(p)
        \/ Go(p, "recoverItems")
        \/ Go(p, "recoverRelease") /\ ~AccountLiveFor(JobOf(p))
    BY <1>5 DEF RecoverAccountLease
  <2>. QED
    BY <1>1, <1>2, <1>5, <2>1, GoSets
    DEF RecoverAccountLease, Looks, Passes, RecoverPC, LookPC, At, rows
<1>6. CASE RecoverRelease(p)
  <2>. DEFINE r == [proc[p] EXCEPT !.pc = "recoverClear", !.seen = None]
  <2>1. proc' = [proc EXCEPT ![p] = r] /\ At(p, "recoverRelease")
    BY <1>6 DEF RecoverRelease
  <2>2. r.pc = "recoverClear"
    BY <1>1 DEF Local
  <2>. HIDE DEF r
  <2>. QED
    BY <1>1, <2>1, <2>2, Sets DEF Looks, LookPC, RecoverPC, At
<1>7. CASE RecoverClear(p) \/ RecoverPause(p)
  BY <1>1, <1>7, GoSets DEF RecoverClear, RecoverPause, Looks, LookPC, RecoverPC, At
<1>8. CASE RecoverItems(p)
  BY <1>1, <1>2, <1>8 DEF RecoverItems, Looks, LookPC, RecoverPC, At
<1>. QED
  BY <1>3, <1>4, <1>5, <1>6, <1>7, <1>8 DEF Recover

LEMMA ClaimFlows ==
  ASSUME Typed, NEW w \in Workers, Claim(w)
  PROVE  Flows(w)
<1>0. TypeOK
  BY DEF Typed
<1>1. w \in Processes /\ proc[w] \in Local /\ 0 \in 0 .. Horizon
  BY <1>0, TimesAssumption DEF TypeOK, Processes
<1>2. CASE Policy(w)
  <2>1. CASE End(w, "done")
    BY <1>0, <1>1, <1>2, <2>1, EndSets DEF Policy, Flows, Rises, Passes
  <2>2. CASE ~End(w, "done")
    <3>1. PICK b : proc' = [proc EXCEPT ![w] = [@ EXCEPT !.pc = "claimJob", !.age = 0,
                                                         !.blocked = b]]
      BY <1>2, <2>2 DEF Policy
    <3>. DEFINE r == [proc[w] EXCEPT !.pc = "claimJob", !.age = 0, !.blocked = b]
    <3>2. r.pc = "claimJob" /\ r.age = 0
      BY <1>1 DEF Local
    <3>3. proc' = [proc EXCEPT ![w] = r]
      BY <3>1
    <3>. HIDE DEF r
    <3>4. proc'[w] = r
      BY <1>0, <1>1, <3>3, Sets
    <3>. QED
      BY <1>2, <2>2, <3>2, <3>4 DEF Policy, Flows, Rises, Passes, rows
  <2>. QED
    BY <2>1, <2>2
<1>3. CASE ClaimJob(w)
  BY <1>0, <1>1, <1>3, GoSets, EndSets DEF ClaimJob, Flows, Rises, Passes
<1>4. CASE SelectAccount(w)
  <2>1. CASE Go(w, "rollback")
    BY <1>0, <1>1, <1>4, <2>1, GoSets DEF SelectAccount, Flows, Rises, Passes, rows
  <2>2. CASE ~Go(w, "rollback")
    <3>. DEFINE r == [proc[w] EXCEPT !.pc = "claimAccount", !.age = 0]
    <3>1. proc' = [proc EXCEPT ![w] = r]
      BY <1>4, <2>2 DEF SelectAccount
    <3>2. r.pc = "claimAccount" /\ r.age = 0
      BY <1>1 DEF Local
    <3>. HIDE DEF r
    <3>3. proc'[w] = r
      BY <1>0, <1>1, <3>1, Sets
    <3>. QED
      BY <1>4, <3>2, <3>3 DEF SelectAccount, Flows, Rises, Passes
  <2>. QED
    BY <2>1, <2>2
<1>5. CASE ClaimAccountRow(w)
  BY <1>0, <1>1, <1>5, GoSets DEF ClaimAccountRow, Flows, Rises, Passes
<1>6. CASE Rollback(w)
  BY <1>0, <1>1, <1>6, EndSets DEF Rollback, Flows, Rises, Passes
<1>7. CASE Start(w)
  <2>1. CASE Go(w, "releaseAccount")
    BY <1>0, <1>1, <1>7, <2>1, GoSets DEF Start, Flows, Rises, Passes
  <2>2. CASE ~Go(w, "releaseAccount")
    <3>1. /\ OwnsJob(w, JobOf(w)) /\ SettleStatus(JobOf(w), "RUNNING")
          /\ Go(w, "connect") /\ At(w, "start")
      BY <1>7, <2>2 DEF Start
    <3>2. JobOf(w) \in Jobs
      BY <1>1, <3>1 DEF Typed, WellFormed, At
    <3>3. job'[JobOf(w)].status = "RUNNING"
      BY <1>0, <3>1, <3>2, JobStatements DEF Rewrites, RowBecomes
    <3>. QED
      BY <1>0, <1>1, <3>1, <3>3, GoSets DEF Flows, Rises, Passes
  <2>. QED
    BY <2>1, <2>2
<1>8. CASE Connect(w)
  BY <1>0, <1>1, <1>8, GoSets DEF Connect, Flows, Falls, BusyPC, LoopPC, At
<1>. QED
  BY <1>2, <1>3, <1>4, <1>5, <1>6, <1>7, <1>8 DEF Claim

(* A step of the worker loop stays in it or ends it.                       *)
LEMMA LoopFlows ==
  ASSUME TypeOK, NEW w \in Workers, Process(w)
  PROVE  Flows(w)
<1>. DEFINE Ends == proc'[w].pc \in BusyPC \cup {"settle"}
<1>1. w \in Processes /\ proc[w] \in Local
  BY DEF TypeOK, Processes
<1>2. \A next \in BusyPC : Go(w, next) => Ends
  BY <1>1, GoSets
<1>3. LoseGate(w) \/ (\E how : Settle(w, how)) => Ends
  BY SettleSets
<1>4. ASSUME NEW r, r.pc \in BusyPC \cup {"settle"}, proc' = [proc EXCEPT ![w] = r]
      PROVE  Ends
  BY <1>1, <1>4, Sets
<1>5. CASE Poll(w)
  <2>. DEFINE cmd == job[JobOf(w)].cmd
              next == IF cmd = "NONE" THEN "gate" ELSE "clearCommand"
              r == [proc[w] EXCEPT !.command = cmd, !.pc = next]
  <2>1. Settle(w, "lost") \/ proc' = [proc EXCEPT ![w] = r]
    BY <1>5 DEF Poll
  <2>2. next \in BusyPC
    BY DEF BusyPC, LoopPC
  <2>. HIDE DEF cmd, next
  <2>3. r.pc = next
    BY <1>1 DEF Local
  <2>. HIDE DEF r
  <2>. QED
    BY <1>3, <1>4, <1>5, <2>1, <2>2, <2>3 DEF Poll, Flows, Falls, BusyPC, LoopPC
<1>6. CASE ClearCommand(w) \/ AckPause(w)
  BY <1>2, <1>3, <1>6 DEF ClearCommand, AckPause, At, Flows, Falls, BusyPC, LoopPC
<1>7. CASE Gate(w)
  <2>1. ASSUME NEW b, proc' = [proc EXCEPT ![w] = [@ EXCEPT !.pc = "sleep", !.rated = b]]
        PROVE  Ends
    <3>. DEFINE r == [proc[w] EXCEPT !.pc = "sleep", !.rated = b]
    <3>1. proc' = [proc EXCEPT ![w] = r]
      BY <2>1
    <3>2. r.pc = "sleep"
      BY <1>1 DEF Local
    <3>. HIDE DEF r
    <3>. QED
      BY <1>4, <3>1, <3>2 DEF BusyPC, LoopPC
  <2>2. ASSUME proc' = [proc EXCEPT ![w] = [@ EXCEPT !.pc = "settle", !.rated = FALSE,
                                                     !.outcome = "drained"]]
        PROVE  Ends
    <3>. DEFINE r == [proc[w] EXCEPT !.pc = "settle", !.rated = FALSE, !.outcome = "drained"]
    <3>1. proc' = [proc EXCEPT ![w] = r]
      BY <2>2
    <3>2. r.pc = "settle"
      BY <1>1 DEF Local
    <3>. HIDE DEF r
    <3>. QED
      BY <1>4, <3>1, <3>2
  <2>3. ASSUME NEW i, proc' = [proc EXCEPT ![w] = [@ EXCEPT !.pc = "acquire", !.rated = FALSE,
                                                            !.item = i,
                                                            !.attempt = item[i].attempts]]
        PROVE  Ends
    <3>. DEFINE a == [proc[w] EXCEPT !.pc = "acquire", !.rated = FALSE]
                r == [a EXCEPT !.item = i, !.attempt = item[i].attempts]
    <3>1. proc' = [proc EXCEPT ![w] = r]
      BY <2>3
    <3>2. "acquire" \in PC /\ "acquire" \in BusyPC
      BY DEF PC, BusyPC, LoopPC
    <3>3. a \in Local /\ a.pc = "acquire"
      BY <1>1, <3>2 DEF Local
    <3>. HIDE DEF a
    <3>4. r.pc = "acquire"
      BY <3>3 DEF Local
    <3>. HIDE DEF r
    <3>. QED
      BY <1>4, <3>1, <3>2, <3>4
  <2>4. Ends
    BY <1>3, <1>7, <2>1, <2>2, <2>3 DEF Gate
  <2>. QED
    BY <1>7, <2>4 DEF Gate, At, Flows, Falls, BusyPC, LoopPC
<1>8. CASE Acquire(w)
  BY <1>2, <1>3, <1>8 DEF Acquire, At, Flows, Falls, BusyPC, LoopPC
<1>9. CASE Mark(w)
  <2>1. ASSUME NEW n, proc' = [proc EXCEPT ![w] = [@ EXCEPT !.pc = "request", !.age = 0,
                                                            !.token = n]]
        PROVE  Ends
    <3>. DEFINE r == [proc[w] EXCEPT !.pc = "request", !.age = 0, !.token = n]
    <3>1. proc' = [proc EXCEPT ![w] = r]
      BY <2>1
    <3>2. r.pc = "request"
      BY <1>1 DEF Local
    <3>. HIDE DEF r
    <3>. QED
      BY <1>4, <3>1, <3>2 DEF BusyPC, LoopPC
  <2>2. Ends
    BY <1>2, <1>9, <2>1 DEF Mark, BusyPC, LoopPC
  <2>. QED
    BY <1>9, <2>2 DEF Mark, At, Flows, Falls, BusyPC, LoopPC
<1>10. CASE Respond(w) \/ CancelRequest(w)
  <2>1. LoseRequest(w) => Ends
    <3>. DEFINE r == [proc[w] EXCEPT !.pc = "quarantine", !.lost = TRUE]
    <3>1. r.pc = "quarantine"
      BY <1>1 DEF Local
    <3>2. LoseRequest(w) => proc' = [proc EXCEPT ![w] = r]
      BY DEF LoseRequest
    <3>. HIDE DEF r
    <3>. QED
      BY <1>4, <3>1, <3>2 DEF BusyPC, LoopPC
  <2>2. ASSUME NEW x, proc' = [proc EXCEPT ![w] = [@ EXCEPT !.pc = "save", !.answer = x]]
        PROVE  Ends
    <3>. DEFINE r == [proc[w] EXCEPT !.pc = "save", !.answer = x]
    <3>1. proc' = [proc EXCEPT ![w] = r]
      BY <2>2
    <3>2. r.pc = "save"
      BY <1>1 DEF Local
    <3>. HIDE DEF r
    <3>. QED
      BY <1>4, <3>1, <3>2 DEF BusyPC, LoopPC
  <2>3. Ends
    BY <1>10, <2>1, <2>2 DEF Respond, CancelRequest
  <2>. QED
    BY <1>10, <2>3 DEF Respond, CancelRequest, At, Flows, Falls, BusyPC, LoopPC
<1>11. CASE Quarantine(w) \/ Abandon(w)
  BY <1>3, <1>11 DEF Quarantine, Abandon, At, Flows, Falls, BusyPC, LoopPC
<1>12. CASE Save(w)
  <2>. DEFINE d == Dropped(w)
              limited == proc[w].answer = "RATE_LIMITED"
              next == IF Written(w) THEN "loop" ELSE "settle"
              end == IF Written(w) THEN "none" ELSE "lost"
  <2>1. PICK x \in RetryDelays :
          proc' = [proc EXCEPT ![w] =
             [d EXCEPT !.pc = next, !.outcome = end,
                       !.blocked = IF limited THEN x ELSE @, !.rated = @ \/ limited]]
    BY <1>12 DEF Save
  <2>2. d \in Local
    BY DroppedTyped
  <2>3. next \in PC /\ next \in BusyPC \cup {"settle"} /\ end \in Outcome
    BY DEF Outcome, PC, BusyPC, LoopPC, StopPC
  <2>. DEFINE a == [d EXCEPT !.pc = next, !.outcome = end]
              r == [a EXCEPT !.blocked = IF limited THEN x ELSE @, !.rated = @ \/ limited]
  <2>4. proc' = [proc EXCEPT ![w] = r]
    BY <2>1
  <2>. HIDE DEF d, next, end
  <2>5. a \in Local /\ a.pc = next
    BY <2>2, <2>3 DEF Local
  <2>. HIDE DEF a
  <2>6. r.pc = next
    BY <2>5 DEF Local
  <2>. HIDE DEF r
  <2>. QED
    BY <1>4, <1>12, <2>3, <2>4, <2>6 DEF Save, At, Flows, Falls, BusyPC, LoopPC
<1>. QED
  BY <1>5, <1>6, <1>7, <1>8, <1>9, <1>10, <1>11, <1>12 DEF Process

LEMMA EndFlows ==
  ASSUME TypeOK, NEW w \in Workers, Cleanup(w) \/ Fault(w)
  PROVE  Flows(w)
<1>1. w \in Processes /\ proc[w] \in Local
  BY DEF TypeOK, Processes
<1>2. CASE SettleJob(w)
  <2>1. \/ Go(w, "disconnect")
        \/ Go(w, "finish") /\ Unfinished(JobOf(w)) = {}
    BY <1>2 DEF SettleJob
  <2>. QED
    BY <1>1, <1>2, <2>1, GoSets DEF SettleJob, Flows, Falls, Passes
<1>3. CASE FinishJob(w) \/ Disconnect(w) \/ ReleaseAccountRow(w) \/ ReleaseJob(w)
  BY <1>1, <1>3, GoSets, EndSets
  DEF FinishJob, Disconnect, ReleaseAccountRow, ReleaseJob, Flows, Falls, Passes
<1>4. CASE ConnectFails(w) \/ LoopFault(w)
  BY <1>1, <1>4, GoSets, SettleSets
  DEF ConnectFails, LoopFault, At, Flows, Falls, BusyPC, LoopPC
<1>5. CASE Shutdown(w)
  BY <1>1, <1>5, GoSets, SettleSets
  DEF Shutdown, Processing, At, Flows, Falls, BusyPC, LoopPC
<1>6. CASE Crash(w)
  BY <1>1, <1>6, EndSets DEF Crash, Flows, Falls, Passes
<1>. QED
  BY <1>2, <1>3, <1>4, <1>5, <1>6 DEF Cleanup, Fault

(* The heartbeat and the status loop leave the worker where it is.         *)
LEMMA BeatFlows ==
  ASSUME TypeOK, NEW w \in Workers, Refresh(w) \/ Heartbeat(w)
  PROVE  StaysPut(w)
<1>1. w \in Processes /\ proc[w] \in Local
  BY DEF TypeOK, Processes
<1>2. CASE Refresh(w)
  BY <1>1, <1>2 DEF Refresh, StaysPut, TypeOK, Local
<1>3. CASE Heartbeat(w)
  <2>1. PICK f, l : proc' = [proc EXCEPT ![w] = [@ EXCEPT !.fails = f, !.lost = l]]
    BY <1>3 DEF Heartbeat
  <2>. DEFINE r == [proc[w] EXCEPT !.fails = f, !.lost = l]
  <2>2. /\ r.pc = proc[w].pc /\ r.job = proc[w].job /\ r.seen = proc[w].seen
        /\ r.age = proc[w].age
    BY <1>1 DEF Local
  <2>3. proc' = [proc EXCEPT ![w] = r]
    BY <2>1
  <2>. HIDE DEF r
  <2>. QED
    BY <1>1, <2>2, <2>3, Sets DEF StaysPut
<1>. QED
  BY <1>2, <1>3

LEMMA StartFlows ==
  ASSUME TypeOK, NEW p \in Processes, NEW j \in Jobs, Run(p, j) \/ Scan(p, j)
  PROVE  At(p, "new") /\ Passes(p, "recoverRead")
<1>. DEFINE r == [proc[p] EXCEPT !.pc = "recoverRead", !.job = j]
<1>1. proc' = [proc EXCEPT ![p] = r] /\ At(p, "new")
  BY DEF Run, Scan
<1>2. r.pc = "recoverRead"
  BY DEF TypeOK, Local
<1>. HIDE DEF r
<1>. QED
  BY <1>1, <1>2, Sets DEF Passes

LEMMA Flow ==
  ASSUME Typed, [Next]_vars, NEW w \in Workers
  PROVE  Flows(w)
<1>1. TypeOK /\ w \in Processes
  BY DEF Typed, Processes
<1>2. ASSUME NEW p \in Processes, p # w, Alone(p)
      PROVE  Flows(w)
  BY <1>1, <1>2, AloneStays DEF Flows
<1>3. CASE \/ \E j \in Jobs : Run(w, j)
           \/ Progress(w) \/ Refresh(w) \/ Heartbeat(w) \/ Fault(w)
  <2>1. CASE Recover(w)
    BY <1>1, <2>1, RecoverFlows DEF Flows, Rises
  <2>2. CASE \E j \in Jobs : Run(w, j)
    BY <1>1, <2>2, StartFlows DEF Flows, Rises, Passes, At, RecoverPC, Looks, LookPC
  <2>. QED
    BY <1>1, <1>3, <2>1, <2>2, ClaimFlows, LoopFlows, EndFlows, BeatFlows DEF Progress, Flows
<1>4. CASE Tick
  BY <1>1, <1>4, TickLocal DEF Flows, StaysPut
<1>5. CASE UNCHANGED vars
  BY <1>5 DEF vars, Flows, StaysPut
<1>6. ASSUME NEW v \in Workers,
             \/ \E j \in Jobs : Run(v, j)
             \/ Progress(v) \/ Refresh(v) \/ Heartbeat(v) \/ Fault(v)
      PROVE  Flows(w)
  BY <1>1, <1>2, <1>3, <1>6, WorkerAlone DEF Processes
<1>7. ASSUME NEW p \in Monitors \cup Operators,
             Recover(p) \/ Operate(p) \/ \E j \in Jobs : Scan(p, j) \/ OperatorRead(p, j)
      PROVE  Flows(w)
  <2>1. p # w /\ p \in Processes
    BY ProcessesAssumption DEF Processes
  <2>. QED
    BY <1>1, <1>2, <1>7, <2>1, OtherAlone
<1>. QED
  BY <1>4, <1>5, <1>6, <1>7 DEF Next

LEMMA LookStep ==
  ASSUME Typed, [Next]_vars, NEW p \in Workers \cup Monitors
  PROVE  Looks(p)
<1>1. TypeOK /\ p \in Processes
  BY DEF Typed, Processes
<1>2. ASSUME NEW q \in Processes, q # p, Alone(q)
      PROVE  Looks(p)
  BY <1>1, <1>2, AloneStays DEF Looks
<1>3. CASE p \in Workers
  BY <1>3, Flow DEF Flows, Rises, Falls, Passes, Looks, LookPC, BusyPC, LoopPC
<1>4. CASE p \in Monitors
  <2>1. ASSUME NEW j \in Jobs, Scan(p, j)
        PROVE  Looks(p)
    BY <1>1, <2>1, StartFlows DEF Looks, Passes, LookPC
  <2>2. CASE Tick \/ UNCHANGED vars
    BY <1>1, <2>2, TickLocal DEF Looks, StaysPut, vars
  <2>3. ASSUME NEW w \in Workers,
               \/ \E j \in Jobs : Run(w, j)
               \/ Progress(w) \/ Refresh(w) \/ Heartbeat(w) \/ Fault(w)
        PROVE  Looks(p)
    BY <1>1, <1>2, <1>4, <2>3, WorkerAlone, ProcessesAssumption DEF Processes
  <2>4. ASSUME NEW q \in Monitors \cup Operators, q # p,
               Recover(q) \/ Operate(q) \/ \E j \in Jobs : Scan(q, j) \/ OperatorRead(q, j)
        PROVE  Looks(p)
    BY <1>1, <1>2, <2>4, OtherAlone DEF Processes
  <2>. QED
    BY <1>1, <1>4, <2>1, <2>2, <2>3, <2>4, RecoverFlows, ProcessesAssumption DEF Next
<1>. QED
  BY <1>3, <1>4

-----------------------------------------------------------------------------
(* The inductive invariants behind the promises about leases.              *)

(* Whoever is about to write COMPLETED has every answer of the job.        *)
Finishing ==
  \A w \in Workers : At(w, "finish") =>
    \A i \in Items : JobOfItem[i] = JobOf(w) => item[i].status \in Terminal

(* A row names only a worker that is past its claim, has not yet given the *)
(* lease back, and is at work for this job on this account.                *)
HoldsAccountPC == ConnectedPC \cup {"start", "releaseAccount", "dead"}

JobLeases ==
  \A w \in Workers : \A j \in Jobs :
    job[j].worker = w => JobOf(w) = j /\ proc[w].pc \in ClaimedPC \cup {"dead"}

AccountLeases ==
  \A w \in Workers : \A a \in Accounts :
    account[a].worker = w => /\ proc[w].pc \in HoldsAccountPC
                             /\ a = AccountOf[JobOf(w)] /\ account[a].job = JobOf(w)

(* The job of a live owner between mark_started and the end of its worker  *)
(* loop is not over.                                                       *)
Working ==
  \A w \in Workers : proc[w].pc \in BusyPC /\ OwnsJob(w, JobOf(w))
                       => job[JobOf(w)].status \notin OverStatus

(* What a recovery knows of the owner it read stays true: that owner had   *)
(* claimed the job, has lost it for good, and holds no live account lease  *)
(* under a connected client.                                               *)
Observed ==
  \A p \in Workers \cup Monitors : \A w \in Workers :
    proc[p].pc \in LookPC /\ proc[p].seen = w =>
      /\ JobOf(w) = JobOf(p) /\ proc[w].pc \in ClaimedPC \cup {"done", "dead"}
      /\ proc[p].pc \in {"recoverAccountLease", "recoverRelease"} => ~OwnsJob(w, JobOf(w))
      /\ proc[p].pc = "recoverRelease" => \/ proc[w].pc \notin ConnectedPC
                                          \/ ~OwnsAccount(w, JobOf(w))

(* One row of jobs in one step.                                            *)
SameJob(j) ==
  /\ job'[j].status = job[j].status /\ job'[j].worker = job[j].worker
  /\ job'[j].lease = job[j].lease \/ (Tick /\ job'[j].lease = Elapse(job[j].lease, Past))

LEMMA JobRowStep ==
  ASSUME Typed, [Next]_vars, NEW j \in Jobs
  PROVE  SameJob(j) \/ RowChanges(j)
<1>1. job[j] \in JobRow /\ job \in [Jobs -> JobRow]
  BY DEF Typed, TypeOK, StoreTypeOK
<1>2. CASE job' = job
  BY <1>2 DEF SameJob
<1>3. CASE Tick
  <2>. DEFINE e == Elapse(job[j].lease, Past)
  <2>1. job'[j] = [job[j] EXCEPT !.lease = e]
    BY <1>1, <1>3 DEF Tick, StoreTick
  <2>. HIDE DEF e
  <2>2. job'[j].status = job[j].status /\ job'[j].worker = job[j].worker /\ job'[j].lease = e
    BY <1>1, <2>1 DEF JobRow
  <2>. QED
    BY <1>3, <2>2 DEF SameJob, e
<1>4. ASSUME NEW k \in Jobs \ {j}, RowChanges(k)
      PROVE  SameJob(j)
  BY <1>4 DEF RowChanges, OwnersWrite, Claims, Rewrites, RowBecomes, SameJob
<1>. QED
  BY <1>2, <1>3, <1>4, JobStep DEF JobKinds

(* Whoever has claimed once never claims again.                            *)
LEMMA PlaceKept ==
  ASSUME Typed, [Next]_vars, NEW w \in Workers, proc[w].pc \in ClaimedPC \cup {"done", "dead"}
  PROVE  /\ proc'[w].pc \in ClaimedPC \cup {"done", "dead"}
         /\ JobOf(w)' = JobOf(w) /\ JobOf(w) \in Jobs
         /\ ~OwnsJob(w, JobOf(w)) => ~OwnsJob(w, JobOf(w))'
<1>1. ~At(w, "new") /\ ~At(w, "claimJob")
  BY DEF At, ClaimedPC, ConnectedPC, LoopPC
<1>2. Flows(w)
  BY Flow
<1>3. proc'[w].pc \in ClaimedPC \cup {"done", "dead"}
  BY <1>2 DEF Flows, StaysPut, Rises, Falls, Passes, At, ClaimedPC, ConnectedPC, BusyPC,
              LoopPC, RecoverPC
<1>. QED
  BY <1>1, <1>3, JobKept, OwnedBefore DEF Typed, WellFormed, Processes

LEMMA FinishingKept ==
  ASSUME Typed, Typed', FencedRows, SettledRows, Finishing, [Next]_vars
  PROVE  Finishing'
<1>. SUFFICES ASSUME NEW w \in Workers, proc'[w].pc = "finish",
                     NEW i \in Items, JobOfItem[i] = JobOf(w)'
              PROVE  item'[i].status \in Terminal
  BY DEF Finishing, At
<1>1. At(w, "finish") \/ (At(w, "settle") /\ Unfinished(JobOf(w)) = {})
  BY Flow DEF Flows, StaysPut, Rises, Falls, Passes, At, BusyPC, LoopPC, RecoverPC
<1>2. JobOf(w)' = JobOf(w)
  BY <1>1, JobKept DEF At
<1>3. item[i].status \in Terminal
  BY <1>1, <1>2 DEF Finishing, Unfinished
<1>. QED
  BY <1>3, StepKinds, TerminalKept

LEMMA CompletedKept ==
  ASSUME Typed, Typed', FencedRows, SettledRows, Finishing, CompletedIsSettled, [Next]_vars
  PROVE  CompletedIsSettled'
<1>. SUFFICES ASSUME NEW j \in Jobs, job'[j].status = "COMPLETED",
                     NEW i \in Items, JobOfItem[i] = j
              PROVE  item'[i].status \in Terminal
  BY DEF CompletedIsSettled
<1>1. job[j].status = "COMPLETED" \/ \E w \in Workers : At(w, "finish") /\ JobOf(w) = j
  BY JobRowStep DEF SameJob, RowChanges, OwnersWrite, Claims, Rewrites, RowBecomes, OverStatus
<1>2. item[i].status \in Terminal
  BY <1>1 DEF CompletedIsSettled, Finishing
<1>. QED
  BY <1>2, StepKinds, TerminalKept

LEMMA JobLeasesKept ==
  ASSUME Typed, JobLeases, [Next]_vars
  PROVE  JobLeases'
<1>. SUFFICES ASSUME NEW w \in Workers, NEW j \in Jobs, job'[j].worker = w
              PROVE  JobOf(w)' = j /\ proc'[w].pc \in ClaimedPC \cup {"dead"}
  BY DEF JobLeases
<1>0. TypeOK /\ w \in Processes /\ w # None
  BY OwnersAssumption DEF Typed, Processes
<1>1. CASE job[j].worker = w
  <2>1. JobOf(w) = j /\ proc[w].pc \in ClaimedPC \cup {"dead"}
    BY <1>1 DEF JobLeases
  <2>2. ~ReleaseJob(w) /\ ~Rollback(w)
    BY <1>0, <1>1, <2>1, JobStatements DEF ReleaseJob, Rollback, ReleaseWorker, RowBecomes
  <2>3. proc'[w].pc \in ClaimedPC \cup {"dead"}
    BY <2>1, <2>2, Flow DEF Flows, StaysPut, Rises, Falls, Passes, At, ClaimedPC,
                            ConnectedPC, BusyPC, LoopPC, RecoverPC
  <2>. QED
    BY <2>1, <2>3, PlaceKept
<1>2. CASE job[j].worker # w
  <2>1. Claims(w, j)
    BY <1>0, <1>2, JobRowStep DEF SameJob, RowChanges, OwnersWrite, Claims, Rewrites, RowBecomes
  <2>2. ~At(w, "new") /\ Go(w, "selectAccount")
    BY <2>1 DEF Claims, ClaimJob, At
  <2>. QED
    BY <1>0, <2>1, <2>2, JobKept, GoSets DEF Claims, ClaimedPC
<1>. QED
  BY <1>1, <1>2

LEMMA AccountLeasesKept ==
  ASSUME Typed, AccountLeases, [Next]_vars
  PROVE  AccountLeases'
<1>. SUFFICES ASSUME NEW w \in Workers, NEW a \in Accounts, account'[a].worker = w
              PROVE  /\ proc'[w].pc \in HoldsAccountPC
                     /\ a = AccountOf[JobOf(w)'] /\ account'[a].job = JobOf(w)'
  BY DEF AccountLeases
<1>0. TypeOK /\ w \in Processes /\ w # None
  BY OwnersAssumption DEF Typed, Processes
<1>1. CASE ~(\E v \in Workers : Takes(v, a))
  <2>1. account[a].worker = w /\ account'[a].job = account[a].job
    BY <1>0, <1>1, AccountStep DEF AccountKind, SameHolder, Frees
  <2>2. /\ proc[w].pc \in HoldsAccountPC
        /\ a = AccountOf[JobOf(w)] /\ account[a].job = JobOf(w)
    BY <2>1 DEF AccountLeases
  <2>3. JobOf(w)' = JobOf(w)
    BY <2>2, PlaceKept DEF HoldsAccountPC, ClaimedPC
  <2>4. ~ReleaseAccountRow(w)
    <3>. SUFFICES ASSUME ReleaseAccountRow(w) PROVE FALSE
      OBVIOUS
    <3>1. account'[a] = [worker |-> None, job |-> None, lease |-> Past]
      BY <1>0, <2>1, <2>2
      DEF ReleaseAccountRow, ReleaseAccount, ClearAccount, TypeOK, StoreTypeOK
    <3>. QED
      BY <1>0, <3>1
  <2>5. /\ ClaimJob(w) => At(w, "claimJob")
        /\ Rollback(w) => At(w, "rollback")
        /\ ReleaseJob(w) => At(w, "releaseJob")
    BY DEF ClaimJob, Rollback, ReleaseJob
  <2>6. proc'[w].pc \in HoldsAccountPC
    BY <2>2, <2>4, <2>5, Flow DEF Flows, StaysPut, Rises, Falls, Passes, At, HoldsAccountPC,
                            ConnectedPC, BusyPC, LoopPC, RecoverPC
  <2>. QED
    BY <2>1, <2>2, <2>3, <2>6
<1>2. ASSUME NEW v \in Workers, Takes(v, a)
      PROVE  /\ proc'[w].pc \in HoldsAccountPC
             /\ a = AccountOf[JobOf(w)'] /\ account'[a].job = JobOf(w)'
  <2>1. v = w /\ ~At(w, "new") /\ Go(w, "start")
    BY <1>2 DEF Takes, ClaimAccountRow, At
  <2>. QED
    BY <1>0, <1>2, <2>1, JobKept, GoSets DEF Takes, HoldsAccountPC
<1>. QED
  BY <1>1, <1>2

LEMMA WorkingKept ==
  ASSUME Typed, Working, [Next]_vars
  PROVE  Working'
<1>. SUFFICES ASSUME NEW w \in Workers, proc'[w].pc \in BusyPC, OwnsJob(w, JobOf(w))'
              PROVE  job'[JobOf(w)'].status \notin OverStatus
  BY DEF Working
<1>. DEFINE j == JobOf(w)
<1>1. \/ At(w, "start") /\ job'[j].status = "RUNNING"
      \/ proc[w].pc \in BusyPC
  BY Flow DEF Flows, StaysPut, Rises, Falls, Passes, At, BusyPC, LoopPC, RecoverPC
<1>2. ~At(w, "new") /\ ~At(w, "claimJob")
  BY <1>1 DEF At, BusyPC, LoopPC
<1>3. JobOf(w)' = j /\ OwnsJob(w, j) /\ j \in Jobs
  BY <1>2, JobKept, OwnedBefore DEF Typed, WellFormed, Processes
<1>4. CASE proc[w].pc \in BusyPC
  <2>1. ~At(w, "settle") /\ ~At(w, "finish") /\ job[j].status \notin OverStatus
    BY <1>3, <1>4 DEF Working, At, BusyPC, LoopPC
  <2>2. ~Takeable(job[j], 0) /\ \A v \in Workers : OwnsJob(v, j) => v = w
    <3>1. job[j].lease \in Int
      BY <1>3, TimesAssumption DEF Typed, TypeOK, StoreTypeOK, JobRow, Distance, Past
    <3>. QED
      BY <1>3, <3>1, OwnersAssumption DEF OwnsJob, Takeable
  <2>. QED
    BY <1>3, <2>1, <2>2, JobRowStep
    DEF SameJob, RowChanges, OwnersWrite, Claims, Rewrites, RowBecomes
<1>. QED
  BY <1>1, <1>3, <1>4 DEF OverStatus

(* Nobody but the worker's own claim gives it an account lease, and a      *)
(* client is connected only by a worker that owns its job.                 *)
LEMMA AccountNotGained ==
  ASSUME Typed, [Next]_vars, NEW w \in Workers, proc[w].pc \in ClaimedPC \cup {"done", "dead"},
         ~OwnsJob(w, JobOf(w)), proc[w].pc \notin ConnectedPC \/ ~OwnsAccount(w, JobOf(w))
  PROVE  (proc[w].pc \notin ConnectedPC \/ ~OwnsAccount(w, JobOf(w)))'
<1>. SUFFICES ASSUME proc'[w].pc \in ConnectedPC, OwnsAccount(w, JobOf(w))'
              PROVE  FALSE
  OBVIOUS
<1>. DEFINE a == AccountOf[JobOf(w)]
<1>1. JobOf(w)' = JobOf(w) /\ JobOf(w) \in Jobs /\ a \in Accounts
  BY PlaceKept, LayoutAssumption
<1>2. /\ account'[a].worker = w /\ account'[a].job = JobOf(w) /\ account'[a].lease > 0
  BY <1>1 DEF OwnsAccount
<1>3. proc[w].pc \in ConnectedPC
  <2>1. /\ ClaimAccountRow(w) => At(w, "claimAccount")
        /\ ClaimJob(w) => At(w, "claimJob")
    BY DEF ClaimAccountRow, ClaimJob
  <2>. QED
    BY <2>1, Flow DEF Flows, StaysPut, Rises, Falls, Passes, At, ConnectedPC, BusyPC,
                      LoopPC, RecoverPC
<1>4. ~OwnsAccount(w, JobOf(w))
  BY <1>3
<1>5. account[a].lease \in Int /\ account'[a].lease \in Int
  BY <1>1, NextTyped, TimesAssumption
  DEF Typed, TypeOK, StoreTypeOK, AccountRow, Distance, Past
<1>6. \E v \in Workers : Frees(v, a) \/ Takes(v, a)
  BY <1>1, <1>2, <1>4, <1>5, AccountStep DEF AccountKind, SameHolder, OwnsAccount
<1>7. At(w, "claimAccount")
  BY <1>2, <1>6, OwnersAssumption DEF Frees, Takes, ClaimAccountRow
<1>. QED
  BY <1>3, <1>7 DEF At, ConnectedPC, LoopPC

LEMMA ObservedKept ==
  ASSUME Typed, Observed, JobLeases, [Next]_vars
  PROVE  Observed'
<1>. SUFFICES ASSUME NEW p \in Workers \cup Monitors, NEW w \in Workers,
                     proc'[p].pc \in LookPC, proc'[p].seen = w
              PROVE  /\ JobOf(w)' = JobOf(p)'
                     /\ proc'[w].pc \in ClaimedPC \cup {"done", "dead"}
                     /\ proc'[p].pc \in {"recoverAccountLease", "recoverRelease"}
                          => ~OwnsJob(w, JobOf(w))'
                     /\ proc'[p].pc = "recoverRelease"
                          => (proc[w].pc \notin ConnectedPC \/ ~OwnsAccount(w, JobOf(w)))'
  BY DEF Observed
<1>1. w # None /\ JobOf(p)' = JobOf(p) /\ Looks(p)
  BY OwnersAssumption, LookStep DEF Looks, StaysPut, JobOf
<1>2. ASSUME proc[w].pc \in ClaimedPC \cup {"done", "dead"}, JobOf(w) = JobOf(p)
      PROVE  /\ JobOf(w)' = JobOf(p)' /\ JobOf(w)' = JobOf(w) /\ JobOf(w) \in Jobs
             /\ proc'[w].pc \in ClaimedPC \cup {"done", "dead"}
             /\ ~OwnsJob(w, JobOf(w)) => ~OwnsJob(w, JobOf(w))'
  BY <1>1, <1>2, PlaceKept
<1>3. CASE StaysPut(p)
  <2>1. proc[p].pc \in LookPC /\ proc[p].seen = w /\ proc'[p].pc = proc[p].pc
    BY <1>3 DEF StaysPut
  <2>2. /\ JobOf(w) = JobOf(p) /\ proc[w].pc \in ClaimedPC \cup {"done", "dead"}
        /\ proc[p].pc \in {"recoverAccountLease", "recoverRelease"} => ~OwnsJob(w, JobOf(w))
        /\ proc[p].pc = "recoverRelease" => \/ proc[w].pc \notin ConnectedPC
                                            \/ ~OwnsAccount(w, JobOf(w))
    BY <2>1 DEF Observed
  <2>. QED
    BY <1>2, <2>1, <2>2, AccountNotGained
<1>4. CASE At(p, "recoverRead") /\ Passes(p, "recoverJobLease")
           /\ proc'[p].seen \in {None, job[JobOf(p)].worker}
  <2>1. JobOf(p) \in Jobs
    BY <1>4 DEF Typed, WellFormed, At, Processes
  <2>2. JobOf(w) = JobOf(p) /\ proc[w].pc \in ClaimedPC \cup {"done", "dead"}
    BY <1>1, <1>4, <2>1 DEF JobLeases
  <2>. QED
    BY <1>2, <1>4, <2>2 DEF Passes
<1>5. CASE At(p, "recoverJobLease") /\ Passes(p, "recoverAccountLease")
           /\ ~JobLive(JobOf(p)) /\ proc'[p].seen = proc[p].seen
  <2>1. JobOf(w) = JobOf(p) /\ proc[w].pc \in ClaimedPC \cup {"done", "dead"}
    BY <1>5 DEF Observed, At, LookPC
  <2>2. ~OwnsJob(w, JobOf(w))
    BY <1>1, <1>5, <2>1 DEF JobLive, OwnsJob
  <2>. QED
    BY <1>2, <1>5, <2>1, <2>2 DEF Passes
<1>6. CASE /\ At(p, "recoverAccountLease") /\ Passes(p, "recoverRelease")
           /\ ~AccountLiveFor(JobOf(p)) /\ proc'[p].seen = proc[p].seen
  <2>1. /\ JobOf(w) = JobOf(p) /\ proc[w].pc \in ClaimedPC \cup {"done", "dead"}
        /\ ~OwnsJob(w, JobOf(w))
    BY <1>6 DEF Observed, At, LookPC
  <2>2. ~OwnsAccount(w, JobOf(w))
    BY <1>1, <1>2, <1>6, <2>1, LayoutAssumption DEF AccountLiveFor, OwnsAccount
  <2>. QED
    BY <1>2, <2>1, <2>2, AccountNotGained
<1>. QED
  BY <1>1, <1>3, <1>4, <1>5, <1>6 DEF Looks

LeasePromises ==
  /\ ItemPromises /\ Finishing /\ CompletedIsSettled
  /\ JobLeases /\ AccountLeases /\ Working /\ Observed

LEMMA LeasePromisesHold == Spec => []LeasePromises
<1>1. Init => LeasePromises
  <2>. SUFFICES ASSUME Init PROVE LeasePromises
    OBVIOUS
  <2>1. \A p \in Processes : proc[p].pc = "new"
    BY FreshTyped DEF Init
  <2>2. \A j \in Jobs : job[j].worker = None /\ job[j].status = "CREATED"
    BY DEF Init, StoreInit
  <2>3. \A a \in Accounts : account[a].worker = None
    BY DEF Init, StoreInit
  <2>4. ItemPromises
    <3>1. \A i \in Items : item[i].status = "PENDING"
      BY DEF Init, StoreInit
    <3>. QED
      BY <2>1, <3>1, FencingInit
      DEF ItemPromises, SettledRows, RequestsWait, At, Terminal, Processes
  <2>. QED
    BY <2>1, <2>2, <2>3, <2>4, OwnersAssumption
    DEF LeasePromises, Finishing, CompletedIsSettled, JobLeases, AccountLeases, Working,
        Observed, At, BusyPC, LoopPC, LookPC, Processes
<1>2. LeasePromises /\ ItemPromises' /\ [Next]_vars => LeasePromises'
  <2>. SUFFICES ASSUME LeasePromises, ItemPromises', [Next]_vars PROVE LeasePromises'
    OBVIOUS
  <2>1. Typed /\ Typed' /\ FencedRows /\ SettledRows
    BY DEF LeasePromises, ItemPromises, Fencing, Typed, FencedRows
  <2>. QED
    BY <2>1, FinishingKept, CompletedKept, JobLeasesKept, AccountLeasesKept, WorkingKept,
       ObservedKept DEF LeasePromises
<1>. QED
  BY <1>1, <1>2, ItemPromisesHold, PTL DEF Spec

(* A job is COMPLETED only when every number has its answer, whatever came *)
(* between the count of run() and mark_finished_if_owned.                  *)
THEOREM CompletedInvariant == Spec => []CompletedIsSettled
<1>1. LeasePromises => CompletedIsSettled
  BY DEF LeasePromises
<1>. QED
  BY <1>1, LeasePromisesHold, PTL

(* A run that is over without a crash has given both its leases back, on   *)
(* every path of JobManager.run.                                           *)
THEOREM NoOrphanInvariant == Spec => []NoOrphanLease
<1>1. LeasePromises => NoOrphanLease
  BY DEF LeasePromises, JobLeases, AccountLeases, NoOrphanLease, At, ClaimedPC,
         HoldsAccountPC, ConnectedPC, LoopPC
<1>. QED
  BY <1>1, LeasePromisesHold, PTL

(* No live owner works on a number of a job that is over: the status of a  *)
(* live owner's job is ended by that owner after its worker loop, or not   *)
(* at all.                                                                 *)
THEOREM OverIdleInvariant == Spec => []OverIsIdle
<1>1. LeasePromises => OverIsIdle
  BY DEF LeasePromises, Working, OverIsIdle, OverStatus, BusyPC, LoopPC, SentPC
<1>. QED
  BY <1>1, LeasePromisesHold, PTL

(* Nobody takes a live account lease from under a connected client: a      *)
(* recovery releases it only for an owner whose two leases it saw over.    *)
THEOREM AccountStaysHeld == Spec => AccountHeldWhileConnected
<1>. DEFINE Step == \A w \in Workers :
                      proc[w].pc \in ConnectedPC /\ OwnsAccount(w, JobOf(w))
                        => account'[AccountOf[JobOf(w)]].worker = w
<1>1. LeasePromises /\ [Next]_vars => [Step]_vars
  <2>. SUFFICES ASSUME LeasePromises, [Next]_vars, NEW w \in Workers,
                       proc[w].pc \in ConnectedPC, OwnsAccount(w, JobOf(w))
                PROVE  account'[AccountOf[JobOf(w)]].worker = w
    OBVIOUS
  <2>. DEFINE a == AccountOf[JobOf(w)]
  <2>1. Typed /\ Observed
    BY DEF LeasePromises, ItemPromises, Fencing, Typed
  <2>2. JobOf(w) \in Jobs /\ a \in Accounts /\ account[a].worker = w /\ account[a].lease > 0
    BY <2>1, PlaceKept, LayoutAssumption DEF ClaimedPC, OwnsAccount
  <2>3. account[a].lease \in Int /\ \A v \in Workers : proc[v].age \in Nat
    BY <2>1, <2>2, TimesAssumption
    DEF Typed, TypeOK, StoreTypeOK, AccountRow, Distance, Past, Local, Processes
  <2>4. \A v \in Workers : ~Takes(v, a)
    BY <2>2, <2>3, OwnersAssumption DEF Takes, Takeable
  <2>5. \A v \in Workers : ~Frees(v, a)
    BY <2>1, <2>2 DEF Frees, ReleaseAccountRow, RecoverRelease, Observed, LookPC, At,
                      ConnectedPC, LoopPC
  <2>. QED
    BY <2>1, <2>2, <2>4, <2>5, AccountStep, ZenonT(40) DEF AccountKind, SameHolder
<1>. HIDE DEF Step
<1>2. Spec => [][Step]_vars
  BY <1>1, LeasePromisesHold, PTL DEF Spec
<1>. QED
  BY <1>2 DEF AccountHeldWhileConnected, Step

-----------------------------------------------------------------------------
(* The takeover grace, which claim_worker tests before its UPDATE.         *)

(* Between the test and the UPDATE either the row stays free or over, or   *)
(* it has been renewed or taken so recently that the UPDATE, which asks    *)
(* for a lease over since the test, fails.                                 *)
ClaimWaits ==
  \A w \in Workers :
    /\ proc[w].pc \in {"claimJob", "claimAccount"} => proc[w].age <= MaxStall
    /\ At(w, "claimJob") => LET row == job[JobOf(w)]
                            IN  \/ row.worker = None
                                \/ row.lease + TakeoverGrace <= 0
                                \/ row.lease + proc[w].age > 0

LEMMA ClaimAges ==
  ASSUME Typed, ClaimWaits, [Next]_vars, NEW w \in Workers,
         proc'[w].pc \in {"claimJob", "claimAccount"}
  PROVE  /\ proc'[w].age <= MaxStall
         /\ \/ At(w, "policy") /\ ~Refused(job[JobOf(w)], w) /\ job' = job
            \/ At(w, "selectAccount") /\ Passes(w, "claimAccount")
            \/ proc'[w].pc = proc[w].pc /\ proc'[w].age = proc[w].age
            \/ /\ proc'[w].pc = proc[w].pc /\ proc'[w].age = proc[w].age + 1
               /\ Tick
<1>0. w \in Processes /\ proc[w].age \in 0 .. Horizon /\ MaxStall \in 0 .. Horizon /\ Horizon \in Nat
  BY TimesAssumption, KindsAssumption DEF Processes, Typed, TypeOK, Local
<1>1. CASE StaysPut(w)
  <2>1. CASE Tick
    <3>1. proc[w].age < MaxStall
      BY <1>1, <2>1 DEF StaysPut, Tick
    <3>2. proc'[w].age = proc[w].age + 1
      BY <1>0, <1>1, <2>1, <3>1, TickLocal DEF Aging, StaysPut
    <3>. QED
      BY <1>0, <1>1, <2>1, <3>1, <3>2 DEF StaysPut
  <2>2. CASE ~Tick
    BY <1>1, <2>2 DEF StaysPut, ClaimWaits
  <2>. QED
    BY <2>1, <2>2
<1>2. CASE ~StaysPut(w)
  <2>1. \/ /\ At(w, "policy") /\ ~Refused(job[JobOf(w)], w) /\ job' = job
           /\ proc'[w].age = 0
        \/ At(w, "selectAccount") /\ Passes(w, "claimAccount") /\ proc'[w].age = 0
    BY <1>2, Flow DEF Flows, Rises, Falls, Passes, BusyPC, LoopPC, RecoverPC
  <2>. QED
    BY <1>0, <2>1
<1>. QED
  BY <1>1, <1>2

LEMMA ClaimWaitsKept ==
  ASSUME MaxStall < LeaseSeconds, Typed, Typed', JobLeases, ClaimWaits, [Next]_vars
  PROVE  ClaimWaits'
<1>. SUFFICES ASSUME NEW w \in Workers, proc'[w].pc = "claimJob"
              PROVE  LET row == job'[JobOf(w)']
                     IN  \/ row.worker = None
                         \/ row.lease + TakeoverGrace <= 0
                         \/ row.lease + proc'[w].age > 0
  BY ClaimAges DEF ClaimWaits, At
<1>. DEFINE j == JobOf(w)
<1>1. \/ At(w, "policy") /\ ~Refused(job[j], w) /\ job' = job
      \/ /\ At(w, "claimJob")
         /\ \/ proc'[w].age = proc[w].age
            \/ Tick /\ proc'[w].age = proc[w].age + 1
  BY ClaimAges DEF At, Passes
<1>2. JobOf(w)' = j /\ j \in Jobs
  BY <1>1, JobKept DEF At, Typed, WellFormed, Processes
<1>3. /\ job[j].lease \in Past .. LeaseSeconds /\ job'[j].lease \in Past .. LeaseSeconds
      /\ proc[w].age \in Nat /\ proc'[w].age \in Nat
      /\ LeaseSeconds \in Nat \ {0} /\ TakeoverGrace \in Nat /\ MaxStall \in Nat /\ Past \in Int
  BY <1>2, TimesAssumption, KindsAssumption
  DEF Typed, TypeOK, StoreTypeOK, JobRow, Distance, Past, Local, Processes
<1>4. CASE At(w, "policy") /\ ~Refused(job[j], w) /\ job' = job
  <2>1. job[j].worker # w
    BY <1>2, <1>4 DEF JobLeases, At, ClaimedPC, ConnectedPC, LoopPC
  <2>. QED
    BY <1>2, <1>3, <1>4, <2>1 DEF Refused
<1>5. CASE /\ At(w, "claimJob")
           /\ \/ proc'[w].age = proc[w].age
              \/ Tick /\ proc'[w].age = proc[w].age + 1
  <2>1. \/ job[j].worker = None
        \/ job[j].lease + TakeoverGrace <= 0
        \/ job[j].lease + proc[w].age > 0
    BY <1>5 DEF ClaimWaits
  <2>2. CASE Tick /\ proc'[w].age = proc[w].age + 1
    <3>1. /\ job'[j].worker = job[j].worker
          /\ job'[j].lease = Elapse(job[j].lease, Past)
      BY <1>2, <2>2 DEF Tick, StoreTick, Typed, TypeOK, StoreTypeOK, JobRow
    <3>. QED
      BY <1>2, <1>3, <2>1, <2>2, <3>1 DEF Elapse
  <2>3. CASE job'[j].worker = job[j].worker /\ job'[j].lease = job[j].lease
             /\ proc'[w].age = proc[w].age
    BY <1>2, <2>1, <2>3
  <2>4. CASE RowChanges(j) /\ proc'[w].age = proc[w].age
    <3>1. \/ job'[j].worker = job[j].worker /\ job'[j].lease = job[j].lease
          \/ job'[j].worker = None
          \/ job'[j].lease = LeaseSeconds
          \/ \E v \in Workers : ClaimJob(v) /\ job'[j].lease = LeaseSeconds - proc[v].age
      BY <2>4 DEF RowChanges, OwnersWrite, Claims, Rewrites, RowBecomes
    <3>2. \A v \in Workers : ClaimJob(v) => LeaseSeconds - proc[v].age > 0
      <4>1. \A v \in Workers : proc[v].age \in Nat
        BY TimesAssumption DEF Typed, TypeOK, Local, Processes
      <4>2. \A v \in Workers : ClaimJob(v) => proc[v].age <= MaxStall
        BY DEF ClaimJob, ClaimWaits, At
      <4>. QED
        BY <1>3, <4>1, <4>2
    <3>. QED
      BY <1>2, <1>3, <2>1, <2>4, <3>1, <3>2
  <2>5. CASE SameJob(j) /\ proc'[w].age = proc[w].age /\ ~(job'[j].lease = job[j].lease)
    <3>1. Tick /\ proc[w].age < MaxStall
      BY <1>5, <2>5 DEF SameJob, Tick, At
    <3>2. proc'[w].age = proc[w].age + 1
      BY <1>3, <1>5, <3>1, TickLocal, KindsAssumption, TimesAssumption DEF Aging, At, Processes
    <3>. QED
      BY <1>3, <2>5, <3>2
  <2>. QED
    BY <1>2, <1>5, <2>2, <2>3, <2>4, <2>5, JobRowStep DEF SameJob
<1>. QED
  BY <1>1, <1>4, <1>5

(* A job changes hands only after its lease and the takeover grace, when a *)
(* claim's UPDATE never comes a whole lease after its SELECT.  A claim     *)
(* that stalls longer writes a lease that is over when it is written, and  *)
(* another stalled claim may take that one without the grace.              *)
THEOREM TakeoverAfterGrace ==
  ASSUME MaxStall < LeaseSeconds
  PROVE  Spec => TakeoverWaits
<1>. DEFINE Step == \A j \in Jobs :
                      job[j].worker # None /\ job'[j].worker \notin {None, job[j].worker}
                        => job[j].lease + TakeoverGrace <= 0
<1>1. Init => ClaimWaits
  BY FreshTyped DEF Init, ClaimWaits, At, Processes
<1>2. LeasePromises /\ LeasePromises' /\ ClaimWaits /\ [Next]_vars => ClaimWaits'
  BY ClaimWaitsKept DEF LeasePromises, ItemPromises, Fencing, Typed
<1>3. Spec => []ClaimWaits
  BY <1>1, <1>2, LeasePromisesHold, PTL DEF Spec
<1>4. LeasePromises /\ ClaimWaits /\ [Next]_vars => [Step]_vars
  <2>. SUFFICES ASSUME LeasePromises, ClaimWaits, [Next]_vars, NEW j \in Jobs,
                       job[j].worker # None, job'[j].worker \notin {None, job[j].worker}
                PROVE  job[j].lease + TakeoverGrace <= 0
    OBVIOUS
  <2>1. Typed
    BY DEF LeasePromises, ItemPromises, Fencing, Typed
  <2>2. PICK w \in Workers : Claims(w, j)
    BY <2>1, JobRowStep DEF SameJob, RowChanges, OwnersWrite, Rewrites, RowBecomes
  <2>3. At(w, "claimJob") /\ JobOf(w) = j /\ job[j].lease <= -proc[w].age
    BY <2>2 DEF Claims, ClaimJob, Takeable
  <2>4. /\ job[j].lease \in Int /\ proc[w].age \in Nat /\ TakeoverGrace \in Nat
    BY <2>1, TimesAssumption
    DEF Typed, TypeOK, StoreTypeOK, JobRow, Distance, Past, Local, Processes
  <2>. QED
    BY <2>3, <2>4 DEF ClaimWaits
<1>. HIDE DEF Step
<1>5. Spec => [][Step]_vars
  BY <1>3, <1>4, LeasePromisesHold, PTL DEF Spec
<1>. QED
  BY <1>5 DEF TakeoverWaits, Step
=============================================================================
