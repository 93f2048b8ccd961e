---------------------------- MODULE RuntimeTypes ----------------------------
(***************************************************************************)
(* Every behaviour of Runtime is typed and well formed, for every value of *)
(* the constants: first what each SQL statement does to its table, then    *)
(* what each kind of local step does, then one lemma per group of actions. *)
(***************************************************************************)
EXTENDS RuntimeSafety, TLAPS

Typed == TypeOK /\ WellFormed

ItemPC == {"acquire", "mark"} \cup SentPC   (* an item is in hand *)

-----------------------------------------------------------------------------
(* The statements keep the tables typed.                                   *)

LEMMA ClaimWorkerTyped ==
  ASSUME TypeOK, NEW w \in Workers, NEW j, NEW age \in 0 .. Horizon,
         ClaimWorker(w, j, age)
  PROVE  job' \in [Jobs -> JobRow]
<1>. DEFINE row == [job[j] EXCEPT !.worker = w, !.lease = LeaseSeconds - age]
<1>1. job \in [Jobs -> JobRow]
  BY DEF TypeOK, StoreTypeOK
<1>2. LeaseSeconds - age \in Distance
  BY TimesAssumption DEF Distance, Past
<1>3. j \in Jobs => row \in JobRow
  BY <1>1, <1>2 DEF JobRow
<1>. HIDE DEF row
<1>4. job' = [job EXCEPT ![j] = row]
  BY DEF ClaimWorker, row
<1>. QED
  BY <1>1, <1>3, <1>4

LEMMA ClearWorkerTyped ==
  ASSUME TypeOK, NEW j, ClearWorkerOwnership(j)
  PROVE  job' \in [Jobs -> JobRow]
<1>. DEFINE row == [job[j] EXCEPT !.worker = None, !.lease = Past]
<1>1. job \in [Jobs -> JobRow]
  BY DEF TypeOK, StoreTypeOK
<1>2. Past \in Distance
  BY TimesAssumption DEF Distance, Past
<1>3. j \in Jobs => row \in JobRow
  BY <1>1, <1>2 DEF JobRow
<1>. HIDE DEF row
<1>4. job' = [job EXCEPT ![j] = row]
  BY DEF ClearWorkerOwnership, row
<1>. QED
  BY <1>1, <1>3, <1>4

LEMMA SettleStatusTyped ==
  ASSUME TypeOK, NEW j, NEW s \in JobStatus, SettleStatus(j, s)
  PROVE  job' \in [Jobs -> JobRow]
<1>. DEFINE row == [job[j] EXCEPT !.status = s, !.cmd = "NONE"]
<1>1. job \in [Jobs -> JobRow]
  BY DEF TypeOK, StoreTypeOK
<1>2. j \in Jobs => row \in JobRow
  BY <1>1 DEF JobRow, JobCommand
<1>. HIDE DEF row
<1>3. job' = [job EXCEPT ![j] = row]
  BY DEF SettleStatus, row
<1>. QED
  BY <1>1, <1>2, <1>3

LEMMA JobStatementsTyped ==
  ASSUME TypeOK, NEW j, NEW w \in Workers, NEW s \in JobStatus, NEW c \in JobCommand,
         \/ RenewWorker(j) \/ ReleaseWorker(w, j) \/ UpdateStatus(j, s)
         \/ UpdateStatusIfOwned(w, j, s) \/ SetCommand(j, c)
         \/ AcknowledgePause(w, j) \/ job' = job
  PROVE  job' \in [Jobs -> JobRow]
<1>. job \in [Jobs -> JobRow]
  BY DEF TypeOK, StoreTypeOK
<1>1. LeaseSeconds \in Distance /\ Past \in Distance
  BY TimesAssumption DEF Distance, Past
<1>2. CASE RenewWorker(j)
  BY <1>1, <1>2 DEF RenewWorker, JobRow
<1>3. CASE ReleaseWorker(w, j)
  BY <1>3, ClearWorkerTyped DEF ReleaseWorker
<1>4. CASE UpdateStatus(j, s) \/ UpdateStatusIfOwned(w, j, s)
  BY <1>4 DEF UpdateStatus, UpdateStatusIfOwned, JobRow
<1>5. CASE SetCommand(j, c)
  BY <1>5 DEF SetCommand, JobRow
<1>6. CASE AcknowledgePause(w, j)
  BY <1>1, <1>6 DEF AcknowledgePause, JobRow, JobStatus, JobCommand
<1>. QED
  BY <1>2, <1>3, <1>4, <1>5, <1>6

LEMMA AccountStatementsTyped ==
  ASSUME TypeOK, NEW j \in Jobs, NEW w \in Workers, NEW age \in 0 .. Horizon,
         \/ ClaimAccount(w, j, age) \/ RenewAccount(j) \/ ReleaseAccount(w, j)
         \/ account' = account
  PROVE  account' \in [Accounts -> AccountRow]
<1>. account \in [Accounts -> AccountRow]
  BY DEF TypeOK, StoreTypeOK
<1>1. /\ LeaseSeconds \in Distance /\ Past \in Distance
      /\ LeaseSeconds - age \in Distance
  BY TimesAssumption DEF Distance, Past
<1>. QED
  BY <1>1, LayoutAssumption
  DEF AccountRow, ClaimAccount, RenewAccount, ReleaseAccount, ClearAccount

LEMMA SaveResultTyped ==
  ASSUME TypeOK, NEW i, NEW s \in CheckStatus, NEW n \in Nat, NEW d \in Nat,
         SaveResult(i, s, n, d)
  PROVE  item' \in [Items -> ItemRow]
<1>. DEFINE a == [item[i] EXCEPT !.status = s, !.attempts = n, !.retry = d]
            b == [a EXCEPT !.recovery = 0, !.token = 0]
<1>1. item \in [Items -> ItemRow]
  BY DEF TypeOK, StoreTypeOK
<1>2. i \in Items => a \in ItemRow
  BY <1>1 DEF ItemRow
<1>. HIDE DEF a
<1>3. i \in Items => b \in ItemRow
  BY <1>2 DEF ItemRow
<1>. HIDE DEF b
<1>4. item' = [item EXCEPT ![i] = b]
  BY DEF SaveResult, a, b
<1>. QED
  BY <1>1, <1>3, <1>4

LEMMA UnknownTyped ==
  ASSUME NEW row \in ItemRow
  PROVE  InFlightUnknown(row) \in ItemRow
<1>. DEFINE a == [row EXCEPT !.status = "IN_FLIGHT_UNKNOWN", !.retry = 0]
            b == [a EXCEPT !.recovery = RecoveryGrace, !.token = 0]
<1>1. a \in ItemRow
  BY DEF ItemRow, CheckStatus
<1>. HIDE DEF a
<1>2. b \in ItemRow
  BY <1>1, TimesAssumption DEF ItemRow
<1>3. InFlightUnknown(row) = b
  BY DEF InFlightUnknown, a
<1>. QED
  BY <1>2, <1>3

LEMMA ItemStatementsTyped ==
  ASSUME TypeOK, NEW i, NEW j, NEW token,
         \/ i \in Items /\ MarkProcessing(i)
         \/ MarkInFlightUnknown(i, token) \/ RecoverInterrupted(j) \/ item' = item
  PROVE  item' \in [Items -> ItemRow]
<1>. item \in [Items -> ItemRow]
  BY DEF TypeOK, StoreTypeOK
<1>1. \A k \in Items : InFlightUnknown(item[k]) \in ItemRow
  BY UnknownTyped
<1>2. CASE i \in Items /\ MarkProcessing(i)
  <2>. DEFINE n == item[i].sent + 1
              a == [item[i] EXCEPT !.status = "PROCESSING", !.recovery = 0]
              b == [a EXCEPT !.token = n, !.sent = n]
  <2>1. a \in ItemRow
    BY <1>2 DEF ItemRow, CheckStatus
  <2>2. n \in Nat
    BY <1>2 DEF ItemRow
  <2>. HIDE DEF a, n
  <2>3. b \in ItemRow
    BY <2>1, <2>2 DEF ItemRow
  <2>. HIDE DEF b
  <2>4. item' = [item EXCEPT ![i] = b]
    BY <1>2 DEF MarkProcessing, a, b, n
  <2>. QED
    BY <2>3, <2>4
<1>3. CASE MarkInFlightUnknown(i, token)
  BY <1>1, <1>3 DEF MarkInFlightUnknown
<1>4. CASE RecoverInterrupted(j)
  BY <1>1, <1>4 DEF RecoverInterrupted
<1>. QED
  BY <1>2, <1>3, <1>4

-----------------------------------------------------------------------------
(* A step of one process keeps the local states typed and well formed.     *)

LEMMA StepTyped ==
  ASSUME Typed, NEW p \in Processes, NEW r \in Local,
         r.pc # "new" => r.job \in Jobs,
         p \in Workers /\ r.pc \in ItemPC => r.item \in Items /\ JobOfItem[r.item] = r.job,
         p \in Workers /\ ~r.lost => r.fails < RenewFailureLimit,
         proc' = [proc EXCEPT ![p] = r]
  PROVE  proc' \in [Processes -> Local] /\ WellFormed'
<1>1. proc' \in [Processes -> Local]
  BY DEF Typed, TypeOK
<1>2. \A q \in Processes : proc'[q] = IF q = p THEN r ELSE proc[q]
  BY DEF Typed, TypeOK
<1>. QED
  BY <1>1, <1>2 DEF Typed, WellFormed, At, JobOf, ItemPC, Processes

(* A started process moves on; the item, if it still needs one, stays.     *)
LEMMA MoveTyped ==
  ASSUME Typed, NEW p \in Processes, ~At(p, "new"), NEW r \in Local,
         r.job = proc[p].job,
         r.pc \in ItemPC => proc[p].pc \in ItemPC /\ r.item = proc[p].item,
         \/ r.lost = proc[p].lost /\ r.fails = proc[p].fails
         \/ r.lost \/ r.fails < RenewFailureLimit,
         proc' = [proc EXCEPT ![p] = r]
  PROVE  proc' \in [Processes -> Local] /\ WellFormed'
<1>1. proc[p].job \in Jobs
  BY DEF Typed, WellFormed, JobOf
<1>2. p \in Workers /\ proc[p].pc \in ItemPC
        => proc[p].item \in Items /\ JobOfItem[proc[p].item] = proc[p].job
  BY DEF Typed, WellFormed, JobOf, ItemPC
<1>3. p \in Workers /\ ~proc[p].lost => proc[p].fails < RenewFailureLimit
  BY DEF Typed, WellFormed
<1>. QED
  BY <1>1, <1>2, <1>3, StepTyped

LEMMA GoTyped ==
  ASSUME Typed, NEW p \in Processes, NEW next \in PC, ~At(p, "new"),
         next \in ItemPC => proc[p].pc \in ItemPC, Go(p, next)
  PROVE  proc' \in [Processes -> Local] /\ WellFormed'
<1>. DEFINE r == [proc[p] EXCEPT !.pc = next]
<1>1. proc[p] \in Local
  BY DEF Typed, TypeOK
<1>2. /\ r \in Local /\ r.pc = next /\ r.item = proc[p].item
      /\ r.job = proc[p].job /\ r.lost = proc[p].lost /\ r.fails = proc[p].fails
  BY <1>1 DEF Local
<1>3. proc' = [proc EXCEPT ![p] = r]
  BY DEF Go
<1>. HIDE DEF r
<1>. QED
  BY <1>2, <1>3, MoveTyped

LEMMA FreshTyped == Fresh \in Local /\ Fresh.pc = "new" /\ Fresh.fails = 0
  BY KindsAssumption, OwnersAssumption, TimesAssumption
  DEF Fresh, Local, PC, JobCommand, Outcome

LEMMA EndTyped ==
  ASSUME Typed, NEW p \in Processes, NEW how \in {"done", "dead"},
         ~At(p, "new"), End(p, how)
  PROVE  proc' \in [Processes -> Local] /\ WellFormed'
<1>. DEFINE r == [Fresh EXCEPT !.pc = how, !.job = JobOf(p)]
<1>1. JobOf(p) \in Jobs
  BY DEF Typed, WellFormed
<1>2. r \in Local /\ r.pc = how /\ r.job = JobOf(p) /\ r.fails = 0
  BY <1>1, FreshTyped, ZenonT(40) DEF Local, PC
<1>3. how \notin ItemPC
  BY DEF ItemPC, SentPC
<1>4. proc' = [proc EXCEPT ![p] = r]
  BY DEF End
<1>5. 0 < RenewFailureLimit
  BY KindsAssumption
<1>. HIDE DEF r
<1>6. /\ r.job \in Jobs /\ r.pc \notin ItemPC
      /\ r.fails < RenewFailureLimit
  BY <1>1, <1>2, <1>3, <1>5
<1>. QED
  BY <1>2, <1>4, <1>6, StepTyped

LEMMA DroppedTyped ==
  ASSUME TypeOK, NEW w \in Workers
  PROVE  /\ Dropped(w) \in Local
         /\ Dropped(w).pc = proc[w].pc /\ Dropped(w).job = proc[w].job
         /\ Dropped(w).lost = proc[w].lost /\ Dropped(w).fails = proc[w].fails
         /\ Dropped(w).rated = proc[w].rated /\ Dropped(w).blocked = proc[w].blocked
<1>. DEFINE q == proc[w]
            a == [q EXCEPT !.item = 0, !.attempt = 0, !.token = 0]
            b == [a EXCEPT !.answer = "none", !.age = 0, !.command = "NONE"]
<1>0. 0 \in 0 .. Horizon /\ "NONE" \in JobCommand
  BY TimesAssumption DEF JobCommand
<1>1. q \in Local
  BY DEF TypeOK, Processes
<1>. HIDE DEF q
<1>2. /\ a \in Local /\ a.pc = q.pc /\ a.job = q.job /\ a.lost = q.lost
      /\ a.fails = q.fails /\ a.rated = q.rated /\ a.blocked = q.blocked
  BY <1>1 DEF Local
<1>. HIDE DEF a
<1>3. /\ b \in Local /\ b.pc = a.pc /\ b.job = a.job /\ b.lost = a.lost
      /\ b.fails = a.fails /\ b.rated = a.rated /\ b.blocked = a.blocked
  BY <1>0, <1>2 DEF Local
<1>4. Dropped(w) = b
  BY DEF Dropped, a, q
<1>. HIDE DEF b
<1>. QED
  BY <1>2, <1>3, <1>4 DEF q

LEMMA SettleTyped ==
  ASSUME Typed, NEW w \in Workers, NEW how \in Outcome, ~At(w, "new"), Settle(w, how)
  PROVE  proc' \in [Processes -> Local] /\ WellFormed'
<1>. DEFINE d == Dropped(w)
            r == [d EXCEPT !.pc = "settle", !.outcome = how]
<1>1. w \in Processes /\ d \in Local
      /\ d.job = proc[w].job /\ d.lost = proc[w].lost /\ d.fails = proc[w].fails
  BY DroppedTyped DEF Typed, Processes
<1>. HIDE DEF d
<1>2. /\ r \in Local /\ r.pc = "settle"
      /\ r.job = d.job /\ r.lost = d.lost /\ r.fails = d.fails
  BY <1>1 DEF Local, PC, StopPC
<1>3. proc' = [proc EXCEPT ![w] = r]
  BY DEF Settle, d
<1>4. "settle" \notin ItemPC
  BY DEF ItemPC, SentPC
<1>. HIDE DEF r
<1>. QED
  BY <1>1, <1>2, <1>3, <1>4, MoveTyped

LEMMA LoseGateTyped ==
  ASSUME Typed, NEW w \in Workers, ~At(w, "new"), LoseGate(w)
  PROVE  proc' \in [Processes -> Local] /\ WellFormed'
<1>. DEFINE d == Dropped(w)
            r == [d EXCEPT !.pc = "settle", !.outcome = "lost", !.lost = TRUE]
<1>1. w \in Processes /\ d \in Local /\ d.job = proc[w].job
  BY DroppedTyped DEF Typed, Processes
<1>. HIDE DEF d
<1>2. r \in Local /\ r.pc = "settle" /\ r.job = d.job /\ r.lost
  BY <1>1 DEF Local, PC, StopPC, Outcome
<1>3. proc' = [proc EXCEPT ![w] = r]
  BY DEF LoseGate, d
<1>4. "settle" \notin ItemPC
  BY DEF ItemPC, SentPC
<1>. HIDE DEF r
<1>. QED
  BY <1>1, <1>2, <1>3, <1>4, MoveTyped

LEMMA LoseRequestTyped ==
  ASSUME Typed, NEW w \in Workers, At(w, "request"), LoseRequest(w)
  PROVE  proc' \in [Processes -> Local] /\ WellFormed'
<1>. DEFINE r == [proc[w] EXCEPT !.pc = "quarantine", !.lost = TRUE]
<1>1. w \in Processes /\ proc[w] \in Local
  BY DEF Typed, TypeOK, Processes
<1>2. r \in Local /\ r.job = proc[w].job /\ r.item = proc[w].item /\ r.lost
  BY <1>1, ZenonT(40) DEF Local, PC, LoopPC
<1>3. proc' = [proc EXCEPT ![w] = r]
  BY DEF LoseRequest
<1>4. ~At(w, "new") /\ proc[w].pc \in ItemPC
  BY DEF At, ItemPC, SentPC
<1>. HIDE DEF r
<1>. QED
  BY <1>1, <1>2, <1>3, <1>4, MoveTyped

-----------------------------------------------------------------------------
(* The actions, group by group.                                            *)

(* Every pc that has no item in hand.                                      *)
LEMMA RestPC ==
  \A s \in RecoverPC \cup ClaimPC \cup StopPC \cup OperatorPC
            \cup {"sleep", "loop", "clearCommand", "gate", "ackPause", "connect", "hung"} :
    s \in PC /\ s \notin ItemPC /\ s # "new"
  BY DEF PC, ItemPC, SentPC, RecoverPC, ClaimPC, LoopPC, StopPC, OperatorPC

LEMMA ItemPCs == \A s \in ItemPC : s \in PC /\ s # "new"
  BY DEF PC, ItemPC, SentPC, LoopPC

LEMMA RecoveredTyped ==
  ASSUME Typed, NEW p \in Workers \cup Monitors, ~At(p, "new"), Recovered(p)
  PROVE  proc' \in [Processes -> Local] /\ WellFormed'
<1>1. p \in Processes
  BY DEF Processes
<1>2. CASE p \notin Workers
  BY <1>1, <1>2, EndTyped DEF Recovered
<1>3. CASE p \in Workers
  <2>. DEFINE r == [proc[p] EXCEPT !.pc = "policy", !.seen = None, !.stale = FALSE]
  <2>1. proc[p] \in Local
    BY <1>1 DEF Typed, TypeOK
  <2>2. "policy" \in PC /\ "policy" \notin ItemPC
    BY RestPC DEF ClaimPC
  <2>3. /\ r \in Local /\ r.pc = "policy" /\ r.job = proc[p].job
        /\ r.lost = proc[p].lost /\ r.fails = proc[p].fails
    BY <2>1, <2>2 DEF Local
  <2>4. proc' = [proc EXCEPT ![p] = r]
    BY <1>3 DEF Recovered
  <2>. HIDE DEF r
  <2>. QED
    BY <1>1, <2>2, <2>3, <2>4, MoveTyped
<1>. QED
  BY <1>2, <1>3

LEMMA RecoverTyped ==
  ASSUME Typed, NEW p \in Workers \cup Monitors, Recover(p)
  PROVE  Typed'
<1>1. p \in Processes /\ proc[p] \in Local
  BY DEF Typed, TypeOK, Processes
<1>2. ~At(p, "new")
  BY DEF Recover, RecoverRead, RecoverJobLease, RecoverAccountLease, RecoverRelease,
         RecoverClear, RecoverPause, RecoverItems, At
<1>3. JobOf(p) \in Jobs
  BY <1>1, <1>2 DEF Typed, WellFormed
<1>. SUFFICES StoreTypeOK' /\ proc' \in [Processes -> Local] /\ WellFormed'
  BY DEF Typed, TypeOK
<1>4. CASE RecoverRead(p)
  <2>. DEFINE row == job[JobOf(p)]
              running == row.status \in {"RUNNING", "RATE_LIMITED"}
              seen == IF running THEN row.worker ELSE None
              r == [proc[p] EXCEPT !.pc = "recoverJobLease", !.stale = running, !.seen = seen]
  <2>1. seen \in Workers \cup {None} /\ running \in BOOLEAN
    BY <1>3 DEF Typed, TypeOK, StoreTypeOK, JobRow
  <2>2. "recoverJobLease" \in PC /\ "recoverJobLease" \notin ItemPC
    BY RestPC DEF RecoverPC
  <2>3. proc' = [proc EXCEPT ![p] = r]
    BY <1>4 DEF RecoverRead
  <2>. HIDE DEF seen, running
  <2>4. /\ r \in Local /\ r.pc = "recoverJobLease" /\ r.job = proc[p].job
        /\ r.lost = proc[p].lost /\ r.fails = proc[p].fails
    BY <1>1, <2>1, <2>2 DEF Local
  <2>. HIDE DEF r
  <2>5. proc' \in [Processes -> Local] /\ WellFormed'
    BY <1>1, <1>2, <2>2, <2>3, <2>4, MoveTyped
  <2>. QED
    BY <1>4, <2>5 DEF RecoverRead, rows, Typed, TypeOK, StoreTypeOK
<1>5. CASE RecoverJobLease(p) \/ RecoverAccountLease(p)
  <2>1. /\ {"recoverAccountLease", "recoverRelease", "recoverItems"} \subseteq PC
        /\ {"recoverAccountLease", "recoverRelease", "recoverItems"} \cap ItemPC = {}
    BY RestPC DEF RecoverPC
  <2>2. proc' \in [Processes -> Local] /\ WellFormed'
    BY <1>1, <1>2, <1>5, <2>1, RecoveredTyped, GoTyped
    DEF RecoverJobLease, RecoverAccountLease
  <2>. QED
    BY <1>5, <2>2
    DEF RecoverJobLease, RecoverAccountLease, rows, Typed, TypeOK, StoreTypeOK
<1>6. CASE RecoverRelease(p)
  <2>. DEFINE r == [proc[p] EXCEPT !.pc = "recoverClear", !.seen = None]
  <2>1. "recoverClear" \in PC /\ "recoverClear" \notin ItemPC
    BY RestPC DEF RecoverPC
  <2>2. /\ r \in Local /\ r.pc = "recoverClear" /\ r.job = proc[p].job
        /\ r.lost = proc[p].lost /\ r.fails = proc[p].fails
    BY <1>1, <2>1 DEF Local
  <2>3. proc' = [proc EXCEPT ![p] = r]
    BY <1>6 DEF RecoverRelease
  <2>. HIDE DEF r
  <2>4. proc' \in [Processes -> Local] /\ WellFormed'
    BY <1>1, <1>2, <2>1, <2>2, <2>3, MoveTyped
  <2>5. proc[p].seen \in Workers \cup {None}
    BY <1>1 DEF Local
  <2>6. account' \in [Accounts -> AccountRow]
    <3>1. 0 \in 0 .. Horizon
      BY TimesAssumption
    <3>2. CASE proc[p].seen = None
      BY <1>6, <3>2 DEF RecoverRelease, Typed, TypeOK, StoreTypeOK
    <3>3. CASE proc[p].seen # None
      BY <1>3, <1>6, <2>5, <3>1, <3>3, AccountStatementsTyped DEF RecoverRelease, Typed
    <3>. QED
      BY <3>2, <3>3
  <2>. QED
    BY <1>6, <2>4, <2>6 DEF RecoverRelease, Typed, TypeOK, StoreTypeOK
<1>7. CASE RecoverClear(p)
  <2>1. "recoverPause" \in PC /\ "recoverPause" \notin ItemPC
    BY RestPC DEF RecoverPC
  <2>2. proc' \in [Processes -> Local] /\ WellFormed'
    BY <1>1, <1>2, <1>7, <2>1, GoTyped DEF RecoverClear
  <2>3. job' \in [Jobs -> JobRow]
    BY <1>7, ClearWorkerTyped DEF RecoverClear, Typed
  <2>. QED
    BY <1>7, <2>2, <2>3 DEF RecoverClear, Typed, TypeOK, StoreTypeOK
<1>8. CASE RecoverPause(p)
  <2>1. "recoverItems" \in PC /\ "recoverItems" \notin ItemPC
    BY RestPC DEF RecoverPC
  <2>2. proc' \in [Processes -> Local] /\ WellFormed'
    BY <1>1, <1>2, <1>8, <2>1, GoTyped DEF RecoverPause
  <2>3. job' \in [Jobs -> JobRow]
    BY <1>8 DEF RecoverPause, UpdateStatus, Typed, TypeOK, StoreTypeOK, JobRow, JobStatus
  <2>. QED
    BY <1>8, <2>2, <2>3 DEF RecoverPause, Typed, TypeOK, StoreTypeOK
<1>9. CASE RecoverItems(p)
  <2>1. proc' \in [Processes -> Local] /\ WellFormed'
    BY <1>2, <1>9, RecoveredTyped DEF RecoverItems
  <2>2. item' \in [Items -> ItemRow]
    BY <1>9, ItemStatementsTyped DEF RecoverItems, Typed
  <2>. QED
    BY <1>9, <2>1, <2>2 DEF RecoverItems, Typed, TypeOK, StoreTypeOK
<1>. QED
  BY <1>4, <1>5, <1>6, <1>7, <1>8, <1>9 DEF Recover

(* run and recover_all_stale take up a job.                                *)
LEMMA TakeUpTyped ==
  ASSUME Typed, NEW p \in Processes, NEW j \in Jobs, NEW next \in PC, next \notin ItemPC,
         At(p, "new"), proc' = [proc EXCEPT ![p] = [@ EXCEPT !.pc = next, !.job = j]]
  PROVE  proc' \in [Processes -> Local] /\ WellFormed'
<1>. DEFINE r == [proc[p] EXCEPT !.pc = next, !.job = j]
<1>1. proc[p] \in Local
  BY DEF Typed, TypeOK
<1>2. r \in Local /\ r.pc = next /\ r.job = j /\ r.lost = proc[p].lost /\ r.fails = proc[p].fails
  BY <1>1 DEF Local
<1>3. p \in Workers /\ ~proc[p].lost => proc[p].fails < RenewFailureLimit
  BY DEF Typed, WellFormed
<1>4. proc' = [proc EXCEPT ![p] = r]
  OBVIOUS
<1>. HIDE DEF r
<1>. QED
  BY <1>2, <1>3, <1>4, StepTyped

LEMMA StartTyped ==
  ASSUME Typed, NEW p \in Processes, NEW j \in Jobs,
         \/ p \in Workers /\ Run(p, j)
         \/ p \in Monitors /\ Scan(p, j)
  PROVE  Typed'
<1>1. "recoverRead" \in PC /\ "recoverRead" \notin ItemPC
  BY RestPC DEF RecoverPC
<1>2. proc' \in [Processes -> Local] /\ WellFormed'
  BY <1>1, TakeUpTyped DEF Run, Scan
<1>. QED
  BY <1>2 DEF Run, Scan, rows, Typed, TypeOK, StoreTypeOK

LEMMA ClaimTyped ==
  ASSUME Typed, NEW w \in Workers, Claim(w)
  PROVE  Typed'
<1>1. w \in Processes /\ proc[w] \in Local
  BY DEF Typed, TypeOK, Processes
<1>2. ~At(w, "new")
  BY DEF Claim, Policy, ClaimJob, SelectAccount, ClaimAccountRow, Rollback, Start,
         Connect, At
<1>3. JobOf(w) \in Jobs
  BY <1>1, <1>2 DEF Typed, WellFormed
<1>4. proc[w].age \in 0 .. Horizon /\ 0 \in 0 .. Horizon
  BY <1>1, TimesAssumption DEF Local
<1>5. /\ {"claimJob", "selectAccount", "rollback", "claimAccount", "start", "connect",
          "releaseAccount", "sleep"} \subseteq PC
      /\ {"claimJob", "selectAccount", "rollback", "claimAccount", "start", "connect",
          "releaseAccount", "sleep"} \cap ItemPC = {}
  BY RestPC DEF ClaimPC, StopPC
<1>. SUFFICES StoreTypeOK' /\ proc' \in [Processes -> Local] /\ WellFormed'
  BY DEF Typed, TypeOK
<1>6. CASE Policy(w)
  <2>1. CASE End(w, "done")
    BY <1>1, <1>2, <1>6, <2>1, EndTyped DEF Policy, rows, Typed, TypeOK, StoreTypeOK
  <2>2. ASSUME NEW b \in Nat,
               proc' = [proc EXCEPT ![w] =
                          [@ EXCEPT !.pc = "claimJob", !.age = 0, !.blocked = b]]
        PROVE  proc' \in [Processes -> Local] /\ WellFormed'
    <3>. DEFINE r == [proc[w] EXCEPT !.pc = "claimJob", !.age = 0, !.blocked = b]
    <3>1. /\ r \in Local /\ r.pc = "claimJob" /\ r.job = proc[w].job
          /\ r.lost = proc[w].lost /\ r.fails = proc[w].fails
      BY <1>1, <1>4, <1>5 DEF Local
    <3>2. proc' = [proc EXCEPT ![w] = r]
      BY <2>2
    <3>. HIDE DEF r
    <3>. QED
      BY <1>1, <1>2, <1>5, <3>1, <3>2, MoveTyped
  <2>. QED
    BY <1>6, <2>1, <2>2, KindsAssumption DEF Policy, rows, Typed, TypeOK, StoreTypeOK
<1>7. CASE ClaimJob(w)
  <2>1. proc' \in [Processes -> Local] /\ WellFormed'
    BY <1>1, <1>2, <1>5, <1>7, EndTyped, GoTyped DEF ClaimJob
  <2>2. job' \in [Jobs -> JobRow]
    BY <1>4, <1>7, ClaimWorkerTyped DEF ClaimJob, Typed, TypeOK, StoreTypeOK
  <2>. QED
    BY <1>7, <2>1, <2>2 DEF ClaimJob, Typed, TypeOK, StoreTypeOK
<1>8. CASE SelectAccount(w)
  <2>. DEFINE r == [proc[w] EXCEPT !.pc = "claimAccount", !.age = 0]
  <2>1. /\ r \in Local /\ r.pc = "claimAccount" /\ r.job = proc[w].job
        /\ r.lost = proc[w].lost /\ r.fails = proc[w].fails
    BY <1>1, <1>4, <1>5 DEF Local
  <2>2. Go(w, "rollback") \/ proc' = [proc EXCEPT ![w] = r]
    BY <1>8 DEF SelectAccount
  <2>. HIDE DEF r
  <2>3. proc' \in [Processes -> Local] /\ WellFormed'
    BY <1>1, <1>2, <1>5, <2>1, <2>2, GoTyped, MoveTyped
  <2>. QED
    BY <1>8, <2>3 DEF SelectAccount, rows, Typed, TypeOK, StoreTypeOK
<1>9. CASE ClaimAccountRow(w)
  <2>1. proc' \in [Processes -> Local] /\ WellFormed'
    BY <1>1, <1>2, <1>5, <1>9, GoTyped DEF ClaimAccountRow
  <2>2. account' \in [Accounts -> AccountRow]
    BY <1>3, <1>4, <1>9, AccountStatementsTyped DEF ClaimAccountRow, Typed
  <2>. QED
    BY <1>9, <2>1, <2>2 DEF ClaimAccountRow, Typed, TypeOK, StoreTypeOK
<1>10. CASE Rollback(w)
  <2>1. job' \in [Jobs -> JobRow]
    BY <1>10, JobStatementsTyped DEF Rollback, Typed, JobStatus, JobCommand
  <2>. QED
    BY <1>1, <1>2, <1>10, <2>1, EndTyped DEF Rollback, Typed, TypeOK, StoreTypeOK
<1>11. CASE Start(w)
  <2>1. proc' \in [Processes -> Local] /\ WellFormed'
    BY <1>1, <1>2, <1>5, <1>11, GoTyped DEF Start
  <2>2. job' \in [Jobs -> JobRow]
    BY <1>11, SettleStatusTyped DEF Start, Typed, TypeOK, StoreTypeOK, JobStatus
  <2>. QED
    BY <1>11, <2>1, <2>2 DEF Start, Typed, TypeOK, StoreTypeOK
<1>12. CASE Connect(w)
  BY <1>1, <1>2, <1>5, <1>12, GoTyped DEF Connect, rows, Typed, TypeOK, StoreTypeOK
<1>. QED
  BY <1>6, <1>7, <1>8, <1>9, <1>10, <1>11, <1>12 DEF Claim

LEMMA GateTyped ==
  ASSUME Typed, NEW w \in Workers, Gate(w)
  PROVE  Typed'
<1>1. w \in Processes /\ proc[w] \in Local
  BY DEF Typed, TypeOK, Processes
<1>2. ~At(w, "new")
  BY DEF Gate, At
<1>3. JobOf(w) \in Jobs
  BY <1>1, <1>2 DEF Typed, WellFormed
<1>4. /\ {"sleep", "settle", "acquire"} \subseteq PC
      /\ {"sleep", "settle"} \cap ItemPC = {}
  BY RestPC, ItemPCs DEF StopPC, ItemPC
<1>. SUFFICES proc' \in [Processes -> Local] /\ WellFormed'
  BY DEF Gate, rows, Typed, TypeOK, StoreTypeOK
<1>5. CASE LoseGate(w)
  BY <1>2, <1>5, LoseGateTyped
<1>6. ASSUME NEW b \in BOOLEAN,
             proc' = [proc EXCEPT ![w] = [@ EXCEPT !.pc = "sleep", !.rated = b]]
      PROVE  proc' \in [Processes -> Local] /\ WellFormed'
  <2>. DEFINE r == [proc[w] EXCEPT !.pc = "sleep", !.rated = b]
  <2>1. /\ r \in Local /\ r.pc = "sleep" /\ r.job = proc[w].job
        /\ r.lost = proc[w].lost /\ r.fails = proc[w].fails
    BY <1>1, <1>4 DEF Local
  <2>2. proc' = [proc EXCEPT ![w] = r]
    BY <1>6
  <2>. HIDE DEF r
  <2>. QED
    BY <1>1, <1>2, <1>4, <2>1, <2>2, MoveTyped
<1>7. ASSUME NEW i \in Due(JobOf(w)),
             proc' = [proc EXCEPT ![w] = [@ EXCEPT !.pc = "acquire", !.rated = FALSE,
                                                   !.item = i,
                                                   !.attempt = item[i].attempts]]
      PROVE  proc' \in [Processes -> Local] /\ WellFormed'
  <2>. DEFINE a == [proc[w] EXCEPT !.pc = "acquire", !.rated = FALSE]
              r == [a EXCEPT !.item = i, !.attempt = item[i].attempts]
  <2>1. i \in Items /\ JobOfItem[i] = proc[w].job /\ item[i].attempts \in Nat
    BY <1>7 DEF Due, Typed, TypeOK, StoreTypeOK, ItemRow, JobOf
  <2>2. /\ a \in Local /\ a.pc = "acquire" /\ a.job = proc[w].job
        /\ a.lost = proc[w].lost /\ a.fails = proc[w].fails
    BY <1>1, <1>4 DEF Local
  <2>3. proc' = [proc EXCEPT ![w] = r]
    BY <1>7
  <2>. HIDE DEF a
  <2>4. /\ r \in Local /\ r.pc = a.pc /\ r.job = a.job /\ r.item = i
        /\ r.lost = a.lost /\ r.fails = a.fails
    BY <2>1, <2>2 DEF Local
  <2>. HIDE DEF r
  <2>5. ~proc[w].lost => proc[w].fails < RenewFailureLimit
    BY DEF Typed, WellFormed
  <2>. QED
    BY <1>1, <1>3, <2>1, <2>2, <2>3, <2>4, <2>5, StepTyped DEF JobOf
<1>8. ASSUME proc' = [proc EXCEPT ![w] = [@ EXCEPT !.pc = "settle", !.rated = FALSE,
                                                   !.outcome = "drained"]]
      PROVE  proc' \in [Processes -> Local] /\ WellFormed'
  <2>. DEFINE r == [proc[w] EXCEPT !.pc = "settle", !.rated = FALSE, !.outcome = "drained"]
  <2>1. /\ r \in Local /\ r.pc = "settle" /\ r.job = proc[w].job
        /\ r.lost = proc[w].lost /\ r.fails = proc[w].fails
    BY <1>1, <1>4 DEF Local, Outcome
  <2>2. proc' = [proc EXCEPT ![w] = r]
    BY <1>8
  <2>. HIDE DEF r
  <2>. QED
    BY <1>1, <1>2, <1>4, <2>1, <2>2, MoveTyped
<1>. QED
  BY <1>5, <1>6, <1>7, <1>8 DEF Gate

LEMMA SaveTyped ==
  ASSUME Typed, NEW w \in Workers, Save(w)
  PROVE  Typed'
<1>1. w \in Processes /\ At(w, "save") /\ ~At(w, "new")
  BY DEF Save, At, Processes
<1>2. /\ proc[w].item \in Items
      /\ proc[w] \in Local
      /\ Attempt(w) \in Nat
  BY <1>1 DEF Typed, TypeOK, WellFormed, At, SentPC, Local, Attempt
<1>. DEFINE d == Dropped(w)
            limited == proc[w].answer = "RATE_LIMITED"
            next == IF Written(w) THEN "loop" ELSE "settle"
            end == IF Written(w) THEN "none" ELSE "lost"
<1>3. PICK x \in RetryDelays :
        /\ IF Written(w) THEN SaveAnswer(w, x) ELSE item' = item
        /\ proc' = [proc EXCEPT ![w] =
             [d EXCEPT !.pc = next, !.outcome = end,
                       !.blocked = IF limited THEN x ELSE @, !.rated = @ \/ limited]]
  BY DEF Save
<1>4. x \in Nat
  BY KindsAssumption
<1>5. item' \in [Items -> ItemRow]
  <2>1. ASSUME NEW s \in CheckStatus, NEW y \in Nat,
               SaveResult(proc[w].item, s, Attempt(w), y)
        PROVE  item' \in [Items -> ItemRow]
    BY <1>2, <2>1, SaveResultTyped DEF Typed
  <2>2. CASE SaveAnswer(w, x)
    BY <1>4, <2>1, <2>2 DEF SaveAnswer, CheckStatus, Terminal
  <2>3. CASE item' = item
    BY <2>3 DEF Typed, TypeOK, StoreTypeOK
  <2>. QED
    BY <1>3, <2>2, <2>3
<1>6. next \in PC /\ next \notin ItemPC /\ end \in Outcome
  BY RestPC DEF StopPC, Outcome
<1>7. /\ d \in Local /\ d.job = proc[w].job
      /\ d.lost = proc[w].lost /\ d.fails = proc[w].fails
  BY DroppedTyped DEF Typed
<1>. DEFINE a == [d EXCEPT !.pc = next, !.outcome = end]
            r == [a EXCEPT !.blocked = IF limited THEN x ELSE @, !.rated = @ \/ limited]
<1>8. proc' = [proc EXCEPT ![w] = r]
  BY <1>3
<1>. HIDE DEF d, next, end
<1>9. /\ a \in Local /\ a.pc = next /\ a.job = d.job
      /\ a.lost = d.lost /\ a.fails = d.fails
  BY <1>6, <1>7 DEF Local
<1>. HIDE DEF a
<1>10. /\ r \in Local /\ r.pc = a.pc /\ r.job = a.job
       /\ r.lost = a.lost /\ r.fails = a.fails
  BY <1>4, <1>9, ZenonT(40) DEF Local
<1>. HIDE DEF r
<1>11. proc' \in [Processes -> Local] /\ WellFormed'
  BY <1>1, <1>6, <1>7, <1>8, <1>9, <1>10, MoveTyped
<1>. QED
  BY <1>5, <1>11 DEF Save, Typed, TypeOK, StoreTypeOK

LEMMA ProcessTyped ==
  ASSUME Typed, NEW w \in Workers, Process(w)
  PROVE  Typed'
<1>1. w \in Processes /\ proc[w] \in Local
  BY DEF Typed, TypeOK, Processes
<1>2. ~At(w, "new")
  BY DEF Process, Poll, ClearCommand, AckPause, Gate, Acquire, Mark, Respond,
         CancelRequest, Quarantine, Save, Abandon, At
<1>3. JobOf(w) \in Jobs
  BY <1>1, <1>2 DEF Typed, WellFormed
<1>4. 0 \in 0 .. Horizon
  BY TimesAssumption
<1>5. /\ {"gate", "clearCommand", "ackPause", "settle", "loop"} \subseteq PC
      /\ {"gate", "clearCommand", "ackPause", "settle", "loop"} \cap ItemPC = {}
  BY RestPC DEF StopPC
<1>6. ItemPC \subseteq PC
  BY ItemPCs
<1>. SUFFICES StoreTypeOK' /\ proc' \in [Processes -> Local] /\ WellFormed'
  BY DEF Typed, TypeOK
<1>7. CASE Poll(w)
  <2>. DEFINE cmd == job[JobOf(w)].cmd
              next == IF cmd = "NONE" THEN "gate" ELSE "clearCommand"
              r == [proc[w] EXCEPT !.command = cmd, !.pc = next]
  <2>1. cmd \in JobCommand /\ next \in PC /\ next \notin ItemPC
    BY <1>3, <1>5 DEF Typed, TypeOK, StoreTypeOK, JobRow
  <2>2. Settle(w, "lost") \/ proc' = [proc EXCEPT ![w] = r]
    BY <1>7 DEF Poll
  <2>. HIDE DEF cmd, next
  <2>3. /\ r \in Local /\ r.pc = next /\ r.job = proc[w].job
        /\ r.lost = proc[w].lost /\ r.fails = proc[w].fails
    BY <1>1, <2>1 DEF Local
  <2>. HIDE DEF r
  <2>4. proc' \in [Processes -> Local] /\ WellFormed'
    BY <1>1, <1>2, <2>1, <2>2, <2>3, SettleTyped, MoveTyped DEF Outcome
  <2>. QED
    BY <1>7, <2>4 DEF Poll, rows, Typed, TypeOK, StoreTypeOK
<1>8. CASE ClearCommand(w)
  <2>1. proc' \in [Processes -> Local] /\ WellFormed'
    BY <1>1, <1>2, <1>5, <1>8, GoTyped, SettleTyped DEF ClearCommand, Outcome
  <2>2. job' \in [Jobs -> JobRow]
    BY <1>8 DEF ClearCommand, SetCommand, Typed, TypeOK, StoreTypeOK, JobRow, JobCommand
  <2>. QED
    BY <1>8, <2>1, <2>2 DEF ClearCommand, Typed, TypeOK, StoreTypeOK
<1>9. CASE AckPause(w)
  <2>1. job' \in [Jobs -> JobRow]
    BY <1>9, JobStatementsTyped DEF AckPause, Typed, JobStatus, JobCommand
  <2>. QED
    BY <1>2, <1>9, <2>1, SettleTyped DEF AckPause, Outcome, Typed, TypeOK, StoreTypeOK
<1>10. CASE Acquire(w)
  <2>1. proc' \in [Processes -> Local] /\ WellFormed'
    BY <1>1, <1>2, <1>6, <1>10, GoTyped, LoseGateTyped DEF Acquire, At, ItemPC
  <2>. QED
    BY <1>10, <2>1 DEF Acquire, rows, Typed, TypeOK, StoreTypeOK
<1>11. CASE Mark(w)
  <2>. DEFINE i == proc[w].item
              n == item[i].sent + 1
              r == [proc[w] EXCEPT !.pc = "request", !.age = 0, !.token = n]
  <2>1. i \in Items /\ proc[w].pc \in ItemPC
    BY <1>11 DEF Mark, At, Typed, WellFormed, ItemPC
  <2>2. n \in Nat
    BY <2>1 DEF Typed, TypeOK, StoreTypeOK, ItemRow
  <2>3. Go(w, "loop") \/ proc' = [proc EXCEPT ![w] = r]
    BY <1>11 DEF Mark
  <2>. HIDE DEF n
  <2>4. /\ r \in Local /\ r.pc = "request" /\ r.job = proc[w].job
        /\ r.item = proc[w].item
        /\ r.lost = proc[w].lost /\ r.fails = proc[w].fails
    BY <1>1, <1>4, <1>6, <2>2 DEF Local, ItemPC, SentPC
  <2>. HIDE DEF r
  <2>5. proc' \in [Processes -> Local] /\ WellFormed'
    BY <1>1, <1>2, <1>5, <2>1, <2>3, <2>4, GoTyped, MoveTyped
  <2>6. item' \in [Items -> ItemRow]
    BY <1>11, <2>1, ItemStatementsTyped DEF Mark, Typed
  <2>. QED
    BY <1>11, <2>5, <2>6 DEF Mark, Typed, TypeOK, StoreTypeOK
<1>12. CASE Respond(w)
  <2>1. ASSUME NEW x \in Answers,
               proc' = [proc EXCEPT ![w] = [@ EXCEPT !.pc = "save", !.answer = x]]
        PROVE  proc' \in [Processes -> Local] /\ WellFormed'
    <3>. DEFINE r == [proc[w] EXCEPT !.pc = "save", !.answer = x]
    <3>1. /\ r \in Local /\ r.job = proc[w].job /\ r.item = proc[w].item
          /\ r.lost = proc[w].lost /\ r.fails = proc[w].fails
      BY <1>1, <1>6 DEF Local, ItemPC, SentPC
    <3>2. proc' = [proc EXCEPT ![w] = r]
      BY <2>1
    <3>3. proc[w].pc \in ItemPC
      BY <1>12 DEF Respond, At, ItemPC, SentPC
    <3>. HIDE DEF r
    <3>. QED
      BY <1>1, <1>2, <3>1, <3>2, <3>3, MoveTyped
  <2>2. proc' \in [Processes -> Local] /\ WellFormed'
    BY <1>12, <2>1, LoseRequestTyped DEF Respond
  <2>. QED
    BY <1>12, <2>2 DEF Respond, rows, Typed, TypeOK, StoreTypeOK
<1>13. CASE CancelRequest(w)
  BY <1>13, LoseRequestTyped DEF CancelRequest, rows, Typed, TypeOK, StoreTypeOK
<1>14. CASE Quarantine(w)
  <2>1. item' \in [Items -> ItemRow]
    BY <1>14, ItemStatementsTyped DEF Quarantine, Typed
  <2>. QED
    BY <1>2, <1>14, <2>1, SettleTyped DEF Quarantine, Outcome, Typed, TypeOK, StoreTypeOK
<1>15. CASE Abandon(w)
  BY <1>2, <1>15, SettleTyped DEF Abandon, Outcome, rows, Typed, TypeOK, StoreTypeOK
<1>. QED
  BY <1>7, <1>8, <1>9, <1>10, <1>11, <1>12, <1>13, <1>14, <1>15, GateTyped, SaveTyped
  DEF Process, Typed, TypeOK

LEMMA CleanupTyped ==
  ASSUME Typed, NEW w \in Workers, Cleanup(w)
  PROVE  Typed'
<1>1. w \in Processes
  BY DEF Processes
<1>2. ~At(w, "new")
  BY DEF Cleanup, SettleJob, FinishJob, Disconnect, ReleaseAccountRow, ReleaseJob, At
<1>3. JobOf(w) \in Jobs
  BY <1>1, <1>2 DEF Typed, WellFormed
<1>4. 0 \in 0 .. Horizon
  BY TimesAssumption
<1>5. /\ {"finish", "disconnect", "releaseAccount", "releaseJob"} \subseteq PC
      /\ {"finish", "disconnect", "releaseAccount", "releaseJob"} \cap ItemPC = {}
  BY RestPC DEF StopPC
<1>. SUFFICES StoreTypeOK' /\ proc' \in [Processes -> Local] /\ WellFormed'
  BY DEF Typed, TypeOK
<1>6. CASE SettleJob(w) \/ FinishJob(w)
  <2>1. proc' \in [Processes -> Local] /\ WellFormed'
    BY <1>1, <1>2, <1>5, <1>6, GoTyped DEF SettleJob, FinishJob
  <2>2. \/ SettleStatus(JobOf(w), "CANCELLED") \/ job' = job
        \/ \E s \in JobStatus : UpdateStatusIfOwned(w, JobOf(w), s)
    BY <1>6 DEF SettleJob, FinishJob, JobStatus
  <2>3. job' \in [Jobs -> JobRow]
    BY <2>2, SettleStatusTyped, JobStatementsTyped DEF Typed, JobStatus, JobCommand
  <2>. QED
    BY <1>6, <2>1, <2>3 DEF SettleJob, FinishJob, Typed, TypeOK, StoreTypeOK
<1>7. CASE Disconnect(w)
  BY <1>1, <1>2, <1>5, <1>7, GoTyped DEF Disconnect, rows, Typed, TypeOK, StoreTypeOK
<1>8. CASE ReleaseAccountRow(w)
  <2>1. account' \in [Accounts -> AccountRow]
    BY <1>3, <1>4, <1>8, AccountStatementsTyped DEF ReleaseAccountRow, Typed
  <2>. QED
    BY <1>1, <1>2, <1>5, <1>8, <2>1, GoTyped
    DEF ReleaseAccountRow, Typed, TypeOK, StoreTypeOK
<1>9. CASE ReleaseJob(w)
  <2>1. job' \in [Jobs -> JobRow]
    BY <1>9, JobStatementsTyped DEF ReleaseJob, Typed, JobStatus, JobCommand
  <2>. QED
    BY <1>1, <1>2, <1>9, <2>1, EndTyped DEF ReleaseJob, Typed, TypeOK, StoreTypeOK
<1>. QED
  BY <1>6, <1>7, <1>8, <1>9 DEF Cleanup

LEMMA RefreshTyped ==
  ASSUME Typed, NEW w \in Workers, Refresh(w)
  PROVE  Typed'
<1>. DEFINE r == [proc[w] EXCEPT !.cancel = TRUE]
<1>1. w \in Processes /\ proc[w] \in Local
  BY DEF Typed, TypeOK, Processes
<1>2. ~At(w, "new")
  BY DEF Refresh, Processing, At
<1>3. /\ r \in Local /\ r.pc = proc[w].pc /\ r.job = proc[w].job /\ r.item = proc[w].item
      /\ r.lost = proc[w].lost /\ r.fails = proc[w].fails
  BY <1>1 DEF Local
<1>4. proc' = proc \/ proc' = [proc EXCEPT ![w] = r]
  BY DEF Refresh
<1>. HIDE DEF r
<1>5. proc' \in [Processes -> Local] /\ WellFormed'
  <2>1. CASE proc' = proc
    BY <2>1 DEF Typed, TypeOK, WellFormed, At, JobOf
  <2>2. CASE proc' = [proc EXCEPT ![w] = r]
    BY <1>1, <1>2, <1>3, <2>2, MoveTyped
  <2>. QED
    BY <1>4, <2>1, <2>2
<1>6. job' = job \/ \E s \in JobStatus : UpdateStatus(JobOf(w), s)
  BY DEF Refresh, JobStatus
<1>7. job' \in [Jobs -> JobRow]
  BY <1>6 DEF UpdateStatus, Typed, TypeOK, StoreTypeOK, JobRow
<1>. QED
  BY <1>5, <1>7 DEF Refresh, Typed, TypeOK, StoreTypeOK

LEMMA HeartbeatTyped ==
  ASSUME Typed, NEW w \in Workers, Heartbeat(w)
  PROVE  Typed'
<1>1. w \in Processes /\ proc[w] \in Local
  BY DEF Typed, TypeOK, Processes
<1>2. ~At(w, "new") /\ ~proc[w].lost
  BY DEF Heartbeat, Suspended, Processing, At
<1>3. JobOf(w) \in Jobs
  BY <1>1, <1>2 DEF Typed, WellFormed
<1>4. proc[w].fails + 1 \in 0 .. RenewFailureLimit /\ 0 \in 0 .. RenewFailureLimit
  BY <1>1, <1>2, KindsAssumption DEF Typed, WellFormed, Local
<1>5. PICK n \in {0, proc[w].fails + 1} :
        /\ RenewWorker(JobOf(w)) \/ job' = job
        /\ RenewAccount(JobOf(w)) \/ account' = account
        /\ proc' = [proc EXCEPT ![w] = [@ EXCEPT !.fails = n, !.lost = n >= RenewFailureLimit]]
  BY DEF Heartbeat
<1>. DEFINE l == n >= RenewFailureLimit
            r == [proc[w] EXCEPT !.fails = n, !.lost = l]
<1>6. proc' = [proc EXCEPT ![w] = r]
  BY <1>5
<1>7. n \in 0 .. RenewFailureLimit /\ l \in BOOLEAN /\ (l \/ n < RenewFailureLimit)
  BY <1>4, <1>5, KindsAssumption
<1>. HIDE DEF l
<1>8. /\ r \in Local /\ r.pc = proc[w].pc /\ r.job = proc[w].job /\ r.item = proc[w].item
      /\ r.lost = l /\ r.fails = n
  BY <1>1, <1>7 DEF Local
<1>. HIDE DEF r
<1>9. proc' \in [Processes -> Local] /\ WellFormed'
  BY <1>1, <1>2, <1>6, <1>7, <1>8, MoveTyped
<1>10. job' \in [Jobs -> JobRow]
  BY <1>5, JobStatementsTyped DEF Typed, JobStatus, JobCommand
<1>11. account' \in [Accounts -> AccountRow]
  <2>1. 0 \in 0 .. Horizon
    BY TimesAssumption
  <2>. QED
    BY <1>3, <1>5, <2>1, AccountStatementsTyped DEF Typed
<1>. QED
  BY <1>9, <1>10, <1>11 DEF Heartbeat, Typed, TypeOK, StoreTypeOK

LEMMA FaultTyped ==
  ASSUME Typed, NEW w \in Workers, Fault(w)
  PROVE  Typed'
<1>1. w \in Processes /\ ~At(w, "new")
  BY DEF Fault, ConnectFails, LoopFault, Shutdown, Crash, Processing, LoopPC, At, Processes
<1>2. {"disconnect", "hung"} \subseteq PC /\ {"disconnect", "hung"} \cap ItemPC = {}
  BY RestPC DEF StopPC
<1>3. \/ Go(w, "disconnect") \/ Go(w, "hung") \/ End(w, "dead")
      \/ Settle(w, "failed") \/ Settle(w, "shutdown")
  BY DEF Fault, ConnectFails, LoopFault, Shutdown, Crash
<1>4. proc' \in [Processes -> Local] /\ WellFormed'
  BY <1>1, <1>2, <1>3, GoTyped, EndTyped, SettleTyped DEF Outcome
<1>5. UNCHANGED rows
  BY DEF Fault, ConnectFails, LoopFault, Shutdown, Crash
<1>. QED
  BY <1>4, <1>5 DEF rows, Typed, TypeOK, StoreTypeOK

LEMMA OperatorReadTyped ==
  ASSUME Typed, NEW o \in Operators, NEW j \in Jobs, OperatorRead(o, j)
  PROVE  Typed'
<1>1. proc' \in [Processes -> Local] /\ WellFormed'
  BY RestPC, TakeUpTyped DEF OperatorRead, Processes
<1>. QED
  BY <1>1 DEF OperatorRead, rows, Typed, TypeOK, StoreTypeOK

LEMMA OperateTyped ==
  ASSUME Typed, NEW o \in Operators, Operate(o)
  PROVE  Typed'
<1>. USE DEF Operate, SetPause, ForcePause, ResumeCheck, ResumeClear, ResumeStart,
             SetCancel, CancelCheck, CancelMark
<1>1. o \in Processes /\ ~At(o, "new")
  BY DEF At, Processes
<1>2. End(o, "done") \/ \E s \in OperatorPC : Go(o, s)
  BY DEF OperatorPC
<1>3. proc' \in [Processes -> Local] /\ WellFormed'
  BY <1>1, <1>2, RestPC, EndTyped, GoTyped
<1>4. \/ job' = job
      \/ \E s \in JobStatus : UpdateStatus(JobOf(o), s) \/ SettleStatus(JobOf(o), s)
      \/ \E c \in JobCommand : SetCommand(JobOf(o), c)
  BY DEF JobStatus, JobCommand, rows
<1>5. job' \in [Jobs -> JobRow]
  BY <1>4, SettleStatusTyped DEF UpdateStatus, SetCommand, Typed, TypeOK, StoreTypeOK, JobRow
<1>6. account' = account /\ item' = item
  BY DEF rows
<1>. QED
  BY <1>3, <1>5, <1>6 DEF Typed, TypeOK, StoreTypeOK

LEMMA TickTyped ==
  ASSUME Typed, Tick
  PROVE  Typed'
<1>. USE DEF Elapse
<1>1. \A d \in Distance : Elapse(d, Past) \in Distance
  BY TimesAssumption DEF Distance, Past
<1>2. \A n \in Nat : Elapse(n, 0) \in Nat
  OBVIOUS
<1>. HIDE DEF Elapse
<1>3. job' \in [Jobs -> JobRow]
  BY <1>1 DEF Tick, StoreTick, Typed, TypeOK, StoreTypeOK, JobRow
<1>4. account' \in [Accounts -> AccountRow]
  BY <1>1 DEF Tick, StoreTick, Typed, TypeOK, StoreTypeOK, AccountRow
<1>5. item' \in [Items -> ItemRow]
  BY <1>2 DEF Tick, StoreTick, Typed, TypeOK, StoreTypeOK, ItemRow
<1>6. ASSUME NEW p \in Processes
      PROVE  /\ proc'[p] \in Local /\ proc'[p].pc = proc[p].pc
             /\ proc'[p].job = proc[p].job /\ proc'[p].item = proc[p].item
             /\ proc'[p].lost = proc[p].lost /\ proc'[p].fails = proc[p].fails
  <2>. DEFINE age == IF Aging(p) /\ proc[p].age < Horizon THEN proc[p].age + 1
                                                          ELSE proc[p].age
              blocked == Elapse(proc[p].blocked, 0)
              r == [proc[p] EXCEPT !.age = age, !.blocked = blocked]
  <2>1. proc[p] \in Local
    BY DEF Typed, TypeOK
  <2>2. age \in 0 .. Horizon /\ blocked \in Nat
    BY <1>2, <2>1, TimesAssumption DEF Local
  <2>3. proc'[p] = r
    BY <2>1 DEF Tick, Local
  <2>. HIDE DEF age, blocked
  <2>4. /\ r \in Local /\ r.pc = proc[p].pc
        /\ r.job = proc[p].job /\ r.item = proc[p].item
        /\ r.lost = proc[p].lost /\ r.fails = proc[p].fails
    BY <2>1, <2>2 DEF Local
  <2>. QED
    BY <2>3, <2>4
<1>7. proc' \in [Processes -> Local]
  BY <1>6 DEF Tick
<1>8. WellFormed'
  BY <1>6 DEF Typed, WellFormed, At, JobOf, Processes
<1>. QED
  BY <1>3, <1>4, <1>5, <1>7, <1>8 DEF Typed, TypeOK, StoreTypeOK

-----------------------------------------------------------------------------
(* The types as an invariant.                                              *)

LEMMA InitTyped == Init => Typed
<1>. SUFFICES ASSUME Init PROVE Typed
  OBVIOUS
<1>1. StoreTypeOK
  BY TimesAssumption
  DEF Init, StoreInit, StoreTypeOK, JobRow, AccountRow, ItemRow, JobStatus, JobCommand,
      CheckStatus, Distance, Past
<1>2. \A p \in Processes : proc[p] = Fresh
  BY DEF Init
<1>3. proc \in [Processes -> Local]
  BY FreshTyped DEF Init
<1>4. "new" \notin ItemPC
  BY ItemPCs
<1>5. WellFormed
  BY <1>2, <1>4, FreshTyped, KindsAssumption DEF WellFormed, At, ItemPC, Processes
<1>. QED
  BY <1>1, <1>3, <1>5 DEF Typed, TypeOK

LEMMA NextTyped ==
  ASSUME Typed, [Next]_vars
  PROVE  Typed'
<1>1. CASE Next
  <2>1. ASSUME NEW w \in Workers, NEW j \in Jobs, Run(w, j)
        PROVE  Typed'
    BY <2>1, StartTyped DEF Processes
  <2>2. ASSUME NEW w \in Workers, Progress(w)
        PROVE  Typed'
    BY <2>2, RecoverTyped, ClaimTyped, ProcessTyped, CleanupTyped DEF Progress
  <2>3. ASSUME NEW w \in Workers, Refresh(w) \/ Heartbeat(w) \/ Fault(w)
        PROVE  Typed'
    BY <2>3, RefreshTyped, HeartbeatTyped, FaultTyped
  <2>4. ASSUME NEW m \in Monitors, Recover(m) \/ \E j \in Jobs : Scan(m, j)
        PROVE  Typed'
    BY <2>4, RecoverTyped, StartTyped DEF Processes
  <2>5. ASSUME NEW o \in Operators, Operate(o) \/ \E j \in Jobs : OperatorRead(o, j)
        PROVE  Typed'
    BY <2>5, OperateTyped, OperatorReadTyped
  <2>. QED
    BY <1>1, <2>1, <2>2, <2>3, <2>4, <2>5, TickTyped DEF Next
<1>2. CASE UNCHANGED vars
  BY <1>2 DEF vars, rows, Typed, TypeOK, StoreTypeOK, WellFormed, At, JobOf
<1>. QED
  BY <1>1, <1>2

LEMMA TypedInvariant == Spec => []Typed
<1>. QED
  BY InitTyped, NextTyped, PTL DEF Spec

(* The tables and the local states of every process are typed in every     *)
(* behaviour, whatever the processes interleave and however they fail.     *)
THEOREM TypeCorrect == Spec => []TypeOK
<1>1. Typed => TypeOK
  BY DEF Typed
<1>. QED
  BY <1>1, TypedInvariant, PTL

=============================================================================
