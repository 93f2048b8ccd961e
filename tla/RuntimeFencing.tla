--------------------------- MODULE RuntimeFencing ---------------------------
(***************************************************************************)
(* Fencing is an invariant of Runtime and Runtime implements ItemLedger,   *)
(* for every value of the constants.  Every step is first shown to be of   *)
(* one of five kinds, by what it does to the items and to the items that   *)
(* workers have in hand; the properties are then proved of the kinds.      *)
(***************************************************************************)
EXTENDS RuntimeTypes

-----------------------------------------------------------------------------
(* What a step does to the items in hand.                                  *)

(* A started worker w keeps its job, and drops its item or keeps that too, *)
(* before or after its request; one that waits for an answer has waited,   *)
(* and only time adds to its wait.                                         *)
Keeps(w) ==
  /\ At(w, "new") \/ proc'[w].job = proc[w].job
  /\ proc'[w].pc = "request" => /\ proc[w].pc = "request"
                                /\ proc'[w].age = proc[w].age \/ Tick
  /\ \/ proc'[w].pc \notin ItemPC
     \/ /\ proc[w].pc \in ItemPC
        /\ proc'[w].pc \in SentPC <=> proc[w].pc \in SentPC
        /\ proc'[w].item = proc[w].item
        /\ proc'[w].attempt = proc[w].attempt
        /\ proc'[w].token = proc[w].token

AllKeep == \A w \in Workers : Keeps(w)

LEMMA RestKeeps ==
  ASSUME Typed, NEW p \in Processes, NEW r, r.pc \notin ItemPC,
         At(p, "new") \/ r.job = proc[p].job,
         proc' = [proc EXCEPT ![p] = r]
  PROVE  AllKeep
<1>1. proc'[p] = r /\ \A q \in Processes \ {p} : proc'[q] = proc[q]
  BY DEF Typed, TypeOK
<1>. QED
  BY <1>1 DEF AllKeep, Keeps, Processes, ItemPC, SentPC

LEMMA MoveKeeps ==
  ASSUME Typed, NEW p \in Processes, NEW r, proc' = [proc EXCEPT ![p] = r],
         proc[p].pc \in ItemPC, r.pc \in SentPC <=> proc[p].pc \in SentPC,
         r.job = proc[p].job, r.item = proc[p].item,
         r.attempt = proc[p].attempt, r.token = proc[p].token,
         r.pc = "request" => proc[p].pc = "request" /\ r.age = proc[p].age
  PROVE  AllKeep
<1>1. proc'[p] = r /\ \A q \in Processes \ {p} : proc'[q] = proc[q]
  BY DEF Typed, TypeOK
<1>. QED
  BY <1>1 DEF AllKeep, Keeps, Processes

LEMMA GoKeeps ==
  ASSUME Typed, NEW p \in Processes, NEW next \in PC, Go(p, next),
         \/ next \notin ItemPC
         \/ /\ proc[p].pc \in ItemPC /\ next # "request"
            /\ next \in SentPC <=> proc[p].pc \in SentPC
  PROVE  AllKeep
<1>. DEFINE r == [proc[p] EXCEPT !.pc = next]
<1>1. proc[p] \in Local
  BY DEF Typed, TypeOK
<1>2. /\ r.pc = next /\ r.job = proc[p].job /\ r.item = proc[p].item
      /\ r.attempt = proc[p].attempt /\ r.token = proc[p].token
  BY <1>1 DEF Local
<1>3. proc' = [proc EXCEPT ![p] = r]
  BY DEF Go
<1>. HIDE DEF r
<1>. QED
  BY <1>2, <1>3, RestKeeps, MoveKeeps

LEMMA EndKeeps ==
  ASSUME Typed, NEW p \in Processes, NEW how \in {"done", "dead"}, End(p, how)
  PROVE  AllKeep
<1>. DEFINE r == [Fresh EXCEPT !.pc = how, !.job = JobOf(p)]
<1>1. r.pc = how /\ r.job = proc[p].job
  BY FreshTyped DEF Local, JobOf
<1>2. how \notin ItemPC
  BY DEF ItemPC, SentPC
<1>3. proc' = [proc EXCEPT ![p] = r]
  BY DEF End
<1>. HIDE DEF r
<1>. QED
  BY <1>1, <1>2, <1>3, RestKeeps

LEMMA SettleKeeps ==
  ASSUME Typed, NEW w \in Workers,
         LoseGate(w) \/ \E how \in Outcome : Settle(w, how)
  PROVE  AllKeep
<1>1. Dropped(w) \in Local /\ Dropped(w).job = proc[w].job
  BY DroppedTyped DEF Typed
<1>2. PICK r : /\ r.pc = "settle" /\ r.job = proc[w].job
               /\ proc' = [proc EXCEPT ![w] = r]
  <2>1. CASE LoseGate(w)
    <3>. DEFINE r == [Dropped(w) EXCEPT !.pc = "settle", !.outcome = "lost", !.lost = TRUE]
    <3>1. r.pc = "settle" /\ r.job = proc[w].job
      BY <1>1 DEF Local
    <3>. QED
      BY <2>1, <3>1 DEF LoseGate
  <2>2. ASSUME NEW how \in Outcome, Settle(w, how)
        PROVE  \E r : /\ r.pc = "settle" /\ r.job = proc[w].job
                     /\ proc' = [proc EXCEPT ![w] = r]
    <3>. DEFINE r == [Dropped(w) EXCEPT !.pc = "settle", !.outcome = how]
    <3>1. r.pc = "settle" /\ r.job = proc[w].job
      BY <1>1 DEF Local
    <3>. QED
      BY <2>2, <3>1 DEF Settle
  <2>. QED
    BY <2>1, <2>2
<1>3. "settle" \notin ItemPC
  BY DEF ItemPC, SentPC
<1>. QED
  BY <1>2, <1>3, RestKeeps DEF Processes

LEMMA LoseRequestKeeps ==
  ASSUME Typed, NEW w \in Workers, At(w, "request"), LoseRequest(w)
  PROVE  AllKeep
<1>. DEFINE r == [proc[w] EXCEPT !.pc = "quarantine", !.lost = TRUE]
<1>1. w \in Processes /\ proc[w] \in Local
  BY DEF Typed, TypeOK, Processes
<1>2. /\ r.pc = "quarantine" /\ r.job = proc[w].job /\ r.item = proc[w].item
      /\ r.attempt = proc[w].attempt /\ r.token = proc[w].token
  BY <1>1 DEF Local
<1>3. proc' = [proc EXCEPT ![w] = r]
  BY DEF LoseRequest
<1>. HIDE DEF r
<1>. QED
  BY <1>1, <1>2, <1>3, MoveKeeps DEF At, ItemPC, SentPC

-----------------------------------------------------------------------------
(* The five kinds of steps.                                                *)

Still == item' = item \/ Tick   (* nothing is written to an item *)

ItemsKeep ==
  \A i \in Items :
    /\ item'[i].status = item[i].status /\ item'[i].attempts = item[i].attempts
    /\ item'[i].token = item[i].token /\ item'[i].sent = item[i].sent

Quiet == Still /\ AllKeep

Picks(w) ==
  /\ At(w, "gate")
  /\ item' = item
  /\ proc'[w].pc = "acquire" /\ proc'[w].job = proc[w].job
  /\ proc'[w].attempt = item[proc'[w].item].attempts
  /\ \A v \in Workers \ {w} : Keeps(v)

Marks(w) ==
  /\ At(w, "mark")
  /\ Claimable(w, proc[w].item)
  /\ MarkProcessing(proc[w].item)
  /\ proc'[w].pc = "request" /\ proc'[w].token = item[proc[w].item].sent + 1
  /\ proc'[w].job = proc[w].job
  /\ proc'[w].item = proc[w].item /\ proc'[w].attempt = proc[w].attempt
  /\ \A v \in Workers \ {w} : Keeps(v)

Saves(w) ==
  /\ At(w, "save")
  /\ Written(w)
  /\ \E d \in Nat : SaveAnswer(w, d)
  /\ AllKeep

Loses(S) ==
  /\ \A i \in S : item[i].status = "PROCESSING"
  /\ item' = [i \in Items |-> IF i \in S THEN InFlightUnknown(item[i]) ELSE item[i]]
  /\ AllKeep

Kinds == \/ Quiet
         \/ \E w \in Workers : Picks(w) \/ Marks(w) \/ Saves(w)
         \/ \E S \in SUBSET Items : Loses(S)

LEMMA QuietRows ==
  ASSUME item' = item, AllKeep
  PROVE  Kinds
  BY DEF Kinds, Quiet, Still

LEMMA StillKeeps ==
  ASSUME Typed, Still
  PROVE  ItemsKeep
  BY ZenonT(40) DEF Still, ItemsKeep, Tick, StoreTick, Typed, TypeOK, StoreTypeOK, ItemRow

LEMMA TakeUpKinds ==
  ASSUME Typed, NEW p \in Processes, NEW j \in Jobs,
         \/ p \in Workers /\ Run(p, j)
         \/ p \in Monitors /\ Scan(p, j)
         \/ p \in Operators /\ OperatorRead(p, j)
  PROVE  Kinds
<1>1. PICK next \in PC :
        /\ next \notin ItemPC /\ At(p, "new")
        /\ proc' = [proc EXCEPT ![p] = [@ EXCEPT !.pc = next, !.job = j]]
  BY RestPC DEF Run, Scan, OperatorRead, RecoverPC
<1>. DEFINE r == [proc[p] EXCEPT !.pc = next, !.job = j]
<1>2. proc[p] \in Local
  BY DEF Typed, TypeOK
<1>3. r.pc = next
  BY <1>2 DEF Local
<1>4. proc' = [proc EXCEPT ![p] = r]
  BY <1>1
<1>. HIDE DEF r
<1>5. AllKeep
  BY <1>1, <1>3, <1>4, RestKeeps
<1>. QED
  BY <1>5, QuietRows DEF Run, Scan, OperatorRead, rows

LEMMA RecoverKinds ==
  ASSUME Typed, NEW p \in Workers \cup Monitors, Recover(p)
  PROVE  Kinds
<1>1. p \in Processes /\ proc[p] \in Local
  BY DEF Typed, TypeOK, Processes
<1>2. ASSUME NEW r, r.pc \in RecoverPC \cup {"policy"}, r.job = proc[p].job,
             proc' = [proc EXCEPT ![p] = r]
      PROVE  AllKeep
  BY <1>1, <1>2, RestPC, RestKeeps DEF ClaimPC
<1>3. ASSUME Recovered(p)
      PROVE  AllKeep
  <2>. DEFINE r == [proc[p] EXCEPT !.pc = "policy", !.seen = None, !.stale = FALSE]
  <2>1. r.pc = "policy" /\ r.job = proc[p].job
    BY <1>1 DEF Local
  <2>2. End(p, "done") \/ proc' = [proc EXCEPT ![p] = r]
    BY <1>3 DEF Recovered
  <2>. HIDE DEF r
  <2>. QED
    BY <1>1, <1>2, <2>1, <2>2, EndKeeps
<1>4. ASSUME NEW next \in RecoverPC, Go(p, next)
      PROVE  AllKeep
  BY <1>1, <1>4, RestPC, GoKeeps
<1>5. CASE RecoverRead(p)
  <2>. DEFINE row == job[JobOf(p)]
              running == row.status \in {"RUNNING", "RATE_LIMITED"}
              seen == IF running THEN row.worker ELSE None
              r == [proc[p] EXCEPT !.pc = "recoverJobLease", !.stale = running, !.seen = seen]
  <2>1. proc' = [proc EXCEPT ![p] = r]
    BY <1>5 DEF RecoverRead
  <2>. HIDE DEF seen, running
  <2>2. r.pc \in RecoverPC /\ r.job = proc[p].job
    BY <1>1 DEF Local, RecoverPC
  <2>. HIDE DEF r
  <2>. QED
    BY <1>2, <1>5, <2>1, <2>2, QuietRows DEF RecoverRead, rows
<1>6. CASE RecoverJobLease(p) \/ RecoverAccountLease(p)
  <2>1. Recovered(p) \/ \E next \in RecoverPC : Go(p, next)
    BY <1>6 DEF RecoverJobLease, RecoverAccountLease, RecoverPC
  <2>. QED
    BY <1>3, <1>4, <1>6, <2>1, QuietRows DEF RecoverJobLease, RecoverAccountLease, rows
<1>7. CASE RecoverRelease(p)
  <2>. DEFINE r == [proc[p] EXCEPT !.pc = "recoverClear", !.seen = None]
  <2>1. r.pc \in RecoverPC /\ r.job = proc[p].job
    BY <1>1 DEF Local, RecoverPC
  <2>2. proc' = [proc EXCEPT ![p] = r]
    BY <1>7 DEF RecoverRelease
  <2>. HIDE DEF r
  <2>. QED
    BY <1>2, <1>7, <2>1, <2>2, QuietRows DEF RecoverRelease
<1>8. CASE RecoverClear(p) \/ RecoverPause(p)
  BY <1>4, <1>8, QuietRows DEF RecoverClear, RecoverPause, RecoverPC
<1>9. CASE RecoverItems(p)
  <2>. DEFINE S == {i \in Items : JobOfItem[i] = JobOf(p) /\ item[i].status = "PROCESSING"}
  <2>1. AllKeep
    BY <1>3, <1>9 DEF RecoverItems
  <2>2. Loses(S)
    BY <1>9, <2>1 DEF Loses, RecoverItems, RecoverInterrupted
  <2>. QED
    BY <2>2 DEF Kinds
<1>. QED
  BY <1>5, <1>6, <1>7, <1>8, <1>9 DEF Recover

LEMMA ClaimKinds ==
  ASSUME Typed, NEW w \in Workers, Claim(w)
  PROVE  Kinds
<1>1. w \in Processes /\ proc[w] \in Local
  BY DEF Typed, TypeOK, Processes
<1>2. item' = item
  BY DEF Claim, Policy, ClaimJob, SelectAccount, ClaimAccountRow, Rollback, Start,
         Connect, rows
<1>3. \/ End(w, "done")
      \/ \E next \in ClaimPC \cup {"connect", "releaseAccount", "sleep"} : Go(w, next)
      \/ proc' = [proc EXCEPT ![w] = [@ EXCEPT !.pc = "claimAccount", !.age = 0]]
      \/ \E b : proc' = [proc EXCEPT ![w] = [@ EXCEPT !.pc = "claimJob", !.age = 0,
                                                      !.blocked = b]]
  BY DEF Claim, Policy, ClaimJob, SelectAccount, ClaimAccountRow, Rollback, Start,
         Connect, ClaimPC
<1>4. \A s \in ClaimPC \cup {"connect", "releaseAccount", "sleep"} : s \in PC /\ s \notin ItemPC
  BY RestPC DEF StopPC
<1>5. {"claimAccount", "claimJob"} \cap ItemPC = {}
  BY <1>4 DEF ClaimPC
<1>6. ASSUME proc' = [proc EXCEPT ![w] = [@ EXCEPT !.pc = "claimAccount", !.age = 0]]
      PROVE  AllKeep
  <2>. DEFINE r == [proc[w] EXCEPT !.pc = "claimAccount", !.age = 0]
  <2>1. r.pc \in {"claimAccount", "claimJob"} /\ r.job = proc[w].job
    BY <1>1 DEF Local
  <2>2. proc' = [proc EXCEPT ![w] = r]
    BY <1>6
  <2>. HIDE DEF r
  <2>. QED
    BY <1>1, <1>5, <2>1, <2>2, RestKeeps
<1>7. ASSUME NEW b, proc' = [proc EXCEPT ![w] =
                               [@ EXCEPT !.pc = "claimJob", !.age = 0, !.blocked = b]]
      PROVE  AllKeep
  <2>. DEFINE r == [proc[w] EXCEPT !.pc = "claimJob", !.age = 0, !.blocked = b]
  <2>1. r.pc \in {"claimAccount", "claimJob"} /\ r.job = proc[w].job
    BY <1>1 DEF Local
  <2>2. proc' = [proc EXCEPT ![w] = r]
    BY <1>7
  <2>. HIDE DEF r
  <2>. QED
    BY <1>1, <1>5, <2>1, <2>2, RestKeeps
<1>. QED
  BY <1>1, <1>2, <1>3, <1>4, <1>6, <1>7, EndKeeps, GoKeeps, QuietRows

LEMMA GateKinds ==
  ASSUME Typed, NEW w \in Workers, Gate(w)
  PROVE  Kinds
<1>1. w \in Processes /\ proc[w] \in Local
  BY DEF Typed, TypeOK, Processes
<1>2. item' = item /\ At(w, "gate")
  BY DEF Gate, rows
<1>3. {"sleep", "settle"} \cap ItemPC = {}
  BY RestPC DEF StopPC
<1>4. CASE LoseGate(w)
  BY <1>2, <1>4, SettleKeeps, QuietRows
<1>5. ASSUME NEW b, proc' = [proc EXCEPT ![w] = [@ EXCEPT !.pc = "sleep", !.rated = b]]
      PROVE  Kinds
  <2>. DEFINE r == [proc[w] EXCEPT !.pc = "sleep", !.rated = b]
  <2>1. r.pc = "sleep" /\ r.job = proc[w].job
    BY <1>1 DEF Local
  <2>2. proc' = [proc EXCEPT ![w] = r]
    BY <1>5
  <2>. HIDE DEF r
  <2>. QED
    BY <1>1, <1>2, <1>3, <2>1, <2>2, RestKeeps, QuietRows
<1>6. ASSUME proc' = [proc EXCEPT ![w] = [@ EXCEPT !.pc = "settle", !.rated = FALSE,
                                                   !.outcome = "drained"]]
      PROVE  Kinds
  <2>. DEFINE r == [proc[w] EXCEPT !.pc = "settle", !.rated = FALSE, !.outcome = "drained"]
  <2>1. r.pc = "settle" /\ r.job = proc[w].job
    BY <1>1 DEF Local
  <2>2. proc' = [proc EXCEPT ![w] = r]
    BY <1>6
  <2>. HIDE DEF r
  <2>. QED
    BY <1>1, <1>2, <1>3, <2>1, <2>2, RestKeeps, QuietRows
<1>7. ASSUME NEW i, proc' = [proc EXCEPT ![w] = [@ EXCEPT !.pc = "acquire", !.rated = FALSE,
                                                          !.item = i,
                                                          !.attempt = item[i].attempts]]
      PROVE  Kinds
  <2>. DEFINE a == [proc[w] EXCEPT !.pc = "acquire", !.rated = FALSE]
              r == [a EXCEPT !.item = i, !.attempt = item[i].attempts]
  <2>1. proc' = [proc EXCEPT ![w] = r]
    BY <1>7
  <2>2. a \in Local /\ a.pc = "acquire" /\ a.job = proc[w].job
    BY <1>1, ItemPCs DEF Local, ItemPC
  <2>. HIDE DEF a
  <2>3. /\ r.pc = "acquire" /\ r.job = proc[w].job
        /\ r.item = i /\ r.attempt = item[i].attempts
    BY <2>2 DEF Local
  <2>. HIDE DEF r
  <2>4. \A q \in Processes : proc'[q] = IF q = w THEN r ELSE proc[q]
    BY <2>1 DEF Typed, TypeOK
  <2>5. Picks(w)
    BY <1>1, <1>2, <2>3, <2>4 DEF Picks, Keeps, Processes
  <2>. QED
    BY <2>5 DEF Kinds
<1>. QED
  BY <1>4, <1>5, <1>6, <1>7 DEF Gate

LEMMA SaveKinds ==
  ASSUME Typed, NEW w \in Workers, Save(w)
  PROVE  Kinds
<1>1. w \in Processes /\ At(w, "save")
  BY DEF Save, Processes
<1>. DEFINE d == Dropped(w)
            limited == proc[w].answer = "RATE_LIMITED"
            next == IF Written(w) THEN "loop" ELSE "settle"
            end == IF Written(w) THEN "none" ELSE "lost"
<1>2. PICK x \in RetryDelays :
        /\ IF Written(w) THEN SaveAnswer(w, x) ELSE item' = item
        /\ proc' = [proc EXCEPT ![w] =
             [d EXCEPT !.pc = next, !.outcome = end,
                       !.blocked = IF limited THEN x ELSE @, !.rated = @ \/ limited]]
  BY DEF Save
<1>3. d \in Local /\ d.job = proc[w].job
  BY DroppedTyped DEF Typed
<1>4. next \in PC /\ next \notin ItemPC /\ end \in Outcome
  BY RestPC DEF StopPC, Outcome
<1>. DEFINE a == [d EXCEPT !.pc = next, !.outcome = end]
            r == [a EXCEPT !.blocked = IF limited THEN x ELSE @, !.rated = @ \/ limited]
<1>5. proc' = [proc EXCEPT ![w] = r]
  BY <1>2
<1>. HIDE DEF d, next, end
<1>6. a \in Local /\ a.pc = next /\ a.job = d.job
  BY <1>3, <1>4 DEF Local
<1>. HIDE DEF a
<1>7. r.pc = next /\ r.job = a.job
  BY <1>6 DEF Local
<1>. HIDE DEF r
<1>8. AllKeep
  BY <1>1, <1>3, <1>4, <1>5, <1>6, <1>7, RestKeeps
<1>9. CASE Written(w)
  BY <1>1, <1>2, <1>8, <1>9, KindsAssumption DEF Kinds, Saves
<1>10. CASE ~Written(w)
  BY <1>2, <1>8, <1>10, QuietRows
<1>. QED
  BY <1>9, <1>10

LEMMA MarkKinds ==
  ASSUME Typed, NEW w \in Workers, Mark(w)
  PROVE  Kinds
<1>. DEFINE i == proc[w].item
            n == item[i].sent + 1
            r == [proc[w] EXCEPT !.pc = "request", !.age = 0, !.token = n]
<1>1. w \in Processes /\ proc[w] \in Local /\ At(w, "mark")
  BY DEF Mark, Typed, TypeOK, Processes
<1>2. CASE Go(w, "loop") /\ item' = item
  BY <1>1, <1>2, RestPC, GoKeeps, QuietRows
<1>3. CASE /\ Claimable(w, i) /\ MarkProcessing(i)
           /\ proc' = [proc EXCEPT ![w] = r]
  <2>. HIDE DEF n
  <2>1. /\ r.pc = "request" /\ r.token = n /\ r.job = proc[w].job
        /\ r.item = i /\ r.attempt = proc[w].attempt
    BY <1>1 DEF Local
  <2>. HIDE DEF r
  <2>2. \A q \in Processes : proc'[q] = IF q = w THEN r ELSE proc[q]
    BY <1>3 DEF Typed, TypeOK
  <2>3. Marks(w)
    BY <1>1, <1>3, <2>1, <2>2 DEF Marks, Keeps, Processes, n
  <2>. QED
    BY <2>3 DEF Kinds
<1>. QED
  BY <1>2, <1>3 DEF Mark

LEMMA ProcessKinds ==
  ASSUME Typed, NEW w \in Workers, Process(w)
  PROVE  Kinds
<1>1. w \in Processes /\ proc[w] \in Local
  BY DEF Typed, TypeOK, Processes
<1>2. CASE Poll(w)
  <2>. DEFINE cmd == job[JobOf(w)].cmd
              next == IF cmd = "NONE" THEN "gate" ELSE "clearCommand"
              r == [proc[w] EXCEPT !.command = cmd, !.pc = next]
  <2>1. next \notin ItemPC
    BY RestPC
  <2>2. Settle(w, "lost") \/ proc' = [proc EXCEPT ![w] = r]
    BY <1>2 DEF Poll
  <2>. HIDE DEF cmd, next
  <2>3. r.pc = next /\ r.job = proc[w].job
    BY <1>1 DEF Local
  <2>. HIDE DEF r
  <2>4. AllKeep
    BY <1>1, <2>1, <2>2, <2>3, SettleKeeps, RestKeeps DEF Outcome
  <2>. QED
    BY <1>2, <2>4, QuietRows DEF Poll, rows
<1>3. CASE ClearCommand(w)
  BY <1>1, <1>3, RestPC, GoKeeps, SettleKeeps, QuietRows DEF ClearCommand, Outcome
<1>4. CASE AckPause(w)
  BY <1>4, SettleKeeps, QuietRows DEF AckPause, Outcome
<1>5. CASE Acquire(w)
  <2>1. Go(w, "mark") => AllKeep
    BY <1>1, <1>5, ItemPCs, GoKeeps DEF Acquire, At, ItemPC, SentPC
  <2>. QED
    BY <1>5, <2>1, SettleKeeps, QuietRows DEF Acquire, rows
<1>6. CASE Respond(w)
  <2>1. ASSUME NEW x, proc' = [proc EXCEPT ![w] = [@ EXCEPT !.pc = "save", !.answer = x]]
        PROVE  AllKeep
    <3>. DEFINE r == [proc[w] EXCEPT !.pc = "save", !.answer = x]
    <3>1. /\ r.pc = "save" /\ r.job = proc[w].job /\ r.item = proc[w].item
          /\ r.attempt = proc[w].attempt /\ r.token = proc[w].token
      BY <1>1 DEF Local
    <3>2. proc' = [proc EXCEPT ![w] = r]
      BY <2>1
    <3>3. proc[w].pc = "request"
      BY <1>6 DEF Respond, At
    <3>. HIDE DEF r
    <3>. QED
      BY <1>1, <3>1, <3>2, <3>3, MoveKeeps DEF ItemPC, SentPC
  <2>. QED
    BY <1>6, <2>1, LoseRequestKeeps, QuietRows DEF Respond, rows
<1>7. CASE CancelRequest(w)
  BY <1>7, LoseRequestKeeps, QuietRows DEF CancelRequest, rows
<1>8. CASE Quarantine(w)
  <2>. DEFINE i == proc[w].item
              S == {k \in Items : k = i /\ HoldsItem(i, proc[w].token)}
  <2>1. AllKeep
    BY <1>8, SettleKeeps DEF Quarantine, Outcome
  <2>2. i \in Items /\ item \in [Items -> ItemRow]
    BY <1>8 DEF Quarantine, At, Typed, TypeOK, StoreTypeOK, WellFormed, SentPC
  <2>3. item' = [k \in Items |-> IF k \in S THEN InFlightUnknown(item[k]) ELSE item[k]]
    BY <1>8, <2>2 DEF Quarantine, MarkInFlightUnknown
  <2>4. \A k \in S : item[k].status = "PROCESSING"
    BY DEF HoldsItem
  <2>. HIDE DEF S
  <2>5. Loses(S)
    BY <2>1, <2>3, <2>4 DEF Loses
  <2>. QED
    BY <2>5 DEF Kinds, S
<1>9. CASE Abandon(w)
  BY <1>9, SettleKeeps, QuietRows DEF Abandon, Outcome, rows
<1>. QED
  BY <1>2, <1>3, <1>4, <1>5, <1>6, <1>7, <1>8, <1>9, GateKinds, MarkKinds, SaveKinds
  DEF Process

LEMMA OtherKinds ==
  ASSUME Typed, NEW w \in Workers,
         Cleanup(w) \/ Refresh(w) \/ Heartbeat(w) \/ Fault(w)
  PROVE  Kinds
<1>1. w \in Processes /\ proc[w] \in Local
  BY DEF Typed, TypeOK, Processes
<1>2. item' = item
  BY DEF Cleanup, SettleJob, FinishJob, Disconnect, ReleaseAccountRow, ReleaseJob, Refresh,
         Heartbeat, Fault, ConnectFails, LoopFault, Shutdown, Crash, rows
<1>3. CASE Cleanup(w)
  <2>1. End(w, "done") \/ \E next \in StopPC : Go(w, next)
    BY <1>3 DEF Cleanup, SettleJob, FinishJob, Disconnect, ReleaseAccountRow, ReleaseJob,
                StopPC
  <2>. QED
    BY <1>1, <1>2, <2>1, RestPC, EndKeeps, GoKeeps, QuietRows
<1>4. CASE Fault(w)
  <2>1. \/ End(w, "dead") \/ Go(w, "disconnect") \/ Go(w, "hung")
        \/ Settle(w, "failed") \/ Settle(w, "shutdown")
    BY <1>4 DEF Fault, ConnectFails, LoopFault, Shutdown, Crash
  <2>. QED
    BY <1>1, <1>2, <2>1, RestPC, EndKeeps, GoKeeps, SettleKeeps, QuietRows DEF StopPC, Outcome
<1>5. CASE Refresh(w)
  <2>. DEFINE r == [proc[w] EXCEPT !.cancel = TRUE]
  <2>1. /\ r.pc = proc[w].pc /\ r.job = proc[w].job /\ r.item = proc[w].item
        /\ r.attempt = proc[w].attempt /\ r.token = proc[w].token /\ r.age = proc[w].age
    BY <1>1 DEF Local
  <2>2. proc' = proc \/ proc' = [proc EXCEPT ![w] = r]
    BY <1>5 DEF Refresh
  <2>. HIDE DEF r
  <2>3. CASE proc' = proc
    BY <1>2, <2>3, QuietRows DEF AllKeep, Keeps
  <2>4. CASE proc' = [proc EXCEPT ![w] = r]
    BY <1>1, <1>2, <2>1, <2>4, RestKeeps, MoveKeeps, QuietRows
  <2>. QED
    BY <2>2, <2>3, <2>4
<1>6. CASE Heartbeat(w)
  <2>1. PICK n, l : proc' = [proc EXCEPT ![w] = [@ EXCEPT !.fails = n, !.lost = l]]
    BY <1>6 DEF Heartbeat
  <2>. DEFINE r == [proc[w] EXCEPT !.fails = n, !.lost = l]
  <2>2. /\ r.pc = proc[w].pc /\ r.job = proc[w].job /\ r.item = proc[w].item
        /\ r.attempt = proc[w].attempt /\ r.token = proc[w].token /\ r.age = proc[w].age
    BY <1>1 DEF Local
  <2>3. proc' = [proc EXCEPT ![w] = r]
    BY <2>1
  <2>. HIDE DEF r
  <2>. QED
    BY <1>1, <1>2, <2>2, <2>3, RestKeeps, MoveKeeps, QuietRows
<1>. QED
  BY <1>3, <1>4, <1>5, <1>6

LEMMA OperateKinds ==
  ASSUME Typed, NEW o \in Operators, Operate(o)
  PROVE  Kinds
<1>. USE DEF Operate, SetPause, ForcePause, ResumeCheck, ResumeClear, ResumeStart,
             SetCancel, CancelCheck, CancelMark
<1>1. End(o, "done") \/ \E s \in OperatorPC : Go(o, s)
  BY DEF OperatorPC
<1>2. item' = item
  BY DEF rows
<1>3. AllKeep
  BY <1>1, RestPC, EndKeeps, GoKeeps DEF Processes
<1>. QED
  BY <1>2, <1>3, QuietRows

LEMMA TickLocal ==
  ASSUME Typed, Tick, NEW p \in Processes
  PROVE  /\ proc'[p].pc = proc[p].pc /\ proc'[p].job = proc[p].job
         /\ proc'[p].item = proc[p].item /\ proc'[p].attempt = proc[p].attempt
         /\ proc'[p].token = proc[p].token /\ proc'[p].seen = proc[p].seen
         /\ proc'[p].age = IF Aging(p) /\ proc[p].age < Horizon THEN proc[p].age + 1
                                                                 ELSE proc[p].age
<1>. DEFINE age == IF Aging(p) /\ proc[p].age < Horizon THEN proc[p].age + 1
                                                        ELSE proc[p].age
            blocked == Elapse(proc[p].blocked, 0)
            r == [proc[p] EXCEPT !.age = age, !.blocked = blocked]
<1>1. proc[p] \in Local
  BY DEF Typed, TypeOK
<1>2. proc'[p] = r
  BY <1>1 DEF Tick, Local
<1>. HIDE DEF age, blocked
<1>3. /\ r.pc = proc[p].pc /\ r.job = proc[p].job /\ r.item = proc[p].item
      /\ r.attempt = proc[p].attempt /\ r.token = proc[p].token
      /\ r.seen = proc[p].seen /\ r.age = age
  BY <1>1 DEF Local
<1>. HIDE DEF r
<1>. QED
  BY <1>2, <1>3 DEF age

LEMMA TickKinds ==
  ASSUME Typed, Tick
  PROVE  Kinds
<1>1. AllKeep
  BY TickLocal DEF AllKeep, Keeps, Processes
<1>. QED
  BY <1>1 DEF Kinds, Quiet, Still

LEMMA StepKinds ==
  ASSUME Typed, [Next]_vars
  PROVE  Kinds
<1>1. ASSUME NEW w \in Workers, NEW j \in Jobs, Run(w, j)
      PROVE  Kinds
  BY <1>1, TakeUpKinds DEF Processes
<1>2. ASSUME NEW w \in Workers, Progress(w)
      PROVE  Kinds
  BY <1>2, RecoverKinds, ClaimKinds, ProcessKinds, OtherKinds DEF Progress
<1>3. ASSUME NEW w \in Workers, Refresh(w) \/ Heartbeat(w) \/ Fault(w)
      PROVE  Kinds
  BY <1>3, OtherKinds
<1>4. ASSUME NEW m \in Monitors, Recover(m) \/ \E j \in Jobs : Scan(m, j)
      PROVE  Kinds
  BY <1>4, RecoverKinds, TakeUpKinds DEF Processes
<1>5. ASSUME NEW o \in Operators, Operate(o) \/ \E j \in Jobs : OperatorRead(o, j)
      PROVE  Kinds
  BY <1>5, OperateKinds, TakeUpKinds DEF Processes
<1>6. CASE UNCHANGED vars
  BY <1>6, QuietRows DEF vars, rows, AllKeep, Keeps
<1>. QED
  BY <1>1, <1>2, <1>3, <1>4, <1>5, <1>6, TickKinds DEF Next

-----------------------------------------------------------------------------
(* Ownership of a job is gained by claiming it, and in no other way.       *)

NoGain == \A v \in Workers : \A k \in Jobs : OwnsJob(v, k)' => OwnsJob(v, k)

LEMMA StatementsGainNothing ==
  ASSUME TypeOK, NEW j, NEW w \in Workers, NEW s, NEW c,
         \/ (OwnsJob(w, j) /\ RenewWorker(j)) \/ ClearWorkerOwnership(j)
         \/ ReleaseWorker(w, j) \/ UpdateStatus(j, s) \/ UpdateStatusIfOwned(w, j, s)
         \/ SettleStatus(j, s) \/ SetCommand(j, c) \/ AcknowledgePause(w, j)
         \/ job' = job
  PROVE  NoGain
<1>1. job \in [Jobs -> JobRow]
  BY DEF TypeOK, StoreTypeOK
<1>2. ASSUME NEW row, row.worker \notin Workers, job' = [job EXCEPT ![j] = row]
      PROVE  NoGain
  BY <1>1, <1>2 DEF NoGain, OwnsJob
<1>3. ASSUME NEW row, row.worker = job[j].worker, row.lease = job[j].lease,
             job' = [job EXCEPT ![j] = row]
      PROVE  NoGain
  BY <1>1, <1>3 DEF NoGain, OwnsJob
<1>4. CASE job' = job
  BY <1>4 DEF NoGain, OwnsJob
<1>5. CASE OwnsJob(w, j) /\ RenewWorker(j)
  BY <1>1, <1>5 DEF NoGain, OwnsJob, RenewWorker, JobRow
<1>6. CASE ClearWorkerOwnership(j)
  <2>. DEFINE row == [job[j] EXCEPT !.worker = None, !.lease = Past]
  <2>1. j \in Jobs => row.worker \notin Workers
    BY <1>1, OwnersAssumption DEF JobRow
  <2>2. job' = [job EXCEPT ![j] = row]
    BY <1>6 DEF ClearWorkerOwnership
  <2>. HIDE DEF row
  <2>3. j \notin Jobs => job' = job
    BY <1>1, <2>2
  <2>. QED
    BY <1>2, <1>4, <2>1, <2>2, <2>3
<1>7. CASE UpdateStatus(j, s) \/ SetCommand(j, c)
  BY <1>1, <1>7 DEF NoGain, OwnsJob, UpdateStatus, SetCommand, JobRow
<1>8. CASE SettleStatus(j, s)
  <2>. DEFINE row == [job[j] EXCEPT !.status = s, !.cmd = "NONE"]
  <2>1. j \in Jobs => row.worker = job[j].worker /\ row.lease = job[j].lease
    BY <1>1 DEF JobRow
  <2>2. job' = [job EXCEPT ![j] = row]
    BY <1>8 DEF SettleStatus
  <2>. HIDE DEF row
  <2>3. j \notin Jobs => job' = job
    BY <1>1, <2>2
  <2>. QED
    BY <1>3, <1>4, <2>1, <2>2, <2>3
<1>9. CASE AcknowledgePause(w, j)
  BY <1>1, <1>4, <1>9, OwnersAssumption DEF AcknowledgePause, NoGain, OwnsJob
<1>. QED
  BY <1>4, <1>5, <1>6, <1>7, <1>8, <1>9 DEF ReleaseWorker, UpdateStatusIfOwned

LEMMA TickGainsNothing ==
  ASSUME TypeOK, Tick
  PROVE  NoGain
<1>1. \A d \in Distance : Elapse(d, Past) > 0 => d > 0
  BY TimesAssumption DEF Elapse, Distance, Past
<1>2. \A k \in Jobs : /\ job'[k].worker = job[k].worker
                      /\ job'[k].lease = Elapse(job[k].lease, Past)
                      /\ job[k].lease \in Distance
  BY DEF Tick, StoreTick, TypeOK, StoreTypeOK, JobRow
<1>. QED
  BY <1>1, <1>2 DEF NoGain, OwnsJob

LEMMA OwnershipGained ==
  ASSUME Typed, [Next]_vars
  PROVE  NoGain \/ \E w \in Workers : ClaimJob(w)
<1>1. TypeOK
  BY DEF Typed
<1>2. job' = job => NoGain
  BY DEF NoGain, OwnsJob
<1>3. ASSUME NEW p \in Workers \cup Monitors, Recover(p)
      PROVE  NoGain
  <2>1. job' = job \/ ClearWorkerOwnership(JobOf(p)) \/ UpdateStatus(JobOf(p), "PAUSED")
    BY <1>3 DEF Recover, RecoverRead, RecoverJobLease, RecoverAccountLease,
                RecoverRelease, RecoverClear, RecoverPause, RecoverItems, rows
  <2>2. ASSUME UpdateStatus(JobOf(p), "PAUSED")
        PROVE  NoGain
    BY <1>1, <2>2 DEF UpdateStatus, NoGain, OwnsJob, TypeOK, StoreTypeOK, JobRow
  <2>3. ASSUME ClearWorkerOwnership(JobOf(p))
        PROVE  NoGain
    <3>1. CASE Workers = {}
      BY <3>1 DEF NoGain
    <3>2. CASE Workers # {}
      BY <1>1, <2>3, <3>2, StatementsGainNothing
    <3>. QED
      BY <3>1, <3>2
  <2>. QED
    BY <1>2, <2>1, <2>2, <2>3
<1>4. ASSUME NEW w \in Workers, Progress(w), ~ClaimJob(w)
      PROVE  NoGain
  <2>1. CASE Recover(w)
    BY <1>3, <2>1
  <2>2. CASE Claim(w)
    <3>1. \/ job' = job \/ ReleaseWorker(w, JobOf(w))
          \/ SettleStatus(JobOf(w), "RUNNING")
      BY <1>4, <2>2 DEF Claim, Policy, SelectAccount, ClaimAccountRow, Rollback, Start,
                        Connect, rows
    <3>. QED
      BY <1>1, <3>1, StatementsGainNothing
  <2>3. CASE Process(w)
    <3>1. job' = job \/ SetCommand(JobOf(w), "NONE") \/ AcknowledgePause(w, JobOf(w))
      BY <2>3 DEF Process, Poll, ClearCommand, AckPause, Gate, Acquire, Mark, Respond,
                  CancelRequest, Quarantine, Save, Abandon, rows
    <3>. QED
      BY <1>1, <3>1, StatementsGainNothing
  <2>4. CASE Cleanup(w)
    <3>1. \/ job' = job \/ ReleaseWorker(w, JobOf(w))
          \/ SettleStatus(JobOf(w), "CANCELLED")
          \/ \E s \in JobStatus : UpdateStatusIfOwned(w, JobOf(w), s)
      BY <2>4 DEF Cleanup, SettleJob, FinishJob, Disconnect, ReleaseAccountRow, ReleaseJob,
                  JobStatus, rows
    <3>. QED
      BY <1>1, <3>1, StatementsGainNothing
  <2>. QED
    BY <1>4, <2>1, <2>2, <2>3, <2>4 DEF Progress
<1>5. ASSUME NEW w \in Workers, Refresh(w) \/ Heartbeat(w) \/ Fault(w)
      PROVE  NoGain
  <2>1. \/ job' = job
        \/ OwnsJob(w, JobOf(w)) /\ RenewWorker(JobOf(w))
        \/ \E s \in JobStatus : UpdateStatus(JobOf(w), s)
    BY <1>5 DEF Refresh, Heartbeat, Renewable, Fault, ConnectFails, LoopFault, Shutdown,
                Crash, JobStatus, rows
  <2>. QED
    BY <1>1, <2>1, StatementsGainNothing
<1>6. ASSUME NEW o \in Operators, Operate(o)
      PROVE  NoGain
  <2>1. \/ job' = job
        \/ \E s \in JobStatus : UpdateStatus(JobOf(o), s) \/ SettleStatus(JobOf(o), s)
        \/ \E c \in JobCommand : SetCommand(JobOf(o), c)
    BY <1>6 DEF Operate, SetPause, ForcePause, ResumeCheck, ResumeClear, ResumeStart,
                SetCancel, CancelCheck, CancelMark, JobStatus, JobCommand, rows
  <2>2. CASE Workers = {}
    BY <2>2 DEF NoGain
  <2>3. CASE Workers # {}
    BY <1>1, <2>1, <2>3, StatementsGainNothing
  <2>. QED
    BY <2>2, <2>3
<1>7. ASSUME NEW p \in Processes, NEW j \in Jobs, Run(p, j) \/ Scan(p, j) \/ OperatorRead(p, j)
      PROVE  NoGain
  BY <1>2, <1>7 DEF Run, Scan, OperatorRead, rows
<1>8. CASE UNCHANGED vars
  BY <1>2, <1>8 DEF vars, rows
<1>. QED
  BY <1>1, <1>3, <1>4, <1>5, <1>6, <1>7, <1>8, TickGainsNothing DEF Next, Processes

LEMMA JobKept ==
  ASSUME Typed, [Next]_vars, NEW w \in Workers, ~At(w, "new")
  PROVE  JobOf(w)' = JobOf(w)
<1>1. Kinds
  BY StepKinds
<1>2. \A v \in Workers : Keeps(v) => v # w \/ proc'[w].job = proc[w].job
  BY DEF Keeps
<1>3. proc'[w].job = proc[w].job
  <2>1. CASE AllKeep
    BY <1>2, <2>1 DEF AllKeep
  <2>2. ASSUME NEW v \in Workers, Picks(v) \/ Marks(v)
        PROVE  proc'[w].job = proc[w].job
    BY <1>2, <2>2 DEF Picks, Marks
  <2>. QED
    BY <1>1, <2>1, <2>2 DEF Kinds, Quiet, Saves, Loses
<1>. QED
  BY <1>3 DEF JobOf

(* Whoever has started and is not about to claim the job owns it after a   *)
(* step only if it owned it before.                                        *)
LEMMA OwnedBefore ==
  ASSUME Typed, [Next]_vars, NEW w \in Workers, ~At(w, "new"), ~At(w, "claimJob"),
         OwnsJob(w, JobOf(w))'
  PROVE  OwnsJob(w, JobOf(w))
<1>1. JobOf(w)' = JobOf(w) /\ JobOf(w) \in Jobs
  BY JobKept DEF Typed, WellFormed, Processes
<1>3. job'[JobOf(w)].worker = w /\ job'[JobOf(w)].lease > 0
  BY <1>1 DEF OwnsJob
<1>4. CASE NoGain
  BY <1>1, <1>3, <1>4 DEF NoGain, OwnsJob
<1>5. ASSUME NEW v \in Workers, ClaimJob(v)
      PROVE  OwnsJob(w, JobOf(w))
  <2>1. v # w
    BY <1>5 DEF ClaimJob, At
  <2>2. CASE job' = job
    BY <1>3, <2>2 DEF OwnsJob
  <2>3. CASE ClaimWorker(v, JobOf(v), proc[v].age)
    <3>. DEFINE row == [job[JobOf(v)] EXCEPT !.worker = v,
                                             !.lease = LeaseSeconds - proc[v].age]
    <3>1. job' = [job EXCEPT ![JobOf(v)] = row] /\ job \in [Jobs -> JobRow]
      BY <2>3 DEF ClaimWorker, Typed, TypeOK, StoreTypeOK
    <3>2. JobOf(v) = JobOf(w) => row.worker = v
      BY <1>1, <3>1 DEF JobRow
    <3>. HIDE DEF row
    <3>. QED
      BY <1>1, <1>3, <2>1, <3>1, <3>2 DEF OwnsJob
  <2>. QED
    BY <1>5, <2>2, <2>3 DEF ClaimJob
<1>. QED
  BY <1>4, <1>5, OwnershipGained

(* No heartbeat, status write or command gives a worker back the job it    *)
(* lost: renew_worker_if_owned refuses an expired lease.                   *)
THEOREM LostStaysLost == Spec => LostForGood
<1>1. ASSUME Typed, [Next]_vars, NEW w \in Workers,
             proc[w].pc \in ClaimedPC, ~OwnsJob(w, JobOf(w))
      PROVE  ~OwnsJob(w, JobOf(w))'
  <2>1. ~At(w, "new") /\ ~At(w, "claimJob")
    BY <1>1 DEF At, ClaimedPC, ConnectedPC, LoopPC
  <2>. QED
    BY <1>1, <2>1, OwnedBefore
<1>. DEFINE Step == \A w \in Workers :
                      proc[w].pc \in ClaimedPC /\ ~OwnsJob(w, JobOf(w))
                        => ~OwnsJob(w, JobOf(w))'
<1>2. Typed /\ [Next]_vars => [Step]_vars
  BY <1>1
<1>. HIDE DEF Step
<1>3. Spec => [][Step]_vars
  BY <1>2, TypedInvariant, PTL DEF Spec
<1>. QED
  BY <1>3 DEF LostForGood, Step

-----------------------------------------------------------------------------
(* Fencing is inductive.                                                   *)

LEMMA InHand ==
  ASSUME Typed, NEW w \in Workers, proc[w].pc \in ItemPC
  PROVE  /\ proc[w].item \in Items
         /\ JobOfItem[proc[w].item] = JobOf(w)
         /\ ~At(w, "new") /\ ~At(w, "claimJob")
         /\ proc[w].pc \in SentPC <=> proc[w].pc \notin {"acquire", "mark"}
  BY DEF Typed, WellFormed, ItemPC, SentPC, At, JobOf

LEMMA RowTyped ==
  ASSUME Typed, NEW i \in Items
  PROVE  /\ item[i].status \in CheckStatus /\ item[i].attempts \in Nat
         /\ item[i].token \in Nat /\ item[i].sent \in Nat /\ item[i] \in ItemRow
  BY DEF Typed, TypeOK, StoreTypeOK, ItemRow

LEMMA KeptInHand ==
  ASSUME Typed, NEW w \in Workers, Keeps(w), proc'[w].pc \in ItemPC
  PROVE  /\ proc[w].pc \in ItemPC /\ proc[w].item \in Items
         /\ proc'[w].pc \in SentPC <=> proc[w].pc \in SentPC
         /\ proc'[w].item = proc[w].item /\ proc'[w].attempt = proc[w].attempt
         /\ proc'[w].token = proc[w].token
  BY InHand DEF Keeps

(* Snapshot, for one worker.                                               *)
SnapshotOf(w) ==
  \/ proc[w].pc \in {"acquire", "mark"} /\ OwnsJob(w, JobOf(w))
  \/ proc[w].pc \in SentPC /\ HoldsItem(proc[w].item, proc[w].token)
  => item[proc[w].item].attempts = proc[w].attempt

(* A snapshot outlives a step that keeps the item in hand, unless the step *)
(* counts an answer, or hands the row to the worker's token.               *)
LEMMA KeptSnapshot ==
  ASSUME Typed, [Next]_vars, NEW w \in Workers, SnapshotOf(w), Keeps(w),
         proc[w].pc \in ItemPC =>
           LET i == proc[w].item
           IN  /\ \/ item'[i].attempts = item[i].attempts
                  \/ item'[i].status # "PROCESSING" /\ ~OwnsJob(w, JobOf(w))
               /\ \/ item'[i].status # "PROCESSING" \/ item'[i].token # proc[w].token
                  \/ HoldsItem(i, proc[w].token)
  PROVE  SnapshotOf(w)'
<1>1. ASSUME proc'[w].pc \in {"acquire", "mark"}, OwnsJob(w, JobOf(w))'
      PROVE  item'[proc'[w].item].attempts = proc'[w].attempt
  <2>1. proc'[w].pc \in ItemPC /\ proc'[w].pc \notin SentPC
    BY <1>1 DEF ItemPC, SentPC
  <2>2. OwnsJob(w, JobOf(w)) /\ proc[w].pc \in {"acquire", "mark"}
    BY <1>1, <2>1, KeptInHand, InHand, OwnedBefore
  <2>. QED
    BY <2>1, <2>2, KeptInHand DEF SnapshotOf
<1>2. ASSUME proc'[w].pc \in SentPC, HoldsItem(proc[w].item, proc[w].token)'
      PROVE  item'[proc'[w].item].attempts = proc'[w].attempt
  <2>1. proc'[w].pc \in ItemPC
    BY <1>2 DEF ItemPC
  <2>2. HoldsItem(proc[w].item, proc[w].token)
    BY <1>2, <2>1, KeptInHand DEF HoldsItem
  <2>. QED
    BY <1>2, <2>1, <2>2, KeptInHand DEF SnapshotOf, HoldsItem
<1>. QED
  BY <1>1, <1>2 DEF SnapshotOf

(* The tokens outlive a step that keeps the items in hand and takes a      *)
(* token from rows only.                                                   *)
LEMMA KeptTokens ==
  ASSUME Typed, Tokens, AllKeep,
         \A i \in Items : /\ item'[i].sent = item[i].sent
                          /\ item'[i].token = IF item'[i].status = "PROCESSING"
                                              THEN item'[i].sent ELSE 0
  PROVE  Tokens'
<1>1. ASSUME NEW w \in Workers, proc'[w].pc \in SentPC
      PROVE  /\ proc[w].pc \in SentPC /\ proc[w].item \in Items
             /\ proc'[w].item = proc[w].item /\ proc'[w].token = proc[w].token
  BY <1>1, KeptInHand DEF AllKeep, ItemPC
<1>. QED
  BY <1>1 DEF Tokens

LEMMA UnknownRow ==
  ASSUME Typed, NEW i \in Items
  PROVE  /\ InFlightUnknown(item[i]).status = "IN_FLIGHT_UNKNOWN"
         /\ InFlightUnknown(item[i]).attempts = item[i].attempts
         /\ InFlightUnknown(item[i]).token = 0
         /\ InFlightUnknown(item[i]).sent = item[i].sent
  BY RowTyped DEF InFlightUnknown, ItemRow

FencedRows == Tokens /\ Snapshot /\ AttemptsBounded

LEMMA QuietFences ==
  ASSUME Typed, FencedRows, [Next]_vars, Quiet
  PROVE  FencedRows'
<1>1. \A i \in Items :
        /\ item'[i].status = item[i].status /\ item'[i].attempts = item[i].attempts
        /\ item'[i].token = item[i].token /\ item'[i].sent = item[i].sent
  BY StillKeeps DEF Quiet, ItemsKeep
<1>2. Tokens'
  BY <1>1, KeptTokens DEF FencedRows, Quiet, Tokens
<1>3. ASSUME NEW w \in Workers
      PROVE  SnapshotOf(w)'
  BY <1>1, InHand, KeptSnapshot DEF FencedRows, Snapshot, SnapshotOf, Quiet, AllKeep, HoldsItem
<1>4. AttemptsBounded'
  BY <1>1 DEF FencedRows, AttemptsBounded
<1>. QED
  BY <1>2, <1>3, <1>4 DEF FencedRows, Snapshot, SnapshotOf

LEMMA LosesFences ==
  ASSUME Typed, FencedRows, [Next]_vars, NEW S \in SUBSET Items, Loses(S)
  PROVE  FencedRows'
<1>1. \A i \in Items :
        /\ item'[i].attempts = item[i].attempts /\ item'[i].sent = item[i].sent
        /\ IF i \in S
           THEN item'[i].status = "IN_FLIGHT_UNKNOWN" /\ item'[i].token = 0
           ELSE item'[i].status = item[i].status /\ item'[i].token = item[i].token
  BY UnknownRow DEF Loses
<1>2. Tokens'
  BY <1>1, KeptTokens DEF FencedRows, Loses, Tokens
<1>3. ASSUME NEW w \in Workers
      PROVE  SnapshotOf(w)'
  BY <1>1, InHand, KeptSnapshot DEF FencedRows, Snapshot, SnapshotOf, Loses, AllKeep, HoldsItem
<1>4. AttemptsBounded'
  BY <1>1 DEF FencedRows, AttemptsBounded, Loses, Terminal
<1>. QED
  BY <1>2, <1>3, <1>4 DEF FencedRows, Snapshot, SnapshotOf

LEMMA PicksFences ==
  ASSUME Typed, FencedRows, [Next]_vars, NEW w \in Workers, Picks(w)
  PROVE  FencedRows'
<1>1. item' = item
  BY DEF Picks
<1>2. proc'[w].pc \notin SentPC /\ proc'[w].attempt = item[proc'[w].item].attempts
  BY DEF Picks, SentPC
<1>3. Tokens'
  <2>1. ASSUME NEW v \in Workers, proc'[v].pc \in SentPC
        PROVE  /\ proc[v].pc \in SentPC /\ proc[v].item \in Items
               /\ proc'[v].item = proc[v].item /\ proc'[v].token = proc[v].token
    BY <1>2, <2>1, KeptInHand DEF Picks, ItemPC
  <2>. QED
    BY <1>1, <2>1 DEF FencedRows, Tokens
<1>4. ASSUME NEW v \in Workers, v # w
      PROVE  SnapshotOf(v)'
  BY <1>1, <1>4, KeptSnapshot DEF FencedRows, Snapshot, SnapshotOf, Picks, HoldsItem
<1>5. SnapshotOf(w)'
  BY <1>1, <1>2 DEF SnapshotOf
<1>6. AttemptsBounded'
  BY <1>1 DEF FencedRows, AttemptsBounded
<1>. QED
  BY <1>3, <1>4, <1>5, <1>6 DEF FencedRows, Snapshot, SnapshotOf

LEMMA SaveRow ==
  ASSUME Typed, NEW k \in Items, NEW s, NEW n, NEW d, SaveResult(k, s, n, d)
  PROVE  /\ item'[k].status = s /\ item'[k].attempts = n
         /\ item'[k].token = 0 /\ item'[k].sent = item[k].sent
         /\ item'[k].retry = d /\ item'[k].recovery = 0
         /\ \A i \in Items \ {k} : item'[i] = item[i]
<1>. DEFINE a == [item[k] EXCEPT !.status = s, !.attempts = n, !.retry = d]
            b == [a EXCEPT !.recovery = 0, !.token = 0]
            Columns == {"status", "attempts", "retry", "recovery", "token", "sent"}
<1>1. item[k] \in ItemRow /\ item \in [Items -> ItemRow]
  BY RowTyped DEF Typed, TypeOK, StoreTypeOK
<1>2. /\ DOMAIN a = Columns
      /\ a.status = s /\ a.attempts = n /\ a.retry = d /\ a.sent = item[k].sent
  BY <1>1 DEF ItemRow
<1>3. item' = [item EXCEPT ![k] = b]
  BY DEF SaveResult
<1>. HIDE DEF a
<1>4. /\ b.status = a.status /\ b.attempts = a.attempts
      /\ b.token = 0 /\ b.sent = a.sent /\ b.retry = a.retry /\ b.recovery = 0
  BY <1>2
<1>. HIDE DEF b
<1>. QED
  BY <1>1, <1>2, <1>3, <1>4

(* The row that Saves leaves, and the row that Marks leaves.               *)
LEMMA SavedRow ==
  ASSUME Typed, FencedRows, NEW w \in Workers, Saves(w), NEW k, k = proc[w].item
  PROVE  /\ k \in Items /\ JobOfItem[k] = JobOf(w)
         /\ OwnsJob(w, JobOf(w)) /\ HoldsItem(k, proc[w].token)
         /\ item'[k].status \in Terminal \cup {"RETRY_REQUIRED"}
         /\ item'[k].status \in Terminal => item'[k].retry = 0 /\ item'[k].recovery = 0
         /\ item'[k].attempts = item[k].attempts + 1
         /\ item'[k].attempts <= MaxAttempts
         /\ item'[k].status \notin Terminal => item'[k].attempts < MaxAttempts
         /\ item'[k].token = 0 /\ item'[k].sent = item[k].sent
         /\ \A i \in Items \ {k} : item'[i] = item[i]
<1>1. /\ k \in Items /\ JobOfItem[k] = JobOf(w) /\ item[k].attempts \in Nat
      /\ OwnsJob(w, JobOf(w)) /\ HoldsItem(k, proc[w].token)
  BY InHand, RowTyped DEF Saves, Written, At, ItemPC, SentPC
<1>2. item[k].attempts = proc[w].attempt /\ item[k].attempts < MaxAttempts
  BY <1>1 DEF FencedRows, Snapshot, AttemptsBounded, Saves, At, SentPC, HoldsItem, Terminal
<1>3. PICK d \in Nat : SaveAnswer(w, d)
  BY DEF Saves
<1>4. \E s \in Terminal \cup {"RETRY_REQUIRED"} : \E y :
        /\ SaveResult(k, s, Attempt(w), y)
        /\ s \in Terminal => y = 0
        /\ s \notin Terminal => ~Exhausted(Attempt(w))
  BY <1>3 DEF SaveAnswer, Terminal
<1>. QED
  BY <1>1, <1>2, <1>4, SaveRow, TimesAssumption DEF Attempt, Exhausted

LEMMA MarkedRow ==
  ASSUME Typed, NEW w \in Workers, Marks(w), NEW k, k = proc[w].item
  PROVE  /\ k \in Items /\ item[k].sent \in Nat
         /\ item'[k].status = "PROCESSING" /\ item'[k].attempts = item[k].attempts
         /\ item'[k].token = item[k].sent + 1 /\ item'[k].sent = item[k].sent + 1
         /\ \A i \in Items \ {k} : item'[i] = item[i]
         /\ item[k].status \in {"PENDING", "RETRY_REQUIRED", "IN_FLIGHT_UNKNOWN"}
<1>1. k \in Items
  BY InHand DEF Marks, At, ItemPC
<1>. QED
  BY <1>1, RowTyped DEF Marks, MarkProcessing, Claimable, Selectable, ItemRow, Typed,
                        TypeOK, StoreTypeOK

LEMMA MarksFences ==
  ASSUME Typed, FencedRows, [Next]_vars, NEW w \in Workers, Marks(w)
  PROVE  FencedRows'
<1>. DEFINE k == proc[w].item
            n == item[k].sent + 1
<1>1. /\ k \in Items /\ item[k].sent \in Nat
      /\ proc'[w].pc \in SentPC /\ proc'[w].item = k /\ proc'[w].token = n
      /\ proc'[w].attempt = proc[w].attempt
  BY MarkedRow DEF Marks, SentPC
<1>2. /\ item'[k].status = "PROCESSING" /\ item'[k].attempts = item[k].attempts
      /\ item'[k].token = n /\ item'[k].sent = n
      /\ \A i \in Items \ {k} : item'[i] = item[i]
  BY MarkedRow
<1>3. OwnsJob(w, JobOf(w)) /\ item[k].status \notin Terminal
  BY DEF Marks, Claimable, Selectable, Terminal
<1>4. ASSUME NEW v \in Workers, v # w, proc'[v].pc \in SentPC
      PROVE  /\ proc[v].pc \in SentPC /\ proc[v].item \in Items
             /\ proc'[v].item = proc[v].item /\ proc'[v].token = proc[v].token
             /\ proc[v].token \in 1 .. item[proc[v].item].sent
  BY <1>4, KeptInHand DEF FencedRows, Tokens, Marks, ItemPC
<1>5. Tokens'
  <2>1. \A i \in Items : item'[i].token = IF item'[i].status = "PROCESSING"
                                          THEN item'[i].sent ELSE 0
    BY <1>2 DEF FencedRows, Tokens
  <2>2. \A v \in Workers : proc'[v].pc \in SentPC =>
          proc'[v].token \in 1 .. item'[proc'[v].item].sent
    BY <1>1, <1>2, <1>4
  <2>3. \A u, v \in Workers :
          /\ u # v /\ proc'[u].pc \in SentPC /\ proc'[v].pc \in SentPC
          /\ proc'[u].item = proc'[v].item
          => proc'[u].token # proc'[v].token
    BY <1>1, <1>4 DEF FencedRows, Tokens
  <2>. QED
    BY <2>1, <2>2, <2>3 DEF Tokens
<1>6. ASSUME NEW v \in Workers, v # w
      PROVE  SnapshotOf(v)'
  <2>1. Keeps(v) /\ SnapshotOf(v)
    BY <1>6 DEF Marks, FencedRows, Snapshot, SnapshotOf
  <2>2. CASE proc[v].pc \in SentPC
    <3>1. proc[v].token \in 1 .. item[proc[v].item].sent /\ proc[v].item \in Items
      BY <2>2, InHand DEF FencedRows, Tokens, ItemPC
    <3>. QED
      BY <1>1, <1>2, <2>1, <3>1, KeptSnapshot DEF HoldsItem
  <2>3. CASE proc[v].pc \notin SentPC
    <3>1. SnapshotOf(v)' <=> (/\ proc'[v].pc \in {"acquire", "mark"}
                              /\ OwnsJob(v, JobOf(v))'
                              => item'[proc'[v].item].attempts = proc'[v].attempt)
      BY <2>1, <2>3, KeptInHand DEF SnapshotOf, ItemPC
    <3>2. ASSUME proc'[v].pc \in {"acquire", "mark"}, OwnsJob(v, JobOf(v))'
          PROVE  item'[proc'[v].item].attempts = proc'[v].attempt
      <4>1. /\ proc[v].pc \in {"acquire", "mark"} /\ proc[v].item \in Items
            /\ proc'[v].item = proc[v].item /\ proc'[v].attempt = proc[v].attempt
            /\ ~At(v, "new") /\ ~At(v, "claimJob")
        BY <2>1, <2>3, <3>2, KeptInHand, InHand DEF ItemPC
      <4>2. OwnsJob(v, JobOf(v))
        BY <3>2, <4>1, OwnedBefore
      <4>. QED
        BY <1>2, <2>1, <4>1, <4>2 DEF SnapshotOf
    <3>. QED
      BY <3>1, <3>2
  <2>. QED
    BY <2>2, <2>3
<1>7. SnapshotOf(w)'
  <2>1. item[k].attempts = proc[w].attempt
    BY <1>3 DEF FencedRows, Snapshot, Marks, At
  <2>2. proc'[w].pc \notin {"acquire", "mark"}
    BY DEF Marks
  <2>. QED
    BY <1>1, <1>2, <2>1, <2>2 DEF SnapshotOf
<1>8. AttemptsBounded'
  <2>1. \A i \in Items : /\ item'[i].attempts = item[i].attempts
                         /\ item'[i].status \notin Terminal => item[i].status \notin Terminal
    BY <1>2, <1>3
  <2>. QED
    BY <2>1 DEF FencedRows, AttemptsBounded
<1>. QED
  BY <1>5, <1>6, <1>7, <1>8 DEF FencedRows, Snapshot, SnapshotOf

LEMMA SavesFences ==
  ASSUME Typed, FencedRows, [Next]_vars, NEW w \in Workers, Saves(w)
  PROVE  FencedRows'
<1>. DEFINE k == proc[w].item
<1>1. k \in Items /\ JobOfItem[k] = JobOf(w) /\ OwnsJob(w, JobOf(w))
  BY SavedRow
<1>2. /\ item'[k].status \in Terminal \cup {"RETRY_REQUIRED"}
      /\ item'[k].attempts <= MaxAttempts
      /\ item'[k].status \notin Terminal => item'[k].attempts < MaxAttempts
      /\ item'[k].token = 0 /\ item'[k].sent = item[k].sent
      /\ \A i \in Items \ {k} : item'[i] = item[i]
  BY SavedRow
<1>3. Tokens'
  <2>1. \A i \in Items : /\ item'[i].sent = item[i].sent
                         /\ item'[i].token = IF item'[i].status = "PROCESSING"
                                             THEN item'[i].sent ELSE 0
    BY <1>2 DEF FencedRows, Tokens, Terminal
  <2>. QED
    BY <2>1, KeptTokens DEF FencedRows, Saves
<1>4. ASSUME NEW v \in Workers
      PROVE  SnapshotOf(v)'
  <2>1. Keeps(v) /\ SnapshotOf(v)
    BY DEF Saves, AllKeep, FencedRows, Snapshot, SnapshotOf
  <2>2. item'[k].status # "PROCESSING"
    BY <1>2 DEF Terminal
  <2>3. CASE v # w /\ proc[v].pc \in ItemPC
    <3>1. proc[v].item \in Items /\ JobOfItem[proc[v].item] = JobOf(v)
      BY <2>3, InHand
    <3>2. proc[v].item = k => ~OwnsJob(v, JobOf(v))
      BY <1>1, <2>3, <3>1 DEF OwnsJob
    <3>. QED
      BY <1>2, <2>1, <2>2, <3>1, <3>2, KeptSnapshot DEF HoldsItem
  <2>4. CASE proc[v].pc \notin ItemPC
    BY <2>1, <2>4, KeptSnapshot
  <2>5. CASE v = w
    BY <1>1, <2>1, <2>2, <2>5, KeptInHand DEF SnapshotOf, Saves, At, ItemPC, SentPC, HoldsItem
  <2>. QED
    BY <2>3, <2>4, <2>5
<1>5. AttemptsBounded'
  BY <1>2 DEF FencedRows, AttemptsBounded
<1>. QED
  BY <1>3, <1>4, <1>5 DEF FencedRows, Snapshot, SnapshotOf

LEMMA FencingStep ==
  ASSUME Fencing, [Next]_vars
  PROVE  Fencing'
<1>1. Typed /\ FencedRows
  BY DEF Fencing, Typed, FencedRows
<1>2. Typed'
  BY <1>1, NextTyped
<1>3. FencedRows'
  BY <1>1, StepKinds, QuietFences, PicksFences, MarksFences, SavesFences, LosesFences
  DEF Kinds
<1>. QED
  BY <1>2, <1>3 DEF Fencing, Typed, FencedRows

LEMMA FencingInit == Init => Fencing
<1>. SUFFICES ASSUME Init PROVE Fencing
  OBVIOUS
<1>1. Typed
  BY InitTyped
<1>2. \A i \in Items : /\ item[i].status = "PENDING" /\ item[i].attempts = 0
                       /\ item[i].token = 0
  BY DEF Init, StoreInit
<1>3. \A w \in Workers : proc[w].pc = "new"
  BY FreshTyped DEF Init, Processes
<1>4. Tokens
  BY <1>2, <1>3 DEF Tokens, SentPC
<1>5. Snapshot
  BY <1>3 DEF Snapshot, SentPC
<1>6. AttemptsBounded
  BY <1>2, TimesAssumption DEF AttemptsBounded, Terminal
<1>. QED
  BY <1>1, <1>4, <1>5, <1>6 DEF Fencing, Typed

(* The fencing of the items holds in every behaviour: a PROCESSING row     *)
(* carries the newest token, no two requests share one, and whoever may    *)
(* write the row's next count has the present one in hand.                 *)
THEOREM FencingInvariant == Spec => []Fencing
<1>. QED
  BY FencingInit, FencingStep, PTL DEF Spec

(* No number is given more than max_attempts counted attempts, whichever   *)
(* workers save them (RetryQueue.schedule_retry).                          *)
THEOREM AttemptsInvariant == Spec => []AttemptsBounded
<1>1. Fencing => AttemptsBounded
  BY DEF Fencing
<1>. QED
  BY <1>1, FencingInvariant, PTL

-----------------------------------------------------------------------------
(* Runtime implements ItemLedger.                                          *)

LEMMA Refines ==
  ASSUME Fencing, Fencing', Kinds
  PROVE  [Ledger!Next]_(Ledger!vars)
<1>1. Typed /\ Typed' /\ FencedRows
  BY DEF Fencing, Typed, FencedRows
<1>. DEFINE phase == [i \in Items |-> Phase(i)]
            answered == [i \in Items |-> item[i].attempts]
            lost == [i \in Items |-> LostRequests(i)]
<1>2. ASSUME \A i \in Items : /\ item'[i].status = item[i].status
                              /\ item'[i].attempts = item[i].attempts
                              /\ item'[i].sent = item[i].sent
      PROVE  UNCHANGED Ledger!vars
  BY <1>2 DEF Ledger!vars, Phase, LostRequests
<1>3. CASE Quiet
  BY <1>1, <1>2, <1>3, StillKeeps DEF Quiet, ItemsKeep
<1>4. ASSUME NEW w \in Workers, Picks(w)
      PROVE  UNCHANGED Ledger!vars
  BY <1>2, <1>4 DEF Picks
<1>5. ASSUME NEW w \in Workers, Marks(w)
      PROVE  Ledger!Next
  <2>. DEFINE k == proc[w].item
  <2>1. /\ k \in Items /\ item[k].sent \in Nat /\ item[k].attempts \in Nat
        /\ item'[k].status = "PROCESSING" /\ item'[k].attempts = item[k].attempts
        /\ item'[k].sent = item[k].sent + 1
        /\ \A i \in Items \ {k} : item'[i] = item[i]
        /\ item[k].status \in {"PENDING", "RETRY_REQUIRED", "IN_FLIGHT_UNKNOWN"}
    BY <1>1, <1>5, MarkedRow, RowTyped
  <2>. HIDE DEF k
  <2>2. phase[k] \in {"waiting", "unknown"} /\ answered[k] < MaxAttempts
    BY <1>1, <2>1 DEF Phase, FencedRows, AttemptsBounded, Terminal
  <2>3. phase' = [phase EXCEPT ![k] = "sent"]
    BY <2>1 DEF Phase
  <2>4. answered' = answered
    BY <2>1
  <2>5. lost' = lost
    <3>1. \A i \in Items : LostRequests(i)' = LostRequests(i)
      BY <2>1 DEF LostRequests
    <3>. QED
      BY <3>1
  <2>6. Ledger!Send(k)
    BY <2>2, <2>3, <2>4, <2>5 DEF Ledger!Send
  <2>. QED
    BY <2>1, <2>6 DEF Ledger!Next
<1>6. ASSUME NEW w \in Workers, Saves(w)
      PROVE  Ledger!Next
  <2>0. PICK k \in Items : k = proc[w].item
    BY <1>1, <1>6, SavedRow
  <2>1. /\ k \in Items /\ item[k].sent \in Nat /\ item[k].attempts \in Nat
        /\ item[k].status = "PROCESSING"
        /\ item'[k].status \in Terminal \cup {"RETRY_REQUIRED"}
        /\ item'[k].attempts = item[k].attempts + 1
        /\ item'[k].status \notin Terminal => item'[k].attempts < MaxAttempts
        /\ item'[k].sent = item[k].sent
        /\ \A i \in Items \ {k} : item'[i] = item[i]
    BY <2>0, <1>1, <1>6, SavedRow, RowTyped DEF HoldsItem
  <2>2. phase[k] = "sent"
    BY <2>1 DEF Phase
  <2>3. answered' = [answered EXCEPT ![k] = answered[k] + 1]
    BY <2>1
  <2>4. \/ \E r \in Terminal : phase' = [phase EXCEPT ![k] = r]
        \/ answered[k] + 1 < MaxAttempts /\ phase' = [phase EXCEPT ![k] = "waiting"]
    <3>1. CASE item'[k].status \in Terminal
      <4>1. phase' = [phase EXCEPT ![k] = item'[k].status]
        BY <2>1, <3>1 DEF Phase, Terminal
      <4>. QED
        BY <3>1, <4>1
    <3>2. CASE item'[k].status = "RETRY_REQUIRED"
      <4>1. phase' = [phase EXCEPT ![k] = "waiting"]
        BY <2>1, <3>2 DEF Phase
      <4>. QED
        BY <2>1, <3>2, <4>1 DEF Terminal
    <3>. QED
      BY <2>1, <3>1, <3>2
  <2>5. lost' = lost
    <3>1. \A i \in Items : LostRequests(i)' = LostRequests(i)
      BY <2>1 DEF LostRequests, Terminal
    <3>. QED
      BY <3>1
  <2>6. Ledger!Answer(k)
    BY <2>2, <2>3, <2>4, <2>5 DEF Ledger!Answer
  <2>. QED
    BY <2>6 DEF Ledger!Next
<1>7. ASSUME NEW S \in SUBSET Items, Loses(S)
      PROVE  Ledger!Next \/ UNCHANGED Ledger!vars
  <2>1. \A i \in Items :
          /\ item'[i].attempts = item[i].attempts /\ item'[i].sent = item[i].sent
          /\ item[i].attempts \in Nat /\ item[i].sent \in Nat
          /\ IF i \in S
             THEN item[i].status = "PROCESSING" /\ item'[i].status = "IN_FLIGHT_UNKNOWN"
             ELSE item'[i].status = item[i].status
    BY <1>1, <1>7, UnknownRow, RowTyped DEF Loses
  <2>2. CASE S = {}
    <3>1. \A i \in Items : /\ item'[i].status = item[i].status
                          /\ item'[i].attempts = item[i].attempts
                          /\ item'[i].sent = item[i].sent
      BY <2>1, <2>2
    <3>. QED
      BY <1>2, <3>1
  <2>3. CASE S # {}
    <3>1. \A i \in S : phase[i] = "sent"
      BY <2>1 DEF Phase
    <3>2. phase' = [i \in Items |-> IF i \in S THEN "unknown" ELSE phase[i]]
      BY <2>1 DEF Phase
    <3>3. lost' = [i \in Items |-> IF i \in S THEN lost[i] + 1 ELSE lost[i]]
      <4>1. \A i \in Items : LostRequests(i)' = IF i \in S THEN LostRequests(i) + 1
                                                           ELSE LostRequests(i)
        BY <2>1 DEF LostRequests
      <4>. QED
        BY <4>1
    <3>4. answered' = answered
      BY <2>1
    <3>5. Ledger!Lose(S)
      BY <2>3, <3>1, <3>2, <3>3, <3>4 DEF Ledger!Lose
    <3>. QED
      BY <3>5 DEF Ledger!Next
  <2>. QED
    BY <2>2, <2>3
<1>. QED
  BY <1>3, <1>4, <1>5, <1>6, <1>7 DEF Kinds

(* Every behaviour of the processes is one of the ledger: a request that   *)
(* left is answered once or recorded as lost before the next one for its   *)
(* number leaves, and no number outlives its attempts.                     *)
THEOREM LedgerRefined == Spec => LedgerSpec
<1>1. Init => Ledger!Init
  BY DEF Init, StoreInit, Ledger!Init, Phase, LostRequests
<1>2. Fencing /\ Fencing' /\ [Next]_vars => [Ledger!Next]_(Ledger!vars)
  BY StepKinds, Refines DEF Fencing, Typed
<1>. QED
  BY <1>1, <1>2, FencingInvariant, PTL DEF Spec, LedgerSpec, Ledger!Spec

=============================================================================
