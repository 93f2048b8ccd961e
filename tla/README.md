# Verification of telegram-phone-number-checker

A TLA+ development of the program in `src/`: it imports phone numbers into
*jobs*, asks Telegram about each number through one or several accounts, and
keeps every job, number, lease and login in one SQL database that any number of
processes (command line runs, the web server) share. What is hard in it is that
the database is the only thing those processes have in common, and that the
web server's own coroutines interleave at every await. This directory models
both, checks them with TLC, and proves with TLAPS all of the safety that
TLC finds to hold.

Paths below are relative to `src/telegram_phone_number_checker/` unless they
start with `src/`.

## Inventory

| Part | State it keeps | Operations | Hard behaviour | What makes it correct |
|---|---|---|---|---|
| **Job manager** `job_manager.py` (`JobManager`, `JobController`) | one run: its worker task, done event, final status | `recover`, `run` (claim, start, connect, status loop, finalise, disconnect, release), `pause`, `resume` | statements of two processes interleave; cancellation at any await; errors at every stage | a run ends, leaves no lease, never steals a live one; COMPLETED only when every number is settled |
| **Worker** `worker.py` | command, cancel flag, rate flag, the number in hand | `claim`, `process` (poll command, gate, next number, acquire, mark, request, save), quarantine, `release` | the row is read before two awaits and written after; the lease may be lost in between | one open request per number; no write by a worker that lost its claim |
| **Lease keeper** `lease_keeper.py` | lost event, failure count | heartbeat, `assert_ownership`, stop | late heartbeat; two renewals, one of which fails | a lost lease stays lost |
| **Retry queue, checkpoint** `retry_queue.py`, `checkpoint.py` | none (rows) | `schedule_retry`, thin wrappers | attempts counted from a snapshot | at most `max_attempts` answers, then settled |
| **Job repository** `repositories/job_repository.py` | `jobs`, `account_worker_state` | claims, renewals, releases, status and command updates | grace tested in a SELECT, lease in the UPDATE | a live lease has one owner |
| **Result repository** `repositories/result_repository.py` | `check_items` | `mark_processing`, `save_result`, `mark_in_flight_unknown`, `next_due_item`, `recover_interrupted` | tokens fence late writes | a settled number is never written again |
| **Web job runner** `webapi/runner.py` | task table, monitor task | start, pause, resume, `cancel`, `recover_all_stale`, multi-account parents, shutdown | cancel races a claim; a parent waits for branches that others start, stop and delete | cancel reaches the worker; one task per job; a parent is COMPLETED last |
| **Rate limiter** `rate_limiter.py` | blocked-until in memory and in SQL | `initialize`, `is_blocked`, `acquire`, `register_rate_limit` | a cooldown shared by processes, cleared by the one that waited; whole seconds in SQL | a worker never sends while a cooldown is stored; nobody waits longer than Telegram asked |
| **Telegram service** `telegram_service.py` | client, management lease | connect, disconnect, `check_phone`, login calls, `_authorized_call` | lock, limiter and lease are taken one after the other; a session is saved when its client ends | one client of workers and management operations at a time; lease and lock given back on every path |
| **Account manager** `webapi/account_manager.py` | accounts, login rows, pending QR logins, status cache | add, remove, probe, code, 2FA and QR login, import, migration, logout | check, await, write | a run's session is not replaced under it; no session without its account; a QR login that shows a code is waited for |
| **Authentication** `webapi/auth.py`, `repositories/persistence_repository.py` | session rows, failure counts | login, logout, expiry, throttle | windows and blocks in whole seconds; logins purge the table | no more guesses than the limit means; a session lasts as long as its cookie |
| **Server-sent events** `webapi/sse.py` | subscriber queues | subscribe, publish, unsubscribe | a full queue | a stream has no hole |
| **Database** `database.py` | connection, transaction depth | `execute`, `commit`, `transaction`, reconnect | nested units of work, deferred commits, lost connections | all or nothing; success is durable |
| **Import and distribution** `main.py`, `webapi/routers/jobs.py` | rows | import, split over accounts, delete | duplicates in several spellings, remainders | no number lost, doubled or dealt twice |
| Validation, maintenance, accounts and manager data, session stores, routes, exporters, logging, scripts, user interface | rows or none | single statements, pure functions, I/O | none of their own | — |

How they interact: a web request or the command line creates a `JobManager`,
which recovers the job, creates a `Worker`, claims the job row and then the
account row, starts a `LeaseKeeper` task and a worker task, and waits. The three
tasks share the worker's flags and interleave only at awaits. Other processes
interact through rows alone: a monitor (`recover_all_stale`), other runs of the
same job or of another job on the same account, and operators who write
`requested_command`. In the web server, `JobRunner` keeps one task per job and
one per multi-account parent, which starts its branches' tasks and waits for
them. The account manager's requests, the QR logins' waiting tasks and the
management operations of `telegram_service.py` meet the workers at the account
lease and at the account's session row; all of them share the account's
cooldown. Every change is announced through the event hub, whose lock is never
held across an await and so never delays anybody.

## Modules

| Module | Contents |
|---|---|
| `JobStore` | the three tables (`job`, `account`, `item`) and one operator per SQL statement that the runtime uses; time |
| `Runtime` | the processes: workers, monitors, operators; one action per statement or await; faults; `Spec`, `FairSpec` |
| `ItemLedger` | the abstract promise about each number |
| `RuntimeSafety` | the properties, the refinement mapping to `ItemLedger`, the inductive invariant `Fencing` |
| `RuntimeTypes`, `RuntimeFencing`, `RuntimePromises` | the proofs: types; items, tokens and the refinement; leases and what depends on them |
| `MCRuntime` | instances for TLC; one `MCRuntime_<run>.cfg` per run |
| `EventHub` | `webapi/sse.py`: publish, full queues, streams |
| `RateLimit` | `rate_limiter.py`: an account's cooldown in the memory of workers and management operations and in its row |
| `Sessions` | one phone number's account, session, lease and lock: probes, code logins, imports, migrations, management operations, logout, removal, runs |
| `QrLogin` | extends `Sessions` with QR logins: waiting task, refresh, password, cancellation |
| `Branches` | `webapi/runner.py` and the job routes: task table, parent and branches, deletion, shutdown, crash, another process |
| `Database` | `database.py`: units of work, nested transactions, deferred commits, lost connections |
| `Import` | from the lines of a file to the check items of one, several or dealt-out jobs |
| `WebAuth` | `webapi/auth.py`, `repositories/persistence_repository.py`, `maintenance.py`: web sessions, the login throttle, retention |
| `MCServices` | instances of the eight modules above for TLC |
| `ServicesProof` | the proofs about `EventHub` and `RateLimit` |
| `AccountsProof` | the proofs about `Sessions` and `QrLogin` |
| `BranchesProof` | the proofs about `Branches` |
| `StorageProof` | the proofs about `Database` and `WebAuth` |
| `ImportProof` | the proofs about `Import` |

`JobStore` to `MCRuntime` are about what several processes do to one job.
`Runtime` composes with the other modules by what each takes from it: in
`Sessions` and `Branches` a run is a claim, a connection and an end, which is
what `Runtime` shows of it; `RateLimit` refines the "seconds still blocked" a
worker of `Runtime` waits out; `Branches` removes a task from the table in the
step in which it ends because `EventHub`'s lock is free at every await.

**State.** `job[j]`, `account[a]` and `item[i]` are the columns that some
statement's guard reads. A timestamp is stored as its distance from now:
`lease` is `worker_lease_until - now`, `retry` is `next_retry_at - now`,
`recovery` is `recovery_after - now`; `Tick` is one second and moves all of them
(the code's timestamps have a resolution of one second). `item.sent` is no
column: it counts claims, and the n-th claim's token is n where the code draws a
fresh uuid. `proc[p]` is what one process has in local variables, with `pc`
naming the statement it runs next.

**Actions of `Runtime`.** `RecoverRead` … `RecoverItems` are the statements of
`JobManager.recover`; `Run` … `Connect` those of `run` up to the connection;
`Poll` … `Save` the worker loop; `Heartbeat` the keeper; `Refresh`, `SettleJob`,
`FinishJob`, `Disconnect`, `ReleaseAccountRow`, `ReleaseJob` the manager's side;
`OperatorRead` … `CancelMark` pause, resume and cancel. `Crash`, `Shutdown`
(task cancellation), `LoopFault` (a statement of the loop raises),
`ConnectFails` and the faults of `Heartbeat` happen when `Faults` names them.

**Where the grain is coarser than the code, and why nothing is lost.**
`assert_ownership` reads two rows in one step: a worker that loses either lease
loses it for good (`LostForGood`; an account lease likewise), so an answer of
"owned" given by two reads was true at the first, and the later write has its
own guard. `Gate` joins the ownership check, the query for a due number and
the count of unfinished ones, of which only the worker's own job's rows matter.
`Policy` joins the reload of the job with claim_worker's SELECT, with either
setting of auto-resume. `Refresh` joins the command read with the guarded status
write; they concern different columns. In `Heartbeat` the two renewals are one
step, except that an account lease in its last second may run out between them.
`SettleJob` keeps `has_unfinished_items` apart from the COMPLETED write, but not
from the PAUSED one, which depends on it only through numbers that nobody else
can settle while this worker owns the job.

**Data abstracted.** TEMPORARY_ERROR and RATE_LIMITED are answers; the retry
queue stores both as RETRY_REQUIRED. A computed delay is a member of
`RetryDelays`. The limiter is a per-worker number of seconds still blocked.
Result columns, totals, heartbeat timestamps and error texts are left out.

**`RateLimit`.** A cooldown is the ticks that remain of it. The row holds whole
seconds, so what is stored depends on `phase`, the fraction of the current
second. An acquire is four steps (reload, waited out and cleared, interval over,
request), because the coroutine sleeps between them. A worker holds the account
lease throughout its run, a management operation claims it after its acquire.
`cooldown` is a history variable: what remains of the longest wait Telegram has
asked for.

**`Sessions`, `QrLogin`.** A request handler is one step between two awaits;
`handler[h]` is what it has in local variables: the client's key, the store it
was opened on, the login row it read. A session string is its authorisation key,
a client opened without one makes a fresh key. `Persist` is the save in every
`finally`, with its failure when the account is gone. A removed account that is
added again has a new id, and the session store looks the account up by phone
number, as the code does.

**`Branches`.** A job's row has status, command and owner; a task is created,
running, leaving or gathering. What a run does between claim and end is
`Runtime`'s; its end here is any status `Runtime` can leave.

**`Database`.** A unit is what runs without an await, and its program is the
sequence of its calls. `connection = "lost"` is a connection nobody knows yet to
be lost: the first statement finds out.

**`WebAuth`.** Like `RateLimit`, with rows of whole seconds; `guesses` and the
ages in `web` are histories.

**`Import`.** A line is the sequence of texts its commas separate, a text is a
model value with a normal form or none, and with a casefolded form.

## Runs

The runs of `MCRuntime` share a base instance: two workers, one job, one
account, one number, `LeaseSeconds` 2, `TakeoverGrace` 0, `RecoveryGrace` 1,
`MaxAttempts` 1, a renewal failure limit of 1, and delays of one second.

| Run | Instance | Checks | Shows |
|---|---|---|---|
| `fencing` | crash, answers FOUND and RATE_LIMITED, two attempts, takeover grace 1 | `TypeOK`, `Fencing`, `AttemptsBounded`, `LedgerSpec`, `LostForGood`, `TakeoverWaits` | items are fenced, every request is accounted for, leases change hands only when over |
| `recovery` | crash, a monitor's recovery, recovery grace 2 | `OverlapNeedsGrace`, `CompletedIsSettled`, `TerminalStays` | recovery beside live and dead workers never reopens or loses a number |
| `shared` | two jobs with a number each on one account; crash, database errors, failed connections, cancellations | `NoOrphanLease`, `AccountHeldWhileConnected` | however a run ends it gives its leases back; nobody takes a live account |
| `commands` | one worker, two operators, pause, resume and cancel; crash, cancellation, database errors; two attempts | `OverIsIdle` | a job that is over has no live owner at work |
| `progress` | crash, TEMPORARY_ERROR, two attempts, `FairSpec` | `RunsEndUnlessOrphaned` | a started run ends, with the one exception below |
| `recover_steals` | a monitor | `JobHeldWhileConnected`, violated | recovery clears a lease claimed since |
| `orphaned_item` | base, `FairSpec` | `RunsEnd`, violated | a number left PROCESSING keeps its successor's run alive for ever |
| `cancel_wiped` | one worker, one cancel | `CancelReachesWorker`, violated | the start of a worker erases a cancel |
| `resume_then_check` | one worker, one resume | `ResumedIsNotPaused`, violated | the run after a resume pauses the job |

The runs of `MCServices` choose one service at the start and exercise it alone:
the models share no variables, so their product would only multiply states.

| Run | Service | Checks | Shows |
|---|---|---|---|
| `services` | events | `StreamsAreGapFree` | what a stream delivers is a run of consecutive events, also when it was dropped |
| | limiter | `WorkersHonourStoredCooldown`, `CooldownsAreTelegrams` | no worker sends while a cooldown is stored, whoever stored it and when; cooldowns never grow |
| | accounts | `OneClient`, `RunsKeepTheirSession`, `SessionsHaveAccounts`, `NothingLeftBehind`, `WaitingIsWaitedFor` | workers and management operations never hold a client together; only write-backs of older clients and migrations touch a run's session; sessions die with their account; leases and locks are given back; a shown QR code is waited for |
| | branches | `TasksTracked`, `NoRunWithoutJob`, `ParentCompletesLast` | one task per job, no deletion under a run, a parent completes after all its branches |
| | database | `AllOrNothing`, `SuccessIsDurable`, `NoStrayWrites` | a transactional unit is in the database as a whole or not at all, at every failure; a unit that is transactional or commits each write has all of them in the database when it reports success |
| | import | `EveryNumberImported`, `FilesAreDealtFairly` | no number is lost or doubled; a file is dealt out fairly |
| | auth | `GuessesThrottled`, `WebSessionsLast` | at most 2 * limit - 1 wrong passwords are looked at in any 298 s; a session is accepted until the last second of its cookie and never after a logout |
| `cooldown_cleared` | limiter | `CooldownSurvivesRestart`, violated | a longer cooldown is erased by whoever waited out a shorter one |
| `number_in_two_branches` | import | `BranchesDisjoint`, violated | a cell with two texts brings a number to two accounts |

**Bounds.** `LeaseSeconds` 2 leaves a lease two distinguishable live values, so
it can be renewed, run out, and be in its last second. `Horizon` bounds how long
ago a lease ran out; it is at least both graces and `MaxStall`, the longest time
a claim waits between reading the clock and its UPDATE, so no statement can tell
the clipped values apart (the ASSUMEs of both modules require it).
`TakeoverWaits` needs `MaxStall < LeaseSeconds`: a claim slower than a whole
lease could take a lease granted after it read the clock. With the code's 60 s
leases and one local database statement that is the intended regime. Each worker
is one run and each operator one command; two of each give every pairwise race,
and a crash followed by a successor.
The recovery grace of 2 in `recovery` exceeds the one second that a lost lease
already implies. Two attempts distinguish the last from an
earlier one. One number is enough for the item properties, which quantify over
numbers that do not interact except through `next_due_item`'s order; `shared`
has two.

In `services`: two streams with queues of 2 and `MaxEvents` 5, so that a queue
fills, is dropped, and is read afterwards; two workers and one management
operation with `MaxFloods` 2 waits of one or two seconds at two ticks per
second; two request handlers, one worker, one login and one QR login with three
coroutines, three keys (the legacy file's and two fresh ones), and `MaxAccounts`
2, so that a phone number is registered, removed and registered again
(`FewRequests`: in a behaviour with QR requests, two requests in all); a parent
with two branches and a task for each; the four kinds of unit the repository
has (an import with nested transactions and commits, a deletion, a repository
call, and `set_default`, which writes twice before its commit), one after another, with `MaxLosses` 3 lost connections or restarts;
files of up to `MaxLines` 4 lines out of two spellings of a number, another
number, two spellings of a text that is none, and cells of two texts, for up to
`MaxSelected` 3 accounts; two web sessions of 2 s, a limit of two failures in
windows and blocks of 4 s, at two ticks per second.

**Symmetry** is used for workers or operators in safety runs only, and for
branches in `services`. Handlers, coroutines and keys are interchangeable too
and are taken in order (`InOrder`), and a task takes its job's name when that is
free (`OwnSlot`): a representative per renaming.

**Fairness.** Weak fairness of `Progress(w)`: the event loop runs every ready
task and a statement returns; Telegram's answer is included: a request ends
with an answer or with an error of the connection. `Recover` and `Operate` are calls in progress. `Tick` is time.
Heartbeats, the status loop and all faults are not fair: a stalled heartbeat is
how leases are lost, and no liveness property may lean on it.

**Deadlock.** In `Runtime` a state in which every process is over still ticks,
so deadlock checking stays on. The services do stop: a file has been imported,
every request has been served, the events are used up. Their runs say
`CHECK_DEADLOCK FALSE`.

## Proofs

Checked by `tlapm`, for every value of the constants that satisfies the modules'
ASSUMEs. These say: ids and pseudo-values are distinct (`OwnersAssumption`,
`ProcessesAssumption`, `SessionsAssumption`, `BranchesAssumption`); numbers are
positive integers, each with a job and each job with an account; leases, limits,
attempts and queue sizes are positive, graces, intervals and delays natural, and
both graces and `MaxStall` within `Horizon`; a login block is longer than a
second; and, of the programs that units run (`ProgramAssumption`), that
`transaction()` is a context manager and so nests properly, that one a unit
starts with spans the unit, and that no repository leaves a write uncommitted;
of `normalize_phone`, that it leaves its own results as they are and, where the
texts of an import differ only in what `casefold` removes, that it treats them
alike (`ImportAssumption`: `phonenumbers` reads letters without regard to case,
and lines of the same casefolded text are merged).
TLC evaluates each of them on the instances above.

**Items (`RuntimeTypes`, `RuntimeFencing`).**

- `TypeCorrect`: `Spec => []TypeOK`, by one lemma per group of actions. The
  invariant actually carried, `Typed`, adds that a process past `new` has a job
  and that the item in hand belongs to it.
- `LostStaysLost`: `Spec => LostForGood`. Ownership is gained by `ClaimJob`
  alone, which no worker past its claim can take again; `OwnershipGained` says
  it of every statement.
- `FencingInvariant`: `Spec => []Fencing`. `AttemptsBounded` is not inductive:
  `Save` writes the count of a snapshot plus one. It becomes so together with
  `Snapshot` (whoever still owns the job before its request, or holds the row's
  token after it, has the row's count in hand), which needs `Tokens` (a
  PROCESSING row carries the newest token, and tokens of two workers differ) and
  `LostForGood` (a worker that lost the lease before its claim cannot win it).
  Every step is first shown to be of one of five kinds (quiet, picks up a
  number, marks, saves, loses), and the invariant is proved once per kind.
- `AttemptsInvariant`: `Spec => []AttemptsBounded`, a conjunct of it.
- `LedgerRefined`: `Spec => LedgerSpec`, from the invariant: a mark is `Send`, a
  save is `Answer`, a quarantine or recovery is `Lose`, all else stutters.

**Leases and what depends on them (`RuntimePromises`).** `ItemPromises` adds to
`Fencing` that nothing is due for a settled row (`SettledRows`; otherwise `Tick`
would write it) and that a request on the wire has waited for the recovery grace
or is the newest of its number, whose row still waits for it (`RequestsWait`).

- `TerminalRowsStay`: `Spec => TerminalStays`, and `OverlapInvariant`:
  `Spec => []OverlapNeedsGrace`, by the same five kinds of steps.
- `CompletedInvariant`, `NoOrphanInvariant` and `OverIdleInvariant` are conjuncts
  or consequences of `LeasePromises`, which adds what a row of `jobs` or
  `accounts` says of the worker it names (`JobLeases`, `AccountLeases`: past its
  claim, not yet past its release, on this job), that whoever is about to write
  COMPLETED has every answer of the job (`Finishing`), that a live owner's job
  is not over (`Working`), and that what a recovery has read of the previous
  owner stays true (`Observed`; it reads in one statement and releases in
  another, and is right only because a lost lease stays lost).
- `AccountStaysHeld`: `Spec => AccountHeldWhileConnected`, from the same invariant:
  the one step that could take a live account from a connected client is the
  recovery's release, and `Observed` excludes it.
- `TakeoverAfterGrace`: `MaxStall < LeaseSeconds` implies `Spec => TakeoverWaits`.
  The invariant, `ClaimWaits`, says that between the claim's test of the grace
  and its UPDATE the row stays free, or over by the grace, or carries a lease
  granted since, over which the UPDATE's own guard fails. Without the hypothesis
  the last case breaks: a claim that stalls for a whole lease can find a lease
  that was granted and ran out meanwhile, whose grace it never tested.

**Accounts (`AccountsProof`).** `AccountsInv` is the type invariant, what a QR
login and its coroutines know of each other (`QrPromise`), who holds the lease
and the lock at which point of a request or run (`Leases`), and
`SessionsHaveAccounts`. Each step is shown to be of one kind for the session row
(same, written back, written free, registers, removes) and one kind for the
lease and lock (same holders, or one of the four moves of a request or the two
of a run); the rest is proved per kind and never looks at an action again.

- `OneClientAtATime`, `EverythingGivenBack`, `SessionsBelong`, `ScansAreAwaited`:
  `OneClient`, `NothingLeftBehind`, `SessionsHaveAccounts` and
  `WaitingIsWaitedFor` are invariants; `SessionsOfRunsStay` is the action property
  `RunsKeepTheirSession`. They hold for any number of requests, workers, logins,
  QR logins and coroutines, so TLC's `FewRequests` and `InOrder` bound nothing in
  them.

**Branches (`BranchesProof`).** `BranchesInv`: the place of a task fits its job
(`Shape`), a task that has not ended is its job's entry in the table (`Tracked`),
an entry's task is of that job (`Listed`), an owner is a task that runs the job
(`Owned`), and both have rows (`Exist`).

- `TasksAreTracked`, `RunsHaveJobs`: `TasksTracked` and `NoRunWithoutJob` are
  invariants. `ParentLast`: `Spec => ParentCompletesLast`.

**Services.**

- `HubGapFree`: `HubSpec => []StreamsAreGapFree`, for any number of streams and
  any queue size. It is inductive together with the fact that a stream that has
  not subscribed is offered nothing; an offered event extends the run of events
  seen by one (`RunExtended`), a yielded one keeps its place (`SeenAfterYield`).
- `CooldownsNeverGrow`: `LimiterSpec => []CooldownsAreTelegrams`, for any number
  of workers and operations, any waits and any resolution of time. The invariant
  adds the types; the facts it needs are that truncation shortens
  (`TruncatedShortens`), that a step which sets a block to the row's, to its own
  or to none keeps it (`MemoryKeeps`), and that a tick takes one from every
  distance that is not over (`TickKeeps`).
- `StoredCooldownsBind`: `LimiterSpec => WorkersHonourStoredCooldown`. Only the
  holder of the account lease can be told to wait (`OneSender`), and a worker
  that sleeps remembers at least what is stored, one past its sleep knows that
  nothing is (`KnowsTheRow`).
- `ImportsAreAtomic`, `ReportedIsCommitted`, `NothingStrays`: `AllOrNothing`,
  `SuccessIsDurable` and `NoStrayWrites` are invariants, for any units with any
  programs. `DbInv` ties the transaction depth to the unit's position in its
  program (`Position`), says that what is pending is the running unit's and
  younger than its last commit (`PendingOK`), that a write of a unit that commits
  each one is lost only where the next call notices (`Kept`), and that nothing
  of a transaction is committed before its last call and all of it after
  (`Atomic`).
- `LoginsAreThrottled`, `SessionsLastTheirTime`: `GuessesThrottled` and
  `WebSessionsLast` are invariants, for every limit, window, block, lifetime and
  resolution of time. `WebInv` says how many guesses lie within `Span` beyond
  those the row counts: fewer than the limit, of an earlier window, or, after a
  block, at most `2 * limit - 1`, all about as old as the block (`Gathered`); that
  a guess the row does not count is as old as the window, to the second
  (`Uncounted`); and that a session's row lives as long as the session, rounded
  to the second (`SessionOK`).

**Import (`ImportProof`).**

- `NoNumberIsLost`, `DealingIsFair`: `EveryNumberImported` and
  `FilesAreDealtFairly` are invariants, for files of any length and any number of
  accounts, so TLC's `MaxLines` and `MaxSelected` bound nothing in them. What a
  recursive function computes for every file takes an induction, and the
  library's induction theorems cannot be instantiated here; but the strict
  inclusion of finite sets is well-founded, which is stated of a relation. From
  it follow the least element of a set of naturals (`Least`), induction along an
  interval (`Steps`) and the existence of recursively defined functions
  (`Recursion`). With them: what the flattened lines hold (`FlatTexts`), what a
  job collects of them (`JobItems`), which inputs a file has (`UniqueInputsOf`:
  every key of a line once) and which positions round robin deals to whom
  (`DealtPositions`, `DealtOnce`, `DealtFairly`, for any total and any number of
  accounts). Lines with equal keys hold the same numbers (`EqualKeys`), so jobs
  whose lines have the keys of the file's lines import the file (`PartsImport`);
  the three ways to import differ only in how they meet that condition.

Model-checked only: `RunsEndUnlessOrphaned`, which is liveness under fairness and
out of the prover's reach. The properties of the runs that expect a violation are
refuted, so there is nothing to prove.

## Known divergences

Checked by a run each, and described in `PROJECT.json`:

1. `recover_steals` — `job_manager.py:89` clears ownership without a guard.
2. `orphaned_item` — `worker.py:584` leaves a number PROCESSING under a dead
   owner; `src/README.md:342` says it is quarantined.
3. `cancel_wiped` — `repositories/job_repository.py:460` drops a pending cancel.
4. `resume_then_check` — `job_manager.py:90` pauses the job that
   `src/README.md:306` says is ready to run.

5. `cooldown_cleared` — `rate_limiter.py:109` clears a cooldown it has not read.
6. `number_in_two_branches` — `webapi/routers/jobs.py:291` compares lines that
   are split only later; `src/README.md:273` says branches share no number.

Met while modelling, and not given a run:

- `main.py:387` marks a job FAILED after any exception of a run, a refusal
  (`JobBusyError`, `AccountBusyError`) included, when nobody owns the job: one
  that a successor has completed and released in between, or that was COMPLETED
  when a second `check --job-id` found its account busy, becomes FAILED. The
  comment at 382 speaks of fatal failures, and of not clobbering a successor.
- `worker.py:308` acknowledges a pause with a statement that releases the job
  lease while the client is connected; the comment at 304 says leases are not
  released there. If that statement raises, `done_callback` is skipped and the
  manager's loop at `job_manager.py:228` never ends (`pc = "hung"`).
- `worker.py:335`: a worker that lost the job can consume the pause meant for
  its successor; `repositories/job_repository.py:604` then lets it acknowledge
  when nobody owns the job, although the docstring says only the owner may.
- `retry_queue.py:92` says a number never *runs* more than `max_attempts` times;
  answers are bounded so, requests are not: one lost in flight is repeated.
  `ItemLedger` counts those as `lost`.
- `job_manager.py:324`: a crash after the COMPLETED write leaves `worker_id`
  set for good, which `database_validation.py:59` reports as an error.
- `rate_limiter.py:150`: the "exact expiry time" is stored in whole seconds, and
  the reload of the truncated value replaces the exact one in memory: a worker
  may send up to a second early.
- `webapi/account_manager.py:141`: a management operation that outlasts its
  lease of 300 s goes on beside a worker that claims the account then, although
  `src/README.md:220` excludes it. `Sessions` assumes the lease lasts.
- `telegram_service.py:269`: a save that raises in the `finally` clause skips the
  disconnect and the release. In the modelled deployment the account cannot be
  removed while it is leased, so only an error of the database does it.
- `telegram_service.py:152-172`: a worker whose client fails after connecting
  loses the reference to it and never disconnects it.
- `webapi/account_manager.py:356`: a migration does not look at the lease again
  after its await and may replace the session of a run.
- `telegram_service.py:186`: a probe or a login that was under way when the
  account was logged out, or given an imported session, writes its old session
  back when it ends.
- `webapi/account_manager.py:439`: a submit that fails writes the state it read
  before its await: a login cancelled meanwhile is pending again, and one that
  succeeds makes it COMPLETED. `active_login` is tested before the await that
  precedes the creation of the row (371), so one account can have two logins.
- `webapi/account_manager.py:582`: a refresh whose request fails leaves an entry
  that says WAIT_SCAN to nobody; two refreshes at once leave two waiting tasks;
  a refresh during a password request takes a COMPLETED entry back to WAIT_SCAN.
- `webapi/runner.py:154-157`: a resume marks the paused branches RUNNING and is
  then refused because the job still has a task. A parent whose branches are
  partly COMPLETED and partly CANCELLED keeps its old status (208-217), and a
  cancelled parent that has no task is never settled.
- `repositories/account_repository.py:59-68`: `set_default` makes two UPDATEs
  without `transaction()`; when the connection is lost between them the second
  is made alone on the new one and success is reported. The unit `set_default`
  of `MCServices` is in every behaviour of the database's instance, and is why
  `SuccessIsDurable` speaks of units that commit each write (`CommitsAtOnce`) or
  are transactional. `repositories/manager_repository.py:23-34`, which writes
  messages in a loop before one commit, is the same. Likewise `commit()` on
  a connection known to be broken (`database.py:612`) reconnects and has nothing
  to commit. An SQL error outside `transaction()` leaves its unit's earlier
  writes pending on the shared connection.
- `repositories/result_repository.py:84`: the claim of a number checks the job
  lease and not the account lease, so a request can leave after the account
  lease alone has passed to another worker.

## Not modelled, and why

In `Runtime`: errors of the claim, start, finalise and release statements and of
operators' and monitors' calls. An error of `mark_started_if_owned`
(`job_manager.py:201`) leaves both leases to expire, as a crash there does. The
wrapper of a run is the web server's, which writes nothing; the command line's
writes FAILED (above).

In the services: SQLite, where a session is a file and there is no second
process; the status cache, which only saves probes; the expiry of an account
lease during a management operation (above); `executemany` and SQL errors
outside `transaction()`; accounts of other phone numbers, which share nothing
with the one modelled but the default flag; what the management calls ask of
Telegram; the parsing of XLSX, CSV and text files. `normalize_phone` rejects a
line of several complete numbers; a comma and a few digits after a number may
parse as its extension, which `Import` leaves out.

The login throttle reads and then writes its row without an await, so only
several server processes on one database could race there; `WebAuth` has one.
Reports,
exports, formatting, logging, scripts, the user interface
and single-row reads and writes of the manager's data have no protocol to check.

## Plan

Each module is written with CONSTANTS and named assumptions, one action per
handler step, and without RECURSIVE operators.

1. Done: `JobStore`, `Runtime`, `RuntimeSafety`, `ItemLedger`, `EventHub`,
   `RateLimit`, `Sessions`, `QrLogin`, `Branches`, `Database`, `Import`, `WebAuth`.
2. Done: theorems about all of them.
3. Should the models grow: the command line's FAILED write and errors of
   `mark_started_if_owned` in `Runtime`, errors of SQL outside `transaction()` in
   `Database`. Every proof carries its invariant by one lemma per kind of step,
   so a new action needs to be shown to be of a kind, and no more.
