------------------------------ MODULE RateLimit -----------------------------
(***************************************************************************)
(* rate_limiter.py: the cooldown of one Telegram account, kept in the      *)
(* memory of every process that uses the account and in one row of         *)
(* account_runtime_state.  A worker (worker.py) holds the account lease    *)
(* from before its first acquire(); a management operation                 *)
(* (telegram_service.py) acquires first and claims the lease afterwards.   *)
(*                                                                         *)
(* Time moves in ticks, TicksPerSecond to the second.  A cooldown is kept  *)
(* as the ticks that remain of it.  The row stores whole seconds, so what  *)
(* it stores depends on `phase', the current fraction of a second.  NULL   *)
(* and an expired row are both 0, because every reader treats them alike.  *)
(***************************************************************************)
EXTENDS Integers

CONSTANTS
  Runners,          (* processes that run workers of this account's jobs   *)
  Managers,         (* processes that run management operations            *)
  NoHolder,         (* nobody holds the account lease                      *)
  FloodSeconds,     (* FloodWait durations Telegram may ask for            *)
  TicksPerSecond,
  MinInterval,      (* Config.min_request_interval_seconds, in ticks       *)
  MaxFloods         (* bound: FloodWaits in a behaviour                    *)

ASSUME LimiterAssumption ==
  /\ NoHolder \notin Runners \cup Managers
  /\ Runners \cap Managers = {}
  /\ FloodSeconds \subseteq Nat
  /\ TicksPerSecond \in Nat \ {0}
  /\ MinInterval \in Nat
  /\ MaxFloods \in Nat

VARIABLES
  at,         (* where each process is                                     *)
  holder,     (* owner of the account lease                                *)
  memory,     (* RateLimitManager._blocked_until of each process           *)
  pause,      (* ticks until the minimal interval has passed               *)
  stored,     (* account_runtime_state.blocked_until                       *)
  cooldown,   (* history: what remains of the longest wait Telegram asked  *)
  phase,      (* fraction of the current second                            *)
  floods      (* FloodWaits so far                                         *)

limiterVars == <<at, holder, memory, pause, stored, cooldown, phase, floods>>

Users   == Runners \cup Managers
NoBlock == -1              (* _blocked_until is None; 0 is a block just over *)

LimiterTypeOK ==
  /\ at \in [Users -> {"idle", "claim", "loop", "acquire", "wait", "interval",
                       "send", "answer"}]
  /\ holder \in Users \cup {NoHolder}
  /\ memory \in [Users -> {NoBlock} \cup Nat]
  /\ pause \in [Users -> 0 .. MinInterval]
  /\ stored \in Nat /\ cooldown \in Nat
  /\ phase \in 0 .. TicksPerSecond - 1
  /\ floods \in 0 .. MaxFloods

LimiterInit ==
  /\ at = [p \in Users |-> "idle"]
  /\ holder = NoHolder
  /\ memory = [p \in Users |-> NoBlock]
  /\ pause = [p \in Users |-> 0]
  /\ stored = 0 /\ cooldown = 0 /\ phase = 0 /\ floods = 0

-----------------------------------------------------------------------------
(* _reload_from_db: a live row replaces the value in memory, whatever that *)
(* was; without one an expired value is dropped and a live one kept.       *)
ReloadedNot(p) == memory[p]              (* mutant of Reloaded: no reload  *)

Reloaded(p) == IF stored > 0 THEN stored
               ELSE IF memory[p] > 0 THEN memory[p] ELSE NoBlock

(* _persist: the expiry time with timespec="seconds".                      *)
Fraction(ticks) == (phase + ticks) % TicksPerSecond

TruncatedUp(ticks) ==               (* mutant of Truncated: rounds up      *)
  ticks + ((TicksPerSecond - Fraction(ticks)) % TicksPerSecond)

Truncated(ticks) == IF ticks > Fraction(ticks) THEN ticks - Fraction(ticks) ELSE 0

(* A process drops its expired block and clears the row, whoever wrote it. *)
ClearBlock(p) ==
  IF memory[p] = NoBlock THEN UNCHANGED <<memory, stored>>
                         ELSE memory' = [memory EXCEPT ![p] = NoBlock] /\ stored' = 0

Move(p, place) == at' = [at EXCEPT ![p] = place]

(* JobManager.run: a new limiter, initialize(), then the account lease.    *)
NewRun(p) ==
  /\ p \in Runners /\ at[p] = "idle"
  /\ Move(p, "claim")
  /\ memory' = [memory EXCEPT ![p] = IF stored > 0 THEN stored ELSE NoBlock]
  /\ pause' = [pause EXCEPT ![p] = 0]
  /\ UNCHANGED <<holder, stored, cooldown, phase, floods>>

(* A manager's limiter lives as long as its server.                        *)
NewOperation(p) ==
  /\ p \in Managers /\ at[p] = "idle"
  /\ Move(p, "acquire")
  /\ UNCHANGED <<holder, memory, pause, stored, cooldown, phase, floods>>

(* claim_account; a refused claim ends the run or the operation.           *)
ClaimLease(p) ==
  /\ at[p] = "claim"
  /\ \/ /\ holder = NoHolder
        /\ holder' = p
        /\ Move(p, IF p \in Runners THEN "loop" ELSE "send")
     \/ /\ holder # NoHolder
        /\ Move(p, "idle")
        /\ UNCHANGED holder
  /\ UNCHANGED <<memory, pause, stored, cooldown, phase, floods>>

(* The worker loop's is_blocked(): while it is, the loop polls.            *)
IsNotBlocked(p) ==
  /\ at[p] = "loop" /\ memory[p] <= 0
  /\ Move(p, "acquire")
  /\ ClearBlock(p)
  /\ UNCHANGED <<holder, pause, cooldown, phase, floods>>

(* The run is over, paused or cancelled, and gives its lease back.         *)
EndRun(p) ==
  /\ at[p] = "loop"
  /\ Move(p, "idle")
  /\ holder' = NoHolder
  /\ UNCHANGED <<memory, pause, stored, cooldown, phase, floods>>

(* acquire(): reload, sleep while blocked, clear, keep the interval.       *)
StartAcquire(p) ==
  /\ at[p] = "acquire"
  /\ Move(p, "wait")
  /\ memory' = [memory EXCEPT ![p] = Reloaded(p)]
  /\ UNCHANGED <<holder, pause, stored, cooldown, phase, floods>>

WaitedOut(p) ==
  /\ at[p] = "wait" /\ memory[p] <= 0
  /\ Move(p, "interval")
  /\ ClearBlock(p)
  /\ UNCHANGED <<holder, pause, cooldown, phase, floods>>

EndAcquire(p) ==
  /\ at[p] = "interval" /\ pause[p] = 0
  /\ Move(p, IF p \in Runners THEN "send" ELSE "claim")
  /\ UNCHANGED <<holder, memory, pause, stored, cooldown, phase, floods>>

Send(p) ==
  /\ at[p] = "send"
  /\ Move(p, "answer")
  /\ UNCHANGED <<holder, memory, pause, stored, cooldown, phase, floods>>

(* A worker goes on with its lease; an operation ends and releases it.     *)
AfterAnswer(p) ==
  IF p \in Runners THEN Move(p, "loop") /\ UNCHANGED holder
                   ELSE Move(p, "idle") /\ holder' = NoHolder

RegisterSuccess(p) ==
  /\ at[p] = "answer"
  /\ AfterAnswer(p)
  /\ pause' = [pause EXCEPT ![p] = MinInterval]
  /\ UNCHANGED <<memory, stored, cooldown, phase, floods>>

RegisterRateLimit(p, seconds) ==
  /\ at[p] = "answer" /\ floods < MaxFloods
  /\ AfterAnswer(p)
  /\ LET ticks == seconds * TicksPerSecond
     IN  /\ memory' = [memory EXCEPT ![p] = ticks]
         /\ stored' = Truncated(ticks)
         /\ cooldown' = IF ticks > cooldown THEN ticks ELSE cooldown
  /\ floods' = floods + 1
  /\ UNCHANGED <<pause, phase>>

(* The process dies: its memory is gone, its lease runs out.               *)
Die(p) ==
  /\ at[p] # "idle"
  /\ Move(p, "idle")
  /\ holder' = IF holder = p THEN NoHolder ELSE holder
  /\ memory' = [memory EXCEPT ![p] = NoBlock]
  /\ pause' = [pause EXCEPT ![p] = 0]
  /\ UNCHANGED <<stored, cooldown, phase, floods>>

Less(n) == IF n > 0 THEN n - 1 ELSE n

LimiterTick ==
  /\ memory' = [p \in Users |-> Less(memory[p])]
  /\ pause' = [p \in Users |-> Less(pause[p])]
  /\ stored' = Less(stored) /\ cooldown' = Less(cooldown)
  /\ phase' = (phase + 1) % TicksPerSecond
  /\ UNCHANGED <<at, holder, floods>>

LimiterNext ==
  \/ LimiterTick
  \/ \E p \in Users :
       \/ NewRun(p) \/ NewOperation(p) \/ ClaimLease(p) \/ EndRun(p)
       \/ IsNotBlocked(p) \/ StartAcquire(p) \/ WaitedOut(p) \/ EndAcquire(p)
       \/ Send(p) \/ RegisterSuccess(p) \/ Die(p)
       \/ \E s \in FloodSeconds : RegisterRateLimit(p, s)

LimiterSpec == LimiterInit /\ [][LimiterNext]_limiterVars

-----------------------------------------------------------------------------
Sends(p) == at[p] = "send" /\ at'[p] = "answer"

(* A cooldown another process stored binds a worker that never saw the     *)
(* FloodWait itself, whenever it was stored: no request of a worker leaves *)
(* while the row is live, although acquire() reads the row once, sleeps,   *)
(* and sleeps again for the interval (test: cooldown honored without a     *)
(* restart; docstring of _reload_from_db).                                 *)
WorkersHonourStoredCooldown ==
  [][\A p \in Runners : Sends(p) => stored = 0]_limiterVars

(* Nobody waits for longer than Telegram asked: reloads, truncation and    *)
(* overwriting by several processes only ever shorten a cooldown.          *)
CooldownsAreTelegrams ==
  /\ stored <= cooldown
  /\ \A p \in Users : memory[p] <= cooldown

-----------------------------------------------------------------------------
(* register_rate_limit: "Set a global cooldown; no new Telegram requests   *)
(* while active. This is persisted so the cooldown survives a restart."    *)
(* The code: a process that has waited out an older cooldown clears the    *)
(* row, whoever wrote it, and the next run knows nothing of the newer one. *)
CooldownSurvivesRestart ==
  [][\A p \in Runners : Sends(p) => cooldown = 0]_limiterVars
=============================================================================
