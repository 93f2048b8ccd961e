------------------------------ MODULE Database ------------------------------
(***************************************************************************)
(* database.py on PostgreSQL: the one connection of the process, with      *)
(* transaction(), the commits the repositories make and that transaction() *)
(* defers, and reconnection.  A unit is what a request does to the         *)
(* database without an await: an import, a deletion, a repository call.    *)
(* Its program is the sequence of its calls: "begin" and "end" of          *)
(* transaction(), "write" and "read" of execute(), "commit".               *)
(*                                                                         *)
(* A lost connection is noticed by the first statement that fails on it.   *)
(* The server then has rolled back what was not committed.  SQL errors are *)
(* not modelled outside of transaction() (see the README).                 *)
(***************************************************************************)
EXTENDS Integers, Sequences, FiniteSets

CONSTANTS
  Units,
  Program,      (* the calls of each unit                                  *)
  NoUnit,
  MaxLosses     (* bound: connections lost in a behaviour                  *)

ASSUME DatabaseAssumption ==
  /\ NoUnit \notin Units /\ MaxLosses \in Nat
  /\ Program \in [Units -> Seq({"begin", "end", "write", "read", "commit"})]

Calling(u, call, i) == {k \in 1 .. i : Program[u][k] = call}
Nesting(u, i) ==      (* transactions open after the first i calls of u     *)
  Cardinality(Calling(u, "begin", i)) - Cardinality(Calling(u, "end", i))

Transactional(u) == Program[u] # <<>> /\ Program[u][1] = "begin"

(* The outermost transaction() and a commit() outside of one commit.       *)
Flushes(u, i) == Program[u][i] \in {"commit", "end"} /\ Nesting(u, i) = 0

CommitsAtOnce(u) ==   (* every write that no transaction() spans            *)
  \A i \in DOMAIN Program[u] : Program[u][i] = "write" /\ Nesting(u, i) = 0
    => i < Len(Program[u]) /\ Program[u][i + 1] = "commit"

(* transaction() is a context manager, one that a unit starts with spans   *)
(* all that the unit does, and no repository leaves a write uncommitted.   *)
ASSUME ProgramAssumption ==
  \A u \in Units : LET n == Len(Program[u]) IN
    /\ \A i \in 0 .. n : Nesting(u, i) >= 0
    /\ Nesting(u, n) = 0
    /\ \A i \in 1 .. n : Program[u][i] = "write" => \E j \in i + 1 .. n : Flushes(u, j)
    /\ Transactional(u) => \A i \in 1 .. n - 1 : Nesting(u, i) > 0

VARIABLES
  connection,   (* up, lost (nobody knows yet) or broken                   *)
  pending,      (* writes the server has not committed                     *)
  committed,    (* writes it has                                           *)
  depth,        (* Database._transaction_depth                             *)
  unit,         (* the unit that runs                                      *)
  pos,          (* its next call                                           *)
  outcome,      (* what each unit reported                                 *)
  losses

dbVars == <<connection, pending, committed, depth, unit, pos, outcome, losses>>

Writes(u) == {i \in DOMAIN Program[u] : Program[u][i] = "write"} \X {u}

DatabaseInit ==
  /\ connection = "up" /\ pending = {} /\ committed = {}
  /\ depth = 0 /\ unit = NoUnit /\ pos = 1 /\ losses = 0
  /\ outcome = [u \in Units |-> "none"]

StartUnit(u) ==
  /\ unit = NoUnit /\ outcome[u] = "none"
  /\ unit' = u /\ pos' = 1
  /\ UNCHANGED <<connection, pending, committed, depth, outcome, losses>>

(* The server or the network fails between two calls.                      *)
Lose ==
  /\ connection = "up" /\ losses < MaxLosses
  /\ connection' = "lost" /\ pending' = {} /\ losses' = losses + 1
  /\ UNCHANGED <<committed, depth, unit, pos, outcome>>

Calls(call) == unit # NoUnit /\ pos <= Len(Program[unit]) /\ Program[unit][pos] = call
Return     == pos' = pos + 1 /\ UNCHANGED <<unit, outcome>>

(* An exception leaves the unit.  The outermost transaction() on its way   *)
(* rolls back, which fails in turn on a connection that is gone.           *)
RaisedWithoutRollback ==     (* mutant of Raised: no rollback               *)
  /\ outcome' = [outcome EXCEPT ![unit] = "failed"]
  /\ unit' = NoUnit /\ pos' = 1 /\ depth' = 0
  /\ connection' = connection /\ pending' = pending

Raised ==
  /\ outcome' = [outcome EXCEPT ![unit] = "failed"]
  /\ unit' = NoUnit /\ pos' = 1 /\ depth' = 0
  /\ connection' = IF connection = "up" THEN "up" ELSE "broken"
  /\ pending' = IF depth > 0 THEN {} ELSE pending

(* Inside transaction() a call needs the connection it has; outside of it  *)
(* a new one is made, or is refused.                                       *)
UsableAlways == TRUE         (* mutant of Usable: reconnects everywhere     *)

Usable == connection = "up" \/ depth = 0

Execute ==
  /\ unit # NoUnit /\ Usable
  /\ \E call \in {"write", "read"} :
       /\ Calls(call)
       /\ pending' = pending \cup IF call = "write" THEN {<<pos, unit>>} ELSE {}
  /\ connection' = "up"
  /\ Return
  /\ UNCHANGED <<committed, depth, losses>>

ExecuteRaises ==
  /\ Calls("write") \/ Calls("read")
  /\ connection # "up"
  /\ Raised
  /\ UNCHANGED <<committed, losses>>

(* Anything else a unit's code raises: a missing account, a bad request.   *)
BodyRaises ==
  /\ unit # NoUnit /\ depth > 0
  /\ Raised
  /\ UNCHANGED <<committed, losses>>

BeginUnit ==
  /\ Calls("begin") /\ depth' = depth + 1 /\ Return
  /\ UNCHANGED <<connection, pending, committed, losses>>

DeferredNever == FALSE       (* mutant of Deferred: repositories commit     *)

Deferred == depth > 0

(* commit(): a connection known to be broken is replaced first, and there  *)
(* is nothing to commit on the new one.                                    *)
CommitUnit ==
  /\ Calls("commit")
  /\ IF Deferred THEN UNCHANGED <<connection, pending, committed>>
     ELSE /\ connection # "lost" /\ connection' = "up"
          /\ committed' = committed \cup pending /\ pending' = {}
  /\ Return /\ UNCHANGED <<depth, losses>>

EndUnit ==
  /\ Calls("end") /\ depth' = depth - 1
  /\ IF depth > 1 THEN UNCHANGED <<connection, pending, committed>>
     ELSE /\ connection = "up" /\ UNCHANGED connection
          /\ committed' = committed \cup pending /\ pending' = {}
  /\ Return /\ UNCHANGED losses

(* The connection fails during a commit, which the server may have made.   *)
CommitRaises ==
  /\ (Calls("commit") /\ ~Deferred /\ connection # "broken") \/ (Calls("end") /\ depth = 1)
  /\ connection = "up" => losses < MaxLosses
  /\ losses' = IF connection = "up" THEN losses + 1 ELSE losses
  /\ committed' \in {committed, committed \cup pending}
  /\ pending' = {}
  /\ connection' \in IF Calls("commit") THEN {"up", "broken"} ELSE {"broken"}
  /\ outcome' = [outcome EXCEPT ![unit] = "failed"]
  /\ unit' = NoUnit /\ pos' = 1 /\ depth' = 0

FinishUnit ==
  /\ unit # NoUnit /\ pos > Len(Program[unit])
  /\ outcome' = [outcome EXCEPT ![unit] = "ok"]
  /\ unit' = NoUnit /\ pos' = 1
  /\ UNCHANGED <<connection, pending, committed, depth, losses>>

(* The process dies with its connection and is started again.              *)
Restart ==
  /\ losses < MaxLosses /\ losses' = losses + 1
  /\ connection' = "up" /\ pending' = {} /\ depth' = 0 /\ unit' = NoUnit /\ pos' = 1
  /\ outcome' = [u \in Units |-> IF u = unit THEN "failed" ELSE outcome[u]]
  /\ UNCHANGED committed

DatabaseNext ==
  \/ \E u \in Units : StartUnit(u)
  \/ Lose \/ Execute \/ ExecuteRaises \/ BodyRaises
  \/ BeginUnit \/ CommitUnit \/ EndUnit
  \/ CommitRaises \/ FinishUnit \/ Restart

DatabaseSpec == DatabaseInit /\ [][DatabaseNext]_dbVars

-----------------------------------------------------------------------------
(* webapi/routers/jobs.py:197 "Parent + every branch + every item must     *)
(* either all exist or none exist", also with the transactions and commits *)
(* nested in it, after exceptions, lost connections and restarts at every  *)
(* point, and whatever runs afterwards on the same connection.             *)
AllOrNothing ==
  \A u \in Units : Transactional(u) => committed \cap Writes(u) \in {{}, Writes(u)}

(* A unit that reported success has all its writes committed, if it does   *)
(* not write twice before a commit: a connection lost between the two is   *)
(* replaced by execute(), and the first is gone                            *)
(* (AccountRepository.set_default, repositories/account_repository.py:63). *)
SuccessIsDurable ==
  \A u \in Units : CommitsAtOnce(u) /\ outcome[u] = "ok" => Writes(u) \subseteq committed

(* No write of a unit that is over waits to be committed by the next one.  *)
NoStrayWrites == unit = NoUnit => pending = {}
=============================================================================
