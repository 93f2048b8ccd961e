---------------------------- MODULE StorageProof ----------------------------
(***************************************************************************)
(* Proofs about modules Database and WebAuth, for all programs of units,   *)
(* all limits and all numbers of lost connections, logins and guesses.     *)
(*                                                                         *)
(* Database: what the server has is a matter of where the unit stands in   *)
(* its program (Position), of what is pending since the last flush         *)
(* (PendingOK) and of what a lost connection took (Kept).                  *)
(***************************************************************************)
EXTENDS Database, WebAuth, FiniteSetTheorems, TLAPS

-----------------------------------------------------------------------------
(* Programs.                                                               *)

LEMMA ProgramSeq ==
  ASSUME NEW u \in Units
  PROVE  /\ Len(Program[u]) \in Nat
         /\ DOMAIN Program[u] = 1 .. Len(Program[u])
         /\ \A i \in 1 .. Len(Program[u]) :
              Program[u][i] \in {"begin", "end", "write", "read", "commit"}
BY DatabaseAssumption

LEMMA CallingStep ==
  ASSUME NEW u, NEW call, NEW i \in Nat
  PROVE  /\ Cardinality(Calling(u, call, i)) \in Nat
         /\ i > 0 /\ Program[u][i] = call =>
              Cardinality(Calling(u, call, i)) = Cardinality(Calling(u, call, i - 1)) + 1
         /\ i > 0 /\ Program[u][i] # call =>
              Calling(u, call, i) = Calling(u, call, i - 1)
<1>1. ASSUME NEW k \in Int
      PROVE  IsFiniteSet(Calling(u, call, k)) /\ Cardinality(Calling(u, call, k)) \in Nat
  <2>1. IsFiniteSet(1 .. k)
    BY <1>1, FS_Interval
  <2>2. Calling(u, call, k) \subseteq 1 .. k
    BY DEF Calling
  <2> QED BY <2>1, <2>2, FS_Subset, FS_CardinalityType
<1>2. ASSUME i > 0, Program[u][i] = call
      PROVE  Cardinality(Calling(u, call, i)) = Cardinality(Calling(u, call, i - 1)) + 1
  <2>1. Calling(u, call, i) = Calling(u, call, i - 1) \cup {i}
    BY <1>2 DEF Calling
  <2>2. i \notin Calling(u, call, i - 1)
    BY DEF Calling
  <2>3. IsFiniteSet(Calling(u, call, i - 1))
    BY <1>1
  <2> QED BY <2>1, <2>2, <2>3, FS_AddElement
<1>3. ASSUME i > 0, Program[u][i] # call
      PROVE  Calling(u, call, i) = Calling(u, call, i - 1)
  BY <1>3 DEF Calling
<1> QED BY <1>1, <1>2, <1>3

(* begin opens a transaction, end closes one, and nothing else does.       *)
LEMMA NestingStep ==
  ASSUME NEW u, NEW i \in Nat
  PROVE  /\ Nesting(u, i) \in Int
         /\ Nesting(u, 0) = 0
         /\ i > 0 /\ Program[u][i] = "begin" => Nesting(u, i) = Nesting(u, i - 1) + 1
         /\ i > 0 /\ Program[u][i] = "end" => Nesting(u, i) = Nesting(u, i - 1) - 1
         /\ i > 0 /\ Program[u][i] \notin {"begin", "end"} => Nesting(u, i) = Nesting(u, i - 1)
<1>1. Nesting(u, 0) = 0
  <2>1. Calling(u, "begin", 0) = {} /\ Calling(u, "end", 0) = {}
    BY DEF Calling
  <2>2. Cardinality({}) = 0
    BY FS_EmptySet
  <2> QED BY <2>1, <2>2 DEF Nesting
<1>2. Nesting(u, i) \in Int
  BY CallingStep DEF Nesting
<1>3. ASSUME i > 0
      PROVE  /\ Cardinality(Calling(u, "begin", i - 1)) \in Nat
             /\ Cardinality(Calling(u, "end", i - 1)) \in Nat
  <2>1. i - 1 \in Nat
    BY <1>3
  <2> QED BY <2>1, CallingStep
<1>4. ASSUME i > 0, Program[u][i] = "begin" PROVE Nesting(u, i) = Nesting(u, i - 1) + 1
  <2>1. Cardinality(Calling(u, "begin", i)) = Cardinality(Calling(u, "begin", i - 1)) + 1
    BY <1>4, CallingStep
  <2>2. Calling(u, "end", i) = Calling(u, "end", i - 1)
    BY <1>4, CallingStep
  <2> QED BY <2>1, <2>2, <1>3, <1>4 DEF Nesting
<1>5. ASSUME i > 0, Program[u][i] = "end" PROVE Nesting(u, i) = Nesting(u, i - 1) - 1
  <2>1. Cardinality(Calling(u, "end", i)) = Cardinality(Calling(u, "end", i - 1)) + 1
    BY <1>5, CallingStep
  <2>2. Calling(u, "begin", i) = Calling(u, "begin", i - 1)
    BY <1>5, CallingStep
  <2> QED BY <2>1, <2>2, <1>3, <1>5 DEF Nesting
<1>6. ASSUME i > 0, Program[u][i] \notin {"begin", "end"}
      PROVE  Nesting(u, i) = Nesting(u, i - 1)
  <2>1. Calling(u, "begin", i) = Calling(u, "begin", i - 1)
    BY <1>6, CallingStep
  <2>2. Calling(u, "end", i) = Calling(u, "end", i - 1)
    BY <1>6, CallingStep
  <2> QED BY <2>1, <2>2 DEF Nesting
<1> QED BY <1>1, <1>2, <1>4, <1>5, <1>6

(* A transaction that spans the unit ends with the unit, and no earlier.   *)
LEMMA SpansAll ==
  ASSUME NEW u \in Units, Transactional(u)
  PROVE  /\ Len(Program[u]) > 1
         /\ \A i \in 1 .. Len(Program[u]) - 1 : Nesting(u, i) > 0
         /\ Program[u][Len(Program[u])] = "end"
         /\ CommitsAtOnce(u)
<1> DEFINE n == Len(Program[u])
<1>1. n \in Nat /\ n > 0 /\ Program[u][1] = "begin" /\ DOMAIN Program[u] = 1 .. n
  BY ProgramSeq, DatabaseAssumption DEF Transactional
<1>2. Nesting(u, 1) = 1
  BY <1>1, NestingStep
<1>3. Nesting(u, n) = 0 /\ \A i \in 1 .. n - 1 : Nesting(u, i) > 0
  BY ProgramAssumption
<1>4. n > 1
  BY <1>1, <1>2, <1>3
<1>5. n - 1 \in 1 .. n - 1 /\ Nesting(u, n - 1) > 0
  BY <1>1, <1>3, <1>4
<1>6. Program[u][n] = "end"
  <2>1. Nesting(u, n - 1) \in Int
    BY <1>1, <1>4, NestingStep
  <2> QED BY <1>1, <1>3, <1>5, <2>1, NestingStep
<1>7. CommitsAtOnce(u)
  <2>1. ASSUME NEW i \in 1 .. n, Program[u][i] = "write" PROVE Nesting(u, i) > 0
    BY <1>1, <1>3, <1>6, <2>1
  <2> QED BY <1>1, <2>1 DEF CommitsAtOnce
<1> QED BY <1>3, <1>4, <1>6, <1>7

-----------------------------------------------------------------------------
(* The inductive invariant of Database.                                    *)

WrittenBy(u, n) == {w \in Writes(u) : w[1] < n}
AllWrites == UNION {Writes(u) : u \in Units}

DbTypes ==
  /\ connection \in {"up", "lost", "broken"}
  /\ pending \subseteq AllWrites /\ committed \subseteq AllWrites
  /\ outcome \in [Units -> {"none", "ok", "failed"}]
  /\ unit \in Units \cup {NoUnit}
  /\ pos \in Nat \ {0} /\ depth \in Nat

(* A unit's depth is the nesting of its program up to its position.        *)
Position ==
  /\ unit = NoUnit => depth = 0 /\ pos = 1 /\ pending = {}
  /\ unit # NoUnit => /\ outcome[unit] = "none"
                      /\ pos <= Len(Program[unit]) + 1
                      /\ depth = Nesting(unit, pos - 1)

(* What is pending was written by the unit that runs, after its last flush.*)
PendingOK ==
  /\ connection # "up" => pending = {}
  /\ \A w \in pending : /\ w \in WrittenBy(unit, pos)
                        /\ \A i \in w[1] + 1 .. pos - 1 : ~Flushes(unit, i)
  /\ unit # NoUnit /\ CommitsAtOnce(unit) /\ depth = 0 => pending \subseteq {<<pos - 1, unit>>}

(* What a unit wrote is lost only while it has the next call notice.       *)
Kept ==
  unit # NoUnit /\ CommitsAtOnce(unit) =>
    \A w \in WrittenBy(unit, pos) :
      \/ w \in committed \cup pending
      \/ depth > 0 /\ connection # "up"
      \/ depth = 0 /\ connection = "lost" /\ w = <<pos - 1, unit>>

Untouched == \A u \in Units : outcome[u] = "none" /\ u # unit => committed \cap Writes(u) = {}

Atomic ==
  unit # NoUnit /\ Transactional(unit) =>
    IF pos <= Len(Program[unit]) THEN committed \cap Writes(unit) = {}
                                 ELSE Writes(unit) \subseteq committed

DbInv ==
  /\ DbTypes /\ Position /\ PendingOK /\ Kept /\ Untouched /\ Atomic
  /\ AllOrNothing /\ SuccessIsDurable

-----------------------------------------------------------------------------
(* Writes.                                                                 *)

LEMMA WritesOfUnits ==
  ASSUME NEW u \in Units
  PROVE  /\ Writes(u) \subseteq AllWrites
         /\ \A v : u # v => Writes(u) \cap Writes(v) = {}
         /\ \A w \in Writes(u) : /\ w = <<w[1], u>> /\ w[1] \in 1 .. Len(Program[u])
                                 /\ Program[u][w[1]] = "write"
         /\ \A i \in 1 .. Len(Program[u]) : Program[u][i] = "write" => <<i, u>> \in Writes(u)
<1>1. DOMAIN Program[u] = 1 .. Len(Program[u])
  BY ProgramSeq
<1> QED BY <1>1 DEF Writes, AllWrites

LEMMA WrittenStep ==
  ASSUME NEW u \in Units, NEW i \in 1 .. Len(Program[u])
  PROVE  /\ Program[u][i] = "write" => WrittenBy(u, i + 1) = WrittenBy(u, i) \cup {<<i, u>>}
         /\ Program[u][i] # "write" => WrittenBy(u, i + 1) = WrittenBy(u, i)
<1>1. Len(Program[u]) \in Nat
  BY ProgramSeq
<1>2. \A w \in Writes(u) : w[1] < i + 1 <=> w[1] < i \/ w = <<i, u>>
  BY <1>1, WritesOfUnits
<1>3. <<i, u>> \in Writes(u) <=> Program[u][i] = "write"
  BY <1>1, WritesOfUnits, ProgramSeq DEF Writes
<1>4. CASE Program[u][i] = "write"
  BY <1>2, <1>3, <1>4 DEF WrittenBy
<1>5. CASE Program[u][i] # "write"
  BY <1>2, <1>3, <1>5 DEF WrittenBy
<1> QED BY <1>4, <1>5

LEMMA NothingWritten == ASSUME NEW u \in Units PROVE WrittenBy(u, 1) = {}
<1>1. \A w \in Writes(u) : ~(w[1] < 1)
  BY WritesOfUnits, ProgramSeq
<1> QED BY <1>1 DEF WrittenBy

LEMMA AllWritten == ASSUME NEW u \in Units PROVE WrittenBy(u, Len(Program[u]) + 1) = Writes(u)
<1>1. \A w \in Writes(u) : w[1] < Len(Program[u]) + 1
  BY WritesOfUnits, ProgramSeq
<1> QED BY <1>1 DEF WrittenBy

LEMMA DatabaseStarts == DatabaseInit => DbInv
<1> SUFFICES ASSUME DatabaseInit PROVE DbInv
  OBVIOUS
<1> USE DEF DatabaseInit
<1>1. DbTypes
  BY DEF DbTypes
<1>2. Position /\ PendingOK /\ Kept /\ Untouched /\ Atomic
  BY DatabaseAssumption DEF Position, PendingOK, Kept, Untouched, Atomic
<1>3. AllOrNothing /\ SuccessIsDurable
  BY DEF AllOrNothing, SuccessIsDurable
<1> QED BY <1>1, <1>2, <1>3 DEF DbInv

-----------------------------------------------------------------------------
(* Steps between units.                                                    *)

LEMMA Starting ==
  ASSUME DbInv, NEW u \in Units, StartUnit(u) PROVE DbInv'
<1> USE DEF StartUnit, DbInv
<1>1. u # NoUnit /\ pos' = 1 /\ unit' = u /\ unit = NoUnit /\ pending = {} /\ depth = 0
  BY DatabaseAssumption DEF Position
<1>2. WrittenBy(u, 1) = {} /\ Nesting(u, 0) = 0 /\ Len(Program[u]) \in Nat
  BY NothingWritten, NestingStep, ProgramSeq
<1>3. DbTypes'
  BY DEF DbTypes
<1>4. Position'
  BY <1>1, <1>2 DEF Position
<1>5. PendingOK'
  BY <1>1 DEF PendingOK
<1>6. Kept'
  BY <1>1, <1>2 DEF Kept
<1>7. committed \cap Writes(u) = {}
  BY <1>1 DEF Untouched
<1>8. Untouched'
  <2>1. \A v \in Units : v # unit
    BY <1>1, DatabaseAssumption
  <2> QED BY <2>1 DEF Untouched
<1>9. Atomic'
  <2>1. Transactional(u) => 1 <= Len(Program[u])
    BY SpansAll, <1>2
  <2> QED BY <1>1, <1>7, <2>1 DEF Atomic
<1>10. AllOrNothing' /\ SuccessIsDurable'
  BY DEF AllOrNothing, SuccessIsDurable
<1> QED BY <1>3, <1>4, <1>5, <1>6, <1>8, <1>9, <1>10

LEMMA Losing ==
  ASSUME DbInv, Lose PROVE DbInv'
<1> USE DEF Lose, DbInv
<1>1. DbTypes'
  BY DEF DbTypes
<1>2. Position'
  BY DEF Position
<1>3. PendingOK'
  BY DEF PendingOK
<1>4. Kept'
  <2> SUFFICES ASSUME unit # NoUnit, CommitsAtOnce(unit), NEW w \in WrittenBy(unit, pos)
               PROVE  \/ w \in committed
                      \/ depth > 0
                      \/ depth = 0 /\ w = <<pos - 1, unit>>
    BY DEF Kept
  <2>1. w \in committed \cup pending
    BY DEF Kept
  <2>2. w \in pending /\ depth = 0 => w = <<pos - 1, unit>>
    BY DEF PendingOK
  <2> QED BY <2>1, <2>2 DEF DbTypes
<1>5. Untouched'
  BY DEF Untouched
<1>6. Atomic'
  BY DEF Atomic
<1>7. AllOrNothing' /\ SuccessIsDurable'
  BY DEF AllOrNothing, SuccessIsDurable
<1> QED BY <1>1, <1>2, <1>3, <1>4, <1>5, <1>6, <1>7

(* What is pending is of the unit that runs: other units keep what they    *)
(* have when it is committed.                                              *)
LEMMA PendingIsOwn ==
  ASSUME DbInv, unit # NoUnit
  PROVE  /\ unit \in Units /\ pending \subseteq Writes(unit)
         /\ \A u \in Units : u # unit => (committed \cup pending) \cap Writes(u)
                                           = committed \cap Writes(u)
<1>1. unit \in Units
  BY DEF DbInv, DbTypes
<1>2. pending \subseteq Writes(unit)
  BY DEF DbInv, PendingOK, WrittenBy
<1>3. ASSUME NEW u \in Units, u # unit PROVE pending \cap Writes(u) = {}
  BY <1>1, <1>2, <1>3, WritesOfUnits
<1> QED BY <1>1, <1>2, <1>3

(* How a unit comes to its end, in success or not.                         *)
LEMMA Ending ==
  ASSUME DbInv, unit # NoUnit, NEW end \in {"ok", "failed"},
         unit' = NoUnit, pos' = 1, depth' = 0, pending' = {},
         connection' \in {"up", "lost", "broken"},
         committed' \in {committed, committed \cup pending},
         outcome' = [outcome EXCEPT ![unit] = end],
         Transactional(unit) => committed' \cap Writes(unit) \in {{}, Writes(unit)},
         CommitsAtOnce(unit) /\ end = "ok" => Writes(unit) \subseteq committed'
  PROVE  DbInv'
<1> USE DEF DbInv
<1>1. /\ unit \in Units /\ pending \subseteq Writes(unit)
      /\ \A u \in Units : u # unit => committed' \cap Writes(u) = committed \cap Writes(u)
  BY PendingIsOwn
<1>2. DbTypes'
  BY DEF DbTypes
<1>3. outcome'[unit] = end /\ \A u \in Units : u # unit => outcome'[u] = outcome[u]
  BY <1>1 DEF DbTypes
<1>4. Position' /\ PendingOK' /\ Kept' /\ Atomic'
  BY DEF Position, PendingOK, Kept, Atomic
<1>5. Untouched'
  BY <1>1, <1>3 DEF Untouched
<1>6. AllOrNothing'
  BY <1>1 DEF AllOrNothing
<1>7. SuccessIsDurable'
  <2> SUFFICES ASSUME NEW u \in Units, CommitsAtOnce(u), outcome'[u] = "ok"
               PROVE  Writes(u) \subseteq committed'
    BY DEF SuccessIsDurable
  <2>1. CASE u = unit
    BY <2>1, <1>3
  <2>2. CASE u # unit
    BY <2>2, <1>3 DEF SuccessIsDurable
  <2> QED BY <2>1, <2>2
<1> QED BY <1>2, <1>4, <1>5, <1>6, <1>7

(* A unit in a transaction of its own has committed nothing before its end.*)
LEMMA NothingYet ==
  ASSUME DbInv, unit # NoUnit, Transactional(unit), pos <= Len(Program[unit])
  PROVE  committed \cap Writes(unit) = {}
BY DEF DbInv, Atomic

LEMMA NotYetOver ==
  ASSUME DbInv, unit # NoUnit, NEW call, Calls(call)
  PROVE  pos <= Len(Program[unit]) /\ pos \in 1 .. Len(Program[unit]) /\ Program[unit][pos] = call
BY ProgramSeq DEF DbInv, DbTypes, Calls

LEMMA Raising ==
  ASSUME DbInv, unit # NoUnit, pos <= Len(Program[unit]) \/ depth > 0, Raised,
         depth > 0 \/ connection # "up", committed' = committed
  PROVE  DbInv'
<1>1. unit \in Units /\ Len(Program[unit]) \in Nat
  BY ProgramSeq DEF DbInv, DbTypes
<1>2. pending' = {}
  BY DEF Raised, DbInv, PendingOK
<1>3. pos <= Len(Program[unit])
  <2>1. pos = Len(Program[unit]) + 1 => depth = 0
    BY <1>1, ProgramAssumption DEF DbInv, Position
  <2> QED BY <1>1, <2>1 DEF DbInv, DbTypes, Position
<1>4. Transactional(unit) => committed' \cap Writes(unit) = {}
  BY <1>3, NothingYet
<1> QED BY <1>2, <1>4, Ending DEF Raised

LEMMA ExecuteRaising == ASSUME DbInv, ExecuteRaises PROVE DbInv'
BY NotYetOver, Raising DEF ExecuteRaises, Calls

LEMMA BodyRaising == ASSUME DbInv, BodyRaises PROVE DbInv'
BY Raising DEF BodyRaises

-----------------------------------------------------------------------------
(* Steps within a unit: a flush, or a call that flushes nothing.           *)

(* The nesting after the next call, which is the depth the step leaves.    *)
LEMMA NextNesting ==
  ASSUME DbInv, unit # NoUnit, NEW call, Calls(call)
  PROVE  /\ depth = Nesting(unit, pos - 1)
         /\ call = "begin" => Nesting(unit, pos) = depth + 1
         /\ call = "end" => Nesting(unit, pos) = depth - 1 /\ depth > 0
         /\ call \notin {"begin", "end"} => Nesting(unit, pos) = depth
<1>1. unit \in Units /\ pos \in 1 .. Len(Program[unit]) /\ Program[unit][pos] = call
  BY NotYetOver DEF DbInv, DbTypes
<1>2. pos \in Nat /\ pos > 0 /\ depth \in Nat /\ depth = Nesting(unit, pos - 1)
  BY DEF DbInv, DbTypes, Position
<1>3. Nesting(unit, pos) >= 0 /\ Nesting(unit, pos) \in Int
  BY <1>1, <1>2, ProgramAssumption, ProgramSeq, NestingStep
<1>4. call = "end" => Nesting(unit, pos) = depth - 1
  BY <1>1, <1>2, NestingStep
<1> QED BY <1>1, <1>2, <1>3, <1>4, NestingStep

LEMMA FlushingStep ==
  ASSUME DbInv, unit # NoUnit, NEW call \in {"commit", "end"}, Calls(call),
         Nesting(unit, pos) = 0, depth' = 0, Return,
         connection # "lost", call = "end" => connection = "up", connection' = "up",
         committed' = committed \cup pending, pending' = {}
  PROVE  DbInv'
<1> USE DEF Return
<1>1. /\ unit \in Units /\ pos \in 1 .. Len(Program[unit]) /\ Program[unit][pos] = call
      /\ Len(Program[unit]) \in Nat
  BY NotYetOver, ProgramSeq DEF DbInv, DbTypes
<1>2. /\ pending \subseteq Writes(unit)
      /\ \A u \in Units : u # unit => committed' \cap Writes(u) = committed \cap Writes(u)
  BY PendingIsOwn
<1>3. DbTypes'
  BY <1>1 DEF DbInv, DbTypes
<1>4. Position'
  BY <1>1 DEF DbInv, Position
<1>5. PendingOK'
  BY DEF PendingOK
<1>6. WrittenBy(unit, pos + 1) = WrittenBy(unit, pos)
  <2>1. Program[unit][pos] # "write"
    BY <1>1
  <2> QED BY <1>1, <2>1, WrittenStep
<1>7. CommitsAtOnce(unit) => WrittenBy(unit, pos) \subseteq committed'
  <2> SUFFICES ASSUME CommitsAtOnce(unit), NEW w \in WrittenBy(unit, pos)
               PROVE  w \in committed \cup pending
    OBVIOUS
  <2>1. call = "commit" => depth = 0
    BY NextNesting
  <2> QED BY <2>1 DEF DbInv, Kept
<1>8. Kept'
  BY <1>6, <1>7 DEF Kept
<1>9. Untouched'
  BY <1>2 DEF DbInv, Untouched
<1>10. Transactional(unit) => pos = Len(Program[unit]) /\ Writes(unit) \subseteq committed'
  <2> SUFFICES ASSUME Transactional(unit)
               PROVE  pos = Len(Program[unit]) /\ Writes(unit) \subseteq committed'
    OBVIOUS
  <2>1. pos = Len(Program[unit])
    BY <1>1, SpansAll
  <2>2. CommitsAtOnce(unit)
    BY <1>1, SpansAll
  <2> QED BY <1>1, <1>6, <1>7, <2>1, <2>2, AllWritten
<1>11. Atomic'
  BY <1>1, <1>10 DEF Atomic
<1>12. AllOrNothing'
  BY <1>2, <1>10 DEF DbInv, AllOrNothing
<1>13. SuccessIsDurable'
  BY DEF DbInv, SuccessIsDurable
<1> QED BY <1>3, <1>4, <1>5, <1>8, <1>9, <1>11, <1>12, <1>13 DEF DbInv

LEMMA PlainStep ==
  ASSUME DbInv, unit # NoUnit, NEW call, Calls(call), ~Flushes(unit, pos),
         depth' = Nesting(unit, pos), Return, committed' = committed,
         pending' = pending \cup (IF call = "write" THEN {<<pos, unit>>} ELSE {}),
         \/ connection' = connection /\ call \in {"begin", "end", "commit"}
         \/ connection' = "up" /\ (connection = "up" \/ depth = 0) /\ call \in {"write", "read"}
  PROVE  DbInv'
<1> USE DEF Return
<1>1. /\ unit \in Units /\ pos \in 1 .. Len(Program[unit]) /\ Program[unit][pos] = call
      /\ Len(Program[unit]) \in Nat
  BY NotYetOver, ProgramSeq DEF DbInv, DbTypes
<1>2. pending \subseteq WrittenBy(unit, pos)
  BY DEF DbInv, PendingOK
<1>3. call = "write" => <<pos, unit>> \in Writes(unit)
  BY <1>1, WritesOfUnits
<1>4. WrittenBy(unit, pos + 1)
        = WrittenBy(unit, pos) \cup (IF call = "write" THEN {<<pos, unit>>} ELSE {})
  BY <1>1, WrittenStep
<1>5. depth' \in Nat
  BY <1>1, ProgramAssumption, NestingStep
<1>6. DbTypes'
  BY <1>1, <1>3, <1>5, WritesOfUnits DEF DbInv, DbTypes
<1>7. Position'
  BY <1>1 DEF DbInv, Position
(* Outside of a transaction a write is committed before the next call.     *)
<1>8. ASSUME CommitsAtOnce(unit), depth = 0 PROVE <<pos - 1, unit>> \notin Writes(unit)
  <2> SUFFICES ASSUME <<pos - 1, unit>> \in Writes(unit) PROVE FALSE
    OBVIOUS
  <2>1. pos - 1 \in 1 .. Len(Program[unit]) /\ Program[unit][pos - 1] = "write"
    BY <1>1, WritesOfUnits
  <2>2. Nesting(unit, pos - 1) = 0
    BY <1>8, NextNesting
  <2>3. Program[unit][pos] = "commit"
    BY <1>1, <1>8, <2>1, <2>2 DEF CommitsAtOnce
  <2>4. Nesting(unit, pos) = 0
    BY <1>1, <1>8, <2>3, NextNesting
  <2> QED BY <2>3, <2>4 DEF Flushes
<1>9. CommitsAtOnce(unit) /\ depth = 0 => pending = {} /\ WrittenBy(unit, pos) \subseteq committed
  <2> SUFFICES ASSUME CommitsAtOnce(unit), depth = 0
               PROVE  pending = {} /\ WrittenBy(unit, pos) \subseteq committed
    OBVIOUS
  <2>1. \A w \in WrittenBy(unit, pos) : w # <<pos - 1, unit>>
    BY <1>8 DEF WrittenBy
  <2>2. pending = {}
    BY <1>2, <2>1 DEF DbInv, PendingOK
  <2>3. ASSUME NEW w \in WrittenBy(unit, pos) PROVE w \in committed
    BY <2>1, <2>2 DEF DbInv, Kept
  <2> QED BY <2>2, <2>3
<1>10. depth' = 0 => depth = 0
  <2>1. depth' = 0 => call # "end"
    BY <1>1 DEF Flushes
  <2>2. depth \in Nat
    BY DEF DbInv, DbTypes
  <2> QED BY <2>1, <2>2, NextNesting
<1>11. PendingOK'
  <2>1. connection' # "up" => pending' = {}
    <3>1. CASE connection' = "up"
      BY <3>1
    <3>2. CASE connection' = connection /\ call \in {"begin", "end", "commit"}
      <4>1. pending' = pending
        BY <3>2
      <4> QED BY <3>2, <4>1 DEF DbInv, PendingOK
    <3> QED BY <3>1, <3>2
  <2>2. \A w \in pending' : w \in WrittenBy(unit, pos + 1)
    <3>1. CASE call = "write"
      BY <1>2, <1>4, <3>1
    <3>2. CASE call # "write"
      BY <1>2, <1>4, <3>2
    <3> QED BY <3>1, <3>2
  <2>3. \A w \in pending' : \A i \in w[1] + 1 .. pos : ~Flushes(unit, i)
    <3> SUFFICES ASSUME NEW w \in pending', NEW i \in w[1] + 1 .. pos PROVE ~Flushes(unit, i)
      OBVIOUS
    <3>0. w \in pending \/ w = <<pos, unit>>
      BY <1>2
    <3>1. CASE i = pos
      BY <3>1
    <3>2. CASE w \in pending /\ i # pos
      <4>1. w[1] \in Int
        BY <1>1, <1>2, <3>2, WritesOfUnits DEF WrittenBy
      <4>2. i \in w[1] + 1 .. pos - 1
        BY <1>1, <3>2, <4>1
      <4> QED BY <3>2, <4>2 DEF DbInv, PendingOK
    <3>3. CASE w = <<pos, unit>> /\ i # pos
      BY <1>1, <3>3
    <3> QED BY <3>0, <3>1, <3>2, <3>3
  <2>4. CommitsAtOnce(unit) /\ depth' = 0 => pending' \subseteq {<<pos, unit>>}
    BY <1>9, <1>10
  <2>5. pos' - 1 = pos /\ unit' = unit
    BY <1>1
  <2> QED BY <2>1, <2>2, <2>3, <2>4, <2>5 DEF PendingOK
<1>12. Kept'
  <2> SUFFICES ASSUME CommitsAtOnce(unit), NEW w \in WrittenBy(unit, pos + 1)
               PROVE  \/ w \in committed \cup pending'
                      \/ depth' > 0 /\ connection' # "up"
    BY DEF Kept
  <2>1. CASE w \notin WrittenBy(unit, pos)
    BY <1>4, <2>1
  <2>2. CASE w \in WrittenBy(unit, pos) /\ depth = 0
    BY <1>9, <2>2
  <2>3. CASE w \in WrittenBy(unit, pos) /\ depth # 0
    <3>1. depth \in Nat /\ depth > 0 /\ depth' > 0
      BY <1>5, <1>10, <2>3 DEF DbInv, DbTypes
    <3>2. w \in committed \cup pending \/ connection # "up"
      BY <2>3 DEF DbInv, Kept
    <3> QED BY <2>3, <3>1, <3>2
  <2> QED BY <2>1, <2>2, <2>3
<1>13. Untouched'
  BY DEF DbInv, Untouched
<1>14. Transactional(unit) => pos # Len(Program[unit])
  <2>1. Transactional(unit) /\ pos = Len(Program[unit]) => call = "end"
    BY <1>1, SpansAll
  <2>2. pos = Len(Program[unit]) => Nesting(unit, pos) = 0
    BY <1>1, ProgramAssumption
  <2> QED BY <1>1, <2>1, <2>2 DEF Flushes
<1>15. Atomic'
  BY <1>1, <1>14, NothingYet DEF DbInv, Atomic
<1>16. AllOrNothing' /\ SuccessIsDurable'
  BY DEF DbInv, AllOrNothing, SuccessIsDurable
<1> QED BY <1>6, <1>7, <1>11, <1>12, <1>13, <1>15, <1>16 DEF DbInv

-----------------------------------------------------------------------------
(* The calls of a unit.                                                    *)

LEMMA Executing == ASSUME DbInv, Execute PROVE DbInv'
<1>1. PICK call \in {"write", "read"} :
         /\ Calls(call)
         /\ pending' = pending \cup IF call = "write" THEN {<<pos, unit>>} ELSE {}
  BY DEF Execute
<1>2. unit # NoUnit /\ depth' = Nesting(unit, pos)
  BY <1>1, NextNesting DEF Execute
<1>3. ~Flushes(unit, pos)
  BY <1>1 DEF Calls, Flushes
<1> QED BY <1>1, <1>2, <1>3, PlainStep DEF Execute, Usable

LEMMA Beginning == ASSUME DbInv, BeginUnit PROVE DbInv'
<1>1. Calls("begin") /\ unit # NoUnit
  BY DEF BeginUnit, Calls
<1>2. depth' = Nesting(unit, pos)
  BY <1>1, NextNesting DEF BeginUnit
<1>3. ~Flushes(unit, pos)
  BY <1>1 DEF Calls, Flushes
<1>4. pending' = pending \cup {}
  BY DEF BeginUnit
<1> QED BY <1>1, <1>2, <1>3, <1>4, PlainStep DEF BeginUnit

LEMMA Committing == ASSUME DbInv, CommitUnit PROVE DbInv'
<1>1. Calls("commit") /\ unit # NoUnit
  BY DEF CommitUnit, Calls
<1>2. depth' = Nesting(unit, pos) /\ depth = Nesting(unit, pos) /\ depth \in Nat
  BY <1>1, NextNesting DEF CommitUnit, DbInv, DbTypes
<1>3. CASE Deferred
  <2>1. ~Flushes(unit, pos)
    BY <1>2, <1>3 DEF Deferred, Flushes
  <2>2. pending' = pending \cup {}
    BY <1>3 DEF CommitUnit
  <2> QED BY <1>1, <1>2, <1>3, <2>1, <2>2, PlainStep DEF CommitUnit
<1>4. CASE ~Deferred
  <2>1. Nesting(unit, pos) = 0 /\ depth' = 0
    BY <1>2, <1>4 DEF Deferred
  <2> QED BY <1>1, <1>4, <2>1, FlushingStep DEF CommitUnit
<1> QED BY <1>3, <1>4

LEMMA EndingTransaction == ASSUME DbInv, EndUnit PROVE DbInv'
<1>1. Calls("end") /\ unit # NoUnit
  BY DEF EndUnit, Calls
<1>2. depth' = Nesting(unit, pos) /\ depth' = depth - 1 /\ depth > 0 /\ depth \in Nat
  BY <1>1, NextNesting DEF EndUnit, DbInv, DbTypes
<1>3. CASE depth > 1
  <2>1. ~Flushes(unit, pos)
    BY <1>2, <1>3 DEF Flushes
  <2>2. pending' = pending \cup {}
    BY <1>3 DEF EndUnit
  <2> QED BY <1>1, <1>2, <1>3, <2>1, <2>2, PlainStep DEF EndUnit
<1>4. CASE ~(depth > 1)
  <2>1. Nesting(unit, pos) = 0 /\ depth' = 0
    BY <1>2, <1>4
  <2> QED BY <1>1, <1>4, <2>1, FlushingStep DEF EndUnit
<1> QED BY <1>3, <1>4

(* A commit that raises commits all or nothing of what is pending, and in  *)
(* a transaction that spans the unit that is all the unit wrote.           *)
LEMMA CommitRaising == ASSUME DbInv, CommitRaises PROVE DbInv'
<1>1. PICK call \in {"commit", "end"} :
         /\ Calls(call)
         /\ call = "commit" => depth = 0
         /\ call = "end" => depth = 1
  BY DEF CommitRaises, Deferred, DbInv, DbTypes
<1>2. /\ unit # NoUnit /\ unit \in Units
      /\ pos \in 1 .. Len(Program[unit]) /\ Program[unit][pos] = call
  BY <1>1, NotYetOver DEF Calls, DbInv, DbTypes
<1>3. ASSUME Transactional(unit) PROVE committed' \cap Writes(unit) \in {{}, Writes(unit)}
  <2>1. committed \cap Writes(unit) = {}
    BY <1>1, <1>2, <1>3, NotYetOver, NothingYet
  <2>2. CASE connection # "up"
    <3>1. committed' = committed
      BY <2>2 DEF CommitRaises, DbInv, PendingOK
    <3> QED BY <2>1, <3>1
  <2>3. CASE connection = "up"
    <3>1. Nesting(unit, pos) = 0
      BY <1>1, <1>2, NextNesting
    <3>2. pos = Len(Program[unit])
      BY <1>2, <1>3, <3>1, ProgramSeq, SpansAll
    <3>3. WrittenBy(unit, pos) = Writes(unit)
      <4>1. Program[unit][pos] # "write"
        BY <1>1, <1>2
      <4> QED BY <1>2, <3>2, <4>1, WrittenStep, AllWritten
    <3>4. CommitsAtOnce(unit)
      BY <1>2, <1>3, SpansAll
    <3>5. Writes(unit) \subseteq committed \cup pending
      BY <1>2, <2>3, <3>3, <3>4 DEF DbInv, Kept
    <3>6. committed' \in {committed, committed \cup pending}
      BY DEF CommitRaises
    <3> QED BY <2>1, <3>5, <3>6
  <2> QED BY <2>2, <2>3
<1>4. connection' \in {"up", "lost", "broken"}
  BY DEF CommitRaises
<1> QED BY <1>2, <1>3, <1>4, Ending DEF CommitRaises

(* A unit that comes to its end has flushed all it wrote.                  *)
LEMMA Finishing == ASSUME DbInv, FinishUnit PROVE DbInv'
<1>1. unit # NoUnit /\ unit \in Units /\ pos = Len(Program[unit]) + 1 /\ Len(Program[unit]) \in Nat
  BY ProgramSeq DEF FinishUnit, DbInv, DbTypes, Position
<1>2. depth = 0
  BY <1>1, ProgramAssumption DEF DbInv, Position
<1>3. pending = {}
  <2> SUFFICES ASSUME NEW w \in pending PROVE FALSE
    OBVIOUS
  <2>1. w \in Writes(unit) /\ \A i \in w[1] + 1 .. pos - 1 : ~Flushes(unit, i)
    BY DEF DbInv, PendingOK, WrittenBy
  <2>2. w[1] \in 1 .. Len(Program[unit]) /\ Program[unit][w[1]] = "write"
    BY <1>1, <2>1, WritesOfUnits
  <2>3. PICK j \in w[1] + 1 .. Len(Program[unit]) : Flushes(unit, j)
    BY <1>1, <2>2, ProgramAssumption
  <2> QED BY <1>1, <2>1, <2>3
<1>4. CommitsAtOnce(unit) => Writes(unit) \subseteq committed
  <2> SUFFICES ASSUME CommitsAtOnce(unit), NEW w \in Writes(unit), w \notin committed
               PROVE  FALSE
    OBVIOUS
  <2>1. w \in WrittenBy(unit, pos)
    BY <1>1, AllWritten
  <2>2. w = <<pos - 1, unit>>
    BY <1>1, <1>2, <1>3, <2>1 DEF DbInv, Kept
  <2>3. w[1] = Len(Program[unit]) /\ w[1] \in 1 .. Len(Program[unit])
           /\ Program[unit][w[1]] = "write"
    BY <1>1, <2>2, WritesOfUnits
  <2> QED BY <1>1, <2>3, ProgramAssumption
<1>5. Transactional(unit) => Writes(unit) \subseteq committed
  BY <1>1 DEF DbInv, Atomic
<1>6. committed' = committed /\ connection' \in {"up", "lost", "broken"} /\ pending' = {} /\ depth' = 0
  BY <1>2, <1>3 DEF FinishUnit, DbInv, DbTypes
<1> QED BY <1>1, <1>4, <1>5, <1>6, Ending DEF FinishUnit

LEMMA Restarting == ASSUME DbInv, Restart PROVE DbInv'
<1>1. CASE unit = NoUnit
  <2>1. \A u \in Units : u # unit
    BY <1>1, DatabaseAssumption
  <2>2. outcome' = outcome
    BY <2>1 DEF Restart, DbInv, DbTypes
  <2>3. /\ connection' = "up" /\ pending' = {} /\ depth' = 0 /\ unit' = NoUnit /\ pos' = 1
        /\ committed' = committed
    BY DEF Restart
  <2>4. DbTypes' /\ Position' /\ PendingOK' /\ Kept' /\ Atomic'
    BY <2>2, <2>3 DEF DbInv, DbTypes, Position, PendingOK, Kept, Atomic
  <2>5. Untouched' /\ AllOrNothing' /\ SuccessIsDurable'
    BY <1>1, <2>2, <2>3 DEF DbInv, Untouched, AllOrNothing, SuccessIsDurable
  <2> QED BY <2>4, <2>5 DEF DbInv
<1>2. CASE unit # NoUnit
  <2>1. outcome' = [outcome EXCEPT ![unit] = "failed"]
    BY <1>2 DEF Restart, DbInv, DbTypes
  <2>2. Transactional(unit) => committed \cap Writes(unit) \in {{}, Writes(unit)}
    BY <1>2 DEF DbInv, DbTypes, AllOrNothing
  <2> QED BY <1>2, <2>1, <2>2, Ending DEF Restart
<1> QED BY <1>1, <1>2

LEMMA DatabaseKeeps == ASSUME DbInv, [DatabaseNext]_dbVars PROVE DbInv'
<1>1. CASE UNCHANGED dbVars
  BY <1>1 DEF dbVars, DbInv, DbTypes, Position, PendingOK, Kept, Untouched, Atomic,
              AllOrNothing, SuccessIsDurable
<1>2. CASE DatabaseNext
  BY <1>2, Starting, Losing, Executing, ExecuteRaising, BodyRaising, Beginning, Committing,
     EndingTransaction, CommitRaising, Finishing, Restarting DEF DatabaseNext
<1> QED BY <1>1, <1>2

LEMMA DatabaseInvariant == DatabaseSpec => []DbInv
BY DatabaseStarts, DatabaseKeeps, PTL DEF DatabaseSpec

-----------------------------------------------------------------------------
(* A unit that runs in one transaction has all of its writes committed or  *)
(* none, at every moment, and whatever fails                               *)
(* (webapi/routers/jobs.py:197 on imports).                                *)
THEOREM ImportsAreAtomic == DatabaseSpec => []AllOrNothing
<1>1. DbInv => AllOrNothing
  BY DEF DbInv
<1> QED BY <1>1, DatabaseInvariant, PTL

(* What a unit reported as done is committed, if the unit commits each     *)
(* write before its next one (Database.execute and commit).                *)
THEOREM ReportedIsCommitted == DatabaseSpec => []SuccessIsDurable
<1>1. DbInv => SuccessIsDurable
  BY DEF DbInv
<1> QED BY <1>1, DatabaseInvariant, PTL

(* No write is left on the connection for another unit's commit.           *)
THEOREM NothingStrays == DatabaseSpec => []NoStrayWrites
<1>1. DbInv => NoStrayWrites
  BY DEF DbInv, Position, NoStrayWrites
<1> QED BY <1>1, DatabaseInvariant, PTL

-----------------------------------------------------------------------------
(* The numbers of WebAuth.                                                 *)

WholeWindow == WindowSeconds * SecondTicks
WholeBlock  == BlockSeconds * SecondTicks

LEMMA SpanBounds ==
  /\ SecondTicks \in Nat /\ SecondTicks >= 1
  /\ Window \in Nat /\ WholeBlock \in Nat /\ Lifetime \in Nat
  /\ WholeBlock >= 2 * SecondTicks /\ Window >= SecondTicks
  /\ Span \in Nat /\ Span <= Window - SecondTicks /\ Span <= WholeBlock - 2 * SecondTicks
<1>1. SecondTicks \in Nat /\ SecondTicks >= 1
  BY WebAuthAssumption
<1>2. ASSUME NEW n \in Nat PROVE n * SecondTicks \in Nat
  BY <1>1
<1>3. /\ (WindowSeconds - 1) * SecondTicks = Window - SecondTicks
      /\ (BlockSeconds - 2) * SecondTicks = WholeBlock - 2 * SecondTicks
  BY WebAuthAssumption DEF Window, WholeBlock
<1>4. /\ (WindowSeconds - 1) * SecondTicks \in Nat
      /\ (BlockSeconds - 2) * SecondTicks \in Nat
      /\ Window \in Nat /\ WholeBlock \in Nat /\ Lifetime \in Nat
  <2>1. WindowSeconds - 1 \in Nat /\ BlockSeconds - 2 \in Nat /\ WindowSeconds \in Nat
        /\ BlockSeconds \in Nat /\ MaxAge \in Nat
    BY WebAuthAssumption
  <2> QED BY <1>2, <2>1 DEF Window, WholeBlock, Lifetime
<1>5. Span \in Nat /\ Span <= Window - SecondTicks /\ Span <= WholeBlock - 2 * SecondTicks
  <2> DEFINE w == (WindowSeconds - 1) * SecondTicks
             b == (BlockSeconds - 2) * SecondTicks
  <2>1. w \in Nat /\ b \in Nat /\ w = Window - SecondTicks /\ b = WholeBlock - 2 * SecondTicks
    BY <1>3, <1>4
  <2>2. Span = IF w < b THEN w ELSE b
    BY DEF Span
  <2> HIDE DEF w, b
  <2> QED BY <1>1, <1>4, <2>1, <2>2
<1>6. WholeBlock >= 2 * SecondTicks /\ Window >= SecondTicks
  BY <1>1, <1>3, <1>4
<1> QED BY <1>1, <1>4, <1>5, <1>6

(* The last second of a block does not refuse (retry_after rounds down).   *)
LEMMA RoundedDown ==
  ASSUME NEW n \in Nat, NEW d \in Nat, d > 0, n \div d = 0 PROVE n < d
OBVIOUS

LEMMA Fraction ==
  ASSUME NEW n \in Nat, NEW d \in Nat, d > 0 PROVE n % d \in 0 .. d - 1
OBVIOUS

-----------------------------------------------------------------------------
(* The inductive invariant of WebAuth.                                     *)

(* Older guesses come first, so those that leave Span come first, too.     *)
OldestFirst ==
  \A i \in 1 .. Len(guesses) : \A j \in 1 .. Len(guesses) : i < j => guesses[i] >= guesses[j]

(* Beyond those the row counts, FailureLimit - 1 guesses can be within     *)
(* Span, of an earlier window; and after a block, twice that and one, all  *)
(* as old as the block.                                                    *)
Gathered ==
  \/ Len(guesses) <= FailureLimit - 1 + failures
  \/ /\ failures = 0 /\ Len(guesses) <= 2 * FailureLimit - 1
     /\ \A i \in 1 .. Len(guesses) : guesses[i] + blocked > WholeBlock - SecondTicks

(* A guess the row does not count is as old as the window, to the second.  *)
Uncounted ==
  /\ \A i \in 1 .. Len(guesses) :
       i <= Len(guesses) - failures => guesses[i] + SecondTicks > window
  /\ window = NoWindow => failures = 0 /\ Len(guesses) = 0

(* A row lives as long as its session, rounded to the second.              *)
SessionOK(s) ==
  /\ ~s.issued => ~s.row
  /\ s.issued =>
       /\ s.revoked <=> s.loggedOut
       /\ s.left + s.age <= Lifetime
       /\ s.age < Lifetime => s.left + s.age > Lifetime - SecondTicks
       /\ (~s.loggedOut /\ s.left > 0) => s.row

WebInv ==
  /\ WebAuthTypeOK /\ OldestFirst /\ Gathered /\ Uncounted
  /\ \A t \in Tokens : SessionOK(web[t])

LEMMA WebAuthStarts == WebAuthInit => WebInv
<1> SUFFICES ASSUME WebAuthInit PROVE WebInv
  OBVIOUS
<1> USE SpanBounds, WebAuthAssumption DEF WebAuthInit, NoWindow
<1>1. ASSUME NEW t \in Tokens PROVE web[t] \in WebSession /\ SessionOK(web[t])
  BY DEF WebSession, SessionOK
<1>2. WebAuthTypeOK
  BY <1>1 DEF WebAuthTypeOK, WebSession
<1>3. OldestFirst /\ Gathered /\ Uncounted
  BY DEF OldestFirst, Gathered, Uncounted
<1> QED BY <1>1, <1>2, <1>3 DEF WebInv

-----------------------------------------------------------------------------
(* Sessions.                                                               *)

LEMMA SessionFields ==
  ASSUME WebAuthTypeOK, NEW t \in Tokens
  PROVE  /\ web[t].row \in BOOLEAN /\ web[t].revoked \in BOOLEAN
         /\ web[t].loggedOut \in BOOLEAN /\ web[t].issued \in BOOLEAN
         /\ web[t].left \in Int /\ -SecondTicks <= web[t].left /\ web[t].left <= Lifetime
         /\ web[t].age \in Nat /\ web[t].age <= Lifetime
BY SpanBounds DEF WebAuthTypeOK, WebSession

(* What becomes of the session of a row that loses it.                     *)
LEMMA Dropping ==
  ASSUME NEW s \in WebSession, SessionOK(s), s.issued => s.revoked \/ s.left <= 0
  PROVE  [s EXCEPT !.row = FALSE] \in WebSession /\ SessionOK([s EXCEPT !.row = FALSE])
<1> DEFINE r == [s EXCEPT !.row = FALSE]
<1>1. r \in WebSession
  BY DEF WebSession
<1>2. /\ r.row = FALSE /\ r.revoked = s.revoked /\ r.left = s.left /\ r.age = s.age
      /\ r.loggedOut = s.loggedOut /\ r.issued = s.issued
  BY DEF WebSession
<1>3. s.left \in Int
  BY SpanBounds DEF WebSession
<1> HIDE DEF r
<1>4. SessionOK(r)
  BY <1>2, <1>3 DEF SessionOK
<1> QED BY <1>1, <1>4 DEF r

(* All but a login and the passing of time.                                *)
LEMMA Purging ==
  ASSUME NEW s \in WebSession, SessionOK(s)
  PROVE  Purged(s) \in WebSession /\ SessionOK(Purged(s))
<1>1. CASE Expired(s) \/ s.revoked
  BY <1>1, Dropping DEF Purged, Expired
<1>2. CASE ~(Expired(s) \/ s.revoked)
  BY <1>2 DEF Purged
<1> QED BY <1>1, <1>2

LEMMA SessionAges ==
  ASSUME NEW s \in WebSession, SessionOK(s), s.issued
  PROVE  LET r == [s EXCEPT !.left = IF @ > -SecondTicks THEN @ - 1 ELSE @,
                            !.age = IF @ < Lifetime THEN @ + 1 ELSE @]
         IN  r \in WebSession /\ SessionOK(r)
<1> DEFINE r == [s EXCEPT !.left = IF @ > -SecondTicks THEN @ - 1 ELSE @,
                          !.age = IF @ < Lifetime THEN @ + 1 ELSE @]
<1>1. /\ s.left \in Int /\ -SecondTicks <= s.left /\ s.left <= Lifetime
      /\ s.age \in Nat /\ s.age <= Lifetime
  BY SpanBounds DEF WebSession
<1>2. /\ r.row = s.row /\ r.revoked = s.revoked /\ r.loggedOut = s.loggedOut
      /\ r.issued = s.issued
      /\ r.left = IF s.left > -SecondTicks THEN s.left - 1 ELSE s.left
      /\ r.age = IF s.age < Lifetime THEN s.age + 1 ELSE s.age
  BY DEF WebSession
<1>3. r.left \in -SecondTicks .. Lifetime /\ r.age \in 0 .. Lifetime
  BY <1>1, <1>2, SpanBounds
<1>4. r \in WebSession
  <2>1. /\ s.left > -SecondTicks => s.left - 1 \in -SecondTicks .. Lifetime
        /\ s.age < Lifetime => s.age + 1 \in 0 .. Lifetime
    BY <1>1, SpanBounds
  <2> QED BY <2>1 DEF WebSession
<1> HIDE DEF r
(* The clock of the row stops only when the session is over.               *)
<1>5. s.age < Lifetime => s.left > -SecondTicks
  BY <1>1, SpanBounds DEF SessionOK
<1>6. /\ s.revoked <=> s.loggedOut
      /\ s.left + s.age <= Lifetime
      /\ s.age < Lifetime => s.left + s.age > Lifetime - SecondTicks
      /\ (~s.loggedOut /\ s.left > 0) => s.row
  BY DEF SessionOK
<1>7. r.left + r.age <= Lifetime
  BY <1>1, <1>2, <1>5, <1>6, SpanBounds
<1>8. r.age < Lifetime => r.left + r.age > Lifetime - SecondTicks
  BY <1>1, <1>2, <1>5, <1>6, SpanBounds
<1>9. r.left > 0 => s.left > 0
  BY <1>1, <1>2, SpanBounds
<1>10. SessionOK(r)
  BY <1>2, <1>6, <1>7, <1>8, <1>9 DEF SessionOK
<1> QED BY <1>4, <1>10 DEF r

-----------------------------------------------------------------------------
(* The handlers.                                                           *)

LEMMA ThrottleTypes ==
  ASSUME WebAuthTypeOK
  PROVE  /\ Len(guesses) \in Nat /\ DOMAIN guesses = 1 .. Len(guesses)
         /\ \A i \in 1 .. Len(guesses) : guesses[i] \in Nat /\ guesses[i] <= Span
         /\ tick \in Nat /\ tick < SecondTicks
         /\ failures \in Nat /\ failures <= FailureLimit - 1
         /\ window \in Int /\ -1 <= window /\ window <= Window + 1
         /\ blocked \in Nat /\ blocked <= WholeBlock
         /\ FailureLimit \in Nat /\ FailureLimit >= 1
         /\ RetryAfter = 0 => blocked < SecondTicks
<1>1. Len(guesses) \in Nat /\ DOMAIN guesses = 1 .. Len(guesses)
  BY DEF WebAuthTypeOK
<1>2. \A i \in 1 .. Len(guesses) : guesses[i] \in Nat /\ guesses[i] <= Span
  BY <1>1, SpanBounds DEF WebAuthTypeOK
<1>3. FailureLimit \in Nat /\ FailureLimit >= 1
  BY WebAuthAssumption
<1>4. blocked \in Nat /\ blocked <= WholeBlock
  BY SpanBounds DEF WebAuthTypeOK, WholeBlock
<1>5. RetryAfter = 0 => blocked < SecondTicks
  BY <1>4, RoundedDown, SpanBounds DEF RetryAfter
<1> QED BY <1>1, <1>2, <1>3, <1>4, <1>5, SpanBounds DEF WebAuthTypeOK, NoWindow

LEMMA LoggingIn == ASSUME WebInv, NEW t \in Tokens, LogIn(t) PROVE WebInv'
<1>1. WebAuthTypeOK
  BY DEF WebInv
<1>2. ASSUME NEW u \in Tokens PROVE web'[u] \in WebSession /\ SessionOK(web'[u])
  <2>1. CASE u = t
    <3>1. web'[u] = [row |-> TRUE, revoked |-> FALSE, left |-> Lifetime - tick,
                     age |-> 0, loggedOut |-> FALSE, issued |-> TRUE]
      BY <2>1 DEF LogIn
    <3>2. /\ Lifetime \in Nat /\ SecondTicks \in Nat /\ tick \in Nat
          /\ tick < SecondTicks /\ 0 <= Lifetime - tick + SecondTicks
      BY <1>1, ThrottleTypes, SpanBounds
    <3>3. web'[u] \in WebSession
      BY <3>1, <3>2 DEF WebSession
    <3>4. SessionOK(web'[u])
      BY <3>1, <3>2 DEF SessionOK
    <3> QED BY <3>3, <3>4
  <2>2. CASE u # t
    <3>1. web'[u] = Purged(web[u])
      BY <2>2 DEF LogIn
    <3>2. web[u] \in WebSession /\ SessionOK(web[u])
      BY DEF WebInv, WebAuthTypeOK
    <3> QED BY <3>1, <3>2, Purging
  <2> QED BY <2>1, <2>2
<1>3. web' \in [Tokens -> WebSession]
  <2>1. web' = [u \in Tokens |-> web'[u]]
    BY DEF LogIn
  <2> QED BY <1>2, <2>1
<1>4. guesses' = <<>> /\ failures' = 0 /\ window' = NoWindow /\ blocked' = 0 /\ tick' = tick
  BY DEF LogIn
<1>5. WebAuthTypeOK'
  <2>1. /\ 0 \in 0 .. FailureLimit - 1 /\ NoWindow \in NoWindow .. Window + 1
        /\ 0 \in 0 .. BlockSeconds * SecondTicks
    BY <1>1, ThrottleTypes, SpanBounds DEF NoWindow, WholeBlock
  <2> QED BY <1>1, <1>3, <1>4, <2>1 DEF WebAuthTypeOK
<1>6. OldestFirst' /\ Gathered' /\ Uncounted'
  <2>1. Len(guesses') = 0
    BY <1>4
  <2>2. 0 <= FailureLimit - 1 + 0
    BY WebAuthAssumption
  <2> QED BY <1>4, <2>1, <2>2 DEF OldestFirst, Gathered, Uncounted
<1> QED BY <1>2, <1>5, <1>6 DEF WebInv

LEMMA LoggingOut == ASSUME WebInv, NEW t \in Tokens, LogOut(t) PROVE WebInv'
<1>1. WebAuthTypeOK
  BY DEF WebInv
<1>2. ASSUME NEW u \in Tokens PROVE web'[u] \in WebSession /\ SessionOK(web'[u])
  <2>1. web[u] \in WebSession /\ SessionOK(web[u])
    BY DEF WebInv, WebAuthTypeOK
  <2>2. CASE u = t
    <3> DEFINE s == web[t]
               r == [s EXCEPT !.revoked = TRUE, !.loggedOut = TRUE]
    <3>1. web'[u] = r
      BY <1>1, <2>2 DEF LogOut, WebAuthTypeOK
    <3>2. r \in WebSession
      BY <2>1, <2>2 DEF WebSession
    <3>3. /\ r.revoked = TRUE /\ r.loggedOut = TRUE /\ r.issued = s.issued
          /\ r.row = s.row /\ r.left = s.left /\ r.age = s.age
      BY <2>1, <2>2 DEF WebSession
    <3> HIDE DEF r
    <3>4. SessionOK(r)
      BY <2>1, <2>2, <3>3 DEF SessionOK
    <3> QED BY <3>1, <3>2, <3>4
  <2>3. CASE u # t
    BY <1>1, <2>1, <2>3 DEF LogOut, WebAuthTypeOK
  <2> QED BY <2>2, <2>3
<1>3. web' \in [Tokens -> WebSession]
  <2>1. web' = [u \in Tokens |-> web'[u]]
    BY <1>1 DEF LogOut, WebAuthTypeOK
  <2> QED BY <1>2, <2>1
<1>4. UNCHANGED <<tick, failures, window, blocked, guesses>>
  BY DEF LogOut
<1>5. WebAuthTypeOK'
  BY <1>1, <1>3, <1>4 DEF WebAuthTypeOK
<1>6. OldestFirst' /\ Gathered' /\ Uncounted'
  BY <1>4 DEF WebInv, OldestFirst, Gathered, Uncounted
<1> QED BY <1>2, <1>5, <1>6 DEF WebInv

LEMMA Retaining == ASSUME WebInv, Retention PROVE WebInv'
<1>1. WebAuthTypeOK
  BY DEF WebInv
<1>2. PICK kept \in SUBSET Tokens :
       /\ \A t \in Tokens \ kept : web[t].left <= -SecondTicks \/ web[t].revoked
       /\ \A t \in kept : web[t].row => web[t].left > -SecondTicks
       /\ web' = [t \in Tokens |-> IF t \in kept THEN web[t]
                                                 ELSE [web[t] EXCEPT !.row = FALSE]]
  BY DEF Retention
<1>3. ASSUME NEW u \in Tokens PROVE web'[u] \in WebSession /\ SessionOK(web'[u])
  <2>1. web[u] \in WebSession /\ SessionOK(web[u]) /\ web[u].left \in Int
    BY <1>1, SessionFields DEF WebInv, WebAuthTypeOK
  <2>2. CASE u \in kept
    BY <1>2, <2>1, <2>2
  <2>3. CASE u \notin kept
    <3>1. web[u].revoked \/ web[u].left <= 0
      BY <1>2, <2>1, <2>3, SpanBounds
    <3> QED BY <1>2, <2>1, <2>3, <3>1, Dropping
  <2> QED BY <2>2, <2>3
<1>4. web' \in [Tokens -> WebSession]
  <2>1. web' = [u \in Tokens |-> web'[u]]
    BY <1>2
  <2> QED BY <1>3, <2>1
<1>5. UNCHANGED <<tick, failures, window, blocked, guesses>>
  BY DEF Retention
<1>6. WebAuthTypeOK'
  BY <1>1, <1>4, <1>5 DEF WebAuthTypeOK
<1>7. OldestFirst' /\ Gathered' /\ Uncounted'
  BY <1>5 DEF WebInv, OldestFirst, Gathered, Uncounted
<1> QED BY <1>3, <1>6, <1>7 DEF WebInv

(* When the row counts from anew, what it no longer counts left Span.      *)
LEMMA GuessesCounted ==
  ASSUME WebInv, RetryAfter = 0
  PROVE  /\ Len(guesses) <= FailureLimit - 1 + failures
         /\ ~InWindow => Len(guesses) <= FailureLimit - 1
<1> DEFINE n == Len(guesses)
<1>1. WebAuthTypeOK
  BY DEF WebInv
<1>0. /\ n \in Nat /\ \A i \in 1 .. n : guesses[i] \in Nat /\ guesses[i] <= Span
      /\ failures \in Nat /\ failures <= FailureLimit - 1 /\ window \in Int /\ -1 <= window
      /\ blocked \in Nat /\ blocked < SecondTicks /\ SecondTicks \in Nat
      /\ FailureLimit \in Nat /\ FailureLimit >= 1 /\ Span \in Nat
      /\ Window \in Nat /\ Span <= Window - SecondTicks
      /\ WholeBlock \in Nat /\ Span <= WholeBlock - 2 * SecondTicks
  BY <1>1, ThrottleTypes, SpanBounds
<1>2. n <= FailureLimit - 1 + failures
  <2>1. CASE \A i \in 1 .. n : guesses[i] + blocked > WholeBlock - SecondTicks
    <3> HIDE DEF n
    <3>1. ASSUME 1 \in 1 .. n PROVE FALSE
      <4>1. guesses[1] \in Nat /\ guesses[1] <= Span
        BY <1>0, <3>1
      <4>2. guesses[1] + blocked > WholeBlock - SecondTicks
        BY <2>1, <3>1
      <4> QED BY <1>0, <4>1, <4>2
    <3> QED BY <1>0, <3>1
  <2>2. CASE n <= FailureLimit - 1 + failures
    BY <2>2
  <2> QED BY <2>1, <2>2 DEF WebInv, Gathered
<1>3. ASSUME ~InWindow PROVE n <= FailureLimit - 1
  <2>1. CASE window = NoWindow
    BY <1>0, <2>1 DEF WebInv, Uncounted
  <2>2. CASE window # NoWindow
    <3>1. window > Window
      BY <1>0, <1>3, <2>2 DEF InWindow, NoWindow
    <3>2. \A i \in 1 .. n : i <= n - failures => guesses[i] + SecondTicks > window
      BY DEF WebInv, Uncounted
    <3> HIDE DEF n
    <3>3. ASSUME 1 \in 1 .. n, 1 <= n - failures PROVE FALSE
      <4>1. guesses[1] \in Nat /\ guesses[1] <= Span
        BY <1>0, <3>3
      <4>2. guesses[1] + SecondTicks > window
        BY <3>2, <3>3
      <4> QED BY <1>0, <3>1, <4>1, <4>2
    <3> QED BY <1>0, <3>3
  <2> QED BY <2>1, <2>2
<1> QED BY <1>2, <1>3

LEMMA Guessing == ASSUME WebInv, Guess PROVE WebInv'
<1> DEFINE n == Len(guesses)
<1>1. WebAuthTypeOK
  BY DEF WebInv
<1>0. /\ n \in Nat /\ \A i \in 1 .. n : guesses[i] \in Nat
      /\ tick \in Nat /\ tick < SecondTicks /\ SecondTicks \in Nat /\ window \in Int
      /\ failures \in Nat /\ failures <= FailureLimit - 1
      /\ WholeBlock \in Nat /\ WholeBlock >= 2 * SecondTicks
      /\ Window \in Nat /\ Window >= SecondTicks
      /\ FailureLimit \in Nat /\ FailureLimit >= 1
  BY <1>1, ThrottleTypes, SpanBounds
<1>2. n <= FailureLimit - 1 + failures /\ (~InWindow => n <= FailureLimit - 1)
  BY GuessesCounted DEF Guess
<1>3. /\ \A i \in 1 .. n : i <= n - failures => guesses[i] + SecondTicks > window
      /\ \A i \in 1 .. n : \A j \in 1 .. n : i < j => guesses[i] >= guesses[j]
  BY DEF WebInv, Uncounted, OldestFirst
<1>4. tick' = tick /\ web' = web
  BY DEF Guess
<1>5. guesses' \in Seq(0 .. Span)
  BY <1>1, SpanBounds DEF Guess, WebAuthTypeOK
<1>6. /\ Len(guesses') = n + 1
      /\ \A i \in 1 .. n + 1 : /\ guesses'[i] \in Nat
                                /\ guesses'[i] = IF i = n + 1 THEN 0 ELSE guesses[i]
  <2>1. /\ Len(guesses') = n + 1 /\ guesses'[n + 1] = 0
        /\ \A i \in 1 .. n : guesses'[i] = guesses[i]
    BY <1>1 DEF Guess, WebAuthTypeOK
  <2> HIDE DEF n
  <2> QED BY <1>0, <2>1
<1> HIDE DEF n
<1>7. ASSUME Blocks PROVE WebAuthTypeOK' /\ Gathered' /\ Uncounted'
  <2>1. failures' = 0 /\ window' = tick /\ blocked' = WholeBlock - tick
    BY <1>7 DEF Guess, WholeBlock
  <2>2. WebAuthTypeOK'
    <3>1. /\ 0 \in 0 .. FailureLimit - 1 /\ tick \in NoWindow .. Window + 1
          /\ WholeBlock - tick \in 0 .. WholeBlock
      BY <1>0 DEF NoWindow
    <3> QED BY <1>1, <1>4, <1>5, <2>1, <3>1 DEF WebAuthTypeOK, WholeBlock
  <2>3. Gathered'
    <3>1. n + 1 <= 2 * FailureLimit - 1
      BY <1>0, <1>2, <1>7 DEF Blocks, Counted
    <3>2. \A i \in 1 .. n + 1 : guesses'[i] + blocked' > WholeBlock - SecondTicks
      BY <1>0, <1>6, <2>1
    <3> QED BY <1>6, <2>1, <3>1, <3>2 DEF Gathered
  <2>4. Uncounted'
    <3>1. \A i \in 1 .. n + 1 : guesses'[i] + SecondTicks > window'
      BY <1>0, <1>6, <2>1
    <3>2. window' # NoWindow
      BY <1>0, <2>1 DEF NoWindow
    <3> QED BY <1>6, <3>1, <3>2 DEF Uncounted
  <2> QED BY <2>2, <2>3, <2>4
<1>8. ASSUME ~Blocks PROVE WebAuthTypeOK' /\ Gathered' /\ Uncounted'
  <2>1. failures' = Counted /\ Counted < FailureLimit /\ blocked' = 0
    <3>1. Counted \in Nat
      BY <1>0 DEF Counted
    <3> QED BY <1>0, <1>8, <3>1 DEF Guess, Blocks
  <2>2. CASE InWindow
    <3>1. failures' = failures + 1 /\ window' = window /\ failures + 1 < FailureLimit
      BY <1>8, <2>1, <2>2 DEF Counted, Guess
    <3>2. WebAuthTypeOK'
      <4>1. failures + 1 \in 0 .. FailureLimit - 1 /\ 0 \in 0 .. WholeBlock
        BY <1>0, <3>1
      <4> QED BY <1>1, <1>4, <1>5, <2>1, <3>1, <4>1 DEF WebAuthTypeOK, WholeBlock
    <3>3. Gathered'
      BY <1>0, <1>2, <1>6, <3>1 DEF Gathered
    <3>4. Uncounted'
      <4>1. ASSUME NEW i \in 1 .. n + 1, i <= n + 1 - failures'
            PROVE  guesses'[i] + SecondTicks > window'
        <5>1. i \in 1 .. n /\ i <= n - failures /\ i # n + 1
          BY <1>0, <3>1, <4>1
        <5>2. /\ guesses'[i] = guesses[i] /\ guesses[i] \in Nat
              /\ guesses[i] + SecondTicks > window
          BY <1>0, <1>3, <1>6, <5>1
        <5> QED BY <1>0, <3>1, <5>2
      <4>2. window # NoWindow
        BY <2>2 DEF InWindow, NoWindow
      <4>3. \A i \in 1 .. Len(guesses') :
              i <= Len(guesses') - failures' => guesses'[i] + SecondTicks > window'
        BY <1>0, <1>6, <3>1, <4>1
      <4>4. window' # NoWindow
        BY <3>1, <4>2
      <4> QED BY <4>3, <4>4 DEF Uncounted
    <3> QED BY <3>2, <3>3, <3>4
  <2>3. CASE ~InWindow
    <3>1. failures' = 1 /\ window' = tick /\ 1 < FailureLimit
      BY <1>8, <2>1, <2>3 DEF Counted, Guess
    <3>2. WebAuthTypeOK'
      <4>1. /\ 1 \in 0 .. FailureLimit - 1 /\ 0 \in 0 .. WholeBlock
            /\ tick \in NoWindow .. Window + 1
        BY <1>0, <3>1 DEF NoWindow
      <4> QED BY <1>1, <1>4, <1>5, <2>1, <3>1, <4>1 DEF WebAuthTypeOK, WholeBlock
    <3>3. Gathered'
      BY <1>0, <1>2, <1>6, <2>3, <3>1 DEF Gathered
    <3>4. Uncounted'
      <4>1. \A i \in 1 .. n + 1 : guesses'[i] + SecondTicks > window'
        BY <1>0, <1>6, <3>1
      <4>2. window' # NoWindow
        BY <1>0, <3>1 DEF NoWindow
      <4> QED BY <1>6, <4>1, <4>2 DEF Uncounted
    <3> QED BY <3>2, <3>3, <3>4
  <2> QED BY <2>2, <2>3
<1>9. OldestFirst'
  <2> SUFFICES ASSUME NEW i \in 1 .. n + 1, NEW j \in 1 .. n + 1, i < j
               PROVE  guesses'[i] >= guesses'[j]
    BY <1>6 DEF OldestFirst
  <2>1. i \in 1 .. n /\ i # n + 1
    BY <1>0
  <2>2. CASE j = n + 1
    BY <1>6, <2>2
  <2>3. CASE j \in 1 .. n /\ j # n + 1
    BY <1>3, <1>6, <2>1, <2>3
  <2> QED BY <1>0, <2>2, <2>3
<1>10. \A t \in Tokens : SessionOK(web'[t])
  BY <1>4 DEF WebInv
<1> QED BY <1>7, <1>8, <1>9, <1>10 DEF WebInv

LEMMA Ageing == ASSUME WebInv, WebTick PROVE WebInv'
<1> DEFINE n == Len(guesses)
<1>1. WebAuthTypeOK
  BY DEF WebInv
<1>0. /\ n \in Nat /\ \A i \in 1 .. n : guesses[i] \in Nat /\ guesses[i] <= Span
      /\ tick \in Nat /\ failures \in Nat /\ failures <= FailureLimit - 1
      /\ window \in Int /\ -1 <= window /\ window <= Window + 1
      /\ blocked \in Nat /\ blocked <= WholeBlock
      /\ FailureLimit \in Nat /\ FailureLimit >= 1
      /\ SecondTicks \in Nat /\ SecondTicks >= 1
      /\ Span \in Nat /\ Window \in Nat /\ WholeBlock \in Nat
  BY <1>1, ThrottleTypes, SpanBounds
<1>2. PICK k \in 0 .. n :
       /\ \A i \in 1 .. n : i <= k <=> guesses[i] = Span
       /\ guesses' = [i \in 1 .. n - k |-> guesses[i + k] + 1]
  BY DEF WebTick
<1>k. k \in Nat /\ k <= n /\ n - k \in Nat
  BY <1>0
<1> HIDE DEF n
<1>e. guesses' \in Seq(0 .. Span) /\ Len(guesses') = n - k
  <2>1. ASSUME NEW i \in 1 .. n - k
        PROVE  i + k \in 1 .. n /\ guesses[i + k] + 1 \in 0 .. Span
    <3>1. i + k \in 1 .. n /\ ~(i + k <= k)
      BY <1>0, <1>k
    <3>2. guesses[i + k] # Span /\ guesses[i + k] \in Nat /\ guesses[i + k] <= Span
      BY <1>0, <1>2, <3>1
    <3> QED BY <1>0, <3>1, <3>2
  <2>2. guesses' \in [1 .. n - k -> 0 .. Span]
    BY <1>2, <2>1
  <2> QED BY <1>0, <1>k, <2>2
<1>3. Len(guesses') = n - k
  BY <1>e
<1>i. ASSUME NEW i \in 1 .. n - k
      PROVE  /\ i + k \in 1 .. n /\ guesses[i + k] \in Nat
             /\ guesses'[i] = guesses[i + k] + 1
  BY <1>0, <1>2, <1>k
<1>4. /\ tick' \in 0 .. SecondTicks - 1 /\ failures' = failures
      /\ window' = IF InWindow THEN window + 1 ELSE window
      /\ blocked' = IF blocked > 0 THEN blocked - 1 ELSE 0
  <2>1. (tick + 1) % SecondTicks \in 0 .. SecondTicks - 1
    BY <1>0, Fraction
  <2> QED BY <2>1 DEF WebTick
<1>5. ASSUME NEW t \in Tokens PROVE web'[t] \in WebSession /\ SessionOK(web'[t])
  <2>1. web[t] \in WebSession /\ SessionOK(web[t])
    BY DEF WebInv, WebAuthTypeOK
  <2>2. CASE ~web[t].issued
    BY <2>1, <2>2 DEF WebTick
  <2>3. CASE web[t].issued
    <3>1. web'[t] = [web[t] EXCEPT !.left = IF @ > -SecondTicks THEN @ - 1 ELSE @,
                                   !.age = IF @ < Lifetime THEN @ + 1 ELSE @]
      BY <2>3 DEF WebTick
    <3> QED BY <2>1, <2>3, <3>1, SessionAges
  <2> QED BY <2>2, <2>3
<1>6. web' \in [Tokens -> WebSession]
  <2>1. web' = [t \in Tokens |-> web'[t]]
    BY DEF WebTick
  <2> QED BY <1>5, <2>1
<1>7. WebAuthTypeOK'
  <2>1. window' \in NoWindow .. Window + 1 /\ blocked' \in 0 .. WholeBlock
    BY <1>0, <1>4 DEF InWindow, NoWindow
  <2>2. failures' \in 0 .. FailureLimit - 1
    BY <1>0, <1>4
  <2> QED BY <1>4, <1>6, <1>e, <2>1, <2>2 DEF WebAuthTypeOK, WholeBlock
<1>8. OldestFirst'
  <2> SUFFICES ASSUME NEW i \in 1 .. n - k, NEW j \in 1 .. n - k, i < j
               PROVE  guesses'[i] >= guesses'[j]
    BY <1>3 DEF OldestFirst
  <2>1. /\ i + k \in 1 .. n /\ guesses[i + k] \in Nat /\ guesses'[i] = guesses[i + k] + 1
        /\ j + k \in 1 .. n /\ guesses[j + k] \in Nat /\ guesses'[j] = guesses[j + k] + 1
    BY <1>i
  <2>2. i + k < j + k
    BY <1>k
  <2>3. guesses[i + k] >= guesses[j + k]
    BY <2>1, <2>2 DEF WebInv, OldestFirst, n
  <2> QED BY <2>1, <2>3
<1>9. Gathered'
  <2>1. CASE n <= FailureLimit - 1 + failures
    BY <1>0, <1>k, <1>3, <1>4, <2>1 DEF Gathered
  <2>2. CASE /\ failures = 0 /\ n <= 2 * FailureLimit - 1
             /\ \A i \in 1 .. n : guesses[i] + blocked > WholeBlock - SecondTicks
    <3>1. ASSUME NEW i \in 1 .. n - k
          PROVE  guesses'[i] + blocked' > WholeBlock - SecondTicks
      <4>1. /\ i + k \in 1 .. n /\ guesses[i + k] \in Nat
            /\ guesses'[i] = guesses[i + k] + 1
        BY <1>i
      <4>2. guesses[i + k] + blocked > WholeBlock - SecondTicks
        BY <2>2, <4>1
      <4>3. blocked' \in Nat /\ blocked' >= blocked - 1
        BY <1>0, <1>4
      <4> QED BY <1>0, <4>1, <4>2, <4>3
    <3>2. n - k <= 2 * FailureLimit - 1
      BY <1>0, <1>k, <2>2
    <3> QED BY <1>3, <1>4, <2>2, <3>1, <3>2 DEF Gathered
  <2> QED BY <2>1, <2>2 DEF WebInv, Gathered, n
<1>10. Uncounted'
  <2>1. ASSUME NEW i \in 1 .. n - k, i <= n - k - failures
        PROVE  guesses'[i] + SecondTicks > window'
    <3>1. /\ i + k \in 1 .. n /\ guesses[i + k] \in Nat
          /\ guesses'[i] = guesses[i + k] + 1
      BY <1>i
    <3>2. i + k <= n - failures
      BY <1>0, <1>k, <2>1
    <3>3. guesses[i + k] + SecondTicks > window
      BY <3>1, <3>2 DEF WebInv, Uncounted, n
    <3>4. window' <= window + 1 /\ window' \in Int
      BY <1>0, <1>4
    <3> QED BY <1>0, <3>1, <3>3, <3>4
  <2>2. window' = NoWindow => failures' = 0 /\ n - k = 0
    <3>1. window' = NoWindow => window = NoWindow
      BY <1>0, <1>4 DEF InWindow, NoWindow
    <3>2. window = NoWindow => failures = 0 /\ n = 0
      BY DEF WebInv, Uncounted, n
    <3> QED BY <1>0, <1>k, <1>4, <3>1, <3>2
  <2> QED BY <1>3, <1>4, <2>1, <2>2 DEF Uncounted
<1> QED BY <1>5, <1>7, <1>8, <1>9, <1>10 DEF WebInv

LEMMA WebAuthKeeps == ASSUME WebInv, [WebAuthNext]_webVars PROVE WebInv'
<1>1. CASE UNCHANGED webVars
  BY <1>1 DEF webVars, WebInv, WebAuthTypeOK, OldestFirst, Gathered, Uncounted
<1>2. CASE WebAuthNext
  BY <1>2, LoggingIn, LoggingOut, Retaining, Guessing, Ageing DEF WebAuthNext
<1> QED BY <1>1, <1>2

LEMMA WebAuthInvariant == WebAuthSpec => []WebInv
BY WebAuthStarts, WebAuthKeeps, PTL DEF WebAuthSpec

-----------------------------------------------------------------------------
(* Wrong passwords are looked at no more than 2 * FailureLimit - 1 times   *)
(* in any interval of Span (LoginSecurityRepository.record_failure).       *)
THEOREM LoginsAreThrottled == WebAuthSpec => []GuessesThrottled
<1>1. WebInv => GuessesThrottled
  BY ThrottleTypes DEF WebInv, Gathered, GuessesThrottled
<1> QED BY <1>1, WebAuthInvariant, PTL

(* A web session is accepted until its last second or its logout, and not  *)
(* after (WebSessionRepository.verify, purge_expired; cleanup_retention).  *)
THEOREM SessionsLastTheirTime == WebAuthSpec => []WebSessionsLast
<1>1. ASSUME WebInv PROVE WebSessionsLast
  <2> SUFFICES ASSUME NEW t \in Tokens
               PROVE  /\ Accepted(web[t]) => ~web[t].loggedOut /\ web[t].age < Lifetime
                      /\ (/\ web[t].issued /\ ~web[t].loggedOut
                          /\ web[t].age <= Lifetime - SecondTicks) => Accepted(web[t])
    BY DEF WebSessionsLast
  <2>1. SessionOK(web[t])
    BY <1>1 DEF WebInv
  <2>2. /\ web[t].left \in Int /\ web[t].age \in Nat /\ web[t].age <= Lifetime
    BY <1>1, SessionFields DEF WebInv
  <2> QED BY <2>1, <2>2, SpanBounds DEF SessionOK, Accepted, Expired
<1> QED BY <1>1, WebAuthInvariant, PTL
=============================================================================
