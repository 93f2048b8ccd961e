----------------------------- MODULE ItemLedger -----------------------------
(***************************************************************************)
(* What the runtime promises about each number, whoever works on it and    *)
(* whatever fails: at most one request for it is open at a time, and every *)
(* request that ever left is accounted for before the next one leaves, as  *)
(* an answer (`answered' counts them, and the last one allowed settles the *)
(* number) or as one whose fate is unknown (`lost').                       *)
(***************************************************************************)
EXTENDS Naturals

CONSTANTS Items, Settled, MaxAttempts

VARIABLES phase, answered, lost

vars == <<phase, answered, lost>>

Init ==
  /\ phase = [i \in Items |-> "waiting"]
  /\ answered = [i \in Items |-> 0]
  /\ lost = [i \in Items |-> 0]

Send(i) ==
  /\ phase[i] \in {"waiting", "unknown"}
  /\ answered[i] < MaxAttempts
  /\ phase' = [phase EXCEPT ![i] = "sent"]
  /\ UNCHANGED <<answered, lost>>

Answer(i) ==
  /\ phase[i] = "sent"
  /\ answered' = [answered EXCEPT ![i] = @ + 1]
  /\ \/ \E r \in Settled : phase' = [phase EXCEPT ![i] = r]
     \/ answered[i] + 1 < MaxAttempts /\ phase' = [phase EXCEPT ![i] = "waiting"]
  /\ lost' = lost

(* Recovery gives up on several requests in one statement.                 *)
Lose(S) ==
  /\ S # {}
  /\ \A i \in S : phase[i] = "sent"
  /\ phase' = [i \in Items |-> IF i \in S THEN "unknown" ELSE phase[i]]
  /\ lost' = [i \in Items |-> IF i \in S THEN lost[i] + 1 ELSE lost[i]]
  /\ answered' = answered

Next == \/ \E i \in Items : Send(i) \/ Answer(i)
        \/ \E S \in SUBSET Items : Lose(S)

Spec == Init /\ [][Next]_vars
=============================================================================
