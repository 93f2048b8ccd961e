------------------------------- MODULE WebAuth ------------------------------
(***************************************************************************)
(* The operators' logins to the web UI: sessions and the throttle of one   *)
(* client address (webapi/auth.py and its repositories, webapi/routers/    *)
(* auth.py), and the retention job (maintenance.py).  All of it is in rows *)
(* and a handler has no await: one step each, and a restart of the server  *)
(* changes nothing.                                                        *)
(*                                                                         *)
(* Rows hold whole seconds.  Times are distances from now in ticks,        *)
(* SecondTicks to the second; `tick' is the fraction of the second.        *)
(***************************************************************************)
EXTENDS Integers, Sequences

CONSTANTS
  Tokens,         (* web sessions, each issued once                        *)
  SecondTicks,
  FailureLimit,   (* WEB_UI_LOGIN_FAILURE_LIMIT                            *)
  WindowSeconds,  (* WEB_UI_LOGIN_WINDOW_SECONDS                           *)
  BlockSeconds,   (* WEB_UI_LOGIN_BLOCK_SECONDS                            *)
  MaxAge          (* WEB_UI_SESSION_MAX_AGE_SECONDS                        *)

ASSUME WebAuthAssumption ==
  /\ SecondTicks \in Nat \ {0} /\ FailureLimit \in Nat \ {0}
  /\ WindowSeconds \in Nat \ {0} /\ BlockSeconds \in Nat \ {0, 1}
  /\ MaxAge \in Nat \ {0}

VARIABLES
  tick,      (* fraction of the current second                             *)
  failures,  (* web_login_security.failure_count, 0 without a row          *)
  window,    (* ticks since window_started_at, or NoWindow                 *)
  blocked,   (* ticks until blocked_until, 0 when it is NULL or past       *)
  guesses,   (* history: how long ago wrong passwords were looked at, for  *)
             (* those since the last login and within Span                 *)
  web        (* web_sessions, with the age and the logout as history       *)

webVars == <<tick, failures, window, blocked, guesses, web>>

NoWindow == -1
Window   == WindowSeconds * SecondTicks
Lifetime == MaxAge * SecondTicks

(* The rows' whole seconds shorten a window by less than a second and a    *)
(* block, which retry_after rounds down once more, by less than two.       *)
Span == LET w == (WindowSeconds - 1) * SecondTicks
            b == (BlockSeconds - 2) * SecondTicks
        IN  IF w < b THEN w ELSE b

WebSession ==
  [row : BOOLEAN, revoked : BOOLEAN, left : -SecondTicks .. Lifetime,
   age : 0 .. Lifetime, loggedOut : BOOLEAN, issued : BOOLEAN]

WebAuthTypeOK ==
  /\ tick \in 0 .. SecondTicks - 1
  /\ failures \in 0 .. FailureLimit - 1
  /\ window \in NoWindow .. Window + 1
  /\ blocked \in 0 .. BlockSeconds * SecondTicks
  /\ guesses \in Seq(0 .. Span)
  /\ web \in [Tokens -> WebSession]

WebAuthInit ==
  /\ tick = 0 /\ failures = 0 /\ window = NoWindow /\ blocked = 0 /\ guesses = <<>>
  /\ web = [t \in Tokens |-> [row |-> FALSE, revoked |-> FALSE, left |-> 0, age |-> 0,
                              loggedOut |-> FALSE, issued |-> FALSE]]

-----------------------------------------------------------------------------
RetryAfter == blocked \div SecondTicks          (* int() of the seconds    *)

ExpiredLate(s) == s.left < 0            (* mutant of Expired: off by one   *)

Expired(s)  == s.left <= 0
Accepted(s) == s.row /\ ~s.revoked /\ ~Expired(s)

(* issue_token purges before it creates.                                   *)
Purged(s) == IF Expired(s) \/ s.revoked THEN [s EXCEPT !.row = FALSE] ELSE s

LogIn(t) ==
  /\ RetryAfter = 0 /\ ~web[t].issued
  /\ failures' = 0 /\ window' = NoWindow /\ blocked' = 0 /\ guesses' = <<>>
  /\ web' = [u \in Tokens |->
       IF u = t THEN [row |-> TRUE, revoked |-> FALSE, left |-> Lifetime - tick,
                      age |-> 0, loggedOut |-> FALSE, issued |-> TRUE]
                ELSE Purged(web[u])]
  /\ UNCHANGED tick

LogOut(t) ==
  /\ web[t].issued
  /\ web' = [web EXCEPT ![t].revoked = TRUE, ![t].loggedOut = TRUE]
  /\ UNCHANGED <<tick, failures, window, blocked, guesses>>

(* record_failure: a window starts with its first failure, or a block.     *)
InWindow == window \in 0 .. Window
Counted  == IF InWindow THEN failures + 1 ELSE 1

BlocksLate == Counted > FailureLimit     (* mutant of Blocks: off by one   *)

Blocks == Counted >= FailureLimit

Guess ==
  /\ RetryAfter = 0
  /\ failures' = IF Blocks THEN 0 ELSE Counted
  /\ window' = IF Blocks \/ ~InWindow THEN tick ELSE window
  /\ blocked' = IF Blocks THEN BlockSeconds * SecondTicks - tick ELSE 0
  /\ guesses' = Append(guesses, 0)
  /\ UNCHANGED <<tick, web>>

(* cleanup_retention: expired rows, and revoked ones some day.             *)
Retention ==
  /\ \E kept \in SUBSET Tokens :
       /\ \A t \in Tokens \ kept : web[t].left <= -SecondTicks \/ web[t].revoked
       /\ \A t \in kept : web[t].row => web[t].left > -SecondTicks
       /\ web' = [t \in Tokens |-> IF t \in kept THEN web[t]
                                                 ELSE [web[t] EXCEPT !.row = FALSE]]
  /\ UNCHANGED <<tick, failures, window, blocked, guesses>>

WebTick ==
  /\ tick' = (tick + 1) % SecondTicks
  /\ window' = IF InWindow THEN window + 1 ELSE window
  /\ blocked' = IF blocked > 0 THEN blocked - 1 ELSE 0
  /\ \E k \in 0 .. Len(guesses) :                 (* the first k leave Span *)
       /\ \A i \in 1 .. Len(guesses) : i <= k <=> guesses[i] = Span
       /\ guesses' = [i \in 1 .. Len(guesses) - k |-> guesses[i + k] + 1]
  /\ web' = [t \in Tokens |->
       IF ~web[t].issued THEN web[t]
       ELSE [web[t] EXCEPT !.left = IF @ > -SecondTicks THEN @ - 1 ELSE @,
                           !.age = IF @ < Lifetime THEN @ + 1 ELSE @]]
  /\ UNCHANGED failures

WebAuthNext ==
  \/ WebTick \/ Guess \/ Retention
  \/ \E t \in Tokens : LogIn(t) \/ LogOut(t)

WebAuthSpec == WebAuthInit /\ [][WebAuthNext]_webVars

-----------------------------------------------------------------------------
(* Windows start with a failure and blocks end early by the rows' whole    *)
(* seconds, so failures can gather at the end of one window and the start  *)
(* of the next; still no more than 2 * FailureLimit - 1 wrong passwords    *)
(* are looked at in any interval of Span (298 s by default) without a      *)
(* login in between.                                                       *)
GuessesThrottled == Len(guesses) <= 2 * FailureLimit - 1

(* A session is accepted as long as its cookie lives, but for its last     *)
(* second, and never after a logout, although other logins purge the table *)
(* and the retention job cleans it.                                        *)
WebSessionsLast ==
  \A t \in Tokens :
    /\ Accepted(web[t]) => ~web[t].loggedOut /\ web[t].age < Lifetime
    /\ web[t].issued /\ ~web[t].loggedOut /\ web[t].age <= Lifetime - SecondTicks
         => Accepted(web[t])
=============================================================================
