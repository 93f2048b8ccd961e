----------------------------- MODULE MCServices -----------------------------
(***************************************************************************)
(* Small instances of the web server's services for TLC.  Each behaviour   *)
(* exercises one of them, chosen by `service' at the start: they share no  *)
(* state in the models.                                                    *)
(***************************************************************************)
EXTENDS EventHub, RateLimit, QrLogin, Branches, Database, Import, WebAuth, TLC

CONSTANTS
  Services,          (* the services a run exercises                       *)
  p, b1, b2          (* a parent and its branches                          *)

VARIABLE service

-----------------------------------------------------------------------------
(* The programs of the units of module Database: an import (main.py:344    *)
(* in jobs.py:198), a deletion (jobs.py:537), a repository call, and the   *)
(* one that writes twice (account_repository.py:59).                       *)
UnitPrograms ==
  [import |-> <<"begin", "write", "commit", "begin", "write", "commit", "write",
                "commit", "end", "read", "write", "commit", "end">>,
   delete |-> <<"begin", "write", "write", "end">>,
   call   |-> <<"write", "commit">>,
   set_default |-> <<"read", "write", "write", "commit">>]

UnitNames == DOMAIN UnitPrograms

(* Two spellings of one number, another number, two spellings of no number.*)
SpellingsOf ==
  [n1 |-> "n1", n1local |-> "n1", n2 |-> "n2", x |-> NotANumber, X |-> NotANumber]
TextNames   == DOMAIN SpellingsOf
CasefoldOf  == [t \in TextNames |-> IF t = "X" THEN "x" ELSE t]
FileLines   == {<<t>> : t \in TextNames}
                 \cup {<<"n1", "n2">>, <<"n2", "n1local">>, <<"x", "n1">>}

-----------------------------------------------------------------------------
(* Handlers, coroutines, keys and branches are interchangeable, and so are *)
(* the tasks a job has one after another: they are taken in order, and a   *)
(* job's task has the job's name as long as that is free.                  *)
Asked   == {h \in Handlers : handler'[h].pc # "new"}
Started == {c \in Coroutines : coroutine'[c].kind # "none"}
InOrder(used, all) == \A x \in used : \A y \in all : y < x => y \in used

OwnSlot ==
  \A t \in Tasks : task[t] = Unused /\ task'[t] # Unused =>
    \/ t = task'[t].job
    \/ task[task'[t].job] # Unused

BranchSymmetry == Permutations(Branch)

(* Bound: with QR requests in a behaviour, two requests.                   *)
FewRequests ==
  Started = {} \/ Asked = {} \/ Cardinality(Started) + Cardinality(Asked) <= 2

-----------------------------------------------------------------------------
ServicesInit ==
  /\ service \in Services
  /\ HubInit /\ LimiterInit /\ AccountsInit /\ BranchesInit /\ DatabaseInit /\ ImportInit
  /\ WebAuthInit
  /\ service # "accounts" => account = 0 /\ legacy /\ authorised = {}

EventsStep  == HubNext
LimiterStep == LimiterNext
AccountsStep ==
  /\ AccountsNext /\ FewRequests
  /\ InOrder(Asked, Handlers) /\ InOrder(Started, Coroutines)
  /\ InOrder(Keys \ fresh', Keys)
BranchesStep == BranchesNext /\ OwnSlot
DatabaseStep == DatabaseNext
ImportStep   == ImportNext
WebAuthStep  == WebAuthNext

accountsVars == <<sessionsVars, qrVars>>
servicesVars == <<service, hubVars, limiterVars, accountsVars, branchVars, dbVars,
                  importVars, webVars>>

ServicesNext ==
  /\ UNCHANGED service
  /\ \/ /\ service = "events" /\ EventsStep
        /\ UNCHANGED <<limiterVars, accountsVars, branchVars, dbVars, importVars, webVars>>
     \/ /\ service = "limiter" /\ LimiterStep
        /\ UNCHANGED <<hubVars, accountsVars, branchVars, dbVars, importVars, webVars>>
     \/ /\ service = "accounts" /\ AccountsStep
        /\ UNCHANGED <<hubVars, limiterVars, branchVars, dbVars, importVars, webVars>>
     \/ /\ service = "branches" /\ BranchesStep
        /\ UNCHANGED <<hubVars, limiterVars, accountsVars, dbVars, importVars, webVars>>
     \/ /\ service = "database" /\ DatabaseStep
        /\ UNCHANGED <<hubVars, limiterVars, accountsVars, branchVars, importVars, webVars>>
     \/ /\ service = "import" /\ ImportStep
        /\ UNCHANGED <<hubVars, limiterVars, accountsVars, branchVars, dbVars, webVars>>
     \/ /\ service = "auth" /\ WebAuthStep
        /\ UNCHANGED <<hubVars, limiterVars, accountsVars, branchVars, dbVars, importVars>>

ServicesSpec == ServicesInit /\ [][ServicesNext]_servicesVars
=============================================================================
