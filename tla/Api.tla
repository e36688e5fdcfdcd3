-------------------------------- MODULE Api --------------------------------
(***************************************************************************)
(* The HTTP API of a node (network/api.rs): every request but GET /health  *)
(* passes the limiter before its handler, and the requests that change the *)
(* records (Records) are let through by the same limiter as those that     *)
(* only read.  The limiter ends with the process.                          *)
(***************************************************************************)
EXTENDS Records, RateLimiter

CONSTANTS
  Writers,      \* bound: the sources of requests that change something
  ReadBudget    \* bound: requests that only read, in a behaviour without others
ASSUME ApiAssumption == Writers \subseteq Sources /\ ReadBudget \in Nat

VARIABLE readings         \* what is left of that budget; time passes only under it

apiVars == <<recordsVars, limiterVars, readings>>

ApiInit ==
  /\ RecordsInit /\ LimiterInit
  /\ readings = IF arrivals + posts + requests + starts = 0 THEN ReadBudget ELSE 0

-----------------------------------------------------------------------------
\* The routes that change something.
Route == \/ \E id \in Ids : ReceiveEpa(id)
         \/ ReceiveEncryptedEpa
         \/ \E h \in Handlers : AskAnonymize(h) \/ AskRevoke(h)
\* The middleware lets a request of s through to its handler ...
Requested(s) ==
  /\ Up /\ Admit(s)
  /\ \/ s \in Writers /\ Route /\ UNCHANGED readings
     \/ /\ readings > 0 /\ readings' = readings - 1
        /\ UNCHANGED recordsVars
\* ... or answers TOO_MANY_REQUESTS itself.
TooMany(s) ==
  /\ Up /\ Refuse(s) /\ readings > 0
  /\ readings' = readings - 1
  /\ UNCHANGED recordsVars

\* All that does not come over HTTP.
Inside ==
  \/ \E s \in Savers : Saving(s)
  \/ Task \/ Main \/ Discover \/ Crash \/ Start \/ Generates \/ FillsIdentity
  \/ \E n \in Range(NodeOf) : RuleAdjusts(n)
  \/ \E id \in Ids : EpaMessage(id)
  \/ \E h \in Handlers : Serving(h)
Ends == main.pc # "down" /\ main'.pc = "down"

ApiNext ==
  \/ \E s \in Sources : Requested(s) \/ TooMany(s)
  \/ Inside /\ (IF Ends THEN Renewed ELSE UNCHANGED limiterVars) /\ UNCHANGED readings
  \/ Up /\ Sweeper /\ UNCHANGED <<recordsVars, readings>>
  \/ readings > 0 /\ LimiterTick /\ UNCHANGED <<recordsVars, readings>>

\* The runtime goes on with a task that can go on.
ApiSpec ==
  /\ ApiInit /\ [][ApiNext]_apiVars
  /\ \A h \in Handlers : WF_apiVars(Serving(h) /\ UNCHANGED <<limiterVars, readings>>)
=============================================================================
