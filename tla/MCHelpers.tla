------------------------------ MODULE MCHelpers -----------------------------
(* The caches and the limiters for TLC: a behaviour exercises one of them, *)
(* chosen at the start, and the others stay in their first state.          *)
EXTENDS MCCache, MCTaskCall, QpsLimiter, RateWindow

VARIABLE which

helperVars == <<which, vars, qpsVars, callVars, windowVars>>

HelpersInit ==
  /\ which \in {"cache", "qps", "call", "window"}
  /\ Init /\ QpsInit /\ CallInit /\ WindowInit
  /\ which # "cache" => config = Single
  /\ which # "qps" => limit = 0
  /\ which # "call" => setup = OneSlot

HelpersNext ==
  /\ UNCHANGED which
  /\ \/ which = "cache" /\ Next /\ UNCHANGED <<qpsVars, callVars, windowVars>>
     \/ which = "qps" /\ QpsNext /\ UNCHANGED <<vars, callVars, windowVars>>
     \/ which = "call" /\ CallNext /\ UNCHANGED <<vars, qpsVars, windowVars>>
     \/ which = "window" /\ WindowNext /\ UNCHANGED <<vars, qpsVars, callVars>>

HelpersSpec == HelpersInit /\ [][HelpersNext]_helperVars
=============================================================================
