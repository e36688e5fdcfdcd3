----------------------------- MODULE MCBehavior -----------------------------
EXTENDS Behavior
MCObservations ==
  {[build_ok |-> TRUE, warnings |-> 0], [build_ok |-> FALSE, warnings |-> 1]}
=============================================================================
