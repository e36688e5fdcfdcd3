----------------------------- MODULE MCRecords -----------------------------
EXTENDS Api
MCParentOf == [c \in Children |-> 1]
MCNodeOf == 1 :> "a" @@ 2 :> "b"
MCRules ==
  {[kind |-> "legacy", escapes |-> 0], [kind |-> "legacy", escapes |-> 1],
   [kind |-> "block", escapes |-> 0]}
Budget(a, p, r, s) ==
  [arrivals |-> a, posts |-> p, requests |-> r, starts |-> s, fresh |-> FALSE]
MCBudgets ==
  {Budget(0, 0, 1, 1), Budget(0, 0, 2, 0), Budget(0, 1, 1, 0),
   Budget(1, 0, 0, 1), Budget(0, 0, 0, 0),
   [Budget(0, 0, 0, 2) EXCEPT !.fresh = TRUE]}
MCShardOf == "x" :> 1 @@ "y" :> 2
=============================================================================
