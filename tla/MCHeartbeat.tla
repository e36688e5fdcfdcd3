---------------------------- MODULE MCHeartbeat ----------------------------
(* Values of the constants of Heartbeat that a .cfg cannot write. *)
EXTENDS Heartbeat

CONSTANTS a, b, k

MCBootstrap == <<a>>
MCOnDisk == <<[addr |-> b, key |-> NoKey], [addr |-> a, key |-> k]>>
MCExchanges == {<<b, a>>}
\* The rules of a file, or those of a checkpoint that took them up: one marks a peer,
\* one whoever goes.
MCRules ==
  <<OnTrigger("heartbeat_miss", 1, <<Say("log"), MarkInactive(k)>>),
    OnTrigger("peer_disconnected", 0, <<MarkInactive(k)>>),
    OnEvent("heartbeat_miss", <<>>)>>
MCRuleSources ==
  {[saved |-> <<>>, program |-> <<Say("let")>> \o MCRules],
   [saved |-> MCRules, program |-> NoFile]}
=============================================================================
