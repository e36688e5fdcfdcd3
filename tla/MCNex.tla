------------------------------- MODULE MCNex -------------------------------
(***************************************************************************)
(* Sources for NexEval: every choice of a program and two libraries from    *)
(* lines that each bring one construct of the language, put through the     *)
(* parser; and environments for Pipeline, on both sides of its limits.      *)
(***************************************************************************)
EXTENDS NexParser, Pipeline, TLC

MCNumberOf == ("-1" :> -1) @@ ("0" :> 0) @@ ("2" :> 2) @@ ("17" :> 17)
MCWords ==
  {"x", "y", "node", "lib", "util", "main"} \cup
  {"use", "let", "derive", "as", "i64", "string", "attest", "with", "external", "true",
   "false", "assert", "act", "allow", "requires", "if", "&&", "on", "event",
   "heartbeat_miss", "peer_connected", "ZkProofInvalid", "threshold", "window", "s",
   "for", "log", "emit"} \cup {"unverifiable", "local", "witnessed", "signed", "anchored"}
Files == {"main", "lib", "util"}

Let(id, value, strength) == <<"let", id, "=", "node", value, strength>>
Derived(id, l, r) == <<"let", id, "=", l, "derive", r, "as", "i64">>
Header(threshold) ==
  <<"on", "event", "ZkProofInvalid", "(", "threshold", ":", threshold, ",", "window", ":",
    "2", "s", ")", "for", "x", "{">>

\* Statements of programs, good and bad, and blocks of several lines.
Lines ==
  {<<Let("x", "2", "signed")>>, <<Let("y", "x", "anchored")>>,
   <<Let("x", "2", "local")>>, <<Let("y", "s_", "witnessed")>>,
   <<Derived("y", "x", "y")>>, <<Derived("x", "y", "x")>>,
   <<Derived("x", "x", "x")>>,
   <<<<"attest", "x", "with", "2", "external", "true">>>>,
   <<<<"attest", "x", "with", "2", "external", "false">>>>,
   <<<<"assert", "x", ">=", "signed">>>>,
   <<<<"act", "y", "=", "allow", "requires", "anchored">>>>}
Rare ==
  {<<<<"let", "x", "=", "node", "-1">>>>,
   <<<<"attest", "x", "with", "-1", "external", "true">>>>,
   <<<<"if", "x", ">=", "signed", ":", "allow">>>>,
   <<<<"on", "heartbeat_miss", ">", "2", ":", "log", "s_", ",", "emit", "x">>>>,
   <<<<"on", "heartbeat_miss", ">", "2", ":", "log", "x">>>>,
   <<<<"on", "peer_connected", ":">>>>,
   <<Header("17"), <<"}">>>>, <<Header("2")>>, <<<<"}">>>>, <<OtherVersion>>,
   <<Header("2"), Let("x", "2", "signed"), <<>>, <<"}", "act", "x">>, Let("x", "2", "local")>>}

Alone(lines) == [f \in Files |-> IF f = "main" THEN parse(lines) ELSE <<Missing>>]
Programs ==
  {Alone(l1 \o l2 \o l3) : l1 \in Lines, l2 \in Lines, l3 \in Lines}
  \cup {Alone(l1 \o l2) : l1 \in Rare, l2 \in {<<>>} \cup Lines}
  \cup {Alone(l1 \o l2) : l1 \in Lines, l2 \in Rare}

\* Three files that use one another in every way, a circle included.
UseLines == {<<>>, <<<<"use", "lib">>>>, <<<<"use", "util">>>>,
             <<<<"use", "lib">>, <<"use", "util">>>>, <<<<"use", "main">>>>}
Libs ==
  {<<Missing>>, parse(<<<<"use">>>>), parse(<<<<"on", "peer_connected", ":">>>>)}
  \cup {parse(u \o <<Let("x", "2", "signed")>>) : u \in UseLines}
Importing ==
  {[main |-> parse(u \o <<Let("y", "x", "local")>>), lib |-> l, util |-> m] :
     u \in UseLines, l \in Libs, m \in Libs}

\* A conditional as a host builds it: the parser accepts none.
Built ==
  {<<[kind |-> "node", id |-> "x", value |-> [type |-> "i64", id |-> ""], strength |-> s],
     [kind |-> "if", op |-> op, clauses |-> <<<<"x", 3>>, <<"y", 1>>>>]>> :
     s \in 2..4, op \in {"", "&&", "||"}}
MCSources ==
  Programs \cup Importing
  \cup {[f \in Files |-> IF f = "main" THEN b ELSE <<Missing>>] : b \in Built}

Metadata(purpose, retention, identified, consent) ==
  [purpose |-> purpose, retention |-> retention, subject |-> identified,
   consent |-> consent, dpia |-> consent]
Config(scenario, threshold, input, lgpd) ==
  [scenario |-> scenario, threshold |-> threshold, input |-> input, lgpd |-> lgpd]
MCInputs == {3, 55}
MCConfigs ==
  {Config("auto", 50, 60, None),
   Config("auto", 50, 46, None),
   Config("auto", 50, 60, Metadata("specific", 1, TRUE, TRUE)),
   Config("auto", 50, 44, Metadata("generic", 1, TRUE, FALSE)),
   Config("auto", 0, None, None),
   Config("auto", -1, 9, None),
   Config("violacao", 50, 60, None),
   Config("auto", 50, 60, Metadata("specific", 0, FALSE, FALSE)),
   Config("auto", 50, 60, Metadata("empty", 1, FALSE, FALSE))}
=============================================================================
