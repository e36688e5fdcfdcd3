------------------------------ MODULE Pipeline ------------------------------
(***************************************************************************)
(* The evaluation a node makes when it starts (crates/host/src/pipeline.rs):*)
(* the environment is read, the NEX program in it is executed and may       *)
(* replace the input, the state is scored (ai.rs) and decided (decision.rs),*)
(* and five artifacts are written, each by truncating its file and then     *)
(* filling it.  The process may end between any two steps and a later run   *)
(* writes over what is there.  Meanwhile another process verifies the files *)
(* (provenance/verify.rs), reading one after the other.                     *)
(*   The text of a file is the number of the run that wrote it: the times   *)
(* in the texts make them differ between runs, and the hash is injective.   *)
(***************************************************************************)
EXTENDS NexEval

CONSTANTS
  InputId,   \* the identifier input_value
  Inputs,    \* what a program may bind to it
  Configs,   \* what the environment may hold
  MaxRuns,   \* bound on the runs
  None

\* LgpdMetadata and what the environment may be read as.
LgpdMetadata ==
  [purpose : {"empty", "generic", "specific"}, retention : Nat,
   subject : BOOLEAN, consent : BOOLEAN, dpia : BOOLEAN]
ASSUME PipelineAssumption ==
  /\ None \notin Int
  /\ Inputs \subseteq Int
  /\ Configs \subseteq [scenario : STRING, threshold : Int, input : Int \cup {None},
                       lgpd : LgpdMetadata \cup {None}]

VARIABLES
  stage,     \* off, nex, write, or serving
  made,      \* the runs that reached a decision: the states they decided on
  files,     \* artifact -> its text
  written,   \* the artifacts this run has written
  open,      \* the next artifact is truncated and not yet filled
  seen       \* the texts the verifier has read

runVars == <<stage, made, files, written, open, seen>>
pipelineVars == <<nexVars, runVars>>

Artifacts == <<"state", "evidence", "decisions", "explain", "manifest">>
ReadOrder == <<"manifest", "decisions", "evidence", "state">>

\* Texts that are no run's: no file, an empty one, and a part of a text.
Absent == 0
Empty == -1
Partial == -2

-----------------------------------------------------------------------------
\* LgpdMetadata::validate()
Valid(lgpd) == lgpd.purpose # "empty" /\ lgpd.retention > 0

Points(condition, n) == IF condition THEN n ELSE 0
Meets(s) == s.value # None /\ s.value >= s.threshold

\* The score of a state in hundredths; its identity and time are always there.
EvidenceScore(s) ==
  LET held(field) == s.lgpd # None /\ s.lgpd[field] IN
  20 + Points(s.lgpd # None, 15)
     + Points(held("subject"), 10) + Points(held("consent"), 10) + Points(held("dpia"), 5)
     + Points(s.lgpd # None, IF s.lgpd.purpose = "specific" THEN 10 ELSE 5)
     + Points(s.threshold > 0, 5) + Points(s.value # None, 5) + Points(Meets(s), 15)

\* translate(): from the score to a strength.
EvidenceStrength(score) ==
  IF score < 30 THEN Unverifiable ELSE IF score >= 75 THEN Anchored
  ELSE IF score >= 55 THEN Signed ELSE IF score >= 35 THEN Witnessed ELSE Local

\* The two sides of the decision: an unverifiable state counts as local.
LeftStrength(s) ==
  LET strength == EvidenceStrength(EvidenceScore(s))
  IN IF strength = Unverifiable THEN Local ELSE strength
RightStrength == Local
\* resolve_quality_divergence(): the side chosen is the stronger one.
ChosenStrength(left, right) == IF left > right THEN left ELSE right

\* classify_auto() in units of 1/|threshold|: the bonus is a tenth of the margin
\* in percent, ten at most.
Size(s) == IF s.threshold = 0 THEN 1 ELSE IF s.threshold < 0 THEN -s.threshold ELSE s.threshold
Margin(s) == s.value - s.threshold
Bonus(s) ==
  IF s.threshold > 0 THEN Min({10 * Margin(s), 10 * Size(s)})
  ELSE IF s.threshold < 0 THEN Min({-10 * Margin(s), 10 * Size(s)})
  ELSE Points(s.value > 0, 10)
\* Mutant: the percentage below the threshold stays negative.
NegativeDeficit(s) ==
  IF s.threshold = 0 THEN 0 ELSE Min({100 * Margin(s), 100 * Size(s)})
Deficit(s) == IF s.threshold = 0 THEN 0 ELSE Min({-100 * Margin(s), 100 * Size(s)})

NetScore(s) ==
  (IF Margin(s) >= 0 THEN 25 * Size(s) + Bonus(s) ELSE -Deficit(s))
  + Points(s.lgpd # None, 15 * Size(s))
  + Points(s.lgpd # None /\ s.lgpd.subject, 5 * Size(s))
  + Points(s.lgpd # None /\ s.lgpd.consent, 5 * Size(s))
  - Points(s.threshold <= 0, 10 * Size(s))

\* resolve(): the limits of the three answers.
Resolved(s) ==
  IF NetScore(s) >= 25 * Size(s) THEN "ok"
  ELSE IF NetScore(s) <= -10 * Size(s) THEN "violacao" ELSE "absterse"
Status(s) ==
  IF s.scenario # "auto" THEN s.scenario
  ELSE IF s.value = None THEN "absterse" ELSE Resolved(s)

\* deterministic_run_id(): from the environment, before a program replaces the input.
RunId(s) == <<s.scenario, s.threshold, s.input>>

-----------------------------------------------------------------------------
PipelineInit ==
  /\ NexInit
  /\ stage = "nex" /\ made = <<>> /\ written = 0 /\ open = FALSE /\ seen = <<>>
  /\ files = [a \in Range(Artifacts) |-> Absent]

\* The interpreter is done with: its state is dropped.
NexDropped ==
  /\ source' = [f \in {} |-> 0] /\ frames' = <<>> /\ visited' = {} /\ program' = <<>>
  /\ working' = [i \in {} |-> 0] /\ subject' = {} /\ entries' = <<>>
  /\ outcome' = "dropped"

Interpret == stage = "nex" /\ NexNext /\ UNCHANGED runVars

\* An integer bound to input_value replaces the input; a program that fails
\* changes nothing.
Override ==
  IF outcome = "done" /\ InputId \in DOMAIN working /\ working[InputId].type = "i64"
  THEN Inputs ELSE {None}
NexOver == outcome \notin {"expanding", "running"}

Decided(c, v) ==
  [scenario |-> c.scenario, threshold |-> c.threshold, input |-> c.input, lgpd |-> c.lgpd,
   value |-> IF v = None THEN c.input ELSE v]

\* Bad metadata end the run, and with it the node, before anything is written;
\* so does a parser that panics.
Decide ==
  /\ stage = "nex" /\ NexOver
  /\ \/ /\ outcome = "Panic"
        /\ stage' = "off" /\ UNCHANGED made
     \/ /\ outcome # "Panic"
        /\ \E c \in Configs : \E v \in Override :
             IF c.lgpd = None \/ Valid(c.lgpd)
             THEN made' = Append(made, Decided(c, v)) /\ stage' = "write"
             ELSE stage' = "off" /\ UNCHANGED made
  /\ NexDropped
  /\ UNCHANGED <<files, written, open, seen>>

Truncate ==
  /\ stage = "write" /\ written < Len(Artifacts) /\ ~open
  /\ \E text \in {Empty, Partial} : files' = [files EXCEPT ![Artifacts[written + 1]] = text]
  /\ open' = TRUE
  /\ UNCHANGED <<nexVars, stage, made, written, seen>>
Fill ==
  /\ stage = "write" /\ open
  /\ files' = [files EXCEPT ![Artifacts[written + 1]] = Len(made)]
  /\ open' = FALSE /\ written' = written + 1
  /\ UNCHANGED <<nexVars, stage, made, seen>>

\* The EPA made of the artifacts goes to the node's list: see Records.
Serve ==
  /\ stage = "write" /\ written = Len(Artifacts)
  /\ stage' = "serving"
  /\ UNCHANGED <<nexVars, made, files, written, open, seen>>

\* The process ends, by the operator or not, and is started again, without a
\* program.
Stop ==
  /\ stage \in {"write", "serving"}
  /\ stage' = "off" /\ written' = 0 /\ open' = FALSE
  /\ UNCHANGED <<nexVars, made, files, seen>>
Start ==
  /\ stage = "off" /\ Len(made) < MaxRuns
  /\ stage' = "nex"
  /\ UNCHANGED <<nexVars, made, files, written, open, seen>>

-----------------------------------------------------------------------------
\* evidence_kind_strength() and the two records every run writes.
EvidenceKinds == <<Signed, Anchored>>
\* Mutant: a chain is as strong as its strongest record.
StrongestRecord == Max(Range(EvidenceKinds))
RecomputedStrength == Min(Range(EvidenceKinds))
\* declared_strength()
DeclaredStrength(run) == ChosenStrength(LeftStrength(made[run]), RightStrength)

\* Mutant: the state is not compared with the manifest.
ListedDecisions(manifest, decisions, evidence, state) ==
  decisions = manifest /\ evidence \in {Absent, Empty, manifest}

\* validate_manifest_artifact() of each text: evidence may be missing or empty,
\* a state may be missing.
Listed(manifest, decisions, evidence, state) ==
  /\ decisions = manifest
  /\ state \in {Absent, manifest}
  /\ evidence \in {Absent, Empty, manifest}

SameRunId(a, b) == RunId(made[a]) = RunId(made[b])

\* verify_directory(): error, or what its only entry says.
Report(manifest, decisions, evidence, state) ==
  IF manifest <= 0 \/ ~Listed(manifest, decisions, evidence, state) THEN "error"
  ELSE IF ~SameRunId(decisions, manifest) THEN "error"
  ELSE IF evidence # decisions THEN "no_evidence"
  ELSE IF RecomputedStrength >= DeclaredStrength(decisions) THEN "verified"
  ELSE "chain_too_weak"
Verdict(texts) == Report(texts[1], texts[2], texts[3], texts[4])

ReadArtifact ==
  /\ Len(seen) < 4
  /\ seen' = Append(seen, files[ReadOrder[Len(seen) + 1]])
  /\ UNCHANGED <<nexVars, stage, made, files, written, open>>
VerifyAgain ==
  /\ Len(seen) = 4
  /\ seen' = <<>>
  /\ UNCHANGED <<nexVars, stage, made, files, written, open>>

Run == Decide \/ Truncate \/ Fill \/ Serve \/ Stop \/ Start
Verifier == stage # "nex" /\ (ReadArtifact \/ VerifyAgain)
PipelineNext == Interpret \/ Run \/ Verifier
PipelineSpec == PipelineInit /\ [][PipelineNext]_pipelineVars /\ WF_nexVars(Interpret)

-----------------------------------------------------------------------------
\* verify.rs: whatever a verification reads while a run writes, and whatever
\* runs that ended half way have left, it finds nothing in order but the four
\* texts of one run.
VerifiedOneRun ==
  Len(seen) = 4 /\ Verdict(seen) = "verified" => \A i, j \in 1..4 : seen[i] = seen[j]

\* The artifacts of a run that was not cut short pass the verification, unless
\* the state was scored as anchored: the evidence a run writes never is.
FinishedRunVerifies ==
  stage = "serving" =>
    LET verdict == Verdict([i \in 1..4 |-> files[ReadOrder[i]]])
    IN verdict = IF LeftStrength(Last(made)) = Anchored THEN "chain_too_weak" ELSE "verified"

\* classify_auto(): with a positive threshold a greater input never makes the
\* decision worse, and one that meets it is accepted, whatever the metadata.
Rank(status) == CASE status = "ok" -> 2 [] status = "absterse" -> 1 [] OTHER -> 0
DecisionMonotone ==
  stage = "write" /\ written = 0 =>
    LET s == Last(made)  raised(v) == [s EXCEPT !.value = v] IN
    s.scenario = "auto" /\ s.threshold > 0 /\ s.value # None =>
      /\ Meets(s) => Status(s) = "ok"
      /\ \A v \in s.value..(s.value + 70) : Rank(Status(raised(v))) >= Rank(Status(s))
=============================================================================
