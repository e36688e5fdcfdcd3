------------------------------ MODULE NexEval ------------------------------
(***************************************************************************)
(* The NEX interpreter (crates/host/src/nex/eval.rs) on the lattice of      *)
(* evidence strengths (provenance/compose.rs, typed_node.rs, witness.rs).   *)
(* A program is expanded first, depth first through the files it uses, and  *)
(* only then evaluated, statement by statement.  A step is one import that  *)
(* is entered or left, or one statement.  Of a value only the type is kept; *)
(* of a node, what it rests on is kept as a history.                        *)
(***************************************************************************)
EXTENDS Integers, FiniteSets, Sequences, SequencesExt

CONSTANTS
  Main,      \* the program given to the interpreter
  Sources    \* functions from files to what parse() makes of them, or to <<Missing>>

Missing == [kind |-> "missing"]
Unreadable == {[kind |-> "error"], [kind |-> "panic"]}
Refusal(error, first) == IF first.kind = "panic" THEN "Panic" ELSE error

VARIABLES
  source,    \* the files of this execution
  frames,    \* the files being expanded, the program first
  visited,   \* files expanded
  program,   \* the statements not yet evaluated
  working,   \* identifier -> state of its node
  subject,   \* the node used last, in a set, or {}
  entries,   \* the trace
  outcome    \* expanding, running, done, or the error

nexVars == <<source, frames, visited, program, working, subject, entries, outcome>>

-----------------------------------------------------------------------------
Unverifiable == 0
Local == 1
Witnessed == 2
Signed == 3
Anchored == 4
Strengths == Unverifiable..Anchored

Uses(statements) ==
  LET uses == SelectSeq(statements, LAMBDA s : s.kind = "use")
  IN [i \in DOMAIN uses |-> uses[i].path]
Body(statements) == SelectSeq(statements, LAMBDA s : s.kind # "use")
Frame(f) == [file |-> f, imports |-> Uses(source[f]), expanded |-> <<>>]

\* What parse() leaves to evaluate: values of a type, strengths of the lattice, files
\* that can be looked for.
Types == {"i64", "string"}
Parsed == UNION {UNION {ToSet(Body(src[f])) : f \in DOMAIN src} : src \in Sources}
Evaluable ==
  {s \in Parsed :
     /\ s.kind = "node" => s.strength \in Strengths /\ s.value.type \in Types \cup {"ident"}
     /\ s.kind = "derive" => s.type \in Types}
ASSUME NexAssumption ==
  \A src \in Sources :
    /\ Main \in DOMAIN src
    /\ \A f \in DOMAIN src : Uses(src[f]) \in Seq(DOMAIN src) /\ Body(src[f]) \in Seq(Evaluable)

\* roots: the strengths that were declared or attested below a node.
NodeState(type, strength, roots) == [type |-> type, strength |-> strength, roots |-> roots]
NodeEntry(id, s) == [kind |-> "node", id |-> id, strength |-> s.strength]

Top == Last(frames)
Fail(error) ==
  /\ outcome' = error
  /\ UNCHANGED <<source, frames, visited, program, working, subject, entries>>

NexInit ==
  /\ source \in Sources
  /\ visited = {} /\ program = <<>> /\ working = [i \in {} |-> 0]
  /\ subject = {} /\ entries = <<>>
  /\ IF source[Main] # <<>> /\ source[Main][1] \in Unreadable
     THEN frames = <<>> /\ outcome = Refusal("ParseError", source[Main][1])
     ELSE frames = <<Frame(Main)>> /\ outcome = "expanding"

-----------------------------------------------------------------------------
\* The imports of the file on top still to be loaded.
\* Mutant: an import is not taken off the list.
RestKept == frames
Rest == [frames EXCEPT ![Len(frames)].imports = Tail(@)]

Expanding(f) == \E i \in 2..Len(frames) : frames[i].file = f

\* load_import(): the program itself is not on the stack of files.
ImportResult(f) ==
  IF Expanding(f) THEN "CircularImport"
  ELSE IF f \in visited THEN "visited"
  ELSE IF source[f] = <<Missing>> THEN "MissingImport"
  ELSE IF source[f] # <<>> /\ source[f][1] \in Unreadable
  THEN Refusal("ImportError", source[f][1])
  ELSE "entered"
EnterImport ==
  /\ outcome = "expanding" /\ frames # <<>> /\ Top.imports # <<>>
  /\ LET f == Head(Top.imports)
         result == ImportResult(f)
     IN CASE result = "entered" -> frames' = Append(Rest, Frame(f)) /\ UNCHANGED outcome
          [] result = "visited" -> frames' = Rest /\ UNCHANGED outcome
          [] OTHER -> outcome' = result /\ UNCHANGED frames
  /\ UNCHANGED <<source, visited, program, working, subject, entries>>

\* The statements of the imports come before those of the file.
LeaveImport ==
  /\ outcome = "expanding" /\ frames # <<>> /\ Top.imports = <<>>
  /\ LET statements == Top.expanded \o Body(source[Top.file])
         below == Front(frames)
     IN IF below = <<>>
        THEN /\ program' = statements /\ outcome' = "running"
             /\ frames' = <<>> /\ UNCHANGED visited
        ELSE /\ frames' = [below EXCEPT ![Len(below)].expanded = @ \o statements]
             /\ visited' = visited \cup {Top.file}
             /\ UNCHANGED <<program, outcome>>
  /\ UNCHANGED <<source, working, subject, entries>>

-----------------------------------------------------------------------------
\* Mutant: the node used last is the first.
InsertFirst(id, s) ==
  /\ working' = [i \in DOMAIN working \cup {id} |-> IF i = id THEN s ELSE working[i]]
  /\ subject' = IF subject = {} THEN {s} ELSE subject
  /\ entries' = Append(entries, NodeEntry(id, s))

\* A statement that makes a state for an identifier.
Insert(id, s) ==
  /\ working' = [i \in DOMAIN working \cup {id} |-> IF i = id THEN s ELSE working[i]]
  /\ subject' = {s}
  /\ entries' = Append(entries, NodeEntry(id, s))
Pending(kind) == outcome = "running" /\ program # <<>> /\ Head(program).kind = kind
Advance ==
  /\ program' = Tail(program)
  /\ UNCHANGED <<source, frames, visited, outcome>>

TypeOf(value) == IF value.type = "ident" THEN working[value.id].type ELSE value.type

EvalNode ==
  /\ Pending("node")
  /\ LET s == Head(program)
     IN IF s.value.type = "ident" /\ s.value.id \notin DOMAIN working
        THEN Fail("UnknownIdentifier")
        ELSE Insert(s.id, NodeState(TypeOf(s.value), s.strength, {s.strength})) /\ Advance

\* attest(): two witnesses; those made for a program are told apart by their
\* number, and the first is external if the program says so.
Attested(s) == s.witnesses >= 2 /\ s.external
AttestNode(current) == NodeState(current.type, Anchored, {Anchored})
EvalAttest ==
  /\ Pending("attest")
  /\ LET s == Head(program)
     IN IF s.id \notin DOMAIN working THEN Fail("UnknownIdentifier")
        ELSE IF working[s.id].strength # Signed THEN Fail("AttestationRequiresSigned")
        ELSE IF ~Attested(s) THEN Fail("AttestationFailed")
        ELSE Insert(s.id, AttestNode(working[s.id])) /\ Advance

\* Mutant: the strength of the left node.
ComposedLeft(l, r) == l

\* MinStrength, the 25 pairs of compose.rs.
Composed(l, r) == IF l <= r THEN l ELSE r

DeriveNode(l, r, type) ==
  NodeState(type, Composed(l.strength, r.strength), l.roots \cup r.roots)

EvalDerive ==
  /\ Pending("derive")
  /\ LET s == Head(program)
     IN IF {s.left, s.right} \ DOMAIN working # {} THEN Fail("UnknownIdentifier")
        ELSE LET l == working[s.left]  r == working[s.right]
             IN IF l.type # s.type \/ r.type # s.type THEN Fail("TypeMismatch")
                ELSE Insert(s.id, DeriveNode(l, r, s.type)) /\ Advance

EvalAssert ==
  /\ Pending("assert")
  /\ LET s == Head(program)
     IN IF s.id \notin DOMAIN working THEN Fail("UnknownIdentifier")
        ELSE IF working[s.id].strength < s.min THEN Fail("AssertionFailed")
        ELSE /\ subject' = {working[s.id]}
             /\ entries' = Append(entries, NodeEntry(s.id, working[s.id]))
             /\ UNCHANGED working /\ Advance

\* An identifier without a node is judged by the node used last.
Judged(id) == IF id \in DOMAIN working THEN {working[id]} ELSE subject
ActionEntry(id, requires, record) ==
  [kind |-> "act", id |-> id, strength |-> record.strength, requires |-> requires,
   granted |-> record.strength >= requires]
EvalAct ==
  /\ Pending("act")
  /\ LET s == Head(program)
     IN IF Judged(s.id) = {} THEN Fail("UnknownIdentifier")
        ELSE /\ \E record \in Judged(s.id) :
                  entries' = Append(entries, ActionEntry(s.id, s.requires, record))
             /\ UNCHANGED <<working, subject>> /\ Advance

\* evaluate_condition(): a clause about an unknown node does not hold, and
\* without the first node nothing does.
Holds(clause) ==
  clause[1] \in DOMAIN working /\ working[clause[1]].strength >= clause[2]
ConditionMet(s) ==
  /\ s.clauses[1][1] \in DOMAIN working
  /\ CASE s.op = "&&" -> Holds(s.clauses[1]) /\ Holds(s.clauses[2])
       [] s.op = "||" -> Holds(s.clauses[1]) \/ Holds(s.clauses[2])
       [] OTHER -> Holds(s.clauses[1])
\* The body is an action on the first node, required to be as strong as asked.
EvalIf ==
  /\ Pending("if")
  /\ LET s == Head(program)
         clause == s.clauses[1]
     IN IF ConditionMet(s)
        THEN entries' = Append(entries,
                               ActionEntry(clause[1], clause[2], working[clause[1]]))
        ELSE UNCHANGED entries
  /\ UNCHANGED <<working, subject>> /\ Advance

\* Rules and blocks are for the reactive engine.
EvalReactive ==
  /\ outcome = "running" /\ program # <<>> /\ Head(program).kind \in {"on", "block"}
  /\ UNCHANGED <<working, subject, entries>> /\ Advance

Finish ==
  /\ outcome = "running" /\ program = <<>>
  /\ outcome' = "done"
  /\ UNCHANGED <<source, frames, visited, program, working, subject, entries>>

Statement ==
  \/ EvalNode \/ EvalAttest \/ EvalDerive \/ EvalAssert
  \/ EvalAct \/ EvalIf \/ EvalReactive
NexNext == EnterImport \/ LeaveImport \/ Statement \/ Finish
NexSpec == NexInit /\ [][NexNext]_nexVars

-----------------------------------------------------------------------------
\* Type invariant: what is evaluated has a type and a strength, and nothing is
\* evaluated while imports are being expanded.
NexTypeOK ==
  /\ \A i \in DOMAIN working :
       working[i].strength \in Strengths /\ working[i].type \in Types
  /\ outcome = "expanding" => working = [i \in {} |-> 0] /\ entries = <<>>
  /\ outcome \in {"expanding", "running", "done", "Panic", "ParseError", "CircularImport",
                  "MissingImport", "ImportError", "UnknownIdentifier", "TypeMismatch",
                  "AttestationRequiresSigned", "AttestationFailed", "AssertionFailed"}

\* compose.rs: no chain of derivations, copies of identifiers and bindings
\* anew makes a node stronger than the weakest of what it rests on.
WeakestLink ==
  \A i \in DOMAIN working :
    /\ working[i].strength \in working[i].roots
    /\ \A r \in working[i].roots : working[i].strength <= r

\* The trace explains every action: the node it was judged by was shown before
\* with that strength, also when the identifier has no node; where it has one,
\* it is the last that was shown of it.
TraceExplains ==
  \A j \in DOMAIN entries : entries[j].kind = "act" =>
    LET shown == {i \in 1..(j - 1) : entries[i].kind = "node"}
        named == {i \in shown : entries[i].id = entries[j].id}
        last == IF named # {} THEN Max(named) ELSE Max(shown)
    IN shown # {} /\ entries[last].strength = entries[j].strength

\* Every program ends, with its trace or with an error, however the files use
\* one another.
ExecutionEnds == <>(outcome \notin {"expanding", "running"})

=============================================================================
