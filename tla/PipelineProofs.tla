--------------------------- MODULE PipelineProofs ---------------------------
(***************************************************************************)
(* Evaluation on the lattice of strengths, and the run that writes its      *)
(* artifacts, for all sources a parser may hand over and all environments:  *)
(* whatever is imported, in whatever order, the strength of a node is the   *)
(* weakest below it and the trace shows what an action was judged by;       *)
(* whenever a run ends, what verifies is the work of one run.               *)
(***************************************************************************)
EXTENDS Pipeline, TLAPS

Frames(src) ==
  [file : DOMAIN src, imports : Seq(DOMAIN src), expanded : Seq(Evaluable)]

\* What a node is: its type, and a strength that none of its roots is below.
Sound(node) ==
  /\ node.type \in Types /\ node.strength \in Strengths
  /\ node.roots \subseteq Strengths /\ node.strength \in node.roots
  /\ \A r \in node.roots : node.strength <= r

Outcomes ==
  {"expanding", "running", "done", "Panic", "ParseError", "CircularImport",
   "MissingImport", "ImportError", "UnknownIdentifier", "TypeMismatch",
   "AttestationRequiresSigned", "AttestationFailed", "AssertionFailed"}

NexInv ==
  /\ source \in Sources
  /\ frames \in Seq(Frames(source))
  /\ program \in Seq(Evaluable)
  /\ \A i \in DOMAIN working : Sound(working[i])
  /\ outcome \in Outcomes
  /\ outcome = "expanding" => working = [i \in {} |-> 0] /\ entries = <<>>

\* A file that is entered: its imports ahead, nothing expanded.
LEMMA FrameTyped ==
  ASSUME source \in Sources, NEW f \in DOMAIN source
  PROVE  Frame(f) \in Frames(source)
BY NexAssumption DEF NexAssumption, Frame, Frames

\* A frame that goes on to its next import, or takes what one expanded to.
LEMMA FrameChanged ==
  ASSUME NEW src, NEW fr \in Frames(src)
  PROVE  /\ \A x \in Seq(DOMAIN src) : [fr EXCEPT !.imports = x] \in Frames(src)
         /\ \A x \in Seq(Evaluable) : [fr EXCEPT !.expanded = x] \in Frames(src)
BY DEF Frames

\* The strengths are the numbers 0 to 4.
LEMMA LocalSound == Strengths = 0..4
BY DEF Strengths, Unverifiable, Anchored

\* The weaker of two sound nodes is sound over what both rest on.
LEMMA ComposedSound ==
  ASSUME NEW l, Sound(l), NEW r, Sound(r), NEW type \in Types
  PROVE  Sound(DeriveNode(l, r, type))
<1>1. /\ l.strength \in 0..4 /\ r.strength \in 0..4
      /\ l.roots \subseteq 0..4 /\ r.roots \subseteq 0..4
  BY LocalSound DEF Sound
<1>2. /\ DeriveNode(l, r, type).type = type
      /\ DeriveNode(l, r, type).strength = Composed(l.strength, r.strength)
      /\ DeriveNode(l, r, type).roots = l.roots \cup r.roots
  BY DEF DeriveNode, NodeState
<1>3. CASE l.strength <= r.strength
  <2>1. Composed(l.strength, r.strength) = l.strength
    BY <1>3 DEF Composed
  <2>2. \A x \in l.roots \cup r.roots : l.strength <= x
    BY <1>1, <1>3 DEF Sound
  <2> QED  BY <1>1, <1>2, <2>1, <2>2, LocalSound DEF Sound
<1>4. CASE ~(l.strength <= r.strength)
  <2>1. Composed(l.strength, r.strength) = r.strength
    BY <1>4 DEF Composed
  <2>2. \A x \in l.roots \cup r.roots : r.strength <= x
    BY <1>1, <1>4 DEF Sound
  <2> QED  BY <1>1, <1>2, <2>1, <2>2, LocalSound DEF Sound
<1> QED  BY <1>3, <1>4

\* A node that rests on itself alone is as strong as that.
LEMMA RootSound ==
  ASSUME NEW type \in Types, NEW s \in Strengths
  PROVE  Sound(NodeState(type, s, {s}))
BY LocalSound DEF Sound, NodeState

\* A statement that makes a node makes a sound one.
LEMMA InsertKeeps ==
  ASSUME NexInv, NEW id, NEW s, Sound(s), Insert(id, s), Advance,
         program # <<>>, outcome # "expanding"
  PROVE  NexInv'
<1>1. \A i \in DOMAIN working' : Sound(working'[i])
  BY DEF Insert, NexInv
<1>2. /\ source' = source /\ frames' = frames /\ outcome' = outcome
      /\ program' \in Seq(Evaluable)
  BY DEF Advance, NexInv
<1> QED  BY <1>1, <1>2 DEF NexInv

\* A statement that makes no node changes none.
LEMMA PassesKeeps ==
  ASSUME NexInv, working' = working, Advance, program # <<>>, outcome # "expanding"
  PROVE  NexInv'
BY DEF NexInv, Advance

\* An error ends the execution with the nodes as they are.
LEMMA FailKeeps ==
  ASSUME NexInv, NEW error \in Outcomes, error # "expanding", Fail(error)
  PROVE  NexInv'
BY DEF NexInv, Fail

\* The start: the main file of a source is entered, nothing is evaluated.
LEMMA NexInitially == NexInit => NexInv
<1> SUFFICES ASSUME NexInit PROVE NexInv
  OBVIOUS
<1>1. source \in Sources /\ Main \in DOMAIN source
  BY NexAssumption DEF NexInit, NexAssumption
<1>2. frames \in Seq(Frames(source)) /\ outcome \in Outcomes
  <2>1. CASE frames = <<>> /\ outcome = Refusal("ParseError", source[Main][1])
    BY <2>1 DEF Refusal, Outcomes
  <2>2. CASE frames = <<Frame(Main)>> /\ outcome = "expanding"
    BY <1>1, <2>2, FrameTyped DEF Outcomes
  <2> QED  BY <2>1, <2>2 DEF NexInit
<1>3. program = <<>> /\ working = [i \in {} |-> 0] /\ entries = <<>>
  BY DEF NexInit
<1> QED  BY <1>1, <1>2, <1>3 DEF NexInv

\* An import is entered, or refused.
LEMMA EnterKeeps ==
  ASSUME NexInv, EnterImport
  PROVE  NexInv'
<1>1. /\ frames \in Seq(Frames(source)) /\ frames # <<>> /\ Top.imports # <<>>
      /\ source \in Sources
  BY DEF EnterImport, NexInv
<1>2. Top \in Frames(source) /\ Top = frames[Len(frames)] /\ Len(frames) \in DOMAIN frames
  BY <1>1 DEF Top, Last
<1> DEFINE f == Head(Top.imports)
<1>3. f \in DOMAIN source
  BY <1>1, <1>2 DEF Frames
<1>4. Rest \in Seq(Frames(source))
  <2>1. Tail(Top.imports) \in Seq(DOMAIN source)
    BY <1>1, <1>2 DEF Frames
  <2>2. [Top EXCEPT !.imports = Tail(Top.imports)] \in Frames(source)
    BY <1>2, <2>1, FrameChanged
  <2>3. Rest = [frames EXCEPT ![Len(frames)] = [Top EXCEPT !.imports = Tail(Top.imports)]]
    BY <1>2 DEF Rest
  <2> QED  BY <1>1, <1>2, <2>2, <2>3
<1>5. /\ source' = source /\ working' = working /\ entries' = entries /\ program' = program
      /\ outcome = "expanding"
  BY DEF EnterImport
<1>6. CASE ImportResult(f) = "entered"
  <2>1. frames' = Append(Rest, Frame(f)) /\ outcome' = outcome
    BY <1>6 DEF EnterImport
  <2>2. frames' \in Seq(Frames(source))
    BY <1>1, <1>3, <1>4, <2>1, FrameTyped
  <2> QED  BY <1>5, <2>1, <2>2 DEF NexInv
<1>7. CASE ImportResult(f) = "visited"
  <2>1. frames' = Rest /\ outcome' = outcome
    BY <1>7 DEF EnterImport
  <2> QED  BY <1>4, <1>5, <2>1 DEF NexInv
<1>8. CASE ImportResult(f) \notin {"entered", "visited"}
  <2>1. frames' = frames /\ outcome' = ImportResult(f)
    BY <1>8 DEF EnterImport
  <2>2. ImportResult(f) \in {"CircularImport", "MissingImport", "Panic", "ImportError"}
    BY <1>8 DEF ImportResult, Refusal
  <2> QED  BY <1>5, <2>1, <2>2 DEF NexInv, Outcomes
<1> QED  BY <1>6, <1>7, <1>8

\* A file is left: its statements go to the file that imports it, or are run.
LEMMA LeaveKeeps ==
  ASSUME NexInv, LeaveImport
  PROVE  NexInv'
<1>1. frames \in Seq(Frames(source)) /\ frames # <<>> /\ source \in Sources
  BY DEF LeaveImport, NexInv
<1>2. Top \in Frames(source)
  BY <1>1 DEF Top, Last
<1> DEFINE statements == Top.expanded \o Body(source[Top.file])
           below == Front(frames)
<1>3. statements \in Seq(Evaluable)
  <2>1. Top.expanded \in Seq(Evaluable) /\ Top.file \in DOMAIN source
    BY <1>2 DEF Frames
  <2>2. Body(source[Top.file]) \in Seq(Evaluable)
    BY <1>1, <2>1, NexAssumption DEF NexAssumption
  <2> QED  BY <2>1, <2>2
<1>4. below \in Seq(Frames(source))
  BY <1>1 DEF Front
<1>5. /\ source' = source /\ working' = working /\ entries' = entries
      /\ outcome = "expanding"
      /\ \/ program' = statements /\ outcome' = "running" /\ frames' = <<>>
         \/ /\ below # <<>> /\ program' = program /\ outcome' = outcome
            /\ frames' = [below EXCEPT ![Len(below)].expanded = @ \o statements]
  BY DEF LeaveImport
<1> HIDE DEF statements, below
<1>6. CASE program' = statements /\ outcome' = "running" /\ frames' = <<>>
  BY <1>3, <1>5, <1>6 DEF NexInv, Outcomes
<1>7. CASE /\ below # <<>> /\ program' = program /\ outcome' = outcome
           /\ frames' = [below EXCEPT ![Len(below)].expanded = @ \o statements]
  <2>1. Len(below) \in DOMAIN below /\ below[Len(below)] \in Frames(source)
    BY <1>4, <1>7
  <2> DEFINE last == below[Len(below)]
             longer == last.expanded \o statements
  <2>2. longer \in Seq(Evaluable)
    BY <1>3, <2>1 DEF Frames
  <2> HIDE DEF last, longer
  <2>3. [last EXCEPT !.expanded = longer] \in Frames(source)
    BY <2>1, <2>2, FrameChanged DEF last
  <2>4. frames' = [below EXCEPT ![Len(below)] = [last EXCEPT !.expanded = longer]]
    BY <1>7 DEF last, longer
  <2>5. frames' \in Seq(Frames(source))
    BY <1>4, <2>1, <2>3, <2>4
  <2> QED  BY <1>5, <1>7, <2>5 DEF NexInv
<1> QED  BY <1>5, <1>6, <1>7

\* Each kind of statement that is evaluated.
LEMMA StatementKeeps ==
  ASSUME NexInv, Statement
  PROVE  NexInv'
<1>1. outcome = "running" /\ program # <<>> /\ Head(program) \in Evaluable
  BY DEF Statement, EvalNode, EvalAttest, EvalDerive, EvalAssert, EvalAct, EvalIf,
         EvalReactive, Pending, NexInv
<1> DEFINE s == Head(program)
<1>2. CASE EvalNode
  <2>1. /\ s.strength \in Strengths /\ s.value.type \in Types \cup {"ident"}
    BY <1>1, <1>2 DEF EvalNode, Pending, Evaluable
  <2>2. CASE s.value.type = "ident" /\ s.value.id \notin DOMAIN working
    BY <1>1, <1>2, <2>2, FailKeeps DEF EvalNode, Outcomes
  <2>3. CASE ~(s.value.type = "ident" /\ s.value.id \notin DOMAIN working)
    <3>1. TypeOf(s.value) \in Types
      BY <2>1, <2>3 DEF TypeOf, NexInv, Sound, Types
    <3>2. Sound(NodeState(TypeOf(s.value), s.strength, {s.strength}))
      BY <2>1, <3>1, RootSound
    <3>3. /\ Insert(s.id, NodeState(TypeOf(s.value), s.strength, {s.strength}))
          /\ Advance
      BY <1>2, <2>3 DEF EvalNode
    <3> QED  BY <1>1, <3>2, <3>3, InsertKeeps
  <2> QED  BY <2>2, <2>3
<1>3. CASE EvalAttest
  <2>1. CASE \E error \in {"UnknownIdentifier", "AttestationRequiresSigned",
                           "AttestationFailed"} : Fail(error)
    BY <2>1, FailKeeps DEF Outcomes
  <2>2. CASE /\ s.id \in DOMAIN working
             /\ Insert(s.id, AttestNode(working[s.id])) /\ Advance
    <3>1. Sound(AttestNode(working[s.id]))
      <4>1. working[s.id].type \in Types /\ Anchored \in Strengths
        BY <2>2, LocalSound DEF NexInv, Sound, Anchored
      <4> QED  BY <4>1, RootSound DEF AttestNode
    <3> QED  BY <1>1, <2>2, <3>1, InsertKeeps
  <2> QED  BY <1>3, <2>1, <2>2 DEF EvalAttest
<1>4. CASE EvalDerive
  <2>1. s.type \in Types
    BY <1>1, <1>4 DEF EvalDerive, Pending, Evaluable
  <2>2. CASE \E error \in {"UnknownIdentifier", "TypeMismatch"} : Fail(error)
    BY <2>2, FailKeeps DEF Outcomes
  <2>3. CASE /\ {s.left, s.right} \ DOMAIN working = {}
             /\ Insert(s.id, DeriveNode(working[s.left], working[s.right], s.type))
             /\ Advance
    <3>1. Sound(working[s.left]) /\ Sound(working[s.right])
      BY <2>3 DEF NexInv
    <3>2. Sound(DeriveNode(working[s.left], working[s.right], s.type))
      BY <2>1, <3>1, ComposedSound
    <3> QED  BY <1>1, <2>3, <3>2, InsertKeeps
  <2> QED  BY <1>4, <2>2, <2>3 DEF EvalDerive
<1>5. CASE EvalAssert
  <2>1. CASE \E error \in {"UnknownIdentifier", "AssertionFailed"} : Fail(error)
    BY <2>1, FailKeeps DEF Outcomes
  <2>2. CASE working' = working /\ Advance
    BY <1>1, <2>2, PassesKeeps
  <2> QED  BY <1>5, <2>1, <2>2 DEF EvalAssert
<1>6. CASE EvalAct
  <2>1. CASE Fail("UnknownIdentifier")
    BY <2>1, FailKeeps DEF Outcomes
  <2>2. CASE working' = working /\ Advance
    BY <1>1, <2>2, PassesKeeps
  <2> QED  BY <1>6, <2>1, <2>2 DEF EvalAct
<1>7. CASE EvalIf
  BY <1>1, <1>7, PassesKeeps DEF EvalIf
<1>8. CASE EvalReactive
  BY <1>1, <1>8, PassesKeeps DEF EvalReactive
<1> QED  BY <1>2, <1>3, <1>4, <1>5, <1>6, <1>7, <1>8 DEF Statement

\* Each step, by the three lemmas before.
LEMMA NexKeeps == NexInv /\ [NexNext]_nexVars => NexInv'
<1> SUFFICES ASSUME NexInv, [NexNext]_nexVars PROVE NexInv'
  OBVIOUS
<1>1. CASE Finish
  BY <1>1 DEF Finish, NexInv, Outcomes
<1>2. CASE UNCHANGED nexVars
  BY <1>2 DEF nexVars, NexInv
<1> QED  BY <1>1, <1>2, EnterKeeps, LeaveKeeps, StatementKeeps DEF NexNext

\* The interpreter, for all sources: what is evaluated has a type and a strength, nothing
\* is evaluated while imports are expanded, and it ends in no state but those known.
THEOREM NexTypeCorrect == NexSpec => []NexTypeOK
<1>1. NexInv => NexTypeOK
  BY DEF NexInv, NexTypeOK, Sound, Outcomes
<1> QED  BY <1>1, NexInitially, NexKeeps, PTL DEF NexSpec

\* compose.rs, for all sources: no chain of derivations, copies and bindings anew, across
\* files or not, makes a node stronger than the weakest of what it rests on.
THEOREM NexWeakestLink == NexSpec => []WeakestLink
<1>1. NexInv => WeakestLink
  BY DEF NexInv, WeakestLink, Sound
<1> QED  BY <1>1, NexInitially, NexKeeps, PTL DEF NexSpec

-----------------------------------------------------------------------------
\* What the first n entries of a trace show of a node, and of all; the last of these.
Named(es, n, id) == {i \in 1..n : es[i].kind = "node" /\ es[i].id = id}
Shown(es, n) == {i \in 1..n : es[i].kind = "node"}
IsLast(m, S) == m \in S /\ \A i \in S : i <= m

\* Each action was shown what it was judged by; each node, and the one used last, is
\* shown with the strength it has, and nothing is shown that is not a node.
Explained(es, j) ==
  LET named == Named(es, j - 1, es[j].id)
  IN \E m : /\ IsLast(m, IF named # {} THEN named ELSE Shown(es, j - 1))
            /\ es[m].strength = es[j].strength
ShownAs(es, id, strength) ==
  \E m : IsLast(m, Named(es, Len(es), id)) /\ es[m].strength = strength
ShownLast(es, strength) ==
  \E m : IsLast(m, Shown(es, Len(es))) /\ es[m].strength = strength

Traced(es, nodes, last) ==
  /\ \E S : es \in Seq(S)
  /\ \A j \in DOMAIN es : es[j].kind = "act" => Explained(es, j)
  /\ \A id \in DOMAIN nodes : ShownAs(es, id, nodes[id].strength)
  /\ \A s \in last : ShownLast(es, s.strength)
  /\ \A i \in DOMAIN es : es[i].kind = "node" => es[i].id \in DOMAIN nodes

\* The last of some positions is their maximum.
LEMMA LastIsMax ==
  ASSUME NEW S \in SUBSET Nat, NEW m, IsLast(m, S)
  PROVE  Max(S) = m
<1>1. m \in S /\ \A x, y \in S : x <= y /\ y <= x => x = y
  BY DEF IsLast
<1>2. \A y \in S : y <= m
  BY DEF IsLast
<1>3. m \in Nat /\ \A y \in S : y \in Nat /\ m >= y
  BY <1>1, <1>2
<1>4. \A x \in S : (\A y \in S : x >= y) => x = m
  BY <1>1, <1>3
<1> QED  BY <1>1, <1>3, <1>4 DEF Max

\* One entry more leaves what was shown before it.
LEMMA OneEntry ==
  ASSUME NEW S, NEW es \in Seq(S), NEW e
  PROVE  LET more == Append(es, e)
         IN /\ \E T : more \in Seq(T)
            /\ Len(es) \in Nat /\ Len(more) = Len(es) + 1 /\ more[Len(es) + 1] = e
            /\ DOMAIN es = 1..Len(es) /\ DOMAIN more = 1..(Len(es) + 1)
            /\ \A i \in 1..Len(es) : more[i] = es[i]
            /\ \A n \in 0..Len(es) : Shown(more, n) = Shown(es, n)
            /\ \A n \in 0..Len(es) : \A id : Named(more, n, id) = Named(es, n, id)
            /\ \A j \in 1..Len(es) : Explained(es, j) => Explained(more, j)
<1> DEFINE more == Append(es, e)
<1>1. es \in Seq(S \cup {e}) /\ more \in Seq(S \cup {e})
  OBVIOUS
<1>2. /\ Len(es) \in Nat /\ Len(more) = Len(es) + 1 /\ more[Len(es) + 1] = e
      /\ DOMAIN es = 1..Len(es) /\ DOMAIN more = 1..(Len(es) + 1)
      /\ \A i \in 1..Len(es) : more[i] = es[i]
  BY <1>1
<1> HIDE DEF more
<1>3. \A n \in 0..Len(es) : 1..n \subseteq 1..Len(es)
  BY <1>2
<1>4. \A n \in 0..Len(es) : Shown(more, n) = Shown(es, n)
  BY <1>2, <1>3 DEF Shown
<1>5. \A n \in 0..Len(es) : \A id : Named(more, n, id) = Named(es, n, id)
  BY <1>2, <1>3 DEF Named
<1>6. ASSUME NEW j \in 1..Len(es), Explained(es, j) PROVE Explained(more, j)
  <2>1. j - 1 \in 0..Len(es) /\ more[j] = es[j]
    BY <1>2
  <2> DEFINE named == Named(es, j - 1, es[j].id)
             shown == Shown(es, j - 1)
  <2>2. Named(more, j - 1, more[j].id) = named /\ Shown(more, j - 1) = shown
    BY <2>1, <1>4, <1>5
  <2>3. PICK m : /\ IsLast(m, IF named # {} THEN named ELSE shown)
                 /\ es[m].strength = es[j].strength
    BY <1>6 DEF Explained
  <2>4. m \in 1..(j - 1)
    BY <2>3 DEF IsLast, Named, Shown
  <2>5. more[m] = es[m]
    BY <2>1, <2>4, <1>2
  <2> HIDE DEF named, shown
  <2> QED  BY <2>1, <2>2, <2>3, <2>5 DEF Explained
<1>7. \E T : more \in Seq(T)
  BY <1>1 DEF more
<1> QED  BY <1>2, <1>4, <1>5, <1>6, <1>7 DEF more

\* A node is shown: it is the last of its name, and of all.
LEMMA NodeShown ==
  ASSUME NEW es, NEW nodes, NEW last, Traced(es, nodes, last),
         NEW id, NEW s, NEW after, DOMAIN after = DOMAIN nodes \cup {id},
         after[id] = s, \A i \in DOMAIN nodes \ {id} : after[i] = nodes[i]
  PROVE  Traced(Append(es, NodeEntry(id, s)), after, {s})
<1> DEFINE e == NodeEntry(id, s)
           more == Append(es, e)
           n == Len(es)
<1>1. PICK S : es \in Seq(S)
  BY DEF Traced
<1>2. /\ \E T : more \in Seq(T)
      /\ n \in Nat /\ Len(more) = n + 1 /\ more[n + 1] = e
      /\ DOMAIN es = 1..n /\ DOMAIN more = 1..(n + 1)
      /\ \A i \in 1..n : more[i] = es[i]
      /\ \A k \in 0..n : Shown(more, k) = Shown(es, k)
      /\ \A k \in 0..n : \A i : Named(more, k, i) = Named(es, k, i)
      /\ \A j \in 1..n : Explained(es, j) => Explained(more, j)
  BY <1>1, OneEntry
<1>3. e.kind = "node" /\ e.id = id /\ e.strength = s.strength
  BY DEF NodeEntry
<1> HIDE DEF e, more, n
<1>4. \A i \in 1..(n + 1) : i \in 1..n \/ i = n + 1
  BY <1>2
<1>5. \A j \in DOMAIN more : more[j].kind = "act" => Explained(more, j)
  BY <1>2, <1>3, <1>4 DEF Traced
<1>6. IsLast(n + 1, Shown(more, n + 1)) /\ IsLast(n + 1, Named(more, n + 1, id))
  BY <1>2, <1>3 DEF IsLast, Shown, Named
<1>7. ASSUME NEW i \in DOMAIN after PROVE ShownAs(more, i, after[i].strength)
  <2>1. CASE i = id
    BY <1>2, <1>3, <1>6, <2>1 DEF ShownAs
  <2>2. CASE i # id
    <3>1. i \in DOMAIN nodes /\ after[i] = nodes[i]
      BY <2>2, <1>7
    <3>2. PICK m : IsLast(m, Named(es, n, i)) /\ es[m].strength = nodes[i].strength
      BY <3>1 DEF Traced, ShownAs, n
    <3>3. Named(more, n + 1, i) = Named(es, n, i)
      BY <1>2, <1>3, <1>4, <2>2 DEF Named
    <3>4. m \in 1..n /\ more[m] = es[m]
      BY <3>2, <1>2 DEF IsLast, Named
    <3> QED  BY <1>2, <3>1, <3>2, <3>3, <3>4 DEF ShownAs
  <2> QED  BY <2>1, <2>2
<1>8. \A t \in {s} : ShownLast(more, t.strength)
  BY <1>2, <1>3, <1>6 DEF ShownLast
<1>9. \A i \in DOMAIN more : more[i].kind = "node" => more[i].id \in DOMAIN after
  BY <1>2, <1>3, <1>4 DEF Traced
<1>10. Traced(more, after, {s})
  BY <1>2, <1>5, <1>7, <1>8, <1>9 DEF Traced
<1> QED  BY <1>10 DEF more, e

\* An action is shown: by the last of its node, or by the last of all.
LEMMA ActionShown ==
  ASSUME NEW es, NEW nodes, NEW last, Traced(es, nodes, last),
         NEW e, e.kind = "act",
         IF e.id \in DOMAIN nodes THEN e.strength = nodes[e.id].strength
         ELSE \E s \in last : e.strength = s.strength
  PROVE  Traced(Append(es, e), nodes, last)
<1> DEFINE more == Append(es, e)
           n == Len(es)
<1>1. PICK S : es \in Seq(S)
  BY DEF Traced
<1>2. /\ \E T : more \in Seq(T)
      /\ n \in Nat /\ Len(more) = n + 1 /\ more[n + 1] = e
      /\ DOMAIN es = 1..n /\ DOMAIN more = 1..(n + 1)
      /\ \A i \in 1..n : more[i] = es[i]
      /\ \A k \in 0..n : Shown(more, k) = Shown(es, k)
      /\ \A k \in 0..n : \A i : Named(more, k, i) = Named(es, k, i)
      /\ \A j \in 1..n : Explained(es, j) => Explained(more, j)
  BY <1>1, OneEntry
<1> HIDE DEF more, n
<1>4. \A i \in 1..(n + 1) : i \in 1..n \/ i = n + 1
  BY <1>2
<1>5. /\ Shown(more, n + 1) = Shown(es, n)
      /\ \A i : Named(more, n + 1, i) = Named(es, n, i)
  <2>1. \A i \in 1..(n + 1) : more[i].kind = "node" <=> i \in 1..n /\ es[i].kind = "node"
    BY <1>2, <1>4
  <2>2. \A i \in 1..n : i \in 1..(n + 1)
    BY <1>2
  <2> QED  BY <1>2, <2>1, <2>2 DEF Shown, Named
<1>6. /\ \A m : IsLast(m, Shown(es, n)) => m \in 1..n
      /\ \A m, i : IsLast(m, Named(es, n, i)) => m \in 1..n
  BY DEF IsLast, Shown, Named
<1>7. Explained(more, n + 1)
  <2>1. (n + 1) - 1 = n /\ n \in 0..n
    BY <1>2
  <2> DEFINE named == Named(es, n, e.id)
  <2>2. Named(more, (n + 1) - 1, more[n + 1].id) = named
          /\ Shown(more, (n + 1) - 1) = Shown(es, n)
    BY <1>2, <2>1
  <2>3. \E m : /\ IsLast(m, IF named # {} THEN named ELSE Shown(es, n))
               /\ es[m].strength = e.strength
    <3>1. CASE e.id \in DOMAIN nodes
      <4>1. PICK m : IsLast(m, named) /\ es[m].strength = nodes[e.id].strength
        BY <3>1 DEF Traced, ShownAs, n
      <4>2. named # {}
        BY <4>1 DEF IsLast
      <4> QED  BY <3>1, <4>1, <4>2
    <3>2. CASE e.id \notin DOMAIN nodes
      <4>1. named = {}
        BY <1>2, <3>2 DEF Traced, Named
      <4>2. PICK s \in last : e.strength = s.strength
        BY <3>2
      <4>3. PICK m : IsLast(m, Shown(es, n)) /\ es[m].strength = s.strength
        BY <4>2 DEF Traced, ShownLast, n
      <4> QED  BY <4>1, <4>2, <4>3
    <3> QED  BY <3>1, <3>2
  <2>4. PICK m : /\ IsLast(m, IF named # {} THEN named ELSE Shown(es, n))
                 /\ es[m].strength = e.strength
    BY <2>3
  <2>5. m \in 1..n
    BY <2>4, <1>6
  <2>6. more[m] = es[m]
    BY <2>5, <1>2
  <2> HIDE DEF named
  <2> QED  BY <1>2, <2>2, <2>4, <2>6 DEF Explained
<1>8. \A j \in DOMAIN more : more[j].kind = "act" => Explained(more, j)
  BY <1>2, <1>4, <1>7 DEF Traced
<1>9. \A i \in DOMAIN nodes : ShownAs(more, i, nodes[i].strength)
  <2> TAKE i \in DOMAIN nodes
  <2>1. PICK m : IsLast(m, Named(es, n, i)) /\ es[m].strength = nodes[i].strength
    BY DEF Traced, ShownAs, n
  <2>2. more[m] = es[m]
    BY <2>1, <1>2, <1>6
  <2> QED  BY <1>2, <1>5, <2>1, <2>2 DEF ShownAs
<1>10. \A s \in last : ShownLast(more, s.strength)
  <2> TAKE s \in last
  <2>1. PICK m : IsLast(m, Shown(es, n)) /\ es[m].strength = s.strength
    BY DEF Traced, ShownLast, n
  <2>2. more[m] = es[m]
    BY <2>1, <1>2, <1>6
  <2> QED  BY <1>2, <1>5, <2>1, <2>2 DEF ShownLast
<1>11. \A i \in DOMAIN more : more[i].kind = "node" => more[i].id \in DOMAIN nodes
  BY <1>2, <1>4 DEF Traced
<1>12. Traced(more, nodes, last)
  BY <1>2, <1>8, <1>9, <1>10, <1>11 DEF Traced
<1> QED  BY <1>12 DEF more

\* A trace before its first statement.
LEMMA NothingTraced == Traced(<<>>, [i \in {} |-> 0], {})
<1>1. <<>> \in Seq({}) /\ DOMAIN <<>> = {}
  OBVIOUS
<1> QED  BY <1>1 DEF Traced

\* Each statement is traced.
TraceInv == Traced(entries, working, subject)

\* Every step keeps them traced.
LEMMA TraceKeeps == TraceInv /\ [NexNext]_nexVars => TraceInv'
<1> SUFFICES ASSUME TraceInv, [NexNext]_nexVars PROVE TraceInv'
  OBVIOUS
<1> DEFINE s == Head(program)
<1>1. ASSUME UNCHANGED <<entries, working, subject>> PROVE TraceInv'
  BY <1>1 DEF TraceInv
<1>2. ASSUME NEW id, NEW new, Insert(id, new) PROVE TraceInv'
  <2> DEFINE after == [i \in DOMAIN working \cup {id} |-> IF i = id THEN new ELSE working[i]]
  <2>1. /\ working' = after /\ subject' = {new}
        /\ entries' = Append(entries, NodeEntry(id, new))
    BY <1>2 DEF Insert
  <2>2. /\ DOMAIN after = DOMAIN working \cup {id} /\ after[id] = new
        /\ \A i \in DOMAIN working \ {id} : after[i] = working[i]
    OBVIOUS
  <2> HIDE DEF after
  <2>3. Traced(Append(entries, NodeEntry(id, new)), after, {new})
    BY <2>2, NodeShown DEF TraceInv
  <2> QED  BY <2>1, <2>3 DEF TraceInv
<1>3. ASSUME NEW error, Fail(error) PROVE TraceInv'
  BY <1>1, <1>3 DEF Fail
<1>4. CASE EvalNode \/ EvalAttest \/ EvalDerive
  BY <1>2, <1>3, <1>4 DEF EvalNode, EvalAttest, EvalDerive
<1>5. CASE EvalAssert
  <2>1. CASE /\ s.id \in DOMAIN working /\ subject' = {working[s.id]}
             /\ entries' = Append(entries, NodeEntry(s.id, working[s.id]))
             /\ working' = working
    <3>1. DOMAIN working = DOMAIN working \cup {s.id}
      BY <2>1
    <3>2. Traced(Append(entries, NodeEntry(s.id, working[s.id])), working, {working[s.id]})
      BY <3>1, NodeShown DEF TraceInv
    <3> QED  BY <2>1, <3>2 DEF TraceInv
  <2> QED  BY <1>3, <1>5, <2>1 DEF EvalAssert
<1>6. CASE EvalAct
  <2>1. CASE \E record \in Judged(s.id) :
               /\ entries' = Append(entries, ActionEntry(s.id, s.requires, record))
               /\ UNCHANGED <<working, subject>>
    <3>1. PICK record \in Judged(s.id) :
            entries' = Append(entries, ActionEntry(s.id, s.requires, record))
      BY <2>1
    <3> DEFINE e == ActionEntry(s.id, s.requires, record)
    <3>2. e.kind = "act" /\ e.id = s.id /\ e.strength = record.strength
      BY DEF ActionEntry
    <3>3. IF s.id \in DOMAIN working THEN record = working[s.id] ELSE record \in subject
      BY DEF Judged
    <3> HIDE DEF e
    <3>4. Traced(Append(entries, e), working, subject)
      BY <3>2, <3>3, ActionShown DEF TraceInv
    <3> QED  BY <2>1, <3>1, <3>4 DEF TraceInv, e
  <2> QED  BY <1>3, <1>6, <2>1 DEF EvalAct
<1>7. CASE EvalIf
  <2> DEFINE clause == s.clauses[1]
             e == ActionEntry(clause[1], clause[2], working[clause[1]])
  <2>1. CASE ~ConditionMet(s)
    BY <1>1, <1>7, <2>1 DEF EvalIf
  <2>2. CASE ConditionMet(s)
    <3>1. e.kind = "act" /\ e.id = clause[1] /\ e.strength = working[clause[1]].strength
      BY DEF ActionEntry
    <3>2. clause[1] \in DOMAIN working
      BY <2>2 DEF ConditionMet
    <3>3. entries' = Append(entries, e) /\ UNCHANGED <<working, subject>>
      BY <1>7, <2>2 DEF EvalIf
    <3> HIDE DEF e, clause
    <3>4. Traced(Append(entries, e), working, subject)
      BY <3>1, <3>2, ActionShown DEF TraceInv
    <3> QED  BY <3>3, <3>4 DEF TraceInv
  <2> QED  BY <2>1, <2>2
<1>8. CASE EvalReactive \/ EnterImport \/ LeaveImport \/ Finish \/ UNCHANGED nexVars
  BY <1>1, <1>8 DEF EvalReactive, EnterImport, LeaveImport, Finish, nexVars
<1> QED  BY <1>4, <1>5, <1>6, <1>7, <1>8 DEF NexNext, Statement

\* What the runs check follows.
LEMMA TracedExplains == TraceInv => TraceExplains
<1> SUFFICES ASSUME TraceInv, NEW j \in DOMAIN entries, entries[j].kind = "act"
             PROVE  LET shown == {i \in 1..(j - 1) : entries[i].kind = "node"}
                        named == {i \in shown : entries[i].id = entries[j].id}
                        last == IF named # {} THEN Max(named) ELSE Max(shown)
                    IN shown # {} /\ entries[last].strength = entries[j].strength
  BY DEF TraceExplains
<1> DEFINE shown == {i \in 1..(j - 1) : entries[i].kind = "node"}
           named == {i \in shown : entries[i].id = entries[j].id}
           of == IF named # {} THEN named ELSE shown
<1>1. shown = Shown(entries, j - 1) /\ named = Named(entries, j - 1, entries[j].id)
  BY DEF Shown, Named
<1>2. PICK m : IsLast(m, of) /\ entries[m].strength = entries[j].strength
  BY <1>1 DEF TraceInv, Traced, Explained
<1>3. shown \in SUBSET Nat /\ named \in SUBSET shown
  OBVIOUS
<1> HIDE DEF shown, named
<1>4. of \in SUBSET Nat /\ shown # {}
  BY <1>2, <1>3 DEF IsLast
<1> HIDE DEF of
<1>5. Max(of) = m
  BY <1>2, <1>4, LastIsMax
<1> QED  BY <1>2, <1>4, <1>5 DEF of, shown, named

\* The trace, for all sources: every action has been shown, with the strength it was
\* judged by, the node it is on or, without one, the node used last.
THEOREM NexTraceExplains == NexSpec => []TraceExplains
<1>1. NexInit => TraceInv
  BY NothingTraced DEF NexInit, TraceInv
<1> QED  BY <1>1, TraceKeeps, TracedExplains, PTL DEF NexSpec

-----------------------------------------------------------------------------
\* A state as it is decided on.
States ==
  [scenario : STRING, threshold : Int, input : Int \cup {None},
   lgpd : LgpdMetadata \cup {None}, value : Int \cup {None}]

\* An interpreter that is done with holds nothing, and takes no step.
Evaluated ==
  IF outcome = "dropped" THEN working = [i \in {} |-> 0] /\ entries = <<>>
  ELSE NexInv /\ TraceInv

\* Nothing is written before a decision, and what is written is of this run.
RunHolds ==
  /\ stage \in {"off", "nex", "write", "serving"}
  /\ made \in Seq(States)
  /\ written \in 0..5 /\ open \in BOOLEAN
  /\ stage \in {"off", "nex"} => written = 0 /\ ~open
  /\ stage \in {"write", "serving"} => made # <<>>
  /\ open => stage = "write" /\ written < 5
  /\ stage = "serving" => written = 5
  /\ files \in [Range(Artifacts) -> Int]
  /\ \A k \in 1..written : files[Artifacts[k]] = Len(made)

\* The state is the first artifact written, and the last one read: once something
\* is there, so is it.
StateFirst ==
  /\ seen \in Seq(Int) /\ Len(seen) <= 4
  /\ written > 0 \/ open => files["state"] # Absent
  /\ (\E a \in DOMAIN files : files[a] # Absent) => files["state"] # Absent
  /\ (\E i \in DOMAIN seen : seen[i] # Absent) => files["state"] # Absent
  /\ Len(seen) = 4 /\ seen[1] # Absent => seen[4] # Absent

PipelineInv == RunHolds /\ StateFirst

\* The five artifacts, in the order they are written.
LEMMA ArtifactsListed ==
  /\ Range(Artifacts) = {"state", "evidence", "decisions", "explain", "manifest"}
  /\ Len(Artifacts) = 5
  /\ \A k \in 1..5 : Artifacts[k] \in Range(Artifacts)
  /\ \A j, k \in 1..5 : Artifacts[j] = Artifacts[k] => j = k
  /\ \A k \in 1..5 : Artifacts[k] = "state" <=> k = 1
<1>1. Len(Artifacts) = 5 /\ DOMAIN Artifacts = 1..5
  BY DEF Artifacts
<1>2. /\ Artifacts[1] = "state" /\ Artifacts[2] = "evidence" /\ Artifacts[3] = "decisions"
      /\ Artifacts[4] = "explain" /\ Artifacts[5] = "manifest"
  BY DEF Artifacts
<1>3. \A k \in 1..5 : k = 1 \/ k = 2 \/ k = 3 \/ k = 4 \/ k = 5
  OBVIOUS
<1>4. Range(Artifacts) = {Artifacts[k] : k \in 1..5}
  BY <1>1 DEF Range
<1>5. Range(Artifacts) = {"state", "evidence", "decisions", "explain", "manifest"}
  BY <1>2, <1>3, <1>4
<1>6. \A k \in 1..5 : Artifacts[k] \in Range(Artifacts)
  BY <1>4
<1>7. \A j, k \in 1..5 : Artifacts[j] = Artifacts[k] => j = k
  BY <1>2, <1>3
<1>8. \A k \in 1..5 : Artifacts[k] = "state" <=> k = 1
  BY <1>2, <1>3
<1> QED  BY <1>1, <1>5, <1>6, <1>7, <1>8

\* What is decided on is a state.
LEMMA DecidedTyped ==
  ASSUME NEW c \in Configs, NEW v \in Override
  PROVE  Decided(c, v) \in States
<1>1. v \in Int \cup {None}
  BY PipelineAssumption DEF PipelineAssumption, Override
<1>2. c \in [scenario : STRING, threshold : Int, input : Int \cup {None},
             lgpd : LgpdMetadata \cup {None}]
  BY PipelineAssumption DEF PipelineAssumption
<1> QED  BY <1>1, <1>2 DEF Decided, States

-----------------------------------------------------------------------------
\* The node starts with no file and an interpreter that has evaluated nothing.
LEMMA PipelineInitially == PipelineInit => Evaluated /\ PipelineInv
<1> SUFFICES ASSUME PipelineInit PROVE Evaluated /\ PipelineInv
  OBVIOUS
<1>1. NexInv /\ TraceInv
  BY NexInitially, NothingTraced DEF PipelineInit, NexInit, TraceInv
<1>2. outcome # "dropped"
  BY <1>1 DEF NexInv, Outcomes
<1>3. RunHolds
  <2>1. /\ stage = "nex" /\ written = 0 /\ open = FALSE /\ made \in Seq(States)
        /\ files \in [Range(Artifacts) -> Int]
    BY DEF PipelineInit, Absent
  <2>2. written \in 0..5 /\ \A k \in 1..written : files[Artifacts[k]] = Len(made)
    BY <2>1
  <2>3. stage \in {"off", "nex", "write", "serving"} /\ stage \notin {"write", "serving"}
    BY <2>1
  <2> QED  BY <2>1, <2>2, <2>3, Zenon DEF RunHolds
<1>4. StateFirst
  BY DEF PipelineInit, StateFirst, Absent
<1> QED  BY <1>1, <1>2, <1>3, <1>4 DEF Evaluated, PipelineInv

\* The interpreter is run to its end and dropped, and not run again.
LEMMA EvaluatedKept == Evaluated /\ [PipelineNext]_pipelineVars => Evaluated'
<1> SUFFICES ASSUME Evaluated, [PipelineNext]_pipelineVars PROVE Evaluated'
  OBVIOUS
<1>1. CASE UNCHANGED nexVars
  <2>1. outcome' = outcome /\ working' = working /\ entries' = entries
        /\ source' = source /\ frames' = frames /\ program' = program
        /\ visited' = visited /\ subject' = subject
    BY <1>1 DEF nexVars
  <2> QED  BY <2>1 DEF Evaluated, NexInv, TraceInv, Traced
<1>2. CASE Interpret
  <2>1. NexNext /\ outcome \in {"expanding", "running"}
    BY <1>2 DEF Interpret, NexNext, EnterImport, LeaveImport, Statement, EvalNode,
       EvalAttest, EvalDerive, EvalAssert, EvalAct, EvalIf, EvalReactive, Pending, Finish
  <2>2. NexInv /\ TraceInv
    BY <2>1 DEF Evaluated
  <2>3. NexInv' /\ TraceInv'
    BY <2>1, <2>2, NexKeeps, TraceKeeps
  <2>4. outcome' # "dropped"
    BY <2>3 DEF NexInv, Outcomes
  <2> QED  BY <2>3, <2>4 DEF Evaluated
<1>3. CASE NexDropped
  BY <1>3 DEF NexDropped, Evaluated
<1> QED
  BY <1>1, <1>2, <1>3
  DEF PipelineNext, Run, Decide, Truncate, Fill, Serve, Stop, Start, Verifier, ReadArtifact,
      VerifyAgain, pipelineVars

\* A decision is made before a file is touched.
LEMMA DecideKeeps ==
  ASSUME PipelineInv, Decide
  PROVE  PipelineInv'
<1>1. /\ files' = files /\ written' = written /\ open' = open /\ seen' = seen
      /\ stage = "nex"
  BY DEF Decide
<1>2. /\ written = 0 /\ ~open /\ made \in Seq(States)
  BY <1>1 DEF PipelineInv, RunHolds
<1>3. CASE stage' = "off" /\ made' = made
  BY <1>1, <1>2, <1>3 DEF PipelineInv, RunHolds, StateFirst
<1>4. ASSUME NEW c \in Configs, NEW v \in Override,
             made' = Append(made, Decided(c, v)), stage' = "write"
      PROVE  PipelineInv'
  <2>1. Decided(c, v) \in States
    BY DecidedTyped
  <2>2. made' \in Seq(States) /\ made' # <<>>
    BY <1>2, <1>4, <2>1
  <2>3. RunHolds'
    BY <1>1, <1>2, <1>4, <2>2 DEF PipelineInv, RunHolds
  <2>4. StateFirst'
    BY <1>1 DEF PipelineInv, StateFirst
  <2> QED  BY <2>3, <2>4 DEF PipelineInv
<1> QED  BY <1>3, <1>4 DEF Decide

\* An artifact is truncated: there is a file now, with no run's text.
LEMMA TruncateKeeps ==
  ASSUME PipelineInv, Truncate
  PROVE  PipelineInv'
<1>1. PICK text \in {Empty, Partial} : files' = [files EXCEPT ![Artifacts[written + 1]] = text]
  BY DEF Truncate
<1>2. text \in Int /\ text # Absent
  BY DEF Empty, Partial, Absent
<1>3. /\ stage = "write" /\ open' = TRUE /\ ~open /\ written < 5 /\ written \in 0..5
      /\ stage' = stage /\ made' = made /\ written' = written /\ seen' = seen
      /\ files \in [Range(Artifacts) -> Int]
      /\ \A k \in 1..written : files[Artifacts[k]] = Len(made)
  BY ArtifactsListed DEF Truncate, PipelineInv, RunHolds
<1>4. PICK n : n = written + 1 /\ n \in 1..5 /\ n > written
  BY <1>3
<1>5. /\ files' \in [Range(Artifacts) -> Int]
      /\ files'[Artifacts[n]] = text
      /\ \A a \in Range(Artifacts) : a # Artifacts[n] => files'[a] = files[a]
      /\ Artifacts[n] \in Range(Artifacts) /\ "state" \in Range(Artifacts)
  BY <1>1, <1>2, <1>3, <1>4, ArtifactsListed
<1>6. \A k \in 1..written : files'[Artifacts[k]] = Len(made)
  <2> TAKE k \in 1..written
  <2>1. k \in 1..5 /\ k # n
    BY <1>3, <1>4
  <2>2. Artifacts[k] # Artifacts[n] /\ Artifacts[k] \in Range(Artifacts)
    BY <1>4, <2>1, ArtifactsListed
  <2> QED  BY <1>3, <1>5, <2>2
<1>7. files'["state"] # Absent
  <2>1. CASE n = 1
    BY <1>2, <1>5, <2>1, ArtifactsListed
  <2>2. CASE n # 1
    <3>1. written > 0 /\ Artifacts[n] # "state"
      BY <1>3, <1>4, <2>2, ArtifactsListed
    <3>2. files["state"] # Absent
      BY <3>1 DEF PipelineInv, StateFirst
    <3> QED  BY <1>5, <3>1, <3>2
  <2> QED  BY <2>1, <2>2
<1>8. RunHolds'
  BY <1>3, <1>5, <1>6 DEF PipelineInv, RunHolds
<1>9. StateFirst'
  BY <1>3, <1>7 DEF PipelineInv, StateFirst
<1> QED  BY <1>8, <1>9 DEF PipelineInv

\* It is filled with the text of this run.
LEMMA FillKeeps ==
  ASSUME PipelineInv, Fill
  PROVE  PipelineInv'
<1>1. /\ files' = [files EXCEPT ![Artifacts[written + 1]] = Len(made)]
      /\ stage = "write" /\ open' = FALSE /\ open /\ written' = written + 1
      /\ stage' = stage /\ made' = made /\ seen' = seen
  BY DEF Fill
<1>2. /\ written < 5 /\ written \in 0..5
      /\ files \in [Range(Artifacts) -> Int]
      /\ \A k \in 1..written : files[Artifacts[k]] = Len(made)
      /\ made \in Seq(States) /\ made # <<>>
      /\ files["state"] # Absent
  BY <1>1 DEF PipelineInv, RunHolds, StateFirst
<1>3. PICK n : n = written' /\ n = written + 1 /\ n \in 1..5
  BY <1>1, <1>2
<1>4. PICK text : text = Len(made) /\ text \in Int /\ text # Absent
  <2>1. Len(made) \in Nat /\ Len(made) # 0
    BY <1>2
  <2> QED  BY <2>1 DEF Absent
<1>5. /\ files' \in [Range(Artifacts) -> Int]
      /\ files'[Artifacts[n]] = text
      /\ \A a \in Range(Artifacts) : a # Artifacts[n] => files'[a] = files[a]
      /\ Artifacts[n] \in Range(Artifacts) /\ "state" \in Range(Artifacts)
  BY <1>1, <1>2, <1>3, <1>4, ArtifactsListed
<1>6. \A k \in 1..n : files'[Artifacts[k]] = text
  <2> TAKE k \in 1..n
  <2>1. CASE k = n
    BY <1>5, <2>1
  <2>2. CASE k # n
    <3>1. k \in 1..5 /\ k \in 1..written
      BY <1>2, <1>3, <2>2
    <3>2. Artifacts[k] # Artifacts[n] /\ Artifacts[k] \in Range(Artifacts)
      BY <1>3, <2>2, <3>1, ArtifactsListed
    <3> QED  BY <1>2, <1>4, <1>5, <3>1, <3>2
  <2> QED  BY <2>1, <2>2
<1>7. files'["state"] # Absent
  BY <1>2, <1>4, <1>5
<1>8. RunHolds'
  <2>1. /\ stage' = "write" /\ open' = FALSE /\ written' \in 0..5
        /\ made' \in Seq(States) /\ made' # <<>> /\ Len(made') = text
    BY <1>1, <1>2, <1>3, <1>4
  <2>2. \A k \in 1..written' : files'[Artifacts[k]] = Len(made')
    BY <1>3, <1>6, <2>1
  <2> QED  BY <1>5, <2>1, <2>2 DEF RunHolds
<1>9. StateFirst'
  BY <1>1, <1>7 DEF PipelineInv, StateFirst
<1> QED  BY <1>8, <1>9 DEF PipelineInv

\* The verifier reads the state last: if it has read anything, the state is there.
LEMMA ReadKeeps ==
  ASSUME PipelineInv, ReadArtifact
  PROVE  PipelineInv'
<1>1. /\ Len(seen) < 4 /\ seen' = Append(seen, files[ReadOrder[Len(seen) + 1]])
      /\ stage' = stage /\ made' = made /\ files' = files
      /\ written' = written /\ open' = open
  BY DEF ReadArtifact
<1>2. seen \in Seq(Int) /\ files \in [Range(Artifacts) -> Int]
  BY DEF PipelineInv, RunHolds, StateFirst
<1>3. PICK n : n = Len(seen) + 1 /\ n \in 1..4
  BY <1>1, <1>2
<1>4. /\ ReadOrder[n] \in Range(Artifacts) /\ (n = 4 => ReadOrder[n] = "state")
  <2>1. n = 1 \/ n = 2 \/ n = 3 \/ n = 4
    BY <1>3
  <2> QED  BY <2>1, ArtifactsListed DEF ReadOrder
<1>5. PICK text : text = files[ReadOrder[n]] /\ text \in Int
  BY <1>2, <1>4
<1>6. PICK read : read = Append(seen, text) /\ seen' = read
  BY <1>1, <1>3, <1>5
<1>7. /\ read \in Seq(Int) /\ Len(read) = n /\ DOMAIN read = 1..n /\ read[n] = text
      /\ \A i \in DOMAIN read : i = n \/ (i \in DOMAIN seen /\ read[i] = seen[i])
      /\ \A i \in DOMAIN seen : read[i] = seen[i]
  BY <1>2, <1>3, <1>5, <1>6
<1>8. (\E i \in DOMAIN read : read[i] # Absent) => files["state"] # Absent
  <2> SUFFICES ASSUME NEW i \in DOMAIN read, read[i] # Absent
               PROVE  files["state"] # Absent
    OBVIOUS
  <2>1. CASE i = n
    BY <1>2, <1>4, <1>5, <1>7, <2>1 DEF PipelineInv, StateFirst
  <2>2. CASE i # n
    BY <1>7, <2>2 DEF PipelineInv, StateFirst
  <2> QED  BY <2>1, <2>2
<1>9. Len(read) = 4 /\ read[1] # Absent => read[4] # Absent
  <2> SUFFICES ASSUME Len(read) = 4, read[1] # Absent
               PROVE  read[4] # Absent
    OBVIOUS
  <2>1. n = 4
    BY <1>7
  <2>2. 1 \in DOMAIN read
    BY <1>7, <2>1
  <2>3. files["state"] # Absent
    BY <1>8, <2>2
  <2> QED  BY <2>3, <1>4, <1>5, <1>7, <2>1, <2>2
<1>10. RunHolds'
  BY <1>1 DEF PipelineInv, RunHolds
<1>11. StateFirst'
  BY <1>1, <1>3, <1>6, <1>7, <1>8, <1>9 DEF PipelineInv, StateFirst
<1> QED  BY <1>10, <1>11 DEF PipelineInv

\* Each step of the node and of the verifier.
LEMMA PipelineKeeps == PipelineInv /\ [PipelineNext]_pipelineVars => PipelineInv'
<1> SUFFICES ASSUME PipelineInv, [PipelineNext]_pipelineVars PROVE PipelineInv'
  OBVIOUS
<1>1. CASE UNCHANGED runVars
  BY <1>1 DEF runVars, PipelineInv, RunHolds, StateFirst
<1>2. CASE Serve
  <2>1. RunHolds'
    BY <1>2, ArtifactsListed DEF Serve, PipelineInv, RunHolds
  <2>2. StateFirst'
    BY <1>2 DEF Serve, PipelineInv, StateFirst
  <2> QED  BY <2>1, <2>2 DEF PipelineInv
<1>3. CASE Stop
  <2>1. RunHolds'
    <3>1. /\ stage' = "off" /\ written' = 0 /\ open' = FALSE
          /\ made' = made /\ files' = files
      BY <1>3 DEF Stop
    <3>2. written' \in 0..5 /\ \A k \in 1..written' : files'[Artifacts[k]] = Len(made')
      BY <3>1
    <3>3. made' \in Seq(States) /\ files' \in [Range(Artifacts) -> Int]
      BY <3>1 DEF PipelineInv, RunHolds
    <3>4. stage' \in {"off", "nex", "write", "serving"} /\ stage' \notin {"write", "serving"}
      BY <3>1
    <3> QED  BY <3>1, <3>2, <3>3, <3>4, Zenon DEF RunHolds
  <2>2. StateFirst'
    BY <1>3 DEF Stop, PipelineInv, StateFirst
  <2> QED  BY <2>1, <2>2 DEF PipelineInv
<1>4. CASE Start
  BY <1>4 DEF Start, PipelineInv, RunHolds, StateFirst
<1>5. CASE VerifyAgain
  <2>1. RunHolds'
    BY <1>5 DEF VerifyAgain, PipelineInv, RunHolds
  <2>2. StateFirst'
    BY <1>5 DEF VerifyAgain, PipelineInv, StateFirst
  <2> QED  BY <2>1, <2>2 DEF PipelineInv
<1>6. CASE Interpret
  BY <1>1, <1>6 DEF Interpret
<1>7. CASE UNCHANGED pipelineVars
  BY <1>1, <1>7 DEF pipelineVars
<1> QED
  BY <1>2, <1>3, <1>4, <1>5, <1>6, <1>7, DecideKeeps, TruncateKeeps, FillKeeps, ReadKeeps
  DEF PipelineNext, Run, Verifier

-----------------------------------------------------------------------------
\* Four texts are found in order only if they are one run's: the state may be missing
\* in what is listed, but not to a verifier that has read a manifest.
LEMMA InOrderOneRun == StateFirst => VerifiedOneRun
<1> SUFFICES ASSUME StateFirst, Len(seen) = 4, Verdict(seen) = "verified"
             PROVE  \A i, j \in 1..4 : seen[i] = seen[j]
  BY DEF VerifiedOneRun
<1>1. /\ seen[1] > 0
      /\ Listed(seen[1], seen[2], seen[3], seen[4]) /\ seen[3] = seen[2]
  <2>1. seen[1] \in Int
    BY DEF StateFirst
  <2> QED  BY <2>1 DEF Verdict, Report
<1>2. seen[2] = seen[1] /\ seen[4] \in {Absent, seen[1]}
  BY <1>1 DEF Listed
<1>3. seen[1] # Absent
  BY <1>1 DEF Absent
<1>4. seen[4] # Absent
  BY <1>3 DEF StateFirst
<1>5. seen[2] = seen[1] /\ seen[3] = seen[1] /\ seen[4] = seen[1]
  BY <1>1, <1>2, <1>4
<1>6. \A i \in 1..4 : i = 1 \/ i = 2 \/ i = 3 \/ i = 4
  OBVIOUS
<1> QED  BY <1>5, <1>6

\* The two kinds of evidence a run writes: the weaker is signed.
LEMMA RecomputedSigned == RecomputedStrength = 3
<1>1. Range(EvidenceKinds) = {3, 4}
  <2>1. DOMAIN EvidenceKinds = 1..2 /\ EvidenceKinds[1] = 3 /\ EvidenceKinds[2] = 4
    BY DEF EvidenceKinds, Signed, Anchored
  <2>2. \A i \in 1..2 : i = 1 \/ i = 2
    OBVIOUS
  <2> QED  BY <2>1, <2>2 DEF Range
<1>2. 3 \in {3, 4} /\ \A y \in {3, 4} : 3 <= y
  OBVIOUS
<1>3. \A x \in {3, 4} : (\A y \in {3, 4} : x <= y) => x = 3
  OBVIOUS
<1> QED  BY <1>1, <1>2, <1>3 DEF RecomputedStrength, Min

\* The side of a decision: local at least, anchored at most.
LEMMA LeftLocal ==
  ASSUME NEW s
  PROVE  LeftStrength(s) \in 1..4 /\ ChosenStrength(LeftStrength(s), RightStrength) = LeftStrength(s)
<1>1. LeftStrength(s) \in {1, 2, 3, 4}
  BY DEF LeftStrength, EvidenceStrength, Unverifiable, Local, Witnessed, Signed, Anchored
<1>2. ChosenStrength(LeftStrength(s), 1) = LeftStrength(s)
  BY <1>1 DEF ChosenStrength
<1> QED  BY <1>1, <1>2 DEF RightStrength, Local

\* A run that serves has written its five artifacts; they are found in order.
LEMMA FinishedVerifies == RunHolds => FinishedRunVerifies
<1> SUFFICES ASSUME RunHolds, stage = "serving"
             PROVE  Verdict([i \in 1..4 |-> files[ReadOrder[i]]])
                      = IF LeftStrength(Last(made)) = Anchored
                        THEN "chain_too_weak" ELSE "verified"
  BY DEF FinishedRunVerifies
<1>1. PICK n : n = Len(made) /\ n \in Nat /\ n > 0 /\ Last(made) = made[n]
  BY DEF RunHolds, Last
<1>2. \A k \in 1..5 : files[Artifacts[k]] = n
  BY <1>1 DEF RunHolds
<1>3. files["state"] = n /\ files["evidence"] = n /\ files["decisions"] = n
      /\ files["manifest"] = n
  BY <1>2 DEF Artifacts
<1> DEFINE texts == [i \in 1..4 |-> files[ReadOrder[i]]]
<1>4. texts[1] = n /\ texts[2] = n /\ texts[3] = n /\ texts[4] = n
  BY <1>3 DEF ReadOrder
<1>5. Verdict(texts) = Report(n, n, n, n)
  BY <1>4 DEF Verdict
<1>6. ~(n <= 0) /\ Listed(n, n, n, n) /\ SameRunId(n, n)
  BY <1>1 DEF Listed, SameRunId
<1>7. Report(n, n, n, n) = IF 3 >= DeclaredStrength(n) THEN "verified" ELSE "chain_too_weak"
  BY <1>6, RecomputedSigned DEF Report
<1>8. DeclaredStrength(n) = LeftStrength(made[n]) /\ LeftStrength(made[n]) \in 1..4
  BY LeftLocal DEF DeclaredStrength
<1>9. (3 >= LeftStrength(made[n])) <=> LeftStrength(made[n]) # 4
  BY <1>8
<1> QED  BY <1>1, <1>5, <1>7, <1>8, <1>9 DEF Anchored

-----------------------------------------------------------------------------
\* The smaller of two numbers, and of two products by a positive one.
LEMMA SmallerOfTwo ==
  ASSUME NEW a \in Int, NEW b \in Int
  PROVE  Min({a, b}) = IF a <= b THEN a ELSE b
<1>1. \A x \in {a, b} : (\A y \in {a, b} : x <= y) => x = IF a <= b THEN a ELSE b
  OBVIOUS
<1>2. \E x \in {a, b} : \A y \in {a, b} : x <= y
  OBVIOUS
<1> QED  BY <1>1, <1>2 DEF Min

\* What the metadata of a state add to its score, whatever its value.
Metas(s) ==
  Points(s.lgpd # None, 15 * s.threshold)
  + Points(s.lgpd # None /\ s.lgpd.subject, 5 * s.threshold)
  + Points(s.lgpd # None /\ s.lgpd.consent, 5 * s.threshold)

\* The score over a positive threshold: at least a quarter where it is met, and the
\* metadata less the deficit, which is no more than all, where it is not.
LEMMA ScoreOver ==
  ASSUME NEW s \in States, s.value \in Int, s.threshold > 0
  PROVE  /\ Size(s) = s.threshold
         /\ Metas(s) \in Int /\ NetScore(s) \in Int
         /\ s.value >= s.threshold => NetScore(s) >= 25 * s.threshold
         /\ s.value < s.threshold =>
              NetScore(s) = Metas(s) - (IF 100 * (s.threshold - s.value) <= 100 * s.threshold
                                        THEN 100 * (s.threshold - s.value)
                                        ELSE 100 * s.threshold)
<1>1. PICK t, v : t = s.threshold /\ v = s.value /\ t \in Int /\ v \in Int /\ t > 0
  BY DEF States
<1>2. Size(s) = t /\ Margin(s) = v - t
  BY <1>1 DEF Size, Margin
<1>3. PICK a, b, c :
        /\ a = Points(s.lgpd # None, 15 * t) /\ a \in {15 * t, 0}
        /\ b = Points(s.lgpd # None /\ s.lgpd.subject, 5 * t) /\ b \in {5 * t, 0}
        /\ c = Points(s.lgpd # None /\ s.lgpd.consent, 5 * t) /\ c \in {5 * t, 0}
  BY DEF Points
<1>4. a \in Int /\ b \in Int /\ c \in Int /\ a >= 0 /\ b >= 0 /\ c >= 0
  BY <1>1, <1>3
<1>5. Points(s.threshold <= 0, 10 * t) = 0
  BY <1>1 DEF Points
<1>6. PICK m : m = (IF v - t >= 0 THEN 25 * t + Bonus(s) ELSE -Deficit(s))
  OBVIOUS
<1>7. Metas(s) = a + b + c /\ NetScore(s) = m + a + b + c - 0
  BY <1>1, <1>2, <1>3, <1>5, <1>6 DEF Metas, NetScore
<1>8. CASE v >= t
  <2>1. Bonus(s) = IF 10 * (v - t) <= 10 * t THEN 10 * (v - t) ELSE 10 * t
    BY <1>1, <1>2, SmallerOfTwo DEF Bonus
  <2>2. m \in Int /\ m >= 25 * t
    BY <1>1, <1>6, <1>8, <2>1
  <2>3. m + a + b + c - 0 \in Int /\ m + a + b + c - 0 >= 25 * t
    BY <1>1, <1>4, <2>2
  <2> QED  BY <1>1, <1>2, <1>4, <1>7, <1>8, <2>3
<1>9. CASE v < t
  <2>1. Deficit(s) = IF 100 * (t - v) <= 100 * t THEN 100 * (t - v) ELSE 100 * t
    <3>1. -100 * (v - t) = 100 * (t - v)
      BY <1>1
    <3> QED  BY <1>1, <1>2, <3>1, SmallerOfTwo DEF Deficit
  <2>2. PICK d : d = Deficit(s) /\ d \in Int
    BY <1>1, <2>1
  <2>3. m = -d
    BY <1>1, <1>6, <1>9, <2>2
  <2>4. m + a + b + c - 0 = (a + b + c) - d
    BY <1>4, <2>2, <2>3
  <2> QED  BY <1>1, <1>2, <1>4, <1>7, <1>9, <2>1, <2>2, <2>4
<1> QED  BY <1>1, <1>8, <1>9

\* A state is decided by its score, and a greater score is never worse.
LEMMA RankFollows ==
  ASSUME NEW s, s.scenario = "auto", s.value # None,
         NEW t \in Int, t > 0, Size(s) = t,
         NEW n \in Int, NetScore(s) = n
  PROVE  Rank(Status(s)) = IF n >= 25 * t THEN 2 ELSE IF n <= -10 * t THEN 0 ELSE 1
<1>1. Status(s) = IF n >= 25 * t THEN "ok" ELSE IF n <= -10 * t THEN "violacao" ELSE "absterse"
  BY DEF Status, Resolved
<1> QED  BY <1>1 DEF Rank

\* The decision as a function of the value alone.
LEMMA RaisedNoWorse ==
  ASSUME NEW s \in States, s.scenario = "auto", s.threshold > 0, s.value # None
  PROVE  /\ Meets(s) => Status(s) = "ok"
         /\ \A v \in s.value..(s.value + 70) :
              Rank(Status([s EXCEPT !.value = v])) >= Rank(Status(s))
<1>1. PICK t, u : /\ t = s.threshold /\ u = s.value /\ t \in Int /\ u \in Int /\ t > 0
  BY DEF States
<1>2. PICK n : n = NetScore(s) /\ n \in Int
  BY <1>1, ScoreOver
<1>3. Size(s) = t
  BY <1>1, ScoreOver
<1>4. Meets(s) => Status(s) = "ok"
  <2> SUFFICES ASSUME Meets(s) PROVE Status(s) = "ok"
    OBVIOUS
  <2>1. u >= t
    BY <1>1 DEF Meets
  <2>2. n >= 25 * t
    BY <1>1, <1>2, <2>1, ScoreOver
  <2> QED  BY <1>2, <1>3, <2>2 DEF Status, Resolved
<1>5. ASSUME NEW v \in u..(u + 70)
      PROVE  Rank(Status([s EXCEPT !.value = v])) >= Rank(Status(s))
  <2>1. v \in Int /\ v >= u
    BY <1>1
  <2>2. PICK r : r = [s EXCEPT !.value = v]
    OBVIOUS
  <2>3. /\ r \in States /\ r.value = v /\ r.threshold = t /\ r.scenario = "auto"
        /\ r.lgpd = s.lgpd
    BY <1>1, <2>1, <2>2 DEF States
  <2>4. PICK k : k = NetScore(r) /\ k \in Int
    BY <1>1, <2>1, <2>3, ScoreOver
  <2>5. Size(r) = t /\ Metas(r) = Metas(s) /\ Metas(s) \in Int
    BY <1>1, <2>1, <2>3, ScoreOver DEF Metas
  <2>6. k >= 25 * t \/ k >= n
    <3>1. CASE v >= t
      BY <1>1, <2>1, <2>3, <2>4, <3>1, ScoreOver
    <3>2. CASE v < t
      <4>1. u < t
        BY <1>1, <2>1, <3>2
      <4>2. k = Metas(s) - (IF 100 * (t - v) <= 100 * t THEN 100 * (t - v) ELSE 100 * t)
        BY <1>1, <2>1, <2>3, <2>4, <2>5, <3>2, ScoreOver
      <4>3. n = Metas(s) - (IF 100 * (t - u) <= 100 * t THEN 100 * (t - u) ELSE 100 * t)
        BY <1>1, <1>2, <4>1, ScoreOver
      <4>4. PICK g : g = Metas(s) /\ g \in Int
        BY <2>5
      <4> QED  BY <1>1, <2>1, <4>2, <4>3, <4>4
    <3> QED  BY <1>1, <2>1, <3>1, <3>2
  <2>7. Rank(Status(r)) = IF k >= 25 * t THEN 2 ELSE IF k <= -10 * t THEN 0 ELSE 1
    <3>1. r.value # None
      BY <2>1, <2>3, PipelineAssumption DEF PipelineAssumption
    <3> QED  BY <1>1, <2>3, <2>4, <2>5, <3>1, RankFollows
  <2>8. Rank(Status(s)) = IF n >= 25 * t THEN 2 ELSE IF n <= -10 * t THEN 0 ELSE 1
    BY <1>1, <1>2, <1>3, RankFollows
  <2>9. (IF k >= 25 * t THEN 2 ELSE IF k <= -10 * t THEN 0 ELSE 1)
          >= (IF n >= 25 * t THEN 2 ELSE IF n <= -10 * t THEN 0 ELSE 1)
    BY <1>1, <1>2, <2>4, <2>6
  <2> QED  BY <2>2, <2>7, <2>8, <2>9
<1> QED  BY <1>1, <1>4, <1>5

\* What is decided on is the last state made.
LEMMA LastMonotone == RunHolds => DecisionMonotone
<1> SUFFICES ASSUME RunHolds, stage = "write", written = 0,
                    Last(made).scenario = "auto", Last(made).threshold > 0,
                    Last(made).value # None
             PROVE  /\ Meets(Last(made)) => Status(Last(made)) = "ok"
                    /\ \A v \in Last(made).value..(Last(made).value + 70) :
                         Rank(Status([Last(made) EXCEPT !.value = v]))
                           >= Rank(Status(Last(made)))
  BY DEF DecisionMonotone
<1>1. Last(made) \in States
  BY DEF RunHolds, Last
<1> QED  BY <1>1, RaisedNoWorse
-----------------------------------------------------------------------------
\* compose.rs and eval.rs when a node runs a program, for all sources: no node is
\* stronger than what it rests on, and the trace explains every action.
THEOREM PipelineEvaluates == PipelineSpec => [](WeakestLink /\ TraceExplains)
<1>1. Evaluated => WeakestLink /\ TraceExplains
  <2> SUFFICES ASSUME Evaluated PROVE WeakestLink /\ TraceExplains
    OBVIOUS
  <2>1. CASE outcome = "dropped"
    BY <2>1 DEF Evaluated, WeakestLink, TraceExplains
  <2>2. CASE outcome # "dropped"
    BY <2>2, TracedExplains DEF Evaluated, NexInv, WeakestLink, Sound
  <2> QED  BY <2>1, <2>2
<1> QED  BY <1>1, PipelineInitially, EvaluatedKept, PTL DEF PipelineSpec

\* verify.rs, for all programs and environments: what is found in order is one run's,
\* whatever is being written and however earlier runs ended.
THEOREM PipelineVerifiedOneRun == PipelineSpec => []VerifiedOneRun
<1>1. PipelineInv => VerifiedOneRun
  BY InOrderOneRun DEF PipelineInv
<1> QED  BY <1>1, PipelineInitially, PipelineKeeps, PTL DEF PipelineSpec

\* pipeline.rs and verify.rs, for all programs and environments: what a run that was
\* not cut short leaves passes, unless its state was scored as anchored.
THEOREM PipelineFinishedVerifies == PipelineSpec => []FinishedRunVerifies
<1>1. PipelineInv => FinishedRunVerifies
  BY FinishedVerifies DEF PipelineInv
<1> QED  BY <1>1, PipelineInitially, PipelineKeeps, PTL DEF PipelineSpec

\* classify_auto(), for every positive threshold, every input and all metadata: a
\* greater input is never decided worse, and one that meets the threshold is accepted.
THEOREM PipelineDecisionMonotone == PipelineSpec => []DecisionMonotone
<1>1. PipelineInv => DecisionMonotone
  BY LastMonotone DEF PipelineInv
<1> QED  BY <1>1, PipelineInitially, PipelineKeeps, PTL DEF PipelineSpec
=============================================================================
