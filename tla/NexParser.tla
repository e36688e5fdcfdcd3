----------------------------- MODULE NexParser -----------------------------
(***************************************************************************)
(* The NEX parser (crates/host/src/nex/parser.rs) after the lexer: how the  *)
(* lines of a source become statements.  A line is a sequence of tokens, a  *)
(* token a string of one of the classes below; letter case, columns and     *)
(* messages are left out.  A parse_* function reads its tokens by index and *)
(* refuses the first that does not fit: it is a pattern, the sequence of    *)
(* the sets of tokens it accepts.  Where the code indexes past the last     *)
(* token the result is a panic.                                             *)
(***************************************************************************)
EXTENDS Integers, FiniteSets, Sequences, SequencesExt

CONSTANTS
  Words,      \* TokenKind::Word: the keywords and identifiers of the sources
  NumberOf,   \* TokenKind::Int: a function, the value of a literal; those of
              \* more than 32 bits, cut off by `as u32`, are left out
  Floats,     \* TokenKind::Float
  Strs,       \* TokenKind::Str
  Paths,      \* the words that name a file: non-empty segments, no slash
  MAX_REACTIVE_THRESHOLD   \* 16 in the code

ASSUME NexParserAssumption ==
  /\ Paths \subseteq Words /\ MAX_REACTIVE_THRESHOLD \in Nat
  /\ \A t \in DOMAIN NumberOf : NumberOf[t] \in Int

-----------------------------------------------------------------------------
Ints == DOMAIN NumberOf
Puncts == {"=", ">=", ">", "<", ":", ",", "{", "}", "(", ")", "newline"}
Tokens == Words \cup Ints \cup Floats \cup Strs \cup Puncts

\* EvidenceStrength, in its order.
StrengthOf ==
  [t \in {"unverifiable", "local", "witnessed", "signed", "anchored"} |->
     CASE t = "unverifiable" -> 0 [] t = "local" -> 1 [] t = "witnessed" -> 2
       [] t = "signed" -> 3 [] t = "anchored" -> 4]

Error == [kind |-> "error"]
Panic == [kind |-> "panic"]
Refused == {Error, Panic}

Begins(tokens, pattern) ==
  /\ Len(tokens) >= Len(pattern)
  /\ \A i \in DOMAIN pattern : tokens[i] \in pattern[i]
Fits(tokens, pattern) == Len(tokens) = Len(pattern) /\ Begins(tokens, pattern)
From(tokens, i) == SubSeq(tokens, i, Len(tokens))

-----------------------------------------------------------------------------
\* One pattern for each kind of statement; ensure_end() makes Fits of Begins.
UsePattern == <<{"use"}, Paths>>
NodePattern ==
  <<{"let"}, Words, {"="}, {"node"}, Words \cup Ints \cup Strs, DOMAIN StrengthOf>>
DerivePattern ==
  <<{"let"}, Words, {"="}, Words \ {"node"}, {"derive"}, Words, {"as"}, {"i64", "string"}>>
AttestPattern ==
  <<{"attest"}, Words, {"with"}, {t \in Ints : NumberOf[t] >= 0}, {"external"},
    {"true", "false"}>>
AssertPattern == <<{"assert"}, Words, {">="}, DOMAIN StrengthOf>>
ActPattern ==
  <<{"act"}, Words, {"="}, {"allow", "deny", "escalate"}, {"requires"}, DOMAIN StrengthOf>>

\* parse_if() asks for a ':' among the words; the lexer makes it a Colon, so
\* that no conditional is accepted.
IfPatterns ==
  LET condition == <<{"if"}, Words, {">="}, DOMAIN StrengthOf>>
      colon == <<Words \cap {":"}, {"allow", "deny", "escalate"}>>
  IN {condition \o colon,
      condition \o <<{"&&", "||"}, Words, {">="}, DOMAIN StrengthOf>> \o colon}

\* The condition is that of the first clause and, with an operator, a second.
Conditional(tokens) ==
  LET both == tokens[5] \in {"&&", "||"}
  IN [kind |-> "if", op |-> IF both THEN tokens[5] ELSE "",
      clauses |-> <<<<tokens[2], StrengthOf[tokens[4]]>>>>
                  \o IF both THEN <<<<tokens[6], StrengthOf[tokens[8]]>>>> ELSE <<>>]

\* The colon is the fifth token whatever the trigger.
TriggerPatterns ==
  {<<{"on"}, {"heartbeat_miss"}, {">"}, Ints, {":"}>>,
   <<{"on"}, {"reputation"}, {"<"}, Ints \cup Floats, {":"}>>,
   <<{"on"}, {"peer_connected", "peer_disconnected"}, Tokens, Tokens, {":"}>>}
ShortTrigger(tokens) ==
  Len(tokens) <= 3 /\ Begins(tokens, <<{"on"}, {"peer_connected", "peer_disconnected"}>>)

ReactivePatterns ==
  {<<{"log"}, Strs>>, <<{"emit"}, Words>>, <<{"marcar_inativo"}, Words>>,
   <<{"ajustar_reputacao"}, Words, Ints>>}

\* The actions of a rule, separated by commas; what follows the last is ignored.
ReactiveActions(tokens) ==
  LET after[i \in 1..(Len(tokens) + 2)] ==
        IF i > Len(tokens) THEN <<>>
        ELSE LET fitting == {p \in ReactivePatterns : Begins(From(tokens, i), p)}
             IN IF fitting = {} THEN <<Error>>
                ELSE LET n == i + Len(CHOOSE p \in fitting : TRUE)
                         action == SubSeq(tokens, i, n - 1)
                     IN IF n <= Len(tokens) /\ tokens[n] = ","
                        THEN <<action>> \o after[n + 1] ELSE <<action>>
  IN after[1]

\* A block: threshold and window, then statements up to the first brace that
\* closes; what follows it is ignored.
BlockPattern ==
  <<{"on"}, {"event"}, {"ZkProofInvalid", "HeartbeatMiss", "MalformedPacket"}, {"("},
    {"threshold"}, {"=", ":"}, {t \in Ints : NumberOf[t] \in 0..MAX_REACTIVE_THRESHOLD},
    {","}, {"window"}, {"=", ":"}, Ints, {"s"}, {")"}, {"for"}, Words, {"{"}>>
\* The missing colon is reported at the token that is missing.
ShortBlock(tokens) ==
  \E n \in {5, 9} : Fits(tokens, SubSeq(BlockPattern, 1, n))

BodyLines(tokens) ==
  LET closed == SelectInSeq(tokens, LAMBDA t : t = "}")
      inside == IF closed = 0 THEN tokens ELSE SubSeq(tokens, 1, closed - 1)
      split == FoldLeft(LAMBDA acc, t :
                          IF t = "newline"
                          THEN [lines |-> Append(acc.lines, acc.line), line |-> <<>>]
                          ELSE [acc EXCEPT !.line = Append(@, t)],
                        [lines |-> <<>>, line |-> <<>>], inside)
  IN SelectSeq(Append(split.lines, split.line), LAMBDA l : l # <<>>)

-----------------------------------------------------------------------------
\* What an identifier stands for is known when the node is built.
ValueOf(t) ==
  IF t \in Ints THEN [type |-> "i64", id |-> ""]
  ELSE IF t \in Strs THEN [type |-> "string", id |-> ""]
  ELSE [type |-> "ident", id |-> t]

ParseFlat(tokens) ==
  CASE Fits(tokens, UsePattern) -> [kind |-> "use", path |-> tokens[2]]
    [] Fits(tokens, NodePattern) ->
         [kind |-> "node", id |-> tokens[2], value |-> ValueOf(tokens[5]),
          strength |-> StrengthOf[tokens[6]]]
    [] Fits(tokens, DerivePattern) ->
         [kind |-> "derive", id |-> tokens[2], left |-> tokens[4],
          right |-> tokens[6], type |-> tokens[8]]
    [] Fits(tokens, AttestPattern) ->
         [kind |-> "attest", id |-> tokens[2], witnesses |-> NumberOf[tokens[4]],
          external |-> tokens[6] = "true"]
    [] Fits(tokens, AssertPattern) ->
         [kind |-> "assert", id |-> tokens[2], min |-> StrengthOf[tokens[4]]]
    [] Fits(tokens, ActPattern) ->
         [kind |-> "act", id |-> tokens[2], requires |-> StrengthOf[tokens[6]]]
    [] \E p \in IfPatterns : Begins(tokens, p) -> Conditional(tokens)
    [] \E p \in TriggerPatterns : Begins(tokens, p) ->
         LET actions == ReactiveActions(From(tokens, 6))
         IN IF Error \in Range(actions) THEN Error
            ELSE [kind |-> "on", trigger |-> tokens[2], actions |-> actions]
    [] ShortTrigger(tokens) \/ ShortBlock(tokens) -> Panic
    [] OTHER -> Error

\* The first refusal of a sequence of results, or the results.
FirstRefused(results) ==
  LET i == SelectInSeq(results, LAMBDA r : r \in Refused)
  IN IF i = 0 THEN results ELSE <<results[i]>>

\* A block: its lines, and what has become of them.
LinesOf(tokens) == BodyLines(From(tokens, Len(BlockPattern) + 1))
Block(tokens, parsed) ==
  LET body == FirstRefused(parsed)
  IN IF body # <<>> /\ body[1] \in Refused THEN body[1]
     ELSE [kind |-> "block", event |-> tokens[3], body |-> body]

\* A block in a block is read to the end of its line; the model goes no deeper.
ParseStatement(tokens) ==
  LET flat(lines) == [i \in DOMAIN lines |-> ParseFlat(lines[i])]
      inner(line) ==
        IF Begins(line, BlockPattern) THEN Block(line, flat(LinesOf(line)))
        ELSE ParseFlat(line)
      lines == LinesOf(tokens)
  IN IF Begins(tokens, BlockPattern)
     THEN Block(tokens, [i \in DOMAIN lines |-> inner(lines[i])])
     ELSE ParseFlat(tokens)

-----------------------------------------------------------------------------
Opens(line, brace) == Cardinality({i \in DOMAIN line : line[i] = brace})

\* A header that asks for another version, refused before the first statement.
OtherVersion == <<"// nex-version: other">>

\* parse(): lines are collected while braces are open; one without tokens, a
\* comment, is skipped.  The first refusal is the result, an open block at the
\* end is an error.
parse(lines) ==
  LET step(acc, line) ==
        LET depth == acc.depth + Opens(line, "{") - Opens(line, "}")
            block == acc.block \o line
        IN IF line = OtherVersion /\ acc.depth = 0 /\ acc.statements = <<>>
           THEN [acc EXCEPT !.statements = <<Error>>]
           ELSE IF line \in {<<>>, OtherVersion} THEN acc
           ELSE IF depth = 0
           THEN [block |-> <<>>, depth |-> 0,
                 statements |-> Append(acc.statements, ParseStatement(block))]
           ELSE [acc EXCEPT !.block = Append(block, "newline"), !.depth = depth]
      read == FoldLeft(step, [block |-> <<>>, depth |-> 0, statements |-> <<>>], lines)
  IN FirstRefused(IF read.depth = 0 THEN read.statements
                  ELSE Append(read.statements, Error))

=============================================================================
