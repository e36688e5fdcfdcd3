------------------------------ MODULE Behavior ------------------------------
(***************************************************************************)
(* The behaviour engine (crates/host/src/nex/behavior_engine.rs): one cycle *)
(* in each run of the pipeline.  It looks at the project, plans from that   *)
(* and from the last iterations, registers what it did in the iteration log *)
(* (iteration.rs), looks for patterns in the whole history                  *)
(* (feedback_loop.rs, pattern_detector.rs, rule_adjuster.rs), learns        *)
(* (dictionary.rs) and saves.  Everything is in files, no write is checked, *)
(* and the process may die between any two of them.  Texts, hashes and      *)
(* times are left out, and so are the hints that go into texts.             *)
(***************************************************************************)
EXTENDS Integers, FiniteSets, Sequences, SequencesExt

CONSTANTS
  Observations,    \* what observe_light() may see: [build_ok, warnings]
  Recent,          \* the iterations the plan looks back on: 10 in the code
  MaxRuns,         \* bound: runs of the pipeline
  MaxLostWrites    \* bound: writes of iterations that fail

ASSUME BehaviorAssumption ==
  /\ Observations \subseteq [build_ok : BOOLEAN, warnings : Nat]
  /\ Recent \in Nat \ {0} /\ MaxRuns \in Nat /\ MaxLostWrites \in Nat

None == "none"

VARIABLES
  files,       \* the numbered iterations on disk: id -> record
  latest,      \* latest.json is there
  counter,     \* IterationLog::counter
  phase,       \* where the cycle is; "down": no process
  observed,    \* the observation of this cycle
  plan,        \* actions planned and not yet registered
  feedback,    \* what executar() returned: patterns, and the score above 0.7 or below 0.3
  knowledge,   \* [iteracoes, score]: cycles, and the score of the active rules in tenths
  entries,     \* the dictionary: a sequence of entries
  saved,       \* knowledge.json, and the files of the dictionary by category
  torn,        \* history: a crash left knowledge.json cut off
  runs, lost,  \* counters of the bounds; lost: records that were not written
  taken        \* history: id of an iteration -> actions that investigated it

storeVars == <<files, latest, lost>>
memoryVars == <<observed, plan, feedback, knowledge, entries>>
behaviorVars ==
  <<files, latest, counter, phase, observed, plan, feedback, knowledge, entries, saved,
    torn, runs, lost, taken>>

-----------------------------------------------------------------------------
\* Numbers in their order, and what a sequence has at some places.
Ascending(S) ==
  [i \in 1..Cardinality(S) |-> CHOOSE n \in S : Cardinality({k \in S : k < n}) = i - 1]
Picked(s, places) ==
  LET at == Ascending(places) IN [i \in DOMAIN at |-> s[at[i]]]

\* The iteration log.  todas(): what is on disk, in the order of the ids.
Ids == Ascending(DOMAIN files)
todas == LET ids == Ids IN [i \in DOMAIN ids |-> files[ids[i]]]

\* Mutant: the counter starts again.
CountNothing == 0
\* new(): the counter is the number of .json files, latest.json among them.
CountFiles == Cardinality(DOMAIN files) + IF latest THEN 1 ELSE 0

Record(observation, tipo, resultado, about) ==
  [build_ok |-> observation.build_ok, warnings |-> observation.warnings, tipo |-> tipo,
   resultado |-> resultado, about |-> about]

\* registrar(): the id is taken even when the record cannot be written.
registrar(iteration) ==
  /\ counter' = counter + 1
  /\ \/ /\ files' = [id \in DOMAIN files \cup {counter + 1} |->
                      IF id = counter + 1 THEN iteration ELSE files[id]]
        /\ UNCHANGED lost
     \/ lost < MaxLostWrites /\ lost' = lost + 1 /\ UNCHANGED files
  /\ latest' \in {latest, TRUE}

-----------------------------------------------------------------------------
\* pensar(): one action for each thing seen, then one for each of the last
\* iterations that failed or found no pattern.
\* Mutant: all iterations are looked at.
Whole(ids) == ids
LastOf(ids) == IF Len(ids) <= Recent THEN ids ELSE SubSeq(ids, Len(ids) - Recent + 1, Len(ids))

pensar(observation) ==
  LET seen == (IF observation.build_ok THEN <<>> ELSE <<"corrigir_build">>)
              \o IF observation.warnings = 0 THEN <<>> ELSE <<"limpar_warnings">>
      first == IF seen = <<>> THEN <<"monitorar">> ELSE seen
      recentes == Reverse(LastOf(Ids))
      troubled == Picked(recentes, {i \in DOMAIN recentes :
                                      files[recentes[i]].resultado \in {"falha", "padrao"}})
  IN [i \in DOMAIN first |-> [tipo |-> first[i], about |-> 0]]
     \o [i \in DOMAIN troubled |->
           [tipo |-> IF files[troubled[i]].resultado = "falha" THEN "investigar" ELSE "otimizar",
            about |-> troubled[i]]]

\* agir(): the outcome of an action; nothing is done to the project.
Outcome(acao) ==
  CASE acao.tipo = "corrigir_build" -> "falha"
    [] acao.tipo \in {"investigar", "otimizar"} -> "sucesso"
    [] OTHER -> "neutro"

Start ==
  /\ phase = "down" /\ runs < MaxRuns
  /\ runs' = runs + 1
  /\ counter' = CountFiles
  /\ knowledge' = saved.knowledge
  /\ entries' = saved.dictionary["rust"] \o saved.dictionary["learned"]
  /\ \E observation \in Observations :
       /\ observed' = observation
       /\ plan' = pensar(observation)
  /\ phase' = "agir"
  /\ UNCHANGED <<files, latest, feedback, saved, torn, lost, taken>>

Agir ==
  /\ phase = "agir" /\ plan # <<>>
  /\ LET acao == Head(plan)
     IN /\ registrar(Record(observed, acao.tipo, Outcome(acao), acao.about))
        /\ taken' = IF acao.about = 0 THEN taken
                    ELSE [id \in DOMAIN taken \cup {acao.about} |->
                            (IF id \in DOMAIN taken THEN taken[id] ELSE 0)
                            + IF id = acao.about THEN 1 ELSE 0]
  /\ plan' = Tail(plan)
  /\ UNCHANGED <<phase, observed, feedback, knowledge, entries, saved, torn, runs>>

-----------------------------------------------------------------------------
\* detectar(): features that recur, states that go with actions, actions that
\* go with outcomes.
Kind(r) == IF r.resultado = "padrao" THEN "neutro" ELSE r.resultado
Features(r) ==
  {<<"build", r.build_ok>>, <<"tests", "pass">>, <<"warnings", r.warnings>>,
   <<"acao_tipo", r.tipo>>, <<"resultado", Kind(r)>>}
Among(h, Test(_)) == Cardinality({i \in DOMAIN h : Test(h[i])})
detectar(h) ==
  LET recurring == {[kind |-> "recorrencia", of |-> f, n |-> Among(h, LAMBDA r : f \in Features(r))] :
                      f \in UNION {Features(r) : r \in Range(h)}}
      causal == {[kind |-> "causalidade", of |-> <<r.build_ok, r.tipo>>,
                  n |-> Among(h, LAMBDA q : <<q.build_ok, q.tipo>> = <<r.build_ok, r.tipo>>)] :
                   r \in Range(h)}
      correlated == {[kind |-> "correlacao", of |-> <<r.tipo, Kind(r)>>,
                      n |-> Among(h, LAMBDA q : <<q.tipo, Kind(q)>> = <<r.tipo, Kind(r)>>)] :
                       r \in Range(h)}
  IN {p \in recurring \cup causal \cup correlated :
        p.n >= 3 /\ (p.kind = "recorrencia" => 2 * p.n >= Len(h))}

\* analisar(): the patterns that ask for an adjustment; all are sure enough to
\* be applied.
analisar(padroes, n) ==
  {p \in padroes : \/ p.n > 10 /\ 10 * p.n > 8 * n
                   \/ p.kind = "causalidade" /\ 10 * p.n > 7 * n}

\* calcular_score(), in hundredths times the length of the history.
ScoreTimes(h, padroes) ==
  LET score == 100 * Among(h, LAMBDA r : r.resultado = "sucesso")
               + Len(h) * Cardinality(padroes)
               - 5 * Len(h) * Among(h, LAMBDA r : r.resultado = "falha")
  IN IF score < 0 THEN 0 ELSE score

\* FeedbackLoop::executar(): the state of the last iteration is registered again.
Executar ==
  /\ phase = "agir" /\ plan = <<>>
  /\ LET h == todas
         padroes == detectar(h)
         state == IF h = <<>> THEN [build_ok |-> TRUE, warnings |-> 0] ELSE h[Len(h)]
         resultado == IF analisar(padroes, Len(h)) # {} THEN "sucesso"
                      ELSE IF padroes # {} THEN "neutro" ELSE "padrao"
     IN /\ registrar(Record(state, "feedback_loop", resultado, 0))
        /\ feedback' = [padroes |-> Cardinality(padroes),
                        high |-> ScoreTimes(h, padroes) > 70 * Len(h),
                        low |-> ScoreTimes(h, padroes) < 30 * Len(h) \/ h = <<>>]
  /\ phase' = "aprender"
  /\ UNCHANGED <<observed, plan, knowledge, entries, saved, torn, runs, taken>>

-----------------------------------------------------------------------------
\* The dictionary.  learn(): an entry of the same name is kept, and raised.
Hypothese == 1
Verified == 3
Entry(name, n, level) == [name |-> name, n |-> n, level |-> level, occurrences |-> 1]

PlaceOf(entry, dictionary) ==
  SelectInSeq(dictionary, LAMBDA e : e.name = entry.name /\ e.n = entry.n)
Raised(known, level) ==
  [known EXCEPT !.level = IF level > @ THEN level ELSE @, !.occurrences = @ + 1]
learn(dictionary, entry) ==
  LET i == PlaceOf(entry, dictionary)
  IN IF i = 0 THEN Append(dictionary, entry)
     ELSE [dictionary EXCEPT ![i] = Raised(@, entry.level)]

\* aprender(): what it learns in cycle n, in this order; what observe_light() did
\* not look at counts as verified.
Lessons(n) ==
  LET good == IF feedback.high THEN learn(entries, Entry("learned", n, Verified)) ELSE entries
      seen == IF feedback.padroes > 0 THEN learn(good, Entry("pattern", n, Hypothese)) ELSE good
  IN learn(learn(seen, Entry("clippy_clean", 0, Verified)),
           Entry("miri_verified", 0, Verified))

\* Mutant: the dictionary is saved first.
FirstSavedDictionary == "dictionary"
FirstSaved == "knowledge"

Aprender ==
  /\ phase = "aprender"
  /\ LET n == knowledge.iteracoes + 1
         up == IF knowledge.score = 10 THEN 10 ELSE knowledge.score + 1
         down == IF knowledge.score = 0 THEN 0 ELSE knowledge.score - 1
     IN /\ knowledge' = [iteracoes |-> n,
                         score |-> IF feedback.high THEN up
                                   ELSE IF feedback.low THEN down ELSE knowledge.score]
        /\ entries' = Lessons(n)
  /\ phase' = FirstSaved
  /\ UNCHANGED <<storeVars, counter, observed, plan, feedback, saved, torn, runs, taken>>

InitialKnowledge == [iteracoes |-> 0, score |-> 10]
Categories == {"rust", "learned"}
CategoryOf(e) == IF e.name \in {"learned", "pattern"} THEN "learned" ELSE "rust"
FileOf(category) ==
  Picked(entries, {i \in DOMAIN entries : CategoryOf(entries[i]) = category})
Files == [c \in Categories |-> FileOf(c)]

\* The process ends, and its memory with it.
Exit ==
  /\ phase' = "down" /\ counter' = 0
  /\ observed' = None /\ plan' = <<>> /\ feedback' = None
  /\ knowledge' = InitialKnowledge /\ entries' = <<>>

\* salvar_knowledge(), then Dictionary::save().
SalvarKnowledge ==
  /\ phase = "knowledge"
  /\ saved' = [saved EXCEPT !.knowledge = knowledge]
  /\ IF FirstSaved = "knowledge"
     THEN phase' = "dictionary" /\ UNCHANGED <<counter, memoryVars>> ELSE Exit
  /\ UNCHANGED <<storeVars, torn, runs, taken>>

SaveDictionary ==
  /\ phase = "dictionary"
  /\ saved' = [saved EXCEPT !.dictionary = Files]
  /\ IF FirstSaved = "knowledge"
     THEN Exit ELSE phase' = "knowledge" /\ UNCHANGED <<counter, memoryVars>>
  /\ UNCHANGED <<storeVars, torn, runs, taken>>

\* The process dies between two writes, or in one: the file is cut off.  A
\* knowledge.json that cannot be read is one that is not there, a dictionary
\* keeps the lines that can be read.
Crash ==
  /\ phase # "down" /\ Exit
  /\ \/ UNCHANGED <<saved, torn>>
     \/ /\ phase = "knowledge"
        /\ saved' = [saved EXCEPT !.knowledge = InitialKnowledge] /\ torn' = TRUE
     \/ /\ phase = "dictionary"
        /\ \E c \in Categories, done \in SUBSET Categories : \E k \in 0..Len(FileOf(c)) :
             saved' = [saved EXCEPT !.dictionary =
                         [d \in Categories |-> IF d = c THEN SubSeq(FileOf(d), 1, k)
                                               ELSE IF d \in done THEN FileOf(d) ELSE @[d]]]
        /\ UNCHANGED torn
  /\ UNCHANGED <<storeVars, runs, taken>>

BehaviorInit ==
  /\ files = [id \in {} |-> 0] /\ latest = FALSE /\ counter = 0
  /\ phase = "down" /\ observed = None /\ plan = <<>> /\ feedback = None
  /\ knowledge = InitialKnowledge /\ entries = <<>>
  /\ saved = [knowledge |-> InitialKnowledge, dictionary |-> [c \in Categories |-> <<>>]]
  /\ torn = FALSE /\ runs = 0 /\ lost = 0 /\ taken = [id \in {} |-> 0]

BehaviorNext ==
  \/ Start \/ Agir \/ Executar \/ Aprender \/ SalvarKnowledge \/ SaveDictionary \/ Crash
BehaviorSpec == BehaviorInit /\ [][BehaviorNext]_behaviorVars

-----------------------------------------------------------------------------
\* iteration.rs:67: the counter is found again by counting files.  As long as
\* every record was written, no run, complete or not, writes over the record of
\* another.
HistoryKept ==
  [][lost' = 0 => \A id \in DOMAIN files :
                    id \in DOMAIN files' /\ files'[id] = files[id]]_behaviorVars

\* behavior_engine.rs:353: what failed is looked into again in the next runs, and
\* what is done then pushes it out of sight: whatever is seen meanwhile, an
\* iteration is not taken up more than half as often as the plan looks back.
InvestigationsEnd ==
  lost = 0 => \A id \in DOMAIN taken : taken[id] <= (Recent + 1) \div 2

\* behavior_engine.rs:541: lessons are named for the cycle that learnt them.
\* The count of the cycles is on disk before they are, so that unless a crash
\* cut it off no later lesson has the name of one on disk, which learn() would
\* take for the same.
LessonsNumbered ==
  ~torn => \A i \in DOMAIN saved.dictionary["learned"] :
             saved.dictionary["learned"][i].n <= saved.knowledge.iteracoes

=============================================================================
