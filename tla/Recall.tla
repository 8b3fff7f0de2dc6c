------------------------------- MODULE Recall -------------------------------
(***************************************************************************)
(* What one session remembers, and what its planners are told of it: the   *)
(* notes, logs and events of crates/memory, their keyword search, the      *)
(* planner that Workspace::planner builds out of the configured context    *)
(* and the recalled memory, and the choice of skills a planner is offered  *)
(* on each turn of a run (crates/agent, crates/gateway).  The leases that  *)
(* keep the writers of a session apart are in RunJournal, so here one note *)
(* or one run has the session at a time.                                   *)
(*                                                                         *)
(* Text is a sequence of lines.  A line is the words and the whole         *)
(* instructions it holds, whether it has one of the phrases that make an   *)
(* instruction a request to replan, the "failed step:" or "failed tool:"   *)
(* field it begins with, and whether it begins with the "## " of a log's   *)
(* header and the time stamp that follows it.  Blank lines are left out:   *)
(* parsing trims them around a log, and nothing looks for one.             *)
(***************************************************************************)
EXTENDS Integers, Sequences, FiniteSets, SequencesExt, FiniteSetsExt

CONSTANTS
  Skills,                \* the catalog, in its order
  HandingBack,           \* skills with resume_original_instruction
  Rules,                 \* Rules[s]: recovery_for, each a set of steps and a set of tools
  FailingSteps,          \* FailingSteps[s]: the steps at which skill s may fail
  ToolOf,                \* ToolOf[step]
  Instructions,
  Tokens,                \* Tokens[i]: the words of instruction i
  InstructionText,       \* InstructionText[i]: its lines
  Words, Names,          \* what lines may say, and what their fields may name
  Notes,                 \* what a user may note, as lines
  ContextFiles,          \* the text of context_files, as lines
  Reasons,               \* what a model may give as its reason, as lines
  Chains,                \* the provider and the fallbacks of a request
  RecallLimit, Snippet,  \* 5 memories of 1000 characters; here lines stand for characters
  MaxReplans,
  MaxNotes, MaxRuns, MaxClock    \* bounds of the model

Catalog == ToSet(Skills)
Steps == UNION {FailingSteps[s] : s \in Catalog}
NoField == [label |-> "none", value |-> "none"]
NoStamp == 0
Unknown == MaxClock + 1          \* as text, "unknown" is greater than every number

Fields == [label : {"none", "failed step", "failed tool"}, value : Names]
Lines == [head : BOOLEAN, stamp : 0 .. Unknown, says : SUBSET Words, flag : BOOLEAN,
          field : Fields]

\* The heading of the context says a word of its own, by which it is told from other lines.
ASSUME RecallAssumption ==
  /\ RecallLimit \in Nat /\ Snippet \in Nat \ {0} /\ MaxClock \in Nat \ {0}
  /\ "context" \notin Words /\ "none" \in Names
  /\ Skills \in Seq(Words)
  /\ \A step \in Steps : step \in Names \ {"none"} /\ ToolOf[step] \in Names
  /\ \A s \in HandingBack : \A rule \in Rules[s] : "none" \notin rule.steps \cup rule.tools
  /\ \A i \in Instructions :
       IsFiniteSet(Tokens[i]) /\ InstructionText[i] \in Seq(Lines) \ {<<>>}
  /\ Notes \subseteq Seq(Lines)
  /\ ContextFiles \in Seq(Lines)
  /\ Reasons \subseteq Seq(Lines) \ {<<>>}

Line(says, flag, field) ==
  [head |-> FALSE, stamp |-> NoStamp, says |-> says, flag |-> flag, field |-> field]
Plain == Line({}, FALSE, NoField)
FailedStep(s) == Line({}, TRUE, [label |-> "failed step", value |-> s])
FailedTool(t) == Line({}, FALSE, [label |-> "failed tool", value |-> t])

VARIABLES
  disk,                  \* long_term.md
  events,                \* short_term.json: the text and the time of each event
  memory,                \* the logs of the Memory a run has open
  clock, notes, runs,
  reasons,               \* the reasons the runs have logged
  pc,
  run,                   \* the run: its instruction, planners, context and replans
  turn                   \* what a planner was asked: prompt and skills offered

vars == <<disk, events, memory, clock, notes, runs, reasons, pc, run, turn>>

NoTurn == [planner |-> "none", prompt |-> <<>>, offered |-> {}]
NoRun == [instruction |-> "none", chain |-> <<>>, candidate |-> 0, recalled |-> <<>>,
          context |-> <<>>, planning |-> <<>>, failure |-> "none", replans |-> 0]

Init ==
  /\ disk = <<>> /\ events = <<>> /\ memory = <<>>
  /\ clock = 1 /\ notes = {} /\ runs = <<>> /\ reasons = {}
  /\ pc = "idle" /\ run = NoRun /\ turn = NoTurn

-----------------------------------------------------------------------------
(* Memory: its file, and its search.                                       *)

\* A line that follows something on the same line: neither a header nor a field.
Prefixed(line) == [line EXCEPT !.head = FALSE, !.stamp = NoStamp, !.field = NoField]
WithPrefix(text) == <<Prefixed(Head(text))>> \o Tail(text)

\* persist_long_term: a log is its header and its body.
Written(log) == <<[log.title EXCEPT !.head = TRUE, !.stamp = log.stamp]>> \o log.body
Render(logs) == FlattenSeq([k \in DOMAIN logs |-> Written(logs[k])])

\* parse_markdown_logs: every line that begins with "## " starts a log, whoever wrote it, and
\* one without " | " has no time.
Headers(lines) == {k \in DOMAIN lines : lines[k].head}
HeaderAt(lines, n) ==
  CHOOSE k \in Headers(lines) : Cardinality({j \in Headers(lines) : j < k}) = n - 1
LogAt(lines, h, end) ==
  [stamp |-> IF lines[h].stamp = NoStamp THEN Unknown ELSE lines[h].stamp,
   title |-> [lines[h] EXCEPT !.head = FALSE, !.stamp = NoStamp],
   body  |-> SubSeq(lines, h + 1, end)]
LogsOf(lines) ==
  LET count == Cardinality(Headers(lines))
  IN  [n \in 1 .. count |->
         LogAt(lines, HeaderAt(lines, n),
               IF n = count THEN Len(lines) ELSE HeaderAt(lines, n + 1) - 1)]

\* Mutant: a header without a time is not taken for a log, and is lost with what follows it.
ParseStampedOnly(lines) == SelectSeq(LogsOf(lines), LAMBDA log : log.stamp # Unknown)
Parse(lines) == LogsOf(lines)

\* What is searched: every event and then every log, each with its text.
TextOf(log) == <<log.title>> \o log.body
Memories == events \o [k \in DOMAIN Parse(disk) |->
                         [stamp |-> Parse(disk)[k].stamp, text |-> TextOf(Parse(disk)[k])]]

Said(text) == UNION {text[k].says : k \in DOMAIN text}
Quotes(text, i) == i \in Said(text)

\* Memory::search: one point for a token, two more for the whole query; ties go to the greater
\* time stamp, as text, and then to the later memory.
Score(text, i) == Cardinality(Tokens[i] \cap Said(text)) + (IF Quotes(text, i) THEN 2 ELSE 0)
Search(i) ==
  LET all == Memories
      score == [k \in DOMAIN all |-> Score(all[k].text, i)]
      Ahead(a, b) == \/ score[a] > score[b]
                     \/ score[a] = score[b] /\ all[a].stamp > all[b].stamp
                     \/ score[a] = score[b] /\ all[a].stamp = all[b].stamp /\ a > b
      hits == {k \in DOMAIN all : score[k] > 0}
      At(rank) == CHOOSE k \in hits : Cardinality({j \in hits : Ahead(j, k)}) = rank - 1
  IN  [rank \in 1 .. Min({RecallLimit, Cardinality(hits)}) |-> all[At(rank)].text]

-----------------------------------------------------------------------------
(* What a planner is told, and which skills it is offered.                 *)

\* Workspace::planner: the context files, and a snippet of each memory recalled.
SnippetOf(text) == WithPrefix(SubSeq(text, 1, Min({Snippet, Len(text)})))
Context(recalled) ==
  ContextFiles \o (IF recalled = <<>> THEN <<>> ELSE <<Plain>>)
               \o FlattenSeq([n \in DOMAIN recalled |-> SnippetOf(recalled[n])])

ContextHeading == Line({"context"}, FALSE, NoField)
\* ContextPlanner and EnvPlanner: the context follows the instruction, for a model only.
\* Mutant: the context goes first.
WithContextFirst(text, context, planner) ==
  IF context = <<>> \/ planner = "mock" THEN text ELSE <<ContextHeading>> \o context \o text
WithContext(text, context, planner) ==
  IF context = <<>> \/ planner = "mock" THEN text ELSE text \o <<ContextHeading>> \o context

\* The prompt a candidate's planner gets. "auto" is looked up when it is asked, and adds the
\* context itself. Mutant: the planner around it adds the context as well.
PromptTwice(name, planner) ==
  LET outer == WithContext(run.planning, run.context, name)
  IN  IF name = "auto" THEN WithContext(outer, run.context, planner) ELSE outer
Prompt(name, planner) ==
  LET outer == WithContext(run.planning, IF name = "auto" THEN <<>> ELSE run.context, name)
  IN  IF name = "auto" THEN WithContext(outer, run.context, planner) ELSE outer

IsReplan(text) == \E k \in DOMAIN text : text[k].flag
\* extract_instruction_field: the first line that begins with the label.
Field(text, label) ==
  LET k == SelectInSeq(text, LAMBDA line : ~line.head /\ line.field.label = label)
  IN  IF k = 0 THEN "none" ELSE text[k].field.value

\* RecoveryRule::matches and recovery_candidates, for rules without observation_contains, which
\* no skill of the repository has.
Matches(rule, step, tool) ==
  /\ rule.steps # {} \/ rule.tools # {}
  /\ rule.steps # {} => step \in rule.steps
  /\ rule.tools # {} => tool \in rule.tools
Candidates(step, tool) ==
  {s \in HandingBack : \E rule \in Rules[s] : Matches(rule, step, tool)}
CandidatesIn(text) == Candidates(Field(text, "failed step"), Field(text, "failed tool"))

\* The enum of the planner's schema. What the prompt says of it is built from the same.
Allowed(text) ==
  IF IsReplan(text) /\ CandidatesIn(text) # {} THEN CandidatesIn(text) ELSE Catalog

\* FilePromptPlanner: the first candidate, or the first recovery skill; the rest of its
\* heuristic compares words and may pick any skill.
First(skills) == {Skills[SelectInSeq(Skills, LAMBDA s : s \in skills)]}
MockChoice(text) ==
  IF ~IsReplan(text) THEN Catalog
  ELSE IF CandidatesIn(text) # {} THEN First(CandidatesIn(text))
  ELSE IF HandingBack # {} THEN First(HandingBack) ELSE Catalog

Offered(text, planner) == IF planner = "mock" THEN MockChoice(text) ELSE Allowed(text)

-----------------------------------------------------------------------------
(* Notes and runs.                                                         *)

Later == clock' \in {clock, clock + 1} \cap 1 .. MaxClock

\* remember_note; MaxNotes bounds how often.
Note(n) ==
  /\ pc = "idle" /\ Cardinality(notes) < MaxNotes
  /\ disk' = Render(Append(Parse(disk), [stamp |-> clock, title |-> Plain, body |-> n]))
  /\ notes' = notes \cup {n}
  /\ Later
  /\ UNCHANGED <<events, memory, runs, reasons, pc, run, turn>>

\* run_internal opens the memory and builds the planner; MaxRuns bounds how often.
Begin(i, chain) ==
  /\ pc = "idle" /\ Len(runs) < MaxRuns
  /\ memory' = Parse(disk)
  /\ run' = [NoRun EXCEPT !.instruction = i, !.chain = chain, !.candidate = 1,
               !.recalled = Search(i), !.context = Context(Search(i)),
               !.planning = InstructionText[i]]
  /\ runs' = Append(runs, i)
  /\ pc' = "turn"
  /\ UNCHANGED <<disk, events, clock, notes, reasons, turn>>

\* The candidate is asked; "auto" finds a model or falls back to the mock planner.
Ask(planner) ==
  LET name == run.chain[run.candidate]
      prompt == Prompt(name, planner)
  IN  /\ pc = "turn"
      /\ name # "auto" => planner = name
      /\ turn' = [planner |-> planner, prompt |-> prompt, offered |-> Offered(prompt, planner)]
      /\ pc' = "asked"
      /\ UNCHANGED <<disk, events, memory, clock, notes, runs, reasons, run>>

\* The run returns, and its Memory is dropped.
Close == pc' = "idle" /\ run' = NoRun /\ memory' = <<>>

\* The candidate fails: the next one is asked, or the run ends with the error.
Refuse ==
  /\ pc = "asked"
  /\ turn' = NoTurn
  /\ \/ run.candidate < Len(run.chain)
        /\ run' = [run EXCEPT !.candidate = @ + 1] /\ pc' = "turn" /\ UNCHANGED memory
     \/ run.candidate = Len(run.chain) /\ Close
  /\ UNCHANGED <<disk, events, clock, notes, runs, reasons>>

\* remember_event: an event is one line of JSON, in which the lines of a longer instruction are
\* no longer the text a search would look for.
InstructionEvent(text) ==
  [stamp |-> clock,
   text |-> <<Line(Said(text) \ (IF Len(text) > 1 THEN Instructions ELSE {}),
                  IsReplan(text), NoField)>>]
SkillEvent(s) == [stamp |-> clock, text |-> <<Line({s}, FALSE, NoField)>>]

\* A log repeats the user's instruction, not what the planner was asked.
\* Mutant: it repeats the planning instruction.
ExecutionLogOfPlanning(title, tail) ==
  [stamp |-> clock, title |-> title, body |-> WithPrefix(run.planning) \o tail]
ExecutionLog(title, tail) ==
  [stamp |-> clock, title |-> title,
   body |-> WithPrefix(InstructionText[run.instruction]) \o tail]

\* "monitor_after_<step>", or "replan_after_<step>".
NextAction(flag) == Line({}, flag, NoField)

\* The log of a skill's execution: "Executed <skill>", and in its body the reason the planner
\* gave for the skill, a model's in its own words and on as many lines as it likes.
SkillLog(s, reason, flag) ==
  ExecutionLog(Line({s}, FALSE, NoField), WithPrefix(reason) \o <<NextAction(flag)>>)

\* The mock planner's reasons are single lines that neither ask for a replan nor report a failure.
ReasonsOf(planner) == IF planner = "mock" THEN {<<Plain>>} ELSE Reasons

\* build_replan_instruction.
ReplanText(step) ==
  <<Plain>> \o InstructionText[run.instruction]
            \o <<Line({}, TRUE, NoField), FailedStep(step), FailedTool(ToolOf[step]),
                 NextAction(TRUE)>>

\* remember_event and remember_log, which writes every log the run has in memory.
Record(newEvents, log) ==
  /\ events' = events \o newEvents
  /\ disk' = Render(Append(memory, log))
  /\ Later
  /\ turn' = NoTurn
  /\ UNCHANGED <<notes, runs>>
Executed(s, reason, flag) ==
  /\ Record(<<InstructionEvent(InstructionText[run.instruction]), SkillEvent(s)>>,
            SkillLog(s, reason, flag))
  /\ reasons' = reasons \cup {reason}

\* The gateway loop plans again, with the log in memory.
GoesOn(log, planning, failure, replans) ==
  /\ pc' = "turn"
  /\ memory' = Append(memory, log)
  /\ run' = [run EXCEPT !.planning = planning, !.failure = failure, !.replans = replans,
                        !.candidate = 1]

Original == InstructionText[run.instruction]

\* A recovery skill that completes hands back to the instruction.
Complete(s, reason) ==
  /\ Executed(s, reason, FALSE)
  /\ IF s \in HandingBack /\ run.planning # Original
     THEN GoesOn(SkillLog(s, reason, FALSE), Original, "none", run.replans)
     ELSE Close

Fail(s, reason, step) ==
  /\ Executed(s, reason, TRUE)
  /\ IF run.replans < MaxReplans
     THEN GoesOn(SkillLog(s, reason, TRUE), ReplanText(step), step, run.replans + 1)
     ELSE Close

\* The control stops the skill.
Stopped(s, reason) == Executed(s, reason, FALSE) /\ Close

\* A model may name any skill of the catalog; the mock planner keeps to what it is offered.
Execute(s) ==
  /\ pc = "asked"
  /\ turn.planner = "mock" => s \in turn.offered
  /\ \E reason \in ReasonsOf(turn.planner) :
       \/ Complete(s, reason)
       \/ \E step \in FailingSteps[s] : Fail(s, reason, step)
       \/ Stopped(s, reason)

\* stopped_result: the control stops the run while it plans, or between two skills.
Stop ==
  /\ pc \in {"turn", "asked"}
  /\ Record(<<InstructionEvent(Original)>>, ExecutionLog(Plain, <<>>))
  /\ Close
  /\ UNCHANGED reasons

Next ==
  \/ \E n \in Notes : Note(n)
  \/ \E i \in Instructions, chain \in Chains : Begin(i, chain)
  \/ \E planner \in {"mock", "model"} : Ask(planner)
  \/ Refuse
  \/ \E s \in Catalog : Execute(s)
  \/ Stop

Spec == Init /\ [][Next]_vars

-----------------------------------------------------------------------------
(* Properties.                                                             *)

\* What the session was told, line by line: the notes, the instructions, the context files, and
\* the reasons of models as the logs quote them, the first line behind "reason: ".
Told == UNION ({ToSet(n) : n \in notes} \cup {ToSet(InstructionText[i]) : i \in ToSet(runs)}
                 \cup {ToSet(WithPrefix(r)) : r \in reasons} \cup {ToSet(ContextFiles)})

\* The lines of a note, one after the other.
Holds(lines, n) ==
  \E k \in DOMAIN lines :
    /\ k + Len(n) - 1 <= Len(lines)
    /\ \A m \in DOMAIN n :
         lines[k + m - 1].says = n[m].says /\ lines[k + m - 1].field = n[m].field

\* Nothing noted is lost from long_term.md, however often it is read, split at its headers and
\* written again: each line of a note is the title of a log or a line of its body, and nobody
\* else's line comes between the lines of one note.
NotesSurvive == \A n \in notes : Holds(disk, n)

\* docs/robot-workspace.md: reference context is supplied to model planners, and the mock
\* heuristic goes on using the instruction directly. However the planners are nested, a model gets
\* the context once, after the instruction, and the mock planner never.
ContextOnce ==
  pc = "asked" =>
    LET times == {k \in DOMAIN turn.prompt : turn.prompt[k] = ContextHeading}
    IN  IF turn.planner = "mock" \/ run.context = <<>>
        THEN times = {}
        ELSE times = {Len(run.planning) + 1}

\* The skills offered for a recovery are those whose rules match the step that failed in this
\* run, whatever older failures the session remembers and whoever is asked, unless the
\* instruction itself reports a failure.
TellsOfFailure(i) == \E k \in DOMAIN InstructionText[i] : InstructionText[i][k].field # NoField
RecoveryOnTarget ==
  pc = "asked" /\ run.failure # "none" /\ ~TellsOfFailure(run.instruction) =>
    LET matching == Candidates(run.failure, ToolOf[run.failure])
    IN  matching # {} =>
          turn.offered = IF turn.planner = "mock" THEN First(matching) ELSE matching

\* What the program writes of its runs by itself never narrows a later choice: a first turn
\* offers a model every skill, however many failures and recoveries the session has logged,
\* unless a line somebody else wrote reports a failed step or tool. That is a user's note or
\* instruction, a context file, or a model's reason: a log quotes it as it is, so that a model
\* that repeats the report of a failure in its reason has it recalled in a later run.
OwnLogsNarrowNothing ==
  pc = "asked" /\ turn.planner = "model" /\ run.failure = "none"
    /\ (\A line \in Told : line.field = NoField) => turn.offered = Catalog

=============================================================================
