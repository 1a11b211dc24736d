------------------------------ MODULE StepData ------------------------------
(***************************************************************************)
(* What the steps of a run read of one another: the run of WorkflowExecutor*)
(* together with the outputs, the globals and the inputs of scripts        *)
(* (step-runner.ts, variable-interpolator.ts).                             *)
(*                                                                         *)
(* A condition compares what a path leads to with a word,                  *)
(*   '{{<path>}}' === 'active'     or without quotes around the path,      *)
(* and writes its result to the globals, where the runIf of later steps    *)
(* reads it; other runIf expressions stay free.  The text that replaces the*)
(* path is not escaped: it is code of the expression.  A path is a sequence*)
(* of names.  Its steps, and the condition a runIf reads, are in earlier   *)
(* layers: of its own layer a step reads what the order within the layer   *)
(* makes of it.                                                            *)
(***************************************************************************)
EXTENDS WorkflowExecutor, Sequences

CONSTANTS
  Conditions,  \* CONDITION steps, the other Sync ones are scripts
  Delays,      \* DELAY steps
  Path,        \* the path in the expression of each condition
  Quoted,      \* conditions with quotes around it
  Guard        \* runIf steps that read a condition, and the branch they are on

Scripts == Sync \ Conditions

\* First names that a path gives a meaning of its own, whatever steps are called.
Reserved == {"steps", "globals"}

StepNames(path) == {path[i] : i \in 1 .. Len(path)} \cap Steps

ASSUME StepDataAssumption ==
  /\ "none" \notin Steps
  /\ Conditions \subseteq Sync /\ Delays \subseteq Steps \ Sync
  /\ Quoted \subseteq Conditions
  /\ \A s \in Conditions : Path[s][1] \in Steps \cup Reserved
  /\ \A s \in Conditions, d \in Steps : d \in StepNames(Path[s]) => Layer[d] < Layer[s]
  /\ DOMAIN Guard \subseteq RunIf
  /\ Guard \in [DOMAIN Guard -> [on : Conditions, is : {"true", "false"}]]
  /\ \A s \in DOMAIN Guard : Layer[Guard[s].on] < Layer[s]

VARIABLES
  globals,   \* globals._cond_<id> of each condition, "" if it is not there
  word,      \* output.status of each step that has succeeded, if a path names it
  input,     \* ids in the input of a script's last attempt
  previous   \* the step its context.previousStep is of, "none" if null

dataVars == <<globals, word, input, previous>>
allVars  == <<vars, dataVars>>

\* "odd" is what does not read as a word: an object, or text with quotes in it.
Words == {"active", "idle", "odd"}

-----------------------------------------------------------------------------
(* interpolate and evalBoolean.                                             *)

Nowhere == <<>>

\* The fields of a StepResult that are read here.
ResultFields == {"stepId", "status", "output", "error", "attempt"}

Walk(s, fields) ==
  IF fields = <<>> \/ Head(fields) \in ResultFields THEN <<s>> \o fields ELSE Nowhere

\* Where a path leads.  The walk of a path that begins with steps does not drop
\* the id: it looks for a field of that name.
Resolve(path) ==
  IF path[1] = "steps"
    THEN IF path[2] \in Steps /\ results[path[2]] # "none"
           THEN Walk(path[2], Tail(path)) ELSE Nowhere
  ELSE IF path[1] \in Steps /\ results[path[1]] # "none"
    THEN Walk(path[1], Tail(path)) ELSE Nowhere

\* The text put in its place: a skipped step has no output.  Globals and the
\* other parts of a result may be anything.
Text(path) ==
  LET at == Resolve(path)
  IN IF path[1] = "globals" THEN "odd"
     ELSE IF at = Nowhere THEN ""
     ELSE IF at = <<at[1], "output", "status">> THEN word[at[1]]
     ELSE "odd"

\* evalBoolean.  A word between quotes is compared, without quotes it is a name
\* that the sandbox does not know, and an expression that throws is false.  Odd
\* text is code, which may make anything of the expression.
Evaluates(s) ==
  IF Text(Path[s]) = "odd" THEN {"true", "false"}
  ELSE IF Text(Path[s]) = "active" /\ s \in Quoted THEN {"true"} ELSE {"false"}

\* Seeded bug: a condition that was not evaluated counts as false.
RunsUnlessTrue(s) ==
  IF Guard[s].is = "true" THEN globals[Guard[s].on] = "true"
                          ELSE globals[Guard[s].on] # "true"

\* "{{globals._cond_<id>}} === <branch>".  Without the global that is a syntax
\* error, and an expression that throws counts as false.
Runs(s) == globals[Guard[s].on] = Guard[s].is

-----------------------------------------------------------------------------
(* runScriptStep.                                                           *)

\* Seeded bug: the outputs of the steps a script depends on, and no others.
InputsOfDeps(s) == {t \in DependsOn[s] : results[t] = "success"}

Inputs(s) == {t \in Steps : results[t] = "success"}

\* The dependencies of s, of those of them in T, and so on: the smallest set that
\* has them all.
Reach(s, T) ==
  {t \in Steps :
     \A C \in SUBSET Steps :
       /\ DependsOn[s] \subseteq C
       /\ \A d \in C \cap T : DependsOn[d] \subseteq C
       => t \in C}

\* findPreviousDataStep: which of these it is depends on the order of the
\* dependencies.  Those of a step that has been started all have a result.
DataStepsBefore == [s \in Steps |-> Reach(s, Delays) \ Delays]

\* Attempts of the scripts in ss start.
Feed(ss) ==
  /\ input' = [s \in Scripts |-> IF s \in ss THEN Inputs(s) ELSE input[s]]
  /\ previous' \in
       {p \in [Scripts -> Steps \cup {"none"}] :
          \A s \in Scripts :
            IF s \notin ss THEN p[s] = previous[s]
            ELSE IF DataStepsBefore[s] = {} THEN p[s] = "none"
            ELSE p[s] \in DataStepsBefore[s]}

-----------------------------------------------------------------------------
(* The actions of WorkflowExecutor with what they read and write.           *)

\* Globals come with the job, and may hold anything.
DataInit ==
  /\ Init
  /\ globals \in [Conditions -> {"", "true", "false"}]
  /\ word = [s \in Steps |-> ""]
  /\ input = [s \in Scripts |-> {}]
  /\ previous = [s \in Scripts |-> "none"]

Started == {s \in Steps : state[s] # "attempt" /\ state'[s] = "attempt"}

DataAdvance ==
  /\ Advance
  /\ \A s \in DOMAIN Guard :
       state[s] = "idle" /\ state'[s] # "idle" =>
         state'[s] # "crashed" /\ (results'[s] = "skipped") = ~Runs(s)
  /\ Feed(Started \cap Scripts)
  /\ UNCHANGED <<globals, word>>

\* Only what some path reads is kept of an answer.
Answer(s) ==
  IF \E c \in Conditions : s \in StepNames(Path[c])
    THEN \E w \in Words : word' = [word EXCEPT ![s] = w]
    ELSE UNCHANGED word

\* Seeded bug: the result of a condition is its output and nothing else.
DataSucceedLocal(s) ==
  /\ Succeed(s)
  /\ IF s \in Conditions THEN UNCHANGED word ELSE Answer(s)
  /\ UNCHANGED <<globals, input, previous>>

DataSucceed(s) ==
  /\ Succeed(s)
  /\ IF s \in Conditions
       THEN /\ \E b \in Evaluates(s) : globals' = [globals EXCEPT ![s] = b]
            /\ UNCHANGED word
       ELSE Answer(s) /\ UNCHANGED globals
  /\ UNCHANGED <<input, previous>>

\* An expression that throws is false.  But its text is made outside of the try
\* of evalBoolean, and JSON.stringify throws on some objects: then a condition
\* fails like any other step, and may have attempts left.
DataFail(s) ==
  /\ s \in Conditions => Text(Path[s]) = "odd"
  /\ Fail(s)
  /\ UNCHANGED dataVars

DataRetry(s) ==
  /\ Retry(s)
  /\ Feed({s} \cap Scripts)
  /\ UNCHANGED <<globals, word>>

DataReaction ==
  \/ DataAdvance
  \/ (Break \/ ReportResolved \/ ReportRejected) /\ UNCHANGED dataVars

DataNext ==
  \/ DataReaction
  \/ \E s \in Steps :
       \/ DataSucceed(s) \/ DataFail(s) \/ DataRetry(s)
       \/ StepTimeout(s) /\ UNCHANGED dataVars
  \/ (WorkflowTimeout \/ Persist) /\ UNCHANGED dataVars

DataFairness ==
  /\ WF_allVars(DataReaction)
  /\ \A s \in Sync : WF_allVars(DataSucceed(s) \/ DataFail(s))
  /\ \A s \in Steps : WF_allVars(StepTimeout(s) /\ UNCHANGED dataVars) /\ WF_allVars(DataRetry(s))
  /\ WF_allVars(WorkflowTimeout /\ UNCHANGED dataVars)
  /\ WF_allVars(Persist /\ UNCHANGED dataVars)

DataSpec == DataInit /\ [][DataNext]_allVars
FairDataSpec == DataSpec /\ DataFairness

-----------------------------------------------------------------------------
Ancestors == [s \in Steps |-> Reach(s, Steps)]

\* Of two steps on opposite branches of a condition one is skipped and the
\* other is not, whichever layers they are in and whatever was retried or timed
\* out in between.  A condition that was itself skipped runs neither, unless
\* whoever started the execution has set the global.
OneBranch ==
  \A s, t \in DOMAIN Guard :
    LET a == Guard[s].on IN
      /\ Guard[t].on = a /\ Guard[s].is # Guard[t].is
      /\ state[s] # "idle" /\ state[t] # "idle"
      => /\ results[a] = "success" => (results[s] = "skipped") # (results[t] = "skipped")
         /\ results[a] = "skipped" /\ globals[a] = "" =>
              results[s] = "skipped" /\ results[t] = "skipped"

\* A condition that has been evaluated says what the step named by its path has
\* answered, whatever was retried, skipped or timed out in between: if there are
\* quotes around the path, the answer is a word, and the step has no id that
\* paths take for something else.  (Paths that begin with steps lead nowhere.)
ConditionsFollowData ==
  \A s \in Quoted, d \in Steps \ Reserved :
    results[s] = "success" /\ Path[s] = <<d, "output", "status">> /\ word[d] # "odd" =>
      (globals[s] = "true") = (word[d] = "active")

\* A script finds the outputs of all it builds on, in a retry and after the
\* workflow's timeout too: of what is before it those that succeeded, the others
\* missing.  Its previousStep is one of them that is no delay, or a skipped one.
ScriptsSeeWhatCameBefore ==
  \A s \in Scripts :
    state[s] \in {"attempt", "backoff"} =>
      /\ \A t \in Ancestors[s] : (t \in input[s]) = (results[t] = "success")
      /\ previous[s] = "none" => Ancestors[s] \subseteq Delays
      /\ previous[s] # "none" => previous[s] \in Ancestors[s] \ Delays /\ results[previous[s]] \in Good

=============================================================================
