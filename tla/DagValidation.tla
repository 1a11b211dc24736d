--------------------------- MODULE DagValidation ---------------------------
(***************************************************************************)
(* From the definition of a workflow to the layers of its steps: parseDag  *)
(* (dag-parser.ts), validateDag with detectCycles (dag-validator.ts) and   *)
(* topologicalSort (topological-sorter.ts), as WorkflowExecutor.execute    *)
(* calls them one after the other.                                         *)
(*                                                                         *)
(* Maps and Sets of the program iterate in the order of insertion, which   *)
(* follows the definition: here any order may be taken.  What validateDag  *)
(* checks of a step by itself (name, type, config) is left out.            *)
(***************************************************************************)
EXTENDS Integers, Sequences, FiniteSets

CONSTANTS
  Ids,          \* step ids that occur in definitions
  Unlisted,     \* the dependsOn of a step that has none
  Definitions   \* the definitions considered: sequences of steps

ASSUME DagAssumption ==
  /\ IsFiniteSet(Ids)
  /\ \A def \in Definitions : def \in Seq([id : Ids, dependsOn : SUBSET Ids \cup {Unlisted}])

VARIABLES
  definition,
  phase,        \* "checking", "rejected", "error", "sorting", "sorted", "thrown"
  color,        \* detectCycles: color of each step
  stack,        \* the steps its calls of dfs are at, the innermost last
  left,         \* the neighbors that the call at a step has yet to look at
  cycleNodes,   \* the edges it has reported
  rest,         \* the keys that its loop has yet to call dfs for, if white
  inDegree,     \* topologicalSort: parents not yet visited
  layers,       \* layers pushed
  todo,         \* steps of the last layer that its loop has not come to
  nextLayer,
  visited

dfsVars  == <<color, stack, left, cycleNodes, rest>>
sortVars == <<inDegree, layers, todo, nextLayer, visited>>
vars     == <<definition, phase, dfsVars, sortVars>>

-----------------------------------------------------------------------------
(* parseDag.                                                                *)

Nodes == {definition[i].id : i \in DOMAIN definition}

\* steps.set and inEdges.set: of two steps with one id the last one stays.
LastOf(s) == CHOOSE i \in DOMAIN definition :
               /\ definition[i].id = s
               /\ \A j \in DOMAIN definition : definition[j].id = s => j <= i

\* step.dependsOn ?? []
Parents(i) == IF definition[i].dependsOn = Unlisted THEN {} ELSE definition[i].dependsOn

InEdges(s) == Parents(LastOf(s))

\* adjacency: the edges of all steps, those to unknown steps dropped.
Adjacent(s) == {definition[i].id : i \in {j \in DOMAIN definition : s \in Parents(j)}}

\* What the loops of validateDag over all steps come across.
NoDependsOn       == \E i \in DOMAIN definition : definition[i].dependsOn = Unlisted
UnknownDependency == \E i \in DOMAIN definition : ~(Parents(i) \subseteq Nodes)
DuplicateId       == \E i, j \in DOMAIN definition : i # j /\ definition[i].id = definition[j].id

Init ==
  /\ definition \in Definitions
  /\ phase = "checking"
  /\ color = [s \in Nodes |-> "white"]
  /\ stack = <<>>
  /\ left = [s \in Nodes |-> {}]
  /\ cycleNodes = {}
  /\ rest = Nodes
  /\ inDegree = [s \in Nodes |-> 0]
  /\ layers = <<>>
  /\ todo = {} /\ nextLayer = {} /\ visited = {}

-----------------------------------------------------------------------------
(* detectCycles.                                                            *)

Top == stack[Len(stack)]

Paint(s, c) == color' = [color EXCEPT ![s] = c]

\* A call of dfs.
Call(s) ==
  /\ Paint(s, "gray")
  /\ stack' = Append(stack, s)

\* Seeded bug: the loop goes on until every step is black.
RootUntilBlack(s) ==
  /\ phase = "checking" /\ stack = <<>> /\ color[s] # "black" /\ ~NoDependsOn
  /\ Call(s)
  /\ left' = [left EXCEPT ![s] = Adjacent(s)]
  /\ UNCHANGED <<definition, phase, cycleNodes, rest, sortVars>>

\* The loop over the keys comes to each of them once.
Root(s) ==
  /\ phase = "checking" /\ stack = <<>> /\ s \in rest /\ color[s] = "white"
  /\ ~NoDependsOn
  /\ rest' = rest \ {s}
  /\ Call(s)
  /\ left' = [left EXCEPT ![s] = Adjacent(s)]
  /\ UNCHANGED <<definition, phase, cycleNodes, sortVars>>

\* A gray neighbor is a cycle: every call returns true, and the steps they
\* were at stay gray.
Cycle(n) ==
  /\ cycleNodes' = cycleNodes \cup {<<Top, n>>}
  /\ stack' = <<>>
  /\ UNCHANGED <<color, left>>

Descend(n) ==
  /\ color[n] = "white"
  /\ Call(n)
  /\ left' = [left EXCEPT ![Top] = @ \ {n}, ![n] = Adjacent(n)]
  /\ UNCHANGED cycleNodes

Skip(n) ==
  /\ left' = [left EXCEPT ![Top] = @ \ {n}]
  /\ UNCHANGED <<color, stack, cycleNodes>>

\* Seeded bug: one mark for all the steps dfs has come to.
LookWithOneMark(n) ==
  /\ phase = "checking" /\ stack # <<>> /\ n \in left[Top]
  /\ (color[n] # "white" /\ Cycle(n)) \/ Descend(n)
  /\ UNCHANGED <<definition, phase, rest, sortVars>>

\* Seeded bug: a step that depends on itself is passed over.
LookPastItself(n) ==
  /\ phase = "checking" /\ stack # <<>> /\ n \in left[Top]
  /\ \/ color[n] = "gray" /\ n # Top /\ Cycle(n)
     \/ Descend(n)
     \/ (color[n] = "black" \/ n = Top) /\ Skip(n)
  /\ UNCHANGED <<definition, phase, rest, sortVars>>

\* One turn of the loop over neighbors.
Look(n) ==
  /\ phase = "checking" /\ stack # <<>> /\ n \in left[Top]
  /\ \/ color[n] = "gray" /\ Cycle(n)
     \/ Descend(n)
     \/ color[n] = "black" /\ Skip(n)
  /\ UNCHANGED <<definition, phase, rest, sortVars>>

Leave ==
  /\ phase = "checking" /\ stack # <<>> /\ left[Top] = {}
  /\ Paint(Top, "black")
  /\ stack' = SubSeq(stack, 1, Len(stack) - 1)
  /\ UNCHANGED <<definition, phase, left, cycleNodes, rest, sortVars>>

-----------------------------------------------------------------------------
(* The verdict of validateDag, and what topologicalSort starts from.        *)

Checked == phase = "checking" /\ stack = <<>> /\ \A s \in rest : color[s] # "white"

\* validateDag reads step.dependsOn without the ?? [] of parseDag: a TypeError.
Throw ==
  /\ phase = "checking" /\ NoDependsOn
  /\ phase' = "error"
  /\ UNCHANGED <<definition, dfsVars, sortVars>>

Reject ==
  /\ Checked
  /\ definition = <<>> \/ UnknownDependency \/ DuplicateId \/ cycleNodes # {}
  /\ phase' = "rejected"
  /\ UNCHANGED <<definition, dfsVars, sortVars>>

Sort ==
  /\ phase' = "sorting"
  /\ inDegree' = [s \in Nodes |-> Cardinality(InEdges(s))]
  /\ nextLayer' = {s \in Nodes : InEdges(s) = {}}
  /\ UNCHANGED <<definition, dfsVars, layers, todo, visited>>

Accept ==
  /\ Checked
  /\ definition # <<>> /\ ~UnknownDependency /\ ~DuplicateId /\ cycleNodes = {}
  /\ Sort

-----------------------------------------------------------------------------
(* topologicalSort.                                                         *)

PushLayer ==
  /\ phase = "sorting" /\ todo = {} /\ nextLayer # {}
  /\ layers' = Append(layers, nextLayer)
  /\ todo' = nextLayer
  /\ nextLayer' = {}
  /\ UNCHANGED <<definition, phase, dfsVars, inDegree, visited>>

\* Seeded bug: a child is ready when the first of its parents is.
VisitReadiesAll(s) ==
  /\ phase = "sorting" /\ s \in todo
  /\ todo' = todo \ {s}
  /\ visited' = visited \cup {s}
  /\ inDegree' = [c \in Nodes |-> inDegree[c] - (IF c \in Adjacent(s) THEN 1 ELSE 0)]
  /\ nextLayer' = nextLayer \cup Adjacent(s)
  /\ UNCHANGED <<definition, phase, dfsVars, layers>>

Visit(s) ==
  /\ phase = "sorting" /\ s \in todo
  /\ todo' = todo \ {s}
  /\ visited' = visited \cup {s}
  /\ inDegree' = [c \in Nodes |-> inDegree[c] - (IF c \in Adjacent(s) THEN 1 ELSE 0)]
  /\ nextLayer' = nextLayer \cup {c \in Adjacent(s) : inDegree'[c] = 0}
  /\ UNCHANGED <<definition, phase, dfsVars, layers>>

Finish ==
  /\ phase = "sorting" /\ todo = {} /\ nextLayer = {}
  /\ phase' = IF Cardinality(visited) # Cardinality(Nodes) THEN "thrown" ELSE "sorted"
  /\ UNCHANGED <<definition, dfsVars, sortVars>>

Next ==
  \/ \E s \in Nodes : Root(s) \/ Look(s) \/ Visit(s)
  \/ Leave \/ Throw \/ Reject \/ Accept \/ PushLayer \/ Finish

Spec == Init /\ [][Next]_vars
FairSpec == Spec /\ WF_vars(Next)

-----------------------------------------------------------------------------
(* What the three functions are for.                                        *)

\* No steps wait for each other: every set of steps has one that depends on
\* none of them.
Acyclic ==
  \A S \in SUBSET Nodes : S # {} => \E s \in S : \A p \in S : s \notin Adjacent(p)

TypeOK ==
  /\ definition \in Seq([id : Ids, dependsOn : SUBSET Ids \cup {Unlisted}])
  /\ phase \in {"checking", "rejected", "error", "sorting", "sorted", "thrown"}
  /\ color \in [Nodes -> {"white", "gray", "black"}]
  /\ stack \in Seq(Nodes)
  /\ left \in [Nodes -> SUBSET Nodes]
  /\ cycleNodes \subseteq Nodes \X Nodes /\ rest \subseteq Nodes
  /\ inDegree \in [Nodes -> Nat]
  /\ layers \in Seq(SUBSET Nodes)
  /\ todo \subseteq Nodes /\ nextLayer \subseteq Nodes /\ visited \subseteq Nodes

\* validateDag lets only directed acyclic graphs through, without orphan
\* references and with one step to an id.
AcceptsOnlyDags ==
  phase \in {"sorting", "sorted", "thrown"} =>
    Acyclic /\ ~UnknownDependency /\ ~DuplicateId

\* It rejects no workflow that could be run: paths that meet in a step are not
\* a cycle.
RejectsWithReason ==
  phase = "rejected" =>
    definition = <<>> \/ ~Acyclic \/ UnknownDependency \/ DuplicateId

\* topologicalSort does not throw on what validateDag has let through.
SortNeverThrows == phase # "thrown"

\* Each step is in one layer, behind all it depends on and no later than that
\* needs.
LayersSchedule ==
  phase = "sorted" =>
    \A s \in Nodes :
      \E k \in 1 .. Len(layers) :
        /\ \A m \in 1 .. Len(layers) : s \in layers[m] <=> m = k
        /\ \A d \in InEdges(s) : \E m \in 1 .. k - 1 : d \in layers[m]
        /\ k = 1 \/ \E d \in InEdges(s) : d \in layers[k - 1]

\* The loops and the recursion end on every definition.
Ends == <>(phase \in {"rejected", "error", "sorted", "thrown"})

=============================================================================
