------------------------ MODULE DagValidationProofs ------------------------
(***************************************************************************)
(* Proofs about DagValidation, for every definition over a finite set of   *)
(* step ids: the depth-first search decides acyclicity, and what it lets   *)
(* through is sorted into layers completely.                               *)
(***************************************************************************)
EXTENDS DagValidation, FiniteSetTheorems, SequenceTheorems, TLAPS

Step == [id : Ids, dependsOn : SUBSET Ids \cup {Unlisted}]

-----------------------------------------------------------------------------
(* The graph.  It is a function of the definition, which never changes.     *)

LEMMA GraphKept ==
  ASSUME definition' = definition
  PROVE  /\ Nodes' = Nodes
         /\ \A s : Adjacent(s)' = Adjacent(s)
         /\ \A s : InEdges(s)' = InEdges(s)
         /\ UnknownDependency' = UnknownDependency
         /\ DuplicateId' = DuplicateId
  BY DEF Nodes, Adjacent, InEdges, LastOf, Parents, UnknownDependency, DuplicateId

LEMMA AcyclicKept ==
  ASSUME definition' = definition
  PROVE  Acyclic' = Acyclic
  BY GraphKept DEF Acyclic

LEMMA GraphType ==
  ASSUME definition \in Seq(Step)
  PROVE  /\ Nodes \subseteq Ids
         /\ \A s : Adjacent(s) \subseteq Nodes
<1>1. ASSUME NEW i \in DOMAIN definition PROVE definition[i].id \in Ids
  <2>1. definition[i] \in Step
    OBVIOUS
  <2> QED
    BY <2>1 DEF Step
<1> QED
  BY <1>1 DEF Nodes, Adjacent

\* In a definition that is let through, inEdges and adjacency are the same
\* relation, and both stay within the steps.
LEMMA InEdgesOfDag ==
  ASSUME definition \in Seq(Step), ~DuplicateId, ~UnknownDependency, NEW c \in Nodes
  PROVE  /\ InEdges(c) \subseteq Nodes
         /\ \A s : c \in Adjacent(s) <=> s \in InEdges(c)
<1>1. PICK i \in DOMAIN definition : definition[i].id = c
  BY DEF Nodes
<1>2. \A j \in DOMAIN definition : definition[j].id = c => j = i
  BY <1>1 DEF DuplicateId
<1>3. i \in 1 .. Len(definition)
  BY <1>1
<1>4. /\ definition[i].id = c
      /\ \A j \in DOMAIN definition : definition[j].id = c => j <= i
  BY <1>1, <1>2, <1>3
<1>5. LastOf(c) = i
  BY <1>1, <1>2, <1>4 DEF LastOf
<1>6. InEdges(c) = Parents(i)
  BY <1>5 DEF InEdges
<1>7. InEdges(c) \subseteq Nodes
  BY <1>1, <1>6 DEF UnknownDependency
<1>8. \A s : c \in Adjacent(s) <=> s \in InEdges(c)
  BY <1>1, <1>2, <1>6 DEF Adjacent
<1> QED
  BY <1>7, <1>8

LEMMA NodesFinite ==
  ASSUME definition \in Seq(Step)
  PROVE  IsFiniteSet(Nodes)
  BY DagAssumption, GraphType, FS_Subset DEF DagAssumption

-----------------------------------------------------------------------------
(* The depth-first search.                                                  *)

DfsType ==
  /\ definition \in Seq(Step)
  /\ color \in [Nodes -> {"white", "gray", "black"}]
  /\ stack \in Seq(Nodes)
  /\ left \in [Nodes -> SUBSET Nodes]

\* The calls of dfs are a path of gray steps.
PathInv ==
  /\ \A s \in Nodes : color[s] = "gray" <=> \E i \in 1 .. Len(stack) : stack[i] = s
  /\ \A i, j \in 1 .. Len(stack) : stack[i] = stack[j] => i = j
  /\ \A i, j \in 1 .. Len(stack) : j = i + 1 => stack[j] \in Adjacent(stack[i])
  /\ \A i \in 1 .. Len(stack) : left[stack[i]] \subseteq Adjacent(stack[i])

\* What a call has looked at is done, but for the step it is waiting for.
LookedAtInv ==
  \A i \in 1 .. Len(stack) : \A n \in Adjacent(stack[i]) :
    n \notin left[stack[i]] =>
      color[n] = "black" \/ \E j \in 1 .. Len(stack) : j = i + 1 /\ n = stack[j]

BlackClosed ==
  \A s \in Nodes : color[s] = "black" => \A n \in Adjacent(s) : color[n] = "black"

BlackAcyclic ==
  \A S \in SUBSET Nodes :
    S # {} /\ (\A s \in S : color[s] = "black") =>
      \E s \in S : \A p \in S : s \notin Adjacent(p)

DfsInv ==
  /\ cycleNodes = {} => PathInv /\ LookedAtInv /\ BlackClosed /\ BlackAcyclic
  /\ cycleNodes # {} => ~Acyclic

LEMMA StackType ==
  ASSUME DfsType
  PROVE  /\ Len(stack) \in Nat
         /\ stack # <<>> => Len(stack) \in 1 .. Len(stack) /\ Top \in Nodes
         /\ \A i \in 1 .. Len(stack) : stack[i] \in Nodes
  BY DEF DfsType, Top

LEMMA DfsTypeInit == Init => DfsType /\ DfsInv
<1> SUFFICES ASSUME Init PROVE DfsType /\ DfsInv
  OBVIOUS
<1> USE DEF Init
<1>1. DfsType
  <2>1. definition \in Seq(Step)
    BY DagAssumption DEF DagAssumption, Step
  <2> QED
    BY <2>1 DEF DfsType
<1>2. PathInv /\ LookedAtInv /\ BlackClosed
  BY DEF PathInv, LookedAtInv, BlackClosed
<1>3. BlackAcyclic
  BY DEF BlackAcyclic
<1> QED
  BY <1>1, <1>2, <1>3 DEF DfsInv

\* A gray neighbor closes a cycle: the path from it to the top of the stack.
LEMMA GrayIsCycle ==
  ASSUME DfsType, PathInv, stack # <<>>, NEW n \in left[Top], color[n] = "gray"
  PROVE  ~Acyclic
<1> DEFINE last == Len(stack)
<1>1. last \in Nat /\ last \in 1 .. last /\ \A i \in 1 .. last : stack[i] \in Nodes
  BY StackType
<1>2. n \in Nodes /\ n \in Adjacent(stack[last])
  BY <1>1 DEF Top, PathInv, DfsType
<1>3. PICK k \in 1 .. last : stack[k] = n
  BY <1>2 DEF PathInv
<1> DEFINE S == {stack[i] : i \in k .. last}
<1>4. S \subseteq Nodes /\ S # {}
  <2>1. k \in k .. last /\ k .. last \subseteq 1 .. last
    BY <1>1
  <2> QED
    BY <1>1, <2>1
<1>5. ASSUME NEW i \in k .. last PROVE \E j \in k .. last : stack[i] \in Adjacent(stack[j])
  <2>1. CASE i = k
    <3>1. last \in k .. last
      BY <1>1
    <3> QED
      BY <1>2, <1>3, <2>1, <3>1
  <2>2. CASE i # k
    <3>1. i - 1 \in k .. last /\ i - 1 \in 1 .. last /\ i \in 1 .. last /\ i = (i - 1) + 1
      BY <1>1, <2>2
    <3>2. stack[i] \in Adjacent(stack[i - 1])
      BY <3>1 DEF PathInv
    <3> QED
      BY <3>1, <3>2
  <2> QED
    BY <2>1, <2>2
<1>6. \A s \in S : \E p \in S : s \in Adjacent(p)
  BY <1>5
<1> HIDE DEF S
<1> QED
  BY <1>4, <1>6 DEF Acyclic

\* A step is painted black when all its neighbors are: no cycle through it.
LEMMA LeaveAcyclic ==
  ASSUME DfsType, PathInv, LookedAtInv, BlackClosed, BlackAcyclic, Leave
  PROVE  BlackClosed' /\ BlackAcyclic'
<1>1. Len(stack) \in Nat /\ Len(stack) \in 1 .. Len(stack) /\ Top \in Nodes
  BY StackType DEF Leave
<1>2. color[Top] = "gray"
  BY <1>1 DEF Top, PathInv
<1>3. \A n \in Adjacent(Top) : color[n] = "black"
  BY <1>1 DEF Leave, Top, LookedAtInv
<1>4. definition' = definition /\ color' = [color EXCEPT ![Top] = "black"]
  BY DEF Leave, Paint
<1>5. /\ Nodes' = Nodes
      /\ \A s : Adjacent(s)' = Adjacent(s)
      /\ \A s : Adjacent(s) \subseteq Nodes
  BY <1>4, GraphKept, GraphType DEF DfsType
<1>6. \A s \in Nodes : color'[s] = IF s = Top THEN "black" ELSE color[s]
  BY <1>4 DEF DfsType
<1>7. BlackClosed'
  BY <1>2, <1>3, <1>5, <1>6 DEF BlackClosed
<1>8. ASSUME NEW S \in SUBSET Nodes, S # {}, \A s \in S : color'[s] = "black"
      PROVE  \E s \in S : \A p \in S : s \notin Adjacent(p)
  <2>1. CASE Top \in S
    <3>1. ASSUME NEW p \in S PROVE Top \notin Adjacent(p)
      BY <1>2, <1>3, <1>6, <1>8, <3>1 DEF BlackClosed
    <3> QED
      BY <2>1, <3>1
  <2>2. CASE Top \notin S
    BY <1>6, <1>8, <2>2 DEF BlackAcyclic
  <2> QED
    BY <2>1, <2>2
<1>9. BlackAcyclic'
  BY <1>5, <1>8 DEF BlackAcyclic
<1> QED
  BY <1>7, <1>9

\* Calling dfs for a white step n, as a root or from the step it is next to.
LEMMA CallStep ==
  ASSUME DfsType, PathInv, LookedAtInv, NEW n \in Nodes, color[n] = "white",
         definition' = definition, Call(n),
         left' \in [Nodes -> SUBSET Nodes],
         left'[n] = Adjacent(n),
         \A i \in 1 .. Len(stack) : left'[stack[i]] \subseteq left[stack[i]],
         \A i \in 1 .. Len(stack) : \A m \in left[stack[i]] :
           m \notin left'[stack[i]] => i = Len(stack) /\ m = n,
         stack # <<>> => n \in Adjacent(Top)
  PROVE  DfsType' /\ PathInv' /\ LookedAtInv'
<1> DEFINE last == Len(stack)
<1>1. last \in Nat /\ \A i \in 1 .. last : stack[i] \in Nodes
  BY StackType
<1>2. /\ Nodes' = Nodes
      /\ \A s : Adjacent(s)' = Adjacent(s)
      /\ \A s : Adjacent(s) \subseteq Nodes
  BY GraphKept, GraphType DEF DfsType
<1>3. color' = [color EXCEPT ![n] = "gray"] /\ stack' = Append(stack, n)
  BY DEF Call, Paint
<1>4. /\ stack' \in Seq(Nodes) /\ Len(stack') = last + 1
      /\ \A i \in 1 .. last : stack'[i] = stack[i]
      /\ stack'[last + 1] = n
  BY <1>1, <1>3 DEF DfsType
<1>5. \A s \in Nodes : color'[s] = IF s = n THEN "gray" ELSE color[s]
  BY <1>3 DEF DfsType
<1>6. DfsType'
  BY <1>2, <1>3, <1>4 DEF DfsType
<1>7. \A i \in 1 .. last : stack[i] # n
  BY DEF PathInv
<1>8. \A i \in 1 .. last + 1 : i \in 1 .. last \/ i = last + 1
  BY <1>1
<1>9. PathInv'
  <2>1. \A s \in Nodes : color'[s] = "gray" <=> \E i \in 1 .. last + 1 : stack'[i] = s
    <3> SUFFICES ASSUME NEW s \in Nodes
                 PROVE  color'[s] = "gray" <=> \E i \in 1 .. last + 1 : stack'[i] = s
      OBVIOUS
    <3>1. CASE s = n
      BY <1>1, <1>4, <1>5, <3>1
    <3>2. CASE s # n
      <4>1. color'[s] = "gray" <=> \E i \in 1 .. last : stack[i] = s
        BY <1>5, <3>2 DEF PathInv
      <4> QED
        BY <1>1, <1>4, <1>8, <3>2, <4>1
    <3> QED
      BY <3>1, <3>2
  <2>2. \A i, j \in 1 .. last + 1 : stack'[i] = stack'[j] => i = j
    BY <1>1, <1>4, <1>7, <1>8 DEF PathInv
  <2>3. ASSUME NEW i \in 1 .. last + 1, NEW j \in 1 .. last + 1, j = i + 1
        PROVE  stack'[j] \in Adjacent(stack'[i])
    <3>1. i \in 1 .. last
      BY <1>1, <2>3
    <3>2. CASE j \in 1 .. last
      BY <1>4, <2>3, <3>1, <3>2 DEF PathInv
    <3>3. CASE j = last + 1
      <4>1. i = last /\ stack # <<>>
        BY <1>1, <2>3, <3>1, <3>3 DEF DfsType
      <4> QED
        BY <1>4, <3>1, <3>3, <4>1 DEF Top
    <3> QED
      BY <1>8, <3>2, <3>3
  <2>4. ASSUME NEW i \in 1 .. last + 1
        PROVE  left'[stack'[i]] \subseteq Adjacent(stack'[i])
    <3>1. CASE i \in 1 .. last
      <4>1. left'[stack[i]] \subseteq left[stack[i]] /\ left[stack[i]] \subseteq Adjacent(stack[i])
        BY <3>1 DEF PathInv
      <4> QED
        BY <1>4, <3>1, <4>1
    <3>2. CASE i = last + 1
      BY <1>4, <3>2
    <3> QED
      BY <1>8, <3>1, <3>2
  <2> QED
    BY <1>2, <1>4, <2>1, <2>2, <2>3, <2>4 DEF PathInv
<1>10. LookedAtInv'
  <2> SUFFICES ASSUME NEW i \in 1 .. last + 1, NEW m \in Adjacent(stack'[i]),
                      m \notin left'[stack'[i]]
               PROVE  color'[m] = "black" \/ \E j \in 1 .. last + 1 : j = i + 1 /\ m = stack'[j]
    BY <1>2, <1>4 DEF LookedAtInv
  <2>1. i \in 1 .. last /\ stack'[i] = stack[i] /\ i + 1 \in 1 .. last + 1
    BY <1>1, <1>4, <1>8
  <2>2. CASE m \in left[stack[i]]
    BY <1>4, <2>1, <2>2
  <2>3. CASE m \notin left[stack[i]]
    <3>1. color[m] = "black" \/ \E j \in 1 .. last : j = i + 1 /\ m = stack[j]
      BY <2>1, <2>3 DEF LookedAtInv
    <3>2. CASE color[m] = "black"
      BY <1>2, <1>5, <3>2
    <3>3. CASE \E j \in 1 .. last : j = i + 1 /\ m = stack[j]
      BY <1>4, <2>1, <3>3
    <3> QED
      BY <3>1, <3>2, <3>3
  <2> QED
    BY <2>2, <2>3
<1> QED
  BY <1>6, <1>9, <1>10

LEMMA RootStep ==
  ASSUME DfsType, PathInv, LookedAtInv, NEW n \in Nodes, Root(n)
  PROVE  DfsType' /\ PathInv' /\ LookedAtInv'
<1>1. /\ stack = <<>> /\ Len(stack) = 0 /\ color[n] = "white"
      /\ definition' = definition /\ Call(n)
      /\ left' = [left EXCEPT ![n] = Adjacent(n)]
  BY DEF Root
<1>2. left' \in [Nodes -> SUBSET Nodes] /\ left'[n] = Adjacent(n)
  BY <1>1, GraphType DEF DfsType
<1>3. \A i \in 1 .. Len(stack) : FALSE
  BY <1>1
<1> QED
  BY <1>1, <1>2, <1>3, CallStep

LEMMA DescendStep ==
  ASSUME DfsType, PathInv, LookedAtInv, stack # <<>>, NEW n \in left[Top],
         definition' = definition, Descend(n)
  PROVE  DfsType' /\ PathInv' /\ LookedAtInv'
<1>1. /\ Len(stack) \in Nat /\ Len(stack) \in 1 .. Len(stack) /\ Top \in Nodes
      /\ \A i \in 1 .. Len(stack) : stack[i] \in Nodes
  BY StackType
<1>2. n \in Nodes /\ n \in Adjacent(Top) /\ color[n] = "white" /\ Call(n)
  BY <1>1 DEF Descend, DfsType, PathInv, Top
<1>3. \A i \in 1 .. Len(stack) : stack[i] # n
  BY <1>2 DEF PathInv
<1>4. Top # n
  BY <1>1, <1>3 DEF Top
<1>5. left' \in [Nodes -> SUBSET Nodes] /\ left'[n] = Adjacent(n)
  BY <1>1, <1>2, GraphType DEF Descend, DfsType
<1>6. \A s \in Nodes : s # n => left'[s] = IF s = Top THEN left[s] \ {n} ELSE left[s]
  BY <1>1, <1>2, <1>4 DEF Descend, DfsType
<1>7. \A i \in 1 .. Len(stack) : stack[i] = Top => i = Len(stack)
  BY <1>1 DEF Top, PathInv
<1>8. \A i \in 1 .. Len(stack) : left'[stack[i]] \subseteq left[stack[i]]
  BY <1>1, <1>3, <1>6
<1>9. \A i \in 1 .. Len(stack) : \A m \in left[stack[i]] :
        m \notin left'[stack[i]] => i = Len(stack) /\ m = n
  BY <1>1, <1>3, <1>6, <1>7
<1> QED
  BY <1>2, <1>5, <1>8, <1>9, CallStep

LEMMA SkipStep ==
  ASSUME DfsType, PathInv, LookedAtInv, stack # <<>>, NEW n \in left[Top],
         definition' = definition, color[n] = "black", Skip(n)
  PROVE  DfsType' /\ PathInv' /\ LookedAtInv'
<1>1. /\ Top \in Nodes
      /\ \A i \in 1 .. Len(stack) : stack[i] \in Nodes
  BY StackType
<1>2. Nodes' = Nodes /\ \A s : Adjacent(s)' = Adjacent(s)
  BY GraphKept
<1>3. stack' = stack /\ color' = color /\ left' = [left EXCEPT ![Top] = left[Top] \ {n}]
  BY DEF Skip
<1>4. \A s \in Nodes : left'[s] = IF s = Top THEN left[s] \ {n} ELSE left[s]
  BY <1>3 DEF DfsType
<1>5. DfsType'
  BY <1>1, <1>2, <1>3 DEF DfsType
<1>6. PathInv'
  <2>1. \A i \in 1 .. Len(stack) : left'[stack[i]] \subseteq Adjacent(stack[i])
    BY <1>1, <1>4 DEF PathInv
  <2> QED
    BY <1>2, <1>3, <2>1 DEF PathInv
<1>7. LookedAtInv'
  BY <1>1, <1>2, <1>3, <1>4 DEF LookedAtInv
<1> QED
  BY <1>5, <1>6, <1>7

LEMMA LeaveStep ==
  ASSUME DfsType, PathInv, LookedAtInv, Leave
  PROVE  DfsType' /\ PathInv' /\ LookedAtInv'
<1> DEFINE last == Len(stack)
<1>1. /\ last \in Nat /\ last \in 1 .. last /\ Top \in Nodes /\ Top = stack[last]
      /\ \A i \in 1 .. last : stack[i] \in Nodes
  BY StackType DEF Leave, Top
<1>2. definition' = definition /\ color' = [color EXCEPT ![Top] = "black"] /\ left' = left
  BY DEF Leave, Paint
<1>3. /\ Nodes' = Nodes
      /\ \A s : Adjacent(s)' = Adjacent(s)
      /\ \A s : Adjacent(s) \subseteq Nodes
  BY <1>2, GraphKept, GraphType DEF DfsType
<1>4. /\ stack' \in Seq(Nodes) /\ Len(stack') = last - 1
      /\ \A i \in 1 .. last - 1 : stack'[i] = stack[i]
  <2>1. stack' = SubSeq(stack, 1, last - 1)
    BY DEF Leave
  <2>2. stack \in Seq(Nodes) /\ last = Len(stack) /\ last >= 1
    BY <1>1 DEF DfsType
  <2> HIDE DEF last
  <2>3. Len(stack') = last - 1
    BY <1>1, <2>1, <2>2
  <2>4. \A i \in 1 .. last - 1 : stack'[i] = stack[i]
    BY <1>1, <2>1, <2>2
  <2>5. stack' \in Seq(Nodes)
    BY <1>1, <2>1, <2>2
  <2> QED
    BY <2>3, <2>4, <2>5
<1>5. \A s \in Nodes : color'[s] = IF s = Top THEN "black" ELSE color[s]
  BY <1>2 DEF DfsType
<1>6. DfsType'
  BY <1>1, <1>2, <1>3, <1>4 DEF DfsType
<1>7. \A i \in 1 .. last : i \in 1 .. last - 1 \/ i = last
  BY <1>1
<1>8. \A i \in 1 .. last - 1 : i \in 1 .. last /\ i # last
  BY <1>1
<1>9. PathInv'
  <2>1. \A s \in Nodes : color'[s] = "gray" <=> \E i \in 1 .. last - 1 : stack'[i] = s
    <3> SUFFICES ASSUME NEW s \in Nodes
                 PROVE  color'[s] = "gray" <=> \E i \in 1 .. last - 1 : stack'[i] = s
      OBVIOUS
    <3>1. CASE s = Top
      BY <1>1, <1>4, <1>5, <1>8, <3>1 DEF PathInv
    <3>2. CASE s # Top
      <4>1. color'[s] = "gray" <=> \E i \in 1 .. last : stack[i] = s
        BY <1>5, <3>2 DEF PathInv
      <4> QED
        BY <1>1, <1>4, <1>7, <1>8, <3>2, <4>1
    <3> QED
      BY <3>1, <3>2
  <2>2. \A i, j \in 1 .. last - 1 : stack'[i] = stack'[j] => i = j
    BY <1>4, <1>8 DEF PathInv
  <2>3. \A i, j \in 1 .. last - 1 : j = i + 1 => stack'[j] \in Adjacent(stack'[i])
    BY <1>4, <1>8 DEF PathInv
  <2>4. \A i \in 1 .. last - 1 : left'[stack'[i]] \subseteq Adjacent(stack'[i])
    BY <1>2, <1>4, <1>8 DEF PathInv
  <2>5. Len(stack') = last - 1 /\ Nodes' = Nodes /\ \A s : Adjacent(s)' = Adjacent(s)
    BY <1>3, <1>4
  <2> HIDE DEF last
  <2> QED
    BY <2>1, <2>2, <2>3, <2>4, <2>5 DEF PathInv
<1>10. LookedAtInv'
  <2>0. Len(stack') = last - 1 /\ \A s : Adjacent(s)' = Adjacent(s)
    BY <1>3, <1>4
  <2> SUFFICES ASSUME NEW i \in 1 .. last - 1, NEW m \in Adjacent(stack'[i]),
                      m \notin left'[stack'[i]]
               PROVE  color'[m] = "black" \/ \E j \in 1 .. last - 1 : j = i + 1 /\ m = stack'[j]
    BY <2>0 DEF LookedAtInv
  <2>1. i \in 1 .. last /\ stack'[i] = stack[i] /\ m \in Nodes
    BY <1>3, <1>4, <1>8
  <2>2. color[m] = "black" \/ \E j \in 1 .. last : j = i + 1 /\ m = stack[j]
    BY <1>2, <2>1 DEF LookedAtInv
  <2>3. CASE color[m] = "black"
    BY <1>5, <2>1, <2>3
  <2>4. CASE \E j \in 1 .. last : j = i + 1 /\ m = stack[j]
    <3>1. PICK j \in 1 .. last : j = i + 1 /\ m = stack[j]
      BY <2>4
    <3>2. CASE j = last
      BY <1>1, <1>5, <2>1, <3>1, <3>2
    <3>3. CASE j \in 1 .. last - 1
      BY <1>4, <3>1, <3>3
    <3> QED
      BY <1>7, <3>1, <3>2, <3>3
  <2> QED
    BY <2>2, <2>3, <2>4
<1> QED
  BY <1>6, <1>9, <1>10

\* The keys that the loop has come to are not white.
RestInv == rest \subseteq Nodes /\ \A s \in Nodes \ rest : color[s] # "white"

LEMMA RestStep == DfsType /\ RestInv /\ [Next]_vars => RestInv'
<1> SUFFICES ASSUME DfsType, RestInv, [Next]_vars PROVE RestInv'
  OBVIOUS
<1>0. definition' = definition /\ Nodes' = Nodes
  <2>1. definition' = definition
    BY DEF Next, Root, Look, Visit, Leave, Throw, Reject, Accept, Sort, PushLayer, Finish, vars
  <2> QED
    BY <2>1, GraphKept
<1>1. ASSUME NEW n \in Nodes, Root(n) PROVE RestInv'
  <2>1. /\ rest' = rest \ {n}
        /\ \A s \in Nodes : color'[s] = IF s = n THEN "gray" ELSE color[s]
    BY <1>1 DEF Root, Call, Paint, DfsType
  <2> QED
    BY <1>0, <2>1 DEF RestInv
<1>2. ASSUME NEW n \in Nodes, Look(n) PROVE RestInv'
  <2>1. rest' = rest /\ \A s \in Nodes : color[s] # "white" => color'[s] # "white"
    BY <1>2 DEF Look, Cycle, Descend, Skip, Call, Paint, DfsType
  <2> QED
    BY <1>0, <2>1 DEF RestInv
<1>3. CASE Leave
  <2>1. rest' = rest /\ \A s \in Nodes : color[s] # "white" => color'[s] # "white"
    BY <1>3 DEF Leave, Paint, DfsType
  <2> QED
    BY <1>0, <2>1 DEF RestInv
<1>4. CASE UNCHANGED <<rest, color>>
  BY <1>0, <1>4 DEF RestInv
<1>5. ASSUME NEW n \in Nodes, Visit(n) PROVE RestInv'
  BY <1>4, <1>5 DEF Visit, dfsVars
<1>6. CASE Throw \/ Reject \/ Accept \/ PushLayer \/ Finish \/ UNCHANGED vars
  BY <1>4, <1>6 DEF Throw, Reject, Accept, Sort, PushLayer, Finish, vars, dfsVars
<1> QED
  BY <1>1, <1>2, <1>3, <1>5, <1>6 DEF Next

LEMMA AcyclicWhenBlack ==
  ASSUME DfsType, DfsInv, RestInv, cycleNodes = {}, Checked
  PROVE  Acyclic
<1>1. stack = <<>> /\ Len(stack) = 0 /\ PathInv /\ BlackAcyclic
  BY DEF Checked, DfsInv
<1>2. \A s \in Nodes : color[s] # "gray"
  BY <1>1 DEF PathInv
<1>3. \A s \in Nodes : color[s] = "black"
  BY <1>2 DEF Checked, RestInv, DfsType
<1> QED
  BY <1>1, <1>3 DEF BlackAcyclic, Acyclic

\* Once a cycle is reported it stays reported, and the graph stays the same.
LEMMA ReportedStays ==
  ASSUME DfsInv, cycleNodes # {}, cycleNodes \subseteq cycleNodes', definition' = definition
  PROVE  DfsInv'
<1>1. ~Acyclic /\ cycleNodes' # {}
  BY DEF DfsInv
<1>2. Acyclic' = Acyclic
  BY AcyclicKept
<1> QED
  BY <1>1, <1>2 DEF DfsInv

LEMMA BlackKept ==
  ASSUME DfsType, BlackClosed, BlackAcyclic, definition' = definition,
         \A s \in Nodes : color'[s] = "black" <=> color[s] = "black"
  PROVE  BlackClosed' /\ BlackAcyclic'
<1>1. /\ Nodes' = Nodes
      /\ \A s : Adjacent(s)' = Adjacent(s)
      /\ \A s : Adjacent(s) \subseteq Nodes
  BY GraphKept, GraphType DEF DfsType
<1>2. BlackClosed'
  BY <1>1 DEF BlackClosed
<1>3. BlackAcyclic'
  BY <1>1 DEF BlackAcyclic
<1> QED
  BY <1>2, <1>3

LEMMA LookStep ==
  ASSUME DfsType, DfsInv, NEW n, Look(n)
  PROVE  DfsType' /\ DfsInv'
<1>1. stack # <<>> /\ n \in left[Top] /\ definition' = definition
  BY DEF Look
<1>2. Top \in Nodes /\ n \in Nodes
  BY <1>1, StackType DEF DfsType
<1>3. Nodes' = Nodes
  BY <1>1, GraphKept
<1>4. CASE cycleNodes = {}
  <2>1. PathInv /\ LookedAtInv /\ BlackClosed /\ BlackAcyclic
    BY <1>4 DEF DfsInv
  <2>2. CASE color[n] = "gray" /\ Cycle(n)
    <3>1. ~Acyclic /\ cycleNodes' # {}
      BY <1>1, <2>1, <2>2, GrayIsCycle DEF Cycle
    <3>2. DfsType'
      BY <1>3, <1>1, <2>2 DEF Cycle, DfsType
    <3> QED
      BY <1>1, <3>1, <3>2, AcyclicKept DEF DfsInv
  <2>3. CASE Descend(n)
    <3>1. \A s \in Nodes : color'[s] = "black" <=> color[s] = "black"
      BY <1>2, <2>3 DEF Descend, Call, Paint, DfsType
    <3>2. cycleNodes' = {}
      BY <1>4, <2>3 DEF Descend
    <3> QED
      BY <1>1, <2>1, <2>3, <3>1, <3>2, DescendStep, BlackKept DEF DfsInv
  <2>4. CASE color[n] = "black" /\ Skip(n)
    <3>1. color' = color /\ cycleNodes' = {}
      BY <1>4, <2>4 DEF Skip
    <3> QED
      BY <1>1, <2>1, <2>4, <3>1, SkipStep, BlackKept DEF DfsInv
  <2> QED
    BY <2>2, <2>3, <2>4 DEF Look
<1>5. CASE cycleNodes # {}
  <2>1. cycleNodes \subseteq cycleNodes'
    BY DEF Look, Cycle, Descend, Skip
  <2>2. DfsType'
    <3>1. CASE Cycle(n)
      BY <1>1, <1>3, <3>1 DEF Cycle, DfsType
    <3>2. CASE Descend(n)
      <4>1. color' \in [Nodes -> {"white", "gray", "black"}] /\ stack' \in Seq(Nodes)
        BY <1>2, <3>2 DEF Descend, Call, Paint, DfsType
      <4>2. left' \in [Nodes -> SUBSET Nodes]
        BY <1>1, <1>2, <3>2, GraphType DEF Descend, DfsType
      <4> QED
        BY <1>1, <1>3, <4>1, <4>2 DEF DfsType
    <3>3. CASE Skip(n)
      BY <1>1, <1>2, <1>3, <3>3 DEF Skip, DfsType
    <3> QED
      BY <3>1, <3>2, <3>3 DEF Look
  <2> QED
    BY <1>1, <1>5, <2>1, <2>2, ReportedStays
<1> QED
  BY <1>4, <1>5

LEMMA DfsStep == DfsType /\ DfsInv /\ [Next]_vars => DfsType' /\ DfsInv'
<1> SUFFICES ASSUME DfsType, DfsInv, [Next]_vars PROVE DfsType' /\ DfsInv'
  OBVIOUS
<1>1. ASSUME NEW n \in Nodes, Root(n) PROVE DfsType' /\ DfsInv'
  <2>1. definition' = definition /\ cycleNodes' = cycleNodes /\ Nodes' = Nodes
    BY <1>1, GraphKept DEF Root
  <2>2. CASE cycleNodes = {}
    <3>1. \A s \in Nodes : color'[s] = "black" <=> color[s] = "black"
      BY <1>1 DEF Root, Call, Paint, DfsType
    <3> QED
      BY <1>1, <2>1, <2>2, <3>1, RootStep, BlackKept DEF DfsInv
  <2>3. CASE cycleNodes # {}
    <3>1. color' \in [Nodes -> {"white", "gray", "black"}] /\ stack' \in Seq(Nodes)
      BY <1>1 DEF Root, Call, Paint, DfsType
    <3>2. left' \in [Nodes -> SUBSET Nodes]
      BY <1>1, GraphType DEF Root, DfsType
    <3>3. DfsType'
      BY <2>1, <3>1, <3>2 DEF DfsType
    <3> QED
      BY <2>1, <2>3, <3>3, ReportedStays
  <2> QED
    BY <2>2, <2>3
<1>2. ASSUME NEW n \in Nodes, Look(n) PROVE DfsType' /\ DfsInv'
  BY <1>2, LookStep
<1>3. CASE Leave
  <2>1. definition' = definition /\ cycleNodes' = cycleNodes /\ Nodes' = Nodes
    BY <1>3, GraphKept DEF Leave
  <2>2. CASE cycleNodes = {}
    BY <1>3, <2>1, <2>2, LeaveStep, LeaveAcyclic DEF DfsInv
  <2>3. CASE cycleNodes # {}
    <3>1. Top \in Nodes /\ Len(stack) \in Nat /\ Len(stack) >= 1
      BY <1>3, StackType DEF Leave
    <3>2. stack' \in Seq(Nodes)
      BY <1>3, <3>1 DEF Leave, DfsType
    <3>3. DfsType'
      BY <1>3, <2>1, <3>1, <3>2 DEF Leave, Paint, DfsType
    <3> QED
      BY <2>1, <2>3, <3>3, ReportedStays
  <2> QED
    BY <2>2, <2>3
<1>4. CASE UNCHANGED <<definition, dfsVars>>
  <2>1. DfsType'
    BY <1>4, GraphKept DEF dfsVars, DfsType
  <2>2. CASE cycleNodes = {}
    <3>1. PathInv' /\ LookedAtInv'
      BY <1>4, <2>2, GraphKept DEF dfsVars, DfsInv, PathInv, LookedAtInv
    <3>2. BlackClosed' /\ BlackAcyclic' /\ cycleNodes' = {}
      BY <1>4, <2>2, BlackKept DEF dfsVars, DfsInv
    <3> QED
      BY <2>1, <3>1, <3>2 DEF DfsInv
  <2>3. CASE cycleNodes # {}
    BY <1>4, <2>1, <2>3, ReportedStays DEF dfsVars
  <2> QED
    BY <2>2, <2>3
<1>5. CASE Throw \/ Reject \/ Accept \/ PushLayer \/ Finish \/ UNCHANGED vars
  BY <1>4, <1>5 DEF Throw, Reject, Accept, Sort, PushLayer, Finish, vars
<1>6. ASSUME NEW n \in Nodes, Visit(n) PROVE DfsType' /\ DfsInv'
  BY <1>4, <1>6 DEF Visit
<1> QED
  BY <1>1, <1>2, <1>3, <1>5, <1>6 DEF Next

-----------------------------------------------------------------------------
(* The sort.                                                                *)

Dag == definition # <<>> /\ ~UnknownDependency /\ ~DuplicateId /\ Acyclic

SortType ==
  /\ phase \in {"checking", "rejected", "error", "sorting", "sorted"}
  /\ inDegree \in [Nodes -> Nat]
  /\ layers \in Seq(SUBSET Nodes)
  /\ todo \subseteq Nodes /\ nextLayer \subseteq Nodes /\ visited \subseteq Nodes
  /\ phase \in {"checking", "rejected", "error"} => layers = <<>> /\ todo = {} /\ visited = {}

\* The degrees count the parents not visited, and a step is in the layers or
\* the next one from when there are none.
Counted ==
  /\ todo \cap visited = {} /\ todo \cap nextLayer = {} /\ nextLayer \cap visited = {}
  /\ \A s \in Nodes : inDegree[s] = Cardinality(InEdges(s) \ visited)
  /\ \A s \in Nodes : InEdges(s) \subseteq visited <=> s \in visited \cup todo \cup nextLayer

\* What the layers promise, and that the next one will keep it.
Layered ==
  /\ \A s \in Nodes : s \in visited \cup todo <=> \E k \in 1 .. Len(layers) : s \in layers[k]
  /\ \A s \in Nodes : \A k, m \in 1 .. Len(layers) : s \in layers[k] /\ s \in layers[m] => k = m
  /\ \A s \in todo : \A k \in 1 .. Len(layers) : s \in layers[k] => k = Len(layers)
  /\ \A k \in 1 .. Len(layers) : \A s \in layers[k] : \A d \in InEdges(s) :
       \E m \in 1 .. Len(layers) : m < k /\ d \in layers[m]
  /\ \A k \in 1 .. Len(layers) : \A s \in layers[k] :
       k = 1 \/ \E d \in InEdges(s), m \in 1 .. Len(layers) : m = k - 1 /\ d \in layers[m]
  /\ \A s \in nextLayer :
       Len(layers) = 0 \/ \E d \in InEdges(s), m \in 1 .. Len(layers) : m = Len(layers) /\ d \in layers[m]

SortInv ==
  /\ SortType
  /\ phase \in {"sorting", "sorted"} => Dag /\ Counted /\ Layered
  /\ phase = "sorted" => visited = Nodes
  /\ RejectsWithReason

LEMMA SortInit == Init => SortInv
<1> SUFFICES ASSUME Init PROVE SortInv
  OBVIOUS
<1>1. layers \in Seq(SUBSET Nodes)
  BY DEF Init
<1>2. SortType
  BY <1>1 DEF Init, SortType
<1> QED
  BY <1>2 DEF Init, SortInv, RejectsWithReason

LEMMA SortSame ==
  ASSUME SortInv, UNCHANGED <<definition, phase, sortVars>>
  PROVE  SortInv'
<1>1. /\ Nodes' = Nodes /\ \A s : InEdges(s)' = InEdges(s)
      /\ Dag' = Dag /\ RejectsWithReason' = RejectsWithReason
  BY GraphKept, AcyclicKept DEF Dag, RejectsWithReason
<1>2. SortType'
  BY <1>1 DEF sortVars, SortInv, SortType
<1>3. Counted' = Counted
  BY <1>1 DEF sortVars, Counted
<1>4. Layered' = Layered
  BY <1>1 DEF sortVars, Layered
<1> QED
  BY <1>1, <1>2, <1>3, <1>4 DEF SortInv, sortVars

\* What is known of the graph when the sort begins.
LEMMA DagGraph ==
  ASSUME definition \in Seq(Step), Dag
  PROVE  /\ IsFiniteSet(Nodes)
         /\ \A c \in Nodes : InEdges(c) \subseteq Nodes /\ IsFiniteSet(InEdges(c))
         /\ \A s : \A c \in Nodes : c \in Adjacent(s) <=> s \in InEdges(c)
         /\ \A s : Adjacent(s) \subseteq Nodes
<1>1. IsFiniteSet(Nodes)
  BY NodesFinite
<1>2. \A c \in Nodes : InEdges(c) \subseteq Nodes
  BY InEdgesOfDag DEF Dag
<1> QED
  BY <1>1, <1>2, FS_Subset, InEdgesOfDag, GraphType DEF Dag

LEMMA AcceptStep ==
  ASSUME DfsType, DfsInv, RestInv, SortInv, Accept
  PROVE  SortInv'
<1>1. Dag
  BY AcyclicWhenBlack DEF Accept, Dag
<1>2. /\ phase = "checking" /\ phase' = "sorting" /\ definition' = definition
      /\ layers = <<>> /\ todo = {} /\ visited = {}
      /\ UNCHANGED <<layers, todo, visited>>
      /\ inDegree' = [s \in Nodes |-> Cardinality(InEdges(s))]
      /\ nextLayer' = {s \in Nodes : InEdges(s) = {}}
  BY DEF Accept, Checked, Sort, SortInv, SortType
<1>3. Nodes' = Nodes /\ (\A s : InEdges(s)' = InEdges(s)) /\ Dag' = Dag
  BY <1>2, GraphKept, AcyclicKept DEF Dag
<1>4. \A s \in Nodes : Cardinality(InEdges(s)) \in Nat
  BY <1>1, DagGraph, FS_CardinalityType DEF DfsType
<1>5. SortType'
  BY <1>2, <1>3, <1>4 DEF SortInv, SortType
<1>6. Counted'
  <2>1. \A s \in Nodes : InEdges(s) \ {} = InEdges(s)
    OBVIOUS
  <2> QED
    BY <1>2, <1>3, <2>1 DEF Counted
<1>7. Len(layers') = 0
  BY <1>2
<1>8. Layered'
  BY <1>2, <1>3, <1>7 DEF Layered
<1> QED
  BY <1>1, <1>2, <1>3, <1>5, <1>6, <1>8 DEF SortInv, RejectsWithReason

LEMMA RejectStep ==
  ASSUME DfsType, DfsInv, SortInv, Reject
  PROVE  SortInv'
<1>1. /\ phase' = "rejected" /\ phase = "checking" /\ definition' = definition
      /\ UNCHANGED <<inDegree, layers, todo, nextLayer, visited>>
  BY DEF Reject, Checked, sortVars
<1>2. definition = <<>> \/ ~Acyclic \/ UnknownDependency \/ DuplicateId
  BY DEF Reject, DfsInv
<1>3. RejectsWithReason'
  BY <1>1, <1>2, GraphKept, AcyclicKept DEF RejectsWithReason
<1>4. SortType'
  BY <1>1, GraphKept DEF SortInv, SortType
<1> QED
  BY <1>1, <1>3, <1>4 DEF SortInv

LEMMA ThrowStep ==
  ASSUME SortInv, Throw
  PROVE  SortInv'
<1>1. /\ phase' = "error" /\ phase = "checking" /\ definition' = definition
      /\ UNCHANGED <<inDegree, layers, todo, nextLayer, visited>>
  BY DEF Throw, sortVars
<1>2. SortType'
  BY <1>1, GraphKept DEF SortInv, SortType
<1> QED
  BY <1>1, <1>2 DEF SortInv, RejectsWithReason

LEMMA PushStep ==
  ASSUME DfsType, SortInv, PushLayer
  PROVE  SortInv'
<1> DEFINE last == Len(layers)
<1>1. /\ phase = "sorting" /\ todo = {} /\ UNCHANGED <<definition, phase, inDegree, visited>>
      /\ layers' = Append(layers, nextLayer) /\ todo' = nextLayer /\ nextLayer' = {}
  BY DEF PushLayer
<1>2. Dag /\ Counted /\ Layered /\ SortType
  BY <1>1 DEF SortInv
<1>3. Nodes' = Nodes /\ (\A s : InEdges(s)' = InEdges(s)) /\ Dag' = Dag
  BY <1>1, GraphKept, AcyclicKept DEF Dag
<1>4. /\ layers' \in Seq(SUBSET Nodes) /\ last \in Nat /\ Len(layers') = last + 1
      /\ \A k \in 1 .. last : layers'[k] = layers[k]
      /\ layers'[last + 1] = nextLayer
      /\ \A k \in 1 .. last : layers[k] \subseteq Nodes
  BY <1>1, <1>2 DEF SortType
<1>5. /\ \A k \in 1 .. last + 1 : k \in 1 .. last \/ k = last + 1
      /\ \A k \in 1 .. last : k \in 1 .. last + 1 /\ k < last + 1 /\ k # last + 1
      /\ last + 1 \in 1 .. last + 1
  BY <1>4
<1>6. SortType'
  BY <1>1, <1>2, <1>3, <1>4 DEF SortType
<1>7. Counted'
  BY <1>1, <1>2, <1>3 DEF Counted
<1> HIDE DEF last
<1>8. Layered'
  <2> USE DEF Layered
  <2>1. ASSUME NEW s \in Nodes
        PROVE  s \in visited \cup nextLayer <=> \E k \in 1 .. last + 1 : s \in layers'[k]
    <3>1. s \in visited <=> \E k \in 1 .. last : s \in layers[k]
      BY <1>1, <1>2 DEF last
    <3> QED
      BY <1>4, <1>5, <3>1
  <2>2. \A s \in nextLayer : \A k \in 1 .. last : s \notin layers[k]
    BY <1>1, <1>2 DEF Counted, SortType, last
  <2>3. ASSUME NEW s \in Nodes, NEW k \in 1 .. last + 1, NEW m \in 1 .. last + 1,
               s \in layers'[k], s \in layers'[m]
        PROVE  k = m
    <3>1. CASE k \in 1 .. last /\ m \in 1 .. last
      BY <1>2, <1>4, <2>3, <3>1 DEF last
    <3>2. CASE k = last + 1 \/ m = last + 1
      BY <1>4, <1>5, <2>2, <2>3, <3>2
    <3> QED
      BY <1>5, <3>1, <3>2
  <2>4. \A s \in nextLayer : \A k \in 1 .. last + 1 : s \in layers'[k] => k = last + 1
    BY <1>4, <1>5, <2>2
  <2>5. ASSUME NEW k \in 1 .. last + 1, NEW s \in layers'[k], NEW d \in InEdges(s)
        PROVE  \E m \in 1 .. last + 1 : m < k /\ d \in layers'[m]
    <3>1. CASE k \in 1 .. last
      <4>1. PICK m \in 1 .. last : m < k /\ d \in layers[m]
        BY <1>2, <1>4, <3>1 DEF last
      <4> QED
        BY <1>4, <1>5, <4>1
    <3>2. CASE k = last + 1
      <4>1. s \in nextLayer /\ s \in Nodes
        BY <1>2, <1>4, <3>2 DEF SortType
      <4>2. d \in visited /\ d \in Nodes
        BY <1>2, <4>1 DEF Counted, SortType
      <4>3. PICK m \in 1 .. last : d \in layers[m]
        BY <1>2, <4>2 DEF last
      <4> QED
        BY <1>4, <1>5, <3>2, <4>3
    <3> QED
      BY <1>5, <3>1, <3>2
  <2>6. ASSUME NEW k \in 1 .. last + 1, NEW s \in layers'[k]
        PROVE  k = 1 \/ \E d \in InEdges(s), m \in 1 .. last + 1 : m = k - 1 /\ d \in layers'[m]
    <3>1. CASE k \in 1 .. last
      <4>1. k = 1 \/ \E d \in InEdges(s), m \in 1 .. last : m = k - 1 /\ d \in layers[m]
        BY <1>2, <1>4, <3>1 DEF last
      <4> QED
        BY <1>4, <1>5, <4>1
    <3>2. CASE k = last + 1
      <4>1. last = 0 \/ \E d \in InEdges(s), m \in 1 .. last : m = last /\ d \in layers[m]
        BY <1>2, <1>4, <3>2 DEF last
      <4>2. last = k - 1 /\ (last = 0 => k = 1)
        BY <1>4, <3>2
      <4> QED
        BY <1>4, <1>5, <4>1, <4>2
    <3> QED
      BY <1>5, <3>1, <3>2
  <2> QED
    BY <1>1, <1>3, <1>4, <2>1, <2>3, <2>4, <2>5, <2>6
<1> QED
  BY <1>1, <1>2, <1>3, <1>6, <1>7, <1>8 DEF SortInv, RejectsWithReason

LEMMA VisitStep ==
  ASSUME DfsType, SortInv, NEW v \in Nodes, Visit(v)
  PROVE  SortInv'
<1>1. /\ phase = "sorting" /\ v \in todo /\ UNCHANGED <<definition, phase, layers>>
      /\ todo' = todo \ {v} /\ visited' = visited \cup {v}
      /\ inDegree' = [c \in Nodes |-> inDegree[c] - (IF c \in Adjacent(v) THEN 1 ELSE 0)]
      /\ nextLayer' = nextLayer \cup {c \in Adjacent(v) : inDegree'[c] = 0}
  BY DEF Visit
<1>2. Dag /\ Counted /\ Layered /\ SortType
  BY <1>1 DEF SortInv
<1>3. Nodes' = Nodes /\ (\A s : InEdges(s)' = InEdges(s)) /\ Dag' = Dag
  BY <1>1, GraphKept, AcyclicKept DEF Dag
<1>4. /\ \A c \in Nodes : InEdges(c) \subseteq Nodes /\ IsFiniteSet(InEdges(c))
      /\ \A c \in Nodes : c \in Adjacent(v) <=> v \in InEdges(c)
      /\ Adjacent(v) \subseteq Nodes
  BY <1>2, DagGraph DEF DfsType
<1>5. v \notin visited /\ v \notin nextLayer
  BY <1>1, <1>2 DEF Counted
<1>6. ASSUME NEW c \in Nodes
      PROVE  /\ inDegree'[c] = Cardinality(InEdges(c) \ visited')
             /\ inDegree'[c] \in Nat
             /\ inDegree'[c] = 0 <=> InEdges(c) \subseteq visited'
  <2> DEFINE open == InEdges(c) \ visited
  <2>1. IsFiniteSet(open) /\ IsFiniteSet(open \ {v})
    BY <1>4, FS_Difference, FS_RemoveElement
  <2>2. Cardinality(open) \in Nat /\ Cardinality(open \ {v}) \in Nat
    BY <2>1, FS_CardinalityType
  <2>3. Cardinality(open \ {v}) = IF v \in open THEN Cardinality(open) - 1 ELSE Cardinality(open)
    BY <2>1, FS_RemoveElement
  <2>4. InEdges(c) \ visited' = open \ {v}
    BY <1>1
  <2>5. v \in open <=> c \in Adjacent(v)
    BY <1>4, <1>5
  <2>6. inDegree[c] = Cardinality(open)
    BY <1>2 DEF Counted
  <2>7. Cardinality(open \ {v}) = 0 <=> open \ {v} = {}
    BY <2>1, FS_EmptySet
  <2> HIDE DEF open
  <2>8. inDegree'[c] = Cardinality(open \ {v})
    BY <1>1, <2>2, <2>3, <2>5, <2>6
  <2> QED
    BY <2>2, <2>4, <2>7, <2>8
<1>7. SortType'
  <2>1. inDegree' \in [Nodes -> Nat]
    BY <1>1, <1>6
  <2> QED
    BY <1>1, <1>2, <1>3, <1>4, <2>1 DEF SortType
<1>8. \A c \in Adjacent(v) : inDegree'[c] = 0 => c \notin visited \cup todo \cup nextLayer
  <2> SUFFICES ASSUME NEW c \in Adjacent(v) PROVE c \notin visited \cup todo \cup nextLayer
    OBVIOUS
  <2>1. c \in Nodes /\ v \in InEdges(c)
    BY <1>4
  <2> QED
    BY <1>2, <1>5, <2>1 DEF Counted
<1>9. Counted'
  <2>1. /\ todo' \cap visited' = {} /\ todo' \cap nextLayer' = {}
        /\ nextLayer' \cap visited' = {}
    <3>1. /\ todo \cap visited = {} /\ todo \cap nextLayer = {}
          /\ nextLayer \cap visited = {}
      BY <1>2 DEF Counted
    <3>2. \A c \in nextLayer' : c \in nextLayer \/ c \notin visited \cup todo
      BY <1>1, <1>8
    <3>3. \A c \in nextLayer' : c # v
      BY <1>1, <1>5, <3>2
    <3> QED
      BY <1>1, <1>5, <3>1, <3>2, <3>3
  <2>2. ASSUME NEW c \in Nodes
        PROVE  InEdges(c) \subseteq visited' <=> c \in visited' \cup todo' \cup nextLayer'
    <3>1. visited' \cup todo' = visited \cup todo
      BY <1>1
    <3>2. c \in nextLayer' <=> c \in nextLayer \/ (c \in Adjacent(v) /\ InEdges(c) \subseteq visited')
      BY <1>1, <1>6
    <3>3. CASE v \in InEdges(c)
      <4>1. c \notin visited \cup todo \cup nextLayer
        BY <1>2, <1>5, <3>3 DEF Counted
      <4> QED
        BY <1>4, <3>1, <3>2, <3>3, <4>1
    <3>4. CASE v \notin InEdges(c)
      <4>1. InEdges(c) \subseteq visited' <=> InEdges(c) \subseteq visited
        BY <1>1, <3>4
      <4> QED
        BY <1>2, <1>4, <3>1, <3>2, <3>4, <4>1 DEF Counted
    <3> QED
      BY <3>3, <3>4
  <2> QED
    BY <1>3, <1>6, <2>1, <2>2 DEF Counted
<1>10. Layered'
  <2>1. visited' \cup todo' = visited \cup todo /\ todo' \subseteq todo
    BY <1>1
  <2>2. ASSUME NEW c \in nextLayer'
        PROVE  Len(layers) = 0 \/
                 \E d \in InEdges(c), m \in 1 .. Len(layers) : m = Len(layers) /\ d \in layers[m]
    <3>1. CASE c \in nextLayer
      BY <1>2, <3>1 DEF Layered
    <3>2. CASE c \in Adjacent(v)
      <4>1. v \in InEdges(c)
        BY <1>4, <3>2
      <4>2. PICK k \in 1 .. Len(layers) : v \in layers[k]
        BY <1>1, <1>2 DEF Layered
      <4>3. k = Len(layers)
        BY <1>1, <1>2, <4>2 DEF Layered
      <4> QED
        BY <4>1, <4>2, <4>3
    <3> QED
      BY <1>1, <3>1, <3>2
  <2>a. layers' = layers /\ Layered
    BY <1>1, <1>2
  <2>3. /\ \A s \in Nodes : s \in (visited \cup todo)' <=> \E k \in 1 .. Len(layers) : s \in layers[k]
        /\ \A s \in Nodes : \A k, m \in 1 .. Len(layers) : s \in layers[k] /\ s \in layers[m] => k = m
    BY <2>a, <2>1 DEF Layered
  <2>4. \A s \in todo' : \A k \in 1 .. Len(layers) : s \in layers[k] => k = Len(layers)
    BY <2>a, <2>1 DEF Layered
  <2>5. /\ \A k \in 1 .. Len(layers) : \A s \in layers[k] : \A d \in InEdges(s) :
             \E m \in 1 .. Len(layers) : m < k /\ d \in layers[m]
        /\ \A k \in 1 .. Len(layers) : \A s \in layers[k] :
             k = 1 \/ \E d \in InEdges(s), m \in 1 .. Len(layers) : m = k - 1 /\ d \in layers[m]
    BY <2>a DEF Layered
  <2> QED
    BY <1>3, <2>a, <2>2, <2>3, <2>4, <2>5 DEF Layered
<1> QED
  BY <1>1, <1>2, <1>3, <1>7, <1>9, <1>10 DEF SortInv, RejectsWithReason

\* Steps left over would all wait for each other.
LEMMA FinishStep ==
  ASSUME DfsType, SortInv, Finish
  PROVE  SortInv'
<1>1. /\ phase = "sorting" /\ todo = {} /\ nextLayer = {}
      /\ UNCHANGED <<definition, inDegree, layers, todo, nextLayer, visited>>
  BY DEF Finish, sortVars
<1>2. Dag /\ Counted /\ Layered /\ SortType
  BY <1>1 DEF SortInv
<1>3. /\ Nodes' = Nodes /\ (\A s : InEdges(s)' = InEdges(s)) /\ Dag' = Dag
      /\ \A c \in Nodes : InEdges(c) \subseteq Nodes
      /\ \A s : \A c \in Nodes : c \in Adjacent(s) <=> s \in InEdges(c)
  BY <1>1, <1>2, GraphKept, AcyclicKept, DagGraph DEF Dag, DfsType
<1>4. visited = Nodes
  <2>1. ASSUME Nodes \ visited # {} PROVE FALSE
    <3>1. PICK u \in Nodes \ visited : \A p \in Nodes \ visited : u \notin Adjacent(p)
      BY <1>2, <2>1 DEF Dag, Acyclic
    <3>2. PICK d \in InEdges(u) : d \notin visited
      BY <1>1, <1>2 DEF Counted
    <3> QED
      BY <1>3, <3>1, <3>2
  <2> QED
    BY <1>2, <2>1 DEF SortType
<1>5. phase' = "sorted"
  BY <1>4 DEF Finish
<1>6. SortType'
  BY <1>1, <1>2, <1>3, <1>5 DEF SortType
<1>7. Counted' /\ Layered'
  BY <1>1, <1>2, <1>3 DEF Counted, Layered
<1> QED
  BY <1>1, <1>2, <1>3, <1>4, <1>5, <1>6, <1>7 DEF SortInv, RejectsWithReason

LEMMA SortStep == DfsType /\ DfsInv /\ RestInv /\ SortInv /\ [Next]_vars => SortInv'
<1> SUFFICES ASSUME DfsType, DfsInv, RestInv, SortInv, [Next]_vars PROVE SortInv'
  OBVIOUS
<1>1. CASE Accept
  BY <1>1, AcceptStep
<1>2. CASE Reject
  BY <1>2, RejectStep
<1>3. CASE PushLayer
  BY <1>3, PushStep
<1>4. CASE Finish
  BY <1>4, FinishStep
<1>5. ASSUME NEW s \in Nodes, Visit(s) PROVE SortInv'
  BY <1>5, VisitStep
<1>6. CASE UNCHANGED <<definition, phase, sortVars>>
  BY <1>6, SortSame
<1>7. ASSUME NEW s \in Nodes, Root(s) \/ Look(s) PROVE SortInv'
  BY <1>6, <1>7 DEF Root, Look
<1>8. CASE Leave \/ UNCHANGED vars
  BY <1>6, <1>8 DEF Leave, vars
<1>9. CASE Throw
  BY <1>9, ThrowStep
<1> QED
  BY <1>1, <1>2, <1>3, <1>4, <1>5, <1>7, <1>8, <1>9 DEF Next

-----------------------------------------------------------------------------
(* The theorems.                                                            *)

LEMMA Correct == Spec => [](DfsType /\ DfsInv /\ RestInv /\ SortInv)
<1>1. Init => RestInv
  BY DEF Init, RestInv
<1> QED
  BY <1>1, DfsTypeInit, SortInit, DfsStep, RestStep, SortStep, PTL DEF Spec

LEMMA EdgesStep ==
  DfsType /\ cycleNodes \subseteq Nodes \X Nodes /\ [Next]_vars =>
    (cycleNodes \subseteq Nodes \X Nodes)'
<1> SUFFICES ASSUME DfsType, cycleNodes \subseteq Nodes \X Nodes, [Next]_vars
             PROVE  cycleNodes' \subseteq Nodes' \X Nodes'
  OBVIOUS
<1>0. definition' = definition /\ Nodes' = Nodes
  <2>1. definition' = definition
    BY DEF Next, Root, Look, Visit, Leave, Throw, Reject, Accept, Sort, PushLayer, Finish, vars
  <2> QED
    BY <2>1, GraphKept
<1>1. ASSUME NEW n \in Nodes, Look(n) PROVE cycleNodes' \subseteq Nodes \X Nodes
  <2>1. Top \in Nodes
    BY <1>1, StackType DEF Look
  <2> QED
    BY <1>1, <2>1 DEF Look, Cycle, Descend, Skip
<1>2. ASSUME UNCHANGED cycleNodes PROVE cycleNodes' \subseteq Nodes \X Nodes
  BY <1>2
<1>3. ASSUME NEW n \in Nodes, Root(n) \/ Visit(n) PROVE UNCHANGED cycleNodes
  BY <1>3 DEF Root, Visit, dfsVars
<1>4. CASE Leave \/ Throw \/ Reject \/ Accept \/ PushLayer \/ Finish \/ UNCHANGED vars
  BY <1>2, <1>4, <1>0 DEF Leave, Throw, Reject, Accept, Sort, PushLayer, Finish, vars, dfsVars
<1> QED
  BY <1>0, <1>1, <1>2, <1>3, <1>4 DEF Next

\* Every variable keeps its type; no degree counts below zero, whatever the
\* definition.
THEOREM TypeCorrect == Spec => []TypeOK
<1>1. Init => cycleNodes \subseteq Nodes \X Nodes
  BY DEF Init
<1>2. Spec => [](cycleNodes \subseteq Nodes \X Nodes)
  BY <1>1, EdgesStep, DfsTypeInit, DfsStep, PTL DEF Spec
<1>3. DfsType /\ RestInv /\ SortInv /\ cycleNodes \subseteq Nodes \X Nodes => TypeOK
  BY DEF DfsType, RestInv, SortInv, SortType, TypeOK, Step
<1> QED
  BY <1>2, <1>3, Correct, PTL

\* validateDag accepts directed acyclic graphs only (dag-validator.ts, 11-60
\* and 92-119): detectCycles misses no cycle, wherever it begins.
THEOREM OnlyDagsAccepted == Spec => []AcceptsOnlyDags
<1>1. SortInv => AcceptsOnlyDags
  BY DEF SortInv, SortType, Dag, AcceptsOnlyDags
<1> QED
  BY <1>1, Correct, PTL

\* It rejects nothing else: detectCycles reports no cycle in an acyclic graph.
THEOREM RejectionsAreSound == Spec => []RejectsWithReason
<1>1. SortInv => RejectsWithReason
  BY DEF SortInv
<1> QED
  BY <1>1, Correct, PTL

\* topologicalSort never throws on a definition that was let through
\* (topological-sorter.ts, 31-36).
THEOREM SortSucceeds == Spec => []SortNeverThrows
<1>1. SortInv => SortNeverThrows
  BY DEF SortInv, SortType, SortNeverThrows
<1> QED
  BY <1>1, Correct, PTL

\* Its layers hold every step once, behind what it depends on and no later
\* than that needs.
THEOREM LayersAreRight == Spec => []LayersSchedule
<1>1. SortInv => LayersSchedule
  <2> SUFFICES ASSUME SortInv, phase = "sorted", NEW s \in Nodes
               PROVE  \E k \in 1 .. Len(layers) :
                        /\ \A m \in 1 .. Len(layers) : s \in layers[m] <=> m = k
                        /\ \A d \in InEdges(s) : \E m \in 1 .. k - 1 : d \in layers[m]
                        /\ k = 1 \/ \E d \in InEdges(s) : d \in layers[k - 1]
    BY DEF LayersSchedule
  <2>1. Layered /\ s \in visited /\ Len(layers) \in Nat
    BY DEF SortInv, SortType
  <2>2. PICK k \in 1 .. Len(layers) : s \in layers[k]
    BY <2>1 DEF Layered
  <2>3. \A m \in 1 .. Len(layers) : s \in layers[m] <=> m = k
    BY <2>1, <2>2 DEF Layered
  <2>4. ASSUME NEW d \in InEdges(s) PROVE \E m \in 1 .. k - 1 : d \in layers[m]
    <3>1. PICK m \in 1 .. Len(layers) : m < k /\ d \in layers[m]
      BY <2>1, <2>2 DEF Layered
    <3>2. m \in 1 .. k - 1
      BY <2>1, <3>1
    <3> QED
      BY <3>1, <3>2
  <2>5. k = 1 \/ \E d \in InEdges(s) : d \in layers[k - 1]
    BY <2>1, <2>2 DEF Layered
  <2> QED
    BY <2>3, <2>4, <2>5
<1> QED
  BY <1>1, Correct, PTL

\* The layers as WorkflowExecutor takes them.
LayerOf   == [s \in Nodes |-> CHOOSE k \in 1 .. Len(layers) : s \in layers[k]]
DependsOn == [s \in Nodes |-> InEdges(s)]

\* What is sorted satisfies what WorkflowExecutor assumes of its constants
\* (the first four parts of ExecutorAssumption).
THEOREM SortedIsExecutable ==
  Spec => [](phase = "sorted" =>
               /\ DependsOn \in [Nodes -> SUBSET Nodes]
               /\ Len(layers) \in Nat
               /\ LayerOf \in [Nodes -> 1 .. Len(layers)]
               /\ \A s \in Nodes : \A d \in DependsOn[s] : LayerOf[d] < LayerOf[s])
<1> DEFINE Executable ==
             /\ DependsOn \in [Nodes -> SUBSET Nodes]
             /\ Len(layers) \in Nat
             /\ LayerOf \in [Nodes -> 1 .. Len(layers)]
             /\ \A s \in Nodes : \A d \in DependsOn[s] : LayerOf[d] < LayerOf[s]
<1>1. ASSUME DfsType, SortInv, phase = "sorted" PROVE Executable
  <2>1. Dag /\ Layered /\ Len(layers) \in Nat /\ visited = Nodes
    BY <1>1 DEF SortInv, SortType
  <2>2. \A s \in Nodes : InEdges(s) \subseteq Nodes
    BY <1>1, <2>1, DagGraph DEF DfsType
  <2>3. \A s \in Nodes : LayerOf[s] \in 1 .. Len(layers) /\ s \in layers[LayerOf[s]]
    BY <2>1 DEF Layered, LayerOf
  <2>a. \A k \in 1 .. Len(layers) : \A s \in layers[k] : \A d \in InEdges(s) :
          \E m \in 1 .. Len(layers) : m < k /\ d \in layers[m]
    BY <2>1 DEF Layered
  <2>b. \A s \in Nodes : \A k, m \in 1 .. Len(layers) :
          s \in layers[k] /\ s \in layers[m] => k = m
    BY <2>1 DEF Layered
  <2>4. ASSUME NEW s \in Nodes, NEW d \in InEdges(s) PROVE LayerOf[d] < LayerOf[s]
    <3>1. PICK m \in 1 .. Len(layers) : m < LayerOf[s] /\ d \in layers[m]
      BY <2>3, <2>a
    <3>2. LayerOf[d] = m
      BY <2>2, <2>3, <2>b, <3>1
    <3> QED
      BY <3>1, <3>2
  <2>5. LayerOf \in [Nodes -> 1 .. Len(layers)]
    BY <2>3 DEF LayerOf
  <2> QED
    BY <2>1, <2>2, <2>4, <2>5 DEF DependsOn
<1> HIDE DEF Executable
<1>2. DfsType /\ SortInv => (phase = "sorted" => Executable)
  BY <1>1
<1>3. Spec => [](phase = "sorted" => Executable)
  BY <1>2, Correct, PTL
<1> QED
  BY <1>3 DEF Executable

-----------------------------------------------------------------------------
(* How long it takes.  Every turn of the loops and every call of dfs uses   *)
(* up one of a number of turns, which is linear in the size of the graph.   *)

\* The edges, and those that detectCycles has not looked at yet.
Edges == {e \in Nodes \X Nodes : e[2] \in Adjacent(e[1])}
Owed  == {e \in Nodes \X Nodes :
            e[2] \in IF color[e[1]] = "white" THEN Adjacent(e[1]) ELSE left[e[1]]}
White == {s \in Nodes : color[s] = "white"}

SearchLeft == 2 * Cardinality(White) + Cardinality(Owed) + Len(stack)
SortLeft   == 2 * Cardinality(Nodes \ visited) + (IF nextLayer # {} THEN 1 ELSE 0)

TurnsLeft ==
  CASE phase = "checking" -> SearchLeft + 2 * Cardinality(Nodes) + 3
    [] phase = "sorting"  -> SortLeft + 1
    [] OTHER -> 0

\* The calls of dfs that have not returned are at steps with a color.
Entered == \A i \in 1 .. Len(stack) : color[stack[i]] # "white"

LEMMA SearchFinite ==
  ASSUME DfsType
  PROVE  /\ IsFiniteSet(Nodes) /\ Cardinality(Nodes) \in Nat
         /\ IsFiniteSet(Edges) /\ Cardinality(Edges) \in Nat
         /\ IsFiniteSet(Owed) /\ Cardinality(Owed) \in Nat
         /\ IsFiniteSet(White) /\ Cardinality(White) \in Nat
         /\ Len(stack) \in Nat
         /\ SearchLeft \in Nat
<1>1. IsFiniteSet(Nodes)
  BY NodesFinite DEF DfsType
<1>2. IsFiniteSet(Nodes \X Nodes)
  BY <1>1, FS_Product
<1>3. IsFiniteSet(Edges) /\ IsFiniteSet(Owed) /\ IsFiniteSet(White)
  BY <1>1, <1>2, FS_Subset DEF Edges, Owed, White
<1>4. /\ Cardinality(Nodes) \in Nat /\ Cardinality(Edges) \in Nat
      /\ Cardinality(Owed) \in Nat /\ Cardinality(White) \in Nat
  BY <1>1, <1>3, FS_CardinalityType
<1>5. Len(stack) \in Nat
  BY StackType
<1> QED
  BY <1>1, <1>3, <1>4, <1>5 DEF SearchLeft

\* A call: one white step less, and its edges come to be those left of it.
LEMMA CallUsesTurn ==
  ASSUME DfsType, DfsType', definition' = definition,
         NEW n \in Nodes, color[n] = "white", Call(n), left'[n] = Adjacent(n),
         \A s \in Nodes : s # n => left'[s] \subseteq left[s]
  PROVE  SearchLeft' < SearchLeft
<1>1. Nodes' = Nodes /\ \A s : Adjacent(s)' = Adjacent(s)
  BY GraphKept
<1>2. /\ color'[n] = "gray" /\ \A s \in Nodes : s # n => color'[s] = color[s]
      /\ Len(stack') = Len(stack) + 1
  BY DEF Call, Paint, DfsType
<1>3. White' = White \ {n} /\ n \in White
  BY <1>1, <1>2 DEF White
<1>4. Owed' \subseteq Owed
  <2>1. ASSUME NEW s \in Nodes
        PROVE  (IF color'[s] = "white" THEN Adjacent(s) ELSE left'[s])
                 \subseteq (IF color[s] = "white" THEN Adjacent(s) ELSE left[s])
    BY <1>2
  <2> QED
    BY <1>1, <2>1 DEF Owed
<1>5. Cardinality(White') = Cardinality(White) - 1
  BY <1>3, SearchFinite, FS_RemoveElement
<1>6. Cardinality(Owed') <= Cardinality(Owed)
  BY <1>4, SearchFinite, FS_Subset
<1>7. Cardinality(Owed') \in Nat
  <2> HIDE DEF Owed
  <2> QED
    BY <1>4, SearchFinite, FS_Subset, FS_CardinalityType
<1>8. Cardinality(White) \in Nat /\ Cardinality(Owed) \in Nat /\ Len(stack) \in Nat
  BY SearchFinite
<1>9. Len(stack') = Len(stack) + 1
  BY <1>2
<1> HIDE DEF White, Owed
<1> QED
  BY <1>5, <1>6, <1>7, <1>8, <1>9 DEF SearchLeft

LEMMA SearchUsesTurn ==
  ASSUME DfsType, DfsType', Entered, definition' = definition,
         NEW n \in Nodes, Root(n) \/ Look(n) \/ Leave
  PROVE  SearchLeft' < SearchLeft
<1>1. Nodes' = Nodes /\ \A s : Adjacent(s)' = Adjacent(s) /\ Adjacent(s) \subseteq Nodes
  BY GraphKept, GraphType DEF DfsType
<1>2. CASE Root(n)
  <2>1. left'[n] = Adjacent(n) /\ \A s \in Nodes : s # n => left'[s] = left[s]
    BY <1>2, <1>1 DEF Root, DfsType
  <2> QED
    BY <1>2, <2>1, CallUsesTurn DEF Root
<1>3. CASE Look(n)
  <2>1. Top \in Nodes /\ color[Top] # "white" /\ n \in left[Top] /\ stack # <<>>
        /\ Len(stack) > 0
    BY <1>3, StackType DEF Look, Entered, Top
  <2>2. CASE Descend(n)
    <3>1. n # Top
      BY <2>1, <2>2 DEF Descend
    <3>2. left'[n] = Adjacent(n) /\ \A s \in Nodes : s # n => left'[s] \subseteq left[s]
      BY <2>1, <2>2, <3>1 DEF Descend, DfsType
    <3> QED
      BY <2>2, <3>2, CallUsesTurn DEF Descend
  <2>3. CASE Skip(n)
    <3>1. /\ color' = color /\ stack' = stack
          /\ \A s \in Nodes : left'[s] = IF s = Top THEN left[s] \ {n} ELSE left[s]
      BY <2>1, <2>3 DEF Skip, DfsType
    <3>2. Owed' = Owed \ {<<Top, n>>} /\ <<Top, n>> \in Owed
      <4>1. <<Top, n>> \in Owed
        BY <2>1 DEF Owed
      <4>2. ASSUME NEW s \in Nodes, NEW m \in Nodes
            PROVE  <<s, m>> \in Owed' <=> <<s, m>> \in Owed /\ <<s, m>> # <<Top, n>>
        BY <1>1, <2>1, <3>1 DEF Owed
      <4>3. Owed \subseteq Nodes \X Nodes /\ Owed' \subseteq Nodes \X Nodes
        BY <1>1 DEF Owed
      <4> HIDE DEF Owed
      <4> QED
        BY <4>1, <4>2, <4>3
    <3>3. Cardinality(Owed') = Cardinality(Owed) - 1
      BY <3>2, SearchFinite, FS_RemoveElement
    <3>4. White' = White
      BY <1>1, <3>1 DEF White
    <3> QED
      BY <3>1, <3>3, <3>4, SearchFinite DEF SearchLeft
  <2>4. CASE Cycle(n)
    <3>1. White' = White /\ Owed' = Owed /\ Len(stack') = 0
      BY <1>1, <2>4 DEF Cycle, White, Owed
    <3> QED
      BY <2>1, <3>1, SearchFinite DEF SearchLeft
  <2> QED
    BY <1>3, <2>2, <2>3, <2>4 DEF Look
<1>4. CASE Leave
  <2>1. Top \in Nodes /\ color[Top] # "white" /\ Len(stack) > 0
    BY <1>4, StackType DEF Leave, Entered, Top
  <2>2. /\ left' = left
        /\ \A s \in Nodes : color'[s] = "white" <=> color[s] = "white"
    BY <1>4, <2>1 DEF Leave, Paint, DfsType
  <2>3. Len(stack') = Len(stack) - 1
    <3> DEFINE last == Len(stack)
    <3>1. stack' = SubSeq(stack, 1, last - 1)
      BY <1>4 DEF Leave
    <3>2. stack \in Seq(Nodes) /\ last = Len(stack) /\ last \in Nat /\ last >= 1
      BY <2>1, SearchFinite DEF DfsType
    <3> HIDE DEF last
    <3>3. Len(stack') = last - 1
      BY <3>1, <3>2
    <3> QED
      BY <3>2, <3>3
  <2>4. White' = White /\ Owed' = Owed
    BY <1>1, <2>2 DEF White, Owed
  <2> QED
    BY <2>3, <2>4, SearchFinite DEF SearchLeft
<1> QED
  BY <1>2, <1>3, <1>4

\* The color of a call is never taken off its step.
LEMMA EnteredStep == DfsType /\ DfsType' /\ Entered /\ [Next]_vars => Entered'
<1> SUFFICES ASSUME DfsType, DfsType', Entered, [Next]_vars PROVE Entered'
  OBVIOUS
<1>1. Len(stack) \in Nat /\ \A i \in 1 .. Len(stack) : stack[i] \in Nodes
  BY StackType
<1>2. ASSUME UNCHANGED <<color, stack>> PROVE Entered'
  BY <1>2 DEF Entered
<1>3. ASSUME NEW n \in Nodes, Call(n) PROVE Entered'
  <2>1. /\ color'[n] = "gray" /\ \A s \in Nodes : s # n => color'[s] = color[s]
    BY <1>3 DEF Call, Paint, DfsType
  <2>2. /\ Len(stack') = Len(stack) + 1 /\ stack'[Len(stack) + 1] = n
        /\ \A i \in 1 .. Len(stack) : stack'[i] = stack[i]
    BY <1>3, <1>1 DEF Call, DfsType
  <2>3. ASSUME NEW i \in 1 .. Len(stack') PROVE i \in 1 .. Len(stack) \/ i = Len(stack) + 1
    BY <1>1, <2>2
  <2>4. \A i \in 1 .. Len(stack') : color'[stack'[i]] # "white"
    BY <1>1, <2>1, <2>2, <2>3 DEF Entered
  <2> QED
    BY <2>4 DEF Entered
<1>4. ASSUME NEW n \in Nodes, Cycle(n) PROVE Entered'
  BY <1>4 DEF Cycle, Entered
<1>5. CASE Leave
  <2> DEFINE last == Len(stack)
  <2>1. Top \in Nodes
    BY <1>5, StackType DEF Leave
  <2>2. \A s \in Nodes : color[s] # "white" => color'[s] # "white"
    BY <1>5, <2>1 DEF Leave, Paint, DfsType
  <2>3. stack' = SubSeq(stack, 1, last - 1)
    BY <1>5 DEF Leave
  <2>4. stack \in Seq(Nodes) /\ last = Len(stack) /\ last \in Nat /\ last >= 1
    BY <1>1, <1>5 DEF DfsType, Leave
  <2>5. \A i \in 1 .. last : stack[i] \in Nodes /\ color[stack[i]] # "white"
    BY <1>1 DEF Entered
  <2> HIDE DEF last
  <2>6. Len(stack') = last - 1
    BY <2>3, <2>4
  <2>7. \A i \in 1 .. last - 1 : stack'[i] = stack[i]
    BY <2>3, <2>4
  <2>8. \A i \in 1 .. Len(stack') : i \in 1 .. last - 1 /\ i \in 1 .. last
    BY <2>4, <2>6
  <2> QED
    BY <2>2, <2>5, <2>7, <2>8 DEF Entered
<1>6. ASSUME NEW n \in Nodes, Root(n) \/ Look(n) PROVE Entered'
  BY <1>2, <1>3, <1>4, <1>6 DEF Root, Look, Descend, Skip
<1>7. ASSUME NEW n \in Nodes, Visit(n) PROVE Entered'
  BY <1>2, <1>7 DEF Visit, dfsVars
<1>8. CASE Throw \/ Reject \/ Accept \/ PushLayer \/ Finish \/ UNCHANGED vars
  BY <1>2, <1>8 DEF Throw, Reject, Accept, Sort, PushLayer, Finish, vars, dfsVars
<1> QED
  BY <1>5, <1>6, <1>7, <1>8 DEF Next

LEMMA SortFinite ==
  ASSUME DfsType, SortInv
  PROVE  /\ Cardinality(Nodes \ visited) \in Nat /\ SortLeft \in Nat
         /\ Cardinality(Nodes \ visited) <= Cardinality(Nodes)
<1>1. IsFiniteSet(Nodes \ visited) /\ Cardinality(Nodes \ visited) <= Cardinality(Nodes)
  BY SearchFinite, FS_Subset
<1>2. Cardinality(Nodes \ visited) \in Nat
  BY <1>1, FS_CardinalityType
<1> QED
  BY <1>1, <1>2 DEF SortLeft

LEMMA CountsType ==
  /\ DfsType => SearchLeft \in Nat
  /\ DfsType /\ SortInv => SortLeft \in Nat
<1>1. DfsType => SearchLeft \in Nat
  BY SearchFinite
<1>2. DfsType /\ SortInv => SortLeft \in Nat
  BY SortFinite
<1> QED
  BY <1>1, <1>2

LEMMA TurnsType == DfsType /\ SortInv => TurnsLeft \in Nat
<1> SUFFICES ASSUME DfsType, SortInv PROVE TurnsLeft \in Nat
  OBVIOUS
<1>1. SearchLeft \in Nat /\ SortLeft \in Nat
  BY CountsType
<1>2. Cardinality(Nodes) \in Nat
  BY SearchFinite
<1> QED
  BY <1>1, <1>2 DEF TurnsLeft

LEMMA TurnUsed ==
  ASSUME DfsType, SortInv, Entered, DfsType', SortInv', Next
  PROVE  TurnsLeft' < TurnsLeft
<1>0. definition' = definition /\ Nodes' = Nodes
  <2>1. definition' = definition
    BY DEF Next, Root, Look, Visit, Leave, Throw, Reject, Accept, Sort, PushLayer, Finish
  <2> QED
    BY <2>1, GraphKept
<1>1. /\ Cardinality(Nodes) \in Nat /\ SearchLeft \in Nat /\ SortLeft \in Nat
      /\ SearchLeft' \in Nat /\ SortLeft' \in Nat
  <2>1. /\ DfsType' => (SearchLeft \in Nat)'
        /\ DfsType' /\ SortInv' => (SortLeft \in Nat)'
    BY CountsType, PTL
  <2> QED
    BY <2>1, CountsType, SearchFinite
<1>2. ASSUME NEW n \in Nodes, Root(n) \/ Look(n) \/ Leave
      PROVE  TurnsLeft' < TurnsLeft
  <2>1. SearchLeft' < SearchLeft
    BY <1>0, <1>2, SearchUsesTurn
  <2>2. phase = "checking" /\ phase' = "checking"
    BY <1>2 DEF Root, Look, Leave
  <2> QED
    BY <1>0, <1>1, <2>1, <2>2 DEF TurnsLeft
<1>3. ASSUME NEW s \in Nodes, Visit(s) PROVE TurnsLeft' < TurnsLeft
  <2>1. s \in Nodes \ visited /\ phase = "sorting" /\ phase' = "sorting"
        /\ visited' = visited \cup {s}
    BY <1>3 DEF Visit, SortInv, Counted
  <2>2. Nodes' \ visited' = (Nodes \ visited) \ {s}
    BY <1>0, <2>1
  <2>3. IsFiniteSet(Nodes \ visited)
    BY SearchFinite, FS_Subset
  <2>4. Cardinality(Nodes' \ visited') = Cardinality(Nodes \ visited) - 1
    BY <2>1, <2>2, <2>3, FS_RemoveElement
  <2>5. SortLeft' < SortLeft
    BY <1>0, <1>1, <2>4, SortFinite DEF SortLeft
  <2> QED
    BY <1>1, <2>1, <2>5 DEF TurnsLeft
<1>4. CASE PushLayer
  <2>1. /\ phase = "sorting" /\ phase' = "sorting" /\ visited' = visited
        /\ nextLayer # {} /\ nextLayer' = {}
    BY <1>4 DEF PushLayer
  <2>2. SortLeft' < SortLeft
    BY <1>0, <2>1, SortFinite DEF SortLeft
  <2> QED
    BY <1>1, <2>1, <2>2 DEF TurnsLeft
<1>5. CASE Accept
  <2>1. phase = "checking" /\ phase' = "sorting" /\ visited' = {}
    BY <1>5 DEF Accept, Checked, Sort, SortInv, SortType
  <2>2. SortLeft' <= 2 * Cardinality(Nodes) + 1
    BY <1>0, <1>1, <2>1 DEF SortLeft
  <2> QED
    BY <1>1, <2>1, <2>2 DEF TurnsLeft
<1>6. CASE Throw \/ Reject \/ Finish
  <2>1. phase \in {"checking", "sorting"} /\ phase' \in {"rejected", "error", "thrown", "sorted"}
    BY <1>6 DEF Throw, Reject, Checked, Finish
  <2>2. TurnsLeft > 0
    BY <1>1, <2>1 DEF TurnsLeft
  <2>3. TurnsLeft' = 0
    BY <2>1 DEF TurnsLeft
  <2> QED
    BY <2>2, <2>3
<1>7. CASE Leave
  <2>1. Top \in Nodes
    BY <1>7, StackType DEF Leave
  <2> QED
    BY <1>2, <1>7, <2>1
<1> QED
  BY <1>2, <1>3, <1>4, <1>5, <1>6, <1>7 DEF Next

\* Every step of the model uses a turn up.
TurnsRunOut == [][TurnsLeft' < TurnsLeft]_vars

\* validateDag and topologicalSort take a number of turns that is linear in the
\* steps and edges of the definition, whatever it is (dag-validator.ts, 92-119,
\* and topological-sorter.ts): dfs never comes to a step twice, a cycle that is
\* found does not make it start over, and no layer is visited again.
THEOREM TurnsAreLinear ==
  Spec => /\ TurnsLeft = 4 * Cardinality(Nodes) + Cardinality(Edges) + 3
          /\ [](TurnsLeft \in Nat)
          /\ TurnsRunOut
<1>1. Init => TurnsLeft = 4 * Cardinality(Nodes) + Cardinality(Edges) + 3
  <2> SUFFICES ASSUME Init PROVE TurnsLeft = 4 * Cardinality(Nodes) + Cardinality(Edges) + 3
    OBVIOUS
  <2>1. DfsType
    BY DfsTypeInit
  <2>2. phase = "checking" /\ Len(stack) = 0 /\ \A s \in Nodes : color[s] = "white"
    BY DEF Init
  <2>3. White = Nodes /\ Owed = Edges
    BY <2>2 DEF White, Owed, Edges
  <2> QED
    BY <2>1, <2>2, <2>3, SearchFinite DEF TurnsLeft, SearchLeft
<1>2. Init => Entered
  BY DEF Init, Entered
<1>3. Spec => []Entered
  BY <1>2, EnteredStep, DfsTypeInit, DfsStep, PTL DEF Spec
<1>4. DfsType /\ SortInv /\ Entered /\ DfsType' /\ SortInv' /\ [Next]_vars
        => [TurnsLeft' < TurnsLeft]_vars
  BY TurnUsed
<1> QED
  BY <1>1, <1>3, <1>4, TurnsType, Correct, PTL DEF Spec, TurnsRunOut

=============================================================================
