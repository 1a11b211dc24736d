-------------------------- MODULE MCDagValidation --------------------------
(***************************************************************************)
(* All definitions of up to three steps, with missing and repeated ids,    *)
(* steps without a list of dependencies, steps that depend on themselves,  *)
(* cycles and paths that meet; and all graphs on four steps in which no    *)
(* step depends on itself.                                                 *)
(***************************************************************************)
EXTENDS DagValidation, TLC

CONSTANTS a, b, c, d

Steps3     == [id : {a, b, c}, dependsOn : SUBSET {a, b, c} \cup {Unlisted}]
UpToThree  == UNION {[1 .. n -> Steps3] : n \in 0 .. 3}

Order      == <<a, b, c, d>>
FourSteps  == {[i \in 1 .. 4 |-> [id |-> Order[i], dependsOn |-> deps[i]]] :
                 deps \in {f \in [1 .. 4 -> SUBSET {a, b, c, d}] :
                             \A i \in 1 .. 4 : Order[i] \notin f[i]}}

SmallDefinitions == UpToThree \cup FourSteps

=============================================================================
