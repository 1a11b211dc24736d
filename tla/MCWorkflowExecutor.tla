------------------------- MODULE MCWorkflowExecutor -------------------------
(***************************************************************************)
(* An if and else with a join: fetch is a call that is retried once; check *)
(* and again are conditions on its answer, check one that is retried once, *)
(* again with path and expression as ai.service.ts:41 writes them; post (a *)
(* call, retried) and wait (a delay) are on the branches of check; join is *)
(* a script that is retried once and depends on both; aside is a delay     *)
(* nobody depends on; never is a call whose retryConfig lacks maxRetries.  *)
(* check, aside and never have a runIf that may be true, false or throw.   *)
(***************************************************************************)
EXTENDS StepData, TLC

CONSTANTS fetch, check, again, post, wait, join, aside, never

All       == {fetch, check, again, post, wait, join, aside, never}
Deps      == [s \in All |-> CASE s = fetch -> {}
                              [] s \in {check, again} -> {fetch}
                              [] s \in {post, wait, aside} -> {check}
                              [] s = never -> {aside}
                              [] s = join -> {post, wait}]
Layers    == [s \in All |-> CASE s = fetch -> 1
                              [] s \in {check, again} -> 2
                              [] s \in {post, wait, aside} -> 3
                              [] s \in {join, never} -> 4]
Retries   == [s \in All |-> CASE s \in {fetch, check, post, join} -> 1
                              [] s = never -> -1
                              [] OTHER -> 0]
SyncSteps == {check, again, join}
Ifs       == {check, again}
Paths     == (check :> <<fetch, "output", "status">>)
               @@ (again :> <<"steps", fetch, "output", "status">>)
QuotedIfs == {check}
Guarded   == {check, post, wait, aside, never}
Branches  == (post :> [on |-> check, is |-> "true"])
               @@ (wait :> [on |-> check, is |-> "false"])
TwoDelays == {wait, aside}

=============================================================================
