----------------------------- MODULE MCToolCalls ------------------------------
(* ToolCalls on a small instance: two tools whose calls need an approval   *)
(* (one of them denied without a recycle bin), under a permission engine   *)
(* that allows all, or denies one tool.                                    *)
EXTENDS ToolCalls

CONSTANTS w1, w2, trash, build

Tools == [a \in Action |-> IF a = trash THEN "file_delete" ELSE "terminal_run"]

\* w1 works with both tools, w2 builds.
Jobs == [w \in Worker |-> IF w = w1 THEN Action ELSE {build}]

AllowAll == <<[decision |-> "ALLOW", tool |-> "any"]>>
Guarded ==
  <<[decision |-> "DENY", tool |-> "terminal_run"], [decision |-> "ALLOW", tool |-> "any"]>>
Books == {AllowAll, Guarded}
===============================================================================
