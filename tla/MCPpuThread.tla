------------------------------ MODULE MCPpuThread ------------------------------
(* One task, lines of one cycle, frames of two lines; a second task for the    *)
(* run that has only JustAsync.                                                *)
EXTENDS PpuThread

Build(a, i, s, r) == [async |-> a, intrudes |-> i, shares |-> s, restarts |-> r]

\* The synchronous build, and the three uses of the other one.
AllBuilds == {Build(FALSE, TRUE, TRUE, FALSE), Build(TRUE, FALSE, TRUE, FALSE),
              Build(TRUE, TRUE, FALSE, FALSE), Build(TRUE, FALSE, TRUE, TRUE)}
JustAsync == {Build(TRUE, TRUE, FALSE, FALSE)}
===============================================================================
