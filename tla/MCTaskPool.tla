---------------------------- MODULE MCTaskPool ----------------------------
(* Constants for model checking TaskPool. *)
EXTENDS TaskPool

CONSTANTS c1, c2, x1, x2

TwoClients == {c1, c2}
TwoTasks == {x1, x2}

=============================================================================
