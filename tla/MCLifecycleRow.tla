--------------------------- MODULE MCLifecycleRow ---------------------------
(* Model-checking instances of LifecycleRow; the cfg files give the values. *)
EXTENDS LifecycleRow

\* No deadline, or one in three clock steps.
SomeDeadlines == {NoTime, 3}
=============================================================================
