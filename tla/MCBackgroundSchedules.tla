------------------------ MODULE MCBackgroundSchedules ------------------------
(* Small instances of BackgroundSchedules for TLC. *)
EXTENDS BackgroundSchedules, TLC

Plain == [kind |-> "periodic", period |-> 1, runAt |-> 0, start |-> None, end |-> None,
          next |-> 0, maxRuns |-> None, runCount |-> 0, enabled |-> TRUE, paused |-> FALSE]

Limited == [Plain EXCEPT !.maxRuns = 1]
Once == [Plain EXCEPT !.kind = "one_time", !.next = None, !.runAt = 1]
Unset == [Plain EXCEPT !.next = None]

TwoKinds == {Limited, Once}
UnsetOnly == {Unset}

Symmetry == Permutations(Schedules)

\* Bound: a poll dies or a definition is replaced, once.
OneMishap == crashes + Cardinality(updated) <= 1
=============================================================================
