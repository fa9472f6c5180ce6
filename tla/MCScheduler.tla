---------------------------- MODULE MCScheduler ----------------------------
(* Scheduler on small instances. *)
EXTENDS Scheduler, TLC

CONSTANTS a, b, c, d, e   \* tasks besides Main, a shared event

\* One waiter per shared event, as the daemons of lib/net keep it.
OneWaiter == {<<a, e>>}

\* The same with another task waiting for the termination of a.
Joining == {<<a, e>>, <<b, a>>}

\* Bound: when a task has slept, no more than two addresses have tasks that live or have slept.
FewSleep ==
  LET slept == {t \in Tasks : <<wakeTicks[t], due[t]>> # <<0, 0>>}
  IN  slept # {} => Cardinality(slept \cup {t \in Tasks : state[t] # "Unknown"}) <= 2
=============================================================================
