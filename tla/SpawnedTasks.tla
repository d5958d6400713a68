---------------------------- MODULE SpawnedTasks ----------------------------
(***************************************************************************)
(* The scheduler of a system whose tasks have all been spawned: where the  *)
(* models begin that are not about creating tasks.                         *)
(***************************************************************************)
EXTENDS SchedulerOps, FiniteSets

\* The orders in which the tasks but Idle can be spawned.
Orders ==
  {f \in [1..(Cardinality(Task) - 1) -> Task \ {Idle}] :
     IsInjective(f) /\ \A t \in Task \ {Idle} : \E i \in DOMAIN f : f[i] = t}

\* The tasks are finitely many, so that they can be spawned one by one.
ASSUME FiniteAssumption == Cardinality(Task) \in Nat \ {0} /\ Orders # {}

\* The tasks but Idle, in some order.
Others == CHOOSE f \in Orders : TRUE

\* Every task has been spawned, Idle first, and schedule() was called once.
Started ==
  [EmptySched EXCEPT !.run     = [t \in Task |-> IF t = Idle THEN "Running" ELSE "Ready"],
                     !.slice   = [@ EXCEPT ![Idle] = UNIT_TIME_SLICE],
                     !.queue   = Others,
                     !.current = Idle]

\* Started is where the scheduler's own functions lead.
ASSUME StartedBySpawning ==
  LET order == <<Idle>> \o Others
      spawned[i \in 0..Len(order)] ==
        IF i = 0 THEN EmptySched
        ELSE RegisterNewTask(CreateTask(spawned[i - 1], order[i]), order[i])
  IN  Started = Schedule(spawned[Len(order)])
=============================================================================
