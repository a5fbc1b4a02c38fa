---------------------------- MODULE Computation ----------------------------
(***************************************************************************)
(* The table of computations of multiproc (computation.thread.c), one per  *)
(* CPU, and the system's threads that run them.  The functions of the      *)
(* table are called by three threads without a lock; each operator here is *)
(* one access to the table or one call of the system.                      *)
(***************************************************************************)
EXTENDS Integers, FiniteSets

CONSTANTS
  CpuCount,   \* count_cpus()
  MaxThreads, \* bound: threads the system has at a time
  MAXIMUM_SUSPEND_COUNT \* of the system; a further SuspendThread fails

ASSUME ComputationAssumption ==
  /\ CpuCount \in Nat \ {0} /\ MaxThreads \in Nat \ {0}
  /\ MAXIMUM_SUSPEND_COUNT \in Nat \ {0}

Cpu == 1 .. CpuCount
Thread == 1 .. MaxThreads
NULL == 0  \* no handle

VARIABLES
  computations, \* computations[i].state and .thread
  threads       \* the threads of the system

computationVars == <<computations, threads>>

NoComputation == [state |-> "NO_PROCESS", thread |-> NULL]

\* count is how often the thread is suspended; finished: it has written its
\* state and returns; freed: its computation_data_t was deleted.
Ended == [status |-> "ended", cpu |-> 1, count |-> 0, freed |-> FALSE]

ComputationTypeOK ==
  /\ computations \in [Cpu -> [
       state : {"NO_PROCESS", "RUNNING", "SUSPENDED", "FINISHED"},
       thread : Thread \cup {NULL}]]
  /\ threads \in [Thread -> [
       status : {"computing", "finished", "ended"}, cpu : Cpu,
       count : 0 .. MAXIMUM_SUSPEND_COUNT, freed : BOOLEAN]]

ComputationInit ==
  /\ computations = [i \in Cpu |-> NoComputation]
  /\ threads = [t \in Thread |-> Ended]

Alive == {t \in Thread : threads[t].status # "ended"}

SetState(i, state) == computations' = [computations EXCEPT ![i].state = state]

----------------------------------------------------------------------------
\* computation_proc: the benchmark, then c->state = FINISHED, then the return.
Compute(t) ==
  /\ threads[t].status = "computing" /\ threads[t].count = 0
  /\ threads' = [threads EXCEPT ![t].status = "finished"]
  /\ SetState(threads[t].cpu, "FINISHED")

ReturnFrom(t) ==
  /\ threads[t].status = "finished" /\ threads[t].count = 0
  /\ threads' = [threads EXCEPT ![t] = Ended]
  /\ UNCHANGED computations

\* The handle of an ended thread that is closed may be given out again.
Unused == {t \in Thread \ Alive : \A i \in Cpu : computations[i].thread # t}

\* CreateThread in computation_start, for CPU i.
CreateThread(i) ==
  \E t \in Unused :
    /\ \A u \in Unused : t <= u
    /\ computations' = [computations EXCEPT ![i].thread = t]
    /\ threads' = [threads EXCEPT ![t] =
         [status |-> "computing", cpu |-> i, count |-> 0, freed |-> FALSE]]

computation_clear(i) ==
  /\ computations' = [computations EXCEPT ![i] = NoComputation]
  /\ UNCHANGED threads

\* The calls of the system fail, unnoticed, without a thread that lives.
TerminateThread(i) ==
  /\ threads' = [t \in Thread |->
       IF t = computations[i].thread THEN Ended ELSE threads[t]]
  /\ UNCHANGED computations

SuspendThread(i) ==
  /\ threads' = [t \in Thread |->
       IF /\ t = computations[i].thread /\ t \in Alive
          /\ threads[t].count < MAXIMUM_SUSPEND_COUNT
       THEN [threads[t] EXCEPT !.count = @ + 1] ELSE threads[t]]
  /\ UNCHANGED computations

ResumeThread(i) ==
  /\ threads' = [t \in Thread |->
       IF t = computations[i].thread /\ threads[t].count > 0
       THEN [threads[t] EXCEPT !.count = @ - 1] ELSE threads[t]]
  /\ UNCHANGED computations

\* delete_computation_data of all CPUs.
DeleteData ==
  /\ threads' = [t \in Thread |->
       IF t \in Alive THEN [threads[t] EXCEPT !.freed = TRUE] ELSE threads[t]]
  /\ UNCHANGED computations
============================================================================
