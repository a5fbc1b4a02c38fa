----------------------------- MODULE Experiment -----------------------------
(***************************************************************************)
(* The experiments of one host of the quicktester server                   *)
(* (quicktester/linux/server/server.c): the messages of a multiproc        *)
(* client, handled by the thread of its host, and the energy that the      *)
(* thread of its meter adds up meanwhile.                                  *)
(*                                                                         *)
(* The client is multiproc's: one thread starts, rates and stops one run   *)
(* after the other, another one sends a sample every second, each sample   *)
(* in one send (multiproc.cpp, measurements.cpp).  Loads are percents,     *)
(* energies are Joules.                                                    *)
(***************************************************************************)
EXTENDS Integers

CONSTANTS
  MAX_EXPERIMENTS, \* the length of host->experiments
  MaxRuns,         \* bound: runs the client starts
  MaxEnergy,       \* bound: Joules the meter measures
  MaxSamples,      \* bound: samples the client sends
  Load,            \* the loads a sample may report
  Capacity         \* the battery capacities a sample may report; 0: unknown

Part == {"idle", "sys", "user", "comp"}
Index == 1 .. MAX_EXPERIMENTS

ASSUME ExperimentAssumption ==
  /\ MAX_EXPERIMENTS \in Nat \ {0}
  /\ MaxRuns \in Nat \ {0} /\ MaxEnergy \in Nat /\ MaxSamples \in Nat
  /\ Load \subseteq [Part -> 0 .. 100]
  /\ Capacity \subseteq Nat

VARIABLES
  meter,           \* meter->energy
  num_experiments, \* host->num_experiments
  experiments,     \* host->experiments, the slots from 1
  cur_experiment,  \* host->cur_experiment, as a slot; 0 is NULL
  client,          \* the client's experiment thread
  runs,            \* how many runs it has started
  samples          \* how many samples were sent

vars == <<meter, num_experiments, experiments, cur_experiment, client, runs,
          samples>>

\* energy_part is in units of 10^-4 J.  run, from, first and unread are
\* history: the client's run, the meter at the start, the first capacity
\* reported, and whether a capacity was unknown.
Experiment == [
  run : 1 .. MaxRuns, kflops : 0 .. MaxRuns, ended : BOOLEAN,
  from : Nat, energy : Int, energy_last : Nat, energy_part : [Part -> Int],
  cpu_load : [Part -> 0 .. 100],
  bat_last : Nat, bat_diff : Int, first : Nat, unread : BOOLEAN]

NoExperiment == [
  run |-> 1, kflops |-> 0, ended |-> FALSE,
  from |-> 0, energy |-> 0, energy_last |-> 0,
  energy_part |-> [p \in Part |-> 0], cpu_load |-> [p \in Part |-> 0],
  bat_last |-> 0, bat_diff |-> 0, first |-> 0, unread |-> FALSE]

TypeOK ==
  /\ meter \in Nat
  /\ num_experiments \in 0 .. MAX_EXPERIMENTS
  /\ experiments \in [Index -> Experiment]
  /\ cur_experiment \in 0 .. num_experiments
  /\ client \in {"ready", "running", "rated", "gone"}
  /\ runs \in 0 .. MaxRuns
  /\ samples \in 0 .. MaxSamples

Init ==
  /\ meter = 0
  /\ num_experiments = 0 /\ cur_experiment = 0
  /\ experiments = [i \in Index |-> NoExperiment]
  /\ client = "ready" /\ runs = 0 /\ samples = 0

----------------------------------------------------------------------------
\* The thread of the meter adds what the meter reports.
Measure ==
  /\ meter < MaxEnergy
  /\ meter' = meter + 1
  /\ UNCHANGED <<num_experiments, experiments, cur_experiment, client, runs,
                 samples>>

\* Mutant: the energy so far is not taken from the meter.
NewExperimentNoMeter ==
  [NoExperiment EXCEPT !.run = runs + 1, !.from = meter]

NewExperiment ==
  [NoExperiment EXCEPT !.run = runs + 1, !.from = meter, !.energy_last = meter]

\* host_start_experiment: rejected when all slots are used, whatever runs now.
host_start_experiment ==
  \/ /\ num_experiments >= MAX_EXPERIMENTS
     /\ UNCHANGED <<num_experiments, experiments, cur_experiment>>
  \/ /\ num_experiments < MAX_EXPERIMENTS
     /\ num_experiments' = num_experiments + 1
     /\ experiments' = [experiments EXCEPT ![num_experiments'] = NewExperiment]
     /\ cur_experiment' = num_experiments'

host_stop_experiment ==
  /\ experiments' = [i \in Index |->
       IF i = cur_experiment THEN [experiments[i] EXCEPT !.ended = TRUE]
       ELSE experiments[i]]
  /\ cur_experiment' = 0
  /\ UNCHANGED num_experiments

\* Mutant: the last experiment is rated, running or not.
set_kflopsLast ==
  /\ experiments' = [i \in Index |->
       IF i = num_experiments THEN [experiments[i] EXCEPT !.kflops = runs]
       ELSE experiments[i]]
  /\ UNCHANGED <<num_experiments, cur_experiment>>

\* host_experiment_set of "kflops"; what the run scored is named by the run.
set_kflops ==
  /\ experiments' = [i \in Index |->
       IF i = cur_experiment THEN [experiments[i] EXCEPT !.kflops = runs]
       ELSE experiments[i]]
  /\ UNCHANGED <<num_experiments, cur_experiment>>

----------------------------------------------------------------------------
(***************************************************************************)
(* A sample: host_experiment_set of each value, then                       *)
(* host_experiment_update.                                                 *)
(***************************************************************************)

\* The last capacity, or the one just reported if there is none yet.
LastCapacity(e, capacity) == IF e.bat_last = 0 THEN capacity ELSE e.bat_last

\* Mutant: the last capacity is only set once.
BatteryStale(e, capacity) ==
  [e EXCEPT !.bat_diff = @ + (LastCapacity(e, capacity) - capacity),
            !.bat_last = LastCapacity(e, capacity),
            !.first = IF @ = 0 THEN capacity ELSE @,
            !.unread = IF capacity = 0 THEN TRUE ELSE @]

Battery(e, capacity) ==
  [e EXCEPT !.bat_diff = @ + (LastCapacity(e, capacity) - capacity),
            !.bat_last = capacity,
            !.first = IF @ = 0 THEN capacity ELSE @,
            !.unread = IF capacity = 0 THEN TRUE ELSE @]

\* host_experiment_set has divided the loads by 100, here they are divided by
\* 100 again.
Energy(e, load) ==
  [e EXCEPT !.energy = @ + (meter - e.energy_last),
            !.energy_part = [p \in Part |->
                               @[p] + load[p] * (meter - e.energy_last)],
            !.energy_last = meter,
            !.cpu_load = load]

host_experiment_update(load, capacity) ==
  /\ experiments' = [i \in Index |->
       IF i = cur_experiment
       THEN Battery(Energy(experiments[i], load), capacity)
       ELSE experiments[i]]
  /\ UNCHANGED <<num_experiments, cur_experiment>>

----------------------------------------------------------------------------
(***************************************************************************)
(* The client's messages, in the order they arrive.                        *)
(***************************************************************************)
Start ==
  /\ client = "ready" /\ runs < MaxRuns
  /\ client' = "running" /\ runs' = runs + 1
  /\ host_start_experiment
  /\ UNCHANGED <<meter, samples>>

\* An idle run has no kflops.
Rate ==
  /\ client = "running"
  /\ client' = "rated"
  /\ set_kflops
  /\ UNCHANGED <<meter, runs, samples>>

Stop ==
  /\ client \in {"running", "rated"}
  /\ client' = "ready"
  /\ host_stop_experiment
  /\ UNCHANGED <<meter, runs, samples>>

\* The experiment thread returns in the middle of a run: a file cannot be
\* opened, memory is short.  The samples go on.
Fail ==
  /\ client = "running"
  /\ client' = "gone"
  /\ UNCHANGED <<meter, num_experiments, experiments, cur_experiment, runs,
                 samples>>

Sample(load, capacity) ==
  /\ samples < MaxSamples
  /\ samples' = samples + 1
  /\ host_experiment_update(load, capacity)
  /\ UNCHANGED <<meter, client, runs>>

Next == \/ Measure
        \/ Start \/ Rate \/ Stop \/ Fail
        \/ \E load \in Load, capacity \in Capacity : Sample(load, capacity)

Spec == Init /\ [][Next]_vars

----------------------------------------------------------------------------
(***************************************************************************)
(* What the accounts of the experiments promise.                           *)
(***************************************************************************)
Started == 1 .. num_experiments

\* The energy of an experiment is what the meter measured between its start and
\* its last sample, and what two experiments are given never overlaps, although
\* the meter's thread runs on and the updates only see its sum
\* (host_experiment_update, host_start_experiment).
EnergyCountedOnce ==
  \A i \in Started :
    LET e == experiments[i] IN
      /\ e.energy = e.energy_last - e.from
      /\ e.from <= e.energy_last /\ e.energy_last <= meter
      /\ i < num_experiments => e.energy_last <= experiments[i + 1].from

\* kflops are credited to the run that scored them, also when the server had no
\* slot left for it (host_experiment_set when no experiment runs).
KflopsOfOwnRun ==
  \A i \in Started : experiments[i].kflops \in {0, experiments[i].run}

\* An experiment that was stopped never changes again, though samples go on
\* arriving from the other thread of the client.
StoppedIsFrozen ==
  [][\A i \in Started :
       experiments[i].ended => experiments'[i] = experiments[i]]_vars

\* As long as every capacity was known, the battery account is the difference of
\* the first and the last capacity reported.
BatteryIsDifference ==
  \A i \in Started :
    LET e == experiments[i] IN
      ~e.unread => e.bat_diff = e.first - e.bat_last

\* Whenever an experiment is running on the client, the server collects for that
\* very run or for none: an unfinished experiment is the last one.
OnlyLastRuns ==
  /\ \A i \in Started : experiments[i].ended \/ i = cur_experiment
  /\ cur_experiment # 0 =>
       /\ cur_experiment = num_experiments
       /\ experiments[cur_experiment].run = runs

============================================================================
