-------------------------- MODULE ExperimentProofs --------------------------
(***************************************************************************)
(* Proof that the accounts of the experiments are right for any number of  *)
(* slots, runs, samples and any meter: nothing is counted twice, nothing   *)
(* is credited to another run, and what was stopped stays as it is.        *)
(*                                                                         *)
(* The invariant says what one experiment's account is (Sound), that       *)
(* accounts follow one another (Ordered), and that the server's current    *)
(* experiment is its last one and the client's run (Current).              *)
(*                                                                         *)
(* The second part is about the viewers, for any number of them.           *)
(*                                                                         *)
(* The third part is about LINPACK, for matrices of any order: dgefa and   *)
(* dgesl solve the system.  A column of dgefa is a stage that every column *)
(* and, later, the right hand side go through.  A stage of a sum is the    *)
(* sum of the stages, so the right hand side stays the sum of the columns  *)
(* (Elimination, GoesForward), and the substitution finds that every       *)
(* unknown is 1 (Substituted).                                             *)
(***************************************************************************)
EXTENDS MCExperiment, FiniteSetTheorems, SequenceTheorems, WellFoundedInduction, TLAPS

\* The account of one experiment when the meter shows reading.
Sound(e, reading) ==
  /\ e.kflops \in {0, e.run}
  /\ e.energy = e.energy_last - e.from
  /\ e.from <= e.energy_last /\ e.energy_last <= reading
  /\ ~e.unread => /\ e.bat_diff = e.first - e.bat_last
                  /\ e.first = 0 <=> e.bat_last = 0

AllSound == \A i \in Started : Sound(experiments[i], meter)

Ordered ==
  \A i \in Started :
    i < num_experiments => experiments[i].energy_last <= experiments[i + 1].from

Current ==
  /\ \A i \in Started : experiments[i].ended \/ i = cur_experiment
  /\ cur_experiment # 0 =>
       /\ cur_experiment = num_experiments
       /\ ~experiments[cur_experiment].ended
       /\ experiments[cur_experiment].run = runs
       /\ client # "ready"

Inv == TypeOK /\ AllSound /\ Ordered /\ Current

\* e takes the place of experiment k, all others stay.
Replaces(e, k) ==
  /\ experiments' = [i \in Index |-> IF i = k THEN e ELSE experiments[i]]
  /\ UNCHANGED <<meter, num_experiments>>

----------------------------------------------------------------------------
\* The energy and battery accounts stay sound when the running experiment is
\* replaced by one with a sound account that began at the same time.
LEMMA ReplaceCurrent ==
  ASSUME Inv, cur_experiment # 0,
         NEW e \in Experiment, Replaces(e, cur_experiment),
         Sound(e, meter), e.from = experiments[cur_experiment].from
  PROVE  experiments' \in [Index -> Experiment] /\ AllSound' /\ Ordered'
<1>1. /\ meter' = meter /\ num_experiments' = num_experiments
      /\ experiments' = [i \in Index |-> IF i = cur_experiment THEN e
                                         ELSE experiments[i]]
  BY DEF Replaces
<1>2. /\ experiments \in [Index -> Experiment]
      /\ num_experiments \in Nat /\ cur_experiment = num_experiments
      /\ MAX_EXPERIMENTS \in Nat /\ num_experiments <= MAX_EXPERIMENTS
  BY ExperimentAssumption DEF Inv, TypeOK, Current
<1>3. \A i \in Started : i \in Index
  BY <1>2 DEF Started, Index
<1>4. experiments' \in [Index -> Experiment]
  BY <1>1, <1>2
<1>5. \A i \in Started :
        experiments'[i] = IF i = cur_experiment THEN e ELSE experiments[i]
  BY <1>1, <1>3
<1>6. AllSound'
  BY <1>1, <1>5 DEF Inv, AllSound, Started
<1>7. Ordered'
  <2> SUFFICES ASSUME NEW i \in Started, i < num_experiments
               PROVE  experiments'[i].energy_last <= experiments'[i + 1].from
    BY <1>1 DEF Ordered, Started
  <2>1. i + 1 \in Started /\ i # cur_experiment
    BY <1>2 DEF Started
  <2>2. experiments'[i] = experiments[i]
    BY <1>5, <2>1
  <2>3. experiments'[i + 1].from = experiments[i + 1].from
    BY <1>5, <2>1
  <2> QED
    BY <2>2, <2>3 DEF Inv, Ordered
<1> QED
  BY <1>4, <1>6, <1>7

\* The type of the running experiment, and its account.
LEMMA CurrentTypes ==
  ASSUME Inv, cur_experiment # 0
  PROVE  /\ cur_experiment \in Started /\ cur_experiment \in Index
         /\ experiments[cur_experiment] \in Experiment
         /\ Sound(experiments[cur_experiment], meter)
<1>1. /\ num_experiments \in Nat /\ cur_experiment = num_experiments
      /\ MAX_EXPERIMENTS \in Nat /\ num_experiments <= MAX_EXPERIMENTS
  BY ExperimentAssumption DEF Inv, TypeOK, Current
<1>2. cur_experiment \in Started /\ cur_experiment \in Index
  BY <1>1 DEF Started, Index
<1> QED
  BY <1>2 DEF Inv, TypeOK, AllSound

\* The other experiments are not touched.
LEMMA OthersStay ==
  ASSUME Inv, NEW e, Replaces(e, cur_experiment)
  PROVE  \A i \in Started : i # cur_experiment => experiments'[i] = experiments[i]
<1>1. \A i \in Started : i \in Index
  BY ExperimentAssumption DEF Inv, TypeOK, Started, Index
<1> QED
  BY <1>1 DEF Replaces

\* What host_experiment_update computes is a sound account of the same run.
LEMMA UpdateSound ==
  ASSUME NEW e \in Experiment, NEW load \in [Part -> 0 .. 100],
         NEW capacity \in Nat, meter \in Nat, Sound(e, meter)
  PROVE  LET u == Battery(Energy(e, load), capacity) IN
           /\ u \in Experiment /\ Sound(u, meter)
           /\ u.from = e.from /\ u.run = e.run /\ u.ended = e.ended
<1> DEFINE f == Energy(e, load)
           g == Battery(f, capacity)
<1>1. [p \in Part |-> e.energy_part[p] + load[p] * (meter - e.energy_last)]
        \in [Part -> Int]
  <2> SUFFICES ASSUME NEW p \in Part
               PROVE  e.energy_part[p] + load[p] * (meter - e.energy_last) \in Int
    OBVIOUS
  <2>1. /\ e.energy_part[p] \in Int /\ load[p] \in Int
        /\ meter - e.energy_last \in Int
    BY DEF Experiment
  <2> QED
    BY <2>1
<1>2. f \in Experiment
  <2>1. PICK shares \in [Part -> Int] :
          shares = [p \in Part |->
                      e.energy_part[p] + load[p] * (meter - e.energy_last)]
    BY <1>1
  <2>2. PICK energy \in Int : energy = e.energy + (meter - e.energy_last)
    BY DEF Experiment
  <2>3. f = [e EXCEPT !.energy = energy, !.energy_part = shares,
                      !.energy_last = meter, !.cpu_load = load]
    BY <2>1, <2>2 DEF Energy
  <2> HIDE DEF f
  <2> QED
    BY <2>3 DEF Experiment
<1>3. /\ f.energy = f.energy_last - f.from /\ f.energy_last = meter
      /\ f.from <= meter /\ f.from = e.from
      /\ f.kflops = e.kflops /\ f.run = e.run /\ f.ended = e.ended
      /\ f.bat_diff = e.bat_diff /\ f.bat_last = e.bat_last
      /\ f.first = e.first /\ f.unread = e.unread
  BY DEF Energy, Experiment, Sound
<1> HIDE DEF f
<1>4. g \in Experiment
  <2>1. LastCapacity(f, capacity) \in Nat
    BY <1>2 DEF LastCapacity, Experiment
  <2>2. /\ f.bat_diff + (LastCapacity(f, capacity) - capacity) \in Int
        /\ (IF f.first = 0 THEN capacity ELSE f.first) \in Nat
    BY <1>2, <2>1 DEF Experiment
  <2>3. f.unread \in BOOLEAN
    BY <1>2 DEF Experiment
  <2>4. (IF capacity = 0 THEN TRUE ELSE f.unread) \in BOOLEAN
    BY <2>3, Zenon
  <2> QED
    BY <1>2, <2>2, <2>4 DEF Battery, Experiment
<1>5. /\ g.energy = g.energy_last - g.from /\ g.energy_last = meter
      /\ g.from <= meter /\ g.from = e.from
      /\ g.kflops = e.kflops /\ g.run = e.run /\ g.ended = e.ended
  BY <1>2, <1>3 DEF Battery, Experiment
<1>6. ~g.unread => /\ g.bat_diff = g.first - g.bat_last
                   /\ g.first = 0 <=> g.bat_last = 0
  <2>1. /\ g.bat_diff = f.bat_diff + (LastCapacity(f, capacity) - capacity)
        /\ g.bat_last = capacity
        /\ g.first = IF f.first = 0 THEN capacity ELSE f.first
        /\ g.unread = IF capacity = 0 THEN TRUE ELSE f.unread
    BY <1>2 DEF Battery, Experiment
  <2>2. SUFFICES ASSUME ~g.unread
                 PROVE  /\ g.bat_diff = g.first - g.bat_last
                        /\ g.first = 0 <=> g.bat_last = 0
    OBVIOUS
  <2>3. capacity # 0 /\ ~f.unread
    BY <2>1, <2>2
  <2>4. /\ f.bat_diff = f.first - f.bat_last /\ (f.first = 0 <=> f.bat_last = 0)
        /\ f.first \in Nat /\ f.bat_last \in Nat
    BY <1>2, <1>3, <2>3 DEF Sound, Experiment
  <2> QED
    BY <2>1, <2>3, <2>4 DEF LastCapacity
<1> HIDE DEF g
<1>7. Sound(g, meter)
  BY <1>5, <1>6 DEF Sound
<1> QED
  BY <1>3, <1>4, <1>5, <1>7 DEF g, f

----------------------------------------------------------------------------
\* An empty slot has the type of an experiment.
LEMMA NoExperimentType == NoExperiment \in Experiment
<1> QED
  BY ExperimentAssumption DEF NoExperiment, Experiment

\* The server starts with no experiment.
LEMMA InitInv == Init => Inv
<1> SUFFICES ASSUME Init PROVE Inv
  OBVIOUS
<1>1. /\ meter = 0 /\ num_experiments = 0 /\ cur_experiment = 0
      /\ experiments = [i \in Index |-> NoExperiment]
      /\ client = "ready" /\ runs = 0 /\ samples = 0
  BY DEF Init
<1>3. TypeOK
  BY <1>1, NoExperimentType, ExperimentAssumption DEF TypeOK
<1>4. Started = {}
  BY <1>1 DEF Started
<1> QED
  BY <1>1, <1>3, <1>4 DEF Inv, AllSound, Ordered, Current

\* What the meter adds belongs to no account yet.
LEMMA MeasureInv ==
  ASSUME Inv, Measure
  PROVE  Inv'
<1>1. /\ meter' = meter + 1 /\ meter \in Nat
      /\ UNCHANGED <<num_experiments, experiments, cur_experiment, client, runs,
                     samples>>
  BY DEF Measure, Inv, TypeOK
<1>2. TypeOK'
  BY <1>1 DEF Inv, TypeOK
<1>3. AllSound'
  <2> SUFFICES ASSUME NEW i \in Started PROVE Sound(experiments[i], meter')
    BY <1>1 DEF AllSound, Started
  <2>1. Sound(experiments[i], meter) /\ experiments[i] \in Experiment
    <3>1. i \in Index
      BY ExperimentAssumption DEF Inv, TypeOK, Started, Index
    <3> QED
      BY <3>1 DEF Inv, TypeOK, AllSound
  <2>2. experiments[i].energy_last \in Nat
    BY <2>1 DEF Experiment
  <2> QED
    BY <1>1, <2>1, <2>2 DEF Sound
<1>4. Ordered' /\ Current'
  BY <1>1 DEF Inv, Ordered, Current, Started
<1> QED
  BY <1>2, <1>3, <1>4 DEF Inv

\* A new experiment begins where no account before it can reach.
LEMMA StartInv ==
  ASSUME Inv, Start
  PROVE  Inv'
<1>1. /\ client = "ready" /\ runs < MaxRuns /\ client' = "running"
      /\ runs' = runs + 1 /\ meter' = meter /\ samples' = samples
      /\ host_start_experiment
  BY DEF Start
<1>2. /\ cur_experiment = 0
      /\ meter \in Nat /\ runs \in 0 .. MaxRuns /\ samples \in 0 .. MaxSamples
      /\ num_experiments \in 0 .. MAX_EXPERIMENTS
      /\ experiments \in [Index -> Experiment]
      /\ MAX_EXPERIMENTS \in Nat /\ MaxRuns \in Nat
  BY <1>1, ExperimentAssumption DEF Inv, TypeOK, Current
<1>3. CASE UNCHANGED <<num_experiments, experiments, cur_experiment>>
  <2>1. TypeOK'
    BY <1>1, <1>2, <1>3 DEF TypeOK, Inv
  <2>2. AllSound' /\ Ordered' /\ Current'
    BY <1>1, <1>2, <1>3 DEF Inv, AllSound, Ordered, Current, Started
  <2> QED
    BY <2>1, <2>2 DEF Inv
<1>4. CASE /\ num_experiments < MAX_EXPERIMENTS
           /\ num_experiments' = num_experiments + 1
           /\ experiments' = [experiments EXCEPT ![num_experiments'] = NewExperiment]
           /\ cur_experiment' = num_experiments'
  <2>1. /\ NewExperiment.run = runs + 1 /\ NewExperiment.kflops = 0
        /\ ~NewExperiment.ended
        /\ NewExperiment.from = meter /\ NewExperiment.energy_last = meter
        /\ NewExperiment.energy = 0
        /\ NewExperiment.bat_diff = 0 /\ NewExperiment.first = 0
        /\ NewExperiment.bat_last = 0
    BY DEF NewExperiment, NoExperiment
  <2>2. NewExperiment \in Experiment
    <3>1. runs + 1 \in 1 .. MaxRuns
      BY <1>1, <1>2
    <3> QED
      BY <1>2, <3>1, NoExperimentType DEF NewExperiment, Experiment
  <2>3. /\ num_experiments' \in Index /\ num_experiments' = num_experiments + 1
        /\ experiments' \in [Index -> Experiment]
        /\ experiments'[num_experiments'] = NewExperiment
        /\ \A i \in Started : i \in Index /\ experiments'[i] = experiments[i]
    BY <1>2, <1>4, <2>2 DEF Index, Started
  <2>4. Started' = Started \cup {num_experiments'} /\ num_experiments' \notin Started
    BY <1>2, <1>4 DEF Started
  <2>5. TypeOK'
    BY <1>1, <1>2, <1>4, <2>3 DEF TypeOK, Index
  <2>6. Sound(NewExperiment, meter)
    BY <1>2, <2>1 DEF Sound
  <2>7. AllSound'
    BY <1>1, <2>3, <2>4, <2>6 DEF AllSound, Inv
  <2>8. Ordered'
    <3> SUFFICES ASSUME NEW i \in Started', i < num_experiments'
                 PROVE  experiments'[i].energy_last <= experiments'[i + 1].from
      BY DEF Ordered
    <3>1. i \in Started /\ i \in Nat /\ num_experiments \in Nat
      BY <1>2, <1>4 DEF Started
    <3>2. CASE i < num_experiments
      <4>1. i + 1 \in Started
        BY <3>1, <3>2 DEF Started
      <4> QED
        BY <2>3, <3>1, <3>2, <4>1 DEF Inv, Ordered
    <3>3. CASE i = num_experiments
      <4>1. experiments'[i + 1].from = meter
        BY <1>4, <2>1, <2>3, <3>3
      <4>2. experiments'[i].energy_last <= meter
        BY <2>3, <3>1 DEF Inv, AllSound, Sound
      <4> QED
        BY <4>1, <4>2
    <3> QED
      BY <1>4, <3>1, <3>2, <3>3
  <2>9. Current'
    <3>1. \A i \in Started' : experiments'[i].ended \/ i = cur_experiment'
      BY <1>2, <1>4, <2>3, <2>4 DEF Inv, Current, Started
    <3>2. ~NewExperiment.ended /\ NewExperiment.run = runs + 1
      BY <2>1
    <3> QED
      BY <1>1, <1>4, <2>3, <3>1, <3>2 DEF Current
  <2> QED
    BY <2>5, <2>7, <2>8, <2>9 DEF Inv
<1> QED
  BY <1>1, <1>3, <1>4 DEF host_start_experiment

\* Stopping changes no account.
LEMMA StopInv ==
  ASSUME Inv, Stop
  PROVE  Inv'
<1>1. /\ client' = "ready" /\ UNCHANGED <<meter, runs, samples, num_experiments>>
      /\ cur_experiment' = 0
      /\ experiments' = [i \in Index |->
           IF i = cur_experiment THEN [experiments[i] EXCEPT !.ended = TRUE]
           ELSE experiments[i]]
  BY DEF Stop, host_stop_experiment
<1>2. /\ experiments \in [Index -> Experiment]
      /\ num_experiments \in 0 .. MAX_EXPERIMENTS /\ MAX_EXPERIMENTS \in Nat
      /\ \A i \in Started : i \in Index
  BY ExperimentAssumption DEF Inv, TypeOK, Started, Index
<1>3. experiments' \in [Index -> Experiment] /\ AllSound' /\ Ordered'
  <2>1. CASE cur_experiment = 0
    <3>1. experiments' = experiments
      BY <1>1, <1>2, <2>1 DEF Index
    <3> QED
      BY <1>1, <1>2, <3>1 DEF Inv, AllSound, Ordered, Started
  <2>2. CASE cur_experiment # 0
    <3> DEFINE old == experiments[cur_experiment]
               e == [old EXCEPT !.ended = TRUE]
    <3>1. old \in Experiment /\ Sound(old, meter)
      BY <2>2, CurrentTypes
    <3>2. e \in Experiment /\ Sound(e, meter) /\ e.from = old.from
      BY <3>1 DEF Experiment, Sound
    <3>3. Replaces(e, cur_experiment)
      BY <1>1 DEF Replaces
    <3> HIDE DEF e
    <3> QED
      BY <2>2, <3>2, <3>3, ReplaceCurrent
  <2> QED
    BY <2>1, <2>2
<1>4. TypeOK'
  BY <1>1, <1>2, <1>3 DEF Inv, TypeOK
<1>5. Current'
  <2> SUFFICES ASSUME NEW i \in Started PROVE experiments'[i].ended
    BY <1>1 DEF Current, Started
  <2>1. i \in Index /\ experiments[i] \in Experiment
    BY <1>2
  <2>2. CASE i = cur_experiment
    BY <1>1, <2>1, <2>2 DEF Experiment
  <2>3. CASE i # cur_experiment
    BY <1>1, <2>1, <2>3 DEF Inv, Current
  <2> QED
    BY <2>2, <2>3
<1> QED
  BY <1>3, <1>4, <1>5 DEF Inv

\* kflops go to the client's run only.
LEMMA RateInv ==
  ASSUME Inv, Rate
  PROVE  Inv'
<1>1. /\ client' = "rated"
      /\ UNCHANGED <<meter, runs, samples, num_experiments, cur_experiment>>
      /\ experiments' = [i \in Index |->
           IF i = cur_experiment THEN [experiments[i] EXCEPT !.kflops = runs]
           ELSE experiments[i]]
  BY DEF Rate, set_kflops
<1>2. /\ experiments \in [Index -> Experiment]
      /\ num_experiments \in 0 .. MAX_EXPERIMENTS /\ MAX_EXPERIMENTS \in Nat
      /\ runs \in 0 .. MaxRuns /\ MaxRuns \in Nat
  BY ExperimentAssumption DEF Inv, TypeOK
<1>3. CASE cur_experiment = 0
  <2>1. experiments' = experiments
    BY <1>1, <1>2, <1>3 DEF Index
  <2>2. TypeOK'
    BY <1>1, <2>1 DEF Inv, TypeOK
  <2>3. AllSound' /\ Ordered' /\ Current'
    BY <1>1, <1>3, <2>1 DEF Inv, AllSound, Ordered, Current, Started
  <2> QED
    BY <2>2, <2>3 DEF Inv
<1>4. CASE cur_experiment # 0
  <2> DEFINE old == experiments[cur_experiment]
             e == [old EXCEPT !.kflops = runs]
  <2>1. old \in Experiment /\ Sound(old, meter) /\ old.run = runs /\ ~old.ended
    BY <1>4, CurrentTypes DEF Inv, Current
  <2>2. e \in Experiment /\ Sound(e, meter) /\ e.from = old.from
        /\ e.run = runs /\ ~e.ended
    BY <1>2, <2>1 DEF Experiment, Sound
  <2>3. Replaces(e, cur_experiment)
    BY <1>1 DEF Replaces
  <2>4. experiments'[cur_experiment] = e
    BY <1>1, <1>4, CurrentTypes
  <2> HIDE DEF e
  <2>5. experiments' \in [Index -> Experiment] /\ AllSound' /\ Ordered'
    BY <1>4, <2>2, <2>3, ReplaceCurrent
  <2>6. TypeOK'
    BY <1>1, <2>5 DEF Inv, TypeOK
  <2>7. Current'
    BY <1>1, <1>4, <2>2, <2>3, <2>4, OthersStay DEF Inv, Current, Started
  <2> QED
    BY <2>5, <2>6, <2>7 DEF Inv
<1> QED
  BY <1>3, <1>4

\* The client's experiment thread is gone; its experiment goes on.
LEMMA FailInv ==
  ASSUME Inv, Fail
  PROVE  Inv'
<1>1. /\ client = "running" /\ client' = "gone"
      /\ UNCHANGED <<meter, num_experiments, experiments, cur_experiment, runs,
                     samples>>
  BY DEF Fail
<1> QED
  BY <1>1 DEF Inv, TypeOK, AllSound, Ordered, Current, Started

\* A sample's energy reaches from the last sample to this one.
LEMMA SampleInv ==
  ASSUME Inv, NEW load \in Load, NEW capacity \in Capacity, Sample(load, capacity)
  PROVE  Inv'
<1> DEFINE Updated(e) == Battery(Energy(e, load), capacity)
<1>1. /\ samples < MaxSamples /\ samples' = samples + 1
      /\ UNCHANGED <<meter, client, runs, num_experiments, cur_experiment>>
      /\ experiments' = [i \in Index |->
           IF i = cur_experiment THEN Updated(experiments[i]) ELSE experiments[i]]
  BY DEF Sample, host_experiment_update
<1>2. /\ experiments \in [Index -> Experiment]
      /\ num_experiments \in 0 .. MAX_EXPERIMENTS /\ MAX_EXPERIMENTS \in Nat
      /\ meter \in Nat /\ capacity \in Nat /\ load \in [Part -> 0 .. 100]
      /\ samples \in 0 .. MaxSamples /\ MaxSamples \in Nat
  BY ExperimentAssumption DEF Inv, TypeOK
<1>3. CASE cur_experiment = 0
  <2>1. \A i \in Index : i # cur_experiment
    BY <1>3 DEF Index
  <2> HIDE DEF Updated
  <2>2. experiments' = experiments
    BY <1>1, <1>2, <2>1
  <2>3. TypeOK'
    BY <1>1, <1>2, <2>2 DEF Inv, TypeOK
  <2>4. AllSound' /\ Ordered' /\ Current'
    BY <1>1, <1>3, <2>2 DEF Inv, AllSound, Ordered, Current, Started
  <2> QED
    BY <2>3, <2>4 DEF Inv
<1>4. CASE cur_experiment # 0
  <2> DEFINE old == experiments[cur_experiment]
             e == Updated(old)
  <2>1. old \in Experiment /\ Sound(old, meter) /\ old.run = runs /\ ~old.ended
    BY <1>4, CurrentTypes DEF Inv, Current
  <2>2. e \in Experiment /\ Sound(e, meter) /\ e.from = old.from
        /\ e.run = runs /\ ~e.ended
    BY <1>2, <2>1, UpdateSound
  <2>3. experiments'[cur_experiment] = e
    BY <1>1, <1>4, CurrentTypes
  <2>4. Replaces(e, cur_experiment)
    BY <1>1 DEF Replaces
  <2> HIDE DEF e
  <2>5. experiments' \in [Index -> Experiment] /\ AllSound' /\ Ordered'
    BY <1>4, <2>2, <2>4, ReplaceCurrent
  <2>6. TypeOK'
    BY <1>1, <1>2, <2>5 DEF Inv, TypeOK
  <2>7. Current'
    BY <1>1, <1>4, <2>2, <2>3, <2>4, OthersStay DEF Inv, Current, Started
  <2> QED
    BY <2>5, <2>6, <2>7 DEF Inv
<1> QED
  BY <1>3, <1>4

----------------------------------------------------------------------------
\* Every message of the client and every report of the meter keeps the
\* invariant.
LEMMA NextInv == Inv /\ [Next]_vars => Inv'
<1> SUFFICES ASSUME Inv, [Next]_vars PROVE Inv'
  OBVIOUS
<1>1. CASE Measure
  BY <1>1, MeasureInv
<1>2. CASE Start
  BY <1>2, StartInv
<1>3. CASE Rate
  BY <1>3, RateInv
<1>4. CASE Stop
  BY <1>4, StopInv
<1>5. CASE Fail
  BY <1>5, FailInv
<1>6. CASE \E load \in Load, capacity \in Capacity : Sample(load, capacity)
  BY <1>6, SampleInv
<1>7. CASE UNCHANGED vars
  BY <1>7 DEF vars, Inv, TypeOK, AllSound, Ordered, Current, Started
<1> QED
  BY <1>1, <1>2, <1>3, <1>4, <1>5, <1>6, <1>7 DEF Next

\* The invariant holds at all times.
THEOREM Invariance == Spec => []Inv
<1> QED
  BY InitInv, NextInv, PTL DEF Spec

\* The slots of the host hold experiments, and cur_experiment is one of them.
THEOREM TypeCorrect == Spec => []TypeOK
<1>1. Inv => TypeOK
  BY DEF Inv
<1> QED
  BY <1>1, Invariance, PTL

\* No Joule of the meter is in two accounts, or twice in one
\* (host_experiment_update).
THEOREM NothingCountedTwice == Spec => []EnergyCountedOnce
<1>1. Inv => EnergyCountedOnce
  BY DEF Inv, AllSound, Ordered, Sound, EnergyCountedOnce
<1> QED
  BY <1>1, Invariance, PTL

\* No run is credited with the kflops of another one (host_experiment_set).
THEOREM NoForeignKflops == Spec => []KflopsOfOwnRun
<1>1. Inv => KflopsOfOwnRun
  BY DEF Inv, AllSound, Sound, KflopsOfOwnRun
<1> QED
  BY <1>1, Invariance, PTL

\* The battery's account is the difference of two capacities as long as each
\* was known (host_experiment_update).
THEOREM BatteryAccount == Spec => []BatteryIsDifference
<1>1. Inv => BatteryIsDifference
  BY DEF Inv, AllSound, Sound, BatteryIsDifference
<1> QED
  BY <1>1, Invariance, PTL

\* The server collects for the client's own run or for none
\* (host_start_experiment, host_stop_experiment).
THEOREM CollectsForLastRun == Spec => []OnlyLastRuns
<1>1. Inv => OnlyLastRuns
  BY DEF Inv, Current, OnlyLastRuns
<1> QED
  BY <1>1, Invariance, PTL

\* A stopped experiment is not the current one.
LEMMA EndedIsNotCurrent ==
  ASSUME Inv, NEW i \in Started, experiments[i].ended
  PROVE  i # cur_experiment /\ i \in Index /\ i # num_experiments + 1
<1>1. i \in Index /\ i # 0 /\ i # num_experiments + 1
  BY ExperimentAssumption DEF Inv, TypeOK, Started, Index
<1> QED
  BY <1>1 DEF Inv, Current

\* No message changes an experiment that was stopped.
THEOREM StoppedStays == Spec => StoppedIsFrozen
<1> DEFINE Frozen == \A i \in Started :
                       experiments[i].ended => experiments'[i] = experiments[i]
<1>1. ASSUME Inv, [Next]_vars PROVE Frozen
  <2> SUFFICES ASSUME NEW i \in Started, experiments[i].ended
               PROVE  experiments'[i] = experiments[i]
    OBVIOUS
  <2>1. i # cur_experiment /\ i \in Index /\ i # num_experiments + 1
    BY <1>1, EndedIsNotCurrent
  <2>2. experiments \in [Index -> Experiment]
    BY <1>1 DEF Inv, TypeOK
  <2>3. CASE Start
    BY <2>1, <2>2, <2>3 DEF Start, host_start_experiment
  <2>4. CASE Rate
    BY <2>1, <2>4 DEF Rate, set_kflops
  <2>5. CASE Stop
    BY <2>1, <2>5 DEF Stop, host_stop_experiment
  <2>6. CASE \E load \in Load, capacity \in Capacity : Sample(load, capacity)
    BY <2>1, <2>6 DEF Sample, host_experiment_update
  <2>7. CASE Measure \/ Fail \/ UNCHANGED vars
    BY <2>7 DEF Measure, Fail, vars
  <2> QED
    BY <1>1, <2>3, <2>4, <2>5, <2>6, <2>7 DEF Next
<1>2. Inv /\ [Next]_vars => [Frozen]_vars
  BY <1>1
<1> HIDE DEF Frozen
<1>3. Spec => [][Frozen]_vars
  BY <1>2, Invariance, PTL DEF Spec
<1> QED
  BY <1>3 DEF StoppedIsFrozen, Frozen

----------------------------------------------------------------------------
(***************************************************************************)
(* The viewers, for any number of them and of hosts.  While no two threads *)
(* are where one should be, who is in the table owns its connection, but   *)
(* for the one that a host's thread is deleting (Calm).                    *)
(***************************************************************************)
\* A connection has one descriptor at most, and none before it was made.
Connections ==
  /\ \A m, n \in V!FD : open[m] = open[n] /\ open[m] # V!Closed => m = n
  /\ \A n \in V!FD : open[n] \in V!Viewer => peer[open[n]] # "away"
  /\ \A n \in V!FD : open[n] \in Host => host[open[n]].pc # "away"

\* The thread of a host is at a viewer.
AtViewer(h) == host[h].pc \in {"send", "close", "free", "forget"}
Places == \A h \in Host : AtViewer(h) => host[h].i < MAX_VIEWERS /\ host[h].v \in V!Viewer

\* A viewer that nobody has begun to delete.
Owned(v) == ~viewer[v].freed /\ viewer[v].socket \in V!FD /\ open[viewer[v].socket] = v
Deletes(h) == host[h].pc \in {"free", "forget"}

\* One thread at most is at the viewers, ...
OneSender ==
  /\ \A g, h \in Host : V!Sends(g) /\ V!Sends(h) => g = h
  /\ server = "clear" => \A h \in Host : ~V!Sends(h)

\* ... the threads of the hosts have their own connection, ...
HostsOwn ==
  \A h \in Host :
    /\ host[h].pc = "idle" \/ V!Sends(h) =>
         host[h].socket \in V!FD /\ open[host[h].socket] = h
    /\ V!Closing(h) => host[h].socket \in V!FD /\ open[host[h].socket] = V!Closed

\* ... the table has viewers that can be sent to, but for the one that is being
\* deleted, ...
TableOwns ==
  \A i \in V!Index : _viewers[i] # V!NULL =>
    /\ i < _viewers_count
    /\ peer[_viewers[i]] # "away"
    /\ \A j \in V!Index : _viewers[j] = _viewers[i] => j = i
    /\ \/ Owned(_viewers[i])
       \/ \E h \in Host : Deletes(h) /\ host[h].i = i

\* ... and the buffer and the place are those of the thread at the viewers.
SenderOwns ==
  \A h \in Host :
    /\ V!Sends(h) /\ host[h].pc # "write" => csv_viewer_msg = h
    /\ AtViewer(h) => _viewers[host[h].i] = host[h].v
    /\ host[h].pc \in {"send", "close"} => Owned(host[h].v)
    /\ host[h].pc = "free" => viewer[host[h].v].socket = -1 /\ ~viewer[host[h].v].freed

\* What is not yet connected was not freed.
Fresh == \A v \in V!Viewer : peer[v] = "away" => ~viewer[v].freed

Calm == /\ OneSender /\ HostsOwn /\ TableOwns /\ SenderOwns /\ Fresh
        /\ fate \in {"up", "killed"} /\ ~misdirected

ViewersInv == V!TypeOK /\ Connections /\ Places /\ (~overlap => Calm)

----------------------------------------------------------------------------
(***************************************************************************)
(* The system's descriptors.                                               *)
(***************************************************************************)
\* Viewers and FiniteSets count in the same way.
LEMMA SameCardinality == V!Cardinality(Host) = Cardinality(Host)
BY Zenon DEF V!Cardinality, Cardinality

\* The bounds are numbers, and hosts, viewers and what else is in their place differ.
LEMMA ViewerLimits ==
  /\ IsFiniteSet(Host) /\ Cardinality(Host) \in Nat
  /\ MAX_VIEWERS \in Nat /\ MaxViewers \in Nat /\ MaxUpdates \in Nat
  /\ \A h \in Host : h \notin V!Viewer /\ h # V!Closed /\ h # V!NULL /\ h # "empty" /\ h # "cut"
  /\ \A v \in V!Viewer : v \in Int /\ v # V!NULL /\ v # V!Closed
  /\ V!Closed \notin Host /\ V!Closed \notin V!Viewer
<1>1. IsFiniteSet(Host) /\ MAX_VIEWERS \in Nat /\ MaxViewers \in Nat /\ MaxUpdates \in Nat
  BY HostsAssumption DEF V!ViewersAssumption, V!IsFiniteSet, IsFiniteSet
<1>2. Cardinality(Host) \in Nat
  BY <1>1, FS_CardinalityType
<1>3. \A x \in 0 .. MaxViewers : x \notin Host
  BY HostsAssumption, Zenon DEF V!ViewersAssumption
<1>4. \A h \in Host : h # "empty" /\ h # "cut"
  BY HostsAssumption, Zenon DEF V!ViewersAssumption
<1>5. \A h \in Host : h \notin V!Viewer /\ h # V!Closed /\ h # V!NULL
  BY <1>1, <1>3 DEF V!Viewer, V!Closed, V!NULL
<1>6. \A v \in V!Viewer : v \in Int /\ v # V!NULL /\ v # V!Closed
  BY <1>1 DEF V!Viewer, V!Closed, V!NULL
<1>7. QED
  BY <1>1, <1>2, <1>4, <1>5, <1>6

\* A set of numbers has a least one.
LEMMA Least ==
  ASSUME NEW S, S \subseteq Nat, S # {}
  PROVE  \E x \in S : \A y \in S : x <= y
<1>1. \E x \in S : \A y \in S : ~(<<y, x>> \in OpToRel(<, Nat))
  BY WFMin, NatLessThanWellFounded, Zenon
<1>2. \A x, y \in S : ~(<<y, x>> \in OpToRel(<, Nat)) => ~(y < x)
  BY DEF OpToRel
<1>3. \A x, y \in S : ~(y < x) => x <= y
  OBVIOUS
<1>4. QED
  BY <1>1, <1>2, <1>3, Zenon

\* There are more descriptors than connections: one is always free.
LEMMA SomeFree ==
  ASSUME V!TypeOK, Connections
  PROVE  \E n \in V!FD : open[n] = V!Closed
<1> SUFFICES ASSUME \A n \in V!FD : open[n] # V!Closed
             PROVE  FALSE
  OBVIOUS
<1> DEFINE T == Host \cup V!Viewer
<1>1. open \in Injection(V!FD, T)
  <2>1. open \in [V!FD -> T]
    BY DEF V!TypeOK
  <2>2. \A m, n \in V!FD : open[m] = open[n] => m = n
    BY DEF Connections
  <2>3. QED
    BY <2>1, <2>2 DEF Injection, IsInjective
<1>2. IsFiniteSet(V!Viewer) /\ Cardinality(V!Viewer) = MaxViewers
  BY ViewerLimits, FS_Interval DEF V!Viewer
<1>3. /\ IsFiniteSet(T) /\ Cardinality(T) \in Nat
      /\ Cardinality(T) <= Cardinality(Host) + MaxViewers
  <2>1. /\ IsFiniteSet(T)
        /\ Cardinality(T) = Cardinality(Host) + MaxViewers - Cardinality(Host \cap V!Viewer)
    BY <1>2, ViewerLimits, FS_Union
  <2>2. IsFiniteSet(Host \cap V!Viewer)
    BY <1>2, FS_Subset
  <2>3. Cardinality(Host \cap V!Viewer) \in Nat /\ Cardinality(T) \in Nat
    BY <2>1, <2>2, FS_CardinalityType
  <2>4. QED
    BY <2>1, <2>3, ViewerLimits
<1>4. Cardinality(V!FD) = MaxViewers + Cardinality(Host) + 1
  <2> DEFINE k == MaxViewers + Cardinality(Host) + 1
  <2>1. k \in Int /\ k >= 1 /\ V!FD = 1 .. k
    BY ViewerLimits, SameCardinality DEF V!FD
  <2> HIDE DEF k
  <2>2. Cardinality(1 .. k) = IF 1 > k THEN 0 ELSE k - 1 + 1
    BY <2>1, FS_Interval
  <2>3. Cardinality(V!FD) = k
    BY <2>1, <2>2
  <2>4. QED
    BY <2>3 DEF k
<1>5. Cardinality(V!FD) <= Cardinality(T)
  BY <1>1, <1>3, FS_Injection
<1>6. QED
  BY <1>3, <1>4, <1>5, ViewerLimits

LEMMA FreeFDIs ==
  ASSUME V!TypeOK, Connections
  PROVE  V!FreeFD \in V!FD /\ open[V!FreeFD] = V!Closed
<1> DEFINE S == {n \in V!FD : open[n] = V!Closed}
<1>1. S \subseteq Nat /\ S # {}
  BY SomeFree DEF V!FD
<1>2. \E x \in S : \A y \in S : x <= y
  BY <1>1, Least
<1>3. V!FreeFD \in S
  BY <1>2 DEF V!FreeFD, V!Min
<1>4. QED
  BY <1>3

----------------------------------------------------------------------------
(***************************************************************************)
(* What a thread of a host does to its variables.                          *)
(***************************************************************************)
HostType ==
  [pc : V!HostPC, socket : V!FD \cup {-1}, i : 0 .. MAX_VIEWERS,
   v : V!Viewer \cup {V!NULL}, updates : 0 .. MaxUpdates]

\* Only the thread of h moves.
Moves(h) ==
  /\ host' \in [Host -> HostType]
  /\ \A g \in Host : g # h => host'[g] = host[g]

LEMMA GotoIs ==
  ASSUME V!TypeOK, NEW h \in Host, NEW p \in V!HostPC, V!Goto(h, p)
  PROVE  /\ Moves(h) /\ host'[h].pc = p
         /\ host'[h].i = host[h].i /\ host'[h].v = host[h].v
         /\ host'[h].socket = host[h].socket
BY DEF V!TypeOK, V!Goto, Moves, HostType

LEMMA NextViewerIs ==
  ASSUME V!TypeOK, NEW h \in Host, host[h].i < MAX_VIEWERS, V!NextViewer(h)
  PROVE  /\ Moves(h) /\ host'[h].pc = "look"
         /\ host'[h].i = host[h].i + 1
         /\ host'[h].socket = host[h].socket
<1>1. host[h] \in HostType /\ host \in [Host -> HostType]
  BY DEF V!TypeOK, HostType
<1>2. /\ host[h].i + 1 \in 0 .. MAX_VIEWERS
      /\ "look" \in V!HostPC
  BY <1>1, ViewerLimits DEF HostType, V!HostPC
<1>3. host' = [host EXCEPT ![h] = [pc |-> "look", socket |-> host[h].socket,
                                   i |-> host[h].i + 1, v |-> V!NULL,
                                   updates |-> host[h].updates]]
  BY <1>1 DEF V!NextViewer, HostType
<1>4. QED
  BY <1>1, <1>2, <1>3 DEF Moves, HostType

LEMMA ViewerTypes ==
  ASSUME V!TypeOK
  PROVE  /\ open \in [V!FD -> Host \cup V!Viewer \cup {V!Closed}]
         /\ peer \in [V!Viewer -> {"away", "connected", "gone"}]
         /\ viewer \in [V!Viewer -> [socket : V!FD \cup {-1}, freed : BOOLEAN]]
         /\ _viewers \in [V!Index -> V!Viewer \cup {V!NULL}]
         /\ _viewers_count \in Nat /\ _viewers_count <= MAX_VIEWERS
         /\ c \in Nat /\ c <= MAX_VIEWERS
         /\ host \in [Host -> HostType]
         /\ \A h \in Host :
              /\ host[h].socket \in V!FD \cup {-1} /\ host[h].v \in V!Viewer \cup {V!NULL}
              /\ host[h].i \in Nat /\ host[h].i <= MAX_VIEWERS
         /\ \A n \in V!FD : n \in Nat /\ n # -1
BY ViewerLimits DEF V!TypeOK, HostType, V!FD

----------------------------------------------------------------------------
(***************************************************************************)
(* How the descriptors change.                                             *)
(***************************************************************************)
\* A descriptor of connection x is opened: the first that is free.
Opens(x) == open' = [open EXCEPT ![V!FreeFD] = x]

LEMMA OpensIs ==
  ASSUME V!TypeOK, Connections, NEW x \in Host \cup V!Viewer, Opens(x),
         \A n \in V!FD : open[n] # x
  PROVE  /\ open' \in [V!FD -> Host \cup V!Viewer \cup {V!Closed}]
         /\ V!FreeFD \in V!FD /\ open[V!FreeFD] = V!Closed /\ open'[V!FreeFD] = x
         /\ \A n \in V!FD : open[n] # V!Closed => open'[n] = open[n]
         /\ \A n \in V!FD : n # V!FreeFD => open'[n] = open[n]
         /\ \A m, n \in V!FD : open'[m] = open'[n] /\ open'[m] # V!Closed => m = n
<1>1. V!FreeFD \in V!FD /\ open[V!FreeFD] = V!Closed
  BY FreeFDIs
<1> HIDE DEF V!FreeFD
<1>2. \A n \in V!FD : open'[n] = IF n = V!FreeFD THEN x ELSE open[n]
  BY <1>1, ViewerTypes DEF Opens
<1>3. open' \in [V!FD -> Host \cup V!Viewer \cup {V!Closed}]
  BY <1>1, ViewerTypes DEF Opens
<1>4. \A m, n \in V!FD : open'[m] = open'[n] /\ open'[m] # V!Closed => m = n
  BY <1>1, <1>2 DEF Connections
<1>5. QED
  BY <1>1, <1>2, <1>3, <1>4

LEMMA ClosedIs ==
  ASSUME V!TypeOK, NEW n \in V!FD \cup {-1}, open' = V!ClosedFD(n)
  PROVE  /\ open' \in [V!FD -> Host \cup V!Viewer \cup {V!Closed}]
         /\ \A m \in V!FD : m # n => open'[m] = open[m]
         /\ \A m \in V!FD : open'[m] \in {open[m], V!Closed}
         /\ n # -1 => open'[n] = V!Closed
BY ViewerTypes DEF V!ClosedFD

\* Connections are closed, and what is connected stays so.
LEMMA ConnectionsStay ==
  ASSUME V!TypeOK, Connections,
         \A n \in V!FD : open'[n] \in {open[n], V!Closed},
         \A v \in V!Viewer : peer[v] # "away" => peer'[v] # "away",
         \A h \in Host : host[h].pc # "away" => host'[h].pc # "away"
  PROVE  Connections'
<1>1. \A x \in Host \cup V!Viewer : x # V!Closed
  BY ViewerLimits
<1>2. \A m, n \in V!FD : open'[m] = open'[n] /\ open'[m] # V!Closed => m = n
  BY DEF Connections
<1>3. \A n \in V!FD : open'[n] \in V!Viewer => peer'[open'[n]] # "away"
  BY <1>1 DEF Connections
<1>4. \A n \in V!FD : open'[n] \in Host => host'[open'[n]].pc # "away"
  BY <1>1 DEF Connections
<1>5. QED
  BY <1>2, <1>3, <1>4 DEF Connections

LEMMA PlacesStay ==
  ASSUME V!TypeOK, Places, NEW h \in Host, Moves(h),
         AtViewer(h)' => host'[h].i < MAX_VIEWERS /\ host'[h].v \in V!Viewer
  PROVE  Places'
BY DEF Places, Moves, AtViewer

\* The types of what a thread of a host changes.
HostStep(h) ==
  /\ host[h].pc # "away" /\ host'[h].pc # "away" /\ Moves(h)
  /\ UNCHANGED <<peer, _viewers_count, V!serverVars>>

LEMMA HostStepType ==
  ASSUME V!TypeOK, NEW h \in Host, HostStep(h),
         open' \in [V!FD -> Host \cup V!Viewer \cup {V!Closed}],
         viewer' \in [V!Viewer -> [socket : V!FD \cup {-1}, freed : BOOLEAN]],
         _viewers' \in [V!Index -> V!Viewer \cup {V!NULL}],
         csv_viewer_msg' \in Host \cup {"empty", "cut"},
         fate' \in {"up", "killed", "freed_memory", "freed_twice"},
         overlap' \in BOOLEAN, misdirected' \in BOOLEAN
  PROVE  V!TypeOK'
<1>1. host' \in [Host -> HostType]
  BY DEF HostStep, Moves
<1>2. /\ peer' = peer /\ _viewers_count' = _viewers_count
      /\ run' = run /\ server' = server /\ c' = c
  BY DEF HostStep, V!serverVars
<1>3. /\ peer' \in [V!Viewer -> {"away", "connected", "gone"}]
      /\ _viewers_count' \in 0 .. MAX_VIEWERS
      /\ run' \in BOOLEAN /\ server' \in {"accept", "clear", "ended"}
      /\ c' \in 0 .. MAX_VIEWERS
  BY <1>2 DEF V!TypeOK
<1>4. QED
  BY <1>1, <1>3, Zenon DEF V!TypeOK, HostType

----------------------------------------------------------------------------
(***************************************************************************)
(* Every step keeps the types, the connections and the places.             *)
(***************************************************************************)
Basic == V!TypeOK /\ Connections /\ Places

LEMMA AcceptBasic ==
  ASSUME Basic, NEW v \in V!Viewer, V!viewer_server_run(v)
  PROVE  /\ Basic'
         /\ \A n \in V!FD : open[n] # v
         /\ Opens(v) /\ V!viewers_add(v) /\ peer' = [peer EXCEPT ![v] = "connected"]
         /\ server' = IF run THEN "accept" ELSE "clear"
<1>1. /\ \A n \in V!FD : open[n] # v
      /\ Opens(v) /\ V!viewers_add(v) /\ peer' = [peer EXCEPT ![v] = "connected"]
      /\ server' = IF run THEN "accept" ELSE "clear"
  BY DEF Basic, Connections, V!viewer_server_run, Opens
<1>2. /\ open' \in [V!FD -> Host \cup V!Viewer \cup {V!Closed}]
      /\ V!FreeFD \in V!FD /\ open[V!FreeFD] = V!Closed /\ open'[V!FreeFD] = v
      /\ \A n \in V!FD : n # V!FreeFD => open'[n] = open[n]
      /\ \A m, n \in V!FD : open'[m] = open'[n] /\ open'[m] # V!Closed => m = n
  BY <1>1, OpensIs DEF Basic
<1> HIDE DEF V!FreeFD
<1>3. /\ host' = host /\ run' = run /\ c' = c /\ csv_viewer_msg' = csv_viewer_msg
      /\ fate' = fate /\ misdirected' = misdirected
      /\ overlap' = (overlap \/ \E h \in Host : V!Closing(h) \/ (~run /\ V!Sends(h)))
  BY DEF V!viewer_server_run
<1>4. V!TypeOK'
  <2>1. peer' \in [V!Viewer -> {"away", "connected", "gone"}]
    BY <1>1 DEF Basic, V!TypeOK
  <2>2. viewer' \in [V!Viewer -> [socket : V!FD \cup {-1}, freed : BOOLEAN]]
    <3>1. CASE _viewers_count < MAX_VIEWERS
      <4>1. viewer' = [viewer EXCEPT ![v].socket = V!FreeFD]
        BY <1>1, <3>1 DEF V!viewers_add
      <4>2. QED
        BY <1>2, <4>1, ViewerTypes DEF Basic
    <3>2. CASE ~(_viewers_count < MAX_VIEWERS)
      <4>1. viewer' = viewer
        BY <1>1, <3>2 DEF V!viewers_add
      <4>2. QED
        BY <4>1, ViewerTypes DEF Basic
    <3>3. QED
      BY <3>1, <3>2
  <2>3. _viewers' \in [V!Index -> V!Viewer \cup {V!NULL}] /\ _viewers_count' \in 0 .. MAX_VIEWERS
    BY <1>1, ViewerTypes, ViewerLimits DEF Basic, V!viewers_add, V!tableVars
  <2>4. server' \in {"accept", "clear", "ended"}
    BY <1>1, Zenon
  <2>5. overlap' \in BOOLEAN
    BY <1>3, Zenon
  <2>6. QED
    BY <1>2, <1>3, <2>1, <2>2, <2>3, <2>4, <2>5 DEF Basic, V!TypeOK
<1>5. Connections'
  BY <1>1, <1>2, <1>3, ViewerLimits, ViewerTypes DEF Basic, Connections
<1>6. Places'
  BY <1>3 DEF Basic, Places, AtViewer
<1>7. QED
  BY <1>1, <1>4, <1>5, <1>6 DEF Basic

LEMMA ConnectBasic ==
  ASSUME Basic, NEW h \in Host, V!Connect(h)
  PROVE  /\ Basic'
         /\ \A n \in V!FD : open[n] # h
         /\ Opens(h) /\ Moves(h) /\ host'[h].pc = "idle" /\ host'[h].socket = V!FreeFD
<1>1. /\ \A n \in V!FD : open[n] # h
      /\ Opens(h) /\ host[h].pc = "away"
      /\ host' = [host EXCEPT ![h].pc = "idle", ![h].socket = V!FreeFD]
  BY DEF Basic, Connections, V!Connect, Opens
<1>2. /\ open' \in [V!FD -> Host \cup V!Viewer \cup {V!Closed}]
      /\ V!FreeFD \in V!FD /\ open[V!FreeFD] = V!Closed /\ open'[V!FreeFD] = h
      /\ \A n \in V!FD : n # V!FreeFD => open'[n] = open[n]
      /\ \A m, n \in V!FD : open'[m] = open'[n] /\ open'[m] # V!Closed => m = n
  BY <1>1, OpensIs DEF Basic
<1> HIDE DEF V!FreeFD
<1>3. /\ peer' = peer /\ viewer' = viewer /\ _viewers' = _viewers
      /\ _viewers_count' = _viewers_count /\ run' = run /\ server' = server /\ c' = c
      /\ csv_viewer_msg' = csv_viewer_msg /\ fate' = fate /\ misdirected' = misdirected
      /\ overlap' = (overlap \/ \E g \in Host : V!Closing(g))
  BY DEF V!Connect, V!tableVars, V!serverVars
<1>4. Moves(h) /\ host'[h].pc = "idle" /\ host'[h].socket = V!FreeFD
  <2>1. host[h] \in HostType /\ host \in [Host -> HostType] /\ "idle" \in V!HostPC
    BY ViewerTypes DEF Basic, V!HostPC
  <2>2. host' = [host EXCEPT ![h].pc = "idle", ![h].socket = V!FreeFD]
    BY <1>1
  <2>3. host' \in [Host -> HostType]
    BY <1>2, <2>1, <2>2 DEF HostType
  <2>4. \A g \in Host : g # h => host'[g] = host[g]
    BY <2>1, <2>2
  <2>5. host'[h].pc = "idle" /\ host'[h].socket = V!FreeFD
    BY <2>1, <2>2 DEF HostType
  <2>6. QED
    BY <2>3, <2>4, <2>5 DEF Moves
<1>5. V!TypeOK'
  <2>1. host' \in [Host -> HostType]
    BY <1>4 DEF Moves
  <2>2. overlap' \in BOOLEAN
    BY <1>3, Zenon
  <2>3. QED
    BY <1>2, <1>3, <2>1, <2>2 DEF Basic, V!TypeOK, HostType
<1>6. Connections'
  BY <1>1, <1>2, <1>3, <1>4, ViewerLimits, ViewerTypes DEF Basic, Connections, Moves
<1>7. Places'
  BY <1>4, PlacesStay DEF Basic, AtViewer
<1>8. QED
  BY <1>1, <1>4, <1>5, <1>6, <1>7 DEF Basic

LEMMA DeletedIs ==
  ASSUME Basic, NEW v \in V!Viewer, V!Deleted(v), fate \in {"up", "killed"}
  PROVE  /\ open' = V!ClosedFD(viewer[v].socket)
         /\ open' \in [V!FD -> Host \cup V!Viewer \cup {V!Closed}]
         /\ \A m \in V!FD : m # viewer[v].socket => open'[m] = open[m]
         /\ \A m \in V!FD : open'[m] \in {open[m], V!Closed}
         /\ viewer' \in [V!Viewer -> [socket : V!FD \cup {-1}, freed : BOOLEAN]]
         /\ \A w \in V!Viewer : w # v => viewer'[w] = viewer[w]
         /\ fate' \in {fate, "freed_twice"}
         /\ misdirected' = (misdirected \/ V!Misdirected(viewer[v].socket, v))
<1>1. open' = V!ClosedFD(viewer[v].socket)
  BY DEF V!Deleted
<1>2. viewer[v].socket \in V!FD \cup {-1}
  BY ViewerTypes DEF Basic
<1>3. viewer' \in [V!Viewer -> [socket : V!FD \cup {-1}, freed : BOOLEAN]]
  BY ViewerTypes DEF Basic, V!Deleted
<1>4. \A w \in V!Viewer : w # v => viewer'[w] = viewer[w]
  BY ViewerTypes DEF Basic, V!Deleted
<1>5. fate' \in {fate, "freed_twice"}
  BY DEF V!Deleted
<1>6. QED
  BY <1>1, <1>2, <1>3, <1>4, <1>5, ClosedIs, Zenon DEF Basic, V!Deleted

LEMMA ClearBasic ==
  ASSUME Basic, fate = "up", V!viewers_clear
  PROVE  Basic'
<1>1. /\ peer' = peer /\ host' = host /\ _viewers_count' = _viewers_count
      /\ run' = run /\ csv_viewer_msg' = csv_viewer_msg /\ overlap' = overlap
  BY DEF V!viewers_clear
<1>2. CASE c = MAX_VIEWERS
  <2>1. /\ server' = "ended" /\ open' = open /\ viewer' = viewer /\ _viewers' = _viewers
        /\ c' = c /\ fate' = fate /\ misdirected' = misdirected
    BY <1>2 DEF V!viewers_clear
  <2>2. QED
    BY <1>1, <2>1 DEF Basic, V!TypeOK, Connections, Places, AtViewer
<1>3. CASE c # MAX_VIEWERS
  <2>1. c' = c + 1 /\ server' = server /\ c \in V!Index /\ c' \in 0 .. MAX_VIEWERS
    BY <1>3, ViewerTypes, ViewerLimits DEF Basic, V!viewers_clear, V!Index
  <2>2. CASE _viewers[c] = V!NULL
    <3>1. /\ open' = open /\ viewer' = viewer /\ _viewers' = _viewers
          /\ fate' = fate /\ misdirected' = misdirected
      BY <1>3, <2>2 DEF V!viewers_clear
    <3>2. QED
      BY <1>1, <2>1, <3>1 DEF Basic, V!TypeOK, Connections, Places, AtViewer
  <2>3. CASE _viewers[c] # V!NULL
    <3>1. /\ V!Deleted(_viewers[c]) /\ _viewers' = [_viewers EXCEPT ![c] = V!NULL]
          /\ _viewers[c] \in V!Viewer
      BY <1>3, <2>1, <2>3, ViewerTypes DEF Basic, V!viewers_clear
    <3>2. /\ open' \in [V!FD -> Host \cup V!Viewer \cup {V!Closed}]
          /\ \A m \in V!FD : open'[m] \in {open[m], V!Closed}
          /\ viewer' \in [V!Viewer -> [socket : V!FD \cup {-1}, freed : BOOLEAN]]
          /\ fate' \in {fate, "freed_twice"}
      BY <3>1, DeletedIs
    <3>3. misdirected' \in BOOLEAN
      BY <3>1, Zenon DEF V!Deleted
    <3>4. _viewers' \in [V!Index -> V!Viewer \cup {V!NULL}]
      BY <3>1, ViewerTypes DEF Basic
    <3>5. V!TypeOK'
      BY <1>1, <2>1, <3>2, <3>3, <3>4 DEF Basic, V!TypeOK
    <3>6. Connections'
      BY <1>1, <3>2, ConnectionsStay DEF Basic
    <3>7. Places'
      BY <1>1 DEF Basic, Places, AtViewer
    <3>8. QED
      BY <3>5, <3>6, <3>7 DEF Basic
  <2>4. QED
    BY <2>2, <2>3
<1>4. QED
  BY <1>2, <1>3

\* What stays when only the thread of h moves, in h's variables and in the others'.
LEMMA WriteIs ==
  ASSUME V!TypeOK, NEW h \in Host, host[h].updates < MaxUpdates,
         host' = [host EXCEPT ![h].pc = "write", ![h].updates = @ + 1]
  PROVE  Moves(h) /\ host'[h].pc = "write" /\ host'[h].socket = host[h].socket
<1>1. /\ host[h] \in HostType /\ host \in [Host -> HostType] /\ "write" \in V!HostPC
      /\ host[h].updates + 1 \in 0 .. MaxUpdates
  BY ViewerTypes, ViewerLimits DEF V!HostPC, HostType
<1>2. host' \in [Host -> HostType]
  BY <1>1 DEF HostType
<1>3. \A g \in Host : g # h => host'[g] = host[g]
  BY <1>1
<1>4. host'[h].pc = "write" /\ host'[h].socket = host[h].socket
  BY <1>1 DEF HostType
<1>5. QED
  BY <1>2, <1>3, <1>4 DEF Moves

LEMMA IdleIs ==
  ASSUME V!TypeOK, NEW h \in Host, host' = [host EXCEPT ![h].pc = "idle", ![h].i = 0]
  PROVE  Moves(h) /\ host'[h].pc = "idle" /\ host'[h].socket = host[h].socket
<1>1. /\ host[h] \in HostType /\ host \in [Host -> HostType] /\ "idle" \in V!HostPC
      /\ 0 \in 0 .. MAX_VIEWERS
  BY ViewerTypes, ViewerLimits DEF V!HostPC
<1>2. host' \in [Host -> HostType]
  BY <1>1 DEF HostType
<1>3. \A g \in Host : g # h => host'[g] = host[g]
  BY <1>1
<1>4. host'[h].pc = "idle" /\ host'[h].socket = host[h].socket
  BY <1>1 DEF HostType
<1>5. QED
  BY <1>2, <1>3, <1>4 DEF Moves

LEMMA TakesIs ==
  ASSUME V!TypeOK, NEW h \in Host, NEW w \in V!Viewer,
         host' = [host EXCEPT ![h].pc = "send", ![h].v = w]
  PROVE  /\ Moves(h) /\ host'[h].pc = "send" /\ host'[h].socket = host[h].socket
         /\ host'[h].i = host[h].i /\ host'[h].v = w
<1>1. host[h] \in HostType /\ host \in [Host -> HostType] /\ "send" \in V!HostPC
  BY ViewerTypes DEF V!HostPC
<1>2. host' \in [Host -> HostType]
  BY <1>1 DEF HostType
<1>3. \A g \in Host : g # h => host'[g] = host[g]
  BY <1>1
<1>4. /\ host'[h].pc = "send" /\ host'[h].socket = host[h].socket
      /\ host'[h].i = host[h].i /\ host'[h].v = w
  BY <1>1 DEF HostType
<1>5. QED
  BY <1>2, <1>3, <1>4 DEF Moves

LEMMA EndsIs ==
  ASSUME V!TypeOK, NEW h \in Host, host' = [host EXCEPT ![h].pc = "ended", ![h].socket = -1]
  PROVE  Moves(h) /\ host'[h].pc = "ended"
<1>1. host[h] \in HostType /\ host \in [Host -> HostType] /\ "ended" \in V!HostPC
  BY ViewerTypes DEF V!HostPC
<1>2. host' \in [Host -> HostType]
  BY <1>1 DEF HostType
<1>3. \A g \in Host : g # h => host'[g] = host[g]
  BY <1>1
<1>4. host'[h].pc = "ended"
  BY <1>1 DEF HostType
<1>5. QED
  BY <1>2, <1>3, <1>4 DEF Moves

\* A thread of a host that neither opens nor reads moves as the steps allow.
LEMMA HostBasic ==
  ASSUME Basic, NEW h \in Host, HostStep(h),
         \A n \in V!FD : open'[n] \in {open[n], V!Closed},
         open' \in [V!FD -> Host \cup V!Viewer \cup {V!Closed}],
         viewer' \in [V!Viewer -> [socket : V!FD \cup {-1}, freed : BOOLEAN]],
         _viewers' \in [V!Index -> V!Viewer \cup {V!NULL}],
         csv_viewer_msg' \in Host \cup {"empty", "cut"},
         fate' \in {"up", "killed", "freed_memory", "freed_twice"},
         overlap' \in BOOLEAN, misdirected' \in BOOLEAN,
         AtViewer(h)' => host'[h].i < MAX_VIEWERS /\ host'[h].v \in V!Viewer
  PROVE  Basic'
<1>1. V!TypeOK'
  BY HostStepType DEF Basic
<1>2. Connections'
  BY ConnectionsStay DEF Basic, HostStep, Moves
<1>3. Places'
  BY PlacesStay DEF Basic, HostStep
<1>4. QED
  BY <1>1, <1>2, <1>3 DEF Basic

LEMMA PCs ==
  /\ {"away", "idle", "write", "look", "send", "close", "free", "forget", "closed", "ended"}
       \subseteq V!HostPC
BY DEF V!HostPC

HostFrame == UNCHANGED <<peer, _viewers_count, V!serverVars>>

LEMMA MessageBasic ==
  ASSUME Basic, NEW h \in Host, V!create_viewer_message(h), HostFrame,
         UNCHANGED <<open, viewer, _viewers, fate, misdirected>>
  PROVE  /\ Basic' /\ HostStep(h)
         /\ host'[h].socket = host[h].socket
         /\ \/ host[h].pc = "idle" /\ host'[h].pc = "write"
            \/ host[h].pc = "write" /\ host'[h].pc = "look" /\ csv_viewer_msg' = h
<1>1. CASE host[h].pc = "idle"
  <2>1. /\ host[h].updates < MaxUpdates /\ csv_viewer_msg' = "cut"
        /\ host' = [host EXCEPT ![h].pc = "write", ![h].updates = @ + 1]
        /\ overlap' = (overlap \/ server = "clear" \/ \E g \in Host : V!Sends(g))
    BY <1>1 DEF V!create_viewer_message
  <2>2. Moves(h) /\ host'[h].pc = "write" /\ host'[h].socket = host[h].socket
    BY <2>1, WriteIs DEF Basic
  <2>3. HostStep(h) /\ ~AtViewer(h)'
    BY <1>1, <2>2 DEF HostStep, HostFrame, AtViewer
  <2>4. overlap' \in BOOLEAN
    BY <2>1, Zenon
  <2>5. Basic'
    BY <2>1, <2>3, <2>4, HostBasic DEF Basic, V!TypeOK
  <2>6. QED
    BY <1>1, <2>2, <2>3, <2>5
<1>2. CASE host[h].pc = "write"
  <2>1. csv_viewer_msg' = h /\ V!Goto(h, "look") /\ overlap' = overlap
    BY <1>2 DEF V!create_viewer_message
  <2>2. Moves(h) /\ host'[h].pc = "look" /\ host'[h].socket = host[h].socket
    BY <2>1, GotoIs, PCs DEF Basic
  <2>3. HostStep(h) /\ ~AtViewer(h)'
    BY <1>2, <2>2 DEF HostStep, HostFrame, AtViewer
  <2>4. Basic'
    BY <2>1, <2>3, HostBasic DEF Basic, V!TypeOK
  <2>5. QED
    BY <1>2, <2>1, <2>2, <2>3, <2>4
<1>3. QED
  BY <1>1, <1>2 DEF V!create_viewer_message

Still == UNCHANGED <<csv_viewer_msg, overlap>>

LEMMA LookBasic ==
  ASSUME Basic, NEW h \in Host, V!Look(h), HostFrame, Still, UNCHANGED <<viewer, _viewers>>
  PROVE  /\ Basic' /\ HostStep(h) /\ host[h].pc = "look"
         /\ open' = open /\ fate' = fate /\ misdirected' = misdirected
         /\ host'[h].socket = host[h].socket
         /\ \/ host'[h].pc \in {"idle", "look"}
            \/ /\ host'[h].pc = "send" /\ host'[h].i = host[h].i
               /\ host[h].i \in V!Index
               /\ host'[h].v = _viewers[host[h].i] /\ host'[h].v # V!NULL
<1>1. /\ host[h].pc = "look" /\ open' = open /\ fate' = fate /\ misdirected' = misdirected
      /\ csv_viewer_msg' = csv_viewer_msg /\ overlap' = overlap
  BY DEF V!Look, Still
<1>2. /\ Moves(h)
      /\ host'[h].socket = host[h].socket
      /\ AtViewer(h)' => host'[h].i < MAX_VIEWERS /\ host'[h].v \in V!Viewer
      /\ \/ host'[h].pc \in {"idle", "look"}
         \/ /\ host'[h].pc = "send" /\ host'[h].i = host[h].i
            /\ host[h].i \in V!Index
            /\ host'[h].v = _viewers[host[h].i] /\ host'[h].v # V!NULL
  <2>1. CASE host[h].i = MAX_VIEWERS
    <3>1. host' = [host EXCEPT ![h].pc = "idle", ![h].i = 0]
      BY <2>1 DEF V!Look
    <3>2. QED
      BY <3>1, IdleIs DEF Basic, AtViewer
  <2>2. CASE host[h].i # MAX_VIEWERS
    <3>1. host[h].i \in V!Index /\ host[h].i < MAX_VIEWERS
      BY <2>2, ViewerTypes, ViewerLimits DEF Basic, V!Index
    <3>2. CASE _viewers[host[h].i] = V!NULL
      <4>1. V!NextViewer(h)
        BY <2>2, <3>2 DEF V!Look
      <4>2. QED
        BY <3>1, <4>1, NextViewerIs DEF Basic, AtViewer
    <3>3. CASE _viewers[host[h].i] # V!NULL
      <4>1. host' = [host EXCEPT ![h].pc = "send", ![h].v = _viewers[host[h].i]]
        BY <2>2, <3>3 DEF V!Look
      <4>2. _viewers[host[h].i] \in V!Viewer
        BY <3>1, <3>3, ViewerTypes DEF Basic
      <4>3. QED
        BY <3>1, <3>3, <4>1, <4>2, TakesIs DEF Basic
    <3>4. QED
      BY <3>2, <3>3
  <2>3. QED
    BY <2>1, <2>2
<1>3. HostStep(h)
  BY <1>1, <1>2 DEF HostStep, HostFrame
<1>4. Basic'
  BY <1>1, <1>2, <1>3, HostBasic DEF Basic, V!TypeOK
<1>5. QED
  BY <1>1, <1>2, <1>3, <1>4

LEMMA SendBasic ==
  ASSUME Basic, fate = "up", NEW h \in Host, V!Send(h), HostFrame, Still,
         UNCHANGED <<viewer, _viewers>>,
         NEW v, v = host[h].v
  PROVE  /\ Basic' /\ HostStep(h) /\ host[h].pc = "send" /\ open' = open
         /\ host'[h].socket = host[h].socket
         /\ \/ viewer[v].freed
            \/ /\ host'[h].pc = "look" /\ fate' = fate
               /\ \/ misdirected' = misdirected
                  \/ /\ viewer[v].socket # -1
                     /\ misdirected' = (misdirected \/ open[viewer[v].socket] # v
                                                    \/ csv_viewer_msg # h)
            \/ /\ host'[h].pc = "close" /\ host'[h].i = host[h].i /\ host'[h].v = v
               /\ fate' = fate /\ misdirected' = misdirected
            \/ fate' = "killed" /\ host' = host /\ misdirected' = misdirected
<1> DEFINE n == viewer[v].socket
<1>1. /\ host[h].pc = "send" /\ open' = open
      /\ csv_viewer_msg' = csv_viewer_msg /\ overlap' = overlap
  BY DEF V!Send, Still
<1>2. host[h].i < MAX_VIEWERS /\ host[h].v \in V!Viewer
  BY <1>1 DEF Basic, Places, AtViewer
<1>3. /\ Moves(h) /\ host'[h].socket = host[h].socket
      /\ misdirected' \in BOOLEAN /\ fate' \in {"up", "killed", "freed_memory", "freed_twice"}
      /\ host'[h].pc # "away"
      /\ AtViewer(h)' => host'[h].i < MAX_VIEWERS /\ host'[h].v \in V!Viewer
      /\ \/ viewer[v].freed
         \/ /\ host'[h].pc = "look" /\ fate' = fate
            /\ \/ misdirected' = misdirected
               \/ /\ viewer[v].socket # -1
                  /\ misdirected' = (misdirected \/ open[viewer[v].socket] # v
                                                 \/ csv_viewer_msg # h)
         \/ /\ host'[h].pc = "close" /\ host'[h].i = host[h].i /\ host'[h].v = v
            /\ fate' = fate /\ misdirected' = misdirected
         \/ fate' = "killed" /\ host' = host /\ misdirected' = misdirected
  <2>1. CASE host' = host /\ misdirected' = misdirected
             /\ (fate' = "killed" \/ (fate' = "freed_memory" /\ viewer[v].freed))
    BY <1>1, <1>2, <2>1 DEF Basic, V!TypeOK, Moves, HostType, AtViewer
  <2>2. CASE V!NextViewer(h) /\ fate' = fate /\ misdirected' = misdirected
    BY <1>2, <2>2, NextViewerIs DEF Basic, V!TypeOK, AtViewer
  <2>3. CASE /\ viewer[v].socket # -1 /\ V!NextViewer(h) /\ fate' = fate
             /\ misdirected' = (misdirected \/ open[viewer[v].socket] # v
                                            \/ csv_viewer_msg # h)
    <3>1. misdirected' \in BOOLEAN
      BY <2>3, Zenon
    <3>2. QED
      BY <1>2, <2>3, <3>1, NextViewerIs DEF Basic, V!TypeOK, AtViewer
  <2>4. CASE V!Goto(h, "close") /\ fate' = fate /\ misdirected' = misdirected
    BY <1>2, <2>4, GotoIs, PCs DEF Basic, V!TypeOK, AtViewer
  <2>5. QED
    <3>1. /\ viewer[v].freed => host' = host /\ misdirected' = misdirected
                                /\ fate' = "freed_memory"
          /\ ~viewer[v].freed /\ n = -1 => V!NextViewer(h) /\ fate' = fate
                                           /\ misdirected' = misdirected
      BY DEF V!Send
    <3>2. ~viewer[v].freed /\ n # -1 =>
            \/ /\ V!NextViewer(h) /\ fate' = fate
               /\ misdirected' = (misdirected \/ open[n] # v \/ csv_viewer_msg # h)
            \/ V!Goto(h, "close") /\ fate' = fate /\ misdirected' = misdirected
            \/ fate' = "killed" /\ host' = host /\ misdirected' = misdirected
      BY DEF V!Send
    <3>3. QED
      BY <2>1, <2>2, <2>3, <2>4, <3>1, <3>2
<1>4. HostStep(h)
  BY <1>1, <1>3 DEF HostStep, HostFrame
<1>5. Basic'
  BY <1>1, <1>3, <1>4, HostBasic DEF Basic, V!TypeOK
<1>6. QED
  BY <1>1, <1>3, <1>4, <1>5

LEMMA DeleteBasic ==
  ASSUME Basic, fate = "up", NEW h \in Host, V!Delete(h), HostFrame, Still,
         UNCHANGED _viewers,
         NEW v, v = host[h].v
  PROVE  /\ Basic' /\ HostStep(h) /\ v \in V!Viewer
         /\ host'[h].socket = host[h].socket
         /\ host'[h].i = host[h].i /\ host'[h].v = v
         /\ \A w \in V!Viewer : w # v => viewer'[w] = viewer[w]
         /\ \/ /\ host[h].pc = "close" /\ host'[h].pc = "free"
               /\ open' = V!ClosedFD(viewer[v].socket)
               /\ fate' = IF viewer[v].freed THEN "freed_memory" ELSE fate
               /\ misdirected' = (misdirected \/ V!Misdirected(viewer[v].socket, v))
               /\ viewer'[v].socket = -1 /\ viewer'[v].freed = viewer[v].freed
            \/ /\ host[h].pc = "free" /\ host'[h].pc = "forget" /\ open' = open
               /\ fate' = IF viewer[v].freed THEN "freed_twice" ELSE fate
               /\ misdirected' = misdirected
<1>1. AtViewer(h) /\ host[h].i < MAX_VIEWERS /\ v \in V!Viewer
  BY DEF V!Delete, Basic, Places, AtViewer
<1>2. CASE host[h].pc = "close"
  <2>1. /\ fate' = IF viewer[v].freed THEN "freed_memory" ELSE fate
        /\ open' = V!ClosedFD(viewer[v].socket)
        /\ misdirected' = (misdirected \/ V!Misdirected(viewer[v].socket, v))
        /\ viewer' = [viewer EXCEPT ![v].socket = -1]
        /\ V!Goto(h, "free")
    BY <1>2 DEF V!Delete
  <2>2. /\ Moves(h) /\ host'[h].pc = "free"
        /\ host'[h].i = host[h].i /\ host'[h].v = v
        /\ host'[h].socket = host[h].socket
    BY <2>1, GotoIs, PCs DEF Basic
  <2>3. /\ viewer' \in [V!Viewer -> [socket : V!FD \cup {-1}, freed : BOOLEAN]]
        /\ \A w \in V!Viewer : w # v => viewer'[w] = viewer[w]
        /\ viewer'[v].socket = -1 /\ viewer'[v].freed = viewer[v].freed
    BY <1>1, <2>1, ViewerTypes DEF Basic
  <2>4. /\ open' \in [V!FD -> Host \cup V!Viewer \cup {V!Closed}]
        /\ \A m \in V!FD : open'[m] \in {open[m], V!Closed}
    <3>1. viewer[v].socket \in V!FD \cup {-1}
      BY <1>1, ViewerTypes DEF Basic
    <3>2. QED
      BY <2>1, <3>1, ClosedIs DEF Basic
  <2>5. misdirected' \in BOOLEAN
    BY <2>1, Zenon
  <2>6. HostStep(h)
    BY <1>2, <2>2 DEF HostStep, HostFrame
  <2>7. fate' \in {"up", "killed", "freed_memory", "freed_twice"}
    BY <2>1
  <2>8. Basic'
    BY <1>1, <2>2, <2>3, <2>4, <2>5, <2>6, <2>7, HostBasic DEF Basic, V!TypeOK, Still
  <2>9. QED
    BY <1>1, <1>2, <2>1, <2>2, <2>3, <2>6, <2>8
<1>3. CASE host[h].pc = "free"
  <2>1. /\ fate' = IF viewer[v].freed THEN "freed_twice" ELSE fate
        /\ open' = open /\ misdirected' = misdirected
        /\ viewer' = [viewer EXCEPT ![v].freed = TRUE]
        /\ V!Goto(h, "forget")
    BY <1>3 DEF V!Delete
  <2>2. /\ Moves(h) /\ host'[h].pc = "forget"
        /\ host'[h].i = host[h].i /\ host'[h].v = v
        /\ host'[h].socket = host[h].socket
    BY <2>1, GotoIs, PCs DEF Basic
  <2>3. /\ viewer' \in [V!Viewer -> [socket : V!FD \cup {-1}, freed : BOOLEAN]]
        /\ \A w \in V!Viewer : w # v => viewer'[w] = viewer[w]
    BY <1>1, <2>1, ViewerTypes DEF Basic
  <2>4. HostStep(h)
    BY <1>3, <2>2 DEF HostStep, HostFrame
  <2>5. fate' \in {"up", "killed", "freed_memory", "freed_twice"}
    BY <2>1
  <2>6. Basic'
    BY <1>1, <2>1, <2>2, <2>3, <2>4, <2>5, HostBasic DEF Basic, V!TypeOK, Still
  <2>7. QED
    BY <1>1, <1>3, <2>1, <2>2, <2>3, <2>4, <2>6
<1>4. QED
  BY <1>2, <1>3 DEF V!Delete

LEMMA ForgetBasic ==
  ASSUME Basic, NEW h \in Host, V!Forget(h), HostFrame, Still,
         UNCHANGED <<open, viewer, fate, misdirected>>
  PROVE  /\ Basic' /\ HostStep(h) /\ host[h].pc = "forget" /\ host'[h].pc = "look"
         /\ host[h].i \in V!Index
         /\ _viewers' = [_viewers EXCEPT ![host[h].i] = V!NULL]
         /\ host'[h].socket = host[h].socket
<1>1. /\ host[h].pc = "forget" /\ V!NextViewer(h)
      /\ _viewers' = [_viewers EXCEPT ![host[h].i] = V!NULL]
  BY DEF V!Forget
<1>2. host[h].i < MAX_VIEWERS
  BY <1>1 DEF Basic, Places, AtViewer
<1>3. host[h].i \in V!Index
  BY <1>2, ViewerTypes, ViewerLimits DEF Basic, V!Index
<1>4. Moves(h) /\ host'[h].pc = "look" /\ host'[h].socket = host[h].socket
  BY <1>1, <1>2, NextViewerIs DEF Basic
<1>5. HostStep(h)
  BY <1>1, <1>4 DEF HostStep, HostFrame
<1>6. _viewers' \in [V!Index -> V!Viewer \cup {V!NULL}]
  BY <1>1, <1>3, ViewerTypes DEF Basic
<1>7. ~AtViewer(h)'
  BY <1>4 DEF AtViewer
<1>8. Basic'
  BY <1>5, <1>6, <1>7, HostBasic DEF Basic, V!TypeOK, Still
<1>9. QED
  BY <1>1, <1>3, <1>4, <1>5, <1>8

LEMMA CloseBasic ==
  ASSUME Basic, NEW h \in Host, V!CloseTwice(h), HostFrame,
         UNCHANGED <<viewer, _viewers, csv_viewer_msg, fate, overlap>>
  PROVE  /\ Basic' /\ HostStep(h)
         /\ open' = V!ClosedFD(host[h].socket)
         /\ misdirected' = (misdirected \/ V!Misdirected(host[h].socket, h))
         /\ \/ /\ host[h].pc = "idle" /\ host'[h].pc = "closed"
               /\ host'[h].socket = host[h].socket
            \/ host[h].pc = "closed" /\ host'[h].pc = "ended"
<1>1. /\ open' = V!ClosedFD(host[h].socket)
      /\ misdirected' = (misdirected \/ V!Misdirected(host[h].socket, h))
  BY DEF V!CloseTwice
<1>2. /\ open' \in [V!FD -> Host \cup V!Viewer \cup {V!Closed}]
      /\ \A m \in V!FD : open'[m] \in {open[m], V!Closed}
  <2>1. host[h].socket \in V!FD \cup {-1}
    BY ViewerTypes DEF Basic
  <2>2. QED
    BY <1>1, <2>1, ClosedIs DEF Basic
<1>3. misdirected' \in BOOLEAN
  BY <1>1, Zenon
<1>4. /\ Moves(h)
      /\ \/ /\ host[h].pc = "idle" /\ host'[h].pc = "closed"
            /\ host'[h].socket = host[h].socket
         \/ host[h].pc = "closed" /\ host'[h].pc = "ended"
  <2>1. CASE host[h].pc = "idle" /\ V!Goto(h, "closed")
    BY <2>1, GotoIs, PCs DEF Basic
  <2>2. CASE /\ host[h].pc = "closed"
             /\ host' = [host EXCEPT ![h].pc = "ended", ![h].socket = -1]
    BY <2>2, EndsIs DEF Basic
  <2>3. QED
    BY <2>1, <2>2 DEF V!CloseTwice
<1>5. HostStep(h) /\ ~AtViewer(h)'
  BY <1>4 DEF HostStep, HostFrame, AtViewer
<1>6. Basic'
  BY <1>2, <1>3, <1>5, HostBasic DEF Basic, V!TypeOK
<1>7. QED
  BY <1>1, <1>4, <1>5, <1>6

LEMMA RestBasic ==
  ASSUME Basic, V!viewer_server_end \/ (\E v \in V!Viewer : V!Leave(v)) \/ UNCHANGED V!vars
  PROVE  Basic'
<1>1. CASE V!viewer_server_end
  BY <1>1 DEF V!viewer_server_end, V!tableVars, Basic, V!TypeOK, Connections, Places, AtViewer
<1>2. ASSUME NEW v \in V!Viewer, V!Leave(v)
      PROVE  Basic'
  <2>1. peer' = [peer EXCEPT ![v] = "gone"] /\ peer \in [V!Viewer -> {"away", "connected", "gone"}]
    BY <1>2, ViewerTypes DEF V!Leave, Basic
  <2>2. peer' \in [V!Viewer -> {"away", "connected", "gone"}]
    BY <2>1
  <2>3. V!TypeOK'
    BY <1>2, <2>2 DEF V!Leave, V!tableVars, V!serverVars, Basic, V!TypeOK
  <2>4. Connections'
    BY <1>2, <2>1, ConnectionsStay DEF V!Leave, Basic
  <2>5. Places'
    BY <1>2 DEF V!Leave, Basic, Places, AtViewer
  <2>6. QED
    BY <2>3, <2>4, <2>5 DEF Basic
<1>3. CASE UNCHANGED V!vars
  BY <1>3 DEF V!vars, Basic, V!TypeOK, Connections, Places, AtViewer
<1>4. QED
  BY <1>1, <1>2, <1>3

----------------------------------------------------------------------------
(***************************************************************************)
(* While nothing overlaps, every step keeps the calm.                      *)
(***************************************************************************)
LEMMA OwnedStays ==
  ASSUME NEW w \in V!Viewer, Owned(w), viewer'[w] = viewer[w],
         \A n \in V!FD : open[n] = w => open'[n] = w
  PROVE  Owned(w)'
BY DEF Owned

LEMMA AcceptCalm ==
  ASSUME Basic, Calm, NEW v \in V!Viewer, V!viewer_server_run(v), ~overlap'
  PROVE  Calm'
<1>1. /\ \A n \in V!FD : open[n] # v
      /\ Opens(v) /\ V!viewers_add(v) /\ peer' = [peer EXCEPT ![v] = "connected"]
      /\ server' = IF run THEN "accept" ELSE "clear"
  BY AcceptBasic
<1>2. /\ V!FreeFD \in V!FD /\ open[V!FreeFD] = V!Closed /\ open'[V!FreeFD] = v
      /\ \A n \in V!FD : open[n] # V!Closed => open'[n] = open[n]
  BY <1>1, OpensIs DEF Basic
<1>3. /\ host' = host /\ csv_viewer_msg' = csv_viewer_msg
      /\ fate' = fate /\ misdirected' = misdirected /\ peer[v] = "away"
      /\ \A h \in Host : ~V!Closing(h) /\ (run \/ ~V!Sends(h))
  BY DEF V!viewer_server_run
<1>4. \A w \in V!Viewer : peer'[w] = IF w = v THEN "connected" ELSE peer[w]
  BY <1>1, ViewerTypes DEF Basic
<1>5. \A h \in Host : h # V!Closed
  BY ViewerLimits
<1>6. OneSender'
  BY <1>1, <1>3 DEF Calm, OneSender, V!Sends
<1>7. HostsOwn'
  <2>1. \A h \in Host : host[h].pc = "idle" \/ V!Sends(h) =>
                          host[h].socket \in V!FD /\ open'[host[h].socket] = h
    BY <1>2, <1>5 DEF Calm, HostsOwn
  <2>2. QED
    BY <1>3, <2>1 DEF HostsOwn, V!Sends, V!Closing
<1>8. /\ \A w \in V!Viewer : w # v => viewer'[w] = viewer[w]
      /\ \A i \in V!Index : i < _viewers_count => _viewers'[i] = _viewers[i]
      /\ _viewers_count <= _viewers_count' /\ _viewers_count' \in Nat
      /\ \A i \in V!Index : _viewers'[i] # _viewers[i] =>
           /\ _viewers'[i] = v /\ i = _viewers_count /\ i < _viewers_count'
           /\ viewer'[v].socket = V!FreeFD /\ viewer'[v].freed = viewer[v].freed
  <2>1. CASE _viewers_count < MAX_VIEWERS
    <3>1. /\ viewer' = [viewer EXCEPT ![v].socket = V!FreeFD]
          /\ _viewers' = [_viewers EXCEPT ![_viewers_count] = v]
          /\ _viewers_count' = _viewers_count + 1
      BY <1>1, <2>1 DEF V!viewers_add
    <3>2. QED
      BY <1>2, <3>1, ViewerTypes DEF Basic, V!Index
  <2>2. CASE ~(_viewers_count < MAX_VIEWERS)
    <3>1. viewer' = viewer /\ _viewers' = _viewers /\ _viewers_count' = _viewers_count
      BY <1>1, <2>2 DEF V!viewers_add, V!tableVars
    <3>2. QED
      BY <3>1, ViewerTypes DEF Basic
  <2>3. QED
    BY <2>1, <2>2
<1>9. \A i \in V!Index : _viewers[i] # V!NULL =>
        /\ i < _viewers_count /\ _viewers[i] \in V!Viewer /\ _viewers[i] # v
        /\ _viewers'[i] = _viewers[i] /\ viewer'[_viewers[i]] = viewer[_viewers[i]]
  BY <1>3, <1>8, ViewerTypes DEF Basic, Calm, TableOwns
<1>10. \A w \in V!Viewer : Owned(w) /\ w # v => Owned(w)'
  <2>1. \A w \in V!Viewer : w # V!Closed
    BY ViewerLimits
  <2>2. QED
    BY <1>2, <1>8, <2>1, OwnedStays
<1>11. TableOwns'
  <2> SUFFICES ASSUME NEW i \in V!Index, _viewers'[i] # V!NULL
               PROVE  /\ i < _viewers_count'
                      /\ peer'[_viewers'[i]] # "away"
                      /\ \A j \in V!Index : _viewers'[j] = _viewers'[i] => j = i
                      /\ \/ Owned(_viewers[i])'
                         \/ \E h \in Host : Deletes(h)' /\ host'[h].i = i
    BY Zenon DEF TableOwns, Deletes, Owned
  <2>1. CASE _viewers'[i] = _viewers[i]
    <3>1. /\ i < _viewers_count /\ _viewers[i] \in V!Viewer /\ _viewers[i] # v
          /\ peer[_viewers[i]] # "away"
          /\ \A j \in V!Index : _viewers[j] = _viewers[i] => j = i
          /\ Owned(_viewers[i]) \/ \E h \in Host : Deletes(h) /\ host[h].i = i
      BY <1>9, <2>1 DEF Calm, TableOwns
    <3>2. \A j \in V!Index : _viewers'[j] = _viewers'[i] => j = i
      BY <1>8, <2>1, <3>1
    <3>3. i < _viewers_count'
      BY <1>8, <3>1, ViewerTypes, ViewerLimits DEF Basic, V!Index
    <3>4. Owned(_viewers[i]) => Owned(_viewers[i])'
      BY <1>9, <1>10, <2>1, <3>1 DEF Owned
    <3>5. \A h \in Host : Deletes(h) /\ host[h].i = i => Deletes(h)' /\ host'[h].i = i
      BY <1>3 DEF Deletes
    <3>6. QED
      BY <1>4, <2>1, <3>1, <3>2, <3>3, <3>4, <3>5 DEF Owned
  <2>2. CASE _viewers'[i] # _viewers[i]
    <3>1. /\ _viewers'[i] = v /\ i = _viewers_count /\ i < _viewers_count'
          /\ viewer'[v].socket = V!FreeFD /\ viewer'[v].freed = viewer[v].freed
      BY <1>8, <2>2
    <3>2. ~viewer'[v].freed
      BY <1>3, <3>1 DEF Calm, Fresh
    <3>3. Owned(v)'
      BY <1>2, <3>1, <3>2 DEF Owned
    <3>4. \A j \in V!Index : _viewers'[j] = v => j = i
      <4>1. \A j \in V!Index : _viewers[j] # v
        BY <1>9, ViewerLimits
      <4>2. QED
        BY <1>8, <3>1, <4>1
    <3>5. QED
      BY <1>4, <3>1, <3>3, <3>4 DEF Owned
  <2>3. QED
    BY <2>1, <2>2
<1>12. SenderOwns'
  <2>1. \A h \in Host : AtViewer(h) =>
          /\ host[h].i \in V!Index /\ host[h].v \in V!Viewer /\ host[h].v # V!NULL
          /\ _viewers[host[h].i] = host[h].v /\ host[h].v # v
          /\ _viewers'[host[h].i] = host[h].v /\ viewer'[host[h].v] = viewer[host[h].v]
    <3>1. \A h \in Host : AtViewer(h) =>
            /\ host[h].i \in V!Index /\ host[h].v \in V!Viewer /\ host[h].v # V!NULL
            /\ _viewers[host[h].i] = host[h].v
      BY ViewerTypes, ViewerLimits DEF Basic, Places, V!Index, Calm, SenderOwns
    <3>2. QED
      BY <1>9, <3>1
  <2>2. \A h \in Host : host[h].pc \in {"send", "close"} => Owned(host[h].v)'
    BY <1>3, <1>10, <2>1 DEF Calm, SenderOwns, AtViewer, Owned
  <2>3. QED
    BY <1>3, <2>1, <2>2 DEF Calm, SenderOwns, V!Sends, AtViewer, Owned
<1>13. Fresh'
  BY <1>4, <1>8 DEF Calm, Fresh
<1>14. QED
  BY <1>3, <1>6, <1>7, <1>11, <1>12, <1>13 DEF Calm

LEMMA ClearCalm ==
  ASSUME Basic, Calm, fate = "up", V!viewers_clear
  PROVE  Calm'
<1>1. /\ peer' = peer /\ host' = host /\ _viewers_count' = _viewers_count
      /\ csv_viewer_msg' = csv_viewer_msg /\ server = "clear" /\ server' \in {server, "ended"}
  BY DEF V!viewers_clear
<1>2. \A h \in Host : ~V!Sends(h) /\ ~AtViewer(h) /\ ~Deletes(h)
  BY <1>1 DEF Calm, OneSender, V!Sends, AtViewer, Deletes
<1>3. OneSender'
  BY <1>1, <1>2 DEF Calm, OneSender, V!Sends
<1>4. SenderOwns'
  BY <1>1, <1>2 DEF SenderOwns, V!Sends, AtViewer
<1>5. CASE /\ open' = open /\ viewer' = viewer /\ _viewers' = _viewers
           /\ fate' = fate /\ misdirected' = misdirected
  <2>1. HostsOwn'
    BY <1>1, <1>5 DEF Calm, HostsOwn, V!Sends, V!Closing
  <2>2. TableOwns'
    BY <1>1, <1>5 DEF Calm, TableOwns, Owned, Deletes
  <2>3. Fresh'
    BY <1>1, <1>5 DEF Calm, Fresh
  <2>4. QED
    BY <1>3, <1>4, <1>5, <2>1, <2>2, <2>3 DEF Calm
<1>6. CASE c # MAX_VIEWERS /\ _viewers[c] # V!NULL
  <2> DEFINE v == _viewers[c]
             n == viewer[v].socket
  <2>1. V!Deleted(v) /\ _viewers' = [_viewers EXCEPT ![c] = V!NULL]
    BY <1>6 DEF V!viewers_clear
  <2>2. c \in V!Index /\ v \in V!Viewer
    BY <1>6, ViewerTypes, ViewerLimits DEF Basic, V!Index
  <2>3. /\ Owned(v) /\ peer[v] # "away"
        /\ \A i \in V!Index : _viewers[i] = v => i = c
    BY <1>2, <1>6, <2>2 DEF Calm, TableOwns
  <2>4. n \in V!FD /\ open[n] = v /\ ~viewer[v].freed
    BY <2>3 DEF Owned
  <2>5. /\ \A m \in V!FD : m # n => open'[m] = open[m]
        /\ open' = V!ClosedFD(n)
        /\ \A w \in V!Viewer : w # v => viewer'[w] = viewer[w]
    BY <2>1, <2>2, DeletedIs DEF Basic
  <2>6. open'[n] = V!Closed
    BY <2>4, <2>5, ViewerTypes, ClosedIs DEF Basic
  <2>7. fate' = fate /\ ~misdirected'
    BY <2>1, <2>4 DEF V!Deleted, V!Misdirected, Calm
  <2> HIDE DEF v, n
  <2>8. HostsOwn'
    <3>1. v \notin Host /\ v # V!Closed /\ \A h \in Host : h # V!Closed
      BY <2>2, ViewerLimits
    <3>2. \A h \in Host : ~V!Sends(h)'
      BY <1>1, <1>2 DEF V!Sends
    <3>3. \A h \in Host : host[h].pc = "idle" =>
             host[h].socket \in V!FD /\ open'[host[h].socket] = h
      BY <2>4, <2>5, <3>1 DEF Calm, HostsOwn
    <3>4. \A h \in Host : V!Closing(h) =>
             host[h].socket \in V!FD /\ open'[host[h].socket] = V!Closed
      BY <2>4, <2>5, <3>1 DEF Calm, HostsOwn
    <3>5. QED
      BY <1>1, <3>2, <3>3, <3>4 DEF HostsOwn, V!Closing
  <2>9. TableOwns'
    <3>1. \A i \in V!Index : _viewers'[i] = IF i = c THEN V!NULL ELSE _viewers[i]
      BY <2>1, <2>2, ViewerTypes DEF Basic
    <3>2. \A i \in V!Index : _viewers'[i] # V!NULL =>
            /\ i # c /\ _viewers'[i] = _viewers[i] /\ _viewers[i] \in V!Viewer
            /\ _viewers[i] # v /\ Owned(_viewers[i])
      BY <1>2, <2>3, <3>1, ViewerTypes DEF Basic, Calm, TableOwns
    <3>3. \A w \in V!Viewer : Owned(w) /\ w # v => Owned(w)'
      BY <2>4, <2>5, OwnedStays
    <3>4. \A i \in V!Index : _viewers'[i] # V!NULL => Owned(_viewers[i])'
      BY <3>2, <3>3 DEF Owned
    <3>5. \A i, j \in V!Index : _viewers'[i] # V!NULL /\ _viewers'[j] = _viewers'[i] => j = i
      BY <3>1, <3>2 DEF Calm, TableOwns
    <3>6. \A i \in V!Index : _viewers'[i] # V!NULL =>
            i < _viewers_count' /\ peer'[_viewers'[i]] # "away"
      BY <1>1, <3>2 DEF Calm, TableOwns
    <3>7. QED
      BY <3>4, <3>5, <3>6 DEF TableOwns, Owned
  <2>10. Fresh'
    BY <1>1, <2>3, <2>5 DEF Calm, Fresh
  <2>11. QED
    BY <1>3, <1>4, <2>7, <2>8, <2>9, <2>10 DEF Calm
<1>7. QED
  BY <1>5, <1>6 DEF V!viewers_clear

LEMMA RestCalm ==
  ASSUME Basic, Calm, V!viewer_server_end \/ (\E v \in V!Viewer : V!Leave(v)) \/ UNCHANGED V!vars
  PROVE  Calm'
<1>1. /\ open' = open /\ viewer' = viewer /\ _viewers' = _viewers
      /\ _viewers_count' = _viewers_count /\ server' = server
      /\ csv_viewer_msg' = csv_viewer_msg /\ host' = host /\ fate' = fate
      /\ misdirected' = misdirected
  BY DEF V!viewer_server_end, V!Leave, V!vars, V!tableVars, V!serverVars
<1>2. \A w \in V!Viewer : peer'[w] = "away" <=> peer[w] = "away"
  BY ViewerTypes DEF Basic, V!viewer_server_end, V!Leave, V!vars
<1>3. OneSender' /\ HostsOwn' /\ SenderOwns'
  BY <1>1 DEF Calm, OneSender, HostsOwn, SenderOwns, V!Sends, V!Closing, AtViewer, Owned
<1>4. TableOwns'
  <2>1. \A i \in V!Index : _viewers[i] # V!NULL => _viewers[i] \in V!Viewer
    BY ViewerTypes DEF Basic
  <2>2. \A i \in V!Index : _viewers[i] # V!NULL => peer'[_viewers[i]] # "away"
    BY <1>2, <2>1 DEF Calm, TableOwns
  <2>3. QED
    BY <1>1, <2>2 DEF Calm, TableOwns, Owned, Deletes
<1>5. Fresh'
  BY <1>1, <1>2 DEF Calm, Fresh
<1>6. QED
  BY <1>1, <1>3, <1>4, <1>5 DEF Calm

\* The connection of a host.
LEMMA ConnectCalm ==
  ASSUME Basic, Calm, NEW h \in Host, V!Connect(h), ~overlap'
  PROVE  Calm'
<1>1. /\ Opens(h) /\ Moves(h) /\ host'[h].pc = "idle" /\ host'[h].socket = V!FreeFD
      /\ \A n \in V!FD : open[n] # h
  BY ConnectBasic
<1>2. /\ V!FreeFD \in V!FD /\ open[V!FreeFD] = V!Closed /\ open'[V!FreeFD] = h
      /\ \A n \in V!FD : open[n] # V!Closed => open'[n] = open[n]
  BY <1>1, OpensIs DEF Basic
<1> HIDE DEF V!FreeFD
<1>3. /\ peer' = peer /\ viewer' = viewer /\ _viewers' = _viewers
      /\ _viewers_count' = _viewers_count /\ server' = server
      /\ csv_viewer_msg' = csv_viewer_msg /\ fate' = fate /\ misdirected' = misdirected
      /\ host[h].pc = "away" /\ \A g \in Host : ~V!Closing(g)
  BY DEF V!Connect, V!tableVars, V!serverVars
<1>4. \A g \in Host : g # h => host'[g] = host[g]
  BY <1>1 DEF Moves
<1>5. \A x \in Host \cup V!Viewer : x # V!Closed
  BY ViewerLimits
<1>6. OneSender'
  BY <1>1, <1>3, <1>4 DEF Calm, OneSender, V!Sends
<1>7. HostsOwn'
  <2>1. \A g \in Host : g # h /\ (host[g].pc = "idle" \/ V!Sends(g)) =>
           host[g].socket \in V!FD /\ open'[host[g].socket] = g
    BY <1>2, <1>5 DEF Calm, HostsOwn
  <2>2. QED
    BY <1>1, <1>2, <1>3, <1>4, <2>1 DEF HostsOwn, V!Sends, V!Closing
<1>8. \A w \in V!Viewer : Owned(w) => Owned(w)'
  BY <1>2, <1>3, <1>5, OwnedStays
<1>9. TableOwns'
  <2>1. \A i \in V!Index : _viewers[i] # V!NULL => _viewers[i] \in V!Viewer
    BY ViewerTypes DEF Basic
  <2>2. \A g \in Host : Deletes(g) => Deletes(g)' /\ host'[g].i = host[g].i
    BY <1>3, <1>4 DEF Deletes
  <2>3. \A i \in V!Index : _viewers[i] # V!NULL =>
           \/ Owned(_viewers[i])'
           \/ \E g \in Host : Deletes(g)' /\ host'[g].i = i
    BY <1>3, <1>8, <2>1, <2>2 DEF Calm, TableOwns, Owned
  <2>4. QED
    BY <1>3, <2>3 DEF Calm, TableOwns, Owned
<1>10. SenderOwns'
  <2>1. ~V!Sends(h)' /\ ~AtViewer(h)' /\ host'[h].pc = "idle"
    BY <1>1 DEF V!Sends, AtViewer
  <2>2. \A g \in Host : host[g].pc \in {"send", "close"} => Owned(host[g].v)'
    <3>1. \A g \in Host : host[g].pc \in {"send", "close"} =>
             Owned(host[g].v) /\ host[g].v \in V!Viewer /\ g # h
      BY <1>3 DEF Calm, SenderOwns, Basic, Places, AtViewer
    <3>2. QED
      BY <1>4, <1>8, <3>1 DEF Owned
  <2>3. QED
    BY <1>3, <1>4, <2>1, <2>2 DEF Calm, SenderOwns, V!Sends, AtViewer, Owned
<1>11. QED
  BY <1>3, <1>6, <1>7, <1>9, <1>10 DEF Calm, Fresh

\* The thread of h moves on, and was not deleting: the rest follows from what its own
\* variables are afterwards.
LEMMA HostCalm ==
  ASSUME Basic, Calm, NEW h \in Host, HostStep(h), ~Deletes(h), UNCHANGED <<viewer, _viewers>>,
         \A n \in V!FD : open[n] \in V!Viewer => open'[n] = open[n],
         \A g \in Host : g # h /\ V!Sends(g) => csv_viewer_msg' = csv_viewer_msg,
         OneSender', HostsOwn', fate' \in {"up", "killed"}, ~misdirected',
         V!Sends(h)' /\ host'[h].pc # "write" => csv_viewer_msg' = h,
         AtViewer(h)' => /\ host'[h].pc \in {"send", "close"}
                         /\ _viewers[host'[h].i] = host'[h].v
                         /\ host'[h].v \in V!Viewer /\ Owned(host'[h].v)
  PROVE  Calm'
<1>1. /\ peer' = peer /\ _viewers_count' = _viewers_count /\ server' = server
      /\ \A g \in Host : g # h => host'[g] = host[g]
  BY DEF HostStep, Moves, V!serverVars
<1>2. \A w \in V!Viewer : Owned(w) => Owned(w)'
  BY OwnedStays
<1>3. TableOwns'
  <2>1. \A i \in V!Index : _viewers[i] # V!NULL => _viewers[i] \in V!Viewer
    BY ViewerTypes DEF Basic
  <2>2. \A g \in Host : Deletes(g) => Deletes(g)' /\ host'[g].i = host[g].i
    BY <1>1 DEF Deletes
  <2>3. \A i \in V!Index : _viewers[i] # V!NULL =>
           \/ Owned(_viewers[i])'
           \/ \E g \in Host : Deletes(g)' /\ host'[g].i = i
    BY <1>1, <1>2, <2>1, <2>2 DEF Calm, TableOwns, Owned
  <2>4. QED
    BY <1>1, <2>3 DEF Calm, TableOwns, Owned
<1>4. SenderOwns'
  <2>1. \A g \in Host : g # h /\ host[g].pc \in {"send", "close"} => Owned(host[g].v)'
    <3>1. \A g \in Host : g # h /\ host[g].pc \in {"send", "close"} =>
             Owned(host[g].v) /\ host[g].v \in V!Viewer
      BY DEF Calm, SenderOwns, Basic, Places, AtViewer
    <3>2. QED
      BY <1>1, <1>2, <3>1 DEF Owned
  <2>2. \A g \in Host : g # h => 
           /\ V!Sends(g)' /\ host'[g].pc # "write" => csv_viewer_msg' = g
           /\ AtViewer(g)' => _viewers'[host'[g].i] = host'[g].v
           /\ host'[g].pc \in {"send", "close"} => Owned(host[g].v)'
           /\ host'[g].pc = "free" =>
                viewer'[host'[g].v].socket = -1 /\ ~viewer'[host'[g].v].freed
    BY <1>1, <2>1 DEF Calm, SenderOwns, V!Sends, AtViewer
  <2>3. /\ V!Sends(h)' /\ host'[h].pc # "write" => csv_viewer_msg' = h
        /\ AtViewer(h)' => _viewers'[host'[h].i] = host'[h].v
        /\ host'[h].pc # "free"
    BY DEF AtViewer
  <2>4. host'[h].pc \in {"send", "close"} => Owned(host[h].v)'
    <3>1. host'[h].pc \in {"send", "close"} => host'[h].v \in V!Viewer /\ Owned(host'[h].v)
      BY DEF AtViewer
    <3>2. QED
      BY <1>2, <3>1 DEF Owned
  <2>5. QED
    BY <2>2, <2>3, <2>4, Zenon DEF SenderOwns
<1>5. QED
  BY <1>1, <1>3, <1>4 DEF Calm, Fresh

\* Where the connections of the hosts stay, they have them.
LEMMA HostsOwnStay ==
  ASSUME Basic, Calm, NEW h \in Host, HostStep(h),
         host'[h].socket = host[h].socket,
         host[h].pc = "idle" \/ V!Sends(h), host'[h].pc = "idle" \/ V!Sends(h)',
         \A n \in V!FD : open[n] \in Host \cup {V!Closed} => open'[n] = open[n]
  PROVE  HostsOwn'
<1>1. \A g \in Host : g # h => host'[g] = host[g]
  BY DEF HostStep, Moves
<1>2. ~V!Closing(h)'
  BY DEF V!Sends, V!Closing
<1>3. QED
  BY <1>1, <1>2 DEF Calm, HostsOwn, V!Sends, V!Closing

\* One sender stays one.
LEMMA OneSenderStays ==
  ASSUME OneSender, NEW h \in Host, HostStep(h), V!Sends(h)' => V!Sends(h)
  PROVE  OneSender'
BY DEF OneSender, HostStep, Moves, V!Sends, V!serverVars

LEMMA MessageCalm ==
  ASSUME Basic, Calm, fate = "up", NEW h \in Host, V!create_viewer_message(h), HostFrame,
         UNCHANGED <<open, viewer, _viewers, fate, misdirected>>, ~overlap'
  PROVE  Calm'
<1>1. /\ HostStep(h) /\ host'[h].socket = host[h].socket
      /\ \/ host[h].pc = "idle" /\ host'[h].pc = "write"
         \/ host[h].pc = "write" /\ host'[h].pc = "look" /\ csv_viewer_msg' = h
  BY MessageBasic
<1>2. ~Deletes(h) /\ ~AtViewer(h)' /\ fate' = "up" /\ ~misdirected'
  BY <1>1 DEF Deletes, AtViewer, Calm
<1>3. HostsOwn'
  BY <1>1, HostsOwnStay DEF V!Sends
<1>4. CASE host[h].pc = "idle"
  <2>1. server # "clear" /\ (\A g \in Host : ~V!Sends(g)) /\ host'[h].pc = "write"
    BY <1>1, <1>4 DEF V!create_viewer_message
  <2>2. OneSender'
    BY <1>1, <2>1 DEF OneSender, HostStep, Moves, V!Sends, V!serverVars
  <2>3. QED
    BY <1>1, <1>2, <1>3, <2>1, <2>2, HostCalm
<1>5. CASE host[h].pc = "write"
  <2>1. V!Sends(h) /\ host'[h].pc = "look" /\ csv_viewer_msg' = h
    BY <1>1, <1>5 DEF V!Sends
  <2>2. \A g \in Host : g # h => ~V!Sends(g)
    BY <2>1 DEF Calm, OneSender
  <2>3. OneSender'
    BY <1>1, <2>1, OneSenderStays DEF Calm
  <2>4. QED
    BY <1>1, <1>2, <1>3, <2>1, <2>2, <2>3, HostCalm
<1>6. QED
  BY <1>1, <1>4, <1>5

LEMMA LookCalm ==
  ASSUME Basic, Calm, fate = "up", NEW h \in Host, V!Look(h), HostFrame, Still,
         UNCHANGED <<viewer, _viewers>>
  PROVE  Calm'
<1>1. /\ HostStep(h) /\ host[h].pc = "look"
      /\ open' = open /\ fate' = fate /\ misdirected' = misdirected
      /\ host'[h].socket = host[h].socket
      /\ \/ host'[h].pc \in {"idle", "look"}
         \/ /\ host'[h].pc = "send" /\ host'[h].i = host[h].i
            /\ host[h].i \in V!Index
            /\ host'[h].v = _viewers[host[h].i] /\ host'[h].v # V!NULL
  BY LookBasic
<1>2. /\ V!Sends(h) /\ ~Deletes(h) /\ csv_viewer_msg = h /\ csv_viewer_msg' = csv_viewer_msg
  BY <1>1 DEF V!Sends, Deletes, Still, Calm, SenderOwns
<1>3. OneSender' /\ HostsOwn'
  BY <1>1, <1>2, OneSenderStays, HostsOwnStay DEF Calm, V!Sends
<1>4. AtViewer(h)' => /\ host'[h].pc \in {"send", "close"}
                      /\ _viewers[host'[h].i] = host'[h].v
                      /\ host'[h].v \in V!Viewer /\ Owned(host'[h].v)
  <2> SUFFICES ASSUME host[h].i \in V!Index, _viewers[host[h].i] # V!NULL
               PROVE  _viewers[host[h].i] \in V!Viewer /\ Owned(_viewers[host[h].i])
    BY <1>1 DEF AtViewer
  <2>1. \A g \in Host : ~Deletes(g)
    BY <1>1, <1>2 DEF Calm, OneSender, V!Sends, Deletes
  <2>2. QED
    BY <2>1, ViewerTypes DEF Basic, Calm, TableOwns
<1>5. QED
  BY <1>1, <1>2, <1>3, <1>4, HostCalm DEF Calm

LEMMA SendCalm ==
  ASSUME Basic, Calm, fate = "up", NEW h \in Host, V!Send(h), HostFrame, Still,
         UNCHANGED <<viewer, _viewers>>
  PROVE  Calm'
<1> DEFINE v == host[h].v
<1>1. /\ HostStep(h) /\ host[h].pc = "send" /\ open' = open
      /\ host'[h].socket = host[h].socket
      /\ \/ viewer[v].freed
         \/ /\ host'[h].pc = "look" /\ fate' = fate
            /\ \/ misdirected' = misdirected
               \/ /\ viewer[v].socket # -1
                  /\ misdirected' = (misdirected \/ open[viewer[v].socket] # v
                                                 \/ csv_viewer_msg # h)
         \/ /\ host'[h].pc = "close" /\ host'[h].i = host[h].i /\ host'[h].v = v
            /\ fate' = fate /\ misdirected' = misdirected
         \/ fate' = "killed" /\ host' = host /\ misdirected' = misdirected
  BY SendBasic
<1>2. /\ V!Sends(h) /\ ~Deletes(h) /\ AtViewer(h)
      /\ csv_viewer_msg = h /\ csv_viewer_msg' = csv_viewer_msg
      /\ Owned(v) /\ v \in V!Viewer /\ _viewers[host[h].i] = v
  BY <1>1 DEF V!Sends, Deletes, AtViewer, Still, Calm, SenderOwns, Basic, Places
<1>3. ~viewer[v].freed /\ viewer[v].socket \in V!FD /\ open[viewer[v].socket] = v
  BY <1>2 DEF Owned
<1>4. fate' \in {"up", "killed"} /\ ~misdirected'
  <2>1. ~misdirected
    BY DEF Calm
  <2>2. viewer[v].socket # -1 /\ ~viewer[v].freed
    BY <1>3, ViewerTypes DEF Basic
  <2>3. misdirected' = (misdirected \/ open[viewer[v].socket] # v \/ csv_viewer_msg # h)
          => ~misdirected'
    BY <1>2, <1>3, <2>1, Zenon
  <2>4. misdirected' = misdirected => ~misdirected'
    BY <2>1
  <2>5. ~misdirected'
    BY <1>1, <2>2, <2>3, <2>4, Zenon
  <2>6. fate' \in {"up", "killed"}
    BY <1>1, <2>2, Zenon
  <2>7. QED
    BY <2>5, <2>6
<1>5. host'[h].pc \in {"look", "close", "send"} /\ V!Sends(h)'
  BY <1>1, <1>3 DEF V!Sends
<1>6. AtViewer(h)' => /\ host'[h].pc \in {"send", "close"}
                      /\ _viewers[host'[h].i] = host'[h].v
                      /\ host'[h].v \in V!Viewer /\ Owned(host'[h].v)
  BY <1>1, <1>2, <1>3 DEF AtViewer
<1>7. OneSender' /\ HostsOwn'
  BY <1>1, <1>2, <1>5, OneSenderStays, HostsOwnStay DEF Calm
<1>8. QED
  BY <1>1, <1>2, <1>4, <1>6, <1>7, HostCalm

LEMMA DeleteCalm ==
  ASSUME Basic, Calm, fate = "up", NEW h \in Host, V!Delete(h), HostFrame, Still,
         UNCHANGED _viewers
  PROVE  Calm'
<1> DEFINE v == host[h].v
           n == viewer[v].socket
<1>1. /\ HostStep(h) /\ v \in V!Viewer
      /\ host'[h].socket = host[h].socket
      /\ host'[h].i = host[h].i /\ host'[h].v = v
      /\ \A w \in V!Viewer : w # v => viewer'[w] = viewer[w]
      /\ \/ /\ host[h].pc = "close" /\ host'[h].pc = "free"
            /\ open' = V!ClosedFD(n)
            /\ fate' = IF viewer[v].freed THEN "freed_memory" ELSE fate
            /\ misdirected' = (misdirected \/ V!Misdirected(n, v))
            /\ viewer'[v].socket = -1 /\ viewer'[v].freed = viewer[v].freed
         \/ /\ host[h].pc = "free" /\ host'[h].pc = "forget" /\ open' = open
            /\ fate' = IF viewer[v].freed THEN "freed_twice" ELSE fate
            /\ misdirected' = misdirected
  BY DeleteBasic
<1>2. /\ V!Sends(h) /\ V!Sends(h)' /\ AtViewer(h) /\ Deletes(h)'
      /\ csv_viewer_msg = h /\ csv_viewer_msg' = csv_viewer_msg
      /\ _viewers[host[h].i] = v /\ host[h].i \in V!Index
  <2>1. V!Sends(h) /\ V!Sends(h)' /\ AtViewer(h) /\ Deletes(h)'
    BY <1>1 DEF V!Sends, AtViewer, Deletes
  <2>2. /\ csv_viewer_msg = h /\ csv_viewer_msg' = csv_viewer_msg
        /\ _viewers[host[h].i] = v
    BY <1>1, <2>1 DEF Still, Calm, SenderOwns
  <2>3. host[h].i \in V!Index
    BY <2>1, ViewerTypes, ViewerLimits DEF Basic, Places, V!Index
  <2>4. QED
    BY <2>1, <2>2, <2>3
<1>3. /\ ~viewer[v].freed
      /\ host[h].pc = "close" => n \in V!FD /\ open[n] = v
      /\ fate' = fate
  BY <1>1 DEF Calm, SenderOwns, Owned
<1>4. \A g \in Host : g # h => host'[g] = host[g] /\ ~V!Sends(g) /\ ~AtViewer(g)
  BY <1>1, <1>2 DEF HostStep, Moves, Calm, OneSender, V!Sends, AtViewer
<1>5. \A m \in V!FD : open[m] # v => open'[m] = open[m]
  <2>1. CASE host[h].pc = "close"
    BY <1>1, <1>3, <2>1, ViewerTypes, ClosedIs DEF Basic
  <2>2. CASE host[h].pc = "free"
    BY <1>1, <2>2
  <2>3. QED
    BY <1>1, <2>1, <2>2
<1>6. ~misdirected'
  <2>1. host[h].pc = "close" => ~V!Misdirected(n, v)
    BY <1>3 DEF V!Misdirected
  <2>2. ~misdirected
    BY DEF Calm
  <2>3. QED
    BY <1>1, <2>1, <2>2
<1>7. OneSender'
  BY <1>1, <1>2, OneSenderStays DEF Calm
<1>8. HostsOwn'
  <2>1. \A x \in Host \cup {V!Closed} : x # v
    BY <1>1, ViewerLimits
  <2>2. \A m \in V!FD : open[m] \in Host \cup {V!Closed} => open'[m] = open[m]
    BY <1>5, <2>1
  <2>3. QED
    BY <1>1, <1>2, <2>2, HostsOwnStay
<1>9. \A w \in V!Viewer : Owned(w) /\ w # v => Owned(w)'
  BY <1>1, <1>5, OwnedStays
<1>10. /\ _viewers' = _viewers /\ _viewers_count' = _viewers_count /\ server' = server
       /\ peer' = peer
  BY <1>1 DEF HostStep, V!serverVars
<1>11. TableOwns'
  <2>1. \A i \in V!Index : _viewers[i] # V!NULL /\ i # host[h].i =>
          _viewers[i] \in V!Viewer /\ _viewers[i] # v /\ Owned(_viewers[i])
    <3>1. \A i \in V!Index : _viewers[i] = v => i = host[h].i
      BY <1>1, <1>2, ViewerLimits DEF Calm, TableOwns
    <3>2. \A g \in Host : Deletes(g) => g = h
      BY <1>4 DEF Deletes, V!Sends
    <3>3. QED
      BY <3>1, <3>2, ViewerTypes DEF Basic, Calm, TableOwns
  <2>2. \A i \in V!Index : _viewers[i] # V!NULL /\ i # host[h].i => Owned(_viewers[i])'
    BY <1>9, <1>10, <2>1 DEF Owned
  <2>3. \A i \in V!Index : _viewers[i] # V!NULL =>
          \/ Owned(_viewers[i])'
          \/ \E g \in Host : Deletes(g)' /\ host'[g].i = i
    BY <1>1, <1>2, <2>2
  <2>4. QED
    BY <1>10, <2>3 DEF Calm, TableOwns, Owned
<1>12. SenderOwns'
  <2>1. \A g \in Host : g # h => ~V!Sends(g)' /\ ~AtViewer(g)'
    BY <1>4 DEF V!Sends, AtViewer
  <2>2. host'[h].pc = "free" => viewer'[v].socket = -1 /\ ~viewer'[v].freed
    BY <1>1, <1>3
  <2>3. QED
    BY <1>1, <1>2, <1>10, <2>1, <2>2 DEF SenderOwns, V!Sends, AtViewer
<1>13. Fresh'
  <2>1. peer[v] # "away"
    BY <1>1, <1>2, ViewerLimits DEF Calm, TableOwns
  <2>2. QED
    BY <1>1, <1>10, <2>1 DEF Calm, Fresh
<1>14. QED
  BY <1>3, <1>6, <1>7, <1>8, <1>11, <1>12, <1>13 DEF Calm

LEMMA ForgetCalm ==
  ASSUME Basic, Calm, NEW h \in Host, V!Forget(h), HostFrame, Still,
         UNCHANGED <<open, viewer, fate, misdirected>>
  PROVE  Calm'
<1>1. /\ HostStep(h) /\ host[h].pc = "forget" /\ host'[h].pc = "look"
      /\ host[h].i \in V!Index
      /\ _viewers' = [_viewers EXCEPT ![host[h].i] = V!NULL]
      /\ host'[h].socket = host[h].socket
  BY ForgetBasic
<1>2. /\ V!Sends(h) /\ V!Sends(h)' /\ csv_viewer_msg = h /\ csv_viewer_msg' = csv_viewer_msg
  BY <1>1 DEF V!Sends, Still, Calm, SenderOwns
<1>3. \A g \in Host : g # h => host'[g] = host[g] /\ ~V!Sends(g) /\ ~AtViewer(g)
  BY <1>1, <1>2 DEF HostStep, Moves, Calm, OneSender, V!Sends, AtViewer
<1>4. /\ _viewers_count' = _viewers_count /\ server' = server /\ peer' = peer
      /\ \A i \in V!Index : _viewers'[i] = IF i = host[h].i THEN V!NULL ELSE _viewers[i]
  BY <1>1, ViewerTypes DEF Basic, HostStep, V!serverVars
<1>5. OneSender' /\ HostsOwn'
  BY <1>1, <1>2, OneSenderStays, HostsOwnStay DEF Calm
<1>6. TableOwns'
  <2>1. \A g \in Host : Deletes(g) => g = h
    BY <1>3 DEF Deletes, V!Sends
  <2>2. \A i \in V!Index : _viewers'[i] # V!NULL =>
          i # host[h].i /\ _viewers'[i] = _viewers[i] /\ Owned(_viewers[i])
    BY <1>4, <2>1 DEF Calm, TableOwns
  <2>3. \A i \in V!Index : _viewers'[i] # V!NULL => Owned(_viewers[i])'
    BY <2>2 DEF Owned
  <2>4. \A i, j \in V!Index : _viewers'[i] # V!NULL /\ _viewers'[j] = _viewers'[i] => j = i
    BY <1>4, <2>2 DEF Calm, TableOwns
  <2>5. \A i \in V!Index : _viewers'[i] # V!NULL =>
          i < _viewers_count' /\ peer'[_viewers'[i]] # "away"
    BY <1>4, <2>2 DEF Calm, TableOwns
  <2>6. QED
    BY <2>3, <2>4, <2>5 DEF TableOwns, Owned
<1>7. SenderOwns'
  <2>1. \A g \in Host : g # h => ~V!Sends(g)' /\ ~AtViewer(g)'
    BY <1>3 DEF V!Sends, AtViewer
  <2>2. QED
    BY <1>1, <1>2, <2>1 DEF SenderOwns, V!Sends, AtViewer
<1>8. QED
  BY <1>4, <1>5, <1>6, <1>7 DEF Calm, Fresh

LEMMA CloseCalm ==
  ASSUME Basic, Calm, fate = "up", NEW h \in Host, V!CloseTwice(h), HostFrame,
         UNCHANGED <<viewer, _viewers, csv_viewer_msg, fate, overlap>>
  PROVE  Calm'
<1>1. /\ HostStep(h)
      /\ open' = V!ClosedFD(host[h].socket)
      /\ misdirected' = (misdirected \/ V!Misdirected(host[h].socket, h))
      /\ \/ /\ host[h].pc = "idle" /\ host'[h].pc = "closed"
            /\ host'[h].socket = host[h].socket
         \/ host[h].pc = "closed" /\ host'[h].pc = "ended"
  BY CloseBasic
<1>2. /\ host[h].socket \in V!FD /\ open[host[h].socket] \in {h, V!Closed}
      /\ host[h].pc = "closed" => open[host[h].socket] = V!Closed
  BY <1>1 DEF Calm, HostsOwn, V!Closing
<1>3. /\ \A m \in V!FD : m # host[h].socket => open'[m] = open[m]
      /\ open'[host[h].socket] = V!Closed
  BY <1>1, <1>2, ViewerTypes, ClosedIs DEF Basic
<1>4. ~misdirected'
  <2>1. ~V!Misdirected(host[h].socket, h) /\ ~misdirected
    BY <1>2 DEF V!Misdirected, Calm
  <2>2. QED
    BY <1>1, <2>1, Zenon
<1>5. ~V!Sends(h) /\ ~V!Sends(h)' /\ ~Deletes(h) /\ ~AtViewer(h)'
  BY <1>1 DEF V!Sends, Deletes, AtViewer
<1>6. OneSender'
  BY <1>1, <1>5, OneSenderStays DEF Calm
<1>7. HostsOwn'
  <2>1. \A g \in Host : g # h => host'[g] = host[g] /\ g # V!Closed
    BY <1>1, ViewerLimits DEF HostStep, Moves
  <2>2. \A g \in Host : g # h /\ (host[g].pc = "idle" \/ V!Sends(g)) =>
          host[g].socket \in V!FD /\ open'[host[g].socket] = g
    BY <1>2, <1>3, <2>1 DEF Calm, HostsOwn
  <2>3. \A g \in Host : g # h /\ V!Closing(g) =>
          host[g].socket \in V!FD /\ open'[host[g].socket] = V!Closed
    BY <1>3 DEF Calm, HostsOwn
  <2>4. V!Closing(h)' => host'[h].socket \in V!FD /\ open'[host'[h].socket] = V!Closed
    BY <1>1, <1>2, <1>3 DEF V!Closing
  <2>5. host'[h].pc # "idle"
    BY <1>1
  <2>6. QED
    BY <1>5, <2>1, <2>2, <2>3, <2>4, <2>5 DEF HostsOwn, V!Sends, V!Closing
<1>8. \A m \in V!FD : open[m] \in V!Viewer => open'[m] = open[m]
  <2>1. h \notin V!Viewer /\ V!Closed \notin V!Viewer
    BY ViewerLimits
  <2>2. QED
    BY <1>2, <1>3, <2>1
<1>9. QED
  BY <1>1, <1>4, <1>5, <1>6, <1>7, <1>8, HostCalm

----------------------------------------------------------------------------
LEMMA ViewersInit == V!Init => ViewersInv
<1> SUFFICES ASSUME V!Init
             PROVE  ViewersInv
  OBVIOUS
<1>1. /\ open = [n \in V!FD |-> V!Closed] /\ peer = [v \in V!Viewer |-> "away"]
      /\ viewer = [v \in V!Viewer |-> [socket |-> -1, freed |-> FALSE]]
      /\ _viewers = [i \in V!Index |-> V!NULL] /\ _viewers_count = 0
      /\ run = TRUE /\ server = "accept" /\ c = 0 /\ csv_viewer_msg = "empty"
      /\ host = [h \in Host |-> [pc |-> "away", socket |-> -1, i |-> 0, v |-> V!NULL,
                                 updates |-> 0]]
      /\ fate = "up" /\ overlap = FALSE /\ misdirected = FALSE
  BY DEF V!Init
<1>2. V!TypeOK
  <2>1. /\ open \in [V!FD -> Host \cup V!Viewer \cup {V!Closed}]
        /\ peer \in [V!Viewer -> {"away", "connected", "gone"}]
        /\ viewer \in [V!Viewer -> [socket : V!FD \cup {-1}, freed : BOOLEAN]]
        /\ _viewers \in [V!Index -> V!Viewer \cup {V!NULL}]
    BY <1>1
  <2>2. /\ _viewers_count \in 0 .. MAX_VIEWERS /\ c \in 0 .. MAX_VIEWERS
        /\ 0 \in 0 .. MaxUpdates
    BY <1>1, ViewerLimits
  <2>3. host \in [Host -> HostType]
    BY <1>1, <2>2 DEF HostType, V!HostPC
  <2>4. QED
    BY <1>1, <2>1, <2>2, <2>3, Zenon DEF V!TypeOK, HostType
<1>3. Connections /\ Places
  BY <1>1, ViewerLimits DEF Connections, Places, AtViewer
<1>4. Calm
  BY <1>1 DEF Calm, OneSender, HostsOwn, TableOwns, SenderOwns, Fresh, V!Sends, V!Closing,
              AtViewer
<1>5. QED
  BY <1>2, <1>3, <1>4 DEF ViewersInv

LEMMA ViewersNext == ViewersInv /\ [V!Next]_(V!vars) => ViewersInv'
<1> SUFFICES ASSUME ViewersInv, [V!Next]_(V!vars)
             PROVE  Basic' /\ (~overlap' => Calm')
  BY DEF ViewersInv, Basic
<1>1. Basic /\ (~overlap => Calm)
  BY DEF ViewersInv, Basic
<1>2. CASE UNCHANGED V!vars
  BY <1>1, <1>2, RestBasic, RestCalm DEF V!vars
<1>3. CASE V!Next
  <2>1. fate = "up"
    BY <1>3 DEF V!Next
  <2>2. ASSUME NEW v \in V!Viewer, V!viewer_server_run(v)
        PROVE  Basic' /\ (~overlap' => Calm')
    <3>1. overlap => overlap'
      BY <2>2, Zenon DEF V!viewer_server_run
    <3>2. QED
      BY <1>1, <2>2, <3>1, AcceptBasic, AcceptCalm
  <2>3. ASSUME NEW v \in V!Viewer, V!Leave(v)
        PROVE  Basic' /\ (~overlap' => Calm')
    BY <1>1, <2>3, RestBasic, RestCalm DEF V!Leave
  <2>4. CASE V!viewers_clear
    BY <1>1, <2>1, <2>4, ClearBasic, ClearCalm DEF V!viewers_clear
  <2>5. CASE V!viewer_server_end
    BY <1>1, <2>5, RestBasic, RestCalm DEF V!viewer_server_end
  <2>6. ASSUME NEW h \in Host, V!Connect(h)
        PROVE  Basic' /\ (~overlap' => Calm')
    <3>1. overlap => overlap'
      BY <2>6, Zenon DEF V!Connect
    <3>2. QED
      BY <1>1, <2>6, <3>1, ConnectBasic, ConnectCalm
  <2>7. ASSUME NEW h \in Host, V!host_run(h), HostFrame
        PROVE  Basic' /\ (~overlap' => Calm')
    <3>1. CASE /\ V!create_viewer_message(h)
               /\ UNCHANGED <<open, viewer, _viewers, fate, misdirected>>
      <4>1. overlap => overlap'
        BY <3>1, Zenon DEF V!create_viewer_message
      <4>2. QED
        BY <1>1, <2>1, <2>7, <3>1, <4>1, MessageBasic, MessageCalm
    <3>2. CASE V!viewers_send(h) /\ Still
      <4>1. overlap' = overlap
        BY <3>2 DEF Still
      <4>2. CASE V!Look(h) /\ UNCHANGED <<viewer, _viewers>>
        BY <1>1, <2>1, <2>7, <3>2, <4>1, <4>2, LookBasic, LookCalm
      <4>3. CASE V!Send(h) /\ UNCHANGED <<viewer, _viewers>>
        BY <1>1, <2>1, <2>7, <3>2, <4>1, <4>3, SendBasic, SendCalm
      <4>4. CASE V!Delete(h) /\ UNCHANGED _viewers
        BY <1>1, <2>1, <2>7, <3>2, <4>1, <4>4, DeleteBasic, DeleteCalm
      <4>5. CASE V!Forget(h) /\ UNCHANGED <<open, viewer, fate, misdirected>>
        BY <1>1, <2>7, <3>2, <4>1, <4>5, ForgetBasic, ForgetCalm
      <4>6. QED
        BY <3>2, <4>2, <4>3, <4>4, <4>5 DEF V!viewers_send
    <3>3. CASE /\ V!CloseTwice(h)
               /\ UNCHANGED <<viewer, _viewers, csv_viewer_msg, fate, overlap>>
      BY <1>1, <2>1, <2>7, <3>3, CloseBasic, CloseCalm
    <3>4. QED
      BY <2>7, <3>1, <3>2, <3>3 DEF V!host_run, Still
  <2>8. QED
    BY <1>3, <2>2, <2>3, <2>4, <2>5, <2>6, <2>7 DEF V!Next, HostFrame
<1>4. QED
  BY <1>2, <1>3

\* The inductive invariant of the viewers' and hosts' threads holds at all times.
THEOREM ViewersInvariance == V!Spec => []ViewersInv
BY ViewersInit, ViewersNext, PTL DEF V!Spec

\* No viewer is used after it was freed, freed twice, closed by another or given
\* another's line or half a line, as long as one thread at most is at the viewers and
\* no connection is made between the two closes of a host: for any number of viewers
\* and hosts (viewer.c, host_run).
THEOREM ViewersSoundAlone == V!Spec => []SoundUnlessOverlap
<1>1. ViewersInv => SoundUnlessOverlap
  BY DEF ViewersInv, Calm, SoundUnlessOverlap, V!SoundUnlessOverlap
<1> QED
  BY <1>1, ViewersInvariance, PTL

----------------------------------------------------------------------------
(***************************************************************************)
(* Arithmetic modulo P.                                                    *)
(***************************************************************************)
\* The remainder is the one number of the field that differs by a multiple of P.
LEMMA Remainder ==
  ASSUME NEW p \in Nat, p > 0, NEW x \in Int
  PROVE  x % p \in 0 .. p - 1 /\ \E d \in Int : x = p * d + (x % p)
<1>1. x = p * (x \div p) + (x % p) /\ x \div p \in Int /\ x % p \in 0 .. p - 1
  OBVIOUS
<1>2. QED
  BY <1>1

\* Multiples of P do not count.
LEMMA Shift ==
  ASSUME NEW p \in Nat, p > 0, NEW x \in Int, NEW d \in Int
  PROVE  (x + p * d) % p = x % p
<1>1. PICK e \in Int : x = p * e + (x % p)
  BY Remainder
<1>2. PICK f \in Int : x + p * d = p * f + ((x + p * d) % p)
  BY Remainder
<1>3. x % p \in 0 .. p - 1 /\ (x + p * d) % p \in 0 .. p - 1
  BY Remainder
<1> DEFINE r == x % p
           s == (x + p * d) % p
           g == e + d - f
<1>4. s - r = p * g
  BY <1>1, <1>2, <1>3
<1>5. r \in 0 .. p - 1 /\ s \in 0 .. p - 1 /\ g \in Int
  BY <1>3
<1>6. g <= 0
  <2> SUFFICES ASSUME g >= 1 PROVE FALSE
    BY <1>5
  <2>1. p * g >= p
    BY <1>5
  <2>2. QED
    BY <1>4, <1>5, <2>1
<1>7. g >= 0
  <2> SUFFICES ASSUME g <= -1 PROVE FALSE
    BY <1>5
  <2>1. p * g <= -p
    BY <1>5
  <2>2. QED
    BY <1>4, <1>5, <2>1
<1>8. g = 0
  BY <1>5, <1>6, <1>7
<1>9. QED
  BY <1>4, <1>5, <1>8


\* A remainder may be taken before a product or a sum.
LEMMA BeforeTimes ==
  ASSUME NEW p \in Nat, p > 0, NEW x \in Int, NEW z \in Int, NEW y \in Int
  PROVE  (z + y * (x % p)) % p = (z + y * x) % p
<1>1. PICK d \in Int : x = p * d + (x % p)
  BY Remainder
<1> DEFINE r == x % p
           u == z + y * x
           e == -(y * d)
<1>2. r \in Int
  BY Remainder
<1>3. r = x - p * d
  BY <1>1, <1>2
<1> HIDE DEF r
<1>4. z + y * r = u + p * e
  <2>1. y * r = y * x - y * (p * d)
    BY <1>3
  <2>2. y * (p * d) = p * (y * d)
    OBVIOUS
  <2>3. p * (-(y * d)) = -(p * (y * d))
    OBVIOUS
  <2>4. y * r \in Int /\ y * x \in Int /\ p * (y * d) \in Int /\ y * d \in Int
    BY <1>2
  <2>5. QED
    BY <2>1, <2>2, <2>3, <2>4
<1>5. u \in Int /\ e \in Int
  OBVIOUS
<1> HIDE DEF u, e
<1>6. (u + p * e) % p = u % p
  BY <1>5, Shift
<1>7. QED
  BY <1>4, <1>6 DEF r, u

\* ... and before a sum.
LEMMA BeforePlus ==
  ASSUME NEW p \in Nat, p > 0, NEW x \in Int, NEW z \in Int
  PROVE  ((x % p) + z) % p = (x + z) % p
<1>1. PICK d \in Int : x = p * d + (x % p)
  BY Remainder
<1> DEFINE r == x % p
           u == x + z
           e == -d
<1>2. r \in Int
  BY Remainder
<1>3. r = x - p * d
  BY <1>1, <1>2
<1> HIDE DEF r
<1>4. r + z = u + p * e
  <2>1. p * (-d) = -(p * d) /\ p * d \in Int
    OBVIOUS
  <2>2. QED
    BY <1>3, <2>1
<1>5. u \in Int /\ e \in Int
  OBVIOUS
<1> HIDE DEF u, e
<1>6. (u + p * e) % p = u % p
  BY <1>5, Shift
<1>7. QED
  BY <1>4, <1>6 DEF r, u

\* Multiples are added like the numbers themselves.
Combined(p, s, f, t, g, y) ==
  (((s + y * t) % p) + ((f + y * g) % p)) % p = (((s + f) % p) + y * ((t + g) % p)) % p

LEMMA Linear ==
  ASSUME NEW p \in Nat, p > 0, NEW s \in Int, NEW f \in Int, NEW t \in Int, NEW g \in Int,
         NEW y \in Int
  PROVE  Combined(p, s, f, t, g, y)
<1> DEFINE u == s + y * t
           v == f + y * g
           a == s + f
           b == t + g
<1>1. u \in Int /\ v \in Int /\ a \in Int /\ b \in Int
  OBVIOUS
<1>2. u + v = a + y * b
  <2>1. y * b = y * t + y * g
    OBVIOUS
  <2>2. y * t \in Int /\ y * g \in Int
    OBVIOUS
  <2>3. QED
    BY <2>1, <2>2
<1> HIDE DEF u, v, a, b
<1>3. u % p \in Int /\ v % p \in Int /\ a % p \in Int /\ b % p \in Int
  BY <1>1, Remainder
<1>4. ((u % p) + (v % p)) % p = (u + (v % p)) % p
  BY <1>1, <1>3, BeforePlus
<1>5. ((v % p) + u) % p = (v + u) % p
  BY <1>1, BeforePlus
<1>6. u + (v % p) = (v % p) + u /\ v + u = u + v
  BY <1>1, <1>3
<1>7. ((a % p) + y * (b % p)) % p = ((a % p) + y * b) % p
  <2> DEFINE z == a % p
  <2>1. p > 0 /\ z \in Int /\ y \in Int /\ b \in Int
    BY <1>1, <1>3
  <2> HIDE DEF z
  <2>2. (z + y * (b % p)) % p = (z + y * b) % p
    BY <2>1, BeforeTimes, Zenon
  <2>3. QED
    BY <2>2 DEF z
<1>8. ((a % p) + y * b) % p = (a + y * b) % p
  <2> DEFINE z == y * b
  <2>1. z \in Int
    BY <1>1
  <2> HIDE DEF z
  <2>2. ((a % p) + z) % p = (a + z) % p
    BY <1>1, <2>1, BeforePlus
  <2>3. QED
    BY <2>2 DEF z
<1>9. ((u % p) + (v % p)) % p = ((a % p) + y * (b % p)) % p
  BY <1>2, <1>4, <1>5, <1>6, <1>7, <1>8
<1>10. QED
  BY <1>9 DEF u, v, a, b, Combined

\* With the inverse of w, the multiple of w that is added makes x zero.
LEMMA Cancel ==
  ASSUME NEW p \in Nat, p > 1, NEW w \in 0 .. p - 1, NEW y \in 0 .. p - 1, (w * y) % p = 1,
         NEW x \in 0 .. p - 1
  PROVE  (x + w * ((((p - y) % p) * x) % p)) % p = 0
<1>1. PICK d \in Int : w * y = p * d + 1
  BY Remainder
<1> DEFINE q == p - y
           h == q * x
<1>2. (p - y) % p = IF y = 0 THEN 0 ELSE q
  <2>1. CASE y = 0
    <3>1. (0 + p * 1) % p = 0 % p /\ 0 % p = 0
      BY Shift
    <3>2. p - y = 0 + p * 1
      BY <2>1
    <3>3. QED
      BY <2>1, <3>1, <3>2
  <2>2. CASE y # 0
    BY <2>2
  <2>3. QED
    BY <2>1, <2>2
<1>3. y # 0
  <2> SUFFICES ASSUME y = 0 PROVE FALSE
    OBVIOUS
  <2>1. w * y = 0 /\ 0 % p = 0
    OBVIOUS
  <2>2. QED
    BY <2>1
<1>4. (p - y) % p = q /\ q \in Int /\ h \in Int /\ w * h \in Int
  BY <1>2, <1>3
<1>5. (x + w * (h % p)) % p = (x + w * h) % p
  <2> HIDE DEF h
  <2>1. p > 0 /\ w \in Int /\ x \in Int
    OBVIOUS
  <2>2. QED
    BY <1>4, <2>1, BeforeTimes, Zenon
<1>6. x + w * h = p * (w * x - d * x)
  <2>1. w * h = w * (p * x) - w * (y * x)
    <3>1. h = p * x - y * x
      OBVIOUS
    <3>2. p * x \in Int /\ y * x \in Int
      OBVIOUS
    <3> HIDE DEF h
    <3>3. QED
      BY <3>1, <3>2
  <2>2. w * (p * x) = p * (w * x)
    OBVIOUS
  <2>3. w * (y * x) = p * (d * x) + x
    <3>1. w * (y * x) = (w * y) * x
      OBVIOUS
    <3>2. (p * d + 1) * x = p * (d * x) + x
      OBVIOUS
    <3>3. QED
      BY <1>1, <3>1, <3>2
  <2>4. p * (w * x - d * x) = p * (w * x) - p * (d * x)
    OBVIOUS
  <2>5. p * (w * x) \in Int /\ p * (d * x) \in Int
    OBVIOUS
  <2> HIDE DEF h
  <2>6. QED
    BY <2>1, <2>2, <2>3, <2>4, <2>5
<1>7. (0 + p * (w * x - d * x)) % p = 0
  <2> DEFINE e == w * x - d * x
  <2>1. e \in Int /\ 0 % p = 0
    OBVIOUS
  <2> HIDE DEF e
  <2>2. (0 + p * e) % p = 0 % p
    BY <2>1, Shift
  <2>3. QED
    BY <2>1, <2>2 DEF e
<1>8. (x + w * h) % p = 0
  <2>1. p * (w * x - d * x) \in Int
    OBVIOUS
  <2> HIDE DEF h
  <2>2. QED
    BY <1>6, <1>7, <2>1
<1>9. QED
  BY <1>4, <1>5, <1>8

----------------------------------------------------------------------------
(***************************************************************************)
(* Sums, and the matrix that matgen makes.                                 *)
(***************************************************************************)
\* f begins with base, and goes on by step up to q.
Iterates(f, q, base, step, S) ==
  f \in [0 .. q -> S] /\ f[0] = base /\ \A i \in 1 .. q : f[i] = step[<<i, f[i - 1]>>]

\* There is such a function.
LEMMA Recursion ==
  ASSUME NEW S, NEW base \in S, NEW step \in [Nat \X S -> S], NEW q \in Nat
  PROVE  \E f : Iterates(f, q, base, step, S)
<1> DEFINE D == {r \in Nat : ~ \E f : Iterates(f, r, base, step, S)}
<1>1. SUFFICES ASSUME D # {} PROVE FALSE
  OBVIOUS
<1>2. PICK r \in D : \A t \in D : r <= t
  <2>1. D \subseteq Nat
    OBVIOUS
  <2> HIDE DEF D
  <2>2. QED
    BY <1>1, <2>1, Least
<1>3. CASE r = 0
  <2>1. Iterates([i \in 0 .. 0 |-> base], 0, base, step, S)
    BY DEF Iterates
  <2>2. QED
    BY <1>2, <1>3, <2>1
<1>4. CASE r # 0
  <2>1. r \in Nat /\ r - 1 \in Nat /\ r - 1 \notin D
    BY <1>2, <1>4
  <2>2. PICK f : Iterates(f, r - 1, base, step, S)
    BY <2>1
  <2> DEFINE g == [i \in 0 .. r |-> IF i = r THEN step[<<r, f[r - 1]>>] ELSE f[i]]
  <2>3. f[r - 1] \in S
    BY <2>1, <2>2 DEF Iterates
  <2>4. step[<<r, f[r - 1]>>] \in S
    BY <2>1, <2>3
  <2>5. \A i \in 0 .. r - 1 : f[i] \in S
    BY <2>1, <2>2 DEF Iterates
  <2>6. g \in [0 .. r -> S] /\ g[0] = base
    BY <2>1, <2>2, <2>4, <2>5, <1>4 DEF Iterates
  <2>7. \A i \in 1 .. r : g[i] = step[<<i, g[i - 1]>>]
    <3> TAKE i \in 1 .. r
    <3>1. i - 1 \in 0 .. r - 1 /\ g[i - 1] = f[i - 1]
      BY <2>1
    <3>2. CASE i = r
      BY <2>1, <3>1, <3>2
    <3>3. CASE i # r
      <4>1. g[i] = f[i] /\ i \in 1 .. r - 1
        BY <2>1, <3>3
      <4>2. f[i] = step[<<i, f[i - 1]>>]
        BY <2>2, <4>1 DEF Iterates
      <4> HIDE DEF g
      <4>3. QED
        BY <3>1, <4>1, <4>2
    <3>4. QED
      BY <3>2, <3>3
  <2>8. Iterates(g, r, base, step, S)
    BY <2>6, <2>7 DEF Iterates
  <2> HIDE DEF g
  <2>9. QED
    BY <1>2, <2>8
<1>5. QED
  BY <1>3, <1>4

\* The numbers, which are at least two.
LEMMA Prime == L!LinpackAssumption => P \in Nat /\ P > 1 /\ L!Field = 0 .. P - 1 /\ 0 \in L!Field /\ 1 \in L!Field
BY DEF L!LinpackAssumption, L!Field

\* The partial sums of f.
Adds(s, f, m) ==
  s \in [0 .. m -> L!Field] /\ s[0] = 0 /\ \A j \in 0 .. m - 1 : s[j + 1] = (s[j] + f[j]) % P

SumStep(f, m, s) == [j \in 0 .. m |-> IF j = 0 THEN 0 ELSE (s[j - 1] + f[j - 1]) % P]
SumAll(f, m) == CHOOSE s : s = SumStep(f, m, s)

\* What Sum adds up.
LEMMA SumIs ==
  ASSUME L!LinpackAssumption, NEW m \in Nat, NEW f \in [0 .. m - 1 -> Int]
  PROVE  \E s : Adds(s, f, m) /\ L!Sum(f, m) = s[m]
<1> DEFINE step == [x \in Nat \X L!Field |->
                      IF x[1] \in 1 .. m THEN (x[2] + f[x[1] - 1]) % P ELSE 0]
           s == SumAll(f, m)
<1>0. P \in Nat /\ P > 1 /\ L!Field = 0 .. P - 1 /\ 0 \in L!Field
  BY Prime
<1>1. step \in [Nat \X L!Field -> L!Field]
  <2> SUFFICES ASSUME NEW i \in Nat, NEW x \in L!Field
               PROVE  (IF i \in 1 .. m THEN (x + f[i - 1]) % P ELSE 0) \in L!Field
    OBVIOUS
  <2>1. CASE i \in 1 .. m
    <3> DEFINE y == x + f[i - 1]
    <3>1. y \in Int
      BY <1>0, <2>1
    <3> HIDE DEF y
    <3>2. y % P \in 0 .. P - 1
      BY <1>0, <3>1, Remainder
    <3>3. QED
      BY <1>0, <2>1, <3>2 DEF y
  <2>2. CASE i \notin 1 .. m
    BY <1>0, <2>2
  <2>3. QED
    BY <2>1, <2>2
<1>2. PICK g : Iterates(g, m, 0, step, L!Field)
  <2> HIDE DEF step
  <2>1. QED
    BY <1>0, <1>1, Recursion
<1>3. g = SumStep(f, m, g)
  <2>1. g \in [0 .. m -> L!Field] /\ g[0] = 0
    BY <1>2 DEF Iterates
  <2>2. \A i \in 1 .. m : g[i] = (g[i - 1] + f[i - 1]) % P
    <3> TAKE i \in 1 .. m
    <3>1. i \in Nat /\ i - 1 \in 0 .. m /\ g[i - 1] \in L!Field
      BY <2>1
    <3>2. <<i, g[i - 1]>> \in Nat \X L!Field
      BY <3>1
    <3>3. step[<<i, g[i - 1]>>] = (g[i - 1] + f[i - 1]) % P
      BY <3>2
    <3> HIDE DEF step
    <3>4. QED
      BY <1>2, <3>3 DEF Iterates
  <2>3. QED
    BY <2>1, <2>2 DEF SumStep
<1>4. s = SumStep(f, m, s)
  BY <1>3 DEF SumAll
<1>5. L!Sum(f, m) = s[m]
  BY Zenon DEF L!Sum, SumAll, SumStep
<1> HIDE DEF s, step
<1>6. s[0] = 0 /\ \A j \in 0 .. m - 1 : s[j + 1] = (s[j] + f[j]) % P
  <2>1. s[0] = 0
    BY <1>4 DEF SumStep
  <2>2. ASSUME NEW j \in 0 .. m - 1 PROVE s[j + 1] = (s[j] + f[j]) % P
    <3>1. j + 1 \in 0 .. m /\ j + 1 # 0 /\ (j + 1) - 1 = j
      OBVIOUS
    <3>2. QED
      BY <1>4, <3>1 DEF SumStep
  <2>3. QED
    BY <2>1, <2>2
<1>7. \A j \in 0 .. m : s[j] \in L!Field
  <2> DEFINE D == {j \in 0 .. m : s[j] \notin L!Field}
  <2>1. SUFFICES ASSUME D # {} PROVE FALSE
    OBVIOUS
  <2>2. PICK j \in D : \A i \in D : j <= i
    <3>1. D \subseteq Nat
      OBVIOUS
    <3> HIDE DEF D
    <3>2. QED
      BY <2>1, <3>1, Least
  <2>3. j # 0
    BY <1>0, <1>6, <2>2
  <2>4. j - 1 \in 0 .. m - 1 /\ j - 1 \notin D
    BY <2>2, <2>3
  <2>5. s[j - 1] \in Int /\ f[j - 1] \in Int
    BY <1>0, <2>4
  <2>6. s[j] = (s[j - 1] + f[j - 1]) % P
    BY <1>6, <2>4
  <2> DEFINE y == s[j - 1] + f[j - 1]
  <2>7. y \in Int
    BY <2>5
  <2> HIDE DEF y
  <2>8. y % P \in 0 .. P - 1
    BY <1>0, <2>7, Remainder
  <2>9. QED
    BY <1>0, <2>2, <2>6, <2>8 DEF y
<1>8. s \in [0 .. m -> L!Field]
  BY <1>4, <1>7 DEF SumStep
<1>9. QED
  BY <1>5, <1>6, <1>8 DEF Adds


\* What is not zero has its inverse.
LEMMA InverseIs ==
  ASSUME L!LinpackAssumption, NEW x \in L!Field \ {0}
  PROVE  L!Inverse1(x) \in L!Field /\ (x * L!Inverse1(x)) % P = 1
<1>1. \E y \in L!Field : (x * y) % P = 1
  BY DEF L!LinpackAssumption
<1>2. QED
  BY <1>1, Zenon DEF L!Inverse1

InitStep(q, g) == [i \in 0 .. q |-> IF i = 0 THEN 1325 ELSE (3125 * g[i - 1]) % 65536]

\* The pseudorandom numbers are numbers.
LEMMA InitIs ==
  ASSUME NEW q \in Nat
  PROVE  \A i \in 0 .. q : L!Random(q)[i] \in Nat
<1> DEFINE step == [x \in Nat \X Nat |-> (3125 * x[2]) % 65536]
           s == L!Random(q)
<1>1. step \in [Nat \X Nat -> Nat] /\ 1325 \in Nat
  OBVIOUS
<1>2. PICK g : Iterates(g, q, 1325, step, Nat)
  <2> DEFINE base == 1325
             nat == Nat
  <2>1. step \in [Nat \X nat -> nat] /\ base \in nat
    BY <1>1
  <2> HIDE DEF step, base, nat
  <2>2. \E g : Iterates(g, q, base, step, nat)
    BY <2>1, Recursion
  <2>3. QED
    BY <2>2 DEF base, nat
<1>3. g = InitStep(q, g)
  <2>1. g \in [0 .. q -> Nat] /\ g[0] = 1325
    BY <1>2 DEF Iterates
  <2>2. \A i \in 1 .. q : g[i] = (3125 * g[i - 1]) % 65536
    <3> TAKE i \in 1 .. q
    <3>1. i \in Nat /\ i - 1 \in 0 .. q /\ g[i - 1] \in Nat
      BY <2>1
    <3>2. <<i, g[i - 1]>> \in Nat \X Nat
      BY <3>1
    <3>3. step[<<i, g[i - 1]>>] = (3125 * g[i - 1]) % 65536
      BY <3>2
    <3> HIDE DEF step
    <3>4. QED
      BY <1>2, <3>3 DEF Iterates
  <2>3. QED
    BY <2>1, <2>2 DEF InitStep
<1>4. s = InitStep(q, s)
  <2>1. s = CHOOSE h : h = InitStep(q, h)
    BY DEF L!Random, InitStep
  <2> HIDE DEF s
  <2>2. QED
    BY <1>3, <2>1, Zenon
<1> HIDE DEF s, step
<1>5. SUFFICES ASSUME {i \in 0 .. q : s[i] \notin Nat} # {} PROVE FALSE
  BY DEF s
<1> DEFINE D == {i \in 0 .. q : s[i] \notin Nat}
<1>6. PICK i \in D : \A j \in D : i <= j
  <2>1. D \subseteq Nat
    OBVIOUS
  <2>2. D # {}
    BY <1>5
  <2> HIDE DEF D
  <2>3. QED
    BY <2>1, <2>2, Least
<1>7. i # 0
  BY <1>4, <1>6 DEF InitStep
<1>8. i - 1 \in 0 .. q /\ i - 1 \notin D
  BY <1>6, <1>7
<1>9. s[i - 1] \in Nat
  BY <1>8
<1>10. s[i] = (3125 * s[i - 1]) % 65536
  BY <1>4, <1>6, <1>7 DEF InitStep
<1>11. QED
  BY <1>6, <1>9, <1>10

\* The matrix that matgen makes is a matrix of numbers of the field.
LEMMA GeneratedIs ==
  ASSUME L!LinpackAssumption, NEW q \in Nat \ {0}
  PROVE  L!Generated(q) \in L!Matrices(q)
<1> DEFINE init == L!Random(q * q)
           inv == L!Inverse1(16384 % P)
           x(j, i) == ((init[j * q + i + 1] - 32768) * inv) % P
<1>0. P \in Nat /\ P > 1 /\ L!Field = 0 .. P - 1
  BY Prime
<1>1. L!Generated(q) = [j \in 0 .. q - 1 |-> [i \in 0 .. q - 1 |-> x(j, i)]]
  BY DEF L!Generated
<1>2. inv \in Int
  <2>1. 16384 % P \in 0 .. P - 1 /\ 16384 % P # 0
    BY <1>0, Remainder DEF L!LinpackAssumption
  <2>2. 16384 % P \in L!Field \ {0}
    BY <1>0, <2>1
  <2>3. inv \in L!Field
    BY <2>2, InverseIs
  <2>4. QED
    BY <1>0, <2>3
<1>3. ASSUME NEW j \in 0 .. q - 1, NEW i \in 0 .. q - 1
      PROVE  x(j, i) \in L!Field
  <2>1. j * q + i + 1 \in 0 .. q * q
    <3>1. j * q \in Nat /\ q * q \in Nat
      OBVIOUS
    <3>2. q * q - j * q = (q - j) * q
      OBVIOUS
    <3>3. (q - j) * q >= q
      <4>1. q - j >= 1 /\ q - j \in Int
        OBVIOUS
      <4>2. QED
        BY <4>1
    <3>4. QED
      BY <3>1, <3>2, <3>3
  <2>2. q * q \in Nat
    OBVIOUS
  <2>3. init[j * q + i + 1] \in Nat
    <3> DEFINE l == j * q + i + 1
               r == q * q
    <3>1. l \in 0 .. r /\ r \in Nat
      BY <2>1, <2>2
    <3> HIDE DEF l, r
    <3>2. L!Random(r)[l] \in Nat
      BY <3>1, InitIs
    <3>3. QED
      BY <3>2, Zenon DEF l, r
  <2> DEFINE y == init[j * q + i + 1]
  <2>4. y \in Int
    BY <2>3
  <2> HIDE DEF y, inv
  <2>5. (y - 32768) * inv \in Int
    BY <1>2, <2>4
  <2> DEFINE z == (y - 32768) * inv
  <2>6. z \in Int
    BY <2>5
  <2> HIDE DEF z
  <2>7. z % P \in 0 .. P - 1
    BY <1>0, <2>6, Remainder
  <2>8. QED
    BY <1>0, <2>7 DEF y, z
<1> HIDE DEF x
<1>4. QED
  BY <1>1, <1>3 DEF L!Matrices

----------------------------------------------------------------------------
(***************************************************************************)
(* The unrolled loops visit what the rolled ones do, in the same order.    *)
(***************************************************************************)
\* k indices from i on.
Span(i, k) == [j \in 1 .. k |-> i + j - 1]

\* One span after another is a span.
LEMMA SpanSpan ==
  ASSUME NEW i \in Nat, NEW k \in Nat, NEW l \in Nat
  PROVE  Span(i, k) \o Span(i + k, l) = Span(i, k + l)
<1> DEFINE f == Span(i, k)
           g == Span(i + k, l)
           h == f \o g
<1>1. f \in Seq(Int) /\ Len(f) = k /\ \A j \in 1 .. k : f[j] = i + j - 1
  BY DEF Span
<1>2. g \in Seq(Int) /\ Len(g) = l /\ \A j \in 1 .. l : g[j] = i + k + j - 1
  BY DEF Span
<1> HIDE DEF f, g
<1>3. h \in Seq(Int) /\ Len(h) = k + l
  <2>1. f \o g \in Seq(Int) /\ Len(f \o g) = Len(f) + Len(g)
    BY <1>1, <1>2, ConcatProperties
  <2>2. QED
    BY <1>1, <1>2, <2>1
<1>4. \A j \in 1 .. k + l : h[j] = i + j - 1
  <2> TAKE j \in 1 .. k + l
  <2>1. CASE j <= k
    BY <1>1, <1>2, <2>1
  <2>2. CASE j > k
    <3>1. j - k \in 1 .. l /\ h[j] = g[j - k]
      BY <1>1, <1>2, <2>2
    <3>2. g[j - k] = i + k + (j - k) - 1
      BY <1>2, <3>1
    <3> HIDE DEF h
    <3>3. QED
      BY <3>1, <3>2
  <2> HIDE DEF h
  <2>3. QED
    BY <2>1, <2>2
<1> HIDE DEF h
<1>5. h = [j \in 1 .. Len(h) |-> h[j]]
  BY <1>3
<1>6. h = [j \in 1 .. k + l |-> i + j - 1]
  BY <1>3, <1>4, <1>5
<1>7. QED
  BY <1>6 DEF f, g, h, Span

BlocksStep(m, width, g) ==
  [i \in Nat |-> IF i >= m THEN <<>> ELSE Span(i, width) \o g[i + width]]
BlocksAll(m, width) == CHOOSE g : g = BlocksStep(m, width, g)

\* The indices in blocks from i on: as many blocks as it takes.
Ahead(i, m, width) ==
  IF i >= m THEN <<>> ELSE Span(i, width * ((m - i + width - 1) \div width))

LEMMA BlockAhead ==
  ASSUME NEW m \in Nat, NEW width \in {4, 5}, NEW i \in Nat, i < m
  PROVE  Span(i, width) \o Ahead(i + width, m, width) = Ahead(i, m, width)
<1> DEFINE d == (m - i + width - 1) \div width
           e == (m - (i + width) + width - 1) \div width
<1>0. width \in Nat /\ i + width \in Nat
  OBVIOUS
<1>1. CASE i + width >= m
  <2>1. d = 1
    <3>1. CASE width = 4
      BY <1>1, <3>1
    <3>2. CASE width = 5
      BY <1>1, <3>2
    <3>3. QED
      BY <3>1, <3>2
  <2>2. Ahead(i + width, m, width) = <<>> /\ Ahead(i, m, width) = Span(i, width * 1)
    BY <1>1, <2>1 DEF Ahead
  <2>3. <<>> = Span(i + width, 0)
    BY DEF Span
  <2>4. Span(i, width) \o Span(i + width, 0) = Span(i, width + 0)
    BY <1>0, SpanSpan
  <2>5. width + 0 = width /\ width * 1 = width
    BY <1>0
  <2>6. QED
    BY <2>2, <2>3, <2>4, <2>5
<1>2. CASE i + width < m
  <2>1. e = d - 1 /\ e \in Nat /\ d \in Nat
    <3>1. CASE width = 4
      BY <1>2, <3>1
    <3>2. CASE width = 5
      BY <1>2, <3>2
    <3>3. QED
      BY <3>1, <3>2
  <2>2. Ahead(i + width, m, width) = Span(i + width, width * e) /\ Ahead(i, m, width) = Span(i, width * d)
    BY <1>2 DEF Ahead
  <2> HIDE DEF d, e
  <2>3. width * e \in Nat /\ width + width * e = width * d
    <3>1. CASE width = 4
      BY <2>1, <3>1
    <3>2. CASE width = 5
      BY <2>1, <3>2
    <3>3. QED
      BY <3>1, <3>2
  <2> DEFINE l == width * e
  <2>4. l \in Nat
    BY <2>3
  <2> HIDE DEF l
  <2>5. Span(i, width) \o Span(i + width, l) = Span(i, width + l)
    BY <1>0, <2>4, SpanSpan
  <2>6. QED
    BY <2>2, <2>3, <2>5 DEF l
<1>3. i + width >= m \/ i + width < m
  BY <1>0
<1> HIDE DEF d, e
<1>4. QED
  BY <1>1, <1>2, <1>3

\* What the loop over blocks visits.
LEMMA BlocksAre ==
  ASSUME NEW m \in Nat, NEW width \in {4, 5}, NEW from \in Nat
  PROVE  L!Blocks(from, m, width) = Ahead(from, m, width)
<1> DEFINE b == BlocksAll(m, width)
           a == [i \in Nat |-> Ahead(i, m, width)]
<1>0. width \in Nat /\ width > 0
  OBVIOUS
<1>1. L!Blocks(from, m, width) = b[from]
  BY Zenon DEF L!Blocks, BlocksAll, BlocksStep, Span
<1>2. a = BlocksStep(m, width, a)
  <2>1. ASSUME NEW i \in Nat
        PROVE  a[i] = IF i >= m THEN <<>> ELSE Span(i, width) \o a[i + width]
    <3>1. CASE i >= m
      BY <3>1 DEF Ahead
    <3>2. CASE ~(i >= m)
      <4>1. i < m /\ i + width \in Nat
        BY <1>0, <3>2
      <4>2. a[i] = Ahead(i, m, width) /\ a[i + width] = Ahead(i + width, m, width)
        BY <4>1
      <4> HIDE DEF a
      <4>3. QED
        BY <3>2, <4>1, <4>2, BlockAhead
    <3>3. QED
      BY <3>1, <3>2
  <2>2. \A i \in Nat : a[i] = IF i >= m THEN <<>> ELSE Span(i, width) \o a[i + width]
    BY <2>1
  <2>3. a = [i \in Nat |-> a[i]]
    OBVIOUS
  <2> HIDE DEF a
  <2>4. QED
    BY <2>2, <2>3, Zenon DEF BlocksStep
<1> HIDE DEF a
<1>3. b = BlocksStep(m, width, b)
  BY <1>2, Zenon DEF BlocksAll
<1> HIDE DEF b
<1>4. \A i \in Nat : b[i] = IF i >= m THEN <<>> ELSE Span(i, width) \o b[i + width]
  BY <1>3, Zenon DEF BlocksStep
<1> DEFINE D == {d \in Nat : \E i \in Nat : i + d = m /\ b[i] # Ahead(i, m, width)}
<1>5. D = {}
  <2> SUFFICES ASSUME D # {} PROVE FALSE
    OBVIOUS
  <2>1. PICK d \in D : \A e \in D : d <= e
    <3>1. D \subseteq Nat
      OBVIOUS
    <3> HIDE DEF D
    <3>2. QED
      BY <3>1, Least
  <2>2. PICK i \in Nat : i + d = m /\ b[i] # Ahead(i, m, width)
    BY <2>1
  <2>3. CASE d = 0
    BY <1>4, <2>2, <2>3 DEF Ahead
  <2>4. CASE d # 0
    <3>1. i < m /\ i + width \in Nat /\ d \in Nat
      BY <1>0, <2>1, <2>2, <2>4
    <3>2. b[i + width] = Ahead(i + width, m, width)
      <4>1. CASE i + width >= m
        BY <1>4, <3>1, <4>1 DEF Ahead
      <4>2. CASE i + width < m
        <5>1. d - width \in Nat /\ ~(d <= d - width) /\ (i + width) + (d - width) = m
          BY <1>0, <2>2, <3>1, <4>2
        <5>2. d - width \notin D
          BY <2>1, <5>1
        <5>3. QED
          BY <3>1, <5>1, <5>2
      <4>3. QED
        BY <1>0, <4>1, <4>2
    <3>3. b[i] = Span(i, width) \o b[i + width]
      <4>1. ~(i >= m)
        BY <3>1
      <4>2. QED
        BY <1>4, <4>1, Zenon
    <3>4. Span(i, width) \o Ahead(i + width, m, width) = Ahead(i, m, width)
      BY <3>1, BlockAhead
    <3>5. QED
      BY <2>2, <3>2, <3>3, <3>4, Zenon
  <2>5. QED
    BY <2>3, <2>4
<1>6. CASE from >= m
  BY <1>1, <1>4, <1>6 DEF Ahead
<1>7. CASE from < m
  <2>1. m - from \in Nat /\ from + (m - from) = m
    BY <1>7
  <2>2. m - from \notin D
    BY <1>5
  <2>3. QED
    BY <1>1, <2>1, <2>2
<1>8. QED
  BY <1>6, <1>7

\* The unrolled loops visit what the rolled ones do, in the same order.
LEMMA UnrolledIsRolled ==
  ASSUME NEW m \in Nat, NEW width \in {4, 5}
  PROVE  L!Unrolled(m, width) = L!Rolled(m)
<1> DEFINE rest == m % width
           d == (m - rest + width - 1) \div width
<1>1. rest \in Nat /\ (m < width => rest = m) /\ (m >= width => rest < m /\ width * d = m - rest)
  <2>1. CASE width = 4
    BY <2>1
  <2>2. CASE width = 5
    BY <2>2
  <2>3. QED
    BY <2>1, <2>2
<1>2. L!Unrolled(m, width)
        = Span(0, rest) \o (IF m < width THEN <<>> ELSE Ahead(rest, m, width))
  <2>1. \A r \in Nat : L!Rolled(r) = Span(0, r)
    BY DEF L!Rolled, Span
  <2>2. L!Blocks(rest, m, width) = Ahead(rest, m, width)
    <3> HIDE DEF rest
    <3>1. QED
      BY <1>1, BlocksAre
  <2>3. QED
    BY <1>1, <2>1, <2>2 DEF L!Unrolled
<1>3. L!Rolled(m) = Span(0, m)
  BY DEF L!Rolled, Span
<1> HIDE DEF rest, d
<1>4. CASE m < width
  <2>1. <<>> = Span(0 + rest, 0)
    BY DEF Span
  <2>2. Span(0, rest) \o Span(0 + rest, 0) = Span(0, rest + 0)
    BY <1>1, SpanSpan
  <2>3. rest + 0 = m
    BY <1>1, <1>4
  <2>4. QED
    BY <1>2, <1>3, <1>4, <2>1, <2>2, <2>3
<1>5. CASE m >= width
  <2>1. Ahead(rest, m, width) = Span(rest, width * d)
    BY <1>1, <1>5 DEF Ahead, d
  <2>2. m - rest \in Nat /\ 0 + rest = rest /\ rest + (m - rest) = m /\ ~(m < width)
    BY <1>1, <1>5
  <2>3. Span(0, rest) \o Span(0 + rest, m - rest) = Span(0, rest + (m - rest))
    BY <1>1, <2>2, SpanSpan
  <2>4. QED
    BY <1>1, <1>2, <1>3, <1>5, <2>1, <2>2, <2>3
<1>6. QED
  BY <1>4, <1>5

----------------------------------------------------------------------------
(***************************************************************************)
(* daxpy and dscal, which are folds over the indices: an element of the    *)
(* vector is visited once.                                                 *)
(***************************************************************************)
Row == 0 .. order - 1
Vector == [Row -> L!Field]

\* Of the vector y, the elements at the places of s, from `from' on, are those of val.
Touched(s, from, val, y) ==
  [i \in Row |-> IF (i - from) + 1 \in s THEN val[i] ELSE y[i]]

\* The greatest element of some indices.
LEMMA LastIndex ==
  ASSUME NEW m \in Nat, NEW s, s \subseteq 1 .. m, s # {}
  PROVE  L!Max(s) \in s /\ \A j \in s : j <= L!Max(s)
<1> DEFINE D == {d \in Nat : m - d \in s}
<1>1. PICK x \in s : TRUE
  OBVIOUS
<1>2. D \subseteq Nat /\ \A j \in s : j \in Int /\ m - j \in D
  OBVIOUS
<1>3. D # {}
  BY <1>1, <1>2
<1>4. PICK d \in D : \A e \in D : d <= e
  BY <1>2, <1>3, Least
<1>5. PICK z \in s : \A j \in s : z >= j
  <2>1. d \in Int /\ m - d \in s /\ \A j \in s : d <= m - j
    BY <1>2, <1>4
  <2>2. \A j \in s : m - d >= j
    BY <1>2, <2>1
  <2>3. QED
    BY <2>1, <2>2
<1>6. L!Max(s) \in s /\ \A j \in s : L!Max(s) >= j
  BY <1>5 DEF L!Max
<1>7. QED
  BY <1>6

\* The greatest of the first k indices.
LEMMA MaxOfFirst ==
  ASSUME NEW k \in Nat, k > 0
  PROVE  L!Max(1 .. k) = k /\ (1 .. k) \ {L!Max(1 .. k)} = 1 .. k - 1 /\ 1 .. k # {}
<1> DEFINE s == 1 .. k
           l == L!Max(s)
<1>1. s # {} /\ s \subseteq 1 .. k /\ k \in s
  OBVIOUS
<1>2. l \in s /\ \A j \in s : j <= l
  <2> HIDE DEF s
  <2>1. QED
    BY <1>1, LastIndex
<1> HIDE DEF l
<1>3. l = k
  BY <1>1, <1>2
<1>4. QED
  BY <1>3 DEF l

\* What an element more makes of it.
Extends(m, from, val, y) ==
  \A s \in SUBSET (1 .. m), x \in 1 .. m :
    x \notin s =>
      /\ from + (x - 1) \in Row
      /\ Touched(s, from, val, y)[from + (x - 1)] = y[from + (x - 1)]
      /\ [Touched(s, from, val, y) EXCEPT ![from + (x - 1)] = val[from + (x - 1)]]
           = Touched(s \cup {x}, from, val, y)

LEMMA TouchMore ==
  ASSUME NEW m \in Nat, NEW from \in Nat, order \in Nat, from + m <= order, NEW val, NEW y
  PROVE  Extends(m, from, val, y)
<1> SUFFICES
      ASSUME NEW s \in SUBSET (1 .. m), NEW x \in 1 .. m, x \notin s
      PROVE  /\ from + (x - 1) \in Row
             /\ Touched(s, from, val, y)[from + (x - 1)] = y[from + (x - 1)]
             /\ [Touched(s, from, val, y) EXCEPT ![from + (x - 1)] = val[from + (x - 1)]]
                  = Touched(s \cup {x}, from, val, y)
  BY DEF Extends
<1> DEFINE k == from + (x - 1)
           z == Touched(s, from, val, y)
<1>1. k \in Row /\ (k - from) + 1 = x
  BY DEF Row
<1>2. z[k] = y[k]
  BY <1>1 DEF Touched
<1> DEFINE new == val[k]
<1>3. [z EXCEPT ![k] = new] = Touched(s \cup {x}, from, val, y)
  <2>1. \A i \in Row : (i - from) + 1 \in s \cup {x} <=> (i - from) + 1 \in s \/ i = k
    BY DEF Row
  <2>2. [z EXCEPT ![k] = new] = [i \in Row |-> IF i = k THEN val[k] ELSE z[i]]
    <3>1. DOMAIN z = Row
      BY DEF Touched
    <3>2. [z EXCEPT ![k] = new] = [i \in DOMAIN z |-> IF i = k THEN new ELSE z[i]]
      <4> HIDE DEF z, k
      <4>1. QED
        OBVIOUS
    <3> HIDE DEF z, k
    <3>3. QED
      BY <3>1, <3>2
  <2>3. \A i \in Row : (IF i = k THEN val[k] ELSE z[i]) = IF (i - from) + 1 \in s \cup {x} THEN val[i] ELSE y[i]
    <3>1. \A i \in Row : z[i] = IF (i - from) + 1 \in s THEN val[i] ELSE y[i]
      BY DEF Touched
    <3> HIDE DEF z, k
    <3>2. QED
      BY <2>1, <3>1
  <2> HIDE DEF z, k
  <2>4. QED
    BY <2>2, <2>3 DEF Touched
<1>4. QED
  BY <1>1, <1>2, <1>3

\* Nothing touched is the vector itself.
LEMMA TouchNone ==
  ASSUME NEW from, NEW val, NEW y \in Vector
  PROVE  Touched({}, from, val, y) = y
BY DEF Touched, Vector

\* A fold that touches an element more at each index touches them all.
Touches(g, from, val, y, k) == g[1 .. k] = Touched(1 .. k, from, val, y)

LEMMA FoldTouches ==
  ASSUME NEW m \in Nat, NEW from, NEW val, NEW y, NEW g, Touches(g, from, val, y, 0),
         \A k \in 1 .. m : Touches(g, from, val, y, k - 1) => Touches(g, from, val, y, k)
  PROVE  Touches(g, from, val, y, m)
<1> DEFINE D == {k \in 0 .. m : ~Touches(g, from, val, y, k)}
<1>1. CASE D = {}
  BY <1>1
<1>2. CASE D # {}
  <2>1. PICK k \in D : \A j \in D : k <= j
    <3>1. D \subseteq Nat
      OBVIOUS
    <3> HIDE DEF D
    <3>2. QED
      BY <1>2, <3>1, Least
  <2>2. k # 0
    BY <2>1
  <2>3. k \in 1 .. m /\ k - 1 \in 0 .. m /\ k - 1 \notin D
    BY <2>1, <2>2
  <2>4. QED
    BY <2>1, <2>3
<1>3. QED
  BY <1>1, <1>2

AxpyStep(m, da, dx, y, from, g) ==
  [s \in SUBSET (DOMAIN L!Rolled(m)) |->
     IF s = {} THEN y
     ELSE [g[s \ {L!Max(s)}] EXCEPT ![from + L!Rolled(m)[L!Max(s)]] =
             (@ + da * dx[from + L!Rolled(m)[L!Max(s)]]) % P]]
AxpyAll(m, da, dx, y, from) == CHOOSE g : g = AxpyStep(m, da, dx, y, from, g)

\* A fold of Axpy is the fixpoint of AxpyStep, as the fold takes the last index first.
LEMMA AxpyIs ==
  ASSUME order \in Nat, NEW m \in Nat, NEW from \in Nat, from + m <= order,
         NEW da, da # 0, NEW dx, NEW y \in Vector
  PROVE  L!Axpy(L!Rolled(m), da, dx, y, from)
           = Touched(1 .. m, from, [i \in Row |-> (y[i] + da * dx[i]) % P], y)
<1> DEFINE val == [i \in Row |-> (y[i] + da * dx[i]) % P]
           T(s) == Touched(s, from, val, y)
           g == AxpyAll(m, da, dx, y, from)
           h == [s \in SUBSET (1 .. m) |-> T(s)]
<1>1. DOMAIN L!Rolled(m) = 1 .. m /\ \A x \in 1 .. m : L!Rolled(m)[x] = x - 1
  BY DEF L!Rolled
<1>2. L!Axpy(L!Rolled(m), da, dx, y, from) = g[1 .. m]
  <2>1. L!Axpy(L!Rolled(m), da, dx, y, from) = AxpyAll(m, da, dx, y, from)[DOMAIN L!Rolled(m)]
    BY Zenon DEF L!Axpy, L!FoldLeft, L!MapThenFoldSet, AxpyAll, AxpyStep
  <2>2. QED
    BY <1>1, <2>1
<1>0. Extends(m, from, val, y)
  <2> HIDE DEF val
  <2>1. QED
    BY TouchMore
<1>3. ASSUME NEW s \in SUBSET (1 .. m), s # {}
      PROVE  /\ L!Max(s) \in 1 .. m /\ L!Max(s) \in s
             /\ [T(s \ {L!Max(s)}) EXCEPT ![from + (L!Max(s) - 1)] =
                   (@ + da * dx[from + (L!Max(s) - 1)]) % P] = T(s)
  <2> DEFINE x == L!Max(s)
             k == from + (x - 1)
             z == T(s \ {x})
  <2>1. x \in s /\ x \in 1 .. m
    BY <1>3, LastIndex
  <2> HIDE DEF x
  <2>2. s \ {x} \in SUBSET (1 .. m) /\ x \notin s \ {x} /\ (s \ {x}) \cup {x} = s
    BY <2>1
  <2>3. k \in Row /\ z[k] = y[k] /\ [z EXCEPT ![k] = val[k]] = T(s)
    <3> DEFINE r == s \ {x}
    <3>1. r \in SUBSET (1 .. m) /\ x \notin r /\ r \cup {x} = s
      BY <2>2
    <3> HIDE DEF val, r
    <3>2. /\ from + (x - 1) \in Row
          /\ Touched(r, from, val, y)[from + (x - 1)] = y[from + (x - 1)]
          /\ [Touched(r, from, val, y) EXCEPT ![from + (x - 1)] = val[from + (x - 1)]]
               = Touched(r \cup {x}, from, val, y)
      BY <1>0, <2>1, <3>1 DEF Extends
    <3>3. QED
      BY <3>1, <3>2 DEF r
  <2>4. (z[k] + da * dx[k]) % P = val[k]
    BY <2>3
  <2>5. [z EXCEPT ![k] = (z[k] + da * dx[k]) % P] = T(s)
    <3> HIDE DEF val, z, k, T
    <3>1. QED
      BY <2>3, <2>4
  <2>6. QED
    BY <2>1, <2>5 DEF x
<1>4. ASSUME NEW f, NEW s \in SUBSET (1 .. m)
      PROVE  AxpyStep(m, da, dx, y, from, f)[s] =
               IF s = {} THEN y
               ELSE [f[s \ {L!Max(s)}] EXCEPT ![from + (L!Max(s) - 1)] =
                       (@ + da * dx[from + (L!Max(s) - 1)]) % P]
  <2>1. CASE s = {}
    BY <1>1, <2>1 DEF AxpyStep
  <2>2. CASE s # {}
    <3>1. L!Rolled(m)[L!Max(s)] = L!Max(s) - 1
      BY <1>1, <1>3, <2>2
    <3>2. QED
      BY <1>1, <2>2, <3>1 DEF AxpyStep
  <2>3. QED
    BY <2>1, <2>2
<1>5. h = AxpyStep(m, da, dx, y, from, h)
  <2>1. ASSUME NEW s \in SUBSET (1 .. m)
        PROVE  h[s] = AxpyStep(m, da, dx, y, from, h)[s]
    <3>1. CASE s = {}
      <4>1. T(s) = y
        <5> HIDE DEF val
        <5>1. QED
          BY <3>1, TouchNone
      <4>2. AxpyStep(m, da, dx, y, from, h)[s] = y
        <5> HIDE DEF h
        <5>1. QED
          BY <1>4, <3>1
      <4>3. QED
        BY <4>1, <4>2
    <3>2. CASE s # {}
      <4>1. s \ {L!Max(s)} \in SUBSET (1 .. m)
        OBVIOUS
      <4>2. h[s \ {L!Max(s)}] = T(s \ {L!Max(s)}) /\ h[s] = T(s)
        BY <4>1
      <4>3. AxpyStep(m, da, dx, y, from, h)[s] =
              [h[s \ {L!Max(s)}] EXCEPT ![from + (L!Max(s) - 1)] =
                 (@ + da * dx[from + (L!Max(s) - 1)]) % P]
        <5> HIDE DEF h
        <5>1. QED
          BY <1>4, <3>2
      <4> HIDE DEF h, T
      <4>4. QED
        BY <1>3, <3>2, <4>2, <4>3
    <3>3. QED
      BY <3>1, <3>2
  <2>2. h = [s \in SUBSET (1 .. m) |-> h[s]]
    OBVIOUS
  <2>3. AxpyStep(m, da, dx, y, from, h)
          = [s \in SUBSET (1 .. m) |-> AxpyStep(m, da, dx, y, from, h)[s]]
    <3> HIDE DEF h
    <3>1. QED
      BY <1>1 DEF AxpyStep
  <2> HIDE DEF h
  <2>4. QED
    BY <2>1, <2>2, <2>3
<1>6. g = AxpyStep(m, da, dx, y, from, g)
  BY <1>5, Zenon DEF AxpyAll
<1> HIDE DEF g, h, val
<1>7. g[1 .. 0] = T({})
  <2>1. 1 .. 0 = {}
    OBVIOUS
  <2>2. g[{}] = y
    BY <1>4, <1>6
  <2>3. QED
    BY <2>1, <2>2, TouchNone
<1>8. ASSUME NEW k \in 1 .. m, g[1 .. k - 1] = T(1 .. k - 1)
      PROVE  g[1 .. k] = T(1 .. k)
  <2> DEFINE s == 1 .. k
  <2>1. s \in SUBSET (1 .. m) /\ s # {} /\ s \ {L!Max(s)} = 1 .. k - 1
    BY MaxOfFirst
  <2> HIDE DEF s, T
  <2>2. AxpyStep(m, da, dx, y, from, g)[s] =
          [g[s \ {L!Max(s)}] EXCEPT ![from + (L!Max(s) - 1)] =
             (@ + da * dx[from + (L!Max(s) - 1)]) % P]
    BY <1>4, <2>1
  <2>3. AxpyStep(m, da, dx, y, from, g)[s] = T(s)
    BY <1>3, <1>8, <2>1, <2>2
  <2>4. QED
    BY <1>6, <2>3 DEF s
<1>9. g[1 .. m] = T(1 .. m)
  <2>1. Touches(g, from, val, y, 0)
    <3>1. 1 .. 0 = {}
      OBVIOUS
    <3>2. QED
      BY <1>7, <3>1 DEF Touches
  <2>2. \A k \in 1 .. m : Touches(g, from, val, y, k - 1) => Touches(g, from, val, y, k)
    BY <1>8, Zenon DEF Touches
  <2>3. Touches(g, from, val, y, m)
    BY <2>1, <2>2, FoldTouches
  <2>4. QED
    BY <2>3 DEF Touches
<1>10. QED
  BY <1>2, <1>9 DEF val


ScalStep(m, da, y, from, g) ==
  [s \in SUBSET (DOMAIN L!Rolled(m)) |->
     IF s = {} THEN y
     ELSE [g[s \ {L!Max(s)}] EXCEPT ![from + L!Rolled(m)[L!Max(s)]] = (da * @) % P]]
ScalAll(m, da, y, from) == CHOOSE g : g = ScalStep(m, da, y, from, g)

\* ... and one of Scal is that of ScalStep.
LEMMA ScalIs ==
  ASSUME order \in Nat, NEW m \in Nat, NEW from \in Nat, from + m <= order,
         NEW da, NEW y \in Vector
  PROVE  L!Scal(L!Rolled(m), da, y, from)
           = Touched(1 .. m, from, [i \in Row |-> (da * y[i]) % P], y)
<1> DEFINE val == [i \in Row |-> (da * y[i]) % P]
           T(s) == Touched(s, from, val, y)
           g == ScalAll(m, da, y, from)
           h == [s \in SUBSET (1 .. m) |-> T(s)]
<1>1. DOMAIN L!Rolled(m) = 1 .. m /\ \A x \in 1 .. m : L!Rolled(m)[x] = x - 1
  BY DEF L!Rolled
<1>2. L!Scal(L!Rolled(m), da, y, from) = g[1 .. m]
  <2>1. L!Scal(L!Rolled(m), da, y, from) = ScalAll(m, da, y, from)[DOMAIN L!Rolled(m)]
    BY Zenon DEF L!Scal, L!FoldLeft, L!MapThenFoldSet, ScalAll, ScalStep
  <2>2. QED
    BY <1>1, <2>1
<1>0. Extends(m, from, val, y)
  <2> HIDE DEF val
  <2>1. QED
    BY TouchMore
<1>3. ASSUME NEW s \in SUBSET (1 .. m), s # {}
      PROVE  /\ L!Max(s) \in 1 .. m /\ L!Max(s) \in s
             /\ [T(s \ {L!Max(s)}) EXCEPT ![from + (L!Max(s) - 1)] = (da * @) % P] = T(s)
  <2> DEFINE x == L!Max(s)
             k == from + (x - 1)
             z == T(s \ {x})
  <2>1. x \in s /\ x \in 1 .. m
    BY <1>3, LastIndex
  <2> HIDE DEF x
  <2>2. s \ {x} \in SUBSET (1 .. m) /\ x \notin s \ {x} /\ (s \ {x}) \cup {x} = s
    BY <2>1
  <2>3. k \in Row /\ z[k] = y[k] /\ [z EXCEPT ![k] = val[k]] = T(s)
    <3> DEFINE r == s \ {x}
    <3>1. r \in SUBSET (1 .. m) /\ x \notin r /\ r \cup {x} = s
      BY <2>2
    <3> HIDE DEF val, r
    <3>2. /\ from + (x - 1) \in Row
          /\ Touched(r, from, val, y)[from + (x - 1)] = y[from + (x - 1)]
          /\ [Touched(r, from, val, y) EXCEPT ![from + (x - 1)] = val[from + (x - 1)]]
               = Touched(r \cup {x}, from, val, y)
      BY <1>0, <2>1, <3>1 DEF Extends
    <3>3. QED
      BY <3>1, <3>2 DEF r
  <2>4. (da * z[k]) % P = val[k]
    BY <2>3
  <2>5. [z EXCEPT ![k] = (da * z[k]) % P] = T(s)
    <3> HIDE DEF val, z, k, T
    <3>1. QED
      BY <2>3, <2>4
  <2>6. QED
    BY <2>1, <2>5 DEF x
<1>4. ASSUME NEW f, NEW s \in SUBSET (1 .. m)
      PROVE  ScalStep(m, da, y, from, f)[s] =
               IF s = {} THEN y
               ELSE [f[s \ {L!Max(s)}] EXCEPT ![from + (L!Max(s) - 1)] = (da * @) % P]
  <2>1. CASE s = {}
    BY <1>1, <2>1 DEF ScalStep
  <2>2. CASE s # {}
    <3>1. L!Rolled(m)[L!Max(s)] = L!Max(s) - 1
      BY <1>1, <1>3, <2>2
    <3>2. QED
      BY <1>1, <2>2, <3>1 DEF ScalStep
  <2>3. QED
    BY <2>1, <2>2
<1>5. h = ScalStep(m, da, y, from, h)
  <2>1. ASSUME NEW s \in SUBSET (1 .. m)
        PROVE  h[s] = ScalStep(m, da, y, from, h)[s]
    <3>1. CASE s = {}
      <4>1. T(s) = y
        <5> HIDE DEF val
        <5>1. QED
          BY <3>1, TouchNone
      <4>2. ScalStep(m, da, y, from, h)[s] = y
        <5> HIDE DEF h
        <5>1. QED
          BY <1>4, <3>1
      <4>3. QED
        BY <4>1, <4>2
    <3>2. CASE s # {}
      <4>1. s \ {L!Max(s)} \in SUBSET (1 .. m)
        OBVIOUS
      <4>2. h[s \ {L!Max(s)}] = T(s \ {L!Max(s)}) /\ h[s] = T(s)
        BY <4>1
      <4>3. ScalStep(m, da, y, from, h)[s] =
              [h[s \ {L!Max(s)}] EXCEPT ![from + (L!Max(s) - 1)] = (da * @) % P]
        <5> HIDE DEF h
        <5>1. QED
          BY <1>4, <3>2
      <4> HIDE DEF h, T
      <4>4. QED
        BY <1>3, <3>2, <4>2, <4>3
    <3>3. QED
      BY <3>1, <3>2
  <2>2. h = [s \in SUBSET (1 .. m) |-> h[s]]
    OBVIOUS
  <2>3. ScalStep(m, da, y, from, h)
          = [s \in SUBSET (1 .. m) |-> ScalStep(m, da, y, from, h)[s]]
    <3> HIDE DEF h
    <3>1. QED
      BY <1>1 DEF ScalStep
  <2> HIDE DEF h
  <2>4. QED
    BY <2>1, <2>2, <2>3
<1>6. g = ScalStep(m, da, y, from, g)
  BY <1>5, Zenon DEF ScalAll
<1> HIDE DEF g, h, val
<1>7. g[1 .. 0] = T({})
  <2>1. 1 .. 0 = {}
    OBVIOUS
  <2>2. g[{}] = y
    BY <1>4, <1>6
  <2>3. QED
    BY <2>1, <2>2, TouchNone
<1>8. ASSUME NEW k \in 1 .. m, g[1 .. k - 1] = T(1 .. k - 1)
      PROVE  g[1 .. k] = T(1 .. k)
  <2> DEFINE s == 1 .. k
  <2>1. s \in SUBSET (1 .. m) /\ s # {} /\ s \ {L!Max(s)} = 1 .. k - 1
    BY MaxOfFirst
  <2> HIDE DEF s, T
  <2>2. ScalStep(m, da, y, from, g)[s] =
          [g[s \ {L!Max(s)}] EXCEPT ![from + (L!Max(s) - 1)] = (da * @) % P]
    BY <1>4, <2>1
  <2>3. ScalStep(m, da, y, from, g)[s] = T(s)
    BY <1>3, <1>8, <2>1, <2>2
  <2>4. QED
    BY <1>6, <2>3 DEF s
<1>9. g[1 .. m] = T(1 .. m)
  <2>1. Touches(g, from, val, y, 0)
    <3>1. 1 .. 0 = {}
      OBVIOUS
    <3>2. QED
      BY <1>7, <3>1 DEF Touches
  <2>2. \A k \in 1 .. m : Touches(g, from, val, y, k - 1) => Touches(g, from, val, y, k)
    BY <1>8, Zenon DEF Touches
  <2>3. Touches(g, from, val, y, m)
    BY <2>1, <2>2, FoldTouches
  <2>4. QED
    BY <2>3 DEF Touches
<1>10. QED
  BY <1>2, <1>9 DEF val

\* What daxpy and dscal do, rolled and unrolled.
LEMMA DaxpyIs ==
  ASSUME order \in Nat, NEW m \in Nat, NEW from \in Nat, from + m <= order,
         L!LinpackAssumption, NEW da \in L!Field, NEW dx \in Vector, NEW y \in Vector
  PROVE  L!daxpy(m, da, dx, y, from)
           = [i \in Row |-> IF i >= from /\ i < from + m THEN (y[i] + da * dx[i]) % P ELSE y[i]]
<1> DEFINE val == [i \in Row |-> (y[i] + da * dx[i]) % P]
<1>1. L!daxpy(m, da, dx, y, from) = L!Axpy(L!Rolled(m), da, dx, y, from)
  BY UnrolledIsRolled DEF L!daxpy, L!daxpy_r, L!daxpy_ur
<1>2. CASE da = 0
  <2>1. L!daxpy(m, da, dx, y, from) = y
    BY <1>1, <1>2 DEF L!Axpy
  <2>2. \A i \in Row : (y[i] + da * dx[i]) % P = y[i]
    <3> TAKE i \in Row
    <3>1. y[i] \in 0 .. P - 1 /\ dx[i] \in Int /\ P \in Nat
      BY Prime DEF Vector
    <3>2. y[i] + 0 * dx[i] = y[i] /\ y[i] % P = y[i]
      BY <3>1
    <3>3. QED
      BY <1>2, <3>2
  <2>3. y = [i \in Row |-> y[i]]
    BY DEF Vector
  <2>4. QED
    BY <2>1, <2>2, <2>3
<1>3. CASE da # 0
  <2>1. L!daxpy(m, da, dx, y, from) = Touched(1 .. m, from, val, y)
    BY <1>1, <1>3, AxpyIs
  <2>2. \A i \in Row : (i - from) + 1 \in 1 .. m <=> i >= from /\ i < from + m
    BY DEF Row
  <2>3. QED
    BY <2>1, <2>2 DEF Touched
<1>4. QED
  BY <1>2, <1>3

LEMMA DscalIs ==
  ASSUME order \in Nat, NEW m \in Nat, NEW from \in Nat, from + m <= order,
         NEW da \in L!Field, NEW y \in Vector
  PROVE  L!dscal(m, da, y, from)
           = [i \in Row |-> IF i >= from /\ i < from + m THEN (da * y[i]) % P ELSE y[i]]
<1> DEFINE val == [i \in Row |-> (da * y[i]) % P]
<1>1. L!dscal(m, da, y, from) = L!Scal(L!Rolled(m), da, y, from)
  BY UnrolledIsRolled DEF L!dscal, L!dscal_r, L!dscal_ur
<1>2. L!dscal(m, da, y, from) = Touched(1 .. m, from, val, y)
  BY <1>1, ScalIs
<1>3. \A i \in Row : (i - from) + 1 \in 1 .. m <=> i >= from /\ i < from + m
  BY DEF Row
<1>4. QED
  BY <1>2, <1>3 DEF Touched


----------------------------------------------------------------------------
(***************************************************************************)
(* A column of dgefa.                                                      *)
(***************************************************************************)
\* The pivot is the first of the largest, and is zero only if all are.
LEMMA IdamaxIs ==
  ASSUME L!LinpackAssumption, order \in Nat, NEW k \in Row, NEW x \in Vector
  PROVE  LET l == L!idamax(x, k)
         IN /\ l \in Row /\ l >= k
            /\ x[l] = 0 => l = k /\ \A j \in k .. order - 1 : x[j] = 0
<1> DEFINE Z == k .. order - 1
           abs == [j \in Z |-> L!Abs(x[j])]
           l == L!idamax(x, k)
<1>1. k \in Z /\ Z \subseteq Row /\ Z \subseteq Nat
  BY DEF Row
<1>2. \A j \in Z : abs[j] \in 0 .. P /\ (abs[j] = 0 <=> x[j] = 0)
  <2> TAKE j \in Z
  <2>1. x[j] \in 0 .. P - 1 /\ P \in Nat /\ P > 1
    BY <1>1, Prime DEF Vector
  <2>2. QED
    BY <2>1 DEF L!Abs
<1>3. PICK z \in Z : \A j \in Z : abs[j] <= abs[z]
  <2> DEFINE D == {P - abs[j] : j \in Z}
  <2>1. D \subseteq Nat /\ D # {}
    <3>1. P \in Nat
      BY Prime
    <3> HIDE DEF abs
    <3>2. QED
      BY <1>1, <1>2, <3>1
  <2>2. PICK d \in D : \A e \in D : d <= e
    <3> HIDE DEF D
    <3>1. QED
      BY <2>1, Least
  <2>3. PICK z \in Z : d = P - abs[z]
    BY <2>2
  <2>4. \A j \in Z : P - abs[z] <= P - abs[j]
    BY <2>2, <2>3
  <2>5. P \in Nat
    BY Prime
  <2> HIDE DEF abs
  <2>6. QED
    BY <1>2, <2>4, <2>5
<1>4. PICK i \in Z : abs[i] = abs[z] /\ \A j \in Z : abs[j] = abs[z] => i <= j
  <2> DEFINE D == {j \in Z : abs[j] = abs[z]}
  <2>1. D \subseteq Nat /\ D # {}
    BY <1>1
  <2>2. PICK d \in D : \A e \in D : d <= e
    <3> HIDE DEF D
    <3>1. QED
      BY <2>1, Least
  <2>3. QED
    BY <2>2
<1>5. /\ l \in Z
      /\ \A j \in Z : abs[j] < abs[l] \/ (abs[j] = abs[l] /\ l <= j)
  <2>1. \A j \in Z : abs[j] < abs[i] \/ (abs[j] = abs[i] /\ i <= j)
    <3> HIDE DEF abs
    <3>1. QED
      BY <1>1, <1>2, <1>3, <1>4
  <2>2. \E q \in Z : \A j \in Z : L!Abs(x[j]) < L!Abs(x[q]) \/ (L!Abs(x[j]) = L!Abs(x[q]) /\ q <= j)
    BY <2>1
  <2>3. l = CHOOSE q \in Z :
              \A j \in Z : L!Abs(x[j]) < L!Abs(x[q]) \/ (L!Abs(x[j]) = L!Abs(x[q]) /\ q <= j)
    BY DEF L!idamax
  <2>4. /\ l \in Z
        /\ \A j \in Z : L!Abs(x[j]) < L!Abs(x[l]) \/ (L!Abs(x[j]) = L!Abs(x[l]) /\ l <= j)
    <3> HIDE DEF l, Z
    <3>1. QED
      BY <2>2, <2>3, Zenon
  <2>5. QED
    BY <2>4
<1> HIDE DEF l, abs
<1>6. ASSUME x[l] = 0
      PROVE  l = k /\ \A j \in Z : x[j] = 0
  <2>1. abs[l] = 0
    BY <1>2, <1>5, <1>6
  <2>2. \A j \in Z : abs[j] = 0 /\ l <= j
    BY <1>1, <1>2, <1>5, <2>1
  <2>3. l <= k /\ l >= k
    BY <1>1, <1>5, <2>2
  <2>4. QED
    BY <1>1, <1>2, <1>5, <2>2, <2>3
<1>7. l \in Row /\ l >= k
  BY <1>1, <1>5
<1>8. QED
  BY <1>6, <1>7 DEF l

\* Two elements are interchanged.
LEMMA SwapIs ==
  ASSUME NEW x \in Vector, NEW i \in Row, NEW j \in Row
  PROVE  /\ L!Swap(x, i, j) \in Vector
         /\ L!Swap(x, i, j)[i] = x[j] /\ L!Swap(x, i, j)[j] = x[i]
         /\ \A r \in Row \ {i, j} : L!Swap(x, i, j)[r] = x[r]
BY DEF Vector, L!Swap

\* What a column of dgefa, or of dgesl, does to a vector: a pivot goes up to row i, and
\* multiples of it are added to the rows below.
Stage(pivot, multiplier, i, x) ==
  LET w == L!Swap(x, pivot, i)
  IN [r \in Row |-> IF r > i THEN (w[r] + w[i] * multiplier[r]) % P ELSE w[r]]

\* Types.
LEMMA StageIsVector ==
  ASSUME L!LinpackAssumption, NEW pivot \in Row, NEW multiplier \in Vector, NEW i \in Row,
         NEW x \in Vector
  PROVE  Stage(pivot, multiplier, i, x) \in Vector
<1> DEFINE w == L!Swap(x, pivot, i)
<1>1. w \in Vector
  BY SwapIs
<1> HIDE DEF w
<1>2. ASSUME NEW r \in Row
      PROVE  (IF r > i THEN (w[r] + w[i] * multiplier[r]) % P ELSE w[r]) \in L!Field
  <2>1. P \in Nat /\ P > 1 /\ L!Field = 0 .. P - 1
    BY Prime
  <2>2. w[r] \in L!Field /\ w[i] \in Int /\ multiplier[r] \in Int /\ w[r] \in Int
    BY <1>1, <2>1 DEF Vector
  <2> DEFINE y == w[r] + w[i] * multiplier[r]
  <2>3. y \in Int
    BY <2>2
  <2> HIDE DEF y
  <2>4. y % P \in 0 .. P - 1
    BY <2>1, <2>3, Remainder
  <2>5. QED
    BY <2>1, <2>2, <2>4 DEF y
<1>3. QED
  BY <1>2 DEF Stage, Vector, w

\* Induction over the numbers up to m.
LEMMA UpTo ==
  ASSUME NEW S, NEW m \in Nat, 0 \in S, \A i \in 0 .. m - 1 : i \in S => i + 1 \in S
  PROVE  \A i \in 0 .. m : i \in S
<1> DEFINE D == {i \in 0 .. m : i \notin S}
<1>1. SUFFICES ASSUME D # {} PROVE FALSE
  OBVIOUS
<1>2. PICK i \in D : \A j \in D : i <= j
  <2>1. D \subseteq Nat
    OBVIOUS
  <2> HIDE DEF D
  <2>2. QED
    BY <1>1, <2>1, Least
<1>3. i # 0 /\ i - 1 \in 0 .. m - 1 /\ i - 1 \notin D /\ (i - 1) + 1 = i
  BY <1>2
<1>4. QED
  BY <1>2, <1>3

\* Numbers whose sums are meant.
Family == [Row -> Int]

\* A sum of m terms, and of one more.
LEMMA AddsIs ==
  ASSUME L!LinpackAssumption, order \in Nat, NEW f \in Family, NEW s, Adds(s, f, order),
         NEW m \in 0 .. order
  PROVE  L!Sum(f, m) = s[m]
<1> DEFINE g == [j \in 0 .. m - 1 |-> f[j]]
           D == {j \in Nat : j <= m}
<1>1. g \in [0 .. m - 1 -> Int] /\ m \in Nat
  BY DEF Family, Row
<1>2. PICK t : Adds(t, g, m) /\ L!Sum(g, m) = t[m]
  <2> HIDE DEF g
  <2>1. QED
    BY <1>1, SumIs
<1>3. \A j \in 0 .. m - 1 : g[j] = f[j]
  OBVIOUS
<1>4. L!Sum(f, m) = L!Sum(g, m)
  <2>1. \A u : SumStep(f, m, u) = SumStep(g, m, u)
    <3> TAKE u
    <3>1. \A j \in 0 .. m : j # 0 => j - 1 \in 0 .. m - 1
      OBVIOUS
    <3> HIDE DEF g
    <3>2. QED
      BY <1>3, <3>1 DEF SumStep
  <2>2. SumAll(f, m) = SumAll(g, m)
    <3> HIDE DEF g
    <3>1. \A u : (u = SumStep(f, m, u)) <=> (u = SumStep(g, m, u))
      BY <2>1
    <3>2. (CHOOSE u : u = SumStep(f, m, u)) = (CHOOSE u : u = SumStep(g, m, u))
      BY <3>1
    <3>3. QED
      BY <3>2 DEF SumAll
  <2>3. L!Sum(f, m) = SumAll(f, m)[m]
    BY Zenon DEF L!Sum, SumAll, SumStep
  <2>4. L!Sum(g, m) = SumAll(g, m)[m]
    <3> HIDE DEF g
    <3>1. QED
      BY Zenon DEF L!Sum, SumAll, SumStep
  <2>5. QED
    BY <2>2, <2>3, <2>4
<1> DEFINE S == {j \in Nat : t[j] = s[j]}
<1>5. 0 \in S
  BY <1>2 DEF Adds
<1>6. \A j \in 0 .. m - 1 : j \in S => j + 1 \in S
  <2> TAKE j \in 0 .. m - 1
  <2>1. j \in 0 .. order - 1 /\ j + 1 \in Nat
    OBVIOUS
  <2>2. t[j + 1] = (t[j] + g[j]) % P /\ s[j + 1] = (s[j] + f[j]) % P
    <3> HIDE DEF g
    <3>1. QED
      BY <1>2, <2>1 DEF Adds
  <2>3. QED
    BY <1>3, <2>1, <2>2
<1>7. m \in S
  <2> HIDE DEF S
  <2>1. \A j \in 0 .. m : j \in S
    BY <1>1, <1>5, <1>6, UpTo
  <2>2. QED
    BY <1>1, <2>1
<1>8. QED
  BY <1>2, <1>4, <1>7

\* A sum of one term more.
LEMMA SumMore ==
  ASSUME L!LinpackAssumption, order \in Nat, NEW f \in Family
  PROVE  /\ L!Sum(f, 0) = 0
         /\ \A m \in 0 .. order : L!Sum(f, m) \in L!Field
         /\ \A m \in Row : L!Sum(f, m + 1) = (L!Sum(f, m) + f[m]) % P
<1>1. PICK s : Adds(s, f, order)
  BY SumIs DEF Family, Row
<1>2. \A m \in 0 .. order : L!Sum(f, m) = s[m]
  BY <1>1, AddsIs
<1>3. \A m \in Row : m \in 0 .. order /\ m + 1 \in 0 .. order
  BY DEF Row
<1>4. QED
  BY <1>1, <1>2, <1>3 DEF Adds, Row

\* A combination of sums is the sum of the combinations.
LEMMA SumLinear ==
  ASSUME L!LinpackAssumption, order \in Nat, NEW f \in Family, NEW g \in Family, NEW h \in Family,
         NEW y \in Int, \A j \in Row : h[j] = (f[j] + y * g[j]) % P
  PROVE  \A m \in 0 .. order : L!Sum(h, m) = (L!Sum(f, m) + y * L!Sum(g, m)) % P
<1> DEFINE S == {m \in 0 .. order : L!Sum(h, m) = (L!Sum(f, m) + y * L!Sum(g, m)) % P}
<1>0. P \in Nat /\ P > 1 /\ L!Field = 0 .. P - 1
  BY Prime
<1>1. 0 \in S
  <2>1. L!Sum(f, 0) = 0 /\ L!Sum(g, 0) = 0 /\ L!Sum(h, 0) = 0
    BY SumMore
  <2>2. (0 + y * 0) % P = 0
    BY <1>0
  <2>3. QED
    BY <2>1, <2>2
<1>2. \A m \in 0 .. order - 1 : m \in S => m + 1 \in S
  <2> SUFFICES ASSUME NEW m \in 0 .. order - 1, m \in S
               PROVE  m + 1 \in S
    OBVIOUS
  <2> DEFINE s == L!Sum(f, m)
             t == L!Sum(g, m)
             u == f[m]
             v == g[m]
  <2>1. m \in Row /\ m \in 0 .. order /\ m + 1 \in 0 .. order
    BY DEF Row
  <2>2. s \in Int /\ t \in Int /\ u \in Int /\ v \in Int
    <3>1. s \in L!Field /\ t \in L!Field
      BY <2>1, SumMore
    <3>2. u \in Int /\ v \in Int
      BY <2>1 DEF Family
    <3>3. QED
      BY <1>0, <3>1, <3>2
  <2>3. /\ L!Sum(f, m + 1) = (s + u) % P
        /\ L!Sum(g, m + 1) = (t + v) % P
        /\ L!Sum(h, m + 1) = (L!Sum(h, m) + h[m]) % P
    BY <2>1, SumMore
  <2>4. L!Sum(h, m) = (s + y * t) % P /\ h[m] = (u + y * v) % P
    BY <2>1
  <2>5. (((s + y * t) % P) + ((u + y * v) % P)) % P = (((s + u) % P) + y * ((t + v) % P)) % P
    <3> DEFINE p == P
    <3>1. p \in Nat /\ p > 0 /\ s \in Int /\ t \in Int /\ u \in Int /\ v \in Int /\ y \in Int
      BY <1>0, <2>2
    <3> HIDE DEF s, t, u, v, S, p
    <3>2. Combined(p, s, u, t, v, y)
      BY <3>1, Linear
    <3>3. QED
      BY <3>2 DEF p, Combined
  <2>6. L!Sum(h, m + 1) = (L!Sum(f, m + 1) + y * L!Sum(g, m + 1)) % P
    BY <2>3, <2>4, <2>5
  <2>7. QED
    BY <2>1, <2>6
<1>3. QED
  <2> HIDE DEF S
  <2>1. \A m \in 0 .. order : m \in S
    BY <1>1, <1>2, UpTo
  <2>2. QED
    BY <2>1 DEF S

\* The sum of the vectors of a family.
Vectors == [Row -> Vector]
Across(W, r) == [j \in Row |-> W[j][r]]
Total(W) == [r \in Row |-> L!Sum(Across(W, r), order)]

LEMMA AcrossIs ==
  ASSUME L!LinpackAssumption, NEW W \in Vectors, NEW r \in Row
  PROVE  Across(W, r) \in Family /\ \A j \in Row : Across(W, r)[j] = W[j][r]
<1>1. L!Field \subseteq Int
  BY Prime
<1>2. QED
  BY <1>1 DEF Across, Vectors, Vector, Family

LEMMA TotalIs ==
  ASSUME L!LinpackAssumption, order \in Nat, NEW W \in Vectors
  PROVE  Total(W) \in Vector
<1>1. \A r \in Row : L!Sum(Across(W, r), order) \in L!Field
  <2> TAKE r \in Row
  <2>1. Across(W, r) \in Family /\ order \in 0 .. order
    BY AcrossIs
  <2>2. QED
    BY <2>1, SumMore
<1>2. QED
  BY <1>1 DEF Total, Vector

\* Where the element of row r of a column comes from.
Place(pivot, i, r) == IF r = i THEN pivot ELSE IF r = pivot THEN i ELSE r

\* What Swap puts in row r.
LEMMA SwapPlace ==
  ASSUME NEW x \in Vector, NEW pivot \in Row, NEW i \in Row, NEW r \in Row
  PROVE  Place(pivot, i, r) \in Row /\ L!Swap(x, pivot, i)[r] = x[Place(pivot, i, r)]
BY DEF Place, L!Swap, Vector

\* A stage of a sum is the sum of the stages.
LEMMA StageOfTotal ==
  ASSUME L!LinpackAssumption, order \in Nat, NEW pivot \in Row, NEW multiplier \in Vector,
         NEW i \in Row, NEW W \in Vectors, NEW X \in Vectors,
         \A j \in Row : X[j] = Stage(pivot, multiplier, i, W[j])
  PROVE  Total(X) = Stage(pivot, multiplier, i, Total(W))
<1> DEFINE t == Total(W)
           w == L!Swap(t, pivot, i)
<1>1. t \in Vector
  BY TotalIs
<1>2. \A r \in Row : t[r] = L!Sum(Across(W, r), order)
  BY DEF Total
<1>3. ASSUME NEW r \in Row
      PROVE  L!Sum(Across(X, r), order) = IF r > i THEN (w[r] + w[i] * multiplier[r]) % P ELSE w[r]
  <2> DEFINE q == Place(pivot, i, r)
             y == multiplier[r]
             f == Across(W, q)
             g == Across(W, pivot)
             h == Across(X, r)
  <2>1. q \in Row /\ w[r] = t[q] /\ w[i] = t[pivot]
    <3> HIDE DEF t
    <3>1. Place(pivot, i, r) \in Row /\ L!Swap(t, pivot, i)[r] = t[Place(pivot, i, r)]
      BY <1>1, SwapPlace
    <3>2. L!Swap(t, pivot, i)[i] = t[pivot]
      BY <1>1, SwapIs
    <3>3. QED
      BY <3>1, <3>2
  <2>2. \A j \in Row : L!Swap(W[j], pivot, i)[r] = W[j][q] /\ L!Swap(W[j], pivot, i)[i] = W[j][pivot]
    <3> TAKE j \in Row
    <3> DEFINE x == W[j]
    <3>1. x \in Vector
      BY DEF Vectors
    <3> HIDE DEF x
    <3>2. L!Swap(x, pivot, i)[r] = x[Place(pivot, i, r)]
      BY <3>1, SwapPlace
    <3>3. L!Swap(x, pivot, i)[i] = x[pivot]
      BY <3>1, SwapIs
    <3>4. QED
      BY <3>2, <3>3 DEF x
  <2>3. y \in Int
    BY Prime DEF Vector
  <2>4. w[r] = L!Sum(f, order) /\ w[i] = L!Sum(g, order)
    BY <1>2, <2>1
  <2> HIDE DEF q, w
  <2>5. f \in Family /\ g \in Family /\ h \in Family
    BY <2>1, AcrossIs
  <2>6. \A j \in Row : f[j] = W[j][q] /\ g[j] = W[j][pivot] /\ h[j] = X[j][r]
    BY <2>1, AcrossIs
  <2>7. \A j \in Row : h[j] = IF r > i THEN (f[j] + g[j] * y) % P ELSE f[j]
    <3> TAKE j \in Row
    <3>1. X[j][r] = IF r > i THEN (W[j][q] + W[j][pivot] * y) % P ELSE W[j][q]
      <4> DEFINE v == L!Swap(W[j], pivot, i)
      <4>1. X[j] = [o \in Row |-> IF o > i THEN (v[o] + v[i] * multiplier[o]) % P ELSE v[o]]
        BY DEF Stage
      <4>2. v[r] = W[j][q] /\ v[i] = W[j][pivot]
        BY <2>2
      <4> HIDE DEF v
      <4>3. QED
        BY <4>1, <4>2
    <3> HIDE DEF f, g, h, y
    <3>2. QED
      BY <2>6, <3>1
  <2> HIDE DEF f, g, h, y
  <2>8. CASE r > i
    <3>1. \A j \in Row : h[j] = (f[j] + y * g[j]) % P
      <4> TAKE j \in Row
      <4>1. g[j] \in Int
        BY <2>5 DEF Family
      <4>2. g[j] * y = y * g[j]
        BY <2>3, <4>1
      <4>3. h[j] = (f[j] + g[j] * y) % P
        BY <2>7, <2>8
      <4>4. QED
        BY <4>2, <4>3
    <3>2. \A m \in 0 .. order : L!Sum(h, m) = (L!Sum(f, m) + y * L!Sum(g, m)) % P
      BY <2>3, <2>5, <3>1, SumLinear
    <3>3. order \in 0 .. order
      OBVIOUS
    <3>4. L!Sum(h, order) = (w[r] + y * w[i]) % P
      BY <2>4, <3>2, <3>3
    <3>5. w[i] \in Int
      BY <2>4, <2>5, <3>3, SumMore, Prime
    <3>6. y * w[i] = w[i] * y
      BY <2>3, <3>5
    <3>7. L!Sum(h, order) = (w[r] + w[i] * y) % P
      BY <3>4, <3>6
    <3>8. QED
      BY <2>8, <3>7 DEF h, y
  <2>9. CASE ~(r > i)
    <3>1. h = f
      BY <2>5, <2>7, <2>9 DEF Family
    <3>2. QED
      BY <2>4, <2>9, <3>1 DEF h
  <2>10. QED
    BY <2>8, <2>9
<1>4. Total(X) = [r \in Row |-> L!Sum(Across(X, r), order)]
  BY DEF Total
<1>5. Stage(pivot, multiplier, i, t)
        = [r \in Row |-> IF r > i THEN (w[r] + w[i] * multiplier[r]) % P ELSE w[r]]
  BY DEF Stage
<1> HIDE DEF t, w
<1>6. QED
  BY <1>3, <1>4, <1>5 DEF t

\* A remainder of a number of the field is the number.
LEMMA Small ==
  ASSUME L!LinpackAssumption, NEW x \in L!Field
  PROVE  x \in Int /\ x % P = x /\ x + 0 = x
<1>1. P \in Nat /\ P > 1 /\ x \in 0 .. P - 1
  BY Prime
<1>2. QED
  BY <1>1

\* A stage in which nothing happens: a vector that is zero where it counts.
LEMMA StageStill ==
  ASSUME L!LinpackAssumption, NEW pivot \in Row, NEW multiplier \in Vector, NEW i \in Row,
         NEW x \in Vector, x[pivot] = 0, x[i] = 0
  PROVE  Stage(pivot, multiplier, i, x) = x
<1> DEFINE w == L!Swap(x, pivot, i)
<1>1. \A r \in Row : w[r] = x[r]
  <2> TAKE r \in Row
  <2>1. w[r] = x[Place(pivot, i, r)]
    BY SwapPlace
  <2> HIDE DEF w
  <2>2. QED
    BY <2>1 DEF Place
<1>2. Stage(pivot, multiplier, i, x)
        = [r \in Row |-> IF r > i THEN (w[r] + w[i] * multiplier[r]) % P ELSE w[r]]
  BY DEF Stage
<1> HIDE DEF w
<1>3. \A r \in Row : (w[r] + w[i] * multiplier[r]) % P = x[r]
  <2> TAKE r \in Row
  <2>1. x[r] \in L!Field /\ multiplier[r] \in Int
    BY Prime DEF Vector
  <2>2. x[r] % P = x[r] /\ x[r] \in Int
    BY <2>1, Small
  <2>3. w[r] + w[i] * multiplier[r] = x[r]
    BY <1>1, <2>1, <2>2
  <2>4. QED
    BY <2>2, <2>3
<1>4. QED
  BY <1>1, <1>2, <1>3 DEF Vector

\* ... or multipliers that are zero.
LEMMA StageIdle ==
  ASSUME L!LinpackAssumption, NEW multiplier \in Vector, NEW i \in Row, NEW x \in Vector,
         \A r \in Row : r > i => multiplier[r] = 0
  PROVE  Stage(i, multiplier, i, x) = x
<1> DEFINE w == L!Swap(x, i, i)
<1>1. \A r \in Row : w[r] = x[r]
  <2> TAKE r \in Row
  <2>1. w[r] = x[Place(i, i, r)]
    BY SwapPlace
  <2> HIDE DEF w
  <2>2. QED
    BY <2>1 DEF Place
<1>2. Stage(i, multiplier, i, x)
        = [r \in Row |-> IF r > i THEN (w[r] + w[i] * multiplier[r]) % P ELSE w[r]]
  BY DEF Stage
<1> HIDE DEF w
<1>3. \A r \in Row : r > i => (w[r] + w[i] * multiplier[r]) % P = x[r]
  <2> SUFFICES ASSUME NEW r \in Row, r > i
               PROVE  (w[r] + w[i] * multiplier[r]) % P = x[r]
    OBVIOUS
  <2>1. x[r] \in L!Field /\ x[i] \in L!Field
    BY DEF Vector
  <2>2. x[r] % P = x[r] /\ x[r] \in Int /\ x[i] \in Int
    BY <2>1, Small
  <2>3. w[r] + w[i] * multiplier[r] = x[r]
    BY <1>1, <2>2
  <2>4. QED
    BY <2>2, <2>3
<1>4. QED
  BY <1>1, <1>2, <1>3 DEF Vector

\* The column with the multipliers, if the pivot is not zero.
Pivot(x, l, k) ==
  LET w == L!Swap(x, l, k)
      t == L!Neg(L!Inverse1(x[l]))
  IN [i \in Row |-> IF i > k THEN (t * w[i]) % P ELSE w[i]]

\* The numbers of the pivot are numbers of the field.
LEMMA NegIs ==
  ASSUME L!LinpackAssumption, NEW x \in L!Field
  PROVE  L!Neg(x) \in L!Field /\ L!Neg(x) = (P - x) % P
<1>1. P \in Nat /\ P > 1 /\ L!Field = 0 .. P - 1
  BY Prime
<1> DEFINE y == P - x
<1>2. y \in Int
  BY <1>1
<1> HIDE DEF y
<1>3. y % P \in 0 .. P - 1
  BY <1>1, <1>2, Remainder
<1>4. QED
  BY <1>1, <1>3 DEF L!Neg, y

LEMMA PivotIsVector ==
  ASSUME L!LinpackAssumption, NEW x \in Vector, NEW l \in Row, NEW k \in Row, x[l] # 0
  PROVE  Pivot(x, l, k) \in Vector
<1> DEFINE w == L!Swap(x, l, k)
           t == L!Neg(L!Inverse1(x[l]))
<1>0. P \in Nat /\ P > 1 /\ L!Field = 0 .. P - 1
  BY Prime
<1>1. w \in Vector
  BY SwapIs
<1>2. t \in L!Field
  <2> DEFINE y == x[l]
             z == L!Inverse1(y)
  <2>1. y \in L!Field \ {0}
    BY DEF Vector
  <2> HIDE DEF y
  <2>2. z \in L!Field
    BY <2>1, InverseIs
  <2> HIDE DEF z
  <2>3. L!Neg(z) \in L!Field
    BY <2>2, NegIs
  <2>4. QED
    BY <2>3 DEF y, z
<1>3. Pivot(x, l, k) = [i \in Row |-> IF i > k THEN (t * w[i]) % P ELSE w[i]]
  BY DEF Pivot
<1> HIDE DEF t, w
<1>4. \A i \in Row : (t * w[i]) % P \in L!Field /\ w[i] \in L!Field
  <2> TAKE i \in Row
  <2> DEFINE y == t * w[i]
  <2>1. w[i] \in L!Field
    BY <1>1 DEF Vector
  <2>2. y \in Int
    BY <1>0, <1>2, <2>1
  <2> HIDE DEF y
  <2>3. y % P \in 0 .. P - 1
    BY <1>0, <2>2, Remainder
  <2>4. QED
    BY <1>0, <2>1, <2>3 DEF y
<1>5. QED
  BY <1>3, <1>4 DEF Vector

\* What an index of a stage leaves of the pivot's column: nothing below the diagonal.
LEMMA StagePivot ==
  ASSUME L!LinpackAssumption, NEW x \in Vector, NEW l \in Row, NEW k \in Row, x[l] # 0
  PROVE  Stage(l, Pivot(x, l, k), k, x) = [r \in Row |-> IF r <= k THEN Pivot(x, l, k)[r] ELSE 0]
<1> DEFINE w == L!Swap(x, l, k)
           y == L!Inverse1(x[l])
           t == L!Neg(y)
           m == Pivot(x, l, k)
<1>0. P \in Nat /\ P > 1 /\ L!Field = 0 .. P - 1
  BY Prime
<1>1. w \in Vector /\ w[k] = x[l]
  BY SwapIs
<1>2. x[l] \in L!Field \ {0}
  BY DEF Vector
<1>3. y \in L!Field /\ (x[l] * y) % P = 1
  <2> DEFINE z == x[l]
  <2>1. z \in L!Field \ {0}
    BY <1>2
  <2> HIDE DEF z
  <2>2. L!Inverse1(z) \in L!Field /\ (z * L!Inverse1(z)) % P = 1
    BY <2>1, InverseIs
  <2>3. QED
    BY <2>2 DEF z
<1>4. m = [i \in Row |-> IF i > k THEN (t * w[i]) % P ELSE w[i]]
  BY DEF Pivot
<1>5. Stage(l, m, k, x) = [r \in Row |-> IF r > k THEN (w[r] + w[k] * m[r]) % P ELSE w[r]]
  <2> HIDE DEF m
  <2>1. QED
    BY DEF Stage
<1>6. t = (P - y) % P
  <2> HIDE DEF y
  <2>1. QED
    BY <1>3, NegIs
<1> HIDE DEF m, t, y, w
<1>7. \A r \in Row : r > k => (w[r] + w[k] * m[r]) % P = 0
  <2> SUFFICES ASSUME NEW r \in Row, r > k
               PROVE  (w[r] + w[k] * m[r]) % P = 0
    OBVIOUS
  <2> DEFINE p == P
             u == w[k]
             v == w[r]
  <2>1. m[r] = (t * v) % P
    BY <1>4
  <2>2. u \in 0 .. p - 1 /\ v \in 0 .. p - 1 /\ y \in 0 .. p - 1 /\ p \in Nat /\ p > 1
    BY <1>0, <1>1, <1>3 DEF Vector
  <2>3. (u * y) % p = 1
    BY <1>1, <1>3
  <2> HIDE DEF p, u, v
  <2>4. (v + u * ((((p - y) % p) * v) % p)) % p = 0
    BY <2>2, <2>3, Cancel, Zenon
  <2>5. QED
    BY <1>6, <2>1, <2>4 DEF p, u, v
<1>8. \A r \in Row : r <= k => w[r] = m[r]
  <2> TAKE r \in Row
  <2>1. r \in Int /\ k \in Int
    BY DEF Row
  <2>2. QED
    BY <1>4, <2>1
<1>9. \A r \in Row : r > k <=> ~(r <= k)
  BY DEF Row
<1>10. QED
  BY <1>5, <1>7, <1>8, <1>9 DEF m

\* A column of dgefa whose pivot is not zero.
LEMMA EliminateIs ==
  ASSUME L!LinpackAssumption, order \in Nat, lu \in Vectors, column \in Row, column < order - 1,
         NEW l \in Row, lu[column][l] # 0
  PROVE  L!Eliminate(l) =
           [j \in Row |-> IF j < column THEN lu[j]
                          ELSE IF j = column THEN Pivot(lu[column], l, column)
                          ELSE Stage(l, Pivot(lu[column], l, column), column, lu[j])]
<1> DEFINE m == order - (column + 1)
           x == lu[column]
           t == L!Neg(L!Inverse1(x[l]))
           w == L!Swap(x, l, column)
           pivot == L!dscal(m, t, w, column + 1)
           reduced(j) == L!daxpy(m, lu[j][l], pivot, L!Swap(lu[j], l, column), column + 1)
<1>1. /\ m \in Nat /\ column + 1 \in Nat /\ (column + 1) + m <= order /\ x \in Vector
      /\ \A r \in Row : (r >= column + 1 /\ r < (column + 1) + m) <=> r > column
  BY DEF Row, Vectors
<1>2. L!Eliminate(l) =
        [j \in Row |-> CASE j < column -> lu[j] [] j = column -> pivot [] j > column -> reduced(j)]
  BY DEF L!Eliminate, Row
<1>3. pivot = Pivot(x, l, column)
  <2>1. w \in Vector /\ t \in L!Field
    <3> DEFINE y == x[l]
               z == L!Inverse1(y)
    <3>1. y \in L!Field \ {0} /\ w \in Vector
      BY <1>1, SwapIs DEF Vector
    <3> HIDE DEF y
    <3>2. z \in L!Field
      BY <3>1, InverseIs
    <3> HIDE DEF z
    <3>3. L!Neg(z) \in L!Field
      BY <3>2, NegIs
    <3>4. QED
      BY <3>1, <3>3 DEF y, z
  <2>2. Pivot(x, l, column) = [i \in Row |-> IF i > column THEN (t * w[i]) % P ELSE w[i]]
    BY DEF Pivot
  <2> DEFINE from == column + 1
  <2>3. from \in Nat /\ from + m <= order /\ \A r \in Row : (r >= from /\ r < from + m) <=> r > column
    BY <1>1
  <2> HIDE DEF t, w, m, from, x
  <2>4. L!dscal(m, t, w, from) =
          [i \in Row |-> IF i >= from /\ i < from + m THEN (t * w[i]) % P ELSE w[i]]
    BY <1>1, <2>1, <2>3, DscalIs
  <2>5. QED
    BY <2>2, <2>3, <2>4 DEF from
<1>4. ASSUME NEW j \in Row
      PROVE  reduced(j) = Stage(l, Pivot(x, l, column), column, lu[j])
  <2> DEFINE y == lu[j]
             v == L!Swap(y, l, column)
             from == column + 1
             q == Pivot(x, l, column)
  <2>1. y \in Vector /\ y[l] \in L!Field
    BY DEF Vectors, Vector
  <2>2. v \in Vector /\ v[column] = y[l]
    <3> HIDE DEF y
    <3>1. QED
      BY <2>1, SwapIs
  <2>3. from \in Nat /\ from + m <= order /\ \A r \in Row : (r >= from /\ r < from + m) <=> r > column
    BY <1>1
  <2>4. q \in Vector
    <3> HIDE DEF x
    <3>1. x[l] # 0
      BY DEF x
    <3>2. QED
      BY <1>1, <3>1, PivotIsVector
  <2>5. Stage(l, q, column, y)
          = [r \in Row |-> IF r > column THEN (v[r] + v[column] * q[r]) % P ELSE v[r]]
    <3> HIDE DEF q, y
    <3>1. QED
      BY DEF Stage
  <2>6. reduced(j) = L!daxpy(m, y[l], q, v, from)
    BY <1>3
  <2> HIDE DEF m, y, v, from, q, pivot
  <2> DEFINE da == y[l]
  <2>7. da \in L!Field
    BY <2>1
  <2> HIDE DEF da
  <2>8. L!daxpy(m, da, q, v, from) =
          [i \in Row |-> IF i >= from /\ i < from + m THEN (v[i] + da * q[i]) % P ELSE v[i]]
    BY <1>1, <2>2, <2>3, <2>4, <2>7, DaxpyIs
  <2>9. v[column] = da
    BY <2>2 DEF da
  <2>10. L!daxpy(m, da, q, v, from) = Stage(l, q, column, y)
    BY <2>3, <2>5, <2>8, <2>9
  <2>11. QED
    BY <2>6, <2>10 DEF da, y, q
<1> HIDE DEF pivot, reduced, x
<1>5. \A j \in Row : j < column \/ j = column \/ j > column
  BY DEF Row
<1>6. \A j \in Row : column \in Int /\ j \in Int
  BY DEF Row
<1>7. ASSUME NEW j \in Row
      PROVE  (CASE j < column -> lu[j] [] j = column -> pivot [] j > column -> reduced(j))
               = (IF j < column THEN lu[j] ELSE IF j = column THEN Pivot(x, l, column)
                  ELSE Stage(l, Pivot(x, l, column), column, lu[j]))
  <2>1. CASE j < column
    BY <1>6, <2>1
  <2>2. CASE j = column
    BY <1>3, <1>6, <2>2
  <2>3. CASE j > column
    BY <1>4, <1>6, <2>3
  <2>4. QED
    BY <1>5, <2>1, <2>2, <2>3
<1>8. QED
  BY <1>2, <1>7 DEF x

\* Column j of a down to the diagonal.
Upper(a, j) == [r \in Row |-> IF r <= j THEN a[j][r] ELSE 0]

\* What the columns of the matrix were before each of the first q columns was eliminated:
\* H[j][i] is column j after i stages.  Column j is finished after stage j + 1, and the
\* stages read the multipliers in the columns that are.
Elimination(H, a, p, q) ==
  /\ H \in [Row -> Vectors]
  /\ \A j \in Row : H[j][0] = matrix[j]
  /\ \A i \in Row : i < q => \A j \in Row : H[j][i + 1] = Stage(p[i], a[i], i, H[j][i])
  /\ \A j \in Row : H[j][q] = IF j < q THEN Upper(a, j) ELSE a[j]

LEMMA UpperIsVector ==
  ASSUME L!LinpackAssumption, NEW a \in Vectors, NEW j \in Row
  PROVE  Upper(a, j) \in Vector
<1>1. 0 \in L!Field
  BY Prime
<1>2. QED
  BY <1>1 DEF Upper, Vectors, Vector

\* How a column of dgefa changes the matrix.
Eliminates(l, a) ==
  \/ /\ lu[column][l] # 0
     /\ a = [j \in Row |-> IF j < column THEN lu[j]
                           ELSE IF j = column THEN Pivot(lu[column], l, column)
                           ELSE Stage(l, Pivot(lu[column], l, column), column, lu[j])]
  \/ /\ l = column /\ \A r \in column .. order - 1 : lu[column][r] = 0
     /\ a = lu

LEMMA EliminatesType ==
  ASSUME L!LinpackAssumption, order \in Nat, lu \in Vectors, column \in Row,
         NEW l \in Row, NEW a, Eliminates(l, a)
  PROVE  a \in Vectors
<1>1. CASE a = lu
  BY <1>1
<1>2. CASE lu[column][l] # 0 /\ a = [j \in Row |-> IF j < column THEN lu[j]
                           ELSE IF j = column THEN Pivot(lu[column], l, column)
                           ELSE Stage(l, Pivot(lu[column], l, column), column, lu[j])]
  <2> DEFINE x == lu[column]
             m == Pivot(x, l, column)
  <2>1. x \in Vector /\ x[l] # 0 /\ \A j \in Row : lu[j] \in Vector
    BY <1>2 DEF Vectors
  <2> HIDE DEF x
  <2>2. m \in Vector
    BY <2>1, PivotIsVector
  <2> HIDE DEF m
  <2>3. ASSUME NEW j \in Row PROVE Stage(l, m, column, lu[j]) \in Vector
    <3> DEFINE y == lu[j]
    <3>1. y \in Vector
      BY <2>1
    <3> HIDE DEF y
    <3>2. Stage(l, m, column, y) \in Vector
      BY <2>2, <3>1, StageIsVector
    <3>3. QED
      BY <3>2 DEF y
  <2>4. a = [j \in Row |-> IF j < column THEN lu[j]
                           ELSE IF j = column THEN m ELSE Stage(l, m, column, lu[j])]
    BY <1>2 DEF m, x
  <2>5. QED
    BY <2>1, <2>2, <2>3, <2>4 DEF Vectors
<1>3. QED
  BY <1>1, <1>2 DEF Eliminates

\* A stage more, of each column.
LEMMA NextStage ==
  ASSUME L!LinpackAssumption, order \in Nat, lu \in Vectors, column \in Row, column < order - 1,
         NEW l \in Row, l >= column, NEW a, Eliminates(l, a), NEW j \in Row
  PROVE  Stage(l, a[column], column, IF j < column THEN Upper(lu, j) ELSE lu[j])
           = IF j < column + 1 THEN Upper(a, j) ELSE a[j]
<1> DEFINE m == a[column]
           x == lu[column]
<1>0. /\ column \in Int /\ j \in Int /\ \A r \in Row : r \in Int /\ (r > column <=> ~(r <= column))
      /\ \A r \in Row : r > column => r \in column .. order - 1
  BY DEF Row
<1>1. a \in Vectors /\ m \in Vector /\ x \in Vector /\ lu[j] \in Vector /\ a[j] \in Vector
  BY EliminatesType DEF Vectors
<1>2. CASE l = column /\ (\A r \in column .. order - 1 : x[r] = 0) /\ a = lu
  <2> DEFINE y == IF j < column THEN Upper(lu, j) ELSE lu[j]
  <2>1. y \in Vector /\ \A r \in Row : r > column => m[r] = 0
    BY <1>0, <1>1, <1>2, UpperIsVector
  <2> HIDE DEF y, m
  <2>2. Stage(column, m, column, y) = y
    BY <1>1, <2>1, StageIdle
  <2>3. y = IF j < column + 1 THEN Upper(a, j) ELSE a[j]
    <3>1. CASE j = column
      <4>1. \A r \in Row : r > column => x[r] = 0
        BY <1>0, <1>2
      <4>2. x = [r \in Row |-> IF r <= column THEN x[r] ELSE 0]
        <5> HIDE DEF x
        <5>1. QED
          BY <1>0, <1>1, <4>1 DEF Vector
      <4>3. Upper(a, j) = x
        BY <1>2, <3>1, <4>2 DEF Upper
      <4>4. QED
        BY <1>0, <3>1, <4>3 DEF y
    <3>2. CASE j # column
      BY <1>0, <1>2, <3>2 DEF y
    <3>3. QED
      BY <3>1, <3>2
  <2>4. QED
    BY <1>2, <2>2, <2>3 DEF y, m
<1>3. CASE x[l] # 0 /\ a = [i \in Row |-> IF i < column THEN lu[i]
                           ELSE IF i = column THEN Pivot(x, l, column)
                           ELSE Stage(l, Pivot(x, l, column), column, lu[i])]
  <2>1. m = Pivot(x, l, column)
    <3> HIDE DEF x
    <3>1. QED
      BY <1>0, <1>3
  <2>2. CASE j < column
    <3> DEFINE y == Upper(lu, j)
    <3>1. y \in Vector /\ y[l] = 0 /\ y[column] = 0
      <4>1. y \in Vector
        BY UpperIsVector
      <4>2. ~(l <= j) /\ ~(column <= j)
        BY <1>0, <2>2
      <4>3. QED
        BY <4>1, <4>2 DEF Upper
    <3> HIDE DEF y, m
    <3>2. Stage(l, m, column, y) = y
      BY <1>1, <3>1, StageStill
    <3>3. a[j] = lu[j]
      BY <1>3, <2>2
    <3>4. y = Upper(a, j)
      BY <3>3 DEF Upper, y
    <3>5. j < column + 1
      BY <1>0, <2>2
    <3>6. QED
      BY <2>2, <3>2, <3>4, <3>5 DEF m, y
  <2>3. CASE j = column
    <3>1. Stage(l, m, column, x) = [r \in Row |-> IF r <= column THEN m[r] ELSE 0]
      <4> HIDE DEF m, x
      <4>1. Stage(l, Pivot(x, l, column), column, x)
              = [r \in Row |-> IF r <= column THEN Pivot(x, l, column)[r] ELSE 0]
        BY <1>1, <1>3, StagePivot
      <4>2. QED
        BY <2>1, <4>1
    <3>2. Upper(a, j) = [r \in Row |-> IF r <= column THEN m[r] ELSE 0]
      BY <2>3 DEF Upper
    <3>3. ~(j < column) /\ j < column + 1 /\ lu[j] = x
      BY <1>0, <2>3
    <3>4. QED
      BY <3>1, <3>2, <3>3
  <2>4. CASE j > column
    <3>1. ~(j < column) /\ j # column /\ ~(j < column + 1)
      BY <1>0, <2>4
    <3>2. a[j] = Stage(l, m, column, lu[j])
      <4> HIDE DEF m, x
      <4>1. QED
        BY <1>3, <2>1, <3>1
    <3>3. QED
      BY <3>1, <3>2
  <2>5. QED
    BY <1>0, <2>2, <2>3, <2>4
<1>4. QED
  BY <1>2, <1>3 DEF Eliminates

\* A column of dgefa is a stage more of the elimination.
LEMMA EliminationStep ==
  ASSUME L!LinpackAssumption, order \in Nat, lu \in Vectors, column \in Row, column < order - 1,
         ipvt \in [Row -> Row], NEW H, Elimination(H, lu, ipvt, column),
         NEW l \in Row, l >= column, NEW a, Eliminates(l, a)
  PROVE  \E G : Elimination(G, a, [ipvt EXCEPT ![column] = l], column + 1)
<1> DEFINE new(j) == Stage(l, a[column], column, H[j][column])
           G == [j \in Row |-> [i \in Row |-> IF i = column + 1 THEN new(j) ELSE H[j][i]]]
           p == [ipvt EXCEPT ![column] = l]
<1>0. column \in Int /\ column + 1 \in Row /\ \A i \in Row : i \in Int
  BY DEF Row
<1>1. /\ H \in [Row -> Vectors]
      /\ \A j \in Row : H[j][0] = matrix[j]
      /\ \A i \in Row : i < column => \A j \in Row : H[j][i + 1] = Stage(ipvt[i], lu[i], i, H[j][i])
      /\ \A j \in Row : H[j][column] = IF j < column THEN Upper(lu, j) ELSE lu[j]
  BY DEF Elimination
<1>2. a \in Vectors /\ a[column] \in Vector
  BY EliminatesType DEF Vectors
<1>3. \A j \in Row : new(j) \in Vector
  <2> TAKE j \in Row
  <2> DEFINE x == H[j][column]
             m == a[column]
  <2>1. x \in Vector /\ m \in Vector
    BY <1>1, <1>2 DEF Vectors
  <2> HIDE DEF x, m
  <2>2. Stage(l, m, column, x) \in Vector
    BY <2>1, StageIsVector
  <2>3. QED
    BY <2>2 DEF x, m
<1>4. \A j \in Row : new(j) = IF j < column + 1 THEN Upper(a, j) ELSE a[j]
  BY <1>1, NextStage
<1>5. \A i \in Row : i < column => a[i] = lu[i] /\ p[i] = ipvt[i]
  BY <1>0 DEF Eliminates
<1>6. p[column] = l
  OBVIOUS
<1> HIDE DEF new, p
<1>7. G \in [Row -> Vectors]
  BY <1>1, <1>3 DEF Vectors
<1>8. \A i, j \in Row : G[j][i] = IF i = column + 1 THEN new(j) ELSE H[j][i]
  OBVIOUS
<1> HIDE DEF G
<1>9. \A j \in Row : G[j][0] = matrix[j]
  <2>1. 0 \in Row /\ 0 # column + 1
    BY DEF Row
  <2>2. QED
    BY <1>1, <1>8, <2>1
<1>10. \A j \in Row : G[j][column + 1] = IF j < column + 1 THEN Upper(a, j) ELSE a[j]
  BY <1>0, <1>4, <1>8
<1>11. \A i \in Row : i < column + 1 => \A j \in Row : G[j][i + 1] = Stage(p[i], a[i], i, G[j][i])
  <2> SUFFICES ASSUME NEW i \in Row, i < column + 1, NEW j \in Row
               PROVE  G[j][i + 1] = Stage(p[i], a[i], i, G[j][i])
    OBVIOUS
  <2>1. CASE i = column
    <3>1. G[j][i + 1] = new(j) /\ G[j][i] = H[j][i]
      BY <1>0, <1>8, <2>1
    <3>2. QED
      BY <1>6, <2>1, <3>1 DEF new
  <2>2. CASE i # column
    <3>1. i < column /\ i + 1 \in Row /\ i + 1 # column + 1 /\ i # column + 1
      BY <1>0, <2>2 DEF Row
    <3>2. G[j][i + 1] = H[j][i + 1] /\ G[j][i] = H[j][i]
      BY <1>8, <3>1
    <3>3. QED
      BY <1>1, <1>5, <3>1, <3>2
  <2>3. QED
    BY <2>1, <2>2
<1>12. Elimination(G, a, p, column + 1)
  BY <1>7, <1>9, <1>10, <1>11 DEF Elimination
<1>13. QED
  BY <1>12 DEF p

----------------------------------------------------------------------------
(***************************************************************************)
(* dgesl: the right hand side goes through the stages too, as the sum of   *)
(* the columns, and every unknown is 1 then.                               *)
(***************************************************************************)
\* The columns after i stages.
At(H, i) == [j \in Row |-> H[j][i]]

\* A row of the upper matrix.
UpperRow(r) == [j \in Row |-> Upper(lu, j)[r]]

\* The unknowns after column are found, their multiples are subtracted.
Substituted ==
  \A r \in Row : rhs[r] = IF r <= column THEN L!Sum(UpperRow(r), column + 1) ELSE 1

LEMMA AtIs ==
  ASSUME NEW H \in [Row -> Vectors], NEW i \in Row
  PROVE  At(H, i) \in Vectors /\ \A j \in Row : At(H, i)[j] = H[j][i]
BY DEF At, Vectors

LEMMA UpperRowIs ==
  ASSUME L!LinpackAssumption, lu \in Vectors, NEW r \in Row
  PROVE  /\ UpperRow(r) \in Family
         /\ \A j \in Row : UpperRow(r)[j] = IF r <= j THEN lu[j][r] ELSE 0
<1>1. \A j \in Row : Upper(lu, j)[r] \in Int
  <2> TAKE j \in Row
  <2>1. Upper(lu, j) \in Vector
    BY UpperIsVector
  <2>2. QED
    BY <2>1, Prime DEF Vector
<1>2. \A j \in Row : Upper(lu, j)[r] = IF r <= j THEN lu[j][r] ELSE 0
  BY DEF Upper
<1>3. QED
  BY <1>1, <1>2 DEF UpperRow, Family

\* Each step of the first half is a stage.
LEMMA ForwardIs ==
  ASSUME L!LinpackAssumption, order \in Nat, lu \in Vectors, column \in Row, column < order - 1,
         NEW l \in Row, rhs \in Vector
  PROVE  L!daxpy(order - (column + 1), rhs[l], lu[column], L!Swap(rhs, l, column), column + 1)
           = Stage(l, lu[column], column, rhs)
<1> DEFINE m == order - (column + 1)
           from == column + 1
           x == lu[column]
           w == L!Swap(rhs, l, column)
           da == rhs[l]
<1>1. /\ m \in Nat /\ from \in Nat /\ from + m <= order /\ x \in Vector
      /\ \A r \in Row : (r >= from /\ r < from + m) <=> r > column
  BY DEF Row, Vectors
<1>2. w \in Vector /\ w[column] = da /\ da \in L!Field
  BY SwapIs DEF Vector
<1>3. Stage(l, x, column, rhs)
        = [r \in Row |-> IF r > column THEN (w[r] + w[column] * x[r]) % P ELSE w[r]]
  <2> HIDE DEF x
  <2>1. QED
    BY DEF Stage
<1> HIDE DEF m, from, x, w, da
<1>4. L!daxpy(m, da, x, w, from) =
        [r \in Row |-> IF r >= from /\ r < from + m THEN (w[r] + da * x[r]) % P ELSE w[r]]
  BY <1>1, <1>2, DaxpyIs
<1>5. L!daxpy(m, da, x, w, from) = Stage(l, x, column, rhs)
  BY <1>1, <1>2, <1>3, <1>4
<1>6. QED
  BY <1>5 DEF m, from, x, w, da

\* ... and the sum of the columns stays their sum.
LEMMA ForwardStep ==
  ASSUME L!LinpackAssumption, order \in Nat, lu \in Vectors, column \in Row, column < order - 1,
         ipvt \in [Row -> Row], rhs \in Vector,
         NEW H, Elimination(H, lu, ipvt, order - 1), rhs = Total(At(H, column))
  PROVE  LET l == ipvt[column]
             b == L!daxpy(order - (column + 1), rhs[l], lu[column],
                          L!Swap(rhs, l, column), column + 1)
         IN b \in Vector /\ b = Total(At(H, column + 1))
<1> DEFINE l == ipvt[column]
           x == lu[column]
           W == At(H, column)
           X == At(H, column + 1)
<1>1. column + 1 \in Row /\ l \in Row /\ x \in Vector /\ column \in Row
  BY DEF Row, Vectors
<1>2. H \in [Row -> Vectors] /\ \A j \in Row : H[j][column + 1] = Stage(l, x, column, H[j][column])
  BY DEF Elimination
<1>3. /\ W \in Vectors /\ \A j \in Row : W[j] = H[j][column]
      /\ X \in Vectors /\ \A j \in Row : X[j] = H[j][column + 1]
  BY <1>1, <1>2, AtIs
<1>4. L!daxpy(order - (column + 1), rhs[l], x, L!Swap(rhs, l, column), column + 1)
        = Stage(l, x, column, rhs)
  <2> HIDE DEF l
  <2>1. QED
    BY <1>1, ForwardIs
<1>5. rhs = Total(W)
  OBVIOUS
<1> HIDE DEF W, X, x, l
<1>6. \A j \in Row : X[j] = Stage(l, x, column, W[j])
  BY <1>2, <1>3
<1>7. Total(X) = Stage(l, x, column, Total(W))
  BY <1>1, <1>3, <1>6, StageOfTotal
<1>8. Total(X) \in Vector
  BY <1>3, TotalIs
<1>9. QED
  BY <1>4, <1>5, <1>7, <1>8 DEF X, x, l

\* After it, the right hand side is the sum of the upper matrix.
LEMMA ForwardDone ==
  ASSUME L!LinpackAssumption, order \in Nat \ {0}, lu \in Vectors, column = order - 1,
         NEW H, Elimination(H, lu, ipvt, order - 1), rhs = Total(At(H, column))
  PROVE  Substituted
<1> DEFINE q == order - 1
           W == At(H, q)
<1>1. q \in Row /\ \A r \in Row : r <= q /\ r \in Int
  BY DEF Row
<1>2. H \in [Row -> Vectors] /\ \A j \in Row : H[j][q] = IF j < q THEN Upper(lu, j) ELSE lu[j]
  BY DEF Elimination
<1>3. W \in Vectors /\ \A j \in Row : W[j] = H[j][q]
  BY <1>1, <1>2, AtIs
<1>4. ASSUME NEW j \in Row PROVE W[j] = Upper(lu, j)
  <2>1. CASE j < q
    BY <1>2, <1>3, <2>1
  <2>2. CASE ~(j < q)
    <3>1. j = q /\ \A r \in Row : r <= j
      BY <1>1, <2>2
    <3>2. Upper(lu, j) = [r \in Row |-> lu[j][r]]
      BY <3>1 DEF Upper
    <3>3. lu[j] = [r \in Row |-> lu[j][r]]
      BY DEF Vectors, Vector
    <3>4. QED
      BY <1>2, <1>3, <2>2, <3>2, <3>3
  <2>3. QED
    BY <2>1, <2>2
<1>5. rhs = Total(W)
  OBVIOUS
<1> HIDE DEF W
<1>6. ASSUME NEW r \in Row PROVE rhs[r] = L!Sum(UpperRow(r), q + 1)
  <2>1. Across(W, r) = UpperRow(r)
    BY <1>4 DEF Across, UpperRow
  <2>2. q + 1 = order
    OBVIOUS
  <2>3. QED
    BY <1>5, <2>1, <2>2 DEF Total
<1>7. QED
  BY <1>1, <1>6 DEF Substituted

\* A sum of nothing.
LEMMA SumOfZeros ==
  ASSUME L!LinpackAssumption, order \in Nat, NEW f \in Family, NEW q \in 0 .. order,
         \A j \in Row : j < q => f[j] = 0
  PROVE  L!Sum(f, q) = 0
<1> DEFINE S == {m \in 0 .. order : L!Sum(f, m) = 0}
<1>0. P \in Nat /\ P > 1 /\ 0 % P = 0
  BY Prime, Small
<1>1. 0 \in S
  BY SumMore
<1>2. \A m \in 0 .. q - 1 : m \in S => m + 1 \in S
  <2> TAKE m \in 0 .. q - 1
  <2>1. m \in Row /\ m < q /\ m + 1 \in 0 .. order
    BY DEF Row
  <2>2. L!Sum(f, m + 1) = (L!Sum(f, m) + f[m]) % P
    BY <2>1, SumMore
  <2>3. f[m] = 0
    BY <2>1
  <2>4. QED
    BY <1>0, <2>1, <2>2, <2>3
<1>3. q \in Nat
  OBVIOUS
<1> HIDE DEF S
<1>4. \A m \in 0 .. q : m \in S
  BY <1>1, <1>2, <1>3, UpTo
<1>5. q \in S
  BY <1>3, <1>4
<1>6. QED
  BY <1>5 DEF S

\* The last term of a sum is taken away.
LEMMA TakeAway ==
  ASSUME NEW p \in Nat, p > 1, NEW s \in 0 .. p - 1, NEW t \in 0 .. p - 1
  PROVE  (((s + t) % p) + ((p - 1) % p) * t) % p = s
<1> DEFINE x == s + t
           z == (p - 1) * t
<1>1. (p - 1) % p = p - 1
  OBVIOUS
<1>2. x \in Int /\ z \in Int /\ p > 0
  OBVIOUS
<1>3. x + z = s + p * t
  <2>1. (p - 1) * t = p * t - t
    OBVIOUS
  <2>2. p * t \in Int
    OBVIOUS
  <2>3. QED
    BY <2>1, <2>2
<1>4. (s + p * t) % p = s % p
  BY Shift
<1>5. s % p = s
  OBVIOUS
<1> HIDE DEF x, z
<1>6. ((x % p) + z) % p = (x + z) % p
  BY <1>2, BeforePlus, Zenon
<1>7. ((x % p) + z) % p = s
  BY <1>3, <1>4, <1>5, <1>6
<1>8. QED
  BY <1>1, <1>7 DEF x, z

\* A step of the second half finds that the unknown is 1, and subtracts its column.
LEMMA BackwardStep ==
  ASSUME L!LinpackAssumption, order \in Nat, lu \in Vectors, column \in Row, rhs \in Vector,
         Substituted, lu[column][column] # 0
  PROVE  LET x == (rhs[column] * L!Inverse1(lu[column][column])) % P
             b == L!daxpy(column, L!Neg(x), lu[column], [rhs EXCEPT ![column] = x], 0)
         IN b = [r \in Row |-> IF r < column THEN L!Sum(UpperRow(r), column) ELSE 1]
<1> DEFINE d == lu[column][column]
           inv == L!Inverse1(d)
           x == (rhs[column] * inv) % P
           y == [rhs EXCEPT ![column] = x]
           w == lu[column]
           b == L!daxpy(column, L!Neg(x), w, y, 0)
<1>0. P \in Nat /\ P > 1 /\ L!Field = 0 .. P - 1 /\ 1 \in L!Field
  BY Prime
<1>1. column \in Nat /\ column \in 0 .. order /\ column + 1 \in 0 .. order
  BY DEF Row
<1>2. d \in L!Field \ {0} /\ w \in Vector
  BY DEF Vectors, Vector
<1>3. inv \in L!Field /\ (d * inv) % P = 1
  <2> HIDE DEF d
  <2>1. QED
    BY <1>2, InverseIs
<1>4. rhs[column] = d
  <2>1. rhs[column] = L!Sum(UpperRow(column), column + 1)
    BY <1>1 DEF Substituted
  <2>2. UpperRow(column) \in Family
    BY UpperRowIs
  <2>3. L!Sum(UpperRow(column), column) = 0
    <3> DEFINE f == UpperRow(column)
    <3>1. f \in Family
      BY <2>2
    <3>2. \A j \in Row : j < column => f[j] = 0
      <4>1. \A j \in Row : j < column => ~(column <= j)
        BY DEF Row
      <4>2. QED
        BY <4>1, UpperRowIs
    <3> HIDE DEF f
    <3>3. L!Sum(f, column) = 0
      BY <1>1, <3>1, <3>2, SumOfZeros
    <3>4. QED
      BY <3>3 DEF f
  <2>4. L!Sum(UpperRow(column), column + 1) = (0 + UpperRow(column)[column]) % P
    <3> DEFINE f == UpperRow(column)
    <3> HIDE DEF f
    <3>1. L!Sum(f, column + 1) = (L!Sum(f, column) + f[column]) % P
      BY <2>2, SumMore DEF f
    <3>2. QED
      BY <2>3, <3>1 DEF f
  <2>5. UpperRow(column)[column] = d
    BY <1>1, UpperRowIs
  <2>6. 0 + d = d /\ d % P = d
    <3> HIDE DEF d
    <3>1. d \in L!Field
      BY <1>2
    <3>2. QED
      BY <3>1, Small
  <2> HIDE DEF d
  <2>7. QED
    BY <2>1, <2>4, <2>5, <2>6
<1>5. x = 1
  BY <1>3, <1>4
<1>6. L!Neg(x) = (P - 1) % P /\ L!Neg(x) \in L!Field
  <2>1. L!Neg(1) \in L!Field /\ L!Neg(1) = (P - 1) % P
    BY <1>0, NegIs
  <2>2. QED
    BY <1>5, <2>1
<1>7. y \in Vector /\ \A r \in Row : y[r] = IF r = column THEN 1 ELSE rhs[r]
  <2> HIDE DEF x
  <2>1. QED
    BY <1>0, <1>5 DEF Vector
<1> DEFINE da == L!Neg(x)
           z == 0
<1>8. b = [r \in Row |-> IF r >= z /\ r < z + column THEN (y[r] + da * w[r]) % P ELSE y[r]]
  <2>1. da \in L!Field /\ z \in Nat /\ z + column <= order /\ column \in Nat
    BY <1>1, <1>6
  <2> HIDE DEF da, y, w, z
  <2>2. L!daxpy(column, da, w, y, z)
          = [r \in Row |-> IF r >= z /\ r < z + column THEN (y[r] + da * w[r]) % P ELSE y[r]]
    BY <1>2, <1>7, <2>1, DaxpyIs
  <2>3. QED
    BY <2>2 DEF da, y, z
<1>9. ASSUME NEW r \in Row
      PROVE  (IF r >= z /\ r < z + column THEN (y[r] + da * w[r]) % P ELSE y[r])
               = IF r < column THEN L!Sum(UpperRow(r), column) ELSE 1
  <2>1. r >= z /\ z + column = column /\ column \in Int /\ r \in Int
    BY <1>1 DEF Row
  <2>2. CASE r < column
    <3> DEFINE f == UpperRow(r)
               s == L!Sum(f, column)
               t == w[r]
               p == P
    <3>1. y[r] = rhs[r]
      BY <1>7, <2>1, <2>2
    <3>2. rhs[r] = L!Sum(f, column + 1)
      BY <2>1, <2>2 DEF Substituted
    <3>3. f \in Family /\ f[column] = t
      BY <2>1, <2>2, UpperRowIs
    <3>4. s \in 0 .. p - 1 /\ L!Sum(f, column + 1) = (s + t) % p
      <4> HIDE DEF f, t
      <4>1. s \in L!Field /\ L!Sum(f, column + 1) = (s + f[column]) % P
        BY <1>1, <3>3, SumMore
      <4>2. QED
        BY <1>0, <3>3, <4>1
    <3>5. t \in 0 .. p - 1 /\ p \in Nat /\ p > 1
      BY <1>0, <1>2 DEF Vector
    <3>6. da = (p - 1) % p
      BY <1>6
    <3> HIDE DEF s, t, p, da, y
    <3>7. (((s + t) % p) + ((p - 1) % p) * t) % p = s
      BY <3>4, <3>5, TakeAway, Zenon
    <3>8. (y[r] + da * t) % p = s
      BY <3>1, <3>2, <3>4, <3>6, <3>7
    <3>9. QED
      BY <2>1, <2>2, <3>8 DEF s, t, p
  <2>3. CASE ~(r < column)
    <3>1. y[r] = 1
      <4>1. CASE r = column
        BY <1>7, <4>1
      <4>2. CASE r # column
        <5>1. ~(r <= column)
          BY <2>1, <2>3, <4>2
        <5>2. rhs[r] = 1
          BY <5>1 DEF Substituted
        <5> HIDE DEF y
        <5>3. QED
          BY <1>7, <4>2, <5>2
      <4>3. QED
        BY <4>1, <4>2
    <3> HIDE DEF y, z, da
    <3>2. QED
      BY <2>1, <2>3, <3>1
  <2>4. QED
    BY <2>2, <2>3
<1> HIDE DEF b, y, da, z
<1>10. b = [r \in Row |-> IF r < column THEN L!Sum(UpperRow(r), column) ELSE 1]
  BY <1>8, <1>9
<1>11. QED
  BY <1>10 DEF b, y

----------------------------------------------------------------------------
(***************************************************************************)
(* A pivot of zero: a combination of the columns is zero then.  It is      *)
(* found for the upper matrix first, and holds at each stage before,       *)
(* because a stage makes nothing zero that was not.                        *)
(***************************************************************************)
Zero == [r \in Row |-> 0]

\* Each column of W times its coefficient.
Scaled(x, W) == [j \in Row |-> [r \in Row |-> (x[j] * W[j][r]) % P]]

\* Types again.
LEMMA InField ==
  ASSUME L!LinpackAssumption, NEW x \in Int
  PROVE  x % P \in L!Field
<1>1. P \in Nat /\ P > 0 /\ L!Field = 0 .. P - 1
  BY Prime
<1>2. x % P \in 0 .. P - 1
  BY <1>1, Remainder
<1>3. QED
  BY <1>1, <1>2

LEMMA ScaledIs ==
  ASSUME L!LinpackAssumption, NEW x \in Vector, NEW W \in Vectors
  PROVE  Scaled(x, W) \in Vectors
<1>1. ASSUME NEW j \in Row, NEW r \in Row PROVE (x[j] * W[j][r]) % P \in L!Field
  <2> DEFINE y == x[j] * W[j][r]
  <2>1. x[j] \in Int /\ W[j][r] \in Int
    BY Prime DEF Vector, Vectors
  <2>2. y \in Int
    BY <2>1
  <2> HIDE DEF y
  <2>3. y % P \in L!Field
    BY <2>2, InField
  <2>4. QED
    BY <2>3 DEF y
<1>2. QED
  BY <1>1 DEF Scaled, Vectors, Vector

\* A product may be formed before the remainder is taken or after it.
Distributed(p, y, u, v, m) ==
  (((y * u) % p) + ((y * v) % p) * m) % p = (y * ((u + v * m) % p)) % p

LEMMA TimesOf ==
  ASSUME NEW p \in Nat, p > 1, NEW y \in Int, NEW u \in Int, NEW v \in Int, NEW m \in Int
  PROVE  Distributed(p, y, u, v, m)
<1> DEFINE a == y * u
           b == y * v
           x == u + v * m
<1>0. /\ p \in Nat /\ p > 0 /\ a \in Int /\ b \in Int /\ x \in Int
      /\ b % p \in Int /\ a % p \in Int /\ y \in Int /\ m \in Int
  BY Remainder
<1>1. y * x = a + m * b
  <2>1. y * x = y * u + y * (v * m)
    <3> DEFINE z == v * m
    <3>1. z \in Int
      OBVIOUS
    <3> HIDE DEF z
    <3>2. y * (u + z) = y * u + y * z
      BY <3>1
    <3>3. QED
      BY <3>2 DEF z
  <2>2. y * (v * m) = m * (y * v)
    OBVIOUS
  <2>3. QED
    BY <2>1, <2>2
<1> HIDE DEF a, b, x
<1>2. (0 + y * (x % p)) % p = (0 + y * x) % p
  <2> DEFINE z == 0
  <2>1. p > 0 /\ x \in Int /\ z \in Int
    BY <1>0
  <2> HIDE DEF z
  <2>2. (z + y * (x % p)) % p = (z + y * x) % p
    BY <2>1, BeforeTimes, Zenon
  <2>3. QED
    BY <2>2 DEF z
<1>3. (y * (x % p)) % p = (y * x) % p
  <2> DEFINE e == y * (x % p)
             f == y * x
  <2>1. e \in Int /\ f \in Int
    <3>1. x % p \in Int
      BY <1>0, Remainder
    <3>2. QED
      BY <1>0, <3>1
  <2>2. (0 + e) % p = (0 + f) % p
    BY <1>2
  <2> HIDE DEF e, f
  <2>3. 0 + e = e /\ 0 + f = f
    BY <2>1
  <2>4. QED
    BY <2>2, <2>3 DEF e, f
<1> DEFINE d == b % p
<1>4. ((a % p) + m * d) % p = (a + m * b) % p
  <2> DEFINE z == a % p
             e == m * b
  <2>1. z \in Int /\ e \in Int
    BY <1>0
  <2>2. (z + m * (b % p)) % p = (z + m * b) % p
    <3>1. p > 0 /\ b \in Int /\ z \in Int
      BY <1>0
    <3> HIDE DEF z, d, e
    <3>2. QED
      BY <3>1, BeforeTimes, Zenon
  <2> HIDE DEF e
  <2>3. ((a % p) + e) % p = (a + e) % p
    BY <1>0, <2>1, BeforePlus, Zenon
  <2>4. QED
    BY <2>2, <2>3 DEF e, z
<1>5. d * m = m * d
  BY <1>0
<1>6. QED
  BY <1>1, <1>3, <1>4, <1>5 DEF a, b, x, Distributed

\* A multiple of a vector.
Times(y, x) == [r \in Row |-> (y * x[r]) % P]

LEMMA TimesIsVector ==
  ASSUME L!LinpackAssumption, NEW y \in L!Field, NEW x \in Vector
  PROVE  Times(y, x) \in Vector
<1>1. ASSUME NEW r \in Row PROVE (y * x[r]) % P \in L!Field
  <2> DEFINE z == y * x[r]
  <2>1. x[r] \in Int /\ y \in Int
    BY Prime DEF Vector
  <2>2. z \in Int
    BY <2>1
  <2> HIDE DEF z
  <2>3. z % P \in L!Field
    BY <2>2, InField
  <2>4. QED
    BY <2>3 DEF z
<1>2. QED
  BY <1>1 DEF Times, Vector

\* A stage of a multiple is the multiple of the stage.
LEMMA StageOfMultiple ==
  ASSUME L!LinpackAssumption, NEW pivot \in Row, NEW multiplier \in Vector, NEW i \in Row,
         NEW x \in Vector, NEW y \in L!Field
  PROVE  Stage(pivot, multiplier, i, Times(y, x)) = Times(y, Stage(pivot, multiplier, i, x))
<1> DEFINE v == L!Swap(x, pivot, i)
           z == Times(y, x)
           w == L!Swap(z, pivot, i)
<1>0. P \in Nat /\ P > 1 /\ y \in Int
  BY Prime
<1>1. z \in Vector /\ \A r \in Row : z[r] = (y * x[r]) % P
  BY TimesIsVector DEF Times
<1>2. ASSUME NEW r \in Row
      PROVE  v[r] \in Int /\ w[r] = (y * v[r]) % P
  <2>1. Place(pivot, i, r) \in Row /\ v[r] = x[Place(pivot, i, r)]
    BY SwapPlace
  <2>2. w[r] = z[Place(pivot, i, r)]
    <3> HIDE DEF z
    <3>1. QED
      BY <1>1, SwapPlace
  <2>3. v[r] \in Int
    BY <2>1, Prime DEF Vector
  <2> HIDE DEF v, w, z
  <2>4. QED
    BY <1>1, <2>1, <2>2, <2>3
<1>3. Stage(pivot, multiplier, i, z)
        = [r \in Row |-> IF r > i THEN (w[r] + w[i] * multiplier[r]) % P ELSE w[r]]
  <2> HIDE DEF z
  <2>1. QED
    BY DEF Stage
<1>4. Stage(pivot, multiplier, i, x)
        = [r \in Row |-> IF r > i THEN (v[r] + v[i] * multiplier[r]) % P ELSE v[r]]
  BY DEF Stage
<1> HIDE DEF v, w, z
<1>5. ASSUME NEW r \in Row
      PROVE  (w[r] + w[i] * multiplier[r]) % P = (y * ((v[r] + v[i] * multiplier[r]) % P)) % P
  <2> DEFINE p == P
             a == v[r]
             b == v[i]
             m == multiplier[r]
  <2>1. p \in Nat /\ p > 1 /\ a \in Int /\ b \in Int /\ m \in Int
    BY <1>0, <1>2, Prime DEF Vector
  <2>2. w[r] = (y * a) % p /\ w[i] = (y * b) % p
    BY <1>2
  <2>3. y \in Int
    BY <1>0
  <2> HIDE DEF p, a, b, m
  <2>4. Distributed(p, y, a, b, m)
    BY <2>1, <2>3, TimesOf
  <2>5. QED
    BY <2>2, <2>4 DEF p, a, b, m, Distributed
<1>6. QED
  BY <1>2, <1>3, <1>4, <1>5 DEF Times, z

\* What a stage makes zero was zero.
LEMMA StageOfZero ==
  ASSUME L!LinpackAssumption, NEW pivot \in Row, NEW multiplier \in Vector, NEW i \in Row,
         NEW x \in Vector, Stage(pivot, multiplier, i, x) = Zero
  PROVE  x = Zero
<1> DEFINE w == L!Swap(x, pivot, i)
<1>1. w \in Vector
  BY SwapIs
<1>2. \A r \in Row : w[r] = x[Place(pivot, i, r)]
  BY SwapPlace
<1>3. Stage(pivot, multiplier, i, x)
        = [r \in Row |-> IF r > i THEN (w[r] + w[i] * multiplier[r]) % P ELSE w[r]]
  BY DEF Stage
<1> HIDE DEF w
<1>4. \A r \in Row : (IF r > i THEN (w[r] + w[i] * multiplier[r]) % P ELSE w[r]) = 0
  BY <1>3 DEF Zero
<1>5. w[i] = 0
  <2>1. ~(i > i)
    BY DEF Row
  <2>2. QED
    BY <1>4, <2>1
<1>6. \A r \in Row : w[r] = 0
  <2> TAKE r \in Row
  <2>1. CASE r > i
    <3>1. (w[r] + w[i] * multiplier[r]) % P = 0
      BY <1>4, <2>1
    <3>2. w[r] \in L!Field /\ multiplier[r] \in Int
      BY <1>1, Prime DEF Vector
    <3>3. w[r] % P = w[r] /\ w[r] \in Int
      BY <3>2, Small
    <3>4. w[r] + w[i] * multiplier[r] = w[r]
      BY <1>5, <3>2, <3>3
    <3>5. QED
      BY <3>1, <3>3, <3>4
  <2>2. CASE ~(r > i)
    BY <1>4, <2>2
  <2>3. QED
    BY <2>1, <2>2
<1>7. \A r \in Row : x[r] = 0
  <2> TAKE r \in Row
  <2>1. Place(pivot, i, r) \in Row /\ Place(pivot, i, Place(pivot, i, r)) = r
    BY DEF Place
  <2>2. QED
    BY <1>2, <1>6, <2>1
<1>8. QED
  BY <1>7 DEF Zero, Vector

\* A combination that is zero after the stages was zero before them.
LEMMA ZeroBefore ==
  ASSUME L!LinpackAssumption, order \in Nat \ {0}, lu \in Vectors, ipvt \in [Row -> Row],
         NEW H, Elimination(H, lu, ipvt, order - 1), NEW x \in Vector,
         Total(Scaled(x, At(H, order - 1))) = Zero
  PROVE  Total(Scaled(x, At(H, 0))) = Zero
<1> DEFINE q == order - 1
           S == {m \in 0 .. q : Total(Scaled(x, At(H, q - m))) = Zero}
<1>0. q \in Nat /\ q - 0 = q /\ q - q = 0
  OBVIOUS
<1>1. 0 \in S
  BY <1>0
<1>2. ASSUME NEW m \in 0 .. q - 1, m \in S
      PROVE  m + 1 \in S
  <2> DEFINE i == q - (m + 1)
             W == Scaled(x, At(H, i))
             X == Scaled(x, At(H, i + 1))
  <2>1. i \in Row /\ i + 1 \in Row /\ i < q /\ q - m = i + 1 /\ m + 1 \in 0 .. q
    BY DEF Row
  <2> HIDE DEF i
  <2>2. H \in [Row -> Vectors] /\ \A j \in Row : H[j][i + 1] = Stage(ipvt[i], lu[i], i, H[j][i])
    BY <2>1 DEF Elimination
  <2>3. /\ At(H, i) \in Vectors /\ \A j \in Row : At(H, i)[j] = H[j][i]
        /\ At(H, i + 1) \in Vectors /\ \A j \in Row : At(H, i + 1)[j] = H[j][i + 1]
    BY <2>1, <2>2, AtIs
  <2>4. W \in Vectors /\ X \in Vectors
    <3> DEFINE A0 == At(H, i)
               A1 == At(H, i + 1)
    <3>1. A0 \in Vectors /\ A1 \in Vectors
      BY <2>3
    <3> HIDE DEF A0, A1
    <3>2. Scaled(x, A0) \in Vectors /\ Scaled(x, A1) \in Vectors
      BY <3>1, ScaledIs
    <3>3. QED
      BY <3>2 DEF A0, A1
  <2>5. \A j \in Row : W[j] = Times(x[j], H[j][i]) /\ X[j] = Times(x[j], H[j][i + 1])
    BY <2>3 DEF Scaled, Times
  <2> DEFINE l == ipvt[i]
             mu == lu[i]
  <2>6. l \in Row /\ mu \in Vector
    BY <2>1 DEF Vectors
  <2> HIDE DEF W, X, l, mu
  <2>7. \A j \in Row : X[j] = Stage(l, mu, i, W[j])
    <3> TAKE j \in Row
    <3> DEFINE y == x[j]
               v == H[j][i]
    <3>1. y \in L!Field /\ v \in Vector
      BY <2>1, <2>2 DEF Vector, Vectors
    <3>2. W[j] = Times(y, v) /\ X[j] = Times(y, Stage(l, mu, i, v))
      BY <2>2, <2>5 DEF l, mu
    <3> HIDE DEF y, v
    <3>3. Stage(l, mu, i, Times(y, v)) = Times(y, Stage(l, mu, i, v))
      BY <2>1, <2>6, <3>1, StageOfMultiple
    <3>4. QED
      BY <3>2, <3>3
  <2>8. Total(X) = Stage(l, mu, i, Total(W))
    BY <2>1, <2>4, <2>6, <2>7, StageOfTotal
  <2>9. Total(X) = Zero
    BY <1>2, <2>1 DEF X
  <2>10. Total(W) \in Vector
    BY <2>4, TotalIs
  <2> DEFINE t == Total(W)
  <2> HIDE DEF t
  <2>11. t = Zero
    BY <2>1, <2>6, <2>8, <2>9, <2>10, StageOfZero DEF t
  <2>12. QED
    BY <2>1, <2>11 DEF W, i, t
<1> HIDE DEF S
<1>3. \A m \in 0 .. q : m \in S
  BY <1>0, <1>1, <1>2, UpTo
<1>4. q \in S
  BY <1>0, <1>3
<1>5. QED
  BY <1>0, <1>4 DEF S

\* A sum in which one term, which was zero, is another.
LEMMA SumOfOne ==
  ASSUME L!LinpackAssumption, order \in Nat, NEW k \in Row, NEW f \in Family,
         \A j \in Row : f[j] = IF j = k THEN 1 ELSE 0
  PROVE  L!Sum(f, order) = 1
<1> DEFINE S == {m \in 0 .. order : L!Sum(f, m) = IF m <= k THEN 0 ELSE 1}
<1>0. P \in Nat /\ P > 1 /\ k \in Nat /\ k < order /\ 0 % P = 0 /\ 1 % P = 1
  BY Prime, Small DEF Row
<1>1. 0 \in S
  BY <1>0, SumMore
<1>2. \A m \in 0 .. order - 1 : m \in S => m + 1 \in S
  <2> SUFFICES ASSUME NEW m \in 0 .. order - 1, m \in S
               PROVE  m + 1 \in S
    OBVIOUS
  <2>1. m \in Row /\ m + 1 \in 0 .. order /\ m \in Int
    BY DEF Row
  <2>2. L!Sum(f, m + 1) = (L!Sum(f, m) + f[m]) % P
    BY <2>1, SumMore
  <2>3. CASE m < k
    <3>1. L!Sum(f, m) = 0 /\ f[m] = 0
      BY <1>0, <2>1, <2>3
    <3>2. QED
      BY <1>0, <2>1, <2>2, <2>3, <3>1
  <2>4. CASE m = k
    <3>1. L!Sum(f, m) = 0 /\ f[m] = 1
      BY <1>0, <2>1, <2>4
    <3>2. QED
      BY <1>0, <2>1, <2>2, <2>4, <3>1
  <2>5. CASE m > k
    <3>1. L!Sum(f, m) = 1 /\ f[m] = 0
      BY <1>0, <2>1, <2>5
    <3>2. QED
      BY <1>0, <2>1, <2>2, <2>5, <3>1
  <2>6. QED
    BY <1>0, <2>1, <2>3, <2>4, <2>5
<1> HIDE DEF S
<1>3. \A m \in 0 .. order : m \in S
  BY <1>1, <1>2, UpTo
<1>4. order \in S /\ ~(order <= k)
  BY <1>0, <1>3
<1>5. QED
  BY <1>4 DEF S

\* The term of k is added to the sum of the others.
LEMMA OneTermMore ==
  ASSUME L!LinpackAssumption, order \in Nat, NEW k \in Row, NEW f \in Vector, NEW h \in Vector,
         f[k] = 0, \A j \in Row \ {k} : h[j] = f[j]
  PROVE  L!Sum(h, order) = (L!Sum(f, order) + h[k]) % P
<1> DEFINE g == [j \in Row |-> IF j = k THEN 1 ELSE 0]
           y == h[k]
<1>0. P \in Nat /\ P > 1 /\ order \in 0 .. order /\ L!Field \subseteq Int
  BY Prime
<1>1. f \in Family /\ h \in Family /\ g \in Family /\ y \in Int /\ y \in L!Field
  <2>1. f \in Family /\ h \in Family
    BY <1>0 DEF Vector, Family
  <2>2. g \in Family
    BY DEF Family
  <2>3. y \in L!Field
    BY DEF Vector
  <2>4. QED
    BY <1>0, <2>1, <2>2, <2>3
<1>2. \A j \in Row : g[j] = IF j = k THEN 1 ELSE 0
  OBVIOUS
<1> HIDE DEF g
<1>3. L!Sum(g, order) = 1
  BY <1>1, <1>2, SumOfOne
<1>4. ASSUME NEW j \in Row PROVE h[j] = (f[j] + y * g[j]) % P
  <2>1. f[j] \in L!Field
    BY DEF Vector
  <2>2. f[j] \in Int /\ f[j] % P = f[j] /\ y % P = y
    BY <1>1, <2>1, Small
  <2>3. CASE j = k
    <3>1. f[j] + y * g[j] = y
      BY <1>1, <1>2, <2>3
    <3>2. QED
      BY <2>2, <2>3, <3>1
  <2>4. CASE j # k
    <3>1. f[j] + y * g[j] = f[j]
      BY <1>1, <1>2, <2>2, <2>4
    <3>2. QED
      BY <2>2, <2>4, <3>1
  <2>5. QED
    BY <2>3, <2>4
<1> HIDE DEF y
<1>5. L!Sum(h, order) = (L!Sum(f, order) + y * L!Sum(g, order)) % P
  BY <1>0, <1>1, <1>4, SumLinear
<1>6. QED
  BY <1>1, <1>3, <1>5 DEF y

\* With the multiple of the diagonal element that is added, the sum is zero.
LEMMA CancelRow ==
  ASSUME L!LinpackAssumption, NEW w \in L!Field \ {0}, NEW x \in L!Field
  PROVE  \E y \in L!Field : (x + ((y * w) % P)) % P = 0
<1> DEFINE p == P
           z == L!Inverse1(w)
           t == ((p - z) % p) * x
           y == t % p
<1>0. p \in Nat /\ p > 1 /\ L!Field = 0 .. p - 1
  BY Prime
<1>1. z \in L!Field /\ (w * z) % p = 1
  BY InverseIs
<1> HIDE DEF z, p
<1>2. z \in 0 .. p - 1 /\ w \in 0 .. p - 1 /\ x \in 0 .. p - 1
  BY <1>0, <1>1
<1>3. (x + w * y) % p = 0
  BY <1>0, <1>1, <1>2, Cancel, Zenon
<1>4. t \in Int
  <2> DEFINE q == p - z
  <2>1. q \in Int /\ p > 0
    BY <1>0, <1>2
  <2> HIDE DEF q
  <2>2. q % p \in Int
    BY <1>0, <2>1, Remainder
  <2>3. QED
    BY <1>2, <2>2 DEF q
<1> HIDE DEF t
<1>5. y \in L!Field
  BY <1>4, InField DEF p
<1> HIDE DEF y
<1> DEFINE u == y * w
<1>6. u \in Int /\ w * y = u /\ y \in Int /\ w \in Int
  BY <1>0, <1>5
<1>7. (x + (u % p)) % p = (x + u) % p
  <2>1. p \in Nat /\ p > 0 /\ u \in Int /\ x \in Int /\ u % p \in Int
    <3> HIDE DEF u
    <3>1. p \in Nat /\ p > 0
      BY <1>0
    <3>2. QED
      BY <1>2, <1>6, <3>1, Remainder
  <2> HIDE DEF u
  <2>2. ((u % p) + x) % p = (u + x) % p
    BY <2>1, BeforePlus, Zenon
  <2>3. (u % p) + x = x + (u % p) /\ u + x = x + u
    BY <2>1
  <2>4. QED
    BY <2>2, <2>3
<1>8. (x + ((y * w) % P)) % P = 0
  BY <1>3, <1>6, <1>7 DEF p
<1>9. QED
  BY <1>5, <1>8

\* A combination of the columns of U that is zero from row t on, by the column q, whose
\* coefficient is 1, and columns before it.
Combines(x, U, t, q) ==
  /\ x \in Vector
  /\ x[q] = 1
  /\ \A j \in Row : j < t \/ j > q => x[j] = 0
  /\ \A r \in Row : r >= t => Total(Scaled(x, U))[r] = 0

\* A row of a combination, as a sum.
LEMMA TotalScaled ==
  ASSUME L!LinpackAssumption, order \in Nat, NEW x \in Vector, NEW U \in Vectors, NEW r \in Row
  PROVE  LET f == Across(Scaled(x, U), r)
         IN /\ f \in Vector /\ \A j \in Row : f[j] = (x[j] * U[j][r]) % P
            /\ Total(Scaled(x, U))[r] = L!Sum(f, order)
            /\ Total(Scaled(x, U))[r] \in L!Field
<1> DEFINE W == Scaled(x, U)
           f == Across(W, r)
<1>1. W \in Vectors
  BY ScaledIs
<1>2. \A j \in Row : W[j][r] = (x[j] * U[j][r]) % P
  BY DEF Scaled
<1> HIDE DEF W
<1>3. f \in Vector /\ \A j \in Row : f[j] = W[j][r]
  BY <1>1 DEF Across, Vectors, Vector
<1>4. Total(W)[r] = L!Sum(f, order)
  BY DEF Total
<1>5. Total(W)[r] \in L!Field
  BY <1>1, TotalIs DEF Vector
<1>6. QED
  BY <1>2, <1>3, <1>4, <1>5 DEF W

LEMMA ProductZero ==
  ASSUME L!LinpackAssumption, NEW y \in L!Field, NEW u \in L!Field, y = 0 \/ u = 0
  PROVE  (y * u) % P = 0
<1>1. y \in Int /\ u \in Int /\ P \in Nat /\ P > 1
  BY Prime
<1>2. y * u = 0
  BY <1>1
<1>3. 0 % P = 0
  BY <1>1
<1>4. QED
  BY <1>2, <1>3

\* The coefficients are found row by row, from the diagonal element that is zero up.
LEMMA CombinesFirst ==
  ASSUME L!LinpackAssumption, order \in Nat, NEW a \in Vectors, NEW q \in Row, a[q][q] = 0,
         NEW U, U = [j \in Row |-> Upper(a, j)]
  PROVE  \E x : Combines(x, U, q, q)
<1> DEFINE x == [j \in Row |-> IF j = q THEN 1 ELSE 0]
<1>0. \A r \in Row : r \in Int
  BY DEF Row
<1>1. x \in Vector /\ x[q] = 1 /\ \A j \in Row : j # q => x[j] = 0
  BY Prime DEF Vector
<1>2. U \in Vectors /\ \A j, r \in Row : U[j][r] = IF r <= j THEN a[j][r] ELSE 0
  BY UpperIsVector DEF Vectors, Upper
<1> HIDE DEF x
<1>3. ASSUME NEW r \in Row, r >= q PROVE Total(Scaled(x, U))[r] = 0
  <2> DEFINE f == Across(Scaled(x, U), r)
  <2>1. /\ f \in Vector /\ \A j \in Row : f[j] = (x[j] * U[j][r]) % P
        /\ Total(Scaled(x, U))[r] = L!Sum(f, order)
    BY <1>1, <1>2, TotalScaled
  <2>2. ASSUME NEW j \in Row PROVE f[j] = 0
    <3> DEFINE y == x[j]
               u == U[j][r]
    <3>1. y \in L!Field /\ u \in L!Field
      BY <1>1, <1>2 DEF Vector, Vectors
    <3>2. y = 0 \/ u = 0
      <4>1. CASE j # q
        BY <1>1, <4>1
      <4>2. CASE j = q
        <5>1. r = q \/ ~(r <= j)
          BY <1>0, <1>3, <4>2
        <5>2. QED
          BY <1>2, <4>2, <5>1
      <4>3. QED
        BY <4>1, <4>2
    <3> HIDE DEF y, u
    <3>3. (y * u) % P = 0
      BY <3>1, <3>2, ProductZero
    <3>4. QED
      BY <2>1, <3>3 DEF y, u
  <2>3. f \in Family /\ order \in 0 .. order
    BY <2>1, Prime DEF Vector, Family
  <2> HIDE DEF f
  <2>4. L!Sum(f, order) = 0
    BY <2>2, <2>3, SumOfZeros
  <2>5. QED
    BY <2>1, <2>4
<1>4. \A j \in Row : j < q \/ j > q => x[j] = 0
  BY <1>0, <1>1
<1>5. Combines(x, U, q, q)
  BY <1>1, <1>3, <1>4 DEF Combines
<1>6. QED
  BY <1>5

\* A row more: its coefficient cancels what the coefficients so far leave.
LEMMA CombinesMore ==
  ASSUME L!LinpackAssumption, order \in Nat, NEW a \in Vectors, NEW q \in Row,
         NEW U, U = [j \in Row |-> Upper(a, j)],
         NEW k \in Row, k < q, a[k][k] # 0, NEW x, Combines(x, U, k + 1, q)
  PROVE  \E z : Combines(z, U, k, q)
<1> DEFINE d == Total(Scaled(x, U))
           w == a[k][k]
           e == d[k]
<1>0. \A r \in Row : r \in Int
  BY DEF Row
<1>1. /\ x \in Vector /\ x[q] = 1 /\ \A j \in Row : j < k + 1 \/ j > q => x[j] = 0
      /\ \A r \in Row : r >= k + 1 => d[r] = 0
  BY DEF Combines
<1>2. U \in Vectors /\ \A j, r \in Row : U[j][r] = IF r <= j THEN a[j][r] ELSE 0
  BY UpperIsVector DEF Vectors, Upper
<1>3. w \in L!Field \ {0} /\ \A r \in Row : d[r] \in L!Field
  <2>1. \A r \in Row : d[r] \in L!Field
    BY <1>1, <1>2, TotalScaled
  <2>2. QED
    BY <2>1 DEF Vectors, Vector
<1>4. PICK y \in L!Field : (e + ((y * w) % P)) % P = 0
  <2>1. e \in L!Field
    BY <1>3
  <2> HIDE DEF e, w
  <2>2. QED
    BY <1>3, <2>1, CancelRow
<1> DEFINE z == [x EXCEPT ![k] = y]
<1>5. z \in Vector /\ z[k] = y /\ x[k] = 0 /\ \A j \in Row : j # k => z[j] = x[j]
  BY <1>0, <1>1 DEF Vector
<1> HIDE DEF z, d
<1>6. ASSUME NEW r \in Row PROVE Total(Scaled(z, U))[r] = (d[r] + ((y * U[k][r]) % P)) % P
  <2> DEFINE f == Across(Scaled(x, U), r)
             h == Across(Scaled(z, U), r)
  <2>1. /\ f \in Vector /\ \A j \in Row : f[j] = (x[j] * U[j][r]) % P
        /\ d[r] = L!Sum(f, order)
    BY <1>1, <1>2, TotalScaled DEF d
  <2>2. /\ h \in Vector /\ \A j \in Row : h[j] = (z[j] * U[j][r]) % P
        /\ Total(Scaled(z, U))[r] = L!Sum(h, order)
    BY <1>2, <1>5, TotalScaled
  <2> HIDE DEF f, h
  <2>3. f[k] = 0
    <3> DEFINE o == x[k]
               u == U[k][r]
    <3>1. o \in L!Field /\ u \in L!Field /\ o = 0
      BY <1>1, <1>2, <1>5 DEF Vector, Vectors
    <3> HIDE DEF o, u
    <3>2. (o * u) % P = 0
      BY <3>1, ProductZero
    <3>3. QED
      BY <2>1, <3>2 DEF o, u
  <2>4. \A j \in Row \ {k} : h[j] = f[j]
    BY <1>5, <2>1, <2>2
  <2>5. L!Sum(h, order) = (L!Sum(f, order) + h[k]) % P
    BY <2>1, <2>2, <2>3, <2>4, OneTermMore
  <2>6. h[k] = (y * U[k][r]) % P
    BY <1>5, <2>2
  <2>7. QED
    BY <2>1, <2>2, <2>5, <2>6
<1>7. ASSUME NEW r \in Row, r >= k PROVE Total(Scaled(z, U))[r] = 0
  <2>1. CASE r = k
    <3>1. U[k][r] = w
      BY <1>0, <1>2, <2>1
    <3>2. QED
      BY <1>4, <1>6, <2>1, <3>1
  <2>2. CASE r # k
    <3>1. r >= k + 1 /\ ~(r <= k)
      BY <1>0, <1>7, <2>2
    <3>2. d[r] = 0 /\ U[k][r] = 0
      BY <1>1, <1>2, <3>1 DEF d
    <3>3. 0 \in L!Field
      BY Prime
    <3>4. (y * 0) % P = 0
      BY <3>3, ProductZero
    <3>5. (0 + 0) % P = 0
      BY <3>3, Small
    <3>6. QED
      BY <1>6, <3>2, <3>4, <3>5
  <2>3. QED
    BY <2>1, <2>2
<1>8. z[q] = 1 /\ \A j \in Row : j < k \/ j > q => z[j] = 0
  <2>1. q # k
    BY <1>0
  <2>2. ASSUME NEW j \in Row, j < k \/ j > q PROVE z[j] = 0
    <3>1. j # k /\ (j < k + 1 \/ j > q)
      BY <1>0, <2>2
    <3>2. QED
      BY <1>1, <1>5, <3>1
  <2>3. QED
    BY <1>1, <1>5, <2>1, <2>2
<1>9. Combines(z, U, k, q)
  BY <1>5, <1>7, <1>8 DEF Combines
<1>10. QED
  BY <1>9

\* With a zero on its diagonal, the columns of an upper matrix have a combination that is zero.
LEMMA Kernel ==
  ASSUME L!LinpackAssumption, order \in Nat, NEW a \in Vectors, NEW k \in Row, a[k][k] = 0,
         NEW U, U = [j \in Row |-> Upper(a, j)]
  PROVE  \E x \in Vector : (\E j \in Row : x[j] # 0) /\ Total(Scaled(x, U)) = Zero
<1> DEFINE D == {j \in Row : a[j][j] = 0}
<1>1. PICK q \in D : \A j \in D : q <= j
  <2>1. D \subseteq Nat /\ D # {}
    BY DEF Row
  <2> HIDE DEF D
  <2>2. QED
    BY <2>1, Least
<1>2. q \in Row /\ a[q][q] = 0 /\ \A j \in Row : j < q => a[j][j] # 0
  <2>1. ASSUME NEW j \in Row, j < q PROVE a[j][j] # 0
    <3>1. ~(q <= j) /\ q \in Row
      BY <1>1, <2>1 DEF Row
    <3>2. QED
      BY <1>1, <3>1
  <2>2. QED
    BY <1>1, <2>1
<1> HIDE DEF D
<1> DEFINE S == {m \in 0 .. q : \E x : Combines(x, U, q - m, q)}
<1>3. q \in Nat /\ q < order /\ q - 0 = q /\ q - q = 0
  BY <1>2 DEF Row
<1>4. 0 \in S
  <2>1. \E x : Combines(x, U, q, q)
    BY <1>2, CombinesFirst
  <2>2. QED
    BY <1>3, <2>1
<1>5. ASSUME NEW m \in 0 .. q - 1, m \in S
      PROVE  m + 1 \in S
  <2> DEFINE i == q - (m + 1)
  <2>1. i \in Row /\ i < q /\ q - m = i + 1 /\ m + 1 \in 0 .. q
    BY <1>3 DEF Row
  <2>2. PICK x : Combines(x, U, i + 1, q)
    BY <1>5, <2>1
  <2>3. a[i][i] # 0
    BY <1>2, <2>1
  <2> HIDE DEF i
  <2>4. \E z : Combines(z, U, i, q)
    BY <1>2, <2>1, <2>2, <2>3, CombinesMore
  <2>5. QED
    BY <2>1, <2>4 DEF i
<1> HIDE DEF S
<1>6. \A m \in 0 .. q : m \in S
  BY <1>3, <1>4, <1>5, UpTo
<1>7. q \in S
  BY <1>3, <1>6
<1>8. PICK x : Combines(x, U, 0, q)
  BY <1>3, <1>7 DEF S
<1>9. x \in Vector /\ x[q] # 0 /\ \A r \in Row : Total(Scaled(x, U))[r] = 0
  <2>1. \A r \in Row : r >= 0
    BY DEF Row
  <2>2. QED
    BY <1>8, <2>1 DEF Combines
<1>10. Total(Scaled(x, U)) = Zero
  BY <1>9 DEF Total, Zero
<1>11. QED
  BY <1>2, <1>9, <1>10

\* A pivot of zero: the matrix is singular.
LEMMA ZeroPivot ==
  ASSUME L!LinpackAssumption, order \in Nat \ {0}, matrix \in Vectors, lu \in Vectors,
         ipvt \in [Row -> Row], NEW H, Elimination(H, lu, ipvt, order - 1),
         NEW k \in Row, lu[k][k] = 0
  PROVE  L!Singular
<1> DEFINE q == order - 1
           U == [j \in Row |-> Upper(lu, j)]
<1>1. q \in Row /\ 0 \in Row /\ order \in Nat
  BY DEF Row
<1>2. H \in [Row -> Vectors] /\ \A j \in Row : H[j][0] = matrix[j]
  BY DEF Elimination
<1>3. At(H, q) = U
  <2>1. ASSUME NEW j \in Row PROVE H[j][q] = Upper(lu, j)
    <3>1. H[j][q] = IF j < q THEN Upper(lu, j) ELSE lu[j]
      BY DEF Elimination
    <3>2. CASE j < q
      BY <3>1, <3>2
    <3>3. CASE ~(j < q)
      <4>1. \A r \in Row : r <= j
        BY <3>3 DEF Row
      <4>2. Upper(lu, j) = [r \in Row |-> lu[j][r]]
        BY <4>1 DEF Upper
      <4>3. lu[j] = [r \in Row |-> lu[j][r]]
        BY DEF Vectors, Vector
      <4>4. QED
        BY <3>1, <3>3, <4>2, <4>3
    <3>4. QED
      BY <3>2, <3>3
  <2>2. QED
    BY <2>1 DEF At
<1>4. At(H, 0) = matrix
  <2>1. At(H, 0) = [j \in Row |-> matrix[j]]
    BY <1>2 DEF At
  <2>2. matrix = [j \in Row |-> matrix[j]]
    BY DEF Vectors
  <2>3. QED
    BY <2>1, <2>2
<1> HIDE DEF U
<1>5. PICK x \in Vector : (\E j \in Row : x[j] # 0) /\ Total(Scaled(x, U)) = Zero
  BY <1>1, Kernel DEF U
<1>6. Total(Scaled(x, At(H, q))) = Zero
  BY <1>3, <1>5
<1>7. Total(Scaled(x, matrix)) = Zero
  BY <1>4, <1>5, <1>6, ZeroBefore
<1>8. ASSUME NEW i \in Row
      PROVE  L!Sum([j \in Row |-> x[j] * matrix[j][i]], order) = 0
  <2> DEFINE g == [j \in Row |-> x[j] * matrix[j][i]]
             f == Across(Scaled(x, matrix), i)
  <2>0. P \in Nat /\ P > 1 /\ order \in 0 .. order
    BY Prime
  <2>1. /\ f \in Vector /\ \A j \in Row : f[j] = (x[j] * matrix[j][i]) % P
        /\ Total(Scaled(x, matrix))[i] = L!Sum(f, order)
    BY <1>1, <1>5, TotalScaled
  <2>2. L!Sum(f, order) = 0
    <3> HIDE DEF f
    <3>1. QED
      BY <1>7, <2>1 DEF Zero
  <2>3. f \in Family
    <3> HIDE DEF f
    <3>1. QED
      BY <2>1, Prime DEF Vector, Family
  <2>4. g \in Family
    <3>1. \A j \in Row : x[j] \in Int /\ matrix[j][i] \in Int
      BY <1>5, Prime DEF Vector, Vectors
    <3>2. \A j \in Row : x[j] * matrix[j][i] \in Int
      BY <3>1
    <3>3. QED
      BY <3>2 DEF Family
  <2>5. \A j \in Row : g[j] = x[j] * matrix[j][i]
    OBVIOUS
  <2> HIDE DEF f, g
  <2>6. ASSUME NEW j \in Row PROVE f[j] = (g[j] + 0 * g[j]) % P
    <3>1. g[j] \in Int
      BY <2>4 DEF Family
    <3>2. g[j] + 0 * g[j] = g[j]
      BY <3>1
    <3>3. QED
      BY <2>1, <2>5, <3>2
  <2> DEFINE y == 0
  <2>7. y \in Int /\ \A j \in Row : f[j] = (g[j] + y * g[j]) % P
    BY <2>6
  <2> HIDE DEF y
  <2>8. L!Sum(f, order) = (L!Sum(g, order) + y * L!Sum(g, order)) % P
    BY <2>0, <2>3, <2>4, <2>7, SumLinear, <1>1
  <2>9. L!Sum(g, order) \in L!Field
    BY <1>1, <2>0, <2>4, SumMore
  <2> DEFINE s == L!Sum(g, order)
  <2> HIDE DEF s
  <2>10. s \in Int /\ s % P = s /\ s + 0 = s
    BY <2>9, Small DEF s
  <2>11. s + 0 * s = s
    BY <2>10
  <2>12. (s + 0 * s) % P = 0
    BY <2>2, <2>8 DEF s, y
  <2>13. QED
    BY <2>10, <2>11, <2>12 DEF s, g
<1>9. x \in [0 .. order - 1 -> L!Field] /\ \E j \in 0 .. order - 1 : x[j] # 0
  BY <1>5 DEF Vector, Row
<1>10. \A i \in 0 .. order - 1 : L!Sum([j \in 0 .. order - 1 |-> x[j] * matrix[j][i]], order) = 0
  BY <1>8 DEF Row
<1>11. QED
  BY <1>9, <1>10 DEF L!Singular

----------------------------------------------------------------------------
(***************************************************************************)
(* The invariant of the benchmark: the columns have gone through the       *)
(* stages, and the right hand side is their sum.                           *)
(***************************************************************************)
LinpackType ==
  /\ order \in Nat \ {0} /\ column \in Row
  /\ matrix \in Vectors /\ lu \in Vectors /\ rhs \in Vector /\ ipvt \in [Row -> Row]

Eliminated(q) == \E H : Elimination(H, lu, ipvt, q)

Factors == phase = "dgefa" => rhs = Total(matrix) /\ Eliminated(column)
GoesForward ==
  phase = "forward" =>
    \E H : Elimination(H, lu, ipvt, order - 1) /\ rhs = Total(At(H, column))
GoesBackward == phase = "backward" => Eliminated(order - 1) /\ Substituted
Solved == phase = "solved" => rhs = [r \in Row |-> 1]
DividesByZero == phase = "not a number" => L!Singular

LinpackInv ==
  LinpackType /\ Factors /\ GoesForward /\ GoesBackward /\ Solved /\ DividesByZero

\* The right hand side of matgen is the sum of the columns.
LEMMA RowSumsAre == L!RowSums = Total(matrix)
BY DEF L!RowSums, L!RowSum, Total, Across, Row

LEMMA MatricesAre == \A q : q = order => L!Matrices(q) = Vectors
BY DEF L!Matrices, Vectors, Vector, Row

\* Before the first stage.
LEMMA StartsWith ==
  ASSUME L!LinpackAssumption, order \in Nat \ {0}, matrix \in Vectors, NEW p
  PROVE  \E H : Elimination(H, matrix, p, 0)
<1> DEFINE H == [j \in Row |-> [i \in Row |-> matrix[j]]]
<1>1. H \in [Row -> Vectors]
  BY DEF Vectors
<1>2. 0 \in Row /\ \A j \in Row : ~(j < 0)
  BY DEF Row
<1>3. Elimination(H, matrix, p, 0)
  BY <1>1, <1>2 DEF Elimination
<1>4. QED
  BY <1>3

LEMMA LinpackInit == L!LinpackAssumption /\ L!Init => LinpackInv
<1> SUFFICES ASSUME L!LinpackAssumption, L!Init
             PROVE  LinpackInv
  OBVIOUS
<1>1. order \in Nat \ {0} /\ matrix \in L!Matrices(order)
  <2>1. MaxOrder \in Nat \ {0} /\ AnyOrder \in Nat \ {0}
    BY DEF L!LinpackAssumption
  <2>2. CASE order \in 1 .. MaxOrder /\ matrix = L!Generated(order)
    <3>1. order \in Nat \ {0}
      BY <2>1, <2>2
    <3>2. QED
      BY <2>2, <3>1, GeneratedIs
  <2>3. CASE order = AnyOrder /\ matrix \in L!Matrices(AnyOrder)
    BY <2>1, <2>3
  <2>4. QED
    BY <2>2, <2>3 DEF L!Init
<1>2. matrix \in Vectors
  BY <1>1, MatricesAre
<1>3. /\ lu = matrix /\ rhs = Total(matrix) /\ column = 0 /\ phase = "dgefa"
      /\ ipvt = [i \in Row |-> 0]
  BY RowSumsAre DEF L!Init, Row
<1>4. rhs \in Vector
  BY <1>1, <1>2, <1>3, TotalIs
<1>5. 0 \in Row
  BY <1>1 DEF Row
<1>6. LinpackType
  BY <1>1, <1>2, <1>3, <1>4, <1>5 DEF LinpackType
<1>7. Eliminated(column)
  BY <1>1, <1>2, <1>3, StartsWith DEF Eliminated
<1>8. QED
  BY <1>3, <1>6, <1>7
     DEF LinpackInv, Factors, GoesForward, GoesBackward, Solved, DividesByZero

\* What an elimination says depends on the pivots of its columns alone.
LEMMA OtherPivots ==
  ASSUME NEW H, NEW p, NEW o, NEW q, NEW a, Elimination(H, a, p, q),
         \A i \in Row : i < q => o[i] = p[i]
  PROVE  Elimination(H, a, o, q)
BY DEF Elimination

\* ... and on the matrix, not on the state.
LEMMA EliminationStays ==
  ASSUME order' = order, matrix' = matrix
  PROVE  /\ \A H, q : Elimination(H, lu', ipvt', q) = (Elimination(H, lu, ipvt, q))'
         /\ \A H, q : Total(At(H, q)) = (Total(At(H, q)))'
         /\ Row' = Row /\ Vector' = Vector /\ Vectors' = Vectors
         /\ Total(matrix)' = Total(matrix)
<1>1. Row' = Row
  BY DEF Row
<1>2. Vector' = Vector /\ Vectors' = Vectors
  BY <1>1 DEF Vectors, Vector
<1>3. \A H, q : Elimination(H, lu', ipvt', q) = (Elimination(H, lu, ipvt, q))'
  BY <1>1, <1>2 DEF Elimination, Upper, Stage, L!Swap
<1>4. \A H, q : Total(At(H, q)) = (Total(At(H, q)))'
  BY <1>1 DEF Total, Across, At
<1>5. Total(matrix)' = Total(matrix)
  BY <1>1 DEF Total, Across
<1>6. QED
  BY <1>1, <1>2, <1>3, <1>4, <1>5

\* The invariant holds after each step: of dgefa ...
LEMMA DgefaInv ==
  ASSUME L!LinpackAssumption, LinpackInv, L!dgefa
  PROVE  LinpackInv'
<1> DEFINE l == L!idamax(lu[column], column)
<1>1. /\ phase = "dgefa" /\ column < order - 1
      /\ ipvt' = [ipvt EXCEPT ![column] = l]
      /\ IF lu[column][l] # 0 THEN lu' = L!Eliminate(l) ELSE lu' = lu
      /\ column' = column + 1 /\ order' = order /\ matrix' = matrix /\ rhs' = rhs
      /\ phase' = phase
  BY DEF L!dgefa
<1>2. /\ order \in Nat /\ order \in Nat \ {0} /\ column \in Row /\ matrix \in Vectors /\ lu \in Vectors
      /\ rhs \in Vector /\ ipvt \in [Row -> Row]
      /\ rhs = Total(matrix) /\ Eliminated(column)
  BY <1>1 DEF LinpackInv, LinpackType, Factors
<1>3. /\ l \in Row /\ l >= column
      /\ lu[column][l] = 0 => l = column /\ \A j \in column .. order - 1 : lu[column][j] = 0
  <2> DEFINE x == lu[column]
  <2>1. x \in Vector
    BY <1>2 DEF Vectors
  <2> HIDE DEF x
  <2>2. LET o == L!idamax(x, column)
        IN /\ o \in Row /\ o >= column
           /\ x[o] = 0 => o = column /\ \A j \in column .. order - 1 : x[j] = 0
    BY <1>2, <2>1, IdamaxIs
  <2>3. QED
    BY <2>2 DEF x
<1> HIDE DEF l
<1>4. Eliminates(l, lu')
  <2>1. CASE lu[column][l] # 0
    <3>1. lu' = L!Eliminate(l)
      BY <1>1, <2>1
    <3>2. QED
      BY <1>1, <1>2, <1>3, <2>1, <3>1, EliminateIs DEF Eliminates
  <2>2. CASE lu[column][l] = 0
    BY <1>1, <1>3, <2>2 DEF Eliminates
  <2>3. QED
    BY <2>1, <2>2
<1> DEFINE a == lu'
           p == ipvt'
<1>5. a \in Vectors /\ p \in [Row -> Row] /\ column + 1 \in Row
  <2>1. a \in Vectors
    <3> HIDE DEF a
    <3>1. Eliminates(l, a)
      BY <1>4 DEF a
    <3>2. QED
      BY <1>2, <1>3, <3>1, EliminatesType
  <2>2. column + 1 \in Row
    BY <1>1, <1>2 DEF Row
  <2>3. QED
    BY <1>1, <1>2, <1>3, <2>1, <2>2
<1>6. \E G : Elimination(G, a, p, column + 1)
  <2>1. PICK H : Elimination(H, lu, ipvt, column)
    BY <1>2 DEF Eliminated
  <2>2. Eliminates(l, a)
    BY <1>4
  <2> HIDE DEF a
  <2>3. \E G : Elimination(G, a, [ipvt EXCEPT ![column] = l], column + 1)
    BY <1>1, <1>2, <1>3, <2>1, <2>2, EliminationStep
  <2>4. QED
    BY <1>1, <2>3
<1>7. Row' = Row /\ Vectors' = Vectors /\ Vector' = Vector /\ Total(matrix)' = Total(matrix)
  BY <1>1, EliminationStays
<1>8. LinpackType'
  BY <1>1, <1>2, <1>5, <1>7 DEF LinpackType
<1>9. (Eliminated(column))'
  <2>1. PICK G : Elimination(G, a, p, column + 1)
    BY <1>6
  <2>2. PICK q : q = column + 1
    OBVIOUS
  <2>3. Elimination(G, lu', ipvt', q)
    BY <2>1, <2>2
  <2>4. (Elimination(G, lu, ipvt, q))'
    BY <1>1, <2>3, EliminationStays
  <2>5. column' = q
    BY <1>1, <2>2
  <2>6. QED
    BY <2>4, <2>5 DEF Eliminated
<1>10. QED
  BY <1>1, <1>2, <1>7, <1>8, <1>9
     DEF LinpackInv, Factors, GoesForward, GoesBackward, Solved, DividesByZero

LEMMA DgefaEndInv ==
  ASSUME L!LinpackAssumption, LinpackInv, L!dgefaEnd
  PROVE  LinpackInv'
<1>1. /\ phase = "dgefa" /\ column = order - 1
      /\ ipvt' = [ipvt EXCEPT ![order - 1] = order - 1]
      /\ column' = 0 /\ phase' = "forward"
      /\ order' = order /\ matrix' = matrix /\ lu' = lu /\ rhs' = rhs
  BY DEF L!dgefaEnd
<1>2. /\ order \in Nat \ {0} /\ column \in Row /\ matrix \in Vectors /\ lu \in Vectors
      /\ rhs \in Vector /\ ipvt \in [Row -> Row]
      /\ rhs = Total(matrix) /\ Eliminated(order - 1)
  BY <1>1 DEF LinpackInv, LinpackType, Factors
<1>3. Row' = Row /\ Vectors' = Vectors /\ Vector' = Vector
  BY <1>1, EliminationStays
<1>4. 0 \in Row /\ order - 1 \in Row
  BY <1>2 DEF Row
<1>5. LinpackType'
  BY <1>1, <1>2, <1>3, <1>4 DEF LinpackType
<1>6. PICK H : Elimination(H, lu, ipvt, order - 1)
  BY <1>2 DEF Eliminated
<1>7. PICK q : q = order - 1
  OBVIOUS
<1>8. Elimination(H, lu', ipvt', q)
  <2> DEFINE o == ipvt'
  <2>1. \A i \in Row : i < q => o[i] = ipvt[i]
    BY <1>1, <1>2, <1>4, <1>7 DEF Row
  <2>2. Elimination(H, lu, ipvt, q)
    BY <1>6, <1>7
  <2> HIDE DEF o
  <2>3. Elimination(H, lu, o, q)
    BY <2>1, <2>2, OtherPivots
  <2>4. QED
    BY <1>1, <2>3 DEF o
<1>9. (Elimination(H, lu, ipvt, q))'
  BY <1>1, <1>8, EliminationStays
<1>10. Total(At(H, 0)) = rhs
  <2>1. At(H, 0) = [j \in Row |-> matrix[j]]
    BY <1>6 DEF Elimination, At
  <2>2. matrix = [j \in Row |-> matrix[j]]
    BY <1>2 DEF Vectors
  <2>3. QED
    BY <1>2, <2>1, <2>2
<1>11. PICK z : z = 0
  OBVIOUS
<1>12. rhs' = (Total(At(H, z)))'
  BY <1>1, <1>10, <1>11, EliminationStays
<1>13. GoesForward'
  BY <1>1, <1>7, <1>9, <1>11, <1>12 DEF GoesForward
<1>14. QED
  BY <1>1, <1>5, <1>13 DEF LinpackInv, Factors, GoesBackward, Solved, DividesByZero

\* ... of dgesl ...
LEMMA ForwardInv ==
  ASSUME L!LinpackAssumption, LinpackInv, L!Forward
  PROVE  LinpackInv'
<1> DEFINE l == ipvt[column]
           b == L!daxpy(order - (column + 1), rhs[l], lu[column],
                        L!Swap(rhs, l, column), column + 1)
<1>1. /\ phase = "forward" /\ column < order - 1 /\ rhs' = b
      /\ column' = column + 1 /\ phase' = phase
      /\ order' = order /\ matrix' = matrix /\ lu' = lu /\ ipvt' = ipvt
  BY DEF L!Forward
<1>2. /\ order \in Nat \ {0} /\ order \in Nat /\ column \in Row /\ matrix \in Vectors
      /\ lu \in Vectors /\ rhs \in Vector /\ ipvt \in [Row -> Row]
  BY DEF LinpackInv, LinpackType
<1>3. PICK H : Elimination(H, lu, ipvt, order - 1) /\ rhs = Total(At(H, column))
  BY <1>1 DEF LinpackInv, GoesForward
<1>4. b \in Vector /\ b = Total(At(H, column + 1))
  <2>1. LET o == ipvt[column]
            v == L!daxpy(order - (column + 1), rhs[o], lu[column],
                         L!Swap(rhs, o, column), column + 1)
        IN v \in Vector /\ v = Total(At(H, column + 1))
    BY <1>1, <1>2, <1>3, ForwardStep
  <2>2. QED
    BY <2>1
<1> HIDE DEF b
<1>5. Row' = Row /\ Vectors' = Vectors /\ Vector' = Vector
  BY <1>1, EliminationStays
<1>6. column + 1 \in Row
  BY <1>1, <1>2 DEF Row
<1>7. LinpackType'
  BY <1>1, <1>2, <1>4, <1>5, <1>6 DEF LinpackType
<1>8. PICK q : q = order - 1
  OBVIOUS
<1>9. (Elimination(H, lu, ipvt, q))'
  <2>1. Elimination(H, lu', ipvt', q)
    BY <1>1, <1>3, <1>8
  <2>2. QED
    BY <1>1, <2>1, EliminationStays
<1>10. PICK z : z = column + 1
  OBVIOUS
<1>11. rhs' = (Total(At(H, z)))'
  BY <1>1, <1>4, <1>10, EliminationStays
<1>12. GoesForward'
  BY <1>1, <1>8, <1>9, <1>10, <1>11 DEF GoesForward
<1>13. QED
  BY <1>1, <1>7, <1>12 DEF LinpackInv, Factors, GoesBackward, Solved, DividesByZero

LEMMA ForwardEndInv ==
  ASSUME L!LinpackAssumption, LinpackInv, L!ForwardEnd
  PROVE  LinpackInv'
<1>1. /\ phase = "forward" /\ column = order - 1 /\ rhs' = rhs
      /\ column' = column /\ phase' = "backward"
      /\ order' = order /\ matrix' = matrix /\ lu' = lu /\ ipvt' = ipvt
  BY DEF L!ForwardEnd
<1>2. /\ order \in Nat \ {0} /\ column \in Row /\ matrix \in Vectors
      /\ lu \in Vectors /\ rhs \in Vector /\ ipvt \in [Row -> Row]
  BY DEF LinpackInv, LinpackType
<1>3. PICK H : Elimination(H, lu, ipvt, order - 1) /\ rhs = Total(At(H, column))
  BY <1>1 DEF LinpackInv, GoesForward
<1>4. Substituted
  BY <1>1, <1>2, <1>3, ForwardDone
<1>5. Row' = Row /\ Vectors' = Vectors /\ Vector' = Vector
  BY <1>1, EliminationStays
<1>6. LinpackType'
  BY <1>1, <1>2, <1>5 DEF LinpackType
<1>7. PICK q : q = order - 1
  OBVIOUS
<1>8. (Elimination(H, lu, ipvt, q))'
  <2>1. Elimination(H, lu', ipvt', q)
    BY <1>1, <1>3, <1>7
  <2>2. QED
    BY <1>1, <2>1, EliminationStays
<1>9. Substituted'
  BY <1>1, <1>4, <1>5 DEF Substituted, UpperRow, Upper
<1>10. GoesBackward'
  BY <1>1, <1>7, <1>8, <1>9 DEF GoesBackward, Eliminated
<1>11. QED
  BY <1>1, <1>6, <1>10 DEF LinpackInv, Factors, GoesForward, Solved, DividesByZero

LEMMA BackwardInv ==
  ASSUME L!LinpackAssumption, LinpackInv, L!Backward
  PROVE  LinpackInv'
<1> DEFINE x == (rhs[column] * L!Inverse1(lu[column][column])) % P
           b == L!daxpy(column, L!Neg(x), lu[column], [rhs EXCEPT ![column] = x], 0)
<1>1. /\ phase = "backward"
      /\ column' = IF column > 0 THEN column - 1 ELSE column
      /\ order' = order /\ matrix' = matrix /\ lu' = lu /\ ipvt' = ipvt
  BY DEF L!Backward
<1>2. /\ order \in Nat \ {0} /\ order \in Nat /\ column \in Row /\ matrix \in Vectors
      /\ lu \in Vectors /\ rhs \in Vector /\ ipvt \in [Row -> Row]
      /\ Eliminated(order - 1) /\ Substituted
  BY <1>1 DEF LinpackInv, LinpackType, GoesBackward
<1>3. PICK H : Elimination(H, lu, ipvt, order - 1)
  BY <1>2 DEF Eliminated
<1>4. Row' = Row /\ Vectors' = Vectors /\ Vector' = Vector
  BY <1>1, EliminationStays
<1>5. column' \in Row /\ column \in Nat
  BY <1>1, <1>2 DEF Row
<1>6. PICK q : q = order - 1
  OBVIOUS
<1>7. (Elimination(H, lu, ipvt, q))'
  <2>1. Elimination(H, lu', ipvt', q)
    BY <1>1, <1>3, <1>6
  <2>2. QED
    BY <1>1, <2>1, EliminationStays
<1>8. (Eliminated(order - 1))'
  BY <1>1, <1>6, <1>7 DEF Eliminated
<1>9. CASE lu[column][column] = 0
  <2>1. rhs' = rhs /\ phase' = "not a number"
    BY <1>9 DEF L!Backward
  <2>2. LinpackType'
    BY <1>1, <1>2, <1>4, <1>5, <2>1 DEF LinpackType
  <2>3. L!Singular
    BY <1>2, <1>3, <1>9, ZeroPivot
  <2>4. L!Singular'
    BY <1>1, <2>3 DEF L!Singular
  <2>5. QED
    BY <2>1, <2>2, <2>4
       DEF LinpackInv, Factors, GoesForward, GoesBackward, Solved, DividesByZero
<1>10. CASE lu[column][column] # 0
  <2>1. rhs' = b
    BY <1>10 DEF L!Backward
  <2>2. b = [r \in Row |-> IF r < column THEN L!Sum(UpperRow(r), column) ELSE 1]
    <3>1. LET y == (rhs[column] * L!Inverse1(lu[column][column])) % P
              v == L!daxpy(column, L!Neg(y), lu[column], [rhs EXCEPT ![column] = y], 0)
          IN v = [r \in Row |-> IF r < column THEN L!Sum(UpperRow(r), column) ELSE 1]
      BY <1>2, <1>10, BackwardStep
    <3>2. QED
      BY <3>1
  <2>3. b \in Vector
    <3>1. \A r \in Row : L!Sum(UpperRow(r), column) \in L!Field
      <4> TAKE r \in Row
      <4>1. UpperRow(r) \in Family /\ column \in 0 .. order
        BY <1>2, UpperRowIs DEF Row
      <4>2. QED
        BY <1>2, <4>1, SumMore
    <3>2. 1 \in L!Field
      BY Prime
    <3> HIDE DEF b
    <3>3. QED
      BY <2>2, <3>1, <3>2 DEF Vector
  <2> HIDE DEF b
  <2>4. LinpackType'
    BY <1>1, <1>2, <1>4, <1>5, <2>1, <2>3 DEF LinpackType
  <2>5. CASE column > 0
    <3>1. phase' = "backward"
      BY <1>10, <2>5 DEF L!Backward
    <3>2. column' = column - 1 /\ column' + 1 = column
      BY <1>1, <1>5, <2>5
    <3>3. \A r \in Row : r < column <=> r <= column'
      BY <1>5, <3>2 DEF Row
    <3>4. \A r \in Row : rhs'[r] = IF r <= column' THEN L!Sum(UpperRow(r), column' + 1) ELSE 1
      BY <2>1, <2>2, <3>2, <3>3
    <3>5. \A r : UpperRow(r)' = UpperRow(r)
      BY <1>1, <1>4 DEF UpperRow, Upper
    <3>6. Substituted'
      BY <1>4, <3>4, <3>5 DEF Substituted, L!Sum
    <3>7. QED
      BY <1>8, <2>4, <3>1, <3>6
         DEF LinpackInv, Factors, GoesForward, GoesBackward, Solved, DividesByZero
  <2>6. CASE ~(column > 0)
    <3>1. phase' = "solved"
      BY <1>10, <2>6 DEF L!Backward
    <3>2. \A r \in Row : ~(r < column)
      BY <1>5, <2>6 DEF Row
    <3>3. rhs' = [r \in Row |-> 1]
      BY <2>1, <2>2, <3>2
    <3>4. Solved'
      BY <1>4, <3>3 DEF Solved
    <3>5. QED
      BY <2>4, <3>1, <3>4
         DEF LinpackInv, Factors, GoesForward, GoesBackward, DividesByZero
  <2>7. QED
    BY <2>5, <2>6
<1>11. QED
  BY <1>9, <1>10

\* ... and when linpack begins again.
LEMMA AgainInv ==
  ASSUME L!LinpackAssumption, LinpackInv, L!Again
  PROVE  LinpackInv'
<1>1. /\ lu' = matrix /\ rhs' = L!RowSums /\ column' = 0 /\ phase' = "dgefa"
      /\ order' = order /\ matrix' = matrix /\ ipvt' = ipvt
  BY DEF L!Again, L!matgen
<1>2. order \in Nat \ {0} /\ order \in Nat /\ matrix \in Vectors /\ ipvt \in [Row -> Row]
  BY DEF LinpackInv, LinpackType
<1>3. Row' = Row /\ Vectors' = Vectors /\ Vector' = Vector /\ Total(matrix)' = Total(matrix)
  BY <1>1, EliminationStays
<1>4. rhs' = Total(matrix) /\ Total(matrix) \in Vector
  BY <1>1, <1>2, RowSumsAre, TotalIs
<1>5. 0 \in Row
  BY <1>2 DEF Row
<1>6. LinpackType'
  BY <1>1, <1>2, <1>3, <1>4, <1>5 DEF LinpackType
<1>7. PICK H : Elimination(H, matrix, ipvt, 0)
  BY <1>2, StartsWith
<1>8. PICK z : z = 0
  OBVIOUS
<1>9. (Elimination(H, lu, ipvt, z))'
  <2>1. Elimination(H, lu', ipvt', z)
    BY <1>1, <1>7, <1>8
  <2>2. QED
    BY <1>1, <2>1, EliminationStays
<1>10. (Eliminated(column))'
  BY <1>1, <1>8, <1>9 DEF Eliminated
<1>11. QED
  BY <1>1, <1>3, <1>4, <1>6, <1>10
     DEF LinpackInv, Factors, GoesForward, GoesBackward, Solved, DividesByZero

LEMMA LinpackNext == L!LinpackAssumption /\ LinpackInv /\ [L!Next]_(L!vars) => LinpackInv'
<1> SUFFICES ASSUME L!LinpackAssumption, LinpackInv, [L!Next]_(L!vars)
             PROVE  LinpackInv'
  OBVIOUS
<1>1. CASE L!dgefa
  BY <1>1, DgefaInv
<1>2. CASE L!dgefaEnd
  BY <1>2, DgefaEndInv
<1>3. CASE L!Forward
  BY <1>3, ForwardInv
<1>4. CASE L!ForwardEnd
  BY <1>4, ForwardEndInv
<1>5. CASE L!Backward
  BY <1>5, BackwardInv
<1>6. CASE L!Again
  BY <1>6, AgainInv
<1>7. CASE UNCHANGED L!vars
  <2>1. /\ order' = order /\ matrix' = matrix /\ lu' = lu /\ rhs' = rhs /\ ipvt' = ipvt
        /\ column' = column /\ phase' = phase
    BY <1>7 DEF L!vars
  <2>2. Row' = Row /\ Vectors' = Vectors /\ Vector' = Vector /\ Total(matrix)' = Total(matrix)
    BY <2>1, EliminationStays
  <2>3. LinpackType'
    BY <2>1, <2>2 DEF LinpackInv, LinpackType
  <2>4. \A H, q : Elimination(H, lu, ipvt, q) = (Elimination(H, lu, ipvt, q))'
    <3>1. \A H, q : Elimination(H, lu', ipvt', q) = (Elimination(H, lu, ipvt, q))'
      BY <2>1, EliminationStays
    <3>2. QED
      BY <2>1, <3>1
  <2>5. Factors'
    <3>1. PICK q : q = column
      OBVIOUS
    <3>2. (Eliminated(q))' = Eliminated(q)
      BY <2>4 DEF Eliminated
    <3>3. QED
      BY <2>1, <2>2, <3>1, <3>2 DEF LinpackInv, Factors, Eliminated
  <2>6. PICK q : q = order - 1
    OBVIOUS
  <2>7. GoesForward'
    <3>1. PICK z : z = column
      OBVIOUS
    <3>2. \A H : Total(At(H, z)) = (Total(At(H, z)))'
      BY <2>1, EliminationStays
    <3>3. QED
      BY <2>1, <2>4, <2>6, <3>1, <3>2 DEF LinpackInv, GoesForward
  <2>8. GoesBackward'
    <3>1. (Eliminated(q))' = Eliminated(q)
      BY <2>4 DEF Eliminated
    <3>2. Substituted' = Substituted
      BY <2>1, <2>2 DEF Substituted, UpperRow, Upper
    <3>3. QED
      BY <2>1, <2>6, <3>1, <3>2 DEF LinpackInv, GoesBackward, Eliminated
  <2>9. Solved'
    BY <2>1, <2>2 DEF LinpackInv, Solved
  <2>10. DividesByZero'
    BY <2>1 DEF LinpackInv, DividesByZero, L!Singular
  <2>11. QED
    BY <2>3, <2>5, <2>7, <2>8, <2>9, <2>10 DEF LinpackInv
<1>8. QED
  BY <1>1, <1>2, <1>3, <1>4, <1>5, <1>6, <1>7 DEF L!Next

\* The invariant of LINPACK holds, for every order, matrix and prime.
THEOREM LinpackInvariance == L!Spec => []LinpackInv
<1>1. L!LinpackAssumption
  BY HostsAssumption
<1>2. L!Init => LinpackInv
  BY <1>1, LinpackInit
<1>3. LinpackInv /\ [L!Next]_(L!vars) => LinpackInv'
  BY <1>1, LinpackNext
<1>4. QED
  BY <1>2, <1>3, PTL DEF L!Spec

\* dgesl solves the system that matgen makes, of any order, with rolled loops and with
\* unrolled ones: every unknown is 1.  It divides by zero only if the matrix is singular.
THEOREM LinpackSolves == L!Spec => []Solves
<1>1. LinpackInv => Solves
  <2>1. LinpackInv => (phase = "solved" => rhs = [r \in 0 .. order - 1 |-> 1])
    BY DEF LinpackInv, Solved, Row
  <2>2. QED
    BY <2>1 DEF LinpackInv, DividesByZero, Solves, L!Solves
<1>2. QED
  BY <1>1, LinpackInvariance, PTL

\* ... of any order, although TLC looks for the combination in the smallest matrices only.
THEOREM OnlySingularMatrices == L!Spec => [](phase = "not a number" => L!Singular)
<1>1. LinpackInv => (phase = "not a number" => L!Singular)
  BY DEF LinpackInv, DividesByZero
<1>2. QED
  BY <1>1, LinpackInvariance, PTL
=============================================================================
