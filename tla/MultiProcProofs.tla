-------------------------- MODULE MultiProcProofs --------------------------
(***************************************************************************)
(* Proofs about MultiProc, for every number of CPUs, threads, states of    *)
(* the experiment, tests and lines typed.                                  *)
(***************************************************************************)
EXTENDS MultiProc, FiniteSetTheorems, TLAPS

\* Main reads lines or moves the state on; the experiment thread has seen the end
\* of the experiment, has given up, or is about to look.
InConsole == pc["main"] \in {"prompt", "skip", "next_state", "write_state"}
Past == pc["experiment"] \in {"guard", "finished", "join", "ended", "gone"}

\* The ++ of main and that of the experiment thread overlap, but the state gets
\* past EXP_END by one at most.
RaceInv ==
  /\ experiment_state >= EXP_END /\ InConsole => Past
  /\ experiment_state = EXP_END + 1 => Past
  /\ pc["main"] = "write_state" /\ old["main"] = EXP_END => experiment_state >= EXP_END
  /\ pc["main"] = "next_state" => experiment_state <= EXP_END
  /\ pc["experiment"] = "advance" /\ InConsole => old["experiment"] < EXP_END
  /\ pc["experiment"] = "advance" /\ old["experiment"] >= EXP_END
       => experiment_state >= EXP_END
  /\ skips <= inputs

\* The experiment thread is within a test.
InTest ==
  pc["experiment"] \in {"idle", "start", "create_thread", "start_mark", "wait",
                        "wait_thread", "waiting", "wait_clear", "rate"}

\* The tests after q are among those of the state the thread is in.
QuitInv ==
  /\ after <= ExperimentIteration
  /\ experiment_continue => after = 0
  /\ pc["experiment"] = "switch" => after = 0
  /\ pc["experiment"] = "test" => after <= test
  /\ InTest => test < ExperimentIteration /\ after <= test + 1

\* It waits for the computations; those of the CPUs before its own have been
\* waited for and cleared.
InWait == pc["experiment"] \in {"wait", "wait_thread", "waiting", "wait_clear"}

\* As long as no computation was terminated, the table knows every thread that
\* lives, and the experiment thread has waited for those it has cleared.
TableInv ==
  /\ \A t \in Alive : /\ ~threads[t].freed
                      /\ computations[threads[t].cpu].thread = t
  /\ \A i \in Cpu : computations[i].state = "NO_PROCESS" =>
       \/ computations[i].thread = NULL
       \/ pc["experiment"] = "start_mark" /\ cpu["experiment"] = i
  /\ pc["experiment"] = "create_thread" => My("experiment").thread = NULL
  /\ InWait => \A i \in Cpu : i < cpu["experiment"] => computations[i].thread = NULL
  /\ pc["experiment"] = "waiting" => waiting = My("experiment").thread
  /\ pc["experiment"] = "wait_clear" => My("experiment").thread \notin Alive
  /\ pc["experiment"] = "rate" => \A i \in Cpu : computations[i].thread = NULL

ClearInv == pc["main"] = "terminate_clear" => killed

CompInv == ClearInv /\ (~killed => TableInv)

\* The experiment thread runs the tests of the state it is set to.
Running == pc["experiment"] \in {"test", "advance"} \/ InTest

\* The states that are run completely, or being run.
TestsOf(s) == {s} \X (0 .. ExperimentIteration - 1)
Done == {s \in 0 .. EXP_LPC : TestsOf(s) \subseteq started \/ (Running /\ s = setting)}

\* At most n states before e are missing from done.
Missing(done, e) == {s \in 0 .. EXP_LPC : s < e} \ done
Few(done, e, n) == Cardinality(Missing(done, e)) <= n

\* The skips main has carried out or given up.
Carried == IF pc["main"] \in {"skip", "next_state", "write_state"} THEN skips - 1 ELSE skips

\* Of the state in force, the tests counted were started.
ProgressInv ==
  /\ Running => \A n \in 0 .. test - 1 : <<setting, n>> \in started
  /\ InTest => <<setting, test>> \in started
  /\ pc["experiment"] = "advance" => test = ExperimentIteration

\* No more states are missing than lines were typed: of those before the state of
\* the experiment, before the one after it while the experiment thread has not yet
\* moved on itself, and before those main and the thread are about to write.
MissingInv ==
  /\ Few(Done, experiment_state, Carried)
  /\ Running => Few(Done, experiment_state + 1, Carried)
  /\ pc["experiment"] = "advance" => Few(Done, old["experiment"] + 1, Carried)
  /\ pc["main"] = "write_state" =>
       /\ Few(Done, old["main"], skips - 1)
       /\ \/ Few(Done, old["main"] + 1, skips - 1)
          \/ ~Running /\ old["main"] = experiment_state
  /\ pc["experiment"] = "finished" => Few(Done, EXP_END, skips)

SkipInv == pc["experiment"] # "gone" => ProgressInv /\ MissingInv

Inv == TypeOK /\ RaceInv /\ QuitInv /\ CompInv /\ SkipInv

----------------------------------------------------------------------------
(***************************************************************************)
(* Types.                                                                  *)
(***************************************************************************)
\* The limits are numbers.
LEMMA Limits ==
  /\ CpuStates \in Nat /\ CpuCount \in Nat \ {0} /\ MaxThreads \in Nat \ {0}
  /\ MAXIMUM_SUSPEND_COUNT \in Nat \ {0} /\ ExperimentIteration \in Nat \ {0}
  /\ MaxInputs \in Nat
BY ComputationAssumption, MultiProcAssumption

\* No access to the table spoils it, ...
LEMMA SetStateType ==
  ASSUME ComputationTypeOK, NEW i \in Cpu, UNCHANGED threads,
         NEW state \in {"RUNNING", "SUSPENDED"}, SetState(i, state)
  PROVE  ComputationTypeOK'
BY DEF ComputationTypeOK, SetState

LEMMA ClearType ==
  ASSUME ComputationTypeOK, NEW i \in Cpu, computation_clear(i)
  PROVE  ComputationTypeOK'
BY DEF ComputationTypeOK, computation_clear, NoComputation

\* ... nor does a call of the system.
LEMMA EndedType ==
  Ended \in [status : {"computing", "finished", "ended"}, cpu : Cpu,
             count : 0 .. MAXIMUM_SUSPEND_COUNT, freed : BOOLEAN]
BY Limits DEF Ended, Cpu

LEMMA TerminateType ==
  ASSUME ComputationTypeOK, NEW i \in Cpu, TerminateThread(i)
  PROVE  ComputationTypeOK'
BY EndedType DEF ComputationTypeOK, TerminateThread

LEMMA SuspendType ==
  ASSUME ComputationTypeOK, NEW i \in Cpu, SuspendThread(i)
  PROVE  ComputationTypeOK'
BY Limits DEF ComputationTypeOK, SuspendThread

LEMMA ResumeType ==
  ASSUME ComputationTypeOK, NEW i \in Cpu, ResumeThread(i)
  PROVE  ComputationTypeOK'
BY Limits DEF ComputationTypeOK, ResumeThread

LEMMA DeleteType ==
  ASSUME ComputationTypeOK, DeleteData
  PROVE  ComputationTypeOK'
BY DEF ComputationTypeOK, DeleteData

LEMMA ProcType ==
  ASSUME ComputationTypeOK, NEW t \in Thread, Compute(t) \/ ReturnFrom(t)
  PROVE  ComputationTypeOK'
<1>1. threads[t].cpu \in Cpu
  BY DEF ComputationTypeOK
<1>2. CASE Compute(t)
  BY <1>1, <1>2 DEF ComputationTypeOK, Compute, SetState
<1>3. CASE ReturnFrom(t)
  BY <1>3, EndedType DEF ComputationTypeOK, ReturnFrom
<1>4. QED
  BY <1>2, <1>3

LEMMA CreateType ==
  ASSUME ComputationTypeOK, NEW i \in Cpu, CreateThread(i)
  PROVE  ComputationTypeOK'
<1>1. PICK t \in Unused :
        /\ computations' = [computations EXCEPT ![i].thread = t]
        /\ threads' = [threads EXCEPT ![t] =
             [status |-> "computing", cpu |-> i, count |-> 0, freed |-> FALSE]]
  BY DEF CreateThread
<1>2. t \in Thread
  BY DEF Unused
<1>3. QED
  BY <1>1, <1>2, Limits DEF ComputationTypeOK

\* A process goes to a place of its own, ...
LEMMA GotoType ==
  ASSUME TypeOK, NEW p \in Process,
         NEW place \in MainPlace \cup ExperimentPlace \cup ThrottlingPlace,
         p = "main" => place \in MainPlace,
         p = "experiment" => place \in ExperimentPlace,
         p = "throttling" => place \in ThrottlingPlace,
         Goto(p, place)
  PROVE  /\ pc' \in [Process -> MainPlace \cup ExperimentPlace \cup ThrottlingPlace]
         /\ pc'["main"] \in MainPlace /\ pc'["experiment"] \in ExperimentPlace
         /\ pc'["throttling"] \in ThrottlingPlace
<1>1. {"main", "experiment", "throttling"} = Process
  BY DEF Process
<1>2. QED
  BY <1>1 DEF TypeOK, Goto

\* ... and to the next CPU.
LEMMA NextCpuType ==
  ASSUME TypeOK, NEW p \in Process, NEW loop, NEW end, NextCpu(p, loop, end)
  PROVE  /\ cpu' \in [Process -> Cpu]
         /\ Goto(p, loop) \/ Goto(p, end)
BY Limits DEF TypeOK, NextCpu, Cpu

\* What the step of a loop leaves alone keeps its type.
LEMMA TerminateStepType ==
  ASSUME TypeOK, NEW end \in {"guard", "experiment_join"},
         computation_terminate("main", end), UNCHANGED <<inputs, waiting>>
  PROVE  TypeOK'
<1>1. cpu["main"] \in Cpu /\ "main" \in Process
  BY DEF TypeOK, Process
<1> USE DEF computation_terminate, At, consoleVars, flagVars, stateVars, testVars,
            computationVars
<1>2. ComputationTypeOK'
  <2>1. CASE UNCHANGED computationVars
    BY <2>1 DEF TypeOK, ComputationTypeOK
  <2>2. CASE TerminateThread(cpu["main"])
    BY <2>2, <1>1, TerminateType DEF TypeOK
  <2>3. CASE computation_clear(cpu["main"])
    BY <2>3, <1>1, ClearType DEF TypeOK
  <2>4. QED
    BY <2>1, <2>2, <2>3
<1>3. /\ cpu' \in [Process -> Cpu]
      /\ \/ Goto("main", "terminate") \/ Goto("main", end)
         \/ Goto("main", "terminate_thread") \/ Goto("main", "terminate_clear")
  BY <1>1, NextCpuType DEF TypeOK
<1>4. /\ pc' \in [Process -> MainPlace \cup ExperimentPlace \cup ThrottlingPlace]
      /\ pc'["main"] \in MainPlace /\ pc'["experiment"] \in ExperimentPlace
      /\ pc'["throttling"] \in ThrottlingPlace
  <2>1. \E place \in MainPlace : Goto("main", place)
    BY <1>3 DEF MainPlace
  <2>2. QED
    BY <2>1, <1>1, GotoType
<1>5. killed' \in BOOLEAN
  BY DEF TypeOK
<1>6. QED
  BY <1>2, <1>3, <1>4, <1>5 DEF TypeOK

LEMMA ResumeStepType ==
  ASSUME TypeOK, NEW p \in {"main", "throttling"}, NEW end,
         p = "main" => end \in MainPlace, p = "throttling" => end \in ThrottlingPlace,
         computation_resume(p, end), UNCHANGED waiting
  PROVE  TypeOK'
<1>1. cpu[p] \in Cpu /\ p \in Process
  BY DEF TypeOK, Process
<1> USE DEF computation_resume, At, consoleVars, flagVars, stateVars, testVars,
            computationVars
<1>2. ComputationTypeOK'
  <2>1. CASE UNCHANGED computationVars
    BY <2>1 DEF TypeOK, ComputationTypeOK
  <2>2. CASE ResumeThread(cpu[p])
    BY <2>2, <1>1, ResumeType DEF TypeOK
  <2>3. CASE SetState(cpu[p], "RUNNING") /\ UNCHANGED threads
    BY <2>3, <1>1, SetStateType DEF TypeOK
  <2>4. QED
    BY <2>1, <2>2, <2>3
<1>3. /\ cpu' \in [Process -> Cpu]
      /\ \/ Goto(p, "resume") \/ Goto(p, end)
         \/ Goto(p, "resume_thread") \/ Goto(p, "resume_mark")
  BY <1>1, NextCpuType DEF TypeOK
<1>4. /\ pc' \in [Process -> MainPlace \cup ExperimentPlace \cup ThrottlingPlace]
      /\ pc'["main"] \in MainPlace /\ pc'["experiment"] \in ExperimentPlace
      /\ pc'["throttling"] \in ThrottlingPlace
  <2>1. CASE p = "main"
    <3>1. \E place \in MainPlace : Goto("main", place)
      BY <1>3, <2>1 DEF MainPlace
    <3>2. QED
      BY <3>1, <2>1, <1>1, GotoType
  <2>2. CASE p = "throttling"
    <3>1. \E place \in ThrottlingPlace : Goto("throttling", place)
      BY <1>3, <2>2 DEF ThrottlingPlace
    <3>2. QED
      BY <3>1, <2>2, <1>1, GotoType
  <2>3. QED
    BY <2>1, <2>2
<1>5. QED
  BY <1>2, <1>3, <1>4 DEF TypeOK

LEMMA SuspendStepType ==
  ASSUME TypeOK, computation_suspend("throttling", "asleep"), UNCHANGED waiting
  PROVE  TypeOK'
<1> DEFINE p == "throttling"
<1>1. cpu[p] \in Cpu /\ p \in Process
  BY DEF TypeOK, Process
<1> USE DEF computation_suspend, At, consoleVars, flagVars, stateVars, testVars,
            computationVars
<1>2. ComputationTypeOK'
  <2>1. CASE UNCHANGED computationVars
    BY <2>1 DEF TypeOK, ComputationTypeOK
  <2>2. CASE SuspendThread(cpu[p])
    BY <2>2, <1>1, SuspendType DEF TypeOK
  <2>3. CASE SetState(cpu[p], "SUSPENDED") /\ UNCHANGED threads
    BY <2>3, <1>1, SetStateType DEF TypeOK
  <2>4. QED
    BY <2>1, <2>2, <2>3
<1>3. /\ cpu' \in [Process -> Cpu]
      /\ \/ Goto(p, "suspend") \/ Goto(p, "asleep")
         \/ Goto(p, "suspend_thread") \/ Goto(p, "suspend_mark")
  BY <1>1, NextCpuType DEF TypeOK
<1>4. /\ pc' \in [Process -> MainPlace \cup ExperimentPlace \cup ThrottlingPlace]
      /\ pc'["main"] \in MainPlace /\ pc'["experiment"] \in ExperimentPlace
      /\ pc'["throttling"] \in ThrottlingPlace
  <2>1. \E place \in ThrottlingPlace : Goto(p, place)
    BY <1>3 DEF ThrottlingPlace
  <2>2. QED
    BY <2>1, <1>1, GotoType
<1>5. QED
  BY <1>2, <1>3, <1>4 DEF TypeOK

\* The threads of the computations.
LEMMA ProcStepType ==
  ASSUME TypeOK, NEW t \in Thread, computation_proc(t)
  PROVE  TypeOK'
<1> USE DEF computation_proc, consoleVars, flagVars, stateVars, testVars
<1>1. ComputationTypeOK'
  BY ProcType DEF TypeOK
<1>2. QED
  BY <1>1 DEF TypeOK

\* Of main, besides: it goes to a place and keeps the types.
LEMMA MainStepType ==
  ASSUME TypeOK, RaceInv, MainGuard \/ Input \/ Skip \/ Quit \/ MainEnd,
         UNCHANGED waiting
  PROVE  TypeOK'
<1> USE Limits DEF At, Goto, consoleVars, flagVars, stateVars, testVars,
                   computationVars, Process, MainPlace
<1>0. ComputationTypeOK'
  BY DEF TypeOK, ComputationTypeOK, MainGuard, Input, Skip, experiment_next_state, Quit, MainEnd
<1>1. CASE MainGuard
  BY <1>1, <1>0 DEF TypeOK, MainGuard
<1>2. CASE Input
  BY <1>2, <1>0 DEF TypeOK, Input, RaceInv
<1>3. CASE Skip
  <2>1. experiment_state <= EXP_END \/ pc["main"] # "next_state"
    BY DEF RaceInv
  <2>2. QED
    BY <1>3, <1>0, <2>1 DEF TypeOK, Skip, experiment_next_state, EXP_END
<1>4. CASE Quit
  BY <1>4, <1>0 DEF TypeOK, Quit
<1>5. CASE MainEnd
  <2>1. /\ pc' \in [Process -> MainPlace \cup ExperimentPlace \cup ThrottlingPlace]
        /\ pc'["main"] \in MainPlace /\ pc'["experiment"] \in ExperimentPlace
        /\ pc'["throttling"] \in ThrottlingPlace
    BY <1>5 DEF TypeOK, MainEnd, ThrottlingPlace
  <2>2. measuring' \in {"on", "told", "ended"} /\ socket' \in BOOLEAN
        /\ throttling_continue' \in BOOLEAN
    BY <1>5 DEF TypeOK, MainEnd, measurements_stop
  <2>3. QED
    BY <1>5, <1>0, <2>1, <2>2 DEF TypeOK, MainEnd
<1>6. QED
  BY <1>1, <1>2, <1>3, <1>4, <1>5

LEMMA ThrottlingStepType ==
  ASSUME TypeOK, ThrottlingGuard \/ ThrottlingWake, UNCHANGED waiting
  PROVE  TypeOK'
<1> USE DEF At, Goto, consoleVars, flagVars, stateVars, testVars, computationVars,
            Process, ThrottlingPlace
<1>1. ComputationTypeOK'
  BY DEF TypeOK, ComputationTypeOK, ThrottlingGuard, ThrottlingWake
<1>2. QED
  BY <1>1 DEF TypeOK, ThrottlingGuard, ThrottlingWake

\* The steps of the experiment thread that are those of the computations.
LEMMA WorkStepType ==
  ASSUME TypeOK, QuitInv, \/ computation_wait
                          \/ computation_start /\ UNCHANGED waiting
                          \/ ExperimentRate /\ UNCHANGED waiting
  PROVE  TypeOK'
<1> DEFINE p == "experiment"
<1>1. cpu[p] \in Cpu /\ p \in Process
  BY DEF TypeOK, Process
<1> USE DEF At, consoleVars, flagVars, stateVars, testVars, computationVars
<1>2. ComputationTypeOK'
  <2>1. CASE UNCHANGED computationVars
    BY <2>1 DEF TypeOK, ComputationTypeOK
  <2>2. CASE CreateThread(cpu[p])
    BY <2>2, <1>1, CreateType DEF TypeOK
  <2>3. CASE SetState(cpu[p], "RUNNING") /\ UNCHANGED threads
    BY <2>3, <1>1, SetStateType DEF TypeOK
  <2>4. CASE computation_clear(cpu[p])
    BY <2>4, <1>1, ClearType DEF TypeOK
  <2>5. CASE DeleteData
    BY <2>5, DeleteType DEF TypeOK
  <2>6. QED
    BY <2>1, <2>2, <2>3, <2>4, <2>5 DEF computation_wait, computation_start,
                                        ExperimentRate
<1>3. /\ cpu' \in [Process -> Cpu]
      /\ \E place \in {"wait", "rate", "wait_thread", "waiting", "wait_clear",
                       "start", "create_thread", "start_mark", "test"} : Goto(p, place)
  <2>1. CASE computation_wait
    BY <2>1, <1>1, NextCpuType DEF TypeOK, computation_wait
  <2>2. CASE computation_start
    BY <2>2, <1>1, NextCpuType DEF TypeOK, computation_start
  <2>3. CASE ExperimentRate
    BY <2>3 DEF TypeOK, ExperimentRate
  <2>4. QED
    BY <2>1, <2>2, <2>3
<1>4. /\ pc' \in [Process -> MainPlace \cup ExperimentPlace \cup ThrottlingPlace]
      /\ pc'["main"] \in MainPlace /\ pc'["experiment"] \in ExperimentPlace
      /\ pc'["throttling"] \in ThrottlingPlace
  <2>1. \E place \in ExperimentPlace : Goto(p, place)
    BY <1>3 DEF ExperimentPlace
  <2>2. QED
    BY <2>1, <1>1, GotoType
<1>5. /\ waiting' \in Thread \cup {NULL}
      /\ test' \in 0 .. ExperimentIteration
      /\ UNCHANGED <<stateVars, flagVars, setting, started, after, consoleVars>>
  <2>1. My(p).thread \in Thread \cup {NULL}
    BY <1>1 DEF TypeOK, ComputationTypeOK, My
  <2>2. CASE computation_wait
    BY <2>1, <2>2 DEF TypeOK, computation_wait
  <2>3. CASE computation_start /\ UNCHANGED waiting
    BY <2>3 DEF TypeOK, computation_start
  <2>4. CASE ExperimentRate /\ UNCHANGED waiting
    BY <2>4, Limits DEF TypeOK, ExperimentRate, QuitInv, InTest
  <2>5. QED
    BY <2>2, <2>3, <2>4
<1>6. QED
  BY <1>2, <1>3, <1>4, <1>5 DEF TypeOK

\* The others.
LEMMA ExperimentStepType ==
  ASSUME TypeOK, RaceInv, QuitInv, UNCHANGED waiting,
         \/ ExperimentGuard \/ ExperimentSwitch \/ ExperimentTest \/ ExperimentFail
         \/ ExperimentIdle \/ ExperimentAdvance \/ ExperimentFinish
  PROVE  TypeOK'
<1> USE Limits DEF At, Goto, consoleVars, flagVars, stateVars, testVars,
                   computationVars, Process, ExperimentPlace
<1>0. ComputationTypeOK'
  BY DEF TypeOK, ComputationTypeOK, ExperimentGuard, ExperimentSwitch, ExperimentTest,
         ExperimentFail, ExperimentIdle, ExperimentAdvance, ExperimentFinish
<1>1. CASE ExperimentGuard
  BY <1>1, <1>0 DEF TypeOK, ExperimentGuard
<1>2. CASE ExperimentSwitch
  BY <1>2, <1>0 DEF TypeOK, ExperimentSwitch, EXP_END, EXP_LPC
<1>3. CASE ExperimentTest
  BY <1>3, <1>0 DEF TypeOK, ExperimentTest, EXP_LPC
<1>4. CASE ExperimentFail
  BY <1>4, <1>0 DEF TypeOK, ExperimentFail
<1>5. CASE ExperimentIdle
  BY <1>5, <1>0 DEF TypeOK, ExperimentIdle, QuitInv, InTest
<1>6. CASE ExperimentAdvance
  BY <1>6, <1>0 DEF TypeOK, ExperimentAdvance, RaceInv, Past,
                    EXP_END
<1>7. CASE ExperimentFinish
  BY <1>7, <1>0 DEF TypeOK, ExperimentFinish, measurements_stop
<1>8. QED
  BY <1>1, <1>2, <1>3, <1>4, <1>5, <1>6, <1>7

\* All steps keep the types.
LEMMA TypeStep ==
  ASSUME TypeOK, RaceInv, QuitInv, Next
  PROVE  TypeOK'
<1>1. CASE measurements_proc
  BY <1>1 DEF TypeOK, ComputationTypeOK, measurements_proc, consoleVars, stateVars,
              testVars, computationVars
<1>2. CASE experiment_proc
  BY <1>2, WorkStepType, ExperimentStepType DEF experiment_proc
<1>3. CASE (main \/ Input) /\ UNCHANGED waiting
  <2>1. CASE MainGuard \/ Input \/ Skip \/ Quit \/ MainEnd
    BY <1>3, <2>1, MainStepType
  <2>2. CASE computation_terminate("main",
               IF experiment_continue THEN "guard" ELSE "experiment_join")
    <3>1. UNCHANGED inputs
      BY <2>2 DEF computation_terminate
    <3>2. CASE experiment_continue
      BY <1>3, <2>2, <3>1, <3>2, TerminateStepType
    <3>3. CASE ~experiment_continue
      BY <1>3, <2>2, <3>1, <3>3, TerminateStepType
    <3>4. QED
      BY <3>2, <3>3
  <2>3. CASE computation_resume("main", "throttling_stop")
    BY <1>3, <2>3, ResumeStepType DEF MainPlace
  <2>4. QED
    BY <1>3, <2>1, <2>2, <2>3 DEF main
<1>4. CASE throttling_proc /\ UNCHANGED waiting
  <2>1. CASE computation_resume("throttling", "guard")
    BY <1>4, <2>1, ResumeStepType DEF ThrottlingPlace
  <2>2. QED
    BY <1>4, <2>1, SuspendStepType, ThrottlingStepType DEF throttling_proc
<1>5. CASE \E t \in Thread : computation_proc(t)
  BY <1>5, ProcStepType
<1>6. QED
  BY <1>1, <1>2, <1>3, <1>4, <1>5 DEF Next

LEMMA TypeInit ==
  ASSUME Init
  PROVE  TypeOK
<1>1. ComputationTypeOK
  BY EndedType DEF Init, ComputationInit, ComputationTypeOK, NoComputation
<1>2. /\ pc \in [Process -> MainPlace \cup ExperimentPlace \cup ThrottlingPlace]
      /\ pc["main"] \in MainPlace /\ pc["experiment"] \in ExperimentPlace
      /\ pc["throttling"] \in ThrottlingPlace
  BY DEF Init, Process, MainPlace, ExperimentPlace, ThrottlingPlace
<1>3. cpu \in [Process -> Cpu]
  BY Limits DEF Init, Cpu
<1>4. 0 \in 0 .. EXP_END /\ 0 \in 0 .. EXP_END + 1 /\ 0 \in 0 .. EXP_LPC
  BY Limits DEF EXP_END, EXP_LPC
<1>5. old \in [{"main", "experiment"} -> 0 .. EXP_END]
  BY <1>4 DEF Init
<1>6. /\ experiment_state \in 0 .. EXP_END + 1 /\ setting \in 0 .. EXP_LPC
      /\ test \in 0 .. ExperimentIteration
  BY <1>4, Limits DEF Init, EXP_IDLE
<1>7. inputs \in 0 .. MaxInputs /\ skips \in 0 .. MaxInputs /\ after \in Nat
  BY Limits DEF Init
<1>8. /\ experiment_continue \in BOOLEAN /\ throttling_continue \in BOOLEAN
      /\ socket \in BOOLEAN /\ killed \in BOOLEAN
      /\ measuring \in {"on", "told", "ended"} /\ waiting \in Thread \cup {NULL}
      /\ started \subseteq (0 .. EXP_LPC) \X (0 .. ExperimentIteration - 1)
  BY DEF Init
<1>9. QED
  BY <1>1, <1>2, <1>3, <1>5, <1>6, <1>7, <1>8 DEF TypeOK

----------------------------------------------------------------------------
(***************************************************************************)
(* The state of the experiment.                                            *)
(***************************************************************************)
\* A step that does not count, lets main into the console or leads the experiment
\* thread to a ++, matters only if the thread goes on after the end.
LEMMA RaceFrame ==
  ASSUME RaceInv, UNCHANGED <<experiment_state, old, inputs, skips>>,
         pc'["main"] = pc["main"] \/ ~InConsole',
         \/ pc'["experiment"] = pc["experiment"]
         \/ (Past => Past') /\ pc'["experiment"] # "advance"
  PROVE  RaceInv'
BY DEF RaceInv, InConsole, Past

\* Main cannot count while the experiment thread is behind it.
LEMMA RaceMain ==
  ASSUME TypeOK, RaceInv, MainGuard \/ Input \/ Skip
  PROVE  RaceInv'
<1> USE Limits DEF At, Goto, Process, InConsole, Past, EXP_END, stateVars, consoleVars
<1>1. pc'["experiment"] = pc["experiment"]
  BY DEF TypeOK, MainGuard, Input, Skip, experiment_next_state
<1>2. CASE MainGuard
  BY <1>1, <1>2 DEF TypeOK, RaceInv, MainGuard
<1>3. CASE Input
  BY <1>1, <1>3 DEF TypeOK, RaceInv, Input
<1>4. CASE Skip
  BY <1>1, <1>4 DEF TypeOK, RaceInv, Skip, experiment_next_state
<1>5. QED
  BY <1>2, <1>3, <1>4

\* The experiment thread counts up to the end at most while main is in the
\* console.
LEMMA RaceExperiment ==
  ASSUME TypeOK, RaceInv, ExperimentGuard \/ ExperimentAdvance
  PROVE  RaceInv'
<1> USE Limits DEF At, Goto, Process, InConsole, Past, EXP_END, stateVars, consoleVars
<1>1. pc'["main"] = pc["main"]
  BY DEF TypeOK, ExperimentGuard, ExperimentAdvance
<1>2. CASE ExperimentGuard
  BY <1>1, <1>2 DEF TypeOK, RaceInv, ExperimentGuard
<1>3. CASE ExperimentAdvance
  BY <1>1, <1>3 DEF TypeOK, RaceInv, ExperimentAdvance
<1>4. QED
  BY <1>2, <1>3

\* The others do not count.
LEMMA RaceStep ==
  ASSUME TypeOK, RaceInv, Next
  PROVE  RaceInv'
<1> USE DEF At, Goto, Process, InConsole, Past, stateVars, consoleVars, NextCpu
<1>1. CASE measurements_proc \/ \E t \in Thread : computation_proc(t)
  <2>1. UNCHANGED <<pc, experiment_state, old, inputs, skips>>
    BY <1>1 DEF measurements_proc, computation_proc
  <2>2. QED
    BY <2>1, RaceFrame
<1>2. CASE throttling_proc
  <2>1. UNCHANGED <<experiment_state, old, inputs, skips>>
    BY <1>2 DEF throttling_proc, ThrottlingGuard, ThrottlingWake, computation_suspend,
                computation_resume
  <2>2. pc'["main"] = pc["main"] /\ pc'["experiment"] = pc["experiment"]
    BY <1>2 DEF TypeOK, throttling_proc, ThrottlingGuard, ThrottlingWake,
                computation_suspend, computation_resume
  <2>3. QED
    BY <2>1, <2>2, RaceFrame
<1>3. CASE \/ Quit \/ MainEnd
           \/ computation_terminate("main",
                IF experiment_continue THEN "guard" ELSE "experiment_join")
           \/ computation_resume("main", "throttling_stop")
  <2>1. UNCHANGED <<experiment_state, old, inputs, skips>>
    BY <1>3 DEF Quit, MainEnd, computation_terminate, computation_resume
  <2>2. ~InConsole' /\ pc'["experiment"] = pc["experiment"]
    <3>1. CASE Quit \/ MainEnd
      BY <3>1 DEF TypeOK, Quit, MainEnd
    <3>2. CASE computation_terminate("main",
                 IF experiment_continue THEN "guard" ELSE "experiment_join")
      BY <3>2 DEF TypeOK, computation_terminate
    <3>3. CASE computation_resume("main", "throttling_stop")
      BY <3>3 DEF TypeOK, computation_resume
    <3>4. QED
      BY <1>3, <3>1, <3>2, <3>3
  <2>3. QED
    BY <2>1, <2>2, RaceFrame
<1>4. CASE MainGuard \/ Input \/ Skip
  BY <1>4, RaceMain
<1>5. CASE ExperimentGuard \/ ExperimentAdvance
  BY <1>5, RaceExperiment
<1>6. CASE \/ computation_wait \/ ExperimentSwitch \/ ExperimentTest \/ computation_start
           \/ ExperimentFail \/ ExperimentIdle \/ ExperimentRate \/ ExperimentFinish
  <2>1. UNCHANGED <<experiment_state, old, inputs, skips>>
    BY <1>6 DEF computation_wait, ExperimentSwitch, ExperimentTest, computation_start,
                ExperimentFail, ExperimentIdle, ExperimentRate, ExperimentFinish
  <2>2. /\ pc'["main"] = pc["main"]
        /\ (Past => Past') /\ pc'["experiment"] # "advance"
    <3>1. CASE computation_wait
      BY <3>1 DEF TypeOK, computation_wait
    <3>2. CASE computation_start
      BY <3>2 DEF TypeOK, computation_start
    <3>3. CASE \/ ExperimentSwitch \/ ExperimentTest \/ ExperimentFail
               \/ ExperimentIdle \/ ExperimentRate \/ ExperimentFinish
      BY <3>3 DEF TypeOK, ExperimentSwitch, ExperimentTest,
                ExperimentFail, ExperimentIdle, ExperimentRate, ExperimentFinish
    <3>4. QED
      BY <1>6, <3>1, <3>2, <3>3
  <2>3. QED
    BY <2>1, <2>2, RaceFrame
<1>7. QED
  BY <1>1, <1>2, <1>3, <1>4, <1>5, <1>6 DEF Next, main, experiment_proc

----------------------------------------------------------------------------
(***************************************************************************)
(* The tests after q.                                                      *)
(***************************************************************************)
\* A step that neither counts a test nor begins a state or a test.
LEMMA QuitFrame ==
  ASSUME QuitInv, UNCHANGED <<after, test>>,
         experiment_continue' => experiment_continue,
         \/ pc'["experiment"] = pc["experiment"]
         \/ (InTest' => InTest) /\ pc'["experiment"] \notin {"switch", "test"}
  PROVE  QuitInv'
BY DEF QuitInv, InTest

\* The thread begins a state only if q was not typed, and counts its tests.
LEMMA QuitExperiment ==
  ASSUME TypeOK, QuitInv,
         \/ ExperimentGuard \/ ExperimentSwitch \/ ExperimentTest
         \/ ExperimentIdle \/ ExperimentRate
  PROVE  QuitInv'
<1> USE Limits DEF At, Goto, Process, InTest, flagVars, testVars
<1>1. CASE ExperimentGuard
  BY <1>1 DEF TypeOK, QuitInv, ExperimentGuard
<1>2. CASE ExperimentSwitch
  BY <1>2 DEF TypeOK, QuitInv, ExperimentSwitch
<1>3. CASE ExperimentTest
  BY <1>3 DEF TypeOK, QuitInv, ExperimentTest
<1>4. CASE ExperimentIdle
  BY <1>4 DEF TypeOK, QuitInv, ExperimentIdle
<1>5. CASE ExperimentRate
  BY <1>5 DEF TypeOK, QuitInv, ExperimentRate
<1>6. QED
  BY <1>1, <1>2, <1>3, <1>4, <1>5

\* The others count nothing.
LEMMA QuitStep ==
  ASSUME TypeOK, QuitInv, Next
  PROVE  QuitInv'
<1> USE DEF At, Goto, Process, InTest, testVars, flagVars, NextCpu
<1>1. CASE measurements_proc \/ \E t \in Thread : computation_proc(t)
  <2>1. UNCHANGED <<pc, after, test, experiment_continue>>
    BY <1>1 DEF measurements_proc, computation_proc
  <2>2. QED
    BY <2>1, QuitFrame
<1>2. CASE throttling_proc
  <2>1. UNCHANGED <<after, test, experiment_continue>>
    BY <1>2 DEF throttling_proc, ThrottlingGuard, ThrottlingWake, computation_suspend,
                computation_resume
  <2>2. pc'["experiment"] = pc["experiment"]
    BY <1>2 DEF TypeOK, throttling_proc, ThrottlingGuard, ThrottlingWake,
                computation_suspend, computation_resume
  <2>3. QED
    BY <2>1, <2>2, QuitFrame
<1>3. CASE main \/ Input
  <2>1. UNCHANGED <<after, test>> /\ (experiment_continue' => experiment_continue)
    BY <1>3 DEF main, MainGuard, Skip, experiment_next_state, Input, Quit, MainEnd, computation_terminate,
                computation_resume
  <2>2. pc'["experiment"] = pc["experiment"]
    <3>1. CASE MainGuard \/ Skip \/ Input \/ Quit \/ MainEnd
      BY <3>1 DEF TypeOK, MainGuard, Skip, experiment_next_state, Input, Quit, MainEnd
    <3>2. CASE computation_terminate("main",
                 IF experiment_continue THEN "guard" ELSE "experiment_join")
      BY <3>2 DEF TypeOK, computation_terminate
    <3>3. CASE computation_resume("main", "throttling_stop")
      BY <3>3 DEF TypeOK, computation_resume
    <3>4. QED
      BY <1>3, <3>1, <3>2, <3>3 DEF main
  <2>3. QED
    BY <2>1, <2>2, QuitFrame
<1>4. CASE \/ computation_wait \/ computation_start
           \/ ExperimentFail \/ ExperimentAdvance \/ ExperimentFinish
  <2>1. UNCHANGED <<after, test, experiment_continue>>
    BY <1>4 DEF computation_wait, computation_start,
                ExperimentFail, ExperimentAdvance, ExperimentFinish
  <2>2. (InTest' => InTest) /\ pc'["experiment"] \notin {"switch", "test"}
    <3>1. CASE computation_wait
      BY <3>1 DEF TypeOK, computation_wait
    <3>2. CASE computation_start
      BY <3>2 DEF TypeOK, computation_start
    <3>3. CASE ExperimentFail \/ ExperimentAdvance \/ ExperimentFinish
      BY <3>3 DEF TypeOK, ExperimentFail, ExperimentAdvance, ExperimentFinish
    <3>4. QED
      BY <1>4, <3>1, <3>2, <3>3
  <2>3. QED
    BY <2>1, <2>2, QuitFrame
<1>5. QED
  BY <1>1, <1>2, <1>3, <1>4, QuitExperiment DEF Next, experiment_proc

----------------------------------------------------------------------------
(***************************************************************************)
(* The computations.                                                       *)
(***************************************************************************)
\* A step of another thread that neither gives a CPU a thread nor takes it away.
LEMMA TableFrame ==
  ASSUME TypeOK, TableInv, waiting' = waiting,
         pc'["experiment"] = pc["experiment"], cpu'["experiment"] = cpu["experiment"],
         \A i \in Cpu : /\ computations'[i].thread = computations[i].thread
                        /\ computations'[i].state = "NO_PROCESS"
                             => computations[i].state = "NO_PROCESS",
         Alive' \subseteq Alive,
         \A t \in Alive' : /\ threads'[t].cpu = threads[t].cpu
                           /\ threads'[t].freed = threads[t].freed
  PROVE  TableInv'
<1>1. \A t \in Alive : threads[t].cpu \in Cpu
  BY DEF TypeOK, ComputationTypeOK, Alive
<1>2. cpu["experiment"] \in Cpu
  BY DEF TypeOK, Process
<1>3. \A t \in Alive' : /\ ~threads'[t].freed
                        /\ computations'[threads'[t].cpu].thread = t
  BY <1>1 DEF TableInv
<1>4. My("experiment").thread' = My("experiment").thread /\ InWait' = InWait
  BY <1>2 DEF My, InWait
<1>5. QED
  BY <1>2, <1>3, <1>4 DEF TableInv

\* The experiment thread goes on and leaves the table alone.
LEMMA TableMove ==
  ASSUME TypeOK, TableInv, UNCHANGED computationVars, ~InWait',
         pc["experiment"] # "start_mark",
         pc'["experiment"] \notin {"create_thread", "rate"}
  PROVE  TableInv'
<1>1. Alive' = Alive
  BY DEF Alive, computationVars
<1>2. QED
  BY <1>1 DEF TableInv, InWait, computationVars

\* A new computation gets a CPU that has none, ...
LEMMA TableStart ==
  ASSUME TypeOK, TableInv, computation_start, UNCHANGED waiting
  PROVE  TableInv'
<1> DEFINE i == cpu["experiment"]
<1> USE DEF At, Goto
<1>0. i \in Cpu /\ "experiment" \in Process
  BY DEF TypeOK, Process
<1>1. CASE pc["experiment"] = "start" /\ UNCHANGED computationVars
  <2>1. pc'["experiment"] \in {"start", "wait", "create_thread"}
    BY <1>0, <1>1 DEF TypeOK, computation_start, NextCpu
  <2>2. CASE pc'["experiment"] = "start"
    BY <1>1, <2>2, TableMove DEF InWait
  <2>3. CASE pc'["experiment"] = "wait"
    <3>1. cpu'["experiment"] = 1
      BY <1>0, <1>1, <2>3 DEF TypeOK, computation_start, NextCpu
    <3>2. Alive' = Alive
      BY <1>1 DEF Alive, computationVars
    <3>3. QED
      BY <1>1, <2>3, <3>1, <3>2 DEF TableInv, InWait, computationVars, Cpu
  <2>4. CASE pc'["experiment"] = "create_thread"
    <3>1. cpu' = cpu /\ My("experiment").state = "NO_PROCESS"
      BY <1>0, <1>1, <2>4 DEF TypeOK, computation_start, NextCpu
    <3>2. Alive' = Alive
      BY <1>1 DEF Alive, computationVars
    <3>3. My("experiment").thread = NULL
      BY <1>0, <1>1, <3>1 DEF TableInv, My
    <3>4. QED
      BY <1>0, <1>1, <2>4, <3>1, <3>2, <3>3 DEF TableInv, InWait, computationVars, My
  <2>5. QED
    BY <2>1, <2>2, <2>3, <2>4
<1>2. CASE pc["experiment"] = "create_thread" /\ CreateThread(i)
  <2>1. PICK t \in Unused :
          /\ computations' = [computations EXCEPT ![i].thread = t]
          /\ threads' = [threads EXCEPT ![t] =
               [status |-> "computing", cpu |-> i, count |-> 0, freed |-> FALSE]]
    BY <1>2 DEF CreateThread
  <2>2. t \in Thread /\ t \notin Alive
    BY <2>1 DEF Unused
  <2>3. pc'["experiment"] = "start_mark" /\ cpu' = cpu
    BY <1>0, <1>2 DEF TypeOK, computation_start
  <2>4. /\ computations'[i].thread = t
        /\ \A j \in Cpu : /\ computations'[j].state = computations[j].state
                          /\ j # i => computations'[j].thread = computations[j].thread
    BY <1>0, <2>1 DEF TypeOK, ComputationTypeOK
  <2>5. /\ threads'[t].cpu = i /\ ~threads'[t].freed
        /\ \A u \in Thread \ {t} : threads'[u] = threads[u]
    BY <2>1, <2>2 DEF TypeOK, ComputationTypeOK
  <2>6. Alive' \subseteq Alive \cup {t}
    BY <2>5 DEF Alive
  <2>7. \A u \in Alive : threads[u].cpu \in Cpu \ {i}
    BY <1>0, <1>2 DEF TypeOK, ComputationTypeOK, Alive, TableInv, My, Thread, NULL
  <2>8. \A u \in Alive' : ~threads'[u].freed /\ computations'[threads'[u].cpu].thread = u
    BY <2>2, <2>4, <2>5, <2>6, <2>7 DEF TableInv, Alive
  <2>9. QED
    BY <1>0, <1>2, <2>3, <2>4, <2>8 DEF TableInv, InWait
<1>3. CASE pc["experiment"] = "start_mark" /\ SetState(i,
"RUNNING") /\ UNCHANGED threads
  <2>1. pc'["experiment"] \in {"start",
       "wait"} /\ (pc'["experiment"] = "wait" => cpu'["experiment"] = 1)
    BY <1>0, <1>3 DEF TypeOK, computation_start, NextCpu
  <2>2. /\ computations'[i].state = "RUNNING"
        /\ \A j \in Cpu : /\ computations'[j].thread = computations[j].thread
                          /\ j # i => computations'[j].state = computations[j].state
    BY <1>0, <1>3 DEF TypeOK, ComputationTypeOK, SetState
  <2>3. Alive' = Alive /\ \A u \in Alive : threads[u].cpu \in Cpu
    BY <1>3 DEF Alive, TypeOK, ComputationTypeOK
  <2>4. \A u \in Alive' : ~threads'[u].freed /\ computations'[threads'[u].cpu].thread = u
    BY <1>3, <2>2, <2>3 DEF TableInv
  <2>5. \A j \in Cpu : computations'[j].state = "NO_PROCESS" => computations'[j].thread = NULL
    BY <1>3, <2>2 DEF TableInv
  <2>6. QED
    BY <2>1, <2>4, <2>5 DEF TableInv, InWait, Cpu
<1>4. QED
  BY <1>1, <1>2, <1>3 DEF computation_start, computationVars

\* ... and is cleared once its thread has ended.
LEMMA TableWait ==
  ASSUME TypeOK, TableInv, computation_wait
  PROVE  TableInv'
<1> DEFINE i == cpu["experiment"]
<1> USE DEF At, Goto
<1>0. i \in Cpu /\ "experiment" \in Process
  BY DEF TypeOK, Process
<1>a. ASSUME NextCpu("experiment", "wait", "rate"),
             \A j \in Cpu : j <= i => computations'[j].thread = NULL
      PROVE  /\ InWait' => \A j \in Cpu : j < cpu'["experiment"] => computations'[j].thread = NULL
             /\ pc'["experiment"] \in {"wait", "rate"}
             /\ pc'["experiment"] = "rate" => \A j \in Cpu : computations'[j].thread = NULL
  BY <1>0, <1>a, Limits DEF TypeOK, NextCpu, Cpu, InWait
<1>1. CASE UNCHANGED computationVars
  <2>1. Alive' = Alive
    BY <1>1 DEF Alive, computationVars
  <2>2. InWait /\ \A j \in Cpu : j < i => computations'[j].thread = NULL
    BY <1>1 DEF computation_wait, InWait, TableInv, computationVars
  <2>3. CASE pc["experiment"] = "wait" /\ My("experiment").state = "NO_PROCESS"
    <3>1. \A j \in Cpu : j <= i => computations'[j].thread = NULL
      BY <1>0, <1>1, <2>2, <2>3 DEF TableInv, My, computationVars, Cpu
    <3>2. NextCpu("experiment", "wait", "rate")
      BY <2>3 DEF computation_wait
    <3>3. QED
      BY <1>1, <1>a, <2>1, <2>3, <3>1, <3>2 DEF TableInv, computationVars
  <2>4. CASE ~(pc["experiment"] = "wait" /\ My("experiment").state = "NO_PROCESS")
             /\ pc["experiment"] # "wait_clear"
    <3>1. UNCHANGED cpu /\ pc'["experiment"] \in {"wait_thread", "waiting",
         "wait_clear"}
      BY <1>0, <2>4 DEF TypeOK, computation_wait
    <3>2. pc'["experiment"] = "waiting" => waiting' = My("experiment").thread
      BY <1>0, <2>4 DEF TypeOK, computation_wait
    <3>3. pc'["experiment"] = "wait_clear" => My("experiment").thread \notin Alive
      <4>1. NULL \notin Alive
        BY DEF NULL, Alive, Thread
      <4>2. QED
        BY <1>0, <2>4, <4>1 DEF TypeOK, computation_wait, TableInv, WaitOver
    <3>4. My("experiment")' = My("experiment")
      BY <1>1, <3>1 DEF My, computationVars
    <3>5. QED
      BY <1>1, <2>1, <2>2, <3>1, <3>2, <3>3, <3>4 DEF TableInv, InWait, computationVars
  <2>5. CASE pc["experiment"] = "wait_clear"
    <3>1. computation_clear(i) /\ NextCpu("experiment", "wait", "rate")
      BY <2>5 DEF computation_wait
    <3>2. computations'[i].thread = NULL
      BY <1>0, <3>1 DEF TypeOK, ComputationTypeOK, computation_clear, NoComputation
    <3>3. \A j \in Cpu : j <= i => computations'[j].thread = NULL
      BY <1>0, <2>2, <3>2 DEF Cpu
    <3>4. QED
      BY <1>1, <1>a, <2>1, <2>5, <3>1, <3>3 DEF TableInv, computationVars
  <2>6. QED
    BY <2>3, <2>4, <2>5
<1>2. CASE /\ pc["experiment"] = "wait_clear" /\ computation_clear(i)
           /\ NextCpu("experiment", "wait", "rate")
  <2>1. /\ computations'[i] = NoComputation
        /\ \A j \in Cpu : j # i => computations'[j] = computations[j]
    BY <1>0, <1>2 DEF TypeOK, ComputationTypeOK, computation_clear
  <2>2. Alive' = Alive /\ \A u \in Alive : threads[u].cpu \in Cpu /\ threads[u].cpu # i
    <3>1. \A u \in Alive : threads[u].cpu \in Cpu
      BY DEF TypeOK, ComputationTypeOK, Alive
    <3>2. \A u \in Alive : computations[i].thread # u
      BY <1>2 DEF TableInv, My
    <3>3. QED
      BY <1>2, <3>1, <3>2 DEF TableInv, Alive, computation_clear
  <2>3. \A u \in Alive' : ~threads'[u].freed /\ computations'[threads'[u].cpu].thread = u
    BY <1>2, <2>1, <2>2 DEF TableInv, computation_clear
  <2>4. \A j \in Cpu : j <= i => computations'[j].thread = NULL
    BY <1>0, <1>2, <2>1 DEF TableInv, InWait, NoComputation, Cpu
  <2>5. \A j \in Cpu : computations'[j].state = "NO_PROCESS" => computations'[j].thread = NULL
    BY <1>2, <2>1 DEF TableInv, NoComputation
  <2>6. QED
    BY <1>2, <1>a, <2>3, <2>4, <2>5 DEF TableInv
<1>3. QED
  BY <1>1, <1>2 DEF computation_wait

\* Suspending and resuming only count.
LEMMA CallKeeps ==
  ASSUME ComputationTypeOK, NEW i \in Cpu, SuspendThread(i) \/ ResumeThread(i)
  PROVE  \A u \in Thread : /\ threads'[u].cpu = threads[u].cpu
                           /\ threads'[u].freed = threads[u].freed
                           /\ threads'[u].status = threads[u].status
<1> SUFFICES ASSUME NEW u \in Thread
             PROVE  /\ threads'[u].cpu = threads[u].cpu
                    /\ threads'[u].freed = threads[u].freed
                    /\ threads'[u].status = threads[u].status
  OBVIOUS
<1>1. threads[u] \in [status : {"computing", "finished", "ended"}, cpu : Cpu,
                     count : 0 .. MAXIMUM_SUSPEND_COUNT, freed : BOOLEAN]
  BY DEF ComputationTypeOK
<1>2. \/ threads'[u] = threads[u]
      \/ threads'[u] = [threads[u] EXCEPT !.count = @ + 1]
      \/ threads'[u] = [threads[u] EXCEPT !.count = @ - 1]
  BY DEF SuspendThread, ResumeThread
<1>3. QED
  BY <1>1, <1>2

\* As long as no computation is terminated, every step keeps the table right.
LEMMA TableStep ==
  ASSUME TypeOK, ClearInv, TableInv, Next, ~killed'
  PROVE  TableInv'
<1> USE DEF At, Goto, Process
<1>1. CASE measurements_proc
  BY <1>1, TableFrame DEF measurements_proc, computationVars, testVars, Alive
<1>2. CASE \E t \in Thread : computation_proc(t)
  <2>1. PICK t \in Thread : computation_proc(t)
    BY <1>2
  <2>2. UNCHANGED <<pc, cpu, waiting>>
    BY <2>1 DEF computation_proc
  <2>3. CASE Compute(t)
    <3>1. threads[t].cpu \in Cpu
      BY DEF TypeOK, ComputationTypeOK
    <3>2. \A i \in Cpu : /\ computations'[i].thread = computations[i].thread
                         /\ computations'[i].state = "NO_PROCESS"
                              => computations[i].state = "NO_PROCESS"
      BY <2>3, <3>1 DEF TypeOK, ComputationTypeOK, Compute, SetState
    <3>3. \A u \in Thread : /\ threads'[u].cpu = threads[u].cpu
                            /\ threads'[u].freed = threads[u].freed
      BY <2>3 DEF TypeOK, ComputationTypeOK, Compute
    <3>4. Alive' \subseteq Alive
      BY <2>3 DEF TypeOK, ComputationTypeOK, Compute, Alive
    <3>5. QED
      BY <2>2, <3>2, <3>3, <3>4, TableFrame DEF Alive
  <2>4. CASE ReturnFrom(t)
    <3>1. Alive' \subseteq Alive \ {t}
      BY <2>4 DEF TypeOK, ComputationTypeOK, ReturnFrom, Alive, Ended
    <3>2. \A u \in Thread \ {t} : threads'[u] = threads[u]
      BY <2>4 DEF TypeOK, ComputationTypeOK, ReturnFrom
    <3>3. QED
      BY <2>2, <2>4, <3>1, <3>2, TableFrame DEF Alive, ReturnFrom
  <2>5. QED
    BY <2>1, <2>3, <2>4 DEF computation_proc
<1>3. ASSUME NEW p \in {"main", "throttling"}, NEW end, computation_resume(p, end),
     UNCHANGED waiting
      PROVE  TableInv'
  <2>0. p \in Process /\ p # "experiment" /\ cpu[p] \in Cpu
    BY DEF TypeOK
  <2>1. pc'["experiment"] = pc["experiment"] /\ cpu'["experiment"] = cpu["experiment"]
    BY <1>3, <2>0 DEF TypeOK, computation_resume, NextCpu
  <2>2. \A i \in Cpu : /\ computations'[i].thread = computations[i].thread
                       /\ computations'[i].state = "NO_PROCESS"
                            => computations[i].state = "NO_PROCESS"
    BY <1>3, <2>0 DEF TypeOK, ComputationTypeOK, computation_resume, computationVars,
                      SetState, ResumeThread
  <2>3. \A u \in Thread : /\ threads'[u].cpu = threads[u].cpu
                          /\ threads'[u].freed = threads[u].freed
                          /\ threads'[u].status = threads[u].status
    BY <1>3, <2>0, CallKeeps DEF TypeOK, computation_resume, computationVars
  <2>4. QED
    BY <1>3, <2>1, <2>2, <2>3, TableFrame DEF Alive
<1>4. CASE computation_suspend("throttling", "asleep") /\ UNCHANGED waiting
  <2>0. "throttling" \in Process /\ cpu["throttling"] \in Cpu
    BY DEF TypeOK
  <2>1. pc'["experiment"] = pc["experiment"] /\ cpu'["experiment"] = cpu["experiment"]
    BY <1>4, <2>0 DEF TypeOK, computation_suspend, NextCpu
  <2>2. \A i \in Cpu : /\ computations'[i].thread = computations[i].thread
                       /\ computations'[i].state = "NO_PROCESS"
                            => computations[i].state = "NO_PROCESS"
    BY <1>4, <2>0 DEF TypeOK, ComputationTypeOK, computation_suspend, computationVars,
                      SetState, SuspendThread
  <2>3. \A u \in Thread : /\ threads'[u].cpu = threads[u].cpu
                          /\ threads'[u].freed = threads[u].freed
                          /\ threads'[u].status = threads[u].status
    BY <1>4, <2>0, CallKeeps DEF TypeOK, computation_suspend, computationVars
  <2>4. QED
    BY <1>4, <2>1, <2>2, <2>3, TableFrame DEF Alive
<1>5. CASE (ThrottlingGuard \/ ThrottlingWake) /\ UNCHANGED waiting
  <2>1. pc'["experiment"] = pc["experiment"] /\ UNCHANGED <<cpu, computationVars>>
    BY <1>5 DEF TypeOK, ThrottlingGuard, ThrottlingWake
  <2>2. QED
    BY <1>5, <2>1, TableFrame DEF computationVars, Alive
<1>6. CASE (MainGuard \/ Skip \/ Input \/ Quit \/ MainEnd) /\ UNCHANGED waiting
  <2>1. pc'["experiment"] = pc["experiment"] /\ UNCHANGED <<cpu, computationVars>>
    BY <1>6 DEF TypeOK, MainGuard, Skip, experiment_next_state, Input, Quit, MainEnd
  <2>2. QED
    BY <1>6, <2>1, TableFrame DEF computationVars, Alive
<1>7. CASE /\ computation_terminate("main",
                IF experiment_continue THEN "guard" ELSE "experiment_join")
           /\ UNCHANGED waiting
  <2>1. UNCHANGED computationVars
    BY <1>7 DEF computation_terminate, ClearInv
  <2>2. pc'["experiment"] = pc["experiment"] /\ cpu'["experiment"] = cpu["experiment"]
    BY <1>7 DEF TypeOK, computation_terminate, NextCpu
  <2>3. QED
    BY <1>7, <2>1, <2>2, TableFrame DEF computationVars, Alive
<1>8. CASE ExperimentRate /\ UNCHANGED waiting
  <2>1. Alive = {}
    BY <1>8 DEF ExperimentRate, TableInv, TypeOK, ComputationTypeOK, Alive, NULL, Thread
  <2>2. UNCHANGED computationVars
    BY <1>8, <2>1 DEF ExperimentRate, DeleteData, TypeOK, ComputationTypeOK,
                      computationVars
  <2>3. pc["experiment"] = "rate" /\ pc'["experiment"] = "test"
    BY <1>8 DEF ExperimentRate, TypeOK
  <2>4. QED
    BY <2>2, <2>3, TableMove DEF InWait
<1>9. CASE /\ UNCHANGED waiting
           /\ \/ ExperimentGuard \/ ExperimentSwitch \/ ExperimentTest \/ ExperimentFail
              \/ ExperimentIdle \/ ExperimentAdvance \/ ExperimentFinish
  <2>1. UNCHANGED computationVars
    BY <1>9 DEF ExperimentGuard, ExperimentSwitch, ExperimentTest, ExperimentFail,
                ExperimentIdle, ExperimentAdvance, ExperimentFinish
  <2>2. /\ ~InWait' /\ pc["experiment"] # "start_mark"
        /\ pc'["experiment"] \notin {"create_thread", "rate"}
    BY <1>9 DEF TypeOK, InWait, ExperimentGuard, ExperimentSwitch, ExperimentTest,
                ExperimentFail,
                ExperimentIdle, ExperimentAdvance, ExperimentFinish
  <2>3. QED
    BY <2>1, <2>2, TableMove
<1>10. QED
  BY <1>1, <1>2, <1>3, <1>4, <1>5, <1>6, <1>7, <1>8, <1>9, TableStart, TableWait
     DEF Next, main, throttling_proc, experiment_proc

LEMMA CompStep ==
  ASSUME TypeOK, CompInv, Next
  PROVE  CompInv'
<1> USE DEF At, Goto, Process
<1>1. killed => killed'
  BY DEF Next, main, throttling_proc, experiment_proc, measurements_proc,
         computation_proc,
         consoleVars, MainGuard, Skip, experiment_next_state, Input, Quit, MainEnd, computation_terminate,
         computation_resume, computation_suspend, ThrottlingGuard, ThrottlingWake,
         ExperimentGuard, ExperimentSwitch, ExperimentTest, ExperimentFail,
         ExperimentIdle,
         ExperimentAdvance, ExperimentFinish, ExperimentRate, computation_start,
         computation_wait
<1>2. ClearInv'
  <2>1. CASE main \/ Input
    <3>1. CASE MainGuard \/ Skip \/ Input \/ Quit \/ MainEnd
      BY <3>1 DEF TypeOK, ClearInv, MainGuard, Skip, experiment_next_state, Input, Quit, MainEnd
    <3>2. CASE computation_terminate("main",
                 IF experiment_continue THEN "guard" ELSE "experiment_join")
      BY <3>2 DEF TypeOK, ClearInv, computation_terminate, NextCpu
    <3>3. CASE computation_resume("main", "throttling_stop")
      BY <3>3 DEF TypeOK, ClearInv, computation_resume, NextCpu
    <3>4. QED
      BY <2>1, <3>1, <3>2, <3>3 DEF main
  <2>2. CASE throttling_proc
    <3>1. pc'["main"] = pc["main"]
      BY <2>2 DEF TypeOK, throttling_proc, ThrottlingGuard, ThrottlingWake, NextCpu,
                  computation_suspend, computation_resume
    <3>2. QED
      BY <1>1, <3>1, <2>2 DEF CompInv, ClearInv
  <2>3. CASE experiment_proc
    <3>1. CASE computation_wait \/ computation_start
      BY <1>1, <3>1 DEF CompInv, ClearInv, TypeOK, computation_wait,
                        computation_start, NextCpu
    <3>2. CASE \/ ExperimentGuard \/ ExperimentSwitch \/ ExperimentTest \/ ExperimentFail
               \/ ExperimentIdle \/ ExperimentAdvance \/ ExperimentFinish \/ ExperimentRate
      BY <1>1, <3>2 DEF CompInv, ClearInv, TypeOK, ExperimentGuard, ExperimentSwitch,
                        ExperimentTest,
                ExperimentFail, ExperimentIdle, ExperimentAdvance, ExperimentFinish,
                ExperimentRate
    <3>3. QED
      BY <2>3, <3>1, <3>2 DEF experiment_proc
  <2>4. CASE measurements_proc \/ \E t \in Thread : computation_proc(t)
    BY <1>1, <2>4 DEF CompInv, ClearInv, measurements_proc, computation_proc
  <2>5. QED
    BY <2>1, <2>2, <2>3, <2>4 DEF Next
<1>3. QED
  BY <1>1, <1>2, TableStep DEF CompInv

----------------------------------------------------------------------------
(***************************************************************************)
(* The states that are skipped.                                            *)
(***************************************************************************)
\* What is missing is finite; ...
LEMMA MissingFinite ==
  ASSUME NEW done, NEW e
  PROVE  IsFiniteSet(Missing(done, e)) /\ Cardinality(Missing(done, e)) \in Nat
<1>1. EXP_LPC \in Int
  BY Limits DEF EXP_LPC
<1>2. IsFiniteSet(0 .. EXP_LPC)
  BY <1>1, FS_Interval
<1>3. Missing(done, e) \in SUBSET (0 .. EXP_LPC)
  BY DEF Missing
<1>4. QED
  BY <1>2, <1>3, FS_Subset, FS_CardinalityType

\* ... no more is missing before an earlier state or when more is done, ...
LEMMA FewLess ==
  ASSUME NEW done, NEW more, done \subseteq more,
         NEW e \in Int, NEW f \in Int, f <= e,
         NEW n \in Int, NEW m \in Int, n <= m, Few(done, e, n)
  PROVE  Few(more, f, m)
<1>1. Missing(more, f) \in SUBSET Missing(done, e)
  BY Limits DEF Missing, EXP_LPC
<1>2. Cardinality(Missing(more, f)) <= Cardinality(Missing(done, e))
  BY <1>1, MissingFinite, FS_Subset
<1>3. QED
  BY <1>2, MissingFinite DEF Few

\* ... one more at most before the next state, ...
LEMMA FewNext ==
  ASSUME NEW done, NEW e \in Int, NEW n \in Int, Few(done, e, n)
  PROVE  Few(done, e + 1, n + 1)
<1>1. Missing(done, e + 1) \in SUBSET (Missing(done, e) \cup {e})
  BY Limits DEF Missing, EXP_LPC
<1>2. /\ IsFiniteSet(Missing(done, e) \cup {e})
      /\ Cardinality(Missing(done, e) \cup {e}) <= Cardinality(Missing(done, e)) + 1
  BY MissingFinite, FS_AddElement
<1>3. /\ Cardinality(Missing(done, e + 1)) <= Cardinality(Missing(done, e) \cup {e})
      /\ Cardinality(Missing(done, e) \cup {e}) \in Nat
  BY <1>1, <1>2, FS_Subset, FS_CardinalityType
<1>4. QED
  BY <1>2, <1>3, MissingFinite DEF Few

\* ... and none if that state is done or is none.
LEMMA FewSame ==
  ASSUME NEW done, NEW e \in Int, NEW n \in Int, Few(done, e, n),
         e \in done \/ e >= EXP_END
  PROVE  Few(done, e + 1, n)
<1>1. Missing(done, e + 1) = Missing(done, e)
  BY Limits DEF Missing, EXP_LPC, EXP_END
<1>2. QED
  BY <1>1 DEF Few

\* A step of the experiment thread within a state, or of another thread that
\* leaves the console and the states alone.
LEMMA MissingFrame ==
  ASSUME TypeOK, TypeOK', MissingInv, Done \subseteq Done',
         UNCHANGED <<experiment_state, old, skips>>,
         Carried' = Carried, Running' = Running,
         pc'["main"] = "write_state" => pc["main"] = "write_state",
         \/ pc'["experiment"] = pc["experiment"]
         \/ pc'["experiment"] \notin {"advance", "finished"}
  PROVE  MissingInv'
<1> DEFINE few(e, n) == Few(Done, e, n)
           few2(e, n) == Few(Done', e, n)
<1>1. /\ experiment_state \in Int /\ skips \in Int /\ Carried \in Int /\ EXP_END \in Int
      /\ old["main"] \in Int /\ old["experiment"] \in Int
  BY Limits DEF TypeOK, Carried, EXP_END
<1>2. \A e \in Int, n \in Int : few(e, n) => few2(e, n)
  BY FewLess
<1>3. MissingInv =>
        /\ few(experiment_state, Carried)
        /\ Running => few(experiment_state + 1, Carried)
        /\ pc["experiment"] = "advance" => few(old["experiment"] + 1, Carried)
        /\ pc["main"] = "write_state" =>
             /\ few(old["main"], skips - 1)
             /\ \/ few(old["main"] + 1, skips - 1)
                \/ ~Running /\ old["main"] = experiment_state
        /\ pc["experiment"] = "finished" => few(EXP_END, skips)
  BY DEF MissingInv
<1>4. SUFFICES
        /\ few2(experiment_state, Carried)
        /\ Running => few2(experiment_state + 1, Carried)
        /\ pc'["experiment"] = "advance" => few2(old["experiment"] + 1, Carried)
        /\ pc'["main"] = "write_state" =>
             /\ few2(old["main"], skips - 1)
             /\ \/ few2(old["main"] + 1, skips - 1)
                \/ ~Running /\ old["main"] = experiment_state
        /\ pc'["experiment"] = "finished" => few2(EXP_END, skips)
  BY DEF MissingInv
<1> HIDE DEF few, few2
<1>5. QED
  BY <1>1, <1>2, <1>3

\* The tests of a state count as long as the experiment thread neither begins a
\* state nor leaves it.
LEMMA ProgressFrame ==
  ASSUME ProgressInv, UNCHANGED <<setting, test, started>>,
         pc'["experiment"] = pc["experiment"]
  PROVE  ProgressInv' /\ Done' = Done /\ Running' = Running
BY DEF ProgressInv, Done, TestsOf, Running, InTest

\* A state that the thread leaves is done.
LEMMA ProgressExperiment ==
  ASSUME TypeOK, QuitInv, ProgressInv, pc'["experiment"] # "gone",
         \/ computation_wait \/ computation_start \/ ExperimentGuard \/ ExperimentSwitch
         \/ ExperimentTest \/ ExperimentFail \/ ExperimentIdle \/ ExperimentRate
         \/ ExperimentAdvance \/ ExperimentFinish
  PROVE  ProgressInv' /\ Done \subseteq Done'
<1> USE Limits DEF At, Goto, Process, Running, InTest
<1>1. CASE computation_wait \/ computation_start
  <2>1. UNCHANGED <<setting, test, started>>
    BY <1>1 DEF computation_wait, computation_start, testVars
  <2>2. InTest /\ InTest'
    <3>1. CASE computation_wait
      BY <3>1 DEF TypeOK, computation_wait, NextCpu
    <3>2. CASE computation_start
      BY <3>2 DEF TypeOK, computation_start, NextCpu
    <3>3. QED
      BY <1>1, <3>1, <3>2
  <2>3. QED
    BY <2>1, <2>2 DEF ProgressInv, Done, TestsOf
<1>2. CASE ExperimentGuard \/ ExperimentFinish
  <2>1. UNCHANGED <<setting, test, started>> /\ ~Running /\ ~Running' /\ ~InTest'
    BY <1>2 DEF TypeOK, ExperimentGuard, ExperimentFinish, testVars
  <2>2. QED
    BY <2>1 DEF ProgressInv, Done, TestsOf
<1>3. CASE ExperimentSwitch
  <2>1. ~Running /\ Running' /\ ~InTest' /\ pc'["experiment"] = "test"
        /\ test' = 0 /\ UNCHANGED started
    BY <1>3 DEF TypeOK, ExperimentSwitch
  <2>2. QED
    BY <2>1 DEF ProgressInv, Done, TestsOf
<1>4. CASE ExperimentTest
  <2>1. /\ pc["experiment"] = "test" /\ Running' /\ InTest' /\ UNCHANGED <<setting, test>>
        /\ started' = started \cup {<<setting, test>>}
        /\ pc'["experiment"] # "advance"
    BY <1>4 DEF TypeOK, ExperimentTest
  <2>2. QED
    BY <2>1 DEF ProgressInv, Done, TestsOf
<1>5. CASE ExperimentIdle \/ ExperimentRate
  <2>1. /\ InTest /\ Running' /\ ~InTest' /\ UNCHANGED <<setting, started>>
        /\ pc'["experiment"] = "test" /\ test' = test + 1
    BY <1>5 DEF TypeOK, ExperimentIdle, ExperimentRate
  <2>2. \A n \in 0 .. test' - 1 : n \in 0 .. test - 1 \/ n = test
    BY <2>1 DEF TypeOK
  <2>3. QED
    BY <2>1, <2>2 DEF ProgressInv, Done, TestsOf
<1>6. CASE ExperimentAdvance
  <2>1. UNCHANGED <<setting, test, started>>
    BY <1>6 DEF ExperimentAdvance, testVars
  <2>2. CASE pc["experiment"] = "test"
    <3>1. Running /\ Running' /\ ~InTest' /\ test = ExperimentIteration
      BY <1>6, <2>2 DEF TypeOK, ExperimentAdvance
    <3>2. QED
      BY <2>1, <3>1 DEF ProgressInv, Done, TestsOf
  <2>3. CASE pc["experiment"] = "advance"
    <3>1. Running /\ ~Running' /\ ~InTest' /\ test = ExperimentIteration
      BY <1>6, <2>3 DEF TypeOK, ExperimentAdvance, ProgressInv
    <3>2. TestsOf(setting) \subseteq started
      BY <3>1 DEF ProgressInv, TestsOf
    <3>3. QED
      BY <2>1, <3>1, <3>2 DEF ProgressInv, Done, TestsOf
  <2>4. QED
    BY <1>6, <2>2, <2>3 DEF ExperimentAdvance
<1>7. CASE ExperimentFail
  BY <1>7 DEF TypeOK, ExperimentFail
<1>8. QED
  BY <1>1, <1>2, <1>3, <1>4, <1>5, <1>6, <1>7

\* What main reads, writes and skips.
LEMMA MissingMain ==
  ASSUME TypeOK, TypeOK', MissingInv, Done' = Done, Running' = Running,
         pc'["experiment"] = pc["experiment"],
         MainGuard \/ Input \/ Skip
  PROVE  MissingInv'
<1> USE DEF At, Goto, Process, stateVars, consoleVars
<1>1. /\ experiment_state \in Int /\ skips \in Int /\ EXP_END \in Int
      /\ old["main"] \in Int /\ old["experiment"] \in Int
  BY Limits DEF TypeOK, EXP_END
<1>2. CASE MainGuard
  BY <1>2, MissingFrame DEF TypeOK, MainGuard, Carried
<1>3. CASE Input
  <2>0. /\ pc'["main"] \in {"skip", "quit", "guard"} /\ pc["main"] = "prompt"
        /\ pc'["main"] = "skip" => skips' = skips + 1
        /\ pc'["main"] # "skip" => skips' = skips
    BY <1>3 DEF TypeOK, Input
  <2>1. /\ UNCHANGED stateVars /\ Carried' = Carried /\ Carried = skips
        /\ skips <= skips' /\ skips' \in Int
        /\ pc'["main"] # "write_state" /\ Carried \in Int
    BY <1>1, <1>3, <2>0 DEF Input, Carried
  <2>2. Few(Done, EXP_END, skips) => Few(Done, EXP_END, skips')
    BY <1>1, <2>1, FewLess
  <2>3. QED
    BY <2>1, <2>2 DEF MissingInv
<1>4. CASE Skip
  <2>1. UNCHANGED skips
    BY <1>4 DEF Skip, experiment_next_state
  <2>2. CASE pc["main"] = "skip" /\ experiment_state >= EXP_END
    <3>1. /\ UNCHANGED stateVars /\ pc'["main"] = "quit"
          /\ Carried = skips - 1 /\ Carried' = skips
      BY <1>1, <1>4, <2>1, <2>2 DEF TypeOK, Skip, experiment_next_state, Carried
    <3>2. \A e \in Int : Few(Done, e, skips - 1) => Few(Done, e, skips)
      BY <1>1, FewLess
    <3>3. QED
      BY <1>1, <2>1, <3>1, <3>2 DEF MissingInv
  <2>3. CASE pc["main"] = "skip" /\ experiment_state < EXP_END
    BY <1>1, <1>4, <2>1, <2>3, MissingFrame DEF TypeOK, Skip, experiment_next_state, Carried
  <2>4. CASE pc["main"] = "next_state"
    <3>1. /\ UNCHANGED experiment_state /\ pc'["main"] = "write_state"
          /\ old' = [old EXCEPT !["main"] = experiment_state]
          /\ Carried = skips - 1 /\ Carried' = skips - 1
      BY <1>4, <2>1, <2>4 DEF TypeOK, Skip, experiment_next_state, Carried
    <3>2. old'["main"] = experiment_state /\ old'["experiment"] = old["experiment"]
      BY <3>1 DEF TypeOK
    <3>3. QED
      BY <2>1, <3>1, <3>2 DEF MissingInv
  <2>5. CASE pc["main"] = "write_state"
    <3>1. /\ experiment_state' = old["main"] + 1 /\ pc'["main"] = "terminate"
          /\ old' = [old EXCEPT !["main"] = 0]
          /\ Carried = skips - 1 /\ Carried' = skips
      BY <1>4, <2>1, <2>5 DEF TypeOK, Skip, experiment_next_state, Carried
    <3>2. old'["experiment"] = old["experiment"]
      BY <3>1 DEF TypeOK
    <3>3. Few(Done, old["main"] + 1, skips - 1 + 1)
      BY <1>1, <2>5, FewNext DEF MissingInv
    <3>4. Running => Few(Done, old["main"] + 1 + 1, skips - 1 + 1)
      BY <1>1, <2>5, FewNext DEF MissingInv
    <3>5. \A e \in Int : Few(Done, e, skips - 1) => Few(Done, e, skips)
      BY <1>1, FewLess
    <3>6. skips - 1 + 1 = skips
      BY <1>1
    <3>7. QED
      BY <1>1, <2>1, <3>1, <3>2, <3>3, <3>4, <3>5, <3>6 DEF MissingInv
  <2>6. QED
    BY <1>4, <2>2, <2>3, <2>4, <2>5 DEF Skip, experiment_next_state
<1>5. QED
  BY <1>2, <1>3, <1>4

\* What the experiment thread reads, writes and begins.
LEMMA MissingExperiment ==
  ASSUME TypeOK, TypeOK', MissingInv, Done \subseteq Done',
         pc'["experiment"] # "gone",
         ExperimentGuard \/ ExperimentSwitch \/ ExperimentAdvance
  PROVE  MissingInv'
<1> USE DEF At, Goto, Process, stateVars, consoleVars
<1>1. /\ experiment_state \in Int /\ skips \in Int /\ EXP_END \in Int
      /\ old["main"] \in Int /\ old["experiment"] \in Int /\ Carried \in Int
      /\ Carried <= skips
  BY Limits DEF TypeOK, EXP_END, Carried
<1>2. pc'["main"] = pc["main"] /\ skips' = skips /\ Carried' = Carried
  BY DEF TypeOK, ExperimentGuard, ExperimentSwitch, ExperimentAdvance, Carried
<1>3. \A e \in Int, n \in Int : Few(Done, e, n) => Few(Done', e, n)
  BY FewLess
<1>4. CASE ExperimentGuard
  <2>1. UNCHANGED <<experiment_state, old>> /\ ~Running /\ ~Running'
        /\ pc'["experiment"] \in {"finished", "switch"}
    BY <1>4 DEF TypeOK, ExperimentGuard, Running, InTest
  <2>2. pc'["experiment"] = "finished" => experiment_state >= EXP_END
    BY <1>4 DEF TypeOK, ExperimentGuard
  <2>3. pc'["experiment"] = "finished" => Few(Done, EXP_END, skips)
    BY <1>1, <2>2, FewLess DEF MissingInv
  <2>4. QED
    BY <1>1, <1>2, <1>3, <2>1, <2>3 DEF MissingInv
<1>5. CASE ExperimentSwitch
  <2>1. UNCHANGED <<experiment_state, old, started>> /\ ~Running /\ Running'
        /\ pc'["experiment"] = "test"
        /\ setting' = IF experiment_state < EXP_END THEN experiment_state ELSE setting
    BY <1>5 DEF TypeOK, ExperimentSwitch, Running, InTest
  <2>2. experiment_state \in Done' \/ experiment_state >= EXP_END
    BY <1>1, <2>1, Limits DEF TypeOK, Done, EXP_END, EXP_LPC
  <2>3. \A n \in Int : Few(Done', experiment_state, n) => Few(Done', experiment_state + 1, n)
    BY <1>1, <2>2, FewSame
  <2>4. skips - 1 \in Int /\ experiment_state + 1 \in Int /\ old["main"] + 1 \in Int
    BY <1>1
  <2>5. QED
    BY <1>1, <1>2, <1>3, <2>1, <2>3, <2>4 DEF MissingInv
<1>6. CASE ExperimentAdvance /\ pc["experiment"] = "test"
  <2>1. /\ UNCHANGED experiment_state /\ Running /\ Running'
        /\ old' = [old EXCEPT !["experiment"] = experiment_state]
        /\ pc'["experiment"] = "advance"
    BY <1>6 DEF TypeOK, ExperimentAdvance, Running, InTest
  <2>2. old'["main"] = old["main"] /\ old'["experiment"] = experiment_state
    BY <2>1 DEF TypeOK
  <2>3. skips - 1 \in Int /\ experiment_state + 1 \in Int /\ old["main"] + 1 \in Int
    BY <1>1
  <2>4. QED
    BY <1>1, <1>2, <1>3, <2>1, <2>2, <2>3 DEF MissingInv
<1>7. CASE ExperimentAdvance /\ pc["experiment"] = "advance"
  <2>1. /\ experiment_state' = old["experiment"] + 1 /\ Running /\ ~Running'
        /\ old' = [old EXCEPT !["experiment"] = 0]
        /\ pc'["experiment"] = "guard"
    BY <1>7 DEF TypeOK, ExperimentAdvance, Running, InTest
  <2>2. old'["main"] = old["main"]
    BY <2>1 DEF TypeOK
  <2>3. skips - 1 \in Int /\ old["experiment"] + 1 \in Int /\ old["main"] + 1 \in Int
    BY <1>1
  <2>4. QED
    BY <1>1, <1>2, <1>3, <1>7, <2>1, <2>2, <2>3 DEF MissingInv
<1>8. QED
  BY <1>4, <1>5, <1>6, <1>7 DEF ExperimentAdvance

\* A step of another thread, or of main outside the console.
LEMMA SkipElsewhere ==
  ASSUME TypeOK,
         \/ measurements_proc \/ throttling_proc \/ Quit \/ MainEnd
         \/ \E t \in Thread : computation_proc(t)
         \/ computation_terminate("main",
              IF experiment_continue THEN "guard" ELSE "experiment_join")
         \/ computation_resume("main", "throttling_stop")
  PROVE  /\ UNCHANGED <<experiment_state, old, skips, setting, test, started>>
         /\ pc'["experiment"] = pc["experiment"] /\ Carried' = Carried
         /\ pc'["main"] = "write_state" => pc["main"] = "write_state"
<1> USE DEF At, Goto, Process, NextCpu, Carried, stateVars, testVars, consoleVars
<1>1. CASE measurements_proc \/ \E t \in Thread : computation_proc(t)
  BY <1>1 DEF measurements_proc, computation_proc
<1>2. CASE throttling_proc
  <2>1. pc'["main"] = pc["main"] /\ pc'["experiment"] = pc["experiment"]
    BY <1>2 DEF TypeOK, throttling_proc, ThrottlingGuard, ThrottlingWake,
                computation_suspend, computation_resume
  <2>2. QED
    BY <1>2, <2>1 DEF throttling_proc, ThrottlingGuard, ThrottlingWake,
                      computation_suspend, computation_resume
<1>3. CASE Quit \/ MainEnd
  BY <1>3 DEF TypeOK, Quit, MainEnd
<1>4. CASE computation_terminate("main",
             IF experiment_continue THEN "guard" ELSE "experiment_join")
  <2>1. /\ pc'["experiment"] = pc["experiment"]
        /\ pc["main"] \notin {"skip", "next_state", "write_state"}
        /\ pc'["main"] \notin {"skip", "next_state", "write_state"}
    BY <1>4 DEF TypeOK, computation_terminate
  <2>2. QED
    BY <1>4, <2>1 DEF computation_terminate
<1>5. CASE computation_resume("main", "throttling_stop")
  <2>1. /\ pc'["experiment"] = pc["experiment"]
        /\ pc["main"] \notin {"skip", "next_state", "write_state"}
        /\ pc'["main"] \notin {"skip", "next_state", "write_state"}
    BY <1>5 DEF TypeOK, computation_resume
  <2>2. QED
    BY <1>5, <2>1 DEF computation_resume
<1>6. QED
  BY <1>1, <1>2, <1>3, <1>4, <1>5

\* All steps.
LEMMA SkipStep ==
  ASSUME TypeOK, TypeOK', QuitInv, SkipInv, Next
  PROVE  SkipInv'
<1> SUFFICES ASSUME pc'["experiment"] # "gone"
             PROVE  ProgressInv' /\ MissingInv'
  BY DEF SkipInv
<1> USE DEF At, Goto, Process
<1>1. CASE \/ measurements_proc \/ throttling_proc \/ Quit \/ MainEnd
           \/ \E t \in Thread : computation_proc(t)
           \/ computation_terminate("main",
                IF experiment_continue THEN "guard" ELSE "experiment_join")
           \/ computation_resume("main", "throttling_stop")
  BY <1>1, SkipElsewhere, ProgressFrame, MissingFrame DEF SkipInv
<1>2. CASE MainGuard \/ Input \/ Skip
  <2>1. UNCHANGED <<setting, test, started>> /\ pc'["experiment"] = pc["experiment"]
    BY <1>2 DEF TypeOK, MainGuard, Input, Skip, experiment_next_state, testVars
  <2>2. QED
    BY <1>2, <2>1, ProgressFrame, MissingMain DEF SkipInv
<1>3. CASE \/ computation_wait \/ computation_start \/ ExperimentTest \/ ExperimentFail
           \/ ExperimentIdle \/ ExperimentRate \/ ExperimentFinish
  <2>1. /\ UNCHANGED <<experiment_state, old, skips>> /\ pc["experiment"] # "gone"
        /\ pc'["main"] = pc["main"] /\ Running' = Running
        /\ pc'["experiment"] \notin {"advance", "finished"}
    <3>1. CASE computation_wait
      BY <3>1 DEF TypeOK, computation_wait, NextCpu, stateVars, consoleVars,
                  Running, InTest
    <3>2. CASE computation_start
      BY <3>2 DEF TypeOK, computation_start, NextCpu, stateVars, consoleVars,
                  Running, InTest
    <3>3. CASE \/ ExperimentTest \/ ExperimentFail \/ ExperimentIdle \/ ExperimentRate
               \/ ExperimentFinish
      BY <3>3 DEF TypeOK, ExperimentTest, ExperimentFail, ExperimentIdle,
                  ExperimentRate, ExperimentFinish, stateVars, consoleVars,
                  Running, InTest
    <3>4. QED
      BY <1>3, <3>1, <3>2, <3>3
  <2>2. ProgressInv' /\ Done \subseteq Done'
    BY <1>3, <2>1, ProgressExperiment DEF SkipInv
  <2>3. QED
    BY <2>1, <2>2, MissingFrame DEF SkipInv, Carried
<1>4. CASE ExperimentGuard \/ ExperimentSwitch \/ ExperimentAdvance
  <2>1. pc["experiment"] # "gone"
    BY <1>4 DEF ExperimentGuard, ExperimentSwitch, ExperimentAdvance
  <2>2. QED
    BY <1>4, <2>1, ProgressExperiment, MissingExperiment DEF SkipInv
<1>5. QED
  BY <1>1, <1>2, <1>3, <1>4 DEF Next, main, experiment_proc

----------------------------------------------------------------------------
(***************************************************************************)
(* The theorems.                                                           *)
(***************************************************************************)
\* The initial states.
LEMMA InvInit ==
  ASSUME Init
  PROVE  Inv
<1>1. RaceInv /\ QuitInv
  BY Limits DEF Init, RaceInv, QuitInv, InConsole, Past, InTest, EXP_IDLE, EXP_END
<1>2. Alive = {}
  BY DEF Init, ComputationInit, Ended, Alive
<1>3. CompInv
  BY <1>2 DEF Init, ComputationInit, NoComputation, CompInv, ClearInv, TableInv, InWait
<1>4. SkipInv
  <2>1. ~Running /\ ~InTest
    BY DEF Init, Running, InTest
  <2>2. 0 \in Int /\ Missing(Done, 0) = {}
    BY Limits DEF Missing, EXP_LPC
  <2>3. Few(Done, 0, 0)
    BY <2>2, FS_EmptySet DEF Few
  <2>4. experiment_state = 0 /\ Carried = 0 /\ pc["main"] = "guard" /\ pc["experiment"] = "guard"
    BY DEF Init, Carried, EXP_IDLE
  <2>5. QED
    BY <2>1, <2>3, <2>4 DEF SkipInv, ProgressInv, MissingInv
<1>5. QED
  BY <1>1, <1>3, <1>4, TypeInit DEF Inv

\* Every step.
LEMMA InvStep ==
  ASSUME Inv, [Next]_vars
  PROVE  Inv'
<1>1. CASE Next
  BY <1>1, TypeStep, RaceStep, QuitStep, CompStep, SkipStep DEF Inv
<1>2. CASE UNCHANGED vars
  BY <1>2 DEF Inv, vars, TypeOK, ComputationTypeOK, RaceInv, InConsole, Past, QuitInv,
              InTest,
              CompInv, ClearInv, TableInv, InWait, My, Alive, SkipInv, ProgressInv,
              MissingInv, Carried, Running, Done
<1>3. QED
  BY <1>1, <1>2

LEMMA Invariance == Spec => []Inv
<1>1. Init => Inv
  BY InvInit
<1>2. Inv /\ [Next]_vars => Inv'
  BY InvStep
<1>3. QED
  BY <1>1, <1>2, PTL DEF Spec

\* The variables of multiproc keep to their types; the state of the experiment, in
\* particular, which main and the experiment thread count up without a lock, is
\* never more than one past EXP_END.
THEOREM TypeCorrect == Spec => []TypeOK
<1>1. Inv => TypeOK
  BY DEF Inv
<1>2. QED
  BY <1>1, Invariance, PTL

\* QuitSoon: after q was typed, the experiment thread starts at most the tests of
\* one state.
THEOREM StopsSoon == Spec => []QuitSoon
<1>1. Inv => QuitSoon
  BY DEF Inv, QuitInv, QuitSoon
<1>2. QED
  BY <1>1, Invariance, PTL

\* OneAtATime: as long as nobody skips or quits, no two computations share a CPU
\* and none runs on data that were deleted, whatever the throttling thread does.
THEOREM Alone == Spec => []OneAtATime
<1>1. Inv => OneAtATime
  BY DEF Inv, CompInv, TableInv, OneAtATime
<1>2. QED
  BY <1>1, Invariance, PTL

\* SkipCostsOneState: an experiment that has got to its end has run every test but
\* those of one state for each line typed to skip, however the two ++ of
\* experiment_state, by main and by the experiment thread, fall.
THEOREM SkipCosts == Spec => []SkipCostsOneState
<1>1. Inv => SkipCostsOneState
  <2>1. SUFFICES ASSUME Inv, pc["experiment"] = "finished"
                 PROVE  Cardinality(Tests \ started) <= skips * ExperimentIteration
    BY DEF SkipCostsOneState
  <2> DEFINE M == Missing(Done, EXP_END)
             I == 0 .. ExperimentIteration - 1
  <2>2. /\ Cardinality(M) <= skips /\ Cardinality(M) \in Nat /\ skips \in Nat
        /\ IsFiniteSet(M)
    BY <2>1, Limits, MissingFinite DEF Inv, SkipInv, MissingInv, Few, TypeOK
  <2>3. IsFiniteSet(I) /\ Cardinality(I) = ExperimentIteration
    BY Limits, FS_Interval
  <2>4. Tests \ started \in SUBSET (M \X I)
    <3>1. ~Running
      BY <2>1 DEF Running, InTest
    <3>2. \A s \in 0 .. EXP_LPC : s < EXP_END
      BY Limits DEF EXP_LPC, EXP_END
    <3>3. QED
      BY <3>1, <3>2 DEF Tests, Missing, Done, TestsOf
  <2>5. /\ IsFiniteSet(M \X I)
        /\ Cardinality(M \X I) = Cardinality(M) * ExperimentIteration
    BY <2>2, <2>3, FS_Product
  <2>6. Cardinality(Tests \ started) <= Cardinality(M) * ExperimentIteration
    BY <2>4, <2>5, FS_Subset
  <2>7. IsFiniteSet(Tests \ started) /\ Cardinality(Tests \ started) \in Nat
    BY <2>4, <2>5, FS_Subset, FS_CardinalityType
  <2>8. \A c \in Nat, n \in Nat, k \in Nat : c <= n => c * k <= n * k
    OBVIOUS
  <2> HIDE DEF M, I
  <2>9. QED
    BY <2>2, <2>6, <2>7, <2>8, Limits
<1>2. QED
  BY <1>1, Invariance, PTL
============================================================================
