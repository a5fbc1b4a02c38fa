----------------------------- MODULE MultiProc -----------------------------
(***************************************************************************)
(* The test program multiproc (multiproc.cpp): main, which reads the       *)
(* console, the experiment thread, which runs a number of tests in each    *)
(* state of the experiment, and the throttling thread, which suspends and  *)
(* resumes the computations.  They share plain variables: a step of a      *)
(* thread is one access to one of them or to the table of computations.    *)
(*                                                                         *)
(* The states are 0 (EXP_IDLE), 1 .. CpuStates (EXP_CPU_100 to EXP_CPU_20),*)
(* EXP_LPC and EXP_END.                                                    *)
(***************************************************************************)
EXTENDS Computation

CONSTANTS
  CpuStates,           \* how many EXP_CPU states there are
  Throttled,           \* those with a CPU usage below 100
  ExperimentIteration, \* tests in each state
  MaxInputs            \* bound: lines typed at the console

EXP_IDLE == 0
EXP_LPC == CpuStates + 1
EXP_END == CpuStates + 2

ASSUME MultiProcAssumption ==
  /\ CpuStates \in Nat /\ Throttled \subseteq 1 .. CpuStates
  /\ ExperimentIteration \in Nat \ {0}
  /\ MaxInputs \in Nat

VARIABLES
  pc,                  \* where main, experiment and throttling are
  cpu,                 \* the CPU each of them is at in its loops
  experiment_state,
  old,                 \* experiment_state as read by the ++ of a thread
  experiment_continue,
  setting,             \* the state whose settings (usage, mode) are in force
  waiting,             \* the thread object computation_wait waits for
  test,                \* the test of the experiment thread, from 0
  throttling_continue,
  socket,              \* _socket is open
  measuring,           \* the thread of measurements: on, told to stop, ended
  inputs,              \* lines typed
  skips, killed,       \* history: tests asked to skip; computation_terminate ran
  started,             \* history: the tests started, <<setting, test>>
  after                \* history: the tests started since q was typed

vars == <<computations, threads, pc, cpu, experiment_state, old,
          experiment_continue, setting, waiting, test, throttling_continue, socket,
          measuring, inputs, skips, killed, started, after>>

consoleVars == <<inputs, skips, killed>>
flagVars == <<experiment_continue, throttling_continue, socket, measuring>>
stateVars == <<experiment_state, old>>
testVars == <<setting, test, started, after>>

Process == {"main", "experiment", "throttling"}

\* Where each of them may be.
MainPlace ==
  {"guard", "prompt", "skip", "next_state", "write_state", "quit",
   "terminate", "terminate_thread", "terminate_clear", "experiment_join",
   "resume", "resume_thread", "resume_mark", "throttling_stop",
   "measurements_stop", "measurements_join", "ended"}
ExperimentPlace ==
  {"guard", "switch", "test", "idle", "start", "create_thread", "start_mark",
   "wait", "wait_thread", "waiting", "wait_clear", "rate", "advance",
   "finished", "join", "ended", "gone"}
ThrottlingPlace ==
  {"guard", "suspend", "suspend_thread", "suspend_mark", "asleep",
   "resume", "resume_thread", "resume_mark", "ended"}

TypeOK ==
  /\ ComputationTypeOK
  /\ pc \in [Process -> MainPlace \cup ExperimentPlace \cup ThrottlingPlace]
  /\ pc["main"] \in MainPlace /\ pc["experiment"] \in ExperimentPlace
  /\ pc["throttling"] \in ThrottlingPlace
  /\ cpu \in [Process -> Cpu]
  /\ experiment_state \in 0 .. EXP_END + 1
  /\ old \in [{"main", "experiment"} -> 0 .. EXP_END]
  /\ experiment_continue \in BOOLEAN /\ throttling_continue \in BOOLEAN
  /\ waiting \in Thread \cup {NULL}
  /\ setting \in 0 .. EXP_LPC /\ test \in 0 .. ExperimentIteration
  /\ socket \in BOOLEAN /\ measuring \in {"on", "told", "ended"}
  /\ inputs \in 0 .. MaxInputs /\ skips \in 0 .. MaxInputs /\ killed \in BOOLEAN
  /\ started \subseteq (0 .. EXP_LPC) \X (0 .. ExperimentIteration - 1)
  /\ after \in Nat

Init ==
  /\ ComputationInit
  /\ pc = [main |-> "guard", experiment |-> "guard", throttling |-> "guard"]
  /\ cpu = [p \in Process |-> 1]
  /\ experiment_state = EXP_IDLE /\ old = [main |-> 0, experiment |-> 0]
  /\ experiment_continue = TRUE /\ throttling_continue = TRUE
  /\ setting = EXP_IDLE /\ test = 0 /\ waiting = NULL
  /\ socket = TRUE /\ measuring = "on"
  /\ inputs = 0 /\ skips = 0 /\ killed = FALSE
  /\ started = {} /\ after = 0

At(p, place) == pc[p] = place
Goto(p, place) == pc' = [pc EXCEPT ![p] = place]

\* The next CPU of a loop, or what follows the loop.
NextCpu(p, loop, end) ==
  /\ cpu' = [cpu EXCEPT ![p] = IF @ < CpuCount THEN @ + 1 ELSE 1]
  /\ Goto(p, IF cpu[p] < CpuCount THEN loop ELSE end)

My(p) == computations[cpu[p]]

----------------------------------------------------------------------------
(***************************************************************************)
(* computation_terminate and computation_resume, called for every CPU.     *)
(***************************************************************************)
computation_terminate(p, end) ==
  /\ \/ /\ At(p, "terminate") /\ My(p).state = "NO_PROCESS"
        /\ NextCpu(p, "terminate", end)
        /\ UNCHANGED <<computationVars, killed>>
     \/ /\ At(p, "terminate") /\ My(p).state # "NO_PROCESS"
        /\ Goto(p, "terminate_thread")
        /\ UNCHANGED <<computationVars, cpu, killed>>
     \/ /\ At(p, "terminate_thread")
        /\ TerminateThread(cpu[p]) /\ killed' = TRUE
        /\ Goto(p, "terminate_clear")
        /\ UNCHANGED cpu
     \/ /\ At(p, "terminate_clear")
        /\ computation_clear(cpu[p])
        /\ NextCpu(p, "terminate", end)
        /\ UNCHANGED killed
  /\ UNCHANGED <<stateVars, flagVars, testVars, inputs, skips>>

computation_resume(p, end) ==
  /\ \/ /\ At(p, "resume") /\ My(p).state # "SUSPENDED"
        /\ NextCpu(p, "resume", end)
        /\ UNCHANGED computationVars
     \/ /\ At(p, "resume") /\ My(p).state = "SUSPENDED"
        /\ Goto(p, "resume_thread")
        /\ UNCHANGED <<computationVars, cpu>>
     \/ /\ At(p, "resume_thread")
        /\ ResumeThread(cpu[p])
        /\ Goto(p, "resume_mark")
        /\ UNCHANGED cpu
     \/ /\ At(p, "resume_mark")
        /\ SetState(cpu[p], "RUNNING")
        /\ NextCpu(p, "resume", end)
        /\ UNCHANGED threads
  /\ UNCHANGED <<stateVars, flagVars, testVars, consoleVars>>

computation_suspend(p, end) ==
  /\ \/ /\ At(p, "suspend") /\ My(p).state # "RUNNING"
        /\ NextCpu(p, "suspend", end)
        /\ UNCHANGED computationVars
     \/ /\ At(p, "suspend") /\ My(p).state = "RUNNING"
        /\ Goto(p, "suspend_thread")
        /\ UNCHANGED <<computationVars, cpu>>
     \/ /\ At(p, "suspend_thread")
        /\ SuspendThread(cpu[p])
        /\ Goto(p, "suspend_mark")
        /\ UNCHANGED cpu
     \/ /\ At(p, "suspend_mark")
        /\ SetState(cpu[p], "SUSPENDED")
        /\ NextCpu(p, "suspend", end)
        /\ UNCHANGED threads
  /\ UNCHANGED <<stateVars, flagVars, testVars, consoleVars>>

----------------------------------------------------------------------------
(***************************************************************************)
(* throttling_proc.                                                        *)
(***************************************************************************)

\* No other state switches throttling off.
Activated == setting # EXP_LPC

\* A period; with a usage of 100 nothing is suspended.
ThrottlingGuard ==
  /\ At("throttling", "guard")
  /\ Goto("throttling", IF ~(throttling_continue /\ Activated) THEN "ended"
                        ELSE IF setting \in Throttled THEN "suspend" ELSE "asleep")
  /\ UNCHANGED <<computationVars, cpu, stateVars, flagVars, testVars, consoleVars>>

\* Mutant: the computations are not resumed after the sleep.
ThrottlingWakeIdle ==
  /\ At("throttling", "asleep")
  /\ Goto("throttling", IF throttling_continue THEN "guard" ELSE "ended")
  /\ UNCHANGED <<computationVars, cpu, stateVars, flagVars, testVars, consoleVars>>

ThrottlingWake ==
  /\ At("throttling", "asleep")
  /\ Goto("throttling", IF throttling_continue THEN "resume" ELSE "ended")
  /\ UNCHANGED <<computationVars, cpu, stateVars, flagVars, testVars, consoleVars>>

throttling_proc == \/ ThrottlingGuard \/ ThrottlingWake
                   \/ computation_suspend("throttling", "asleep")
                   \/ computation_resume("throttling", "guard")

----------------------------------------------------------------------------
(***************************************************************************)
(* experiment_proc.                                                        *)
(***************************************************************************)

\* Mutant: q is not noticed between two states.
ExperimentGuardDeaf ==
  /\ At("experiment", "guard")
  /\ Goto("experiment", IF experiment_state >= EXP_END THEN "finished" ELSE "switch")
  /\ UNCHANGED <<computationVars, cpu, stateVars, flagVars, testVars, consoleVars>>

\* The guard of the rounds; the thread ends here after q.
ExperimentGuard ==
  /\ At("experiment", "guard")
  /\ Goto("experiment", IF experiment_state >= EXP_END THEN "finished"
                        ELSE IF experiment_continue THEN "switch" ELSE "gone")
  /\ UNCHANGED <<computationVars, cpu, stateVars, flagVars, testVars, consoleVars>>

\* Mutant: the tests are counted from the last state on.
ExperimentSwitchOn ==
  /\ At("experiment", "switch")
  /\ setting' = IF experiment_state < EXP_END THEN experiment_state ELSE setting
  /\ test' = test
  /\ Goto("experiment", "test")
  /\ UNCHANGED <<computationVars, cpu, stateVars, flagVars, started, after,
                 consoleVars>>

\* The state is read again; in EXP_END the settings stay.
ExperimentSwitch ==
  /\ At("experiment", "switch")
  /\ setting' = IF experiment_state < EXP_END THEN experiment_state ELSE setting
  /\ test' = 0
  /\ Goto("experiment", "test")
  /\ UNCHANGED <<computationVars, cpu, stateVars, flagVars, started, after,
                 consoleVars>>

\* A test begins with the message that starts it.
ExperimentTest ==
  /\ At("experiment", "test") /\ test < ExperimentIteration
  /\ started' = started \cup {<<setting, test>>}
  /\ after' = IF experiment_continue THEN after ELSE after + 1
  /\ Goto("experiment", IF setting = EXP_IDLE THEN "idle" ELSE "start")
  /\ UNCHANGED <<computationVars, cpu, stateVars, flagVars, setting, test,
                 consoleVars>>

\* computation_start: an index that is not available is skipped with a warning.
computation_start ==
  /\ \/ /\ At("experiment", "start") /\ My("experiment").state # "NO_PROCESS"
        /\ NextCpu("experiment", "start", "wait")
        /\ UNCHANGED computationVars
     \/ /\ At("experiment", "start") /\ My("experiment").state = "NO_PROCESS"
        /\ Goto("experiment", "create_thread")
        /\ UNCHANGED <<computationVars, cpu>>
     \/ /\ At("experiment", "create_thread")
        /\ CreateThread(cpu["experiment"])
        /\ Goto("experiment", "start_mark")
        /\ UNCHANGED cpu
     \/ /\ At("experiment", "start_mark")
        /\ SetState(cpu["experiment"], "RUNNING")
        /\ NextCpu("experiment", "start", "wait")
        /\ UNCHANGED threads
  /\ UNCHANGED <<stateVars, flagVars, testVars, consoleVars>>

\* A file, memory or a thread cannot be had: the thread returns and leaves the
\* run of the server, and the computations it has started, as they are.
ExperimentFail ==
  /\ pc["experiment"] \in {"start", "create_thread"}
  /\ Goto("experiment", "gone")
  /\ UNCHANGED <<computationVars, cpu, stateVars, flagVars, testVars, consoleVars>>

\* Mutant: the wait times out.
WaitOverTimeout(t) == TRUE

\* Where a wait for the thread of the CPU ends: at once if there is no handle.
WaitOver(t) == t = NULL \/ t \notin Alive

\* computation_wait.
computation_wait ==
  /\ \/ /\ At("experiment", "wait") /\ My("experiment").state = "NO_PROCESS"
        /\ NextCpu("experiment", "wait", "rate")
        /\ UNCHANGED <<computationVars, waiting>>
     \/ /\ At("experiment", "wait") /\ My("experiment").state # "NO_PROCESS"
        /\ Goto("experiment", "wait_thread")
        /\ UNCHANGED <<computationVars, cpu, waiting>>
     \/ /\ At("experiment", "wait_thread")
        /\ waiting' = My("experiment").thread
        /\ Goto("experiment", "waiting")
        /\ UNCHANGED <<computationVars, cpu>>
     \/ /\ At("experiment", "waiting") /\ WaitOver(waiting)
        /\ Goto("experiment", "wait_clear")
        /\ UNCHANGED <<computationVars, cpu, waiting>>
     \/ /\ At("experiment", "wait_clear")
        /\ computation_clear(cpu["experiment"])
        /\ NextCpu("experiment", "wait", "rate")
        /\ waiting' = NULL
  /\ UNCHANGED <<stateVars, flagVars, testVars, consoleVars>>

\* An idle test: start, a sleep, stop.
ExperimentIdle ==
  /\ At("experiment", "idle")
  /\ test' = test + 1
  /\ Goto("experiment", "test")
  /\ UNCHANGED <<computationVars, cpu, stateVars, flagVars, setting, started,
                 after, consoleVars>>

\* The data of all CPUs are added up and deleted, kflops and stop are sent.
ExperimentRate ==
  /\ At("experiment", "rate")
  /\ DeleteData
  /\ test' = test + 1
  /\ Goto("experiment", "test")
  /\ UNCHANGED <<cpu, stateVars, flagVars, setting, started, after, consoleVars>>

\* experiment_state++ is a read and a write, and main has one, too.
ExperimentAdvance ==
  /\ \/ /\ At("experiment", "test") /\ test = ExperimentIteration
        /\ old' = [old EXCEPT !["experiment"] = experiment_state]
        /\ UNCHANGED experiment_state
        /\ Goto("experiment", "advance")
     \/ /\ At("experiment", "advance")
        /\ experiment_state' = old["experiment"] + 1
        /\ old' = [old EXCEPT !["experiment"] = 0]
        /\ Goto("experiment", "guard")
  /\ UNCHANGED <<computationVars, cpu, flagVars, testVars, consoleVars>>

\* measurements_stop, up to its wait for the thread.
measurements_stop == measuring' = IF measuring = "on" THEN "told" ELSE measuring

\* The end: winsocket_end and measurements_stop.
ExperimentFinish ==
  /\ \/ /\ At("experiment", "finished")
        /\ socket' = FALSE /\ measurements_stop
        /\ Goto("experiment", "join")
     \/ /\ At("experiment", "join") /\ measuring = "ended"
        /\ Goto("experiment", "ended")
        /\ UNCHANGED <<socket, measuring>>
  /\ UNCHANGED <<computationVars, cpu, stateVars, testVars, consoleVars,
                 experiment_continue, throttling_continue>>

experiment_proc ==
  \/ computation_wait
  \/ /\ \/ ExperimentGuard \/ ExperimentSwitch \/ ExperimentTest
        \/ computation_start \/ ExperimentFail
        \/ ExperimentIdle \/ ExperimentRate \/ ExperimentAdvance
        \/ ExperimentFinish
     /\ UNCHANGED waiting

\* measurements_proc ends when it is told to, or when it cannot send.
measurements_proc ==
  /\ measuring = "told" \/ (measuring = "on" /\ ~socket)
  /\ measuring' = "ended"
  /\ UNCHANGED <<computationVars, pc, cpu, stateVars, experiment_continue,
                 throttling_continue, socket, testVars, waiting, consoleVars>>

----------------------------------------------------------------------------
(***************************************************************************)
(* main.                                                                   *)
(***************************************************************************)
MainGuard ==
  /\ At("main", "guard")
  /\ Goto("main", IF experiment_state < EXP_END THEN "prompt" ELSE "resume")
  /\ UNCHANGED <<computationVars, cpu, stateVars, flagVars, testVars, consoleVars>>

\* A line comes in: enter, q, or something else.
Input ==
  /\ At("main", "prompt") /\ inputs < MaxInputs
  /\ inputs' = inputs + 1
  /\ \/ Goto("main", "skip") /\ skips' = skips + 1
     \/ Goto("main", "quit") /\ UNCHANGED skips
     \/ Goto("main", "guard") /\ UNCHANGED skips
  /\ UNCHANGED <<computationVars, cpu, stateVars, flagVars, testVars, killed>>

\* experiment_next_state, up to the computations it terminates.
experiment_next_state ==
  \/ /\ At("main", "next_state")
     /\ old' = [old EXCEPT !["main"] = experiment_state]
     /\ UNCHANGED experiment_state
     /\ Goto("main", "write_state")
  \/ /\ At("main", "write_state")
     /\ experiment_state' = old["main"] + 1
     /\ old' = [old EXCEPT !["main"] = 0]
     /\ Goto("main", "terminate")

\* It is called unless the experiment has ended meanwhile.
Skip ==
  /\ \/ /\ At("main", "skip") /\ experiment_state >= EXP_END
        /\ Goto("main", "quit") /\ UNCHANGED stateVars
     \/ /\ At("main", "skip") /\ experiment_state < EXP_END
        /\ Goto("main", "next_state") /\ UNCHANGED stateVars
     \/ experiment_next_state
  /\ UNCHANGED <<computationVars, cpu, flagVars, testVars, consoleVars>>

\* experiment_stop, before it terminates the computations and after.
Quit ==
  /\ \/ /\ At("main", "quit")
        /\ experiment_continue' = FALSE
        /\ Goto("main", "terminate")
     \/ /\ At("main", "experiment_join")
        /\ pc["experiment"] \in {"gone", "ended"}
        /\ Goto("main", "resume")
        /\ UNCHANGED experiment_continue
  /\ UNCHANGED <<computationVars, cpu, stateVars, testVars, consoleVars,
                 throttling_continue, socket, measuring>>

\* The end: throttling_stop, measurements_stop, winsocket_end.
MainEnd ==
  /\ \/ /\ At("main", "throttling_stop")
        /\ throttling_continue' = FALSE
        /\ pc' = [pc EXCEPT !["main"] = "measurements_stop",
                            !["throttling"] = "ended"]
        /\ UNCHANGED <<socket, measuring>>
     \/ /\ At("main", "measurements_stop")
        /\ measurements_stop /\ Goto("main", "measurements_join")
        /\ UNCHANGED <<socket, throttling_continue>>
     \/ /\ At("main", "measurements_join") /\ measuring = "ended"
        /\ socket' = FALSE
        /\ Goto("main", "ended")
        /\ UNCHANGED <<measuring, throttling_continue>>
  /\ UNCHANGED <<computationVars, cpu, stateVars, testVars, consoleVars,
                 experiment_continue>>

main == \/ MainGuard \/ Skip \/ Quit \/ MainEnd
        \/ computation_terminate("main",
             IF experiment_continue THEN "guard" ELSE "experiment_join")
        \/ computation_resume("main", "throttling_stop")

\* computation_proc of one thread.
computation_proc(t) ==
  /\ Compute(t) \/ ReturnFrom(t)
  /\ UNCHANGED <<pc, cpu, stateVars, flagVars, testVars, waiting, consoleVars>>

Next == \/ experiment_proc \/ measurements_proc
        \/ (main \/ Input \/ throttling_proc) /\ UNCHANGED waiting
        \/ \E t \in Thread : computation_proc(t)

Spec == Init /\ [][Next]_vars

\* The system runs every thread that can run, and a benchmark is finite: it
\* ends although it is suspended time and again.  Nobody needs to type.
FairSpec ==
  /\ Spec
  /\ WF_vars(experiment_proc) /\ WF_vars(measurements_proc)
  /\ WF_vars(main /\ UNCHANGED waiting)
  /\ WF_vars(throttling_proc /\ UNCHANGED waiting)
  /\ \A t \in Thread : SF_vars(computation_proc(t))

----------------------------------------------------------------------------
(***************************************************************************)
(* What the program promises.                                              *)
(***************************************************************************)

\* As long as nobody skips or quits, no two computations share a CPU, and none
\* runs on data that were deleted, however the throttling thread's accesses to
\* the table fall between those of the experiment thread
\* (computation_start, computation_wait, computation_suspend).
OneAtATime ==
  ~killed =>
    \A t \in Alive :
      /\ ~threads[t].freed
      /\ \A u \in Alive : threads[u].cpu = threads[t].cpu => u = t

\* After q at most the tests of one state are still started: those of the state
\* that was running, or of the one the experiment thread was about to begin
\* (experiment_continue is only looked at between two states).
QuitSoon == after <= ExperimentIteration

\* A computation that stays suspended for good, with nobody left who would
\* resume it: again and again the table does not call it suspended, or the
\* throttling thread has ended.
Forgotten(t) ==
  /\ <>[](threads[t].count > 0)
  /\ []<>(\/ computations[threads[t].cpu].state # "SUSPENDED"
          \/ pc["throttling"] = "ended")

\* The experiment thread ends, whatever is typed, unless a computation is
\* forgotten: the state = SUSPENDED of computation_suspend is overwritten by the
\* state = RUNNING of computation_start, wiped out by the computation_clear of
\* a computation_terminate that was meant for an earlier test, or comes after
\* throttling_stop.
Ends == \/ <>(pc["experiment"] \in {"gone", "ended"})
        \/ \E t \in Thread : Forgotten(t)

\* All tests of the experiment.
Tests == (0 .. EXP_LPC) \X (0 .. ExperimentIteration - 1)

\* An experiment that is finished has run every test, but for those of one state
\* for each time enter was pressed: not only the test that was to be skipped, as
\* main moves experiment_state on, and the thread does so again at its own end.
SkipCostsOneState ==
  pc["experiment"] = "finished" => Cardinality(Tests \ started) <= skips * ExperimentIteration
=============================================================================
