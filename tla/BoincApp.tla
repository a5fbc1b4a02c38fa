------------------------------ MODULE BoincApp ------------------------------
(***************************************************************************)
(* BoincApp::loop (client/BoincApp.cpp): the work unit is a row of         *)
(* milestones; each begins by saving its number in the slot directory,     *)
(* samples the sensors until its time is over and ends with a trickle.     *)
(* The BOINC client may stop the process at any step and start it again:   *)
(* only the files survive, and what is in them may be lost: no write is    *)
(* checked, and a file that cannot be read is taken for one that says 0    *)
(* (milestone) or for the default work (in).                               *)
(* Time is counted in ticks of the 0.5 s loop.                             *)
(***************************************************************************)
EXTENDS Sensors

CONSTANTS
  Milestones,        \* the number of milestones in the file `in' ...
  Seconds,           \* ... and the length of one, in ticks
  DefaultMilestones, \* the work of a process that cannot open `in' ...
  DefaultSeconds,    \* ... (4 milestones of 30 s)
  Ticks,             \* what boinc_elapsed_time may advance by during one pass
  MaxCrashes,        \* bound: times the process is stopped
  MaxForgotten       \* bound: times the saved number is lost

ASSUME WorkAssumption ==
  /\ {Milestones, Seconds, DefaultMilestones, DefaultSeconds} \subseteq Nat \ {0}
  /\ Ticks \subseteq Nat \ {0}
  /\ Ticks # {}
  /\ {MaxCrashes, MaxForgotten} \subseteq Nat

VARIABLES
  pc,            \* where the process is; "down" when there is none
  debug,         \* App::mDebug, set by main after the constructor
  milestone,     \* what file `milestone' says, 0 if it is missing or empty
  milestone_tmp, \* the same of file `milestone_tmp'
  out,           \* the milestones file `out' vouches for, 0 if it is not written
  milestones,    \* _milestones
  seconds,       \* _seconds
  start,         \* _start_milestone
  i,             \* the milestone in progress
  next,          \* index of the manager a loop over `managers' is at
  elapsed,       \* _t1 - _t0
  fraction,      \* last boinc_fraction_done, in ticks of the whole work unit
  crashes,       \* history: how often the process was stopped
  forgotten,     \* history: how often the saved number was lost
  closed,        \* history: milestones whose trickle was printed and accepted
  trickles,      \* history: the milestones of the trickles sent, in order
  delivered      \* history: delivered[s], what readers of them got for s

fileVars == <<milestone, milestone_tmp, out>>
historyVars == <<closed, trickles, delivered>>
workVars == <<milestones, seconds, start>>
appVars == <<pc, debug, workVars, i, next, elapsed, fraction, crashes, forgotten>>
vars == <<sensorVars, collectVars, fileVars, historyVars, appVars>>

PC == {"down", "save", "rename", "loop", "update", "collect", "print",
       "finalize", "write", "finish", "done", "failed"}
Running == PC \ {"down", "done", "failed"}
InMilestone == {"save", "rename", "loop", "update", "collect", "print"}

\* The work a process may set out to do, the milestones there can be, and the
\* length of the work unit for the process that runs.
Work == {<<Milestones, Seconds>>, <<DefaultMilestones, DefaultSeconds>>}
Longest == IF Milestones < DefaultMilestones THEN DefaultMilestones ELSE Milestones
Milestone == 0 .. Longest - 1
WorkUnit == seconds * milestones

AppTypeOK ==
  /\ pc \in PC
  /\ debug \in BOOLEAN
  /\ {milestone, milestone_tmp, start} \subseteq Milestone
  /\ out \in {0, Milestones, DefaultMilestones}
  /\ <<milestones, seconds>> \in Work
  /\ i \in 0 .. Longest
  /\ next \in 1 .. Len(ManagerSeq) + 1
  /\ {elapsed, fraction, crashes, forgotten} \subseteq Nat
  /\ closed \subseteq Milestone
  /\ trickles \in Seq(Milestone)
  /\ delivered \in [Sensor -> Seq(Point)]

TypeOK == AppTypeOK /\ DataTypeOK /\ ListTypeOK

Init ==
  /\ pc = "down"
  /\ debug \in BOOLEAN
  /\ milestone = 0 /\ milestone_tmp = 0 /\ out = 0
  /\ milestones = Milestones /\ seconds = Seconds
  /\ start = 0 /\ i = 0 /\ next = 1 /\ elapsed = 0 /\ fraction = 0
  /\ crashes = 0 /\ forgotten = 0
  /\ closed = {} /\ trickles = <<>>
  /\ delivered = [s \in Sensor |-> <<>>]
  /\ m_sensors = [m \in Manager |-> <<>>]
  /\ m_datapoints = [s \in Sensor |-> <<>>]
  /\ m_firstDatapoint = [s \in Sensor |-> TRUE]
  /\ m_error = [m \in Manager |-> FALSE]
  /\ m_error_reported = [m \in Manager |-> FALSE]
  /\ taken = [s \in Sensor |-> 0]
  /\ sensors = <<>> /\ errors = {}

----------------------------------------------------------------------------
\* The saved number is lost, unless it was 0 anyway.
Forget(saved) ==
  /\ saved # 0 /\ forgotten < MaxForgotten
  /\ forgotten' = forgotten + 1

\* Mutant: the number get_milestone returns is not used.
GetMilestoneUnused == start' = 0 /\ UNCHANGED forgotten

\* get_milestone: what the file says; 0 if it cannot be opened or read.
GetMilestone ==
  \/ start' = milestone /\ UNCHANGED forgotten
  \/ start' = 0 /\ Forget(milestone)

\* The constructor: the work is read from `in', or is the default if that cannot
\* be opened; BOINC is told the fraction and the managers are registered.  What
\* fails on the way (boinc_init, the names of the files, an `in' that makes no
\* sense) fails the result.
Start ==
  /\ pc = "down"
  /\ \/ /\ \E work \in Work : milestones' = work[1] /\ seconds' = work[2]
        /\ GetMilestone
        /\ i' = start'
        /\ elapsed' = 0
        /\ next' = 1
        /\ fraction' = seconds' * start'
        /\ NewManagers
        /\ pc' = IF i' < milestones' THEN "save" ELSE "finalize"
     \/ /\ pc' = "failed"
        /\ UNCHANGED <<workVars, i, next, elapsed, fraction, forgotten, sensorVars,
                       collectVars>>
  /\ UNCHANGED <<debug, crashes, fileVars, historyVars>>

\* Mutant: the milestone that comes next is saved.
SaveTmpNext ==
  /\ pc = "save"
  /\ pc' = "rename"
  /\ milestone_tmp' = i + 1
  /\ UNCHANGED <<debug, workVars, i, next, elapsed, fraction, crashes, forgotten,
                 milestone, out, historyVars, sensorVars, collectVars>>

\* save_milestone: milestone_tmp is written first; that the write succeeds is not
\* checked, only that the file could be opened ...
SaveTmp ==
  /\ pc = "save"
  /\ \/ pc' = "rename" /\ milestone_tmp' = i /\ UNCHANGED forgotten
     \/ pc' = "rename" /\ milestone_tmp' = 0 /\ Forget(i)
     \/ pc' = "failed" /\ UNCHANGED <<milestone_tmp, forgotten>>
  /\ UNCHANGED <<debug, workVars, i, next, elapsed, fraction, crashes, milestone,
                 out, historyVars, sensorVars, collectVars>>

\* ... and then replaces milestone.
Rename ==
  /\ pc = "rename"
  /\ \/ pc' = "loop" /\ milestone' = milestone_tmp /\ milestone_tmp' = 0
     \/ pc' = "failed" /\ UNCHANGED <<milestone, milestone_tmp>>
  /\ UNCHANGED <<debug, workVars, i, next, elapsed, fraction, crashes, forgotten,
                 out, historyVars, sensorVars, collectVars>>

Position == seconds * start + elapsed

\* The test of the inner loop, and the fraction reported when it is entered.
LoopTest ==
  /\ pc = "loop"
  /\ next' = 1
  /\ \/ /\ Position < seconds * (i + 1)
        /\ fraction' = Position
        /\ pc' = "update"
        /\ UNCHANGED collectVars
     \/ /\ Position >= seconds * (i + 1)
        /\ pc' = "collect"
        /\ sensors' = <<>> /\ errors' = {}
        /\ UNCHANGED fraction
  /\ UNCHANGED <<debug, workVars, i, elapsed, crashes, forgotten, fileVars,
                 historyVars, sensorVars>>

\* Sensors::update, one manager after the other, ...
UpdateManager ==
  /\ pc = "update"
  /\ next <= Len(ManagerSeq)
  /\ UpdateSensors(ManagerSeq[next])
  /\ next' = next + 1
  /\ UNCHANGED <<pc, debug, workVars, i, elapsed, fraction, crashes, forgotten,
                 fileVars, historyVars, collectVars>>

\* Mutant: _t1 is not read again after the wait.
WaitStale ==
  /\ pc = "update"
  /\ next > Len(ManagerSeq)
  /\ pc' = "loop"
  /\ UNCHANGED <<debug, workVars, i, next, elapsed, fraction, crashes, forgotten,
                 fileVars, historyVars, sensorVars, collectVars>>

\* ... then the wait, and _t1 = boinc_elapsed_time().
Wait ==
  /\ pc = "update"
  /\ next > Len(ManagerSeq)
  /\ \E d \in Ticks : elapsed' = elapsed + d
  /\ pc' = "loop"
  /\ UNCHANGED <<debug, workVars, i, next, fraction, crashes, forgotten, fileVars,
                 historyVars, sensorVars, collectVars>>

\* Sensors::print_datapoints: add_sensors, one manager after the other, ...
CollectManager ==
  /\ pc = "collect"
  /\ next <= Len(ManagerSeq)
  /\ AddSensors(ManagerSeq[next])
  /\ next' = next + 1
  /\ pc' = IF next = Len(ManagerSeq) THEN "print" ELSE "collect"
  /\ UNCHANGED <<debug, workVars, i, elapsed, fraction, crashes, forgotten, fileVars,
                 historyVars>>

\* The end of iteration i of the loop over the milestones.
CloseMilestone ==
  /\ closed' = closed \union {i}
  /\ i' = i + 1
  /\ pc' = IF i + 1 < milestones THEN "save" ELSE "finalize"

\* ... the trickle is printed, its datapoints are cleared, and it is sent
\* unless it is empty or the program only shows it (debug).
PrintAndSend ==
  /\ pc = "print"
  /\ ClearPrinted
  /\ \/ /\ debug \/ (~HasDatapoints /\ errors = {})
        /\ CloseMilestone
        /\ UNCHANGED <<trickles, delivered>>
     \/ /\ ~debug /\ (HasDatapoints \/ errors # {})
        /\ CloseMilestone
        /\ trickles' = Append(trickles, i)
        /\ delivered' = [s \in Sensor |-> delivered[s] \o DecodedFor(s)]
     \/ /\ ~debug /\ (HasDatapoints \/ errors # {})
        /\ pc' = "failed"
        /\ UNCHANGED <<i, historyVars>>
  /\ UNCHANGED <<debug, workVars, next, elapsed, fraction, crashes, forgotten,
                 fileVars, m_sensors, m_firstDatapoint, m_error, m_error_reported, taken,
                 collectVars>>

\* finalize: the managers are released and `out' is opened, which empties it, ...
Finalize ==
  /\ pc = "finalize"
  /\ \/ pc' = "write" /\ out' = 0
     \/ pc' = "failed" /\ UNCHANGED out
  /\ NoManagers
  /\ UNCHANGED <<debug, workVars, i, next, elapsed, fraction, crashes, forgotten,
                 milestone, milestone_tmp, historyVars>>

\* ... it is written, which may fail unnoticed, ...
WriteOut ==
  /\ pc = "write"
  /\ pc' = "finish"
  /\ out' \in {milestones, 0}
  /\ UNCHANGED <<debug, workVars, i, next, elapsed, fraction, crashes, forgotten,
                 milestone, milestone_tmp, historyVars, sensorVars, collectVars>>

\* ... and BOINC is told: boinc_fraction_done(1), boinc_finish(0).
Finish ==
  /\ pc = "finish"
  /\ pc' = "done"
  /\ fraction' = WorkUnit
  /\ UNCHANGED <<debug, workVars, i, next, elapsed, crashes, forgotten, fileVars,
                 historyVars, sensorVars, collectVars>>

\* The process is stopped between any two steps and loses its memory.
Crash ==
  /\ pc \in Running
  /\ crashes < MaxCrashes
  /\ crashes' = crashes + 1
  /\ pc' = "down"
  /\ NoManagers
  /\ UNCHANGED <<debug, workVars, i, next, elapsed, fraction, forgotten, fileVars,
                 historyVars>>

Step == \/ Start \/ SaveTmp \/ Rename \/ LoopTest \/ UpdateManager \/ Wait
        \/ CollectManager \/ PrintAndSend \/ Finalize \/ WriteOut \/ Finish

\* The process is over: BOINC does not start a finished or failed result again.
Over == pc \in {"done", "failed"} /\ UNCHANGED vars

Next == Step \/ Crash \/ Over

Spec == Init /\ [][Next]_vars

\* The operating system runs the process and the BOINC client restarts it.
FairSpec == Spec /\ WF_vars(Step)

----------------------------------------------------------------------------
(***************************************************************************)
(* What the client promises.                                               *)
(***************************************************************************)

\* A series is readable if it opens with the NaN, its measurements come in the
\* order they were made, and every hole is marked by a NaN.
Readable(series) ==
  /\ series # <<>> => series[1] = Null
  /\ \A j, k \in DOMAIN series :
       /\ j < k /\ series[j] # Null /\ series[k] # Null => series[j] < series[k]
       /\ k = j + 1 /\ series[j] # Null /\ series[k] # Null
            => series[k] = series[j] + 1

\* Whatever is lost (a process stopped, a result that paused, a trickle that
\* could not be sent), the server never receives a series with a hole it cannot
\* see, a measurement twice, out of order, or under another sensor's name:
\* push_back's NaN, the clear after printing and the index of the two lists.
NoSilentGap == \A s \in Sensor : Readable(delivered[s])

\* What makes it inductive: what was delivered and what is buffered continue
\* each other, up to the last measurement made.
Series(s) == delivered[s] \o m_datapoints[s]

SeriesOK(s) ==
  /\ Readable(Series(s))
  /\ \A j \in DOMAIN Series(s) : Series(s)[j] <= taken[s]
  /\ IF m_firstDatapoint[s]
     THEN m_datapoints[s] = <<>>
     ELSE /\ Series(s) # <<>>
          /\ Series(s)[Len(Series(s))] = taken[s]
          /\ taken[s] # 0

SeriesInv ==
  /\ debug => \A s \in Sensor : delivered[s] = <<>>
  /\ NoSilentGap
  /\ ~debug /\ pc # "failed" => \A s \in Sensor : SeriesOK(s)

\* The files never run ahead of the trickles: every milestone before the saved
\* one has had its trickle, and so has every one that `out' vouches for.
NothingSkipped ==
  /\ \A m \in 0 .. milestone - 1 : m \in closed
  /\ \A m \in 0 .. out - 1 : m \in closed

\* The places of a row of trickles where it does not go on, and where it goes back.
Again(row) == {j \in 1 .. Len(row) - 1 : row[j] >= row[j + 1]}
Back(row) == {j \in 1 .. Len(row) - 1 : row[j] > row[j + 1]}

\* Trickles leave in the order of the milestones and once for each, but for one
\* place per stop of the process; and there they go back behind a milestone that
\* was already reported only if the saved number was lost.
RepeatedOnlyByCrash ==
  /\ Cardinality(Again(trickles)) <= crashes
  /\ Cardinality(Back(trickles)) <= forgotten

\* BOINC is told that the work is complete only when no milestone of the work this
\* process knows of is missing, however far the clock jumps in one pass.
CompleteMeansDone == fraction >= WorkUnit => 0 .. milestones - 1 \subseteq closed

\* What makes the first property inductive: how the milestone in progress is
\* related to the files and to the closed milestones at each point of the program.
ProgressInv ==
  /\ pc \in InMilestone => i < milestones
  /\ pc = "rename" => milestone_tmp \in {i, 0}
  /\ pc \in Running => 0 .. i - 1 \subseteq closed
  /\ pc \in {"finalize", "write", "finish"} => i >= milestones
  /\ 0 .. milestone - 1 \subseteq closed
  /\ 0 .. out - 1 \subseteq closed
  /\ \E m \in 0 .. Longest : closed = 0 .. m - 1
  /\ CompleteMeansDone
  /\ pc = "done" => 0 .. milestones - 1 \subseteq closed

\* Once a manager with a fixed set of sensors has reported its error, no data
\* of its sensors leaves this process any more, not even what was buffered.
SilentAfterError ==
  [][\A m \in Manager \ {BoincManager}, s \in Sensor :
       pc = "print" /\ m_error_reported[m] /\ m \notin errors
         /\ s \in Elements(SensorSeq[m])
       => delivered'[s] = delivered[s]]_vars

\* What BOINC sees is the story of WorkUnit; under FairSpec, where the process is
\* stopped only finitely often, the work unit also ends.
WU == INSTANCE WorkUnit WITH
        Lengths <- {Milestones, DefaultMilestones},
        saved <- milestone,
        reported <- closed,
        state <- IF pc = "done" THEN "complete"
                 ELSE IF pc = "failed" THEN "failed" ELSE "open"

ImplementsWorkUnit == WU!FairSpec
============================================================================
