---------------------------- MODULE LoadSensors ----------------------------
(***************************************************************************)
(* The loads that the client reads from /proc on Linux (CpuLoad.cpp,       *)
(* BoincCpuLoad.cpp, UsersCpuLoad.cpp), in the loop of MeasureApp.  Every  *)
(* half second the managers are asked to update; every m_update_period     *)
(* seconds of the wall clock each makes a datapoint of what the counters   *)
(* of the kernel gained since its last one.  The three know nothing of     *)
(* each other, so that one at a time is enough.                            *)
(*                                                                         *)
(* Real time passes in half seconds, in each of which every CPU works for  *)
(* one process or is idle.  A half second is one tick of the counters      *)
(* (m_clk_tck = 2): the loads are fractions of such ticks.                 *)
(***************************************************************************)
EXTENDS Integers, FiniteSets, FiniteSetsExt, Functions

CONSTANTS
  Pid,
  m_update_period,        \* seconds between two datapoints, 5 in the code
  send_trickle_interval,  \* half seconds between two trickles, 90 in the code
  Bits,                   \* width of the unsigned counters of a process
  MaxReal, MaxBirths, MaxLogins,  \* bounds
  ClockSteps              \* half seconds by which the wall clock may be set, once

\* The counters of a process do not come round between two datapoints: 5 seconds of
\* the code against 32 bits.
LoadAssumption ==
  /\ m_update_period \in Nat \ {0} /\ send_trickle_interval \in Nat \ {0}
  /\ Bits \in Nat /\ 2 * m_update_period < 2 ^ Bits
  /\ {MaxReal, MaxBirths, MaxLogins} \subseteq Nat
  /\ ClockSteps \subseteq Int

VARIABLES
  manager,  \* which of the three it is
  real,     \* half seconds since the start
  offset,   \* the wall clock is this far ahead, in half seconds
  proc,     \* the processes: a function of the pids in use
  idle,     \* the idle counter of /proc/stat
  logged,   \* is the user logged in?
  m_error, m_update_time, m_record_time,
  m_stat,           \* of "cpu": the idle counter at its last datapoint
  m_stat_history,   \* of the others: the counters of their processes, by pid
  last,     \* the last datapoint, which the application may have printed
            \* (the list of those that it did not is in the module Sensors)
  trickle,  \* when the last trickle was printed
  polled,   \* Sensors::update was called in this half second
  births, logins, clockSet,   \* history, for the bounds
  before    \* history: what there was at the last datapoint; and whether and how far
            \* back the wall clock was set since then

sensorVars == <<m_error, m_update_time, m_record_time, m_stat, m_stat_history, last>>
systemVars == <<proc, idle, logged, births, logins>>
clockVars == <<offset, clockSet>>
vars == <<manager, real, clockVars, sensorVars, before, systemVars, trickle, polled>>

User == {"boinc", "user"}
Cpus == 1

time == (real + offset) \div 2
rounded_t == (time \div m_update_period) * m_update_period

\* A process has an identity, which its pid is not.
Process == [uid : User, born : Nat, used : Nat]

TypeOK ==
  /\ manager \in {"cpu", "boinc", "users"}
  /\ real \in Nat /\ offset \in Int /\ idle \in Nat /\ logged \in BOOLEAN
  /\ DOMAIN proc \subseteq Pid /\ \A p \in DOMAIN proc : proc[p] \in Process
  /\ m_error \in BOOLEAN /\ {m_update_time, m_record_time, m_stat} \subseteq Nat
  /\ DOMAIN m_stat_history \subseteq Pid
  /\ Cardinality(last) <= 1 /\ polled \in BOOLEAN /\ clockSet \in BOOLEAN

----------------------------------------------------------------------------
(***************************************************************************)
(* The system.                                                             *)
(***************************************************************************)

\* Half a second for a process, or idle.  A manager in error does nothing more.  A
\* run that waits because the clock was set back is as much longer.
Run(p) ==
  /\ polled /\ real < MaxReal + before.back /\ ~m_error
  /\ IF p \in DOMAIN proc
     THEN proc' = [proc EXCEPT ![p].used = @ + 1] /\ idle' = idle
     ELSE idle' = idle + 1 /\ proc' = proc
  /\ real' = real + 1 /\ polled' = FALSE
  /\ UNCHANGED <<manager, clockVars, sensorVars, before, logged, births, logins, trickle>>

\* What else happens in a half second comes first.
System(change) ==
  /\ polled /\ change
  /\ UNCHANGED <<manager, real, clockVars, sensorVars, before, idle, trickle, polled>>

\* A process whose name has a `)' cannot be read (ProcessStat::read), as the name
\* ends for it where the number of the parent should follow: it counts as little as
\* that of a user who is not logged in.
Fork(p, uid) ==
  System(/\ p \notin DOMAIN proc /\ births < MaxBirths
         /\ births' = births + 1
         /\ proc' = [q \in DOMAIN proc \cup {p} |->
              IF q = p THEN [uid |-> uid, born |-> births', used |-> 0] ELSE proc[q]]
         /\ UNCHANGED <<logged, logins>>)

Exit(p) ==
  System(/\ p \in DOMAIN proc
         /\ proc' = [q \in DOMAIN proc \ {p} |-> proc[q]]
         /\ UNCHANGED <<births, logged, logins>>)

LogInOrOut ==
  System(/\ logins < MaxLogins
         /\ logged' = ~logged /\ logins' = logins + 1
         /\ UNCHANGED <<proc, births>>)

SetClock(d) ==
  /\ polled /\ ~clockSet
  /\ offset' = offset + d /\ clockSet' = TRUE
  /\ before' = [before EXCEPT !.jump = TRUE, !.back = Max({0, -d})]
  /\ UNCHANGED <<manager, real, sensorVars, systemVars, trickle, polled>>

----------------------------------------------------------------------------
(***************************************************************************)
(* The manager.                                                            *)
(***************************************************************************)

\* Whose processes a manager counts: those of the users in utmp, or of boinc.
Users ==
  CASE manager = "boinc" -> {"boinc"}
    [] manager = "users" -> IF logged THEN {"user"} ELSE {}
    [] OTHER -> {}

\* ProcessStat::read for each number in /proc that belongs to one of them.
Visible == [p \in {p \in DOMAIN proc : proc[p].uid \in Users} |-> proc[p]]
utime(processes) == [p \in DOMAIN processes |-> processes[p].used]

\* Unsigned subtraction.
Minus(x, y) == (x - y) % 2 ^ Bits

\* The counters of the processes that were there the last time too, by pid.
Gained(was) ==
  SumFunction([p \in DOMAIN Visible \cap DOMAIN was |-> Minus(utime(Visible)[p], was[p])])

\* The same by identity: what a datapoint is about.
Same == {p \in DOMAIN Visible \cap DOMAIN before.proc : before.proc[p].born = proc[p].born}
Used == SumFunction([p \in Same |-> proc[p].used - before.proc[p].used])
Reused == (DOMAIN Visible \cap DOMAIN before.proc) \ Same # {}

\* The ticks of the datapoint are divided by those of the seconds between it and
\* the one before.  The rest of the record is history.
Datapoint(ticks) ==
  [time |-> rounded_t, ticks |-> ticks, seconds |-> time - m_record_time,
   after |-> before.time,
   used |-> IF manager = "cpu" THEN idle - before.idle ELSE Used,
   passed |-> real - before.real,
   sound |-> ~before.jump /\ ~Reused]

\* 1.0 - idle, where idle is cut off at 1.0.
BusyTicks ==
  LET all == 2 * Cpus * (time - m_record_time)
  IN all - Min({all, idle - m_stat})

\* Mutant: a datapoint is due after the period, not at its end.
DueLate == ~m_error /\ time > m_update_time + m_update_period

Due == ~m_error /\ time >= m_update_time + m_update_period

\* /proc or /proc/stat cannot be read, which is for good.
Unreadable ==
  /\ m_error' = TRUE
  /\ UNCHANGED <<m_record_time, m_stat, m_stat_history, last, before>>

\* Mutant: what is known of a process stays when it is not seen.
ReadKeeps ==
  /\ last' = IF m_record_time = 0 THEN last
             ELSE {Datapoint(IF manager = "cpu" THEN BusyTicks ELSE Gained(m_stat_history))}
  /\ m_record_time' = time
  /\ m_stat' = IF manager = "cpu" THEN idle ELSE m_stat
  /\ m_stat_history' = [p \in DOMAIN m_stat_history \cup DOMAIN Visible |->
       IF p \in DOMAIN Visible THEN utime(Visible)[p] ELSE m_stat_history[p]]
  /\ before' = [proc |-> Visible, idle |-> idle, real |-> real, time |-> rounded_t,
                jump |-> FALSE, back |-> 0]
  /\ m_error' = FALSE

Read ==
  /\ last' = IF m_record_time = 0 THEN last
             ELSE {Datapoint(IF manager = "cpu" THEN BusyTicks ELSE Gained(m_stat_history))}
  /\ m_record_time' = time
  /\ m_stat' = IF manager = "cpu" THEN idle ELSE m_stat
  /\ m_stat_history' = utime(Visible)
  /\ before' = [proc |-> Visible, idle |-> idle, real |-> real, time |-> rounded_t,
                jump |-> FALSE, back |-> 0]
  /\ m_error' = FALSE

\* The manager of the users does not look at /proc while nobody is logged in.
update_sensors ==
  IF Due
  THEN /\ m_update_time' = time
       /\ Read \/ (Unreadable /\ (manager = "users" => logged))
  ELSE UNCHANGED <<sensorVars, before>>

----------------------------------------------------------------------------
(***************************************************************************)
(* MeasureApp::loop.                                                       *)
(***************************************************************************)

\* The boinc manager is in error from its constructor on when BOINC does not run.
Init ==
  /\ manager \in {"cpu", "boinc", "users"}
  /\ real = 0 /\ offset \in {40, 41} /\ idle = 0 /\ logged \in BOOLEAN
  /\ proc \in UNION {[P -> [uid : User, born : {0}, used : {0}]] :
                    P \in {{}} \cup {{p} : p \in Pid}}
  /\ m_error \in {FALSE, manager = "boinc"}
  /\ m_update_time = 0 /\ m_record_time = 0 /\ m_stat = 0 /\ m_stat_history = <<>>
  /\ last = {}
  /\ trickle = 0 /\ polled = FALSE
  /\ births = 0 /\ logins = 0 /\ clockSet = FALSE
  /\ before = [proc |-> <<>>, idle |-> 0, real |-> 0, time |-> 0,
               jump |-> FALSE, back |-> 0]

\* Every half second Sensors::update, or, when the interval is over,
\* Sensors::print_datapoints: add_sensors updates too, and what is printed is
\* removed.  The application does nothing with what it printed.
Update ==
  /\ ~polled
  /\ real - trickle < send_trickle_interval
  /\ update_sensors
  /\ polled' = TRUE
  /\ UNCHANGED <<manager, real, clockVars, systemVars, trickle>>

print_datapoints ==
  /\ ~polled
  /\ real - trickle >= send_trickle_interval
  /\ update_sensors
  /\ trickle' = real
  /\ UNCHANGED <<manager, real, clockVars, systemVars, polled>>

Next ==
  \/ \E p \in Pid \cup {"idle"} : Run(p)
  \/ \E p \in Pid, u \in User : Fork(p, u)
  \/ \E p \in Pid : Exit(p)
  \/ LogInOrOut
  \/ \E d \in ClockSteps : SetClock(d)
  \/ Update \/ print_datapoints

Spec == Init /\ [][Next]_vars

----------------------------------------------------------------------------
(***************************************************************************)
(* Properties.                                                             *)
(***************************************************************************)

\* The datapoints of the loads of processes count exactly what the processes
\* used that were there at the datapoint before, nothing twice and nothing from
\* before it, whoever logged in or out and whatever ended in between; that of
\* the machine is within a tick of what it worked; and none is above the ticks
\* of one second more than it is divided by.  Not so if the clock was set in
\* between, or the pid of a process that ended was given to another: its
\* counters are subtracted then as if they were those of the first.
LoadIsUse ==
  \A d \in last :
    d.sound => /\ IF manager = "cpu" THEN d.ticks - (d.passed - d.used) \in -1 .. 1
                  ELSE d.ticks = d.used
               /\ d.ticks < 2 * Cpus * (d.seconds + 1)

\* A manager that found /proc readable is never silent for longer than its
\* period, the second in which it ends, and what the wall clock was set back since
\* its last datapoint.
GapsBounded == ~m_error => real - before.real <= 2 * m_update_period + 1 + before.back

\* Two datapoints of one sensor never have the same rounded time, nor one
\* before that of its predecessor, even if the wall clock is set back.
TimesIncrease == \A d \in last : d.after < d.time
============================================================================
