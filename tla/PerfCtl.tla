------------------------------- MODULE PerfCtl -------------------------------
(***************************************************************************)
(* The frequency driver's table of CPUs (pCPUDB), the requests that        *)
(* applications make of it (windowsdriver/entry.c, FPFilterGenericIrp) and *)
(* the thread that keeps the CPUs at the P-states asked for until nobody   *)
(* has asked for too long (windowsdriver/Thread.c).  How the device is     *)
(* added, opened, stopped and removed is in module LPCFilter.              *)
(*                                                                         *)
(* P-state 0 is the fastest.  `broken' stops the model: an access through a *)
(* null pointer (null) or to what is freed (freed), or something for which *)
(* the driver does not provide and from which it does not protect itself   *)
(* (unprovided).  ULONGs are counted modulo Word.  ThreadDelay, by which    *)
(* the thread divides when it starts, is never set to 0.                   *)
(***************************************************************************)
EXTENDS Integers

CONSTANTS
  NumProcs,      \* KeQueryActiveProcessorCount
  PStates,       \* P-states that the firmware lists
  Word,          \* 2^32 in the code
  FailureLimit,  \* StayAliveFailureLimit, 50 until somebody sets it
  MaxExceptions, \* 10 in the code
  MaxRequests    \* bound: requests that change something

ASSUME PerfCtlAssumption ==
  /\ NumProcs \in Nat \ {0} /\ PStates \in Nat \ {0} /\ Word \in Nat \ {0}
  /\ FailureLimit \in 1 .. Word - 2
  /\ MaxExceptions \in Nat /\ MaxRequests \in Nat

CPU == 0 .. NumProcs - 1
PState == 0 .. PStates - 1
FREE == -1  \* 0xFFFFFFFF: nobody manages the CPU
ULONG == 0 .. Word - 1
Limits == {0, Word - 1}  \* the limits that applications set

VARIABLES
  tables,    \* which of pCPUDB, pPSSData and pStats are allocated
  FFHW,      \* PCTAccessType is ADDRESS_SPACE_FFHW: MSRs are written
  pCPUDB,    \* for each CPU, PState and StayAliveCount
  StayAliveFailureLimit,  \* of Config
  ThreadGo,
  thread,    \* the thread: where it is and its locals
  speed,     \* the P-state last written to the MSR of a CPU
  broken,
  requests,  \* how many requests there were
  unreset,   \* the CPU whose StayAliveCount the request at work is still to
             \* reset, under AppLock, or NONE
  grant,     \* history: what was granted for a CPU last, and how many cycles
             \* of the thread have begun since
  misuse     \* history: what happened that the driver does not provide for

perfVars == <<tables, FFHW, pCPUDB, StayAliveFailureLimit, ThreadGo, thread,
              speed, broken, requests, unreset, grant, misuse>>

\* slow: a CPU may be left slow; limit: the limit was changed.
Misuse == {"slow", "limit"}
NONE == -1

Entry == [PState : PState \cup {FREE}, StayAliveCount : ULONG]
Granted == [PState : PState \cup {FREE}, age : 0 .. FailureLimit]
ThreadState ==
  [pc : {"none", "start", "loop", "sample", "check", "find", "count", "set", "ended"},
   x : CPU, lo : PState, StayAlive : ULONG, Limit : ULONG,
   Exceptions : 0 .. MaxExceptions + 1]

PerfTypeOK ==
  /\ tables \subseteq {"CPUDB", "PSS", "Stats"}
  /\ FFHW \in BOOLEAN
  /\ pCPUDB \in [CPU -> Entry]
  /\ StayAliveFailureLimit \in ULONG
  /\ ThreadGo \in BOOLEAN
  /\ thread \in ThreadState
  /\ speed \in [CPU -> PState]
  /\ broken \in {"no", "null", "freed", "unprovided"}
  /\ requests \in 0 .. MaxRequests
  /\ unreset \in CPU \cup {NONE}
  /\ grant \in [CPU -> Granted]
  /\ misuse \subseteq Misuse

NoThread == [pc |-> "none", x |-> 0, lo |-> 0, StayAlive |-> 0, Limit |-> 0,
             Exceptions |-> 0]
NoGrant == [PState |-> FREE, age |-> 0]
FreeCPUs == [c \in CPU |-> [PState |-> FREE, StayAliveCount |-> 0]]

\* Nothing is allocated; FPFilterAddDevice sets the defaults of Config.
PerfInit ==
  /\ tables = {} /\ FFHW = FALSE
  /\ pCPUDB = FreeCPUs
  /\ StayAliveFailureLimit = FailureLimit
  /\ ThreadGo = FALSE /\ thread = NoThread
  /\ speed = [c \in CPU |-> 0]
  /\ broken = "no" /\ requests = 0 /\ unreset = NONE
  /\ grant = [c \in CPU |-> NoGrant]
  /\ misuse = {}

ThreadRuns == thread.pc \notin {"none", "ended"}

----------------------------------------------------------------------------
(***************************************************************************)
(* Requests, each under AppLock.                                           *)
(***************************************************************************)
\* A request is granted: the state is set; the stay alive count is reset next.
\* Mutant: the count is not reset.
GrantKeepCount(c, p) ==
  /\ pCPUDB' = [pCPUDB EXCEPT ![c].PState = p]
  /\ grant' = [grant EXCEPT ![c] = [PState |-> p, age |-> 0]]
  /\ UNCHANGED unreset

Grant(c, p) ==
  /\ pCPUDB' = [pCPUDB EXCEPT ![c].PState = p]
  /\ grant' = [grant EXCEPT ![c] = [PState |-> p, age |-> 0]]
  /\ unreset' = c

\* The check of ProcNum lets NumProcs pass.
BadAccess(c) ==
  \/ /\ "CPUDB" \notin tables
     /\ broken' = "null"
  \/ /\ "CPUDB" \in tables /\ c = NumProcs
     /\ broken' = "unprovided"

\* 0xFFFFFFFF is not refused: the CPU is nobody's, as fast or slow as it is.
Noted(p) == misuse \cup (IF p = FREE THEN {"slow"} ELSE {})

\* IOCTL_LPC_FLTR_SET_CPU_PSTATE: refused if the CPU is at another state.
SetPState(c, p) ==
  \/ BadAccess(c) /\ UNCHANGED <<pCPUDB, grant, unreset, misuse>>
  \/ /\ "CPUDB" \in tables /\ c \in CPU
     /\ pCPUDB[c].PState \in {FREE, p}
     /\ Grant(c, p)
     /\ misuse' = Noted(p) /\ UNCHANGED broken

\* IOCTL_LPC_FLTR_SETNOW_CPU_PSTATE
SetNowPState(c, p) ==
  \/ BadAccess(c) /\ UNCHANGED <<pCPUDB, grant, unreset, misuse>>
  \/ /\ "CPUDB" \in tables /\ c \in CPU
     /\ Grant(c, p)
     /\ misuse' = Noted(p) /\ UNCHANGED broken

\* IOCTL_LPC_FLTR_SET_CFG
SetConfig(limit) ==
  /\ StayAliveFailureLimit' = limit
  /\ misuse' = misuse \cup {"limit"}

Request ==
  /\ requests < MaxRequests /\ unreset = NONE
  /\ requests' = requests + 1
  /\ \/ \E c \in CPU \cup {NumProcs}, p \in PState \cup {FREE} :
          /\ SetPState(c, p) \/ SetNowPState(c, p)
          /\ UNCHANGED StayAliveFailureLimit
     \/ /\ \E limit \in Limits : SetConfig(limit)
        /\ UNCHANGED <<pCPUDB, grant, unreset, broken>>
  /\ UNCHANGED <<tables, FFHW, ThreadGo, thread, speed>>

\* The second half of a request that is granted; the thread does not take AppLock
\* and may have been at the CPU in between.
ResetCount ==
  /\ unreset # NONE /\ unreset' = NONE
  /\ \/ /\ "CPUDB" \in tables
        /\ pCPUDB' = [pCPUDB EXCEPT ![unreset].StayAliveCount = 0]
        /\ UNCHANGED broken
     \/ "CPUDB" \notin tables /\ broken' = "null" /\ UNCHANGED pCPUDB
  /\ UNCHANGED <<tables, FFHW, StayAliveFailureLimit, ThreadGo, thread, speed,
                 requests, grant, misuse>>

----------------------------------------------------------------------------
(***************************************************************************)
(* PerfCtlThread.                                                          *)
(***************************************************************************)
\* 1000 / ThreadDelay
ThreadStart ==
  /\ thread.pc = "start"
  /\ thread' = [thread EXCEPT !.pc = "loop"]
  /\ UNCHANGED <<pCPUDB, ThreadGo, speed, broken, grant, misuse>>

Older(g) == IF g.age < FailureLimit THEN [g EXCEPT !.age = @ + 1] ELSE g

ThreadLoop ==
  /\ thread.pc = "loop"
  /\ \/ /\ ThreadGo
        /\ thread' = [thread EXCEPT !.pc = "sample", !.x = 0]
        /\ grant' = [c \in CPU |-> Older(grant[c])]
     \/ /\ ~ThreadGo
        /\ thread' = [thread EXCEPT !.pc = "ended"]
        /\ UNCHANGED grant
  /\ UNCHANGED <<pCPUDB, ThreadGo, speed, broken, misuse>>

\* Reading or writing an MSR raised an exception.
MsrException(next) ==
  /\ thread' = [next EXCEPT !.Exceptions =
                  IF @ <= MaxExceptions THEN @ + 1 ELSE @]
  /\ ThreadGo' = (ThreadGo /\ next.Exceptions < MaxExceptions)
  /\ misuse' = misuse \cup {"slow"}

\* The statistics of a CPU: the tables they need, and what may go wrong.
ThreadSample ==
  /\ thread.pc = "sample"
  /\ LET next == [thread EXCEPT !.pc = "check"] IN
     \/ thread' = next /\ UNCHANGED <<ThreadGo, broken, misuse>>
     \/ FFHW /\ MsrException(next) /\ UNCHANGED broken
     \/ /\ "Stats" \notin tables
        /\ broken' = "null" /\ UNCHANGED <<thread, ThreadGo, misuse>>
  /\ UNCHANGED <<pCPUDB, speed, grant>>

\* On to the next CPU, or to the next cycle.
NextCPU ==
  [NoThread EXCEPT !.Exceptions = thread.Exceptions,
     !.pc = IF thread.x + 1 < NumProcs THEN "sample" ELSE "loop",
     !.x = IF thread.x + 1 < NumProcs THEN thread.x + 1 ELSE 0]

\* Is the CPU managed?
ThreadCheck ==
  /\ thread.pc = "check"
  /\ LET c == thread.x IN
     \/ /\ "CPUDB" \in tables /\ pCPUDB[c].PState = FREE
        /\ thread' = NextCPU /\ UNCHANGED broken
     \/ /\ "CPUDB" \in tables /\ pCPUDB[c].PState # FREE
        /\ thread' = [thread EXCEPT !.pc = "find"] /\ UNCHANGED broken
     \/ /\ "CPUDB" \notin tables
        /\ broken' = "null" /\ UNCHANGED thread
  /\ UNCHANGED <<pCPUDB, ThreadGo, speed, grant, misuse>>

\* What is to be written for its state, which is read again: the slowest one if
\* the firmware lists no such state.
ThreadFind ==
  /\ thread.pc = "find"
  /\ LET p == pCPUDB[thread.x].PState IN
     \/ /\ {"CPUDB", "PSS"} \subseteq tables
        /\ thread' = [thread EXCEPT !.pc = "count",
                        !.lo = IF p = FREE THEN PStates - 1 ELSE p]
        /\ UNCHANGED broken
     \/ /\ ~({"CPUDB", "PSS"} \subseteq tables)
        /\ broken' = "null" /\ UNCHANGED thread
  /\ UNCHANGED <<pCPUDB, ThreadGo, speed, grant, misuse>>

ThreadCount ==
  /\ thread.pc = "count"
  /\ LET c == thread.x
         StayAlive == (pCPUDB[c].StayAliveCount + 1) % Word IN
     \/ /\ "CPUDB" \in tables
        /\ pCPUDB' = [pCPUDB EXCEPT ![c].StayAliveCount = StayAlive]
        /\ thread' = [thread EXCEPT !.pc = "set", !.StayAlive = StayAlive,
                        !.Limit = StayAliveFailureLimit]
        /\ UNCHANGED broken
     \/ /\ "CPUDB" \notin tables
        /\ broken' = "null" /\ UNCHANGED <<pCPUDB, thread>>
  /\ UNCHANGED <<ThreadGo, speed, grant, misuse>>

\* StayAlive < (StayAliveFailureLimit + 1)
WithinLimit == thread.StayAlive < (thread.Limit + 1) % Word

\* Mutant: the CPU is not made fast before it is given up.
WriteMsrLow ==
  /\ thread.pc = "set" /\ WithinLimit
  /\ speed' = [speed EXCEPT ![thread.x] = IF FFHW THEN thread.lo ELSE @]
  /\ thread' = [NextCPU EXCEPT !.Exceptions = 0]
  /\ UNCHANGED <<ThreadGo, misuse>>

\* The state asked for is written, or once, at the limit, the fastest.
WriteMsr ==
  /\ thread.pc = "set" /\ WithinLimit
  /\ \/ /\ speed' = [speed EXCEPT ![thread.x] =
             IF ~FFHW THEN @
             ELSE IF thread.StayAlive < thread.Limit THEN thread.lo ELSE 0]
        /\ thread' = [NextCPU EXCEPT !.Exceptions = 0]
        /\ UNCHANGED <<ThreadGo, misuse>>
     \/ FFHW /\ MsrException(NextCPU) /\ UNCHANGED speed

\* Mutant: the CPU is never given up.
GiveUpForgotten ==
  /\ thread.pc = "set" /\ ~WithinLimit
  /\ thread' = NextCPU
  /\ UNCHANGED <<pCPUDB, broken>>

\* Nobody has asked for too long.
GiveUp ==
  /\ thread.pc = "set" /\ ~WithinLimit
  /\ \/ /\ {"CPUDB", "Stats"} \subseteq tables
        /\ pCPUDB' = [pCPUDB EXCEPT ![thread.x].PState = FREE]
        /\ thread' = NextCPU
        /\ UNCHANGED broken
     \/ /\ ~({"CPUDB", "Stats"} \subseteq tables)
        /\ broken' = "null"
        /\ UNCHANGED <<pCPUDB, thread>>

ThreadSet ==
  \/ WriteMsr /\ UNCHANGED <<pCPUDB, broken, grant>>
  \/ GiveUp /\ UNCHANGED <<ThreadGo, speed, grant, misuse>>

PerfCtlThread ==
  /\ \/ ThreadStart \/ ThreadLoop \/ ThreadSample \/ ThreadCheck \/ ThreadFind
     \/ ThreadCount \/ ThreadSet
  /\ UNCHANGED <<tables, FFHW, StayAliveFailureLimit, requests, unreset>>
=============================================================================
