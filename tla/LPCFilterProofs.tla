-------------------------- MODULE LPCFilterProofs --------------------------
(***************************************************************************)
(* Proofs about LPCFilter with PerfCtl, for every number of CPUs, devices, *)
(* applications, states and requests.                                      *)
(***************************************************************************)
EXTENDS LPCFilter, TLAPS

USE DEF NONE, FREE

Full == {"CPUDB", "PSS", "Stats"} \subseteq tables
AllFast == \A c \in CPU : speed[c] = 0

\* What an open is on its way to, and what has what it needs.
OpenInv ==
  /\ \A a \in App : app[a] = "open" \/ app[a] = "thread" => Full
  /\ \A a \in App : app[a] = "acpi" => "CPUDB" \in tables
  /\ \A a \in Opening : \A b \in App \ {a} : app[b] = "closed"
  /\ owner # NULL /\ IsDataObtained /\ gOpenStatus => Opening # {} \/ Full
  /\ InUse => owner # NULL /\ IsDataObtained
  /\ Opening # {} => ~threadObject
  /\ unreset # NONE => \E a \in App : app[a] = "open"

\* The thread runs only with its object known and all tables there.
ThreadInv ==
  /\ ThreadRuns => threadObject
  /\ threadObject => Full /\ IsDataObtained /\ owner # NULL
  /\ gCtlDevNum = 0 => owner = NULL
  /\ pnp # "idle" => owner # NULL

SafeInv == NeverBroken /\ (Up => OpenInv /\ ThreadInv)

\* As long as nobody changes it the limit is the one of the beginning.
LimitInv ==
  "limit" \notin misuse
    => /\ StayAliveFailureLimit = FailureLimit
       /\ thread.pc = "set" => thread.Limit = FailureLimit

\* All CPUs are fast when no thread runs or MSRs are not used.
IdleFast == Up /\ (~threadObject \/ ~FFHW) => AllFast

\* A CPU that is nobody's is fast, ...
FreeFast == \A c \in CPU : pCPUDB[c].PState = FREE => speed[c] = 0

\* ... and so is one whose count is at the limit or beyond, except between the count
\* and the write, ...
LateFast ==
  \A c \in CPU : pCPUDB[c].StayAliveCount >= FailureLimit /\ speed[c] # 0
                  => thread.pc = "set" /\ thread.x = c
SetInv ==
  thread.pc = "set"
    => /\ pCPUDB[thread.x].StayAliveCount \in {0, thread.StayAlive}
       /\ thread.StayAlive > FailureLimit => speed[thread.x] = 0

\* ... where the CPU is somebody's.
BusyInv == Up /\ thread.pc \in {"find", "count", "set"} => pCPUDB[thread.x].PState # FREE

FastInv == misuse = {} => IdleFast /\ FreeFast /\ LateFast /\ SetInv /\ BusyInv

\* The thread is in a cycle in which it is still to come to the count of CPU c.
Awaits(c) ==
  \/ thread.pc = "sample" /\ thread.x <= c
  \/ thread.pc \in {"check", "find", "count"} /\ thread.x <= c
  \/ thread.pc = "set" /\ thread.x < c

\* The stay alive count of a state that was granted is at most one ahead of the cycles
\* that have begun since.
GrantInv ==
  /\ "CPUDB" \notin tables => \A c \in CPU : grant[c].PState = FREE
  /\ \A c \in CPU :
       grant[c].PState # FREE /\ unreset # c /\ grant[c].age < FailureLimit
         => pCPUDB[c].StayAliveCount + (IF Awaits(c) THEN 1 ELSE 0) <= grant[c].age + 1

----------------------------------------------------------------------------
(***************************************************************************)
(* Types.                                                                  *)
(***************************************************************************)
\* The numbers that records begin with.
LEMMA Numbers ==
  /\ 0 \in CPU /\ 0 \in PState /\ PStates - 1 \in PState /\ 0 \in ULONG
  /\ FailureLimit \in ULONG /\ 0 \in 0 .. MaxExceptions + 1
BY PerfCtlAssumption DEF CPU, PState, ULONG

LEMMA NoThreadType == NoThread \in ThreadState
BY Numbers DEF NoThread, ThreadState

\* The thread goes on to a CPU.
LEMMA NextCPUType ==
  ASSUME thread \in ThreadState
  PROVE  NextCPU \in ThreadState
<1> DEFINE more == thread.x + 1 < NumProcs
           pc == IF more THEN "sample" ELSE "loop"
           x == IF more THEN thread.x + 1 ELSE 0
<1>1. x \in CPU
  BY PerfCtlAssumption DEF ThreadState, CPU
<1>2. thread.Exceptions \in 0 .. MaxExceptions + 1
  BY DEF ThreadState
<1>3. NextCPU = [NoThread EXCEPT !.Exceptions = thread.Exceptions, !.pc = pc, !.x = x]
  BY DEF NextCPU
<1>4. pc \in {"sample", "loop"}
  OBVIOUS
<1> HIDE DEF pc, x
<1>5. QED
  BY <1>1, <1>2, <1>3, <1>4, NoThreadType DEF ThreadState

\* A pass over the MSRs that fails.
LEMMA MsrExceptionType ==
  ASSUME TypeOK, NEW next \in ThreadState, MsrException(next)
  PROVE  thread' \in ThreadState /\ ThreadGo' \in BOOLEAN /\ misuse' \subseteq Misuse
<1>1. next.Exceptions \in 0 .. MaxExceptions + 1
  BY DEF ThreadState
<1> DEFINE n == IF next.Exceptions <= MaxExceptions THEN next.Exceptions + 1
                ELSE next.Exceptions
<1>2. n \in 0 .. MaxExceptions + 1
  BY <1>1, PerfCtlAssumption
<1>3. thread' = [next EXCEPT !.Exceptions = n]
  BY DEF MsrException
<1> HIDE DEF n
<1>4. thread' \in ThreadState
  BY <1>2, <1>3 DEF ThreadState
<1>5. ThreadGo' \in BOOLEAN /\ misuse' \subseteq Misuse
  BY DEF MsrException, TypeOK, PerfTypeOK, Misuse
<1>6. QED
  BY <1>4, <1>5

\* An entry of pCPUDB that gets another count, or another state.
LEMMA CountType ==
  ASSUME pCPUDB \in [CPU -> Entry], NEW k \in CPU, NEW n \in ULONG
  PROVE  [pCPUDB EXCEPT ![k].StayAliveCount = n] \in [CPU -> Entry]
<1>1. [pCPUDB[k] EXCEPT !.StayAliveCount = n] \in Entry
  BY DEF Entry
<1>2. QED
  BY <1>1

LEMMA StateType ==
  ASSUME pCPUDB \in [CPU -> Entry], NEW k \in CPU, NEW p \in PState \cup {FREE}
  PROVE  [pCPUDB EXCEPT ![k].PState = p] \in [CPU -> Entry]
<1>1. [pCPUDB[k] EXCEPT !.PState = p] \in Entry
  BY DEF Entry
<1>2. QED
  BY <1>1

LEMMA FreeType ==
  /\ FreeCPUs \in [CPU -> Entry]
  /\ [c \in CPU |-> NoGrant] \in [CPU -> Granted]
BY Numbers, PerfCtlAssumption DEF FreeCPUs, NoGrant, Entry, Granted

\* The thread's steps keep the types.
LEMMA ThreadType ==
  ASSUME TypeOK, PerfCtlThread
  PROVE  PerfTypeOK'
<1>1. /\ thread \in ThreadState /\ ThreadGo \in BOOLEAN /\ misuse \subseteq Misuse
      /\ pCPUDB \in [CPU -> Entry]
      /\ speed \in [CPU -> PState] /\ broken \in {"no", "null", "freed", "unprovided"}
      /\ grant \in [CPU -> Granted]
      /\ StayAliveFailureLimit \in ULONG
  BY DEF TypeOK, PerfTypeOK
<1>2. thread.x \in CPU /\ thread.lo \in PState
  BY <1>1 DEF ThreadState
<1> SUFFICES /\ thread' \in ThreadState /\ ThreadGo' \in BOOLEAN /\ misuse' \subseteq Misuse
             /\ pCPUDB' \in [CPU -> Entry]
             /\ speed' \in [CPU -> PState]
             /\ broken' \in {"no", "null", "freed", "unprovided"}
             /\ grant' \in [CPU -> Granted]
  BY DEF PerfCtlThread, TypeOK, PerfTypeOK
<1>3. CASE ThreadStart
  BY <1>1, <1>3 DEF ThreadStart, ThreadState
<1>4. CASE ThreadLoop
  <2>1. thread' \in ThreadState
    BY <1>1, <1>4, Numbers DEF ThreadLoop, ThreadState
  <2>2. \A c \in CPU : Older(grant[c]) \in Granted
    BY <1>1, PerfCtlAssumption DEF Older, ULONG, Granted
  <2>3. QED
    BY <1>1, <1>4, <2>1, <2>2 DEF ThreadLoop
<1>5. CASE ThreadSample
  <2> DEFINE next == [thread EXCEPT !.pc = "check"]
  <2>1. next \in ThreadState
    BY <1>1 DEF ThreadState
  <2>2. CASE MsrException(next)
    BY <1>1, <1>5, <2>1, <2>2, MsrExceptionType DEF ThreadSample
  <2>3. CASE ~MsrException(next)
    BY <1>1, <1>5, <2>1, <2>3 DEF ThreadSample
  <2>4. QED
    BY <2>2, <2>3
<1>6. CASE ThreadCheck
  <2>1. [thread EXCEPT !.pc = "find"] \in ThreadState
    BY <1>1 DEF ThreadState
  <2>2. QED
    BY <1>1, <1>6, <2>1, NextCPUType DEF ThreadCheck
<1>7. CASE ThreadFind
  <2> DEFINE lo == IF pCPUDB[thread.x].PState = FREE THEN PStates - 1 ELSE pCPUDB[thread.x].PState
  <2>1. lo \in PState
    BY <1>1, <1>2, Numbers DEF Entry
  <2>2. thread' \in ThreadState
    BY <1>1, <1>7, <2>1 DEF ThreadFind, ThreadState
  <2>3. QED
    BY <1>1, <1>7, <2>2 DEF ThreadFind
<1>8. CASE ThreadCount
  <2> DEFINE n == (pCPUDB[thread.x].StayAliveCount + 1) % Word
  <2>1. n \in ULONG
    BY <1>1, <1>2, PerfCtlAssumption DEF ULONG, Entry
  <2>2. \/ /\ pCPUDB' = [pCPUDB EXCEPT ![thread.x].StayAliveCount = n]
           /\ thread' = [thread EXCEPT !.pc = "set", !.StayAlive = n,
                           !.Limit = StayAliveFailureLimit]
           /\ broken' = broken
        \/ broken' = "null" /\ UNCHANGED <<pCPUDB, thread>>
    BY <1>8 DEF ThreadCount
  <2> HIDE DEF n
  <2>3. thread' \in ThreadState
    BY <1>1, <2>1, <2>2 DEF ThreadState
  <2>4. pCPUDB' \in [CPU -> Entry]
    BY <1>1, <1>2, <2>1, <2>2, CountType
  <2>5. QED
    BY <1>1, <1>8, <2>2, <2>3, <2>4 DEF ThreadCount
<1>9. CASE ThreadSet
  <2>1. NextCPU \in ThreadState /\ [NextCPU EXCEPT !.Exceptions = 0] \in ThreadState
    BY <1>1, NextCPUType, Numbers DEF ThreadState
  <2>2. CASE WriteMsr /\ UNCHANGED <<pCPUDB, broken, grant>>
    <3>1. speed' \in [CPU -> PState]
      BY <1>1, <1>2, <2>2, Numbers DEF WriteMsr
    <3>2. CASE MsrException(NextCPU)
      BY <1>1, <2>1, <2>2, <3>1, <3>2, MsrExceptionType
    <3>3. CASE ~MsrException(NextCPU)
      BY <1>1, <2>1, <2>2, <3>1, <3>3 DEF WriteMsr
    <3>4. QED
      BY <3>2, <3>3
  <2>3. CASE GiveUp /\ UNCHANGED <<ThreadGo, speed, grant, misuse>>
    <3>1. pCPUDB' \in [CPU -> Entry]
      BY <1>1, <1>2, <2>3, StateType DEF GiveUp
    <3>2. QED
      BY <1>1, <2>1, <2>3, <3>1 DEF GiveUp
  <2>4. QED
    BY <1>9, <2>2, <2>3 DEF ThreadSet
<1>10. QED
  BY <1>3, <1>4, <1>5, <1>6, <1>7, <1>8, <1>9 DEF PerfCtlThread

\* So do requests, ...
LEMMA RequestType ==
  ASSUME TypeOK, Request
  PROVE  PerfTypeOK'
<1>1. /\ pCPUDB \in [CPU -> Entry] /\ grant \in [CPU -> Granted]
      /\ misuse \subseteq Misuse /\ unreset \in CPU \cup {NONE}
      /\ broken \in {"no", "null", "freed", "unprovided"}
      /\ StayAliveFailureLimit \in ULONG
  BY DEF TypeOK, PerfTypeOK
<1>2. requests' \in 0 .. MaxRequests
  BY PerfCtlAssumption DEF Request, TypeOK, PerfTypeOK
<1> SUFFICES /\ pCPUDB' \in [CPU -> Entry] /\ grant' \in [CPU -> Granted]
             /\ misuse' \subseteq Misuse /\ unreset' \in CPU \cup {NONE}
             /\ broken' \in {"no", "null", "freed", "unprovided"}
             /\ StayAliveFailureLimit' \in ULONG
  BY <1>2 DEF Request, TypeOK, PerfTypeOK
<1>3. ASSUME NEW k \in CPU \cup {NumProcs}, NEW p \in PState \cup {FREE},
             SetPState(k, p) \/ SetNowPState(k, p),
             UNCHANGED StayAliveFailureLimit
      PROVE  /\ pCPUDB' \in [CPU -> Entry] /\ grant' \in [CPU -> Granted]
             /\ misuse' \subseteq Misuse /\ unreset' \in CPU \cup {NONE}
             /\ broken' \in {"no", "null", "freed", "unprovided"}
             /\ StayAliveFailureLimit' \in ULONG
  <2>1. CASE BadAccess(k) /\ UNCHANGED <<pCPUDB, grant, unreset, misuse>>
    BY <1>1, <1>3, <2>1 DEF BadAccess
  <2>2. CASE k \in CPU /\ Grant(k, p) /\ misuse' = Noted(p) /\ UNCHANGED broken
    <3>1. pCPUDB' \in [CPU -> Entry]
      BY <1>1, <2>2, StateType DEF Grant
    <3>2. [PState |-> p, age |-> 0] \in Granted
      BY PerfCtlAssumption DEF Granted
    <3>3. grant' \in [CPU -> Granted]
      BY <1>1, <2>2, <3>2 DEF Grant
    <3>4. misuse' \subseteq Misuse
      BY <1>1, <2>2 DEF Noted, Misuse
    <3>5. QED
      BY <1>1, <1>3, <2>2, <3>1, <3>3, <3>4 DEF Grant
  <2>3. QED
    BY <1>3, <2>1, <2>2 DEF SetPState, SetNowPState
<1>4. ASSUME NEW limit \in Limits, SetConfig(limit),
             UNCHANGED <<pCPUDB, grant, unreset, broken>>
      PROVE  /\ misuse' \subseteq Misuse /\ StayAliveFailureLimit' \in ULONG
  BY <1>1, <1>4, PerfCtlAssumption DEF SetConfig, Limits, ULONG, Misuse
<1>5. QED
  BY <1>1, <1>3, <1>4 DEF Request

\* ... their second halves, ...
LEMMA ResetType ==
  ASSUME TypeOK, ResetCount
  PROVE  PerfTypeOK'
<1>1. unreset \in CPU /\ pCPUDB \in [CPU -> Entry]
  BY DEF ResetCount, TypeOK, PerfTypeOK
<1>2. pCPUDB' \in [CPU -> Entry]
  BY <1>1, CountType, Numbers DEF ResetCount
<1>3. QED
  BY <1>2 DEF ResetCount, TypeOK, PerfTypeOK

\* ... and everything that happens to the devices.
LEMMA AddType ==
  ASSUME TypeOK, AddDevice
  PROVE  TypeOK'
<1>1. PICK d \in Device :
        AddFirst(d) \/ AddWithoutControl(d) \/ AddFurther(d) \/ AddFails
  BY DEF AddDevice
<1>2. CASE AddFirst(d)
  BY <1>2, NoThreadType, FreeType, Numbers
     DEF AddDevice, AddFirst, NewControl, TypeOK, PerfTypeOK
<1>3. CASE AddWithoutControl(d)
  BY <1>3 DEF AddDevice, AddWithoutControl, TypeOK, PerfTypeOK
<1>4. CASE AddFurther(d)
  BY <1>4 DEF AddDevice, AddFurther, TypeOK, PerfTypeOK
<1>5. CASE AddFails
  BY <1>5 DEF AddDevice, AddFails, deviceVars, TypeOK, PerfTypeOK
<1>6. QED
  BY <1>1, <1>2, <1>3, <1>4, <1>5

LEMMA CreateType ==
  ASSUME TypeOK, NEW a \in App, Create(a)
  PROVE  TypeOK'
<1>1. CASE Open(a)
  BY <1>1 DEF Create, Open, Goto, deviceVars, TypeOK, PerfTypeOK
<1>2. CASE AllocCPUDB(a)
  <2>1. app' \in [App -> {"closed", "alloc", "acpi", "thread", "open"}] /\ gOpenStatus' \in BOOLEAN
    BY <1>2 DEF AllocCPUDB, OpenFails, Goto, TypeOK
  <2>2. /\ tables' \subseteq {"CPUDB", "PSS", "Stats"} /\ pCPUDB' \in [CPU -> Entry]
        /\ grant' \in [CPU -> Granted]
    BY <1>2, FreeType DEF AllocCPUDB, TypeOK, PerfTypeOK
  <2>3. QED
    BY <1>2, <2>1, <2>2 DEF Create, AllocCPUDB, deviceVars, TypeOK, PerfTypeOK
<1>3. CASE GetACPIPstateData(a)
  <2>1. app' \in [App -> {"closed", "alloc", "acpi", "thread", "open"}] /\ gOpenStatus' \in BOOLEAN
    BY <1>3 DEF GetACPIPstateData, NoMSRSupport, OpenFails, Goto, TypeOK
  <2>2. /\ tables' \subseteq {"CPUDB", "PSS", "Stats"} /\ FFHW' \in BOOLEAN
        /\ broken' \in {"no", "null", "freed", "unprovided"}
    BY <1>3 DEF GetACPIPstateData, EvaluatePSS, EvaluatePCT, TypeOK, PerfTypeOK
  <2>3. QED
    BY <1>3, <2>1, <2>2 DEF Create, GetACPIPstateData, deviceVars, TypeOK, PerfTypeOK
<1>4. CASE StartThread(a)
  <2>1. [NoThread EXCEPT !.pc = "start"] \in ThreadState
    BY NoThreadType DEF ThreadState
  <2>2. QED
    BY <1>4, <2>1 DEF Create, StartThread, OpenFails, Goto, deviceVars, TypeOK, PerfTypeOK
<1>5. QED
  BY <1>1, <1>2, <1>3, <1>4 DEF Create

LEMMA EndType ==
  ASSUME TypeOK, pnp # "idle", StopEnd \/ RemoveEnd
  PROVE  TypeOK'
<1>1. FreeTables
  BY DEF StopEnd, RemoveEnd
<1>2. PerfTypeOK'
  BY <1>1, FreeType DEF FreeTables, TypeOK, PerfTypeOK, Misuse
<1>3. CASE StopEnd
  BY <1>2, <1>3 DEF StopEnd, FreeTables, deviceVars, TypeOK
<1>4. CASE RemoveEnd
  BY <1>2, <1>4 DEF RemoveEnd, FreeTables, TypeOK
<1>5. QED
  BY <1>3, <1>4

LEMMA StepType ==
  ASSUME TypeOK, [Next]_vars
  PROVE  TypeOK'
<1>1. CASE Thread
  BY <1>1, ThreadType DEF Thread, deviceVars, TypeOK
<1>2. CASE FinishRequest
  BY <1>2, ResetType DEF FinishRequest, deviceVars, TypeOK
<1>3. CASE EndOfDevice
  <2>1. pnp # "idle"
    BY <1>3 DEF EndOfDevice, StopEnd, RemoveEnd
  <2>2. QED
    BY <1>3, <2>1, EndType DEF EndOfDevice
<1>4. CASE AddDevice
  BY <1>4, AddType
<1>5. CASE RemoveFilter
  BY <1>5 DEF RemoveFilter, perfVars, TypeOK, PerfTypeOK
<1>6. CASE EndBegin("stop") \/ EndBegin("remove")
  BY <1>6 DEF EndBegin, deviceVars, TypeOK, PerfTypeOK
<1>7. ASSUME NEW a \in App, Create(a) \/ Close(a) \/ DeviceControl(a)
      PROVE  TypeOK'
  <2>1. CASE Create(a)
    BY <2>1, CreateType
  <2>2. CASE Close(a)
    BY <2>2 DEF Close, Goto, perfVars, deviceVars, TypeOK, PerfTypeOK
  <2>3. CASE DeviceControl(a)
    BY <2>3, RequestType DEF DeviceControl, deviceVars, TypeOK
  <2>4. QED
    BY <1>7, <2>1, <2>2, <2>3
<1>8. CASE UNCHANGED vars
  BY <1>8 DEF vars, perfVars, deviceVars, TypeOK, PerfTypeOK
<1>9. QED
  BY <1>1, <1>2, <1>3, <1>4, <1>5, <1>6, <1>7, <1>8 DEF Next

LEMMA InitType ==
  ASSUME Init
  PROVE  TypeOK
<1>1. PerfTypeOK
  <2>1. /\ tables = {} /\ FFHW = FALSE /\ pCPUDB = FreeCPUs /\ ThreadGo = FALSE
        /\ StayAliveFailureLimit = FailureLimit /\ thread = NoThread
        /\ speed = [c \in CPU |-> 0] /\ broken = "no" /\ requests = 0 /\ unreset = NONE
        /\ grant = [c \in CPU |-> NoGrant] /\ misuse = {}
    BY DEF Init, PerfInit
  <2>2. speed \in [CPU -> PState] /\ requests \in 0 .. MaxRequests
    BY <2>1, Numbers, PerfCtlAssumption
  <2>3. QED
    BY <2>1, <2>2, NoThreadType, FreeType, Numbers DEF PerfTypeOK
<1>2. QED
  BY <1>1 DEF Init, TypeOK

----------------------------------------------------------------------------
(***************************************************************************)
(* Nothing is used that is not there.                                      *)
(***************************************************************************)
\* The thread finds its tables.
LEMMA ThreadSafe ==
  ASSUME TypeOK, SafeInv, Up, Thread
  PROVE  SafeInv'
<1>1. thread.pc \notin {"none", "ended"}
  BY DEF Thread, PerfCtlThread, ThreadStart, ThreadLoop, ThreadSample, ThreadCheck, ThreadFind,
         ThreadCount, ThreadSet, WriteMsr, GiveUp
<1>2. threadObject /\ Full
  BY <1>1 DEF SafeInv, ThreadInv, ThreadRuns
<1>3. broken' = broken
  BY <1>2 DEF Full, Thread, PerfCtlThread, ThreadStart, ThreadLoop, ThreadSample, ThreadCheck,
              ThreadFind, ThreadCount, ThreadSet, WriteMsr, GiveUp
<1>4. UNCHANGED <<tables, unreset, deviceVars, gOpenStatus, IsDataObtained, threadObject, app, pnp>>
  BY DEF Thread, PerfCtlThread
<1>5. OpenInv'
  BY <1>4 DEF SafeInv, OpenInv, Full, Opening, InUse, deviceVars
<1>6. ThreadInv'
  BY <1>2, <1>4 DEF SafeInv, ThreadInv, Full, deviceVars
<1>7. QED
  BY <1>3, <1>5, <1>6 DEF SafeInv, NeverBroken, Up

\* So do the requests of applications that have the device open.
LEMMA RequestSafe ==
  ASSUME TypeOK, SafeInv, Up, NEW a \in App, DeviceControl(a)
  PROVE  SafeInv'
<1>1. app[a] = "open" /\ Full
  BY DEF DeviceControl, SafeInv, OpenInv
<1>2. broken' \in {"no", "unprovided"}
  BY <1>1 DEF DeviceControl, Request, SetPState, SetNowPState, BadAccess, Full, SafeInv,
              NeverBroken
<1>3. UNCHANGED <<tables, thread, deviceVars, gOpenStatus, IsDataObtained, threadObject, app, pnp>>
  BY DEF DeviceControl, Request
<1>4. OpenInv'
  BY <1>1, <1>3 DEF SafeInv, OpenInv, Full, Opening, InUse, deviceVars
<1>5. ThreadInv'
  BY <1>3 DEF SafeInv, ThreadInv, ThreadRuns, Full, deviceVars
<1>6. QED
  BY <1>2, <1>4, <1>5 DEF SafeInv, NeverBroken

LEMMA FinishSafe ==
  ASSUME TypeOK, SafeInv, FinishRequest
  PROVE  SafeInv'
<1>1. Up /\ unreset # NONE /\ unreset' = NONE
  BY DEF FinishRequest, ResetCount
<1>2. Full
  BY <1>1 DEF SafeInv, OpenInv
<1>3. broken' = broken
  BY <1>2 DEF FinishRequest, ResetCount, Full
<1>4. UNCHANGED <<tables, thread, deviceVars, gOpenStatus, IsDataObtained, threadObject, app, pnp>>
  BY DEF FinishRequest, ResetCount
<1>5. OpenInv'
  BY <1>1, <1>4 DEF SafeInv, OpenInv, Full, Opening, InUse, deviceVars
<1>6. ThreadInv'
  BY <1>1, <1>4 DEF SafeInv, ThreadInv, ThreadRuns, Full, deviceVars
<1>7. QED
  BY <1>3, <1>5, <1>6 DEF SafeInv, NeverBroken, Up

\* A new control device comes when nobody has the old one open.
LEMMA AddSafe ==
  ASSUME TypeOK, SafeInv, Up, AddDevice
  PROVE  SafeInv'
<1>1. PICK d \in Device :
        AddFirst(d) \/ AddWithoutControl(d) \/ AddFurther(d) \/ AddFails
  BY DEF AddDevice
<1>2. UNCHANGED <<gOpenStatus, app, pnp, unreset>> /\ pnp = "idle"
  BY DEF AddDevice
<1>3. OpenInv /\ ThreadInv
  BY DEF SafeInv
<1>4. CASE AddFirst(d)
  <2>1. owner = NULL /\ broken' = broken
    BY <1>3, <1>4 DEF AddFirst, ThreadInv
  <2>2. ~InUse /\ unreset = NONE
    BY <1>3, <2>1 DEF OpenInv, InUse
  <2>3. OpenInv'
    BY <1>2, <1>4, <2>2 DEF AddFirst, NewControl, OpenInv, Opening, InUse, Full
  <2>4. ThreadInv'
    BY <1>2, <1>4 DEF AddFirst, NewControl, ThreadInv, ThreadRuns, NoThread
  <2>5. QED
    BY <2>1, <2>3, <2>4 DEF SafeInv, NeverBroken
<1>5. CASE AddWithoutControl(d) \/ AddFurther(d)
  <2>1. UNCHANGED <<tables, thread, IsDataObtained, threadObject, owner, broken>>
    BY <1>5 DEF AddWithoutControl, AddFurther
  <2>2. gCtlDevNum' = 1
    BY <1>5 DEF AddWithoutControl, AddFurther
  <2>3. OpenInv'
    BY <1>2, <1>3, <2>1 DEF OpenInv, Opening, InUse, Full
  <2>4. ThreadInv'
    BY <1>2, <1>3, <2>1, <2>2 DEF ThreadInv, ThreadRuns, Full
  <2>5. QED
    BY <2>1, <2>3, <2>4 DEF SafeInv, NeverBroken
<1>6. CASE AddFails
  BY <1>6 DEF AddFails, SafeInv, NeverBroken, Up
<1>7. QED
  BY <1>1, <1>4, <1>5, <1>6

\* Only the first open is on its way, and it gets each table before it goes on.
LEMMA CreateSafe ==
  ASSUME TypeOK, SafeInv, Up, NEW a \in App, Create(a)
  PROVE  SafeInv'
<1>1. UNCHANGED <<unreset, deviceVars, pnp, owner, gCtlDevNum>>
  BY DEF Create, deviceVars
<1>2. OpenInv /\ ThreadInv
  BY DEF SafeInv
<1>3. app \in [App -> {"closed", "alloc", "acpi", "thread", "open"}]
  BY DEF TypeOK
<1>4. CASE Open(a)
  <2>1. broken' \in {"no", "unprovided"} /\ (Up' => ~IsDataObtained \/ Opening = {})
    BY <1>4 DEF Open, SafeInv, NeverBroken, Up
  <2>2. UNCHANGED <<tables, gOpenStatus, threadObject, thread>> /\ gOpenStatus /\ owner # NULL
    BY <1>4 DEF Open
  <2>3. CASE ~IsDataObtained
    <3>1. ~InUse /\ ~threadObject /\ unreset = NONE
      BY <1>2, <2>3 DEF OpenInv, ThreadInv, InUse
    <3>2. app' = [app EXCEPT ![a] = "alloc"] /\ IsDataObtained'
      BY <1>4, <2>3 DEF Open, Goto
    <3>3. \A b \in App : app'[b] = IF b = a THEN "alloc" ELSE "closed"
      BY <1>3, <3>1, <3>2 DEF InUse
    <3>4. Opening' = {a}
      BY <3>3 DEF Opening
    <3>5. OpenInv'
      BY <1>1, <2>2, <3>1, <3>2, <3>3, <3>4 DEF OpenInv, InUse
    <3>6. ThreadInv'
      BY <1>1, <1>2, <2>2, <3>1 DEF ThreadInv, ThreadRuns
    <3>7. QED
      BY <2>1, <3>5, <3>6 DEF SafeInv, NeverBroken
  <2>4. CASE IsDataObtained /\ Opening = {}
    <3>1. Full
      BY <1>2, <2>2, <2>4 DEF OpenInv
    <3>2. app' = [app EXCEPT ![a] = "open"] /\ IsDataObtained'
      BY <1>4, <2>4 DEF Open, Goto
    <3>3. Opening' = {}
      BY <1>3, <2>4, <3>2 DEF Opening
    <3>4. Full'
      BY <2>2, <3>1 DEF Full
    <3>5. OpenInv'
      BY <1>1, <1>3, <2>2, <3>2, <3>3, <3>4 DEF OpenInv, Opening, Full
    <3>6. ThreadInv'
      BY <1>1, <1>2, <2>2, <3>2, <3>4 DEF ThreadInv, ThreadRuns
    <3>7. QED
      BY <2>1, <3>5, <3>6 DEF SafeInv, NeverBroken
  <2>5. QED
    BY <2>1, <2>3, <2>4 DEF SafeInv, NeverBroken
<1>5. CASE a \in Opening
  <2>1. /\ \A b \in App \ {a} : app[b] = "closed"
        /\ ~threadObject /\ IsDataObtained /\ owner # NULL
    BY <1>2, <1>5 DEF OpenInv, InUse, Opening
  <2>2. unreset = NONE
    BY <1>2, <1>3, <1>5, <2>1 DEF OpenInv, Opening
  <2>3. CASE AllocCPUDB(a) \/ GetACPIPstateData(a) \/ StartThread(a)
    <3>1. /\ tables \subseteq tables' /\ IsDataObtained' = IsDataObtained
          /\ \A b \in App \ {a} : app'[b] = "closed"
      BY <1>3, <2>1, <2>3
         DEF AllocCPUDB, GetACPIPstateData, EvaluatePSS, StartThread, OpenFails, NoMSRSupport, Goto
    <3>2. broken' \in {"no", "unprovided"}
      BY <2>3 DEF AllocCPUDB, GetACPIPstateData, EvaluatePSS, StartThread, SafeInv, NeverBroken
    <3>3. SUFFICES ASSUME Up' PROVE OpenInv' /\ ThreadInv'
      BY <3>2 DEF SafeInv, NeverBroken
    <3>4. /\ app'[a] \in {"closed", "acpi", "thread", "open"}
          /\ app'[a] = "acpi" => "CPUDB" \in tables'
          /\ app'[a] \in {"thread", "open"} => Full'
          /\ app'[a] = "closed" => ~gOpenStatus'
      <4>1. CASE AllocCPUDB(a)
        BY <1>3, <4>1 DEF AllocCPUDB, OpenFails, Goto
      <4>2. CASE GetACPIPstateData(a)
        <5>1. "CPUDB" \in tables
          BY <1>2, <4>2 DEF GetACPIPstateData, OpenInv
        <5>2. CASE EvaluatePSS /\ EvaluatePCT /\ (Goto(a, "thread") \/ NoMSRSupport(a))
          <6>1. tables' = tables \cup {"PSS", "Stats"}
            BY <3>3, <5>2 DEF EvaluatePSS, Up
          <6>2. Full'
            BY <5>1, <6>1 DEF Full
          <6>3. QED
            BY <1>3, <5>2, <6>2 DEF NoMSRSupport, OpenFails, Goto
        <5>3. CASE OpenFails(a)
          BY <1>3, <5>3 DEF OpenFails, Goto
        <5>4. QED
          BY <4>2, <5>2, <5>3 DEF GetACPIPstateData
      <4>3. CASE StartThread(a)
        <5>1. Full /\ tables' = tables
          BY <1>2, <4>3 DEF StartThread, OpenInv
        <5>2. app'[a] \in {"closed", "open"} /\ (app'[a] = "closed" => ~gOpenStatus')
          BY <1>3, <3>3, <4>3 DEF StartThread, OpenFails, Goto, Up
        <5>3. QED
          BY <5>1, <5>2 DEF Full
      <4>4. QED
        BY <2>3, <4>1, <4>2, <4>3
    <3>5. threadObject' => app'[a] = "open"
      BY <1>3, <2>1, <2>3 DEF AllocCPUDB, GetACPIPstateData, StartThread, Goto
    <3>6. ThreadRuns' => threadObject'
      BY <1>2, <2>1, <2>3, <3>3
         DEF AllocCPUDB, GetACPIPstateData, StartThread, ThreadInv, ThreadRuns, Up
    <3>7. OpenInv'
      BY <1>1, <2>1, <2>2, <3>1, <3>4, <3>5 DEF OpenInv, Opening, InUse
    <3>8. ThreadInv'
      BY <1>1, <1>2, <2>1, <3>1, <3>4, <3>5, <3>6 DEF ThreadInv
    <3>9. QED
      BY <3>7, <3>8
  <2>4. QED
    BY <1>4, <2>3 DEF Create
<1>6. QED
  BY <1>4, <1>5 DEF Create, AllocCPUDB, GetACPIPstateData, StartThread, Opening

LEMMA CloseSafe ==
  ASSUME TypeOK, SafeInv, Up, NEW a \in App, Close(a)
  PROVE  SafeInv'
<1>1. /\ app' = [app EXCEPT ![a] = "closed"] /\ app[a] = "open" /\ unreset = NONE
      /\ UNCHANGED <<perfVars, deviceVars, gOpenStatus, IsDataObtained, threadObject, pnp>>
  BY DEF Close, Goto
<1>2. UNCHANGED <<tables, thread, broken, unreset, owner, gCtlDevNum, IsDataObtained>>
  BY <1>1 DEF perfVars, deviceVars
<1>3. \A b \in App : app'[b] = IF b = a THEN "closed" ELSE app[b]
  BY <1>1 DEF TypeOK
<1>4. Full /\ Full'
  BY <1>1, <1>2 DEF SafeInv, OpenInv, Full
<1>5. Opening' = Opening
  BY <1>1, <1>3 DEF Opening
<1>6. OpenInv'
  BY <1>1, <1>2, <1>3, <1>4, <1>5 DEF SafeInv, OpenInv, InUse, Opening
<1>7. ThreadInv'
  BY <1>1, <1>2, <1>4 DEF SafeInv, ThreadInv, ThreadRuns
<1>8. QED
  BY <1>2, <1>6, <1>7 DEF SafeInv, NeverBroken

\* The tables are freed when the thread has ended, and nobody has them but somebody
\* for whom the driver does not provide.
LEMMA EndSafe ==
  ASSUME TypeOK, SafeInv, EndOfDevice
  PROVE  SafeInv'
<1>1. Up /\ FreeTables /\ UNCHANGED app /\ pnp' = "idle"
  BY DEF EndOfDevice, StopEnd, RemoveEnd
<1>2. ~ThreadRuns
  BY <1>1 DEF FreeTables, ThreadJoined, SafeInv, ThreadInv
<1>3. broken' \in {"no", "unprovided"} /\ (Up' => ~InUse)
  BY <1>1, <1>2 DEF FreeTables, Up
<1>4. SUFFICES ASSUME Up' PROVE OpenInv' /\ ThreadInv'
  BY <1>3 DEF SafeInv, NeverBroken
<1>5. \A a \in App : app'[a] = "closed"
  BY <1>1, <1>3, <1>4 DEF InUse
<1>6. Opening' = {} /\ ~InUse'
  BY <1>5 DEF Opening, InUse
<1>7. unreset' = NONE
  BY <1>1, <1>3, <1>4 DEF FreeTables, SafeInv, OpenInv, InUse
<1>8. ~threadObject' /\ ~ThreadRuns'
  BY <1>1, <1>2 DEF FreeTables, ThreadRuns
<1>9. (owner' = NULL \/ ~IsDataObtained') /\ (gCtlDevNum' = 0 => owner' = NULL)
  BY <1>1 DEF EndOfDevice, StopEnd, RemoveEnd, deviceVars, SafeInv, ThreadInv
<1>10. QED
  BY <1>1, <1>5, <1>6, <1>7, <1>8, <1>9 DEF OpenInv, ThreadInv

LEMMA StepSafe ==
  ASSUME TypeOK, SafeInv, [Next]_vars
  PROVE  SafeInv'
<1>1. CASE Thread
  BY <1>1, ThreadSafe DEF Thread
<1>2. CASE FinishRequest
  BY <1>2, FinishSafe
<1>3. CASE EndOfDevice
  BY <1>3, EndSafe
<1>4. CASE Up /\ AddDevice
  BY <1>4, AddSafe
<1>5. CASE RemoveFilter \/ UNCHANGED vars
  <2>1. UNCHANGED <<perfVars, owner, gCtlDevNum, gOpenStatus, IsDataObtained, threadObject,
                    app, pnp>>
    BY <1>5 DEF RemoveFilter, vars, deviceVars
  <2>2. UNCHANGED <<tables, thread, broken, unreset>>
    BY <2>1 DEF perfVars
  <2>3. QED
    BY <2>1, <2>2 DEF SafeInv, NeverBroken, Up, OpenInv, ThreadInv, Opening, InUse, Full,
                      ThreadRuns
<1>6. CASE EndBegin("stop") \/ EndBegin("remove")
  <2>1. owner # NULL
    BY <1>6 DEF EndBegin
  <2>2. UNCHANGED <<tables, thread, broken, unreset, owner, gCtlDevNum, gOpenStatus,
                    IsDataObtained, threadObject, app>>
    BY <1>6 DEF EndBegin, deviceVars
  <2>3. QED
    BY <2>1, <2>2 DEF SafeInv, NeverBroken, Up, OpenInv, ThreadInv, Opening, InUse, Full,
                      ThreadRuns
<1>7. ASSUME NEW a \in App, Up, Create(a) \/ Close(a) \/ DeviceControl(a)
      PROVE  SafeInv'
  BY <1>7, CreateSafe, CloseSafe, RequestSafe
<1>8. QED
  BY <1>1, <1>2, <1>3, <1>4, <1>5, <1>6, <1>7 DEF Next

LEMMA InitSafe ==
  ASSUME Init
  PROVE  SafeInv
BY DEF Init, PerfInit, SafeInv, NeverBroken, OpenInv, ThreadInv, Opening, InUse, ThreadRuns,
       NoThread

----------------------------------------------------------------------------
(***************************************************************************)
(* Limits and speeds.                                                      *)
(***************************************************************************)
\* What happened that the driver does not provide for is never forgotten.
LEMMA MisuseGrows ==
  ASSUME [Next]_vars
  PROVE  misuse \subseteq misuse'
<1>1. CASE Thread
  BY <1>1 DEF Thread, PerfCtlThread, ThreadStart, ThreadLoop, ThreadSample, MsrException,
              ThreadCheck, ThreadFind, ThreadCount, ThreadSet, WriteMsr, GiveUp
<1>2. CASE FinishRequest
  BY <1>2 DEF FinishRequest, ResetCount
<1>3. CASE EndOfDevice
  BY <1>3 DEF EndOfDevice, StopEnd, RemoveEnd, FreeTables
<1>4. CASE AddDevice
  BY <1>4 DEF AddDevice, AddFirst, NewControl, AddWithoutControl, AddFurther, AddFails
<1>5. CASE RemoveFilter \/ UNCHANGED vars
  BY <1>5 DEF RemoveFilter, vars, perfVars
<1>6. CASE EndBegin("stop") \/ EndBegin("remove")
  BY <1>6 DEF EndBegin
<1>7. ASSUME NEW a \in App, Create(a) \/ Close(a) \/ DeviceControl(a)
      PROVE  misuse \subseteq misuse'
  <2>1. CASE Create(a)
    BY <2>1 DEF Create, Open, AllocCPUDB, GetACPIPstateData, StartThread
  <2>2. CASE Close(a)
    BY <2>2 DEF Close, perfVars
  <2>3. CASE DeviceControl(a)
    BY <2>3 DEF DeviceControl, Request, SetPState, SetNowPState, Noted, SetConfig
  <2>4. QED
    BY <1>7, <2>1, <2>2, <2>3
<1>8. QED
  BY <1>1, <1>2, <1>3, <1>4, <1>5, <1>6, <1>7 DEF Next

\* The thread reads the limit when it counts; until somebody sets it, it is the default.
LEMMA StepLimit ==
  ASSUME TypeOK, LimitInv, [Next]_vars
  PROVE  LimitInv'
<1> SUFFICES ASSUME "limit" \notin misuse'
             PROVE  /\ StayAliveFailureLimit' = FailureLimit
                    /\ thread'.pc = "set" => thread'.Limit = FailureLimit
  BY DEF LimitInv
<1>1. /\ StayAliveFailureLimit = FailureLimit
      /\ thread.pc = "set" => thread.Limit = FailureLimit
  BY MisuseGrows DEF LimitInv
<1>2. thread \in ThreadState
  BY DEF TypeOK, PerfTypeOK
<1>3. CASE Thread
  <2>1. StayAliveFailureLimit' = FailureLimit
    BY <1>1, <1>3 DEF Thread, PerfCtlThread
  <2>2. CASE ThreadCount
    <3> DEFINE n == (pCPUDB[thread.x].StayAliveCount + 1) % Word
    <3>1. \/ thread' = [thread EXCEPT !.pc = "set", !.StayAlive = n, !.Limit = StayAliveFailureLimit]
          \/ thread' = thread
      BY <2>2 DEF ThreadCount
    <3> HIDE DEF n
    <3>2. QED
      BY <1>1, <1>2, <2>1, <3>1 DEF ThreadState
  <2>3. CASE ThreadStart \/ ThreadLoop \/ ThreadSample \/ ThreadCheck \/ ThreadFind
    <3>1. thread' = thread \/ thread'.pc # "set"
      BY <1>2, <2>3 DEF ThreadStart, ThreadLoop, ThreadSample, MsrException, ThreadCheck,
                        ThreadFind, NextCPU, NoThread, ThreadState
    <3>2. QED
      BY <1>1, <2>1, <3>1
  <2>4. CASE ThreadSet
    <3>1. NextCPU \in ThreadState /\ NextCPU.pc # "set"
      BY <1>2, NextCPUType DEF NextCPU, NoThread
    <3>2. thread' = thread \/ thread'.pc # "set"
      BY <2>4, <3>1 DEF ThreadSet, WriteMsr, GiveUp, MsrException, ThreadState
    <3>3. QED
      BY <1>1, <2>1, <3>2
  <2>5. QED
    BY <1>3, <2>2, <2>3, <2>4 DEF Thread, PerfCtlThread
<1>4. CASE FinishRequest
  BY <1>1, <1>4 DEF FinishRequest, ResetCount
<1>5. CASE EndOfDevice
  BY <1>1, <1>5 DEF EndOfDevice, StopEnd, RemoveEnd, FreeTables
<1>6. CASE AddDevice
  BY <1>1, <1>6 DEF AddDevice, AddFirst, NewControl, AddWithoutControl, AddFurther, AddFails,
                    NoThread
<1>7. CASE RemoveFilter \/ UNCHANGED vars
  BY <1>1, <1>7 DEF RemoveFilter, vars, perfVars
<1>8. CASE EndBegin("stop") \/ EndBegin("remove")
  BY <1>1, <1>8 DEF EndBegin
<1>9. ASSUME NEW a \in App, Create(a) \/ Close(a) \/ DeviceControl(a)
      PROVE  /\ StayAliveFailureLimit' = FailureLimit
             /\ thread'.pc = "set" => thread'.Limit = FailureLimit
  <2>1. CASE Create(a)
    <3>1. [NoThread EXCEPT !.pc = "start"].pc # "set"
      BY DEF NoThread
    <3>2. QED
      BY <1>1, <2>1, <3>1 DEF Create, Open, AllocCPUDB, GetACPIPstateData, StartThread
  <2>2. CASE Close(a)
    BY <1>1, <2>2 DEF Close, perfVars
  <2>3. CASE DeviceControl(a)
    <3>1. thread' = thread
      BY <2>3 DEF DeviceControl, Request
    <3>2. StayAliveFailureLimit' = StayAliveFailureLimit \/ \E limit \in Limits : SetConfig(limit)
      BY <2>3 DEF DeviceControl, Request
    <3>3. ASSUME NEW limit \in Limits, SetConfig(limit) PROVE FALSE
      BY <3>3 DEF SetConfig
    <3>4. QED
      BY <1>1, <3>1, <3>2, <3>3
  <2>4. QED
    BY <1>9, <2>1, <2>2, <2>3
<1>10. QED
  BY <1>3, <1>4, <1>5, <1>6, <1>7, <1>8, <1>9 DEF Next

\* What the fields of the thread are when it goes on.
LEMMA NextCPUFields ==
  ASSUME thread \in ThreadState
  PROVE  /\ NextCPU.pc = IF thread.x + 1 < NumProcs THEN "sample" ELSE "loop"
         /\ NextCPU.x = IF thread.x + 1 < NumProcs THEN thread.x + 1 ELSE 0
         /\ [NextCPU EXCEPT !.Exceptions = 0].pc = NextCPU.pc
         /\ [NextCPU EXCEPT !.Exceptions = 0].x = NextCPU.x
<1>1. NextCPU \in ThreadState
  BY NextCPUType
<1>2. QED
  BY <1>1 DEF NextCPU, NoThread, ThreadState

LEMMA CountFast ==
  ASSUME TypeOK, SafeInv, LimitInv, FastInv, Up, misuse = {}, misuse' = {}, ThreadCount,
         UNCHANGED <<FFHW, threadObject>>
  PROVE  FastInv'
<1> DEFINE x == thread.x
           n == (pCPUDB[x].StayAliveCount + 1) % Word
<1>1. /\ thread \in ThreadState /\ thread.pc = "count" /\ x \in CPU
      /\ pCPUDB \in [CPU -> Entry] /\ speed' = speed
  BY DEF ThreadCount, TypeOK, PerfTypeOK, ThreadState
<1>2. IdleFast /\ FreeFast /\ BusyInv
  BY DEF FastInv
<1>3. \A c \in CPU : pCPUDB[c].StayAliveCount >= FailureLimit => speed[c] = 0
  BY <1>1 DEF FastInv, LateFast
<1>4. \/ broken' = "null" /\ UNCHANGED <<pCPUDB, thread>>
      \/ /\ broken' = broken
         /\ pCPUDB' = [pCPUDB EXCEPT ![x].StayAliveCount = n]
         /\ thread' = [thread EXCEPT !.pc = "set", !.StayAlive = n,
                         !.Limit = StayAliveFailureLimit]
  BY DEF ThreadCount
<1>5. CASE broken' = "null" /\ UNCHANGED <<pCPUDB, thread>>
  BY <1>1, <1>2, <1>3, <1>5 DEF FastInv, IdleFast, FreeFast, LateFast, SetInv, BusyInv, Up
<1>6. CASE /\ broken' = broken
           /\ pCPUDB' = [pCPUDB EXCEPT ![x].StayAliveCount = n]
           /\ thread' = [thread EXCEPT !.pc = "set", !.StayAlive = n,
                           !.Limit = StayAliveFailureLimit]
  <2>1. pCPUDB[x].StayAliveCount \in 0 .. Word - 1 /\ Word \in Nat /\ FailureLimit \in Nat \ {0}
    BY <1>1, PerfCtlAssumption DEF Entry, ULONG
  <2>2. n > FailureLimit => pCPUDB[x].StayAliveCount >= FailureLimit
    <3>1. n = IF pCPUDB[x].StayAliveCount + 1 = Word THEN 0 ELSE pCPUDB[x].StayAliveCount + 1
      BY <2>1
    <3>2. QED
      BY <2>1, <3>1
  <2> HIDE DEF n
  <2>3. thread'.pc = "set" /\ thread'.x = x /\ thread'.StayAlive = n
    BY <1>1, <1>6 DEF ThreadState
  <2>4. /\ \A c \in CPU : pCPUDB'[c].PState = pCPUDB[c].PState
        /\ \A c \in CPU \ {x} : pCPUDB'[c] = pCPUDB[c]
        /\ pCPUDB'[x].StayAliveCount = n
    BY <1>1, <1>6 DEF Entry
  <2>5. IdleFast' /\ FreeFast' /\ BusyInv'
    BY <1>1, <1>2, <1>6, <2>3, <2>4 DEF IdleFast, FreeFast, BusyInv, AllFast, Up
  <2>6. LateFast'
    BY <1>1, <1>3, <2>3, <2>4 DEF LateFast
  <2>7. SetInv'
    BY <1>1, <1>3, <2>2, <2>3, <2>4 DEF SetInv
  <2>8. QED
    BY <2>5, <2>6, <2>7 DEF FastInv
<1>7. QED
  BY <1>4, <1>5, <1>6

LEMMA SetFast ==
  ASSUME TypeOK, SafeInv, LimitInv, FastInv, Up, misuse = {}, misuse' = {}, ThreadSet,
         UNCHANGED <<FFHW, threadObject>>
  PROVE  FastInv'
<1> DEFINE x == thread.x
<1>1. /\ thread \in ThreadState /\ thread.pc = "set" /\ x \in CPU
      /\ pCPUDB \in [CPU -> Entry] /\ speed \in [CPU -> PState]
      /\ thread.StayAlive \in 0 .. Word - 1 /\ thread.Limit = FailureLimit
  BY DEF ThreadSet, WriteMsr, GiveUp, TypeOK, PerfTypeOK, ThreadState, ULONG, LimitInv
<1>2. threadObject
  BY <1>1 DEF SafeInv, ThreadInv, ThreadRuns
<1>3. /\ ~FFHW => AllFast
      /\ FreeFast /\ pCPUDB[x].PState # FREE
      /\ \A c \in CPU \ {x} : pCPUDB[c].StayAliveCount >= FailureLimit => speed[c] = 0
      /\ pCPUDB[x].StayAliveCount \in {0, thread.StayAlive}
      /\ thread.StayAlive > FailureLimit => speed[x] = 0
  BY <1>1 DEF FastInv, IdleFast, LateFast, SetInv, BusyInv
<1>4. FailureLimit \in 1 .. Word - 2 /\ Word \in Nat /\ (FailureLimit + 1) % Word = FailureLimit + 1
  BY PerfCtlAssumption
<1>5. WithinLimit <=> thread.StayAlive <= FailureLimit
  BY <1>1, <1>4 DEF WithinLimit
<1>6. NextCPU.pc \in {"sample", "loop"} /\ [NextCPU EXCEPT !.Exceptions = 0].pc \in {"sample", "loop"}
  BY <1>1, NextCPUFields
<1>7. CASE WriteMsr /\ UNCHANGED <<pCPUDB, broken, grant>>
  <2>1. ~MsrException(NextCPU)
    BY DEF MsrException
  <2>2. /\ speed' = [speed EXCEPT ![x] =
             IF ~FFHW THEN @ ELSE IF thread.StayAlive < thread.Limit THEN thread.lo ELSE 0]
        /\ thread'.pc \in {"sample", "loop"}
    BY <1>6, <1>7, <2>1 DEF WriteMsr
  <2>3. \A c \in CPU \ {x} : speed'[c] = speed[c]
    BY <1>1, <2>2
  <2>4. thread.StayAlive = FailureLimit => speed'[x] = 0
    BY <1>1, <1>3, <2>2 DEF AllFast
  <2>5. ~FFHW => \A c \in CPU : speed'[c] = 0
    BY <1>1, <1>3, <2>2 DEF AllFast
  <2>6. IdleFast'
    BY <1>2, <2>5 DEF IdleFast, AllFast
  <2>7. FreeFast'
    BY <1>3, <1>7, <2>3 DEF FreeFast
  <2>8. LateFast'
    <3>1. pCPUDB[x].StayAliveCount >= FailureLimit => thread.StayAlive = FailureLimit
      BY <1>1, <1>3, <1>4, <1>5, <1>7 DEF WriteMsr
    <3>2. QED
      BY <1>3, <1>7, <2>3, <2>4, <3>1 DEF LateFast
  <2>9. QED
    BY <2>2, <2>6, <2>7, <2>8 DEF FastInv, SetInv, BusyInv
<1>8. CASE GiveUp /\ UNCHANGED <<ThreadGo, speed, grant, misuse>>
  <2>1. speed[x] = 0
    BY <1>1, <1>3, <1>4, <1>5, <1>8 DEF GiveUp
  <2>2. \A c \in CPU : pCPUDB[c].StayAliveCount >= FailureLimit => speed[c] = 0
    BY <1>3, <2>1
  <2>3. CASE /\ pCPUDB' = [pCPUDB EXCEPT ![x].PState = FREE]
             /\ thread' = NextCPU /\ UNCHANGED broken
    <3>1. /\ \A c \in CPU \ {x} : pCPUDB'[c] = pCPUDB[c]
          /\ pCPUDB'[x].StayAliveCount = pCPUDB[x].StayAliveCount
      BY <1>1, <2>3 DEF Entry
    <3>2. QED
      BY <1>2, <1>3, <1>6, <1>8, <2>1, <2>2, <2>3, <3>1
         DEF FastInv, IdleFast, FreeFast, LateFast, SetInv, BusyInv, AllFast
  <2>4. CASE broken' = "null" /\ UNCHANGED <<pCPUDB, thread>>
    BY <1>1, <1>3, <1>8, <2>1, <2>2, <2>4
       DEF FastInv, IdleFast, FreeFast, LateFast, SetInv, BusyInv, Up
  <2>5. QED
    BY <1>8, <2>3, <2>4 DEF GiveUp
<1>9. QED
  BY <1>7, <1>8 DEF ThreadSet

LEMMA ThreadFast ==
  ASSUME TypeOK, SafeInv, LimitInv, FastInv, Up, misuse = {}, misuse' = {}, Thread
  PROVE  FastInv'
<1>1. UNCHANGED <<FFHW, threadObject>> /\ thread \in ThreadState
  BY DEF Thread, PerfCtlThread, TypeOK, PerfTypeOK
<1>2. CASE ThreadCount
  BY <1>1, <1>2, CountFast
<1>3. CASE ThreadSet
  BY <1>1, <1>3, SetFast
<1>4. CASE ThreadStart \/ ThreadLoop \/ ThreadSample \/ ThreadCheck \/ ThreadFind
  <2>1. UNCHANGED <<pCPUDB, speed>> /\ thread.pc # "set"
    BY <1>4 DEF ThreadStart, ThreadLoop, ThreadSample, ThreadCheck, ThreadFind
  <2>2. IdleFast /\ FreeFast /\ LateFast /\ SetInv /\ BusyInv
    BY DEF FastInv
  <2>3. IdleFast' /\ FreeFast'
    BY <1>1, <2>1, <2>2 DEF IdleFast, FreeFast, AllFast, Up
  <2>4. \A c \in CPU : pCPUDB[c].StayAliveCount >= FailureLimit => speed[c] = 0
    BY <2>1, <2>2 DEF LateFast
  <2>5. thread'.pc # "set"
    BY <1>1, <1>4, <2>1, NextCPUFields
       DEF ThreadStart, ThreadLoop, ThreadSample, MsrException, ThreadCheck, ThreadFind,
           ThreadState
  <2>6. BusyInv'
    <3>1. CASE ThreadCheck
      <4>1. CASE thread' = [thread EXCEPT !.pc = "find"] /\ pCPUDB[thread.x].PState # FREE
        <5>1. thread'.x = thread.x
          BY <1>1, <4>1 DEF ThreadState
        <5>2. QED
          BY <2>1, <4>1, <5>1 DEF BusyInv
      <4>2. CASE thread' = NextCPU
        BY <1>1, <4>2, NextCPUFields DEF BusyInv
      <4>3. CASE broken' = "null"
        BY <4>3 DEF BusyInv, Up
      <4>4. QED
        BY <3>1, <4>1, <4>2, <4>3 DEF ThreadCheck
    <3>2. CASE ThreadFind
      <4>1. thread'.x = thread.x /\ thread.pc = "find"
        BY <1>1, <3>2 DEF ThreadFind, ThreadState
      <4>2. QED
        BY <2>1, <2>2, <4>1 DEF BusyInv
    <3>3. CASE ThreadStart \/ ThreadLoop \/ ThreadSample
      <4>1. thread'.pc \notin {"find", "count", "set"} \/ broken' = "null"
        BY <1>1, <3>3 DEF ThreadStart, ThreadLoop, ThreadSample, MsrException, ThreadState
      <4>2. QED
        BY <4>1 DEF BusyInv, Up
    <3>4. QED
      BY <1>4, <3>1, <3>2, <3>3
  <2>7. LateFast' /\ SetInv'
    BY <2>1, <2>4, <2>5 DEF LateFast, SetInv
  <2>8. QED
    BY <2>3, <2>6, <2>7 DEF FastInv
<1>5. QED
  BY <1>2, <1>3, <1>4 DEF Thread, PerfCtlThread

\* A request leaves counts alone, or sets one to 0, and makes no CPU nobody's.
LEMMA RequestFast ==
  ASSUME TypeOK, FastInv, misuse = {}, misuse' = {}, Up,
         NEW a \in App, DeviceControl(a) \/ FinishRequest
  PROVE  FastInv'
<1>1. UNCHANGED <<FFHW, thread, speed, threadObject>>
  BY DEF DeviceControl, Request, FinishRequest, ResetCount
<1>2. /\ pCPUDB \in [CPU -> Entry] /\ thread.x \in CPU
  BY DEF TypeOK, PerfTypeOK, ThreadState
<1>3. \A c \in CPU : /\ pCPUDB'[c].PState = pCPUDB[c].PState \/ pCPUDB'[c].PState # FREE
                     /\ pCPUDB'[c].StayAliveCount \in {0, pCPUDB[c].StayAliveCount}
  <2>1. CASE UNCHANGED pCPUDB
    BY <2>1
  <2>2. ASSUME NEW k \in CPU, NEW q, pCPUDB' = [pCPUDB EXCEPT ![k].PState = q], q # FREE
        PROVE  \A c \in CPU : /\ pCPUDB'[c].PState = pCPUDB[c].PState \/ pCPUDB'[c].PState # FREE
                              /\ pCPUDB'[c].StayAliveCount = pCPUDB[c].StayAliveCount
    BY <1>2, <2>2 DEF Entry
  <2>3. CASE FinishRequest
    <3>1. CASE pCPUDB' = [pCPUDB EXCEPT ![unreset].StayAliveCount = 0]
      BY <1>2, <3>1 DEF Entry
    <3>2. QED
      BY <2>1, <2>3, <3>1 DEF FinishRequest, ResetCount
  <2>4. CASE DeviceControl(a)
    <3>1. ASSUME NEW k \in CPU \cup {NumProcs}, NEW q \in PState \cup {FREE},
                 SetPState(k, q) \/ SetNowPState(k, q)
          PROVE  \/ UNCHANGED pCPUDB
                 \/ k \in CPU /\ pCPUDB' = [pCPUDB EXCEPT ![k].PState = q] /\ q # FREE
      BY <3>1 DEF SetPState, SetNowPState, Grant, Noted
    <3>2. UNCHANGED pCPUDB \/ \E k \in CPU \cup {NumProcs}, q \in PState \cup {FREE} :
                                SetPState(k, q) \/ SetNowPState(k, q)
      BY <2>4 DEF DeviceControl, Request
    <3>3. QED
      BY <2>1, <2>2, <3>1, <3>2
  <2>5. QED
    BY <2>3, <2>4
<1>4. IdleFast' /\ FreeFast' /\ BusyInv'
  BY <1>1, <1>2, <1>3 DEF FastInv, IdleFast, FreeFast, BusyInv, AllFast, Up
<1>5. LateFast'
  BY <1>1, <1>2, <1>3, PerfCtlAssumption DEF FastInv, LateFast
<1>6. SetInv'
  BY <1>1, <1>2, <1>3 DEF FastInv, SetInv
<1>7. QED
  BY <1>4, <1>5, <1>6 DEF FastInv

\* While nobody's thread runs, all CPUs are fast: a table may be allocated anew.
LEMMA NewTable ==
  ASSUME AllFast, ~ThreadRuns', pCPUDB' = FreeCPUs, speed' = speed
  PROVE  FastInv'
<1>1. \A c \in CPU : pCPUDB'[c].PState = FREE /\ pCPUDB'[c].StayAliveCount = 0 /\ speed'[c] = 0
  BY DEF AllFast, FreeCPUs
<1>2. thread'.pc \notin {"find", "count", "set"}
  BY DEF ThreadRuns
<1>3. QED
  BY <1>1, <1>2 DEF FastInv, IdleFast, FreeFast, LateFast, SetInv, BusyInv, AllFast

LEMMA CreateFast ==
  ASSUME TypeOK, SafeInv, FastInv, misuse = {}, Up, NEW a \in App, Create(a)
  PROVE  FastInv'
<1>1. speed' = speed
  BY DEF Create
<1>2. IdleFast /\ FreeFast /\ LateFast /\ SetInv /\ BusyInv
  BY DEF FastInv
<1>3. CASE Open(a)
  <2>1. UNCHANGED <<FFHW, pCPUDB, thread, threadObject>> /\ (Up' => Up)
    BY <1>3 DEF Open, Up
  <2>2. QED
    BY <1>1, <1>2, <2>1 DEF FastInv, IdleFast, FreeFast, LateFast, SetInv, BusyInv, AllFast
<1>4. CASE ~Open(a)
  <2>1. a \in Opening
    BY <1>4 DEF Create, AllocCPUDB, GetACPIPstateData, StartThread, Opening
  <2>2. ~threadObject /\ ~ThreadRuns /\ AllFast
    BY <1>2, <2>1 DEF SafeInv, OpenInv, ThreadInv, IdleFast
  <2>3. CASE AllocCPUDB(a) /\ pCPUDB' = FreeCPUs
    BY <1>1, <2>2, <2>3, NewTable DEF AllocCPUDB, ThreadRuns
  <2>4. CASE pCPUDB' = pCPUDB
    <3>1. \A c \in CPU : speed[c] = 0
      BY <2>2 DEF AllFast
    <3>2. thread'.pc \notin {"find", "count", "set"}
      BY <1>4, <2>2 DEF Create, AllocCPUDB, GetACPIPstateData, StartThread, ThreadRuns, NoThread
    <3>3. QED
      BY <1>1, <2>4, <3>1, <3>2 DEF FastInv, IdleFast, FreeFast, LateFast, SetInv, BusyInv, AllFast
  <2>5. QED
    BY <1>4, <2>3, <2>4 DEF Create, AllocCPUDB, GetACPIPstateData, StartThread
<1>5. QED
  BY <1>3, <1>4

LEMMA DeviceFast ==
  ASSUME TypeOK, SafeInv, FastInv, misuse = {}, misuse' = {}, Up, AddDevice \/ EndOfDevice
  PROVE  FastInv'
<1>1. IdleFast /\ FreeFast /\ LateFast /\ SetInv /\ BusyInv
  BY DEF FastInv
<1>2. ASSUME NEW d \in Device, AddFirst(d), UNCHANGED speed
      PROVE  FastInv'
  <2>1. ~threadObject
    BY <1>2 DEF AddFirst, SafeInv, ThreadInv
  <2>2. AllFast
    BY <1>1, <2>1 DEF IdleFast
  <2>3. ~ThreadRuns' /\ pCPUDB' = FreeCPUs
    BY <1>2 DEF AddFirst, NewControl, ThreadRuns, NoThread
  <2>4. QED
    BY <1>2, <2>2, <2>3, NewTable
<1>3. CASE /\ UNCHANGED <<FFHW, pCPUDB, thread, speed, threadObject>>
           /\ Up' => Up
  BY <1>1, <1>3 DEF FastInv, IdleFast, FreeFast, LateFast, SetInv, BusyInv, AllFast
<1>4. CASE EndOfDevice
  <2>1. FreeTables
    BY <1>4 DEF EndOfDevice, StopEnd, RemoveEnd
  <2>2. AllFast /\ UNCHANGED <<FFHW, pCPUDB, thread, speed>>
    BY <2>1 DEF FreeTables, AllFast
  <2>3. QED
    BY <1>1, <2>2 DEF FastInv, IdleFast, FreeFast, LateFast, SetInv, BusyInv, AllFast, Up
<1>5. CASE AddDevice
  BY <1>2, <1>3, <1>5 DEF AddDevice, AddWithoutControl, AddFurther, AddFails, deviceVars, Up
<1>6. QED
  BY <1>4, <1>5

LEMMA StepFast ==
  ASSUME TypeOK, SafeInv, LimitInv, FastInv, [Next]_vars
  PROVE  FastInv'
<1> SUFFICES ASSUME misuse' = {} PROVE FastInv'
  BY DEF FastInv
<1>1. misuse = {}
  BY MisuseGrows
<1>2. CASE Thread
  BY <1>1, <1>2, ThreadFast DEF Thread
<1>3. CASE FinishRequest
  <2>1. Up /\ UNCHANGED app
    BY <1>3 DEF FinishRequest
  <2>2. PICK a \in App : app[a] = "open"
    BY <1>3, <2>1 DEF FinishRequest, ResetCount, SafeInv, OpenInv
  <2>3. QED
    BY <1>1, <1>3, <2>1, <2>2, RequestFast
<1>4. CASE EndOfDevice \/ (Up /\ AddDevice)
  BY <1>1, <1>4, DeviceFast DEF EndOfDevice
<1>5. CASE RemoveFilter \/ EndBegin("stop") \/ EndBegin("remove") \/ UNCHANGED vars
  <2>1. UNCHANGED <<FFHW, pCPUDB, thread, speed, broken, threadObject>>
    BY <1>5 DEF RemoveFilter, EndBegin, vars, perfVars
  <2>2. QED
    BY <1>1, <2>1 DEF FastInv, IdleFast, FreeFast, LateFast, SetInv, BusyInv, AllFast, Up
<1>6. ASSUME NEW a \in App, Up, Create(a) \/ Close(a) \/ DeviceControl(a)
      PROVE  FastInv'
  <2>1. CASE Close(a)
    <3>1. UNCHANGED <<FFHW, pCPUDB, thread, speed, broken, threadObject>>
      BY <2>1 DEF Close, perfVars
    <3>2. QED
      BY <1>1, <3>1 DEF FastInv, IdleFast, FreeFast, LateFast, SetInv, BusyInv, AllFast, Up
  <2>2. QED
    BY <1>1, <1>6, <2>1, CreateFast, RequestFast
<1>7. QED
  BY <1>2, <1>3, <1>4, <1>5, <1>6 DEF Next

LEMMA InitFast ==
  ASSUME Init
  PROVE  FastInv /\ LimitInv
<1>1. AllFast /\ pCPUDB = FreeCPUs /\ StayAliveFailureLimit = FailureLimit /\ thread.pc = "none"
  BY DEF Init, PerfInit, AllFast, NoThread
<1>2. \A c \in CPU : pCPUDB[c].StayAliveCount = 0
  BY <1>1 DEF FreeCPUs
<1>3. FastInv
  BY <1>1, <1>2 DEF FastInv, IdleFast, FreeFast, LateFast, SetInv, BusyInv, AllFast
<1>4. LimitInv
  BY <1>1 DEF LimitInv
<1>5. QED
  BY <1>3, <1>4

----------------------------------------------------------------------------
(***************************************************************************)
(* Grants.                                                                 *)
(***************************************************************************)
Ahead(c) == pCPUDB[c].StayAliveCount + (IF Awaits(c) THEN 1 ELSE 0)

\* GrantInv, where grants are not touched and no count gets further ahead.
LEMMA NotAhead ==
  ASSUME TypeOK, TypeOK', GrantInv, UNCHANGED <<tables, unreset, grant>>,
         \A c \in CPU : Ahead(c)' <= Ahead(c)
  PROVE  GrantInv'
<1>1. /\ pCPUDB \in [CPU -> Entry] /\ pCPUDB' \in [CPU -> Entry] /\ grant \in [CPU -> Granted]
  BY DEF TypeOK, PerfTypeOK
<1>2. ASSUME NEW c \in CPU,
             grant'[c].PState # FREE /\ unreset' # c /\ grant'[c].age < FailureLimit
      PROVE  Ahead(c)' <= grant'[c].age + 1
  <2>1. Ahead(c) <= grant[c].age + 1
    BY <1>2 DEF GrantInv, Ahead
  <2>2. grant[c].age \in Int /\ Ahead(c) \in Int /\ Ahead(c)' \in Int
    BY <1>1, PerfCtlAssumption DEF Granted, Entry, ULONG, Ahead
  <2>3. QED
    BY <2>1, <2>2
<1>3. QED
  BY <1>2 DEF GrantInv, Ahead

\* The thread counts a CPU once in a cycle.
LEMMA CountOnce ==
  ASSUME TypeOK, Thread, ~ThreadLoop
  PROVE  \A c \in CPU : Ahead(c)' <= Ahead(c)
<1>1. /\ thread \in ThreadState /\ thread.x \in Nat /\ thread.x \in CPU
      /\ pCPUDB \in [CPU -> Entry] /\ \A c \in CPU : pCPUDB[c].StayAliveCount \in Nat
  BY PerfCtlAssumption DEF TypeOK, PerfTypeOK, ThreadState, CPU, Entry, ULONG
<1>2. NumProcs \in Nat /\ \A c \in CPU : c \in Nat
  BY PerfCtlAssumption DEF CPU
<1>3. ASSUME thread.pc \in {"check", "set"}, NEW next, next.pc = NextCPU.pc, next.x = NextCPU.x,
             thread' = next, NEW c \in CPU, Awaits(c)'
      PROVE  Awaits(c)
  BY <1>1, <1>2, <1>3, NextCPUFields DEF Awaits
<1>4. CASE ThreadCount
  <2> DEFINE x == thread.x
             n == (pCPUDB[x].StayAliveCount + 1) % Word
  <2>1. n \in Nat /\ n <= pCPUDB[x].StayAliveCount + 1
    <3>1. pCPUDB[x].StayAliveCount \in 0 .. Word - 1 /\ Word \in Nat \ {0}
      BY <1>1, PerfCtlAssumption DEF Entry, ULONG
    <3>2. n = IF pCPUDB[x].StayAliveCount + 1 = Word THEN 0 ELSE pCPUDB[x].StayAliveCount + 1
      BY <3>1
    <3>3. QED
      BY <1>1, <3>2
  <2>2. \/ UNCHANGED <<pCPUDB, thread>>
        \/ /\ pCPUDB' = [pCPUDB EXCEPT ![x].StayAliveCount = n]
           /\ thread' = [thread EXCEPT !.pc = "set", !.StayAlive = n,
                           !.Limit = StayAliveFailureLimit]
    BY <1>4 DEF ThreadCount
  <2> HIDE DEF n
  <2>3. CASE UNCHANGED <<pCPUDB, thread>>
    BY <1>1, <2>3 DEF Ahead, Awaits
  <2>4. CASE /\ pCPUDB' = [pCPUDB EXCEPT ![x].StayAliveCount = n]
             /\ thread' = [thread EXCEPT !.pc = "set", !.StayAlive = n,
                             !.Limit = StayAliveFailureLimit]
    <3>1. thread.pc = "count" /\ thread'.pc = "set" /\ thread'.x = x
      BY <1>1, <1>4, <2>4 DEF ThreadCount, ThreadState
    <3>2. ASSUME NEW c \in CPU \ {x}
          PROVE  Ahead(c)' <= Ahead(c)
      <4>1. pCPUDB'[c] = pCPUDB[c] /\ (Awaits(c)' <=> Awaits(c))
        BY <1>1, <1>2, <2>4, <3>1 DEF Awaits
      <4>2. QED
        BY <1>1, <4>1 DEF Ahead
    <3>3. ASSUME NEW c \in CPU, c = x
          PROVE  Ahead(c)' <= Ahead(c)
      <4>1. pCPUDB'[c].StayAliveCount = n /\ ~Awaits(c)' /\ Awaits(c)
        BY <1>1, <2>4, <3>1, <3>3 DEF Awaits, Entry
      <4>2. Ahead(c)' = n /\ Ahead(c) = pCPUDB[c].StayAliveCount + 1
        BY <2>1, <4>1 DEF Ahead
      <4>3. QED
        BY <2>1, <3>3, <4>2
    <3>4. QED
      BY <3>2, <3>3
  <2>5. QED
    BY <2>2, <2>3, <2>4
<1>5. CASE ThreadStart \/ ThreadSample \/ ThreadFind
  <2>1. ASSUME NEW c \in CPU, Awaits(c)' PROVE Awaits(c)
    BY <1>1, <1>5, <2>1
       DEF ThreadStart, ThreadSample, MsrException, ThreadFind, ThreadState, Awaits
  <2>2. pCPUDB' = pCPUDB
    BY <1>5 DEF ThreadStart, ThreadSample, ThreadFind
  <2>3. QED
    BY <1>1, <2>1, <2>2 DEF Ahead
<1>6. CASE ThreadCheck
  <2>1. ASSUME NEW c \in CPU, Awaits(c)' PROVE Awaits(c)
    <3>1. CASE thread' = NextCPU
      BY <1>3, <1>6, <2>1, <3>1 DEF ThreadCheck
    <3>2. CASE thread' = [thread EXCEPT !.pc = "find"] \/ thread' = thread
      BY <1>1, <1>6, <2>1, <3>2 DEF ThreadCheck, ThreadState, Awaits
    <3>3. QED
      BY <1>6, <3>1, <3>2 DEF ThreadCheck
  <2>2. pCPUDB' = pCPUDB
    BY <1>6 DEF ThreadCheck
  <2>3. QED
    BY <1>1, <2>1, <2>2 DEF Ahead
<1>7. CASE ThreadSet
  <2>1. /\ thread.pc = "set"
        /\ \/ thread' = thread
           \/ thread'.pc = NextCPU.pc /\ thread'.x = NextCPU.x
    <3>1. NextCPU \in ThreadState
      BY <1>1, NextCPUType
    <3>2. MsrException(NextCPU) => thread'.pc = NextCPU.pc /\ thread'.x = NextCPU.x
      BY <3>1 DEF MsrException, ThreadState
    <3>3. QED
      BY <1>1, <1>7, <3>2, NextCPUFields DEF ThreadSet, WriteMsr, GiveUp
  <2>2. ASSUME NEW c \in CPU, Awaits(c)' PROVE Awaits(c)
    BY <1>3, <2>1, <2>2 DEF Awaits
  <2>3. \A c \in CPU : pCPUDB'[c].StayAliveCount = pCPUDB[c].StayAliveCount
    BY <1>1, <1>7 DEF ThreadSet, WriteMsr, GiveUp, Entry
  <2>4. QED
    BY <1>1, <2>2, <2>3 DEF Ahead
<1>8. QED
  BY <1>4, <1>5, <1>6, <1>7 DEF Thread, PerfCtlThread

\* Where no grant is left nothing is promised.
LEMMA NoGrants ==
  ASSUME grant' = [c \in CPU |-> NoGrant]
  PROVE  GrantInv'
<1>1. \A c \in CPU : grant'[c].PState = FREE
  BY DEF NoGrant
<1>2. QED
  BY <1>1 DEF GrantInv

LEMMA ThreadGrant ==
  ASSUME TypeOK, TypeOK', GrantInv, Thread
  PROVE  GrantInv'
<1>1. UNCHANGED <<tables, unreset>>
  BY DEF Thread, PerfCtlThread
<1>2. CASE ThreadLoop
  <2>1. /\ pCPUDB' = pCPUDB /\ pCPUDB \in [CPU -> Entry] /\ grant \in [CPU -> Granted]
        /\ thread \in ThreadState /\ thread.pc = "loop"
    BY <1>2 DEF ThreadLoop, TypeOK, PerfTypeOK
  <2>2. CASE UNCHANGED grant /\ thread' = [thread EXCEPT !.pc = "ended"]
    <3>1. \A c \in CPU : Ahead(c)' <= Ahead(c)
      BY <2>1, <2>2, PerfCtlAssumption DEF Ahead, Awaits, ThreadState, Entry, ULONG
    <3>2. QED
      BY <1>1, <2>2, <3>1, NotAhead
  <2>3. CASE grant' = [c \in CPU |-> Older(grant[c])]
    <3>1. \A c \in CPU : /\ grant'[c].PState = grant[c].PState
                         /\ grant'[c].age = IF grant[c].age < FailureLimit
                                            THEN grant[c].age + 1 ELSE grant[c].age
      BY <2>1, <2>3 DEF Older, Granted
    <3>2. \A c \in CPU : grant[c].age \in Nat /\ pCPUDB[c].StayAliveCount \in Nat
      BY <2>1, PerfCtlAssumption DEF Granted, Entry, ULONG
    <3>3. \A c \in CPU : ~Awaits(c)
      BY <2>1 DEF Awaits
    <3>4. ASSUME NEW c \in CPU,
                 grant'[c].PState # FREE /\ unreset' # c /\ grant'[c].age < FailureLimit
          PROVE  Ahead(c)' <= grant'[c].age + 1
      <4>1. /\ grant[c].PState # FREE /\ unreset # c /\ grant[c].age < FailureLimit
            /\ grant'[c].age = grant[c].age + 1
        BY <1>1, <3>1, <3>4
      <4>2. pCPUDB[c].StayAliveCount <= grant[c].age + 1
        BY <3>2, <3>3, <4>1 DEF GrantInv
      <4>3. QED
        BY <2>1, <3>2, <4>1, <4>2 DEF Ahead
    <3>5. QED
      BY <1>1, <3>1, <3>4 DEF GrantInv, Ahead
  <2>4. QED
    BY <1>2, <2>2, <2>3 DEF ThreadLoop
<1>3. CASE ~ThreadLoop
  <2>1. UNCHANGED grant
    BY <1>3 DEF Thread, PerfCtlThread, ThreadStart, ThreadSample, ThreadCheck, ThreadFind,
                ThreadCount, ThreadSet
  <2>2. QED
    BY <1>1, <1>3, <2>1, CountOnce, NotAhead
<1>4. QED
  BY <1>2, <1>3

LEMMA RequestGrant ==
  ASSUME TypeOK, TypeOK', GrantInv,
         FinishRequest \/ \E a \in App : DeviceControl(a)
  PROVE  GrantInv'
<1>1. /\ pCPUDB \in [CPU -> Entry] /\ grant \in [CPU -> Granted]
      /\ \A c \in CPU : grant[c].age \in Nat /\ pCPUDB[c].StayAliveCount \in Nat
  BY PerfCtlAssumption DEF TypeOK, PerfTypeOK, Granted, Entry, ULONG
<1>2. thread' = thread /\ tables' = tables /\ \A c \in CPU : Awaits(c)' <=> Awaits(c)
  BY DEF DeviceControl, Request, FinishRequest, ResetCount, Awaits
<1>3. CASE UNCHANGED <<pCPUDB, grant, unreset>>
  BY <1>2, <1>3 DEF GrantInv
<1>4. ASSUME NEW k \in CPU, NEW p, Grant(k, p), "CPUDB" \in tables, unreset = NONE
      PROVE  GrantInv'
  <2>1. ASSUME NEW c \in CPU \ {k}
        PROVE  /\ grant'[c] = grant[c] /\ pCPUDB'[c] = pCPUDB[c]
    BY <1>1, <1>4 DEF Grant
  <2>2. unreset' = k
    BY <1>4 DEF Grant
  <2>3. QED
    BY <1>2, <1>4, <2>1, <2>2 DEF GrantInv, CPU
<1>5. CASE FinishRequest
  <2>1. unreset' = NONE /\ grant' = grant /\ unreset \in CPU
    BY <1>5 DEF FinishRequest, ResetCount, TypeOK, PerfTypeOK
  <2>2. CASE "CPUDB" \notin tables
    BY <1>2, <2>1, <2>2 DEF GrantInv
  <2>3. CASE "CPUDB" \in tables
    <3>1. \A c \in CPU : pCPUDB'[c].StayAliveCount = IF c = unreset THEN 0
                                                    ELSE pCPUDB[c].StayAliveCount
      BY <1>1, <1>5, <2>3 DEF FinishRequest, ResetCount, Entry
    <3>2. QED
      BY <1>1, <1>2, <2>1, <2>3, <3>1 DEF GrantInv
  <2>4. QED
    BY <2>2, <2>3
<1>6. CASE \E a \in App : DeviceControl(a)
  <2>1. \/ UNCHANGED <<pCPUDB, grant, unreset>>
        \/ \E k \in CPU \cup {NumProcs}, p \in PState \cup {FREE} :
              SetPState(k, p) \/ SetNowPState(k, p)
    BY <1>6 DEF DeviceControl, Request
  <2>2. unreset = NONE
    BY <1>6 DEF DeviceControl, Request
  <2>3. ASSUME NEW k \in CPU \cup {NumProcs}, NEW p \in PState \cup {FREE},
               SetPState(k, p) \/ SetNowPState(k, p)
        PROVE  GrantInv'
    BY <1>3, <1>4, <2>2, <2>3 DEF SetPState, SetNowPState
  <2>4. QED
    BY <1>3, <2>1, <2>3
<1>7. QED
  BY <1>5, <1>6

\* All that happens to the devices leaves a grant and its count, or no grant at all.
LEMMA DeviceGrant ==
  ASSUME TypeOK, TypeOK', GrantInv,
         \/ AddDevice \/ EndOfDevice
         \/ \E a \in App : Create(a)
  PROVE  GrantInv'
<1>1. CASE grant' = [c \in CPU |-> NoGrant]
  BY <1>1, NoGrants
<1>2. CASE /\ UNCHANGED <<pCPUDB, thread, grant, unreset>>
           /\ "CPUDB" \in tables => "CPUDB" \in tables'
  BY <1>2 DEF GrantInv, Awaits
<1>3. CASE AddDevice
  BY <1>1, <1>2, <1>3
     DEF AddDevice, AddFirst, NewControl, AddWithoutControl, AddFurther, AddFails, deviceVars
<1>4. CASE EndOfDevice
  BY <1>1, <1>4 DEF EndOfDevice, StopEnd, RemoveEnd, FreeTables
<1>5. ASSUME NEW a \in App, Create(a)
      PROVE  GrantInv'
  <2>1. unreset' = unreset
    BY <1>5 DEF Create
  <2>2. CASE Open(a)
    BY <1>2, <2>1, <2>2 DEF Open
  <2>3. CASE AllocCPUDB(a)
    BY <1>1, <1>2, <2>1, <2>3 DEF AllocCPUDB
  <2>4. CASE GetACPIPstateData(a)
    BY <1>2, <2>1, <2>4 DEF GetACPIPstateData, EvaluatePSS
  <2>5. CASE StartThread(a)
    <3>1. UNCHANGED <<pCPUDB, grant, tables>>
      BY <2>5 DEF StartThread
    <3>2. CASE thread' = [NoThread EXCEPT !.pc = "start"]
      <4>1. \A c \in CPU : ~Awaits(c)'
        BY <3>2 DEF Awaits, NoThread
      <4>2. /\ pCPUDB \in [CPU -> Entry]
            /\ \A c \in CPU : pCPUDB[c].StayAliveCount \in Nat
        BY PerfCtlAssumption DEF TypeOK, PerfTypeOK, Entry, ULONG
      <4>3. \A c \in CPU : Ahead(c)' <= Ahead(c)
        BY <3>1, <4>1, <4>2 DEF Ahead
      <4>4. QED
        BY <2>1, <3>1, <4>3, NotAhead
    <3>3. CASE thread' = thread
      BY <1>2, <2>1, <3>1, <3>3
    <3>4. QED
      BY <2>5, <3>2, <3>3 DEF StartThread
  <2>6. QED
    BY <1>5, <2>2, <2>3, <2>4, <2>5 DEF Create
<1>6. QED
  BY <1>3, <1>4, <1>5

LEMMA StepGrant ==
  ASSUME TypeOK, TypeOK', GrantInv, [Next]_vars
  PROVE  GrantInv'
<1>1. CASE UNCHANGED <<pCPUDB, thread, grant, unreset, tables>>
  BY <1>1 DEF GrantInv, Awaits
<1>2. CASE FinishRequest
  BY <1>2, RequestGrant
<1>3. CASE RemoveFilter \/ EndBegin("stop") \/ EndBegin("remove") \/ UNCHANGED vars
            \/ \E a \in App : Close(a)
  BY <1>1, <1>3 DEF RemoveFilter, EndBegin, Close, vars, perfVars
<1>4. QED
  BY <1>2, <1>3, ThreadGrant, RequestGrant, DeviceGrant DEF Next

LEMMA InitGrant ==
  ASSUME Init
  PROVE  GrantInv
BY DEF Init, PerfInit, GrantInv, NoGrant

\* What a step leaves of the state that was granted for CPU c.
Kept(c) == pCPUDB'[c].PState = grant'[c].PState

\* The thread gives up a CPU only when it has counted more cycles than a grant of the
\* age that is kept has seen.
LEMMA GiveUpHolds ==
  ASSUME TypeOK, LimitInv, GrantInv, GiveUp, grant' = grant, "limit" \notin misuse,
         NEW c \in CPU, pCPUDB[c].PState = grant[c].PState, grant[c].age < FailureLimit
  PROVE  Kept(c) \/ Overtaken(c)
<1>1. /\ pCPUDB \in [CPU -> Entry] /\ grant \in [CPU -> Granted] /\ thread \in ThreadState
  BY DEF TypeOK, PerfTypeOK
<1>2. /\ thread.x \in CPU /\ grant[c].age \in Nat /\ pCPUDB[c].StayAliveCount \in Nat
      /\ thread.StayAlive \in Nat /\ FailureLimit \in Nat
  BY <1>1, PerfCtlAssumption DEF ThreadState, Granted, Entry, ULONG
<1>3. CASE pCPUDB' = pCPUDB
  BY <1>3 DEF Kept
<1>4. CASE pCPUDB' = [pCPUDB EXCEPT ![thread.x].PState = FREE]
  <2>1. CASE c # thread.x
    BY <1>1, <1>4, <2>1 DEF Kept
  <2>2. CASE c = thread.x
    <3>1. pCPUDB'[c].PState = FREE
      BY <1>1, <1>4, <2>2 DEF Entry
    <3>2. CASE grant[c].PState = FREE
      BY <3>1, <3>2 DEF Kept
    <3>3. CASE grant[c].PState # FREE
      <4>1. thread.pc = "set" /\ thread.Limit = FailureLimit /\ ~WithinLimit
        BY DEF GiveUp, LimitInv
      <4>2. thread.StayAlive > FailureLimit
        <5>1. (FailureLimit + 1) % Word = FailureLimit + 1
          BY PerfCtlAssumption
        <5>2. QED
          BY <1>2, <4>1, <5>1 DEF WithinLimit
      <4>3. SUFFICES ASSUME unreset # c, pCPUDB[c].StayAliveCount = thread.StayAlive
                     PROVE  FALSE
        BY <2>2, <4>1 DEF Overtaken
      <4>4. ~Awaits(c)
        BY <1>2, <2>2, <4>1, PerfCtlAssumption DEF Awaits, CPU
      <4>5. pCPUDB[c].StayAliveCount <= grant[c].age + 1
        BY <1>2, <3>3, <4>3, <4>4 DEF GrantInv
      <4>6. QED
        BY <1>2, <4>2, <4>3, <4>5
    <3>4. QED
      BY <3>2, <3>3
  <2>3. QED
    BY <2>1, <2>2
<1>5. QED
  BY <1>3, <1>4 DEF GiveUp

LEMMA StepHolds ==
  ASSUME TypeOK, TypeOK', LimitInv, GrantInv, [Next]_vars,
         NEW c \in CPU, pCPUDB[c].PState = grant[c].PState, grant[c].age < FailureLimit,
         "limit" \notin misuse', tables' = tables
  PROVE  Kept(c) \/ Overtaken(c)
<1>1. /\ pCPUDB \in [CPU -> Entry] /\ grant \in [CPU -> Granted]
      /\ "limit" \notin misuse
  BY MisuseGrows DEF TypeOK, PerfTypeOK
<1>2. CASE UNCHANGED <<pCPUDB, grant>>
  BY <1>2 DEF Kept
<1>3. CASE pCPUDB' = FreeCPUs /\ grant' = [k \in CPU |-> NoGrant]
  BY <1>3 DEF Kept, FreeCPUs, NoGrant
<1>4. CASE Thread
  <2>1. CASE ThreadLoop
    BY <1>1, <2>1 DEF ThreadLoop, Older, Granted, Kept
  <2>2. CASE ThreadCount
    BY <1>1, <2>2 DEF ThreadCount, Entry, Kept
  <2>3. CASE ThreadSet
    BY <1>1, <1>2, <2>3, GiveUpHolds DEF ThreadSet
  <2>4. QED
    BY <1>2, <1>4, <2>1, <2>2, <2>3
       DEF Thread, PerfCtlThread, ThreadStart, ThreadSample, ThreadCheck, ThreadFind
<1>5. CASE FinishRequest
  BY <1>1, <1>5 DEF FinishRequest, ResetCount, Entry, Kept
<1>6. CASE EndOfDevice
  <2>1. tables' = {} /\ UNCHANGED pCPUDB /\ grant' = [k \in CPU |-> NoGrant]
    BY <1>6 DEF EndOfDevice, StopEnd, RemoveEnd, FreeTables
  <2>2. grant[c].PState = FREE
    BY <2>1 DEF GrantInv
  <2>3. QED
    BY <2>1, <2>2 DEF Kept, NoGrant
<1>7. CASE AddDevice
  BY <1>2, <1>3, <1>7
     DEF AddDevice, AddFirst, NewControl, AddWithoutControl, AddFurther, AddFails
<1>8. CASE RemoveFilter \/ EndBegin("stop") \/ EndBegin("remove") \/ UNCHANGED vars
  BY <1>2, <1>8 DEF RemoveFilter, EndBegin, vars, perfVars
<1>9. ASSUME NEW a \in App, Create(a) \/ Close(a)
      PROVE  Kept(c)
  <2>1. \/ UNCHANGED <<pCPUDB, grant>>
        \/ pCPUDB' = FreeCPUs /\ grant' = [k \in CPU |-> NoGrant]
    BY <1>9 DEF Create, Open, AllocCPUDB, GetACPIPstateData, StartThread, Close, perfVars
  <2>2. CASE UNCHANGED <<pCPUDB, grant>>
    BY <2>2 DEF Kept
  <2>3. CASE pCPUDB' = FreeCPUs /\ grant' = [k \in CPU |-> NoGrant]
    BY <2>3 DEF Kept, FreeCPUs, NoGrant
  <2>4. QED
    BY <2>1, <2>2, <2>3
<1>10. ASSUME NEW a \in App, DeviceControl(a)
       PROVE  Kept(c)
  <2>1. ASSUME NEW k \in CPU, NEW p \in PState \cup {FREE}, Grant(k, p)
        PROVE  Kept(c)
    BY <1>1, <2>1 DEF Grant, Entry, Granted, Kept
  <2>2. CASE UNCHANGED <<pCPUDB, grant>>
    BY <2>2 DEF Kept
  <2>3. ASSUME NEW k \in CPU \cup {NumProcs}, NEW p \in PState \cup {FREE},
               SetPState(k, p) \/ SetNowPState(k, p)
        PROVE  Kept(c)
    BY <2>1, <2>2, <2>3 DEF SetPState, SetNowPState
  <2>4. QED
    BY <1>10, <2>2, <2>3 DEF DeviceControl, Request
<1>11. QED
  BY <1>4, <1>5, <1>6, <1>7, <1>8, <1>9, <1>10 DEF Next

Inv == TypeOK /\ SafeInv /\ LimitInv /\ FastInv /\ GrantInv

LEMMA Invariance == Spec => []Inv
<1>1. Init => Inv
  BY InitType, InitSafe, InitFast, InitGrant DEF Inv
<1>2. Inv /\ [Next]_vars => Inv'
  BY StepType, StepSafe, StepLimit, StepFast, StepGrant DEF Inv
<1>3. QED
  BY <1>1, <1>2, PTL DEF Spec

----------------------------------------------------------------------------
(***************************************************************************)
(* The theorems.                                                           *)
(***************************************************************************)
\* The state is always of its type (entry.c, Thread.c), whatever the applications ask.
THEOREM TypeCorrect == Spec => []TypeOK
<1>1. Inv => TypeOK
  BY DEF Inv
<1>2. QED
  BY <1>1, Invariance, PTL

\* The thread of the driver never reads a table that is not there, or no longer
\* (Thread.c, against the opens, stops and removals of entry.c), for every number of
\* CPUs, devices and applications.
THEOREM NothingFreedIsUsed == Spec => []NeverBroken
<1>1. Inv => NeverBroken
  BY DEF Inv, SafeInv
<1>2. QED
  BY <1>1, Invariance, PTL

\* A CPU that the driver gives up, or never had, runs at its fastest state, whatever
\* requests overtake the thread (Thread.c:300-330).
THEOREM FreedCPUsAreFast == Spec => []FreeIsFast
<1>1. Inv => FreeIsFast
  <2>1. TypeOK => misuse \subseteq Misuse
    BY DEF TypeOK, PerfTypeOK
  <2>2. QED
    BY <2>1 DEF Inv, FreeIsFast, FastInv, FreeFast, Misuse
<1>2. QED
  BY <1>1, Invariance, PTL

\* A state that is granted is kept for as many cycles of the thread as the limit says,
\* unless the thread overtakes the request (entry.c, Thread.c).
THEOREM GrantsHold == Spec => GrantHolds
<1>1. Inv /\ Inv' /\ [Next]_vars
        => [\A c \in CPU :
              /\ pCPUDB[c].PState = grant[c].PState /\ grant[c].age < FailureLimit
              /\ "limit" \notin misuse' /\ tables' = tables
              => pCPUDB'[c].PState = grant'[c].PState \/ Overtaken(c)]_vars
  BY StepHolds DEF Inv, Kept
<1>2. QED
  BY <1>1, Invariance, PTL DEF Spec, GrantHolds
=============================================================================
