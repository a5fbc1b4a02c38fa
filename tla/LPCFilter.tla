------------------------------ MODULE LPCFilter ------------------------------
(***************************************************************************)
(* The devices of the frequency driver (windowsdriver/entry.c, ACPI.c): a  *)
(* filter device for each CPU, and one control device, which belongs to    *)
(* the first of them and which applications open.  The first application   *)
(* that opens it fetches the firmware's tables and starts the thread of    *)
(* module PerfCtl; a stop or a removal of the first filter ends it.        *)
(*                                                                         *)
(* Plug and play requests come one after the other; requests of different  *)
(* applications overlap.                                                   *)
(***************************************************************************)
EXTENDS PerfCtl

CONSTANTS
  Device,  \* the devices of the CPUs
  App,     \* applications, one handle each
  NULL

ASSUME FilterAssumption == NULL \notin Device

VARIABLES
  filter,         \* filter[d]: there is a filter device for d
  owner,          \* the filter whose pOtherExt is the control device, or NULL
  gCtlDevNum,
  gOpenStatus,    \* NT_SUCCESS(gOpenStatus)
  IsDataObtained,
  threadObject,   \* DispatcherThreadObject # NULL
  app,            \* what each application is doing
  pnp             \* the plug and play request at work

deviceVars == <<filter, owner, gCtlDevNum>>
vars == <<perfVars, deviceVars, gOpenStatus, IsDataObtained, threadObject, app,
          pnp>>

TypeOK ==
  /\ PerfTypeOK
  /\ filter \in [Device -> BOOLEAN]
  /\ owner \in Device \cup {NULL}
  /\ gCtlDevNum \in {0, 1}
  /\ gOpenStatus \in BOOLEAN /\ IsDataObtained \in BOOLEAN
  /\ threadObject \in BOOLEAN
  /\ app \in [App -> {"closed", "alloc", "acpi", "thread", "open"}]
  /\ pnp \in {"idle", "stop", "remove"}

Init ==
  /\ PerfInit
  /\ filter = [d \in Device |-> FALSE] /\ owner = NULL
  /\ gCtlDevNum = 0 /\ gOpenStatus = TRUE
  /\ IsDataObtained = FALSE /\ threadObject = FALSE
  /\ app = [a \in App |-> "closed"]
  /\ pnp = "idle"

\* The applications that are on their way through IRP_MJ_CREATE.
Opening == {a \in App : app[a] \in {"alloc", "acpi", "thread"}}

----------------------------------------------------------------------------
(***************************************************************************)
(* FPFilterAddDevice.                                                      *)
(***************************************************************************)
\* A new control device is zeroed, and Config has its defaults.
NewControl ==
  /\ tables' = {} /\ pCPUDB' = FreeCPUs /\ FFHW' = FALSE
  /\ StayAliveFailureLimit' = FailureLimit
  /\ ThreadGo' = FALSE /\ thread' = NoThread
  /\ grant' = [c \in CPU |-> NoGrant]
  /\ IsDataObtained' = FALSE /\ threadObject' = FALSE

\* The first filter gets the control device.
AddFirst(d) ==
  /\ gCtlDevNum = 0
  /\ NewControl
  /\ filter' = [filter EXCEPT ![d] = TRUE] /\ owner' = d /\ gCtlDevNum' = 1
  /\ UNCHANGED <<broken, misuse>>

\* The control device could not be created; no later filter will try.
AddWithoutControl(d) ==
  /\ gCtlDevNum = 0
  /\ filter' = [filter EXCEPT ![d] = TRUE] /\ gCtlDevNum' = 1
  /\ UNCHANGED <<tables, FFHW, pCPUDB, StayAliveFailureLimit, ThreadGo, thread,
                 grant, IsDataObtained, threadObject, owner, broken, misuse>>

AddFurther(d) ==
  /\ gCtlDevNum = 1
  /\ filter' = [filter EXCEPT ![d] = TRUE]
  /\ UNCHANGED <<tables, FFHW, pCPUDB, StayAliveFailureLimit, ThreadGo, thread,
                 grant, IsDataObtained, threadObject, owner, gCtlDevNum, broken,
                 misuse>>

\* The symbolic link could not be created: the filter is connected to a control
\* device that is deleted.  Or the filter could not be created, or not be
\* attached: a control device is deleted, which only the first filter has.
AddFails ==
  /\ broken' = "unprovided"
  /\ UNCHANGED <<misuse, tables, FFHW, pCPUDB, StayAliveFailureLimit, ThreadGo,
                 thread, grant, IsDataObtained, threadObject, deviceVars>>

AddDevice ==
  /\ pnp = "idle"
  /\ \E d \in Device :
       /\ ~filter[d]
       /\ AddFirst(d) \/ AddWithoutControl(d) \/ AddFurther(d) \/ AddFails
  /\ UNCHANGED <<speed, requests, unreset, gOpenStatus, app, pnp>>

----------------------------------------------------------------------------
(***************************************************************************)
(* IRP_MJ_CREATE.                                                          *)
(***************************************************************************)
Goto(a, step) == app' = [app EXCEPT ![a] = step]

\* The open fails, and so does each later one.
OpenFails(a) == gOpenStatus' = FALSE /\ Goto(a, "closed")

\* The first open goes on to fetch the data.  Others succeed at once, also when
\* the first one has not got them yet.
Open(a) ==
  /\ owner # NULL /\ app[a] = "closed" /\ gOpenStatus
  /\ \/ /\ ~IsDataObtained
        /\ IsDataObtained' = TRUE
        /\ Goto(a, "alloc")
        /\ UNCHANGED broken
     \/ /\ IsDataObtained
        /\ Goto(a, "open")
        /\ broken' = IF Opening # {} THEN "unprovided" ELSE broken
        /\ UNCHANGED IsDataObtained
  /\ UNCHANGED <<tables, FFHW, pCPUDB, ThreadGo, thread, misuse, grant,
                 gOpenStatus, threadObject>>

AllocCPUDB(a) ==
  /\ app[a] = "alloc"
  /\ \/ /\ tables' = tables \cup {"CPUDB"} /\ pCPUDB' = FreeCPUs
        /\ grant' = [c \in CPU |-> NoGrant]
        /\ Goto(a, "acpi") /\ UNCHANGED gOpenStatus
     \/ OpenFails(a) /\ UNCHANGED <<tables, pCPUDB, grant>>
  /\ UNCHANGED <<FFHW, ThreadGo, thread, broken, misuse, IsDataObtained,
                 threadObject>>

\* EvaluateMethodsEx for _PSS: it keeps the data and makes room for statistics,
\* or fails anywhere, of which GetACPIPstateData does not hear.
EvaluatePSS ==
  \/ tables' = tables \cup {"PSS", "Stats"} /\ UNCHANGED broken
  \/ broken' = "unprovided" /\ UNCHANGED tables

\* EvaluateMethodsEx for _PCT: how the CPU's state is set.
EvaluatePCT == FFHW' \in BOOLEAN

\* A CPU that would need MSRs has none.
NoMSRSupport(a) == FFHW' /\ OpenFails(a)

GetACPIPstateData(a) ==
  /\ app[a] = "acpi"
  /\ \/ /\ EvaluatePSS /\ EvaluatePCT
        /\ \/ Goto(a, "thread") /\ UNCHANGED gOpenStatus
           \/ NoMSRSupport(a)
     \/ OpenFails(a) /\ UNCHANGED <<tables, FFHW, broken>>
  /\ UNCHANGED <<pCPUDB, ThreadGo, thread, misuse, grant, IsDataObtained,
                 threadObject>>

\* PsCreateSystemThread and ObReferenceObjectByHandle (there is no thread yet when
\* the data were fetched anew).  If only the latter fails, there is a thread for
\* whose end a stop will not wait.
StartThread(a) ==
  /\ app[a] = "thread" /\ ~threadObject
  /\ ThreadGo' = TRUE
  /\ \/ /\ OpenFails(a)
        /\ UNCHANGED <<thread, broken, threadObject>>
     \/ /\ thread' = [NoThread EXCEPT !.pc = "start"]
        /\ threadObject' = TRUE
        /\ Goto(a, "open") /\ UNCHANGED <<gOpenStatus, broken>>
     \/ /\ broken' = "unprovided"
        /\ UNCHANGED <<gOpenStatus, thread, threadObject, app>>
  /\ UNCHANGED <<tables, FFHW, pCPUDB, grant, misuse, IsDataObtained>>

Create(a) ==
  /\ Open(a) \/ AllocCPUDB(a) \/ GetACPIPstateData(a) \/ StartThread(a)
  /\ UNCHANGED <<StayAliveFailureLimit, speed, requests, unreset, deviceVars,
                 pnp>>

\* Not while a request is at work.
Close(a) ==
  /\ app[a] = "open" /\ unreset = NONE
  /\ Goto(a, "closed")
  /\ UNCHANGED <<perfVars, deviceVars, gOpenStatus, IsDataObtained,
                 threadObject, pnp>>

\* IRP_MJ_DEVICE_CONTROL, by an application that has the device open.
DeviceControl(a) ==
  /\ app[a] = "open"
  /\ Request
  /\ UNCHANGED <<deviceVars, gOpenStatus, IsDataObtained, threadObject, app,
                 pnp>>

----------------------------------------------------------------------------
(***************************************************************************)
(* FPFilterDispatchPnp.                                                    *)
(***************************************************************************)
\* IRP_MN_STOP_DEVICE or IRP_MN_REMOVE_DEVICE reaches the first filter.
EndBegin(request) ==
  /\ pnp = "idle" /\ owner # NULL
  /\ ThreadGo' = FALSE
  /\ pnp' = request
  /\ UNCHANGED <<tables, FFHW, pCPUDB, StayAliveFailureLimit, thread, speed,
                 broken, requests, unreset, grant, misuse, deviceVars,
                 gOpenStatus, IsDataObtained, threadObject, app>>

\* Mutant: the tables are freed while the thread runs.
ThreadGone == TRUE

\* The thread, if its object is known, has ended.
ThreadJoined == threadObject => ~ThreadRuns

\* Somebody has the device open and will go on to use what is freed.
InUse == \E a \in App : app[a] # "closed"

FreeTables ==
  /\ ThreadJoined
  /\ tables' = {}
  /\ threadObject' = FALSE
  /\ grant' = [c \in CPU |-> NoGrant]
  /\ misuse' = misuse \cup (IF \E c \in CPU : speed[c] # 0 THEN {"slow"} ELSE {})
  /\ broken' = IF ~ThreadRuns THEN IF InUse THEN "unprovided" ELSE broken
             ELSE "freed"
  /\ UNCHANGED <<FFHW, pCPUDB, StayAliveFailureLimit, ThreadGo, thread, speed,
                 requests, unreset, gOpenStatus>>

StopEnd ==
  /\ pnp = "stop"
  /\ FreeTables
  /\ IsDataObtained' = FALSE
  /\ pnp' = "idle"
  /\ UNCHANGED <<deviceVars, app>>

\* The control device goes with its filter.
RemoveEnd ==
  /\ pnp = "remove"
  /\ FreeTables
  /\ filter' = [filter EXCEPT ![owner] = FALSE]
  /\ owner' = NULL /\ gCtlDevNum' = 0
  /\ pnp' = "idle"
  /\ UNCHANGED <<app, IsDataObtained>>

\* Another filter is removed.
RemoveFilter ==
  /\ pnp = "idle"
  /\ \E d \in Device \ {owner} :
       filter[d] /\ filter' = [filter EXCEPT ![d] = FALSE]
  /\ UNCHANGED <<perfVars, owner, gCtlDevNum, gOpenStatus, IsDataObtained,
                 threadObject, app, pnp>>

----------------------------------------------------------------------------
Up == broken = "no"

Thread ==
  /\ Up /\ PerfCtlThread
  /\ UNCHANGED <<deviceVars, gOpenStatus, IsDataObtained, threadObject, app,
                 pnp>>

FinishRequest ==
  /\ Up /\ ResetCount
  /\ UNCHANGED <<deviceVars, gOpenStatus, IsDataObtained, threadObject, app,
                 pnp>>

EndOfDevice == Up /\ (StopEnd \/ RemoveEnd)

Next ==
  \/ Thread
  \/ FinishRequest
  \/ EndOfDevice
  \/ /\ Up
     /\ \/ AddDevice \/ RemoveFilter
        \/ EndBegin("stop") \/ EndBegin("remove")
        \/ \E a \in App : Create(a) \/ Close(a) \/ DeviceControl(a)

\* The system runs the driver's thread; nobody needs to open, ask, stop or remove.
Spec == Init /\ [][Next]_vars /\ WF_vars(Thread) /\ WF_vars(EndOfDevice)
             /\ WF_vars(FinishRequest)

----------------------------------------------------------------------------
(***************************************************************************)
(* What the driver promises.                                               *)
(***************************************************************************)
\* The driver touches only what it has, unless something happens for which it
\* does not provide: an open that overtakes the first one, a stop while the device
\* is open, a CPU's number that is one too high, missing firmware tables, a thread
\* without an object, a device that could not be added.
NeverBroken == broken \in {"no", "unprovided"}

\* A CPU that nobody manages runs at its fastest state: the thread makes it fast
\* before it gives it up, whatever requests come in between.  Not so when the
\* limit is changed, when an exception keeps the thread from writing, when an
\* application asks for 0xFFFFFFFF, or when the device is stopped meanwhile.
FreeIsFast ==
  misuse \cap {"limit", "slow"} = {}
    => \A c \in CPU : pCPUDB[c].PState = FREE => speed[c] = 0

\* The thread found the stay alive count too high before the request reset it, or
\* will do so, as the request resets it only after it has set the state.
Overtaken(c) ==
  \/ unreset = c
  \/ /\ thread.pc = "set" /\ thread.x = c /\ ~WithinLimit
     /\ pCPUDB[c].StayAliveCount # thread.StayAlive

\* "If the app didnt set StayAlive to 0 then after a period of time ... we stop":
\* a state that was granted is kept until somebody asks for another one, for as
\* many cycles as the limit says.  Unless the thread overtakes the request.
GrantHolds ==
  [][\A c \in CPU :
       /\ pCPUDB[c].PState = grant[c].PState /\ grant[c].age < FailureLimit
       /\ "limit" \notin misuse' /\ tables' = tables
       => pCPUDB'[c].PState = grant'[c].PState \/ Overtaken(c)]_vars

\* As the applications fall silent, each CPU is given back.
GivenBack ==
  \A c \in CPU : <>[](pCPUDB[c].PState = FREE \/ ~ThreadRuns \/ ~Up)
=============================================================================
