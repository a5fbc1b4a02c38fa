----------------------------- MODULE QuickServer -----------------------------
(***************************************************************************)
(* The threads of the quicktester server (quicktester/linux/server): main, *)
(* which accepts clients and, in a signal handler, shuts the server down;  *)
(* a thread for each client (host_run in server.c); a thread for each      *)
(* meter (meter_start_routine in meter.c).  What the messages of a client  *)
(* do to its experiments is in module Experiment.                          *)
(*                                                                         *)
(* Connections are numbered as they are accepted; the host_t that is made  *)
(* for one has its number.                                                 *)
(*                                                                         *)
(* An access to memory that was freed, or outside of _hosts, is undefined: *)
(* the model stops there and `broken' says what happened.  Linux gives a   *)
(* signal to the main thread.  File descriptors are in module Viewers.     *)
(***************************************************************************)
EXTENDS Integers, FiniteSets

CONSTANTS
  MaxConn,    \* bound: connections that are accepted
  MAX_HOSTS,  \* the length of _hosts
  MeterCount, \* _meters_count
  Slot        \* the slots a client may send

ASSUME ServerAssumption ==
  /\ MaxConn \in Nat
  /\ MAX_HOSTS \in Nat \ {0} /\ MeterCount \in Nat
  /\ Slot \subseteq 0 .. MAX_HOSTS - 1  \* a digit, and MAX_HOSTS is 10

Conn == 1 .. MaxConn
NULL == 0
Index == 0 .. MAX_HOSTS - 1
Meter == 0 .. MeterCount - 1

VARIABLES
  client,          \* client[c]: "away" (not accepted), "connected", "gone": it
                   \* has left, or nobody reads from it any more
  host,            \* host[c]: its id, its thread, whether it was freed; as
                   \* history, its place: the index hosts_add enters it at
  _hosts,          \* the table, and ...
  _hosts_count,    \* ... how many hosts were ever entered
  _hosts_continue,
  meter,           \* meter[j]: its thread, run, whether it was freed; as
                   \* history, whether it was told to stop
  signaled,
  pc,              \* where main is
  interrupted,     \* where the signal has interrupted it
  cur,             \* the client main deals with, and its slot
  slot,
  k,               \* the index of the loop main is in
  h,               \* what hosts_stop has read from _hosts[k]
  broken           \* "no", or the first undefined access

vars == <<client, host, _hosts, _hosts_count, _hosts_continue, meter, signaled,
          pc, interrupted, cur, slot, k, h, broken>>
tableVars == <<_hosts, _hosts_count>>
mainVars == <<signaled, interrupted, cur, slot, k, h>>

MainPC == {"accept", "read_slot", "add", "store", "stop", "join", "joining",
           "delete", "meters_stop", "fini", "fini_join", "exit"}

TypeOK ==
  /\ client \in [Conn -> {"away", "connected", "gone"}]
  /\ host \in [Conn -> [id : Slot \cup {-1}, freed : BOOLEAN, place : Index,
       thread : {"none", "guard", "read", "remove", "clear", "ended"}]]
  /\ _hosts \in [Index -> Conn \cup {NULL}]
  /\ _hosts_count \in 0 .. MAX_HOSTS
  /\ _hosts_continue \in BOOLEAN
  /\ meter \in [Meter -> [thread : {"created", "running", "ended"},
                          run : BOOLEAN, freed : BOOLEAN, told : BOOLEAN]]
  /\ signaled \in BOOLEAN
  /\ pc \in MainPC /\ interrupted \in MainPC
  /\ cur \in Conn \cup {NULL} /\ slot \in Slot \cup {-1}
  /\ k \in 0 .. MAX_HOSTS + MeterCount
  /\ h \in Conn \cup {NULL}
  /\ broken \in {"no", "host", "meter", "table", "twice", "join"}

NoHost == [id |-> -1, freed |-> FALSE, place |-> 0, thread |-> "none"]

\* After meters_init, hosts_init and meters_start, which has created a thread for
\* each meter.
Init ==
  /\ client = [c \in Conn |-> "away"]
  /\ host = [c \in Conn |-> NoHost]
  /\ _hosts = [i \in Index |-> NULL] /\ _hosts_count = 0
  /\ _hosts_continue = TRUE
  /\ meter = [j \in Meter |-> [thread |-> "created", run |-> FALSE,
                              freed |-> FALSE, told |-> FALSE]]
  /\ signaled = FALSE
  /\ pc = "accept" /\ interrupted = "accept"
  /\ cur = NULL /\ slot = -1 /\ k = 0 /\ h = NULL
  /\ broken = "no"

\* The process runs.
Up == broken = "no" /\ pc # "exit"

----------------------------------------------------------------------------
Leave(c) ==
  /\ client[c] = "connected"
  /\ client' = [client EXCEPT ![c] = "gone"]
  /\ UNCHANGED <<host, tableVars, _hosts_continue, meter, pc, mainVars, broken>>

----------------------------------------------------------------------------
(***************************************************************************)
(* main.                                                                   *)
(***************************************************************************)
\* The loop of main.
Accept(c) ==
  /\ pc = "accept" /\ ~signaled
  /\ client[c] = "away" /\ \A d \in 1 .. c - 1 : client[d] # "away"
  /\ client' = [client EXCEPT ![c] = "connected"]
  /\ cur' = c
  /\ pc' = "read_slot"
  /\ UNCHANGED <<host, tableVars, _hosts_continue, meter, signaled, interrupted,
                 slot, k, h, broken>>

\* After a signal, whose handler has run main_end already.
Exit ==
  /\ pc = "accept" /\ signaled
  /\ pc' = "exit"
  /\ UNCHANGED <<client, host, tableVars, _hosts_continue, meter, mainVars,
                 broken>>

\* main is done with its client.
NextClient == pc' = "accept" /\ cur' = NULL /\ slot' = -1

\* main forgets a client it makes no host for; it does not close the connection.
GiveUp == NextClient /\ client' = [client EXCEPT ![cur] = "gone"]

\* meters_get; a slot without a meter becomes -1, and the host is added still.
SlotOf(s) == IF s \in Meter /\ ~meter[s].freed THEN s ELSE -1

\* read_slot, when the client sends its slot, or something else, ...
ReadSlot ==
  /\ pc = "read_slot" /\ client[cur] = "connected"
  /\ \/ /\ \E s \in Slot : slot' = SlotOf(s)
        /\ pc' = "add" /\ UNCHANGED <<client, cur>>
     \/ GiveUp
  /\ UNCHANGED <<host, tableVars, _hosts_continue, meter, signaled,
                 interrupted, k, h, broken>>

\* ... and when it leaves.
ReadNoSlot ==
  /\ pc = "read_slot" /\ client[cur] = "gone"
  /\ NextClient
  /\ UNCHANGED <<client, host, tableVars, _hosts_continue, meter, signaled,
                 interrupted, k, h, broken>>

\* hosts_add: the host's thread runs before the host is entered in the table.
CreateHost ==
  /\ pc = "add"
  /\ \/ /\ _hosts_count < MAX_HOSTS
        /\ \E t \in {"guard", "ended"} :  \* ended: no memory for a message
             host' = [host EXCEPT ![cur] =
               [id |-> slot, freed |-> FALSE, place |-> _hosts_count,
                thread |-> t]]
        /\ pc' = "store" /\ UNCHANGED <<client, cur, slot>>
     \/ GiveUp /\ UNCHANGED host   \* full, or out of memory
  /\ UNCHANGED <<tableVars, _hosts_continue, meter, signaled,
                 interrupted, k, h, broken>>

StoreHost ==
  /\ pc = "store"
  /\ _hosts' = [_hosts EXCEPT ![_hosts_count] = cur]
  /\ _hosts_count' = _hosts_count + 1
  /\ NextClient
  /\ UNCHANGED <<client, host, _hosts_continue, meter, signaled, interrupted, k,
                 h, broken>>

----------------------------------------------------------------------------
(***************************************************************************)
(* delete_host(_hosts[i]), the first half of hosts_remove(i), which the    *)
(* host's thread calls with its id and hosts_delete with an index.         *)
(***************************************************************************)
FaultOf(i) ==
  IF i \notin Index THEN "table"
  ELSE IF _hosts[i] # NULL /\ host[_hosts[i]].freed THEN "twice" ELSE "no"

Freed(i) == [c \in Conn |->
  [host[c] EXCEPT !.freed = @ \/ (i \in Index /\ _hosts[i] = c)]]

----------------------------------------------------------------------------
(***************************************************************************)
(* The signal handler: main_end.                                           *)
(***************************************************************************)
Signal ==
  /\ pc \in {"accept", "read_slot", "add", "store"} /\ ~signaled
  /\ signaled' = TRUE
  /\ interrupted' = pc
  /\ _hosts_continue' = FALSE
  /\ k' = 0
  /\ pc' = "stop"
  /\ UNCHANGED <<client, host, tableVars, meter, cur, slot, h, broken>>

\* Mutant: the threads of the hosts are not waited for.
hosts_stopAtOnce ==
  /\ pc = "stop"
  /\ k' = 0 /\ pc' = "delete"
  /\ UNCHANGED <<h, broken>>

\* hosts_stop: the host is read from the table, then its thread from the host.
hosts_stop ==
  \/ /\ pc = "stop" /\ k < _hosts_count /\ _hosts[k] = NULL
     /\ k' = k + 1
     /\ UNCHANGED <<pc, h, broken>>
  \/ /\ pc = "stop" /\ k < _hosts_count /\ _hosts[k] # NULL
     /\ h' = _hosts[k]
     /\ pc' = "join"
     /\ UNCHANGED <<k, broken>>
  \/ /\ pc = "join"
     /\ IF host[h].freed THEN broken' = "join" /\ UNCHANGED pc
        ELSE pc' = "joining" /\ UNCHANGED broken
     /\ UNCHANGED <<k, h>>
  \/ /\ pc = "joining" /\ host[h].thread = "ended"
     /\ k' = k + 1 /\ h' = NULL
     /\ pc' = "stop"
     /\ UNCHANGED broken
  \/ /\ pc = "stop" /\ k >= _hosts_count
     /\ k' = 0 /\ pc' = "delete"
     /\ UNCHANGED <<h, broken>>

hosts_delete ==
  \/ /\ pc = "delete" /\ k < _hosts_count
     /\ broken' = FaultOf(k) /\ host' = Freed(k)
     /\ _hosts' = [_hosts EXCEPT ![k] = NULL]
     /\ k' = k + 1
     /\ UNCHANGED pc
  \/ /\ pc = "delete" /\ k >= _hosts_count
     /\ k' = 0 /\ pc' = "meters_stop"
     /\ UNCHANGED <<host, _hosts, broken>>

\* Mutant: the meters are not told to stop.
SetRunForgotten(J) == J \subseteq Meter /\ UNCHANGED meter

\* meters_stop, and the beginning of meter_delete: run = 0.
SetRun(J) == meter' = [j \in Meter |->
  IF j \in J THEN [meter[j] EXCEPT !.run = FALSE, !.told = TRUE] ELSE meter[j]]

\* meters_stop and meters_fini; the handler returns to where main was.
meters_end ==
  \/ /\ pc = "meters_stop"
     /\ SetRun(Meter)
     /\ pc' = "fini" /\ UNCHANGED k
  \/ /\ pc = "fini" /\ k < MeterCount
     /\ SetRun({k})
     /\ pc' = "fini_join" /\ UNCHANGED k
  \/ /\ pc = "fini_join" /\ meter[k].thread = "ended"
     /\ meter' = [meter EXCEPT ![k].freed = TRUE]
     /\ k' = k + 1 /\ pc' = "fini"
  \/ /\ pc = "fini" /\ k >= MeterCount
     /\ pc' = interrupted /\ k' = 0 /\ UNCHANGED meter

main_end ==
  /\ \/ hosts_stop /\ UNCHANGED <<host, _hosts, meter>>
     \/ hosts_delete /\ UNCHANGED <<h, meter>>
     \/ meters_end /\ UNCHANGED <<host, _hosts, h, broken>>
  /\ UNCHANGED <<client, _hosts_count, _hosts_continue, signaled, interrupted,
                 cur, slot>>

main == Up /\ (Exit \/ ReadNoSlot \/ CreateHost \/ StoreHost \/ main_end)

----------------------------------------------------------------------------
(***************************************************************************)
(* host_run.                                                               *)
(***************************************************************************)
Goto(c, thread) == host' = [host EXCEPT ![c].thread = thread]

HostGuard(c) ==
  /\ host[c].thread = "guard"
  /\ \/ /\ _hosts_continue /\ host[c].freed
        /\ broken' = "host" /\ UNCHANGED host
     \/ /\ _hosts_continue => ~host[c].freed
        /\ Goto(c, IF _hosts_continue THEN "read" ELSE "remove")
        /\ UNCHANGED broken
  /\ UNCHANGED _hosts

\* A message is read and handled, in which case the meter may be asked for its
\* energy, or is too long, in which case the client is given up.
HostMessage(c) ==
  /\ host[c].thread = "read" /\ client[c] = "connected"
  /\ \/ /\ host[c].freed
        /\ broken' = "host" /\ UNCHANGED host
     \/ /\ ~host[c].freed
        /\ \E t \in {"guard", "remove"} : Goto(c, t)
        /\ UNCHANGED broken
     \/ /\ ~host[c].freed /\ host[c].id \in Meter /\ meter[host[c].id].freed
        /\ broken' = "meter" /\ UNCHANGED host

\* The client has left.
HostReadEnd(c) ==
  /\ host[c].thread = "read" /\ client[c] = "gone"
  /\ \/ host[c].freed /\ broken' = "host" /\ UNCHANGED host
     \/ ~host[c].freed /\ Goto(c, "remove") /\ UNCHANGED broken
  /\ UNCHANGED _hosts

\* The end of host_run: the summary, the close and hosts_remove(host->id).
HostRemove(c) ==
  \/ /\ host[c].thread = "remove"
     /\ broken' = IF host[c].freed THEN "host" ELSE FaultOf(host[c].id)
     /\ host' = [Freed(host[c].id) EXCEPT ![c].thread = "clear"]
     /\ client' = [client EXCEPT ![c] = "gone"]
     /\ UNCHANGED _hosts
  \/ /\ host[c].thread = "clear"
     /\ _hosts' = [_hosts EXCEPT ![host[c].id] = NULL]
     /\ Goto(c, "ended")
     /\ UNCHANGED <<client, broken>>

host_run(c) ==
  /\ Up
  /\ \/ HostGuard(c) /\ UNCHANGED client
     \/ HostReadEnd(c) /\ UNCHANGED client
     \/ HostRemove(c)
  /\ UNCHANGED <<_hosts_count, _hosts_continue, meter, pc, mainVars>>

----------------------------------------------------------------------------
(***************************************************************************)
(* meter_start_routine: sets run itself; ends when it is told to, when the *)
(* meter cannot be written to, or after 20 readings that failed.           *)
(***************************************************************************)
MeterBegin(j) ==
  /\ meter[j].thread = "created"
  /\ meter' = [meter EXCEPT ![j].thread = "running", ![j].run = TRUE]

MeterStopped(j) ==
  /\ meter[j].thread = "running" /\ ~meter[j].run
  /\ meter' = [meter EXCEPT ![j].thread = "ended"]

MeterFail(j) ==
  /\ meter[j].thread = "running"
  /\ meter' = [meter EXCEPT ![j].thread = "ended"]

meter_start_routine(j) ==
  /\ Up
  /\ MeterBegin(j) \/ MeterStopped(j)
  /\ UNCHANGED <<client, host, tableVars, _hosts_continue, pc, mainVars, broken>>

\* What clients, meters and the operator do.
Environment ==
  /\ Up
  /\ \/ \E c \in Conn :
          \/ Accept(c) \/ Leave(c)
          \/ /\ HostMessage(c)
             /\ UNCHANGED <<client, tableVars, _hosts_continue, meter, pc, mainVars>>
     \/ ReadSlot \/ Signal
     \/ /\ \E j \in Meter : MeterFail(j)
        /\ UNCHANGED <<client, host, tableVars, _hosts_continue, pc, mainVars,
                       broken>>

Next == \/ main \/ Environment
        \/ \E c \in Conn : host_run(c)
        \/ \E j \in Meter : meter_start_routine(j)

Spec == Init /\ [][Next]_vars

\* The system runs every thread that can run; nobody needs to connect, send,
\* leave or give a signal.
FairSpec ==
  /\ Spec
  /\ WF_vars(main)
  /\ \A c \in Conn : WF_vars(host_run(c))
  /\ \A j \in Meter : WF_vars(meter_start_routine(j))

----------------------------------------------------------------------------
(***************************************************************************)
(* What the server promises.                                               *)
(***************************************************************************)

\* Every host so far had a meter and was entered at the index of its slot.
Orderly == \A c \in Conn : host[c].thread # "none" => host[c].id = host[c].place

\* As long as hosts_remove(host->id) meets the host it is meant for, no host is
\* used after it was freed, or freed twice, whenever clients leave and the signal
\* comes.  What is left to chance: hosts_stop may read the thread of a host that
\* just removes itself, and a signal between pthread_create and the entry in
\* _hosts deletes the meters while the new host runs.
SoundWhenOrderly ==
  Orderly => \/ broken = "no"
             \/ broken = "join"
             \/ broken = "meter" /\ interrupted = "store"

\* meter_stop came before the meter's thread has set run = 1: the thread goes on
\* while meter_delete waits for it.
StopMissed(j) == pc = "fini_join" /\ k = j /\ meter[j].run /\ meter[j].told

\* After a signal the server ends once all clients have left, unless a meter
\* misses that it was told to stop (main_end: hosts_stop, hosts_delete, meters_stop,
\* meters_fini, wherever main was interrupted).
ShutsDown ==
  <>[](\A c \in Conn : client[c] # "connected")
    => (signaled ~> (pc = "exit" \/ broken # "no" \/ \E j \in Meter : StopMissed(j)))

=============================================================================
