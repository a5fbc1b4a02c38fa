------------------------- MODULE QuickServerProofs -------------------------
(***************************************************************************)
(* Proofs about QuickServer, for every number of connections, hosts and    *)
(* meters.                                                                 *)
(***************************************************************************)
EXTENDS QuickServer, TLAPS

\* Main is in the signal handler; before the hosts have been waited for.
Stopping == pc \in {"stop", "join", "joining"}
Handler == Stopping \/ pc \in {"delete", "meters_stop", "fini", "fini_join"}

\* Where main's own loop is.
MainAt(place) == pc = place \/ (Handler /\ interrupted = place)

\* The thread of a host was created; it may still use its host.
IsHost(c) == host[c].thread # "none"
Uses(c) == host[c].thread \in {"guard", "read", "remove"}

\* The loops of the handler stay within the tables.
HandlerInv ==
  /\ Handler => /\ signaled
                /\ interrupted \in {"accept", "read_slot", "add", "store"}
  /\ ~Handler \/ pc = "meters_stop" => k = 0
  /\ pc = "exit" => signaled
  /\ signaled => ~_hosts_continue
  /\ pc \in {"stop", "delete"} => k <= _hosts_count
  /\ pc \in {"join", "joining"} =>
       k < _hosts_count /\ h \in Conn /\ _hosts[k] \in {NULL, h}
  /\ pc = "fini" => k <= MeterCount
  /\ pc = "fini_join" => k < MeterCount
  /\ \A j \in Meter : meter[j].freed =>
       signaled /\ ~Stopping /\ pc \notin {"delete", "meters_stop"}

\* No two hosts have one place, and each but the one that main is about to enter
\* was entered at its place.
PlaceInv ==
  /\ \A c \in Conn : client[c] = "away" => ~IsHost(c)
  /\ MainAt("read_slot") \/ MainAt("add") =>
       cur \in Conn /\ ~IsHost(cur) /\ client[cur] # "away"
  /\ MainAt("store") => /\ cur \in Conn /\ IsHost(cur) /\ _hosts_count < MAX_HOSTS
                        /\ host[cur].place = _hosts_count
  /\ \A c \in Conn : IsHost(c) => \/ host[c].place < _hosts_count
                                  \/ MainAt("store") /\ c = cur
  /\ \A c, d \in Conn : IsHost(c) /\ IsHost(d) /\ c # d => host[c].place # host[d].place
  /\ \A i \in Index : _hosts[i] # NULL =>
       IsHost(_hosts[i]) /\ host[_hosts[i]].place = i /\ i < _hosts_count
  /\ \A c \in Conn : ~IsHost(c) => ~host[c].freed

\* A host is freed by its own thread at its end, or by the handler once the thread
\* has ended.
UseInv ==
  /\ \A c \in Conn : host[c].freed => ~Uses(c)
  /\ \A i \in Index : _hosts[i] # NULL /\ host[_hosts[i]].freed =>
       host[_hosts[i]].thread = "clear"
  /\ \A c \in Conn : Uses(c) /\ host[c].place < _hosts_count => _hosts[host[c].place] = c
  /\ \A i \in Index : (Stopping /\ i < k) \/ pc = "delete" =>
       _hosts[i] = NULL \/ host[_hosts[i]].thread = "ended"
  /\ signaled /\ ~Stopping /\ interrupted # "store" =>
       \A c \in Conn : host[c].thread # "read"
  /\ MainAt("store") => ~host[cur].freed

Sound == broken \in {"no", "join"} \/ (broken = "meter" /\ interrupted = "store")

Inv == TypeOK /\ HandlerInv /\ PlaceInv /\ (Orderly => UseInv /\ Sound)

----------------------------------------------------------------------------
(***************************************************************************)
(* Types.                                                                  *)
(***************************************************************************)
LEMMA Limits ==
  /\ MaxConn \in Nat /\ MAX_HOSTS \in Nat \ {0} /\ MeterCount \in Nat
  /\ Slot \subseteq Index
BY ServerAssumption DEF Index

\* What a step of main outside of the handler leaves is of its type, ...
LEMMA MainType ==
  ASSUME TypeOK, PlaceInv,
         \/ \E c \in Conn : Accept(c)
         \/ Exit \/ ReadSlot \/ ReadNoSlot \/ CreateHost \/ StoreHost \/ Signal
  PROVE  TypeOK'
<1> USE Limits DEF mainVars, tableVars, NextClient, GiveUp, MainPC
<1>1. CASE \E c \in Conn : Accept(c)
  BY <1>1 DEF TypeOK, Accept
<1>2. CASE Exit \/ ReadNoSlot
  BY <1>2 DEF TypeOK, Exit, ReadNoSlot
<1>3. CASE ReadSlot
  <2>1. \A s \in Slot : SlotOf(s) \in Slot \cup {-1}
    BY DEF SlotOf
  <2>2. slot' \in Slot \cup {-1} /\ client' \in [Conn -> {"away", "connected", "gone"}]
    BY <1>3, <2>1 DEF TypeOK, ReadSlot
  <2>3. QED
    BY <1>3, <2>2 DEF TypeOK, ReadSlot
<1>4. CASE CreateHost
  <2>1. cur \in Conn
    BY <1>4 DEF PlaceInv, MainAt, CreateHost
  <2>2. host' \in [Conn -> [id : Slot \cup {-1}, freed : BOOLEAN, place : Index,
              thread : {"none", "guard", "read", "remove", "clear", "ended"}]]
    <3>1. CASE UNCHANGED host
      BY <3>1 DEF TypeOK
    <3>2. CASE _hosts_count < MAX_HOSTS /\ \E t \in {"guard", "ended"} :
                 host' = [host EXCEPT ![cur] = [id |-> slot, freed |-> FALSE,
                                                place |-> _hosts_count, thread |-> t]]
      <4>1. _hosts_count \in Index
        BY <3>2 DEF TypeOK, Index
      <4>2. QED
        BY <2>1, <3>2, <4>1 DEF TypeOK
    <3>3. QED
      BY <1>4, <3>1, <3>2 DEF CreateHost
  <2>3. QED
    BY <1>4, <2>1, <2>2 DEF TypeOK, CreateHost
<1>5. CASE StoreHost
  <2>1. cur \in Conn /\ _hosts_count \in Index /\ _hosts_count + 1 \in 0 .. MAX_HOSTS
    BY <1>5 DEF PlaceInv, MainAt, StoreHost, TypeOK, Index
  <2>2. _hosts' \in [Index -> Conn \cup {NULL}] /\ _hosts_count' \in 0 .. MAX_HOSTS
    BY <1>5, <2>1 DEF TypeOK, StoreHost
  <2>3. UNCHANGED <<client, host, _hosts_continue, meter, signaled, interrupted, k,
                    h, broken>>
    BY <1>5 DEF StoreHost
  <2>4. pc' \in MainPC /\ cur' \in Conn \cup {NULL} /\ slot' \in Slot \cup {-1}
    BY <1>5 DEF StoreHost
  <2>5. QED
    BY <2>2, <2>3, <2>4 DEF TypeOK
<1>6. CASE Signal
  <2>1. k' \in 0 .. MAX_HOSTS + MeterCount
    BY <1>6 DEF Signal
  <2>2. /\ signaled' \in BOOLEAN /\ _hosts_continue' \in BOOLEAN
        /\ pc' \in MainPC /\ interrupted' \in MainPC
    BY <1>6 DEF TypeOK, Signal
  <2>3. UNCHANGED <<client, host, _hosts, _hosts_count, meter, cur, slot, h, broken>>
    BY <1>6 DEF Signal
  <2>4. QED
    BY <2>1, <2>2, <2>3 DEF TypeOK
<1>7. QED
  BY <1>1, <1>2, <1>3, <1>4, <1>5, <1>6

\* ... as is what the handler leaves, ...
LEMMA FreedType ==
  ASSUME TypeOK, NEW i
  PROVE  Freed(i) \in [Conn -> [id : Slot \cup {-1}, freed : BOOLEAN, place : Index,
           thread : {"none", "guard", "read", "remove", "clear", "ended"}]]
BY DEF TypeOK, Freed

LEMMA SetRunType ==
  ASSUME TypeOK, NEW J, SetRun(J)
  PROVE  meter' \in [Meter -> [thread : {"created", "running", "ended"},
                     run : BOOLEAN, freed : BOOLEAN, told : BOOLEAN]]
BY DEF TypeOK, SetRun

LEMMA HandlerType ==
  ASSUME TypeOK, HandlerInv, main_end
  PROVE  TypeOK'
<1> USE Limits DEF main_end, MainPC
<1>1. CASE hosts_stop /\ UNCHANGED <<host, _hosts, meter>>
  <2>1. h' \in Conn \cup {NULL} /\ k' \in 0 .. MAX_HOSTS + MeterCount
    BY <1>1 DEF TypeOK, hosts_stop, HandlerInv, Index
  <2>2. broken' \in {"no", "host", "meter", "table", "twice", "join"} /\ pc' \in MainPC
    BY <1>1 DEF TypeOK, hosts_stop
  <2>3. QED
    BY <1>1, <2>1, <2>2 DEF TypeOK
<1>2. CASE hosts_delete /\ UNCHANGED <<h, meter>>
  <2>1. host' \in [Conn -> [id : Slot \cup {-1}, freed : BOOLEAN, place : Index,
           thread : {"none", "guard", "read", "remove", "clear", "ended"}]]
    BY <1>2, FreedType DEF TypeOK, hosts_delete
  <2>2. k' \in 0 .. MAX_HOSTS + MeterCount /\ _hosts' \in [Index -> Conn \cup {NULL}]
    BY <1>2 DEF TypeOK, hosts_delete
  <2>3. broken' \in {"no", "host", "meter", "table", "twice", "join"} /\ pc' \in MainPC
    BY <1>2 DEF TypeOK, hosts_delete, FaultOf
  <2>4. QED
    BY <1>2, <2>1, <2>2, <2>3 DEF TypeOK
<1>3. CASE meters_end /\ UNCHANGED <<host, _hosts, h, broken>>
  <2>1. pc' \in MainPC /\ k' \in 0 .. MAX_HOSTS + MeterCount
    BY <1>3 DEF TypeOK, meters_end, HandlerInv
  <2>2. meter' \in [Meter -> [thread : {"created", "running", "ended"},
                    run : BOOLEAN, freed : BOOLEAN, told : BOOLEAN]]
    <3>1. CASE SetRun(Meter)
      BY <3>1, SetRunType
    <3>2. CASE SetRun({k})
      BY <3>2, SetRunType
    <3>3. CASE pc = "fini_join" /\ meter' = [meter EXCEPT ![k].freed = TRUE]
      <4>1. k \in Meter
        BY <3>3 DEF TypeOK, HandlerInv, Meter
      <4>2. QED
        BY <3>3, <4>1 DEF TypeOK
    <3>4. CASE UNCHANGED meter
      BY <3>4 DEF TypeOK
    <3>5. QED
      BY <1>3, <3>1, <3>2, <3>3, <3>4 DEF meters_end
  <2>3. QED
    BY <1>3, <2>1, <2>2 DEF TypeOK
<1>4. QED
  BY <1>1, <1>2, <1>3

\* ... and what the other threads and the environment do.
LEMMA ThreadType ==
  ASSUME TypeOK, NEW c \in Conn,
         \/ host_run(c)
         \/ HostMessage(c) /\ UNCHANGED <<client, tableVars, _hosts_continue, meter, pc,
                                         mainVars>>
         \/ Leave(c)
  PROVE  TypeOK'
<1> USE DEF mainVars, tableVars
<1>1. host' \in [Conn -> [id : Slot \cup {-1}, freed : BOOLEAN, place : Index,
           thread : {"none", "guard", "read", "remove", "clear", "ended"}]]
  <2>1. CASE \E t \in {"read", "guard", "remove", "ended"} : Goto(c, t)
    BY <2>1 DEF TypeOK, Goto
  <2>2. CASE host' = [Freed(host[c].id) EXCEPT ![c].thread = "clear"]
    <3>1. Freed(host[c].id) \in [Conn -> [id : Slot \cup {-1}, freed : BOOLEAN, place : Index,
           thread : {"none", "guard", "read", "remove", "clear", "ended"}]]
      BY FreedType
    <3>2. QED
      BY <2>2, <3>1
  <2>3. CASE UNCHANGED host
    BY <2>3 DEF TypeOK
  <2>4. QED
    BY <2>1, <2>2, <2>3 DEF host_run, HostGuard, HostReadEnd, HostRemove, HostMessage, Leave
<1>2. client' \in [Conn -> {"away", "connected", "gone"}]
  BY DEF TypeOK, host_run, HostRemove, HostMessage, Leave
<1>3. _hosts' \in [Index -> Conn \cup {NULL}]
  BY DEF TypeOK, host_run, HostGuard, HostReadEnd, HostRemove, HostMessage, Leave
<1>4. broken' \in {"no", "host", "meter", "table", "twice", "join"}
  BY DEF TypeOK, host_run, HostGuard, HostReadEnd, HostRemove, HostMessage, Leave, FaultOf
<1>5. UNCHANGED <<_hosts_count, _hosts_continue, meter, pc, mainVars>>
  BY DEF host_run, Leave
<1>6. QED
  BY <1>1, <1>2, <1>3, <1>4, <1>5 DEF TypeOK

LEMMA MeterType ==
  ASSUME TypeOK, NEW j \in Meter, MeterBegin(j) \/ MeterStopped(j) \/ MeterFail(j),
         UNCHANGED <<client, host, tableVars, _hosts_continue, pc, mainVars, broken>>
  PROVE  TypeOK'
BY DEF TypeOK, MeterBegin, MeterStopped, MeterFail, mainVars, tableVars

----------------------------------------------------------------------------
(***************************************************************************)
(* The handler.                                                            *)
(***************************************************************************)
\* The threads of the hosts only clear entries of the table, ...
LEMMA HandlerFrame ==
  ASSUME TypeOK, HandlerInv, UNCHANGED <<_hosts_count, _hosts_continue, pc, mainVars>>,
         \A i \in Index : _hosts'[i] \in {_hosts[i], NULL},
         \A j \in Meter : meter'[j].freed = meter[j].freed
  PROVE  HandlerInv'
<1> USE DEF Handler, Stopping, mainVars
<1>1. pc' \in {"join", "joining"} =>
        k' < _hosts_count' /\ h' \in Conn /\ _hosts'[k'] \in {NULL, h'}
  BY Limits DEF HandlerInv, TypeOK, Index
<1>2. \A j \in Meter : meter'[j].freed =>
        signaled' /\ ~Stopping' /\ pc' \notin {"delete", "meters_stop"}
  BY DEF HandlerInv
<1>3. QED
  BY <1>1, <1>2 DEF HandlerInv

\* ... main starts the handler with k = 0 ...
LEMMA HandlerMain ==
  ASSUME TypeOK, HandlerInv,
         \/ \E c \in Conn : Accept(c)
         \/ Exit \/ ReadSlot \/ ReadNoSlot \/ CreateHost \/ StoreHost \/ Signal
  PROVE  HandlerInv'
<1> USE DEF Handler, Stopping, mainVars, tableVars, NextClient, GiveUp
<1>1. pc \in {"accept", "read_slot", "add", "store"} /\ UNCHANGED meter
  BY DEF Accept, Exit, ReadSlot, ReadNoSlot, CreateHost, StoreHost, Signal
<1>2. CASE Signal
  BY <1>1, <1>2 DEF HandlerInv, Signal, TypeOK
<1>3. CASE ~Signal
  <2>1. /\ pc' \in {"accept", "read_slot", "add", "store", "exit"}
        /\ pc' = "exit" => signaled
        /\ UNCHANGED <<signaled, interrupted, _hosts_continue, k>>
    BY <1>3 DEF Accept, Exit, ReadSlot, ReadNoSlot, CreateHost, StoreHost
  <2>2. QED
    BY <1>1, <2>1 DEF HandlerInv
<1>4. QED
  BY <1>2, <1>3

\* ... and the handler goes through the hosts, and the meters, that there are.
LEMMA HandlerEnd ==
  ASSUME TypeOK, HandlerInv, main_end
  PROVE  HandlerInv'
<1> USE Limits DEF Handler, Stopping, main_end
<1>1. CASE hosts_stop /\ UNCHANGED <<host, _hosts, meter>>
  <2>1. \A j \in Meter : ~meter[j].freed
    BY <1>1 DEF HandlerInv, hosts_stop
  <2>2. pc' \in {"stop", "join", "joining", "delete"}
    BY <1>1 DEF hosts_stop
  <2>3. /\ pc' \in {"stop", "delete"} => k' <= _hosts_count'
        /\ pc' \in {"join", "joining"} =>
             k' < _hosts_count' /\ h' \in Conn /\ _hosts'[k'] \in {NULL, h'}
    BY <1>1 DEF HandlerInv, hosts_stop, TypeOK, Index
  <2>4. signaled' /\ interrupted' \in {"accept", "read_slot", "add", "store"}
    BY <1>1 DEF HandlerInv, hosts_stop
  <2>5. QED
    BY <1>1, <2>1, <2>2, <2>3, <2>4 DEF HandlerInv
<1>2. CASE hosts_delete /\ UNCHANGED <<h, meter>>
  <2>1. \A j \in Meter : ~meter[j].freed
    BY <1>2 DEF HandlerInv, hosts_delete
  <2>2. /\ pc' \in {"delete", "meters_stop"}
        /\ pc' = "delete" => k' <= _hosts_count'
        /\ pc' = "meters_stop" => k' = 0
    BY <1>2 DEF HandlerInv, hosts_delete, TypeOK
  <2>3. signaled' /\ interrupted' \in {"accept", "read_slot", "add", "store"}
    BY <1>2 DEF HandlerInv, hosts_delete
  <2>4. QED
    BY <1>2, <2>1, <2>2, <2>3 DEF HandlerInv
<1>3. CASE meters_end /\ UNCHANGED <<host, _hosts, h, broken>>
  <2>1. pc' \in {"fini", "fini_join", "accept", "read_slot", "add", "store"}
    BY <1>3 DEF HandlerInv, meters_end
  <2>2. /\ pc' = "fini" => k' <= MeterCount
        /\ pc' = "fini_join" => k' < MeterCount
        /\ pc' \in {"accept", "read_slot", "add", "store"} => k' = 0
    <3>1. CASE pc = "meters_stop"
      BY <1>3, <3>1 DEF HandlerInv, meters_end, TypeOK
    <3>2. CASE pc \in {"fini", "fini_join"}
      BY <1>3, <3>2 DEF HandlerInv, meters_end, TypeOK
    <3>3. QED
      BY <1>3, <3>1, <3>2 DEF meters_end
  <2>3. signaled' /\ interrupted' \in {"accept", "read_slot", "add", "store"}
    BY <1>3 DEF HandlerInv, meters_end
  <2>4. QED
    BY <1>3, <2>1, <2>2, <2>3 DEF HandlerInv
<1>4. QED
  BY <1>1, <1>2, <1>3

----------------------------------------------------------------------------
(***************************************************************************)
(* The places of the hosts.                                                *)
(***************************************************************************)
\* Most steps make no host, enter none and leave main's loop where it is, ...
LEMMA PlaceFrame ==
  ASSUME TypeOK, PlaceInv, UNCHANGED <<_hosts_count, cur>>,
         \A c \in Conn : client'[c] = "away" => client[c] = "away",
         \A c \in Conn : /\ IsHost(c)' <=> IsHost(c)
                         /\ host'[c].place = host[c].place
                         /\ ~IsHost(c) => host'[c].freed = host[c].freed,
         \A i \in Index : _hosts'[i] \in {_hosts[i], NULL},
         \A p \in {"read_slot", "add", "store"} : MainAt(p)' <=> MainAt(p)
  PROVE  PlaceInv'
<1>1. \A c \in Conn : client'[c] = "away" => ~IsHost(c)'
  BY DEF PlaceInv
<1>2. MainAt("read_slot")' \/ MainAt("add")' =>
        cur' \in Conn /\ ~IsHost(cur)' /\ client'[cur'] # "away"
  BY DEF PlaceInv
<1>3. MainAt("store")' => /\ cur' \in Conn /\ IsHost(cur)' /\ _hosts_count' < MAX_HOSTS
                          /\ host'[cur'].place = _hosts_count'
  BY DEF PlaceInv
<1>4. \A c \in Conn : IsHost(c)' => \/ host'[c].place < _hosts_count'
                                    \/ MainAt("store")' /\ c = cur'
  BY DEF PlaceInv
<1>5. \A c, d \in Conn : IsHost(c)' /\ IsHost(d)' /\ c # d => host'[c].place # host'[d].place
  BY DEF PlaceInv
<1>6. \A i \in Index : _hosts'[i] # NULL =>
        IsHost(_hosts[i])' /\ host'[_hosts'[i]].place = i /\ i < _hosts_count'
  BY DEF PlaceInv, TypeOK
<1>7. \A c \in Conn : ~IsHost(c)' => ~host'[c].freed
  BY DEF PlaceInv
<1>8. QED
  BY <1>1, <1>2, <1>3, <1>4, <1>5, <1>6, <1>7 DEF PlaceInv

\* ... delete_host frees only a host of the table, ...
LEMMA FreedFrame ==
  ASSUME TypeOK, PlaceInv, NEW i, NEW c \in Conn
  PROVE  /\ Freed(i)[c].thread = host[c].thread /\ Freed(i)[c].place = host[c].place
         /\ Freed(i)[c].id = host[c].id
         /\ Freed(i)[c].freed = (host[c].freed \/ (i \in Index /\ _hosts[i] = c))
         /\ ~IsHost(c) => Freed(i)[c].freed = host[c].freed
<1>1. Freed(i)[c] = [host[c] EXCEPT !.freed = @ \/ (i \in Index /\ _hosts[i] = c)]
  BY DEF Freed
<1>2. host[c] \in [id : Slot \cup {-1}, freed : BOOLEAN, place : Index,
                   thread : {"none", "guard", "read", "remove", "clear", "ended"}]
  BY DEF TypeOK
<1>3. /\ Freed(i)[c].thread = host[c].thread /\ Freed(i)[c].place = host[c].place
      /\ Freed(i)[c].id = host[c].id
      /\ Freed(i)[c].freed = (host[c].freed \/ (i \in Index /\ _hosts[i] = c))
  BY <1>1, <1>2
<1>4. ~IsHost(c) => ~(i \in Index /\ _hosts[i] = c)
  BY DEF PlaceInv, Conn, NULL
<1>5. host[c].freed \in BOOLEAN
  BY <1>2
<1>6. QED
  BY <1>3, <1>4, <1>5, Zenon

\* ... the thread of a host keeps the host's place, ...
LEMMA ThreadPlace ==
  ASSUME TypeOK, PlaceInv, NEW c \in Conn,
         \/ host_run(c)
         \/ HostMessage(c) /\ UNCHANGED <<client, tableVars, _hosts_continue, meter, pc,
                                         mainVars>>
         \/ Leave(c)
  PROVE  PlaceInv'
<1> USE DEF mainVars, tableVars
<1>1. \A d \in Conn : client'[d] = "away" => client[d] = "away"
  BY DEF TypeOK, host_run, HostRemove, HostMessage, Leave
<1>2. \A d \in Conn : /\ IsHost(d)' <=> IsHost(d)
                      /\ host'[d].place = host[d].place
                      /\ ~IsHost(d) => host'[d].freed = host[d].freed
  <2>1. CASE IsHost(c) /\ \E t \in {"read", "guard", "remove", "ended"} : Goto(c, t)
    BY <2>1 DEF TypeOK, Goto, IsHost
  <2>2. CASE IsHost(c) /\ host' = [Freed(host[c].id) EXCEPT ![c].thread = "clear"]
    <3>1. Freed(host[c].id) \in [Conn -> [id : Slot \cup {-1}, freed : BOOLEAN,
            place : Index, thread : {"none", "guard", "read", "remove", "clear", "ended"}]]
      BY FreedType
    <3>2. \A d \in Conn : /\ host'[d].place = Freed(host[c].id)[d].place
                          /\ host'[d].freed = Freed(host[c].id)[d].freed
                          /\ d # c => host'[d].thread = Freed(host[c].id)[d].thread
                          /\ d = c => host'[d].thread = "clear"
      BY <2>2, <3>1
    <3>3. QED
      BY <2>2, <3>2, FreedFrame DEF IsHost
  <2>3. CASE UNCHANGED host
    BY <2>3 DEF IsHost
  <2>4. QED
    BY <2>1, <2>2, <2>3
    DEF host_run, HostGuard, HostReadEnd, HostRemove, HostMessage, Leave, IsHost
<1>3. \A i \in Index : _hosts'[i] \in {_hosts[i], NULL}
  BY DEF TypeOK, host_run, HostGuard, HostReadEnd, HostRemove, HostMessage, Leave
<1>4. UNCHANGED <<_hosts_count, cur, pc, interrupted>>
  BY DEF host_run, Leave
<1>5. \A p \in {"read_slot", "add", "store"} : MainAt(p)' <=> MainAt(p)
  BY <1>4 DEF MainAt, Handler, Stopping
<1>6. QED
  BY <1>1, <1>2, <1>3, <1>4, <1>5, PlaceFrame

\* ... and so does the handler, which returns to where main was.
LEMMA HandlerPlace ==
  ASSUME TypeOK, HandlerInv, PlaceInv, main_end \/ Signal \/ Exit
  PROVE  PlaceInv'
<1> USE DEF mainVars, tableVars
<1>1. UNCHANGED <<_hosts_count, cur, client>>
  BY DEF main_end, Signal, Exit
<1>2. \A d \in Conn : /\ IsHost(d)' <=> IsHost(d)
                      /\ host'[d].place = host[d].place
                      /\ ~IsHost(d) => host'[d].freed = host[d].freed
  <2>1. CASE host' = Freed(k)
    BY <2>1, FreedFrame DEF IsHost
  <2>2. CASE UNCHANGED host
    BY <2>2 DEF IsHost
  <2>3. QED
    BY <2>1, <2>2 DEF main_end, hosts_delete, Signal, Exit
<1>3. \A i \in Index : _hosts'[i] \in {_hosts[i], NULL}
  BY DEF TypeOK, main_end, hosts_delete, Signal, Exit
<1>4. \A p \in {"read_slot", "add", "store"} : MainAt(p)' <=> MainAt(p)
  <2>1. CASE Signal
    BY <2>1 DEF Signal, MainAt, Handler, Stopping
  <2>2. CASE Exit
    BY <2>2 DEF Exit, MainAt, Handler, Stopping
  <2>3. CASE main_end
    <3>1. Handler /\ UNCHANGED interrupted
      BY <2>3 DEF main_end, hosts_stop, hosts_delete, meters_end, Handler, Stopping
    <3>2. Handler' \/ pc' = interrupted
      BY <2>3 DEF main_end, hosts_stop, hosts_delete, meters_end, Handler, Stopping
    <3>3. interrupted \in {"accept", "read_slot", "add", "store"}
      BY <3>1 DEF HandlerInv
    <3>4. QED
      BY <3>1, <3>2, <3>3 DEF MainAt, Handler, Stopping
  <2>4. QED
    BY <2>1, <2>2, <2>3
<1>5. QED
  BY <1>1, <1>2, <1>3, <1>4, PlaceFrame

\* Main makes a host for the client that it deals with, at the end of the table, and
\* enters it there.
LEMMA MainPlace ==
  ASSUME TypeOK, PlaceInv,
         (\E c \in Conn : Accept(c)) \/ ReadSlot \/ ReadNoSlot \/ CreateHost \/ StoreHost
  PROVE  PlaceInv'
<1> USE Limits DEF mainVars, tableVars, MainAt, Handler, Stopping
<1>1. ASSUME NEW c \in Conn, Accept(c) PROVE PlaceInv'
  BY <1>1 DEF Accept, PlaceInv, TypeOK, IsHost
<1>2. CASE ReadSlot \/ ReadNoSlot
  BY <1>2 DEF ReadSlot, ReadNoSlot, NextClient, GiveUp, PlaceInv, TypeOK, IsHost
<1>3. CASE CreateHost
  <2>1. cur \in Conn /\ ~IsHost(cur) /\ pc = "add" /\ client[cur] # "away"
    BY <1>3 DEF CreateHost, PlaceInv
  <2>2. CASE GiveUp /\ UNCHANGED host
    BY <1>3, <2>1, <2>2 DEF CreateHost, NextClient, GiveUp, PlaceInv, TypeOK, IsHost
  <2>3. ASSUME _hosts_count < MAX_HOSTS, UNCHANGED client, pc' = "store", UNCHANGED cur,
               NEW t \in {"guard", "ended"},
               host' = [host EXCEPT ![cur] = [id |-> slot, freed |-> FALSE,
                                              place |-> _hosts_count, thread |-> t]]
        PROVE  PlaceInv'
    <3>1. /\ \A c \in Conn : c # cur => host'[c] = host[c]
          /\ host'[cur].place = _hosts_count /\ host'[cur].thread = t
          /\ ~host'[cur].freed
      BY <2>1, <2>3 DEF TypeOK
    <3>2. \A c \in Conn : IsHost(c) => host[c].place < _hosts_count
      BY <2>1 DEF PlaceInv
    <3>3. UNCHANGED <<_hosts, _hosts_count>>
      BY <1>3 DEF CreateHost
    <3>4. QED
      BY <2>1, <2>3, <3>1, <3>2, <3>3 DEF PlaceInv, TypeOK, IsHost
  <2>4. QED
    BY <1>3, <2>2, <2>3 DEF CreateHost
<1>4. CASE StoreHost
  <2>1. /\ pc = "store" /\ cur \in Conn /\ IsHost(cur) /\ _hosts_count < MAX_HOSTS
        /\ host[cur].place = _hosts_count /\ pc' = "accept"
        /\ UNCHANGED <<client, host>> /\ _hosts_count' = _hosts_count + 1
    BY <1>4 DEF StoreHost, NextClient, PlaceInv
  <2>2. /\ \A i \in Index : i # _hosts_count => _hosts'[i] = _hosts[i]
        /\ _hosts'[_hosts_count] = cur
    BY <1>4, <2>1 DEF StoreHost, TypeOK, Index
  <2>3. \A c \in Conn : IsHost(c)' <=> IsHost(c)
    BY <2>1 DEF IsHost
  <2>4. \A c \in Conn : IsHost(c)' => host'[c].place < _hosts_count'
    <3>1. \A c \in Conn : IsHost(c) => host[c].place < _hosts_count \/ c = cur
      BY DEF PlaceInv
    <3>2. _hosts_count \in Nat /\ \A c \in Conn : host[c].place \in Int
      BY DEF TypeOK, Index
    <3>3. QED
      BY <2>1, <2>3, <3>1, <3>2
  <2>5. ASSUME NEW i \in Index, _hosts'[i] # NULL
        PROVE  IsHost(_hosts[i])' /\ host'[_hosts'[i]].place = i /\ i < _hosts_count'
    <3>1. i \in Int /\ _hosts_count \in Int
      BY DEF TypeOK, Index
    <3>2. CASE i = _hosts_count
      BY <2>1, <2>2, <3>1, <3>2 DEF IsHost
    <3>3. CASE i # _hosts_count
      <4>1. _hosts'[i] = _hosts[i]
        BY <2>2, <3>3
      <4>2. IsHost(_hosts[i]) /\ host[_hosts[i]].place = i /\ i < _hosts_count
        BY <2>5, <4>1 DEF PlaceInv
      <4>3. QED
        BY <2>1, <3>1, <4>1, <4>2 DEF IsHost
    <3>4. QED
      BY <3>2, <3>3
  <2>6. /\ \A c \in Conn : client'[c] = "away" => ~IsHost(c)'
        /\ \A c, d \in Conn : IsHost(c)' /\ IsHost(d)' /\ c # d =>
             host'[c].place # host'[d].place
        /\ \A c \in Conn : ~IsHost(c)' => ~host'[c].freed
    BY <2>1, <2>3 DEF PlaceInv
  <2>7. QED
    BY <2>1, <2>4, <2>5, <2>6 DEF PlaceInv
<1>5. QED
  BY <1>1, <1>2, <1>3, <1>4

----------------------------------------------------------------------------
(***************************************************************************)
(* The uses of a host, when each host is at its index.                     *)
(***************************************************************************)
ThreadStep(c) ==
  \/ HostGuard(c) /\ UNCHANGED client
  \/ HostReadEnd(c) /\ UNCHANGED client
  \/ HostRemove(c)
  \/ HostMessage(c) /\ UNCHANGED <<client, _hosts>>

\* A host whose thread goes from one place to another, without leaving the table, ...
LEMMA GotoUse ==
  ASSUME TypeOK, PlaceInv, UseInv, NEW c \in Conn, Uses(c),
         NEW t \in {"guard", "read", "remove"}, Goto(c, t), t = "read" => ~signaled,
         UNCHANGED <<_hosts, _hosts_count, pc, mainVars>>
  PROVE  UseInv'
<1> USE DEF mainVars, Uses
<1>1. /\ host'[c].thread = t
      /\ \A d \in Conn : /\ host'[d].place = host[d].place /\ host'[d].freed = host[d].freed
                         /\ d # c => host'[d].thread = host[d].thread
  BY DEF Goto, TypeOK
<1>2. ~host[c].freed
  BY DEF UseInv
<1>3. \A i \in Index : _hosts[i] # NULL => _hosts[i] \in Conn
  BY DEF TypeOK
<1>4. \A d \in Conn : host'[d].freed => ~Uses(d)'
  BY <1>1, <1>2 DEF UseInv
<1>5. \A i \in Index : _hosts'[i] # NULL /\ host'[_hosts'[i]].freed =>
        host'[_hosts'[i]].thread = "clear"
  BY <1>1, <1>2, <1>3 DEF UseInv
<1>6. \A d \in Conn : Uses(d)' /\ host'[d].place < _hosts_count' =>
        _hosts'[host'[d].place] = d
  BY <1>1 DEF UseInv
<1>7. \A i \in Index : (Stopping' /\ i < k') \/ pc' = "delete" =>
        _hosts'[i] = NULL \/ host'[_hosts'[i]].thread = "ended"
  BY <1>1, <1>3 DEF UseInv, Stopping
<1>8. signaled' /\ ~Stopping' /\ interrupted' # "store" =>
        \A d \in Conn : host'[d].thread # "read"
  BY <1>1 DEF UseInv, Stopping
<1>9. MainAt("store")' => ~host'[cur'].freed
  BY <1>1 DEF UseInv, MainAt, Handler, Stopping, PlaceInv
<1>10. QED
  BY <1>4, <1>5, <1>6, <1>7, <1>8, <1>9 DEF UseInv

\* ... one that removes itself from the table ...
LEMMA RemoveUse ==
  ASSUME TypeOK, PlaceInv, UseInv, NEW c \in Conn, host[c].id = host[c].place,
         HostRemove(c), UNCHANGED <<_hosts_count, pc, mainVars>>, broken = "no"
  PROVE  UseInv' /\ broken' = "no"
<1> USE DEF mainVars, Uses
<1>1. host[c].place \in Index /\ \A i \in Index : _hosts[i] # NULL => _hosts[i] \in Conn
  BY DEF TypeOK
<1>2. \A d \in Conn : \A i \in Index : _hosts[i] = d => host[d].place = i
  BY DEF PlaceInv, Conn, NULL
<1>3. CASE host[c].thread = "remove"
  <2> DEFINE F == Freed(host[c].place)
  <2>1. /\ broken' = IF host[c].freed THEN "host" ELSE FaultOf(host[c].place)
        /\ host' = [F EXCEPT ![c].thread = "clear"] /\ UNCHANGED _hosts
    BY <1>3 DEF HostRemove
  <2>2. ~host[c].freed
    BY <1>3 DEF UseInv
  <2>3. _hosts[host[c].place] \in {NULL, c}
    BY <1>1, <1>3 DEF PlaceInv, IsHost
  <2>4. broken' = "no"
    BY <1>1, <2>1, <2>2, <2>3 DEF FaultOf
  <2>5. F \in [Conn -> [id : Slot \cup {-1}, freed : BOOLEAN, place : Index,
           thread : {"none", "guard", "read", "remove", "clear", "ended"}]]
    BY FreedType
  <2>6. \A d \in Conn : /\ d # c => host'[d].thread = F[d].thread
                        /\ host'[d].place = F[d].place /\ host'[d].freed = F[d].freed
    BY <2>1, <2>5
  <2>7. host'[c].thread = "clear"
    BY <2>1, <2>5
  <2>8. \A d \in Conn : /\ d # c => /\ host'[d].thread = host[d].thread
                                    /\ host'[d].freed = host[d].freed
                        /\ host'[d].place = host[d].place
    BY <1>1, <2>3, <2>6, FreedFrame DEF TypeOK, Conn, NULL
  <2>9. \A d \in Conn : host'[d].freed => ~Uses(d)'
    BY <2>7, <2>8 DEF UseInv
  <2>10. \A i \in Index : _hosts'[i] # NULL /\ host'[_hosts'[i]].freed =>
           host'[_hosts'[i]].thread = "clear"
    BY <1>1, <2>1, <2>7, <2>8 DEF UseInv
  <2>11. \A d \in Conn : Uses(d)' /\ host'[d].place < _hosts_count' =>
           _hosts'[host'[d].place] = d
    BY <2>1, <2>7, <2>8 DEF UseInv
  <2>12. \A i \in Index : (Stopping' /\ i < k') \/ pc' = "delete" =>
           _hosts'[i] = NULL \/ host'[_hosts'[i]].thread = "ended"
    BY <1>1, <1>3, <2>1, <2>8 DEF UseInv, Stopping
  <2>13. signaled' /\ ~Stopping' /\ interrupted' # "store" =>
           \A d \in Conn : host'[d].thread # "read"
    BY <2>7, <2>8 DEF UseInv, Stopping
  <2>14. MainAt("store")' => ~host'[cur'].freed
    <3>1. ASSUME MainAt("store"), cur = c PROVE ~host'[c].freed
      <4>1. _hosts[host[c].place] = NULL
        BY <1>1, <3>1 DEF PlaceInv, TypeOK, Index
      <4>2. F[c].freed = (host[c].freed
                           \/ (host[c].place \in Index /\ _hosts[host[c].place] = c))
        BY FreedFrame
      <4>3. _hosts[host[c].place] # c
        BY <4>1 DEF Conn, NULL
      <4>4. QED
        BY <2>2, <2>6, <4>2, <4>3, Zenon
    <3>2. QED
      BY <2>8, <3>1 DEF UseInv, MainAt, Handler, Stopping, PlaceInv
  <2>15. QED
    BY <2>4, <2>9, <2>10, <2>11, <2>12, <2>13, <2>14 DEF UseInv
<1>4. CASE host[c].thread = "clear"
  <2>1. /\ _hosts' = [_hosts EXCEPT ![host[c].place] = NULL] /\ Goto(c, "ended")
        /\ UNCHANGED <<client, broken>>
    BY <1>4 DEF HostRemove
  <2>2. /\ host'[c].thread = "ended"
        /\ \A d \in Conn : /\ host'[d].place = host[d].place /\ host'[d].freed = host[d].freed
                           /\ d # c => host'[d].thread = host[d].thread
    BY <2>1 DEF Goto, TypeOK
  <2>3. \A i \in Index : IF i = host[c].place THEN _hosts'[i] = NULL
                         ELSE _hosts'[i] = _hosts[i] /\ _hosts[i] # c
    BY <1>2, <2>1 DEF TypeOK
  <2>4. \A d \in Conn : host'[d].freed => ~Uses(d)'
    BY <2>2 DEF UseInv
  <2>5. \A i \in Index : _hosts'[i] # NULL /\ host'[_hosts'[i]].freed =>
          host'[_hosts'[i]].thread = "clear"
    BY <1>1, <2>2, <2>3 DEF UseInv
  <2>6. \A d \in Conn : Uses(d)' /\ host'[d].place < _hosts_count' =>
          _hosts'[host'[d].place] = d
    <3>1. ASSUME NEW d \in Conn, Uses(d)', host'[d].place < _hosts_count'
          PROVE  _hosts'[host'[d].place] = d
      <4>1. d # c /\ Uses(d) /\ host[d].place < _hosts_count /\ host[d].place \in Index
        BY <2>2, <3>1 DEF TypeOK
      <4>2. _hosts[host[d].place] = d
        BY <4>1 DEF UseInv
      <4>3. host[d].place # host[c].place
        BY <1>4, <4>1 DEF PlaceInv, IsHost
      <4>4. QED
        BY <2>2, <2>3, <4>1, <4>2, <4>3
    <3>2. QED
      BY <3>1
  <2>7. \A i \in Index : (Stopping' /\ i < k') \/ pc' = "delete" =>
          _hosts'[i] = NULL \/ host'[_hosts'[i]].thread = "ended"
    BY <1>1, <2>2, <2>3 DEF UseInv, Stopping
  <2>8. signaled' /\ ~Stopping' /\ interrupted' # "store" =>
          \A d \in Conn : host'[d].thread # "read"
    BY <2>2 DEF UseInv, Stopping
  <2>9. MainAt("store")' => ~host'[cur'].freed
    BY <2>2 DEF UseInv, MainAt, Handler, Stopping, PlaceInv
  <2>10. QED
    BY <2>1, <2>4, <2>5, <2>6, <2>7, <2>8, <2>9 DEF UseInv
<1>5. QED
  BY <1>3, <1>4 DEF HostRemove

\* ... and so no step of a thread goes wrong that finds its meter.
LEMMA ThreadUse ==
  ASSUME TypeOK, HandlerInv, PlaceInv, UseInv, NEW c \in Conn, host[c].thread # "none" =>
           host[c].id = host[c].place, ThreadStep(c), broken = "no",
         UNCHANGED <<_hosts_count, _hosts_continue, meter, pc, mainVars>>
  PROVE  UseInv' /\ Sound'
<1> USE DEF mainVars
<1>1. CASE HostRemove(c)
  <2>1. host[c].id = host[c].place
    BY <1>1 DEF HostRemove
  <2>2. QED
    BY <1>1, <2>1, RemoveUse DEF Sound
<1>2. CASE HostGuard(c)
  <2>1. Uses(c) /\ ~host[c].freed
    BY <1>2 DEF HostGuard, Uses, UseInv
  <2>2. /\ Goto(c, IF _hosts_continue THEN "read" ELSE "remove")
        /\ UNCHANGED <<_hosts, broken>>
    BY <1>2, <2>1 DEF HostGuard
  <2>3. _hosts_continue => ~signaled
    BY DEF HandlerInv
  <2>4. UseInv'
    BY <2>1, <2>2, <2>3, GotoUse
  <2>5. QED
    BY <2>2, <2>4 DEF Sound
<1>3. CASE HostReadEnd(c)
  <2>1. Uses(c) /\ ~host[c].freed
    BY <1>3 DEF HostReadEnd, Uses, UseInv
  <2>2. Goto(c, "remove") /\ UNCHANGED <<_hosts, broken>>
    BY <1>3, <2>1 DEF HostReadEnd
  <2>3. UseInv'
    BY <2>1, <2>2, GotoUse
  <2>4. QED
    BY <2>2, <2>3 DEF Sound
<1>4. CASE HostMessage(c) /\ UNCHANGED <<client, _hosts>>
  <2>1. host[c].thread = "read" /\ Uses(c) /\ ~host[c].freed
    BY <1>4 DEF HostMessage, Uses, UseInv
  <2>2. CASE \E t \in {"guard", "remove"} : Goto(c, t) /\ UNCHANGED broken
    BY <1>4, <2>1, <2>2, GotoUse DEF Sound
  <2>3. CASE /\ host[c].id \in Meter /\ meter[host[c].id].freed
             /\ broken' = "meter" /\ UNCHANGED host
    <3>1. signaled /\ ~Stopping
      BY <2>3 DEF HandlerInv
    <3>2. interrupted = "store"
      BY <2>1, <3>1 DEF UseInv
    <3>3. UseInv'
      BY <1>4, <2>3 DEF UseInv, Uses, Stopping, MainAt, Handler
    <3>4. QED
      BY <2>3, <3>2, <3>3 DEF Sound
  <2>4. QED
    BY <1>4, <2>1, <2>2, <2>3 DEF HostMessage
<1>5. QED
  BY <1>1, <1>2, <1>3, <1>4 DEF ThreadStep

\* Outside of the handler's loops main only enters a host in the table, ...
LEMMA UseFrame ==
  ASSUME TypeOK, PlaceInv, UseInv, UNCHANGED <<host, _hosts, _hosts_count, signaled, interrupted>>,
         ~Stopping, ~Stopping', pc' # "delete",
         MainAt("store")' => MainAt("store") /\ cur' = cur
  PROVE  UseInv'
<1>1. /\ \A c \in Conn : host'[c].freed => ~Uses(c)'
      /\ \A i \in Index : _hosts'[i] # NULL /\ host'[_hosts'[i]].freed =>
           host'[_hosts'[i]].thread = "clear"
      /\ \A c \in Conn : Uses(c)' /\ host'[c].place < _hosts_count' =>
           _hosts'[host'[c].place] = c
  BY DEF UseInv, Uses
<1>2. signaled' /\ ~Stopping' /\ interrupted' # "store" =>
        \A c \in Conn : host'[c].thread # "read"
  BY DEF UseInv
<1>3. MainAt("store")' => ~host'[cur'].freed
  BY DEF UseInv
<1>4. QED
  BY <1>1, <1>2, <1>3 DEF UseInv

LEMMA MainUse ==
  ASSUME TypeOK, HandlerInv, PlaceInv, UseInv, broken = "no",
         \/ \E c \in Conn : Accept(c)
         \/ Exit \/ ReadSlot \/ ReadNoSlot \/ CreateHost \/ StoreHost \/ Signal
  PROVE  UseInv' /\ Sound'
<1> USE DEF mainVars, tableVars, NextClient
<1>1. Sound'
  BY DEF Sound, Accept, Exit, ReadSlot, ReadNoSlot, CreateHost, StoreHost, Signal
<1>2. CASE Exit \/ ReadSlot \/ ReadNoSlot \/ \E c \in Conn : Accept(c)
  <2>1. UNCHANGED <<host, _hosts, _hosts_count, signaled, interrupted>>
    BY <1>2 DEF Accept, Exit, ReadSlot, ReadNoSlot
  <2>2. /\ pc \in {"accept", "read_slot"} /\ pc' \in {"accept", "read_slot", "add", "exit"}
    BY <1>2 DEF Accept, Exit, ReadSlot, ReadNoSlot, GiveUp
  <2>3. QED
    BY <1>1, <2>1, <2>2, UseFrame DEF MainAt, Handler, Stopping
<1>3. CASE CreateHost
  <2>1. cur \in Conn /\ ~IsHost(cur) /\ pc = "add"
    BY <1>3 DEF CreateHost, PlaceInv, MainAt
  <2>2. UNCHANGED <<_hosts, _hosts_count, signaled, interrupted, k>>
    BY <1>3 DEF CreateHost
  <2>3. CASE GiveUp /\ UNCHANGED host
    BY <1>1, <2>1, <2>2, <2>3, UseFrame DEF MainAt, Handler, Stopping, GiveUp
  <2>4. ASSUME _hosts_count < MAX_HOSTS, pc' = "store", UNCHANGED cur,
               NEW t \in {"guard", "ended"},
               host' = [host EXCEPT ![cur] = [id |-> slot, freed |-> FALSE,
                                              place |-> _hosts_count, thread |-> t]]
        PROVE  UseInv'
    <3>1. /\ \A c \in Conn : c # cur => host'[c] = host[c]
          /\ host'[cur].place = _hosts_count /\ host'[cur].thread = t
          /\ ~host'[cur].freed
      BY <2>1, <2>4 DEF TypeOK
    <3>2. \A i \in Index : _hosts[i] # NULL => _hosts[i] \in Conn /\ _hosts[i] # cur
      BY <2>1 DEF PlaceInv, TypeOK
    <3>3. \A c \in Conn : host'[c].freed => ~Uses(c)'
      BY <3>1 DEF UseInv, Uses
    <3>4. \A i \in Index : _hosts'[i] # NULL /\ host'[_hosts'[i]].freed =>
            host'[_hosts'[i]].thread = "clear"
      BY <2>2, <3>1, <3>2 DEF UseInv
    <3>5. \A c \in Conn : Uses(c)' /\ host'[c].place < _hosts_count' =>
            _hosts'[host'[c].place] = c
      BY <2>2, <3>1 DEF UseInv, Uses, TypeOK
    <3>6. signaled' /\ interrupted' # "store" => \A c \in Conn : host'[c].thread # "read"
      BY <2>1, <2>2, <3>1 DEF UseInv, Stopping
    <3>7. QED
      BY <2>4, <3>1, <3>3, <3>4, <3>5, <3>6 DEF UseInv, Stopping
  <2>5. QED
    BY <1>1, <1>3, <2>3, <2>4 DEF CreateHost
<1>4. CASE StoreHost
  <2>1. /\ pc = "store" /\ cur \in Conn /\ _hosts_count < MAX_HOSTS /\ pc' = "accept"
        /\ host[cur].place = _hosts_count /\ ~host[cur].freed
        /\ UNCHANGED <<host, signaled, interrupted>> /\ _hosts_count' = _hosts_count + 1
    BY <1>4 DEF StoreHost, PlaceInv, UseInv, MainAt
  <2>2. /\ \A i \in Index : i # _hosts_count => _hosts'[i] = _hosts[i]
        /\ _hosts'[_hosts_count] = cur
    BY <1>4, <2>1 DEF StoreHost, TypeOK, Index
  <2>3. \A i \in Index : _hosts'[i] # NULL /\ host'[_hosts'[i]].freed =>
          host'[_hosts'[i]].thread = "clear"
    BY <2>1, <2>2 DEF UseInv
  <2>4. ASSUME NEW c \in Conn, Uses(c)', host'[c].place < _hosts_count'
        PROVE  _hosts'[host'[c].place] = c
    <3>1. IsHost(c) /\ Uses(c) /\ host[c].place \in Index /\ UNCHANGED host
      BY <2>1, <2>4 DEF Uses, IsHost, TypeOK
    <3>2. CASE host[c].place < _hosts_count
      BY <2>2, <3>1, <3>2 DEF UseInv, TypeOK, Index
    <3>3. CASE c = cur
      BY <2>1, <2>2, <3>3
    <3>4. QED
      BY <3>1, <3>2, <3>3 DEF PlaceInv
  <2>5. signaled' /\ interrupted' # "store" => \A c \in Conn : host'[c].thread # "read"
    BY <2>1 DEF UseInv, Stopping
  <2>6. \A c \in Conn : host'[c].freed => ~Uses(c)'
    BY <2>1 DEF UseInv, Uses
  <2>7. QED
    BY <1>1, <2>1, <2>3, <2>4, <2>5, <2>6 DEF UseInv, Stopping, MainAt, Handler
<1>5. CASE Signal
  <2>1. /\ UNCHANGED <<host, _hosts, _hosts_count, cur>> /\ pc' = "stop" /\ k' = 0
        /\ interrupted' = pc /\ pc \in {"accept", "read_slot", "add", "store"}
    BY <1>5 DEF Signal
  <2>2. MainAt("store")' => MainAt("store")
    BY <2>1 DEF MainAt, Handler, Stopping
  <2>3. \A i \in Index : ~(i < k')
    BY <2>1 DEF Index
  <2>4. QED
    BY <1>1, <2>1, <2>2, <2>3 DEF UseInv, Uses, Stopping
<1>6. QED
  BY <1>2, <1>3, <1>4, <1>5

\* ... hosts_stop waits for every host of the table, ...
LEMMA StopUse ==
  ASSUME TypeOK, HandlerInv, PlaceInv, UseInv, broken = "no", hosts_stop,
         UNCHANGED <<host, _hosts, _hosts_count, signaled, interrupted, cur>>
  PROVE  UseInv' /\ broken' \in {"no", "join"}
<1>1. broken' \in {"no", "join"}
  BY DEF hosts_stop
<1>2. Stopping /\ pc' \in {"stop", "join", "joining", "delete"}
  BY DEF hosts_stop, Stopping
<1>3. ASSUME NEW i \in Index, (Stopping' /\ i < k') \/ pc' = "delete"
      PROVE  _hosts[i] = NULL \/ host[_hosts[i]].thread = "ended"
  <2>1. i \in Int /\ k \in Int /\ _hosts_count \in Int
    BY DEF TypeOK, Index
  <2>2. CASE i < k
    BY <1>2, <2>2 DEF UseInv
  <2>3. CASE ~(i < k) /\ pc' = "delete"
    <3>1. ~(i < _hosts_count)
      BY <1>2, <2>1, <2>3 DEF hosts_stop, Stopping
    <3>2. QED
      BY <3>1 DEF PlaceInv
  <2>4. CASE ~(i < k) /\ i < k'
    <3>1. k' = k + 1 /\ (_hosts[k] = NULL \/ (pc = "joining" /\ host[h].thread = "ended"))
      BY <2>1, <2>4, Limits DEF hosts_stop, Index
    <3>2. i = k
      BY <2>1, <2>4, <3>1
    <3>3. QED
      BY <3>1, <3>2 DEF HandlerInv
  <2>5. QED
    BY <1>3, <2>2, <2>3, <2>4
<1>4. ASSUME ~Stopping', signaled, interrupted # "store", NEW c \in Conn
      PROVE  host[c].thread # "read"
  <2>1. pc' = "delete"
    BY <1>2, <1>4 DEF Stopping
  <2>2. SUFFICES ASSUME host[c].thread = "read" PROVE FALSE
    OBVIOUS
  <2>3. IsHost(c) /\ Uses(c) /\ host[c].place \in Index
    BY <2>2 DEF IsHost, Uses, TypeOK
  <2>4. host[c].place < _hosts_count
    BY <1>2, <1>4, <2>3 DEF PlaceInv, MainAt, Handler, Stopping
  <2>5. _hosts[host[c].place] = c
    BY <2>3, <2>4 DEF UseInv
  <2>6. QED
    BY <1>3, <2>1, <2>2, <2>3, <2>5 DEF Conn, NULL
<1>5. MainAt("store")' => MainAt("store")
  BY <1>2 DEF MainAt, Handler, Stopping
<1>6. QED
  BY <1>1, <1>3, <1>4, <1>5 DEF UseInv, Uses

\* ... so that hosts_delete frees hosts that are not used any more.
LEMMA DeleteUse ==
  ASSUME TypeOK, HandlerInv, PlaceInv, UseInv, broken = "no", hosts_delete,
         UNCHANGED <<_hosts_count, signaled, interrupted, cur>>
  PROVE  UseInv' /\ broken' = "no"
<1>1. pc = "delete" /\ \A i \in Index : _hosts[i] = NULL \/ host[_hosts[i]].thread = "ended"
  BY DEF hosts_delete, UseInv
<1>2. CASE UNCHANGED <<host, _hosts, broken>> /\ pc' = "meters_stop"
  BY <1>1, <1>2, UseFrame DEF Stopping, MainAt, Handler
<1>3. CASE k < _hosts_count /\ UNCHANGED pc
  <2>1. k \in Index /\ \A i \in Index : _hosts[i] # NULL => _hosts[i] \in Conn
    BY <1>3, Limits DEF TypeOK, Index
  <2>2. /\ broken' = FaultOf(k) /\ host' = Freed(k)
        /\ _hosts' = [_hosts EXCEPT ![k] = NULL]
    BY <1>1, <1>3 DEF hosts_delete
  <2>3. broken' = "no"
    BY <1>1, <2>1, <2>2 DEF FaultOf, UseInv
  <2>4. \A c \in Conn : /\ host'[c].thread = host[c].thread
                        /\ host'[c].place = host[c].place
                        /\ host'[c].freed = (host[c].freed \/ (k \in Index /\ _hosts[k] = c))
    BY <2>2, FreedFrame
  <2>5. \A i \in Index : IF i = k THEN _hosts'[i] = NULL ELSE _hosts'[i] = _hosts[i]
    BY <2>2 DEF TypeOK
  <2>6. \A c \in Conn : Uses(c) => ~(host[c].place < _hosts_count)
    BY <1>1 DEF Uses, UseInv, TypeOK, Conn, NULL
  <2>7. ASSUME NEW c \in Conn, host'[c].freed PROVE ~Uses(c)'
    <3>1. host[c].freed \/ _hosts[k] = c
      BY <2>4, <2>7, Zenon
    <3>2. ~Uses(c)
      BY <1>1, <2>1, <3>1 DEF UseInv, Uses, Conn, NULL
    <3>3. QED
      BY <2>4, <3>2 DEF Uses
  <2>8. ASSUME NEW i \in Index, _hosts'[i] # NULL
        PROVE  ~host'[_hosts'[i]].freed
    <3>1. i # k /\ _hosts'[i] = _hosts[i] /\ _hosts[i] \in Conn
      BY <2>1, <2>5, <2>8
    <3>2. ~host[_hosts[i]].freed
      BY <1>1, <3>1, <2>8 DEF UseInv
    <3>3. _hosts[k] # _hosts[i]
      BY <2>1, <2>8, <3>1 DEF PlaceInv
    <3>4. QED
      BY <2>4, <3>1, <3>2, <3>3, Zenon
  <2>9. \A c \in Conn : Uses(c)' => ~(host'[c].place < _hosts_count')
    BY <2>4, <2>6 DEF Uses
  <2>10. \A i \in Index : _hosts'[i] = NULL \/ host'[_hosts'[i]].thread = "ended"
    BY <1>1, <2>1, <2>4, <2>5
  <2>11. signaled' /\ ~Stopping' /\ interrupted' # "store" =>
           \A c \in Conn : host'[c].thread # "read"
    BY <1>1, <2>4 DEF UseInv, Stopping
  <2>12. MainAt("store")' => ~host'[cur'].freed
    <3>1. ASSUME MainAt("store") PROVE ~host'[cur].freed
      <4>1. cur \in Conn /\ ~host[cur].freed /\ host[cur].place = _hosts_count
        BY <3>1 DEF PlaceInv, UseInv
      <4>2. _hosts[k] # cur
        BY <1>3, <2>1, <4>1 DEF PlaceInv, Conn, NULL, TypeOK, Index
      <4>3. QED
        BY <2>4, <4>1, <4>2, Zenon
    <3>2. QED
      BY <1>3, <3>1 DEF MainAt, Handler, Stopping
  <2>13. QED
    BY <2>3, <2>7, <2>8, <2>9, <2>10, <2>11, <2>12 DEF UseInv
<1>4. QED
  BY <1>2, <1>3 DEF hosts_delete

LEMMA EndUse ==
  ASSUME TypeOK, HandlerInv, PlaceInv, UseInv, broken = "no", main_end
  PROVE  UseInv' /\ Sound'
<1>1. UNCHANGED <<_hosts_count, signaled, interrupted, cur>>
  BY DEF main_end
<1>2. CASE hosts_stop /\ UNCHANGED <<host, _hosts, meter>>
  BY <1>1, <1>2, StopUse DEF Sound
<1>3. CASE hosts_delete /\ UNCHANGED <<h, meter>>
  BY <1>1, <1>3, DeleteUse DEF Sound
<1>4. CASE meters_end /\ UNCHANGED <<host, _hosts, h, broken>>
  <2>1. pc \in {"meters_stop", "fini", "fini_join"}
    BY <1>4 DEF meters_end
  <2>2. pc' \in {"fini", "fini_join", interrupted}
    BY <1>4 DEF meters_end
  <2>3. interrupted \in {"accept", "read_slot", "add", "store"}
    BY <2>1 DEF HandlerInv, Handler
  <2>4. QED
    BY <1>1, <1>4, <2>1, <2>2, <2>3, UseFrame DEF Sound, MainAt, Handler, Stopping
<1>5. QED
  BY <1>2, <1>3, <1>4 DEF main_end

----------------------------------------------------------------------------
(***************************************************************************)
(* The specification.                                                      *)
(***************************************************************************)
\* A host keeps its id and its place: what is orderly now has always been.
LEMMA OrderlyBefore ==
  ASSUME TypeOK, PlaceInv, Next, Orderly'
  PROVE  Orderly
<1>1. ASSUME \A c \in Conn : IsHost(c) => /\ IsHost(c)' /\ host'[c].id = host[c].id
                                          /\ host'[c].place = host[c].place
      PROVE  Orderly
  BY <1>1 DEF Orderly, IsHost
<1>2. CASE UNCHANGED host
  BY <1>1, <1>2 DEF IsHost
<1>3. CASE main
  <2>1. CASE hosts_delete /\ host' = Freed(k)
    BY <1>1, <2>1, FreedFrame DEF IsHost
  <2>2. CASE CreateHost
    <3>1. cur \in Conn /\ ~IsHost(cur)
      BY <2>2 DEF CreateHost, PlaceInv, MainAt
    <3>2. \A c \in Conn : c # cur => host'[c] = host[c]
      BY <2>2, <3>1 DEF CreateHost, TypeOK
    <3>3. QED
      BY <1>1, <3>1, <3>2 DEF IsHost
  <2>3. QED
    BY <1>2, <1>3, <2>1, <2>2 DEF main, Exit, ReadNoSlot, StoreHost, main_end, hosts_delete
<1>4. ASSUME NEW c \in Conn, host_run(c) \/ HostMessage(c)
      PROVE  Orderly
  <2>1. CASE \E t \in {"read", "guard", "remove", "ended"} : Goto(c, t)
    BY <1>1, <2>1 DEF Goto, TypeOK, IsHost
  <2>2. CASE host' = [Freed(host[c].id) EXCEPT ![c].thread = "clear"]
    <3>1. Freed(host[c].id) \in [Conn -> [id : Slot \cup {-1}, freed : BOOLEAN,
            place : Index, thread : {"none", "guard", "read", "remove", "clear", "ended"}]]
      BY FreedType
    <3>2. \A d \in Conn : /\ host'[d].place = Freed(host[c].id)[d].place
                          /\ host'[d].id = Freed(host[c].id)[d].id
                          /\ d # c => host'[d].thread = Freed(host[c].id)[d].thread
                          /\ d = c => host'[d].thread = "clear"
      BY <2>2, <3>1
    <3>3. QED
      BY <1>1, <3>2, FreedFrame DEF IsHost
  <2>3. QED
    BY <1>2, <1>4, <2>1, <2>2 DEF host_run, HostGuard, HostReadEnd, HostRemove, HostMessage
<1>5. CASE Environment
  BY <1>2, <1>4, <1>5 DEF Environment, Accept, Leave, ReadSlot, Signal
<1>6. ASSUME NEW j \in Meter, meter_start_routine(j) PROVE Orderly
  BY <1>2, <1>6 DEF meter_start_routine
<1>7. QED
  BY <1>3, <1>4, <1>5, <1>6 DEF Next

LEMMA InvInit == Init => Inv
<1> SUFFICES ASSUME Init PROVE Inv
  OBVIOUS
<1> USE Limits DEF Init, NoHost
<1>1. TypeOK
  <2>1. host \in [Conn -> [id : Slot \cup {-1}, freed : BOOLEAN, place : Index,
          thread : {"none", "guard", "read", "remove", "clear", "ended"}]]
    BY DEF Index
  <2>2. meter \in [Meter -> [thread : {"created", "running", "ended"},
                    run : BOOLEAN, freed : BOOLEAN, told : BOOLEAN]]
    OBVIOUS
  <2>3. k \in 0 .. MAX_HOSTS + MeterCount /\ _hosts_count \in 0 .. MAX_HOSTS
    OBVIOUS
  <2>4. /\ client \in [Conn -> {"away", "connected", "gone"}]
        /\ _hosts \in [Index -> Conn \cup {NULL}]
        /\ pc \in MainPC /\ interrupted \in MainPC
        /\ cur \in Conn \cup {NULL} /\ slot \in Slot \cup {-1} /\ h \in Conn \cup {NULL}
        /\ broken \in {"no", "host", "meter", "table", "twice", "join"}
    BY DEF MainPC
  <2>5. _hosts_continue \in BOOLEAN /\ signaled \in BOOLEAN
    OBVIOUS
  <2>6. QED
    BY <2>1, <2>2, <2>3, <2>4, <2>5 DEF TypeOK
<1>2. HandlerInv
  BY DEF HandlerInv, Handler, Stopping
<1>3. PlaceInv
  BY DEF PlaceInv, MainAt, Handler, Stopping, IsHost
<1>4. UseInv /\ Sound
  BY DEF UseInv, Sound, MainAt, Handler, Stopping, Uses
<1>5. QED
  BY <1>1, <1>2, <1>3, <1>4 DEF Inv

LEMMA InvStep == Inv /\ [Next]_vars => Inv'
<1> SUFFICES ASSUME Inv, [Next]_vars PROVE Inv'
  OBVIOUS
<1>1. TypeOK /\ HandlerInv /\ PlaceInv /\ (Orderly => UseInv /\ Sound)
  BY DEF Inv
<1>2. CASE UNCHANGED vars
  <2>1. TypeOK' /\ HandlerInv'
    BY <1>1, <1>2 DEF vars, tableVars, mainVars, TypeOK, HandlerInv, Handler, Stopping
  <2>2. PlaceInv'
    BY <1>1, <1>2 DEF vars, tableVars, mainVars, PlaceInv, MainAt, Handler, Stopping, IsHost
  <2>3. Orderly' => UseInv' /\ Sound'
    BY <1>1, <1>2 DEF vars, tableVars, mainVars, Orderly, UseInv, Sound, MainAt, Handler,
                      Stopping, Uses
  <2>4. QED
    BY <2>1, <2>2, <2>3 DEF Inv
<1>3. CASE Next
  <2>1. Up
    BY <1>3 DEF Next, main, Environment, host_run, meter_start_routine
  <2>2. Orderly' => Orderly /\ UseInv /\ broken = "no"
    BY <1>1, <1>3, <2>1, OrderlyBefore DEF Up
  <2>3. CASE \/ \E c \in Conn : Accept(c)
             \/ Exit \/ ReadSlot \/ ReadNoSlot \/ CreateHost \/ StoreHost \/ Signal
    <3>1. TypeOK' /\ HandlerInv'
      BY <1>1, <2>3, MainType, HandlerMain
    <3>2. PlaceInv'
      BY <1>1, <2>3, MainPlace, HandlerPlace
    <3>3. Orderly' => UseInv' /\ Sound'
      BY <1>1, <2>2, <2>3, MainUse
    <3>4. QED
      BY <3>1, <3>2, <3>3 DEF Inv
  <2>4. CASE main_end
    BY <1>1, <2>2, <2>4, HandlerType, HandlerEnd, HandlerPlace, EndUse DEF Inv
  <2>5. ASSUME NEW c \in Conn,
               \/ host_run(c)
               \/ HostMessage(c) /\ UNCHANGED <<client, tableVars, _hosts_continue, meter,
                                               pc, mainVars>>
        PROVE  Inv'
    <3>1. TypeOK' /\ PlaceInv'
      BY <1>1, <2>5, ThreadType, ThreadPlace
    <3>2. /\ ThreadStep(c)
          /\ UNCHANGED <<_hosts_count, _hosts_continue, meter, pc, mainVars>>
      BY <2>5 DEF ThreadStep, host_run, tableVars
    <3>3. \A i \in Index : _hosts'[i] \in {_hosts[i], NULL}
      BY <1>1, <3>2 DEF TypeOK, ThreadStep, HostGuard, HostReadEnd, HostRemove
    <3>4. HandlerInv'
      BY <1>1, <3>2, <3>3, HandlerFrame
    <3>5. Orderly' => UseInv' /\ Sound'
      BY <1>1, <2>2, <3>2, ThreadUse DEF Orderly
    <3>6. QED
      BY <3>1, <3>4, <3>5 DEF Inv
  <2>6. ASSUME NEW c \in Conn, Leave(c) PROVE Inv'
    <3>1. TypeOK' /\ PlaceInv'
      BY <1>1, <2>6, ThreadType, ThreadPlace
    <3>2. UNCHANGED <<host, _hosts, _hosts_count, _hosts_continue, meter, pc, mainVars,
                      broken>>
      BY <2>6 DEF Leave, tableVars
    <3>3. HandlerInv'
      BY <1>1, <3>2, HandlerFrame
    <3>4. Orderly' => UseInv' /\ Sound'
      BY <1>1, <3>2 DEF Orderly, UseInv, Sound, MainAt, Handler, Stopping, Uses, mainVars
    <3>5. QED
      BY <3>1, <3>3, <3>4 DEF Inv
  <2>7. ASSUME NEW j \in Meter, MeterBegin(j) \/ MeterStopped(j) \/ MeterFail(j),
               UNCHANGED <<client, host, tableVars, _hosts_continue, pc, mainVars, broken>>
        PROVE  Inv'
    <3>1. TypeOK'
      BY <1>1, <2>7, MeterType
    <3>2. \A i \in Meter : meter'[i].freed = meter[i].freed
      BY <1>1, <2>7 DEF TypeOK, MeterBegin, MeterStopped, MeterFail
    <3>3. UNCHANGED <<_hosts, _hosts_count, host, client, pc, cur, interrupted, signaled, k>>
      BY <2>7 DEF tableVars, mainVars
    <3>4. HandlerInv'
      BY <1>1, <2>7, <3>2, <3>3, HandlerFrame
    <3>5. PlaceInv'
      BY <1>1, <3>3 DEF PlaceInv, MainAt, Handler, Stopping, IsHost
    <3>6. Orderly' => UseInv' /\ Sound'
      BY <1>1, <2>7, <3>3 DEF Orderly, UseInv, Sound, MainAt, Handler, Stopping, Uses
    <3>7. QED
      BY <3>1, <3>4, <3>5, <3>6 DEF Inv
  <2>8. QED
    BY <1>3, <2>3, <2>4, <2>5, <2>6, <2>7
    DEF Next, main, Environment, meter_start_routine
<1>4. QED
  BY <1>2, <1>3

\* The inductive invariant of the server's threads holds at all times.
THEOREM Invariance == Spec => []Inv
<1>1. Init => Inv
  BY InvInit
<1>2. Inv /\ [Next]_vars => Inv'
  BY InvStep
<1>3. QED
  BY <1>1, <1>2, PTL DEF Spec

\* Every variable of the server keeps its type: main never enters a host outside of
\* _hosts, and the loops of the handler stay within the tables.
THEOREM TypeCorrect == Spec => []TypeOK
<1>1. Inv => TypeOK
  BY DEF Inv
<1>2. QED
  BY <1>1, Invariance, PTL

\* As long as hosts_remove(host->id) meets the host it is meant for, no host is used
\* after it was freed, or freed twice, and no entry outside of _hosts is read.
THEOREM Soundness == Spec => []SoundWhenOrderly
<1>1. Inv => SoundWhenOrderly
  BY DEF Inv, Sound, SoundWhenOrderly
<1>2. QED
  BY <1>1, Invariance, PTL
============================================================================
