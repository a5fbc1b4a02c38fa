------------------------------- MODULE Viewers -------------------------------
(***************************************************************************)
(* The viewers of the quicktester server (viewer.c): programs that connect *)
(* to show the measurements of all hosts.  The thread of the viewer server *)
(* enters them in a table; the thread of every host (server.c) makes a     *)
(* line of each update, in a buffer that all hosts share, and sends it to  *)
(* every viewer, and deletes a viewer it cannot send to.  No lock is taken.*)
(*                                                                         *)
(* Connections are numbered as they are accepted; a viewer_t has the       *)
(* number of its connection.  The system gives out file descriptors        *)
(* again: the smallest that is free.                                       *)
(***************************************************************************)
EXTENDS Integers, FiniteSets, FiniteSetsExt

CONSTANTS
  Host,        \* the hosts whose threads run, each with a connection
  MAX_VIEWERS,
  MaxViewers,  \* bound: viewers that connect
  MaxUpdates   \* bound: updates of each host

\* The hosts are told from the viewers and from what the buffer holds besides.
ViewersAssumption ==
  /\ IsFiniteSet(Host) /\ Host \cap (0 .. MaxViewers) = {}
  /\ Host \cap {"empty", "cut"} = {}
  /\ MAX_VIEWERS \in Nat /\ MaxViewers \in Nat /\ MaxUpdates \in Nat

NULL == 0
Viewer == 1 .. MaxViewers
Index == 0 .. MAX_VIEWERS - 1
FD == 1 .. MaxViewers + Cardinality(Host) + 1
Closed == 0

VARIABLES
  open,            \* open[n]: the connection of descriptor n, or Closed
  peer,            \* peer[v]: "away", "connected" or "gone"
  viewer,          \* viewer[v]: its socket, whether it was freed
  _viewers,        \* the table, and ...
  _viewers_count,  \* ... how many were ever entered
  run,
  server,          \* where viewer_server_run is: "accept", "clear", "ended"
  c,               \* the index of viewers_clear
  csv_viewer_msg,  \* whose line the buffer holds; "cut" while it is written
  host,            \* host[h]: where its thread is, and its variables
  fate,            \* "up", "killed" by a signal, or what undefined thing was done
  overlap,         \* history: two threads were where one should be
  misdirected      \* history: a line or a close went to somebody else

vars == <<open, peer, viewer, _viewers, _viewers_count, run, server, c,
          csv_viewer_msg, host, fate, overlap, misdirected>>
tableVars == <<_viewers, _viewers_count>>
serverVars == <<run, server, c>>

HostPC == {"away", "idle", "write", "look", "send", "close", "free", "forget",
           "closed", "ended"}

TypeOK ==
  /\ open \in [FD -> Host \cup Viewer \cup {Closed}]
  /\ peer \in [Viewer -> {"away", "connected", "gone"}]
  /\ viewer \in [Viewer -> [socket : FD \cup {-1}, freed : BOOLEAN]]
  /\ _viewers \in [Index -> Viewer \cup {NULL}] /\ _viewers_count \in 0 .. MAX_VIEWERS
  /\ run \in BOOLEAN /\ server \in {"accept", "clear", "ended"} /\ c \in 0 .. MAX_VIEWERS
  /\ csv_viewer_msg \in Host \cup {"empty", "cut"}
  /\ host \in [Host -> [pc : HostPC, socket : FD \cup {-1}, i : 0 .. MAX_VIEWERS,
                        v : Viewer \cup {NULL}, updates : 0 .. MaxUpdates]]
  /\ fate \in {"up", "killed", "freed_memory", "freed_twice"}
  /\ overlap \in BOOLEAN /\ misdirected \in BOOLEAN

Init ==
  /\ open = [n \in FD |-> Closed]
  /\ peer = [v \in Viewer |-> "away"]
  /\ viewer = [v \in Viewer |-> [socket |-> -1, freed |-> FALSE]]
  /\ _viewers = [i \in Index |-> NULL] /\ _viewers_count = 0
  /\ run = TRUE /\ server = "accept" /\ c = 0
  /\ csv_viewer_msg = "empty"
  /\ host = [h \in Host |-> [pc |-> "away", socket |-> -1, i |-> 0, v |-> NULL, updates |-> 0]]
  /\ fate = "up" /\ overlap = FALSE /\ misdirected = FALSE

Goto(h, pc) == host' = [host EXCEPT ![h].pc = pc]

\* Where a thread of a host is in create_viewer_message or viewers_send, or has
\* closed its connection once.
Sends(h) == host[h].pc \in {"write", "look", "send", "close", "free", "forget"}
Closing(h) == host[h].pc = "closed"

----------------------------------------------------------------------------
(***************************************************************************)
(* The system's file descriptors.                                          *)
(***************************************************************************)
FreeFD == Min({n \in FD : open[n] = Closed})

\* close(n) by who means connection x.
ClosedFD(n) == IF n = -1 THEN open ELSE [open EXCEPT ![n] = Closed]
Misdirected(n, x) == n # -1 /\ open[n] \notin {x, Closed}

----------------------------------------------------------------------------
(***************************************************************************)
(* The thread of the viewer server.                                        *)
(***************************************************************************)
\* A viewer that has no place in the table keeps its connection.
viewers_add(v) ==
  IF _viewers_count < MAX_VIEWERS
  THEN /\ viewer' = [viewer EXCEPT ![v].socket = FreeFD]
       /\ _viewers' = [_viewers EXCEPT ![_viewers_count] = v]
       /\ _viewers_count' = _viewers_count + 1
  ELSE UNCHANGED <<viewer, tableVars>>

\* The thread accepts a viewer, and looks at run before the next.
viewer_server_run(v) ==
  /\ server = "accept" /\ peer[v] = "away" /\ \A w \in 1 .. v - 1 : peer[w] # "away"
  /\ peer' = [peer EXCEPT ![v] = "connected"]
  /\ open' = [open EXCEPT ![FreeFD] = v]
  /\ viewers_add(v)
  /\ server' = IF run THEN "accept" ELSE "clear"
  /\ overlap' = (overlap \/ \E h \in Host : Closing(h) \/ (~run /\ Sends(h)))
  /\ UNCHANGED <<run, c, csv_viewer_msg, host, fate, misdirected>>

\* delete_viewer, by one thread.
Deleted(v) ==
  /\ fate' = IF viewer[v].freed THEN "freed_twice" ELSE fate
  /\ open' = ClosedFD(viewer[v].socket)
  /\ misdirected' = (misdirected \/ Misdirected(viewer[v].socket, v))
  /\ viewer' = [viewer EXCEPT ![v] = [socket |-> -1, freed |-> TRUE]]

viewers_clear ==
  /\ server = "clear"
  /\ IF c = MAX_VIEWERS
     THEN server' = "ended" /\ UNCHANGED <<open, viewer, _viewers, c, fate, misdirected>>
     ELSE /\ c' = c + 1 /\ server' = server
          /\ IF _viewers[c] = NULL
             THEN UNCHANGED <<open, viewer, _viewers, fate, misdirected>>
             ELSE Deleted(_viewers[c]) /\ _viewers' = [_viewers EXCEPT ![c] = NULL]
  /\ UNCHANGED <<peer, _viewers_count, run, csv_viewer_msg, host, overlap>>

\* The signal handler of main; the thread goes on until one more viewer connects.
viewer_server_end ==
  /\ run /\ run' = FALSE
  /\ UNCHANGED <<open, peer, viewer, tableVars, server, c, csv_viewer_msg, host, fate,
                 overlap, misdirected>>

----------------------------------------------------------------------------
(***************************************************************************)
(* The thread of a host.                                                   *)
(***************************************************************************)
\* main accepts the connection of a host and starts its thread.
Connect(h) ==
  /\ host[h].pc = "away" /\ run
  /\ open' = [open EXCEPT ![FreeFD] = h]
  /\ host' = [host EXCEPT ![h].pc = "idle", ![h].socket = FreeFD]
  /\ overlap' = (overlap \/ \E g \in Host : Closing(g))
  /\ UNCHANGED <<peer, viewer, tableVars, serverVars, csv_viewer_msg, fate, misdirected>>

\* An update: the line is written to the buffer of all hosts.
create_viewer_message(h) ==
  \/ /\ host[h].pc = "idle" /\ host[h].updates < MaxUpdates
     /\ csv_viewer_msg' = "cut"
     /\ host' = [host EXCEPT ![h].pc = "write", ![h].updates = @ + 1]
     /\ overlap' = (overlap \/ server = "clear" \/ \E g \in Host : Sends(g))
  \/ /\ host[h].pc = "write"
     /\ csv_viewer_msg' = h
     /\ Goto(h, "look")
     /\ UNCHANGED overlap

\* The next viewer of viewers_send.
NextViewer(h) == host' = [host EXCEPT ![h].pc = "look", ![h].i = @ + 1, ![h].v = NULL]

Look(h) ==
  /\ host[h].pc = "look"
  /\ IF host[h].i = MAX_VIEWERS THEN host' = [host EXCEPT ![h].pc = "idle", ![h].i = 0]
     ELSE IF _viewers[host[h].i] = NULL THEN NextViewer(h)
     ELSE host' = [host EXCEPT ![h].pc = "send", ![h].v = _viewers[host[h].i]]
  /\ UNCHANGED <<open, fate, misdirected>>

HasLeft(x) == x \in Viewer /\ peer[x] = "gone"

\* socketSend.  What is sent to a viewer that has left may be lost without notice,
\* fail, or raise SIGPIPE, which nobody handles: the server is killed.
Send(h) ==
  LET v == host[h].v
      n == viewer[v].socket
  IN /\ host[h].pc = "send"
     /\ CASE viewer[v].freed -> fate' = "freed_memory" /\ UNCHANGED <<host, misdirected>>
          [] ~viewer[v].freed /\ n = -1 -> NextViewer(h) /\ UNCHANGED <<fate, misdirected>>
          [] ~viewer[v].freed /\ n # -1 ->
               \/ /\ open[n] # Closed /\ NextViewer(h)
                  /\ misdirected' = (misdirected \/ open[n] # v \/ csv_viewer_msg # h)
                  /\ UNCHANGED fate
               \/ /\ open[n] = Closed \/ HasLeft(open[n])
                  /\ Goto(h, "close") /\ UNCHANGED <<fate, misdirected>>
               \/ /\ HasLeft(open[n])
                  /\ fate' = "killed" /\ UNCHANGED <<host, misdirected>>
     /\ UNCHANGED open

\* delete_viewer, in steps that those of another thread may come between.
Delete(h) ==
  LET v == host[h].v
  IN \/ /\ host[h].pc = "close"
        /\ fate' = IF viewer[v].freed THEN "freed_memory" ELSE fate
        /\ open' = ClosedFD(viewer[v].socket)
        /\ misdirected' = (misdirected \/ Misdirected(viewer[v].socket, v))
        /\ viewer' = [viewer EXCEPT ![v].socket = -1]
        /\ Goto(h, "free")
     \/ /\ host[h].pc = "free"
        /\ fate' = IF viewer[v].freed THEN "freed_twice" ELSE fate
        /\ viewer' = [viewer EXCEPT ![v].freed = TRUE]
        /\ Goto(h, "forget")
        /\ UNCHANGED <<open, misdirected>>

\* Mutant: the deleted viewer stays in the table.
ForgetNothing(h) ==
  /\ host[h].pc = "forget"
  /\ _viewers' = _viewers /\ NextViewer(h)

Forget(h) ==
  /\ host[h].pc = "forget"
  /\ _viewers' = [_viewers EXCEPT ![host[h].i] = NULL]
  /\ NextViewer(h)

viewers_send(h) ==
  \/ (Look(h) \/ Send(h)) /\ UNCHANGED <<viewer, _viewers>>
  \/ Delete(h) /\ UNCHANGED _viewers
  \/ Forget(h) /\ UNCHANGED <<open, viewer, fate, misdirected>>

\* The end of host_run: close, and hosts_remove closes the same number again.
CloseTwice(h) ==
  \/ /\ host[h].pc = "idle"
     /\ open' = ClosedFD(host[h].socket) /\ Goto(h, "closed")
     /\ misdirected' = (misdirected \/ Misdirected(host[h].socket, h))
  \/ /\ host[h].pc = "closed"
     /\ open' = ClosedFD(host[h].socket)
     /\ host' = [host EXCEPT ![h].pc = "ended", ![h].socket = -1]
     /\ misdirected' = (misdirected \/ Misdirected(host[h].socket, h))

host_run(h) ==
  \/ create_viewer_message(h) /\ UNCHANGED <<open, viewer, _viewers, fate, misdirected>>
  \/ viewers_send(h) /\ UNCHANGED <<csv_viewer_msg, overlap>>
  \/ CloseTwice(h) /\ UNCHANGED <<viewer, _viewers, csv_viewer_msg, fate, overlap>>

----------------------------------------------------------------------------
\* A viewer is closed by its user.
Leave(v) ==
  /\ peer[v] = "connected" /\ peer' = [peer EXCEPT ![v] = "gone"]
  /\ UNCHANGED <<open, viewer, tableVars, serverVars, csv_viewer_msg, host, fate, overlap,
                 misdirected>>

Next ==
  /\ fate = "up"
  /\ \/ \E v \in Viewer : viewer_server_run(v) \/ Leave(v)
     \/ viewers_clear \/ viewer_server_end
     \/ \E h \in Host : \/ Connect(h)
                        \/ host_run(h) /\ UNCHANGED <<peer, _viewers_count, serverVars>>

Spec == Init /\ [][Next]_vars

----------------------------------------------------------------------------
\* What goes wrong needs two threads at a time: no viewer is used after it was freed,
\* freed twice, closed by another, or given another's or half a line, unless two
\* hosts send at once, the table is cleared meanwhile, or a connection is accepted
\* between the two closes of a host.  viewers_add may come at any time (viewer.c).
SoundUnlessOverlap ==
  ~overlap => fate \in {"up", "killed"} /\ ~misdirected
=============================================================================
