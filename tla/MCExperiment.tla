---------------------------- MODULE MCExperiment ----------------------------
(***************************************************************************)
(* The experiments of a host, the viewers to whom the hosts send each      *)
(* update, and LINPACK, the load of an experiment and what it rates; one   *)
(* of the three in each behaviour: an update of Experiment ends with the   *)
(* viewers_send of Viewers, and its kflops are those of Linpack.  The      *)
(* state of the other parts stands still.                                  *)
(***************************************************************************)
EXTENDS Experiment

CONSTANTS Host, MAX_VIEWERS, MaxViewers, MaxUpdates, P, MaxOrder, AnyOrder

VARIABLES
  part,
  open, peer, viewer, _viewers, _viewers_count, run, server, c, csv_viewer_msg,
  host, fate, overlap, misdirected,
  order, matrix, lu, rhs, ipvt, info, roll, column, phase

V == INSTANCE Viewers
L == INSTANCE Linpack WITH n <- order, a <- lu, b <- rhs, k <- column, pc <- phase

ASSUME HostsAssumption == V!ViewersAssumption /\ L!LinpackAssumption

experimentVars == vars
viewerVars ==
  <<open, peer, viewer, _viewers, _viewers_count, run, server, c, csv_viewer_msg,
    host, fate, overlap, misdirected>>
linpackVars == <<order, matrix, lu, rhs, ipvt, info, roll, column, phase>>
allVars == <<part, experimentVars, viewerVars, linpackVars>>

NoLinpack ==
  /\ order = 0 /\ matrix = <<>> /\ lu = <<>> /\ rhs = <<>> /\ ipvt = <<>>
  /\ info = 0 /\ roll = TRUE /\ column = 0 /\ phase = "none"

AllInit ==
  /\ Init /\ V!Init
  /\ \/ part \in {"experiments", "viewers"} /\ NoLinpack
     \/ part = "linpack" /\ L!Init

Experiments == part = "experiments" /\ Next /\ UNCHANGED <<part, viewerVars, linpackVars>>
Viewers == part = "viewers" /\ V!Next /\ UNCHANGED <<part, experimentVars, linpackVars>>
Linpack == part = "linpack" /\ L!Next /\ UNCHANGED <<part, experimentVars, viewerVars>>

AllSpec == AllInit /\ [][Experiments \/ Viewers \/ Linpack]_allVars

\* Two samples of the load, each of 100% in all.
MCLoad == {[idle |-> 100, sys |-> 0, user |-> 0, comp |-> 0],
           [idle |-> 10, sys |-> 20, user |-> 10, comp |-> 60]}

SoundUnlessOverlap == V!SoundUnlessOverlap
Solves == part = "linpack" => L!Solves
=============================================================================
