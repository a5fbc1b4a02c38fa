----------------------------- MODULE MCBoincApp -----------------------------
(***************************************************************************)
(* BoincApp for TLC.  Pipeline: three managers, one of each kind of        *)
(* add_sensors, in the order of BoincApp::initialize.  Milestones: one     *)
(* manager, and room for more milestones and more crashes.                 *)
(***************************************************************************)
EXTENDS BoincApp

PipelineManagerSeq == <<"boinc", "cpu", "users">>
PipelineSensorSeq ==
  [boinc |-> <<"result">>, cpu |-> <<"load">>, users |-> <<"user">>]

MilestoneManagerSeq == <<"boinc">>
MilestoneSensorSeq == [boinc |-> <<"result">>]
============================================================================
