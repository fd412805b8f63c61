---------------------------- MODULE MCVisualizer ----------------------------
(***************************************************************************)
(* The instance of Visualizer that TLC checks: two speeds, and a script   *)
(* that calls Simulator::Stop in the middle of the longer slice.              *)
(***************************************************************************)
EXTENDS Visualizer
=============================================================================
