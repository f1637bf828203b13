-------------------------- MODULE MCFusionHistory --------------------------
(* FusionHistory on the instances of MCFusion, with a few inputs more.     *)
EXTENDS FusionHistory, MCFusion

\* Looking straight at the screen, and well past its right edge.
BlinkGazes == {Angle(0, 210), Angle(800, 210)}
=============================================================================
