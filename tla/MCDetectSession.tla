-------------------------- MODULE MCDetectSession --------------------------
(* DetectSession on the instances of MCFusion.                             *)
EXTENDS DetectSession, MCFusion

QuickConfigs ==
  {[BaseConfig EXCEPT !.hold = [kind \in TimerKinds |-> 1],
                      !.clear = [kind \in TimerKinds |-> 1]]}
NoDetections == {{}}
=============================================================================
