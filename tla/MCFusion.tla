------------------------------ MODULE MCFusion ------------------------------
(* Small instances of Fusion: one family of rules per configuration file.  *)
EXTENDS Fusion

Angle(yaw, pitch) == [axis \in Axes |-> IF axis = "yaw" THEN yaw ELSE pitch]

\* 0.5^(gap/2), in percent: a half-life of two ticks.
HalfLifeOfTwo(gap) == <<100, 71, 50, 35, 25, 18, 12, 9, 6, 4, 3>>[gap + 1]

BaseConfig ==
  [hold |-> [kind \in TimerKinds |-> IF kind = "signal_lost" THEN 3 ELSE 2],
   clear |-> [kind \in TimerKinds |-> 2],
   multiFaceCount |-> 2,
   enter |-> [slot \in Slots |-> Angle(30, 20)],
   exit |-> [slot \in Slots |-> Angle(20, 15)],
   alpha |-> [slot \in Slots |-> 50],
   pitchOffset |-> 12,
   bucketOf |-> [label \in Labels |->
                  CASE label \in {"cell phone", "remote"} -> "handheld_device"
                    [] label = "book" -> "book"
                    [] OTHER -> "none"],
   floor |-> 25, enterScore |-> 150, clearScore |-> 60,
   matchEnter |-> 32, matchExit |-> 42, consecutiveFailures |-> 3]

\* A hold that is longer than the clear, and one that is over at once.
FaceConfigs ==
  {BaseConfig,
   [BaseConfig EXCEPT !.hold["no_face"] = 3, !.clear["no_face"] = 1,
                      !.hold["multiple_faces"] = 0, !.hold["never_seen"] = 4]}
OneConfig == {BaseConfig}

NoAngles == {Angle(0, 0)}
PoseChoices == {Angle(0, 0), Angle(-44, 0), Angle(24, -40)}
\* 0, 35 and -40 degrees of yaw; the offset makes level pitch read as -12.
GazeChoices == {Angle(0, 210), Angle(620, 0), Angle(-700, 800)}

Sighted(label, percent) == [label |-> label, score |-> percent]
DetectionChoices ==
  {{}, {Sighted("cell phone", 90)}, {Sighted("remote", 66), Sighted("cell phone", 95)},
   {Sighted("book", 75), Sighted("laptop", 99), Sighted("cell phone", 20)}}
MatchChoices == {20, 36, 50}
=============================================================================
