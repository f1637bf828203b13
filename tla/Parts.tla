------------------------------- MODULE Parts -------------------------------
(***************************************************************************)
(* Five parts of the program that share no state, each with one owner: a   *)
(* behaviour is of one of them, and the others stay as they were made.     *)
(***************************************************************************)
EXTENDS Direction, Latencies, Suppression, Settings, Recording

VARIABLE part   \* the part this behaviour is of

vars == <<part, directionVars, latencyVars, suppressionVars, settingsVars, recordingVars>>

Init ==
  /\ part \in {"direction", "latencies", "suppression", "settings", "recording"}
  /\ DirectionInit /\ LatenciesInit /\ SuppressionInit /\ SettingsInit /\ RecordingInit

Direct ==
  /\ part = "direction" /\ DirectionNext
  /\ UNCHANGED <<part, latencyVars, suppressionVars, settingsVars, recordingVars>>

Measure ==
  /\ part = "latencies" /\ LatenciesNext
  /\ UNCHANGED <<part, directionVars, suppressionVars, settingsVars, recordingVars>>

Suppress ==
  /\ part = "suppression" /\ SuppressionNext
  /\ UNCHANGED <<part, directionVars, latencyVars, settingsVars, recordingVars>>

Configure ==
  /\ part = "settings" /\ SettingsNext
  /\ UNCHANGED <<part, directionVars, latencyVars, suppressionVars, recordingVars>>

Record ==
  /\ part = "recording" /\ RecordingNext
  /\ UNCHANGED <<part, directionVars, latencyVars, suppressionVars, settingsVars>>

Next == Direct \/ Measure \/ Suppress \/ Configure \/ Record

Spec == Init /\ [][Next]_vars
=============================================================================
