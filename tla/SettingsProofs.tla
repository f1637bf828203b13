--------------------------- MODULE SettingsProofs ---------------------------
(***************************************************************************)
(* Proofs about Settings, for any payloads, any number of saves and a      *)
(* failed write or a crash at any moment.                                  *)
(*                                                                         *)
(* Opening the file empties it, so what is in it is the beginning of one   *)
(* payload, the last one saved, and at most one line that was cut off      *)
(* (OneSave).  The lines have different names, so reading it back finds    *)
(* each setting once or not at all.                                        *)
(***************************************************************************)
EXTENDS Settings, TLAPS

\* What a line may be.
Words == Names \union {"[dev]", "garbage", "none"}
LineSet == Words \X Int

\* A file starts with the first m lines of a payload.
StartsWith(lines, payload, m) ==
  Len(lines) >= m /\ \A k \in 1..m : lines[k] = Line(payload, k)

\* After m lines, one that was cut off.
Cut(lines, m) ==
  /\ m < 5 /\ Len(lines) = m + 1
  /\ \/ lines[m + 1] = Garbage
     \/ Lines[m + 1] # "[dev]" /\ lines[m + 1] = <<Lines[m + 1], Torn>>

Holds(lines, payload, m) ==
  StartsWith(lines, payload, m) /\ (Len(lines) = m \/ Cut(lines, m))

OneSave ==
  /\ file \in Seq(LineSet)
  /\ saves \in Seq([Names -> Int])
  /\ saving # NoPayload =>
       /\ written \in 0..5 /\ Len(file) = written
       /\ \E s \in DOMAIN saves : saving = saves[s] /\ StartsWith(file, saving, written)
  /\ file = NoFile \/ \E s \in DOMAIN saves, m \in 0..5 : Holds(file, saves[s], m)

-----------------------------------------------------------------------------
LEMMA LinesAre ==
  /\ Len(Lines) = 5
  /\ \A k \in 1..5 : Lines[k] \in Words
  /\ \A k \in 1..5 : Lines[k] # "[dev]" => Lines[k] \in Names
  /\ \A j, k \in 1..5 : Lines[j] = Lines[k] => j = k
  /\ \A k \in 1..5 : Lines[k] # "garbage" /\ Lines[k] # "none"
<1>1. /\ Len(Lines) = 5
      /\ Lines[1] = "hold" /\ Lines[2] = "[dev]" /\ Lines[3] = "score"
      /\ Lines[4] = "enter" /\ Lines[5] = "exit"
  BY DEF Lines
<1>2. \A k \in 1..5 : k = 1 \/ k = 2 \/ k = 3 \/ k = 4 \/ k = 5
  OBVIOUS
<1>3. \A k \in 1..5 : Lines[k] \in Words
  BY <1>1, <1>2 DEF Words, Names
<1>4. \A k \in 1..5 : Lines[k] # "[dev]" => Lines[k] \in Names
  BY <1>1, <1>2 DEF Names
<1>5. \A j, k \in 1..5 : Lines[j] = Lines[k] => j = k
  <2>1. SUFFICES ASSUME NEW j \in 1..5, NEW k \in 1..5, Lines[j] = Lines[k]
                 PROVE  j = k
    OBVIOUS
  <2>2. CASE j = 1
    BY <1>1, <1>2, <2>1, <2>2
  <2>3. CASE j = 2
    BY <1>1, <1>2, <2>1, <2>3
  <2>4. CASE j = 3
    BY <1>1, <1>2, <2>1, <2>4
  <2>5. CASE j = 4
    BY <1>1, <1>2, <2>1, <2>5
  <2>6. CASE j = 5
    BY <1>1, <1>2, <2>1, <2>6
  <2> QED
    BY <1>2, <2>2, <2>3, <2>4, <2>5, <2>6
<1>6. \A k \in 1..5 : Lines[k] # "garbage" /\ Lines[k] # "none"
  BY <1>1, <1>2
<1> QED
  BY <1>1, <1>3, <1>4, <1>5, <1>6

LEMMA LineTyped ==
  ASSUME NEW payload \in [Names -> Int], NEW k \in 1..5
  PROVE  Line(payload, k) \in LineSet
<1>1. CASE Lines[k] = "[dev]"
  BY <1>1, LinesAre DEF Line, LineSet
<1>2. CASE Lines[k] # "[dev]"
  <2>1. payload[Lines[k]] \in Int
    BY <1>2, LinesAre
  <2> QED
    BY <1>2, <2>1, LinesAre DEF Line, LineSet
<1> QED
  BY <1>1, <1>2

LEMMA InitOneSave == SettingsInit => OneSave
<1> SUFFICES ASSUME SettingsInit PROVE OneSave
  OBVIOUS
<1>1. NoFile \in Seq(LineSet)
  <2>1. <<"none", 0>> \in LineSet
    BY DEF LineSet, Words
  <2> QED
    BY <2>1 DEF NoFile
<1>2. <<>> \in Seq([Names -> Int])
  OBVIOUS
<1> QED
  BY <1>1, <1>2 DEF SettingsInit, OneSave

LEMMA SaveKeeps ==
  ASSUME OneSave, Save
  PROVE  OneSave'
<1>1. /\ saving' \in [Names -> Int] /\ saves' = Append(saves, saving')
      /\ file' = <<>> /\ written' = 0
  BY SettingsAssumption DEF Save
<1>2. /\ saves' \in Seq([Names -> Int])
      /\ Len(saves) + 1 \in DOMAIN saves' /\ saves'[Len(saves) + 1] = saving'
  BY <1>1 DEF OneSave
<1>3. /\ StartsWith(file', saving', 0) /\ Holds(file', saving', 0)
      /\ Len(file') = 0 /\ file' \in Seq(LineSet)
  BY <1>1 DEF StartsWith, Holds
<1> QED
  BY <1>1, <1>2, <1>3 DEF OneSave

LEMMA SaveWritesKeeps ==
  ASSUME OneSave, SaveWrites
  PROVE  OneSave'
<1>1. /\ saving # NoPayload /\ written \in 0..4 /\ Len(file) = written
      /\ written' = written + 1 /\ UNCHANGED <<saving, saves>>
      /\ file' = Append(file, Line(saving, written + 1))
  <2>1. saving # NoPayload /\ written < 5
    BY LinesAre DEF SaveWrites
  <2>2. written \in 0..5 /\ Len(file) = written
    BY <2>1 DEF OneSave
  <2>3. ~(written < Len(file))
    BY <2>2
  <2> QED
    BY <2>1, <2>2, <2>3 DEF SaveWrites
<1>2. PICK s \in DOMAIN saves : saving = saves[s] /\ StartsWith(file, saving, written)
  BY <1>1 DEF OneSave
<1>3. saving \in [Names -> Int]
  BY <1>2 DEF OneSave
<1>4. Line(saving, written + 1) \in LineSet
  BY <1>1, <1>3, LineTyped
<1>5. /\ file' \in Seq(LineSet) /\ Len(file') = written + 1
      /\ \A k \in 1..written : file'[k] = file[k]
      /\ file'[written + 1] = Line(saving, written + 1)
  BY <1>1, <1>4 DEF OneSave
<1>6. StartsWith(file', saving, written + 1)
  BY <1>1, <1>2, <1>5 DEF StartsWith
<1>7. Holds(file', saving, written + 1)
  BY <1>5, <1>6 DEF Holds
<1> QED
  BY <1>1, <1>2, <1>5, <1>6, <1>7 DEF OneSave

\* However a save ends before its time, the file holds the beginning of one payload.
LEMMA CutShortKeeps ==
  ASSUME OneSave, file' \in CutShort, saving' = NoPayload, UNCHANGED saves
  PROVE  OneSave'
<1>1. saving' = NoPayload /\ UNCHANGED saves
  OBVIOUS
<1>2. CASE UNCHANGED file
  BY <1>1, <1>2 DEF OneSave
<1>3. CASE ~UNCHANGED file
  <2>1. /\ saving # NoPayload /\ written = Len(file) /\ written \in 0..4
        /\ \/ file' = Append(file, Garbage)
           \/ /\ Lines[written + 1] # "[dev]"
              /\ file' = Append(file, <<Lines[written + 1], Torn>>)
    <3>1. ~(saving = NoPayload \/ written # Len(file) \/ written = Len(Lines))
      BY <1>3 DEF CutShort
    <3>2. file' \in {Append(file, Garbage)} \union
                       (IF Lines[written + 1] = "[dev]" THEN {}
                        ELSE {Append(file, <<Lines[written + 1], Torn>>)})
      BY <1>3, <3>1 DEF CutShort
    <3>3. written \in 0..5 /\ written # 5
      BY <3>1, LinesAre DEF OneSave
    <3> QED
      BY <3>1, <3>2, <3>3
  <2>2. PICK s \in DOMAIN saves : saving = saves[s] /\ StartsWith(file, saving, written)
    BY <2>1 DEF OneSave
  <2>3. PICK line \in LineSet :
          /\ file' = Append(file, line)
          /\ \/ line = Garbage
             \/ Lines[written + 1] # "[dev]" /\ line = <<Lines[written + 1], Torn>>
    <3>1. Garbage \in LineSet
      BY DEF Garbage, LineSet, Words
    <3>2. <<Lines[written + 1], Torn>> \in LineSet
      <4>1. written + 1 \in 1..5
        BY <2>1
      <4>2. Lines[written + 1] \in Words /\ Torn \in Int
        BY <4>1, LinesAre, SettingsAssumption
      <4> QED
        BY <4>2 DEF LineSet
    <3> QED
      BY <2>1, <3>1, <3>2
  <2>4. /\ file' \in Seq(LineSet) /\ Len(file') = written + 1
        /\ \A k \in 1..written : file'[k] = file[k]
        /\ file'[written + 1] = line
    BY <2>1, <2>3 DEF OneSave
  <2>5. Cut(file', written)
    BY <2>1, <2>3, <2>4 DEF Cut
  <2>6. StartsWith(file', saves[s], written)
    BY <2>1, <2>2, <2>4 DEF StartsWith
  <2> QED
    BY <1>1, <2>1, <2>4, <2>5, <2>6 DEF OneSave, Holds
<1> QED
  BY <1>2, <1>3

LEMMA EndedKeeps ==
  ASSUME OneSave, SaveFails \/ Crash
  PROVE  OneSave'
BY CutShortKeeps DEF SaveFails, Crash

LEMMA OthersKeep ==
  ASSUME OneSave,
         \/ SaveReturns \/ ApplyLoaded \/ ApplyChosen \/ UpdateConfig \/ Build
         \/ UNCHANGED settingsVars
  PROVE  OneSave'
<1>1. /\ UNCHANGED <<file, saves>>
      /\ saving' = NoPayload \/ UNCHANGED <<saving, written>>
  BY DEF SaveReturns, ApplyLoaded, ApplyChosen, UpdateConfig, Build, settingsVars
<1> QED
  BY <1>1 DEF OneSave

-----------------------------------------------------------------------------
(* Reading it back                                                         *)

\* A setting that has its line is read from it; one that has none has its default.
LEMMA ReadFinds ==
  ASSUME NEW name,
         \A i, j \in DOMAIN file : file[i][1] = name /\ file[j][1] = name => i = j
  PROVE  /\ \A k \in DOMAIN file : file[k][1] = name => Read(name) = file[k][2]
         /\ (\A k \in DOMAIN file : file[k][1] # name) => Read(name) = Defaults[name]
<1> DEFINE found == {k \in DOMAIN file : file[k][1] = name}
<1>1. ASSUME NEW k \in DOMAIN file, file[k][1] = name
      PROVE  Read(name) = file[k][2]
  <2>1. found = {k}
    BY <1>1
  <2>2. (CHOOSE i \in found : TRUE) = k
    BY <2>1
  <2> QED
    BY <2>1, <2>2 DEF Read
<1>2. ASSUME \A k \in DOMAIN file : file[k][1] # name
      PROVE  Read(name) = Defaults[name]
  <2>1. found = {}
    BY <1>2
  <2> QED
    BY <2>1 DEF Read
<1> QED
  BY <1>1, <1>2

LEMMA ReadsOneSave ==
  ASSUME OneSave, Readable,
         NEW s \in DOMAIN saves, NEW m \in 0..5, Holds(file, saves[s], m),
         NEW k \in 1..5, Lines[k] # "[dev]"
  PROVE  /\ k <= m => Read(Lines[k]) = saves[s][Lines[k]]
         /\ k = m + 1 => Read(Lines[k]) \in {Torn, Defaults[Lines[k]]}
         /\ k > m + 1 => Read(Lines[k]) = Defaults[Lines[k]]
<1>1. DOMAIN file = 1..Len(file)
  BY DEF OneSave
<1>2. ASSUME NEW j \in 1..m
      PROVE  j \in 1..5 /\ j \in DOMAIN file /\ file[j][1] = Lines[j]
  <2>1. Len(file) \in Nat /\ Len(file) >= m /\ file[j] = Line(saves[s], j)
    BY DEF OneSave, Holds, StartsWith
  <2>2. j \in 1..5 /\ j \in DOMAIN file
    BY <1>1, <2>1
  <2> QED
    BY <2>1, <2>2 DEF Line
<1>3. \A j \in DOMAIN file : j \in 1..m \/ (j = m + 1 /\ Cut(file, m))
  <2>1. Len(file) = m \/ (Len(file) = m + 1 /\ Cut(file, m))
    BY DEF Holds, Cut
  <2>2. CASE Len(file) = m
    BY <1>1, <2>2
  <2>3. CASE Len(file) = m + 1 /\ Cut(file, m)
    BY <1>1, <2>3
  <2> QED
    BY <2>1, <2>2, <2>3
<1>4. Cut(file, m) => m + 1 \in 1..5 /\ file[m + 1] = <<Lines[m + 1], Torn>>
  <2>1. Cut(file, m) => m + 1 \in DOMAIN file /\ m + 1 \in 1..5
    BY <1>1 DEF Cut
  <2> QED
    BY <2>1 DEF Cut, Readable
<1>5. \A j \in DOMAIN file : j \in 1..5 /\ file[j][1] = Lines[j]
  BY <1>2, <1>3, <1>4
<1>6. \A i, j \in DOMAIN file : file[i][1] = Lines[k] /\ file[j][1] = Lines[k] => i = j
  BY <1>5, LinesAre
<1>7. /\ k \in DOMAIN file => Read(Lines[k]) = file[k][2]
      /\ k \notin DOMAIN file => Read(Lines[k]) = Defaults[Lines[k]]
  <2>1. k \in DOMAIN file => file[k][1] = Lines[k]
    BY <1>5
  <2>2. k \notin DOMAIN file => \A j \in DOMAIN file : file[j][1] # Lines[k]
    BY <1>5, LinesAre
  <2> QED
    BY <1>6, <2>1, <2>2, ReadFinds
<1>8. ASSUME k <= m PROVE Read(Lines[k]) = saves[s][Lines[k]]
  <2>1. k \in DOMAIN file /\ file[k] = Line(saves[s], k)
    BY <1>2, <1>8 DEF Holds, StartsWith
  <2> QED
    BY <1>7, <2>1 DEF Line
<1>9. ASSUME k = m + 1 PROVE Read(Lines[k]) \in {Torn, Defaults[Lines[k]]}
  <2>1. CASE k \in DOMAIN file
    BY <1>3, <1>4, <1>7, <1>9, <2>1
  <2>2. CASE k \notin DOMAIN file
    BY <1>7, <2>2
  <2> QED
    BY <2>1, <2>2
<1>10. ASSUME k > m + 1 PROVE Read(Lines[k]) = Defaults[Lines[k]]
  <2>1. k \notin DOMAIN file
    BY <1>3, <1>10
  <2> QED
    BY <1>7, <2>1
<1> QED
  BY <1>8, <1>9, <1>10

LEMMA OneSaveIsLoaded == OneSave => LoadedIsOneSave
<1> SUFFICES ASSUME OneSave, Loaded # NoPayload
             PROVE  \E s \in DOMAIN saves, n \in 1..Len(Lines) : \A k \in 1..Len(Lines) :
                      Lines[k] # "[dev]" =>
                        \/ k < n /\ Loaded[Lines[k]] = saves[s][Lines[k]]
                        \/ k = n /\ Loaded[Lines[k]] \in
                                      {saves[s][Lines[k]], Torn, Defaults[Lines[k]]}
                        \/ k > n /\ Loaded[Lines[k]] = Defaults[Lines[k]]
  BY DEF LoadedIsOneSave
<1>1. Readable /\ Loaded = [name \in Names |-> Read(name)]
  BY DEF Loaded
<1>2. PICK s \in DOMAIN saves, m \in 0..5 :
        Holds(file, saves[s], m)
  BY <1>1 DEF OneSave, Readable
<1>3. \A k \in 1..5 : Lines[k] # "[dev]" => Loaded[Lines[k]] = Read(Lines[k])
  BY <1>1, LinesAre
<1> DEFINE n == IF m = 5 THEN 5 ELSE m + 1
<1>4. n \in 1..Len(Lines)
  BY LinesAre
<1>5. ASSUME NEW k \in 1..5, Lines[k] # "[dev]"
      PROVE  \/ k < n /\ Loaded[Lines[k]] = saves[s][Lines[k]]
             \/ k = n /\ Loaded[Lines[k]] \in {saves[s][Lines[k]], Torn, Defaults[Lines[k]]}
             \/ k > n /\ Loaded[Lines[k]] = Defaults[Lines[k]]
  <2>1. /\ k <= m => Read(Lines[k]) = saves[s][Lines[k]]
        /\ k = m + 1 => Read(Lines[k]) \in {Torn, Defaults[Lines[k]]}
        /\ k > m + 1 => Read(Lines[k]) = Defaults[Lines[k]]
    BY <1>1, <1>2, <1>5, ReadsOneSave
  <2> QED
    BY <1>3, <1>5, <2>1
<1> QED
  BY <1>4, <1>5, LinesAre

\* What is read back is of one save, whenever one failed or the program died: its first
\* settings, at most one value that was cut, and defaults after that
\* (config_store.rs:45-57, 25-42).
THEOREM SavesAreNotMixed == SettingsSpec => []LoadedIsOneSave
<1>1. OneSave /\ [SettingsNext]_settingsVars => OneSave'
  BY SaveKeeps, SaveWritesKeeps, EndedKeeps, OthersKeep DEF SettingsNext
<1> QED
  BY <1>1, InitOneSave, OneSaveIsLoaded, PTL DEF SettingsSpec

\* The configuration in force is one validate() accepts, whatever was loaded, drafted or
\* refused before (config.rs:950-954, mod.rs:323-327).
THEOREM ForceIsValidated == SettingsSpec => []InForceIsValid
<1>1. SettingsInit => InForceIsValid
  BY DEF SettingsInit, InForceIsValid
<1>2. InForceIsValid /\ [SettingsNext]_settingsVars => InForceIsValid'
  BY DEF InForceIsValid, Valid, SettingsNext, Save, SaveWrites, SaveReturns, SaveFails, Crash,
     ApplyLoaded, ApplyChosen, UpdateConfig, Build, settingsVars, NoPayload
<1> QED
  BY <1>1, <1>2, PTL DEF SettingsSpec
=============================================================================
