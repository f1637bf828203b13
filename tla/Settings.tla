------------------------------ MODULE Settings ------------------------------
(***************************************************************************)
(* Settings from the panel to the detector (src/src/config.rs,             *)
(* src/src/config_store.rs, update_config of src/src/pipeline/mod.rs): a   *)
(* payload is merged into a configuration, validated, put in force and     *)
(* saved; a file is read back, as when the program starts.  A save may     *)
(* fail half way, and between two steps the program may die.               *)
(*                                                                         *)
(* The program around the library is not in the repository: it calls these *)
(* functions in any order, and here it may ignore an error of apply_to.    *)
(*                                                                         *)
(* Four settings stand for the sixty: one of the user's, and of the        *)
(* developer's the two bars of the readout, which validate() compares and  *)
(* which are written last, and one nothing is asked of.                    *)
(***************************************************************************)
EXTENDS Integers, Sequences

CONSTANTS
  Payloads,    \* what the panel may send
  Torn,        \* what is left of a value cut off inside its digits
  MaxSaves     \* bound on payloads saved

\* The lines of the file, in the order the serializer writes them.
Lines == <<"hold", "[dev]", "score", "enter", "exit">>
Names == {"hold", "score", "enter", "exit"}

Defaults == [hold |-> 2, score |-> 2, enter |-> 2, exit |-> 1]

ASSUME SettingsAssumption ==
  /\ Payloads \subseteq [Names -> Int] /\ Torn \in Int
  /\ MaxSaves \in Nat

VARIABLES
  file,       \* the lines on disk: pairs of a name and a value; or NoFile
  saving,     \* the payload of a save under way, or NoPayload
  written,    \* lines of it written
  saves,      \* auxiliary: payloads save() was called with, in order
  draft,      \* the program's own Config
  inForce     \* shared.config, or NoPayload without a detector

settingsVars == <<file, saving, written, saves, draft, inForce>>

NoPayload == <<>>
NoFile == << <<"none", 0>> >>
Garbage == <<"garbage", 0>>

\* validate(): of the settings here, the bars.
Valid(config) == config.exit <= config.enter

SettingsInit ==
  /\ file = NoFile /\ saving = NoPayload /\ written = 0 /\ saves = <<>>
  /\ draft = Defaults /\ inForce = NoPayload

-----------------------------------------------------------------------------
(* load() and save()                                                       *)

Line(payload, k) == <<Lines[k], IF Lines[k] = "[dev]" THEN 0 ELSE payload[Lines[k]]>>

\* A file that does not parse, or lacks a section, counts as no file; a setting
\* that is not in its section has its default.
Readable ==
  /\ file # NoFile
  /\ \A k \in DOMAIN file : file[k] # Garbage
  /\ \E k \in DOMAIN file : file[k][1] = "[dev]"

Read(name) ==
  LET found == {k \in DOMAIN file : file[k][1] = name}
  IN  IF found = {} THEN Defaults[name] ELSE file[CHOOSE k \in found : TRUE][2]

Loaded == IF Readable THEN [name \in Names |-> Read(name)] ELSE NoPayload

\* Mutant: the old content stays until it is written over.
SaveOverwrites ==
  /\ saving = NoPayload /\ Len(saves) < MaxSaves
  /\ saving' \in Payloads
  /\ saves' = Append(saves, saving')
  /\ file' = IF file = NoFile THEN <<>> ELSE file
  /\ written' = 0
  /\ UNCHANGED <<draft, inForce>>

\* save(): the file is opened, which empties it...
Save ==
  /\ saving = NoPayload /\ Len(saves) < MaxSaves
  /\ saving' \in Payloads
  /\ saves' = Append(saves, saving')
  /\ file' = <<>>
  /\ written' = 0
  /\ UNCHANGED <<draft, inForce>>

\* ...and written from its start...
SaveWrites ==
  /\ saving # NoPayload /\ written < Len(Lines)
  /\ written' = written + 1
  /\ file' = IF written < Len(file)
             THEN [file EXCEPT ![written + 1] = Line(saving, written + 1)]
             ELSE Append(file, Line(saving, written + 1))
  /\ UNCHANGED <<saving, saves, draft, inForce>>

SaveReturns ==
  /\ saving # NoPayload /\ written = Len(Lines)
  /\ saving' = NoPayload /\ written' = 0
  /\ UNCHANGED <<file, saves, draft, inForce>>

\* A save that ends before its time leaves what it had written, and of the next line
\* maybe a part: not a line at all, or a value that lost its last digits.
CutShort ==
  {file} \union
  (IF saving = NoPayload \/ written # Len(file) \/ written = Len(Lines) THEN {}
   ELSE {Append(file, Garbage)} \union
        (IF Lines[written + 1] = "[dev]" THEN {}
         ELSE {Append(file, <<Lines[written + 1], Torn>>)}))

\* The write fails on the way, as on a full disk: save() says so, and the program goes
\* on with the configuration it has.  A save that fails before the file is open changes
\* nothing.
SaveFails ==
  /\ saving # NoPayload /\ written < Len(Lines)
  /\ file' \in CutShort
  /\ saving' = NoPayload /\ written' = 0
  /\ UNCHANGED <<saves, draft, inForce>>

\* The program dies.
Crash ==
  /\ file' \in CutShort
  /\ saving' = NoPayload /\ written' = 0
  /\ draft' = Defaults /\ inForce' = NoPayload
  /\ UNCHANGED saves

-----------------------------------------------------------------------------
(* Configurations                                                          *)

\* SettingsPayload::apply_to, over everything a payload has; then it validates,
\* and an invalid configuration stays as it is.
Apply(payload) == draft' = payload

ApplyLoaded ==
  /\ saving = NoPayload
  /\ Loaded # NoPayload
  /\ Apply(Loaded)
  /\ UNCHANGED <<file, saving, written, saves, inForce>>

ApplyChosen ==
  /\ saving = NoPayload
  /\ \E payload \in Payloads : Apply(payload)
  /\ UNCHANGED <<file, saving, written, saves, inForce>>

\* Mutant: whoever drafted it has validated it.
UpdateConfigUnchecked ==
  /\ inForce # NoPayload
  /\ inForce' = draft
  /\ UNCHANGED <<file, saving, written, saves, draft>>

\* update_config validates what it is given, whatever apply_to had said of it.
UpdateConfig ==
  /\ inForce # NoPayload
  /\ inForce' = IF Valid(draft) THEN draft ELSE inForce
  /\ UNCHANGED <<file, saving, written, saves, draft>>

\* build() validates too; without a detector there is nothing to update.
Build ==
  /\ inForce = NoPayload
  /\ inForce' = IF Valid(draft) THEN draft ELSE inForce
  /\ UNCHANGED <<file, saving, written, saves, draft>>

SettingsNext ==
  \/ Save \/ SaveWrites \/ SaveReturns \/ SaveFails \/ Crash
  \/ ApplyLoaded \/ ApplyChosen \/ UpdateConfig \/ Build

SettingsSpec == SettingsInit /\ [][SettingsNext]_settingsVars

-----------------------------------------------------------------------------
(* Properties                                                              *)

\* The configuration in force is one validate() accepts, although a refused payload
\* has by then overwritten the one it was applied to, and a file may be read back
\* in part (config.rs:950-954, mod.rs:323-327).
InForceIsValid == inForce # NoPayload => Valid(inForce)

\* What is read back is of one save: its first settings, then at most one value
\* that was cut, and defaults after that.  Two saves are never mixed, whenever one
\* failed or the program died (config_store.rs:45-57, 25-42).
LoadedIsOneSave ==
  (Loaded # NoPayload /\ saving = NoPayload) =>
    \E s \in DOMAIN saves, n \in 1..Len(Lines) : \A k \in 1..Len(Lines) :
      Lines[k] # "[dev]" =>
        \/ k < n /\ Loaded[Lines[k]] = saves[s][Lines[k]]
        \/ k = n /\ Loaded[Lines[k]] \in {saves[s][Lines[k]], Torn, Defaults[Lines[k]]}
        \/ k > n /\ Loaded[Lines[k]] = Defaults[Lines[k]]
=============================================================================
