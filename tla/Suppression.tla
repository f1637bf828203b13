---------------------------- MODULE Suppression ----------------------------
(***************************************************************************)
(* From what a detection model puts out for a frame to the list a worker   *)
(* gets (src/src/models): cells are decoded and filtered, sorted by score, *)
(* cut to top_k, and overlapping boxes of one class are suppressed.  Faces *)
(* and objects share the suppression; faces are of one class.              *)
(*                                                                         *)
(* A cell stands for its most probable class, its score, and the place of  *)
(* its box: boxes overlap by more than the threshold when their places are *)
(* next to each other, which is not transitive.                            *)
(***************************************************************************)
EXTENDS Integers, Sequences, FiniteSets

CONSTANTS
  Cells,        \* what a cell may hold: class, score, place
  MaxCells,     \* bound on the cells of a frame
  Allowed,      \* classes of the allowlist
  MinScore,
  TopKs         \* limits: top_k of the face model, a constant for objects

ASSUME SuppressionAssumption ==
  /\ \A cell \in Cells : cell.score \in Int /\ cell.place \in Int
  /\ MaxCells \in Nat /\ MinScore \in Int /\ TopKs \subseteq Nat

VARIABLES
  cells, topK,
  queue,      \* cells to go through, best first
  kept,       \* cells kept so far
  stage       \* "idle", "raw", "suppressing", "done"

suppressionVars == <<cells, topK, queue, kept, stage>>

SuppressionInit ==
  /\ cells = <<>> /\ topK = 0 /\ queue = <<>> /\ kept = <<>> /\ stage = "idle"

\* Cell i ranks before cell j; the sort is stable.
Before(i, j) ==
  \/ cells[i].score > cells[j].score
  \/ cells[i].score = cells[j].score /\ i < j

Overlap(i, j) == cells[i].place - cells[j].place \in {-1, 0, 1}

\* The model has run.  Nothing is kept from one frame to the next: one is enough.
ModelPutsOut ==
  /\ stage = "idle"
  /\ \E n \in 1..MaxCells : cells' \in [1..n -> Cells]
  /\ topK' \in TopKs
  /\ stage' = "raw"
  /\ UNCHANGED <<queue, kept>>

\* decode: the score first, then the class; the best class counts even if it is
\* not on the list and another one of the cell would be.
Passes(i) == cells[i].score >= MinScore /\ cells[i].class \in Allowed

\* A ranking of a set of cells.
Ranked(set) ==
  [place \in 1..Cardinality(set) |->
     CHOOSE i \in set : Cardinality({j \in set : Before(j, i)}) = place - 1]

DecodeAndSort ==
  /\ stage = "raw"
  /\ LET ranked == Ranked({i \in DOMAIN cells : Passes(i)})
     IN  queue' = SubSeq(ranked, 1, IF topK < Len(ranked) THEN topK ELSE Len(ranked))
  /\ stage' = "suppressing"
  /\ UNCHANGED <<cells, topK, kept>>

\* Mutant: the winner of a place takes it from every class.
SuppressedByAny(i) == \E k \in DOMAIN kept : Overlap(kept[k], i)

Suppressed(i) ==
  \E k \in DOMAIN kept : cells[kept[k]].class = cells[i].class /\ Overlap(kept[k], i)

\* One turn of the loop.
SuppressNext ==
  /\ stage = "suppressing" /\ queue # <<>>
  /\ kept' = IF Suppressed(Head(queue)) THEN kept ELSE Append(kept, Head(queue))
  /\ queue' = Tail(queue)
  /\ UNCHANGED <<cells, topK, stage>>

SuppressionDone ==
  /\ stage = "suppressing" /\ queue = <<>>
  /\ stage' = "done"
  /\ UNCHANGED <<cells, topK, queue, kept>>

SuppressionNext == ModelPutsOut \/ DecodeAndSort \/ SuppressNext \/ SuppressionDone

SuppressionSpec == SuppressionInit /\ [][SuppressionNext]_suppressionVars

-----------------------------------------------------------------------------
(* Properties                                                              *)

\* Cells that pass and rank among the first topK of those.
Contenders ==
  LET passing == {i \in DOMAIN cells : Passes(i)}
  IN  {i \in passing : Cardinality({j \in passing : Before(j, i)}) < topK}

\* What is kept is what the order and the overlaps determine: a contender is kept
\* exactly when no better one of its class that is kept overlaps it.  One that is
\* suppressed suppresses nothing, an allowed label is never lost to another class,
\* and the list is best first, as callers take its head for the candidate's face
\* (models/mod.rs:281-304, objects.rs:248-314, workers.rs:146-149).
KeptIsKernel ==
  LET chosen == {kept[k] : k \in DOMAIN kept}
  IN  stage = "done" =>
        /\ chosen \subseteq Contenders
        /\ \A i \in Contenders :
             i \in chosen <=> ~ \E j \in chosen : /\ Before(j, i)
                                                  /\ cells[j].class = cells[i].class
                                                  /\ Overlap(j, i)
        /\ \A k \in 1..(Len(kept) - 1) : Before(kept[k], kept[k + 1])
=============================================================================
