------------------------------ MODULE MCParts ------------------------------
(* A small instance of each part.                                          *)
EXTENDS Parts

SomeBars == {[enter |-> 12, exit |-> 8], [enter |-> 10, exit |-> 10], [enter |-> 5, exit |-> -4]}

\* Around both bars, on both sides, and past the other side's.
SomeReadings ==
  {[horizontal |-> yaw, vertical |-> pitch] : yaw \in {-13, 8, 12}, pitch \in {-4, 9}}

Rising == [i \in 1..24 |-> i]
Zigzag == [i \in 1..24 |-> IF i % 2 = 0 THEN i ELSE 25 - i]
SomeWorkloads == {Rising, Zigzag, [i \in 1..3 |-> 7], <<5, 1, 4, 1, 3>>}

\* One too weak, one of a class nobody asked for.
SomeCells ==
  [class : {"phone", "book"}, score : {2, 3}, place : {1, 2, 3}] \union
    {[class |-> "phone", score |-> 1, place |-> 2], [class |-> "person", score |-> 3, place |-> 2]}

SomePayloads ==
  {[hold |-> 11, score |-> 11, enter |-> 14, exit |-> 12],
   [hold |-> 12, score |-> 13, enter |-> 11, exit |-> 11],
   [hold |-> 13, score |-> 12, enter |-> 12, exit |-> 14]}

SomeFaces ==
  {[score |-> 60, width |-> 100, eyes |-> 40],
   [score |-> 90, width |-> 100, eyes |-> 15],
   [score |-> 90, width |-> 100, eyes |-> 14],
   [score |-> 90, width |-> 100, eyes |-> 76],
   [score |-> 90, width |-> 0, eyes |-> 3],
   [score |-> 90, width |-> 100, eyes |-> NoEyes]}

SomeSetups == {{}, {"pose"}, {"pose", "gaze"}, {"gaze", "objects"}}
=============================================================================
