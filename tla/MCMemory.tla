------------------------------- MODULE MCMemory -------------------------------
(* Frames and heap, side by side: what they share is HeapExpandLocked, which    *)
(* both describe, and together they would only multiply.  part says which one  *)
(* moves.                                                                      *)
(* Frames: two address spaces, so that one program is loaded while the last is *)
(* freed; three tables of three pages for the program, what it maps, its stack.*)
EXTENDS Memory, Heap, TLC

VARIABLE part

Boot == {0}
Programs == {<<1, 2>>}
Named == {2, 3, 8}
Spans == [l \in 0..Levels |-> Fanout^l]
SpaceSymmetry == Permutations(Space)

MCInit == Init /\ HeapInit /\ part \in {"frames", "heap"}
MCNext ==
  \/ part = "frames" /\ Next /\ UNCHANGED <<heapVars, part>>
  \/ part = "heap" /\ HeapNext /\ UNCHANGED <<vars, part>>
MCSpec == MCInit /\ [][MCNext]_<<vars, heapVars, part>>
==============================================================================
