---------------------------- MODULE MCFileSync ----------------------------
(***************************************************************************)
(* Small instances of FileSync: a file of one block or of two, two or      *)
(* three files of one block, and a file of two blocks beside one of one.   *)
(***************************************************************************)
EXTENDS FileSync, TLC

CONSTANTS o1, o2, o3, b1, b2, b3, s1, s2

TwoBlocks == o1 :> {b1, b2}
OneBlock == o1 :> {b1}
OneBlockEach == o1 :> {b1} @@ o2 :> {b2}
ThreeFiles == o1 :> {b1} @@ o2 :> {b2} @@ o3 :> {b3}
LargeAndSmall == o1 :> {b1, b2} @@ o2 :> {b3}
SlotSymmetry == Permutations(Slots)
=============================================================================
