---------------------------- MODULE MCAtomicFile ----------------------------
(***************************************************************************)
(* One writer, or two, on a file of a few rows.  Inodes are                *)
(* interchangeable, and so are rows.                                       *)
(***************************************************************************)
EXTENDS AtomicFile, TLC

ExclusiveAll == \A w \in Writer : Exclusive(w)

Symmetry == Permutations(Inode) \cup Permutations(Row)
=============================================================================
