------------------------------ MODULE MCFrames ------------------------------
(* Instances of Frames for TLC. *)
EXTENDS Frames

Entry(base, pages, usable) == [base |-> base, pages |-> pages, usable |-> usable]

(* A page holds one byte of the bitmap, so that a bitmap can need two      *)
(* pages and be too long for a region.                                     *)
MCMemoryMaps ==
  { << Entry(0, 4, TRUE) >>,
    << Entry(1, 2, TRUE), Entry(3, 2, FALSE), Entry(5, 3, TRUE) >>,
    << Entry(0, 1, TRUE), Entry(2, 7, TRUE) >>,
    << Entry(1, 1, TRUE), Entry(2, 6, FALSE), Entry(8, 4, TRUE) >>,
    << Entry(0, 8, FALSE), Entry(8, 4, TRUE) >>,
    << Entry(0, 8, FALSE), Entry(8, 1, TRUE) >> }
=============================================================================
