---------------------------- MODULE MCPageTables ----------------------------
(* Instances of PageTables for TLC. *)
EXTENDS PageTables

(* Two entries for each table; index 1 of the root is the kernel's half.   *)
MCIndex == {0, 1}
MCKernelIndex == {1}

(* The kernel's own page shares the root with the others.  The second page *)
(* shares all tables with the third and all but the last with the fourth:  *)
(* a store to any level can hurt another page.  The last is one that only  *)
(* Limine maps, in the half that vmm_init leaves out.                      *)
MCFixed == <<1, 1, 1, 1>>
MCPage == {MCFixed, <<1, 0, 0, 0>>, <<1, 0, 0, 1>>, <<1, 0, 1, 0>>, <<0, 0, 0, 1>>}

(* Limine's root is frame 1; it maps frame 5 to the kernel's page and to   *)
(* the one of the other half, through tables of its own.                   *)
MCFrame == 0..14
Only(i, f) == [j \in MCIndex |-> IF j = i THEN f ELSE None]
MCLimineTables ==
  [f \in (1..4) \cup (6..8) |->
     IF f = 1 THEN [j \in MCIndex |-> IF j = 1 THEN 2 ELSE 6]
     ELSE IF f <= 4 THEN Only(1, f + 1)
     ELSE IF f = 8 THEN Only(1, 5) ELSE Only(0, f + 1)]

(* No free frame at all, too few for all tables, or enough. *)
MCFreeFrames == {{}, 9..11, 9..14}
=============================================================================
