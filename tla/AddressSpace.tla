---------------------------- MODULE AddressSpace ----------------------------
(***************************************************************************)
(* What src/mm/vmm.c promises, without tables: each page is mapped to one  *)
(* frame or to none; vmm_map and vmm_unmap change that one page, and       *)
(* vmm_init keeps the kernel's half of the address space.                  *)
(***************************************************************************)
CONSTANTS
  Page,        \* the pages of the address space
  KernelPage,  \* those in the kernel's half
  Frame,       \* the frames
  None         \* not a frame: the page is not mapped

VARIABLE mapping

Init == mapping \in [Page -> Frame \cup {None}]

(* Pages outside the kernel's half are gone. *)
Enter == mapping' = [v \in Page |-> IF v \in KernelPage THEN mapping[v] ELSE None]

Map(v, f) == mapping' = [mapping EXCEPT ![v] = f]

Unmap(v) == mapping' = [mapping EXCEPT ![v] = None]

Next ==
  \/ Enter
  \/ \E v \in Page : Unmap(v) \/ \E f \in Frame : Map(v, f)

Spec == Init /\ [][Next]_mapping
=============================================================================
