------------------------------ MODULE FramePool ------------------------------
(***************************************************************************)
(* What src/mm/pmm.c promises, without a bitmap: a pool of frames, out of  *)
(* which a request gets one that no one else has, or NULL if there is none *)
(* left.                                                                   *)
(***************************************************************************)
CONSTANTS
  Frame,    \* the frames a machine can have
  NULL

VARIABLES
  pool,     \* the frames there are to give
  out,      \* those that are given
  result    \* what the last request got

vars == <<pool, out, result>>

Init == pool \subseteq Frame /\ out = {} /\ result = NULL

Alloc ==
  /\ result' \in IF pool = out THEN {NULL} ELSE pool \ out
  /\ out' = out \cup ({result'} \ {NULL})
  /\ UNCHANGED pool

Free(f) == out' = out \ {f} /\ UNCHANGED <<pool, result>>

Next == Alloc \/ \E f \in out : Free(f)

Spec == Init /\ [][Next]_vars
=============================================================================
