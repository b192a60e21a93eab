------------------------------ MODULE Allocator ------------------------------
(***************************************************************************)
(* What kmalloc, kfree and krealloc promise their callers, without a block *)
(* list: a region that is handed out is at least as long as was asked for, *)
(* overlaps no other region that is in use, and stays as it is until it is *)
(* given back.                                                             *)
(***************************************************************************)
EXTENDS Integers

CONSTANTS
  Address,  \* the addresses a region can start at
  Length    \* the lengths it can have

VARIABLE live  \* the regions in use: where each starts -> how long it is,
               \* and how long the caller wanted it to be

Init == live = [a \in {} |-> [length |-> 0, asked |-> 0]]

Disjoint(a, n, b, m) == a + n <= b \/ b + m <= a

(* A region comes into use at a, at least as long as it has to be.         *)
Grant(a) ==
  /\ a \notin DOMAIN live
  /\ DOMAIN live' = DOMAIN live \cup {a}
  /\ live'[a] \in [length : Length, asked : Length \ {0}]
  /\ live'[a].length >= live'[a].asked
  /\ \A b \in DOMAIN live :
       live'[b] = live[b] /\ Disjoint(a, live'[a].length, b, live[b].length)

(* The region at a goes out of use. *)
Release(a) ==
  /\ a \in DOMAIN live
  /\ live' = [x \in DOMAIN live \ {a} |-> live[x]]

Next == \E a \in Address : Release(a) \/ Grant(a)

Spec == Init /\ [][Next]_live
=============================================================================
