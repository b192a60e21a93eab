------------------------------ MODULE Strings ------------------------------
(***************************************************************************)
(* The memory and string functions of src/lib/string.c, which the          *)
(* compiler's own copies and clearings end up in as well.  Memory is a     *)
(* function from addresses to bytes, a pointer is an address, and a string *)
(* ends at its first zero byte.                                            *)
(***************************************************************************)
EXTENDS Integers, Sequences, SequencesExt, FiniteSetsExt

Null == -1

(***************************************************************************)
(* Writing to memory.  A loop is a function: what memory is after i rounds. *)
(***************************************************************************)
memset(m, dest, value, count) ==
  LET p[i \in 0..count] ==
        IF i = 0 THEN m ELSE [p[i-1] EXCEPT ![dest + i - 1] = value % 256]
  IN  p[count]

Forward(m, d, s, count) ==
  LET f[i \in 0..count] ==
        IF i = 0 THEN m ELSE [f[i-1] EXCEPT ![d + i - 1] = f[i-1][s + i - 1]]
  IN  f[count]
Backward(m, d, s, count) ==
  LET f[i \in 0..count] ==
        IF i = 0 THEN m ELSE [f[i-1] EXCEPT ![d + count - i] = f[i-1][s + count - i]]
  IN  f[count]

memcpy(m, dest, src, count) == Forward(m, dest, src, count)
memmove(m, dest, src, count) ==
  IF dest = src \/ count = 0 THEN m
  ELSE IF dest < src THEN Forward(m, dest, src, count)
  ELSE Backward(m, dest, src, count)

(***************************************************************************)
(* Reading from memory.                                                    *)
(***************************************************************************)
memcmp(m, a, b, count) ==
  LET Differ == {i \in 0..count-1 : m[a + i] # m[b + i]}
  IN  IF Differ = {} THEN 0 ELSE m[a + Min(Differ)] - m[b + Min(Differ)]

strlen(m, s) ==
  LET walk[n \in Nat] == IF m[s + n] # 0 THEN walk[n + 1] ELSE n
  IN  walk[0]

strcmp(m, a, b) ==
  LET walk[i \in Nat] == IF m[a + i] # 0 /\ m[a + i] = m[b + i] THEN walk[i + 1]
                         ELSE m[a + i] - m[b + i]
  IN  walk[0]

str_starts_with(m, s, prefix) ==
  LET walk[i \in Nat] == IF m[prefix + i] = 0 THEN s + i
                         ELSE IF m[s + i] # m[prefix + i] THEN Null
                         ELSE walk[i + 1]
  IN  walk[0]

(* The digits, lowest first, in tmp; then buf from the back of tmp.        *)
u64_to_dec(v) ==
  LET tmp[n \in Nat] == IF n = 0 THEN <<>> ELSE <<n % 10>> \o tmp[n \div 10]
  IN  IF v = 0 THEN <<0>> ELSE Reverse(tmp[v])
=============================================================================
