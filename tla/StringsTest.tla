---------------------------- MODULE StringsTest ----------------------------
(***************************************************************************)
(* What the functions of Strings promise, compared with their definitions  *)
(* on every small memory and every region in it.  The heap copies with     *)
(* memcpy: its instance for TLC extends this module and so evaluates the   *)
(* assumptions.                                                            *)
(***************************************************************************)
EXTENDS Integers, Sequences, SequencesExt
LOCAL S == INSTANCE Strings

LOCAL Cells == 4
LOCAL Place == 0..Cells-1
LOCAL Memory == [Place -> {0, 1, 200}]
LOCAL Region(n) == {x \in Place : x + n <= Cells}
LOCAL Outside(x, n) == Place \ (x..x+n-1)

(* The n bytes from x on, and the string at x. *)
LOCAL Bytes(m, x, n) == [i \in 1..n |-> m[x + i - 1]]
LOCAL Text(m, x) ==
  Bytes(m, x, CHOOSE n \in Place : m[x + n] = 0 /\ \A i \in 0..n-1 : m[x + i] # 0)

(* Less in the order of a dictionary, bytes being unsigned. *)
LOCAL Before(s, t) ==
  \/ IsStrictPrefix(s, t)
  \/ \E i \in DOMAIN s \cap DOMAIN t :
       s[i] < t[i] /\ SubSeq(s, 1, i - 1) = SubSeq(t, 1, i - 1)
LOCAL Orders(result, s, t) == (result < 0 <=> Before(s, t)) /\ (result = 0 <=> s = t)

(* A write puts the right bytes where it should and nowhere else: memmove  *)
(* also when the regions overlap, memcpy when they do not.                 *)
ASSUME WritesAreRight ==
  \A m \in Memory, n \in 0..Cells : \A a \in Region(n) :
    /\ LET new == S!memset(m, a, -1, n)
       IN  \A x \in Place : new[x] = IF x \in Outside(a, n) THEN m[x] ELSE 255
    /\ \A b \in Region(n) :
         LET Copied(new) == /\ \A x \in Outside(a, n) : new[x] = m[x]
                            /\ Bytes(new, a, n) = Bytes(m, b, n)
         IN  /\ Copied(S!memmove(m, a, b, n))
             /\ a + n <= b \/ b + n <= a => Copied(S!memcpy(m, a, b, n))

(* A comparison has the sign of the order of unsigned bytes, and           *)
(* str_starts_with points behind the prefix exactly if it is one.          *)
ASSUME ComparisonsAreRight ==
  /\ \A m \in Memory, n \in 0..Cells : \A a, b \in Region(n) :
       Orders(S!memcmp(m, a, b, n), Bytes(m, a, n), Bytes(m, b, n))
  /\ \A m \in Memory : m[Cells - 1] = 0 =>
       \A a, b \in Place :
         LET s == Text(m, a)
             t == Text(m, b)
             rest == S!str_starts_with(m, a, b)
         IN  /\ S!strlen(m, a) = Len(s)
             /\ Orders(S!strcmp(m, a, b), s, t)
             /\ IF IsPrefix(t, s) THEN Text(m, rest) = SubSeq(s, Len(t) + 1, Len(s))
                ELSE rest = S!Null

(* The digits of a number give the number, and the first is not 0.         *)
ASSUME DigitsAreRight ==
  \A v \in 0..1100 :
    LET digits == S!u64_to_dec(v)
    IN  /\ FoldLeft(LAMBDA n, d : 10 * n + d, 0, digits) = v
        /\ Head(digits) = 0 => Len(digits) = 1
=============================================================================
