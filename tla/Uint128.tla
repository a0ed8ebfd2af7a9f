------------------------------- MODULE Uint128 -------------------------------
(***************************************************************************)
(* The address arithmetic of internal/compare/compare.go: a uint128 of two *)
(* words that wrap, in which IPv4 and IPv6 addresses are compared and      *)
(* stepped.  The code has words of 64 bits and families of 32 and 128.     *)
(***************************************************************************)
EXTENDS Naturals, FiniteSetsExt

CONSTANTS
  WordBits,   \* bits of a word
  V4          \* bits of an IPv4 address; also the name of the family

ASSUME WidthAssumption ==
  /\ WordBits \in Nat /\ V4 \in Nat
  /\ 0 < V4 /\ V4 <= WordBits

V6 == 2 * WordBits
Families == {V4, V6}

\* 1 shifted left by k.
Pow2[k \in 0 .. V6] == IF k = 0 THEN 1 ELSE 2 * Pow2[k - 1]

Word == Pow2[WordBits]
Words == 0 .. Word - 1
Uint128s == [hi : Words, lo : Words]

Zero == [hi |-> 0, lo |-> 0]
Less(a, b) == a.hi < b.hi \/ (a.hi = b.hi /\ a.lo < b.lo)
AtMost(a, b) == ~Less(b, a)

MaxValue(family) ==
  IF family = V4 THEN [hi |-> 0, lo |-> Pow2[V4] - 1]
  ELSE [hi |-> Word - 1, lo |-> Word - 1]

Increment(v) ==
  LET lo == (v.lo + 1) % Word
  IN  [hi |-> IF lo = 0 THEN (v.hi + 1) % Word ELSE v.hi, lo |-> lo]

Decrement(v) ==
  IF v.lo = 0 THEN [hi |-> (v.hi + Word - 1) % Word, lo |-> Word - 1]
  ELSE [v EXCEPT !.lo = @ - 1]

\* Faulty: the carry out of the low word is lost.
AddPowerOfTwoNoCarry(v, exponent) ==
  IF exponent < WordBits THEN [v EXCEPT !.lo = (@ + Pow2[exponent]) % Word]
  ELSE [v EXCEPT !.hi = (@ + Pow2[exponent - WordBits]) % Word]

\* Shifting a word by its width or more gives 0.
AddPowerOfTwo(v, exponent) ==
  IF exponent < WordBits
  THEN LET lo == (v.lo + Pow2[exponent]) % Word
       IN  [hi |-> IF lo < v.lo THEN (v.hi + 1) % Word ELSE v.hi, lo |-> lo]
  ELSE [v EXCEPT !.hi = (@ + Pow2[exponent - WordBits]) % Word]

TrailingZeros(v) ==
  LET zeros(w) == Max({k \in 0 .. WordBits : w % Pow2[k] = 0})
  IN  IF v.lo # 0 THEN zeros(v.lo)
      ELSE IF v.hi # 0 THEN WordBits + zeros(v.hi) ELSE 2 * WordBits

\* The last address of the block of 2^hostBits addresses at start.
AddBlockEnd(start, hostBits, family) ==
  IF hostBits >= family /\ start = Zero THEN MaxValue(family)
  ELSE IF hostBits = 0 THEN start
  ELSE Decrement(AddPowerOfTwo(start, hostBits))

\* The size of the largest CIDR block that starts at start and ends by end.
LargestHostBits(start, end, family) ==
  LET aligned == TrailingZeros(start)
      top == IF aligned > family THEN family ELSE aligned
  IN  Max({k \in 0 .. top :
             k = 0 \/ AtMost(AddBlockEnd(start, k, family), end)})
=============================================================================
