--------------------------- MODULE MCCoverageDiff ---------------------------
(***************************************************************************)
(* An instance of CoverageDiff for TLC.  Words of two bits make 16         *)
(* addresses, blocks smaller and larger than a word, and carries between   *)
(* words: all pairs of a set of at most one block of several addresses and *)
(* one of at most two, and all pairs of up to three prefixes of a          *)
(* selection of both families that lies around a word boundary and at the  *)
(* ends of the families.                                                   *)
(***************************************************************************)
EXTENDS CoverageDiff

UpToOne(S) == {{}} \cup {{p} : p \in S}
UpToTwo(S) == UpToOne(S) \cup {{p, q} : p, q \in S}
UpToThree(S) == UpToTwo(S) \cup {{p, q, r} : p, q, r \in S}

Pairs(A, B) == [live : A, local : B, invalid : {FALSE}]

V4Prefixes == {p \in NonDefault : p.family = V4}
Blocks == {p \in NonDefault : p.family = V6 /\ p.bits < V6}

At(hi, lo, bits) ==
  [family |-> V6, addr |-> [hi |-> hi, lo |-> lo], bits |-> bits]

\* Addresses 6-7, 7 and 8, 8-15, 12-15 and 15 of 0-15, and all of IPv4.
Selected ==
  V4Prefixes \cup {At(1, 2, 3), At(1, 3, 4), At(2, 0, 4), At(2, 0, 1),
                   At(3, 0, 2), At(3, 3, 4)}

SomeInputs ==
  Pairs(UpToOne(Blocks), UpToTwo(Blocks))
    \cup Pairs(UpToThree(Selected), UpToThree(Selected))
    \cup [live : UpToOne(V4Prefixes), local : UpToOne(V4Prefixes),
          invalid : {TRUE}]
=============================================================================
