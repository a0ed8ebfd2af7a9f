---------------------------- MODULE MCIndexStore ----------------------------
(***************************************************************************)
(* Instances of IndexStore for TLC: two sources that share a prefix, dumps *)
(* of different lengths so that ids move and come back, and a dump with a  *)
(* record that cannot be imported after one that can.                      *)
(***************************************************************************)
EXTENDS IndexStore, TLC

CONSTANTS ripe, radb, b1, b2, p, q, asn, mnt

Row(prefix, as) == [fate |-> "row", prefix |-> prefix, attrs |-> as]
Of(fate) == [fate |-> fate, prefix |-> p, attrs |-> {asn}]

Long == <<Row(p, {asn}), Of("default"), Row(q, {asn, mnt})>>
Short == <<Row(q, {mnt})>>
Spoilt == <<Row(p, {mnt}), Of("bad")>>

MCDumps == {Long, Short, Spoilt}
MCDumpsOf == ripe :> {Long, Short, Spoilt} @@ radb :> {Short, Spoilt}
OneDumpOf == ripe :> {Long, Short} @@ radb :> {Short}

BuildSymmetry == Permutations(Builds)
=============================================================================
