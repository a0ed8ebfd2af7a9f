-------------------------- MODULE MCUpdateWorkflow --------------------------
(***************************************************************************)
(* Instances of UpdateWorkflow for TLC.  The contents stand around the     *)
(* floor: lists of 0, 1, 3 and 4 lines, so that 3 -> 1 stays and 4 -> 1    *)
(* goes back.  a1 and a1x are two raw lists with the same merge.           *)
(***************************************************************************)
EXTENDS UpdateWorkflow, TLC

CONSTANTS a4, a6, b4, A, B, r1, r2, a0, a1, a1x, a3, a34, m0, m1, m3, m34

\* Two services of one list each: the runs race on disjoint and equal lists.
TwoOwns == A :> {a4} @@ B :> {b4}
TwoFamilies == a4 :> "ipv4" @@ b4 :> "ipv4"

\* One service of two lists: a downloader stops between its families.
OneOwns == A :> {a4, a6}
OneFamilies == a4 :> "ipv4" @@ a6 :> "ipv6"

AllMerges == a0 :> m0 @@ a1 :> m1 @@ a1x :> m1 @@ a3 :> m3 @@ a34 :> m34
AllLines == m0 :> 0 @@ m1 :> 1 @@ m3 :> 3 @@ m34 :> 4

RaceMerges == a0 :> m0 @@ a34 :> m34
RaceLines == m0 :> 0 @@ m34 :> 4

AnyStep == {"queued", "download", "merge4", "merge6", "floor", "index",
            "pull", "commit", "push"}

RunSymmetry == Permutations(Runs)
=============================================================================
