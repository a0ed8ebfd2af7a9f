------------------------------- MODULE Retention -------------------------------
(***************************************************************************)
(* "irrindex manifest summarize" (internal/manifest/retention.go): which   *)
(* of the stored snapshots of the index are to be kept and which may be    *)
(* pruned.  The command only prints its plan; between two plans, snapshots *)
(* are added, in any order of their times, and pruned ones are deleted, by *)
(* whoever keeps the list of snapshots (docs/bulk-db-augment-plan.md       *)
(* 1104-1137).                                                             *)
(***************************************************************************)
EXTENDS Integers, FiniteSets, Sequences

CONSTANTS
  Snapshots,  \* [name, cadence, at]; a name is its place in the order of names
  Cadences,   \* the cadences the policy knows
  KeepCount   \* cadence -> how many of its snapshots are kept

ASSUME RetentionAssumption ==
  /\ IsFiniteSet(Snapshots)
  /\ \A s \in Snapshots : s.name \in Int /\ s.at \in Int
  \* a name is given once
  /\ \A s, t \in Snapshots : s.name = t.name => s = t
  /\ KeepCount \in [Cadences -> Nat]

VARIABLES
  ever,     \* all snapshots there have been
  stored,   \* those that have not been deleted
  phase,    \* "idle", "cadences", "planned"
  given,    \* the list the plan is for
  past,     \* what there had been when it was read
  toPlan,   \* cadences the plan has yet to come to
  keep, prune,  \* the plan
  pruned,   \* everything a plan has ever let go
  plans     \* how often a plan was made

planVars == <<phase, given, past, toPlan, keep, prune, pruned, plans>>
retentionVars == <<ever, stored, planVars>>

CONSTANT MaxPlans  \* bound
ASSUME PlansAssumption == MaxPlans \in Nat

RetentionInit ==
  /\ ever = {} /\ stored = {}
  /\ phase = "idle" /\ given = {} /\ past = {} /\ toPlan = {}
  /\ keep = <<>> /\ prune = <<>>
  /\ pruned = {}
  /\ plans = 0

Elements(q) == {q[i] : i \in DOMAIN q}

\* A snapshot is added.
Arrive(s) ==
  /\ s \notin ever
  /\ ever' = ever \cup {s} /\ stored' = stored \cup {s}
  /\ UNCHANGED planVars

\* One that the plan let go is deleted.
Delete(s) ==
  /\ phase = "planned" /\ s \in Elements(prune) \cap stored
  /\ stored' = stored \ {s}
  /\ UNCHANGED <<ever, planVars>>

StartPlan ==
  /\ phase # "cadences" /\ plans < MaxPlans
  /\ phase' = "cadences" /\ toPlan' = Cadences
  /\ given' = stored /\ past' = ever
  /\ keep' = <<>> /\ prune' = <<>>
  /\ plans' = plans + 1
  /\ UNCHANGED <<ever, stored, pruned>>

\* Faulty: the time plays no part.
ByNameOnly(s, t) == s.name < t.name

\* sortSnapshotsNewestFirst: the newer one, of two of one time the first name.
NewestFirst(s, t) == s.at > t.at \/ (s.at = t.at /\ s.name < t.name)

Sorted(S) ==
  CHOOSE q \in [1 .. Cardinality(S) -> S] :
    \A i, j \in 1 .. Cardinality(S) : i < j => NewestFirst(q[i], q[j])

\* Faulty: the last snapshot that is kept is let go as well.
AfterOverlapping(q, n) == SubSeq(q, IF n = 0 THEN 1 ELSE n, Len(q))

After(q, n) == SubSeq(q, n + 1, Len(q))

First(q, n) == SubSeq(q, 1, IF n < Len(q) THEN n ELSE Len(q))

\* The loop body for one cadence.
PlanCadence(c) ==
  /\ phase = "cadences" /\ c \in toPlan
  /\ LET items == Sorted({s \in given : s.cadence = c}) IN
       /\ keep' = keep \o First(items, KeepCount[c])
       /\ prune' = prune \o After(items, KeepCount[c])
  /\ toPlan' = toPlan \ {c}
  /\ UNCHANGED <<ever, stored, phase, given, past, pruned, plans>>

FinishPlan ==
  /\ phase = "cadences" /\ toPlan = {}
  /\ keep' = Sorted(Elements(keep)) /\ prune' = Sorted(Elements(prune))
  /\ pruned' = pruned \cup Elements(prune)
  /\ phase' = "planned"
  /\ UNCHANGED <<ever, stored, given, past, toPlan, plans>>

RetentionNext ==
  \/ \E s \in Snapshots : Arrive(s) \/ Delete(s)
  \/ StartPlan
  \/ \E c \in Cadences : PlanCadence(c)
  \/ FinishPlan

-----------------------------------------------------------------------------
(* Properties *)

NewerOfSameCadence(S, s) ==
  {t \in S : /\ t.cadence = s.cadence
             /\ t.at > s.at \/ (t.at = s.at /\ t.name < s.name)}

\* The snapshots of S that the policy wants kept.
Wanted(S) ==
  {s \in S : /\ s.cadence \in Cadences
             /\ Cardinality(NewerOfSameCadence(S, s)) < KeepCount[s.cadence]}

\* A plan keeps what the policy wants of all snapshots there have ever been,
\* although it sees only those that were not deleted after earlier plans; it
\* lets go the others it knows the cadence of, and lists nothing twice
\* (retention.go 31-56).
PlanAsIfNoneDeleted ==
  phase = "planned" =>
    LET known == {s \in given : s.cadence \in Cadences} IN
      /\ Elements(keep) = Wanted(past)
      /\ Elements(prune) = known \ Elements(keep)
      /\ Len(keep) + Len(prune) = Cardinality(known)

\* What a plan let go is never wanted again, whatever arrives later and in
\* whatever order: nothing that was deleted is missing from a later plan
\* (retention.go 45-51).
PrunedForGood ==
  /\ pruned \cap Wanted(ever) = {}
  /\ Wanted(ever) \subseteq stored
=============================================================================
