----------------------- MODULE UpdateWorkflow_proofs -----------------------
(***************************************************************************)
(* Proofs about UpdateWorkflow for any number of services, lists, contents *)
(* and runs.                                                               *)
(***************************************************************************)
EXTENDS UpdateWorkflow, TLAPS, FiniteSetTheorems

RawLists == [Lists -> Raws \cup {Absent}]
MergedLists == [Lists -> Mergeds \cup {Absent}]
Indexes == [Families -> SUBSET Lists]

-----------------------------------------------------------------------------
(* Type correctness *)

LEMMA TreeParts ==
  ASSUME NEW t \in Trees
  PROVE  t.raw \in RawLists /\ t.merged \in MergedLists /\ t.index \in Indexes
BY DEF Trees, RawLists, MergedLists, Indexes

LEMMA IndexType == \A m : IndexOf(m) \in Indexes
BY DEF IndexOf, Populated, Indexes

\* Every tree the scripts build from raw lists has its type.
LEMMA BuiltFromType ==
  ASSUME NEW lists \in RawLists
  PROVE  BuiltFrom(lists) \in Trees
<1> DEFINE m == [l \in Lists |-> MergedOf(lists[l])]
<1>1. m \in MergedLists
  BY ContentsAssumption DEF MergedOf, RawLists, MergedLists
<1>2. IndexOf(m) \in Indexes
  BY IndexType
<1> QED BY <1>1, <1>2 DEF BuiltFrom, Trees, RawLists, MergedLists, Indexes

\* The type invariant with the bounds on the commits a run names.
Typed ==
  /\ TypeOK
  /\ base \in [Runs -> 1 .. Len(remote)]
  /\ head \in [Runs -> 1 .. Len(remote)]

LEMMA WorkTreeTyped ==
  ASSUME Typed, NEW r \in Runs
  PROVE  /\ raw[r] \in RawLists /\ merged[r] \in MergedLists
         /\ index[r] \in Indexes
         /\ HeadTree(r) \in Trees /\ Tip \in Trees /\ Tree(r) \in Trees
<1>1. Len(remote) \in Nat /\ Len(remote) # 0
  BY DEF Typed, TypeOK
<1>2. head[r] \in 1 .. Len(remote) /\ Len(remote) \in 1 .. Len(remote)
  BY <1>1 DEF Typed
<1>3. HeadTree(r) \in Trees /\ Tip \in Trees
  BY <1>2 DEF Typed, TypeOK, HeadTree, Tip
<1>4. raw[r] \in RawLists /\ merged[r] \in MergedLists /\ index[r] \in Indexes
  BY DEF Typed, TypeOK, RawLists, MergedLists, Indexes
<1> QED
  BY <1>3, <1>4 DEF Tree, Trees, RawLists, MergedLists, Indexes

\* What the merge step does to a run's lists: a list of the family is merged
\* or, if that fails unnoticed, counted as apart; the others are kept.
LEMMA MergeLists ==
  ASSUME Typed, NEW r \in Runs, NEW f \in Families, Merge(r, f)
  PROVE  /\ merged' \in [Runs -> MergedLists] /\ apart' \in [Runs -> SUBSET Lists]
         /\ \A q \in Runs \ {r} : merged'[q] = merged[q] /\ apart'[q] = apart[q]
         /\ \A l \in Lists \ apart'[r] :
              l \notin apart[r]
              /\ merged'[r][l] = IF FamilyOf[l] = f /\ raw[r][l] # Absent
                                 THEN MergeOf[raw[r][l]] ELSE merged[r][l]
         /\ \A l \in Lists : raw[r][l] = Absent => merged'[r][l] = merged[r][l]
<1> DEFINE found == {l \in Lists : FamilyOf[l] = f /\ raw[r][l] # Absent}
<1>1. PICK cut \in SUBSET found : \E out \in [cut -> Mergeds] :
        /\ merged' = [merged EXCEPT ![r] =
             [l \in Lists |-> IF l \in cut THEN out[l] ELSE
                IF l \in found THEN MergeOf[raw[r][l]] ELSE merged[r][l]]]
        /\ apart' = [apart EXCEPT ![r] = @ \cup cut]
  BY DEF Merge
<1>2. PICK out \in [cut -> Mergeds] :
        /\ merged' = [merged EXCEPT ![r] =
             [l \in Lists |-> IF l \in cut THEN out[l] ELSE
                IF l \in found THEN MergeOf[raw[r][l]] ELSE merged[r][l]]]
        /\ apart' = [apart EXCEPT ![r] = @ \cup cut]
  BY <1>1
<1> DEFINE new == [l \in Lists |-> IF l \in cut THEN out[l] ELSE
                     IF l \in found THEN MergeOf[raw[r][l]] ELSE merged[r][l]]
<1>3. new \in MergedLists
  BY ContentsAssumption DEF Typed, TypeOK, MergedLists
<1>4. /\ merged \in [Runs -> MergedLists] /\ apart \in [Runs -> SUBSET Lists]
      /\ merged' = [merged EXCEPT ![r] = new]
      /\ apart' = [apart EXCEPT ![r] = @ \cup cut] /\ cut \subseteq Lists
  BY <1>2 DEF Typed, TypeOK, MergedLists
<1>5. \A l \in Lists : /\ l \in cut => raw[r][l] # Absent
                       /\ l \notin cut => new[l] =
                            IF FamilyOf[l] = f /\ raw[r][l] # Absent
                            THEN MergeOf[raw[r][l]] ELSE merged[r][l]
  OBVIOUS
<1> HIDE DEF new, found
<1>6. merged'[r] = new /\ apart'[r] = apart[r] \cup cut
  BY <1>4
<1>7. \A q \in Runs \ {r} : merged'[q] = merged[q] /\ apart'[q] = apart[q]
  BY <1>4
<1>8. merged' \in [Runs -> MergedLists] /\ apart' \in [Runs -> SUBSET Lists]
  BY <1>3, <1>4
<1> QED BY <1>5, <1>6, <1>7, <1>8

\* What the floor does to them: a merged list that collapsed goes back to
\* HEAD, and so does its raw list or it counts as apart.
LEMMA FloorLists ==
  ASSUME Typed, NEW r \in Runs, SanityFloor(r)
  PROVE  /\ raw' \in [Runs -> RawLists] /\ merged' \in [Runs -> MergedLists]
         /\ apart' \in [Runs -> SUBSET Lists]
         /\ \A q \in Runs \ {r} : /\ raw'[q] = raw[q] /\ merged'[q] = merged[q]
                                  /\ apart'[q] = apart[q]
         /\ \A l \in Lists : merged'[r][l] =
              IF l \in Reverted(r) THEN HeadTree(r).merged[l] ELSE merged[r][l]
         /\ \A l \in Lists \ apart'[r] :
              IF l \in Reverted(r)
              THEN HeadTree(r).raw[l] # Absent => raw'[r][l] = HeadTree(r).raw[l]
              ELSE raw'[r][l] = raw[r][l] /\ l \notin apart[r]
<1> DEFINE gone == Reverted(r)
           hr == HeadTree(r).raw
           hm == HeadTree(r).merged
<1>1. hr \in RawLists /\ hm \in MergedLists /\ gone \subseteq Lists
  BY WorkTreeTyped, TreeParts DEF Reverted
<1>2. PICK kept \in SUBSET {l \in gone : hr[l] # Absent} :
        /\ merged' = [merged EXCEPT ![r] =
             [l \in Lists |-> IF l \in gone THEN hm[l] ELSE merged[r][l]]]
        /\ raw' = [raw EXCEPT ![r] =
             [l \in Lists |-> IF l \in gone \ kept /\ hr[l] # Absent
                              THEN hr[l] ELSE raw[r][l]]]
        /\ apart' = [apart EXCEPT ![r] = (@ \ gone) \cup kept]
  BY DEF SanityFloor
<1> HIDE DEF gone, hr, hm
<1> DEFINE nm == [l \in Lists |-> IF l \in gone THEN hm[l] ELSE merged[r][l]]
           nr == [l \in Lists |-> IF l \in gone \ kept /\ hr[l] # Absent
                                  THEN hr[l] ELSE raw[r][l]]
           na == (apart[r] \ gone) \cup kept
<1>3. /\ merged \in [Runs -> MergedLists] /\ raw \in [Runs -> RawLists]
      /\ apart \in [Runs -> SUBSET Lists]
  BY DEF Typed, TypeOK, MergedLists, RawLists
<1>4. nm \in MergedLists /\ nr \in RawLists /\ na \in SUBSET Lists
  BY <1>1, <1>3 DEF MergedLists, RawLists
<1>5. \A l \in Lists : nm[l] = IF l \in gone THEN hm[l] ELSE merged[r][l]
  OBVIOUS
<1>6. \A l \in Lists \ na :
        IF l \in gone THEN hr[l] # Absent => nr[l] = hr[l]
        ELSE nr[l] = raw[r][l] /\ l \notin apart[r]
  OBVIOUS
<1>7. /\ merged' = [merged EXCEPT ![r] = nm] /\ raw' = [raw EXCEPT ![r] = nr]
      /\ apart' = [apart EXCEPT ![r] = na]
  BY <1>2
<1> HIDE DEF nm, nr, na
<1>8. /\ merged'[r] = nm /\ raw'[r] = nr /\ apart'[r] = na
      /\ \A q \in Runs \ {r} : /\ raw'[q] = raw[q] /\ merged'[q] = merged[q]
                               /\ apart'[q] = apart[q]
  BY <1>3, <1>7
<1>9. /\ raw' \in [Runs -> RawLists] /\ merged' \in [Runs -> MergedLists]
      /\ apart' \in [Runs -> SUBSET Lists]
  BY <1>3, <1>4, <1>7
<1> QED BY <1>5, <1>6, <1>8, <1>9 DEF gone, hr, hm

LEMMA InitTyped == Init => Typed
<1> SUFFICES ASSUME Init PROVE Typed
  OBVIOUS
<1>1. PICK seed \in RawLists : remote = <<BuiltFrom(seed)>>
  BY DEF Init, RawLists
<1>2. remote[1] \in Trees /\ remote \in Seq(Trees) /\ Len(remote) = 1
  BY <1>1, BuiltFromType
<1>3. /\ raw \in [Runs -> RawLists] /\ merged \in [Runs -> MergedLists]
      /\ index \in [Runs -> Indexes]
  BY <1>2, TreeParts DEF Init
<1>4. /\ base \in [Runs -> Nat] /\ base \in [Runs -> 1 .. Len(remote)]
      /\ head \in [Runs -> Nat] /\ head \in [Runs -> 1 .. Len(remote)]
  BY <1>2 DEF Init
<1>5. /\ remote # <<>> /\ edits \in 0 .. MaxEdits
      /\ tally \in [Runs -> Nat \X Nat]
  BY <1>2, BoundsAssumption DEF Init
<1>6. /\ ran \in [Runs -> SUBSET Services]
      /\ apart \in [Runs -> SUBSET Lists]
      /\ broken \in [Runs -> SUBSET Services]
      /\ pc \in [Runs -> Steps] /\ result \in [Runs -> Colours]
  BY DEF Init, Steps, Colours
<1> QED
  BY <1>2, <1>3, <1>4, <1>5, <1>6
  DEF Typed, TypeOK, RawLists, MergedLists, Indexes

\* Extending the branch keeps every commit a run names.
LEMMA AppendTyped ==
  ASSUME Typed, NEW t \in Trees, remote' = Append(remote, t),
         UNCHANGED <<base, head>>
  PROVE  /\ remote' \in Seq(Trees) /\ remote' # <<>>
         /\ base' \in [Runs -> 1 .. Len(remote')]
         /\ head' \in [Runs -> 1 .. Len(remote')]
<1>1. Len(remote') = Len(remote) + 1 /\ Len(remote) \in Nat
  BY DEF Typed, TypeOK
<1>2. remote' \in Seq(Trees) /\ remote' # <<>>
  BY <1>1 DEF Typed, TypeOK
<1>3. 1 .. Len(remote) \subseteq 1 .. Len(remote')
  BY <1>1
<1> QED BY <1>2, <1>3 DEF Typed

LEMMA PushAppends ==
  ASSUME Typed, NEW r \in Runs, Push(r)
  PROVE  remote' = Append(remote, Tree(r)) /\ HeadTree(r) = Tip
BY DEF Typed, TypeOK, Push, FastForward, HeadTree, Tip

LEMMA StepTyped ==
  ASSUME Typed, [Next]_vars
  PROVE  Typed'
<1> USE DEF Typed, TypeOK
<1>1. ASSUME MaintainerPush PROVE Typed'
  <2>1. PICK l \in Lists, c \in Raws :
          remote' = Append(remote, BuiltFrom([Tip.raw EXCEPT ![l] = c]))
    BY <1>1 DEF MaintainerPush
  <2>2. [Tip.raw EXCEPT ![l] = c] \in RawLists
    <3>1. CASE Runs = {}
      <4>1. Len(remote) \in 1 .. Len(remote)
        OBVIOUS
      <4> QED BY <4>1, TreeParts DEF Tip, RawLists
    <3>2. CASE Runs # {}
      BY <3>2, WorkTreeTyped, TreeParts DEF RawLists
    <3> QED BY <3>1, <3>2
  <2>3. BuiltFrom([Tip.raw EXCEPT ![l] = c]) \in Trees
    BY <2>2, BuiltFromType
  <2>4. UNCHANGED jobVars /\ UNCHANGED <<pc, result>> /\ edits' \in 0 .. MaxEdits
    BY <1>1, BoundsAssumption DEF MaintainerPush
  <2>5. /\ remote' \in Seq(Trees) /\ remote' # <<>>
        /\ base' \in [Runs -> 1 .. Len(remote')]
        /\ head' \in [Runs -> 1 .. Len(remote')]
    BY <2>1, <2>3, <2>4, AppendTyped DEF jobVars
  <2> QED BY <2>4, <2>5 DEF jobVars
<1>2. ASSUME NEW r \in Runs, Checkout(r) PROVE Typed'
  <2>1. PICK n \in 1 .. Len(remote) :
          /\ base' = [base EXCEPT ![r] = n] /\ head' = [head EXCEPT ![r] = n]
          /\ raw' = [raw EXCEPT ![r] = remote[n].raw]
          /\ merged' = [merged EXCEPT ![r] = remote[n].merged]
          /\ index' = [index EXCEPT ![r] = remote[n].index]
    BY <1>2 DEF Checkout
  <2>2. remote[n] \in Trees
    OBVIOUS
  <2>3. /\ raw' \in [Runs -> RawLists] /\ merged' \in [Runs -> MergedLists]
        /\ index' \in [Runs -> Indexes]
    BY <2>1, <2>2, TreeParts DEF RawLists, MergedLists, Indexes
  <2> QED
    BY <1>2, <2>1, <2>3
    DEF Checkout, Goto, Steps, RawLists, MergedLists, Indexes
<1>3. ASSUME NEW r \in Runs, NEW s \in Services, Download(r, s) PROVE Typed'
  <2>1. PICK written \in SUBSET Owns[s], ok \in BOOLEAN :
          /\ \E out \in [written -> Raws] :
               raw' = [raw EXCEPT ![r] =
                         [l \in Lists |-> IF l \in written THEN out[l]
                                          ELSE raw[r][l]]]
          /\ broken' = [broken EXCEPT ![r] = IF ok THEN @ ELSE @ \cup {s}]
    BY <1>3 DEF Download
  <2>2. raw' \in [Runs -> [Lists -> Raws \cup {Absent}]]
    BY <2>1
  <2>3. broken' \in [Runs -> SUBSET Services]
    BY <2>1
  <2> QED BY <1>3, <2>2, <2>3 DEF Download
<1>4. ASSUME NEW r \in Runs, DownloadsDone(r) PROVE Typed'
  <2>1. Cardinality(ran[r]) \in Nat /\ Cardinality(broken[r]) \in Nat
    BY ServicesAssumption, FS_Subset, FS_CardinalityType
  <2> QED BY <1>4, <2>1 DEF DownloadsDone, Goto, Steps, treeVars
<1>5. ASSUME NEW r \in Runs, Merge4(r) \/ Merge6(r) PROVE Typed'
  <2>1. PICK f \in Families : Merge(r, f)
    BY <1>5 DEF Merge4, Merge6, Families
  <2>2. merged' \in [Runs -> MergedLists] /\ apart' \in [Runs -> SUBSET Lists]
    BY <2>1, MergeLists
  <2>3. pc' \in [Runs -> Steps]
    BY <1>5 DEF Merge4, Merge6, Goto, Steps
  <2>4. UNCHANGED <<remote, edits, base, head, raw, index, ran, broken, tally, result>>
    BY <2>1 DEF Merge
  <2> QED BY <2>2, <2>3, <2>4 DEF MergedLists
<1>6. ASSUME NEW r \in Runs, SanityFloor(r) PROVE Typed'
  <2>1. /\ raw' \in [Runs -> RawLists] /\ merged' \in [Runs -> MergedLists]
        /\ apart' \in [Runs -> SUBSET Lists]
    BY <1>6, FloorLists
  <2> QED BY <1>6, <2>1 DEF SanityFloor, Goto, Steps, RawLists, MergedLists
<1>7. ASSUME NEW r \in Runs, UpdateServiceLists(r) PROVE Typed'
  BY <1>7, IndexType DEF UpdateServiceLists, Goto, Steps, Indexes
<1>8. ASSUME NEW r \in Runs, Pull(r) PROVE Typed'
  <2>1. HeadTree(r) \in Trees /\ Tip \in Trees
    BY WorkTreeTyped
  <2>2. /\ Overlay(HeadTree(r).raw, raw[r], Tip.raw) \in RawLists
        /\ Overlay(HeadTree(r).merged, merged[r], Tip.merged) \in MergedLists
        /\ Overlay(HeadTree(r).index, index[r], Tip.index) \in Indexes
    BY <2>1, TreeParts DEF Overlay, RawLists, MergedLists, Indexes
  <2> QED
    BY <1>8, <2>2 DEF Pull, Goto, Steps, RawLists, MergedLists, Indexes
<1>9. ASSUME NEW r \in Runs, FailStep(r) PROVE Typed'
  BY <1>9 DEF FailStep, jobVars, Steps, Colours
<1>10. ASSUME NEW r \in Runs, NothingToCommit(r) \/ Commit(r) PROVE Typed'
  BY <1>10 DEF NothingToCommit, Commit, jobVars, Goto, Steps
<1>11. ASSUME NEW r \in Runs, Push(r) PROVE Typed'
  BY <1>11, PushAppends, WorkTreeTyped, AppendTyped
  DEF Push, jobVars, Goto, Steps
<1>12. ASSUME NEW r \in Runs, OutageCheck(r) PROVE Typed'
  BY <1>12 DEF OutageCheck, jobVars, Goto, Steps, Colours
<1>13. ASSUME NEW r \in Runs, Cancel(r) PROVE Typed'
  BY <1>13 DEF Cancel, jobVars, Steps, Colours
<1>14. CASE UNCHANGED vars
  BY <1>14 DEF vars
<1> QED
  BY <1>1, <1>2, <1>3, <1>4, <1>5, <1>6, <1>7, <1>8, <1>9, <1>10, <1>11,
     <1>12, <1>13, <1>14
  DEF Next, RunNext, PullRefused, PushRejected, StepFails

\* Every reachable state is typed, and a run only names commits of the branch.
THEOREM TypeCorrect == Spec => []TypeOK
<1>1. Typed /\ [Next]_vars => Typed'
  BY StepTyped
<1>2. Typed => TypeOK
  BY DEF Typed
<1> QED BY InitTyped, <1>1, <1>2, PTL DEF Spec

-----------------------------------------------------------------------------
(* The lists and indexes of every commit belong together *)

\* Merged lists and raw lists that belong together, but for the lists in L.
Paired(m, lists, L) == \A l \in Lists \ L : m[l] = MergedOf(lists[l])

Consistent(t, L) == Paired(t.merged, t.raw, L) /\ t.index = IndexOf(t.merged)

LEMMA BuiltFromConsistent ==
  ASSUME NEW lists \in RawLists, NEW L
  PROVE  Consistent(BuiltFrom(lists), L)
BY DEF BuiltFrom, Consistent, Paired

\* A fast-forward that overwrites no dirty path mixes two consistent trees,
\* both descending from a third, into a consistent one: a raw list and its
\* merge change together, and two sides that changed an index disagree on it.
LEMMA OverlayConsistent ==
  ASSUME NEW old \in Trees, NEW mine \in Trees, NEW theirs \in Trees, NEW L,
         Consistent(old, L), Consistent(mine, L), Consistent(theirs, L),
         ~Blocks(old.raw, mine.raw, theirs.raw),
         ~Blocks(old.merged, mine.merged, theirs.merged),
         ~Blocks(old.index, mine.index, theirs.index)
  PROVE  /\ Paired(Overlay(old.merged, mine.merged, theirs.merged),
                   Overlay(old.raw, mine.raw, theirs.raw), L)
         /\ Overlay(old.index, mine.index, theirs.index) =
              IndexOf(Overlay(old.merged, mine.merged, theirs.merged))
<1> DEFINE ra == Overlay(old.raw, mine.raw, theirs.raw)
           me == Overlay(old.merged, mine.merged, theirs.merged)
           ix == Overlay(old.index, mine.index, theirs.index)
           Pop(c) == c # Absent /\ Lines[c] > 0
<1>1. /\ DOMAIN old.raw = Lists /\ DOMAIN old.merged = Lists
      /\ DOMAIN old.index = Families
  BY DEF Trees
<1>2. \A l \in Lists :
        /\ mine.raw[l] = old.raw[l] \/ theirs.raw[l] = old.raw[l]
        /\ mine.merged[l] = old.merged[l] \/ theirs.merged[l] = old.merged[l]
  BY <1>1 DEF Blocks, Touched
<1>3. \A f \in Families :
        mine.index[f] = old.index[f] \/ theirs.index[f] = old.index[f]
  BY <1>1 DEF Blocks, Touched
<1>4. ASSUME NEW l \in Lists
      PROVE  /\ l \notin L => me[l] = MergedOf(ra[l])
             /\ \/ me[l] = theirs.merged[l] /\ mine.merged[l] = old.merged[l]
                \/ me[l] = mine.merged[l] /\ theirs.merged[l] = old.merged[l]
  <2>1. l \notin L => /\ old.merged[l] = MergedOf(old.raw[l])
                     /\ mine.merged[l] = MergedOf(mine.raw[l])
                     /\ theirs.merged[l] = MergedOf(theirs.raw[l])
    BY DEF Consistent, Paired
  <2>2. /\ me[l] = IF mine.merged[l] = old.merged[l] THEN theirs.merged[l]
                   ELSE mine.merged[l]
        /\ ra[l] = IF mine.raw[l] = old.raw[l] THEN theirs.raw[l]
                   ELSE mine.raw[l]
    BY <1>1 DEF Overlay
  <2> QED BY <1>2, <2>1, <2>2
<1>5. ASSUME NEW f \in Families PROVE ix[f] = Populated(me, f)
  <2> DEFINE In(m) == {l \in Lists : FamilyOf[l] = f /\ Pop(m[l])}
  <2>1. /\ old.index[f] = In(old.merged) /\ mine.index[f] = In(mine.merged)
        /\ theirs.index[f] = In(theirs.merged)
    BY DEF Consistent, IndexOf, Populated
  <2>2. ix[f] = IF mine.index[f] = old.index[f] THEN theirs.index[f]
                ELSE mine.index[f]
    BY <1>1 DEF Overlay
  <2>3. ASSUME NEW l \in Lists PROVE l \in ix[f] <=> l \in In(me)
    <3> HIDE DEF me, ix, Pop
    <3> QED BY <1>3, <1>4, <2>1, <2>2
  <2>4. ix[f] \subseteq Lists /\ In(me) \subseteq Lists
    BY <2>1, <2>2
  <2>5. ix[f] = In(me)
    <3> HIDE DEF ix, In
    <3> QED BY <2>3, <2>4
  <2> QED BY <2>5 DEF Populated
<1>6. ix = IndexOf(me)
  <2>1. ix = [f \in Families |-> ix[f]]
    BY <1>1 DEF Overlay
  <2>2. [f \in Families |-> ix[f]] = [f \in Families |-> Populated(me, f)]
    <3> HIDE DEF ix, me
    <3> QED BY <1>5
  <2> QED BY <2>1, <2>2 DEF IndexOf
<1> QED BY <1>4, <1>6 DEF Paired

CommitsConsistent == \A i \in DOMAIN remote : Consistent(remote[i], Lapsed)

Early == {"queued", "download", "merge4", "merge6", "floor"}

\* How far a run has come in bringing its work tree into order.
WorkTreeInv(r) ==
  /\ pc[r] \in {"download", "merge4", "merge6"} =>
       \A l \in Lists \ Lapsed : raw[r][l] = Absent => merged[r][l] = Absent
  /\ pc[r] = "merge6" =>
       \A l \in Lists \ (Lapsed \cup apart[r]) : FamilyOf[l] = "ipv4" =>
         merged[r][l] = MergedOf(raw[r][l])
  /\ pc[r] = "floor" => Paired(merged[r], raw[r], Lapsed \cup apart[r])
  /\ pc[r] \in {"index", "pull", "commit", "push"} =>
       Paired(merged[r], raw[r], Lapsed)
  /\ pc[r] \in {"pull", "commit", "push"} => index[r] = IndexOf(merged[r])

ConsistentInv == CommitsConsistent /\ \A r \in Runs : WorkTreeInv(r)

LEMMA InitConsistent == Init => ConsistentInv
<1> SUFFICES ASSUME Init PROVE ConsistentInv
  OBVIOUS
<1>1. PICK seed \in RawLists : remote = <<BuiltFrom(seed)>>
  BY DEF Init, RawLists
<1>2. CommitsConsistent
  BY <1>1, BuiltFromConsistent DEF CommitsConsistent
<1>3. ASSUME NEW r \in Runs PROVE WorkTreeInv(r)
  BY DEF Init, WorkTreeInv
<1> QED BY <1>2, <1>3 DEF ConsistentInv

\* A run past the floor never goes back, so what has lapsed stays lapsed.
LEMMA LapsedGrows ==
  ASSUME Typed, [Next]_vars
  PROVE  Lapsed \subseteq Lapsed'
<1>1. ASSUME NEW q \in Runs, pc[q] \notin Early
      PROVE  pc'[q] \notin Early /\ apart'[q] = apart[q]
  <2>1. CASE MaintainerPush \/ UNCHANGED vars
    BY <1>1, <2>1 DEF MaintainerPush, jobVars, vars
  <2>2. ASSUME NEW r \in Runs, RunNext(r), r # q
        PROVE  pc'[q] = pc[q] /\ apart'[q] = apart[q]
    BY <2>2
    DEF RunNext, Checkout, Download, DownloadsDone, Merge4, Merge6, Merge,
        SanityFloor, UpdateServiceLists, Pull, PullRefused, NothingToCommit,
        Commit, Push, PushRejected, OutageCheck, StepFails, Cancel, FailStep,
        Goto, jobVars, treeVars, Typed, TypeOK
  <2>3. CASE \/ Checkout(q) \/ \E s \in Services : Download(q, s)
             \/ DownloadsDone(q) \/ Merge4(q) \/ Merge6(q) \/ SanityFloor(q)
    BY <1>1, <2>3 DEF Checkout, Download, DownloadsDone, Merge4, Merge6,
                      SanityFloor, Goto, Early
  <2>4. CASE \/ UpdateServiceLists(q) \/ Pull(q) \/ NothingToCommit(q)
             \/ Commit(q) \/ Push(q) \/ OutageCheck(q) \/ FailStep(q)
             \/ Cancel(q)
    BY <2>4 DEF UpdateServiceLists, Pull, NothingToCommit, Commit, Push,
                OutageCheck, FailStep, Cancel, Goto, jobVars, Early, Typed, TypeOK
  <2>5. CASE RunNext(q)
    BY <2>3, <2>4, <2>5 DEF RunNext, PullRefused, PushRejected, StepFails
  <2> QED BY <1>1, <2>1, <2>2, <2>5 DEF Next
<1> QED BY <1>1 DEF Lapsed, Early

LEMMA PairedMore ==
  ASSUME NEW m, NEW lists, NEW K, NEW L, K \subseteq L, Paired(m, lists, K)
  PROVE  Paired(m, lists, L)
BY DEF Paired

LEMMA ConsistentMore ==
  ASSUME NEW t, NEW K, NEW L, K \subseteq L, Consistent(t, K)
  PROVE  Consistent(t, L)
BY PairedMore DEF Consistent

\* The commits that stay are as consistent as before.
LEMMA CommitsKept ==
  ASSUME CommitsConsistent, UNCHANGED remote, Lapsed \subseteq Lapsed'
  PROVE  CommitsConsistent'
BY ConsistentMore DEF CommitsConsistent

\* Only Push and MaintainerPush extend the branch; each appends one
\* consistent tree.
LEMMA AppendConsistent ==
  ASSUME Typed, CommitsConsistent, NEW t \in Trees, Consistent(t, Lapsed),
         remote' = Append(remote, t), Lapsed \subseteq Lapsed'
  PROVE  CommitsConsistent'
<1>1. /\ Len(remote') = Len(remote) + 1 /\ Len(remote) \in Nat
      /\ DOMAIN remote = 1 .. Len(remote) /\ DOMAIN remote' = 1 .. Len(remote')
      /\ \A i \in 1 .. Len(remote) : remote'[i] = remote[i]
      /\ remote'[Len(remote) + 1] = t
  BY DEF Typed, TypeOK
<1>2. ASSUME NEW i \in DOMAIN remote' PROVE Consistent(remote'[i], Lapsed)
  <2>1. i \in 1 .. Len(remote) \/ i = Len(remote) + 1
    BY <1>1
  <2> QED BY <1>1, <2>1 DEF CommitsConsistent
<1>3. ASSUME NEW i \in DOMAIN remote' PROVE Consistent(remote'[i], Lapsed')
  BY <1>2, <1>3, ConsistentMore
<1> QED BY <1>3 DEF CommitsConsistent

\* A run other than the one that moves keeps its work tree and its place.
LEMMA OthersKeep ==
  ASSUME NEW q \in Runs, WorkTreeInv(q), Lapsed \subseteq Lapsed',
         pc'[q] = pc[q], raw'[q] = raw[q], merged'[q] = merged[q],
         index'[q] = index[q], apart'[q] = apart[q]
  PROVE  WorkTreeInv(q)'
<1>1. /\ Lists \ Lapsed' \subseteq Lists \ Lapsed
      /\ Lists \ (Lapsed' \cup apart[q]) \subseteq Lists \ (Lapsed \cup apart[q])
  OBVIOUS
<1>2. pc[q] = "floor" => Paired(merged[q], raw[q], Lapsed' \cup apart[q])
  BY PairedMore DEF WorkTreeInv
<1>3. pc[q] \in {"index", "pull", "commit", "push"} =>
        Paired(merged[q], raw[q], Lapsed')
  BY PairedMore DEF WorkTreeInv
<1>4. pc[q] \in {"download", "merge4", "merge6"} =>
        \A l \in Lists \ Lapsed' : raw[q][l] = Absent => merged[q][l] = Absent
  BY <1>1 DEF WorkTreeInv
<1>5. pc[q] = "merge6" =>
        \A l \in Lists \ (Lapsed' \cup apart[q]) : FamilyOf[l] = "ipv4" =>
          merged[q][l] = MergedOf(raw[q][l])
  BY <1>1 DEF WorkTreeInv
<1>6. pc[q] \in {"pull", "commit", "push"} => index[q] = IndexOf(merged[q])
  BY DEF WorkTreeInv
<1>7. WorkTreeInv(q)' =
      (/\ pc'[q] \in {"download", "merge4", "merge6"} =>
            \A l \in Lists \ Lapsed' : raw'[q][l] = Absent => merged'[q][l] = Absent
       /\ pc'[q] = "merge6" =>
            \A l \in Lists \ (Lapsed' \cup apart'[q]) : FamilyOf[l] = "ipv4" =>
              merged'[q][l] = MergedOf(raw'[q][l])
       /\ pc'[q] = "floor" => Paired(merged'[q], raw'[q], Lapsed' \cup apart'[q])
       /\ pc'[q] \in {"index", "pull", "commit", "push"} =>
            Paired(merged'[q], raw'[q], Lapsed')
       /\ pc'[q] \in {"pull", "commit", "push"} => index'[q] = IndexOf(merged'[q]))
  BY DEF WorkTreeInv
<1> QED BY <1>2, <1>3, <1>4, <1>5, <1>6, <1>7

\* The commits every tree of a run comes from are consistent.
LEMMA HeadConsistent ==
  ASSUME Typed, CommitsConsistent, NEW r \in Runs
  PROVE  Consistent(HeadTree(r), Lapsed) /\ Consistent(Tip, Lapsed)
<1>1. Len(remote) \in Nat /\ Len(remote) # 0 /\ DOMAIN remote = 1 .. Len(remote)
  BY DEF Typed, TypeOK
<1>2. head[r] \in DOMAIN remote /\ Len(remote) \in DOMAIN remote
  BY <1>1 DEF Typed
<1> QED BY <1>2 DEF CommitsConsistent, HeadTree, Tip

LEMMA StepConsistent ==
  ASSUME Typed, ConsistentInv, [Next]_vars
  PROVE  ConsistentInv'
<1> USE DEF ConsistentInv
<1>0. Lapsed \subseteq Lapsed'
  BY LapsedGrows
<1>1. ASSUME MaintainerPush PROVE ConsistentInv'
  <2>1. PICK l \in Lists, c \in Raws :
          remote' = Append(remote, BuiltFrom([Tip.raw EXCEPT ![l] = c]))
    BY <1>1 DEF MaintainerPush
  <2>2. Tip \in Trees
    <3>1. Len(remote) \in 1 .. Len(remote)
      BY DEF Typed, TypeOK
    <3> QED BY <3>1 DEF Tip, Typed, TypeOK
  <2>3. [Tip.raw EXCEPT ![l] = c] \in RawLists
    BY <2>2, TreeParts DEF RawLists
  <2>4. CommitsConsistent'
    BY <1>0, <2>1, <2>3, BuiltFromType, BuiltFromConsistent, AppendConsistent
  <2>5. UNCHANGED <<pc, raw, merged, index, apart>>
    BY <1>1 DEF MaintainerPush, jobVars
  <2> QED BY <1>0, <2>4, <2>5, OthersKeep
<1>2. ASSUME NEW r \in Runs, UNCHANGED remote, WorkTreeInv(r)',
             \A q \in Runs \ {r} :
               /\ pc'[q] = pc[q] /\ raw'[q] = raw[q]
               /\ merged'[q] = merged[q] /\ index'[q] = index[q]
               /\ apart'[q] = apart[q]
      PROVE  ConsistentInv'
  <2>1. CommitsConsistent'
    BY <1>0, <1>2, CommitsKept
  <2> QED BY <1>0, <1>2, <2>1, OthersKeep
<1>3. ASSUME NEW r \in Runs, Checkout(r) PROVE ConsistentInv'
  <2>1. PICK n \in 1 .. Len(remote) :
          /\ raw' = [raw EXCEPT ![r] = remote[n].raw]
          /\ merged' = [merged EXCEPT ![r] = remote[n].merged]
          /\ index' = [index EXCEPT ![r] = remote[n].index]
    BY <1>3 DEF Checkout
  <2>2. n \in DOMAIN remote /\ Consistent(remote[n], Lapsed)
    BY DEF Typed, TypeOK, CommitsConsistent
  <2>3. pc'[r] = "download" /\ \A q \in Runs \ {r} : pc'[q] = pc[q]
    BY <1>3 DEF Checkout, Goto, Typed, TypeOK
  <2>4. raw'[r] = remote[n].raw /\ merged'[r] = remote[n].merged
    BY <2>1 DEF Typed, TypeOK
  <2>5. remote[n].raw \in RawLists
    BY <2>2, TreeParts DEF Typed, TypeOK
  <2>6. WorkTreeInv(r)'
    <3>1. \A l \in Lists \ Lapsed : raw'[r][l] = Absent => merged'[r][l] = Absent
      BY <2>2, <2>4 DEF Consistent, Paired, MergedOf
    <3>2. \A l \in Lists \ Lapsed' : raw'[r][l] = Absent => merged'[r][l] = Absent
      BY <1>0, <3>1
    <3> QED BY <2>3, <3>2 DEF WorkTreeInv
  <2> QED BY <1>2, <1>3, <2>1, <2>3, <2>6 DEF Checkout, Typed, TypeOK
<1>4. ASSUME NEW r \in Runs, NEW s \in Services, Download(r, s)
      PROVE ConsistentInv'
  <2>1. PICK written \in SUBSET Owns[s] :
          \E out \in [written -> Raws] :
            raw' = [raw EXCEPT ![r] =
                      [l \in Lists |-> IF l \in written THEN out[l]
                                       ELSE raw[r][l]]]
    BY <1>4 DEF Download
  <2>2. \A l \in Lists : raw'[r][l] \in Raws \/ raw'[r][l] = raw[r][l]
    BY <2>1 DEF Typed, TypeOK
  <2>3. \A l \in Lists : raw'[r][l] = Absent => raw[r][l] = Absent
    BY <2>2, ContentsAssumption
  <2>4. pc[r] = "download" /\ UNCHANGED <<pc, remote, merged, index, apart>>
    BY <1>4 DEF Download
  <2>5. WorkTreeInv(r)'
    <3>1. \A l \in Lists \ Lapsed' : raw'[r][l] = Absent => merged'[r][l] = Absent
      BY <1>0, <2>3, <2>4 DEF WorkTreeInv
    <3> QED BY <2>4, <3>1 DEF WorkTreeInv
  <2> QED BY <1>2, <2>1, <2>4, <2>5 DEF Typed, TypeOK
<1>5. ASSUME NEW r \in Runs, DownloadsDone(r) PROVE ConsistentInv'
  <2>1. /\ pc[r] = "download" /\ pc'[r] = "merge4"
        /\ UNCHANGED <<remote, raw, merged, index>>
        /\ \A q \in Runs \ {r} : pc'[q] = pc[q] /\ apart'[q] = apart[q]
    BY <1>5 DEF DownloadsDone, Goto, treeVars, Typed, TypeOK
  <2>2. WorkTreeInv(r)'
    <3>1. \A l \in Lists \ Lapsed' : raw'[r][l] = Absent => merged'[r][l] = Absent
      BY <1>0, <2>1 DEF WorkTreeInv
    <3> QED BY <2>1, <3>1 DEF WorkTreeInv
  <2> QED BY <1>2, <2>1, <2>2
<1>6. ASSUME NEW r \in Runs, Merge4(r) PROVE ConsistentInv'
  <2>0. Merge(r, "ipv4") /\ "ipv4" \in Families
    BY <1>6 DEF Merge4, Families
  <2>1. /\ pc[r] = "merge4" /\ pc'[r] = "merge6"
        /\ UNCHANGED <<remote, raw, index>>
        /\ \A q \in Runs \ {r} : /\ pc'[q] = pc[q] /\ merged'[q] = merged[q]
                                 /\ apart'[q] = apart[q]
    BY <1>6, <2>0, MergeLists DEF Merge4, Merge, Goto, Typed, TypeOK
  <2>2. /\ \A l \in Lists \ apart'[r] : merged'[r][l] =
             IF FamilyOf[l] = "ipv4" /\ raw[r][l] # Absent
             THEN MergeOf[raw[r][l]] ELSE merged[r][l]
        /\ \A l \in Lists : raw[r][l] = Absent => merged'[r][l] = merged[r][l]
    BY <2>0, MergeLists
  <2>3. \A l \in Lists \ Lapsed' : raw[r][l] = Absent => merged[r][l] = Absent
    BY <1>0, <2>1 DEF WorkTreeInv
  <2>4. \A l \in Lists \ Lapsed' : raw'[r][l] = Absent => merged'[r][l] = Absent
    BY <2>1, <2>2, <2>3
  <2>5. \A l \in Lists \ (Lapsed' \cup apart'[r]) :
          FamilyOf[l] = "ipv4" => merged'[r][l] = MergedOf(raw'[r][l])
    BY <2>1, <2>2, <2>3 DEF MergedOf
  <2>6. WorkTreeInv(r)'
    BY <2>1, <2>4, <2>5 DEF WorkTreeInv
  <2> QED BY <1>2, <2>1, <2>6
<1>7. ASSUME NEW r \in Runs, Merge6(r) PROVE ConsistentInv'
  <2>0. Merge(r, "ipv6") /\ "ipv6" \in Families
    BY <1>7 DEF Merge6, Families
  <2>1. /\ pc[r] = "merge6" /\ pc'[r] = "floor"
        /\ UNCHANGED <<remote, raw, index>>
        /\ \A q \in Runs \ {r} : /\ pc'[q] = pc[q] /\ merged'[q] = merged[q]
                                 /\ apart'[q] = apart[q]
    BY <1>7, <2>0, MergeLists DEF Merge6, Merge, Goto, Typed, TypeOK
  <2>2. \A l \in Lists \ apart'[r] :
          l \notin apart[r]
          /\ merged'[r][l] = IF FamilyOf[l] = "ipv6" /\ raw[r][l] # Absent
                             THEN MergeOf[raw[r][l]] ELSE merged[r][l]
    BY <2>0, MergeLists
  <2>3. \A l \in Lists : FamilyOf[l] = "ipv4" \/ FamilyOf[l] = "ipv6"
    BY ListsAssumption DEF Families
  <2>4. \A l \in Lists \ Lapsed' : raw[r][l] = Absent => merged[r][l] = Absent
    BY <1>0, <2>1 DEF WorkTreeInv
  <2>5. \A l \in Lists \ (Lapsed' \cup apart[r]) :
          FamilyOf[l] = "ipv4" => merged[r][l] = MergedOf(raw[r][l])
    BY <1>0, <2>1 DEF WorkTreeInv
  <2>6. \A l \in Lists \ (Lapsed' \cup apart'[r]) :
          merged'[r][l] = MergedOf(raw'[r][l])
    BY <2>1, <2>2, <2>3, <2>4, <2>5 DEF MergedOf
  <2>7. Paired(merged'[r], raw'[r], Lapsed' \cup apart'[r])
    BY <2>6 DEF Paired
  <2>8. WorkTreeInv(r)'
    BY <2>1, <2>7 DEF WorkTreeInv
  <2> QED BY <1>2, <2>1, <2>8
<1>8. ASSUME NEW r \in Runs, SanityFloor(r) PROVE ConsistentInv'
  <2>1. /\ pc[r] = "floor" /\ pc'[r] = "index" /\ UNCHANGED <<remote, index>>
        /\ \A q \in Runs \ {r} : /\ pc'[q] = pc[q] /\ raw'[q] = raw[q]
                                 /\ merged'[q] = merged[q] /\ apart'[q] = apart[q]
    BY <1>8, FloorLists DEF SanityFloor, Goto, Typed, TypeOK
  <2>2. /\ \A l \in Lists : merged'[r][l] =
             IF l \in Reverted(r) THEN HeadTree(r).merged[l] ELSE merged[r][l]
        /\ \A l \in Lists \ apart'[r] :
             IF l \in Reverted(r)
             THEN HeadTree(r).raw[l] # Absent => raw'[r][l] = HeadTree(r).raw[l]
             ELSE raw'[r][l] = raw[r][l] /\ l \notin apart[r]
    BY <1>8, FloorLists
  <2>3. Paired(HeadTree(r).merged, HeadTree(r).raw, Lapsed)
    BY HeadConsistent DEF Consistent
  <2>4. \A l \in Reverted(r) \ Lapsed : HeadTree(r).raw[l] # Absent
    BY <2>3 DEF Paired, MergedOf, Reverted
  <2>5. Paired(merged[r], raw[r], Lapsed \cup apart[r])
    BY <2>1 DEF WorkTreeInv
  <2>6. apart'[r] \subseteq Lapsed'
    BY <2>1 DEF Lapsed
  <2>7. ASSUME NEW l \in Lists \ Lapsed' PROVE merged'[r][l] = MergedOf(raw'[r][l])
    <3>1. l \notin apart'[r] /\ l \notin Lapsed
      BY <1>0, <2>6
    <3>2. CASE l \in Reverted(r)
      BY <2>2, <2>3, <2>4, <3>1, <3>2 DEF Paired
    <3>3. CASE l \notin Reverted(r)
      BY <2>2, <2>5, <3>1, <3>3 DEF Paired
    <3> QED BY <3>2, <3>3
  <2>8. Paired(merged'[r], raw'[r], Lapsed')
    BY <2>7 DEF Paired
  <2>9. WorkTreeInv(r)'
    BY <2>1, <2>8 DEF WorkTreeInv
  <2> QED BY <1>2, <2>1, <2>9
<1>9. ASSUME NEW r \in Runs, UpdateServiceLists(r) PROVE ConsistentInv'
  <2>1. /\ pc[r] = "index" /\ pc'[r] = "pull"
        /\ UNCHANGED <<remote, raw, merged, apart>>
        /\ \A q \in Runs \ {r} : pc'[q] = pc[q] /\ index'[q] = index[q]
        /\ index'[r] = IndexOf(merged[r])
    BY <1>9 DEF UpdateServiceLists, Goto, Typed, TypeOK
  <2>2. Paired(merged[r], raw[r], Lapsed')
    BY <1>0, <2>1, PairedMore DEF WorkTreeInv
  <2>3. WorkTreeInv(r)'
    BY <2>1, <2>2 DEF WorkTreeInv
  <2> QED BY <1>2, <2>1, <2>3
<1>10. ASSUME NEW r \in Runs, Pull(r) PROVE ConsistentInv'
  <2>1. /\ pc[r] = "pull" /\ pc'[r] = "commit" /\ UNCHANGED <<remote, apart>>
        /\ \A q \in Runs \ {r} : /\ pc'[q] = pc[q] /\ raw'[q] = raw[q]
                                 /\ merged'[q] = merged[q]
                                 /\ index'[q] = index[q]
        /\ raw'[r] = Overlay(HeadTree(r).raw, raw[r], Tip.raw)
        /\ merged'[r] = Overlay(HeadTree(r).merged, merged[r], Tip.merged)
        /\ index'[r] = Overlay(HeadTree(r).index, index[r], Tip.index)
        /\ ~PullBlocked(r)
    BY <1>10 DEF Pull, Goto, Typed, TypeOK
  <2>2. /\ Consistent(HeadTree(r), Lapsed) /\ Consistent(Tip, Lapsed)
        /\ Consistent(Tree(r), Lapsed)
    BY <2>1, HeadConsistent DEF WorkTreeInv, Consistent, Tree
  <2>3. /\ Paired(merged'[r], raw'[r], Lapsed) /\ index'[r] = IndexOf(merged'[r])
    BY <2>1, <2>2, WorkTreeTyped, OverlayConsistent DEF PullBlocked, Tree
  <2>4. Paired(merged'[r], raw'[r], Lapsed')
    BY <1>0, <2>3, PairedMore
  <2>5. WorkTreeInv(r)'
    BY <2>1, <2>3, <2>4 DEF WorkTreeInv
  <2> QED BY <1>2, <2>1, <2>5
<1>11. ASSUME NEW r \in Runs, NothingToCommit(r) \/ Commit(r)
       PROVE ConsistentInv'
  <2>1. /\ pc[r] = "commit" /\ pc'[r] \in {"push", "outage"}
        /\ UNCHANGED <<remote, raw, merged, index, apart>>
        /\ \A q \in Runs \ {r} : pc'[q] = pc[q]
    BY <1>11 DEF NothingToCommit, Commit, Goto, jobVars, Typed, TypeOK
  <2>2. Paired(merged[r], raw[r], Lapsed')
    BY <1>0, <2>1, PairedMore DEF WorkTreeInv
  <2>3. WorkTreeInv(r)'
    BY <2>1, <2>2 DEF WorkTreeInv
  <2> QED BY <1>2, <2>1, <2>3
<1>12. ASSUME NEW r \in Runs, Push(r) PROVE ConsistentInv'
  <2>1. /\ pc[r] = "push" /\ pc'[r] = "outage"
        /\ UNCHANGED <<raw, merged, index, apart>>
        /\ \A q \in Runs \ {r} : pc'[q] = pc[q]
    BY <1>12 DEF Push, Goto, jobVars, Typed, TypeOK
  <2>2. Consistent(Tree(r), Lapsed)
    BY <2>1 DEF WorkTreeInv, Consistent, Tree
  <2>3. CommitsConsistent'
    BY <1>0, <1>12, <2>2, PushAppends, WorkTreeTyped, AppendConsistent
  <2>4. WorkTreeInv(r)'
    BY <2>1 DEF WorkTreeInv
  <2> QED BY <1>0, <2>1, <2>3, <2>4, OthersKeep
<1>13. ASSUME NEW r \in Runs, FailStep(r) \/ OutageCheck(r) \/ Cancel(r)
       PROVE ConsistentInv'
  <2>1. /\ pc'[r] \in {"outage", "ended"}
        /\ UNCHANGED <<remote, raw, merged, index, apart>>
        /\ \A q \in Runs \ {r} : pc'[q] = pc[q]
    BY <1>13 DEF FailStep, OutageCheck, Cancel, Goto, jobVars, Typed, TypeOK
  <2>2. WorkTreeInv(r)'
    BY <2>1 DEF WorkTreeInv
  <2> QED BY <1>2, <2>1, <2>2
<1>14. CASE UNCHANGED vars
  BY <1>0, <1>14, OthersKeep, CommitsKept DEF vars
<1> QED
  BY <1>1, <1>3, <1>4, <1>5, <1>6, <1>7, <1>8, <1>9, <1>10, <1>11, <1>12,
     <1>13, <1>14
  DEF Next, RunNext, PullRefused, PushRejected, StepFails

\* Every commit of the branch pairs each raw list with its merge, but for
\* the lists on which a failure went unnoticed, for any interleaving of any
\* number of runs and of the maintainer's pushes.
THEOREM MergedMatchesRawHolds == Spec => []MergedMatchesRaw
<1>1. Typed /\ ConsistentInv /\ [Next]_vars => Typed' /\ ConsistentInv'
  BY StepTyped, StepConsistent
<1>2. ConsistentInv => MergedMatchesRaw
  BY DEF ConsistentInv, CommitsConsistent, Consistent, Paired, MergedMatchesRaw
<1> QED BY InitTyped, InitConsistent, <1>1, <1>2, PTL DEF Spec

\* Every commit's service indexes name exactly its populated merged lists.
THEOREM IndexListsPopulatedHolds == Spec => []IndexListsPopulated
<1>1. Typed /\ ConsistentInv /\ [Next]_vars => Typed' /\ ConsistentInv'
  BY StepTyped, StepConsistent
<1>2. ConsistentInv => IndexListsPopulated
  <2>1. \A m : \A f \in Families : IndexOf(m)[f] = Populated(m, f)
    BY DEF IndexOf
  <2>2. \A t : Consistent(t, Lapsed) =>
          \A f \in Families : t.index[f] = Populated(t.merged, f)
    BY <2>1 DEF Consistent
  <2> QED
    BY <2>2 DEF ConsistentInv, CommitsConsistent, Populated, IndexListsPopulated
<1> QED BY InitTyped, InitConsistent, <1>1, <1>2, PTL DEF Spec

-----------------------------------------------------------------------------
(* What a push may replace *)

KeepsAThird(old, new) ==
  \A l \in Lists :
    (old[l] # Absent /\ new[l] # Absent) => 3 * Lines[new[l]] >= Lines[old[l]]

\* Before the pull HEAD is the commit checked out; from the floor on the
\* merged lists keep a third of HEAD's lines, also when the pull moves HEAD;
\* after it, a raw list that differs from HEAD's is one HEAD did not change.
PushInv(r) ==
  /\ pc[r] \in {"queued", "download", "merge4", "merge6", "floor", "index",
                "pull"} => base[r] = head[r]
  /\ pc[r] \in {"index", "pull", "commit", "push"} =>
       KeepsAThird(HeadTree(r).merged, merged[r])
  /\ pc[r] \in {"commit", "push"} =>
       \A l \in Lists : raw[r][l] # HeadTree(r).raw[l] =>
         HeadTree(r).raw[l] = remote[base[r]].raw[l]

LEMMA MergedLines ==
  ASSUME NEW m \in MergedLists, NEW l \in Lists
  PROVE  m[l] = Absent \/ Lines[m[l]] \in Nat
BY ContentsAssumption DEF MergedLists

\* A step that keeps a run's place and files keeps PushInv when the branch
\* is the same or longer.
LEMMA PushInvKept ==
  ASSUME Typed, NEW q \in Runs, PushInv(q),
         pc'[q] = pc[q], raw'[q] = raw[q], merged'[q] = merged[q],
         base'[q] = base[q], head'[q] = head[q],
         \A i \in 1 .. Len(remote) : remote'[i] = remote[i]
  PROVE  PushInv(q)'
<1>1. base[q] \in 1 .. Len(remote) /\ head[q] \in 1 .. Len(remote)
  BY DEF Typed
<1>2. HeadTree(q)' = HeadTree(q) /\ remote'[base'[q]] = remote[base[q]]
  BY <1>1 DEF HeadTree
<1> QED BY <1>2 DEF PushInv, KeepsAThird

\* What the floor leaves keeps a third of HEAD's lines.
LEMMA FloorKeeps ==
  ASSUME Typed, NEW r \in Runs, SanityFloor(r)
  PROVE  KeepsAThird(HeadTree(r).merged, merged'[r])
<1>1. HeadTree(r).merged \in MergedLists /\ merged[r] \in MergedLists
  BY WorkTreeTyped, TreeParts
<1>2. ASSUME NEW l \in Lists,
             HeadTree(r).merged[l] # Absent, merged'[r][l] # Absent
      PROVE  3 * Lines[merged'[r][l]] >= Lines[HeadTree(r).merged[l]]
  <2>1. merged'[r][l] = IF l \in Reverted(r) THEN HeadTree(r).merged[l]
                        ELSE merged[r][l]
    BY FloorLists
  <2>2. Lines[HeadTree(r).merged[l]] \in Nat
    BY <1>1, <1>2, MergedLines
  <2>3. CASE l \in Reverted(r)
    BY <2>1, <2>2, <2>3
  <2>4. CASE l \notin Reverted(r)
    <3>1. merged'[r][l] = merged[r][l] /\ Lines[merged[r][l]] \in Nat
      BY <1>1, <1>2, <2>1, <2>4, MergedLines
    <3>2. ~Collapsed(Lines[HeadTree(r).merged[l]], Lines[merged[r][l]])
      BY <1>2, <2>4, <3>1 DEF Reverted
    <3> QED BY <2>2, <3>1, <3>2 DEF Collapsed
  <2> QED BY <2>3, <2>4
<1> QED BY <1>2 DEF KeepsAThird

\* The pull keeps it for the new HEAD.
LEMMA PullKeeps ==
  ASSUME Typed, NEW r \in Runs, Pull(r), PushInv(r)
  PROVE  /\ KeepsAThird(Tip.merged, merged'[r])
         /\ \A l \in Lists : raw'[r][l] # Tip.raw[l] =>
              Tip.raw[l] = remote[base[r]].raw[l]
         /\ HeadTree(r)' = Tip /\ base'[r] = base[r]
<1>1. /\ HeadTree(r) \in Trees /\ Tip \in Trees
      /\ raw[r] \in RawLists /\ merged[r] \in MergedLists
  BY WorkTreeTyped
<1>2. /\ DOMAIN HeadTree(r).raw = Lists /\ DOMAIN HeadTree(r).merged = Lists
  BY <1>1 DEF Trees
<1>3. /\ pc[r] = "pull" /\ base[r] = head[r] /\ ~PullBlocked(r)
      /\ KeepsAThird(HeadTree(r).merged, merged[r])
  BY DEF Pull, Goto, PushInv
<1>4. /\ raw'[r] = Overlay(HeadTree(r).raw, raw[r], Tip.raw)
      /\ merged'[r] = Overlay(HeadTree(r).merged, merged[r], Tip.merged)
      /\ head'[r] = Len(remote) /\ UNCHANGED <<remote, base>>
  BY DEF Pull, Typed, TypeOK
<1>5. \A l \in Lists :
        /\ raw[r][l] = HeadTree(r).raw[l] \/ Tip.raw[l] = HeadTree(r).raw[l]
        /\ \/ merged[r][l] = HeadTree(r).merged[l]
           \/ Tip.merged[l] = HeadTree(r).merged[l]
  BY <1>2, <1>3 DEF PullBlocked, Blocks, Touched
<1>6. ASSUME NEW l \in Lists, Tip.merged[l] # Absent, merged'[r][l] # Absent
      PROVE  3 * Lines[merged'[r][l]] >= Lines[Tip.merged[l]]
  <2>1. merged'[r][l] = IF merged[r][l] = HeadTree(r).merged[l]
                        THEN Tip.merged[l] ELSE merged[r][l]
    BY <1>2, <1>4 DEF Overlay
  <2>2. Lines[Tip.merged[l]] \in Nat
    BY <1>1, <1>6, TreeParts, MergedLines
  <2>3. CASE merged[r][l] = HeadTree(r).merged[l]
    BY <2>1, <2>2, <2>3
  <2>4. CASE merged[r][l] # HeadTree(r).merged[l]
    BY <1>3, <1>5, <1>6, <2>1, <2>4 DEF KeepsAThird
  <2> QED BY <2>3, <2>4
<1>7. \A l \in Lists : raw'[r][l] # Tip.raw[l] =>
        Tip.raw[l] = remote[base[r]].raw[l]
  BY <1>2, <1>3, <1>4, <1>5 DEF Overlay, HeadTree
<1>8. HeadTree(r)' = Tip /\ base'[r] = base[r]
  BY <1>4 DEF HeadTree, Tip
<1> QED BY <1>6, <1>7, <1>8 DEF KeepsAThird

\* No step takes a commit off the branch or changes one.
LEMMA BranchGrows ==
  ASSUME Typed, [Next]_vars
  PROVE  /\ Len(remote) <= Len(remote')
         /\ \A i \in 1 .. Len(remote) : remote'[i] = remote[i]
<1>1. Len(remote) \in Nat
  BY DEF Typed, TypeOK
<1>2. ASSUME NEW t, remote' = Append(remote, t)
      PROVE  /\ Len(remote) <= Len(remote')
             /\ \A i \in 1 .. Len(remote) : remote'[i] = remote[i]
  BY <1>1, <1>2 DEF Typed, TypeOK
<1>3. CASE MaintainerPush
  BY <1>2, <1>3 DEF MaintainerPush
<1>4. ASSUME NEW r \in Runs, Push(r)
      PROVE  /\ Len(remote) <= Len(remote')
             /\ \A i \in 1 .. Len(remote) : remote'[i] = remote[i]
  BY <1>2, <1>4, PushAppends
<1>5. ASSUME NEW r \in Runs, RunNext(r), ~Push(r) PROVE UNCHANGED remote
  BY <1>5
  DEF RunNext, Checkout, Download, DownloadsDone, Merge4, Merge6, Merge,
      SanityFloor, UpdateServiceLists, Pull, PullRefused, NothingToCommit,
      Commit, PushRejected, OutageCheck, StepFails, Cancel, FailStep
<1>6. CASE UNCHANGED vars
  BY <1>1, <1>6 DEF vars
<1> QED BY <1>1, <1>3, <1>4, <1>5, <1>6 DEF Next

LEMMA StepPushInv ==
  ASSUME Typed, \A r \in Runs : PushInv(r), [Next]_vars
  PROVE  \A r \in Runs : PushInv(r)'
<1>1. ASSUME NEW r \in Runs, RunNext(r), NEW q \in Runs \ {r} PROVE PushInv(q)'
  <2>1. /\ pc'[q] = pc[q] /\ raw'[q] = raw[q] /\ merged'[q] = merged[q]
        /\ base'[q] = base[q] /\ head'[q] = head[q]
    BY <1>1
    DEF RunNext, Checkout, Download, DownloadsDone, Merge4, Merge6, Merge,
        SanityFloor, UpdateServiceLists, Pull, PullRefused, NothingToCommit,
        Commit, Push, PushRejected, OutageCheck, StepFails, Cancel, FailStep,
        Goto, jobVars, treeVars, Typed, TypeOK
  <2> QED BY <2>1, BranchGrows, PushInvKept
<1>2. ASSUME NEW r \in Runs, Checkout(r) PROVE PushInv(r)'
  <2>1. pc'[r] = "download" /\ base'[r] = head'[r]
    BY <1>2 DEF Checkout, Goto, Typed, TypeOK
  <2> QED BY <2>1 DEF PushInv
<1>3. ASSUME NEW r \in Runs, NEW s \in Services, Download(r, s)
      PROVE PushInv(r)'
  <2>1. pc[r] = "download" /\ UNCHANGED <<pc, base, head>>
    BY <1>3 DEF Download
  <2> QED BY <2>1 DEF PushInv
<1>4. ASSUME NEW r \in Runs, DownloadsDone(r) \/ Merge4(r) \/ Merge6(r)
      PROVE PushInv(r)'
  <2>1. /\ pc[r] \in {"download", "merge4", "merge6"}
        /\ pc'[r] \in {"merge4", "merge6", "floor"} /\ UNCHANGED <<base, head>>
    BY <1>4 DEF DownloadsDone, Merge4, Merge6, Merge, Goto, Typed, TypeOK
  <2> QED BY <2>1 DEF PushInv
<1>5. ASSUME NEW r \in Runs, SanityFloor(r) PROVE PushInv(r)'
  <2>1. /\ pc[r] = "floor" /\ pc'[r] = "index"
        /\ UNCHANGED <<base, head, remote>>
    BY <1>5 DEF SanityFloor, Goto, Typed, TypeOK
  <2> QED BY <1>5, <2>1, FloorKeeps DEF PushInv, HeadTree
<1>6. ASSUME NEW r \in Runs, UpdateServiceLists(r) PROVE PushInv(r)'
  <2>1. /\ pc[r] = "index" /\ pc'[r] = "pull"
        /\ UNCHANGED <<base, head, remote, merged>>
    BY <1>6 DEF UpdateServiceLists, Goto, Typed, TypeOK
  <2> QED BY <2>1 DEF PushInv, HeadTree
<1>7. ASSUME NEW r \in Runs, Pull(r) PROVE PushInv(r)'
  <2>1. pc'[r] = "commit" /\ UNCHANGED remote
    BY <1>7 DEF Pull, Goto, Typed, TypeOK
  <2> QED BY <1>7, <2>1, PullKeeps DEF PushInv
<1>8. ASSUME NEW r \in Runs, Commit(r) PROVE PushInv(r)'
  <2>1. /\ pc[r] = "commit" /\ pc'[r] = "push"
        /\ UNCHANGED <<base, head, remote, raw, merged>>
    BY <1>8 DEF Commit, Goto, jobVars, Typed, TypeOK
  <2> QED BY <2>1 DEF PushInv, HeadTree
<1>9. ASSUME NEW r \in Runs,
             \/ NothingToCommit(r) \/ Push(r) \/ FailStep(r)
             \/ OutageCheck(r) \/ Cancel(r)
      PROVE PushInv(r)'
  <2>1. pc'[r] \in {"outage", "ended"}
    BY <1>9 DEF NothingToCommit, Push, FailStep, OutageCheck, Cancel, Goto,
                Typed, TypeOK
  <2> QED BY <2>1 DEF PushInv
<1>10. ASSUME NEW r \in Runs, RunNext(r) PROVE PushInv(r)'
  BY <1>2, <1>3, <1>4, <1>5, <1>6, <1>7, <1>8, <1>9, <1>10
  DEF RunNext, PullRefused, PushRejected, StepFails
<1>11. ASSUME MaintainerPush, NEW q \in Runs PROVE PushInv(q)'
  <2>1. UNCHANGED <<pc, raw, merged, base, head>>
    BY <1>11 DEF MaintainerPush, jobVars
  <2> QED BY <2>1, BranchGrows, PushInvKept
<1>12. ASSUME UNCHANGED vars, NEW q \in Runs PROVE PushInv(q)'
  <2>1. UNCHANGED <<pc, raw, merged, base, head>>
    BY <1>12 DEF vars
  <2> QED BY <2>1, BranchGrows, PushInvKept
<1> QED BY <1>1, <1>10, <1>11, <1>12 DEF Next

LEMMA InitPushInv == Init => \A r \in Runs : PushInv(r)
BY DEF Init, PushInv

\* A push leaves every merged list of the branch a third of its lines,
\* whatever others pushed since the run compared with its checkout.
THEOREM FloorHoldsOnPushHolds == Spec => FloorHoldsOnPush
<1>1. ASSUME Typed, \A r \in Runs : PushInv(r), NEW r \in Runs, Push(r)
      PROVE  KeepsAThird(Tip.merged, merged[r])
  BY <1>1, PushAppends DEF Push, Goto, PushInv
<1>2. Typed /\ (\A r \in Runs : PushInv(r)) =>
        \A r \in Runs : Push(r) =>
          \A l \in Lists :
            (Tip.merged[l] # Absent /\ merged[r][l] # Absent)
              => 3 * Lines[merged[r][l]] >= Lines[Tip.merged[l]]
  BY <1>1 DEF KeepsAThird
<1>3. Typed /\ (\A r \in Runs : PushInv(r)) /\ [Next]_vars =>
        Typed' /\ (\A r \in Runs : PushInv(r))'
  BY StepTyped, StepPushInv
<1> QED
  BY InitTyped, InitPushInv, <1>2, <1>3, PTL DEF Spec, FloorHoldsOnPush

\* A push replaces a raw list only in the version its run checked out.
THEOREM OverwritesOnlyWhatItSawHolds == Spec => OverwritesOnlyWhatItSaw
<1>1. Typed /\ (\A r \in Runs : PushInv(r)) =>
        \A r \in Runs : Push(r) =>
          \A l \in Lists :
            raw[r][l] # Tip.raw[l] => Tip.raw[l] = remote[base[r]].raw[l]
  <2>1. ASSUME Typed, NEW r \in Runs, PushInv(r), Push(r), NEW l \in Lists,
               raw[r][l] # Tip.raw[l]
        PROVE  Tip.raw[l] = remote[base[r]].raw[l]
    <3>1. HeadTree(r) = Tip
      BY <2>1, PushAppends
    <3>2. pc[r] = "push"
      BY <2>1 DEF Push, Goto
    <3> QED BY <2>1, <3>1, <3>2 DEF PushInv
  <2> QED BY <2>1
<1>2. Typed /\ (\A r \in Runs : PushInv(r)) /\ [Next]_vars =>
        Typed' /\ (\A r \in Runs : PushInv(r))'
  BY StepTyped, StepPushInv
<1> QED
  BY InitTyped, InitPushInv, <1>1, <1>2, PTL DEF Spec, OverwritesOnlyWhatItSaw

\* The branch only grows: no commit of anybody is lost to a push.
THEOREM NothingLostHolds == Spec => NothingLost
<1>1. Typed /\ [Next]_vars =>
        /\ Len(remote) <= Len(remote')
        /\ \A i \in DOMAIN remote : remote'[i] = remote[i]
  <2> SUFFICES ASSUME Typed, [Next]_vars
               PROVE  /\ Len(remote) <= Len(remote')
                      /\ \A i \in DOMAIN remote : remote'[i] = remote[i]
    OBVIOUS
  <2>1. DOMAIN remote = 1 .. Len(remote)
    BY DEF Typed, TypeOK
  <2> QED BY <2>1, BranchGrows
<1>2. Typed /\ [Next]_vars => Typed'
  BY StepTyped
<1> QED BY InitTyped, <1>1, <1>2, PTL DEF Spec, NothingLost

-----------------------------------------------------------------------------
(* The colour of a job *)

Published(r) == \E i \in DOMAIN remote : Tree(r) = remote[i]

\* A job that has not failed ran every downloader, and reaches the last step
\* only with its tree on the branch.
GreenInv(r) ==
  /\ result[r] \in {"running", "green"} /\ pc[r] \notin {"queued", "download"} =>
       /\ ran[r] = Services
       /\ tally[r] = <<Cardinality(Services), Cardinality(broken[r])>>
  /\ result[r] = "running" /\ pc[r] = "outage" => Published(r)
  /\ result[r] \in {"green", "cancelled"} => pc[r] = "ended"
  /\ result[r] = "green" => Published(r) /\ ~Systemic(tally[r][1], tally[r][2])

\* What is on the branch stays there.
LEMMA PublishedStays ==
  ASSUME Typed, [Next]_vars, NEW r \in Runs, Published(r),
         raw'[r] = raw[r], merged'[r] = merged[r], index'[r] = index[r]
  PROVE  Published(r)'
<1>1. PICK i \in DOMAIN remote : Tree(r) = remote[i]
  BY DEF Published
<1>2. /\ Len(remote) <= Len(remote') /\ remote'[i] = remote[i]
      /\ i \in 1 .. Len(remote) /\ Len(remote) \in Nat
  <2>1. DOMAIN remote = 1 .. Len(remote) /\ Len(remote) \in Nat
    BY DEF Typed, TypeOK
  <2>2. /\ Len(remote) <= Len(remote')
        /\ \A n \in 1 .. Len(remote) : remote'[n] = remote[n]
    BY BranchGrows
  <2> QED BY <2>1, <2>2
<1>3. Len(remote') \in Nat /\ DOMAIN remote' = 1 .. Len(remote')
  BY StepTyped DEF Typed, TypeOK
<1>4. i \in DOMAIN remote'
  BY <1>2, <1>3
<1> QED BY <1>1, <1>2, <1>4 DEF Published, Tree

\* The step of another run, or of the maintainer, keeps it.
LEMMA GreenOthers ==
  ASSUME Typed, [Next]_vars, NEW r \in Runs, GreenInv(r),
         pc'[r] = pc[r], result'[r] = result[r], raw'[r] = raw[r],
         merged'[r] = merged[r], index'[r] = index[r], ran'[r] = ran[r],
         broken'[r] = broken[r], tally'[r] = tally[r]
  PROVE  GreenInv(r)'
BY PublishedStays DEF GreenInv

LEMMA StepGreenInv ==
  Typed /\ (\A r \in Runs : GreenInv(r)) /\ [Next]_vars => \A r \in Runs : GreenInv(r)'
<1> SUFFICES ASSUME Typed, \A r \in Runs : GreenInv(r), [Next]_vars
             PROVE  \A r \in Runs : GreenInv(r)'
  OBVIOUS
<1>1. ASSUME NEW r \in Runs, RunNext(r), NEW q \in Runs, q # r PROVE GreenInv(q)'
  <2>1. /\ pc'[q] = pc[q] /\ result'[q] = result[q] /\ raw'[q] = raw[q]
        /\ merged'[q] = merged[q] /\ index'[q] = index[q] /\ ran'[q] = ran[q]
        /\ broken'[q] = broken[q] /\ tally'[q] = tally[q]
    BY <1>1 DEF RunNext, Checkout, Download, DownloadsDone, Merge4, Merge6, Merge,
        SanityFloor, UpdateServiceLists, Pull, PullRefused, NothingToCommit, Commit,
        Push, PushRejected, OutageCheck, StepFails, FailStep, Cancel, Goto, jobVars,
        treeVars, Typed, TypeOK
  <2> QED BY <2>1, GreenOthers
<1>2. ASSUME NEW r \in Runs,
             \/ Checkout(r) \/ \E s \in Services : Download(r, s)
      PROVE GreenInv(r)'
  <2>1. pc'[r] = "download" /\ pc[r] \in {"queued", "download"} /\ UNCHANGED result
    BY <1>2 DEF Checkout, Download, Goto, Typed, TypeOK
  <2> QED BY <2>1 DEF GreenInv
<1>3. ASSUME NEW r \in Runs, DownloadsDone(r) PROVE GreenInv(r)'
  <2>1. /\ pc[r] = "download" /\ pc'[r] = "merge4" /\ ran[r] = Services
        /\ tally'[r] = <<Cardinality(ran[r]), Cardinality(broken[r])>>
        /\ UNCHANGED <<result, ran, broken>>
    BY <1>3 DEF DownloadsDone, Goto, Typed, TypeOK
  <2> QED BY <2>1 DEF GreenInv
<1>4. ASSUME NEW r \in Runs,
             \/ Merge4(r) \/ Merge6(r) \/ SanityFloor(r) \/ UpdateServiceLists(r)
             \/ Pull(r) \/ Commit(r)
      PROVE GreenInv(r)'
  <2>1. /\ pc[r] \in {"merge4", "merge6", "floor", "index", "pull", "commit"}
        /\ pc'[r] \in {"merge6", "floor", "index", "pull", "commit", "push"}
        /\ UNCHANGED <<result, ran, broken, tally>>
    BY <1>4 DEF Merge4, Merge6, Merge, SanityFloor, UpdateServiceLists, Pull, Commit,
                Goto, jobVars, Typed, TypeOK
  <2> QED BY <2>1 DEF GreenInv
<1>5. ASSUME NEW r \in Runs, NothingToCommit(r) PROVE GreenInv(r)'
  <2>1. /\ pc[r] = "commit" /\ pc'[r] = "outage" /\ Tree(r) = HeadTree(r)
        /\ UNCHANGED <<remote, result, raw, merged, index, ran, broken, tally>>
    BY <1>5 DEF NothingToCommit, Goto, jobVars, Typed, TypeOK
  <2>2. head[r] \in DOMAIN remote
    BY DEF Typed, TypeOK
  <2>3. Published(r)'
    BY <2>1, <2>2 DEF Published, Tree, HeadTree
  <2> QED BY <2>1, <2>3 DEF GreenInv
<1>6. ASSUME NEW r \in Runs, Push(r) PROVE GreenInv(r)'
  <2>1. /\ pc[r] = "push" /\ pc'[r] = "outage" /\ remote' = Append(remote, Tree(r))
        /\ UNCHANGED <<result, raw, merged, index, ran, broken, tally>>
    BY <1>6, PushAppends DEF Push, Goto, jobVars, Typed, TypeOK
  <2>2. Len(remote) + 1 \in DOMAIN remote' /\ remote'[Len(remote) + 1] = Tree(r)
    BY <2>1 DEF Typed, TypeOK
  <2>3. Published(r)'
    BY <2>1, <2>2 DEF Published, Tree
  <2> QED BY <2>1, <2>3 DEF GreenInv
<1>7. ASSUME NEW r \in Runs, FailStep(r) \/ Cancel(r) PROVE GreenInv(r)'
  <2>1. \/ result'[r] = "red"
        \/ result'[r] = "cancelled" /\ pc'[r] = "ended"
    BY <1>7 DEF FailStep, Cancel, Typed, TypeOK
  <2> QED BY <2>1 DEF GreenInv
<1>8. ASSUME NEW r \in Runs, OutageCheck(r) PROVE GreenInv(r)'
  <2>1. /\ pc[r] = "outage" /\ pc'[r] = "ended"
        /\ UNCHANGED <<remote, raw, merged, index, ran, broken, tally>>
    BY <1>8 DEF OutageCheck, Goto, jobVars, Typed, TypeOK
  <2>2. \/ result'[r] = "red"
        \/ /\ result'[r] = "green" /\ result[r] # "red"
           /\ ~Systemic(tally[r][1], tally[r][2])
    BY <1>8 DEF OutageCheck, Typed, TypeOK
  <2>3. result'[r] = "green" => result[r] = "running"
    BY <2>1, <2>2 DEF GreenInv, Typed, TypeOK, Colours
  <2>4. Published(r) => Published(r)'
    BY <2>1 DEF Published, Tree
  <2> QED BY <2>1, <2>2, <2>3, <2>4 DEF GreenInv
<1>9. ASSUME NEW r \in Runs, RunNext(r) PROVE GreenInv(r)'
  BY <1>2, <1>3, <1>4, <1>5, <1>6, <1>7, <1>8, <1>9
  DEF RunNext, PullRefused, PushRejected, StepFails
<1>10. ASSUME MaintainerPush \/ UNCHANGED vars, NEW q \in Runs PROVE GreenInv(q)'
  <2>1. UNCHANGED <<pc, result, raw, merged, index, ran, broken, tally>>
    BY <1>10 DEF MaintainerPush, jobVars, vars
  <2> QED BY <2>1, GreenOthers
<1> QED BY <1>1, <1>9, <1>10 DEF Next

\* A green job published its tree, and most of its downloaders went through
\* (update.yml 143-163).
THEOREM GreenMeansPublishedHolds == Spec => []GreenMeansPublished
<1>1. Init => \A r \in Runs : GreenInv(r)
  BY DEF Init, GreenInv
<1>2. Typed /\ (\A r \in Runs : GreenInv(r)) => GreenMeansPublished
  <2> SUFFICES ASSUME Typed, NEW r \in Runs, GreenInv(r), pc[r] = "ended",
                      result[r] = "green"
               PROVE  /\ Published(r)
                      /\ 2 * Cardinality(broken[r]) < Cardinality(ran[r])
    BY DEF GreenMeansPublished, Published
  <2>1. /\ ran[r] = Services /\ Published(r)
        /\ ~Systemic(Cardinality(Services), Cardinality(broken[r]))
    BY DEF GreenInv
  <2>2. Cardinality(Services) \in Nat \ {0}
    BY ServicesAssumption, FS_CardinalityType, FS_EmptySet
  <2>3. broken[r] \in SUBSET Services
    BY DEF Typed, TypeOK
  <2>4. Cardinality(broken[r]) \in Nat
    BY <2>3, ServicesAssumption, FS_Subset, FS_CardinalityType
  <2> QED BY <2>1, <2>2, <2>4 DEF Systemic
<1>3. Typed /\ (\A r \in Runs : GreenInv(r)) /\ [Next]_vars =>
        Typed' /\ (\A r \in Runs : GreenInv(r))'
  BY StepTyped, StepGreenInv
<1> QED BY InitTyped, <1>1, <1>2, <1>3, PTL DEF Spec
=============================================================================
