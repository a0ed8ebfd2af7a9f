--------------------------- MODULE UpdateWorkflow ---------------------------
(***************************************************************************)
(* The daily job of .github/workflows/update.yml and the branch it pushes  *)
(* to.  A run checks the branch out, lets every downloader.sh rewrite the  *)
(* raw lists of its service, compresses each raw list with utils/merge.py, *)
(* reverts the merged lists that collapsed (the sanity floor), rebuilds    *)
(* the two service indexes, pulls, commits and pushes.  Nothing serialises *)
(* the runs (the workflow has no concurrency group), a run can be re-run   *)
(* on an old commit, and the maintainer pushes too.                        *)
(*                                                                         *)
(* A list is one ipv4.txt or ipv6.txt path; its content and that of the    *)
(* _merged.txt beside it are opaque values.  MergeOf is the pipeline       *)
(* "merge.py | sort -h" and Lines is "wc -l".                              *)
(***************************************************************************)
EXTENDS Naturals, Sequences, FiniteSets

CONSTANTS
  Services,     \* directories holding a downloader.sh
  Lists,        \* the paths <service>/ipv4.txt and <service>/ipv6.txt
  Owns,         \* service -> the lists its downloader.sh writes
  FamilyOf,     \* list -> "ipv4" or "ipv6"
  Raws,         \* contents a raw list can have
  Mergeds,      \* contents a merged list can have
  MergeOf,      \* raw content -> what the merge step makes of it
  Lines,        \* merged content -> its number of lines
  Absent,       \* a path that is not in the tree
  Runs,         \* runs of the workflow
  Fallible,     \* steps that can fail by themselves
  Unnoticed,    \* commands whose failure the scripts do not notice
  MaxEdits      \* bound: pushes by the maintainer

Families == {"ipv4", "ipv6"}

ASSUME ServicesAssumption == IsFiniteSet(Services) /\ Services # {}
ASSUME ListsAssumption ==
  /\ Owns \in [Services -> SUBSET Lists]
  /\ FamilyOf \in [Lists -> Families]
ASSUME ContentsAssumption ==
  /\ MergeOf \in [Raws -> Mergeds]
  /\ Lines \in [Mergeds -> Nat]
  /\ Absent \notin Raws \cup Mergeds
ASSUME BoundsAssumption ==
  /\ Fallible \subseteq {"queued", "download", "merge4", "merge6", "floor",
                       "index", "pull", "commit", "push"}
  /\ Unnoticed \subseteq {"merge", "restore"}
  /\ MaxEdits \in Nat

VARIABLES
  remote,   \* the commits of the branch on GitHub, oldest first
  edits,    \* pushes the maintainer made
  pc,       \* the step a run is in
  base,     \* the commit a run checked out
  head,     \* the commit its HEAD names now
  raw,      \* the raw lists in its work tree
  merged,   \* the merged lists in its work tree
  index,    \* the service indexes in its work tree
  ran,      \* downloaders the run has started and finished
  broken,   \* those that exited non-zero, /tmp/dl_failed_list
  tally,    \* /tmp/dl_total and /tmp/dl_failed, <<0, 0>> when not written
  apart,    \* lists of its work tree that a failure nobody noticed left with
            \* the merge of something else (no state of the job)
  result    \* colour of the job

treeVars == <<raw, merged, index>>
jobVars == <<base, head, raw, merged, index, ran, broken, tally, apart>>
vars == <<remote, edits, pc, base, head, raw, merged, index, ran, broken,
          tally, apart, result>>

Trees == [raw    : [Lists -> Raws \cup {Absent}],
          merged : [Lists -> Mergeds \cup {Absent}],
          index  : [Families -> SUBSET Lists]]

Colours == {"running", "green", "red", "cancelled"}
Steps == {"queued", "download", "merge4", "merge6", "floor", "index",
          "pull", "commit", "push", "outage", "ended"}

-----------------------------------------------------------------------------
(* What the scripts compute *)

\* The output of the merge step for a raw list that may not exist.
MergedOf(c) == IF c = Absent THEN Absent ELSE MergeOf[c]

\* What a merge.py that dies leaves of its output, sorted: the shell of
\* parallel has no pipefail and sees the exit status of sort alone.
Partial(c) ==
  {m \in Mergeds : m # MergeOf[c] /\ Lines[m] <= Lines[MergeOf[c]]}

\* find -name ipv4_merged.txt -not -empty
Populated(m, f) ==
  {l \in Lists : FamilyOf[l] = f /\ m[l] # Absent /\ Lines[m[l]] > 0}

IndexOf(m) == [f \in Families |-> Populated(m, f)]

\* The tree in which everything derived is derived from the raw lists.
BuiltFrom(lists) ==
  LET m == [l \in Lists |-> MergedOf(lists[l])]
  IN  [raw |-> lists, merged |-> m, index |-> IndexOf(m)]

\* Faulty: a list may lose three quarters of its lines.
CollapsedToAQuarter(old, new) == old > 0 /\ (new = 0 \/ new * 4 < old)

\* The floor's test on a list of `old' lines that now has `new' lines.
Collapsed(old, new) == old > 0 /\ (new = 0 \/ new * 3 < old)

\* Paths that differ between two versions of a part of the tree.
Touched(old, new) == {x \in DOMAIN old : old[x] # new[x]}

\* git refuses a fast-forward over a path that is dirty in the work tree.
Blocks(old, mine, theirs) == Touched(old, mine) \cap Touched(old, theirs) # {}

\* The work tree after a fast-forward: dirty paths keep the local content.
Overlay(old, mine, theirs) ==
  [x \in DOMAIN old |-> IF mine[x] = old[x] THEN theirs[x] ELSE mine[x]]

\* HEAD of a run, as a tree.
HeadTree(r) == remote[head[r]]

\* The work tree of a run.
Tree(r) == [raw |-> raw[r], merged |-> merged[r], index |-> index[r]]

Tip == remote[Len(remote)]

\* The merged lists the sanity floor reverts; new files are left alone.
Reverted(r) ==
  {l \in Lists : /\ merged[r][l] # Absent
                 /\ HeadTree(r).merged[l] # Absent
                 /\ Collapsed(Lines[HeadTree(r).merged[l]],
                              Lines[merged[r][l]])}

-----------------------------------------------------------------------------

Init ==
  /\ \E seed \in [Lists -> Raws \cup {Absent}] : remote = <<BuiltFrom(seed)>>
  /\ edits = 0
  /\ pc = [r \in Runs |-> "queued"]
  /\ base = [r \in Runs |-> 1]
  /\ head = [r \in Runs |-> 1]
  /\ raw = [r \in Runs |-> remote[1].raw]
  /\ merged = [r \in Runs |-> remote[1].merged]
  /\ index = [r \in Runs |-> remote[1].index]
  /\ ran = [r \in Runs |-> {}]
  /\ broken = [r \in Runs |-> {}]
  /\ tally = [r \in Runs |-> <<0, 0>>]
  /\ apart = [r \in Runs |-> {}]
  /\ result = [r \in Runs |-> "running"]

Goto(r, from, to) == pc[r] = from /\ pc' = [pc EXCEPT ![r] = to]

\* actions/checkout takes the commit of the event, which is an old one when
\* the run waited for a runner or is a re-run.
Checkout(r) ==
  /\ Goto(r, "queued", "download")
  /\ \E n \in 1 .. Len(remote) :
       /\ base' = [base EXCEPT ![r] = n]
       /\ head' = [head EXCEPT ![r] = n]
       /\ raw' = [raw EXCEPT ![r] = remote[n].raw]
       /\ merged' = [merged EXCEPT ![r] = remote[n].merged]
       /\ index' = [index EXCEPT ![r] = remote[n].index]
  /\ UNCHANGED <<remote, edits, ran, broken, tally, apart, result>>

\* One downloader.sh.  Under set -e it can stop anywhere, so a failing one
\* leaves any part of its lists rewritten; one that exits 0 wrote them all,
\* but its sources are soft (|| true), so with any content.
Download(r, s) ==
  /\ pc[r] = "download" /\ s \notin ran[r]
  /\ \E written \in SUBSET Owns[s], ok \in BOOLEAN :
       /\ ok => written = Owns[s]
       /\ \E out \in [written -> Raws] :
            raw' = [raw EXCEPT ![r] =
                      [l \in Lists |-> IF l \in written THEN out[l]
                                       ELSE raw[r][l]]]
       /\ broken' = [broken EXCEPT ![r] = IF ok THEN @ ELSE @ \cup {s}]
  /\ ran' = [ran EXCEPT ![r] = @ \cup {s}]
  /\ UNCHANGED <<remote, edits, pc, base, head, merged, index, tally, apart,
                 result>>

\* The download loop is over and the tallies are written.
DownloadsDone(r) ==
  /\ Goto(r, "download", "merge4")
  /\ ran[r] = Services
  /\ tally' = [tally EXCEPT ![r] = <<Cardinality(ran[r]),
                                     Cardinality(broken[r])>>]
  /\ UNCHANGED <<remote, edits, base, head, treeVars, ran, broken, apart, result>>

\* Every raw list of a family found in the tree is merged, also the lists
\* of services whose downloader failed.  A merge.py that dies on a list cuts
\* the output short, and the step goes on.
Merge(r, f) ==
  LET found == {l \in Lists : FamilyOf[l] = f /\ raw[r][l] # Absent}
  IN  \E cut \in SUBSET found :
        /\ cut # {} => "merge" \in Unnoticed
        /\ \E out \in [cut -> Mergeds] :
             /\ \A l \in cut : out[l] \in Partial(raw[r][l])
             /\ merged' = [merged EXCEPT ![r] =
                             [l \in Lists |-> IF l \in cut THEN out[l]
                                              ELSE IF l \in found
                                              THEN MergeOf[raw[r][l]]
                                              ELSE merged[r][l]]]
        /\ apart' = [apart EXCEPT ![r] = @ \cup cut]
        /\ UNCHANGED <<remote, edits, base, head, raw, index, ran, broken,
                       tally, result>>

\* Faulty: the step for IPv6 names the IPv4 lists.
Merge6Twice4(r) == Goto(r, "merge6", "floor") /\ Merge(r, "ipv4")

Merge4(r) == Goto(r, "merge4", "merge6") /\ Merge(r, "ipv4")
Merge6(r) == Goto(r, "merge6", "floor") /\ Merge(r, "ipv6")

\* Faulty: the raw list is not restored with the merged one.
SanityFloorMergedOnly(r) ==
  /\ Goto(r, "floor", "index")
  /\ merged' = [merged EXCEPT ![r] =
                  [l \in Lists |-> IF l \in Reverted(r)
                                   THEN HeadTree(r).merged[l]
                                   ELSE merged[r][l]]]
  /\ apart' = [apart EXCEPT ![r] = @ \ Reverted(r)]
  /\ UNCHANGED <<remote, edits, base, head, raw, index, ran, broken, tally,
                 result>>

\* A collapsed merged list goes back to HEAD, with its raw list when HEAD
\* has one.  The second checkout may fail and the step goes on (|| true);
\* the first may not, the shell runs with -e.
SanityFloor(r) ==
  /\ Goto(r, "floor", "index")
  /\ LET gone == Reverted(r)
     IN \E kept \in SUBSET {l \in gone : HeadTree(r).raw[l] # Absent} :
          /\ kept # {} => "restore" \in Unnoticed
          /\ merged' = [merged EXCEPT ![r] =
                          [l \in Lists |-> IF l \in gone
                                           THEN HeadTree(r).merged[l]
                                           ELSE merged[r][l]]]
          /\ raw' = [raw EXCEPT ![r] =
                       [l \in Lists |->
                          IF l \in gone \ kept /\ HeadTree(r).raw[l] # Absent
                          THEN HeadTree(r).raw[l] ELSE raw[r][l]]]
          /\ apart' = [apart EXCEPT ![r] = (@ \ gone) \cup kept]
  /\ UNCHANGED <<remote, edits, base, head, index, ran, broken, tally, result>>

UpdateServiceLists(r) ==
  /\ Goto(r, "index", "pull")
  /\ index' = [index EXCEPT ![r] = IndexOf(merged[r])]
  /\ UNCHANGED <<remote, edits, base, head, raw, merged, ran, broken, tally,
                 apart, result>>

-----------------------------------------------------------------------------
(* The step "Commit files" *)

\* Faulty: local changes survive the pull whatever it brings.
PullBlockedNever(r) == FALSE

\* Faulty: only the lists are compared, not the service indexes.
PullBlockedByLists(r) ==
  \/ Blocks(HeadTree(r).raw, raw[r], Tip.raw)
  \/ Blocks(HeadTree(r).merged, merged[r], Tip.merged)

\* The paths a fast-forward to the tip would overwrite.
PullBlocked(r) ==
  \/ Blocks(HeadTree(r).raw, raw[r], Tip.raw)
  \/ Blocks(HeadTree(r).merged, merged[r], Tip.merged)
  \/ Blocks(HeadTree(r).index, index[r], Tip.index)

\* git pull --ff-only, in a work tree that is dirty.
Pull(r) ==
  /\ Goto(r, "pull", "commit")
  /\ ~PullBlocked(r)
  /\ raw' = [raw EXCEPT ![r] = Overlay(HeadTree(r).raw, @, Tip.raw)]
  /\ merged' = [merged EXCEPT ![r] = Overlay(HeadTree(r).merged, @, Tip.merged)]
  /\ index' = [index EXCEPT ![r] = Overlay(HeadTree(r).index, @, Tip.index)]
  /\ head' = [head EXCEPT ![r] = Len(remote)]
  /\ UNCHANGED <<remote, edits, base, ran, broken, tally, apart, result>>

\* The rest of the job is skipped, except the step marked always().
FailStep(r) ==
  /\ pc' = [pc EXCEPT ![r] = "outage"]
  /\ result' = [result EXCEPT ![r] = "red"]
  /\ UNCHANGED <<remote, edits, jobVars>>

PullRefused(r) == pc[r] = "pull" /\ PullBlocked(r) /\ FailStep(r)

\* git add; "No changes" ends the step with success.
NothingToCommit(r) ==
  /\ Goto(r, "commit", "outage")
  /\ Tree(r) = HeadTree(r)
  /\ UNCHANGED <<remote, edits, jobVars, result>>

Commit(r) ==
  /\ Goto(r, "commit", "push")
  /\ Tree(r) # HeadTree(r)
  /\ UNCHANGED <<remote, edits, jobVars, result>>

\* Faulty: git push --force.
Forced(r) == TRUE

\* git push: the branch becomes HEAD's history and the new commit; GitHub
\* takes it only when that is a fast-forward of the branch.
FastForward(r) == head[r] = Len(remote)

Push(r) ==
  /\ Goto(r, "push", "outage")
  /\ FastForward(r)
  /\ remote' = Append(SubSeq(remote, 1, head[r]), Tree(r))
  /\ UNCHANGED <<edits, jobVars, result>>

\* Faulty: git push || true.
PushRejectionIgnored(r) ==
  /\ Goto(r, "push", "outage")
  /\ ~FastForward(r)
  /\ UNCHANGED <<remote, edits, jobVars, result>>

PushRejected(r) == pc[r] = "push" /\ ~FastForward(r) /\ FailStep(r)

-----------------------------------------------------------------------------
(* The end of a job *)

\* Faulty: exactly half of the downloaders failing is no outage.
SystemicAboveHalf(total, failed) == total > 0 /\ failed * 2 > total

Systemic(total, failed) == total > 0 /\ failed * 2 >= total

\* "Fail on systemic outage", which runs whatever happened before.
OutageCheck(r) ==
  /\ Goto(r, "outage", "ended")
  /\ result' = [result EXCEPT ![r] =
       IF @ = "red" \/ Systemic(tally[r][1], tally[r][2])
       THEN "red" ELSE "green"]
  /\ UNCHANGED <<remote, edits, jobVars>>

\* A step fails by itself: apt, pip, parallel, the network.
StepFails(r) == pc[r] \in Fallible /\ FailStep(r)

\* The job is cancelled, or its runner is lost.
Cancel(r) ==
  /\ pc[r] # "ended"
  /\ pc' = [pc EXCEPT ![r] = "ended"]
  /\ result' = [result EXCEPT ![r] = "cancelled"]
  /\ UNCHANGED <<remote, edits, jobVars>>

\* The maintainer pushes a list they rebuilt with the same scripts.
MaintainerPush ==
  /\ edits < MaxEdits
  /\ edits' = edits + 1
  /\ \E l \in Lists, c \in Raws :
       remote' = Append(remote, BuiltFrom([Tip.raw EXCEPT ![l] = c]))
  /\ UNCHANGED <<pc, jobVars, result>>

RunNext(r) ==
  \/ Checkout(r)
  \/ \E s \in Services : Download(r, s)
  \/ DownloadsDone(r)
  \/ Merge4(r)
  \/ Merge6(r)
  \/ SanityFloor(r)
  \/ UpdateServiceLists(r)
  \/ Pull(r)
  \/ PullRefused(r)
  \/ NothingToCommit(r)
  \/ Commit(r)
  \/ Push(r)
  \/ PushRejected(r)
  \/ OutageCheck(r)
  \/ StepFails(r)
  \/ Cancel(r)

Next == MaintainerPush \/ \E r \in Runs : RunNext(r)

Spec == Init /\ [][Next]_vars

-----------------------------------------------------------------------------
(* Properties *)

\* Every variable has its type.
TypeOK ==
  /\ remote \in Seq(Trees) /\ remote # <<>>
  /\ edits \in 0 .. MaxEdits
  /\ pc \in [Runs -> Steps]
  /\ base \in [Runs -> Nat]
  /\ head \in [Runs -> Nat]
  /\ raw \in [Runs -> [Lists -> Raws \cup {Absent}]]
  /\ merged \in [Runs -> [Lists -> Mergeds \cup {Absent}]]
  /\ index \in [Runs -> [Families -> SUBSET Lists]]
  /\ ran \in [Runs -> SUBSET Services]
  /\ broken \in [Runs -> SUBSET Services]
  /\ tally \in [Runs -> Nat \X Nat]
  /\ apart \in [Runs -> SUBSET Lists]
  /\ result \in [Runs -> Colours]

\* Lists a run has taken past the floor with the merge of something else.
Lapsed ==
  UNION {apart[r] : r \in
    {q \in Runs : pc[q] \notin {"queued", "download", "merge4", "merge6",
                                "floor"}}}

\* A list that no failure went unnoticed on is paired with its own merge in
\* every commit, although the floor reverts two files and a pull mixes two
\* runs' files path by path: what one list loses spreads to no other
\* (update.yml 75, 82, 99-102, 135).
MergedMatchesRaw ==
  \A i \in DOMAIN remote : \A l \in Lists \ Lapsed :
    remote[i].merged[l] = MergedOf(remote[i].raw[l])

\* In every commit the service indexes name the populated merged lists,
\* although a run computes them before the pull brings in other lists
\* (update.yml 125-126; README.md 54).
IndexListsPopulated ==
  \A i \in DOMAIN remote : \A f \in Families :
    remote[i].index[f] =
      {l \in Lists : /\ FamilyOf[l] = f
                     /\ remote[i].merged[l] # Absent
                     /\ Lines[remote[i].merged[l]] > 0}

\* A push of a run leaves every merged list at least a third of the lines it
\* has on the branch at that moment: the floor compared with the commit checked
\* out, which others may have moved past (update.yml 85-106).
FloorHoldsOnPush ==
  [][\A r \in Runs : Push(r) =>
       \A l \in Lists :
         (Tip.merged[l] # Absent /\ merged[r][l] # Absent)
           => 3 * Lines[merged[r][l]] >= Lines[Tip.merged[l]]]_vars

\* A push of a run changes a raw list only from the content that run checked
\* out: it overwrites no update it has not seen (update.yml 135, 150).
OverwritesOnlyWhatItSaw ==
  [][\A r \in Runs : Push(r) =>
       \A l \in Lists :
         raw[r][l] # Tip.raw[l]
           => Tip.raw[l] = remote[base[r]].raw[l]]_vars

\* No push drops a commit from the branch (update.yml 150, no force).
NothingLost ==
  [][/\ Len(remote) <= Len(remote')
     /\ \A i \in DOMAIN remote : remote'[i] = remote[i]]_vars

\* A job that ends green left its work tree on the branch, and fewer than half
\* of its downloaders failed (update.yml 143-146, 163).
GreenMeansPublished ==
  \A r \in Runs : (pc[r] = "ended" /\ result[r] = "green") =>
    /\ \E i \in DOMAIN remote : Tree(r) = remote[i]
    /\ 2 * Cardinality(broken[r]) < Cardinality(ran[r])

\* What the comment at update.yml 155 says of the last step: the good data is
\* already committed when it runs.
GoodDataAlreadyCommitted ==
  \A r \in Runs : pc[r] = "outage" =>
    \E i \in DOMAIN remote : Tree(r) = remote[i]
=============================================================================
