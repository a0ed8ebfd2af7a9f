# TLA+ models of ipranges

This directory holds the specifications kept beside `antonme/ipranges`: a
repository of IP ranges of cloud providers, the GitHub workflow that refreshes
them every night, and `irrindex`, a Go program that keeps a local index of the
public routing registries and compares it with the lists. Paths below are
relative to the repository (`src/` here); `main.go` is
`irrindex/cmd/irrindex/main.go`.

## 1. The system

| Component | State | Operations | Talks to |
|---|---|---|---|
| Update workflow (`.github/workflows/update.yml`, `utils/merge.py`) | branch on GitHub; work tree, HEAD, tallies of one job | checkout, download, merge IPv4, merge IPv6, sanity floor, service lists, pull, commit, push, outage check | downloaders; other runs and the maintainer through the branch |
| Downloaders (`*/downloader.sh`, `utils/arin-org.py`) | a scratch file in `/tmp`; two raw lists | whois, curl, dig, nslookup, ARIN requests; split by family | the network, or the shims of a shadow run |
| Fetch (`internal/fetch`) | cache directory, manifest | 3 attempts per source over HTTP or curl, rename, digest | registries; build through the cache |
| Build and store (`internal/store`, `runBuild`) | SQLite tables sources, objects, attrs | replace one source in a transaction, record an error | cache; every reader |
| Queries, whois-shim, verify (`internal/query`, `internal/mirrors`, `main.go`) | none | select prefixes by origin or maintainer, filter by registry, count | the database |
| Compare (`internal/compare`) | none | read lists, query, range arithmetic, status, report | database, lists |
| Snapshot job (`irr-snapshot.yml`) | a fresh machine | fetch, build, verify, compare, upload | all of the above |
| Shadow run (`main.go` 282-818) | response cache (shared), failure directory, work trees | run downloaders behind shims in one or two trees, compare | downloaders, whois-shim, compare |
| Query extraction (`internal/manifest/extract.go`) | helper functions found in a script, queries seen, `queries.yaml` | three passes over each script, write, load | the scripts' text; compare through the file |
| Retention (`internal/manifest/retention.go`) | the list of stored snapshots; a plan | sort, keep, prune | whoever keeps the snapshots |
| Parsers and import (`internal/rpsl`, `ris`, `rpki`, conversions of `store.go`) | the block that is read, objects found, rows | one line; one object | build; queries through the rows |
| Configuration (`internal/config`) | none | decode and check YAML | fetch, build, compare |

What is hard here: jobs and people push to one branch; a job keeps going after
most failures; processes may die between two steps and are simply started
again; several processes share a database, a cache directory and `/tmp`; and
the comparison does two-word arithmetic up to the last address of a family.
`PROJECT.json` lists every such hazard at its line with the properties that
would catch it.

What makes each component correct:

* Update workflow: every commit is consistent in itself (raw, merged, index);
  nobody's newer data is overwritten; a broken upstream cannot wipe a list; a
  green job has published.
* Store: readers find whole dumps only, of the source they ask for.
* Fetch and snapshot: the cache holds whole dumps; manifest, cache and database
  describe the same thing; the fetch ends.
* Readers: a host answers from its own registries; `verify` judges the index
  it saw; `compare` collects what the whois shims would answer.
* Shadow run: paired runs see the same answers, failures are not remembered
  across invocations, and the report shows differences made by whois only.
* Comparison: the difference is exact, minimal, and computed in finite time.
* Query extraction: of the scripts the repository has, it finds only what the
  shell asks, and all of it.
* Retention: a plan for what is left keeps what the policy wants of everything
  there ever was.
* Parsers and import: a query finds what the objects of the file say, and a
  file is refused only for a fault in it.

## 2. Modules

| Module | Models |
|---|---|
| `UpdateWorkflow` | the job, any number of runs, the maintainer |
| `UpdateWorkflow_proofs` | proofs about it |
| `SourceIndex` | what the database promises: source -> one whole dump, or failed |
| `IndexStore` | the database, its transactions and the build; implements `SourceIndex` |
| `IndexStore_proofs` | proofs about it, the refinement included |
| `Readers` | `query`, `whois-shim`, `verify`, the queries of `compare`, while builds commit |
| `Readers_proofs` | proofs about it |
| `Snapshot` | fetch file by file, and build, verify, compare, upload after it |
| `Snapshot_proofs` | proofs about it |
| `ShadowRun` | invocations, shims, response cache, work trees, report |
| `ShadowRun_proofs` | proofs about it |
| `Uint128` | the address arithmetic of `compare.go` |
| `CoverageDiff` | the loops of `diffService`, one turn per action |
| `CoverageDiff_proofs` | proofs about it and the arithmetic |
| `ExtractQueries` | `extract-queries`, and `LoadQueries` of what it wrote |
| `Retention` | `manifest summarize`, plan after plan |
| `Manifest` | the two commands that stand on package `manifest`, composed |
| `Manifest_proofs` | proofs about both |
| `Import` | one source from its cached file to what a query finds |
| `Import_proofs` | proofs about it |
| `MC...` | instances of these for TLC |

`Snapshot` uses the build in one step per source; that is what `IndexStore`
shows to be right when it implements `SourceIndex`. `Readers` instantiates
`SourceIndex` for the builds that commit while it reads. `ShadowRun` uses the
comparison as a set difference, which `CoverageDiff` shows to be right.
`CoverageDiff` extends `Uint128`. `Import` says what the fate of a record in
`IndexStore` stands for: an object that the conversions refuse is a record that
cannot be inserted, one that names a default route is dropped. `Manifest`
extends `ExtractQueries` and `Retention`, which share no state; the command
line, chosen at the start, tells which of them runs. What `ExtractQueries`
shows is what `Readers` takes for granted: that a comparison asks the queries
of the script.

Definitions whose comment begins with "Faulty:" are not part of any
specification. Each states a plausible mistake in one definition of the model;
substituting it makes the property named in `PROJECT.json` ("mutants") fail.

### UpdateWorkflow

`remote` is the history of the branch, a sequence of trees. A tree maps every
list to its raw content, its merged content and the two service indexes.
A run has its own work tree (`raw`, `merged`, `index`), the commit it checked
out (`base`) and its HEAD (`head`). One action is one step of the job, except
that "Commit files" is three (`Pull`, `NothingToCommit` or `Commit`, `Push`),
because the branch can move in between, and "Download IPs" is one action per
script (`Download`, then `DownloadsDone` writes the tallies). A failing script
leaves any part of its lists rewritten. `Checkout` may take an old commit, as
a re-run does. `StepFails` and `Cancel` end a job anywhere; the last step runs
after any failure (`if: always()`).

A step fails at the first command that does: the workflow names no shell, so
GitHub runs its scripts with `bash -e`, also the sanity floor, whose own `set -uo
pipefail` does not take that back. Two commands can fail without a trace
(`Unnoticed`). A `merge.py` that dies inside the pipelines that `parallel` starts
(update.yml 75, 82) leaves a list cut short, any content of fewer lines or none
(`Partial`). The second `git checkout` of the floor stands before `|| true` (102),
so a raw list can stay while its merged list is reverted, and the step is green.
`apart` remembers the lists this happened to. The floor repairs a list that was
cut short enough, and nothing else does: such a list is committed and pushed.
`MergedMatchesRaw` is therefore about the lists of no such failure (`Lapsed` are
the others), and says that they are not drawn in.

Contents are abstract: `MergeOf` is the function `merge.py` computes, `Lines`
the number of lines of a merged list. Git is external: a fast-forward is
refused when a path that it changes is dirty, and a push when it is no
fast-forward.

### SourceIndex and IndexStore

`sources`, `objects`, `attrs` are the committed tables, `work[b]` the database
as the open transaction of build `b` sees it, `lock` the write lock of SQLite.
`BeginImport` is the first write (`upsertSource`, `replaceSourceObjects`),
`InsertRecord` one turn of the insert loop, `Commit`, `CommitFails` and
`RollBack` the end. `RecordError` is the transaction of `RecordSourceError`; it
can fail (`RecordFails`). After a `Commit` that failed, database/sql takes the
transaction for done and the deferred `Rollback` sends nothing, so SQLite may
keep the write lock on the one connection of the process (store.go 74-83, 134,
193): it is then held by a build that has no transaction, whose later sources
fail at their `BEGIN`, and goes with the connection when the process ends
(`Finish`, main.go 897). `Crash` loses the open transaction. Row ids are the largest in
use plus one, so ids come back. A record is its fate (it makes a row, it is of
another type, it is a default route, it cannot be normalised), a prefix and a
set of attributes.

The refinement mapping `published` takes a source to Missing, Failed, or the
set of its rows with their attributes.

### Readers

`published` is the state of `SourceIndex`, which `Publish` changes as a build
does. A reader is one process: `todo` holds the SQL statements it has yet to
run, `got` the prefixes it has collected, `counts` what `verify` has counted.
A statement sees one committed index, as in SQLite; between two statements any
number of commits may fall (`MaxCommits`). `Found` is `byAttr`, with its empty
filter that means every source. `SourcesForHost` and `SourcesFromMirrors` are
the two ways in which the program turns names into registries.

A `script` is a downloader whose whois commands are all answered by the shims
of a shadow run. `compare` asks the queries of the same scripts, one for each
attribute with the mirrors of all hosts asked for it. That `extract-queries`
finds exactly those is what `QueriesAreAsked` and `NothingIsLeftOut` of
`ExtractQueries` say, for orderly and for plain scripts, which all of the
repository are. Some
prefixes are address ranges (`Ranges`), which are rows without a prefix: no
answer prints them, and `verify` counts them. The queries of one downloader come
in any order, those of different downloaders are not mixed, IPv4 comes before
IPv6. `before`, `disturbed` and `offered` are history: the index at the start,
whether it changed, and the rows that were served meanwhile.

### Snapshot

`cached` and `tmp` are the two files of a source, `results` the manifest in
memory and `manifest` the one on disk. Attempts, the creation of the temporary
file, the end of the copy, the rename and the digest are actions of their own,
so a failure, a killed process (`Crash`) or a machine that stops
(`MachineStops`) can fall between any two. Nothing is synced before the rename
(fetch.go 121-137), so a machine that stops may leave any of the cached files
cut short under their names; `lost` remembers which, until they are fetched
again, and `CacheIsWhole` is about the others. The database and the manifest
are left as they were: SQLite syncs its own commits, and a cut manifest is
rewritten by the next fetch. `fresh` tells the job, which
gets an empty machine and goes on only after exit status 0, from a user, who
keeps the files and may go on anyway. The registries publish at any moment.
That a transfer which breaks off is reported as an error by `net/http` and curl
is an assumption about them.

### ShadowRun

A downloader is a sequence of commands. A command is what its shim makes of
it: asked of the index, recorded and replayed, replayed only, or passed
through. `RunReal`, `RecordSuccess`, `PrintRecorded` are the three places in
`cached_run` between which another invocation can act. `failures[i]` is the
failure directory of one invocation; `cache` is shared. `scratch` is the file
of a downloader in `/tmp`. `called`, `recorder` and `seen` are history. A command
that fails stops its script or does not (`onFailure`; `utils/arin-org.py` can do
either). Two things about commands are left out. A curl that is given `-o` gets
a recorded answer on its standard output and no file (main.go 693-702); no
downloader passes it. `arin-org.py` prints the response it has just recorded
instead of reading it again, which is the same text.
`Workloads` are the downloaders an instance selects, and whether its
invocations run at the same time or one after the other.

### Uint128 and CoverageDiff

`WordBits` and `V4` replace 64 and 32, all else is as in the code, including
wrap-around. The sets of prefixes and the status inputs are `Inputs`; default
routes are never among them, since lists and index drop them, and they are
finite. `Pow2[k]` is 1 shifted left by k. `Sorted` is the sequence `sortRanges`
makes of ranges of which no two are equal: prefixes in normal form have
different ranges, and so have the pieces of a difference. Every loop of
`mergeRanges`, `subtractRanges` and `rangesToPrefixes` takes one turn per
action. Reference definitions are sets of addresses (`Coverage`).

### ExtractQueries, Retention, Manifest

A script is a sequence of lines, each reduced to what the passes and the shell
make of it: the beginning of a function, a whois command, a call, a `for` with
its values, an end, a `done`. `HelperLine` and `CallLine` are one turn of the
first and the second pass. In the third, `FindLoop` and `LoopOver` are the
regular expression that finds loops; `LoopHelper` is one turn of the loop over
the map of helpers, in any order. `Write` and `Load` are `WriteQueriesYAML` and
`LoadQueries`; `WriteFails` leaves a part of the file.

There are two references. `Asks` is what the shell asks: it goes from the first
line to the last, a call leads to the definition in force at its line
(`InForce`), a function that is never called asks nothing, a loop without values
runs nothing (`Runs`), and a variable has the values of the innermost loop over
it (`Given`). The extraction takes no notice of order, and of two definitions of
a name keeps the last for every call (extract.go 182), so it cannot agree with
the shell on all scripts: `QueriesAreAsked` claims so for the `Orderly` ones,
where each function is defined once, before its calls, which are in no function,
and loops are closed, have values and do not share a variable. All scripts of
the repository are of this form. `Mentions` is what the text speaks of in
whatever order it runs, all calls and definitions taken together. Of any script,
a query names no mirror beyond it, and of the `Plain` ones nothing of it may be
left out: a function is defined once and in no other, asks for one kind that no
other function asks for, a loop ends before the next begins, and a variable is
that of a loop around. What else a function asks for does not matter.

`ever` is every snapshot there has been, `stored` those not deleted. A plan is
for what was stored when the list was read (`given`); `PlanCadence` is one turn
of its loop. Between two plans snapshots arrive, with times in any order, and
pruned ones are deleted, by hand, since the command only prints. `Wanted` is the
reference: the newest of each cadence among all there have ever been.

### Import

`NextLine` gives the parser one line of the alphabet of the source, so every
file over it is read; the file may end (`FileEnds`) or break off (`ReadFails`)
after any line. `attrs` and `lastKey` are the block an RPSL parser is in.
`InsertObject` is one turn of the insert loop with its conversions. A text is
reduced to what these tell apart: an AS number in three spellings, a set of
them, a maintainer in two cases, a prefix written plainly, with host bits or
with leading zeros, a range, half a range, a word. The parser keeps a comment at
the end of a line (rpsl/parser.go 74-84), so what has one is a word here, as it
is to the conversions, and `+` continues nothing. A line of an RPSL file is an
attribute, continues one, or has no colon; records and headers are lines of the
other formats (`ImportAssumption`). The reference (`About`) reads the file as
paragraphs, without parser state, and `Faulty` says what is wrong with one.

## 3. Runs

| Run | Question | Instance | Result |
|---|---|---|---|
| `race` | Does the branch stay consistent under racing runs? | 2 runs, 2 services of 1 list, contents of 0 and 4 lines | holds |
| `one` | And when downloaders stop half way, floors bite, any step fails? | 1 run, a service with lists of both families, contents of 0, 1, 3, 4 lines, two of which merge alike, 1 push | holds |
| `late` | "Good data is already committed above" (update.yml 155) | 2 runs | violated |
| `store` | Do readers always find whole imports? | 2 builds, 2 sources sharing a prefix, dumps of 1 to 3 records, one bad after a good one | holds |
| `marked` | "write `ok=0` in `sources` and continue" (plan 761) | 1 build after another | violated |
| `readers` | Do `compare` and the shims collect the same, whose prefixes does an answer hold, is `verify` right? | 2 readers, 2 scripts of 2 commands, 4 hosts (none, 2 mirrors, one unknown), 2 registries, one of them also with an empty dump, prefixes of both families and an address range, 1 commit | holds |
| `shadow` | Do paired runs agree, is the output a run's own, are differences whois' own? | 2 invocations: of one downloader at the same time over one response cache, or of two downloaders with every kind of command one after the other | holds |
| `scratch` | "an isolated work dir" (plan 1037) | the latter with a downloader that appends to `/tmp` | violated |
| `coverage` | Is the difference exact, minimal, finite? | IPv6 addresses of 4 bits in 2 words, IPv4 of 1 bit; all pairs of up to 1 and up to 2 blocks of several addresses, and of up to 3 of 8 prefixes around a word boundary and at the ends | holds |
| `manifest` | Is the extraction what the shell asks, are retention plans right after deletions? | scripts of two functions with 6 bodies and two of 12 pieces (calls, loops, loops in loops), scripts with a call before its function, which stays open, or none at all, 2 downloaders; 6 snapshots of 2 known cadences and an unknown one, 2 and 0 of which are kept, 3 plans | holds |
| `import` | Does a query find what the file says, is a file refused for a fault only? | every format and an unknown one, files of up to 5 lines of 13 and 11 that may break off anywhere | holds |
| `snapshot` | Do cache, manifest, database and uploads fit together, over crashes and restarts; does the fetch end? | one FTP and one HTTP source, 2 dumps (with and without rows), 1 publication, 2 snapshots, a machine that stops and cuts a file | holds |

Why the bounds are enough. Two runs give every order of two writers between a
checkout, a pull and a push; to a run, a push by the maintainer looks like that
of another run, but may write any list, which `one` covers. A third writer adds
no new kind of step, and the proofs cover any number. The contents lie on both
sides of the floor (3 -> 1 stays, 4 -> 1 is reverted, 0 is collapsed). Two
builds and two sources let ids move between sources; the dumps differ in length
so that they do. A COMMIT that fails and keeps the lock meets a second source
of its own build and another build. One commit suffices to give `verify` and
`whois-shim` different indexes at different statements, and two readers to
relate a comparison to a script. A second snapshot finds whatever the first has
left, and one publication lets a digest and a file differ; a machine stops
between them, after any file of the first has been renamed, and the second
finds what it cut (`Unsynced`: of the run one source, of the theorems any). In
`coverage` words of two bits have an inside and an edge, blocks are smaller
than, as large as and larger than a word, and both families end within the
instance, so wrapping cases are common; sets of three prefixes give two gaps.
In `manifest` two functions, two values and two loops are what it takes to mix
one function's kind, hosts or values with another's; six snapshots put more
than the policy keeps, two of one time and one late one into a cadence, and the
third plan sees what was deleted after the first two. In `import` five lines
are an object of two attributes, a blank line and another object, with what one
could carry over into the other. `MaxEdits`, `MaxBuilds`, `MaxStarts`,
`MaxPublished`, `MaxCommits`, `MaxPlans` and `MaxLines` bound the number of
pushes, builds, snapshots, publications, commits, plans and lines; nothing else
is bounded.

The type invariants of `UpdateWorkflow`, `IndexStore`, `Readers` and `ShadowRun`
are proved and not checked again by a run.

Every configuration switches the deadlock check off: all these programs end,
and a state in which all have ended has no next step. What would be a deadlock
in the store, a lock that outlives its holder, is the property `LockReleased`: a
build that has ended holds no lock, and what holds one outside a transaction is
a COMMIT that failed, for no longer than the process.

Three runs show disagreements between a text and the code; they are listed as
findings with the quoted lines. A fourth is worth a note: README.md and
update.yml 88 speak of a loss of more than 66% of the lines, the code tests
for less than a third, which differs for lists whose length is no multiple of
three by at most one line. So are three more. update.yml 87-88 says that the
floor reverts a merged list "and its raw .txt", but 102 ignores a checkout of
the latter that fails. `docs/bulk-db-augment-plan.md` 347 (and
`docs/research/2026-06-22-rpsl-parser-spike.md` 175) want the range of an
`inetnum` converted to prefixes with rows of their own; the code keeps the range
as it is, in a row without a prefix (store.go 217-231), which no query of a
maintainer finds, and `AnswersAreTheFiles` says so. And the same spike, 281-286,
would "skip malformed objects" and "count skipped objects by source and reason";
the code refuses the whole source at the first (store.go 104-108, main.go
903-911), which is what `RefusedForCause` calls a fault.

## 4. Fairness

Two modules state fairness. `CoverageDiff` is a sequential program without
waiting, so weak fairness of its next step says only that it is not suspended
for ever. `Snapshot` has weak fairness of the steps of the fetch: each of its
waits is cut off after 60 seconds (`requestTimeout`, for HTTP as a client
timeout, for curl by killing it). The other modules need none: everything they
promise is safety, and jobs may be cancelled and builds killed.

## 5. Proofs

Proved with TLAPS, for every value of the constants that satisfies the
assumptions named in the modules:

* `UpdateWorkflow_proofs`: `TypeCorrect`, `MergedMatchesRawHolds`,
  `IndexListsPopulatedHolds`, `FloorHoldsOnPushHolds`,
  `OverwritesOnlyWhatItSawHolds`, `NothingLostHolds`,
  `GreenMeansPublishedHolds`.
* `IndexStore_proofs`: `TypeCorrect`, `AttrsOwnedHolds`,
  `OnlyOkSourcesHoldObjectsHolds`, `LockReleasedHolds`, `Refinement`.
* `Readers_proofs`: `TypeCorrect`, `ComparisonMeasuresShimsHolds`,
  `AnswersAreTheHostsHolds`, `VerifyJudgesRightHolds`.
* `Snapshot_proofs`: `TypeCorrect`, `CacheIsWholeHolds`,
  `ManifestDescribesCacheHolds`, `ArtifactsAgreeHolds`, `UploadHoldsRowsHolds`.
* `ShadowRun_proofs`: `TypeCorrect`, `PairedRunsAgreeHolds`,
  `FailuresAreOwnHolds`, `RunsRealOnceHolds`, `TruncatedOutputIsOwn`,
  `OutputIsOwnHolds`, `DifferencesComeFromWhoisHolds`.
* `Manifest_proofs`: `PlanAsIfNoneDeletedHolds`, `PrunedForGoodHolds`,
  `QueriesAreAskedHolds`, `LoadsBackHolds`, `NothingIsLeftOutHolds`.
* `Import_proofs`: `RefusedForCauseHolds`, `AnswersAreTheFilesHolds`.
* `CoverageDiff_proofs`: `TypeOKHolds`, `ScannedExactHolds`,
  `DifferenceExactHolds`, `DifferenceMinimalHolds`, `StatusSoundHolds`,
  `LoopsAdvance`.

The theorems about `ExtractQueries` and `Retention` are stated of `Spec` of
`Manifest`, which composes the two.

Argument for the workflow. That commits are consistent is not inductive: what
gets committed is a work tree, and a pull mixes paths of two trees. The
invariant `ConsistentInv` adds what each step has established so far about the
work tree (after the merge steps, merged lists match raw ones, family by
family; after the floor all still do; after the service lists the index does)
and that HEAD is itself a commit. The mixed tree is consistent because git
refuses a fast-forward over any dirty path, the index included: a merged list
that differs on either side belongs to one side only, and the two indexes
cannot both differ. `PushInv` relates a work tree past the floor to HEAD:
HEAD is `base` until the pull; from the floor on every merged list keeps a
third of the lines it has in HEAD, also after a pull that moved HEAD; and after
the pull a raw list that differs from HEAD stands in HEAD as it did in `base`,
or git would have refused to pull. At a push HEAD is the end of the branch:
that is its guard.

`GreenInv` adds, for `GreenMeansPublished`, that the tallies a job carries are
those of its own downloads and that a job past its push, or past the finding
that there is nothing to commit, has its tree on the branch; pushes of others
only append, so it stays there.

Argument for the store. `StoreInv` says of the committed database and of every
open transaction's copy that it is sound (attributes have objects, only ok
sources have objects), of the holder of the lock that its copy differs from
the committed database in its own source alone, and that this source holds
exactly the rows of the records inserted so far. At `Commit` these are the
rows of the whole dump, so the step is `Import` of `SourceIndex`; every other
step is `Fail` or a stutter. That a new id is not in use, and so cannot give a
row the attributes of another, is what `IsNewId` says of SQLite.

Argument for the readers. `AskInv` says that the statements still to run and
those already run make up the job, and, while the index has not changed, that
`got` is what the latter find in it; `WindowInv` that the index of now and of
the start are among what was offered; `VerifyInv` ties each count to what was
offered. When a reader is done, `got` is what all its statements find, and
lemma `SameAnswers` says that these sets are equal for a comparison and a
script: host names and mirror names resolve to the same registries, no list of
sources is empty, and a host that no mirror models contributes the name of no
registry. The last two are `MirrorsAssumption`, facts about the table in
`mirrors.go` and the names in `sources.yaml`.

Argument for the snapshot. `FilesInv` says that a cached file is one whole
dump and that only the temporary file of the running transfer is not;
`FetchInv` that a result in memory agrees with the cache for the sources
already handled and that the others are as they were; `JobInv` that the
database was built from the cache as it is. On a fresh machine there is no
file before the fetch, so a source with rows was fetched: that is why the job,
unlike a user who goes on over an old cache, uploads what its manifest
describes.

Argument for the shadow run. `SeenInv` says that every answer a caching shim
gave is what it would print again without a request (`Known`), unless another
invocation recorded the request since. Recording is the only step that can
change it. `CalledInv` says that a request an invocation has made is in the
response cache or among its own failures, so it is never made twice, and that
these failures are of requests it made itself.

What an invocation compares takes more: `AloneInv`, about invocations that do
not overlap. They take turns, so between two steps of one nothing else moves its
scratch files or the cache. `AnswersInv` then says that every answer a caching
shim gave is what it would give now, so the two runs were answered alike.
`ListsInv` says that the lists of a downloader that is through are its answers
in the order of its commands (`Collected`), that the scratch file of the one
that runs has those of the commands already run, and that the scratch file of
one that is through in the reference tree still is the list it wrote there
(`Rests`). The last is for scripts that append: what they find in the file when
they run again is then in both trees, so the trees differ by their answers only
and `DifferencesComeFromWhois` needs no assumption on the scripts. `OutputIsOwn`
does: run `scratch` refutes it for a downloader that appends, and the theorem
has `Appending = {}` as its hypothesis; `TruncatedOutputIsOwn` says the same of
every single downloader that does not append.

Argument for extraction. `EInv` says that a helper that is known has a kind and
at least one host (`HelpersFit`), each from a line of a function of that name,
and that a query seen (`Good`) has a call, or a call in a loop with a value of
that loop, of such a helper. A later helper replaces a query and never mixes
with it. The first "done" after a loop lies inside the shell's loop or ends it,
so a call before it is inside. So a query names what the text mentions, and of an
orderly script that is what the shell asks (`OrderlyIsAsked`): the one definition
is in force at the call (`FunctionInForce`), and what any loop around it has is
what the innermost over the variable has (`GivenWhatIsPassed`).

That nothing is left out is `LInv`: each pass has missed nothing of the lines it
has passed. Of a plain script a function that was read has its kind and all the
hosts it asks (`FunctionsRead`), since the lines between its beginning and its
end are in no other function; a call that was read has left its query with all
these mirrors (`CallsRead`); and so has every value of a loop for every function
called in it (`LoopsRead`), where a plain script's loop is just what the regular
expression finds. A later query of the same kind and value comes from the same
function, so replacing is harmless. A script that was gone through is `Caught`.

Argument for retention. `RInv` says that what was deleted had been pruned, and
that what was pruned is not wanted. An arrival only adds newer snapshots, so
what is unwanted stays so (`Wanted` shrinks on old snapshots), and the plan for
what is left is the plan for all. `Sorted` is the one sequence that is ordered
newest first (`SortedIsSorted`); its first n elements are those with fewer than
n newer ones.

Argument for the import. `ImportInv` says, while an RPSL file is read, that the
block has for each key the values of the attributes of the open paragraph, in
their order (`Holds`: there is an increasing map from the values to the lines),
that a value has one text exactly if no line continues it (`Says`), and that
`lastKey` is the key of the last of these lines (`KeepsLast`). So the object that
a blank line or the end of the file makes (`Flushed`) is that of the one line
that gives the paragraph its class. A paragraph that has ended is not changed by
later lines (`MadeKept`), and so the objects are those of the paragraphs before
(`ParseInv`), and, of the other formats, those of the records. While objects are
inserted every one is still pending, dropped, or in the rows, and every row is of
one (`InsertInv`). Lemma `RowAnswers` says that the row of an object is found for
just what the file says of it, whatever the spelling; lemma `RefusedObject` that
an object that cannot be inserted is a fault of its line.

Argument for the comparison. The first half is arithmetic, for words and
families of any width. Each operation of `Uint128` is that of the numbers
(`Number`) as long as the result is below 2^`V6` and wraps to zero at it
(`IncrementFacts`, `DecrementFacts`, `AddPowerOfTwoFacts`); comparisons are those
of numbers (`Compare`). From there, `TrailingZerosFacts` says at which blocks an
address is aligned, `AddBlockEndFacts` that the computed end of a block is its
last address, also when the sum wraps, and `LargestHostBitsFacts` that the block
chosen fits, and that the next larger one would not be aligned, or not fit.
Powers of two need induction; since the prover has none, `Pow2Exists` argues
from a least counterexample, and so do the facts about sorting.

The second half is the invariant `IInv` of the loops. Ranges are valid: they
end in their family and not before they start. Merged ranges are `Apart`, with
an address between any two that neither covers, and merged and queue together
cover what the prefixes cover (`MergeInv`). While subtracting, `out` is exact
for what has been passed (`SubtractInv`, `ScanInv`), the ranges of the subtrahend
below `rightIndex` and `i` end before anything still to come, and pieces of `out`
are apart from each other and from the cursor: that they are is why the sorted
pieces can be cut one by one. The blocks written and what remains make up the
difference, and no block written could be doubled within it (`EmitInv`, `Fewest`).
Such a block ends its range or is limited by alignment, and before and after a
range there is an address that is not in the difference (`GapAfterHead`). Two
blocks that were the halves of one would let the first be doubled (`NoHalves`).

`LoopsAdvance` is as much of `Terminates` as is safety: every step goes on to a
later phase, or takes a turn of a loop, and a turn makes a queue shorter or
raises an index or an address that is bounded (`Bounded`). That an address is
raised is the point: `IsLastBlock` has seen the end of the range before the next
block could start at zero again.

Only model-checked: liveness (`Terminates`, `FetchEnds`), which is beyond the
prover.

## 6. Not modelled

* Which addresses providers publish, and the text formats of scripts, JSON,
  Markdown and logs: data and layout.
* Text below the token. Comments of a script, which the extraction reads as
  script; a token that is a part of another; `function name {`, which the
  extraction does not take for a function (no script has one); lists of
  maintainers on one line; what stands before a comment at the end of an RPSL
  line. That two requests share one name in the response
  cache (`cache_key`) depends on such text and is left out too.
* The decoding of YAML. A partly written `queries.yaml` is either no YAML, or a
  part of the queries, which `LoadQueries` accepts.
* Several `irrindex fetch` processes in one cache directory: nothing in the
  repository starts them.
* Row floors of `verify` (plan 1213-1214): not in the code.

Two more things that came up while reading. The 169 queries of the committed
`queries.yaml` are exactly what the extraction finds in the committed scripts.
And `alibaba/downloader.sh` runs `whois` itself, outside any function; the
extraction passes over it without a word, although the plan (853) promises a
warning for what it cannot resolve.

## 7. Plan

1. `UpdateWorkflow`. Done, its safety proved.
2. `SourceIndex`, `IndexStore` with the refinement. Done and proved.
3. `ShadowRun`. Done and proved.
4. `Uint128`, `CoverageDiff`. Done, its safety proved.
5. `Snapshot`. Done, its safety proved.
6. `Readers`. Done and proved.
7. `ExtractQueries`, `Retention`, `Manifest`. Done and proved.
8. `Import`. Done and proved.
