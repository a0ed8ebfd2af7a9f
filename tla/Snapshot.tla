------------------------------ MODULE Snapshot ------------------------------
(***************************************************************************)
(* One snapshot of the routing registries: fetch, build, verify, compare   *)
(* and upload, as the job of .github/workflows/irr-snapshot.yml runs them  *)
(* on a fresh machine and as a user runs them on a machine that keeps the  *)
(* cache and the database of the last time (docs/bulk-db-augment-plan.md   *)
(* 1012-1015).  The fetch (internal/fetch/fetch.go) is modelled file by    *)
(* file: attempts, the temporary file, the rename, the digest, crashes.    *)
(* The build imports a source in one step, which IndexStore justifies.     *)
(***************************************************************************)
EXTENDS Naturals, FiniteSets

CONSTANTS
  Sources,
  Ftp,         \* sources fetched by curl; the others by net/http
  Skipped,     \* sources with only unsupported object types
  Unsynced,    \* sources whose cached file a machine that stops can cut short
  Dumps,       \* contents of an upstream file
  Parsable,    \* dumps that unzip and parse
  Empty,       \* those of which no record makes a row
  None,        \* no file
  MaxPublished,\* bound: upstream files replaced
  MaxStarts    \* bound: snapshots started; a machine stops before the last

ASSUME SourcesAssumption ==
  Ftp \subseteq Sources /\ Skipped \subseteq Sources /\ Unsynced \subseteq Sources
ASSUME DumpsAssumption ==
  /\ Parsable \subseteq Dumps /\ Empty \subseteq Parsable
  /\ {None, "none", "failed"} \cap Dumps = {}
ASSUME BoundsAssumption == MaxPublished \in Nat /\ MaxStarts \in Nat

Files == [dump : Dumps, whole : BOOLEAN]
NoFile == [dump |-> None, whole |-> FALSE]
\* A result of the manifest: the dump stands for its SHA-256 and size.
Results == [state : {"ok"}, dump : Dumps]
           \cup [state : {"none", "unfetched", "undigested"}, dump : {None}]
NoResults == [s \in Sources |-> [state |-> "none", dump |-> None]]
Entries == Dumps \cup {"none", "failed"}

VARIABLES
  upstream,   \* source -> what its server has now
  published,  \* number of upstream files replaced
  cached,     \* source -> <cache>/<source>.gz
  tmp,        \* source -> <cache>/<source>.gz.tmp
  lost,       \* history: sources whose cached file a machine that stopped
              \* has cut short and no fetch has replaced
  manifest,   \* source-manifest.json: source -> result, NoResults if missing
  index,      \* source -> what the database holds
  pc,         \* where the snapshot is
  fresh,      \* it runs on a fresh machine, as the job does
  todo,       \* sources the current command has yet to handle
  current,    \* the source being fetched
  attempts,   \* failed attempts to fetch it
  results,    \* the manifest in memory
  before,     \* history: the cache when the fetch began
  imported,   \* sources the build imported
  starts      \* snapshots started

upstreamVars == <<upstream, published>>
fileVars == <<cached, tmp, lost>>
fetchVars == <<current, attempts, results>>
buildVars == <<index, imported>>
startVars == <<fresh, before, starts>>
vars == <<upstreamVars, fileVars, manifest, pc, todo, fetchVars, buildVars,
          startVars>>

Fetching == {"fetch", "get", "copy", "rename", "digest"}
Over == {"passed", "failed", "crashed"}

-----------------------------------------------------------------------------

Init ==
  /\ upstream \in [Sources -> Dumps]
  /\ published = 0
  /\ cached = [s \in Sources |-> NoFile]
  /\ tmp = [s \in Sources |-> NoFile]
  /\ lost = {}
  /\ manifest = NoResults
  /\ index = [s \in Sources |-> "none"]
  /\ pc = "idle"
  /\ fresh = FALSE
  /\ todo = {}
  /\ current = None
  /\ attempts = 0
  /\ results = NoResults
  /\ before = cached
  /\ imported = {}
  /\ starts = 0

\* A registry publishes its next dump.
Publish ==
  /\ published < MaxPublished
  /\ \E s \in Sources, d \in Dumps : upstream' = [upstream EXCEPT ![s] = d]
  /\ published' = published + 1
  /\ UNCHANGED <<fileVars, manifest, pc, todo, fetchVars, buildVars, startVars>>

\* irrindex fetch; the job's machine has no files yet.
Start(job) ==
  /\ pc \in Over \cup {"idle"} /\ starts < MaxStarts
  /\ pc' = "fetch" /\ todo' = Sources
  /\ fresh' = job
  /\ starts' = starts + 1
  /\ current' = None /\ attempts' = 0
  /\ results' = NoResults
  /\ imported' = {}
  /\ IF job
     THEN /\ cached' = [s \in Sources |-> NoFile]
          /\ tmp' = [s \in Sources |-> NoFile]
          /\ lost' = {}
          /\ manifest' = NoResults
          /\ index' = [s \in Sources |-> "none"]
     ELSE UNCHANGED <<fileVars, manifest, index>>
  /\ before' = cached'
  /\ UNCHANGED upstreamVars

-----------------------------------------------------------------------------
(* fetch *)

retryCount == 3

BeginSource(s) ==
  /\ pc = "fetch" /\ s \in todo
  /\ pc' = "get" /\ todo' = todo \ {s}
  /\ current' = s /\ attempts' = 0
  /\ UNCHANGED <<upstreamVars, fileVars, manifest, results, buildVars, startVars>>

\* Faulty: failed attempts are not counted.
FailForever ==
  /\ pc' = "get"
  /\ UNCHANGED <<attempts, results>>

\* Faulty: the error of a source comes with the digest of its partial file.
FailWithDigest ==
  /\ attempts' = attempts + 1
  /\ IF attempts + 1 < retryCount
     THEN pc' = "get" /\ UNCHANGED results
     ELSE /\ pc' = "fetch"
          /\ results' = [results EXCEPT ![current] =
                           [state |-> "unfetched", dump |-> tmp[current].dump]]

\* The attempt failed: the next one, or the source's error.
FailAttempt ==
  /\ attempts' = attempts + 1
  /\ IF attempts + 1 < retryCount
     THEN pc' = "get" /\ UNCHANGED results
     ELSE /\ pc' = "fetch"
          /\ results' = [results EXCEPT ![current] =
                           [state |-> "unfetched", dump |-> None]]

\* No answer within 60 seconds, a status other than 2xx, an error of curl, or
\* a temporary file that cannot be created.
RequestFails ==
  /\ pc = "get"
  /\ tmp' = IF current \in Ftp THEN [tmp EXCEPT ![current] = NoFile] ELSE tmp
  /\ FailAttempt
  /\ UNCHANGED <<upstreamVars, cached, lost, manifest, todo, current, buildVars,
                 startVars>>

\* The answer begins: the temporary file is created or emptied.
OpenTmp ==
  /\ pc = "get"
  /\ pc' = "copy"
  /\ tmp' = [tmp EXCEPT ![current] = [dump |-> upstream[current], whole |-> FALSE]]
  /\ UNCHANGED <<upstreamVars, cached, lost, manifest, todo, fetchVars, buildVars,
                 startVars>>

CopyDone ==
  /\ pc = "copy"
  /\ pc' = "rename"
  /\ tmp' = [tmp EXCEPT ![current].whole = TRUE]
  /\ UNCHANGED <<upstreamVars, cached, lost, manifest, todo, fetchVars, buildVars,
                 startVars>>

\* Faulty: the error of io.Copy is dropped.
CopyErrorDropped ==
  /\ pc = "copy"
  /\ pc' = "rename"
  /\ UNCHANGED <<upstreamVars, fileVars, manifest, todo, fetchVars, buildVars,
                 startVars>>

\* The transfer breaks off or exceeds 60 seconds; the rename fails.
TransferFails ==
  /\ pc \in {"copy", "rename"}
  /\ tmp' = [tmp EXCEPT ![current] = NoFile]
  /\ FailAttempt
  /\ UNCHANGED <<upstreamVars, cached, lost, manifest, todo, current, buildVars,
                 startVars>>

Rename ==
  /\ pc = "rename"
  /\ pc' = "digest"
  /\ cached' = [cached EXCEPT ![current] = tmp[current]]
  /\ tmp' = [tmp EXCEPT ![current] = NoFile]
  /\ lost' = lost \ {current}
  /\ UNCHANGED <<upstreamVars, manifest, todo, fetchVars, buildVars, startVars>>

\* Faulty: the digest is of what the server has, not of the file.
DigestOfUpstream == upstream[current]

DigestOf == cached[current].dump

\* fileDigest reads the cached file back; if it cannot, the source has an
\* error although its new file stays.
Digest ==
  /\ pc = "digest"
  /\ pc' = "fetch"
  /\ \E r \in {[state |-> "ok", dump |-> DigestOf],
               [state |-> "undigested", dump |-> None]} :
       results' = [results EXCEPT ![current] = r]
  /\ UNCHANGED <<upstreamVars, fileVars, manifest, todo, current, attempts,
                 buildVars, startVars>>

-----------------------------------------------------------------------------
(* The steps after it *)

\* The snapshot is over, and what its commands had in memory is gone.
Ends(result) ==
  /\ pc' = result /\ todo' = {}
  /\ current' = None /\ attempts' = 0
  /\ results' = NoResults
  /\ imported' = {}

\* A command exits: the job goes on only after 0, a user may go on anyway.
Exit(ok, next, left) ==
  \/ /\ ok \/ ~fresh
     /\ pc' = next /\ todo' = left
     /\ UNCHANGED <<fetchVars, imported>>
  \/ ~ok /\ Ends("failed")

\* The fetch fails only when no source was fetched.
Fetched ==
  /\ pc = "fetch" /\ todo = {}
  /\ manifest' = results
  /\ Exit(\E s \in Sources : results[s].state = "ok", "build", Sources \ Skipped)
  /\ UNCHANGED <<upstreamVars, fileVars, index, startVars>>

\* Faulty: runFetch goes on when the manifest cannot be written.
ManifestErrorDropped ==
  /\ pc = "fetch" /\ todo = {}
  /\ pc' = "build"
  /\ todo' = Sources \ Skipped
  /\ UNCHANGED <<upstreamVars, fileVars, manifest, fetchVars, buildVars, startVars>>

\* The manifest cannot be written: it may be gone (WriteFile truncates).
ManifestFails ==
  /\ pc = "fetch" /\ todo = {}
  /\ manifest' \in {manifest, NoResults}
  /\ Exit(FALSE, "build", Sources \ Skipped)
  /\ UNCHANGED <<upstreamVars, fileVars, index, startVars>>

\* buildSource imports the cached file in one transaction.
Import(s) ==
  /\ pc = "build" /\ s \in todo
  /\ cached[s].whole /\ cached[s].dump \in Parsable
  /\ todo' = todo \ {s}
  /\ index' = [index EXCEPT ![s] = cached[s].dump]
  /\ imported' = imported \cup {s}
  /\ UNCHANGED <<upstreamVars, fileVars, manifest, pc, fetchVars, startVars>>

\* It fails, on a missing or a damaged file or on an error of the database;
\* recording that may fail too.
ImportFails(s) ==
  /\ pc = "build" /\ s \in todo
  /\ todo' = todo \ {s}
  /\ index' \in {index, [index EXCEPT ![s] = "failed"]}
  /\ UNCHANGED <<upstreamVars, fileVars, manifest, pc, fetchVars, imported,
                 startVars>>

Built ==
  /\ pc = "build" /\ todo = {}
  /\ Exit(imported # {}, "verify", {})
  /\ UNCHANGED <<upstreamVars, fileVars, manifest, index, startVars>>

\* Faulty: the objects are not counted.
CountsSources == \E s \in Sources : index[s] \in Dumps

\* The counts of runVerify: a source with ok = 1, and an object.  (No default
\* route is ever inserted.)
CountsOK == /\ \E s \in Sources : index[s] \in Dumps
            /\ \E s \in Sources : index[s] \in Dumps \ Empty

Verify ==
  /\ pc = "verify"
  /\ Exit(CountsOK, "compare", {})
  /\ UNCHANGED <<upstreamVars, fileVars, manifest, index, startVars>>

\* The report; the job uploads it with the database and the manifest.
Compare ==
  /\ pc = "compare"
  /\ \/ /\ fresh /\ pc' = "upload"
        /\ UNCHANGED <<todo, fetchVars, imported>>
     \/ ~fresh /\ Ends("passed")
     \/ Ends("failed")
  /\ UNCHANGED <<upstreamVars, fileVars, manifest, index, startVars>>

Upload ==
  /\ pc = "upload"
  /\ \E result \in {"passed", "failed"} : Ends(result)
  /\ UNCHANGED <<upstreamVars, fileVars, manifest, index, startVars>>

\* The machine stops.  Nothing syncs a file of the cache before or after its
\* rename, so any of them can be cut short; SQLite syncs its own.
MachineStops ==
  /\ starts < MaxStarts
  /\ pc \notin Over \cup {"idle"}
  /\ Ends("crashed")
  /\ \E S \in (SUBSET {s \in Unsynced : cached[s] # NoFile}) \ {{}} :
       /\ cached' = [s \in Sources |->
                       IF s \in S THEN [cached[s] EXCEPT !.whole = FALSE]
                       ELSE cached[s]]
       /\ lost' = lost \cup S
  /\ UNCHANGED <<upstreamVars, tmp, manifest, index, startVars>>

\* The process is killed.
Crash ==
  /\ pc \notin Over \cup {"idle"}
  /\ Ends("crashed")
  /\ UNCHANGED <<upstreamVars, fileVars, manifest, index, startVars>>

FetchNext ==
  \/ \E s \in Sources : BeginSource(s)
  \/ RequestFails
  \/ OpenTmp
  \/ CopyDone
  \/ TransferFails
  \/ Rename
  \/ Digest
  \/ Fetched
  \/ ManifestFails

Next ==
  \/ Publish
  \/ \E job \in BOOLEAN : Start(job)
  \/ FetchNext
  \/ \E s \in Sources : Import(s) \/ ImportFails(s)
  \/ Built
  \/ Verify
  \/ Compare
  \/ Upload
  \/ Crash
  \/ MachineStops

\* The fetch is sequential and each of its waits is cut off after 60 seconds.
Spec == Init /\ [][Next]_vars /\ WF_vars(FetchNext)

-----------------------------------------------------------------------------
(* Properties *)

\* Every variable has its type.
TypeOK ==
  /\ upstream \in [Sources -> Dumps] /\ published \in 0 .. MaxPublished
  /\ cached \in [Sources -> Files \cup {NoFile}]
  /\ tmp \in [Sources -> Files \cup {NoFile}]
  /\ before \in [Sources -> Files \cup {NoFile}]
  /\ lost \subseteq Sources
  /\ manifest \in [Sources -> Results] /\ results \in [Sources -> Results]
  /\ index \in [Sources -> Entries]
  /\ pc \in Fetching \cup Over
            \cup {"idle", "build", "verify", "compare", "upload"}
  /\ fresh \in BOOLEAN /\ starts \in 0 .. MaxStarts
  /\ todo \subseteq Sources /\ imported \subseteq Sources
  /\ current \in Sources \cup {None} /\ attempts \in 0 .. retryCount

\* A cached file is a whole dump, whatever transfer breaks off, whenever the
\* process is killed and whatever temporary file an earlier fetch left behind;
\* only a machine that stops can cut it short, and the next fetch of the source
\* makes it whole again (fetch.go 120-140).
CacheIsWhole ==
  \A s \in Sources \ lost : cached[s] # NoFile => cached[s].whole

\* When the fetch is over, the manifest's digest of a source is that of its
\* cached file, and a source that was not fetched still has the file it had
\* before, which the build then imports (fetch.go 47-72).
ManifestDescribesCache ==
  pc \in {"build", "verify", "compare", "upload"} =>
    \A s \in Sources :
      /\ results[s].state = "ok" =>
           cached[s] = [dump |-> results[s].dump, whole |-> TRUE]
      /\ results[s].state = "unfetched" => cached[s] = before[s]

\* The database and the manifest the job uploads belong together: a source the
\* database serves is in the manifest with the digest of the dump it was
\* imported from, or its digest could not be taken (irr-snapshot.yml 36-42).
ArtifactsAgree ==
  pc = "upload" =>
    \A s \in Sources : index[s] \in Dumps =>
      \/ manifest[s] = [state |-> "ok", dump |-> index[s]]
      \/ manifest[s].state = "undigested"

\* An uploaded snapshot holds the rows of a dump its own fetch brought, even
\* though commands pass when only one source went through (irr-snapshot.yml
\* 21-31, main.go 916, 966).
UploadHoldsRows ==
  pc = "upload" =>
    \E s \in imported : /\ index[s] \in Dumps \ Empty
                        /\ cached[s].dump = index[s]
                        /\ manifest[s].state \in {"ok", "undigested"}

\* Every fetch comes to an end, however often its sources fail (fetch.go
\* 81-91).
FetchEnds == pc \in Fetching ~> pc \notin Fetching
=============================================================================
