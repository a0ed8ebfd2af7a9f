---------------------------- MODULE Snapshot_proofs ----------------------------
(***************************************************************************)
(* Theorems about Snapshot, for any sources, dumps and number of           *)
(* snapshots and publications.                                             *)
(***************************************************************************)
EXTENDS Snapshot, TLAPS

USE SourcesAssumption, DumpsAssumption, BoundsAssumption
    DEF SourcesAssumption, DumpsAssumption, BoundsAssumption

-----------------------------------------------------------------------------
(* Types, and the files of a fetch *)

\* A source is being fetched.
Busy == {"get", "copy", "rename", "digest"}

FilesInv ==
  /\ TypeOK
  /\ CacheIsWhole
  /\ pc \in Busy => current \in Sources /\ attempts < retryCount
  \* what is renamed is a whole dump, and what is digested is one
  /\ pc \in {"copy", "rename"} => tmp[current] \in Files
  /\ pc = "rename" => tmp[current].whole
  /\ pc = "digest" => cached[current] \in Files /\ cached[current].whole

\* The manifest of no fetch is one.
LEMMA NoResultsType == NoResults \in [Sources -> Results]
<1>1. [state |-> "none", dump |-> None] \in Results
  BY DEF Results
<1> QED BY <1>1 DEF NoResults

\* What a snapshot that is over leaves in memory has its type.
LEMMA EndsType ==
  ASSUME NEW result \in Over, Ends(result)
  PROVE  /\ pc' = result /\ todo' = {} /\ imported' = {}
         /\ current' = None /\ attempts' = 0
         /\ results' \in [Sources -> Results]
  BY NoResultsType DEF Ends

LEMMA FilesInvStarts == Init => FilesInv
<1> SUFFICES ASSUME Init PROVE FilesInv
  OBVIOUS
<1>1. /\ upstream \in [Sources -> Dumps] /\ published \in 0 .. MaxPublished
      /\ cached \in [Sources -> Files \cup {NoFile}]
      /\ tmp \in [Sources -> Files \cup {NoFile}] /\ lost \subseteq Sources
      /\ before \in [Sources -> Files \cup {NoFile}]
  BY DEF Init
<1>2. manifest \in [Sources -> Results] /\ results \in [Sources -> Results]
  BY NoResultsType DEF Init
<1>3. index \in [Sources -> Entries] /\ pc = "idle" /\ fresh \in BOOLEAN
  BY DEF Init, Entries
<1>4. /\ starts \in 0 .. MaxStarts /\ todo \subseteq Sources /\ imported \subseteq Sources
      /\ current \in Sources \cup {None} /\ attempts \in 0 .. retryCount
  BY DEF Init, retryCount
<1>5. CacheIsWhole
  BY DEF Init, CacheIsWhole
<1> QED BY <1>1, <1>2, <1>3, <1>4, <1>5 DEF FilesInv, TypeOK, Busy

LEMMA FilesInvKept == FilesInv /\ [Next]_vars => FilesInv'
<1> SUFFICES ASSUME FilesInv, [Next]_vars PROVE FilesInv'
  OBVIOUS
<1> USE DEF FilesInv, TypeOK, CacheIsWhole, Busy, Fetching, Over, retryCount
<1>1. CASE Publish
  BY <1>1 DEF Publish, fileVars, fetchVars, buildVars, startVars
<1>2. ASSUME NEW job \in BOOLEAN, Start(job) PROVE FilesInv'
  <2>1. /\ cached' \in [Sources -> Files \cup {NoFile}] /\ before' = cached'
        /\ tmp' \in [Sources -> Files \cup {NoFile}]
        /\ lost' \subseteq Sources
        /\ \A s \in Sources \ lost' : cached'[s] # NoFile => cached'[s].whole
    BY <1>2 DEF Start, fileVars, CacheIsWhole
  <2>2. manifest' \in [Sources -> Results] /\ results' \in [Sources -> Results]
    BY <1>2, NoResultsType DEF Start
  <2>3. index' \in [Sources -> Entries]
    BY <1>2 DEF Start, Entries
  <2>4. /\ pc' = "fetch" /\ todo' = Sources /\ fresh' \in BOOLEAN /\ imported' = {}
        /\ starts' \in 0 .. MaxStarts /\ current' = None /\ attempts' = 0
        /\ UNCHANGED <<upstream, published>>
    BY <1>2 DEF Start, upstreamVars
  <2> QED BY <2>1, <2>2, <2>3, <2>4 DEF CacheIsWhole
<1>3. ASSUME NEW s \in Sources, BeginSource(s) PROVE FilesInv'
  BY <1>3 DEF BeginSource, upstreamVars, fileVars, buildVars, startVars
<1>4. CASE RequestFails \/ TransferFails
  <2>1. /\ FailAttempt /\ pc \in Busy
        /\ UNCHANGED <<upstreamVars, cached, lost, manifest, todo, current, buildVars,
                       startVars>>
    BY <1>4 DEF RequestFails, TransferFails
  <2>2. tmp' \in [Sources -> Files \cup {NoFile}]
    BY <1>4 DEF RequestFails, TransferFails
  <2>3. CASE attempts + 1 < retryCount
    BY <2>1, <2>2, <2>3 DEF FailAttempt, upstreamVars, buildVars, startVars
  <2>4. CASE ~(attempts + 1 < retryCount)
    <3>1. /\ attempts' \in 0 .. retryCount /\ pc' = "fetch"
          /\ results' = [results EXCEPT ![current] =
                           [state |-> "unfetched", dump |-> None]]
          /\ UNCHANGED <<upstreamVars, cached, lost, manifest, todo, current, buildVars,
                         startVars>>
      BY <2>1, <2>4 DEF FailAttempt
    <3>2. [state |-> "unfetched", dump |-> None] \in Results
      BY DEF Results
    <3>3. results' \in [Sources -> Results]
      BY <2>1, <3>1, <3>2
    <3> QED BY <2>2, <3>1, <3>3 DEF upstreamVars, buildVars, startVars, CacheIsWhole
  <2> QED BY <2>3, <2>4
<1>5. CASE OpenTmp
  BY <1>5 DEF OpenTmp, upstreamVars, fetchVars, buildVars, startVars, Files
<1>6. CASE CopyDone
  BY <1>6 DEF CopyDone, upstreamVars, fetchVars, buildVars, startVars, Files
<1>7. CASE Rename
  BY <1>7 DEF Rename, upstreamVars, fetchVars, buildVars, startVars
<1>8. CASE Digest
  BY <1>8 DEF Digest, upstreamVars, fileVars, buildVars, startVars, DigestOf, Results, Files
<1>9. CASE Fetched \/ ManifestFails \/ Built \/ Verify \/ Compare \/ Upload \/ Crash
  <2>1. /\ UNCHANGED <<upstreamVars, fileVars, index, startVars>>
        /\ manifest' \in {manifest, results, NoResults}
        /\ \/ \E result \in Over : Ends(result)
           \/ /\ pc' \in {"build", "verify", "compare", "upload"}
              /\ todo' \in {todo, {}, Sources \ Skipped}
              /\ UNCHANGED <<fetchVars, imported>>
    BY <1>9 DEF Fetched, ManifestFails, Built, Verify, Compare, Upload, Crash, Exit
  <2>2. /\ pc' \in Over \cup {"build", "verify", "compare", "upload"}
        /\ todo' \subseteq Sources /\ imported' \subseteq Sources
        /\ current' \in Sources \cup {None} /\ attempts' \in 0 .. retryCount
        /\ results' \in [Sources -> Results]
    BY <2>1, EndsType DEF fetchVars
  <2>3. manifest' \in [Sources -> Results]
    BY <2>1, NoResultsType
  <2> QED BY <2>1, <2>2, <2>3 DEF upstreamVars, fileVars, startVars
<1>10. ASSUME NEW s \in Sources, Import(s) \/ ImportFails(s) PROVE FilesInv'
  BY <1>10 DEF Import, ImportFails, upstreamVars, fileVars, fetchVars, startVars, Entries
<1>11. CASE MachineStops
  <2>1. /\ UNCHANGED <<upstreamVars, tmp, manifest, index, startVars>>
        /\ Ends("crashed")
    BY <1>11 DEF MachineStops
  <2>2. PICK S \in (SUBSET {s \in Unsynced : cached[s] # NoFile}) \ {{}} :
          /\ cached' = [s \in Sources |->
                          IF s \in S THEN [cached[s] EXCEPT !.whole = FALSE]
                          ELSE cached[s]]
          /\ lost' = lost \cup S
    BY <1>11 DEF MachineStops
  <2>3. ASSUME NEW s \in Sources
        PROVE  /\ cached'[s] \in Files \cup {NoFile}
               /\ s \notin lost' => cached'[s] = cached[s]
    <3>1. CASE s \in S
      <4>1. cached[s] \in Files
        BY <2>2, <3>1
      <4> QED BY <2>2, <3>1, <4>1 DEF Files
    <3>2. CASE s \notin S
      BY <2>2, <3>2
    <3> QED BY <3>1, <3>2
  <2>4. cached' \in [Sources -> Files \cup {NoFile}] /\ lost' \subseteq Sources
    BY <2>2, <2>3, SourcesAssumption
  <2>5. CacheIsWhole'
    BY <2>2, <2>3 DEF CacheIsWhole
  <2>6. /\ pc' = "crashed" /\ todo' = {} /\ imported' = {}
        /\ current' = None /\ attempts' = 0
        /\ results' \in [Sources -> Results]
    BY <2>1, EndsType
  <2> QED BY <2>1, <2>4, <2>5, <2>6 DEF upstreamVars, startVars
<1>12. CASE UNCHANGED vars
  BY <1>12 DEF vars, upstreamVars, fileVars, fetchVars, buildVars, startVars
<1> QED
  BY <1>1, <1>2, <1>3, <1>4, <1>5, <1>6, <1>7, <1>8, <1>9, <1>10, <1>11, <1>12
  DEF Next, FetchNext

-----------------------------------------------------------------------------
(* What the manifest and the database say of the files *)

After == {"build", "verify", "compare", "upload"}

\* What a result says of the cached file of its source.
Describes(s) ==
  /\ results[s].state = "ok" => cached[s] = [dump |-> results[s].dump, whole |-> TRUE]
  /\ results[s].state \in {"none", "unfetched"} =>
       cached[s] = before[s] \/ (pc = "digest" /\ s = current)

FetchInv ==
  /\ pc \in Fetching \cup After => \A s \in Sources : Describes(s)
  /\ pc \in Fetching => \A s \in todo : results[s].state = "none"
  /\ pc \in Busy => results[current].state = "none" /\ current \notin todo

LEMMA FetchInvKept == FilesInv /\ FetchInv /\ [Next]_vars => FetchInv'
<1> SUFFICES ASSUME FilesInv, FetchInv, [Next]_vars PROVE FetchInv'
  OBVIOUS
<1> USE DEF FetchInv, Describes, Busy, Fetching, After, Over
<1>0. TypeOK /\ (pc \in Busy => current \in Sources)
  BY DEF FilesInv
<1>1. CASE Publish
  BY <1>1 DEF Publish, fileVars, fetchVars, buildVars, startVars
<1>2. ASSUME NEW job \in BOOLEAN, Start(job) PROVE FetchInv'
  BY <1>2 DEF Start, NoResults
<1>3. ASSUME NEW s \in Sources, BeginSource(s) PROVE FetchInv'
  BY <1>3 DEF BeginSource, fileVars, startVars
<1>4. CASE RequestFails \/ TransferFails
  <2>1. /\ FailAttempt /\ pc \in {"get", "copy", "rename"}
        /\ UNCHANGED <<cached, before, todo, current>>
    BY <1>4 DEF RequestFails, TransferFails, startVars
  <2>2. CASE attempts + 1 < retryCount
    BY <2>1, <2>2 DEF FailAttempt
  <2>3. CASE ~(attempts + 1 < retryCount)
    BY <1>0, <2>1, <2>3 DEF FailAttempt, TypeOK
  <2> QED BY <2>2, <2>3
<1>5. CASE OpenTmp \/ CopyDone
  BY <1>5 DEF OpenTmp, CopyDone, fetchVars, startVars
<1>6. CASE Rename
  BY <1>0, <1>6 DEF Rename, fetchVars, startVars, TypeOK
<1>7. CASE Digest
  <2>1. cached[current].whole /\ cached[current] \in Files /\ current \in Sources
    BY <1>7 DEF Digest, FilesInv, CacheIsWhole, NoFile, Files
  <2>2. cached[current] = [dump |-> cached[current].dump, whole |-> TRUE]
    BY <2>1 DEF Files
  <2> QED BY <1>0, <1>7, <2>1, <2>2 DEF Digest, DigestOf, fileVars, startVars, TypeOK
<1>8. CASE Fetched \/ ManifestFails \/ Built \/ Verify \/ Compare \/ Upload
  <2>1. /\ UNCHANGED <<fileVars, startVars>>
        /\ \/ pc' \in Over
           \/ /\ pc \in {"fetch"} \cup After /\ pc' \in After
              /\ UNCHANGED fetchVars
    BY <1>8 DEF Fetched, ManifestFails, Built, Verify, Compare, Upload, Exit, Ends
  <2> QED BY <2>1 DEF fileVars, fetchVars, startVars
<1>9. ASSUME NEW s \in Sources, Import(s) \/ ImportFails(s) PROVE FetchInv'
  BY <1>9 DEF Import, ImportFails, fileVars, fetchVars, startVars
<1>10. CASE Crash \/ MachineStops
  BY <1>10 DEF Crash, MachineStops, Ends
<1>11. CASE UNCHANGED vars
  BY <1>11 DEF vars, fileVars, fetchVars, startVars
<1> QED
  BY <1>1, <1>2, <1>3, <1>4, <1>5, <1>6, <1>7, <1>8, <1>9, <1>10, <1>11
  DEF Next, FetchNext

\* The job on its fresh machine: the database holds only what its build has
\* imported from the cache, and the manifest is that of its fetch.
JobInv ==
  /\ fresh /\ pc \in Fetching \cup After => before = [s \in Sources |-> NoFile]
  /\ fresh /\ pc \in Fetching => index = [s \in Sources |-> "none"]
  /\ fresh /\ pc \in After =>
       /\ manifest = results
       /\ \A s \in Sources : index[s] \in Dumps =>
            s \in imported /\ cached[s].dump = index[s]
  /\ pc = "compare" /\ fresh => CountsOK
  /\ pc = "upload" => CountsOK /\ fresh

LEMMA JobInvKept == FilesInv /\ JobInv /\ [Next]_vars => JobInv'
<1> SUFFICES ASSUME FilesInv, JobInv, [Next]_vars PROVE JobInv'
  OBVIOUS
<1> USE DEF JobInv, Fetching, After, Over, CountsOK
<1>1. CASE Publish
  BY <1>1 DEF Publish, fileVars, fetchVars, buildVars, startVars
<1>2. ASSUME NEW job \in BOOLEAN, Start(job) PROVE JobInv'
  BY <1>2 DEF Start, fileVars
<1>3. ASSUME NEW s \in Sources, BeginSource(s) PROVE JobInv'
  BY <1>3 DEF BeginSource, buildVars, startVars
<1>4. CASE RequestFails \/ TransferFails
  BY <1>4 DEF RequestFails, TransferFails, FailAttempt, buildVars, startVars
<1>5. CASE OpenTmp \/ CopyDone \/ Rename \/ Digest
  BY <1>5 DEF OpenTmp, CopyDone, Rename, Digest, buildVars, startVars
<1>6. CASE Fetched \/ ManifestFails
  <2>1. /\ pc = "fetch"
        /\ UNCHANGED <<fileVars, index, startVars>>
        /\ \/ pc' = "failed"
           \/ pc' = "build" /\ UNCHANGED <<results, imported>>
        /\ fresh /\ pc' = "build" => manifest' = results
    BY <1>6 DEF Fetched, ManifestFails, Exit, Ends, startVars, fetchVars
  <2> QED BY <2>1 DEF fileVars, startVars
<1>7. ASSUME NEW s \in Sources, Import(s) PROVE JobInv'
  BY <1>7 DEF Import, fileVars, fetchVars, startVars, FilesInv, TypeOK
<1>8. ASSUME NEW s \in Sources, ImportFails(s) PROVE JobInv'
  BY <1>8 DEF ImportFails, fileVars, fetchVars, startVars, FilesInv, TypeOK
<1>9. CASE Built \/ Verify \/ Compare \/ Upload \/ Crash \/ MachineStops
  <2>1. CASE pc' \in Over
    BY <2>1
  <2>2. CASE pc' \notin Over
    <3>1. /\ UNCHANGED <<fileVars, manifest, index, startVars, results, imported>>
          /\ \/ pc = "build" /\ pc' = "verify"
             \/ pc = "verify" /\ pc' = "compare" /\ (fresh => CountsOK)
             \/ pc = "compare" /\ pc' = "upload" /\ fresh
      BY <1>9, <2>2 DEF Built, Verify, Compare, Upload, Crash, MachineStops, Exit, Ends,
                        fetchVars
    <3> QED BY <3>1 DEF fileVars, startVars
  <2> QED BY <2>1, <2>2
<1>10. CASE UNCHANGED vars
  BY <1>10 DEF vars, fileVars, fetchVars, buildVars, startVars
<1> QED
  BY <1>1, <1>2, <1>3, <1>4, <1>5, <1>6, <1>7, <1>8, <1>9, <1>10 DEF Next, FetchNext

-----------------------------------------------------------------------------
(* Theorems *)

SnapshotInv == FilesInv /\ FetchInv /\ JobInv

LEMMA SnapshotInvHolds == Spec => []SnapshotInv
<1>1. Init => SnapshotInv
  BY FilesInvStarts
  DEF Init, SnapshotInv, FetchInv, JobInv, Fetching, After, Busy
<1>2. SnapshotInv /\ [Next]_vars => SnapshotInv'
  BY FilesInvKept, FetchInvKept, JobInvKept DEF SnapshotInv
<1> QED BY <1>1, <1>2, PTL DEF Spec

\* A source with rows of a dump was fetched: before the fetch the job's machine
\* had no file of it.
LEMMA ManifestOfUploaded ==
  ASSUME SnapshotInv, pc = "upload", NEW s \in Sources, index[s] \in Dumps
  PROVE  \/ manifest[s] = [state |-> "ok", dump |-> index[s]]
         \/ manifest[s].state = "undigested"
<1>1. manifest = results /\ cached[s].dump = index[s] /\ before[s] = NoFile
  BY DEF SnapshotInv, JobInv, After
<1>2. cached[s] # before[s]
  BY <1>1 DEF NoFile
<1>3. Describes(s) /\ results[s] \in Results
  BY DEF SnapshotInv, FilesInv, TypeOK, FetchInv, After
<1>4. results[s].state \in {"ok", "undigested"}
  BY <1>2, <1>3 DEF Describes, Results
<1>5. ASSUME results[s].state = "ok" PROVE results[s] = [state |-> "ok", dump |-> index[s]]
  BY <1>1, <1>3, <1>5 DEF Describes, Results
<1> QED BY <1>1, <1>4, <1>5

\* Every variable has its type.
THEOREM TypeCorrect == Spec => []TypeOK
<1>1. SnapshotInv => TypeOK
  BY DEF SnapshotInv, FilesInv
<1> QED BY <1>1, SnapshotInvHolds, PTL

\* Only whole dumps get into the cache, whatever breaks off or is killed, and
\* they stay whole unless the machine stops (fetch.go 120-140).
THEOREM CacheIsWholeHolds == Spec => []CacheIsWhole
<1>1. SnapshotInv => CacheIsWhole
  BY DEF SnapshotInv, FilesInv
<1> QED BY <1>1, SnapshotInvHolds, PTL

\* After a fetch the digests are those of the cached files, and a source that
\* was not fetched has the file it had (fetch.go 47-72).
THEOREM ManifestDescribesCacheHolds == Spec => []ManifestDescribesCache
<1>1. SnapshotInv => ManifestDescribesCache
  BY DEF SnapshotInv, FetchInv, Describes, ManifestDescribesCache, After
<1> QED BY <1>1, SnapshotInvHolds, PTL

\* The manifest the job uploads has the digest of every dump the database
\* serves, where one could be taken (irr-snapshot.yml 36-42).
THEOREM ArtifactsAgreeHolds == Spec => []ArtifactsAgree
<1>1. ASSUME SnapshotInv, pc = "upload", NEW s \in Sources, index[s] \in Dumps
      PROVE  \/ manifest[s] = [state |-> "ok", dump |-> index[s]]
             \/ manifest[s].state = "undigested"
  BY <1>1, ManifestOfUploaded
<1>2. SnapshotInv => ArtifactsAgree
  BY <1>1 DEF ArtifactsAgree
<1> QED BY <1>2, SnapshotInvHolds, PTL

\* An uploaded database has a row of a dump that its own fetch brought
\* (irr-snapshot.yml 21-31).
THEOREM UploadHoldsRowsHolds == Spec => []UploadHoldsRows
<1>1. ASSUME SnapshotInv, pc = "upload" PROVE UploadHoldsRows
  <2>1. CountsOK
    BY <1>1 DEF SnapshotInv, JobInv
  <2>2. PICK s \in Sources : index[s] \in Dumps \ Empty
    BY <2>1 DEF CountsOK
  <2>3. s \in imported /\ cached[s].dump = index[s]
    BY <1>1, <2>2 DEF SnapshotInv, JobInv, After
  <2>4. \/ manifest[s] = [state |-> "ok", dump |-> index[s]]
        \/ manifest[s].state = "undigested"
    BY <1>1, <2>2, ManifestOfUploaded
  <2>5. manifest[s].state \in {"ok", "undigested"}
    BY <2>4
  <2> QED BY <2>2, <2>3, <2>5 DEF UploadHoldsRows
<1>2. SnapshotInv => UploadHoldsRows
  BY <1>1 DEF UploadHoldsRows
<1> QED BY <1>2, SnapshotInvHolds, PTL
=============================================================================
