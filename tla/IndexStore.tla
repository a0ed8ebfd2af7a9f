----------------------------- MODULE IndexStore -----------------------------
(***************************************************************************)
(* The SQLite index of irrindex and the "build" command that fills it      *)
(* (internal/store/store.go, schema.sql, runBuild and buildSource in       *)
(* cmd/irrindex/main.go).  Any number of builds may run on one database    *)
(* file; each imports its sources one after the other, every source in a   *)
(* transaction of its own: upsert the source row, delete the old objects,  *)
(* insert the records of the dump.  A bad record, a failing statement, a   *)
(* busy database or a crash can end the transaction at any point.  A COMMIT *)
(* that fails may leave it open on the one connection the build has, which *)
(* then holds the write lock until the process ends.                       *)
(*                                                                         *)
(* A record of a dump is reduced to its fate in the insert loop, its       *)
(* prefix (or address range) and its attributes.  Object ids are SQLite    *)
(* rowids: one more than the largest in use, so the ids of deleted objects *)
(* come back.                                                              *)
(***************************************************************************)
EXTENDS Naturals, Sequences, FiniteSets

CONSTANTS
  Names,       \* names of the configured sources
  Skipped,     \* those with only unsupported object types
  Builds,      \* build processes
  Prefixes, Attributes,
  Dumps,       \* cached files: sequences of records
  DumpsOf,     \* source -> dumps its cached file can hold
  Missing, Failed,  \* entries of SourceIndex: no row, a row with ok = 0
  NoName,      \* no source
  NoLock,      \* nobody holds the write lock of the database
  MaxBuilds    \* bound: starts of build processes, restarts included

Fates == {"row", "other", "default", "bad"}
Records == [fate : Fates, prefix : Prefixes, attrs : SUBSET Attributes]

ASSUME DumpsAssumption ==
  /\ Dumps \subseteq Seq(Records)
  /\ DumpsOf \in [Names -> SUBSET Dumps]
  /\ NoName \notin Names /\ NoLock \notin Builds
ASSUME BoundAssumption == MaxBuilds \in Nat

VARIABLES
  sources,     \* committed: source -> state of its row in table sources
  objects,     \* committed: object id -> its source and prefix
  attrs,       \* committed: pairs of an object id and an attribute
  lock,        \* the build whose connection holds the write lock
  work,        \* build -> the database as its open transaction sees it
  pc,          \* where a build is
  todo,        \* sources a build has yet to import
  current,     \* the source it is importing
  dump,        \* the records of that source's file
  pos,         \* the next record to insert
  errors,      \* sources it reported as "error" on stdout
  wins,        \* number of sources it imported
  starts       \* build processes started so far

dbVars == <<sources, objects, attrs>>
txVars == <<lock, work, dump, pos>>
vars == <<sources, objects, attrs, lock, work, pc, todo, current, dump, pos,
          errors, wins, starts>>

States == {"none", "ok", "failed"}
Owned == [source : Names, prefix : Prefixes]

\* The database as a value.
DB == [sources |-> sources, objects |-> objects, attrs |-> attrs]

\* The value of work outside a transaction.
NoTx == [sources |-> [n \in Names |-> "none"], objects |-> <<>>, attrs |-> {}]

-----------------------------------------------------------------------------
(* Statements *)

\* The row of a source is inserted if need be, and its state set.
Marked(db, n, state) ==
  [sources |-> [db.sources EXCEPT ![n] = state],
   objects |-> db.objects, attrs |-> db.attrs]

\* Faulty: the objects go but their attributes stay (foreign_keys off).
WithoutCascade(db, n) ==
  LET kept == {i \in DOMAIN db.objects : db.objects[i].source # n}
  IN  [sources |-> db.sources, objects |-> [i \in kept |-> db.objects[i]],
       attrs |-> db.attrs]

\* DELETE FROM objects WHERE source_id = ?, with ON DELETE CASCADE.
WithoutObjectsOf(db, n) ==
  LET kept == {i \in DOMAIN db.objects : db.objects[i].source # n}
  IN  [sources |-> db.sources, objects |-> [i \in kept |-> db.objects[i]],
       attrs |-> {a \in db.attrs : a[1] \in kept}]

\* Faulty: the old objects of the source are not deleted.
ClearedNothing(db, n) == Marked(db, n, "ok")

\* upsertSource followed by replaceSourceObjects.
Cleared(db, n) == WithoutObjectsOf(Marked(db, n, "ok"), n)

\* Faulty: RecordSourceError does not delete the old objects.
MarkedOnly(db, n) == Marked(db, n, "failed")

\* The UPDATE of RecordSourceError on top of both.
MarkedFailed(db, n) == Marked(Cleared(db, n), n, "failed")

\* The rowid SQLite gives: the largest in use plus one.
IsNewId(o, id) ==
  /\ id \in Nat \ {0}
  /\ \A i \in DOMAIN o : i < id
  /\ id = 1 \/ id - 1 \in DOMAIN o

Ids(o) == {1} \cup {i + 1 : i \in DOMAIN o}

\* One record that makes a row: the object and its attributes.
WithRow(db, id, n, rec) ==
  [sources |-> db.sources,
   objects |-> [i \in DOMAIN db.objects \cup {id} |->
                  IF i = id THEN [source |-> n, prefix |-> rec.prefix]
                  ELSE db.objects[i]],
   attrs |-> db.attrs \cup {<<id, a>> : a \in rec.attrs}]

-----------------------------------------------------------------------------

Init ==
  /\ sources = [n \in Names |-> "none"]
  /\ objects = <<>>
  /\ attrs = {}
  /\ lock = NoLock
  /\ work = [b \in Builds |-> NoTx]
  /\ pc = [b \in Builds |-> "idle"]
  /\ todo = [b \in Builds |-> {}]
  /\ current = [b \in Builds |-> NoName]
  /\ dump = [b \in Builds |-> <<>>]
  /\ pos = [b \in Builds |-> 1]
  /\ errors = [b \in Builds |-> {}]
  /\ wins = [b \in Builds |-> 0]
  /\ starts = 0

Goto(b, from, to) == pc[b] = from /\ pc' = [pc EXCEPT ![b] = to]

\* irrindex build; store.Open creates the tables that are missing.
Start(b) ==
  /\ pc[b] \in {"idle", "passed", "failed", "crashed"} /\ starts < MaxBuilds
  /\ pc' = [pc EXCEPT ![b] = "loop"]
  /\ todo' = [todo EXCEPT ![b] = Names \ Skipped]
  /\ errors' = [errors EXCEPT ![b] = {}]
  /\ wins' = [wins EXCEPT ![b] = 0]
  /\ starts' = starts + 1
  /\ UNCHANGED <<dbVars, txVars, current>>

\* The next source's cached file is opened, unzipped and parsed.
ReadDump(b, n, d) ==
  /\ n \in todo[b] /\ d \in DumpsOf[n]
  /\ Goto(b, "loop", "begin")
  /\ current' = [current EXCEPT ![b] = n]
  /\ dump' = [dump EXCEPT ![b] = d]
  /\ todo' = [todo EXCEPT ![b] = @ \ {n}]
  /\ UNCHANGED <<dbVars, lock, work, pos, errors, wins, starts>>

\* There is no such file, or it is no gzip, or it does not parse.
ReadFails(b, n) ==
  /\ n \in todo[b]
  /\ Goto(b, "loop", "record")
  /\ current' = [current EXCEPT ![b] = n]
  /\ todo' = [todo EXCEPT ![b] = @ \ {n}]
  /\ UNCHANGED <<dbVars, txVars, errors, wins, starts>>

\* The first write of the transaction takes the lock of the database.
BeginImport(b) ==
  /\ Goto(b, "begin", "insert")
  /\ lock = NoLock
  /\ lock' = b
  /\ work' = [work EXCEPT ![b] = Cleared(DB, current[b])]
  /\ pos' = [pos EXCEPT ![b] = 1]
  /\ UNCHANGED <<dbVars, todo, current, dump, errors, wins, starts>>

\* SQLITE_BUSY, or the database cannot be written.
BeginFails(b) ==
  /\ Goto(b, "begin", "record")
  /\ UNCHANGED <<dbVars, txVars, todo, current, errors, wins, starts>>

\* One record of the dump: it makes a row, or it is of another object type
\* or a default route and is dropped.
InsertRecord(b) ==
  /\ pc[b] = "insert" /\ pos[b] <= Len(dump[b])
  /\ LET rec == dump[b][pos[b]]
     IN \/ /\ rec.fate = "row"
           /\ \E id \in Ids(work[b].objects) :
                /\ IsNewId(work[b].objects, id)
                /\ work' = [work EXCEPT ![b] =
                              WithRow(@, id, current[b], rec)]
        \/ rec.fate \in {"other", "default"} /\ UNCHANGED work
  /\ pos' = [pos EXCEPT ![b] = @ + 1]
  /\ UNCHANGED <<dbVars, lock, pc, todo, current, dump, errors, wins, starts>>

\* Faulty: no deferred Rollback.
RollBackForgotten(b) ==
  /\ Goto(b, "insert", "record")
  /\ UNCHANGED <<dbVars, txVars, todo, current, errors, wins, starts>>

\* The copy of a transaction and its place in the dump are gone.
Forget(b) ==
  /\ work' = [work EXCEPT ![b] = NoTx]
  /\ dump' = [dump EXCEPT ![b] = <<>>]
  /\ pos' = [pos EXCEPT ![b] = 1]

\* Whatever transaction is open on the connection of the build ends.
Release(b) == lock' = IF lock = b THEN NoLock ELSE lock

EndTx(b) == Release(b) /\ Forget(b)

\* A record cannot be normalised, or a statement fails: the deferred Rollback
\* releases the lock.
RollBack(b) ==
  /\ Goto(b, "insert", "record")
  /\ EndTx(b)
  /\ UNCHANGED <<dbVars, todo, current, errors, wins, starts>>

\* COMMIT fails.  database/sql takes the transaction for done all the same, so
\* the deferred Rollback sends nothing; SQLite has ended the transaction, or
\* (a busy database) it stays open on the connection, lock and all.
CommitFails(b) ==
  /\ Goto(b, "insert", "record")
  /\ pos[b] = Len(dump[b]) + 1
  /\ lock' \in {NoLock, b}
  /\ Forget(b)
  /\ UNCHANGED <<dbVars, todo, current, errors, wins, starts>>

Commit(b) ==
  /\ Goto(b, "insert", "loop")
  /\ pos[b] = Len(dump[b]) + 1
  /\ sources' = work[b].sources
  /\ objects' = work[b].objects
  /\ attrs' = work[b].attrs
  /\ EndTx(b)
  /\ wins' = [wins EXCEPT ![b] = @ + 1]
  /\ UNCHANGED <<todo, current, errors, starts>>

\* RecordSourceError: one transaction, whose first write takes the lock.
RecordError(b) ==
  /\ Goto(b, "record", "loop")
  /\ lock = NoLock
  /\ LET db == MarkedFailed(DB, current[b])
     IN /\ sources' = db.sources
        /\ objects' = db.objects
        /\ attrs' = db.attrs
  /\ errors' = [errors EXCEPT ![b] = @ \cup {current[b]}]
  /\ UNCHANGED <<txVars, todo, current, wins, starts>>

\* That transaction fails too, which is only printed.  It is its COMMIT that
\* fails, and leaves it open, if the lock is taken.
RecordFails(b) ==
  /\ Goto(b, "record", "loop")
  /\ lock' = lock \/ (lock = NoLock /\ lock' = b)
  /\ errors' = [errors EXCEPT ![b] = @ \cup {current[b]}]
  /\ UNCHANGED <<dbVars, work, dump, pos, todo, current, wins, starts>>

\* The exit status: 0 when at least one source was imported.  The deferred
\* Close ends what is open on the connection.
Finish(b) ==
  /\ todo[b] = {}
  /\ Goto(b, "loop", IF wins[b] > 0 THEN "passed" ELSE "failed")
  /\ Release(b)
  /\ UNCHANGED <<dbVars, work, dump, pos, todo, current, errors, wins, starts>>

\* The process dies; the next to open the file rolls its journal back.
Crash(b) ==
  /\ pc[b] \in {"loop", "begin", "insert", "record"}
  /\ pc' = [pc EXCEPT ![b] = "crashed"]
  /\ EndTx(b)
  /\ UNCHANGED <<dbVars, todo, current, errors, wins, starts>>

BuildNext(b) ==
  \/ Start(b)
  \/ \E n \in Names, d \in Dumps : ReadDump(b, n, d)
  \/ \E n \in Names : ReadFails(b, n)
  \/ BeginImport(b)
  \/ BeginFails(b)
  \/ InsertRecord(b)
  \/ RollBack(b)
  \/ CommitFails(b)
  \/ Commit(b)
  \/ RecordError(b)
  \/ RecordFails(b)
  \/ Finish(b)
  \/ Crash(b)

Next == \E b \in Builds : BuildNext(b)

Spec == Init /\ [][Next]_vars

-----------------------------------------------------------------------------
(* Refinement of SourceIndex *)

\* The rows the import of a whole dump makes.
RowsOf(d) ==
  {<<d[i].prefix, d[i].attrs>> : i \in {j \in DOMAIN d : d[j].fate = "row"}}

Importable(d) == \A i \in DOMAIN d : d[i].fate # "bad"

AttrsOf(db, id) == {a[2] : a \in {x \in db.attrs : x[1] = id}}

RowsIn(db, n) ==
  {<<db.objects[i].prefix, AttrsOf(db, i)>> :
     i \in {j \in DOMAIN db.objects : db.objects[j].source = n}}

\* What a reader finds under a source.
Published(db, n) ==
  CASE db.sources[n] = "none" -> Missing
    [] db.sources[n] = "failed" -> Failed
    [] OTHER -> RowsIn(db, n)

EntriesOf(n) == {RowsOf(d) : d \in {x \in DumpsOf[n] : Importable(x)}}

Abstract == INSTANCE SourceIndex WITH
  Names <- Names,
  Entries <- [n \in Names |-> EntriesOf(n)],
  Missing <- Missing,
  Failed <- Failed,
  published <- [n \in Names |-> Published(DB, n)]

-----------------------------------------------------------------------------
(* Properties *)

IsDB(db) ==
  /\ db = [sources |-> db.sources, objects |-> db.objects, attrs |-> db.attrs]
  /\ db.sources \in [Names -> States]
  /\ DOMAIN db.objects \subseteq Nat
  /\ db.objects \in [DOMAIN db.objects -> Owned]
  /\ db.attrs \subseteq Nat \X Attributes

\* Every variable has its type.
TypeOK ==
  /\ IsDB(DB)
  /\ lock \in Builds \cup {NoLock}
  /\ work = [b \in Builds |-> work[b]] /\ \A b \in Builds : IsDB(work[b])
  /\ pc \in [Builds -> {"idle", "loop", "begin", "insert", "record", "passed",
                        "failed", "crashed"}]
  /\ todo \in [Builds -> SUBSET Names]
  /\ current \in [Builds -> Names \cup {NoName}]
  /\ dump \in [Builds -> Dumps \cup {<<>>}]
  /\ pos \in [Builds -> Nat \ {0}]
  /\ errors \in [Builds -> SUBSET Names]
  /\ wins \in [Builds -> Nat]
  /\ starts \in 0 .. MaxBuilds

\* No attribute outlives its object: an id that comes back would hand it to
\* an object of another source (schema.sql 27, store.go 256).
AttrsOwned == \A a \in attrs : a[1] \in DOMAIN objects

\* Only a source whose import went through holds objects, so a query that
\* forgot the ok column would still answer right (store.go 56-75, 77-136).
OnlyOkSourcesHoldObjects ==
  \A i \in DOMAIN objects : sources[objects[i].source] = "ok"

\* The build holds the write lock and is not importing.
HeldOutside(b) == lock = b /\ pc[b] # "insert"

\* A source that is given up before its COMMIT does not block the sources and
\* builds that follow: the write lock outlives an import only when a COMMIT,
\* its own or that of its error row, has failed, and then no longer than the
\* process (store.go 62, 82, 143; main.go 897).
LockReleased ==
  [][\A b \in Builds : HeldOutside(b)' =>
       /\ pc'[b] \in {"loop", "begin", "record"}
       /\ \/ HeldOutside(b)
          \/ pc[b] = "insert" /\ pos[b] > Len(dump[b])
          \/ pc[b] = "record"]_vars

\* Readers always find whole imports: no mixture of an old and a new dump, no
\* part of one, nothing of one source under another, whatever fails, crashes
\* or runs at the same time (store.go 77-195).
ImplementsSourceIndex == Abstract!Spec

\* docs/bulk-db-augment-plan.md says of build: "If one non-critical source
\* fails, write `ok=0` in `sources` and continue."  So after a build that
\* exits 0, with no other build around, no source it reported as failed is
\* still served as ok (main.go 906-911).
FailuresAreMarked ==
  \A b \in Builds : pc[b] = "passed" =>
    \A n \in errors[b] : sources[n] # "ok"
=============================================================================
