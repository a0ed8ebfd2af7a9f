------------------------- MODULE IndexStore_proofs -------------------------
(***************************************************************************)
(* Proofs about IndexStore for any sources, dumps and builds: the index    *)
(* holds only whole imports, and it implements SourceIndex.                *)
(***************************************************************************)
EXTENDS IndexStore, TLAPS

-----------------------------------------------------------------------------
(* What the statements do to a database value *)

Owning(db) == \A a \in db.attrs : a[1] \in DOMAIN db.objects
OnlyOk(db) == \A i \in DOMAIN db.objects : db.sources[db.objects[i].source] = "ok"
Sound(db) == IsDB(db) /\ Owning(db) /\ OnlyOk(db)

LEMMA NoTxSound == Sound(NoTx)
<1>1. NoTx.objects = <<>> /\ DOMAIN NoTx.objects = {}
  BY DEF NoTx
<1>2. NoTx.objects \in [DOMAIN NoTx.objects -> Owned]
  BY <1>1
<1>3. NoTx.sources \in [Names -> States] /\ NoTx.attrs = {}
  BY DEF NoTx, States
<1>4. NoTx = [sources |-> NoTx.sources, objects |-> NoTx.objects,
              attrs |-> NoTx.attrs]
  BY DEF NoTx
<1> QED BY <1>1, <1>2, <1>3, <1>4 DEF Sound, IsDB, Owning, OnlyOk

\* Clearing a source leaves a sound database without its objects, in which
\* every other source reads as before.
LEMMA ClearedSound ==
  ASSUME NEW db, Sound(db), NEW n \in Names
  PROVE  /\ Sound(Cleared(db, n))
         /\ Cleared(db, n).sources[n] = "ok"
         /\ \A i \in DOMAIN Cleared(db, n).objects :
              Cleared(db, n).objects[i].source # n
         /\ \A m \in Names \ {n} : Published(Cleared(db, n), m) = Published(db, m)
<1> DEFINE kept == {i \in DOMAIN db.objects : db.objects[i].source # n}
           new == Cleared(db, n)
<1>1. /\ new.sources = [db.sources EXCEPT ![n] = "ok"]
      /\ new.objects = [i \in kept |-> db.objects[i]]
      /\ new.attrs = {a \in db.attrs : a[1] \in kept}
      /\ new = [sources |-> new.sources, objects |-> new.objects,
                attrs |-> new.attrs]
  BY DEF Cleared, WithoutObjectsOf, Marked
<1> HIDE DEF new
<1>2. IsDB(new)
  BY <1>1 DEF Sound, IsDB, States
<1>3. Owning(new)
  BY <1>1 DEF Owning
<1>4. new.sources[n] = "ok" /\ \A m \in Names \ {n} : new.sources[m] = db.sources[m]
  BY <1>1 DEF Sound, IsDB
<1>5. \A i \in DOMAIN new.objects : i \in DOMAIN db.objects
        /\ new.objects[i] = db.objects[i] /\ new.objects[i].source # n
        /\ new.objects[i].source \in Names
  BY <1>1 DEF Sound, IsDB, Owned
<1>6. OnlyOk(new)
  BY <1>4, <1>5 DEF Sound, OnlyOk
<1>7. ASSUME NEW m \in Names \ {n} PROVE Published(new, m) = Published(db, m)
  <2>1. \A i \in kept : AttrsOf(new, i) = AttrsOf(db, i)
    BY <1>1 DEF AttrsOf
  <2>2. {j \in DOMAIN new.objects : new.objects[j].source = m} =
        {j \in DOMAIN db.objects : db.objects[j].source = m}
    BY <1>1
  <2>3. \A i \in {j \in DOMAIN db.objects : db.objects[j].source = m} :
          /\ i \in kept
          /\ new.objects[i] = db.objects[i] /\ AttrsOf(new, i) = AttrsOf(db, i)
    BY <1>1, <2>1
  <2>4. RowsIn(new, m) = RowsIn(db, m)
    BY <2>2, <2>3 DEF RowsIn
  <2> QED BY <1>4, <2>4 DEF Published
<1> QED BY <1>2, <1>3, <1>4, <1>5, <1>6, <1>7 DEF Sound, new

\* Recording an error leaves a sound database in which the source is failed
\* and every other source reads as before.
LEMMA MarkedFailedSound ==
  ASSUME NEW db, Sound(db), NEW n \in Names
  PROVE  /\ Sound(MarkedFailed(db, n))
         /\ Published(MarkedFailed(db, n), n) = Failed
         /\ \A m \in Names \ {n} :
              Published(MarkedFailed(db, n), m) = Published(db, m)
<1> DEFINE old == Cleared(db, n)
           new == MarkedFailed(db, n)
<1>1. /\ new.sources = [old.sources EXCEPT ![n] = "failed"]
      /\ new.objects = old.objects /\ new.attrs = old.attrs
      /\ new = [sources |-> new.sources, objects |-> new.objects,
                attrs |-> new.attrs]
  BY DEF MarkedFailed, Marked
<1>2. /\ Sound(old)
      /\ \A i \in DOMAIN old.objects : old.objects[i].source # n
      /\ \A m \in Names \ {n} : Published(old, m) = Published(db, m)
  BY ClearedSound
<1> HIDE DEF new, old
<1>3. IsDB(new)
  BY <1>1, <1>2 DEF Sound, IsDB, States
<1>4. /\ new.sources[n] = "failed"
      /\ \A m \in Names \ {n} : new.sources[m] = old.sources[m]
  BY <1>1, <1>2 DEF Sound, IsDB
<1>5. Owning(new) /\ OnlyOk(new)
  BY <1>1, <1>2, <1>4 DEF Sound, Owning, OnlyOk, IsDB, Owned
<1>6. \A m : RowsIn(new, m) = RowsIn(old, m)
  BY <1>1 DEF RowsIn, AttrsOf
<1>7. \A m \in Names \ {n} : Published(new, m) = Published(old, m)
  BY <1>4, <1>6 DEF Published
<1>8. Published(new, n) = Failed
  BY <1>4 DEF Published
<1> QED BY <1>2, <1>3, <1>5, <1>7, <1>8 DEF Sound, new

\* Inserting a row under a fresh id adds that row to its source, with no
\* attribute of an earlier object, and changes no other source.
LEMMA WithRowSound ==
  ASSUME NEW db, Sound(db), NEW n \in Names, db.sources[n] = "ok",
         NEW rec \in Records, NEW id \in Nat, id \notin DOMAIN db.objects
  PROVE  LET new == WithRow(db, id, n, rec)
         IN  /\ Sound(new) /\ new.sources = db.sources
             /\ RowsIn(new, n) = RowsIn(db, n) \cup {<<rec.prefix, rec.attrs>>}
             /\ \A m \in Names \ {n} : Published(new, m) = Published(db, m)
<1> DEFINE new == WithRow(db, id, n, rec)
           row == [source |-> n, prefix |-> rec.prefix]
<1>1. /\ new.sources = db.sources
      /\ DOMAIN new.objects = DOMAIN db.objects \cup {id}
      /\ new.objects[id] = row
      /\ \A i \in DOMAIN db.objects : new.objects[i] = db.objects[i]
      /\ new.attrs = db.attrs \cup {<<id, a>> : a \in rec.attrs}
      /\ new = [sources |-> new.sources, objects |-> new.objects,
                attrs |-> new.attrs]
  BY DEF WithRow
<1>2. new.objects = [i \in DOMAIN db.objects \cup {id} |->
                       IF i = id THEN row ELSE db.objects[i]]
  BY DEF WithRow
<1> HIDE DEF new
<1>3. row \in Owned /\ row.source = n /\ row.prefix = rec.prefix
      /\ rec.attrs \subseteq Attributes
  BY DEF Owned, Records
<1>4. IsDB(new)
  <2>1. new.objects \in [DOMAIN new.objects -> Owned]
    BY <1>1, <1>2, <1>3 DEF Sound, IsDB
  <2>2. new.attrs \subseteq Nat \X Attributes
    BY <1>1, <1>3 DEF Sound, IsDB
  <2> QED BY <1>1, <2>1, <2>2 DEF Sound, IsDB
<1>5. Owning(new) /\ OnlyOk(new)
  BY <1>1, <1>3 DEF Sound, Owning, OnlyOk
<1>6. \A i \in DOMAIN db.objects : AttrsOf(new, i) = AttrsOf(db, i)
  BY <1>1 DEF AttrsOf
<1>7. AttrsOf(new, id) = rec.attrs
  <2>1. {x \in new.attrs : x[1] = id} = {<<id, a>> : a \in rec.attrs}
    BY <1>1 DEF Sound, Owning
  <2>2. AttrsOf(new, id) = {y[2] : y \in {<<id, a>> : a \in rec.attrs}}
    BY <2>1 DEF AttrsOf
  <2>3. ASSUME NEW v PROVE v \in AttrsOf(new, id) <=> v \in rec.attrs
    <3>1. v \in AttrsOf(new, id) <=>
            \E y \in {<<id, a>> : a \in rec.attrs} : v = y[2]
      BY <2>2
    <3>2. (\E y \in {<<id, a>> : a \in rec.attrs} : v = y[2]) <=>
            \E a \in rec.attrs : v = <<id, a>>[2]
      OBVIOUS
    <3>3. (\E a \in rec.attrs : v = <<id, a>>[2]) <=> v \in rec.attrs
      OBVIOUS
    <3> QED BY <3>1, <3>2, <3>3
  <2> QED BY <2>3
<1>8. RowsIn(new, n) = RowsIn(db, n) \cup {<<rec.prefix, rec.attrs>>}
  <2>1. {j \in DOMAIN new.objects : new.objects[j].source = n} =
        {j \in DOMAIN db.objects : db.objects[j].source = n} \cup {id}
    BY <1>1, <1>3
  <2>2. \A i \in {j \in DOMAIN db.objects : db.objects[j].source = n} :
          <<new.objects[i].prefix, AttrsOf(new, i)>> =
          <<db.objects[i].prefix, AttrsOf(db, i)>>
    BY <1>1, <1>6
  <2>3. <<new.objects[id].prefix, AttrsOf(new, id)>> = <<rec.prefix, rec.attrs>>
    BY <1>1, <1>3, <1>7
  <2> QED BY <2>1, <2>2, <2>3 DEF RowsIn
<1>9. ASSUME NEW m \in Names \ {n} PROVE Published(new, m) = Published(db, m)
  <2>1. {j \in DOMAIN new.objects : new.objects[j].source = m} =
        {j \in DOMAIN db.objects : db.objects[j].source = m}
    BY <1>1, <1>3
  <2>2. RowsIn(new, m) = RowsIn(db, m)
    BY <1>1, <1>6, <2>1 DEF RowsIn
  <2> QED BY <1>1, <2>2 DEF Published
<1> QED BY <1>1, <1>4, <1>5, <1>8, <1>9 DEF Sound, new

-----------------------------------------------------------------------------
(* The inductive invariant *)

\* The rows of the records before position k, none of which is bad.
RowsBefore(d, k) ==
  {<<d[i].prefix, d[i].attrs>> :
     i \in {j \in DOMAIN d : j < k /\ d[j].fate = "row"}}

\* Where a build is in its current source.  Inside the transaction it holds
\* the lock, its copy reads as the committed database for every other source,
\* and for its own source holds the rows of the records inserted so far.
BuildInv(b) ==
  /\ pc[b] \in {"begin", "insert", "record"} => current[b] \in Names
  /\ pc[b] \in {"begin", "insert"} => dump[b] \in DumpsOf[current[b]]
  /\ pc[b] = "insert" =>
       /\ lock = b
       /\ pos[b] <= Len(dump[b]) + 1
       /\ \A i \in DOMAIN dump[b] : i < pos[b] => dump[b][i].fate # "bad"
       /\ work[b].sources[current[b]] = "ok"
       /\ RowsIn(work[b], current[b]) = RowsBefore(dump[b], pos[b])
       /\ \A m \in Names \ {current[b]} :
            Published(work[b], m) = Published(DB, m)

Running == {"loop", "begin", "insert", "record"}

\* Only a running build holds the lock.
LockHeld == lock # NoLock => pc[lock] \in Running

StoreInv ==
  /\ TypeOK
  /\ Sound(DB)
  /\ \A b \in Builds : Sound(work[b]) /\ BuildInv(b)
  /\ LockHeld

LEMMA InitStore == Init => StoreInv
<1> SUFFICES ASSUME Init PROVE StoreInv
  OBVIOUS
<1>1. DB = NoTx /\ \A b \in Builds : work[b] = NoTx
  BY DEF Init, DB, NoTx
<1>2. Sound(DB) /\ \A b \in Builds : Sound(work[b])
  BY <1>1, NoTxSound
<1>3. \A b \in Builds : BuildInv(b)
  BY DEF Init, BuildInv
<1>4. LockHeld
  BY DEF Init, LockHeld
<1>5. TypeOK
  <2>1. /\ work = [b \in Builds |-> work[b]]
        /\ lock \in Builds \cup {NoLock} /\ current \in [Builds -> Names \cup {NoName}]
        /\ pc \in [Builds -> {"idle", "loop", "begin", "insert", "record",
                              "passed", "failed", "crashed"}]
        /\ todo \in [Builds -> SUBSET Names]
        /\ errors \in [Builds -> SUBSET Names]
        /\ dump \in [Builds -> Dumps \cup {<<>>}]
    BY DEF Init
  <2>2. /\ pos \in [Builds -> Nat \ {0}] /\ wins \in [Builds -> Nat]
        /\ starts \in 0 .. MaxBuilds
    BY BoundAssumption DEF Init
  <2> QED BY <1>2, <2>1, <2>2 DEF TypeOK, Sound
<1> QED BY <1>2, <1>3, <1>4, <1>5 DEF StoreInv

\* A build that does not move keeps its invariant while it holds the lock or
\* the database keeps reading the same.
LEMMA OtherBuilds ==
  ASSUME NEW c \in Builds, BuildInv(c),
         pc'[c] = pc[c], current'[c] = current[c], dump'[c] = dump[c],
         pos'[c] = pos[c], work'[c] = work[c],
         lock = c => (lock' = lock /\ UNCHANGED dbVars)
  PROVE  BuildInv(c)'
<1>1. UNCHANGED dbVars => DB' = DB
  BY DEF DB, dbVars
<1> QED BY <1>1 DEF BuildInv

\* What is left to show of a step of build b: the database and the build's own
\* part, when nobody else is inside a transaction or the step does not touch
\* what such a transaction has seen.
LEMMA StepOf ==
  ASSUME StoreInv, NEW b \in Builds,
         Sound(DB)', TypeOK', Sound(work[b])', BuildInv(b)', LockHeld',
         \A c \in Builds \ {b} :
           /\ pc'[c] = pc[c] /\ current'[c] = current[c] /\ dump'[c] = dump[c]
           /\ pos'[c] = pos[c] /\ work'[c] = work[c],
         lock \in {NoLock, b} \/ (lock' = lock /\ UNCHANGED dbVars)
  PROVE  StoreInv'
<1>1. ASSUME NEW c \in Builds \ {b} PROVE BuildInv(c)'
  <2>1. BuildInv(c)
    BY DEF StoreInv
  <2>2. lock = c => lock' = lock /\ UNCHANGED dbVars
    BY DumpsAssumption
  <2> QED BY <2>1, <2>2, OtherBuilds
<1>2. \A c \in Builds : Sound(work[c])'
  BY DEF StoreInv
<1> QED BY <1>1, <1>2 DEF StoreInv

\* A step of build b that leaves the transactions alone, and changes the
\* database only while no transaction is open.
LEMMA OutsideTx ==
  ASSUME StoreInv, NEW b \in Builds, Sound(DB)', TypeOK', BuildInv(b)',
         UNCHANGED <<lock, work, pos>>,
         pc'[b] \in Running,
         \A c \in Builds \ {b} : pc'[c] = pc[c] /\ current'[c] = current[c]
                                 /\ dump'[c] = dump[c],
         UNCHANGED dbVars \/ lock = NoLock
  PROVE  StoreInv'
<1>1. LockHeld'
  <2>1. lock \in Builds \cup {NoLock}
    BY DEF StoreInv, TypeOK
  <2> QED BY <2>1 DEF StoreInv, LockHeld
<1>2. Sound(work[b])'
  BY DEF StoreInv
<1> QED BY <1>1, <1>2, StepOf

\* What is left when the copy of build b is gone.
LEMMA AfterForget ==
  ASSUME StoreInv, NEW b \in Builds, Forget(b)
  PROVE  /\ work' = [c \in Builds |-> work[c]]'
         /\ \A c \in Builds : IsDB(work[c])'
         /\ dump' \in [Builds -> Dumps \cup {<<>>}]
         /\ pos' \in [Builds -> Nat \ {0}]
         /\ Sound(work[b])'
         /\ \A c \in Builds \ {b} :
              dump'[c] = dump[c] /\ pos'[c] = pos[c] /\ work'[c] = work[c]
<1>1. /\ work = [c \in Builds |-> work[c]] /\ \A c \in Builds : IsDB(work[c])
      /\ dump \in [Builds -> Dumps \cup {<<>>}]
      /\ pos \in [Builds -> Nat \ {0}]
  BY DEF StoreInv, TypeOK
<1>2. /\ work' = [work EXCEPT ![b] = NoTx]
      /\ dump' = [dump EXCEPT ![b] = <<>>]
      /\ pos' = [pos EXCEPT ![b] = 1]
  BY DEF Forget
<1>3. /\ work' = [c \in Builds |-> work'[c]] /\ work'[b] = NoTx
      /\ \A c \in Builds \ {b} : work'[c] = work[c]
  BY <1>1, <1>2
<1>4. IsDB(NoTx)
  BY NoTxSound DEF Sound
<1>5. \A c \in Builds : IsDB(work[c])'
  BY <1>1, <1>3, <1>4 DEF IsDB
<1>6. Sound(work[b])'
  BY <1>3, NoTxSound DEF Sound, IsDB, Owning, OnlyOk
<1>7. /\ dump' \in [Builds -> Dumps \cup {<<>>}]
      /\ pos' \in [Builds -> Nat \ {0}]
      /\ \A c \in Builds \ {b} : dump'[c] = dump[c] /\ pos'[c] = pos[c]
  BY <1>1, <1>2
<1> QED BY <1>3, <1>5, <1>6, <1>7

\* What is left of the lock when build b has released it.
LEMMA AfterRelease ==
  ASSUME StoreInv, NEW b \in Builds, Release(b)
  PROVE  /\ lock' \in Builds \cup {NoLock}
         /\ lock' = NoLock \/ (lock' = lock /\ lock # b)
         /\ lock \in {NoLock, b} \/ lock' = lock
<1>1. lock \in Builds \cup {NoLock}
  BY DEF StoreInv, TypeOK
<1> QED BY <1>1 DEF Release

-----------------------------------------------------------------------------
(* Steps *)

Pub == [n \in Names |-> Published(DB, n)]

LEMMA SameDB == ASSUME StoreInv, UNCHANGED dbVars PROVE Sound(DB)' /\ Pub' = Pub
<1>1. DB' = DB
  BY DEF DB, dbVars
<1> QED BY <1>1 DEF Pub, StoreInv

LEMMA StartStep ==
  ASSUME StoreInv, NEW b \in Builds, Start(b)
  PROVE  StoreInv' /\ Pub' = Pub
<1>1. UNCHANGED dbVars /\ UNCHANGED <<lock, work, pos>> /\ DB' = DB
  BY DEF Start, dbVars, txVars, DB
<1>2. TypeOK'
  <2>1. TypeOK
    BY DEF StoreInv
  <2> QED BY <1>1, <2>1, BoundAssumption, DumpsAssumption
          DEF Start, TypeOK, txVars, dbVars
<1>3. BuildInv(b)'
  BY DumpsAssumption DEF Start, StoreInv, TypeOK, BuildInv, txVars
<1>4. pc'[b] \in Running
  BY DEF Start, StoreInv, TypeOK, Running
<1>5. \A c \in Builds \ {b} :
        pc'[c] = pc[c] /\ current'[c] = current[c] /\ dump'[c] = dump[c]
  BY DEF Start, StoreInv, TypeOK, txVars
<1> QED BY <1>1, <1>2, <1>3, <1>4, <1>5, SameDB, OutsideTx

LEMMA ReadDumpStep ==
  ASSUME StoreInv, NEW b \in Builds, NEW n \in Names, NEW d \in Dumps, ReadDump(b, n, d)
  PROVE  StoreInv' /\ Pub' = Pub
<1>1. UNCHANGED dbVars /\ UNCHANGED <<lock, work, pos>> /\ DB' = DB
  BY DEF ReadDump, dbVars, txVars, DB
<1>2. TypeOK'
  <2>1. TypeOK
    BY DEF StoreInv
  <2> QED BY <1>1, <2>1, BoundAssumption, DumpsAssumption
          DEF ReadDump, Goto, TypeOK, txVars, dbVars
<1>3. BuildInv(b)'
  BY DumpsAssumption DEF ReadDump, Goto, StoreInv, TypeOK, BuildInv, txVars
<1>4. pc'[b] \in Running
  BY DEF ReadDump, Goto, StoreInv, TypeOK, Running
<1>5. \A c \in Builds \ {b} :
        pc'[c] = pc[c] /\ current'[c] = current[c] /\ dump'[c] = dump[c]
  BY DEF ReadDump, Goto, StoreInv, TypeOK, txVars
<1> QED BY <1>1, <1>2, <1>3, <1>4, <1>5, SameDB, OutsideTx

LEMMA ReadFailsStep ==
  ASSUME StoreInv, NEW b \in Builds, NEW n \in Names, ReadFails(b, n)
  PROVE  StoreInv' /\ Pub' = Pub
<1>1. UNCHANGED dbVars /\ UNCHANGED <<lock, work, pos>> /\ DB' = DB
  BY DEF ReadFails, dbVars, txVars, DB
<1>2. TypeOK'
  <2>1. TypeOK
    BY DEF StoreInv
  <2> QED BY <1>1, <2>1, BoundAssumption, DumpsAssumption
          DEF ReadFails, Goto, TypeOK, txVars, dbVars
<1>3. BuildInv(b)'
  BY DumpsAssumption DEF ReadFails, Goto, StoreInv, TypeOK, BuildInv, txVars
<1>4. pc'[b] \in Running
  BY DEF ReadFails, Goto, StoreInv, TypeOK, Running
<1>5. \A c \in Builds \ {b} :
        pc'[c] = pc[c] /\ current'[c] = current[c] /\ dump'[c] = dump[c]
  BY DEF ReadFails, Goto, StoreInv, TypeOK, txVars
<1> QED BY <1>1, <1>2, <1>3, <1>4, <1>5, SameDB, OutsideTx

LEMMA BeginFailsStep ==
  ASSUME StoreInv, NEW b \in Builds, BeginFails(b)
  PROVE  StoreInv' /\ Pub' = Pub
<1>1. UNCHANGED dbVars /\ UNCHANGED <<lock, work, pos>> /\ DB' = DB
  BY DEF BeginFails, dbVars, txVars, DB
<1>2. TypeOK'
  <2>1. TypeOK
    BY DEF StoreInv
  <2> QED BY <1>1, <2>1, BoundAssumption, DumpsAssumption
          DEF BeginFails, Goto, TypeOK, txVars, dbVars
<1>3. BuildInv(b)'
  BY DumpsAssumption DEF BeginFails, Goto, StoreInv, TypeOK, BuildInv, txVars
<1>4. pc'[b] \in Running
  BY DEF BeginFails, Goto, StoreInv, TypeOK, Running
<1>5. \A c \in Builds \ {b} :
        pc'[c] = pc[c] /\ current'[c] = current[c] /\ dump'[c] = dump[c]
  BY DEF BeginFails, Goto, StoreInv, TypeOK, txVars
<1> QED BY <1>1, <1>2, <1>3, <1>4, <1>5, SameDB, OutsideTx

LEMMA RecordFailsStep ==
  ASSUME StoreInv, NEW b \in Builds, RecordFails(b)
  PROVE  StoreInv' /\ Pub' = Pub
<1>1. UNCHANGED dbVars /\ UNCHANGED <<work, dump, pos>> /\ DB' = DB
  BY DEF RecordFails, dbVars, DB
<1>2. TypeOK /\ current[b] \in Names
  BY DEF StoreInv, BuildInv, RecordFails, Goto
<1>3. lock' = lock \/ (lock = NoLock /\ lock' = b)
  BY DEF RecordFails
<1>4. TypeOK'
  BY <1>1, <1>2, <1>3 DEF RecordFails, Goto, TypeOK, dbVars
<1>5. BuildInv(b)'
  BY <1>2 DEF RecordFails, Goto, TypeOK, BuildInv
<1>6. LockHeld'
  BY <1>2, <1>3 DEF RecordFails, Goto, TypeOK, StoreInv, LockHeld, Running
<1>7. \A c \in Builds \ {b} : pc'[c] = pc[c] /\ current'[c] = current[c]
  BY <1>2 DEF RecordFails, Goto, TypeOK
<1>8. Sound(work[b])'
  BY <1>1 DEF StoreInv
<1> QED BY <1>1, <1>3, <1>4, <1>5, <1>6, <1>7, <1>8, SameDB, StepOf

LEMMA FinishStep ==
  ASSUME StoreInv, NEW b \in Builds, Finish(b)
  PROVE  StoreInv' /\ Pub' = Pub
<1>1. /\ UNCHANGED dbVars /\ UNCHANGED <<work, dump, pos>> /\ DB' = DB
      /\ Release(b) /\ TypeOK
  BY DEF Finish, dbVars, DB, StoreInv
<1>2. TypeOK'
  BY <1>1, AfterRelease DEF Finish, Goto, TypeOK, dbVars
<1>3. BuildInv(b)'
  BY <1>1 DEF Finish, Goto, TypeOK, BuildInv
<1>4. \A c \in Builds \ {b} : pc'[c] = pc[c] /\ current'[c] = current[c]
  BY <1>1 DEF Finish, Goto, TypeOK
<1>5. LockHeld'
  BY <1>1, <1>4, AfterRelease DEF LockHeld, StoreInv, TypeOK
<1>6. Sound(work[b])'
  BY <1>1 DEF StoreInv
<1>7. lock \in {NoLock, b} \/ (lock' = lock /\ UNCHANGED dbVars)
  BY <1>1, AfterRelease
<1> QED BY <1>1, <1>2, <1>3, <1>4, <1>5, <1>6, <1>7, SameDB, StepOf

LEMMA RecordErrorStep ==
  ASSUME StoreInv, NEW b \in Builds, RecordError(b)
  PROVE  /\ StoreInv'
         /\ \E n \in Names : Pub' = [Pub EXCEPT ![n] = Failed]
<1> DEFINE n == current[b]
           db == MarkedFailed(DB, n)
<1>1. n \in Names /\ TypeOK /\ Sound(DB)
  BY DEF StoreInv, BuildInv, RecordError, Goto
<1>2. DB' = db
  BY DEF RecordError, DB, MarkedFailed, Marked
<1>3. /\ Sound(db) /\ Published(db, n) = Failed
      /\ \A m \in Names \ {n} : Published(db, m) = Published(DB, m)
  BY <1>1, MarkedFailedSound
<1>4. Sound(DB)'
  BY <1>2, <1>3 DEF Sound, IsDB, Owning, OnlyOk
<1>5. Pub' = [Pub EXCEPT ![n] = Failed]
  BY <1>1, <1>2, <1>3 DEF Pub
<1>6. TypeOK'
  BY <1>1, <1>4 DEF RecordError, Goto, TypeOK, txVars, Sound
<1>7. BuildInv(b)'
  BY DEF RecordError, Goto, StoreInv, TypeOK, BuildInv
<1>8. pc'[b] \in Running /\ lock = NoLock /\ UNCHANGED <<lock, work, pos>>
  BY <1>1 DEF RecordError, Goto, txVars, TypeOK, Running
<1>9. \A c \in Builds \ {b} :
        pc'[c] = pc[c] /\ current'[c] = current[c] /\ dump'[c] = dump[c]
  BY DEF RecordError, Goto, StoreInv, TypeOK, txVars
<1> QED BY <1>1, <1>4, <1>5, <1>6, <1>7, <1>8, <1>9, OutsideTx

LEMMA BeginImportStep ==
  ASSUME StoreInv, NEW b \in Builds, BeginImport(b)
  PROVE  StoreInv' /\ Pub' = Pub
<1> DEFINE n == current[b]
           db == Cleared(DB, n)
<1>1. n \in Names /\ TypeOK /\ Sound(DB) /\ dump[b] \in DumpsOf[n]
  BY DEF StoreInv, BuildInv, BeginImport, Goto
<1>2. /\ Sound(db) /\ db.sources[n] = "ok"
      /\ \A i \in DOMAIN db.objects : db.objects[i].source # n
      /\ \A m \in Names \ {n} : Published(db, m) = Published(DB, m)
  BY <1>1, ClearedSound
<1> HIDE DEF db
<1>3. /\ work' = [work EXCEPT ![b] = db]
      /\ pc' = [pc EXCEPT ![b] = "insert"] /\ pos' = [pos EXCEPT ![b] = 1]
      /\ lock = NoLock /\ lock' = b
      /\ UNCHANGED <<dbVars, todo, current, dump, errors, wins, starts>>
  BY DEF BeginImport, Goto, db
<1>4. DB' = DB
  BY <1>3 DEF DB, dbVars
<1>5. /\ work' = [c \in Builds |-> work'[c]] /\ work'[b] = db
      /\ \A c \in Builds \ {b} : work'[c] = work[c]
  BY <1>1, <1>3 DEF TypeOK
<1>6. \A c \in Builds : IsDB(work[c])'
  BY <1>1, <1>2, <1>5 DEF IsDB, Sound, TypeOK
<1>7. TypeOK'
  BY <1>1, <1>3, <1>4, <1>5, <1>6 DEF TypeOK, IsDB, dbVars
<1>8. Sound(work[b])'
  BY <1>2, <1>5 DEF Sound, IsDB, Owning, OnlyOk
<1>9. BuildInv(b)'
  <2>1. pc'[b] = "insert" /\ lock' = b /\ current'[b] = n /\ pos'[b] = 1
        /\ dump'[b] = dump[b] /\ dump[b] \in Seq(Records)
    BY <1>1, <1>3, DumpsAssumption DEF TypeOK
  <2>2. RowsIn(db, n) = {} /\ RowsBefore(dump[b], 1) = {}
    BY <1>2, <2>1 DEF RowsIn, RowsBefore
  <2>3. 1 <= Len(dump[b]) + 1 /\ \A i \in DOMAIN dump[b] : ~ (i < 1)
    BY <2>1
  <2> QED BY <1>1, <1>2, <1>4, <1>5, <2>1, <2>2, <2>3 DEF BuildInv
<1>10. LockHeld'
  BY <1>1, <1>3 DEF LockHeld, TypeOK, Running
<1>11. \A c \in Builds \ {b} :
          /\ pc'[c] = pc[c] /\ current'[c] = current[c] /\ dump'[c] = dump[c]
          /\ pos'[c] = pos[c] /\ work'[c] = work[c]
  BY <1>1, <1>3, <1>5 DEF TypeOK
<1>12. Sound(DB)' /\ Pub' = Pub
  BY <1>3, SameDB
<1> QED BY <1>3, <1>7, <1>8, <1>9, <1>10, <1>11, <1>12, StepOf

\* Each record adds its row, or nothing, to the rows before it.
LEMMA NextRow ==
  ASSUME NEW d \in Seq(Records), NEW k \in Nat \ {0}, k <= Len(d)
  PROVE  /\ d[k].fate = "row" =>
              RowsBefore(d, k + 1) =
                RowsBefore(d, k) \cup {<<d[k].prefix, d[k].attrs>>}
         /\ d[k].fate # "row" => RowsBefore(d, k + 1) = RowsBefore(d, k)
<1> DEFINE J(m) == {j \in DOMAIN d : j < m /\ d[j].fate = "row"}
<1>1. k \in DOMAIN d /\ \A j \in DOMAIN d : j < k + 1 <=> j < k \/ j = k
  OBVIOUS
<1>2. CASE d[k].fate = "row"
  <2>1. J(k + 1) = J(k) \cup {k}
    BY <1>1, <1>2
  <2> QED BY <1>2, <2>1 DEF RowsBefore
<1>3. CASE d[k].fate # "row"
  <2>1. J(k + 1) = J(k)
    BY <1>1, <1>3
  <2> QED BY <1>3, <2>1 DEF RowsBefore
<1> QED BY <1>2, <1>3

LEMMA InsertRecordStep ==
  ASSUME StoreInv, NEW b \in Builds, InsertRecord(b)
  PROVE  StoreInv' /\ Pub' = Pub
<1> DEFINE n == current[b]
           d == dump[b]
           k == pos[b]
           rec == d[k]
           new == work'[b]
<1>1. /\ n \in Names /\ TypeOK /\ Sound(DB) /\ Sound(work[b]) /\ lock = b
      /\ work[b].sources[n] = "ok" /\ d \in DumpsOf[n]
      /\ RowsIn(work[b], n) = RowsBefore(d, k)
      /\ \A i \in DOMAIN d : i < k => d[i].fate # "bad"
      /\ \A m \in Names \ {n} : Published(work[b], m) = Published(DB, m)
  BY DEF StoreInv, BuildInv, InsertRecord
<1>2. /\ pc[b] = "insert" /\ k <= Len(d)
      /\ pos' = [pos EXCEPT ![b] = k + 1]
      /\ UNCHANGED <<dbVars, lock, pc, todo, current, dump, errors, wins, starts>>
  BY DEF InsertRecord
<1>3. k \in Nat \ {0} /\ d \in Seq(Records) /\ k \in DOMAIN d /\ rec \in Records
  BY <1>1, <1>2, DumpsAssumption DEF TypeOK
<1>4. DB' = DB
  BY <1>2 DEF DB, dbVars
<1>5. /\ Sound(new) /\ new.sources[n] = "ok"
      /\ RowsIn(new, n) = RowsBefore(d, k + 1)
      /\ \A m \in Names \ {n} : Published(new, m) = Published(work[b], m)
      /\ rec.fate # "bad"
      /\ work' = [work EXCEPT ![b] = new]
  <2>1. CASE rec.fate = "row"
    <3>1. PICK id \in Ids(work[b].objects) :
            /\ IsNewId(work[b].objects, id)
            /\ work' = [work EXCEPT ![b] = WithRow(work[b], id, n, rec)]
      BY <2>1 DEF InsertRecord
    <3>2. id \in Nat /\ id \notin DOMAIN work[b].objects
      BY <3>1 DEF IsNewId
    <3>3. new = WithRow(work[b], id, n, rec) /\ work' = [work EXCEPT ![b] = new]
      BY <1>1, <3>1 DEF TypeOK
    <3>4. /\ Sound(new) /\ new.sources = work[b].sources
          /\ RowsIn(new, n) = RowsIn(work[b], n) \cup {<<rec.prefix, rec.attrs>>}
          /\ \A m \in Names \ {n} : Published(new, m) = Published(work[b], m)
      BY <1>1, <1>3, <3>2, <3>3, WithRowSound
    <3>5. RowsBefore(d, k + 1) =
            RowsBefore(d, k) \cup {<<rec.prefix, rec.attrs>>}
      BY <1>2, <1>3, <2>1, NextRow
    <3> QED BY <1>1, <2>1, <3>3, <3>4, <3>5
  <2>2. CASE rec.fate # "row"
    <3>1. rec.fate \in {"other", "default"} /\ work' = work
      BY <2>2 DEF InsertRecord
    <3>2. RowsBefore(d, k + 1) = RowsBefore(d, k)
      BY <1>2, <1>3, <2>2, NextRow
    <3>3. work' = [work EXCEPT ![b] = new]
      BY <1>1, <3>1 DEF TypeOK
    <3> QED BY <1>1, <3>1, <3>2, <3>3
  <2> QED BY <2>1, <2>2
<1> HIDE DEF new
<1>6. /\ work' = [c \in Builds |-> work'[c]] /\ work'[b] = new
      /\ \A c \in Builds \ {b} : work'[c] = work[c]
  BY <1>1, <1>5 DEF TypeOK
<1>7. \A c \in Builds : IsDB(work[c])'
  BY <1>1, <1>5, <1>6 DEF IsDB, Sound, TypeOK
<1>8. TypeOK'
  <2>1. pos' \in [Builds -> Nat \ {0}]
    BY <1>1, <1>2, <1>3 DEF TypeOK
  <2>2. IsDB(DB)'
    BY <1>1, <1>4 DEF TypeOK, IsDB
  <2> QED BY <1>1, <1>2, <1>6, <1>7, <2>1, <2>2 DEF TypeOK
<1>9. Sound(work[b])'
  BY <1>5, <1>6 DEF Sound, IsDB, Owning, OnlyOk
<1>10. BuildInv(b)'
  <2>1. /\ pc'[b] = "insert" /\ lock' = b /\ current'[b] = n
        /\ pos'[b] = k + 1 /\ dump'[b] = d
    BY <1>1, <1>2 DEF TypeOK
  <2>2. k + 1 <= Len(d) + 1
    BY <1>2, <1>3
  <2>3. \A i \in DOMAIN d : i < k + 1 => d[i].fate # "bad"
    BY <1>1, <1>3, <1>5
  <2> HIDE DEF n, d, k
  <2> QED BY <1>1, <1>4, <1>5, <1>6, <2>1, <2>2, <2>3 DEF BuildInv
<1>11. LockHeld'
  BY <1>1, <1>2 DEF LockHeld, StoreInv
<1>12. \A c \in Builds \ {b} :
          /\ pc'[c] = pc[c] /\ current'[c] = current[c] /\ dump'[c] = dump[c]
          /\ pos'[c] = pos[c] /\ work'[c] = work[c]
  BY <1>1, <1>2, <1>6 DEF TypeOK
<1>13. Sound(DB)' /\ Pub' = Pub
  BY <1>2, SameDB
<1> QED BY <1>1, <1>8, <1>9, <1>10, <1>11, <1>12, <1>13, StepOf

LEMMA RollBackStep ==
  ASSUME StoreInv, NEW b \in Builds, RollBack(b)
  PROVE  StoreInv' /\ Pub' = Pub
<1>1. /\ TypeOK /\ Release(b) /\ Forget(b) /\ UNCHANGED dbVars /\ DB' = DB
      /\ lock = b
  BY DEF RollBack, EndTx, StoreInv, DB, dbVars, BuildInv, Goto
<1>2. lock' = NoLock
  BY <1>1 DEF Release
<1>3. TypeOK'
  BY <1>1, <1>2, AfterForget DEF RollBack, Goto, TypeOK, IsDB, dbVars
<1>4. BuildInv(b)'
  BY DEF RollBack, Goto, StoreInv, TypeOK, BuildInv
<1>5. LockHeld'
  BY <1>2 DEF LockHeld
<1>6. \A c \in Builds \ {b} : pc'[c] = pc[c] /\ current'[c] = current[c]
  BY <1>1 DEF RollBack, Goto, TypeOK
<1> QED BY <1>1, <1>3, <1>4, <1>5, <1>6, AfterForget, SameDB, StepOf

LEMMA CommitFailsStep ==
  ASSUME StoreInv, NEW b \in Builds, CommitFails(b)
  PROVE  StoreInv' /\ Pub' = Pub
<1>1. TypeOK /\ Forget(b) /\ UNCHANGED dbVars /\ DB' = DB /\ lock = b
  BY DEF CommitFails, StoreInv, DB, dbVars, BuildInv, Goto
<1>2. lock' \in {NoLock, b} /\ pc' = [pc EXCEPT ![b] = "record"]
  BY DEF CommitFails, Goto
<1>3. TypeOK'
  BY <1>1, <1>2, AfterForget DEF CommitFails, TypeOK, IsDB, dbVars
<1>4. BuildInv(b)'
  BY DEF CommitFails, Goto, StoreInv, TypeOK, BuildInv
<1>5. LockHeld'
  BY <1>1, <1>2 DEF LockHeld, TypeOK, Running
<1>6. \A c \in Builds \ {b} : pc'[c] = pc[c] /\ current'[c] = current[c]
  BY <1>1, <1>2 DEF CommitFails, TypeOK
<1> QED BY <1>1, <1>3, <1>4, <1>5, <1>6, AfterForget, SameDB, StepOf

LEMMA CrashStep ==
  ASSUME StoreInv, NEW b \in Builds, Crash(b)
  PROVE  StoreInv' /\ Pub' = Pub
<1>1. TypeOK /\ Release(b) /\ Forget(b) /\ UNCHANGED dbVars /\ DB' = DB
  BY DEF Crash, EndTx, StoreInv, DB, dbVars
<1>2. TypeOK'
  BY <1>1, AfterForget, AfterRelease DEF Crash, TypeOK, IsDB, dbVars
<1>3. BuildInv(b)'
  BY DEF Crash, StoreInv, TypeOK, BuildInv
<1>4. \A c \in Builds \ {b} : pc'[c] = pc[c] /\ current'[c] = current[c]
  BY <1>1 DEF Crash, TypeOK
<1>5. LockHeld'
  BY <1>1, <1>4, AfterRelease DEF LockHeld, StoreInv, TypeOK
<1>6. lock \in {NoLock, b} \/ (lock' = lock /\ UNCHANGED dbVars)
  BY <1>1, AfterRelease
<1> QED BY <1>1, <1>2, <1>3, <1>4, <1>5, <1>6, AfterForget, SameDB, StepOf

\* A commit publishes the whole of the dump under its source.
LEMMA CommitStep ==
  ASSUME StoreInv, NEW b \in Builds, Commit(b)
  PROVE  /\ StoreInv'
         /\ \E n \in Names : \E e \in EntriesOf(n) : Pub' = [Pub EXCEPT ![n] = e]
<1> DEFINE n == current[b]
           d == dump[b]
<1>1. /\ n \in Names /\ TypeOK /\ Sound(work[b]) /\ lock = b
      /\ work[b].sources[n] = "ok" /\ d \in DumpsOf[n]
      /\ RowsIn(work[b], n) = RowsBefore(d, Len(d) + 1)
      /\ \A i \in DOMAIN d : i < Len(d) + 1 => d[i].fate # "bad"
      /\ \A m \in Names \ {n} : Published(work[b], m) = Published(DB, m)
      /\ Release(b) /\ Forget(b)
  BY DEF StoreInv, BuildInv, Commit, EndTx, Goto
<1>2. DB' = work[b]
  BY <1>1 DEF Commit, DB, Sound, IsDB
<1>3. Sound(DB)'
  BY <1>1, <1>2 DEF Sound, IsDB, Owning, OnlyOk
<1>4. d \in Seq(Records) /\ \A i \in DOMAIN d : i < Len(d) + 1
  BY <1>1, DumpsAssumption
<1>5. RowsBefore(d, Len(d) + 1) = RowsOf(d) /\ Importable(d)
  BY <1>1, <1>4 DEF RowsBefore, RowsOf, Importable
<1>6. Published(work[b], n) = RowsOf(d)
  BY <1>1, <1>5 DEF Published
<1>7. Pub' = [Pub EXCEPT ![n] = RowsOf(d)]
  BY <1>1, <1>2, <1>6 DEF Pub
<1>8. RowsOf(d) \in EntriesOf(n)
  BY <1>1, <1>5 DEF EntriesOf
<1>9. lock' = NoLock
  BY <1>1 DEF Release
<1>10. TypeOK'
  BY <1>1, <1>3, <1>9, AfterForget DEF Commit, Goto, TypeOK, Sound
<1>11. BuildInv(b)'
  BY DEF Commit, Goto, StoreInv, TypeOK, BuildInv
<1>12. LockHeld'
  BY <1>9 DEF LockHeld
<1>13. \A c \in Builds \ {b} : pc'[c] = pc[c] /\ current'[c] = current[c]
  BY <1>1 DEF Commit, Goto, TypeOK
<1>14. StoreInv'
  BY <1>1, <1>3, <1>10, <1>11, <1>12, <1>13, AfterForget, StepOf
<1> QED BY <1>1, <1>7, <1>8, <1>14

-----------------------------------------------------------------------------
(* The theorems *)

\* A step of Next keeps the invariant and reads as a step of SourceIndex, or
\* as none.
LEMMA NextStep ==
  ASSUME StoreInv, Next
  PROVE  /\ StoreInv'
         /\ \/ Pub' = Pub
            \/ \E n \in Names : Pub' = [Pub EXCEPT ![n] = Failed]
            \/ \E n \in Names : \E e \in EntriesOf(n) :
                 Pub' = [Pub EXCEPT ![n] = e]
<1>1. PICK b \in Builds : BuildNext(b)
  BY DEF Next
<1>2. CASE Start(b)
  BY <1>2, StartStep
<1>3. CASE \E n \in Names, d \in Dumps : ReadDump(b, n, d)
  BY <1>3, ReadDumpStep
<1>4. CASE \E n \in Names : ReadFails(b, n)
  BY <1>4, ReadFailsStep
<1>5. CASE BeginImport(b)
  BY <1>5, BeginImportStep
<1>6. CASE BeginFails(b)
  BY <1>6, BeginFailsStep
<1>7. CASE InsertRecord(b)
  BY <1>7, InsertRecordStep
<1>8. CASE RollBack(b)
  BY <1>8, RollBackStep
<1>9. CASE CommitFails(b)
  BY <1>9, CommitFailsStep
<1>10. CASE Commit(b)
  BY <1>10, CommitStep
<1>11. CASE RecordError(b)
  BY <1>11, RecordErrorStep
<1>12. CASE RecordFails(b)
  BY <1>12, RecordFailsStep
<1>13. CASE Finish(b)
  BY <1>13, FinishStep
<1>14. CASE Crash(b)
  BY <1>14, CrashStep
<1> QED BY <1>1, <1>2, <1>3, <1>4, <1>5, <1>6, <1>7, <1>8, <1>9, <1>10, <1>11,
           <1>12, <1>13, <1>14 DEF BuildNext

LEMMA StutterStep == StoreInv /\ UNCHANGED vars => StoreInv' /\ Pub' = Pub
<1> SUFFICES ASSUME StoreInv, UNCHANGED vars PROVE StoreInv' /\ Pub' = Pub
  OBVIOUS
<1>1. /\ UNCHANGED dbVars /\ DB' = DB
      /\ UNCHANGED <<lock, work, pc, todo, current, dump, pos, errors, wins, starts>>
  BY DEF vars, dbVars, DB
<1>2. TypeOK'
  BY <1>1 DEF StoreInv, TypeOK
<1>3. \A b \in Builds : Sound(work[b])' /\ BuildInv(b)'
  BY <1>1 DEF StoreInv, BuildInv
<1>4. LockHeld'
  BY <1>1 DEF StoreInv, LockHeld
<1> QED BY <1>1, <1>2, <1>3, <1>4, SameDB DEF StoreInv

LEMMA Invariance == Spec => []StoreInv
<1>1. StoreInv /\ [Next]_vars => StoreInv'
  BY NextStep, StutterStep
<1> QED BY InitStore, <1>1, PTL DEF Spec

\* Every variable keeps its type, in the database and in every transaction.
THEOREM TypeCorrect == Spec => []TypeOK
<1>1. StoreInv => TypeOK
  BY DEF StoreInv
<1> QED BY <1>1, Invariance, PTL

\* No attribute outlives its object, so an id that comes back brings none with
\* it.
THEOREM AttrsOwnedHolds == Spec => []AttrsOwned
<1>1. StoreInv => AttrsOwned
  BY DEF StoreInv, Sound, Owning, DB, AttrsOwned
<1> QED BY <1>1, Invariance, PTL

\* Only sources whose import went through hold objects.
THEOREM OnlyOkSourcesHoldObjectsHolds == Spec => []OnlyOkSourcesHoldObjects
<1>1. StoreInv => OnlyOkSourcesHoldObjects
  BY DEF StoreInv, Sound, OnlyOk, DB, OnlyOkSourcesHoldObjects
<1> QED BY <1>1, Invariance, PTL

\* How a step of one build may leave the lock with a build that is not
\* importing.
OutsideFor(b) ==
  HeldOutside(b)' =>
    /\ pc'[b] \in {"loop", "begin", "record"}
    /\ \/ HeldOutside(b)
       \/ pc[b] = "insert" /\ pos[b] > Len(dump[b])
       \/ pc[b] = "record"

\* The builds that do not move keep the lock only if they held it before.
LEMMA LockOf ==
  ASSUME StoreInv, NEW b \in Builds, OutsideFor(b),
         lock' \in {lock, NoLock, b},
         \A c \in Builds \ {b} : pc'[c] = pc[c]
  PROVE  \A c \in Builds : OutsideFor(c)
<1> SUFFICES ASSUME NEW c \in Builds \ {b}, HeldOutside(c)'
             PROVE  HeldOutside(c) /\ pc'[c] \in {"loop", "begin", "record"}
  BY DEF OutsideFor
<1>1. lock' = c /\ pc'[c] # "insert" /\ pc'[c] = pc[c]
  BY DEF HeldOutside
<1>2. lock = c
  BY <1>1, DumpsAssumption
<1>3. pc[c] \in Running
  BY <1>2, DumpsAssumption DEF StoreInv, LockHeld
<1> QED BY <1>1, <1>2, <1>3 DEF HeldOutside, Running

LEMMA LockStep ==
  ASSUME StoreInv, Next
  PROVE  \A c \in Builds : OutsideFor(c)
<1>1. PICK b \in Builds : BuildNext(b)
  BY DEF Next
<1>2. TypeOK /\ BuildInv(b) /\ LockHeld
  BY DEF StoreInv
<1>3. /\ pc \in [Builds -> {"idle", "loop", "begin", "insert", "record",
                            "passed", "failed", "crashed"}]
      /\ lock \in Builds \cup {NoLock}
  BY <1>2 DEF TypeOK
<1> SUFFICES /\ OutsideFor(b) /\ lock' \in {lock, NoLock, b}
             /\ \A c \in Builds \ {b} : pc'[c] = pc[c]
  BY LockOf
<1>4. CASE Start(b)
  BY <1>3, <1>4 DEF Start, txVars, OutsideFor, HeldOutside
<1>5. CASE \E n \in Names, d \in Dumps : ReadDump(b, n, d)
  BY <1>3, <1>5 DEF ReadDump, Goto, OutsideFor, HeldOutside
<1>6. CASE \E n \in Names : ReadFails(b, n)
  BY <1>3, <1>6 DEF ReadFails, Goto, txVars, OutsideFor, HeldOutside
<1>7. CASE BeginImport(b)
  BY <1>3, <1>7 DEF BeginImport, Goto, OutsideFor, HeldOutside
<1>8. CASE BeginFails(b)
  BY <1>3, <1>8 DEF BeginFails, Goto, txVars, OutsideFor, HeldOutside
<1>9. CASE InsertRecord(b)
  BY <1>3, <1>9 DEF InsertRecord, OutsideFor, HeldOutside
<1>10. CASE RollBack(b) \/ Commit(b)
  <2>1. /\ Release(b) /\ pc[b] = "insert"
        /\ \A c \in Builds \ {b} : pc'[c] = pc[c]
    BY <1>3, <1>10 DEF RollBack, Commit, EndTx, Goto
  <2>2. lock' # b /\ lock' \in {lock, NoLock}
    BY <2>1, DumpsAssumption DEF Release
  <2> QED BY <2>1, <2>2 DEF OutsideFor, HeldOutside
<1>11. CASE CommitFails(b)
  <2>1. /\ lock' \in {NoLock, b} /\ pc[b] = "insert"
        /\ pos[b] = Len(dump[b]) + 1 /\ dump[b] \in DumpsOf[current[b]]
        /\ pc' = [pc EXCEPT ![b] = "record"] /\ current[b] \in Names
    BY <1>2, <1>11 DEF CommitFails, Goto, BuildInv
  <2>2. pos[b] > Len(dump[b])
    BY <2>1, DumpsAssumption
  <2> QED BY <1>3, <2>1, <2>2 DEF OutsideFor
<1>12. CASE RecordError(b) \/ RecordFails(b)
  BY <1>3, <1>12 DEF RecordError, RecordFails, Goto, txVars, OutsideFor
<1>13. CASE Finish(b) \/ Crash(b)
  <2>1. /\ Release(b)
        /\ \A c \in Builds \ {b} : pc'[c] = pc[c]
    BY <1>3, <1>13 DEF Finish, Crash, EndTx, Goto
  <2>2. lock' # b /\ lock' \in {lock, NoLock}
    BY <2>1, DumpsAssumption DEF Release
  <2> QED BY <2>1, <2>2 DEF OutsideFor, HeldOutside
<1> QED BY <1>1, <1>4, <1>5, <1>6, <1>7, <1>8, <1>9, <1>10, <1>11, <1>12,
           <1>13 DEF BuildNext

\* Outside an import the write lock is held only by a running build whose
\* COMMIT has failed.
THEOREM LockReleasedHolds == Spec => LockReleased
<1>1. StoreInv /\ [Next]_vars => [\A b \in Builds : OutsideFor(b)]_vars
  BY LockStep
<1>2. [\A b \in Builds : OutsideFor(b)]_vars =>
      [\A b \in Builds : HeldOutside(b)' =>
         /\ pc'[b] \in {"loop", "begin", "record"}
         /\ \/ HeldOutside(b)
            \/ pc[b] = "insert" /\ pos[b] > Len(dump[b])
            \/ pc[b] = "record"]_vars
  BY DEF OutsideFor
<1> QED BY <1>1, <1>2, Invariance, PTL DEF Spec, LockReleased

\* Builds that interleave, fail and crash implement a map from source to one
\* whole dump.
THEOREM Refinement == Spec => ImplementsSourceIndex
<1>1. Init => Abstract!Init
  BY DEF Init, Abstract!Init, Published, DB
<1>2. StoreInv /\ [Next]_vars => [Abstract!Next]_Pub
  <2> SUFFICES ASSUME StoreInv, [Next]_vars PROVE Abstract!Next \/ Pub' = Pub
    OBVIOUS
  <2>1. CASE UNCHANGED vars
    BY <2>1, StutterStep
  <2>2. CASE \E n \in Names : Pub' = [Pub EXCEPT ![n] = Failed]
    BY <2>2 DEF Abstract!Next, Abstract!Fail, Pub
  <2>3. CASE \E n \in Names : \E e \in EntriesOf(n) : Pub' = [Pub EXCEPT ![n] = e]
    BY <2>3 DEF Abstract!Next, Abstract!Import, Pub
  <2> QED BY <2>1, <2>2, <2>3, NextStep
<1>3. [Abstract!Next]_Pub => [Abstract!Next]_([n \in Names |-> Published(DB, n)])
  BY DEF Pub
<1> QED BY <1>1, <1>2, <1>3, Invariance, PTL
        DEF Spec, ImplementsSourceIndex, Abstract!Spec

=============================================================================
