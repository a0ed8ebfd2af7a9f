--------------------------- MODULE ShadowRun_proofs ---------------------------
(***************************************************************************)
(* Theorems about ShadowRun, for any invocations, scripts, replies and     *)
(* scratch files: what the invocations get from the response cache they    *)
(* share.                                                                  *)
(***************************************************************************)
EXTENDS ShadowRun, TLAPS

USE DEF Over, Roots

-----------------------------------------------------------------------------
(* The invariant *)

InRange(i) == at[i] \in 1 .. Len(ScriptOf[Downloader(i)])

\* The shim of the command at p asks the cache.
Asks(i, r, p) ==
  reference[i] # "uncached" /\ Recorded(CommandAt(p).kind, r)

\* What a shim of i prints for k without a request.
Known(i, k) == IF cache[k] # None THEN cache[k] ELSE failures[i][k]

CacheInv ==
  \A k \in Keys : /\ cache[k] = None <=> recorder[k] = None
                  /\ cache[k] # None => cache[k].ok

StepInv ==
  \A i \in Invocations :
    /\ pc[i] = "idle" => seen[i] = NotSeen /\ root[i] = "candidate"
    /\ root[i] = "reference" => reference[i] = "cached-whois"
    /\ \A p \in Positions : seen[i]["reference"][p] # None =>
         reference[i] = "cached-whois"
    /\ pc[i] \in {"record", "print"} => InRange(i) /\ Asks(i, root[i], Place(i))
    /\ pc[i] = "print" => cache[Key(i)] # None
    /\ pc[i] = "record" => /\ reply[i] \in Answers /\ Key(i) \in called[i]
                           /\ failures[i][Key(i)] = None
                           /\ recorder[Key(i)] # i

CalledInv ==
  \A i \in Invocations, k \in Keys :
    /\ failures[i][k] # None => k \in called[i] /\ ~failures[i][k].ok
    /\ k \in called[i] => \/ Known(i, k) # None
                          \/ pc[i] = "record" /\ Key(i) = k
                          \/ pc[i] \in Over

\* The answers an invocation has had from its caching shims.
SeenInv ==
  \A i \in Invocations, r \in Roots, p \in Positions, k \in Keys :
    (/\ Asks(i, r, p) /\ seen[i][r][p] # None /\ k \in CommandAt(p).keys) =>
      /\ Known(i, k) # None
      /\ recorder[k] \in {i, None} => seen[i][r][p] = Known(i, k)
      /\ ~seen[i][r][p].ok => k \in called[i]
      /\ pc[i] = "record" => Key(i) # k

ShadowInv == TypeOK /\ CacheInv /\ StepInv /\ CalledInv /\ SeenInv

-----------------------------------------------------------------------------
(* Commands and keys *)

LEMMA CommandsType ==
  ASSUME workload \in Workloads, NEW p \in Positions
  PROVE  /\ CommandAt(p) \in Commands /\ CommandAt(p).keys # {}
         /\ CommandAt(p).kind # "urls" => \E k \in Keys : CommandAt(p).keys = {k}
<1>1. /\ Selected \in Seq(Downloaders)
      /\ ScriptOf \in [Downloaders -> Seq(Commands) \ {<<>>}]
  BY ScriptsAssumption DEF Selected
<1>2. PICK n \in DOMAIN Selected : p \in {<<n, k>> : k \in DOMAIN ScriptOf[Selected[n]]}
  BY DEF Positions
<1>3. PICK k \in DOMAIN ScriptOf[Selected[n]] : p = <<n, k>>
  BY <1>2
<1>4. Selected[n] \in Downloaders
  BY <1>1
<1>5. ScriptOf[Selected[n]][k] \in Commands
  BY <1>1, <1>4
<1> QED BY <1>3, <1>4, <1>5, ScriptsAssumption DEF CommandAt

LEMMA PlaceType ==
  ASSUME TypeOK, NEW i \in Invocations, InRange(i)
  PROVE  /\ Place(i) \in Positions /\ Command(i) = CommandAt(Place(i))
         /\ Key(i) \in Command(i).keys /\ Key(i) \in Keys
         /\ Command(i).kind # "urls" => Command(i).keys = {Key(i)}
         /\ Command(i) \in Commands /\ Downloader(i) \in Downloaders
<1>1. /\ Selected \in Seq(Downloaders) /\ script[i] \in DOMAIN Selected
      /\ ScriptOf \in [Downloaders -> Seq(Commands) \ {<<>>}]
  BY ScriptsAssumption DEF TypeOK, Selected
<1>2. Downloader(i) \in Downloaders
  BY <1>1 DEF Downloader
<1>3. at[i] \in DOMAIN ScriptOf[Selected[script[i]]]
  BY <1>1, <1>2 DEF InRange, Downloader
<1>4. Place(i) \in Positions
  BY <1>1, <1>3 DEF Place, Positions
<1>5. /\ Command(i) \in Commands /\ Command(i).keys # {}
      /\ Command(i).kind # "urls" => \E k \in Keys : Command(i).keys = {k}
  BY <1>4, CommandsType DEF Command, TypeOK
<1>6. Key(i) \in Command(i).keys /\ Command(i).keys \subseteq Keys
  BY <1>5 DEF Key, Commands
<1> QED BY <1>2, <1>4, <1>5, <1>6 DEF Command

\* Of a command that is asked of the cache, the key is all.
LEMMA AskedKey ==
  ASSUME TypeOK, NEW i \in Invocations, InRange(i), Asks(i, root[i], Place(i))
  PROVE  CommandAt(Place(i)).keys = {Key(i)}
BY PlaceType DEF Asks, Recorded

LEMMA AtCommandInRange ==
  ASSUME TypeOK, NEW i \in Invocations, AtCommand(i)
  PROVE  InRange(i)
<1>1. Selected \in Seq(Downloaders) /\ script[i] \in DOMAIN Selected
  BY ScriptsAssumption DEF TypeOK, Selected
<1>2. Downloader(i) \in Downloaders
  BY <1>1 DEF Downloader
<1>3. Len(ScriptOf[Downloader(i)]) \in Nat
  BY <1>2, ScriptsAssumption
<1> QED BY <1>3 DEF AtCommand, InRange, TypeOK

LEMMA PlaceKept ==
  ASSUME NEW i, workload' = workload, script'[i] = script[i], at'[i] = at[i]
  PROVE  /\ Place(i)' = Place(i) /\ Key(i)' = Key(i) /\ InRange(i)' = InRange(i)
         /\ CommandAt(Place(i))' = CommandAt(Place(i))
BY DEF Place, Key, Command, CommandAt, Selected, InRange, Downloader

LEMMA SelectionKept ==
  ASSUME workload' = workload
  PROVE  /\ Positions' = Positions /\ NotSeen' = NotSeen /\ Selected' = Selected
         /\ \A p : CommandAt(p)' = CommandAt(p)
BY DEF Positions, NotSeen, CommandAt, Selected

-----------------------------------------------------------------------------
(* A script gets an answer *)

\* What an answer changes for its invocation alone.
LEMMA AnswerSteps ==
  ASSUME TypeOK, workload' = workload, NEW i \in Invocations, NEW a \in Answers,
         InRange(i), Answer(i, a)
  PROVE  /\ \A j \in Invocations \ {i} : /\ pc'[j] = pc[j] /\ at'[j] = at[j]
                                        /\ seen'[j] = seen[j]
         /\ pc' \in [Invocations -> {"idle", "run", "record", "print", "compare"}
                                    \cup Over]
         /\ pc'[i] \in {"run", "failed"}
         /\ at' \in [Invocations -> Nat \ {0}]
         /\ scratch' \in [Downloaders -> SUBSET Addresses]
         /\ UNCHANGED <<reference, root, script, output, differences>>
         /\ seen' \in [Invocations ->
                         [Roots -> [Positions' -> Answers \cup {None}]]]
         /\ \A r \in Roots, p \in Positions :
              seen'[i][r][p] = IF r = root[i] /\ p = Place(i) THEN a
                               ELSE seen[i][r][p]
<1>1. Place(i) \in Positions /\ Downloader(i) \in Downloaders /\ root[i] \in Roots
  BY PlaceType DEF TypeOK
<1>2. /\ pc \in [Invocations -> {"idle", "run", "record", "print", "compare"}
                                 \cup Over]
      /\ at \in [Invocations -> Nat \ {0}]
      /\ scratch \in [Downloaders -> SUBSET Addresses]
      /\ seen \in [Invocations -> [Roots -> [Positions -> Answers \cup {None}]]]
  BY DEF TypeOK
<1>3. a.body \in SUBSET Addresses
  BY DEF Answers
<1>4. scratch' \in [Downloaders -> SUBSET Addresses]
  BY <1>1, <1>2, <1>3 DEF Answer
<1>5. /\ \A j \in Invocations \ {i} : pc'[j] = pc[j]
      /\ pc' \in [Invocations -> {"idle", "run", "record", "print", "compare"}
                                 \cup Over]
      /\ pc'[i] \in {"run", "failed"}
  <2>1. \/ pc' = [pc EXCEPT ![i] = "run"]
        \/ pc' = [pc EXCEPT ![i] = "failed"]
    BY DEF Answer
  <2> QED BY <1>2, <2>1 DEF Over
<1>6. /\ \A j \in Invocations \ {i} : at'[j] = at[j]
      /\ at' \in [Invocations -> Nat \ {0}]
  <2>1. at' = [at EXCEPT ![i] = @ + 1]
    BY DEF Answer
  <2> QED BY <1>2, <2>1
<1>7. seen' = [seen EXCEPT ![i][root[i]][Place(i)] = a]
  BY DEF Answer
<1>8. /\ \A j \in Invocations \ {i} : seen'[j] = seen[j]
      /\ seen'[i] = [seen[i] EXCEPT ![root[i]][Place(i)] = a]
  BY <1>2, <1>7
<1>9. [seen[i][root[i]] EXCEPT ![Place(i)] = a] \in [Positions -> Answers \cup {None}]
  BY <1>1, <1>2
<1>10. /\ seen'[i] \in [Roots -> [Positions -> Answers \cup {None}]]
       /\ \A r \in Roots, p \in Positions :
            seen'[i][r][p] = IF r = root[i] /\ p = Place(i) THEN a ELSE seen[i][r][p]
  BY <1>1, <1>2, <1>8, <1>9
<1>11. seen' \in [Invocations -> [Roots -> [Positions' -> Answers \cup {None}]]]
  BY <1>2, <1>7, <1>8, <1>10, SelectionKept
<1> QED BY <1>4, <1>5, <1>6, <1>8, <1>10, <1>11 DEF Answer

\* An answer that is what a shim of the invocation prints keeps the invariant.
LEMMA AnswerKeeps ==
  ASSUME ShadowInv, workload' = workload, NEW i \in Invocations, NEW a \in Answers,
         NEW k0, k0 = Key(i), InRange(i), Answer(i, a), pc[i] \in {"run", "record", "print"},
         UNCHANGED <<cache, recorder, called>>,
         \/ UNCHANGED <<failures, reply>> /\ pc[i] # "record"
         \/ /\ pc[i] = "record" /\ ~a.ok
            /\ failures' = [failures EXCEPT ![i][k0] = a]
            /\ reply' = [reply EXCEPT ![i] = None],
         Asks(i, root[i], Place(i)) =>
           /\ Known(i, k0)' # None
           /\ recorder[k0] \in {i, None} => a = Known(i, k0)'
           /\ ~a.ok => k0 \in called[i]
  PROVE  ShadowInv'
<1> DEFINE p0 == Place(i)
<1> HIDE DEF p0
<1>0. TypeOK /\ None \notin Answers
  BY RepliesAssumption DEF ShadowInv
<1>1. /\ p0 \in Positions /\ k0 \in Keys
      /\ Asks(i, root[i], p0) => CommandAt(p0).keys = {k0}
      /\ root[i] \in Roots
  BY <1>0, PlaceType, AskedKey DEF p0, TypeOK
<1>2. /\ \A j \in Invocations \ {i} : /\ pc'[j] = pc[j] /\ at'[j] = at[j]
                                     /\ seen'[j] = seen[j]
      /\ pc' \in [Invocations -> {"idle", "run", "record", "print", "compare"}
                                 \cup Over]
      /\ pc'[i] \in {"run", "failed"}
      /\ at' \in [Invocations -> Nat \ {0}]
      /\ scratch' \in [Downloaders -> SUBSET Addresses]
      /\ UNCHANGED <<reference, root, script, output, differences>>
      /\ seen' \in [Invocations -> [Roots -> [Positions' -> Answers \cup {None}]]]
      /\ \A r \in Roots, p \in Positions :
           seen'[i][r][p] = IF r = root[i] /\ p = p0 THEN a ELSE seen[i][r][p]
  BY <1>0, AnswerSteps DEF p0
<1>3. /\ \A j \in Invocations \ {i} :
           failures'[j] = failures[j] /\ reply'[j] = reply[j]
      /\ failures' \in [Invocations -> [Keys -> Answers \cup {None}]]
      /\ reply' \in [Invocations -> Answers \cup {None}]
      /\ \A k \in Keys : failures'[i][k] =
           IF pc[i] = "record" /\ k = k0 THEN a ELSE failures[i][k]
  <2>1. /\ failures \in [Invocations -> [Keys -> Answers \cup {None}]]
        /\ reply \in [Invocations -> Answers \cup {None}]
    BY <1>0 DEF TypeOK
  <2>2. CASE UNCHANGED <<failures, reply>> /\ pc[i] # "record"
    BY <2>1, <2>2
  <2>3. CASE /\ pc[i] = "record" /\ ~a.ok
             /\ failures' = [failures EXCEPT ![i][k0] = a]
             /\ reply' = [reply EXCEPT ![i] = None]
    <3>1. [failures[i] EXCEPT ![k0] = a] \in [Keys -> Answers \cup {None}]
      BY <1>1, <2>1
    <3> QED BY <1>1, <2>1, <2>3, <3>1
  <2> QED BY <2>2, <2>3
<1>4. \A j \in Invocations \ {i} : /\ Key(j)' = Key(j) /\ InRange(j)' = InRange(j)
                                  /\ CommandAt(Place(j))' = CommandAt(Place(j))
  BY <1>2, PlaceKept
<1>5. /\ Positions' = Positions /\ NotSeen' = NotSeen
      /\ \A p : CommandAt(p)' = CommandAt(p)
  BY SelectionKept
<1>6. \A j \in Invocations, r \in Roots : \A p : Asks(j, r, p)' <=> Asks(j, r, p)
  BY <1>2, <1>5 DEF Asks
<1>7. /\ \A j \in Invocations \ {i}, k \in Keys : Known(j, k)' = Known(j, k)
      /\ \A k \in Keys : Known(i, k)' = IF cache[k] # None THEN cache[k] ELSE
           IF pc[i] = "record" /\ k = k0 THEN a ELSE failures[i][k]
  BY <1>3 DEF Known
<1>8. TypeOK'
  BY <1>0, <1>2, <1>3 DEF TypeOK, Selected
<1>9. CacheInv'
  BY DEF CacheInv, ShadowInv
<1>10. StepInv'
  <2> SUFFICES ASSUME NEW j \in Invocations PROVE StepInv!(j)'
    BY DEF StepInv
  <2>1. StepInv!(j)
    BY DEF ShadowInv, StepInv
  <2>2. CASE j # i
    <3>1. /\ pc'[j] = pc[j] /\ seen'[j] = seen[j] /\ root'[j] = root[j]
          /\ reference'[j] = reference[j] /\ reply'[j] = reply[j]
          /\ failures'[j] = failures[j] /\ cache' = cache /\ recorder' = recorder
          /\ called' = called /\ Key(j)' = Key(j) /\ InRange(j)' = InRange(j)
          /\ CommandAt(Place(j))' = CommandAt(Place(j))
      BY <1>2, <1>3, <1>4, <2>2
    <3> QED BY <1>5, <2>1, <3>1 DEF Asks
  <2>3. CASE j = i
    <3>1. \A p \in Positions : seen[i]["reference"][p] # None =>
            reference[i] = "cached-whois"
      BY <2>1, <2>3
    <3>2. root[i] = "reference" => reference[i] = "cached-whois"
      BY <2>1, <2>3
    <3> QED BY <1>2, <1>5, <2>3, <3>1, <3>2
  <2> QED BY <2>2, <2>3
<1>11. CalledInv'
  <2> SUFFICES ASSUME NEW j \in Invocations, NEW k \in Keys
               PROVE  CalledInv!(j, k)'
    BY DEF CalledInv
  <2>1. CalledInv!(j, k)
    BY DEF ShadowInv, CalledInv
  <2>2. CASE j # i
    BY <1>2, <1>3, <1>4, <1>7, <2>1, <2>2
  <2>3. CASE j = i
    <3>1. pc[i] = "record" => k0 \in called[i] /\ ~a.ok
      BY DEF ShadowInv, StepInv
    <3> QED BY <1>0, <1>2, <1>3, <1>7, <2>1, <2>3, <3>1 DEF Known
  <2> QED BY <2>2, <2>3
<1>12. SeenInv'
  <2> SUFFICES ASSUME NEW j \in Invocations, NEW r \in Roots, NEW p \in Positions,
                      NEW k \in Keys, Asks(j, r, p), seen'[j][r][p] # None,
                      k \in CommandAt(p).keys
               PROVE  /\ Known(j, k)' # None
                      /\ recorder[k] \in {j, None} => seen'[j][r][p] = Known(j, k)'
                      /\ ~seen'[j][r][p].ok => k \in called[j]
                      /\ pc'[j] = "record" => Key(j)' # k
    BY <1>5, <1>6 DEF SeenInv
  <2>1. seen[j][r][p] # None =>
          /\ Known(j, k) # None
          /\ recorder[k] \in {j, None} => seen[j][r][p] = Known(j, k)
          /\ ~seen[j][r][p].ok => k \in called[j]
          /\ pc[j] = "record" => Key(j) # k
    BY DEF ShadowInv, SeenInv
  <2>2. CASE j # i
    BY <1>2, <1>4, <1>7, <2>1, <2>2
  <2>3. CASE j = i /\ r = root[i] /\ p = p0
    <3>1. k = k0
      BY <1>1, <2>3
    <3>2. /\ Known(i, k0)' # None
          /\ recorder[k0] \in {i, None} => a = Known(i, k0)'
          /\ ~a.ok => k0 \in called[i]
      BY <1>3, <2>3 DEF p0, Known
    <3>3. seen'[i][r][p] = a /\ pc'[i] # "record"
      BY <1>2, <2>3
    <3> QED BY <2>3, <3>1, <3>2, <3>3 DEF Known
  <2>4. CASE j = i /\ ~(r = root[i] /\ p = p0)
    <3>1. seen'[i][r][p] = seen[i][r][p]
      BY <1>2, <2>4
    <3>2. pc[i] = "record" => k # k0
      BY <2>1, <2>4, <3>1
    <3> QED BY <1>2, <1>7, <2>1, <2>4, <3>1, <3>2 DEF Known
  <2> QED BY <2>2, <2>3, <2>4
<1> QED BY <1>8, <1>9, <1>10, <1>11, <1>12 DEF ShadowInv

LEMMA AskIndexKeeps ==
  ASSUME ShadowInv, workload' = workload, NEW i \in Invocations, AskIndex(i)
  PROVE  ShadowInv'
<1>1. PICK a \in IndexReplies : Answer(i, a)
  BY DEF AskIndex
<1>2. a \in Answers /\ InRange(i) /\ pc[i] = "run"
  BY <1>1, RepliesAssumption, AtCommandInRange DEF AskIndex, AtCommand, ShadowInv
<1>3. ~Asks(i, root[i], Place(i))
  BY DEF Asks, Recorded, AskIndex, Command
<1> QED BY <1>1, <1>2, <1>3, AnswerKeeps DEF AskIndex, fileVars

LEMMA HitKeeps ==
  ASSUME ShadowInv, workload' = workload, NEW i \in Invocations,
         Hit(i) \/ ReplayFailure(i)
  PROVE  ShadowInv'
<1>1. /\ TypeOK /\ InRange(i) /\ pc[i] = "run"
      /\ UNCHANGED <<cache, recorder, failures, called, reply>>
  BY AtCommandInRange DEF Hit, ReplayFailure, Caching, AtCommand, ShadowInv, fileVars
<1>2. PICK k0 : k0 = Key(i)
  OBVIOUS
<1>3. k0 \in Keys
  BY <1>1, <1>2, PlaceType
<1>4. PICK a : a = Known(i, k0) /\ a # None /\ Answer(i, a)
  BY <1>2 DEF Hit, ReplayFailure, Known, KnownFailures
<1>5. Known(i, k0)' = Known(i, k0)
  BY <1>1 DEF Known
<1>6. a \in Answers
  BY <1>1, <1>3, <1>4 DEF Known, TypeOK
<1>7. ~a.ok => k0 \in called[i]
  BY <1>3, <1>4 DEF Known, ShadowInv, CacheInv, CalledInv
<1> QED BY <1>1, <1>2, <1>4, <1>5, <1>6, <1>7, AnswerKeeps

LEMMA PrintRecordedKeeps ==
  ASSUME ShadowInv, workload' = workload, NEW i \in Invocations, PrintRecorded(i)
  PROVE  ShadowInv'
<1>1. /\ TypeOK /\ InRange(i) /\ pc[i] = "print" /\ cache[Key(i)] # None
      /\ UNCHANGED <<cache, recorder, failures, called, reply>>
  BY DEF PrintRecorded, ShadowInv, StepInv, fileVars
<1>2. PICK k0 : k0 = Key(i)
  OBVIOUS
<1>3. k0 \in Keys
  BY <1>1, <1>2, PlaceType
<1>4. cache[k0] \in Answers /\ cache[k0].ok /\ Answer(i, cache[k0])
  BY <1>1, <1>2, <1>3 DEF PrintRecorded, TypeOK, ShadowInv, CacheInv
<1>5. Known(i, k0)' = cache[k0] /\ cache[k0] # None
  BY <1>1, <1>2 DEF Known
<1>6. PICK a : a = cache[k0]
  OBVIOUS
<1> QED BY <1>1, <1>2, <1>4, <1>5, <1>6, AnswerKeeps

LEMMA RecordFailureKeeps ==
  ASSUME ShadowInv, workload' = workload, NEW i \in Invocations, RecordFailure(i)
  PROVE  ShadowInv'
<1>1. /\ TypeOK /\ InRange(i) /\ pc[i] = "record" /\ reply[i] \in Answers
      /\ Key(i) \in called[i] /\ recorder[Key(i)] # i
      /\ UNCHANGED <<cache, recorder, called>>
  BY DEF RecordFailure, ShadowInv, StepInv
<1>2. PICK k0 : k0 = Key(i)
  OBVIOUS
<1>3. k0 \in Keys
  BY <1>1, <1>2, PlaceType
<1>4. PICK a \in Answers : a = reply[i]
  BY <1>1
<1>5. /\ ~a.ok /\ Answer(i, a)
      /\ failures' = [failures EXCEPT ![i][k0] = a]
      /\ reply' = [reply EXCEPT ![i] = None]
  BY <1>2, <1>4 DEF RecordFailure
<1>6. Known(i, k0)' = IF cache[k0] # None THEN cache[k0] ELSE a
  BY <1>1, <1>3, <1>5 DEF Known, TypeOK
<1>7. Known(i, k0)' # None /\ (recorder[k0] \in {i, None} => a = Known(i, k0)')
  BY <1>1, <1>2, <1>3, <1>6, RepliesAssumption DEF ShadowInv, CacheInv
<1> QED BY <1>1, <1>2, <1>4, <1>5, <1>7, AnswerKeeps

LEMMA ReplayAllKeeps ==
  ASSUME ShadowInv, workload' = workload, NEW i \in Invocations, ReplayAll(i)
  PROVE  ShadowInv'
<1>1. /\ TypeOK /\ InRange(i) /\ pc[i] = "run"
      /\ UNCHANGED <<cache, recorder, failures, called, reply>>
  BY AtCommandInRange DEF ReplayAll, AtCommand, ShadowInv, fileVars
<1>2. PICK a : /\ a = [ok |-> TRUE,
                       body |-> UNION {cache[k].body : k \in Command(i).keys}]
               /\ Answer(i, a)
  BY DEF ReplayAll
<1>3. Command(i).keys \subseteq Keys
  BY <1>1, PlaceType DEF Commands
<1>4. \A k \in Command(i).keys : cache[k].body \subseteq Addresses
  <2> TAKE k \in Command(i).keys
  <2>1. cache[k] \in Answers
    BY <1>1, <1>3 DEF ReplayAll, AllCached, TypeOK
  <2> QED BY <2>1 DEF Answers
<1>5. a \in Answers
  BY <1>2, <1>4 DEF Answers
<1>6. ~Asks(i, root[i], Place(i))
  BY DEF Asks, Recorded, ReplayAll, AllCached, Command
<1> QED BY <1>1, <1>2, <1>5, <1>6, AnswerKeeps

LEMMA PassThroughKeeps ==
  ASSUME ShadowInv, workload' = workload, NEW i \in Invocations, PassThrough(i)
  PROVE  ShadowInv'
<1>1. /\ TypeOK /\ InRange(i) /\ pc[i] = "run"
      /\ UNCHANGED <<cache, recorder, failures, called, reply>>
  BY AtCommandInRange DEF PassThrough, AtCommand, ShadowInv, fileVars
<1>2. PICK k \in Command(i).keys : \E a \in Replies[k] : Answer(i, a)
  BY DEF PassThrough
<1>3. k \in Keys
  BY <1>1, PlaceType DEF Commands
<1>4. PICK a \in Answers : Answer(i, a)
  BY <1>2, <1>3, RepliesAssumption
<1>5. ~Asks(i, root[i], Place(i))
  BY DEF Asks, PassThrough, Caching, Command
<1> QED BY <1>1, <1>4, <1>5, AnswerKeeps

-----------------------------------------------------------------------------
(* The other steps *)

LEMMA RunRealKeeps ==
  ASSUME ShadowInv, workload' = workload, NEW i \in Invocations, RunReal(i)
  PROVE  ShadowInv' /\ Key(i) \notin called[i]
<1>0. TypeOK /\ InRange(i) /\ pc[i] = "run"
  BY AtCommandInRange DEF RunReal, Caching, AtCommand, ShadowInv
<1>1. PICK k0 : k0 = Key(i)
  OBVIOUS
<1>2. /\ k0 \in Keys /\ cache[k0] = None /\ failures[i][k0] = None
      /\ Asks(i, root[i], Place(i))
  BY <1>0, <1>1, PlaceType DEF RunReal, KnownFailures, Caching, Asks, Command
<1>3. PICK a \in Replies[k0] : reply' = [reply EXCEPT ![i] = a]
  BY <1>1 DEF RunReal
<1>4. a \in Answers
  BY <1>2, <1>3, RepliesAssumption
<1>5. /\ called' = [called EXCEPT ![i] = @ \cup {k0}]
      /\ pc' = [pc EXCEPT ![i] = "record"]
      /\ UNCHANGED <<cache, recorder, scratch, reference, root, script, at,
                     failures, seen, output, differences>>
  BY <1>1 DEF RunReal
<1>6. TypeOK'
  BY <1>0, <1>2, <1>3, <1>4, <1>5, SelectionKept DEF TypeOK
<1>7. \A j \in Invocations : /\ Key(j)' = Key(j) /\ InRange(j)' = InRange(j)
                            /\ CommandAt(Place(j))' = CommandAt(Place(j))
  BY <1>5, PlaceKept
<1>8. /\ Positions' = Positions /\ NotSeen' = NotSeen
      /\ \A p : CommandAt(p)' = CommandAt(p)
  BY SelectionKept
<1>9. /\ \A j \in Invocations \ {i} : /\ pc'[j] = pc[j] /\ reply'[j] = reply[j]
                                     /\ called'[j] = called[j]
      /\ pc'[i] = "record" /\ reply'[i] = a /\ called'[i] = called[i] \cup {k0}
  BY <1>0, <1>3, <1>5 DEF TypeOK
<1>10. CacheInv'
  BY <1>5 DEF CacheInv, ShadowInv
<1>11. \A j \in Invocations, k \in Keys : Known(j, k)' = Known(j, k)
  BY <1>5 DEF Known
<1>12. Known(i, k0) = None
  BY <1>2 DEF Known
<1>13. k0 \notin called[i]
  BY <1>0, <1>2, <1>12 DEF ShadowInv, CalledInv
<1>14. StepInv'
  <2> SUFFICES ASSUME NEW j \in Invocations PROVE StepInv!(j)'
    BY DEF StepInv
  <2>1. StepInv!(j)
    BY DEF ShadowInv, StepInv
  <2>2. CASE j # i
    BY <1>5, <1>7, <1>8, <1>9, <2>1, <2>2 DEF Asks
  <2>3. CASE j = i
    <3>1. recorder[k0] = None /\ i # None
      BY <1>2, RepliesAssumption DEF ShadowInv, CacheInv
    <3>2. Key(i)' = k0 /\ InRange(i)' /\ Asks(i, root[i], Place(i))'
      BY <1>0, <1>1, <1>2, <1>5, <1>7 DEF Asks
    <3>3. /\ root[i] = "reference" => reference[i] = "cached-whois"
          /\ \A p \in Positions : seen[i]["reference"][p] # None =>
               reference[i] = "cached-whois"
      BY <2>1, <2>3
    <3> QED BY <1>2, <1>4, <1>5, <1>8, <1>9, <2>3, <3>1, <3>2, <3>3
  <2> QED BY <2>2, <2>3
<1>15. CalledInv'
  <2> SUFFICES ASSUME NEW j \in Invocations, NEW k \in Keys
               PROVE  CalledInv!(j, k)'
    BY DEF CalledInv
  <2>1. CalledInv!(j, k)
    BY DEF ShadowInv, CalledInv
  <2>2. CASE j # i
    BY <1>5, <1>7, <1>9, <1>11, <2>1, <2>2
  <2>3. CASE j = i
    BY <1>0, <1>1, <1>5, <1>7, <1>9, <1>11, <2>1, <2>3
  <2> QED BY <2>2, <2>3
<1>16. SeenInv'
  <2> SUFFICES ASSUME NEW j \in Invocations, NEW r \in Roots, NEW p \in Positions,
                      NEW k \in Keys, Asks(j, r, p), seen[j][r][p] # None,
                      k \in CommandAt(p).keys
               PROVE  /\ Known(j, k)' # None
                      /\ recorder[k] \in {j, None} => seen[j][r][p] = Known(j, k)'
                      /\ ~seen[j][r][p].ok => k \in called'[j]
                      /\ pc'[j] = "record" => Key(j)' # k
    BY <1>5, <1>8 DEF SeenInv, Asks
  <2>1. /\ Known(j, k) # None
        /\ recorder[k] \in {j, None} => seen[j][r][p] = Known(j, k)
        /\ ~seen[j][r][p].ok => k \in called[j]
        /\ pc[j] = "record" => Key(j) # k
    BY DEF ShadowInv, SeenInv
  <2>2. k \in called[j] => k \in called'[j]
    BY <1>9
  <2>3. pc'[j] = "record" => Key(j)' # k
    BY <1>1, <1>7, <1>9, <1>12, <2>1
  <2> QED BY <1>11, <2>1, <2>2, <2>3
<1> QED BY <1>1, <1>6, <1>10, <1>13, <1>14, <1>15, <1>16 DEF ShadowInv

LEMMA RecordSuccessKeeps ==
  ASSUME ShadowInv, workload' = workload, NEW i \in Invocations, RecordSuccess(i)
  PROVE  ShadowInv'
<1>0. /\ TypeOK /\ InRange(i) /\ pc[i] = "record" /\ reply[i] \in Answers
      /\ Asks(i, root[i], Place(i))
  BY DEF RecordSuccess, ShadowInv, StepInv
<1>1. PICK k0 : k0 = Key(i)
  OBVIOUS
<1>2. k0 \in Keys
  BY <1>0, <1>1, PlaceType
<1>3. PICK a \in Answers : a = reply[i] /\ a # None
  BY <1>0, RepliesAssumption
<1>4. /\ a.ok
      /\ cache' = [cache EXCEPT ![k0] = a]
      /\ recorder' = [recorder EXCEPT ![k0] = i]
      /\ reply' = [reply EXCEPT ![i] = None]
      /\ pc' = [pc EXCEPT ![i] = "print"]
      /\ UNCHANGED <<scratch, reference, root, script, at, failures, called, seen,
                     output, differences>>
  BY <1>1, <1>3 DEF RecordSuccess
<1>5. TypeOK'
  BY <1>0, <1>2, <1>3, <1>4, SelectionKept DEF TypeOK
<1>6. /\ cache'[k0] = a /\ \A k \in Keys \ {k0} : cache'[k] = cache[k]
      /\ recorder'[k0] = i /\ \A k \in Keys \ {k0} : recorder'[k] = recorder[k]
      /\ \A j \in Invocations \ {i} : reply'[j] = reply[j] /\ pc'[j] = pc[j]
      /\ pc'[i] = "print" /\ i # None
  BY <1>0, <1>2, <1>4, RepliesAssumption DEF TypeOK
<1>7. \A j \in Invocations : /\ Key(j)' = Key(j) /\ InRange(j)' = InRange(j)
                            /\ CommandAt(Place(j))' = CommandAt(Place(j))
  BY <1>4, PlaceKept
<1>8. /\ Positions' = Positions /\ NotSeen' = NotSeen
      /\ \A p : CommandAt(p)' = CommandAt(p)
  BY SelectionKept
<1>9. \A j \in Invocations, k \in Keys :
        Known(j, k)' = IF k = k0 THEN a ELSE Known(j, k)
  BY <1>3, <1>4, <1>6 DEF Known
<1>10. CacheInv'
  BY <1>3, <1>4, <1>6 DEF CacheInv, ShadowInv
<1>11. StepInv'
  <2> SUFFICES ASSUME NEW j \in Invocations PROVE StepInv!(j)'
    BY DEF StepInv
  <2>1. StepInv!(j)
    BY DEF ShadowInv, StepInv
  <2>2. /\ pc[j] = "idle" => seen[j] = NotSeen /\ root[j] = "candidate"
        /\ root[j] = "reference" => reference[j] = "cached-whois"
        /\ \A p \in Positions : seen[j]["reference"][p] # None =>
             reference[j] = "cached-whois"
    BY <2>1
  <2>3. CASE j # i
    <3>1. pc[j] \in {"record", "print"} =>
            /\ InRange(j)' /\ Asks(j, root[j], Place(j))' /\ Key(j) \in Keys
      BY <1>0, <1>4, <1>7, <2>1, PlaceType DEF Asks
    <3>2. pc[j] = "print" => cache'[Key(j)] # None
      BY <1>3, <1>6, <2>1, <3>1
    <3>3. pc[j] = "record" => recorder'[Key(j)] # j
      BY <1>6, <2>1, <2>3, <3>1
    <3> QED BY <1>4, <1>6, <1>7, <1>8, <2>1, <2>3, <3>1, <3>2, <3>3
  <2>4. CASE j = i
    <3>1. InRange(i)' /\ Asks(i, root[i], Place(i))' /\ Key(i)' = k0
      BY <1>0, <1>1, <1>4, <1>7 DEF Asks
    <3> QED BY <1>3, <1>4, <1>6, <1>8, <2>2, <2>4, <3>1
  <2> QED BY <2>3, <2>4
<1>12. CalledInv'
  <2> SUFFICES ASSUME NEW j \in Invocations, NEW k \in Keys
               PROVE  CalledInv!(j, k)'
    BY DEF CalledInv
  <2>1. CalledInv!(j, k)
    BY DEF ShadowInv, CalledInv
  <2>2. CASE k = k0
    BY <1>3, <1>4, <1>9, <2>1, <2>2
  <2>3. CASE k # k0
    <3>1. Known(j, k)' = Known(j, k)
      BY <1>9, <2>3
    <3>2. pc[j] = "record" /\ Key(j) = k => pc'[j] = "record" /\ Key(j)' = k
      BY <1>1, <1>6, <1>7, <2>3
    <3>3. pc[j] \in Over => pc'[j] \in Over
      BY <1>0, <1>6
    <3> QED BY <1>4, <2>1, <3>1, <3>2, <3>3
  <2> QED BY <2>2, <2>3
<1>13. SeenInv'
  <2> SUFFICES ASSUME NEW j \in Invocations, NEW r \in Roots, NEW p \in Positions,
                      NEW k \in Keys, Asks(j, r, p), seen[j][r][p] # None,
                      k \in CommandAt(p).keys
               PROVE  /\ Known(j, k)' # None
                      /\ recorder'[k] \in {j, None} => seen[j][r][p] = Known(j, k)'
                      /\ ~seen[j][r][p].ok => k \in called[j]
                      /\ pc'[j] = "record" => Key(j)' # k
    BY <1>4, <1>8 DEF SeenInv, Asks
  <2>1. /\ Known(j, k) # None
        /\ recorder[k] \in {j, None} => seen[j][r][p] = Known(j, k)
        /\ ~seen[j][r][p].ok => k \in called[j]
        /\ pc[j] = "record" => Key(j) # k
    BY DEF ShadowInv, SeenInv
  <2>2. pc'[j] = "record" => Key(j)' # k
    BY <1>6, <1>7, <2>1
  <2>3. CASE k = k0
    <3>1. j # i
      BY <1>0, <1>1, <2>1, <2>3
    <3> QED BY <1>3, <1>6, <1>9, <2>1, <2>2, <2>3, <3>1
  <2>4. CASE k # k0
    BY <1>6, <1>9, <2>1, <2>2, <2>4
  <2> QED BY <2>3, <2>4
<1> QED BY <1>5, <1>10, <1>11, <1>12, <1>13 DEF ShadowInv

\* A step that leaves the answers alone, and begins or ends no request.
LEMMA QuietKeeps ==
  ASSUME ShadowInv, TypeOK', workload' = workload, NEW i \in Invocations,
         UNCHANGED <<cache, recorder, reply, failures, called, seen>>,
         \A j \in Invocations \ {i} :
           /\ pc'[j] = pc[j] /\ reference'[j] = reference[j] /\ root'[j] = root[j]
           /\ script'[j] = script[j] /\ at'[j] = at[j],
         pc[i] \notin Over, pc'[i] \notin {"idle", "record", "print"},
         pc[i] = "record" => pc'[i] \in Over,
         seen[i] = NotSeen \/ reference'[i] = reference[i],
         root'[i] = "reference" => reference'[i] = "cached-whois"
  PROVE  ShadowInv'
<1>1. \A j \in Invocations \ {i} : /\ Key(j)' = Key(j) /\ InRange(j)' = InRange(j)
                                  /\ CommandAt(Place(j))' = CommandAt(Place(j))
  BY PlaceKept
<1>2. /\ Positions' = Positions /\ NotSeen' = NotSeen
      /\ \A p : CommandAt(p)' = CommandAt(p)
  BY SelectionKept
<1>3. \A j \in Invocations, k \in Keys : Known(j, k)' = Known(j, k)
  BY DEF Known
<1>4. seen[i] = NotSeen => \A r \in Roots, p \in Positions : seen[i][r][p] = None
  BY DEF NotSeen
<1>5. CacheInv'
  BY DEF CacheInv, ShadowInv
<1>6. StepInv'
  <2> SUFFICES ASSUME NEW j \in Invocations PROVE StepInv!(j)'
    BY DEF StepInv
  <2>1. StepInv!(j)
    BY DEF ShadowInv, StepInv
  <2>2. CASE j # i
    BY <1>1, <1>2, <2>1, <2>2 DEF Asks
  <2>3. CASE j = i
    <3>1. \A p \in Positions : seen[i]["reference"][p] # None =>
            reference'[i] = "cached-whois"
      BY <1>4, <2>1, <2>3
    <3> QED BY <1>2, <2>3, <3>1
  <2> QED BY <2>2, <2>3
<1>7. CalledInv'
  <2> SUFFICES ASSUME NEW j \in Invocations, NEW k \in Keys
               PROVE  CalledInv!(j, k)'
    BY DEF CalledInv
  <2>1. CalledInv!(j, k)
    BY DEF ShadowInv, CalledInv
  <2> QED BY <1>1, <1>3, <2>1
<1>8. SeenInv'
  <2> SUFFICES ASSUME NEW j \in Invocations, NEW r \in Roots, NEW p \in Positions,
                      NEW k \in Keys, Asks(j, r, p)', seen[j][r][p] # None,
                      k \in CommandAt(p).keys
               PROVE  /\ Known(j, k)' # None
                      /\ recorder[k] \in {j, None} => seen[j][r][p] = Known(j, k)'
                      /\ ~seen[j][r][p].ok => k \in called[j]
                      /\ pc'[j] = "record" => Key(j)' # k
    BY <1>2 DEF SeenInv
  <2>1. Asks(j, r, p)
    BY <1>2, <1>4 DEF Asks
  <2>2. /\ Known(j, k) # None
        /\ recorder[k] \in {j, None} => seen[j][r][p] = Known(j, k)
        /\ ~seen[j][r][p].ok => k \in called[j]
        /\ pc[j] = "record" => Key(j) # k
    BY <2>1 DEF ShadowInv, SeenInv
  <2> QED BY <1>1, <1>3, <2>2
<1> QED BY <1>5, <1>6, <1>7, <1>8 DEF ShadowInv

LEMMA StartKeeps ==
  ASSUME ShadowInv, workload' = workload, NEW i \in Invocations,
         NEW ref \in References, Start(i, ref)
  PROVE  ShadowInv'
<1>1. /\ pc' = [pc EXCEPT ![i] = "run"]
      /\ reference' = [reference EXCEPT ![i] = ref]
      /\ root' = [root EXCEPT ![i] =
                    IF ref = "cached-whois" THEN "reference" ELSE "candidate"]
      /\ UNCHANGED <<cache, recorder, failures, called, reply, scratch, script, at,
                     seen, output, differences>>
      /\ pc[i] = "idle"
  BY DEF Start, fileVars
<1>2. TypeOK /\ seen[i] = NotSeen
  BY <1>1 DEF ShadowInv, StepInv
<1>3. TypeOK'
  BY <1>1, <1>2, SelectionKept, OptionsAssumption DEF TypeOK
<1>4. pc'[i] = "run" /\ (root'[i] = "reference" => reference'[i] = "cached-whois")
  BY <1>1, <1>2 DEF TypeOK
<1>5. \A j \in Invocations \ {i} :
        /\ pc'[j] = pc[j] /\ reference'[j] = reference[j] /\ root'[j] = root[j]
        /\ script'[j] = script[j] /\ at'[j] = at[j]
  BY <1>1, <1>2 DEF TypeOK
<1> QED BY <1>1, <1>2, <1>3, <1>4, <1>5, QuietKeeps

LEMMA FinishScriptKeeps ==
  ASSUME ShadowInv, workload' = workload, NEW i \in Invocations, FinishScript(i)
  PROVE  ShadowInv'
<1>0. TypeOK /\ (root[i] = "reference" => reference[i] = "cached-whois")
  BY DEF ShadowInv, StepInv
<1>1. /\ pc[i] = "run" /\ at' = [at EXCEPT ![i] = 1]
      /\ UNCHANGED <<cache, recorder, failures, called, reply, scratch, reference,
                     seen, differences>>
  BY DEF FinishScript, fileVars
<1>2. /\ pc' \in [Invocations -> {"idle", "run", "record", "print", "compare"}
                                 \cup Over]
      /\ root' \in [Invocations -> Roots]
      /\ pc'[i] \in {"run", "compare"} /\ root'[i] \in {root[i], "candidate"}
      /\ \A j \in Invocations \ {i} : /\ pc'[j] = pc[j] /\ root'[j] = root[j]
                                    /\ script'[j] = script[j] /\ at'[j] = at[j]
  BY <1>0, <1>1 DEF FinishScript, TypeOK
<1>3. Selected \in Seq(Downloaders) \ {<<>>} /\ script[i] \in DOMAIN Selected
  BY <1>0, ScriptsAssumption DEF TypeOK, Selected
<1>4. script' \in [Invocations -> DOMAIN Selected]
  <2>1. script[i] + 1 \in DOMAIN Selected \/ ~(script[i] < Len(Selected))
    BY <1>3
  <2>2. 1 \in DOMAIN Selected
    BY <1>3
  <2> QED BY <1>0, <2>1, <2>2 DEF FinishScript, TypeOK
<1>5. output' \in [Invocations ->
                     [Roots -> [Downloaders -> (SUBSET Addresses) \cup {None}]]]
  <2>1. Downloader(i) \in Downloaders /\ root[i] \in Roots
    BY <1>0, <1>3 DEF Downloader, TypeOK
  <2>2. scratch[Downloader(i)] \in (SUBSET Addresses) \cup {None}
    BY <1>0, <2>1 DEF TypeOK
  <2> QED BY <1>0, <2>1, <2>2 DEF FinishScript, TypeOK
<1>6. at' \in [Invocations -> Nat \ {0}]
  BY <1>0, <1>1 DEF TypeOK
<1>7. TypeOK'
  BY <1>0, <1>1, <1>2, <1>4, <1>5, <1>6, SelectionKept DEF TypeOK
<1> QED BY <1>0, <1>1, <1>2, <1>7, QuietKeeps

LEMMA EndKeeps ==
  ASSUME ShadowInv, workload' = workload, NEW i \in Invocations,
         ScriptFails(i) \/ Kill(i)
  PROVE  ShadowInv'
<1>1. /\ pc[i] \notin Over \cup {"idle"}
      /\ pc' = [pc EXCEPT ![i] = "failed"] \/ pc' = [pc EXCEPT ![i] = "killed"]
      /\ UNCHANGED <<cache, recorder, failures, called, reply, scratch, reference,
                     root, script, at, seen, output, differences>>
  BY DEF ScriptFails, Kill, fileVars
<1>2. TypeOK /\ (root[i] = "reference" => reference[i] = "cached-whois")
  BY DEF ShadowInv, StepInv
<1>3. TypeOK' /\ pc'[i] \in Over /\ \A j \in Invocations \ {i} : pc'[j] = pc[j]
  BY <1>1, <1>2, SelectionKept DEF TypeOK
<1> QED BY <1>1, <1>2, <1>3, QuietKeeps

-----------------------------------------------------------------------------
(* The lists written *)

\* Every downloader that is over in a work tree has written its lists.
OutputInv ==
  \A i \in Invocations, n \in DOMAIN Selected :
    /\ pc[i] = "idle" => script[i] = 1 /\ root[i] = "candidate"
    /\ n < script[i] \/ pc[i] = "compare" =>
         output[i][root[i]][Selected[n]] \in SUBSET Addresses
    /\ pc[i] = "compare" => root[i] = "candidate"
    /\ pc[i] # "idle" /\ root[i] = "candidate" /\ reference[i] = "cached-whois" =>
         output[i]["reference"][Selected[n]] \in SUBSET Addresses

LEMMA SelectedType ==
  ASSUME workload \in Workloads
  PROVE  /\ Selected \in Seq(Downloaders) \ {<<>>}
         /\ \A n \in DOMAIN Selected : n \in Nat /\ Selected[n] \in Downloaders
         /\ DOMAIN Selected = 1 .. Len(Selected) /\ Len(Selected) \in Nat
BY ScriptsAssumption DEF Selected

\* A step that leaves the outputs alone and goes to no other downloader.
LEMMA OutputQuiet ==
  ASSUME TypeOK, OutputInv, workload' = workload, NEW i \in Invocations,
         UNCHANGED <<script, output, root, reference>>, pc[i] # "idle",
         pc'[i] \notin {"idle", "compare"},
         \A j \in Invocations \ {i} : pc'[j] = pc[j]
  PROVE  OutputInv'
BY SelectionKept DEF OutputInv

LEMMA OutputInvKept ==
  ASSUME ShadowInv, OutputInv, workload' = workload, NEW i \in Invocations,
         InvocationNext(i)
  PROVE  OutputInv'
<1>0. TypeOK
  BY DEF ShadowInv
<1>1. ASSUME NEW a, Answer(i, a), pc[i] # "idle" PROVE OutputInv'
  <2>1. /\ UNCHANGED <<script, output, root, reference>>
        /\ pc'[i] \in {"run", "failed"}
        /\ \A j \in Invocations \ {i} : pc'[j] = pc[j]
    BY <1>0, <1>1 DEF Answer, TypeOK
  <2> QED BY <1>0, <1>1, <2>1, OutputQuiet
<1>2. CASE \/ AskIndex(i) \/ Hit(i) \/ ReplayFailure(i) \/ PrintRecorded(i)
           \/ RecordFailure(i) \/ ReplayAll(i) \/ PassThrough(i)
  BY <1>1, <1>2 DEF AskIndex, Hit, ReplayFailure, PrintRecorded, RecordFailure,
                    ReplayAll, PassThrough, Caching, AtCommand
<1>3. CASE RunReal(i) \/ RecordSuccess(i) \/ ScriptFails(i) \/ Kill(i)
  <2>1. /\ UNCHANGED <<script, output, root, reference>> /\ pc[i] # "idle"
        /\ pc'[i] \in {"record", "print", "failed", "killed"}
        /\ \A j \in Invocations \ {i} : pc'[j] = pc[j]
    BY <1>0, <1>3 DEF RunReal, RecordSuccess, ScriptFails, Kill, TypeOK, Caching,
                      AtCommand
  <2> QED BY <1>0, <2>1, OutputQuiet
<1>4. CASE Compare(i)
  <2>1. /\ UNCHANGED <<script, output, root, reference>> /\ pc[i] # "idle"
        /\ pc'[i] = "done" /\ \A j \in Invocations \ {i} : pc'[j] = pc[j]
    BY <1>0, <1>4 DEF Compare, TypeOK
  <2> QED BY <1>0, <2>1, OutputQuiet
<1>5. ASSUME NEW ref \in References, Start(i, ref) PROVE OutputInv'
  <2>1. /\ UNCHANGED <<script, output>> /\ pc[i] = "idle" /\ pc'[i] = "run"
        /\ reference'[i] = ref
        /\ root'[i] = IF ref = "cached-whois" THEN "reference" ELSE "candidate"
        /\ \A j \in Invocations \ {i} :
             pc'[j] = pc[j] /\ reference'[j] = reference[j] /\ root'[j] = root[j]
    BY <1>0, <1>5 DEF Start, TypeOK
  <2> SUFFICES ASSUME NEW j \in Invocations, NEW n \in DOMAIN Selected
               PROVE  OutputInv!(j, n)'
    BY SelectionKept DEF OutputInv
  <2>2. OutputInv!(j, n) /\ Selected' = Selected /\ n \in Nat \ {0}
    BY <1>0, SelectionKept, SelectedType DEF OutputInv, TypeOK
  <2>3. CASE j = i
    BY <2>1, <2>2, <2>3
  <2>4. CASE j # i
    BY <2>1, <2>2, <2>4
  <2> QED BY <2>3, <2>4
<1>6. CASE FinishScript(i)
  <2>1. /\ Downloader(i) \in Downloaders /\ root[i] \in Roots
        /\ script[i] \in DOMAIN Selected /\ script[i] \in Nat
        /\ scratch[Downloader(i)] \in SUBSET Addresses
    BY <1>0, SelectedType DEF TypeOK, Downloader
  <2>2. /\ \A j \in Invocations \ {i} : output'[j] = output[j]
        /\ \A r \in Roots, d \in Downloaders :
             output'[i][r][d] = IF r = root[i] /\ d = Downloader(i)
                                THEN scratch[d] ELSE output[i][r][d]
    BY <1>0, <1>6, <2>1 DEF FinishScript, TypeOK
  <2>3. /\ pc[i] = "run" /\ UNCHANGED reference
        /\ \A j \in Invocations \ {i} :
             pc'[j] = pc[j] /\ script'[j] = script[j] /\ root'[j] = root[j]
    BY <1>0, <1>6 DEF FinishScript, TypeOK
  <2>4. \/ /\ script'[i] = script[i] + 1 /\ root'[i] = root[i] /\ pc'[i] = "run"
        \/ /\ script[i] = Len(Selected) /\ root[i] = "reference"
           /\ script'[i] = 1 /\ root'[i] = "candidate" /\ pc'[i] = "run"
        \/ /\ script[i] = Len(Selected) /\ root[i] = "candidate"
           /\ script'[i] = script[i] /\ root'[i] = root[i] /\ pc'[i] = "compare"
    BY <1>0, <1>6 DEF FinishScript, TypeOK
  <2> SUFFICES ASSUME NEW j \in Invocations, NEW n \in DOMAIN Selected
               PROVE  OutputInv!(j, n)'
    BY SelectionKept DEF OutputInv
  <2>5. /\ OutputInv!(j, n) /\ Selected' = Selected
        /\ n \in Nat /\ n <= Len(Selected) /\ Len(Selected) \in Nat
        /\ Selected[n] \in Downloaders
    BY <1>0, SelectionKept, SelectedType DEF OutputInv, TypeOK
  <2>6. CASE j = i
    <3>1. n <= script[i] => output'[i][root[i]][Selected[n]] \in SUBSET Addresses
      <4>1. CASE n = script[i]
        BY <2>1, <2>2, <4>1 DEF Downloader
      <4>2. CASE n < script[i]
        BY <2>1, <2>2, <2>5, <2>6, <4>2
      <4> QED BY <2>1, <2>5, <4>1, <4>2
    <3>2. root[i] = "candidate" /\ reference[i] = "cached-whois" =>
            output'[i]["reference"][Selected[n]] \in SUBSET Addresses
      BY <2>1, <2>2, <2>3, <2>5, <2>6
    <3> QED BY <2>1, <2>3, <2>4, <2>5, <2>6, <3>1, <3>2
  <2>7. CASE j # i
    BY <2>2, <2>3, <2>5, <2>7
  <2> QED BY <2>6, <2>7
<1> QED BY <1>2, <1>3, <1>4, <1>5, <1>6 DEF InvocationNext

LEMMA CompareKeeps ==
  ASSUME ShadowInv, OutputInv, workload' = workload, NEW i \in Invocations, Compare(i)
  PROVE  ShadowInv'
<1>1. /\ pc[i] = "compare" /\ pc' = [pc EXCEPT ![i] = "done"]
      /\ UNCHANGED <<cache, recorder, failures, called, reply, scratch, reference,
                     root, script, at, seen, output>>
  BY DEF Compare, fileVars
<1>2. TypeOK /\ (root[i] = "reference" => reference[i] = "cached-whois")
  BY DEF ShadowInv, StepInv
<1>3. ASSUME NEW d \in Downloaders, NEW n \in DOMAIN Selected, Selected[n] = d
      PROVE  /\ output[i]["candidate"][d] \in SUBSET Addresses
             /\ ReferenceLists(i, d) \in SUBSET Addresses
  BY <1>1, <1>3, RepliesAssumption DEF OutputInv, ReferenceLists
<1> DEFINE diff == [d \in Downloaders |->
          IF \E n \in DOMAIN Selected : Selected[n] = d
          THEN LET new == output[i]["candidate"][d]
                   old == ReferenceLists(i, d)
               IN  (new \ old) \cup (old \ new)
          ELSE {}]
<1>4. differences' = [differences EXCEPT ![i] = diff]
  BY DEF Compare
<1>5. diff \in [Downloaders -> SUBSET Addresses]
  BY <1>3
<1>6. differences' \in [Invocations -> [Downloaders -> SUBSET Addresses]]
  <2> HIDE DEF diff
  <2> QED BY <1>2, <1>4, <1>5 DEF TypeOK
<1>7. TypeOK' /\ pc'[i] = "done" /\ \A j \in Invocations \ {i} : pc'[j] = pc[j]
  BY <1>1, <1>2, <1>6, SelectionKept DEF TypeOK
<1> QED BY <1>1, <1>2, <1>7, QuietKeeps

-----------------------------------------------------------------------------
(* An invocation that runs alone *)

Active(i) == pc[i] \notin Over \cup {"idle"}

\* What script n of i got for its commands before m.
Bodies(i, r, n, m) ==
  UNION {seen[i][r][<<n, k>>].body :
           k \in {l \in DOMAIN ScriptOf[Selected[n]] : l < m}}

\* S is what script n of i collects by its commands before m.  In the candidate
\* tree the scratch file may hold what it held at the end of the paired run.
Collected(i, r, n, m, S) ==
  /\ \A k \in DOMAIN ScriptOf[Selected[n]] : k < m => seen[i][r][<<n, k>>] # None
  /\ Bodies(i, r, n, m) \subseteq S
  /\ Selected[n] \notin Appending => S \subseteq Bodies(i, r, n, m)
  /\ r = "candidate" /\ reference[i] = "cached-whois" =>
       LET old == output[i]["reference"][Selected[n]]
       IN  /\ S \subseteq old \cup Bodies(i, r, n, m)
           /\ Selected[n] \in Appending => old \subseteq S

\* Script n has written its lists in tree r.
Finished(i, r, n) ==
  \/ r = root[i] /\ (n < script[i] \/ pc[i] = "compare")
  \/ r = "reference" /\ root[i] = "candidate" /\ reference[i] = "cached-whois"

\* Script n is over in the reference tree and has not written to its scratch
\* file again.
Rests(i, n) ==
  /\ reference[i] = "cached-whois"
  /\ \/ root[i] = "reference" /\ n < script[i]
     \/ /\ root[i] = "candidate" /\ pc[i] # "compare"
        /\ n > script[i] \/ (n = script[i] /\ at[i] = 1)

ListsInv(i) ==
  /\ \A r \in Roots, n \in DOMAIN Selected :
       Finished(i, r, n) =>
         Collected(i, r, n, Len(ScriptOf[Selected[n]]) + 1, output[i][r][Selected[n]])
  /\ \A r \in Roots, d \in Downloaders :
       output[i][r][d] # None =>
         \E n \in DOMAIN Selected : Selected[n] = d /\ Finished(i, r, n)
  /\ pc[i] # "compare" /\ at[i] > 1 =>
       Collected(i, root[i], script[i], at[i], scratch[Downloader(i)])
  /\ \A n \in DOMAIN Selected :
       Rests(i, n) => scratch[Selected[n]] = output[i]["reference"][Selected[n]]

\* Nobody else records: every answer of a caching shim is what it would be now.
AnswersInv(i) ==
  /\ pc[i] = "record" => cache[Key(i)] = None
  /\ \A r \in Roots, p \in Positions, k \in Keys :
       (/\ Asks(i, r, p) /\ seen[i][r][p] # None /\ k \in CommandAt(p).keys) =>
         seen[i][r][p] = Known(i, k)

\* Invocations that do not overlap take turns, so between two steps of one its
\* scratch files and the cache change by its own steps only.
AloneInv ==
  ~workload.overlap =>
    /\ \A i, j \in Invocations : Active(i) /\ Active(j) => i = j
    /\ \A i \in Invocations :
         /\ pc[i] = "idle" => at[i] = 1 /\ output[i] = NoOutput
         /\ Active(i) => AnswersInv(i) /\ ListsInv(i)

LEMMA PositionsType ==
  ASSUME workload \in Workloads, NEW n \in DOMAIN Selected
  PROVE  /\ n \in Nat \ {0} /\ Selected[n] \in Downloaders
         /\ ScriptOf[Selected[n]] \in Seq(Commands) \ {<<>>}
         /\ Len(ScriptOf[Selected[n]]) \in Nat \ {0}
         /\ DOMAIN ScriptOf[Selected[n]] = 1 .. Len(ScriptOf[Selected[n]])
         /\ \A k \in DOMAIN ScriptOf[Selected[n]] : <<n, k>> \in Positions
         /\ \A m \in DOMAIN Selected : Selected[m] = Selected[n] => m = n
<1>1. /\ Selected \in Seq(Downloaders) \ {<<>>} /\ n \in Nat \ {0}
      /\ Selected[n] \in Downloaders
      /\ \A m \in DOMAIN Selected : Selected[m] = Selected[n] => m = n
  BY ScriptsAssumption DEF Selected
<1>2. ScriptOf[Selected[n]] \in Seq(Commands) \ {<<>>}
  BY <1>1, ScriptsAssumption
<1> QED BY <1>1, <1>2 DEF Positions

\* The state of an invocation within a script.
LEMMA ActiveType ==
  ASSUME TypeOK, NEW i \in Invocations
  PROVE  /\ root[i] \in Roots /\ script[i] \in DOMAIN Selected
         /\ script[i] \in Nat \ {0} /\ at[i] \in Nat \ {0}
         /\ Downloader(i) = Selected[script[i]] /\ Downloader(i) \in Downloaders
BY PositionsType DEF TypeOK, Downloader

\* Lists depend on these alone.
LEMMA ListsQuiet ==
  ASSUME TypeOK, workload' = workload, NEW i \in Invocations, ListsInv(i),
         UNCHANGED <<seen, output, scratch, at, script, root, reference>>,
         pc'[i] = "compare" <=> pc[i] = "compare"
  PROVE  ListsInv(i)'
<1>1. /\ Selected' = Selected /\ Downloader(i)' = Downloader(i)
  BY DEF Selected, Downloader
<1>2. \A r, n, m : Bodies(i, r, n, m)' = Bodies(i, r, n, m)
  BY <1>1 DEF Bodies
<1>3. \A r, n, m : \A S : (Collected(i, r, n, m, S))' <=> Collected(i, r, n, m, S)
  BY <1>1, <1>2 DEF Collected
<1>4. \A r, n : /\ Finished(i, r, n)' <=> Finished(i, r, n)
                /\ Rests(i, n)' <=> Rests(i, n)
  BY DEF Finished, Rests
<1> QED BY <1>1, <1>3, <1>4 DEF ListsInv

\* The next answer of a script is collected; nothing else is.
LEMMA ListsAnswer ==
  ASSUME TypeOK, workload' = workload, NEW i \in Invocations, NEW a \in Answers,
         InRange(i), Answer(i, a), pc[i] \notin {"idle", "compare"}, ListsInv(i)
  PROVE  ListsInv(i)'
<1>r. PICK r0 : r0 = root[i]
  OBVIOUS
<1>n. PICK n0 : n0 = script[i]
  OBVIOUS
<1>k. PICK k0 : k0 = at[i]
  OBVIOUS
<1>d. PICK d0 : d0 = Downloader(i)
  OBVIOUS
<1>0. /\ r0 \in Roots /\ n0 \in DOMAIN Selected /\ n0 \in Nat \ {0} /\ k0 \in Nat \ {0}
      /\ d0 = Selected[n0] /\ d0 \in Downloaders /\ k0 \in DOMAIN ScriptOf[d0]
      /\ None \notin Answers /\ Place(i) = <<n0, k0>>
      /\ \A k \in DOMAIN ScriptOf[d0] : k \in Nat \ {0} /\ <<n0, k>> \in Positions
  BY <1>r, <1>n, <1>k, <1>d, ActiveType, PositionsType, RepliesAssumption DEF InRange, TypeOK, Place
<1>1. /\ pc'[i] \in {"run", "failed"} /\ at'[i] = k0 + 1
      /\ UNCHANGED <<reference, root, script, output>>
      /\ \A r \in Roots, p \in Positions :
           seen'[i][r][p] = IF r = r0 /\ p = <<n0, k0>> THEN a ELSE seen[i][r][p]
      /\ \A d \in Downloaders \ {d0} : scratch'[d] = scratch[d]
      /\ scratch'[d0] = IF k0 = 1 /\ d0 \notin Appending THEN a.body
                        ELSE scratch[d0] \cup a.body
  <2>1. at'[i] = k0 + 1
    BY <1>k DEF Answer, TypeOK
  <2>2. /\ \A d \in Downloaders \ {d0} : scratch'[d] = scratch[d]
        /\ scratch'[d0] = IF k0 = 1 /\ d0 \notin Appending THEN a.body
                          ELSE scratch[d0] \cup a.body
    BY <1>0, <1>k, <1>d DEF Answer, Truncates, TypeOK
  <2>3. \A r \in Roots, p \in Positions :
          seen'[i][r][p] = IF r = r0 /\ p = <<n0, k0>> THEN a ELSE seen[i][r][p]
    <3>1. \A r \in Roots, p \in Positions :
            seen'[i][r][p] = IF r = root[i] /\ p = Place(i) THEN a ELSE seen[i][r][p]
      BY AnswerSteps
    <3> QED BY <1>0, <1>r, <3>1
  <2>4. pc'[i] \in {"run", "failed"} /\ UNCHANGED <<reference, root, script, output>>
    BY AnswerSteps
  <2> QED BY <2>1, <2>2, <2>3, <2>4
<1>2. Selected' = Selected /\ Downloader(i)' = d0
  BY <1>1, <1>d DEF Selected, Downloader
<1>3. ASSUME NEW r \in Roots, NEW n \in DOMAIN Selected, NEW m,
             ~(r = r0 /\ n = n0)
      PROVE  Bodies(i, r, n, m)' = Bodies(i, r, n, m)
  <2>1. \A k \in DOMAIN ScriptOf[Selected[n]] :
          seen'[i][r][<<n, k>>] = seen[i][r][<<n, k>>]
    BY <1>1, <1>3, PositionsType DEF TypeOK
  <2> QED BY <1>2, <2>1 DEF Bodies
<1>4. ASSUME NEW r \in Roots, NEW n \in DOMAIN Selected, NEW m, NEW S,
             ~(r = r0 /\ n = n0), Collected(i, r, n, m, S)
      PROVE  (Collected(i, r, n, m, S))'
  <2>1. Bodies(i, r, n, m)' = Bodies(i, r, n, m)
    BY <1>3, <1>4
  <2>2. \A k \in DOMAIN ScriptOf[Selected[n]] :
          seen'[i][r][<<n, k>>] = seen[i][r][<<n, k>>]
    BY <1>1, <1>4, PositionsType DEF TypeOK
  <2> QED BY <1>1, <1>2, <1>4, <2>1, <2>2 DEF Collected
<1>5. \A r \in Roots, n \in DOMAIN Selected :
        /\ Finished(i, r, n)' <=> Finished(i, r, n)
        /\ Finished(i, r, n) => ~(r = r0 /\ n = n0)
  BY <1>0, <1>1, <1>r, <1>n, PositionsType DEF Finished, TypeOK
<1>6. Bodies(i, r0, n0, k0 + 1)' = Bodies(i, r0, n0, k0) \cup a.body
  <2>1. ASSUME NEW k \in DOMAIN ScriptOf[d0]
        PROVE  /\ (k < k0 + 1 <=> k < k0 \/ k = k0) /\ ~(k0 < k0)
               /\ seen'[i][r0][<<n0, k>>] = IF k = k0 THEN a ELSE seen[i][r0][<<n0, k>>]
    <3>1. <<n0, k>> = <<n0, k0>> <=> k = k0
      OBVIOUS
    <3> QED BY <1>0, <1>1, <3>1
  <2>2. /\ Bodies(i, r0, n0, k0 + 1)' =
             UNION {seen'[i][r0][<<n0, k>>].body :
                      k \in {l \in DOMAIN ScriptOf[d0] : l < k0 + 1}}
        /\ Bodies(i, r0, n0, k0) =
             UNION {seen[i][r0][<<n0, k>>].body :
                      k \in {l \in DOMAIN ScriptOf[d0] : l < k0}}
    BY <1>0, <1>2 DEF Bodies
  <2>3. ASSUME NEW x PROVE x \in Bodies(i, r0, n0, k0 + 1)' <=>
                             x \in Bodies(i, r0, n0, k0) \/ x \in a.body
    <3>1. ASSUME x \in Bodies(i, r0, n0, k0 + 1)'
          PROVE  x \in Bodies(i, r0, n0, k0) \/ x \in a.body
      <4>1. PICK k \in DOMAIN ScriptOf[d0] :
              k < k0 + 1 /\ x \in seen'[i][r0][<<n0, k>>].body
        BY <2>2, <3>1
      <4> QED BY <2>1, <2>2, <4>1
    <3>2. ASSUME x \in Bodies(i, r0, n0, k0)
          PROVE  x \in Bodies(i, r0, n0, k0 + 1)'
      <4>1. PICK k \in DOMAIN ScriptOf[d0] :
              k < k0 /\ x \in seen[i][r0][<<n0, k>>].body
        <5>1. x \in UNION {seen[i][r0][<<n0, k>>].body :
                             k \in {l \in DOMAIN ScriptOf[d0] : l < k0}}
          BY <2>2, <3>2
        <5> QED BY <5>1
      <4>2. k < k0 + 1 /\ seen'[i][r0][<<n0, k>>] = seen[i][r0][<<n0, k>>]
        BY <2>1, <4>1
      <4> QED BY <2>2, <4>1, <4>2
    <3>3. ASSUME x \in a.body PROVE x \in Bodies(i, r0, n0, k0 + 1)'
      <4>1. k0 \in DOMAIN ScriptOf[d0]
        BY <1>0
      <4>2. k0 < k0 + 1 /\ seen'[i][r0][<<n0, k0>>] = a
        BY <2>1, <4>1
      <4> QED BY <2>2, <3>3, <4>1, <4>2
    <3> QED BY <3>1, <3>2, <3>3
  <2> QED BY <2>3
<1>7. \A k \in DOMAIN ScriptOf[Selected[n0]] : k < k0 + 1 =>
        seen'[i][r0][<<n0, k>>] = IF k = k0 THEN a ELSE seen[i][r0][<<n0, k>>]
  <2> SUFFICES ASSUME NEW k \in DOMAIN ScriptOf[d0]
               PROVE  seen'[i][r0][<<n0, k>>] =
                        IF k = k0 THEN a ELSE seen[i][r0][<<n0, k>>]
    BY <1>0
  <2>1. <<n0, k>> = <<n0, k0>> <=> k = k0
    OBVIOUS
  <2> QED BY <1>0, <1>1, <2>1
<1>8. (Collected(i, root[i], script[i], at[i], scratch[Downloader(i)]))'
  <2>1. /\ root'[i] = r0 /\ script'[i] = n0 /\ at'[i] = k0 + 1 /\ Downloader(i)' = d0
    BY <1>1, <1>2, <1>r, <1>n
  <2>0. \A k \in DOMAIN ScriptOf[Selected[n0]] : k \in Nat \ {0}
    BY <1>0
  <2>2. CASE k0 > 1
    <3>1. Collected(i, r0, n0, k0, scratch[d0])
      BY <1>r, <1>n, <1>k, <1>d, <2>2 DEF ListsInv
    <3>2. \A k \in DOMAIN ScriptOf[Selected[n0]] : k < k0 + 1 => k < k0 \/ k = k0
      <4>1. k0 \in Nat
        BY <1>0
      <4> QED BY <2>0, <4>1
    <3>3. \A k \in DOMAIN ScriptOf[Selected[n0]] : k < k0 + 1 =>
            seen'[i][r0][<<n0, k>>] # None
      BY <1>0, <1>7, <3>1, <3>2 DEF Collected
    <3>4. scratch'[d0] = scratch[d0] \cup a.body
      BY <1>1, <2>2
    <3> QED BY <1>0, <1>1, <1>2, <1>6, <2>1, <3>1, <3>3, <3>4 DEF Collected
  <2>3. CASE k0 = 1
    <3>1. Bodies(i, r0, n0, k0) = {}
      <4>1. \A k \in DOMAIN ScriptOf[Selected[n0]] : ~(k < k0)
        BY <2>0, <2>3
      <4> QED BY <4>1 DEF Bodies
    <3>2. \A k \in DOMAIN ScriptOf[Selected[n0]] : k < k0 + 1 => k = k0
      BY <2>0, <2>3
    <3>3. \A k \in DOMAIN ScriptOf[Selected[n0]] : k < k0 + 1 =>
            seen'[i][r0][<<n0, k>>] # None
      BY <1>0, <1>7, <3>2
    <3>4. Bodies(i, r0, n0, k0 + 1)' = a.body
      BY <1>6, <3>1
    <3>5. r0 = "candidate" /\ reference[i] = "cached-whois" =>
            scratch[d0] = output[i]["reference"][d0]
      <4>1. r0 = "candidate" /\ reference[i] = "cached-whois" => Rests(i, n0)
        BY <1>r, <1>n, <1>k, <2>3 DEF Rests
      <4> QED BY <1>0, <4>1 DEF ListsInv
    <3> QED BY <1>0, <1>1, <1>2, <2>1, <2>3, <3>3, <3>4, <3>5 DEF Collected
  <2> QED BY <1>0, <2>2, <2>3
<1>9. \A n \in DOMAIN Selected : Rests(i, n)' => Rests(i, n) /\ Selected[n] # d0
  <2> SUFFICES ASSUME NEW n \in DOMAIN Selected, Rests(i, n)'
               PROVE  Rests(i, n) /\ Selected[n] # d0
    OBVIOUS
  <2>1. n \in Nat /\ (Selected[n] = d0 => n = n0)
    BY <1>0, PositionsType DEF TypeOK
  <2>2. /\ reference[i] = "cached-whois"
        /\ \/ r0 = "reference" /\ n < n0
           \/ r0 = "candidate" /\ (n > n0 \/ (n = n0 /\ k0 + 1 = 1))
    BY <1>1, <1>r, <1>n DEF Rests
  <2>3. n # n0
    BY <1>0, <2>1, <2>2
  <2> QED BY <1>0, <1>r, <1>n, <2>1, <2>2, <2>3 DEF Rests
<1>10. \A n \in DOMAIN Selected : Rests(i, n)' =>
         scratch'[Selected[n]] = output'[i]["reference"][Selected[n]]
  BY <1>1, <1>9, PositionsType DEF ListsInv, TypeOK
<1>11. ASSUME NEW r \in Roots, NEW n \in DOMAIN Selected, Finished(i, r, n)'
       PROVE  (Collected(i, r, n, Len(ScriptOf[Selected[n]]) + 1,
                         output[i][r][Selected[n]]))'
  <2>1. /\ Collected(i, r, n, Len(ScriptOf[Selected[n]]) + 1, output[i][r][Selected[n]])
        /\ ~(r = r0 /\ n = n0)
    BY <1>5, <1>11 DEF ListsInv
  <2> QED BY <1>1, <1>2, <1>4, <2>1
<1>12. \A r \in Roots, d \in Downloaders :
         output'[i][r][d] # None =>
           \E n \in DOMAIN Selected : Selected[n] = d /\ Finished(i, r, n)'
  BY <1>1, <1>5 DEF ListsInv
<1> QED BY <1>1, <1>2, <1>8, <1>10, <1>11, <1>12 DEF ListsInv

\* A downloader that is over has collected all its commands' answers.
LEMMA ListsFinish ==
  ASSUME TypeOK, StepInv, workload' = workload, NEW i \in Invocations,
         FinishScript(i), ListsInv(i)
  PROVE  ListsInv(i)'
<1>r. PICK r0 : r0 = root[i]
  OBVIOUS
<1>n. PICK n0 : n0 = script[i]
  OBVIOUS
<1>d. PICK d0 : d0 = Downloader(i)
  OBVIOUS
<1>0. /\ r0 \in Roots /\ n0 \in DOMAIN Selected /\ n0 \in Nat \ {0}
      /\ d0 = Selected[n0] /\ d0 \in Downloaders
      /\ \A n \in DOMAIN Selected : /\ n \in Nat \ {0} /\ n <= Len(Selected)
                                    /\ Selected[n] \in Downloaders
                                    /\ (Selected[n] = d0 => n = n0)
      /\ Len(ScriptOf[d0]) \in Nat \ {0} /\ Len(Selected) \in Nat
      /\ r0 = "reference" => reference[i] = "cached-whois"
  BY <1>r, <1>n, <1>d, ActiveType, PositionsType, SelectedType DEF TypeOK, StepInv
<1>1. /\ pc[i] = "run" /\ at[i] = Len(ScriptOf[d0]) + 1 /\ at'[i] = 1
      /\ UNCHANGED <<scratch, reference, seen>>
      /\ \/ n0 < Len(Selected) /\ script'[i] = n0 + 1 /\ root'[i] = r0 /\ pc'[i] = "run"
         \/ /\ n0 = Len(Selected) /\ r0 = "reference"
            /\ script'[i] = 1 /\ root'[i] = "candidate" /\ pc'[i] = "run"
         \/ /\ n0 = Len(Selected) /\ r0 = "candidate"
            /\ script'[i] = n0 /\ root'[i] = r0 /\ pc'[i] = "compare"
  BY <1>r, <1>n, <1>d DEF FinishScript, TypeOK
<1>2. \A r \in Roots, d \in Downloaders :
        output'[i][r][d] = IF r = r0 /\ d = d0 THEN scratch[d] ELSE output[i][r][d]
  BY <1>0, <1>r, <1>d DEF FinishScript, TypeOK
<1>w. ASSUME NEW r \in Roots, NEW n \in DOMAIN Selected
      PROVE  output'[i][r][Selected[n]] = IF r = r0 /\ n = n0 THEN scratch[d0]
                                          ELSE output[i][r][Selected[n]]
  <2>1. Selected[n] \in Downloaders /\ (Selected[n] = d0 => n = n0)
    BY <1>0
  <2>2. n = n0 => Selected[n] = d0
    BY <1>0
  <2> QED BY <1>2, <2>1, <2>2
<1>3. Selected' = Selected
  BY DEF Selected
<1>4. \A r, n, m : Bodies(i, r, n, m)' = Bodies(i, r, n, m)
  BY <1>1, <1>3 DEF Bodies
<1>5. ASSUME NEW r \in Roots, NEW n \in DOMAIN Selected, NEW m, NEW S,
             Collected(i, r, n, m, S), r = "candidate" => r0 = "candidate"
      PROVE  (Collected(i, r, n, m, S))'
  <2>1. r = "candidate" => output'[i]["reference"][Selected[n]] =
                             output[i]["reference"][Selected[n]]
    BY <1>5, <1>w
  <2> QED BY <1>1, <1>3, <1>4, <1>5, <2>1 DEF Collected
<1>6. Collected(i, r0, n0, Len(ScriptOf[d0]) + 1, scratch[d0])
  <2>1. at[i] > 1
    BY <1>0, <1>1
  <2> QED BY <1>1, <1>r, <1>n, <1>d, <2>1 DEF ListsInv
<1>7. \A r \in Roots, n \in DOMAIN Selected :
        /\ Finished(i, r, n)' <=> Finished(i, r, n) \/ (r = r0 /\ n = n0)
        /\ Finished(i, r, n) /\ r = "candidate" => r0 = "candidate"
        /\ Finished(i, r, n) => ~(r = r0 /\ n = n0)
  <2> SUFFICES ASSUME NEW r \in Roots, NEW n \in DOMAIN Selected
               PROVE  /\ Finished(i, r, n)' <=> Finished(i, r, n) \/ (r = r0 /\ n = n0)
                      /\ Finished(i, r, n) /\ r = "candidate" => r0 = "candidate"
                      /\ Finished(i, r, n) => ~(r = r0 /\ n = n0)
    OBVIOUS
  <2>1. n \in Nat \ {0} /\ n <= Len(Selected)
    BY <1>0
  <2> QED BY <1>0, <1>1, <1>r, <1>n, <2>1 DEF Finished
<1>8. ASSUME NEW n \in DOMAIN Selected, Rests(i, n)'
      PROVE  \/ Rests(i, n) /\ (n # n0 \/ r0 = "candidate")
             \/ r0 = "reference" /\ n = n0
  <2>1. n \in Nat \ {0} /\ n <= Len(Selected)
    BY <1>0
  <2> QED BY <1>0, <1>1, <1>8, <1>r, <1>n, <2>1 DEF Rests
<1>9. ASSUME NEW r \in Roots, NEW n \in DOMAIN Selected, Finished(i, r, n)'
      PROVE  (Collected(i, r, n, Len(ScriptOf[Selected[n]]) + 1,
                        output[i][r][Selected[n]]))'
  <2>1. PICK S : S = output'[i][r][Selected[n]]
    OBVIOUS
  <2>2. Collected(i, r, n, Len(ScriptOf[Selected[n]]) + 1, S)
    <3>1. CASE Finished(i, r, n)
      <4>1. S = output[i][r][Selected[n]]
        BY <1>7, <1>w, <2>1, <3>1
      <4> QED BY <3>1, <4>1 DEF ListsInv
    <3>2. CASE r = r0 /\ n = n0
      BY <1>0, <1>2, <1>6, <2>1, <3>2
    <3> QED BY <1>7, <1>9, <3>1, <3>2
  <2>3. r = "candidate" => r0 = "candidate"
    BY <1>7, <1>9
  <2> QED BY <1>3, <1>5, <2>1, <2>2, <2>3
<1>10. ASSUME NEW r \in Roots, NEW d \in Downloaders, output'[i][r][d] # None
       PROVE  \E n \in DOMAIN Selected : Selected[n] = d /\ Finished(i, r, n)'
  BY <1>0, <1>2, <1>7, <1>10 DEF ListsInv
<1>11. ASSUME NEW n \in DOMAIN Selected, Rests(i, n)'
       PROVE  scratch'[Selected[n]] = output'[i]["reference"][Selected[n]]
  <2>1. CASE Rests(i, n) /\ (n # n0 \/ r0 = "candidate")
    BY <1>1, <1>w, <2>1 DEF ListsInv
  <2>2. CASE r0 = "reference" /\ n = n0
    BY <1>0, <1>1, <1>2, <2>2
  <2> QED BY <1>8, <1>11, <2>1, <2>2
<1>12. ~(pc'[i] # "compare" /\ at'[i] > 1)
  BY <1>1
<1> QED BY <1>3, <1>9, <1>10, <1>11, <1>12 DEF ListsInv

\* With nobody else recording, an answer of a caching shim stays what it was.
LEMMA AnswersAnswer ==
  ASSUME ShadowInv, workload' = workload, NEW i \in Invocations, AnswersInv(i),
         NEW a \in Answers, NEW k0, k0 = Key(i), InRange(i), Answer(i, a),
         cache' = cache,
         \/ UNCHANGED failures /\ pc[i] # "record"
         \/ pc[i] = "record" /\ failures' = [failures EXCEPT ![i][k0] = a],
         Asks(i, root[i], Place(i)) => a = Known(i, k0)'
  PROVE  AnswersInv(i)'
<1>0. TypeOK
  BY DEF ShadowInv
<1>1. /\ k0 \in Keys
      /\ Asks(i, root[i], Place(i)) => CommandAt(Place(i)).keys = {k0}
  BY <1>0, PlaceType, AskedKey
<1>2. /\ pc'[i] \in {"run", "failed"} /\ UNCHANGED reference
      /\ \A r \in Roots, p \in Positions :
           seen'[i][r][p] = IF r = root[i] /\ p = Place(i) THEN a ELSE seen[i][r][p]
  BY <1>0, AnswerSteps
<1>3. \A k \in Keys : Known(i, k)' # Known(i, k) => pc[i] = "record" /\ k = k0
  <2>1. \A k \in Keys : failures'[i][k] = failures[i][k] \/ (pc[i] = "record" /\ k = k0)
    BY <1>0, <1>1 DEF TypeOK
  <2> QED BY <2>1 DEF Known
<1>4. /\ Positions' = Positions /\ \A p : CommandAt(p)' = CommandAt(p)
      /\ \A r \in Roots : \A p : Asks(i, r, p)' <=> Asks(i, r, p)
  BY <1>2, SelectionKept DEF Asks
<1> SUFFICES ASSUME NEW r \in Roots, NEW p \in Positions, NEW k \in Keys,
                    Asks(i, r, p), seen'[i][r][p] # None, k \in CommandAt(p).keys
             PROVE  seen'[i][r][p] = Known(i, k)'
  BY <1>2, <1>4 DEF AnswersInv
<1>5. CASE r = root[i] /\ p = Place(i)
  <2>1. k = k0
    BY <1>1, <1>5
  <2> QED BY <1>2, <1>5, <2>1
<1>6. CASE ~(r = root[i] /\ p = Place(i))
  <2>1. seen'[i][r][p] = seen[i][r][p]
    BY <1>2, <1>6
  <2>2. seen[i][r][p] = Known(i, k)
    BY <2>1 DEF AnswersInv
  <2>3. pc[i] = "record" => k # k0
    BY <2>1 DEF ShadowInv, SeenInv
  <2> QED BY <1>3, <2>1, <2>2, <2>3
<1> QED BY <1>5, <1>6

LEMMA AnswerAlone ==
  ASSUME ShadowInv, workload' = workload, NEW i \in Invocations,
         AnswersInv(i), ListsInv(i),
         \/ AskIndex(i) \/ Hit(i) \/ ReplayFailure(i) \/ PrintRecorded(i)
         \/ RecordFailure(i) \/ ReplayAll(i) \/ PassThrough(i)
  PROVE  AnswersInv(i)' /\ ListsInv(i)'
<1>0. TypeOK /\ None \notin Answers
  BY RepliesAssumption DEF ShadowInv
<1>1. pc[i] \in {"run", "record", "print"} /\ InRange(i) /\ Key(i) \in Keys
  <2>1. pc[i] \in {"record", "print"} => InRange(i)
    BY DEF ShadowInv, StepInv
  <2>2. AtCommand(i) => InRange(i) /\ pc[i] = "run"
    BY <1>0, AtCommandInRange DEF AtCommand
  <2> QED BY <1>0, <2>1, <2>2, PlaceType
          DEF AskIndex, Hit, ReplayFailure, PrintRecorded, RecordFailure, ReplayAll,
              PassThrough, Caching
<1>2. AtCommand(i) => (Caching(i) <=> Asks(i, root[i], Place(i)))
  BY DEF Caching, Asks, Command
<1>k. PICK k0 : k0 = Key(i)
  OBVIOUS
<1>3. PICK a \in Answers :
        /\ Answer(i, a) /\ cache' = cache
        /\ \/ UNCHANGED failures /\ pc[i] # "record"
           \/ pc[i] = "record" /\ failures' = [failures EXCEPT ![i][k0] = a]
        /\ Asks(i, root[i], Place(i)) => a = Known(i, k0)'
  <2>1. CASE AskIndex(i) \/ PassThrough(i)
    <3>1. /\ AtCommand(i) /\ ~Asks(i, root[i], Place(i))
          /\ UNCHANGED fileVars
      BY <1>2, <2>1 DEF AskIndex, PassThrough, Asks, Recorded, Command
    <3>2. \E a \in Answers : Answer(i, a)
      <4>1. Command(i).keys \subseteq Keys
        BY <1>0, <1>1, PlaceType DEF Commands
      <4> QED BY <2>1, <4>1, RepliesAssumption DEF AskIndex, PassThrough
    <3> QED BY <3>1, <3>2 DEF fileVars, AtCommand
  <2>2. CASE Hit(i) \/ PrintRecorded(i)
    <3>1. /\ cache[k0] # None /\ Answer(i, cache[k0]) /\ cache' = cache
          /\ failures' = failures /\ pc[i] # "record"
      BY <1>k, <2>2
         DEF Hit, PrintRecorded, Caching, AtCommand, ShadowInv, StepInv, fileVars
    <3>2. cache[k0] \in Answers
      BY <1>0, <1>1, <1>k, <3>1 DEF TypeOK
    <3> QED BY <3>1, <3>2 DEF Known
  <2>3. CASE ReplayFailure(i)
    <3>1. /\ cache[k0] = None /\ Answer(i, failures[i][k0]) /\ failures[i][k0] # None
          /\ cache' = cache /\ failures' = failures /\ pc[i] # "record"
      BY <1>k, <2>3 DEF ReplayFailure, KnownFailures, Caching, AtCommand, fileVars
    <3>2. failures[i][k0] \in Answers
      BY <1>0, <1>1, <1>k, <3>1 DEF TypeOK
    <3> QED BY <3>1, <3>2 DEF Known
  <2>4. CASE RecordFailure(i)
    <3>1. /\ cache[k0] = None /\ Answer(i, reply[i]) /\ reply[i] \in Answers
          /\ cache' = cache /\ failures' = [failures EXCEPT ![i][k0] = reply[i]]
          /\ pc[i] = "record"
      BY <1>k, <2>4 DEF RecordFailure, ShadowInv, StepInv, AnswersInv
    <3>2. Known(i, k0)' = reply[i]
      BY <1>0, <1>1, <1>k, <3>1 DEF Known, TypeOK
    <3> QED BY <3>1, <3>2
  <2>5. CASE ReplayAll(i)
    <3>1. PICK a : /\ a = [ok |-> TRUE,
                           body |-> UNION {cache[k].body : k \in Command(i).keys}]
                   /\ Answer(i, a)
      BY <2>5 DEF ReplayAll
    <3>2. Command(i).keys \subseteq Keys
      BY <1>0, <1>1, PlaceType DEF Commands
    <3>3. \A k \in Command(i).keys : cache[k].body \subseteq Addresses
      <4> TAKE k \in Command(i).keys
      <4>1. cache[k] \in Answers
        BY <1>0, <2>5, <3>2 DEF ReplayAll, AllCached, TypeOK
      <4> QED BY <4>1 DEF Answers
    <3>4. a \in Answers
      BY <3>1, <3>3 DEF Answers
    <3>5. ~Asks(i, root[i], Place(i)) /\ UNCHANGED fileVars /\ pc[i] # "record"
      BY <2>5 DEF Asks, Recorded, ReplayAll, AllCached, Command, AtCommand
    <3> QED BY <3>1, <3>4, <3>5 DEF fileVars
  <2> QED BY <2>1, <2>2, <2>3, <2>4, <2>5
<1>4. AnswersInv(i)'
  BY <1>1, <1>3, <1>k, AnswersAnswer
<1>5. ListsInv(i)'
  BY <1>0, <1>1, <1>3, ListsAnswer
<1> QED BY <1>4, <1>5

\* The steps of an invocation that runs alone, but for those that end it.
LEMMA MoverKeeps ==
  ASSUME ShadowInv, OutputInv, AloneInv, ~workload.overlap, workload' = workload,
         NEW i \in Invocations, InvocationNext(i),
         ~(ScriptFails(i) \/ Kill(i) \/ Compare(i))
  PROVE  AnswersInv(i)' /\ ListsInv(i)'
<1>0. TypeOK /\ StepInv
  BY DEF ShadowInv
<1>k. PICK k0 : k0 = Key(i)
  OBVIOUS
<1>1. /\ Positions' = Positions /\ Selected' = Selected
      /\ \A p : CommandAt(p)' = CommandAt(p)
  BY SelectionKept
<1>2. pc[i] # "idle" /\ pc[i] \notin Over => AnswersInv(i) /\ ListsInv(i)
  BY DEF AloneInv, Active
<1>3. CASE \/ AskIndex(i) \/ Hit(i) \/ ReplayFailure(i) \/ PrintRecorded(i)
           \/ RecordFailure(i) \/ ReplayAll(i) \/ PassThrough(i)
  <2>1. pc[i] \in {"run", "record", "print"}
    BY <1>3 DEF AskIndex, Hit, ReplayFailure, PrintRecorded, RecordFailure, ReplayAll,
                PassThrough, Caching, AtCommand
  <2> QED BY <1>2, <1>3, <2>1, AnswerAlone
<1>4. CASE RunReal(i)
  <2>1. /\ pc[i] = "run" /\ pc'[i] = "record" /\ cache[k0] = None
        /\ UNCHANGED <<cache, scratch, reference, root, script, at, failures, seen,
                       output>>
    BY <1>0, <1>4, <1>k DEF RunReal, Caching, AtCommand, TypeOK
  <2>2. Key(i)' = k0
    BY <1>k, <2>1, PlaceKept
  <2>3. \A k \in Keys : Known(i, k)' = Known(i, k)
    BY <2>1 DEF Known
  <2>4. \A r \in Roots : \A p : Asks(i, r, p)' <=> Asks(i, r, p)
    BY <1>1, <2>1 DEF Asks
  <2>5. AnswersInv(i)'
    BY <1>1, <1>2, <2>1, <2>2, <2>3, <2>4 DEF AnswersInv
  <2> QED BY <1>0, <1>2, <2>1, <2>5, ListsQuiet
<1>5. CASE RecordSuccess(i)
  <2>1. /\ pc[i] = "record" /\ pc'[i] = "print"
        /\ cache' = [cache EXCEPT ![k0] = reply[i]]
        /\ UNCHANGED <<scratch, reference, root, script, at, failures, seen, output>>
    BY <1>0, <1>5, <1>k DEF RecordSuccess, TypeOK
  <2>2. \A k \in Keys : k # k0 => Known(i, k)' = Known(i, k)
    BY <1>0, <2>1 DEF Known, TypeOK
  <2>3. \A r \in Roots : \A p : Asks(i, r, p)' <=> Asks(i, r, p)
    BY <1>1, <2>1 DEF Asks
  <2>4. \A r \in Roots, p \in Positions, k \in Keys :
          Asks(i, r, p) /\ seen[i][r][p] # None /\ k \in CommandAt(p).keys => k # k0
    BY <1>k, <2>1 DEF ShadowInv, SeenInv
  <2>5. AnswersInv(i)'
    BY <1>1, <1>2, <2>1, <2>2, <2>3, <2>4 DEF AnswersInv
  <2> QED BY <1>0, <1>2, <2>1, <2>5, ListsQuiet
<1>6. CASE FinishScript(i)
  <2>1. /\ pc[i] = "run" /\ pc'[i] # "record"
        /\ UNCHANGED <<cache, failures, reference, seen>>
    BY <1>0, <1>6 DEF FinishScript, TypeOK, fileVars
  <2>2. \A k \in Keys : Known(i, k)' = Known(i, k)
    BY <2>1 DEF Known
  <2>3. \A r \in Roots : \A p : Asks(i, r, p)' <=> Asks(i, r, p)
    BY <1>1, <2>1 DEF Asks
  <2>4. AnswersInv(i)'
    BY <1>1, <1>2, <2>1, <2>2, <2>3 DEF AnswersInv
  <2> QED BY <1>0, <1>2, <1>6, <2>1, <2>4, ListsFinish
<1>7. ASSUME NEW ref \in References, Start(i, ref) PROVE AnswersInv(i)' /\ ListsInv(i)'
  <2>1. /\ pc[i] = "idle" /\ pc'[i] = "run" /\ reference'[i] = ref
        /\ root'[i] = IF ref = "cached-whois" THEN "reference" ELSE "candidate"
        /\ UNCHANGED <<script, at, seen, output, scratch>>
    BY <1>0, <1>7 DEF Start, TypeOK
  <2>2. /\ seen[i] = NotSeen /\ at[i] = 1 /\ output[i] = NoOutput
    BY <2>1 DEF AloneInv, ShadowInv, StepInv
  <2>3. script[i] = 1
    BY <1>0, <2>1, ActiveType DEF OutputInv
  <2>4. AnswersInv(i)'
    BY <1>1, <2>1, <2>2 DEF AnswersInv, NotSeen
  <2>5. \A r \in Roots, n \in DOMAIN Selected : ~Finished(i, r, n)' /\ ~Rests(i, n)'
    <3> SUFFICES ASSUME NEW r \in Roots, NEW n \in DOMAIN Selected
                 PROVE  ~Finished(i, r, n)' /\ ~Rests(i, n)'
      OBVIOUS
    <3>1. n \in Nat /\ ~(n < 1)
      BY <1>0, PositionsType DEF TypeOK
    <3> QED BY <2>1, <2>3, <3>1 DEF Finished, Rests
  <2>6. ListsInv(i)'
    BY <1>1, <2>1, <2>2, <2>5 DEF ListsInv, NoOutput
  <2> QED BY <2>4, <2>6
<1> QED BY <1>3, <1>4, <1>5, <1>6, <1>7 DEF InvocationNext

\* A step leaves the other invocations' progress alone.
LEMMA OthersKept ==
  ASSUME TypeOK, workload' = workload, NEW i \in Invocations, InvocationNext(i),
         NEW j \in Invocations, j # i
  PROVE  /\ pc'[j] = pc[j] /\ at'[j] = at[j] /\ output'[j] = output[j]
         /\ seen'[j] = seen[j] /\ reference'[j] = reference[j]
         /\ differences'[j] = differences[j]
<1>1. ASSUME NEW a, Answer(i, a)
      PROVE  /\ pc'[j] = pc[j] /\ at'[j] = at[j] /\ output'[j] = output[j]
             /\ seen'[j] = seen[j] /\ reference'[j] = reference[j]
             /\ differences'[j] = differences[j]
  BY <1>1 DEF Answer, TypeOK
<1>2. CASE \/ AskIndex(i) \/ Hit(i) \/ ReplayFailure(i) \/ PrintRecorded(i)
           \/ RecordFailure(i) \/ ReplayAll(i) \/ PassThrough(i)
  BY <1>1, <1>2 DEF AskIndex, Hit, ReplayFailure, PrintRecorded, RecordFailure,
                    ReplayAll, PassThrough
<1>3. CASE RunReal(i) \/ RecordSuccess(i) \/ ScriptFails(i) \/ Kill(i)
  BY <1>3 DEF RunReal, RecordSuccess, ScriptFails, Kill, TypeOK
<1>4. CASE Compare(i)
  BY <1>4 DEF Compare, TypeOK
<1>5. CASE FinishScript(i)
  BY <1>5 DEF FinishScript, TypeOK
<1>6. CASE \E ref \in References : Start(i, ref)
  BY <1>6 DEF Start, TypeOK
<1> QED BY <1>2, <1>3, <1>4, <1>5, <1>6 DEF InvocationNext

\* Only a comparison is done, and nothing goes back to idle.
LEMMA GoesOn ==
  ASSUME TypeOK, NEW i \in Invocations, InvocationNext(i)
  PROVE  pc'[i] # "idle" /\ (Compare(i) \/ pc'[i] # "done")
<1>1. ASSUME NEW a, Answer(i, a) PROVE pc'[i] \in {"run", "failed"}
  BY <1>1 DEF Answer, TypeOK
<1>2. CASE \/ AskIndex(i) \/ Hit(i) \/ ReplayFailure(i) \/ PrintRecorded(i)
           \/ RecordFailure(i) \/ ReplayAll(i) \/ PassThrough(i)
  <2>1. \E a : Answer(i, a)
    BY <1>2 DEF AskIndex, Hit, ReplayFailure, PrintRecorded, RecordFailure, ReplayAll,
                PassThrough
  <2> QED BY <1>1, <2>1
<1>3. CASE \/ RunReal(i) \/ RecordSuccess(i) \/ ScriptFails(i) \/ Kill(i)
           \/ FinishScript(i) \/ \E ref \in References : Start(i, ref)
  BY <1>3 DEF RunReal, RecordSuccess, ScriptFails, Kill, FinishScript, Start, TypeOK
<1>4. CASE Compare(i)
  BY <1>4 DEF Compare, TypeOK
<1> QED BY <1>2, <1>3, <1>4 DEF InvocationNext

\* An invocation that moves is active before or starts where none is.
LEMMA MovesAlone ==
  ASSUME TypeOK, AloneInv, ~workload.overlap, workload' = workload,
         NEW i \in Invocations, InvocationNext(i), NEW j \in Invocations, j # i
  PROVE  pc[j] \in Over \cup {"idle"}
<1>1. CASE \E ref \in References : Start(i, ref)
  BY <1>1 DEF Start
<1>2. CASE ~\E ref \in References : Start(i, ref)
  <2>1. Active(i)
    BY <1>2 DEF InvocationNext, AskIndex, Hit, ReplayFailure, RunReal, RecordSuccess,
                PrintRecorded, RecordFailure, ReplayAll, PassThrough, FinishScript,
                ScriptFails, Compare, Kill, Caching, AtCommand, Active
  <2> QED BY <2>1 DEF AloneInv, Active
<1> QED BY <1>1, <1>2

LEMMA AloneInvKept ==
  ASSUME ShadowInv, OutputInv, AloneInv, workload' = workload, NEW i \in Invocations,
         InvocationNext(i)
  PROVE  AloneInv'
<1> SUFFICES ASSUME ~workload.overlap PROVE AloneInv!2'
  BY DEF AloneInv
<1>0. TypeOK
  BY DEF ShadowInv
<1>1. \A j \in Invocations \ {i} :
        /\ ~Active(j)' /\ pc'[j] = pc[j] /\ at'[j] = at[j] /\ output'[j] = output[j]
  BY <1>0, MovesAlone, OthersKept DEF Active
<1>2. pc'[i] # "idle"
  BY <1>0, GoesOn
<1>3. Active(i)' => AnswersInv(i)' /\ ListsInv(i)'
  <2>1. CASE ScriptFails(i) \/ Kill(i) \/ Compare(i)
    BY <1>0, <2>1 DEF ScriptFails, Kill, Compare, Active, TypeOK
  <2>2. CASE ~(ScriptFails(i) \/ Kill(i) \/ Compare(i))
    BY <2>2, MoverKeeps
  <2> QED BY <2>1, <2>2
<1>4. \A j \in Invocations : Active(j)' => j = i
  BY <1>1
<1>5. \A j \in Invocations : pc'[j] = "idle" => at'[j] = 1 /\ output'[j] = NoOutput'
  <2>1. NoOutput' = NoOutput
    BY DEF NoOutput
  <2> QED BY <1>1, <1>2, <2>1 DEF AloneInv
<1> QED BY <1>3, <1>4, <1>5

-----------------------------------------------------------------------------
(* What the lists and the differences of such an invocation hold *)

AllKinds == {"irr", "feed", "urls", "direct"}

OwnLists(i) ==
  \A r \in Roots, d \in Downloaders \ Appending :
    output[i][r][d] # None => output[i][r][d] \subseteq Given(i, r, d, AllKinds)

WhoisDifferences(i) ==
  pc[i] = "done" /\ reference[i] = "cached-whois" =>
    \A d \in Downloaders : differences[i][d] \subseteq
      UNION {Given(i, r, d, {"irr", "urls", "direct"}) : r \in Roots}

\* An answer to a command of a kind in C is in what the downloader was given.
LEMMA GivenAnswers ==
  ASSUME TypeOK, NEW i \in Invocations, NEW r \in Roots, NEW n \in DOMAIN Selected,
         NEW k \in DOMAIN ScriptOf[Selected[n]], NEW C,
         seen[i][r][<<n, k>>] # None, CommandAt(<<n, k>>).kind \in C
  PROVE  seen[i][r][<<n, k>>].body \subseteq Given(i, r, Selected[n], C)
<1>1. <<n, k>> \in Positions /\ <<n, k>>[1] = n
  BY PositionsType DEF TypeOK
<1> QED BY <1>1 DEF Given

LEMMA BodiesGiven ==
  ASSUME TypeOK, NEW i \in Invocations, NEW r \in Roots, NEW n \in DOMAIN Selected,
         NEW m, \A k \in DOMAIN ScriptOf[Selected[n]] :
                  k < m => seen[i][r][<<n, k>>] # None
  PROVE  Bodies(i, r, n, m) \subseteq Given(i, r, Selected[n], AllKinds)
<1> SUFFICES ASSUME NEW x \in Bodies(i, r, n, m)
             PROVE  x \in Given(i, r, Selected[n], AllKinds)
  OBVIOUS
<1>1. PICK k \in DOMAIN ScriptOf[Selected[n]] :
        k < m /\ x \in seen[i][r][<<n, k>>].body
  BY DEF Bodies
<1>2. CommandAt(<<n, k>>).kind \in AllKinds
  BY PositionsType, CommandsType DEF TypeOK, Commands, AllKinds
<1> QED BY <1>1, <1>2, GivenAnswers

\* The lists of a downloader that starts its scratch file afresh are own.
LEMMA OwnFollows ==
  ASSUME TypeOK, NEW i \in Invocations, ListsInv(i)
  PROVE  OwnLists(i)
<1> SUFFICES ASSUME NEW r \in Roots, NEW d \in Downloaders \ Appending,
                    output[i][r][d] # None
             PROVE  output[i][r][d] \subseteq Given(i, r, d, AllKinds)
  BY DEF OwnLists
<1>1. PICK n \in DOMAIN Selected : Selected[n] = d /\ Finished(i, r, n)
  BY DEF ListsInv
<1>2. Collected(i, r, n, Len(ScriptOf[d]) + 1, output[i][r][d])
  BY <1>1 DEF ListsInv
<1>3. output[i][r][d] \subseteq Bodies(i, r, n, Len(ScriptOf[d]) + 1)
  BY <1>1, <1>2 DEF Collected
<1>4. Bodies(i, r, n, Len(ScriptOf[d]) + 1) \subseteq Given(i, r, d, AllKinds)
  BY <1>1, <1>2, BodiesGiven DEF Collected
<1> QED BY <1>3, <1>4

\* Both trees got the same answers to the recorded requests.
LEMMA FeedsAgree ==
  ASSUME TypeOK, NEW i \in Invocations, AnswersInv(i), reference[i] = "cached-whois",
         NEW p \in Positions, CommandAt(p).kind = "feed",
         seen[i]["reference"][p] # None, seen[i]["candidate"][p] # None
  PROVE  seen[i]["reference"][p] = seen[i]["candidate"][p]
<1>1. PICK k \in CommandAt(p).keys : k \in Keys
  BY CommandsType DEF TypeOK
<1>2. Asks(i, "reference", p) /\ Asks(i, "candidate", p)
  BY DEF Asks, Recorded
<1> QED BY <1>1, <1>2 DEF AnswersInv

\* The comparison of the two trees of an invocation that ran alone.
LEMMA CompareAlone ==
  ASSUME ShadowInv, OutputInv, AloneInv, ~workload.overlap, workload' = workload,
         NEW i \in Invocations, Compare(i)
  PROVE  WhoisDifferences(i)'
<1> SUFFICES ASSUME reference'[i] = "cached-whois", NEW d \in Downloaders
             PROVE  differences'[i][d] \subseteq
                      UNION {Given(i, r, d, {"irr", "urls", "direct"})' : r \in Roots}
  BY DEF WhoisDifferences
<1>0. /\ TypeOK /\ pc[i] = "compare" /\ reference[i] = "cached-whois"
      /\ AnswersInv(i) /\ ListsInv(i) /\ UNCHANGED <<seen, reference>>
  BY DEF ShadowInv, Compare, AloneInv, Active
<1>1. \A r \in Roots : \A C : Given(i, r, d, C)' = Given(i, r, d, C)
  BY <1>0, SelectionKept DEF Given
<1> DEFINE new == output[i]["candidate"][d]
           old == output[i]["reference"][d]
<1>2. differences'[i][d] = IF \E n \in DOMAIN Selected : Selected[n] = d
                           THEN (new \ old) \cup (old \ new) ELSE {}
  BY <1>0 DEF Compare, ReferenceLists, TypeOK
<1>3. CASE ~\E n \in DOMAIN Selected : Selected[n] = d
  BY <1>2, <1>3
<1>4. ASSUME NEW n \in DOMAIN Selected, Selected[n] = d
      PROVE  (new \ old) \cup (old \ new) \subseteq
               UNION {Given(i, r, d, {"irr", "urls", "direct"}) : r \in Roots}
  <2> DEFINE m == Len(ScriptOf[d]) + 1
             B(r) == Bodies(i, r, n, m)
  <2>1. root[i] = "candidate"
    BY <1>0, <1>4 DEF OutputInv
  <2>2. Collected(i, "candidate", n, m, new) /\ Collected(i, "reference", n, m, old)
    BY <1>0, <1>4, <2>1 DEF ListsInv, Finished
  <2>3. ASSUME NEW r \in Roots, NEW x \in B(r), x \notin B("reference") \cap B("candidate")
        PROVE  x \in Given(i, r, d, {"irr", "urls", "direct"})
    <3>1. PICK k \in DOMAIN ScriptOf[d] : k < m /\ x \in seen[i][r][<<n, k>>].body
      BY <1>4 DEF Bodies
    <3>2. /\ seen[i]["reference"][<<n, k>>] # None
          /\ seen[i]["candidate"][<<n, k>>] # None
      BY <1>4, <2>2, <3>1 DEF Collected
    <3>3. <<n, k>> \in Positions
      BY <1>0, <1>4, PositionsType DEF TypeOK
    <3>4. CommandAt(<<n, k>>).kind # "feed"
      <4> SUFFICES ASSUME CommandAt(<<n, k>>).kind = "feed" PROVE FALSE
        OBVIOUS
      <4>1. seen[i]["reference"][<<n, k>>] = seen[i]["candidate"][<<n, k>>]
        BY <1>0, <3>2, <3>3, FeedsAgree
      <4>2. /\ x \in seen[i]["reference"][<<n, k>>].body
            /\ x \in seen[i]["candidate"][<<n, k>>].body
        BY <3>1, <4>1
      <4> QED BY <1>4, <2>3, <3>1, <4>2 DEF Bodies
    <3>5. CommandAt(<<n, k>>).kind \in {"irr", "urls", "direct"}
      BY <1>0, <3>3, <3>4, CommandsType DEF TypeOK, Commands
    <3>6. seen[i][r][<<n, k>>] # None
      BY <3>2
    <3> QED BY <1>0, <1>4, <3>1, <3>5, <3>6, GivenAnswers
  <2>4. ASSUME NEW x \in new, x \notin old
        PROVE  x \in B("candidate") /\ x \notin B("reference")
    BY <1>0, <1>4, <2>2, <2>4 DEF Collected
  <2>5. ASSUME NEW x \in old, x \notin new
        PROVE  x \in B("reference") /\ x \notin B("candidate")
    BY <1>0, <1>4, <2>2, <2>5 DEF Collected
  <2> HIDE DEF B, new, old
  <2> QED BY <2>3, <2>4, <2>5
<1> HIDE DEF new, old
<1> QED BY <1>1, <1>2, <1>3, <1>4

OwnImplied ==
  TypeOK => \A i \in Invocations : ListsInv(i) => OwnLists(i)

LEMMA OwnImpliedThen == OwnImplied'
<1>1. OwnImplied
  BY OwnFollows DEF OwnImplied
<1> QED BY <1>1, PTL

LEMMA OwnListsKept ==
  ASSUME ShadowInv, OutputInv, AloneInv, ~workload.overlap,
         \A j \in Invocations : OwnLists(j), workload' = workload, TypeOK',
         NEW i \in Invocations, InvocationNext(i)
  PROVE  \A j \in Invocations : OwnLists(j)'
<1>0. TypeOK
  BY DEF ShadowInv
<1>1. ASSUME NEW j \in Invocations, seen'[j] = seen[j], output'[j] = output[j]
      PROVE  OwnLists(j)'
  <2>1. \A r, d, C : Given(j, r, d, C)' = Given(j, r, d, C)
    BY <1>1, SelectionKept DEF Given
  <2>2. \A r \in Roots, d \in Downloaders \ Appending :
          output'[j][r][d] # None =>
            output'[j][r][d] \subseteq Given(j, r, d, AllKinds)
    BY <1>1 DEF OwnLists
  <2> QED BY <2>1, <2>2 DEF OwnLists, AllKinds
<1>2. CASE ScriptFails(i) \/ Kill(i) \/ Compare(i)
  BY <1>1, <1>2 DEF ScriptFails, Kill, Compare
<1>3. CASE ~(ScriptFails(i) \/ Kill(i) \/ Compare(i))
  <2>1. OwnLists(i)'
    BY <1>3, MoverKeeps, OwnImpliedThen DEF OwnImplied
  <2>2. \A j \in Invocations \ {i} : OwnLists(j)'
    BY <1>0, <1>1, OthersKept
  <2> QED BY <2>1, <2>2
<1> QED BY <1>2, <1>3

LEMMA WhoisDifferencesKept ==
  ASSUME ShadowInv, OutputInv, AloneInv, ~workload.overlap,
         \A j \in Invocations : WhoisDifferences(j), workload' = workload,
         NEW i \in Invocations, InvocationNext(i)
  PROVE  \A j \in Invocations : WhoisDifferences(j)'
<1>0. TypeOK
  BY DEF ShadowInv
<1>1. ASSUME NEW j \in Invocations, j # i PROVE WhoisDifferences(j)'
  <2>1. /\ pc'[j] = pc[j] /\ seen'[j] = seen[j] /\ reference'[j] = reference[j]
        /\ differences'[j] = differences[j]
    BY <1>0, <1>1, OthersKept
  <2>2. \A r, d, C : Given(j, r, d, C)' = Given(j, r, d, C)
    BY <2>1, SelectionKept DEF Given
  <2> SUFFICES ASSUME pc[j] = "done", reference[j] = "cached-whois",
                      NEW d \in Downloaders, NEW x \in differences[j][d]
               PROVE  x \in UNION {Given(j, r, d, {"irr", "urls", "direct"})' : r \in Roots}
    BY <2>1 DEF WhoisDifferences
  <2>3. PICK r \in Roots : x \in Given(j, r, d, {"irr", "urls", "direct"})
    BY DEF WhoisDifferences
  <2> QED BY <2>2, <2>3
<1>2. CASE Compare(i)
  BY <1>1, <1>2, CompareAlone
<1>3. CASE ~Compare(i)
  <2>1. WhoisDifferences(i)'
    BY <1>0, <1>3, GoesOn DEF WhoisDifferences
  <2> QED BY <1>1, <2>1
<1> QED BY <1>2, <1>3

-----------------------------------------------------------------------------
(* Theorems *)

LEMMA ShadowInvStarts == Init => ShadowInv /\ OutputInv
<1> SUFFICES ASSUME Init PROVE ShadowInv /\ OutputInv
  OBVIOUS
<1>1. workload \in Workloads /\ Selected \in Seq(Downloaders) \ {<<>>}
  BY SelectedType DEF Init
<1>2. 1 \in DOMAIN Selected
  BY <1>1
<1>3. NotSeen \in [Roots -> [Positions -> Answers \cup {None}]]
  BY DEF NotSeen
<1>4. NoOutput \in [Roots -> [Downloaders -> (SUBSET Addresses) \cup {None}]]
  BY DEF NoOutput
<1>5. TypeOK
  BY <1>1, <1>2, <1>3, <1>4 DEF Init, TypeOK, Options
<1>6. CacheInv /\ CalledInv
  BY DEF Init, CacheInv, CalledInv
<1>7. StepInv
  BY DEF Init, StepInv, NotSeen
<1>8. SeenInv
  BY DEF Init, SeenInv, NotSeen
<1>9. OutputInv
  BY <1>1, SelectedType DEF Init, OutputInv
<1> QED BY <1>5, <1>6, <1>7, <1>8, <1>9 DEF ShadowInv

LEMMA ShadowInvKept == ShadowInv /\ OutputInv /\ [Next]_vars => (ShadowInv /\ OutputInv)'
<1> SUFFICES ASSUME ShadowInv, OutputInv, [Next]_vars PROVE ShadowInv' /\ OutputInv'
  OBVIOUS
<1>1. ASSUME workload' = workload, NEW i \in Invocations, InvocationNext(i)
      PROVE  ShadowInv'
  BY <1>1, AskIndexKeeps, HitKeeps, PrintRecordedKeeps, RecordFailureKeeps,
     ReplayAllKeeps, PassThroughKeeps, RunRealKeeps, RecordSuccessKeeps, StartKeeps,
     FinishScriptKeeps, EndKeeps, CompareKeeps DEF InvocationNext
<1>2. CASE Next
  BY <1>1, <1>2, OutputInvKept DEF Next
<1>3. CASE UNCHANGED vars
  <2>1. workload' = workload
    BY <1>3 DEF vars
  <2>2. \A i \in Invocations : /\ Key(i)' = Key(i) /\ InRange(i)' = InRange(i)
                              /\ CommandAt(Place(i))' = CommandAt(Place(i))
    BY <1>3, PlaceKept DEF vars
  <2>3. /\ TypeOK' /\ CacheInv' /\ OutputInv'
    BY <1>3, <2>1, SelectionKept DEF vars, ShadowInv, TypeOK, CacheInv, OutputInv
  <2>4. CalledInv'
    BY <1>3, <2>2 DEF vars, ShadowInv, CalledInv, Known
  <2>5. StepInv'
    BY <1>3, <2>1, <2>2, SelectionKept DEF vars, ShadowInv, StepInv, Asks
  <2>6. SeenInv'
    BY <1>3, <2>1, <2>2, SelectionKept DEF vars, ShadowInv, SeenInv, Asks, Known
  <2> QED BY <2>3, <2>4, <2>5, <2>6 DEF ShadowInv
<1> QED BY <1>2, <1>3

LEMMA ShadowInvHolds == Spec => [](ShadowInv /\ OutputInv)
BY ShadowInvStarts, ShadowInvKept, PTL DEF Spec

\* Every variable has its type.
THEOREM TypeCorrect == Spec => []TypeOK
<1>1. ShadowInv => TypeOK
  BY DEF ShadowInv
<1> QED BY <1>1, ShadowInvHolds, PTL

\* The paired runs of an invocation get the same answer to a recorded request,
\* unless another invocation recorded it (main.go 569-573, 583-614).
THEOREM PairedRunsAgreeHolds == Spec => []PairedRunsAgree
<1>1. ASSUME ShadowInv PROVE PairedRunsAgree
  <2> SUFFICES ASSUME NEW i \in Invocations, NEW p \in Positions, NEW q \in Positions,
                      CommandAt(p).kind \in {"irr", "feed"}, CommandAt(q).kind = "feed",
                      CommandAt(p).keys = CommandAt(q).keys,
                      seen[i]["reference"][p] # None, seen[i]["candidate"][q] # None,
                      seen[i]["reference"][p] # seen[i]["candidate"][q],
                      NEW x \in CommandAt(p).keys
               PROVE  recorder[x] \notin {i, None}
    BY DEF PairedRunsAgree
  <2>1. reference[i] = "cached-whois"
    BY <1>1 DEF ShadowInv, StepInv
  <2>2. Asks(i, "reference", p) /\ Asks(i, "candidate", q)
    BY <2>1 DEF Asks, Recorded
  <2>3. x \in Keys
    BY <1>1, CommandsType DEF ShadowInv, TypeOK, Commands
  <2> QED BY <1>1, <2>2, <2>3 DEF ShadowInv, SeenInv
<1> QED BY <1>1, ShadowInvHolds, PTL

\* A failure an invocation is shown for a recorded request is its own
\* (main.go 569-573).
THEOREM FailuresAreOwnHolds == Spec => []FailuresAreOwn
<1>1. ASSUME ShadowInv PROVE FailuresAreOwn
  <2> SUFFICES ASSUME NEW i \in Invocations, NEW r \in Roots, NEW p \in Positions,
                      Asks(i, r, p), seen[i][r][p] # None, ~seen[i][r][p].ok,
                      NEW k \in CommandAt(p).keys
               PROVE  k \in called[i]
    BY DEF FailuresAreOwn, Asks
  <2>1. k \in Keys
    BY <1>1, CommandsType DEF ShadowInv, TypeOK, Commands
  <2> QED BY <1>1, <2>1 DEF ShadowInv, SeenInv
<1> QED BY <1>1, ShadowInvHolds, PTL

\* No invocation runs the real command of a recorded request twice.
THEOREM RunsRealOnceHolds == Spec => RunsRealOnce
<1>1. ASSUME ShadowInv, [Next]_vars
      PROVE  [\A i \in Invocations : RunReal(i) => Key(i) \notin called[i]]_vars
  BY <1>1, RunRealKeeps DEF Next
<1> QED BY <1>1, ShadowInvHolds, PTL DEF Spec, RunsRealOnce

\* The invocations of a sequential workload run alone.
LEMMA AloneInvHolds == Spec => []AloneInv
<1>1. Init => AloneInv
  BY DEF Init, AloneInv, Active
<1>2. ShadowInv /\ OutputInv /\ AloneInv /\ [Next]_vars => AloneInv'
  <2> SUFFICES ASSUME ShadowInv, OutputInv, AloneInv, [Next]_vars PROVE AloneInv'
    OBVIOUS
  <2>1. CASE Next
    BY <2>1, AloneInvKept DEF Next
  <2>2. CASE UNCHANGED vars
    <3>0. /\ workload' = workload /\ TypeOK
      BY <2>2 DEF vars, ShadowInv
    <3>1. \A i \in Invocations : Active(i)' <=> Active(i)
      BY <2>2 DEF vars, Active
    <3>2. ASSUME NEW i \in Invocations, AnswersInv(i) PROVE AnswersInv(i)'
      <4>1. Key(i)' = Key(i)
        BY <2>2, PlaceKept DEF vars
      <4>2. \A r, p, k : (Asks(i, r, p)' <=> Asks(i, r, p)) /\ Known(i, k)' = Known(i, k)
        BY <2>2, SelectionKept DEF vars, Asks, Known
      <4> QED BY <2>2, <3>2, <4>1, <4>2, SelectionKept DEF vars, AnswersInv
    <3>3. ASSUME NEW i \in Invocations, ListsInv(i)
          PROVE  ListsInv(i)'
      BY <2>2, <3>0, <3>3, ListsQuiet DEF vars
    <3> QED BY <2>2, <3>0, <3>1, <3>2, <3>3 DEF vars, AloneInv, NoOutput
  <2> QED BY <2>1, <2>2
<1> QED BY <1>1, <1>2, ShadowInvHolds, PTL DEF Spec

EndInv ==
  ~workload.overlap => \A i \in Invocations : OwnLists(i) /\ WhoisDifferences(i)

LEMMA EndInvHolds == Spec => []EndInv
<1>1. Init => EndInv
  <2> SUFFICES ASSUME Init, NEW i \in Invocations
               PROVE  OwnLists(i) /\ WhoisDifferences(i)
    BY DEF EndInv
  <2>1. pc[i] = "idle" /\ output[i] = NoOutput
    BY DEF Init
  <2> QED BY <2>1 DEF OwnLists, WhoisDifferences, NoOutput
<1>2. ASSUME ShadowInv, OutputInv, AloneInv, TypeOK', EndInv, [Next]_vars PROVE EndInv'
  <2>1. CASE Next
    BY <1>2, <2>1, OwnListsKept, WhoisDifferencesKept DEF Next, EndInv
  <2>2. CASE UNCHANGED vars
    <3>1. workload' = workload
      BY <2>2 DEF vars
    <3>2. \A i, r, d, C : Given(i, r, d, C)' = Given(i, r, d, C)
      BY <2>2, <3>1, SelectionKept DEF vars, Given
    <3>3. ASSUME NEW i \in Invocations, OwnLists(i) PROVE OwnLists(i)'
      BY <2>2, <3>2, <3>3 DEF vars, OwnLists, AllKinds
    <3>4. ASSUME NEW i \in Invocations, WhoisDifferences(i) PROVE WhoisDifferences(i)'
      <4> SUFFICES ASSUME pc[i] = "done", reference[i] = "cached-whois",
                          NEW d \in Downloaders, NEW x \in differences[i][d]
                   PROVE  x \in UNION {Given(i, r, d, {"irr", "urls", "direct"})' :
                                         r \in Roots}
        BY <2>2 DEF vars, WhoisDifferences
      <4>1. PICK r \in Roots : x \in Given(i, r, d, {"irr", "urls", "direct"})
        BY <3>4 DEF WhoisDifferences
      <4> QED BY <3>2, <4>1
    <3> QED BY <1>2, <3>1, <3>3, <3>4 DEF EndInv
  <2> QED BY <1>2, <2>1, <2>2
<1>3. ShadowInv => TypeOK
  BY DEF ShadowInv
<1> QED BY <1>1, <1>2, <1>3, ShadowInvHolds, AloneInvHolds, PTL DEF Spec

\* Of invocations that do not overlap, a downloader whose first write to its
\* scratch file truncates it writes lists of its own answers, whatever the
\* other downloaders do and whatever earlier runs left in /tmp.
THEOREM TruncatedOutputIsOwn ==
  Spec => [](~workload.overlap => \A i \in Invocations : OwnLists(i))
<1>1. EndInv => (~workload.overlap => \A i \in Invocations : OwnLists(i))
  BY DEF EndInv
<1> QED BY <1>1, EndInvHolds, PTL

\* So where every downloader does that, all lists are of their own answers.
THEOREM OutputIsOwnHolds == Spec => [](Appending = {} => OutputIsOwn)
<1>1. EndInv => (Appending = {} => OutputIsOwn)
  BY DEF EndInv, OutputIsOwn, OwnLists, AllKinds
<1> QED BY <1>1, EndInvHolds, PTL

\* The differences of a cached-whois report come from the whois answers or
\* from requests no shim records, also where scratch files are appended to:
\* what such a file holds is in both outputs (compare.go 161).
THEOREM DifferencesComeFromWhoisHolds == Spec => []DifferencesComeFromWhois
<1>1. EndInv => DifferencesComeFromWhois
  BY DEF EndInv, DifferencesComeFromWhois, WhoisDifferences
<1> QED BY <1>1, EndInvHolds, PTL
=============================================================================
