--------------------------- MODULE Readers_proofs ---------------------------
(***************************************************************************)
(* Proofs about Readers for any index, mirrors, scripts and processes: a   *)
(* comparison and a shadow run see the same prefixes, a host answers from  *)
(* its own registries, and verify judges right, whatever builds commit     *)
(* between two statements.                                                 *)
(***************************************************************************)
EXTENDS Readers, FiniteSetTheorems, TLAPS

-----------------------------------------------------------------------------
(* The two ways to ask *)

\* What the statements in S find for an owner in one index.
Collected(p, o, S) ==
  {x \in Prefixes : \E s \in S : s.for = o /\ x \in Found(p, s)}

LEMMA AskElements ==
  ASSUME NEW o, NEW a, NEW fs, NEW flt, NEW s
  PROVE  s \in Ask(o, a, fs, flt) <=>
           \E f \in fs : s = [for |-> o, attr |-> a, family |-> f, filter |-> flt]
BY DEF Ask

\* On one index the queries of compare find for a downloader what whois-shim
\* answers to its script.
LEMMA SameAnswers ==
  ASSUME NEW p, NEW d \in Downloaders
  PROVE  Collected(p, d, UNION {CompareStatements(e) : e \in Downloaders}) =
           Collected(p, d, ScriptStatements(d))
<1> DEFINE all == UNION {CompareStatements(e) : e \in Downloaders}
<1>1. ASSUME NEW x \in Prefixes, NEW s \in all, s.for = d, x \in Found(p, s)
      PROVE  x \in Collected(p, d, ScriptStatements(d))
  <2>0. PICK e \in Downloaders : s \in CompareStatements(e)
    BY <1>1
  <2>1. PICK a \in Asked(e), f \in {4, 6} :
          s = [for |-> e, attr |-> a, family |-> f,
               filter |-> SourcesFromMirrors(MirrorsOf(e, a))]
    BY <2>0, AskElements DEF CompareStatements
  <2>2. e = d
    BY <1>1, <2>1
  <2>3. /\ s.attr = a /\ s.family = f
        /\ s.filter = SourcesFromMirrors(MirrorsOf(d, a))
    BY <2>1, <2>2
  <2>4. PICK n \in Names : /\ Serves(p, n) /\ (s.filter = {} \/ n \in s.filter)
                           /\ \E row \in p[n] : row[1] = x /\ a \in row[2]
    BY <1>1, <2>3 DEF Found
  <2>5. FamilyOf[x] = f
    BY <1>1, <2>3 DEF Found
  <2>6. PICK c \in Commands[d] : c[2] = a
    BY <2>2 DEF Asked
  <2>7. c[1] \in Hosts \ {NoHost} /\ NameOf[c[1]] \in MirrorsOf(d, a)
    BY <2>6, CommandsAssumption DEF MirrorsOf
  <2>8. s.filter # {}
    BY <2>3, <2>7, MirrorsAssumption DEF SourcesFromMirrors
  <2>9. PICK m \in MirrorsOf(d, a) :
          n \in IF m \in DOMAIN SourcesByMirror THEN SourcesByMirror[m] ELSE {m}
    BY <2>3, <2>4, <2>8 DEF SourcesFromMirrors
  <2>10. PICK b \in Commands[d] : b[2] = a /\ NameOf[b[1]] = m
    BY <2>9 DEF MirrorsOf
  <2>11. b[1] \in Hosts \ {NoHost}
    BY <2>10, CommandsAssumption
  <2>12. Known(b[1]) /\ n \in SourcesForHost(b[1])
    BY <2>9, <2>10, <2>11, MirrorsAssumption DEF Known, SourcesForHost
  <2> DEFINE t == [for |-> d, attr |-> a, family |-> f,
                   filter |-> SourcesForHost(b[1])]
  <2>13. t \in ScriptStatements(d)
    BY <2>1, <2>10, <2>12, AskElements DEF ScriptStatements
  <2>14. t.for = d /\ x \in Found(p, t)
    BY <1>1, <2>4, <2>5, <2>12 DEF Found
  <2> QED BY <2>13, <2>14 DEF Collected
<1>2. ASSUME NEW x \in Prefixes, NEW s \in ScriptStatements(d), x \in Found(p, s)
      PROVE  x \in Collected(p, d, all)
  <2>1. PICK c \in Commands[d], f \in {4, 6} :
          /\ Known(c[1])
          /\ s = [for |-> d, attr |-> c[2], family |-> f,
                  filter |-> SourcesForHost(c[1])]
    BY AskElements DEF ScriptStatements
  <2>2. /\ s.attr = c[2] /\ s.family = f
        /\ s.filter = SourcesByMirror[NameOf[c[1]]]
    BY <2>1 DEF SourcesForHost
  <2>3. s.filter # {}
    BY <2>1, <2>2, MirrorsAssumption DEF Known
  <2>4. PICK n \in Names : /\ Serves(p, n) /\ n \in s.filter
                           /\ \E row \in p[n] : row[1] = x /\ c[2] \in row[2]
    BY <1>2, <2>2, <2>3 DEF Found
  <2>5. FamilyOf[x] = f
    BY <1>2, <2>2 DEF Found
  <2>6. NameOf[c[1]] \in MirrorsOf(d, c[2]) /\ c[2] \in Asked(d)
    BY <2>1 DEF MirrorsOf, Asked
  <2>7. n \in SourcesFromMirrors(MirrorsOf(d, c[2]))
    BY <2>1, <2>2, <2>4, <2>6 DEF SourcesFromMirrors, Known
  <2> DEFINE t == [for |-> d, attr |-> c[2], family |-> f,
                   filter |-> SourcesFromMirrors(MirrorsOf(d, c[2]))]
  <2>8. t \in Ask(d, c[2], {4, 6}, SourcesFromMirrors(MirrorsOf(d, c[2])))
    BY <2>1, AskElements
  <2>9. t \in all
    BY <2>6, <2>8 DEF CompareStatements
  <2>10. t.for = d /\ x \in Found(p, t)
    BY <1>2, <2>4, <2>5, <2>7 DEF Found
  <2> QED BY <2>9, <2>10 DEF Collected
<1> HIDE DEF all
<1>3. Collected(p, d, all) \subseteq Collected(p, d, ScriptStatements(d))
  BY <1>1 DEF Collected
<1>4. Collected(p, d, ScriptStatements(d)) \subseteq Collected(p, d, all)
  BY <1>2 DEF Collected
<1> QED BY <1>3, <1>4 DEF all

-----------------------------------------------------------------------------
(* Types *)

LEMMA StatementsTyped ==
  ASSUME NEW j \in Jobs
  PROVE  \A s \in StatementsOf(j) : s.for \in Owners /\ s.attr \in Attributes
<1>1. \A h \in Hosts, a \in Attributes :
        \A s \in Ask(NoOne, a, {4, 6}, SourcesForHost(h)) :
          s.for \in Owners /\ s.attr \in Attributes
  BY DEF Ask, Owners
<1>2. \A a \in Attributes, f \in {4, 6} : \A s \in Ask(NoOne, a, {f}, {}) :
        s.for \in Owners /\ s.attr \in Attributes
  BY DEF Ask, Owners
<1>3. ASSUME NEW d \in Downloaders, NEW s \in ScriptStatements(d)
      PROVE  s.for \in Owners /\ s.attr \in Attributes
  <2>1. PICK c \in Commands[d] : s \in Ask(d, c[2], {4, 6}, SourcesForHost(c[1]))
    BY <1>3 DEF ScriptStatements
  <2>2. s.for = d /\ s.attr = c[2]
    BY <2>1 DEF Ask
  <2> QED BY <2>2, CommandsAssumption DEF Owners
<1>4. ASSUME NEW d \in Downloaders, NEW s \in CompareStatements(d)
      PROVE  s.for \in Owners /\ s.attr \in Attributes
  <2>1. PICK a \in Asked(d) :
          s \in Ask(d, a, {4, 6}, SourcesFromMirrors(MirrorsOf(d, a)))
    BY <1>4 DEF CompareStatements
  <2>2. s.for = d /\ s.attr = a
    BY <2>1 DEF Ask
  <2> QED BY <2>1, <2>2, CommandsAssumption DEF Owners, Asked
<1>5. CASE j.cmd = "query"
  <2>1. j.attr \in Attributes /\ j.family \in {4, 6}
    BY <1>5 DEF Jobs
  <2> QED BY <1>2, <1>5, <2>1 DEF StatementsOf
<1>6. CASE j.cmd = "whois-shim"
  <2>1. j.attr \in Attributes /\ j.host \in Hosts
    BY <1>6 DEF Jobs
  <2> QED BY <1>1, <1>6, <2>1 DEF StatementsOf
<1>7. CASE j.cmd = "script"
  <2>1. j.downloader \in Downloaders
    BY <1>7 DEF Jobs
  <2> QED BY <1>3, <1>7, <2>1 DEF StatementsOf
<1>8. CASE j.cmd = "compare"
  BY <1>4, <1>8 DEF StatementsOf
<1>9. CASE j.cmd = "verify"
  BY <1>9 DEF StatementsOf
<1> QED BY <1>5, <1>6, <1>7, <1>8, <1>9 DEF Jobs

LEMMA IndexesTyped ==
  /\ Indexes \subseteq [Names -> (UNION {Entries[n] : n \in Names})
                                  \cup {Missing, Failed}]
  /\ \A p \in Indexes, n \in Names : Serves(p, n) =>
       p[n] \in Entries[n] /\ p[n] \subseteq Rows
BY EntriesAssumption DEF Indexes, Serves

LEMMA OfferTyped ==
  ASSUME NEW p \in Indexes
  PROVE  /\ Offer(p) \subseteq Names \X Rows
         /\ IsFiniteSet(Offer(p))
         /\ \A o \in Offer(p) : Serves(p, o[1]) /\ o[2] \in p[o[1]]
         /\ \A n \in Names : Serves(p, n) =>
              \A row \in p[n] : <<n, row>> \in Offer(p)
<1> DEFINE serving == {m \in Names : Serves(p, m)}
<1>1. \A n \in serving : p[n] \in Entries[n] /\ p[n] \subseteq Rows
  BY IndexesTyped
<1>2. \A n \in serving : \A o \in {n} \X p[n] :
        o = <<o[1], o[2]>> /\ o[1] = n /\ o[2] \in p[n]
  OBVIOUS
<1>3. Offer(p) \subseteq Names \X Rows
  BY <1>1 DEF Offer
<1>4. \A o \in Offer(p) : Serves(p, o[1]) /\ o[2] \in p[o[1]]
  BY <1>2 DEF Offer
<1>5. \A n \in Names : Serves(p, n) => \A row \in p[n] : <<n, row>> \in Offer(p)
  BY DEF Offer
<1>6. IsFiniteSet(Offer(p))
  <2> DEFINE parts == {{n} \X p[n] : n \in serving}
  <2>1. IsFiniteSet(serving)
    BY EntriesAssumption, FS_Subset
  <2>2. IsFiniteSet(parts)
    <3> DEFINE part == [n \in serving |-> {n} \X p[n]]
    <3>1. part \in Surjection(serving, parts)
      BY DEF Surjection
    <3> QED BY <2>1, <3>1, FS_Surjection
  <2>3. ASSUME NEW n \in serving PROVE IsFiniteSet({n} \X p[n])
    <3>1. IsFiniteSet(p[n])
      BY <1>1, EntriesAssumption
    <3>2. IsFiniteSet({n})
      BY FS_Singleton
    <3> QED BY <3>1, <3>2, FS_Product
  <2>4. IsFiniteSet(UNION parts)
    BY <2>2, <2>3, FS_UNION
  <2> QED BY <2>4 DEF Offer
<1> QED BY <1>3, <1>4, <1>5, <1>6

-----------------------------------------------------------------------------
(* The invariant *)

\* A row of an answer is a prefix, was asked for and held while the reader ran.
Answered(r, o, x) ==
  /\ x \notin Ranges
  /\ \E s \in StatementsOf(job[r]) :
       /\ s.for = o
       /\ \E y \in offered[r] : /\ s.filter = {} \/ y[1] \in s.filter
                                /\ y[2][1] = x /\ s.attr \in y[2][2]

\* What a reader has collected, if it saw only one index.
AskInv(r) ==
  /\ pc[r] = "idle" => \A o \in Owners : got[r][o] = {}
  /\ pc[r] = "done" => todo[r] = {}
  /\ \A o \in Owners : \A x \in got[r][o] : Answered(r, o, x)
  /\ ~disturbed[r] /\ pc[r] \in {"ask", "done"} =>
       \A o \in Owners :
         got[r][o] = Collected(before[r], o, StatementsOf(job[r]) \ todo[r])

\* What verify has seen so far.
VerifyInv(r) ==
  /\ pc[r] = "defaults" \/ pc[r] = "judge" =>
       /\ counts[r].objects # 0 => offered[r] # {}
       /\ counts[r].objects = 0 /\ ~disturbed[r] => offered[r] = {}
  /\ pc[r] \in {"objects", "defaults", "judge"} =>
       (counts[r].sources = 0 /\ ~disturbed[r] => offered[r] = {})
  /\ pc[r] = "judge" => counts[r].defaults = 0
  /\ pc[r] = "passed" => offered[r] # {}
  /\ pc[r] = "rejected" /\ ~disturbed[r] => offered[r] = {}

WindowInv(r) ==
  Running(r) => /\ Offer(published) \subseteq offered[r]
                /\ ~disturbed[r] => /\ before[r] = published
                                    /\ offered[r] = Offer(published)

ReadersInv ==
  /\ TypeOK
  /\ \A r \in Readers : AskInv(r) /\ VerifyInv(r) /\ WindowInv(r)

LEMMA InitReaders == Init => ReadersInv
<1> SUFFICES ASSUME Init PROVE ReadersInv
  OBVIOUS
<1>1. [cmd |-> "verify"] \in Jobs
  BY DEF Jobs
<1>2. TypeOK
  BY <1>1, BoundAssumption DEF Init, TypeOK, NoCounts, Over
<1>3. ASSUME NEW r \in Readers PROVE AskInv(r) /\ VerifyInv(r) /\ WindowInv(r)
  BY DEF Init, AskInv, VerifyInv, WindowInv, Running
<1> QED BY <1>2, <1>3 DEF ReadersInv

\* A step of one reader leaves the others as they are.
LEMMA OtherReaders ==
  ASSUME ReadersInv, NEW r \in Readers, NEW q \in Readers \ {r},
         UNCHANGED <<published, commits>>, pc'[q] = pc[q], job'[q] = job[q],
         todo'[q] = todo[q], got'[q] = got[q], counts'[q] = counts[q],
         before'[q] = before[q], disturbed'[q] = disturbed[q],
         offered'[q] = offered[q]
  PROVE  (AskInv(q) /\ VerifyInv(q) /\ WindowInv(q))'
<1>1. AskInv(q) /\ VerifyInv(q) /\ WindowInv(q)
  BY DEF ReadersInv
<1>2. AskInv(q)'
  <2>1. \A o \in Owners : \A x \in got'[q][o] : Answered(q, o, x)'
    BY <1>1 DEF AskInv, Answered
  <2> QED BY <1>1, <2>1 DEF AskInv
<1>3. VerifyInv(q)'
  BY <1>1 DEF VerifyInv
<1>4. WindowInv(q)'
  BY <1>1 DEF WindowInv, Running, Offer
<1> QED BY <1>2, <1>3, <1>4

LEMMA IndexStep ==
  ASSUME published \in Indexes, Index!Next
  PROVE  published' \in Indexes
<1>1. PICK n \in Names : Index!Import(n) \/ Index!Fail(n)
  BY DEF Index!Next
<1>2. PICK e \in Entries[n] \cup {Failed} :
        published' = [published EXCEPT ![n] = e]
  BY <1>1 DEF Index!Import, Index!Fail
<1> QED BY <1>2 DEF Indexes

-----------------------------------------------------------------------------
(* The steps *)

LEMMA PublishStep ==
  ASSUME ReadersInv, Publish
  PROVE  ReadersInv'
<1>1. /\ Index!Next /\ commits' = commits + 1 /\ commits < MaxCommits
      /\ disturbed' = [r \in Readers |->
           disturbed[r] \/ (Running(r) /\ published' # published)]
      /\ offered' = [r \in Readers |->
           IF Running(r) THEN offered[r] \cup Offer(published') ELSE offered[r]]
      /\ UNCHANGED <<pc, job, todo, got, counts, before>>
  BY DEF Publish
<1>2. TypeOK
  BY DEF ReadersInv
<1>3. published' \in Indexes
  BY <1>1, <1>2, IndexStep DEF TypeOK
<1>4. Offer(published') \subseteq Names \X Rows
  BY <1>3, OfferTyped
<1>5. TypeOK'
  BY <1>1, <1>2, <1>3, <1>4, BoundAssumption DEF TypeOK
<1>6. ASSUME NEW r \in Readers PROVE (AskInv(r) /\ VerifyInv(r) /\ WindowInv(r))'
  <2>1. AskInv(r) /\ VerifyInv(r) /\ WindowInv(r)
    BY DEF ReadersInv
  <2>2. offered[r] \subseteq offered'[r]
    BY <1>1
  <2>3. Running(r)' = Running(r)
    BY <1>1 DEF Running
  <2>4. ~disturbed'[r] =>
          ~disturbed[r] /\ (Running(r) => published' = published)
    BY <1>1
  <2>5. ~disturbed'[r] => offered'[r] = offered[r]
    BY <1>1, <2>1, <2>4 DEF WindowInv
  <2>6. AskInv(r)'
    <3>1. \A o \in Owners : \A x \in got'[r][o] : Answered(r, o, x)'
      BY <1>1, <2>1, <2>2 DEF AskInv, Answered
    <3> QED BY <1>1, <2>1, <2>4, <3>1 DEF AskInv
  <2>7. VerifyInv(r)'
    BY <1>1, <2>1, <2>2, <2>4, <2>5 DEF VerifyInv
  <2>8. WindowInv(r)'
    <3>1. Running(r) => Offer(published)' \subseteq offered'[r]
      BY <1>1 DEF Offer
    <3>2. Running(r) /\ ~disturbed'[r] => Offer(published)' = Offer(published)
      BY <2>4 DEF Offer
    <3> QED BY <1>1, <2>1, <2>3, <2>4, <2>5, <3>1, <3>2 DEF WindowInv
  <2> QED BY <2>6, <2>7, <2>8
<1> QED BY <1>5, <1>6 DEF ReadersInv

LEMMA StartStep ==
  ASSUME ReadersInv, NEW r \in Readers, NEW j \in CommandLines, Start(r, j)
  PROVE  ReadersInv'
<1>1. /\ pc[r] = "idle"
      /\ pc' = [pc EXCEPT ![r] = IF j.cmd = "verify" THEN "sources" ELSE "ask"]
      /\ job' = [job EXCEPT ![r] = j]
      /\ todo' = [todo EXCEPT ![r] = StatementsOf(j)]
      /\ before' = [before EXCEPT ![r] = published]
      /\ offered' = [offered EXCEPT ![r] = Offer(published)]
      /\ UNCHANGED <<published, commits, got, counts, disturbed>>
  BY DEF Start
<1>2. TypeOK /\ j \in Jobs
  BY CommandLinesAssumption DEF ReadersInv
<1>3. Offer(published) \subseteq Names \X Rows
  BY <1>2, OfferTyped DEF TypeOK
<1>4. /\ pc'[r] \in {"ask", "sources"} /\ job'[r] = j
      /\ todo'[r] = StatementsOf(j) /\ before'[r] = published
      /\ offered'[r] = Offer(published)
  BY <1>1, <1>2 DEF TypeOK
<1>5. TypeOK'
  BY <1>1, <1>2, <1>3 DEF TypeOK
<1>6. AskInv(r)'
  <2>1. \A o \in Owners : got'[r][o] = {}
    BY <1>1 DEF ReadersInv, AskInv
  <2>2. StatementsOf(job'[r]) \ todo'[r] = {}
    BY <1>4
  <2>3. \A o \in Owners :
          Collected(before'[r], o, StatementsOf(job'[r]) \ todo'[r]) = {}
    BY <2>2 DEF Collected
  <2> QED BY <1>4, <2>1, <2>3 DEF AskInv
<1>7. VerifyInv(r)'
  BY <1>4 DEF VerifyInv
<1>8. WindowInv(r)'
  <2>1. Offer(published)' = Offer(published)
    BY <1>1 DEF Offer
  <2> QED BY <1>1, <1>4, <2>1 DEF WindowInv
<1>9. ASSUME NEW q \in Readers \ {r}
      PROVE  (AskInv(q) /\ VerifyInv(q) /\ WindowInv(q))'
  BY <1>1, <1>2, OtherReaders DEF TypeOK
<1> QED BY <1>5, <1>6, <1>7, <1>8, <1>9 DEF ReadersInv

LEMMA RunStatementStep ==
  ASSUME ReadersInv, NEW r \in Readers, NEW s \in todo[r], RunStatement(r, s)
  PROVE  ReadersInv'
<1>1. /\ pc[r] = "ask"
      /\ got' = [got EXCEPT ![r][s.for] = @ \cup Found(published, s)]
      /\ todo' = [todo EXCEPT ![r] = @ \ {s}]
      /\ UNCHANGED <<published, commits, pc, job, counts, before, disturbed,
                     offered>>
  BY DEF RunStatement
<1>2. TypeOK
  BY DEF ReadersInv
<1>3. s \in StatementsOf(job[r]) /\ s.for \in Owners
  BY <1>2, StatementsTyped DEF TypeOK
<1>4. Found(published, s) \subseteq Prefixes
  BY DEF Found
<1>5. /\ got'[r][s.for] = got[r][s.for] \cup Found(published, s)
      /\ \A o \in Owners \ {s.for} : got'[r][o] = got[r][o]
      /\ got' \in [Readers -> [Owners -> SUBSET Prefixes]]
  <2> DEFINE own == [got[r] EXCEPT ![s.for] = got[r][s.for] \cup Found(published, s)]
  <2>1. got \in [Readers -> [Owners -> SUBSET Prefixes]]
    BY <1>2 DEF TypeOK
  <2>2. got[r] \in [Owners -> SUBSET Prefixes]
    BY <2>1
  <2>3. /\ own \in [Owners -> SUBSET Prefixes]
        /\ own[s.for] = got[r][s.for] \cup Found(published, s)
        /\ \A o \in Owners \ {s.for} : own[o] = got[r][o]
    <3> DEFINE F == Found(published, s)
    <3>1. got[r][s.for] \cup F \in SUBSET Prefixes
      BY <1>3, <1>4, <2>2
    <3> HIDE DEF F
    <3>2. own = [o \in Owners |-> IF o = s.for THEN got[r][s.for] \cup F
                                  ELSE got[r][o]]
      BY <2>2 DEF F
    <3> HIDE DEF own
    <3> QED BY <1>3, <2>2, <3>1, <3>2 DEF F
  <2>4. got' = [got EXCEPT ![r] = own]
    BY <1>1
  <2> HIDE DEF own
  <2>5. got'[r] = own /\ got' \in [Readers -> [Owners -> SUBSET Prefixes]]
    BY <2>1, <2>3, <2>4
  <2> QED BY <2>3, <2>5
<1>6. todo'[r] = todo[r] \ {s}
  BY <1>1, <1>2 DEF TypeOK
<1>7. TypeOK'
  BY <1>1, <1>2, <1>5, <1>6 DEF TypeOK
<1>8. AskInv(r) /\ VerifyInv(r) /\ WindowInv(r)
  BY DEF ReadersInv
<1>9. \A x \in Found(published, s) : Answered(r, s.for, x)
  <2>1. ASSUME NEW x \in Found(published, s) PROVE Answered(r, s.for, x)
    <3>1. PICK n \in Names : /\ Serves(published, n)
                             /\ s.filter = {} \/ n \in s.filter
                             /\ \E row \in published[n] :
                                  row[1] = x /\ s.attr \in row[2]
      BY <2>1 DEF Found
    <3>2. PICK row \in published[n] : row[1] = x /\ s.attr \in row[2]
      BY <3>1
    <3>3. <<n, row>> \in offered[r]
      BY <1>1, <1>2, <1>8, <3>1, <3>2, OfferTyped
         DEF WindowInv, Running, Over, TypeOK
    <3>4. <<n, row>>[1] = n /\ <<n, row>>[2] = row
      OBVIOUS
    <3>5. x \notin Ranges
      BY <2>1 DEF Found
    <3> QED BY <1>3, <3>1, <3>2, <3>3, <3>4, <3>5 DEF Answered
  <2> QED BY <2>1
<1>10. AskInv(r)'
  <2>1. \A o \in Owners : \A x \in got'[r][o] : Answered(r, o, x)
    BY <1>5, <1>8, <1>9 DEF AskInv
  <2>2. \A o \in Owners : \A x \in got'[r][o] : Answered(r, o, x)'
    BY <1>1, <2>1 DEF Answered
  <2>3. ASSUME ~disturbed'[r], NEW o \in Owners
        PROVE  got'[r][o] =
                 Collected(before'[r], o, StatementsOf(job'[r]) \ todo'[r])
    <3>1. before[r] = published
      BY <1>1, <1>8, <2>3 DEF WindowInv, Running, Over
    <3>2. got[r][o] = Collected(before[r], o, StatementsOf(job[r]) \ todo[r])
      BY <1>1, <1>8, <2>3 DEF AskInv
    <3>3. StatementsOf(job[r]) \ todo'[r] =
            (StatementsOf(job[r]) \ todo[r]) \cup {s}
      BY <1>3, <1>6
    <3>4. CASE o = s.for
      <4>1. Collected(published, o, StatementsOf(job[r]) \ todo'[r]) =
              Collected(published, o, StatementsOf(job[r]) \ todo[r])
                \cup Found(published, s)
        BY <1>4, <3>3, <3>4 DEF Collected
      <4> QED BY <1>1, <1>5, <3>1, <3>2, <3>4, <4>1
    <3>5. CASE o # s.for
      <4>1. Collected(published, o, StatementsOf(job[r]) \ todo'[r]) =
              Collected(published, o, StatementsOf(job[r]) \ todo[r])
        BY <3>3, <3>5 DEF Collected
      <4> QED BY <1>1, <1>5, <3>1, <3>2, <3>5, <4>1
    <3> QED BY <3>4, <3>5
  <2> QED BY <1>1, <2>2, <2>3 DEF AskInv
<1>11. VerifyInv(r)'
  BY <1>1 DEF VerifyInv
<1>12. WindowInv(r)'
  BY <1>1, <1>8 DEF WindowInv, Running, Offer
<1>13. ASSUME NEW q \in Readers \ {r}
       PROVE  (AskInv(q) /\ VerifyInv(q) /\ WindowInv(q))'
  BY <1>1, <1>2, OtherReaders DEF TypeOK
<1> QED BY <1>7, <1>10, <1>11, <1>12, <1>13 DEF ReadersInv

LEMMA FinishStep ==
  ASSUME ReadersInv, NEW r \in Readers, Finish(r) \/ ReadFails(r)
  PROVE  ReadersInv'
<1>1. /\ Running(r)
      /\ \/ pc[r] = "ask" /\ todo[r] = {} /\ pc' = [pc EXCEPT ![r] = "done"]
         \/ pc' = [pc EXCEPT ![r] = "failed"]
      /\ UNCHANGED <<published, commits, job, todo, got, counts, before,
                     disturbed, offered>>
  BY DEF Finish, ReadFails, Running, Over
<1>2. TypeOK /\ AskInv(r)
  BY DEF ReadersInv
<1>3. \/ pc[r] = "ask" /\ todo[r] = {} /\ pc'[r] = "done"
      \/ pc'[r] = "failed"
  BY <1>1, <1>2 DEF TypeOK
<1>4. TypeOK'
  BY <1>1, <1>2 DEF TypeOK, Over
<1>5. AskInv(r)'
  <2>1. \A o \in Owners : \A x \in got'[r][o] : Answered(r, o, x)'
    BY <1>1, <1>2 DEF AskInv, Answered
  <2> QED BY <1>1, <1>2, <1>3, <2>1 DEF AskInv
<1>6. VerifyInv(r)' /\ WindowInv(r)'
  BY <1>3 DEF VerifyInv, WindowInv, Running, Over
<1>7. ASSUME NEW q \in Readers \ {r}
      PROVE  (AskInv(q) /\ VerifyInv(q) /\ WindowInv(q))'
  BY <1>1, <1>2, OtherReaders DEF TypeOK
<1> QED BY <1>4, <1>5, <1>6, <1>7 DEF ReadersInv

\* What the three counts of verify tell about the index they are taken of.
LEMMA CountsTell ==
  ASSUME NEW p \in Indexes
  PROVE  /\ Cardinality({n \in Names : Serves(p, n)}) \in Nat
         /\ Cardinality({n \in Names : Serves(p, n)}) = 0 => Offer(p) = {}
         /\ Cardinality(Offer(p)) \in Nat
         /\ Cardinality(Offer(p)) = 0 <=> Offer(p) = {}
         /\ Cardinality({x \in Offer(p) : x[2][1] \in Defaults}) = 0
<1>1. IsFiniteSet({n \in Names : Serves(p, n)})
  BY EntriesAssumption, FS_Subset
<1>2. IsFiniteSet(Offer(p)) /\ \A o \in Offer(p) : o[1] \in Names
  BY OfferTyped
<1>3. \A o \in Offer(p) : Serves(p, o[1]) /\ o[2] \in p[o[1]]
  BY OfferTyped
<1>4. {x \in Offer(p) : x[2][1] \in Defaults} = {}
  BY <1>2, <1>3, IndexesTyped, EntriesAssumption
<1>5. {n \in Names : Serves(p, n)} = {} => Offer(p) = {}
  BY <1>2, <1>3
<1> QED BY <1>1, <1>2, <1>4, <1>5, FS_CardinalityType, FS_EmptySet

LEMMA CountStep ==
  ASSUME ReadersInv, NEW r \in Readers,
         CountSources(r) \/ CountObjects(r) \/ CountDefaults(r)
  PROVE  ReadersInv'
<1>1. TypeOK /\ AskInv(r) /\ VerifyInv(r) /\ WindowInv(r) /\ published \in Indexes
  BY DEF ReadersInv, TypeOK
<1> DEFINE s == Cardinality({n \in Names : Serves(published, n)})
           o == Cardinality(Offer(published))
           d == Cardinality({x \in Offer(published) : x[2][1] \in Defaults})
<1>2. /\ s \in Nat /\ (s = 0 => Offer(published) = {})
      /\ o \in Nat /\ (o = 0 <=> Offer(published) = {})
      /\ d = 0
  BY <1>1, CountsTell
<1>3. /\ UNCHANGED <<published, commits, job, todo, got, before, disturbed,
                     offered>>
      /\ \/ /\ pc[r] = "sources" /\ pc' = [pc EXCEPT ![r] = "objects"]
            /\ counts' = [counts EXCEPT ![r].sources = s]
         \/ /\ pc[r] = "objects" /\ pc' = [pc EXCEPT ![r] = "defaults"]
            /\ counts' = [counts EXCEPT ![r].objects = o]
         \/ /\ pc[r] = "defaults" /\ pc' = [pc EXCEPT ![r] = "judge"]
            /\ counts' = [counts EXCEPT ![r].defaults = d]
  BY DEF CountSources, CountObjects, CountDefaults, Count
<1> HIDE DEF s, o, d
<1>4. TypeOK'
  <2>1. counts' \in [Readers -> [sources : Nat, objects : Nat, defaults : Nat]]
    <3>1. counts \in [Readers -> [sources : Nat, objects : Nat, defaults : Nat]]
      BY <1>1 DEF TypeOK
    <3>2. s \in Nat /\ o \in Nat /\ d \in Nat
      BY <1>2
    <3> QED BY <1>3, <3>1, <3>2
  <2> QED BY <1>1, <1>3, <2>1 DEF TypeOK
<1>5. /\ \/ /\ pc[r] = "sources" /\ pc'[r] = "objects" /\ counts'[r].sources = s
         \/ /\ pc[r] = "objects" /\ pc'[r] = "defaults"
            /\ counts'[r].objects = o /\ counts'[r].sources = counts[r].sources
         \/ /\ pc[r] = "defaults" /\ pc'[r] = "judge"
            /\ counts'[r].defaults = 0 /\ counts'[r].objects = counts[r].objects
            /\ counts'[r].sources = counts[r].sources
      /\ Running(r)
  BY <1>1, <1>2, <1>3 DEF TypeOK, Running, Over
<1>6. AskInv(r)'
  <2>1. \A w \in Owners : \A x \in got'[r][w] : Answered(r, w, x)'
    BY <1>1, <1>3 DEF AskInv, Answered
  <2> QED BY <1>5, <2>1 DEF AskInv
<1>7. VerifyInv(r)'
  BY <1>1, <1>2, <1>3, <1>5 DEF VerifyInv, WindowInv
<1>8. WindowInv(r)'
  BY <1>1, <1>3, <1>5 DEF WindowInv, Offer
<1>9. ASSUME NEW q \in Readers \ {r}
      PROVE  (AskInv(q) /\ VerifyInv(q) /\ WindowInv(q))'
  BY <1>1, <1>3, OtherReaders DEF TypeOK
<1> QED BY <1>4, <1>6, <1>7, <1>8, <1>9 DEF ReadersInv

LEMMA JudgeStep ==
  ASSUME ReadersInv, NEW r \in Readers, Judge(r)
  PROVE  ReadersInv'
<1>1. /\ pc[r] = "judge"
      /\ pc' = [pc EXCEPT ![r] =
                  IF Rejects(counts[r]) THEN "rejected" ELSE "passed"]
      /\ UNCHANGED <<published, commits, job, todo, got, counts, before,
                     disturbed, offered>>
  BY DEF Judge
<1>2. TypeOK /\ AskInv(r) /\ VerifyInv(r)
  BY DEF ReadersInv
<1>3. \/ pc'[r] = "rejected" /\ (counts[r].sources = 0 \/ counts[r].objects = 0)
      \/ pc'[r] = "passed" /\ counts[r].objects # 0
  BY <1>1, <1>2 DEF TypeOK, Rejects, VerifyInv
<1>4. TypeOK'
  BY <1>1, <1>2 DEF TypeOK, Over
<1>5. AskInv(r)'
  <2>1. \A o \in Owners : \A x \in got'[r][o] : Answered(r, o, x)'
    BY <1>1, <1>2 DEF AskInv, Answered
  <2> QED BY <1>3, <2>1 DEF AskInv
<1>6. VerifyInv(r)'
  BY <1>1, <1>2, <1>3 DEF VerifyInv
<1>7. WindowInv(r)'
  BY <1>3 DEF WindowInv, Running, Over
<1>8. ASSUME NEW q \in Readers \ {r}
      PROVE  (AskInv(q) /\ VerifyInv(q) /\ WindowInv(q))'
  BY <1>1, <1>2, OtherReaders DEF TypeOK
<1> QED BY <1>4, <1>5, <1>6, <1>7, <1>8 DEF ReadersInv

LEMMA StepReaders == ReadersInv /\ [Next]_vars => ReadersInv'
<1> SUFFICES ASSUME ReadersInv, [Next]_vars PROVE ReadersInv'
  OBVIOUS
<1>1. CASE Publish
  BY <1>1, PublishStep
<1>2. ASSUME NEW r \in Readers, ReaderNext(r) PROVE ReadersInv'
  <2>1. ASSUME NEW j \in CommandLines, Start(r, j) PROVE ReadersInv'
    BY <2>1, StartStep
  <2>2. ASSUME NEW s \in todo[r], RunStatement(r, s) PROVE ReadersInv'
    BY <2>2, RunStatementStep
  <2>3. CASE Finish(r) \/ ReadFails(r)
    BY <2>3, FinishStep
  <2>4. CASE CountSources(r) \/ CountObjects(r) \/ CountDefaults(r)
    BY <2>4, CountStep
  <2>5. CASE Judge(r)
    BY <2>5, JudgeStep
  <2> QED BY <1>2, <2>1, <2>2, <2>3, <2>4, <2>5 DEF ReaderNext
<1>3. CASE UNCHANGED vars
  <2>1. TypeOK'
    BY <1>3 DEF ReadersInv, TypeOK, vars
  <2>2. ASSUME NEW r \in Readers
        PROVE  (AskInv(r) /\ VerifyInv(r) /\ WindowInv(r))'
    <3>1. AskInv(r) /\ VerifyInv(r) /\ WindowInv(r)
      BY DEF ReadersInv
    <3>2. \A o \in Owners : \A x \in got'[r][o] : Answered(r, o, x)'
      BY <1>3, <3>1 DEF AskInv, Answered, vars
    <3>3. AskInv(r)'
      BY <1>3, <3>1, <3>2 DEF AskInv, vars
    <3>4. VerifyInv(r)'
      BY <1>3, <3>1 DEF VerifyInv, vars
    <3>5. WindowInv(r)'
      BY <1>3, <3>1 DEF WindowInv, Running, Offer, vars
    <3> QED BY <3>3, <3>4, <3>5
  <2> QED BY <2>1, <2>2 DEF ReadersInv
<1> QED BY <1>1, <1>2, <1>3 DEF Next

LEMMA Invariance == Spec => []ReadersInv
BY InitReaders, StepReaders, PTL DEF Spec

-----------------------------------------------------------------------------
(* Theorems *)

\* Every variable keeps its type, for any index, scripts and processes.
THEOREM TypeCorrect == Spec => []TypeOK
<1>1. ReadersInv => TypeOK
  BY DEF ReadersInv
<1> QED BY <1>1, Invariance, PTL

\* compare measures what a shadow run would do: on one index it collects for a
\* downloader what whois-shim answers to its script (compare.go 168-196).
THEOREM ComparisonMeasuresShimsHolds == Spec => []ComparisonMeasuresShims
<1>1. ReadersInv => ComparisonMeasuresShims
  <2> SUFFICES ASSUME ReadersInv, NEW r \in Readers, NEW q \in Readers,
                      NEW d \in Downloaders,
                      pc[r] = "done", job[r].cmd = "compare", ~disturbed[r],
                      pc[q] = "done",
                      job[q] = [cmd |-> "script", downloader |-> d],
                      ~disturbed[q], before[r] = before[q]
               PROVE  got[r][d] = got[q][d]
    BY DEF ComparisonMeasuresShims
  <2>1. AskInv(r) /\ AskInv(q) /\ d \in Owners
    BY DEF ReadersInv, Owners
  <2>2. todo[r] = {} /\ todo[q] = {}
    BY <2>1 DEF AskInv
  <2>3. /\ got[r][d] = Collected(before[r], d, StatementsOf(job[r]))
        /\ got[q][d] = Collected(before[r], d, StatementsOf(job[q]))
    BY <2>1, <2>2 DEF AskInv
  <2>4. StatementsOf(job[r]) = UNION {CompareStatements(e) : e \in Downloaders}
    BY DEF StatementsOf
  <2>5. job[q].cmd = "script" /\ job[q].downloader = d
    OBVIOUS
  <2>6. StatementsOf(job[q]) = ScriptStatements(d)
    BY <2>5 DEF StatementsOf
  <2> QED BY <2>3, <2>4, <2>6, SameAnswers
<1> QED BY <1>1, Invariance, PTL

\* A whois host answers only with prefixes one of its own registries held
\* while the command ran, whatever builds commit (mirrors.go 10-13).
THEOREM AnswersAreTheHostsHolds == Spec => []AnswersAreTheHosts
<1>1. ReadersInv => AnswersAreTheHosts
  <2> SUFFICES ASSUME ReadersInv, NEW r \in Readers,
                      job[r].cmd = "whois-shim", Known(job[r].host),
                      NEW x \in got[r][NoOne]
               PROVE  /\ x \notin Ranges
                      /\ \E o \in offered[r] :
                           /\ o[1] \in SourcesByMirror[NameOf[job[r].host]]
                           /\ o[2][1] = x /\ job[r].attr \in o[2][2]
    BY DEF AnswersAreTheHosts
  <2>1. Answered(r, NoOne, x)
    BY DEF ReadersInv, AskInv, Owners
  <2>2. PICK s \in StatementsOf(job[r]), y \in offered[r] :
          /\ s.filter = {} \/ y[1] \in s.filter
          /\ y[2][1] = x /\ s.attr \in y[2][2]
    BY <2>1 DEF Answered
  <2>3. s \in Ask(NoOne, job[r].attr, {4, 6}, SourcesForHost(job[r].host))
    BY <2>2 DEF StatementsOf
  <2>4. s.attr = job[r].attr /\ s.filter = SourcesForHost(job[r].host)
    BY <2>3 DEF Ask
  <2>5. s.filter = SourcesByMirror[NameOf[job[r].host]] /\ s.filter # {}
    BY <2>4, MirrorsAssumption DEF SourcesForHost, Known
  <2>6. x \notin Ranges
    BY <2>1 DEF Answered
  <2> QED BY <2>2, <2>4, <2>5, <2>6
<1> QED BY <1>1, Invariance, PTL

\* verify passes only an index that held a row while it looked, and rejects
\* one with rows only if it changed meanwhile (main.go 935-978).
THEOREM VerifyJudgesRightHolds == Spec => []VerifyJudgesRight
<1>1. ReadersInv => VerifyJudgesRight
  BY DEF ReadersInv, VerifyInv, VerifyJudgesRight
<1> QED BY <1>1, Invariance, PTL
=============================================================================
