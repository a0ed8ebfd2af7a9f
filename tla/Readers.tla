------------------------------- MODULE Readers -------------------------------
(***************************************************************************)
(* The commands that read the index while builds may go on writing it:     *)
(* "query", "whois-shim", "compare" and "verify" (cmd/irrindex/main.go,    *)
(* internal/query, internal/mirrors, internal/compare).  Each runs several *)
(* SQL statements without a transaction around them, so builds can commit  *)
(* between two of them.  One statement sees one committed index, which is  *)
(* a state of SourceIndex.                                                 *)
(*                                                                         *)
(* "script" is a downloader whose whois commands are all answered by       *)
(* whois-shim, as in a shadow run; "compare" asks the queries that         *)
(* extract-queries took from the same script.                              *)
(***************************************************************************)
EXTENDS Naturals, FiniteSets

CONSTANTS
  Names, Entries, Missing, Failed,  \* as in SourceIndex
  Readers,         \* processes
  Prefixes, FamilyOf,  \* prefix or address range -> 4 or 6
  Ranges,          \* the address ranges: inetnum objects that are no prefix
  Defaults,        \* the default routes among the prefixes
  Attributes,      \* a kind (origin, mnt-by) with a normalised value
  Hosts,           \* what stands after whois -h; NoHost when there is no -h
  NoHost,
  Mirrors,         \* names a host can have: a mirror's, or the host itself
  NameOf,          \* mirrors.Name: host -> mirror name
  SourcesByMirror, \* known mirror -> the sources it answers from
  Downloaders,
  Commands,        \* downloader -> its whois commands: <<host, attribute>>
  NoOne,           \* owner of the answer to a single query
  CommandLines,    \* the commands the instance runs
  MaxCommits       \* bound: changes of the index while readers run

Sources == Names \cup Mirrors
             \cup (UNION {SourcesByMirror[m] : m \in DOMAIN SourcesByMirror})
Known(h) == h # NoHost /\ NameOf[h] \in DOMAIN SourcesByMirror
Rows == Prefixes \X SUBSET Attributes

ASSUME EntriesAssumption ==
  /\ IsFiniteSet(Names)
  /\ Entries \in [Names -> SUBSET SUBSET Rows]
  /\ \A n \in Names : \A e \in Entries[n] : IsFiniteSet(e)
  /\ \A n \in Names : Missing \notin Entries[n] /\ Failed \notin Entries[n]
  /\ FamilyOf \in [Prefixes -> {4, 6}]
  /\ Ranges \subseteq Prefixes /\ Defaults \subseteq Prefixes \ Ranges
  \* the store drops default routes
  /\ \A n \in Names : \A e \in Entries[n] : \A x \in e : x[1] \notin Defaults
ASSUME MirrorsAssumption ==
  /\ NoHost \in Hosts
  /\ NameOf \in [Hosts \ {NoHost} -> Mirrors]
  /\ DOMAIN SourcesByMirror \subseteq Mirrors
  /\ \A m \in DOMAIN SourcesByMirror : SourcesByMirror[m] # {}
  \* a host that is no mirror does not bear the name of a source
  /\ \A h \in Hosts \ {NoHost} : ~Known(h) => NameOf[h] \notin Names
ASSUME CommandsAssumption ==
  /\ Commands \in [Downloaders -> SUBSET ((Hosts \ {NoHost}) \X Attributes)]
  /\ NoOne \notin Downloaders
ASSUME BoundAssumption == MaxCommits \in Nat

VARIABLES
  published, \* the committed index
  commits,   \* how often it changed
  pc,        \* what a reader does
  job,       \* its command line
  todo,      \* the statements it has yet to run
  got,       \* owner -> the prefixes it has collected
  counts,    \* what verify has counted
  before,    \* the index when it started
  disturbed, \* the index changed while it ran
  offered    \* <<source, row>> held at some moment while it ran

vars == <<published, commits, pc, job, todo, got, counts, before, disturbed,
          offered>>

Index == INSTANCE SourceIndex

Indexes ==
  {p \in [Names -> (UNION {Entries[n] : n \in Names}) \cup {Missing, Failed}] :
     \A n \in Names : p[n] \in Entries[n] \cup {Missing, Failed}}
Serves(p, n) == p[n] \notin {Missing, Failed}
Offer(p) == UNION {{n} \X p[n] : n \in {m \in Names : Serves(p, m)}}

-----------------------------------------------------------------------------
(* Queries *)

Owners == Downloaders \cup {NoOne}
Statements == [for : Owners, attr : Attributes, family : {4, 6},
               filter : SUBSET Sources]

\* byAttr: no filter when the list of sources is empty.  The row of an address
\* range has no prefix (rpslObjectRows) and is left out.
Found(p, s) ==
  {x \in Prefixes \ Ranges :
     /\ FamilyOf[x] = s.family
     /\ \E n \in Names :
          /\ Serves(p, n)
          /\ s.filter = {} \/ n \in s.filter
          /\ \E row \in p[n] : row[1] = x /\ s.attr \in row[2]}

\* Faulty: the host is looked up as if it were a mirror's name.
SourcesOfHostAsIs(h) ==
  IF h # NoHost /\ h \in DOMAIN SourcesByMirror THEN SourcesByMirror[h] ELSE {}

\* sourceFiltersForHost: all sources for an unknown host, or none given.
SourcesForHost(h) == IF Known(h) THEN SourcesByMirror[NameOf[h]] ELSE {}

\* Faulty: a name that is no mirror's is left out.
FilterOfKnown(ms) ==
  UNION {SourcesByMirror[m] : m \in ms \cap DOMAIN SourcesByMirror}

\* sourceFiltersFromMirrors: a name that is no mirror's is a source's.
SourcesFromMirrors(ms) ==
  UNION {IF m \in DOMAIN SourcesByMirror THEN SourcesByMirror[m] ELSE {m} :
           m \in ms}

\* The entries of queries.yaml for a downloader: one for each attribute its
\* script asks for, with the names of all hosts it asks.
MirrorsOf(d, a) == {NameOf[c[1]] : c \in {x \in Commands[d] : x[2] = a}}
Asked(d) == {c[2] : c \in Commands[d]}

Ask(owner, a, families, filter) ==
  {[for |-> owner, attr |-> a, family |-> f, filter |-> filter] : f \in families}

\* The shims hand only the commands for known hosts to the index.
ScriptStatements(d) ==
  UNION {Ask(d, c[2], {4, 6}, SourcesForHost(c[1])) :
           c \in {x \in Commands[d] : Known(x[1])}}

CompareStatements(d) ==
  UNION {Ask(d, a, {4, 6}, SourcesFromMirrors(MirrorsOf(d, a))) : a \in Asked(d)}

Jobs ==
  [cmd : {"query"}, attr : Attributes, family : {4, 6}]
    \cup [cmd : {"whois-shim"}, host : Hosts, attr : Attributes]
    \cup [cmd : {"script"}, downloader : Downloaders]
    \cup [cmd : {"compare", "verify"}]

ASSUME CommandLinesAssumption == CommandLines \subseteq Jobs

StatementsOf(j) ==
  CASE j.cmd = "query" -> Ask(NoOne, j.attr, {j.family}, {})
    [] j.cmd = "whois-shim" ->
         Ask(NoOne, j.attr, {4, 6}, SourcesForHost(j.host))
    [] j.cmd = "script" -> ScriptStatements(j.downloader)
    [] j.cmd = "compare" -> UNION {CompareStatements(d) : d \in Downloaders}
    [] j.cmd = "verify" -> {}

OwnedBy(o, S) == {s \in S : s.for = o}

-----------------------------------------------------------------------------

NoCounts == [sources |-> 0, objects |-> 0, defaults |-> 0]

\* A reader may be started on any index that builds have left.
Init ==
  /\ published \in Indexes
  /\ commits = 0
  /\ pc = [r \in Readers |-> "idle"]
  /\ job = [r \in Readers |-> [cmd |-> "verify"]]
  /\ todo = [r \in Readers |-> {}]
  /\ got = [r \in Readers |-> [o \in Owners |-> {}]]
  /\ counts = [r \in Readers |-> NoCounts]
  /\ before = [r \in Readers |-> published]
  /\ disturbed = [r \in Readers |-> FALSE]
  /\ offered = [r \in Readers |-> {}]

Over == {"done", "passed", "rejected", "failed"}
Running(r) == pc[r] \notin Over \cup {"idle"}

\* A build commits an import or records an error.
Publish ==
  /\ commits < MaxCommits
  /\ Index!Next
  /\ commits' = commits + 1
  /\ disturbed' = [r \in Readers |->
       disturbed[r] \/ (Running(r) /\ published' # published)]
  /\ offered' = [r \in Readers |->
       IF Running(r) THEN offered[r] \cup Offer(published') ELSE offered[r]]
  /\ UNCHANGED <<pc, job, todo, got, counts, before>>

Start(r, j) ==
  /\ pc[r] = "idle"
  /\ pc' = [pc EXCEPT ![r] = IF j.cmd = "verify" THEN "sources" ELSE "ask"]
  /\ job' = [job EXCEPT ![r] = j]
  /\ todo' = [todo EXCEPT ![r] = StatementsOf(j)]
  /\ before' = [before EXCEPT ![r] = published]
  /\ offered' = [offered EXCEPT ![r] = Offer(published)]
  /\ UNCHANGED <<published, commits, got, counts, disturbed>>

\* The next statement: IPv4 before IPv6 of one query, one downloader after the
\* other in the order of a Go map.  The queries of one come in any order, in
\* the code in that of the file.
InTurn(r, s) ==
  /\ s.family = 6 => [s EXCEPT !.family = 4] \notin todo[r]
  /\ \A o \in Owners \ {s.for} :
       OwnedBy(o, todo[r]) \in {{}, OwnedBy(o, StatementsOf(job[r]))}

RunStatement(r, s) ==
  /\ pc[r] = "ask" /\ InTurn(r, s)
  /\ got' = [got EXCEPT ![r][s.for] = @ \cup Found(published, s)]
  /\ todo' = [todo EXCEPT ![r] = @ \ {s}]
  /\ UNCHANGED <<published, commits, pc, job, counts, before, disturbed, offered>>

\* The prefixes are printed, or compared with the lists of the repository.
Finish(r) ==
  /\ pc[r] = "ask" /\ todo[r] = {}
  /\ pc' = [pc EXCEPT ![r] = "done"]
  /\ UNCHANGED <<published, commits, job, todo, got, counts, before, disturbed,
                 offered>>

\* A statement fails; nothing is printed of it and the command exits 1.
ReadFails(r) ==
  /\ Running(r)
  /\ pc' = [pc EXCEPT ![r] = "failed"]
  /\ UNCHANGED <<published, commits, job, todo, got, counts, before, disturbed,
                 offered>>

-----------------------------------------------------------------------------
(* verify *)

Count(r, from, to, what, n) ==
  /\ pc[r] = from /\ pc' = [pc EXCEPT ![r] = to]
  /\ counts' = [counts EXCEPT ![r][what] = n]
  /\ UNCHANGED <<published, commits, job, todo, got, before, disturbed, offered>>

CountSources(r) ==
  Count(r, "sources", "objects", "sources",
        Cardinality({n \in Names : Serves(published, n)}))

CountObjects(r) ==
  Count(r, "objects", "defaults", "objects", Cardinality(Offer(published)))

CountDefaults(r) ==
  Count(r, "defaults", "judge", "defaults",
        Cardinality({x \in Offer(published) : x[2][1] \in Defaults}))

\* Faulty: both counts have to be 0.
RejectsIfBothZero(c) == (c.sources = 0 /\ c.objects = 0) \/ c.defaults > 0

Rejects(c) == c.sources = 0 \/ c.objects = 0 \/ c.defaults > 0

Judge(r) ==
  /\ pc[r] = "judge"
  /\ pc' = [pc EXCEPT ![r] = IF Rejects(counts[r]) THEN "rejected" ELSE "passed"]
  /\ UNCHANGED <<published, commits, job, todo, got, counts, before, disturbed,
                 offered>>

ReaderNext(r) ==
  \/ \E j \in CommandLines : Start(r, j)
  \/ \E s \in todo[r] : RunStatement(r, s)
  \/ Finish(r)
  \/ ReadFails(r)
  \/ CountSources(r)
  \/ CountObjects(r)
  \/ CountDefaults(r)
  \/ Judge(r)

Next == Publish \/ \E r \in Readers : ReaderNext(r)

Spec == Init /\ [][Next]_vars

-----------------------------------------------------------------------------
(* Properties *)

\* Every variable has its type.
TypeOK ==
  /\ published \in Indexes
  /\ commits \in 0 .. MaxCommits
  /\ pc \in [Readers -> {"idle", "ask", "sources", "objects", "defaults",
                         "judge"} \cup Over]
  /\ job = [r \in Readers |-> job[r]] /\ \A r \in Readers : job[r] \in Jobs
  /\ todo = [r \in Readers |-> todo[r]]
  /\ \A r \in Readers : todo[r] \subseteq StatementsOf(job[r])
  /\ got \in [Readers -> [Owners -> SUBSET Prefixes]]
  /\ counts \in [Readers -> [sources : Nat, objects : Nat, defaults : Nat]]
  /\ before = [r \in Readers |-> before[r]]
  /\ \A r \in Readers : before[r] \in Indexes
  /\ disturbed \in [Readers -> BOOLEAN]
  /\ offered = [r \in Readers |-> offered[r]]
  /\ \A r \in Readers : offered[r] \subseteq Names \X Rows

\* compare measures what a shadow run would do: on one and the same index it
\* collects for a downloader just what whois-shim answers to the whois commands
\* of the downloader's script, although one asks per host and the other per
\* mirror name, all at once (compare.go 168-196, 582-600; main.go 150-185).
ComparisonMeasuresShims ==
  \A r, q \in Readers, d \in Downloaders :
    (/\ pc[r] = "done" /\ job[r].cmd = "compare" /\ ~disturbed[r]
     /\ pc[q] = "done" /\ job[q] = [cmd |-> "script", downloader |-> d]
     /\ ~disturbed[q] /\ before[r] = before[q])
       => got[r][d] = got[q][d]

\* Whatever builds do meanwhile, a whois host answers only with prefixes that
\* one of its own registries held for that attribute while the command ran, and
\* with nothing that is not a prefix (mirrors.go 10-13, query.go 24-51).
AnswersAreTheHosts ==
  \A r \in Readers :
    job[r].cmd = "whois-shim" /\ Known(job[r].host) =>
      \A x \in got[r][NoOne] : x \notin Ranges /\ \E o \in offered[r] :
        /\ o[1] \in SourcesByMirror[NameOf[job[r].host]]
        /\ o[2][1] = x /\ job[r].attr \in o[2][2]

\* verify lets an index through only if it held a row at some moment while
\* verify looked, and turns an index with rows away only if it changed
\* meanwhile (main.go 935-978).  A row need not be one a query can return: an
\* index of nothing but address ranges passes.
VerifyJudgesRight ==
  \A r \in Readers :
    /\ pc[r] = "passed" => offered[r] # {}
    /\ pc[r] = "rejected" /\ ~disturbed[r] => offered[r] = {}
=============================================================================
