------------------------------ MODULE ShadowRun ------------------------------
(***************************************************************************)
(* "irrindex shadow-run": the downloaders run in a work tree where whois,  *)
(* curl, dig and nslookup are shims (cmd/irrindex/main.go 326-765), and    *)
(* utils/arin-org.py follows the same scheme.  Whois queries to the hosts  *)
(* the index models go to the index; other requests replay a recorded      *)
(* response, or run the real command once and record it.  With the         *)
(* reference "cached-whois" the downloaders run twice, first with every    *)
(* whois query answered by the recorded registries, and the two outputs    *)
(* are compared.                                                           *)
(*                                                                         *)
(* Invocations share the response cache and the downloaders' scratch files *)
(* in /tmp.  A response is a set of addresses and whether the command      *)
(* succeeded; a downloader is the sequence of the commands it runs.        *)
(***************************************************************************)
EXTENDS Naturals, Sequences

CONSTANTS
  Invocations,
  References,   \* the options the instance runs: a value of --reference, or
                \* "uncached", that is committed without a --cache-dir
  Downloaders,
  Workloads,    \* the invocations the instance makes: their --downloader, a
                \* sequence, and whether they run at the same time
  ScriptOf,     \* downloader -> the sequence of its commands
  Appending,    \* downloaders whose first write to /tmp is >>
  Committed,    \* downloader -> addresses of its lists in the repository
  Keys,         \* sanitised requests: the names of the cache files
  Addresses,
  Replies,      \* key -> what the network can answer to the request
  IndexReplies, \* what the index can answer
  None          \* no recorded response

\* A command goes to a whois host the index models ("irr"), to one source the
\* shims record ("feed": one URL, another whois host, dig, nslookup, ARIN), to
\* several URLs that curl prints and its shim does not record ("urls"), or is
\* passed through ("direct": whois without -h, python's own requests).
\* onFailure: what the script may do after it fails (set -e, || true; after a
\* failure of ARIN either, as utils/arin-org.py exits 0 on most of them).
Commands == [kind : {"irr", "feed", "urls", "direct"}, keys : SUBSET Keys,
             onFailure : SUBSET {"go on", "stop"} \ {{}}]
Answers == [ok : BOOLEAN, body : SUBSET Addresses]
Roots == {"reference", "candidate"}
Options == {"committed", "uncached", "cached-whois"}

ASSUME ScriptsAssumption ==
  /\ Workloads \subseteq [selected : Seq(Downloaders) \ {<<>>},
                          overlap : BOOLEAN]
  /\ \A w \in Workloads : \A m, n \in DOMAIN w.selected :
       w.selected[m] = w.selected[n] => m = n
  /\ ScriptOf \in [Downloaders -> Seq(Commands) \ {<<>>}]
  /\ \A d \in Downloaders : \A k \in DOMAIN ScriptOf[d] :
       /\ ScriptOf[d][k].keys # {}
       /\ ScriptOf[d][k].kind # "urls" =>
            \E x \in Keys : ScriptOf[d][k].keys = {x}
ASSUME OptionsAssumption ==
  /\ References \subseteq Options
  /\ Appending \subseteq Downloaders
ASSUME RepliesAssumption ==
  /\ Replies \in [Keys -> SUBSET Answers] /\ IndexReplies \subseteq Answers
  /\ Committed \in [Downloaders -> SUBSET Addresses]
  /\ None \notin Answers \cup Invocations

VARIABLES
  workload,  \* the invocations that are made
  cache,     \* SHADOW_RESPONSE_CACHE_DIR: key -> response or None
  recorder,  \* key -> the invocation that recorded it last
  scratch,   \* downloader -> what its file in /tmp holds
  pc,        \* what an invocation does
  reference, \* its --reference
  root,      \* the work tree it runs the downloaders in
  script,    \* position in Selected
  at,        \* position in that downloader's script
  reply,     \* the answer of the real command a shim has just run
  failures,  \* SHADOW_RUN_FAILURE_DIR: key -> response or None
  called,    \* keys whose real command its shims ran
  seen,      \* root -> position -> the answers its scripts got
  output,    \* root -> downloader -> the lists it wrote, or None
  differences \* downloader -> addresses in one output only

fileVars == <<cache, recorder, failures, called, reply>>
vars == <<workload, cache, recorder, scratch, pc, reference, root, script, at,
          reply, failures, called, seen, output, differences>>

Selected == workload.selected
Positions == UNION {{<<n, k>> : k \in DOMAIN ScriptOf[Selected[n]]} :
                      n \in DOMAIN Selected}
CommandAt(p) == ScriptOf[Selected[p[1]]][p[2]]
Recorded(kind, r) == kind = "feed" \/ (kind = "irr" /\ r = "reference")

NotSeen == [r \in Roots |-> [p \in Positions |-> None]]
NoOutput == [r \in Roots |-> [d \in Downloaders |-> None]]

\* The downloader, the command and the cache key of an invocation's next step.
Downloader(i) == Selected[script[i]]
Place(i) == <<script[i], at[i]>>
Command(i) == CommandAt(Place(i))
Key(i) == CHOOSE k \in Command(i).keys : TRUE
AtCommand(i) == pc[i] = "run" /\ at[i] <= Len(ScriptOf[Downloader(i)])

\* The shim goes through cached_run.
Caching(i) ==
  /\ AtCommand(i) /\ reference[i] # "uncached"
  /\ Recorded(Command(i).kind, root[i])

-----------------------------------------------------------------------------

Init ==
  /\ workload \in Workloads
  /\ cache = [k \in Keys |-> None]
  /\ recorder = [k \in Keys |-> None]
  /\ scratch = [d \in Downloaders |-> {}]
  /\ pc = [i \in Invocations |-> "idle"]
  /\ reference = [i \in Invocations |-> "committed"]
  /\ root = [i \in Invocations |-> "candidate"]
  /\ script = [i \in Invocations |-> 1]
  /\ at = [i \in Invocations |-> 1]
  /\ reply = [i \in Invocations |-> None]
  /\ failures = [i \in Invocations |-> [k \in Keys |-> None]]
  /\ called = [i \in Invocations |-> {}]
  /\ seen = [i \in Invocations |-> NotSeen]
  /\ output = [i \in Invocations |-> NoOutput]
  /\ differences = [i \in Invocations |-> [d \in Downloaders |-> {}]]

Over == {"done", "failed", "killed"}

\* The options are checked, the work trees and a fresh failure directory are
\* made, and the first root is the reference's if it has one.
Start(i, ref) ==
  /\ pc[i] = "idle"
  /\ workload.overlap \/ \A j \in Invocations : pc[j] \in Over \cup {"idle"}
  /\ pc' = [pc EXCEPT ![i] = "run"]
  /\ reference' = [reference EXCEPT ![i] = ref]
  /\ root' = [root EXCEPT ![i] =
                IF ref = "cached-whois" THEN "reference" ELSE "candidate"]
  /\ UNCHANGED <<fileVars, scratch, script, at, seen, output, differences>>

-----------------------------------------------------------------------------
(* One command of a downloader *)

\* Faulty: no script starts its scratch file afresh.
TruncatesNever(i) == FALSE

\* The next write to the scratch file is the first of a script, by > .
Truncates(i) == at[i] = 1 /\ Downloader(i) \notin Appending

\* The script gets the answer and writes it to its scratch file.  A failure
\* may stop the script, and so may an empty answer (rg, pipefail).
Answer(i, a) ==
  /\ seen' = [seen EXCEPT ![i][root[i]][Place(i)] = a]
  /\ scratch' = [scratch EXCEPT ![Downloader(i)] =
       IF Truncates(i) THEN a.body ELSE @ \cup a.body]
  /\ at' = [at EXCEPT ![i] = @ + 1]
  /\ \/ /\ a.ok \/ "go on" \in Command(i).onFailure
        /\ pc' = [pc EXCEPT ![i] = "run"]
     \/ /\ "stop" \in Command(i).onFailure /\ (~a.ok \/ a.body = {})
        /\ pc' = [pc EXCEPT ![i] = "failed"]
  /\ UNCHANGED <<reference, root, script, output, differences>>

\* whois -h of a modelled host: exec irrindex whois-shim.
AskIndex(i) ==
  /\ AtCommand(i) /\ Command(i).kind = "irr" /\ root[i] = "candidate"
  /\ \E a \in IndexReplies : Answer(i, a)
  /\ UNCHANGED fileVars

\* Faulty: the failures of the other invocations are replayed too.
KnownFailuresOfAll(i) ==
  {failures[j][Key(i)] : j \in Invocations} \ {None}

\* Faulty: recorded failures are not looked up.
KnownFailuresIgnored(i) == {}

\* The failure this invocation recorded for the request.
KnownFailures(i) == {failures[i][Key(i)]} \ {None}

\* cached_run finds the response in the cache.
Hit(i) ==
  /\ Caching(i) /\ cache[Key(i)] # None
  /\ Answer(i, cache[Key(i)])
  /\ UNCHANGED fileVars

ReplayFailure(i) ==
  /\ Caching(i) /\ cache[Key(i)] = None
  /\ \E a \in KnownFailures(i) : Answer(i, a)
  /\ UNCHANGED fileVars

\* Neither: the real command runs; a whois can be cut off by its timeout.
RunReal(i) ==
  /\ Caching(i) /\ cache[Key(i)] = None /\ KnownFailures(i) = {}
  /\ \E a \in Replies[Key(i)] : reply' = [reply EXCEPT ![i] = a]
  /\ called' = [called EXCEPT ![i] = @ \cup {Key(i)}]
  /\ pc' = [pc EXCEPT ![i] = "record"]
  /\ UNCHANGED <<cache, recorder, scratch, reference, root, script, at,
                 failures, seen, output, differences>>

\* mv of the temporary file to the cache file, which is then printed.
RecordSuccess(i) ==
  /\ pc[i] = "record" /\ reply[i].ok
  /\ cache' = [cache EXCEPT ![Key(i)] = reply[i]]
  /\ recorder' = [recorder EXCEPT ![Key(i)] = i]
  /\ reply' = [reply EXCEPT ![i] = None]
  /\ pc' = [pc EXCEPT ![i] = "print"]
  /\ UNCHANGED <<scratch, reference, root, script, at, failures, called, seen,
                 output, differences>>

PrintRecorded(i) ==
  /\ pc[i] = "print"
  /\ Answer(i, cache[Key(i)])
  /\ UNCHANGED fileVars

\* Faulty: a failed response is not kept for the paired run.
RecordFailureNowhere(i) ==
  /\ pc[i] = "record" /\ ~reply[i].ok
  /\ reply' = [reply EXCEPT ![i] = None]
  /\ Answer(i, reply[i])
  /\ UNCHANGED <<cache, recorder, failures, called>>

RecordFailure(i) ==
  /\ pc[i] = "record" /\ ~reply[i].ok
  /\ failures' = [failures EXCEPT ![i][Key(i)] = reply[i]]
  /\ reply' = [reply EXCEPT ![i] = None]
  /\ Answer(i, reply[i])
  /\ UNCHANGED <<cache, recorder, called>>

\* A curl of several URLs is answered from the cache when all are there.
AllCached(i) ==
  /\ Command(i).kind = "urls" /\ reference[i] # "uncached"
  /\ \A k \in Command(i).keys : cache[k] # None

ReplayAll(i) ==
  /\ AtCommand(i) /\ AllCached(i)
  /\ Answer(i, [ok |-> TRUE,
                body |-> UNION {cache[k].body : k \in Command(i).keys}])
  /\ UNCHANGED fileVars

\* The real command, neither replayed nor recorded.
PassThrough(i) ==
  /\ AtCommand(i) /\ ~Caching(i) /\ ~AllCached(i) /\ Command(i).kind # "irr"
  /\ \E k \in Command(i).keys : \E a \in Replies[k] : Answer(i, a)
  /\ UNCHANGED fileVars

-----------------------------------------------------------------------------
(* The invocation *)

\* A downloader writes its lists from its scratch file and exits 0; the next
\* one starts, or the candidate tree after the reference tree.
FinishScript(i) ==
  /\ pc[i] = "run" /\ at[i] = Len(ScriptOf[Downloader(i)]) + 1
  /\ output' = [output EXCEPT ![i][root[i]][Downloader(i)] =
                  scratch[Downloader(i)]]
  /\ at' = [at EXCEPT ![i] = 1]
  /\ \/ /\ script[i] < Len(Selected)
        /\ script' = [script EXCEPT ![i] = @ + 1]
        /\ UNCHANGED <<pc, root>>
     \/ /\ script[i] = Len(Selected) /\ root[i] = "reference"
        /\ script' = [script EXCEPT ![i] = 1]
        /\ root' = [root EXCEPT ![i] = "candidate"]
        /\ UNCHANGED pc
     \/ /\ script[i] = Len(Selected) /\ root[i] = "candidate"
        /\ pc' = [pc EXCEPT ![i] = "compare"]
        /\ UNCHANGED <<script, root>>
  /\ UNCHANGED <<fileVars, scratch, reference, seen, differences>>

\* A downloader ends with an error, say a grep for IPv6 that finds nothing.
ScriptFails(i) ==
  /\ pc[i] = "run" /\ at[i] = Len(ScriptOf[Downloader(i)]) + 1
  /\ pc' = [pc EXCEPT ![i] = "failed"]
  /\ UNCHANGED <<fileVars, scratch, reference, root, script, at, seen, output,
                 differences>>

\* Faulty: the lists are always compared with the repository's.
ReferenceAlwaysCommitted(i, d) == Committed[d]

\* The lists the candidate is compared with.
ReferenceLists(i, d) ==
  IF reference[i] = "cached-whois" THEN output[i]["reference"][d]
  ELSE Committed[d]

\* BuildFileReport: the coverage on one side only.
Compare(i) ==
  /\ pc[i] = "compare"
  /\ pc' = [pc EXCEPT ![i] = "done"]
  /\ differences' = [differences EXCEPT ![i] =
       [d \in Downloaders |->
          IF \E n \in DOMAIN Selected : Selected[n] = d
          THEN LET new == output[i]["candidate"][d]
                   old == ReferenceLists(i, d)
               IN  (new \ old) \cup (old \ new)
          ELSE {}]]
  /\ UNCHANGED <<fileVars, scratch, reference, root, script, at, seen, output>>

\* The process is killed, or the comparison or a copy fails.
Kill(i) ==
  /\ pc[i] \notin Over \cup {"idle"}
  /\ pc' = [pc EXCEPT ![i] = "killed"]
  /\ UNCHANGED <<fileVars, scratch, reference, root, script, at, seen, output,
                 differences>>

InvocationNext(i) ==
  \/ \E ref \in References : Start(i, ref)
  \/ AskIndex(i)
  \/ Hit(i)
  \/ ReplayFailure(i)
  \/ RunReal(i)
  \/ RecordSuccess(i)
  \/ PrintRecorded(i)
  \/ RecordFailure(i)
  \/ ReplayAll(i)
  \/ PassThrough(i)
  \/ FinishScript(i)
  \/ ScriptFails(i)
  \/ Compare(i)
  \/ Kill(i)

Next == UNCHANGED workload /\ \E i \in Invocations : InvocationNext(i)

Spec == Init /\ [][Next]_vars

-----------------------------------------------------------------------------
(* Properties *)

\* Every variable has its type.
TypeOK ==
  /\ workload \in Workloads
  /\ cache \in [Keys -> Answers \cup {None}]
  /\ recorder \in [Keys -> Invocations \cup {None}]
  /\ scratch \in [Downloaders -> SUBSET Addresses]
  /\ pc \in [Invocations -> {"idle", "run", "record", "print", "compare"}
                            \cup Over]
  /\ reference \in [Invocations -> Options]
  /\ root \in [Invocations -> Roots]
  /\ script \in [Invocations -> DOMAIN Selected]
  /\ at \in [Invocations -> Nat \ {0}]
  /\ reply \in [Invocations -> Answers \cup {None}]
  /\ failures \in [Invocations -> [Keys -> Answers \cup {None}]]
  /\ called \in [Invocations -> SUBSET Keys]
  /\ seen \in [Invocations -> [Roots -> [Positions -> Answers \cup {None}]]]
  /\ output \in [Invocations ->
       [Roots -> [Downloaders -> (SUBSET Addresses) \cup {None}]]]
  /\ differences \in [Invocations -> [Downloaders -> SUBSET Addresses]]

\* One invocation runs the real command of a recorded request at most once,
\* whatever failed before ("runs the real command once", main.go 569-573).
RunsRealOnce ==
  [][\A i \in Invocations : RunReal(i) => Key(i) \notin called[i]]_vars

\* The paired runs of an invocation see the same answer to the same recorded
\* request, also when it failed in the first ("so the paired run replays the
\* same failure"), unless another invocation recorded it in between.
PairedRunsAgree ==
  \A i \in Invocations, p, q \in Positions :
    LET k == CommandAt(p).keys
        a == seen[i]["reference"][p]
        b == seen[i]["candidate"][q]
    IN  (/\ CommandAt(p).kind \in {"irr", "feed"} /\ CommandAt(q).kind = "feed"
         /\ k = CommandAt(q).keys /\ a # None /\ b # None /\ a # b)
          => \A x \in k : recorder[x] \notin {i, None}

\* A failure an invocation sees for a recorded request is one it met itself: a
\* "transient outage" does not "poison later invocations" (main.go 569-573).
FailuresAreOwn ==
  \A i \in Invocations, r \in Roots, p \in Positions :
    LET a == seen[i][r][p]
    IN  (/\ Recorded(CommandAt(p).kind, r) /\ reference[i] # "uncached"
         /\ a # None /\ ~a.ok)
          => CommandAt(p).keys \subseteq called[i]

\* The addresses an invocation was given for the commands in C of downloader d.
Given(i, r, d, C) ==
  UNION {seen[i][r][p].body : p \in
    {x \in Positions : /\ Selected[x[1]] = d /\ CommandAt(x).kind \in C
                       /\ seen[i][r][x] # None}}

\* The lists a downloader writes in a work tree hold what it was given in that
\* tree and nothing of an earlier run (docs/bulk-db-augment-plan.md 1037:
\* "an isolated work dir").
OutputIsOwn ==
  \A i \in Invocations, r \in Roots, d \in Downloaders :
    ~workload.overlap /\ output[i][r][d] # None =>
      output[i][r][d] \subseteq Given(i, r, d, {"irr", "feed", "urls", "direct"})

\* The differences a cached-whois report shows come from the whois answers, or
\* from requests no shim records: "using the same cached non-WHOIS additions
\* on both sides" (compare.go 161).
DifferencesComeFromWhois ==
  \A i \in Invocations, d \in Downloaders :
    (~workload.overlap /\ pc[i] = "done" /\ reference[i] = "cached-whois") =>
      differences[i][d] \subseteq
        UNION {Given(i, r, d, {"irr", "urls", "direct"}) : r \in Roots}
=============================================================================
