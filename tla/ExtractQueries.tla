---------------------------- MODULE ExtractQueries ----------------------------
(***************************************************************************)
(* "irrindex extract-queries" (internal/manifest/extract.go) reads which   *)
(* whois queries the downloaders ask out of the text of their scripts and  *)
(* writes them to queries.yaml, which "compare" loads (internal/config).   *)
(* A script is never run: one pass over its lines collects the helper      *)
(* functions, one the calls, and a regular expression the for loops.       *)
(*                                                                         *)
(* A line is reduced to what the passes and the shell make of it; comments *)
(* are left out.  A name, a variable, a value is a token: that one may be  *)
(* a part of another's text is left out too.                               *)
(***************************************************************************)
EXTENDS Naturals, FiniteSets, Sequences

CONSTANTS
  Scripts,     \* downloader -> the scripts its directory can hold
  NoScript,    \* a directory without downloader.sh
  Hosts,
  MirrorOf,    \* mirrors.Name: host -> name of a mirror, or the host itself
  HelperNames,
  NoHelper,    \* outside of helper functions
  Variables,   \* arguments that are no value: $asn, $1
  AsNumbers,   \* values that are AS and digits
  OtherValues, \* maintainers, AS sets
  Empty        \* the value of no characters: ''

Downloaders == DOMAIN Scripts
Values == AsNumbers \cup OtherValues \cup {Empty}
Kinds == {"origin", "mnt-by"}

Lines ==
  [is : {"helper"}, name : HelperNames]  \* name() {
    \cup [is : {"whois"}, host : Hosts, asks : Kinds \cup {"other"}]
    \cup [is : {"call"}, name : HelperNames, arg : Values \cup Variables]
    \cup [is : {"for"}, var : Variables, values : SUBSET Values]
    \cup [is : {"end", "done", "other"}]          \* the end of a function, of a loop

\* QuerySpec.
Queries ==
  [downloader : Downloaders, kind : Kinds, value : Values,
   mirrors : SUBSET {MirrorOf[h] : h \in Hosts}]

ASSUME ScriptsAssumption ==
  /\ \A d \in Downloaders : Scripts[d] \subseteq Seq(Lines) \cup {NoScript}
  /\ DOMAIN MirrorOf = Hosts
  /\ NoHelper \notin HelperNames
  /\ Values \cap Variables = {} /\ Empty \notin AsNumbers \cup OtherValues

VARIABLES
  tree,     \* downloader -> its script, once it was read
  pc,       \* the pass of the extraction
  unread,   \* downloaders whose script is yet to be read
  current,  \* the downloader whose script is read
  at,       \* the line it is read at
  inside,   \* the helper function that line is in
  helper,   \* what is known of that function
  helpers,  \* the functions found: name -> kind and mirrors
  pending,  \* helpers the loop at that line is yet to be matched with
  seen,     \* the queries of this script
  specs,    \* the queries of the scripts before it
  file,     \* queries.yaml
  loaded    \* what LoadQueries said of it

scriptVars == <<inside, helper, helpers, pending, seen>>
extractVars == <<tree, pc, unread, current, at, inside, helper, helpers,
                 pending, seen, specs, file, loaded>>

NoSpec == [kind |-> "none", mirrors |-> {}]

\* A file that is no YAML, and so no set of queries.
Garbled == {NoSpec}

Script == tree[current]

ExtractInit ==
  /\ tree = [d \in Downloaders |-> NoScript]
  /\ pc = "read"
  /\ unread = Downloaders /\ current = CHOOSE d \in Downloaders : TRUE
  /\ at = 1
  /\ inside = NoHelper /\ helper = NoSpec
  /\ helpers = [n \in HelperNames |-> NoSpec]
  /\ pending = {}
  /\ seen = {} /\ specs = {}
  /\ file = {} /\ loaded = "no"

\* The next directory, if it has a script.
ReadScript(d) ==
  /\ pc = "read" /\ d \in unread
  /\ unread' = unread \ {d}
  /\ \E script \in Scripts[d] : tree' = [tree EXCEPT ![d] = script]
  /\ IF tree'[d] = NoScript
     THEN UNCHANGED <<pc, current, at, helpers, seen>>
     ELSE /\ pc' = "helpers" /\ current' = d /\ at' = 1
          /\ helpers' = [n \in HelperNames |-> NoSpec]
          /\ seen' = {}
  /\ UNCHANGED <<inside, helper, pending, specs, file, loaded>>

\* A script cannot be read: nothing is written.
ReadFails ==
  /\ pc = "read" /\ unread # {}
  /\ pc' = "failed"
  /\ UNCHANGED <<tree, unread, current, at, scriptVars, specs, file, loaded>>

-----------------------------------------------------------------------------
(* extractHelpers and parseHelperBody, line by line *)

\* A function that asks for nothing is none.
WithHelper == IF helper.kind = "none" THEN helpers
              ELSE [helpers EXCEPT ![inside] = helper]

\* The first query of a function settles its kind.
Asking(line) ==
  /\ line.is = "whois" /\ line.asks \in Kinds
  /\ helper.kind \in {"none", line.asks}

HelperLine ==
  /\ pc = "helpers" /\ at <= Len(Script)
  /\ at' = at + 1
  /\ LET line == Script[at] IN
       \/ /\ inside = NoHelper /\ line.is = "helper"
          /\ inside' = line.name /\ helper' = NoSpec
          /\ UNCHANGED helpers
       \/ /\ inside # NoHelper /\ line.is = "end"
          /\ helpers' = WithHelper
          /\ inside' = NoHelper
          /\ UNCHANGED helper
       \/ /\ inside # NoHelper /\ Asking(line)
          /\ helper' = [kind |-> line.asks,
                        mirrors |-> helper.mirrors \cup {MirrorOf[line.host]}]
          /\ UNCHANGED <<inside, helpers>>
       \/ /\ IF inside = NoHelper THEN line.is # "helper"
             ELSE line.is # "end" /\ ~Asking(line)
          /\ UNCHANGED <<inside, helper, helpers>>
  /\ UNCHANGED <<tree, pc, unread, current, pending, seen, specs, file, loaded>>

\* A function that is still open ends with the script.
HelpersFound ==
  /\ pc = "helpers" /\ at > Len(Script)
  /\ helpers' = IF inside = NoHelper THEN helpers ELSE WithHelper
  /\ inside' = NoHelper
  /\ pc' = "calls" /\ at' = 1
  /\ UNCHANGED <<tree, unread, current, helper, pending, seen, specs, file,
                 loaded>>

-----------------------------------------------------------------------------
(* The calls and the loops *)

\* Faulty: what a helper asks for plays no part.
AcceptedForAll(kind, v) == v \in AsNumbers

\* Faulty: the value may be empty.
AcceptedEmpty(kind, v) == v \in Values /\ (kind = "origin" => v \in AsNumbers)

Accepted(kind, v) ==
  /\ v \in Values \ {Empty}
  /\ kind = "origin" => v \in AsNumbers

\* add: the last helper to ask for a value stays.
Added(h, values) ==
  LET new == {[downloader |-> current, kind |-> helpers[h].kind, value |-> v,
               mirrors |-> helpers[h].mirrors] :
                 v \in {w \in values : Accepted(helpers[h].kind, w)}}
  IN  {q \in seen : \A n \in new : n.kind # q.kind \/ n.value # q.value} \cup new

Found == {n \in HelperNames : helpers[n] # NoSpec}

\* Every line is looked at, whether it is in a function, a loop or neither.
CallLine ==
  /\ pc = "calls" /\ at <= Len(Script)
  /\ at' = at + 1
  /\ LET line == Script[at] IN
       seen' = IF line.is = "call" /\ line.name \in Found
               THEN Added(line.name, {line.arg}) ELSE seen
  /\ UNCHANGED <<tree, pc, unread, current, inside, helper, helpers, pending,
                 specs, file, loaded>>

CallsFound ==
  /\ pc = "calls" /\ at > Len(Script)
  /\ pc' = "loops" /\ at' = 1
  /\ UNCHANGED <<tree, unread, current, scriptVars, specs, file, loaded>>

\* The first "done" after line f.
DoneAfter(f) ==
  CHOOSE e \in f + 1 .. Len(Script) :
    /\ Script[e].is = "done"
    /\ \A i \in f + 1 .. e - 1 : Script[i].is # "done"

IsLoop(f) ==
  /\ Script[f].is = "for"
  /\ \E e \in f + 1 .. Len(Script) : Script[e].is = "done"

\* Faulty: any call in the loop counts.
MatchedByAnyCall(h, f) ==
  \E i \in f + 1 .. DoneAfter(f) - 1 : Script[i].is = "call" /\ Script[i].name = h

\* loopCallRE: the text of the loop, up to the first "done", calls the helper
\* with the variable of the loop.
Matched(h, f) ==
  \E i \in f + 1 .. DoneAfter(f) - 1 :
    Script[i] = [is |-> "call", name |-> h, arg |-> Script[f].var]

FindLoop ==
  /\ pc = "loops"
  /\ \E f \in at .. Len(Script) :
       /\ IsLoop(f) /\ \A i \in at .. f - 1 : ~IsLoop(i)
       /\ at' = f
  /\ pc' = "loop" /\ pending' = Found
  /\ UNCHANGED <<tree, unread, current, inside, helper, helpers, seen, specs,
                 file, loaded>>

\* The helpers come in the order of a Go map.
LoopHelper(h) ==
  /\ pc = "loop" /\ h \in pending
  /\ seen' = IF Matched(h, at) THEN Added(h, Script[at].values) ELSE seen
  /\ pending' = pending \ {h}
  /\ UNCHANGED <<tree, pc, unread, current, at, inside, helper, helpers, specs,
                 file, loaded>>

\* The search goes on behind the "done".
LoopOver ==
  /\ pc = "loop" /\ pending = {}
  /\ pc' = "loops" /\ at' = DoneAfter(at) + 1
  /\ UNCHANGED <<tree, unread, current, scriptVars, specs, file, loaded>>

Collect ==
  /\ pc = "loops" /\ \A f \in at .. Len(Script) : ~IsLoop(f)
  /\ specs' = specs \cup seen
  /\ pc' = "read"
  /\ UNCHANGED <<tree, unread, current, at, scriptVars, file, loaded>>

-----------------------------------------------------------------------------
(* WriteQueriesYAML and LoadQueries *)

Write ==
  /\ pc = "read" /\ unread = {}
  /\ file' = specs
  /\ pc' = "written"
  /\ UNCHANGED <<tree, unread, current, at, scriptVars, specs, loaded>>

\* The file is left as it was, or broken off.
WriteFails ==
  /\ pc = "read" /\ unread = {}
  /\ \E left \in {file, Garbled} \cup SUBSET specs : file' = left
  /\ pc' = "failed"
  /\ UNCHANGED <<tree, unread, current, at, scriptVars, specs, loaded>>

\* "compare" reads the file, whatever became of the extraction.
Load ==
  /\ pc \in {"written", "failed"} /\ loaded = "no"
  /\ loaded' = IF \/ file = Garbled
                  \/ \E q \in file : q.value = Empty \/ q.kind \notin Kinds
               THEN "refused" ELSE "accepted"
  /\ UNCHANGED <<tree, pc, unread, current, at, scriptVars, specs, file>>

ExtractNext ==
  \/ \E d \in Downloaders : ReadScript(d)
  \/ ReadFails
  \/ HelperLine
  \/ HelpersFound
  \/ CallLine
  \/ CallsFound
  \/ FindLoop
  \/ \E h \in pending : LoopHelper(h)
  \/ LoopOver
  \/ Collect
  \/ Write
  \/ WriteFails
  \/ Load

-----------------------------------------------------------------------------
(* What the shell asks when it runs a script *)

Is(s, i, what) == s[i].is = what

\* Lines l .. m of s hold as many loops that begin as loops that end.
Balanced(s, l, m) ==
  Cardinality({i \in l .. m : Is(s, i, "for")}) =
    Cardinality({i \in l .. m : Is(s, i, "done")})

\* The loops around line i.
Around(s, i) ==
  {f \in 1 .. i - 1 : Is(s, f, "for") /\ \A m \in f .. i : ~Balanced(s, f, m)}

\* The lines of the function that begins at line b.
Body(s, b) ==
  {i \in b + 1 .. Len(s) : \A j \in b + 1 .. i : ~Is(s, j, "end")}

Begins(s, n) == {b \in 1 .. Len(s) : s[b] = [is |-> "helper", name |-> n]}

\* Line i is run as the shell comes to it: it is in no function, and no loop
\* around it is without values.
Runs(s, i) ==
  /\ \A b \in {h \in 1 .. Len(s) : Is(s, h, "helper")} : i \notin Body(s, b)
  /\ \A f \in Around(s, i) : s[f].values # {}

\* The function n is at line i: the last of that name to be defined before it.
InForce(s, i, n) ==
  LET defined == {b \in Begins(s, n) : b < i /\ Runs(s, b)}
  IN  {b \in defined : \A d \in defined : d <= b}

\* The values the call at line i passes on: a variable has the values of the
\* innermost loop over it.
Given(s, i) ==
  LET over == {f \in Around(s, i) : s[f].var = s[i].arg}
  IN  IF s[i].arg \in Values THEN {s[i].arg}
      ELSE UNION {s[f].values : f \in {g \in over : \A e \in over : e <= g}}

\* The whois commands the calls outside of functions lead to, as the shell runs
\* the script from its first line to its last: host, kind and value.
Asks(s) ==
  UNION {{<<s[w].host, s[w].asks, v>> :
            w \in {x \in UNION {Body(s, b) : b \in InForce(s, c, s[c].name)} :
                     Is(s, x, "whois")},
            v \in Given(s, c)} :
           c \in {x \in 1 .. Len(s) : Is(s, x, "call") /\ Runs(s, x)}}

\* A function is defined once, and in no other.
FunctionsApart(s) ==
  \A n, m \in HelperNames : \A b \in Begins(s, n), c \in Begins(s, m) :
    (n = m => b = c) /\ c \notin Body(s, b)

\* Functions and loops that are closed, and no function in or across a loop.
WellFormed(s) ==
  /\ \A m \in 1 .. Len(s) :
       Cardinality({i \in 1 .. m : Is(s, i, "done")})
         <= Cardinality({i \in 1 .. m : Is(s, i, "for")})
  /\ Balanced(s, 1, Len(s))
  /\ \A i \in 1 .. Len(s) : Is(s, i, "helper") \/ Is(s, i, "end") => Around(s, i) = {}
  /\ \A b \in {h \in 1 .. Len(s) : Is(s, h, "helper")} :
       \E e \in b + 1 .. Len(s) : Is(s, e, "end")
  /\ \A e \in {i \in 1 .. Len(s) : Is(s, i, "end")} :
       \E b \in {h \in 1 .. e - 1 : Is(s, h, "helper")} : b + 1 .. e - 1 \subseteq Body(s, b)

\* Scripts whose text, taken without its order, says what the shell does: a
\* function is defined once, before its calls, which are in no function, and
\* loops have values and nested ones variables of their own.
Orderly(s) ==
  /\ FunctionsApart(s)
  /\ \A c \in {x \in 1 .. Len(s) : Is(s, x, "call")} :
       /\ \A b \in {h \in 1 .. Len(s) : Is(s, h, "helper")} : c \notin Body(s, b)
       /\ \A b \in Begins(s, s[c].name) : b < c
  /\ \A f \in {x \in 1 .. Len(s) : Is(s, x, "for")} :
       s[f].values # {} /\ \A g \in Around(s, f) : s[g].var # s[f].var
  /\ WellFormed(s)

-----------------------------------------------------------------------------
(* What the text of a script speaks of, in whatever order it runs *)

\* The values the call at line i passes on in any loop around it.
Passed(s, i) ==
  IF s[i].arg \in Values THEN {s[i].arg}
  ELSE UNION {s[f].values : f \in {g \in Around(s, i) : s[g].var = s[i].arg}}

\* The whois commands any call can lead to, wherever it is, by any definition
\* of its function.
Mentions(s) ==
  UNION {{<<s[w].host, s[w].asks, v>> :
            w \in {x \in UNION {Body(s, b) : b \in Begins(s, s[c].name)} :
                     Is(s, x, "whois")},
            v \in Passed(s, c)} :
           c \in {x \in 1 .. Len(s) : Is(s, x, "call")}}

KindsAsked(s, n) ==
  {s[w].asks : w \in {x \in UNION {Body(s, b) : b \in Begins(s, n)} :
                        Is(s, x, "whois")}} \cap Kinds

\* Scripts as the repository has them: apart functions, each of one kind that no
\* other asks for, loops that end before another begins, and variables that are
\* those of a loop around.
Plain(s) ==
  /\ FunctionsApart(s)
  /\ \A n \in HelperNames : Cardinality(KindsAsked(s, n)) <= 1
  /\ \A n, m \in HelperNames :
       n # m => KindsAsked(s, n) \cap KindsAsked(s, m) = {}
  /\ \A f \in {g \in 1 .. Len(s) : Is(s, g, "for")} :
       \E e \in f + 1 .. Len(s) :
         Is(s, e, "done") /\ \A g \in f + 1 .. e : ~Is(s, g, "for")
  /\ \A c \in {x \in 1 .. Len(s) : Is(s, x, "call")} :
       s[c].arg \in Variables => \E f \in Around(s, c) : s[f].var = s[c].arg

MirrorsAmong(asked, kind, v) ==
  {MirrorOf[a[1]] : a \in {b \in asked : b[2] = kind /\ b[3] = v}}

-----------------------------------------------------------------------------
(* Properties *)

\* A query names only mirrors the script itself asks for that kind and value:
\* whatever its loops and functions look like, and in whatever order the map of
\* helpers is gone through, no helper's mirrors, kind or values get into the
\* query of another (extract.go 76-133).  What is asked is what the shell asks,
\* where the text of the script says so without its order; a call before its
\* function, or one that is defined twice, is read otherwise than it runs
\* (extract.go 119-125, 182).
QueriesAreAsked ==
  \A d \in Downloaders :
    LET s == tree[d]
        found == {q \in specs \cup seen : q.downloader = d}
        mentioned == Mentions(s)
        asked == Asks(s) IN
      /\ \A q \in found :
           /\ q.mirrors # {}
           /\ q.mirrors \subseteq MirrorsAmong(mentioned, q.kind, q.value)
      /\ found # {} /\ s # NoScript /\ Orderly(s) =>
           \A q \in found : q.mirrors \subseteq MirrorsAmong(asked, q.kind, q.value)

\* The written file has, for a script as the repository has them, every query
\* of its functions that can be asked of the index, with all mirrors the script
\* asks it of, wherever the call is (extract.go 33-62, main.go 154-174).  A
\* whois outside of functions is no query (alibaba/downloader.sh 24-25).
NothingIsLeftOut ==
  pc = "written" =>
    \A d \in Downloaders :
      tree[d] # NoScript /\ Plain(tree[d]) =>
        \A a \in Mentions(tree[d]) :
          (a[2] = "origin" /\ a[3] \in AsNumbers)
            \/ (a[2] = "mnt-by" /\ a[3] # Empty) =>
            [downloader |-> d, kind |-> a[2], value |-> a[3],
             mirrors |-> MirrorsAmong(Mentions(tree[d]), a[2], a[3])] \in file

\* A file that was written to its end is accepted by LoadQueries (config.go
\* 60-86), whatever the scripts hold.
LoadsBack == pc = "written" => loaded # "refused" /\ file = specs
=============================================================================
