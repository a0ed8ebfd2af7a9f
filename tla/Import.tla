-------------------------------- MODULE Import --------------------------------
(***************************************************************************)
(* How "build" turns the cached file of one source into rows               *)
(* (buildSource in cmd/irrindex/main.go; internal/rpsl, internal/ris,      *)
(* internal/rpki; the conversions of internal/store/store.go), and what a  *)
(* query finds in them (internal/query).  The file comes line by line and  *)
(* may end or break off anywhere.  Statements, transactions and other      *)
(* builds are the matter of IndexStore.                                    *)
(*                                                                         *)
(* A text is reduced to what the conversions make of it: an AS number in   *)
(* one of its spellings, a set of them, a maintainer in either case, a     *)
(* prefix written plainly, with host bits or (IPv4) with leading zeros, a  *)
(* range of addresses, one without its start, or a word.  A comment at the *)
(* end of a line is not taken off (rpsl/parser.go 74-84), so a number, a   *)
(* maintainer or a prefix with one behind it is a word, and a line that    *)
(* begins with "+" continues nothing: it is junk.  The value of an         *)
(* attribute is the sequence of its texts: its own and those of the lines  *)
(* that continue it.                                                       *)
(***************************************************************************)
EXTENDS Naturals, FiniteSets, Sequences

CONSTANTS
  Sources,   \* what a source can be: its format, its family, its lines
  Nets,      \* prefixes, masked
  FamilyOf,
  Defaults,  \* the default routes among them
  Numbers,   \* AS numbers
  Maintainers,
  NoKey,     \* there is nothing to continue
  MaxLines   \* bound

Formats == {"rpsl", "riswhois", "rpki_csv"}
Classes == <<"route", "route6", "inetnum", "inet6num">>
ClassKeys == {Classes[i] : i \in 1 .. 4}
Keys == ClassKeys \cup {"origin", "mnt-by", "descr"}

Texts ==
  [is : {"as"}, spelled : {"AS", "as", ""}, no : Numbers]
    \cup [is : {"set"}, spelled : {"AS", "as", ""}, nos : SUBSET Numbers]
    \cup [is : {"mnt"}, upper : BOOLEAN, name : Maintainers]
    \cup [is : {"prefix"}, written : {"plain", "hostbits", "zeros"}, net : Nets]
    \cup [is : {"range", "half", "word"}]

Lines ==
  [is : {"blank", "junk", "long", "header"}]
    \cup [is : {"comment"}, sign : {"%", "#"}]
    \cup [is : {"more"}, text : Texts]                \* begins with a blank
    \cup [is : {"attr"}, key : Keys, text : Texts]
    \cup [is : {"record"}, origin : Texts, prefix : Texts]

ASSUME ImportAssumption ==
  /\ FamilyOf \in [Nets -> {4, 6}] /\ Defaults \subseteq Nets
  /\ \A s \in Sources :
       /\ s.family \in {0, 4, 6} /\ s.lines \subseteq Lines
       \* In RPSL every other line is an attribute or, without a colon, junk.
       /\ s.format = "rpsl" => \A l \in s.lines : l.is \notin {"header", "record"}
  /\ MaxLines \in Nat /\ NoKey \notin Keys

VARIABLES
  source,   \* the source, as configured
  pc,       \* "parse", "insert"; "done", "refused" or "unreadable"
  read,     \* the lines that were read
  attrs,    \* the block: key -> values of its attributes
  lastKey,  \* the attribute a line would continue
  objects,  \* what the parser found and is yet to be inserted
  rows      \* what was inserted

vars == <<source, pc, read, attrs, lastKey, objects, rows>>

NoAttrs == [k \in Keys |-> <<>>]

Init ==
  /\ source \in Sources
  /\ pc = "parse"
  /\ read = <<>>
  /\ attrs = NoAttrs /\ lastKey = NoKey
  /\ objects = <<>> /\ rows = {}

\* buildSource returns an error; the transaction leaves nothing.
Fail(outcome) ==
  /\ pc' = outcome
  /\ rows' = {}
  /\ UNCHANGED <<attrs, lastKey, objects>>

\* The file cannot be opened or decompressed, or breaks off.
ReadFails == pc = "parse" /\ Fail("unreadable") /\ UNCHANGED <<source, read>>

UnknownFormat ==
  /\ pc = "parse" /\ source.format \notin Formats
  /\ Fail("refused")
  /\ UNCHANGED <<source, read>>

-----------------------------------------------------------------------------
(* Conversions *)

\* normalizeASN, of which ris, rpki, store and query have one each.
AsNumber(text) ==
  IF text.is \in {"as", "set"} THEN [text EXCEPT !.spelled = "AS"] ELSE text

Upper(text) == IF text.is = "mnt" THEN [text EXCEPT !.upper = TRUE] ELSE text

\* Faulty: no second try without the leading zeros.
NetStrict(value) ==
  IF Len(value) = 1 /\ value[1].is = "prefix" /\ value[1].written # "zeros"
  THEN {value[1].net} ELSE {}

\* normalizePrefix: the prefix without host bits, or nothing.
Net(value) ==
  IF Len(value) = 1 /\ value[1].is = "prefix" THEN {value[1].net} ELSE {}

\* netip.ParsePrefix, as rpki uses it.
Parses(text) == text.is = "prefix" /\ text.written # "zeros"

\* parseInetnumRange: the first dash has a text on either side.
IsRange(value) ==
  /\ value[1].is # "half"
  /\ \E i \in DOMAIN value : value[i].is \in {"range", "half"}

-----------------------------------------------------------------------------
(* rpsl.Parse, ris.Parse and rpki.ParseCSV, line by line *)

HeaderRead == \E i \in DOMAIN read : read[i].is = "header"

\* Whether the parser takes the line.
Taken(line) ==
  CASE source.format = "rpsl" -> line.is # "long"
    [] source.format = "riswhois" ->
         line.is \in {"blank", "record"} \/ (line.is = "comment" /\ line.sign = "%")
    [] source.format = "rpki_csv" ->
         \/ line.is = "blank"
         \/ line.is = "header" /\ ~HeaderRead
         \/ line.is = "record" /\ HeaderRead /\ Parses(line.prefix)

NextLine(line) ==
  /\ pc = "parse" /\ source.format \in Formats /\ Len(read) < MaxLines
  /\ read' = Append(read, line)
  /\ UNCHANGED source

LineRefused(line) ==
  /\ NextLine(line) /\ ~Taken(line)
  /\ Fail("refused")

\* The first of the four classes that the block has an attribute of.
ClassOf(block) ==
  Classes[CHOOSE i \in 1 .. 4 : /\ block[Classes[i]] # <<>>
                                /\ \A j \in 1 .. i - 1 : block[Classes[j]] = <<>>]

\* parseBlock: a block without a class is no object.
Flushed ==
  IF \A k \in ClassKeys : attrs[k] = <<>> THEN objects
  ELSE Append(objects, [class |-> ClassOf(attrs), value |-> attrs[ClassOf(attrs)][1],
                        origin |-> attrs["origin"], mntby |-> attrs["mnt-by"]])

\* Faulty: the attributes are still there when the next block begins.
AfterBlankKept(block) == block

AfterBlank(block) == NoAttrs

\* A line goes on with the value of the last attribute of its own block.
Continues(line) == line.is = "more" /\ lastKey # NoKey

RpslLine(line) ==
  /\ source.format = "rpsl" /\ NextLine(line) /\ Taken(line)
  /\ \/ /\ line.is = "blank"
        /\ objects' = Flushed
        /\ attrs' = AfterBlank(attrs) /\ lastKey' = NoKey
     \/ /\ line.is = "attr"
        /\ attrs' = [attrs EXCEPT ![line.key] = Append(@, <<line.text>>)]
        /\ lastKey' = line.key
        /\ UNCHANGED objects
     \/ /\ Continues(line)
        /\ attrs' = [attrs EXCEPT ![lastKey][Len(attrs[lastKey])] = Append(@, line.text)]
        /\ UNCHANGED <<lastKey, objects>>
     \/ /\ line.is \notin {"blank", "attr"} /\ ~Continues(line)
        /\ UNCHANGED <<attrs, lastKey, objects>>
  /\ UNCHANGED <<pc, rows>>

Record(class, line) ==
  [class |-> class, value |-> <<line.prefix>>, mntby |-> <<>>,
   origin |-> <<<<AsNumber(line.origin)>>>>]

RisLine(line) ==
  /\ source.format = "riswhois" /\ NextLine(line) /\ Taken(line)
  /\ objects' = IF line.is = "record" THEN Append(objects, Record("ris", line))
                ELSE objects
  /\ UNCHANGED <<pc, attrs, lastKey, rows>>

RpkiLine(line) ==
  /\ source.format = "rpki_csv" /\ NextLine(line) /\ Taken(line)
  /\ objects' =
       IF line.is # "record" THEN objects
       ELSE Append(objects,
                   Record(IF FamilyOf[line.prefix.net] = 4 THEN "route" ELSE "route6",
                          [line EXCEPT !.prefix.written = "plain"]))
  /\ UNCHANGED <<pc, attrs, lastKey, rows>>

\* The end of the file; a CSV without a header is an error.
FileEnds ==
  /\ pc = "parse" /\ source.format \in Formats
  /\ IF source.format = "rpki_csv" /\ ~HeaderRead
     THEN Fail("refused")
     ELSE /\ objects' = IF source.format = "rpsl" THEN Flushed ELSE objects
          /\ pc' = "insert"
          /\ UNCHANGED <<attrs, lastKey, rows>>
  /\ UNCHANGED <<source, read>>

-----------------------------------------------------------------------------
(* InsertRPSLSource and InsertRISSource, object by object *)

\* risOriginAttrs: a set stands for its numbers.
RisOrigins(text) ==
  IF text.is = "set" THEN {<<[is |-> "as", spelled |-> "AS", no |-> n]>> : n \in text.nos}
  ELSE {<<text>>}

\* The values of an attribute; one that was continued is no number or name.
Normalized(key, values) ==
  {IF Len(v) # 1 THEN v
   ELSE <<IF key = "origin" THEN AsNumber(v[1]) ELSE Upper(v[1])>> :
     v \in {values[i] : i \in DOMAIN values}}

RowOf(o, net) ==
  [net |-> net,
   origin |-> IF o.class = "ris" THEN RisOrigins(o.origin[1][1])
              ELSE Normalized("origin", o.origin),
   mntby |-> Normalized("mnt-by", o.mntby)]

WrongFamily(o) ==
  o.class = "ris" /\ source.family # 0
    /\ \E n \in Net(o.value) : FamilyOf[n] # source.family

\* A range is kept without a prefix, a default route is dropped.
InsertObject ==
  /\ pc = "insert" /\ objects # <<>>
  /\ LET o == Head(objects)
         range == o.class = "inetnum" /\ IsRange(o.value)
     IN  IF ~range /\ (Net(o.value) = {} \/ WrongFamily(o))
         THEN Fail("refused")
         ELSE /\ rows' = IF ~range /\ Net(o.value) \subseteq Defaults THEN rows
                         ELSE rows \cup {RowOf(o, IF range THEN {} ELSE Net(o.value))}
              /\ objects' = Tail(objects)
              /\ UNCHANGED <<pc, attrs, lastKey>>
  /\ UNCHANGED <<source, read>>

Commit ==
  /\ pc = "insert" /\ objects = <<>>
  /\ pc' = "done"
  /\ UNCHANGED <<source, read, attrs, lastKey, objects, rows>>

Next ==
  \/ ReadFails
  \/ UnknownFormat
  \/ \E line \in source.lines :
       LineRefused(line) \/ RpslLine(line) \/ RisLine(line) \/ RpkiLine(line)
  \/ FileEnds
  \/ InsertObject
  \/ Commit

Spec == Init /\ [][Next]_vars

\* ByOrigin and ByMaintainer, of this source.
Answer(asked, family) ==
  {n \in Nets : FamilyOf[n] = family /\ \E r \in rows :
     /\ n \in r.net
     /\ IF asked.is = "as" THEN <<AsNumber(asked)>> \in r.origin
        ELSE <<Upper(asked)>> \in r.mntby}

-----------------------------------------------------------------------------
(* What a file says *)

Blank(i) == read[i].is = "blank"
Attr(i, k) == read[i].is = "attr" /\ read[i].key = k

Together(i, j) == \A m \in (i .. j) \cup (j .. i) : ~Blank(m)

\* The lines that continue line i.
More(i) ==
  {j \in i + 1 .. Len(read) :
     read[j].is = "more" /\ \A m \in i + 1 .. j : read[m].is \notin {"blank", "attr"}}

\* The attribute that gives the object of its paragraph its class.
ClassLine(i) ==
  \E c \in 1 .. 4 :
    /\ Attr(i, Classes[c])
    /\ \A j \in DOMAIN read : Together(i, j) =>
         /\ Attr(j, Classes[c]) => i <= j
         /\ \A d \in 1 .. c - 1 : ~Attr(j, Classes[d])

\* A text that says the same as what is asked for.
Means(text, asked) ==
  \/ text.is = "as" /\ asked.is = "as" /\ text.no = asked.no
  \/ text.is = "mnt" /\ asked.is = "mnt" /\ text.name = asked.name

Key(asked) == IF asked.is = "as" THEN "origin" ELSE "mnt-by"

\* Line i is about net n, for what is asked.
About(i, n, asked) ==
  IF read[i].is = "record"
  THEN /\ read[i].prefix.is = "prefix" /\ read[i].prefix.net = n
       /\ asked.is = "as"
       /\ \/ Means(read[i].origin, asked)
          \/ /\ source.format = "riswhois" /\ read[i].origin.is = "set"
             /\ asked.no \in read[i].origin.nos
  ELSE /\ ClassLine(i) /\ More(i) = {}
       /\ read[i].text.is = "prefix" /\ read[i].text.net = n
       /\ \E j \in DOMAIN read :
            /\ Together(i, j) /\ Attr(j, Key(asked)) /\ More(j) = {}
            /\ Means(read[j].text, asked)

\* There is a fault in the file, or in what the source is configured to be.
Faulty ==
  \/ source.format \notin Formats
  \/ source.format = "rpki_csv"
       /\ \/ ~HeaderRead
          \/ \E i \in DOMAIN read : read[i].is \notin {"header", "blank", "record"}
          \/ \E i, j \in DOMAIN read : i # j /\ read[i].is = "header"
                                       /\ read[j].is = "header"
          \/ \E i \in DOMAIN read : read[i].is = "record" /\ ~Parses(read[i].prefix)
  \/ source.format = "riswhois"
       /\ \E i \in DOMAIN read :
            \/ read[i].is \notin {"blank", "record", "comment"}
            \/ read[i].is = "comment" /\ read[i].sign = "#"
            \/ read[i].is = "record"
                 /\ \/ read[i].prefix.is # "prefix"
                    \/ source.family \notin {0, FamilyOf[read[i].prefix.net]}
  \/ source.format = "rpsl"
       /\ \E i \in DOMAIN read :
            \/ read[i].is = "long"
            \/ /\ ClassLine(i)
               /\ read[i].text.is # "prefix" \/ More(i) # {}
               /\ ~(Attr(i, "inetnum") /\ read[i].text.is = "range")

-----------------------------------------------------------------------------
(* Properties *)

\* In whatever format a source comes and however the conversions let its
\* numbers, maintainers and prefixes be spelled, a query of an imported source
\* finds exactly the prefixes that the objects of the whole file bind to what is
\* asked: nothing of one object reaches another, and no part of a file passes
\* for the whole (rpsl/parser.go 20-121, ris/parser.go 18-61, rpki/parser.go
\* 13-95, store.go 205-366, query.go 11-77).  An object of a range of addresses
\* has no prefix to be found by, although the plan wants one row for each
\* prefix of the range (store.go 217-231; bulk-db-augment-plan.md 347), and a value
\* with a comment at its end is not found by what stands before it.
AnswersAreTheFiles ==
  pc = "done" =>
    \A asked \in {t \in Texts : t.is \in {"as", "mnt"}}, family \in {4, 6} :
      Answer(asked, family) =
        {n \in Nets \ Defaults :
           FamilyOf[n] = family /\ \E i \in DOMAIN read : About(i, n, asked)}

\* A file that was read is refused only for a fault in it: a line no parser can
\* take, or an object whose prefix is none, or not of the family of its source.
\* Lines of comment, lines without a colon, host bits, leading zeros and ranges
\* are no faults of an RPSL file (rpsl/parser.go 65-97, store.go 205-235,
\* 316-366).  One fault refuses the whole source, where the plan's study of
\* parsers would skip the object and count it (2026-06-22-rpsl-parser-spike.md
\* 281-286); a comment behind a prefix is a fault too.
RefusedForCause == pc = "refused" => Faulty
=============================================================================
