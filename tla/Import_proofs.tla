---------------------------- MODULE Import_proofs -----------------------------
(***************************************************************************)
(* Theorems about Import, for any file of any source, of any length.       *)
(***************************************************************************)
EXTENDS Import, SequenceTheorems, TLAPS

-----------------------------------------------------------------------------
(* Texts and lines *)

LEMMA TextFields ==
  \A t \in Texts :
    /\ t.is = "as" => t = [is |-> "as", spelled |-> t.spelled, no |-> t.no]
                        /\ t.no \in Numbers
    /\ t.is = "set" => t = [is |-> "set", spelled |-> t.spelled, nos |-> t.nos]
                         /\ t.nos \subseteq Numbers
    /\ t.is = "mnt" => t = [is |-> "mnt", upper |-> t.upper, name |-> t.name]
                         /\ t.name \in Maintainers
    /\ t.is = "prefix" => t = [is |-> "prefix", written |-> t.written, net |-> t.net]
                            /\ t.net \in Nets
<1> SUFFICES ASSUME NEW t \in Texts
             PROVE  /\ t.is = "as" => t = [is |-> "as", spelled |-> t.spelled, no |-> t.no]
                                        /\ t.no \in Numbers
                    /\ t.is = "set" => t = [is |-> "set", spelled |-> t.spelled, nos |-> t.nos]
                                         /\ t.nos \subseteq Numbers
                    /\ t.is = "mnt" => t = [is |-> "mnt", upper |-> t.upper, name |-> t.name]
                                         /\ t.name \in Maintainers
                    /\ t.is = "prefix" =>
                         /\ t = [is |-> "prefix", written |-> t.written, net |-> t.net]
                         /\ t.net \in Nets
  OBVIOUS
<1>1. CASE t \in [is : {"as"}, spelled : {"AS", "as", ""}, no : Numbers]
  BY <1>1
<1>2. CASE t \in [is : {"set"}, spelled : {"AS", "as", ""}, nos : SUBSET Numbers]
  BY <1>2
<1>3. CASE t \in [is : {"mnt"}, upper : BOOLEAN, name : Maintainers]
  BY <1>3
<1>4. CASE t \in [is : {"prefix"}, written : {"plain", "hostbits", "zeros"}, net : Nets]
  BY <1>4
<1>5. CASE t \in [is : {"range", "half", "word"}]
  BY <1>5
<1> QED BY <1>1, <1>2, <1>3, <1>4, <1>5 DEF Texts

LEMMA LineFields ==
  \A l \in Lines :
    /\ l.is = "more" => l.text \in Texts
    /\ l.is = "attr" => l.key \in Keys /\ l.text \in Texts
    /\ l.is = "record" =>
         /\ l = [is |-> "record", origin |-> l.origin, prefix |-> l.prefix]
         /\ l.origin \in Texts /\ l.prefix \in Texts
    /\ l.is = "comment" => l.sign \in {"%", "#"}
<1> SUFFICES ASSUME NEW l \in Lines
             PROVE  /\ l.is = "more" => l.text \in Texts
                    /\ l.is = "attr" => l.key \in Keys /\ l.text \in Texts
                    /\ l.is = "record" =>
                         /\ l = [is |-> "record", origin |-> l.origin, prefix |-> l.prefix]
                         /\ l.origin \in Texts /\ l.prefix \in Texts
                    /\ l.is = "comment" => l.sign \in {"%", "#"}
  OBVIOUS
<1>1. CASE l \in [is : {"blank", "junk", "long", "header"}]
  BY <1>1
<1>2. CASE l \in [is : {"comment"}, sign : {"%", "#"}]
  BY <1>2
<1>3. CASE l \in [is : {"more"}, text : Texts]
  BY <1>3
<1>4. CASE l \in [is : {"attr"}, key : Keys, text : Texts]
  BY <1>4
<1>5. CASE l \in [is : {"record"}, origin : Texts, prefix : Texts]
  BY <1>5
<1> QED BY <1>1, <1>2, <1>3, <1>4, <1>5 DEF Lines

LEMMA UpperIs ==
  ASSUME NEW t \in Texts, t.is = "mnt"
  PROVE  Upper(t) = [is |-> "mnt", upper |-> TRUE, name |-> t.name]
<1>1. t \in [is : {"mnt"}, upper : BOOLEAN, name : Maintainers]
  BY DEF Texts
<1>2. \A u \in BOOLEAN : [t EXCEPT !.upper = u] = [is |-> "mnt", upper |-> u, name |-> t.name]
  BY <1>1
<1>3. TRUE \in BOOLEAN
  OBVIOUS
<1>4. [t EXCEPT !.upper = TRUE] = [is |-> "mnt", upper |-> TRUE, name |-> t.name]
  BY <1>2, <1>3, Zenon
<1> QED BY <1>4, Zenon DEF Upper

\* Two texts are converted to the same number or name when they mean the same.
LEMMA AsNumberMeans ==
  ASSUME NEW t \in Texts, NEW a \in Texts
  PROVE  /\ AsNumber(t) \in Texts /\ AsNumber(AsNumber(t)) = AsNumber(t)
         /\ Upper(t) \in Texts
         /\ a.is = "as" => (AsNumber(t) = AsNumber(a) <=> Means(t, a))
         /\ a.is = "mnt" => (Upper(t) = Upper(a) <=> Means(t, a))
<1>1. CASE t.is = "as"
  <2>1. AsNumber(t) = [is |-> "as", spelled |-> "AS", no |-> t.no] /\ Upper(t) = t
    BY <1>1, TextFields DEF AsNumber, Upper
  <2>2. AsNumber(t) \in [is : {"as"}, spelled : {"AS", "as", ""}, no : Numbers]
    BY <2>1, <1>1, TextFields
  <2>3. a.is = "as" => AsNumber(a) = [is |-> "as", spelled |-> "AS", no |-> a.no]
    BY TextFields DEF AsNumber
  <2>4. a.is = "mnt" => Upper(a) = [is |-> "mnt", upper |-> TRUE, name |-> a.name]
    BY UpperIs
  <2>5. AsNumber(AsNumber(t)) = AsNumber(t)
    BY <2>1 DEF AsNumber
  <2>6. AsNumber(t) \in Texts
    BY <2>2 DEF Texts
  <2> QED BY <1>1, <2>1, <2>3, <2>4, <2>5, <2>6 DEF Means
<1>2. CASE t.is = "set"
  <2>1. AsNumber(t) = [is |-> "set", spelled |-> "AS", nos |-> t.nos] /\ Upper(t) = t
    BY <1>2, TextFields DEF AsNumber, Upper
  <2>2. AsNumber(t) \in [is : {"set"}, spelled : {"AS", "as", ""}, nos : SUBSET Numbers]
    BY <2>1, <1>2, TextFields
  <2>3. a.is = "as" => AsNumber(a) = [is |-> "as", spelled |-> "AS", no |-> a.no]
    BY TextFields DEF AsNumber
  <2>4. a.is = "mnt" => Upper(a) = [is |-> "mnt", upper |-> TRUE, name |-> a.name]
    BY UpperIs
  <2>5. AsNumber(AsNumber(t)) = AsNumber(t)
    BY <2>1 DEF AsNumber
  <2>6. AsNumber(t) \in Texts
    BY <2>2 DEF Texts
  <2>7. AsNumber(t).is = "set" /\ (a.is = "as" => AsNumber(a).is = "as")
    BY <2>1, <2>3
  <2>8. a.is = "mnt" => Upper(a).is = "mnt"
    BY <2>4
  <2> QED BY <1>2, <2>1, <2>5, <2>6, <2>7, <2>8 DEF Means
<1>3. CASE t.is = "mnt"
  <2>1. Upper(t) = [is |-> "mnt", upper |-> TRUE, name |-> t.name] /\ AsNumber(t) = t
    BY <1>3, UpperIs DEF AsNumber
  <2>2. Upper(t) \in [is : {"mnt"}, upper : BOOLEAN, name : Maintainers]
    BY <2>1, <1>3, TextFields
  <2>3. a.is = "as" => AsNumber(a).is = "as"
    BY TextFields DEF AsNumber
  <2>4. a.is = "mnt" => Upper(a) = [is |-> "mnt", upper |-> TRUE, name |-> a.name]
    BY UpperIs
  <2>5. Upper(t) \in Texts
    BY <2>2 DEF Texts
  <2> QED BY <1>3, <2>1, <2>3, <2>4, <2>5 DEF Means
<1>4. CASE t.is \notin {"as", "set", "mnt"}
  <2>1. AsNumber(t) = t /\ Upper(t) = t
    BY <1>4 DEF AsNumber, Upper
  <2>2. /\ a.is = "as" => AsNumber(a).is = "as"
        /\ a.is = "mnt" => Upper(a).is = "mnt"
    BY TextFields DEF AsNumber, Upper
  <2> QED BY <1>4, <2>1, <2>2 DEF Means
<1> QED BY <1>1, <1>2, <1>3, <1>4

\* A prefix is found however it is written, and in one text.
LEMMA NetOf ==
  ASSUME NEW v \in Seq(Texts), v # <<>>
  PROVE  /\ Net(v) \subseteq Nets
         /\ \A n \in Nets : n \in Net(v) <=> /\ Len(v) = 1 /\ v[1].is = "prefix"
                                             /\ v[1].net = n
         /\ Net(v) # {} => Net(v) = {v[1].net} /\ Len(v) = 1 /\ v[1].is = "prefix"
         /\ Net(v) = {} => Len(v) # 1 \/ v[1].is # "prefix"
<1>1. v[1] \in Texts
  OBVIOUS
<1>2. Len(v) = 1 /\ v[1].is = "prefix" => v[1].net \in Nets
  BY <1>1, TextFields
<1> QED BY <1>2 DEF Net

-----------------------------------------------------------------------------
(* What the parsers make of the lines *)

\* The value v of an attribute is what line i and those that continue it say.
Says(v, i) ==
  /\ v \in Seq(Texts) /\ v # <<>> /\ v[1] = read[i].text
  /\ Len(v) = 1 <=> More(i) = {}

\* vs are the values of the attributes named k in the paragraph of line i.
Gathers(vs, i, k) ==
  /\ vs \in Seq(Seq(Texts))
  /\ \A p \in DOMAIN vs :
       \E j \in DOMAIN read : Together(i, j) /\ Attr(j, k) /\ Says(vs[p], j)
  /\ \A j \in DOMAIN read : Together(i, j) /\ Attr(j, k) =>
       \E p \in DOMAIN vs : Says(vs[p], j)

\* Line i gives an object, and o is that object.
Gives(i) == IF source.format = "rpsl" THEN ClassLine(i) ELSE read[i].is = "record"

PlainRecord(line) == [line EXCEPT !.prefix.written = "plain"]

Made(o, i) ==
  \/ /\ source.format = "rpsl"
     /\ Attr(i, o.class) /\ Says(o.value, i)
     /\ Gathers(o.origin, i, "origin") /\ Gathers(o.mntby, i, "mnt-by")
  \/ source.format = "riswhois" /\ o = Record("ris", read[i])
  \/ /\ source.format = "rpki_csv" /\ Parses(read[i].prefix)
     /\ \E class \in {"route", "route6"} :
          o = Record(class, PlainRecord(read[i]))

\* The paragraph of line i has not ended.
Open(i) == \A m \in i .. Len(read) : ~Blank(m)

Objects == [class : ClassKeys \cup {"ris"}, value : Seq(Texts) \ {<<>>},
            origin : Seq(Seq(Texts)), mntby : Seq(Seq(Texts))]

Elements(s) == {s[p] : p \in DOMAIN s}

Pending == Elements(objects)

\* The block has, in their order, the attributes named k of the open paragraph.
Holds(k) ==
  \E at \in [DOMAIN attrs[k] -> Nat] :
    /\ \A p \in DOMAIN attrs[k] :
         /\ at[p] \in DOMAIN read /\ Open(at[p]) /\ Attr(at[p], k)
         /\ Says(attrs[k][p], at[p])
    /\ \A p, q \in DOMAIN attrs[k] : p < q => at[p] < at[q]
    /\ \A i \in DOMAIN read : Open(i) /\ Attr(i, k) => \E p \in DOMAIN attrs[k] : at[p] = i

\* lastKey is the key of the last attribute of the open paragraph.
KeepsLast ==
  IF lastKey = NoKey THEN \A i \in DOMAIN read : Open(i) => read[i].is # "attr"
  ELSE \E i \in DOMAIN read :
         /\ Open(i) /\ Attr(i, lastKey)
         /\ \A j \in i + 1 .. Len(read) : read[j].is # "attr"

BlockInv == (\A k \in Keys : Holds(k)) /\ KeepsLast

\* What came of the lines while the file is read.
ParseInv ==
  /\ source.format = "rpsl" => BlockInv
  /\ \A o \in Pending :
       \E i \in DOMAIN read :
         /\ source.format = "rpsl" => ~Open(i)
         /\ Gives(i) /\ Made(o, i)
  /\ \A i \in DOMAIN read :
       (source.format = "rpsl" => ~Open(i)) /\ Gives(i) => \E o \in Pending : Made(o, i)
  /\ rows = {}

\* A range is kept without its prefix; a default route is not.
Ranged(o) == o.class = "inetnum" /\ IsRange(o.value)

Dropped(o) == ~Ranged(o) /\ Net(o.value) \subseteq Defaults

RowFor(o) == RowOf(o, IF Ranged(o) THEN {} ELSE Net(o.value))

\* What came of the objects while they are inserted.
InsertInv ==
  /\ \A o \in Pending : \E i \in DOMAIN read : Gives(i) /\ Made(o, i)
  /\ \A i \in DOMAIN read : Gives(i) =>
       \E o \in Objects : Made(o, i) /\ (o \in Pending \/ Dropped(o) \/ RowFor(o) \in rows)
  /\ \A r \in rows :
       \E o \in Objects, i \in DOMAIN read :
         Gives(i) /\ Made(o, i) /\ ~Dropped(o) /\ r = RowFor(o)

TypeInv ==
  /\ source \in Sources
  /\ pc \in {"parse", "insert", "done", "refused", "unreadable"}
  /\ read \in Seq(Lines) /\ \A i \in DOMAIN read : read[i] \in source.lines
  /\ attrs \in [Keys -> Seq(Seq(Texts) \ {<<>>})]
  /\ lastKey \in Keys \cup {NoKey}
  /\ objects \in Seq(Objects)

\* The other formats have no attributes.
OnlyRecords == source.format # "rpsl" => \A i \in DOMAIN read : read[i].is # "attr"

ImportInv ==
  /\ TypeInv
  /\ pc \in {"parse", "insert", "done"} => OnlyRecords
  /\ pc = "parse" => ParseInv
  /\ pc \in {"insert", "done"} => InsertInv /\ source.format \in Formats
  /\ pc = "done" => objects = <<>>
  /\ RefusedForCause

LEMMA ReadLine ==
  ASSUME TypeInv, NEW i \in DOMAIN read
  PROVE  /\ i \in 1 .. Len(read) /\ i \in Nat /\ Len(read) \in Nat
         /\ DOMAIN read = 1 .. Len(read)
         /\ read[i] \in Lines /\ read[i] \in source.lines
         /\ source.format = "rpsl" => read[i].is \notin {"header", "record"}
<1>1. read \in Seq(Lines) /\ source \in Sources /\ read[i] \in source.lines
  BY DEF TypeInv
<1>2. source.format = "rpsl" => read[i].is \notin {"header", "record"}
  BY <1>1, ImportAssumption DEF ImportAssumption
<1> QED BY <1>1, <1>2

-----------------------------------------------------------------------------
(* A line is added *)

LEMMA LineAdded ==
  ASSUME TypeInv, NEW line \in Lines, read' = Append(read, line)
  PROVE  /\ read' \in Seq(Lines) /\ Len(read') = Len(read) + 1
         /\ DOMAIN read' = DOMAIN read \cup {Len(read) + 1}
         /\ read'[Len(read) + 1] = line
         /\ \A i \in DOMAIN read : read'[i] = read[i]
<1>1. read \in Seq(Lines)
  BY DEF TypeInv
<1> QED BY <1>1

\* All paragraphs but the last are as they were, and so are all values but
\* that of the attribute that is continued.
LEMMA ParagraphAdded ==
  ASSUME TypeInv, NEW line \in Lines, read' = Append(read, line),
         NEW i \in DOMAIN read, NEW N, N = Len(read) + 1
  PROVE  /\ \A k : Attr(i, k)' <=> Attr(i, k)
         /\ Blank(i)' <=> Blank(i)
         /\ Open(i)' <=> Open(i) /\ line.is # "blank"
         /\ \A j \in DOMAIN read : Together(i, j)' <=> Together(i, j)
         /\ Together(i, N)' <=> Open(i)'
<1>1. /\ Len(read') = Len(read) + 1 /\ read'[Len(read) + 1] = line
      /\ \A j \in DOMAIN read : read'[j] = read[j]
  BY LineAdded
<1>2. /\ i \in 1 .. Len(read) /\ Len(read) \in Nat /\ DOMAIN read = 1 .. Len(read)
  BY ReadLine
<1>3. N = Len(read) + 1
  OBVIOUS
<1>4. /\ \A j \in DOMAIN read : Blank(j)' <=> Blank(j)
      /\ Blank(N)' <=> line.is = "blank"
  BY <1>1, <1>3 DEF Blank
<1>5. Open(i)' <=> \A m \in i .. N : ~Blank(m)'
  BY <1>1, <1>3 DEF Open
<1>6. Open(i)' <=> Open(i) /\ line.is # "blank"
  <2>1. \A m : m \in i .. N <=> m \in i .. Len(read) \/ m = N
    BY <1>2, <1>3
  <2>2. \A m \in i .. Len(read) : m \in DOMAIN read
    BY <1>2
  <2> QED BY <1>4, <1>5, <2>1, <2>2 DEF Open
<1>7. ASSUME NEW j \in DOMAIN read
      PROVE  Together(i, j)' <=> Together(i, j)
  <2>1. \A m \in (i .. j) \cup (j .. i) : m \in DOMAIN read
    BY <1>2
  <2> QED BY <1>4, <2>1 DEF Together
<1>8. Together(i, N)' <=> Open(i)'
  <2>1. (i .. N) \cup (N .. i) = i .. N
    BY <1>2, <1>3
  <2>2. Together(i, N)' <=> \A m \in i .. N : ~Blank(m)'
    BY <2>1 DEF Together
  <2> QED BY <1>5, <2>2
<1>9. \A k : Attr(i, k)' <=> Attr(i, k)
  BY <1>1 DEF Attr
<1> QED BY <1>3, <1>4, <1>6, <1>7, <1>8, <1>9

\* Line i is the last attribute there is to continue.
Last(i) == \A m \in i + 1 .. Len(read) : read[m].is \notin {"blank", "attr"}

LEMMA MoreAdded ==
  ASSUME TypeInv, NEW line \in Lines, read' = Append(read, line),
         NEW N, N = Len(read) + 1
  PROVE  /\ \A i \in DOMAIN read :
              /\ ~(line.is = "more" /\ Last(i)) => More(i)' = More(i)
              /\ line.is = "more" /\ Last(i) => More(i)' # {}
         /\ More(N)' = {}
<1>1. /\ Len(read') = Len(read) + 1 /\ read'[Len(read) + 1] = line
      /\ \A j \in DOMAIN read : read'[j] = read[j]
      /\ read \in Seq(Lines) /\ DOMAIN read = 1 .. Len(read) /\ Len(read) \in Nat
  BY LineAdded DEF TypeInv
<1>2. N = Len(read) + 1
  OBVIOUS
<1>3. ASSUME NEW i \in DOMAIN read
      PROVE  /\ ~(line.is = "more" /\ Last(i)) => More(i)' = More(i)
             /\ line.is = "more" /\ Last(i) => More(i)' # {}
  <2>1. i \in 1 .. Len(read) /\ N \in Nat /\ i + 1 .. N = (i + 1 .. Len(read)) \cup {N}
    BY <1>1, <1>2
  <2>2. \A j : j \in More(i)' <=>
          /\ j \in i + 1 .. N /\ read'[j].is = "more"
          /\ \A m \in i + 1 .. j : read'[m].is \notin {"blank", "attr"}
    BY <1>1, <1>2 DEF More
  <2>3. \A j \in i + 1 .. Len(read) : j \in More(i)' <=> j \in More(i)
    <3> SUFFICES ASSUME NEW j \in i + 1 .. Len(read)
                 PROVE  j \in More(i)' <=> j \in More(i)
      OBVIOUS
    <3>1. \A m \in i + 1 .. j : m \in DOMAIN read
      BY <2>1, <1>1
    <3>2. j \in DOMAIN read /\ j \in i + 1 .. N
      BY <2>1, <1>1
    <3>3. \A m \in i + 1 .. j : read'[m] = read[m]
      BY <3>1, <1>1
    <3>4. read'[j] = read[j]
      BY <3>2, <1>1
    <3> QED BY <3>2, <3>3, <3>4, <2>2 DEF More
  <2>4. N \in More(i)' <=> line.is = "more" /\ Last(i)
    <3>1. read'[N] = line /\ N \in i + 1 .. N
      BY <1>1, <1>2, <2>1
    <3>2. \A m \in i + 1 .. Len(read) : read'[m] = read[m]
      BY <1>1, <2>1
    <3>3. (\A m \in i + 1 .. N : read'[m].is \notin {"blank", "attr"})
            <=> Last(i) /\ line.is \notin {"blank", "attr"}
      BY <2>1, <3>1, <3>2 DEF Last
    <3> QED BY <2>2, <3>1, <3>3
  <2>5. \A j \in More(i) : j \in i + 1 .. Len(read)
    BY DEF More
  <2>6. \A j \in More(i)' : j \in i + 1 .. Len(read) \/ j = N
    BY <2>1, <2>2
  <2>7. CASE line.is = "more" /\ Last(i)
    BY <2>7, <2>4
  <2>8. CASE ~(line.is = "more" /\ Last(i))
    <3>1. \A j : j \in More(i)' <=> j \in More(i)
      BY <2>8, <2>3, <2>4, <2>5, <2>6
    <3>2. More(i)' = More(i)
      BY <3>1
    <3> QED BY <2>8, <3>2
  <2> QED BY <2>7, <2>8
<1>4. More(N)' = {}
  <2>1. Len(read)' = N /\ N + 1 .. N = {}
    BY <1>1, <1>2
  <2> QED BY <2>1, <1>2 DEF More
<1> QED BY <1>3, <1>4

LEMMA SaysKept ==
  ASSUME TypeInv, NEW line \in Lines, read' = Append(read, line),
         NEW i \in DOMAIN read, ~(line.is = "more" /\ Last(i)), NEW v
  PROVE  Says(v, i)' <=> Says(v, i)
<1>1. read'[i] = read[i] /\ More(i)' = More(i)
  BY LineAdded, MoreAdded
<1> QED BY <1>1 DEF Says

LEMMA OpenTogether ==
  ASSUME TypeInv, NEW i \in DOMAIN read, Open(i), NEW j \in DOMAIN read
  PROVE  Together(i, j) <=> Open(j)
<1>1. i \in 1 .. Len(read) /\ j \in 1 .. Len(read) /\ Len(read) \in Nat
  BY ReadLine
<1>2. \A m : m \in (i .. j) \cup (j .. i) => m \in i .. Len(read) \/ m \in j .. Len(read)
  BY <1>1
<1>3. \A m \in j .. Len(read) : m \in (i .. j) \cup (j .. i) \/ m \in i .. Len(read)
  BY <1>1
<1> QED BY <1>2, <1>3 DEF Open, Together

\* What was made of a paragraph that has ended, or ends with this line, is
\* still right.
LEMMA MadeKept ==
  ASSUME TypeInv, NEW line \in Lines, read' = Append(read, line), source' = source,
         NEW i \in DOMAIN read, source.format = "rpsl" => ~Open(i)', NEW o
  PROVE  (Gives(i)' <=> Gives(i)) /\ (Made(o, i)' <=> Made(o, i))
<1>1. /\ read'[i] = read[i] /\ DOMAIN read' = DOMAIN read \cup {Len(read) + 1}
  BY LineAdded
<1>2. CASE source.format # "rpsl"
  <2>1. Gives(i)' <=> Gives(i)
    BY <1>1, <1>2 DEF Gives
  <2>2. Made(o, i)' <=> Made(o, i)
    BY <1>1, <1>2 DEF Made, Record, PlainRecord, Parses, AsNumber
  <2> QED BY <2>1, <2>2
<1>3. CASE source.format = "rpsl"
  <2>1. PICK n : n = Len(read) + 1 /\ ~Together(i, n)'
    BY <1>3, ParagraphAdded
  <2>2. \A j \in DOMAIN read : Together(i, j) =>
          ~(line.is = "more" /\ Last(j))
    <3> SUFFICES ASSUME NEW j \in DOMAIN read, Together(i, j), line.is = "more", Last(j)
                 PROVE  FALSE
      OBVIOUS
    <3>1. ~Open(i)
      BY <1>3, ParagraphAdded
    <3>2. PICK m \in i .. Len(read) : Blank(m)
      BY <3>1 DEF Open
    <3>3. i \in 1 .. Len(read) /\ j \in 1 .. Len(read) /\ Len(read) \in Nat
      BY ReadLine
    <3>4. m \notin (i .. j) \cup (j .. i)
      BY <3>2 DEF Together
    <3>5. m \in j + 1 .. Len(read)
      BY <3>3, <3>4
    <3> QED BY <3>2, <3>5 DEF Last, Blank
  <2>3. \A j \in DOMAIN read : Together(i, j)' <=> Together(i, j)
    BY ParagraphAdded
  <2>4. \A j \in DOMAIN read : \A k : Attr(j, k)' <=> Attr(j, k)
    BY ParagraphAdded
  <2>5. \A j \in DOMAIN read : \A v : Together(i, j) => (Says(v, j)' <=> Says(v, j))
    BY <2>2, SaysKept
  <2>6. Together(i, i)' => Together(i, i)
    BY <2>3
  <2>7. \A k : \A vs : Gathers(vs, i, k)' <=> Gathers(vs, i, k)
    <3> SUFFICES ASSUME NEW k, NEW vs
                 PROVE  Gathers(vs, i, k)' <=> Gathers(vs, i, k)
      OBVIOUS
    <3>1. Gathers(vs, i, k)' <=>
            /\ vs \in Seq(Seq(Texts))
            /\ \A p \in DOMAIN vs :
                 \E j \in DOMAIN read' : Together(i, j)' /\ Attr(j, k)' /\ Says(vs[p], j)'
            /\ \A j \in DOMAIN read' : Together(i, j)' /\ Attr(j, k)' =>
                 \E p \in DOMAIN vs : Says(vs[p], j)'
      BY DEF Gathers
    <3>2. \A j \in DOMAIN read' : Together(i, j)' => j \in DOMAIN read /\ Together(i, j)
      BY <1>1, <2>1, <2>3
    <3>3. \A j \in DOMAIN read : j \in DOMAIN read'
      BY <1>1
    <3>4. (\A p \in DOMAIN vs :
             \E j \in DOMAIN read' : Together(i, j)' /\ Attr(j, k)' /\ Says(vs[p], j)')
          <=> (\A p \in DOMAIN vs :
                 \E j \in DOMAIN read : Together(i, j) /\ Attr(j, k) /\ Says(vs[p], j))
      BY <3>2, <3>3, <2>3, <2>4, <2>5
    <3>5. (\A j \in DOMAIN read' : Together(i, j)' /\ Attr(j, k)' =>
             \E p \in DOMAIN vs : Says(vs[p], j)')
          <=> (\A j \in DOMAIN read : Together(i, j) /\ Attr(j, k) =>
                 \E p \in DOMAIN vs : Says(vs[p], j))
      BY <3>2, <3>3, <2>3, <2>4, <2>5
    <3> QED BY <3>1, <3>4, <3>5 DEF Gathers
  <2>8. Gives(i)' <=> Gives(i)
    <3>1. Gives(i) <=> ClassLine(i)
      BY <1>3 DEF Gives
    <3>2. Gives(i)' <=> \E c \in 1 .. 4 :
            /\ Attr(i, Classes[c])'
            /\ \A j \in DOMAIN read' : Together(i, j)' =>
                 /\ Attr(j, Classes[c])' => i <= j
                 /\ \A d \in 1 .. c - 1 : ~Attr(j, Classes[d])'
      BY <1>3 DEF Gives, ClassLine, Classes
    <3>3. \A c \in 1 .. 4 :
            (\A j \in DOMAIN read' : Together(i, j)' =>
                 /\ Attr(j, Classes[c])' => i <= j
                 /\ \A d \in 1 .. c - 1 : ~Attr(j, Classes[d])')
            <=> (\A j \in DOMAIN read : Together(i, j) =>
                   /\ Attr(j, Classes[c]) => i <= j
                   /\ \A d \in 1 .. c - 1 : ~Attr(j, Classes[d]))
      BY <1>1, <2>1, <2>3, <2>4
    <3> QED BY <3>1, <3>2, <3>3, <2>4 DEF ClassLine
  <2>9. Together(i, i) \/ Blank(i)
    <3>1. i \in 1 .. Len(read) /\ Len(read) \in Nat
      BY ReadLine
    <3>2. \A m \in (i .. i) \cup (i .. i) : m = i
      BY <3>1
    <3> QED BY <3>2 DEF Together
  <2>10. Made(o, i)' <=> Made(o, i)
    <3>1. Made(o, i) <=> /\ Attr(i, o.class) /\ Says(o.value, i)
                         /\ Gathers(o.origin, i, "origin") /\ Gathers(o.mntby, i, "mnt-by")
      BY <1>3 DEF Made
    <3>2. Made(o, i)' <=> /\ Attr(i, o.class)' /\ Says(o.value, i)'
                          /\ Gathers(o.origin, i, "origin")' /\ Gathers(o.mntby, i, "mnt-by")'
      BY <1>3 DEF Made
    <3>3. Attr(i, o.class) => Together(i, i)
      BY <2>9 DEF Attr, Blank
    <3> QED BY <3>1, <3>2, <3>3, <2>4, <2>5, <2>7
  <2> QED BY <2>8, <2>10
<1> QED BY <1>2, <1>3

-----------------------------------------------------------------------------
(* The block of an RPSL file *)

LEMMA BlockValues ==
  ASSUME TypeInv, NEW k \in Keys
  PROVE  /\ attrs[k] \in Seq(Seq(Texts)) /\ DOMAIN attrs[k] = 1 .. Len(attrs[k])
         /\ Len(attrs[k]) \in Nat
         /\ \A p \in DOMAIN attrs[k] : attrs[k][p] \in Seq(Texts) /\ attrs[k][p] # <<>>
<1>1. attrs[k] \in Seq(Seq(Texts) \ {<<>>})
  BY DEF TypeInv
<1>2. DOMAIN attrs[k] = 1 .. Len(attrs[k]) /\ Len(attrs[k]) \in Nat
  BY <1>1
<1>3. \A p \in DOMAIN attrs[k] : attrs[k][p] \in Seq(Texts) \ {<<>>}
  BY <1>1, <1>2
<1>4. attrs[k] \in Seq(Seq(Texts))
  BY <1>1
<1> QED BY <1>2, <1>3, <1>4

\* A line that is no attribute of this key and continues none leaves them alone.
LEMMA HoldsKept ==
  ASSUME TypeInv, NEW line \in Lines, read' = Append(read, line), NEW k \in Keys,
         attrs'[k] = attrs[k], line.is # "blank", ~(line.is = "attr" /\ line.key = k),
         \A i \in DOMAIN read : Open(i) /\ Attr(i, k) => ~(line.is = "more" /\ Last(i)),
         Holds(k)
  PROVE  Holds(k)'
<1>1. PICK at \in [DOMAIN attrs[k] -> Nat] :
        /\ \A p \in DOMAIN attrs[k] :
             /\ at[p] \in DOMAIN read /\ Open(at[p]) /\ Attr(at[p], k)
             /\ Says(attrs[k][p], at[p])
        /\ \A p, q \in DOMAIN attrs[k] : p < q => at[p] < at[q]
        /\ \A i \in DOMAIN read : Open(i) /\ Attr(i, k) =>
             \E p \in DOMAIN attrs[k] : at[p] = i
  BY DEF Holds
<1>2. PICK vs : vs = attrs[k]
  OBVIOUS
<1>3. ASSUME NEW p \in DOMAIN vs
      PROVE  /\ at[p] \in DOMAIN read' /\ Open(at[p])' /\ Attr(at[p], k)'
             /\ Says(vs[p], at[p])'
  <2>1. PICK i : i = at[p]
    OBVIOUS
  <2>2. i \in DOMAIN read /\ Open(i) /\ Attr(i, k) /\ Says(vs[p], i)
    BY <1>1, <1>2, <2>1
  <2>3. i \in DOMAIN read' /\ Open(i)' /\ Attr(i, k)'
    BY <2>2, LineAdded, ParagraphAdded
  <2>4. PICK v : v = vs[p]
    OBVIOUS
  <2>5. Says(v, i)'
    BY <2>2, <2>4, SaysKept
  <2> QED BY <2>1, <2>3, <2>4, <2>5
<1>4. ASSUME NEW i \in DOMAIN read', Open(i)', Attr(i, k)'
      PROVE  \E p \in DOMAIN vs : at[p] = i
  <2>1. i \in DOMAIN read
    BY <1>4, LineAdded DEF Attr
  <2>2. Open(i) /\ Attr(i, k)
    BY <1>4, <2>1, ParagraphAdded
  <2> QED BY <2>1, <2>2, <1>1, <1>2
<1>5. attrs'[k] = vs
  BY <1>2
<1>6. at \in [DOMAIN vs -> Nat] /\ \A p, q \in DOMAIN vs : p < q => at[p] < at[q]
  BY <1>1, <1>2
<1> QED BY <1>3, <1>4, <1>5, <1>6 DEF Holds

LEMMA AttrAdded ==
  ASSUME TypeInv, NEW line \in Lines, read' = Append(read, line), line.is = "attr",
         attrs' = [attrs EXCEPT ![line.key] = Append(@, <<line.text>>)],
         lastKey' = line.key, BlockInv
  PROVE  BlockInv'
<1>1. line.key \in Keys /\ line.text \in Texts
  BY LineFields
<1>2. /\ read \in Seq(Lines) /\ DOMAIN read = 1 .. Len(read) /\ Len(read) \in Nat
      /\ attrs \in [Keys -> Seq(Seq(Texts) \ {<<>>})]
  BY DEF TypeInv
<1>3. PICK N : N = Len(read) + 1
  OBVIOUS
<1>4. /\ DOMAIN read' = DOMAIN read \cup {N} /\ read'[N] = line /\ Len(read') = N
      /\ N \in DOMAIN read' /\ N \in Nat
  BY LineAdded, <1>2, <1>3
<1>5. Attr(N, line.key)' /\ Open(N)'
  <2>1. \A m \in N .. Len(read') : m = N
    BY <1>4
  <2>2. Attr(N, line.key)'
    BY <1>4 DEF Attr
  <2>3. Open(N)'
    BY <1>4, <2>1 DEF Open, Blank
  <2> QED BY <2>2, <2>3
<1>6. ASSUME NEW k \in Keys
      PROVE  Holds(k)'
  <2>1. CASE k # line.key
    <3>1. attrs'[k] = attrs[k]
      BY <1>2, <2>1
    <3> QED BY <3>1, <2>1, HoldsKept DEF BlockInv
  <2>2. CASE k = line.key
    <3>1. PICK at \in [DOMAIN attrs[k] -> Nat] :
            /\ \A p \in DOMAIN attrs[k] :
                 /\ at[p] \in DOMAIN read /\ Open(at[p]) /\ Attr(at[p], k)
                 /\ Says(attrs[k][p], at[p])
            /\ \A p, q \in DOMAIN attrs[k] : p < q => at[p] < at[q]
            /\ \A i \in DOMAIN read : Open(i) /\ Attr(i, k) =>
                 \E p \in DOMAIN attrs[k] : at[p] = i
      BY DEF BlockInv, Holds
    <3>2. PICK vs, n : vs = attrs[k] /\ n = Len(vs)
      OBVIOUS
    <3>3. vs \in Seq(Seq(Texts)) /\ n \in Nat /\ DOMAIN vs = 1 .. n
      BY <3>2, BlockValues
    <3>4. PICK w : w = attrs'[k]
      OBVIOUS
    <3>5. w = Append(vs, <<line.text>>)
      BY <1>1, <1>2, <2>2, <3>2, <3>4
    <3>6. /\ DOMAIN w = 1 .. n + 1 /\ w[n + 1] = <<line.text>>
          /\ \A p \in 1 .. n : w[p] = vs[p]
      BY <1>1, <3>2, <3>3, <3>5
    <3> DEFINE to == [p \in 1 .. n + 1 |-> IF p = n + 1 THEN N ELSE at[p]]
    <3>7. to \in [DOMAIN w -> Nat]
      BY <3>1, <3>2, <3>3, <3>6, <1>4
    <3>8. ASSUME NEW p \in DOMAIN w
          PROVE  /\ to[p] \in DOMAIN read' /\ Open(to[p])' /\ Attr(to[p], k)'
                 /\ Says(w[p], to[p])'
      <4>1. PICK i, v : i = to[p] /\ v = w[p]
        OBVIOUS
      <4>2. CASE p = n + 1
        <5>1. i = N /\ v = <<line.text>>
          BY <4>1, <4>2, <3>6
        <5>2. More(N)' = {}
          BY <1>3, MoreAdded
        <5>3. v \in Seq(Texts) /\ v # <<>> /\ v[1] = line.text /\ Len(v) = 1
          BY <5>1, <1>1
        <5>4. Says(v, i)'
          BY <5>1, <5>2, <5>3, <1>4 DEF Says
        <5>5. i \in DOMAIN read' /\ Open(i)' /\ Attr(i, k)'
          BY <5>1, <1>4, <1>5, <2>2
        <5> QED BY <4>1, <5>4, <5>5
      <4>3. CASE p # n + 1
        <5>1. p \in 1 .. n /\ i = at[p] /\ v = vs[p]
          BY <4>1, <4>3, <3>3, <3>6
        <5>2. i \in DOMAIN read /\ Open(i) /\ Attr(i, k) /\ Says(v, i)
          BY <5>1, <3>1, <3>2, <3>3
        <5>3. i \in DOMAIN read' /\ Open(i)' /\ Attr(i, k)'
          BY <5>2, <1>4, ParagraphAdded
        <5>4. Says(v, i)'
          BY <5>2, SaysKept
        <5> QED BY <4>1, <5>3, <5>4
      <4> QED BY <4>2, <4>3
    <3>9. ASSUME NEW p \in DOMAIN w, NEW q \in DOMAIN w, p < q
          PROVE  to[p] < to[q]
      <4>1. p \in 1 .. n /\ to[p] = at[p] /\ at[p] \in 1 .. Len(read)
        BY <3>9, <3>1, <3>2, <3>3, <3>6, <1>2
      <4>2. CASE q = n + 1
        BY <4>1, <4>2, <1>2, <1>3, <3>6
      <4>3. CASE q # n + 1
        <5>1. q \in 1 .. n /\ to[q] = at[q]
          BY <4>3, <3>3, <3>6, SMTT(20)
        <5> QED BY <5>1, <4>1, <3>1, <3>2, <3>3, <3>9
      <4> QED BY <4>2, <4>3
    <3>10. ASSUME NEW i \in DOMAIN read', Open(i)', Attr(i, k)'
           PROVE  \E p \in DOMAIN w : to[p] = i
      <4>1. CASE i = N
        <5>1. n + 1 \in DOMAIN w /\ to[n + 1] = N
          BY <3>3, <3>6
        <5> QED BY <5>1, <4>1
      <4>2. CASE i # N
        <5>1. i \in DOMAIN read /\ Open(i) /\ Attr(i, k)
          BY <3>10, <4>2, <1>4, ParagraphAdded
        <5>2. PICK p \in 1 .. n : at[p] = i
          BY <5>1, <3>1, <3>2, <3>3
        <5>3. p \in DOMAIN w /\ to[p] = i
          BY <5>2, <3>3, <3>6
        <5> QED BY <5>3
      <4> QED BY <4>1, <4>2
    <3> HIDE DEF to
    <3> QED BY <3>4, <3>7, <3>8, <3>9, <3>10 DEF Holds
  <2> QED BY <2>1, <2>2
<1>7. KeepsLast'
  <2>1. N + 1 .. Len(read') = {}
    BY <1>4
  <2>2. lastKey' # NoKey
    BY <1>1, ImportAssumption DEF ImportAssumption
  <2> QED BY <2>1, <2>2, <1>4, <1>5 DEF KeepsLast
<1> QED BY <1>6, <1>7 DEF BlockInv

LEMMA AttrContinued ==
  ASSUME TypeInv, NEW line \in Lines, read' = Append(read, line), line.is = "more",
         lastKey # NoKey, UNCHANGED lastKey,
         attrs' = [attrs EXCEPT ![lastKey][Len(attrs[lastKey])] = Append(@, line.text)],
         BlockInv
  PROVE  BlockInv'
<1>1. line.text \in Texts /\ lastKey \in Keys
  BY LineFields DEF TypeInv
<1>2. /\ read \in Seq(Lines) /\ DOMAIN read = 1 .. Len(read) /\ Len(read) \in Nat
      /\ attrs \in [Keys -> Seq(Seq(Texts) \ {<<>>})]
  BY DEF TypeInv
<1>3. PICK N : N = Len(read) + 1
  OBVIOUS
<1>4. /\ DOMAIN read' = DOMAIN read \cup {N} /\ read'[N] = line /\ Len(read') = N
  BY LineAdded, <1>3
<1>5. PICK l \in DOMAIN read : /\ Open(l) /\ Attr(l, lastKey)
                               /\ \A j \in l + 1 .. Len(read) : read[j].is # "attr"
  BY DEF BlockInv, KeepsLast
<1>6. Last(l)
  <2>1. \A j \in l + 1 .. Len(read) : j \in l .. Len(read)
    BY <1>2
  <2> QED BY <1>5, <2>1 DEF Last, Open, Blank
<1>7. \A i \in DOMAIN read : read[i].is = "attr" => i <= l /\ (Last(i) => i = l)
  <2> SUFFICES ASSUME NEW i \in DOMAIN read, read[i].is = "attr"
               PROVE  i <= l /\ (Last(i) => i = l)
    OBVIOUS
  <2>1. i <= l
    BY <1>2, <1>5
  <2>2. i < l => ~Last(i)
    <3>1. read[l].is = "attr" /\ (i < l => l \in i + 1 .. Len(read))
      BY <1>2, <1>5 DEF Attr
    <3> QED BY <3>1 DEF Last
  <2> QED BY <2>1, <2>2, <1>2
<1>8. PICK n : n = Len(attrs[lastKey])
  OBVIOUS
<1>9. attrs' = [attrs EXCEPT ![lastKey] =
                   [attrs[lastKey] EXCEPT ![n] = Append(@, line.text)]]
  BY <1>8
<1>10. ASSUME NEW k \in Keys
       PROVE  Holds(k)'
  <2>1. CASE k # lastKey
    <3>1. attrs'[k] = attrs[k]
      BY <1>2, <1>9, <2>1
    <3>2. \A i \in DOMAIN read : Attr(i, k) => ~Last(i)
      BY <1>5, <1>7, <2>1 DEF Attr
    <3> QED BY <3>1, <3>2, HoldsKept DEF BlockInv
  <2>2. CASE k = lastKey
    <3>1. PICK at \in [DOMAIN attrs[k] -> Nat] :
            /\ \A p \in DOMAIN attrs[k] :
                 /\ at[p] \in DOMAIN read /\ Open(at[p]) /\ Attr(at[p], k)
                 /\ Says(attrs[k][p], at[p])
            /\ \A p, q \in DOMAIN attrs[k] : p < q => at[p] < at[q]
            /\ \A i \in DOMAIN read : Open(i) /\ Attr(i, k) =>
                 \E p \in DOMAIN attrs[k] : at[p] = i
      BY DEF BlockInv, Holds
    <3>2. PICK vs : vs = attrs[k]
      OBVIOUS
    <3>3. /\ vs \in Seq(Seq(Texts)) /\ n \in Nat /\ DOMAIN vs = 1 .. n
          /\ \A p \in 1 .. n : vs[p] \in Seq(Texts) /\ vs[p] # <<>>
      BY <3>2, <1>8, <2>2, BlockValues
    <3>4. n \in 1 .. n /\ at[n] = l
      <4>1. PICK p \in 1 .. n : at[p] = l
        BY <1>5, <2>2, <3>1, <3>2, <3>3
      <4>2. n \in DOMAIN vs /\ at[n] \in DOMAIN read /\ read[at[n]].is = "attr"
        BY <3>1, <3>2, <3>3, <4>1 DEF Attr
      <4>3. at[n] <= l
        BY <4>2, <1>7
      <4>4. p < n => at[p] < at[n]
        BY <3>1, <3>2, <3>3, <4>2
      <4> QED BY <4>1, <4>2, <4>3, <4>4, <1>2, <3>3
    <3>5. PICK w : w = attrs'[k]
      OBVIOUS
    <3>6. w = [vs EXCEPT ![n] = Append(@, line.text)]
      BY <1>2, <1>9, <2>2, <3>2, <3>5
    <3>7. /\ DOMAIN w = DOMAIN vs /\ w[n] = Append(vs[n], line.text)
          /\ \A p \in 1 .. n - 1 : w[p] = vs[p]
      BY <3>3, <3>4, <3>6
    <3>8. ASSUME NEW p \in DOMAIN w
          PROVE  /\ at[p] \in DOMAIN read' /\ Open(at[p])' /\ Attr(at[p], k)'
                 /\ Says(w[p], at[p])'
      <4>1. PICK i, v, u : i = at[p] /\ v = w[p] /\ u = vs[p]
        OBVIOUS
      <4>2. i \in DOMAIN read /\ Open(i) /\ Attr(i, k) /\ Says(u, i)
        BY <4>1, <3>1, <3>2, <3>7
      <4>3. i \in DOMAIN read' /\ Open(i)' /\ Attr(i, k)'
        BY <4>2, <1>4, ParagraphAdded
      <4>4. CASE p = n
        <5>1. i = l /\ u \in Seq(Texts) /\ u # <<>> /\ v = Append(u, line.text)
          BY <4>1, <4>4, <3>3, <3>4, <3>7
        <5>2. v \in Seq(Texts) /\ v # <<>> /\ v[1] = u[1] /\ Len(v) # 1
          BY <5>1, <1>1
        <5>3. More(i)' # {} /\ read'[i] = read[i]
          BY <5>1, <1>6, <4>2, MoreAdded, LineAdded
        <5>4. Says(v, i)'
          BY <5>2, <5>3, <4>2 DEF Says
        <5> QED BY <4>1, <4>3, <5>4
      <4>5. CASE p # n
        <5>1. p \in 1 .. n - 1 /\ v = u
          BY <4>1, <4>5, <3>3, <3>7
        <5>2. i < l
          BY <5>1, <4>1, <3>1, <3>2, <3>3, <3>4
        <5>3. ~Last(i)
          BY <5>2, <4>2, <1>2, <1>7 DEF Attr
        <5>4. Says(v, i)'
          BY <5>1, <5>3, <4>2, SaysKept
        <5> QED BY <4>1, <4>3, <5>4
      <4> QED BY <4>4, <4>5
    <3>9. ASSUME NEW i \in DOMAIN read', Open(i)', Attr(i, k)'
          PROVE  \E p \in DOMAIN w : at[p] = i
      <4>1. i \in DOMAIN read
        BY <3>9, <1>4 DEF Attr
      <4>2. Open(i) /\ Attr(i, k)
        BY <3>9, <4>1, ParagraphAdded
      <4> QED BY <4>1, <4>2, <3>1, <3>2, <3>7
    <3>10. at \in [DOMAIN w -> Nat] /\ \A p, q \in DOMAIN w : p < q => at[p] < at[q]
      BY <3>1, <3>2, <3>7
    <3> QED BY <3>5, <3>8, <3>9, <3>10 DEF Holds
  <2> QED BY <2>1, <2>2
<1>11. KeepsLast'
  <2>1. Open(l)' /\ Attr(l, lastKey)'
    <3>1. PICK k : k = lastKey
      OBVIOUS
    <3>2. Open(l)' /\ Attr(l, k)'
      BY <3>1, <1>5, ParagraphAdded
    <3>3. k' = lastKey'
      BY <3>1
    <3> QED BY <3>1, <3>2 DEF Attr
  <2>2. \A j \in l + 1 .. Len(read') : read'[j].is # "attr"
    <3>1. \A j \in l + 1 .. N : j = N \/ j \in l + 1 .. Len(read)
      BY <1>2, <1>3
    <3>2. \A j \in l + 1 .. Len(read) : read'[j] = read[j]
      BY <1>2, LineAdded
    <3> QED BY <3>1, <3>2, <1>4, <1>5
  <2> QED BY <2>1, <2>2, <1>4 DEF KeepsLast
<1> QED BY <1>10, <1>11 DEF BlockInv

\* A comment, a line without a colon, or one that has nothing to continue.
LEMMA LineIgnored ==
  ASSUME TypeInv, NEW line \in Lines, read' = Append(read, line),
         line.is \notin {"blank", "attr"}, line.is = "more" => lastKey = NoKey,
         UNCHANGED <<attrs, lastKey>>, BlockInv
  PROVE  BlockInv'
<1>1. /\ read \in Seq(Lines) /\ DOMAIN read = 1 .. Len(read) /\ Len(read) \in Nat
  BY DEF TypeInv
<1>2. PICK N : N = Len(read) + 1
  OBVIOUS
<1>3. /\ DOMAIN read' = DOMAIN read \cup {N} /\ read'[N] = line /\ Len(read') = N
      /\ \A i \in DOMAIN read : read'[i] = read[i]
  BY LineAdded, <1>2
<1>4. \A k \in Keys : Holds(k)'
  <2> SUFFICES ASSUME NEW k \in Keys PROVE Holds(k)'
    OBVIOUS
  <2>1. \A i \in DOMAIN read : Open(i) /\ Attr(i, k) => line.is # "more"
    BY DEF BlockInv, KeepsLast, Attr
  <2> QED BY <2>1, HoldsKept DEF BlockInv
<1>5. KeepsLast'
  <2>1. CASE lastKey = NoKey
    <3>1. \A i \in DOMAIN read' : Open(i)' => read'[i].is # "attr"
      BY <2>1, <1>3, ParagraphAdded DEF BlockInv, KeepsLast
    <3> QED BY <2>1, <3>1 DEF KeepsLast
  <2>2. CASE lastKey # NoKey
    <3>1. PICK l \in DOMAIN read :
            /\ Open(l) /\ Attr(l, lastKey)
            /\ \A j \in l + 1 .. Len(read) : read[j].is # "attr"
      BY <2>2 DEF BlockInv, KeepsLast
    <3>2. Open(l)'
      BY <3>1, ParagraphAdded
    <3>3. Attr(l, lastKey)'
      BY <3>1, <1>3 DEF Attr
    <3>4. \A j \in l + 1 .. Len(read') : read'[j].is # "attr"
      <4>1. \A j \in l + 1 .. N : j = N \/ (j \in l + 1 .. Len(read) /\ j \in DOMAIN read)
        BY <1>1, <1>2
      <4> QED BY <4>1, <1>3, <3>1
    <3> QED BY <2>2, <3>2, <3>3, <3>4, <1>3 DEF KeepsLast
  <2> QED BY <2>1, <2>2
<1> QED BY <1>4, <1>5 DEF BlockInv

LEMMA BlockEnded ==
  ASSUME TypeInv, NEW line \in Lines, read' = Append(read, line), line.is = "blank",
         attrs' = NoAttrs, lastKey' = NoKey
  PROVE  BlockInv' /\ \A i \in DOMAIN read' : ~Open(i)'
<1>1. /\ read \in Seq(Lines) /\ DOMAIN read = 1 .. Len(read) /\ Len(read) \in Nat
  BY DEF TypeInv
<1>2. PICK N : N = Len(read) + 1
  OBVIOUS
<1>3. DOMAIN read' = DOMAIN read \cup {N} /\ read'[N] = line /\ Len(read') = N
  BY LineAdded, <1>2
<1>4. \A i \in DOMAIN read' : ~Open(i)'
  <2> SUFFICES ASSUME NEW i \in DOMAIN read' PROVE ~Open(i)'
    OBVIOUS
  <2>1. N \in i .. Len(read')
    BY <1>1, <1>2, <1>3
  <2>2. Blank(N)'
    BY <1>3 DEF Blank
  <2> QED BY <2>1, <2>2 DEF Open
<1>5. ASSUME NEW k \in Keys
      PROVE  Holds(k)'
  <2>1. attrs'[k] = <<>> /\ DOMAIN attrs'[k] = {}
    BY DEF NoAttrs
  <2>2. [x \in {} |-> 0] \in [{} -> Nat]
    OBVIOUS
  <2> QED BY <1>4, <2>1, <2>2 DEF Holds
<1> QED BY <1>4, <1>5 DEF BlockInv, KeepsLast

-----------------------------------------------------------------------------
(* The object of a paragraph *)

LEMMA ElementsAppended ==
  ASSUME NEW S, NEW s \in Seq(S), NEW e \in S
  PROVE  Elements(Append(s, e)) = Elements(s) \cup {e}
<1>1. PICK t : t = Append(s, e)
  OBVIOUS
<1>2. /\ DOMAIN t = 1 .. Len(s) + 1 /\ t[Len(s) + 1] = e /\ Len(s) \in Nat
      /\ \A p \in 1 .. Len(s) : t[p] = s[p]
      /\ DOMAIN s = 1 .. Len(s)
  BY <1>1
<1>3. \A x : x \in Elements(t) <=> \E p \in 1 .. Len(s) + 1 : t[p] = x
  BY <1>2 DEF Elements
<1>4. \A x : x \in Elements(s) <=> \E p \in 1 .. Len(s) : s[p] = x
  BY <1>2 DEF Elements
<1>5. \A p : p \in 1 .. Len(s) + 1 <=> p \in 1 .. Len(s) \/ p = Len(s) + 1
  BY <1>2
<1>6. \A x : x \in Elements(t) <=> x \in Elements(s) \/ x = e
  BY <1>2, <1>3, <1>4, <1>5
<1> QED BY <1>1, <1>6

LEMMA HeadOut ==
  ASSUME NEW S, NEW s \in Seq(S), s # <<>>
  PROVE  /\ Tail(s) \in Seq(S) /\ Head(s) \in S
         /\ Elements(s) = {Head(s)} \cup Elements(Tail(s))
<1>1. Tail(s) \in Seq(S) /\ Head(s) \in S
  BY HeadTailProperties
<1>2. PICK t, n : t = Tail(s) /\ n = Len(s)
  OBVIOUS
<1>3. /\ n \in Nat \ {0} /\ DOMAIN s = 1 .. n /\ DOMAIN t = 1 .. n - 1
      /\ \A p \in 1 .. n - 1 : t[p] = s[p + 1]
      /\ Head(s) = s[1]
  BY <1>2
<1>4. \A x : x \in Elements(t) <=> \E p \in 1 .. n - 1 : s[p + 1] = x
  BY <1>3 DEF Elements
<1>5. \A x : x \in Elements(s) <=> \E p \in 1 .. n : s[p] = x
  BY <1>3 DEF Elements
<1>6. \A p \in 1 .. n : p = 1 \/ (p - 1 \in 1 .. n - 1 /\ (p - 1) + 1 = p)
  BY <1>3
<1>7. \A p \in 1 .. n - 1 : p + 1 \in 1 .. n
  BY <1>3
<1>8. 1 \in 1 .. n
  BY <1>3
<1>9. ASSUME NEW x
      PROVE  x \in Elements(s) <=> x = Head(s) \/ x \in Elements(t)
  <2>1. ASSUME x \in Elements(s)
        PROVE  x = Head(s) \/ x \in Elements(t)
    <3>1. PICK p \in 1 .. n : s[p] = x
      BY <2>1, <1>5
    <3>2. CASE p = 1
      BY <3>1, <3>2, <1>3
    <3>3. CASE p # 1
      BY <3>1, <3>3, <1>4, <1>6
    <3> QED BY <3>2, <3>3
  <2>2. x \in Elements(t) => x \in Elements(s)
    BY <1>4, <1>5, <1>7
  <2>3. x = Head(s) => x \in Elements(s)
    BY <1>3, <1>5, <1>8
  <2> QED BY <2>1, <2>2, <2>3
<1> QED BY <1>1, <1>2, <1>9

LEMMA ClassOfBlock ==
  ASSUME \E k \in ClassKeys : attrs[k] # <<>>
  PROVE  \E c \in 1 .. 4 :
           /\ ClassOf(attrs) = Classes[c] /\ attrs[Classes[c]] # <<>>
           /\ \A d \in 1 .. c - 1 : attrs[Classes[d]] = <<>>
<1> DEFINE First(c) == /\ attrs[Classes[c]] # <<>>
                       /\ \A d \in 1 .. c - 1 : attrs[Classes[d]] = <<>>
<1>1. PICK e \in 1 .. 4 : attrs[Classes[e]] # <<>>
  BY DEF ClassKeys
<1>2. \E c \in 1 .. 4 : First(c)
  <2>1. First(1) \/ attrs[Classes[1]] = <<>>
    OBVIOUS
  <2>2. First(2) \/ attrs[Classes[1]] # <<>> \/ attrs[Classes[2]] = <<>>
    OBVIOUS
  <2>3. \/ First(3) \/ attrs[Classes[1]] # <<>> \/ attrs[Classes[2]] # <<>>
        \/ attrs[Classes[3]] = <<>>
    OBVIOUS
  <2>4. \/ First(4) \/ attrs[Classes[1]] # <<>> \/ attrs[Classes[2]] # <<>>
        \/ attrs[Classes[3]] # <<>> \/ attrs[Classes[4]] = <<>>
    OBVIOUS
  <2>5. e \in {1, 2, 3, 4}
    OBVIOUS
  <2> HIDE DEF First
  <2> QED BY <2>1, <2>2, <2>3, <2>4, <2>5, <1>1
<1>3. PICK c : c = CHOOSE x \in 1 .. 4 : First(x)
  OBVIOUS
<1>4. c \in 1 .. 4 /\ First(c)
  BY <1>2, <1>3
<1>5. ClassOf(attrs) = Classes[c]
  BY <1>3 DEF ClassOf
<1> QED BY <1>4, <1>5

LEMMA ClassesAreKeys ==
  /\ \A c \in 1 .. 4 : Classes[c] \in ClassKeys /\ Classes[c] \in Keys
  /\ \A k \in ClassKeys : k \in Keys /\ \E c \in 1 .. 4 : k = Classes[c]
  /\ "origin" \in Keys /\ "mnt-by" \in Keys /\ "inetnum" \in Keys /\ "ris" \notin Keys
  /\ "route" \in ClassKeys /\ "route6" \in ClassKeys
<1>1. \A c \in 1 .. 4 : Classes[c] \in ClassKeys
  BY DEF ClassKeys
<1>2. \A k \in ClassKeys : k \in Keys /\ \E c \in 1 .. 4 : k = Classes[c]
  BY DEF ClassKeys, Keys
<1>3. ClassKeys = {"route", "route6", "inetnum", "inet6num"}
  <2>1. \A k : k \in ClassKeys <=> \E c \in {1, 2, 3, 4} : k = Classes[c]
    BY DEF ClassKeys
  <2>2. \A k : k \in ClassKeys <=> k \in {"route", "route6", "inetnum", "inet6num"}
    BY <2>1 DEF Classes
  <2> QED BY <2>2
<1> QED BY <1>1, <1>2, <1>3 DEF Keys

\* The values of a key are what the lines of the open paragraph say.
LEMMA BlockGathers ==
  ASSUME TypeInv, BlockInv, NEW l \in DOMAIN read, Open(l), NEW k \in Keys
  PROVE  Gathers(attrs[k], l, k)
<1>1. PICK at \in [DOMAIN attrs[k] -> Nat] :
        /\ \A p \in DOMAIN attrs[k] :
             /\ at[p] \in DOMAIN read /\ Open(at[p]) /\ Attr(at[p], k)
             /\ Says(attrs[k][p], at[p])
        /\ \A i \in DOMAIN read : Open(i) /\ Attr(i, k) =>
             \E p \in DOMAIN attrs[k] : at[p] = i
  BY DEF BlockInv, Holds
<1>2. \A p \in DOMAIN attrs[k] : Together(l, at[p])
  BY <1>1, OpenTogether
<1>3. \A j \in DOMAIN read : Together(l, j) => Open(j)
  BY OpenTogether
<1>4. attrs[k] \in Seq(Seq(Texts))
  BY BlockValues
<1>5. \A p \in DOMAIN attrs[k] :
        \E j \in DOMAIN read : Together(l, j) /\ Attr(j, k) /\ Says(attrs[k][p], j)
  BY <1>1, <1>2
<1>6. \A j \in DOMAIN read : Together(l, j) /\ Attr(j, k) =>
        \E p \in DOMAIN attrs[k] : Says(attrs[k][p], j)
  BY <1>1, <1>3
<1> QED BY <1>4, <1>5, <1>6 DEF Gathers

LEMMA FlushedMade ==
  ASSUME TypeInv, BlockInv, source.format = "rpsl"
  PROVE  /\ Flushed \in Seq(Objects) /\ Pending \subseteq Elements(Flushed)
         /\ \A o \in Elements(Flushed) : o \in Pending \/
              \E i \in DOMAIN read : Open(i) /\ Gives(i) /\ Made(o, i)
         /\ \A i \in DOMAIN read : Open(i) /\ Gives(i) =>
              \E o \in Elements(Flushed) : Made(o, i)
<1>1. objects \in Seq(Objects)
  BY DEF TypeInv
<1>2. CASE \A k \in ClassKeys : attrs[k] = <<>>
  <2>1. Flushed = objects
    BY <1>2 DEF Flushed
  <2>2. ASSUME NEW i \in DOMAIN read, Open(i), Gives(i)
        PROVE  FALSE
    <3>1. PICK c \in 1 .. 4 : Attr(i, Classes[c])
      BY <2>2 DEF Gives, ClassLine
    <3>2. Classes[c] \in Keys /\ attrs[Classes[c]] = <<>>
      BY <1>2, ClassesAreKeys
    <3>3. \E p \in DOMAIN attrs[Classes[c]] : TRUE
      BY <2>2, <3>1, <3>2 DEF BlockInv, Holds
    <3> QED BY <3>2, <3>3
  <2> QED BY <1>1, <2>1, <2>2 DEF Pending
<1>3. CASE ~ \A k \in ClassKeys : attrs[k] = <<>>
  <2>1. PICK c \in 1 .. 4 :
          /\ ClassOf(attrs) = Classes[c] /\ attrs[Classes[c]] # <<>>
          /\ \A d \in 1 .. c - 1 : attrs[Classes[d]] = <<>>
    BY <1>3, ClassOfBlock
  <2>2. PICK k, vs : k = Classes[c] /\ vs = attrs[k]
    OBVIOUS
  <2>3. k \in ClassKeys /\ k \in Keys
    BY <2>2, ClassesAreKeys
  <2>4. /\ vs \in Seq(Seq(Texts)) /\ vs # <<>> /\ DOMAIN vs = 1 .. Len(vs)
        /\ \A p \in DOMAIN vs : vs[p] \in Seq(Texts) /\ vs[p] # <<>>
    BY <2>1, <2>2, <2>3, BlockValues
  <2>5. 1 \in DOMAIN vs
    BY <2>4
  <2>6. PICK at \in [DOMAIN vs -> Nat] :
          /\ \A p \in DOMAIN vs :
               at[p] \in DOMAIN read /\ Open(at[p]) /\ Attr(at[p], k) /\ Says(vs[p], at[p])
          /\ \A p, q \in DOMAIN vs : p < q => at[p] < at[q]
          /\ \A i \in DOMAIN read : Open(i) /\ Attr(i, k) => \E p \in DOMAIN vs : at[p] = i
    BY <2>2, <2>3 DEF BlockInv, Holds
  <2>7. PICK l : l = at[1]
    OBVIOUS
  <2>8. l \in DOMAIN read /\ Open(l) /\ Attr(l, k) /\ Says(vs[1], l)
    BY <2>5, <2>6, <2>7
  <2>9. PICK o : o = [class |-> ClassOf(attrs), value |-> attrs[ClassOf(attrs)][1],
                      origin |-> attrs["origin"], mntby |-> attrs["mnt-by"]]
    OBVIOUS
  <2>10. /\ o = [class |-> k, value |-> vs[1],
                 origin |-> attrs["origin"], mntby |-> attrs["mnt-by"]]
         /\ Flushed = Append(objects, o)
    BY <1>3, <2>1, <2>2, <2>9 DEF Flushed
  <2>11. o \in Objects
    <3>1. attrs["origin"] \in Seq(Seq(Texts)) /\ attrs["mnt-by"] \in Seq(Seq(Texts))
      BY BlockValues, ClassesAreKeys
    <3>2. vs[1] \in Seq(Texts) \ {<<>>}
      BY <2>4, <2>5
    <3> QED BY <3>1, <3>2, <2>3, <2>10 DEF Objects
  <2>12. Made(o, l)
    <3>1. Gathers(attrs["origin"], l, "origin") /\ Gathers(attrs["mnt-by"], l, "mnt-by")
      BY <2>8, BlockGathers, ClassesAreKeys
    <3>2. /\ o.class = k /\ o.value = vs[1] /\ o.origin = attrs["origin"]
          /\ o.mntby = attrs["mnt-by"]
      BY <2>10
    <3> QED BY <3>1, <3>2, <2>8 DEF Made
  <2>13. \A i \in DOMAIN read : Open(i) /\ Attr(i, k) => l <= i
    <3> SUFFICES ASSUME NEW i \in DOMAIN read, Open(i), Attr(i, k)
                 PROVE  l <= i
      OBVIOUS
    <3>1. PICK p \in DOMAIN vs : at[p] = i
      BY <2>6
    <3>2. p = 1 \/ 1 < p
      BY <2>4
    <3>3. p = 1 \/ at[1] < at[p]
      BY <2>5, <2>6, <3>2
    <3> QED BY <3>1, <3>3, <2>5, <2>6, <2>7
  <2>14. \A d \in 1 .. c - 1 : \A i \in DOMAIN read : Open(i) => ~Attr(i, Classes[d])
    <3> SUFFICES ASSUME NEW d \in 1 .. c - 1, NEW i \in DOMAIN read, Open(i),
                        Attr(i, Classes[d])
                 PROVE  FALSE
      OBVIOUS
    <3>1. d \in 1 .. 4
      OBVIOUS
    <3>2. Classes[d] \in Keys /\ attrs[Classes[d]] = <<>>
      BY <2>1, <3>1, ClassesAreKeys
    <3>3. \E p \in DOMAIN attrs[Classes[d]] : TRUE
      BY <3>2 DEF BlockInv, Holds
    <3> QED BY <3>2, <3>3
  <2>15. Gives(l)
    <3>1. \A j \in DOMAIN read : Together(l, j) => Open(j)
      BY <2>8, OpenTogether
    <3> QED BY <3>1, <2>2, <2>8, <2>13, <2>14 DEF Gives, ClassLine
  <2>16. ASSUME NEW i \in DOMAIN read, Open(i), Gives(i)
         PROVE  i = l
    <3>1. PICK e \in 1 .. 4 :
            /\ Attr(i, Classes[e])
            /\ \A j \in DOMAIN read : Together(i, j) =>
                 /\ Attr(j, Classes[e]) => i <= j
                 /\ \A d \in 1 .. e - 1 : ~Attr(j, Classes[d])
      BY <2>16 DEF Gives, ClassLine
    <3>2. Together(i, l)
      BY <2>8, <2>16, OpenTogether
    <3>3. ~(e < c)
      <4>1. e < c => e \in 1 .. c - 1
        OBVIOUS
      <4> QED BY <4>1, <2>14, <2>16, <3>1
    <3>4. ~(c < e)
      <4>1. c < e => c \in 1 .. e - 1
        OBVIOUS
      <4> QED BY <4>1, <2>2, <2>8, <3>1, <3>2
    <3>5. c = e
      BY <3>3, <3>4
    <3>6. i <= l /\ l <= i
      BY <2>2, <2>8, <2>13, <2>16, <3>1, <3>2, <3>5
    <3> QED BY <3>6, <2>8, ReadLine
  <2>17. Elements(Flushed) = Pending \cup {o} /\ Flushed \in Seq(Objects)
    BY <1>1, <2>10, <2>11, ElementsAppended DEF Pending
  <2> QED BY <2>8, <2>12, <2>15, <2>16, <2>17
<1> QED BY <1>2, <1>3

-----------------------------------------------------------------------------
(* The steps *)

LEMMA PlainRecordIs ==
  ASSUME NEW line \in Lines, line.is = "record", line.prefix.is = "prefix"
  PROVE  /\ PlainRecord(line).origin = line.origin /\ PlainRecord(line).is = "record"
         /\ PlainRecord(line).prefix =
              [is |-> "prefix", written |-> "plain", net |-> line.prefix.net]
         /\ PlainRecord(line).prefix \in Texts
<1>1. /\ line = [is |-> "record", origin |-> line.origin, prefix |-> line.prefix]
      /\ line.prefix \in Texts
  BY LineFields
<1>2. PICK t : t = line.prefix
  OBVIOUS
<1>3. t = [is |-> "prefix", written |-> t.written, net |-> t.net] /\ t.net \in Nets
  BY <1>1, <1>2, TextFields
<1>4. [t EXCEPT !.written = "plain"] = [is |-> "prefix", written |-> "plain", net |-> t.net]
  BY <1>3
<1>5. PlainRecord(line) = [line EXCEPT !.prefix = [t EXCEPT !.written = "plain"]]
  BY <1>2 DEF PlainRecord
<1>6. PlainRecord(line) = [is |-> "record", origin |-> line.origin,
                           prefix |-> [t EXCEPT !.written = "plain"]]
  BY <1>1, <1>5
<1>7. [t EXCEPT !.written = "plain"]
        \in [is : {"prefix"}, written : {"plain", "hostbits", "zeros"}, net : Nets]
  BY <1>3, <1>4
<1>8. [t EXCEPT !.written = "plain"] \in Texts
  BY <1>7 DEF Texts
<1> QED BY <1>2, <1>4, <1>6, <1>8

LEMMA RecordType ==
  ASSUME NEW class \in ClassKeys \cup {"ris"}, NEW line, line.prefix \in Texts,
         line.origin \in Texts
  PROVE  Record(class, line) \in Objects
<1>1. PICK p, o : p = line.prefix /\ o = AsNumber(line.origin)
  OBVIOUS
<1>2. p \in Texts /\ o \in Texts
  BY <1>1, AsNumberMeans
<1>3. <<p>> \in Seq(Texts) \ {<<>>} /\ <<<<o>>>> \in Seq(Seq(Texts)) /\ <<>> \in Seq(Seq(Texts))
  BY <1>2
<1>4. Record(class, line) = [class |-> class, value |-> <<p>>, mntby |-> <<>>,
                             origin |-> <<<<o>>>>]
  BY <1>1 DEF Record
<1> QED BY <1>3, <1>4 DEF Objects

LEMMA SomeObject == Objects # {}
<1>1. [is |-> "word"] \in Texts
  BY DEF Texts
<1>2. PICK t \in Texts : TRUE
  BY <1>1
<1>3. /\ [prefix |-> t, origin |-> t].prefix \in Texts
      /\ [prefix |-> t, origin |-> t].origin \in Texts
  OBVIOUS
<1>4. Record("ris", [prefix |-> t, origin |-> t]) \in Objects
  BY <1>3, RecordType
<1> QED BY <1>4

LEMMA FlushedType ==
  ASSUME TypeInv
  PROVE  Flushed \in Seq(Objects)
<1>0. objects \in Seq(Objects) /\ attrs \in [Keys -> Seq(Seq(Texts) \ {<<>>})]
  BY DEF TypeInv
<1>1. CASE \A k \in ClassKeys : attrs[k] = <<>>
  BY <1>1, <1>0 DEF Flushed
<1>2. CASE ~ \A k \in ClassKeys : attrs[k] = <<>>
  <2>1. PICK c \in 1 .. 4 : ClassOf(attrs) = Classes[c] /\ attrs[Classes[c]] # <<>>
    BY <1>2, ClassOfBlock
  <2>2. PICK k : k = Classes[c] /\ k \in ClassKeys /\ k \in Keys
    BY ClassesAreKeys
  <2>3. attrs[k] # <<>> /\ attrs[k] \in Seq(Seq(Texts) \ {<<>>})
    BY <1>0, <2>1, <2>2
  <2>4. attrs[k][1] \in Seq(Texts) \ {<<>>}
    BY <2>3
  <2>5. attrs["origin"] \in Seq(Seq(Texts)) /\ attrs["mnt-by"] \in Seq(Seq(Texts))
    BY BlockValues, ClassesAreKeys
  <2>6. PICK o : o = [class |-> ClassOf(attrs), value |-> attrs[ClassOf(attrs)][1],
                      origin |-> attrs["origin"], mntby |-> attrs["mnt-by"]]
    OBVIOUS
  <2>7. o \in Objects
    BY <2>1, <2>2, <2>4, <2>5, <2>6 DEF Objects
  <2>8. Flushed = Append(objects, o)
    BY <1>2, <2>6 DEF Flushed
  <2> QED BY <2>7, <2>8, <1>0
<1> QED BY <1>1, <1>2

LEMMA TypeKept ==
  ASSUME TypeInv, [Next]_vars
  PROVE  TypeInv'
<1>1. /\ source \in Sources /\ read \in Seq(Lines) /\ DOMAIN read = 1 .. Len(read)
      /\ \A i \in DOMAIN read : read[i] \in source.lines
      /\ attrs \in [Keys -> Seq(Seq(Texts) \ {<<>>})]
      /\ lastKey \in Keys \cup {NoKey} /\ objects \in Seq(Objects)
      /\ source.lines \subseteq Lines
  BY ImportAssumption DEF TypeInv, ImportAssumption
<1>2. ASSUME NEW line \in source.lines, NextLine(line)
      PROVE  /\ line \in Lines /\ source' \in Sources /\ read' \in Seq(Lines)
             /\ \A i \in DOMAIN read' : read'[i] \in source'.lines
  <2>1. line \in Lines /\ read' = Append(read, line) /\ source' = source
    BY <1>1, <1>2 DEF NextLine
  <2> QED BY <1>1, <2>1, LineAdded
<1>3. CASE ReadFails
  BY <1>1, <1>3 DEF ReadFails, Fail, TypeInv
<1>4. CASE UnknownFormat
  BY <1>1, <1>4 DEF UnknownFormat, Fail, TypeInv
<1>5. ASSUME NEW line \in source.lines, LineRefused(line)
      PROVE  TypeInv'
  BY <1>1, <1>2, <1>5 DEF LineRefused, Fail, TypeInv
<1>6. ASSUME NEW line \in source.lines, RpslLine(line)
      PROVE  TypeInv'
  <2>1. /\ line \in Lines /\ source' \in Sources /\ read' \in Seq(Lines)
        /\ \A i \in DOMAIN read' : read'[i] \in source'.lines
    BY <1>2, <1>6 DEF RpslLine
  <2>2. pc' \in {"parse", "insert", "done", "refused", "unreadable"}
    BY <1>6 DEF RpslLine, TypeInv
  <2>3. CASE /\ line.is = "blank"
             /\ objects' = Flushed
             /\ attrs' = AfterBlank(attrs) /\ lastKey' = NoKey
    <3>1. Flushed \in Seq(Objects)
      BY FlushedType
    <3>2. attrs' \in [Keys -> Seq(Seq(Texts) \ {<<>>})]
      BY <2>3 DEF AfterBlank, NoAttrs
    <3> QED BY <2>1, <2>2, <2>3, <3>1, <3>2 DEF TypeInv
  <2>4. CASE /\ line.is = "attr"
             /\ attrs' = [attrs EXCEPT ![line.key] = Append(@, <<line.text>>)]
             /\ lastKey' = line.key
             /\ UNCHANGED objects
    <3>1. line.key \in Keys /\ line.text \in Texts
      BY <2>1, <2>4, LineFields
    <3>2. <<line.text>> \in Seq(Texts) \ {<<>>}
      BY <3>1
    <3>3. attrs[line.key] \in Seq(Seq(Texts) \ {<<>>})
      BY <1>1, <3>1
    <3>4. Append(attrs[line.key], <<line.text>>) \in Seq(Seq(Texts) \ {<<>>})
      BY <3>2, <3>3
    <3>5. attrs' \in [Keys -> Seq(Seq(Texts) \ {<<>>})]
      BY <1>1, <2>4, <3>4
    <3> QED BY <1>1, <2>1, <2>2, <2>4, <3>1, <3>5 DEF TypeInv
  <2>5. CASE /\ Continues(line)
             /\ attrs' = [attrs EXCEPT ![lastKey][Len(attrs[lastKey])] =
                                         Append(@, line.text)]
             /\ UNCHANGED <<lastKey, objects>>
    <3>1. line.text \in Texts /\ lastKey \in Keys
      BY <1>1, <2>1, <2>5, LineFields DEF Continues
    <3>2. PICK vs, n : vs = attrs[lastKey] /\ n = Len(vs)
      OBVIOUS
    <3>3. vs \in Seq(Seq(Texts) \ {<<>>}) /\ DOMAIN vs = 1 .. n /\ n \in Nat
      BY <1>1, <3>1, <3>2
    <3>4. PICK w : w = [vs EXCEPT ![n] = Append(@, line.text)]
      OBVIOUS
    <3>5. \A p \in 1 .. n : w[p] \in Seq(Texts) \ {<<>>}
      <4> SUFFICES ASSUME NEW p \in 1 .. n PROVE w[p] \in Seq(Texts) \ {<<>>}
        OBVIOUS
      <4>1. vs[p] \in Seq(Texts) /\ vs[p] # <<>>
        BY <3>3
      <4>2. Append(vs[p], line.text) \in Seq(Texts) \ {<<>>}
        BY <3>1, <4>1
      <4> QED BY <3>3, <3>4, <4>1, <4>2
    <3>6. w \in [1 .. n -> Seq(Texts) \ {<<>>}]
      BY <3>3, <3>4, <3>5
    <3>7. w \in Seq(Seq(Texts) \ {<<>>})
      BY <3>3, <3>6
    <3>8. attrs' = [attrs EXCEPT ![lastKey] = w]
      BY <2>5, <3>2, <3>4
    <3>9. attrs' \in [Keys -> Seq(Seq(Texts) \ {<<>>})]
      BY <1>1, <3>1, <3>7, <3>8
    <3> QED BY <1>1, <2>1, <2>2, <2>5, <3>9 DEF TypeInv
  <2>6. CASE UNCHANGED <<attrs, lastKey, objects>>
    BY <1>1, <2>1, <2>2, <2>6 DEF TypeInv
  <2> QED BY <1>6, <2>3, <2>4, <2>5, <2>6 DEF RpslLine
<1>7. ASSUME NEW line \in source.lines, RisLine(line)
      PROVE  TypeInv'
  <2>1. /\ line \in Lines /\ source' \in Sources /\ read' \in Seq(Lines)
        /\ \A i \in DOMAIN read' : read'[i] \in source'.lines
    BY <1>2, <1>7 DEF RisLine
  <2>2. line.is = "record" => Record("ris", line) \in Objects
    BY <2>1, LineFields, RecordType
  <2>3. objects' \in Seq(Objects)
    BY <1>1, <1>7, <2>2 DEF RisLine
  <2> QED BY <1>1, <1>7, <2>1, <2>3 DEF RisLine, TypeInv
<1>8. ASSUME NEW line \in source.lines, RpkiLine(line)
      PROVE  TypeInv'
  <2>1. /\ line \in Lines /\ source' \in Sources /\ read' \in Seq(Lines)
        /\ \A i \in DOMAIN read' : read'[i] \in source'.lines
    BY <1>2, <1>8 DEF RpkiLine
  <2>2. CASE line.is = "record"
    <3>1. line.prefix.is = "prefix"
      BY <1>8, <2>2 DEF RpkiLine, Taken, Parses
    <3>2. \A class \in {"route", "route6"} : Record(class, PlainRecord(line)) \in Objects
      BY <2>1, <2>2, <3>1, PlainRecordIs, LineFields, RecordType, ClassesAreKeys
    <3> QED BY <1>1, <1>8, <2>1, <2>2, <3>2 DEF RpkiLine, TypeInv, PlainRecord
  <2>3. CASE line.is # "record"
    BY <1>1, <1>8, <2>1, <2>3 DEF RpkiLine, TypeInv
  <2> QED BY <2>2, <2>3
<1>9. CASE FileEnds
  BY <1>1, <1>9, FlushedType DEF FileEnds, Fail, TypeInv
<1>10. CASE InsertObject
  <2>1. Tail(objects) \in Seq(Objects)
    BY <1>1, <1>10, HeadOut DEF InsertObject
  <2>2. /\ pc' \in {"insert", "refused"} /\ UNCHANGED <<source, read, attrs, lastKey>>
        /\ objects' \in {objects, Tail(objects)}
    BY <1>10 DEF InsertObject, Fail
  <2> QED BY <1>1, <2>1, <2>2 DEF TypeInv
<1>11. CASE Commit
  BY <1>1, <1>11 DEF Commit, TypeInv
<1>12. CASE UNCHANGED vars
  BY <1>12 DEF vars, TypeInv
<1> QED BY <1>3, <1>4, <1>5, <1>6, <1>7, <1>8, <1>9, <1>10, <1>11, <1>12 DEF Next

LEMMA SameFile ==
  ASSUME UNCHANGED <<source, read>>
  PROVE  \A o : \A i : (Gives(i)' <=> Gives(i)) /\ (Made(o, i)' <=> Made(o, i))
BY DEF Gives, Made, ClassLine, Attr, Together, Blank, Gathers, Says, More, Classes, Record,
       PlainRecord, AsNumber, Parses

\* A line of an RPSL file that ends no paragraph.
LEMMA NotEnded ==
  ASSUME TypeInv, source.format = "rpsl", ParseInv,
         NEW line \in Lines, read' = Append(read, line), source' = source,
         line.is # "blank", UNCHANGED objects
  PROVE  /\ \A o \in Pending' :
              \E i \in DOMAIN read' : ~Open(i)' /\ Gives(i)' /\ Made(o, i)'
         /\ \A i \in DOMAIN read' : ~Open(i)' /\ Gives(i)' => \E o \in Pending' : Made(o, i)'
<1>1. PICK N : N = Len(read) + 1
  OBVIOUS
<1>2. /\ DOMAIN read' = DOMAIN read \cup {N} /\ read'[N] = line /\ Len(read') = N
      /\ Len(read) \in Nat
  BY LineAdded, <1>1 DEF TypeInv
<1>3. Pending' = Pending
  BY DEF Pending, Elements
<1>4. \A i \in DOMAIN read : Open(i)' <=> Open(i)
  BY ParagraphAdded
<1>5. Open(N)'
  <2>1. \A m \in N .. N : m = N
    BY <1>1, <1>2
  <2> QED BY <2>1, <1>2 DEF Open, Blank
<1>6. \A i \in DOMAIN read : ~Open(i) =>
        \A o : (Gives(i)' <=> Gives(i)) /\ (Made(o, i)' <=> Made(o, i))
  BY <1>4, MadeKept
<1>7. ASSUME NEW o \in Pending
      PROVE  \E i \in DOMAIN read' : ~Open(i)' /\ Gives(i)' /\ Made(o, i)'
  <2>1. PICK i \in DOMAIN read : ~Open(i) /\ Gives(i) /\ Made(o, i)
    BY DEF ParseInv
  <2> QED BY <2>1, <1>2, <1>4, <1>6
<1>8. ASSUME NEW i \in DOMAIN read', ~Open(i)', Gives(i)'
      PROVE  \E o \in Pending : Made(o, i)'
  <2>1. i \in DOMAIN read /\ ~Open(i) /\ Gives(i)
    BY <1>2, <1>4, <1>5, <1>6, <1>8
  <2>2. PICK o \in Pending : Made(o, i)
    BY <2>1 DEF ParseInv
  <2> QED BY <2>1, <2>2, <1>6
<1> QED BY <1>3, <1>7, <1>8

\* A line that ends the paragraph.
LEMMA Ended ==
  ASSUME TypeInv, source.format = "rpsl", ParseInv,
         NEW line \in Lines, read' = Append(read, line), source' = source,
         line.is = "blank", objects' = Flushed, attrs' = NoAttrs, lastKey' = NoKey
  PROVE  /\ \A o \in Pending' :
              \E i \in DOMAIN read' : ~Open(i)' /\ Gives(i)' /\ Made(o, i)'
         /\ \A i \in DOMAIN read' : ~Open(i)' /\ Gives(i)' => \E o \in Pending' : Made(o, i)'
<1>1. PICK N : N = Len(read) + 1
  OBVIOUS
<1>2. DOMAIN read' = DOMAIN read \cup {N} /\ read'[N] = line
  BY LineAdded, <1>1
<1>3. PICK P : P = Elements(Flushed)
  OBVIOUS
<1>4. Pending' = P
  BY <1>3 DEF Pending, Elements
<1>5. \A i \in DOMAIN read' : ~Open(i)'
  BY BlockEnded
<1>6. ~Gives(N)'
  BY <1>2 DEF Gives, ClassLine, Attr
<1>7. \A i \in DOMAIN read : \A o : (Gives(i)' <=> Gives(i)) /\ (Made(o, i)' <=> Made(o, i))
  BY <1>2, <1>5, MadeKept
<1>8. BlockInv
  BY DEF ParseInv
<1>9. ASSUME NEW o \in P
      PROVE  \E i \in DOMAIN read' : ~Open(i)' /\ Gives(i)' /\ Made(o, i)'
  <2>1. \E i \in DOMAIN read : Gives(i) /\ Made(o, i)
    BY <1>3, <1>8, FlushedMade DEF ParseInv
  <2> QED BY <2>1, <1>2, <1>5, <1>7
<1>10. ASSUME NEW i \in DOMAIN read', Gives(i)'
       PROVE  \E o \in P : Made(o, i)'
  <2>1. i \in DOMAIN read /\ Gives(i)
    BY <1>2, <1>6, <1>7, <1>10
  <2>2. \E o \in P : Made(o, i)
    <3>1. CASE Open(i)
      BY <3>1, <2>1, <1>3, <1>8, FlushedMade
    <3>2. CASE ~Open(i)
      <4>1. Pending \subseteq P
        BY <1>3, <1>8, FlushedMade
      <4> QED BY <4>1, <3>2, <2>1 DEF ParseInv
    <3> QED BY <3>1, <3>2
  <2> QED BY <2>1, <2>2, <1>7
<1> QED BY <1>4, <1>5, <1>9, <1>10

LEMMA RpslKept ==
  ASSUME ImportInv, TypeInv', NEW line \in source.lines, RpslLine(line)
  PROVE  ImportInv'
<1>1. /\ source.format = "rpsl" /\ pc = "parse" /\ pc' = "parse" /\ read' = Append(read, line)
      /\ source' = source /\ rows' = rows /\ source.format \in Formats
  BY DEF RpslLine, NextLine
<1>2. TypeInv /\ ParseInv /\ BlockInv /\ rows = {} /\ line \in Lines
  BY <1>1, ImportAssumption DEF ImportInv, ParseInv, TypeInv, ImportAssumption
<1>3. CASE /\ line.is = "blank"
           /\ objects' = Flushed
           /\ attrs' = AfterBlank(attrs) /\ lastKey' = NoKey
  <2>1. attrs' = NoAttrs
    BY <1>3 DEF AfterBlank
  <2>2. /\ \A o \in Pending' :
             \E i \in DOMAIN read' : ~Open(i)' /\ Gives(i)' /\ Made(o, i)'
        /\ \A i \in DOMAIN read' : ~Open(i)' /\ Gives(i)' => \E o \in Pending' : Made(o, i)'
    BY <1>1, <1>2, <1>3, <2>1, Ended
  <2>3. BlockInv'
    BY <1>1, <1>2, <1>3, <2>1, BlockEnded
  <2>4. ParseInv'
    BY <2>2, <2>3, <1>1, <1>2 DEF ParseInv
  <2> QED BY <2>4, <1>1 DEF ImportInv, RefusedForCause, OnlyRecords
<1>4. CASE UNCHANGED objects /\ line.is # "blank" /\ BlockInv'
  <2>1. /\ \A o \in Pending' :
             \E i \in DOMAIN read' : ~Open(i)' /\ Gives(i)' /\ Made(o, i)'
        /\ \A i \in DOMAIN read' : ~Open(i)' /\ Gives(i)' => \E o \in Pending' : Made(o, i)'
    BY <1>1, <1>2, <1>4, NotEnded
  <2>2. ParseInv'
    BY <2>1, <1>1, <1>2, <1>4 DEF ParseInv
  <2> QED BY <2>2, <1>1 DEF ImportInv, RefusedForCause, OnlyRecords
<1>5. CASE /\ line.is = "attr"
           /\ attrs' = [attrs EXCEPT ![line.key] = Append(@, <<line.text>>)]
           /\ lastKey' = line.key
           /\ UNCHANGED objects
  BY <1>1, <1>2, <1>4, <1>5, AttrAdded
<1>6. CASE /\ Continues(line)
           /\ attrs' = [attrs EXCEPT ![lastKey][Len(attrs[lastKey])] = Append(@, line.text)]
           /\ UNCHANGED <<lastKey, objects>>
  <2>1. line.is = "more" /\ lastKey # NoKey
    BY <1>6 DEF Continues
  <2> QED BY <2>1, <1>1, <1>2, <1>4, <1>6, AttrContinued
<1>7. CASE /\ line.is \notin {"blank", "attr"} /\ ~Continues(line)
           /\ UNCHANGED <<attrs, lastKey, objects>>
  <2>1. line.is = "more" => lastKey = NoKey
    BY <1>7 DEF Continues
  <2> QED BY <2>1, <1>1, <1>2, <1>4, <1>7, LineIgnored
<1> QED BY <1>3, <1>5, <1>6, <1>7 DEF RpslLine

\* Of the other formats every record is an object.
LEMMA RecordAdded ==
  ASSUME ImportInv, TypeInv', pc = "parse", pc' = pc, source.format # "rpsl",
         source.format \in Formats, source' = source, rows' = rows,
         NEW line \in Lines, read' = Append(read, line), line.is # "attr", NEW o \in Objects,
         objects' = IF line.is = "record" THEN Append(objects, o) ELSE objects,
         NEW N, N = Len(read) + 1, line.is = "record" => Made(o, N)'
  PROVE  ImportInv'
<1>1. TypeInv /\ ParseInv /\ rows = {} /\ objects \in Seq(Objects)
  BY DEF ImportInv, ParseInv, TypeInv
<1>2. /\ DOMAIN read' = DOMAIN read \cup {N} /\ read'[N] = line
      /\ \A i \in DOMAIN read : read'[i] = read[i]
  BY <1>1, LineAdded
<1>3. Pending' = Pending \cup (IF line.is = "record" THEN {o} ELSE {})
  <2>1. CASE line.is = "record"
    <3>1. Elements(Append(objects, o)) = Elements(objects) \cup {o}
      BY <1>1, ElementsAppended
    <3>2. objects' = Append(objects, o) /\ Pending' = Elements(objects')
      BY <2>1 DEF Pending, Elements
    <3>3. Pending' = Pending \cup {o}
      BY <3>1, <3>2 DEF Pending
    <3> QED BY <2>1, <3>3
  <2>2. CASE line.is # "record"
    BY <2>2 DEF Pending, Elements
  <2> QED BY <2>1, <2>2
<1>4. \A i \in DOMAIN read : \A x : (Gives(i)' <=> Gives(i)) /\ (Made(x, i)' <=> Made(x, i))
  BY <1>1, MadeKept
<1>5. Gives(N)' <=> line.is = "record"
  BY <1>2 DEF Gives
<1>6. ASSUME NEW x \in Pending'
      PROVE  \E i \in DOMAIN read' : Gives(i)' /\ Made(x, i)'
  <2>1. CASE x \in Pending
    <3>1. PICK i \in DOMAIN read : Gives(i) /\ Made(x, i)
      BY <1>1, <2>1 DEF ParseInv
    <3> QED BY <3>1, <1>2, <1>4
  <2>2. CASE x \notin Pending
    <3>1. x = o /\ line.is = "record"
      BY <1>3, <2>2
    <3>2. Made(x, N)'
      BY <3>1
    <3> QED BY <3>1, <3>2, <1>2, <1>5
  <2> QED BY <2>1, <2>2
<1>7. ASSUME NEW i \in DOMAIN read', Gives(i)'
      PROVE  \E x \in Pending' : Made(x, i)'
  <2>1. CASE i \in DOMAIN read
    <3>1. PICK x \in Pending : Made(x, i)
      BY <1>1, <1>4, <1>7, <2>1 DEF ParseInv
    <3> QED BY <3>1, <1>3, <1>4, <2>1
  <2>2. CASE i \notin DOMAIN read
    <3>1. i = N /\ line.is = "record" /\ o \in Pending'
      BY <1>2, <1>3, <1>5, <1>7, <2>2
    <3> QED BY <3>1
  <2> QED BY <2>1, <2>2
<1>8. ParseInv'
  BY <1>1, <1>6, <1>7 DEF ParseInv
<1>9. OnlyRecords'
  BY <1>2 DEF ImportInv, OnlyRecords
<1> QED BY <1>8, <1>9 DEF ImportInv, RefusedForCause

LEMMA RisKept ==
  ASSUME ImportInv, TypeInv', NEW line \in source.lines, RisLine(line)
  PROVE  ImportInv'
<1>1. /\ source.format = "riswhois" /\ pc = "parse" /\ pc' = pc /\ read' = Append(read, line)
      /\ source' = source /\ rows' = rows /\ source.format \in Formats
      /\ objects' = IF line.is = "record" THEN Append(objects, Record("ris", line)) ELSE objects
      /\ line.is # "attr"
  BY DEF RisLine, NextLine, Taken
<1>2. TypeInv /\ line \in Lines
  BY ImportAssumption DEF ImportInv, TypeInv, ImportAssumption
<1>3. PICK N : N = Len(read) + 1
  OBVIOUS
<1>4. read'[N] = line
  BY <1>1, <1>2, <1>3, LineAdded
<1>5. CASE line.is = "record"
  <2>1. PICK o : o = Record("ris", line)
    OBVIOUS
  <2>2. o \in Objects
    BY <1>2, <1>5, <2>1, LineFields, RecordType
  <2>3. Made(o, N)'
    BY <1>1, <1>4, <2>1 DEF Made, Record, AsNumber
  <2> QED BY <1>1, <1>2, <1>3, <2>1, <2>2, <2>3, RecordAdded
<1>6. CASE line.is # "record"
  <2>1. PICK o : o \in Objects
    BY SomeObject
  <2> QED BY <1>1, <1>2, <1>3, <1>6, <2>1, RecordAdded
<1> QED BY <1>5, <1>6

LEMMA RpkiKept ==
  ASSUME ImportInv, TypeInv', NEW line \in source.lines, RpkiLine(line)
  PROVE  ImportInv'
<1>1. /\ source.format = "rpki_csv" /\ pc = "parse" /\ pc' = pc /\ read' = Append(read, line)
      /\ source' = source /\ rows' = rows /\ source.format \in Formats
      /\ line.is = "record" => Parses(line.prefix)
      /\ line.is # "attr"
  BY DEF RpkiLine, NextLine, Taken
<1>2. TypeInv /\ line \in Lines
  BY ImportAssumption DEF ImportInv, TypeInv, ImportAssumption
<1>3. PICK N : N = Len(read) + 1
  OBVIOUS
<1>4. read'[N] = line
  BY <1>1, <1>2, <1>3, LineAdded
<1>5. CASE line.is = "record"
  <2>1. PICK class \in {"route", "route6"} :
          class = IF FamilyOf[line.prefix.net] = 4 THEN "route" ELSE "route6"
    OBVIOUS
  <2>2. PICK o : o = Record(class, PlainRecord(line))
    OBVIOUS
  <2>3. objects' = Append(objects, o)
    BY <1>5, <2>1, <2>2 DEF RpkiLine, PlainRecord
  <2>4. o \in Objects
    BY <1>1, <1>2, <1>5, <2>2, LineFields, PlainRecordIs, RecordType, ClassesAreKeys
       DEF Parses
  <2>5. Made(o, N)'
    <3>1. Parses(read[N].prefix)'
      BY <1>1, <1>4, <1>5 DEF Parses
    <3>2. (o = Record(class, PlainRecord(read[N])))'
      BY <1>4, <2>2 DEF Record, PlainRecord, AsNumber
    <3>3. (source.format = "rpki_csv")'
      BY <1>1
    <3> QED BY <2>1, <3>1, <3>2, <3>3 DEF Made
  <2> QED BY <1>1, <1>2, <1>3, <1>5, <2>3, <2>4, <2>5, RecordAdded
<1>6. CASE line.is # "record"
  <2>1. objects' = objects
    BY <1>6 DEF RpkiLine
  <2>2. PICK o : o \in Objects
    BY SomeObject
  <2> QED BY <1>1, <1>2, <1>3, <1>6, <2>1, <2>2, RecordAdded
<1> QED BY <1>5, <1>6

-----------------------------------------------------------------------------
(* Refusals *)

\* A line that no parser of the format takes is a fault.
LEMMA LineRefusedKept ==
  ASSUME ImportInv, TypeInv', NEW line \in source.lines, LineRefused(line)
  PROVE  ImportInv'
<1>1. /\ source.format \in Formats /\ pc = "parse" /\ pc' = "refused"
      /\ read' = Append(read, line) /\ source' = source /\ ~Taken(line)
  BY DEF LineRefused, Fail, NextLine
<1>2. TypeInv /\ line \in Lines
  BY ImportAssumption DEF ImportInv, TypeInv, ImportAssumption
<1>3. PICK N : N = Len(read) + 1
  OBVIOUS
<1>4. /\ DOMAIN read' = DOMAIN read \cup {N} /\ read'[N] = line /\ N \in DOMAIN read'
      /\ \A i \in DOMAIN read : read'[i] = read[i]
      /\ N \notin DOMAIN read
  BY <1>1, <1>2, <1>3, LineAdded DEF TypeInv
<1>5. CASE source.format = "rpsl"
  <2>1. line.is = "long"
    BY <1>1, <1>5 DEF Taken
  <2> QED BY <1>1, <1>4, <1>5, <2>1 DEF ImportInv, RefusedForCause, Faulty
<1>6. CASE source.format = "riswhois"
  <2>1. /\ line.is \notin {"blank", "record"}
        /\ line.is = "comment" => line.sign = "#"
    BY <1>1, <1>2, <1>6, LineFields DEF Taken
  <2>2. \/ read'[N].is \notin {"blank", "record", "comment"}
        \/ read'[N].is = "comment" /\ read'[N].sign = "#"
    BY <1>4, <2>1
  <2>3. Faulty'
    BY <1>1, <1>4, <1>6, <2>2 DEF Faulty
  <2> QED BY <1>1, <2>3 DEF ImportInv, RefusedForCause
<1>7. CASE source.format = "rpki_csv"
  <2>1. /\ line.is # "blank" /\ ~(line.is = "header" /\ ~HeaderRead)
        /\ ~(line.is = "record" /\ HeaderRead /\ Parses(line.prefix))
    BY <1>1, <1>7 DEF Taken
  <2>2. CASE line.is \notin {"header", "record"}
    <3>1. read'[N].is \notin {"header", "blank", "record"}
      BY <1>4, <2>1, <2>2
    <3>2. Faulty'
      BY <1>1, <1>4, <1>7, <3>1 DEF Faulty
    <3> QED BY <1>1, <3>2 DEF ImportInv, RefusedForCause
  <2>3. CASE line.is = "header"
    <3>1. PICK i \in DOMAIN read : read[i].is = "header"
      BY <2>1, <2>3 DEF HeaderRead
    <3>2. /\ i \in DOMAIN read' /\ i # N
          /\ read'[i].is = "header" /\ read'[N].is = "header"
      BY <1>4, <2>3, <3>1
    <3>3. Faulty'
      BY <1>1, <1>4, <1>7, <3>2 DEF Faulty
    <3> QED BY <1>1, <3>3 DEF ImportInv, RefusedForCause
  <2>4. CASE line.is = "record" /\ ~HeaderRead
    <3>1. ~HeaderRead'
      BY <1>4, <2>4 DEF HeaderRead
    <3>2. Faulty'
      BY <1>1, <1>7, <3>1 DEF Faulty
    <3> QED BY <1>1, <3>2 DEF ImportInv, RefusedForCause
  <2>5. CASE line.is = "record" /\ ~Parses(line.prefix)
    <3>1. read'[N].is = "record" /\ ~Parses(read[N].prefix)'
      BY <1>4, <2>5 DEF Parses
    <3>2. Faulty'
      BY <1>1, <1>4, <1>7, <3>1 DEF Faulty
    <3> QED BY <1>1, <3>2 DEF ImportInv, RefusedForCause
  <2> QED BY <2>1, <2>2, <2>3, <2>4, <2>5
<1> QED BY <1>1, <1>5, <1>6, <1>7 DEF Formats

\* An object that cannot be inserted comes of a fault.
LEMMA RefusedObject ==
  ASSUME TypeInv, source.format \in Formats, NEW i \in DOMAIN read, NEW o \in Objects,
         Gives(i), Made(o, i), ~Ranged(o), Net(o.value) = {} \/ WrongFamily(o)
  PROVE  Faulty
<1>1. o.value \in Seq(Texts) /\ o.value # <<>>
  BY DEF Objects
<1>2. PICK v : v = o.value
  OBVIOUS
<1>3. /\ Net(v) # {} => Net(v) = {v[1].net} /\ Len(v) = 1 /\ v[1].is = "prefix"
      /\ Net(v) = {} => Len(v) # 1 \/ v[1].is # "prefix"
  BY <1>1, <1>2, NetOf
<1>4. read[i] \in Lines
  BY ReadLine
<1>5. CASE source.format = "rpsl"
  <2>1. Attr(i, o.class) /\ Says(v, i) /\ ClassLine(i)
    BY <1>2, <1>5 DEF Made, Gives
  <2>2. o.class \in Keys /\ o.class # "ris"
    BY <1>4, <2>1, LineFields, ClassesAreKeys DEF Attr
  <2>3. read[i].text.is # "prefix" \/ More(i) # {}
    BY <1>2, <1>3, <2>1, <2>2 DEF WrongFamily, Says
  <2>4. ~(Attr(i, "inetnum") /\ read[i].text.is = "range")
    <3> SUFFICES ASSUME Attr(i, "inetnum"), read[i].text.is = "range"
                 PROVE  FALSE
      OBVIOUS
    <3>1. o.class = "inetnum"
      BY <2>1 DEF Attr
    <3>2. v[1].is = "range" /\ 1 \in DOMAIN v
      BY <1>1, <1>2, <2>1 DEF Says
    <3>3. IsRange(v)
      BY <3>2 DEF IsRange
    <3> QED BY <1>2, <3>1, <3>3 DEF Ranged
  <2> QED BY <1>5, <2>1, <2>3, <2>4 DEF Faulty
<1>6. CASE source.format = "riswhois"
  <2>1. o = Record("ris", read[i]) /\ read[i].is = "record"
    BY <1>6 DEF Made, Gives
  <2>2. v = <<read[i].prefix>>
    BY <1>2, <2>1 DEF Record
  <2>3. Len(v) = 1 /\ v[1] = read[i].prefix
    BY <2>2
  <2>4. \/ read[i].prefix.is # "prefix"
        \/ source.family \notin {0, FamilyOf[read[i].prefix.net]}
    BY <1>2, <1>3, <2>3 DEF WrongFamily
  <2> QED BY <1>6, <2>1, <2>4 DEF Faulty
<1>7. CASE source.format = "rpki_csv"
  <2>1. read[i].is = "record" /\ Parses(read[i].prefix)
    BY <1>7 DEF Made, Gives
  <2>2. PICK class \in {"route", "route6"} : o = Record(class, PlainRecord(read[i]))
    BY <1>7 DEF Made
  <2>3. /\ PlainRecord(read[i]).prefix =
             [is |-> "prefix", written |-> "plain", net |-> read[i].prefix.net]
    BY <1>4, <2>1, PlainRecordIs DEF Parses
  <2>4. o.class = class /\ v = <<PlainRecord(read[i]).prefix>>
    BY <1>2, <2>2 DEF Record
  <2>5. Len(v) = 1 /\ v[1].is = "prefix"
    BY <2>3, <2>4
  <2> QED BY <1>2, <1>3, <2>4, <2>5 DEF WrongFamily
<1> QED BY <1>5, <1>6, <1>7 DEF Formats

-----------------------------------------------------------------------------
(* The end of the file and the objects *)

LEMMA FileEndsKept ==
  ASSUME ImportInv, TypeInv', FileEnds
  PROVE  ImportInv'
<1>1. /\ pc = "parse" /\ source.format \in Formats /\ UNCHANGED <<source, read>>
      /\ TypeInv /\ ParseInv /\ rows = {}
  BY DEF FileEnds, ImportInv, ParseInv
<1>2. CASE source.format = "rpki_csv" /\ ~HeaderRead
  <2>1. pc' = "refused"
    BY <1>2 DEF FileEnds, Fail
  <2>2. Faulty'
    BY <1>1, <1>2 DEF Faulty, HeaderRead
  <2> QED BY <2>1, <2>2 DEF ImportInv, RefusedForCause
<1>3. CASE ~(source.format = "rpki_csv" /\ ~HeaderRead)
  <2>1. /\ pc' = "insert" /\ rows' = {}
        /\ objects' = IF source.format = "rpsl" THEN Flushed ELSE objects
    BY <1>1, <1>3 DEF FileEnds
  <2>2. PICK P : P = Pending'
    OBVIOUS
  <2>3. \A o : \A i : (Gives(i)' <=> Gives(i)) /\ (Made(o, i)' <=> Made(o, i))
    BY <1>1, SameFile
  <2>4. /\ \A o \in P : \E i \in DOMAIN read : Gives(i) /\ Made(o, i)
        /\ \A i \in DOMAIN read : Gives(i) => \E o \in P : Made(o, i)
    <3>1. CASE source.format = "rpsl"
      <4>1. P = Elements(Flushed) /\ BlockInv
        BY <1>1, <2>1, <2>2, <3>1 DEF Pending, ParseInv, Elements
      <4>2. \A o \in P : \E i \in DOMAIN read : Gives(i) /\ Made(o, i)
        BY <1>1, <3>1, <4>1, FlushedMade DEF ParseInv
      <4>3. ASSUME NEW i \in DOMAIN read, Gives(i)
            PROVE  \E o \in P : Made(o, i)
        <5>1. CASE Open(i)
          BY <1>1, <3>1, <4>1, <4>3, <5>1, FlushedMade
        <5>2. CASE ~Open(i)
          <6>1. Pending \subseteq P
            BY <1>1, <3>1, <4>1, FlushedMade
          <6>2. \E o \in Pending : Made(o, i)
            BY <1>1, <4>3, <5>2 DEF ParseInv
          <6> QED BY <6>1, <6>2
        <5> QED BY <5>1, <5>2
      <4> QED BY <4>2, <4>3
    <3>2. CASE source.format # "rpsl"
      <4>1. P = Pending
        BY <2>1, <2>2, <3>2 DEF Pending, Elements
      <4> QED BY <1>1, <3>2, <4>1 DEF ParseInv
    <3> QED BY <3>1, <3>2
  <2>5. objects' \in Seq(Objects)
    BY DEF TypeInv
  <2>6. \A o \in P : o \in Objects
    <3>1. PICK s : s = objects'
      OBVIOUS
    <3>2. \A p \in DOMAIN s : s[p] \in Objects
      BY <2>5, <3>1
    <3> QED BY <2>2, <3>1, <3>2 DEF Pending, Elements
  <2>7. InsertInv'
    BY <1>1, <2>1, <2>2, <2>3, <2>4, <2>6 DEF InsertInv
  <2> QED BY <1>1, <2>1, <2>7 DEF ImportInv, RefusedForCause, OnlyRecords
<1> QED BY <1>2, <1>3

LEMMA InsertKept ==
  ASSUME ImportInv, TypeInv', InsertObject
  PROVE  ImportInv'
<1>1. /\ pc = "insert" /\ objects # <<>> /\ UNCHANGED <<source, read>>
      /\ TypeInv /\ InsertInv /\ source.format \in Formats /\ objects \in Seq(Objects)
  BY DEF InsertObject, ImportInv, TypeInv
<1>2. PICK o : o = Head(objects)
  OBVIOUS
<1>3. PICK T : T = Elements(Tail(objects))
  OBVIOUS
<1>4. Pending = {o} \cup T /\ o \in Objects
  BY <1>1, <1>2, <1>3, HeadOut DEF Pending
<1>5. PICK i \in DOMAIN read : Gives(i) /\ Made(o, i)
  BY <1>1, <1>4 DEF InsertInv
<1>6. CASE ~Ranged(o) /\ (Net(o.value) = {} \/ WrongFamily(o))
  <2>1. pc' = "refused"
    BY <1>2, <1>6 DEF InsertObject, Ranged, Fail
  <2>2. Faulty
    BY <1>1, <1>4, <1>5, <1>6, RefusedObject
  <2>3. Faulty'
    BY <1>1, <2>2 DEF Faulty, HeaderRead, ClassLine, Attr, Together, Blank, More, Classes,
                      Parses
  <2> QED BY <2>1, <2>3 DEF ImportInv, RefusedForCause
<1>7. CASE ~(~Ranged(o) /\ (Net(o.value) = {} \/ WrongFamily(o)))
  <2>1. /\ pc' = "insert" /\ objects' = Tail(objects)
        /\ rows' = IF Dropped(o) THEN rows ELSE rows \cup {RowFor(o)}
    BY <1>1, <1>2, <1>7 DEF InsertObject, Ranged, Dropped, RowFor
  <2>2. Pending' = T
    BY <1>3, <2>1 DEF Pending, Elements
  <2>3. \A x : \A j : (Gives(j)' <=> Gives(j)) /\ (Made(x, j)' <=> Made(x, j))
    BY <1>1, SameFile
  <2>4. \A x \in T : \E j \in DOMAIN read : Gives(j) /\ Made(x, j)
    BY <1>1, <1>4 DEF InsertInv
  <2>5. rows \subseteq rows' /\ (Dropped(o) \/ RowFor(o) \in rows')
    BY <2>1
  <2>6. ASSUME NEW j \in DOMAIN read, Gives(j)
        PROVE  \E x \in Objects : Made(x, j) /\ (x \in T \/ Dropped(x) \/ RowFor(x) \in rows')
    <3>1. PICK x \in Objects :
            Made(x, j) /\ (x \in Pending \/ Dropped(x) \/ RowFor(x) \in rows)
      BY <1>1, <2>6 DEF InsertInv
    <3> QED BY <3>1, <1>4, <2>5
  <2>7. ASSUME NEW r \in rows'
        PROVE  \E x \in Objects, j \in DOMAIN read :
                 Gives(j) /\ Made(x, j) /\ ~Dropped(x) /\ r = RowFor(x)
    <3>1. CASE r \in rows
      BY <1>1, <3>1 DEF InsertInv
    <3>2. CASE r \notin rows
      <4>1. ~Dropped(o) /\ r = RowFor(o)
        BY <2>1, <2>7, <3>2
      <4> QED BY <4>1, <1>4, <1>5
    <3> QED BY <3>1, <3>2
  <2>8. \A x : (Dropped(x)' <=> Dropped(x)) /\ RowFor(x)' = RowFor(x)
    BY DEF Dropped, RowFor, Ranged, RowOf, IsRange, Net, RisOrigins, Normalized, AsNumber,
           Upper
  <2>9. InsertInv'
    BY <1>1, <2>2, <2>3, <2>4, <2>6, <2>7, <2>8 DEF InsertInv
  <2> QED BY <1>1, <2>1, <2>9 DEF ImportInv, RefusedForCause, OnlyRecords
<1> QED BY <1>6, <1>7

-----------------------------------------------------------------------------
(* What a query finds *)

\* What is asked for, and what the query makes of it.
Asked == {t \in Texts : t.is \in {"as", "mnt"}}

Conv(asked) == IF asked.is = "as" THEN AsNumber(asked) ELSE Upper(asked)

LEMMA NormalizedMeans ==
  ASSUME NEW i \in DOMAIN read, NEW asked \in Asked, NEW vs,
         Gathers(vs, i, Key(asked))
  PROVE  <<Conv(asked)>> \in Normalized(Key(asked), vs) <=>
           \E j \in DOMAIN read :
             /\ Together(i, j) /\ Attr(j, Key(asked)) /\ More(j) = {}
             /\ Means(read[j].text, asked)
<1>1. PICK k : k = Key(asked)
  OBVIOUS
<1>2. /\ vs \in Seq(Seq(Texts))
      /\ \A p \in DOMAIN vs :
           \E j \in DOMAIN read : Together(i, j) /\ Attr(j, k) /\ Says(vs[p], j)
      /\ \A j \in DOMAIN read : Together(i, j) /\ Attr(j, k) =>
           \E p \in DOMAIN vs : Says(vs[p], j)
  BY <1>1 DEF Gathers
<1>3. PICK c : c = Conv(asked)
  OBVIOUS
<1>4. ASSUME NEW t \in Texts
      PROVE  (IF k = "origin" THEN AsNumber(t) ELSE Upper(t)) = c <=> Means(t, asked)
  <2>1. asked \in Texts /\ asked.is \in {"as", "mnt"}
    BY DEF Asked
  <2>2. k = "origin" <=> asked.is = "as"
    BY <1>1 DEF Key
  <2> QED BY <1>3, <2>1, <2>2, AsNumberMeans DEF Conv
<1> DEFINE One(v) == IF Len(v) # 1 THEN v
                     ELSE <<IF k = "origin" THEN AsNumber(v[1]) ELSE Upper(v[1])>>
<1>5. \A x : x \in Normalized(k, vs) <=> \E p \in DOMAIN vs : x = One(vs[p])
  BY DEF Normalized
<1>6. ASSUME NEW v \in Seq(Texts), v # <<>>
      PROVE  <<c>> = One(v) <=> Len(v) = 1 /\ Means(v[1], asked)
  <2>1. CASE Len(v) # 1
    <3>1. Len(<<c>>) = 1 /\ One(v) = v
      BY <2>1
    <3>2. <<c>> # One(v)
      BY <2>1, <3>1
    <3> QED BY <2>1, <3>2
  <2>2. CASE Len(v) = 1
    <3>1. v[1] \in Texts
      BY <1>6
    <3>2. PICK t : t = IF k = "origin" THEN AsNumber(v[1]) ELSE Upper(v[1])
      OBVIOUS
    <3>3. One(v) = <<t>>
      BY <2>2, <3>2
    <3>4. <<c>> = <<t>> <=> c = t
      <4>1. <<c>>[1] = c /\ <<t>>[1] = t
        OBVIOUS
      <4> QED BY <4>1
    <3> QED BY <2>2, <3>1, <3>2, <3>3, <3>4, <1>4
  <2> QED BY <2>1, <2>2
<1> HIDE DEF One
<1>7. \A p \in DOMAIN vs : vs[p] \in Seq(Texts)
  BY <1>2
<1>8. ASSUME NEW p \in DOMAIN vs, <<c>> = One(vs[p])
      PROVE  \E j \in DOMAIN read :
               /\ Together(i, j) /\ Attr(j, k) /\ More(j) = {}
               /\ Means(read[j].text, asked)
  <2>1. PICK j \in DOMAIN read : Together(i, j) /\ Attr(j, k) /\ Says(vs[p], j)
    BY <1>2
  <2>2. Len(vs[p]) = 1 /\ Means(vs[p][1], asked)
    BY <1>6, <1>7, <1>8, <2>1 DEF Says
  <2> QED BY <2>1, <2>2 DEF Says
<1>9. ASSUME NEW j \in DOMAIN read, Together(i, j), Attr(j, k), More(j) = {},
             Means(read[j].text, asked)
      PROVE  \E p \in DOMAIN vs : <<c>> = One(vs[p])
  <2>1. PICK p \in DOMAIN vs : Says(vs[p], j)
    BY <1>2, <1>9
  <2>2. Len(vs[p]) = 1 /\ Means(vs[p][1], asked) /\ vs[p] # <<>>
    BY <1>9, <2>1 DEF Says
  <2> QED BY <2>2, <1>6, <1>7
<1> QED BY <1>1, <1>3, <1>5, <1>8, <1>9

\* Whether a row answers what is asked, of a net.
Answers(r, n, asked) ==
  /\ n \in r.net
  /\ IF asked.is = "as" THEN <<AsNumber(asked)>> \in r.origin
     ELSE <<Upper(asked)>> \in r.mntby

LEMMA RowAnswers ==
  ASSUME TypeInv, source.format \in Formats, NEW i \in DOMAIN read, NEW o \in Objects,
         Gives(i), Made(o, i), NEW n \in Nets, NEW asked \in Asked
  PROVE  /\ Answers(RowFor(o), n, asked) <=> About(i, n, asked)
         /\ About(i, n, asked) => ~Ranged(o) /\ Net(o.value) = {n}
         /\ ~Dropped(o) /\ Answers(RowFor(o), n, asked) => n \notin Defaults
<1>1. PICK v : v = o.value
  OBVIOUS
<1>2. v \in Seq(Texts) /\ v # <<>> /\ read[i] \in Lines
  BY <1>1, ReadLine DEF Objects
<1>3. /\ n \in Net(v) <=> Len(v) = 1 /\ v[1].is = "prefix" /\ v[1].net = n
      /\ n \in Net(v) => Net(v) = {n}
  BY <1>2, NetOf
<1>4. Ranged(o) => n \notin Net(v)
  <2> SUFFICES ASSUME IsRange(v), n \in Net(v) PROVE FALSE
    BY <1>1 DEF Ranged
  <2>1. Len(v) = 1 /\ v[1].is = "prefix" /\ DOMAIN v = 1 .. 1
    BY <1>2, <1>3
  <2> QED BY <2>1 DEF IsRange
<1>5. PICK r : r = RowFor(o)
  OBVIOUS
<1>6. /\ r.net = IF Ranged(o) THEN {} ELSE Net(v)
      /\ r.origin = IF o.class = "ris" THEN RisOrigins(o.origin[1][1])
                    ELSE Normalized("origin", o.origin)
      /\ r.mntby = Normalized("mnt-by", o.mntby)
  BY <1>1, <1>5 DEF RowFor, RowOf
<1>7. n \in r.net <=> n \in Net(v)
  BY <1>4, <1>6
<1>8. ~Dropped(o) /\ n \in r.net => n \notin Defaults
  BY <1>1, <1>3, <1>4, <1>7 DEF Dropped
<1>9. asked \in Texts /\ asked.is \in {"as", "mnt"}
  BY DEF Asked
<1>10. (n \in Net(v) /\ IF asked.is = "as" THEN <<AsNumber(asked)>> \in r.origin
                        ELSE <<Upper(asked)>> \in r.mntby)
         <=> About(i, n, asked)
  <2>1. CASE source.format = "rpsl"
    <3>1. /\ Attr(i, o.class) /\ Says(v, i) /\ ClassLine(i) /\ read[i].is # "record"
          /\ Gathers(o.origin, i, "origin") /\ Gathers(o.mntby, i, "mnt-by")
      BY <1>1, <2>1 DEF Made, Gives, Attr
    <3>2. o.class # "ris"
      BY <1>2, <3>1, LineFields, ClassesAreKeys DEF Attr
    <3>3. n \in Net(v) <=> /\ More(i) = {} /\ read[i].text.is = "prefix"
                           /\ read[i].text.net = n
      BY <1>3, <3>1 DEF Says
    <3>4. About(i, n, asked) <=>
            /\ More(i) = {} /\ read[i].text.is = "prefix" /\ read[i].text.net = n
            /\ \E j \in DOMAIN read :
                 /\ Together(i, j) /\ Attr(j, Key(asked)) /\ More(j) = {}
                 /\ Means(read[j].text, asked)
      BY <3>1 DEF About
    <3>5. CASE asked.is = "as"
      <4>1. Key(asked) = "origin" /\ Conv(asked) = AsNumber(asked)
        BY <3>5 DEF Key, Conv
      <4>2. <<AsNumber(asked)>> \in r.origin <=>
              \E j \in DOMAIN read :
                /\ Together(i, j) /\ Attr(j, Key(asked)) /\ More(j) = {}
                /\ Means(read[j].text, asked)
        BY <1>6, <3>1, <3>2, <4>1, NormalizedMeans
      <4> QED BY <3>3, <3>4, <3>5, <4>2
    <3>6. CASE asked.is = "mnt"
      <4>1. Key(asked) = "mnt-by" /\ Conv(asked) = Upper(asked)
        BY <3>6 DEF Key, Conv
      <4>2. <<Upper(asked)>> \in r.mntby <=>
              \E j \in DOMAIN read :
                /\ Together(i, j) /\ Attr(j, Key(asked)) /\ More(j) = {}
                /\ Means(read[j].text, asked)
        BY <1>6, <3>1, <4>1, NormalizedMeans
      <4> QED BY <3>3, <3>4, <3>6, <4>2
    <3> QED BY <1>9, <3>5, <3>6
  <2>2. CASE source.format # "rpsl"
    <3>1. PICK l : l = read[i]
      OBVIOUS
    <3>2. l.is = "record" /\ l.origin \in Texts /\ l.prefix \in Texts
      BY <1>2, <2>2, <3>1, LineFields DEF Gives
    <3>3. PICK t : t = AsNumber(l.origin)
      OBVIOUS
    <3>4. /\ o.origin = <<<<t>>>> /\ o.mntby = <<>>
          /\ Len(v) = 1 /\ (v[1].is = "prefix" <=> l.prefix.is = "prefix")
          /\ v[1].is = "prefix" => v[1].net = l.prefix.net
          /\ o.class = "ris" <=> source.format = "riswhois"
      <4>1. CASE source.format = "riswhois"
        <5>1. o = Record("ris", l)
          BY <4>1, <3>1 DEF Made
        <5>2. o.class = "ris" /\ v = <<l.prefix>> /\ o.origin = <<<<t>>>> /\ o.mntby = <<>>
          BY <1>1, <3>3, <5>1 DEF Record
        <5> QED BY <4>1, <5>2
      <4>2. CASE source.format = "rpki_csv"
        <5>1. l.prefix.is = "prefix"
          BY <3>1, <4>2 DEF Made, Parses
        <5>2. PICK class \in {"route", "route6"} : o = Record(class, PlainRecord(l))
          BY <3>1, <4>2 DEF Made
        <5>3. /\ PlainRecord(l).prefix =
                   [is |-> "prefix", written |-> "plain", net |-> l.prefix.net]
              /\ PlainRecord(l).origin = l.origin
          BY <1>2, <3>1, <3>2, <5>1, PlainRecordIs
        <5>4. /\ o.class # "ris" /\ v = <<PlainRecord(l).prefix>>
              /\ o.origin = <<<<t>>>> /\ o.mntby = <<>>
          BY <1>1, <3>3, <5>2, <5>3 DEF Record
        <5> QED BY <4>2, <5>1, <5>3, <5>4
      <4> QED BY <2>2, <4>1, <4>2 DEF Formats
    <3>5. n \in Net(v) <=> l.prefix.is = "prefix" /\ l.prefix.net = n
      BY <1>3, <3>4
    <3>6. r.mntby = {}
      <4>1. DOMAIN o.mntby = {}
        BY <3>4
      <4> QED BY <4>1, <1>6 DEF Normalized
    <3>7. CASE asked.is = "mnt"
      BY <3>1, <3>2, <3>6, <3>7 DEF About
    <3>8. CASE asked.is = "as"
      <4>1. t \in Texts /\ AsNumber(t) = t
            /\ (AsNumber(t) = AsNumber(asked) <=> Means(t, asked))
            /\ (t = AsNumber(asked) <=> Means(l.origin, asked))
        BY <1>9, <3>2, <3>3, <3>8, AsNumberMeans
      <4>2. PICK a : a = AsNumber(asked)
        OBVIOUS
      <4>3. \A x : <<x>> = <<a>> <=> x = a
        <5> SUFFICES ASSUME NEW x PROVE <<x>> = <<a>> <=> x = a
          OBVIOUS
        <5>1. <<x>>[1] = x /\ <<a>>[1] = a
          OBVIOUS
        <5> QED BY <5>1
      <4>4. About(i, n, asked) <=>
              /\ l.prefix.is = "prefix" /\ l.prefix.net = n
              /\ \/ Means(l.origin, asked)
                 \/ /\ source.format = "riswhois" /\ l.origin.is = "set"
                    /\ asked.no \in l.origin.nos
        BY <3>1, <3>2, <3>8 DEF About
      <4>5. CASE source.format = "riswhois"
        <5>1. r.origin = RisOrigins(t)
          <6>1. <<<<t>>>>[1][1] = t
            OBVIOUS
          <6> QED BY <6>1, <1>6, <3>4, <4>5
        <5>2. CASE l.origin.is = "set"
          <6>1. t.is = "set" /\ t.nos = l.origin.nos
            BY <3>2, <3>3, <5>2, TextFields DEF AsNumber
          <6>2. r.origin = {<<[is |-> "as", spelled |-> "AS", no |-> m]>> : m \in l.origin.nos}
            BY <5>1, <6>1 DEF RisOrigins
          <6>3. a = [is |-> "as", spelled |-> "AS", no |-> asked.no]
            BY <1>9, <3>8, <4>2, TextFields DEF AsNumber
          <6>4. \A m : [is |-> "as", spelled |-> "AS", no |-> m] = a <=> m = asked.no
            BY <6>3
          <6>5. <<a>> \in r.origin <=> asked.no \in l.origin.nos
            BY <6>2, <6>4, <4>3
          <6>6. ~Means(l.origin, asked)
            BY <5>2 DEF Means
          <6> QED BY <3>5, <3>8, <4>2, <4>4, <4>5, <5>2, <6>5, <6>6
        <5>3. CASE l.origin.is # "set"
          <6>1. t.is # "set"
            BY <3>2, <3>3, <5>3, TextFields DEF AsNumber
          <6>2. r.origin = {<<t>>}
            BY <5>1, <6>1 DEF RisOrigins
          <6>3. <<a>> \in r.origin <=> Means(l.origin, asked)
            BY <6>2, <4>1, <4>2, <4>3
          <6> QED BY <3>5, <3>8, <4>2, <4>4, <5>3, <6>3
        <5> QED BY <5>2, <5>3
      <4>6. CASE source.format # "riswhois"
        <5>1. r.origin = Normalized("origin", <<<<t>>>>)
          BY <1>6, <3>4, <4>6
        <5>2. Normalized("origin", <<<<t>>>>) = {<<t>>}
          <6>1. /\ DOMAIN <<<<t>>>> = {1} /\ <<<<t>>>>[1] = <<t>>
                /\ Len(<<t>>) = 1 /\ <<t>>[1] = t
            OBVIOUS
          <6>2. {<<<<t>>>>[p] : p \in DOMAIN <<<<t>>>>} = {<<t>>}
            BY <6>1
          <6> QED BY <6>1, <6>2, <4>1 DEF Normalized
        <5>3. <<a>> \in r.origin <=> Means(l.origin, asked)
          BY <5>1, <5>2, <4>1, <4>2, <4>3
        <5> QED BY <3>5, <3>8, <4>2, <4>4, <4>6, <5>3
      <4> QED BY <4>5, <4>6
    <3> QED BY <1>9, <3>7, <3>8
  <2> QED BY <2>1, <2>2
<1> QED BY <1>1, <1>3, <1>4, <1>5, <1>7, <1>8, <1>10 DEF Answers

-----------------------------------------------------------------------------
(* The theorems *)

LEMMA ImportInvKept == ImportInv /\ [Next]_vars => ImportInv'
<1> SUFFICES ASSUME ImportInv, [Next]_vars
             PROVE  ImportInv'
  OBVIOUS
<1>1. TypeInv /\ TypeInv'
  BY TypeKept DEF ImportInv
<1>2. CASE ReadFails
  BY <1>1, <1>2 DEF ReadFails, Fail, ImportInv, RefusedForCause
<1>3. CASE UnknownFormat
  BY <1>1, <1>3 DEF UnknownFormat, Fail, ImportInv, RefusedForCause, Faulty
<1>4. ASSUME NEW line \in source.lines,
             LineRefused(line) \/ RpslLine(line) \/ RisLine(line) \/ RpkiLine(line)
      PROVE  ImportInv'
  BY <1>1, <1>4, LineRefusedKept, RpslKept, RisKept, RpkiKept
<1>5. CASE FileEnds
  BY <1>1, <1>5, FileEndsKept
<1>6. CASE InsertObject
  BY <1>1, <1>6, InsertKept
<1>7. CASE Commit
  <2>1. /\ pc' = "done" /\ pc = "insert" /\ UNCHANGED <<source, read, objects, rows>>
        /\ objects = <<>> /\ source.format \in Formats /\ InsertInv
    BY <1>7 DEF Commit, ImportInv
  <2>2. \A x : \A j : (Gives(j)' <=> Gives(j)) /\ (Made(x, j)' <=> Made(x, j))
    BY <2>1, SameFile
  <2>3. \A x : (Dropped(x)' <=> Dropped(x)) /\ RowFor(x)' = RowFor(x)
    BY DEF Dropped, RowFor, Ranged, RowOf, IsRange, Net, RisOrigins, Normalized, AsNumber,
           Upper
  <2>4. Pending' = Pending
    BY <2>1 DEF Pending, Elements
  <2>5. InsertInv'
    BY <2>1, <2>2, <2>3, <2>4 DEF InsertInv
  <2> QED BY <1>1, <2>1, <2>5 DEF ImportInv, RefusedForCause, OnlyRecords
<1>8. CASE UNCHANGED vars
  <2>1. UNCHANGED <<source, pc, read, attrs, lastKey, objects, rows>>
    BY <1>8 DEF vars
  <2>2. Faulty' <=> Faulty
    BY <2>1 DEF Faulty, HeaderRead, ClassLine, Attr, Together, Blank, More, Classes, Parses
  <2>3. \A x : \A j : (Gives(j)' <=> Gives(j)) /\ (Made(x, j)' <=> Made(x, j))
    BY <2>1, SameFile
  <2>4. \A j : Open(j)' <=> Open(j)
    BY <2>1 DEF Open, Blank
  <2>5. \A k : Holds(k)' <=> Holds(k)
    BY <2>1 DEF Holds, Open, Blank, Attr, Says, More
  <2>6. KeepsLast' <=> KeepsLast
    BY <2>1 DEF KeepsLast, Open, Blank, Attr
  <2>7. Pending' = Pending
    BY <2>1 DEF Pending, Elements
  <2>8. \A x : (Dropped(x)' <=> Dropped(x)) /\ RowFor(x)' = RowFor(x)
    BY DEF Dropped, RowFor, Ranged, RowOf, IsRange, Net, RisOrigins, Normalized, AsNumber,
           Upper
  <2>9. ParseInv' <=> ParseInv
    BY <2>1, <2>3, <2>4, <2>5, <2>6, <2>7 DEF ParseInv, BlockInv
  <2>10. InsertInv' <=> InsertInv
    BY <2>1, <2>3, <2>7, <2>8 DEF InsertInv
  <2> QED BY <1>1, <2>1, <2>2, <2>9, <2>10 DEF ImportInv, RefusedForCause, OnlyRecords
<1> QED BY <1>2, <1>3, <1>4, <1>5, <1>6, <1>7, <1>8 DEF Next

LEMMA ImportInvHolds == Spec => []ImportInv
<1>1. Init => ImportInv
  <2> SUFFICES ASSUME Init PROVE ImportInv
    OBVIOUS
  <2>1. /\ source \in Sources /\ pc = "parse" /\ read = <<>> /\ attrs = NoAttrs
        /\ lastKey = NoKey /\ objects = <<>> /\ rows = {}
    BY DEF Init
  <2>2. DOMAIN read = {} /\ DOMAIN objects = {}
    BY <2>1
  <2>3. <<>> \in Seq(Seq(Texts) \ {<<>>})
    OBVIOUS
  <2>4. attrs \in [Keys -> Seq(Seq(Texts) \ {<<>>})]
    BY <2>1, <2>3 DEF NoAttrs
  <2>5. TypeInv
    BY <2>1, <2>2, <2>4 DEF TypeInv
  <2>6. ASSUME NEW k \in Keys
        PROVE  Holds(k)
    <3>1. attrs[k] = <<>> /\ DOMAIN attrs[k] = {}
      BY <2>1 DEF NoAttrs
    <3>2. [x \in {} |-> 0] \in [{} -> Nat]
      OBVIOUS
    <3> QED BY <2>2, <3>1, <3>2 DEF Holds
  <2>7. ParseInv
    BY <2>1, <2>2, <2>6 DEF ParseInv, BlockInv, KeepsLast, Pending, Elements
  <2> QED BY <2>1, <2>2, <2>5, <2>7 DEF ImportInv, RefusedForCause, OnlyRecords
<1> QED BY <1>1, ImportInvKept, PTL DEF Spec

\* Of any file of any source: what it is refused for is a fault in it
\* (rpsl/parser.go 65-97, ris/parser.go 18-61, rpki/parser.go 13-95, store.go
\* 205-235, 316-366).
THEOREM RefusedForCauseHolds == Spec => []RefusedForCause
<1>1. ImportInv => RefusedForCause
  BY DEF ImportInv
<1> QED BY <1>1, ImportInvHolds, PTL

\* Of any file of any source, of any length: a query of what was imported finds
\* the prefixes the file binds to what is asked, and no other (rpsl/parser.go
\* 20-121, ris/parser.go 18-61, rpki/parser.go 13-95, store.go 205-366, query.go
\* 11-77).
THEOREM AnswersAreTheFilesHolds == Spec => []AnswersAreTheFiles
<1>1. ImportInv => AnswersAreTheFiles
  <2> SUFFICES ASSUME ImportInv, pc = "done", NEW asked \in Asked, NEW family \in {4, 6}
               PROVE  Answer(asked, family) =
                        {n \in Nets \ Defaults : FamilyOf[n] = family /\
                           \E i \in DOMAIN read : About(i, n, asked)}
    BY DEF AnswersAreTheFiles, Asked
  <2>1. TypeInv /\ InsertInv /\ source.format \in Formats /\ Pending = {} /\ OnlyRecords
    BY DEF ImportInv, Pending, Elements
  <2>2. asked \in Texts /\ asked.is \in {"as", "mnt"}
    BY DEF Asked
  <2>3. \A n : n \in Answer(asked, family) <=>
          n \in Nets /\ FamilyOf[n] = family /\ \E r \in rows : Answers(r, n, asked)
    BY DEF Answer, Answers
  <2>4. ASSUME NEW n \in Nets, NEW r \in rows, Answers(r, n, asked)
        PROVE  n \notin Defaults /\ \E i \in DOMAIN read : About(i, n, asked)
    <3>1. PICK o \in Objects, i \in DOMAIN read :
            Gives(i) /\ Made(o, i) /\ ~Dropped(o) /\ r = RowFor(o)
      BY <2>1 DEF InsertInv
    <3> QED BY <3>1, <2>1, <2>4, RowAnswers
  <2>5. ASSUME NEW n \in Nets \ Defaults, NEW i \in DOMAIN read, About(i, n, asked)
        PROVE  \E r \in rows : Answers(r, n, asked)
    <3>1. Gives(i)
      <4>1. source.format = "rpsl" => read[i].is # "record"
        BY <2>1, ReadLine
      <4>2. source.format # "rpsl" => read[i].is = "record"
        BY <2>1, <2>5 DEF OnlyRecords, About, ClassLine, Attr
      <4> QED BY <2>5, <4>1, <4>2 DEF About, Gives
    <3>2. PICK o \in Objects : Made(o, i) /\ (Dropped(o) \/ RowFor(o) \in rows)
      BY <2>1, <3>1 DEF InsertInv
    <3>3. /\ Answers(RowFor(o), n, asked) <=> About(i, n, asked)
          /\ About(i, n, asked) => ~Ranged(o) /\ Net(o.value) = {n}
      BY <2>1, <3>1, <3>2, RowAnswers
    <3>4. ~Dropped(o)
      BY <2>5, <3>3 DEF Dropped
    <3> QED BY <2>5, <3>2, <3>3, <3>4
  <2> QED BY <2>3, <2>4, <2>5
<1> QED BY <1>1, ImportInvHolds, PTL

=============================================================================
