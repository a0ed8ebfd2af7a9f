------------------------------- MODULE MCImport -------------------------------
(***************************************************************************)
(* An instance of Import for TLC: for every format a small alphabet of     *)
(* lines, with every spelling, of which files of up to five lines are      *)
(* made.                                                                   *)
(***************************************************************************)
EXTENDS Import, TLC

CONSTANTS x4, x6, zero, m1

Families == x4 :> 4 @@ x6 :> 6 @@ zero :> 4

As(spelled, n) == [is |-> "as", spelled |-> spelled, no |-> n]
Mnt(up) == [is |-> "mnt", upper |-> up, name |-> m1]
Prefix(how, n) == [is |-> "prefix", written |-> how, net |-> n]
Plain(what) == [is |-> what]
Attribute(k, t) == [is |-> "attr", key |-> k, text |-> t]
RecordLine(o, p) == [is |-> "record", origin |-> o, prefix |-> p]

RpslLines ==
  {Plain("blank"), Plain("junk"), Plain("long"),
   [is |-> "more", text |-> As("AS", 1)],
   Attribute("route", Prefix("hostbits", x4)), Attribute("route", Prefix("zeros", zero)),
   Attribute("route6", Prefix("plain", x6)),
   Attribute("inetnum", Plain("range")), Attribute("inetnum", Prefix("zeros", x4)),
   Attribute("inetnum", Plain("half")),
   Attribute("origin", As("as", 1)), Attribute("origin", As("", 2)),
   Attribute("mnt-by", Mnt(FALSE))}

RecordLines ==
  {Plain("blank"), Plain("header"), Plain("junk"), [is |-> "comment", sign |-> "%"],
   [is |-> "comment", sign |-> "#"],
   RecordLine(As("", 1), Prefix("hostbits", x4)),
   RecordLine(As("as", 2), Prefix("zeros", x4)),
   RecordLine(As("AS", 2), Prefix("plain", x6)),
   RecordLine([is |-> "set", spelled |-> "", nos |-> {1, 2}], Prefix("plain", x4)),
   RecordLine(As("AS", 1), Prefix("hostbits", zero)),
   RecordLine(As("AS", 1), Plain("word"))}

SomeSources ==
  {[format |-> "rpsl", family |-> 0, lines |-> RpslLines]}
    \cup [format : {"riswhois"}, family : {0, 4}, lines : {RecordLines}]
    \cup {[format |-> "rpki_csv", family |-> 0, lines |-> RecordLines]}
    \cup {[format |-> "json", family |-> 0, lines |-> RecordLines]}
=============================================================================
