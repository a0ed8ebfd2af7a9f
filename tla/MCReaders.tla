------------------------------ MODULE MCReaders ------------------------------
(***************************************************************************)
(* An instance of Readers for TLC: two registries, one of which a host     *)
(* mirrors besides its own, a host the index does not model, an address    *)
(* range that is no prefix, and scripts that ask two hosts for one         *)
(* attribute or for two.                                                   *)
(***************************************************************************)
EXTENDS Readers, TLC

CONSTANTS r1, r2, radb, ripe, absent, hradb, hripe, apnic, mradb, mripe,
          akamai, alibaba, x4, x6, span, a, b

TwoHosts == {NoHost, hradb, hripe, apnic}
TwoMirrors == {mradb, mripe, apnic}
NamesOfHosts == hradb :> mradb @@ hripe :> mripe @@ apnic :> apnic
SourcesOfMirrors == mradb :> {radb, ripe} @@ mripe :> {ripe, absent}
Families == x4 :> 4 @@ x6 :> 6 @@ span :> 4

SmallEntries ==
  radb :> {{}, {<<x4, {a, b}>>}}
    @@ ripe :> {{<<x4, {a}>>, <<x6, {a}>>, <<span, {a}>>}}

Scripts ==
  akamai :> {<<hradb, a>>, <<hripe, a>>} @@ alibaba :> {<<apnic, b>>, <<hripe, a>>}

\* Every comparison and script; of the others a few: a query (no host), and
\* hosts that stand for two registries, for one, and for none.
SomeCommands ==
  [cmd : {"compare", "verify"}]
    \cup [cmd : {"script"}, downloader : Downloaders]
    \cup {[cmd |-> "query", attr |-> a, family |-> 6]}
    \cup [cmd : {"whois-shim"}, host : {hradb, apnic}, attr : {b}]
    \cup {[cmd |-> "whois-shim", host |-> hripe, attr |-> a]}

ReaderSymmetry == Permutations(Readers)
=============================================================================
