----------------------------- MODULE MCShadowRun -----------------------------
(***************************************************************************)
(* Instances of ShadowRun for TLC: short scripts in which a request comes  *)
(* back, a feed that may fail, and a registry the index does not agree     *)
(* with.  Invocations with one downloader run at the same time; with two,  *)
(* of every kind of command, one after the other.                          *)
(***************************************************************************)
EXTENDS ShadowRun, TLC

CONSTANTS i1, i2, fastly, cogent, x, y, as, feed, geo

Irr == [kind |-> "irr", keys |-> {as}, onFailure |-> {"go on"}]
Feed(key, after) == [kind |-> "feed", keys |-> {key}, onFailure |-> after]
Urls == [kind |-> "urls", keys |-> {feed, geo},
         onFailure |-> {"go on"}]
Direct == [kind |-> "direct", keys |-> {geo}, onFailure |-> {"go on"}]

Ok(a) == [ok |-> TRUE, body |-> {a}]
Down == [ok |-> FALSE, body |-> {}]

Scripts == cogent :> <<Irr, Feed(feed, {"go on", "stop"})>>
        @@ fastly :> <<Feed(geo, {"stop"}), Urls, Direct>>
Race == [selected |-> <<cogent>>, overlap |-> TRUE]
Alone == [selected |-> <<cogent, fastly>>, overlap |-> FALSE]
RaceAndAlone == {Race, Alone}
OnlyAlone == {Alone}

NetworkReplies == as :> {Ok(x), Ok(y)} @@ feed :> {Ok(x), Down} @@ geo :> {Ok(y), Down}
IndexIsBehind == {Ok(y)}
Repository == cogent :> {x} @@ fastly :> {y}

InvocationSymmetry == Permutations(Invocations)
=============================================================================
