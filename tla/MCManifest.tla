------------------------------ MODULE MCManifest ------------------------------
(***************************************************************************)
(* An instance of Manifest for TLC: scripts put together of up to four     *)
(* functions and two pieces that call them, and six snapshots of two known *)
(* cadences and an unknown one.                                            *)
(***************************************************************************)
EXTENDS Manifest, TLC

CONSTANTS service, other, ripe, radb, hripe, hradb, routes, maint, asn, mnt,
          as1, as2, set

Names == hripe :> ripe @@ hradb :> radb

Function(n, body) == <<[is |-> "helper", name |-> n]>> \o body \o <<[is |-> "end"]>>
Whois(h, what) == <<[is |-> "whois", host |-> h, asks |-> what]>>
Call(n, v) == <<[is |-> "call", name |-> n, arg |-> v]>>
Loop(x, vs, body) ==
  <<[is |-> "for", var |-> x, values |-> vs]>> \o body \o <<[is |-> "done"]>>

\* The body of a function: of one kind, of none, of both, in either order.
Bodies ==
  {Whois(hripe, "origin") \o Whois(hradb, "origin"),
   Whois(hripe, "mnt-by") \o <<[is |-> "other"]>>,
   Whois(hradb, "mnt-by") \o Whois(hripe, "other"),
   Whois(hripe, "other"),
   Whois(hripe, "origin") \o Whois(hradb, "mnt-by"),
   Whois(hradb, "mnt-by") \o Whois(hripe, "origin")}

Pieces ==
  {<<[is |-> "other"]>>,
   Call(routes, as1), Call(routes, set), Call(maint, set), Call(maint, Empty),
   Call(maint, asn), Call(maint, as1),
   Loop(asn, {as1, as2}, Call(routes, asn)),
   Loop(mnt, {set, as1}, Call(maint, mnt) \o Call(routes, as2)),
   Loop(asn, {as1, set}, Call(routes, asn) \o Call(maint, asn)),
   Loop(asn, {as1}, Loop(mnt, {set}, Call(maint, mnt)) \o Call(routes, asn)),
   Loop(asn, {as2}, Call(routes, asn) \o Loop(mnt, {set}, Call(maint, asn)))}

\* The last of them ends in a function that is never closed.
SomeScripts ==
  {Function(routes, b) \o Function(maint, c) \o p \o q :
     b, c \in Bodies, p, q \in Pieces}
  \cup {Call(routes, as1) \o <<[is |-> "helper", name |-> routes]>> \o b : b \in Bodies}

ScriptsOf ==
  service :> (SomeScripts \cup {NoScript})
    @@ other :> {NoScript, Function(maint, Whois(hradb, "mnt-by")) \o Call(maint, set)}

SomeSnapshots ==
  {[name |-> 1, cadence |-> "daily", at |-> 1], [name |-> 2, cadence |-> "daily", at |-> 2],
   [name |-> 3, cadence |-> "daily", at |-> 2], [name |-> 4, cadence |-> "daily", at |-> 3],
   [name |-> 5, cadence |-> "weekly", at |-> 2], [name |-> 6, cadence |-> "hourly", at |-> 3]}

Counts == [c \in {"daily", "weekly"} |-> IF c = "daily" THEN 2 ELSE 0]
=============================================================================
