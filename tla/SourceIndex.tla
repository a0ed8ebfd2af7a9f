----------------------------- MODULE SourceIndex -----------------------------
(***************************************************************************)
(* What the irrindex database promises its readers: a map from source name *)
(* to the whole of one dump of that source.  A build replaces the entry of *)
(* one source at a time, in one step; a source whose import fails becomes  *)
(* failed and empty, and a source no build has reached is missing.         *)
(***************************************************************************)
CONSTANTS
  Names,      \* source names
  Entries,    \* sets of rows that the import of a whole dump can produce
  Missing,    \* entry of a source without a row in table sources
  Failed      \* entry of a source with ok = 0

VARIABLE published

Init == published = [n \in Names |-> Missing]

\* A dump of the source is imported whole.
Import(n) ==
  \E e \in Entries[n] : published' = [published EXCEPT ![n] = e]

\* The import failed and that is recorded.
Fail(n) == published' = [published EXCEPT ![n] = Failed]

Next == \E n \in Names : Import(n) \/ Fail(n)

Spec == Init /\ [][Next]_published
=============================================================================
