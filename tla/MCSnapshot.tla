----------------------------- MODULE MCSnapshot -----------------------------
(***************************************************************************)
(* An instance of Snapshot for TLC: an FTP and an HTTP source, and two     *)
(* dumps of which one has no row.  An import can fail on either, so a dump *)
(* that does not parse would add nothing.                                  *)
(***************************************************************************)
EXTENDS Snapshot

CONSTANTS radb, ripe, full, bare
=============================================================================
