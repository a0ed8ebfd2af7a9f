------------------------------- MODULE Manifest -------------------------------
(***************************************************************************)
(* The commands of irrindex that stand on package manifest, as run and     *)
(* runManifest in cmd/irrindex/main.go dispatch them: "extract-queries"    *)
(* and "manifest summarize".  They share no state; a command line without  *)
(* a subcommand, or with another, does nothing.                            *)
(***************************************************************************)
EXTENDS ExtractQueries, Retention

VARIABLE command

manifestVars == <<command, extractVars, retentionVars>>

CommandLines == {<<"extract-queries">>, <<"manifest", "summarize">>, <<"manifest">>}

Init ==
  /\ command \in CommandLines
  /\ ExtractInit /\ RetentionInit

Next ==
  /\ UNCHANGED command
  /\ \/ /\ command = <<"extract-queries">>
        /\ ExtractNext /\ UNCHANGED retentionVars
     \/ /\ command = <<"manifest", "summarize">>
        /\ RetentionNext /\ UNCHANGED extractVars

Spec == Init /\ [][Next]_manifestVars
=============================================================================
