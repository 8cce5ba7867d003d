---------------------------- MODULE MCLineEditor ----------------------------
(* A finite instance of LineEditor: one letter, two commands, some files.  *)
EXTENDS LineEditor, TLC

Letters  == {"l", " ", "/"}
Commands == {<<"l">>, <<"l", "l">>}
Stop     == {<<"l">>}

File(name) == [name |-> name, is_dir |-> FALSE]
Dir(name)  == [name |-> name, is_dir |-> TRUE]
Tree ==
  (<<>> :> {Dir(<<"l">>)}) @@ (<<"l">> :> {File(<<"l", "l">>)}) @@ (<<"/">> :> {File(<<"l">>)})
=============================================================================
