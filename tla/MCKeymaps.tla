------------------------------ MODULE MCKeymaps ------------------------------
(* Keymaps for TLC: two keymaps of the default map, or one of them and a mode,  *)
(* on sequences that share the prefix x.                                        *)
EXTENDS Keymaps, TLC

CONSTANTS global, mine, w1

MCRoots   == {global, mine}
MCBase    == (global :> <<>>) @@ (mine :> <<mine>>)
MCTwoBase == (global :> <<>>) @@ (mine :> <<>>)
MCSeqs    == {<<"x">>, <<"x", "y">>}

=============================================================================
