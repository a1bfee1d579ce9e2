------------------------------- MODULE MCReload -------------------------------
(***************************************************************************)
(* Two files, two versions of the first and one of the second, and a text  *)
(* that does not validate; one reload and two saves at most.              *)
(***************************************************************************)
EXTENDS Reload, TLC

Text(name, version, valid) == [name |-> name, version |-> version, valid |-> valid]

MCTexts == {Text(1, 1, TRUE), Text(1, 2, TRUE), Text(2, 1, TRUE), Text(2, 2, FALSE)}

OneFile == <<Text(1, 1, TRUE), NoText>>

HandlerSymmetry == Permutations(Reloaders) \union Permutations(Savers)

=============================================================================
