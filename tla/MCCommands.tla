----------------------------- MODULE MCCommands -----------------------------
(***************************************************************************)
(* Three descriptors: a dust output, a wrapped-segwit output and one whose *)
(* parent output reports a script type missing from the table.            *)
(***************************************************************************)
EXTENDS Commands, TLC

CONSTANTS u1, u2, u3

MCUtxos == {u1, u2, u3}

MCValue == (u1 :> 500) @@ (u2 :> 3000) @@ (u3 :> 100000)

MCReported == (u1 :> "witness_v0_keyhash") @@ (u2 :> "scripthash") @@ (u3 :> "multisig")

MCKnownTypes == {"pubkeyhash", "scripthash", "witness_v0_keyhash", "witness_v1_taproot"}

\* dl may return the two good descriptors, or all three.
MCDlLists == {<<u1, u2>>, <<u1, u2, u3>>}

(* Spec 8, fee heuristic: two inputs summing to 100,000 at 10 sats/vbyte  *)
(* give an output of 98,000.                                              *)
ASSUME FeeExample ==
    LET v == (u1 :> 40000) @@ (u2 :> 60000)
    IN  FoldLeft(LAMBDA acc, u : acc + v[u], 0, <<u1, u2>>) - 10 * 100 * 2 = 98000

=============================================================================
