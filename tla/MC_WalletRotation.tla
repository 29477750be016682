------------------------- MODULE MC_WalletRotation -------------------------
(* Instances of WalletRotation: three wallets, two connections.            *)
EXTENDS WalletRotation

\* Two orders of merit: a wallet that joins beats one that is tracked.
Rankings == {1 :> 3 @@ 2 :> 1, 2 :> 1 @@ 3 :> 4}

Symmetry == Permutations(Conns)
=============================================================================
