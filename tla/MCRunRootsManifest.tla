------------------------- MODULE MCRunRootsManifest -------------------------
(* Two launchers over a disk with room for three files, so that both build *)
(* at once next to a published one.  What a free file once held is not     *)
(* told apart: no step reads it.                                           *)
EXTENDS RunRootsManifest, TLC

CONSTANTS p1, p2, f1, f2, f3

MCPids == {p1, p2}
MCInodes == {f1, f2, f3}
MCView ==
    <<procVars, nameVars, diskVars, losses,
      [i \in MCInodes \ Free |-> <<data[i], i \in synced>>]>>
MCSymmetry == Permutations(MCPids) \union Permutations(MCInodes)
=============================================================================
