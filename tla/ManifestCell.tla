---------------------------- MODULE ManifestCell ----------------------------
(***************************************************************************)
(* What the manifest cache promises the launchers, without files: a cell   *)
(* that is empty or holds a whole manifest.  A launcher that finds it      *)
(* filled, or fills it, hands the manifest to its proxy; one that finds it *)
(* empty goes without fills.  Only a power loss empties the cell.          *)
(***************************************************************************)
CONSTANT Launchers

VARIABLES
    cell,   \* "empty" or "whole"
    grant   \* per launcher: "pending", "fills", "nofills", "refused"

cellVars == <<cell, grant>>

Init ==
    /\ cell = "empty"
    /\ grant = [p \in Launchers |-> "pending"]

Resolve(p, g) ==
    /\ grant[p] = "pending"
    /\ grant' = [grant EXCEPT ![p] = g]
    /\ UNCHANGED cell

\* The manifest is handed over whole, or not at all.
Fills(p)   == cell = "whole" /\ Resolve(p, "fills")
NoFills(p) == Resolve(p, "nofills")
Refuse(p)  == Resolve(p, "refused")

Publish == cell' = "whole" /\ UNCHANGED grant

\* A process ends, and another one comes under its pid.
Again(p) == grant' = [grant EXCEPT ![p] = "pending"] /\ UNCHANGED cell

PowerLoss ==
    /\ cell' \in {cell, "empty"}
    /\ grant' = [p \in Launchers |-> "pending"]

Next ==
    \/ \E p \in Launchers : Fills(p) \/ NoFills(p) \/ Refuse(p) \/ Again(p)
    \/ Publish
    \/ PowerLoss

Spec == Init /\ [][Next]_cellVars
=============================================================================
