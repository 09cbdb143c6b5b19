------------------------------ MODULE MCSubIds ------------------------------
(* A host with thirteen ids and users who may own up to two ranges of them. *)
EXTENDS SubIds

MCHostIds == 0..12
=============================================================================
