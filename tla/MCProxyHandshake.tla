-------------------------- MODULE MCProxyHandshake --------------------------
(* Versions on both sides of every threshold: below the floor, at it, below *)
(* and at the feature exchange, above it, and of another major; one feature *)
(* that may become ours and one that stays foreign.                         *)
(* Some guest sends more than the two bytes that are looked at.             *)
EXTENDS ProxyHandshake

MCVersions == {Wire(1, 34), Wire(1, 35), Wire(1, 37), Wire(1, 38),
               Wire(1, 39), Wire(2, 38)}
MCGuestVersions == MCVersions \union {Wire(256, 0) + Wire(1, 38)}
MCFeatures == {"realisation-with-path", "foreign"}
=============================================================================
