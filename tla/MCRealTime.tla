------------------------------ MODULE MCRealTime ------------------------------
(* A simulation in real time for TLC, its times in half milliseconds.  A     *)
(* user may also set a reference point that no frame took place at.          *)
EXTENDS RealTime

MCStrength == <<30, 70, 100>>
MCReferences == {<<5, 1>>}
===============================================================================
