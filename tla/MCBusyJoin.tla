----------------------------- MODULE MCBusyJoin ------------------------------
(* Instances of BusyJoin. *)
EXTENDS BusyJoin, MCChordMembership

\* New contents for both files, and the deletion of one.
SomeWrites == {<<a, v2>>, <<a, Absent>>, <<b, v1>>}
=============================================================================
