------------------------------- MODULE MCYard -------------------------------
(* Three entries to a table, so that the top table has a slot for the       *)
(* identity map, one for a device far above it and one for the yard.        *)
EXTENDS Yard

MCRegionEnds == {{4}, {9, 40}}

\* Registers inside the identity map across the boundary of two large
\* pages, above the map in its slot, and in a slot of their own across the
\* boundary of two directories.
MCDevices == {<<3, 2>>, <<14, 1>>, <<29, 3>>}
=============================================================================
