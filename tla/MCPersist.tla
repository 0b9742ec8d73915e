----------------------------- MODULE MCPersist -----------------------------
(* A disk of ten sectors with a four-sector journal partition (superblock, *)
(* two sectors of two records, scratch), or none at all.                   *)
EXTENDS Persist

MCWhat == 1..MaxBoots
=============================================================================
