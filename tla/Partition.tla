------------------------------ MODULE Partition ------------------------------
(***************************************************************************)
(* Finding the journal's place on a disk (libs/gpt/src/lib.rs): the table  *)
(* headers and the partition array.                                        *)
(*                                                                         *)
(* A sector holds a record with a `kind`.  A header or an array that fails *)
(* its signature, size or checksum test is one of kind "Damaged": which of *)
(* the tests fails makes no difference to find.  The array is one sector   *)
(* and lists at most one partition of the type looked for.                 *)
(***************************************************************************)
EXTENDS Integers

parse_header(sector) == sector.kind = "Header"

sound_bounds(entry, total) ==
  entry.first_lba <= entry.last_lba /\ entry.last_lba < total

(* The partition's bounds, or the fault.  view is the disk as reads see    *)
(* it, total the sector count the storage reports.                         *)
find(view, total) ==
  LET fault(f) == [ok |-> FALSE, fault |-> f]
      at == IF parse_header(view[1]) THEN 1
            ELSE IF total > 1 /\ parse_header(view[total - 1]) THEN total - 1 ELSE 0
      entries == view[view[at].entries_lba]
  IN  IF at = 0 THEN fault("NoTable")
      ELSE IF entries.kind # "Entries" THEN fault("Corrupt")
      ELSE IF ~entries.journal THEN fault("NoTable")
      ELSE IF ~sound_bounds(entries, total) THEN fault("Corrupt")
      ELSE [ok |-> TRUE, first_lba |-> entries.first_lba, last_lba |-> entries.last_lba]
=============================================================================
