------------------------------- MODULE Journal -------------------------------
(***************************************************************************)
(* The hash-chained log on disk (libs/journal/src/lib.rs): superblock in   *)
(* sector 0 of the storage, records after it, RECORDS_PER_SECTOR to a      *)
(* sector.  Pure operators over the sectors as reads see them; the order   *)
(* of the writes is in module Persist.                                     *)
(*                                                                         *)
(* SHA-256 is taken to be free of collisions: the hash of a record and the *)
(* hash before it is the sequence of all records up to it.  The capacity   *)
(* cap MAX_RECORDS (2^20) is not reached and left out.                     *)
(***************************************************************************)
EXTENDS Integers, Sequences

CONSTANT RECORDS_PER_SECTOR

ASSUME RecordsPerSectorAssumption == RECORDS_PER_SECTOR \in Nat \ {0}

SUPERBLOCK_SECTOR == 0
FIRST_RECORD_SECTOR == 1

ZeroHash == <<>>
hash(record, previous) == Append(previous, record)

Unwritten == [kind |-> "Unwritten"]
Superblock(journal) == [kind |-> "Superblock", count |-> journal.count, tip |-> journal.tip]
Log(count, tip) == [count |-> count, tip |-> tip]

record_capacity(sectors) ==
  IF sectors > FIRST_RECORD_SECTOR
    THEN (sectors - FIRST_RECORD_SECTOR) * RECORDS_PER_SECTOR ELSE 0

sector_of(index) == FIRST_RECORD_SECTOR + index \div RECORDS_PER_SECTOR
record_slot(index) == index % RECORDS_PER_SECTOR

(* What is stored for record `index`; sectors maps the storage's sector    *)
(* numbers to contents.                                                    *)
read_record(sectors, index) ==
  LET s == sectors[sector_of(index)]
  IN  IF s.kind = "Records" THEN s.slots[record_slot(index)] ELSE Unwritten

(* The link at `index` verifies against the stored hash before it. *)
Link(sectors, index) ==
  LET stored(i) == read_record(sectors, i)
      previous == IF index = 0 THEN ZeroHash ELSE stored(index - 1).hash
  IN  /\ stored(index).kind = "Record"
      /\ stored(index).hash = hash(stored(index).record, previous)

(* Mutant: the chain is walked but its end is not compared with the tip. *)
tip_matches_Unchecked(sectors, superblock) == TRUE

tip_matches(sectors, superblock) ==
  superblock.tip = IF superblock.count = 0 THEN ZeroHash
                   ELSE read_record(sectors, superblock.count - 1).hash

(* Journal::open on readable storage of `count` sectors: the fault, or the *)
(* log, every link of it verified.                                         *)
open(sectors, count) ==
  LET superblock == sectors[SUPERBLOCK_SECTOR]
      fault(f) == [ok |-> FALSE, fault |-> f]
  IN  IF superblock.kind # "Superblock" THEN fault("NoJournal")
      ELSE IF \/ superblock.count > record_capacity(count)
              \/ \E i \in 0..(superblock.count - 1) : ~Link(sectors, i)
              \/ ~tip_matches(sectors, superblock)
             THEN fault("ChainBroken")
      ELSE [ok |-> TRUE, journal |-> Log(superblock.count, superblock.tip)]

(* Mutant: the sector is written afresh, without its other records. *)
record_sector_Fresh(sectors, journal, record) ==
  [kind |-> "Records",
   slots |-> [s \in 0..(RECORDS_PER_SECTOR - 1) |->
                IF s = record_slot(journal.count)
                  THEN [kind |-> "Record", record |-> record, hash |-> hash(record, journal.tip)]
                  ELSE Unwritten]]

(* The sector append writes for the next record: read, modified, written,  *)
(* because the records already in it are part of the chain.  The first     *)
(* record of a sector starts from zeros.                                   *)
record_sector(sectors, journal, record) ==
  LET slot == record_slot(journal.count)
      old == sectors[sector_of(journal.count)]
  IN  [kind |-> "Records",
       slots |-> [s \in 0..(RECORDS_PER_SECTOR - 1) |->
                    IF s = slot
                      THEN [kind |-> "Record", record |-> record,
                            hash |-> hash(record, journal.tip)]
                    ELSE IF slot # 0 /\ old.kind = "Records" THEN old.slots[s]
                    ELSE Unwritten]]

(* Mutant: the chain is not carried on. *)
advanced_StaleTip(journal, record) == Log(journal.count + 1, journal.tip)

(* The journal in memory once the record is written. *)
advanced(journal, record) == Log(journal.count + 1, hash(record, journal.tip))
=============================================================================
