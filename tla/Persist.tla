------------------------------- MODULE Persist -------------------------------
(***************************************************************************)
(* Making SIJIL survive the power going out (nawa/kernel/src/persist.rs):  *)
(* each boot finds the journal's place on the disk (Partition), proves the *)
(* disk round-trips on a scratch sector, opens or starts the log (Journal) *)
(* and appends what the ring retains (Sijil).                              *)
(*                                                                         *)
(* One sector write is one step, so that the power can go out between any  *)
(* two, and so can the device give up.  The device is external: a write it *)
(* accepts is pending until a flush; one that fails is refused, or times   *)
(* out and may still land, after which the driver's queue is broken and    *)
(* every later request of this boot fails.                                 *)
(***************************************************************************)
EXTENDS Partition, Journal, Sijil, FiniteSetsExt, SequencesExt

CONSTANTS Images,       \* disks the machine may be started on
          SECTORS,      \* the device's capacity in sectors
          FirstLba, LastLba,     \* the journal's partition on a partitioned disk
          MaxBoots, MaxEntries,  \* bounds: power cycles, entries per boot,
          MaxAstray              \* and boots in which find cannot read

ASSUME PersistAssumption ==
  /\ Images \subseteq {"bare", "partitioned", "damaged"}
  /\ SECTORS \in Nat /\ FirstLba \in 4..LastLba /\ LastLba \in 4..(SECTORS - 3)
  /\ MaxBoots \in Nat /\ MaxEntries \in Nat /\ MaxAstray \in Nat

VARIABLES image,         \* which disk: fixed
          durable,       \* what the medium holds
          pending,       \* writes accepted since the last flush, in order
          broken,        \* Queue.broken of the block driver
          pc,            \* where persist::run is
          storage,       \* the Sectors the journal was given
          journal,       \* the Journal in memory
          todo,          \* ring entries for_each has yet to visit
          boot,          \* power cycles so far
          committed,     \* history: the log when a flush last succeeded
          promised,      \* history: the log this boot sets out to leave
          faulty,        \* history: a request of this boot failed
          astray,        \* history: boots in which a read of find failed
          reordered      \* history: the power once took a write and left a later one

persistVars == <<ring, next_sequence, image, durable, pending, broken, pc,
                 storage, journal, todo, boot, committed, promised, faulty, astray,
                 reordered>>

Lba == 0..(SECTORS - 1)

Blank == [kind |-> "Blank"]
Scratch == [kind |-> "Scratch"]
Foreign == [kind |-> "Foreign"]   \* boot sector, other partitions
Damaged == [kind |-> "Damaged"]
Header(lba) == [kind |-> "Header", entries_lba |-> lba]
Entries == [kind |-> "Entries", journal |-> TRUE, first_lba |-> FirstLba, last_lba |-> LastLba]

(* The disk as the image builder leaves it (xtask/src/disk.rs, write_gpt): *)
(* the backup array and header fill the last two sectors.                  *)
Original(kind) ==
  [s \in Lba |->
     IF kind = "bare" THEN Blank
     ELSE IF s = 1 THEN IF kind = "damaged" THEN Damaged ELSE Header(2)
     ELSE IF s = 2 \/ s = SECTORS - 2 THEN Entries
     ELSE IF s = SECTORS - 1 THEN Header(SECTORS - 2)
     ELSE IF s \in FirstLba..LastLba THEN Blank
     ELSE Foreign]

-----------------------------------------------------------------------------
(* The medium with the pending writes in K applied, the last of each       *)
(* sector winning, and the disk as reads see it now.                       *)
Applied(K) ==
  [s \in Lba |-> LET hits == {i \in K : pending[i].lba = s}
                 IN  IF hits = {} THEN durable[s] ELSE pending[Max(hits)].content]
View == Applied(DOMAIN pending)

(* What the medium may hold if the power goes out now: the pending writes  *)
(* up to some point, or, if the device has a write-back cache, any of      *)
(* them.                                                                   *)
OrderedImages == {Applied(1..n) : n \in 0..Len(pending)}
CrashImages == {Applied(K) : K \in SUBSET DOMAIN pending}

(* Disk::sector_count: one sector is kept back. *)
sector_count == SECTORS - 1

(* Where the journal and the scratch sector go.  An unreadable or damaged  *)
(* table sends the kernel to the whole disk.                               *)
placed(disk, readable) ==
  LET p == find(disk, sector_count)
  IN  IF readable /\ p.ok
        THEN [scratch |-> p.last_lba,
              first |-> p.first_lba,
              count |-> IF p.last_lba > p.first_lba THEN p.last_lba - p.first_lba ELSE 1]
        ELSE [scratch |-> sector_count, first |-> 0, count |-> sector_count]

(* The sectors of a storage, as a disk shows them. *)
Through(place, disk) == [n \in 0..(place.count - 1) |-> disk[place.first + n]]

(* Mutant: the scratch sector lies just behind the partition. *)
scratch_lba_Behind(place) == place.scratch + 1

scratch_lba(place) == place.scratch

-----------------------------------------------------------------------------
(* What a request does to the device.  A failed one was refused, or timed  *)
(* out: then the queue is broken, and a write may still have landed.       *)
deviceVars == <<durable, pending, broken, faulty>>

Writes(lba, content) ==
  /\ ~broken
  /\ pending' = Append(pending, [lba |-> lba, content |-> content])
  /\ UNCHANGED <<durable, broken, faulty>>

RequestFails ==
  /\ faulty' = TRUE
  /\ broken' \in {broken, TRUE}
  /\ UNCHANGED <<durable, pending>>

WriteFails(lba, content) ==
  \/ RequestFails
  \/ /\ ~broken
     /\ broken' = TRUE /\ faulty' = TRUE
     /\ pending' = Append(pending, [lba |-> lba, content |-> content])
     /\ UNCHANGED durable

Flushes ==
  /\ ~broken
  /\ durable' = View
  /\ pending' = <<>>
  /\ UNCHANGED <<broken, faulty>>

-----------------------------------------------------------------------------
NoPlace == [scratch |-> 0, first |-> 0, count |-> 0]

PersistInit ==
  /\ SijilInit
  /\ image \in Images
  /\ durable = Original(image) /\ pending = <<>> /\ broken = FALSE
  /\ pc = "up" /\ storage = NoPlace /\ journal = Log(0, ZeroHash) /\ todo = <<>>
  /\ boot = 1
  /\ committed = ZeroHash /\ promised = ZeroHash /\ faulty = FALSE
  /\ astray = 0 /\ reordered = FALSE

(* The kernel journals something, before persist::run or after it. *)
Journaled ==
  /\ pc \in {"up", "done"}
  /\ written < MaxEntries
  /\ record(boot)
  /\ UNCHANGED <<image, deviceVars, pc, storage, journal, todo, boot,
                 committed, promised, astray, reordered>>

(* persist::run asks the disk where the journal belongs. *)
Locate ==
  /\ pc = "up"
  /\ \/ /\ storage' = placed(View, TRUE)
        /\ UNCHANGED <<deviceVars, astray>>
     \/ /\ astray < MaxAstray
        /\ storage' = placed(View, FALSE)
        /\ astray' = astray + 1
        /\ RequestFails
  /\ pc' = "scratch"
  /\ UNCHANGED <<sijilVars, image, journal, todo, boot, committed,
                 promised, reordered>>

(* round_trip: write, read back, flush. *)
ScratchWrite ==
  /\ pc = "scratch"
  /\ \/ Writes(scratch_lba(storage), Scratch) /\ pc' = "scratch flush"
     \/ WriteFails(scratch_lba(storage), Scratch) /\ pc' = "open"
  /\ UNCHANGED <<sijilVars, image, storage, journal, todo, boot,
                 committed, promised, astray, reordered>>

ScratchFlush ==
  /\ pc = "scratch flush"
  /\ Flushes \/ RequestFails   \* a failed read-back skips the flush
  /\ pc' = "open"
  /\ UNCHANGED <<sijilVars, image, storage, journal, todo, boot,
                 committed, promised, astray, reordered>>

(* The journal is ready: for_each starts over what the ring retains. *)
StartAppending(log) ==
  /\ journal' = log
  /\ todo' = for_each
  /\ promised' = LET all == log.tip \o for_each
                     capacity == record_capacity(storage.count)
                 IN  IF Len(all) <= capacity THEN all ELSE SubSeq(all, 1, capacity)
  /\ pc' = "append"

GiveUp ==
  /\ pc' = "done"
  /\ UNCHANGED <<journal, todo, promised>>

superblock_lba == storage.first + SUPERBLOCK_SECTOR

(* Open the log; start one if there is none; refuse one that does not      *)
(* verify.                                                                 *)
OpenJournal ==
  /\ pc = "open"
  /\ LET found == open(Through(storage, View), storage.count)
         fresh == Log(0, ZeroHash)
     IN  \/ /\ ~broken /\ found.ok
            /\ StartAppending(found.journal)
            /\ \/ UNCHANGED deviceVars
               \/ found.journal.count > 0 /\ RequestFails   \* showing the first record
         \/ /\ ~broken /\ ~found.ok /\ found.fault = "NoJournal"
            /\ Writes(superblock_lba, Superblock(fresh))
            /\ StartAppending(fresh)
         \/ /\ ~broken /\ ~found.ok /\ found.fault = "NoJournal"
            /\ WriteFails(superblock_lba, Superblock(fresh))
            /\ GiveUp
         \/ /\ ~broken /\ ~found.ok /\ found.fault = "ChainBroken"
            /\ GiveUp
            /\ UNCHANGED deviceVars
         \/ /\ RequestFails    \* a read fails
            /\ GiveUp
  /\ UNCHANGED <<sijilVars, image, storage, boot, committed, astray, reordered>>

(* append, first half: the record's sector, after reading the records      *)
(* already in it.  A full log or a failing device ends the loop.           *)
AppendRecord ==
  /\ pc = "append" /\ todo # <<>>
  /\ LET lba == storage.first + sector_of(journal.count)
         content == record_sector(Through(storage, View), journal, Head(todo))
     IN  \/ /\ journal.count >= record_capacity(storage.count)
            /\ pc' = "flush"
            /\ UNCHANGED deviceVars
         \/ /\ journal.count < record_capacity(storage.count)
            /\ Writes(lba, content)
            /\ pc' = "superblock"
         \/ /\ journal.count < record_capacity(storage.count)
            /\ WriteFails(lba, content)    \* or the read before it
            /\ pc' = "flush"
  /\ UNCHANGED <<sijilVars, image, storage, journal, todo, boot,
                 committed, promised, astray, reordered>>

(* append, second half: the chain advances in memory, then the superblock  *)
(* is written.                                                             *)
AppendSuperblock ==
  /\ pc = "superblock"
  /\ journal' = advanced(journal, Head(todo))
  /\ \/ Writes(superblock_lba, Superblock(journal')) /\ pc' = "append"
     \/ WriteFails(superblock_lba, Superblock(journal')) /\ pc' = "flush"
  /\ todo' = Tail(todo)
  /\ UNCHANGED <<sijilVars, image, storage, boot, committed, promised, astray,
                 reordered>>

EndOfRing ==
  /\ pc = "append" /\ todo = <<>>
  /\ pc' = "flush"
  /\ UNCHANGED <<sijilVars, image, deviceVars, storage, journal, todo, boot,
                 committed, promised, astray, reordered>>

(* Commit; whether it worked is not looked at. *)
FlushJournal ==
  /\ pc = "flush"
  /\ \/ Flushes /\ committed' = View[superblock_lba].tip
     \/ RequestFails /\ UNCHANGED committed
  /\ pc' = "done"
  /\ UNCHANGED <<sijilVars, image, storage, journal, todo, boot, promised, astray,
                 reordered>>

(* The power goes out, whatever was going on, and the machine boots again. *)
PowerCycle ==
  /\ boot < MaxBoots
  /\ boot' = boot + 1
  /\ durable' \in CrashImages /\ pending' = <<>> /\ broken' = FALSE /\ faulty' = FALSE
  /\ ring' = [s \in 0..(CAPACITY - 1) |-> Empty] /\ next_sequence' = 1
  /\ pc' = "up" /\ storage' = NoPlace /\ journal' = Log(0, ZeroHash) /\ todo' = <<>>
  /\ promised' = ZeroHash
  /\ reordered' = (reordered \/ durable' \notin OrderedImages)
  /\ UNCHANGED <<image, committed, astray>>

PersistNext ==
  \/ Journaled \/ Locate \/ ScratchWrite \/ ScratchFlush \/ OpenJournal
  \/ AppendRecord \/ AppendSuperblock \/ EndOfRing \/ FlushJournal \/ PowerCycle

PersistSpec == PersistInit /\ [][PersistNext]_persistVars

-----------------------------------------------------------------------------
(* The ring holds the newest entries and for_each visits them oldest       *)
(* first, with no gap, however often it has wrapped (sijil lib.rs          *)
(* 165-180).                                                               *)
RetainsTheNewest ==
  LET kept == IF written < CAPACITY THEN written ELSE CAPACITY
  IN  /\ Len(for_each) = kept
      /\ \A i \in 1..kept : for_each[i].sequence = written - kept + i

(* The records on a disk behind the storage, up to n: what a reader of the *)
(* raw sectors finds, no hash looked at.                                   *)
RawLog(sectors, n) ==
  [i \in 1..n |-> LET r == read_record(sectors, i - 1)
                  IN  IF r.kind = "Record" THEN r.record ELSE r]

(* While the log is being appended to, the records the disk holds are      *)
(* exactly those the tip in memory stands for: what open accepted, in any  *)
(* crash image, was the log that was written, and no append damages an     *)
(* earlier record (journal lib.rs 4-5 and 241-242).                        *)
TipMatchesDisk ==
  pc \in {"append", "superblock"} =>
    RawLog(Through(storage, View), journal.count) = journal.tip

(* What the next boot will open if the power goes out and leaves d. *)
Reopened(d) == LET place == placed(d, TRUE) IN open(Through(place, d), place.count)

(* If writes reach the medium in the order they were accepted, and find    *)
(* could always read the table, then whenever the power goes out, the next *)
(* boot opens a log that begins with everything a successful flush ever    *)
(* committed.                                                              *)
CommittedSurvives ==
  ~reordered /\ astray = 0 /\ committed # ZeroHash =>
    \A d \in OrderedImages :
      /\ Reopened(d).ok
      /\ IsPrefix(committed, Reopened(d).journal.tip)

(* The order things happened in: boot by boot, and within a boot by        *)
(* consecutive sequence numbers.                                           *)
InOrder(log) ==
  \A i \in 2..Len(log) :
    \/ log[i - 1].what < log[i].what
    \/ /\ log[i - 1].what = log[i].what
       /\ log[i].sequence = log[i - 1].sequence + 1

(* Every log a boot may accept after a power cut, with or without a        *)
(* write-back cache, tells what happened in the order it happened: no      *)
(* stale record of an interrupted boot is spliced into it.                 *)
AcceptedInOrder ==
  \A d \in CrashImages : Reopened(d).ok => InOrder(Reopened(d).journal.tip)

(* A boot none of whose requests fails, and whose log verified, leaves     *)
(* every entry the ring retained on the medium, as far as there was room.  *)
CleanBootCommitsAll ==
  pc = "done" /\ ~faulty /\ astray = 0 /\ promised # ZeroHash =>
    /\ Reopened(durable).ok
    /\ Reopened(durable).journal.tip = promised

Outside == Lba \ (FirstLba..LastLba)

(* On a partitioned disk with a readable table, nothing outside the        *)
(* journal's partition is ever written: not the boot sector, not a         *)
(* neighbour, not the backup table (persist.rs 88-92).                     *)
WritesStayInside ==
  image = "partitioned" /\ astray = 0 => \A s \in Outside : View[s] = Original(image)[s]

(* The same for a partitioned disk whose primary header is damaged: "a     *)
(* disk whose primary table is damaged still carries a backup at the far   *)
(* end" (gpt lib.rs 9-11).                                                 *)
PartitionedDiskKept ==
  image # "bare" => \A s \in Outside : View[s] = Original(image)[s]
=============================================================================
