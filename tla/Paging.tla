------------------------------- MODULE Paging -------------------------------
(* core/src/paging.rs: the kernel's own page tables.  Physical addresses    *)
(* count units of which HUGE_PAGE_SIZE make a large page; a table is a      *)
(* function from indices to entries, named by the frame it lies in.         *)
EXTENDS Integers, Sequences, FiniteSets, SequencesExt

CONSTANTS
  ENTRIES,             \* entries of a table; 512
  HUGE_PAGE_SIZE,      \* 2 MiB
  LowGib,              \* what is mapped whatever the memory map says; 4
  DEVICE_WINDOW,       \* first address mapped uncached
  YardSlot,            \* index of YARD_BASE in the top table; 32
  MAX_DEVICE_WINDOWS,  \* 8
  RegionEnds,          \* sets of ends of the firmware's regions, and of the framebuffer
  Devices,             \* <<physical, length>> of device registers
  FrameCounts          \* how many frames the allocator can give

GIB == ENTRIES * HUGE_PAGE_SIZE
MAX_GIB == ENTRIES
Index == 0 .. ENTRIES - 1

slot(address) == (address \div (GIB * ENTRIES)) % ENTRIES
pdpt_index(address) == (address \div GIB) % ENTRIES
directory_index(address) == (address \div HUGE_PAGE_SIZE) % ENTRIES

first_page(physical) == (physical \div HUGE_PAGE_SIZE) * HUGE_PAGE_SIZE

\* Mutant: the last page is rounded down.
past_page_Floor(end) == (end \div HUGE_PAGE_SIZE) * HUGE_PAGE_SIZE

past_page(end) == ((end + HUGE_PAGE_SIZE - 1) \div HUGE_PAGE_SIZE) * HUGE_PAGE_SIZE

\* The large pages that hold a device's registers: how many, and each.
page_count(device) == (past_page(device[1] + device[2]) - first_page(device[1])) \div HUGE_PAGE_SIZE
device_page(device, n) == first_page(device[1]) + n * HUGE_PAGE_SIZE

ASSUME PagingAssumption ==
  /\ ENTRIES \in Nat \ {0} /\ HUGE_PAGE_SIZE \in Nat \ {0}
  /\ LowGib \in Nat /\ DEVICE_WINDOW \in Nat
  /\ RegionEnds \subseteq SUBSET Nat /\ FrameCounts \subseteq Nat
  /\ YardSlot \in Index \ {0}

\* Nothing asks for registers inside the yard's own slot, or above what
\* four levels of tables reach.
ASSUME DevicesElsewhere ==
  /\ Devices \subseteq Nat \X Nat
  /\ \A d \in Devices : \A n \in 0 .. page_count(d) - 1 :
       slot(device_page(d, n)) /= YardSlot /\ device_page(d, n) < ENTRIES * ENTRIES * GIB

VARIABLES
  space,      \* tables, the frames handed out, whether allocation failed
  pml4,       \* PML4_PHYSICAL; 0 until the kernel owns its tables
  gibibytes,  \* MAPPED_BYTES
  windows,    \* DEVICE_WINDOWS
  served,     \* devices map_device answered true for
  yard_frames \* frames the yard's pages are backed by

paging == <<space, pml4, gibibytes, windows, served, yard_frames>>

Absent == [present |-> FALSE]

Table(to, user) ==
  [present |-> TRUE, to |-> to, user |-> user, writable |-> TRUE, huge |-> FALSE,
   uncached |-> FALSE]

HugePage(address, uncached) ==
  [present |-> TRUE, to |-> address, user |-> FALSE, writable |-> TRUE, huge |-> TRUE,
   uncached |-> uncached]

\* Mutant: the writable bit is always set.
SmallPage_Writable(frame, writable) ==
  [present |-> TRUE, to |-> frame, user |-> TRUE, writable |-> TRUE, huge |-> FALSE,
   uncached |-> FALSE]

SmallPage(frame, writable) ==
  [present |-> TRUE, to |-> frame, user |-> TRUE, writable |-> writable, huge |-> FALSE,
   uncached |-> FALSE]

\* mem::allocate_frames(1), which Frames models: a frame nobody has, or none.
allocate_frames(s) ==
  IF s.given < s.limit THEN [s EXCEPT !.given = @ + 1] ELSE [s EXCEPT !.failed = TRUE]

\* A zeroed frame of entries; the walk goes on in it.
allocate_table(s) ==
  LET t == allocate_frames(s) IN
  IF t.failed THEN t
  ELSE [t EXCEPT !.tables = [f \in DOMAIN s.tables \cup {t.given} |->
                               IF f = t.given THEN [i \in Index |-> Absent] ELSE s.tables[f]],
                 !.at = t.given]

set_entry(s, table, index, value) == [s EXCEPT !.tables[table][index] = value]

\* One level down: through the entry that is there, or through a fresh
\* table.  The yard marks the entry for ring 3, a device leaves it alone.
descend(s, index, user) ==
  LET existing == s.tables[s.at][index]
      fresh == allocate_table(s)
  IN
  IF s.failed THEN s
  ELSE IF existing.present
  THEN [set_entry(s, s.at, index, [existing EXCEPT !.user = @ \/ user]) EXCEPT !.at = existing.to]
  ELSE IF fresh.failed THEN fresh
  ELSE set_entry(fresh, s.at, index, Table(fresh.at, user))

\* A new walk: from the given table, without a failure behind it.
from(s, table) == [s EXCEPT !.at = table, !.failed = FALSE]

settled(s) == from(s, 0)

-----------------------------------------------------------------------------
PagingInit ==
  /\ \E limit \in FrameCounts :
       space = [tables |-> <<>>, given |-> 0, limit |-> limit, at |-> 0, failed |-> FALSE]
  /\ pml4 = 0
  /\ gibibytes = 0
  /\ windows = <<>>
  /\ served = {}
  /\ yard_frames = {}

covered(end) == end <= MAX_GIB * GIB

Largest(S) == CHOOSE n \in S : \A m \in S : m <= n

\* How much to map: all memory the top table's one entry can reach.
highest(ends, framebuffer_end) ==
  LET capped == IF framebuffer_end < MAX_GIB * GIB THEN framebuffer_end ELSE MAX_GIB * GIB IN
  Largest({LowGib * GIB, capped} \cup {end \in ends : covered(end)})

needed_gib(ends, framebuffer_end) ==
  LET n == (highest(ends, framebuffer_end) + GIB - 1) \div GIB IN
  IF n < MAX_GIB THEN n ELSE MAX_GIB

\* One directory of large pages, each its own address.
identity(s, pdpt, gibibyte) ==
  LET t == allocate_table(s)
      page(i) == gibibyte * GIB + i * HUGE_PAGE_SIZE
      filled == [t EXCEPT !.tables[t.at] =
                   [i \in Index |-> HugePage(page(i), page(i) >= DEVICE_WINDOW)]]
  IN  IF s.failed \/ t.failed THEN [s EXCEPT !.failed = TRUE]
      ELSE set_entry(filled, pdpt, gibibyte, Table(t.at, FALSE))

\* Gibibyte after gibibyte; the first that finds no frame ends it.
identity_map(s, pdpt, count) ==
  LET upto[n \in 0 .. count] == IF n = 0 THEN s ELSE identity(upto[n - 1], pdpt, n - 1)
  IN  upto[count]

\* paging::init: on failure CR3 and PML4_PHYSICAL are left alone.
BuildTables ==
  \E ends \in RegionEnds, framebuffer_end \in UNION RegionEnds :
    LET count == needed_gib(ends, framebuffer_end)
        root == allocate_table(space)
        low == descend(root, 0, FALSE)
        built == IF low.failed THEN low ELSE identity_map(low, low.at, count)
    IN
    /\ pml4 = 0 /\ space.given = 0
    /\ space' = settled(built)
    /\ IF built.failed \/ root.failed THEN UNCHANGED <<pml4, gibibytes>>
       ELSE pml4' = root.at /\ gibibytes' = count
    /\ UNCHANGED <<windows, served, yard_frames>>

map_device_page(s, page) ==
  LET directory == descend(descend(from(s, pml4), slot(page), FALSE), pdpt_index(page), FALSE) IN
  IF s.failed THEN s
  ELSE IF directory.failed THEN directory
  ELSE set_entry(directory, directory.at, directory_index(page), HugePage(page, TRUE))

\* Page after page, from the one that holds the first register.
map_device_pages(s, device) ==
  LET upto[n \in 0 .. page_count(device)] ==
        IF n = 0 THEN s ELSE map_device_page(upto[n - 1], device_page(device, n - 1))
  IN  upto[page_count(device)]

\* A window past the eighth is mapped and not remembered.
MapDevice ==
  \E device \in Devices :
    LET start == first_page(device[1])
        end == past_page(device[1] + device[2])
        mapped == map_device_pages(from(space, pml4), device)
    IN
    /\ pml4 /= 0 /\ device[2] /= 0
    /\ space' = settled(mapped)
    /\ windows' = IF ~mapped.failed /\ Len(windows) < MAX_DEVICE_WINDOWS
                  THEN Append(windows, <<start, end>>) ELSE windows
    /\ served' = IF mapped.failed THEN served ELSE served \cup {device}
    /\ UNCHANGED <<pml4, gibibytes, yard_frames>>

in_device_window(address, length) ==
  \E i \in DOMAIN windows : address >= windows[i][1] /\ address + length <= windows[i][2]

\* Map one 4 KiB page of the yard: three levels down, marked for ring 3,
\* then a frame of its own.
map_yard_page(s, page, writable) ==
  LET table == descend(descend(descend(from(s, pml4), YardSlot, TRUE), 0, TRUE), 0, TRUE)
      backed == allocate_frames(table)
  IN
  IF table.failed THEN table
  ELSE IF backed.failed THEN backed
  ELSE set_entry(backed, table.at, page, SmallPage(backed.given, writable))

-----------------------------------------------------------------------------
(* What the processor finds when it walks the tables.                       *)

EntryAt(table, index) ==
  IF table \in DOMAIN space.tables THEN space.tables[table][index] ELSE Absent

\* The entry that decides about an address given by its four indices; the
\* ones on the way to it.
Path(a, b, c, d) ==
  LET first == EntryAt(pml4, a)
      second == IF first.present THEN EntryAt(first.to, b) ELSE Absent
      third == IF second.present /\ ~second.huge THEN EntryAt(second.to, c) ELSE Absent
      fourth == IF third.present /\ ~third.huge THEN EntryAt(third.to, d) ELSE Absent
  IN  IF third.present /\ third.huge THEN <<first, second, third>>
      ELSE <<first, second, third, fourth>>

Mapped(path) == \A i \in DOMAIN path : path[i].present

\* Ring 3 may use an address only when every level says so.
UserMay(path) == Mapped(path) /\ \A i \in DOMAIN path : path[i].user

\* Everything ring 3 can reach is a small page of the yard's own slot,
\* backed by a frame that was allocated for it: no kernel memory, no page
\* table, no device register, and no writable code.  Whatever was mapped
\* before and after, and wherever allocation failed.
OnlyYardIsUser ==
  pml4 /= 0 =>
    \A a, b, c, d \in Index :
      LET path == Path(a, b, c, d) IN
      UserMay(path) =>
        /\ a = YardSlot
        /\ ~Last(path).huge
        /\ Last(path).to \in yard_frames
        /\ Last(path).to \notin DOMAIN space.tables
        /\ d = 0 => ~Last(path).writable

\* The address the kernel uses is the address the memory or the device has:
\* for all it identity-mapped at boot, still so after later mappings, and
\* for every register of a device that map_device accepted, and for all that
\* in_device_window answers for; devices uncached.
IdentityIntact ==
  pml4 /= 0 =>
    \A a, b, c \in Index :
      LET address == ((a * ENTRIES + b) * ENTRIES + c) * HUGE_PAGE_SIZE
          path == Path(a, b, c, 0)
          device == \/ in_device_window(address, HUGE_PAGE_SIZE)
                    \/ \E d \in served : d[1] < address + HUGE_PAGE_SIZE /\ address < d[1] + d[2]
      IN
      (address < gibibytes * GIB \/ device) =>
        /\ Mapped(path) /\ Last(path).huge /\ Last(path).to = address
        /\ device => Last(path).uncached
=============================================================================
