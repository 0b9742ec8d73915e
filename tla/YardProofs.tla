----------------------------- MODULE YardProofs -----------------------------
(***************************************************************************)
(* Proofs about the yard: the way into ring 3 and back for any set of      *)
(* registers, any number of entries and crossings and whatever a resident  *)
(* does; and the page tables for any memory map, devices and table size.   *)
(***************************************************************************)
EXTENDS Yard, Numbers, FiniteSetTheorems, SequenceTheorems

-----------------------------------------------------------------------------
(* enter_ring3 pushes every register of the caller once. *)
LEMMA PreservedCovers ==
  /\ preserved \in [1..Cardinality(NonVolatile) -> NonVolatile]
  /\ \A r \in NonVolatile : \E i \in DOMAIN preserved : preserved[i] = r
<1> DEFINE n == Cardinality(NonVolatile)
<1>1. n \in Nat /\ ExistsBijection(1..n, NonVolatile)
  BY RegistersAssumption, FS_CardinalityType
<1>2. PICK g : g \in Bijection(1..n, NonVolatile)
  BY <1>1 DEF ExistsBijection
<1>3. g \in [1..n -> NonVolatile] /\ IsInjective(g)
  BY <1>2 DEF Bijection, Injection, IsInjective
<1>4. preserved \in [1..n -> NonVolatile] /\ IsInjective(preserved)
  BY <1>3 DEF preserved, SetToSeq
<1>5. preserved \in Injection(1..n, NonVolatile)
  BY <1>4 DEF Injection, IsInjective
<1>6. Cardinality(1..n) = n
  BY <1>1, FS_Interval
<1> HIDE DEF n
<1>7. preserved \in Surjection(1..n, NonVolatile)
  BY <1>5, <1>6, RegistersAssumption, FS_Injection DEF n
<1> QED
  BY <1>4, <1>7 DEF Surjection, n

(* What lies on the caller's stack while the yard is entered. *)
Kept == pushed = [i \in DOMAIN preserved |-> <<preserved[i], "caller">>]

CallersRegisters == \A r \in NonVolatile : regs[r] = "caller"

(* The processor, by where it is: between every two instructions of the    *)
(* trampolines at which a tick could land.                                 *)
Crossing ==
  /\ regs \in [NonVolatile -> {"caller", "zero", "user"}]
  /\ pc \in {"kernel", "saved", "switched", "user", "syscall", "gate", "answered", "sysret",
             "fault", "panic", "leaving", "back", "returned"}
  /\ ring = IF pc = "user" THEN 3 ELSE 0
  /\ masked = (pc \notin {"kernel", "saved", "switched", "user"})
  /\ inside = (pc \notin {"kernel", "saved", "leaving", "back", "returned"})
  /\ pc \in {"kernel", "returned"} => pushed = <<>> /\ CallersRegisters
  /\ pc \in {"kernel", "saved", "back", "returned"} => rsp = "caller"
  /\ pc = "switched" => rsp = "yard"
  /\ pc = "saved" => CallersRegisters
  /\ pc \notin {"kernel", "returned"} => Kept
  /\ landed # "user"
  /\ pc = "panic" => vector \notin {"GeneralProtection", "PageFault"}

(* The pops of the continuation bring every register back. *)
LEMMA Popped ==
  ASSUME Kept
  PROVE  \A r \in NonVolatile :
           /\ \E i \in DOMAIN pushed : pushed[i][1] = r
           /\ pushed[CHOOSE n \in DOMAIN pushed : pushed[n][1] = r][2] = "caller"
<1> SUFFICES ASSUME NEW r \in NonVolatile
             PROVE  /\ \E i \in DOMAIN pushed : pushed[i][1] = r
                    /\ pushed[CHOOSE n \in DOMAIN pushed : pushed[n][1] = r][2] = "caller"
  OBVIOUS
<1>1. PICK i \in DOMAIN preserved : preserved[i] = r
  BY PreservedCovers
<1>2. i \in DOMAIN pushed /\ pushed[i][1] = r
  BY <1>1 DEF Kept
<1> DEFINE n == CHOOSE n \in DOMAIN pushed : pushed[n][1] = r
<1>3. n \in DOMAIN pushed
  BY <1>2
<1> HIDE DEF n
<1>4. pushed[n][2] = "caller"
  BY <1>3 DEF Kept
<1> QED
  BY <1>2, <1>4 DEF n

LEMMA CrossingInitially == YardInit => Crossing
BY DEF YardInit, Crossing, CallersRegisters

(* Every instruction keeps the processor in its place. *)
LEMMA CrossingStep == Crossing /\ [YardNext]_vars => Crossing'
<1> SUFFICES ASSUME Crossing, [YardNext]_vars  PROVE Crossing'
  OBVIOUS
<1> USE DEF Crossing, OnKernel
<1>1. CASE UNCHANGED vars
  BY <1>1 DEF vars, cpu, Kept, CallersRegisters
<1>2. CASE Boot \/ Device
  BY <1>2 DEF Boot, Device, cpu, told, Kept, CallersRegisters
<1>3. CASE Load
  BY <1>3 DEF Load, cpu, told, Kept, CallersRegisters
<1>4. CASE Save
  <2>1. pushed' = [i \in DOMAIN preserved |-> <<preserved[i], "caller">>]
    BY <1>4, PreservedCovers DEF Save, CallersRegisters
  <2> QED
    BY <1>4, <2>1 DEF Save, told, Kept, CallersRegisters
<1>5. CASE Switch
  BY <1>5 DEF Switch, entered, told, Kept, CallersRegisters
<1>6. CASE Drop
  BY <1>6 DEF Drop, told, Kept, CallersRegisters
<1>7. CASE Compute
  BY <1>7 DEF Compute, told, Kept, CallersRegisters
<1>8. CASE Syscall
  BY <1>8 DEF Syscall, masked_by_syscall, told, Kept, CallersRegisters
<1>9. CASE TakeStack \/ GiveStack
  BY <1>9 DEF TakeStack, GiveStack, told, Kept, CallersRegisters
<1>10. CASE Dispatch
  BY <1>10 DEF Dispatch, Kept, CallersRegisters
<1>11. CASE Sysret
  BY <1>11 DEF Sysret, told, Kept, CallersRegisters
<1>12. CASE Fault
  BY <1>12 DEF Fault, told, Kept, CallersRegisters
<1>13. CASE Panic
  BY <1>13 DEF Panic, killed, from_user, told, Kept, CallersRegisters
<1>14. CASE Leave
  BY <1>14 DEF Leave, left, told, Kept, CallersRegisters
<1>15. CASE Jump
  BY <1>15 DEF Jump, told, Kept, CallersRegisters
<1>16. CASE Restore
  <2>1. Kept
    BY <1>16 DEF Restore
  <2>2. \A r \in NonVolatile : regs'[r] = "caller"
    BY <1>16, <2>1, Popped DEF Restore
  <2>3. regs' \in [NonVolatile -> {"caller", "zero", "user"}]
    BY <1>16, <2>2 DEF Restore
  <2>4. /\ pushed' = <<>> /\ pc' = "returned" /\ pc = "back"
        /\ UNCHANGED <<ring, rsp, masked, inside, landed, vector>>
    BY <1>16 DEF Restore
  <2> QED
    BY <2>2, <2>3, <2>4 DEF CallersRegisters
<1>17. CASE Reopen
  BY <1>17 DEF Reopen, told, Kept, CallersRegisters
<1>18. CASE Tick
  BY <1>18 DEF Tick, RSP0, cpu, told, Kept, CallersRegisters
<1> QED
  BY <1>1, <1>2, <1>3, <1>4, <1>5, <1>6, <1>7, <1>8, <1>9, <1>10, <1>11, <1>12, <1>13,
     <1>14, <1>15, <1>16, <1>17, <1>18 DEF YardNext

LEMMA CrossingAlways == YardSpec => []Crossing
BY CrossingInitially, CrossingStep, PTL DEF YardSpec

(* However the yard was left, the kernel goes on as if `enter` had been an *)
(* ordinary call: its stack, its registers, interrupts open and the yard   *)
(* closed (enter_ring3 and leave, yard.rs).                                *)
THEOREM CallerComesBack == YardSpec => []CallerIntact
<1>1. Crossing => CallerIntact
  BY DEF Crossing, CallerIntact, CallersRegisters
<1> QED
  BY <1>1, CrossingAlways, PTL

(* No tick's frame lands on a stack ring 3 can write, wherever in the      *)
(* trampolines the tick arrives (FMASK and TSS.RSP0, yard.rs and gdt.rs).  *)
THEOREM TicksStayOff == YardSpec => []TicksOffTheUserStack
<1>1. Crossing => TicksOffTheUserStack
  BY DEF Crossing, TicksOffTheUserStack
<1> QED
  BY <1>1, CrossingAlways, PTL

(* A resident's protection or page fault ends the resident and never the   *)
(* kernel (the handlers of idt.rs ask whether the yard is entered).        *)
THEOREM ResidentDiesAlone == YardSpec => []KilledNotPanicked
<1>1. Crossing => KilledNotPanicked
  BY DEF Crossing, KilledNotPanicked
<1> QED
  BY <1>1, CrossingAlways, PTL

-----------------------------------------------------------------------------
(* The page tables. *)

Entry ==
  {Absent} \cup [present : {TRUE}, to : Nat, user : BOOLEAN, writable : BOOLEAN,
                 huge : BOOLEAN, uncached : BOOLEAN]

TableMaps == UNION {[D -> [Index -> Entry]] : D \in SUBSET Nat}

Space == [tables : TableMaps, given : Nat, limit : Nat, at : Nat, failed : BOOLEAN]

(* An entry in its place.  A table has a level L, the root's being 1, and a *)
(* number P among those of its level: table p's entry i leads to number     *)
(* p * ENTRIES + i, or to that large page.                                  *)
Leads(e, t, i, L, P) ==
  ~e.huge /\ e.to \in DOMAIN L /\ L[e.to] = L[t] + 1 /\ P[e.to] = P[t] * ENTRIES + i

Fits(e, t, i, Y, L, P) ==
  /\ L[t] \in {1, 2} => Leads(e, t, i, L, P)
  /\ L[t] = 1 /\ e.user => i = YardSlot
  /\ L[t] = 3 /\ P[t] \div ENTRIES = YardSlot => Leads(e, t, i, L, P)
  /\ L[t] = 3 /\ P[t] \div ENTRIES # YardSlot =>
       e.huge /\ e.to = (P[t] * ENTRIES + i) * HUGE_PAGE_SIZE
  /\ L[t] = 4 => ~e.huge /\ e.to \in Y /\ (i = CODE => ~e.writable)

(* Four levels of tables under r, user pages backed by the frames Y. *)
Tree(s, r, Y, L, P) ==
  /\ s \in Space
  /\ DOMAIN s.tables \subseteq 1..s.given /\ Y \subseteq 1..s.given
  /\ Y \cap DOMAIN s.tables = {}
  /\ L \in [DOMAIN s.tables -> 1..4] /\ P \in [DOMAIN s.tables -> Nat]
  /\ r \in DOMAIN s.tables /\ L[r] = 1 /\ P[r] = 0
  /\ \A t \in DOMAIN s.tables, i \in Index :
       s.tables[t][i].present => Fits(s.tables[t][i], t, i, Y, L, P)

Shape(s, r, Y) == \E L, P : Tree(s, r, Y, L, P)

(* A walk has come down to table number p of level k. *)
At(s, r, Y, k, p) ==
  \E L, P : Tree(s, r, Y, L, P) /\ s.at \in DOMAIN s.tables /\ L[s.at] = k /\ P[s.at] = p

(* Nothing that was mapped is lost or leads elsewhere. *)
Covers(x, y, D) ==
  /\ y.present /\ y.huge = x.huge
  /\ x.huge /\ x.uncached => y.uncached
  /\ ~x.huge /\ x.to \in D => y.to = x.to

Extends(s, d) ==
  /\ DOMAIN s.tables \subseteq DOMAIN d.tables
  /\ \A t \in DOMAIN s.tables, i \in Index :
       s.tables[t][i].present => Covers(s.tables[t][i], d.tables[t][i], DOMAIN s.tables)

-----------------------------------------------------------------------------
(* The two writes everything is made of: an entry, and a new table. *)

LEMMA EntryTypes ==
  /\ Absent \in Entry /\ ~Absent.present
  /\ \A e \in Entry : e.present =>
       /\ e \in [present : {TRUE}, to : Nat, user : BOOLEAN, writable : BOOLEAN,
                 huge : BOOLEAN, uncached : BOOLEAN]
       /\ e.to \in Nat /\ e.huge \in BOOLEAN /\ e.user \in BOOLEAN /\ e.uncached \in BOOLEAN
  /\ \A n \in Nat, b \in BOOLEAN :
       /\ Table(n, b) \in Entry /\ HugePage(n, b) \in Entry /\ SmallPage(n, b) \in Entry
       /\ Table(n, b).present /\ HugePage(n, b).present /\ SmallPage(n, b).present
<1> DEFINE R == [present : {TRUE}, to : Nat, user : BOOLEAN, writable : BOOLEAN,
                 huge : BOOLEAN, uncached : BOOLEAN]
<1>1. Absent \in Entry /\ ~Absent.present
  BY DEF Entry, Absent
<1>2. ASSUME NEW e \in Entry, e.present
      PROVE  e \in R
  BY <1>1, <1>2 DEF Entry
<1>3. ASSUME NEW e \in R
      PROVE  e.to \in Nat /\ e.huge \in BOOLEAN /\ e.user \in BOOLEAN /\ e.uncached \in BOOLEAN
  BY <1>3
<1>4. ASSUME NEW n \in Nat, NEW b \in BOOLEAN
      PROVE  Table(n, b) \in R /\ HugePage(n, b) \in R /\ SmallPage(n, b) \in R
  BY <1>4 DEF Table, HugePage, SmallPage
<1>5. ASSUME NEW n \in Nat, NEW b \in BOOLEAN
      PROVE  Table(n, b).present /\ HugePage(n, b).present /\ SmallPage(n, b).present
  BY <1>5 DEF Table, HugePage, SmallPage
<1>6. R \subseteq Entry
  BY DEF Entry
<1> HIDE DEF R
<1> QED
  BY <1>1, <1>2, <1>3, <1>4, <1>5, <1>6 DEF R

LEMMA SpaceTypes ==
  ASSUME NEW s \in Space
  PROVE  /\ s.given \in Nat /\ s.limit \in Nat /\ s.at \in Nat /\ s.failed \in BOOLEAN
         /\ s.tables \in [DOMAIN s.tables -> [Index -> Entry]]
         /\ DOMAIN s.tables \subseteq Nat
BY DEF Space, TableMaps

LEMMA MapsTyped ==
  ASSUME NEW D \in SUBSET Nat, NEW m \in [D -> [Index -> Entry]]
  PROVE  m \in TableMaps
BY DEF TableMaps

LEMMA SetEntry ==
  ASSUME NEW s \in Space, NEW t, NEW i, NEW e \in Entry
  PROVE  LET d == set_entry(s, t, i, e) IN
         /\ d \in Space
         /\ DOMAIN d.tables = DOMAIN s.tables
         /\ d.given = s.given /\ d.limit = s.limit /\ d.at = s.at /\ d.failed = s.failed
         /\ \A u \in DOMAIN s.tables, j \in Index :
              d.tables[u][j] = IF u = t /\ j = i THEN e ELSE s.tables[u][j]
<1> DEFINE m == [s.tables EXCEPT ![t] = [s.tables[t] EXCEPT ![i] = e]]
           d == set_entry(s, t, i, e)
<1>1. s.tables \in [DOMAIN s.tables -> [Index -> Entry]] /\ DOMAIN s.tables \in SUBSET Nat
  BY SpaceTypes
<1>2. m \in [DOMAIN s.tables -> [Index -> Entry]]
  BY <1>1
<1>3. \A u \in DOMAIN s.tables, j \in Index :
        m[u][j] = IF u = t /\ j = i THEN e ELSE s.tables[u][j]
  BY <1>1
<1>4. m \in TableMaps /\ DOMAIN m = DOMAIN s.tables
  BY <1>1, <1>2, MapsTyped
<1>5. d = [s EXCEPT !.tables = m]
  BY DEF set_entry
<1> HIDE DEF m, d
<1>6. d \in Space /\ d.tables = m
  BY <1>4, <1>5 DEF Space
<1>7. d.given = s.given /\ d.limit = s.limit /\ d.at = s.at /\ d.failed = s.failed
  BY <1>5 DEF Space
<1> QED
  BY <1>3, <1>4, <1>6, <1>7 DEF d

Joined(s, c) ==
  [s EXCEPT !.given = s.given + 1,
            !.tables = [f \in DOMAIN s.tables \cup {s.given + 1} |->
                          IF f = s.given + 1 THEN c ELSE s.tables[f]],
            !.at = s.given + 1]

LEMMA JoinedIs ==
  ASSUME NEW s \in Space, NEW c \in [Index -> Entry], DOMAIN s.tables \subseteq 1..s.given
  PROVE  LET d == Joined(s, c)
             f == s.given + 1
         IN  /\ d \in Space
             /\ f \in Nat /\ f \notin DOMAIN s.tables
             /\ DOMAIN d.tables = DOMAIN s.tables \cup {f}
             /\ d.tables[f] = c
             /\ \A u \in DOMAIN s.tables : d.tables[u] = s.tables[u]
             /\ d.given = f /\ d.at = f /\ d.limit = s.limit /\ d.failed = s.failed
<1> DEFINE f == s.given + 1
           m == [u \in DOMAIN s.tables \cup {f} |-> IF u = f THEN c ELSE s.tables[u]]
           d == Joined(s, c)
<1>1. s.tables \in [DOMAIN s.tables -> [Index -> Entry]] /\ DOMAIN s.tables \in SUBSET Nat
  BY SpaceTypes
<1>2. f \in Nat /\ f \notin DOMAIN s.tables /\ s.given \in Nat
  BY SpaceTypes
<1>3. m \in [DOMAIN s.tables \cup {f} -> [Index -> Entry]]
  BY <1>1, <1>2
<1>4. m \in TableMaps /\ DOMAIN m = DOMAIN s.tables \cup {f}
  BY <1>1, <1>2, <1>3, MapsTyped
<1>5. m[f] = c /\ \A u \in DOMAIN s.tables : m[u] = s.tables[u]
  BY <1>2
<1>6. d = [s EXCEPT !.given = f, !.tables = m, !.at = f]
  BY DEF Joined
<1> HIDE DEF m, d, f
<1>7. d \in Space /\ d.tables = m /\ d.given = f /\ d.at = f
  BY <1>2, <1>4, <1>6 DEF Space
<1>8. d.limit = s.limit /\ d.failed = s.failed
  BY <1>6 DEF Space
<1> QED
  BY <1>2, <1>4, <1>5, <1>7, <1>8 DEF f, d

(* A table or nothing. *)
LEMMA AllocateTable ==
  ASSUME NEW s \in Space, DOMAIN s.tables \subseteq 1..s.given
  PROVE  \/ allocate_table(s) = Joined(s, [i \in Index |-> Absent]) /\ ~s.failed
         \/ allocate_table(s).failed /\ allocate_table(s) = [s EXCEPT !.failed = TRUE]
         \/ allocate_table(s).failed /\ s.failed
<1> DEFINE t == allocate_frames(s)
           c == [i \in Index |-> Absent]
<1>1. s.given \in Nat /\ s.limit \in Nat /\ s.failed \in BOOLEAN
  BY SpaceTypes
<1>2. CASE s.given < s.limit /\ ~s.failed
  <2>1. t = [s EXCEPT !.given = s.given + 1]
    BY <1>2 DEF allocate_frames, Space
  <2>2. t.given = s.given + 1 /\ t.failed = s.failed /\ t.tables = s.tables
    BY <2>1 DEF Space
  <2>3. allocate_table(s) = Joined(s, c)
    BY <1>2, <2>1, <2>2 DEF allocate_table, Joined, Space
  <2> QED
    BY <1>2, <2>3
<1>3. CASE ~(s.given < s.limit)
  BY <1>3 DEF allocate_frames, allocate_table, Space
<1>4. CASE s.given < s.limit /\ s.failed
  BY <1>4 DEF allocate_frames, allocate_table, Space
<1> QED
  BY <1>1, <1>2, <1>3, <1>4

LEMMA SetExtends ==
  ASSUME NEW s \in Space, NEW t, NEW i, NEW e \in Entry,
         t \in DOMAIN s.tables /\ i \in Index /\ s.tables[t][i].present =>
           Covers(s.tables[t][i], e, DOMAIN s.tables)
  PROVE  Extends(s, set_entry(s, t, i, e))
<1> DEFINE d == set_entry(s, t, i, e)
<1>1. /\ DOMAIN d.tables = DOMAIN s.tables
      /\ \A u \in DOMAIN s.tables, j \in Index :
              d.tables[u][j] = IF u = t /\ j = i THEN e ELSE s.tables[u][j]
  BY SetEntry
<1> HIDE DEF d
<1>2. ASSUME NEW u \in DOMAIN s.tables, NEW j \in Index, s.tables[u][j].present
      PROVE  Covers(s.tables[u][j], d.tables[u][j], DOMAIN s.tables)
  <2>1. CASE u = t /\ j = i
    BY <1>1, <1>2, <2>1
  <2>2. CASE ~(u = t /\ j = i)
    BY <1>1, <1>2, <2>2 DEF Covers
  <2> QED
    BY <2>1, <2>2
<1> QED
  BY <1>1, <1>2 DEF Extends, d

LEMMA TreeSets ==
  ASSUME NEW s, NEW r, NEW Y, NEW L, NEW P, Tree(s, r, Y, L, P),
         NEW t, NEW i, NEW e \in Entry,
         t \in DOMAIN s.tables /\ i \in Index /\ e.present => Fits(e, t, i, Y, L, P)
  PROVE  Tree(set_entry(s, t, i, e), r, Y, L, P)
<1> DEFINE d == set_entry(s, t, i, e)
<1>0. s \in Space
  BY DEF Tree
<1>1. /\ d \in Space
      /\ DOMAIN d.tables = DOMAIN s.tables
      /\ d.given = s.given
      /\ \A u \in DOMAIN s.tables, j \in Index :
              d.tables[u][j] = IF u = t /\ j = i THEN e ELSE s.tables[u][j]
  BY <1>0, SetEntry
<1> HIDE DEF d
<1>2. ASSUME NEW u \in DOMAIN s.tables, NEW j \in Index, d.tables[u][j].present
      PROVE  Fits(d.tables[u][j], u, j, Y, L, P)
  BY <1>1, <1>2 DEF Tree
<1>3. Tree(d, r, Y, L, P)
  BY <1>1, <1>2 DEF Tree
<1> QED
  BY <1>3 DEF d

(* The entries that are there keep their places when a table is added. *)
LEMMA FitsStill ==
  ASSUME NEW D, NEW L \in [D -> 1..4], NEW P \in [D -> Nat], NEW L2, NEW P2,
         D \subseteq DOMAIN L2, \A t \in D : L2[t] = L[t] /\ P2[t] = P[t],
         NEW Y, NEW e, NEW t \in D, NEW i, Fits(e, t, i, Y, L, P)
  PROVE  Fits(e, t, i, Y, L2, P2)
BY DEF Fits, Leads

LEMMA TreeJoins ==
  ASSUME NEW s, NEW r, NEW Y, NEW L, NEW P, Tree(s, r, Y, L, P),
         NEW c \in [Index -> Entry], NEW L2, NEW P2,
         L2 \in [DOMAIN s.tables \cup {s.given + 1} -> 1..4],
         P2 \in [DOMAIN s.tables \cup {s.given + 1} -> Nat],
         \A t \in DOMAIN s.tables : L2[t] = L[t] /\ P2[t] = P[t],
         \A i \in Index : c[i].present => Fits(c[i], s.given + 1, i, Y, L2, P2)
  PROVE  /\ Tree(Joined(s, c), r, Y, L2, P2)
         /\ Extends(s, Joined(s, c))
<1> DEFINE d == Joined(s, c)
           f == s.given + 1
<1>0. s \in Space /\ DOMAIN s.tables \subseteq 1..s.given /\ s.given \in Nat
  BY SpaceTypes DEF Tree
<1>1. /\ d \in Space
      /\ f \in Nat /\ f \notin DOMAIN s.tables
      /\ DOMAIN d.tables = DOMAIN s.tables \cup {f}
      /\ d.tables[f] = c
      /\ \A u \in DOMAIN s.tables : d.tables[u] = s.tables[u]
      /\ d.given = f
  BY <1>0, JoinedIs
<1> HIDE DEF d
<1>2. ASSUME NEW u \in DOMAIN d.tables, NEW j \in Index, d.tables[u][j].present
      PROVE  Fits(d.tables[u][j], u, j, Y, L2, P2)
  <2>1. CASE u = f
    BY <1>1, <1>2, <2>1
  <2>2. CASE u # f
    <3>1. u \in DOMAIN s.tables /\ Fits(s.tables[u][j], u, j, Y, L, P)
      BY <1>1, <1>2, <2>2 DEF Tree
    <3>2. L \in [DOMAIN s.tables -> 1..4] /\ P \in [DOMAIN s.tables -> Nat]
      BY DEF Tree
    <3>3. DOMAIN s.tables \subseteq DOMAIN L2
      OBVIOUS
    <3>4. Fits(s.tables[u][j], u, j, Y, L2, P2)
      BY <3>1, <3>2, <3>3, FitsStill
    <3> QED
      BY <1>1, <3>1, <3>4
  <2> QED
    BY <2>1, <2>2
<1>3. /\ DOMAIN d.tables \subseteq 1..d.given /\ Y \subseteq 1..d.given
      /\ Y \cap DOMAIN d.tables = {}
  BY <1>0, <1>1 DEF Tree
<1>4. Tree(d, r, Y, L2, P2)
  BY <1>1, <1>2, <1>3 DEF Tree
<1>5. Extends(s, d)
  BY <1>1 DEF Extends, Covers
<1> QED
  BY <1>4, <1>5 DEF d

LEMMA ExtendsReflexive ==
  ASSUME NEW s, NEW d, d.tables = s.tables
  PROVE  Extends(s, d)
BY DEF Extends, Covers

LEMMA ExtendsTransitive ==
  ASSUME NEW s, NEW d, NEW z, Extends(s, d), Extends(d, z)
  PROVE  Extends(s, z)
<1>1. DOMAIN s.tables \subseteq DOMAIN d.tables /\ DOMAIN d.tables \subseteq DOMAIN z.tables
  BY DEF Extends
<1>2. ASSUME NEW t \in DOMAIN s.tables, NEW i \in Index, s.tables[t][i].present
      PROVE  Covers(s.tables[t][i], z.tables[t][i], DOMAIN s.tables)
  <2>1. Covers(s.tables[t][i], d.tables[t][i], DOMAIN s.tables)
    BY <1>2 DEF Extends
  <2>2. d.tables[t][i].present
    BY <2>1 DEF Covers
  <2>3. Covers(d.tables[t][i], z.tables[t][i], DOMAIN d.tables)
    BY <1>1, <2>2 DEF Extends
  <2> QED
    BY <1>1, <2>1, <2>3 DEF Covers
<1> QED
  BY <1>1, <1>2 DEF Extends

(* Where the walk stands, and frames that hold no table, change no tree. *)
LEMMA TreeSame ==
  ASSUME NEW s, NEW r, NEW Y, NEW L, NEW P, Tree(s, r, Y, L, P),
         NEW d \in Space, d.tables = s.tables, d.given >= s.given
  PROVE  Tree(d, r, Y, L, P)
<1>1. s.given \in Nat /\ d.given \in Nat
  BY SpaceTypes DEF Tree
<1>2. 1..s.given \subseteq 1..d.given
  BY <1>1
<1> QED
  BY <1>2 DEF Tree

(* The walk goes through an entry that leads to a table. *)
Link(s, t, i, u) ==
  /\ t \in DOMAIN s.tables /\ i \in Index /\ u \in DOMAIN s.tables
  /\ s.tables[t][i].present /\ ~s.tables[t][i].huge /\ s.tables[t][i].to = u

LEMMA LinkStays ==
  ASSUME NEW s, NEW d, Extends(s, d), NEW t, NEW i, NEW u, Link(s, t, i, u)
  PROVE  Link(d, t, i, u)
BY DEF Extends, Link, Covers

(* Marking an entry for ring 3 changes nothing else of it. *)
LEMMA Marked ==
  ASSUME NEW e \in Entry, e.present, NEW user \in BOOLEAN
  PROVE  LET x == [e EXCEPT !.user = @ \/ user] IN
         /\ x \in Entry /\ x.present /\ x.huge = e.huge /\ x.to = e.to
         /\ x.uncached = e.uncached /\ x.writable = e.writable
         /\ x.user = (e.user \/ user)
<1> DEFINE R == [present : {TRUE}, to : Nat, user : BOOLEAN, writable : BOOLEAN,
                 huge : BOOLEAN, uncached : BOOLEAN]
<1>1. e \in R
  BY EntryTypes
<1>2. (e.user \/ user) \in BOOLEAN
  OBVIOUS
<1> DEFINE x == [e EXCEPT !.user = @ \/ user]
<1>3. x = [e EXCEPT !.user = e.user \/ user]
  OBVIOUS
<1>4. x \in R
  BY <1>1, <1>2, <1>3
<1>5. /\ x.present = e.present /\ x.huge = e.huge /\ x.to = e.to /\ x.uncached = e.uncached
      /\ x.writable = e.writable
  BY <1>1, <1>3
<1>6. x.user = (e.user \/ user)
  BY <1>1, <1>3
<1>7. x \in Entry
  BY <1>4 DEF Entry
<1> QED
  BY <1>5, <1>6, <1>7

Descends(s, d, r, Y, k, p, i) ==
  /\ Extends(s, d)
  /\ d.failed \in BOOLEAN
  /\ d.failed => Shape(d, r, Y)
  /\ ~d.failed => At(d, r, Y, k + 1, p * ENTRIES + i) /\ Link(d, s.at, i, d.at)

(* One level down. *)
LEMMA DescendKeeps ==
  ASSUME NEW s, NEW r, NEW Y, NEW k \in 1..3, NEW p, At(s, r, Y, k, p), ~s.failed,
         NEW i \in Index, NEW user \in BOOLEAN,
         k = 1 /\ user => i = YardSlot,
         k = 3 => p \div ENTRIES = YardSlot
  PROVE  Descends(s, descend(s, i, user), r, Y, k, p, i)
<1>1. PICK L, P : /\ Tree(s, r, Y, L, P) /\ s.at \in DOMAIN s.tables
                  /\ L[s.at] = k /\ P[s.at] = p
  BY DEF At
<1> DEFINE existing == s.tables[s.at][i]
           fresh == allocate_table(s)
           d == descend(s, i, user)
<1>2. /\ s \in Space /\ s.given \in Nat /\ existing \in Entry
      /\ DOMAIN s.tables \subseteq 1..s.given
      /\ L \in [DOMAIN s.tables -> 1..4] /\ P \in [DOMAIN s.tables -> Nat]
      /\ p \in Nat
  BY <1>1, SpaceTypes DEF Tree
<1>3. CASE existing.present
  <2> DEFINE x == [existing EXCEPT !.user = @ \/ user]
             e == set_entry(s, s.at, i, x)
  <2>1. /\ x \in Entry /\ x.present /\ x.huge = existing.huge /\ x.to = existing.to
        /\ x.uncached = existing.uncached /\ x.writable = existing.writable
        /\ x.user = (existing.user \/ user)
    BY <1>2, <1>3, Marked
  <2> HIDE DEF x
  <2>2. Fits(existing, s.at, i, Y, L, P)
    BY <1>1, <1>3 DEF Tree
  <2>3. Leads(existing, s.at, i, L, P)
    BY <1>1, <2>2 DEF Fits
  <2>4. Fits(x, s.at, i, Y, L, P)
    BY <1>1, <2>1, <2>2 DEF Fits, Leads
  <2>5. Tree(e, r, Y, L, P)
    BY <1>1, <2>1, <2>4, TreeSets
  <2>6. Covers(existing, x, DOMAIN s.tables)
    BY <2>1 DEF Covers
  <2>7. Extends(s, e)
    BY <1>2, <2>1, <2>6, SetExtends
  <2>8. /\ e \in Space /\ DOMAIN e.tables = DOMAIN s.tables /\ e.given = s.given
        /\ e.failed = s.failed /\ e.tables[s.at][i] = x
    BY <1>1, <1>2, <2>1, SetEntry
  <2>9. d = [e EXCEPT !.at = existing.to]
    BY <1>3 DEF descend, x
  <2> HIDE DEF e, d
  <2>10. existing.to \in DOMAIN s.tables /\ existing.to \in Nat
    BY <1>2, <2>3 DEF Leads
  <2>11. /\ d \in Space /\ d.tables = e.tables /\ d.given = e.given /\ d.failed = e.failed
         /\ d.at = existing.to
    BY <2>8, <2>9, <2>10 DEF Space
  <2>12. Tree(d, r, Y, L, P)
    BY <1>2, <2>5, <2>8, <2>11, TreeSame
  <2>13. L[d.at] = k + 1 /\ P[d.at] = p * ENTRIES + i /\ d.at \in DOMAIN d.tables
    BY <1>1, <2>3, <2>8, <2>10, <2>11 DEF Leads
  <2>14. At(d, r, Y, k + 1, p * ENTRIES + i)
    BY <2>12, <2>13 DEF At
  <2>15. Link(d, s.at, i, d.at)
    BY <1>1, <2>1, <2>3, <2>8, <2>11, <2>13 DEF Link, Leads
  <2>16. Extends(s, d)
    BY <2>7, <2>11 DEF Extends
  <2>17. ~d.failed /\ d.failed \in BOOLEAN
    BY <2>8, <2>11 DEF Space
  <2> QED
    BY <2>14, <2>15, <2>16, <2>17 DEF Descends, d
<1>4. CASE ~existing.present /\ fresh.failed
  <2>1. fresh = [s EXCEPT !.failed = TRUE]
    BY <1>2, <1>4, AllocateTable, JoinedIs, EntryTypes
  <2>2. d = fresh
    BY <1>4 DEF descend
  <2> HIDE DEF d, fresh
  <2>3. d \in Space /\ d.tables = s.tables /\ d.given = s.given /\ d.failed = TRUE
    BY <1>2, <2>1, <2>2 DEF Space
  <2>4. Tree(d, r, Y, L, P)
    BY <1>1, <1>2, <2>3, TreeSame
  <2>5. Extends(s, d)
    BY <2>3, ExtendsReflexive
  <2> QED
    BY <2>3, <2>4, <2>5 DEF Descends, Shape, d
<1>5. CASE ~existing.present /\ ~fresh.failed
  <2> DEFINE c == [j \in Index |-> Absent]
             f == s.given + 1
             D == DOMAIN s.tables
             L2 == [t \in D \cup {f} |-> IF t = f THEN k + 1 ELSE L[t]]
             P2 == [t \in D \cup {f} |-> IF t = f THEN p * ENTRIES + i ELSE P[t]]
             x == Table(f, user)
  <2>1. fresh = Joined(s, c)
    BY <1>2, <1>5, AllocateTable
  <2>2. c \in [Index -> Entry] /\ \A j \in Index : ~c[j].present
    BY EntryTypes
  <2>3. /\ fresh \in Space
        /\ f \in Nat /\ f \notin D
        /\ DOMAIN fresh.tables = D \cup {f}
        /\ \A u \in D : fresh.tables[u] = s.tables[u]
        /\ fresh.given = f /\ fresh.at = f /\ fresh.failed = s.failed
    BY <1>2, <2>1, <2>2, JoinedIs
  <2>4. p * ENTRIES + i \in Nat
    BY <1>2, PagingAssumption DEF Index
  <2>5. L2 \in [D \cup {f} -> 1..4] /\ P2 \in [D \cup {f} -> Nat]
    BY <1>2, <2>4
  <2>6. (\A t \in D : L2[t] = L[t] /\ P2[t] = P[t]) /\ L2[f] = k + 1 /\ P2[f] = p * ENTRIES + i
    BY <2>3
  <2> HIDE DEF c, L2, P2
  <2>7. Tree(fresh, r, Y, L2, P2) /\ Extends(s, fresh)
    BY <1>1, <2>1, <2>2, <2>5, <2>6, TreeJoins
  <2> HIDE DEF fresh
  <2>8. /\ x \in Entry /\ x.present /\ ~x.huge /\ x.to = f /\ x.user = user
    BY <2>3, EntryTypes DEF Table
  <2>9. L2[s.at] = k /\ P2[s.at] = p /\ s.at \in DOMAIN fresh.tables
    BY <1>1, <2>3, <2>6
  <2>10. Leads(x, s.at, i, L2, P2)
    BY <2>5, <2>6, <2>8, <2>9 DEF Leads
  <2>11. Fits(x, s.at, i, Y, L2, P2)
    BY <2>8, <2>9, <2>10 DEF Fits
  <2>12. d = set_entry(fresh, s.at, i, x)
    BY <1>5, <2>3 DEF descend, fresh
  <2> HIDE DEF d
  <2>13. Tree(d, r, Y, L2, P2)
    BY <2>7, <2>8, <2>11, <2>12, TreeSets
  <2>14. ~fresh.tables[s.at][i].present
    BY <1>1, <1>5, <2>3
  <2>15. Extends(fresh, d)
    BY <2>3, <2>8, <2>12, <2>14, SetExtends
  <2>16. Extends(s, d)
    BY <2>7, <2>15, ExtendsTransitive
  <2>17. /\ DOMAIN d.tables = D \cup {f} /\ d.at = f /\ d.failed = s.failed
         /\ d.tables[s.at][i] = x
    BY <2>3, <2>8, <2>9, <2>12, SetEntry
  <2>18. At(d, r, Y, k + 1, p * ENTRIES + i)
    BY <2>6, <2>13, <2>17 DEF At
  <2>19. Link(d, s.at, i, d.at)
    BY <2>3, <2>8, <2>9, <2>17 DEF Link
  <2>20. ~d.failed /\ d.failed \in BOOLEAN
    BY <1>2, <2>17 DEF Space
  <2> QED
    BY <2>16, <2>18, <2>19, <2>20 DEF Descends, d
<1> QED
  BY <1>3, <1>4, <1>5

-----------------------------------------------------------------------------
(* Large pages by number: the indices the walk takes to page n. *)

First(n) == (n \div ENTRIES) \div ENTRIES
Second(n) == (n \div ENTRIES) % ENTRIES
Third(n) == n % ENTRIES

LEMMA Indices ==
  ASSUME NEW n \in Nat, n < ENTRIES * ENTRIES * ENTRIES
  PROVE  /\ First(n) \in Index /\ Second(n) \in Index /\ Third(n) \in Index
         /\ n = (First(n) * ENTRIES + Second(n)) * ENTRIES + Third(n)
<1> DEFINE E == ENTRIES
           q == n \div E
           a == q \div E
<1>0. E \in Nat \ {0}
  BY PagingAssumption
<1> HIDE DEF E
<1>1. n % E \in 0..(E - 1) /\ q \in Nat /\ n = E * q + (n % E)
  BY <1>0, Division
<1> HIDE DEF q
<1>2. q % E \in 0..(E - 1) /\ a \in Nat /\ q = E * a + (q % E)
  BY <1>0, <1>1, Division
<1> HIDE DEF a
<1>3. a < E
  <2> SUFFICES ASSUME a >= E  PROVE FALSE
    BY <1>0, <1>2
  <2>1. E * a >= E * E
    BY <1>0, <1>2
  <2>2. q >= E * E /\ E * E \in Nat
    BY <1>0, <1>2, <2>1
  <2>3. E * q >= E * (E * E)
    BY <1>0, <1>1, <2>2
  <2>4. n >= E * (E * E)
    BY <1>0, <1>1, <2>2, <2>3
  <2>5. E * (E * E) = E * E * E
    BY <1>0
  <2> QED
    BY <1>0, <2>2, <2>4, <2>5 DEF E
<1>4. (a * E + (q % E)) * E + (n % E) = n
  BY <1>0, <1>1, <1>2
<1> QED
  BY <1>0, <1>1, <1>2, <1>3, <1>4 DEF First, Second, Third, Index, E, q, a

LEMMA PageIndices ==
  ASSUME NEW n \in Nat, n < ENTRIES * ENTRIES * ENTRIES
  PROVE  /\ slot(n * HUGE_PAGE_SIZE) = First(n)
         /\ pdpt_index(n * HUGE_PAGE_SIZE) = Second(n)
         /\ directory_index(n * HUGE_PAGE_SIZE) = Third(n)
<1> DEFINE E == ENTRIES
           H == HUGE_PAGE_SIZE
           x == n * H
<1>0. E \in Nat \ {0} /\ H \in Nat \ {0}
  BY PagingAssumption
<1>1. First(n) \in 0..(E - 1)
  BY Indices DEF Index
<1> HIDE DEF E, H
<1>2. x \in Nat /\ x = H * n + 0 /\ 0 \in 0..(H - 1)
  BY <1>0
<1>3. x \div H = n
  BY <1>0, <1>2, DivisionUnique
<1> HIDE DEF x
<1>4. x \div (H * E) = n \div E /\ H * E \in Nat \ {0}
  BY <1>0, <1>2, <1>3, DivideTwice DEF Twice
<1>5. E * H = H * E
  BY <1>0
<1>6. x \div ((H * E) * E) = (n \div E) \div E
  <2>1. E \in Nat \ {0} /\ H \in Nat \ {0} /\ x \in Nat
    BY <1>0, <1>2
  <2> QED
    BY <1>3, <2>1, DivideThrice
<1>7. First(n) % E = First(n)
  BY <1>0, <1>1, SmallRemainder
<1>8. directory_index(x) = n % E
  BY <1>3 DEF directory_index, E, H
<1>9. pdpt_index(x) = (n \div E) % E
  BY <1>4, <1>5 DEF pdpt_index, GIB, E, H
<1>10. slot(x) = First(n) % E
  BY <1>5, <1>6 DEF slot, GIB, First, E, H
<1> QED
  BY <1>7, <1>8, <1>9, <1>10 DEF First, Second, Third, E, H, x

(* Page n is mapped, and where it must be past the caches. *)
Reaches(s, r, n, uncached) ==
  \E u, v :
    /\ Link(s, r, First(n), u) /\ Link(s, u, Second(n), v)
    /\ Third(n) \in Index
    /\ s.tables[v][Third(n)].present /\ s.tables[v][Third(n)].huge
    /\ uncached => s.tables[v][Third(n)].uncached

LEMMA ReachesStill ==
  ASSUME NEW s, NEW d, Extends(s, d), NEW r, NEW n, NEW uncached, Reaches(s, r, n, uncached)
  PROVE  Reaches(d, r, n, uncached)
<1>1. PICK u, v : /\ Link(s, r, First(n), u) /\ Link(s, u, Second(n), v)
                  /\ Third(n) \in Index
                  /\ s.tables[v][Third(n)].present /\ s.tables[v][Third(n)].huge
                  /\ uncached => s.tables[v][Third(n)].uncached
  BY DEF Reaches
<1>2. Link(d, r, First(n), u) /\ Link(d, u, Second(n), v)
  BY <1>1, LinkStays
<1>3. v \in DOMAIN s.tables
  BY <1>1 DEF Link
<1>4. Covers(s.tables[v][Third(n)], d.tables[v][Third(n)], DOMAIN s.tables)
  BY <1>1, <1>3 DEF Extends
<1> QED
  BY <1>1, <1>2, <1>4 DEF Reaches, Covers

(* A new walk from the root. *)
LEMMA FromRoot ==
  ASSUME NEW s, NEW r, NEW Y, Shape(s, r, Y)
  PROVE  At(from(s, r), r, Y, 1, 0) /\ ~from(s, r).failed /\ Extends(s, from(s, r))
<1>1. PICK L, P : Tree(s, r, Y, L, P)
  BY DEF Shape
<1> DEFINE d == from(s, r)
<1>2. s \in Space /\ r \in DOMAIN s.tables /\ r \in Nat /\ L[r] = 1 /\ P[r] = 0 /\ s.given \in Nat
  BY <1>1, SpaceTypes DEF Tree
<1>3. d \in Space /\ d.tables = s.tables /\ d.given = s.given /\ d.at = r /\ ~d.failed
  BY <1>2 DEF from, Space
<1> HIDE DEF d
<1>4. Tree(d, r, Y, L, P)
  BY <1>1, <1>2, <1>3, TreeSame
<1>5. At(d, r, Y, 1, 0)
  BY <1>2, <1>3, <1>4 DEF At
<1>6. Extends(s, d)
  BY <1>3, ExtendsReflexive
<1> QED
  BY <1>3, <1>5, <1>6 DEF d

LEMMA AtIsShape ==
  ASSUME NEW s, NEW r, NEW Y, NEW k, NEW p, At(s, r, Y, k, p)
  PROVE  Shape(s, r, Y) /\ s \in Space
BY DEF At, Shape, Tree

(* After a failure nothing more is done. *)
LEMMA DescendFailed ==
  ASSUME NEW s, s.failed, NEW i, NEW user
  PROVE  descend(s, i, user) = s
BY DEF descend

(* The kernel's own walks do not mark anything. *)
LEMMA KernelDescends ==
  ASSUME NEW s, NEW r, NEW Y, NEW k \in 1..2, NEW p, At(s, r, Y, k, p), ~s.failed,
         NEW i \in Index
  PROVE  Descends(s, descend(s, i, FALSE), r, Y, k, p, i)
<1>1. k \in 1..3 /\ k # 3
  OBVIOUS
<1> DEFINE user == FALSE
<1>2. user \in BOOLEAN /\ ~user
  OBVIOUS
<1> HIDE DEF user
<1>3. Descends(s, descend(s, i, user), r, Y, k, p, i)
  BY <1>1, <1>2, DescendKeeps
<1> QED
  BY <1>3 DEF user

(* One large page of a device. *)
MapsPage(s, d, n, Y) ==
  /\ Shape(d, pml4, Y) /\ Extends(s, d) /\ d.failed \in BOOLEAN
  /\ ~d.failed => Reaches(d, pml4, n, TRUE)

LEMMA DevicePageKeeps ==
  ASSUME NEW s, NEW Y, Shape(s, pml4, Y), ~s.failed,
         NEW n \in Nat, n < ENTRIES * ENTRIES * ENTRIES, First(n) # YardSlot
  PROVE  MapsPage(s, map_device_page(s, n * HUGE_PAGE_SIZE), n, Y)
<1> DEFINE page == n * HUGE_PAGE_SIZE
           a == First(n)
           b == Second(n)
           c == Third(n)
           p == 0 * ENTRIES + a
           w0 == from(s, pml4)
           w1 == descend(w0, a, FALSE)
           w2 == descend(w1, b, FALSE)
           d == map_device_page(s, page)
<1>1. a \in Index /\ b \in Index /\ c \in Index /\ n = (a * ENTRIES + b) * ENTRIES + c
  BY Indices
<1>2. slot(page) = a /\ pdpt_index(page) = b /\ directory_index(page) = c
  BY PageIndices
<1>3. d = IF w2.failed THEN w2 ELSE set_entry(w2, w2.at, c, HugePage(page, TRUE))
  BY <1>2 DEF map_device_page
<1>4. At(w0, pml4, Y, 1, 0) /\ ~w0.failed /\ Extends(s, w0) /\ w0.at = pml4
  <2>1. s \in Space
    BY DEF Shape, Tree
  <2>2. w0.at = pml4
    BY <2>1 DEF from, Space
  <2> QED
    BY <2>2, FromRoot
<1> HIDE DEF w0, a, b, c, page
<1>5. Descends(w0, w1, pml4, Y, 1, 0, a)
  <2>1. 1 \in 1..2
    OBVIOUS
  <2> QED
    BY <1>1, <1>4, <2>1, KernelDescends, Zenon
<1> HIDE DEF w1, d
<1>6. Extends(s, w1)
  BY <1>4, <1>5, ExtendsTransitive DEF Descends
<1>7. CASE w1.failed
  <2>1. w2 = w1
    BY <1>7, DescendFailed
  <2> QED
    BY <1>3, <1>5, <1>6, <1>7, <2>1 DEF Descends, MapsPage, d, page
<1>8. CASE ~w1.failed
  <2>1. At(w1, pml4, Y, 2, p) /\ Link(w1, pml4, a, w1.at)
    BY <1>4, <1>5, <1>8 DEF Descends
  <2> HIDE DEF p
  <2>2. Descends(w1, w2, pml4, Y, 2, p, b)
    <3>1. 2 \in 1..2
      OBVIOUS
    <3> QED
      BY <1>1, <1>8, <2>1, <3>1, KernelDescends, Zenon
  <2> HIDE DEF w2
  <2>3. Extends(s, w2)
    BY <1>6, <2>2, ExtendsTransitive DEF Descends
  <2>4. CASE w2.failed
    BY <1>3, <2>2, <2>3, <2>4 DEF Descends, MapsPage, d, page
  <2>5. CASE ~w2.failed
    <3> DEFINE e == HugePage(page, TRUE)
               z == set_entry(w2, w2.at, c, e)
    <3>1. At(w2, pml4, Y, 3, p * ENTRIES + b) /\ Link(w2, w1.at, b, w2.at) /\ Extends(w1, w2)
      BY <2>2, <2>5 DEF Descends
    <3>2. PICK L, P : /\ Tree(w2, pml4, Y, L, P) /\ w2.at \in DOMAIN w2.tables
                      /\ L[w2.at] = 3 /\ P[w2.at] = p * ENTRIES + b
      BY <3>1 DEF At
    <3>3. p = a /\ p * ENTRIES + b = ENTRIES * a + b
      BY <1>1, PagingAssumption DEF p, Index
    <3>4. (ENTRIES * a + b) \div ENTRIES = a
      BY <1>1, PagingAssumption, DivisionUnique DEF Index
    <3>5. P[w2.at] \div ENTRIES # YardSlot
      BY <3>2, <3>3, <3>4 DEF a
    <3>6. page \in Nat /\ page = (P[w2.at] * ENTRIES + c) * HUGE_PAGE_SIZE
      BY <1>1, <3>2, <3>3, PagingAssumption DEF page, Index
    <3>7. /\ e \in Entry /\ e.present /\ e.huge /\ e.to = page /\ e.uncached /\ ~e.user
      BY <3>6, EntryTypes DEF HugePage
    <3> HIDE DEF e
    <3>8. Fits(e, w2.at, c, Y, L, P)
      BY <3>2, <3>5, <3>6, <3>7 DEF Fits
    <3>9. Tree(z, pml4, Y, L, P)
      BY <3>2, <3>7, <3>8, TreeSets
    <3>10. w2 \in Space
      BY <3>2 DEF Tree
    <3>11. ASSUME w2.tables[w2.at][c].present
           PROVE  Covers(w2.tables[w2.at][c], e, DOMAIN w2.tables)
      <4>1. Fits(w2.tables[w2.at][c], w2.at, c, Y, L, P)
        BY <1>1, <3>2, <3>11 DEF Tree
      <4>2. w2.tables[w2.at][c].huge
        BY <3>2, <3>5, <4>1 DEF Fits
      <4>3. w2.tables[w2.at][c].huge = TRUE /\ e.huge = TRUE
        <5>1. w2.tables[w2.at][c] \in Entry
          BY <1>1, <3>2, <3>10, SpaceTypes
        <5> QED
          BY <3>7, <3>11, <4>2, <5>1, EntryTypes
      <4> QED
        BY <3>7, <4>3 DEF Covers
    <3>12. Extends(w2, z)
      BY <3>7, <3>10, <3>11, SetExtends
    <3>13. z.tables[w2.at][c] = e /\ z.failed = w2.failed
      BY <1>1, <3>2, <3>7, <3>10, SetEntry
    <3>14. d = z
      BY <1>3, <2>5 DEF e
    <3> HIDE DEF z
    <3>15. Link(w2, pml4, a, w1.at)
      BY <2>1, <3>1, LinkStays
    <3>16. Link(z, pml4, a, w1.at) /\ Link(z, w1.at, b, w2.at)
      BY <3>1, <3>12, <3>15, LinkStays
    <3>17. Reaches(z, pml4, n, TRUE)
      BY <1>1, <3>7, <3>13, <3>16 DEF Reaches, a, b, c
    <3>18. Extends(s, z)
      BY <2>3, <3>12, ExtendsTransitive
    <3>19. Shape(z, pml4, Y)
      BY <3>9 DEF Shape
    <3>20. z.failed \in BOOLEAN
      BY <2>2, <3>13 DEF Descends
    <3> QED
      BY <3>14, <3>17, <3>18, <3>19, <3>20 DEF MapsPage, d, page
  <2> QED
    BY <2>4, <2>5
<1> QED
  BY <1>7, <1>8

(* The pages of a device, by number. *)
Number(device, n) == (device[1] \div HUGE_PAGE_SIZE) + n
PastNumber(device) == (device[1] + device[2] + HUGE_PAGE_SIZE - 1) \div HUGE_PAGE_SIZE

LEMMA DeviceNumbers ==
  ASSUME NEW device \in Devices
  PROVE  /\ device[1] \in Nat /\ device[2] \in Nat
         /\ device[1] \div HUGE_PAGE_SIZE \in Nat /\ PastNumber(device) \in Nat
         /\ page_count(device) \in Nat
         /\ page_count(device) = PastNumber(device) - (device[1] \div HUGE_PAGE_SIZE)
         /\ first_page(device[1]) = (device[1] \div HUGE_PAGE_SIZE) * HUGE_PAGE_SIZE
         /\ past_page(device[1] + device[2]) = PastNumber(device) * HUGE_PAGE_SIZE
<1> DEFINE H == HUGE_PAGE_SIZE
           x == device[1]
           y == device[1] + device[2] + H - 1
           q == x \div H
           z == y \div H
<1>0. H \in Nat \ {0} /\ x \in Nat /\ device[2] \in Nat
  BY PagingAssumption, DevicesElsewhere
<1>1. y \in Nat /\ x <= y
  BY <1>0
<1> HIDE DEF H, x, y
<1>2. q \in Nat /\ x = H * q + (x % H) /\ x % H \in 0..(H - 1)
  BY <1>0, Division
<1>3. z \in Nat /\ y = H * z + (y % H) /\ y % H \in 0..(H - 1)
  BY <1>0, <1>1, Division
<1> HIDE DEF q, z
<1>4. q <= z
  <2> SUFFICES ASSUME z + 1 <= q  PROVE FALSE
    BY <1>2, <1>3
  <2>1. H * (z + 1) <= H * q
    BY <1>0, <1>2, <1>3
  <2>2. H * (z + 1) = H * z + H
    BY <1>0, <1>3
  <2> QED
    BY <1>0, <1>1, <1>2, <1>3, <2>1, <2>2
<1>5. z - q \in Nat
  BY <1>2, <1>3, <1>4
<1>6. z * H - q * H = H * (z - q) + 0 /\ 0 \in 0..(H - 1)
  BY <1>0, <1>2, <1>3
<1>7. (z * H - q * H) \div H = z - q
  BY <1>0, <1>5, <1>6, DivisionUnique
<1>8. first_page(device[1]) = q * H /\ PastNumber(device) = z
  BY DEF first_page, PastNumber, q, z, x, y, H
<1>9. past_page(device[1] + device[2]) = z * H
  BY DEF past_page, z, y, H
<1>10. page_count(device) = z - q
  BY <1>7, <1>8, <1>9 DEF page_count, H
<1> QED
  BY <1>0, <1>2, <1>3, <1>5, <1>8, <1>9, <1>10 DEF q, x, H

LEMMA DevicePages ==
  ASSUME NEW device \in Devices, NEW n \in 0..(page_count(device) - 1)
  PROVE  /\ Number(device, n) \in Nat
         /\ Number(device, n) < ENTRIES * ENTRIES * ENTRIES
         /\ First(Number(device, n)) # YardSlot
         /\ device_page(device, n) = Number(device, n) * HUGE_PAGE_SIZE
<1> DEFINE H == HUGE_PAGE_SIZE
           E == ENTRIES
           q == device[1] \div H
           m == Number(device, n)
           T == E * E * E
<1>0. H \in Nat \ {0} /\ E \in Nat \ {0} /\ q \in Nat /\ n \in Nat
  BY PagingAssumption, DeviceNumbers
<1>1. device_page(device, n) = q * H + n * H
  BY DeviceNumbers DEF device_page
<1> HIDE DEF q
<1>2. m \in Nat /\ m = q + n
  BY <1>0 DEF Number, q
<1> HIDE DEF m, H, E
<1>3. device_page(device, n) = m * H
  BY <1>0, <1>1, <1>2
<1>4. device_page(device, n) < E * E * (E * H) /\ slot(device_page(device, n)) # YardSlot
  BY DevicesElsewhere DEF GIB, E, H
<1>5. E * E * (E * H) = T * H /\ T \in Nat
  BY <1>0
<1> HIDE DEF T
<1>6. m < T
  <2> SUFFICES ASSUME m >= T  PROVE FALSE
    BY <1>2, <1>5
  <2>1. m * H >= T * H
    BY <1>0, <1>2, <1>5
  <2>2. m * H \in Nat /\ T * H \in Nat
    BY <1>0, <1>2, <1>5
  <2> QED
    BY <1>3, <1>4, <1>5, <2>1, <2>2
<1>7. m < ENTRIES * ENTRIES * ENTRIES
  BY <1>6 DEF T, E
<1>8. slot(m * H) = First(m)
  BY <1>2, <1>7, PageIndices DEF H
<1> QED
  BY <1>2, <1>3, <1>4, <1>7, <1>8 DEF m, H

MapsPages(s, d, device, count, Y) ==
  /\ Shape(d, pml4, Y) /\ Extends(s, d) /\ d.failed \in BOOLEAN
  /\ ~d.failed => \A n \in 0..(count - 1) : Reaches(d, pml4, Number(device, n), TRUE)

(* All pages of a device, or those before the first failure. *)
LEMMA DevicePagesKeep ==
  ASSUME NEW s, NEW Y, Shape(s, pml4, Y), ~s.failed, NEW device \in Devices
  PROVE  MapsPages(s, map_device_pages(s, device), device, page_count(device), Y)
<1> DEFINE N == page_count(device)
           page(n) == device_page(device, n)
           V == {x \in Space : Shape(x, pml4, Y)}
           G == [k \in 0..(N - 1) |-> [x \in V |-> map_device_page(x, page(k))]]
           Is(f) == f = [n \in 0..N |-> IF n = 0 THEN s ELSE map_device_page(f[n - 1], page(n - 1))]
           upto == CHOOSE f : Is(f)
<1>1. N \in Nat
  BY DeviceNumbers
<1>2. s \in V
  BY DEF Shape, Tree
<1>3. ASSUME NEW k \in 0..(N - 1), NEW x, Shape(x, pml4, Y), ~x.failed
      PROVE  MapsPage(x, map_device_page(x, page(k)), Number(device, k), Y)
  <2>1. /\ Number(device, k) \in Nat /\ Number(device, k) < ENTRIES * ENTRIES * ENTRIES
        /\ First(Number(device, k)) # YardSlot
        /\ page(k) = Number(device, k) * HUGE_PAGE_SIZE
    BY DevicePages
  <2> HIDE DEF page
  <2>2. MapsPage(x, map_device_page(x, Number(device, k) * HUGE_PAGE_SIZE), Number(device, k), Y)
    BY <1>3, <2>1, DevicePageKeeps
  <2> QED
    BY <2>1, <2>2
<1> HIDE DEF page, N
<1>4. ASSUME NEW x, x.failed, NEW k  PROVE map_device_page(x, page(k)) = x
  BY <1>4 DEF map_device_page
<1>5. ASSUME NEW k \in 0..(N - 1), NEW x \in V
      PROVE  map_device_page(x, page(k)) \in V
  <2>1. CASE x.failed
    BY <1>4, <2>1
  <2>2. CASE ~x.failed
    <3>1. Shape(map_device_page(x, page(k)), pml4, Y)
      BY <1>3, <2>2 DEF MapsPage
    <3> QED
      BY <3>1 DEF Shape, Tree
  <2> QED
    BY <2>1, <2>2
<1> HIDE DEF V
<1>6. G \in [0..(N - 1) -> [V -> V]]
  BY <1>5
<1>7. \A k \in 0..(N - 1), x \in V : G[k][x] = map_device_page(x, page(k))
  OBVIOUS
<1> HIDE DEF G
<1>8. PICK f \in [0..N -> V] : f = [k \in 0..N |-> IF k = 0 THEN s ELSE G[k - 1][f[k - 1]]]
  <2>1. Chain(V, s, N, G)
    BY <1>1, <1>2, <1>6, ChainExists
  <2> QED
    BY <2>1 DEF Chain
<1>9. ASSUME NEW n \in 0..N
      PROVE  f[n] = IF n = 0 THEN s ELSE map_device_page(f[n - 1], page(n - 1))
  <2>1. CASE n = 0
    BY <1>8, <2>1
  <2>2. CASE n # 0
    <3>1. n - 1 \in 0..(N - 1) /\ n - 1 \in 0..N
      BY <1>1, <2>2
    <3>2. f[n] = G[n - 1][f[n - 1]] /\ f[n - 1] \in V
      BY <1>8, <2>2, <3>1
    <3> QED
      BY <1>7, <2>2, <3>1, <3>2
  <2> QED
    BY <2>1, <2>2
<1>10. Is(f)
  BY <1>8, <1>9
<1>11. Is(upto)
  BY <1>10
<1>12. map_device_pages(s, device) = upto[N]
  BY DEF map_device_pages, N, page
<1> HIDE DEF upto
<1>13. /\ upto[0] = s
       /\ \A n \in 0..N : n # 0 => upto[n] = map_device_page(upto[n - 1], page(n - 1))
  BY <1>1, <1>11
<1> DEFINE Bad == {k \in 0..N : ~MapsPages(s, upto[k], device, k, Y)}
<1>14. Bad = {}
  <2>1. SUFFICES ASSUME Bad # {}  PROVE FALSE
    OBVIOUS
  <2>2. Bad \in SUBSET Nat
    BY <1>1
  <2>3. PICK k \in Bad : \A j \in Bad : k <= j
    BY <2>1, <2>2, LeastNatural
  <2>4. k # 0
    <3>1. MapsPages(s, s, device, 0, Y)
      BY <1>2, ExtendsReflexive DEF MapsPages, Shape, Tree, Space
    <3> QED
      BY <1>13, <2>3, <3>1
  <2>5. k - 1 \in 0..N /\ k - 1 \in 0..(N - 1) /\ k - 1 < k
    BY <1>1, <2>3, <2>4
  <2> DEFINE x == upto[k - 1]
             d == upto[k]
  <2>6. MapsPages(s, x, device, k - 1, Y)
    BY <2>3, <2>5
  <2>7. d = map_device_page(x, page(k - 1))
    BY <1>13, <2>3, <2>4
  <2> HIDE DEF x, d
  <2>8. CASE x.failed
    <3>1. d = x
      BY <1>4, <2>7, <2>8
    <3>2. MapsPages(s, d, device, k, Y)
      BY <2>6, <2>8, <3>1 DEF MapsPages
    <3> QED
      BY <2>3, <3>2 DEF d
  <2>9. CASE ~x.failed
    <3>1. MapsPage(x, d, Number(device, k - 1), Y)
      BY <1>3, <2>5, <2>6, <2>7, <2>9 DEF MapsPages
    <3>2. Shape(d, pml4, Y) /\ Extends(x, d) /\ d.failed \in BOOLEAN
      BY <3>1 DEF MapsPage
    <3>3. Extends(s, d)
      BY <2>6, <3>2, ExtendsTransitive DEF MapsPages
    <3>4. ASSUME ~d.failed, NEW n \in 0..(k - 1)
          PROVE  Reaches(d, pml4, Number(device, n), TRUE)
      <4>1. CASE n = k - 1
        BY <3>1, <3>4, <4>1 DEF MapsPage
      <4>2. CASE n # k - 1
        <5>1. n \in 0..((k - 1) - 1)
          BY <2>5, <4>2
        <5>2. Reaches(x, pml4, Number(device, n), TRUE)
          BY <2>6, <2>9, <5>1 DEF MapsPages
        <5> QED
          BY <3>2, <5>2, ReachesStill
      <4> QED
        BY <4>1, <4>2
    <3>5. MapsPages(s, d, device, k, Y)
      BY <3>2, <3>3, <3>4 DEF MapsPages
    <3> QED
      BY <2>3, <3>5 DEF d
  <2> QED
    BY <2>8, <2>9
<1>15. MapsPages(s, upto[N], device, N, Y)
  BY <1>1, <1>14
<1> QED
  BY <1>12, <1>15 DEF N

-----------------------------------------------------------------------------
(* paging::init. *)

(* The directory of a gibibyte, every page in it. *)
Filled(s, pdpt, g) ==
  \E v : Link(s, pdpt, g, v) /\ \A i \in Index : s.tables[v][i].present /\ s.tables[v][i].huge

LEMMA FilledStill ==
  ASSUME NEW s, NEW d, Extends(s, d), NEW pdpt, NEW g, Filled(s, pdpt, g)
  PROVE  Filled(d, pdpt, g)
<1>1. PICK v : /\ Link(s, pdpt, g, v)
               /\ \A i \in Index : s.tables[v][i].present /\ s.tables[v][i].huge
  BY DEF Filled
<1>2. Link(d, pdpt, g, v) /\ v \in DOMAIN s.tables
  BY <1>1, LinkStays DEF Link
<1>3. \A i \in Index : d.tables[v][i].present /\ d.tables[v][i].huge
  BY <1>1, <1>2 DEF Extends, Covers
<1> QED
  BY <1>2, <1>3 DEF Filled

(* The one table of the second level that init builds. *)
Holds(s, r, pdpt) ==
  \E L, P : Tree(s, r, {}, L, P) /\ pdpt \in DOMAIN s.tables /\ L[pdpt] = 2 /\ P[pdpt] = 0

Grows(s, d, r, pdpt, g) ==
  /\ Holds(d, r, pdpt) /\ d.failed \in BOOLEAN
  /\ ~s.tables[pdpt][g].present => Extends(s, d)
  /\ \A j \in Index : j # g => d.tables[pdpt][j] = s.tables[pdpt][j]
  /\ ~d.failed => Filled(d, pdpt, g)

LEMMA IdentityKeeps ==
  ASSUME NEW s, NEW r, NEW pdpt, Holds(s, r, pdpt), ~s.failed, NEW g \in Index
  PROVE  Grows(s, identity(s, pdpt, g), r, pdpt, g)
<1>1. PICK L, P : /\ Tree(s, r, {}, L, P) /\ pdpt \in DOMAIN s.tables
                  /\ L[pdpt] = 2 /\ P[pdpt] = 0
  BY DEF Holds
<1> DEFINE t == allocate_table(s)
           d == identity(s, pdpt, g)
           D == DOMAIN s.tables
           f == s.given + 1
           none == [i \in Index |-> Absent]
           page(i) == g * GIB + i * HUGE_PAGE_SIZE
           c == [i \in Index |-> HugePage(page(i), page(i) >= DEVICE_WINDOW)]
<1>2. /\ s \in Space /\ s.given \in Nat /\ D \subseteq 1..s.given
      /\ L \in [D -> 1..4] /\ P \in [D -> Nat]
  BY <1>1, SpaceTypes DEF Tree
<1>3. CASE t.failed
  <2>1. t = [s EXCEPT !.failed = TRUE]
    BY <1>2, <1>3, AllocateTable, JoinedIs, EntryTypes
  <2>2. d = [s EXCEPT !.failed = TRUE]
    BY <1>3 DEF identity
  <2> HIDE DEF d
  <2>3. d \in Space /\ d.tables = s.tables /\ d.given = s.given /\ d.failed = TRUE
    BY <1>2, <2>2 DEF Space
  <2>4. Tree(d, r, {}, L, P)
    BY <1>1, <1>2, <2>3, TreeSame
  <2>5. Extends(s, d)
    BY <2>3, ExtendsReflexive
  <2>6. Holds(d, r, pdpt)
    BY <1>1, <2>3, <2>4 DEF Holds
  <2> QED
    BY <2>3, <2>5, <2>6 DEF Grows, d
<1>4. CASE ~t.failed
  <2> DEFINE filled == [t EXCEPT !.tables[t.at] = c]
             z == Joined(s, c)
             x == Table(f, FALSE)
             L2 == [u \in D \cup {f} |-> IF u = f THEN 3 ELSE L[u]]
             P2 == [u \in D \cup {f} |-> IF u = f THEN g ELSE P[u]]
  <2>1. t = Joined(s, none) /\ none \in [Index -> Entry]
    BY <1>2, <1>4, AllocateTable, EntryTypes
  <2>2. /\ t \in Space /\ f \in Nat /\ f \notin D
        /\ DOMAIN t.tables = D \cup {f}
        /\ \A u \in D : t.tables[u] = s.tables[u]
        /\ t.given = f /\ t.at = f /\ t.failed = s.failed /\ t.limit = s.limit
    BY <1>2, <2>1, JoinedIs
  <2>3. /\ ENTRIES \in Nat \ {0} /\ HUGE_PAGE_SIZE \in Nat \ {0} /\ DEVICE_WINDOW \in Nat
        /\ g \in Nat /\ g < ENTRIES /\ \A i \in Index : i \in Nat
    BY PagingAssumption DEF Index
  <2>4. ASSUME NEW i \in Index
        PROVE  page(i) \in Nat /\ page(i) = (g * ENTRIES + i) * HUGE_PAGE_SIZE
    BY <2>3 DEF GIB
  <2>5. ASSUME NEW i \in Index
        PROVE  /\ c[i] \in Entry /\ c[i].present /\ c[i].huge
               /\ c[i].to = (g * ENTRIES + i) * HUGE_PAGE_SIZE
    <3>1. (page(i) >= DEVICE_WINDOW) \in BOOLEAN /\ page(i) \in Nat
      BY <2>3, <2>4
    <3>2. c[i] = HugePage(page(i), page(i) >= DEVICE_WINDOW)
      OBVIOUS
    <3>3. HugePage(page(i), page(i) >= DEVICE_WINDOW) \in Entry
      BY <3>1, EntryTypes
    <3>4. c[i].present /\ c[i].huge /\ c[i].to = page(i)
      BY <3>2 DEF HugePage
    <3> HIDE DEF c, page
    <3> QED
      BY <2>4, <3>2, <3>3, <3>4
  <2>6. c \in [Index -> Entry]
    BY <2>5
  <2> HIDE DEF c
  <2>7. /\ z \in Space
        /\ DOMAIN z.tables = D \cup {f} /\ z.tables[f] = c
        /\ \A u \in D : z.tables[u] = s.tables[u]
        /\ z.given = f /\ z.at = f /\ z.failed = s.failed /\ z.limit = s.limit
    BY <1>2, <2>6, JoinedIs
  <2> HIDE DEF z
  <2>8. filled = z
    <3>1. filled = [t EXCEPT !.tables = [t.tables EXCEPT ![f] = c]]
      BY <2>2
    <3> DEFINE m == [t.tables EXCEPT ![f] = c]
    <3>2. m = z.tables
      <4>1. \A u \in D \cup {f} : m[u] = z.tables[u]
        BY <2>2, <2>7
      <4>2. DOMAIN m = D \cup {f}
        BY <2>2
      <4>3. m = [u \in D \cup {f} |-> m[u]] /\ z.tables = [u \in D \cup {f} |-> z.tables[u]]
        <5>1. z.tables \in [D \cup {f} -> [Index -> Entry]]
          BY <2>7, SpaceTypes
        <5>2. t.tables \in [D \cup {f} -> [Index -> Entry]]
          BY <2>2, SpaceTypes
        <5> QED
          BY <5>1, <5>2
      <4> QED
        BY <4>1, <4>3
    <3> HIDE DEF m
    <3> QED
      BY <2>2, <2>7, <3>1, <3>2 DEF Space, m
  <2>9. d = set_entry(z, pdpt, g, x)
    BY <1>4, <2>2, <2>8 DEF identity, c
  <2>10. L2 \in [D \cup {f} -> 1..4] /\ P2 \in [D \cup {f} -> Nat]
    BY <1>2, <2>3
  <2>11. (\A u \in D : L2[u] = L[u] /\ P2[u] = P[u]) /\ L2[f] = 3 /\ P2[f] = g
    BY <2>2
  <2> HIDE DEF L2, P2, d
  <2>12. g \div ENTRIES = 0 /\ YardSlot # 0
    <3>1. g \div ENTRIES = 0
      <4>1. ENTRIES * 0 + g = g /\ 0 \in Nat /\ g \in 0..(ENTRIES - 1)
        BY <2>3
      <4> QED
        BY <2>3, <4>1, DivisionUnique
    <3> QED
      BY <3>1, PagingAssumption
  <2>13. ASSUME NEW i \in Index  PROVE Fits(c[i], f, i, {}, L2, P2)
    BY <2>5, <2>11, <2>12 DEF Fits
  <2>14. Tree(z, r, {}, L2, P2) /\ Extends(s, z)
    <3> DEFINE Y == {}
    <3>1. Tree(s, r, Y, L, P) /\ \A i \in Index : c[i].present => Fits(c[i], f, i, Y, L2, P2)
      BY <1>1, <2>13
    <3> HIDE DEF Y
    <3>2. Tree(z, r, Y, L2, P2) /\ Extends(s, z)
      BY <2>6, <2>10, <2>11, <3>1, TreeJoins DEF z
    <3> QED
      BY <3>2 DEF Y
  <2>15. x \in Entry /\ x.present /\ ~x.huge /\ x.to = f
    BY <2>2, EntryTypes DEF Table
  <2> HIDE DEF x
  <2>16. Fits(x, pdpt, g, {}, L2, P2)
    <3>1. 0 * ENTRIES + g = g
      BY <2>3
    <3>2. L2[pdpt] = 2 /\ P2[pdpt] = 0 /\ f \in DOMAIN L2
      BY <1>1, <2>10, <2>11
    <3>3. Leads(x, pdpt, g, L2, P2)
      BY <2>11, <2>15, <3>1, <3>2 DEF Leads
    <3> QED
      BY <3>2, <3>3 DEF Fits
  <2>17. Tree(d, r, {}, L2, P2)
    BY <2>9, <2>14, <2>15, <2>16, TreeSets
  <2>18. /\ DOMAIN d.tables = D \cup {f} /\ d.failed = s.failed
         /\ \A u \in D \cup {f}, j \in Index :
              d.tables[u][j] = IF u = pdpt /\ j = g THEN x ELSE z.tables[u][j]
    BY <2>7, <2>9, <2>15, SetEntry
  <2>19. Holds(d, r, pdpt)
    BY <1>1, <2>11, <2>17, <2>18 DEF Holds
  <2>20. ASSUME ~s.tables[pdpt][g].present  PROVE Extends(s, d)
    <3>1. ~z.tables[pdpt][g].present
      BY <1>1, <2>7, <2>20
    <3>2. Extends(z, d)
      BY <2>7, <2>9, <2>15, <3>1, SetExtends
    <3> QED
      BY <2>14, <3>2, ExtendsTransitive
  <2>21. \A j \in Index : j # g => d.tables[pdpt][j] = s.tables[pdpt][j]
    BY <1>1, <2>7, <2>18
  <2>22. Filled(d, pdpt, g)
    <3>1. f # pdpt
      BY <1>1, <2>2
    <3>2. \A i \in Index : d.tables[f][i] = c[i]
      BY <2>7, <2>18, <3>1
    <3>3. Link(d, pdpt, g, f)
      BY <1>1, <2>15, <2>18 DEF Link
    <3> QED
      BY <2>5, <3>2, <3>3 DEF Filled
  <2>23. d.failed \in BOOLEAN
    BY <1>2, <2>18 DEF Space
  <2> QED
    BY <2>19, <2>20, <2>21, <2>22, <2>23 DEF Grows, d
<1> QED
  BY <1>3, <1>4

(* What k gibibytes leave behind. *)
Built(s, d, r, pdpt, k) ==
  /\ Holds(d, r, pdpt) /\ d.failed \in BOOLEAN
  /\ ~d.failed =>
       /\ Extends(s, d)
       /\ \A j \in Index : j >= k => ~d.tables[pdpt][j].present
       /\ \A g \in 0..(k - 1) : Filled(d, pdpt, g)

LEMMA IdentityMapKeeps ==
  ASSUME NEW s, NEW r, NEW pdpt, Holds(s, r, pdpt), ~s.failed,
         \A j \in Index : ~s.tables[pdpt][j].present,
         NEW N \in 0..ENTRIES
  PROVE  Built(s, identity_map(s, pdpt, N), r, pdpt, N)
<1> DEFINE V == {x \in Space : Holds(x, r, pdpt)}
           G == [k \in 0..(N - 1) |-> [x \in V |-> identity(x, pdpt, k)]]
           Is(f) == f = [n \in 0..N |-> IF n = 0 THEN s ELSE identity(f[n - 1], pdpt, n - 1)]
           upto == CHOOSE f : Is(f)
<1>1. N \in Nat /\ \A k \in 0..(N - 1) : k \in Index
  BY PagingAssumption DEF Index
<1>2. s \in V
  BY DEF Holds, Tree
<1>3. ASSUME NEW x \in Space, x.failed, NEW k  PROVE identity(x, pdpt, k) = x
  <2>1. identity(x, pdpt, k) = [x EXCEPT !.failed = TRUE]
    BY <1>3 DEF identity
  <2>2. x.failed = TRUE
    BY <1>3, SpaceTypes
  <2> QED
    BY <2>1, <2>2 DEF Space
<1>4. ASSUME NEW k \in 0..(N - 1), NEW x \in V
      PROVE  identity(x, pdpt, k) \in V
  <2>1. CASE x.failed
    BY <1>3, <2>1
  <2>2. CASE ~x.failed
    <3>1. Holds(identity(x, pdpt, k), r, pdpt)
      BY <1>1, <2>2, IdentityKeeps DEF Grows
    <3> QED
      BY <3>1 DEF Holds, Tree
  <2> QED
    BY <2>1, <2>2
<1>5. \A x \in V : x \in Space /\ Holds(x, r, pdpt)
  OBVIOUS
<1> HIDE DEF V
<1>6. G \in [0..(N - 1) -> [V -> V]]
  BY <1>4
<1>7. \A k \in 0..(N - 1), x \in V : G[k][x] = identity(x, pdpt, k)
  OBVIOUS
<1> HIDE DEF G
<1>8. PICK f \in [0..N -> V] : f = [k \in 0..N |-> IF k = 0 THEN s ELSE G[k - 1][f[k - 1]]]
  <2>1. Chain(V, s, N, G)
    BY <1>1, <1>2, <1>6, ChainExists
  <2> QED
    BY <2>1 DEF Chain
<1>9. ASSUME NEW n \in 0..N
      PROVE  f[n] = IF n = 0 THEN s ELSE identity(f[n - 1], pdpt, n - 1)
  <2>1. CASE n = 0
    BY <1>8, <2>1
  <2>2. CASE n # 0
    <3>1. n - 1 \in 0..(N - 1) /\ n - 1 \in 0..N
      BY <1>1, <2>2
    <3>2. f[n] = G[n - 1][f[n - 1]] /\ f[n - 1] \in V
      BY <1>8, <2>2, <3>1
    <3> QED
      BY <1>7, <2>2, <3>1, <3>2
  <2> QED
    BY <2>1, <2>2
<1>10. Is(f)
  BY <1>8, <1>9
<1>11. Is(upto)
  BY <1>10
<1>12. identity_map(s, pdpt, N) = upto[N]
  BY DEF identity_map
<1> HIDE DEF upto
<1>13. /\ upto[0] = s
       /\ \A n \in 0..N : n # 0 => upto[n] = identity(upto[n - 1], pdpt, n - 1)
  BY <1>1, <1>11
<1> DEFINE Bad == {k \in 0..N : ~Built(s, upto[k], r, pdpt, k)}
<1>14. Bad = {}
  <2>1. SUFFICES ASSUME Bad # {}  PROVE FALSE
    OBVIOUS
  <2>2. Bad \in SUBSET Nat
    BY <1>1
  <2>3. PICK k \in Bad : \A j \in Bad : k <= j
    BY <2>1, <2>2, LeastNatural
  <2>4. k # 0
    <3>1. s.failed \in BOOLEAN
      BY <1>2, <1>5, SpaceTypes
    <3>2. Extends(s, s)
      BY ExtendsReflexive
    <3>3. Built(s, s, r, pdpt, 0)
      BY <3>1, <3>2 DEF Built
    <3> QED
      BY <1>13, <2>3, <3>3
  <2>5. k - 1 \in 0..N /\ k - 1 \in 0..(N - 1) /\ k - 1 < k /\ k - 1 \in Index
    BY <1>1, <2>3, <2>4
  <2> DEFINE x == upto[k - 1]
             d == upto[k]
  <2>6. Built(s, x, r, pdpt, k - 1)
    BY <2>3, <2>5
  <2>7. d = identity(x, pdpt, k - 1)
    BY <1>13, <2>3, <2>4
  <2> HIDE DEF x, d
  <2>8. CASE x.failed
    <3>1. x \in Space
      BY <2>6 DEF Built, Holds, Tree
    <3>2. d = x
      BY <1>3, <2>7, <2>8, <3>1
    <3>3. Built(s, d, r, pdpt, k)
      BY <2>6, <2>8, <3>2 DEF Built
    <3> QED
      BY <2>3, <3>3 DEF d
  <2>9. CASE ~x.failed
    <3>1. Holds(x, r, pdpt) /\ Extends(s, x) /\ ~x.tables[pdpt][k - 1].present
      BY <2>5, <2>6, <2>9 DEF Built
    <3>2. Grows(x, d, r, pdpt, k - 1)
      BY <2>5, <2>7, <2>9, <3>1, IdentityKeeps
    <3>3. Extends(x, d) /\ Extends(s, d)
      BY <3>1, <3>2, ExtendsTransitive DEF Grows
    <3>4. ASSUME NEW j \in Index, j >= k  PROVE ~d.tables[pdpt][j].present
      <4>1. j # k - 1 /\ j >= k - 1
        BY <2>5, <3>4 DEF Index
      <4> QED
        BY <2>6, <2>9, <3>2, <4>1 DEF Built, Grows
    <3>5. ASSUME ~d.failed, NEW g \in 0..(k - 1)  PROVE Filled(d, pdpt, g)
      <4>1. CASE g = k - 1
        BY <3>2, <3>5, <4>1 DEF Grows
      <4>2. CASE g # k - 1
        <5>1. g \in 0..((k - 1) - 1)
          BY <2>5, <4>2
        <5>2. Filled(x, pdpt, g)
          BY <2>6, <2>9, <5>1 DEF Built
        <5> QED
          BY <3>3, <5>2, FilledStill
      <4> QED
        BY <4>1, <4>2
    <3>6. Built(s, d, r, pdpt, k)
      BY <3>2, <3>3, <3>4, <3>5 DEF Built, Grows
    <3> QED
      BY <2>3, <3>6 DEF d
  <2> QED
    BY <2>8, <2>9
<1>15. Built(s, upto[N], r, pdpt, N)
  BY <1>1, <1>14
<1> QED
  BY <1>12, <1>15

(* Never more gibibytes than the one table of the second level has entries. *)
LEMMA NeededFits ==
  ASSUME NEW ends \in RegionEnds, NEW framebuffer_end \in UNION RegionEnds
  PROVE  needed_gib(ends, framebuffer_end) \in 0..ENTRIES
<1> DEFINE top == MAX_GIB * GIB
           low == LowGib * GIB
           capped == IF framebuffer_end < top THEN framebuffer_end ELSE top
           S == {low, capped} \cup {end \in ends : covered(end)}
           h == highest(ends, framebuffer_end)
           n == (h + GIB - 1) \div GIB
<1>1. /\ ENTRIES \in Nat \ {0} /\ HUGE_PAGE_SIZE \in Nat \ {0} /\ LowGib \in Nat
      /\ ends \subseteq Nat /\ framebuffer_end \in Nat
  BY PagingAssumption
<1>2. GIB \in Nat \ {0}
  BY <1>1 DEF GIB
<1>3. top \in Nat /\ low \in Nat
  BY <1>1, <1>2 DEF MAX_GIB
<1>4. \A end \in ends : covered(end) => end <= top
  BY DEF covered
<1>5. h = Largest(S)
  BY DEF highest
<1> HIDE DEF top, low
<1>6. capped \in Nat /\ capped <= top
  BY <1>1, <1>3
<1> HIDE DEF capped
<1>7. S \in SUBSET Nat /\ S # {} /\ \A x \in S : x <= low + top
  <2>1. ASSUME NEW x \in S  PROVE x \in Nat /\ x <= low + top
    <3>1. x = low \/ x = capped \/ (x \in ends /\ x <= top)
      BY <1>4
    <3> QED
      BY <1>1, <1>3, <1>6, <3>1
  <2> QED
    BY <2>1
<1> HIDE DEF S
<1>8. low + top \in Nat
  BY <1>3
<1>9. \E x \in S : \A y \in S : x >= y
  BY <1>7, <1>8, GreatestNatural
<1>10. \E x \in S : \A y \in S : y <= x
  BY <1>7, <1>9
<1>11. h \in S
  BY <1>5, <1>10 DEF Largest
<1> HIDE DEF h
<1>12. h + GIB - 1 \in Nat
  BY <1>2, <1>7, <1>11
<1>13. n \in Nat
  BY <1>2, <1>12, Division
<1>14. needed_gib(ends, framebuffer_end) = IF n < ENTRIES THEN n ELSE ENTRIES
  BY DEF needed_gib, MAX_GIB, h
<1> HIDE DEF n
<1> QED
  BY <1>1, <1>13, <1>14

(* Before init, and after one that found no frame. *)
Unbuilt(s) == s \in Space /\ ~s.failed /\ (s.given = 0 => DOMAIN s.tables = {})

(* The root alone. *)
LEMMA RootIsTree ==
  ASSUME NEW s, Unbuilt(s), s.given = 0, ~allocate_table(s).failed
  PROVE  /\ At(allocate_table(s), 1, {}, 1, 0) /\ allocate_table(s).at = 1
         /\ \A j \in Index : ~allocate_table(s).tables[1][j].present
<1> DEFINE none == [i \in Index |-> Absent]
           d == allocate_table(s)
           L == [t \in {1} |-> 1]
           P == [t \in {1} |-> 0]
<1>1. /\ s \in Space /\ DOMAIN s.tables \subseteq 1..s.given /\ DOMAIN s.tables = {}
      /\ none \in [Index -> Entry] /\ \A i \in Index : ~none[i].present
  BY EntryTypes DEF Unbuilt
<1>2. d = Joined(s, none)
  BY <1>1, AllocateTable
<1>3. /\ d \in Space /\ DOMAIN d.tables = {1} /\ d.tables[1] = none /\ d.given = 1 /\ d.at = 1
  <2>1. s.given + 1 = 1
    OBVIOUS
  <2> QED
    BY <1>1, <1>2, <2>1, JoinedIs
<1>4. L \in [{1} -> 1..4] /\ P \in [{1} -> Nat] /\ L[1] = 1 /\ P[1] = 0
  OBVIOUS
<1> HIDE DEF L, P, d, none
<1>5. \A t \in DOMAIN d.tables, i \in Index : ~d.tables[t][i].present
  BY <1>1, <1>3
<1>6. DOMAIN d.tables \subseteq 1..d.given
  BY <1>3
<1>7. Tree(d, 1, {}, L, P)
  BY <1>3, <1>4, <1>5, <1>6 DEF Tree
<1>8. At(d, 1, {}, 1, 0)
  BY <1>3, <1>4, <1>7 DEF At
<1> QED
  BY <1>3, <1>5, <1>8 DEF d

(* A table that was not there before is empty. *)
LEMMA FreshTable ==
  ASSUME NEW s \in Space, DOMAIN s.tables \subseteq 1..s.given, ~s.failed,
         s.at \in DOMAIN s.tables, NEW i \in Index, ~s.tables[s.at][i].present,
         NEW user \in BOOLEAN, ~descend(s, i, user).failed
  PROVE  LET d == descend(s, i, user) IN \A j \in Index : ~d.tables[d.at][j].present
<1> DEFINE none == [j \in Index |-> Absent]
           fresh == allocate_table(s)
           d == descend(s, i, user)
           f == s.given + 1
           x == Table(f, user)
<1>1. none \in [Index -> Entry] /\ \A j \in Index : ~none[j].present
  BY EntryTypes
<1>2. d = IF fresh.failed THEN fresh ELSE set_entry(fresh, s.at, i, Table(fresh.at, user))
  BY DEF descend
<1>3. ~fresh.failed
  BY <1>2
<1>4. fresh = Joined(s, none)
  BY <1>3, AllocateTable
<1> HIDE DEF none
<1>5. /\ fresh \in Space /\ f \in Nat /\ f \notin DOMAIN s.tables
      /\ DOMAIN fresh.tables = DOMAIN s.tables \cup {f} /\ fresh.tables[f] = none /\ fresh.at = f
  BY <1>1, <1>4, JoinedIs
<1>6. x \in Entry
  BY <1>5, EntryTypes
<1>7. d = set_entry(fresh, s.at, i, x)
  BY <1>2, <1>3, <1>5
<1> HIDE DEF fresh, x, d
<1>8. d.at = f /\ f # s.at /\ \A j \in Index : d.tables[f][j] = fresh.tables[f][j]
  BY <1>5, <1>6, <1>7, SetEntry
<1> QED
  BY <1>1, <1>5, <1>8 DEF d

InitBuilds(s, root, built, count) ==
  IF built.failed \/ root.failed
  THEN built \in Space /\ (built.given = 0 => DOMAIN built.tables = {})
  ELSE /\ root.at # 0 /\ Shape(built, root.at, {})
       /\ \A n \in Nat : n < count * ENTRIES => Reaches(built, root.at, n, FALSE)

LEMMA InitKeeps ==
  ASSUME NEW s, Unbuilt(s), s.given = 0, NEW count \in 0..ENTRIES
  PROVE  LET root == allocate_table(s)
             low == descend(root, 0, FALSE)
             built == IF low.failed THEN low ELSE identity_map(low, low.at, count)
         IN  InitBuilds(s, root, built, count)
<1> DEFINE root == allocate_table(s)
           low == descend(root, 0, FALSE)
           built == IF low.failed THEN low ELSE identity_map(low, low.at, count)
<1>0. s \in Space /\ DOMAIN s.tables = {} /\ DOMAIN s.tables \subseteq 1..s.given
  BY DEF Unbuilt
<1>1. CASE root.failed
  <2>1. root = [s EXCEPT !.failed = TRUE]
    <3> DEFINE none == [i \in Index |-> Absent]
    <3>1. none \in [Index -> Entry]
      BY EntryTypes
    <3>2. Joined(s, none).failed = s.failed
      BY <1>0, <3>1, JoinedIs
    <3> QED
      BY <1>0, <1>1, <3>2, AllocateTable DEF Unbuilt
  <2>2. low = root
    BY <1>1, DescendFailed
  <2>3. built = root
    BY <1>1, <2>2
  <2> HIDE DEF root, low, built
  <2>4. root \in Space /\ root.tables = s.tables
    BY <1>0, <2>1 DEF Space
  <2>5. InitBuilds(s, root, built, count)
    BY <1>0, <1>1, <2>3, <2>4 DEF InitBuilds
  <2> QED
    BY <2>5 DEF root, low, built
<1>2. CASE ~root.failed
  <2>1. /\ At(root, 1, {}, 1, 0) /\ root.at = 1
        /\ \A j \in Index : ~root.tables[1][j].present
    BY <1>2, RootIsTree
  <2> HIDE DEF root
  <2>2. 0 \in Index /\ ENTRIES \in Nat \ {0} /\ 1 \in 1..2
    BY PagingAssumption DEF Index
  <2>3. Descends(root, low, 1, {}, 1, 0, 0)
    BY <1>2, <2>1, <2>2, KernelDescends, Zenon
  <2>4. CASE low.failed
    <3>1. Shape(low, 1, {}) /\ built = low
      BY <2>3, <2>4 DEF Descends
    <3> HIDE DEF low, built
    <3>2. low \in Space /\ low.given # 0
      <4>1. PICK L, P : Tree(low, 1, {}, L, P)
        BY <3>1 DEF Shape
      <4>2. 1 \in 1..low.given /\ low \in Space
        BY <4>1 DEF Tree
      <4>3. low.given \in Nat
        BY <4>2, SpaceTypes
      <4> QED
        BY <4>2, <4>3
    <3>3. InitBuilds(s, root, built, count)
      BY <2>4, <3>1, <3>2 DEF InitBuilds
    <3> QED
      BY <3>3 DEF root, low, built
  <2>5. CASE ~low.failed
    <3> DEFINE pdpt == low.at
               d == identity_map(low, pdpt, count)
    <3>1. At(low, 1, {}, 1 + 1, 0 * ENTRIES + 0) /\ Link(low, 1, 0, pdpt) /\ Extends(root, low)
      BY <2>1, <2>3, <2>5 DEF Descends
    <3>2. 1 + 1 = 2 /\ 0 * ENTRIES + 0 = 0
      BY <2>2
    <3>3. PICK L, P : /\ Tree(low, 1, {}, L, P) /\ pdpt \in DOMAIN low.tables
                      /\ L[pdpt] = 2 /\ P[pdpt] = 0
      BY <3>1, <3>2 DEF At
    <3>4. Holds(low, 1, pdpt)
      BY <3>3 DEF Holds
    <3>5. \A j \in Index : ~low.tables[pdpt][j].present
      <4>1. root \in Space /\ DOMAIN root.tables \subseteq 1..root.given /\ root.at \in DOMAIN root.tables
        BY <2>1 DEF At, Tree
      <4>2. ~root.tables[root.at][0].present
        BY <2>1, <2>2
      <4>3. FALSE \in BOOLEAN
        OBVIOUS
      <4> QED
        BY <1>2, <2>2, <2>5, <4>1, <4>2, <4>3, FreshTable, Zenon
    <3> HIDE DEF low
    <3>6. Built(low, d, 1, pdpt, count)
      BY <2>5, <3>4, <3>5, IdentityMapKeeps
    <3>7. built = d
      BY <2>5 DEF low
    <3> HIDE DEF pdpt, d, built
    <3>8. PICK L2, P2 : Tree(d, 1, {}, L2, P2)
      BY <3>6 DEF Built, Holds
    <3>9. d \in Space /\ d.given # 0 /\ Shape(d, 1, {})
      <4>1. 1 \in 1..d.given /\ d \in Space
        BY <3>8 DEF Tree
      <4>2. d.given \in Nat
        BY <4>1, SpaceTypes
      <4> QED
        BY <3>8, <4>1, <4>2 DEF Shape
    <3>10. ASSUME ~d.failed, NEW n \in Nat, n < count * ENTRIES
           PROVE  Reaches(d, 1, n, FALSE)
      <4>1. Extends(low, d) /\ \A g \in 0..(count - 1) : Filled(d, pdpt, g)
        BY <3>6, <3>10 DEF Built
      <4> DEFINE g == n \div ENTRIES
      <4>2. g \in Nat /\ n = ENTRIES * g + (n % ENTRIES) /\ n % ENTRIES \in 0..(ENTRIES - 1)
        BY <2>2, Division
      <4> HIDE DEF g
      <4>3. g < count
        <5> SUFFICES ASSUME g >= count  PROVE FALSE
          BY <4>2
        <5>1. ENTRIES * g >= ENTRIES * count /\ ENTRIES * count = count * ENTRIES
          BY <2>2, <4>2
        <5> QED
          BY <2>2, <3>10, <4>2, <5>1
      <4>4. g \in 0..(count - 1) /\ g \in Index /\ g < ENTRIES
        BY <2>2, <4>2, <4>3 DEF Index
      <4>5. g % ENTRIES = g /\ g \div ENTRIES = 0
        <5>1. ENTRIES * 0 + g = g /\ g \in 0..(ENTRIES - 1) /\ 0 \in Nat
          BY <2>2, <4>2, <4>4
        <5> QED
          BY <2>2, <5>1, DivisionUnique
      <4>6. First(n) = 0 /\ Second(n) = g /\ Third(n) \in Index
        BY <2>2, <4>2, <4>5 DEF First, Second, Third, Index, g
      <4>7. PICK v : /\ Link(d, pdpt, g, v)
                     /\ \A i \in Index : d.tables[v][i].present /\ d.tables[v][i].huge
        BY <4>1, <4>4 DEF Filled
      <4>8. Link(d, 1, 0, pdpt)
        BY <3>1, <4>1, LinkStays
      <4> QED
        BY <4>6, <4>7, <4>8 DEF Reaches
    <3>11. InitBuilds(s, root, built, count)
      <4>1. CASE d.failed
        BY <3>7, <3>9, <4>1 DEF InitBuilds
      <4>2. CASE ~d.failed
        <5>1. \A n \in Nat : n < count * ENTRIES => Reaches(d, 1, n, FALSE)
          BY <3>10, <4>2
        <5>2. root.at # 0
          BY <2>1
        <5>3. /\ Shape(built, root.at, {})
              /\ \A n \in Nat : n < count * ENTRIES => Reaches(built, root.at, n, FALSE)
          BY <2>1, <3>7, <3>9, <5>1, Zenon
        <5>4. ~built.failed
          BY <3>7, <4>2
        <5> QED
          BY <1>2, <5>2, <5>3, <5>4 DEF InitBuilds
      <4> QED
        BY <4>1, <4>2
    <3> QED
      BY <3>11 DEF root, low, built, pdpt
  <2> QED
    BY <2>4, <2>5
<1> QED
  BY <1>1, <1>2

-----------------------------------------------------------------------------
(* map_yard_page. *)

LEMMA YardDescends ==
  ASSUME NEW s, NEW r, NEW Y, NEW k \in 1..3, NEW p, At(s, r, Y, k, p), ~s.failed,
         NEW i \in Index,
         k = 1 => i = YardSlot,
         k = 3 => p \div ENTRIES = YardSlot
  PROVE  Descends(s, descend(s, i, TRUE), r, Y, k, p, i)
<1> DEFINE user == TRUE
<1>1. user \in BOOLEAN
  OBVIOUS
<1> HIDE DEF user
<1>2. Descends(s, descend(s, i, user), r, Y, k, p, i)
  BY <1>1, DescendKeeps
<1> QED
  BY <1>2 DEF user

(* The walk to the yard's table of small pages, or the failure before it. *)
LEMMA YardWalk ==
  ASSUME NEW s, NEW Y, Shape(s, pml4, Y)
  PROVE  LET table == descend(descend(descend(from(s, pml4), YardSlot, TRUE), 0, TRUE), 0, TRUE)
         IN  /\ Extends(s, table) /\ table.failed \in BOOLEAN
             /\ table.failed => Shape(table, pml4, Y)
             /\ ~table.failed => \E p : At(table, pml4, Y, 4, p)
<1> DEFINE w0 == from(s, pml4)
           w1 == descend(w0, YardSlot, TRUE)
           w2 == descend(w1, 0, TRUE)
           w3 == descend(w2, 0, TRUE)
           p1 == 0 * ENTRIES + YardSlot
           p2 == p1 * ENTRIES + 0
           p3 == p2 * ENTRIES + 0
<1>0. /\ ENTRIES \in Nat \ {0} /\ YardSlot \in Index /\ YardSlot \in Nat /\ 0 \in Index
      /\ 1 \in 1..3 /\ 2 \in 1..3 /\ 3 \in 1..3
  BY PagingAssumption DEF Index
<1>1. At(w0, pml4, Y, 1, 0) /\ ~w0.failed /\ Extends(s, w0)
  BY FromRoot
<1> HIDE DEF w0
<1>2. Descends(w0, w1, pml4, Y, 1, 0, YardSlot)
  <2>1. 1 # 3
    OBVIOUS
  <2> QED
    BY <1>0, <1>1, <2>1, YardDescends, Zenon
<1> HIDE DEF w1
<1>3. Extends(s, w1)
  BY <1>1, <1>2, ExtendsTransitive DEF Descends
<1>4. CASE w1.failed
  <2>1. w2 = w1 /\ w3 = w1
    BY <1>4, DescendFailed
  <2> QED
    BY <1>2, <1>3, <1>4, <2>1 DEF Descends, w1, w0
<1>5. CASE ~w1.failed
  <2>1. At(w1, pml4, Y, 2, p1)
    BY <1>2, <1>5 DEF Descends
  <2> HIDE DEF p1
  <2>2. Descends(w1, w2, pml4, Y, 2, p1, 0)
    <3>1. 2 # 1 /\ 2 # 3
      OBVIOUS
    <3> QED
      BY <1>0, <1>5, <2>1, <3>1, YardDescends, Zenon
  <2> HIDE DEF w2
  <2>3. Extends(s, w2)
    BY <1>3, <2>2, ExtendsTransitive DEF Descends
  <2>4. CASE w2.failed
    <3>1. w3 = w2
      BY <2>4, DescendFailed
    <3> QED
      BY <2>2, <2>3, <2>4, <3>1 DEF Descends, w2, w1, w0
  <2>5. CASE ~w2.failed
    <3>1. At(w2, pml4, Y, 3, p2)
      BY <2>2, <2>5 DEF Descends
    <3>2. p2 \div ENTRIES = YardSlot
      <4>1. p2 = ENTRIES * YardSlot + 0 /\ 0 \in 0..(ENTRIES - 1)
        BY <1>0 DEF p1
      <4> HIDE DEF p2
      <4> QED
        BY <1>0, <4>1, DivisionUnique
    <3> HIDE DEF p2
    <3>3. Descends(w2, w3, pml4, Y, 3, p2, 0)
      <4>1. 3 # 1
        OBVIOUS
      <4> QED
        BY <1>0, <2>5, <3>1, <3>2, <4>1, YardDescends, Zenon
    <3> HIDE DEF w3
    <3>4. Extends(s, w3)
      BY <2>3, <3>3, ExtendsTransitive DEF Descends
    <3>5. ~w3.failed => At(w3, pml4, Y, 4, p3)
      BY <3>3 DEF Descends
    <3> QED
      BY <3>3, <3>4, <3>5 DEF Descends, w3, w2, w1, w0
  <2> QED
    BY <2>4, <2>5
<1> QED
  BY <1>4, <1>5

MapsYard(s, d, Y) ==
  /\ Extends(s, d) /\ d.failed \in BOOLEAN
  /\ d.failed => Shape(d, pml4, Y)
  /\ ~d.failed => Shape(d, pml4, Y \cup {d.given})

LEMMA YardPageKeeps ==
  ASSUME NEW s, NEW Y, Shape(s, pml4, Y), NEW page, NEW writable \in BOOLEAN,
         page = CODE => ~writable
  PROVE  MapsYard(s, map_yard_page(s, page, writable), Y)
<1> DEFINE table == descend(descend(descend(from(s, pml4), YardSlot, TRUE), 0, TRUE), 0, TRUE)
           backed == allocate_frames(table)
           d == map_yard_page(s, page, writable)
           f == table.given + 1
           e == SmallPage(f, writable)
           W == Y \cup {f}
<1>1. /\ Extends(s, table) /\ table.failed \in BOOLEAN
      /\ table.failed => Shape(table, pml4, Y)
      /\ ~table.failed => \E p : At(table, pml4, Y, 4, p)
  BY YardWalk
<1>2. d = IF table.failed THEN table ELSE IF backed.failed THEN backed
          ELSE set_entry(backed, table.at, page, SmallPage(backed.given, writable))
  BY DEF map_yard_page
<1> HIDE DEF table, d
<1>3. CASE table.failed
  BY <1>1, <1>2, <1>3 DEF MapsYard, d
<1>4. CASE ~table.failed
  <2>1. PICK p : At(table, pml4, Y, 4, p)
    BY <1>1, <1>4
  <2>2. PICK L, P : /\ Tree(table, pml4, Y, L, P) /\ table.at \in DOMAIN table.tables
                    /\ L[table.at] = 4
    BY <2>1 DEF At
  <2>3. table \in Space /\ table.given \in Nat /\ table.limit \in Nat
    BY <2>2, SpaceTypes DEF Tree
  <2>4. CASE ~(table.given < table.limit)
    <3>1. backed = [table EXCEPT !.failed = TRUE]
      BY <2>4 DEF allocate_frames
    <3>2. /\ backed \in Space /\ backed.tables = table.tables /\ backed.given = table.given
          /\ backed.failed = TRUE
      BY <2>3, <3>1 DEF Space
    <3>3. d = backed
      BY <1>2, <1>4, <3>2
    <3> HIDE DEF backed
    <3>4. Tree(d, pml4, Y, L, P)
      BY <2>2, <2>3, <3>2, <3>3, TreeSame
    <3>5. Extends(table, d)
      BY <3>2, <3>3, ExtendsReflexive
    <3>6. Extends(s, d)
      BY <1>1, <3>5, ExtendsTransitive
    <3> QED
      BY <3>2, <3>3, <3>4, <3>6 DEF MapsYard, Shape, d
  <2>5. CASE table.given < table.limit
    <3>1. backed = [table EXCEPT !.given = f]
      BY <2>5 DEF allocate_frames
    <3>2. f \in Nat /\ f > table.given /\ f \notin 1..table.given
      BY <2>3
    <3>3. /\ backed \in Space /\ backed.tables = table.tables /\ backed.given = f
          /\ backed.failed = table.failed
      BY <2>3, <3>1, <3>2 DEF Space
    <3> HIDE DEF backed, f
    <3>4. Tree(backed, pml4, Y, L, P)
      BY <2>2, <2>3, <3>2, <3>3, TreeSame
    <3>5. Tree(backed, pml4, W, L, P)
      <4>1. f \in 1..backed.given /\ f \notin DOMAIN backed.tables
        BY <2>2, <2>3, <3>2, <3>3 DEF Tree
      <4>2. W \subseteq 1..backed.given /\ W \cap DOMAIN backed.tables = {}
        BY <3>4, <4>1 DEF Tree
      <4>3. ASSUME NEW t \in DOMAIN backed.tables, NEW i \in Index, backed.tables[t][i].present
            PROVE  Fits(backed.tables[t][i], t, i, W, L, P)
        <5>1. Fits(backed.tables[t][i], t, i, Y, L, P)
          BY <3>4, <4>3 DEF Tree
        <5> QED
          BY <5>1 DEF Fits
      <4> HIDE DEF W
      <4> QED
        BY <3>4, <4>2, <4>3 DEF Tree
    <3>6. /\ e \in Entry /\ e.present /\ ~e.huge /\ e.to = f /\ e.writable = writable
          /\ e.huge = FALSE
      BY <3>2, EntryTypes DEF SmallPage
    <3> HIDE DEF e
    <3>7. Fits(e, table.at, page, W, L, P)
      BY <2>2, <3>6 DEF Fits
    <3> DEFINE z == set_entry(backed, table.at, page, e)
    <3>8. d = z
      BY <1>2, <1>4, <3>3 DEF e
    <3>9. Tree(z, pml4, W, L, P)
      BY <3>5, <3>6, <3>7, TreeSets
    <3>10. z.given = f /\ z.failed = table.failed
      BY <3>3, <3>6, SetEntry
    <3>11. ASSUME page \in Index, backed.tables[table.at][page].present
           PROVE  Covers(backed.tables[table.at][page], e, DOMAIN backed.tables)
      <4>1. table.at \in DOMAIN backed.tables
        BY <2>2, <3>3
      <4>2. Fits(backed.tables[table.at][page], table.at, page, Y, L, P)
        BY <3>4, <3>11, <4>1 DEF Tree
      <4>3. /\ ~backed.tables[table.at][page].huge
            /\ backed.tables[table.at][page].to \notin DOMAIN backed.tables
        BY <2>2, <3>4, <4>2 DEF Fits, Tree
      <4>4. backed.tables[table.at][page].huge \in BOOLEAN
        <5>1. backed.tables[table.at][page] \in Entry
          BY <3>3, <3>11, <4>1, SpaceTypes
        <5> QED
          BY <3>11, <5>1, EntryTypes
      <4> QED
        BY <3>6, <4>3, <4>4 DEF Covers
    <3>12. Extends(backed, z)
      BY <3>3, <3>6, <3>11, SetExtends
    <3> HIDE DEF z
    <3>13. Extends(table, backed)
      BY <3>3, ExtendsReflexive
    <3>14. Extends(s, z)
      BY <1>1, <3>12, <3>13, ExtendsTransitive
    <3>15. Shape(z, pml4, Y \cup {z.given})
      BY <3>9, <3>10 DEF Shape
    <3>16. ~z.failed /\ z.failed \in BOOLEAN
      BY <1>1, <1>4, <3>10
    <3> QED
      BY <3>8, <3>14, <3>15, <3>16 DEF MapsYard, d
  <2> QED
    BY <2>3, <2>4, <2>5
<1> QED
  BY <1>3, <1>4

-----------------------------------------------------------------------------
(* The inductive invariant. *)

IdentityMapped == \A n \in Nat : n < gibibytes * ENTRIES => Reaches(space, pml4, n, FALSE)

DevicesMapped ==
  \A d \in served :
    /\ d \in Devices
    /\ \A n \in 0..(page_count(d) - 1) : Reaches(space, pml4, Number(d, n), TRUE)

WindowsServed ==
  /\ windows \in Seq(Nat \X Nat)
  /\ \A i \in DOMAIN windows :
       \E d \in served : windows[i] = <<first_page(d[1]), past_page(d[1] + d[2])>>

Paged ==
  IF pml4 = 0
  THEN Unbuilt(space) /\ windows = <<>> /\ served = {} /\ yard_frames = {}
  ELSE /\ Shape(space, pml4, yard_frames)
       /\ gibibytes \in 0..ENTRIES
       /\ IdentityMapped /\ DevicesMapped /\ WindowsServed

LEMMA PagedInitially == YardInit => Paged
<1> SUFFICES ASSUME YardInit  PROVE Paged
  OBVIOUS
<1>1. /\ \E limit \in FrameCounts :
           space = [tables |-> <<>>, given |-> 0, limit |-> limit, at |-> 0, failed |-> FALSE]
      /\ pml4 = 0 /\ windows = <<>> /\ served = {} /\ yard_frames = {}
  BY DEF YardInit, PagingInit
<1>2. PICK limit \in FrameCounts :
        space = [tables |-> <<>>, given |-> 0, limit |-> limit, at |-> 0, failed |-> FALSE]
  BY <1>1
<1>3. <<>> \in [{} -> [Index -> Entry]] /\ DOMAIN <<>> = {}
  OBVIOUS
<1>4. <<>> \in TableMaps
  BY <1>3 DEF TableMaps
<1>5. space \in Space
  BY <1>2, <1>4, PagingAssumption DEF Space
<1>6. DOMAIN space.tables = {} /\ ~space.failed
  BY <1>2, <1>3
<1> QED
  BY <1>1, <1>5, <1>6 DEF Paged, Unbuilt

(* The walk is over: tables and frames stay. *)
LEMMA Settles ==
  ASSUME NEW s \in Space
  PROVE  /\ settled(s) \in Space /\ settled(s).tables = s.tables
         /\ settled(s).given = s.given /\ ~settled(s).failed
BY DEF settled, from, Space

LEMMA SettlesShape ==
  ASSUME NEW s, NEW r, NEW Y, Shape(s, r, Y)
  PROVE  Shape(settled(s), r, Y) /\ Extends(s, settled(s))
<1>1. PICK L, P : Tree(s, r, Y, L, P)
  BY DEF Shape
<1>2. s \in Space /\ s.given \in Nat
  BY <1>1, SpaceTypes DEF Tree
<1> DEFINE d == settled(s)
<1>3. d \in Space /\ d.tables = s.tables /\ d.given = s.given
  BY <1>2, Settles
<1> HIDE DEF d
<1>4. Tree(d, r, Y, L, P)
  BY <1>1, <1>2, <1>3, TreeSame
<1>5. Extends(s, d)
  BY <1>3, ExtendsReflexive
<1> QED
  BY <1>4, <1>5 DEF Shape, d

(* What was mapped stays mapped. *)
LEMMA MappedStays ==
  ASSUME IdentityMapped, DevicesMapped, Extends(space, space'), UNCHANGED <<pml4, gibibytes>>
  PROVE  /\ IdentityMapped'
         /\ \A d \in served : \A n \in 0..(page_count(d) - 1) :
              Reaches(space', pml4', Number(d, n), TRUE)
<1>1. ASSUME NEW n \in Nat, n < gibibytes' * ENTRIES
      PROVE  Reaches(space', pml4', n, FALSE)
  <2>1. Reaches(space, pml4, n, FALSE)
    BY <1>1 DEF IdentityMapped
  <2>2. Reaches(space', pml4, n, FALSE)
    BY <2>1, ReachesStill
  <2> QED
    BY <2>2
<1>2. ASSUME NEW d \in served, NEW n \in 0..(page_count(d) - 1)
      PROVE  Reaches(space', pml4', Number(d, n), TRUE)
  <2>1. Reaches(space, pml4, Number(d, n), TRUE)
    BY DEF DevicesMapped
  <2>2. Reaches(space', pml4, Number(d, n), TRUE)
    BY <2>1, ReachesStill
  <2> QED
    BY <2>2
<1> QED
  BY <1>1, <1>2 DEF IdentityMapped

LEMMA PagedBoot ==
  ASSUME Paged, BuildTables
  PROVE  Paged'
<1>1. PICK ends \in RegionEnds, framebuffer_end \in UNION RegionEnds :
        LET count == needed_gib(ends, framebuffer_end)
            root == allocate_table(space)
            low == descend(root, 0, FALSE)
            built == IF low.failed THEN low ELSE identity_map(low, low.at, count)
        IN
        /\ pml4 = 0 /\ space.given = 0
        /\ space' = settled(built)
        /\ IF built.failed \/ root.failed THEN UNCHANGED <<pml4, gibibytes>>
           ELSE pml4' = root.at /\ gibibytes' = count
        /\ UNCHANGED <<windows, served, yard_frames>>
  BY DEF BuildTables
<1> DEFINE count == needed_gib(ends, framebuffer_end)
           root == allocate_table(space)
           low == descend(root, 0, FALSE)
           built == IF low.failed THEN low ELSE identity_map(low, low.at, count)
<1>2. /\ pml4 = 0 /\ space.given = 0
      /\ space' = settled(built)
      /\ IF built.failed \/ root.failed THEN UNCHANGED <<pml4, gibibytes>>
         ELSE pml4' = root.at /\ gibibytes' = count
      /\ UNCHANGED <<windows, served, yard_frames>>
  BY <1>1
<1>3. count \in 0..ENTRIES
  BY NeededFits
<1>4. Unbuilt(space) /\ windows = <<>> /\ served = {} /\ yard_frames = {}
  BY <1>2 DEF Paged
<1> HIDE DEF count
<1>5. InitBuilds(space, root, built, count)
  BY <1>2, <1>3, <1>4, InitKeeps
<1> HIDE DEF root, built
<1>6. CASE built.failed \/ root.failed
  <2>1. built \in Space /\ (built.given = 0 => DOMAIN built.tables = {})
    BY <1>5, <1>6 DEF InitBuilds
  <2>2. Unbuilt(space')
    BY <1>2, <2>1, Settles DEF Unbuilt
  <2>3. pml4' = 0
    BY <1>2, <1>6
  <2> QED
    BY <1>2, <1>4, <2>2, <2>3 DEF Paged
<1>7. CASE ~(built.failed \/ root.failed)
  <2>1. /\ root.at # 0 /\ Shape(built, root.at, {})
        /\ \A n \in Nat : n < count * ENTRIES => Reaches(built, root.at, n, FALSE)
    BY <1>5, <1>7 DEF InitBuilds
  <2>2. pml4' = root.at /\ gibibytes' = count
    BY <1>2, <1>7
  <2>3. Shape(space', pml4', yard_frames') /\ Extends(built, space')
    BY <1>2, <1>4, <2>1, <2>2, SettlesShape
  <2>4. IdentityMapped'
    BY <2>1, <2>2, <2>3, ReachesStill DEF IdentityMapped
  <2>5. DevicesMapped'
    BY <1>2, <1>4 DEF DevicesMapped
  <2>6. WindowsServed'
    <3>1. windows' = <<>>
      BY <1>2, <1>4
    <3> QED
      BY <3>1 DEF WindowsServed
  <2> QED
    BY <1>3, <2>1, <2>2, <2>3, <2>4, <2>5, <2>6 DEF Paged
<1> QED
  BY <1>6, <1>7

LEMMA PagedDevice ==
  ASSUME Paged, MapDevice
  PROVE  Paged'
<1>1. PICK device \in Devices :
        LET start == first_page(device[1])
            end == past_page(device[1] + device[2])
            mapped == map_device_pages(from(space, pml4), device)
        IN
        /\ pml4 /= 0 /\ device[2] /= 0
        /\ space' = settled(mapped)
        /\ windows' = IF ~mapped.failed /\ Len(windows) < MAX_DEVICE_WINDOWS
                      THEN Append(windows, <<start, end>>) ELSE windows
        /\ served' = IF mapped.failed THEN served ELSE served \cup {device}
        /\ UNCHANGED <<pml4, gibibytes, yard_frames>>
  BY DEF MapDevice
<1> DEFINE start == first_page(device[1])
           end == past_page(device[1] + device[2])
           w0 == from(space, pml4)
           mapped == map_device_pages(w0, device)
<1>2. /\ pml4 /= 0
      /\ space' = settled(mapped)
      /\ windows' = IF ~mapped.failed /\ Len(windows) < MAX_DEVICE_WINDOWS
                    THEN Append(windows, <<start, end>>) ELSE windows
      /\ served' = IF mapped.failed THEN served ELSE served \cup {device}
      /\ UNCHANGED <<pml4, gibibytes, yard_frames>>
  BY <1>1
<1>3. /\ Shape(space, pml4, yard_frames) /\ gibibytes \in 0..ENTRIES
      /\ IdentityMapped /\ DevicesMapped /\ WindowsServed
  BY <1>2 DEF Paged
<1>4. Shape(w0, pml4, yard_frames) /\ ~w0.failed /\ Extends(space, w0)
  BY <1>3, FromRoot, AtIsShape
<1> HIDE DEF w0
<1>5. MapsPages(w0, mapped, device, page_count(device), yard_frames)
  BY <1>4, DevicePagesKeep
<1> HIDE DEF mapped, start, end
<1>6. Shape(mapped, pml4, yard_frames) /\ Extends(w0, mapped)
  BY <1>5 DEF MapsPages
<1>7. Shape(space', pml4, yard_frames) /\ Extends(mapped, space')
  BY <1>2, <1>6, SettlesShape
<1>8. Extends(space, mapped)
  BY <1>4, <1>6, ExtendsTransitive
<1>9. Extends(space, space')
  BY <1>7, <1>8, ExtendsTransitive
<1>10. /\ IdentityMapped'
       /\ \A d \in served : \A n \in 0..(page_count(d) - 1) :
            Reaches(space', pml4', Number(d, n), TRUE)
  BY <1>2, <1>3, <1>9, MappedStays
<1>11. ASSUME ~mapped.failed, NEW n \in 0..(page_count(device) - 1)
       PROVE  Reaches(space', pml4', Number(device, n), TRUE)
  <2>1. Reaches(mapped, pml4, Number(device, n), TRUE)
    BY <1>5, <1>11 DEF MapsPages
  <2>2. Reaches(space', pml4, Number(device, n), TRUE)
    BY <1>7, <2>1, ReachesStill
  <2> QED
    BY <1>2, <2>2
<1>12. DevicesMapped'
  <2> SUFFICES ASSUME NEW d \in served'
               PROVE  /\ d \in Devices
                      /\ \A n \in 0..(page_count(d) - 1) :
                           Reaches(space', pml4', Number(d, n), TRUE)
    BY DEF DevicesMapped
  <2>1. CASE d \in served
    BY <1>3, <1>10, <2>1 DEF DevicesMapped
  <2>2. CASE d \notin served
    <3>1. d = device /\ ~mapped.failed
      BY <1>2, <2>2
    <3> QED
      BY <1>11, <3>1
  <2> QED
    BY <2>1, <2>2
<1>13. start \in Nat /\ end \in Nat
  BY DeviceNumbers, PagingAssumption DEF start, end
<1>14. WindowsServed'
  <2>1. CASE windows' = windows
    <3>1. served \subseteq served'
      BY <1>2
    <3> QED
      BY <1>3, <2>1, <3>1 DEF WindowsServed
  <2>2. CASE windows' = Append(windows, <<start, end>>) /\ ~mapped.failed
    <3>1. windows \in Seq(Nat \X Nat) /\ <<start, end>> \in Nat \X Nat
      BY <1>3, <1>13 DEF WindowsServed
    <3>2. windows' \in Seq(Nat \X Nat)
      BY <2>2, <3>1
    <3>3. device \in served' /\ served \subseteq served'
      BY <1>2, <2>2
    <3>4. ASSUME NEW i \in DOMAIN windows'
          PROVE  \E d \in served' : windows'[i] = <<first_page(d[1]), past_page(d[1] + d[2])>>
      <4>1. CASE i \in DOMAIN windows
        <5>1. windows'[i] = windows[i]
          BY <2>2, <3>1, <4>1
        <5> QED
          BY <1>3, <3>3, <4>1, <5>1 DEF WindowsServed
      <4>2. CASE i \notin DOMAIN windows
        <5>1. windows'[i] = <<start, end>>
          BY <2>2, <3>1, <3>4, <4>2
        <5> QED
          BY <3>3, <5>1 DEF start, end
      <4> QED
        BY <4>1, <4>2
    <3> QED
      BY <3>2, <3>4 DEF WindowsServed
  <2> QED
    BY <1>2, <2>1, <2>2
<1> QED
  BY <1>2, <1>3, <1>7, <1>10, <1>12, <1>14 DEF Paged

LEMMA PagedLoad ==
  ASSUME Paged, Load
  PROVE  Paged'
<1> DEFINE coded == map_yard_page(space, CODE, FALSE)
           both == map_yard_page(coded, STACK, TRUE)
<1>1. /\ pml4 /= 0 /\ yard_frames = {}
      /\ space' = settled(IF coded.failed THEN coded ELSE both)
      /\ yard_frames' = IF coded.failed THEN {}
                        ELSE IF both.failed THEN {coded.given}
                        ELSE {coded.given, both.given}
      /\ UNCHANGED <<pml4, gibibytes, windows, served>>
  BY DEF Load
<1>2. /\ Shape(space, pml4, {}) /\ gibibytes \in 0..ENTRIES
      /\ IdentityMapped /\ DevicesMapped /\ WindowsServed
  BY <1>1 DEF Paged
<1>3. MapsYard(space, coded, {})
  <2>1. FALSE \in BOOLEAN /\ ~FALSE
    OBVIOUS
  <2> QED
    BY <1>2, <2>1, YardPageKeeps, Zenon
<1> HIDE DEF coded
<1>4. CASE coded.failed
  <2>1. Shape(coded, pml4, {}) /\ Extends(space, coded)
    BY <1>3, <1>4 DEF MapsYard
  <2>2. Shape(space', pml4, {}) /\ Extends(coded, space')
    BY <1>1, <1>4, <2>1, SettlesShape
  <2>3. Extends(space, space')
    BY <2>1, <2>2, ExtendsTransitive
  <2>4. IdentityMapped' /\ DevicesMapped'
    BY <1>1, <1>2, <2>3, MappedStays DEF DevicesMapped
  <2>5. WindowsServed'
    BY <1>1, <1>2 DEF WindowsServed
  <2> QED
    BY <1>1, <1>2, <1>4, <2>2, <2>4, <2>5 DEF Paged
<1>5. CASE ~coded.failed
  <2> DEFINE Y == {} \cup {coded.given}
  <2>1. Shape(coded, pml4, Y) /\ Extends(space, coded)
    BY <1>3, <1>5 DEF MapsYard
  <2> HIDE DEF Y
  <2>2. MapsYard(coded, both, Y)
    <3>1. TRUE \in BOOLEAN /\ STACK # CODE
      BY DEF STACK, CODE
    <3> QED
      BY <2>1, <3>1, YardPageKeeps, Zenon
  <2> HIDE DEF both
  <2>3. Extends(coded, both) /\ Shape(both, pml4, yard_frames')
    <3>1. CASE both.failed
      <4>1. yard_frames' = Y
        BY <1>1, <1>5, <3>1 DEF Y
      <4> QED
        BY <2>2, <3>1, <4>1 DEF MapsYard
    <3>2. CASE ~both.failed
      <4>1. yard_frames' = Y \cup {both.given}
        BY <1>1, <1>5, <3>2 DEF Y
      <4> QED
        BY <2>2, <3>2, <4>1 DEF MapsYard
    <3> QED
      BY <3>1, <3>2
  <2>4. Shape(space', pml4, yard_frames') /\ Extends(both, space')
    BY <1>1, <1>5, <2>3, SettlesShape
  <2>5. Extends(space, both)
    BY <2>1, <2>3, ExtendsTransitive
  <2>6. Extends(space, space')
    BY <2>4, <2>5, ExtendsTransitive
  <2>7. IdentityMapped' /\ DevicesMapped'
    BY <1>1, <1>2, <2>6, MappedStays DEF DevicesMapped
  <2>8. WindowsServed'
    BY <1>1, <1>2 DEF WindowsServed
  <2> QED
    BY <1>1, <1>2, <2>4, <2>7, <2>8 DEF Paged
<1> QED
  BY <1>4, <1>5

LEMMA PagedStep == Paged /\ [YardNext]_vars => Paged'
<1> SUFFICES ASSUME Paged, [YardNext]_vars  PROVE Paged'
  OBVIOUS
<1>1. CASE Boot
  BY <1>1, PagedBoot DEF Boot
<1>2. CASE Device
  BY <1>2, PagedDevice DEF Device
<1>3. CASE Load
  BY <1>3, PagedLoad
<1>4. CASE UNCHANGED paging
  BY <1>4 DEF paging, Paged, IdentityMapped, DevicesMapped, WindowsServed
<1>5. Boot \/ Device \/ Load \/ UNCHANGED paging
  BY DEF YardNext, vars, Save, Switch, Drop, Compute, Syscall, TakeStack, Dispatch, GiveStack,
         Sysret, Fault, Panic, Leave, Jump, Restore, Reopen, Tick
<1> QED
  BY <1>1, <1>2, <1>3, <1>4, <1>5

LEMMA PagedAlways == YardSpec => []Paged
BY PagedInitially, PagedStep, PTL DEF YardSpec

-----------------------------------------------------------------------------
(* What the processor finds. *)

(* Down to the third level the walk meets tables in their places. *)
LEMMA WalkFinds ==
  ASSUME NEW Y, NEW L, NEW P, Tree(space, pml4, Y, L, P),
         NEW a \in Index, NEW b \in Index,
         EntryAt(pml4, a).present, EntryAt(EntryAt(pml4, a).to, b).present
  PROVE  LET first == EntryAt(pml4, a)
             second == EntryAt(first.to, b)
         IN  /\ first = space.tables[pml4][a] /\ second = space.tables[first.to][b]
             /\ ~first.huge /\ ~second.huge
             /\ first.user => a = YardSlot
             /\ second.to \in DOMAIN space.tables
             /\ L[second.to] = 3 /\ P[second.to] = a * ENTRIES + b
<1> DEFINE first == EntryAt(pml4, a)
           second == EntryAt(first.to, b)
<1>0. ENTRIES \in Nat \ {0} /\ a \in Nat /\ b \in Nat
  BY PagingAssumption DEF Index
<1>1. /\ pml4 \in DOMAIN space.tables /\ L[pml4] = 1 /\ P[pml4] = 0
      /\ DOMAIN L = DOMAIN space.tables
  BY DEF Tree
<1>2. first = space.tables[pml4][a] /\ Fits(first, pml4, a, Y, L, P)
  BY <1>1 DEF EntryAt, Tree
<1>3. /\ ~first.huge /\ first.to \in DOMAIN space.tables
      /\ L[first.to] = 2 /\ P[first.to] = 0 * ENTRIES + a
      /\ first.user => a = YardSlot
  BY <1>1, <1>2 DEF Fits, Leads
<1>4. P[first.to] = a
  BY <1>0, <1>3
<1> HIDE DEF first
<1>5. second = space.tables[first.to][b] /\ Fits(second, first.to, b, Y, L, P)
  BY <1>3 DEF EntryAt, Tree, first
<1>6. /\ ~second.huge /\ second.to \in DOMAIN space.tables
      /\ L[second.to] = 3 /\ P[second.to] = a * ENTRIES + b
  BY <1>1, <1>3, <1>4, <1>5 DEF Fits, Leads
<1> QED
  BY <1>2, <1>3, <1>5, <1>6 DEF first

(* In ring 3 only the yard's own small pages can be used, each backed by a *)
(* frame that was allocated for it, and none of them a page table: through *)
(* any sequence of init, map_device and map_yard_page and wherever one of  *)
(* them found no frame (paging.rs).                                        *)
THEOREM UserSeesTheYard == YardSpec => []OnlyYardIsUser
<1>1. ASSUME Paged  PROVE OnlyYardIsUser
  <2> SUFFICES ASSUME pml4 /= 0, NEW a \in Index, NEW b \in Index, NEW c \in Index,
                      NEW d \in Index, UserMay(Path(a, b, c, d))
               PROVE  LET path == Path(a, b, c, d) IN
                      /\ a = YardSlot
                      /\ ~Last(path).huge
                      /\ Last(path).to \in yard_frames
                      /\ Last(path).to \notin DOMAIN space.tables
                      /\ d = 0 => ~Last(path).writable
    BY DEF OnlyYardIsUser
  <2>1. PICK L, P : Tree(space, pml4, yard_frames, L, P)
    BY <1>1 DEF Paged, Shape
  <2> DEFINE first == EntryAt(pml4, a)
             second == IF first.present THEN EntryAt(first.to, b) ELSE Absent
             third == IF second.present /\ ~second.huge THEN EntryAt(second.to, c) ELSE Absent
             fourth == IF third.present /\ ~third.huge THEN EntryAt(third.to, d) ELSE Absent
             path == Path(a, b, c, d)
  <2>2. path = IF third.present /\ third.huge THEN <<first, second, third>>
               ELSE <<first, second, third, fourth>>
    BY DEF Path
  <2>3. \A i \in DOMAIN path : path[i].present /\ path[i].user
    BY DEF UserMay, Mapped
  <2> HIDE DEF path
  <2>4. first.present /\ first.user /\ second.present /\ third.present
    <3>1. CASE path = <<first, second, third>>
      BY <2>3, <3>1
    <3>2. CASE path = <<first, second, third, fourth>>
      BY <2>3, <3>2
    <3> QED
      BY <2>2, <3>1, <3>2
  <2>5. second = EntryAt(first.to, b)
    BY <2>4
  <2>6. /\ ~second.huge /\ a = YardSlot
        /\ second.to \in DOMAIN space.tables
        /\ L[second.to] = 3 /\ P[second.to] = a * ENTRIES + b
    BY <2>1, <2>4, <2>5, WalkFinds
  <2> HIDE DEF second, first
  <2>7. third = space.tables[second.to][c]
    BY <2>4, <2>6 DEF EntryAt
  <2>8. (a * ENTRIES + b) \div ENTRIES = YardSlot
    <3>1. a * ENTRIES + b = ENTRIES * a + b /\ a \in Nat /\ b \in 0..(ENTRIES - 1)
      BY PagingAssumption DEF Index
    <3>2. (ENTRIES * a + b) \div ENTRIES = a
      BY <3>1, PagingAssumption, DivisionUnique
    <3> QED
      BY <2>6, <3>1, <3>2
  <2> HIDE DEF third
  <2>9. Fits(third, second.to, c, yard_frames, L, P)
    BY <2>1, <2>4, <2>6, <2>7 DEF Tree
  <2>10. ~third.huge /\ third.to \in DOMAIN space.tables /\ L[third.to] = 4
    BY <2>1, <2>6, <2>8, <2>9 DEF Fits, Leads, Tree
  <2>11. fourth = space.tables[third.to][d]
    BY <2>4, <2>10 DEF EntryAt
  <2> HIDE DEF fourth
  <2>12. path = <<first, second, third, fourth>>
    BY <2>2, <2>10
  <2>13. fourth.present /\ Last(path) = fourth
    BY <2>3, <2>12 DEF Last
  <2>14. Fits(fourth, third.to, d, yard_frames, L, P)
    BY <2>1, <2>10, <2>11, <2>13 DEF Tree
  <2>15. ~fourth.huge /\ fourth.to \in yard_frames /\ (d = 0 => ~fourth.writable)
    BY <2>10, <2>14 DEF Fits, CODE
  <2>16. fourth.to \notin DOMAIN space.tables
    BY <2>1, <2>15 DEF Tree
  <2> QED
    BY <2>6, <2>13, <2>15, <2>16 DEF path
<1> QED
  BY <1>1, PagedAlways, PTL

(* A page whose number is reached is found at its own address. *)
LEMMA ReachedIsIdentity ==
  ASSUME NEW Y, Shape(space, pml4, Y),
         NEW a \in Index, NEW b \in Index, NEW c \in Index,
         NEW n, First(n) = a, Second(n) = b, Third(n) = c,
         NEW uncached, Reaches(space, pml4, n, uncached)
  PROVE  LET path == Path(a, b, c, 0) IN
         /\ Mapped(path) /\ Last(path).huge
         /\ Last(path).to = ((a * ENTRIES + b) * ENTRIES + c) * HUGE_PAGE_SIZE
         /\ uncached => Last(path).uncached
<1>1. PICK L, P : Tree(space, pml4, Y, L, P)
  BY DEF Shape
<1>2. PICK u, v :
        /\ Link(space, pml4, a, u) /\ Link(space, u, b, v)
        /\ space.tables[v][c].present /\ space.tables[v][c].huge
        /\ uncached => space.tables[v][c].uncached
  BY DEF Reaches
<1> DEFINE first == EntryAt(pml4, a)
           second == EntryAt(u, b)
           third == EntryAt(v, c)
           path == Path(a, b, c, 0)
<1>3. /\ first = space.tables[pml4][a] /\ first.present /\ first.to = u
      /\ second = space.tables[u][b] /\ second.present /\ ~second.huge /\ second.to = v
      /\ third = space.tables[v][c]
  BY <1>2 DEF Link, EntryAt
<1>4. third.present /\ third.huge /\ (uncached => third.uncached)
  BY <1>2, <1>3
<1>5. v \in DOMAIN space.tables /\ L[v] = 3 /\ P[v] = a * ENTRIES + b
  BY <1>1, <1>3, WalkFinds
<1> HIDE DEF first, second, third
<1>6. path = <<first, second, third>>
  BY <1>3, <1>4 DEF Path, first, second, third
<1>7. Fits(third, v, c, Y, L, P)
  BY <1>1, <1>3, <1>4, <1>5 DEF Tree
<1>8. third.to = (P[v] * ENTRIES + c) * HUGE_PAGE_SIZE
  BY <1>4, <1>5, <1>7 DEF Fits, Leads
<1> HIDE DEF path
<1>9. Mapped(path) /\ Last(path) = third
  BY <1>3, <1>4, <1>6 DEF Mapped, Last
<1> QED
  BY <1>4, <1>5, <1>8, <1>9 DEF path

(* The indices of a page's number, read back. *)
LEMMA NumberIndices ==
  ASSUME NEW a \in Index, NEW b \in Index, NEW c \in Index
  PROVE  LET n == (a * ENTRIES + b) * ENTRIES + c
         IN  n \in Nat /\ First(n) = a /\ Second(n) = b /\ Third(n) = c
<1> DEFINE E == ENTRIES
           q == a * E + b
           n == q * E + c
<1>0. E \in Nat \ {0} /\ a \in 0..(E - 1) /\ b \in 0..(E - 1) /\ c \in 0..(E - 1)
  BY PagingAssumption DEF Index
<1> HIDE DEF E
<1>1. q \in Nat /\ q = E * a + b /\ a \in Nat
  BY <1>0
<1> HIDE DEF q
<1>2. q % E = b /\ q \div E = a
  BY <1>0, <1>1, DivisionUnique
<1>3. n \in Nat /\ n = E * q + c
  BY <1>0, <1>1
<1> HIDE DEF n
<1>4. n % E = c /\ n \div E = q
  BY <1>0, <1>1, <1>3, DivisionUnique
<1> QED
  BY <1>2, <1>3, <1>4 DEF First, Second, Third, n, q, E

(* A page that overlaps a device's registers, or that lies between the     *)
(* ends of its window, is one of the device's.                             *)
LEMMA DevicePageNumber ==
  ASSUME NEW d \in Devices, NEW n \in Nat,
         \/ /\ d[1] < n * HUGE_PAGE_SIZE + HUGE_PAGE_SIZE
            /\ n * HUGE_PAGE_SIZE < d[1] + d[2]
         \/ /\ n * HUGE_PAGE_SIZE >= first_page(d[1])
            /\ n * HUGE_PAGE_SIZE + HUGE_PAGE_SIZE <= past_page(d[1] + d[2])
  PROVE  \E k \in 0..(page_count(d) - 1) : n = Number(d, k)
<1> DEFINE H == HUGE_PAGE_SIZE
           x == d[1]
           y == d[1] + d[2] + H - 1
           q == x \div H
           z == PastNumber(d)
<1>1. /\ x \in Nat /\ d[2] \in Nat /\ q \in Nat /\ z \in Nat
      /\ page_count(d) = z - q
      /\ first_page(d[1]) = q * H /\ past_page(d[1] + d[2]) = z * H
  BY DeviceNumbers
<1>2. H \in Nat \ {0}
  BY PagingAssumption
<1>3. z = y \div H
  BY DEF PastNumber
<1>0. y \in Nat /\ y = d[1] + d[2] + H - 1
  BY <1>1, <1>2
<1> HIDE DEF H, z, y
<1>4. x = H * q + (x % H) /\ x % H \in 0..(H - 1)
  BY <1>1, <1>2, Division
<1>5. y = H * z + (y % H) /\ y % H \in 0..(H - 1)
  BY <1>0, <1>2, <1>3, Division
<1>6. H * q <= x /\ d[1] + d[2] <= H * z
  <2>1. H * q \in Nat /\ H * z \in Nat
    BY <1>1, <1>2
  <2> DEFINE Q == H * q
             Z == H * z
             r == x % H
             t == y % H
  <2>2. x = Q + r /\ y = Z + t /\ r \in 0..(H - 1) /\ t \in 0..(H - 1) /\ Q \in Nat /\ Z \in Nat
    BY <1>4, <1>5, <2>1
  <2> HIDE DEF Q, Z, r, t, q
  <2>3. Q <= x /\ d[1] + d[2] <= Z
    BY <1>0, <1>1, <1>2, <2>2
  <2> QED
    BY <2>3 DEF Q, Z
<1> HIDE DEF q, x
<1>7. q * H = H * q /\ z * H = H * z /\ n * H = H * n /\ H * (n + 1) = H * n + H
  BY <1>1, <1>2
<1>8. H * q <= H * n \/ H * q < H * (n + 1)
  BY <1>1, <1>2, <1>6, <1>7 DEF H, x
<1>9. H * n < H * z \/ H * (n + 1) <= H * z
  BY <1>1, <1>2, <1>6, <1>7 DEF H, x
<1>10. q <= n
  <2> SUFFICES ASSUME n + 1 <= q  PROVE FALSE
    BY <1>1
  <2>1. H * (n + 1) <= H * q
    BY <1>1, <1>2
  <2>2. H * n \in Nat /\ H * (n + 1) \in Nat /\ H * q \in Nat
    BY <1>1, <1>2
  <2> QED
    BY <1>2, <1>7, <1>8, <2>1, <2>2
<1>11. n < z
  <2> SUFFICES ASSUME z <= n  PROVE FALSE
    BY <1>1
  <2>1. H * z <= H * n
    BY <1>1, <1>2
  <2>2. H * n \in Nat /\ H * (n + 1) \in Nat /\ H * z \in Nat
    BY <1>1, <1>2
  <2> QED
    BY <1>2, <1>7, <1>9, <2>1, <2>2
<1>12. n - q \in 0..(page_count(d) - 1) /\ n = q + (n - q)
  BY <1>1, <1>10, <1>11
<1> QED
  BY <1>12 DEF Number, q, x, H

(* Every address the kernel mapped is found where it is: what init covered *)
(* is so after any later mapping, and the registers of every device that   *)
(* map_device accepted, and whatever in_device_window answers for, are     *)
(* mapped past the caches (paging.rs).                                     *)
THEOREM IdentityStays == YardSpec => []IdentityIntact
<1>1. ASSUME Paged  PROVE IdentityIntact
  <2> SUFFICES ASSUME pml4 /= 0, NEW a \in Index, NEW b \in Index, NEW c \in Index
               PROVE  LET address == ((a * ENTRIES + b) * ENTRIES + c) * HUGE_PAGE_SIZE
                          path == Path(a, b, c, 0)
                          device == \/ in_device_window(address, HUGE_PAGE_SIZE)
                                    \/ \E d \in served : /\ d[1] < address + HUGE_PAGE_SIZE
                                                         /\ address < d[1] + d[2]
                      IN  (address < gibibytes * GIB \/ device) =>
                            /\ Mapped(path) /\ Last(path).huge /\ Last(path).to = address
                            /\ device => Last(path).uncached
    BY DEF IdentityIntact
  <2> DEFINE n == (a * ENTRIES + b) * ENTRIES + c
             address == n * HUGE_PAGE_SIZE
             path == Path(a, b, c, 0)
             window == in_device_window(address, HUGE_PAGE_SIZE)
             over(d) == d[1] < address + HUGE_PAGE_SIZE /\ address < d[1] + d[2]
  <2>1. /\ Shape(space, pml4, yard_frames) /\ gibibytes \in 0..ENTRIES
        /\ IdentityMapped /\ DevicesMapped /\ WindowsServed
    BY <1>1 DEF Paged
  <2>2. n \in Nat /\ First(n) = a /\ Second(n) = b /\ Third(n) = c
    BY NumberIndices
  <2>3. ENTRIES \in Nat \ {0} /\ HUGE_PAGE_SIZE \in Nat \ {0}
    BY PagingAssumption
  <2>4. ASSUME NEW uncached, Reaches(space, pml4, n, uncached)
        PROVE  /\ Mapped(path) /\ Last(path).huge /\ Last(path).to = address
               /\ uncached => Last(path).uncached
    BY <2>1, <2>2, <2>4, ReachedIsIdentity
  <2> HIDE DEF n, path
  <2>5. ASSUME address < gibibytes * GIB
        PROVE  Reaches(space, pml4, n, FALSE)
    <3> DEFINE T == gibibytes * ENTRIES
    <3>1. T \in Nat /\ gibibytes * GIB = T * HUGE_PAGE_SIZE
      BY <2>1, <2>3 DEF GIB
    <3> HIDE DEF T
    <3>2. n < T
      <4> SUFFICES ASSUME n >= T  PROVE FALSE
        BY <2>2, <3>1
      <4>1. n * HUGE_PAGE_SIZE >= T * HUGE_PAGE_SIZE
        BY <2>2, <2>3, <3>1
      <4>2. n * HUGE_PAGE_SIZE \in Nat /\ T * HUGE_PAGE_SIZE \in Nat
        BY <2>2, <2>3, <3>1
      <4> QED
        BY <2>5, <3>1, <4>1, <4>2
    <3> QED
      BY <2>1, <2>2, <3>2 DEF IdentityMapped, T
  <2>6. ASSUME NEW d \in served, \E k \in 0..(page_count(d) - 1) : n = Number(d, k)
        PROVE  Reaches(space, pml4, n, TRUE)
    BY <2>1, <2>6 DEF DevicesMapped
  <2>7. ASSUME NEW d \in served, over(d)
        PROVE  Reaches(space, pml4, n, TRUE)
    <3>1. d \in Devices
      BY <2>1 DEF DevicesMapped
    <3>2. \E k \in 0..(page_count(d) - 1) : n = Number(d, k)
      BY <2>2, <2>7, <3>1, DevicePageNumber
    <3> QED
      BY <2>6, <3>2
  <2>8. ASSUME window
        PROVE  Reaches(space, pml4, n, TRUE)
    <3>1. PICK i \in DOMAIN windows :
            address >= windows[i][1] /\ address + HUGE_PAGE_SIZE <= windows[i][2]
      BY <2>8 DEF in_device_window
    <3>2. PICK d \in served : windows[i] = <<first_page(d[1]), past_page(d[1] + d[2])>>
      BY <2>1, <3>1 DEF WindowsServed
    <3>3. d \in Devices
      BY <2>1 DEF DevicesMapped
    <3>4. /\ n * HUGE_PAGE_SIZE >= first_page(d[1])
          /\ n * HUGE_PAGE_SIZE + HUGE_PAGE_SIZE <= past_page(d[1] + d[2])
      BY <3>1, <3>2
    <3>5. \E k \in 0..(page_count(d) - 1) : n = Number(d, k)
      BY <2>2, <3>3, <3>4, DevicePageNumber
    <3> QED
      BY <2>6, <3>5
  <2> DEFINE device == window \/ \E d \in served : over(d)
  <2>9. device => Reaches(space, pml4, n, TRUE)
    BY <2>7, <2>8
  <2>10. device => Mapped(path) /\ Last(path).huge /\ Last(path).to = address /\ Last(path).uncached
    BY <2>4, <2>9
  <2>11. address < gibibytes * GIB => Mapped(path) /\ Last(path).huge /\ Last(path).to = address
    BY <2>4, <2>5
  <2> HIDE DEF device, address
  <2>12. (address < gibibytes * GIB \/ device) =>
            /\ Mapped(path) /\ Last(path).huge /\ Last(path).to = address
            /\ device => Last(path).uncached
    BY <2>10, <2>11
  <2> QED
    BY <2>12 DEF device, address, path, n
<1> QED
  BY <1>1, PagedAlways, PTL
=============================================================================
