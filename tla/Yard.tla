-------------------------------- MODULE Yard --------------------------------
(* core/src/yard.rs, idt.rs and gdt.rs, and run_the_yard of kernel's       *)
(* main.rs: a resident is loaded into user pages, runs in ring 3, crosses   *)
(* into the kernel by `syscall`, and is abandoned when it faults.  The      *)
(* trampolines are cut where a timer tick could land between two of their   *)
(* instructions.                                                            *)
EXTENDS Paging

CONSTANTS
  NonVolatile,    \* registers a callee must preserve on this target
  Verbs,          \* numbers a resident passes in rax
  VERB_JOURNAL,   \* 5
  MaxEnters,      \* bound: how often the kernel enters the yard
  MaxCrossings    \* bound: crossings of all residents together

\* A processor has finitely many registers.
ASSUME RegistersAssumption == IsFiniteSet(NonVolatile)

VARIABLES
  pc,             \* where the processor is
  ring,
  rsp,            \* the stack it is on
  masked,         \* interrupts are off
  regs,           \* whose value each register holds
  pushed,         \* what enter_ring3 pushed on the caller's stack
  inside,         \* KERNEL_RETURN_STACK is not zero
  crossings, last_verb,
  journal,        \* what the crossing hook recorded
  vector,         \* the last fault a resident raised
  landed,         \* the stack the last tick pushed its frame on
  resident,       \* load answered true
  enters

cpu == <<pc, ring, rsp, masked, regs, pushed, inside>>
told == <<crossings, last_verb, journal>>
vars == <<paging, cpu, told, vector, landed, resident, enters>>

CODE == 0      \* CODE_ADDRESS and STACK_ADDRESS, as pages of the yard
STACK == 2

Faults == {"DivideError", "InvalidOpcode", "GeneralProtection", "PageFault", "Missing"}

OnKernel == pc = "kernel" /\ ring = 0

-----------------------------------------------------------------------------
YardInit ==
  /\ PagingInit
  /\ pc = "kernel" /\ ring = 0 /\ rsp = "caller" /\ masked = FALSE
  /\ regs = [r \in NonVolatile |-> "caller"]
  /\ pushed = <<>> /\ inside = FALSE
  /\ crossings = 0 /\ last_verb = -1 /\ journal = <<>>
  /\ vector = "None" /\ landed = "None" /\ resident = FALSE /\ enters = 0

Boot == OnKernel /\ BuildTables /\ UNCHANGED <<cpu, told, vector, landed, resident, enters>>

Device == OnKernel /\ MapDevice /\ UNCHANGED <<cpu, told, vector, landed, resident, enters>>

\* yard::load, the first time: what was mapped before a failure stays.  A
\* program longer than a page is refused after both pages are mapped.
Load ==
  LET coded == map_yard_page(space, CODE, FALSE)
      both == map_yard_page(coded, STACK, TRUE)
  IN
  /\ OnKernel /\ pml4 /= 0 /\ yard_frames = {}
  /\ space' = settled(IF coded.failed THEN coded ELSE both)
  /\ yard_frames' = IF coded.failed THEN {}
                    ELSE IF both.failed THEN {coded.given}
                    ELSE {coded.given, both.given}
  /\ resident' \in {FALSE, ~coded.failed /\ ~both.failed}
  /\ UNCHANGED <<pml4, gibibytes, windows, served, cpu, told, vector, landed, enters>>

-----------------------------------------------------------------------------
(* enter_ring3                                                              *)

\* Mutant: the other convention's set, without rdi and rsi.
preserved_SysV == SetToSeq(NonVolatile \ {"rdi", "rsi"})

preserved == SetToSeq(NonVolatile)

\* The caller's registers go onto the caller's stack, its rsp into
\* CALLER_STACK, the continuation into KERNEL_RETURN_RIP.
Save ==
  /\ OnKernel /\ resident /\ enters < MaxEnters
  /\ enters' = enters + 1
  /\ pushed' = [i \in DOMAIN preserved |-> <<preserved[i], regs[preserved[i]]>>]
  /\ pc' = "saved"
  /\ UNCHANGED <<paging, ring, rsp, masked, regs, inside, told, vector, landed, resident>>

\* Mutant: the yard is not marked as entered.
entered_Unmarked(marked) == marked

entered(marked) == TRUE

\* Onto the yard's own stack, and KERNEL_RETURN_STACK with it.
Switch ==
  /\ pc = "saved"
  /\ pc' = "switched" /\ rsp' = "yard" /\ inside' = entered(inside)
  /\ UNCHANGED <<paging, ring, masked, regs, pushed, told, vector, landed, resident, enters>>

Zeroed == {"rbx", "rsi", "rdi", "rbp"}

\* Registers zeroed, then iretq with the interrupt flag set.
Drop ==
  /\ pc = "switched"
  /\ pc' = "user" /\ ring' = 3 /\ rsp' = "user" /\ masked' = FALSE
  /\ regs' = [r \in NonVolatile |-> IF r \in Zeroed THEN "zero" ELSE regs[r]]
  /\ UNCHANGED <<paging, pushed, inside, told, vector, landed, resident, enters>>

-----------------------------------------------------------------------------
(* The resident: anything it can do to its registers, a crossing, a fault.  *)

Compute ==
  /\ pc = "user"
  /\ regs' = [r \in NonVolatile |-> "user"]
  /\ UNCHANGED <<paging, pc, ring, rsp, masked, pushed, inside, told, vector, landed, resident, enters>>

\* Mutant: FMASK leaves the interrupt flag alone.
masked_by_syscall_Not(before) == before

masked_by_syscall(before) == TRUE

\* `syscall` changes the ring and the flags, not the stack.
Syscall ==
  /\ pc = "user" /\ crossings < MaxCrossings
  /\ pc' = "syscall" /\ ring' = 0 /\ masked' = masked_by_syscall(masked)
  /\ UNCHANGED <<paging, rsp, regs, pushed, inside, told, vector, landed, resident, enters>>

\* The trampoline parks the user's stack and takes the kernel's.
TakeStack ==
  /\ pc = "syscall"
  /\ pc' = "gate" /\ rsp' = "syscall"
  /\ UNCHANGED <<paging, ring, masked, regs, pushed, inside, told, vector, landed, resident, enters>>

\* dispatch of the verb in rax, and the hook the kernel installed before it
\* loaded the resident: on_yard_crossing.
Dispatch ==
  /\ pc = "gate"
  /\ crossings' = crossings + 1
  /\ \E verb \in Verbs :
       /\ last_verb' = verb
       /\ journal' = Append(journal, IF verb = VERB_JOURNAL THEN "Invoked" ELSE "Denied")
  /\ pc' = "answered"
  /\ UNCHANGED <<paging, ring, rsp, masked, regs, pushed, inside, vector, landed, resident, enters>>

GiveStack ==
  /\ pc = "answered"
  /\ pc' = "sysret" /\ rsp' = "user"
  /\ UNCHANGED <<paging, ring, masked, regs, pushed, inside, told, vector, landed, resident, enters>>

\* sysretq restores the flags the resident had.
Sysret ==
  /\ pc = "sysret"
  /\ pc' = "user" /\ ring' = 3 /\ masked' = FALSE
  /\ UNCHANGED <<paging, rsp, regs, pushed, inside, told, vector, landed, resident, enters>>

\* TSS.rsp[0], the stack of every transition from ring 3 to ring 0.
RSP0 == "interrupt"

\* The processor takes the fault on the stack of TSS.RSP0, behind an
\* interrupt gate.  A page fault is an address ring 3 may not use; `int3`
\* is a general protection fault, because the gates are the kernel's.
Fault ==
  /\ pc = "user"
  /\ vector' \in Faults
  /\ pc' = "fault" /\ ring' = 0 /\ rsp' = RSP0 /\ masked' = TRUE
  /\ UNCHANGED <<paging, regs, pushed, inside, told, landed, resident, enters>>

-----------------------------------------------------------------------------
(* idt.rs and `leave`                                                       *)

from_user == inside      \* the frame's cs is ring 3 in every fault above

\* Which faults end the resident; the others end the kernel: a missing
\* handler becomes a double fault.
killed == vector \in {"GeneralProtection", "PageFault"} /\ from_user

Panic ==
  /\ pc = "fault" /\ ~killed
  /\ pc' = "panic"
  /\ UNCHANGED <<paging, ring, rsp, masked, regs, pushed, inside, told, vector, landed, resident, enters>>

\* Mutant: the yard stays marked as entered.
left_Marked(marked) == marked

left(marked) == FALSE

\* kill_resident and leave: closed first, then onto the caller's stack.
Leave ==
  /\ pc = "fault" /\ killed
  /\ pc' = "leaving" /\ inside' = left(inside)
  /\ UNCHANGED <<paging, ring, rsp, masked, regs, pushed, told, vector, landed, resident, enters>>

Jump ==
  /\ pc = "leaving"
  /\ pc' = "back" /\ rsp' = "caller"
  /\ UNCHANGED <<paging, ring, masked, regs, pushed, inside, told, vector, landed, resident, enters>>

\* The continuation in enter_ring3 pops what was pushed and returns.
Restore ==
  /\ pc = "back"
  /\ regs' = [r \in NonVolatile |->
                IF \E i \in DOMAIN pushed : pushed[i][1] = r
                THEN LET i == CHOOSE n \in DOMAIN pushed : pushed[n][1] = r IN pushed[i][2]
                ELSE regs[r]]
  /\ pushed' = <<>>
  /\ pc' = "returned"
  /\ UNCHANGED <<paging, ring, rsp, masked, inside, told, vector, landed, resident, enters>>

\* yard::enter opens interrupts once it is on the caller's stack.
Reopen ==
  /\ pc = "returned"
  /\ pc' = "kernel" /\ masked' = FALSE
  /\ UNCHANGED <<paging, ring, rsp, regs, pushed, inside, told, vector, landed, resident, enters>>

\* The timer: its frame goes to RSP0 from ring 3 and onto the current stack
\* from ring 0; the handler runs masked, preserves everything and returns.
Tick ==
  /\ ~masked /\ pc /= "panic"
  /\ landed' = IF ring = 3 THEN RSP0 ELSE rsp
  /\ UNCHANGED <<paging, cpu, told, vector, resident, enters>>

YardNext ==
  \/ Boot \/ Device \/ Load
  \/ Save \/ Switch \/ Drop
  \/ Compute \/ Syscall \/ TakeStack \/ Dispatch \/ GiveStack \/ Sysret \/ Fault
  \/ Panic \/ Leave \/ Jump \/ Restore \/ Reopen \/ Tick

YardSpec == YardInit /\ [][YardNext]_vars

-----------------------------------------------------------------------------
\* However the yard was left and whatever the resident did to its
\* registers, the kernel goes on where it called `enter`: on its own stack,
\* with its registers, interrupts open and the yard marked closed; so a
\* later fault of the kernel's own is not taken for a resident's.
CallerIntact ==
  pc = "kernel" =>
    /\ ring = 0 /\ rsp = "caller" /\ ~masked /\ ~inside
    /\ pushed = <<>>
    /\ \A r \in NonVolatile : regs[r] = "caller"

\* yard.rs, init: "a timer tick cannot land between the stack switch and
\* the first saved register."  The kernel's frames never go onto a stack
\* that ring 3 can write.
TicksOffTheUserStack == landed /= "user"

\* A resident that reaches for memory it does not have, or for a privileged
\* instruction, is killed and never takes the kernel with it.
KilledNotPanicked == pc = "panic" => vector \notin {"GeneralProtection", "PageFault"}
=============================================================================
