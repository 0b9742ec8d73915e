# Verification of NAWA, the i3mlOS kernel

TLA+ models of the parts of NAWA that decide who may do what, what is
remembered, what leaves the machine, who owns which memory and what untrusted
code (a WebAssembly tool, a resident in ring 3) can reach; the TLC
configurations that check them on small instances; and TLAPS proofs of the
safety properties for every value of the constants.

Paths below are relative to the repository root (`src/` in `PROJECT.json`).
`tlc -config X.cfg M` runs a model, `tlapm M.tla` checks proofs.

## 1. The system

NAWA is a single-core Rust kernel. It boots from UEFI, brings up memory, runs
*agents* (step functions called by a supervisor) and answers their *verbs*.
Nothing an agent does bypasses the gate.

| Component | State | Operations | Talks to |
|---|---|---|---|
| AMAN (`nawa/aman`) | table of capability slots: authority, holder, parent, revoked | mint, attenuate, delegate, authorize, revoke_tree | SIJIL |
| Gate (`nawa/gate`) | agents (state, budget, capability list, awaited request), approval requests | spawn, grant, delegate, attenuate, invoke, spend, request_approval, answer_approval, remember, charge, run_until_idle | AMAN, SIJIL, step functions, the human |
| Budget (`gate/acb.rs`) | money and time: limit, used | carve, remaining, exhausted | Gate |
| SIJIL (`nawa/sijil`) | ring of the last 512 entries, next sequence number | record, for_each | everyone |
| Journal (`libs/journal`) | superblock (count, tip), records in sectors | create, open, append, flush | a `Sectors` |
| GPT (`libs/gpt`) | none | find, Window | a `Sectors` |
| Persistence (`kernel/persist.rs`) | progress through one boot | run: locate, round_trip, journal | GPT, Journal, SIJIL, block driver |
| virtio queue (`virtio/queue.rs`) | descriptor table, two rings, indices, broken | submit, take_used, wait_for | the device, in shared memory |
| block, console, entropy (`virtio/*.rs`) | buffers shared with the device, posted request | read/write/flush, send/receive | queue |
| Broker (`kernel/model.rs`) | counters | ask | Gate, console |
| Relay (`host/relay/relay.py`) | bytes read so far | converse | console (other end), a model |
| Frames (`core/mem.rs`) | bitmap, hint | allocate_frames, free_frames | heap, paging, drivers |
| Heap (`core/heap.rs`) | free list | alloc, dealloc | all kernel code |
| Paging (`core/paging.rs`) | page tables, device windows | init, map_yard_page, map_device | Frames, yard, drivers |
| Yard, IDT, GDT (`core/{yard,idt,gdt}.rs`) | four words of the transition, crossings | load, enter, syscall_entry, dispatch, leave, fault handlers, timer | Paging, SIJIL, kernel main |
| Decoder, interpreter (`libs/wasm`) | module, frames of operands, labels and locals, fuel | decode, call_export, execute, scan | a `Host` |
| Tool host (`kernel/tool.rs`) | bindings, counters | bind, call, run | interpreter, Gate, SIJIL |

**What is hard here.** There is one core and no preemption of kernel code (the
timer interrupt only bumps counters), so nothing races on memory. The difficulty
is in interleavings at a coarser grain: an agent's step runs with the
supervisor's lock dropped, a human answers at any time, the device and the relay
work on their own, waits give up while the work they wait for goes on, the
power can go out between any two sector writes, and a tick or a fault can land
between any two instructions around ring 3. Untrusted input adds the other
kind: a module's bytes reach every path of the decoder and the interpreter. The list `hazards` in
`PROJECT.json` names each such place.

## 2. Modules

    Authority --- Aman --- Gate --- MCGate             Partition --\
                          / | \-- Scheduler            Journal -----Persist --- MCPersist
                         /  |         |    \           Sijil ------/   |
                        /   |    MCScheduler \                    PersistProofs
                        GateProofs --------- TreeProofs
                            :                          Virtqueue --- Broker --- MCBroker
                         Consent (refined by Gate)                     |
    Budget --- Gate                                               BrokerProofs

    Leb --- WasmModule --- Wasm --- Tool --- MCTool    Frames, Heap --- Memory --- MCMemory
                                     |                                    |
                                 ToolProofs                          MemoryProofs

    Numbers: below the modules of proofs
                                                       Paging --- Yard --- MCYard
                                                                   |
                                                               YardProofs

**Authority** - the lattice of `aman`: scopes are paths over letters with the
boundary rule of `is_within`, `is_subset_of`, `risk`, and the gate's `price_of`.

**Aman** - the table. `slots` is a sequence that only grows; an index is a
capability. One action per operation, refusals included. `emitted` is what the
last operation journaled. `revoke_tree`'s single forward pass is the set of flag
functions that a pass leaves behind (`ForwardPass`): a slot reads its parent's
flag as the pass has already left it, which pins one function down because
parents come first.

**Budget, Gate** - the supervisor. An agent's step is two actions, `StepBegin`
and `StepEnd`; between them the running agent may call any verb any number of
times, which over-approximates every step function in `agents.rs`. The kernel answers,
charges and revokes between steps (`running = Kernel`): it calls the gate from one thread of
its own and not while `run_until_idle` waits for an agent. Time used is an input. `acts`
is a history variable: each irreversible crossing with the request whose yes it
used.

**Consent** - what the gate promises about consent and nothing else: tickets that
are asked within a limit, decided once and used once, by the agent and through the
capability they name. `Gate` maps its approvals to tickets and its history of acts to
the ledger's (`ImplementsConsent`); agents, budgets, steps and the table do not appear
in it.

**Scheduler** - `run_until_idle` around `Gate`: `next_runnable` picks the earliest
deadline, a call makes at most `MaxSteps` steps, and the kernel calls the gate between
calls of the loop only. Deadlines are kept relative to now and deadlines that have
passed keep only their order, since the code compares deadlines with each other and
nothing else; so the clock can run for ever in finitely many states.

**Leb, WasmModule, Wasm, Tool** - from bytes to crossings. `Leb` is the cursor,
`WasmModule` the decoder, both over byte sequences. `Wasm` is the loop of `execute`,
one instruction a step; Rust's recursion in `call_function` is a stack of frames. The
loops of the cursor, the decoder and `scan` are functions by recursion on the number of their
turns, of which there are never more than bytes or fuel. Integers are scaled: `Word` and `Long` are 11 and 15
bits instead of 32 and 64, still no multiples of LEB128's seven and still two and three
groups long. Control, stack heights, what a return hands back, bounds, widths, traps and fuel are exact; what an
arithmetic instruction or a load yields is any value of `Sample`, comparisons 0 or 1, since
no property depends on sums. Stored bytes are not kept for the same reason. `Tool` is
`bind`, `run` and `GateHost::call`; whether the gate allows a crossing is an input.
`listing` is no state of the code: it is the entry function cut into its instructions, which
the module's bytes determine (`Lists`; every body can be cut so), and what the properties of
the control stack and of the scanner's costs compare the interpreter with.
`MCTool` assembles the modules: every listing of a few instructions for the entry
function, with helper functions, imports and grants around it, and modules damaged in
one section or one encoding.

**Paging, Yard** - tables are functions from indices to entries, named by the frame they
lie in; addresses count units of which `HUGE_PAGE_SIZE` make a large page. Frames run out
at every possible point (`FrameCounts`), and whatever was linked by then stays.
The loops of `init` and `map_device` are functions by recursion on their counter.
`DevicesElsewhere` is the one assumption that is not about types or sizes: no device's registers lie in the
yard's slot of the top table, or above what four levels of tables reach. `Yard` cuts `enter_ring3`, `syscall_entry` and `leave` where a tick could
tell the halves apart: before and after each change of stack, ring or interrupt flag. The
resident is any mixture of computing, crossing and faulting.

**Sijil, Journal, Partition, Persist** - the persistence path over power cycles. One
sector write is one step. The log's hash chain is modelled by an injective
term: the hash of a record is the sequence of records up to it, so that "same
tip" means "same log", which is what SHA-256 is trusted for. The device accepts
writes into `pending`; a flush makes them durable; the power going out keeps a
prefix of them or, with a write-back cache, any subset. A request may be refused, or time out and
break the queue for the rest of the boot while its write still lands.

**Virtqueue, Broker** - one call of `ask` at a time through the console's two queues
to the relay and back. Lengths are counted in units; a request line is one unit. The gate's verdict
is an input. Both waits may give up at any moment at which nothing has completed.

**Frames, Heap, Memory** - the two allocators, composed in the order `entry.rs` brings them
up. The free list is a sequence of blocks; addresses are numbers.

**MC modules** give constants values for TLC; no definition is replaced.

### External parts

Modelled from how the code uses them, and marked external in the map: the virtio
devices (they process a queue's chains in order and answer each once; the console
moves a reply into the posted buffer whole), a disk's cache and its power loss. A
timed-out block write is assumed to land as submitted or not at all: the driver
does overwrite the shared request header, but after a timeout `persist::run`
only issues reads and flushes, never another write.

## 3. What the runs show

| Run | Instance | Result |
|---|---|---|
| `sched` | 2 agents, deadlines now and later, 1 slot, 2 questions, steps without end | `NoStarvation`: a ready agent runs, whatever the others do; `ParkedIsReleased`; `StepLeavesNoDebtor` |
| `gate_pair` | 2 agents, 2 slots, 2 questions, charges | `ImplementsConsent` (refinement), `OneYesOneAct` across agents, `StoppedStaysStopped`, `NeverSilent` |
| `gate_tree` | 3 agents in any tree, 3 slots, writing to a directory (40) and reading a sibling by text (10), shares of money and time from which a child can pay and hand on | `AuthorityFlowsDown`, `NoOrphans`, `SubtreeWithinRoot`, `TimeIsCarved`; of the table `AncestorsDominate`, `DerivedStaysInside`, `AuthorizedOnlyLive`, `RevokesExactlySubtree` |
| `persist` | 3 boots, 3 entries each, a ring of 2, 10 sectors, 2 records a sector | `RetainsTheNewest`, `TipMatchesDisk`, `CommittedSurvives`, `AcceptedInOrder`, `CleanBootCommitsAll`, `WritesStayInside` |
| `broker` | 4 calls, queues of 2, indices wrap at 4, prompts of 2, 3 and 4 units with 2 declarable and 3 sendable | `OneInFlight`, `OnlyPaidPublicLeaves`, `AnswersTheQuestion`, `AtMostOneLateAnswer` |
| `memory` | 7 frames, a heap of 6 quanta, 3 layouts, 3 live allocations | `FramesOwnedOnce`, `RefusedMeansFull`, `HeapTiled`, `BlocksRepresentable` |
| `tool` | about 10000 modules, 24 units of fuel, ceilings of 1 to 3 | `LebAgrees`: decoding against a definition of what an encoding means, the full signed width excepted (below); `LabelsMatchNesting`: the control stack against the nesting read off the listing; `HeapBounded`, `ScanIsMetered`, `UnauthorizedUnreachable`, `Terminates` |
| `yard` | tables of 3 entries, 3 devices for 2 windows (one across two large pages, one across two directories), 4, 8 or 16 frames, 2 entries, 2 crossings | `OnlyYardIsUser`, `IdentityIntact`, `CallerIntact`, `TicksOffTheUserStack`, `KilledNotPanicked` |

Four runs are expected to fail; each shows a sentence of the repository that the
code does not keep (`findings` quotes them):

- `gate_wake`: a late yes sets a finished, killed or suspended agent running
  again, though "only the agent actually parked on THIS request is affected".
- `gate_lost_wake`: an agent that asks again about a capability whose question
  is open, and parks, may never be released by the answer.
- `persist_damaged`: with the primary partition header damaged, the backup "at
  the far end" is looked for one sector too early; the kernel takes the whole
  disk and overwrites what is on it.
- `broker_late`: a reply that comes after the wait was given up is returned as
  the answer to the next question, which queue.rs says the broken flag prevents.

Each property of a passing run has a mutant of the modelled code that breaks it
(`mutants`; the mutated operators stand before the originals in the modules).

**Bounds.** Three slots hold a chain of two derivations and two siblings, the shapes
in which revocation and dominance can go wrong; the proofs below lift them to any number.
In `gate_tree` a root can write or read, a child can read from its share, and a share is enough to
hand one on: an agent, its child and its grandchild can all have burnt, and the most that a
subtree can burn is its root's money exactly.
Two questions at once and a third later are what it takes for an answer to meet
the wrong awaited request. Three boots let a log be written, cut short, and reopened
after; three entries make the ring wrap; two records a sector exercise the
read-modify-write. Four public calls wrap both of the transmit queue's indices
twice. Seven frames leave four to fragment. Two agents and two steps a call let one
continue for ever while the other's deadline is still ahead. A listing of a few
instructions nests two deep with an `else`, a loop and branches out of both; frames,
labels and operands reach their ceilings of 3, and the fuel ends loops after some rounds
and scans in the middle. A helper function is left by `end`, `return`, `br` and `br_if`, with and
without a value beneath the condition. Four frames fail in `paging::init` or the first yard page, eight
between two levels of a later mapping, sixteen never; a second entry shows that the first
was left cleanly. Named bounds: `MaxSlots`,
`MaxAgents`, `MaxApprovals`, `MaxUsed`, `MaxBoots`, `MaxEntries`, `MaxAstray` (boots
in which the table lookup meets a failing read), `MaxAsks`, `MaxLive`, `MaxEnters`,
`MaxCrossings`.

**Conditions in properties.** `SubtreeWithinRoot` is checked without after-the-fact
charges: `charge` may overrun an account by design, the agent is then suspended.
`CommittedSurvives` assumes that writes reach the medium in the
order accepted: there is no flush between a record and its superblock, so a
write-back cache that reorders them can leave a log that is refused (never one that
is accepted wrongly: `AcceptedInOrder` has no such condition). `AnswersTheQuestion` assumes no
wait was given up and no prompt exceeds what a request line declares; the run
includes both, and `broker_late` shows what happens without the first.
`WritesStayInside` is about boots in which the lookup of the partition table could read: after a
failing read `persist.rs` takes the disk for one without partitions and uses all of it. The
run includes such boots. What it says of them is `AcceptedInOrder` alone, which has no condition:
`CommittedSurvives` and `CleanBootCommitsAll` leave them out as `WritesStayInside` does.
`LebAgrees` has one exception. "Signed LEB128, at most `bits` wide" (`leb.rs:95`) is checked by
the code for widths below 64 only (`leb.rs:114`): at 64 the tenth byte holds one bit of the
number, and the other six are dropped whatever they are, not refused. Nine bytes `0x80`
and then `0x02` read as 0. The property states what is read instead, the value cut off to
an i64; that the width is exceeded is no trap, here or in the proof.
`HeapBounded` bounds the number of entries of every vector. Parameters have no ceiling of
their own in the decoder; each takes a byte of the module, so that all of them together are
bounded by `MAX_MODULE_BYTES`, and that is what the property says of them.
`KilledNotPanicked` is about general protection and page faults. `divide_error`,
`invalid_opcode` and the vectors without a handler do not look at who was running: raised
in ring 3 they panic the kernel (`Panic` in `Yard`), although `enter` is documented to
return "by a fault, or by the resident asking to exit" (`core/src/yard.rs:173`); there is no
verb to exit either. `IdentityIntact` claims nothing of `in_device_window` for windows past
`MAX_DEVICE_WINDOWS`: `map_device` maps them and answers true without remembering them, so
`mmio` refuses registers that are mapped.

**Fairness.** *Gate* (the two runs that expect a violation): weak fairness of `StepEnd`,
step functions return; strong fairness of each answer, because steps come in between, so an
answer is enabled again and again rather than continuously. *Scheduler*: the clock ticks,
the loop goes on and is called again, a step function returns (weak); every open question
is answered if the kernel gets to answer again and again (strong): the kernel calls
`run_until_idle`, goes through `pending_approvals` and calls it again (`main.rs:193-211`).
Nothing is assumed of which agent runs or what it reports. *Tool*: the kernel calls decode,
bind and run one after the other and waits; `Scheduled` is weak fairness of the next-state
relation, written without `ENABLED` because exactly the ended states have no step (deadlock
is checked, with `Rest` for the ended states). Termination then comes from fuel alone.

`CHECK_DEADLOCK FALSE` stands in `persist`, `broker` and `yard`, where the bounded script
of boots, calls or entries ends and the machine may stop.

## 4. What is proved

Eight modules hold theorems, checked by TLAPS to the last leaf, for every value of the
constants that meets the assumptions: any number of slots, agents, questions, frames,
calls, boots and entries, any bytes of a module. Every safety property that a passing run
checks is also a theorem.

| Module | Theorems |
|---|---|
| `GateProofs` | of the table: `LineageDominates`, `AuthorizationIsLive`, `RevocationIsExact`, `TableIsAppendOnly`, `DerivationStaysInside`; of the gate: types, `ConsentLaw`, `AnswersAreFinal`, `GateImplementsConsent`, and the table's laws carried to it |
| `TreeProofs` | `AuthorityGoesDown`, `NobodyIsOrphaned`, `WallsAreCarved`, `SubtreeStaysWithin`, `StoppedUntilAnswered`, `StoppingIsJournaled`, `ScheduledGate`, `StepsLeaveNoDebtor` |
| `MemoryProofs` | `FramesHaveOneOwner`, `RefusalMeansFull`, `HeapIsTiled`, `BlocksHoldTheirHeader` |
| `YardProofs` | `CallerComesBack`, `TicksStayOff`, `ResidentDiesAlone`, `UserSeesTheYard`, `IdentityStays` |
| `BrokerProofs` | `OneRequestOut`, `OnlyPublicLeaves`, `LateAnswersEnd`, `AnswersAreForTheQuestion` |
| `PersistProofs` | `RingRetainsTheNewest`, `JournalStaysInside`, `TipIsTheDisk`, `CommittedLogsSurvive`, `AcceptedLogsInOrder`, `CleanBootsCommit` |
| `ToolProofs` | `ToolTypeCorrect`, `HeapBoundedAlways`, `UnauthorizedNeverReached`, `LebAlwaysAgrees`, `LabelsAlwaysMatch`, `ScanAlwaysMetered`, `EveryStepAdvances` |
| `Numbers` | lemmas the others share: least elements, remainders and quotients, functions defined by recursion over `0..n`, sums over finite sets |

*Assumptions*: the ones named in the modules, each evaluated by TLC in the run of its
component. Beyond types: `Slash` is a letter and amounts fit a word (AMAN, gate); the heap
starts and ends on a block quantum and alignments and the quantum divide one another
(`HeapAssumption`); the queue's size divides the range of its indices and is smaller
(`QueueAssumption`: a power of two up to 128, and 65536); what a request line may declare fits the transmit buffer
(`DeclaredFits`: 2048 and 16384); the partition lies between the two copies of the table
(`PersistAssumption`); there are finitely many registers to preserve; the yard's slot of
the top table is not the first, no device's registers lie in it and none lie above what
four levels of tables reach (`PagingAssumption`, `DevicesElsewhere`); a word is narrower than a
long, and the groups that hold a word fit a long (`WidthsAssumption`: five times seven bits
in 64; the cursor shifts a word's groups in a 64-bit accumulator); the verbs that need a grant are
not `journal` and no verb has an empty name (`ToolAssumption`); the listing is the image's
(`ListingAssumption`). `SubtreeStaysWithin`
alone has a hypothesis of its own, `Charges = {}`, as its run has: a charge may overrun.

*AMAN.* The inductive invariant is the type invariant with `LineageInv`: a
slot's parent has a smaller index, a slot's authority is a subset of its
parent's, and it is revoked if its parent is. What the laws say is about whole
chains and is not inductive as it stands. `LineageDominates` follows
from the one-step invariant: the slots that dominate a given one form a set
closed under "parent of", and such a set holds every ancestor; `is_subset_of` is
shown reflexive and transitive first (for scopes, that the prefix rule with its
path boundary is transitive). `RevocationIsExact` shows both directions of the
single forward pass: it reaches the whole subtree, since the slots it leaves live
are closed under "parent of", and nothing else, since a least slot revoked
outside the subtree would have a revoked parent outside it. `TableIsAppendOnly` is an
action property; `AuthorizationIsLive` and `DerivationStaysInside` are invariants over
the same facts.

*The gate.* Each action is reduced once to what it does to each vector: to the table
(`TableStep`), to the agents (`AgentStep`), to the questions and acts (`ConsentStep`:
ask, decide, burn or leave alone). `GateTyped` then needs no knowledge
of the verbs, and `ConsentLaw` is an induction over `ConsentStep`: an act burns the
yes it used, only an unburnt yes authorises the next, and nothing unburns one, so no
two acts share a request. `OneYesOneAct` says "answered yes" and "consumed" of every used
request because without them it would not be inductive. `GateLineage` carries the table's invariant
through the gate, and `AnswersAreFinal` is the action property that a decided question
is not decided again.

*The refinement.* `GateImplementsConsent` shows that `Gate` implements `Consent`: initial
states map to the empty ledger, and under the type invariant and the invariant that every
consumed question was answered yes (so an open one is not consumed), each `ConsentStep` maps to `Ask`, `Decide`, `Act` or a stutter. The
limit carries over because `Open` on both sides is the same set.

*The tree of agents.* Two more reductions of the verbs: `TreeMove` (a step edits one agent
without touching whose child it is, or a root is born, or an agent delegates and pays for
the child) and `StateMove` (a step suspends an agent that has run out, releases the one that
an answer names, or takes a report). `Grants` is the invariant of the budgets: parents are
older; what an agent's children were given, it has spent or used; an agent with limited time
has only children with limited time. A subtree's bill is not a sum over children but over all
descendants: `SubtreeStaysWithin` counts it from the youngest agent up, where each agent's
own share cancels against what its children were given. `ScheduledGate` shows that
`SchedSpec` implements `GateSpec`, so that each of these theorems holds of the scheduled
system; `StepsLeaveNoDebtor` is about the loop itself.

*Memory.* `FramesPartition`: the bitmap is exactly the bitmap's own frames and the extents
handed out, and these are disjoint. `HeapInv`: blocks are whole quanta, free and live bytes are
pairwise disjoint (`Apart`) and together are all bytes of the heap (`Covering`). Cutting a
block in up to three and merging on release are both a replacement inside a sequence, so
one lemma about splicing serves them.

*The yard.* `Crossing` says of every place between two instructions of the trampolines which
stack, ring and interrupt flag are in force and what lies on the caller's stack. For the page tables
the reachable states are described by a labelling that the code does not have: `Tree` gives each
table a level and a number, so that entry *i* of table *p* leads to number
*p* * `ENTRIES` + *i*, ring 3 can pass only the yard's entry of the root, and a large page
has the address its number says. Each of `paging.rs`'s loops is a function by recursion on
its counter; one step of it keeps the labelling and loses no mapping (`Extends`), also when
the frames run out in the middle. `Paged` adds that what was identity-mapped, and each page of
a device that was served, is still reached. `OnlyYardIsUser` and `IdentityIntact` read a
walk of the processor off the labelling.

*The broker.* `Port` holds whatever was given up: each queue is idle, waits for one request or
has one answer, a queue that is not broken is in the state its side of the code expects, and
everything in the buffer or heard belongs to a call that crossed. `Conversation` is the
invariant as long as nothing was given up: the call under way is in one of six stages,
each saying what is on the line, in the buffers and in the two queues.

*Persistence.* All four parts are about the images a power cut could leave now, not only about
the medium. `Running`: the journal in memory is the log its place holds, and every
image still has its partition table. `Kept`: every image that keeps the order of writes
holds a log that begins with what was committed. `Telling`: every superblock in any image,
wherever it lies, is of a log told in order. `Promising`: what is on the disk and
what is still to be appended make up what a boot without failures owes. That a record is rewritten
together with its neighbours in a sector, and that a superblock never counts a record
that is not there, is proved once, for the append.

*The tools.* Four arguments, all about bytes nobody vouches for.

- *Types and ceilings.* `MachineInv` bounds what the decoded module and every frame of the interpreter
  hold; only the running frame may be one past a stack's ceiling, because that is checked before an
  instruction and not after. The decoder's loops carry "what was read lies in its
  type and ends inside the input" through every turn (`ModuleRead`), and each instruction has a
  lemma of its own. `HostInv` adds that once imports are resolved each is authorized and the
  host's slots name it (`Resolved`); from it follows `UnauthorizedUnreachable`. For `HeapBounded`
  the decoder's loop is weighed: each parameter read moves the cursor by a byte (`ManyWeighs`), so
  the parameters of all types are no more than the bytes (`TypesRead`), and a module is loaded only
  when its bytes are under their ceiling (`LoadedFits`).
- *The encoding.* Reading a byte adds its payload at the weight it has (`Sums`), so the cursor's
  accumulator is the encoding's value; the guard on the last byte's excess bits accepts
  exactly the values that fit the width, and the sign extension of a short encoding is the two's
  complement it stands for; at the full signed width, which has no guard, what is read is the
  value modulo that width.
- *Fuel.* Every step ends the tool, takes it a stage further or lowers the fuel
  (`EveryStepAdvances`), so no tool makes more than `Fuel` + 4 steps: the bound behind `Terminates`.
- *The control stack.* `StructInv` says of every activation of the entry function, wherever it
  is on the stack of frames, that it stands before an instruction *k* of the listing and that its labels
  are the blocks open before *k*, each leading behind the `end` that shuts it or to the
  head of its loop (`Fitted`). The scanner reads bytes with a counter and knows no
  blocks: an invariant of its turns (`Tracks`) ties position, depth and fuel to the
  listing, so that the `end` it finds is the one that has the opening instruction innermost
  (`EndShuts`), an `else` it meets belongs to the same block, and the fuel it used is
  the distance. `if`, `else`, `end` and branches shorten or extend the labels each in its
  own way; that a branch may drop labels down to any depth needs that a block, once
  shut, never encloses anything again (`StaysShut`, `ShutsOnce`). `LabelsMatchNesting` and
  `ScanIsMetered` are read off that.

*Only model-checked.* Liveness under fairness (`ParkedIsReleased`, `NoStarvation`, `Terminates`):
no prover here handles it. What the four findings say is refuted by their runs, not proved.

## 5. Not modelled, and the plan

Not modelled: drawing, fonts and banner, serial output, panic, UEFI calls,
APIC calibration, PCI discovery, SHA-256 and CRC arithmetic, the image builder apart
from the table it leaves, asset generators on the host. The spin lock is never contended on one
core whose interrupt handlers take no lock.

In a modelled component: the scratch page that `block.rs` shares between requests (only
`persist::run` uses the driver, and issues no second write after a timeout), replies that
the host splits over several buffers (how it writes is outside the repository), the
console's multiport handshake, selectors and descriptor bits, arithmetic results of the
interpreter, invalidation of the TLB.

Order of work, most important behaviour first:

1. Done: AMAN, the gate and consent with its abstract specification (proved), scheduler,
   persistence, broker, memory, tools, paging and the yard.
2. `BlockRequest`: the shared scratch page under timeouts; the console's handshake.
3. Proofs. Done: every safety property and action property that a passing run checks, and
   the refinement of `Consent`. Left: the abstract specifications below and the refinements onto
   them.

Abstract specifications still worth stating: an append-only log that a power cut may
shorten to a committed prefix, under `Persist`; a one-slot request/reply channel under
`Virtqueue`; an owner map of frames under `Frames`.
