-------------------------------- MODULE Tool --------------------------------
(* kernel/src/tool.rs and run_a_wasm_agent of kernel/src/main.rs: a module *)
(* is decoded, its imports are resolved against what the kernel grants, and *)
(* only then is it run; its calls of imports cross into the gate.           *)
(*                                                                          *)
(* The gate's own answer (modelled in Gate) is either of the two it gives.  *)
EXTENDS Wasm

CONSTANTS
  Inputs,         \* [listing, image]: modules offered to the kernel
  ModuleName,     \* the bytes of "i3ml"
  Invoke, Journal, Approve,   \* the bytes of the verbs
  EntryName,      \* the bytes of the exported entry point
  Fuel,           \* what the kernel gives a run; 100 000
  VerbSlots,      \* length of GateHost::verbs; 8
  MAX_NOTES

ASSUME ToolAssumption ==
  /\ Inputs \subseteq [listing : Seq(Seq(Byte)), image : Seq(Byte)]
  /\ Fuel \in Nat /\ VerbSlots \in Nat /\ MAX_NOTES \in Nat
  /\ Invoke /= Journal /\ Approve /= Journal
  /\ <<>> \notin {Invoke, Journal, Approve}

\* A listing is the listing of its image.
ASSUME ListingAssumption ==
  \A input \in Inputs :
    LET decoded == Module_decode(input.image) IN
    decoded.error = "None" => Lists(input.listing, input.image, decoded.value)

VARIABLES
  granted,        \* verbs the kernel granted a capability for
  host,           \* GateHost
  acts            \* verbs that reached the gate or the journal

vars == <<machine, granted, host, acts>>

VERBS == {Invoke, Journal, Approve}

no_verb == <<>>

Unbound ==
  [verbs |-> [i \in 1 .. VerbSlots |-> no_verb], bindings |-> {},
   crossings |-> 0, refusals |-> 0, notes |-> 0]

\* libs/wasm/src/lib.rs: what the module asks to be allowed to do.
manifest(m) ==
  [i \in DOMAIN m.imports |->
     [index |-> i - 1, module |-> m.imports[i].module, name |-> m.imports[i].name]]

\* Mutant: an import without a grant is resolved all the same.
authorized_Known(requirement, grants) ==
  /\ requirement.module = ModuleName /\ requirement.index < VerbSlots
  /\ requirement.name \in VERBS

\* What bind resolves: one of the verbs, and all but `journal` need a grant.
authorized(requirement, grants) ==
  /\ requirement.module = ModuleName /\ requirement.index < VerbSlots
  /\ requirement.name \in VERBS
  /\ requirement.name /= Journal => requirement.name \in grants

bound(m, grants) ==
  [Unbound EXCEPT
     !.verbs = [i \in 1 .. VerbSlots |->
                  IF i \in DOMAIN m.imports THEN m.imports[i].name ELSE no_verb],
     !.bindings = grants \cap {m.imports[i].name : i \in DOMAIN m.imports}]

-----------------------------------------------------------------------------
ToolInit ==
  /\ \E input \in Inputs : listing = input.listing /\ image = input.image
  /\ wasm = Empty
  /\ frames = <<>>
  /\ fuel = 0
  /\ outcome = "Raw"
  /\ granted = {}
  /\ host = Unbound
  /\ acts = {}

Decode ==
  LET decoded == Module_decode(image) IN
  /\ outcome = "Raw"
  /\ IF decoded.error /= "None"
     THEN outcome' = "Rejected" /\ UNCHANGED wasm
     ELSE outcome' = "Decoded" /\ wasm' = decoded.value
  /\ UNCHANGED <<listing, image, frames, fuel, granted, host, acts>>

\* A refused module never reaches its first instruction.
Bind ==
  /\ outcome = "Decoded"
  /\ granted' \in SUBSET {Invoke, Approve}
  /\ IF \A i \in DOMAIN wasm.imports : authorized(manifest(wasm)[i], granted')
     THEN outcome' = "Bound" /\ host' = bound(wasm, granted')
     ELSE outcome' = "UnauthorizedImport" /\ UNCHANGED host
  /\ UNCHANGED <<loaded, frames, fuel, acts>>

\* GateHost::call: the answers it can give, each with the host and the
\* verbs reached after it.
host_call(import) ==
  LET slot == import + 1
      verb == IF slot \in DOMAIN host.verbs THEN host.verbs[slot] ELSE no_verb
      lacking == verb = no_verb \/ (verb /= Journal /\ verb \notin host.bindings)
      crossed == [host EXCEPT !.crossings = @ + 1]
      refused == [crossed EXCEPT !.refusals = @ + 1]
      noted == [crossed EXCEPT !.notes = @ + 1]
      answer(trap, value, after, reached) ==
        [trap |-> trap, value |-> value, host |-> after, acts |-> acts \cup reached]
  IN
  CASE lacking -> {answer("HostDenied", 0, refused, {})}
    [] ~lacking /\ verb = Journal /\ host.notes >= MAX_NOTES ->
         {answer("None", -1, refused, {})}
    [] ~lacking /\ verb = Journal /\ host.notes < MAX_NOTES ->
         {answer("None", 0, noted, {Journal})}
    [] ~lacking /\ verb \in {Invoke, Approve} ->
         {answer("None", -1, refused, {verb})} \cup
           {answer("None", value, crossed, {verb}) :
              value \in IF verb = Invoke THEN {0} ELSE Sample}

\* tool::run: Instance::new, then call_export with no arguments.  An export
\* may name an import: the host is then called at once.
Run ==
  LET index == export(wasm, EntryName)
      callee == activation(wasm, index, <<>>, 0)
  IN
  /\ outcome = "Bound"
  /\ UNCHANGED <<loaded, granted>>
  /\ \/ /\ ~data_fits
        /\ outcome' = "OutOfBounds" /\ UNCHANGED <<frames, fuel, host, acts>>
     \/ /\ data_fits /\ exported(wasm, EntryName) = {}
        /\ outcome' = "Malformed" /\ UNCHANGED <<frames, fuel, host, acts>>
     \/ /\ data_fits /\ exported(wasm, EntryName) /= {}
        /\ index < Len(wasm.imports)
        /\ \E answer \in host_call(index) :
             /\ outcome' = IF answer.trap = "None" THEN "Done" ELSE answer.trap
             /\ host' = answer.host /\ acts' = answer.acts
        /\ UNCHANGED <<frames, fuel>>
     \/ /\ data_fits /\ exported(wasm, EntryName) /= {}
        /\ index >= Len(wasm.imports)
        /\ UNCHANGED <<host, acts>>
        /\ IF callee.error /= "None"
           THEN outcome' = callee.error /\ UNCHANGED <<frames, fuel>>
           ELSE outcome' = "Running" /\ frames' = <<callee.value>> /\ fuel' = Fuel

\* The instruction `call` of an import.
HostCall ==
  \E import \in 0 .. Len(wasm.imports) - 1 :
    /\ Imports(import)
    /\ \E answer \in host_call(import) :
         /\ IF answer.trap = "None" THEN HostAnswers(import, answer.value)
            ELSE Traps(answer.trap, paid(fuel))
         /\ host' = answer.host /\ acts' = answer.acts
    /\ UNCHANGED granted

Step == Execute /\ UNCHANGED <<granted, host, acts>>

Ended == outcome \notin {"Raw", "Decoded", "Bound", "Running"}

\* A tool that has ended rests; the run checks that no other state does.
Rest == Ended /\ UNCHANGED vars

ToolNext == Decode \/ Bind \/ Run \/ Step \/ HostCall \/ Rest

\* The kernel calls decode, bind and run itself and waits for each: a step
\* that is not the end is followed by another.  This is WF_vars(ToolNext),
\* said without ENABLED, because exactly the ended states have no step.
Scheduled == []<>Ended \/ []<><<ToolNext>>_vars

ToolSpec == ToolInit /\ [][ToolNext]_vars /\ Scheduled

-----------------------------------------------------------------------------
\* tool.rs: "Anything it imports that we did not authorize is refused at
\* load time, so an unauthorized call cannot even be reached."  A running
\* tool is never denied by its host, and what it did reach was in its
\* manifest and granted beforehand.
UnauthorizedUnreachable ==
  /\ outcome /= "HostDenied"
  /\ \A verb \in acts :
       /\ \E i \in DOMAIN wasm.imports : wasm.imports[i].name = verb
       /\ verb /= Journal => verb \in granted

\* The parameters of all types together.
Parameters(types) ==
  LET sum[n \in 0 .. Len(types)] ==
        IF n = 0 THEN 0 ELSE sum[n - 1] + Len(types[n].params)
  IN  sum[Len(types)]

\* Whatever the order and number of its sections, an accepted module stays
\* under every ceiling of the decoder, and its bodies lie in its bytes.
\* Nothing counts parameters, but each takes a byte of a module whose bytes
\* are counted.
ModuleBounded ==
  /\ Len(wasm.types) <= MAX_TYPES
  /\ Parameters(wasm.types) <= MAX_MODULE_BYTES
  /\ \A i \in DOMAIN wasm.types : Len(wasm.types[i].results) <= 1
  /\ Len(wasm.imports) <= MAX_IMPORTS
  /\ Len(wasm.functions) <= MAX_FUNCTIONS
  /\ Len(wasm.exports) <= MAX_EXPORTS
  /\ Len(wasm.data) <= MAX_DATA_SEGMENTS
  /\ wasm.memory_pages[1] <= MAX_MEMORY_PAGES
  /\ \A i \in DOMAIN wasm.functions :
       /\ Len(wasm.functions[i].body.locals) <= MAX_LOCALS
       /\ wasm.functions[i].body.end <= Len(image)

\* Every vector that decoding or an activation grows on the kernel's heap
\* has a ceiling (names and data stay in the module's bytes): no repeated
\* section, parameter list, split group of locals, recursion or nesting
\* adds up past it.
HeapBounded == ModuleBounded /\ MachineBounded

\* The cursor decodes an encoding, whatever bytes it is given, to what it
\* means: no value that fits is refused, none is made up past the end of the
\* input, and what does not fit is refused.  One case is not refused, for
\* want of a check in the code: a signed number at the full width of an i64
\* loses the bits of its last byte that lie beyond.
LebAgrees ==
  outcome = "Raw" =>
    \A bits \in {Word, Long} : UnsignedAgrees(image, bits) /\ SignedAgrees(image, bits)

\* A tool that will not stop is stopped: every module offered ends in a
\* refusal, a trap or a result.
Terminates == <>Ended
=============================================================================
