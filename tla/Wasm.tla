-------------------------------- MODULE Wasm --------------------------------
(* libs/wasm/src/exec.rs: the interpreter.  One step is one turn of the     *)
(* loop in `execute`; Rust's recursion is the stack of frames.  The scanner *)
(* that looks ahead for an `end` runs inside the step that needs it, as in  *)
(* the code, on the same fuel.                                              *)
(*                                                                          *)
(* Values are numbers: as_i32 and as_i64 accept either type, so only the    *)
(* number of operands can be wrong.  What an arithmetic instruction or a    *)
(* load computes is any member of Sample.                                   *)
EXTENDS WasmModule

CONSTANTS
  MAX_STACK, MAX_FRAMES, PAGE_SIZE,
  Sample      \* results of arithmetic and of loads

ASSUME MachineAssumption ==
  /\ MAX_STACK \in Nat /\ MAX_FRAMES \in Nat /\ PAGE_SIZE \in Nat
  /\ Sample \subseteq Int

VARIABLES
  listing,    \* what the entry function was assembled from: its instructions
  image,      \* the module's bytes
  wasm,       \* the decoded module
  frames,     \* activations of `execute`, the running one last
  fuel,
  outcome     \* how far the tool is: "Running", a trap, "Done", ...

loaded == <<listing, image, wasm>>
machine == <<loaded, frames, fuel, outcome>>

top == Last(frames)
body == wasm.functions[top.function].body
code == SubSeq(image, 1, body.end)
opcode == image[top.at + 1]

Pop(stack, n) == SubSeq(stack, 1, Len(stack) - n)

as_i32(n) == ((n + bit[Word - 1]) % bit[Word]) - bit[Word - 1]

Condition(stack) == as_i32(Last(stack)) /= 0

memory_length == wasm.memory_pages[1] * PAGE_SIZE

\* Instance::new lays the data segments into the memory.
data_fits ==
  \A i \in DOMAIN wasm.data : wasm.data[i].offset + wasm.data[i].length <= memory_length

-----------------------------------------------------------------------------
(* Reading instructions.                                                    *)

Openers == {\h02, \h03, \h04}
Numeric1 == {\h45, \h50, \ha7, \hac, \had}
Numeric2 == (\h46 .. \h4f) \cup (\h51 .. \h5a) \cup (\h6a .. \h76) \cup (\h7c .. \h88)
Compares == (\h45 .. \h4f) \cup (\h50 .. \h5a)
Divides == {\h6d, \h6e, \h6f, \h70, \h7f, \h80}
Loads == {\h28, \h2d, \h2f}
Stores == {\h36, \h3a}

\* An instruction's immediates: the value it uses and where they end.
immediates(bytes, at, op) ==
  CASE op \in Openers \cup {\h3f, \h40} -> Reader_byte(bytes, at)
    [] op \in {\h0c, \h0d, \h10} \cup (\h20 .. \h24) -> Reader_u32(bytes, at)
    [] op \in \h28 .. \h3e -> Then(Reader_u32(bytes, at), LAMBDA align, next :
                                Reader_u32(bytes, next))
    [] op = \h41 -> Reader_signed(bytes, at, Word)
    [] op = \h42 -> Reader_signed(bytes, at, Long)
    [] OTHER -> Ok(0, at)

\* Mutant: the scanner steps over an immediate as if it were an opcode.
skip_Nothing(bytes, at, op) ==
  IF op \in Openers THEN Reader_byte(bytes, at) ELSE Ok(0, at)

skip(bytes, at, op) == immediates(bytes, at, op)

\* Mutant: looking ahead costs nothing.
metered_Free(left) == left

metered(left) == left - 1

None == -1

\* The scanner: how it ended, if it did; where it is, how deep, the `else`
\* it met, the fuel that is left.
Scan(trap, at, depth, else_at, left) ==
  [trap |-> trap, at |-> at, depth |-> depth, else_at |-> else_at, fuel |-> left]

Scanning == "Scanning"

\* Past an instruction whose immediates end at `next`, if they could be read.
scan_past(op, next, want_else, s) ==
  IF next.error /= "None" THEN [s EXCEPT !.trap = "Malformed", !.fuel = metered(s.fuel)]
  ELSE IF op = \h0b /\ s.depth = 0
  THEN Scan("None", next.at, 0, s.else_at, metered(s.fuel))
  ELSE Scan(Scanning, next.at,
            CASE op \in Openers -> s.depth + 1 [] op = \h0b -> s.depth - 1 [] OTHER -> s.depth,
            IF op = \h05 /\ s.depth = 0 /\ want_else /\ s.else_at = None
            THEN next.at ELSE s.else_at,
            metered(s.fuel))

\* One turn of its loop.
scan_turn(bytes, want_else, s) ==
  LET op == bytes[s.at + 1]
      ends(trap, left) == [s EXCEPT !.trap = trap, !.fuel = left]
  IN
  IF s.trap /= Scanning THEN s
  ELSE IF s.at >= Len(bytes) THEN ends("Malformed", s.fuel)
  ELSE IF s.fuel = 0 THEN ends("OutOfFuel", 0)
  ELSE IF op = \h0e THEN ends("Unsupported", metered(s.fuel))
  ELSE scan_past(op, skip(bytes, s.at + 1, op), want_else, s)

\* Every turn costs fuel, so one turn more than there is fuel ends it.
scan(bytes, at, want_else, left) ==
  LET after[n \in 0 .. left + 1] ==
        IF n = 0 THEN Scan(Scanning, at, 0, None, left)
        ELSE scan_turn(bytes, want_else, after[n - 1])
  IN  after[left + 1]

find_end(bytes, at, left) == scan(bytes, at, FALSE, left)

find_else(bytes, at, left) == scan(bytes, at, TRUE, left)

-----------------------------------------------------------------------------
(* Ending a step.                                                           *)

Becomes(frame, left) ==
  /\ frames' = [frames EXCEPT ![Len(frames)] = frame]
  /\ fuel' = left
  /\ UNCHANGED <<loaded, outcome>>

Traps(trap, left) ==
  /\ outcome' = trap
  /\ frames' = <<>>
  /\ fuel' = left
  /\ UNCHANGED loaded

returns_value == wasm.types[wasm.functions[top.function].type_index + 1].results /= <<>>

\* The value `execute` answers, the last of what `stack` has left, pushed on
\* the caller's stack when there is one; without a caller the tool is done.
Returns(stack, left) ==
  LET given == IF returns_value /\ stack /= <<>> THEN <<Last(stack)>> ELSE <<>>
      n == Len(frames) - 1
  IN  IF n = 0 THEN Traps("Done", left)
      ELSE /\ frames' = [SubSeq(frames, 1, n) EXCEPT ![n].stack = @ \o given]
           /\ fuel' = left
           /\ UNCHANGED <<loaded, outcome>>

\* Mutant: calls nest without limit.
too_deep_Never(depth) == FALSE

too_deep(depth) == depth >= MAX_FRAMES

\* call_function, for a function the module defines.
activation(m, index, arguments, depth) ==
  LET f == index - Len(m.imports) + 1
      function == m.functions[f]
  IN
  IF too_deep(depth) THEN Err("StackOverflow")
  ELSE IF f > Len(m.functions) \/ ~has_function_type(m, index) THEN Err("Malformed")
  ELSE IF Len(arguments) /= Len(function_type(m, index).params) THEN Err("Faulted")
  ELSE IF function.body.start > function.body.end THEN Err("Malformed")
  ELSE Ok([function |-> f, at |-> function.body.start,
           locals |-> arguments \o [i \in DOMAIN function.body.locals |-> 0],
           stack |-> <<>>, labels |-> <<>>], 0)

-----------------------------------------------------------------------------
(* The loop of `execute`.                                                   *)

\* Mutant: the loop forgets to pay.
paid_Nothing(left) == left

paid(left) == left - 1

OutOfFuel ==
  /\ outcome = "Running" /\ fuel = 0
  /\ Traps("OutOfFuel", 0)

Overflowing == Len(top.stack) > MAX_STACK \/ Len(top.labels) > MAX_STACK

StackOverflow ==
  /\ outcome = "Running" /\ fuel > 0 /\ Overflowing
  /\ Traps("StackOverflow", paid(fuel))

RunsOff ==
  /\ outcome = "Running" /\ fuel > 0 /\ ~Overflowing
  /\ top.at >= body.end
  /\ Traps("Malformed", paid(fuel))

Fetched(ops) ==
  /\ outcome = "Running" /\ fuel > 0 /\ ~Overflowing
  /\ top.at < body.end
  /\ opcode \in ops

immediate == immediates(code, top.at + 1, opcode)

Implemented ==
  (\h00 .. \h05) \cup {\h0b, \h0c, \h0d, \h0f, \h10, \h1a, \h1b}
    \cup (\h20 .. \h22) \cup Loads \cup Stores \cup {\h3f, \h41, \h42}
    \cup Numeric1 \cup Numeric2

\* How many operands an instruction takes.
operands(op) ==
  CASE op \in {\h0d, \h1a, \h21, \h22} \cup Loads \cup Numeric1 -> 1
    [] op \in Stores \cup Numeric2 -> 2
    [] op = \h1b -> 3
    [] OTHER -> 0

\* An opcode outside the subset, an immediate that cannot be read, a block
\* type that is not known, too few operands.
Refuses ==
  \/ /\ Fetched(0 .. 255 \ Implemented)
     /\ Traps("Unsupported", paid(fuel))
  \/ /\ Fetched(Implemented) /\ immediate.error /= "None"
     /\ Traps("Malformed", paid(fuel))
  \/ /\ Fetched(Openers) /\ immediate.error = "None"
     /\ immediate.value \notin {\h40, \h7f, \h7e}
     /\ Traps("Unsupported", paid(fuel))
  \/ /\ Fetched(Implemented) /\ immediate.error = "None"
     /\ Len(top.stack) < operands(opcode)
     /\ Traps("Faulted", paid(fuel))
  \/ /\ Fetched({\h00})
     /\ Traps("Faulted", paid(fuel))

\* Past that: the instruction at hand can be carried out.
Ready(ops) ==
  /\ Fetched(ops) /\ immediate.error = "None"
  /\ opcode \in Openers => immediate.value \in {\h40, \h7f, \h7e}
  /\ Len(top.stack) >= operands(opcode)

Nop == Ready({\h01}) /\ Becomes([top EXCEPT !.at = immediate.at], paid(fuel))

Label(target, height) ==
  [target |-> target, height |-> height, is_loop |-> opcode = \h03,
   returns_value |-> immediate.value /= \h40]

Loop ==
  /\ Ready({\h03})
  /\ Becomes([top EXCEPT !.at = immediate.at,
                         !.labels = Append(@, Label(immediate.at, Len(top.stack)))],
             paid(fuel))

Block ==
  LET end == find_end(code, immediate.at, paid(fuel)) IN
  /\ Ready({\h02})
  /\ IF end.trap /= "None" THEN Traps(end.trap, end.fuel)
     ELSE Becomes([top EXCEPT !.at = immediate.at,
                              !.labels = Append(@, Label(end.at, Len(top.stack)))],
                  end.fuel)

\* The `end` is looked for before the condition is popped, the `else` only
\* when the condition is false.
If ==
  LET end == find_end(code, immediate.at, paid(fuel))
      else == find_else(code, immediate.at, end.fuel)
      stack == Pop(top.stack, 1)
      opened == [top EXCEPT !.stack = stack,
                            !.labels = Append(@, Label(end.at, Len(stack)))]
  IN
  /\ Ready({\h04})
  /\ \/ end.trap /= "None" /\ Traps(end.trap, end.fuel)
     \/ end.trap = "None" /\ top.stack = <<>> /\ Traps("Faulted", end.fuel)
     \/ /\ end.trap = "None" /\ top.stack /= <<>> /\ Condition(top.stack)
        /\ Becomes([opened EXCEPT !.at = immediate.at], end.fuel)
     \/ /\ end.trap = "None" /\ top.stack /= <<>> /\ ~Condition(top.stack)
        /\ IF else.trap /= "None" THEN Traps(else.trap, else.fuel)
           ELSE IF else.else_at /= None
           THEN Becomes([opened EXCEPT !.at = else.else_at], else.fuel)
           ELSE Becomes([top EXCEPT !.stack = stack, !.at = else.at], else.fuel)

\* Mutant: the label stays open when the alternative is skipped.
closed_Kept(labels) == labels

closed(labels) == Front(labels)

\* Falling out of the taken branch: past the `end`, and the label with it.
Else ==
  LET end == find_end(code, immediate.at, paid(fuel)) IN
  /\ Ready({\h05})
  /\ IF end.trap /= "None" THEN Traps(end.trap, end.fuel)
     ELSE IF top.labels = <<>> THEN Traps("Malformed", end.fuel)
     ELSE Becomes([top EXCEPT !.at = end.at, !.labels = closed(top.labels)], end.fuel)

End ==
  /\ Ready({\h0b})
  /\ IF top.labels = <<>> THEN Returns(top.stack, paid(fuel))
     ELSE Becomes([top EXCEPT !.at = immediate.at, !.labels = Front(@)], paid(fuel))

\* Mutant: a branch back to a loop closes the loop.
kept_labels_Closes(labels, depth, label) == SubSeq(labels, 1, Len(labels) - depth - 1)

kept_labels(labels, depth, label) ==
  SubSeq(labels, 1, Len(labels) - depth - IF label.is_loop THEN 0 ELSE 1)

\* The condition of a br_if is popped first, also on the way out of the
\* function: what is handed back lies beneath it.
Branch ==
  LET taken == IF opcode = \h0d THEN Condition(top.stack) ELSE TRUE
      stack == Pop(top.stack, operands(opcode))
      depth == immediate.value
      label == top.labels[Len(top.labels) - depth]
      carried == IF label.returns_value /\ ~label.is_loop /\ stack /= <<>>
                 THEN <<Last(stack)>> ELSE <<>>
      rest == IF carried /= <<>> THEN Pop(stack, 1) ELSE stack
      unwound == IF Len(rest) > label.height THEN SubSeq(rest, 1, label.height) ELSE rest
  IN
  /\ Ready({\h0c, \h0d})
  /\ \/ ~taken /\ Becomes([top EXCEPT !.at = immediate.at, !.stack = stack], paid(fuel))
     \/ taken /\ depth >= Len(top.labels) /\ Returns(stack, paid(fuel))
     \/ /\ taken /\ depth < Len(top.labels)
        /\ Becomes([top EXCEPT !.at = label.target, !.stack = unwound \o carried,
                               !.labels = kept_labels(top.labels, depth, label)], paid(fuel))

Return == Ready({\h0f}) /\ Returns(top.stack, paid(fuel))

arguments_of(index) == Len(function_type(wasm, index).params)

\* The caller with the arguments off its stack, past the call.
calling(index) ==
  [top EXCEPT !.at = immediate.at, !.stack = Pop(@, arguments_of(index))]

\* A call of a function of the module; of an import, when the call is
\* already too deep or its arguments are missing.
Call ==
  LET index == immediate.value
      arguments == SubSeq(top.stack, Len(top.stack) - arguments_of(index) + 1, Len(top.stack))
      callee == activation(wasm, index, arguments, Len(frames))
  IN
  /\ Ready({\h10})
  /\ \/ ~has_function_type(wasm, index) /\ Traps("Malformed", paid(fuel))
     \/ /\ has_function_type(wasm, index)
        /\ Len(top.stack) < arguments_of(index)
        /\ Traps("Faulted", paid(fuel))
     \/ /\ has_function_type(wasm, index)
        /\ Len(top.stack) >= arguments_of(index)
        /\ index < Len(wasm.imports) /\ too_deep(Len(frames))
        /\ Traps("StackOverflow", paid(fuel))
     \/ /\ has_function_type(wasm, index)
        /\ Len(top.stack) >= arguments_of(index)
        /\ index >= Len(wasm.imports)
        /\ IF callee.error /= "None" THEN Traps(callee.error, paid(fuel))
           ELSE /\ frames' = Append([frames EXCEPT ![Len(frames)] = calling(index)],
                                    callee.value)
                /\ fuel' = paid(fuel)
                /\ UNCHANGED <<loaded, outcome>>

\* A call the host answers; `import` is what Host::call is given.
Imports(import) ==
  /\ Ready({\h10})
  /\ import = immediate.value
  /\ import < Len(wasm.imports) /\ has_function_type(wasm, import)
  /\ Len(top.stack) >= arguments_of(import)
  /\ ~too_deep(Len(frames))

HostAnswers(import, value) ==
  Becomes([calling(import) EXCEPT !.stack = Append(@, value)], paid(fuel))

Drop ==
  /\ Ready({\h1a})
  /\ Becomes([top EXCEPT !.at = immediate.at, !.stack = Pop(@, 1)], paid(fuel))

Select ==
  LET n == Len(top.stack)
      chosen == IF Condition(top.stack) THEN top.stack[n - 2] ELSE top.stack[n - 1]
  IN
  /\ Ready({\h1b})
  /\ Becomes([top EXCEPT !.at = immediate.at, !.stack = Append(Pop(@, 3), chosen)],
             paid(fuel))

\* local.get, local.set, local.tee
Local ==
  LET i == immediate.value + 1
      known == i \in DOMAIN top.locals
  IN
  /\ Ready({\h20, \h21, \h22})
  /\ \/ ~known /\ Traps("Faulted", paid(fuel))
     \/ /\ known /\ opcode = \h20
        /\ Becomes([top EXCEPT !.at = immediate.at, !.stack = Append(@, top.locals[i])],
                   paid(fuel))
     \/ /\ known /\ opcode /= \h20
        /\ Becomes([top EXCEPT !.at = immediate.at, !.locals[i] = Last(top.stack),
                               !.stack = IF opcode = \h21 THEN Pop(@, 1) ELSE @], paid(fuel))

width(op) == CASE op \in {\h28, \h36} -> 4 [] op = \h2f -> 2 [] OTHER -> 1

\* Loads and stores: the address may not leave u32, the bytes not the memory.
Memory ==
  LET base == top.stack[Len(top.stack) - operands(opcode) + 1] % bit[Word]
      address == base + immediate.value
      inside == address < bit[Word] /\ address + width(opcode) <= memory_length
      stack == Pop(top.stack, operands(opcode))
  IN
  /\ Ready(Loads \cup Stores)
  /\ \/ ~inside /\ Traps("OutOfBounds", paid(fuel))
     \/ /\ inside /\ opcode \in Stores
        /\ Becomes([top EXCEPT !.at = immediate.at, !.stack = stack], paid(fuel))
     \/ /\ inside /\ opcode \in Loads
        /\ \E value \in Sample :
             Becomes([top EXCEPT !.at = immediate.at, !.stack = Append(stack, value)],
                     paid(fuel))

Constant ==
  LET pushed == IF opcode = \h3f THEN wasm.memory_pages[1] ELSE immediate.value IN
  /\ Ready({\h3f, \h41, \h42})
  /\ Becomes([top EXCEPT !.at = immediate.at, !.stack = Append(@, pushed)], paid(fuel))

results(op, value) ==
  CASE op \in Compares -> {0, 1}
    [] op \in {\ha7, \hac} -> {as_i32(value)}
    [] op = \had -> {value % bit[Word]}
    [] OTHER -> Sample

\* The i32 divisions look at the low word only.
by_zero(op, right) ==
  op \in Divides /\ (IF op < \h7c THEN as_i32(right) ELSE right) = 0

Numeric ==
  LET right == Last(top.stack) IN
  /\ Ready(Numeric1 \cup Numeric2)
  /\ \/ opcode \in {\h81, \h82} /\ Traps("Unsupported", paid(fuel))
     \/ by_zero(opcode, right) /\ Traps("Faulted", paid(fuel))
     \/ /\ opcode \notin {\h81, \h82} /\ ~by_zero(opcode, right)
        /\ \E result \in results(opcode, right) :
             Becomes([top EXCEPT !.at = immediate.at,
                                 !.stack = Append(Pop(@, operands(opcode)), result)],
                     paid(fuel))

Execute ==
  \/ OutOfFuel \/ StackOverflow \/ RunsOff \/ Refuses
  \/ Nop \/ Loop \/ Block \/ If \/ Else \/ End \/ Branch \/ Return
  \/ Call \/ Drop \/ Select \/ Local \/ Memory \/ Constant \/ Numeric

-----------------------------------------------------------------------------
(* The structure of the entry function, read off its instructions instead   *)
(* of its bytes.                                                            *)

\* The blocks that are open before instruction k, innermost last.
Nesting(instructions, k) ==
  LET open[j \in 1 .. k] ==
        IF j = 1 THEN <<>>
        ELSE LET op == instructions[j - 1][1]
                 before == open[j - 1]
             IN IF op \in Openers THEN Append(before, j - 1)
                ELSE IF op = \h0b /\ before /= <<>> THEN Front(before)
                ELSE before
  IN  open[k]

Enclosing(k) == Nesting(listing, k)

\* The `end` of the block that instruction j opens; the first `end` that
\* has it innermost.
Closes(j, k) ==
  k > j /\ listing[k][1] = \h0b /\ Enclosing(k) /= <<>> /\ Last(Enclosing(k)) = j

Closer(j) == CHOOSE k \in DOMAIN listing : Closes(j, k)

Entry == wasm.functions[1].body

\* Where instruction k starts, the first starting at `from`.
Starts(instructions, from, k) ==
  LET at[j \in 1 .. k] ==
        IF j = 1 THEN from ELSE at[j - 1] + Len(instructions[j - 1])
  IN  at[k]

Offset(k) == Starts(listing, Entry.start, k)

\* What it takes to be the listing of a module's entry function: one
\* instruction after another from the body's start to its end, and the
\* immediates of each, if they can be read, as long as the instruction.
\* (Every body has one: cut it up to the first instruction that cannot be
\* read, and let that one be the rest.)
Lists(instructions, bytes, m) ==
  LET entry == m.functions[1].body
      at(k) == Starts(instructions, entry.start, k)
  IN
  m.functions /= <<>> /\ entry.start <= entry.end =>
    /\ at(Len(instructions) + 1) = entry.end
    /\ \A k \in DOMAIN instructions :
         LET op == instructions[k][1]
             read == immediates(SubSeq(bytes, 1, entry.end), at(k) + 1, op)
         IN  /\ instructions[k] /= <<>> /\ op = bytes[at(k) + 1]
             /\ op /= \h0e /\ read.error = "None" => read.at = at(k + 1)

\* The instruction a frame of the entry function is about to execute.
Current(frame) == CHOOSE k \in 1 .. Len(listing) + 1 : Offset(k) = frame.at

\* The interpreter finds a block's end by scanning bytes and keeps its own
\* control stack, which `else`, `end` and branches shorten each in its own
\* way.  Whatever path was taken, the entry function is at the start of an
\* instruction, its labels are exactly the blocks around it, and each label
\* leads behind its block's `end`, or to the head of its loop.
LabelsMatchNesting ==
  \A i \in DOMAIN frames : frames[i].function = 1 =>
    /\ \E k \in 1 .. Len(listing) + 1 : Offset(k) = frames[i].at
    /\ LET open == Enclosing(Current(frames[i]))
           labels == frames[i].labels
       IN  /\ Len(labels) = Len(open)
           /\ \A n \in DOMAIN open :
                /\ labels[n].is_loop = (listing[open[n]][1] = \h03)
                /\ labels[n].target =
                     IF labels[n].is_loop THEN Offset(open[n] + 1)
                     ELSE Offset(Closer(open[n]) + 1)

\* The instructions the scanner walks over on behalf of instruction k.
Scanned(k) ==
  CASE listing[k][1] \in {\h02, \h04} -> Closer(k) - k
    [] listing[k][1] = \h05 -> Closer(Last(Enclosing(k))) - k
    [] OTHER -> 0

\* A step of the entry function pays for itself and for every instruction
\* it looked at while searching for an `end`: no instruction buys a scan of
\* the body for one unit of fuel.
ScanIsMetered ==
  [][outcome = "Running" /\ outcome' = "Running" /\ top.function = 1
       => fuel' <= fuel - 1 - Scanned(Current(top))]_machine

\* What the interpreter keeps for the activations of a run: frames, operands,
\* labels, and locals, the parameters among them although the decoder sets
\* no ceiling on the parameters of a type: a call pops them from operands
\* that have one.
MachineBounded ==
  /\ Len(frames) <= MAX_FRAMES
  /\ \A i \in DOMAIN frames :
       /\ Len(frames[i].stack) <= MAX_STACK + 1
       /\ Len(frames[i].labels) <= MAX_STACK + 1
       /\ Len(frames[i].locals) <= MAX_STACK + 1 + MAX_LOCALS
=============================================================================
