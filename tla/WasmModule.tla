----------------------------- MODULE WasmModule -----------------------------
(* libs/wasm/src/module.rs: the decoder.  A module is a record of what the *)
(* sections hold; a byte is a number, as it is in the code, because a       *)
(* function's body is executed from the very bytes that were decoded.       *)
EXTENDS Leb, SequencesExt

CONSTANTS
  MAX_MODULE_BYTES, MAX_TYPES, MAX_IMPORTS, MAX_FUNCTIONS,
  MAX_EXPORTS, MAX_LOCALS, MAX_MEMORY_PAGES, MAX_DATA_SEGMENTS

Magic == <<0, 97, 115, 109>>       \* "\0asm"
Version == <<1, 0, 0, 0>>

ASSUME CeilingsAssumption ==
  /\ MAX_MODULE_BYTES \in Nat /\ MAX_TYPES \in Nat /\ MAX_IMPORTS \in Nat
  /\ MAX_FUNCTIONS \in Nat /\ MAX_EXPORTS \in Nat /\ MAX_LOCALS \in Nat
  /\ MAX_MEMORY_PAGES \in Nat /\ MAX_DATA_SEGMENTS \in Nat

\* What an item reads as, from each place in the bytes.
Reading(item(_, _), bytes) == [at \in 0 .. Len(bytes) |-> item(bytes, at)]

\* `for _ in 0..count { items.push(item(reader)?) }`
many(count, item, at) ==
  LET upto[n \in 0 .. count] ==
        IF n = 0 THEN Ok(<<>>, at)
        ELSE Then(upto[n - 1], LAMBDA items, from :
             Then(item[from], LAMBDA value, next : Ok(Append(items, value), next)))
  IN  upto[count]

\* A section's entries: the count, held against its ceiling, then each.
entries(ceiling, item, bytes, at) ==
  Then(Reader_usize(bytes, at), LAMBDA count, from :
    IF count > ceiling THEN Err("TooLarge") ELSE many(count, item, from))

ValueType_decode(bytes, at) ==
  Then(Reader_byte(bytes, at), LAMBDA octet, next :
    CASE octet \in {\h7f, \h7e} -> Ok(octet, next)
      [] octet \in {\h7d, \h7c} -> Err("Unsupported")
      [] OTHER -> Err("Malformed"))

FuncType(bytes, at) ==
  Then(Reader_byte(bytes, at), LAMBDA form, a :
    IF form /= \h60 THEN Err("Malformed") ELSE
  Then(Reader_usize(bytes, a), LAMBDA params, b :
  Then(many(params, Reading(ValueType_decode, bytes), b), LAMBDA takes, c :
  Then(Reader_usize(bytes, c), LAMBDA results, d :
    IF results > 1 THEN Err("Unsupported") ELSE
  Then(many(results, Reading(ValueType_decode, bytes), d), LAMBDA gives, e :
    Ok([params |-> takes, results |-> gives], e))))))

ImportRef(bytes, at) ==
  Then(Reader_name(bytes, at), LAMBDA from, a :
  Then(Reader_name(bytes, a), LAMBDA name, b :
  Then(Reader_byte(bytes, b), LAMBDA kind, c :
    CASE kind = 0 -> Then(Reader_u32(bytes, c), LAMBDA index, d :
                       Ok([module |-> from, name |-> name, type_index |-> index], d))
      [] kind \in 1 .. 3 -> Err("Unsupported")
      [] OTHER -> Err("Malformed"))))

\* minimum and maximum, in pages
MemoryLimits(bytes, at) ==
  Then(Reader_byte(bytes, at), LAMBDA form, a :
    IF form > 1 THEN Err("Malformed") ELSE
  Then(Reader_u32(bytes, a), LAMBDA minimum, b :
  Then(IF form = 0 THEN Ok(MAX_MEMORY_PAGES, b) ELSE Reader_u32(bytes, b), LAMBDA maximum, c :
    IF minimum > MAX_MEMORY_PAGES \/ maximum > MAX_MEMORY_PAGES
    THEN Err("TooLarge") ELSE Ok(<<minimum, maximum>>, c))))

Export(bytes, at) ==
  Then(Reader_name(bytes, at), LAMBDA name, a :
  Then(Reader_byte(bytes, a), LAMBDA kind, b :
  Then(Reader_u32(bytes, b), LAMBDA index, c :
    Ok([name |-> name, kind |-> kind, function_index |-> index], c))))

\* Mutant: a group of locals is held against the ceiling alone, not with
\* the groups before it.
too_many_locals_PerGroup(locals, repeat) == repeat > MAX_LOCALS

too_many_locals(locals, repeat) == Len(locals) + repeat > MAX_LOCALS

\* One group of locals after those that are known.
more_locals(known, bytes, at) ==
  Then(Reader_usize(bytes, at), LAMBDA repeat, a :
  Then(ValueType_decode(bytes, a), LAMBDA type, b :
    IF too_many_locals(known, repeat) THEN Err("TooLarge")
    ELSE Ok(known \o [j \in 1 .. repeat |-> type], b)))

\* A body's local declarations, expanded.
Locals(bytes, at) ==
  Then(Reader_usize(bytes, at), LAMBDA groups, from :
    LET upto[n \in 0 .. groups] ==
          IF n = 0 THEN Ok(<<>>, from)
          ELSE Then(upto[n - 1], LAMBDA known, next : more_locals(known, bytes, next))
    IN  upto[groups])

\* A body ends where its size says, wherever its locals stopped.
FunctionBody(bytes, at) ==
  Then(Reader_usize(bytes, at), LAMBDA size, start :
    IF start + size > Len(bytes) THEN Err("Truncated") ELSE
  Then(Locals(bytes, start), LAMBDA locals, from :
    Ok([locals |-> locals, start |-> from, end |-> start + size], start + size)))

\* Only `i32.const N end` is accepted as an offset.
DataSegment(bytes, at) ==
  Then(Reader_u32(bytes, at), LAMBDA memory, a :
    IF memory /= 0 THEN Err("Unsupported") ELSE
  Then(Reader_byte(bytes, a), LAMBDA opcode, b :
    IF opcode /= \h41 THEN Err("Unsupported") ELSE
  Then(Reader_signed(bytes, b, Word), LAMBDA offset, c :
  Then(Reader_byte(bytes, c), LAMBDA end, d :
    IF end /= \h0b THEN Err("Malformed") ELSE
  Then(Reader_usize(bytes, d), LAMBDA length, e :
  Then(Reader_slice(bytes, e, length), LAMBDA data, f :
    Ok([offset |-> offset % bit[Word], length |-> length], f)))))))

\* Exported memories, tables and globals are read and dropped.
of_functions(exports) ==
  LET upto[n \in 0 .. Len(exports)] ==
        IF n = 0 THEN <<>>
        ELSE IF exports[n].kind = 0 THEN Append(upto[n - 1], exports[n])
        ELSE upto[n - 1]
  IN  upto[Len(exports)]

decode_code(m, bytes, at) ==
  Then(Reader_usize(bytes, at), LAMBDA count, from :
    IF count /= Len(m.declared) THEN Err("Malformed") ELSE
  Then(many(count, Reading(FunctionBody, bytes), from), LAMBDA bodies, next :
    Ok([m EXCEPT !.functions = m.functions \o
          [i \in 1 .. count |-> [body |-> bodies[i], type_index |-> m.declared[i]]]], next)))

\* One section's content, by its id.
decode_section(m, id, bytes, at) ==
  CASE id = 0 -> Ok(m, at)
    [] id = 1 -> Then(entries(MAX_TYPES, Reading(FuncType, bytes), bytes, at),
                   LAMBDA types, next :
                   Ok([m EXCEPT !.types = m.types \o types], next))
    [] id = 2 -> Then(entries(MAX_IMPORTS, Reading(ImportRef, bytes), bytes, at),
                   LAMBDA imports, next :
                   Ok([m EXCEPT !.imports = m.imports \o imports], next))
    [] id = 3 -> Then(entries(MAX_FUNCTIONS, Reading(Reader_u32, bytes), bytes, at),
                   LAMBDA declared, next :
                   Ok([m EXCEPT !.declared = m.declared \o declared], next))
    [] id = 5 -> Then(Reader_usize(bytes, at), LAMBDA count, from :
                   IF count > 1 THEN Err("Unsupported") ELSE
                 Then(many(count, Reading(MemoryLimits, bytes), from), LAMBDA limits, next :
                   Ok([m EXCEPT !.memory_pages = IF count = 1 THEN limits[1] ELSE @], next)))
    [] id = 7 -> Then(entries(MAX_EXPORTS, Reading(Export, bytes), bytes, at),
                   LAMBDA exports, next :
                   Ok([m EXCEPT !.exports = m.exports \o of_functions(exports)], next))
    [] id = 10 -> decode_code(m, bytes, at)
    [] id = 11 -> Then(entries(MAX_DATA_SEGMENTS, Reading(DataSegment, bytes), bytes, at),
                    LAMBDA data, next :
                    Ok([m EXCEPT !.data = m.data \o data], next))
    [] id \in {4, 6, 8, 9} -> Err("Unsupported")
    [] OTHER -> Err("Malformed")

\* Mutant: a section may be repeated.
out_of_order_Repeats(id, previous) == id < previous

\* Sections but custom ones appear at most once and in the format's order.
out_of_order(id, previous) == id <= previous

Empty ==
  [types |-> <<>>, imports |-> <<>>, declared |-> <<>>, functions |-> <<>>,
   exports |-> <<>>, memory_pages |-> <<0, 0>>, data |-> <<>>]

\* One turn of the loop: a section's header, its content, and on to where
\* the header says it ends.
next_section(m, previous, bytes, at) ==
  Then(Reader_byte(bytes, at), LAMBDA id, a :
    IF id /= 0 /\ out_of_order(id, previous) THEN Err("Malformed") ELSE
  Then(Reader_usize(bytes, a), LAMBDA size, start :
    IF start + size > Len(bytes) THEN Err("Truncated") ELSE
  Then(decode_section(m, id, bytes, start), LAMBDA filled, stopped :
    Ok([module |-> filled, previous |-> IF id = 0 THEN previous ELSE id], start + size))))

\* The sections from there on: at most one for every byte.
decode_sections(bytes, at) ==
  LET after[n \in 0 .. Len(bytes)] ==
        IF n = 0 THEN Ok([module |-> Empty, previous |-> 0], at)
        ELSE Then(after[n - 1], LAMBDA sofar, next :
               IF next >= Len(bytes) THEN Ok(sofar, next)
               ELSE next_section(sofar.module, sofar.previous, bytes, next))
  IN  Then(after[Len(bytes)], LAMBDA read, next : Ok(read.module, next))

Module_decode(bytes) ==
  IF Len(bytes) > MAX_MODULE_BYTES THEN Err("TooLarge") ELSE
  Then(Reader_slice(bytes, 0, 4), LAMBDA magic, a :
    IF magic /= Magic THEN Err("NotWasm") ELSE
  Then(Reader_slice(bytes, a, 4), LAMBDA version, b :
    IF version /= Version THEN Err("UnsupportedVersion")
    ELSE decode_sections(bytes, b)))

\* The type of function `index`; imports take the low indices.
function_type_index(m, index) ==
  CASE index < Len(m.imports) -> m.imports[index + 1].type_index
    [] index - Len(m.imports) \in 0 .. Len(m.functions) - 1 ->
         m.functions[index - Len(m.imports) + 1].type_index
    [] OTHER -> Len(m.types)

has_function_type(m, index) == function_type_index(m, index) < Len(m.types)

function_type(m, index) == m.types[function_type_index(m, index) + 1]

\* Where a name is exported, and the function of its first export.
exported(m, name) == {i \in DOMAIN m.exports : m.exports[i].name = name}

export(m, name) == m.exports[Min(exported(m, name))].function_index
=============================================================================
