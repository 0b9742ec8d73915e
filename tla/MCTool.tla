------------------------------- MODULE MCTool -------------------------------
(* Modules for the tool host, put together by the little assembler of the  *)
(* tests in libs/wasm/src/lib.rs.  Names are one byte long and widths are   *)
(* scaled (see Leb); opcodes are the code's own.                            *)
EXTENDS Tool

i3ml == <<105>>
invoke == <<118>>
journal == <<106>>
approve == <<97>>
run == <<114>>

section(id, content) == <<id, Len(content)>> \o content
vector(items) == <<Len(items)>> \o FlattenSeq(items)
name(text) == <<Len(text)>> \o text

Import(from, verb) == name(from) \o name(verb) \o <<0, 0>>
Body(locals, instructions) ==
  LET content == locals \o FlattenSeq(instructions) IN <<Len(content)>> \o content

\* The sections of a tool: type 0 is () -> i32, type 1 is (i32) -> i32;
\* function 0 is the entry, function 1, the helper, takes a parameter and
\* has a local.
SectionsWith(imports, locals, instructions, helper, entry, offset) ==
  << section(1, <<2, \h60, 0, 1, \h7f, \h60, 1, \h7f, 1, \h7f>>),
     section(2, vector(imports)),
     section(3, <<2, 0, 1>>),
     section(5, <<1, 0, 1>>),
     section(7, vector(<<name(run) \o <<0, entry>>>>)),
     section(10, vector(<<Body(locals, instructions), Body(<<1, 1, \h7f>>, helper)>>)),
     section(11, <<1, 0, \h41, offset, \h0b, 1, 7>>) >>

\* A helper that hands its parameter back.
Identity == << <<\h20, 0>>, <<\h0b>> >>

Sections(imports, locals, instructions, entry, offset) ==
  SectionsWith(imports, locals, instructions, Identity, entry, offset)

Image(sections) == Magic \o Version \o FlattenSeq(sections)

Input(instructions, bytes) == [listing |-> instructions, image |-> bytes]

Assembled(imports, instructions) ==
  Input(instructions,
        Image(Sections(imports, <<1, 1, \h7f>>, instructions, Len(imports), 0)))

\* An entry function that calls the helper; the only import is function 0.
Calling(instructions, helper) ==
  Input(instructions,
        Image(SectionsWith(<<Import(i3ml, journal)>>, <<1, 1, \h7f>>, instructions, helper, 1, 0)))

-----------------------------------------------------------------------------
(* Entry functions.                                                         *)

Const(n) == <<\h41, n>>
end == <<\h0b>>
else == <<\h05>>

Simple ==
  { <<>>, <<Const(11)>>, <<Const(0)>>, << <<\h0c, 0>> >>, << <<\h0c, 1>> >>,
    << <<\h0d, 0>> >>, << <<\h10, 0>> >> }

Opened == { <<\h02, \h40>>, <<\h02, \h7f>>, <<\h03, \h40>> }

Blocks(inner) ==
  { <<opener>> \o i \o <<end>> : opener \in Opened, i \in inner }
    \cup { <<Const(c), <<\h04, \h40>>>> \o i \o <<end>> : c \in {0, 11}, i \in inner }
    \cup { <<Const(c), <<\h04, \h40>>>> \o i \o <<else>> \o j \o <<end>> :
             c \in {0, 11}, i \in inner, j \in {<<>>, <<Const(5)>>, << <<\h0c, 0>> >>} }

Nested == { b \o s : b \in Blocks(Simple), s \in {<<>>, << <<\h0c, 0>> >>, << <<\h0d, 1>> >>} }

Structured == { b \o <<end>> : b \in Blocks(Simple) \cup Blocks(Nested) }

\* One instruction of every kind, with operands and without.
Straight ==
  { << <<\h00>>, end >>, << <<\h01>>, end >>, << <<\h0f>>, end >>, << <<\h0e, 0, 0>>, end >>,
    << <<\h02, \h33>>, end >>, << <<\h02, \h40>>, Const(1) >>, << else, end >>,
    << <<\h02, \h40>>, <<\h0e, 0, 0>>, end, end >>,
    << <<\h04, \h40>>, end, end >>, << <<\h41, \h80>> >>, << Const(1) >>,
    << <<\h1a>>, end >>, << Const(1), <<\h1a>>, end >>,
    << Const(1), Const(0), Const(1), <<\h1b>>, end >>,
    << <<\h20, 0>>, end >>, << Const(3), <<\h10, 2>>, <<\h10, 2>>, <<\h22, 1>>, end >>,
    << <<\h10, 1>>, end >>, << <<\h10, 2>>, end >>, << <<\h10, 9>>, end >>,
    << Const(1), Const(2), Const(3), Const(4), end >>,
    << <<\h02, \h40>>, <<\h02, \h40>>, <<\h02, \h40>>, <<\h02, \h40>>, end, end, end, end, end >>,
    << <<\h10, 0>>, <<\h10, 1>>, end >>,
    << <<\h10, 0>>, <<\h04, \h40>>, <<\h0f>>, end, <<\h10, 1>>, end >>,
    << <<\h10, 0>>, <<\h04, \h40>>, <<\h0c, 5>>, end, <<\h10, 1>>, end >>,
    << <<\h03, \h40>>, <<\h10, 0>>, <<\h1a>>, <<\h0c, 0>>, end, end >>,
    << <<\h03, \h40>>, Const(11), <<\h02, \h40>>, <<\h10, 0>>, end, <<\h0d, 0>>, end, end >> }
    \cup { << Const(a), <<\h2d, 0, o>>, end >> : a \in {0, 3, \h7f}, o \in {0, 1} }
    \cup { << Const(a), Const(1), <<\h36, 2, 0>>, end >> : a \in {0, 1} }
    \cup { << <<\h3f, 0>>, <<\h42, \h80, \h80, 1>>, <<op>>, end >> :
             op \in {\h46, \h6a, \h6e, \h80, \h81, \ha7, \had} }
    \cup { << <<\h20, 0>>, <<\h21, 0>>, end >>, << Const(0), Const(0), <<\h6e>>, end >> }

\* Ways out of a function: branches and conditional branches past its
\* labels, from no block and from one, with a value beneath the condition and
\* with none, and the two returns.
Leaving ==
  { under \o <<Const(c), <<\h0d, 0>>>> \o rest :
      under \in {<<>>, <<Const(0)>>, << <<\h20, 0>> >>}, c \in {0, 11},
      rest \in {<<end>>, <<Const(11), end>>} }
    \cup { <<<<\h02, \h40>>>> \o under \o <<Const(11), <<\h0d, 1>>, end, end>> :
             under \in {<<>>, <<Const(0)>>} }
    \cup { << <<\h0c, 0>>, end >>, << Const(11), <<\h0c, 0>>, end >>,
           << Const(11), Const(0), <<\h0f>>, end >>, Identity }

\* Callers whose next steps depend on whether a value came back, and which.
Callers ==
  { << Const(5), <<\h10, 2>>, <<\h1a>>, end >>,
    << <<\h02, \h40>>, Const(1), Const(5), <<\h10, 2>>, <<\h0d, 0>>, <<\h1a>>, end, end >> }

-----------------------------------------------------------------------------
(* Whole modules: what the manifest asks for, sections repeated, left out   *)
(* or swapped, bytes cut off, sizes that lie.                               *)

Asks == { <<>>, <<Import(i3ml, invoke)>>, <<Import(i3ml, approve)>>,
          <<Import(i3ml, journal), Import(i3ml, invoke)>>,
          <<Import(i3ml, journal), Import(i3ml, journal), Import(i3ml, journal)>>,
          <<Import(run, invoke)>>, <<Import(i3ml, run)>> }

HostLoop == << <<\h10, 0>>, <<\h1a>>, <<\h10, 0>>, end >>

Plain(locals, entry, offset) ==
  Sections(<<Import(i3ml, journal)>>, locals, HostLoop, entry, offset)

Reordered ==
  LET s == Plain(<<0>>, 1, 0) IN
  { Image(SubSeq(s, 1, i) \o SubSeq(s, i, Len(s))) : i \in DOMAIN s }
    \cup { Image(SubSeq(s, 1, i - 1) \o SubSeq(s, i + 1, Len(s))) : i \in DOMAIN s }
    \cup { Image(<<section(0, <<1>>)>> \o s), Image(Append(s, section(4, <<0>>))) }

Cut == LET whole == Image(Plain(<<0>>, 1, 0)) IN
       { SubSeq(whole, 1, n) : n \in 0 .. Len(whole) }

Declaring ==
  { Image(Plain(locals, 1, 0)) :
      locals \in { <<2, 1, \h7f, 1, \h7e>>, <<1, 1, \h7f>>, <<1, 1, \h7c>>, <<1, 1, 0>>,
                   <<9, 0, \h7f>> } }
    \cup { Image(Plain(<<0>>, entry, 0)) : entry \in {0, 2, 9} }
    \cup { Image(Plain(<<0>>, 1, offset)) : offset \in {3, 4, \h7f} }

\* Not modules at all: bytes around the boundaries of a group and a word.
Encodings == SeqOf({0, 1, 15, 16, 64, 127, 128, 143, 255}, 4)

MCInputs ==
  { Assembled(<<Import(i3ml, journal)>>, l) : l \in Structured \cup Straight }
    \cup { Assembled(<<Import(i3ml, journal)>>, l) : l \in Leaving }
    \cup { Calling(caller, helper) : caller \in Callers, helper \in Leaving }
    \cup { Assembled(asks, HostLoop) : asks \in Asks }
    \cup { Input(HostLoop, bytes) : bytes \in Reordered \cup Cut \cup Declaring \cup Encodings }
=============================================================================
