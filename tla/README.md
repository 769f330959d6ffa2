# libcper in TLA+

libcper converts UEFI CPER error records between their binary form and a JSON
representation (the *IR*), validates the JSON against a JSON schema, and
generates pseudo-random records for its tests. This directory holds TLA+ models
of that code, the TLC configurations that check them on small instances, and
proofs, checked by TLAPS, that the most important properties hold for every
size.

All of libcper is sequential code on streams and trees in memory. What is hard
about it is not interleaving but *partial failure* (one section of several
cannot be read, one option of a schema cannot be evaluated), *positions* (offsets
that are summed in one place and used in another, a stream that has to be put
back), *stale layout data* (an IR that carries offsets, counts and lengths of the
record it came from) and *boundaries* (empty sections, padding, truncated
streams). The properties are about these.

## The system

```
            bytes                       IR (JSON)                      bytes
 cper-generate ──► cper-parse.c ──► cper-convert / schema ──► ir-parse.c ──►
  (generator/)     reader            (json-schema.c)          writer
                     │  sections/cper-section.c: the table of converters │
                     │  sections/*.c: one converter pair per section type│
                     └─ base64.c for a section of unknown type ──────────┘
```

| Component | State it keeps | Operations | What makes it correct |
|---|---|---|---|
| reader, `cper-parse.c` | stream position, loop counter, two JSON arrays | `cper_to_ir`, `cper_single_section_to_ir`, `cper_section_to_ir`, string wrappers | each descriptor is the one in its slot, each section what its descriptor describes, both arrays as long as the header says, all or nothing |
| writer, `ir-parse.c` | output position, descriptor array | `ir_to_cper`, `ir_single_section_to_cper`, `ir_section_to_cper` | table where a reader looks, sections where their descriptors say |
| base64, `base64.c` | cursors into two buffers, padding count | encode, decode | buffers not exceeded, decode inverts encode, RFC 4648 |
| validator, `json-schema.c` | working directory of the process, result | `validate_schema_from_file`, `validate_schema`, `validate_field` and one function per type | accepts what satisfies the schema and nothing else, directory restored |
| generator, `generator/` | arrays of sections, lengths and descriptors, running sums | `generate_cper_record`, `generate_single_section_record` | offsets, record length and output agree |
| dispatch table, `sections/cper-section.c` | constant table | first match of a GUID | the same converter both ways |
| section converters, `sections/*.c` | cursor into the section | one pair of functions per type | what is written is what was read |
| field helpers, `cper-utils.c`, `common-utils.c` | none | bit fields, readable pairs, timestamps, BCD, GUID strings | the inverse recovers the field |
| `cper-convert` | arguments, open files | read, validate, convert, write | a file that is refused leaves the output alone, a record comes back as it was |
| `cper-generate` | arguments | generate into a file | (not modelled) |

Components call each other directly. They share three things: the stream (its
position is the reader's main state), the IR (built by the reader, edited by
anyone, consumed by the writer) and the working directory (moved by the
validator). `cper-convert` is where they all meet.

## Modules

| Module | Models | State and actions |
|---|---|---|
| `CStream` | stdio streams (external) | `SeekTo`, `CanRead`, `PosAfterRead`: what `fseek` and `fread` do on files and on `fmemopen` buffers |
| `CperLayout` | `edk/Cper.h` | sizes, descriptor fields, `SlotIn`, `Contiguous` |
| `CperRecord` | streams as inputs | `Input`: a stream of `size` bytes in which position `p` decodes to descriptor `at[p]`, wherever `p` is; the converter table and what a section may become |
| `CperReader` | what the reader promises | one step: `Reject`, or `Answer` with the IR of the record; `AnyResult` for records with a section that cannot be read, about which nothing is promised |
| `CperParse` | `cper-parse.c` | one action per trip to the stream: header (too short, not CPER, read), descriptor (too short, read), section (unreadable, read), return |
| `IrToCper` | `ir-parse.c` | one action per `fwrite`, the comparison of the arrays' lengths, the crash on a null section, the section left out when `base64_decode` fails (`undecoded`); the length of decoded data by the arithmetic of `base64.c` |
| `CperConvert` | `cli-app/cper-convert.c` around reader and writer | instantiates `CperParse`, extends `IrToCper`; its own actions are what lies between their calls: write and read the JSON file, validate, open the output, which of the two writers is called, close, and every early return |
| `CperGenerate` | `generator/cper-generate.c` | one action per iteration of each of its five loops, the error returns, the null dereference |
| `Base64` | `base64.c` | one action per block encoded and per character decoded |
| `SectionParts` | what the converters and generators below share | a section as the sequence of its parts, `Laid` one behind the other; `ReadAt`: the structure a cursor points at, or any other if it points elsewhere |
| `ArmSection`, `Ia32x64Section` | `sections/cper-section-arm.c`, `-ia32x64.c` | one action per iteration of the loops over structures and contexts, both ways, and per allocation failure, the crashes among them |
| `ArmGenerator`, `Ia32x64Generator` | `generator/sections/gen-section-arm.c`, `-ia32x64.c` | one action per stage: structures drawn, random bytes, header set, reserved bits cleared, structures copied in |
| `FieldCodecs` | what all fields are made of: `cper-utils.c`, `common-utils.c`, `gen-utils.c` | operators: bit fields, BCD, texts in arrays, base64 texts, data of a length the structure gives, the generic error status |
| `RecordFields` | `cper_header_to_ir`, `cper_section_descriptor_to_ir` and their inverses, timestamps | one action per structure and direction |
| `MemorySections`, `PlatformSections`, `PciSections`, `DmarSections`, `CxlSections` | the other converters in `sections/` and their generators: memory (both), generic, firmware and NVIDIA, PCIe, PCI bus and device, DMAr (all three), CCIX, CXL protocol and component | one operator per function, named like it, from structure to IR or back; for each structure also when it is *plain*: nothing in it that the IR has no place for |
| `SectionCodec` | `sections/cper-section.c`, `generator/sections/gen-section.c` | picks the three functions of a section's kind: generate, to IR, to CPER, each text with or without memory for it; the crash on a text that is not looked at (`CrashOnNull`) |
| `Codecs` | the same for every kind of structure | extends `SectionCodec` and instantiates `RecordFields` and the two processor sections, each with its generator |
| `SchemaCall` | `json-schema.c`, a call | one action per step that can fail (load, version, `getcwd`, `chdir`, validate, `chdir` back); `refused` remembers what the system refused; what `validate_field` answers is the parameter `Validation` |
| `JsonSchema` | `json-schema.c`, the validation | `validate_field` and the functions it calls, recursive as they are (`Validated`, a function over all schemas and documents; `Validation` is its value), and what a schema means: as it is written (`Meets`), and with its bounds as the validator reads them (`MeetsAsRead`) |
| `MC...` | | the instances of a run |
| `...Proofs` | | inductive invariants and theorems |

Abstractions. The bytes of a section are the extent of the stream they were
read from; a section in the IR is how it was converted (`codec`, `base64`,
`nodata` when the encoder ran out of memory, `null` when it was not read) and
that extent. In reader and writer a descriptor is its offset, length and type;
its other fields, and the header's, are in `RecordFields`. In `at`, bytes that
are *not* a slot of the table decode to some descriptor too: this is what makes
a lost stream position visible. `malloc` of the section buffer succeeds (its failure is
read into by the code and has no defined outcome); `malloc` in `base64.c` may
fail.

Inside an ARM section, bits are grouped by what becomes of them: the fields
every kind of error information has, those of one kind only, and reserved bits.
A structure *holds* a group if a bit of it is set, and a converter passes on the
groups it has names for. IA32/x64 validation bits and check information are sets
of bits, in the converter and in the masks of its generator, which are applied
to any random bits. Two more things have no place in the IR and are kept apart
for that: the last 16 bytes of `CpuIdInfo` behind its four 64-bit registers
(`reserved`), and `Resv1` of X64 registers (`resv1`). Other members that are
copied as they are, and the values of register arrays, are left out. Sections
*given* to a converter have counts that agree with the structures in them;
sections that the generator makes have whatever counts its stores leave, on a
little-endian machine.

In the other sections a structure is a record of its fields, with the source's
names, and so is the IR. What is passed on as it is (a number, a GUID, an array)
is one value; a bit field is the set of its bits, a text its length, and a
number that the code takes apart (a bank, a class code, a version) the sequence
of its parts. A base64 text stands for the bytes in it, as `Base64` shows. What
lies behind a section and is read all the same is the value `Beyond`; a text
without its zero byte may go on for one character or end at once. A count kept
in an `int` is one of `IntBits` bits, and counts nothing when it is negative.
`memory` remembers whether an allocation has failed. `base64_encode` and
`base64_decode` have set the length by the time their `malloc` fails, so the two
converters that do not look at the pointer take that many bytes from a null one:
`cper-section-dmar-vtd.c:87` with the root entry's text, and
`cper-section-arm.c` with the decoded vendor information. Both end in
`crashed`. `EFI_...(d)` says that `d`
has the members of the C type of that name, the numbers the code takes apart as
sequences of as many parts; every structure given or drawn is of its type.

## Runs

| Run | Question | Result |
|---|---|---|
| `Parse` | what does an IR read from any file still say, and does the reader keep its promise when its sections can be read? | `ArraysInStep`, `SectionsAsDescribed` and `DescriptorsFromTableUntilFailure` hold; implements `CperReader`, liveness included |
| `ParseAfterFailure` | are descriptors always the table's? | **no**: a failed section leaves the stream where it failed |
| `ParseBuffers` | are sections what their descriptors describe, in buffers too? | **no**: a refused seek goes unnoticed |
| `Generate` | do offsets, record length and output agree? | yes |
| `Convert` | does `cper-convert` bring a record back, which IRs come out where their descriptors say, and what happens to the output when something is refused? | of contiguous records the descriptors come back, and each section where it was and as long as it was (`RoundTrip`); IRs with the layout of `PresumedLayout` come out as described, a refused file leaves the output alone, and the program ends |
| `Base64` | are both functions RFC 4648's, and do they keep to their buffers? | yes |
| `Codecs` | do header and descriptor come back, do all sections, given ones and whatever a generator makes, and does the IR settle after one trip? Does the walk of a processor section find its structures and write them where it read them? What is lost with a text that gets no memory? | plain and generated ones come back field by field, everything settles, and where the converter survives a text without memory nothing but the text is lost |
| `ArmErrorTypes` | does an ARM error information structure keep its type? | **no**: it is read back under a key nothing writes |
| `ArmGenerated` | does a generated ARM section have the error information it must have? | **no**: the mask for reserved bits clears the counts |
| `MemoryBank` | does `bankValid` select the form of a memory error's bank, as the specification says? | **no**: the code tests the bit of `moduleValid`, both ways |
| `Schema` | is the validator right without `$ref`, is a rejection always justified, is the directory restored? | yes, if a directory is given and bounds count as they are read; without a directory everything is refused |
| `SchemaRefs` | is what it accepts valid, with the schema of `specification/`? | **no**: every object is accepted |

Each of the six negative answers is a finding in `PROJECT.json`, with the line of
the code and the comment it disagrees with.

One more disagreement with a comment is stated by the two properties of `Schema`
themselves. `json-schema.c:67` calls a NULL directory valid for schemas without
`"$ref"`; the code then calls `chdir(NULL)`, which fails, and returns 0.
`AgreesWithoutRefs` says so of just these schemas: the answer is 1 exactly if the
call was `Admitted` (a schema, of the version, a directory, nothing refused by
the system) and the document satisfies the schema. The run makes such calls.

Bounds are read as unsigned numbers and with the limits of an `int`. What a
bound then means is `WithinAsRead`: a value below 0 counts as 0, a bound above
`IntMax` as `IntMax`, no value reaches a minimum below 0, and none exceeds a
maximum below 0. `AgreesWithoutRefs` and `RejectionsSound` compare with that
meaning (`ValidAsRead`), so they hold for negative and for cut-off bounds and
pin down how far the validator is from JSON Schema there; the one premise on
numbers is that no value is so large that a negative bound, read as unsigned,
is not above it (`Ordinary`).

Bounds of the instances. Sizes are scaled down (a header of 2 to 5 bytes,
descriptors of 2, sections of 0 to 4, in `Convert` streams of at most 14): the
code only adds and compares them, so what matters is which of two sums is
larger, and the instances contain streams that end inside every structure,
offsets inside the table, after it and outside the stream, and records that
start at position 0 and behind other bytes. Three sections are the least for a
failure in the middle to have a section before and one after it; the proofs
cover all numbers. `Base64` has data of up to five bytes (every remainder, with
and without a whole block before) and texts of up to five characters with
misplaced padding, plus two blocks of digits and padding. `Codecs` has headers
and descriptors with every combination of validation bits, zeros and distinct
values in every field, and timestamp bytes that are decimal, not decimal and of
three digits. Its sections have up to two structures and two contexts: a wrong
step of the cursor shows at the second of either, and each structure has a size
of its own, so that no two errors cancel; bits without a place are set in some
of them, and in most that a generator draws; it covers register arrays with a
structure, without one and of another size than theirs, with and without vendor
information. Sections of the other kinds have every field zero or a value that
no other field has (so that two fields exchanged do not go unnoticed), reserved
bits set or clear, validation bits at both ends of the named ones and just
above, data behind them that is shorter than announced, as long, or longer, and
counts that wrap (`IntBits` is 4). `JsonSchema` has fourteen schemas that
combine the keywords at a depth of two, the shape of `specification/json` among
them, and documents that differ in what the schemas look at; `Modulus` stands
for 2^64, `IntMax` (4) for INT_MAX, with a bound and values above it, and bounds
below 0. Calls are made with a directory and without one. `Schemas` and
`Documents` are these with everything inside them.

Fairness. Each call is a single thread that waits for nobody: `WF(Step)` says
that it takes its next step until it returns. It is used for `ImplementsReader`
(the call answers) and `TripEnds`. A stream that blocks is not modelled, as
files and buffers do not.

Deadlock is checked in every run; a call that has returned stutters in an
action of its own (`Returned`, `Ended`, `Over`, `Converted`, `Stopped`).

## Proofs

| Module | Proves, for every value of the constants |
|---|---|
| `CperParseProofs` | what an IR read from any stream says, and that the reader implements the safety part of `CperReader` |
| `CperConvertProofs` | where the writer puts table and sections, for every IR; that a record comes back from `cper-convert`, and what a refusal leaves alone |
| `CperGenerateProofs` | offsets, record length and output of the generator agree |
| `Base64Proofs` | buffers hold, decoding inverts encoding, both agree with RFC 4648 |
| `JsonSchemaProofs` | where a call of the validator leaves the process, what it returns, and that it rejects and accepts rightly |
| `SectionProofs`, `CodecsProofs` | header, descriptor and the fourteen section types of `SectionCodec` come back, settle, and lose nothing but texts without memory |
| `SectionPartsProofs`, `CodecsProofs` | the processor sections, with any number of structures: the walk finds each of them, and what is written is what was read |

`CperParseProofs`. For every stream, sizes of header and descriptor, table and
number of sections. The types and `ArraysInStep` need one invariant: at the top
of the loop both arrays have `i` entries, inside it the descriptors one more.
That descriptors are the table's until the first failure needs the position:
`pos` is slot `i + 1` *as long as no section failed*, which is the inductive
form of what `ParseAfterFailure` shows to break. `SectionsAsDescribed` is proved
for files, with the assumption that the stream is one; for buffers it is false.
`ParseRefinesReader` (`Spec => ReaderSafety`) maps each step to an action of
`CperReader` or a stutter: its invariant says that the arrays are the first `i`
entries of the IR that `CperReader` defines from the stream alone. Two more
facts hold after a failure too: an entry that is not null was read with the
length and converted by the type of its own descriptor (`Converted`), and a
record that is in the stream from its header to its last section is not refused
(`WholeAccepted`).

`CperConvertProofs`, the writer. It never looks at an offset: it writes one structure
behind the other. That the table is where a reader looks follows from counting
what was written; that sections are where their descriptors say needs the layout
of the IR (`PresumedLayout`), and then the invariant that the output ends where
the descriptors of what was written so far say.

`CperConvertProofs`, the trip. Its invariant carries the reader's and the
writer's own from one to the other: the JSON file holds the IR that the reader
answered with, so the IR that the writer starts from has as many descriptors as
sections, lengths and types that agree, and, from streams without gaps, the
presumed layout. How long decoded data is comes from the arithmetic of
`base64.c`; that it is what was encoded is `DecodedAsLong`. `RoundTrip`
concludes that a reader of the output file finds the descriptors of the input
and each section where, and as long as, it was written. Its hypothesis
`InputsLaidOut` (the streams have their sections behind the table and without
gaps, as the code's own generator writes them) is a premise of those two
theorems only, and TLC evaluates it for the run's inputs. `ResidueAssumption`
says that positions which are no slot decode to descriptors too, with natural
numbers for offset and length.

`CperGenerateProofs`. The generator computes the same positions three times: as
offsets (a sum that starts anew for each descriptor), as the record length and
as what it has written. The invariant expresses all three by one recursive
function of the lengths, so that each loop only has to be shown to take the next
step of that sum.

`Base64Proofs`. For data of every length. The invariant describes the text
written so far block by block (block *m* is made of bytes 3*m*+1 to 3*m*+3), and
the decoder's output as a prefix of the data; the arithmetic lemmas say that four
digits made of three bytes give the three bytes back. `BuffersHold` follows from
the same invariant for texts that nobody encoded as well. The reference counts
bits where the code shifts and masks; a second invariant, `RefInv`, says what
the decoder has made of *any* text block by block and that the padding it counted
is the one at the end of a well-formed text, and the lemmas `RefChars` and
`RefBytes` take both sides of one block apart into the same 24 bits.

`SectionProofs` and `CodecsProofs`. For structures with any values in their
fields, data of any length behind them, counts up to and beyond what an `int`
holds, and every choice of texts that get no memory. For each section type there
are three lemmas about the operators alone: *inverse* (a plain structure is
written from its IR as it was; with texts lost that the converter survives, all
but their arrays), *settles*
(what is written from any IR is read as that IR) and *drawn* (what the generator
makes of any bytes is of its type, and plain). `SectionInverse`,
`SectionSettles`, `SectionDrawn` and `SectionContained` collect them by kind. The
inductive invariant of `CodecsProofs` is then short: the IR is that of the
section, and the output that of the IR. What makes it more than a restatement is
what has to be carried along: that the section is of its type and, if generated,
plain. The numbers need `PowersAssumption` (an `int` has 2^`IntBits` values,
half of them negative; the provers do not know powers) and `StartsAssumption`
(what is given or drawn is of its C type, and what a generator announces can be
counted in an `int`), which TLC evaluates for the run's structures.

`SectionPartsProofs` and `CodecsProofs`, the processor sections. For any number
of error information structures and contexts, any register types, array sizes
and vendor information, any structure sizes, and whatever other bytes would
decode to. The converter knows only a position and the sizes it adds to it. The
lemmas of `SectionPartsProofs` say what it meets: parts that lie one behind the
other and are not empty start in different places (`StartsOrdered`), so a
structure read where one starts is that one (`ReadWhereItStarts`); behind *m*
information structures, or *m* contexts with their arrays, the position is the
start of the next (`InfoWalk`, `ContextWalk`), and behind all of them the walk is
at the vendor information or the end (`WalkEnd`); what is `Laid` behind a header
that counts it is such a section. `StartsOrdered` and `Laid` need induction.
That numbers have induction is proved first (`LeastNumber`, from the
well-foundedness of inclusion between finite sets), for sets of numbers and not
for predicates, which is the form the provers take.

The inductive invariants `ArmInv` and `X64Inv` say, phase by phase, how much of
the section the IR stands for (its first *n* entries are those of the first *n*
structures, and the position is where the next one starts) and how much of it
the output stands for: for ARM, structures of the same kinds, sizes and places
(`ArmLayoutKept`), because types and registers are not kept; for IA32/x64, the
beginning of the section itself (`X64BinaryEqual`). Each half is conditional on
what it needs: the counts agree, nothing was left out, arrays have the size of
their structure; and the equality on there being no bit without a place
(`AllNamed`). Without those conditions the walk strays, and the
invariant says so by claiming nothing. For generated IA32/x64 sections it also says
that the header's counts are the sums `OrCount` of cleared bits and the numbers
drawn, so that what is copied behind the header is what it counts, and
`X64GeneratedWellFormed` follows from the masks: whatever bits are drawn, those
left have a place in the IR.

`JsonSchemaProofs`. For all sets of schemas and documents. Where a call leaves
the process holds whatever `validate_field` answers: `CwdRestored` needs to be
known on the way that `original_cwd` is the directory of the caller and that
every early return happens before the process has moved; the same invariant
gives `AnsweredInPlace`: relative `"$ref"`s are opened in the schemas'
directory, and what the validation answers survives a refused `chdir` back.

What it answers is a recursion over the schema, and so is what a schema means.
The provers know a recursive function as *some* solution of its equation, if
there is one: `RecursionSolved` shows there is, for any recursion on a depth,
from the solutions up to each depth. (The library's induction takes operators,
so `DepthInduction` states it for sets, on the least number of a set, from
`SectionPartsProofs`.) By induction on the depth of the schema, each reason to
answer 0 is one for the document not to satisfy it, with its bounds as they are
read (`RejectionsSound`), or the validation is not come to at all; and where
nothing refers and every part states its type, no -1 arises and what is accepted
satisfies the schema (`AgreesWithoutRefs`). The call adds that before the
validation every return leaves a 0 behind, and that each of them is one that
`Admitted` names. For the schemas of `specification/` the second condition
fails, which is what `SchemaRefs` shows. The assumption is that schemas and
documents are finite trees and that no chain of `"$ref"`s comes back to where it
began, as in `specification/json`: the validator would not mind, as it follows
none, but such a schema has no meaning to compare with.

What is proved assumes the named `ASSUME`s (sizes are positive, tables and
inputs of the right type), which TLC evaluates on every run; each inductive
invariant was checked by TLC on the instance of its run before it was proved.

Only model-checked: liveness (the fairness part of `ImplementsReader`, and
`TripEnds`), which the provers do not reach. Every other property of a passing
run is the statement of a theorem.

## What the generators hide

`GeneratedSectionsKept` holds because the generators' masks clear every bit that
the converters drop. Four clear bits that have a name as well, so that no test
converts one of them: `gen-section-memory.c` (validation bit 20, where the
comment says "22-63"), `gen-section-dmar.c` (type and address type of a VT-d
fault record, for "very last bit"), `gen-section-cxl-protocol.c` (validation bit
6) and `gen-section-generic.c` (validation bit 12 and flag 3). `Codecs`
therefore has sections that are *given* as well, with those bits set. NVIDIA
sections are left out of `GeneratedSectionsKept`: their generator leaves the
number of registers random and makes none, and what the converter reads behind
the section has no defined value; they are among the given ones.

## Not modelled

- `sections/cper-section-ipf.c`: never called, as the table lists IPF without
  converters. Such a section takes the base64 path, which is modelled.
- `cper-generate-cli.c`: arguments around one call of the generator. The number
  of section names is kept in 16 bits (`:39`); a call with 65536 of them is
  listed as a hazard without a property.
- Wording of names and descriptions in readable pairs, GUID strings, log and
  error messages: only values are read back from the IR.
- A failed `malloc` of the section buffer (`cper-parse.c:332`), a section so
  short that its *structure* goes beyond its buffer, and the length computation
  of `base64.c:28` above 1.6 GB: what the code does then is undefined.
- `specification/document`: read for what it claims, as in `MemoryBank`.
- The tests: read for what they claim, such as binary equality.
