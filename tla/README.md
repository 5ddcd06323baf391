# TLA+ specifications of libpsyc

libpsyc parses and renders packets of the PSYC protocol. Its heart is a parser that takes
a packet in whatever pieces the network delivers and that keeps, between two calls, only
a few counters. Beside it are parsers of the same kind for what values may hold - lists,
dicts, indexes, updates -, a renderer, templates, and functions on keywords, numbers and
addresses. These modules model all of them, and the program that turns a byte stream into
packets and back.

## The system

| Component | Source | State it keeps | Operations |
|---|---|---|---|
| packet parser | `src/parse.c` 220-559, `include/psyc/parse.h` | `PsycParseState`: buffer, cursor, startc, part, flags, five lengths, two found-flags | `psyc_parse_state_init`, `psyc_parse_buffer_set`, `psyc_parse` |
| list, dict, index, update parsers | `src/parse.c` 560-1216 | their own cursor, part, element length | `psyc_parse_list`, `_dict`, `_index`, `_update` |
| value parsers | `parse.h` 690-880 | none | `psyc_parse_int`, `_uint`, `_list_index`, `_keyword` |
| packet structures | `src/packet.c`, `packet.h` | `PsycPacket`, `PsycModifier`, `PsycElem`, ... with lengths and flags | `*_init`, `*_length_check`, `*_length_set`, `psyc_packet_id` |
| renderer | `src/render.c`, `src/itoa.c` | none; a buffer of the caller | `psyc_render`, `psyc_render_list`, `psyc_render_dict` |
| text templates | `src/text.c` | `PsycTextState`: template cursor, output buffer, bytes written | `psyc_text`, `psyc_text_buffer_set` |
| keywords | `src/match.c`, `src/variable.c`, `method.h` | constant tables | `psyc_inherits`, `psyc_matches`, `psyc_map_lookup`, `psyc_var_*` |
| uniforms | `src/uniform.c` | `PsycUniform`, slices of the text | `psyc_uniform_parse` |
| receiver | `test/test_psyc.c` | one parser and one packet per connection, `contbytes` | `test_init`, `test_input` |
| server | `test/test.c` | the set of sockets, one receive buffer | `test_server`, `test_file` |
| bindings | `rust/`, `d/`, `perl/`, `pike/`, `python/` | Rust: the C state and borrowed buffers | wrappers around the C functions |

How they interact. Everything is synchronous calls in one thread. A program hands the
parser a buffer (no copy is made), calls `psyc_parse` until it says that the buffer is
used up, and reads from the out parameters `oper`, `name` and `value`, which point into
the buffer. On `PSYC_PARSE_INSUFFICIENT` it must keep the bytes from the cursor on and
put them before the next ones; on the four codes of an incomplete value it must not.
Rendering is the other direction: the structures are filled, their lengths computed in
one function, and the bytes written in another that relies on those lengths. The two
halves share no code: only the syntax keeps them together, including the decision, made
when a packet is built, whether its body can do without a length.

What is hard here. A packet may be cut anywhere, several times, and each block of
`psyc_parse` can be the one that resumes. The counters outlive calls, elements and
packets, and three of them are used for two purposes. The length of the data is not read
but computed, from the declared length and a count that many calls have added to. Every
read is guarded only by where the cursor was moved last. And the caller holds state of its
own across the same boundaries: a modifier whose parts come from different buffers, an
operator left over from an earlier result, a packet reused for the next.

What makes each part correct:

* parser: no byte outside the buffer is read; the counters never go below zero; a value is
  reported complete when all its bytes were, and not before; an incomplete one has used the
  whole buffer; the loop of calls ends.
* renderer and packets: the length computed is the length written; what is written can be
  read back; the renderer refuses what is not a packet.
* both together: a channel of packets. What was built and rendered is what is assembled,
  whole, once, in order, however the bytes are cut.
* receiver: it survives all rendered packets, keeps no more than a part of one element, and
  renders back the bytes it was sent.
* list, dict, index, update: as for the parser, each with its own resumption; the pieces of
  an element in order, keys and values in turns, and what was written read back.
* text: no write outside the output buffer, no copy from outside the template, and the same
  text whatever the sizes of the buffers.
* keywords, tables, numbers and uniforms: pure functions that agree with their definition.
* server: connections do not affect each other.

## The modules

| Module | Contents |
|---|---|
| `PsycSyntax` | the bytes and the character classes of `parse.h`; the parser flags |
| `PsycCursor` | what all incremental parsers share: buffer, cursor, scans, return, rewind |
| `PsycParse` | `psyc_parse`: variables, one action per block, the properties of the parser alone |
| `PsycAnyCaller` | `PsycParse` under a caller that may do anything |
| `PsycParseProofs`, `PsycAnyCallerProofs` | every block of `psyc_parse` keeps `ParserInvariant`; theorems about `PsycAnyCaller` |
| `PsycPacket` | packets, their lengths and the bytes they render to (operators) |
| `PsycElem` | lists, dicts and packet ids: lengths and rendered bytes (operators) |
| `PsycRender` | how a program builds a packet, list or dict and renders it |
| `PsycReceiver` | `test_input` on one connection, with a sender and a network that cuts bytes |
| `PsycRoundTrip` | which packets the code carries, and `RoundTrip`, the inductive invariant of `PsycReceiver` |
| `PsycRoundTripProofs`, `PsycReceiverProofs` | the proof of `RoundTrip`, in two halves; theorems about `PsycReceiver` and, at the end, `PsycServer` |
| `PsycServer` | `test_server`: connections that come, take turns and hang up, over `PsycReceiver` |
| `PsycChannel` | the abstract specification: a channel of whole packets |
| `PsycElemParse` | fields, macros and blocks that the four parsers of structured values share |
| `PsycList`, `PsycDict`, `PsycUpdate` | `psyc_parse_list`; `psyc_parse_dict`; `psyc_parse_index` and `psyc_parse_update` |
| `PsycElemCallers` | the four parsers under any caller and under a reader; their properties |
| `PsycElemProofs` | theorems about `PsycElemCallers`: types and bounds; the order of pieces |
| `PsycText` | `psyc_text` and a caller that goes on with new buffers |
| `PsycTextProofs` | theorems about `PsycText` |
| `PsycKeyword` | `match.c`, and `variable.c` with its tables (operators) |
| `PsycValue` | `psyc_parse_int`, `_uint`, `_list_index`, `_keyword` (operators) |
| `PsycUniform` | `psyc_uniform_parse` (operators) |
| `PsycCalls` | a program that calls the functions of the last three, or renders; their properties |
| `PsycPacketProofs` | induction over numbers, folds, concatenation, recursive functions; lemmas about `PsycPacket` |
| `PsycCallsProofs` | theorems about `PsycCalls` |
| `MC_AnyCaller`, `MC_Receiver`, `MC_Server`, `MC_Elems`, `MC_Text`, `MC_Calls` with `MC_Render` | instances for TLC |

How they are composed:

* `PsycAnyCaller` and `PsycReceiver` both extend `PsycParse` and supply the steps of the
  caller. `PsycReceiver` also extends `PsycPacket` and instantiates `PsycChannel` with the
  packets sent and delivered. `PsycServer` extends `PsycReceiver`, whose variables are then
  those of the connection at hand.
* `PsycElemCallers` extends `PsycList`, `PsycDict` and `PsycUpdate`, which extend
  `PsycElemParse` and that `PsycCursor`, as `PsycParse` does. `MC_Elems` joins it with
  `PsycElem`: what the readers read is what `psyc_render_list` and `psyc_render_dict` write.
* `PsycRender` extends `PsycElem` and that `PsycPacket`.
* `PsycCalls` extends `PsycKeyword`, `PsycValue`, `PsycUniform` and `PsycRender`.
* Of the modules with theorems, `PsycAnyCallerProofs` and `PsycRoundTripProofs` both extend
  `PsycParseProofs`: the invariant of the parser is proved once, and for both callers.
  `PsycRoundTripProofs`, `PsycCallsProofs` and `PsycTextProofs` extend `PsycPacketProofs`, the
  last for its folds only. `PsycReceiverProofs` extends `PsycRoundTripProofs` and `PsycServer`.

A definition `D_Variant` is `D` with a plausible mistake, a guard dropped or a reset
forgotten. Each property is checked to fail when one of them takes the place of `D`.

### The parser

`PsycParseState` keeps its fields' names; `buffer` is a variable of its own. A byte is
a string that names it, a buffer a sequence of bytes, a position the code's 0-based
cursor (`At(i)` is `buffer.data[i]`). Bytes that no predicate of the code tells apart
share a representative: two letters, `_`, the digits, and `.` for bytes with no role.

A call runs from `pc = "idle"` to `pc = "returned"`. `Call` is the entry, and each block
of the `switch` is one or a few actions between which the code falls through, jumps or
calls:

| Code | Actions |
|---|---|
| entry, `PSYC_PART_RESET` | `Call` |
| `PSYC_PART_ROUTING` | `Routing` |
| `psyc_parse_modifier` | `ModifierName`, `ModifierSimple`, `ModifierBinary`, `ModifierDigit`, `ModifierValue` |
| `PSYC_PART_LENGTH` | `LengthStart`, `LengthDigit`, `ContentStart`, `NoContent` |
| `PSYC_PART_CONTENT` | `ResumeValue`, `Content` |
| `PSYC_PART_METHOD` | `Method` |
| `PSYC_PART_DATA` | `DataCounted`, `DataSearch` |
| `PSYC_PART_END` | `PacketEnd` |

A loop over bytes whose body only advances (`parse_keyword`, a simple value, the search
for the terminator) is one action that picks the position where it stops; `ScanStops`
and `SearchStops` determine that position. The loops over digits compute, and take one
step a digit. `ADVANCE_CURSOR_OR_RETURN` at the end of the buffer is `Rewound`: the
cursor goes back to `startc`. Sizes are computed modulo `SIZE_MOD` where the code
subtracts or multiplies what a packet declares. Pointers into the buffer become the bytes
they point at, at the time they are returned. When the operator is the last byte of a
buffer, `name` is left as it was; a scan that finds no end has already set it.

`PsycAnyCaller` adds `SetBuffer` (any buffer, between any two calls) and `TakeResult`. It
is what a binding may do to the parser, which includes what no careful program does:
dropping bytes, or going on after an error.

### Packets, lists and dicts, and rendering

A `PsycPacket` is a record with the fields of the struct. `psyc_packet_length_check`,
`psyc_packet_length_set`, `psyc_modifier_length` and `psyc_render` keep their names and
branches; `psyc_render` is split into its result (`psyc_render_rc`) and its bytes
(`RenderedBytes`), and the buffer's contents after an error are left out: no caller uses
them. The thresholds (`MODIFIER_`, `CONTENT_` and `ELEM_SIZE_THRESHOLD`) are constants, in
the code 9, in the instances 2 and 3, so that packets and lists of a few bytes lie on both
sides.

`PsycElem` does the same for `psyc_elem_length_check`, `psyc_elem_length`,
`psyc_dict_key_length`, the two `length_set` and `init` functions, `psyc_packet_id`, and
`psyc_render_elem`, `_dict_key`, `_list` and `_dict`. `PsycRender` builds one thing (`Build`,
`BuildRaw`, `BuildList`, `BuildId`, `BuildDict`), may give a list or dict a default type
and compute its length again (`SetType`), and renders it.

### The receiver

`Send` renders the next packet of a workload and puts its bytes on the wire. `Recv` takes
up to `RECV_BUF_SIZE` of them, any number the network chooses, behind the bytes kept, and
sets the parser's buffer. Then `Parse` (a step of `psyc_parse`) and one `Handle...` action
per group of `case` labels of `test_input` alternate. A handler is the whole way through
the loop body: the switch, the copies of `oper`, `name` and `value`, and their clearing.

`packet` holds the complete modifiers. `slot` is the array element after them, into which
an entity modifier is put together; `mod` is the local pointer, which survives from one
result to the next. `oper` is cleared only where the code does so. The program is run in
its server mode, which goes on after a packet.

Left out of `test_input`: printing, the choice between `write` and `send` and their
failure, `no_render`, and the inner loops over values of type list and dict (the names of
the modelled packets have no type that starts them). The asserts on the number of header
lines and on `CONT_BUF_SIZE` are not modelled: the instances stay far below those limits.

### The server

`PsycServer` is the `select` loop of `test/test.c`. What the code keeps in arrays by
descriptor is in `saved`, but for the connection at hand; `Turn` changes which one that is.
`Accept` takes the lowest free descriptor, as `accept` does, and calls `test_init`; `HangUp`
is the end of a connection, after which the arrays stay as they are until the descriptor
is used again. `Input` is a step of `test_input`. Since `contbytes` and the bytes in front of
the receive buffer are global, `owner` says whose they are: when they are put before
another connection's bytes, the step is `InputMixed` and the model ends there. A `Turn`
needs no order of descriptors: which of them can be read in a round is up to the network.

### Lists, dicts, indexes and updates

The four parsers have states with the same fields and one variable `parser` says which
function is called. A block is named like the part of the state that resumes at it
(`list_elem_length` is `PSYC_LIST_PART_ELEM_LENGTH`), with the same steps as above: `pc`
is the block the call is in, `Go` falls through or jumps, `Return` returns. Blocks that
differ only in names are one operator with the names as a parameter (`ValueType`,
`ValueLength`, `KeyLength`, `DefaultType`, `ElemStart`); `AdvanceStart` and `AdvanceCursor`
are the two macros. `psyc_parse_update` calls `psyc_parse_index` on its own state, so the
index's blocks are blocks of both.

| Code | Actions |
|---|---|
| `psyc_parse_list` | `ListCall`, `ListType`, `ListElemStart`, `ListElemType`, `ListElemLength`, `ListElem` |
| `psyc_parse_dict` | `DictCall`, `DictType`, `DictKeyStart`, `DictKeyLength`, `DictKey`, `DictValueStart`, `DictValueType`, `DictValueLength`, `DictValue` |
| `psyc_parse_index` | `IndexCall`, `IndexType`, `IndexList`, `IndexStruct`, `IndexDictLength`, `IndexDict` |
| `psyc_parse_update` | those of the index, `UpdateCall`, `UpdateCode`, `UpdateType`, `UpdateLength`, `UpdateValue` |

The out parameters are kept as the code keeps them: `type` and `elem` are slices, a
position and a length, that stay what they are when a call does not set them, and may
outlive the buffer that they point into.

There are two kinds of callers. `AnyBuffer` and `AnyTake` are one that does anything: any
buffer between any two calls, whatever the last one returned, with the out parameters
cleared or not. `Feed`, `NoMore`, `ReadPiece`, `ReadItem`, `ReadMore` and `ReadEnd` are a
reader that does what `parse.h` asks: it keeps the bytes from the cursor on after
`INSUFFICIENT` and joins the pieces of an element. `got` is what it has read.

### Text templates

`psyc_text` is the steps `Call`, one of `NoName`, `Skip` and `Substitute` for each pair of
braces, and `Rest` for the end of the template. Pointers into the template are positions;
`TMPL` is the template's address, which matters only where the code subtracts a pointer
from `NULL`. The callback is a function from names to values; a name outside its domain
has none (`PSYC_TEXT_VALUE_NOT_FOUND`). `Collect` is the caller: it takes what was written
and sets another buffer, as the loop of `test/test_text.c` does.

### Functions without a state

`PsycKeyword`, `PsycValue` and `PsycUniform` have operators with the names of the
functions. An argument is the bytes that a pointer is passed to, which may be more than
the length that is passed: some of the functions read on. One step of `PsycCalls` is one
call, with arguments from small sets; `answer` is what it returns. The three tables are
written out in the order of the code, as the look-up depends on it.
`psyc_uniform_parse` goes part by part: each operator is the state after a part, from the
state before it.

### The abstract specification

`PsycChannel` has packets sent and packets delivered, nothing else: a step sends one or
delivers the oldest that is not delivered, and deliveries go on. `PsycReceiver` implements
it (`DeliversPackets`) with both variables mapped to what the packets say (`Says`):
operators, names, values, state operation, method and data, not lengths and flags. For a
receiver that parses the routing header only a packet says its rendered content
(`SaysRaw`).

## What is checked

| Run | Question | Shows |
|---|---|---|
| `any_caller` | What does `psyc_parse` guarantee by itself? | `ReadInBounds`, `IncompleteUsesBuffer`, `MissingAgrees`, and that `ParserInvariant` is an invariant |
| `receiver` | Do packets survive the wire? | refinement of the channel, `EchoesBytes`, `ContentCounted`, `NeverClosed`, `KeptIsPartial`, `LengthsFit`, and that `RoundTrip` is an invariant; `ParseLoopEnds` also for the packets it gets wrong |
| `server` | Does a connection notice the others? | `ConnectionsApart`, `DescriptorsFit` |
| `elems` | What do the parsers of values guarantee to anyone, and what to a reader? | `ElemReadsInBounds`, `CountedInBuffer`, `PiecesInOrder`, `KeysAndValuesPair` under any caller; `ReadAsWritten` for readers |
| `text` | Does the text depend on the buffers? | `WritesInBounds`, `RestInTemplate`, `TextIsFilledIn`, and `TextCompletes` under fairness |
| `functions` | Do the functions compute what they are for, and is the length computed the length written? | the eleven properties of `PsycCalls`; `LengthIsExact`, for packets, lists, dicts and packet ids |
| `no_body`, `bar_data`, `dict_key`, `update_stale`, `text_lost`, `lookup_order` | Does the code do what its comments say? | a counterexample each, see below |

`ContentCounted` ties the parser to the packet: between two calls in the entity header,
`content_parsed` is what `packet.c` computes for the modifiers assembled so far. It is why
the computed length of the data is right.

`LengthsFit` is the assumption of the `any_caller` run (in the constraint `Bounded`) and
of the theorems about it, and a checked invariant of the receiver: rendered packets satisfy
it, and of those that are carried this is proved. It says that a declared content length is no less than the header already parsed when
data begins, and that no length is so large that adding it to a position overflows. The
parser tests neither; nothing is claimed for packets that break it.

`ConnectionsApart` asks of the connection at hand what `receiver` asks of the only one:
`DeliveredAsSent`, `EchoesBytes`, `NeverClosed`. It is about what waits in the arrays while
others are served - the parser in the middle of a value, a packet and a modifier in parts -
and about what a client that hung up has left there. It holds as far as `InputMixed`, which
is not a rare case: it takes a cut within any routing modifier or simple value, and another
connection's bytes next.

`CountedInBuffer` is about lists and dicts. For an index or update it would be false: their
`elem` may be left from an earlier buffer (`elemlen_found` is not cleared, see `update_stale`).
`ElemReadsInBounds` allows their cursor to be one behind the end, where `AfterIndexDict`
leaves it; the next call returns at once.

`TextIsFilledIn` compares what is collected with `Filled[0]`: the template from its first
byte on, one byte or one name after the other, with no notion of buffers. `TextCompletes` needs
buffers with room for the longest piece, and that the cursor is not lost, see below.

In `functions` each property has its own reference: `MatchesWords` that the words of one
keyword are a subsequence of the other's; `TypeInherited`, `FamilyInherited` and
`RoutingExact` search the tables without regard to their order; `NumbersReadBack` the value
of the numeral; `UniformTiled` puts the pieces together again; `UniformAccepted` is a
grammar. Where the code reads behind its argument the properties say what may be there.

### Bounds

* `MC_AnyCaller`: every buffer of up to two bytes over seven bytes that stand for the
  roles in the syntax, and five longer ones that take a call through several blocks. Since
  a buffer can be set at any time and the state persists, the parser meets every byte in
  every part; what two bytes cannot reach in one call (a block entered with more than one
  byte behind it) the longer ones do. The parser is one of whole packets or one that starts
  at the content. `MaxCount = 6` stops the counters, which no block compares with anything
  but zero and the declared lengths (at most 22 in two digits). `LengthsFit` cuts the states
  after it too; the proofs have the same hypothesis.
* `MC_Receiver`: twelve packets modelled on `test/packets`, in six sequences of two or
  three: empty, routing only, no body, method only, with and without data, length with no
  data, several lines, data that is the delimiter character, binary values that contain the
  terminator, both state operations where they work. Two packets in a row show what the
  first leaves behind; chunks of any size show every cut. The receiver parses packets whole
  or (`PSYC_PARSE_ROUTING_ONLY`) leaves the content as it is. `RECV_BUF_SIZE = 60` is larger
  than any packet, so that several arrive in one buffer, too. `Defects` are five further
  sequences, of packets that the code gets wrong; `carried` is false for them, and only
  `KeptIsPartial`, `LengthsFit` and `ParseLoopEnds` speak of them. `WorkloadsAreCarried` says
  that the six sequences are such as the theorems about the receiver speak of.
* `MC_Render`: values, elements, keys and contents of lengths on both sides of the
  thresholds and of 10 and 100, where the length gets another digit.
* `MC_Server`: two clients with one or two packets each, or three with one; the packets have
  a binary value, a body with a length, one without, and routing only. Every cut, every turn
  and every moment to hang up. `NUM_PARSERS = 3` has room for two connections, so that the
  third client is refused in some behaviours and given a used descriptor in others. The
  listener has descriptor 0. A client writes only between inputs, since an input does not look
  at the wire.
* `MC_Elems`, any caller: every buffer of up to two bytes over eight bytes, and five longer
  ones, for each of the four parsers. `MaxParsed = 4` stops `elem_parsed`, which an index
  counts on from key to key; `MAX_LENGTH = 3` is where the caller clears an out parameter
  that `UntilElem` lengthens with each call. Both are compared with nothing but a declared
  length (at most 22). `SIZE_MOD = 4096` is above every sum of these, but not above a
  difference that is negative.
* `MC_Elems`, readers: lists of one or two elements and dicts of one or two pairs, with and
  without types, values on both sides of the threshold, empty ones, ones with the delimiter
  in them, and of ten bytes; an index of three steps and an update with it; and one of each kind
  that ends in an error or, for an update, without a value. They come in up to three chunks, cut at any of the `places` of `MC_Elems`. A chunk does not end where the
  parser takes the end of the buffer for the end of the list (`LIST_ELEM_LAST` and its like
  say so), nor inside a dict's key or value, which the parser does not continue, nor between
  a type and a length: the type is a slice of the old buffer then. What happens at these
  places is among the observations below.
* `MC_Text`: templates of up to four segments - text, a name with a value, with an empty
  one, without one, no name, a brace out of place - between two kinds of braces, one of them
  two bytes long. The first buffer has any of seven sizes from 0 to more than all of the
  text, so that it is full after any byte; the next ones have room for the longest piece
  (`TextCompletes` would be false for smaller ones: `psyc_text` writes nothing then).
  `Regular` leaves out templates that are subject to `text_lost` and two observations below.
  `TMPL = 512` and `SIZE_MOD = 1024` put the template far from both ends of the memory.
* `MC_Calls`: keywords of up to three words, of which one is the start of another, and
  malformed ones; every name of the tables, and names that inherit from it, are shorter, longer
  or unrelated; numerals of up to three digits, with `INT_MOD = 256`, so that some do not
  fit; words of four bytes; uniforms with every tail of up to four bytes over ten that stand
  for the roles in the syntax.

### Fairness

`PsycReceiver!FairSpec` assumes that the sender goes on while it has packets (`WF(Send)`),
and that the receiver goes on while it can (`WF(Receive)`): a socket with data is reported
by `select` and read, and the loop in `test_input` blocks nowhere. `Receive` is one action
because the receiver is one thread; in each state at most one kind of step is enabled. No
fairness is put on how many bytes a `Recv` returns, only that there is at least one.

`PsycText!FairSpec` has `WF(TextStep)`: a call of `psyc_text` runs to its return, and the
caller's loop calls again as long as the answer is `PSYC_TEXT_INCOMPLETE`. The sizes of
the buffers are not subject to it.

## What the code does otherwise than it says

1. `no_body`. A packet with a binary modifier last in its entity header and no method is
   rendered, and refused by the parser with `PSYC_PARSE_ERROR_END`: `PSYC_PART_END` takes
   the length of that modifier for the length of data (`parse.c:464`, `parse.c:531`).
2. `bar_data`. Data that begins with `|\n` or ends with `\n|` is rendered without a length
   and cut by the parser (`packet.c:163`).
3. `dict_key`. A dict key without a length is rendered with a space before it
   (`render.c:70`), which is not in the grammar of `parse.c:727`, and read back with it.
4. `update_stale`. The value of an update that has no length comes out empty when there is
   a dict key with a length in its index: `elemlen_found` is still set (`parse.c:1186`).
5. `text_lost`. When the rest of a template does not fit, and there is a name without a
   value in it, the text up to that name is never copied (`text.c:120`, `text.h:161`).
6. `lookup_order`. A method that inherits from a known one is not found when an entry
   before that one has the same length: the table has a name after those that inherit from
   it (`match.c:156`, `match.h:63`, `variable.c:71`).

The passing runs use inputs without these: packets without 1 and 2, keys with a length,
updates whose value has a length, `Regular` templates, and no claim that what inherits from
a method is known by it.

### Other observations

Met while reading and modelling, and in the model as they are in the code. No run is made
for them, either because no comment, test or document says otherwise or because one of
the runs above is of the same kind.

Server:

* Bytes kept for one connection are put before the next one's (`InputMixed`), also when the
  first one has hung up: `contbytes` is global (`test_psyc.c:49`).
* `fdmax` never goes down (`test.c:229`). Once the last descriptor was used, no client is
  accepted any more, though others have left.
* `nbytes` is a `size_t` (`test.c:155`), so an error of `recv` is not `<= 0` (`test.c:256`).
  Errors of `recv` are not modelled.

Receiver and packets:

* A state operation directly followed by the method: `test_input` has not cleared `oper`
  and writes it over the operator of the last routing modifier, or through a null pointer
  if the last buffer brought none (`test_psyc.c:250`; `HandleBodyCrash`).
* `// reset packet` does not reset the state operation (`test_psyc.c:190`): the next packet
  is given it, too.
* `PSYC_PARSE_BODY` comes without the method's name when the buffer ended behind the method
  (`parse.c:494`). `test_input` copes, as it copies the name when there is one.
* An entity modifier without a name is rendered, to its operator alone, with success
  (`render.c:202`; a routing modifier is refused, `:181`): fewer bytes than the packet's length,
  which `psyc_render` asserts to be right (`:223`). `EntitiesNamed` excludes it.
* With routing only and no content the terminator's newline is counted in the value's
  length (`parse.c:504`).
* The headers of `test_psyc.c` have room for 16 and 32 modifiers and asserts against more;
  `itoa` takes an `int`.

Lists, dicts, indexes, updates:

* A piece of a dict's key or value (`..._START`, `..._CONT`) is not continued: the part is
  moved on to the value or the next key whether the element is complete or not.
* `switch (data != '}')` is followed by a `return` without a label (`parse.c:842`): what ends a
  key is not tested, and `PSYC_PARSE_DICT_ERROR_VALUE_START` is never returned.
* At the end of the buffer `DICT_VALUE_LAST` rewinds, and is returned again by the next call
  with a length that grows.
* A call that resumes in the middle of an uncounted dict key, at a `|` or `=` that was the last
  byte, in a struct or at a brace of an index, or after the space before an update's operator
  goes on at a block after the one it left. In the last case `part` is a return code (21)
  and the call an error.
* An empty dict key with `PSYC_ELEM_NEED_LENGTH` is given a length that counts a digit which
  is not rendered (`packet.c:59`, `render.c:66`, `:75`). `KeysWritten` excludes it.
* `|3|`, a length with nothing after it, is an element whose data is null and whose length
  is 3.

Text templates:

* After `[]`, which is copied as it is, the byte behind is skipped: `[][x]` is not
  substituted.
* A `[` at the end of the template, or one that is not closed, leaves the cursor behind the
  end, or anywhere (`text.c:73` subtracts a null pointer). When the rest does not fit, the
  next call starts there, `RestLen` is larger than any buffer, and the text never completes.

Functions:

* `psyc_matches` reads on behind the two keywords where the next word would begin, and takes
  a `_` there for one. It misses some matches that skip two words.
* `psyc_parse_list_index` passes on the length with the `#`: it reads one byte behind the
  index. For `#-1` the result is 1. `psyc_parse_int` loses the sign when not all of the value
  is digits.
* `psyc_parse_keyword` counts one byte less when the keyword fills the whole length.
* `psyc://h:` is a uniform with an empty port. `psyc_uniform_parse` clears two fields only;
  used again, a `PsycUniform` keeps pieces of the last one. The model has cleared ones.
* `psyc_map_lookup` counts in a `uint8_t`; a table of 256 or more entries would not end. The
  tables have less.
* `_request_frienship` is a typing error in the method table (`variable.c:98`). The methods
  `_notice_peer_connect`, `_notice_peer_disconnect` and that one are not in the `switch` of
  `psyc_method` and are given its default family.

Rust, not modelled: a buffer with the same address and length as the last one is not set
again (`rust/src/parser.rs:57`), and the position of the unparsed bytes minus their length may
be negative (`:267`).

## What is proved

For every value of the constants that satisfies the named assumptions:

| Theorem | Module | Statement |
|---|---|---|
| `ParserInvariantHolds` | `PsycAnyCallerProofs` | `Spec /\ []LengthsFit => []ParserInvariant` |
| `TypeCorrect` | | `... => []TypeOK` |
| `ReadsStayInBounds` | | `... => []ReadInBounds` |
| `IncompleteUsesAll` | | `... => []IncompleteUsesBuffer` |
| `ValuesAreWhole` | | `... => []MissingAgrees` |
| `ElemInvariant` | `PsycElemProofs` | `Spec => []ElemInv` |
| `ElemTypes` | | `Spec => []ElemTypeOK` |
| `ElemReadsStayInBounds` | | `Spec => []ElemReadsInBounds` |
| `PiecesComeInOrder` | | `Spec /\ []BufferFits => []PiecesInOrder` |
| `KeysAndValuesTakeTurns` | | `Spec => []KeysAndValuesPair` |
| `CountedLiesInBuffer` | | `Spec /\ []ElemFits => []CountedInBuffer` |
| `TextInvariant` | `PsycTextProofs` | `Spec => []TextInv` |
| `TextWritesInBounds` | | `Spec => []WritesInBounds` |
| `TextRestInTemplate` | | `Spec => []RestInTemplate` |
| `TextFilledIn` | | `Spec /\ []NamelessApart /\ []RestFollowsValue => []TextIsFilledIn` |
| `LengthsAreExact` | `PsycCallsProofs` | `EntitiesNamed /\ KeysWritten /\ Spec => []LengthIsExact` |
| `KeywordsCounted` | | `Spec => []KeywordCounted` |
| `UniformsTiled` | | `Spec => []UniformTiled` |
| `ReceiverKeeps` | `PsycReceiverProofs` | `WorkloadsCarried |- Spec => []RoundTrip` |
| `ReceiverParses` | | `... => [](carried => ParserInvariant /\ LengthsFit)` |
| `ReceiverDelivers` | | `... => [](carried => DeliveredAsSent)` |
| `ReceiverEchoes` | | `... => []EchoesBytes` |
| `ReceiverStaysOpen` | | `... => []NeverClosed` |
| `ReceiverKeepsLittle` | | `... => [](carried => KeptIsPartial)` |
| `ReceiverCounts` | | `... => []ContentCounted` |
| `ReceiverIsChannel` | | `... => Channel!Init /\ [][Channel!Next]_Channel!channelVars` |
| `DescriptorsHavePlaces` | | `ServerSpec => []DescriptorsFit` |

### The packet parser

Assumptions: `FlagAssumption`, `SizeModAssumption` and `BuffersAssumption` (any set of
buffers, and sizes of more than twice the length of any), and `LengthsFit` as a hypothesis
on the behaviour, see above.

`ReadInBounds` speaks of the byte a block of `psyc_parse` starts by reading and of the
cursor; the bytes a block reads further on are guarded inside it (`ADVANCE_CURSOR_OR_RETURN`
and the loops' conditions), and TLC would reject an `At(i)` outside the buffer.

None of the last three is inductive. That a read is inside the buffer depends on where
a rewind leads (`startc` is never ahead of the cursor) and on which block comes next (the
part of the packet and `pc` agree); that what is missing of a value is not negative depends
on the counters being zero wherever no value with a length is under way. `ParserInvariant`
adds these as `Positions`, `PartAgrees` and `ValueForgotten`.

The argument: `Sound(st)` is the part of the invariant that speaks of the parser's state
alone. `AvailableInBuffer` and `TakeValueSound` say what `parse_binary` does to it.
`ReturnStep` and `MoveStep` reduce "a step keeps the invariant" to "the state it leaves is
sound", for the two ways a block can end; `RewoundSound`, `RefusedStep` and the modifier
lemmas cover what several blocks share. Then there is one lemma per action (`CallStep`,
`RoutingStep`, ..., `PacketEndStep`), and `ParserInvariantHolds` puts them together.

### The receiver: what is sent is received

Assumptions: `ReceiverAssumption`, that the receive buffer has room for a byte;
`SizesAssumption`, that no position in a buffer overflows a `size_t`; `FlagAssumption`,
`ThresholdAssumption`. The sizes of the buffers, the thresholds, the number of packets, and
what they say are otherwise any.

The hypothesis `WorkloadsCarried` is about the constant `Workloads`: its packets are ones that
the code carries (`Carried`), which is what a program gets by filling in a packet and calling
`psyc_packet_length_set`, with the content given in parts and not as bytes, but for the
following. The first, second and last are in `Defects`: the code does fail for them.

* A packet with no method and with a declared length does not end its entity header with a
  binary modifier (`no_body`).
* Data or content that is rendered without a length contains nothing that the parser takes for
  the terminator (`bar_data`; `Unmistaken` says it by the parser's own test).
* Modifiers have names, names and methods are made of keyword characters, and a value without a
  length has no newline in it: else it is another packet that is on the wire.
* A method does not follow directly on a state operation, and no packet comes after one
  with a state operation, as `test_input` writes the stale operator somewhere and never forgets
  the operation. Neither matters to a receiver of routing headers.

`DeliveredAsSent` is far from inductive: it speaks of complete packets, and a packet is received
in many calls on many buffers. `RoundTrip` adds what is true in between. Its parts are

* `ParserInvariant`, of which `PsycParseProofs` shows that a block keeps it, whoever calls;
* `RxTypeOK` and `Connected`: types; all packets of the connection are carried and the ones sent were
  rendered; what is kept and what is being parsed are never both there;
* `Taken`: what was delivered and rendered again belongs to the first `n` packets sent;
* `Underway`: the bytes ahead of the parser - in the buffer, kept in `contbuf`, on the wire - are
  the rest of the packet under way and then the packets sent after it (`InPacket`), or nothing
  is under way and they are the packets (`BetweenPackets`).

The idea is to say where the parser is in a packet not by counting bytes but by what is still to
be read. `Rest(p)` is the text of the packet `p` from the parser's part on, and it is a concatenation of
the texts that `psyc_render` concatenates; what has been read is described by what it has
become: `InRouting`, `InLength`, `InContent`, `InMethod`, `InData` and `InEnd` say for each part of
the parser what is in the packet that `test_input` assembles and what is still in the out
parameters. A block of the parser then moves a piece from the rest into what was read,
and a cut anywhere is the same fact about fewer bytes in the buffer.

The steps, in the order of the two modules: the texts of a packet, their lengths and their
first bytes (`PacketSplit`, `PacketLengths`, `Headed`), and that `itoa` and the parser's
loop over digits are inverse to each other (`Numerals`); what
each step of `psyc_parse_modifier` does on a line that was rendered (`LineParsed`, `BinaryParsed`,
`ValueParsed`); each block of the parser (`RoutingOnward`, `LengthDigitOnward`,
`ResumeOnward`, `MethodOnward`, `DataCountedOnward`, `DataSearchOnward`, `PacketEndOnward`, ...),
where `GivesUp` is the case that the buffer ends and the cursor goes back; all of `psyc_parse`
(`StepOnward`, `ParseCarries`); `recv` and what it is put behind (`RecvCarries`,
`InsufficientCarries`); each branch of the switch (`RoutingCarries`, `EntityCarries`,
`BodyCarries`, `CompleteCarries`, ...), two of which are shown not to be taken
(`NeverRefused`, `NeverCrashes`); the sender (`SendCarries`).

Three things are worth knowing of it. The search for the end of data without a length
(`DataSearch`) is the only place where the parser looks for bytes and not at them; that it finds
the right ones is `DataDelimited`, which uses that everything before is whole lines (`Lines`).
That a declared length of the data is what is there (`DataLengthRight`) needs
`ContentCount`: the length declared for the content is `content_parsed` and what is still to come,
which every block of the content has to keep, and which the newlines at the ends of lines make
easy to get wrong by one. And what is kept in `contbuf` is less than a packet (`PartialInvariant`)
because what is kept does not end the packet under way, which `InPacket` has to carry
along.

`ReceiverIsChannel` is the refinement: a step that delivers delivers the next packet that
was sent, and all other steps leave the channel as it is, or send. What is left to TLC of
`DeliversPackets` is that deliveries go on.

`RoundTrip` is checked in the `receiver` run, too: with the six sequences of packets there, at
every cut.

### The parsers of values

Assumptions: `SizeModAssumption` (sizes are computed modulo some positive number) and
`ElemBuffersAssumption` (buffers and chunks are sequences of bytes). No hypothesis on lengths
is needed: `parse_binary` compares `cursor + remaining` with the end of the buffer before it
uses it, and where that sum wraps around the cursor wraps too, to a position in the buffer.
So the theorems hold for lists and dicts that declare anything.

`ElemReadsInBounds` is not inductive: a block that rewinds moves the cursor to `startc`, and
one that reads a byte may come after it. `ElemInv` says that `startc` is not ahead of the
cursor while a call is under way (`Active`; between calls it may be, in another buffer), that
each parser is in its own blocks (`BlockOf`), and that the cursor of an index or update may
be one byte behind the end (`Slack`). There is a lemma for each way a block ends, one for
each shared block, and one for each action.

The last three properties relate a call to the ones before. `heard` is the
last code of an element that was returned; what is the next to come is decided by `part`,
`elem_parsed` and `elemlen`, and the invariants say how:

* `ListOrder`: a first or middle piece was the last one if and only if the part is that of the
  element and some, but not all, of its bytes are counted. `BufferFits` says that the length
  of a buffer is a `size_t`, which it is in a `PsycString`; otherwise a sum in `parse_binary`
  could wrap around and count no byte.
* `DictOrder`: in the parts in which a key is to come (`KeyComes`) the last code was not one of a
  key, and in the others it was. It needs no hypothesis.
* `CountedInv`: nothing of the element is counted in the parts before its bytes, and `elem` has no
  data until they begin. `ElemFits` is the one place where a
  declared length matters: `parse_binary` (`parse.c:174`) adds what is missing of the
  element to the cursor before it compares with the end of the buffer. When the sum
  wraps around, the slice is as long as was declared. The parsers do not test
  that; a declared length close to the size of the address space is not claimed about.

### Text templates

Assumption: `TextAssumption`. The template, a buffer and a value fit into one address
space together, and the buffer is shorter than the template's address.

`WritesInBounds` and `RestInTemplate` are not inductive because the cursor may be behind the
end of the template, or lost (`Behind`, `Lost`). `TextInv` says that this is the only place
outside, and that a call which begins there has nothing written: the length of the rest,
modulo `SIZE_MOD`, is then larger than any buffer (`BehindTheEnd`), and nothing is copied.

`TextFilledIn` is the theorem that says the template is filled in. `FillInv` says of each
position in the loop that what was collected, what is in the buffer and what `Filled` gives
for the rest of the template make up `Filled[0]`. `Filled` is recursive; `RecursionExists` of
`PsycPacketProofs` shows that such a function is what its equation says. The two hypotheses are
where the code loses text, and no more: `NamelessApart`, that no name starts in
the bytes that `psyc_text` steps over behind braces without a name; `RestFollowsValue`, that
what is in braces before a rest that does not fit is a value - this is exactly what `text_lost`
violates. `Regular` templates have both in every behaviour of the run.

### What is called: lengths, keywords, uniforms

Assumptions: `RenderAssumption` and `CallsAssumption`, the types of the arguments;
`ThresholdAssumption` and `ElemThresholdAssumption`, that the thresholds are numbers.

`LengthsAreExact` is about two functions that never meet: one adds up numbers before anything
is written, the other appends bytes. `PsycPacketProofs` shows that the length of `itoa` is
`psyc_num_length` (`NumLength`, by strong induction on the number), that the length of what is
concatenated is the sum of the lengths (`TotalLength`), and so for a packet (`PacketExact`).
The invariant is `RenderInv`: the lengths of what was built are set (`LengthIsSet`), for
each kind of thing, which `SetType` has to restore. The hypotheses `EntitiesNamed` and
`KeysWritten` are about the constants and name the two cases in which the lengths differ, see
the observations above; the instance `MC_Render` satisfies both, and TLC finds
`LengthIsExact` violated by one modifier or key that does not.

`UniformsTiled`: `psyc_uniform_parse` computes its snippets from the lengths of pieces, in
the belief that these lie end to end. `UniLaid` says where each piece is after `k` bytes, part
by part, and `ParseLaid` that it holds for every `k` (an induction over the loop, with one lemma
per part: `SchemeStep`, ..., `ChannelStep`). There are four ways for an accepted uniform to end
(`UniEnds`: after the host or port, in the resource, in the channel, or at a colon with no
port behind it), and in each the pieces are joined by `RootTiles` and `RestTiles`.

`KeywordsCounted` uses that `KeywordEnd`, a position chosen, exists (`KeywordEnds`).

### The server

`DescriptorsFit` is not inductive: which descriptor is the next depends on those in use, and
`fdmax` may be above all of them. `DescriptorsInv` says that those in use are at most `fdmax` and
that this is below `NUM_PARSERS`; `LowestFree`, that `accept` then returns at most `fdmax + 1`.

### Induction

The library states induction with an operator as parameter, which no installed prover can
instantiate. `PsycPacketProofs` has it with a set: a set of numbers that contains 0, and `k + 1`
with each `k` below a bound, contains all up to the bound (`Induction`, `StrongInduction`,
`LeastNumber`, `LargestNumber`). It follows from the least element of a finite set of numbers. From it come
the folds (`FoldLeft`, `FlattenSeq`) and the existence of recursive functions
(`RecursionExists`, `IterationExists`). A lemma proved by induction defines the set of those
numbers for which it holds.

### Only model-checked

* Liveness: `ParseLoopEnds`, `TextCompletes`, and the fairness of `PsycChannel` in
  `DeliversPackets`. Not provable with this prover.
* `KeptIsPartial` and `LengthsFit` of the packets in `Defects`. The theorems are about packets
  that are carried.
* `ConnectionsApart`. It would take `RoundTrip` of each connection in the arrays, and all that
  it is defined with again with a connection as a parameter.
* `ReadAsWritten`: an invariant like `RoundTrip` for each of four further grammars.
* `NumbersReadBack`, `InheritedMatch`, `MatchesWords`, `UniformAccepted`: recursions over several
  arguments, or grammars with alternatives; nothing in principle is in the way.
* `RoutingExact`, `TypeInherited`, `ListTyped`, `MethodKnown`, `FamilyInherited`: facts about the tables
  of the code, names written as strings, whose letters the provers do not see. TLC evaluates
  them for every name of the tables, which is all there is to know but for unknown names.

## Not modelled

* Of the server: what is parsed after bytes of two connections are mixed, errors of `recv`,
  `accept` and `select`, and `test_file`, which reads one file like one connection.
* In `test_input`: the inner loops over list and dict values, the asserts on the number of
  header lines and on `CONT_BUF_SIZE`, failure of `write` and `send`.
* Parsing in two stages: a router that takes the content from `PSYC_PARSE_ROUTING_ONLY` and a
  second parser that starts at it. Both parsers are modelled, and not their composition.
* The Rust parser: when it sets the buffer, and `copy_unparsed_into_buffer`. The other
  bindings are declarations and glue.
* `memmem.c`, a library function, whose meaning is `HasSubSeq` and `Find`;
  `psyc_parser_cb.h`, an interface that nothing implements; the texts of `templates.h`;
  logging; the rounding of `log10` in
  `psyc_num_length`; the programs under `test/` and `bench/` that only print or measure.

What would come next, in this order: the parser's invariant under `PsycReceiver`, a caller
that is not arbitrary, so that `ReadInBounds` is proved of the program itself; proofs of
`InheritedMatch` and `NumbersReadBack`; a `PsycChannel` for each connection of the server, with
its liveness, for a network that never has bytes mixed; the two stages; the inner loops of
`test_input` over `PsycElemCallers`' parsers.
