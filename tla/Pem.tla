--------------------------------- MODULE Pem ---------------------------------
(***************************************************************************)
(* crypto/src/encoding/pem.ts: blocks of data as text, and the lines.ts    *)
(* that cut a text into lines.                                             *)
(*                                                                         *)
(* A text is a sequence of lines without the empty ones, which lines()     *)
(* leaves out; a line is what decode() takes it for.  Base64 is external:  *)
(* a line of data is the bytes it stands for, LineBytes of them but for    *)
(* the last.  The checksum crc24() of data is the data, as if no two had   *)
(* the same one.                                                           *)
(***************************************************************************)
EXTENDS Integers, Sequences, SequencesExt

CONSTANT LineBytes       \* 48 in the code: 64 characters

Garbled == <<-1>>
NotParsed == [error |-> "PEM parse error"]
Parsed(v) == [value |-> v]

Block(type, headers, data) == [type |-> type, headers |-> headers, data |-> data]

BeginLine(type) == [k |-> "begin", text |-> type]
EndLine(type) == [k |-> "end", text |-> type]
HeaderLine(header) == [k |-> "header", text |-> header]
DataLine(bytes) == [k |-> "data", text |-> bytes]
CrcLine(data) == [k |-> "crc", text |-> data]

Chunks(data) ==
  [i \in 1 .. (Len(data) + LineBytes - 1) \div LineBytes |->
     SubSeq(data, (i - 1) * LineBytes + 1,
            IF i * LineBytes < Len(data) THEN i * LineBytes ELSE Len(data))]

\* encode(): headers are a sequence of pairs, in the order of the map.
Encode(block, armor) ==
  <<BeginLine(block.type)>> \o [i \in DOMAIN block.headers |-> HeaderLine(block.headers[i])]
    \o [i \in DOMAIN Chunks(block.data) |-> DataLine(Chunks(block.data)[i])]
    \o (IF armor THEN <<CrcLine(block.data)>> ELSE <<>>) \o <<EndLine(block.type)>>

\* base64.decode() of lines put together: the padding of a short line that is not the
\* last would stand in the middle.
Decoded(chunks) ==
  IF \E i \in DOMAIN chunks : i < Len(chunks) /\ Len(chunks[i]) < LineBytes THEN Garbled
  ELSE FlattenSeq(chunks)

\* One line of decode(); a generator that has thrown yields nothing more.
SetHeader(headers, header) ==
  LET same == {i \in DOMAIN headers : headers[i][1] = header[1]}
  IN  IF same = {} THEN Append(headers, header)
      ELSE ReplaceAt(headers, CHOOSE i \in same : TRUE, header)

\* The block that is open and the checksum met are sequences of one or none.
Start == [block |-> <<>>, chunks |-> <<>>, crc |-> <<>>, blocks |-> <<>>, failed |-> FALSE]
Open(acc) == acc.block # <<>>
Fails(acc) == [acc EXCEPT !.failed = TRUE]

\* The bug of a checksum that is read and not compared.
EndedUnchecked(acc, line) ==
  IF ~Open(acc) THEN Fails(acc)
  ELSE IF acc.block[1].type # line.text THEN Fails(acc)
  ELSE [Start EXCEPT !.blocks = Append(acc.blocks, [acc.block[1] EXCEPT !.data = Decoded(acc.chunks)])]

Ended(acc, line) ==
  LET data == Decoded(acc.chunks)
      checked == acc.crc = <<>> \/ acc.crc = <<data>>
  IN  IF ~Open(acc) THEN Fails(acc)
      ELSE IF acc.block[1].type # line.text \/ ~checked THEN Fails(acc)
      ELSE [Start EXCEPT !.blocks = Append(acc.blocks, [acc.block[1] EXCEPT !.data = data])]

ReadLine(armor, acc, line) ==
  CASE acc.failed -> acc
    [] ~acc.failed /\ line.k = "header" ->
         IF Open(acc) THEN [acc EXCEPT !.block[1].headers = SetHeader(@, line.text)] ELSE Fails(acc)
    [] ~acc.failed /\ line.k = "begin" ->
         IF Open(acc) THEN Fails(acc) ELSE [acc EXCEPT !.block = <<Block(line.text, <<>>, <<>>)>>]
    [] ~acc.failed /\ line.k = "end" -> Ended(acc, line)
    [] ~acc.failed /\ line.k = "crc" ->
         IF ~Open(acc) \/ (armor /\ acc.crc # <<>>) THEN Fails(acc)
         ELSE IF armor THEN [acc EXCEPT !.crc = <<line.text>>] ELSE acc
    [] ~acc.failed /\ line.k = "data" ->
         IF Open(acc) THEN [acc EXCEPT !.chunks = Append(@, line.text)] ELSE Fails(acc)

ReadLines(lines, armor) == FoldLeft(LAMBDA acc, line : ReadLine(armor, acc, line), Start, lines)

\* decode() to its end.
Decode(lines, armor) ==
  LET end == ReadLines(lines, armor)
  IN  IF end.failed \/ Open(end) THEN NotParsed ELSE Parsed(end.blocks)

\* PEMBlock.fromString() takes the first block and never looks at what comes after it.
FromString(lines, armor) ==
  LET end == ReadLines(lines, armor)
  IN  IF end.blocks = <<>> THEN NotParsed ELSE Parsed(end.blocks[1])

FromPEM(lines, type, armor) ==
  LET first == FromString(lines, armor)
  IN  IF first = NotParsed THEN NotParsed
      ELSE IF first.value.type # type THEN NotParsed ELSE Parsed(first.value.data)

=============================================================================
