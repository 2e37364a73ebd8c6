------------------------------ MODULE Readables ------------------------------
(***************************************************************************)
(* The functions of common/src/stream.ts on readables, whose read() hands  *)
(* out a chunk at a time and NULL when there is no more.                   *)
(*                                                                         *)
(* A readable is a record of what its read() remembers, and reading it     *)
(* gives the chunk and the readable that is left.  The reducer puts chunks *)
(* together, as the reducers of the callers do: chunks are sequences.      *)
(***************************************************************************)
EXTENDS Integers, Sequences, SequencesExt

\* What read() gives: a chunk, or NULL.
NULL == <<>>
Chunk(chunk) == <<chunk>>

\* A readable over chunks of its own: toReadable() makes one of a single chunk.
Source(chunks) == [k |-> "source", chunks |-> chunks]

\* What peekReadable() leaves: the chunks it took, then the last one it read, which may be
\* NULL and is there until it has been handed out, then the rest.
Peeked(chunks, last, under) == [k |-> "peeked", chunks |-> chunks, last |-> <<last>>, under |-> under]

\* The prefix is there until it has been handed out.
PrefixedReadable(prefix, under) == [k |-> "prefixed", prefix |-> <<prefix>>, under |-> under]

Reducer(chunks) == FlattenSeq(chunks)

Gives(chunk, next) == [chunk |-> chunk, next |-> next]

ReadSource(r) ==
  IF r.chunks = <<>> THEN Gives(NULL, r) ELSE Gives(Chunk(Head(r.chunks)), [r EXCEPT !.chunks = Tail(@)])

ReadPeeked(r, under) ==
  CASE r.chunks # <<>> -> Gives(Chunk(Head(r.chunks)), [r EXCEPT !.chunks = Tail(@)])
    [] r.chunks = <<>> /\ r.last # <<>> -> Gives(r.last[1], [r EXCEPT !.last = <<>>])
    [] r.chunks = <<>> /\ r.last = <<>> -> Gives(under.chunk, [r EXCEPT !.under = under.next])

\* The readable below is read first, and the prefix put before what it gave, if anything.
ReadPrefixed(r, under) ==
  LET chunk == IF r.prefix = <<>> THEN under.chunk
               ELSE IF under.chunk = NULL THEN Chunk(r.prefix[1])
               ELSE Chunk(Reducer(<<r.prefix[1], under.chunk[1]>>))
  IN  Gives(chunk, [r EXCEPT !.prefix = <<>>, !.under = under.next])

RECURSIVE Read(_)
Read(r) == CASE r.k = "source"   -> ReadSource(r)
             [] r.k = "peeked"   -> ReadPeeked(r, Read(r.under))
             [] r.k = "prefixed" -> ReadPrefixed(r, Read(r.under))

\* Reading until NULL, or until there are limit chunks and one more has been read.
RECURSIVE ReadUpTo(_, _, _)
ReadUpTo(r, chunks, limit) ==
  LET got == Read(r)
  IN  IF got.chunk = NULL \/ Len(chunks) >= limit THEN [chunks |-> chunks, last |-> got.chunk, under |-> got.next]
      ELSE ReadUpTo(got.next, Append(chunks, got.chunk[1]), limit)

\* All the chunks of a readable: no readable here has as many as Enough.
Enough == 99
ConsumeReadable(r) == Reducer(ReadUpTo(r, <<>>, Enough).chunks)

\* A readable with no more than limit chunks is put together, another one is handed on.
PeekReadable(r, limit) ==
  LET read == ReadUpTo(r, <<>>, limit)
  IN  IF read.last = NULL /\ read.chunks # <<>> THEN [k |-> "whole", value |-> Reducer(read.chunks)]
      ELSE Peeked(read.chunks, read.last, read.under)
=============================================================================
