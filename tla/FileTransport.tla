---------------------------- MODULE FileTransport ----------------------------
(***************************************************************************)
(* @jil/log: a Logger that writes to one FileTransport, or to its subclass *)
(* RotatingFileTransport (Timed).  The transport appends to a file through *)
(* a Node stream, and when the file has outgrown maxSize, or its period is *)
(* over, ends the stream, renames the file to name.N, where N is the number*)
(* of such files in the folder, and starts again.  Lines that come while it*)
(* rotates are held in memory.                                             *)
(*                                                                         *)
(* A line is its number in the order of logging; Bytes gives its length.   *)
(* The stream is Node's: it writes what waits in batches, emits 'drain'    *)
(* before the callbacks of a batch that empties it unless it is ending,    *)
(* and 'finish' when an ended stream has written everything.  The process  *)
(* may be killed and started again on the same folder.                     *)
(***************************************************************************)
EXTENDS Naturals, Sequences, SequencesExt, FiniteSets

CONSTANTS MaxLines,   \* how many lines are logged
          Bytes,      \* the length of each line
          MaxSize,    \* options.maxSize
          HighWater,  \* bytes waiting at which stream.write() returns false
          Timed,      \* RotatingFileTransport rather than FileTransport
          Periods,    \* the last period the clock reaches
          Levels,     \* the levels the transport takes
          MaxLevel,   \* LOG_MAX_LEVEL
          Faults      \* bound on kills, failed renames and deletions together

ASSUME SizesAssumption ==
  /\ MaxLines \in Nat /\ MaxSize \in Nat /\ HighWater \in Nat \ {0}
  /\ Periods \in Nat /\ Faults \in Nat /\ Timed \in BOOLEAN
  /\ Bytes \in [1..MaxLines -> Nat \ {0}]

VARIABLES logged,        \* lines given to transport.write() so far
          silent,        \* Logger.silent
          stream,        \* "none", "open", "ending" or "finished"
          pending,       \* lines the stream has not written yet
          joined,        \* those that are in one chunk with the next line
          needDrain,     \* the stream owes a 'drain'
          closers,       \* callbacks registered for 'finish'
          buffer,        \* lines held while the file is rotated
          draining, rotating, lastSize, lastTimestamp,
          now,           \* the clock's period
          current,       \* the lines of the file being written
          rotated,       \* the rotated files, by <<period, count>>
          failed,        \* history: a renaming of this process failed
          faults, lost, deleted  \* history: lines of a killed process; deletions

stateOfStream == <<stream, pending, joined, needDrain, closers>>
disk == <<current, rotated>>
history == <<failed, faults, lost, deleted>>
transportVars == <<logged, silent, stateOfStream, buffer, draining, rotating, lastSize,
          lastTimestamp, now, disk, history>>

(* A byte is a place in one of the lines. *)
ByteLength(lines) == Cardinality(UNION {{i} \X (1..Bytes[lines[i]]) : i \in DOMAIN lines})

TransportInit ==
  /\ logged = 0 /\ silent = FALSE
  /\ stream = "none" /\ pending = <<>> /\ joined = {} /\ needDrain = FALSE /\ closers = <<>>
  /\ buffer = <<>> /\ draining = FALSE /\ rotating = FALSE
  /\ lastSize = 0 /\ lastTimestamp = 0 /\ now = 0
  /\ current = <<>> /\ rotated = [n \in {} |-> <<>>]
  /\ failed = FALSE /\ faults = 0 /\ lost = {} /\ deleted = FALSE

-----------------------------------------------------------------------------
(* The stream after lines were given to stream.write(), which returns      *)
(* false from the chunk on with which enough is waiting.                   *)
StreamWrite(lines) ==
  LET full == lines # <<>> /\ ByteLength(pending \o lines) >= HighWater
  IN /\ pending' = pending \o lines
     /\ needDrain' = (needDrain \/ full)
     /\ draining' = (draining \/ full)

(* The lines that open() takes out of memory: write() puts them back there *)
(* while a rotation that failed is not over.                               *)
Held == IF rotating THEN <<>> ELSE buffer
StillHeld == IF rotating THEN buffer ELSE <<>>

(* They are written as one chunk. *)
JoinedHeld == {Held[i] : i \in 1..(Len(Held) - 1)}

(* The mutants of open(): the held lines after the new one; the size of    *)
(* the file that is there not read.                                        *)
OpenedWithLater(lines) ==
  /\ stream' = "open"
  /\ lastSize' = IF current = <<>> THEN lastSize ELSE ByteLength(current)
  /\ buffer' = StillHeld
  /\ joined' = joined \union JoinedHeld
  /\ StreamWrite(lines \o Held)

OpenedWithoutStat(lines) ==
  /\ stream' = "open"
  /\ buffer' = StillHeld /\ UNCHANGED lastSize
  /\ joined' = joined \union JoinedHeld
  /\ StreamWrite(Held \o lines)

(* open() when there is no stream: the size of the file that is already    *)
(* there, and the lines held in memory ahead of the others.                *)
OpenedWith(lines) ==
  /\ stream' = "open"
  /\ lastSize' = IF current = <<>> THEN lastSize ELSE ByteLength(current)
  /\ buffer' = StillHeld
  /\ joined' = joined \union JoinedHeld
  /\ StreamWrite(Held \o lines)

(* The process ends with what it held in memory, and is started again. *)
Killed(lines) ==
  /\ lost' = lost \union ToSet(pending) \union ToSet(buffer) \union lines
  /\ stream' = "none" /\ pending' = <<>> /\ joined' = {} /\ needDrain' = FALSE /\ closers' = <<>>
  /\ buffer' = <<>> /\ draining' = FALSE /\ rotating' = FALSE
  /\ lastSize' = 0 /\ lastTimestamp' = now /\ silent' = FALSE
  /\ failed' = FALSE

(* Logger.isAllowed() and log(): the level is at most the greatest one, in *)
(* the order of LOG_LEVELS, and the transport takes it.                    *)
LogLevels == <<"log", "trace", "debug", "info", "warn", "error">>

IsAllowed(level) ==
  LET Rank(l) == CHOOSE i \in DOMAIN LogLevels : LogLevels[i] = l
  IN Rank(level) <= Rank(MaxLevel)

Delivers(level) == ~silent /\ IsAllowed(level) /\ level \in Levels

(* write() with a line: held while rotating; otherwise the stream, opened  *)
(* if there is none, takes it.                                             *)
Write(level) ==
  LET line == logged + 1
  IN /\ logged < MaxLines /\ Delivers(level)
     /\ logged' = line
     /\ \/ /\ rotating
           /\ buffer' = Append(buffer, line)
           /\ UNCHANGED <<stateOfStream, draining, lastSize>>
        \/ /\ ~rotating /\ stream = "none"
           /\ OpenedWith(<<line>>)
           /\ UNCHANGED closers
        \/ /\ ~rotating /\ stream = "open"
           /\ StreamWrite(<<line>>)
           /\ UNCHANGED <<stream, joined, closers, buffer, lastSize>>
     /\ UNCHANGED <<silent, rotating, lastTimestamp, now, disk, history>>

(* write() between close() and 'finish': the stream has ended, and its     *)
(* 'error' event, which nobody listens to, ends the process.               *)
WriteAfterEnd(level) ==
  /\ logged < MaxLines /\ Delivers(level)
  /\ ~rotating /\ stream = "ending" /\ faults < Faults
  /\ logged' = logged + 1 /\ faults' = faults + 1
  /\ Killed({logged + 1})
  /\ UNCHANGED <<now, disk, deleted>>

Open ==
  /\ stream = "none"
  /\ OpenedWith(<<>>)
  /\ UNCHANGED <<logged, silent, closers, rotating, lastTimestamp, now, disk, history>>

(* close() by the application.  With no stream it is done at once.         *)
Close ==
  /\ stream \in {"open", "ending"} /\ Len(closers) < 2
  /\ closers' = Append(closers, "close")
  /\ stream' = "ending"
  /\ UNCHANGED <<logged, silent, pending, joined, needDrain, buffer, draining, rotating,
                 lastSize, lastTimestamp, now, disk, history>>

(* checkIfNeedsRotation(), with the file's size as it is counted. *)
NeedsRotation(size) == size > MaxSize \/ (Timed /\ now # lastTimestamp)

(* The stream writes the first k lines, in whole chunks: 'drain' first, if *)
(* it is owed and the stream is not ending, then each chunk's callback,    *)
(* which counts the bytes and begins the rotation,                         *)
(* closeStreamAndRotateFile().                                             *)
Flush(k) ==
  LET batch == SubSeq(pending, 1, k)
      size == lastSize + ByteLength(batch)
      drained == needDrain /\ k = Len(pending) /\ stream = "open"
      rotates == NeedsRotation(size) /\ ~draining' /\ ~rotating
  IN /\ pending[k] \notin joined
     /\ current' = current \o batch
     /\ pending' = SubSeq(pending, k + 1, Len(pending))
     /\ joined' = joined \ ToSet(batch)
     /\ needDrain' = (needDrain /\ ~drained)
     /\ draining' = (draining /\ ~drained)
     /\ lastSize' = size
     /\ rotating' = (rotating \/ rotates)
     /\ stream' = IF rotates THEN "ending" ELSE stream
     /\ closers' = IF rotates THEN Append(closers, "rotate") ELSE closers
     /\ UNCHANGED <<logged, silent, buffer, lastTimestamp, now, rotated, history>>

(* getRotatedFileName() and getNextIncrementCount(): the next name. *)
NextName ==
  LET period == IF Timed THEN lastTimestamp ELSE 0
  IN <<period, Cardinality({f \in DOMAIN rotated : f[1] = period})>>

Renamed == [f \in DOMAIN rotated \union {NextName} |-> IF f = NextName THEN current ELSE rotated[f]]

(* A mutant of 'finish': rotating is not reset. *)
FinishStuck ==
  LET renamed == "rotate" \in ToSet(closers)
  IN /\ stream = "ending" /\ pending = <<>>
     /\ stream' = "none" /\ closers' = <<>> /\ needDrain' = FALSE
     /\ rotated' = IF renamed THEN Renamed ELSE rotated
     /\ current' = IF renamed THEN <<>> ELSE current
     /\ lastSize' = IF renamed THEN 0 ELSE lastSize
     /\ lastTimestamp' = IF renamed THEN now ELSE lastTimestamp
     /\ UNCHANGED <<logged, silent, pending, joined, buffer, draining, rotating, now, history>>

(* 'finish': the callbacks of close() in the order they were registered;   *)
(* that of a rotation renames the file.                                    *)
Finish ==
  LET renamed == "rotate" \in ToSet(closers)
  IN /\ stream = "ending" /\ pending = <<>>
     /\ stream' = "none" /\ closers' = <<>> /\ needDrain' = FALSE
     /\ rotated' = IF renamed THEN Renamed ELSE rotated
     /\ current' = IF renamed THEN <<>> ELSE current
     /\ lastSize' = IF renamed THEN 0 ELSE lastSize
     /\ lastTimestamp' = IF renamed THEN now ELSE lastTimestamp
     /\ rotating' = (rotating /\ ~renamed)
     /\ UNCHANGED <<logged, silent, pending, joined, buffer, draining, now, history>>

(* renameSync() throws in the callback, and the application catches the    *)
(* uncaught exception: rotating stays set, later callbacks are not called, *)
(* and the stream is only replaced if a close() had been called before.    *)
RenameFails ==
  /\ stream = "ending" /\ pending = <<>> /\ "rotate" \in ToSet(closers)
  /\ faults < Faults
  /\ stream' = IF Head(closers) = "rotate" THEN "finished" ELSE "none"
  /\ failed' = TRUE
  /\ closers' = <<>> /\ faults' = faults + 1
  /\ UNCHANGED <<logged, silent, pending, joined, needDrain, buffer, draining, rotating,
                 lastSize, lastTimestamp, now, disk, lost, deleted>>

(* The process dies, or an exception ends it, and is started again. *)
Kill ==
  /\ faults < Faults /\ faults' = faults + 1
  /\ Killed({})
  /\ UNCHANGED <<logged, now, disk, deleted>>

(* An operator removes a rotated file to make room. *)
Delete(f) ==
  /\ faults < Faults /\ faults' = faults + 1
  /\ rotated' = [g \in DOMAIN rotated \ {f} |-> rotated[g]]
  /\ lost' = lost \union ToSet(rotated[f])
  /\ deleted' = TRUE /\ UNCHANGED failed
  /\ UNCHANGED <<logged, silent, stateOfStream, buffer, draining, rotating,
                 lastSize, lastTimestamp, now, current>>

(* Logger.disable() and enable(): a silent logger's lines go nowhere. *)
Silence ==
  /\ silent' = ~silent
  /\ UNCHANGED <<logged, stateOfStream, buffer, draining, rotating, lastSize,
                 lastTimestamp, now, disk, history>>

Tick ==
  /\ now < Periods /\ now' = now + 1
  /\ UNCHANGED <<logged, silent, stateOfStream, buffer, draining, rotating,
                 lastSize, lastTimestamp, disk, history>>

TransportNext ==
  \/ \E level \in ToSet(LogLevels) : Write(level) \/ WriteAfterEnd(level)
  \/ Open \/ Close
  \/ \E k \in 1..Len(pending) : Flush(k)
  \/ Finish \/ RenameFails
  \/ Kill \/ (\E f \in DOMAIN rotated : Delete(f))
  \/ Silence \/ Tick

TransportSafe == TransportInit /\ [][TransportNext]_transportVars

(* The stream goes on writing, and finishes once it has ended. *)
TransportSpec ==
  TransportSafe /\ WF_transportVars(Finish) /\ WF_transportVars(\E k \in 1..Len(pending) : Flush(k))

-----------------------------------------------------------------------------
(* Names in the order of rotation. *)
Earlier(f, g) == f[1] < g[1] \/ (f[1] = g[1] /\ f[2] < g[2])

(* What is not in a rotated file. *)
Recent == current \o pending \o buffer

Increasing(lines) == \A i, j \in DOMAIN lines : i < j => lines[i] < lines[j]
Ahead(lines, others) == \A i \in DOMAIN lines, j \in DOMAIN others : lines[i] < others[j]

(***************************************************************************)
(* The rotated files by name, then the file, then what the stream and the  *)
(* transport hold, are the lines in the order they were logged; none is    *)
(* there twice, and none is missing but those a killed process held and    *)
(* those in a file that was removed.  After a removal a rotation takes the *)
(* name of a file that is there, so it says nothing of that history.       *)
(***************************************************************************)
LinesKept ==
  ~deleted =>
    /\ Increasing(Recent)
    /\ \A f \in DOMAIN rotated : Increasing(rotated[f]) /\ Ahead(rotated[f], Recent)
    /\ \A f, g \in DOMAIN rotated : Earlier(f, g) => Ahead(rotated[f], rotated[g])
    /\ 1..logged \ (ToSet(Recent) \union UNION {ToSet(rotated[f]) : f \in DOMAIN rotated}) \subseteq lost

(***************************************************************************)
(* When the stream has written all it had, either the file is within its   *)
(* size and of this period or its rotation has begun - whatever was in the *)
(* file when the process started, and unless a 'drain' is still awaited;   *)
(* and no rotation begins before the file is too large or its period over. *)
(***************************************************************************)
RotatedInTime ==
  [][/\ (current' # current /\ pending' = <<>> /\ stream = "open" /\ ~draining')
        => (rotating' <=> (ByteLength(current') > MaxSize
                            \/ (Timed /\ now # lastTimestamp)))
     /\ (rotating' /\ ~rotating)
        => (ByteLength(current') > MaxSize \/ (Timed /\ now # lastTimestamp))]_transportVars

(***************************************************************************)
(* A rotation ends, and lets the lines it holds back go on, unless the     *)
(* renaming failed: closing, killing and logging meanwhile do not stop it. *)
(***************************************************************************)
RotationEnds == rotating ~> (~rotating \/ failed)
=============================================================================
