------------------------------- MODULE Paths -------------------------------
(***************************************************************************)
(* common/src/path.ts: the functions on paths, for both platforms.         *)
(*                                                                         *)
(* A path is a sequence of characters.  Loops over characters that track   *)
(* slashes and dots are given by what they find: the segments between      *)
(* separators, the last separator, the last dot.  Indices count from one.  *)
(***************************************************************************)
EXTENDS Integers, Sequences, FiniteSets, SequencesExt

CONSTANTS Cwd,       \* process.cwd() on each platform
          Lower      \* the lower case of the letters that have one

Letters == DOMAIN Lower \cup {Lower[c] : c \in DOMAIN Lower}

Sep(w) == IF w = "win32" THEN "\\" ELSE "/"
IsSep(w, c) == c = "/" \/ (w = "win32" /\ c = "\\")
IsDeviceRoot(c) == c \in Letters
LowerCase(p) == [i \in DOMAIN p |-> IF p[i] \in DOMAIN Lower THEN Lower[p[i]] ELSE p[i]]

\* slice() from an index on, and up to one.
From(p, i) == SubSeq(p, i, Len(p))
To(p, i) == SubSeq(p, 1, i)
At(p, i) == IF i \in DOMAIN p THEN p[i] ELSE "none"

\* The largest of a set of indices, or 0.
Last0(S) == IF S = {} THEN 0 ELSE CHOOSE i \in S : \A j \in S : j <= i

-----------------------------------------------------------------------------
(* Segments and normalizeString().                                         *)

Dot == <<".">>
DotDot == <<".", ".">>

\* The parts of a path between separators.
Segments(w, p) ==
  LET add(parts, c) == IF IsSep(w, c) THEN Append(parts, <<>>)
                       ELSE Append(Front(parts), Append(Last(parts), c))
  IN  SelectSeq(FoldLeft(add, <<<<>>>>, p), LAMBDA part : part # <<>>)

Join(sep, segments) ==
  FoldLeft(LAMBDA path, s : IF path = <<>> THEN s ELSE path \o <<sep>> \o s, <<>>, segments)

\* The bug that ".." takes away another "..".
AddSegmentEager(aboveRoot, res, s) ==
  CASE s = Dot -> res
    [] s = DotDot /\ res # <<>> -> Front(res)
    [] s = DotDot /\ res = <<>> -> IF aboveRoot THEN Append(res, DotDot) ELSE res
    [] s \notin {Dot, DotDot} -> Append(res, s)

\* One segment more: "." changes nothing, ".." takes the last one away.
AddSegment(aboveRoot, res, s) ==
  CASE s = Dot -> res
    [] s = DotDot /\ res # <<>> /\ Last(res) # DotDot -> Front(res)
    [] s = DotDot /\ (res = <<>> \/ Last(res) = DotDot) ->
         IF aboveRoot THEN Append(res, DotDot) ELSE res
    [] s \notin {Dot, DotDot} -> Append(res, s)

NormalizeString(w, p, aboveRoot) ==
  Join(Sep(w), FoldLeft(LAMBDA res, s : AddSegment(aboveRoot, res, s), <<>>, Segments(w, p)))

-----------------------------------------------------------------------------
(* Roots of windows paths, matched alike by resolve, normalize, dirname    *)
(* and parse.                                                              *)

\* The first index from i on whose character is or is not a separator.
RunEnd(p, i, sep) ==
  LET stops == {j \in i .. Len(p) : IsSep("win32", p[j]) # sep}
  IN  IF stops = {} THEN Len(p) + 1 ELSE CHOOSE j \in stops : \A k \in stops : j <= k

\* //server/share: the index after the share, or 0.
UncEnd(p) ==
  LET a == RunEnd(p, 3, FALSE)
      b == RunEnd(p, a, TRUE)
      c == RunEnd(p, b, FALSE)
  IN  IF Len(p) > 2 /\ IsSep("win32", p[1]) /\ IsSep("win32", p[2]) /\ a > 3 /\ b > a /\ c > b
      THEN c ELSE 0

UncDevice(p) ==
  LET a == RunEnd(p, 3, FALSE)
      b == RunEnd(p, a, TRUE)
  IN  <<"\\", "\\">> \o SubSeq(p, 3, a - 1) \o <<"\\">> \o SubSeq(p, b, UncEnd(p) - 1)

HasDrive(p) == Len(p) >= 2 /\ IsDeviceRoot(p[1]) /\ p[2] = ":"

\* The device, whether the path is absolute, and the index after the root.
Root(p) ==
  CASE UncEnd(p) > 0 -> [device |-> UncDevice(p), abs |-> TRUE, end |-> UncEnd(p)]
    [] UncEnd(p) = 0 /\ IsSep("win32", At(p, 1)) ->
         [device |-> <<>>, abs |-> TRUE,
          end |-> IF IsSep("win32", At(p, 2)) THEN 1 ELSE 2]
    [] HasDrive(p)   ->
         LET abs == IsSep("win32", At(p, 3))
         IN  [device |-> To(p, 2), abs |-> abs, end |-> IF abs THEN 4 ELSE 3]
    [] OTHER         -> [device |-> <<>>, abs |-> FALSE, end |-> 1]

-----------------------------------------------------------------------------
(* normalize, isAbsolute, join, resolve                                    *)

IsAbsoluteWin32(p) ==
  \/ IsSep("win32", At(p, 1))
  \/ HasDrive(p) /\ IsSep("win32", At(p, 3))

IsAbsolutePosix(p) == At(p, 1) = "/"

IsAbsolute(w, p) == IF w = "win32" THEN IsAbsoluteWin32(p) ELSE IsAbsolutePosix(p)

NormalizePosix(p) ==
  LET abs == IsAbsolutePosix(p)
      trailing == At(p, Len(p)) = "/"
      tail == NormalizeString("posix", p, ~abs)
      body == IF tail = <<>> THEN (IF abs THEN <<>> ELSE Dot) ELSE tail
  IN  IF p = <<>> THEN Dot
      ELSE (IF abs THEN <<"/">> ELSE <<>>) \o body
             \o (IF trailing /\ ~(abs /\ tail = <<>>) THEN <<"/">> ELSE <<>>)

NormalizeAfter(p, root) ==
  LET rest == NormalizeString("win32", From(p, root.end), ~root.abs)
      tail == IF rest = <<>> /\ ~root.abs THEN Dot ELSE rest
      trailing == tail # <<>> /\ IsSep("win32", p[Len(p)])
  IN  CASE p = <<>> -> Dot
        [] p # <<>> /\ UncEnd(p) = Len(p) + 1 -> UncDevice(p) \o <<"\\">>
        [] p # <<>> /\ UncEnd(p) # Len(p) + 1 ->
             root.device \o (IF root.abs THEN <<"\\">> ELSE <<>>) \o tail
               \o (IF trailing THEN <<"\\">> ELSE <<>>)

NormalizeWin32(p) == NormalizeAfter(p, Root(p))

Normalize(w, p) == IF w = "win32" THEN NormalizeWin32(p) ELSE NormalizePosix(p)

\* win32.join() keeps what joins from looking like the name of a server, unless the
\* first part itself begins like one.
LeadingSlashes(p) == RunEnd(p, 1, TRUE) - 1
StartsUnc(p) == LeadingSlashes(p) = 2 /\ Len(p) > 2

JoinWin32(parts) ==
  LET given == SelectSeq(parts, LAMBDA p : p # <<>>)
      joined == Join("\\", given)
      safe == IF ~StartsUnc(given[1]) /\ LeadingSlashes(joined) >= 2
              THEN <<"\\">> \o From(joined, LeadingSlashes(joined) + 1) ELSE joined
  IN  IF given = <<>> THEN Dot ELSE NormalizeWin32(safe)

JoinPosix(parts) ==
  LET given == SelectSeq(parts, LAMBDA p : p # <<>>)
  IN  IF given = <<>> THEN Dot ELSE NormalizePosix(Join("/", given))

JoinPaths(w, parts) == IF w = "win32" THEN JoinWin32(parts) ELSE JoinPosix(parts)

ResolvePosix(parts) ==
  LET given == SelectSeq(<<Cwd.posix>> \o parts, LAMBDA p : p # <<>>)
      starts == Last0({i \in DOMAIN given : given[i][1] = "/"})
      used == IF starts = 0 THEN given ELSE From(given, starts)
      tail == NormalizeString("posix", Join("/", used), starts = 0)
  IN  IF starts > 0 THEN <<"/">> \o tail ELSE IF tail = <<>> THEN Dot ELSE tail

\* One part of win32.resolve(), with its root.  Parts of other devices are passed over;
\* it is done once device and absolute path are known.
ResolvePart(acc, p, root) ==
  LET device == IF acc.device = <<>> THEN root.device ELSE acc.device
      other == root.device # <<>> /\ acc.device # <<>>
                 /\ LowerCase(root.device) # LowerCase(acc.device)
  IN  CASE acc.done \/ p = <<>> \/ other -> acc
        [] ~(acc.done \/ p = <<>> \/ other) /\ acc.abs ->
             [acc EXCEPT !.device = device, !.done = device # <<>>]
        [] ~(acc.done \/ p = <<>> \/ other) /\ ~acc.abs ->
             [device |-> device, tail |-> From(p, root.end) \o <<"\\">> \o acc.tail,
              abs |-> root.abs, done |-> root.abs /\ device # <<>>]

ResolveStep(acc, p) == ResolvePart(acc, p, Root(p))

\* The working directory, or the root of the device when it lies elsewhere; no directory
\* per drive is set in the environment.
WorkingDirectory(device) ==
  IF device = <<>> \/ LowerCase(To(Cwd.win32, 2)) = LowerCase(device) THEN Cwd.win32
  ELSE device \o <<"\\">>

Resolved(all) ==
  LET tail == NormalizeString("win32", all.tail, ~all.abs)
      path == all.device \o (IF all.abs THEN <<"\\">> ELSE <<>>) \o tail
  IN  IF path = <<>> THEN Dot ELSE path

\* From right to left, and the working directory at last.
ResolveWin32(parts) ==
  LET start == [device |-> <<>>, tail |-> <<>>, abs |-> FALSE, done |-> FALSE]
      given == FoldLeft(ResolveStep, start, Reverse(parts))
  IN  Resolved(ResolveStep(given, WorkingDirectory(given.device)))

Resolve(w, parts) == IF w = "win32" THEN ResolveWin32(parts) ELSE ResolvePosix(parts)

-----------------------------------------------------------------------------
(* relative                                                                *)

Common(a, b) ==
  Last0({n \in 1 .. (IF Len(a) < Len(b) THEN Len(a) ELSE Len(b)) : To(a, n) = To(b, n)})

\* The bug of one ".." too few: only separators are counted.
UpsShort(w, p, i) ==
  IF i > Len(p) + 1 THEN <<>>
  ELSE Join(Sep(w), [n \in 1 .. Cardinality({k \in i .. Len(p) : p[k] = Sep(w)}) |-> DotDot])

\* ".." for each segment of p that begins after index i - 1.
Ups(w, p, i) ==
  IF i > Len(p) + 1 THEN <<>>
  ELSE Join(Sep(w), [n \in 1 .. 1 + Cardinality({k \in i .. Len(p) : p[k] = Sep(w)}) |-> DotDot])

\* f and t are the resolved paths without their root.
RelativeTails(from, to, f, t) ==
  LET n == Common(f, t)
      sepAt == Last0({k \in 1 .. n : f[k] = "/"})
      \* the index in f and t of the separator before which they agree, 0 for the root
      up == IF n = Len(t) /\ Len(f) > n /\ f[n + 1] = "/" THEN n + 1
            ELSE IF n = Len(t) /\ Len(f) > n /\ n = 0 THEN 1 ELSE sepAt
  IN  CASE from = to \/ f = t -> <<>>
        [] from # to /\ f # t /\ n = Len(f) /\ t[n + 1] = "/" -> From(t, n + 2)
        [] from # to /\ f # t /\ n = Len(f) /\ t[n + 1] # "/" /\ n = 0 -> t
        [] OTHER -> Ups("posix", f, up + 1) \o From(<<"/">> \o t, up + 1)

RelativePosix(from, to) ==
  RelativeTails(from, to, Tail(ResolvePosix(<<from>>)), Tail(ResolvePosix(<<to>>)))

TrimLeading(p) == From(p, IF \A i \in DOMAIN p : p[i] = "\\" THEN Len(p) + 1
                          ELSE CHOOSE i \in DOMAIN p : p[i] # "\\" /\ \A j \in 1 .. i - 1 : p[j] = "\\")
TrimTrailing(p) == To(p, Last0({i \in DOMAIN p : i = 1 \/ p[i] # "\\"}))

Bare(p) == TrimTrailing(TrimLeading(LowerCase(p)))

\* f and t are the resolved paths in lower case, without the backslashes around them.
RelativeBare(toOrig, f, t) ==
  LET toTail == TrimLeading(toOrig)
      least == IF Len(f) < Len(t) THEN Len(f) ELSE Len(t)
      n == Common(f, t)
      sepAt == Last0({k \in 1 .. n : f[k] = "\\"})
      up == CASE n < least -> sepAt
              [] n = least /\ Len(f) > n /\ f[n + 1] = "\\" -> n + 1
              [] n = least /\ Len(f) > n /\ f[n + 1] # "\\" /\ n = 2 -> 4
              [] OTHER -> IF sepAt = 0 THEN 1 ELSE sepAt
      ups == Ups("win32", f, up + 1)
      rest == SubSeq(toTail, up, Len(t))
  IN  IF n < least /\ sepAt = 0 THEN toOrig
      ELSE IF n = least /\ Len(t) > n /\ t[n + 1] = "\\" THEN From(toTail, n + 2)
      ELSE IF n = least /\ Len(t) > n /\ n = 2 THEN From(toTail, n + 1)
      ELSE IF ups # <<>> THEN ups \o rest
      ELSE IF At(rest, 1) = "\\" THEN Tail(rest) ELSE rest

RelativeResolved(fromOrig, toOrig) ==
  IF LowerCase(fromOrig) = LowerCase(toOrig) THEN <<>>
  ELSE RelativeBare(toOrig, Bare(fromOrig), Bare(toOrig))

RelativeWin32(from, to) ==
  IF from = to THEN <<>> ELSE RelativeResolved(ResolveWin32(<<from>>), ResolveWin32(<<to>>))

Relative(w, from, to) == IF w = "win32" THEN RelativeWin32(from, to) ELSE RelativePosix(from, to)

Namespaced(p, r) ==
  IF Len(r) <= 2 THEN p
  ELSE IF r[1] = "\\" /\ r[2] = "\\" /\ r[3] \notin {"?", "."}
  THEN <<"\\", "\\", "?", "\\", "U", "N", "C", "\\">> \o From(r, 3)
  ELSE IF HasDrive(r) /\ r[3] = "\\" THEN <<"\\", "\\", "?", "\\">> \o r
  ELSE p

ToNamespacedPath(w, p) ==
  IF w = "posix" \/ p = <<>> THEN p ELSE Namespaced(p, ResolveWin32(<<p>>))

-----------------------------------------------------------------------------
(* dirname, basename, extname, parse, format                               *)

\* The last part of p from index start on: where it begins and ends; end is start - 1
\* when nothing but separators is left.
LastPart(w, p, start) ==
  LET end == Last0({i \in start .. Len(p) : ~IsSep(w, p[i])})
      sep == Last0({i \in start .. end : IsSep(w, p[i])})
  IN  IF end = 0 THEN [from |-> start, end |-> start - 1, sep |-> 0]
      ELSE [from |-> IF sep = 0 THEN start ELSE sep + 1, end |-> end, sep |-> sep]

Part(p, l) == SubSeq(p, l.from, l.end)

\* dirname() and parse() count the separator after a server and share to the root.
RootLength(p) ==
  CASE UncEnd(p) = Len(p) + 1 -> Len(p)
    [] UncEnd(p) \in 1 .. Len(p) -> UncEnd(p)
    [] UncEnd(p) = 0 /\ IsSep("win32", At(p, 1)) -> 1
    [] HasDrive(p) -> IF IsSep("win32", At(p, 3)) THEN 3 ELSE 2
    [] OTHER -> 0

DirnameWin32(p) ==
  LET root == RootLength(p)
      end == LastPart("win32", p, root + 1).sep
  IN  CASE p = <<>> -> Dot
        [] Len(p) = 1 -> IF IsSep("win32", p[1]) THEN p ELSE Dot
        [] Len(p) > 1 /\ UncEnd(p) = Len(p) + 1 -> p
        [] Len(p) > 1 /\ UncEnd(p) # Len(p) + 1 ->
             IF end > 0 THEN To(p, end - 1) ELSE IF root > 0 THEN To(p, root) ELSE Dot

DirnamePosix(p) ==
  LET end == LastPart("posix", p, 2).sep
      hasRoot == At(p, 1) = "/"
  IN  CASE p = <<>> -> Dot
        [] p # <<>> /\ end = 0 -> IF hasRoot THEN <<"/">> ELSE Dot
        [] end # 0 -> IF hasRoot /\ end = 2 THEN <<"/", "/">> ELSE To(p, end - 1)

Dirname(w, p) == IF w = "win32" THEN DirnameWin32(p) ELSE DirnamePosix(p)

\* The part without the extension ext.  Where the part is shorter than ext and agrees
\* with its end, or there is none, the trailing separators stay.
CutExtension(p, l, ext) ==
  LET base == Part(p, l)
  IN  CASE ext = <<>> \/ Len(ext) > Len(p) -> base
        [] ext # <<>> /\ ext = p -> <<>>
        [] ext # <<>> /\ Len(ext) <= Len(p) /\ ext # p ->
             IF base # ext /\ IsSuffix(base, ext) THEN From(p, l.from)
             ELSE IF base # ext /\ IsSuffix(ext, base) THEN To(base, Len(base) - Len(ext))
             ELSE base

BasenameWin32(p, ext) ==
  CutExtension(p, LastPart("win32", p, IF HasDrive(p) THEN 3 ELSE 1), ext)

BasenamePosix(p, ext) == CutExtension(p, LastPart("posix", p, 1), ext)

Basename(w, p, ext) == IF w = "win32" THEN BasenameWin32(p, ext) ELSE BasenamePosix(p, ext)

\* The index in a part of the dot of its extension, or 0.
ExtensionDot(base) ==
  LET dot == Last0({i \in DOMAIN base : base[i] = "."})
  IN  IF dot <= 1 THEN 0 ELSE dot

\* The extension of a part; ".." has none.
Extension(base) ==
  IF ExtensionDot(base) = 0 \/ base = DotDot THEN <<>> ELSE From(base, ExtensionDot(base))

ExtnameWin32(p) == Extension(BasenameWin32(p, <<>>))
ExtnamePosix(p) == Extension(BasenamePosix(p, <<>>))
Extname(w, p) == IF w = "win32" THEN ExtnameWin32(p) ELSE ExtnamePosix(p)

\* The parts of p with a root of that length, a last part l and the extension ext.
Parsed(p, root, l, ext) ==
  LET base == Part(p, l)
  IN  [root |-> To(p, root),
       dir  |-> IF l.sep > 0 THEN To(p, l.sep - 1) ELSE To(p, root),
       base |-> base, name |-> To(base, Len(base) - Len(ext)), ext |-> ext]

ParseWin32(p) ==
  LET l == LastPart("win32", p, RootLength(p) + 1)
  IN  Parsed(p, RootLength(p), l, Extension(Part(p, l)))

\* The part after the root is not known to begin there, so that "/.." has an extension.
ParsePosix(p) ==
  LET root == IF IsAbsolutePosix(p) THEN 1 ELSE 0
      l == LastPart("posix", p, root + 1)
      up == Part(p, l) = DotDot /\ root = 1 /\ l.sep = 0
  IN  Parsed(p, root, l, IF up THEN Dot ELSE Extension(Part(p, l)))

Parse(w, p) == IF w = "win32" THEN ParseWin32(p) ELSE ParsePosix(p)

\* _format() of an object whose base is its name and extension.
Format(w, o) ==
  LET dir == IF o.dir # <<>> THEN o.dir ELSE o.root
      base == IF o.base # <<>> THEN o.base ELSE o.name \o o.ext
  IN  IF dir = <<>> THEN base ELSE IF dir = o.root THEN dir \o base ELSE dir \o <<Sep(w)>> \o base

=============================================================================
