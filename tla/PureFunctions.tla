---------------------------- MODULE PureFunctions ----------------------------
(***************************************************************************)
(* The functions of the packages that keep no state, called one after the  *)
(* other with every input of a set: DER and PEM (crypto), the extensions   *)
(* of certificates and their verification (pki), numbers at an offset      *)
(* (bufio), paths, buffers, base64 and readables (common), the order of    *)
(* packages (ncommon) and command lines (args).                            *)
(* What one call answers may be what the next is given: an object is       *)
(* written and read back, a text is damaged and parsed.                    *)
(***************************************************************************)
EXTENDS Integers, Sequences, FiniteSets, SequencesExt

CONSTANTS
  Objects,           \* [field, v]: nodes to write
  Bodies,            \* [kind, bytes]: bodies that another program wrote
  Headers,           \* headers that another program wrote
  Texts,             \* [blocks, armor]: texts to write
  ExtensionLists,    \* lists of extensions to write
  Chains,            \* [added, deleted, chain, date, forgiven]: what a store is given, and loses, and must
                     \* verify; the date is a sequence, empty where the options give none
  Today,             \* the date on which a chain is verified
  Secrets,           \* [block, name, passwd, iv, given]: blocks to encrypt, and the password given for them
  Ciphers, UpperCase,
  LineBytes,         \* of a text
  Damages,           \* how often a text is damaged
  Cwd, Lower, OnePath, TwoPaths,   \* [w, p], and [w, p, q]
  Lists, Indices, Searches,        \* buffer lists, and what is asked of them
  Base, SafeHi, BIG_ENDIAN, NumberCalls, ByteCalls,   \* [way, format, n, off], and [value, off, size]
  ReadableCalls,     \* [chunks, prefixes, limit]
  Graphs,
  Options, Params, Commands, Numerals, OptionLike, Modes, CommandLines

ASSUME LineBytesAssumption == LineBytes \in Nat \ {0}

D == INSTANCE CertificateExtensions
T == INSTANCE TrustStore WITH Supported <- D!Supported
E == INSTANCE PemCrypt
P == INSTANCE Paths
B == INSTANCE Buffers
N == INSTANCE NumberCalls
R == INSTANCE Readables
G == INSTANCE PackageGraphs
A == INSTANCE Arguments

VARIABLES
  call,        \* the last call, with its arguments
  answer       \* what it answered

vars == <<call, answer>>

Idle == [fn |-> "idle"]
Nothing == [nothing |-> TRUE]

Init == call = Idle /\ answer = Nothing

\* A call with its arguments, and a call that is given what the one before answered.
Asks(c, a) == call' = c /\ answer' = a
Follows(fn, next, a) == call.fn = fn /\ call' = [call EXCEPT !.fn = next] /\ answer' = a

-----------------------------------------------------------------------------
WriteObject ==
  /\ call = Idle
  /\ \E o \in Objects :
        Asks([fn |-> "write", field |-> o.field, v |-> o.v],
             [size |-> D!SizeNode(o.field, o.v), bytes |-> D!WriteNode(o.field, o.v)])

ReadObject ==
  /\ call.fn = "write"
  /\ Follows("write", "read", D!Decode(call.field, answer.bytes))

ReadForeignBody ==
  /\ call = Idle
  /\ \E b \in Bodies :
        Asks([fn |-> "readForeign", kind |-> b.kind, bytes |-> b.bytes], D!DecodeBody(D!Prim(b.kind), b.bytes))

RewriteBody ==
  /\ call.fn = "readForeign"
  /\ answer.ok
  /\ Follows("readForeign", "rewrite", [bytes |-> D!WriteBody(D!Prim(call.kind), answer.v)])

ReadForeignHeader ==
  /\ call = Idle
  /\ \E b \in Headers : Asks([fn |-> "readHeader", bytes |-> b], D!ReadHeader(b))

WriteExtensions ==
  /\ call = Idle
  /\ \E l \in ExtensionLists :
        Asks([fn |-> "extend", list |-> l],
             [bytes |-> D!WriteNode(D!Plain(D!Extensions), D!ExtensionsToASN1(l))])

ReadExtensions ==
  /\ call.fn = "extend"
  /\ LET nodes == D!Decode(D!Plain(D!Extensions), answer.bytes)
     IN  Follows("extend", "extended", IF nodes.ok THEN D!ExtensionsFromASN1(nodes.v) ELSE nodes)

VerifyChain ==
  /\ call = Idle
  /\ \E x \in Chains :
        LET store == FoldLeft(T!Delete, T!AddAll(x.added), x.deleted)
        IN  Asks([fn |-> "verify"] @@ x, [result |-> T!Verify(store, x.chain, x.date, x.forgiven)])

WriteText ==
  /\ call = Idle
  /\ \E t \in Texts :
        Asks([fn |-> "text", text |-> t, damages |-> 0, crcs |-> 0],
             [lines |-> FlattenSeq([i \in DOMAIN t.blocks |-> E!Encode(t.blocks[i], t.armor)])])

\* A line is lost, repeated or changes places with the next, as when a text is put
\* together by hand; crcs counts the checksums that are no longer in their block.
Damage(lines, unchecked) ==
  /\ call.damages < Damages
  /\ call' = [call EXCEPT !.damages = @ + 1, !.crcs = @ + (IF unchecked THEN 1 ELSE 0)]
  /\ answer' = [lines |-> lines]

LoseLine ==
  /\ call.fn = "text"
  /\ \E i \in DOMAIN answer.lines : Damage(RemoveAt(answer.lines, i), answer.lines[i].k = "crc")

RepeatLine ==
  /\ call.fn = "text"
  /\ \E i \in DOMAIN answer.lines : Damage(InsertAt(answer.lines, i, answer.lines[i]), FALSE)

SwapLines ==
  /\ call.fn = "text"
  /\ \E i \in 1 .. Len(answer.lines) - 1 :
        LET first == answer.lines[i]
            second == answer.lines[i + 1]
        IN  Damage(ReplaceAt(ReplaceAt(answer.lines, i, second), i + 1, first),
                   "crc" \in {first.k, second.k} /\ {first.k, second.k} \cap {"begin", "end"} # {})

ReadText == call.fn = "text" /\ Follows("text", "readText", E!Decode(answer.lines, call.text.armor))

ReadFirst ==
  /\ call.fn = "text"
  /\ Follows("text", "readFirst", E!FromPEM(answer.lines, call.text.blocks[1].type, call.text.armor))

\* A block is encrypted, written, read as a text and decrypted.
EncryptBlock ==
  /\ call = Idle
  /\ \E x \in Secrets :
        LET closed == E!Encrypt(x.block, x.name, x.passwd, x.iv)
        IN  Asks([fn |-> "encrypt"] @@ x,
                 IF E!IsError(closed) THEN closed ELSE [lines |-> E!Encode(closed, TRUE)])

DecryptBlock ==
  /\ call.fn = "encrypt"
  /\ "lines" \in DOMAIN answer
  /\ Follows("encrypt", "decrypt", E!Decrypt(E!FromString(answer.lines, TRUE).value, call.given))

\* A number is written, in one of four ways, and read back the same way.
Canvas == [i \in 1 .. 10 |-> i % Base]
StoreNumber ==
  /\ call = Idle
  /\ \E x \in NumberCalls :
        Asks([fn |-> "store"] @@ x,
             CASE x.way = "format" -> N!WriteAt(x.format, Canvas, x.n, x.off)
               [] x.way = "width"  -> N!WriteSized(x.format, Canvas, x.n, x.off)
               [] OTHER            -> N!WriteVarintAt(Canvas, x.n, x.off, x.way = "varint2"))

FetchNumber ==
  /\ call.fn = "store"
  /\ answer.ok
  /\ Follows("store", "fetch",
             CASE call.way = "format" -> N!ReadAt(call.format, answer.data, call.off)
               [] call.way = "width"  -> N!ReadSized(call.format, answer.data, call.off)
               [] OTHER               -> N!ReadVarintAt(answer.data, call.off, call.way = "varint2"))

MoveBytes ==
  /\ call = Idle
  /\ \E x \in ByteCalls :
        LET w == N!WriteBytes(Canvas, x.value, x.off)
            s == N!WriteString(Canvas, x.value, x.off)
        IN  Asks([fn |-> "bytes"] @@ x,
                 [bytes |-> w, string |-> s, back |-> N!ReadBytes(w.data, x.off, Len(x.value)),
                  text |-> N!ReadString(s.data, x.off, Len(x.value)),
                  head |-> N!SliceBytes(Canvas, 0, x.size), tail |-> N!SliceBytes(Canvas, x.size, Len(Canvas) - x.size),
                  moved |-> N!Realloc(N!Copied(Canvas, 0), x.size, 0)])

-----------------------------------------------------------------------------
AskPath ==
  /\ call = Idle
  /\ \E x \in OnePath :
        LET w == x.w
            p == x.p
            n == P!Normalize(w, p)
        IN  Asks([fn |-> "path", w |-> w, p |-> p],
                 [normal |-> n, again |-> P!Normalize(w, n), resolved |-> P!Resolve(w, <<p>>), same |-> P!Resolve(w, <<n>>),
                  parsed |-> P!Parse(w, p), formatted |-> P!Resolve(w, <<P!Format(w, P!Parse(w, p))>>),
                  dir |-> P!Dirname(w, p), base |-> P!Basename(w, p, <<>>), ext |-> P!Extname(w, p),
                  stem |-> P!Basename(w, p, P!Extname(w, p)), namespaced |-> P!ToNamespacedPath(w, p)])

AskRelation ==
  /\ call = Idle
  /\ \E x \in TwoPaths :
        LET r == P!Relative(x.w, x.p, x.q)
        IN  Asks([fn |-> "relation", w |-> x.w, p |-> x.p, q |-> x.q],
                 [relative |-> r, back |-> P!Resolve(x.w, <<x.p, r>>), to |-> P!Resolve(x.w, <<x.q>>),
                  joined |-> P!Resolve(x.w, <<P!JoinPaths(x.w, <<x.p, x.q>>)>>), both |-> P!Resolve(x.w, <<x.p, x.q>>)])

-----------------------------------------------------------------------------
\* A list is asked for parts of it, and a copy of a part into a buffer.
AskList ==
  /\ call = Idle
  /\ \E l \in Lists, i \in Indices, j \in Indices :
        Asks([fn |-> "list", list |-> l, i |-> i, j |-> j],
             [slice |-> B!Slice(l, i, j), shallow |-> B!ShallowSlice(l, i, j), get |-> B!Get(l, i),
              copied |-> B!Copy(l, <<0, 0, 0>>, 1, i, j), consumed |-> B!Consume(l, i),
              word |-> B!ReadUIntOfList(l, i, 2, FALSE)])

SearchList ==
  /\ call = Idle
  /\ \E l \in Lists, s \in Searches, i \in Indices :
        Asks([fn |-> "search", list |-> l, search |-> s, i |-> i],
             [index |-> B!IndexOf(l, s, i),
              inBuffer |-> B!IndexInBuffer(B!Concat(l), s, i), last |-> B!LastIndexInBuffer(B!Concat(l), s, i)])

\* A readable gets prefixes and is read whole, and peeked into and then read.
AskReadable ==
  /\ call = Idle
  /\ \E x \in ReadableCalls :
        LET r == FoldLeft(LAMBDA under, prefix : R!PrefixedReadable(prefix, under), R!Source(x.chunks), x.prefixes)
            peeked == R!PeekReadable(r, x.limit)
        IN  Asks([fn |-> "readable"] @@ x,
                 [whole |-> R!ConsumeReadable(r), atOnce |-> peeked.k = "whole",
                  rest |-> IF peeked.k = "whole" THEN peeked.value ELSE R!ConsumeReadable(peeked)])

EncodeBuffer ==
  /\ call = Idle
  /\ \E l \in Lists, little \in BOOLEAN, top \in {0, 127, 128} :
        LET b == B!Concat(l)
            number == B!Number(<<top, 200, 3, Len(b)>>, FALSE)
            stored == B!WriteUInt(<<9, 9, 9, 9, 9, 9>>, number, 1, 4, little)
        IN  Asks([fn |-> "encode", bytes |-> b, little |-> little, number |-> number],
                 [back |-> B!DecodeBase64(B!EncodeBase64(b, little)), stored |-> stored,
                  number |-> B!ReadUInt(stored, 1, 4, little)])

OrderPackages ==
  /\ call = Idle
  /\ \E g \in Graphs :
        Asks([fn |-> "graph", g |-> g],
             [batches |-> G!ResolveBatchList(g), list |-> G!ResolveList(g), tree |-> G!ResolveTree(g)])

-----------------------------------------------------------------------------
ParseLine ==
  /\ call = Idle
  /\ \E mode \in Modes, argv \in CommandLines :
        Asks([fn |-> "parse", mode |-> mode, argv |-> argv], A!Parse(mode, argv))

\* What was parsed is formatted, with the options in any order, and parsed again.
ParseFormatted ==
  /\ call.fn = "parse"
  /\ "thrown" \notin DOMAIN answer
  /\ \E order \in SetToSeqs(DOMAIN answer.options) :
        LET argv == A!FormatArgs(order, answer)
        IN  /\ call' = [fn |-> "formatted", mode |-> call.mode, parsed |-> answer, order |-> order, argv |-> argv]
            /\ answer' = A!Parse(call.mode, argv)

Return == call # Idle /\ call' = Idle /\ answer' = Nothing

Next ==
  \/ WriteObject \/ ReadObject \/ ReadForeignBody \/ RewriteBody \/ ReadForeignHeader
  \/ WriteExtensions \/ ReadExtensions \/ VerifyChain
  \/ WriteText \/ LoseLine \/ RepeatLine \/ SwapLines \/ ReadText \/ ReadFirst
  \/ EncryptBlock \/ DecryptBlock \/ StoreNumber \/ FetchNumber \/ MoveBytes
  \/ AskPath \/ AskRelation
  \/ AskReadable \/ AskList \/ SearchList \/ EncodeBuffer \/ OrderPackages
  \/ ParseLine \/ ParseFormatted
  \/ Return

Spec == Init /\ [][Next]_vars

-----------------------------------------------------------------------------
(* DER and PEM.                                                            *)

\* What a value must be for its body to hold it.  The code checks none of it: a UTCTIME
\* of another century, a GENTIME before the year 1000, a zero with a sign and a string
\* with other characters are written all the same.
Holds(kind, v) ==
  CASE kind \in {"INTEGER", "ENUM"} -> ~(v.neg /\ v.mag = D!Zero)
    [] kind = "UNSIGNED" -> ~v.neg
    [] kind = "UTCTIME"  -> v.year \in 1970 .. 2069
    [] kind = "GENTIME"  -> v.year >= 1000
    [] kind \in D!Strings -> \A i \in DOMAIN v : v[i] \in D!CharsOf(kind)
    [] OTHER -> TRUE

RECURSIVE Representable(_, _)
Representable(t, v) ==
  CASE t.kind = "class"  -> \A i \in DOMAIN t.fields : Representable(t.fields[i].t, v[i])
    [] t.kind = "of"     -> \A i \in DOMAIN v : Representable(t.item, v[i])
    [] t.kind = "choice" -> Holds(v.kind, v.v)
    [] OTHER             -> Holds(t.kind, v)

\* Two usages are known not to survive: encipherOnly is the padding of a bit string of
\* seven bits, and decipherOnly is written and read as digitalSignature.
Legible(e) ==
  CASE e.id = D!KEY_USAGE -> "encipherOnly" \notin e.usages
                               /\ ("decipherOnly" \in e.usages <=> "digitalSignature" \in e.usages)
    [] e.id = D!BASIC_CONSTRAINTS -> TRUE
    [] OTHER -> e.value # <<>>

\* Every node, in every mode and with its optional fields present or not, is as long as
\* getSize() says and is read back as it was written, with nothing left over; and so are
\* the extensions of a certificate, whatever the values of the others in the list.
ObjectsAreRead ==
  /\ call.fn = "write" /\ Representable(call.field.t, call.v) => Len(answer.bytes) = answer.size
  /\ call.fn = "read" /\ Representable(call.field.t, call.v) =>
       answer.ok /\ answer.v = call.v /\ answer.rest = <<>>
  /\ call.fn = "extended" /\ (\A i \in DOMAIN call.list : Legible(call.list[i])) =>
       answer.ok /\ answer.v = call.list

-----------------------------------------------------------------------------
(* Certificates.                                                           *)

Signed(cert, parent) == cert.issuer = parent.subject /\ cert.signedBy = parent.key

\* A store vouches for a certificate that it has, or whose issuer it has.
Kept == ToSet(call.added) \ ToSet(call.deleted)
Vouched(cert) == cert \in Kept \/ \E c \in Kept : Signed(cert, c)

Valid(cert, date) == cert.notBefore <= date /\ date <= cert.notAfter

Trustworthy ==
  LET chain == call.chain
  IN  /\ \A i \in DOMAIN chain :
           /\ call.date # <<>> => Valid(chain[i], call.date[1])
           /\ D!Supported(chain[i].extensions)
           /\ i < Len(chain) => Signed(chain[i], chain[i + 1])
      /\ chain # <<>> => Vouched(Last(chain))

\* The store has a certificate, and another of its issuer's name that did not sign it: the
\* code asks only the other (the "extreme degenerate case" of its comments).
Overlooked(cert) ==
  /\ \E c \in Kept : c.subject = cert.issuer
  /\ ~\E c \in Kept : Signed(cert, c)

\* A chain is accepted when every certificate of it is signed by the next and the store
\* vouches for the last, all of them understood and valid on the date that was given, and
\* for no other reason unless a callback forgives the error (verifer.ts:87-180).  A call
\* that gives no date is held to the rest only: the documents have the dates checked then
\* too, which is DefaultDateIsChecked, and the code does not.
VerifiedIsTrusted ==
  call.fn = "verify" /\ call.forgiven = {} =>
    (answer.result = "verified"
       <=> Trustworthy /\ (call.chain # <<>> => ~Overlooked(Last(call.chain))))

\* "By default, the current date is used" (castore.ts:191): a chain that is accepted when
\* no date is given has no certificate that has expired.  The code computes that default
\* (verifer.ts:106-110) and hands verifyValidity() the options without it.
DefaultDateIsChecked ==
  call.fn = "verify" /\ call.forgiven = {} /\ call.date = <<>> /\ answer.result = "verified" =>
    \A i \in DOMAIN call.chain : Valid(call.chain[i], Today)

\* Values that the readers accept in more than one form: numbers of an OID with leading
\* zeroes, days that the month does not have, offsets of zero spelled out.
OneForm(kind, b) ==
  CASE kind = "OID" -> \A i \in DOMAIN b : b[i] = 128 => i > 1 /\ b[i - 1] >= 128
    [] OTHER -> TRUE

\* DER is canonical: what is accepted from others is what the code would have written, for
\* the bodies of booleans, integers, bit strings, nulls and OIDs and for headers.
AcceptedIsCanonical ==
  /\ call.fn = "rewrite" /\ OneForm(call.kind, call.bytes) => answer.bytes = call.bytes
  /\ call.fn = "readHeader" =>
       (answer.ok /\ answer.v.type < 31 =>
          D!WriteHeader(answer.v.type, answer.v.cls, answer.v.primitive, answer.v.size) \o answer.rest
            = call.bytes)

\* An armored text that was damaged and still had its checksums is refused or holds the
\* data that were written, whole blocks aside; fromPEM() takes the first block of the
\* right type and does not look further.
DamageIsDetected ==
  call.fn \in {"readText", "readFirst"} /\ call.text.armor /\ call.crcs = 0 /\ "value" \in DOMAIN answer =>
    LET written == {call.text.blocks[i].data : i \in DOMAIN call.text.blocks}
    IN  IF call.fn = "readFirst" THEN answer.value \in written
        ELSE {answer.value[i].data : i \in DOMAIN answer.value} \subseteq written

-----------------------------------------------------------------------------
(* Paths.                                                                  *)

Same(w, p, q) == IF w = "win32" THEN P!LowerCase(p) = P!LowerCase(q) ELSE p = q

\* Two shares, and the name of a server without a share.
ShareOf(p) == P!LowerCase(P!Parse("win32", P!Resolve("win32", <<p>>)).root)
OtherShare(p, q) == P!UncEnd(p) > 0 /\ P!UncEnd(q) > 0 /\ ShareOf(p) # ShareOf(q)
OnlyServer(p) == Len(p) > 1 /\ P!IsSep("win32", p[1]) /\ P!IsSep("win32", p[2]) /\ P!UncEnd(p) = 0

\* relative() leads from one path to the other, and join() to where resolve() does when
\* the second path is relative.  On windows three things are known not to: relative()
\* takes two shares of one server for directories, join() takes a server and a directory
\* for a share, and a drive without a slash for the root of the drive.
RelationsLead ==
  call.fn = "relation" =>
    LET win32 == call.w = "win32"
    IN  /\ ~(win32 /\ OtherShare(call.p, call.q)) => Same(call.w, answer.back, answer.to)
        /\ /\ ~P!IsAbsolute(call.w, call.q)
           /\ ~(win32 /\ (P!HasDrive(call.p) \/ P!HasDrive(call.q) \/ OnlyServer(call.p)))
           => Same(call.w, answer.joined, answer.both)

\* normalize() changes neither the file that is meant nor what is normal already, and the
\* parts of a path are the same whichever function gives them.  A windows server and
\* share are all root to parse() and a last part to basename(); posix parse() sees an
\* extension in "/..".
PartsAgree ==
  call.fn = "path" =>
    LET w == call.w
        unc == w = "win32" /\ P!UncEnd(call.p) > 0
        dots == w = "posix" /\ answer.parsed.root = <<"/">> /\ answer.base = P!DotDot
    IN  /\ answer.again = answer.normal
        /\ Same(w, answer.same, answer.resolved)
        /\ P!IsAbsolute(w, answer.normal) = P!IsAbsolute(w, call.p)
        /\ Same(w, answer.formatted, answer.resolved)
        /\ answer.parsed.name \o answer.parsed.ext = answer.parsed.base
        /\ answer.stem \o answer.ext = answer.base
        /\ ~unc => answer.parsed.base = answer.base
        /\ ~unc /\ ~dots => answer.parsed.ext = answer.ext
        /\ P!ToNamespacedPath(w, answer.namespaced) = answer.namespaced

\* The functions on paths agree on the file that is meant (path.ts:161-1498).
PathsLead == RelationsLead /\ PartsAgree

-----------------------------------------------------------------------------
(* Buffers.                                                                *)

Whole == B!Concat(call.list)
Proper == 0 <= call.i /\ call.i <= call.j /\ call.j <= Len(Whole)

\* A readable reads as its prefixes, the last one first, and its chunks put together,
\* peeked into or not; and peeking puts a readable together when, and only when, there is
\* something in it and no more than was asked for.
ReadableIsItsChunks ==
  call.fn = "readable" =>
    LET chunks == IF call.prefixes = <<>> \/ call.chunks # <<>> THEN call.chunks ELSE <<<<>>>>
    IN  /\ answer.whole = FlattenSeq(Reverse(call.prefixes)) \o FlattenSeq(call.chunks)
        /\ answer.rest = answer.whole
        /\ answer.atOnce <=> chunks # <<>> /\ Len(chunks) <= call.limit

\* A list of buffers answers as its bytes put together would, whatever buffers they are
\* in, empty ones included.  Only get(0), and with it a search across buffers, misses a
\* list that begins with an empty one; copy() may hand back a shorter view of what it
\* copied to.  Readables, too, are their chunks (stream.ts:434-489, 700-722).
ListIsItsBytes ==
  LET begins == call.list # <<>> /\ call.list[1] # <<>>
      i == call.i
      j == call.j
      part == SubSeq(Whole, i + 1, j)
  IN  /\ call.fn = "list" =>
           /\ Proper => answer.slice = part /\ B!Concat(answer.shallow) = part
           /\ i >= 0 => B!Concat(answer.consumed) = SubSeq(Whole, i + 1, Len(Whole))
           /\ i \in 0 .. Len(Whole) - 1 /\ begins => answer.get = Whole[i + 1]
           /\ Proper => /\ Len(answer.copied) >= B!Least(3, 1 + j - i)
                        /\ IsPrefix(answer.copied, B!CopyBuffer(Whole, <<0, 0, 0>>, 1, i, j))
      /\ call.fn = "search" /\ call.search # <<>> /\ begins => answer.index = answer.inBuffer
      /\ ReadableIsItsChunks

\* Base64, with padding and without, and the readers and writers of numbers undo each
\* other; the little-endian reader alone gives a number of 32 bits with the top one set
\* as a negative one.
CodesAreUndone ==
  call.fn = "encode" =>
    /\ answer.back = call.bytes
    /\ answer.number.digits = call.number.digits
    /\ answer.number.negative => call.little /\ call.number.digits[1] >= 128

\* A number that fits its format is read back from where it was written, by either kind
\* of function, the write returns where the next one may go and touches nothing else; but
\* writeI() of three bytes writes a fourth one, and of four bytes only three.
Confused == call.way = "width" /\ call.format.signed /\ ~call.format.be /\ call.format.width \in {3, 4}
Fits == CASE call.way = "varint"  -> call.n >= 0
          [] call.way = "varint2" -> call.n >= 0 /\ ~N!TooHigh(call.n)
          [] OTHER -> N!InRange(call.format, call.n) /\ ~N!Cut(call.format, call.n)
NumbersAreRead ==
  /\ call.fn = "store" /\ answer.ok /\ ~Confused =>
       /\ call.way \in {"format", "width"} => answer.next = call.off + call.format.width
       /\ \A i \in DOMAIN Canvas : answer.data[i] # Canvas[i] => i \in call.off + 1 .. answer.next
  /\ call.fn = "fetch" /\ Fits /\ ~Confused => answer.ok /\ answer.value = call.n

\* Bytes and strings are read back, and a copy begins as its original does.
BytesAreRead ==
  call.fn = "bytes" =>
    /\ answer.bytes.ok => answer.back.value = call.value /\ answer.bytes.next = Len(call.value)
    /\ answer.bytes.ok => answer.text = answer.back
    /\ answer.head.ok => N!Concatenated(answer.head.value, answer.tail.value) = Canvas
    /\ answer.head.ok => answer.moved = answer.head.value

\* A block that was encrypted is decrypted to what it was by the same password, and by no
\* other one, from headers and data as text; what it had under the headers that tell of
\* the encryption is lost.
SecretsAreRead ==
  call.fn = "decrypt" =>
    IF call.given = call.passwd
    THEN answer = E!Unset(E!Unset(call.block, "Proc-Type"), "DEK-Info") ELSE E!IsError(answer)

\* What is written is read back: nodes of DER, extensions, encrypted blocks, numbers and
\* base64 (asn1.ts:244-356, extensions.ts:114-373, pemcrypt.ts:49-97, bufio encoding.ts:24-932,
\* buffer.ts:382-546).
WrittenIsRead == ObjectsAreRead /\ CodesAreUndone /\ NumbersAreRead /\ BytesAreRead /\ SecretsAreRead

-----------------------------------------------------------------------------
(* Packages.                                                               *)

\* The batch of a package, counted from one.
BatchOf(n) == CHOOSE i \in DOMAIN answer.batches.value : n \in ToSet(answer.batches.value[i])

RECURSIVE NamesIn(_)
NamesIn(nodes) == IF nodes = <<>> THEN <<>>
                  ELSE <<Head(nodes).package>> \o NamesIn(Head(nodes).nodes) \o NamesIn(Tail(nodes))

\* Every package comes once, right after the last batch with something it requires; where
\* packages require each other in a circle there is no order, and nothing but an error.
PackagesInOrder ==
  call.fn = "graph" =>
    IF G!HasCycle(call.g)
    THEN answer.batches = G!Circular /\ answer.list = G!Circular /\ "error" \in DOMAIN answer.tree
    ELSE /\ \A n \in DOMAIN call.g :
              LET before == {BatchOf(m) : m \in G!Requirements(call.g, n)}
              IN  BatchOf(n) = 1 + (IF before = {} THEN 0 ELSE CHOOSE x \in before : \A y \in before : y <= x)
         /\ Len(answer.list.value) = Cardinality(DOMAIN call.g)
         /\ Len(NamesIn(answer.tree.value)) = Cardinality(DOMAIN call.g)
         /\ ToSet(NamesIn(answer.tree.value)) = DOMAIN call.g

-----------------------------------------------------------------------------
(* Command lines.                                                          *)

\* An option that takes as many values as it finds takes the parameters too when it comes
\* last, and a value that an option was given inline may look like an option on its own.
Swallows == /\ call.order # <<>>
            /\ LET o == Options[Last(call.order)] IN o.multiple /\ o.arity = 0
            /\ call.parsed.params # <<>>
LooksLikeOption(v) ==
  \E x \in (IF A!IsList(v) THEN ToSet(v.l) ELSE {v}) : "s" \in DOMAIN x /\ x.s \in DOMAIN OptionLike
Confusable == \E o \in DOMAIN call.parsed.options : LooksLikeOption(call.parsed.options[o])


=============================================================================
