--------------------------- MODULE MCPureFunctions ---------------------------
EXTENDS PureFunctions, TLC

-----------------------------------------------------------------------------
(* Nodes: the ends of every range and length, and for each class every     *)
(* combination of two values per field.                                    *)

Bytes(n, b) == [i \in 1 .. n |-> b]
Edge == {0, 1, 127, 128, 129, 255}

Magnitudes == {<<b>> : b \in Edge} \cup {<<b, c>> : b \in Edge \ {0}, c \in Edge}
                \cup {<<b, 0, c>> : b \in {1, 128}, c \in {0, 1}}
Dates == {[year |-> y, mon |-> m, day |-> d, hour |-> 23, min |-> 0, sec |-> 59, offset |-> o] :
            y \in {999, 1000, 1969, 1970, 2000, 2069, 2070, 9999}, m \in {1, 2, 12}, d \in {1, 28}, o \in {0, -720, 840, 330}}

Samples(kind) ==
  CASE kind = "BOOLEAN" -> BOOLEAN
    [] kind \in {"INTEGER", "ENUM"} -> [mag : Magnitudes, neg : BOOLEAN]
    [] kind = "UNSIGNED" -> [mag : Magnitudes, neg : {FALSE}]
    [] kind = "BITSTRING" -> {[bits |-> n, bytes |-> Bytes((n + 7) \div 8, 128)] : n \in {0, 1, 7, 8, 9, 17}}
    [] kind = "OCTSTRING" -> {Bytes(n, 7) : n \in {0, 1, 127, 128, 255, 256, 300}}
    [] kind = "NULL" -> {"null"}
    [] kind = "OID" -> {<<a, b>> : a \in 0 .. 1, b \in {0, 39}} \cup {<<2, b>> : b \in {0, 47, 48, 999}}
                         \cup {<<1, 2, c, d>> : c \in {0, 127, 128, 16383, 16384}, d \in {5, 2097152}}
    [] kind \in {"UTCTIME", "GENTIME"} -> Dates
    [] OTHER -> {Bytes(n, c) : n \in {0, 2}, c \in {48, 65, 64, 200}}

Fields(t) == {D!Plain(t), D!Explicit(3, t), D!Implicit(30, t), D!Optional(D!Plain(t)), D!Optional(D!Explicit(0, t))}

Primitives == {"BOOLEAN", "INTEGER", "UNSIGNED", "ENUM", "BITSTRING", "OCTSTRING", "NULL", "OID",
               "UTCTIME", "GENTIME", "PRINTSTRING", "NUMSTRING", "IA5STRING", "UTF8STRING"}
PrimitiveObjects == UNION {[field : Fields(D!Prim(k)), v : Samples(k)] : k \in Primitives}

\* Two values for a field.
Date1 == [year |-> 2024, mon |-> 2, day |-> 29, hour |-> 0, min |-> 0, sec |-> 0, offset |-> 0]
RECURSIVE Other(_)
Other(t) ==
  CASE t.kind = "BOOLEAN"  -> TRUE
    [] t.kind \in {"INTEGER", "UNSIGNED", "ENUM"} -> [mag |-> <<200, 1>>, neg |-> FALSE]
    [] t.kind = "BITSTRING" -> [bits |-> 4, bytes |-> <<240>>]
    [] t.kind = "NULL"     -> "null"
    [] t.kind = "OID"      -> <<2, 999, 3>>
    [] t.kind \in {"UTCTIME", "GENTIME"} -> Date1
    [] t.kind = "choice"   -> [kind |-> Last(t.kinds), v |-> Date1]
    [] t.kind = "any"      -> [kind |-> "PRINTSTRING", body |-> <<65, 66>>]
    [] t.kind = "class"    -> [i \in DOMAIN t.fields |-> Other(t.fields[i].t)]
    [] t.kind = "of"       -> <<Other(t.item), Other(t.item)>>
    [] OTHER               -> Bytes(60, 9)

Combinations(t) ==
  {[i \in DOMAIN t.fields |-> IF pick[i] THEN Other(t.fields[i].t) ELSE D!Default(t.fields[i].t)] :
     pick \in [DOMAIN t.fields -> BOOLEAN]}

Classes == {D!AlgorithmIdentifier, D!Attribute, D!Validity, D!SubjectPublicKeyInfo, D!Extension,
            D!TBSCertificate, D!Certificate, D!DigestInfo, D!CertificationRequestInfo,
            D!CertificationRequest, D!PublicKeyInfo, D!PrivateKeyInfo, D!EncryptedPrivateKeyInfo,
            D!RSAPublicKey, D!ECPrivateKey, D!ECDSASignature, D!DSAParams, D!DSASignature, D!DHParams,
            D!OpensslDSAParams, D!OpensslDSAPublicKey, D!OpensslDSAPrivateKey}
RSA == {[field |-> D!Plain(D!RSAPrivateKey), v |-> [i \in 1 .. 9 |-> [mag |-> IF i = n THEN <<255>> ELSE D!Zero, neg |-> FALSE]]] : n \in 1 .. 9}
Lists1 == {D!RDNSequence, D!Extensions, D!RDN}
MCObjects ==
  PrimitiveObjects \cup RSA \cup [field : {D!Plain(D!DSAPublicKey)}, v : Samples("UNSIGNED")]
    \cup UNION {{[field |-> D!Plain(t), v |-> v] : v \in Combinations(t)} : t \in Classes}
    \cup {[field |-> D!Plain(t), v |-> D!Default(t)] : t \in Lists1}
    \cup {[field |-> D!Plain(t), v |-> Other(t)] : t \in Lists1}

\* What other programs write.
Octets == {0, 1, 2, 127, 128, 129, 255}
Strings(n) == UNION {[1 .. k -> Octets] : k \in 0 .. n}
MCBodies == [kind : {"BOOLEAN", "INTEGER", "UNSIGNED", "BITSTRING", "NULL", "OID"}, bytes : Strings(3)]
MCHeaders == {<<t>> \o s : t \in {2, 5, 30, 31, 48, 62, 95, 130, 160, 192}, s \in Strings(3)}
               \cup {<<4, 131>> \o s : s \in [1 .. 3 -> Octets]}

\* Every usage and every pair, constraints with and without a length, bytes.
MCExtension ==
  {D!KeyUsage(c, u) : c \in BOOLEAN, u \in {v \in SUBSET D!Usages : Cardinality(v) \in {0, 1, 2, 8, 9}}}
    \cup {D!BasicConstraints(c, ca, len) : c \in BOOLEAN, ca \in BOOLEAN, len \in {<<>>} \cup {<<n>> : n \in {0, 127, 128, 300}}}
    \cup {D!Generic(<<2, 5, 29, n>>, c, v) : n \in {14, 37}, c \in BOOLEAN, v \in {<<>>, <<4>>, <<4, 0>>}}
MCExtensionLists ==
  {<<>>} \cup {<<e>> : e \in MCExtension}
    \cup {<<e, D!BasicConstraints(TRUE, TRUE, <<1>>)>> : e \in MCExtension}

\* Two roots of one name, one of them with another issuer too, two of the certificates
\* below them, and ends of a chain: one signed by itself, one no longer valid, one that
\* says what nobody understands.
Cert(subject, issuer, key, signedBy) ==
  [subject |-> subject, issuer |-> issuer, key |-> key, signedBy |-> signedBy,
   notBefore |-> 1, notAfter |-> 2, extensions |-> <<>>]
Old(c) == [c EXCEPT !.notAfter = 1]
With(c, e) == [c EXCEPT !.extensions = <<e>>]
Roots == {Cert("root", "root", "k1", "k1"), Cert("root", "root", "k2", "k2"), Cert("root", "top", "k1", "k3"),
          Old(Cert("root", "root", "k1", "k1"))}
Middles == {With(Cert("mid", "root", "k4", "k1"), D!BasicConstraints(TRUE, TRUE, <<>>)), Cert("mid", "root", "k4", "k2"),
            With(Cert("mid", "root", "k5", "k1"), D!Generic(<<2, 5, 29, 14>>, FALSE, <<4>>))}
Ends == {Cert("end", "mid", "k6", "k4"), Cert("end", "mid", "k6", "k6"), Cert("end", "end", "k6", "k6"),
         With(Cert("end", "mid", "k6", "k4"), D!Generic(<<2, 5, 29, 37>>, TRUE, <<4>>))}
Certs == Roots \cup Middles \cup Ends
UpTo(set, n) == UNION {[1 .. k -> set] : k \in 0 .. n}
MCChains ==
  [added : UpTo(Certs, 1) \cup {<<c, d>> : c \in Roots, d \in Roots \cup Middles}, deleted : {<<>>},
   chain : UpTo(Certs, 2) \cup {<<e, m, r>> : e \in Ends, m \in Middles, r \in Roots},
   date : {<<>>, <<2>>}, forgiven : {{}}]
    \cup [added : {<<c, d>> : c \in Roots, d \in Middles}, deleted : UpTo(Roots \cup Middles, 1),
          chain : UpTo(Roots \cup Middles, 1), date : {<<2>>}, forgiven : {{}}]
    \cup [added : {<<>>}, deleted : {<<>>}, chain : UpTo(Certs, 2), date : {<<2>>}, forgiven : {{"expired"}, {"expired", "unknown"}}]

\* Two certificates of one type and a key; two lines of data and a part of one.
Chain == <<E!Block("CERT", <<>>, <<1, 2, 3, 4, 5>>), E!Block("CERT", <<>>, <<6, 7>>)>>
Key == <<E!Block("KEY", <<<<"Proc-Type", "4">>, <<"DEK-Info", "AES">>>>, <<1, 1, 1, 2, 3>>), E!Block("CERT", <<>>, <<>>)>>
MCTexts == [blocks : {Chain, Key}, armor : BOOLEAN]

\* Blocks with other headers, with headers that are no encryption, and encrypted already;
\* ciphers that are known and not, with an iv and (none is) without.
MCCiphers == ("AES-128-CBC" :> <<16, 2>> @@ "RC2-40-ECB" :> <<5, 0>>)
MCUpperCase == ("aes-128-cbc" :> "AES-128-CBC" @@ "encrypted" :> "ENCRYPTED")
ProcTypes == {<<<<4>>, "ENCRYPTED">>, <<<<0, 4>>, "encrypted">>, <<<<0, 0>>, "ENCRYPTED">>, <<<<4>>, "MIC-ONLY">>,
              <<<<4>>, "ENCRYPTED", "X">>, <<<<>>, "ENCRYPTED">>}
DEKInfos == {<<"AES-128-CBC", <<0, 1, 2, 3>>>>, <<"aes-128-cbc", <<1, 2, 3>>>>, <<"RC2-40-ECB">>, <<"">>, <<"AES-128-CBC", <<1, 16>>>>}
SecretBlocks ==
  {E!Block("KEY", h, data) : h \in {<<>>, <<<<"Comment", <<"none">>>>>>}, data \in {<<>>, <<1, 2, 3, 4>>}}
    \cup {E!Block("KEY", <<<<"Proc-Type", p>>, <<"DEK-Info", q>>>>, <<1>>) : p \in ProcTypes, q \in DEKInfos}
MCSecrets == UNION {[block : SecretBlocks, name : {n}, passwd : {"secret"}, iv : ivs, given : {"secret", "guess"}] :
                      <<n, ivs>> \in {<<"AES-128-CBC", {<<0, 255>>, <<18, 160>>}>>, <<"RC2-40-ECB", {<<>>}>>,
                                      <<"aes-128-cbc", {<<1, 2>>}>>}}

-----------------------------------------------------------------------------
(* Numbers around the ends of every range, at both ends of a buffer.       *)

Bounds == {0, 1, N!MaxSafe, N!MaxSafe + 1} \cup UNION {{8 ^ k \div 2 - 1, 8 ^ k \div 2, 8 ^ k - 1, 8 ^ k} : k \in 1 .. 6}
Numbers == Bounds \cup {-n : n \in Bounds}
MCNumberCalls ==
  [way : {"format"}, format : N!Formats, n : Numbers, off : {-1, 0, 2, 3, 9}]
    \cup [way : {"width"}, format : [signed : BOOLEAN, width : 0 .. 9, be : BOOLEAN], n : Numbers, off : {0, 1, 2, 6, 10}]
    \cup [way : {"varint", "varint2"}, format : {N!NoFormat}, n : Numbers \cup {N!MaxSafe - 1}, off : {0, 1, 4, 9, 10}]
MCByteCalls == [value : {<<>>, <<1>>, <<1, 2, 1>>}, off : {-1, 0, 7, 8, 10, 11}, size : {0, 4, 10, 11}]

-----------------------------------------------------------------------------
(* Paths: every text of a few characters; a colon only after a drive.      *)

MCCwd == [posix |-> <<"/", "a", "/", "b">>, win32 |-> <<"C", ":", "\\", "a", "\\", "b">>]
MCLower == [c \in {"A", "C"} |-> IF c = "A" THEN "a" ELSE "c"]

TextsOf(chars, n) == UNION {[1 .. k -> chars] : k \in 0 .. n}
Posix(n) == TextsOf({"/", ".", "a"}, n)
Win32(n) == TextsOf({"\\", "/", ".", "a", "A"}, n)
              \cup {<<"C", ":">> \o p : p \in TextsOf({"\\", ".", "a"}, n)}
              \cup {<<"\\", "\\", "a", "/", "C">> \o p : p \in TextsOf({"\\", ".", "a"}, n - 1)}
              \cup {<<"c", ":", "/", "A">>, <<"/", "/", "a">>, <<"\\", "\\", "A", "\\", "\\", "C", "\\", "a">>}
MCOnePath == [w : {"posix"}, p : Posix(6)] \cup [w : {"win32"}, p : Win32(4)]
MCTwoPaths == [w : {"posix"}, p : Posix(4), q : Posix(4)] \cup [w : {"win32"}, p : Win32(2), q : Win32(2)]

-----------------------------------------------------------------------------
(* Buffers, with empty ones in between.                                    *)

MCLists == UNION {[1 .. k -> {<<>>, <<1>>, <<1, 2>>, <<1, 1, 2>>}] : k \in 0 .. 3}
MCReadableCalls == [chunks : UNION {[1 .. k -> {<<>>, <<1>>, <<2, 1>>}] : k \in 0 .. 3},
                    prefixes : {<<>>, <<<<3>>>>, <<<<3>>, <<>>>>, <<<<3>>, <<4>>>>}, limit : 0 .. 4]
MCIndices == -3 .. 6
MCSearches == {<<>>, <<1>>, <<2>>, <<1, 2>>, <<1, 1>>, <<2, 1, 1>>}

MCGraphs == UNION {[1 .. n -> SUBSET (1 .. n)] : n \in 0 .. 3}
              \cup {[n \in 1 .. 4 |-> IF n = 1 THEN {9} ELSE f[n]] : f \in [2 .. 4 -> SUBSET (1 .. 4)]}

-----------------------------------------------------------------------------
(* Command lines of up to three arguments.                                 *)

\* What A!None is, without a reference to A, whose constants these are.
Absent == [undefined |-> TRUE]
Config(type, multiple, arity, default, short) ==
  [type |-> type, multiple |-> multiple, arity |-> arity, default |-> default, short |-> short,
   count |-> FALSE, choices |-> {}, format |-> "none"]
MCOptions ==
  [force |-> Config("boolean", FALSE, 0, Absent, "f"),
   level |-> [Config("number", FALSE, 0, Absent, "l") EXCEPT !.count = TRUE],
   zone  |-> Config("string", TRUE, 0, [l |-> <<[s |-> "x"]>>], "z")]
MCParams == <<[type |-> "number", required |-> FALSE, multiple |-> FALSE, default |-> Absent, format |-> "none"]>>
MCCommands == {"run"}
MCNumerals == ("0" :> 0 @@ "1" :> 1 @@ "2" :> 2 @@ "3" :> 3)
MCOptionLike == ("-f" :> [k |-> "short", name |-> "f", negated |-> FALSE, inline |-> <<>>] @@ "--" :> [k |-> "dashes"])
MCModes == [loose : {FALSE}, unknown : BOOLEAN, variadic : {TRUE}]
Args == {A!Long("force", TRUE, <<>>), A!Long("zone", FALSE, <<>>), A!Long("zone", FALSE, <<"1">>),
         A!Long("zone", FALSE, <<"-f">>), A!Long("zone", FALSE, <<"--">>),
         A!Short("l", <<>>), A!Group(<<"f", "l">>, <<>>), A!Long("none", FALSE, <<"x", "x">>),
         A!Word("run"), A!Word("1"), A!Word("x"), A!Dashes}
MCCommandLines == UNION {[1 .. k -> Args] : k \in 0 .. 3}

=============================================================================
