------------------------------- MODULE MCBufio -------------------------------
EXTENDS Bufio

MCSlack == -1 .. 1

\* Every format, at the ends of its range and beyond them.
MCNumbers(format) ==
  {n \in {-1} \cup (IF format.signed
                    THEN {-(Base ^ format.width \div 2), Base ^ format.width \div 2 - 1, -Word, -MaxSafe}
                    ELSE {Base ^ format.width - 1, Base ^ format.width, MaxSafe}) : IsSafeInteger(n)}

MCNumberFields ==
  UNION {{NumberField(f, n) : n \in MCNumbers(f)} : f \in UnsignedFormats \cup SignedFormats}
    \cup {NumberField(U8, MaxSafe + 1)}

MCFloats == {[t |-> "float", v |-> [i \in 1 .. size |-> i % Base], be |-> be, finite |-> finite] :
               size \in {4, 8}, be \in BOOLEAN, finite \in BOOLEAN}

MCVarints ==
  {VarintField(n) : n \in {-1, 0, Base - 4, Base - 3, Base ^ 2 - 1, Base ^ 2, Word - 1, Word, MaxSafe, MaxSafe + 1}}
    \cup {[t |-> "varint2", n |-> n] :
            n \in {-1, 0, Half - 1, Half, Half + Half ^ 2 - 1, Half + Half ^ 2, MaxSafe - Base ^ 2, MaxSafe, MaxSafe + 1}}

MCCompanions ==
  {NumberField(U8, 1), VarintField(0), VarintField(Word), [t |-> "varint2", n |-> Half],
   BytesField(<<>>), BytesField(<<1, 0>>), StringField(<<>>), StringField(<<1, 2>>),
   [t |-> "varstring", v |-> <<>>, limit |-> 0], [t |-> "varbytes", v |-> <<>>],
   [t |-> "nullstring", v |-> <<1>>], [t |-> "checksum"],
   [t |-> "fill", value |-> 1, size |-> 2], [t |-> "seek", off |-> 1]}

MCFields ==
  MCNumberFields \cup MCFloats \cup MCVarints \cup MCCompanions
    \cup {[t |-> "varbytes", v |-> <<1, 2, 3, 4, 5, 6>>],
          [t |-> "varstring", v |-> <<1, 2>>, limit |-> 0],
          [t |-> "varstring", v |-> <<1, 2>>, limit |-> 1],
          [t |-> "varstring", v |-> <<1, 2, 3, 4, 5>>, limit |-> 5],
          [t |-> "nullstring", v |-> <<>>], [t |-> "nullstring", v |-> <<1, 0>>],
          [t |-> "fill", value |-> 3, size |-> 0], [t |-> "seek", off |-> -1]}

MCObjects == {<<f>> : f \in MCFields}
               \cup {<<f, c>> : f \in MCFields, c \in MCCompanions}
               \cup {<<c, f>> : c \in MCCompanions, f \in MCFields}
==============================================================================
