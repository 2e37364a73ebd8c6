------------------------------- MODULE PemCrypt -------------------------------
(***************************************************************************)
(* crypto/src/encoding/pemcrypt.ts: PEM blocks encrypted with a password,  *)
(* and the headers of pem.ts that tell so.                                 *)
(*                                                                         *)
(* The value of a header is the sequence of its parts, which commas keep   *)
(* apart; a numeral is a sequence of decimal digits, and hexadecimal text  *)
(* a sequence of digits to 15, with 16 for any other character.  The       *)
(* cipher and eb2k.derive() are external: the data of an encrypted block   *)
(* are one item that only its cipher, key and iv open.                     *)
(***************************************************************************)
EXTENDS Pem

CONSTANTS Ciphers,       \* the sizes [key, iv] of each cipher, by its name
          UpperCase      \* names that are not in capitals, and those in capitals

Upper(name) == IF name \in DOMAIN UpperCase THEN UpperCase[name] ELSE name

Error(what) == [error |-> what]
IsError(x) == "error" \in DOMAIN x

-----------------------------------------------------------------------------
(* Headers.                                                                *)

Get(block, name) == LET named == SelectSeq(block.headers, LAMBDA h : h[1] = name)
                    IN  IF named = <<>> THEN <<>> ELSE named[1][2]
Set(block, name, parts) == [block EXCEPT !.headers = SetHeader(@, <<name, parts>>)]
Unset(block, name) == [block EXCEPT !.headers = SelectSeq(@, LAMBDA h : h[1] # name)]

\* parseU32(): no sum may be zero after the first digit, so "04" is a four and "00" no number.
ParseU32(numeral) ==
  LET Sum(i) == FoldLeft(LAMBDA word, digit : word * 10 + digit, 0, SubSeq(numeral, 1, i))
  IN  IF Len(numeral) \notin 1 .. 10 \/ \E i \in 2 .. Len(numeral) : Sum(i) = 0 THEN Error("integer")
      ELSE [word |-> Sum(Len(numeral))]

ProcTypeOf(parts) ==
  IF Len(parts) # 2 THEN Error("Proc-Type")
  ELSE LET version == ParseU32(parts[1])
       IN  IF IsError(version) THEN version ELSE [version |-> version.word, state |-> Upper(parts[2])]

ProcTypeText(numeral, state) == <<numeral, Upper(state)>>

GetProcType(block) == ProcTypeOf(Get(block, "Proc-Type"))
SetProcType(block, numeral, state) == Set(block, "Proc-Type", ProcTypeText(numeral, state))

HexOf(bytes) == FlattenSeq([i \in DOMAIN bytes |-> <<bytes[i] \div 16, bytes[i] % 16>>])

\* Buffer.from(hex, "hex") stops at what is no digit; a digit left over is not missed.
BytesOf(hex) ==
  LET Good(n) == \A i \in 1 .. 2 * n : hex[i] < 16
      pairs == CHOOSE n \in 0 .. Len(hex) \div 2 : Good(n) /\ (n = Len(hex) \div 2 \/ ~Good(n + 1))
  IN  [i \in 1 .. pairs |-> 16 * hex[2 * i - 1] + hex[2 * i]]

DEKInfoOf(parts) ==
  IF parts = <<>> THEN Error("DEK-Info not found")
  ELSE IF Len(parts) > 2 \/ parts[1] = "" THEN Error("DEK-Info")
  ELSE LET hex == IF Len(parts) = 2 THEN parts[2] ELSE <<>>
       IN  IF Len(BytesOf(hex)) # Len(hex) \div 2 THEN Error("DEK-Info IV")
           ELSE [name |-> Upper(parts[1]), iv |-> BytesOf(hex)]

DEKInfoText(name, iv) == <<Upper(name)>> \o (IF iv = <<>> THEN <<>> ELSE <<HexOf(iv)>>)

GetDEKInfo(block) == DEKInfoOf(Get(block, "DEK-Info"))
SetDEKInfo(block, name, iv) == Set(block, "DEK-Info", DEKInfoText(name, iv))

\* A Proc-Type that cannot be read is no error here.
IsEncrypted(block) ==
  LET type == GetProcType(block)
  IN  ~IsError(type) /\ type.version = 4 /\ type.state = "ENCRYPTED"

-----------------------------------------------------------------------------
Derive(passwd, iv, sizes) == [passwd |-> passwd, iv |-> iv, sizes |-> sizes]
Encipher(name, key, iv, data) == <<[name |-> name, key |-> key, iv |-> iv, data |-> data]>>
Decipher(name, key, iv, items) ==
  IF items # <<>> /\ items[1].name = name /\ items[1].key = key /\ items[1].iv = iv
  THEN [data |-> items[1].data] ELSE Error("bad decrypt")

CipherInfo(name) == IF name \in DOMAIN Ciphers THEN [sizes |-> Ciphers[name]] ELSE Error("Unsupported cipher")

\* iv is what random.randomBytes() gave: as many bytes as the cipher asks for.
Encrypt(block, name, passwd, iv) ==
  LET info == CipherInfo(name)
      key == Derive(passwd, iv, info.sizes)
      closed == [block EXCEPT !.data = Encipher(name, key, iv, block.data)]
  IN  IF IsEncrypted(block) THEN Error("already encrypted")
      ELSE IF IsError(info) THEN info
      ELSE SetDEKInfo(SetProcType(closed, <<4>>, "ENCRYPTED"), name, iv)

Decrypt(block, passwd) ==
  LET info == GetDEKInfo(block)
      cipher == CipherInfo(info.name)
      opened == Decipher(info.name, Derive(passwd, info.iv, cipher.sizes), info.iv, block.data)
  IN  CASE ~IsEncrypted(block) -> Error("not encrypted")
        [] IsEncrypted(block) /\ IsError(info) -> info
        [] IsEncrypted(block) /\ ~IsError(info) ->
             IF IsError(cipher) THEN cipher
             ELSE IF IsError(opened) THEN opened
             ELSE Unset(Unset([block EXCEPT !.data = opened.data], "Proc-Type"), "DEK-Info")
=============================================================================
