----------------------------- MODULE BinaryJson -----------------------------
(***************************************************************************)
(* The CBOR, MessagePack and BSON codecs of the JSON library the program   *)
(* is built with (thirdparty/nlohmann/detail/output/binary_writer.hpp and  *)
(* detail/input/binary_reader.hpp): to_xxx writes a value, from_xxx reads  *)
(* it in strict mode with exceptions, so a parse error ends the read.      *)
(*                                                                         *)
(* A value is a tuple: <<"null">>, <<"boolean", b>>, <<"integer", n>>,     *)
(* <<"unsigned", n>>, <<"float", n>>, <<"string", bytes>>,                 *)
(* <<"array", values>>, <<"object", function from keys>> or                *)
(* <<"binary", bytes, subtype>>.  A 64-bit number n is the sequence of its *)
(* 8 bytes, the highest first, so every width is exact: the two's          *)
(* complement of an integer, the IEEE 754 double of a float.               *)
(***************************************************************************)
EXTENDS Integers, FiniteSets, Sequences, SequencesExt, TLC

CONSTANTS
  Values,         \* values that are written
  Inputs,         \* byte sequences that are read though nobody wrote them
  NoSubtype       \* a binary value without has_subtype

VARIABLES
  format,         \* "cbor", "msgpack" or "bson"
  tag_handler,    \* how CBOR tags are treated: "error", "ignore" or "store"
  phase,          \* what happened last
  value,          \* the value to write, then the value that was written
  bytes,          \* the encoding
  got             \* what the reader made of it: <<value>>, or <<>> for an error

binaryVars == <<format, tag_handler, phase, value, bytes, got>>

-----------------------------------------------------------------------------
(* Numbers. *)
Zeros(k) == [i \in 1 .. k |-> 0]
Ones(k) == [i \in 1 .. k |-> 255]
Unsigned8(n) == Zeros(4) \o <<n \div 16777216, (n \div 65536) % 256, (n \div 256) % 256, n % 256>>
LowBytes(n, k) == SubSeq(n, 9 - k, 8)
Negative(n) == n[1] >= 128
Complement(n) == [i \in 1 .. 8 |-> 255 - n[i]]     \* -1 - n

FitsUnsigned(n, k) == SubSeq(n, 1, 8 - k) = Zeros(8 - k)
(* Fault: the sign of the narrower number is not looked at. *)
FitsSignedLoose(n, k) ==
  SubSeq(n, 1, 8 - k) = IF Negative(n) THEN Ones(8 - k) ELSE Zeros(8 - k)

FitsSigned(n, k) ==
  SubSeq(n, 1, 8 - k) = IF n[9 - k] >= 128 THEN Ones(8 - k) ELSE Zeros(8 - k)

Extended(b, signed) ==
  (IF signed /\ b[1] >= 128 THEN Ones(8 - Len(b)) ELSE Zeros(8 - Len(b))) \o b
Widths == <<1, 2, 4, 8>>

(* The double mant * 2^exp2 with that sign; mant < 2^24. *)
Ldexp(sign, mant, exp2) ==
  IF mant = 0 THEN <<128 * sign>> \o Zeros(7)
  ELSE LET h == CHOOSE k \in 0 .. 23 : 2^k <= mant /\ mant < 2^(k + 1)
           e == h + exp2 + 1023
           f == (mant - 2^h) * 2^(24 - h)
       IN  <<128 * sign + e \div 16, 16 * (e % 16) + f \div 2^20,
             (f \div 2^12) % 256, (f \div 16) % 256, 16 * (f % 16)>> \o Zeros(3)

Exponent(d) == 16 * (d[1] % 128) + d[2] \div 16
Fraction(d) == 2^20 * (d[2] % 16) + 2^12 * d[3] + 16 * d[4] + d[5] \div 16
IsFinite(d) == Exponent(d) < 2047
ZeroFraction(d) == d[2] % 16 = 0 /\ SubSeq(d, 3, 8) = Zeros(6)
IsNan(d) == ~IsFinite(d) /\ ~ZeroFraction(d)
Nan == <<127, 248>> \o Zeros(6)
Infinity(sign) == <<128 * sign + 127, 240>> \o Zeros(6)

(* float and double: the single with the same value, <<>> if none.  Below  *)
(* exponent 897 a single is denormal and its last bit is worth 2^-149.     *)
ToSingle(d) ==
  LET s == d[1] \div 128
      e == Exponent(d)
      f == Fraction(d)
      Pack(e8, m) == <<128 * s + e8 \div 2, 128 * (e8 % 2) + m \div 2^16,
                       (m \div 2^8) % 256, m % 256>>
      exact == d[5] % 16 = 0 /\ SubSeq(d, 6, 8) = Zeros(3)
  IN  CASE ~exact \/ e > 1150 -> <<>>
        [] e >= 897 -> IF f % 2 = 0 THEN Pack(e - 896, f \div 2) ELSE <<>>
        [] e \in 874 .. 896 -> IF (2^24 + f) % 2^(898 - e) = 0
                               THEN Pack(0, (2^24 + f) \div 2^(898 - e)) ELSE <<>>
        [] OTHER -> IF e = 0 /\ f = 0 THEN Pack(0, 0) ELSE <<>>

FromSingle(b) ==
  LET s == b[1] \div 128
      e == 2 * (b[1] % 128) + b[2] \div 128
      m == 2^16 * (b[2] % 128) + 2^8 * b[3] + b[4]
  IN  CASE e = 255 -> IF m = 0 THEN Infinity(s) ELSE Nan
        [] e = 0 -> Ldexp(s, m, -149)
        [] OTHER -> Ldexp(s, 2^23 + m, e - 150)

FromHalf(b) ==
  LET s == b[1] \div 128
      e == (b[1] \div 4) % 32
      m == 256 * (b[1] % 4) + b[2]
  IN  CASE e = 0 -> Ldexp(s, m, -24)
        [] e = 31 -> IF m = 0 THEN Infinity(s) ELSE Nan
        [] OTHER -> Ldexp(s, m + 1024, e - 25)

-----------------------------------------------------------------------------
(* The writers.  A key is written as a string; std::map orders the keys.   *)
(* Thrown stands for an exception of the writer.                           *)
Thrown == <<-1>>

KeyLess(a, b) ==
  \E i \in 1 .. Len(b) :
    /\ \A j \in 1 .. i - 1 : j <= Len(a) /\ a[j] = b[j]
    /\ i > Len(a) \/ a[i] < b[i]
RECURSIVE Sorted(_)
Sorted(keys) ==
  IF keys = {} THEN <<>>
  ELSE LET k == CHOOSE k \in keys : \A j \in keys \ {k} : KeyLess(k, j)
       IN  <<k>> \o Sorted(keys \ {k})
Keys(o) == Sorted(DOMAIN o)

WriteCompactFloat(d, prefix) ==
  IF ToSingle(d) # <<>> THEN <<prefix>> \o ToSingle(d) ELSE <<prefix + 1>> \o d

(* The first byte has the major type in 3 bits, and in 5 the number itself *)
(* or which width follows.                                                 *)
CborHead(major, n) ==
  IF FitsUnsigned(n, 1) /\ n[8] <= 23 THEN <<32 * major + n[8]>>
  ELSE LET i == CHOOSE i \in 1 .. 4 : /\ FitsUnsigned(n, Widths[i])
                                      /\ i > 1 => ~FitsUnsigned(n, Widths[i - 1])
       IN  <<32 * major + 23 + i>> \o LowBytes(n, Widths[i])

CborLength(major, s) == CborHead(major, Unsigned8(Len(s)))

CborInteger(v) ==
  IF v[1] = "integer" /\ Negative(v[2]) THEN CborHead(1, Complement(v[2]))
                                       ELSE CborHead(0, v[2])

CborFloat(d) ==
  CASE IsNan(d) -> <<249, 126, 0>>
    [] ~IsFinite(d) /\ ~IsNan(d) -> <<249, IF Negative(d) THEN 252 ELSE 124, 0>>
    [] OTHER -> WriteCompactFloat(d, 250)

CborString(s) == CborLength(3, s) \o s

CborBinary(b, subtype) ==
  (IF subtype = NoSubtype THEN <<>>
   ELSE LET i == CHOOSE i \in 1 .. 4 :
                   /\ FitsUnsigned(Unsigned8(subtype), Widths[i])
                   /\ i > 1 => ~FitsUnsigned(Unsigned8(subtype), Widths[i - 1])
        IN  <<215 + i>> \o LowBytes(Unsigned8(subtype), Widths[i]))
    \o CborLength(2, b) \o b

RECURSIVE WriteCbor(_)
WriteCbor(v) ==
  CASE v[1] = "null" -> <<246>>
    [] v[1] = "boolean" -> <<IF v[2] THEN 245 ELSE 244>>
    [] v[1] \in {"integer", "unsigned"} -> CborInteger(v)
    [] v[1] = "float" -> CborFloat(v[2])
    [] v[1] = "string" -> CborString(v[2])
    [] v[1] = "binary" -> CborBinary(v[2], v[3])
    [] v[1] = "array" ->
         CborLength(4, v[2]) \o FlattenSeq([i \in DOMAIN v[2] |-> WriteCbor(v[2][i])])
    [] v[1] = "object" ->
         LET ks == Keys(v[2])
         IN  CborLength(5, ks) \o FlattenSeq([i \in DOMAIN ks |->
               WriteCbor(<<"string", ks[i]>>) \o WriteCbor(v[2][ks[i]])])

(* A length in the first byte up to max, or behind the first code it fits. *)
MsgpackLength(s, fix, max, codes, widths) ==
  IF Len(s) <= max THEN <<fix + Len(s)>>
  ELSE LET n == Unsigned8(Len(s))
           i == CHOOSE i \in DOMAIN codes : /\ FitsUnsigned(n, widths[i])
                                            /\ i > 1 => ~FitsUnsigned(n, widths[i - 1])
       IN  <<codes[i]>> \o LowBytes(n, widths[i])

MsgpackPositive(n) ==
  IF FitsUnsigned(n, 1) /\ n[8] < 128 THEN <<n[8]>>
  ELSE LET i == CHOOSE i \in 1 .. 4 : /\ FitsUnsigned(n, Widths[i])
                                      /\ i > 1 => ~FitsUnsigned(n, Widths[i - 1])
       IN  <<203 + i>> \o LowBytes(n, Widths[i])

MsgpackNegative(n) ==
  IF FitsSigned(n, 1) /\ n[8] >= 224 THEN <<n[8]>>
  ELSE LET i == CHOOSE i \in 1 .. 4 : /\ FitsSigned(n, Widths[i])
                                      /\ i > 1 => ~FitsSigned(n, Widths[i - 1])
       IN  <<207 + i>> \o LowBytes(n, Widths[i])

MsgpackString(s) == MsgpackLength(s, 160, 31, <<217, 218, 219>>, <<1, 2, 4>>) \o s

FixedExt == <<1, 2, 4, 8, 16>>
MsgpackBinary(b, subtype) ==
  IF subtype = NoSubtype
  THEN MsgpackLength(b, 0, -1, <<196, 197, 198>>, <<1, 2, 4>>) \o b
  ELSE (IF \E i \in 1 .. 5 : FixedExt[i] = Len(b)
        THEN <<211 + CHOOSE i \in 1 .. 5 : FixedExt[i] = Len(b)>>
        ELSE MsgpackLength(b, 0, -1, <<199, 200, 201>>, <<1, 2, 4>>))
         \o <<subtype % 256>> \o b

RECURSIVE WriteMsgpack(_)
WriteMsgpack(v) ==
  CASE v[1] = "null" -> <<192>>
    [] v[1] = "boolean" -> <<IF v[2] THEN 195 ELSE 194>>
    [] v[1] = "integer" -> IF Negative(v[2]) THEN MsgpackNegative(v[2])
                                            ELSE MsgpackPositive(v[2])
    [] v[1] = "unsigned" -> MsgpackPositive(v[2])
    [] v[1] = "float" -> WriteCompactFloat(v[2], 202)
    [] v[1] = "string" -> MsgpackString(v[2])
    [] v[1] = "binary" -> MsgpackBinary(v[2], v[3])
    [] v[1] = "array" ->
         MsgpackLength(v[2], 144, 15, <<220, 221>>, <<2, 4>>)
           \o FlattenSeq([i \in DOMAIN v[2] |-> WriteMsgpack(v[2][i])])
    [] v[1] = "object" ->
         LET ks == Keys(v[2])
         IN  MsgpackLength(ks, 128, 15, <<222, 223>>, <<2, 4>>)
               \o FlattenSeq([i \in DOMAIN ks |->
                     WriteMsgpack(<<"string", ks[i]>>) \o WriteMsgpack(v[2][ks[i]])])

(* BSON: numbers are little-endian, an array has its indexes for keys.     *)
(* The sizes are computed before anything is written, which is also when a *)
(* key with a zero byte is refused.                                        *)
Digits(i) == IF i < 10 THEN <<48 + i>> ELSE <<48 + (i \div 10), 48 + (i % 10)>>
Entries(v) ==
  IF v[1] = "array" THEN [i \in DOMAIN v[2] |-> <<Digits(i - 1), v[2][i]>>]
  ELSE [i \in DOMAIN Keys(v[2]) |-> <<Keys(v[2])[i], v[2][Keys(v[2])[i]]>>]

CalcBsonEntryHeaderSize(name) == 1 + Len(name) + 1

CalcBsonIntegerSize(v) ==
  IF FitsSigned(v[2], 4) /\ (v[1] = "unsigned" => ~Negative(v[2])) THEN 4 ELSE 8

RECURSIVE CalcBsonSize(_)
CalcBsonSize(v) ==
  CASE v[1] \in {"object", "array"} ->
         LET es == Entries(v)
             Add(sum, e) == sum + CalcBsonEntryHeaderSize(e[1]) + CalcBsonSize(e[2])
         IN  4 + FoldLeft(Add, 0, es) + 1
    [] v[1] = "binary" -> 4 + Len(v[2]) + 1
    [] v[1] = "string" -> 4 + Len(v[2]) + 1
    [] v[1] = "boolean" -> 1
    [] v[1] = "float" -> 8
    [] v[1] \in {"integer", "unsigned"} -> CalcBsonIntegerSize(v)
    [] v[1] = "null" -> 0

RECURSIVE BsonThrows(_)
BsonThrows(v) ==
  \/ v[1] = "unsigned" /\ Negative(v[2])
  \/ v[1] \in {"object", "array"} /\ \E i \in DOMAIN Entries(v) :
       0 \in Range(Entries(v)[i][1]) \/ BsonThrows(Entries(v)[i][2])

Little(n, k) == Reverse(LowBytes(n, k))
BsonSizeBytes(k) == Little(Unsigned8(k), 4)

WriteBsonBinary(b, subtype) ==
  BsonSizeBytes(Len(b)) \o <<IF subtype = NoSubtype THEN 0 ELSE subtype % 256>> \o b

RECURSIVE WriteBson(_)
WriteBsonElement(name, v) ==
  LET type == CASE v[1] = "object" -> 3     [] v[1] = "array" -> 4
                [] v[1] = "binary" -> 5     [] v[1] = "boolean" -> 8
                [] v[1] = "float" -> 1      [] v[1] = "string" -> 2
                [] v[1] = "null" -> 10
                [] OTHER -> IF CalcBsonIntegerSize(v) = 4 THEN 16 ELSE 18
  IN  <<type>> \o name \o <<0>> \o WriteBson(v)

WriteBson(v) ==
  CASE v[1] \in {"object", "array"} ->
         BsonSizeBytes(CalcBsonSize(v))
           \o FlattenSeq([i \in DOMAIN Entries(v) |->
                 WriteBsonElement(Entries(v)[i][1], Entries(v)[i][2])])
           \o <<0>>
    [] v[1] = "binary" -> WriteBsonBinary(v[2], v[3])
    [] v[1] = "string" -> BsonSizeBytes(Len(v[2]) + 1) \o v[2] \o <<0>>
    [] v[1] = "boolean" -> <<IF v[2] THEN 1 ELSE 0>>
    [] v[1] = "float" -> Reverse(v[2])
    [] v[1] \in {"integer", "unsigned"} -> Little(v[2], CalcBsonIntegerSize(v))
    [] v[1] = "null" -> <<>>

ToBson(v) == IF v[1] # "object" \/ BsonThrows(v) THEN Thrown ELSE WriteBson(v)

-----------------------------------------------------------------------------
(* The readers.  Each takes the position of its first byte and returns     *)
(* <<what it read, the next position>>, or <<>> for a parse error; behind  *)
(* the last byte is eof.                                                   *)
Eof(p) == p > Len(bytes)

GetNumber(p, k, signed) ==
  IF Eof(p + k - 1) THEN <<>>
  ELSE <<Extended(SubSeq(bytes, p, p + k - 1), signed), p + k>>

GetLittle(p, k) ==
  IF Eof(p + k - 1) THEN <<>>
  ELSE <<Extended(Reverse(SubSeq(bytes, p, p + k - 1)), TRUE), p + k>>

(* A count as a number; one that needs over three bytes exceeds any input. *)
Count(n) == IF FitsUnsigned(n, 3) THEN 65536 * n[6] + 256 * n[7] + n[8]
                                  ELSE Len(bytes) + 1

GetString(p, count) ==
  IF Eof(p + count - 1) THEN <<>> ELSE <<SubSeq(bytes, p, p + count - 1), p + count>>

(* get_number and then a string of that length. *)
GetSized(n) == IF n = <<>> THEN <<>> ELSE GetString(n[2], Count(n[1]))
Tagged(tag, r) == IF r = <<>> THEN <<>> ELSE <<<<tag, r[1]>>, r[2]>>
Single(r) == IF r = <<>> THEN <<>> ELSE <<<<"float", FromSingle(LowBytes(r[1], 4))>>, r[2]>>

CborArgument(p) ==
  LET low == bytes[p] % 32
  IN  CASE low < 24 -> <<Unsigned8(low), p + 1>>
        [] low \in 24 .. 27 -> GetNumber(p + 1, Widths[low - 23], FALSE)
        [] OTHER -> <<>>

(* get_cbor_string and get_cbor_binary: one text, or chunks up to 0xFF. *)
RECURSIVE CborChunks(_, _, _)
GetCborText(major, p) ==
  CASE Eof(p) -> <<>>
    [] ~Eof(p) /\ bytes[p] \div 32 # major -> <<>>
    [] ~Eof(p) /\ bytes[p] = 32 * major + 31 -> CborChunks(major, p + 1, <<>>)
    [] OTHER -> GetSized(CborArgument(p))
CborChunks(major, p, text) ==
  IF ~Eof(p) /\ bytes[p] = 255 THEN <<text, p + 1>>
  ELSE LET r == GetCborText(major, p)
       IN  IF r = <<>> THEN <<>> ELSE CborChunks(major, r[2], text \o r[1])

GetCborString(p) == GetCborText(3, p)
GetCborBinary(p, subtype) ==
  LET r == GetCborText(2, p)
  IN  IF r = <<>> THEN <<>> ELSE <<<<"binary", r[1], subtype>>, r[2]>>

GetMsgpackString(p) ==
  CASE Eof(p) -> <<>>
    [] ~Eof(p) /\ bytes[p] \in 160 .. 191 -> GetString(p + 1, bytes[p] % 32)
    [] ~Eof(p) /\ bytes[p] \in 217 .. 219 ->
         GetSized(GetNumber(p + 1, Widths[bytes[p] - 216], FALSE))
    [] OTHER -> <<>>

GetMsgpackBinary(p) ==
  LET c == bytes[p]
      len == CASE c \in 196 .. 198 -> GetNumber(p + 1, Widths[c - 195], FALSE)
               [] c \in 199 .. 201 -> GetNumber(p + 1, Widths[c - 198], FALSE)
               [] OTHER -> <<Unsigned8(FixedExt[c - 211]), p + 1>>
      ext == c \notin 196 .. 198
  IN  IF len = <<>> \/ (ext /\ Eof(len[2])) THEN <<>>
      ELSE LET r == GetString(len[2] + (IF ext THEN 1 ELSE 0), Count(len[1]))
               subtype == IF ext THEN bytes[len[2]] ELSE NoSubtype
           IN  IF r = <<>> THEN <<>> ELSE <<<<"binary", r[1], subtype>>, r[2]>>

(* The loops over elements: count of them, or up to 0xFF when it is        *)
(* Endless.  An object keeps the last value given for a key.               *)
Endless == -1
RECURSIVE ParseInternal(_)
RECURSIVE GetArray(_, _, _)
GetArray(count, p, array) ==
  CASE count = 0 -> <<<<"array", array>>, p>>
    [] count = Endless /\ ~Eof(p) /\ bytes[p] = 255 -> <<<<"array", array>>, p + 1>>
    [] OTHER -> LET r == ParseInternal(p)
                IN  IF r = <<>> THEN <<>>
                    ELSE GetArray(IF count = Endless THEN Endless ELSE count - 1,
                                  r[2], Append(array, r[1]))

RECURSIVE GetObject(_, _, _)
GetObject(count, p, object) ==
  CASE count = 0 -> <<<<"object", object>>, p>>
    [] count = Endless /\ ~Eof(p) /\ bytes[p] = 255 -> <<<<"object", object>>, p + 1>>
    [] OTHER ->
         LET k == IF format = "cbor" THEN GetCborString(p) ELSE GetMsgpackString(p)
             r == IF k = <<>> THEN <<>> ELSE ParseInternal(k[2])
         IN  IF r = <<>> THEN <<>>
             ELSE GetObject(IF count = Endless THEN Endless ELSE count - 1,
                            r[2], (k[1] :> r[1]) @@ object)

(* The length 2^64 - 1 is static_cast<size_t>(-1), the indefinite length. *)
CborCount(p) ==
  IF bytes[p] % 32 = 31 THEN <<Endless, p + 1>>
  ELSE LET n == CborArgument(p)
       IN  IF n = <<>> THEN <<>>
           ELSE <<IF n[1] = Ones(8) THEN Endless ELSE Count(n[1]), n[2]>>

GetCborArray(p) ==
  LET n == CborCount(p) IN IF n = <<>> THEN <<>> ELSE GetArray(n[1], n[2], <<>>)
GetCborObject(p) ==
  LET n == CborCount(p) IN IF n = <<>> THEN <<>> ELSE GetObject(n[1], n[2], <<>>)

ParseCborInteger(p) ==
  LET n == CborArgument(p)
  IN  CASE n = <<>> -> <<>>
        [] n # <<>> /\ bytes[p] < 32 -> Tagged("unsigned", n)
        [] OTHER -> <<<<"integer", Complement(n[1])>>, n[2]>>

(* Only tags with a number are subtypes. *)
ParseCborTag(p) ==
  LET c == bytes[p]
      wide == c \in 216 .. 219
      tag == IF wide THEN GetNumber(p + 1, Widths[c - 215], FALSE) ELSE <<Zeros(8), p + 1>>
  IN  CASE c \notin (198 .. 212) \cup (216 .. 219) \/ tag_handler = "error" \/ tag = <<>> -> <<>>
        [] tag_handler = "store" /\ wide /\ tag # <<>> ->
             GetCborBinary(tag[2], Count(tag[1]))
        [] OTHER -> ParseInternal(tag[2])

ParseCborSimple(p) ==
  CASE bytes[p] = 244 -> <<<<"boolean", FALSE>>, p + 1>>
    [] bytes[p] = 245 -> <<<<"boolean", TRUE>>, p + 1>>
    [] bytes[p] = 246 -> <<<<"null">>, p + 1>>
    [] bytes[p] = 249 -> LET r == GetNumber(p + 1, 2, FALSE)
                         IN  IF r = <<>> THEN <<>>
                             ELSE <<<<"float", FromHalf(LowBytes(r[1], 2))>>, r[2]>>
    [] bytes[p] = 250 -> Single(GetNumber(p + 1, 4, FALSE))
    [] bytes[p] = 251 -> Tagged("float", GetNumber(p + 1, 8, FALSE))
    [] OTHER -> <<>>

ParseCborInternal(p) ==
  LET major == bytes[p] \div 32
  IN  CASE major \in {0, 1} -> ParseCborInteger(p)
        [] major = 2 -> GetCborBinary(p, NoSubtype)
        [] major = 3 -> Tagged("string", GetCborString(p))
        [] major = 4 -> GetCborArray(p)
        [] major = 5 -> GetCborObject(p)
        [] major = 6 -> ParseCborTag(p)
        [] major = 7 -> ParseCborSimple(p)

GetMsgpackArray(n) == IF n = <<>> THEN <<>> ELSE GetArray(Count(n[1]), n[2], <<>>)
GetMsgpackObject(n) == IF n = <<>> THEN <<>> ELSE GetObject(Count(n[1]), n[2], <<>>)

ParseMsgpackNumber(p) ==
  LET c == bytes[p]
  IN  CASE c <= 127 -> <<<<"unsigned", Unsigned8(c)>>, p + 1>>
        [] c = 202 -> Single(GetNumber(p + 1, 4, FALSE))
        [] c = 203 -> Tagged("float", GetNumber(p + 1, 8, FALSE))
        [] c \in 204 .. 207 -> Tagged("unsigned", GetNumber(p + 1, Widths[c - 203], FALSE))
        [] c \in 208 .. 211 -> Tagged("integer", GetNumber(p + 1, Widths[c - 207], TRUE))
        [] c >= 224 -> <<<<"integer", Extended(<<c>>, TRUE)>>, p + 1>>

ParseMsgpackInternal(p) ==
  LET c == bytes[p]
  IN  CASE c <= 127 \/ c \in 202 .. 211 \/ c >= 224 -> ParseMsgpackNumber(p)
        [] c \in 128 .. 143 -> GetMsgpackObject(<<Unsigned8(c % 16), p + 1>>)
        [] c \in 144 .. 159 -> GetMsgpackArray(<<Unsigned8(c % 16), p + 1>>)
        [] c \in (160 .. 191) \cup (217 .. 219) -> Tagged("string", GetMsgpackString(p))
        [] c = 192 -> <<<<"null">>, p + 1>>
        [] c = 193 -> <<>>
        [] c = 194 -> <<<<"boolean", FALSE>>, p + 1>>
        [] c = 195 -> <<<<"boolean", TRUE>>, p + 1>>
        [] c \in (196 .. 201) \cup (212 .. 216) -> GetMsgpackBinary(p)
        [] c \in 220 .. 221 -> GetMsgpackArray(GetNumber(p + 1, Widths[c - 218], FALSE))
        [] c \in 222 .. 223 -> GetMsgpackObject(GetNumber(p + 1, Widths[c - 220], FALSE))

ParseInternal(p) ==
  CASE Eof(p) -> <<>>
    [] ~Eof(p) /\ format = "cbor" -> ParseCborInternal(p)
    [] ~Eof(p) /\ format = "msgpack" -> ParseMsgpackInternal(p)

(* BSON.  The document's size is read and not used. *)
GetBsonCstr(p) ==
  LET ends == {q \in p .. Len(bytes) : bytes[q] = 0}
  IN  IF ends = {} THEN <<>>
      ELSE LET q == CHOOSE q \in ends : \A r \in ends : q <= r
           IN  <<SubSeq(bytes, p, q - 1), q + 1>>

GetBsonString(n) ==
  IF n = <<>> \/ (n # <<>> /\ (Negative(n[1]) \/ Count(n[1]) < 1)) THEN <<>>
  ELSE LET r == GetString(n[2], Count(n[1]) - 1)
       IN  IF r = <<>> \/ (r # <<>> /\ Eof(r[2])) THEN <<>> ELSE <<r[1], r[2] + 1>>

GetBsonBinary(n) ==
  IF n = <<>> \/ (n # <<>> /\ (Negative(n[1]) \/ Eof(n[2]))) THEN <<>>
  ELSE LET r == GetString(n[2] + 1, Count(n[1]))
       IN  IF r = <<>> THEN <<>> ELSE <<<<"binary", r[1], bytes[n[2]]>>, r[2]>>

RECURSIVE ParseBsonElementList(_, _, _)
ParseBsonDocument(p, is_array) ==
  LET size == GetLittle(p, 4)
      r == IF size = <<>> THEN <<>> ELSE ParseBsonElementList(size[2], is_array, <<>>)
  IN  Tagged(IF is_array THEN "array" ELSE "object", r)

(* A boolean whose byte is missing is true; the next get() finds the eof. *)
ParseBsonElementInternal(type, p) ==
  CASE type = 1 -> Tagged("float", GetLittle(p, 8))
    [] type = 2 -> Tagged("string", GetBsonString(GetLittle(p, 4)))
    [] type \in {3, 4} -> ParseBsonDocument(p, type = 4)
    [] type = 5 -> GetBsonBinary(GetLittle(p, 4))
    [] type = 8 -> <<<<"boolean", Eof(p) \/ bytes[p] # 0>>, p + 1>>
    [] type = 10 -> <<<<"null">>, p>>
    [] type \in {16, 18} -> Tagged("integer", GetLittle(p, IF type = 16 THEN 4 ELSE 8))
    [] OTHER -> <<>>

ParseBsonElementList(p, is_array, list) ==
  CASE Eof(p) -> <<>>
    [] ~Eof(p) /\ bytes[p] = 0 -> <<list, p + 1>>
    [] OTHER ->
         LET k == GetBsonCstr(p + 1)
             r == IF k = <<>> THEN <<>> ELSE ParseBsonElementInternal(bytes[p], k[2])
         IN  IF r = <<>> THEN <<>>
             ELSE ParseBsonElementList(r[2], is_array,
                    IF is_array THEN Append(list, r[1]) ELSE (k[1] :> r[1]) @@ list)

(* sax_parse, strict: nothing may follow the value. *)
SaxParse ==
  LET r == IF format = "bson" THEN ParseBsonDocument(1, FALSE) ELSE ParseInternal(1)
  IN  IF r # <<>> /\ r[2] = Len(bytes) + 1 THEN <<r[1]>> ELSE <<>>

-----------------------------------------------------------------------------
Encode(v) == CASE format = "cbor" -> WriteCbor(v)
               [] format = "msgpack" -> WriteMsgpack(v)
               [] format = "bson" -> ToBson(v)

BinaryInit ==
  /\ format \in {"cbor", "msgpack", "bson"}
  /\ tag_handler \in IF format = "cbor" THEN {"error", "ignore", "store"} ELSE {"error"}
  /\ phase = "start" /\ value = <<"null">> /\ bytes = <<>> /\ got = <<>>

(* to_cbor, to_msgpack or to_bson of v. *)
WriteBinary(v) ==
  /\ bytes' = Encode(v)
  /\ phase' = IF bytes' = Thrown THEN "thrown" ELSE "written"
  /\ value' = v /\ got' = <<>>
  /\ UNCHANGED <<format, tag_handler>>

Compose == phase = "start" /\ \E v \in Values : WriteBinary(v)

(* What was read from elsewhere is written again. *)
Rewrite == phase = "fed" /\ got # <<>> /\ WriteBinary(got[1])

(* A file or a connection that loses the end of the encoding. *)
CutShort ==
  /\ phase = "written"
  /\ \E n \in 0 .. Len(bytes) - 1 : bytes' = SubSeq(bytes, 1, n)
  /\ phase' = "cut"
  /\ UNCHANGED <<format, tag_handler, value, got>>

ReadBinary ==
  /\ phase \in {"written", "cut"}
  /\ got' = SaxParse
  /\ phase' = IF phase = "written" THEN "read" ELSE "cut read"
  /\ UNCHANGED <<format, tag_handler, value, bytes>>

Supply ==
  /\ phase = "start"
  /\ bytes' \in Inputs
  /\ phase' = "supplied"
  /\ UNCHANGED <<format, tag_handler, value, got>>

ReadSupplied ==
  /\ phase = "supplied"
  /\ got' = SaxParse
  /\ phase' = "fed"
  /\ UNCHANGED <<format, tag_handler, value, bytes>>

BinaryNext == Compose \/ Rewrite \/ CutShort \/ ReadBinary \/ Supply \/ ReadSupplied
BinarySpec == BinaryInit /\ [][BinaryNext]_binaryVars

-----------------------------------------------------------------------------
(* What a format keeps of a value: a nonnegative integer is unsigned (BSON *)
(* has signed ones only), NaNs are one value, and CBOR drops a subtype     *)
(* unless tags are stored while BSON always has one.                       *)
RECURSIVE Kept(_)
Kept(v) ==
  CASE v[1] \in {"integer", "unsigned"} ->
         IF Negative(v[2]) THEN v ELSE <<"integer", v[2]>>
    [] v[1] = "float" -> <<"float", IF IsNan(v[2]) THEN Nan ELSE v[2]>>
    [] v[1] = "binary" ->
         <<"binary", v[2], IF format = "bson" /\ v[3] = NoSubtype THEN 0
                           ELSE IF format = "cbor" /\ tag_handler # "store" THEN NoSubtype
                           ELSE v[3]>>
    [] v[1] = "array" -> <<"array", [i \in DOMAIN v[2] |-> Kept(v[2][i])]>>
    [] v[1] = "object" -> <<"object", [k \in DOMAIN v[2] |-> Kept(v[2][k])]>>
    [] OTHER -> v

RECURSIVE HasSubtype(_)
HasSubtype(v) ==
  CASE v[1] = "binary" -> v[3] # NoSubtype
    [] v[1] \in {"array", "object"} -> \E i \in DOMAIN v[2] : HasSubtype(v[2][i])
    [] OTHER -> FALSE

(* What a writer of binary_writer.hpp writes, the reader of the same       *)
(* format in binary_reader.hpp reads back as the same value, at every      *)
(* boundary between two widths, nested or not, also when the value itself  *)
(* came from another writer's encoding; only tags CBOR is told to refuse   *)
(* are refused.  A BSON document states its own length.                    *)
EncodingsReadBack ==
  phase = "read" =>
    IF format = "cbor" /\ tag_handler = "error" /\ HasSubtype(value) THEN got = <<>>
    ELSE /\ got # <<>> /\ Kept(got[1]) = Kept(value)
         /\ format = "bson" => Little(Unsigned8(Len(bytes)), 4) = SubSeq(bytes, 1, 4)

(* An encoding that lost its end is refused: no reader takes a part of a   *)
(* value for the whole.                                                    *)
CutIsRefused == phase = "cut read" => got = <<>>
=============================================================================
