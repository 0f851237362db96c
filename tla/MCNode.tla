------------------------------- MODULE MCNode -------------------------------
(***************************************************************************)
(* The parts of a node with the parts whose algorithms recurse over their  *)
(* data: the encodings of messages and configurations.  As in MCNodeParts, *)
(* the first state picks the part that a behaviour exercises.              *)
(***************************************************************************)
EXTENDS MCNodeParts

CONSTANTS
  Pieces, MaxPieces, MaxUnsigned, MaxInteger, MaxExponent,        \* Json
  Values, Inputs, NoSubtype,                                      \* BinaryJson
  Types, Sizes, MaxWrites, MaxRestarts                            \* DataStream

VARIABLES
  pieces, piece, ended, current, next_unget, chars_read_total, json_at,
  token_buffer, number_type, codepoint, ranges, last_token, states, expects,
  ref_stack, root, result, tokens,
  format, tag_handler, phase, value, bytes, read,
  m_buf, m_pos, m_byteorder, stream_written, stream_got, restarts, misused

jsons == <<pieces, piece, ended, current, next_unget, chars_read_total, json_at,
           token_buffer, number_type, codepoint, ranges, last_token, states, expects,
           ref_stack, root, result, tokens>>
binaries == <<format, tag_handler, phase, value, bytes, read>>
streams == <<m_buf, m_pos, m_byteorder, stream_written, stream_got, restarts, misused>>

Text == INSTANCE Json
Binary == INSTANCE BinaryJson WITH got <- read
Stream == INSTANCE DataStream WITH written <- stream_written, got <- stream_got

NodeInit ==
  /\ which \in Parts \cup {"json", "binary", "stream"}
  /\ PartInit
  /\ Text!Init
  /\ Binary!BinaryInit /\ (which # "binary" => format = "bson")
  /\ Stream!StreamInit /\ (which # "stream" => m_byteorder = "LittleEndian")

CodecNext ==
  \/ /\ which = "json" /\ Text!JsonNext
     /\ UNCHANGED <<binaries, streams>>
  \/ /\ which = "binary" /\ Binary!BinaryNext
     /\ UNCHANGED <<jsons, streams>>
  \/ /\ which = "stream" /\ Stream!StreamNext
     /\ UNCHANGED <<jsons, binaries>>

NodeNext ==
  \/ CodecNext /\ UNCHANGED <<which, partVars>>
  \/ PartNext /\ UNCHANGED <<which, jsons, binaries, streams>>

NodeSpec == NodeInit /\ [][NodeNext]_<<which, partVars, jsons, binaries, streams>>
-----------------------------------------------------------------------------
(* Bytes of JSON texts: brackets, keys, quotes, halves of escapes and of   *)
(* surrogate pairs, signs, digits and parts of numbers, a byte order mark. *)
MCPieces ==
  {<<123>>, <<125>>, <<91>>, <<93>>, <<44>>, <<123, 34, 97, 34, 58>>,
   <<44, 34, 97, 34, 58>>, <<49, 125>>, <<34>>, <<34, 92, 117, 68, 56>>, <<48, 48>>,
   <<48, 48, 92, 117, 68, 67>>, <<237, 160>>, <<191>>, <<45>>, <<46>>, <<101>>, <<49>>,
   <<239, 187>>, <<102, 97, 108, 115, 101>>, <<92, 110>>, <<32>>, <<92, 34>>}

(* Numbers on both sides of every width of an encoding. *)
Repeat(n, c) == [i \in 1 .. n |-> c]
Zeros(n) == Repeat(n, 0)
Ones(n) == Repeat(n, 255)
Bytes(n) == Zeros(5) \o <<n \div 65536, (n \div 256) % 256, n % 256>>
Flipped(b) == [i \in 1 .. 8 |-> 255 - b[i]]
Positive(n) == <<"integer", Bytes(n)>>
Negative(n) == <<"integer", Flipped(Bytes(n))>>
Wide == {Zeros(4) \o Ones(4), Zeros(3) \o <<1>> \o Zeros(4), <<127>> \o Ones(7),
         Zeros(4) \o <<127>> \o Ones(3), Zeros(4) \o <<128>> \o Zeros(3)}
Boundaries == {0, 23, 24, 127, 128, 255, 256, 32767, 32768, 65535, 65536}
MCIntegers ==
  {Positive(n) : n \in Boundaries} \cup {Negative(n) : n \in Boundaries \cup {31, 32}}
    \cup {<<"integer", b>> : b \in Wide}
    \cup {<<"integer", Flipped(b)>> : b \in Wide}
    \cup {<<"unsigned", Ones(8)>>, <<"unsigned", <<128>> \o Zeros(7)>>}

(* Doubles that are and are not floats: both zeros, 1, -1.5, 0.1, the ends *)
(* of a float's range and of its subnormals, infinities, not a number.     *)
MCFloats ==
  {<<"float", d>> : d \in
     {Zeros(8), <<128>> \o Zeros(7), <<63, 240>> \o Zeros(6), <<191, 248>> \o Zeros(6),
      <<63, 185, 153, 153, 153, 153, 153, 154>>, <<71, 239, 255, 255, 224>> \o Zeros(3),
      <<71, 240>> \o Zeros(6), <<56, 16>> \o Zeros(6), <<56, 0>> \o Zeros(6),
      <<54, 160>> \o Zeros(6), <<54, 144>> \o Zeros(6), <<56, 0, 0, 0, 64>> \o Zeros(3),
      Zeros(7) \o <<1>>, <<63, 240, 0, 0, 16>> \o Zeros(3),
      <<127, 248>> \o Zeros(6), <<127, 240>> \o Zeros(6), <<255, 240>> \o Zeros(6)}}

(* Strings, binaries and containers on both sides of each length's width. *)
MCScalars ==
  MCIntegers \cup MCFloats \cup {<<"null">>, <<"boolean", TRUE>>}
    \cup {<<"string", Repeat(n, 97)>> : n \in {0, 1, 23, 24, 31, 32, 255, 256}}
    \cup {<<"binary", Repeat(n, 7), s>> : n \in {0, 1, 2, 4, 16, 24, 256},
                                         s \in {NoSubtype, 5, 200}}
MCContainers ==
  {<<"array", <<>>>>, <<"object", <<>>>>, <<"array", Repeat(15, <<"null">>)>>,
   <<"array", Repeat(16, <<"boolean", TRUE>>)>>,
   <<"array", Repeat(24, <<"boolean", FALSE>>)>>,
   <<"object", (<<97>> :> <<"array", <<<<"null">>, Negative(5)>>>>)
                 @@ (<<97, 98>> :> <<"boolean", FALSE>>)
                 @@ (<<>> :> <<"object", (<<98>> :> <<"string", <<99>>>>)>>)>>,
   <<"object", (<<97, 0>> :> <<"null">>)>>,
   <<"object", (<<98>> :> <<"unsigned", Ones(8)>>)>>,
   <<"object", [k \in {<<c>> : c \in 65 .. 80} |-> <<"boolean", TRUE>>]>>}
MCValues ==
  MCScalars \cup MCContainers
    \cup {<<"object", (<<107>> :> v)>> : v \in MCScalars}
    \cup {<<"array", <<v, <<"null">>>>>> : v \in MCScalars}

(* Every first byte, alone and with two more; half-precision floats; an    *)
(* indefinite map of indefinite strings; lengths past the end.             *)
MCInputs ==
  {<<c>> : c \in 0 .. 255}
    \cup {<<c>> \o t : c \in 0 .. 255, t \in [1 .. 2 -> {0, 1, 97, 197, 255}]}
    \cup {<<249, c, d>> : c \in {0, 1, 4, 60, 124, 126, 128, 252}, d \in {0, 1, 255}}
    \cup {<<191, 97, 97, 127, 97, 98, 255, 97, 97, 159, 1, 95, 65, 1, 255, 255, 255>>,
          <<155>> \o Ones(8) \o <<1, 255>>, <<59>> \o Ones(8), <<59, 128>> \o Zeros(7)}

(* A type of every width and every kind of container (a list is written as *)
(* a set is); DataStream adds the messages of the discovery and the tests. *)
TypeOf(tag, parts) == [tag |-> tag, of |-> [i \in DOMAIN parts |-> [tag |-> parts[i], of |-> <<>>]]]
MCTypes ==
  {TypeOf("ENUM", <<>>), TypeOf("SET", <<"INT64">>), TypeOf("MAP", <<"STRING", "FLOAT">>),
   TypeOf("VECTOR", <<"CHAR">>), TypeOf("VECTOR", <<"INT32">>)}
-----------------------------------------------------------------------------
(***************************************************************************)
(* What is written is read back: values streamed through DataStream with   *)
(* their types (a vector of elements wider than a byte excepted), the      *)
(* MessageInfo behind a message in a block, and JSON values in CBOR,       *)
(* MessagePack and BSON at every boundary of their widths; an encoding     *)
(* that lost its end is refused.                                           *)
(***************************************************************************)
WrittenReadsBack ==
  /\ Stream!ReadsBack /\ Info!InfoReadsBack
  /\ Binary!EncodingsReadBack /\ Binary!CutIsRefused

(* The value the JSON parser builds is the one its tokens denote, and its  *)
(* lexer's strings are UTF-8 and its numbers complete.                     *)
TextIsParsed == Text!ParsesTheText /\ Text!TokensAreClean
=============================================================================
