----------------------------- MODULE DataStream -----------------------------
(***************************************************************************)
(* DataStream (serialize/data_stream.h, .cpp) and the SERIALIZE macro of   *)
(* serializable.h: values of C++ types written to a buffer of bytes, each  *)
(* after a byte that names its type, and read back from a cursor.          *)
(*                                                                         *)
(* A scalar is the sequence of its bytes, the most significant first; in   *)
(* memory the bytes lie in the order of the machine.  A list, a map (keys  *)
(* ascending), a set or a vector is the sequence of its elements, an       *)
(* object with SERIALIZE the sequence of the fields named there.           *)
(***************************************************************************)
EXTENDS Integers, Sequences, SequencesExt

CONSTANTS
  Types,          \* the types that are written besides the messages below
  Sizes,          \* how many elements or characters they have
  MaxWrites,      \* bound: calls of operator<< on the sender's stream
  MaxRestarts     \* bound: reset, clear, load and copies of the bytes

VARIABLES
  m_buf, m_pos, m_byteorder,   \* the stream
  written,        \* history: the values in m_buf with their types
  got,            \* history: what the reads since m_pos was 0 returned
  restarts,
  misused         \* history: m_pos is where no value begins, after a read of another
                  \* type or because clear or load kept it

streamVars == <<m_buf, m_pos, m_byteorder, written, got, restarts, misused>>

DataType == <<"BOOL", "CHAR", "INT32", "INT64", "UINT32", "UINT64", "FLOAT", "DOUBLE",
              "ENUM", "STRING", "VECTOR", "LIST", "MAP", "SET", "CUSTOM">>

Code(tag) == (CHOOSE i \in 1 .. Len(DataType) : DataType[i] = tag) - 1

Width == [BOOL |-> 1, CHAR |-> 1, INT32 |-> 4, INT64 |-> 8, UINT32 |-> 4, UINT64 |-> 8,
          FLOAT |-> 4, DOUBLE |-> 8, ENUM |-> 4]

(* A type has a tag and the types it is made of. *)
Simple(tag) == [tag |-> tag, of |-> <<>>]
Custom(fields) == [tag |-> "CUSTOM", of |-> fields]

QosProfile == Custom(<<Simple("ENUM"), Simple("UINT32"), Simple("UINT32"), Simple("UINT32"),
                       Simple("ENUM"), Simple("ENUM")>>)
RoleAttributes ==
  Custom(<<Simple("STRING"), Simple("STRING"), Simple("INT32"), Simple("STRING"), Simple("UINT64"),
           QosProfile, Simple("UINT64"), Simple("STRING"), Simple("UINT64"), Simple("STRING")>>)
ChangeMsg == Custom(<<Simple("UINT64"), Simple("ENUM"), Simple("ENUM"), Simple("ENUM"), RoleAttributes>>)
Chatter == Custom(<<Simple("UINT64"), Simple("UINT64"), Simple("UINT64"), Simple("STRING")>>)

(* A value of a type with n elements, with bytes that tell places apart. *)
RECURSIVE Sample(_, _)
Sample(t, n) ==
  CASE t.tag \in DOMAIN Width -> [i \in 1 .. Width[t.tag] |-> 16 * n + i]
    [] t.tag = "STRING" -> [i \in 1 .. n |-> 64 + i]
    [] t.tag = "MAP" -> [i \in 1 .. n |-> <<Sample(t.of[1], i), Sample(t.of[2], n)>>]
    [] t.tag = "CUSTOM" -> [i \in 1 .. Len(t.of) |-> Sample(t.of[i], n)]
    [] OTHER -> [i \in 1 .. n |-> Sample(t.of[1], i)]

-----------------------------------------------------------------------------
(* Writing. *)

Memory(v, order) == IF order = "BigEndian" THEN v ELSE Reverse(v)

(* The machine's bytes, reversed on a big-endian machine. *)
Wire(v, order) == IF order = "BigEndian" THEN Reverse(Memory(v, order)) ELSE Memory(v, order)

Int32(n) == <<0, 0, n \div 256, n % 256>>
Concat(ss) == FlattenSeq(ss)
WriteLength(n, order) == <<Code("INT32")>> \o Wire(Int32(n), order)

RECURSIVE Write(_, _, _)

(* The elements of a container; a vector's memory is copied, but only as    *)
(* many bytes as it has elements.                                           *)
WriteElements(t, v, order) ==
  CASE t.tag = "STRING" -> v
    [] t.tag = "VECTOR" -> SubSeq(Concat([i \in 1 .. Len(v) |-> Memory(v[i], order)]), 1, Len(v))
    [] t.tag = "MAP" -> Concat([i \in 1 .. Len(v) |-> Write(t.of[1], v[i][1], order)
                                                      \o Write(t.of[2], v[i][2], order)])
    [] OTHER -> Concat([i \in 1 .. Len(v) |-> Write(t.of[1], v[i], order)])

(* write_args, from the serialize that SERIALIZE declares. *)
Serialize(t, v, order) == <<Code("CUSTOM")>> \o Concat([i \in 1 .. Len(v) |-> Write(t.of[i], v[i], order)])

(* An enumeration is written as its int32. *)
Write(t, v, order) ==
  CASE t.tag = "ENUM" -> Write(Simple("INT32"), v, order)
    [] t.tag \in DOMAIN Width \ {"ENUM"} -> <<Code(t.tag)>> \o Wire(v, order)
    [] t.tag = "CUSTOM" -> Serialize(t, v, order)
    [] OTHER -> <<Code(t.tag)>> \o WriteLength(Len(v), order) \o WriteElements(t, v, order)

-----------------------------------------------------------------------------
(* Reading returns whether it succeeded, the new m_pos and the value.  A     *)
(* type byte that differs leaves m_pos alone, except in unserialize, which   *)
(* has read it; the results of the nested reads are not looked at.           *)

Unread == <<>>
Failed(pos) == [ok |-> FALSE, pos |-> pos, value |-> Unread]

(* The number whose wire bytes are given, on a machine of the order. *)
FromWire(bytes, order) ==
  LET memory == IF order = "BigEndian" THEN Reverse(bytes) ELSE bytes
  IN  IF order = "BigEndian" THEN memory ELSE Reverse(memory)

Bytes(buf, pos, n) == SubSeq(buf, pos + 1, pos + n)
Number(v) == v[1] * 16777216 + v[2] * 65536 + v[3] * 256 + v[4]

(* resize gives zeros, then len bytes are copied over the elements. *)
Elements(bytes, n, w, order) ==
  [i \in 1 .. n |-> LET memory == [j \in 1 .. w |-> IF (i - 1) * w + j <= n THEN bytes[(i - 1) * w + j] ELSE 0]
                    IN  IF order = "BigEndian" THEN memory ELSE Reverse(memory)]

RECURSIVE Read(_, _, _, _), ReadAll(_, _, _, _)

(* Values of the given types one after the other. *)
ReadAll(ts, buf, pos, order) ==
  IF ts = <<>> THEN [ok |-> TRUE, pos |-> pos, value |-> <<>>]
  ELSE LET first == Read(Head(ts), buf, pos, order)
           rest == ReadAll(Tail(ts), buf, first.pos, order)
       IN  [ok |-> TRUE, pos |-> rest.pos, value |-> <<first.value>> \o rest.value]

Read(t, buf, pos, order) ==
  IF t.tag = "ENUM" THEN Read(Simple("INT32"), buf, pos, order)
  ELSE IF buf[pos + 1] # Code(t.tag) THEN Failed(IF t.tag = "CUSTOM" THEN pos + 1 ELSE pos)
  ELSE IF t.tag \in DOMAIN Width
  THEN [ok |-> TRUE, pos |-> pos + 1 + Width[t.tag],
        value |-> FromWire(Bytes(buf, pos + 1, Width[t.tag]), order)]
  ELSE IF t.tag = "CUSTOM" THEN ReadAll(t.of, buf, pos + 1, order)
  ELSE LET len == Number(Read(Simple("INT32"), buf, pos + 1, order).value)
           start == pos + 6
       IN  CASE t.tag = "STRING" ->
                  [ok |-> TRUE, pos |-> start + len, value |-> Bytes(buf, start, len)]
             [] t.tag = "VECTOR" ->
                  [ok |-> TRUE, pos |-> start + len,
                   value |-> Elements(Bytes(buf, start, len), len, Width[t.of[1].tag], order)]
             [] t.tag = "MAP" ->
                  LET all == ReadAll([i \in 1 .. 2 * len |-> t.of[2 - (i % 2)]], buf, start, order)
                  IN  [all EXCEPT !.value = [i \in 1 .. len |-> <<@[2 * i - 1], @[2 * i]>>]]
             [] OTHER -> ReadAll([i \in 1 .. len |-> t.of[1]], buf, start, order)

-----------------------------------------------------------------------------
ByteOrders == {"BigEndian", "LittleEndian"}

StreamInit ==
  /\ m_buf = <<>> /\ m_pos = 0 /\ m_byteorder \in ByteOrders
  /\ written = <<>> /\ got = <<>> /\ restarts = 0 /\ misused = FALSE

(* operator<< *)
StreamWrite(t, n) ==
  /\ Len(written) < MaxWrites
  /\ m_buf' = m_buf \o Write(t, Sample(t, n), m_byteorder)
  /\ written' = Append(written, [type |-> t, value |-> Sample(t, n)])
  /\ UNCHANGED <<m_pos, m_byteorder, got, restarts, misused>>

(* operator>> drops the result of read; beyond the end nothing is defined. *)
StreamRead(t) ==
  /\ ~ misused /\ m_pos < Len(m_buf)
  /\ IF t = written[Len(got) + 1].type
     THEN LET r == Read(t, m_buf, m_pos, m_byteorder)
          IN  m_pos' = r.pos /\ got' = Append(got, r.value) /\ UNCHANGED misused
     ELSE /\ m_buf[m_pos + 1] # Code(IF t.tag = "ENUM" THEN "INT32" ELSE t.tag)
          /\ m_pos' = Read(t, m_buf, m_pos, m_byteorder).pos
          /\ misused' = (m_pos' # m_pos)
          /\ UNCHANGED got
  /\ UNCHANGED <<m_buf, m_byteorder, written, restarts>>

Restart == restarts < MaxRestarts /\ restarts' = restarts + 1

Reset ==
  /\ Restart
  /\ m_pos' = 0 /\ got' = <<>> /\ misused' = FALSE
  /\ UNCHANGED <<m_buf, m_byteorder, written>>

(* The contents are replaced and m_pos is kept. *)
Replace(bytes, values) ==
  /\ Restart
  /\ m_buf' = bytes /\ written' = values /\ got' = <<>>
  /\ misused' = (m_pos # 0)
  /\ UNCHANGED <<m_pos, m_byteorder>>

Clear == Replace(<<>>, <<>>)

(* load: clear, then the bytes of a file in which save of a stream on a    *)
(* machine of either byte order put what it held, a value of type t.       *)
Load(t, n) ==
  \E order \in ByteOrders :
    Replace(Write(t, Sample(t, n), order), <<[type |-> t, value |-> Sample(t, n)]>>)

(* DataStream(ptr, size), on a machine of either byte order. *)
Construct(order) ==
  /\ Restart
  /\ m_byteorder' = order /\ m_pos' = 0 /\ got' = <<>> /\ misused' = FALSE
  /\ UNCHANGED <<m_buf, written>>

StreamNext ==
  \/ \E t \in Types \cup {ChangeMsg, Chatter} :
       StreamRead(t) \/ \E n \in Sizes : StreamWrite(t, n)
  \/ \E t \in Types, n \in Sizes : Load(t, n)
  \/ Reset \/ Clear \/ \E order \in ByteOrders : Construct(order)

StreamSpec == StreamInit /\ [][StreamNext]_streamVars

-----------------------------------------------------------------------------
WideVector(t) == t.tag = "VECTOR" /\ Width[t.of[1].tag] > 1

(* Values read with the types they were written with come back, in order,  *)
(* on a machine of either byte order and after any number of failed reads, *)
(* resets, later writes and loads of a file.  Excepted are reads from a    *)
(* cursor that clear or load left in the middle of other bytes, and the    *)
(* contents of a vector whose elements are wider than a byte: those are    *)
(* lost (data_stream.h:194-201), the place of what follows is not.         *)
ReadsBack ==
  \A i \in 1 .. Len(got) : WideVector(written[i].type) \/ got[i] = written[i].value
=============================================================================
