----------------------------- MODULE PackageData -----------------------------
(***************************************************************************)
(* What the packages of node_sync carry: how the fields of each command    *)
(* are appended (package_stream_base.h, package.cpp), what happens to the  *)
(* package on its way, and what the peer reads from it; and how the value  *)
(* of a property becomes bytes and a value again (property_serializer.h).  *)
(*                                                                         *)
(* Data is a sequence of cells.  An integer of any width is one cell, a    *)
(* string a cell with its length and one cell per character.               *)
(***************************************************************************)
EXTENDS Naturals, Sequences, SequencesExt

CONSTANTS
  Char,        \* the characters of names and values; 0 is NUL
  MaxLen,      \* bound: characters of a string
  MaxNames,    \* bound: names in the answer to an ls
  PlainSize,   \* sizeof of the plain type (double, float, int, bool)
  HeaderSize   \* cells of a nid and a cmd

ASSUME DataAssumption ==
  /\ Char \subseteq Nat /\ 0 \in Char
  /\ {MaxLen, MaxNames, PlainSize} \subseteq Nat
  /\ HeaderSize \in Nat \ {0}

Strings(n) == UNION {[1..k -> Char] : k \in 0..n}
Zeros(n)   == [i \in 1..n |-> 0]

-----------------------------------------------------------------------------
(* class package: its data behind nid and cmd                              *)
AppendCell(data, c)     == Append(data, c)
AppendBytes(data, s)    == data \o s
append_string(data, s)  == AppendBytes(AppendCell(data, Len(s)), s)

(* The copy constructor calls init, which extends the copied package by    *)
(* another header.                                                         *)
Copied(data) == data \o Zeros(HeaderSize)

(* read: beyond the end it leaves a default value, or the buffer as it was.*)
ReadBytes(data, pos, n) ==
  IF pos + n > Len(data) THEN Zeros(n) ELSE SubSeq(data, pos + 1, pos + n)
ReadCell(data, pos) == ReadBytes(data, pos, 1)[1]

(* Mutant: the position behind a string without the cell of its length.    *)
read_stringTooShort(data, pos) ==
  LET n == ReadCell(data, pos)
  IN  [s |-> ReadBytes(data, pos + 1, n), pos |-> pos + n]

(* read_string: the string and the position behind it                      *)
read_string(data, pos) ==
  LET n == ReadCell(data, pos)
  IN  [s |-> ReadBytes(data, pos + 1, n), pos |-> pos + 1 + n]

-----------------------------------------------------------------------------
(* Mutant: write takes the package by value as send does.                  *)
WayByValue(kind, data) == Copied(data)

(***************************************************************************)
(* On its way a request of send is copied once (send takes it by value)    *)
(* and a reply twice, by value into "in" and from there into the caller's  *)
(* package.  A package of write is not copied at all.                      *)
(***************************************************************************)
Way(kind, data) ==
  CASE kind = "at" -> Copied(data)
    [] kind \in {"at_reply", "ls_reply", "get_reply"} -> Copied(Copied(data))
    [] kind \in {"attach", "child", "updated", "set"} -> data

-----------------------------------------------------------------------------
(* The fields of each command, written (at_reply carries a type name where *)
(* at carries a name) ...                                                  *)
BuildAt(m)     == append_string(<<>>, m.name)
BuildLs(m)     == FoldLeft(append_string, <<Len(m.names)>>, m.names)
BuildAttach(m) == AppendCell(append_string(append_string(<<>>, m.type), m.name), m.nid)
BuildChild(m)  ==
  AppendCell(append_string(append_string(<<m.nid>>, m.name), m.type), m.owner)

(* ... and read.                                                           *)
ParseAt(data) == [name |-> read_string(data, 0).s]

ParseLs(data) ==
  LET NextName(acc, i) ==
        LET r == read_string(data, acc.pos)
        IN  [pos |-> r.pos, names |-> Append(acc.names, r.s)]
      All == FoldLeft(NextName, [pos |-> 1, names |-> <<>>],
                      [i \in 1..ReadCell(data, 0) |-> i])
  IN  [names |-> All.names]

ParseAttach(data) ==
  LET type == read_string(data, 0)
      name == read_string(data, type.pos)
  IN  [type |-> type.s, name |-> name.s, nid |-> ReadCell(data, name.pos)]

ParseChild(data) ==
  LET name == read_string(data, 1)
      type == read_string(data, name.pos)
  IN  [nid |-> ReadCell(data, 0), name |-> name.s, type |-> type.s,
       owner |-> ReadCell(data, type.pos)]

-----------------------------------------------------------------------------
(* serializer_machine::serialize: nothing for a type it does not know      *)
Serialize(type, v) == IF type = "unknown" THEN <<>> ELSE v

(* QString(s.c_str()) ends at the first NUL.                               *)
UpToNul(s) ==
  SelectSeq([i \in DOMAIN s |-> IF \E j \in 1..i : s[j] = 0 THEN 0 ELSE s[i]],
            LAMBDA c : c # 0)

(* A plain type takes exactly its own number of bytes, a QByteArray all.   *)
PlainFrom(buf, old) == IF Len(buf) = PlainSize THEN buf ELSE old
ByteArrayFrom(buf)  == ReadBytes(buf, 0, Len(buf))

(* deserialize into a property that holds "old"                            *)
Deserialize(type, buf, old) ==
  CASE type = "plain"      -> PlainFrom(buf, old)
    [] type = "QString"    -> UpToNul(buf)
    [] type = "QByteArray" -> ByteArrayFrom(buf)
    [] type = "unknown"    -> old

(* The value of a property: behind its length in an answer to get_value    *)
(* and in an update, alone in set_value, which ends where the package ends.*)
BuildSized(m) == append_string(<<>>, Serialize(m.type, m.value))
BuildSet(m)   == AppendBytes(<<>>, Serialize(m.type, m.value))

(* request_prop_set_value sends nothing if there are no bytes.             *)
IsSent(m) == m.kind = "set" => Serialize(m.type, m.value) # <<>>

ParseSized(data) == read_string(data, 0).s
ParseSet(data)   == ReadBytes(data, 0, Len(data))

-----------------------------------------------------------------------------
Types == {"plain", "QString", "QByteArray", "unknown"}

Values(type) == IF type = "plain" THEN [1..PlainSize -> Char] ELSE Strings(MaxLen)

Names == [kind : {"at", "at_reply"}, name : Strings(MaxLen)]
Lists == [kind : {"ls_reply"},
          names : UNION {[1..k -> Strings(MaxLen - 1)] : k \in 0..MaxNames}]
Attachments == [kind : {"attach"}, type : Strings(1), name : Strings(MaxLen), nid : 0..1]
Children == [kind : {"child"}, type : Strings(1), name : Strings(MaxLen), nid : 0..1,
             owner : {0, 1}]
PropertyValues ==
  UNION {[kind : {"get_reply", "updated", "set"}, type : {t}, value : Values(t)] :
           t \in Types}

(* What the peer's copy of a property holds before.                        *)
Old == Zeros(PlainSize)

VARIABLES
  sent,   \* the fields of a command
  data,   \* the data of its package
  stage,  \* "new", "wire" or "read"
  got     \* the fields the peer has read, or the value it has then

vars == <<sent, data, stage, got>>

Init ==
  /\ sent \in Names \cup Lists \cup Attachments \cup Children \cup PropertyValues
  /\ data = <<>>
  /\ stage = "new"
  /\ got = IF sent \in PropertyValues THEN [value |-> Old] ELSE <<>>

Build(m) ==
  CASE m.kind \in {"at", "at_reply"} -> BuildAt(m)
    [] m.kind = "ls_reply" -> BuildLs(m)
    [] m.kind = "attach"   -> BuildAttach(m)
    [] m.kind = "child"    -> BuildChild(m)
    [] m.kind = "set"      -> BuildSet(m)
    [] m.kind \in {"get_reply", "updated"} -> BuildSized(m)

Send ==
  /\ stage = "new"
  /\ IsSent(sent)
  /\ data' = Way(sent.kind, Build(sent))
  /\ stage' = "wire"
  /\ UNCHANGED <<sent, got>>

Parse(m) ==
  CASE m.kind \in {"at", "at_reply"} -> ParseAt(data)
    [] m.kind = "ls_reply" -> ParseLs(data)
    [] m.kind = "attach"   -> ParseAttach(data)
    [] m.kind = "child"    -> ParseChild(data)
    [] m.kind = "set"      ->
         [value |-> Deserialize(m.type, ParseSet(data), got.value)]
    [] m.kind \in {"get_reply", "updated"} ->
         [value |-> Deserialize(m.type, ParseSized(data), got.value)]

Receive ==
  /\ stage = "wire"
  /\ got' = Parse(sent)
  /\ stage' = "read"
  /\ UNCHANGED <<sent, data>>

Next == Send \/ Receive

Spec == Init /\ [][Next]_vars

-----------------------------------------------------------------------------
(***************************************************************************)
(* The peer reads the fields that were appended, although most packages    *)
(* arrive longer than they were built.                                     *)
(***************************************************************************)
FieldsArrive ==
  (stage = "read" /\ sent \notin PropertyValues) =>
    \A f \in DOMAIN got : got[f] = sent[f]

(***************************************************************************)
(* The peer's property takes the value that was sent: all of it, or for a  *)
(* QString all of it up to the first NUL; a type nobody knows leaves it    *)
(* alone.  For set_value, where the length of the package is the length of *)
(* the value, this rests on write being the one way that does not copy the *)
(* package.                                                                *)
(***************************************************************************)
HasNul(s) == 0 \in ToSet(s)

ValuesArrive ==
  (stage = "read" /\ sent \in PropertyValues) =>
    CASE sent.type = "unknown" -> got.value = Old
      [] sent.type = "QString" /\ HasNul(sent.value) ->
           IsPrefix(got.value \o <<0>>, sent.value) /\ ~HasNul(got.value)
      [] OTHER -> got.value = sent.value
=============================================================================
