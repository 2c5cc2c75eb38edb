---------------------------- MODULE PackageCodec ----------------------------
(***************************************************************************)
(* package_codec (package_stream.cpp) on both sides of one direction of a  *)
(* connection: threads write packages as a size and a body, in two writes  *)
(* of the transport, and the reading thread cuts the bytes, which arrive   *)
(* in pieces of any length, back into packages.                            *)
(*                                                                         *)
(* A byte is known by the package and the place it was written for.  Read  *)
(* in their order, the header bytes of a package give its size; any other  *)
(* HeaderLen bytes give some size or other.                                *)
(***************************************************************************)
EXTENDS Integers, Sequences

CONSTANTS
  Writer,       \* threads that write
  Package,      \* packages, each written once
  Size,         \* their sizes
  HeaderLen,    \* sizeof(pack_size_t)
  MaxChunk,     \* bound: bytes that arrive at once (the 256 of socket_client)
  MayBeShort,   \* whether write_some may write less than it was given
  MaxConn,      \* bound: connections, one after the other
  NoWriter

ASSUME CodecAssumption ==
  /\ Size \in [Package -> Nat \ {0}]   \* a body begins with a message id
  /\ HeaderLen \in Nat \ {0} /\ MaxChunk \in Nat \ {0}
  /\ MayBeShort \in BOOLEAN /\ MaxConn \in Nat
  /\ NoWriter \notin Writer

Byte == Package \X Nat

Header(p) == [i \in 1..HeaderLen |-> <<p, i>>]
Body(p)   == [i \in 1..Size[p] |-> <<p, HeaderLen + i>>]

(***************************************************************************)
(* The pack_size_t at the front of the buffer: the size of the package     *)
(* whose header it is; any size, too large or zero included, if it is no   *)
(* header at all.                                                          *)
(***************************************************************************)
AnySize == {0, 2 * MaxChunk} \cup {Size[p] : p \in Package}

(* Mutant: the size read is taken to count the header too.                 *)
SizesWithHeader(bytes) == {Size[p] - HeaderLen : p \in Package}

SizesIn(bytes) ==
  IF \E p \in Package : bytes = Header(p)
  THEN {Size[p] : p \in {q \in Package : bytes = Header(q)}}
  ELSE AnySize

VARIABLES
  write_lock,  \* the thread inside write
  stage,       \* what that thread writes next: "header" or "body"
  writing,     \* its package
  whole,       \* whether every byte so far was taken (the local "written")
  unwritten,   \* packages nobody has written yet
  begun,       \* history: the packages writes were begun for, in order
  headed,      \* history: this connection has the header of "writing"
  accepted,    \* history: packages for which write returned true, in order
  pipe,        \* bytes on their way
  up,          \* socket_client::is_connected
  conn,        \* connections so far
  torn,        \* history: a connection has carried a part of a package
  buffer, pack_size,   \* of the receiving package_codec
  decoding,    \* the reading thread is inside process_notification
  got          \* the bodies handed on, in order

writerVars == <<write_lock, stage, writing, whole, unwritten, begun, headed,
                accepted>>
linkVars   == <<pipe, up, conn, torn>>
readerVars == <<buffer, pack_size, decoding, got>>
vars == <<writerVars, linkVars, readerVars>>

Init ==
  /\ write_lock = NoWriter /\ stage = "header" /\ writing = <<>>
  /\ whole = TRUE
  /\ unwritten = Package
  /\ begun = <<>>
  /\ headed = FALSE
  /\ accepted = <<>>
  /\ pipe = <<>>
  /\ up = TRUE /\ conn = 1 /\ torn = FALSE
  /\ buffer = <<>> /\ pack_size = 0
  /\ decoding = FALSE
  /\ got = <<>>

-----------------------------------------------------------------------------
(***************************************************************************)
(* transport->write: all of the bytes or, if write_some is short, the      *)
(* first ones; nothing while there is no connection.                       *)
(***************************************************************************)
Transport(bytes) ==
  \/ /\ up
     /\ pipe' = pipe \o bytes
     /\ whole' = whole
  \/ /\ up /\ MayBeShort
     /\ \E k \in 1..(Len(bytes) - 1) : pipe' = pipe \o SubSeq(bytes, 1, k)
     /\ whole' = FALSE
  \/ /\ ~up
     /\ pipe' = pipe
     /\ whole' = FALSE

IsShort(bytes) == up /\ pipe' # pipe \o bytes

(* write takes write_lock and writes the size ...                          *)
WriteHeader(w, p) ==
  /\ write_lock = NoWriter
  /\ p \in unwritten
  /\ write_lock' = w
  /\ writing' = <<p>>
  /\ stage' = "body"
  /\ unwritten' = unwritten \ {p}
  /\ Transport(Header(p))
  /\ begun' = Append(begun, p)
  /\ headed' = up
  /\ torn' = (torn \/ IsShort(Header(p)))
  /\ UNCHANGED <<accepted, up, conn, readerVars>>

(* ... and then the body, whatever became of the size.                     *)
WriteBody(w) ==
  /\ write_lock = w /\ stage = "body"
  /\ Transport(Body(writing[1]))
  /\ stage' = "return"
  /\ torn' = (torn \/ IsShort(Body(writing[1])) \/ (up /\ ~headed))
  /\ UNCHANGED <<write_lock, writing, unwritten, begun, headed, accepted, up, conn,
                 readerVars>>

WriteReturns(w) ==
  /\ write_lock = w /\ stage = "return"
  /\ accepted' = IF whole THEN Append(accepted, writing[1]) ELSE accepted
  /\ write_lock' = NoWriter /\ stage' = "header" /\ writing' = <<>>
  /\ whole' = TRUE
  /\ UNCHANGED <<unwritten, begun, headed, linkVars, readerVars>>

-----------------------------------------------------------------------------
(* data_ready with some of the bytes: process_notification appends them.   *)
DataReady ==
  /\ ~decoding
  /\ pipe # <<>>
  /\ \E k \in 1..(IF Len(pipe) < MaxChunk THEN Len(pipe) ELSE MaxChunk) :
       /\ buffer' = buffer \o SubSeq(pipe, 1, k)
       /\ pipe' = SubSeq(pipe, k + 1, Len(pipe))
  /\ decoding' = TRUE
  /\ UNCHANGED <<writerVars, up, conn, torn, pack_size, got>>

(* Mutant: no test whether a size is already known.                        *)
NeedsHeaderAgain == Len(buffer) >= HeaderLen

NeedsHeader == pack_size = 0 /\ Len(buffer) >= HeaderLen

(* The loop: a size is taken off the buffer when none is known (and if it  *)
(* is zero the loop returns), ...                                          *)
DecodeHeader ==
  /\ decoding
  /\ NeedsHeader
  /\ pack_size' \in SizesIn(SubSeq(buffer, 1, HeaderLen))
  /\ buffer' = SubSeq(buffer, HeaderLen + 1, Len(buffer))
  /\ decoding' = (pack_size' # 0)
  /\ UNCHANGED <<writerVars, linkVars, got>>

(* Mutant: the test of the length is off by one.                           *)
HasMoreThanBody == pack_size # 0 /\ Len(buffer) > pack_size

(* ... a body when the buffer has all of it, ...                           *)
HasBody == pack_size # 0 /\ Len(buffer) >= pack_size

DecodeBody ==
  /\ decoding
  /\ HasBody
  /\ got' = Append(got, SubSeq(buffer, 1, pack_size))
  /\ buffer' = SubSeq(buffer, pack_size + 1, Len(buffer))
  /\ pack_size' = 0
  /\ UNCHANGED <<writerVars, linkVars, decoding>>

(* ... and otherwise it waits for more data.                               *)
DecodeReturns ==
  /\ decoding
  /\ ~NeedsHeader /\ ~HasBody
  /\ decoding' = FALSE
  /\ UNCHANGED <<writerVars, linkVars, buffer, pack_size, got>>

(* data_ready with an error.  What the connection carried is lost, and     *)
(* bytestream_closed does not touch the codec.                             *)
Closed ==
  /\ up /\ conn < MaxConn
  /\ ~decoding
  /\ up' = FALSE
  /\ pipe' = <<>>
  /\ UNCHANGED <<writerVars, conn, torn, readerVars>>

(* set_socket with the next one.  bytestream_opened does not touch the     *)
(* codec either: a package received in part stays in the buffer.           *)
Opened ==
  /\ ~up
  /\ up' = TRUE
  /\ conn' = conn + 1
  /\ torn' = (torn \/ buffer # <<>> \/ pack_size # 0)
  /\ headed' = FALSE
  /\ UNCHANGED <<write_lock, stage, writing, whole, unwritten, begun, accepted, pipe,
                 readerVars>>

ReadStep == DataReady \/ DecodeHeader \/ DecodeBody \/ DecodeReturns

Next ==
  \/ \E w \in Writer :
       \/ \E p \in Package : WriteHeader(w, p)
       \/ WriteBody(w)
       \/ WriteReturns(w)
  \/ ReadStep
  \/ Closed
  \/ Opened

Spec == Init /\ [][Next]_vars

(* A thread inside write goes on, and the reading thread reads.            *)
FairSpec ==
  /\ Spec
  /\ \A w \in Writer : WF_vars(WriteBody(w) \/ WriteReturns(w))
  /\ WF_vars(ReadStep)
-----------------------------------------------------------------------------
(* What the variables hold (package_stream.h:38-43).  Also of a stream out *)
(* of step no byte is made up.                                             *)
TypeOK ==
  /\ write_lock \in Writer \cup {NoWriter}
  /\ stage \in {"header", "body", "return"}
  /\ writing \in Seq(Package) /\ Len(writing) <= 1
  /\ whole \in BOOLEAN /\ headed \in BOOLEAN
  /\ unwritten \subseteq Package
  /\ begun \in Seq(Package) /\ accepted \in Seq(Package)
  /\ pipe \in Seq(Byte) /\ buffer \in Seq(Byte)
  /\ up \in BOOLEAN /\ torn \in BOOLEAN /\ conn \in Nat \ {0}
  /\ pack_size \in Nat
  /\ decoding \in BOOLEAN
  /\ got \in Seq(Seq(Byte))

(***************************************************************************)
(* Nothing but a short write, or a connection that changes inside a        *)
(* package, puts the receiver out of step: as long as no connection has    *)
(* carried a part of a package, what is handed on are whole packages, none *)
(* twice and in the order of the writes, with gaps where a connection was  *)
(* lost, whatever the pieces they arrived in.                              *)
(***************************************************************************)
PlaceOf(body) == {k \in DOMAIN begun : Body(begun[k]) = body}

InOrder ==
  ~torn =>
    /\ \A i \in DOMAIN got : PlaceOf(got[i]) # {}
    /\ \A i, j \in DOMAIN got : i < j =>
         \A k \in PlaceOf(got[i]), l \in PlaceOf(got[j]) : k < l

(***************************************************************************)
(* The decoder never keeps what it could hand on: when no byte is on its   *)
(* way and nobody writes, the packages write has accepted are out, without *)
(* a gap on a first connection, and nothing is left in the buffer.         *)
(***************************************************************************)
NothingKept ==
  (~torn /\ conn = 1 /\ up /\ pipe = <<>> /\ ~decoding /\ write_lock = NoWriter) =>
    /\ got = [i \in DOMAIN accepted |-> Body(accepted[i])]
    /\ buffer = <<>> /\ pack_size = 0

(* A package write has begun to write is handed on, unless a connection is *)
(* lost or has carried a part of a package.                                *)
Delivered ==
  \A p \in Package :
    writing = <<p>> ~> (torn \/ ~up \/ conn > 1 \/ \E i \in DOMAIN got : got[i] = Body(p))
=============================================================================
