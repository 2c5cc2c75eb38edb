------------------------- MODULE PackageCodecProofs -------------------------
(***************************************************************************)
(* For any packages, header, pieces and number of connections: as long as  *)
(* no connection has carried a part of a package, the reader stays in step *)
(* with the writers, hands packages on in their order and keeps none back. *)
(***************************************************************************)
EXTENDS PackageCodec, SequenceTheorems, TLAPS

Total(p) == HeaderLen + Size[p]

(* The bytes the reader has still to take apart.                           *)
Stream == buffer \o pipe

(* p was begun; p was begun before q.                                      *)
Holds(b, p)     == \E k \in DOMAIN b : b[k] = p
Before(b, p, q) == \E k, n \in DOMAIN b : k < n /\ b[k] = p /\ b[n] = q

NoneTwice(b)    == \A k, n \in DOMAIN b : b[k] = b[n] => k = n

(* A stream in step: behind a byte come the rest of its package and then   *)
(* the first byte of one that was begun later.                             *)
Flows(b, s) ==
  \A i, j \in DOMAIN s : i <= j =>
    LET p == s[i][1]
        a == s[i][2] + (j - i)
    IN  /\ a <= Total(p) => s[j] = <<p, a>>
        /\ a > Total(p) => Before(b, p, s[j][1])
        /\ a = Total(p) + 1 => s[j][2] = 1

(* Behind the end of a package comes the one begun after it.               *)
Follows(b, s) ==
  \A i, j \in DOMAIN s, k \in DOMAIN b :
    i <= j /\ s[i][1] = b[k] /\ s[i][2] + (j - i) = Total(b[k]) + 1 =>
      k < Len(b) /\ s[j][1] = b[k + 1]

(* Only bytes of packages that were begun.                                 *)
Known(b, s) ==
  \A i \in DOMAIN s : Holds(b, s[i][1]) /\ s[i][2] \in 1 .. Total(s[i][1])

(* write: one thread at a time, with the package begun last, and no        *)
(* package is begun twice.                                                 *)
Writes ==
  /\ write_lock = NoWriter <=> stage = "header"
  /\ stage = "header" => writing = <<>>
  /\ stage # "header" => /\ Len(writing) = 1 /\ Len(begun) > 0
                         /\ begun[Len(begun)] = writing[1]
  /\ \A k \in DOMAIN begun : begun[k] \notin unwritten
  /\ NoneTwice(begun)

(* The connection that is up has the header of the package and awaits its  *)
(* body.                                                                   *)
HalfWay == up /\ stage = "body" /\ headed

(* What comes next out of the stream, and what has come last into it.      *)
Front ==
  /\ Stream # <<>> => Stream[1][2] = IF pack_size = 0 THEN 1 ELSE HeaderLen + 1
  /\ Stream # <<>> /\ pack_size # 0 => pack_size = Size[Stream[1][1]]
  /\ Stream = <<>> /\ pack_size # 0 /\ up => HalfWay /\ pack_size = Size[writing[1]]
  /\ Stream = <<>> /\ HalfWay => pack_size # 0

Back ==
  /\ ~up => pipe = <<>>
  /\ up /\ Stream # <<>> =>
       LET z == Stream[Len(Stream)] IN
       IF HalfWay THEN z = <<writing[1], HeaderLen>> ELSE z[2] = Total(z[1])

(* What was handed on was begun before what is still to come.              *)
Handed ==
  /\ \A i \in DOMAIN got : \E p \in Package : Holds(begun, p) /\ got[i] = Body(p)
  /\ \A i, j \in DOMAIN got : i < j =>
       \A p, q \in Package : got[i] = Body(p) /\ got[j] = Body(q) => Before(begun, p, q)
  /\ \A i \in DOMAIN got, p \in Package : got[i] = Body(p) =>
       /\ \A j \in DOMAIN Stream : Before(begun, p, Stream[j][1])
       /\ HalfWay => Before(begun, p, writing[1])

InStep == ~torn => /\ Flows(begun, Stream) /\ Known(begun, Stream) /\ Front
                   /\ Back /\ Handed
                   /\ ~decoding => ~NeedsHeader /\ ~HasBody

(* On a first connection that holds, nothing is missing.                   *)
Gapless ==
  (~torn /\ conn = 1 /\ up) =>
    /\ whole
    /\ begun = IF write_lock = NoWriter THEN accepted ELSE Append(accepted, writing[1])
    /\ stage = "body" => headed
    /\ Len(got) <= Len(begun)
    /\ \A i \in DOMAIN got : got[i] = Body(begun[i])
    /\ IF Stream = <<>>
       THEN Len(begun) = Len(got) + (IF pack_size = 0 THEN 0 ELSE 1)
       ELSE /\ Len(got) < Len(begun)
            /\ Stream[1][1] = begun[Len(got) + 1]
            /\ Stream[Len(Stream)][1] = begun[Len(begun)]
    /\ Follows(begun, Stream)

IInv == TypeOK /\ Writes /\ InStep /\ Gapless

-----------------------------------------------------------------------------
USE CodecAssumption

(* A byte is known by its package and its place in it.                     *)
LEMMA Bytes ==
  ASSUME NEW x \in Byte
  PROVE  x[1] \in Package /\ x[2] \in Nat /\ x = <<x[1], x[2]>>
  BY DEF Byte

(* The length of a package with its header.                                *)
LEMMA Totals ==
  ASSUME NEW p \in Package
  PROVE  /\ Size[p] \in Nat /\ Size[p] > 0 /\ HeaderLen \in Nat /\ HeaderLen > 0
         /\ Total(p) \in Nat /\ Total(p) = HeaderLen + Size[p]
  BY DEF Total

(* The two pieces write hands to the transport.                            *)
LEMMA Pieces ==
  ASSUME NEW p \in Package
  PROVE  /\ Header(p) \in Seq(Byte) /\ Len(Header(p)) = HeaderLen
         /\ \A i \in 1 .. HeaderLen : Header(p)[i] = <<p, i>>
         /\ Body(p) \in Seq(Byte) /\ Len(Body(p)) = Size[p]
         /\ \A i \in 1 .. Size[p] : Body(p)[i] = <<p, HeaderLen + i>>
<1>1. /\ \A i \in 1 .. HeaderLen : <<p, i>> \in Byte
      /\ \A i \in 1 .. Size[p] : <<p, HeaderLen + i>> \in Byte
  BY Totals DEF Byte
<1>2. Header(p) \in [1 .. HeaderLen -> Byte] /\ Body(p) \in [1 .. Size[p] -> Byte]
  BY <1>1 DEF Header, Body
<1>3. /\ \A i \in 1 .. HeaderLen : Header(p)[i] = <<p, i>>
      /\ \A i \in 1 .. Size[p] : Body(p)[i] = <<p, HeaderLen + i>>
  BY DEF Header, Body
<1> HIDE DEF Header, Body
<1>4. /\ Header(p) \in Seq(Byte) /\ Len(Header(p)) = HeaderLen
      /\ Body(p) \in Seq(Byte) /\ Len(Body(p)) = Size[p]
  BY <1>2, Totals
<1> QED BY <1>3, <1>4

(* Neither is that of another package.                                     *)
LEMMA PiecesDiffer ==
  ASSUME NEW p \in Package, NEW q \in Package,
         Header(p) = Header(q) \/ Body(p) = Body(q)
  PROVE  p = q
<1>1. 1 \in 1 .. HeaderLen /\ 1 \in 1 .. Size[p] /\ 1 \in 1 .. Size[q]
  BY Totals
<1>2. CASE Header(p) = Header(q)
  <2>1. <<p, 1>> = <<q, 1>>
    BY <1>1, <1>2, Pieces
  <2> QED BY <2>1
<1>3. CASE Body(p) = Body(q)
  <2>1. <<p, HeaderLen + 1>> = <<q, HeaderLen + 1>>
    BY <1>1, <1>3, Pieces
  <2> QED BY <2>1
<1> QED BY <1>2, <1>3

(* Joining two pieces.                                                     *)
LEMMA Joined ==
  ASSUME NEW S, NEW s \in Seq(S), NEW t \in Seq(S)
  PROVE  /\ s \o t \in Seq(S) /\ Len(s \o t) = Len(s) + Len(t)
         /\ Len(s) \in Nat /\ Len(t) \in Nat
         /\ DOMAIN s = 1 .. Len(s) /\ DOMAIN (s \o t) = 1 .. Len(s) + Len(t)
         /\ \A i \in 1 .. Len(s) : (s \o t)[i] = s[i]
         /\ \A i \in Len(s) + 1 .. Len(s) + Len(t) : (s \o t)[i] = t[i - Len(s)]
<1>1. Len(s) \in Nat /\ Len(t) \in Nat /\ DOMAIN s = 1 .. Len(s)
  BY LenProperties
<1>2. /\ s \o t \in Seq(S) /\ Len(s \o t) = Len(s) + Len(t)
      /\ \A i \in 1 .. Len(s) + Len(t) :
           (s \o t)[i] = IF i <= Len(s) THEN s[i] ELSE t[i - Len(s)]
  BY ConcatProperties
<1>3. DOMAIN (s \o t) = 1 .. Len(s) + Len(t)
  BY <1>2, LenProperties
<1> QED BY <1>1, <1>2, <1>3

(* Cutting one out of a sequence.                                          *)
LEMMA Cut ==
  ASSUME NEW S, NEW s \in Seq(S), NEW m \in Nat, NEW n \in Nat,
         1 <= m, m <= n + 1, n <= Len(s)
  PROVE  LET r == SubSeq(s, m, n) IN
         /\ r \in Seq(S) /\ Len(r) = n - m + 1 /\ DOMAIN r = 1 .. n - m + 1
         /\ Len(s) \in Nat /\ DOMAIN s = 1 .. Len(s)
         /\ \A i \in 1 .. n - m + 1 : r[i] = s[i + (m - 1)]
<1> DEFINE r == SubSeq(s, m, n)
<1>1. Len(s) \in Nat /\ DOMAIN s = 1 .. Len(s)
  BY LenProperties
<1>2. \A i \in m .. n : s[i] \in S
  BY <1>1, ElementOfSeq
<1>3. /\ r \in Seq(S) /\ Len(r) = IF m <= n THEN n - m + 1 ELSE 0
      /\ \A i \in 1 .. n - m + 1 : r[i] = s[m + i - 1]
  BY <1>2, SubSeqProperties
<1> HIDE DEF r
<1>4. Len(r) = n - m + 1 /\ DOMAIN r = 1 .. n - m + 1
  BY <1>3, LenProperties
<1>5. \A i \in 1 .. n - m + 1 : i + (m - 1) = m + i - 1
  OBVIOUS
<1>6. \A i \in 1 .. n - m + 1 : r[i] = s[i + (m - 1)]
  BY <1>3, <1>5
<1> QED BY <1>1, <1>3, <1>4, <1>6 DEF r

(* Taking the first k elements off.                                        *)
LEMMA Dropped ==
  ASSUME NEW S, NEW s \in Seq(S), NEW k \in 0 .. Len(s)
  PROVE  LET r == SubSeq(s, k + 1, Len(s)) IN
         /\ r \in Seq(S) /\ Len(r) = Len(s) - k /\ DOMAIN r = 1 .. Len(s) - k
         /\ Len(s) \in Nat /\ k \in Nat
         /\ \A i \in 1 .. Len(s) - k : r[i] = s[i + k]
<1> DEFINE m == k + 1
<1> DEFINE n == Len(s)
<1> DEFINE r == SubSeq(s, m, n)
<1>1. n \in Nat /\ m \in Nat /\ 1 <= m /\ m <= n + 1 /\ n <= Len(s) /\ k \in Nat
  BY LenProperties
<1> HIDE DEF m, n
<1>2. /\ r \in Seq(S) /\ Len(r) = n - m + 1 /\ DOMAIN r = 1 .. n - m + 1
      /\ \A i \in 1 .. n - m + 1 : r[i] = s[i + (m - 1)]
  BY <1>1, Cut
<1> HIDE DEF r
<1>3. n - m + 1 = n - k /\ m - 1 = k
  BY <1>1 DEF m
<1>4. /\ r \in Seq(S) /\ Len(r) = n - k /\ DOMAIN r = 1 .. n - k
      /\ \A i \in 1 .. n - k : r[i] = s[i + k]
  BY <1>2, <1>3
<1> QED BY <1>1, <1>4 DEF m, n, r

(* The order of the packages when another one is begun.                    *)
LEMMA BegunAppend ==
  ASSUME NEW b \in Seq(Package), NEW p \in Package
  PROVE  LET c == Append(b, p) IN
         /\ Holds(c, p)
         /\ \A q : Holds(b, q) => Holds(c, q) /\ Before(c, q, p)
         /\ \A q, r : Before(b, q, r) => Before(c, q, r)
<1> DEFINE c == Append(b, p)
<1> DEFINE n == Len(b)
<1>1. n \in Nat /\ DOMAIN b = 1 .. n
  BY LenProperties
<1>2. /\ c \in Seq(Package) /\ Len(c) = n + 1 /\ c[n + 1] = p
      /\ \A i \in 1 .. n : c[i] = b[i]
  BY AppendProperties
<1>3. DOMAIN c = 1 .. n + 1
  BY <1>2, LenProperties
<1> HIDE DEF c, n
<1>4. Holds(c, p)
  BY <1>1, <1>2, <1>3 DEF Holds
<1>5. \A q : Holds(b, q) => Holds(c, q) /\ Before(c, q, p)
  BY <1>1, <1>2, <1>3 DEF Holds, Before
<1>6. \A q, r : Before(b, q, r) => Before(c, q, r)
  BY <1>1, <1>2, <1>3 DEF Before
<1> QED BY <1>4, <1>5, <1>6 DEF c

(* A stream in step stays so when bytes are taken off either end, ...      *)
LEMMA FlowsSub ==
  ASSUME NEW b, NEW s \in Seq(Byte), NEW m \in Nat, NEW n \in Nat,
         1 <= m, m <= n + 1, n <= Len(s), Flows(b, s), Known(b, s)
  PROVE  Flows(b, SubSeq(s, m, n)) /\ Known(b, SubSeq(s, m, n))
<1> DEFINE r == SubSeq(s, m, n)
<1>1. /\ DOMAIN r = 1 .. n - m + 1 /\ Len(s) \in Nat /\ DOMAIN s = 1 .. Len(s)
      /\ \A i \in 1 .. n - m + 1 : r[i] = s[i + (m - 1)]
  BY Cut
<1> HIDE DEF r
<1>2. \A i \in DOMAIN r : i + (m - 1) \in DOMAIN s /\ r[i] = s[i + (m - 1)]
  BY <1>1
<1>3. ASSUME NEW i \in DOMAIN r, NEW j \in DOMAIN r, i <= j
      PROVE  LET p == r[i][1]
                 a == r[i][2] + (j - i)
             IN  /\ a <= Total(p) => r[j] = <<p, a>>
                 /\ a > Total(p) => Before(b, p, r[j][1])
                 /\ a = Total(p) + 1 => r[j][2] = 1
  <2> DEFINE k == i + (m - 1)
  <2> DEFINE l == j + (m - 1)
  <2>1. k \in DOMAIN s /\ l \in DOMAIN s /\ k <= l /\ l - k = j - i
    BY <1>1, <1>2, <1>3
  <2>2. r[i] = s[k] /\ r[j] = s[l]
    BY <1>2
  <2> HIDE DEF k, l
  <2> QED BY <2>1, <2>2 DEF Flows
<1>4. Flows(b, r)
  BY <1>3 DEF Flows
<1>5. Known(b, r)
  BY <1>2 DEF Known
<1> QED BY <1>4, <1>5 DEF r

(* ... when another package is begun, ...                                  *)
LEMMA FlowsBegun ==
  ASSUME NEW b \in Seq(Package), NEW s, NEW p \in Package, Flows(b, s), Known(b, s)
  PROVE  LET c == Append(b, p) IN
         /\ Flows(c, s) /\ Known(c, s)
         /\ \A i \in DOMAIN s : Before(c, s[i][1], p)
<1> DEFINE c == Append(b, p)
<1>1. /\ \A q : Holds(b, q) => Holds(c, q) /\ Before(c, q, p)
      /\ \A q, r : Before(b, q, r) => Before(c, q, r)
  BY BegunAppend
<1> HIDE DEF c
<1>2. Flows(c, s)
  BY <1>1 DEF Flows
<1>3. Known(c, s) /\ \A i \in DOMAIN s : Before(c, s[i][1], p)
  BY <1>1 DEF Known
<1> QED BY <1>2, <1>3 DEF c

(* ... and when a piece of a package follows what was written before it of *)
(* the same package, or the end of another one.                            *)
LEMMA FlowsGrow ==
  ASSUME NEW b, NEW s \in Seq(Byte), NEW t \in Seq(Byte), NEW p \in Package,
         NEW c \in Nat, Holds(b, p),
         c + Len(t) <= Total(p), \A i \in 1 .. Len(t) : t[i] = <<p, c + i>>,
         Flows(b, s), Known(b, s),
         s # <<>> => \/ c # 0 /\ s[Len(s)] = <<p, c>>
                     \/ /\ c = 0 /\ s[Len(s)][2] = Total(s[Len(s)][1])
                        /\ \A i \in DOMAIN s : Before(b, s[i][1], p)
  PROVE  Flows(b, s \o t) /\ Known(b, s \o t)
<1> DEFINE r == s \o t
<1> DEFINE n == Len(s)
<1> DEFINE m == Len(t)
<1>1. /\ n \in Nat /\ m \in Nat /\ DOMAIN s = 1 .. n /\ DOMAIN r = 1 .. n + m
      /\ \A i \in 1 .. n : r[i] = s[i]
      /\ \A i \in n + 1 .. n + m : r[i] = t[i - n]
  BY Joined
<1>2. \A i \in 1 .. n : s[i][1] \in Package /\ s[i][2] \in Nat /\ s[i] = <<s[i][1], s[i][2]>>
  BY <1>1, Bytes, ElementOfSeq
<1>3. \A i \in 1 .. n : Total(s[i][1]) \in Nat
  BY <1>2, Totals
<1>4. Total(p) \in Nat /\ c + m <= Total(p)
  BY Totals
<1>5. s # <<>> <=> n # 0
  BY EmptySeq
<1>6. \A i \in n + 1 .. n + m : r[i] = <<p, c + (i - n)>>
  <2>1. \A i \in n + 1 .. n + m : i - n \in 1 .. m
    BY <1>1
  <2> QED BY <1>1, <2>1
<1> HIDE DEF r, n, m
<1>7. Known(b, r)
  BY <1>1, <1>4, <1>6 DEF Known
<1>8. ASSUME NEW i \in 1 .. n + m, NEW j \in 1 .. n + m, i <= j
      PROVE  LET q == r[i][1]
                 a == r[i][2] + (j - i)
             IN  /\ a <= Total(q) => r[j] = <<q, a>>
                 /\ a > Total(q) => Before(b, q, r[j][1])
                 /\ a = Total(q) + 1 => r[j][2] = 1
  <2>1. CASE j <= n
    BY <1>1, <1>8, <2>1 DEF Flows
  <2>2. CASE i > n
    <3>1. r[i] = <<p, c + (i - n)>> /\ r[j] = <<p, c + (j - n)>>
      BY <1>1, <1>6, <1>8, <2>2
    <3>2. c + (j - n) <= Total(p) /\ (c + (i - n)) + (j - i) = c + (j - n)
      BY <1>1, <1>4, <1>8, <2>2
    <3>3. /\ r[i][1] = p /\ r[i][2] = c + (i - n)
          /\ r[i][2] + (j - i) = c + (j - n) /\ c + (j - n) \in Int
      BY <1>1, <3>1, <3>2
    <3> QED BY <1>4, <3>1, <3>2, <3>3
  <2>3. CASE i <= n /\ j > n
    <3> DEFINE q == s[i][1]
    <3> DEFINE a == s[i][2]
    <3>1. /\ i \in 1 .. n /\ n \in 1 .. n /\ j \in n + 1 .. n + m /\ i \in DOMAIN s
          /\ n \in DOMAIN s /\ s # <<>>
      BY <1>1, <1>5, <1>8, <2>3
    <3>2. r[i] = s[i] /\ r[j] = <<p, c + (j - n)>>
      BY <1>1, <1>6, <3>1
    <3>3. /\ a + (n - i) <= Total(q) => s[n] = <<q, a + (n - i)>>
          /\ a + (n - i) > Total(q) => Before(b, q, s[n][1])
      BY <3>1 DEF Flows
    <3>4. q \in Package /\ a \in Nat /\ Total(q) \in Nat
      BY <1>2, <1>3, <3>1
    <3> HIDE DEF q, a
    <3>5. CASE c # 0 /\ s[n] = <<p, c>>
      <4>1. CASE a + (n - i) <= Total(q)
        <5>1. q = p /\ a + (n - i) = c
          BY <3>3, <3>5, <4>1
        <5>2. c + (j - n) <= Total(p)
          BY <1>1, <1>4, <3>1
        <5>3. a + (j - i) = c + (j - n)
          <6>1. n \in Int /\ i \in Int /\ j \in Int /\ a \in Int /\ a + (n - i) = c
            BY <1>1, <3>1, <3>4, <5>1
          <6> QED BY <6>1
        <5>4. r[i][1] = q /\ r[i][2] = a /\ c + (j - n) \in Int
          BY <1>1, <3>1, <3>2 DEF q, a
        <5> QED BY <1>4, <3>2, <5>1, <5>2, <5>3, <5>4
      <4>2. CASE a + (n - i) > Total(q)
        <5>1. Before(b, q, p)
          BY <3>3, <3>5, <4>2
        <5>2. a + (j - i) > Total(q) + 1
          BY <1>1, <3>1, <3>4, <4>2
        <5> QED BY <3>2, <3>4, <5>1, <5>2 DEF q, a
      <4> QED BY <1>1, <3>1, <3>4, <4>1, <4>2
    <3>6. CASE c = 0 /\ s[n][2] = Total(s[n][1]) /\ \A k \in DOMAIN s : Before(b, s[k][1], p)
      <4>1. Before(b, q, p)
        BY <3>1, <3>6 DEF q
      <4>2. a + (n - i) >= Total(q)
        <5>1. a + (n - i) <= Total(q) => a + (n - i) = Total(q)
          BY <3>3, <3>6
        <5> QED BY <1>1, <3>1, <3>4, <5>1
      <4>3. a + (j - i) > Total(q) /\ (a + (j - i) = Total(q) + 1 => j = n + 1)
        BY <1>1, <3>1, <3>4, <4>2
      <4>4. j = n + 1 => r[j][2] = 1
        BY <1>1, <3>2, <3>6
      <4> QED BY <3>2, <3>4, <4>1, <4>3, <4>4 DEF q, a
    <3> QED BY <3>1, <3>5, <3>6 DEF n
  <2> QED BY <1>1, <1>8, <2>1, <2>2, <2>3
<1>9. Flows(b, r)
  BY <1>1, <1>8 DEF Flows
<1> QED BY <1>7, <1>9 DEF r

(* No gap comes into a stream by taking bytes off its ends.                *)
LEMMA FollowsSub ==
  ASSUME NEW b, NEW s \in Seq(Byte), NEW m \in Nat, NEW n \in Nat,
         1 <= m, m <= n + 1, n <= Len(s), Follows(b, s)
  PROVE  Follows(b, SubSeq(s, m, n))
<1> DEFINE r == SubSeq(s, m, n)
<1>1. /\ DOMAIN r = 1 .. n - m + 1 /\ Len(s) \in Nat /\ DOMAIN s = 1 .. Len(s)
      /\ \A i \in 1 .. n - m + 1 : r[i] = s[i + (m - 1)]
  BY Cut
<1> HIDE DEF r
<1>2. ASSUME NEW i \in DOMAIN r, NEW j \in DOMAIN r, NEW k \in DOMAIN b, i <= j,
             r[i][1] = b[k], r[i][2] + (j - i) = Total(b[k]) + 1
      PROVE  k < Len(b) /\ r[j][1] = b[k + 1]
  <2> DEFINE x == i + (m - 1)
  <2> DEFINE y == j + (m - 1)
  <2>1. x \in DOMAIN s /\ y \in DOMAIN s /\ x <= y /\ y - x = j - i
    BY <1>1, <1>2
  <2>2. r[i] = s[x] /\ r[j] = s[y]
    BY <1>1
  <2> HIDE DEF x, y
  <2> QED BY <1>2, <2>1, <2>2 DEF Follows
<1>3. Follows(b, r)
  BY <1>2 DEF Follows
<1> QED BY <1>3 DEF r

(* Nor does a gap come from a package that is only begun, ...              *)
LEMMA FollowsBegun ==
  ASSUME NEW b \in Seq(Package), NEW s, NEW p \in Package, Known(b, s),
         Follows(b, s), NoneTwice(Append(b, p))
  PROVE  Follows(Append(b, p), s)
<1> DEFINE c == Append(b, p)
<1> DEFINE n == Len(b)
<1>1. n \in Nat /\ DOMAIN b = 1 .. n
  BY LenProperties
<1>2. /\ c \in Seq(Package) /\ Len(c) = n + 1
      /\ \A i \in 1 .. n : c[i] = b[i]
  BY AppendProperties
<1>3. DOMAIN c = 1 .. n + 1 /\ NoneTwice(c)
  BY <1>2, LenProperties
<1> HIDE DEF c
<1>4. ASSUME NEW i \in DOMAIN s, NEW j \in DOMAIN s, NEW k \in DOMAIN c, i <= j,
             s[i][1] = c[k], s[i][2] + (j - i) = Total(c[k]) + 1
      PROVE  k < Len(c) /\ s[j][1] = c[k + 1]
  <2>1. PICK h \in DOMAIN b : b[h] = s[i][1]
    BY DEF Known, Holds
  <2>2. h \in 1 .. n /\ h = k
    BY <1>1, <1>2, <1>3, <1>4, <2>1 DEF NoneTwice
  <2>3. b[k] = c[k] /\ k \in DOMAIN b
    BY <1>1, <1>2, <2>2
  <2>4. k < n /\ s[j][1] = b[k + 1]
    BY <1>4, <2>3 DEF Follows
  <2>5. k + 1 \in 1 .. n
    BY <1>1, <2>2, <2>4
  <2> QED BY <1>1, <1>2, <2>2, <2>4, <2>5
<1>5. Follows(c, s)
  BY <1>4 DEF Follows
<1> QED BY <1>5 DEF c

(* ... or from a piece that follows the package begun before it.           *)
LEMMA FollowsGrow ==
  ASSUME NEW b \in Seq(Package), NEW s \in Seq(Byte), NEW t \in Seq(Byte),
         NEW p \in Package, NEW c \in Nat, NoneTwice(b),
         c + Len(t) <= Total(p), \A i \in 1 .. Len(t) : t[i] = <<p, c + i>>,
         Flows(b, s), Known(b, s), Follows(b, s),
         s # <<>> => \/ c # 0 /\ s[Len(s)] = <<p, c>>
                     \/ /\ c = 0 /\ s[Len(s)][2] = Total(s[Len(s)][1])
                        /\ Len(b) > 1 /\ b[Len(b)] = p
                        /\ s[Len(s)][1] = b[Len(b) - 1]
  PROVE  Follows(b, s \o t)
<1> DEFINE r == s \o t
<1> DEFINE n == Len(s)
<1> DEFINE m == Len(t)
<1>1. /\ n \in Nat /\ m \in Nat /\ DOMAIN s = 1 .. n /\ DOMAIN r = 1 .. n + m
      /\ \A i \in 1 .. n : r[i] = s[i]
      /\ \A i \in n + 1 .. n + m : r[i] = t[i - n]
  BY Joined
<1>2. \A i \in 1 .. n : s[i][1] \in Package /\ s[i][2] \in Nat
  BY <1>1, Bytes, ElementOfSeq
<1>3. \A i \in 1 .. n : Total(s[i][1]) \in Nat
  BY <1>2, Totals
<1>4. Total(p) \in Nat /\ c + m <= Total(p)
  BY Totals
<1>5. s # <<>> <=> n # 0
  BY EmptySeq
<1>6. \A i \in n + 1 .. n + m : r[i] = <<p, c + (i - n)>>
  <2>1. \A i \in n + 1 .. n + m : i - n \in 1 .. m
    BY <1>1
  <2> QED BY <1>1, <2>1
<1>7. Len(b) \in Nat /\ DOMAIN b = 1 .. Len(b)
  BY LenProperties
<1> HIDE DEF r, n, m
<1>8. ASSUME NEW i \in DOMAIN r, NEW j \in DOMAIN r, NEW k \in DOMAIN b, i <= j,
             r[i][1] = b[k], r[i][2] + (j - i) = Total(b[k]) + 1
      PROVE  k < Len(b) /\ r[j][1] = b[k + 1]
  <2>0. i \in 1 .. n + m /\ j \in 1 .. n + m /\ i \in Int /\ j \in Int /\ i <= j
    BY <1>1, <1>8
  <2>1. CASE j <= n
    <3>1. i \in 1 .. n /\ j \in 1 .. n
      BY <1>1, <2>0, <2>1
    <3>2. i \in DOMAIN s /\ j \in DOMAIN s /\ r[i] = s[i] /\ r[j] = s[j]
      BY <1>1, <3>1
    <3>3. s[i][1] = b[k] /\ s[i][2] + (j - i) = Total(b[k]) + 1
      BY <1>8, <3>2
    <3>4. k < Len(b) /\ s[j][1] = b[k + 1]
      BY <2>0, <3>2, <3>3 DEF Follows
    <3> QED BY <3>2, <3>4
  <2>2. CASE i > n
    <3>1. r[i] = <<p, c + (i - n)>>
      <4>1. i \in n + 1 .. n + m
        BY <1>1, <2>0, <2>2
      <4> QED BY <1>6, <4>1
    <3>2. b[k] = p /\ (c + (i - n)) + (j - i) = Total(p) + 1
      BY <1>8, <3>1
    <3> QED BY <1>1, <1>4, <2>0, <3>2
  <2>3. CASE i <= n /\ j > n
    <3> DEFINE q == s[i][1]
    <3> DEFINE a == s[i][2]
    <3>1. /\ i \in 1 .. n /\ n \in 1 .. n /\ j \in n + 1 .. n + m /\ i \in DOMAIN s
          /\ n \in DOMAIN s /\ s # <<>>
      BY <1>1, <1>5, <2>0, <2>3
    <3>2. r[i] = s[i] /\ r[j] = <<p, c + (j - n)>>
      BY <1>1, <1>6, <3>1
    <3>3. a + (n - i) <= Total(q) => s[n] = <<q, a + (n - i)>>
      BY <3>1 DEF Flows
    <3>4. q \in Package /\ a \in Nat /\ Total(q) \in Nat
      BY <1>2, <1>3, <3>1
    <3>5. b[k] = q /\ a + (j - i) = Total(q) + 1
      BY <1>8, <3>2
    <3> HIDE DEF q, a
    <3>6. s[n] = <<q, a + (n - i)>>
      <4>1. n \in Int /\ i \in Int /\ j \in Int /\ a \in Int /\ n < j
        BY <1>1, <3>1, <3>4
      <4>2. a + (n - i) <= Total(q)
        BY <3>4, <3>5, <4>1
      <4> QED BY <3>3, <4>2
    <3>7. CASE c # 0 /\ s[n] = <<p, c>>
      <4>1. q = p /\ a + (n - i) = c
        BY <3>6, <3>7
      <4>2. c + (j - n) = Total(p) + 1
        <5>1. n \in Int /\ i \in Int /\ j \in Int /\ a \in Int
          BY <1>1, <3>1, <3>4
        <5>2. a + (j - i) = Total(p) + 1 /\ Total(p) \in Int
          BY <1>4, <3>5, <4>1
        <5> QED BY <4>1, <5>1, <5>2
      <4> QED BY <1>1, <1>4, <3>1, <4>2
    <3>8. CASE /\ c = 0 /\ s[n][2] = Total(s[n][1])
               /\ Len(b) > 1 /\ b[Len(b)] = p /\ s[n][1] = b[Len(b) - 1]
      <4>1. b[Len(b) - 1] = q
        BY <3>6, <3>8
      <4>2. Len(b) - 1 \in DOMAIN b
        BY <1>7, <3>8
      <4>3. k = Len(b) - 1
        BY <3>5, <4>1, <4>2 DEF NoneTwice
      <4> QED BY <1>7, <3>2, <3>8, <4>3
    <3> QED BY <3>1, <3>7, <3>8 DEF n
  <2> QED BY <1>1, <2>0, <2>1, <2>2, <2>3
<1>9. Follows(b, r)
  BY <1>8 DEF Follows
<1> QED BY <1>9 DEF r

(* The stream is a sequence of bytes, those of the buffer first.           *)
LEMMA StreamType ==
  ASSUME TypeOK
  PROVE  /\ Stream \in Seq(Byte) /\ Len(Stream) = Len(buffer) + Len(pipe)
         /\ Len(buffer) \in Nat /\ Len(pipe) \in Nat /\ Len(Stream) \in Nat
         /\ DOMAIN Stream = 1 .. Len(Stream)
         /\ \A i \in 1 .. Len(buffer) : Stream[i] = buffer[i]
         /\ Stream = <<>> <=> Len(Stream) = 0
         /\ buffer = <<>> <=> Len(buffer) = 0
         /\ pipe = <<>> <=> Len(pipe) = 0
         /\ \A i \in 1 .. Len(Stream) : /\ Stream[i][1] \in Package
                                        /\ Stream[i][2] \in Nat
                                        /\ Stream[i] = <<Stream[i][1], Stream[i][2]>>
<1>1. buffer \in Seq(Byte) /\ pipe \in Seq(Byte)
  BY DEF TypeOK
<1>2. /\ Stream \in Seq(Byte) /\ Len(Stream) = Len(buffer) + Len(pipe)
      /\ Len(buffer) \in Nat /\ Len(pipe) \in Nat
      /\ DOMAIN Stream = 1 .. Len(buffer) + Len(pipe)
      /\ \A i \in 1 .. Len(buffer) : Stream[i] = buffer[i]
  BY <1>1, Joined DEF Stream
<1>3. /\ Stream = <<>> <=> Len(Stream) = 0
      /\ buffer = <<>> <=> Len(buffer) = 0
      /\ pipe = <<>> <=> Len(pipe) = 0
  BY <1>1, <1>2, EmptySeq
<1>4. \A i \in 1 .. Len(Stream) : Stream[i] \in Byte
  BY <1>2, ElementOfSeq
<1> QED BY <1>2, <1>3, <1>4, Bytes

(* It changes when bytes are written, ...                                  *)
LEMMA StreamGrows ==
  ASSUME TypeOK, NEW t \in Seq(Byte), buffer' = buffer, pipe' = pipe \o t
  PROVE  Stream' = Stream \o t
<1>1. buffer \in Seq(Byte) /\ pipe \in Seq(Byte)
  BY DEF TypeOK
<1>2. (buffer \o pipe) \o t = buffer \o (pipe \o t)
  BY <1>1, ConcatAssociative
<1> QED BY <1>2 DEF Stream

(* ... when they arrive in a piece, ...                                    *)
LEMMA StreamMoves ==
  ASSUME TypeOK, NEW k \in 1 .. Len(pipe),
         buffer' = buffer \o SubSeq(pipe, 1, k),
         pipe' = SubSeq(pipe, k + 1, Len(pipe))
  PROVE  Stream' = Stream /\ buffer' \in Seq(Byte) /\ pipe' \in Seq(Byte)
<1>1. buffer \in Seq(Byte) /\ pipe \in Seq(Byte) /\ Len(pipe) \in Nat
  BY LenProperties DEF TypeOK
<1>2. SubSeq(pipe, 1, k) \in Seq(Byte) /\ SubSeq(pipe, k + 1, Len(pipe)) \in Seq(Byte)
  BY <1>1, Cut
<1>3. SubSeq(pipe, 1, k) \o SubSeq(pipe, k + 1, Len(pipe)) = pipe
  <2>1. /\ 1 \in 1 .. Len(pipe) + 1 /\ k \in 1 - 1 .. Len(pipe)
        /\ Len(pipe) \in k .. Len(pipe)
    BY <1>1
  <2>2. SubSeq(pipe, 1, k) \o SubSeq(pipe, k + 1, Len(pipe)) = SubSeq(pipe, 1, Len(pipe))
    BY <1>1, <2>1, ConcatAdjacentSubSeq
  <2> QED BY <1>1, <2>2, SubSeqFull
<1>4. Stream' = buffer \o (SubSeq(pipe, 1, k) \o SubSeq(pipe, k + 1, Len(pipe)))
  <2>1. Stream' = (buffer \o SubSeq(pipe, 1, k)) \o SubSeq(pipe, k + 1, Len(pipe))
    BY DEF Stream
  <2> DEFINE x == SubSeq(pipe, 1, k)
  <2> DEFINE y == SubSeq(pipe, k + 1, Len(pipe))
  <2>2. buffer \in Seq(Byte) /\ x \in Seq(Byte) /\ y \in Seq(Byte)
    BY <1>1, <1>2
  <2> HIDE DEF x, y
  <2>3. (buffer \o x) \o y = buffer \o (x \o y)
    BY <2>2, ConcatAssociative
  <2> QED BY <2>1, <2>3 DEF x, y
<1>5. buffer' \in Seq(Byte)
  BY <1>1, <1>2, ConcatProperties
<1> QED BY <1>2, <1>3, <1>4, <1>5 DEF Stream

(* ... when the reader takes some off the buffer ...                       *)
LEMMA StreamShrinks ==
  ASSUME TypeOK, NEW k \in 0 .. Len(buffer), pipe' = pipe,
         buffer' = SubSeq(buffer, k + 1, Len(buffer))
  PROVE  /\ Stream' = SubSeq(Stream, k + 1, Len(Stream))
         /\ buffer' \in Seq(Byte)
<1> DEFINE r == SubSeq(buffer, k + 1, Len(buffer))
<1> DEFINE u == SubSeq(Stream, k + 1, Len(Stream))
<1>1. /\ buffer \in Seq(Byte) /\ pipe \in Seq(Byte) /\ Stream \in Seq(Byte)
      /\ Len(buffer) \in Nat /\ Len(pipe) \in Nat /\ Len(Stream) = Len(buffer) + Len(pipe)
      /\ \A i \in 1 .. Len(buffer) : Stream[i] = buffer[i]
  BY StreamType DEF TypeOK
<1>2. \A i \in Len(buffer) + 1 .. Len(buffer) + Len(pipe) :
        Stream[i] = pipe[i - Len(buffer)]
  BY <1>1, Joined DEF Stream
<1>3. /\ r \in Seq(Byte) /\ Len(r) = Len(buffer) - k
      /\ \A i \in 1 .. Len(buffer) - k : r[i] = buffer[i + k]
  BY <1>1, Dropped
<1>4. /\ u \in Seq(Byte) /\ Len(u) = Len(Stream) - k
      /\ \A i \in 1 .. Len(Stream) - k : u[i] = Stream[i + k]
  <2>1. k \in 0 .. Len(Stream)
    BY <1>1
  <2> QED BY <1>1, <2>1, Dropped
<1> HIDE DEF r, u
<1>10. k \in Int /\ 0 <= k /\ k <= Len(buffer)
  BY <1>1
<1>5. /\ r \o pipe \in Seq(Byte) /\ Len(r \o pipe) = Len(r) + Len(pipe)
      /\ \A i \in 1 .. Len(r) : (r \o pipe)[i] = r[i]
      /\ \A i \in Len(r) + 1 .. Len(r) + Len(pipe) : (r \o pipe)[i] = pipe[i - Len(r)]
  <2>1. r \in Seq(Byte) /\ pipe \in Seq(Byte)
    BY <1>1, <1>3
  <2> QED BY <2>1, Joined
<1>6. ASSUME NEW i \in 1 .. Len(u) PROVE (r \o pipe)[i] = u[i]
  <2>1. u[i] = Stream[i + k] /\ i + k \in 1 .. Len(Stream)
    BY <1>1, <1>4, <1>10
  <2>2. CASE i <= Len(r)
    BY <1>1, <1>3, <1>5, <1>10, <2>1, <2>2
  <2>3. CASE i > Len(r)
    <3>1. i \in Len(r) + 1 .. Len(r) + Len(pipe) /\ i - Len(r) = (i + k) - Len(buffer)
      BY <1>1, <1>3, <1>4, <1>10, <2>3
    <3>2. i + k \in Len(buffer) + 1 .. Len(buffer) + Len(pipe)
      BY <1>1, <1>3, <1>10, <3>1
    <3> QED BY <1>2, <1>5, <2>1, <3>1, <3>2
  <2> QED BY <1>1, <1>3, <1>4, <1>10, <2>2, <2>3
<1>7. Len(u) = Len(r \o pipe)
  BY <1>1, <1>3, <1>4, <1>5
<1>8. r \o pipe = u
  BY <1>4, <1>5, <1>6, <1>7, SeqEqual
<1>9. Stream' = r \o pipe
  BY DEF Stream, r
<1> QED BY <1>3, <1>8, <1>9 DEF r, u

(* ... and when the connection takes what it carried with it.              *)
LEMMA StreamIsCut ==
  ASSUME TypeOK, buffer' = buffer, pipe' = <<>>
  PROVE  Stream' = buffer /\ buffer = SubSeq(Stream, 1, Len(buffer))
<1>1. buffer \in Seq(Byte) /\ pipe \in Seq(Byte)
  BY DEF TypeOK
<1>2. Stream' = buffer
  BY <1>1, ConcatEmptySeq DEF Stream
<1> DEFINE u == SubSeq(Stream, 1, Len(buffer))
<1>3. /\ Stream \in Seq(Byte) /\ Len(buffer) \in Nat /\ Len(Stream) \in Nat
      /\ Len(buffer) <= Len(Stream) /\ 1 <= Len(buffer) + 1
      /\ \A i \in 1 .. Len(buffer) : Stream[i] = buffer[i]
  BY StreamType
<1>4. /\ u \in Seq(Byte) /\ Len(u) = Len(buffer) - 1 + 1
      /\ \A i \in 1 .. Len(buffer) - 1 + 1 : u[i] = Stream[i + (1 - 1)]
  BY <1>3, Cut
<1> HIDE DEF u
<1>5. Len(u) = Len(buffer) /\ \A i \in 1 .. Len(buffer) : u[i] = buffer[i]
  BY <1>3, <1>4
<1>6. u = buffer
  BY <1>1, <1>4, <1>5, SeqEqual
<1> QED BY <1>2, <1>6 DEF u

(* What the transport takes of a piece.                                    *)
LEMMA Transported ==
  ASSUME TypeOK, NEW t \in Seq(Byte), Transport(t)
  PROVE  /\ pipe' \in Seq(Byte) /\ whole' \in BOOLEAN
         /\ up /\ ~IsShort(t) => pipe' = pipe \o t /\ whole' = whole
         /\ ~up => pipe' = pipe
<1>1. pipe \in Seq(Byte) /\ whole \in BOOLEAN /\ Len(t) \in Nat /\ Len(pipe) \in Nat
  BY LenProperties DEF TypeOK
<1>2. pipe \o t \in Seq(Byte) /\ Len(pipe \o t) = Len(pipe) + Len(t)
  BY <1>1, Joined
<1>3. ASSUME NEW k \in 1 .. (Len(t) - 1)
      PROVE  /\ pipe \o SubSeq(t, 1, k) \in Seq(Byte)
             /\ pipe \o SubSeq(t, 1, k) # pipe \o t
  <2> DEFINE r == SubSeq(t, 1, k)
  <2>1. k \in Nat /\ 1 <= k + 1 /\ k <= Len(t) /\ k < Len(t)
    BY <1>1
  <2>2. r \in Seq(Byte) /\ Len(r) = k - 1 + 1
    BY <2>1, Cut
  <2> HIDE DEF r
  <2>3. pipe \o r \in Seq(Byte) /\ Len(pipe \o r) = Len(pipe) + Len(r)
    BY <1>1, <2>2, Joined
  <2>4. Len(pipe \o r) # Len(pipe \o t)
    BY <1>1, <1>2, <2>1, <2>2, <2>3
  <2> QED BY <2>3, <2>4 DEF r
<1>4. CASE up /\ pipe' = pipe \o t /\ whole' = whole
  BY <1>1, <1>2, <1>4
<1>5. CASE /\ up /\ \E k \in 1 .. (Len(t) - 1) : pipe' = pipe \o SubSeq(t, 1, k)
           /\ whole' = FALSE
  BY <1>3, <1>5 DEF IsShort
<1>6. CASE ~up /\ pipe' = pipe /\ whole' = FALSE
  BY <1>1, <1>6
<1> QED BY <1>4, <1>5, <1>6 DEF Transport

(* The ends of a stream a piece is joined to.                              *)
LEMMA Ends ==
  ASSUME NEW s \in Seq(Byte), NEW t \in Seq(Byte), Len(t) > 0
  PROVE  LET r == s \o t IN
         /\ r # <<>> /\ r[Len(r)] = t[Len(t)]
         /\ r[1] = IF s = <<>> THEN t[1] ELSE s[1]
         /\ \A i \in DOMAIN r : \/ i \in DOMAIN s /\ r[i] = s[i]
                                \/ \E k \in 1 .. Len(t) : r[i] = t[k]
<1> DEFINE r == s \o t
<1>1. /\ r \in Seq(Byte) /\ Len(r) = Len(s) + Len(t)
      /\ Len(s) \in Nat /\ Len(t) \in Nat
      /\ DOMAIN s = 1 .. Len(s) /\ DOMAIN r = 1 .. Len(s) + Len(t)
      /\ \A i \in 1 .. Len(s) : r[i] = s[i]
      /\ \A i \in Len(s) + 1 .. Len(s) + Len(t) : r[i] = t[i - Len(s)]
  BY Joined
<1>2. (s = <<>> <=> Len(s) = 0) /\ (r = <<>> <=> Len(r) = 0)
  BY <1>1, EmptySeq
<1> HIDE DEF r
<1>3. r # <<>> /\ r[Len(r)] = t[Len(t)]
  <2>1. Len(r) - Len(s) = Len(t) /\ Len(r) \in Len(s) + 1 .. Len(s) + Len(t)
    BY <1>1
  <2>2. r[Len(r)] = t[Len(t)]
    BY <1>1, <2>1
  <2>3. Len(r) # 0
    BY <1>1
  <2> QED BY <1>2, <2>2, <2>3
<1>5. r[1] = IF s = <<>> THEN t[1] ELSE s[1]
  <2>1. CASE s = <<>>
    <3>1. Len(s) = 0 /\ 1 \in Len(s) + 1 .. Len(s) + Len(t) /\ 1 - Len(s) = 1
      BY <1>1, <1>2, <2>1
    <3> QED BY <1>1, <2>1, <3>1
  <2>2. CASE s # <<>>
    <3>1. 1 \in 1 .. Len(s)
      BY <1>1, <1>2, <2>2
    <3> QED BY <1>1, <2>2, <3>1
  <2> QED BY <2>1, <2>2
<1>6. ASSUME NEW i \in DOMAIN r
      PROVE  \/ i \in DOMAIN s /\ r[i] = s[i]
             \/ \E k \in 1 .. Len(t) : r[i] = t[k]
  <2>1. i \in 1 .. Len(s) \/ i \in Len(s) + 1 .. Len(s) + Len(t)
    BY <1>1
  <2>2. i \in Len(s) + 1 .. Len(s) + Len(t) => i - Len(s) \in 1 .. Len(t)
    BY <1>1
  <2> QED BY <1>1, <2>1, <2>2
<1> QED BY <1>3, <1>5, <1>6 DEF r

(* What was handed on stays before what is to come, if nothing else comes  *)
(* into the stream than the rest of a package that is half way.            *)
LEMMA HandedStays ==
  ASSUME Handed, got' = got, begun' = begun,
         HalfWay' => HalfWay /\ writing' = writing,
         \A j \in DOMAIN Stream' :
           \/ \E k \in DOMAIN Stream : Stream'[j][1] = Stream[k][1]
           \/ HalfWay /\ Stream'[j][1] = writing[1]
  PROVE  Handed'
<1>1. /\ \A i \in DOMAIN got' : \E p \in Package : Holds(begun', p) /\ got'[i] = Body(p)
      /\ \A i, j \in DOMAIN got' : i < j =>
           \A p, q \in Package :
             got'[i] = Body(p) /\ got'[j] = Body(q) => Before(begun', p, q)
  BY DEF Handed
<1>2. ASSUME NEW i \in DOMAIN got', NEW p \in Package, got'[i] = Body(p)
      PROVE  /\ \A j \in DOMAIN Stream' : Before(begun', p, Stream'[j][1])
             /\ HalfWay' => Before(begun', p, writing'[1])
  <2>1. /\ \A j \in DOMAIN Stream : Before(begun, p, Stream[j][1])
        /\ HalfWay => Before(begun, p, writing[1])
    BY <1>2 DEF Handed
  <2> QED BY <2>1
<1> QED BY <1>1, <1>2 DEF Handed

(* Nothing but a short write tears a stream when a package is begun, ...   *)
LEMMA WriteHeaderKeeps ==
  ASSUME IInv, NEW w \in Writer, NEW p \in Package, WriteHeader(w, p)
  PROVE  IInv'
<1>1. TypeOK /\ Writes /\ InStep /\ Gapless
  BY DEF IInv
<1>2. /\ begun \in Seq(Package) /\ Len(begun) \in Nat /\ DOMAIN begun = 1 .. Len(begun)
      /\ begun' = Append(begun, p) /\ begun' \in Seq(Package)
      /\ Len(begun') = Len(begun) + 1 /\ begun'[Len(begun')] = p
      /\ \A i \in 1 .. Len(begun) : begun'[i] = begun[i]
      /\ DOMAIN begun' = 1 .. Len(begun) + 1
  <2>1. begun \in Seq(Package) /\ begun' = Append(begun, p)
    BY <1>1 DEF TypeOK, WriteHeader
  <2>2. /\ begun' \in Seq(Package) /\ Len(begun') = Len(begun) + 1
        /\ begun'[Len(begun) + 1] = p
        /\ \A i \in 1 .. Len(begun) : begun'[i] = begun[i]
    BY <2>1, AppendProperties
  <2> QED BY <2>1, <2>2, LenProperties
<1>3. /\ Header(p) \in Seq(Byte) /\ Len(Header(p)) = HeaderLen /\ HeaderLen \in Nat
      /\ HeaderLen > 0 /\ \A i \in 1 .. HeaderLen : Header(p)[i] = <<p, i>>
      /\ HeaderLen < Total(p) /\ Total(p) \in Nat
  BY Pieces, Totals
<1>4. /\ pipe' \in Seq(Byte) /\ whole' \in BOOLEAN
      /\ up /\ ~IsShort(Header(p)) => pipe' = pipe \o Header(p) /\ whole' = whole
      /\ ~up => pipe' = pipe
  BY <1>1, <1>3, Transported DEF WriteHeader
<1>5. /\ write_lock = NoWriter /\ stage = "header" /\ p \in unwritten
      /\ write_lock' = w /\ stage' = "body" /\ writing' = <<p>> /\ headed' = up
      /\ unwritten' = unwritten \ {p}
      /\ torn' = (torn \/ IsShort(Header(p)))
      /\ UNCHANGED <<accepted, up, conn, buffer, pack_size, decoding, got>>
      /\ ~HalfWay /\ (HalfWay' <=> up)
  BY <1>1 DEF WriteHeader, Writes, readerVars, HalfWay
<1>6. TypeOK'
  <2>1. writing' \in Seq(Package) /\ Len(writing') = 1 /\ w # NoWriter
    BY <1>5
  <2>2. unwritten' \subseteq Package /\ headed' \in BOOLEAN /\ torn' \in BOOLEAN
    BY <1>1, <1>5 DEF TypeOK, IsShort
  <2> QED BY <1>1, <1>2, <1>4, <1>5, <2>1, <2>2 DEF TypeOK
<1>7. Writes'
  <2>1. NoneTwice(begun')
    BY <1>1, <1>2, <1>5 DEF Writes, NoneTwice
  <2>2. \A k \in DOMAIN begun' : begun'[k] \notin unwritten'
    BY <1>1, <1>2, <1>5 DEF Writes
  <2>3. Len(writing') = 1 /\ Len(begun') > 0 /\ begun'[Len(begun')] = writing'[1]
    BY <1>2, <1>5
  <2>4. write_lock' # NoWriter /\ stage' # "header"
    BY <1>5
  <2> QED BY <2>1, <2>2, <2>3, <2>4 DEF Writes
<1>8. /\ \A q : Holds(begun, q) => Holds(begun', q) /\ Before(begun', q, p)
      /\ \A q, r : Before(begun, q, r) => Before(begun', q, r)
      /\ Holds(begun', p)
  BY <1>2, BegunAppend
<1>9. /\ Stream \in Seq(Byte) /\ Len(Stream) \in Nat
      /\ DOMAIN Stream = 1 .. Len(Stream) /\ (Stream = <<>> <=> Len(Stream) = 0)
  BY <1>1, StreamType
<1>10. InStep'
  <2> SUFFICES ASSUME ~torn' PROVE InStep'
    BY DEF InStep
  <2>1. /\ Flows(begun, Stream) /\ Known(begun, Stream) /\ Front /\ Back /\ Handed
        /\ ~decoding => ~NeedsHeader /\ ~HasBody
        /\ ~IsShort(Header(p))
    BY <1>1, <1>5 DEF InStep
  <2>2. /\ Flows(begun', Stream) /\ Known(begun', Stream)
        /\ \A i \in DOMAIN Stream : Before(begun', Stream[i][1], p)
    BY <1>2, <2>1, FlowsBegun
  <2>3. ~decoding' => ~NeedsHeader' /\ ~HasBody'
    BY <1>5, <2>1 DEF NeedsHeader, HasBody
  <2>4. ASSUME NEW i \in DOMAIN got, NEW q \in Package, got[i] = Body(q)
        PROVE  Holds(begun, q)
    <3>1. PICK r \in Package : Holds(begun, r) /\ got[i] = Body(r)
      BY <2>1 DEF Handed
    <3> QED BY <2>4, <3>1, PiecesDiffer
  <2>5. /\ \A i \in DOMAIN got' : \E q \in Package : Holds(begun', q) /\ got'[i] = Body(q)
        /\ \A i, j \in DOMAIN got' : i < j =>
             \A q, r \in Package :
               got'[i] = Body(q) /\ got'[j] = Body(r) => Before(begun', q, r)
    BY <1>5, <1>8, <2>1 DEF Handed
  <2>6. CASE up
    <3>1. Stream' = Stream \o Header(p)
      BY <1>1, <1>3, <1>4, <1>5, <2>1, <2>6, StreamGrows
    <3>2. Stream # <<>> => Stream[Len(Stream)][2] = Total(Stream[Len(Stream)][1])
      BY <1>5, <2>1, <2>6 DEF Back
    <3>3. /\ Flows(begun', Stream \o Header(p)) /\ Known(begun', Stream \o Header(p))
      <4>1. 0 \in Nat /\ \A i \in 1 .. HeaderLen : i = 0 + i
        OBVIOUS
      <4>2. \A i \in 1 .. HeaderLen : Header(p)[i] = <<p, 0 + i>>
        BY <1>3, <4>1
      <4>3. 0 + Len(Header(p)) <= Total(p)
        BY <1>3
      <4> QED BY <1>3, <1>8, <1>9, <2>2, <3>2, <4>1, <4>2, <4>3, FlowsGrow
    <3>4. /\ Stream' # <<>> /\ Stream'[Len(Stream')] = <<p, HeaderLen>>
          /\ Stream'[1] = IF Stream = <<>> THEN <<p, 1>> ELSE Stream[1]
          /\ \A i \in DOMAIN Stream' : \/ i \in DOMAIN Stream /\ Stream'[i] = Stream[i]
                                       \/ Stream'[i][1] = p
      <4>1. 1 \in 1 .. HeaderLen /\ HeaderLen \in 1 .. HeaderLen
        BY <1>3
      <4>2. \A k \in 1 .. HeaderLen : Header(p)[k][1] = p
        BY <1>3
      <4>3. /\ Stream' # <<>> /\ Stream'[Len(Stream')] = Header(p)[Len(Header(p))]
            /\ Stream'[1] = IF Stream = <<>> THEN Header(p)[1] ELSE Stream[1]
            /\ \A i \in DOMAIN Stream' :
                 \/ i \in DOMAIN Stream /\ Stream'[i] = Stream[i]
                 \/ \E k \in 1 .. Len(Header(p)) : Stream'[i] = Header(p)[k]
        BY <1>3, <1>9, <3>1, Ends
      <4> QED BY <1>3, <4>1, <4>2, <4>3
    <3>5. Front'
      <4>1. CASE Stream = <<>>
        BY <1>5, <2>1, <2>6, <3>4, <4>1 DEF Front
      <4>2. CASE Stream # <<>>
        BY <1>5, <2>1, <3>4, <4>2 DEF Front
      <4> QED BY <4>1, <4>2
    <3>6. Back'
      BY <1>5, <2>6, <3>4 DEF Back
    <3>7. Handed'
      <4>1. ASSUME NEW i \in DOMAIN got', NEW q \in Package, got'[i] = Body(q)
            PROVE  /\ \A j \in DOMAIN Stream' : Before(begun', q, Stream'[j][1])
                   /\ HalfWay' => Before(begun', q, writing'[1])
        <5>1. Holds(begun, q) /\ \A j \in DOMAIN Stream : Before(begun, q, Stream[j][1])
          BY <1>5, <2>1, <2>4, <4>1 DEF Handed
        <5> QED BY <1>5, <1>8, <3>4, <5>1
      <4> QED BY <2>5, <4>1 DEF Handed
    <3> QED BY <2>3, <3>1, <3>3, <3>5, <3>6, <3>7 DEF InStep
  <2>7. CASE ~up
    <3>1. Stream' = Stream /\ pipe' = pipe /\ pack_size' = pack_size /\ ~up' /\ ~HalfWay'
      BY <1>4, <1>5, <2>7 DEF Stream
    <3>2. Front' /\ Back'
      BY <2>1, <2>7, <3>1 DEF Front, Back
    <3>3. Handed'
      <4>1. ASSUME NEW i \in DOMAIN got', NEW q \in Package, got'[i] = Body(q)
            PROVE  /\ \A j \in DOMAIN Stream' : Before(begun', q, Stream'[j][1])
                   /\ HalfWay' => Before(begun', q, writing'[1])
        BY <1>5, <1>8, <2>1, <3>1, <4>1 DEF Handed
      <4> QED BY <2>5, <4>1 DEF Handed
    <3> QED BY <2>2, <2>3, <3>1, <3>2, <3>3 DEF InStep
  <2> QED BY <2>6, <2>7
<1>11. Gapless'
  <2> SUFFICES ASSUME ~torn', conn' = 1, up' PROVE Gapless'
    BY DEF Gapless
  <2>1. /\ ~torn /\ conn = 1 /\ up /\ ~IsShort(Header(p))
        /\ Flows(begun, Stream) /\ Known(begun, Stream) /\ Front /\ Back
    BY <1>1, <1>5 DEF InStep
  <2>2. /\ whole /\ begun = accepted
        /\ Len(got) <= Len(begun)
        /\ \A i \in DOMAIN got : got[i] = Body(begun[i])
        /\ Follows(begun, Stream)
        /\ Stream = <<>> => Len(begun) = Len(got)
        /\ Stream # <<>> => /\ Len(got) < Len(begun)
                            /\ Stream[1][1] = begun[Len(got) + 1]
                            /\ Stream[Len(Stream)][1] = begun[Len(begun)]
    <3>1. got \in Seq(Seq(Byte)) /\ Len(got) \in Nat
      BY <1>1, LenProperties DEF TypeOK
    <3>2. Stream = <<>> => pack_size = 0
      BY <1>5, <2>1 DEF Front
    <3>3. /\ whole /\ begun = accepted
          /\ Len(got) <= Len(begun)
          /\ \A i \in DOMAIN got : got[i] = Body(begun[i])
          /\ Follows(begun, Stream)
          /\ Stream = <<>> => Len(begun) = Len(got) + 0
          /\ Stream # <<>> => /\ Len(got) < Len(begun)
                              /\ Stream[1][1] = begun[Len(got) + 1]
                              /\ Stream[Len(Stream)][1] = begun[Len(begun)]
      BY <1>1, <1>5, <2>1, <3>2 DEF Gapless
    <3>4. Len(got) + 0 = Len(got)
      BY <3>1
    <3> QED BY <3>3, <3>4
  <2>3. Len(got) \in Nat /\ DOMAIN got = 1 .. Len(got)
    BY <1>1, LenProperties DEF TypeOK
  <2>4. Stream' = Stream \o Header(p) /\ whole' = whole
    BY <1>1, <1>3, <1>4, <1>5, <2>1, StreamGrows
  <2>5. /\ Stream' # <<>> /\ Stream'[Len(Stream')] = <<p, HeaderLen>>
        /\ Stream'[1] = IF Stream = <<>> THEN <<p, 1>> ELSE Stream[1]
    <3>1. 1 \in 1 .. HeaderLen /\ HeaderLen \in 1 .. HeaderLen
      BY <1>3
    <3>2. /\ Stream' # <<>> /\ Stream'[Len(Stream')] = Header(p)[Len(Header(p))]
          /\ Stream'[1] = IF Stream = <<>> THEN Header(p)[1] ELSE Stream[1]
      BY <1>3, <1>9, <2>4, Ends
    <3> QED BY <1>3, <3>1, <3>2
  <2>6. begun' = Append(accepted', writing'[1]) /\ write_lock' # NoWriter /\ headed' /\ whole'
    BY <1>2, <1>5, <2>1, <2>2, <2>4
  <2>7. /\ Len(got') < Len(begun')
        /\ \A i \in DOMAIN got' : got'[i] = Body(begun'[i])
    <3>1. Len(got) < Len(begun) + 1 /\ \A i \in 1 .. Len(got) : i \in 1 .. Len(begun)
      <4>1. Len(got) \in Nat /\ Len(begun) \in Nat /\ Len(got) <= Len(begun)
        BY <1>2, <2>2, <2>3
      <4> QED BY <4>1
    <3> QED BY <1>2, <1>5, <2>2, <2>3, <3>1
  <2>8. Stream'[1][1] = begun'[Len(got') + 1]
    <3>1. CASE Stream = <<>>
      BY <1>2, <1>5, <2>2, <2>5, <3>1
    <3>2. CASE Stream # <<>>
      <4>1. Len(got) + 1 \in 1 .. Len(begun)
        <5>1. Len(got) \in Nat /\ Len(begun) \in Nat /\ Len(got) < Len(begun)
          BY <1>2, <2>2, <2>3, <3>2
        <5> QED BY <5>1
      <4> QED BY <1>2, <1>5, <2>2, <2>5, <3>2, <4>1
    <3> QED BY <3>1, <3>2
  <2>9. Stream'[Len(Stream')][1] = begun'[Len(begun')]
    BY <1>2, <2>5
  <2>10. Follows(begun', Stream')
    <3>1. NoneTwice(begun')
      BY <1>7 DEF Writes
    <3>2. Follows(begun', Stream) /\ Flows(begun', Stream) /\ Known(begun', Stream)
      BY <1>2, <2>1, <2>2, <3>1, FollowsBegun, FlowsBegun
    <3>3. Stream # <<>> => /\ Stream[Len(Stream)][2] = Total(Stream[Len(Stream)][1])
                           /\ Len(begun') > 1
                           /\ Stream[Len(Stream)][1] = begun'[Len(begun') - 1]
      <4>1. Stream # <<>> => Len(begun) \in 1 .. Len(begun) /\ Len(begun') - 1 = Len(begun)
        <5>1. /\ Len(got) \in Nat /\ Len(begun) \in Nat /\ Len(begun') = Len(begun) + 1
              /\ Stream # <<>> => Len(got) < Len(begun)
          BY <1>2, <2>2, <2>3
        <5> QED BY <5>1
      <4>2. Stream # <<>> => Len(begun') > 1
        BY <1>2, <4>1
      <4> QED BY <1>2, <1>5, <2>1, <2>2, <4>1, <4>2 DEF Back
    <3>4. \A i \in 1 .. HeaderLen : Header(p)[i] = <<p, 0 + i>>
      BY <1>3
    <3>5. 0 + Len(Header(p)) <= Total(p) /\ 0 \in Nat
      BY <1>3
    <3>6. Follows(begun', Stream \o Header(p))
      BY <1>2, <1>3, <1>9, <3>1, <3>2, <3>3, <3>4, <3>5, FollowsGrow
    <3> QED BY <2>4, <3>6
  <2>11. Len(got') <= Len(begun')
    BY <1>2, <1>5, <2>3, <2>7
  <2> QED BY <2>5, <2>6, <2>7, <2>8, <2>9, <2>10, <2>11 DEF Gapless
<1> QED BY <1>6, <1>7, <1>10, <1>11 DEF IInv

(* ... or when its body follows its header, ...                            *)
LEMMA WriteBodyKeeps ==
  ASSUME IInv, NEW w \in Writer, WriteBody(w)
  PROVE  IInv'
<1> DEFINE p == writing[1]
<1>1. TypeOK /\ Writes /\ InStep /\ Gapless
  BY DEF IInv
<1>2. /\ stage = "body" /\ write_lock = w /\ write_lock # NoWriter /\ Len(writing) = 1
      /\ p \in Package /\ Len(begun) > 0 /\ begun[Len(begun)] = p
      /\ begun \in Seq(Package) /\ Len(begun) \in Nat /\ DOMAIN begun = 1 .. Len(begun)
  <2>1. stage = "body" /\ write_lock = w /\ w # NoWriter
    BY DEF WriteBody
  <2>2. Len(writing) = 1 /\ Len(begun) > 0 /\ begun[Len(begun)] = p
    BY <1>1, <2>1 DEF Writes
  <2>3. writing \in Seq(Package) /\ begun \in Seq(Package)
    BY <1>1 DEF TypeOK
  <2> QED BY <2>1, <2>2, <2>3, LenProperties, ElementOfSeq
<1> HIDE DEF p
<1>3. /\ Body(p) \in Seq(Byte) /\ Len(Body(p)) = Size[p] /\ Size[p] \in Nat
      /\ Size[p] > 0 /\ \A i \in 1 .. Size[p] : Body(p)[i] = <<p, HeaderLen + i>>
      /\ Total(p) = HeaderLen + Size[p] /\ HeaderLen \in Nat /\ HeaderLen > 0
  BY <1>2, Pieces, Totals
<1>4. /\ pipe' \in Seq(Byte) /\ whole' \in BOOLEAN
      /\ up /\ ~IsShort(Body(p)) => pipe' = pipe \o Body(p) /\ whole' = whole
      /\ ~up => pipe' = pipe
  BY <1>1, <1>3, Transported DEF WriteBody, p
<1>5. /\ stage' = "return" /\ write_lock' = write_lock /\ writing' = writing
      /\ torn' = (torn \/ IsShort(Body(p)) \/ (up /\ ~headed))
      /\ UNCHANGED <<unwritten, begun, headed, accepted, up, conn, buffer, pack_size,
                     decoding, got>>
      /\ ~HalfWay' /\ (HalfWay <=> up /\ headed)
  BY <1>2 DEF WriteBody, readerVars, HalfWay, p
<1>6. TypeOK'
  BY <1>1, <1>4, <1>5 DEF TypeOK, IsShort
<1>7. Writes'
  BY <1>1, <1>2, <1>5 DEF Writes
<1>8. /\ Stream \in Seq(Byte) /\ Len(Stream) \in Nat
      /\ DOMAIN Stream = 1 .. Len(Stream) /\ (Stream = <<>> <=> Len(Stream) = 0)
  BY <1>1, StreamType
<1>9. ASSUME ~torn', up
      PROVE  /\ ~torn /\ HalfWay /\ Stream' = Stream \o Body(p) /\ whole' = whole
             /\ Stream # <<>> => Stream[Len(Stream)] = <<p, HeaderLen>>
             /\ Stream = <<>> => pack_size = Size[p]
             /\ Stream' # <<>> /\ Stream'[Len(Stream')] = <<p, Total(p)>>
             /\ Stream'[1] = IF Stream = <<>> THEN <<p, HeaderLen + 1>> ELSE Stream[1]
             /\ \A i \in DOMAIN Stream' : \/ i \in DOMAIN Stream /\ Stream'[i] = Stream[i]
                                          \/ Stream'[i][1] = p
  <2>1. ~torn /\ HalfWay /\ ~IsShort(Body(p)) /\ Front /\ Back
    BY <1>1, <1>5, <1>9 DEF InStep
  <2>2. Stream' = Stream \o Body(p) /\ whole' = whole
    BY <1>1, <1>3, <1>4, <1>5, <1>9, <2>1, StreamGrows
  <2>3. /\ Stream # <<>> => Stream[Len(Stream)] = <<p, HeaderLen>>
        /\ Stream = <<>> => pack_size = Size[p]
    BY <1>9, <2>1 DEF Front, Back, p
  <2>4. 1 \in 1 .. Size[p] /\ Size[p] \in 1 .. Size[p]
    BY <1>3
  <2>5. \A k \in 1 .. Size[p] : Body(p)[k][1] = p
    BY <1>3
  <2>6. /\ Stream' # <<>> /\ Stream'[Len(Stream')] = Body(p)[Len(Body(p))]
        /\ Stream'[1] = IF Stream = <<>> THEN Body(p)[1] ELSE Stream[1]
        /\ \A i \in DOMAIN Stream' :
             \/ i \in DOMAIN Stream /\ Stream'[i] = Stream[i]
             \/ \E k \in 1 .. Len(Body(p)) : Stream'[i] = Body(p)[k]
    BY <1>3, <1>8, <2>2, Ends
  <2> QED BY <1>3, <2>1, <2>2, <2>3, <2>4, <2>5, <2>6
<1>10. /\ HeaderLen # 0 /\ HeaderLen + Len(Body(p)) <= Total(p)
       /\ \A i \in 1 .. Len(Body(p)) : Body(p)[i] = <<p, HeaderLen + i>>
  BY <1>3
<1>11. InStep'
  <2> SUFFICES ASSUME ~torn' PROVE InStep'
    BY DEF InStep
  <2>1. /\ Flows(begun, Stream) /\ Known(begun, Stream) /\ Front /\ Back /\ Handed
        /\ ~decoding => ~NeedsHeader /\ ~HasBody
    BY <1>1, <1>5 DEF InStep
  <2>2. ~decoding' => ~NeedsHeader' /\ ~HasBody'
    BY <1>5, <2>1 DEF NeedsHeader, HasBody
  <2>3. CASE up
    <3>1. Flows(begun', Stream') /\ Known(begun', Stream')
      <4>1. Holds(begun, p)
        BY <1>2 DEF Holds
      <4>2. Flows(begun, Stream \o Body(p)) /\ Known(begun, Stream \o Body(p))
        BY <1>2, <1>3, <1>8, <1>9, <1>10, <2>1, <2>3, <4>1, FlowsGrow
      <4> QED BY <1>5, <1>9, <2>3, <4>2
    <3>2. Front'
      <4>1. CASE Stream = <<>>
        BY <1>3, <1>5, <1>9, <2>3, <4>1 DEF Front
      <4>2. CASE Stream # <<>>
        BY <1>5, <1>9, <2>1, <2>3, <4>2 DEF Front
      <4> QED BY <4>1, <4>2
    <3>3. Back'
      BY <1>5, <1>9, <2>3 DEF Back
    <3>4. Handed'
      BY <1>5, <1>9, <2>1, <2>3, HandedStays DEF p
    <3> QED BY <2>2, <3>1, <3>2, <3>3, <3>4 DEF InStep
  <2>4. CASE ~up
    <3>1. Stream' = Stream /\ pipe' = pipe /\ pack_size' = pack_size /\ ~up' /\ ~HalfWay'
      BY <1>4, <1>5, <2>4 DEF Stream
    <3>2. Front' /\ Back'
      BY <2>1, <2>4, <3>1 DEF Front, Back
    <3>3. Handed'
      BY <1>5, <2>1, <3>1, HandedStays
    <3> QED BY <1>5, <2>1, <2>2, <3>1, <3>2, <3>3 DEF InStep
  <2> QED BY <2>3, <2>4
<1>12. Gapless'
  <2> SUFFICES ASSUME ~torn', conn' = 1, up' PROVE Gapless'
    BY DEF Gapless
  <2>1. ~torn /\ conn = 1 /\ up /\ Flows(begun, Stream) /\ Known(begun, Stream)
    BY <1>1, <1>5 DEF InStep
  <2>2. Len(got) \in Nat /\ DOMAIN got = 1 .. Len(got) /\ Len(begun) - 1 + 1 = Len(begun)
    BY <1>1, <1>2, LenProperties DEF TypeOK
  <2>3. /\ whole /\ begun = Append(accepted, writing[1])
        /\ Len(got) <= Len(begun)
        /\ \A i \in DOMAIN got : got[i] = Body(begun[i])
        /\ Follows(begun, Stream)
        /\ Stream # <<>> => Len(got) < Len(begun) /\ Stream[1][1] = begun[Len(got) + 1]
        /\ Stream = <<>> /\ pack_size # 0 => Len(begun) = Len(got) + 1
    BY <1>1, <1>2, <2>1 DEF Gapless
  <2>4. Stream = <<>> => pack_size # 0
    BY <1>3, <1>9, <2>1
  <2>5. Len(got) < Len(begun)
    BY <1>2, <2>2, <2>3, <2>4
  <2>6. Stream'[1][1] = begun[Len(got) + 1] /\ Stream'[Len(Stream')][1] = begun[Len(begun)]
    <3>1. CASE Stream = <<>>
      BY <1>2, <1>9, <2>1, <2>3, <2>4, <3>1
    <3>2. CASE Stream # <<>>
      <4>1. Stream'[1] = Stream[1] /\ Stream'[Len(Stream')] = <<p, Total(p)>>
        BY <1>9, <2>1, <3>2
      <4>2. Stream[1][1] = begun[Len(got) + 1]
        BY <2>3, <3>2
      <4> QED BY <1>2, <4>1, <4>2
    <3> QED BY <3>1, <3>2
  <2>7. Follows(begun, Stream \o Body(p))
    <3>1. NoneTwice(begun)
      BY <1>1 DEF Writes
    <3> QED BY <1>2, <1>3, <1>8, <1>9, <1>10, <2>1, <2>3, <3>1, FollowsGrow
  <2>8. stage' # "body" /\ Stream' # <<>> /\ Stream' = Stream \o Body(p) /\ whole'
    BY <1>5, <1>9, <2>1, <2>3
  <2> QED BY <1>2, <1>5, <2>3, <2>5, <2>6, <2>7, <2>8 DEF Gapless
<1> QED BY <1>6, <1>7, <1>11, <1>12 DEF IInv

(* ... and returning leaves the stream alone.                              *)
LEMMA WriteReturnsKeeps ==
  ASSUME IInv, NEW w \in Writer, WriteReturns(w)
  PROVE  IInv'
<1>1. TypeOK /\ Writes /\ InStep /\ Gapless
  BY DEF IInv
<1>2. /\ stage = "return" /\ write_lock # NoWriter /\ Len(writing) = 1
      /\ write_lock' = NoWriter /\ stage' = "header" /\ writing' = <<>> /\ whole' = TRUE
      /\ accepted' = IF whole THEN Append(accepted, writing[1]) ELSE accepted
      /\ UNCHANGED <<unwritten, begun, headed, pipe, up, conn, torn, buffer, pack_size,
                     decoding, got>>
      /\ ~HalfWay /\ ~HalfWay'
  BY <1>1 DEF WriteReturns, Writes, linkVars, readerVars, HalfWay
<1>3. writing[1] \in Package /\ accepted' \in Seq(Package) /\ writing' \in Seq(Package)
  <2>1. writing \in Seq(Package) /\ accepted \in Seq(Package)
    BY <1>1 DEF TypeOK
  <2>2. writing[1] \in Package
    <3>1. 1 \in 1 .. Len(writing)
      BY <1>2
    <3> QED BY <2>1, <3>1, ElementOfSeq
  <2>3. Append(accepted, writing[1]) \in Seq(Package)
    BY <2>1, <2>2, AppendProperties
  <2> QED BY <1>2, <2>1, <2>2, <2>3
<1>4. TypeOK'
  <2>1. Len(writing') = 0
    BY <1>2
  <2> QED BY <1>1, <1>2, <1>3, <2>1 DEF TypeOK
<1>5. Writes'
  BY <1>1, <1>2 DEF Writes
<1>6. Stream' = Stream
  BY <1>2 DEF Stream
<1>7. InStep'
  <2> SUFFICES ASSUME ~torn' PROVE InStep'
    BY DEF InStep
  <2>1. /\ Flows(begun, Stream) /\ Known(begun, Stream) /\ Front /\ Back /\ Handed
        /\ ~decoding => ~NeedsHeader /\ ~HasBody
    BY <1>1, <1>2 DEF InStep
  <2>2. ~decoding' => ~NeedsHeader' /\ ~HasBody'
    BY <1>2, <2>1 DEF NeedsHeader, HasBody
  <2>3. Front' /\ Back'
    BY <1>2, <1>6, <2>1 DEF Front, Back
  <2>4. Handed'
    BY <1>2, <1>6, <2>1, HandedStays
  <2> QED BY <1>2, <1>6, <2>1, <2>2, <2>3, <2>4 DEF InStep
<1>8. Gapless'
  BY <1>1, <1>2, <1>6 DEF Gapless
<1> QED BY <1>4, <1>5, <1>7, <1>8 DEF IInv

(* A piece that arrives only moves on in the stream.                       *)
LEMMA DataReadyKeeps ==
  ASSUME IInv, DataReady
  PROVE  IInv'
<1>1. TypeOK /\ Writes /\ InStep /\ Gapless
  BY DEF IInv
<1>2. /\ pipe # <<>> /\ decoding' = TRUE
      /\ UNCHANGED <<write_lock, stage, writing, whole, unwritten, begun, headed,
                     accepted, up, conn, torn, pack_size, got>>
      /\ (HalfWay' <=> HalfWay)
  BY DEF DataReady, writerVars, HalfWay
<1>3. PICK k \in 1 .. Len(pipe) : /\ buffer' = buffer \o SubSeq(pipe, 1, k)
                                  /\ pipe' = SubSeq(pipe, k + 1, Len(pipe))
  <2>1. Len(pipe) \in Nat /\ MaxChunk \in Nat
    BY <1>1, LenProperties DEF TypeOK
  <2> DEFINE n == IF Len(pipe) < MaxChunk THEN Len(pipe) ELSE MaxChunk
  <2>2. n \in Nat /\ n <= Len(pipe)
    BY <2>1
  <2>3. \E k \in 1 .. n : /\ buffer' = buffer \o SubSeq(pipe, 1, k)
                          /\ pipe' = SubSeq(pipe, k + 1, Len(pipe))
    BY DEF DataReady
  <2> HIDE DEF n
  <2>4. \A k \in 1 .. n : k \in 1 .. Len(pipe)
    BY <2>1, <2>2
  <2> QED BY <2>3, <2>4, Zenon
<1>4. Stream' = Stream /\ buffer' \in Seq(Byte) /\ pipe' \in Seq(Byte)
  BY <1>1, <1>3, StreamMoves
<1>5. TypeOK'
  BY <1>1, <1>2, <1>4 DEF TypeOK
<1>6. Writes'
  BY <1>1, <1>2 DEF Writes
<1>7. InStep'
  <2> SUFFICES ASSUME ~torn' PROVE InStep'
    BY DEF InStep
  <2>1. Flows(begun, Stream) /\ Known(begun, Stream) /\ Front /\ Back /\ Handed
    BY <1>1, <1>2 DEF InStep
  <2>2. Front' /\ Back'
    BY <1>2, <1>4, <2>1 DEF Front, Back
  <2>3. Handed'
    BY <1>2, <1>4, <2>1, HandedStays
  <2> QED BY <1>2, <1>4, <2>1, <2>2, <2>3 DEF InStep
<1>8. Gapless'
  BY <1>1, <1>2, <1>4 DEF Gapless
<1> QED BY <1>5, <1>6, <1>7, <1>8 DEF IInv

(* A header read in step is that of the package the stream begins with.    *)
LEMMA DecodeHeaderKeeps ==
  ASSUME IInv, DecodeHeader
  PROVE  IInv'
<1> DEFINE p == Stream[1][1]
<1> DEFINE n == Len(Stream)
<1>1. TypeOK /\ Writes /\ InStep /\ Gapless
  BY DEF IInv
<1>2. /\ decoding /\ pack_size = 0 /\ Len(buffer) >= HeaderLen
      /\ pack_size' \in SizesIn(SubSeq(buffer, 1, HeaderLen))
      /\ buffer' = SubSeq(buffer, HeaderLen + 1, Len(buffer))
      /\ decoding' = (pack_size' # 0)
      /\ UNCHANGED <<write_lock, stage, writing, whole, unwritten, begun, headed,
                     accepted, pipe, up, conn, torn, got>>
      /\ (HalfWay' <=> HalfWay)
  BY DEF DecodeHeader, NeedsHeader, writerVars, linkVars, HalfWay
<1>3. /\ Stream \in Seq(Byte) /\ n \in Nat /\ DOMAIN Stream = 1 .. n
      /\ Len(buffer) \in Nat /\ Len(buffer) <= n /\ HeaderLen <= n
      /\ \A i \in 1 .. Len(buffer) : Stream[i] = buffer[i]
      /\ HeaderLen \in Nat /\ HeaderLen > 0 /\ Stream # <<>>
      /\ p \in Package /\ Stream[1] = <<p, Stream[1][2]>>
  <2>1. /\ Stream \in Seq(Byte) /\ n \in Nat /\ DOMAIN Stream = 1 .. n
        /\ n = Len(buffer) + Len(pipe) /\ Len(buffer) \in Nat /\ Len(pipe) \in Nat
        /\ \A i \in 1 .. Len(buffer) : Stream[i] = buffer[i]
        /\ Stream = <<>> <=> n = 0
        /\ \A i \in 1 .. n : /\ Stream[i][1] \in Package
                             /\ Stream[i] = <<Stream[i][1], Stream[i][2]>>
    BY <1>1, StreamType
  <2>2. /\ HeaderLen \in Nat /\ HeaderLen > 0 /\ Len(buffer) <= n /\ HeaderLen <= n
        /\ 1 \in 1 .. n /\ n # 0
    BY <1>2, <2>1
  <2> QED BY <2>1, <2>2
<1> HIDE DEF p, n
<1>4. buffer' \in Seq(Byte) /\ Stream' = SubSeq(Stream, HeaderLen + 1, n)
  <2>1. HeaderLen \in 0 .. Len(buffer)
    BY <1>2, <1>3
  <2> QED BY <1>1, <1>2, <2>1, StreamShrinks DEF n
<1>5. /\ Total(p) = HeaderLen + Size[p] /\ Size[p] \in Nat /\ Size[p] > 0
      /\ Header(p) \in Seq(Byte) /\ Len(Header(p)) = HeaderLen
      /\ \A i \in 1 .. HeaderLen : Header(p)[i] = <<p, i>>
  BY <1>3, Pieces, Totals
<1>6. TypeOK'
  <2>1. \A q \in Package : Size[q] \in Nat
    BY Totals
  <2>2. pack_size' \in Nat
    BY <1>2, <2>1 DEF SizesIn, AnySize
  <2> QED BY <1>1, <1>2, <1>4, <2>2 DEF TypeOK
<1>7. Writes'
  BY <1>1, <1>2 DEF Writes
<1>8. /\ Stream' \in Seq(Byte) /\ Len(Stream') = n - HeaderLen
      /\ DOMAIN Stream' = 1 .. n - HeaderLen
      /\ \A i \in 1 .. n - HeaderLen : Stream'[i] = Stream[i + HeaderLen]
      /\ (Stream' = <<>> <=> n = HeaderLen)
  <2>1. HeaderLen \in 0 .. Len(Stream)
    BY <1>3 DEF n
  <2>2. /\ Stream' \in Seq(Byte) /\ Len(Stream') = n - HeaderLen
        /\ DOMAIN Stream' = 1 .. n - HeaderLen
        /\ \A i \in 1 .. n - HeaderLen : Stream'[i] = Stream[i + HeaderLen]
    <3> DEFINE r == SubSeq(Stream, HeaderLen + 1, Len(Stream))
    <3>1. /\ r \in Seq(Byte) /\ Len(r) = Len(Stream) - HeaderLen
          /\ DOMAIN r = 1 .. Len(Stream) - HeaderLen
          /\ \A i \in 1 .. Len(Stream) - HeaderLen : r[i] = Stream[i + HeaderLen]
      BY <1>3, <2>1, Dropped
    <3>2. Stream' = r
      BY <1>4 DEF n
    <3> HIDE DEF r
    <3> QED BY <3>1, <3>2 DEF n
  <2>3. Stream' = <<>> <=> Len(Stream') = 0
    BY <2>2, EmptySeq
  <2>4. n - HeaderLen = 0 <=> n = HeaderLen
    BY <1>3
  <2> QED BY <2>2, <2>3, <2>4
<1>9. Stream' # <<>> => /\ 1 \in DOMAIN Stream' /\ Stream'[1] = Stream[HeaderLen + 1]
                        /\ HeaderLen + 1 \in DOMAIN Stream
                        /\ Stream'[Len(Stream')] = Stream[n]
  <2>1. n # HeaderLen => /\ 1 \in 1 .. n - HeaderLen /\ 1 + HeaderLen = HeaderLen + 1
                         /\ HeaderLen + 1 \in 1 .. n
                         /\ n - HeaderLen \in 1 .. n - HeaderLen
                         /\ (n - HeaderLen) + HeaderLen = n
    BY <1>3
  <2> QED BY <1>3, <1>8, <2>1
<1>10. ASSUME ~torn
       PROVE  /\ Flows(begun, Stream) /\ Known(begun, Stream) /\ Front /\ Back /\ Handed
              /\ Stream[1] = <<p, 1>>
              /\ \A i \in 1 .. n : i <= Total(p) => Stream[i] = <<p, i>>
              /\ pack_size' = Size[p]
              /\ Stream' = <<>> => Stream[n] = <<p, HeaderLen>> /\ (up => HalfWay)
              /\ Stream' # <<>> => Stream'[1] = <<p, HeaderLen + 1>>
  <2>1. Flows(begun, Stream) /\ Known(begun, Stream) /\ Front /\ Back /\ Handed
    BY <1>1, <1>10 DEF InStep
  <2>2. Stream[1] = <<p, 1>>
    BY <1>2, <1>3, <2>1 DEF Front
  <2>3. \A i \in 1 .. n : i <= Total(p) => Stream[i] = <<p, i>>
    <3>1. Stream[1][1] = p /\ Stream[1][2] = 1
      BY <2>2
    <3>2. \A i \in 1 .. n : /\ 1 \in DOMAIN Stream /\ i \in DOMAIN Stream /\ 1 <= i
                            /\ 1 + (i - 1) = i
      BY <1>3
    <3> QED BY <2>1, <3>1, <3>2 DEF Flows
  <2>4. SubSeq(buffer, 1, HeaderLen) = Header(p)
    <3> DEFINE r == SubSeq(buffer, 1, HeaderLen)
    <3>1. buffer \in Seq(Byte) /\ 1 <= HeaderLen + 1 /\ HeaderLen <= Len(buffer)
      BY <1>1, <1>2, <1>3 DEF TypeOK
    <3>2. /\ r \in Seq(Byte) /\ Len(r) = HeaderLen - 1 + 1
          /\ \A i \in 1 .. HeaderLen - 1 + 1 : r[i] = buffer[i + (1 - 1)]
      BY <1>3, <3>1, Cut
    <3> HIDE DEF r
    <3>3. \A i \in 1 .. HeaderLen : /\ i \in 1 .. HeaderLen - 1 + 1 /\ i + (1 - 1) = i
                                    /\ i \in 1 .. Len(buffer) /\ i \in 1 .. n
                                    /\ i <= Total(p)
      BY <1>3, <1>5, <3>1
    <3>4. \A i \in 1 .. HeaderLen : r[i] = Header(p)[i]
      BY <1>3, <1>5, <2>3, <3>2, <3>3
    <3>5. Len(r) = Len(Header(p)) /\ Len(r) = HeaderLen
      BY <1>3, <1>5, <3>2
    <3>6. r = Header(p)
      BY <1>5, <3>2, <3>4, <3>5, SeqEqual
    <3> QED BY <3>6 DEF r
  <2>5. pack_size' = Size[p]
    <3>1. \A q \in Package : Header(p) = Header(q) => q = p
      BY <1>3, PiecesDiffer
    <3> QED BY <1>2, <1>3, <2>4, <3>1 DEF SizesIn
  <2>6. ASSUME Stream' = <<>>
        PROVE  Stream[n] = <<p, HeaderLen>> /\ (up => HalfWay)
    <3>1. n = HeaderLen /\ n \in 1 .. n /\ n <= Total(p) /\ HeaderLen # Total(p)
      BY <1>3, <1>5, <1>8, <2>6
    <3>2. Stream[n] = <<p, HeaderLen>>
      BY <2>3, <3>1
    <3> QED BY <1>3, <2>1, <3>1, <3>2 DEF Back, n
  <2>7. ASSUME Stream' # <<>>
        PROVE  Stream'[1] = <<p, HeaderLen + 1>>
    <3>1. HeaderLen + 1 \in 1 .. n /\ HeaderLen + 1 <= Total(p)
      BY <1>3, <1>5, <1>9, <2>7
    <3> QED BY <1>9, <2>3, <2>7, <3>1
  <2> QED BY <2>1, <2>2, <2>3, <2>5, <2>6, <2>7
<1>11. InStep'
  <2> SUFFICES ASSUME ~torn' PROVE InStep'
    BY DEF InStep
  <2>1. ~torn
    BY <1>2
  <2>2. Flows(begun', Stream') /\ Known(begun', Stream')
    <3>1. /\ HeaderLen + 1 \in Nat /\ 1 <= HeaderLen + 1 /\ HeaderLen + 1 <= n + 1
          /\ n <= Len(Stream)
      BY <1>3 DEF n
    <3> QED BY <1>2, <1>3, <1>4, <1>10, <2>1, <3>1, FlowsSub
  <2>3. pack_size' # 0 /\ decoding'
    <3>1. pack_size' # 0
      BY <1>5, <1>10, <2>1
    <3> QED BY <1>2, <3>1, Zenon
  <2>4. Front'
    <3>1. CASE Stream' = <<>>
      <4>1. up => HalfWay /\ writing[1] = p
        BY <1>3, <1>10, <2>1, <3>1 DEF Back, n
      <4> QED BY <1>2, <1>10, <2>1, <2>3, <3>1, <4>1 DEF Front
    <3>2. CASE Stream' # <<>>
      BY <1>10, <2>1, <2>3, <3>2 DEF Front
    <3> QED BY <3>1, <3>2
  <2>5. Back'
    <3>1. Back /\ Stream # <<>>
      BY <1>3, <1>10, <2>1
    <3>2. Stream' # <<>> => Stream'[Len(Stream')] = Stream[Len(Stream)]
      BY <1>9 DEF n
    <3> QED BY <1>2, <3>1, <3>2 DEF Back
  <2>6. Handed'
    <3>1. \A j \in DOMAIN Stream' : \E k \in DOMAIN Stream : Stream'[j][1] = Stream[k][1]
      <4>1. \A j \in 1 .. n - HeaderLen : j + HeaderLen \in 1 .. n
        BY <1>3
      <4> QED BY <1>3, <1>8, <4>1
    <3> QED BY <1>2, <1>10, <2>1, <3>1, HandedStays
  <2> QED BY <2>2, <2>3, <2>4, <2>5, <2>6 DEF InStep
<1>12. Gapless'
  <2> SUFFICES ASSUME ~torn', conn' = 1, up' PROVE Gapless'
    BY DEF Gapless
  <2>1. ~torn /\ conn = 1 /\ up /\ pack_size' # 0
    BY <1>2, <1>5, <1>10
  <2>2. /\ whole /\ Len(got) <= Len(begun)
        /\ begun = IF write_lock = NoWriter THEN accepted ELSE Append(accepted, writing[1])
        /\ stage = "body" => headed
        /\ \A i \in DOMAIN got : got[i] = Body(begun[i])
        /\ Len(got) < Len(begun) /\ p = begun[Len(got) + 1]
        /\ Stream[n][1] = begun[Len(begun)]
        /\ Follows(begun, Stream)
    BY <1>1, <1>3, <2>1 DEF Gapless, p, n
  <2>3. Follows(begun, Stream')
    <3>1. /\ HeaderLen + 1 \in Nat /\ 1 <= HeaderLen + 1 /\ HeaderLen + 1 <= n + 1
          /\ n <= Len(Stream)
      BY <1>3 DEF n
    <3> QED BY <1>3, <1>4, <2>2, <3>1, FollowsSub
  <2>4. Stream' # <<>> => /\ Stream'[1][1] = begun[Len(got) + 1]
                          /\ Stream'[Len(Stream')][1] = begun[Len(begun)]
    BY <1>9, <1>10, <2>1, <2>2
  <2>5. Stream' = <<>> => Len(begun) = Len(got) + 1
    <3>1. /\ Len(got) \in Nat /\ Len(begun) \in Nat /\ DOMAIN begun = 1 .. Len(begun)
      BY <1>1, LenProperties DEF TypeOK
    <3>2. Len(got) + 1 \in DOMAIN begun /\ Len(begun) \in DOMAIN begun
      BY <2>2, <3>1
    <3>3. Stream' = <<>> => p = begun[Len(begun)]
      BY <1>10, <2>1, <2>2
    <3> QED BY <1>1, <2>2, <3>2, <3>3 DEF Writes, NoneTwice
  <2> QED BY <1>2, <2>1, <2>2, <2>3, <2>4, <2>5 DEF Gapless
<1> QED BY <1>6, <1>7, <1>11, <1>12 DEF IInv

(* A body taken in step is that of the package the stream begins with, and *)
(* what comes behind it was begun later.                                   *)
LEMMA DecodeBodyKeeps ==
  ASSUME IInv, DecodeBody
  PROVE  IInv'
<1> DEFINE p == Stream[1][1]
<1> DEFINE n == Len(Stream)
<1> DEFINE z == pack_size
<1>1. TypeOK /\ Writes /\ InStep /\ Gapless
  BY DEF IInv
<1>2. /\ decoding /\ z # 0 /\ Len(buffer) >= z
      /\ got' = Append(got, SubSeq(buffer, 1, z))
      /\ buffer' = SubSeq(buffer, z + 1, Len(buffer))
      /\ pack_size' = 0 /\ decoding' = decoding
      /\ UNCHANGED <<write_lock, stage, writing, whole, unwritten, begun, headed,
                     accepted, pipe, up, conn, torn>>
      /\ (HalfWay' <=> HalfWay)
  BY DEF DecodeBody, HasBody, writerVars, linkVars, HalfWay
<1>3. /\ Stream \in Seq(Byte) /\ n \in Nat /\ DOMAIN Stream = 1 .. n
      /\ Len(buffer) \in Nat /\ Len(buffer) <= n /\ z <= n /\ z \in Nat /\ z > 0
      /\ \A i \in 1 .. Len(buffer) : Stream[i] = buffer[i]
      /\ HeaderLen \in Nat /\ HeaderLen > 0 /\ Stream # <<>>
      /\ p \in Package /\ Stream[1] = <<p, Stream[1][2]>>
  <2>1. /\ Stream \in Seq(Byte) /\ n \in Nat /\ DOMAIN Stream = 1 .. n
        /\ n = Len(buffer) + Len(pipe) /\ Len(buffer) \in Nat /\ Len(pipe) \in Nat
        /\ \A i \in 1 .. Len(buffer) : Stream[i] = buffer[i]
        /\ Stream = <<>> <=> n = 0
        /\ \A i \in 1 .. n : /\ Stream[i][1] \in Package
                             /\ Stream[i] = <<Stream[i][1], Stream[i][2]>>
    BY <1>1, StreamType
  <2>2. z \in Nat
    BY <1>1 DEF TypeOK
  <2>3. /\ HeaderLen \in Nat /\ HeaderLen > 0 /\ Len(buffer) <= n /\ z <= n /\ z > 0
        /\ 1 \in 1 .. n /\ n # 0
    BY <1>2, <2>1, <2>2
  <2> QED BY <2>1, <2>2, <2>3
<1> HIDE DEF p, n
<1>4. buffer' \in Seq(Byte) /\ Stream' = SubSeq(Stream, z + 1, n)
  <2>1. z \in 0 .. Len(buffer)
    BY <1>2, <1>3
  <2> QED BY <1>1, <1>2, <2>1, StreamShrinks DEF n
<1>5. /\ Total(p) = HeaderLen + Size[p] /\ Size[p] \in Nat /\ Size[p] > 0
      /\ Body(p) \in Seq(Byte) /\ Len(Body(p)) = Size[p]
      /\ \A i \in 1 .. Size[p] : Body(p)[i] = <<p, HeaderLen + i>>
  BY <1>3, Pieces, Totals
<1>6. /\ got \in Seq(Seq(Byte)) /\ Len(got) \in Nat /\ DOMAIN got = 1 .. Len(got)
      /\ got' \in Seq(Seq(Byte)) /\ Len(got') = Len(got) + 1
      /\ DOMAIN got' = 1 .. Len(got) + 1
      /\ \A i \in 1 .. Len(got) : got'[i] = got[i]
      /\ got'[Len(got) + 1] = SubSeq(buffer, 1, z)
  <2>1. buffer \in Seq(Byte) /\ got \in Seq(Seq(Byte))
    BY <1>1 DEF TypeOK
  <2> DEFINE r == SubSeq(buffer, 1, z)
  <2>2. r \in Seq(Byte)
    <3>1. 1 <= z + 1 /\ z <= Len(buffer)
      BY <1>2, <1>3
    <3> QED BY <1>3, <2>1, <3>1, Cut
  <2>3. got' = Append(got, r)
    BY <1>2
  <2> HIDE DEF r
  <2> DEFINE T == Seq(Byte)
  <2>4. got \in Seq(T) /\ r \in T
    BY <2>1, <2>2
  <2> HIDE DEF T
  <2>5. /\ got' \in Seq(T) /\ Len(got') = Len(got) + 1
        /\ \A i \in 1 .. Len(got) : got'[i] = got[i]
        /\ got'[Len(got) + 1] = r
    BY <2>3, <2>4, AppendProperties
  <2>6. /\ Len(got) \in Nat /\ DOMAIN got = 1 .. Len(got)
        /\ DOMAIN got' = 1 .. Len(got')
    BY <2>4, <2>5, LenProperties
  <2> QED BY <2>1, <2>5, <2>6 DEF T, r
<1>7. TypeOK'
  BY <1>1, <1>2, <1>4, <1>6 DEF TypeOK
<1>8. Writes'
  BY <1>1, <1>2 DEF Writes
<1>9. /\ Stream' \in Seq(Byte) /\ Len(Stream') = n - z
      /\ DOMAIN Stream' = 1 .. n - z
      /\ \A i \in 1 .. n - z : Stream'[i] = Stream[i + z]
      /\ (Stream' = <<>> <=> n = z)
  <2>1. z \in 0 .. Len(Stream)
    BY <1>3 DEF n
  <2>2. /\ Stream' \in Seq(Byte) /\ Len(Stream') = n - z
        /\ DOMAIN Stream' = 1 .. n - z
        /\ \A i \in 1 .. n - z : Stream'[i] = Stream[i + z]
    <3> DEFINE r == SubSeq(Stream, z + 1, Len(Stream))
    <3>1. /\ r \in Seq(Byte) /\ Len(r) = Len(Stream) - z
          /\ DOMAIN r = 1 .. Len(Stream) - z
          /\ \A i \in 1 .. Len(Stream) - z : r[i] = Stream[i + z]
      BY <1>3, <2>1, Dropped
    <3>2. Stream' = r
      BY <1>4 DEF n
    <3> HIDE DEF r
    <3> QED BY <3>1, <3>2 DEF n
  <2>3. Stream' = <<>> <=> Len(Stream') = 0
    BY <2>2, EmptySeq
  <2>4. n - z = 0 <=> n = z
    BY <1>3
  <2> QED BY <2>2, <2>3, <2>4
<1>10. Stream' # <<>> => /\ 1 \in DOMAIN Stream' /\ Stream'[1] = Stream[z + 1]
                         /\ z + 1 \in DOMAIN Stream
                         /\ Stream'[Len(Stream')] = Stream[n]
  <2>1. n # z => /\ 1 \in 1 .. n - z /\ 1 + z = z + 1 /\ z + 1 \in 1 .. n
                 /\ n - z \in 1 .. n - z /\ (n - z) + z = n
    BY <1>3
  <2> QED BY <1>3, <1>9, <2>1
<1>11. ASSUME ~torn
       PROVE  /\ Flows(begun, Stream) /\ Known(begun, Stream) /\ Front /\ Back /\ Handed
              /\ z = Size[p] /\ Stream[1] = <<p, HeaderLen + 1>> /\ Holds(begun, p)
              /\ got'[Len(got) + 1] = Body(p)
              /\ \A i \in 1 .. n : i > z => Before(begun, p, Stream[i][1])
              /\ Stream' # <<>> => Stream'[1][2] = 1
              /\ Stream' = <<>> => Stream[n] = <<p, Total(p)>> /\ ~HalfWay
              /\ HalfWay => Before(begun, p, writing[1])
  <2>1. Flows(begun, Stream) /\ Known(begun, Stream) /\ Front /\ Back /\ Handed
    BY <1>1, <1>11 DEF InStep
  <2>2. z = Size[p] /\ Stream[1] = <<p, HeaderLen + 1>>
    BY <1>2, <1>3, <2>1 DEF Front, p
  <2>3. ASSUME NEW i \in 1 .. n
        PROVE  /\ i <= z => Stream[i] = <<p, HeaderLen + i>>
               /\ i > z => Before(begun, p, Stream[i][1])
               /\ i = z + 1 => Stream[i][2] = 1
    <3>1. Stream[1][1] = p /\ Stream[1][2] = HeaderLen + 1
      BY <2>2
    <3>2. /\ 1 \in DOMAIN Stream /\ i \in DOMAIN Stream /\ 1 <= i
          /\ (HeaderLen + 1) + (i - 1) = HeaderLen + i
          /\ i <= z => HeaderLen + i <= Total(p)
          /\ i > z => HeaderLen + i > Total(p)
          /\ i = z + 1 => HeaderLen + i = Total(p) + 1
      BY <1>3, <1>5, <2>2
    <3> HIDE DEF z
    <3> QED BY <2>1, <3>1, <3>2 DEF Flows
  <2>4. SubSeq(buffer, 1, z) = Body(p)
    <3> DEFINE r == SubSeq(buffer, 1, z)
    <3>1. buffer \in Seq(Byte) /\ 1 <= z + 1 /\ z <= Len(buffer) /\ z \in Nat
      BY <1>1, <1>2, <1>3 DEF TypeOK
    <3>2. /\ r \in Seq(Byte) /\ Len(r) = z - 1 + 1
          /\ \A i \in 1 .. z - 1 + 1 : r[i] = buffer[i + (1 - 1)]
      BY <3>1, Cut
    <3> HIDE DEF r
    <3>3. \A i \in 1 .. z : /\ i \in 1 .. z - 1 + 1 /\ i + (1 - 1) = i
                            /\ i \in 1 .. Len(buffer) /\ i \in 1 .. n /\ i <= z
      BY <1>3, <3>1
    <3>4. \A i \in 1 .. z : r[i] = Body(p)[i]
      BY <1>3, <1>5, <2>2, <2>3, <3>2, <3>3
    <3>5. Len(r) = Len(Body(p)) /\ Len(r) = z
      BY <1>3, <1>5, <2>2, <3>2
    <3>6. r = Body(p)
      BY <1>5, <3>2, <3>4, <3>5, SeqEqual
    <3> QED BY <3>6 DEF r
  <2>5. Holds(begun, p)
    <3>1. 1 \in DOMAIN Stream
      BY <1>3
    <3> QED BY <2>1, <3>1 DEF Known, p
  <2>6. Stream' # <<>> => Stream'[1][2] = 1
    BY <1>3, <1>10, <2>3
  <2>7. n \in 1 .. n /\ (n <= z \/ n > z)
    BY <1>3
  <2>8. HalfWay => Stream[n] = <<writing[1], HeaderLen>>
    BY <1>3, <2>1 DEF Back, HalfWay, n
  <2>9. HalfWay => Before(begun, p, writing[1])
    <3>1. HeaderLen + n # HeaderLen
      BY <1>3
    <3>2. HalfWay => n > z
      BY <2>3, <2>7, <2>8, <3>1
    <3> QED BY <2>3, <2>7, <2>8, <3>2
  <2>10. Stream' = <<>> => Stream[n] = <<p, Total(p)>> /\ ~HalfWay
    <3>1. n = z => n <= z /\ HeaderLen + n = Total(p) /\ HeaderLen + n # HeaderLen
      BY <1>3, <1>5, <2>2
    <3> QED BY <1>9, <2>3, <2>7, <2>8, <3>1
  <2> QED BY <1>6, <2>1, <2>2, <2>3, <2>4, <2>5, <2>6, <2>9, <2>10
<1> HIDE DEF z
<1>12. InStep'
  <2> SUFFICES ASSUME ~torn' PROVE InStep'
    BY DEF InStep
  <2>1. ~torn
    BY <1>2
  <2>2. Flows(begun', Stream') /\ Known(begun', Stream')
    <3>1. /\ z + 1 \in Nat /\ 1 <= z + 1 /\ z + 1 <= n + 1 /\ n <= Len(Stream)
      BY <1>3 DEF n
    <3> QED BY <1>2, <1>3, <1>4, <1>11, <2>1, <3>1, FlowsSub
  <2>3. Front'
    <3>1. CASE Stream' = <<>>
      BY <1>2, <1>11, <2>1, <3>1 DEF Front
    <3>2. CASE Stream' # <<>>
      BY <1>2, <1>11, <2>1, <3>2 DEF Front
    <3> QED BY <3>1, <3>2
  <2>4. Back'
    <3>1. Back /\ Stream # <<>>
      BY <1>3, <1>11, <2>1
    <3>2. Stream' # <<>> => Stream'[Len(Stream')] = Stream[Len(Stream)]
      BY <1>10 DEF n
    <3> QED BY <1>2, <3>1, <3>2 DEF Back
  <2>5. Handed'
    <3>1. \A i \in DOMAIN got' : i \in DOMAIN got \/ i = Len(got) + 1
      BY <1>6
    <3>2. \A i, j \in DOMAIN got' : i < j => i \in DOMAIN got
      BY <1>6
    <3>3. \A i \in DOMAIN got : got'[i] = got[i]
      BY <1>6
    <3>4. got'[Len(got) + 1] = Body(p) /\ \A q \in Package : Body(p) = Body(q) => q = p
      BY <1>3, <1>11, <2>1, PiecesDiffer
    <3>5. \A i \in DOMAIN got' : \E q \in Package : Holds(begun', q) /\ got'[i] = Body(q)
      BY <1>2, <1>3, <1>11, <2>1, <3>1, <3>3, <3>4 DEF Handed
    <3>6. \A i \in DOMAIN got, q \in Package : got[i] = Body(q) => Before(begun, q, p)
      <4>1. 1 \in DOMAIN Stream
        BY <1>3
      <4> QED BY <1>11, <2>1, <4>1 DEF Handed, p
    <3>7. ASSUME NEW i \in DOMAIN got', NEW j \in DOMAIN got', i < j,
                 NEW q \in Package, NEW r \in Package,
                 got'[i] = Body(q), got'[j] = Body(r)
          PROVE  Before(begun', q, r)
      <4>1. i \in DOMAIN got /\ got[i] = Body(q)
        BY <3>2, <3>3, <3>7
      <4>2. CASE j \in DOMAIN got
        BY <1>2, <1>11, <2>1, <3>3, <3>7, <4>1, <4>2 DEF Handed
      <4>3. CASE j = Len(got) + 1
        BY <1>2, <3>4, <3>6, <3>7, <4>1, <4>3
      <4> QED BY <3>1, <4>2, <4>3
    <3>8. \A j \in DOMAIN Stream' : \E k \in DOMAIN Stream : k > z /\ Stream'[j] = Stream[k]
      <4>1. \A j \in 1 .. n - z : j + z \in 1 .. n /\ j + z > z
        BY <1>3
      <4> QED BY <1>3, <1>9, <4>1
    <3>9. ASSUME NEW i \in DOMAIN got', NEW q \in Package, got'[i] = Body(q)
          PROVE  /\ \A j \in DOMAIN Stream' : Before(begun', q, Stream'[j][1])
                 /\ HalfWay' => Before(begun', q, writing'[1])
      <4>1. CASE i \in DOMAIN got
        <5>1. /\ \A j \in DOMAIN Stream : Before(begun, q, Stream[j][1])
              /\ HalfWay => Before(begun, q, writing[1])
          BY <1>11, <2>1, <3>3, <3>9, <4>1 DEF Handed
        <5> QED BY <1>2, <3>8, <5>1
      <4>2. CASE i = Len(got) + 1
        <5>1. q = p
          BY <3>4, <3>9, <4>2
        <5> QED BY <1>2, <1>3, <1>11, <2>1, <3>8, <5>1
      <4> QED BY <3>1, <4>1, <4>2
    <3> QED BY <3>5, <3>7, <3>9 DEF Handed
  <2> QED BY <1>2, <2>2, <2>3, <2>4, <2>5 DEF InStep
<1>13. Gapless'
  <2> SUFFICES ASSUME ~torn', conn' = 1, up' PROVE Gapless'
    BY DEF Gapless
  <2>1. ~torn /\ conn = 1 /\ up
    BY <1>2
  <2>2. /\ whole /\ Len(got) <= Len(begun)
        /\ begun = IF write_lock = NoWriter THEN accepted ELSE Append(accepted, writing[1])
        /\ stage = "body" => headed
        /\ \A i \in DOMAIN got : got[i] = Body(begun[i])
        /\ Len(got) < Len(begun) /\ p = begun[Len(got) + 1]
        /\ Stream[n][1] = begun[Len(begun)]
        /\ Follows(begun, Stream)
    BY <1>1, <1>3, <2>1 DEF Gapless, p, n
  <2>3. Follows(begun, Stream')
    <3>1. /\ z + 1 \in Nat /\ 1 <= z + 1 /\ z + 1 <= n + 1 /\ n <= Len(Stream)
      BY <1>3 DEF n
    <3> QED BY <1>3, <1>4, <2>2, <3>1, FollowsSub
  <2>4. /\ Len(begun) \in Nat /\ DOMAIN begun = 1 .. Len(begun)
    BY <1>1, LenProperties DEF TypeOK
  <2>5. /\ Len(got') <= Len(begun) /\ Len(got) + 1 \in DOMAIN begun
        /\ Len(begun) \in DOMAIN begun
    BY <1>6, <2>2, <2>4
  <2>6. \A i \in DOMAIN got' : got'[i] = Body(begun'[i])
    <3>1. \A i \in DOMAIN got' : i \in 1 .. Len(got) \/ i = Len(got) + 1
      BY <1>6
    <3> QED BY <1>2, <1>6, <1>11, <2>1, <2>2, <3>1
  <2>7. Stream' = <<>> => Len(begun) = Len(got') + 0
    <3>1. Stream' = <<>> => p = begun[Len(begun)]
      BY <1>11, <2>1, <2>2
    <3>2. Stream' = <<>> => Len(begun) = Len(got) + 1
      BY <1>1, <2>2, <2>5, <3>1 DEF Writes, NoneTwice
    <3> QED BY <1>6, <3>2
  <2>8. Stream' # <<>> => /\ Len(got') < Len(begun)
                          /\ Stream'[1][1] = begun[Len(got') + 1]
                          /\ Stream'[Len(Stream')][1] = begun[Len(begun)]
    <3> SUFFICES ASSUME Stream' # <<>>
                 PROVE  /\ Len(got') < Len(begun)
                        /\ Stream'[1][1] = begun[Len(got') + 1]
                        /\ Stream'[Len(Stream')][1] = begun[Len(begun)]
      OBVIOUS
    <3>1. Stream[1][1] = begun[Len(got) + 1] /\ Stream[1][2] = HeaderLen + 1
      BY <1>11, <2>1, <2>2 DEF p
    <3>2. /\ 1 \in DOMAIN Stream /\ z + 1 \in DOMAIN Stream /\ 1 <= z + 1
          /\ (HeaderLen + 1) + ((z + 1) - 1) = Total(p) + 1
      BY <1>3, <1>5, <1>10, <1>11, <2>1
    <3>3. Len(got) + 1 < Len(begun) /\ Stream[z + 1][1] = begun[(Len(got) + 1) + 1]
      <4> DEFINE k == Len(got) + 1
      <4> DEFINE j == z + 1
      <4>1. /\ k \in DOMAIN begun /\ 1 \in DOMAIN Stream /\ j \in DOMAIN Stream /\ 1 <= j
            /\ Stream[1][1] = begun[k] /\ Stream[1][2] + (j - 1) = Total(begun[k]) + 1
        BY <2>2, <2>5, <3>1, <3>2
      <4> HIDE DEF k, j
      <4>2. k < Len(begun) /\ Stream[j][1] = begun[k + 1]
        BY <2>2, <4>1 DEF Follows
      <4> QED BY <4>2 DEF k, j
    <3> QED BY <1>6, <1>10, <2>2, <3>3
  <2> QED BY <1>2, <2>2, <2>3, <2>5, <2>6, <2>7, <2>8 DEF Gapless
<1> QED BY <1>7, <1>8, <1>12, <1>13 DEF IInv

(* Waiting for more changes nothing.                                       *)
LEMMA DecodeReturnsKeeps ==
  ASSUME IInv, DecodeReturns
  PROVE  IInv'
<1>1. TypeOK /\ Writes /\ InStep /\ Gapless
  BY DEF IInv
<1>2. /\ ~NeedsHeader /\ ~HasBody /\ decoding' = FALSE
      /\ UNCHANGED <<write_lock, stage, writing, whole, unwritten, begun, headed,
                     accepted, pipe, up, conn, torn, buffer, pack_size, got>>
      /\ (HalfWay' <=> HalfWay)
  BY DEF DecodeReturns, writerVars, linkVars, HalfWay
<1>3. Stream' = Stream /\ ~NeedsHeader' /\ ~HasBody'
  BY <1>2 DEF Stream, NeedsHeader, HasBody
<1>4. TypeOK' /\ Writes'
  BY <1>1, <1>2 DEF TypeOK, Writes
<1>5. InStep'
  <2> SUFFICES ASSUME ~torn' PROVE InStep'
    BY DEF InStep
  <2>1. Flows(begun, Stream) /\ Known(begun, Stream) /\ Front /\ Back /\ Handed
    BY <1>1, <1>2 DEF InStep
  <2>2. Front' /\ Back'
    BY <1>2, <1>3, <2>1 DEF Front, Back
  <2>3. Handed'
    BY <1>2, <1>3, <2>1, HandedStays
  <2> QED BY <1>2, <1>3, <2>1, <2>2, <2>3 DEF InStep
<1>6. Gapless'
  BY <1>1, <1>2, <1>3 DEF Gapless
<1> QED BY <1>4, <1>5, <1>6 DEF IInv

(* A lost connection leaves the first part of the stream in the buffer.    *)
LEMMA ClosedKeeps ==
  ASSUME IInv, Closed
  PROVE  IInv'
<1>1. TypeOK /\ Writes /\ InStep /\ Gapless
  BY DEF IInv
<1>2. /\ ~decoding /\ up' = FALSE /\ pipe' = <<>>
      /\ UNCHANGED <<write_lock, stage, writing, whole, unwritten, begun, headed,
                     accepted, conn, torn, buffer, pack_size, decoding, got>>
      /\ ~HalfWay'
  BY DEF Closed, writerVars, readerVars, HalfWay
<1>3. TypeOK' /\ Writes'
  <2>1. pipe' \in Seq(Byte)
    BY <1>2
  <2> QED BY <1>1, <1>2, <2>1 DEF TypeOK, Writes
<1>4. Gapless'
  BY <1>2 DEF Gapless
<1>5. /\ Stream' = SubSeq(Stream, 1, Len(buffer)) /\ Stream' = buffer
      /\ Stream \in Seq(Byte) /\ Len(buffer) \in Nat /\ Len(buffer) <= Len(Stream)
      /\ 1 <= Len(buffer) + 1 /\ (buffer = <<>> <=> Len(buffer) = 0)
      /\ DOMAIN buffer = 1 .. Len(buffer) /\ DOMAIN Stream = 1 .. Len(Stream)
      /\ \A i \in 1 .. Len(buffer) : Stream[i] = buffer[i] /\ i \in 1 .. Len(Stream)
      /\ (Stream = <<>> <=> Len(Stream) = 0) /\ Len(Stream) \in Nat
  <2>1. Stream' = SubSeq(Stream, 1, Len(buffer)) /\ Stream' = buffer
    BY <1>1, <1>2, StreamIsCut
  <2>2. /\ Stream \in Seq(Byte) /\ Len(buffer) \in Nat /\ Len(pipe) \in Nat
        /\ Len(Stream) = Len(buffer) + Len(pipe)
        /\ \A i \in 1 .. Len(buffer) : Stream[i] = buffer[i]
        /\ buffer = <<>> <=> Len(buffer) = 0
        /\ Stream = <<>> <=> Len(Stream) = 0
        /\ DOMAIN Stream = 1 .. Len(Stream) /\ Len(Stream) \in Nat
    BY <1>1, StreamType
  <2>3. DOMAIN buffer = 1 .. Len(buffer)
    BY <1>1, LenProperties DEF TypeOK
  <2>4. Len(buffer) <= Len(Stream) /\ 1 <= Len(buffer) + 1
    BY <2>2
  <2>5. \A i \in 1 .. Len(buffer) : i \in 1 .. Len(Stream)
    BY <2>2, <2>4
  <2> QED BY <2>1, <2>2, <2>3, <2>4, <2>5
<1>6. InStep'
  <2> SUFFICES ASSUME ~torn' PROVE InStep'
    BY DEF InStep
  <2>1. /\ Flows(begun, Stream) /\ Known(begun, Stream) /\ Front /\ Back /\ Handed
        /\ ~decoding => ~NeedsHeader /\ ~HasBody
    BY <1>1, <1>2 DEF InStep
  <2>2. Flows(begun', Stream') /\ Known(begun', Stream')
    <3>1. 1 \in Nat
      OBVIOUS
    <3> QED BY <1>2, <1>5, <2>1, <3>1, FlowsSub
  <2>3. Front'
    <3>1. Stream' # <<>> => Stream # <<>> /\ Stream'[1] = Stream[1]
      <4>1. Len(buffer) # 0 => 1 \in 1 .. Len(buffer) /\ Len(Stream) # 0
        BY <1>5
      <4> QED BY <1>5, <4>1
    <3> QED BY <1>2, <2>1, <3>1 DEF Front
  <2>4. Back'
    BY <1>2 DEF Back
  <2>5. Handed'
    <3>1. \A j \in DOMAIN Stream' : \E k \in DOMAIN Stream : Stream'[j][1] = Stream[k][1]
      BY <1>5
    <3> QED BY <1>2, <2>1, <3>1, HandedStays
  <2>6. ~NeedsHeader' /\ ~HasBody'
    BY <1>2, <2>1 DEF NeedsHeader, HasBody
  <2> QED BY <2>2, <2>3, <2>4, <2>5, <2>6 DEF InStep
<1> QED BY <1>3, <1>4, <1>6 DEF IInv

(* The next connection finds an empty buffer, or a torn stream.            *)
LEMMA OpenedKeeps ==
  ASSUME IInv, Opened
  PROVE  IInv'
<1>1. TypeOK /\ Writes /\ InStep /\ Gapless
  BY DEF IInv
<1>2. /\ ~up /\ up' = TRUE /\ conn' = conn + 1 /\ headed' = FALSE
      /\ torn' = (torn \/ buffer # <<>> \/ pack_size # 0)
      /\ UNCHANGED <<write_lock, stage, writing, whole, unwritten, begun, accepted, pipe,
                     buffer, pack_size, decoding, got>>
      /\ ~HalfWay'
  BY DEF Opened, readerVars, HalfWay
<1>3. TypeOK' /\ Writes'
  <2>1. conn' \in Nat \ {0} /\ torn' \in BOOLEAN
    BY <1>1, <1>2 DEF TypeOK
  <2> QED BY <1>1, <1>2, <2>1 DEF TypeOK, Writes
<1>4. Gapless'
  <2>1. conn' # 1
    BY <1>1, <1>2 DEF TypeOK
  <2> QED BY <2>1 DEF Gapless
<1>5. InStep'
  <2> SUFFICES ASSUME ~torn' PROVE InStep'
    BY DEF InStep
  <2>1. /\ ~torn /\ buffer = <<>> /\ pack_size = 0 /\ Back /\ Handed
        /\ ~decoding => ~NeedsHeader /\ ~HasBody
    BY <1>1, <1>2 DEF InStep
  <2>2. Stream' = <<>> /\ DOMAIN Stream' = {}
    <3>1. pipe = <<>>
      BY <1>2, <2>1 DEF Back
    <3>2. <<>> \o <<>> = <<>> /\ DOMAIN <<>> = {}
      OBVIOUS
    <3> QED BY <1>2, <2>1, <3>1, <3>2 DEF Stream
  <2>3. Flows(begun', Stream') /\ Known(begun', Stream')
    BY <2>2 DEF Flows, Known
  <2>4. Front' /\ Back'
    BY <1>2, <2>1, <2>2 DEF Front, Back
  <2>5. Handed'
    BY <1>2, <2>1, <2>2, HandedStays
  <2>6. ~decoding' => ~NeedsHeader' /\ ~HasBody'
    BY <1>2, <2>1 DEF NeedsHeader, HasBody
  <2> QED BY <2>3, <2>4, <2>5, <2>6 DEF InStep
<1> QED BY <1>3, <1>4, <1>5 DEF IInv

(* Before anything is written.                                             *)
LEMMA InitKeeps == Init => IInv
<1> SUFFICES ASSUME Init PROVE IInv
  OBVIOUS
<1>1. /\ <<>> \in Seq(Package) /\ <<>> \in Seq(Byte) /\ <<>> \in Seq(Seq(Byte))
      /\ Len(<<>>) = 0 /\ DOMAIN <<>> = {} /\ <<>> \o <<>> = <<>>
  OBVIOUS
<1>2. TypeOK
  <2>1. 1 \in Nat \ {0} /\ 0 \in Nat /\ 0 <= 1
    OBVIOUS
  <2> QED BY <1>1, <2>1 DEF Init, TypeOK
<1>3. Writes
  BY <1>1 DEF Init, Writes, NoneTwice
<1>4. Stream = <<>> /\ DOMAIN Stream = {} /\ ~HalfWay
  BY <1>1 DEF Init, Stream, HalfWay
<1>5. InStep
  <2>1. Flows(begun, Stream) /\ Known(begun, Stream)
    BY <1>4 DEF Flows, Known
  <2>2. Front /\ Back
    BY <1>4 DEF Init, Front, Back
  <2>3. Handed
    BY <1>1 DEF Init, Handed
  <2>4. ~NeedsHeader /\ ~HasBody
    BY <1>1 DEF Init, NeedsHeader, HasBody
  <2> QED BY <2>1, <2>2, <2>3, <2>4 DEF InStep
<1>6. Gapless
  <2>1. Follows(begun, Stream)
    BY <1>4 DEF Follows
  <2> QED BY <1>1, <1>4, <2>1 DEF Init, Gapless
<1> QED BY <1>2, <1>3, <1>5, <1>6 DEF IInv

(* Every step keeps the invariant.                                         *)
LEMMA StepKeeps == IInv /\ [Next]_vars => IInv'
<1> SUFFICES ASSUME IInv, [Next]_vars PROVE IInv'
  OBVIOUS
<1>1. ASSUME NEW w \in Writer, NEW p \in Package, WriteHeader(w, p) PROVE IInv'
  BY <1>1, WriteHeaderKeeps
<1>2. ASSUME NEW w \in Writer, WriteBody(w) PROVE IInv'
  BY <1>2, WriteBodyKeeps
<1>3. ASSUME NEW w \in Writer, WriteReturns(w) PROVE IInv'
  BY <1>3, WriteReturnsKeeps
<1>4. CASE ReadStep
  BY <1>4, DataReadyKeeps, DecodeHeaderKeeps, DecodeBodyKeeps, DecodeReturnsKeeps
     DEF ReadStep
<1>5. CASE Closed
  BY <1>5, ClosedKeeps
<1>6. CASE Opened
  BY <1>6, OpenedKeeps
<1>7. CASE UNCHANGED vars
  <2>1. UNCHANGED <<write_lock, stage, writing, whole, unwritten, begun, headed, accepted,
                    pipe, up, conn, torn, buffer, pack_size, decoding, got>>
    BY <1>7 DEF vars, writerVars, linkVars, readerVars
  <2>2. Stream' = Stream /\ (HalfWay' <=> HalfWay)
    BY <2>1 DEF Stream, HalfWay
  <2>3. TypeOK' /\ Writes' /\ Gapless'
    BY <2>1, <2>2 DEF IInv, TypeOK, Writes, Gapless
  <2>4. InStep'
    BY <2>1, <2>2 DEF IInv, InStep, Front, Back, Handed, NeedsHeader, HasBody
  <2> QED BY <2>3, <2>4 DEF IInv
<1> QED BY <1>1, <1>2, <1>3, <1>4, <1>5, <1>6, <1>7 DEF Next

-----------------------------------------------------------------------------
(* The reader is in step with the writers in every reachable state in      *)
(* which no connection has carried a part of a package.                    *)
THEOREM Invariance == Spec => []IInv
  BY InitKeeps, StepKeeps, PTL DEF Spec

(* The variables keep their types, of a torn stream too.                   *)
THEOREM TypeCorrect == Spec => []TypeOK
<1>1. IInv => TypeOK
  BY DEF IInv
<1> QED BY <1>1, Invariance, PTL

(* Whatever the pieces the bytes arrive in, process_notification hands on  *)
(* whole packages, none twice and in the order of the writes.              *)
THEOREM HandedInOrder == Spec => []InOrder
<1>1. IInv => InOrder
  <2> SUFFICES ASSUME IInv, ~torn PROVE InOrder
    BY DEF InOrder
  <2>1. Handed /\ NoneTwice(begun) /\ TypeOK
    BY DEF IInv, InStep, Writes
  <2>2. \A k \in DOMAIN begun : begun[k] \in Package
    BY <2>1, ElementOfSeq, LenProperties DEF TypeOK
  <2>3. ASSUME NEW i \in DOMAIN got PROVE PlaceOf(got[i]) # {}
    <3>1. PICK p \in Package : Holds(begun, p) /\ got[i] = Body(p)
      BY <2>1 DEF Handed
    <3> QED BY <3>1 DEF Holds, PlaceOf
  <2>4. ASSUME NEW i \in DOMAIN got, NEW j \in DOMAIN got, i < j,
               NEW k \in PlaceOf(got[i]), NEW l \in PlaceOf(got[j])
        PROVE  k < l
    <3>1. /\ k \in DOMAIN begun /\ got[i] = Body(begun[k])
          /\ l \in DOMAIN begun /\ got[j] = Body(begun[l])
      BY DEF PlaceOf
    <3>2. Before(begun, begun[k], begun[l])
      BY <2>1, <2>2, <2>4, <3>1 DEF Handed
    <3>3. PICK c, d \in DOMAIN begun : c < d /\ begun[c] = begun[k] /\ begun[d] = begun[l]
      BY <3>2 DEF Before
    <3> QED BY <2>1, <3>1, <3>3 DEF NoneTwice
  <2> QED BY <2>3, <2>4 DEF InOrder
<1> QED BY <1>1, Invariance, PTL

(* On a first connection that holds, nothing write accepted stays behind   *)
(* in the decoder once every byte has arrived.                             *)
THEOREM NothingIsKept == Spec => []NothingKept
<1>1. IInv => NothingKept
  <2> SUFFICES ASSUME IInv, ~torn, conn = 1, up, pipe = <<>>, ~decoding,
                      write_lock = NoWriter
               PROVE  /\ got = [i \in DOMAIN accepted |-> Body(accepted[i])]
                      /\ buffer = <<>> /\ pack_size = 0
    BY DEF NothingKept
  <2>1. /\ TypeOK /\ Flows(begun, Stream) /\ Front /\ Back /\ Gapless /\ ~HalfWay
        /\ ~NeedsHeader /\ ~HasBody
    BY DEF IInv, InStep, Writes, HalfWay
  <2>2. Stream = buffer
    BY <2>1, ConcatEmptySeq DEF Stream, TypeOK
  <2>3. /\ Len(buffer) \in Nat /\ (buffer = <<>> <=> Len(buffer) = 0)
        /\ DOMAIN buffer = 1 .. Len(buffer)
        /\ \A i \in 1 .. Len(buffer) : /\ buffer[i][1] \in Package
                                       /\ buffer[i][2] \in Nat
    BY <2>1, <2>2, StreamType
  <2>4. buffer = <<>>
    <3> SUFFICES ASSUME buffer # <<>> PROVE FALSE
      OBVIOUS
    <3> DEFINE n == Len(buffer)
    <3> DEFINE p == buffer[1][1]
    <3> DEFINE q == buffer[n][1]
    <3>1. n \in Nat /\ n > 0 /\ 1 \in DOMAIN buffer /\ n \in DOMAIN buffer
      BY <2>3
    <3>2. p \in Package /\ q \in Package
      BY <2>3, <3>1
    <3>3. buffer[n][2] = Total(q)
      BY <2>1, <2>2 DEF Back
    <3>4. /\ Total(p) = HeaderLen + Size[p] /\ Size[p] \in Nat /\ Size[p] > 0
          /\ HeaderLen \in Nat /\ HeaderLen > 0
      BY <3>2, Totals
    <3>5. /\ buffer[1][2] + (n - 1) <= Total(p) =>
               buffer[n] = <<p, buffer[1][2] + (n - 1)>>
      BY <2>1, <2>2, <3>1 DEF Flows
    <3> HIDE DEF n, p, q
    <3>6. CASE pack_size = 0
      <4>1. buffer[1][2] = 1 /\ n < HeaderLen
        BY <2>1, <2>2, <2>3, <3>4, <3>6 DEF Front, NeedsHeader, n
      <4>2. 1 + (n - 1) <= Total(p) /\ 1 + (n - 1) = n /\ n < Total(p)
        BY <3>1, <3>4, <4>1
      <4>3. buffer[n] = <<p, n>>
        BY <3>5, <4>1, <4>2
      <4>4. q = p /\ buffer[n][2] = n
        BY <4>3 DEF q
      <4>5. n = Total(p)
        BY <3>3, <4>4
      <4> QED BY <3>1, <3>4, <4>2, <4>5
    <3>7. CASE pack_size # 0
      <4>1. buffer[1][2] = HeaderLen + 1 /\ pack_size = Size[p] /\ n < Size[p]
        BY <2>1, <2>2, <2>3, <3>4, <3>7 DEF Front, HasBody, n, p
      <4>2. /\ (HeaderLen + 1) + (n - 1) <= Total(p)
            /\ (HeaderLen + 1) + (n - 1) < Total(p)
        BY <3>1, <3>4, <4>1
      <4>3. buffer[n] = <<p, (HeaderLen + 1) + (n - 1)>>
        BY <3>5, <4>1, <4>2
      <4> QED BY <3>1, <3>3, <3>4, <4>2, <4>3 DEF q
    <3> QED BY <3>6, <3>7
  <2>5. pack_size = 0
    BY <2>1, <2>2, <2>4 DEF Front
  <2>6. /\ begun = accepted /\ Len(begun) = Len(got) + 0
        /\ \A i \in DOMAIN got : got[i] = Body(begun[i])
    BY <2>1, <2>2, <2>4, <2>5 DEF Gapless
  <2>7. got = [i \in DOMAIN accepted |-> Body(accepted[i])]
    <3>1. /\ got \in Seq(Seq(Byte)) /\ Len(got) \in Nat /\ DOMAIN got = 1 .. Len(got)
          /\ DOMAIN begun = 1 .. Len(begun)
      BY <2>1, LenProperties DEF TypeOK
    <3>2. DOMAIN got = DOMAIN accepted
      BY <2>6, <3>1
    <3>3. got = [i \in DOMAIN got |-> got[i]]
      BY <3>1
    <3> QED BY <2>6, <3>2, <3>3
  <2> QED BY <2>4, <2>5, <2>7
<1> QED BY <1>1, Invariance, PTL
=============================================================================
