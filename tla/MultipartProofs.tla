-------------------------- MODULE MultipartProofs --------------------------
(* Multi-part hashing, MACs and encryption: for any size of a block, any     *)
(* messages whose lengths the library can write and any cut of them into     *)
(* pieces, on any number of contexts, an operation that ends well has done   *)
(* what the standard says of the whole message.  First what the updates do to the bytes (Holding, Streaming),    *)
(* then what the ends make of the rest, then the invariant.                  *)
EXTENDS Multipart, SequenceTheorems, WellFoundedInduction, TLAPS

Sources == {"text", "zero", "bit", "bits", "subkey", "pad", "plain", "header", "auth",
            "auth_size", "counter"}
Octets == Nat \X Sources \X Nat
Buffered == {"sha", "hmac", "sha204", "sw_sha"} \cup Ccm \cup Gcm
Cbc == {"cbc", "cbc_pad", "dec", "dec_pad"}

\* A message, and the n bytes of it from one of them on, from 0
Messages == [Nat -> Octets]
Cut(M, from, n) == [i \in 1..n |-> M[from + i - 1]]
Message(of) == [k \in Nat |-> Byte(of, k)]

\* The k-th whole block of a message, from 0, and n of them from the k-th on
Piece(M, k) == Cut(M, k * Block, Block)
Pieces(M, k, n) == [i \in 1..n |-> Piece(M, k + i - 1)]
\* A buffer begins with so many bytes of the n-th block.
Begins(M, buf, size, n) == \A i \in 1..size : buf[i] = M[n * Block + i - 1]

-----------------------------------------------------------------------------
(* Arithmetic *)

\* Block as a number.
LEMMA BlockType == Block \in Nat /\ Block > 2 /\ LenField \in Nat /\ LenField >= 1 /\ LenField < Block
  BY BlockAssumption

\* Division with rest.
LEMMA Divides ==
    ASSUME NEW n \in Nat
    PROVE  /\ n \div Block \in Nat /\ n % Block \in 0..(Block - 1)
           /\ n = (n \div Block) * Block + (n % Block)
  BY BlockType

\* Products with Block grow.
LEMMA Grows ==
    ASSUME NEW m \in Int, NEW n \in Int, m <= n
    PROVE  m * Block \in Int /\ n * Block \in Int /\ m * Block <= n * Block
  BY BlockType

\* The quotient of a multiple of Block and a rest.
LEMMA Quotient ==
    ASSUME NEW q \in Nat, NEW r \in 0..(Block - 1)
    PROVE  (q * Block + r) \div Block = q /\ (q * Block + r) % Block = r
<1> DEFINE n == q * Block + r
<1>1. n \in Nat
  BY BlockType
<1>2. n = (n \div Block) * Block + (n % Block) /\ n \div Block \in Nat /\ n % Block \in 0..(Block - 1)
  BY <1>1, Divides
<1>3. CASE n \div Block < q
  <2>1. (n \div Block + 1) * Block <= q * Block
    BY <1>2, <1>3, Grows
  <2>2. (n \div Block + 1) * Block = (n \div Block) * Block + Block
    BY <1>2, BlockType
  <2> QED  BY <1>2, <2>1, <2>2, BlockType
<1>4. CASE n \div Block > q
  <2>1. (q + 1) * Block <= (n \div Block) * Block
    BY <1>2, <1>4, Grows
  <2>2. (q + 1) * Block = q * Block + Block
    BY BlockType
  <2> QED  BY <1>2, <2>1, <2>2, BlockType
<1>5. CASE n \div Block = q
  BY <1>2, <1>5, BlockType
<1> QED  BY <1>2, <1>3, <1>4, <1>5

-----------------------------------------------------------------------------
(* Sequences *)

\* A function on 1..n is a sequence of that length.
LEMMA Sequence ==
    ASSUME NEW S, NEW n \in Nat, NEW s \in [1..n -> S]
    PROVE  s \in Seq(S) /\ Len(s) = n
<1>1. s \in Seq(S)
  BY SeqDef
<1>2. Len(s) \in Nat /\ DOMAIN s = 1..Len(s)
  BY <1>1, LenProperties
<1>3. DOMAIN s = 1..n
  OBVIOUS
<1> QED  BY <1>1, <1>2, <1>3

\* A byte is known by its place.
LEMMA ByteType == ASSUME NEW of \in Sources, NEW n \in Nat PROVE Byte(of, n) \in Octets
  BY DEF Byte, Octets

\* The bytes of a source are a message.
LEMMA MessageType ==
    ASSUME NEW of \in Sources
    PROVE  Message(of) \in Messages /\ \A k \in Nat : Message(of)[k] = Byte(of, k)
  BY ByteType DEF Message, Messages

\* The model's bytes of a source are cut from that message.
LEMMA BytesAreCut ==
    ASSUME NEW of \in Sources, NEW from \in Nat, NEW n \in Nat
    PROVE  Bytes(of, from, n) = Cut(Message(of), from, n)
<1>1. ASSUME NEW i \in 1..n PROVE Message(of)[from + i - 1] = Byte(of, from + i - 1)
  <2>1. from + i - 1 \in Nat
    OBVIOUS
  <2> QED  BY <2>1, MessageType
<1> QED  BY <1>1 DEF Bytes, Cut

\* Bytes of a message are a sequence.
LEMMA CutType ==
    ASSUME NEW M \in Messages, NEW from \in Nat, NEW n \in Nat
    PROVE  /\ Cut(M, from, n) \in Seq(Octets) /\ Len(Cut(M, from, n)) = n
           /\ \A i \in 1..n : Cut(M, from, n)[i] = M[from + i - 1]
<1>1. ASSUME NEW i \in 1..n PROVE M[from + i - 1] \in Octets
  <2>1. from + i - 1 \in Nat
    OBVIOUS
  <2> QED  BY <2>1 DEF Messages
<1>2. Cut(M, from, n) \in [1..n -> Octets]
  BY <1>1 DEF Cut
<1>3. Cut(M, from, n) \in Seq(Octets) /\ Len(Cut(M, from, n)) = n
  BY <1>2, Sequence
<1> QED  BY <1>3 DEF Cut

\* A part of a message's bytes
LEMMA PartOfCut ==
    ASSUME NEW M \in Messages, NEW from \in Nat, NEW n \in Nat,
           NEW a \in 0..n, NEW b \in a..n
    PROVE  SubSeq(Cut(M, from, n), a + 1, b) = Cut(M, from + a, b - a)
<1> DEFINE s == Cut(M, from, n)
           t == Cut(M, from + a, b - a)
           u == SubSeq(s, a + 1, b)
<1>1. ASSUME NEW i \in 1..n PROVE s[i] = M[from + i - 1] /\ s[i] \in Octets
  <2>1. from + i - 1 \in Nat
    OBVIOUS
  <2> QED  BY <2>1, CutType, ByteType
<1>2. /\ t \in Seq(Octets) /\ Len(t) = b - a
      /\ \A i \in 1..(b - a) : t[i] = M[from + a + i - 1]
  <2>1. b - a \in Nat /\ from + a \in Nat
    OBVIOUS
  <2> QED  BY <2>1, CutType
<1> HIDE DEF s, t
<1>3. ASSUME NEW i \in (a + 1)..b PROVE s[i] \in Octets
  <2>1. i \in 1..n
    OBVIOUS
  <2> QED  BY <2>1, <1>1
<1>4. /\ u \in Seq(Octets) /\ Len(u) = (IF a + 1 <= b THEN b - (a + 1) + 1 ELSE 0)
      /\ \A i \in 1..(b - (a + 1) + 1) : u[i] = s[a + 1 + i - 1]
  BY <1>3, SubSeqProperties, a + 1 \in Int, b \in Int
<1>5. Len(u) = Len(t)
  BY <1>2, <1>4
<1>6. ASSUME NEW i \in 1..Len(u) PROVE u[i] = t[i]
  <2>1. i \in 1..(b - a) /\ a + i \in 1..n
    BY <1>4
  <2>2. u[i] = s[a + i]
    BY <2>1, <1>4
  <2>3. s[a + i] = M[from + (a + i) - 1]
    BY <2>1, <1>1
  <2>4. t[i] = M[from + a + i - 1]
    BY <2>1, <1>2
  <2>5. from + (a + i) - 1 = from + a + i - 1
    BY <2>1
  <2> QED  BY <2>2, <2>3, <2>4, <2>5
<1> HIDE DEF u
<1>7. u = t
  BY <1>2, <1>4, <1>5, <1>6, SeqEqual
<1> QED  BY <1>7 DEF u, s, t

\* The first bytes of a part
LEMMA TakeOfCut ==
    ASSUME NEW M \in Messages, NEW from \in Nat, NEW n \in Nat, NEW c \in 0..n
    PROVE  Take(Cut(M, from, n), c) = Cut(M, from, c)
<1>1. SubSeq(Cut(M, from, n), 0 + 1, c) = Cut(M, from + 0, c - 0)
  <2>1. 0 \in 0..n /\ c \in 0..n
    OBVIOUS
  <2> QED  BY <2>1, PartOfCut
<1>2. 0 + 1 = 1 /\ from + 0 = from /\ c - 0 = c
  OBVIOUS
<1> QED  BY <1>1, <1>2 DEF Take

\* The bytes behind them
LEMMA DropOfCut ==
    ASSUME NEW M \in Messages, NEW from \in Nat, NEW n \in Nat, NEW c \in 0..n
    PROVE  Drop(Cut(M, from, n), c) = Cut(M, from + c, n - c)
<1>1. SubSeq(Cut(M, from, n), c + 1, n) = Cut(M, from + c, n - c)
  <2>1. n \in c..n
    OBVIOUS
  <2> QED  BY <2>1, PartOfCut
<1>2. Len(Cut(M, from, n)) = n
  BY CutType
<1> QED  BY <1>1, <1>2 DEF Drop

\* Writing into a buffer keeps its length, and what is not written to.
LEMMA PutType ==
    ASSUME NEW buf \in Seq(Octets), NEW at \in Nat, NEW s \in Seq(Octets),
           at + Len(s) <= Len(buf)
    PROVE  /\ Put(buf, at, s) \in Seq(Octets) /\ Len(Put(buf, at, s)) = Len(buf)
           /\ \A i \in 1..at : Put(buf, at, s)[i] = buf[i]
           /\ \A i \in 1..Len(s) : Put(buf, at, s)[at + i] = s[i]
           /\ \A i \in (at + Len(s) + 1)..Len(buf) : Put(buf, at, s)[i] = buf[i]
<1> DEFINE p == Put(buf, at, s)
<1>1. Len(buf) \in Nat /\ Len(s) \in Nat
  BY LenProperties
<1>2. ASSUME NEW i \in 1..Len(buf)
      PROVE  (IF at < i /\ i <= at + Len(s) THEN s[i - at] ELSE buf[i]) \in Octets
  <2>1. buf[i] \in Octets
    BY ElementOfSeq
  <2>2. at < i /\ i <= at + Len(s) => i - at \in 1..Len(s)
    BY <1>1
  <2>3. at < i /\ i <= at + Len(s) => s[i - at] \in Octets
    BY <2>2, ElementOfSeq
  <2> QED  BY <2>1, <2>3
<1>3. p = [i \in 1..Len(buf) |-> IF at < i /\ i <= at + Len(s) THEN s[i - at] ELSE buf[i]]
  BY DEF Put
<1>4. p \in [1..Len(buf) -> Octets]
  BY <1>2, <1>3
<1>5. p \in Seq(Octets) /\ Len(p) = Len(buf)
  BY <1>1, <1>4, Sequence
<1>6. \A i \in 1..at : p[i] = buf[i]
  BY <1>1, <1>3
<1>7. ASSUME NEW i \in 1..Len(s) PROVE p[at + i] = s[i]
  <2>1. at + i \in 1..Len(buf) /\ at < at + i /\ at + i <= at + Len(s) /\ (at + i) - at = i
    BY <1>1
  <2> QED  BY <2>1, <1>3
<1>8. \A i \in (at + Len(s) + 1)..Len(buf) : p[i] = buf[i]
  BY <1>1, <1>3
<1> QED  BY <1>5, <1>6, <1>7, <1>8

\* Pieces of the text are blocks.
LEMMA PiecesType ==
    ASSUME NEW M \in Messages, NEW k \in Nat, NEW n \in Nat
    PROVE  /\ Pieces(M, k, n) \in Seq(Seq(Octets)) /\ Len(Pieces(M, k, n)) = n
           /\ \A i \in 1..n : Pieces(M, k, n)[i] = Piece(M, k + i - 1)
<1>1. ASSUME NEW i \in 1..n PROVE Piece(M, k + i - 1) \in Seq(Octets)
  <2>1. (k + i - 1) * Block \in Nat
    BY BlockType
  <2> QED  BY <2>1, BlockType, CutType DEF Piece
<1>2. Pieces(M, k, n) \in [1..n -> Seq(Octets)]
  BY <1>1 DEF Pieces
<1>3. Pieces(M, k, n) \in Seq(Seq(Octets)) /\ Len(Pieces(M, k, n)) = n
  BY <1>2, Sequence
<1> QED  BY <1>3 DEF Pieces

\* Pieces one after the other
LEMMA PiecesJoin ==
    ASSUME NEW M \in Messages, NEW k \in Nat, NEW p \in Nat, NEW q \in Nat
    PROVE  Pieces(M, k, p) \o Pieces(M, k + p, q) = Pieces(M, k, p + q)
<1> DEFINE s == Pieces(M, k, p)
           t == Pieces(M, k + p, q)
           u == Pieces(M, k, p + q)
<1>1. /\ s \in Seq(Seq(Octets)) /\ Len(s) = p
      /\ \A i \in 1..p : s[i] = Piece(M, k + i - 1)
  BY PiecesType
<1>2. /\ t \in Seq(Seq(Octets)) /\ Len(t) = q
      /\ \A i \in 1..q : t[i] = Piece(M, k + p + i - 1)
  <2>1. k + p \in Nat
    OBVIOUS
  <2> QED  BY <2>1, PiecesType
<1>3. /\ u \in Seq(Seq(Octets)) /\ Len(u) = p + q
      /\ \A i \in 1..(p + q) : u[i] = Piece(M, k + i - 1)
  <2>1. p + q \in Nat
    OBVIOUS
  <2> QED  BY <2>1, PiecesType
<1> HIDE DEF s, t, u
<1>4. /\ s \o t \in Seq(Seq(Octets)) /\ Len(s \o t) = p + q
      /\ \A i \in 1..(p + q) : (s \o t)[i] = IF i <= p THEN s[i] ELSE t[i - p]
  BY <1>1, <1>2, ConcatProperties
<1>5. ASSUME NEW i \in 1..(p + q) PROVE (s \o t)[i] = u[i]
  <2>1. CASE i <= p
    BY <2>1, <1>1, <1>3, <1>4
  <2>2. CASE ~(i <= p)
    <3>1. i - p \in 1..q /\ k + p + (i - p) - 1 = k + i - 1
      BY <2>2
    <3>2. t[i - p] = Piece(M, k + p + (i - p) - 1)
      BY <3>1, <1>2
    <3> QED  BY <2>2, <3>1, <3>2, <1>3, <1>4
  <2> QED  BY <2>1, <2>2
<1> DEFINE v == s \o t
<1>6. v \in Seq(Seq(Octets)) /\ Len(v) = Len(u) /\ \A i \in 1..Len(v) : v[i] = u[i]
  BY <1>3, <1>4, <1>5
<1> HIDE DEF v
<1>7. v = u
  BY <1>3, <1>6, SeqEqual
<1> QED  BY <1>7 DEF v, s, t, u

\* The whole blocks of a part of the text that begins with the k-th
LEMMA BlocksOfText ==
    ASSUME NEW M \in Messages, NEW k \in Nat, NEW n \in Nat
    PROVE  Blocks(Cut(M, k * Block, n)) = Pieces(M, k, n \div Block)
<1> DEFINE s == Cut(M, k * Block, n)
           q == n \div Block
<1>1. k * Block \in Nat /\ q \in Nat
  BY BlockType, Divides
<1>2. Len(s) = n
  BY <1>1, CutType
<1>3. ASSUME NEW i \in 1..q PROVE SubSeq(s, (i - 1) * Block + 1, i * Block) = Piece(M, k + i - 1)
  <2>1. (i - 1) * Block \in Nat /\ i * Block = (i - 1) * Block + Block
    BY BlockType
  <2>2. i * Block <= q * Block /\ q * Block <= n
    BY <1>1, Grows, Divides
  <2>3. (i - 1) * Block \in 0..n /\ i * Block \in ((i - 1) * Block)..n
    BY <2>1, <2>2, BlockType
  <2>4. SubSeq(s, (i - 1) * Block + 1, i * Block)
            = Cut(M, k * Block + (i - 1) * Block, i * Block - (i - 1) * Block)
    BY <1>1, <2>3, PartOfCut
  <2>5. k * Block + (i - 1) * Block = (k + i - 1) * Block
    BY BlockType
  <2>6. i * Block - (i - 1) * Block = Block
    BY <2>1, BlockType
  <2> QED  BY <2>4, <2>5, <2>6 DEF Piece
<1>4. Blocks(s) = [i \in 1..q |-> SubSeq(s, (i - 1) * Block + 1, i * Block)]
  BY <1>2 DEF Blocks
<1> HIDE DEF s
<1>5. Blocks(s) = Pieces(M, k, q)
  BY <1>3, <1>4 DEF Pieces
<1> QED  BY <1>5 DEF s

\* A buffer that the text has been put into to the end is the next piece.
LEMMA Fills ==
    ASSUME NEW M \in Messages, NEW n \in Nat, NEW size \in 0..Block, NEW buf \in Seq(Octets), Len(buf) = Block,
           Begins(M, buf, size, n)
    PROVE  Put(buf, size, Cut(M, n * Block + size, Block - size)) = Piece(M, n)
<1> DEFINE s == Cut(M, n * Block + size, Block - size)
           p == Put(buf, size, s)
           u == Piece(M, n)
<1>1. /\ n * Block \in Nat /\ n * Block + size \in Nat /\ Block - size \in Nat
      /\ size \in Nat
  BY BlockType
<1>2. /\ s \in Seq(Octets) /\ Len(s) = Block - size
      /\ \A i \in 1..(Block - size) : s[i] = M[n * Block + size + i - 1]
  BY <1>1, CutType
<1>3. /\ u \in Seq(Octets) /\ Len(u) = Block
      /\ \A i \in 1..Block : u[i] = M[n * Block + i - 1]
  BY <1>1, BlockType, CutType DEF Piece
<1> HIDE DEF s, u
<1>4. /\ p \in Seq(Octets) /\ Len(p) = Block
      /\ \A i \in 1..size : p[i] = buf[i]
      /\ \A i \in 1..Len(s) : p[size + i] = s[i]
  <2>1. size + Len(s) <= Len(buf)
    BY <1>1, <1>2, BlockType
  <2> QED  BY <1>1, <1>2, <2>1, PutType
<1> HIDE DEF p
<1>5. ASSUME NEW i \in 1..Block PROVE p[i] = u[i]
  <2>1. CASE i <= size
    <3>1. i \in 1..size
      BY <2>1, <1>1
    <3>2. p[i] = buf[i] /\ u[i] = M[n * Block + i - 1]
      BY <3>1, <1>3, <1>4
    <3> QED  BY <3>1, <3>2 DEF Begins
  <2>2. CASE i > size
    <3>1. i - size \in 1..(Block - size) /\ size + (i - size) = i
      BY <2>2, <1>1
    <3>2. p[i] = s[i - size]
      BY <3>1, <1>2, <1>4
    <3>3. s[i - size] = M[n * Block + size + (i - size) - 1]
      BY <3>1, <1>2
    <3>4. n * Block + size + (i - size) - 1 = n * Block + i - 1
      BY <1>1
    <3> QED  BY <3>2, <3>3, <3>4, <1>3
  <2> QED  BY <2>1, <2>2, <1>1
<1>6. p = u
  BY <1>3, <1>4, <1>5, SeqEqual
<1> QED  BY <1>6 DEF p, s, u

-----------------------------------------------------------------------------
(* Updates *)

\* A context is a record.
Shape(x) ==
    x = [phase |-> x.phase, buf |-> x.buf, size |-> x.size, total |-> x.total, chain |-> x.chain,
         ks |-> x.ks, cb |-> x.cb, cblock |-> x.cblock, ds |-> x.ds, out |-> x.out,
         given |-> x.given, auth |-> x.auth, missed |-> x.missed]

\* What a context holds that has been given so many bytes of a message: n
\* blocks have gone on, and the buffer begins with the rest.
Holding(kind, M, x, given, n) ==
    /\ n \in Nat /\ x.size \in 0..Block /\ given = n * Block + x.size
    /\ x.buf \in Seq(Octets) /\ Len(x.buf) = Block
    /\ Begins(M, x.buf, x.size, n)
    /\ kind \in {"cmac", "dec_pad"} => (x.size = 0 => n = 0)
    /\ kind \notin {"cmac", "dec", "dec_pad"} => x.size < Block
    /\ kind \in Buffered => x.total = n * Block

\* Two contexts that differ only in what they gather.
OnlyBuffer(x, y) ==
    /\ Shape(y) /\ y.phase = x.phase /\ y.chain = x.chain /\ y.ks = x.ks /\ y.cb = x.cb
    /\ y.cblock = x.cblock /\ y.ds = x.ds /\ y.out = x.out /\ y.given = x.given /\ y.auth = x.auth
    /\ y.missed = x.missed

\* A piece that the buffer has room for goes behind what it holds.
LEMMA Gathers ==
    ASSUME NEW M \in Messages, NEW n \in Nat, NEW size \in 0..Block, NEW given, given = n * Block + size, NEW m \in Nat,
           size + m <= Block,
           NEW buf \in Seq(Octets), Len(buf) = Block,
           Begins(M, buf, size, n)
    PROVE  LET s == Cut(M, given, m)
               b == Put(buf, size, Take(s, Smaller(Len(s), Block - size)))
           IN  /\ b \in Seq(Octets) /\ Len(b) = Block
               /\ Begins(M, b, size + m, n)
<1> DEFINE s == Cut(M, n * Block + size, m)
           b == Put(buf, size, s)
<1>1. n * Block \in Nat /\ n * Block + size \in Nat /\ size \in Nat
  BY BlockType
<1>2. /\ s \in Seq(Octets) /\ Len(s) = m
      /\ \A i \in 1..m : s[i] = M[n * Block + size + i - 1]
  BY <1>1, CutType
<1> HIDE DEF s
<1>3. Smaller(Len(s), Block - size) = m
  BY <1>1, <1>2, BlockType DEF Smaller
<1>4. Take(s, m) = s
  BY <1>2, SubSeqFull DEF Take
<1>5. /\ b \in Seq(Octets) /\ Len(b) = Block
      /\ \A i \in 1..size : b[i] = buf[i]
      /\ \A i \in 1..Len(s) : b[size + i] = s[i]
  <2>1. size + Len(s) <= Len(buf)
    BY <1>2
  <2> QED  BY <1>1, <1>2, <2>1, PutType
<1> HIDE DEF b
<1>6. ASSUME NEW i \in 1..(size + m) PROVE b[i] = M[n * Block + i - 1]
  <2>1. CASE i <= size
    BY <2>1, <1>1, <1>5 DEF Begins
  <2>2. CASE ~(i <= size)
    <3>1. i - size \in 1..m /\ size + (i - size) = i
      BY <2>2, <1>1
    <3>2. b[i] = s[i - size]
      BY <3>1, <1>2, <1>5
    <3>3. s[i - size] = M[n * Block + size + (i - size) - 1]
      BY <3>1, <1>2
    <3>4. n * Block + size + (i - size) - 1 = n * Block + i - 1
      BY <1>1
    <3> QED  BY <3>2, <3>3, <3>4
  <2> QED  BY <2>1, <2>2
<1>7. Put(buf, size, Take(s, Smaller(Len(s), Block - size))) = b
  BY <1>3, <1>4 DEF b
<1> QED  BY <1>5, <1>6, <1>7 DEF s, Begins

\* The first bytes of a piece complete the block, q blocks follow, and the
\* bytes that are left over begin the next.
LEMMA Flushes ==
    ASSUME NEW M \in Messages, NEW n \in Nat, NEW size \in 0..Block, NEW given, given = n * Block + size, NEW m \in Nat,
           Block <= size + m,
           NEW buf \in Seq(Octets), Len(buf) = Block,
           Begins(M, buf, size, n)
    PROVE  LET s == Cut(M, given, m)
               copied == Smaller(Len(s), Block - size)
           IN  /\ copied = Block - size /\ Len(s) = m
               /\ Put(buf, size, Take(s, copied)) = Piece(M, n)
               /\ Drop(s, copied) = Cut(M, (n + 1) * Block, m - (Block - size))
               /\ Len(Drop(s, copied)) = m - (Block - size)
<1> DEFINE s == Cut(M, n * Block + size, m)
           c == Block - size
<1>1. /\ n * Block \in Nat /\ n * Block + size \in Nat /\ size \in Nat /\ c \in 0..m
      /\ n * Block + size + c = (n + 1) * Block /\ (n + 1) * Block \in Nat /\ m - c \in Nat
  BY BlockType
<1>2. Len(s) = m
  BY <1>1, CutType
<1>3. Smaller(Len(s), Block - size) = c
  BY <1>1, <1>2, BlockType DEF Smaller
<1>4. Take(s, c) = Cut(M, n * Block + size, c)
  BY <1>1, TakeOfCut
<1>5. Put(buf, size, Take(s, c)) = Piece(M, n)
  BY <1>4, Fills
<1>6. Drop(s, c) = Cut(M, (n + 1) * Block, m - c)
  <2>1. Drop(s, c) = Cut(M, n * Block + size + c, m - c)
    BY SMTT(30), <1>1, DropOfCut
  <2> QED  BY <1>1, <2>1
<1>7. Len(Drop(s, c)) = m - c
  <2> DEFINE k == (n + 1) * Block
           l == m - c
  <2>1. k \in Nat /\ l \in Nat /\ Drop(s, c) = Cut(M, k, l)
    BY <1>1, <1>6
  <2> HIDE DEF k, l
  <2>2. Len(Cut(M, k, l)) = l
    BY <2>1, CutType
  <2> QED  BY <2>1, <2>2 DEF l
<1> QED  BY <1>2, <1>3, <1>5, <1>6, <1>7

\* The bytes left over of a piece begins the block behind the q that followed.
Kept(M, n, size, given, m, q) ==
    LET left == LeftOver(Cut(M, given, m), Block - size, q * Block)
        b == Put(Piece(M, n), 0, left)
    IN  /\ Len(left) = m - (Block - size) - q * Block /\ Len(left) \in 0..Block
        /\ b \in Seq(Octets) /\ Len(b) = Block
        /\ Begins(M, b, Len(left), n + (1 + q))

\* What is left over of a piece begins the block behind the q that followed.
LEMMA Keeps ==
    ASSUME NEW M \in Messages, NEW n \in Nat, NEW size \in 0..Block, NEW given, given = n * Block + size, NEW m \in Nat,
           Block <= size + m, NEW q \in Nat,
           q * Block <= m - (Block - size), m - (Block - size) - q * Block <= Block
    PROVE  Kept(M, n, size, given, m, q)
<1> DEFINE s == Cut(M, n * Block + size, m)
           c == Block - size
           d == c + q * Block
           left == LeftOver(s, c, q * Block)
           b == Put(Piece(M, n), 0, left)
           k == (n + (1 + q)) * Block
<1>1. /\ n * Block \in Nat /\ n * Block + size \in Nat /\ size \in Nat /\ c \in 0..m
      /\ q * Block \in Nat /\ d \in 0..m /\ m - d \in Nat /\ m - d <= Block
      /\ m - d = m - (Block - size) - q * Block
  BY BlockType
<1>2. n * Block + size + d = k /\ k \in Nat
  <2>1. k = n * Block + Block + q * Block
    BY BlockType
  <2> QED  BY <1>1, <2>1, BlockType
<1>3. Len(s) = m
  BY <1>1, CutType
<1>4. left = Cut(M, k, m - d)
  <2>1. Drop(s, d) = Cut(M, n * Block + size + d, m - d)
    BY <1>1, DropOfCut
  <2> QED  BY <1>2, <2>1 DEF LeftOver
<1>5. /\ left \in Seq(Octets) /\ Len(left) = m - d
      /\ \A i \in 1..(m - d) : left[i] = M[k + i - 1]
  <2> HIDE DEF left, k, d
  <2>1. k \in Nat /\ m - d \in Nat
    BY <1>1, <1>2
  <2>2. /\ Cut(M, k, m - d) \in Seq(Octets) /\ Len(Cut(M, k, m - d)) = m - d
        /\ \A i \in 1..(m - d) : Cut(M, k, m - d)[i] = M[k + i - 1]
    BY <2>1, CutType
  <2> QED  BY <1>4, <2>2
<1>6. Piece(M, n) \in Seq(Octets) /\ Len(Piece(M, n)) = Block
  BY <1>1, BlockType, CutType DEF Piece
<1> HIDE DEF left
<1>7. /\ b \in Seq(Octets) /\ Len(b) = Block
      /\ \A i \in 1..Len(left) : b[0 + i] = left[i]
  <2> DEFINE o == 0
             p == Piece(M, n)
  <2>1. /\ o + Len(left) <= Len(p) /\ o \in Nat /\ left \in Seq(Octets)
        /\ p \in Seq(Octets) /\ Len(p) = Block
    BY <1>1, <1>5, <1>6
  <2> HIDE DEF o, p
  <2>2. /\ Put(p, o, left) \in Seq(Octets) /\ Len(Put(p, o, left)) = Len(p)
        /\ \A i \in 1..Len(left) : Put(p, o, left)[o + i] = left[i]
    BY ONLY <2>1, PutType
  <2> QED  BY <2>1, <2>2 DEF o, p
<1> HIDE DEF b
<1>8. ASSUME NEW i \in 1..Len(left) PROVE b[i] = M[k + i - 1]
  <2>1. 0 + i = i /\ i \in 1..(m - d)
    BY <1>5
  <2> QED  BY <2>1, <1>5, <1>7
<1>9. Len(left) = m - (Block - size) - q * Block /\ Len(left) \in 0..Block
  BY <1>1, <1>5, BlockType
<1> QED  BY <1>7, <1>8, <1>9 DEF b, left, Begins, Kept

\* Putting nothing into a buffer leaves it.
LEMMA HoldingIsKept ==
    ASSUME NEW M \in Messages, NEW kind, NEW x, NEW y, NEW given, NEW n, Holding(kind, M, x, given, n),
           y.size = x.size, y.buf = x.buf, y.total = x.total
    PROVE  Holding(kind, M, y, given, n)
  BY DEF Holding

\* calib_hw_sha2_256_update, calib_sha_hmac_update, sw_sha256_update: the
\* blocks that go on are the next ones of the text, and the rest is held.
LEMMA BufferedHolds ==
    ASSUME NEW M \in Messages, NEW kind \in Buffered, NEW x, Shape(x), NEW given, NEW n \in Nat, NEW m \in Nat,
           Holding(kind, M, x, given, n)
    PROVE  LET r == BufferedUpdate(x, Cut(M, given, m))
           IN  /\ OnlyBuffer(x, r.after)
               /\ \E q \in Nat : r.blocks = Pieces(M, n, q) /\ Holding(kind, M, r.after, given + m, n + q)
<1> DEFINE s == Cut(M, given, m)
           r == BufferedUpdate(x, s)
           c == Block - x.size
<1>1. /\ x.size \in 0..Block /\ x.size < Block /\ given = n * Block + x.size
      /\ x.buf \in Seq(Octets) /\ Len(x.buf) = Block /\ x.total = n * Block
      /\ Begins(M, x.buf, x.size, n)
  BY DEF Holding, Buffered, Ccm, Gcm
<1>2. given \in Nat /\ n * Block \in Nat /\ Len(s) = m
  <2>1. given \in Nat /\ n * Block \in Nat
    BY <1>1, BlockType
  <2> QED  BY <2>1, CutType
<1>3. CASE x.size + m < Block
  <2> DEFINE filled == Put(x.buf, x.size, Take(s, Smaller(Len(s), Block - x.size)))
  <2>1. /\ filled \in Seq(Octets) /\ Len(filled) = Block
        /\ Begins(M, filled, x.size + m, n)
    <3>1. x.size + m <= Block
      BY <1>1, <1>3
    <3> QED  BY <1>1, <3>1, Gathers
  <2>2. r = [blocks |-> <<>>, after |-> [x EXCEPT !.buf = filled, !.size = @ + Len(s)]]
    BY <1>2, <1>3 DEF BufferedUpdate
  <2> HIDE DEF filled, s, r
  <2>3. /\ r.after = [x EXCEPT !.buf = filled, !.size = @ + Len(s)] /\ r.blocks = <<>>
    BY <2>2
  <2>4. /\ OnlyBuffer(x, r.after)
        /\ r.after.buf = filled /\ r.after.size = x.size + m /\ r.after.total = x.total
    BY <1>2, <2>3 DEF Shape, OnlyBuffer
  <2>5. r.blocks = Pieces(M, n, 0)
    BY <2>3 DEF Pieces
  <2>6. Holding(kind, M, r.after, given + m, n + 0)
    <3>1. n + 0 = n /\ x.size + m \in 0..Block /\ given + m = n * Block + (x.size + m)
      BY <1>1, <1>2, <1>3, BlockType
    <3> QED  BY <1>1, <1>3, <2>1, <2>4, <3>1 DEF Holding, Buffered, Ccm, Gcm
  <2> QED  BY <2>4, <2>5, <2>6 DEF r, s
<1>4. CASE ~(x.size + m < Block)
  <2> DEFINE rest == Drop(s, c)
             whole == Blocks(rest)
             q == (m - c) \div Block
             left == LeftOver(s, c, Len(whole) * Block)
  <2>1. /\ Smaller(Len(s), Block - x.size) = c
        /\ Put(x.buf, x.size, Take(s, c)) = Piece(M, n)
        /\ rest = Cut(M, (n + 1) * Block, m - c)
    <3>1. Block <= x.size + m
      BY <1>1, <1>4, BlockType
    <3> QED  BY <1>1, <3>1, Flushes, SMTT(30)
  <2>2. /\ m - c \in Nat /\ q \in Nat /\ m - c = q * Block + ((m - c) % Block)
        /\ (m - c) % Block \in 0..(Block - 1)
    <3>1. m - c \in Nat
      BY <1>1, <1>4, BlockType
    <3> QED  BY <3>1, Divides
  <2>3. whole = Pieces(M, n + 1, q) /\ Len(whole) = q
    <3>1. n + 1 \in Nat
      OBVIOUS
    <3>2. whole = Pieces(M, n + 1, q)
      BY <2>1, <2>2, <3>1, BlocksOfText
    <3> QED  BY <2>2, <3>1, <3>2, PiecesType
  <2>4. r = [blocks |-> <<Piece(M, n)>> \o whole,
             after |-> [x EXCEPT !.buf = Put(Piece(M, n), 0, left), !.size = Len(left),
                                 !.total = @ + (Len(whole) + 1) * Block]]
    BY <1>2, <1>4, <2>1 DEF BufferedUpdate
  <2> DEFINE b == Put(Piece(M, n), 0, left)
  <2>5. /\ Len(left) = m - c - q * Block /\ Len(left) \in 0..Block
        /\ b \in Seq(Octets) /\ Len(b) = Block
        /\ Begins(M, b, Len(left), n + (1 + q))
    <3>1. q * Block <= m - c /\ m - c - q * Block <= Block /\ q * Block \in Nat
      <4> DEFINE l == m - c
                 e == l % Block
                 y == q * Block
      <4>1. y \in Nat /\ e \in Nat /\ l \in Nat /\ e <= Block /\ l = y + e
        BY <2>2, BlockType
      <4> HIDE DEF y, e, l
      <4>2. y <= l /\ l - y <= Block /\ y \in Nat
        BY <4>1, BlockType
      <4> QED  BY <4>2 DEF y, l
    <3>2. Block <= x.size + m
      BY <1>1, <1>4, BlockType
    <3>3. left = LeftOver(s, Block - x.size, q * Block)
      BY <2>3
    <3> DEFINE l == LeftOver(s, Block - x.size, q * Block)
    <3> DEFINE z == x.size
    <3>5. /\ z \in 0..Block /\ given = n * Block + z /\ Block <= z + m /\ q \in Nat
          /\ l = LeftOver(Cut(M, given, m), Block - z, q * Block)
          /\ q * Block <= m - (Block - z) /\ m - (Block - z) - q * Block <= Block
      BY <1>1, <2>2, <3>1, <3>2
    <3>7. c = Block - z
      OBVIOUS
    <3> HIDE DEF q, z, l, c
    <3>6. Kept(M, n, z, given, m, q)
      BY <3>5, Keeps
    <3>4. /\ Len(l) = m - c - q * Block /\ Len(l) \in 0..Block
          /\ Put(Piece(M, n), 0, l) \in Seq(Octets) /\ Len(Put(Piece(M, n), 0, l)) = Block
          /\ Begins(M, Put(Piece(M, n), 0, l), Len(l), n + (1 + q))
      BY <3>5, <3>6, <3>7, Zenon DEF Kept
    <3> QED  BY <3>3, <3>4 DEF l
  <2>6. <<Piece(M, n)>> \o whole = Pieces(M, n, 1 + q)
    <3>1. Pieces(M, n, 1) = <<Piece(M, n)>>
      <4>1. \A i \in 1..1 : Piece(M, n + i - 1) = Piece(M, n)
        OBVIOUS
      <4> QED  BY <4>1 DEF Pieces
    <3>2. Pieces(M, n, 1) \o Pieces(M, n + 1, q) = Pieces(M, n, 1 + q)
      BY <2>2, PiecesJoin, 1 \in Nat
    <3> QED  BY <2>3, <3>1, <3>2
  <2> HIDE DEF s, r, rest, whole, left, b, q
  <2>7. /\ OnlyBuffer(x, r.after)
        /\ r.after.buf = b /\ r.after.size = Len(left)
        /\ r.after.total = x.total + (Len(whole) + 1) * Block
        /\ r.blocks = <<Piece(M, n)>> \o whole
    BY <2>4 DEF Shape, OnlyBuffer, b
  <2>8. Holding(kind, M, r.after, given + m, n + (1 + q))
    <3> DEFINE nb == n * Block
               qb == q * Block
               eb == (n + (1 + q)) * Block
    <3>1. n + (1 + q) \in Nat /\ nb \in Nat /\ qb \in Nat /\ eb = nb + Block + qb
      BY <2>2, BlockType
    <3>2. (Len(whole) + 1) * Block = qb + Block
      <4>1. Len(whole) = q /\ q \in Nat
        BY <2>2, <2>3
      <4> QED  BY <4>1, BlockType
    <3>3. given = nb + x.size /\ x.total = nb /\ x.size \in Nat /\ c = Block - x.size
      BY <1>1
    <3>4. Len(left) = m - c - qb
      BY <2>5
    <3>5. m - c = qb + ((m - c) % Block)
      BY <2>2
    <3> HIDE DEF nb, qb, eb, c
    <3>6. nb \in Int /\ qb \in Int /\ c \in Int /\ eb \in Int /\ eb = nb + Block + qb
      BY <3>1, <3>3, BlockType
    <3>7. given + m = eb + Len(left)
      <4>1. Len(left) \in Int
        BY <3>4, <3>6
      <4>2. m = Len(left) + c + qb
        BY <3>4, <3>6, <4>1
      <4>3. given + m = nb + x.size + Len(left) + c + qb
        BY SMTT(30), <3>3, <3>6, <4>1, <4>2
      <4>4. x.size + c = Block
        BY <3>3, BlockType
      <4> DEFINE y == x.size
                 l == Len(left)
      <4>5. y \in Int /\ l \in Int /\ y + c = Block /\ given + m = nb + y + l + c + qb
        BY <3>3, <4>1, <4>3, <4>4
      <4> HIDE DEF y, l
      <4> QED  BY <3>6, <4>5, BlockType DEF l
    <3>8. x.total + (Len(whole) + 1) * Block = eb
      BY <3>2, <3>3, <3>6, BlockType
    <3>9. Len(left) < Block
      BY <2>2, <3>4, <3>5, <3>6, BlockType
    <3> QED  BY <2>5, <2>7, <3>1, <3>7, <3>8, <3>9 DEF Holding, Buffered, Ccm, Gcm, eb
  <2>9. 1 + q \in Nat
    BY <2>2
  <2> QED  BY <2>6, <2>7, <2>8, <2>9 DEF r, s
<1> QED  BY <1>3, <1>4

\* atcab_aes_cmac_update holds back the last block.
LEMMA HeldBackType ==
    ASSUME NEW m \in Nat, m > 0
    PROVE  LET q == HeldBack(m) \div Block
           IN  HeldBack(m) \in 0..m /\ q \in Nat /\ q * Block \in Nat /\ m - q * Block \in 1..Block
<1>1. m \div Block \in Nat /\ m % Block \in 0..(Block - 1) /\ m = (m \div Block) * Block + (m % Block)
  BY Divides
<1>2. CASE m >= Block /\ m % Block = 0
  <2>1. HeldBack(m) = m - Block /\ m - Block \in Nat
    BY <1>2, BlockType DEF HeldBack
  <2> DEFINE q == m \div Block
  <2>2. q # 0
    <3>1. q = 0 => q * Block = 0
      BY BlockType
    <3> QED  BY <1>1, <1>2, <3>1, BlockType
  <2>3. q - 1 \in Nat /\ m - Block = (q - 1) * Block + 0
    <3>1. (q - 1) * Block = q * Block - Block
      BY <1>1, BlockType
    <3>2. m = q * Block
      BY <1>1, <1>2, BlockType
    <3> QED  BY <1>1, <2>2, <3>1, <3>2, BlockType
  <2>4. (m - Block) \div Block = q - 1
    <3> DEFINE p == q - 1
    <3>1. p \in Nat /\ 0 \in 0..(Block - 1) /\ m - Block = p * Block + 0
      BY <2>3, BlockType
    <3> HIDE DEF p, q
    <3>2. (p * Block + 0) \div Block = p
      BY <3>1, Quotient
    <3>3. (m - Block) \div Block = p
      BY <3>1, <3>2
    <3> QED  BY <3>3 DEF p
  <2>5. (q - 1) * Block = m - Block
    BY <2>1, <2>3, BlockType
  <2> HIDE DEF q
  <2>6. m - (m - Block) = Block /\ m - Block \in 0..m
    BY <2>1, BlockType
  <2> QED  BY <2>1, <2>3, <2>4, <2>5, <2>6, BlockType
<1>3. CASE ~(m >= Block /\ m % Block = 0)
  <2>1. HeldBack(m) = m
    BY <1>3 DEF HeldBack
  <2> DEFINE q == m \div Block
             r == m % Block
  <2>2. q \in Nat /\ q * Block \in Nat /\ r \in 0..(Block - 1) /\ m = q * Block + r
    BY <1>1, BlockType
  <2>3. r # 0
    <3>1. q = 0 => q * Block = 0
      BY BlockType
    <3>2. q >= 1 => 1 * Block <= q * Block
      BY <2>2, Grows, 1 \in Int
    <3> HIDE DEF q
    <3>3. r = 0 => m >= Block
      BY <2>2, <3>1, <3>2, BlockType
    <3> QED  BY <1>3, <3>3
  <2> HIDE DEF q, r
  <2>4. m - q * Block = r /\ r \in 1..Block
    BY <2>2, <2>3, BlockType
  <2> QED  BY <2>1, <2>2, <2>4 DEF q
<1> QED  BY <1>2, <1>3

\* atcab_aes_cmac_update: the same, but a full block may be held.
LEMMA CmacHolds ==
    ASSUME NEW M \in Messages, NEW x, Shape(x), NEW given, NEW n \in Nat, NEW m \in Nat,
           Holding("cmac", M, x, given, n)
    PROVE  LET r == CmacUpdate(x, Cut(M, given, m))
           IN  /\ OnlyBuffer(x, r.after)
               /\ \E q \in Nat : r.blocks = Pieces(M, n, q) /\ Holding("cmac", M, r.after, given + m, n + q)
<1> DEFINE s == Cut(M, given, m)
           r == CmacUpdate(x, s)
           c == Block - x.size
<1>1. /\ x.size \in 0..Block /\ given = n * Block + x.size
      /\ x.buf \in Seq(Octets) /\ Len(x.buf) = Block
      /\ Begins(M, x.buf, x.size, n) /\ (x.size = 0 => n = 0)
  BY DEF Holding, Buffered, Ccm, Gcm
<1>2. given \in Nat /\ n * Block \in Nat /\ Len(s) = m
  <2>1. given \in Nat /\ n * Block \in Nat
    BY <1>1, BlockType
  <2> QED  BY <2>1, CutType
<1>3. CASE x.size + m < Block + 1
  <2> DEFINE filled == Put(x.buf, x.size, Take(s, Smaller(Len(s), Block - x.size)))
  <2>1. /\ filled \in Seq(Octets) /\ Len(filled) = Block
        /\ Begins(M, filled, x.size + m, n)
    <3>1. x.size + m <= Block
      BY <1>1, <1>3
    <3> QED  BY <1>1, <3>1, Gathers
  <2>2. r = [blocks |-> <<>>, after |-> [x EXCEPT !.buf = filled, !.size = @ + Len(s)]]
    BY <1>2, <1>3 DEF CmacUpdate
  <2> HIDE DEF filled, s, r
  <2>3. /\ r.after = [x EXCEPT !.buf = filled, !.size = @ + Len(s)] /\ r.blocks = <<>>
    BY <2>2
  <2>4. /\ OnlyBuffer(x, r.after)
        /\ r.after.buf = filled /\ r.after.size = x.size + m /\ r.after.total = x.total
    BY <1>2, <2>3 DEF Shape, OnlyBuffer
  <2>5. r.blocks = Pieces(M, n, 0)
    BY <2>3 DEF Pieces
  <2>6. Holding("cmac", M, r.after, given + m, n + 0)
    <3>1. n + 0 = n /\ x.size + m \in 0..Block /\ given + m = n * Block + (x.size + m)
      BY <1>1, <1>2, <1>3, BlockType
    <3> QED  BY <1>1, <1>3, <2>1, <2>4, <3>1, SMTT(30) DEF Holding, Buffered, Ccm, Gcm
  <2> QED  BY <2>4, <2>5, <2>6 DEF r, s
<1>4. CASE ~(x.size + m < Block + 1)
  <2> DEFINE rest == Drop(s, c)
             whole == Blocks(Take(rest, HeldBack(Len(rest))))
             h == HeldBack(m - c)
             q == h \div Block
             left == LeftOver(s, c, Len(whole) * Block)
  <2>1. /\ Smaller(Len(s), Block - x.size) = c
        /\ Put(x.buf, x.size, Take(s, c)) = Piece(M, n)
        /\ rest = Cut(M, (n + 1) * Block, m - c) /\ Len(rest) = m - c
    <3>1. Block <= x.size + m
      BY <1>1, <1>4, BlockType
    <3> QED  BY <1>1, <3>1, Flushes
  <2>2. /\ m - c \in Nat /\ h \in 0..(m - c) /\ q \in Nat /\ q * Block \in Nat
        /\ m - c - q * Block \in 1..Block
    <3> DEFINE l == m - c
    <3>1. l \in Nat /\ l > 0
      BY <1>1, <1>4, BlockType
    <3> HIDE DEF l
    <3>2. HeldBack(l) \in 0..l /\ HeldBack(l) \div Block \in Nat
          /\ (HeldBack(l) \div Block) * Block \in Nat
          /\ l - (HeldBack(l) \div Block) * Block \in 1..Block
      BY <3>1, HeldBackType
    <3> QED  BY <3>1, <3>2 DEF l
  <2>3. whole = Pieces(M, n + 1, q) /\ Len(whole) = q
    <3>1. n + 1 \in Nat /\ (n + 1) * Block \in Nat
      BY BlockType
    <3> HIDE DEF c, h
    <3>2. Take(rest, h) = Cut(M, (n + 1) * Block, h)
      BY <2>1, <2>2, <3>1, TakeOfCut
    <3>3. Blocks(Cut(M, (n + 1) * Block, h)) = Pieces(M, n + 1, q)
      <4>1. h \in Nat
        BY <2>2
      <4> QED  BY <3>1, <4>1, BlocksOfText
    <3>4. whole = Pieces(M, n + 1, q)
      BY <2>1, <3>2, <3>3 DEF h
    <3> HIDE DEF q, whole
    <3> QED  BY <2>2, <3>1, <3>4, PiecesType
  <2>4. r = [blocks |-> <<Piece(M, n)>> \o whole,
             after |-> [x EXCEPT !.buf = Put(Piece(M, n), 0, left), !.size = Len(left)]]
    BY <1>2, <1>4, <2>1 DEF CmacUpdate
  <2> DEFINE b == Put(Piece(M, n), 0, left)
  <2>5. /\ Len(left) = m - c - q * Block /\ Len(left) \in 0..Block
        /\ b \in Seq(Octets) /\ Len(b) = Block
        /\ Begins(M, b, Len(left), n + (1 + q))
    <3>1. q * Block <= m - c /\ m - c - q * Block <= Block /\ q * Block \in Nat
      BY <2>2, BlockType
    <3>2. Block <= x.size + m
      BY <1>1, <1>4, BlockType
    <3>3. left = LeftOver(s, Block - x.size, q * Block)
      BY <2>3
    <3> DEFINE l == LeftOver(s, Block - x.size, q * Block)
    <3> DEFINE z == x.size
    <3>5. /\ z \in 0..Block /\ given = n * Block + z /\ Block <= z + m /\ q \in Nat
          /\ l = LeftOver(Cut(M, given, m), Block - z, q * Block)
          /\ q * Block <= m - (Block - z) /\ m - (Block - z) - q * Block <= Block
      BY <1>1, <2>2, <3>1, <3>2
    <3>7. c = Block - z
      OBVIOUS
    <3> HIDE DEF q, z, l, c
    <3>6. Kept(M, n, z, given, m, q)
      BY <3>5, Keeps
    <3>4. /\ Len(l) = m - c - q * Block /\ Len(l) \in 0..Block
          /\ Put(Piece(M, n), 0, l) \in Seq(Octets) /\ Len(Put(Piece(M, n), 0, l)) = Block
          /\ Begins(M, Put(Piece(M, n), 0, l), Len(l), n + (1 + q))
      BY <3>5, <3>6, <3>7, Zenon DEF Kept
    <3> QED  BY <3>3, <3>4 DEF l
  <2>6. <<Piece(M, n)>> \o whole = Pieces(M, n, 1 + q)
    <3>1. Pieces(M, n, 1) = <<Piece(M, n)>>
      <4>1. \A i \in 1..1 : Piece(M, n + i - 1) = Piece(M, n)
        OBVIOUS
      <4> QED  BY <4>1 DEF Pieces
    <3>2. Pieces(M, n, 1) \o Pieces(M, n + 1, q) = Pieces(M, n, 1 + q)
      <4> DEFINE one == 1
      <4>1. one \in Nat /\ q \in Nat
        BY <2>2
      <4> HIDE DEF one, q
      <4>2. Pieces(M, n, one) \o Pieces(M, n + one, q) = Pieces(M, n, one + q)
        BY ONLY M \in Messages, n \in Nat, <4>1, PiecesJoin
      <4> QED  BY <4>2 DEF one
    <3> QED  BY <2>3, <3>1, <3>2
  <2> HIDE DEF s, r, rest, whole, left, b, q
  <2>7. /\ OnlyBuffer(x, r.after)
        /\ r.after.buf = b /\ r.after.size = Len(left)
        /\ r.blocks = <<Piece(M, n)>> \o whole
    BY <2>4 DEF Shape, OnlyBuffer, b
  <2>8. Holding("cmac", M, r.after, given + m, n + (1 + q))
    <3> DEFINE nb == n * Block
               qb == q * Block
               eb == (n + (1 + q)) * Block
    <3>1. n + (1 + q) \in Nat /\ nb \in Nat /\ qb \in Nat /\ eb = nb + Block + qb
      BY <2>2, BlockType
    <3>2. given = nb + x.size /\ x.size \in Nat /\ c = Block - x.size
      BY <1>1
    <3>3. Len(left) = m - c - qb /\ m - c - qb \in 1..Block
      BY <2>2, <2>5
    <3> HIDE DEF nb, qb, eb, c
    <3>4. nb \in Int /\ qb \in Int /\ c \in Int /\ eb \in Int /\ eb = nb + Block + qb
      BY <3>1, <3>2, BlockType
    <3>5. given + m = eb + Len(left)
      <4>1. Len(left) \in Int
        BY <3>3
      <4>2. m = Len(left) + c + qb
        BY <3>3, <3>4, <4>1
      <4>3. given + m = nb + x.size + Len(left) + c + qb
        BY SMTT(30), <3>2, <3>4, <4>1, <4>2
      <4>4. x.size + c = Block
        BY <3>2, BlockType
      <4> DEFINE y == x.size
                 l == Len(left)
      <4>5. y \in Int /\ l \in Int /\ y + c = Block /\ given + m = nb + y + l + c + qb
        BY <3>2, <4>1, <4>3, <4>4
      <4> HIDE DEF y, l
      <4> QED  BY <3>4, <4>5, BlockType DEF l
    <3>6. Len(left) # 0
      BY <3>3
    <3> QED  BY <2>5, <2>7, <3>1, <3>5, <3>6 DEF Holding, Buffered, Ccm, Gcm, eb
  <2>9. 1 + q \in Nat
    BY <2>2
  <2> QED  BY <2>6, <2>7, <2>8, <2>9 DEF r, s
<1> QED  BY <1>3, <1>4

-----------------------------------------------------------------------------
(* The ends *)

\* Parts of a message one after the other
LEMMA CutJoin ==
    ASSUME NEW M \in Messages, NEW from \in Nat, NEW a \in Nat, NEW b \in Nat
    PROVE  Cut(M, from, a) \o Cut(M, from + a, b) = Cut(M, from, a + b)
<1> DEFINE s == Cut(M, from, a)
           t == Cut(M, from + a, b)
           u == Cut(M, from, a + b)
           v == s \o t
<1>1. s \in Seq(Octets) /\ Len(s) = a /\ \A i \in 1..a : s[i] = M[from + i - 1]
  BY CutType
<1>2. t \in Seq(Octets) /\ Len(t) = b /\ \A i \in 1..b : t[i] = M[from + a + i - 1]
  <2>1. from + a \in Nat
    OBVIOUS
  <2> QED  BY <2>1, CutType
<1>3. u \in Seq(Octets) /\ Len(u) = a + b /\ \A i \in 1..(a + b) : u[i] = M[from + i - 1]
  <2>1. a + b \in Nat
    OBVIOUS
  <2> QED  BY <2>1, CutType
<1> HIDE DEF s, t, u
<1>4. /\ v \in Seq(Octets) /\ Len(v) = a + b
      /\ \A i \in 1..(a + b) : v[i] = IF i <= a THEN s[i] ELSE t[i - a]
  BY <1>1, <1>2, ConcatProperties
<1> HIDE DEF v
<1>5. ASSUME NEW i \in 1..(a + b) PROVE v[i] = u[i]
  <2>1. CASE i <= a
    <3>1. i \in 1..a
      BY <2>1
    <3>2. v[i] = s[i]
      BY <2>1, <1>4
    <3>3. s[i] = M[from + i - 1] /\ u[i] = M[from + i - 1]
      BY <3>1, <1>1, <1>3
    <3> QED  BY <3>2, <3>3
  <2>2. CASE ~(i <= a)
    <3>1. i - a \in 1..b /\ from + a + (i - a) - 1 = from + i - 1
      BY <2>2
    <3>2. t[i - a] = M[from + a + (i - a) - 1]
      BY <3>1, <1>2
    <3> QED  BY <2>2, <3>1, <3>2, <1>3, <1>4
  <2> QED  BY <2>1, <2>2
<1>6. v = u
  BY <1>3, <1>4, <1>5, SeqEqual
<1> QED  BY <1>6 DEF v, s, t, u

\* The k-th block of a message, from 1
Part(s, k) == SubSeq(s, (k - 1) * Block + 1, k * Block)

\* The blocks of a message whose first part is whole blocks
LEMMA BlocksJoin ==
    ASSUME NEW n \in Nat, NEW s \in Seq(Octets), Len(s) = n * Block, NEW t \in Seq(Octets)
    PROVE  Blocks(s \o t) = Blocks(s) \o Blocks(t)
<1> DEFINE l == Len(t)
           q == l \div Block
           st == s \o t
<1>1. /\ l \in Nat /\ q \in Nat /\ q * Block \in Nat /\ q * Block <= l /\ l % Block \in 0..(Block - 1)
      /\ l = q * Block + (l % Block) /\ n * Block \in Nat
  <2>1. l \in Nat
    BY LenProperties
  <2>2. q \in Nat /\ l % Block \in 0..(Block - 1) /\ l = q * Block + (l % Block)
    BY <2>1, Divides
  <2>3. q * Block \in Nat /\ n * Block \in Nat
    BY <2>2, BlockType
  <2> HIDE DEF l, q
  <2>4. q * Block <= l
    BY <2>1, <2>2, <2>3
  <2> QED  BY <2>1, <2>2, <2>3, <2>4
<1>2. st \in Seq(Octets) /\ Len(st) = n * Block + l
  BY ConcatProperties
<1>3. (n * Block + l) \div Block = n + q
  <2> HIDE DEF l, q
  <2>1. n * Block + l = (n + q) * Block + (l % Block)
    BY <1>1, BlockType
  <2>2. n + q \in Nat
    BY <1>1
  <2> QED  BY <1>1, <2>1, <2>2, Quotient
<1>4. (n * Block) \div Block = n
  <2>1. 0 \in 0..(Block - 1) /\ n * Block + 0 = n * Block
    BY BlockType
  <2>2. (n * Block + 0) \div Block = n
    BY <2>1, Quotient
  <2> QED  BY <2>1, <2>2
<1>5. /\ Blocks(st) = [i \in 1..(n + q) |-> Part(st, i)]
      /\ Blocks(s) = [i \in 1..n |-> Part(s, i)]
      /\ Blocks(t) = [i \in 1..q |-> Part(t, i)]
  BY <1>2, <1>3, <1>4 DEF Blocks, Part
<1> HIDE DEF st
<1>6. ASSUME NEW u \in Seq(Octets), NEW k \in Nat, k * Block <= Len(u), NEW i \in 1..k
      PROVE  /\ Part(u, i) \in Seq(Octets) /\ (i - 1) * Block \in Nat /\ i * Block \in Nat
             /\ i * Block = (i - 1) * Block + Block /\ i * Block <= k * Block
  <2>1. (i - 1) * Block \in Nat /\ i * Block \in Nat /\ i * Block = (i - 1) * Block + Block
    BY BlockType
  <2>2. i * Block <= k * Block /\ k * Block \in Int
    BY SMTT(30), Grows, i \in Int, k \in Int
  <2>3. ASSUME NEW j \in ((i - 1) * Block + 1)..(i * Block) PROVE u[j] \in Octets
    <3>1. Len(u) \in Nat
      BY LenProperties
    <3> DEFINE a == (i - 1) * Block
               b == i * Block
               z == k * Block
    <3>2. a \in Nat /\ b <= z /\ z <= Len(u) /\ j \in Int /\ a + 1 <= j /\ j <= b
      <4>1. j \in Int /\ a + 1 <= j /\ j <= b
        BY <2>1
      <4>2. a \in Nat /\ b <= z
        BY <2>1, <2>2
      <4> QED  BY <4>1, <4>2, <1>6
    <3>3. b \in Int /\ z \in Int
      BY <2>1, <2>2
    <3> HIDE DEF a, b, z
    <3>4. j \in 1..Len(u)
      BY <3>1, <3>2, <3>3
    <3> QED  BY <3>4, ElementOfSeq
  <2>4. (i - 1) * Block + 1 \in Int /\ i * Block \in Int
    BY <2>1
  <2>5. Part(u, i) \in Seq(Octets)
    BY <2>3, <2>4, SubSeqProperties DEF Part
  <2> QED  BY <2>1, <2>2, <2>5
<1>7. /\ Blocks(s) \in Seq(Seq(Octets)) /\ Len(Blocks(s)) = n
      /\ \A i \in 1..n : Blocks(s)[i] = Part(s, i)
  <2>1. ASSUME NEW i \in 1..n PROVE Part(s, i) \in Seq(Octets)
    <3>1. n * Block <= Len(s)
      BY <1>1
    <3> QED  BY <3>1, <1>6
  <2>2. Blocks(s) \in [1..n -> Seq(Octets)]
    BY <1>5, <2>1
  <2>3. Blocks(s) \in Seq(Seq(Octets)) /\ Len(Blocks(s)) = n
    BY <2>2, Sequence
  <2> QED  BY <1>5, <2>3
<1>8. /\ Blocks(t) \in Seq(Seq(Octets)) /\ Len(Blocks(t)) = q
      /\ \A i \in 1..q : Blocks(t)[i] = Part(t, i)
  <2>1. \A i \in 1..q : Part(t, i) \in Seq(Octets)
    BY <1>1, <1>6
  <2>2. Blocks(t) \in [1..q -> Seq(Octets)]
    BY <1>5, <2>1
  <2>3. Blocks(t) \in Seq(Seq(Octets)) /\ Len(Blocks(t)) = q
    BY <1>1, <2>2, Sequence
  <2> QED  BY <1>5, <2>3
<1>9. ASSUME NEW i \in 1..n PROVE Part(st, i) = Part(s, i)
  <2>1. (i - 1) * Block \in Nat /\ i * Block = (i - 1) * Block + Block /\ i * Block <= n * Block
    <3>1. n * Block <= Len(s)
      BY <1>1
    <3> QED  BY <3>1, <1>6
  <2>2. (i - 1) * Block + 1 \in 1..Len(s) /\ i * Block \in 1..Len(s)
    BY <1>1, <2>1, BlockType
  <2> QED  BY <2>2, SubSeqOfConcat1 DEF st, Part
<1>10. ASSUME NEW i \in 1..q PROVE Part(st, n + i) = Part(t, i)
  <2> DEFINE a == (i - 1) * Block
             b == i * Block
             z == n * Block
  <2>1. a \in Nat /\ b = a + Block /\ b <= q * Block /\ z \in Nat
    BY <1>1, <1>6
  <2>2. (n + i - 1) * Block = z + a /\ (n + i) * Block = z + b
    BY BlockType
  <2>3. Part(st, n + i) = SubSeq(st, z + a + 1, z + b)
    <3> DEFINE e == ((n + i) - 1) * Block
               f == (n + i) * Block
    <3>1. Part(st, n + i) = SubSeq(st, e + 1, f)
      BY Zenon DEF Part
    <3>2. (n + i) - 1 = n + i - 1
      OBVIOUS
    <3>3. e = z + a /\ f = z + b
      BY <2>2, <3>2
    <3> HIDE DEF a, b, z, e, f
    <3> QED  BY <3>1, <3>3
  <2>4. Len(s) = z /\ Len(t) \in Nat /\ b <= Len(t)
    <3> HIDE DEF a, b
    <3> QED  BY <1>1, <2>1
  <2> HIDE DEF a, b, z, l, q
  <2>5. /\ z + a + 1 \in (Len(s) + 1)..(Len(s) + Len(t))
        /\ z + b \in (Len(s) + 1)..(Len(s) + Len(t))
    BY <2>1, <2>4, BlockType
  <2>6. SubSeq(st, z + a + 1, z + b) = SubSeq(t, (z + a + 1) - Len(s), (z + b) - Len(s))
    BY <2>5, SubSeqOfConcat2 DEF st
  <2>7. (z + a + 1) - Len(s) = a + 1 /\ (z + b) - Len(s) = b
    BY <2>1, <2>4, BlockType
  <2> QED  BY <2>3, <2>6, <2>7 DEF a, b, Part
<1> HIDE DEF q, l
<1> DEFINE c == Blocks(s) \o Blocks(t)
           d == Blocks(st)
<1>11. /\ c \in Seq(Seq(Octets)) /\ Len(c) = n + q
       /\ \A i \in 1..(n + q) : c[i] = IF i <= n THEN Blocks(s)[i] ELSE Blocks(t)[i - n]
  BY <1>7, <1>8, ConcatProperties
<1>12. ASSUME NEW i \in 1..(n + q) PROVE c[i] = Part(st, i)
  <2>1. CASE i <= n
    BY <2>1, <1>1, <1>7, <1>9, <1>11
  <2>2. CASE ~(i <= n)
    <3>1. i - n \in 1..q /\ n + (i - n) = i
      BY <2>2, <1>1
    <3>2. Part(st, n + (i - n)) = Part(t, i - n)
      BY <3>1, <1>10
    <3> QED  BY <2>2, <3>1, <3>2, <1>8, <1>11
  <2> QED  BY <2>1, <2>2
<1> HIDE DEF c
<1>13. c = [i \in 1..(n + q) |-> Part(st, i)]
  <2>1. c = [i \in 1..(n + q) |-> c[i]]
    <3>1. n + q \in Nat
      BY <1>1
    <3>2. c \in [1..(n + q) -> Seq(Octets)]
      BY <1>11, LenProperties
    <3> QED  BY <3>2
  <2> QED  BY <1>12, <2>1
<1> QED  BY <1>5, <1>13 DEF c, st

\* What the buffer holds is the text's rest.
LEMMA RestOfBuffer ==
    ASSUME NEW M \in Messages, NEW n \in Nat, NEW size \in 0..Block, NEW buf \in Seq(Octets), Len(buf) = Block,
           Begins(M, buf, size, n)
    PROVE  Take(buf, size) = Cut(M, n * Block, size)
<1> DEFINE s == Take(buf, size)
           t == Cut(M, n * Block, size)
<1>1. n * Block \in Nat /\ size \in Nat /\ size <= Len(buf)
  BY BlockType
<1>2. t \in Seq(Octets) /\ Len(t) = size /\ \A i \in 1..size : t[i] = M[n * Block + i - 1]
  <2> DEFINE k == n * Block
  <2>1. k \in Nat
    BY <1>1
  <2> HIDE DEF k
  <2>2. /\ Cut(M, k, size) \in Seq(Octets) /\ Len(Cut(M, k, size)) = size
        /\ \A i \in 1..size : Cut(M, k, size)[i] = M[k + i - 1]
    BY <1>1, <2>1, CutType
  <2> QED  BY <2>2 DEF k
<1>3. ASSUME NEW i \in 1..size PROVE buf[i] \in Octets
  <2>1. i \in 1..Len(buf)
    BY <1>1, BlockType
  <2> QED  BY <2>1, ElementOfSeq
<1>4. /\ s \in Seq(Octets) /\ Len(s) = (IF 1 <= size THEN size - 1 + 1 ELSE 0)
      /\ \A i \in 1..(size - 1 + 1) : s[i] = buf[1 + i - 1]
  BY <1>1, <1>3, SubSeqProperties, 1 \in Int DEF Take
<1>5. Len(s) = size /\ \A i \in 1..size : s[i] = buf[i]
  BY <1>1, <1>4
<1> HIDE DEF s, t
<1>6. \A i \in 1..size : s[i] = t[i]
  BY <1>2, <1>5 DEF Begins
<1>7. s = t
  BY <1>2, <1>4, <1>5, <1>6, SeqEqual
<1> QED  BY <1>7 DEF s, t

\* A message's n whole blocks and the bytes behind them
Splits(M, n, size, given) ==
    LET s == Cut(M, 0, n * Block)
        t == Cut(M, n * Block, size)
    IN  /\ Cut(M, 0, given) = s \o t
        /\ s \in Seq(Octets) /\ Len(s) = n * Block
        /\ t \in Seq(Octets) /\ Len(t) = size
        /\ Blocks(s) = Pieces(M, 0, n)
        /\ Take(s \o t, n * Block) = s /\ Drop(s \o t, n * Block) = t

\* The text is its whole blocks and the rest.
LEMMA TextSplits ==
    ASSUME NEW M \in Messages, NEW n \in Nat, NEW size \in Nat,
           NEW given, given = n * Block + size
    PROVE  Splits(M, n, size, given)
<1> DEFINE z == n * Block
<1>1. z \in Nat /\ z + size \in Nat /\ z \in 0..(z + size) /\ 0 + z = z /\ (z + size) - z = size
  BY BlockType
<1>2. z \div Block = n /\ 0 * Block = 0
  <2>1. 0 \in 0..(Block - 1) /\ n * Block + 0 = n * Block /\ 0 * Block = 0
    BY BlockType
  <2>2. (n * Block + 0) \div Block = n
    BY <2>1, Quotient
  <2> QED  BY <2>1, <2>2
<1>3. Blocks(Cut(M, 0 * Block, z)) = Pieces(M, 0, z \div Block)
  BY <1>1, BlocksOfText
<1> HIDE DEF z
<1>4. /\ Cut(M, 0, z) \in Seq(Octets) /\ Len(Cut(M, 0, z)) = z
      /\ Cut(M, z, size) \in Seq(Octets) /\ Len(Cut(M, z, size)) = size
  BY <1>1, CutType
<1>5. Cut(M, 0, z) \o Cut(M, 0 + z, size) = Cut(M, 0, z + size)
  <2> DEFINE o == 0
  <2>1. o \in Nat /\ o + z = z
    BY <1>1
  <2> HIDE DEF o
  <2>2. Cut(M, o, z) \o Cut(M, o + z, size) = Cut(M, o, z + size)
    BY <1>1, <2>1, CutJoin
  <2> QED  BY <1>1, <2>1, <2>2 DEF o
<1>6. Take(Cut(M, 0, z + size), z) = Cut(M, 0, z)
  BY <1>1, TakeOfCut
<1>7. Drop(Cut(M, 0, z + size), z) = Cut(M, 0 + z, (z + size) - z)
  BY <1>1, DropOfCut
<1> QED  BY <1>1, <1>2, <1>3, <1>4, <1>5, <1>6, <1>7 DEF z, Splits

\* Zeros are bytes.
LEMMA ZerosType ==
    ASSUME NEW n \in Nat
    PROVE  Zeros(n) \in Seq(Octets) /\ Len(Zeros(n)) = n /\ \A i \in 1..n : Zeros(n)[i] = Zero
<1>1. Zero \in Octets
  BY ByteType DEF Zero, Sources
<1>2. Zeros(n) \in [1..n -> Octets]
  BY <1>1 DEF Zeros
<1>3. Zeros(n) \in Seq(Octets) /\ Len(Zeros(n)) = n
  BY <1>2, Sequence
<1> QED  BY <1>3 DEF Zeros

\* sw_sha256_final's zeros are the fewest that complete a block behind any
\* number of them.
LEMMA PadIsFewest ==
    ASSUME NEW M \in Messages, NEW kind, NEW x, NEW given, NEW n, Holding(kind, M, x, given, n)
    PROVE  /\ PadZeros(x.size) \in 0..(Block - 1)
           /\ \A k \in 0..(Block - 1) :
                 (given + 1 + k + LenField) % Block = 0 <=> k = PadZeros(x.size)
<1> DEFINE size == x.size
           e == size + 1 + LenField
           d == e \div Block
           w == e % Block
           p == PadZeros(x.size)
           Fits(k) == (given + 1 + k + LenField) % Block = 0
<1>0. n \in Nat /\ size \in Nat /\ given = n * Block + size
  BY BlockType DEF Holding, Buffered, Ccm, Gcm
<1> HIDE DEF size
<1>1. e \in Nat /\ d \in Nat /\ w \in 0..(Block - 1) /\ e = d * Block + w
  <2>1. e \in Nat
    BY <1>0, BlockType
  <2> HIDE DEF e
  <2> QED  BY <2>1, Divides
<1>2. p = IF w = 0 THEN 0 ELSE Block - w
  <2>1. p = (Block - w) % Block
    BY DEF PadZeros, size
  <2>2. CASE w = 0
    <3>1. 1 \in Nat /\ 0 \in 0..(Block - 1) /\ 1 * Block + 0 = Block - w
      BY <2>2, BlockType
    <3>2. (1 * Block + 0) % Block = 0
      BY <3>1, Quotient
    <3> QED  BY <2>1, <2>2, <3>1, <3>2
  <2>3. CASE w # 0
    <3> HIDE DEF w
    <3>1. 0 \in Nat /\ Block - w \in 0..(Block - 1) /\ 0 * Block + (Block - w) = Block - w
      <4>1. w \in 0..(Block - 1)
        BY <1>1
      <4> QED  BY <2>3, <4>1, BlockType
    <3>2. (0 * Block + (Block - w)) % Block = Block - w
      BY <3>1, Quotient
    <3> QED  BY <2>1, <2>3, <3>1, <3>2
  <2> QED  BY <2>2, <2>3
<1> HIDE DEF d, w, p
<1>3. p \in 0..(Block - 1)
  BY <1>1, <1>2, BlockType
<1>4. ASSUME NEW k \in 0..(Block - 1)
      PROVE  /\ w + k < Block => (given + 1 + k + LenField) % Block = w + k
             /\ w + k >= Block => (given + 1 + k + LenField) % Block = w + k - Block
  <2> DEFINE z == n * Block
             f == given + 1 + k + LenField
  <2>1. f = (n + d) * Block + (w + k) /\ f = (n + d + 1) * Block + (w + k - Block)
    <3>1. (n + d) * Block = z + d * Block /\ (n + d + 1) * Block = z + d * Block + Block /\ z \in Nat
      BY <1>0, <1>1, BlockType
    <3>2. f = z + e + k
      BY <1>0, <3>1, BlockType
    <3> HIDE DEF z, f, e
    <3> DEFINE y == d * Block
    <3>3. y \in Int
      BY <1>1, BlockType
    <3>4. e = y + w /\ (n + d) * Block = z + y /\ (n + d + 1) * Block = z + y + Block
      BY <1>1, <3>1
    <3> HIDE DEF y
    <3>5. w \in Int /\ z \in Int /\ e \in Int
      BY <1>1, <3>1, BlockType
    <3>6. f = (z + y) + (w + k) /\ f = (z + y + Block) + (w + k - Block)
      <4>1. f = z + (y + w) + k
        BY <3>2, <3>4
      <4> QED  BY <3>3, <3>5, <4>1, BlockType
    <3> QED  BY <3>4, <3>6
  <2> HIDE DEF f, z, e
  <2>2. CASE w + k < Block
    <3>1. n + d \in Nat /\ w + k \in 0..(Block - 1)
      BY <1>0, <1>1, <2>2, BlockType
    <3>2. ((n + d) * Block + (w + k)) % Block = w + k
      BY <3>1, Quotient
    <3>3. f % Block = w + k
      BY <2>1, <3>2
    <3> QED  BY <1>1, <2>2, <3>3, BlockType DEF f, z
  <2>3. CASE w + k >= Block
    <3>1. n + d + 1 \in Nat /\ w + k - Block \in 0..(Block - 1)
      BY <1>0, <1>1, <2>3, BlockType
    <3>2. ((n + d + 1) * Block + (w + k - Block)) % Block = w + k - Block
      BY <3>1, Quotient
    <3>3. f % Block = w + k - Block
      BY <2>1, <3>2
    <3> QED  BY <1>1, <2>3, <3>3, BlockType DEF f, z
  <2>4. w + k < Block \/ w + k >= Block
    BY <1>1, BlockType
  <2> QED  BY <2>2, <2>3, <2>4
<1> HIDE DEF Fits
<1>5. ASSUME NEW k \in 0..(Block - 1) PROVE Fits(k) <=> k = p
  <2> DEFINE r == (given + 1 + k + LenField) % Block
  <2>1. (w + k < Block => r = w + k) /\ (w + k >= Block => r = w + k - Block)
    BY <1>4
  <2>2. Fits(k) <=> r = 0
    BY DEF Fits
  <2> HIDE DEF r
  <2>3. w \in 0..(Block - 1)
    BY <1>1
  <2>4. r = 0 <=> k = IF w = 0 THEN 0 ELSE Block - w
    BY <2>1, <2>3, BlockType
  <2> QED  BY <1>2, <2>2, <2>4
<1> QED  BY <1>3, <1>5 DEF Fits, p, size

\* Concatenation of messages is associative.
LEMMA Joins ==
    ASSUME NEW s \in Seq(Octets), NEW t \in Seq(Octets), NEW u \in Seq(Octets)
    PROVE  (s \o t) \o u = s \o (t \o u)
  BY ConcatAssociative

\* sw_sha256_final, and calib_hw_sha2_256_finish for the ATSHA204A: the last
\* blocks are those of the padded message, if the count of its bits fits.
LEMMA ShaEnds ==
    ASSUME NEW M \in Messages, NEW kind \in Buffered, NEW x, NEW given, NEW n, Holding(kind, M, x, given, n),
           8 * given < Word
    PROVE  Pieces(M, 0, n) \o ShaLast(kind, x) = Blocks(Sha256Padded(Cut(M, 0, given)))
<1> DEFINE s == Cut(M, 0, n * Block)
           t == Cut(M, n * Block, x.size)
           one == <<OneBit>>
           z == Zeros(PadZeros(x.size) + LenField - 1)
           bits == <<Byte("bits", 8 * given)>>
<1>1. /\ n \in Nat /\ x.size \in 0..Block /\ x.size \in Nat /\ given = n * Block + x.size
      /\ x.buf \in Seq(Octets) /\ Len(x.buf) = Block /\ Begins(M, x.buf, x.size, n)
      /\ x.total + x.size = given /\ given \in Nat
  BY BlockType DEF Holding, Buffered, Ccm, Gcm
<1>2. /\ Cut(M, 0, given) = s \o t /\ s \in Seq(Octets) /\ Len(s) = n * Block
      /\ t \in Seq(Octets) /\ Blocks(s) = Pieces(M, 0, n)
  <2>1. Splits(M, n, x.size, given)
    BY <1>1, TextSplits
  <2> QED  BY <2>1 DEF Splits
<1>3. Len(Cut(M, 0, given)) = given
  BY <1>1, CutType, 0 \in Nat
<1>4. PadZeros(x.size) \in Nat
  <2>1. PadZeros(x.size) \in 0..(Block - 1)
    BY <1>1, PadIsFewest
  <2> QED  BY <2>1
<1>5. one \in Seq(Octets) /\ z \in Seq(Octets) /\ bits \in Seq(Octets)
  <2>1. OneBit \in Octets
    BY ByteType DEF OneBit, Sources
  <2>2. 8 * given \in Nat
    BY <1>1
  <2>3. Byte("bits", 8 * given) \in Octets
    BY <2>2, ByteType DEF Sources
  <2>4. PadZeros(x.size) + LenField - 1 \in Nat
    BY <1>4, BlockType
  <2> QED  BY <2>1, <2>3, <2>4, ZerosType
<1>6. ShaLast(kind, x) = Blocks(((t \o one) \o z) \o bits)
  <2>1. Take(x.buf, x.size) = t
    BY <1>1, RestOfBuffer
  <2>2. BitCount(kind, given) = 8 * given
    BY DEF BitCount
  <2> QED  BY <1>1, <2>1, <2>2 DEF ShaLast
<1>7. Sha256Padded(Cut(M, 0, given)) = (((s \o t) \o one) \o z) \o bits
  <2> DEFINE m == Cut(M, 0, given)
  <2>1. (CHOOSE k \in 0..(Block - 1) : (given + 1 + k + LenField) % Block = 0) = PadZeros(x.size)
    <3> DEFINE Fits(k) == (given + 1 + k + LenField) % Block = 0
    <3>1. \A k \in 0..(Block - 1) : Fits(k) <=> k = PadZeros(x.size)
      BY <1>1, PadIsFewest
    <3>2. PadZeros(x.size) \in 0..(Block - 1)
      BY <1>1, PadIsFewest
    <3> HIDE DEF Fits
    <3>3. (CHOOSE k \in 0..(Block - 1) : Fits(k)) = PadZeros(x.size)
      BY <3>1, <3>2
    <3> QED  BY <3>3 DEF Fits
  <2>2. Sha256Padded(m) = ((m \o one) \o z) \o bits
    BY <1>3, <2>1 DEF Sha256Padded
  <2> QED  BY <1>2, <2>2
<1> HIDE DEF s, t, one, z, bits
<1>8. (((s \o t) \o one) \o z) \o bits = s \o (((t \o one) \o z) \o bits)
  <2>1. t \o one \in Seq(Octets) /\ (t \o one) \o z \in Seq(Octets)
    BY <1>2, <1>5, ConcatProperties
  <2>2. (s \o t) \o one = s \o (t \o one)
    BY <1>2, <1>5, Joins
  <2> DEFINE u == t \o one
             v == u \o z
  <2>3. u \in Seq(Octets) /\ v \in Seq(Octets)
    BY <2>1
  <2> HIDE DEF u, v
  <2>4. (s \o u) \o z = s \o (u \o z)
    BY <1>2, <1>5, <2>3, Joins
  <2>5. (s \o v) \o bits = s \o (v \o bits)
    BY <1>2, <1>5, <2>3, Joins
  <2> QED  BY <2>2, <2>4, <2>5 DEF u, v
<1>9. ((t \o one) \o z) \o bits \in Seq(Octets)
  BY <1>2, <1>5, ConcatProperties
<1>10. Blocks(s \o (((t \o one) \o z) \o bits)) = Blocks(s) \o Blocks(((t \o one) \o z) \o bits)
  BY <1>1, <1>2, <1>9, BlocksJoin
<1> QED  BY <1>2, <1>6, <1>7, <1>8, <1>10

\* calib_hw_sha2_256_finish and calib_sha_hmac_finish: the chip is given what
\* is behind the last whole block.
LEMMA PlainEnds ==
    ASSUME NEW M \in Messages, NEW kind \in Buffered, NEW x, NEW given, NEW n, Holding(kind, M, x, given, n)
    PROVE  LET s == Cut(M, 0, given)
           IN  /\ Blocks(Take(s, Whole(given))) = Pieces(M, 0, n)
               /\ Drop(s, Whole(given)) = Take(x.buf, x.size)
<1>1. /\ n \in Nat /\ x.size \in 0..(Block - 1) /\ x.size \in 0..Block /\ x.size \in Nat
      /\ given = n * Block + x.size
      /\ x.buf \in Seq(Octets) /\ Len(x.buf) = Block /\ Begins(M, x.buf, x.size, n)
  BY BlockType DEF Holding, Buffered, Ccm, Gcm
<1>2. Whole(given) = n * Block
  <2>1. (n * Block + x.size) % Block = x.size
    BY <1>1, Quotient
  <2>2. n * Block \in Nat
    BY <1>1, BlockType
  <2> DEFINE z == n * Block
  <2> HIDE DEF z
  <2>3. given - (given % Block) = n * Block
    BY <1>1, <2>1, <2>2
  <2> QED  BY <2>3 DEF Whole
<1>3. /\ Cut(M, 0, given) = Cut(M, 0, n * Block) \o Cut(M, n * Block, x.size)
      /\ Blocks(Cut(M, 0, n * Block)) = Pieces(M, 0, n)
      /\ Take(Cut(M, 0, given), n * Block) = Cut(M, 0, n * Block)
      /\ Drop(Cut(M, 0, given), n * Block) = Cut(M, n * Block, x.size)
  <2>1. Splits(M, n, x.size, given)
    BY <1>1, TextSplits
  <2> QED  BY <2>1 DEF Splits
<1>4. Take(x.buf, x.size) = Cut(M, n * Block, x.size)
  BY <1>1, RestOfBuffer
<1> QED  BY <1>2, <1>3, <1>4

\* Numbers below Block and multiples of it, divided.
LEMMA Rests ==
    ASSUME NEW r \in 0..(Block - 1)
    PROVE  r % Block = r /\ Block % Block = 0
<1>1. 0 \in Nat /\ 0 * Block + r = r /\ 1 \in Nat /\ 0 \in 0..(Block - 1) /\ 1 * Block + 0 = Block
  BY BlockType
<1>2. (0 * Block + r) % Block = r /\ (1 * Block + 0) % Block = 0
  BY <1>1, Quotient
<1> QED  BY <1>1, <1>2

\* atcab_aes_cmac_finish's last block, if it is not full
LEMMA CmacFills ==
    ASSUME NEW M \in Messages, NEW n \in Nat, NEW size \in 0..(Block - 1), NEW buf \in Seq(Octets), Len(buf) = Block,
           Begins(M, buf, size, n)
    PROVE  Put(buf, size, <<OneBit>> \o Zeros(Block - size - 1))
               = Filled(Append(Cut(M, n * Block, size), OneBit))
<1> DEFINE e == Cut(M, n * Block, size)
           a == Append(e, OneBit)
           z == Zeros(Block - size - 1)
           f == a \o z
           t == <<OneBit>> \o z
           p == Put(buf, size, t)
<1>1. size \in Nat /\ size \in 0..Block /\ Block - size - 1 \in Nat /\ n * Block \in Nat
  BY BlockType
<1>2. /\ e \in Seq(Octets) /\ Len(e) = size
      /\ \A i \in 1..size : e[i] = M[n * Block + i - 1]
  <2> DEFINE k == n * Block
  <2>1. k \in Nat
    BY <1>1
  <2> HIDE DEF k
  <2>2. /\ Cut(M, k, size) \in Seq(Octets) /\ Len(Cut(M, k, size)) = size
        /\ \A i \in 1..size : Cut(M, k, size)[i] = M[k + i - 1]
    BY <1>1, <2>1, CutType
  <2> QED  BY <2>2 DEF k
<1>3. OneBit \in Octets
  BY ByteType DEF OneBit, Sources
<1>4. /\ z \in Seq(Octets) /\ Len(z) = Block - size - 1
      /\ \A i \in 1..(Block - size - 1) : z[i] = Zero
  BY <1>1, ZerosType
<1> HIDE DEF e, z
<1>5. /\ a \in Seq(Octets) /\ Len(a) = size + 1 /\ a[size + 1] = OneBit
      /\ \A i \in 1..size : a[i] = e[i]
  BY <1>2, <1>3, AppendProperties
<1>6. Filled(a) = f
  <2>1. CASE size + 1 < Block
    <3>1. size + 1 \in 0..(Block - 1) /\ Block - (size + 1) \in 0..(Block - 1)
      BY <1>1, <2>1, BlockType
    <3>2. (size + 1) % Block = size + 1 /\ (Block - (size + 1)) % Block = Block - (size + 1)
      BY <3>1, Rests
    <3>3. Block - (size + 1) = Block - size - 1
      BY <1>1, BlockType
    <3> QED  BY <1>5, <3>2, <3>3 DEF Filled, z
  <2>2. CASE ~(size + 1 < Block)
    <3>1. size + 1 = Block /\ Block - 0 = Block /\ Block - size - 1 = 0 /\ 0 \in 0..(Block - 1)
      BY <1>1, <2>2, BlockType
    <3>2. Block % Block = 0
      BY <3>1, Rests
    <3>3. (Block - (Len(a) % Block)) % Block = 0
      BY <1>5, <3>1, <3>2
    <3> QED  BY <3>1, <3>3 DEF Filled, z
  <2> QED  BY <2>1, <2>2
<1> HIDE DEF a
<1>7. /\ f \in Seq(Octets) /\ Len(f) = Block
      /\ \A i \in 1..Block : f[i] = IF i <= size + 1 THEN a[i] ELSE z[i - (size + 1)]
  <2>1. Len(a) + Len(z) = Block
    BY <1>1, <1>4, <1>5, BlockType
  <2>2. /\ f \in Seq(Octets) /\ Len(f) = Len(a) + Len(z)
        /\ \A i \in 1..(Len(a) + Len(z)) : f[i] = IF i <= Len(a) THEN a[i] ELSE z[i - Len(a)]
    BY <1>4, <1>5, ConcatProperties
  <2> HIDE DEF f
  <2> QED  BY <1>5, <2>1, <2>2
<1>8. /\ t \in Seq(Octets) /\ Len(t) = Block - size
      /\ \A i \in 1..(Block - size) : t[i] = IF i <= 1 THEN OneBit ELSE z[i - 1]
  <2> DEFINE o == <<OneBit>>
  <2>1. o \in Seq(Octets) /\ Len(o) = 1 /\ o[1] = OneBit
    BY <1>3
  <2> HIDE DEF o
  <2>2. /\ o \o z \in Seq(Octets) /\ Len(o \o z) = 1 + Len(z)
        /\ \A i \in 1..(1 + Len(z)) : (o \o z)[i] = IF i <= 1 THEN o[i] ELSE z[i - 1]
    <3>1. /\ o \o z \in Seq(Octets) /\ Len(o \o z) = Len(o) + Len(z)
          /\ \A i \in 1..(Len(o) + Len(z)) : (o \o z)[i] = IF i <= Len(o) THEN o[i] ELSE z[i - Len(o)]
      BY <1>4, <2>1, ConcatProperties
    <3> DEFINE v == o \o z
    <3> HIDE DEF v
    <3>2. /\ v \in Seq(Octets) /\ Len(v) = 1 + Len(z)
          /\ \A i \in 1..(1 + Len(z)) : v[i] = IF i <= 1 THEN o[i] ELSE z[i - 1]
      BY <2>1, <3>1 DEF v
    <3> QED  BY <3>2 DEF v
  <2>3. 1 + Len(z) = Block - size
    BY <1>1, <1>4, BlockType
  <2> DEFINE v == o \o z
  <2>4. t = v
    BY DEF o
  <2> HIDE DEF v, t
  <2>5. ASSUME NEW i \in 1..(Block - size) PROVE v[i] = IF i <= 1 THEN OneBit ELSE z[i - 1]
    <3>1. v[i] = IF i <= 1 THEN o[i] ELSE z[i - 1]
      BY <2>2, <2>3 DEF v
    <3>2. i <= 1 => i = 1
      BY <1>1, BlockType
    <3> QED  BY <2>1, <3>1, <3>2
  <2>6. v \in Seq(Octets) /\ Len(v) = Block - size
    BY <2>2, <2>3 DEF v
  <2> QED  BY <2>4, <2>5, <2>6
<1> HIDE DEF t, f
<1>9. /\ p \in Seq(Octets) /\ Len(p) = Block
      /\ \A i \in 1..size : p[i] = buf[i]
      /\ \A i \in 1..Len(t) : p[size + i] = t[i]
  <2>1. size + Len(t) <= Len(buf)
    BY <1>1, <1>8, BlockType
  <2> QED  BY <1>1, <1>8, <2>1, PutType
<1> HIDE DEF p
<1>10. ASSUME NEW i \in 1..Block PROVE p[i] = f[i]
  <2>1. CASE i <= size
    <3>1. i \in 1..size /\ i <= size + 1
      BY <2>1, <1>1
    <3>2. p[i] = M[n * Block + i - 1]
      BY <3>1, <1>9 DEF Begins
    <3>3. f[i] = e[i]
      BY <3>1, <1>5, <1>7
    <3> QED  BY <3>1, <3>2, <3>3, <1>2
  <2>2. CASE i = size + 1
    <3>1. 1 \in 1..Len(t) /\ 1 \in 1..(Block - size)
      BY <1>1, <1>8, BlockType
    <3>2. p[i] = t[1] /\ t[1] = OneBit
      BY <2>2, <3>1, <1>8, <1>9
    <3>3. f[i] = OneBit
      BY <2>2, <1>1, <1>5, <1>7
    <3> QED  BY <3>2, <3>3
  <2>3. CASE i > size + 1
    <3>1. /\ i - size \in 1..(Block - size) /\ ~(i - size <= 1) /\ size + (i - size) = i
          /\ (i - size) - 1 = i - (size + 1) /\ ~(i <= size + 1)
      BY <2>3, <1>1, BlockType
    <3> DEFINE j == i - size
    <3>2. j \in 1..(Block - size) /\ ~(j <= 1) /\ size + j = i /\ j - 1 = i - (size + 1)
      BY <3>1
    <3> HIDE DEF j
    <3>3. p[i] = t[j] /\ t[j] = z[j - 1]
      BY <3>2, <1>8, <1>9
    <3>4. f[i] = z[i - (size + 1)]
      BY <3>1, <1>7
    <3> QED  BY <3>2, <3>3, <3>4
  <2> QED  BY <1>1, <2>1, <2>2, <2>3
<1>11. p = f
  BY <1>7, <1>9, <1>10, SeqEqual
<1> QED  BY <1>6, <1>11 DEF p, t, a, e, z

\* atcab_aes_cmac_finish: the last block of a CMAC is the text's, full or
\* filled up, and never empty unless the text is.
LEMMA CmacEnds ==
    ASSUME NEW M \in Messages, NEW x, NEW given, NEW n, Holding("cmac", M, x, given, n)
    PROVE  LET s == Cut(M, 0, given)
               split == IF given = 0 THEN 0 ELSE Whole(given - 1)
               end == Drop(s, split)
           IN  /\ Blocks(Take(s, split)) = Pieces(M, 0, n)
               /\ CmacLast(x) = IF Len(end) = Block THEN Append(end, Byte("subkey", 1))
                                ELSE Append(Filled(Append(end, OneBit)), Byte("subkey", 2))
<1> DEFINE s == Cut(M, 0, given)
           split == IF given = 0 THEN 0 ELSE Whole(given - 1)
           end == Cut(M, n * Block, x.size)
<1>1. /\ n \in Nat /\ x.size \in 0..Block /\ x.size \in Nat /\ given = n * Block + x.size
      /\ x.buf \in Seq(Octets) /\ Len(x.buf) = Block /\ Begins(M, x.buf, x.size, n)
      /\ (x.size = 0 => n = 0)
  BY BlockType DEF Holding, Buffered, Ccm, Gcm
<1>2. split = n * Block
  <2> DEFINE z == n * Block
  <2>1. z \in Nat /\ (n = 0 => z = 0)
    BY <1>1, BlockType
  <2>2. CASE x.size = 0
    <3>1. given = 0 /\ z = 0
      BY <1>1, <2>1, <2>2
    <3> QED  BY <3>1
  <2>3. CASE x.size # 0
    <3> DEFINE r == x.size - 1
    <3>1. r \in 0..(Block - 1) /\ given - 1 = n * Block + r /\ given # 0
      BY <1>1, <2>1, <2>3, BlockType
    <3>2. (n * Block + r) % Block = r
      BY <1>1, <3>1, Quotient
    <3> HIDE DEF r, z
    <3>3. (z + r) - r = z
      BY <2>1, <3>1, BlockType
    <3>4. Whole(given - 1) = n * Block
      BY <3>1, <3>2, <3>3 DEF Whole, z
    <3> QED  BY <3>1, <3>4
  <2> QED  BY <2>2, <2>3
<1>3. /\ s = Cut(M, 0, n * Block) \o end
      /\ Blocks(Cut(M, 0, n * Block)) = Pieces(M, 0, n)
      /\ Take(s, n * Block) = Cut(M, 0, n * Block)
      /\ Drop(s, n * Block) = end
      /\ end \in Seq(Octets) /\ Len(end) = x.size
  <2>1. Splits(M, n, x.size, given)
    BY <1>1, TextSplits
  <2> QED  BY <2>1 DEF Splits
<1>4. Take(x.buf, x.size) = end
  BY <1>1, RestOfBuffer
<1>5. CASE x.size = Block
  <2>1. x.buf = end
    BY <1>1, <1>4, <1>5, SubSeqFull DEF Take
  <2>2. CmacLast(x) = Append(end, Byte("subkey", 1))
    BY <1>5, <2>1 DEF CmacLast
  <2> QED  BY <1>2, <1>3, <1>5, <2>2
<1>6. CASE x.size # Block
  <2>1. x.size \in 0..(Block - 1)
    BY <1>1, <1>6, BlockType
  <2>2. Put(x.buf, x.size, <<OneBit>> \o Zeros(Block - x.size - 1)) = Filled(Append(end, OneBit))
    BY <1>1, <2>1, CmacFills
  <2>3. CmacLast(x) = Append(Filled(Append(end, OneBit)), Byte("subkey", 2))
    BY <1>6, <2>2 DEF CmacLast
  <2> QED  BY <1>2, <1>3, <1>6, <2>3
<1> QED  BY <1>5, <1>6

\* The bytes of the first n blocks of the text, and those behind them
LEMMA JoinedIsText ==
    ASSUME NEW M \in Messages, NEW n \in Nat, NEW size \in 0..Block
    PROVE  Joined(Pieces(M, 0, n), Cut(M, n * Block, size)) = Cut(M, 0, n * Block + size)
<1> DEFINE k == n * Block
           chain == Pieces(M, 0, n)
           rest == Cut(M, k, size)
<1>1. k \in Nat /\ size \in Nat
  BY BlockType
<1>2. Len(chain) = n /\ \A i \in 1..n : chain[i] = Piece(M, i - 1)
  <2>1. 0 \in Nat
    OBVIOUS
  <2>2. Len(chain) = n /\ \A i \in 1..n : chain[i] = Piece(M, 0 + i - 1)
    BY <2>1, PiecesType
  <2> QED  BY <2>2
<1> HIDE DEF chain
<1>3. Len(rest) = size /\ \A i \in 1..size : rest[i] = M[k + i - 1]
  <2> HIDE DEF k
  <2> QED  BY <1>1, CutType
<1>4. ASSUME NEW i \in 1..(k + size), i <= k
      PROVE  chain[((i - 1) \div Block) + 1][((i - 1) % Block) + 1] = M[0 + i - 1]
  <2> DEFINE q == (i - 1) \div Block
             r == (i - 1) % Block
             p == q * Block
  <2>1. i - 1 \in Nat
    OBVIOUS
  <2>2. q \in Nat /\ r \in 0..(Block - 1) /\ i - 1 = p + r
    BY <2>1, Divides
  <2>3. p \in Nat
    BY <2>2, BlockType
  <2>4. q + 1 \in 1..n
    <3>1. CASE n <= q
      <4>1. k <= p
        BY <2>2, <3>1, Grows
      <4> HIDE DEF q, r, p, k
      <4> QED  BY <1>1, <1>4, <2>2, <2>3, <4>1, BlockType
    <3> HIDE DEF q
    <3> QED  BY <2>2, <3>1
  <2>5. chain[q + 1] = Piece(M, q)
    <3>1. (q + 1) - 1 = q
      BY <2>2
    <3> HIDE DEF q
    <3> QED  BY <1>2, <2>4, <3>1
  <2>6. Piece(M, q)[r + 1] = M[p + (r + 1) - 1]
    <3>1. Piece(M, q) = Cut(M, p, Block)
      BY DEF Piece
    <3> HIDE DEF q, r, p
    <3>2. r + 1 \in 1..Block
      BY <2>2, BlockType
    <3>3. p \in Nat /\ Block \in Nat
      BY <2>3, BlockType
    <3>4. \A h \in 1..Block : Cut(M, p, Block)[h] = M[p + h - 1]
      BY <3>3, CutType
    <3> QED  BY <3>1, <3>2, <3>4
  <2>7. p + (r + 1) - 1 = 0 + i - 1
    <3> HIDE DEF q, r, p
    <3> QED  BY <2>2, <2>3, BlockType
  <2> QED  BY <2>5, <2>6, <2>7
<1>5. ASSUME NEW i \in 1..(k + size), ~(i <= k)
      PROVE  rest[i - k] = M[0 + i - 1]
  <2> HIDE DEF rest
  <2>1. i - k \in 1..size /\ k + (i - k) - 1 = 0 + i - 1
    <3> HIDE DEF k
    <3> QED  BY <1>1, <1>5
  <2>2. rest[i - k] = M[k + (i - k) - 1]
    <3> HIDE DEF k
    <3> QED  BY <1>3, <2>1
  <2> QED  BY <2>1, <2>2
<1> HIDE DEF rest
<1>6. Joined(chain, rest) = [i \in 1..(k + size) |->
            IF i <= k THEN chain[((i - 1) \div Block) + 1][((i - 1) % Block) + 1] ELSE rest[i - k]]
  BY <1>2, <1>3 DEF Joined
<1>7. Joined(chain, rest) = [i \in 1..(k + size) |-> M[0 + i - 1]]
  BY <1>4, <1>5, <1>6
<1>8. Joined(chain, rest) = Cut(M, 0, k + size)
  BY <1>7 DEF Cut
<1> QED  BY <1>8 DEF chain, rest

-----------------------------------------------------------------------------
(* The passes of CBC *)

\* A buffer that is full holds a block.
LEMMA FullBuffer ==
    ASSUME NEW M \in Messages, NEW n \in Nat, NEW buf \in Seq(Octets), Len(buf) = Block,
           Begins(M, buf, Block, n)
    PROVE  buf = Piece(M, n)
<1>1. Block \in 0..Block
  BY BlockType
<1>2. Take(buf, Block) = Cut(M, n * Block, Block)
  BY <1>1, RestOfBuffer
<1>3. Take(buf, Block) = buf
  BY SubSeqFull DEF Take
<1> QED  BY <1>2, <1>3 DEF Piece

\* One more piece
LEMMA NextPiece ==
    ASSUME NEW M \in Messages, NEW n \in Nat, NEW k \in Nat
    PROVE  Append(Pieces(M, n, k), Piece(M, n + k)) = Pieces(M, n, k + 1)
<1> DEFINE s == Pieces(M, n, k)
           u == Pieces(M, n, k + 1)
           b == Piece(M, n + k)
           v == Append(s, b)
<1>1. s \in Seq(Seq(Octets)) /\ Len(s) = k /\ \A i \in 1..k : s[i] = Piece(M, n + i - 1)
  BY PiecesType
<1>2. /\ u \in Seq(Seq(Octets)) /\ Len(u) = k + 1
      /\ \A i \in 1..(k + 1) : u[i] = Piece(M, n + i - 1)
  <2>1. k + 1 \in Nat
    OBVIOUS
  <2> QED  BY <2>1, PiecesType
<1>3. b = u[k + 1] /\ b \in Seq(Octets)
  <2>1. k + 1 \in 1..(k + 1) /\ n + (k + 1) - 1 = n + k
    OBVIOUS
  <2>2. u[k + 1] = Piece(M, n + (k + 1) - 1)
    BY <1>2, <2>1
  <2>3. u[k + 1] \in Seq(Octets)
    BY <1>2, <2>1, ElementOfSeq
  <2> QED  BY <2>1, <2>2, <2>3
<1> HIDE DEF s, u, b
<1>4. /\ v \in Seq(Seq(Octets)) /\ Len(v) = k + 1 /\ v[k + 1] = b
      /\ \A i \in 1..k : v[i] = s[i]
  BY <1>1, <1>3, AppendProperties
<1> HIDE DEF v
<1>5. ASSUME NEW i \in 1..(k + 1) PROVE v[i] = u[i]
  BY <1>1, <1>2, <1>3, <1>4
<1>6. v = u
  BY <1>2, <1>4, <1>5, SeqEqual
<1> QED  BY <1>6 DEF v, s, u, b

\* Where a pass has come to in a message of e bytes: k blocks from the n-th on
\* are processed, the buffer begins with the next, and the data is the rest.
PassShape(p) == p = [buf |-> p.buf, size |-> p.size, data |-> p.data, blocks |-> p.blocks]
CutAt(M, p, n, k, e) ==
    /\ PassShape(p) /\ p.size \in 0..Block /\ p.buf \in Seq(Octets) /\ Len(p.buf) = Block
    /\ Begins(M, p.buf, p.size, n + k)
    /\ p.blocks = Pieces(M, n, k)
    /\ \E l \in Nat : /\ (n + k) * Block + p.size + l = e
                      /\ p.data = Cut(M, (n + k) * Block + p.size, l)

\* A full buffer is processed.
LEMMA PassFlushes ==
    ASSUME NEW M \in Messages, NEW n \in Nat, NEW k \in Nat, NEW e \in Nat, NEW p,
           CutAt(M, p, n, k, e), p.size = Block,
           NEW o, PassShape(o), o.buf = p.buf, o.size = 0, o.data = p.data,
           o.blocks = Append(p.blocks, p.buf)
    PROVE  CutAt(M, o, n, k + 1, e)
<1> DEFINE z == (n + k) * Block
<1>1. /\ PassShape(p)
      /\ p.buf \in Seq(Octets) /\ Len(p.buf) = Block
      /\ Begins(M, p.buf, Block, n + k) /\ p.blocks = Pieces(M, n, k)
  BY DEF CutAt
<1>2. PICK l \in Nat : z + Block + l = e /\ p.data = Cut(M, z + Block, l)
  BY DEF CutAt
<1>3. /\ PassShape(o)
      /\ o.buf = p.buf /\ o.size = 0 /\ o.data = p.data /\ o.blocks = Append(p.blocks, p.buf)
  BY <1>1
<1>4. p.buf = Piece(M, n + k)
  BY <1>1, FullBuffer, n + k \in Nat
<1>5. o.blocks = Pieces(M, n, k + 1)
  BY <1>1, <1>3, <1>4, NextPiece
<1>6. (n + (k + 1)) * Block + 0 = z + Block /\ 0 \in 0..Block
  BY BlockType
<1>7. Begins(M, o.buf, 0, n + (k + 1))
  BY DEF Begins
<1> HIDE DEF z
<1> QED  BY <1>1, <1>2, <1>3, <1>5, <1>6, <1>7 DEF CutAt

\* A block of the data is processed.
LEMMA PassTakes ==
    ASSUME NEW M \in Messages, NEW n \in Nat, NEW k \in Nat, NEW e \in Nat, NEW p,
           CutAt(M, p, n, k, e), p.size = 0, Len(p.data) >= Block,
           NEW o, PassShape(o), o.buf = p.buf, o.size = 0, o.data = Drop(p.data, Block),
           o.blocks = Append(p.blocks, Take(p.data, Block))
    PROVE  CutAt(M, o, n, k + 1, e) /\ Len(o.data) = Len(p.data) - Block
<1> DEFINE z == (n + k) * Block
<1>1. /\ PassShape(p)
      /\ p.buf \in Seq(Octets) /\ Len(p.buf) = Block /\ p.blocks = Pieces(M, n, k)
  BY DEF CutAt
<1>2. PICK l \in Nat : z + l = e /\ p.data = Cut(M, z, l)
  <2>1. PICK l \in Nat : z + 0 + l = e /\ p.data = Cut(M, z + 0, l)
    BY DEF CutAt
  <2>2. z \in Nat /\ z + 0 = z
    BY BlockType
  <2> QED  BY <2>1, <2>2
<1>3. /\ PassShape(o)
      /\ o.buf = p.buf /\ o.size = 0 /\ o.data = Drop(p.data, Block)
      /\ o.blocks = Append(p.blocks, Take(p.data, Block))
  BY <1>1
<1>4. z \in Nat /\ n + k \in Nat
  BY BlockType
<1>5. (n + (k + 1)) * Block + 0 = z + Block /\ 0 \in 0..Block
  BY BlockType
<1>6. Begins(M, o.buf, 0, n + (k + 1))
  BY DEF Begins
<1>7. Piece(M, n + k) = Cut(M, z, Block)
  BY DEF Piece
<1> HIDE DEF z
<1>8. Len(p.data) = l /\ Block \in 0..l
  BY <1>2, <1>4, CutType, BlockType
<1>9. Take(p.data, Block) = Cut(M, z, Block) /\ Drop(p.data, Block) = Cut(M, z + Block, l - Block)
  <2>1. Take(Cut(M, z, l), Block) = Cut(M, z, Block)
    BY <1>4, <1>8, TakeOfCut
  <2>2. Drop(Cut(M, z, l), Block) = Cut(M, z + Block, l - Block)
    BY <1>4, <1>8, DropOfCut
  <2> QED  BY <1>2, <2>1, <2>2
<1>10. o.blocks = Pieces(M, n, k + 1)
  BY <1>1, <1>3, <1>7, <1>9, NextPiece
<1> DEFINE i == l - Block
<1>11. i \in Nat /\ z + Block + i = e /\ o.data = Cut(M, z + Block, i)
  BY <1>2, <1>3, <1>4, <1>8, <1>9, BlockType
<1>12. Len(o.data) = i
  <2> DEFINE y == z + Block
  <2>1. y \in Nat /\ o.data = Cut(M, y, i)
    BY <1>4, <1>11, BlockType
  <2> HIDE DEF y, i
  <2> QED  BY <1>11, <2>1, CutType
<1>13. i = Len(p.data) - Block
  BY <1>8
<1> HIDE DEF i
<1>14. CutAt(M, o, n, k + 1, e)
  BY <1>1, <1>3, <1>5, <1>6, <1>10, <1>11 DEF CutAt
<1> QED  BY <1>3, <1>12, <1>13, <1>14
\* A buffer that has room for a part of a message
LEMMA GathersCut ==
    ASSUME NEW M \in Messages, NEW n \in Nat, NEW size \in 0..Block, NEW given,
           given = n * Block + size, NEW m \in Nat, size + m <= Block,
           NEW buf \in Seq(Octets), Len(buf) = Block, Begins(M, buf, size, n)
    PROVE  LET b == Put(buf, size, Cut(M, given, m))
           IN  b \in Seq(Octets) /\ Len(b) = Block /\ Begins(M, b, size + m, n)
<1> DEFINE s == Cut(M, given, m)
<1>1. given \in Nat /\ size \in Nat
  BY BlockType
<1>2. s \in Seq(Octets) /\ Len(s) = m
  BY <1>1, CutType
<1>3. LET b == Put(buf, size, Take(s, Smaller(Len(s), Block - size)))
      IN  b \in Seq(Octets) /\ Len(b) = Block /\ Begins(M, b, size + m, n)
  BY Gathers
<1>4. Smaller(Len(s), Block - size) = m
  BY <1>1, <1>2, BlockType DEF Smaller
<1>5. Take(s, m) = s
  BY <1>2, SubSeqFull DEF Take
<1> HIDE DEF s
<1>6. Take(s, Smaller(Len(s), Block - size)) = s
  BY <1>4, <1>5
<1> QED  BY <1>3, <1>6 DEF s

\* The data first fills up a buffer that is not empty.
LEMMA PassTops ==
    ASSUME NEW M \in Messages, NEW n \in Nat, NEW k \in Nat, NEW e \in Nat, NEW p,
           CutAt(M, p, n, k, e),
           NEW c, c = IF p.size = 0 THEN 0 ELSE Smaller(Len(p.data), Block - p.size),
           NEW o, PassShape(o), o.buf = Put(p.buf, p.size, Take(p.data, c)), o.size = p.size + c,
           o.data = Drop(p.data, c), o.blocks = p.blocks
    PROVE  /\ CutAt(M, o, n, k, e) /\ Len(p.data) \in Nat /\ c \in 0..Len(p.data)
           /\ o.size = p.size + c /\ Len(o.data) = Len(p.data) - c
           /\ Len(o.data) # 0 => o.size \in {0, Block}
<1> DEFINE b == Put(p.buf, p.size, Take(p.data, c))
           z == (n + k) * Block
           y == z + p.size
<1>1. /\ PassShape(p)
      /\ p.size \in 0..Block /\ p.buf \in Seq(Octets) /\ Len(p.buf) = Block
      /\ Begins(M, p.buf, p.size, n + k) /\ p.blocks = Pieces(M, n, k)
  BY DEF CutAt
<1>2. PICK l \in Nat : y + l = e /\ p.data = Cut(M, y, l)
  BY DEF CutAt
<1>3. z \in Nat /\ y \in Nat /\ n + k \in Nat /\ p.size \in Nat
  BY <1>1, BlockType
<1>4. Len(p.data) = l
  <2> HIDE DEF y
  <2>1. Len(Cut(M, y, l)) = l
    BY <1>3, CutType
  <2> QED  BY <1>2, <2>1
<1>5. /\ c \in 0..l /\ c \in Nat /\ p.size + c <= Block
      /\ (l - c # 0 => p.size + c \in {0, Block})
  <2> DEFINE w == p.size
  <2>1. w \in Nat /\ w <= Block /\ c = IF w = 0 THEN 0 ELSE IF l < Block - w THEN l ELSE Block - w
    BY <1>1, <1>3, <1>4, BlockType DEF Smaller
  <2> HIDE DEF w
  <2>2. /\ c \in 0..l /\ c \in Nat /\ w + c <= Block
        /\ (l - c # 0 => w + c \in {0, Block})
    BY <2>1, BlockType
  <2> QED  BY <2>2 DEF w
<1>6. Take(p.data, c) = Cut(M, y, c) /\ Drop(p.data, c) = Cut(M, y + c, l - c)
  <2> HIDE DEF y
  <2>1. Take(Cut(M, y, l), c) = Cut(M, y, c)
    BY <1>3, <1>5, TakeOfCut
  <2>2. Drop(Cut(M, y, l), c) = Cut(M, y + c, l - c)
    <3>1. y \in Nat /\ l \in Nat /\ c \in 0..l
      BY <1>3, <1>5
    <3> QED  BY ONLY M \in Messages, <3>1, DropOfCut
  <2> QED  BY <1>2, <2>1, <2>2
<1>7. /\ PassShape(o)
      /\ o.buf = b /\ o.size = p.size + c /\ o.data = Drop(p.data, c)
      /\ o.blocks = p.blocks
  BY <1>1
<1>8. b \in Seq(Octets) /\ Len(b) = Block /\ Begins(M, b, p.size + c, n + k)
  <2> DEFINE w == p.size
             q == n + k
  <2>1. /\ w \in 0..Block /\ q \in Nat /\ w + c <= Block /\ y = q * Block + w
        /\ Begins(M, p.buf, w, q)
    BY <1>1, <1>3, <1>5
  <2> HIDE DEF w, q, y
  <2>2. LET d == Put(p.buf, w, Cut(M, y, c))
        IN  d \in Seq(Octets) /\ Len(d) = Block /\ Begins(M, d, w + c, q)
    BY <1>1, <1>5, <2>1, GathersCut
  <2> QED  BY <1>6, <2>2 DEF w, q
<1> DEFINE i == l - c
<1>9. i \in Nat /\ z + (p.size + c) + i = e /\ o.data = Cut(M, z + (p.size + c), i)
  <2>1. y + c = z + (p.size + c) /\ i \in Nat
    <3> HIDE DEF z
    <3> QED  BY <1>3, <1>5
  <2>2. y + l = e /\ y \in Nat /\ c \in Nat
    BY <1>2, <1>3, <1>5
  <2>3. (y + c) + i = y + l
    <3> HIDE DEF y
    <3> QED  BY <2>2
  <2>4. o.data = Cut(M, y + c, i)
    BY <1>6, <1>7
  <2> HIDE DEF y, z, i
  <2> QED  BY <2>1, <2>2, <2>3, <2>4
<1>10. Len(o.data) = i
  <2> DEFINE g == z + (p.size + c)
  <2>1. g \in Nat /\ o.data = Cut(M, g, i)
    BY <1>3, <1>5, <1>9
  <2> HIDE DEF g, i
  <2>2. Len(Cut(M, g, i)) = i
    BY <1>9, <2>1, CutType
  <2> QED  BY <2>1, <2>2
<1> HIDE DEF i, z, b
<1>11. CutAt(M, o, n, k, e)
  <2>1. p.size + c \in 0..Block
    BY <1>3, <1>5
  <2> QED  BY <1>1, <1>7, <1>8, <1>9, <2>1 DEF CutAt, z
<1> QED  BY <1>4, <1>5, <1>7, <1>10, <1>11 DEF i

\* The rest of the data, no more than a block, is kept.
LEMMA PassKeeps ==
    ASSUME NEW M \in Messages, NEW n \in Nat, NEW k \in Nat, NEW e \in Nat, NEW p,
           CutAt(M, p, n, k, e), p.size = 0, Len(p.data) <= Block,
           NEW o, PassShape(o), o.buf = Put(p.buf, 0, p.data), o.size = Len(p.data), o.data = <<>>,
           o.blocks = p.blocks
    PROVE  CutAt(M, o, n, k, e)
<1> DEFINE z == (n + k) * Block
<1>1. /\ PassShape(p)
      /\ p.buf \in Seq(Octets) /\ Len(p.buf) = Block
      /\ Begins(M, p.buf, 0, n + k) /\ p.blocks = Pieces(M, n, k)
  BY DEF CutAt
<1>2. z \in Nat /\ n + k \in Nat /\ z + 0 = z
  BY BlockType
<1>3. PICK l \in Nat : z + l = e /\ p.data = Cut(M, z, l)
  <2>1. PICK l \in Nat : z + 0 + l = e /\ p.data = Cut(M, z + 0, l)
    BY DEF CutAt
  <2> QED  BY <1>2, <2>1
<1>4. Len(p.data) = l
  <2> HIDE DEF z
  <2>1. Len(Cut(M, z, l)) = l
    BY <1>2, CutType
  <2> QED  BY <1>3, <2>1
<1>5. /\ PassShape(o)
      /\ o.buf = Put(p.buf, 0, p.data) /\ o.size = l /\ o.data = <<>> /\ o.blocks = p.blocks
  BY <1>1, <1>4
<1>6. o.buf \in Seq(Octets) /\ Len(o.buf) = Block /\ Begins(M, o.buf, l, n + k)
  <2> DEFINE w == 0
             q == n + k
  <2>1. /\ w \in 0..Block /\ q \in Nat /\ w + l <= Block /\ z = q * Block + w /\ w + l = l
        /\ Begins(M, p.buf, w, q)
    BY <1>1, <1>2, <1>4, BlockType
  <2> HIDE DEF w, q, z
  <2>2. LET d == Put(p.buf, w, Cut(M, z, l))
        IN  d \in Seq(Octets) /\ Len(d) = Block /\ Begins(M, d, w + l, q)
    BY <1>1, <2>1, GathersCut
  <2> QED  BY <1>3, <1>5, <2>1, <2>2 DEF w, q
<1>7. <<>> = Cut(M, z + l, 0) /\ z + l + 0 = e
  BY <1>2, <1>3 DEF Cut
<1>8. l \in 0..Block
  BY <1>4
<1> HIDE DEF z
<1>9. CutAt(M, o, n, k, e)
  BY <1>1, <1>5, <1>6, <1>7, <1>8, 0 \in Nat DEF CutAt, z
<1> QED  BY <1>4, <1>5, <1>9

\* The data of a pass is empty when it has no bytes.
LEMMA PassData ==
    ASSUME NEW M \in Messages, NEW n \in Nat, NEW k \in Nat, NEW e \in Nat, NEW p,
           CutAt(M, p, n, k, e)
    PROVE  /\ Len(p.data) \in Nat /\ (p.data = <<>> <=> Len(p.data) = 0)
           /\ (n + k) * Block + p.size + Len(p.data) = e
<1> DEFINE y == (n + k) * Block + p.size
<1>1. PICK l \in Nat : y + l = e /\ p.data = Cut(M, y, l)
  BY DEF CutAt
<1>2. y \in Nat
  <2>1. p.size \in Nat /\ (n + k) * Block \in Nat
    BY BlockType DEF CutAt
  <2> QED  BY <2>1
<1> HIDE DEF y
<1>3. Cut(M, y, l) \in Seq(Octets) /\ Len(Cut(M, y, l)) = l
  BY <1>2, CutType
<1>4. Cut(M, y, l) = <<>> <=> Len(Cut(M, y, l)) = 0
  BY <1>3, EmptySeq
<1> QED  BY <1>1, <1>3, <1>4 DEF y

\* Between two passes: a block to encrypt is never held, and the last block to
\* decrypt and unpad is.
Sound(kind, p, n) ==
    /\ kind \in {"cbc", "cbc_pad"} => p.size < Block
    /\ kind = "dec_pad" /\ p.size = 0 /\ Len(p.data) = 0 => n = 0

\* One pass of CBC, from one place of the message to a later one
LEMMA PassHolds ==
    ASSUME NEW kind \in Cbc, NEW M \in Messages, NEW n \in Nat, NEW k \in Nat, NEW e \in Nat, NEW p,
           CutAt(M, p, n, k, e), Sound(kind, p, n + k)
    PROVE  \E i \in Nat :
              LET o == CbcPass(kind, p)
              IN  /\ CutAt(M, o, n, i, e) /\ Sound(kind, o, n + i)
                  /\ Len(o.data) # 0 => o.size = 0 /\ Len(o.data) <= Len(p.data) - Block
<1> DEFINE c == IF p.size = 0 THEN 0 ELSE Smaller(Len(p.data), Block - p.size)
           topped == [p EXCEPT !.buf = Put(p.buf, p.size, Take(p.data, c)),
                               !.size = @ + c, !.data = Drop(@, c)]
           flushes == topped.size = Block /\ (kind \in {"cbc", "cbc_pad"} \/ topped.data # <<>>)
           flushed == IF flushes
                      THEN [topped EXCEPT !.blocks = Append(@, topped.buf), !.size = 0]
                      ELSE topped
           rest == Len(flushed.data)
           direct == rest > Block \/ (rest = Block /\ kind # "dec_pad")
           done == IF direct
                   THEN [flushed EXCEPT !.blocks = Append(@, Take(flushed.data, Block)),
                                        !.data = Drop(@, Block)]
                   ELSE flushed
           left == Len(done.data)
           o == IF left > 0 /\ (left < Block \/ (left = Block /\ kind = "dec_pad"))
                THEN [done EXCEPT !.buf = Put(@, 0, done.data), !.size = left, !.data = <<>>]
                ELSE done
<1>0. CbcPass(kind, p) = o
  BY DEF CbcPass
<1>1. /\ CutAt(M, topped, n, k, e) /\ c \in 0..Len(p.data) /\ Len(p.data) \in Nat
      /\ topped.size = p.size + c /\ Len(topped.data) = Len(p.data) - c
      /\ Len(topped.data) # 0 => topped.size \in {0, Block}
  <2>1. c = IF p.size = 0 THEN 0 ELSE Smaller(Len(p.data), Block - p.size)
    OBVIOUS
  <2>2. topped = [p EXCEPT !.buf = Put(p.buf, p.size, Take(p.data, c)),
                           !.size = @ + c, !.data = Drop(@, c)]
    OBVIOUS
  <2>3. PassShape(p)
    BY DEF CutAt
  <2> HIDE DEF c, topped
  <2>4. /\ PassShape(topped) /\ topped.buf = Put(p.buf, p.size, Take(p.data, c))
        /\ topped.size = p.size + c /\ topped.data = Drop(p.data, c) /\ topped.blocks = p.blocks
    BY <2>2, <2>3 DEF PassShape
  <2> QED  BY <2>1, <2>4, PassTops
<1>2. p.size \in 0..Block /\ topped.size \in 0..Block
  BY <1>1 DEF CutAt
<1>3. Len(topped.data) \in Nat /\ (topped.data = <<>> <=> Len(topped.data) = 0)
  BY <1>1, PassData
<1>4. p.size = 0 => topped.size = 0 /\ Len(topped.data) = Len(p.data)
  <2>1. p.size = 0 => c = 0
    OBVIOUS
  <2> HIDE DEF c, topped
  <2> QED  BY <1>1, <2>1
<1> HIDE DEF topped, c
<1>5. PICK j \in Nat :
         /\ CutAt(M, flushed, n, j, e) /\ Len(flushed.data) = Len(topped.data)
         /\ Len(flushed.data) # 0 => flushed.size = 0
         /\ kind \in {"cbc", "cbc_pad"} => flushed.size < Block
         /\ Len(flushed.data) = 0 /\ kind = "dec_pad" => flushed.size = topped.size /\ j = k
  <2>1. CASE flushes
    <3>1. flushed = [topped EXCEPT !.blocks = Append(@, topped.buf), !.size = 0] /\ topped.size = Block
      BY <2>1
    <3> HIDE DEF flushed
    <3>2. PassShape(topped)
      BY <1>1 DEF CutAt
    <3>3. /\ PassShape(flushed) /\ flushed.buf = topped.buf /\ flushed.size = 0
          /\ flushed.data = topped.data /\ flushed.blocks = Append(topped.blocks, topped.buf)
      BY <3>1, <3>2 DEF PassShape
    <3>4. CutAt(M, flushed, n, k + 1, e)
      BY <1>1, <3>1, <3>3, PassFlushes
    <3>5. kind = "dec_pad" => Len(topped.data) # 0
      BY <2>1, <1>3
    <3> QED  BY <3>3, <3>4, <3>5, BlockType, k + 1 \in Nat
  <2>2. CASE ~flushes
    <3>1. flushed = topped
      BY <2>2
    <3>2. topped.size = Block => Len(topped.data) = 0 /\ kind \notin {"cbc", "cbc_pad"}
      BY <1>3, <2>2
    <3>3. topped.size # Block => topped.size < Block
      BY <1>2, BlockType
    <3> HIDE DEF flushed, flushes
    <3> QED  BY <1>1, <3>1, <3>2, <3>3, BlockType
  <2> QED  BY <2>1, <2>2
<1>6. rest \in Nat /\ flushed.size \in 0..Block
  BY <1>5, PassData DEF CutAt
<1>7. PassShape(flushed)
  BY <1>5 DEF CutAt
<1> HIDE DEF flushed, flushes
<1>8. PICK i \in Nat :
         /\ CutAt(M, done, n, i, e) /\ Len(done.data) = IF direct THEN rest - Block ELSE rest
         /\ rest # 0 => done.size = 0
         /\ rest = 0 => done = flushed /\ i = j
  <2>1. CASE direct
    <3>1. /\ done = [flushed EXCEPT !.blocks = Append(@, Take(flushed.data, Block)), !.data = Drop(@, Block)]
          /\ rest >= Block /\ rest # 0 /\ flushed.size = 0
      BY <1>5, <1>6, <2>1, BlockType
    <3>2. CutAt(M, done, n, j + 1, e) /\ Len(done.data) = rest - Block /\ done.size = 0
      <4> HIDE DEF done
      <4>1. /\ PassShape(done) /\ done.buf = flushed.buf /\ done.size = 0
            /\ done.data = Drop(flushed.data, Block)
            /\ done.blocks = Append(flushed.blocks, Take(flushed.data, Block))
        BY <1>7, <3>1 DEF PassShape
      <4>2. CutAt(M, flushed, n, j, e) /\ flushed.size = 0 /\ Len(flushed.data) >= Block
        BY <1>5, <3>1
      <4>3. CutAt(M, done, n, j + 1, e) /\ Len(done.data) = Len(flushed.data) - Block
        BY <4>1, <4>2, PassTakes
      <4> QED  BY <4>1, <4>3
    <3> QED  BY <2>1, <3>1, <3>2, j + 1 \in Nat
  <2>2. CASE ~direct
    <3>1. done = flushed
      BY <2>2
    <3> QED  BY <1>5, <2>2, <3>1
  <2> QED  BY <2>1, <2>2
<1>9. left \in Nat
  BY <1>8, PassData
<1> HIDE DEF done
<1>10. CASE left > 0 /\ (left < Block \/ (left = Block /\ kind = "dec_pad"))
  <2>1. o = [done EXCEPT !.buf = Put(@, 0, done.data), !.size = left, !.data = <<>>]
    BY <1>10
  <2>2. rest # 0 /\ left <= Block
    BY <1>6, <1>8, <1>9, <1>10, BlockType
  <2>3. CutAt(M, o, n, i, e) /\ o.size = left /\ o.data = <<>>
    <3> HIDE DEF o
    <3>1. PassShape(done) /\ done.size = 0
      BY <1>8, <2>2 DEF CutAt
    <3>2. /\ PassShape(o) /\ o.buf = Put(done.buf, 0, done.data) /\ o.size = left
          /\ o.data = <<>> /\ o.blocks = done.blocks
      BY <2>1, <3>1 DEF PassShape
    <3> QED  BY <1>8, <2>2, <3>1, <3>2, PassKeeps
  <2>4. Len(<<>>) = 0
    OBVIOUS
  <2>5. Sound(kind, o, n + i)
    <3> HIDE DEF o
    <3> QED  BY <1>9, <1>10, <2>3, BlockType DEF Sound
  <2> HIDE DEF o
  <2> QED  BY <1>0, <2>3, <2>4, <2>5
<1>11. CASE ~(left > 0 /\ (left < Block \/ (left = Block /\ kind = "dec_pad")))
  <2>1. o = done
    BY <1>11
  <2>2. CASE rest = 0
    <3>1. ~direct /\ left = 0 /\ done = flushed /\ i = j
      BY <1>8, <2>2, BlockType
    <3>2. Len(p.data) = c /\ topped.size = p.size + c
      <4>1. Len(topped.data) = 0
        BY <1>5, <2>2
      <4> HIDE DEF rest
      <4> QED  BY <1>1, <4>1
    <3>3. kind = "dec_pad" /\ done.size = 0 => n + i = 0
      <4> SUFFICES ASSUME kind = "dec_pad", done.size = 0 PROVE n + i = 0
        OBVIOUS
      <4>1. topped.size = 0 /\ i = k
        BY <1>5, <2>2, <3>1
      <4>2. p.size = 0 /\ Len(p.data) = 0
        BY <1>1, <1>2, <3>2, <4>1
      <4> QED  BY <4>1, <4>2 DEF Sound
    <3>4. kind \in {"cbc", "cbc_pad"} => done.size < Block
      BY <1>5, <3>1
    <3>5. Sound(kind, done, n + i)
      BY <3>3, <3>4 DEF Sound
    <3> HIDE DEF o
    <3> QED  BY <1>0, <1>8, <2>1, <3>1, <3>5
  <2>3. CASE rest # 0
    <3>1. direct /\ done.size = 0 /\ left = rest - Block
      BY <1>6, <1>8, <1>11, <2>3, BlockType
    <3>2. kind = "dec_pad" => left # 0
      BY <1>6, <3>1, BlockType
    <3>3. rest <= Len(p.data)
      BY <1>1, <1>5
    <3>4. Sound(kind, done, n + i)
      BY <3>1, <3>2, BlockType DEF Sound
    <3>5. left <= Len(p.data) - Block
      BY <1>1, <1>6, <3>1, <3>3, BlockType
    <3> HIDE DEF o
    <3> QED  BY <1>0, <1>8, <2>1, <3>1, <3>4, <3>5
  <2> QED  BY <2>2, <2>3
<1> QED  BY <1>10, <1>11

(* Induction.  The prover cannot instantiate the library's rule for a        *)
(* predicate; for a set of numbers it follows from their order.              *)

\* The order of the numbers as a relation
LEMMA LessThan == \A m, n : <<m, n>> \in OpToRel(<, Nat) <=> m \in Nat /\ n \in Nat /\ m < n
  BY DEF OpToRel

\* A set of numbers has a least one.
LEMMA Least ==
    ASSUME NEW T \in SUBSET Nat, T # {}
    PROVE  \E m \in T : \A n \in T : m <= n
<1> DEFINE R == OpToRel(<, Nat)
<1>1. IsWellFoundedOn(R, Nat)
  BY NatLessThanWellFounded
<1>2. \A m, n : <<m, n>> \in R <=> m \in Nat /\ n \in Nat /\ m < n
  BY LessThan
<1> HIDE DEF R
<1>3. PICK m \in T : \A n \in T : ~(<<n, m>> \in R)
  BY <1>1, WFMin
<1>4. ASSUME NEW n \in T PROVE m <= n
  <2>1. m \in Nat /\ n \in Nat /\ ~(n < m)
    BY <1>2, <1>3
  <2> QED  BY <2>1
<1> QED  BY <1>4

\* A set that has 0 and with each number the next has them all.
LEMMA Induction ==
    ASSUME NEW T \in SUBSET Nat, 0 \in T, \A n \in T : n + 1 \in T
    PROVE  \A n \in Nat : n \in T
<1> DEFINE U == Nat \ T
<1> SUFFICES ASSUME U # {} PROVE FALSE
  OBVIOUS
<1>1. PICK m \in U : \A n \in U : m <= n
  <2>1. U \in SUBSET Nat
    OBVIOUS
  <2> HIDE DEF U
  <2> QED  BY <2>1, Least
<1>2. m # 0 /\ m \in Nat
  OBVIOUS
<1>3. m - 1 \in Nat /\ m - 1 < m
  BY <1>2
<1>4. m - 1 \in T
  BY <1>1, <1>3
<1>5. m - 1 + 1 = m
  BY <1>2
<1> QED  BY <1>4, <1>5

\* The loop of CBC is a function on the numbers of its passes: CbcUpdate's.
LoopOf(kind, first, q, f) ==
    f = [i \in 0..q |-> IF i = 0 THEN first
                        ELSE IF f[i - 1].data = <<>> THEN f[i - 1]
                        ELSE CbcPass(kind, f[i - 1])]

\* There is such a function.
LEMMA LoopExists ==
    ASSUME NEW kind, NEW first, NEW q \in Nat
    PROVE  \E f : LoopOf(kind, first, q, f)
<1> DEFINE T == {k \in Nat : \E f : LoopOf(kind, first, k, f)}
<1>1. 0 \in T
  <2> DEFINE f == [i \in 0..0 |-> first]
  <2>1. f = [i \in 0..0 |-> IF i = 0 THEN first ELSE IF f[i - 1].data = <<>> THEN f[i - 1]
                            ELSE CbcPass(kind, f[i - 1])]
    <3>1. \A i \in 0..0 : i = 0
      OBVIOUS
    <3> QED  BY <3>1
  <2> HIDE DEF f
  <2>2. LoopOf(kind, first, 0, f)
    BY <2>1 DEF LoopOf
  <2> QED  BY <2>2
<1>2. ASSUME NEW k \in T PROVE k + 1 \in T
  <2>1. PICK f : LoopOf(kind, first, k, f)
    OBVIOUS
  <2> DEFINE Next1(y) == IF y.data = <<>> THEN y ELSE CbcPass(kind, y)
             g == [i \in 0..(k + 1) |-> IF i = k + 1 THEN Next1(f[k]) ELSE f[i]]
  <2>2. f = [i \in 0..k |-> IF i = 0 THEN first ELSE Next1(f[i - 1])]
    BY <2>1 DEF LoopOf
  <2>3. ASSUME NEW i \in 0..(k + 1) PROVE g[i] = IF i = 0 THEN first ELSE Next1(g[i - 1])
    <3> HIDE DEF Next1
    <3>1. CASE i = 0
      <4>1. 0 \in 0..k /\ 0 # k + 1 /\ 0 \in 0..(k + 1)
        OBVIOUS
      <4> QED  BY <2>2, <3>1, <4>1
    <3>2. CASE i = k + 1
      <4>1. i - 1 = k /\ k \in 0..(k + 1) /\ k # k + 1 /\ i # 0
        BY <3>2
      <4>2. g[k] = f[k]
        BY <4>1
      <4> QED  BY <3>2, <4>1, <4>2
    <3>3. CASE i # 0 /\ i # k + 1
      <4>1. i \in 0..k /\ i - 1 \in 0..(k + 1) /\ i - 1 # k + 1
        BY <3>3
      <4>2. g[i] = f[i] /\ g[i - 1] = f[i - 1]
        BY <3>3, <4>1
      <4>3. f[i] = IF i = 0 THEN first ELSE Next1(f[i - 1])
        BY <2>2, <4>1
      <4> HIDE DEF g
      <4> QED  BY <3>3, <4>2, <4>3
    <3> QED  BY <3>1, <3>2, <3>3
  <2>4. g = [i \in 0..(k + 1) |-> g[i]]
    OBVIOUS
  <2> HIDE DEF g, Next1
  <2>5. g = [i \in 0..(k + 1) |-> IF i = 0 THEN first ELSE Next1(g[i - 1])]
    BY <2>3, <2>4
  <2>6. LoopOf(kind, first, k + 1, g)
    BY <2>5 DEF LoopOf, Next1
  <2> QED  BY <2>6
<1>3. T \in SUBSET Nat
  OBVIOUS
<1> HIDE DEF T
<1>4. q \in T
  BY <1>1, <1>2, <1>3, Induction
<1> QED  BY <1>4 DEF T

\* What an update of CBC does is where that function ends.
LEMMA LoopEnds ==
    ASSUME NEW kind, NEW x, Shape(x), NEW s, NEW q, q = Len(s) \div Block, q \in Nat,
           NEW first,
           first = CbcPass(kind, [buf |-> x.buf, size |-> x.size, data |-> s, blocks |-> <<>>]),
           NEW r, r = CbcUpdate(kind, x, s)
    PROVE  \E f : /\ LoopOf(kind, first, q, f) /\ r.blocks = f[q].blocks
                  /\ OnlyBuffer(x, r.after) /\ r.after.buf = f[q].buf /\ r.after.size = f[q].size
<1> DEFINE Eq(f) == LoopOf(kind, first, q, f)
           after == CHOOSE f : Eq(f)
           last == after[q]
<1>1. \E f : Eq(f)
  BY LoopExists
<1>2. Eq(after)
  <2> HIDE DEF Eq
  <2> QED  BY <1>1
<1>3. r = [blocks |-> last.blocks, after |-> [x EXCEPT !.buf = last.buf, !.size = last.size]]
  BY DEF CbcUpdate, LoopOf
<1> HIDE DEF after, last
<1> DEFINE a == [x EXCEPT !.buf = last.buf, !.size = last.size]
<1>4. r.blocks = last.blocks /\ r.after = a
  BY <1>3
<1>5. OnlyBuffer(x, a) /\ a.buf = last.buf /\ a.size = last.size
  <2>1. a = [x EXCEPT !.buf = last.buf, !.size = last.size]
    OBVIOUS
  <2> HIDE DEF a
  <2> QED  BY <2>1 DEF OnlyBuffer, Shape
<1> HIDE DEF a
<1> QED  BY <1>2, <1>4, <1>5 DEF last

\* atcab_aes_cbc_encrypt_update and _decrypt_update: the passes end with all the
\* data taken, the blocks that go on are the next ones of the text, and the rest
\* is held.
LEMMA CbcHolds ==
    ASSUME NEW M \in Messages, NEW kind \in Cbc, NEW x, Shape(x), NEW given, NEW n \in Nat,
           NEW m \in Nat, Holding(kind, M, x, given, n),
           kind = "dec_pad" => m # 0
    PROVE  LET r == CbcUpdate(kind, x, Cut(M, given, m))
           IN  /\ OnlyBuffer(x, r.after)
               /\ \E q \in Nat : r.blocks = Pieces(M, n, q) /\ Holding(kind, M, r.after, given + m, n + q)
<1> DEFINE s == Cut(M, given, m)
           r == CbcUpdate(kind, x, s)
           p == [buf |-> x.buf, size |-> x.size, data |-> s, blocks |-> <<>>]
           first == CbcPass(kind, p)
           e == given + m
           passes == m \div Block
<1>1. /\ x.size \in 0..Block /\ given = n * Block + x.size
      /\ x.buf \in Seq(Octets) /\ Len(x.buf) = Block /\ Begins(M, x.buf, x.size, n)
      /\ kind \in {"cbc", "cbc_pad"} => x.size < Block
  BY DEF Holding
<1>2. given \in Nat /\ n * Block \in Nat /\ e \in Nat
  BY <1>1, BlockType
<1>3. Len(s) = m
  BY <1>2, CutType
<1>4. CutAt(M, p, n, 0, e) /\ Sound(kind, p, n + 0)
  <2>1. n + 0 = n /\ p.size = x.size /\ p.buf = x.buf /\ p.data = s /\ p.blocks = <<>> /\ PassShape(p)
    BY DEF PassShape
  <2>2. Pieces(M, n, 0) = <<>>
    BY DEF Pieces
  <2>3. n * Block + x.size + m = e /\ p.data = Cut(M, n * Block + x.size, m)
    BY <1>1, <2>1
  <2> HIDE DEF p, e
  <2>4. CutAt(M, p, n, 0, e)
    BY <1>1, <2>1, <2>2, <2>3 DEF CutAt
  <2>5. Sound(kind, p, n + 0)
    BY <1>1, <1>3, <2>1 DEF Sound
  <2> QED  BY <2>4, <2>5
<1>5. passes \in Nat /\ m < (passes + 1) * Block
  <2> DEFINE b == passes * Block
             o == m % Block
  <2>1. passes \in Nat /\ o \in 0..(Block - 1) /\ m = b + o
    BY Divides
  <2>2. b \in Nat /\ (passes + 1) * Block = b + Block
    BY <2>1, BlockType
  <2> HIDE DEF b, o
  <2> QED  BY <2>1, <2>2, BlockType
<1>6. PICK f : /\ LoopOf(kind, first, passes, f)
               /\ r.blocks = f[passes].blocks /\ OnlyBuffer(x, r.after)
               /\ r.after.buf = f[passes].buf /\ r.after.size = f[passes].size
  <2>1. passes = Len(s) \div Block /\ passes \in Nat
    BY <1>3, <1>5
  <2>2. /\ first = CbcPass(kind, [buf |-> x.buf, size |-> x.size, data |-> s, blocks |-> <<>>])
        /\ r = CbcUpdate(kind, x, s)
    OBVIOUS
  <2> HIDE DEF first, passes, s, r
  <2> QED  BY <2>1, <2>2, LoopEnds
<1> HIDE DEF first, passes, e, p, s, r
<1> DEFINE Good(o, i) ==
        \E k \in Nat : /\ CutAt(M, o, n, k, e) /\ Sound(kind, o, n + k)
                       /\ Len(o.data) # 0 => o.size = 0 /\ Len(o.data) + (i + 1) * Block <= m
           T == {i \in Nat : i <= passes => Good(f[i], i)}
<1>7. ASSUME NEW y, NEW k \in Nat, NEW i \in Nat, CutAt(M, y, n, k, e), Sound(kind, y, n + k),
             Len(y.data) + i * Block <= m
      PROVE  Good(CbcPass(kind, y), i)
  <2> DEFINE o == CbcPass(kind, y)
  <2>1. PICK j \in Nat : /\ CutAt(M, o, n, j, e) /\ Sound(kind, o, n + j)
                         /\ Len(o.data) # 0 => o.size = 0 /\ Len(o.data) <= Len(y.data) - Block
    BY <1>2, <1>7, PassHolds
  <2> HIDE DEF o
  <2>2. Len(o.data) \in Nat /\ Len(y.data) \in Nat
    BY <1>2, <1>7, <2>1, PassData
  <2>3. Len(o.data) # 0 => Len(o.data) + (i + 1) * Block <= m
    <3> DEFINE b == i * Block
    <3>1. b \in Nat /\ (i + 1) * Block = b + Block
      BY BlockType
    <3>2. Len(y.data) + b <= m
      BY <1>7
    <3> DEFINE lo == Len(o.data)
               ly == Len(y.data)
               d == (i + 1) * Block
    <3>3. lo \in Nat /\ ly \in Nat /\ ly + b <= m /\ d = b + Block /\ (lo # 0 => lo <= ly - Block)
      BY <2>1, <2>2, <3>1, <3>2
    <3> HIDE DEF b, lo, ly, d
    <3>4. lo # 0 => lo + d <= m
      BY <3>1, <3>3, BlockType
    <3> QED  BY <3>4 DEF lo, d
  <2>4. Good(o, i)
    BY <2>1, <2>3
  <2> QED  BY <2>4 DEF o
<1>8. f = [i \in 0..passes |-> IF i = 0 THEN first
                               ELSE IF f[i - 1].data = <<>> THEN f[i - 1] ELSE CbcPass(kind, f[i - 1])]
  BY <1>6 DEF LoopOf
<1>9. 0 \in T
  <2>1. f[0] = first
    BY <1>5, <1>8
  <2>2. Len(p.data) + 0 * Block <= m
    <3>1. p.data = s
      BY DEF p
    <3>2. 0 * Block = 0
      BY BlockType
    <3> QED  BY <1>3, <3>1, <3>2
  <2>3. Good(CbcPass(kind, p), 0)
    <3> HIDE DEF Good
    <3> QED  BY <1>4, <1>7, <2>2, 0 \in Nat
  <2> HIDE DEF Good
  <2> QED  BY <2>1, <2>3 DEF first
<1>10. ASSUME NEW i \in T PROVE i + 1 \in T
  <2> SUFFICES ASSUME i + 1 <= passes PROVE Good(f[i + 1], i + 1)
    OBVIOUS
  <2>1. Good(f[i], i) /\ i \in Nat
    BY <1>5
  <2>2. f[i + 1] = IF f[i].data = <<>> THEN f[i] ELSE CbcPass(kind, f[i])
    <3>1. i + 1 \in 0..passes /\ i + 1 # 0 /\ (i + 1) - 1 = i
      BY <1>5, <2>1
    <3> QED  BY <1>8, <3>1
  <2> DEFINE y == f[i]
  <2>3. PICK k \in Nat : /\ CutAt(M, y, n, k, e) /\ Sound(kind, y, n + k)
                         /\ Len(y.data) # 0 => y.size = 0 /\ Len(y.data) + (i + 1) * Block <= m
    BY <2>1
  <2> HIDE DEF y
  <2>4. Len(y.data) \in Nat /\ (y.data = <<>> <=> Len(y.data) = 0)
    BY <1>2, <2>3, PassData
  <2>5. CASE y.data = <<>>
    <3>1. Good(y, i + 1)
      BY <2>3, <2>4, <2>5
    <3> HIDE DEF Good
    <3> QED  BY <2>2, <2>5, <3>1 DEF y
  <2>6. CASE y.data # <<>>
    <3>1. Len(y.data) + (i + 1) * Block <= m /\ i + 1 \in Nat
      BY <2>1, <2>3, <2>4, <2>6
    <3> HIDE DEF Good
    <3>2. Good(CbcPass(kind, y), i + 1)
      BY <1>7, <2>3, <3>1
    <3> QED  BY <2>2, <2>6, <3>2 DEF y
  <2> QED  BY <2>5, <2>6
<1>11. passes \in T
  <2>1. T \in SUBSET Nat
    OBVIOUS
  <2> HIDE DEF T
  <2> QED  BY <1>5, <1>9, <1>10, <2>1, Induction
<1> DEFINE z == f[passes]
<1>12. PICK q \in Nat : /\ CutAt(M, z, n, q, e) /\ Sound(kind, z, n + q)
                        /\ Len(z.data) # 0 => z.size = 0 /\ Len(z.data) + (passes + 1) * Block <= m
  BY <1>5, <1>11
<1>13. /\ r.blocks = z.blocks /\ OnlyBuffer(x, r.after)
       /\ r.after.buf = z.buf /\ r.after.size = z.size
  BY <1>6
<1> HIDE DEF T, Good, z
<1>14. Len(z.data) = 0 /\ (n + q) * Block + z.size = e
  <2> DEFINE b == (passes + 1) * Block
             y == (n + q) * Block
  <2>1. b \in Nat /\ y \in Nat
    BY <1>5, BlockType
  <2>2. Len(z.data) \in Nat /\ y + z.size + Len(z.data) = e /\ z.size \in Nat
    <3>1. Len(z.data) \in Nat /\ (n + q) * Block + z.size + Len(z.data) = e
      BY <1>2, <1>12, PassData
    <3>2. z.size \in 0..Block
      BY <1>12 DEF CutAt
    <3> QED  BY <3>1, <3>2, BlockType
  <2>3. m < b /\ (Len(z.data) # 0 => Len(z.data) + b <= m)
    BY <1>5, <1>12
  <2> HIDE DEF b, y
  <2>4. Len(z.data) = 0
    BY <2>1, <2>2, <2>3
  <2>5. y + z.size = e
    BY <2>1, <2>2, <2>4
  <2> QED  BY <2>4, <2>5 DEF y
<1> DEFINE a == r.after
<1>15. OnlyBuffer(x, a) /\ a.buf = z.buf /\ a.size = z.size
  BY <1>13
<1>16. /\ z.size \in 0..Block /\ z.buf \in Seq(Octets) /\ Len(z.buf) = Block
       /\ Begins(M, z.buf, z.size, n + q) /\ z.blocks = Pieces(M, n, q)
  BY <1>12 DEF CutAt
<1> HIDE DEF a
<1>17. Holding(kind, M, a, e, n + q)
  <2>1. kind = "dec_pad" => (a.size = 0 => n + q = 0)
    BY <1>12, <1>14, <1>15 DEF Sound
  <2>2. kind \in {"cbc", "cbc_pad"} => a.size < Block
    BY <1>12, <1>15 DEF Sound
  <2>3. kind \notin Buffered /\ kind # "cmac" /\ (kind \in {"cbc", "cbc_pad"} \/ kind \in {"dec", "dec_pad"})
    BY DEF Buffered, Cbc, Ccm, Gcm
  <2>4. n + q \in Nat /\ e = (n + q) * Block + a.size
    BY <1>14, <1>15
  <2> QED  BY <1>15, <1>16, <2>1, <2>2, <2>3, <2>4 DEF Holding
<1> QED  BY <1>13, <1>15, <1>16, <1>17 DEF a, r, s, e

-----------------------------------------------------------------------------
(* The ends of encryption *)

\* The only block of a message of one block
LEMMA OnlyBlock ==
    ASSUME NEW v \in Seq(Octets)
    PROVE  /\ Len(v) = Block => Blocks(v) = <<v>>
           /\ Len(v) = 0 => Blocks(v) = <<>>
<1>1. CASE Len(v) = Block
  <2>1. Block \div Block = 1
    <3>1. (1 * Block + 0) \div Block = 1
      BY Quotient, BlockType, 1 \in Nat, 0 \in 0..(Block - 1)
    <3>2. 1 * Block + 0 = Block
      BY BlockType
    <3> QED  BY <3>1, <3>2
  <2>2. SubSeq(v, 1, Block) = v
    BY <1>1, SubSeqFull
  <2>3. ASSUME NEW k \in 1..1 PROVE SubSeq(v, (k - 1) * Block + 1, k * Block) = v
    <3>1. k = 1
      OBVIOUS
    <3>2. (1 - 1) * Block + 1 = 1 /\ 1 * Block = Block
      BY BlockType
    <3> QED  BY <2>2, <3>1, <3>2
  <2>4. Blocks(v) = [k \in 1..1 |-> v]
    BY <1>1, <2>1, <2>3 DEF Blocks
  <2>5. <<v>> = [k \in 1..1 |-> v]
    OBVIOUS
  <2> QED  BY <1>1, <2>4, <2>5, BlockType
<1>2. CASE Len(v) = 0
  <2>1. 0 \div Block = 0
    <3>1. (0 * Block + 0) \div Block = 0
      BY Quotient, BlockType, 0 \in Nat, 0 \in 0..(Block - 1)
    <3>2. 0 * Block + 0 = 0
      BY BlockType
    <3> QED  BY <3>1, <3>2
  <2>2. Blocks(v) = <<>>
    BY <1>2, <2>1 DEF Blocks
  <2> QED  BY <1>2, <2>2, BlockType
<1> QED  BY <1>1, <1>2

\* What is put behind what a buffer holds
LEMMA PutIsJoin ==
    ASSUME NEW M \in Messages, NEW n \in Nat, NEW size \in 0..Block, NEW buf \in Seq(Octets),
           Len(buf) = Block, Begins(M, buf, size, n), NEW t \in Seq(Octets), Len(t) = Block - size
    PROVE  /\ Put(buf, size, t) = Cut(M, n * Block, size) \o t
           /\ Put(buf, size, t) \in Seq(Octets) /\ Len(Put(buf, size, t)) = Block
<1> DEFINE p == Put(buf, size, t)
           e == Cut(M, n * Block, size)
           f == e \o t
<1>1. size \in Nat
  BY BlockType
<1>2. e \in Seq(Octets) /\ Len(e) = size /\ \A i \in 1..size : e[i] = M[n * Block + i - 1]
  <2> DEFINE k == n * Block
  <2>1. k \in Nat
    BY BlockType
  <2> HIDE DEF k
  <2>2. /\ Cut(M, k, size) \in Seq(Octets) /\ Len(Cut(M, k, size)) = size
        /\ \A i \in 1..size : Cut(M, k, size)[i] = M[k + i - 1]
    BY <1>1, <2>1, CutType
  <2> QED  BY <2>2 DEF k
<1> HIDE DEF e
<1>3. /\ f \in Seq(Octets) /\ Len(f) = Block
      /\ \A i \in 1..Block : f[i] = IF i <= size THEN e[i] ELSE t[i - size]
  <2>1. Len(e) + Len(t) = Block
    BY <1>1, <1>2, BlockType
  <2>2. /\ f \in Seq(Octets) /\ Len(f) = Len(e) + Len(t)
        /\ \A i \in 1..(Len(e) + Len(t)) : f[i] = IF i <= Len(e) THEN e[i] ELSE t[i - Len(e)]
    BY <1>2, ConcatProperties
  <2> HIDE DEF f
  <2> QED  BY <1>2, <2>1, <2>2
<1>4. /\ p \in Seq(Octets) /\ Len(p) = Block
      /\ \A i \in 1..size : p[i] = buf[i]
      /\ \A i \in 1..Len(t) : p[size + i] = t[i]
  <2>1. size + Len(t) <= Len(buf)
    BY <1>1, BlockType
  <2> QED  BY <1>1, <2>1, PutType
<1> HIDE DEF p, f
<1>5. ASSUME NEW i \in 1..Block PROVE p[i] = f[i]
  <2>1. CASE i <= size
    <3>1. i \in 1..size
      BY <2>1, <1>1
    <3>2. p[i] = M[n * Block + i - 1]
      BY <1>4, <3>1 DEF Begins
    <3> QED  BY <2>1, <1>2, <1>3, <3>1, <3>2
  <2>2. CASE ~(i <= size)
    <3>1. i - size \in 1..Len(t) /\ size + (i - size) = i
      BY <2>2, <1>1, BlockType
    <3>2. p[i] = t[i - size]
      BY <3>1, <1>4
    <3> QED  BY <2>2, <1>3, <3>2
  <2> QED  BY <2>1, <2>2
<1>6. p = f
  BY <1>3, <1>4, <1>5, SeqEqual
<1> QED  BY <1>4, <1>6 DEF p, f, e

\* Filling up what is left when whole blocks are taken off
LEMMA FilledJoins ==
    ASSUME NEW n \in Nat, NEW s \in Seq(Octets), Len(s) = n * Block, NEW t \in Seq(Octets)
    PROVE  Filled(s \o t) = s \o Filled(t)
<1> DEFINE l == Len(t)
           q == l \div Block
           r == l % Block
           z == Zeros((Block - r) % Block)
<1>1. l \in Nat /\ Len(s \o t) = n * Block + l
  BY LenProperties, ConcatProperties
<1>2. q \in Nat /\ r \in 0..(Block - 1) /\ l = q * Block + r
  BY <1>1, Divides
<1>3. (n * Block + l) % Block = r
  <2>1. n * Block + l = (n + q) * Block + r
    <3> HIDE DEF l, q, r
    <3> QED  BY <1>2, BlockType
  <2> HIDE DEF l, q, r
  <2>2. n + q \in Nat
    BY <1>2
  <2> QED  BY <1>2, <2>1, <2>2, Quotient
<1>4. Filled(s \o t) = (s \o t) \o z /\ Filled(t) = t \o z
  BY <1>1, <1>3 DEF Filled
<1>5. (Block - r) % Block \in Nat
  <2> HIDE DEF r
  <2>1. Block - r \in Nat
    BY <1>2, BlockType
  <2> QED  BY <2>1, Divides
<1>6. z \in Seq(Octets)
  <2> DEFINE w == (Block - r) % Block
  <2> HIDE DEF w
  <2>1. Zeros(w) \in Seq(Octets)
    BY <1>5, ZerosType DEF w
  <2> QED  BY <2>1 DEF w
<1> HIDE DEF z
<1>7. (s \o t) \o z = s \o (t \o z)
  BY <1>6, Joins
<1> QED  BY <1>4, <1>7

\* Less than a block, filled up, is a block, unless it is nothing.
LEMMA FilledBlock ==
    ASSUME NEW t \in Seq(Octets), Len(t) < Block
    PROVE  /\ Filled(t) \in Seq(Octets)
           /\ Len(t) = 0 => Filled(t) = t /\ Blocks(Filled(t)) = <<>>
           /\ Len(t) # 0 => Len(Filled(t)) = Block /\ Blocks(Filled(t)) = <<Filled(t)>>
<1> DEFINE l == Len(t)
           w == (Block - (l % Block)) % Block
<1>1. l \in 0..(Block - 1)
  BY LenProperties, BlockType
<1>2. w = IF l = 0 THEN 0 ELSE Block - l
  <2> HIDE DEF l
  <2>1. l % Block = l /\ Block % Block = 0
    BY <1>1, Rests
  <2>2. CASE l = 0
    <3>1. Block - 0 = Block
      BY BlockType
    <3> QED  BY <2>1, <2>2, <3>1
  <2>3. CASE l # 0
    <3>1. Block - l \in 0..(Block - 1)
      BY <1>1, <2>3, BlockType
    <3>2. (Block - l) % Block = Block - l
      BY <3>1, Rests
    <3> QED  BY <2>1, <2>3, <3>2
  <2> QED  BY <2>2, <2>3
<1>3. Filled(t) = t \o Zeros(w)
  BY DEF Filled
<1> HIDE DEF w
<1>4. w \in Nat
  BY <1>1, <1>2, BlockType
<1>5. Zeros(w) \in Seq(Octets) /\ Len(Zeros(w)) = w
  BY <1>4, ZerosType
<1>6. Filled(t) \in Seq(Octets) /\ Len(Filled(t)) = l + w
  BY <1>3, <1>5, ConcatProperties
<1>7. CASE l = 0
  <2>1. Len(Filled(t)) = 0 /\ Filled(t) = <<>> /\ t = <<>>
    BY <1>2, <1>6, <1>7, EmptySeq
  <2> QED  BY <1>6, <1>7, <2>1, OnlyBlock
<1>8. CASE l # 0
  <2>1. Len(Filled(t)) = Block
    BY <1>1, <1>2, <1>6, <1>8, BlockType
  <2> QED  BY <1>6, <1>8, <2>1, OnlyBlock
<1> QED  BY <1>7, <1>8

\* A message's n whole blocks and the bytes behind them, filled up
FillsUp(M, n, size, given) ==
    LET t == Cut(M, n * Block, size)
    IN  /\ Blocks(Filled(Cut(M, 0, given))) = Pieces(M, 0, n) \o Blocks(Filled(t))
        /\ size # 0 => Blocks(Filled(t)) = <<Filled(t)>>
        /\ size = 0 => Blocks(Filled(t)) = <<>> /\ Filled(Cut(M, 0, given)) = Cut(M, 0, given)

\* The blocks of a message, filled up
LEMMA FilledEnds ==
    ASSUME NEW M \in Messages, NEW n \in Nat, NEW size \in 0..(Block - 1),
           NEW given, given = n * Block + size
    PROVE  FillsUp(M, n, size, given)
<1> DEFINE s == Cut(M, 0, n * Block)
           t == Cut(M, n * Block, size)
<1>1. size \in Nat /\ size < Block
  BY BlockType
<1>2. /\ Cut(M, 0, given) = s \o t /\ s \in Seq(Octets) /\ Len(s) = n * Block
      /\ t \in Seq(Octets) /\ Len(t) = size /\ Blocks(s) = Pieces(M, 0, n)
  <2>1. Splits(M, n, size, given)
    BY <1>1, TextSplits
  <2> QED  BY <2>1 DEF Splits
<1> HIDE DEF s, t
<1>3. Filled(s \o t) = s \o Filled(t)
  BY <1>2, FilledJoins
<1>4. /\ Filled(t) \in Seq(Octets)
      /\ size = 0 => Filled(t) = t /\ Blocks(Filled(t)) = <<>>
      /\ size # 0 => Blocks(Filled(t)) = <<Filled(t)>>
  BY <1>1, <1>2, FilledBlock
<1>5. Blocks(s \o Filled(t)) = Blocks(s) \o Blocks(Filled(t))
  BY <1>2, <1>4, BlocksJoin
<1> QED  BY <1>2, <1>3, <1>4, <1>5 DEF t, FillsUp

\* Bytes that all are the number of the missing ones are a sequence.
LEMMA PadType ==
    ASSUME NEW p \in Nat
    PROVE  [i \in 1..p |-> Byte("pad", p)] \in Seq(Octets) /\ Len([i \in 1..p |-> Byte("pad", p)]) = p
<1> DEFINE b == Byte("pad", p)
<1>1. b \in Octets
  BY ByteType DEF Sources
<1> HIDE DEF b
<1>2. [i \in 1..p |-> b] \in [1..p -> Octets]
  BY <1>1
<1>3. [i \in 1..p |-> b] \in Seq(Octets) /\ Len([i \in 1..p |-> b]) = p
  BY <1>2, Sequence
<1> QED  BY <1>3 DEF b

\* A padded message and its last block
Padded(M, x, given, n, p) ==
    Pieces(M, 0, n) \o <<Pkcs7Pad(x.buf, x.size)>>
        = Blocks(Cut(M, 0, given) \o [i \in 1..p |-> Byte("pad", p)])

\* The last block of a padded message
LEMMA PadEnds ==
    ASSUME NEW M \in Messages, NEW x, NEW given, NEW n, Holding("cbc_pad", M, x, given, n),
           NEW p, p = Block - (given % Block)
    PROVE  Padded(M, x, given, n, p)
<1> DEFINE size == x.size
           t == [i \in 1..p |-> Byte("pad", p)]
           s == Cut(M, 0, n * Block)
           e == Cut(M, n * Block, size)
<1>1. /\ n \in Nat /\ size \in 0..(Block - 1) /\ given = n * Block + size
      /\ x.buf \in Seq(Octets) /\ Len(x.buf) = Block /\ Begins(M, x.buf, size, n)
  <2>1. size \in 0..Block /\ size < Block
    BY DEF Holding
  <2>2. size \in 0..(Block - 1)
    BY <2>1, BlockType
  <2> QED  BY <2>2 DEF Holding
<1> HIDE DEF size
<1>2. p = Block - size /\ p \in Nat /\ size \in 0..Block /\ size \in Nat
  <2>1. given % Block = size
    BY <1>1, Quotient
  <2> QED  BY <1>1, <2>1, BlockType
<1>3. t \in Seq(Octets) /\ Len(t) = p
  BY <1>2, PadType
<1>4. Pkcs7Pad(x.buf, x.size) = Put(x.buf, size, t)
  BY <1>2 DEF Pkcs7Pad, size
<1> HIDE DEF t
<1>5. /\ Put(x.buf, size, t) = e \o t
      /\ Put(x.buf, size, t) \in Seq(Octets) /\ Len(Put(x.buf, size, t)) = Block
  BY <1>1, <1>2, <1>3, PutIsJoin
<1>6. /\ Cut(M, 0, given) = s \o e /\ s \in Seq(Octets) /\ Len(s) = n * Block
      /\ e \in Seq(Octets) /\ Blocks(s) = Pieces(M, 0, n)
  <2>1. Splits(M, n, size, given)
    BY <1>1, <1>2, TextSplits
  <2> QED  BY <2>1 DEF Splits
<1> HIDE DEF s, e
<1>7. (s \o e) \o t = s \o (e \o t)
  BY <1>3, <1>6, Joins
<1>8. e \o t \in Seq(Octets) /\ Len(e \o t) = Block
  BY <1>5
<1>9. Blocks(s \o (e \o t)) = Blocks(s) \o Blocks(e \o t) /\ Blocks(e \o t) = <<e \o t>>
  <2> DEFINE f == e \o t
  <2> HIDE DEF f
  <2>1. f \in Seq(Octets) /\ Len(f) = Block
    BY <1>8 DEF f
  <2>2. Blocks(s \o f) = Blocks(s) \o Blocks(f) /\ Blocks(f) = <<f>>
    BY <1>1, <1>6, <2>1, BlocksJoin, OnlyBlock
  <2> QED  BY <2>2 DEF f
<1> QED  BY <1>4, <1>5, <1>6, <1>7, <1>9 DEF t, Padded

\* A message of whole blocks needs no last one.
LEMMA WholeEnds ==
    ASSUME NEW M \in Messages, NEW x, NEW given, NEW n, Holding("cbc", M, x, given, n),
           given % Block = 0
    PROVE  x.size = 0 /\ Pieces(M, 0, n) = Blocks(Filled(Cut(M, 0, given)))
<1> DEFINE size == x.size
<1>1. /\ n \in Nat /\ size \in 0..(Block - 1) /\ given = n * Block + size
  <2>1. size \in 0..Block /\ size < Block
    BY DEF Holding
  <2>2. size \in 0..(Block - 1)
    BY <2>1, BlockType
  <2> QED  BY <2>2 DEF Holding
<1> HIDE DEF size
<1>2. size = 0
  BY <1>1, Quotient
<1>3. given = n * Block + 0 /\ 0 \in 0..(Block - 1)
  BY <1>1, <1>2, BlockType
<1>4. Splits(M, n, 0, given)
  BY <1>1, <1>3, TextSplits
<1>5. FillsUp(M, n, size, given)
  BY <1>1, FilledEnds
<1>6. Blocks(Filled(Cut(M, 0, given))) = Pieces(M, 0, n) \o Blocks(Filled(Cut(M, n * Block, size)))
  BY <1>5 DEF FillsUp
<1>7. Blocks(Filled(Cut(M, n * Block, size))) = <<>>
  BY <1>2, <1>5 DEF FillsUp
<1>8. Pieces(M, 0, n) \o <<>> = Pieces(M, 0, n)
  BY <1>1, PiecesType, ConcatEmptySeq, 0 \in Nat
<1> QED  BY <1>2, <1>6, <1>7, <1>8 DEF size

\* The chip decrypts a block of the text before the padding to the same block
\* of the plain text.
LEMMA DecryptedPiece ==
    ASSUME NEW j, j.text \in Nat, j.pad \in Nat, NEW k \in Nat, NEW q, q = k * Block, q + Block <= j.text - j.pad
    PROVE  Decrypted(j, Piece(Message("text"), k)) = Piece(Message("plain"), k)
<1>1. q \in Nat
  BY BlockType
<1> DEFINE b == Cut(Message("text"), q, Block)
<1>2. "text" \in Sources /\ "plain" \in Sources
  BY DEF Sources
<1>3. ASSUME NEW i \in 1..Block
      PROVE  b[i][3] = q + i - 1 /\ ~(b[i][3] >= j.text - j.pad)
             /\ Byte("plain", b[i][3]) = Message("plain")[q + i - 1]
  <2> DEFINE l == q + i - 1
  <2>1. l \in Nat /\ l < q + Block
    BY <1>1, BlockType
  <2>2. b[i] = Message("text")[l]
    BY DEF Cut
  <2>3. Message("text")[l] = Byte("text", l) /\ Message("plain")[l] = Byte("plain", l)
    BY <2>1, <1>2, MessageType
  <2> HIDE DEF l, b
  <2>4. b[i][3] = l
    BY <2>2, <2>3 DEF Byte
  <2>5. ~(l >= j.text - j.pad)
    BY <1>1, <2>1, BlockType
  <2> QED  BY <2>3, <2>4, <2>5 DEF l
<1>4. Piece(Message("text"), k) = b /\ Piece(Message("plain"), k) = Cut(Message("plain"), q, Block)
  BY DEF Piece
<1> HIDE DEF b
<1> QED  BY <1>3, <1>4 DEF Decrypted, Cut

-----------------------------------------------------------------------------
(* Decryption *)

\* What the decrypted blocks of a chain and the last of them say.
Deciphers(j, chain, last) ==
    Joined([k \in 1..Len(chain) |-> Decrypted(j, chain[k])], last)
        = Bytes("plain", 0, j.text - j.pad)

\* The blocks of the text before the padding decrypt to those of the plain text.
LEMMA DecryptedPieces ==
    ASSUME NEW j, j.text \in Nat, j.pad \in Nat, NEW n \in Nat, n = 0 \/ n * Block <= j.text - j.pad,
           NEW chain, chain = Pieces(Message("text"), 0, n)
    PROVE  [k \in 1..Len(chain) |-> Decrypted(j, chain[k])] = Pieces(Message("plain"), 0, n)
<1> DEFINE T == Message("text")
           P == Message("plain")
<1>1. T \in Messages /\ P \in Messages
  BY MessageType DEF Sources
<1> HIDE DEF T, P
<1>2. Len(chain) = n /\ \A i \in 1..n : chain[i] = Piece(T, 0 + i - 1)
  BY <1>1, PiecesType, 0 \in Nat DEF T
<1>3. Len(Pieces(P, 0, n)) = n /\ Pieces(P, 0, n) = [i \in 1..n |-> Piece(P, 0 + i - 1)]
  BY <1>1, PiecesType, 0 \in Nat DEF Pieces
<1>4. ASSUME NEW i \in 1..n PROVE Decrypted(j, chain[i]) = Piece(P, 0 + i - 1)
  <2> DEFINE k == i - 1
             q == k * Block
  <2>1. k \in Nat /\ 0 + i - 1 = k /\ i = k + 1
    OBVIOUS
  <2>2. q + Block <= j.text - j.pad
    <3>1. i * Block <= n * Block /\ i * Block \in Int /\ n * Block \in Int
      BY Grows
    <3>2. i * Block = q + Block
      <4> HIDE DEF k
      <4> QED  BY <2>1, BlockType
    <3>3. n # 0
      OBVIOUS
    <3> HIDE DEF q, k
    <3> QED  BY <3>1, <3>2, <3>3
  <2> HIDE DEF k
  <2>3. q = k * Block
    OBVIOUS
  <2> HIDE DEF q
  <2>4. Decrypted(j, Piece(Message("text"), k)) = Piece(Message("plain"), k)
    BY <2>1, <2>2, <2>3, DecryptedPiece
  <2> QED  BY <1>2, <2>1, <2>4 DEF T, P
<1> QED  BY <1>2, <1>3, <1>4 DEF P

\* What is decrypted and the bytes behind it are the plain text.
LEMMA DecipheredIs ==
    ASSUME NEW j, j.text \in Nat, j.pad \in Nat, NEW n \in Nat, NEW size \in 0..Block,
           j.text - j.pad = n * Block + size,
           NEW chain, chain = Pieces(Message("text"), 0, n),
           NEW last, last = Cut(Message("plain"), n * Block, size)
    PROVE  Deciphers(j, chain, last)
<1> DEFINE P == Message("plain")
           l == n * Block
<1>1. l \in Nat /\ size \in Nat
  BY BlockType
<1>2. n = 0 \/ n * Block <= j.text - j.pad
  <2>1. j.text - j.pad = l + size
    OBVIOUS
  <2> HIDE DEF l
  <2>2. l <= j.text - j.pad
    BY <1>1, <2>1
  <2> QED  BY <2>2 DEF l
<1>3. [k \in 1..Len(chain) |-> Decrypted(j, chain[k])] = Pieces(P, 0, n)
  BY <1>2, DecryptedPieces
<1>4. P \in Messages
  BY MessageType DEF Sources
<1>5. Joined(Pieces(P, 0, n), Cut(P, n * Block, size)) = Cut(P, 0, n * Block + size)
  <2> HIDE DEF P
  <2> QED  BY <1>4, JoinedIsText
<1>6. Bytes("plain", 0, l + size) = Cut(P, 0, l + size)
  <2>1. l + size \in Nat /\ "plain" \in Sources
    BY <1>1 DEF Sources
  <2> HIDE DEF l
  <2> QED  BY <2>1, BytesAreCut, 0 \in Nat
<1> QED  BY <1>3, <1>5, <1>6 DEF Deciphers

\* The end of a decryption, from what its context holds
DecryptEnd(j, x, ok, last) ==
    LET plain == Decrypted(j, x.buf)
        right == j.kind = "dec" \/ Unpads(plain)
    IN  /\ ok <=> IF x.size = Block THEN right ELSE x.size = 0
        /\ last = IF x.size = Block /\ right
                  THEN IF j.kind = "dec" THEN plain ELSE Take(plain, Block - plain[Block][3])
                  ELSE <<>>

\* The last block's padding is right if the job says so.
LEMMA Unpadded ==
    ASSUME NEW j, j.text \in Nat, j.pad \in 0..Block, NEW n \in Nat, NEW q, q = n * Block,
           j.text = q + Block, NEW plain, plain = Decrypted(j, Piece(Message("text"), n))
    PROVE  /\ Take(plain, Block - j.pad) = Cut(Message("plain"), q, Block - j.pad)
           /\ Unpads(plain) <=> j.pad # 0
           /\ j.pad # 0 => plain[Block][3] = j.pad
           /\ j.pad = 0 => plain = Cut(Message("plain"), q, Block)
<1> DEFINE pad == j.pad
           b == Piece(Message("text"), n)
           l == Block - pad
<1>1. q \in Nat /\ pad \in Nat /\ l \in Nat /\ l <= Block /\ Block = l + pad /\ pad <= Block
  BY BlockType
<1>2. "text" \in Sources /\ "plain" \in Sources
  BY DEF Sources
<1>3. ASSUME NEW i \in 1..Block
      PROVE  plain[i] = IF i <= l THEN Byte("plain", q + i - 1) ELSE Byte("pad", pad)
  <2> DEFINE m == q + i - 1
  <2>1. m \in Nat
    BY <1>1, BlockType
  <2>2. b[i] = Message("text")[m]
    BY DEF Piece, Cut
  <2>3. Message("text")[m] = Byte("text", m)
    BY <2>1, <1>2, MessageType
  <2>4. m >= j.text - pad <=> ~(i <= l)
    BY <1>1, BlockType
  <2> HIDE DEF m, b
  <2>5. b[i][3] = m
    BY <2>2, <2>3 DEF Byte
  <2>6. plain[i] = IF b[i][3] >= j.text - pad THEN Byte("pad", pad) ELSE Byte("plain", b[i][3])
    BY DEF Decrypted, b
  <2> HIDE DEF l, pad
  <2> QED  BY <2>4, <2>5, <2>6 DEF m
<1>4. plain = [i \in 1..Block |-> plain[i]]
  BY DEF Decrypted
<1>5. plain = [i \in 1..Block |-> IF i <= l THEN Byte("plain", q + i - 1) ELSE Byte("pad", pad)]
  <2> HIDE DEF b, l, pad
  <2> QED  BY <1>3, <1>4
<1>6. plain \in Seq(Octets) /\ Len(plain) = Block
  <2>1. ASSUME NEW i \in 1..Block
        PROVE  (IF i <= l THEN Byte("plain", q + i - 1) ELSE Byte("pad", pad)) \in Octets
    <3>1. q + i - 1 \in Nat /\ pad \in Nat /\ "pad" \in Sources /\ "plain" \in Sources
      BY <1>1, BlockType DEF Sources
    <3> HIDE DEF l, pad
    <3> QED  BY <3>1, ByteType
  <2>2. [i \in 1..Block |-> IF i <= l THEN Byte("plain", q + i - 1) ELSE Byte("pad", pad)] \in [1..Block -> Octets]
    BY <2>1
  <2>3. plain \in [1..Block -> Octets]
    BY <1>5, <2>2
  <2> QED  BY <2>3, BlockType, Sequence
<1>7. Take(plain, l) = Cut(Message("plain"), q, l)
  <2>1. 0 \in 0..Block /\ SubSeq(plain, 1, l) = [i \in 1..l |-> plain[1 + i - 1]]
    BY <1>1, <1>6, BlockType
  <2>2. ASSUME NEW i \in 1..l PROVE plain[1 + i - 1] = Message("plain")[q + i - 1]
    <3>1. i \in 1..Block /\ i <= l /\ 1 + i - 1 = i /\ q + i - 1 \in Nat
      BY <1>1
    <3>2. plain[i] = Byte("plain", q + i - 1)
      BY <1>3, <3>1
    <3> QED  BY <1>2, <3>1, <3>2, MessageType
  <2> QED  BY <2>1, <2>2 DEF Take, Cut
<1>8. ASSUME NEW i \in (Block - pad + 1)..Block, pad # 0 PROVE plain[i] = Byte("pad", pad)
  <2>1. i \in 1..Block /\ ~(i <= l)
    BY <1>1, BlockType
  <2> QED  BY <1>3, <2>1
<1>9. CASE pad # 0
  <2>1. Block \in (Block - pad + 1)..Block
    BY <1>1, <1>9, BlockType
  <2>2. plain[Block] = Byte("pad", pad)
    BY <1>8, <1>9, <2>1
  <2>3. plain[Block][2] = "pad" /\ plain[Block][3] = pad
    BY <2>2 DEF Byte
  <2>4. pad \in PadSymbols
    BY <1>1, <1>9 DEF PadSymbols
  <2>5. Unpads(plain)
    BY <1>8, <1>9, <2>2, <2>3, <2>4 DEF Unpads
  <2> QED  BY <1>7, <1>9, <2>3, <2>5
<1>10. CASE pad = 0
  <2>1. l = Block
    BY <1>1, <1>10
  <2>2. plain[Block] = Byte("plain", q + Block - 1)
    BY <1>3, <2>1, BlockType
  <2>3. plain[Block][2] = "plain"
    BY <2>2 DEF Byte
  <2>4. ~Unpads(plain)
    BY <2>3 DEF Unpads
  <2>5. Take(plain, Block) = plain
    BY <1>6, SubSeqFull DEF Take
  <2> QED  BY <1>7, <1>10, <2>1, <2>4, <2>5
<1> QED  BY <1>9, <1>10

\* Nothing decrypts to nothing.
LEMMA NothingDeciphered ==
    ASSUME NEW j, j.text = 0, j.pad \in Nat
    PROVE  Deciphers(j, <<>>, <<>>)
<1>1. Len(<<>>) = 0 /\ 0 * Block + 0 = 0
  BY BlockType
<1>2. [k \in 1..Len(<<>>) |-> Decrypted(j, <<>>[k])] = <<>>
  BY <1>1
<1>3. Joined(<<>>, <<>>) = <<>>
  <2>1. 1..(Len(<<>>) * Block + Len(<<>>)) = {}
    BY <1>1
  <2> QED  BY <2>1 DEF Joined
<1>4. Bytes("plain", 0, j.text - j.pad) = <<>>
  <2>1. 1..(j.text - j.pad) = {}
    OBVIOUS
  <2> QED  BY <2>1 DEF Bytes
<1> QED  BY <1>2, <1>3, <1>4 DEF Deciphers

\* What a decryption's end should accept
Acceptable(j) == j.text % Block = 0 /\ (j.kind = "dec_pad" => j.pad # 0 \/ j.text = 0)

\* It accepts that, and completes the plain text.
Decides(j, chain, ok, last) ==
    /\ ok <=> Acceptable(j)
    /\ ok => Deciphers(j, chain, last) /\ last \in Seq(Octets)

\* The end of a decryption that has been given its whole text
LEMMA DecryptEnds ==
    ASSUME NEW j, j.kind \in {"dec", "dec_pad"}, j.text \in Nat, j.pad \in 0..Block,
           j.kind = "dec" => j.pad = 0,
           NEW x, NEW n, Holding(j.kind, Message("text"), x, j.text, n),
           NEW chain, chain = Pieces(Message("text"), 0, n),
           NEW ok \in BOOLEAN, NEW last, DecryptEnd(j, x, ok, last)
    PROVE  Decides(j, chain, ok, last)
<1> SUFFICES /\ ok <=> Acceptable(j)
             /\ ok => Deciphers(j, chain, last) /\ last \in Seq(Octets)
  BY DEF Decides
<1> DEFINE T == Message("text")
           P == Message("plain")
           plain == Decrypted(j, x.buf)
           q == n * Block
           text == j.text
           size == x.size
<1>1. T \in Messages /\ P \in Messages
  BY MessageType DEF Sources
<1>2. /\ n \in Nat /\ size \in 0..Block /\ text = q + size
      /\ x.buf \in Seq(Octets) /\ Len(x.buf) = Block /\ Begins(T, x.buf, size, n)
      /\ j.kind = "dec_pad" => (size = 0 => n = 0)
  BY DEF Holding
<1>3. q \in Nat /\ size \in Nat /\ j.pad \in Nat
  BY <1>2, BlockType
<1>4. CASE size = Block
  <2>1. x.buf = Piece(T, n)
    <3>1. Begins(T, x.buf, Block, n)
      BY <1>2, <1>4
    <3> HIDE DEF T
    <3> QED  BY <1>1, <1>2, <3>1, FullBuffer
  <2>2. text % Block = 0
    <3>1. ((n + 1) * Block + 0) % Block = 0
      BY <1>2, BlockType, Quotient, n + 1 \in Nat, 0 \in 0..(Block - 1)
    <3>2. (n + 1) * Block + 0 = q + Block
      BY <1>2, BlockType
    <3> QED  BY <1>2, <1>4, <3>1, <3>2
  <2>3. /\ Take(plain, Block - j.pad) = Cut(P, q, Block - j.pad)
        /\ Unpads(plain) <=> j.pad # 0
        /\ j.pad # 0 => plain[Block][3] = j.pad
        /\ j.pad = 0 => plain = Cut(P, q, Block)
    <3>1. j.text = q + Block /\ plain = Decrypted(j, Piece(Message("text"), n)) /\ q = n * Block
      BY <1>2, <1>4, <2>1
    <3> HIDE DEF plain, q, T, text, size
    <3> QED  BY <1>2, <3>1, Unpadded DEF P
  <2>4. ok <=> (j.kind = "dec" \/ j.pad # 0)
    BY <1>4, <2>3 DEF DecryptEnd
  <2>5. ok => last = Cut(P, q, Block - j.pad)
    <3>1. CASE j.kind = "dec"
      <4>1. last = plain /\ j.pad = 0 /\ Block - 0 = Block
        BY <1>4, <3>1, BlockType DEF DecryptEnd
      <4> QED  BY <2>3, <4>1
    <3>2. CASE j.kind # "dec"
      <4> SUFFICES ASSUME ok PROVE last = Cut(P, q, Block - j.pad)
        OBVIOUS
      <4>1. j.pad # 0 /\ plain[Block][3] = j.pad /\ Unpads(plain)
        BY <2>3, <2>4, <3>2
      <4>2. last = Take(plain, Block - plain[Block][3])
        BY <1>4, <3>2, <4>1 DEF DecryptEnd
      <4> QED  BY <2>3, <4>1, <4>2
    <3> QED  BY <3>1, <3>2
  <2>6. Deciphers(j, chain, Cut(P, q, Block - j.pad)) /\ Cut(P, q, Block - j.pad) \in Seq(Octets)
    <3> DEFINE l == Block - j.pad
    <3>1. l \in 0..Block /\ l \in Nat /\ j.text - j.pad = q + l
      BY <1>2, <1>3, <1>4, BlockType
    <3> HIDE DEF l, P
    <3>2. Cut(P, q, l) \in Seq(Octets)
      BY <1>1, <1>3, <3>1, CutType
    <3>3. Deciphers(j, chain, Cut(P, q, l))
      <4>1. \A z : z = Cut(P, q, l) => Deciphers(j, chain, z)
        BY <1>2, <1>3, <3>1, DecipheredIs DEF P
      <4> QED  BY <4>1
    <3> QED  BY <3>2, <3>3 DEF l
  <2>7. text # 0
    BY <1>2, <1>3, <1>4, BlockType
  <2>8. Acceptable(j) <=> (j.kind = "dec" \/ j.pad # 0)
    BY <2>2, <2>7 DEF Acceptable
  <2> QED  BY <2>4, <2>5, <2>6, <2>8
<1>5. CASE size = 0
  <2>1. ok /\ last = <<>>
    BY <1>5, BlockType DEF DecryptEnd
  <2>2. text = q + 0 /\ 0 \in 0..(Block - 1)
    BY <1>2, <1>5, BlockType
  <2>3. text % Block = 0
    BY <1>2, <2>2, Quotient
  <2>4. CASE j.kind = "dec_pad"
    <3>1. n = 0
      BY <1>2, <1>5, <2>4
    <3>2. text = 0
      BY <2>2, <3>1, BlockType
    <3>3. chain = <<>>
      BY <3>1 DEF Pieces
    <3> QED  BY <1>3, <2>1, <2>3, <3>2, <3>3, NothingDeciphered DEF Acceptable
  <2>5. CASE j.kind = "dec"
    <3>1. j.pad = 0 /\ text - 0 = text
      BY <2>5, <1>3, <2>2
    <3>2. Cut(P, q, 0) = <<>>
      BY DEF Cut
    <3>3. j.text - j.pad = q + 0 /\ 0 \in 0..Block
      BY <3>1, <2>2, BlockType
    <3>4. Deciphers(j, chain, Cut(P, q, 0))
      <4>1. \A z : z = Cut(P, q, 0) => Deciphers(j, chain, z)
        <5> HIDE DEF P
        <5> QED  BY <1>2, <1>3, <3>3, DecipheredIs DEF P
      <4> QED  BY <4>1
    <3> QED  BY <2>1, <2>3, <2>5, <3>2, <3>4 DEF Acceptable
  <2> QED  BY <2>4, <2>5
<1>6. CASE size # 0 /\ size # Block
  <2>1. ~ok
    BY <1>6 DEF DecryptEnd
  <2>2. size \in 0..(Block - 1)
    BY <1>2, <1>6, BlockType
  <2>3. text % Block = size
    BY <1>2, <2>2, Quotient
  <2> QED  BY <1>6, <2>1, <2>3 DEF Acceptable
<1> QED  BY <1>4, <1>5, <1>6

-----------------------------------------------------------------------------
(* The updates of CCM and GCM *)

\* What the update of one byte leaves alone
OnlyStream(x, y) ==
    /\ Shape(y) /\ y.phase = x.phase /\ y.buf = x.buf /\ y.size = x.size /\ y.total = x.total
    /\ y.given = x.given /\ y.auth = x.auth

\* The bytes of O are those of I with the key stream; behind l blocks, the
\* message W that goes into the MAC has those of one or the other.
Enciphers(kind, I, O, W, l) ==
    /\ I \in Messages /\ O \in Messages /\ W \in Messages /\ l \in Nat
    /\ \A k \in Nat : /\ O[k] = Xor(Block + k, I[k])
                      /\ W[l * Block + k] = IF kind \in {"ccm", "gcm_dec"} THEN I[k] ELSE O[k]

\* A context that has been given q blocks and r bytes of its text: the counter
\* of the next block, the key stream of this one, and, if every counter was
\* encrypted, the MAC's blocks, the bytes of the next one, and the output.
Streaming(W, l, O, x, q, r) ==
    /\ q \in Nat /\ r \in 0..(Block - 1) /\ x.ds = q * Block + r
    /\ x.cb = IF r = 0 THEN q + 1 ELSE q + 2
    /\ x.ks \in Nat /\ x.cblock \in Seq(Octets) /\ Len(x.cblock) = Block
    /\ x.missed \in BOOLEAN
    /\ ~x.missed =>
          /\ r # 0 => x.ks = q + 1
          /\ Begins(W, x.cblock, r, l + q)
          /\ x.chain = Pieces(W, 0, l + q) /\ x.out = Cut(O, 0, x.ds)

\* What the bytes of an update lead to
Streams(W, l, O, y, o, m, lost) ==
    /\ OnlyStream(y, o) /\ o.ds = y.ds + m
    /\ lost = {} => o.missed = y.missed
    /\ \E u, v : Streaming(W, l, O, o, u, v)

\* The next byte of a message
LEMMA NextOfCut ==
    ASSUME NEW M \in Messages, NEW n \in Nat
    PROVE  Append(Cut(M, 0, n), M[n]) = Cut(M, 0, n + 1)
<1>1. Cut(M, 0, n) \in Seq(Octets) /\ M[n] \in Octets
  BY CutType, 0 \in Nat DEF Messages
<1>2. Append(Cut(M, 0, n), M[n]) = Cut(M, 0, n) \o <<M[n]>>
  BY <1>1, AppendIsConcat
<1>3. Cut(M, n, 1) = <<M[n]>>
  <2>1. \A i \in 1..1 : n + i - 1 = n
    OBVIOUS
  <2>2. Cut(M, n, 1) = [i \in 1..1 |-> M[n]]
    BY <2>1 DEF Cut
  <2> QED  BY <2>2
<1>4. Cut(M, 0, n) \o Cut(M, n, 1) = Cut(M, 0, n + 1)
  <2> DEFINE o == 0
  <2>1. o \in Nat /\ o + n = n
    OBVIOUS
  <2> HIDE DEF o
  <2>2. Cut(M, o, n) \o Cut(M, o + n, 1) = Cut(M, o, n + 1)
    BY <2>1, CutJoin, 1 \in Nat
  <2> QED  BY <2>1, <2>2 DEF o
<1> QED  BY <1>2, <1>3, <1>4

\* A byte with its byte of the key stream is a byte.
LEMMA XorType ==
    ASSUME NEW key \in Nat, NEW byte \in Octets
    PROVE  Xor(key, byte) \in Octets
<1>1. byte[1] \in Nat /\ byte[2] \in Sources /\ byte[3] \in Nat
  BY DEF Octets
<1> QED  BY <1>1 DEF Xor, Octets

\* A context and the next one, after a byte at place r of a block
Crypted(x, o, lost, r, ks, crypted, cblock) ==
    /\ OnlyStream(x, o) /\ o.ds = x.ds + 1 /\ o.ks = ks
    /\ o.cb = IF r = 0 THEN x.cb + 1 ELSE x.cb
    /\ o.cblock = cblock /\ o.out = Append(x.out, crypted)
    /\ o.missed = (x.missed \/ (r = 0 /\ x.cb \in lost))
    /\ o.chain = IF r = Block - 1 THEN Append(x.chain, cblock) ELSE x.chain

\* The parts of a context after one byte
LEMMA CryptIs ==
    ASSUME NEW kind, NEW lost, NEW x, Shape(x), NEW byte, NEW o, o = Crypt(kind, lost, x, byte),
           NEW r, r = x.ds % Block, NEW ks, ks = IF r = 0 /\ x.cb \notin lost THEN x.cb ELSE x.ks,
           NEW crypted, crypted = Xor(ks * Block + r, byte),
           NEW b, b = IF kind \in {"ccm", "gcm_dec"} THEN byte ELSE crypted,
           NEW cblock, cblock = [x.cblock EXCEPT ![r + 1] = b]
    PROVE  Crypted(x, o, lost, r, ks, crypted, cblock)
<1> DEFINE missed == x.missed \/ (r = 0 /\ x.cb \in lost)
           chain == IF r = Block - 1 THEN Append(x.chain, cblock) ELSE x.chain
           cb == IF r = 0 THEN x.cb + 1 ELSE x.cb
           out == Append(x.out, crypted)
           ds == x.ds + 1
<1>1. o = [x EXCEPT !.ks = ks, !.cb = cb, !.cblock = cblock, !.ds = ds, !.out = out,
                    !.missed = missed, !.chain = chain]
  BY DEF Crypt
<1> HIDE DEF missed, chain, cb, out, ds
<1>2. /\ OnlyStream(x, o) /\ o.ds = ds /\ o.ks = ks /\ o.cb = cb /\ o.cblock = cblock
      /\ o.out = out /\ o.missed = missed /\ o.chain = chain
  BY <1>1 DEF Shape, OnlyStream
<1> QED  BY <1>2 DEF missed, chain, cb, out, ds, Crypted

\* A block with another byte in one place
LEMMA OtherByte ==
    ASSUME NEW s \in Seq(Octets), Len(s) = Block, NEW i \in 1..Block, NEW b \in Octets,
           NEW t, t = [s EXCEPT ![i] = b]
    PROVE  /\ t \in Seq(Octets) /\ Len(t) = Block /\ t[i] = b
           /\ \A k \in 1..Block : k # i => t[k] = s[k]
<1>1. s \in [1..Block -> Octets]
  BY LenProperties
<1>2. t \in [1..Block -> Octets] /\ t[i] = b /\ \A k \in 1..Block : k # i => t[k] = s[k]
  BY <1>1
<1>3. t \in Seq(Octets) /\ Len(t) = Block
  BY <1>2, BlockType, Sequence
<1> QED  BY <1>2, <1>3

\* atcab_aes_ccm_update and calib_aes_gcm_update keep what a context holds,
\* byte by byte.
LEMMA CryptHolds ==
    ASSUME NEW kind, NEW I, NEW O, NEW W, NEW l, Enciphers(kind, I, O, W, l),
           NEW x, Shape(x), NEW q, NEW r, Streaming(W, l, O, x, q, r),
           NEW lost, NEW byte, byte = I[x.ds], NEW o, o = Crypt(kind, lost, x, byte)
    PROVE  Streams(W, l, O, x, o, 1, lost)
<1> DEFINE ds == x.ds
           ks == IF r = 0 /\ x.cb \notin lost THEN x.cb ELSE x.ks
           key == ks * Block + r
           crypted == Xor(key, byte)
           b == IF kind \in {"ccm", "gcm_dec"} THEN byte ELSE crypted
           cblock == [x.cblock EXCEPT ![r + 1] = b]
           u == IF r = Block - 1 THEN q + 1 ELSE q
           v == IF r = Block - 1 THEN 0 ELSE r + 1
<1>1. /\ q \in Nat /\ r \in 0..(Block - 1) /\ r \in Nat /\ ds = q * Block + r
      /\ x.cb = (IF r = 0 THEN q + 1 ELSE q + 2) /\ x.cb \in Nat
      /\ x.ks \in Nat /\ x.cblock \in Seq(Octets) /\ Len(x.cblock) = Block /\ x.missed \in BOOLEAN
  BY BlockType DEF Streaming
<1>2. ds \in Nat /\ ds % Block = r
  BY <1>1, BlockType, Quotient
<1>3. /\ I \in Messages /\ O \in Messages /\ W \in Messages /\ l \in Nat
      /\ O[ds] = Xor(Block + ds, I[ds])
      /\ W[l * Block + ds] = IF kind \in {"ccm", "gcm_dec"} THEN I[ds] ELSE O[ds]
  BY <1>2 DEF Enciphers
<1>4. byte \in Octets /\ O[ds] \in Octets
  BY <1>2, <1>3 DEF Messages
<1>5. ks \in Nat /\ key \in Nat
  BY <1>1, BlockType
<1> HIDE DEF ks, key
<1>6. crypted \in Octets /\ b \in Octets
  BY <1>4, <1>5, XorType
<1>7. /\ OnlyStream(x, o) /\ o.ds = ds + 1 /\ o.ks = ks
      /\ o.cb = (IF r = 0 THEN x.cb + 1 ELSE x.cb)
      /\ o.cblock = cblock /\ o.out = Append(x.out, crypted)
      /\ o.missed = (x.missed \/ (r = 0 /\ x.cb \in lost))
      /\ o.chain = IF r = Block - 1 THEN Append(x.chain, cblock) ELSE x.chain
  <2>1. r = x.ds % Block
    BY <1>2
  <2>2. ks = (IF r = 0 /\ x.cb \notin lost THEN x.cb ELSE x.ks)
    BY DEF ks
  <2>3. crypted = Xor(ks * Block + r, byte)
    BY DEF key
  <2> HIDE DEF crypted
  <2>4. b = IF kind \in {"ccm", "gcm_dec"} THEN byte ELSE crypted
    OBVIOUS
  <2> HIDE DEF b
  <2>5. cblock = [x.cblock EXCEPT ![r + 1] = b]
    OBVIOUS
  <2> HIDE DEF cblock
  <2>6. Crypted(x, o, lost, r, ks, crypted, cblock)
    BY <2>1, <2>2, <2>3, <2>4, <2>5, CryptIs
  <2> QED  BY <2>6 DEF Crypted
<1> HIDE DEF b
<1>8. /\ cblock \in Seq(Octets) /\ Len(cblock) = Block /\ cblock[r + 1] = b
      /\ \A k \in 1..Block : k # r + 1 => cblock[k] = x.cblock[k]
  <2>1. r + 1 \in 1..Block
    BY <1>1, BlockType
  <2> QED  BY <1>1, <1>6, <2>1, OtherByte
<1> HIDE DEF cblock, crypted
<1>9. u \in Nat /\ v \in 0..(Block - 1) /\ ds + 1 = u * Block + v
  <2>1. CASE r = Block - 1
    <3>1. (q + 1) * Block = q * Block + Block
      BY <1>1, BlockType
    <3>2. ds + 1 = (q + 1) * Block + 0
      BY <1>1, <2>1, <3>1, BlockType
    <3> QED  BY <1>1, <2>1, <3>2, BlockType
  <2>2. CASE r # Block - 1
    BY <1>1, <2>2, BlockType
  <2> QED  BY <2>1, <2>2
<1>10. o.cb = IF v = 0 THEN u + 1 ELSE u + 2
  BY <1>1, <1>7, BlockType
<1>11. o.missed \in BOOLEAN /\ (lost = {} => o.missed = x.missed)
  BY <1>1, <1>7
<1>12. ASSUME ~o.missed
       PROVE  /\ v # 0 => o.ks = u + 1
              /\ Begins(W, o.cblock, v, l + u)
              /\ o.chain = Pieces(W, 0, l + u) /\ o.out = Cut(O, 0, o.ds)
  <2>1. /\ ~x.missed /\ r # 0 => x.ks = q + 1
        /\ Begins(W, x.cblock, r, l + q)
        /\ x.chain = Pieces(W, 0, l + q) /\ x.out = Cut(O, 0, ds)
    BY <1>7, <1>12 DEF Streaming
  <2>2. ks = q + 1
    <3>1. r = 0 => x.cb \notin lost /\ x.cb = q + 1
      BY <1>1, <1>7, <1>12
    <3> QED  BY <1>7, <1>12, <2>1, <3>1 DEF ks, Streaming
  <2>3. key = Block + ds
    <3>1. (q + 1) * Block = q * Block + Block
      BY <1>1, BlockType
    <3> QED  BY <1>1, <2>2, <3>1, BlockType DEF key
  <2>4. crypted = O[ds]
    BY <1>3, <2>3 DEF crypted
  <2>5. b = W[l * Block + ds]
    BY <1>3, <2>4 DEF b
  <2>6. Begins(W, cblock, r + 1, l + q)
    <3>1. ASSUME NEW i \in 1..(r + 1) PROVE cblock[i] = W[(l + q) * Block + i - 1]
      <4>1. i \in 1..Block
        BY <1>1, BlockType
      <4>2. CASE i = r + 1
        <5>1. (l + q) * Block = l * Block + q * Block /\ l * Block \in Nat /\ q * Block \in Nat
          BY <1>1, <1>3, BlockType
        <5>2. (l + q) * Block + i - 1 = l * Block + ds
          BY <1>1, <4>2, <5>1
        <5> QED  BY <1>8, <2>5, <4>2, <5>2
      <4>3. CASE i # r + 1
        <5>1. i \in 1..r
          BY <1>1, <4>3
        <5> QED  BY <1>8, <2>1, <4>1, <4>3, <5>1 DEF Begins
      <4> QED  BY <4>2, <4>3
    <3> QED  BY <3>1 DEF Begins
  <2>7. o.out = Cut(O, 0, o.ds)
    <3>1. Append(Cut(O, 0, ds), O[ds]) = Cut(O, 0, ds + 1)
      <4> HIDE DEF ds
      <4> QED  BY <1>2, <1>3, NextOfCut
    <3> QED  BY <1>7, <2>1, <2>4, <3>1
  <2>8. CASE r = Block - 1
    <3>1. Block - 1 + 1 = Block /\ l + q \in Nat /\ l + (q + 1) = (l + q) + 1 /\ 0 + (l + q) = l + q
      BY <1>1, <1>3, BlockType
    <3>2. cblock = Piece(W, l + q)
      <4>1. Begins(W, cblock, Block, l + q)
        BY <2>6, <2>8, <3>1
      <4> DEFINE n == l + q
      <4> HIDE DEF n
      <4>2. n \in Nat /\ Begins(W, cblock, Block, n)
        BY <3>1, <4>1 DEF n
      <4>3. cblock = Piece(W, n)
        BY <1>3, <1>8, <4>2, FullBuffer
      <4> QED  BY <4>3 DEF n
    <3>3. Append(Pieces(W, 0, l + q), Piece(W, l + q)) = Pieces(W, 0, l + q + 1)
      <4> DEFINE n == 0
                 k == l + q
      <4>1. n \in Nat /\ k \in Nat /\ n + k = k
        BY <3>1
      <4> HIDE DEF n, k
      <4>2. Append(Pieces(W, n, k), Piece(W, n + k)) = Pieces(W, n, k + 1)
        BY <1>3, <4>1, NextPiece
      <4> QED  BY <4>1, <4>2 DEF n, k
    <3>4. o.chain = Pieces(W, 0, l + u)
      BY <1>7, <2>1, <2>8, <3>1, <3>2, <3>3
    <3>5. Begins(W, o.cblock, v, l + u)
      BY <2>8 DEF Begins
    <3> QED  BY <2>7, <2>8, <3>4, <3>5
  <2>9. CASE r # Block - 1
    <3>1. u = q /\ v = r + 1
      BY <2>9
    <3> QED  BY <1>7, <2>1, <2>2, <2>6, <2>7, <2>9, <3>1
  <2> QED  BY <2>8, <2>9
<1> HIDE DEF u, v
<1>13. Streaming(W, l, O, o, u, v)
  BY <1>5, <1>7, <1>8, <1>9, <1>10, <1>11, <1>12 DEF Streaming
<1> QED  BY <1>7, <1>11, <1>13 DEF Streams

\* The loop over the bytes of an update: StreamUpdate's
BytesOf(kind, lost, first, s, q, f) ==
    f = [i \in 0..q |-> IF i = 0 THEN first ELSE Crypt(kind, lost, f[i - 1], s[i])]

\* There is such a function.
LEMMA BytesExist ==
    ASSUME NEW kind, NEW lost, NEW first, NEW s, NEW q \in Nat
    PROVE  \E f : BytesOf(kind, lost, first, s, q, f)
<1> DEFINE T == {k \in Nat : \E f : BytesOf(kind, lost, first, s, k, f)}
<1>1. 0 \in T
  <2> DEFINE f == [i \in 0..0 |-> first]
  <2>1. f = [i \in 0..0 |-> IF i = 0 THEN first ELSE Crypt(kind, lost, f[i - 1], s[i])]
    <3>1. \A i \in 0..0 : i = 0
      OBVIOUS
    <3> QED  BY <3>1
  <2> HIDE DEF f
  <2>2. BytesOf(kind, lost, first, s, 0, f)
    BY <2>1 DEF BytesOf
  <2> QED  BY <2>2
<1>2. ASSUME NEW k \in T PROVE k + 1 \in T
  <2>1. PICK f : BytesOf(kind, lost, first, s, k, f)
    OBVIOUS
  <2> DEFINE Next1(y, i) == Crypt(kind, lost, y, s[i])
             g == [i \in 0..(k + 1) |-> IF i = k + 1 THEN Next1(f[k], k + 1) ELSE f[i]]
  <2>2. f = [i \in 0..k |-> IF i = 0 THEN first ELSE Next1(f[i - 1], i)]
    BY <2>1 DEF BytesOf
  <2>3. ASSUME NEW i \in 0..(k + 1) PROVE g[i] = IF i = 0 THEN first ELSE Next1(g[i - 1], i)
    <3> HIDE DEF Next1
    <3>1. CASE i = 0
      <4>1. 0 \in 0..k /\ 0 # k + 1 /\ 0 \in 0..(k + 1)
        OBVIOUS
      <4> QED  BY <2>2, <3>1, <4>1
    <3>2. CASE i = k + 1
      <4>1. i - 1 = k /\ k \in 0..(k + 1) /\ k # k + 1 /\ i # 0
        BY <3>2
      <4>2. g[k] = f[k]
        BY <4>1
      <4> QED  BY <3>2, <4>1, <4>2
    <3>3. CASE i # 0 /\ i # k + 1
      <4>1. i \in 0..k /\ i - 1 \in 0..(k + 1) /\ i - 1 # k + 1
        BY <3>3
      <4>2. g[i] = f[i] /\ g[i - 1] = f[i - 1]
        BY <3>3, <4>1
      <4>3. f[i] = IF i = 0 THEN first ELSE Next1(f[i - 1], i)
        BY <2>2, <4>1
      <4> HIDE DEF g
      <4> QED  BY <3>3, <4>2, <4>3
    <3> QED  BY <3>1, <3>2, <3>3
  <2>4. g = [i \in 0..(k + 1) |-> g[i]]
    OBVIOUS
  <2> HIDE DEF g, Next1
  <2>5. g = [i \in 0..(k + 1) |-> IF i = 0 THEN first ELSE Next1(g[i - 1], i)]
    BY <2>3, <2>4
  <2>6. BytesOf(kind, lost, first, s, k + 1, g)
    BY <2>5 DEF BytesOf, Next1
  <2> QED  BY <2>6
<1>3. T \in SUBSET Nat
  OBVIOUS
<1> HIDE DEF T
<1>4. q \in T
  BY <1>1, <1>2, <1>3, Induction
<1> QED  BY <1>4 DEF T

\* The loop keeps what a context holds.
LEMMA LoopStreams ==
    ASSUME NEW kind, NEW I, NEW O, NEW W, NEW l, Enciphers(kind, I, O, W, l),
           NEW y, Shape(y), NEW q, NEW r, Streaming(W, l, O, y, q, r),
           NEW lost, NEW m \in Nat, NEW s, s = Cut(I, y.ds, m), NEW f, BytesOf(kind, lost, y, s, m, f)
    PROVE  Streams(W, l, O, y, f[m], m, lost)
<1> DEFINE T == {k \in Nat : k <= m => Streams(W, l, O, y, f[k], k, lost)}
<1>1. y.ds \in Nat /\ I \in Messages
  <2>1. q \in Nat /\ r \in 0..(Block - 1) /\ y.ds = q * Block + r
    BY DEF Streaming
  <2> QED  BY <2>1, BlockType DEF Enciphers
<1>2. f = [i \in 0..m |-> IF i = 0 THEN y ELSE Crypt(kind, lost, f[i - 1], s[i])]
  BY DEF BytesOf
<1>3. 0 \in T
  <2>1. f[0] = y
    BY <1>2
  <2>2. y.ds + 0 = y.ds
    BY <1>1
  <2>3. OnlyStream(y, y)
    BY DEF OnlyStream
  <2> QED  BY <2>1, <2>2, <2>3 DEF Streams
<1>4. ASSUME NEW k \in T PROVE k + 1 \in T
  <2> SUFFICES ASSUME k + 1 <= m PROVE Streams(W, l, O, y, f[k + 1], k + 1, lost)
    OBVIOUS
  <2>1. k \in Nat /\ k <= m /\ k + 1 \in 0..m /\ k + 1 # 0 /\ (k + 1) - 1 = k
    OBVIOUS
  <2>2. Streams(W, l, O, y, f[k], k, lost)
    BY <2>1
  <2> DEFINE x == f[k]
             o == f[k + 1]
             byte == s[k + 1]
  <2>3. o = Crypt(kind, lost, x, byte)
    BY <1>2, <2>1
  <2>4. OnlyStream(y, x) /\ x.ds = y.ds + k /\ (lost = {} => x.missed = y.missed) /\ Shape(x)
    BY <2>2 DEF Streams, OnlyStream
  <2>5. byte = I[x.ds]
    <3>1. k + 1 \in 1..m /\ y.ds + (k + 1) - 1 = y.ds + k
      BY <1>1, <2>1
    <3>2. s[k + 1] = I[y.ds + (k + 1) - 1]
      BY <1>1, <3>1, CutType
    <3> QED  BY <2>4, <3>1, <3>2
  <2>6. \E u, v : Streaming(W, l, O, x, u, v)
    BY <2>2 DEF Streams
  <2> HIDE DEF x, o, byte
  <2>7. PICK u, v : Streaming(W, l, O, x, u, v)
    BY <2>6
  <2>8. Streams(W, l, O, x, o, 1, lost)
    BY <2>3, <2>4, <2>5, <2>7, CryptHolds
  <2>9. OnlyStream(y, o)
    BY <2>4, <2>8 DEF OnlyStream, Streams
  <2>10. o.ds = y.ds + (k + 1)
    BY <1>1, <2>1, <2>4, <2>8 DEF Streams
  <2>11. Streams(W, l, O, y, o, k + 1, lost)
    BY <2>4, <2>8, <2>9, <2>10 DEF Streams
  <2> QED  BY <2>11 DEF o
<1>5. T \in SUBSET Nat
  OBVIOUS
<1> HIDE DEF T
<1>6. m \in T
  BY <1>3, <1>4, <1>5, Induction
<1> QED  BY <1>6 DEF T

\* The whole update
LEMMA StreamHolds ==
    ASSUME NEW kind, NEW I, NEW O, NEW W, NEW l, Enciphers(kind, I, O, W, l),
           NEW x, NEW y, y = AadFinish(x), Shape(y), NEW q, NEW r, Streaming(W, l, O, y, q, r),
           NEW lost, NEW m \in Nat, kind \notin Ccm \/ m # 0, NEW s, s = Cut(I, y.ds, m),
           NEW o, o = StreamUpdate(kind, lost, x, s)
    PROVE  Streams(W, l, O, y, o, m, lost)
<1>1. Len(s) = m /\ y.ds \in Nat
  <2>1. q \in Nat /\ r \in 0..(Block - 1) /\ y.ds = q * Block + r
    BY DEF Streaming
  <2>2. y.ds \in Nat /\ I \in Messages
    BY <2>1, BlockType DEF Enciphers
  <2> QED  BY <2>2, CutType
<1>2. ~(kind \in Ccm /\ s = <<>>)
  BY <1>1
<1> DEFINE Eq(f) == BytesOf(kind, lost, y, s, m, f)
           at == CHOOSE f : Eq(f)
<1>3. o = at[m]
  BY <1>1, <1>2 DEF StreamUpdate, BytesOf
<1>4. \E f : Eq(f)
  BY BytesExist
<1>5. Eq(at)
  <2> HIDE DEF Eq
  <2> QED  BY <1>4
<1> HIDE DEF at
<1>6. Streams(W, l, O, y, at[m], m, lost)
  BY <1>5, LoopStreams
<1> QED  BY <1>3, <1>6

-----------------------------------------------------------------------------
(* The messages of CCM and GCM *)

\* What is filled up is whole blocks.
LEMMA FilledType ==
    ASSUME NEW s \in Seq(Octets)
    PROVE  Filled(s) \in Seq(Octets) /\ \E n \in Nat : Len(Filled(s)) = n * Block
<1> DEFINE l == Len(s)
           q == l \div Block
           r == l % Block
           w == (Block - r) % Block
<1>1. l \in Nat
  BY LenProperties
<1>2. q \in Nat /\ r \in 0..(Block - 1) /\ l = q * Block + r
  BY <1>1, Divides
<1>3. Filled(s) = s \o Zeros(w)
  BY DEF Filled
<1> HIDE DEF q, r
<1>4. w \in Nat /\ (r = 0 => w = 0) /\ (r # 0 => w = Block - r)
  <2>1. CASE r = 0
    <3>1. Block - 0 = Block /\ Block % Block = 0
      BY BlockType, Rests, 0 \in 0..(Block - 1)
    <3> QED  BY <2>1, <3>1
  <2>2. CASE r # 0
    <3>1. Block - r \in 0..(Block - 1)
      BY <1>2, <2>2, BlockType
    <3>2. (Block - r) % Block = Block - r
      BY <3>1, Rests
    <3> QED  BY <2>2, <3>1, <3>2, BlockType
  <2> QED  BY <2>1, <2>2
<1> HIDE DEF w
<1>5. Zeros(w) \in Seq(Octets) /\ Len(Zeros(w)) = w
  BY <1>4, ZerosType
<1>6. Filled(s) \in Seq(Octets) /\ Len(Filled(s)) = l + w
  BY <1>3, <1>5, ConcatProperties
<1>7. \E n \in Nat : l + w = n * Block
  <2>1. CASE r = 0
    <3>1. l + w = q * Block
      BY <1>1, <1>2, <1>4, <2>1, BlockType
    <3> QED  BY <1>2, <3>1
  <2>2. CASE r # 0
    <3>1. (q + 1) * Block = q * Block + Block
      BY <1>2, BlockType
    <3>2. l + w = q * Block + Block
      <4>1. l = q * Block + r /\ w = Block - r /\ q * Block \in Nat /\ r \in Nat
        BY <1>2, <1>4, <2>2, BlockType
      <4> QED  BY <4>1, BlockType
    <3> QED  BY <1>2, <3>1, <3>2
  <2> QED  BY <2>1, <2>2
<1> QED  BY <1>6, <1>7

\* A message behind bytes in front of it
Behind(v, M) == [k \in Nat |-> IF k < Len(v) THEN v[k + 1] ELSE M[k - Len(v)]]

\* It begins with those bytes and goes on as the message.
LEMMA BehindType ==
    ASSUME NEW v \in Seq(Octets), NEW M \in Messages, NEW W, W = Behind(v, M)
    PROVE  /\ W \in Messages /\ Cut(W, 0, Len(v)) = v
           /\ \A k \in Nat : W[Len(v) + k] = M[k]
<1> DEFINE l == Len(v)
<1>1. l \in Nat /\ \A i \in 1..l : v[i] \in Octets
  BY LenProperties
<1> HIDE DEF l
<1>2. W = [k \in Nat |-> IF k < l THEN v[k + 1] ELSE M[k - l]]
  BY DEF Behind, l
<1>3. ASSUME NEW k \in Nat PROVE (IF k < l THEN v[k + 1] ELSE M[k - l]) \in Octets
  <2>1. k < l => k + 1 \in 1..l
    BY <1>1
  <2>2. ~(k < l) => k - l \in Nat
    BY <1>1
  <2> QED  BY <1>1, <2>1, <2>2 DEF Messages
<1>4. W \in Messages
  BY <1>2, <1>3 DEF Messages
<1>5. Cut(W, 0, l) = v
  <2>1. Cut(W, 0, l) \in Seq(Octets) /\ Len(Cut(W, 0, l)) = l /\ \A i \in 1..l : Cut(W, 0, l)[i] = W[0 + i - 1]
    BY <1>1, <1>4, CutType, 0 \in Nat
  <2>2. ASSUME NEW i \in 1..l PROVE W[0 + i - 1] = v[i]
    <3>1. 0 + i - 1 \in Nat /\ 0 + i - 1 < l /\ 0 + i - 1 + 1 = i
      BY <1>1
    <3> QED  BY <1>2, <3>1
  <2> HIDE DEF Cut
  <2>3. Len(v) = l
    BY DEF l
  <2> QED  BY <2>1, <2>2, <2>3, SeqEqual
<1>6. ASSUME NEW k \in Nat PROVE W[l + k] = M[k]
  <2> DEFINE n == l + k
  <2>1. n \in Nat /\ ~(n < l) /\ n - l = k
    BY <1>1
  <2> HIDE DEF n
  <2>2. W[n] = M[k]
    BY <1>2, <2>1
  <2> QED  BY <2>2 DEF n
<1> QED  BY <1>4, <1>5, <1>6 DEF l

\* The parts of it are the message's.
LEMMA BehindCut ==
    ASSUME NEW v \in Seq(Octets), NEW M \in Messages, NEW W, W = Behind(v, M), NEW m \in Nat
    PROVE  Cut(W, 0, Len(v) + m) = v \o Cut(M, 0, m)
<1> DEFINE l == Len(v)
           o == 0
<1>1. l \in Nat /\ o \in Nat /\ o + l = l
  BY LenProperties
<1>2. W \in Messages /\ Cut(W, o, l) = v /\ \A k \in Nat : W[l + k] = M[k]
  BY BehindType
<1>3. Cut(W, l, m) = Cut(M, 0, m)
  <2>1. ASSUME NEW i \in 1..m PROVE W[l + i - 1] = M[0 + i - 1]
    <3> DEFINE k == i - 1
    <3>1. k \in Nat /\ l + i - 1 = l + k /\ 0 + i - 1 = k
      BY <1>1
    <3> HIDE DEF k, l
    <3> QED  BY <1>2, <3>1
  <2> HIDE DEF l
  <2> QED  BY <2>1 DEF Cut
<1> HIDE DEF l, o
<1>4. Cut(W, o, l) \o Cut(W, o + l, m) = Cut(W, o, l + m)
  BY <1>1, <1>2, CutJoin
<1> QED  BY <1>1, <1>2, <1>3, <1>4 DEF l, o

\* The text with its key stream
StreamMessage == [k \in Nat |-> Xor(Block + k, Byte("text", k))]

\* The additional data, in CCM with their length in front of them
AuthLength(j) == IF j.kind \in Ccm /\ j.auth > 0 THEN j.auth + 2 ELSE j.auth
AuthMessage(j) ==
    IF j.kind \in Ccm THEN [k \in Nat |-> IF k < 2 THEN AuthSize(j.auth)[k + 1] ELSE Byte("auth", k - 2)]
    ELSE Message("auth")
AuthPrefix(j) == IF j.kind \in Ccm THEN <<Header(j)>> ELSE <<>>
\* AuthPart of a job
AuthBytes(j) ==
    LET auth == Bytes("auth", 0, j.auth)
    IN  IF j.kind \in Gcm THEN Filled(auth)
        ELSE IF auth = <<>> THEN Header(j)
        ELSE Header(j) \o Filled(AuthSize(j.auth) \o auth)

\* A job of CCM or GCM
Authentic(j) == j.kind \in Ccm \cup Gcm /\ j.text \in Nat /\ j.auth \in Nat

\* The length of the additional data is two bytes.
LEMMA AuthSizeType ==
    ASSUME NEW n \in Nat
    PROVE  AuthSize(n) \in Seq(Octets) /\ Len(AuthSize(n)) = 2
<1> DEFINE a == (n \div 256) % 256
           b == n % 256
<1>1. a \in Nat /\ b \in Nat /\ "auth_size" \in Sources
  BY DEF Sources
<1>2. AuthSize(n) = <<Byte("auth_size", a), Byte("auth_size", b)>>
  BY DEF AuthSize
<1> HIDE DEF a, b
<1>3. Byte("auth_size", a) \in Octets /\ Byte("auth_size", b) \in Octets
  BY <1>1, ByteType
<1> QED  BY <1>2, <1>3

\* Messages of these jobs
LEMMA StreamMessageType == StreamMessage \in Messages
<1>1. ASSUME NEW k \in Nat PROVE Xor(Block + k, Byte("text", k)) \in Octets
  <2> DEFINE key == Block + k
  <2>1. key \in Nat /\ "text" \in Sources
    BY BlockType DEF Sources
  <2> HIDE DEF key
  <2>2. Byte("text", k) \in Octets
    BY <2>1, ByteType
  <2>3. Xor(key, Byte("text", k)) \in Octets
    BY <2>1, <2>2, XorType
  <2> QED  BY <2>3 DEF key
<1> QED  BY <1>1 DEF StreamMessage, Messages

\* The additional data are one, too.
LEMMA AuthMessageType ==
    ASSUME NEW j, j.auth \in Nat
    PROVE  StreamMessage \in Messages /\ AuthMessage(j) \in Messages
<1>1. StreamMessage \in Messages
  BY StreamMessageType
<1>2. AuthMessage(j) \in Messages
  <2>1. "auth" \in Sources
    BY DEF Sources
  <2>2. CASE j.kind \in Ccm
    <3>1. ASSUME NEW k \in Nat
          PROVE  (IF k < 2 THEN AuthSize(j.auth)[k + 1] ELSE Byte("auth", k - 2)) \in Octets
      <4>1. CASE k < 2
        <5>1. k + 1 \in 1..2
          BY <4>1
        <5>2. AuthSize(j.auth)[k + 1] \in Octets
          BY <5>1, AuthSizeType
        <5> QED  BY <4>1, <5>2
      <4>2. CASE ~(k < 2)
        <5>1. k - 2 \in Nat
          BY <4>2
        <5> QED  BY <2>1, <4>2, <5>1, ByteType
      <4> QED  BY <4>1, <4>2
    <3> QED  BY <2>2, <3>1 DEF AuthMessage, Messages
  <2>3. CASE j.kind \notin Ccm
    BY <2>1, <2>3, MessageType DEF AuthMessage
  <2> QED  BY <2>2, <2>3
<1> QED  BY <1>1, <1>2

\* The additional data that an update gives are the next bytes of that message.
LEMMA AuthIsCut ==
    ASSUME NEW j, NEW from \in Nat, NEW n \in Nat, NEW skip, skip = IF j.kind \in Ccm THEN 2 ELSE 0
    PROVE  Bytes("auth", from, n) = Cut(AuthMessage(j), from + skip, n)
<1>1. "auth" \in Sources
  BY DEF Sources
<1>2. CASE j.kind \in Ccm
  <2>1. ASSUME NEW i \in 1..n
        PROVE  Byte("auth", from + i - 1) = AuthMessage(j)[from + skip + i - 1]
    <3> DEFINE k == from + skip + i - 1
    <3>1. k \in Nat /\ ~(k < 2) /\ k - 2 = from + i - 1
      BY <1>2
    <3> HIDE DEF k
    <3>2. AuthMessage(j)[k] = Byte("auth", k - 2)
      BY <1>2, <3>1 DEF AuthMessage
    <3> QED  BY <3>1, <3>2 DEF k
  <2> QED  BY <2>1 DEF Bytes, Cut
<1>3. CASE j.kind \notin Ccm
  <2>1. AuthMessage(j) = Message("auth") /\ from + skip = from
    BY <1>3 DEF AuthMessage
  <2> QED  BY <1>1, <2>1, BytesAreCut
<1> QED  BY <1>2, <1>3

\* Its first two bytes are the length.
LEMMA SizeIsCut ==
    ASSUME NEW j, j.kind \in Ccm, j.auth \in Nat
    PROVE  AuthSize(j.auth) = Cut(AuthMessage(j), 0, 2)
<1> DEFINE s == AuthSize(j.auth)
           A == AuthMessage(j)
<1>1. ASSUME NEW i \in 1..2 PROVE s[i] = A[0 + i - 1]
  <2> DEFINE k == 0 + i - 1
  <2>1. k \in Nat /\ k < 2 /\ k + 1 = i
    OBVIOUS
  <2> HIDE DEF k
  <2>2. A[k] = s[k + 1]
    BY <2>1 DEF AuthMessage
  <2> HIDE DEF A, s
  <2> QED  BY <2>1, <2>2 DEF k
<1>2. s \in Seq(Octets) /\ Len(s) = 2
  BY AuthSizeType
<1>3. A \in Messages
  BY AuthMessageType
<1> HIDE DEF s, A
<1>4. Cut(A, 0, 2) \in Seq(Octets) /\ Len(Cut(A, 0, 2)) = 2 /\ \A i \in 1..2 : Cut(A, 0, 2)[i] = A[0 + i - 1]
  BY <1>3, CutType, 0 \in Nat, 2 \in Nat
<1>5. \A i \in 1..2 : s[i] = Cut(A, 0, 2)[i]
  BY <1>1, <1>4
<1> QED  BY <1>2, <1>4, <1>5, SeqEqual DEF s, A

\* The blocks of a message are a sequence of bytes each.
LEMMA BlocksType ==
    ASSUME NEW s \in Seq(Octets)
    PROVE  Blocks(s) \in Seq(Seq(Octets)) /\ Len(Blocks(s)) = Len(s) \div Block
<1> DEFINE l == Len(s)
           m == l \div Block
           g == [k \in 1..m |-> SubSeq(s, (k - 1) * Block + 1, k * Block)]
<1>1. l \in Nat /\ m \in Nat /\ m * Block <= l
  <2>1. l \in Nat
    BY LenProperties
  <2>2. m \in Nat /\ l % Block \in 0..(Block - 1) /\ l = m * Block + (l % Block)
    BY <2>1, Divides
  <2> HIDE DEF m, l
  <2> QED  BY <2>1, <2>2, BlockType
<1>2. Blocks(s) = g
  BY DEF Blocks
<1> HIDE DEF m
<1>3. ASSUME NEW k \in 1..m PROVE SubSeq(s, (k - 1) * Block + 1, k * Block) \in Seq(Octets)
  <2> DEFINE a == (k - 1) * Block + 1
             b == k * Block
  <2>1. (k - 1) * Block \in Nat /\ b \in Nat
    BY <1>1, BlockType
  <2>2. b <= m * Block /\ m * Block \in Int
    BY <1>1, Grows
  <2>3. a \in Int /\ b \in Int /\ a >= 1
    BY <2>1
  <2> HIDE DEF a, b
  <2>4. b <= l
    BY <1>1, <2>2, <2>3
  <2>5. \A i \in a..b : s[i] \in Octets
    <3>1. \A i \in a..b : i \in 1..l
      BY <1>1, <2>3, <2>4
    <3>2. \A i \in 1..l : s[i] \in Octets
      BY LenProperties
    <3> QED  BY <3>1, <3>2
  <2>6. SubSeq(s, a, b) \in Seq(Octets)
    BY <2>3, <2>5, SubSeqProperties
  <2> QED  BY <2>6 DEF a, b
<1>4. g \in [1..m -> Seq(Octets)]
  BY <1>3
<1> HIDE DEF g
<1>5. g \in Seq(Seq(Octets)) /\ Len(g) = m
  BY <1>1, <1>4, Sequence
<1> QED  BY <1>2, <1>5 DEF m

\* Whole blocks, of which these are the blocks
WholeBlocks(v, chain) ==
    /\ v \in Seq(Octets) /\ \E n \in Nat : Len(v) = n * Block
    /\ Blocks(v) = chain

\* What goes into the MAC before the text is whole blocks.
LEMMA AuthIs ==
    ASSUME NEW j, Authentic(j)
    PROVE  /\ WholeBlocks(AuthBytes(j),
                          AuthPrefix(j) \o Blocks(Filled(Cut(AuthMessage(j), 0, AuthLength(j)))))
           /\ AuthPrefix(j) \in Seq(Seq(Octets))
<1> DEFINE A == AuthMessage(j)
           h == Header(j)
           f == Filled(Cut(A, 0, AuthLength(j)))
<1>1. A \in Messages /\ AuthLength(j) \in Nat /\ j.auth \in Nat
  BY AuthMessageType DEF AuthLength, Authentic
<1>2. Cut(A, 0, AuthLength(j)) \in Seq(Octets) /\ Len(Cut(A, 0, AuthLength(j))) = AuthLength(j)
  BY <1>1, CutType, 0 \in Nat
<1>3. f \in Seq(Octets) /\ \E n \in Nat : Len(f) = n * Block
  BY <1>2, FilledType
<1>4. h \in Seq(Octets) /\ Len(h) = Block
  <2> DEFINE k == 2 * (j.text % TextLimit) + (IF j.auth > 0 THEN 1 ELSE 0)
             b == Byte("header", k)
  <2>1. k \in Nat /\ "header" \in Sources
    <3>1. j.text % TextLimit \in Nat
      BY LengthsAssumption DEF Authentic
    <3> QED  BY <3>1 DEF Sources
  <2> HIDE DEF k
  <2>2. b \in Octets
    BY <2>1, ByteType
  <2>3. h = [i \in 1..Block |-> b]
    BY DEF Header, FirstBlock, k
  <2> HIDE DEF b, h
  <2>4. h \in [1..Block -> Octets]
    BY <2>2, <2>3
  <2> QED  BY <2>4, BlockType, Sequence
<1> HIDE DEF h
<1>5. Blocks(f) \in Seq(Seq(Octets)) /\ <<h>> \in Seq(Seq(Octets))
  <2>1. <<h>> \in Seq(Seq(Octets))
    BY <1>4
  <2> HIDE DEF f
  <2> QED  BY <1>3, <2>1, BlocksType
<1>6. CASE j.kind \in Gcm
  <2>1. j.kind \notin Ccm
    BY <1>6 DEF Gcm, Ccm
  <2>2. AuthBytes(j) = f
    <3>1. Bytes("auth", 0, j.auth) = Cut(A, 0 + 0, j.auth)
      BY <1>1, <2>1, AuthIsCut, 0 \in Nat
    <3>2. AuthLength(j) = j.auth /\ 0 + 0 = 0
      BY <2>1 DEF AuthLength
    <3> HIDE DEF A
    <3> QED  BY <1>6, <3>1, <3>2 DEF AuthBytes
  <2>3. AuthPrefix(j) = <<>>
    BY <2>1 DEF AuthPrefix
  <2> HIDE DEF f
  <2>4. Blocks(f) = <<>> \o Blocks(f)
    BY <1>5, ConcatEmptySeq
  <2>5. <<>> \in Seq(Seq(Octets))
    OBVIOUS
  <2> QED  BY <1>3, <2>2, <2>3, <2>4, <2>5 DEF WholeBlocks, f
<1>7. CASE j.kind \in Ccm
  <2>1. j.kind \notin Gcm /\ AuthPrefix(j) = <<h>>
    BY <1>7 DEF Gcm, Ccm, AuthPrefix, h
  <2>2. AuthBytes(j) = h \o f
    <3>1. Bytes("auth", 0, j.auth) = Cut(A, 0 + 2, j.auth)
      BY <1>1, <1>7, AuthIsCut, 0 \in Nat
    <3>2. Len(Cut(A, 0 + 2, j.auth)) = j.auth /\ Cut(A, 0 + 2, j.auth) \in Seq(Octets)
      BY <1>1, CutType, 0 + 2 \in Nat
    <3>3. CASE j.auth = 0
      <4>1. Bytes("auth", 0, j.auth) = <<>>
        BY <3>3 DEF Bytes
      <4>2. AuthBytes(j) = h
        BY <2>1, <4>1 DEF AuthBytes, h
      <4>3. Len(Cut(A, 0, AuthLength(j))) = 0
        BY <1>2, <3>3 DEF AuthLength
      <4>4. Filled(Cut(A, 0, AuthLength(j))) = Cut(A, 0, AuthLength(j))
        BY <1>2, <4>3, BlockType, FilledBlock
      <4>5. f = <<>>
        BY <1>2, <4>3, <4>4, EmptySeq
      <4> HIDE DEF f
      <4> QED  BY <1>4, <4>2, <4>5, ConcatEmptySeq
    <3>4. CASE j.auth # 0
      <4>1. Bytes("auth", 0, j.auth) # <<>>
        BY <1>1, <3>1, <3>2, <3>4
      <4>2. AuthBytes(j) = h \o Filled(AuthSize(j.auth) \o Bytes("auth", 0, j.auth))
        BY <2>1, <4>1 DEF AuthBytes, h
      <4>3. AuthSize(j.auth) = Cut(A, 0, 2)
        BY <1>1, <1>7, SizeIsCut
      <4>4. Cut(A, 0, 2) \o Cut(A, 0 + 2, j.auth) = Cut(A, 0, 2 + j.auth)
        BY <1>1, CutJoin, 0 \in Nat, 2 \in Nat
      <4>5. AuthLength(j) = 2 + j.auth
        BY <1>1, <1>7, <3>4 DEF AuthLength
      <4> HIDE DEF A
      <4> QED  BY <3>1, <4>2, <4>3, <4>4, <4>5
    <3> QED  BY <3>3, <3>4
  <2> HIDE DEF f
  <2>3. h \o f \in Seq(Octets) /\ Len(h \o f) = Block + Len(f)
    BY <1>3, <1>4, ConcatProperties
  <2>4. \E n \in Nat : Len(h \o f) = n * Block
    <3>1. PICK n \in Nat : Len(f) = n * Block
      BY <1>3
    <3>2. (n + 1) * Block = Block + n * Block /\ n + 1 \in Nat
      BY BlockType
    <3> QED  BY <2>3, <3>1, <3>2
  <2>5. Blocks(h \o f) = Blocks(h) \o Blocks(f)
    <3>1. Len(h) = 1 * Block /\ 1 \in Nat
      BY <1>4, BlockType
    <3> QED  BY <1>3, <1>4, <3>1, BlocksJoin
  <2>6. Blocks(h) = <<h>>
    BY <1>4, OnlyBlock
  <2> QED  BY <1>5, <2>1, <2>2, <2>3, <2>4, <2>5, <2>6 DEF WholeBlocks, f
<1> QED  BY <1>6, <1>7 DEF Authentic

\* What goes into the MAC behind the additional data, what the updates are
\* given, and what they hand out
MacText(j) == IF j.kind \in Ccm THEN Message("text") ELSE StreamMessage
MacMessage(j) == Behind(AuthBytes(j), MacText(j))
InMessage(j) == IF j.kind \in {"ccm_dec", "gcm_dec"} THEN StreamMessage ELSE Message("text")
OutMessage(j) == IF j.kind \in {"ccm", "gcm"} THEN StreamMessage ELSE Message("text")
\* The blocks of the additional data
AuthBlocks(j) == Len(AuthBytes(j)) \div Block

\* These are messages.
LEMMA TextsType ==
    ASSUME NEW j
    PROVE  MacText(j) \in Messages /\ InMessage(j) \in Messages /\ OutMessage(j) \in Messages
<1>1. Message("text") \in Messages /\ StreamMessage \in Messages
  BY MessageType, StreamMessageType DEF Sources
<1> QED  BY <1>1 DEF MacText, InMessage, OutMessage

\* The key stream turns what is given into what is handed out.
LEMMA OutIs ==
    ASSUME NEW j, Authentic(j), NEW k \in Nat
    PROVE  /\ OutMessage(j)[k] = Xor(Block + k, InMessage(j)[k])
           /\ MacText(j)[k] = IF j.kind \in {"ccm", "gcm_dec"} THEN InMessage(j)[k] ELSE OutMessage(j)[k]
<1> DEFINE key == Block + k
           b == Byte("text", k)
<1>1. key # 0
  BY BlockType
<1>2. Message("text")[k] = b /\ StreamMessage[k] = Xor(key, b)
  BY DEF Message, StreamMessage
<1> HIDE DEF key
<1>3. Xor(key, Xor(key, b)) = b
  BY <1>1 DEF Xor, Byte
<1> HIDE DEF b
<1>4. CASE j.kind \in {"ccm", "gcm"}
  <2>1. InMessage(j) = Message("text") /\ OutMessage(j) = StreamMessage
    BY <1>4 DEF InMessage, OutMessage
  <2>2. j.kind = "ccm" => MacText(j) = Message("text")
    BY DEF MacText, Ccm
  <2>3. j.kind = "gcm" => MacText(j) = StreamMessage
    BY DEF MacText, Ccm
  <2> QED  BY <1>2, <1>4, <2>1, <2>2, <2>3 DEF key
<1>5. CASE j.kind \in {"ccm_dec", "gcm_dec"}
  <2>1. InMessage(j) = StreamMessage /\ OutMessage(j) = Message("text")
    BY <1>5 DEF InMessage, OutMessage
  <2>2. j.kind = "ccm_dec" => MacText(j) = Message("text")
    BY DEF MacText, Ccm
  <2>3. j.kind = "gcm_dec" => MacText(j) = StreamMessage
    BY DEF MacText, Ccm
  <2> QED  BY <1>2, <1>3, <1>5, <2>1, <2>2, <2>3 DEF key
<1> QED  BY <1>4, <1>5 DEF Authentic, Ccm, Gcm

\* The message that goes into the MAC
LEMMA MacIs ==
    ASSUME NEW j, Authentic(j)
    PROVE  /\ Enciphers(j.kind, InMessage(j), OutMessage(j), MacMessage(j), AuthBlocks(j))
           /\ AuthBytes(j) \in Seq(Octets) /\ AuthBlocks(j) \in Nat /\ MacMessage(j) \in Messages
           /\ Len(AuthBytes(j)) = AuthBlocks(j) * Block
           /\ Pieces(MacMessage(j), 0, AuthBlocks(j)) = Blocks(AuthBytes(j))
<1> DEFINE v == AuthBytes(j)
           W == MacMessage(j)
           l == AuthBlocks(j)
           M == MacText(j)
<1>1. v \in Seq(Octets) /\ \E n \in Nat : Len(v) = n * Block
  BY AuthIs DEF WholeBlocks
<1>2. l \in Nat /\ Len(v) = l * Block
  <2>1. PICK n \in Nat : Len(v) = n * Block
    BY <1>1
  <2>2. (n * Block + 0) \div Block = n /\ n * Block + 0 = n * Block
    BY Quotient, BlockType, 0 \in 0..(Block - 1)
  <2>3. l = n
    BY <2>1, <2>2 DEF AuthBlocks
  <2> QED  BY <2>1, <2>3
<1>3. M \in Messages
  BY TextsType
<1> HIDE DEF l
<1>4. W \in Messages /\ Cut(W, 0, l * Block) = v /\ \A k \in Nat : W[l * Block + k] = M[k]
  <2>1. W = Behind(v, M)
    BY DEF MacMessage
  <2> HIDE DEF W, v, M
  <2>2. W \in Messages /\ Cut(W, 0, Len(v)) = v /\ \A k \in Nat : W[Len(v) + k] = M[k]
    BY <1>1, <1>3, <2>1, BehindType
  <2> QED  BY <1>2, <2>2
<1> HIDE DEF W
<1>5. Pieces(W, 0, l) = Blocks(v)
  <2>1. l * Block = l * Block + 0 /\ 0 \in Nat
    BY <1>2, BlockType
  <2> DEFINE given == l * Block
  <2>2. Splits(W, l, 0, given)
    <3>1. given = l * Block + 0
      BY <2>1
    <3> HIDE DEF given
    <3> QED  BY <1>2, <1>4, <2>1, <3>1, TextSplits
  <2> QED  BY <1>4, <2>2 DEF Splits
<1>6. Enciphers(j.kind, InMessage(j), OutMessage(j), W, l)
  <2>1. ASSUME NEW k \in Nat
        PROVE  /\ OutMessage(j)[k] = Xor(Block + k, InMessage(j)[k])
               /\ W[l * Block + k] = IF j.kind \in {"ccm", "gcm_dec"} THEN InMessage(j)[k] ELSE OutMessage(j)[k]
    BY <1>4, OutIs
  <2> QED  BY <1>2, <1>4, <2>1, TextsType DEF Enciphers
<1> QED  BY <1>1, <1>2, <1>4, <1>5, <1>6 DEF l, W

\* A context whose additional data are coming
Authenticating(j, x) ==
    /\ x.auth \in 0..j.auth /\ x.given = 0 /\ x.out = <<>> /\ x.ds = 0 /\ x.cb = 1 /\ x.ks = 0
    /\ x.missed = FALSE /\ x.cblock \in Seq(Octets) /\ Len(x.cblock) = Block
    /\ \E n \in Nat :
          /\ Holding(j.kind, AuthMessage(j), x,
                     x.auth + (IF j.kind \in Ccm /\ j.auth > 0 THEN 2 ELSE 0), n)
          /\ x.chain = AuthPrefix(j) \o Pieces(AuthMessage(j), 0, n)

\* A context whose additional data are complete
Ready(j, x) ==
    /\ x.size = 0 /\ x.auth = j.auth /\ x.ds = x.given /\ x.given \in 0..j.text
    /\ j.kind \in Gcm => x.total = j.auth /\ x.missed = FALSE
    /\ \E q, r : Streaming(MacMessage(j), AuthBlocks(j), OutMessage(j), x, q, r)

\* atcab_aes_ccm_aad_finish completes them.
LEMMA AadFinishes ==
    ASSUME NEW j, Authentic(j), NEW x, Shape(x), Authenticating(j, x), x.auth = j.auth,
           NEW y, y = AadFinish(x)
    PROVE  /\ Shape(y) /\ Ready(j, y) /\ y.missed = FALSE
           /\ y.given = x.given /\ y.phase = x.phase /\ y.out = x.out
<1> DEFINE A == AuthMessage(j)
           L == AuthLength(j)
           size == x.size
           t == Take(x.buf, size)
           p == AuthPrefix(j)
<1>1. A \in Messages /\ L \in Nat /\ j.auth \in Nat /\ j.text \in Nat
  BY AuthMessageType DEF AuthLength, Authentic
<1>2. x.auth + (IF j.kind \in Ccm /\ j.auth > 0 THEN 2 ELSE 0) = L
  BY <1>1 DEF AuthLength
<1>3. PICK n \in Nat : Holding(j.kind, A, x, L, n) /\ x.chain = p \o Pieces(A, 0, n)
  BY <1>2 DEF Authenticating
<1>4. /\ size \in 0..(Block - 1) /\ size \in Nat /\ L = n * Block + size
      /\ x.buf \in Seq(Octets) /\ Len(x.buf) = Block /\ Begins(A, x.buf, size, n)
      /\ x.total = n * Block
  <2>1. j.kind \in Buffered /\ j.kind \notin {"cmac", "dec", "dec_pad"}
    BY DEF Authentic, Buffered, Ccm, Gcm
  <2>2. size \in 0..Block /\ size < Block
    BY <1>3, <2>1 DEF Holding
  <2>3. size \in 0..(Block - 1) /\ size \in Nat
    BY <2>2, BlockType
  <2> QED  BY <1>3, <2>1, <2>3 DEF Holding
<1> HIDE DEF A, L, p
<1>5. t = Cut(A, n * Block, size)
  <2>1. size \in 0..Block
    BY <1>4, BlockType
  <2> QED  BY <1>1, <1>4, <2>1, RestOfBuffer
<1>6. FillsUp(A, n, size, L)
  BY <1>1, <1>4, FilledEnds
<1>7. p \in Seq(Seq(Octets)) /\ Blocks(AuthBytes(j)) = p \o Blocks(Filled(Cut(A, 0, L)))
  BY AuthIs DEF WholeBlocks, A, L, p
<1>8. Pieces(A, 0, n) \in Seq(Seq(Octets))
  BY <1>1, PiecesType, 0 \in Nat
<1>9. t \in Seq(Octets) /\ Filled(t) \in Seq(Octets)
  <2> DEFINE k == n * Block
  <2>1. k \in Nat
    BY BlockType
  <2> HIDE DEF k
  <2>2. Cut(A, k, size) \in Seq(Octets)
    BY <1>1, <1>4, <2>1, CutType
  <2>3. t \in Seq(Octets)
    BY <1>5, <2>2 DEF k
  <2> HIDE DEF t
  <2> QED  BY <2>3, FilledType
<1> HIDE DEF t, size
<1>10. /\ Shape(y) /\ y.phase = x.phase /\ y.buf = x.buf /\ y.ks = x.ks /\ y.cb = x.cb
       /\ y.cblock = x.cblock /\ y.ds = x.ds /\ y.out = x.out /\ y.given = x.given
       /\ y.auth = x.auth /\ y.missed = x.missed /\ y.size = 0
       /\ y.chain = (IF size = 0 THEN x.chain ELSE Append(x.chain, Filled(t)))
       /\ y.total = (IF size = 0 THEN x.total ELSE x.total + size)
  <2>1. CASE size = 0
    <3>1. y = x
      BY <2>1 DEF AadFinish, size
    <3> QED  BY <2>1, <3>1 DEF size
  <2>2. CASE size # 0
    <3> DEFINE chain == Append(x.chain, Filled(t))
               total == x.total + size
    <3>1. y = [x EXCEPT !.chain = chain, !.total = total, !.size = 0]
      BY <2>2 DEF AadFinish, size, t
    <3> HIDE DEF chain, total
    <3>2. /\ Shape(y) /\ y.phase = x.phase /\ y.buf = x.buf /\ y.ks = x.ks /\ y.cb = x.cb
          /\ y.cblock = x.cblock /\ y.ds = x.ds /\ y.out = x.out /\ y.given = x.given
          /\ y.auth = x.auth /\ y.missed = x.missed /\ y.size = 0
          /\ y.chain = chain /\ y.total = total
      BY <3>1 DEF Shape
    <3> QED  BY <2>2, <3>2 DEF chain, total
  <2> QED  BY <2>1, <2>2
<1>11. y.chain = Blocks(AuthBytes(j))
  <2>1. (p \o Pieces(A, 0, n)) \o Blocks(Filled(t)) = p \o (Pieces(A, 0, n) \o Blocks(Filled(t)))
    <3>1. Blocks(Filled(t)) \in Seq(Seq(Octets))
      BY <1>9, BlocksType
    <3> QED  BY <1>7, <1>8, <3>1, ConcatAssociative
  <2>2. Blocks(AuthBytes(j)) = x.chain \o Blocks(Filled(t))
    BY <1>3, <1>5, <1>6, <1>7, <2>1 DEF FillsUp
  <2>3. x.chain \in Seq(Seq(Octets))
    BY <1>3, <1>7, <1>8, ConcatProperties
  <2>4. CASE size = 0
    <3>1. Blocks(Filled(t)) = <<>>
      BY <1>5, <1>6, <2>4 DEF FillsUp
    <3> QED  BY <1>10, <2>2, <2>3, <2>4, <3>1, ConcatEmptySeq
  <2>5. CASE size # 0
    <3>1. Blocks(Filled(t)) = <<Filled(t)>>
      BY <1>5, <1>6, <2>5 DEF FillsUp
    <3>2. Append(x.chain, Filled(t)) = x.chain \o <<Filled(t)>>
      BY <1>9, <2>3, AppendIsConcat
    <3> QED  BY <1>10, <2>2, <2>5, <3>1, <3>2
  <2> QED  BY <2>4, <2>5
<1>12. j.kind \in Gcm => y.total = j.auth
  <2>1. y.total = L
    <3> DEFINE k == n * Block
    <3>1. k \in Nat
      BY BlockType
    <3> HIDE DEF k
    <3> QED  BY <1>4, <1>10, <3>1 DEF k
  <2>2. j.kind \in Gcm => L = j.auth
    BY DEF L, AuthLength, Ccm, Gcm
  <2> QED  BY <2>1, <2>2
<1>13. Streaming(MacMessage(j), AuthBlocks(j), OutMessage(j), y, 0, 0)
  <2> DEFINE l == AuthBlocks(j)
             W == MacMessage(j)
  <2>1. l \in Nat /\ Pieces(W, 0, l) = Blocks(AuthBytes(j))
    BY MacIs
  <2> HIDE DEF l, W
  <2>2. /\ y.ds = 0 /\ y.cb = 1 /\ y.ks = 0 /\ y.missed = FALSE /\ y.out = <<>>
        /\ y.cblock \in Seq(Octets) /\ Len(y.cblock) = Block
    BY <1>10 DEF Authenticating
  <2>3. 0 = 0 * Block + 0 /\ 0 \in 0..(Block - 1) /\ l + 0 = l /\ 0 \in Nat /\ 0 + 1 = 1
    BY <2>1, BlockType
  <2>4. Cut(OutMessage(j), 0, 0) = <<>>
    BY DEF Cut
  <2>5. Begins(W, y.cblock, 0, l + 0)
    BY DEF Begins
  <2> QED  BY <1>11, <2>1, <2>2, <2>3, <2>4, <2>5 DEF Streaming, l, W
<1>14. y.given = 0 /\ y.ds = 0 /\ y.missed = FALSE /\ y.auth = j.auth /\ 0 \in 0..j.text
  BY <1>1, <1>10 DEF Authenticating
<1> QED  BY <1>10, <1>12, <1>13, <1>14 DEF Ready

\* The updates' input is cut from that message.
LEMMA InputIsCut ==
    ASSUME NEW j, Authentic(j), NEW from \in 0..j.text, NEW m \in 0..(j.text - from)
    PROVE  SubSeq(Input(j), from + 1, from + m) = Cut(InMessage(j), from, m)
<1> DEFINE I == InMessage(j)
           text == j.text
<1>1. I \in Messages /\ text \in Nat
  BY TextsType DEF Authentic
<1>2. Input(j) = Cut(I, 0, text)
  <2>1. ASSUME NEW i \in 1..text
        PROVE  (IF j.kind \in {"ccm_dec", "gcm_dec"} THEN Xor(Block + i - 1, Byte("text", i - 1))
                ELSE Byte("text", i - 1)) = I[0 + i - 1]
    <3> DEFINE k == i - 1
    <3>1. k \in Nat /\ 0 + i - 1 = k /\ Block + i - 1 = Block + k
      BY <1>1, BlockType
    <3> HIDE DEF k
    <3>2. I[k] = IF j.kind \in {"ccm_dec", "gcm_dec"} THEN Xor(Block + k, Byte("text", k)) ELSE Byte("text", k)
      BY <3>1 DEF InMessage, StreamMessage, Message
    <3> HIDE DEF I
    <3> QED  BY <3>1, <3>2 DEF k
  <2> QED  BY <2>1 DEF Input, Cut
<1>3. SubSeq(Cut(I, 0, text), from + 1, from + m) = Cut(I, 0 + from, from + m - from)
  <2> DEFINE b == from + m
  <2>1. from \in 0..text /\ b \in from..text
    BY <1>1
  <2> HIDE DEF I, b
  <2>2. SubSeq(Cut(I, 0, text), from + 1, b) = Cut(I, 0 + from, b - from)
    BY <1>1, <2>1, PartOfCut, 0 \in Nat
  <2> QED  BY <2>2 DEF b
<1>4. 0 + from = from /\ from + m - from = m
  BY <1>1
<1> QED  BY <1>2, <1>3, <1>4

\* The context after an update of the text
Fed(z, m) == [z EXCEPT !.given = @ + m, !.phase = "data"]

\* An update keeps a context ready: atcab_aes_ccm_encrypt_update and
\* _decrypt_update, calib_aes_gcm_encrypt_update and _decrypt_update.
LEMMA StreamReady ==
    ASSUME NEW j, Authentic(j), NEW x, NEW y, y = AadFinish(x), Shape(y), Ready(j, y),
           x.given = y.given, NEW m \in 0..(j.text - x.given), j.kind \notin Ccm \/ m # 0,
           NEW lost, j.kind \in Ccm \/ lost = {},
           NEW s, s = SubSeq(Input(j), x.given + 1, x.given + m),
           NEW z, z = StreamUpdate(j.kind, lost, x, s),
           NEW o, o = Fed(z, m)
    PROVE  Shape(o) /\ Ready(j, o) /\ o.phase = "data"
<1> DEFINE W == MacMessage(j)
           l == AuthBlocks(j)
           O == OutMessage(j)
           I == InMessage(j)
           kind == j.kind
<1>1. /\ y.size = 0 /\ y.auth = j.auth /\ y.ds = y.given /\ y.given \in 0..j.text
      /\ kind \in Gcm => y.total = j.auth /\ y.missed = FALSE
      /\ \E q, r : Streaming(W, l, O, y, q, r)
  BY DEF Ready
<1>2. j.text \in Nat /\ m \in Nat /\ y.given \in Nat
  BY <1>1 DEF Authentic
<1>3. s = Cut(I, y.ds, m)
  <2>1. y.given \in 0..j.text /\ m \in 0..(j.text - y.given)
    BY <1>1
  <2>2. SubSeq(Input(j), y.given + 1, y.given + m) = Cut(I, y.given, m)
    BY <2>1, InputIsCut
  <2> QED  BY <1>1, <2>2
<1>4. Enciphers(kind, I, O, W, l)
  BY MacIs
<1> HIDE DEF W, l, O, I
<1>5. PICK q, r : Streaming(W, l, O, y, q, r)
  BY <1>1
<1>6. Streams(W, l, O, y, z, m, lost)
  BY <1>2, <1>3, <1>4, <1>5, StreamHolds
<1>7. /\ Shape(z) /\ z.buf = y.buf /\ z.size = y.size /\ z.total = y.total
      /\ z.given = y.given /\ z.auth = y.auth /\ z.ds = y.ds + m
      /\ lost = {} => z.missed = y.missed
      /\ \E u, v : Streaming(W, l, O, z, u, v)
  BY <1>6 DEF Streams, OnlyStream
<1>8. PICK u, v : Streaming(W, l, O, z, u, v)
  BY <1>7
<1>9. /\ Shape(o) /\ o.phase = "data" /\ o.given = z.given + m /\ o.size = z.size /\ o.total = z.total
      /\ o.auth = z.auth /\ o.ds = z.ds /\ o.cb = z.cb /\ o.ks = z.ks /\ o.cblock = z.cblock
      /\ o.missed = z.missed /\ o.chain = z.chain /\ o.out = z.out
  BY <1>7 DEF Shape, Fed
<1>10. Streaming(W, l, O, o, u, v)
  BY <1>8, <1>9 DEF Streaming
<1>11. o.given \in 0..j.text /\ o.ds = o.given
  BY <1>1, <1>2, <1>7, <1>9
<1>12. kind \in Gcm => lost = {}
  BY DEF Ccm, Gcm
<1> QED  BY <1>1, <1>7, <1>9, <1>10, <1>11, <1>12 DEF Ready, W, l, O

\* What a ready context says of the message for the MAC
Behinds(j, x, rest) ==
    \E n \in Nat, r \in 0..(Block - 1) :
        LET given == Len(AuthBytes(j)) + x.given
        IN  /\ given = n * Block + r
            /\ x.chain = Pieces(MacMessage(j), 0, n) /\ rest = Cut(MacMessage(j), n * Block, r)
            /\ Cut(MacMessage(j), 0, given) = AuthBytes(j) \o Cut(MacText(j), 0, x.given)

\* Its blocks and the bytes of the last one are that message.
LEMMA ReadyIs ==
    ASSUME NEW j, Authentic(j), NEW x, Ready(j, x), ~x.missed
    PROVE  /\ Behinds(j, x, Take(x.cblock, x.ds % Block))
           /\ x.out = Cut(OutMessage(j), 0, x.given)
<1> DEFINE W == MacMessage(j)
           l == AuthBlocks(j)
           O == OutMessage(j)
           v == AuthBytes(j)
           M == MacText(j)
           ds == x.given
<1>1. x.ds = ds /\ ds \in Nat /\ \E q, r : Streaming(W, l, O, x, q, r)
  BY DEF Ready, Authentic
<1>2. /\ v \in Seq(Octets) /\ l \in Nat /\ W \in Messages /\ Len(v) = l * Block /\ M \in Messages
  BY MacIs, TextsType
<1>3. W = Behind(v, M)
  BY DEF MacMessage
<1> HIDE DEF W, l, O, v, M, ds
<1>4. PICK q, r : Streaming(W, l, O, x, q, r)
  BY <1>1
<1>5. /\ q \in Nat /\ r \in 0..(Block - 1) /\ ds = q * Block + r
      /\ x.cblock \in Seq(Octets) /\ Len(x.cblock) = Block /\ Begins(W, x.cblock, r, l + q)
      /\ x.chain = Pieces(W, 0, l + q) /\ x.out = Cut(O, 0, ds)
  BY <1>1, <1>4 DEF Streaming
<1> DEFINE n == l + q
<1>6. n \in Nat /\ Len(v) + ds = n * Block + r
  <2>1. (l + q) * Block = l * Block + q * Block /\ l * Block \in Nat /\ q * Block \in Nat
    BY <1>2, <1>5, BlockType
  <2> QED  BY <1>2, <1>5, <2>1, BlockType
<1>7. x.ds % Block = r
  BY <1>1, <1>5, Quotient
<1> HIDE DEF n
<1>8. Take(x.cblock, r) = Cut(W, n * Block, r)
  <2>1. r \in 0..Block /\ Begins(W, x.cblock, r, n)
    BY <1>5, BlockType DEF n
  <2> QED  BY <1>2, <1>5, <1>6, <2>1, RestOfBuffer
<1>9. Cut(W, 0, Len(v) + ds) = v \o Cut(M, 0, ds)
  BY <1>1, <1>2, <1>3, BehindCut
<1>10. x.chain = Pieces(W, 0, n)
  BY <1>5 DEF n
<1> QED  BY <1>5, <1>6, <1>7, <1>8, <1>9, <1>10 DEF Behinds, W, v, M, ds, O

\* What it has processed and still holds is the message so far.
LEMMA ReadyHolds ==
    ASSUME NEW j, Authentic(j), NEW x, Ready(j, x), ~x.missed
    PROVE  AuthBytes(j) \o Cut(MacText(j), 0, x.given) = Joined(x.chain, Take(x.cblock, x.ds % Block))
<1> DEFINE W == MacMessage(j)
           given == Len(AuthBytes(j)) + x.given
           rest == Take(x.cblock, x.ds % Block)
<1>1. W \in Messages
  BY MacIs
<1>2. Behinds(j, x, rest)
  BY ReadyIs
<1> HIDE DEF W, given, rest
<1>3. PICK n \in Nat, r \in 0..(Block - 1) :
          /\ given = n * Block + r
          /\ x.chain = Pieces(W, 0, n) /\ rest = Cut(W, n * Block, r)
          /\ Cut(W, 0, given) = AuthBytes(j) \o Cut(MacText(j), 0, x.given)
  BY <1>2 DEF Behinds, W, given
<1>4. r \in 0..Block
  BY BlockType
<1>5. Joined(Pieces(W, 0, n), Cut(W, n * Block, r)) = Cut(W, 0, n * Block + r)
  BY <1>1, <1>4, JoinedIsText
<1> QED  BY <1>3, <1>5 DEF rest

\* At its end the MAC is over the additional data and the text, each filled up.
LEMMA ReadyEnds ==
    ASSUME NEW j, Authentic(j), NEW x, Ready(j, x), ~x.missed
    PROVE  x.chain \o Blocks(Filled(Take(x.cblock, x.ds % Block)))
              = Blocks(AuthBytes(j) \o Filled(Cut(MacText(j), 0, x.given)))
<1> DEFINE W == MacMessage(j)
           v == AuthBytes(j)
           given == Len(AuthBytes(j)) + x.given
           rest == Take(x.cblock, x.ds % Block)
           s == Cut(MacText(j), 0, x.given)
<1>1. /\ W \in Messages /\ v \in Seq(Octets) /\ AuthBlocks(j) \in Nat /\ Len(v) = AuthBlocks(j) * Block
  BY MacIs
<1>2. Behinds(j, x, rest) /\ s \in Seq(Octets)
  <2>1. MacText(j) \in Messages /\ x.given \in Nat
    BY TextsType DEF Ready, Authentic
  <2> QED  BY <2>1, ReadyIs, CutType, 0 \in Nat
<1> HIDE DEF W, given, rest, v, s
<1>3. PICK n \in Nat, r \in 0..(Block - 1) :
          /\ given = n * Block + r
          /\ x.chain = Pieces(W, 0, n) /\ rest = Cut(W, n * Block, r)
          /\ Cut(W, 0, given) = v \o s
  BY <1>2 DEF Behinds, W, given, v, s
<1>4. FillsUp(W, n, r, given)
  BY <1>1, <1>3, FilledEnds
<1>5. Blocks(Filled(Cut(W, 0, given))) = Pieces(W, 0, n) \o Blocks(Filled(rest))
  BY <1>3, <1>4 DEF FillsUp
<1>6. Filled(v \o s) = v \o Filled(s)
  BY <1>1, <1>2, FilledJoins
<1> QED  BY <1>3, <1>5, <1>6 DEF rest, v, s

\* Chains of blocks go together in any order.
LEMMA BlocksAssociate ==
    ASSUME NEW s \in Seq(Seq(Octets)), NEW t \in Seq(Seq(Octets)), NEW u \in Seq(Seq(Octets))
    PROVE  (s \o t) \o u = s \o (t \o u)
  BY ConcatAssociative, SMTT(30)

\* The context of CCM or GCM that was started
StartOf(j) ==
    LET x == [Cleared EXCEPT !.phase = "aad"]
    IN  CASE j.kind \in Ccm /\ j.auth > 0 ->
                [x EXCEPT !.chain = <<Header(j)>>, !.size = 2,
                          !.buf = Put(@, 0, AuthSize(j.auth))]
          [] j.kind \in Ccm /\ j.auth = 0 -> [x EXCEPT !.chain = <<Header(j)>>]
          [] OTHER -> x

\* The length field of CCM's additional data goes in front of them.
LEMMA AuthStarts ==
    ASSUME NEW j, Authentic(j), NEW o, o = StartOf(j)
    PROVE  Shape(o) /\ o.phase = "aad" /\ Authenticating(j, o)
<1> DEFINE z == Zeros(Block)
           A == AuthMessage(j)
           p == AuthPrefix(j)
           buf == Put(z, 0, AuthSize(j.auth))
           skip == IF j.kind \in Ccm /\ j.auth > 0 THEN 2 ELSE 0
           x == [Cleared EXCEPT !.phase = "aad"]
<1>1. z \in Seq(Octets) /\ Len(z) = Block
  BY BlockType, ZerosType
<1>2. j.auth \in Nat /\ j.kind \in Buffered /\ j.kind \notin {"cmac", "dec", "dec_pad"}
  BY DEF Authentic, Buffered, Ccm, Gcm
<1> HIDE DEF z
<1>3. /\ Shape(x) /\ x.phase = "aad" /\ x.buf = z /\ x.size = 0 /\ x.total = 0 /\ x.chain = <<>>
      /\ x.ks = 0 /\ x.cb = 1 /\ x.cblock = z /\ x.ds = 0 /\ x.out = <<>> /\ x.given = 0
      /\ x.auth = 0 /\ x.missed = FALSE
  <2>1. x = [Cleared EXCEPT !.phase = "aad"]
    OBVIOUS
  <2> HIDE DEF x
  <2> QED  BY <2>1 DEF Cleared, Shape, z
<1>4. o = IF j.kind \in Ccm /\ j.auth > 0
          THEN [x EXCEPT !.chain = <<Header(j)>>, !.size = 2, !.buf = Put(@, 0, AuthSize(j.auth))]
          ELSE IF j.kind \in Ccm THEN [x EXCEPT !.chain = <<Header(j)>>] ELSE x
  BY <1>2 DEF StartOf
<1> HIDE DEF x
<1>5. /\ Shape(o) /\ o.phase = "aad" /\ o.total = 0 /\ o.chain = p /\ o.size = skip
      /\ o.buf = (IF skip = 2 THEN buf ELSE z)
      /\ o.ks = 0 /\ o.cb = 1 /\ o.cblock = z /\ o.ds = 0 /\ o.out = <<>> /\ o.given = 0
      /\ o.auth = 0 /\ o.missed = FALSE
  <2>1. CASE j.kind \in Ccm /\ j.auth > 0
    <3> DEFINE h == <<Header(j)>>
    <3>1. o = [x EXCEPT !.chain = h, !.size = 2, !.buf = buf] /\ p = h /\ skip = 2
      BY <1>3, <1>4, <2>1 DEF AuthPrefix
    <3> HIDE DEF h, buf, p, skip
    <3> QED  BY <1>3, <3>1 DEF Shape
  <2>2. CASE j.kind \in Ccm /\ ~(j.auth > 0)
    <3> DEFINE h == <<Header(j)>>
    <3>1. o = [x EXCEPT !.chain = h] /\ p = h /\ skip = 0
      BY <1>3, <1>4, <2>2 DEF AuthPrefix
    <3> HIDE DEF h, buf, p, skip
    <3> QED  BY <1>3, <3>1 DEF Shape
  <2>3. CASE j.kind \notin Ccm
    <3>1. o = x /\ p = <<>> /\ skip = 0
      BY <1>4, <2>3 DEF AuthPrefix
    <3> HIDE DEF buf, p, skip
    <3> QED  BY <1>3, <3>1
  <2> QED  BY <2>1, <2>2, <2>3
<1>6. skip = 2 => buf \in Seq(Octets) /\ Len(buf) = Block /\ Begins(A, buf, 2, 0)
  <2> SUFFICES ASSUME skip = 2 PROVE buf \in Seq(Octets) /\ Len(buf) = Block /\ Begins(A, buf, 2, 0)
    OBVIOUS
  <2> DEFINE s == AuthSize(j.auth)
  <2>1. A \in Messages
    BY <1>2, AuthMessageType
  <2>2. s = Cut(A, 0, 2)
    <3>1. j.kind \in Ccm
      OBVIOUS
    <3> QED  BY <1>2, <3>1, SizeIsCut
  <2>3. s \in Seq(Octets) /\ Len(s) = 2 /\ \A i \in 1..2 : s[i] = A[0 + i - 1]
    <3> HIDE DEF A, s
    <3> QED  BY <2>1, <2>2, CutType, 0 \in Nat, 2 \in Nat
  <2> HIDE DEF s, A
  <2>4. 0 + Len(s) <= Len(z) /\ 0 \in Nat
    BY <1>1, <2>3, BlockType
  <2>5. /\ buf \in Seq(Octets) /\ Len(buf) = Len(z) /\ \A i \in 1..Len(s) : buf[0 + i] = s[i]
    BY <1>1, <2>3, <2>4, PutType DEF s
  <2> HIDE DEF buf
  <2>6. ASSUME NEW i \in 1..2 PROVE buf[i] = A[0 * Block + i - 1]
    <3>1. i \in 1..Len(s) /\ 0 + i = i /\ 0 * Block + i - 1 = 0 + i - 1
      BY <2>3, BlockType
    <3> QED  BY <2>3, <2>5, <3>1
  <2> QED  BY <1>1, <2>5, <2>6 DEF Begins
<1>7. skip \in {0, 2} /\ skip < Block /\ skip \in 0..Block /\ skip = 0 * Block + skip /\ 0 + skip = skip
  BY BlockType
<1>8. Holding(j.kind, A, o, 0 + skip, 0)
  <2>1. Begins(A, o.buf, o.size, 0) /\ o.buf \in Seq(Octets) /\ Len(o.buf) = Block
    <3>1. CASE skip = 2
      <4> HIDE DEF skip, buf, A
      <4> QED  BY <1>5, <1>6, <3>1
    <3>2. CASE skip = 0
      <4> HIDE DEF skip, buf, A
      <4> QED  BY <1>1, <1>5, <3>2 DEF Begins
    <3> QED  BY <1>7, <3>1, <3>2
  <2>2. 0 = 0 * Block /\ 0 \in Nat
    BY BlockType
  <2> HIDE DEF skip, buf, A
  <2> QED  BY <1>2, <1>5, <1>7, <2>1, <2>2 DEF Holding
<1>9. Pieces(A, 0, 0) = <<>> /\ p \o <<>> = p
  <2>1. p \in Seq(Seq(Octets))
    BY AuthIs
  <2> QED  BY <2>1, ConcatEmptySeq DEF Pieces
<1>10. \E n \in Nat : Holding(j.kind, A, o, o.auth + skip, n) /\ o.chain = p \o Pieces(A, 0, n)
  <2> HIDE DEF skip, buf, p, A
  <2> QED  BY <1>5, <1>8, <1>9
<1>11. 0 \in 0..j.auth
  BY <1>2
<1> QED  BY <1>1, <1>5, <1>10, <1>11 DEF Authenticating

\* The context after an update of the additional data
FedAuth(r, m) == [r.after EXCEPT !.chain = @ \o r.blocks, !.auth = @ + m]

\* atcab_aes_ccm_aad_update, calib_aes_gcm_aad_update
LEMMA AadHolds ==
    ASSUME NEW j, Authentic(j), NEW x, Shape(x), Authenticating(j, x), NEW m \in 1..(j.auth - x.auth),
           NEW r, r = BufferedUpdate(x, Bytes("auth", x.auth, m)),
           NEW o, o = FedAuth(r, m)
    PROVE  Shape(o) /\ o.phase = x.phase /\ Authenticating(j, o)
<1> DEFINE A == AuthMessage(j)
           p == AuthPrefix(j)
           skip == IF j.kind \in Ccm /\ j.auth > 0 THEN 2 ELSE 0
           given == x.auth + skip
           after == r.after
<1>1. /\ x.auth \in 0..j.auth /\ j.auth \in Nat /\ m \in Nat /\ m >= 1 /\ x.auth + m <= j.auth
      /\ x.auth \in Nat /\ j.kind \in Buffered
  BY DEF Authenticating, Authentic, Buffered
<1>2. A \in Messages /\ p \in Seq(Seq(Octets))
  BY <1>1, AuthMessageType, AuthIs
<1>3. skip = (IF j.kind \in Ccm THEN 2 ELSE 0) /\ skip \in Nat
  BY <1>1
<1>4. PICK n \in Nat : Holding(j.kind, A, x, given, n) /\ x.chain = p \o Pieces(A, 0, n)
  BY DEF Authenticating
<1>5. Bytes("auth", x.auth, m) = Cut(A, given, m)
  <2> HIDE DEF skip
  <2> QED  BY <1>1, <1>3, AuthIsCut
<1> HIDE DEF A, p, skip, given
<1>6. /\ OnlyBuffer(x, after)
      /\ \E q \in Nat : r.blocks = Pieces(A, n, q) /\ Holding(j.kind, A, after, given + m, n + q)
  <2>1. LET rr == BufferedUpdate(x, Cut(A, given, m))
        IN  /\ OnlyBuffer(x, rr.after)
            /\ \E q \in Nat : rr.blocks = Pieces(A, n, q) /\ Holding(j.kind, A, rr.after, given + m, n + q)
    BY <1>1, <1>2, <1>4, BufferedHolds
  <2>2. r = BufferedUpdate(x, Cut(A, given, m))
    BY <1>5
  <2> QED  BY <2>1, <2>2
<1>7. PICK q \in Nat : r.blocks = Pieces(A, n, q) /\ Holding(j.kind, A, after, given + m, n + q)
  BY <1>6
<1> HIDE DEF after
<1>8. /\ Shape(o) /\ o.phase = x.phase /\ o.chain = x.chain \o r.blocks /\ o.auth = x.auth + m
      /\ o.ks = x.ks /\ o.cb = x.cb /\ o.cblock = x.cblock /\ o.ds = x.ds /\ o.out = x.out
      /\ o.given = x.given /\ o.missed = x.missed
      /\ o.buf = after.buf /\ o.size = after.size /\ o.total = after.total
  BY <1>6 DEF OnlyBuffer, Shape, after, FedAuth
<1>9. Holding(j.kind, A, o, given + m, n + q)
  BY <1>2, <1>7, <1>8, HoldingIsKept
<1>10. o.auth + skip = given + m
  BY <1>1, <1>3, <1>8 DEF given
<1>11. o.chain = p \o Pieces(A, 0, n + q)
  <2>1. Pieces(A, 0, n) \o Pieces(A, n, q) = Pieces(A, 0, n + q)
    <3> DEFINE k == 0
    <3>1. k \in Nat /\ k + n = n
      OBVIOUS
    <3> HIDE DEF k
    <3>2. Pieces(A, k, n) \o Pieces(A, k + n, q) = Pieces(A, k, n + q)
      BY <1>2, <3>1, PiecesJoin
    <3> QED  BY <3>1, <3>2 DEF k
  <2>2. Pieces(A, 0, n) \in Seq(Seq(Octets)) /\ Pieces(A, n, q) \in Seq(Seq(Octets))
    BY <1>2, PiecesType, 0 \in Nat
  <2>3. (p \o Pieces(A, 0, n)) \o Pieces(A, n, q) = p \o (Pieces(A, 0, n) \o Pieces(A, n, q))
    <3> DEFINE a == Pieces(A, 0, n)
               b == Pieces(A, n, q)
    <3> HIDE DEF a, b
    <3>1. a \in Seq(Seq(Octets)) /\ b \in Seq(Seq(Octets))
      BY <2>2 DEF a, b
    <3>2. (p \o a) \o b = p \o (a \o b)
      BY <1>2, <3>1, BlocksAssociate
    <3> QED  BY <3>2 DEF a, b
  <2> QED  BY <1>4, <1>7, <1>8, <2>1, <2>3
<1>12. n + q \in Nat /\ o.auth \in 0..j.auth
  BY <1>1, <1>8
<1>13. \E k \in Nat : Holding(j.kind, A, o, o.auth + skip, k) /\ o.chain = p \o Pieces(A, 0, k)
  BY <1>9, <1>10, <1>11, <1>12
<1> QED  BY <1>8, <1>12, <1>13 DEF Authenticating, A, p, skip

\* What is within the limit is its own rest.
LEMMA Within ==
    ASSUME NEW n \in Nat, NEW m \in Nat, n < m
    PROVE  n % m = n
  OBVIOUS

\* The lengths that are not too long are written as the standard has them.
LEMMA RefAuthIs ==
    ASSUME NEW c, Authentic(job[c]), ~TooLong(c)
    PROVE  RefAuthPart(c) = AuthBytes(job[c])
<1> DEFINE j == job[c]
<1>1. CASE j.kind \in Gcm
  BY <1>1 DEF RefAuthPart, BeforeText, AuthBytes
<1>2. CASE j.kind \in Ccm
  <2>1. j.text < TextLimit /\ j.auth < AadLimit /\ j.text \in Nat /\ j.auth \in Nat
    BY <1>2, LengthsAssumption DEF TooLong, Authentic
  <2>2. RefAuthSize(j.auth) = AuthSize(j.auth)
    BY <2>1 DEF RefAuthSize
  <2>3. FirstBlock(j, j.text) = Header(j)
    <3>1. j.text % TextLimit = j.text
      BY <2>1, LengthsAssumption, Within
    <3> QED  BY <3>1 DEF Header
  <2> QED  BY <2>2, <2>3 DEF RefAuthPart, BeforeText, AuthBytes
<1> QED  BY <1>1, <1>2 DEF Authentic

\* The references of CCM and GCM are about those messages.
LEMMA StreamIs ==
    ASSUME NEW c, Authentic(job[c]), NEW n \in 0..job[c].text
    PROVE  /\ Text(c) = Cut(Message("text"), 0, job[c].text)
           /\ Stream(c) = Cut(StreamMessage, 0, job[c].text)
           /\ AuthPart(c) = AuthBytes(job[c])
           /\ ~TooLong(c) => RefAuthPart(c) = AuthBytes(job[c])
           /\ Take(Text(c), n) = Cut(Message("text"), 0, n)
           /\ Take(Stream(c), n) = Cut(StreamMessage, 0, n)
<1> DEFINE text == job[c].text
<1>1. text \in Nat /\ "text" \in Sources
  BY DEF Authentic, Sources
<1>2. Text(c) = Cut(Message("text"), 0, text)
  <2>1. Bytes("text", 0, text) = Cut(Message("text"), 0, text)
    <3> HIDE DEF text
    <3> QED  BY <1>1, BytesAreCut, 0 \in Nat
  <2> QED  BY <2>1 DEF Text
<1>3. Stream(c) = Cut(StreamMessage, 0, text)
  <2>1. ASSUME NEW i \in 1..text PROVE Xor(Block + i - 1, Text(c)[i]) = StreamMessage[0 + i - 1]
    <3> DEFINE k == i - 1
    <3>1. k \in Nat /\ 0 + i - 1 = k /\ Block + i - 1 = Block + k
      BY <1>1, BlockType
    <3>2. Text(c)[i] = Byte("text", 0 + i - 1)
      BY DEF Text, Bytes
    <3> HIDE DEF k
    <3>3. StreamMessage[k] = Xor(Block + k, Byte("text", k))
      BY <3>1 DEF StreamMessage
    <3> QED  BY <3>1, <3>2, <3>3
  <2> QED  BY <2>1 DEF Stream, Cut
<1>4. AuthPart(c) = AuthBytes(job[c])
  BY DEF AuthPart, BeforeText, AuthBytes
<1>5. Message("text") \in Messages /\ StreamMessage \in Messages /\ n \in 0..text
  BY <1>1, MessageType, AuthMessageType DEF Authentic
<1>7. ~TooLong(c) => RefAuthPart(c) = AuthBytes(job[c])
  BY RefAuthIs
<1> HIDE DEF text
<1>6. /\ Take(Cut(Message("text"), 0, text), n) = Cut(Message("text"), 0, n)
      /\ Take(Cut(StreamMessage, 0, text), n) = Cut(StreamMessage, 0, n)
  BY <1>1, <1>5, TakeOfCut, 0 \in Nat
<1> QED  BY <1>2, <1>3, <1>4, <1>6, <1>7 DEF text

\* What the standards say is handed out.
HandsOut(c, x, r) == r.ok /\ r.chain = RefChain(c) /\ x.out \o r.last = RefOut(c)

\* The ends of CCM and GCM: tag and output are the standard's, if every counter
\* was encrypted.
LEMMA AuthEnds ==
    ASSUME NEW c, NEW j, j = job[c], Authentic(j), NEW x, NEW y, y = AadFinish(x),
           j.kind \in Ccm => y = x, Ready(j, y), y.given = j.text, ~y.missed, x.out = y.out,
           ~TooLong(c),
           NEW r, r = FinishOf(j, x)
    PROVE  HandsOut(c, x, r)
<1> SUFFICES r.ok /\ r.chain = RefChain(c) /\ x.out \o r.last = RefOut(c)
  BY DEF HandsOut
<1> DEFINE v == AuthBytes(j)
           O == OutMessage(j)
           M == MacText(j)
           text == j.text
           b == Byte("counter", 0)
           chain == Blocks(v \o Filled(Cut(M, 0, text)))
           bits == <<Byte("bits", 8 * j.auth), Byte("bits", 8 * j.text)>>
<1>1. text \in Nat /\ j.auth \in Nat /\ text \in 0..text /\ v \in Seq(Octets) /\ M \in Messages /\ O \in Messages
  BY MacIs, TextsType DEF Authentic
<1>2. y.chain \o Blocks(Filled(Take(y.cblock, y.ds % Block))) = chain
  BY ReadyEnds
<1>3. y.out = Cut(O, 0, text)
  BY ReadyIs
<1>4. /\ Text(c) = Cut(Message("text"), 0, text)
      /\ Stream(c) = Cut(StreamMessage, 0, text)
      /\ RefAuthPart(c) = v
  BY <1>1, StreamIs
<1>5. Append(Cut(O, 0, text), b) = Cut(O, 0, text) \o <<b>>
  <2>1. b \in Octets /\ Cut(O, 0, text) \in Seq(Octets)
    BY <1>1, ByteType, CutType, 0 \in Nat DEF Sources
  <2> HIDE DEF b, O, text
  <2> QED  BY <2>1, AppendIsConcat
<1>6. Append(chain, bits) = chain \o <<bits>>
  <2>1. Cut(M, 0, text) \in Seq(Octets)
    BY <1>1, CutType, 0 \in Nat
  <2>2. Filled(Cut(M, 0, text)) \in Seq(Octets)
    BY <2>1, FilledType
  <2>3. chain \in Seq(Seq(Octets))
    <3> DEFINE w == v \o Filled(Cut(M, 0, text))
    <3>1. w \in Seq(Octets)
      BY <1>1, <2>2, ConcatProperties
    <3> HIDE DEF w
    <3>2. Blocks(w) \in Seq(Seq(Octets))
      BY <3>1, BlocksType
    <3> QED  BY <3>2 DEF w
  <2>4. bits \in Seq(Octets)
    <3>1. 8 * j.auth \in Nat /\ 8 * j.text \in Nat /\ "bits" \in Sources
      BY <1>1 DEF Sources
    <3>2. Byte("bits", 8 * j.auth) \in Octets /\ Byte("bits", 8 * j.text) \in Octets
      BY <3>1, ByteType
    <3> QED  BY <3>2
  <2> HIDE DEF chain, bits
  <2> QED  BY <2>3, <2>4, AppendIsConcat
<1>7. Authenticates(c)
  BY DEF Authenticates, Authentic
<1>8. RefOut(c) = Append(Cut(O, 0, text), b)
  <2>1. RefOut(c) = Append(IF j.kind \in {"ccm", "gcm"} THEN Stream(c) ELSE Text(c), b)
    BY <1>7 DEF RefOut, Authenticates, Ccm, Gcm
  <2> QED  BY <1>4, <2>1 DEF OutMessage
<1>9. CASE j.kind \in Ccm
  <2>1. r = [ok |-> TRUE, chain |-> CcmLast(x), last |-> <<b>>]
    BY <1>9 DEF FinishOf, Ccm, Gcm
  <2>2. CcmLast(x) = chain
    BY <1>2, <1>9 DEF CcmLast
  <2>3. RefChain(c) = Blocks(RefAuthPart(c) \o Filled(Text(c)))
    BY <1>9 DEF RefChain, Ccm, Gcm
  <2>4. RefChain(c) = chain
    BY <1>4, <1>9, <2>3 DEF MacText
  <2> HIDE DEF chain, b
  <2>5. r.ok /\ r.chain = chain /\ r.last = <<b>>
    BY <2>1, <2>2
  <2> QED  BY <1>3, <1>5, <1>8, <2>4, <2>5
<1>10. CASE j.kind \in Gcm
  <2>0. j.kind \notin Ccm
    BY <1>10 DEF Ccm, Gcm
  <2>1. r = [ok |-> TRUE, chain |-> GcmLast(x), last |-> <<b>>]
    BY <1>10 DEF FinishOf, Ccm, Gcm
  <2>2. y.total = j.auth /\ y.ds = j.text
    BY <1>10 DEF Ready
  <2>3. GcmLast(x) = chain \o <<bits>>
    <3>1. GcmLast(x) = (y.chain \o Blocks(Filled(Take(y.cblock, y.ds % Block))))
                          \o <<<<Byte("bits", 8 * y.total), Byte("bits", 8 * y.ds)>>>>
      BY DEF GcmLast
    <3> HIDE DEF chain
    <3> QED  BY <1>2, <2>2, <3>1
  <2>4. RefChain(c) = Append(Blocks(RefAuthPart(c) \o Filled(Stream(c))), bits)
    BY <1>10 DEF RefChain, Ccm, Gcm
  <2>5. RefChain(c) = Append(chain, bits)
    BY <1>4, <2>0, <2>4 DEF MacText
  <2> HIDE DEF chain, b, bits
  <2>6. r.ok /\ r.chain = chain \o <<bits>> /\ r.last = <<b>>
    BY <2>1, <2>3
  <2> QED  BY <1>3, <1>5, <1>6, <1>8, <2>5, <2>6
<1> QED  BY <1>9, <1>10 DEF Authentic

\* CCM without text whose additional data are whole blocks has completed them.
LEMMA NothingLeft ==
    ASSUME NEW j, Authentic(j), NEW x, Authenticating(j, x), x.auth = j.auth,
           j.auth = 0 \/ (j.auth + 2) % Block = 0, j.kind \in Ccm
    PROVE  AadFinish(x) = x
<1>1. j.auth \in Nat
  BY DEF Authentic
<1>2. PICK n \in Nat :
          Holding(j.kind, AuthMessage(j), x, x.auth + (IF j.kind \in Ccm /\ j.auth > 0 THEN 2 ELSE 0), n)
  BY DEF Authenticating
<1> DEFINE given == x.auth + (IF j.kind \in Ccm /\ j.auth > 0 THEN 2 ELSE 0)
<1>3. x.size \in 0..(Block - 1) /\ given = n * Block + x.size
  <2>1. j.kind \notin {"cmac", "dec", "dec_pad"}
    BY DEF Ccm
  <2>2. x.size \in 0..Block /\ x.size < Block /\ given = n * Block + x.size
    BY <1>2, <2>1 DEF Holding
  <2> HIDE DEF given
  <2> QED  BY <2>2, BlockType
<1>4. given % Block = x.size
  BY <1>3, Quotient
<1>5. given % Block = 0
  <2>1. CASE j.auth = 0
    <3>1. given = 0
      BY <2>1
    <3>2. 0 % Block = 0
      BY Rests, BlockType, 0 \in 0..(Block - 1)
    <3> QED  BY <3>1, <3>2
  <2>2. CASE j.auth # 0
    <3>1. given = j.auth + 2
      BY <1>1, <2>2
    <3> QED  BY <2>2, <3>1
  <2> QED  BY <2>1, <2>2
<1> QED  BY <1>4, <1>5 DEF AadFinish

-----------------------------------------------------------------------------
(* The invariant *)

\* Where the blocks of a context go
ChainOf(c) == IF OnEngine(c) THEN engine.chain ELSE ctx[c].chain

\* A hash, a MAC or CBC under way holds what has been given to it.
Partway(c) ==
    /\ ctx[c].out = <<>> /\ ctx[c].given <= job[c].text
    /\ \E n \in Nat : /\ Holding(job[c].kind, Message("text"), ctx[c], ctx[c].given, n)
                      /\ ~torn[c] => ChainOf(c) = Pieces(Message("text"), 0, n)

\* So do CCM and GCM; an operation that is done is the standard's, and a
\* decryption is done or refused as its text has it.
Gathering(c) ==
    /\ Shape(ctx[c]) /\ ctx[c].phase \in {"new", "aad", "data", "failed", "done", "refused"}
    /\ ctx[c].phase = "aad" => Authenticates(c) /\ Authenticating(job[c], ctx[c])
    /\ ctx[c].phase = "data" => IF Authenticates(c) THEN Ready(job[c], ctx[c]) ELSE Partway(c)
    /\ ctx[c].phase = "done" /\ ~torn[c] /\ ~Known(c) => IsReference(c)
    /\ ctx[c].phase = "done" /\ Decrypts(c) => Acceptable(job[c])
    /\ ctx[c].phase = "refused" => Decrypts(c) /\ ~Acceptable(job[c])

HInv ==
    /\ job \in Setups
    /\ DOMAIN ctx = Contexts /\ ctx = [c \in Contexts |-> ctx[c]]
    /\ DOMAIN torn = Contexts /\ torn = [c \in Contexts |-> torn[c]]
    /\ engine = [on |-> engine.on, mode |-> engine.mode, chain |-> engine.chain]
    /\ \A c \in Contexts : Gathering(c)

-----------------------------------------------------------------------------
(* Every step keeps the invariant *)

\* What is known of a job
LEMMA JobType ==
    ASSUME HInv, NEW c \in Contexts
    PROVE  /\ job[c].kind \in Kinds /\ job[c].text \in Nat /\ job[c].auth \in Nat
           /\ job[c].pad \in 0..Block /\ (job[c].kind # "dec_pad" => job[c].pad = 0)
           /\ Authenticates(c) => Authentic(job[c])
  BY SetupsAssumption DEF HInv, Authenticates, Authentic

\* The references are about the job alone.
LEMMA ReferencesStay ==
    ASSUME NEW c, job' = job
    PROVE  /\ RefChain(c)' = RefChain(c) /\ RefOut(c)' = RefOut(c) /\ RefPlain(c)' = RefPlain(c)
           /\ OnEngine(c)' = OnEngine(c) /\ Authenticates(c)' = Authenticates(c)
           /\ Decrypts(c)' = Decrypts(c)
  BY DEF RefChain, RefOut, RefPlain, Text, RefAuthPart, Stream, Authenticates, OnEngine, Decrypts

\* What is known of an operation that is done is about its context alone.
LEMMA DoneStays ==
    ASSUME NEW d, job' = job, ctx'[d] = ctx[d]
    PROVE  IsReference(d)' = IsReference(d) /\ Known(d)' = Known(d)
<1>1. /\ RefChain(d)' = RefChain(d) /\ RefOut(d)' = RefOut(d) /\ RefPlain(d)' = RefPlain(d)
      /\ Decrypts(d)' = Decrypts(d)
  BY ReferencesStay
<1>2. PlainText(d)' = PlainText(d)
  BY DEF PlainText
<1>3. IsReference(d)' = IsReference(d)
  BY <1>1, <1>2 DEF IsReference
<1>4. Known(d)' = Known(d)
  BY DEF Known, TooLong
<1> QED  BY <1>3, <1>4

\* A context that is not called keeps what it has, unless it is torn.
LEMMA OthersKeep ==
    ASSUME NEW d, Gathering(d), job' = job, ctx'[d] = ctx[d], torn[d] => torn'[d],
           ctx[d].phase = "data" /\ OnEngine(d) /\ ~torn'[d] => engine'.chain = engine.chain
    PROVE  Gathering(d)'
<1>1. /\ OnEngine(d)' = OnEngine(d) /\ Authenticates(d)' = Authenticates(d)
      /\ Decrypts(d)' = Decrypts(d)
  BY ReferencesStay
<1>2. IsReference(d)' = IsReference(d) /\ Known(d)' = Known(d)
  BY DoneStays
<1>3. ctx[d].phase = "data" /\ ~torn'[d] => ChainOf(d)' = ChainOf(d)
  BY <1>1 DEF ChainOf
<1>4. ctx[d].phase = "data" /\ Partway(d) => Partway(d)'
  BY <1>3 DEF Partway
<1>5. ctx'[d].phase = "done" /\ ~torn'[d] /\ ~Known(d)' => IsReference(d)'
  BY <1>2 DEF Gathering
<1>6. /\ ctx'[d].phase = "aad" => Authenticates(d)' /\ Authenticating(job'[d], ctx'[d])
      /\ ctx'[d].phase = "done" /\ Decrypts(d)' => Acceptable(job'[d])
      /\ ctx'[d].phase = "refused" => Decrypts(d)' /\ ~Acceptable(job'[d])
  BY <1>1 DEF Gathering
<1>7. ctx'[d].phase = "data" => IF Authenticates(d)' THEN Ready(job'[d], ctx'[d]) ELSE Partway(d)'
  BY <1>1, <1>4 DEF Gathering
<1>8. Shape(ctx'[d]) /\ ctx'[d].phase \in {"new", "aad", "data", "failed", "done", "refused"}
  BY DEF Gathering
<1> QED  BY <1>5, <1>6, <1>7, <1>8 DEF Gathering

\* An operation that failed claims nothing.
LEMMA FailedKeeps ==
    ASSUME NEW c, Gathering(c), ctx'[c] = [ctx[c] EXCEPT !.phase = "failed"]
    PROVE  Gathering(c)'
<1>1. Shape(ctx[c])
  BY DEF Gathering
<1>2. Shape(ctx'[c]) /\ ctx'[c].phase = "failed"
  BY <1>1 DEF Shape
<1> QED  BY <1>2 DEF Gathering

\* Using the engine tears the other operations on it.
LEMMA TearsOthers ==
    ASSUME HInv, NEW c \in Contexts, Tears(c)
    PROVE  /\ \A d \in Contexts : torn[d] => torn'[d]
           /\ \A d \in Contexts : d # c /\ ctx[d].phase = "data" /\ OnEngine(d) => torn'[d]
           /\ DOMAIN torn' = Contexts /\ torn' = [e \in Contexts |-> torn'[e]]
  BY DEF Tears, Open, HInv

\* A command that fails ends its own context's operation.
LEMMA FaultKeeps ==
    ASSUME HInv, NEW c \in Contexts, Fault(c), job' = job
    PROVE  HInv'
<1>1. ctx' = [ctx EXCEPT ![c].phase = "failed"]
  BY DEF Fault, Fail
<1>2. /\ DOMAIN ctx' = Contexts /\ ctx' = [e \in Contexts |-> ctx'[e]]
      /\ ctx'[c] = [ctx[c] EXCEPT !.phase = "failed"]
      /\ \A d \in Contexts : d # c => ctx'[d] = ctx[d]
  BY <1>1 DEF HInv
<1>3. /\ engine' = [on |-> engine'.on, mode |-> engine'.mode, chain |-> engine'.chain]
      /\ engine'.chain = engine.chain
  BY DEF Fault, HInv
<1>4. /\ DOMAIN torn' = Contexts /\ torn' = [e \in Contexts |-> torn'[e]]
      /\ \A d \in Contexts : d # c /\ torn[d] => torn'[d]
  BY DEF Fault, Tears, HInv
<1>5. ASSUME NEW d \in Contexts, d # c PROVE Gathering(d)'
  <2>1. Gathering(d) /\ ctx'[d] = ctx[d] /\ (torn[d] => torn'[d])
    BY <1>2, <1>4, <1>5 DEF HInv
  <2> QED  BY <1>3, <2>1, OthersKeep
<1>6. Gathering(c)'
  BY <1>2, FailedKeeps DEF HInv
<1> QED  BY <1>2, <1>3, <1>4, <1>5, <1>6 DEF HInv

\* Nothing has been given to a context that was started.
LEMMA StartHolds ==
    ASSUME NEW M, NEW kind, NEW x, x = [Cleared EXCEPT !.phase = "data"]
    PROVE  /\ Shape(x) /\ x.phase = "data" /\ x.out = <<>> /\ x.chain = <<>> /\ x.given = 0
           /\ Holding(kind, M, x, 0, 0) /\ Pieces(M, 0, 0) = <<>>
<1>1. Zeros(Block) \in Seq(Octets) /\ Len(Zeros(Block)) = Block
  BY BlockType, ZerosType
<1> DEFINE z == Zeros(Block)
<1> HIDE DEF z
<1>2. /\ Shape(x) /\ x.phase = "data" /\ x.out = <<>> /\ x.chain = <<>> /\ x.given = 0
      /\ x.buf = z /\ x.size = 0 /\ x.total = 0
  BY DEF Cleared, Shape, z
<1>3. 0 * Block = 0 /\ 0 \in 0..Block /\ 0 < Block /\ 0 = 0 * Block + 0
  BY BlockType
<1>4. Begins(M, x.buf, 0, 0)
  BY DEF Begins
<1>5. Holding(kind, M, x, 0, 0)
  BY <1>1, <1>2, <1>3, <1>4 DEF Holding, z
<1> QED  BY <1>2, <1>5 DEF Pieces

\* The start of an operation
LEMMA StartKeeps ==
    ASSUME HInv, NEW c \in Contexts, Start(c)
    PROVE  HInv'
<1>1. CASE Fault(c)
  BY <1>1, FaultKeeps DEF Start
<1>2. CASE ~Fault(c)
  <2> DEFINE y == ctx'[c]
             T == Message("text")
  <2>1. \E z : ctx' = [ctx EXCEPT ![c] = z]
    BY <1>2 DEF Start
  <2>2. /\ DOMAIN ctx' = Contexts /\ ctx' = [e \in Contexts |-> ctx'[e]]
        /\ \A d \in Contexts : d # c => ctx'[d] = ctx[d]
    BY <2>1 DEF HInv
  <2>3. /\ job' = job
        /\ \/ OnEngine(c) /\ engine' = [on |-> TRUE, mode |-> job[c].kind, chain |-> <<>>] /\ Tears(c)
           \/ ~OnEngine(c) /\ engine' = engine /\ torn' = torn
    BY <1>2 DEF Start
  <2>4. /\ engine' = [on |-> engine'.on, mode |-> engine'.mode, chain |-> engine'.chain]
        /\ DOMAIN torn' = Contexts /\ torn' = [e \in Contexts |-> torn'[e]]
    <3>1. CASE OnEngine(c)
      BY <2>3, <3>1, TearsOthers
    <3>2. CASE ~OnEngine(c)
      BY <2>3, <3>2 DEF HInv
    <3> QED  BY <3>1, <3>2
  <2>5. ASSUME NEW d \in Contexts, d # c PROVE Gathering(d)'
    <3>1. Gathering(d) /\ ctx'[d] = ctx[d] /\ job' = job
      BY <2>2, <2>3, <2>5 DEF HInv
    <3>2. /\ torn[d] => torn'[d]
          /\ ctx[d].phase = "data" /\ OnEngine(d) /\ ~torn'[d] => engine'.chain = engine.chain
      BY <2>3, <2>5, TearsOthers
    <3> QED  BY <3>1, <3>2, OthersKeep
  <2>6. Gathering(c)'
    <3>0. OnEngine(c)' = OnEngine(c) /\ Authenticates(c)' = Authenticates(c)
      BY <2>3, ReferencesStay
    <3>1. CASE ~Authenticates(c)
      <4>1. y = [Cleared EXCEPT !.phase = "data"]
        <5>1. job[c].kind \notin Ccm
          BY <3>1 DEF Authenticates
        <5>2. ctx' = [ctx EXCEPT ![c] = [Cleared EXCEPT !.phase = "data"]]
          BY <1>2, <3>1, <5>1 DEF Start
        <5> QED  BY <5>2 DEF HInv
      <4>2. /\ Shape(y) /\ y.phase = "data" /\ y.out = <<>> /\ y.chain = <<>> /\ y.given = 0
            /\ Holding(job[c].kind, T, y, 0, 0) /\ Pieces(T, 0, 0) = <<>>
        BY <4>1, StartHolds
      <4>3. ChainOf(c)' = Pieces(T, 0, 0)
        <5>1. OnEngine(c) => engine'.chain = <<>>
          BY <2>3
        <5> QED  BY <3>0, <4>2, <5>1 DEF ChainOf
      <4>4. job[c].text \in Nat
        BY JobType
      <4>5. /\ y.given <= job[c].text
            /\ \E n \in Nat : /\ Holding(job[c].kind, T, y, y.given, n)
                              /\ ~torn'[c] => ChainOf(c)' = Pieces(T, 0, n)
        BY <4>2, <4>3, <4>4
      <4> HIDE DEF y
      <4>6. y = ctx'[c]
        BY DEF y
      <4>7. Partway(c)'
        BY <2>3, <4>2, <4>5, <4>6 DEF Partway
      <4> QED  BY <3>0, <3>1, <4>2, <4>6, <4>7 DEF Gathering
    <3>2. CASE Authenticates(c)
      <4>1. Authentic(job[c])
        BY <3>2, JobType
      <4>2. y = StartOf(job[c])
        <5>1. ctx' = [ctx EXCEPT ![c] = StartOf(job[c])]
          BY <1>2, <3>2 DEF Start, StartOf
        <5> QED  BY <5>1 DEF HInv
      <4>3. Shape(y) /\ y.phase = "aad" /\ Authenticating(job[c], y)
        BY <4>1, <4>2, AuthStarts
      <4> QED  BY <2>3, <3>0, <3>2, <4>3 DEF Gathering
    <3> QED  BY <3>1, <3>2
  <2> QED  BY <2>2, <2>3, <2>4, <2>5, <2>6 DEF HInv
<1> QED  BY <1>1, <1>2

\* What an update does: some blocks go on, and the rest is held.
Updates(M, kind, x, r, given, n, m) ==
    /\ OnlyBuffer(x, r.after)
    /\ \E q \in Nat : r.blocks = Pieces(M, n, q) /\ Holding(kind, M, r.after, given + m, n + q)

\* The updates of the hashes, the CMAC and CBC
LEMMA UpdateHolds ==
    ASSUME NEW kind \in Kinds, kind \notin Ccm \cup Gcm, NEW x, Shape(x), NEW n \in Nat, NEW m \in Nat,
           kind \in {"dec", "dec_pad"} => m # 0,
           NEW M, M = Message("text"), NEW given \in Nat, Holding(kind, M, x, given, n),
           NEW r, r = UpdateOf(kind, x, Bytes("text", given, m))
    PROVE  Updates(M, kind, x, r, given, n, m)
<1> DEFINE s == Bytes("text", given, m)
<1>1. M \in Messages /\ s = Cut(M, given, m)
  BY MessageType, BytesAreCut DEF Sources
<1> HIDE DEF s
<1>2. CASE kind = "cmac"
  <2>1. r = CmacUpdate(x, Cut(M, given, m))
    BY <1>1, <1>2 DEF UpdateOf, s
  <2>2. LET v == CmacUpdate(x, Cut(M, given, m))
        IN  /\ OnlyBuffer(x, v.after)
            /\ \E q \in Nat : v.blocks = Pieces(M, n, q) /\ Holding("cmac", M, v.after, given + m, n + q)
    BY <1>1, <1>2, CmacHolds
  <2> QED  BY <1>2, <2>1, <2>2 DEF Updates
<1>3. CASE kind \in Cbc
  <2>1. r = CbcUpdate(kind, x, Cut(M, given, m))
    BY <1>1, <1>3 DEF UpdateOf, s, Cbc
  <2>2. LET v == CbcUpdate(kind, x, Cut(M, given, m))
        IN  /\ OnlyBuffer(x, v.after)
            /\ \E q \in Nat : v.blocks = Pieces(M, n, q) /\ Holding(kind, M, v.after, given + m, n + q)
    BY <1>1, <1>3, CbcHolds
  <2> QED  BY <2>1, <2>2 DEF Updates
<1>4. CASE kind \in Buffered
  <2>1. r = BufferedUpdate(x, Cut(M, given, m))
    BY <1>1, <1>4 DEF UpdateOf, s, Buffered, Ccm, Gcm
  <2>2. LET v == BufferedUpdate(x, Cut(M, given, m))
        IN  /\ OnlyBuffer(x, v.after)
            /\ \E q \in Nat : v.blocks = Pieces(M, n, q) /\ Holding(kind, M, v.after, given + m, n + q)
    BY <1>1, <1>4, BufferedHolds
  <2> QED  BY <2>1, <2>2 DEF Updates
<1> QED  BY <1>2, <1>3, <1>4 DEF Kinds, Buffered, Cbc, Ccm, Gcm

\* The update of a context
LEMMA UpdateKeeps ==
    ASSUME HInv, NEW c \in Contexts, NEW m, Update(c, m)
    PROVE  HInv'
<1> DEFINE x == ctx[c]
           kind == job[c].kind
           r == UpdateOf(kind, x, Bytes("text", x.given, m))
           commands == r.blocks # <<>> /\ kind # "sw_sha"
           sends == OnEngine(c) /\ commands
           serves == engine.on /\ engine.mode = kind
<1>1. CASE Fault(c)
  BY <1>1, FaultKeeps DEF Update
<1>2. CASE ~Fault(c)
  <2>1. /\ job' = job /\ x.phase = "data" /\ m \in 0..(job[c].text - x.given)
        /\ \/ /\ sends /\ serves /\ Tears(c)
              /\ engine' = [engine EXCEPT !.chain = @ \o r.blocks]
              /\ ctx' = [ctx EXCEPT ![c] = [r.after EXCEPT !.given = @ + m]]
           \/ /\ sends /\ ~serves /\ Tears(c) /\ engine' = engine
              /\ ctx' = [ctx EXCEPT ![c].phase = "failed"]
           \/ /\ ~sends /\ engine' = engine /\ torn' = torn
              /\ ctx' = [ctx EXCEPT ![c] = [r.after EXCEPT !.chain = @ \o r.blocks, !.given = @ + m]]
    BY <1>2 DEF Update, Fail
  <2> HIDE DEF r, serves, sends
  <2>2. /\ DOMAIN ctx' = Contexts /\ ctx' = [e \in Contexts |-> ctx'[e]]
        /\ \A d \in Contexts : d # c => ctx'[d] = ctx[d]
    BY <2>1 DEF HInv
  <2>3. /\ engine' = [on |-> engine'.on, mode |-> engine'.mode, chain |-> engine'.chain]
        /\ DOMAIN torn' = Contexts /\ torn' = [e \in Contexts |-> torn'[e]]
        /\ \A d \in Contexts : torn[d] => torn'[d]
    <3>1. CASE sends
      <4>1. /\ engine = [on |-> engine.on, mode |-> engine.mode, chain |-> engine.chain]
            /\ engine' = engine \/ engine' = [engine EXCEPT !.chain = @ \o r.blocks]
        BY <2>1, <3>1 DEF HInv
      <4> QED  BY <2>1, <3>1, <4>1, TearsOthers
    <3>2. CASE ~sends
      BY <2>1, <3>2 DEF HInv
    <3> QED  BY <3>1, <3>2
  <2>4. ASSUME NEW d \in Contexts, d # c PROVE Gathering(d)'
    <3>1. Gathering(d) /\ ctx'[d] = ctx[d] /\ (torn[d] => torn'[d])
      BY <2>2, <2>3, <2>4 DEF HInv
    <3>2. ctx[d].phase = "data" /\ OnEngine(d) /\ ~torn'[d] => engine'.chain = engine.chain
      BY <2>1, <2>4, TearsOthers
    <3> QED  BY <2>1, <3>1, <3>2, OthersKeep
  <2>5. Gathering(c)'
    <3> DEFINE T == Message("text")
    <3>0. /\ ~Authenticates(c) /\ (kind \in {"dec", "dec_pad"} => m # 0)
          /\ OnEngine(c)' = OnEngine(c) /\ Authenticates(c)' = Authenticates(c)
      BY <1>2, <2>1, ReferencesStay DEF Update
    <3>1. /\ Shape(x) /\ x.out = <<>> /\ x.given <= job[c].text /\ T \in Messages
          /\ \E n \in Nat : Holding(kind, T, x, x.given, n) /\ (~torn[c] => ChainOf(c) = Pieces(T, 0, n))
      <4>1. Partway(c) /\ Shape(x)
        BY <2>1, <3>0 DEF HInv, Gathering
      <4>2. T \in Messages
        BY MessageType DEF Sources
      <4> QED  BY <4>1, <4>2 DEF Partway
    <3> HIDE DEF T
    <3>2. CASE sends /\ ~serves
      <4>1. ctx'[c] = [x EXCEPT !.phase = "failed"]
        BY <2>1, <3>2 DEF HInv
      <4> QED  BY <4>1, FailedKeeps DEF HInv
    <3>3. CASE ~sends \/ serves
      <4> DEFINE y == ctx'[c]
      <4>1. PICK n \in Nat : Holding(kind, T, x, x.given, n) /\ (~torn[c] => ChainOf(c) = Pieces(T, 0, n))
        BY <3>1
      <4>2. x.given \in Nat /\ m \in Nat /\ x.given + m <= job[c].text
        <5>1. x.given \in Nat
          BY <4>1, BlockType DEF Holding
        <5>2. job[c].text \in Nat
          BY JobType
        <5> QED  BY <2>1, <5>1, <5>2
      <4>3. /\ OnlyBuffer(x, r.after)
            /\ \E q \in Nat : r.blocks = Pieces(T, n, q) /\ Holding(kind, T, r.after, x.given + m, n + q)
        <5>1. kind \in Kinds /\ kind \notin Ccm \cup Gcm
          BY <3>0, JobType DEF Authenticates
        <5>2. r = UpdateOf(kind, x, Bytes("text", x.given, m))
          BY DEF r
        <5> HIDE DEF kind, x
        <5>3. Updates(T, kind, x, r, x.given, n, m)
          <6> DEFINE given == x.given
          <6>1. /\ given = x.given /\ given \in Nat /\ Holding(kind, T, x, given, n)
                /\ r = UpdateOf(kind, x, Bytes("text", given, m)) /\ (kind \in {"dec", "dec_pad"} => m # 0)
            BY <3>0, <4>1, <4>2, <5>2 DEF kind
          <6> HIDE DEF given
          <6>2. Updates(T, kind, x, r, given, n, m)
            BY <3>1, <4>2, <5>1, <6>1, UpdateHolds DEF T
          <6> QED  BY <6>1, <6>2
        <5> QED  BY <5>3 DEF Updates
      <4>4. PICK q \in Nat : r.blocks = Pieces(T, n, q) /\ Holding(kind, T, r.after, x.given + m, n + q)
        BY <4>3
      <4>5. /\ y = IF sends THEN [r.after EXCEPT !.given = @ + m]
                   ELSE [r.after EXCEPT !.chain = @ \o r.blocks, !.given = @ + m]
        BY <2>1, <3>3 DEF HInv
      <4> HIDE DEF y
      <4>6. /\ Shape(y) /\ y.phase = "data" /\ y.out = <<>> /\ y.given = x.given + m
            /\ y.buf = r.after.buf /\ y.size = r.after.size /\ y.total = r.after.total
            /\ ~sends => y.chain = x.chain \o r.blocks
        BY <2>1, <3>1, <4>3, <4>5 DEF Shape, OnlyBuffer
      <4>7. Holding(kind, T, y, y.given, n + q)
        BY <3>1, <4>4, <4>6, HoldingIsKept
      <4>8. Pieces(T, 0, n) \o Pieces(T, n, q) = Pieces(T, 0, n + q)
        <5>1. 0 \in Nat /\ 0 + n = n
          OBVIOUS
        <5> DEFINE o == 0
        <5> HIDE DEF o
        <5>2. Pieces(T, o, n) \o Pieces(T, o + n, q) = Pieces(T, o, n + q)
          BY <3>1, <5>1, PiecesJoin DEF o
        <5> QED  BY <5>1, <5>2 DEF o
      <4>9. ~torn'[c] => ChainOf(c)' = Pieces(T, 0, n + q)
        <5> SUFFICES ASSUME ~torn'[c] PROVE ChainOf(c)' = Pieces(T, 0, n + q)
          OBVIOUS
        <5>1. ~torn[c]
          BY <2>1, <2>3
        <5>2. CASE ~OnEngine(c)
          <6>1. ~sends /\ x.chain = Pieces(T, 0, n)
            BY <4>1, <5>1, <5>2 DEF sends, ChainOf
          <6>2. ChainOf(c)' = y.chain
            BY <3>0, <5>2 DEF ChainOf, y
          <6> QED  BY <4>4, <4>6, <4>8, <6>1, <6>2
        <5>3. CASE OnEngine(c)
          <6>1. engine.chain = Pieces(T, 0, n) /\ ChainOf(c)' = engine'.chain
            BY <3>0, <4>1, <5>1, <5>3 DEF ChainOf
          <6>2. CASE sends
            <7>1. engine' = [engine EXCEPT !.chain = @ \o r.blocks]
              BY <2>1, <3>3, <6>2
            <7>2. engine'.chain = engine.chain \o r.blocks
              BY <7>1 DEF HInv
            <7> QED  BY <4>4, <4>8, <6>1, <7>2
          <6>3. CASE ~sends
            <7>1. r.blocks = <<>> /\ engine' = engine
              BY <2>1, <5>3, <6>3 DEF sends, OnEngine
            <7>2. Len(Pieces(T, n, q)) = q /\ Len(<<>>) = 0
              BY <3>1, PiecesType
            <7>3. q = 0
              BY <4>4, <7>1, <7>2
            <7> QED  BY <6>1, <7>1, <7>3
          <6> QED  BY <6>2, <6>3
        <5> QED  BY <5>2, <5>3
      <4>10. n + q \in Nat /\ y.given <= job[c].text /\ y = ctx'[c]
        BY <4>2, <4>6 DEF y
      <4>11. /\ y.given <= job[c].text
             /\ \E k \in Nat : Holding(kind, T, y, y.given, k) /\ (~torn'[c] => ChainOf(c)' = Pieces(T, 0, k))
        BY <4>7, <4>9, <4>10
      <4>12. Partway(c)'
        BY <2>1, <4>6, <4>10, <4>11 DEF Partway, T
      <4> QED  BY <3>0, <4>6, <4>10, <4>12 DEF Gathering
    <3> QED  BY <3>2, <3>3
  <2> QED  BY <2>1, <2>2, <2>3, <2>4, <2>5 DEF HInv
<1> QED  BY <1>1, <1>2

\* CCM or GCM under way
Underway(j, x) ==
    /\ Shape(x)
    /\ \/ x.phase = "aad" /\ Authenticating(j, x)
       \/ x.phase = "data" /\ Ready(j, x)

\* Completing the additional data leaves a context ready.
LEMMA Completes ==
    ASSUME NEW j, Authentic(j), NEW x, Underway(j, x), x.auth = j.auth, NEW y, y = AadFinish(x)
    PROVE  /\ Shape(y) /\ Ready(j, y) /\ y.given = x.given /\ y.out = x.out
           /\ x.phase = "aad" => y.missed = FALSE
           /\ x.phase = "data" => y = x
<1>1. CASE x.phase = "aad"
  BY <1>1, AadFinishes DEF Underway
<1>2. CASE x.phase # "aad"
  <2>1. Shape(x) /\ Ready(j, x) /\ x.phase = "data"
    BY <1>2 DEF Underway
  <2>2. y = x
    BY <2>1 DEF AadFinish, Ready
  <2> QED  BY <2>1, <2>2
<1> QED  BY <1>1, <1>2

\* An update of the text of CCM or GCM
LEMMA CryptReady ==
    ASSUME NEW j, Authentic(j), NEW x, Underway(j, x), x.auth = j.auth, NEW m \in 0..(j.text - x.given),
           NEW lost, j.kind \in Ccm \/ lost = {},
           NEW s, s = SubSeq(Input(j), x.given + 1, x.given + m),
           NEW o, o = [StreamUpdate(j.kind, lost, x, s) EXCEPT
                          !.given = @ + m, !.phase = IF m = 0 /\ j.kind \in Ccm THEN @ ELSE "data"]
    PROVE  Underway(j, o)
<1> DEFINE z == StreamUpdate(j.kind, lost, x, s)
<1>1. CASE m = 0 /\ j.kind \in Ccm
  <2>1. s = <<>>
    <3>1. x.given \in 0..j.text
      BY DEF Underway, Authenticating, Ready, Authentic
    <3>2. s = Cut(InMessage(j), x.given, m)
      BY <3>1, InputIsCut
    <3> QED  BY <1>1, <3>2 DEF Cut
  <2>2. z = x
    BY <1>1, <2>1 DEF StreamUpdate
  <2>3. x.given \in Nat
    BY DEF Underway, Authenticating, Ready, Authentic
  <2>4. o = [x EXCEPT !.given = @ + m, !.phase = @]
    BY <1>1, <2>2
  <2>5. x.given + m = x.given
    BY <1>1, <2>3
  <2>6. o = x
    BY <2>4, <2>5 DEF Underway, Shape
  <2> QED  BY <2>6
<1>2. CASE ~(m = 0 /\ j.kind \in Ccm)
  <2> DEFINE y == AadFinish(x)
  <2>1. o = Fed(z, m)
    BY <1>2 DEF Fed
  <2>2. Shape(y) /\ Ready(j, y) /\ y.given = x.given
    BY Completes
  <2>3. /\ y = AadFinish(x) /\ z = StreamUpdate(j.kind, lost, x, s) /\ (j.kind \notin Ccm \/ m # 0)
        /\ x.given = y.given /\ m \in 0..(j.text - x.given) /\ (j.kind \in Ccm \/ lost = {})
        /\ Authentic(j) /\ s = SubSeq(Input(j), x.given + 1, x.given + m)
    BY <1>2, <2>2
  <2> HIDE DEF y, z
  <2>4. Shape(o) /\ Ready(j, o) /\ o.phase = "data"
    BY ONLY <2>1, <2>2, <2>3, StreamReady
  <2> QED  BY <2>4 DEF Underway
<1> QED  BY <1>1, <1>2

\* A context of CCM or GCM is called: the others keep what they have.
LEMMA UnderwayKeeps ==
    ASSUME HInv, NEW c \in Contexts, Authenticates(c), job' = job, engine' = engine, torn' = torn,
           NEW o, ctx' = [ctx EXCEPT ![c] = o], Underway(job[c], o)
    PROVE  HInv'
<1>1. /\ DOMAIN ctx' = Contexts /\ ctx' = [e \in Contexts |-> ctx'[e]] /\ ctx'[c] = o
      /\ \A d \in Contexts : d # c => ctx'[d] = ctx[d]
  BY DEF HInv
<1>2. ASSUME NEW d \in Contexts, d # c PROVE Gathering(d)'
  <2>1. Gathering(d) /\ ctx'[d] = ctx[d] /\ (torn[d] => torn'[d]) /\ engine'.chain = engine.chain
    BY <1>1, <1>2 DEF HInv
  <2> QED  BY <2>1, OthersKeep
<1>3. Authenticates(c)'
  BY ReferencesStay
<1>4. Gathering(c)'
  BY <1>1, <1>3 DEF Gathering, Underway
<1>5. /\ job' \in Setups /\ DOMAIN torn' = Contexts /\ torn' = [e \in Contexts |-> torn'[e]]
      /\ engine' = [on |-> engine'.on, mode |-> engine'.mode, chain |-> engine'.chain]
  BY DEF HInv
<1> QED  BY <1>1, <1>2, <1>4, <1>5 DEF HInv

\* The additional data of CCM and GCM
LEMMA AadKeeps ==
    ASSUME HInv, NEW c \in Contexts, NEW m, Aad(c, m)
    PROVE  HInv'
<1>1. CASE Fault(c)
  BY <1>1, FaultKeeps DEF Aad
<1>2. CASE ~Fault(c)
  <2> DEFINE x == ctx[c]
             r == BufferedUpdate(x, Bytes("auth", x.auth, m))
             o == FedAuth(r, m)
  <2>1. /\ x.phase = "aad" /\ job' = job /\ engine' = engine /\ torn' = torn
        /\ m \in 1..(job[c].auth - x.auth) /\ ctx' = [ctx EXCEPT ![c] = o]
    BY <1>2 DEF Aad, FedAuth
  <2>2. Shape(x) /\ Authenticates(c) /\ Authenticating(job[c], x) /\ Authentic(job[c])
    BY <2>1, JobType DEF HInv, Gathering
  <2> DEFINE j == job[c]
  <2>3. /\ Authentic(j) /\ Shape(x) /\ Authenticating(j, x) /\ m \in 1..(j.auth - x.auth)
        /\ r = BufferedUpdate(x, Bytes("auth", x.auth, m)) /\ o = FedAuth(r, m)
    BY <2>1, <2>2
  <2> HIDE DEF r, o, j, x
  <2>4. Shape(o) /\ o.phase = x.phase /\ Authenticating(j, o)
    BY <2>3, AadHolds
  <2>5. Underway(job[c], o)
    BY <2>1, <2>4 DEF Underway, j, x
  <2> QED  BY <2>1, <2>2, <2>5, UnderwayKeeps
<1> QED  BY <1>1, <1>2

\* The text of CCM and GCM, of whose counters the chip may fail to encrypt one
LEMMA CryptUpdateKeeps ==
    ASSUME HInv, NEW c \in Contexts, NEW m, CryptUpdate(c, m)
    PROVE  HInv'
<1>1. CASE Fault(c)
  BY <1>1, FaultKeeps DEF CryptUpdate
<1>2. CASE ~Fault(c)
  <2> DEFINE x == ctx[c]
             s == SubSeq(Input(job[c]), x.given + 1, x.given + m)
             After(lost) == [StreamUpdate(job[c].kind, lost, x, s) EXCEPT
                                !.given = @ + m,
                                !.phase = IF m = 0 /\ job[c].kind \in Ccm THEN @ ELSE "data"]
  <2>1. /\ Open(c) /\ Authenticates(c) /\ x.auth = job[c].auth /\ m \in 0..(job[c].text - x.given)
        /\ job' = job /\ engine' = engine /\ torn' = torn
        /\ \E lost : (job[c].kind \in Ccm \/ lost = {}) /\ ctx' = [ctx EXCEPT ![c] = After(lost)]
    BY <1>2 DEF CryptUpdate
  <2>2. Authentic(job[c]) /\ Underway(job[c], x)
    BY <2>1, JobType DEF HInv, Gathering, Open, Underway
  <2>3. PICK lost : (job[c].kind \in Ccm \/ lost = {}) /\ ctx' = [ctx EXCEPT ![c] = After(lost)]
    BY <2>1
  <2> DEFINE o == After(lost)
  <2>4. s = SubSeq(Input(job[c]), x.given + 1, x.given + m) /\ o = After(lost)
    OBVIOUS
  <2> HIDE DEF s, o
  <2>5. Underway(job[c], o)
    BY <2>1, <2>2, <2>3, <2>4, CryptReady
  <2>6. ctx' = [ctx EXCEPT ![c] = o]
    BY <2>3, <2>4
  <2> QED  BY <2>1, <2>5, <2>6, UnderwayKeeps
<1> QED  BY <1>1, <1>2

\* The chip sleeps: what was on its engine is torn.
LEMMA EngineLostKeeps ==
    ASSUME HInv, EngineLost
    PROVE  HInv'
<1>1. /\ job' = job /\ ctx' = ctx /\ engine' = [engine EXCEPT !.on = FALSE]
      /\ torn' = [d \in Contexts |-> torn[d] \/ (Open(d) /\ OnEngine(d))]
  BY DEF EngineLost
<1>2. /\ engine' = [on |-> engine'.on, mode |-> engine'.mode, chain |-> engine'.chain]
      /\ engine'.chain = engine.chain
  BY <1>1 DEF HInv
<1>3. ASSUME NEW d \in Contexts PROVE Gathering(d)'
  <2>1. Gathering(d) /\ ctx'[d] = ctx[d] /\ (torn[d] => torn'[d])
    BY <1>1 DEF HInv
  <2> QED  BY <1>1, <1>2, <2>1, OthersKeep
<1>4. DOMAIN torn' = Contexts /\ torn' = [e \in Contexts |-> torn'[e]]
  BY <1>1
<1> QED  BY <1>1, <1>2, <1>3, <1>4 DEF HInv

\* Contexts that were not used yet hold nothing.
LEMMA InitHolds == Init => HInv
<1> SUFFICES ASSUME Init PROVE HInv
  OBVIOUS
<1>1. /\ job \in Setups /\ ctx = [c \in Contexts |-> Cleared]
      /\ engine = [on |-> FALSE, mode |-> "sha", chain |-> <<>>]
      /\ torn = [c \in Contexts |-> FALSE]
  BY DEF Init
<1>2. ASSUME NEW c \in Contexts PROVE Gathering(c)
  <2>1. Shape(Cleared) /\ Cleared.phase = "new"
    BY DEF Shape, Cleared
  <2>2. ctx[c] = Cleared
    BY <1>1
  <2> QED  BY <2>1, <2>2 DEF Gathering
<1> QED  BY <1>1, <1>2 DEF HInv

-----------------------------------------------------------------------------
(* The ends of the operations keep the invariant *)

\* The kinds that neither authenticate nor decrypt
Plain == {"sha", "hmac", "sha204", "sw_sha", "cmac", "cbc", "cbc_pad"}

\* What their ends hand out
PlainEnd(j, x, r) ==
    /\ r.ok = TRUE
    /\ j.kind \in {"sha", "hmac"} => r.chain = engine.chain /\ r.last = Take(x.buf, x.size)
    /\ j.kind = "sha204" => r.chain = engine.chain \o ShaLast(j.kind, x) /\ r.last = <<>>
    /\ j.kind = "sw_sha" => r.chain = x.chain \o ShaLast(j.kind, x) /\ r.last = <<>>
    /\ j.kind = "cmac" => r.chain = Append(x.chain, CmacLast(x)) /\ r.last = <<>>
    /\ j.kind \in {"cbc", "cbc_pad"} =>
          r.chain = x.chain \o CbcLast(j.kind, x) /\ r.last = <<>>

\* They hand it out.
LEMMA FinishOfPlain ==
    ASSUME NEW j, NEW x, j.kind \in Plain, NEW r, r = FinishOf(j, x)
    PROVE  PlainEnd(j, x, r)
<1> DEFINE first == Take(x.buf, x.size)
           sha == ShaLast(j.kind, x)
           cmac == CmacLast(x)
           cbc == CbcLast(j.kind, x)
<1>1. CASE j.kind \in {"sha", "hmac"}
  <2>1. r = [ok |-> TRUE, chain |-> engine.chain, last |-> first]
    BY <1>1 DEF FinishOf, Ccm, Gcm
  <2> HIDE DEF first, sha, cmac, cbc
  <2>2. r.ok = TRUE /\ r.chain = engine.chain /\ r.last = first
    BY <2>1
  <2> QED  BY <1>1, <2>2 DEF first, PlainEnd
<1>2. CASE j.kind = "sha204"
  <2>1. r = [ok |-> TRUE, chain |-> engine.chain \o sha, last |-> <<>>]
    BY <1>2 DEF FinishOf, Ccm, Gcm
  <2> HIDE DEF first, sha, cmac, cbc
  <2>2. r.ok = TRUE /\ r.chain = engine.chain \o sha /\ r.last = <<>>
    BY <2>1
  <2> QED  BY <1>2, <2>2 DEF sha, PlainEnd
<1>3. CASE j.kind = "sw_sha"
  <2>1. r = [ok |-> TRUE, chain |-> x.chain \o sha, last |-> <<>>]
    BY <1>3 DEF FinishOf, Ccm, Gcm
  <2> HIDE DEF first, sha, cmac, cbc
  <2>2. r.ok = TRUE /\ r.chain = x.chain \o sha /\ r.last = <<>>
    BY <2>1
  <2> QED  BY <1>3, <2>2 DEF sha, PlainEnd
<1>4. CASE j.kind = "cmac"
  <2>1. r = [ok |-> TRUE, chain |-> Append(x.chain, cmac), last |-> <<>>]
    BY <1>4 DEF FinishOf, Ccm, Gcm
  <2> HIDE DEF first, sha, cmac, cbc
  <2>2. r.ok = TRUE /\ r.chain = Append(x.chain, cmac) /\ r.last = <<>>
    BY <2>1
  <2> QED  BY <1>4, <2>2 DEF cmac, PlainEnd
<1>5. CASE j.kind \in {"cbc", "cbc_pad"}
  <2>1. r = [ok |-> TRUE, chain |-> x.chain \o cbc, last |-> <<>>]
    BY <1>5 DEF FinishOf, Ccm, Gcm
  <2> HIDE DEF first, sha, cmac, cbc
  <2>2. r.ok = TRUE /\ r.chain = x.chain \o cbc /\ r.last = <<>>
    BY <2>1
  <2> QED  BY <1>5, <2>2 DEF cbc, PlainEnd
<1> QED  BY <1>1, <1>2, <1>3, <1>4, <1>5 DEF Plain, PlainEnd

\* The end of a decryption is refused for its last block alone.
LEMMA FinishOfDecrypt ==
    ASSUME NEW j, NEW x, j.kind \in {"dec", "dec_pad"}, NEW r, r = FinishOf(j, x)
    PROVE  r.ok \in BOOLEAN /\ DecryptEnd(j, x, r.ok, r.last) /\ r.chain = x.chain
<1> DEFINE plain == Decrypted(j, x.buf)
           right == j.kind = "dec" \/ Unpads(plain)
           kept == IF j.kind = "dec" THEN plain ELSE Take(plain, Block - plain[Block][3])
<1>1. r = [ok |-> IF x.size = Block THEN right ELSE x.size = 0, chain |-> x.chain,
           last |-> IF x.size = Block /\ right THEN kept ELSE <<>>]
  BY DEF FinishOf, Ccm, Gcm
<1> HIDE DEF plain
<1>2. Unpads(plain) \in BOOLEAN
  BY DEF Unpads
<1> HIDE DEF kept
<1>3. right \in BOOLEAN
  BY <1>2
<1> HIDE DEF right
<1>4. /\ r.ok = IF x.size = Block THEN right ELSE x.size = 0
      /\ r.last = IF x.size = Block /\ right THEN kept ELSE <<>>
      /\ r.chain = x.chain
  BY <1>1
<1>5. r.ok \in BOOLEAN
  BY <1>3, <1>4
<1> QED  BY <1>3, <1>4, <1>5 DEF DecryptEnd, plain, right, kept

\* Nothing in front
LEMMA NothingBefore == ASSUME NEW s \in Seq(Octets) PROVE <<>> \o s = s
  BY ConcatEmptySeq

\* The ends of hashes, MACs and CBC encryption that nothing came between hand
\* out what the standard says.
LEMMA FinishIsReference ==
    ASSUME HInv, NEW c \in Contexts, job[c].kind \in Plain, ctx[c].phase = "data",
           ctx[c].given = job[c].text, ~torn[c], ~Known(c), NEW r, r = FinishOf(job[c], ctx[c])
    PROVE  r.chain = RefChain(c) /\ ctx[c].out \o r.last = RefOut(c)
<1> DEFINE x == ctx[c]
           j == job[c]
           T == Message("text")
           text == j.text
           s == Cut(T, 0, text)
<1>1. ~Authenticates(c) /\ Partway(c)
  <2>1. ~Authenticates(c)
    BY DEF Plain, Authenticates, Ccm, Gcm
  <2> QED  BY <2>1 DEF HInv, Gathering
<1>2. PICK n \in Nat : Holding(j.kind, T, x, text, n) /\ ChainOf(c) = Pieces(T, 0, n)
  BY <1>1 DEF Partway
<1>3. x.out = <<>> /\ T \in Messages /\ text \in Nat /\ text = j.text
  BY <1>1, JobType, MessageType DEF Partway, Sources
<1>4. Text(c) = s
  <2> HIDE DEF text, T
  <2>1. Bytes("text", 0, text) = Cut(T, 0, text)
    BY <1>3, BytesAreCut, 0 \in Nat DEF Sources, T
  <2> QED  BY <1>3, <2>1 DEF Text
<1>5. /\ n \in Nat /\ x.size \in 0..Block /\ text = n * Block + x.size
      /\ x.buf \in Seq(Octets) /\ Len(x.buf) = Block /\ Begins(T, x.buf, x.size, n)
  BY <1>2 DEF Holding
<1>0. PlainEnd(j, x, r)
  <2> HIDE DEF j, x
  <2>1. j.kind \in Plain /\ r = FinishOf(j, x)
    BY DEF j, x
  <2> QED  BY <2>1, FinishOfPlain
<1> HIDE DEF T
<1>6. CASE j.kind \in {"sha", "hmac"}
  <2>1. r.chain = engine.chain /\ r.last = Take(x.buf, x.size)
    BY <1>0, <1>6 DEF PlainEnd
  <2>2. RefChain(c) = Blocks(Take(s, Whole(text))) /\ RefOut(c) = Drop(s, Whole(text))
    BY <1>4, <1>6 DEF RefChain, RefOut, Authenticates, Ccm, Gcm
  <2>3. /\ Blocks(Take(s, Whole(text))) = Pieces(T, 0, n)
        /\ Drop(s, Whole(text)) = Take(x.buf, x.size)
    <3>1. j.kind \in Buffered
      BY <1>6 DEF Buffered
    <3> HIDE DEF text
    <3> QED  BY <1>2, <1>3, <3>1, PlainEnds
  <2>4. engine.chain = Pieces(T, 0, n)
    BY <1>2, <1>6 DEF ChainOf, OnEngine
  <2>5. <<>> \o Take(x.buf, x.size) = Take(x.buf, x.size)
    <3>1. Take(x.buf, x.size) = Cut(T, n * Block, x.size)
      BY <1>3, <1>5, RestOfBuffer
    <3> DEFINE k == n * Block
    <3>2. k \in Nat /\ x.size \in Nat
      BY <1>5, BlockType
    <3> HIDE DEF k
    <3>3. Cut(T, k, x.size) \in Seq(Octets)
      BY <1>3, <3>2, CutType
    <3> QED  BY <3>1, <3>3, NothingBefore DEF k
  <2> QED  BY <1>3, <2>1, <2>2, <2>3, <2>4, <2>5
<1>7. CASE j.kind \in {"sha204", "sw_sha"}
  <2>1. r.chain = ChainOf(c) \o ShaLast(j.kind, x) /\ r.last = <<>>
    <3>1. CASE j.kind = "sha204"
      <4>1. ChainOf(c) = engine.chain
        BY <3>1 DEF ChainOf, OnEngine
      <4>2. r.chain = engine.chain \o ShaLast(j.kind, x) /\ r.last = <<>>
        BY <1>0, <3>1 DEF PlainEnd
      <4> QED  BY <4>1, <4>2
    <3>2. CASE j.kind = "sw_sha"
      <4>1. ChainOf(c) = x.chain
        BY <3>2 DEF ChainOf, OnEngine
      <4>2. r.chain = x.chain \o ShaLast(j.kind, x) /\ r.last = <<>>
        BY <1>0, <3>2 DEF PlainEnd
      <4> QED  BY <4>1, <4>2
    <3> QED  BY <1>7, <3>1, <3>2
  <2>2. RefChain(c) = Blocks(Sha256Padded(s)) /\ RefOut(c) = <<>>
    BY <1>4, <1>7 DEF RefChain, RefOut, Authenticates, Ccm, Gcm
  <2>3. Pieces(T, 0, n) \o ShaLast(j.kind, x) = Blocks(Sha256Padded(s))
    <3> DEFINE kind == j.kind
    <3>1. kind \in Buffered /\ Holding(kind, T, x, text, n)
      BY <1>2, <1>7 DEF Buffered
    <3>2. 8 * text < Word
      <4>1. ~TooLong(c)
        BY DEF Known
      <4>2. ~(8 * text >= Word)
        BY <1>7, <4>1 DEF TooLong
      <4> HIDE DEF text
      <4> QED  BY <1>3, <4>2, LengthsAssumption
    <3> HIDE DEF text, kind, x
    <3> QED  BY <1>3, <3>1, <3>2, ShaEnds DEF kind
  <2>4. <<>> \o <<>> = <<>>
    OBVIOUS
  <2> QED  BY <1>2, <1>3, <2>1, <2>2, <2>3, <2>4
<1>8. CASE j.kind = "cmac"
  <2> DEFINE split == IF text = 0 THEN 0 ELSE Whole(text - 1)
             end == Drop(s, split)
             last == IF Len(end) = Block THEN Append(end, Byte("subkey", 1))
                     ELSE Append(Filled(Append(end, OneBit)), Byte("subkey", 2))
  <2>1. r.chain = Append(x.chain, CmacLast(x)) /\ r.last = <<>>
    BY <1>0, <1>8 DEF PlainEnd
  <2>2. RefChain(c) = Append(Blocks(Take(s, split)), last) /\ RefOut(c) = <<>>
    BY <1>4, <1>8 DEF RefChain, RefOut, Authenticates, Ccm, Gcm
  <2>3. Blocks(Take(s, split)) = Pieces(T, 0, n) /\ CmacLast(x) = last
    <3>1. Holding("cmac", T, x, text, n)
      BY <1>2, <1>8
    <3> HIDE DEF text, x
    <3> QED  BY <1>3, <3>1, CmacEnds
  <2>4. x.chain = Pieces(T, 0, n)
    BY <1>2, <1>8 DEF ChainOf, OnEngine
  <2>5. <<>> \o <<>> = <<>>
    OBVIOUS
  <2> HIDE DEF last
  <2> QED  BY <1>3, <2>1, <2>2, <2>3, <2>4, <2>5
<1>9. CASE j.kind = "cbc"
  <2>1. r.chain = x.chain \o CbcLast(j.kind, x) /\ r.last = <<>>
    BY <1>0, <1>9 DEF PlainEnd
  <2>2. RefChain(c) = Blocks(Filled(s)) /\ RefOut(c) = <<>>
    BY <1>4, <1>9 DEF RefChain, RefOut, Authenticates, Ccm, Gcm
  <2>3. text % Block = 0
    BY <1>9 DEF Known
  <2>4. x.size = 0 /\ Pieces(T, 0, n) = Blocks(Filled(s))
    <3>1. Holding("cbc", T, x, text, n)
      BY <1>2, <1>9
    <3> HIDE DEF text, x
    <3> QED  BY <1>3, <2>3, <3>1, WholeEnds
  <2>5. CbcLast(j.kind, x) = <<>>
    BY <1>9, <2>4 DEF CbcLast
  <2>6. x.chain = Pieces(T, 0, n)
    BY <1>2, <1>9 DEF ChainOf, OnEngine
  <2>7. Pieces(T, 0, n) \o <<>> = Pieces(T, 0, n) /\ <<>> \o <<>> = <<>>
    BY <1>3, <1>5, PiecesType, ConcatEmptySeq, 0 \in Nat
  <2> QED  BY <1>3, <2>1, <2>2, <2>4, <2>5, <2>6, <2>7
<1>10. CASE j.kind = "cbc_pad"
  <2> DEFINE p == Block - (text % Block)
             t == [i \in 1..p |-> Byte("pad", p)]
  <2>1. r.chain = x.chain \o CbcLast(j.kind, x) /\ r.last = <<>>
    BY <1>0, <1>10 DEF PlainEnd
  <2>2. RefChain(c) = Blocks(s \o t) /\ RefOut(c) = <<>>
    BY <1>4, <1>10 DEF RefChain, RefOut, Authenticates, Ccm, Gcm
  <2>3. CbcLast(j.kind, x) = <<Pkcs7Pad(x.buf, x.size)>>
    BY <1>10 DEF CbcLast
  <2>4. Pieces(T, 0, n) \o <<Pkcs7Pad(x.buf, x.size)>> = Blocks(s \o t)
    <3>1. Holding("cbc_pad", T, x, text, n)
      BY <1>2, <1>10
    <3>2. p = Block - (text % Block)
      OBVIOUS
    <3> HIDE DEF text, x, p
    <3>3. Padded(T, x, text, n, p)
      BY <1>3, <3>1, <3>2, PadEnds
    <3> QED  BY <3>3 DEF Padded
  <2>5. x.chain = Pieces(T, 0, n)
    BY <1>2, <1>10 DEF ChainOf, OnEngine
  <2>6. <<>> \o <<>> = <<>>
    OBVIOUS
  <2> QED  BY <1>3, <2>1, <2>2, <2>3, <2>4, <2>5, <2>6
<1> QED  BY <1>6, <1>7, <1>8, <1>9, <1>10 DEF Plain

\* The end of a decryption says whether the text is right, and completes it.
LEMMA DecryptIsReference ==
    ASSUME HInv, NEW c \in Contexts, Decrypts(c), ctx[c].phase = "data",
           ctx[c].given = job[c].text, NEW r, r = FinishOf(job[c], ctx[c])
    PROVE  /\ r.ok \in BOOLEAN /\ (r.ok <=> Acceptable(job[c]))
           /\ r.ok /\ ~torn[c] => Deciphers(job[c], r.chain, ctx[c].out \o r.last)
<1> DEFINE x == ctx[c]
           j == job[c]
           T == Message("text")
<1>1. j.kind \in {"dec", "dec_pad"} /\ ~Authenticates(c) /\ ~OnEngine(c)
  BY DEF Decrypts, Authenticates, OnEngine, Ccm, Gcm
<1>2. Partway(c)
  BY <1>1 DEF HInv, Gathering
<1>3. PICK n \in Nat : Holding(j.kind, T, x, j.text, n) /\ (~torn[c] => x.chain = Pieces(T, 0, n))
  BY <1>1, <1>2 DEF Partway, ChainOf
<1> DEFINE chain == Pieces(T, 0, n)
<1>4. j.text \in Nat /\ j.pad \in 0..Block /\ (j.kind = "dec" => j.pad = 0) /\ x.out = <<>>
  BY <1>2, JobType DEF Partway
<1>5. r = FinishOf(j, x) /\ chain = Pieces(T, 0, n)
  OBVIOUS
<1> HIDE DEF j, x
<1>6. r.ok \in BOOLEAN /\ DecryptEnd(j, x, r.ok, r.last) /\ r.chain = x.chain
  BY <1>1, <1>5, FinishOfDecrypt
<1>7. /\ r.ok <=> Acceptable(j)
      /\ r.ok => Deciphers(j, chain, r.last) /\ r.last \in Seq(Octets)
  <2> DEFINE ok == r.ok
             last == r.last
  <2> HIDE DEF ok, last, chain
  <2>1. ok \in BOOLEAN /\ DecryptEnd(j, x, ok, last) /\ chain = Pieces(Message("text"), 0, n)
    BY <1>5, <1>6 DEF ok, last
  <2>2. Decides(j, chain, ok, last)
    BY ONLY <1>1, <1>3, <1>4, <2>1, DecryptEnds DEF T
  <2> QED  BY <2>2 DEF Decides, ok, last
<1>8. ASSUME r.ok, ~torn[c] PROVE Deciphers(j, r.chain, x.out \o r.last)
  <2>1. r.chain = chain
    BY <1>3, <1>6, <1>8
  <2>2. x.out \o r.last = r.last
    BY <1>4, <1>7, <1>8, NothingBefore
  <2> QED  BY <1>7, <1>8, <2>1, <2>2
<1> QED  BY <1>6, <1>7, <1>8 DEF j, x

\* The ends of CCM and GCM hand out what the standards say.
LEMMA AuthIsReference ==
    ASSUME HInv, NEW c \in Contexts, Authenticates(c), Open(c),
           ctx[c].given = job[c].text, ctx[c].auth = job[c].auth, ~Known(c),
           NEW r, r = FinishOf(job[c], ctx[c])
    PROVE  r.chain = RefChain(c) /\ ctx[c].out \o r.last = RefOut(c)
<1> DEFINE x == ctx[c]
           j == job[c]
           y == AadFinish(x)
<1>1. Authentic(j) /\ Underway(j, x)
  BY JobType DEF HInv, Gathering, Open, Underway
<1>2. /\ Shape(y) /\ Ready(j, y) /\ y.given = x.given /\ y.out = x.out
      /\ x.phase = "data" => y = x
  <2>1. Authentic(j) /\ Underway(j, x) /\ x.auth = j.auth /\ y = AadFinish(x)
    BY <1>1
  <2> HIDE DEF j, x, y
  <2> QED  BY ONLY <2>1, Completes
<1>3. j.kind \in Ccm => y = x
  <2>1. CASE x.phase = "data"
    BY <1>2, <2>1
  <2>2. CASE x.phase # "data"
    <3>1. Authenticating(j, x)
      BY <1>1, <2>2 DEF Underway
    <3>2. j.text = 0 /\ j.auth \in Nat
      BY <1>1, <3>1 DEF Authenticating, Authentic
    <3>3. j.kind \in Ccm => j.auth = 0 \/ (j.auth + 2) % Block = 0
      BY <3>2 DEF Known
    <3> QED  BY <1>1, <3>1, <3>3, NothingLeft
  <2> QED  BY <2>1, <2>2
<1>4. ~y.missed
  <2>1. CASE j.kind \in Ccm
    BY <1>3, <2>1 DEF Known
  <2>2. CASE j.kind \notin Ccm
    BY <1>1, <1>2, <2>2 DEF Authentic, Ready
  <2> QED  BY <2>1, <2>2
<1>5. j = job[c] /\ y = AadFinish(x) /\ r = FinishOf(j, x) /\ y.given = j.text /\ x.out = y.out
      /\ ~TooLong(c)
  BY <1>2 DEF Known
<1> HIDE DEF j, x, y
<1>6. HandsOut(c, x, r)
  BY ONLY <1>1, <1>2, <1>3, <1>4, <1>5, AuthEnds
<1> QED  BY <1>6 DEF HandsOut, x

\* What is done is the standard's.
LEMMA DoneIsReference ==
    ASSUME HInv, NEW c \in Contexts, Open(c),
           ctx[c].given = job[c].text, ctx[c].auth = job[c].auth,
           NEW r, r = FinishOf(job[c], ctx[c])
    PROVE  /\ r.ok \in BOOLEAN
           /\ Decrypts(c) => (r.ok <=> Acceptable(job[c]))
           /\ ~Decrypts(c) => r.ok
           /\ r.ok /\ ~torn[c] /\ ~Known(c) =>
                IF Decrypts(c) THEN Deciphers(job[c], r.chain, ctx[c].out \o r.last)
                ELSE r.chain = RefChain(c) /\ ctx[c].out \o r.last = RefOut(c)
<1> DEFINE x == ctx[c]
           j == job[c]
<1>1. ~Authenticates(c) => x.phase = "data"
  BY DEF HInv, Gathering, Open
<1>2. CASE Authenticates(c)
  <2>1. ~Decrypts(c)
    BY <1>2 DEF Authenticates, Decrypts, Ccm, Gcm
  <2>2. r.ok = TRUE
    <3>1. CASE j.kind \in Ccm
      <4> DEFINE a == CcmLast(x)
                 b == <<Byte("counter", 0)>>
      <4>1. r = [ok |-> TRUE, chain |-> a, last |-> b]
        BY <3>1 DEF FinishOf, Ccm, Gcm
      <4> HIDE DEF a, b
      <4> QED  BY <4>1
    <3>2. CASE j.kind \in Gcm
      <4> DEFINE a == GcmLast(x)
                 b == <<Byte("counter", 0)>>
      <4>1. r = [ok |-> TRUE, chain |-> a, last |-> b]
        BY <3>2 DEF FinishOf, Ccm, Gcm
      <4> HIDE DEF a, b
      <4> QED  BY <4>1
    <3> QED  BY <1>2, <3>1, <3>2 DEF Authenticates
  <2>3. ~Known(c) => r.chain = RefChain(c) /\ x.out \o r.last = RefOut(c)
    BY <1>2, AuthIsReference
  <2> QED  BY <2>1, <2>2, <2>3
<1>3. CASE Decrypts(c)
  <2>1. ~Authenticates(c)
    BY <1>3 DEF Authenticates, Decrypts, Ccm, Gcm
  <2>2. /\ r.ok \in BOOLEAN /\ (r.ok <=> Acceptable(j))
        /\ r.ok /\ ~torn[c] => Deciphers(j, r.chain, x.out \o r.last)
    BY <1>1, <1>3, <2>1, DecryptIsReference
  <2> QED  BY <1>3, <2>2
<1>4. CASE ~Authenticates(c) /\ ~Decrypts(c)
  <2>1. j.kind \in Plain
    BY <1>4, JobType DEF Authenticates, Decrypts, Kinds, Ccm, Gcm, Plain
  <2>2. r.ok = TRUE
    <3> HIDE DEF j, x
    <3>1. j.kind \in Plain /\ r = FinishOf(j, x)
      BY <2>1 DEF j, x
    <3>2. PlainEnd(j, x, r)
      BY <3>1, FinishOfPlain
    <3> QED  BY <3>2 DEF PlainEnd
  <2>3. ~torn[c] /\ ~Known(c) => r.chain = RefChain(c) /\ x.out \o r.last = RefOut(c)
    BY <1>1, <1>4, <2>1, FinishIsReference
  <2> QED  BY <1>4, <2>2, <2>3
<1> QED  BY <1>2, <1>3, <1>4

\* The end of an operation
LEMMA FinishKeeps ==
    ASSUME HInv, NEW c \in Contexts, Finish(c)
    PROVE  HInv'
<1> DEFINE x == ctx[c]
           j == job[c]
           r == FinishOf(j, x)
           serves == OnEngine(c) => engine.on /\ engine.mode = j.kind
<1>1. CASE Fault(c)
  BY <1>1, FaultKeeps DEF Finish
<1>2. CASE ~Fault(c)
  <2>1. /\ job' = job /\ Open(c) /\ x.given = j.text /\ x.auth = j.auth
        /\ ctx' = IF r.ok /\ serves
                  THEN [ctx EXCEPT ![c].phase = "done", ![c].chain = r.chain, ![c].out = @ \o r.last]
                  ELSE [ctx EXCEPT ![c].phase = IF serves THEN "refused" ELSE "failed"]
        /\ \/ OnEngine(c) /\ Tears(c) /\ engine' = [engine EXCEPT !.on = FALSE]
           \/ ~OnEngine(c) /\ engine' = engine /\ torn' = torn
    BY <1>2 DEF Finish
  <2>0. r = FinishOf(j, x) /\ serves \in BOOLEAN
    OBVIOUS
  <2> HIDE DEF r, serves
  <2>2. /\ DOMAIN ctx' = Contexts /\ ctx' = [e \in Contexts |-> ctx'[e]]
        /\ \A d \in Contexts : d # c => ctx'[d] = ctx[d]
    BY <2>1 DEF HInv
  <2>3. /\ engine' = [on |-> engine'.on, mode |-> engine'.mode, chain |-> engine'.chain]
        /\ engine'.chain = engine.chain
    BY <2>1 DEF HInv
  <2>4. /\ DOMAIN torn' = Contexts /\ torn' = [e \in Contexts |-> torn'[e]]
        /\ \A d \in Contexts : torn[d] => torn'[d]
    <3>1. CASE OnEngine(c)
      BY <2>1, <3>1, TearsOthers
    <3>2. CASE ~OnEngine(c)
      BY <2>1, <3>2 DEF HInv
    <3> QED  BY <3>1, <3>2
  <2>5. ASSUME NEW d \in Contexts, d # c PROVE Gathering(d)'
    <3>1. Gathering(d) /\ ctx'[d] = ctx[d] /\ (torn[d] => torn'[d])
      BY <2>2, <2>4, <2>5 DEF HInv
    <3> QED  BY <2>1, <2>3, <3>1, OthersKeep
  <2>6. Gathering(c)'
    <3>1. /\ r.ok \in BOOLEAN
          /\ Decrypts(c) => (r.ok <=> Acceptable(j))
          /\ ~Decrypts(c) => r.ok
          /\ r.ok /\ ~torn[c] /\ ~Known(c) =>
               IF Decrypts(c) THEN Deciphers(j, r.chain, x.out \o r.last)
               ELSE r.chain = RefChain(c) /\ x.out \o r.last = RefOut(c)
      BY <2>0, <2>1, DoneIsReference
    <3>2. Shape(x) /\ Decrypts(c)' = Decrypts(c) /\ j = job'[c]
      BY <2>1, ReferencesStay DEF HInv, Gathering
    <3>3. CASE ~serves
      <4>1. ctx'[c] = [x EXCEPT !.phase = "failed"]
        BY <2>1, <3>3 DEF HInv
      <4> QED  BY <4>1, FailedKeeps DEF HInv
    <3>4. CASE serves /\ ~r.ok
      <4>1. ctx'[c] = [x EXCEPT !.phase = "refused"]
        BY <2>1, <3>4 DEF HInv
      <4>2. Shape(ctx'[c]) /\ ctx'[c].phase = "refused"
        BY <3>2, <4>1 DEF Shape
      <4>3. Decrypts(c)' /\ ~Acceptable(job'[c])
        BY <3>1, <3>2, <3>4
      <4> QED  BY <4>2, <4>3 DEF Gathering
    <3>5. CASE serves /\ r.ok
      <4>1. ctx'[c] = [x EXCEPT !.phase = "done", !.chain = r.chain, !.out = @ \o r.last]
        BY <2>1, <3>5 DEF HInv
      <4>2. /\ Shape(ctx'[c]) /\ ctx'[c].phase = "done" /\ ctx'[c].chain = r.chain
            /\ ctx'[c].out = x.out \o r.last /\ ctx'[c].missed = x.missed
        BY <3>2, <4>1 DEF Shape
      <4>3. Decrypts(c)' => Acceptable(job'[c])
        BY <3>1, <3>2, <3>5
      <4>4. ASSUME ~torn'[c], ~Known(c)' PROVE IsReference(c)'
        <5>1. ~torn[c] /\ ~Known(c)
          <6>1. Known(c)' = Known(c)
            BY <2>1, <4>2 DEF Known, TooLong
          <6> QED  BY <2>4, <4>4, <6>1
        <5>2. /\ RefChain(c)' = RefChain(c) /\ RefOut(c)' = RefOut(c) /\ RefPlain(c)' = RefPlain(c)
          BY <2>1, ReferencesStay
        <5>3. CASE ~Decrypts(c)
          BY <3>1, <3>2, <3>5, <4>2, <5>1, <5>2, <5>3 DEF IsReference
        <5>4. CASE Decrypts(c)
          <6>1. Deciphers(j, r.chain, x.out \o r.last)
            BY <3>1, <3>5, <5>1, <5>4
          <6>2. PlainText(c)' = RefPlain(c)'
            BY <3>2, <4>2, <6>1 DEF Deciphers, PlainText, RefPlain
          <6> QED  BY <3>2, <5>4, <6>2 DEF IsReference
        <5> QED  BY <5>3, <5>4
      <4> QED  BY <4>2, <4>3, <4>4 DEF Gathering
    <3> QED  BY <3>1, <3>3, <3>4, <3>5
  <2> QED  BY <2>1, <2>2, <2>3, <2>4, <2>5, <2>6 DEF HInv
<1> QED  BY <1>1, <1>2

\* The invariant holds in every state: whatever the calls, their order, and
\* the commands that fail.
THEOREM Invariant == Spec => []HInv
<1>1. Init => HInv
  BY InitHolds
<1>2. HInv /\ [Next]_vars => HInv'
  <2> SUFFICES ASSUME HInv, [Next]_vars PROVE HInv'
    OBVIOUS
  <2>1. CASE EngineLost
    BY <2>1, EngineLostKeeps
  <2>2. ASSUME NEW c \in Contexts, Start(c) PROVE HInv'
    BY <2>2, StartKeeps
  <2>3. ASSUME NEW c \in Contexts, Finish(c) PROVE HInv'
    BY <2>3, FinishKeeps
  <2>4. ASSUME NEW c \in Contexts, NEW m \in 0..job[c].text, Update(c, m) PROVE HInv'
    BY <2>4, UpdateKeeps
  <2>5. ASSUME NEW c \in Contexts, NEW m \in 0..job[c].text, CryptUpdate(c, m) PROVE HInv'
    BY <2>5, CryptUpdateKeeps
  <2>6. ASSUME NEW c \in Contexts, NEW m \in 1..job[c].auth, Aad(c, m) PROVE HInv'
    BY <2>6, AadKeeps
  <2>7. CASE UNCHANGED vars
    <3>1. /\ job' = job /\ ctx' = ctx /\ engine' = engine /\ torn' = torn
      BY <2>7 DEF vars
    <3>2. ASSUME NEW d \in Contexts PROVE Gathering(d)'
      <4>1. Gathering(d) /\ ctx'[d] = ctx[d] /\ (torn[d] => torn'[d]) /\ engine'.chain = engine.chain
        BY <3>1 DEF HInv
      <4> QED  BY <3>1, <4>1, OthersKeep
    <3> QED  BY <3>1, <3>2 DEF HInv
  <2> QED  BY <2>1, <2>2, <2>3, <2>4, <2>5, <2>6, <2>7 DEF Next
<1> QED  BY <1>1, <1>2, PTL DEF Spec

-----------------------------------------------------------------------------
(* What follows from it *)

\* What a context has processed and holds is the message so far.
Holds(c) ==
    LET x == ctx[c]
        soFar == IF job[c].kind \in Gcm THEN Take(Stream(c), x.given) ELSE Take(Text(c), x.given)
        before == IF Authenticates(c) THEN AuthPart(c) ELSE <<>>
        rest == IF Authenticates(c) THEN Take(x.cblock, x.ds % Block) ELSE Take(x.buf, x.size)
    IN  /\ x.size \in 0..Block
        /\ ~x.missed => before \o soFar =
                Joined(IF OnEngine(c) THEN engine.chain ELSE x.chain, rest)

\* Hashes, MACs and CBC
LEMMA PartwayHolds ==
    ASSUME HInv, NEW c \in Contexts, ~Authenticates(c), ctx[c].phase = "data", ~torn[c]
    PROVE  Holds(c)
<1> DEFINE x == ctx[c]
           given == x.given
           text == job[c].text
           T == Message("text")
<1>1. /\ given <= text /\ text \in Nat /\ T \in Messages
      /\ \E n \in Nat : Holding(job[c].kind, T, x, given, n) /\ ChainOf(c) = Pieces(T, 0, n)
  <2>1. Partway(c)
    BY DEF HInv, Gathering
  <2>2. text \in Nat /\ T \in Messages
    BY JobType, MessageType DEF Sources
  <2> QED  BY <2>1, <2>2 DEF Partway
<1>2. PICK n \in Nat : Holding(job[c].kind, T, x, given, n) /\ ChainOf(c) = Pieces(T, 0, n)
  BY <1>1
<1>3. /\ x.size \in 0..Block /\ given = n * Block + x.size
      /\ x.buf \in Seq(Octets) /\ Len(x.buf) = Block /\ Begins(T, x.buf, x.size, n)
  BY <1>2 DEF Holding
<1>4. given \in 0..text /\ given \in Nat
  BY <1>1, <1>3, BlockType
<1>5. Take(Text(c), given) = Cut(T, 0, given)
  <2> HIDE DEF given, text
  <2>1. Bytes("text", 0, text) = Cut(T, 0, text)
    BY <1>1, BytesAreCut, 0 \in Nat DEF Sources
  <2> HIDE DEF T
  <2>2. Take(Cut(T, 0, text), given) = Cut(T, 0, given)
    BY <1>1, <1>4, TakeOfCut, 0 \in Nat
  <2> QED  BY <2>1, <2>2 DEF Text, text
<1> HIDE DEF T
<1>6. Take(x.buf, x.size) = Cut(T, n * Block, x.size)
  BY <1>1, <1>3, RestOfBuffer
<1>7. <<>> \o Cut(T, 0, given) = Cut(T, 0, given)
  <2> HIDE DEF given
  <2>1. Cut(T, 0, given) \in Seq(Octets)
    BY <1>1, <1>4, CutType, 0 \in Nat
  <2> QED  BY <2>1, NothingBefore
<1>8. Joined(Pieces(T, 0, n), Cut(T, n * Block, x.size)) = Cut(T, 0, n * Block + x.size)
  BY <1>1, <1>3, JoinedIsText
<1>9. <<>> \o Take(Text(c), given) = Joined(ChainOf(c), Take(x.buf, x.size))
  BY <1>2, <1>3, <1>5, <1>6, <1>7, <1>8
<1>10. job[c].kind \notin Gcm
  BY DEF Authenticates
<1> QED  BY <1>3, <1>9, <1>10 DEF Holds, ChainOf

\* CCM and GCM
LEMMA ReadyContextHolds ==
    ASSUME HInv, NEW c \in Contexts, Authenticates(c), ctx[c].phase = "data"
    PROVE  Holds(c)
<1> DEFINE x == ctx[c]
           j == job[c]
           n == x.given
<1>1. Authentic(j) /\ Ready(j, x)
  BY JobType DEF HInv, Gathering
<1>2. x.size \in 0..Block /\ n \in 0..j.text
  BY <1>1, BlockType DEF Ready
<1>3. /\ AuthPart(c) = AuthBytes(j)
      /\ Take(Text(c), n) = Cut(Message("text"), 0, n)
      /\ Take(Stream(c), n) = Cut(StreamMessage, 0, n)
  <2> HIDE DEF n
  <2> QED  BY <1>1, <1>2, StreamIs
<1>4. ~x.missed => AuthBytes(j) \o Cut(MacText(j), 0, n) = Joined(x.chain, Take(x.cblock, x.ds % Block))
  <2> HIDE DEF j, x
  <2> QED  BY <1>1, ReadyHolds
<1>5. ~OnEngine(c)
  BY DEF Authenticates, OnEngine, Ccm, Gcm
<1>6. Cut(MacText(j), 0, n) = IF j.kind \in Gcm THEN Take(Stream(c), n) ELSE Take(Text(c), n)
  BY <1>1, <1>3 DEF MacText, Authentic, Ccm, Gcm
<1> QED  BY <1>2, <1>3, <1>4, <1>5, <1>6 DEF Holds

\* An operation whose calls all succeeded, and that no other came between on
\* the engine, has hashed, encrypted or decrypted its message as the standard
\* has it: however it was cut into pieces and whatever the other contexts do
\* meanwhile, for every message whose lengths 32 bits count, but for the known
\* differences, among them lengths that the library writes in too few bytes.
THEOREM DoneAsTheStandard == Spec => []OkIsReference
<1>1. HInv => OkIsReference
  BY DEF HInv, Gathering, OkIsReference, Done
<1> QED  BY <1>1, Invariant, PTL

\* At every moment of every such operation the blocks that were processed and
\* the bytes that the context still holds are the message so far.
THEOREM NothingIsLost == Spec => []HoldsTheRest
<1>1. HInv => HoldsTheRest
  <2> SUFFICES ASSUME HInv PROVE HoldsTheRest
    OBVIOUS
  <2>1. ASSUME NEW c \in Contexts, ctx[c].phase = "data", ~torn[c] PROVE Holds(c)
    BY <2>1, PartwayHolds, ReadyContextHolds
  <2> QED  BY <2>1 DEF HoldsTheRest, Holds
<1> QED  BY <1>1, Invariant, PTL

\* The end of a decryption is refused to the texts of a wrong length or with a
\* wrong padding and to no others, whatever the updates were, whatever else
\* used the engine.
THEOREM RefusesRightly == Spec => []RefusedRightly
<1>1. HInv => RefusedRightly
  <2> SUFFICES ASSUME HInv, NEW c \in Contexts
               PROVE  /\ ctx[c].phase = "refused" =>
                            Decrypts(c) /\ (job[c].text % Block # 0 \/ (job[c].kind = "dec_pad" /\ job[c].pad = 0))
                      /\ Done(c) /\ Decrypts(c) =>
                            job[c].text % Block = 0 /\ (job[c].kind = "dec_pad" => job[c].pad # 0 \/ job[c].text = 0)
    BY DEF RefusedRightly
  <2>1. /\ ctx[c].phase = "refused" => Decrypts(c) /\ ~Acceptable(job[c])
        /\ Done(c) /\ Decrypts(c) => Acceptable(job[c])
    BY DEF HInv, Gathering, Done
  <2> QED  BY <2>1 DEF Acceptable
<1> QED  BY <1>1, Invariant, PTL
=============================================================================
