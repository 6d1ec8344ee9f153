--------------------------- MODULE WsReaderProofs ---------------------------
(***************************************************************************)
(* What holds of the reading side of a connection for any handshakes and   *)
(* frames of the peer, any limit and any number of frames: the reader does *)
(* not lose its place in the bytes, whatever is abandoned or comes in      *)
(* between; what the application gets is payload, unmasked with the right  *)
(* byte of the key; no message of moderate frames is longer than the       *)
(* limit; and the messages are those of the peer, put together from its    *)
(* frames, each from its beginning.                                        *)
(***************************************************************************)
EXTENDS WsReader, SequenceTheorems, WellFoundedInduction, TLAPS

Byte == [frame: Nat, byte: Nat, key: 0..(KeyLength - 1)]
Message == [data: Seq(Byte), end: {"open", "left", "whole"}]

\* Byte d of the k-th frame, 0 for its header, as the peer masks it.
Key(d) == IF d = 0 THEN 0 ELSE (d - 1) % KeyLength
ByteOf(k, d) == [frame |-> k, byte |-> d, key |-> Key(d)]

-----------------------------------------------------------------------------
(***************************************************************************)
(* Bytes of frames.                                                        *)
(***************************************************************************)

LEMMA SizeType == ASSUME NEW f \in Frame PROVE Size(f) \in Nat
BY DEF Size, Frame

LEMMA ByteOfType ==
  ASSUME NEW k \in Nat, NEW d \in Nat
  PROVE  ByteOf(k, d) \in Byte
<1>1. Key(d) \in 0..(KeyLength - 1)
  BY DEF Key, KeyLength
<1> QED
  BY <1>1 DEF ByteOf, Byte

LEMMA BytesAre ==
  ASSUME NEW f \in Frame, NEW k \in Nat
  PROVE  /\ Bytes(f, k) \in Seq(Byte)
         /\ Len(Bytes(f, k)) = Size(f) + 1
         /\ \A i \in 1..(Size(f) + 1) : Bytes(f, k)[i] = ByteOf(k, i - 1)
<1> DEFINE h == <<[frame |-> k, byte |-> 0, key |-> 0]>>
           p == Payload(f, k)
<1>1. Size(f) \in Nat
  BY SizeType
<1>2. p = [i \in 1..Size(f) |-> ByteOf(k, i)]
  BY <1>1 DEF Payload, Size, ByteOf, Key
<1>3. \A i \in 1..Size(f) : ByteOf(k, i) \in Byte
  BY <1>1, ByteOfType
<1>4. p \in Seq(Byte) /\ Len(p) = Size(f) /\ \A i \in 1..Size(f) : p[i] = ByteOf(k, i)
  BY <1>1, <1>2, <1>3
<1>5. h \in Seq(Byte) /\ Len(h) = 1 /\ h[1] = ByteOf(k, 0)
  <2>1. ByteOf(k, 0) \in Byte /\ ByteOf(k, 0) = [frame |-> k, byte |-> 0, key |-> 0]
    BY ByteOfType DEF ByteOf, Key
  <2> QED
    BY <2>1
<1>6. Bytes(f, k) = h \o p
  BY DEF Bytes
<1> HIDE DEF h, p
<1>7. /\ h \o p \in Seq(Byte) /\ Len(h \o p) = Len(h) + Len(p)
      /\ \A i \in 1..(Len(h) + Len(p)) :
           (h \o p)[i] = IF i <= Len(h) THEN h[i] ELSE p[i - Len(h)]
  <2>1. h \in Seq(Byte) /\ p \in Seq(Byte)
    BY <1>4, <1>5
  <2> QED
    BY <2>1, ConcatProperties
<1> QED
  BY <1>1, <1>4, <1>5, <1>6, <1>7

\* What is left of a sequence after its first n elements.
LEMMA Rest ==
  ASSUME NEW S, NEW s \in Seq(S), NEW n \in Nat
  PROVE  LET r == SubSeq(s, n + 1, Len(s))
         IN  /\ r \in Seq(S)
             /\ Len(r) = IF n <= Len(s) THEN Len(s) - n ELSE 0
             /\ \A i \in 1..Len(r) : i + n \in 1..Len(s) /\ r[i] = s[i + n]
<1>1. \A i \in (n + 1)..Len(s) : s[i] \in S
  BY ElementOfSeq
<1>2. Len(s) \in Nat
  OBVIOUS
<1> DEFINE r == SubSeq(s, n + 1, Len(s))
<1>3. /\ r \in Seq(S)
      /\ Len(r) = IF n + 1 <= Len(s) THEN Len(s) - (n + 1) + 1 ELSE 0
      /\ \A i \in 1..(Len(s) - (n + 1) + 1) : r[i] = s[(n + 1) + i - 1]
  BY <1>1, <1>2, SubSeqProperties
<1> HIDE DEF r
<1>4. \A i \in 1..Len(r) : i + n \in 1..Len(s) /\ r[i] = s[i + n]
  BY <1>2, <1>3
<1>5. Len(r) = IF n <= Len(s) THEN Len(s) - n ELSE 0
  BY <1>2, <1>3
<1> QED
  BY <1>3, <1>4, <1>5 DEF r

LEMMA Begin ==
  ASSUME NEW S, NEW s \in Seq(S), NEW n \in 0..Len(s)
  PROVE  LET r == SubSeq(s, 1, n)
         IN  /\ r \in Seq(S) /\ Len(r) = n
             /\ \A i \in 1..n : r[i] = s[i]
<1>1. \A i \in 1..n : s[i] \in S
  BY ElementOfSeq
<1> DEFINE r == SubSeq(s, 1, n)
<1>2. /\ r \in Seq(S)
      /\ Len(r) = IF 1 <= n THEN n - 1 + 1 ELSE 0
      /\ \A i \in 1..(n - 1 + 1) : r[i] = s[1 + i - 1]
  BY <1>1, SubSeqProperties
<1> HIDE DEF r
<1>3. Len(s) \in Nat /\ n \in Nat
  OBVIOUS
<1> QED
  BY <1>1, <1>2, <1>3 DEF r
-----------------------------------------------------------------------------
(***************************************************************************)
(* Bytes w on the wire of a peer that has sent the frames s.               *)
(***************************************************************************)

\* Each is a byte of a frame, and those after it are the rest of that frame and
\* then the header of the next.
IsByte(w, s, i) == /\ w[i].frame \in 1..Len(s) /\ w[i].byte \in 0..Size(s[w[i].frame])
                   /\ w[i] = ByteOf(w[i].frame, w[i].byte)
Follows(w, s, i, j) ==
  LET k == w[i].frame
      d == w[i].byte + (j - i)
  IN  /\ d <= Size(s[k]) => w[j] = ByteOf(k, d)
      /\ d = Size(s[k]) + 1 => w[j] = ByteOf(k + 1, 0)
Framed(w, s) == /\ \A i \in 1..Len(w) : IsByte(w, s, i)
                /\ \A i, j \in 1..Len(w) : i <= j => Follows(w, s, i, j)

\* They are there to the end of the last frame.
EndsWhole(w, s) == LET n == Len(w)
                   IN  w # <<>> => w[n].frame = Len(s) /\ w[n].byte = Size(s[w[n].frame])

\* The reader, with r bytes of a frame left to read and the key at m, is where
\* it should be.
At(w, s, r, m) ==
  /\ r = 0 /\ w # <<>> => w[1].byte = 0
  /\ r > 0 /\ w # <<>> => /\ w[1].byte >= 1
                         /\ w[1].byte + r = Size(s[w[1].frame]) + 1
                         /\ m = (w[1].byte - 1) % KeyLength

LEMMA FramedRest ==
  ASSUME NEW s \in Seq(Frame), NEW w \in Seq(Byte), Framed(w, s), NEW n \in Nat
  PROVE  LET r == SubSeq(w, n + 1, Len(w))
         IN  Framed(r, s) /\ (EndsWhole(w, s) => EndsWhole(r, s))
<1> DEFINE r == SubSeq(w, n + 1, Len(w))
<1>1. /\ r \in Seq(Byte) /\ Len(r) = IF n <= Len(w) THEN Len(w) - n ELSE 0
      /\ \A i \in 1..Len(r) : i + n \in 1..Len(w) /\ r[i] = w[i + n]
  BY Rest
<1> HIDE DEF r
<1>2. ASSUME NEW i \in 1..Len(r)
      PROVE  IsByte(r, s, i)
  BY <1>1 DEF Framed, IsByte
<1>3. ASSUME NEW i \in 1..Len(r), NEW j \in 1..Len(r), i <= j
      PROVE  Follows(r, s, i, j)
  <2>1. i + n \in 1..Len(w) /\ j + n \in 1..Len(w) /\ i + n <= j + n
    BY <1>1, <1>3
  <2>2. Follows(w, s, i + n, j + n)
    BY <2>1 DEF Framed
  <2>3. r[i] = w[i + n] /\ r[j] = w[j + n] /\ (j + n) - (i + n) = j - i
    BY <1>1, <1>3
  <2> QED
    BY <2>2, <2>3 DEF Follows
<1>4. Framed(r, s)
  BY <1>2, <1>3 DEF Framed
<1>5. ASSUME EndsWhole(w, s), r # <<>>
      PROVE  EndsWhole(r, s)
  <2>1. Len(r) \in Nat \ {0} /\ Len(r) = Len(w) - n /\ w # <<>>
    BY <1>1, <1>5, EmptySeq
  <2>2. r[Len(r)] = w[Len(w)]
    BY <1>1, <2>1
  <2> QED
    BY <1>5, <2>1, <2>2 DEF EndsWhole
<1>6. r = <<>> => EndsWhole(r, s)
  BY DEF EndsWhole
<1> QED
  BY <1>4, <1>5, <1>6 DEF r

LEMMA FramedMore ==
  ASSUME NEW s \in Seq(Frame), NEW w \in Seq(Byte), NEW f \in Frame, NEW b \in Seq(Byte),
         Framed(w, s), EndsWhole(w, s), Len(b) <= Size(f) + 1,
         \A i \in 1..Len(b) : b[i] = ByteOf(Len(s) + 1, i - 1)
  PROVE  /\ Framed(w \o b, Append(s, f))
         /\ Len(b) = Size(f) + 1 => EndsWhole(w \o b, Append(s, f))
<1> DEFINE v == w \o b
           t == Append(s, f)
           k == Len(s) + 1
<1>1. /\ v \in Seq(Byte) /\ Len(v) = Len(w) + Len(b)
      /\ \A i \in 1..Len(v) : v[i] = IF i <= Len(w) THEN w[i] ELSE b[i - Len(w)]
  BY ConcatProperties
<1>2. /\ Len(t) = k /\ t[k] = f
      /\ \A i \in 1..Len(s) : t[i] = s[i]
  BY AppendProperties
<1>3. Len(w) \in Nat /\ Len(b) \in Nat /\ k \in Nat /\ Len(s) \in Nat /\ Size(f) \in Nat
  BY SizeType
<1> HIDE DEF v, t
<1>4. ASSUME NEW i \in 1..Len(v), i <= Len(w)
      PROVE  /\ v[i] = w[i] /\ IsByte(w, s, i) /\ IsByte(v, t, i)
             /\ t[v[i].frame] = s[w[i].frame]
  <2>1. v[i] = w[i] /\ IsByte(w, s, i)
    BY <1>1, <1>3, <1>4 DEF Framed
  <2>2. t[w[i].frame] = s[w[i].frame] /\ w[i].frame \in 1..Len(t)
    BY <1>2, <1>3, <2>1 DEF IsByte
  <2> QED
    BY <2>1, <2>2 DEF IsByte
<1>5. ASSUME NEW i \in 1..Len(v), i > Len(w)
      PROVE  /\ v[i] = ByteOf(k, i - Len(w) - 1) /\ IsByte(v, t, i)
             /\ v[i].frame = k /\ v[i].byte = i - Len(w) - 1
  <2>1. v[i] = ByteOf(k, i - Len(w) - 1)
    BY <1>1, <1>3, <1>5
  <2>2. v[i].frame = k /\ v[i].byte = i - Len(w) - 1
    BY <2>1 DEF ByteOf
  <2>3. v[i].byte \in 0..Size(f)
    BY <1>1, <1>3, <1>5, <2>2
  <2> QED
    BY <1>2, <1>3, <2>1, <2>2, <2>3 DEF IsByte
<1>6. ASSUME NEW i \in 1..Len(v), NEW j \in 1..Len(v), i <= j
      PROVE  Follows(v, t, i, j)
  <2>1. CASE j <= Len(w)
    <3>1. i <= Len(w) /\ Follows(w, s, i, j)
      BY <1>3, <1>1, <1>6, <2>1 DEF Framed
    <3> QED
      BY <1>4, <2>1, <3>1 DEF Follows
  <2>2. CASE i > Len(w)
    <3>1. j > Len(w)
      BY <1>1, <1>3, <1>6, <2>2
    <3>2. v[i].byte + (j - i) = j - Len(w) - 1 /\ v[j].byte = j - Len(w) - 1
      BY <1>1, <1>3, <1>5, <2>2, <3>1
    <3>3. v[j].byte <= Size(f)
      BY <1>1, <1>3, <3>2
    <3>4. t[v[i].frame] = f /\ v[i].frame = k
      BY <1>2, <1>5, <2>2
    <3>5. v[j] = ByteOf(k, v[i].byte + (j - i))
      BY <1>5, <3>1, <3>2
    <3>6. v[i].byte + (j - i) # Size(t[v[i].frame]) + 1
      BY <1>3, <3>2, <3>3, <3>4
    <3> QED
      BY <3>4, <3>5, <3>6 DEF Follows
  <2>3. CASE i <= Len(w) /\ j > Len(w)
    <3> DEFINE n == Len(w)
    <3>1. n \in 1..Len(w) /\ i \in 1..n /\ w # <<>> /\ j \in Nat
      BY <1>1, <1>3, <2>3
    <3>2. Follows(w, s, i, n) /\ IsByte(w, s, i) /\ IsByte(w, s, n)
      BY <3>1 DEF Framed
    <3>3. w[n].byte = Size(s[w[n].frame])
      BY <3>1 DEF EndsWhole
    <3>4. /\ w[i].frame \in 1..Len(s) /\ w[i].byte \in Nat /\ Size(s[w[i].frame]) \in Nat
      BY <3>2, SizeType, ElementOfSeq DEF IsByte
    <3>5. w[i].byte + (n - i) >= Size(s[w[i].frame])
      <4>1. ASSUME w[i].byte + (n - i) <= Size(s[w[i].frame])
            PROVE  w[i].byte + (n - i) = Size(s[w[i].frame])
        <5>1. w[n] = ByteOf(w[i].frame, w[i].byte + (n - i))
          BY <3>2, <4>1 DEF Follows
        <5>2. w[n].frame = w[i].frame /\ w[n].byte = w[i].byte + (n - i)
          BY <5>1 DEF ByteOf
        <5> QED
          BY <3>3, <5>2
      <4> QED
        BY <3>1, <3>4, <4>1
    <3>6. v[i] = w[i] /\ t[v[i].frame] = s[w[i].frame]
      BY <1>4, <2>3
    <3>7. w[i].byte + (j - i) > Size(s[w[i].frame])
      BY <2>3, <3>1, <3>4, <3>5
    <3>8. w[i].byte + (j - i) = Size(s[w[i].frame]) + 1 => j = n + 1
      <4>1. ASSUME NEW x \in Nat, NEW y \in Nat, x + (n - i) >= y, x + (j - i) = y + 1
            PROVE  j = n + 1
        BY <1>3, <2>3, <3>1, <4>1
      <4> QED
        BY <3>4, <3>5, <4>1
    <3>9. ASSUME j = n + 1, w[i].byte + (j - i) = Size(s[w[i].frame]) + 1
          PROVE  v[j] = ByteOf(w[i].frame + 1, 0)
      <4>1. w[i].byte + (n - i) = Size(s[w[i].frame])
        <5> DEFINE x == w[i].byte
                   y == Size(s[w[i].frame])
        <5>1. n \in Nat /\ i \in Nat /\ j = n + 1 /\ x \in Nat /\ y \in Nat /\ x + (j - i) = y + 1
          BY <1>3, <3>1, <3>4, <3>9
        <5> HIDE DEF n, x, y
        <5>2. x + (n - i) = y
          BY <5>1
        <5> QED
          BY <5>2 DEF n, x, y
      <4>2. w[n] = ByteOf(w[i].frame, w[i].byte + (n - i))
        BY <3>2, <4>1, <3>4 DEF Follows
      <4>3. w[n].frame = w[i].frame /\ w[n].frame = Len(s)
        BY <3>1, <4>2 DEF ByteOf, EndsWhole
      <4>4. j > Len(w) /\ j - Len(w) - 1 = 0 /\ k = w[i].frame + 1
        BY <1>3, <3>9, <4>3
      <4>5. v[j] = ByteOf(k, j - Len(w) - 1)
        BY <1>5, <4>4
      <4> QED
        BY <4>4, <4>5
    <3> QED
      BY <3>4, <3>6, <3>7, <3>8, <3>9, <3>1 DEF Follows
  <2> QED
    BY <1>1, <1>3, <2>1, <2>2, <2>3
<1>7. Framed(v, t)
  BY <1>3, <1>1, <1>4, <1>5, <1>6 DEF Framed
<1>8. ASSUME Len(b) = Size(f) + 1
      PROVE  EndsWhole(v, t)
  <2>1. Len(v) \in 1..Len(v) /\ Len(v) > Len(w)
    BY <1>1, <1>3, <1>8
  <2>2. v[Len(v)].frame = k /\ v[Len(v)].byte = Size(f)
    BY <1>1, <1>3, <1>5, <1>8, <2>1
  <2> QED
    BY <1>2, <2>2 DEF EndsWhole
<1> QED
  BY <1>7, <1>8 DEF v, t

-----------------------------------------------------------------------------
(***************************************************************************)
(* The inductive invariant, in three parts: types, the place of the reader *)
(* in the bytes, and what the application has had.                         *)
(***************************************************************************)

Typed ==
  /\ request \in Requests /\ anyOrigin \in BOOLEAN
  /\ pc \in {"upgrade", "idle", "next", "read", "refused", "panic"}
  /\ sent \in Seq(Frames) /\ Len(sent) <= MaxFrames
  /\ wire \in Seq(Byte) /\ net \in {"up", "gone"}
  /\ readRemaining \in Nat /\ readFinal \in BOOLEAN
  /\ readLength \in (-Half)..(Half - 1)
  /\ readMaskPos \in 0..(KeyLength - 1)
  /\ readErr \in {"none"} \union Errors
  /\ readErrCount \in 0..Patience /\ (pc # "panic" => readErrCount < Patience)
  /\ reader \in BOOLEAN /\ got \in Seq(Message)
  /\ reader => got # <<>> /\ got[Len(got)].end = "open"
  /\ pc = "read" => reader
  /\ pc = "next" => ~reader
  /\ writeErr \in {"none", "closeSent", "failed"}

InStep ==
  /\ Framed(wire, sent) /\ (net = "up" => EndsWhole(wire, sent))
  /\ pc # "refused" /\ readErr = "none" =>
       /\ At(wire, sent, readRemaining, readMaskPos)
       /\ wire = <<>> /\ net = "up" => readRemaining = 0

IsPayload(b, s) == /\ b.frame \in 1..Len(s) /\ b.byte \in 1..Size(s[b.frame])
                   /\ b = ByteOf(b.frame, b.byte)
Clean(g, s) == \A j \in 1..Len(g) : \A i \in 1..Len(g[j].data) : IsPayload(g[j].data[i], s)

\* There is a limit, and readLength does not wrap.
Plain == Limit > 0 /\ Moderate
Counted ==
  Plain => /\ readLength >= 0
           /\ reader => Len(got[Len(got)].data) + readRemaining <= readLength
           /\ readErr # "limit" => readLength <= Limit
           /\ NoneTooLong
Had == Clean(got, sent) /\ Counted

Inv == Typed /\ InStep /\ Had

LEMMA SentAreFrames == ASSUME Typed PROVE sent \in Seq(Frame)
<1>1. Frames \subseteq Frame
  BY ReaderAssumption DEF ReaderAssumption
<1> QED
  BY <1>1, SeqMonotonic DEF Typed

\* readLength stays an int64, and counts the payload if the lengths are moderate.
LEMMA LongerIs ==
  ASSUME Typed, NEW f \in Range(sent)
  PROVE  /\ Longer(f) \in (-Half)..(Half - 1)
         /\ Plain /\ readLength \in 0..Limit => /\ Longer(f) = readLength + f.len
                                             /\ f.len \in Nat
<1>1. readLength \in (-Half)..(Half - 1) /\ Half \in Nat /\ Limit \in 0..(Half - 1)
  BY ReaderAssumption DEF ReaderAssumption, Typed
<1>2. PICK k \in DOMAIN sent : f = sent[k]
  BY DEF Range
<1>3. f \in Frame /\ f.len \in (-Half)..(Half - 1)
  <2>1. f \in Frame
    BY <1>2, SentAreFrames, LenProperties, ElementOfSeq
  <2> QED
    BY <2>1 DEF Frame
<1>4. Plain => f.len \in 0..(Half - 1 - Limit)
  BY <1>2 DEF Plain, Moderate
<1> DEFINE l == f.len
           n == readLength + l
<1>5. n \in Int /\ n >= -(2 * Half) /\ n <= 2 * Half - 2
  BY <1>1, <1>3
<1>6. Longer(f) \in (-Half)..(Half - 1)
  <2>1. CASE n >= Half
    <3>1. Longer(f) = n - 2 * Half
      BY <1>1, <1>5, <2>1 DEF Longer
    <3> QED
      BY <1>1, <1>5, <2>1, <3>1
  <2>2. CASE n < -Half
    <3>1. Longer(f) = n + 2 * Half
      BY <1>1, <1>5, <2>2 DEF Longer
    <3> QED
      BY <1>1, <1>5, <2>2, <3>1
  <2>3. CASE ~(n >= Half) /\ ~(n < -Half)
    <3>1. Longer(f) = n
      BY <2>3 DEF Longer
    <3> QED
      BY <1>1, <1>5, <2>3, <3>1
  <2> QED
    BY <2>1, <2>2, <2>3
<1>7. ASSUME Plain, readLength \in 0..Limit
      PROVE  Longer(f) = readLength + f.len /\ f.len \in Nat
  <2>1. l \in 0..(Half - 1 - Limit)
    BY <1>4, <1>7
  <2>2. ~(n >= Half) /\ ~(n < -Half) /\ l \in Nat
    BY <1>1, <1>7, <2>1
  <2> QED
    BY <2>2 DEF Longer
<1> QED
  BY <1>6, <1>7

LEMMA InvInit == Init => Inv
<1> SUFFICES ASSUME Init
             PROVE  Inv
  OBVIOUS
<1>1. Typed
  <2>1. sent \in Seq(Frames) /\ wire \in Seq(Byte) /\ got \in Seq(Message) /\ Len(sent) = 0
    BY EmptySeq DEF Init
  <2>2. /\ request \in Requests /\ anyOrigin \in BOOLEAN /\ pc = "upgrade" /\ net = "up"
        /\ readFinal = TRUE /\ readErr = "none" /\ reader = FALSE /\ writeErr = "none"
        /\ readRemaining = 0 /\ readLength = 0 /\ readMaskPos = 0 /\ readErrCount = 0
    BY DEF Init
  <2>3. MaxFrames \in Nat /\ Patience \in Nat /\ Patience > 0
    BY ReaderAssumption DEF ReaderAssumption
  <2>4. Len(sent) <= MaxFrames /\ readErrCount \in 0..Patience /\ readErrCount < Patience
    BY <2>1, <2>2, <2>3
  <2>5. readMaskPos \in 0..(KeyLength - 1) /\ readLength \in (-Half)..(Half - 1)
    BY <2>2, ReaderAssumption DEF ReaderAssumption, KeyLength
  <2> QED
    BY <2>1, <2>2, <2>4, <2>5 DEF Typed
<1>2. InStep
  BY DEF Init, InStep, Framed, EndsWhole, At
<1>3. Had
  <2>1. Len(got) = 0 /\ DOMAIN got = {} /\ ~reader /\ readLength = 0
    BY DEF Init
  <2> QED
    BY <2>1, ReaderAssumption DEF ReaderAssumption, Had, Clean, Counted, NoneTooLong, Plain, Moderate
<1> QED
  BY <1>1, <1>2, <1>3 DEF Inv

-----------------------------------------------------------------------------
(***************************************************************************)
(* The peer.                                                               *)
(***************************************************************************)

\* It leaves the beginning of a frame, all of it if it stays.
LEMMA PeerWrites ==
  ASSUME Typed, NEW f \in Frames, Peer(f)
  PROVE  \E b \in Seq(Byte) :
           /\ wire' = wire \o b /\ Len(b) <= Size(f) + 1
           /\ \A i \in 1..Len(b) : b[i] = ByteOf(Len(sent) + 1, i - 1)
           /\ net' \in {"up", "gone"} /\ (net' = "up" => Len(b) = Size(f) + 1)
<1> DEFINE k == Len(sent) + 1
           all == Bytes(f, k)
<1>1. f \in Frame /\ k \in Nat
  BY ReaderAssumption DEF ReaderAssumption, Typed
<1>2. /\ all \in Seq(Byte) /\ Len(all) = Size(f) + 1 /\ Size(f) \in Nat
      /\ \A i \in 1..(Size(f) + 1) : all[i] = ByteOf(k, i - 1)
  BY <1>1, BytesAre, SizeType
<1>3. \/ wire' = wire \o all /\ net' = net
      \/ net' = "gone" /\ \E n \in 0..(Len(all) - 1) : wire' = wire \o SubSeq(all, 1, n)
  BY DEF Peer
<1> HIDE DEF all
<1>4. CASE wire' = wire \o all /\ net' = net
  <2>1. net' \in {"up", "gone"}
    BY <1>4 DEF Typed
  <2>2. Len(all) <= Size(f) + 1 /\ \A i \in 1..Len(all) : all[i] = ByteOf(k, i - 1)
    BY <1>2
  <2> QED
    BY <1>2, <1>4, <2>1, <2>2
<1>5. CASE net' = "gone" /\ \E n \in 0..(Len(all) - 1) : wire' = wire \o SubSeq(all, 1, n)
  <2>1. PICK n \in 0..(Len(all) - 1) : wire' = wire \o SubSeq(all, 1, n)
    BY <1>5
  <2>2. n \in 0..Len(all) /\ n <= Size(f) + 1
    BY <1>2, <2>1
  <2> DEFINE b == SubSeq(all, 1, n)
  <2>3. b \in Seq(Byte) /\ Len(b) = n /\ \A i \in 1..n : b[i] = all[i]
    BY <1>2, <2>2, Begin
  <2>4. \A i \in 1..n : i \in 1..(Size(f) + 1)
    BY <1>2, <2>2
  <2> QED
    <3>1. \A i \in 1..n : b[i] = ByteOf(k, i - 1)
      BY <1>2, <2>3, <2>4
    <3>2. wire' = wire \o b
      BY <2>1
    <3> HIDE DEF b
    <3> QED
      BY <1>5, <2>2, <2>3, <3>1, <3>2
<1> QED
  BY <1>3, <1>4, <1>5

LEMMA PeerStep == ASSUME Inv, NEW f \in Frames, Peer(f) PROVE Inv'
<1>1. Typed /\ InStep /\ Had /\ net = "up"
  BY DEF Inv, Peer
<1>2. PICK b \in Seq(Byte) :
        /\ wire' = wire \o b /\ Len(b) <= Size(f) + 1
        /\ \A i \in 1..Len(b) : b[i] = ByteOf(Len(sent) + 1, i - 1)
        /\ net' \in {"up", "gone"} /\ (net' = "up" => Len(b) = Size(f) + 1)
  BY <1>1, PeerWrites
<1>3. sent \in Seq(Frame) /\ f \in Frame /\ wire \in Seq(Byte) /\ sent' = Append(sent, f)
  BY <1>1, SentAreFrames, ReaderAssumption DEF ReaderAssumption, Typed, Peer
<1>4. /\ wire' \in Seq(Byte) /\ Len(wire') = Len(wire) + Len(b)
      /\ \A i \in 1..Len(wire') : wire'[i] = IF i <= Len(wire) THEN wire[i] ELSE b[i - Len(wire)]
  BY <1>2, <1>3, ConcatProperties
<1>5. /\ Len(sent') = Len(sent) + 1 /\ \A k \in 1..Len(sent) : k \in 1..Len(sent') /\ sent'[k] = sent[k]
  BY <1>3, AppendProperties
<1>6. Typed'
  <2>1. sent' \in Seq(Frames) /\ Len(sent') <= MaxFrames
    BY <1>1, <1>3, <1>5, ReaderAssumption DEF Peer, Typed, ReaderAssumption
  <2> QED
    BY <1>1, <1>2, <1>4, <2>1 DEF Typed, Peer, frameVars
<1>7. InStep'
  <2>1. /\ Framed(wire', sent')
        /\ net' = "up" => EndsWhole(wire', sent')
    BY <1>1, <1>2, <1>3, FramedMore DEF InStep
  <2>2. ASSUME pc' # "refused", readErr' = "none"
        PROVE  /\ At(wire', sent', readRemaining', readMaskPos')
               /\ wire' = <<>> /\ net' = "up" => readRemaining' = 0
    <3>1. /\ At(wire, sent, readRemaining, readMaskPos)
          /\ wire = <<>> => readRemaining = 0
          /\ readRemaining' = readRemaining /\ readMaskPos' = readMaskPos
      BY <1>1, <2>2 DEF InStep, Peer, frameVars
    <3>2. CASE wire = <<>>
      <4>1. wire' # <<>> => wire'[1] = ByteOf(Len(sent) + 1, 0)
        BY <1>2, <1>3, <1>4, <3>2
      <4> QED
        BY <3>1, <3>2, <4>1 DEF At, ByteOf
    <3>3. CASE wire # <<>>
      <4>1. 1 \in 1..Len(wire) /\ wire'[1] = wire[1] /\ wire' # <<>>
        BY <1>3, <1>4, <3>3
      <4>2. sent'[wire[1].frame] = sent[wire[1].frame]
        BY <1>1, <1>5, <4>1 DEF InStep, Framed, IsByte
      <4> QED
        BY <3>1, <3>3, <4>1, <4>2 DEF At
    <3> QED
      BY <3>2, <3>3
  <2> QED
    BY <2>1, <2>2 DEF InStep
<1>8. Had'
  <2>1. got' = got /\ UNCHANGED <<reader, readRemaining, readLength, readErr>>
    BY DEF Peer, frameVars
  <2>2. Clean(got, sent')
    BY <1>1, <1>5 DEF Had, Clean, IsPayload
  <2>3. Plain' => Plain
    <3>1. DOMAIN sent = 1..Len(sent) /\ DOMAIN sent' = 1..Len(sent') /\ sent' \in Seq(Frame)
      BY <1>3, AppendProperties, LenProperties
    <3> QED
      BY <1>5, <3>1 DEF Plain, Moderate
  <2> QED
    BY <1>1, <2>1, <2>2, <2>3 DEF Had, Counted, NoneTooLong
<1> QED
  BY <1>6, <1>7, <1>8 DEF Inv

-----------------------------------------------------------------------------
(***************************************************************************)
(* Steps that leave the bytes alone.                                       *)
(***************************************************************************)

LEMMA StandsStill ==
  ASSUME InStep, UNCHANGED <<wire, sent, readRemaining, readMaskPos>>, net' \in {net, "gone"},
         pc' # "refused" => pc # "refused", readErr' = "none" => readErr = "none"
  PROVE  InStep'
BY DEF InStep

LEMMA EndedIs ==
  ASSUME Typed, NEW how \in {"left", "whole"}
  PROVE  /\ Ended(how) \in Seq(Message) /\ Len(Ended(how)) = Len(got)
         /\ \A j \in 1..Len(got) :
              /\ Ended(how)[j].data = got[j].data
              /\ Ended(how)[j].end = IF reader /\ j = Len(got) THEN how ELSE got[j].end
<1>1. CASE ~reader
  BY <1>1 DEF Ended, Typed
<1>2. CASE reader
  <2> DEFINE n == Len(got)
             m == [got[n] EXCEPT !.end = how]
  <2>1. got \in Seq(Message) /\ n \in 1..n
    BY <1>2, EmptySeq DEF Typed
  <2>2. got[n] \in Message
    BY <2>1, ElementOfSeq
  <2>3. m \in Message /\ m.data = got[n].data /\ m.end = how
    BY <2>2 DEF Message
  <2>4. Ended(how) = [got EXCEPT ![n] = m]
    BY <1>2 DEF Ended
  <2> HIDE DEF n, m
  <2>5. /\ [got EXCEPT ![n] = m] \in Seq(Message) /\ Len([got EXCEPT ![n] = m]) = Len(got)
        /\ \A j \in 1..Len(got) : [got EXCEPT ![n] = m][j] = IF j = n THEN m ELSE got[j]
    BY <2>1, <2>3, ExceptSeq DEF n
  <2> QED
    BY <1>2, <2>3, <2>4, <2>5 DEF n
<1> QED
  BY <1>1, <1>2 DEF Typed

LEMMA QuietSteps ==
  ASSUME Inv, Leave \/ AnotherHandler \/ Read \/ ReadFails \/ ReadCut \/ NextReaderFails
  PROVE  Inv'
<1>1. Typed /\ InStep /\ Had
  BY DEF Inv
<1>2. /\ UNCHANGED <<wire, sent, readRemaining, readMaskPos, readLength, readFinal, got, reader>>
      /\ net' \in {net, "gone"}
      /\ pc' # "refused" => pc # "refused"
      /\ readErr' = "none" => readErr = "none"
      /\ readErr # "limit" => readErr' # "limit"
  BY DEF Leave, AnotherHandler, Read, ReadFails, ReadCut, NextReaderFails, peerVars, frameVars
<1>3. readErr' # "limit" => readErr # "limit"
  BY DEF Leave, AnotherHandler, Read, ReadFails, ReadCut, NextReaderFails, peerVars, frameVars
<1>4. Typed'
  <2>1. CASE Leave
    BY <1>1, <2>1 DEF Typed, Leave, frameVars
  <2>6. CASE AnotherHandler
    BY <1>1, <2>6 DEF Typed, AnotherHandler, frameVars
  <2>3. CASE Read
    BY <1>1, <2>3 DEF Typed, Read, peerVars, frameVars
  <2>4. CASE ReadFails
    BY <1>1, <2>4 DEF Typed, ReadFails, peerVars, frameVars
  <2>5. CASE ReadCut
    BY <1>1, <2>5 DEF Typed, ReadCut, peerVars, frameVars, Errors
  <2>2. CASE NextReaderFails
    <3>1. readErrCount \in 0..Patience /\ readErrCount < Patience /\ Patience \in Nat
      BY <1>1, <2>2, ReaderAssumption DEF ReaderAssumption, Typed, NextReaderFails
    <3>2. /\ readErrCount' \in 0..Patience /\ (pc' # "panic" => readErrCount' < Patience)
          /\ pc' \in {"panic", "idle"}
      BY <2>2, <3>1 DEF NextReaderFails
    <3> QED
      BY <1>1, <2>2, <3>2 DEF Typed, NextReaderFails, peerVars, frameVars
  <2> QED
    BY <2>1, <2>2, <2>3, <2>4, <2>5, <2>6
<1>5. InStep'
  BY <1>1, <1>2, StandsStill
<1>6. Had'
  BY <1>1, <1>2, <1>3 DEF Had, Counted, NoneTooLong, Plain, Moderate
<1> QED
  BY <1>4, <1>5, <1>6 DEF Inv

LEMMA NextReaderStep == ASSUME Inv, NextReader PROVE Inv'
<1>1. Typed /\ InStep /\ Had
  BY DEF Inv
<1>2. /\ got' \in Seq(Message) /\ Len(got') = Len(got)
      /\ \A j \in 1..Len(got) : got'[j].data = got[j].data
  BY <1>1, EndedIs DEF NextReader
<1>3. Typed'
  <2>1. 0 \in (-Half)..(Half - 1)
    BY ReaderAssumption DEF ReaderAssumption
  <2> QED
    BY <1>1, <1>2, <2>1 DEF Typed, NextReader, peerVars
<1>4. InStep'
  BY <1>1, StandsStill DEF NextReader, peerVars
<1>5. Clean(got', sent')
  BY <1>1, <1>2 DEF Had, Clean, NextReader, peerVars
<1>6. DOMAIN got = 1..Len(got) /\ DOMAIN got' = 1..Len(got)
  BY <1>1, <1>2, LenProperties DEF Typed
<1>7. Counted'
  <2>1. /\ readLength' = 0 /\ ~reader' /\ Limit \in Nat /\ (Plain' <=> Plain)
        /\ UNCHANGED readErr
    BY ReaderAssumption DEF ReaderAssumption, Plain, Moderate, NextReader, peerVars
  <2>2. NoneTooLong => NoneTooLong'
    BY <1>2, <1>6 DEF NoneTooLong
  <2> QED
    BY <1>1, <2>1, <2>2 DEF Had, Counted
<1> QED
  BY <1>3, <1>4, <1>5, <1>7 DEF Inv, Had

LEMMA ReadEndsStep == ASSUME Inv, ReadEnds PROVE Inv'
<1>1. Typed /\ InStep /\ Had
  BY DEF Inv
<1>2. /\ got' \in Seq(Message) /\ Len(got') = Len(got)
      /\ \A j \in 1..Len(got) : got'[j].data = got[j].data
  BY <1>1, EndedIs DEF ReadEnds
<1>3. Typed'
  BY <1>1, <1>2 DEF Typed, ReadEnds, peerVars, frameVars
<1>4. InStep'
  BY <1>1, StandsStill DEF ReadEnds, peerVars, frameVars
<1>5. Clean(got', sent')
  BY <1>1, <1>2 DEF Had, Clean, ReadEnds, peerVars
<1>6. DOMAIN got = 1..Len(got) /\ DOMAIN got' = 1..Len(got)
  BY <1>1, <1>2, LenProperties DEF Typed
<1>7. Counted'
  BY <1>1, <1>2, <1>6 DEF Had, Counted, NoneTooLong, Plain, Moderate, ReadEnds, peerVars, frameVars
<1> QED
  BY <1>3, <1>4, <1>5, <1>7 DEF Inv, Had

\* The connection goes on only if the HTTP server has taken none of the bytes.
LEMMA UpgradeStep == ASSUME Inv, Upgrade PROVE Inv'
<1>1. Typed /\ InStep /\ Had /\ wire \in Seq(Byte) /\ sent \in Seq(Frame)
  BY SentAreFrames DEF Inv, Typed
<1>2. PICK n \in 0..Len(wire) :
        /\ wire' = SubSeq(wire, n + 1, Len(wire))
        /\ pc' \in {"idle", "refused"} /\ (pc' # "refused" => n = 0)
  BY DEF Upgrade, TooEarly
<1>3. n \in Nat /\ wire' \in Seq(Byte)
  BY <1>1, <1>2, Rest
<1>4. pc' # "refused" => wire' = wire /\ pc # "refused" /\ net' = net
  BY <1>1, <1>2, SubSeqFull DEF Upgrade
<1>5. net' \in {net, "gone"}
  BY DEF Upgrade
<1>6. Typed'
  BY <1>1, <1>2, <1>3, <1>5 DEF Typed, Upgrade, frameVars
<1>7. InStep'
  <2>1. Framed(wire', sent) /\ (EndsWhole(wire, sent) => EndsWhole(wire', sent))
    BY <1>1, <1>2, <1>3, FramedRest DEF InStep
  <2> QED
    BY <1>1, <1>4, <1>5, <2>1 DEF InStep, Upgrade, frameVars
<1>8. Had'
  BY <1>1 DEF Had, Counted, NoneTooLong, Plain, Moderate, Upgrade, frameVars
<1> QED
  BY <1>6, <1>7, <1>8 DEF Inv

-----------------------------------------------------------------------------
(***************************************************************************)
(* Payload is read.                                                        *)
(***************************************************************************)

\* Past n bytes of a frame of which r are left the reader is where it should be.
LEMMA AtPiece ==
  ASSUME NEW s \in Seq(Frame), NEW w \in Seq(Byte), Framed(w, s),
         NEW r \in Nat, NEW m \in 0..(KeyLength - 1), At(w, s, r, m),
         NEW n \in 1..r, n <= Len(w)
  PROVE  /\ \A i \in 1..n : /\ w[i] = ByteOf(w[1].frame, w[1].byte + (i - 1))
                            /\ w[1].byte + (i - 1) \in 1..Size(s[w[1].frame])
                            /\ Key(w[1].byte + (i - 1)) = (m + i - 1) % KeyLength
         /\ w[1].frame \in 1..Len(s)
         /\ At(SubSeq(w, n + 1, Len(w)), s, r - n, (m + n) % KeyLength)
         /\ Len(w) = n /\ EndsWhole(w, s) => r = n
<1> DEFINE k == w[1].frame
           d == w[1].byte
           z == Size(s[k])
<1>1. Len(w) \in Nat /\ 1 \in 1..Len(w) /\ w # <<>>
  BY EmptySeq
<1>2. k \in 1..Len(s) /\ d \in Nat /\ z \in Nat
  BY <1>1, ElementOfSeq, SizeType DEF Framed, IsByte
<1>3. d >= 1 /\ d + r = z + 1 /\ m = (d - 1) % KeyLength
  BY <1>1 DEF At
<1>4. \A i \in 1..Len(w) : Follows(w, s, 1, i)
  BY <1>1 DEF Framed
<1> HIDE DEF k, d, z
<1>5. \A i \in 1..Len(w) : /\ d + (i - 1) <= z => w[i] = ByteOf(k, d + (i - 1))
                           /\ d + (i - 1) = z + 1 => w[i].byte = 0
  <2>1. ByteOf(k + 1, 0).byte = 0
    BY DEF ByteOf
  <2> QED
    BY <1>4, <2>1 DEF Follows, k, d, z
<1>6. ASSUME NEW i \in 1..n
      PROVE  /\ w[i] = ByteOf(k, d + (i - 1)) /\ d + (i - 1) \in 1..z
             /\ Key(d + (i - 1)) = (m + i - 1) % KeyLength
  <2>1. i \in 1..Len(w) /\ d + (i - 1) \in 1..z
    BY <1>1, <1>2, <1>3
  <2>2. w[i] = ByteOf(k, d + (i - 1))
    BY <1>5, <2>1
  <2>3. (d + (i - 1) - 1) % KeyLength = (m + i - 1) % KeyLength
    BY <1>2, <1>3 DEF KeyLength
  <2>4. Key(d + (i - 1)) = (d + (i - 1) - 1) % KeyLength
    BY <2>1, <1>2 DEF Key
  <2> QED
    BY <2>1, <2>2, <2>3, <2>4
<1> DEFINE v == SubSeq(w, n + 1, Len(w))
<1>7. /\ v \in Seq(Byte) /\ Len(v) = Len(w) - n
      /\ \A i \in 1..Len(v) : i + n \in 1..Len(w) /\ v[i] = w[i + n]
  <2>1. n \in Nat /\ n <= Len(w)
    OBVIOUS
  <2>2. /\ v \in Seq(Byte) /\ Len(v) = IF n <= Len(w) THEN Len(w) - n ELSE 0
        /\ \A i \in 1..Len(v) : i + n \in 1..Len(w) /\ v[i] = w[i + n]
    BY <2>1, Rest
  <2> HIDE DEF v
  <2> QED
    BY <2>1, <2>2
<1> HIDE DEF v
<1>8. ASSUME v # <<>>
      PROVE  /\ n + 1 \in 1..Len(w) /\ v[1] = w[n + 1]
  <2>1. Len(v) \in Nat \ {0}
    BY <1>7, <1>8, EmptySeq
  <2> QED
    BY <1>1, <1>7, <2>1
<1>9. At(v, s, r - n, (m + n) % KeyLength)
  <2>1. ASSUME r - n = 0, v # <<>>
        PROVE  v[1].byte = 0
    <3>1. d + ((n + 1) - 1) = z + 1
      BY <1>2, <1>3, <2>1
    <3> QED
      BY <1>5, <1>8, <2>1, <3>1
  <2>2. ASSUME r - n > 0, v # <<>>
        PROVE  /\ v[1].byte >= 1 /\ v[1].byte + (r - n) = Size(s[v[1].frame]) + 1
               /\ (m + n) % KeyLength = (v[1].byte - 1) % KeyLength
    <3>1. d + ((n + 1) - 1) <= z /\ d + ((n + 1) - 1) = d + n
      BY <1>2, <1>3, <2>2
    <3>2. v[1] = ByteOf(k, d + n)
      BY <1>5, <1>8, <2>2, <3>1
    <3>3. v[1].byte = d + n /\ v[1].frame = k
      BY <3>2 DEF ByteOf
    <3>4. (m + n) % KeyLength = (d + n - 1) % KeyLength
      BY <1>2, <1>3 DEF KeyLength
    <3> QED
      BY <1>2, <1>3, <3>3, <3>4 DEF z
  <2> QED
    BY <2>1, <2>2 DEF At
<1>10. ASSUME Len(w) = n, EndsWhole(w, s)
       PROVE  r = n
  <2>1. w[n] = ByteOf(k, d + (n - 1))
    BY <1>6
  <2>2. w[n].byte = d + (n - 1) /\ w[n].frame = k
    BY <2>1 DEF ByteOf
  <2>3. w[n].byte = z
    BY <1>1, <1>10, <2>2 DEF EndsWhole, z
  <2> QED
    BY <1>2, <1>3, <2>2, <2>3
<1> QED
  BY <1>2, <1>6, <1>9, <1>10 DEF k, d, z, v

\* What ReadBytes() appends to the message that is being read.
LEMMA ReadBytesTakes ==
  ASSUME Inv, ReadBytes
  PROVE  \E n \in 1..readRemaining, new \in Seq(Byte), m \in Message :
           LET g   == Len(got)
               old == got[g].data
           IN  /\ n <= Len(wire) /\ g \in 1..g /\ got[g] \in Message
               /\ wire' = SubSeq(wire, n + 1, Len(wire))
               /\ readMaskPos' = (readMaskPos + n) % KeyLength
               /\ readRemaining' = readRemaining - n
               /\ \A i \in 1..n : /\ wire[i] = ByteOf(wire[1].frame, wire[1].byte + (i - 1))
                                  /\ IsPayload(wire[i], sent)
               /\ At(wire', sent, readRemaining', readMaskPos')
               /\ Len(wire) = n /\ EndsWhole(wire, sent) => readRemaining = n
               /\ Len(old) \in Nat /\ Len(new) = Len(old) + n
               /\ \A i \in 1..Len(new) : new[i] = IF i <= Len(old) THEN old[i]
                                                  ELSE wire[i - Len(old)]
               /\ m.data = new /\ m.end = got[g].end
               /\ got' \in Seq(Message) /\ Len(got') = g
               /\ \A j \in 1..g : got'[j] = IF j = g THEN m ELSE got[j]
<1>1. Typed /\ InStep /\ Had /\ sent \in Seq(Frame)
  BY SentAreFrames DEF Inv
<1>2. /\ wire \in Seq(Byte) /\ readRemaining \in Nat /\ readMaskPos \in 0..(KeyLength - 1)
      /\ reader /\ got \in Seq(Message) /\ got # <<>>
  BY <1>1 DEF Typed, ReadBytes
<1>3. At(wire, sent, readRemaining, readMaskPos) /\ Framed(wire, sent)
  BY <1>1 DEF InStep, ReadBytes
<1> DEFINE g == Len(got)
           more(n) == Unmasked(SubSeq(wire, 1, n))
<1>4. PICK n \in 1..readRemaining :
        /\ n <= Len(wire)
        /\ got' = [got EXCEPT ![g].data = @ \o more(n)]
        /\ wire' = SubSeq(wire, n + 1, Len(wire))
        /\ readMaskPos' = (readMaskPos + n) % KeyLength
        /\ readRemaining' = readRemaining - n
  BY DEF ReadBytes, MaskPos
<1>5. /\ \A i \in 1..n : /\ wire[i] = ByteOf(wire[1].frame, wire[1].byte + (i - 1))
                         /\ wire[1].byte + (i - 1) \in 1..Size(sent[wire[1].frame])
                         /\ Key(wire[1].byte + (i - 1)) = (readMaskPos + i - 1) % KeyLength
      /\ wire[1].frame \in 1..Len(sent)
      /\ At(wire', sent, readRemaining', readMaskPos')
      /\ Len(wire) = n /\ EndsWhole(wire, sent) => readRemaining = n
  BY <1>1, <1>2, <1>3, <1>4, AtPiece
<1>6. n \in Nat /\ n \in 0..Len(wire) /\ Len(wire) \in Nat
  BY <1>2, <1>4
<1>7. /\ SubSeq(wire, 1, n) \in Seq(Byte) /\ Len(SubSeq(wire, 1, n)) = n
      /\ \A i \in 1..n : SubSeq(wire, 1, n)[i] = wire[i]
  BY <1>2, <1>6, Begin
<1>8. /\ more(n) \in Seq(Byte) /\ Len(more(n)) = n
      /\ \A i \in 1..n : /\ more(n)[i] = wire[i]
                         /\ IsPayload(wire[i], sent)
  <2>1. DOMAIN SubSeq(wire, 1, n) = 1..n
    BY <1>7, LenProperties
  <2>2. more(n) = [i \in 1..n |->
                    [wire[i] EXCEPT !.key = (readMaskPos + i - 1) % KeyLength]]
    BY <1>7, <2>1 DEF Unmasked
  <2>3. \A i \in 1..n : [wire[i] EXCEPT !.key = (readMaskPos + i - 1) % KeyLength] = wire[i]
    <3>1. \A k, d : [ByteOf(k, d) EXCEPT !.key = Key(d)] = ByteOf(k, d)
      BY DEF ByteOf
    <3> QED
      BY <1>5, <3>1
  <2>4. more(n) = [i \in 1..n |-> wire[i]]
    BY <2>2, <2>3
  <2>5. \A i \in 1..n : wire[i] \in Byte
    BY <1>2, <1>6, ElementOfSeq
  <2>6. \A i \in 1..n : IsPayload(wire[i], sent)
    <3>1. \A k, d : ByteOf(k, d).frame = k /\ ByteOf(k, d).byte = d
      BY DEF ByteOf
    <3>2. ASSUME NEW i \in 1..n
          PROVE  /\ wire[i].frame = wire[1].frame /\ wire[i].byte = wire[1].byte + (i - 1)
                 /\ wire[i] = ByteOf(wire[1].frame, wire[1].byte + (i - 1))
                 /\ wire[1].byte + (i - 1) \in 1..Size(sent[wire[1].frame])
      <4>1. /\ wire[i] = ByteOf(wire[1].frame, wire[1].byte + (i - 1))
            /\ wire[1].byte + (i - 1) \in 1..Size(sent[wire[1].frame])
        BY <1>5
      <4> QED
        BY <3>1, <4>1
    <3> QED
      BY <1>5, <3>2 DEF IsPayload
  <2> HIDE DEF more
  <2> QED
    BY <1>6, <2>4, <2>5, <2>6
<1> DEFINE old == got[g].data
           new == old \o more(n)
           m == [got[g] EXCEPT !.data = new]
<1>9. g \in 1..Len(got) /\ got[g] \in Message /\ old \in Seq(Byte) /\ Len(old) \in Nat
  <2>1. g \in 1..Len(got)
    BY <1>2, EmptySeq
  <2>2. got[g] \in Message
    BY <1>2, <2>1, ElementOfSeq
  <2>3. old \in Seq(Byte)
    BY <2>2 DEF Message
  <2> QED
    BY <2>1, <2>2, <2>3, LenProperties
<1> HIDE DEF more
<1>10. /\ new \in Seq(Byte) /\ Len(new) = Len(old) + n
       /\ \A i \in 1..Len(new) : new[i] = IF i <= Len(old) THEN old[i] ELSE more(n)[i - Len(old)]
  <2> DEFINE piece == more(n)
  <2>1. piece \in Seq(Byte) /\ Len(piece) = n
    BY <1>8
  <2> HIDE DEF piece
  <2>2. /\ old \o piece \in Seq(Byte) /\ Len(old \o piece) = Len(old) + Len(piece)
        /\ \A i \in 1..(Len(old) + Len(piece)) :
             (old \o piece)[i] = IF i <= Len(old) THEN old[i] ELSE piece[i - Len(old)]
    <3> HIDE DEF old
    <3>1. old \in Seq(Byte)
      BY <1>9
    <3> QED
      BY <2>1, <3>1, ConcatProperties
  <2>3. new = old \o piece
    BY DEF piece
  <2> HIDE DEF new
  <2> QED
    BY <2>1, <2>2, <2>3 DEF piece
<1> HIDE DEF old, new
<1>11. m \in Message /\ m.data = new /\ m.end = got[g].end
  BY <1>9, <1>10 DEF Message
<1>12. got' = [got EXCEPT ![g] = m]
  BY <1>4 DEF new, old
<1> HIDE DEF m, g
<1>13. /\ got' \in Seq(Message) /\ Len(got') = Len(got)
       /\ \A j \in 1..Len(got) : got'[j] = IF j = g THEN m ELSE got[j]
  BY <1>2, <1>9, <1>11, <1>12, ExceptSeq DEF g
<1>14. \A i \in 1..Len(new) : new[i] = IF i <= Len(old) THEN old[i] ELSE wire[i - Len(old)]
  <2>1. \A i \in 1..Len(new) : i > Len(old) => i - Len(old) \in 1..n
    BY <1>6, <1>9, <1>10
  <2> QED
    BY <1>8, <1>10, <2>1
<1>15. new \in Seq(Byte) /\ Len(new) = Len(old) + n
  BY <1>10
<1>16. /\ \A i \in 1..n : /\ wire[i] = ByteOf(wire[1].frame, wire[1].byte + (i - 1))
                          /\ IsPayload(wire[i], sent)
       /\ g \in 1..g
  BY <1>5, <1>8, <1>9 DEF g
<1>17. m \in Message
  BY <1>11
<1> USE <1>15, <1>17
<1> WITNESS n \in 1..readRemaining, new \in Seq(Byte), m \in Message
<1> QED
  BY <1>4, <1>5, <1>9, <1>11, <1>13, <1>14, <1>15, <1>16 DEF g, old

LEMMA ReadBytesStep == ASSUME Inv, ReadBytes PROVE Inv'
<1>1. Typed /\ InStep /\ Had /\ sent \in Seq(Frame)
  BY SentAreFrames DEF Inv
<1>2. /\ wire \in Seq(Byte) /\ readRemaining \in Nat /\ readMaskPos \in 0..(KeyLength - 1)
      /\ reader /\ got \in Seq(Message) /\ got # <<>>
  BY <1>1 DEF Typed, ReadBytes
<1>3. At(wire, sent, readRemaining, readMaskPos) /\ Framed(wire, sent)
  BY <1>1 DEF InStep, ReadBytes
<1> DEFINE g == Len(got)
           old == got[g].data
<1>4. PICK n \in 1..readRemaining, new \in Seq(Byte), m \in Message :
        /\ n <= Len(wire) /\ g \in 1..g /\ got[g] \in Message
        /\ wire' = SubSeq(wire, n + 1, Len(wire))
        /\ readMaskPos' = (readMaskPos + n) % KeyLength
        /\ readRemaining' = readRemaining - n
        /\ \A i \in 1..n : IsPayload(wire[i], sent)
        /\ At(wire', sent, readRemaining', readMaskPos')
        /\ Len(wire) = n /\ EndsWhole(wire, sent) => readRemaining = n
        /\ Len(old) \in Nat /\ Len(new) = Len(old) + n
        /\ \A i \in 1..Len(new) : new[i] = IF i <= Len(old) THEN old[i] ELSE wire[i - Len(old)]
        /\ m.data = new /\ m.end = got[g].end
        /\ got' \in Seq(Message) /\ Len(got') = g
        /\ \A j \in 1..g : got'[j] = IF j = g THEN m ELSE got[j]
  BY ReadBytesTakes
<1> HIDE DEF g, old
<1>5. /\ At(wire', sent, readRemaining', readMaskPos')
      /\ Len(wire) = n /\ EndsWhole(wire, sent) => readRemaining = n
  BY <1>4
<1>6. n \in Nat /\ n \in 0..Len(wire) /\ Len(wire) \in Nat
  BY <1>2, <1>4
<1>8. \A i \in 1..n : IsPayload(wire[i], sent)
  BY <1>4
<1>9. g \in 1..Len(got) /\ got[g] \in Message /\ Len(old) \in Nat
  BY <1>4 DEF g
<1>10. /\ new \in Seq(Byte) /\ Len(new) = Len(old) + n
       /\ \A i \in 1..Len(new) : new[i] = IF i <= Len(old) THEN old[i] ELSE wire[i - Len(old)]
  BY <1>4
<1>11. m \in Message /\ m.data = new /\ m.end = got[g].end
  BY <1>4
<1>13. /\ got' \in Seq(Message) /\ Len(got') = Len(got)
       /\ \A j \in 1..Len(got) : got'[j] = IF j = g THEN m ELSE got[j]
  BY <1>4 DEF g
<1>14. wire' \in Seq(Byte) /\ Len(wire') = Len(wire) - n
  BY <1>2, <1>4, <1>6, Rest
<1>15. readMaskPos' \in 0..(KeyLength - 1) /\ readRemaining' \in Nat
  <2>1. readMaskPos \in Nat /\ readMaskPos + n \in Nat
    BY <1>2, <1>6 DEF KeyLength
  <2>2. (readMaskPos + n) % KeyLength \in 0..(KeyLength - 1)
    BY <2>1 DEF KeyLength
  <2>3. readRemaining - n \in Nat
    BY <1>2, <1>4
  <2> QED
    BY <1>4, <2>2, <2>3
<1>16. Typed'
  <2>1. got' # <<>> /\ got'[Len(got')].end = "open"
    BY <1>1, <1>2, <1>9, <1>11, <1>13, EmptySeq DEF Typed, g
  <2> QED
    BY <1>1, <1>13, <1>14, <1>15, <2>1 DEF Typed, ReadBytes, peerVars
<1>17. InStep'
  <2>1. Framed(wire', sent) /\ (EndsWhole(wire, sent) => EndsWhole(wire', sent))
    BY <1>1, <1>2, <1>3, <1>4, <1>6, FramedRest
  <2>2. wire' = <<>> /\ net = "up" => readRemaining' = 0
    <3>1. ASSUME wire' = <<>>, net = "up"
          PROVE  readRemaining' = 0
      <4>1. Len(wire) = n
        BY <1>6, <1>14, <3>1
      <4>2. readRemaining = n
        BY <1>1, <1>5, <3>1, <4>1 DEF InStep
      <4> QED
        BY <1>4, <1>6, <4>2
    <3> QED
      BY <3>1
  <2> QED
    BY <1>1, <1>5, <2>1, <2>2 DEF InStep, ReadBytes, peerVars
<1>18. Clean(got', sent')
  <2>1. ASSUME NEW j \in 1..Len(got'), NEW i \in 1..Len(got'[j].data)
        PROVE  IsPayload(got'[j].data[i], sent)
    <3>1. CASE j # g
      BY <1>1, <1>13, <2>1, <3>1 DEF Had, Clean
    <3>2. CASE j = g
      <4>1. got'[j].data = new /\ i \in 1..Len(new)
        BY <1>11, <1>13, <2>1, <3>2
      <4>2. CASE i <= Len(old)
        <5>1. i \in 1..Len(old) /\ new[i] = old[i]
          BY <1>9, <1>10, <4>1, <4>2
        <5>2. \A l \in 1..Len(got[g].data) : IsPayload(got[g].data[l], sent)
          BY <1>1, <1>9 DEF Had, Clean
        <5> QED
          BY <4>1, <5>1, <5>2 DEF old
      <4>3. CASE i > Len(old)
        <5>1. i - Len(old) \in 1..n
          BY <1>6, <1>9, <1>10, <4>1, <4>3
        <5> QED
          BY <1>8, <1>10, <4>1, <4>3, <5>1
      <4> QED
        BY <1>9, <4>1, <4>2, <4>3
    <3> QED
      BY <3>1, <3>2
  <2> QED
    BY <2>1 DEF Clean, ReadBytes, peerVars
<1>19. Counted'
  <2> SUFFICES ASSUME Plain'
               PROVE  /\ readLength' >= 0
                      /\ reader' => Len(got'[Len(got')].data) + readRemaining' <= readLength'
                      /\ readErr' # "limit" => readLength' <= Limit
                      /\ NoneTooLong'
    BY DEF Counted
  <2>0. Plain
    BY DEF Plain, Moderate, ReadBytes, peerVars
  <2>1. Len(old) + readRemaining <= readLength /\ readLength >= 0
    BY <1>1, <1>2, <2>0 DEF Had, Counted, old, g
  <2>2. Len(new) + readRemaining' <= readLength /\ Len(new) <= readLength
    <3>1. readLength \in Int
      BY <1>1, ReaderAssumption DEF ReaderAssumption, Typed
    <3> QED
      BY <1>2, <1>4, <1>6, <1>9, <1>10, <2>1, <3>1
  <2>3. got'[Len(got')].data = new
    BY <1>9, <1>11, <1>13 DEF g
  <2>4. readLength' = readLength /\ readErr = "none" /\ readErr' = "none" /\ readLength \in Int
    BY <1>1, ReaderAssumption DEF ReaderAssumption, ReadBytes, Typed
  <2>5. readLength <= Limit
    BY <1>1, <2>0, <2>4 DEF Had, Counted
  <2>6. DOMAIN got = 1..Len(got) /\ DOMAIN got' = 1..Len(got)
    BY <1>2, <1>13, LenProperties
  <2>7. \A j \in 1..Len(got) : Len(got'[j].data) <= Limit
    <3>1. ASSUME NEW j \in 1..Len(got)
          PROVE  Len(got'[j].data) <= Limit
      <4>1. CASE j = g
        <5>1. got'[j].data = new
          BY <1>11, <1>13, <4>1
        <5>2. Len(new) \in Nat /\ Limit \in Nat
          BY <1>10, ReaderAssumption DEF ReaderAssumption
        <5> QED
          BY <2>2, <2>4, <2>5, <5>1, <5>2
      <4>2. CASE j # g
        BY <1>1, <1>13, <2>0, <2>6, <3>1, <4>2 DEF Had, Counted, NoneTooLong, Plain
      <4> QED
        BY <4>1, <4>2
    <3> QED
      BY <3>1
  <2> QED
    BY <2>1, <2>2, <2>3, <2>4, <2>5, <2>6, <2>7 DEF NoneTooLong
<1> QED
  BY <1>16, <1>17, <1>18, <1>19 DEF Inv, Had

-----------------------------------------------------------------------------
(***************************************************************************)
(* advanceFrame().                                                         *)
(***************************************************************************)

LEMMA WriteType ==
  ASSUME writeErr \in {"none", "closeSent", "failed"}, NEW op, NEW ok \in BOOLEAN, Write(op, ok)
  PROVE  writeErr' \in {"none", "closeSent", "failed"}
BY DEF Write

\* What comes after the rest of a frame is a header.
LEMMA HeaderNext ==
  ASSUME NEW s \in Seq(Frame), NEW w \in Seq(Byte), Framed(w, s),
         NEW r \in Nat, NEW m \in 0..(KeyLength - 1), At(w, s, r, m), r + 1 <= Len(w)
  PROVE  w[r + 1].byte = 0
<1>1. Len(w) \in Nat /\ w # <<>> /\ 1 \in 1..Len(w) /\ r + 1 \in 1..Len(w)
  BY EmptySeq
<1>2. CASE r = 0
  BY <1>1, <1>2 DEF At
<1>3. CASE r > 0
  <2>1. w[1].byte + ((r + 1) - 1) = Size(s[w[1].frame]) + 1
    BY <1>1, <1>3 DEF At
  <2>2. Follows(w, s, 1, r + 1)
    BY <1>1 DEF Framed
  <2> QED
    BY <2>1, <2>2 DEF Follows, ByteOf
<1> QED
  BY <1>2, <1>3

\* Past the header of a frame the reader is at its first byte.
LEMMA AtHeader ==
  ASSUME NEW s \in Seq(Frame), NEW w \in Seq(Byte), Framed(w, s),
         NEW n \in 1..Len(w), w[n].byte = 0
  PROVE  /\ w[n].frame \in 1..Len(s)
         /\ At(SubSeq(w, n + 1, Len(w)), s, Size(s[w[n].frame]), 0)
         /\ Len(w) = n /\ EndsWhole(w, s) => Size(s[w[n].frame]) = 0
<1> DEFINE k == w[n].frame
           z == Size(s[k])
           v == SubSeq(w, n + 1, Len(w))
<1>1. Len(w) \in Nat /\ n \in Nat /\ n <= Len(w) /\ w # <<>>
  BY EmptySeq
<1>2. k \in 1..Len(s)
  BY DEF Framed, IsByte
<1>3. z \in Nat
  BY <1>2, ElementOfSeq, SizeType
<1>4. /\ v \in Seq(Byte) /\ Len(v) = IF n <= Len(w) THEN Len(w) - n ELSE 0
      /\ \A i \in 1..Len(v) : i + n \in 1..Len(w) /\ v[i] = w[i + n]
  BY <1>1, Rest
<1> HIDE DEF v, k, z
<1>5. ASSUME v # <<>>
      PROVE  /\ z >= 1 => v[1] = ByteOf(k, 1)
             /\ z = 0 => v[1].byte = 0
  <2>1. Len(v) \in Nat \ {0}
    BY <1>4, <1>5, EmptySeq
  <2>2. n + 1 \in 1..Len(w) /\ v[1] = w[n + 1]
    BY <1>1, <1>4, <2>1
  <2>3. Follows(w, s, n, n + 1)
    BY <1>1, <2>2 DEF Framed
  <2>4. w[n].byte + ((n + 1) - n) = 1
    BY <1>1
  <2> QED
    BY <1>3, <2>2, <2>3, <2>4 DEF Follows, k, z, ByteOf
<1>6. At(v, s, z, 0)
  <2>1. ASSUME z > 0, v # <<>>
        PROVE  v[1].byte >= 1 /\ v[1].byte + z = Size(s[v[1].frame]) + 1 /\ 0 = (v[1].byte - 1) % KeyLength
    <3>1. v[1].byte = 1 /\ v[1].frame = k
      BY <1>3, <1>5, <2>1 DEF ByteOf
    <3>2. (1 - 1) % KeyLength = 0
      BY DEF KeyLength
    <3> QED
      BY <1>3, <3>1, <3>2 DEF z
  <2> QED
    BY <1>3, <1>5, <2>1 DEF At
<1>7. Len(w) = n /\ EndsWhole(w, s) => z = 0
  BY <1>1 DEF EndsWhole, k, z
<1> QED
  BY <1>2, <1>6, <1>7 DEF k, z, v

\* Either the connection ends, or the header of a frame f is taken.
LEMMA Advances ==
  ASSUME Inv, Advance
  PROVE  \/ /\ wire' = <<>> /\ UNCHANGED writeErr
            /\ \E err \in Errors \ {"limit"} : EndWith(err)
         \/ LET n == readRemaining + 1
                f == sent[wire[n].frame]
            IN  /\ n \in 1..Len(wire) /\ wire[n].byte = 0 /\ wire[n].frame \in 1..Len(sent)
                /\ wire' = SubSeq(wire, n + 1, Len(wire))
                /\ \/ EndWith("protocol") /\ \E ok \in BOOLEAN : Write("close", ok)
                   \/ ~f.wrong /\ f.op \in {"data", "cont"} /\ ~OutOfPlace(f) /\ DataFrame(f)
                   \/ ~f.wrong /\ f.op \notin {"data", "cont"} /\ ControlFrame(f)
<1> DEFINE n == readRemaining + 1
           rest == SubSeq(wire, n, Len(wire))
           f == sent[Head(rest).frame]
<1>1. /\ wire \in Seq(Byte) /\ readRemaining \in Nat /\ sent \in Seq(Frame)
      /\ readMaskPos \in 0..(KeyLength - 1)
  BY SentAreFrames DEF Inv, Typed
<1>2. CASE AtEnd(rest) /\ wire' = <<>> /\ UNCHANGED writeErr
           /\ EndWith(IF Len(wire) < readRemaining THEN "EOF" ELSE "unexpectedEOF")
  BY <1>2 DEF Errors
<1>3. CASE /\ rest # <<>> /\ wire' = Tail(rest)
           /\ CASE f.wrong \/ OutOfPlace(f) ->
                     HandleProtocolError
                [] ~f.wrong /\ ~OutOfPlace(f) /\ f.op \in {"data", "cont"} -> DataFrame(f)
                [] OTHER -> ControlFrame(f)
  <2>1. n \in Nat /\ Len(wire) \in Nat
    BY <1>1
  <2>2. n <= Len(wire)
    <3>1. SUFFICES ASSUME Len(wire) < n
                   PROVE  FALSE
      BY <2>1
    <3>2. rest = <<>>
      BY <2>1, <3>1, SubSeqEmpty
    <3> QED
      BY <1>3, <3>2
  <2>3. n \in 1..Len(wire) /\ Len(wire) \in n..Len(wire)
    BY <1>1, <2>1, <2>2
  <2>4. Head(rest) = wire[n] /\ Tail(rest) = SubSeq(wire, n + 1, Len(wire))
    BY <1>1, <2>3, HeadTailOfSubSeq
  <2>5. Framed(wire, sent) /\ At(wire, sent, readRemaining, readMaskPos)
    BY DEF Inv, InStep, Advance
  <2>6. wire[n].byte = 0
    BY <1>1, <2>2, <2>5, HeaderNext
  <2>7. wire[n].frame \in 1..Len(sent)
    BY <2>3, <2>5 DEF Framed, IsByte
  <2>8. f = sent[wire[n].frame]
    BY <2>4
  <2> HIDE DEF f, rest
  <2>9. \/ EndWith("protocol") /\ \E ok \in BOOLEAN : Write("close", ok)
        \/ ~f.wrong /\ f.op \in {"data", "cont"} /\ ~OutOfPlace(f) /\ DataFrame(f)
        \/ ~f.wrong /\ f.op \notin {"data", "cont"} /\ ControlFrame(f)
    BY <1>3 DEF HandleProtocolError
  <2> QED
    BY <1>3, <2>3, <2>4, <2>6, <2>7, <2>8, <2>9
<1> QED
  BY <1>2, <1>3 DEF Advance

LEMMA AdvanceStep == ASSUME Inv, Advance PROVE Inv'
<1>1. Typed /\ InStep /\ Had /\ sent \in Seq(Frame)
  BY SentAreFrames DEF Inv
<1>2. /\ UNCHANGED <<request, anyOrigin, sent, net, readErrCount>>
      /\ pc \in {"next", "read"} /\ readErr = "none"
      /\ pc = "read" => readRemaining = 0 /\ ~readFinal
  BY DEF Advance, peerVars
<1>3. wire \in Seq(Byte) /\ readRemaining \in Nat /\ Len(wire) \in Nat /\ readLength \in Int
  BY <1>1, ReaderAssumption DEF ReaderAssumption, Typed
<1>4. ASSUME wire' = <<>>, UNCHANGED writeErr, NEW err \in Errors \ {"limit"}, EndWith(err)
      PROVE  Inv'
  <2>1. /\ readErr' = err /\ err # "none"
        /\ UNCHANGED <<readRemaining, readFinal, readLength, readMaskPos, pc, reader, got>>
    BY <1>4 DEF EndWith, frameVars, Errors
  <2>2. Typed'
    BY <1>1, <1>2, <1>4, <2>1, EmptySeq DEF Typed
  <2>3. InStep'
    BY <1>4, <2>1 DEF InStep, Framed, EndsWhole
  <2>4. Had'
    BY <1>1, <1>2, <1>4, <2>1 DEF Had, Counted, NoneTooLong, Plain, Moderate
  <2> QED
    BY <2>2, <2>3, <2>4 DEF Inv
<1>5. ASSUME NEW n, NEW f, n = readRemaining + 1, f = sent[wire[n].frame],
             n \in 1..Len(wire), wire[n].byte = 0, wire[n].frame \in 1..Len(sent),
             wire' = SubSeq(wire, n + 1, Len(wire)),
             \/ EndWith("protocol") /\ \E ok \in BOOLEAN : Write("close", ok)
             \/ f.op \in {"data", "cont"} /\ ~OutOfPlace(f) /\ DataFrame(f)
             \/ f.op \notin {"data", "cont"} /\ ControlFrame(f)
      PROVE  Inv'
  <2>1. f \in Frame /\ f.fin \in BOOLEAN /\ f.len \in Int /\ f \in Range(sent)
        /\ f.op \in {"data", "cont", "ping", "pong", "close"} /\ Size(f) \in Nat
    <3>1. f \in Frame /\ f \in Range(sent)
      BY <1>1, <1>5, LenProperties, ElementOfSeq DEF Range
    <3> QED
      BY <3>1, SizeType, ReaderAssumption DEF ReaderAssumption, Frame
  <2>2. /\ wire' \in Seq(Byte) /\ Framed(wire', sent)
        /\ EndsWhole(wire, sent) => EndsWhole(wire', sent)
        /\ Len(wire') = Len(wire) - n
    <3>1. n \in Nat /\ Framed(wire, sent) /\ n <= Len(wire)
      BY <1>1, <1>3, <1>5 DEF InStep
    <3> QED
      BY <1>1, <1>3, <1>5, <3>1, FramedRest, Rest
  <2>3. /\ At(wire', sent, Size(f), 0)
        /\ Len(wire) = n /\ EndsWhole(wire, sent) => Size(f) = 0
    BY <1>1, <1>3, <1>5, AtHeader DEF InStep
  <2>4. ASSUME readErr' = "none" => readRemaining' = Size(f) /\ (Size(f) # 0 => readMaskPos' = 0)
        PROVE  InStep'
    <3>1. ASSUME readErr' = "none"
          PROVE  At(wire', sent, readRemaining', readMaskPos')
      BY <2>3, <2>4, <3>1 DEF At
    <3>2. ASSUME readErr' = "none", wire' = <<>>, net = "up"
          PROVE  readRemaining' = 0
      <4>1. Len(wire) = n
        <5>1. Len(wire') = 0
          BY <3>2
        <5> QED
          BY <1>3, <1>5, <2>2, <5>1
      <4> QED
        BY <1>1, <2>3, <2>4, <3>2, <4>1 DEF InStep
    <3> QED
      BY <1>1, <1>2, <2>2, <3>1, <3>2 DEF InStep
  <2>5. CASE EndWith("protocol") /\ \E ok \in BOOLEAN : Write("close", ok)
    <3>1. /\ readErr' = "protocol"
          /\ UNCHANGED <<readRemaining, readFinal, readLength, readMaskPos, pc, reader, got>>
      BY <2>5 DEF EndWith, frameVars
    <3>2. writeErr' \in {"none", "closeSent", "failed"}
      BY <1>1, <2>5, WriteType DEF Typed
    <3>3. Typed'
      BY <1>1, <1>2, <2>2, <3>1, <3>2 DEF Typed, Errors
    <3>4. Had'
      BY <1>1, <1>2, <3>1 DEF Had, Counted, NoneTooLong, Plain, Moderate
    <3> QED
      BY <2>4, <3>1, <3>3, <3>4 DEF Inv
  <2>6. CASE f.op \notin {"data", "cont"} /\ ControlFrame(f)
    <3>1. /\ readRemaining' = 0 /\ UNCHANGED <<readFinal, readLength, readMaskPos, pc, reader, got>>
          /\ readErr' \in {"none", "write", "closed"}
      BY <1>2, <2>1, <2>6 DEF ControlFrame, HandlePing
    <3>2. writeErr' \in {"none", "closeSent", "failed"}
      <4>1. \/ UNCHANGED writeErr
            \/ \E op, ok \in {"pong", "close", TRUE, FALSE} : ok \in BOOLEAN /\ Write(op, ok)
        BY <2>1, <2>6 DEF ControlFrame, HandlePing, HandleClose
      <4> QED
        BY <1>1, <4>1, WriteType DEF Typed
    <3>3. Size(f) = 0
      BY <2>6 DEF Size
    <3>4. Typed'
      BY <1>1, <1>2, <2>2, <3>1, <3>2 DEF Typed, Errors
    <3>5. Had'
      BY <1>1, <1>2, <1>3, <3>1 DEF Had, Counted, NoneTooLong, Plain, Moderate
    <3> QED
      BY <2>4, <3>1, <3>3, <3>4, <3>5 DEF Inv
  <2>7. CASE f.op \in {"data", "cont"} /\ ~OutOfPlace(f) /\ DataFrame(f)
    <3>1. /\ readFinal' \in BOOLEAN /\ readRemaining' = Size(f) /\ readMaskPos' = 0
          /\ readLength' = Longer(f) /\ readLength' \in (-Half)..(Half - 1)
      BY <1>1, <2>1, <2>7, LongerIs DEF DataFrame
    <3>9. readLength' \in Int /\ (Plain' <=> Plain) /\ Limit \in Nat
      BY <1>2, <3>1, ReaderAssumption DEF ReaderAssumption, Plain, Moderate
    <3>10. Plain => /\ readLength >= 0 /\ readLength <= Limit /\ NoneTooLong
                    /\ readLength' = readLength + Size(f)
      <4>1. Plain => readLength >= 0 /\ readLength <= Limit /\ NoneTooLong
        BY <1>1, <1>2 DEF Had, Counted
      <4>2. Plain => f.len \in Nat /\ Longer(f) = readLength + f.len
        BY <1>1, <1>3, <2>1, <3>9, <4>1, LongerIs
      <4>3. f.len \in Nat => Size(f) = f.len
        BY <2>7 DEF Size
      <4> QED
        BY <3>1, <4>1, <4>2, <4>3
    <3>2. readMaskPos' \in 0..(KeyLength - 1)
      BY <3>1 DEF KeyLength
    <3>3. InStep'
      BY <2>4, <3>1
    <3>4. Plain /\ reader /\ pc = "read" => Len(got[Len(got)].data) + readRemaining' <= readLength'
      <4>1. Plain /\ reader => Len(got[Len(got)].data) + readRemaining <= readLength
        BY <1>1 DEF Had, Counted
      <4>2. reader => Len(got[Len(got)].data) \in Nat
        <5>1. ASSUME reader
              PROVE  Len(got[Len(got)].data) \in Nat
          <6>1. got \in Seq(Message) /\ got # <<>>
            BY <1>1, <5>1 DEF Typed
          <6>2. Len(got) \in 1..Len(got)
            BY <6>1, EmptySeq
          <6>3. got[Len(got)] \in Message
            BY <6>1, <6>2, ElementOfSeq
          <6> QED
            BY <6>3, LenProperties DEF Message
        <5> QED
          BY <5>1
      <4> QED
        BY <1>2, <1>3, <2>1, <3>1, <3>10, <4>1, <4>2
    <3>5. pc = "next" => ~reader
      BY <1>1 DEF Typed
    <3>6. CASE Limit > 0 /\ readLength' > Limit
      <4>1. readErr' = "limit" /\ UNCHANGED <<pc, reader, got>> /\ \E ok \in BOOLEAN : Write("close", ok)
        BY <2>7, <3>6 DEF DataFrame
      <4>2. writeErr' \in {"none", "closeSent", "failed"}
        BY <1>1, <4>1, WriteType DEF Typed
      <4>3. Typed'
        BY <1>1, <1>2, <2>1, <2>2, <3>1, <3>2, <4>1, <4>2 DEF Typed, Errors
      <4>4. Had'
        <5>1. Plain' => readLength' >= 0 /\ NoneTooLong'
          BY <1>3, <2>1, <3>9, <3>10, <4>1 DEF NoneTooLong
        <5> QED
          BY <1>1, <1>2, <3>4, <3>5, <3>9, <4>1, <5>1 DEF Had, Counted
      <4> QED
        BY <3>3, <4>3, <4>4 DEF Inv
    <3>7. CASE ~(Limit > 0 /\ readLength' > Limit) /\ f.op = "cont"
      <4>1. UNCHANGED <<readErr, writeErr, pc, reader, got>>
        BY <2>7, <3>7 DEF DataFrame
      <4>2. Limit > 0 => readLength' <= Limit
        BY <3>7, <3>9
      <4>3. Typed'
        BY <1>1, <1>2, <2>1, <2>2, <3>1, <3>2, <4>1 DEF Typed
      <4>4. Had'
        <5>1. Plain' => readLength' >= 0 /\ readLength' <= Limit /\ NoneTooLong'
          BY <1>3, <2>1, <3>9, <3>10, <4>1, <4>2 DEF NoneTooLong, Plain
        <5> QED
          BY <1>1, <1>2, <3>4, <3>5, <3>9, <4>1, <5>1 DEF Had, Counted
      <4> QED
        BY <3>3, <4>3, <4>4 DEF Inv
    <3>8. CASE ~(Limit > 0 /\ readLength' > Limit) /\ f.op = "data"
      <4> DEFINE m == [data |-> <<>>, end |-> "open"]
      <4>1. UNCHANGED <<readErr, writeErr>> /\ pc' = "idle" /\ reader' = TRUE /\ got' = Append(got, m)
        BY <2>7, <3>8 DEF DataFrame
      <4>2. m \in Message /\ m.data = <<>> /\ m.end = "open"
        BY EmptySeq DEF Message
      <4>3. got \in Seq(Message)
        BY <1>1 DEF Typed
      <4> HIDE DEF m
      <4>4. /\ got' \in Seq(Message) /\ got' # <<>> /\ Len(got') = Len(got) + 1
            /\ \A j \in 1..Len(got) : got'[j] = got[j]
            /\ got'[Len(got')] = m
        BY <4>1, <4>2, <4>3, AppendProperties
      <4>5. Limit > 0 => readLength' <= Limit
        BY <3>8, <3>9
      <4>6. Typed'
        BY <1>1, <1>2, <2>1, <2>2, <3>1, <3>2, <4>1, <4>2, <4>4 DEF Typed
      <4>7. Len(m.data) = 0 /\ DOMAIN got = 1..Len(got) /\ DOMAIN got' = 1..Len(got')
            /\ Len(got) \in Nat
        BY <4>2, <4>3, <4>4, LenProperties
      <4>8. \A j \in 1..Len(got') : j \in 1..Len(got) \/ got'[j] = m
        BY <4>4, <4>7
      <4>9. Clean(got', sent')
        BY <1>1, <1>2, <4>4, <4>7, <4>8 DEF Had, Clean
      <4>10. Plain => NoneTooLong'
        <5>1. Plain => \A j \in 1..Len(got) : Len(got[j].data) <= Limit
          BY <3>10, <4>7 DEF NoneTooLong, Plain
        <5>3. Plain => \A j \in 1..Len(got') : Len(got'[j].data) <= Limit
          BY <3>9, <4>4, <4>7, <4>8, <5>1
        <5> QED
          BY <4>7, <5>3 DEF NoneTooLong
      <4>11. Plain => readLength' >= 0 /\ Len(got'[Len(got')].data) + readRemaining' <= readLength'
        BY <1>3, <2>1, <3>1, <3>10, <4>4, <4>7
      <4>12. Plain => readLength' <= Limit
        BY <4>5 DEF Plain
      <4> QED
        BY <3>3, <3>9, <4>6, <4>9, <4>10, <4>11, <4>12 DEF Inv, Had, Counted
    <3> QED
      BY <2>7, <3>6, <3>7, <3>8
  <2> QED
    BY <1>5, <2>5, <2>6, <2>7
<1> QED
  BY <1>4, <1>5, Advances

-----------------------------------------------------------------------------
LEMMA InvStep == Inv /\ [Next]_vars => Inv'
<1> SUFFICES ASSUME Inv, [Next]_vars
             PROVE  Inv'
  OBVIOUS
<1>1. CASE UNCHANGED vars
  BY <1>1 DEF vars, frameVars, Inv, Typed, InStep, Had, Counted, NoneTooLong, Plain, Moderate
<1>2. CASE Next
  BY <1>2, PeerStep, QuietSteps, UpgradeStep, NextReaderStep, AdvanceStep, ReadBytesStep,
     ReadEndsStep DEF Next, Within
<1> QED
  BY <1>1, <1>2

LEMMA Invariance == Spec => []Inv
BY InvInit, InvStep, PTL DEF Spec

\* The state of a connection stays in its type, whatever the peer sends: what is
\* on the wire are bytes of its frames, and an application that ignores errors is
\* stopped in time.
THEOREM ReaderTypeCorrectness == Spec => []TypeOK
<1>1. Inv => TypeOK
  <2> SUFFICES ASSUME Inv
               PROVE  TypeOK
    OBVIOUS
  <2>1. Typed /\ sent \in Seq(Frame) /\ wire \in Seq(Byte)
    BY SentAreFrames DEF Inv, Typed
  <2> DEFINE T == UNION {Range(Bytes(sent[k], k)) : k \in DOMAIN sent}
  <2>2. ASSUME NEW i \in 1..Len(wire)
        PROVE  wire[i] \in T
    <3> DEFINE k == wire[i].frame
               d == wire[i].byte
               b == Bytes(sent[k], k)
    <3>1. k \in 1..Len(sent) /\ d \in 0..Size(sent[k]) /\ wire[i] = ByteOf(k, d)
      BY DEF Inv, InStep, Framed, IsByte
    <3>2. k \in DOMAIN sent /\ sent[k] \in Frame /\ k \in Nat
      BY <2>1, <3>1, LenProperties, ElementOfSeq
    <3>3. /\ b \in Seq(Byte) /\ Len(b) = Size(sent[k]) + 1 /\ Size(sent[k]) \in Nat
          /\ \A j \in 1..(Size(sent[k]) + 1) : b[j] = ByteOf(k, j - 1)
      BY <3>2, BytesAre, SizeType
    <3>4. d + 1 \in 1..(Size(sent[k]) + 1) /\ (d + 1) - 1 = d
      BY <3>1, <3>3
    <3>5. d + 1 \in DOMAIN b /\ b[d + 1] = wire[i]
      BY <3>1, <3>3, <3>4, LenProperties
    <3>6. wire[i] \in Range(b)
      BY <3>5 DEF Range
    <3> QED
      BY <3>2, <3>6
  <2>3. wire \in Seq(T)
    BY <2>1, <2>2, LenProperties, SeqDef
  <2> QED
    BY <2>1, <2>3 DEF Typed, TypeOK, Last
<1> QED
  BY <1>1, Invariance, PTL

\* SetReadLimit() holds for every limit and in whatever fragments a message
\* comes, of a peer whose lengths are moderate: no application is given more of
\* a message than the limit.
THEOREM TheLimitHolds == Spec => [](Moderate => NoneTooLong)
<1>1. Inv => (Moderate => NoneTooLong)
  BY DEF Inv, Had, Counted, Plain, NoneTooLong
<1> QED
  BY <1>1, Invariance, PTL

\* advanceFrame() takes for a header only what the peer has sent as one, although
\* messages are abandoned in mid-frame, and read in any pieces.
HeadersAreHeaders ==
  pc \in {"next", "read"} /\ readErr = "none" /\ readRemaining < Len(wire) =>
    wire[readRemaining + 1].byte = 0

THEOREM TheReaderKeepsInStep == Spec => []HeadersAreHeaders
<1>1. Inv => HeadersAreHeaders
  <2> SUFFICES ASSUME Inv, pc \in {"next", "read"}, readErr = "none", readRemaining < Len(wire)
               PROVE  wire[readRemaining + 1].byte = 0
    BY DEF HeadersAreHeaders
  <2>1. /\ sent \in Seq(Frame) /\ wire \in Seq(Byte) /\ readRemaining \in Nat
        /\ readMaskPos \in 0..(KeyLength - 1) /\ Len(wire) \in Nat
    BY SentAreFrames DEF Inv, Typed
  <2>2. Framed(wire, sent) /\ At(wire, sent, readRemaining, readMaskPos)
    BY DEF Inv, InStep
  <2>3. readRemaining + 1 <= Len(wire)
    BY <2>1
  <2> QED
    BY <2>1, <2>2, <2>3, HeaderNext
<1> QED
  BY <1>1, Invariance, PTL

\* Every byte an application is given is one of the payload of a frame of the
\* peer, unmasked with the byte of the key that belongs to it: no header, no rest
\* of an abandoned message, no key out of step.
OnlyPayload ==
  \A j \in 1..Len(got) : \A i \in 1..Len(got[j].data) :
    LET b == got[j].data[i]
    IN  /\ b.frame \in 1..Len(sent)
        /\ b.byte \in 1..Size(sent[b.frame])
        /\ b.key = (b.byte - 1) % KeyLength

THEOREM OnlyPayloadGetsThrough == Spec => []OnlyPayload
<1>1. Inv => OnlyPayload
  <2> SUFFICES ASSUME Inv, NEW j \in 1..Len(got), NEW i \in 1..Len(got[j].data)
               PROVE  LET b == got[j].data[i]
                      IN  /\ b.frame \in 1..Len(sent)
                          /\ b.byte \in 1..Size(sent[b.frame])
                          /\ b.key = (b.byte - 1) % KeyLength
    BY DEF OnlyPayload
  <2> DEFINE b == got[j].data[i]
  <2>1. IsPayload(b, sent)
    BY DEF Inv, Had, Clean
  <2>2. b.frame \in 1..Len(sent) /\ b.byte \in 1..Size(sent[b.frame]) /\ b = ByteOf(b.frame, b.byte)
    BY <2>1 DEF IsPayload
  <2>3. sent[b.frame] \in Frame
    BY <2>2, SentAreFrames, ElementOfSeq DEF Inv
  <2>4. b.byte # 0
    BY <2>2, <2>3, SizeType
  <2>5. b.key = Key(b.byte)
    BY <2>2 DEF ByteOf
  <2> HIDE DEF b
  <2>6. b.key = (b.byte - 1) % KeyLength
    BY <2>4, <2>5 DEF Key
  <2> QED
    BY <2>2, <2>6 DEF b
<1> QED
  BY <1>1, Invariance, PTL

-----------------------------------------------------------------------------
(***************************************************************************)
(* The messages of the peer, put together frame by frame.                  *)
(***************************************************************************)

\* Induction over the numbers, as a statement about sets.
LEMMA NatSet ==
  ASSUME NEW S \in SUBSET Nat, 0 \in S, \A n \in S : n + 1 \in S
  PROVE  S = Nat
<1>1. SUFFICES ASSUME Nat \ S # {} PROVE FALSE
  OBVIOUS
<1>2. PICK x \in Nat \ S : \A y \in Nat \ S : <<y, x>> \notin OpToRel(<, Nat)
  BY <1>1, NatLessThanWellFounded, WFMin
<1>3. x - 1 \in Nat /\ x - 1 < x
  <2>1. x \in Nat /\ x # 0
    BY <1>2
  <2> QED
    BY <2>1
<1>4. x - 1 \in S
  BY <1>2, <1>3 DEF OpToRel
<1>5. (x - 1) + 1 = x
  <2>1. x \in Nat
    BY <1>2
  <2> QED
    BY <2>1
<1> QED
  BY <1>2, <1>4, <1>5

Told == [data: Seq(Byte), whole: BOOLEAN]
Account == [on: BOOLEAN, list: Seq(Told)]
NothingYet == [on |-> TRUE, list |-> <<>>]

\* The last message of a list has not been ended.
Unended(l) == Len(l) > 0 /\ ~l[Len(l)].whole
Begins(a, b) == Len(a) <= Len(b) /\ \A i \in 1..Len(a) : a[i] = b[i]

\* What a list of messages becomes when more frames come in.
Grows(a, b) == /\ Len(a) <= Len(b)
               /\ \A j \in 1..Len(a) : /\ Begins(a[j].data, b[j].data)
                                       /\ a[j].whole => b[j] = a[j]

LEMMA PayloadIs ==
  ASSUME NEW f \in Frame, NEW k \in Nat
  PROVE  /\ Payload(f, k) \in Seq(Byte) /\ Len(Payload(f, k)) = Size(f)
         /\ \A i \in 1..Size(f) : Payload(f, k)[i] = ByteOf(k, i)
<1>1. Size(f) \in Nat
  BY SizeType
<1>2. Payload(f, k) = [i \in 1..Size(f) |-> ByteOf(k, i)]
  BY <1>1 DEF Payload, Size, ByteOf, Key
<1>3. \A i \in 1..Size(f) : ByteOf(k, i) \in Byte
  BY <1>1, ByteOfType
<1> QED
  BY <1>1, <1>2, <1>3

\* What is put to the messages so far: nothing any more, a new one, more of the
\* last one, or nothing.
Ignores(m, n) == n.list = m.list /\ ~n.on
Starts(m, n, f, k) ==
  /\ n.on /\ Len(n.list) = Len(m.list) + 1
  /\ \A j \in 1..Len(m.list) : n.list[j] = m.list[j]
  /\ n.list[Len(m.list) + 1] = [data |-> Payload(f, k), whole |-> f.fin]
Continues(m, n, f, k) ==
  LET l == Len(m.list)
  IN  /\ n.on /\ Len(n.list) = l
      /\ \A j \in 1..l : j # l => n.list[j] = m.list[j]
      /\ n.list[l] = [data |-> m.list[l].data \o Payload(f, k), whole |-> f.fin]

LEMMA PutIs ==
  ASSUME NEW m \in Account, NEW f \in Frame, NEW k \in Nat
  PROVE  LET n == Put(m, f, k)
             ill == \/ ~m.on \/ f.wrong
                    \/ f.op = "data" /\ Unended(m.list)
                    \/ f.op = "cont" /\ ~Unended(m.list)
         IN  /\ n \in Account
             /\ ill => Ignores(m, n)
             /\ ~ill /\ f.op = "data" => Starts(m, n, f, k)
             /\ ~ill /\ f.op = "cont" => Continues(m, n, f, k)
             /\ ~ill /\ f.op \notin {"data", "cont"} => n = m
<1> DEFINE l == Len(m.list)
           n == Put(m, f, k)
           ill == \/ ~m.on \/ f.wrong
                  \/ f.op = "data" /\ Unended(m.list)
                  \/ f.op = "cont" /\ ~Unended(m.list)
<1>1. m.on \in BOOLEAN /\ m.list \in Seq(Told) /\ l \in Nat /\ f.fin \in BOOLEAN
  BY DEF Account, Frame
<1>2. Unended(m.list) = (l > 0 /\ ~m.list[l].whole)
  BY DEF Unended
<1>3. Payload(f, k) \in Seq(Byte)
  BY PayloadIs
<1>4. CASE ill
  <2>1. n = [m EXCEPT !.on = FALSE]
    BY <1>2, <1>4 DEF Put
  <2> QED
    BY <1>1, <1>4, <2>1 DEF Account, Ignores
<1>5. CASE ~ill /\ f.op = "data"
  <2> DEFINE e == [data |-> Payload(f, k), whole |-> f.fin]
  <2>1. n = [m EXCEPT !.list = Append(m.list, e)]
    BY <1>2, <1>5 DEF Put
  <2>2. e \in Told
    BY <1>1, <1>3 DEF Told
  <2> HIDE DEF e
  <2>3. /\ Append(m.list, e) \in Seq(Told) /\ Len(Append(m.list, e)) = l + 1
        /\ \A j \in 1..l : Append(m.list, e)[j] = m.list[j]
        /\ Append(m.list, e)[l + 1] = e
    BY <1>1, <2>2, AppendProperties
  <2>4. n.list = Append(m.list, e) /\ n.on = m.on /\ n \in Account
    BY <1>1, <2>1, <2>3 DEF Account
  <2> QED
    BY <1>5, <2>3, <2>4 DEF Starts, e
<1>6. CASE ~ill /\ f.op = "cont"
  <2> DEFINE e == [data |-> m.list[l].data \o Payload(f, k), whole |-> f.fin]
  <2>1. n = [m EXCEPT !.list = [m.list EXCEPT ![l] = e]]
    BY <1>2, <1>6 DEF Put
  <2>2. l \in 1..l
    <3>1. l > 0
      BY <1>2, <1>6
    <3> HIDE DEF l
    <3> QED
      BY <1>1, <3>1
  <2>3. m.list[l] \in Told
    BY <1>1, <2>2, ElementOfSeq
  <2>4. e \in Told
    <3>1. m.list[l].data \in Seq(Byte)
      BY <2>3 DEF Told
    <3>2. m.list[l].data \o Payload(f, k) \in Seq(Byte)
      BY <1>3, <3>1, ConcatProperties
    <3> QED
      BY <1>1, <3>2 DEF Told
  <2> HIDE DEF e, l
  <2>5. /\ [m.list EXCEPT ![l] = e] \in Seq(Told) /\ Len([m.list EXCEPT ![l] = e]) = l
        /\ \A j \in 1..l : [m.list EXCEPT ![l] = e][j] = IF j = l THEN e ELSE m.list[j]
    BY <1>1, <2>2, <2>4, ExceptSeq DEF l
  <2>6. n.list = [m.list EXCEPT ![l] = e] /\ n.on = m.on /\ n \in Account
    BY <1>1, <2>1, <2>5 DEF Account
  <2> QED
    BY <1>6, <2>2, <2>5, <2>6 DEF Continues, e, l
<1>7. CASE ~ill /\ f.op \notin {"data", "cont"}
  <2>1. n = m
    BY <1>2, <1>7 DEF Put
  <2> QED
    BY <1>7, <2>1
<1> QED
  BY <1>4, <1>5, <1>6, <1>7 DEF l

LEMMA PutGrows ==
  ASSUME NEW m \in Account, NEW f \in Frame, NEW k \in Nat
  PROVE  Grows(m.list, Put(m, f, k).list)
<1> DEFINE n == Put(m, f, k)
           l == Len(m.list)
<1>1. /\ m.list \in Seq(Told) /\ l \in Nat /\ n.list \in Seq(Told)
      /\ \A j \in 1..l : m.list[j] \in Told
  BY PutIs, ElementOfSeq DEF Account
<1>2. \A j \in 1..l : m.list[j].data \in Seq(Byte)
  BY <1>1 DEF Told
<1>3. \A j \in 1..l : Begins(m.list[j].data, m.list[j].data)
  BY <1>2 DEF Begins
<1>4. CASE n.list = m.list
  BY <1>1, <1>3, <1>4 DEF Grows
<1>5. CASE Starts(m, n, f, k)
  BY <1>1, <1>3, <1>5 DEF Grows, Starts
<1>6. CASE Continues(m, n, f, k) /\ Unended(m.list)
  <2> DEFINE old == m.list[l].data
             more == Payload(f, k)
  <2>1. l \in 1..l /\ ~m.list[l].whole
    BY <1>1, <1>6 DEF Unended
  <2>2. n.list[l].data = old \o more
    BY <1>6 DEF Continues
  <2>3. old \in Seq(Byte) /\ more \in Seq(Byte)
    BY <1>2, <2>1, PayloadIs
  <2> HIDE DEF old, more
  <2>4. Begins(old, old \o more)
    BY <2>3, ConcatProperties DEF Begins
  <2> HIDE DEF n, l
  <2>5. /\ Len(n.list) = l
        /\ \A j \in 1..l : j # l => n.list[j] = m.list[j]
    BY <1>6 DEF Continues, l
  <2>6. ASSUME NEW j \in 1..l
        PROVE  /\ Begins(m.list[j].data, n.list[j].data)
               /\ m.list[j].whole => n.list[j] = m.list[j]
    <3>1. CASE j = l
      BY <2>1, <2>2, <2>4, <3>1 DEF old
    <3>2. CASE j # l
      BY <1>3, <2>5, <3>2
    <3> QED
      BY <3>1, <3>2
  <2>7. Len(m.list) <= Len(n.list)
    <3>1. Len(m.list) = l /\ l \in Nat
      BY <1>1 DEF l
    <3> QED
      BY <2>5, <3>1
  <2> QED
    BY <2>6, <2>7 DEF Grows, l, n
<1> QED
  <2>1. \/ n.list = m.list \/ Starts(m, n, f, k)
        \/ Continues(m, n, f, k) /\ Unended(m.list)
    BY PutIs DEF Ignores
  <2> QED
    BY <1>4, <1>5, <1>6, <2>1

LEMMA BeginsTransitive ==
  ASSUME NEW x \in Seq(Byte), NEW y \in Seq(Byte), NEW z \in Seq(Byte), Begins(x, y), Begins(y, z)
  PROVE  Begins(x, z)
<1>1. Len(x) \in Nat /\ Len(y) \in Nat /\ Len(z) \in Nat
  OBVIOUS
<1>2. Len(x) <= Len(y) /\ Len(y) <= Len(z)
  BY DEF Begins
<1>3. \A i \in 1..Len(x) : i \in 1..Len(y)
  BY <1>1, <1>2
<1> QED
  BY <1>1, <1>2, <1>3 DEF Begins

LEMMA GrowsTransitive ==
  ASSUME NEW a \in Seq(Told), NEW b \in Seq(Told), NEW c \in Seq(Told), Grows(a, b), Grows(b, c)
  PROVE  Grows(a, c)
<1>1. Len(a) \in Nat /\ Len(b) \in Nat /\ Len(c) \in Nat /\ Len(a) <= Len(b) /\ Len(b) <= Len(c)
  BY DEF Grows
<1>2. ASSUME NEW j \in 1..Len(a)
      PROVE  /\ Begins(a[j].data, c[j].data)
             /\ a[j].whole => c[j] = a[j]
  <2>1. j \in 1..Len(b) /\ j \in 1..Len(c)
    BY <1>1
  <2>2. a[j].data \in Seq(Byte) /\ b[j].data \in Seq(Byte) /\ c[j].data \in Seq(Byte)
    <3>1. a[j] \in Told /\ b[j] \in Told /\ c[j] \in Told
      BY <2>1, ElementOfSeq
    <3> QED
      BY <3>1 DEF Told
  <2>3. Begins(a[j].data, b[j].data) /\ Begins(b[j].data, c[j].data)
    BY <2>1 DEF Grows
  <2>5. Begins(a[j].data, c[j].data)
    BY <2>2, <2>3, BeginsTransitive
  <2>6. a[j].whole => b[j] = a[j] /\ c[j] = b[j]
    BY <2>1 DEF Grows
  <2> QED
    BY <2>5, <2>6
<1> QED
  BY <1>1, <1>2 DEF Grows

-----------------------------------------------------------------------------
(***************************************************************************)
(* The messages after each of the frames s.                                *)
(***************************************************************************)

Puts(g, s, n) == g = [k \in 0..n |-> IF k = 0 THEN NothingYet ELSE Put(g[k - 1], s[k], k)]
Sofar(s) == CHOOSE g : Puts(g, s, Len(s))

LEMMA MessagesAre == ASSUME NEW s PROVE Messages(s) = Sofar(s)[Len(s)].list
BY DEF Messages, Sofar, Puts, NothingYet

LEMMA SofarExists ==
  ASSUME NEW s, Len(s) \in Nat
  PROVE  Puts(Sofar(s), s, Len(s))
<1> DEFINE S == {n \in Nat : \E g : Puts(g, s, n)}
<1>1. 0 \in S
  <2> DEFINE g == [k \in 0..0 |-> NothingYet]
  <2>1. \A k \in 0..0 : k = 0
    OBVIOUS
  <2>2. Puts(g, s, 0)
    BY <2>1 DEF Puts
  <2> QED
    BY <2>2
<1>2. ASSUME NEW n \in S PROVE n + 1 \in S
  <2>1. PICK g : Puts(g, s, n)
    OBVIOUS
  <2> DEFINE h == [k \in 0..(n + 1) |-> IF k = n + 1 THEN Put(g[k - 1], s[k], k) ELSE g[k]]
  <2>2. n \in Nat
    OBVIOUS
  <2>3. \A k \in 0..(n + 1) : k # 0 => h[k - 1] = g[k - 1]
    BY <2>2
  <2>4. \A k \in 0..n : g[k] = IF k = 0 THEN NothingYet ELSE Put(g[k - 1], s[k], k)
    BY <2>1 DEF Puts
  <2>5. \A k \in 0..(n + 1) : h[k] = IF k = 0 THEN NothingYet ELSE Put(h[k - 1], s[k], k)
    <3> SUFFICES ASSUME NEW k \in 0..(n + 1)
                 PROVE  h[k] = IF k = 0 THEN NothingYet ELSE Put(h[k - 1], s[k], k)
      OBVIOUS
    <3>1. CASE k = n + 1
      <4>1. k # 0 /\ h[k] = Put(g[k - 1], s[k], k)
        BY <2>2, <3>1
      <4> QED
        BY <2>3, <4>1
    <3>2. CASE k # n + 1
      <4>1. k \in 0..n /\ h[k] = g[k]
        BY <2>2, <3>2
      <4> HIDE DEF h
      <4> QED
        BY <2>3, <2>4, <4>1
    <3> QED
      BY <3>1, <3>2
  <2>6. Puts(h, s, n + 1)
    BY <2>5 DEF Puts
  <2> QED
    BY <2>2, <2>6
<1>3. S = Nat
  <2> HIDE DEF S
  <2>1. S \in SUBSET Nat
    BY DEF S
  <2> QED
    BY <1>1, <1>2, <2>1, NatSet
<1>4. \E g : Puts(g, s, Len(s))
  BY <1>3
<1> QED
  BY <1>4 DEF Sofar

LEMMA SofarIs ==
  ASSUME NEW s \in Seq(Frame)
  PROVE  /\ Sofar(s)[0] = NothingYet
         /\ \A k \in 1..Len(s) : Sofar(s)[k] = Put(Sofar(s)[k - 1], s[k], k)
         /\ \A k \in 0..Len(s) : Sofar(s)[k] \in Account /\ Sofar(s)[k].list \in Seq(Told)
<1> DEFINE g == Sofar(s)
<1>1. Len(s) \in Nat /\ \A k \in 1..Len(s) : s[k] \in Frame
  BY ElementOfSeq
<1>2. \A k \in 0..Len(s) : g[k] = IF k = 0 THEN NothingYet ELSE Put(g[k - 1], s[k], k)
  <2>1. Puts(g, s, Len(s))
    BY <1>1, SofarExists
  <2> HIDE DEF g
  <2> QED
    BY <2>1 DEF Puts
<1> HIDE DEF g
<1>3. g[0] = NothingYet /\ \A k \in 1..Len(s) : g[k] = Put(g[k - 1], s[k], k)
  <2>1. 0 \in 0..Len(s) /\ \A k \in 1..Len(s) : k \in 0..Len(s) /\ k # 0
    BY <1>1
  <2> QED
    BY <1>2, <2>1, Zenon
<1> DEFINE S == {n \in Nat : n <= Len(s) => g[n] \in Account}
<1>4. S = Nat
  <2>1. 0 \in S
    <3>1. <<>> \in Seq(Told)
      OBVIOUS
    <3>2. NothingYet \in Account
      BY <3>1 DEF NothingYet, Account
    <3> QED
      BY <1>3, <3>2
  <2>2. ASSUME NEW n \in S PROVE n + 1 \in S
    <3>1. n \in Nat /\ (n + 1) - 1 = n
      OBVIOUS
    <3>2. SUFFICES ASSUME n + 1 <= Len(s) PROVE g[n + 1] \in Account
      BY <3>1
    <3>3. n + 1 \in 1..Len(s) /\ n <= Len(s) /\ n + 1 \in Nat
      BY <1>1, <3>1, <3>2
    <3>4. g[n] \in Account /\ s[n + 1] \in Frame
      BY <1>1, <3>3
    <3>5. g[n + 1] = Put(g[n], s[n + 1], n + 1)
      BY <1>3, <3>1, <3>3
    <3> QED
      BY <3>3, <3>4, <3>5, PutIs
  <2>3. S \in SUBSET Nat
    OBVIOUS
  <2> HIDE DEF S
  <2> QED
    BY <2>1, <2>2, <2>3, NatSet
<1>5. \A k \in 0..Len(s) : g[k] \in Account
  BY <1>1, <1>4
<1> QED
  BY <1>3, <1>5 DEF g, Account

\* Another frame changes nothing of what there was before it.
LEMMA SofarMore ==
  ASSUME NEW s \in Seq(Frame), NEW f \in Frame
  PROVE  \A k \in 0..Len(s) : Sofar(Append(s, f))[k] = Sofar(s)[k]
<1> DEFINE t == Append(s, f)
<1>1. /\ t \in Seq(Frame) /\ Len(t) = Len(s) + 1 /\ Len(s) \in Nat
      /\ \A k \in 1..Len(s) : t[k] = s[k]
  BY AppendProperties
<1> HIDE DEF t
<1>2. /\ Sofar(s)[0] = NothingYet /\ Sofar(t)[0] = NothingYet
      /\ \A k \in 1..Len(s) : Sofar(s)[k] = Put(Sofar(s)[k - 1], s[k], k)
      /\ \A k \in 1..Len(t) : Sofar(t)[k] = Put(Sofar(t)[k - 1], t[k], k)
  BY <1>1, SofarIs
<1> DEFINE S == {n \in Nat : n <= Len(s) => Sofar(t)[n] = Sofar(s)[n]}
<1>3. S = Nat
  <2>1. 0 \in S
    BY <1>2
  <2>2. ASSUME NEW n \in S PROVE n + 1 \in S
    <3>1. n \in Nat /\ (n + 1) - 1 = n
      OBVIOUS
    <3>2. SUFFICES ASSUME n + 1 <= Len(s) PROVE Sofar(t)[n + 1] = Sofar(s)[n + 1]
      BY <3>1
    <3>3. n + 1 \in 1..Len(s) /\ n + 1 \in 1..Len(t) /\ n <= Len(s)
      BY <1>1, <3>1, <3>2
    <3>4. Sofar(t)[n] = Sofar(s)[n] /\ t[n + 1] = s[n + 1]
      BY <1>1, <3>3
    <3>5. /\ Sofar(s)[n + 1] = Put(Sofar(s)[n], s[n + 1], n + 1)
          /\ Sofar(t)[n + 1] = Put(Sofar(t)[n], t[n + 1], n + 1)
      BY <1>2, <3>1, <3>3
    <3> QED
      BY <3>4, <3>5
  <2>3. S \in SUBSET Nat
    OBVIOUS
  <2> HIDE DEF S
  <2> QED
    BY <2>1, <2>2, <2>3, NatSet
<1> QED
  BY <1>1, <1>3 DEF t

\* The messages only grow.
LEMMA SofarGrows ==
  ASSUME NEW s \in Seq(Frame), NEW h \in 0..Len(s)
  PROVE  Grows(Sofar(s)[h].list, Messages(s))
<1>1. Len(s) \in Nat /\ h \in Nat /\ h <= Len(s) /\ \A k \in 1..Len(s) : s[k] \in Frame
  BY ElementOfSeq
<1>2. /\ \A k \in 1..Len(s) : Sofar(s)[k] = Put(Sofar(s)[k - 1], s[k], k)
      /\ \A k \in 0..Len(s) : Sofar(s)[k] \in Account /\ Sofar(s)[k].list \in Seq(Told)
  BY SofarIs
<1> DEFINE S == {n \in Nat : h + n <= Len(s) => Grows(Sofar(s)[h].list, Sofar(s)[h + n].list)}
<1>3. S = Nat
  <2>1. 0 \in S
    <3>1. h + 0 = h
      BY <1>1
    <3>2. Grows(Sofar(s)[h].list, Sofar(s)[h].list)
      <4> DEFINE l == Sofar(s)[h].list
      <4>1. l \in Seq(Told)
        BY <1>2
      <4>2. \A j \in 1..Len(l) : l[j].data \in Seq(Byte)
        <5>1. \A j \in 1..Len(l) : l[j] \in Told
          BY <4>1, ElementOfSeq
        <5> QED
          BY <5>1 DEF Told
      <4> HIDE DEF l
      <4>3. Grows(l, l)
        BY <4>1, <4>2 DEF Grows, Begins
      <4> QED
        BY <4>3 DEF l
    <3> QED
      BY <3>1, <3>2
  <2>2. ASSUME NEW n \in S PROVE n + 1 \in S
    <3>1. n \in Nat /\ (h + (n + 1)) - 1 = h + n
      BY <1>1
    <3>2. SUFFICES ASSUME h + (n + 1) <= Len(s)
                   PROVE  Grows(Sofar(s)[h].list, Sofar(s)[h + (n + 1)].list)
      BY <3>1
    <3>3. h + (n + 1) \in 1..Len(s) /\ h + n \in 0..Len(s) /\ h + n <= Len(s) /\ h + (n + 1) \in Nat
      BY <1>1, <3>1, <3>2
    <3>4. Grows(Sofar(s)[h].list, Sofar(s)[h + n].list)
      BY <3>3
    <3>5. Sofar(s)[h + (n + 1)] = Put(Sofar(s)[h + n], s[h + (n + 1)], h + (n + 1))
      BY <1>2, <3>1, <3>3
    <3>6. Grows(Sofar(s)[h + n].list, Sofar(s)[h + (n + 1)].list)
      BY <1>1, <1>2, <3>3, <3>5, PutGrows
    <3>7. h + (n + 1) \in 0..Len(s)
      BY <3>3
    <3> QED
      BY <1>2, <3>3, <3>4, <3>6, <3>7, GrowsTransitive
  <2>3. S \in SUBSET Nat
    OBVIOUS
  <2> HIDE DEF S
  <2> QED
    BY <2>1, <2>2, <2>3, NatSet
<1>4. Len(s) - h \in Nat /\ h + (Len(s) - h) = Len(s)
  BY <1>1
<1>5. Grows(Sofar(s)[h].list, Sofar(s)[Len(s)].list)
  <2>1. Len(s) - h \in S
    BY <1>3, <1>4
  <2>2. h + (Len(s) - h) <= Len(s)
    BY <1>1, <1>4
  <2> QED
    BY <1>4, <2>1, <2>2
<1> QED
  BY <1>5, MessagesAre

-----------------------------------------------------------------------------
(***************************************************************************)
(* What the application has had, g, beside messages l of the peer.         *)
(***************************************************************************)

Fits(g, l) ==
  /\ Len(g) <= Len(l)
  /\ \A j \in 1..Len(g) :
       /\ Begins(g[j].data, l[j].data)
       /\ g[j].end = "whole" => l[j].whole /\ Len(g[j].data) = Len(l[j].data)

\* What of the j-th message may count with the next one.
Over(g, j, l) == IF j \in 1..Len(g) /\ g[j].end = "left" THEN Len(l[j].data) ELSE 0
Refused(g, l) == \E j \in 1..Len(l) : Over(g, j - 1, l) + Len(l[j].data) > Limit

LEMMA FitsGrows ==
  ASSUME NEW g \in Seq(Message), NEW a \in Seq(Told), NEW b \in Seq(Told), Fits(g, a), Grows(a, b)
  PROVE  Fits(g, b)
<1>1. Len(g) \in Nat /\ Len(a) \in Nat /\ Len(b) \in Nat /\ Len(g) <= Len(a) /\ Len(a) <= Len(b)
  BY DEF Fits, Grows
<1>2. ASSUME NEW j \in 1..Len(g)
      PROVE  /\ Begins(g[j].data, b[j].data)
             /\ g[j].end = "whole" => b[j].whole /\ Len(g[j].data) = Len(b[j].data)
  <2>1. j \in 1..Len(a) /\ j \in 1..Len(b)
    BY <1>1
  <2>2. g[j] \in Message /\ a[j] \in Told /\ b[j] \in Told
    BY <2>1, ElementOfSeq
  <2>3. g[j].data \in Seq(Byte) /\ a[j].data \in Seq(Byte) /\ b[j].data \in Seq(Byte)
    BY <2>2 DEF Message, Told
  <2>4. /\ Begins(g[j].data, a[j].data) /\ Begins(a[j].data, b[j].data)
        /\ g[j].end = "whole" => a[j].whole /\ Len(g[j].data) = Len(a[j].data)
        /\ a[j].whole => b[j] = a[j]
    BY <2>1 DEF Fits, Grows
  <2>6. Begins(g[j].data, b[j].data)
    BY <2>3, <2>4, BeginsTransitive
  <2> QED
    BY <2>4, <2>6
<1> QED
  BY <1>1, <1>2 DEF Fits

LEMMA OverGrows ==
  ASSUME NEW g \in Seq(Message), NEW a \in Seq(Told), NEW b \in Seq(Told), Grows(a, b),
         NEW j, j \in 1..Len(g) => j \in 1..Len(a)
  PROVE  Over(g, j, a) \in Nat /\ Over(g, j, b) \in Nat /\ Over(g, j, a) <= Over(g, j, b)
<1>1. CASE j \in 1..Len(g)
  <2>1. j \in 1..Len(a) /\ j \in 1..Len(b)
    BY <1>1 DEF Grows
  <2>2. a[j] \in Told /\ b[j] \in Told
    BY <2>1, ElementOfSeq
  <2>3. Len(a[j].data) \in Nat /\ Len(b[j].data) \in Nat
    BY <2>2 DEF Told
  <2>4. Len(a[j].data) <= Len(b[j].data)
    BY <2>1 DEF Grows, Begins
  <2> QED
    BY <2>3, <2>4 DEF Over
<1>2. CASE j \notin 1..Len(g)
  BY <1>2 DEF Over
<1> QED
  BY <1>1, <1>2

LEMMA RefusedGrows ==
  ASSUME NEW g \in Seq(Message), NEW a \in Seq(Told), NEW b \in Seq(Told), Refused(g, a),
         Grows(a, b)
  PROVE  Refused(g, b)
<1>1. PICK j \in 1..Len(a) : Over(g, j - 1, a) + Len(a[j].data) > Limit
  BY DEF Refused
<1>2. Len(a) \in Nat /\ Len(b) \in Nat /\ Len(a) <= Len(b) /\ Len(g) \in Nat /\ Limit \in Nat
  BY ReaderAssumption DEF ReaderAssumption, Grows
<1>3. j \in 1..Len(b) /\ (j - 1 \in 1..Len(g) => j - 1 \in 1..Len(a))
  BY <1>2
<1>4. a[j] \in Told /\ b[j] \in Told
  BY <1>3, ElementOfSeq
<1>5. a[j].data \in Seq(Byte) /\ b[j].data \in Seq(Byte)
  BY <1>4 DEF Told
<1>6. Len(a[j].data) \in Nat /\ Len(b[j].data) \in Nat /\ Len(a[j].data) <= Len(b[j].data)
  BY <1>5 DEF Grows, Begins
<1>7. /\ Over(g, j - 1, a) \in Nat /\ Over(g, j - 1, b) \in Nat
      /\ Over(g, j - 1, a) <= Over(g, j - 1, b)
  BY <1>3, OverGrows
<1>8. Over(g, j - 1, b) + Len(b[j].data) > Limit
  BY <1>1, <1>2, <1>6, <1>7
<1> QED
  BY <1>3, <1>8 DEF Refused

\* What holds beside the messages after some frames holds beside all of them.
LEMMA InTheEnd ==
  ASSUME NEW s \in Seq(Frame), NEW h \in 0..Len(s)
  PROVE  /\ Messages(s) \in Seq(Told)
         /\ \A g \in Seq(Message) : Fits(g, Sofar(s)[h].list) => Fits(g, Messages(s))
         /\ \A g \in Seq(Message) : Refused(g, Sofar(s)[h].list) => Refused(g, Messages(s))
<1>1. Len(s) \in 0..Len(s)
  <2>1. Len(s) \in Nat
    OBVIOUS
  <2> QED
    BY <2>1
<1>2. Messages(s) \in Seq(Told) /\ Sofar(s)[h].list \in Seq(Told)
  BY <1>1, SofarIs, MessagesAre
<1>3. Grows(Sofar(s)[h].list, Messages(s))
  BY SofarGrows
<1> QED
  BY <1>2, <1>3, FitsGrows, RefusedGrows

LEMMA MoreInTheEnd ==
  ASSUME NEW s \in Seq(Frame), NEW f \in Frame
  PROVE  /\ \A g \in Seq(Message) : Fits(g, Messages(s)) => Fits(g, Messages(Append(s, f)))
         /\ \A g \in Seq(Message) : Refused(g, Messages(s)) => Refused(g, Messages(Append(s, f)))
<1> DEFINE t == Append(s, f)
<1>1. t \in Seq(Frame) /\ Len(t) = Len(s) + 1 /\ Len(s) \in Nat
  BY AppendProperties
<1>2. Len(s) \in 0..Len(s) /\ Len(s) \in 0..Len(t)
  BY <1>1
<1>3. Sofar(t)[Len(s)].list = Messages(s)
  BY <1>2, SofarMore, MessagesAre
<1> HIDE DEF t
<1> QED
  BY <1>1, <1>2, <1>3, InTheEnd DEF t

-----------------------------------------------------------------------------
(***************************************************************************)
(* The inductive invariant for them: h frames of the peer have been taken, *)
(* and the rest of the last of them is what is still to be read.           *)
(***************************************************************************)

\* The frame of the first byte w on the wire, less its header.
Placed(h, w, s, x) ==
  /\ w # <<>> => h = IF w[1].byte = 0 THEN w[1].frame - 1 ELSE w[1].frame
  /\ w = <<>> /\ x = "up" => h = Len(s)

Taken(h, s, g, fin) ==
  LET m == Sofar(s)[h]
      n == Len(g)
  IN  /\ m.on /\ Len(m.list) = n /\ Fits(g, m.list)
      /\ fin <=> (n = 0 \/ m.list[n].whole)

\* Of the last message all but r bytes have been had, the last ones of frame h.
Owed(h, s, g, r) ==
  LET n    == Len(g)
      had  == Len(g[n].data)
      all  == Sofar(s)[h].list[n].data
  IN  /\ n > 0 /\ Len(all) = had + r
      /\ \A i \in 1..r : all[had + i] = ByteOf(h, Size(s[h]) - r + i)

OneOpen == \A j \in 1..Len(got) : got[j].end = "open" => reader /\ j = Len(got)

\* What readLength may count.
Reckoned(l) ==
  Plain => /\ reader => readLength <= Over(got, Len(got) - 1, l) + Len(l[Len(got)].data)
           /\ pc = "next" => readLength <= Over(got, Len(got), l)

InOrder ==
  pc # "refused" /\ readErr = "none" =>
    \E h \in 0..Len(sent) :
      /\ Placed(h, wire, sent, net) /\ Taken(h, sent, got, readFinal)
      /\ reader => Owed(h, sent, got, readRemaining)
      /\ Reckoned(Sofar(sent)[h].list)

Agreed ==
  /\ Fits(got, Messages(sent))
  /\ Plain /\ readErr = "limit" => Refused(got, Messages(sent))

MInv == Agreed /\ OneOpen /\ InOrder

LEMMA MInvInit == Init => MInv
<1> SUFFICES ASSUME Init
             PROVE  MInv
  OBVIOUS
<1>1. /\ sent = <<>> /\ wire = <<>> /\ got = <<>> /\ net = "up" /\ readFinal = TRUE
      /\ reader = FALSE /\ readErr = "none" /\ readLength = 0
  BY DEF Init
<1>2. /\ sent \in Seq(Frame) /\ Len(sent) = 0 /\ Len(got) = 0 /\ 0 \in 0..Len(sent)
      /\ got \in Seq(Message)
  BY <1>1, EmptySeq
<1>3. Sofar(sent)[0] = NothingYet
  BY <1>2, SofarIs
<1>4. Len(NothingYet.list) = 0 /\ NothingYet.on
  BY DEF NothingYet
<1>5. Fits(got, Sofar(sent)[0].list)
  BY <1>2, <1>3, <1>4 DEF Fits
<1>6. Agreed
  BY <1>1, <1>2, <1>5, InTheEnd DEF Agreed
<1>7. OneOpen
  BY <1>2 DEF OneOpen
<1>8. Placed(0, wire, sent, net) /\ Taken(0, sent, got, readFinal)
  BY <1>1, <1>2, <1>3, <1>4, <1>5 DEF Placed, Taken
<1>9. InOrder
  <2>1. Reckoned(Sofar(sent)[0].list)
    BY <1>1 DEF Init, Reckoned
  <2> QED
    BY <1>1, <1>2, <1>8, <2>1 DEF InOrder
<1> QED
  BY <1>6, <1>7, <1>9 DEF MInv

-----------------------------------------------------------------------------
(***************************************************************************)
(* The place of the reader among the frames.                               *)
(***************************************************************************)

\* The next header is that of the next frame.
LEMMA NextFrame ==
  ASSUME NEW s \in Seq(Frame), NEW w \in Seq(Byte), Framed(w, s), NEW x, NEW h, Placed(h, w, s, x),
         NEW r \in Nat, NEW m, At(w, s, r, m), r + 1 <= Len(w)
  PROVE  w[r + 1].frame = h + 1
<1>1. Len(w) \in Nat /\ w # <<>> /\ 1 \in 1..Len(w) /\ r + 1 \in 1..Len(w)
  BY EmptySeq
<1>2. w[1].frame \in Nat /\ w[1].byte \in Nat
  <2>1. w[1] \in Byte
    BY <1>1, ElementOfSeq
  <2> QED
    BY <2>1 DEF Byte
<1>3. CASE r = 0
  BY <1>1, <1>2, <1>3 DEF At, Placed
<1>4. CASE r > 0
  <2>1. w[1].byte + ((r + 1) - 1) = Size(s[w[1].frame]) + 1 /\ w[1].byte # 0
    <3>1. w[1].byte >= 1 /\ w[1].byte + r = Size(s[w[1].frame]) + 1
      BY <1>1, <1>4 DEF At
    <3> DEFINE d == w[1].byte
    <3>2. d \in Nat /\ d >= 1
      BY <1>2, <3>1
    <3> HIDE DEF d
    <3>3. (r + 1) - 1 = r /\ d # 0
      BY <3>2
    <3> QED
      BY <3>1, <3>3 DEF d
  <2>2. Follows(w, s, 1, r + 1)
    BY <1>1 DEF Framed
  <2>3. w[r + 1] = ByteOf(w[1].frame + 1, 0)
    BY <2>1, <2>2 DEF Follows
  <2> QED
    BY <1>1, <2>1, <2>3 DEF ByteOf, Placed
<1> QED
  BY <1>3, <1>4

\* Past a byte of a frame the reader is in that frame, or before the next header.
LEMMA PlacedPast ==
  ASSUME NEW s \in Seq(Frame), NEW w \in Seq(Byte), Framed(w, s), NEW x,
         x = "up" => EndsWhole(w, s), NEW n \in 1..Len(w)
  PROVE  Placed(w[n].frame, SubSeq(w, n + 1, Len(w)), s, x)
<1> DEFINE k == w[n].frame
           d == w[n].byte
           z == Size(s[k])
           v == SubSeq(w, n + 1, Len(w))
<1>1. Len(w) \in Nat /\ n \in Nat /\ n <= Len(w) /\ w # <<>>
  BY EmptySeq
<1>2. k \in 1..Len(s) /\ d \in 0..z
  BY DEF Framed, IsByte
<1>3. z \in Nat /\ k \in Nat
  BY <1>2, ElementOfSeq, SizeType
<1>4. /\ v \in Seq(Byte) /\ Len(v) = IF n <= Len(w) THEN Len(w) - n ELSE 0
      /\ \A i \in 1..Len(v) : i + n \in 1..Len(w) /\ v[i] = w[i + n]
  BY <1>1, Rest
<1> HIDE DEF v, k, d, z
<1>5. CASE v # <<>>
  <2>1. Len(v) \in Nat \ {0}
    BY <1>4, <1>5, EmptySeq
  <2>2. n + 1 \in 1..Len(w) /\ v[1] = w[n + 1]
    BY <1>1, <1>4, <2>1
  <2>3. Follows(w, s, n, n + 1)
    BY <1>1, <2>2 DEF Framed
  <2>4. /\ d + 1 <= z => v[1] = ByteOf(k, d + 1)
        /\ d + 1 = z + 1 => v[1] = ByteOf(k + 1, 0)
    <3>1. (n + 1) - n = 1
      BY <1>1
    <3> QED
      BY <2>2, <2>3, <3>1 DEF Follows, k, d, z
  <2>5. CASE d + 1 <= z
    <3>1. v[1].byte = d + 1 /\ v[1].frame = k
      BY <2>4, <2>5 DEF ByteOf
    <3>2. d + 1 # 0
      BY <1>2, <1>3
    <3> QED
      BY <1>5, <3>1, <3>2 DEF Placed, k, v
  <2>6. CASE d + 1 = z + 1
    <3>1. v[1].byte = 0 /\ v[1].frame = k + 1
      BY <2>4, <2>6 DEF ByteOf
    <3>2. (k + 1) - 1 = k
      BY <1>3
    <3> QED
      BY <1>5, <3>1, <3>2 DEF Placed, k, v
  <2> QED
    BY <1>2, <1>3, <2>5, <2>6
<1>6. CASE v = <<>>
  <2>1. n = Len(w)
    <3>1. Len(v) = 0
      BY <1>6
    <3> QED
      BY <1>1, <1>4, <3>1
  <2>2. x = "up" => k = Len(s)
    BY <1>1, <2>1 DEF EndsWhole, k
  <2> QED
    BY <1>6, <2>2 DEF Placed, k, v
<1> QED
  BY <1>5, <1>6

-----------------------------------------------------------------------------
(***************************************************************************)
(* Steps that take no frame.                                               *)
(***************************************************************************)

LEMMA PeerOrder == ASSUME Inv, MInv, NEW f \in Frames, Peer(f) PROVE MInv'
<1>1. Typed /\ InStep /\ net = "up" /\ Agreed /\ OneOpen /\ InOrder
  BY DEF Inv, MInv, Peer
<1>2. PICK b \in Seq(Byte) :
        /\ wire' = wire \o b /\ Len(b) <= Size(f) + 1
        /\ \A i \in 1..Len(b) : b[i] = ByteOf(Len(sent) + 1, i - 1)
        /\ net' \in {"up", "gone"} /\ (net' = "up" => Len(b) = Size(f) + 1)
  BY <1>1, PeerWrites
<1>3. /\ sent \in Seq(Frame) /\ f \in Frame /\ wire \in Seq(Byte) /\ sent' = Append(sent, f)
      /\ got \in Seq(Message)
  BY <1>1, SentAreFrames, ReaderAssumption DEF ReaderAssumption, Typed, Peer
<1>4. /\ wire' \in Seq(Byte) /\ Len(wire') = Len(wire) + Len(b) /\ Len(wire) \in Nat /\ Len(b) \in Nat
      /\ \A i \in 1..Len(wire') : wire'[i] = IF i <= Len(wire) THEN wire[i] ELSE b[i - Len(wire)]
  BY <1>2, <1>3, ConcatProperties
<1>5. /\ Len(sent') = Len(sent) + 1 /\ Len(sent) \in Nat
      /\ \A k \in 1..Len(sent) : sent'[k] = sent[k]
  BY <1>3, AppendProperties
<1>6. UNCHANGED <<pc, readRemaining, readFinal, readLength, readErr, reader, got>>
  BY DEF Peer, frameVars
<1>11. Plain' => Plain
  <2>1. DOMAIN sent = 1..Len(sent) /\ DOMAIN sent' = 1..Len(sent') /\ sent' \in Seq(Frame)
    BY <1>3, AppendProperties, LenProperties
  <2> QED
    BY <1>5, <2>1 DEF Plain, Moderate
<1>7. Agreed'
  BY <1>1, <1>3, <1>6, <1>11, MoreInTheEnd DEF Agreed
<1>8. OneOpen'
  BY <1>1, <1>6 DEF OneOpen
<1>9. ASSUME pc # "refused", readErr = "none"
      PROVE  InOrder'
  <2>1. PICK h \in 0..Len(sent) :
          /\ Placed(h, wire, sent, net) /\ Taken(h, sent, got, readFinal)
          /\ reader => Owed(h, sent, got, readRemaining)
          /\ Reckoned(Sofar(sent)[h].list)
    BY <1>1, <1>9 DEF InOrder
  <2>2. h \in 0..Len(sent') /\ h \in Nat /\ Sofar(sent')[h] = Sofar(sent)[h]
    BY <1>3, <1>5, SofarMore
  <2>3. Placed(h, wire', sent', net')
    <3>1. CASE wire # <<>>
      <4>1. 1 \in 1..Len(wire')
        BY <1>3, <1>4, <3>1, EmptySeq
      <4>2. wire'[1] = wire[1] /\ wire' # <<>>
        BY <1>3, <1>4, <3>1, <4>1, EmptySeq
      <4> QED
        BY <2>1, <3>1, <4>2 DEF Placed
    <3>2. CASE wire = <<>> /\ b # <<>>
      <4>1. Len(wire) = 0 /\ h = Len(sent)
        BY <1>1, <2>1, <3>2 DEF Placed
      <4>2. 1 \in 1..Len(b)
        BY <1>4, <3>2, EmptySeq
      <4>3. wire'[1] = b[1] /\ wire' # <<>> /\ b[1] = ByteOf(Len(sent) + 1, 0)
        BY <1>2, <1>4, <4>1, <4>2
      <4> QED
        BY <1>5, <4>1, <4>3 DEF Placed, ByteOf
    <3>3. CASE wire = <<>> /\ b = <<>>
      <4>1. Len(b) = 0 /\ Size(f) \in Nat
        BY <1>3, <3>3, SizeType
      <4>2. wire' = <<>> /\ net' # "up"
        BY <1>2, <1>4, <3>3, <4>1, EmptySeq
      <4> QED
        BY <4>2 DEF Placed
    <3> QED
      BY <3>1, <3>2, <3>3
  <2>4. Taken(h, sent', got, readFinal)
    BY <2>1, <2>2 DEF Taken
  <2>5. ASSUME reader
        PROVE  Owed(h, sent', got, readRemaining)
    <3>1. Len(got) > 0 /\ Len(Sofar(sent)[h].list) = Len(got)
      BY <2>1, <2>5 DEF Owed, Taken
    <3>2. h # 0
      <4>1. Len(NothingYet.list) = 0
        BY DEF NothingYet
      <4> QED
        BY <1>3, <3>1, <4>1, SofarIs
    <3>3. h \in 1..Len(sent)
      BY <1>5, <2>2, <3>2
    <3> QED
      BY <1>5, <2>1, <2>2, <2>5, <3>3 DEF Owed
  <2>6. Reckoned(Sofar(sent)[h].list)'
    BY <1>6, <1>11, <2>1, <2>2 DEF Reckoned
  <2> QED
    BY <1>6, <2>1, <2>2, <2>3, <2>4, <2>5, <2>6 DEF InOrder
<1>10. InOrder'
  BY <1>6, <1>9 DEF InOrder
<1> QED
  BY <1>7, <1>8, <1>10 DEF MInv

LEMMA QuietOrder ==
  ASSUME Inv, MInv, Leave \/ AnotherHandler \/ Read \/ ReadFails \/ ReadCut \/ NextReaderFails
  PROVE  MInv'
<1>1. Agreed /\ OneOpen /\ InOrder /\ Typed
  BY DEF MInv, Inv
<1>2. /\ UNCHANGED <<wire, sent, readRemaining, readMaskPos, readLength, readFinal, got, reader>>
      /\ net' \in {net, "gone"}
      /\ pc' # "refused" => pc # "refused"
      /\ readErr' = "none" => readErr = "none"
      /\ readErr' = "limit" => readErr = "limit"
      /\ pc' = "next" => pc = "next"
  BY DEF Leave, AnotherHandler, Read, ReadFails, ReadCut, NextReaderFails, peerVars, frameVars
<1>3. Agreed' /\ OneOpen'
  BY <1>1, <1>2 DEF Agreed, OneOpen, Plain, Moderate
<1>4. \A h : Placed(h, wire, sent, net) => Placed(h, wire, sent, net')
  BY <1>2 DEF Placed
<1>5. InOrder'
  BY <1>1, <1>2, <1>4 DEF InOrder, Reckoned, Plain, Moderate
<1> QED
  BY <1>3, <1>5 DEF MInv

LEMMA UpgradeOrder == ASSUME Inv, MInv, Upgrade PROVE MInv'
<1>1. Agreed /\ OneOpen /\ InOrder /\ wire \in Seq(Byte) /\ pc = "upgrade"
  BY DEF MInv, Inv, Typed, Upgrade
<1>2. PICK n \in 0..Len(wire) :
        /\ wire' = SubSeq(wire, n + 1, Len(wire))
        /\ pc' \in {"idle", "refused"} /\ (pc' # "refused" => n = 0)
  BY DEF Upgrade, TooEarly
<1>3. pc' # "refused" => wire' = wire /\ net' = net
  BY <1>1, <1>2, SubSeqFull DEF Upgrade
<1>4. UNCHANGED <<sent, readRemaining, readLength, readFinal, got, reader, readErr>>
  BY DEF Upgrade, frameVars
<1>5. Agreed' /\ OneOpen'
  BY <1>1, <1>4 DEF Agreed, OneOpen, Plain, Moderate
<1>6. InOrder'
  BY <1>1, <1>2, <1>3, <1>4 DEF InOrder, Reckoned, Plain, Moderate
<1> QED
  BY <1>5, <1>6 DEF MInv

\* A message that is read no further fits as far as it was read.
LEMMA FitsEnded ==
  ASSUME Typed, NEW l, Fits(got, l), NEW how \in {"left", "whole"},
         how = "whole" /\ reader =>
           l[Len(got)].whole /\ Len(got[Len(got)].data) = Len(l[Len(got)].data)
  PROVE  Fits(Ended(how), l)
<1> DEFINE e == Ended(how)
<1>1. /\ Len(e) = Len(got)
      /\ \A j \in 1..Len(got) :
           /\ e[j].data = got[j].data
           /\ e[j].end = IF reader /\ j = Len(got) THEN how ELSE got[j].end
  BY EndedIs
<1> HIDE DEF e
<1>2. ASSUME NEW j \in 1..Len(got), e[j].end = "whole"
      PROVE  l[j].whole /\ Len(e[j].data) = Len(l[j].data)
  <2>1. CASE reader /\ j = Len(got)
    BY <1>1, <1>2, <2>1
  <2>2. CASE ~(reader /\ j = Len(got))
    <3>1. e[j].end = got[j].end
      BY <1>1, <2>2
    <3> QED
      BY <1>1, <1>2, <3>1 DEF Fits
  <2> QED
    BY <2>1, <2>2
<1> QED
  BY <1>1, <1>2 DEF Fits, e

LEMMA NextReaderOrder == ASSUME Inv, MInv, NextReader PROVE MInv'
<1>1. Agreed /\ OneOpen /\ InOrder /\ Typed /\ pc = "idle"
  BY DEF MInv, Inv, NextReader
<1>2. /\ got' = Ended("left") /\ reader' = FALSE /\ pc' = "next" /\ readLength' = 0
      /\ UNCHANGED <<sent, net, wire, readRemaining, readFinal, readErr>>
  BY DEF NextReader, peerVars
<1>3. /\ Len(got') = Len(got)
      /\ \A j \in 1..Len(got) :
           got'[j].end = IF reader /\ j = Len(got) THEN "left" ELSE got[j].end
  BY <1>1, <1>2, EndedIs
<1>4. \A l : Fits(got, l) => Fits(got', l)
  BY <1>1, <1>2, FitsEnded
<1>5. /\ Plain' <=> Plain
      /\ sent \in Seq(Frame) /\ got \in Seq(Message) /\ got' \in Seq(Message)
  BY <1>1, <1>2, SentAreFrames, EndedIs DEF Typed, Plain, Moderate
<1>10. ASSUME NEW l \in Seq(Told), Refused(got, l)
       PROVE  Refused(got', l)
  <2>1. PICK j \in 1..Len(l) : Over(got, j - 1, l) + Len(l[j].data) > Limit
    BY <1>10 DEF Refused
  <2>2. Len(l[j].data) \in Nat /\ Limit \in Nat
    <3>1. l[j] \in Told
      BY ElementOfSeq
    <3> QED
      BY <3>1, ReaderAssumption DEF ReaderAssumption, Told
  <2>3. j - 1 \in 1..Len(got) => Len(l[j - 1].data) \in Nat
    <3>1. ASSUME j - 1 \in 1..Len(got)
          PROVE  Len(l[j - 1].data) \in Nat
      <4>1. l[j - 1] \in Told
        BY <3>1, ElementOfSeq
      <4> QED
        BY <4>1 DEF Told
    <3> QED
      BY <3>1
  <2>4. \/ Over(got', j - 1, l) = Over(got, j - 1, l)
        \/ Over(got, j - 1, l) = 0 /\ Over(got', j - 1, l) \in Nat
    <3>1. j - 1 \in 1..Len(got) /\ got[j - 1].end = "left" => got'[j - 1].end = "left"
      BY <1>3
    <3> QED
      BY <1>3, <2>3, <3>1 DEF Over
  <2>5. Over(got', j - 1, l) + Len(l[j].data) > Limit
    BY <2>1, <2>2, <2>4
  <2> QED
    BY <2>1, <2>5 DEF Refused
<1>6. Agreed'
  <2>1. Messages(sent) \in Seq(Told)
    <3>1. 0 \in 0..Len(sent)
      BY <1>5, LenProperties
    <3> QED
      BY <1>5, <3>1, InTheEnd
  <2> QED
    BY <1>1, <1>2, <1>4, <1>5, <1>10, <2>1 DEF Agreed
<1>7. OneOpen'
  BY <1>1, <1>2, <1>3 DEF OneOpen
<1>8. \A h : Taken(h, sent, got, readFinal) => Taken(h, sent, got', readFinal)
  BY <1>3, <1>4 DEF Taken
<1>9. InOrder'
  <2>1. ASSUME pc' # "refused", readErr' = "none"
        PROVE  InOrder'
    <3>1. PICK h \in 0..Len(sent) : Placed(h, wire, sent, net) /\ Taken(h, sent, got, readFinal)
      BY <1>1, <1>2, <2>1 DEF InOrder
    <3> DEFINE l == Sofar(sent)[h].list
    <3>2. l \in Seq(Told) /\ Len(l) = Len(got)
      BY <1>5, <3>1, SofarIs DEF Taken
    <3> HIDE DEF l
    <3>3. Over(got', Len(got'), l) >= 0
      <4>1. \A j \in 1..Len(got) : l[j] \in Told
        BY <3>2, ElementOfSeq
      <4>2. \A j \in 1..Len(got) : Len(l[j].data) \in Nat
        BY <4>1 DEF Told
      <4>3. Len(got') \in 1..Len(got') => Len(got') \in 1..Len(got)
        BY <1>3
      <4> QED
        BY <4>2, <4>3 DEF Over
    <3>4. Reckoned(Sofar(sent)[h].list)'
      BY <1>2, <3>3 DEF Reckoned, l
    <3> QED
      BY <1>2, <1>8, <3>1, <3>4 DEF InOrder
  <2> QED
    BY <2>1 DEF InOrder
<1> QED
  BY <1>6, <1>7, <1>9 DEF MInv

\* A message that has been read to its end is all of it.
LEMMA ReadEndsOrder == ASSUME Inv, MInv, ReadEnds PROVE MInv'
<1>1. Agreed /\ OneOpen /\ InOrder /\ Typed
  BY DEF MInv, Inv
<1>2. /\ got' = Ended("whole") /\ reader /\ reader' = FALSE /\ pc' = "idle" /\ pc = "read"
      /\ readErr = "none" /\ readRemaining = 0 /\ readFinal
      /\ UNCHANGED <<sent, net, wire, readRemaining, readFinal, readErr, readLength>>
  BY <1>1 DEF ReadEnds, peerVars, frameVars, Typed
<1>3. /\ Len(got') = Len(got)
      /\ \A j \in 1..Len(got) :
           got'[j].end = IF reader /\ j = Len(got) THEN "whole" ELSE got[j].end
  BY <1>1, <1>2, EndedIs
<1>4. PICK h \in 0..Len(sent) :
        /\ Placed(h, wire, sent, net) /\ Taken(h, sent, got, readFinal)
        /\ Owed(h, sent, got, readRemaining)
  BY <1>1, <1>2 DEF InOrder
<1> DEFINE l == Sofar(sent)[h].list
           n == Len(got)
<1>5. n \in Nat /\ sent \in Seq(Frame) /\ got' \in Seq(Message) /\ got \in Seq(Message)
  BY <1>1, <1>2, SentAreFrames, EndedIs DEF Typed
<1>6. n > 0 /\ n \in 1..n
  BY <1>4, <1>5 DEF Owed
<1>7. l[n].whole /\ Fits(got, l)
  BY <1>2, <1>4, <1>6 DEF Taken
<1>8. Len(got[n].data) = Len(l[n].data)
  <2>1. got[n] \in Message
    BY <1>5, <1>6, ElementOfSeq
  <2>2. Len(got[n].data) \in Nat
    BY <2>1 DEF Message
  <2>3. Len(l[n].data) = Len(got[n].data) + 0
    BY <1>2, <1>4 DEF Owed
  <2> QED
    BY <2>2, <2>3
<1>9. Fits(got', l)
  BY <1>1, <1>2, <1>7, <1>8, FitsEnded
<1>10. Agreed'
  <2>1. Fits(got', Messages(sent))
    BY <1>5, <1>9, InTheEnd
  <2> QED
    BY <1>2, <2>1 DEF Agreed
<1>11. OneOpen'
  BY <1>1, <1>2, <1>3 DEF OneOpen
<1>12. Taken(h, sent, got', readFinal)
  BY <1>3, <1>4, <1>9 DEF Taken
<1>13. InOrder'
  <2>1. Reckoned(Sofar(sent)[h].list)'
    BY <1>2 DEF Reckoned
  <2> QED
    BY <1>2, <1>4, <1>12, <2>1 DEF InOrder
<1> QED
  BY <1>10, <1>11, <1>13 DEF MInv

\* What is read goes on with the message where it had stopped.
LEMMA ReadBytesOrder == ASSUME Inv, MInv, ReadBytes PROVE MInv'
<1>1. Agreed /\ OneOpen /\ InOrder /\ Typed /\ InStep
  BY DEF MInv, Inv
<1>2. /\ reader /\ pc = "read" /\ pc' = "idle" /\ readErr = "none" /\ readRemaining > 0 /\ wire # <<>>
      /\ UNCHANGED <<sent, net, readFinal, readErr, readLength, reader>>
  BY <1>1 DEF ReadBytes, peerVars, Typed
<1>3. sent \in Seq(Frame) /\ wire \in Seq(Byte) /\ readRemaining \in Nat /\ got \in Seq(Message)
  BY <1>1, SentAreFrames DEF Typed
<1> DEFINE g == Len(got)
           old == got[g].data
<1>4. PICK n \in 1..readRemaining, new \in Seq(Byte), m \in Message :
        /\ n <= Len(wire) /\ g \in 1..g /\ got[g] \in Message
        /\ wire' = SubSeq(wire, n + 1, Len(wire))
        /\ readRemaining' = readRemaining - n
        /\ \A i \in 1..n : wire[i] = ByteOf(wire[1].frame, wire[1].byte + (i - 1))
        /\ Len(old) \in Nat /\ Len(new) = Len(old) + n
        /\ \A i \in 1..Len(new) : new[i] = IF i <= Len(old) THEN old[i] ELSE wire[i - Len(old)]
        /\ m.data = new /\ m.end = got[g].end
        /\ got' \in Seq(Message) /\ Len(got') = g
        /\ \A j \in 1..g : got'[j] = IF j = g THEN m ELSE got[j]
  BY ReadBytesTakes
<1>5. PICK h \in 0..Len(sent) :
        /\ Placed(h, wire, sent, net) /\ Taken(h, sent, got, readFinal)
        /\ Owed(h, sent, got, readRemaining)
        /\ Reckoned(Sofar(sent)[h].list)
  BY <1>1, <1>2 DEF InOrder
<1> DEFINE l == Sofar(sent)[h].list
           all == l[g].data
           r == readRemaining
           d == wire[1].byte
           z == Size(sent[h])
<1>6. Len(got') = g /\ got'[g] = m /\ m.data = new /\ m.end = got[g].end /\ g \in 1..g
      /\ \A j \in 1..g : j # g => got'[j] = got[j]
  BY <1>4
<1>7. d \in Nat /\ d >= 1 /\ d + r = z + 1 /\ wire[1].frame = h /\ z \in Nat
  <2>1. 1 \in 1..Len(wire) /\ At(wire, sent, readRemaining, readMaskPos) /\ Framed(wire, sent)
    BY <1>1, <1>2, <1>3, EmptySeq DEF InStep
  <2>2. wire[1] \in Byte
    BY <1>3, <2>1, ElementOfSeq
  <2>3. d \in Nat /\ d >= 1 /\ d + r = Size(sent[wire[1].frame]) + 1
    BY <1>2, <2>1, <2>2 DEF At, Byte
  <2>4. wire[1].frame \in 1..Len(sent)
    BY <2>1 DEF Framed, IsByte
  <2>5. Size(sent[wire[1].frame]) \in Nat
    BY <1>3, <2>4, ElementOfSeq, SizeType
  <2>6. d # 0
    BY <2>3
  <2>7. h = wire[1].frame
    BY <1>2, <1>5, <2>6 DEF Placed
  <2> QED
    BY <2>3, <2>5, <2>7
<1>8. /\ Len(all) = Len(old) + r /\ \A i \in 1..r : all[Len(old) + i] = ByteOf(h, z - r + i)
      /\ Len(l) = g /\ Fits(got, l)
  BY <1>5 DEF Owed, Taken
<1>9. Begins(old, all) /\ (got[g].end = "whole" => Len(old) = Len(all))
  BY <1>6, <1>8 DEF Fits
<1> HIDE DEF g, old, l, all, r, d, z
<1>10. r \in Nat /\ n \in 1..r /\ n \in Nat /\ Len(old) \in Nat /\ Len(new) = Len(old) + n
  BY <1>3, <1>4 DEF r
<1>11. Begins(new, all)
  <2>1. Len(new) <= Len(all)
    BY <1>8, <1>10
  <2>2. ASSUME NEW i \in 1..Len(new)
        PROVE  new[i] = all[i]
    <3>1. CASE i <= Len(old)
      <4>1. i \in 1..Len(old) /\ i \in 1..Len(new)
        BY <1>10, <3>1
      <4>2. new[i] = old[i]
        BY <1>4, <3>1, <4>1
      <4> QED
        BY <1>9, <4>1, <4>2 DEF Begins
    <3>2. CASE i > Len(old)
      <4> DEFINE c == i - Len(old)
      <4>1. c \in 1..n /\ c \in 1..r /\ Len(old) + c = i
        BY <1>10, <3>2
      <4> HIDE DEF c
      <4>2. new[i] = wire[c]
        <5>1. new[i] = wire[i - Len(old)]
          BY <1>4, <1>10, <3>2
        <5> QED
          BY <5>1 DEF c
      <4>3. wire[c] = ByteOf(h, d + (c - 1))
        BY <1>4, <1>7, <4>1 DEF d
      <4>4. all[i] = ByteOf(h, z - r + c)
        BY <1>8, <4>1
      <4>5. z - r + c = d + (c - 1)
        BY <1>7, <1>10, <4>1
      <4> QED
        BY <4>2, <4>3, <4>4, <4>5
    <3> QED
      BY <1>10, <3>1, <3>2
  <2> QED
    BY <2>1, <2>2 DEF Begins
<1>12. got[g].end # "whole"
  BY <1>8, <1>9, <1>10, <1>4
<1>13. Fits(got', l)
  <2>1. ASSUME NEW j \in 1..g
        PROVE  /\ Begins(got'[j].data, l[j].data)
               /\ got'[j].end = "whole" => l[j].whole /\ Len(got'[j].data) = Len(l[j].data)
    <3>1. CASE j = g
      BY <1>6, <1>11, <1>12, <3>1 DEF all
    <3>2. CASE j # g
      BY <1>6, <1>8, <2>1, <3>2 DEF Fits, g
    <3> QED
      BY <3>1, <3>2
  <2>2. Len(got') <= Len(l)
    BY <1>6, <1>8
  <2> QED
    BY <1>6, <2>1, <2>2 DEF Fits
<1>14. Taken(h, sent, got', readFinal)
  BY <1>5, <1>6, <1>13 DEF Taken, l, g
<1>15. Owed(h, sent, got', readRemaining')
  <2>1. g > 0 /\ readRemaining' = r - n
    BY <1>4, <1>6 DEF r
  <2>2. Len(all) = Len(new) + (r - n)
    BY <1>8, <1>10
  <2>3. ASSUME NEW i \in 1..(r - n)
        PROVE  all[Len(new) + i] = ByteOf(h, z - (r - n) + i)
    <3>1. n + i \in 1..r /\ Len(old) + (n + i) = Len(new) + i /\ z - r + (n + i) = z - (r - n) + i
      BY <1>7, <1>10
    <3>2. all[Len(old) + (n + i)] = ByteOf(h, z - r + (n + i))
      BY <1>8, <3>1
    <3> QED
      BY <3>1, <3>2
  <2> QED
    BY <1>6, <2>1, <2>2, <2>3 DEF Owed, all, l, z, g
<1>16. Placed(h, wire', sent, net)
  <2>1. n \in 1..Len(wire) /\ wire[n].frame = h
    <3>1. n \in 1..n /\ n \in 1..Len(wire)
      BY <1>3, <1>4, <1>10
    <3>2. wire[n] = ByteOf(h, d + (n - 1))
      BY <1>4, <1>7, <3>1 DEF d
    <3> QED
      BY <3>1, <3>2 DEF ByteOf
  <2>2. Framed(wire, sent) /\ (net = "up" => EndsWhole(wire, sent))
    BY <1>1 DEF InStep
  <2> QED
    BY <1>3, <1>4, <2>1, <2>2, PlacedPast
<1>17. Reckoned(Sofar(sent)[h].list)'
  <2>1. Over(got', Len(got') - 1, l) = Over(got, Len(got) - 1, l) /\ Len(got') = Len(got)
    <3>1. g \in Nat /\ Len(got') = g /\ g - 1 # g
      BY <1>6
    <3>2. g - 1 \in 1..g => got'[g - 1] = got[g - 1]
      BY <1>6, <3>1
    <3> QED
      BY <3>1, <3>2 DEF Over, g
  <2>2. UNCHANGED <<sent, reader, readLength, Plain>> /\ pc' # "next"
    BY <1>2 DEF Plain, Moderate
  <2> QED
    BY <1>5, <2>1, <2>2 DEF Reckoned, l
<1>18. InOrder'
  BY <1>2, <1>5, <1>6, <1>14, <1>15, <1>16, <1>17 DEF InOrder
<1>19. Agreed'
  <2>1. Fits(got', Messages(sent))
    BY <1>3, <1>4, <1>13, InTheEnd DEF l
  <2> QED
    BY <1>2, <2>1 DEF Agreed
<1>20. OneOpen'
  BY <1>1, <1>2, <1>6 DEF OneOpen, g
<1> QED
  BY <1>18, <1>19, <1>20 DEF MInv

-----------------------------------------------------------------------------
(***************************************************************************)
(* A frame is taken.                                                       *)
(***************************************************************************)

\* The next frame is the one after those that have been taken, and of a message
\* that is being read all has been had that came in them.
LEMMA FrameTaken ==
  ASSUME Inv, MInv, Advance, NEW n \in 1..Len(wire), n = readRemaining + 1,
         wire' = SubSeq(wire, n + 1, Len(wire))
  PROVE  \E h \in 0..Len(sent) :
           LET m == Sofar(sent)[h]
               f == sent[h + 1]
           IN  /\ wire[n].frame = h + 1 /\ f \in Frame /\ h \in Nat /\ h + 1 \in 0..Len(sent)
               /\ Placed(h + 1, wire', sent, net) /\ Taken(h, sent, got, readFinal)
               /\ m \in Account /\ Unended(m.list) = ~readFinal
               /\ Sofar(sent)[h + 1] = Put(m, f, h + 1)
               /\ Fits(got, Sofar(sent)[h + 1].list)
               /\ Sofar(sent)[h + 1] \in Account
               /\ reader => pc = "read" /\ readRemaining = 0 /\ Owed(h, sent, got, 0)
               /\ Reckoned(m.list) /\ Grows(m.list, Sofar(sent)[h + 1].list)
               /\ pc = "next" /\ ~readFinal => got[Len(got)].end = "left"
<1>1. OneOpen /\ InOrder /\ Typed /\ InStep
  BY DEF MInv, Inv
<1>2. /\ pc \in {"next", "read"} /\ readErr = "none"
      /\ pc = "read" => readRemaining = 0 /\ ~readFinal
      /\ reader => pc = "read"
  BY <1>1 DEF Advance, Typed
<1>3. /\ sent \in Seq(Frame) /\ wire \in Seq(Byte) /\ readRemaining \in Nat /\ got \in Seq(Message)
      /\ readFinal \in BOOLEAN /\ Len(sent) \in Nat /\ Len(got) \in Nat
  BY <1>1, SentAreFrames DEF Typed
<1>4. PICK h \in 0..Len(sent) :
        /\ Placed(h, wire, sent, net) /\ Taken(h, sent, got, readFinal)
        /\ reader => Owed(h, sent, got, readRemaining)
        /\ Reckoned(Sofar(sent)[h].list)
  BY <1>1, <1>2 DEF InOrder
<1> DEFINE m == Sofar(sent)[h]
           f == sent[h + 1]
<1>5. wire[n].frame = h + 1 /\ wire[n].frame \in 1..Len(sent)
  <2>1. Framed(wire, sent) /\ At(wire, sent, readRemaining, readMaskPos) /\ readRemaining + 1 <= Len(wire)
    BY <1>1, <1>2, <1>3 DEF InStep
  <2>2. wire[readRemaining + 1].frame = h + 1
    BY <1>3, <1>4, <2>1, NextFrame
  <2> QED
    BY <2>1, <2>2 DEF Framed, IsByte
<1>6. h \in Nat /\ h + 1 \in 1..Len(sent) /\ h + 1 \in 0..Len(sent) /\ h + 1 \in Nat /\ (h + 1) - 1 = h
  BY <1>3, <1>5
<1>7. f \in Frame
  BY <1>3, <1>6, ElementOfSeq
<1>8. Placed(h + 1, wire', sent, net)
  <2>1. Framed(wire, sent) /\ (net = "up" => EndsWhole(wire, sent))
    BY <1>1 DEF InStep
  <2>2. Placed(wire[n].frame, SubSeq(wire, n + 1, Len(wire)), sent, net)
    BY <1>3, <2>1, PlacedPast
  <2> QED
    BY <1>5, <2>2
<1>9. /\ m \in Account /\ Sofar(sent)[h + 1] \in Account /\ m.list \in Seq(Told)
      /\ Sofar(sent)[h + 1].list \in Seq(Told)
  BY <1>3, <1>6, SofarIs
<1>10. Sofar(sent)[h + 1] = Put(m, f, h + 1)
  <2>1. Sofar(sent)[h + 1] = Put(Sofar(sent)[(h + 1) - 1], sent[h + 1], h + 1)
    BY <1>3, <1>6, SofarIs
  <2> QED
    BY <1>6, <2>1
<1>11. Unended(m.list) = ~readFinal
  <2> DEFINE l == m.list
  <2>1. Len(l) = Len(got) /\ (readFinal <=> (Len(got) = 0 \/ l[Len(got)].whole))
    BY <1>4 DEF Taken
  <2> HIDE DEF l
  <2>2. Unended(l) <=> ~readFinal
    BY <1>3, <2>1 DEF Unended
  <2>3. Unended(l) \in BOOLEAN
    BY DEF Unended
  <2> QED
    BY <1>3, <2>2, <2>3 DEF l
<1>15. Grows(m.list, Sofar(sent)[h + 1].list)
  BY <1>6, <1>7, <1>9, <1>10, PutGrows
<1>12. Fits(got, Sofar(sent)[h + 1].list)
  <2>2. Fits(got, m.list)
    BY <1>4 DEF Taken
  <2> QED
    BY <1>3, <1>9, <1>15, <2>2, FitsGrows
<1>13. pc = "next" /\ ~readFinal => got[Len(got)].end = "left"
  <2>1. SUFFICES ASSUME pc = "next", ~readFinal, got[Len(got)].end # "left"
                 PROVE  FALSE
    OBVIOUS
  <2>2. ~reader
    BY <1>2, <2>1
  <2>3. Len(got) \in 1..Len(got) /\ ~m.list[Len(got)].whole
    BY <1>3, <1>4, <2>1 DEF Taken
  <2>4. got[Len(got)] \in Message
    BY <1>3, <2>3, ElementOfSeq
  <2>5. got[Len(got)].end = "whole"
    BY <1>1, <2>1, <2>2, <2>3, <2>4 DEF Message, OneOpen
  <2> QED
    BY <1>4, <2>3, <2>5 DEF Taken, Fits
<1>14. reader => pc = "read" /\ readRemaining = 0 /\ Owed(h, sent, got, 0)
  BY <1>2, <1>4
<1> HIDE DEF m, f
<1> QED
  BY <1>4, <1>5, <1>6, <1>7, <1>8, <1>9, <1>10, <1>11, <1>12, <1>13, <1>14, <1>15
     DEF m, f

LEMMA MoreCounted ==
  ASSUME NEW l \in Int, NEW o \in Nat, NEW p \in Nat, o <= p, NEW x \in Nat, NEW z \in Nat,
         l <= o + x
  PROVE  l + z <= p + (x + z)
OBVIOUS

LEMMA MoreAlone ==
  ASSUME NEW l \in Int, NEW x \in Nat, NEW z \in Nat, l <= x
  PROVE  l + z <= x + z
OBVIOUS

LEMMA CountedAlone ==
  ASSUME NEW l \in Int, NEW o \in Nat, NEW x \in Nat, l <= x
  PROVE  l <= o + x
OBVIOUS

LEMMA LimitPassed ==
  ASSUME NEW l \in Int, NEW p \in Nat, NEW y \in Nat, l <= p + y, l > Limit
  PROVE  p + y > Limit
BY ReaderAssumption DEF ReaderAssumption

LEMMA AdvanceOrder == ASSUME Inv, MInv, Advance PROVE MInv'
<1>1. /\ Agreed /\ OneOpen /\ sent \in Seq(Frame) /\ got \in Seq(Message)
      /\ readLength \in Int /\ readFinal \in BOOLEAN /\ Len(got) \in Nat /\ Limit \in Nat
  BY SentAreFrames, ReaderAssumption DEF ReaderAssumption, MInv, Inv, Typed
<1>2. /\ UNCHANGED <<sent, net>> /\ pc \in {"next", "read"} /\ readErr = "none"
      /\ pc = "read" => ~readFinal
      /\ pc = "next" => ~reader
  BY DEF Advance, peerVars, Inv, Typed
<1>3. ASSUME NEW err \in Errors \ {"limit"}, EndWith(err)
      PROVE  MInv'
  <2>1. /\ readErr' = err /\ err # "none" /\ err # "limit"
        /\ UNCHANGED <<readRemaining, readFinal, readLength, readMaskPos, pc, reader, got>>
    BY <1>3 DEF EndWith, frameVars, Errors
  <2> QED
    BY <1>1, <1>2, <2>1 DEF MInv, Agreed, OneOpen, InOrder
<1>4. ASSUME NEW n \in 1..Len(wire), NEW f, n = readRemaining + 1, f = sent[wire[n].frame],
             wire' = SubSeq(wire, n + 1, Len(wire)), ~f.wrong,
             \/ f.op \in {"data", "cont"} /\ ~OutOfPlace(f) /\ DataFrame(f)
             \/ f.op \notin {"data", "cont"} /\ ControlFrame(f)
      PROVE  MInv'
  <2>1. PICK h \in 0..Len(sent) :
          LET m == Sofar(sent)[h]
              x == sent[h + 1]
          IN  /\ wire[n].frame = h + 1 /\ x \in Frame /\ h \in Nat /\ h + 1 \in 0..Len(sent)
              /\ Placed(h + 1, wire', sent, net) /\ Taken(h, sent, got, readFinal)
              /\ m \in Account /\ Unended(m.list) = ~readFinal
              /\ Sofar(sent)[h + 1] = Put(m, x, h + 1)
              /\ Fits(got, Sofar(sent)[h + 1].list)
              /\ Sofar(sent)[h + 1] \in Account
              /\ reader => pc = "read" /\ readRemaining = 0 /\ Owed(h, sent, got, 0)
              /\ Reckoned(m.list) /\ Grows(m.list, Sofar(sent)[h + 1].list)
              /\ pc = "next" /\ ~readFinal => got[Len(got)].end = "left"
    BY <1>4, FrameTaken
  <2> DEFINE k == h + 1
             a == Sofar(sent)[h]
             b == Sofar(sent)[k]
             g == Len(got)
  <2>2. /\ f = sent[k] /\ f \in Frame /\ k \in Nat /\ h \in Nat /\ k \in 0..Len(sent)
        /\ Placed(k, wire', sent, net) /\ a \in Account /\ b \in Account
        /\ Unended(a.list) = ~readFinal /\ b = Put(a, f, k) /\ Fits(got, b.list)
        /\ a.on /\ Len(a.list) = g /\ Fits(got, a.list)
    BY <1>4, <2>1 DEF Taken
  <2>3. f.fin \in BOOLEAN /\ Size(f) \in Nat /\ f.op \in {"data", "cont", "ping", "pong", "close"}
    BY <2>2, SizeType DEF Frame
  <2>4. /\ f.op \notin {"data", "cont"} => b = a
        /\ f.op = "data" /\ readFinal => Starts(a, b, f, k)
        /\ f.op = "cont" /\ ~readFinal => Continues(a, b, f, k)
    BY <1>1, <1>4, <2>2, PutIs
  <2>5. /\ reader => pc = "read" /\ readRemaining = 0 /\ Owed(h, sent, got, 0)
        /\ pc = "next" /\ ~readFinal => got[g].end = "left"
        /\ Reckoned(a.list) /\ Grows(a.list, b.list)
        /\ a.list \in Seq(Told) /\ b.list \in Seq(Told)
    BY <2>1, <2>2 DEF Account
  <2>10. Plain' <=> Plain
    BY <1>2 DEF Plain, Moderate
  <2>6. /\ Payload(f, k) \in Seq(Byte) /\ Len(Payload(f, k)) = Size(f)
        /\ \A i \in 1..Size(f) : Payload(f, k)[i] = ByteOf(k, i)
    BY <2>2, PayloadIs
  <2>7. ASSUME Fits(got', b.list), got' \in Seq(Message),
               readErr' = "limit" /\ Plain => Refused(got', b.list)
        PROVE  Agreed'
    BY <1>1, <1>2, <2>2, <2>7, <2>10, InTheEnd DEF Agreed
  <2>11. k \in 1..Len(sent)
    BY <2>2
  <2>8. CASE f.op \notin {"data", "cont"} /\ ControlFrame(f)
    <3>1. /\ readRemaining' = 0 /\ UNCHANGED <<readFinal, readLength, pc, reader, got>>
          /\ readErr' # "limit"
      BY <1>2, <2>3, <2>8 DEF ControlFrame, HandlePing
    <3>2. b = a /\ Taken(k, sent, got, readFinal)
      BY <2>1, <2>4, <2>8 DEF Taken
    <3>3. reader => Owed(k, sent, got, 0)
      BY <2>5, <3>2 DEF Owed
    <3>6. Reckoned(Sofar(sent)[k].list)'
      BY <1>2, <2>5, <2>10, <3>1, <3>2 DEF Reckoned
    <3>4. InOrder'
      BY <1>2, <2>2, <2>5, <3>1, <3>2, <3>3, <3>6 DEF InOrder
    <3>5. Agreed' /\ OneOpen'
      BY <1>1, <2>2, <2>7, <3>1 DEF OneOpen
    <3> QED
      BY <3>4, <3>5 DEF MInv
  <2>9. CASE f.op \in {"data", "cont"} /\ ~OutOfPlace(f) /\ DataFrame(f)
    <3>1. /\ readFinal' = f.fin /\ readRemaining' = Size(f) /\ readLength' = Longer(f)
          /\ readLength' \in Int
      <4>1. f \in Range(sent)
        BY <1>1, <2>2, <2>11, LenProperties DEF Range
      <4> QED
        BY <1>1, <2>9, <4>1, LongerIs, ReaderAssumption DEF ReaderAssumption, Inv, DataFrame
    <3>8. Plain => readLength' = readLength + Size(f)
      <4>1. f \in Range(sent)
        BY <1>1, <2>2, <2>11, LenProperties DEF Range
      <4>2. Plain => readLength \in 0..Limit
        BY <1>1, <1>2 DEF Inv, Had, Counted
      <4>3. Plain => Longer(f) = readLength + f.len /\ f.len \in Nat
        BY <4>1, <4>2, LongerIs DEF Inv
      <4>4. f.len \in Nat => Size(f) = f.len
        BY <2>9 DEF Size
      <4> QED
        BY <3>1, <4>3, <4>4
    <3>2. \/ f.op = "data" /\ readFinal /\ pc = "next" /\ ~reader /\ Starts(a, b, f, k)
          \/ f.op = "cont" /\ ~readFinal /\ Continues(a, b, f, k) /\ g \in 1..g
      <4>1. ~readFinal => g > 0
        BY <2>2 DEF Unended
      <4> QED
        BY <1>1, <1>2, <2>4, <2>9, <4>1 DEF OutOfPlace
    <3>3. ASSUME f.op = "cont", Continues(a, b, f, k), g \in 1..g
          PROVE  LET old == a.list[g].data
                     all == b.list[g].data
                 IN  /\ b.on /\ Len(b.list) = g /\ b.list[g].whole = f.fin
                     /\ Len(old) \in Nat /\ Len(all) = Len(old) + Size(f)
                     /\ \A i \in 1..Size(f) : all[Len(old) + i] = ByteOf(k, i)
      <4> DEFINE old  == a.list[g].data
                 more == Payload(f, k)
      <4>1. b.on /\ Len(b.list) = g /\ b.list[g] = [data |-> old \o more, whole |-> f.fin]
        BY <2>2, <3>3 DEF Continues
      <4>2. old \in Seq(Byte)
        <5>1. a.list \in Seq(Told)
          BY <2>2 DEF Account
        <5>2. a.list[g] \in Told
          BY <2>2, <3>3, <5>1, ElementOfSeq
        <5> QED
          BY <5>2 DEF Told
      <4>3. more \in Seq(Byte) /\ Len(more) = Size(f) /\ \A i \in 1..Size(f) : more[i] = ByteOf(k, i)
        BY <2>6, <3>1
      <4> HIDE DEF old, more
      <4>4. b.list[g].data = old \o more /\ b.list[g].whole = f.fin
        BY <4>1
      <4>11. Len(old) \in Nat
        BY <4>2, LenProperties
      <4>5. /\ Len(old \o more) = Len(old) + Len(more)
            /\ \A i \in 1..(Len(old) + Len(more)) :
                 (old \o more)[i] = IF i <= Len(old) THEN old[i] ELSE more[i - Len(old)]
        BY <4>2, <4>3, ConcatProperties
      <4>6. \A i \in 1..Size(f) : (old \o more)[Len(old) + i] = ByteOf(k, i)
        <5>1. ASSUME NEW i \in 1..Size(f)
              PROVE  (old \o more)[Len(old) + i] = ByteOf(k, i)
          <6> DEFINE c == Len(old) + i
          <6>1. c \in 1..(Len(old) + Len(more)) /\ ~(c <= Len(old)) /\ c - Len(old) = i
            BY <2>3, <4>3, <4>11
          <6> HIDE DEF c
          <6>2. (old \o more)[c] = more[i]
            BY <4>5, <6>1
          <6> QED
            BY <4>3, <6>2 DEF c
        <5> QED
          BY <5>1
      <4> QED
        BY <4>1, <4>3, <4>4, <4>5, <4>6, <4>11 DEF old
    <3>4. ASSUME Starts(a, b, f, k)
          PROVE  LET all == b.list[g + 1].data
                 IN  /\ b.on /\ Len(b.list) = g + 1 /\ b.list[g + 1].whole = f.fin
                     /\ Len(all) = Size(f) /\ \A i \in 1..Size(f) : all[i] = ByteOf(k, i)
      <4>1. b.on /\ Len(b.list) = g + 1 /\ b.list[g + 1] = [data |-> Payload(f, k), whole |-> f.fin]
        BY <2>2, <3>4 DEF Starts
      <4> QED
        BY <2>6, <3>1, <4>1
    <3>5. CASE Limit > 0 /\ readLength' > Limit
      <4>1. readErr' = "limit" /\ UNCHANGED <<pc, reader, got>>
        BY <2>9, <3>5 DEF DataFrame
      <4>2. ASSUME Plain
            PROVE  Refused(got, b.list)
        <5>1. CASE f.op = "data" /\ pc = "next" /\ Starts(a, b, f, k)
          <6>1. readLength <= Over(got, g, a.list) /\ readLength + Size(f) > Limit
            BY <2>5, <3>5, <3>8, <4>2, <5>1 DEF Reckoned
          <6>2. Over(got, g, a.list) <= Over(got, g, b.list)
                /\ Over(got, g, a.list) \in Nat /\ Over(got, g, b.list) \in Nat
            BY <1>1, <2>2, <2>5, OverGrows
          <6>3. g + 1 \in 1..Len(b.list) /\ (g + 1) - 1 = g /\ Len(b.list[g + 1].data) = Size(f)
            BY <1>1, <3>4, <5>1
          <6>4. Over(got, g, b.list) + Size(f) > Limit
            BY <1>1, <2>3, <6>1, <6>2
          <6> QED
            BY <6>3, <6>4 DEF Refused
        <5>2. CASE f.op = "cont" /\ ~readFinal /\ Continues(a, b, f, k) /\ g \in 1..g
          <6>1. /\ Len(a.list[g].data) \in Nat /\ Len(b.list[g].data) = Len(a.list[g].data) + Size(f)
                /\ g \in 1..Len(b.list)
            BY <3>3, <5>2
          <6>2. /\ Over(got, g - 1, a.list) \in Nat /\ Over(got, g - 1, b.list) \in Nat
                /\ Over(got, g - 1, a.list) <= Over(got, g - 1, b.list)
            <7>1. g - 1 \in 1..Len(got) => g - 1 \in 1..Len(a.list)
              BY <2>2
            <7> QED
              BY <1>1, <2>5, <7>1, OverGrows
          <6>3. readLength <= Over(got, g - 1, a.list) + Len(a.list[g].data)
            <7>1. CASE pc = "read"
              BY <2>5, <4>2, <7>1 DEF Reckoned, Inv, Typed
            <7>2. CASE pc = "next"
              <8>1. Over(got, g, a.list) = Len(a.list[g].data)
                BY <2>5, <5>2, <7>2 DEF Over
              <8>2. readLength <= Over(got, g, a.list)
                BY <2>5, <4>2, <7>2 DEF Reckoned
              <8>3. readLength <= Len(a.list[g].data)
                BY <8>1, <8>2
              <8> QED
                BY <1>1, <6>1, <6>2, <8>3, CountedAlone
            <7> QED
              BY <1>2, <7>1, <7>2
          <6>4. Over(got, g - 1, b.list) + Len(b.list[g].data) > Limit
            <7>1. readLength + Size(f) <=
                    Over(got, g - 1, b.list) + (Len(a.list[g].data) + Size(f))
              BY <1>1, <2>3, <6>1, <6>2, <6>3, MoreCounted
            <7>2. readLength' <= Over(got, g - 1, b.list) + Len(b.list[g].data)
              BY <3>8, <4>2, <6>1, <7>1
            <7>3. Len(b.list[g].data) \in Nat
              <8>1. b.list[g] \in Told
                BY <2>5, <6>1, ElementOfSeq
              <8> QED
                BY <8>1 DEF Told
            <7>4. readLength' > Limit /\ readLength' \in Int
              BY <3>1, <3>5
            <7>5. Over(got, g - 1, b.list) \in Nat
              BY <6>2
            <7> HIDE DEF a, b, g
            <7> QED
              BY <7>2, <7>3, <7>4, <7>5, LimitPassed
          <6> QED
            BY <6>1, <6>4 DEF Refused
        <5> QED
          BY <3>2, <5>1, <5>2
      <4>3. Agreed'
        BY <1>1, <2>2, <2>7, <4>1, <4>2
      <4> QED
        BY <1>1, <4>1, <4>3 DEF MInv, OneOpen, InOrder
    <3>6. CASE ~(Limit > 0 /\ readLength' > Limit) /\ f.op = "cont"
      <4>1. UNCHANGED <<readErr, pc, reader, got>>
        BY <2>9, <3>6 DEF DataFrame
      <4>2. ~readFinal /\ Continues(a, b, f, k) /\ g \in 1..g
        BY <3>2, <3>6
      <4>3. /\ b.on /\ Len(b.list) = g /\ b.list[g].whole = f.fin
            /\ Len(a.list[g].data) \in Nat /\ Len(b.list[g].data) = Len(a.list[g].data) + Size(f)
            /\ \A i \in 1..Size(f) : b.list[g].data[Len(a.list[g].data) + i] = ByteOf(k, i)
        BY <3>3, <3>6, <4>2
      <4>4. Taken(k, sent, got, f.fin)
        <5>1. g # 0
          BY <1>1, <4>2
        <5> QED
          BY <2>2, <4>3, <5>1 DEF Taken
      <4>5. ASSUME reader
            PROVE  Owed(k, sent, got, Size(f))
        <5>1. Owed(h, sent, got, 0)
          BY <2>5, <4>5
        <5>2. got[g].data \in Seq(Byte)
          <6>1. got[g] \in Message
            BY <1>1, <4>2, ElementOfSeq
          <6> QED
            BY <6>1 DEF Message
        <5>3. Len(got[g].data) \in Nat
          BY <5>2
        <5>4. Len(a.list[g].data) = Len(got[g].data) + 0
          BY <5>1 DEF Owed
        <5>5. Len(a.list[g].data) = Len(got[g].data)
          BY <5>3, <5>4
        <5>6. \A i \in 1..Size(f) : Size(f) - Size(f) + i = i
          BY <2>3, <3>1
        <5>7. g > 0
          BY <1>1, <4>2
        <5> QED
          BY <2>2, <4>3, <5>5, <5>6, <5>7 DEF Owed
      <4>6. Reckoned(Sofar(sent)[k].list)'
        <5>1. SUFFICES ASSUME Plain
                       PROVE  /\ reader => readLength' <= Over(got, g - 1, b.list) + Len(b.list[g].data)
                              /\ pc = "next" => readLength' <= Over(got, g, b.list)
          BY <1>2, <2>10, <4>1 DEF Reckoned
        <5>2. /\ Over(got, g - 1, a.list) \in Nat /\ Over(got, g - 1, b.list) \in Nat
              /\ Over(got, g - 1, a.list) <= Over(got, g - 1, b.list)
          <6>1. g - 1 \in 1..Len(got) => g - 1 \in 1..Len(a.list)
            BY <2>2
          <6> QED
            BY <1>1, <2>5, <6>1, OverGrows
        <5>3. ASSUME reader
              PROVE  readLength' <= Over(got, g - 1, b.list) + Len(b.list[g].data)
          <6>1. readLength <= Over(got, g - 1, a.list) + Len(a.list[g].data)
            BY <2>5, <5>1, <5>3 DEF Reckoned
          <6> QED
            <7>1. readLength + Size(f) <=
                    Over(got, g - 1, b.list) + (Len(a.list[g].data) + Size(f))
              BY <1>1, <2>3, <4>3, <5>2, <6>1, MoreCounted
            <7> QED
              BY <3>8, <4>3, <5>1, <7>1
        <5>4. ASSUME pc = "next"
              PROVE  readLength' <= Over(got, g, b.list)
          <6>1. got[g].end = "left" /\ readLength <= Over(got, g, a.list)
            BY <2>5, <4>2, <5>1, <5>4 DEF Reckoned
          <6>2. Over(got, g, a.list) = Len(a.list[g].data) /\ Over(got, g, b.list) = Len(b.list[g].data)
            BY <4>2, <6>1 DEF Over
          <6> QED
            <7>1. readLength <= Len(a.list[g].data) /\ Len(a.list[g].data) \in Nat
              BY <4>3, <6>1, <6>2
            <7>3. readLength + Size(f) <= Len(a.list[g].data) + Size(f)
              BY <1>1, <2>3, <7>1, MoreAlone
            <7> QED
              BY <3>8, <4>3, <5>1, <6>2, <7>3
        <5> QED
          BY <5>3, <5>4
      <4>7. InOrder'
        BY <1>2, <2>2, <3>1, <4>1, <4>4, <4>5, <4>6 DEF InOrder
      <4>8. Agreed' /\ OneOpen'
        BY <1>1, <1>2, <2>2, <2>7, <4>1 DEF OneOpen
      <4> QED
        BY <4>7, <4>8 DEF MInv
    <3>7. CASE ~(Limit > 0 /\ readLength' > Limit) /\ f.op = "data"
      <4> DEFINE e == [data |-> <<>>, end |-> "open"]
      <4>1. readErr' = readErr /\ pc' = "idle" /\ reader' = TRUE /\ got' = Append(got, e)
        BY <2>9, <3>7 DEF DataFrame
      <4>2. readFinal /\ pc = "next" /\ ~reader /\ Starts(a, b, f, k)
        BY <3>2, <3>7
      <4>3. e \in Message /\ e.data = <<>> /\ e.end = "open"
        BY EmptySeq DEF Message
      <4> HIDE DEF e
      <4>4. /\ got' \in Seq(Message) /\ Len(got') = g + 1
            /\ \A j \in 1..g : got'[j] = got[j]
            /\ got'[g + 1] = e
        BY <1>1, <4>1, <4>3, AppendProperties
      <4>5. /\ b.on /\ Len(b.list) = g + 1 /\ b.list[g + 1].whole = f.fin
            /\ Len(b.list[g + 1].data) = Size(f)
            /\ \A i \in 1..Size(f) : b.list[g + 1].data[i] = ByteOf(k, i)
        BY <3>4, <4>2
      <4>6. \A j \in 1..(g + 1) : j \in 1..g \/ j = g + 1
        BY <1>1
      <4>7. Fits(got', b.list)
        <5>1. Begins(<<>>, b.list[g + 1].data)
          BY <2>3, <4>5 DEF Begins
        <5>2. ASSUME NEW j \in 1..(g + 1)
              PROVE  /\ Begins(got'[j].data, b.list[j].data)
                     /\ got'[j].end = "whole" =>
                          b.list[j].whole /\ Len(got'[j].data) = Len(b.list[j].data)
          <6>1. CASE j \in 1..g
            BY <2>2, <4>4, <6>1 DEF Fits
          <6>2. CASE j = g + 1
            BY <4>3, <4>4, <5>1, <6>2
          <6> QED
            BY <4>6, <6>1, <6>2
        <5> QED
          BY <1>1, <4>4, <4>5, <5>2 DEF Fits
      <4>8. Taken(k, sent, got', f.fin)
        <5>1. g + 1 # 0
          BY <1>1
        <5> QED
          BY <4>4, <4>5, <4>7, <5>1 DEF Taken
      <4>9. Owed(k, sent, got', Size(f))
        <5>1. g + 1 > 0 /\ Len(got'[g + 1].data) = 0
          BY <1>1, <4>3, <4>4
        <5>2. Len(b.list[g + 1].data) = 0 + Size(f)
          BY <2>3, <4>5
        <5>3. \A i \in 1..Size(f) : 0 + i = i /\ Size(f) - Size(f) + i = i
          BY <2>3, <3>1
        <5>4. \A i \in 1..Size(f) : b.list[g + 1].data[0 + i] = ByteOf(k, Size(f) - Size(f) + i)
          BY <4>5, <5>3
        <5> QED
          BY <2>2, <4>4, <5>1, <5>2, <5>4 DEF Owed
      <4>10. Reckoned(Sofar(sent)[k].list)'
        <5>1. SUFFICES ASSUME Plain
                       PROVE  readLength' <= Over(got', g, b.list) + Len(b.list[g + 1].data)
          <6>1. (g + 1) - 1 = g /\ pc' # "next"
            BY <1>1, <4>1
          <6> QED
            BY <1>2, <2>10, <4>4, <6>1 DEF Reckoned
        <5>2. readLength <= Over(got, g, a.list)
          BY <2>5, <4>2, <5>1 DEF Reckoned
        <5>3. Over(got, g, a.list) <= Over(got, g, b.list)
              /\ Over(got, g, a.list) \in Nat /\ Over(got, g, b.list) \in Nat
          BY <1>1, <2>2, <2>5, OverGrows
        <5>4. Over(got', g, b.list) = Over(got, g, b.list)
          <6>1. g \in 1..g <=> g \in 1..(g + 1)
            BY <1>1
          <6> QED
            BY <4>4, <6>1 DEF Over
        <5> QED
          BY <1>1, <2>3, <3>8, <4>5, <5>1, <5>2, <5>3, <5>4
      <4>11. InOrder'
        BY <1>2, <2>2, <3>1, <4>1, <4>4, <4>8, <4>9, <4>10 DEF InOrder
      <4>12. OneOpen'
        BY <1>1, <4>1, <4>2, <4>4, <4>6 DEF OneOpen
      <4>13. Agreed'
        BY <1>2, <2>7, <4>1, <4>4, <4>7
      <4> QED
        BY <4>11, <4>12, <4>13 DEF MInv
    <3> QED
      BY <2>9, <3>5, <3>6, <3>7
  <2> QED
    BY <1>4, <2>8, <2>9
<1> QED
  <2>1. "protocol" \in Errors \ {"limit"}
    BY DEF Errors
  <2> QED
    BY <1>3, <1>4, <2>1, Advances

-----------------------------------------------------------------------------
LEMMA MInvStep == Inv /\ MInv /\ [Next]_vars => MInv'
<1> SUFFICES ASSUME Inv, MInv, [Next]_vars
             PROVE  MInv'
  OBVIOUS
<1>1. CASE UNCHANGED vars
  BY <1>1 DEF vars, frameVars, MInv, Agreed, OneOpen, InOrder, Reckoned, Plain, Moderate
<1>2. CASE Next
  BY <1>2, PeerOrder, QuietOrder, UpgradeOrder, NextReaderOrder, AdvanceOrder, ReadBytesOrder,
     ReadEndsOrder DEF Next, Within
<1> QED
  BY <1>1, <1>2

LEMMA OrderInvariance == Spec => [](Inv /\ MInv)
<1>1. Init => Inv /\ MInv
  BY InvInit, MInvInit
<1>2. Inv /\ MInv /\ [Next]_vars => (Inv /\ MInv)'
  BY InvStep, MInvStep
<1> QED
  BY <1>1, <1>2, PTL DEF Spec

LEMMA BeginsIsPrefix ==
  ASSUME NEW a \in Seq(Byte), NEW b \in Seq(Byte), Begins(a, b)
  PROVE  /\ IsPrefix(a, b)
         /\ Len(a) = Len(b) => a = b
<1>1. Len(a) \in Nat /\ Len(b) \in Nat /\ Len(a) <= Len(b)
  BY DEF Begins
<1>2. Len(a) \in 0..Len(a) /\ Len(a) \in 0..Len(b)
  BY <1>1
<1> DEFINE x == SubSeq(a, 1, Len(a))
           y == SubSeq(b, 1, Len(a))
<1>3. /\ x \in Seq(Byte) /\ Len(x) = Len(a) /\ \A i \in 1..Len(a) : x[i] = a[i]
      /\ y \in Seq(Byte) /\ Len(y) = Len(a) /\ \A i \in 1..Len(a) : y[i] = b[i]
  BY <1>2, Begin
<1> HIDE DEF x, y
<1>4. x = y
  BY <1>3, SeqEqual DEF Begins
<1>5. Len(a) = Len(b) => a = b
  BY SeqEqual DEF Begins
<1> QED
  BY <1>1, <1>4, <1>5 DEF IsPrefix, x, y

\* Whatever the peer sends, however it is cut into frames and whatever comes
\* between them, and whatever the application abandons: each NextReader() is the
\* next message of the peer, what is read of it is how it begins, and one read to
\* its end is all of it.
THEOREM TheApplicationGetsThePeersMessages == Spec => []MessagesAreThePeers
<1>1. Inv /\ MInv => MessagesAreThePeers
  <2> SUFFICES ASSUME Inv, MInv
               PROVE  MessagesAreThePeers
    OBVIOUS
  <2> DEFINE ms == Messages(sent)
  <2>1. /\ sent \in Seq(Frame) /\ got \in Seq(Message) /\ Len(got) \in Nat /\ Fits(got, ms)
        /\ DOMAIN got = 1..Len(got)
    BY SentAreFrames, LenProperties DEF Inv, Typed, MInv, Agreed
  <2>2. ms \in Seq(Told) /\ Len(ms) \in Nat
    <3>1. 0 \in 0..Len(sent)
      BY <2>1
    <3>2. ms \in Seq(Told)
      BY <2>1, <3>1, InTheEnd
    <3> QED
      BY <3>2, LenProperties
  <2> HIDE DEF ms
  <2>3. Len(got) <= Len(ms)
    BY <2>1 DEF Fits
  <2>4. ASSUME NEW j \in DOMAIN got
        PROVE  /\ IsPrefix(got[j].data, ms[j].data)
               /\ got[j].end = "whole" => ms[j].whole /\ got[j].data = ms[j].data
    <3>1. j \in 1..Len(got) /\ j \in 1..Len(ms)
      BY <2>1, <2>2, <2>3
    <3>2. got[j] \in Message /\ ms[j] \in Told
      BY <2>1, <2>2, <3>1, ElementOfSeq
    <3>3. got[j].data \in Seq(Byte) /\ ms[j].data \in Seq(Byte)
      BY <3>2 DEF Message, Told
    <3>4. /\ Begins(got[j].data, ms[j].data)
          /\ got[j].end = "whole" => ms[j].whole /\ Len(got[j].data) = Len(ms[j].data)
      BY <2>1, <3>1 DEF Fits
    <3> QED
      BY <3>3, <3>4, BeginsIsPrefix
  <2> QED
    BY <2>3, <2>4 DEF MessagesAreThePeers, ms
<1> QED
  BY <1>1, OrderInvariance, PTL

\* SetReadLimit() is a limit on messages, for every limit and all moderate
\* lengths: no more of one gets through, and a peer is refused none that keeps to
\* it, unless the rest of one that the application has abandoned counts with it.
THEOREM TheLimitIsForMessages == Spec => []LimitIsForMessages
<1>1. Inv /\ MInv => LimitIsForMessages
  <2> SUFFICES ASSUME Inv, MInv, Moderate
               PROVE  /\ NoneTooLong
                      /\ Limit > 0 /\ readErr = "limit" => OneIsLonger(Messages(sent))
    BY DEF LimitIsForMessages
  <2>1. NoneTooLong
    BY DEF Inv, Had, Counted, Plain, NoneTooLong
  <2>2. sent \in Seq(Frame) /\ DOMAIN got = 1..Len(got)
    BY SentAreFrames, LenProperties DEF Inv, Typed
  <2>3. DOMAIN Messages(sent) = 1..Len(Messages(sent)) /\ Messages(sent) \in Seq(Told)
    <3>1. 0 \in 0..Len(sent)
      BY <2>2, LenProperties
    <3>2. Messages(sent) \in Seq(Told)
      BY <2>2, <3>1, InTheEnd
    <3> QED
      BY <3>2, LenProperties
  <2>4. ASSUME Limit > 0, readErr = "limit"
        PROVE  OneIsLonger(Messages(sent))
    <3> DEFINE ms == Messages(sent)
    <3>1. Refused(got, ms)
      BY <2>4 DEF MInv, Agreed, Plain
    <3>2. PICK j \in 1..Len(ms) : Over(got, j - 1, ms) + Len(ms[j].data) > Limit
      BY <3>1 DEF Refused
    <3>3. ms[j] \in Told
      BY <2>3, ElementOfSeq
    <3>4. Len(ms[j].data) \in Nat
      BY <3>3 DEF Told
    <3> HIDE DEF ms
    <3>5. CASE j - 1 \in 1..Len(got) /\ got[j - 1].end = "left"
      BY <2>2, <2>3, <3>2, <3>5 DEF OneIsLonger, Over, ms
    <3>6. CASE ~(j - 1 \in 1..Len(got) /\ got[j - 1].end = "left")
      <4>1. Len(ms[j].data) > Limit
        <5>1. Over(got, j - 1, ms) = 0
          BY <3>6 DEF Over
        <5> QED
          BY <3>2, <3>4, <5>1
      <4> QED
        BY <2>3, <4>1 DEF OneIsLonger, ms
    <3> QED
      BY <3>5, <3>6
  <2> QED
    BY <2>1, <2>4
<1> QED
  BY <1>1, OrderInvariance, PTL
=============================================================================
