------------------------------ MODULE IpcProofs ------------------------------
(***************************************************************************)
(* The two layers of the IPC channel.  Messages: for any header, any       *)
(* messages and any pieces the socket may read, no complete message is     *)
(* left in the receiver's buffer, and the framing implements the safety    *)
(* part of MessageFifo.  Calls: for any number of calls and any choice of  *)
(* time limits, every reply is recognised, and each call is ended at most  *)
(* once.                                                                   *)
(***************************************************************************)
EXTENDS MessageChannel, IpcChannel, SequenceTheorems, FiniteSetTheorems, TLAPS

-----------------------------------------------------------------------------
(* Messages on a byte stream.                                              *)

Byte == Nat \X Nat

BufferTypes ==
  /\ wire \in Seq(Byte) /\ input \in Seq(Byte)
  /\ received \in Seq(Seq(Byte))

(* The size of message m, when the lengths of those sent are s.            *)
Size(s, m) == HeaderSize + s[m]

(* q holds whole messages: around each byte are the other bytes of its     *)
(* message, in order, ...                                                  *)
Whole(q, s) ==
  \A i \in DOMAIN q :
    /\ q[i][1] \in 1..Len(s) /\ q[i][2] \in 1..Size(s, q[i][1])
    /\ \A k \in 1..Size(s, q[i][1]) :
         LET p == i + k - q[i][2]
         IN  p \in DOMAIN q /\ q[p] = << q[i][1], k >>

(* ... each message is followed by the next, ...                           *)
Consecutive(q, s) ==
  \A i \in DOMAIN q :
    q[i][2] = Size(s, q[i][1]) /\ i + 1 \in DOMAIN q => q[i + 1] = << q[i][1] + 1, 1 >>

(* ... from the one after r to the last that was sent.                     *)
FromTo(q, s, r) ==
  IF q = << >> THEN r = Len(s)
  ELSE q[1] = << r + 1, 1 >> /\ q[Len(q)] = << Len(s), Size(s, Len(s)) >>

Stream(q, s, r) == Whole(q, s) /\ Consecutive(q, s) /\ FromTo(q, s, r)

(* The bytes behind those of the messages received.                        *)
Rest == input \o wire

(* What was received are the first messages sent.                          *)
Prefix ==
  /\ Len(received) <= Len(sent)
  /\ \A i \in 1..Len(received) : received[i] = Bytes(i, sent[i])

(* What the receiver knows of the message at the front of its buffer, and  *)
(* what it waits for.                                                      *)
Waits ==
  /\ state = "READ_HEADER" => msgLen = 0 /\ (~consuming => lowMark <= HeaderSize)
  /\ state = "READ_MSG" => /\ Len(input) >= HeaderSize
                           /\ msgLen = sent[Len(received) + 1]
                           /\ ~consuming => lowMark = HeaderSize + msgLen
  /\ state = "CLOSED" => ~consuming

(* The inductive invariant.                                                *)
FramingIInv ==
  /\ FramingTypeOK /\ BufferTypes
  /\ Stream(Rest, sent, Len(received)) /\ Prefix /\ Waits /\ NoStall

-----------------------------------------------------------------------------
(* A piece moved from the front of w to the end of s.                      *)
LEMMA Regroup ==
  \A S : \A s, w \in Seq(S) : \A n \in 1..Len(w) :
    /\ SubSeq(w, 1, n) \in Seq(S) /\ SubSeq(w, n + 1, Len(w)) \in Seq(S)
    /\ s \o SubSeq(w, 1, n) \in Seq(S) /\ Len(s \o SubSeq(w, 1, n)) = Len(s) + n
    /\ (s \o SubSeq(w, 1, n)) \o SubSeq(w, n + 1, Len(w)) = s \o w
<1> TAKE S
<1> TAKE s, w \in Seq(S)
<1> TAKE n \in 1..Len(w)
<1>1. Len(w) \in Nat /\ \A i \in 1..Len(w) : w[i] \in S
  BY LenProperties
<1>2. /\ SubSeq(w, 1, n) \in Seq(S) /\ SubSeq(w, n + 1, Len(w)) \in Seq(S)
      /\ Len(SubSeq(w, 1, n)) = n
  <2>1. \A i \in 1..n : w[i] \in S
    BY <1>1
  <2>2. \A i \in (n + 1)..Len(w) : w[i] \in S
    BY <1>1
  <2>3. 1 \in Int /\ n \in Int /\ n + 1 \in Int /\ Len(w) \in Int /\ 1 <= n
    BY <1>1
  <2>4. SubSeq(w, 1, n) \in Seq(S) /\ Len(SubSeq(w, 1, n)) = n
    BY <2>1, <2>3, SubSeqProperties
  <2>5. SubSeq(w, n + 1, Len(w)) \in Seq(S)
    BY <2>2, <2>3, SubSeqProperties
  <2> QED
    BY <2>4, <2>5
<1>3. SubSeq(w, 1, n) \o SubSeq(w, n + 1, Len(w)) = w
  <2>1. 1 \in 1..Len(w) + 1 /\ n \in (1 - 1)..Len(w) /\ Len(w) \in n..Len(w)
    BY <1>1
  <2>2. SubSeq(w, 1, n) \o SubSeq(w, n + 1, Len(w)) = SubSeq(w, 1, Len(w))
    BY <2>1, ConcatAdjacentSubSeq
  <2> QED
    BY <2>2, SubSeqFull
<1>4. (s \o SubSeq(w, 1, n)) \o SubSeq(w, n + 1, Len(w)) = s \o w
  <2> DEFINE a == SubSeq(w, 1, n)
             b == SubSeq(w, n + 1, Len(w))
  <2>1. a \in Seq(S) /\ b \in Seq(S) /\ a \o b = w
    BY <1>2, <1>3
  <2> HIDE DEF a, b
  <2>2. \A x, y \in Seq(S) : (s \o x) \o y = s \o (x \o y)
    OBVIOUS
  <2>3. (s \o a) \o b = s \o (a \o b)
    BY <2>1, <2>2, Zenon
  <2> QED
    BY <2>1, <2>3 DEF a, b
<1>5. s \o SubSeq(w, 1, n) \in Seq(S) /\ Len(s \o SubSeq(w, 1, n)) = Len(s) + n
  <2> DEFINE a == SubSeq(w, 1, n)
  <2>1. a \in Seq(S) /\ Len(a) = n
    BY <1>2
  <2> HIDE DEF a
  <2>2. s \o a \in Seq(S) /\ Len(s \o a) = Len(s) + Len(a)
    BY <2>1, ConcatProperties
  <2> QED
    BY <2>1, <2>2 DEF a
<1> QED
  BY <1>2, <1>4, <1>5

(* The front of s taken off.                                               *)
LEMMA Behead ==
  ASSUME NEW S, NEW s \in Seq(S), NEW w \in Seq(S), NEW n \in 1..Len(s)
  PROVE  /\ SubSeq(s, 1, n) \in Seq(S) /\ SubSeq(s, n + 1, Len(s)) \in Seq(S)
         /\ Len(SubSeq(s, 1, n)) = n /\ \A i \in 1..n : SubSeq(s, 1, n)[i] = s[i]
         /\ Len(SubSeq(s, n + 1, Len(s))) = Len(s) - n
         /\ SubSeq(s, n + 1, Len(s)) \o w \in Seq(S)
         /\ Len(SubSeq(s, n + 1, Len(s)) \o w) = Len(s) + Len(w) - n
         /\ \A i \in 1..(Len(s) + Len(w) - n) :
              (SubSeq(s, n + 1, Len(s)) \o w)[i] = (s \o w)[n + i]
<1>1. Len(s) \in Nat /\ Len(w) \in Nat /\ \A i \in 1..Len(s) : s[i] \in S
  BY LenProperties
<1>2. /\ SubSeq(s, 1, n) \in Seq(S)
      /\ Len(SubSeq(s, 1, n)) = n /\ \A i \in 1..n : SubSeq(s, 1, n)[i] = s[i]
  <2>1. \A i \in 1..n : s[i] \in S
    BY <1>1
  <2>2. /\ SubSeq(s, 1, n) \in Seq(S) /\ Len(SubSeq(s, 1, n)) = IF 1 <= n THEN n - 1 + 1 ELSE 0
        /\ \A i \in 1..n - 1 + 1 : SubSeq(s, 1, n)[i] = s[1 + i - 1]
    BY <2>1, SubSeqProperties
  <2> QED
    BY <2>2
<1> DEFINE t == SubSeq(s, n + 1, Len(s))
<1>3. /\ t \in Seq(S) /\ Len(t) = Len(s) - n
      /\ \A i \in 1..Len(s) - n : t[i] = s[n + i]
  <2>1. \A i \in (n + 1)..Len(s) : s[i] \in S
    BY <1>1
  <2>2. n + 1 \in Int /\ Len(s) \in Int
    BY <1>1
  <2>3. /\ t \in Seq(S) /\ Len(t) = IF n + 1 <= Len(s) THEN Len(s) - (n + 1) + 1 ELSE 0
        /\ \A i \in 1..Len(s) - (n + 1) + 1 : t[i] = s[(n + 1) + i - 1]
    BY <2>1, <2>2, SubSeqProperties
  <2> HIDE DEF t
  <2> QED
    BY <1>1, <2>3
<1> HIDE DEF t
<1>4. /\ t \o w \in Seq(S) /\ Len(t \o w) = Len(s) + Len(w) - n
      /\ \A i \in 1..(Len(s) + Len(w) - n) : (t \o w)[i] = (s \o w)[n + i]
  <2>1. /\ t \o w \in Seq(S) /\ Len(t \o w) = Len(t) + Len(w)
        /\ \A i \in 1..Len(t) + Len(w) : (t \o w)[i] = IF i <= Len(t) THEN t[i] ELSE w[i - Len(t)]
    BY <1>3, ConcatProperties
  <2>2. \A i \in 1..Len(s) + Len(w) : (s \o w)[i] = IF i <= Len(s) THEN s[i] ELSE w[i - Len(s)]
    BY ConcatProperties
  <2>3. ASSUME NEW i \in 1..(Len(s) + Len(w) - n) PROVE (t \o w)[i] = (s \o w)[n + i]
    <3>1. i \in 1..Len(t) + Len(w) /\ n + i \in 1..Len(s) + Len(w)
      BY <1>1, <1>3
    <3>2. (t \o w)[i] = IF i <= Len(t) THEN t[i] ELSE w[i - Len(t)]
      BY <2>1, <3>1
    <3>3. (s \o w)[n + i] = IF n + i <= Len(s) THEN s[n + i] ELSE w[n + i - Len(s)]
      BY <2>2, <3>1
    <3>4. CASE i <= Len(t)
      BY <1>1, <1>3, <3>2, <3>3, <3>4
    <3>5. CASE ~(i <= Len(t))
      <4>1. i - Len(t) = n + i - Len(s) /\ ~(n + i <= Len(s))
        BY <1>1, <1>3, <3>5
      <4> QED
        BY <3>2, <3>3, <3>5, <4>1
    <3> QED
      BY <3>4, <3>5
  <2> QED
    BY <1>1, <1>3, <2>1, <2>3
<1> QED
  BY <1>2, <1>3, <1>4 DEF t

(* The bytes of a message.                                                 *)
LEMMA BytesFacts ==
  ASSUME NEW m \in Nat, NEW len \in Nat
  PROVE  /\ Bytes(m, len) \in Seq(Byte) /\ Len(Bytes(m, len)) = HeaderSize + len
         /\ \A i \in 1..(HeaderSize + len) : Bytes(m, len)[i] = << m, i >>
<1>1. HeaderSize + len \in Nat
  BY MessageAssumption
<1>2. \A i \in 1..(HeaderSize + len) : << m, i >> \in Byte
  BY <1>1 DEF Byte
<1> DEFINE k == HeaderSize + len
           e == [i \in 1..k |-> << m, i >>]
<1>3. e \in [1..k -> Byte] /\ \A i \in 1..k : e[i] = << m, i >>
  BY <1>2
<1> HIDE DEF k, e
<1>4. e \in Seq(Byte)
  BY <1>1, <1>3, SeqDef DEF k
<1>5. Len(e) = k
  BY <1>1, <1>3, <1>4, LenProperties DEF k
<1> QED
  BY <1>3, <1>4, <1>5 DEF Bytes, e, k

LEMMA SizeFacts ==
  ASSUME NEW s \in Seq(Lengths)
  PROVE  /\ Len(s) \in Nat /\ DOMAIN s = 1..Len(s)
         /\ \A m \in 1..Len(s) : s[m] \in Nat /\ s[m] \in Lengths
                                 /\ Size(s, m) \in Nat /\ Size(s, m) >= 1
<1>1. Len(s) \in Nat /\ DOMAIN s = 1..Len(s) /\ \A m \in 1..Len(s) : s[m] \in Lengths
  BY ElementOfSeq, LenProperties
<1>2. HeaderSize \in Nat \ {0} /\ Lengths \subseteq Nat
  BY MessageAssumption
<1>3. ASSUME NEW m \in 1..Len(s) PROVE s[m] \in Nat
  BY <1>1, <1>2
<1> QED
  BY <1>1, <1>2, <1>3 DEF Size

LEMMA AppendFacts ==
  ASSUME NEW s \in Seq(Lengths), NEW len \in Lengths
  PROVE  /\ Append(s, len) \in Seq(Lengths) /\ Len(Append(s, len)) = Len(s) + 1
         /\ \A m \in 1..Len(s) : Append(s, len)[m] = s[m]
                                 /\ Size(Append(s, len), m) = Size(s, m)
         /\ Append(s, len)[Len(s) + 1] = len
         /\ Size(Append(s, len), Len(s) + 1) = HeaderSize + len
  BY AppendProperties DEF Size

(* What is at the front of a stream is the next message, whole.            *)
LEMMA FrontOfStream ==
  ASSUME NEW s \in Seq(Lengths), NEW q \in Seq(Byte), NEW r \in Nat, Stream(q, s, r), q # << >>
  PROVE  /\ r + 1 \in 1..Len(s) /\ q[1] = << r + 1, 1 >>
         /\ \A k \in 1..Size(s, r + 1) : k \in DOMAIN q /\ q[k] = << r + 1, k >>
<1>1. Len(q) \in Nat /\ Len(q) >= 1 /\ 1 \in DOMAIN q /\ DOMAIN q = 1..Len(q)
  BY EmptySeq, LenProperties
<1>2. q[1] = << r + 1, 1 >>
  BY DEF Stream, FromTo
<1>3. q[1][1] = r + 1 /\ q[1][2] = 1
  BY <1>2
<1>4. r + 1 \in 1..Len(s)
  BY <1>1, <1>3 DEF Stream, Whole
<1>5. ASSUME NEW k \in 1..Size(s, r + 1) PROVE k \in DOMAIN q /\ q[k] = << r + 1, k >>
  <2>1. k \in Nat /\ 1 + k - 1 = k
    <3>1. Size(s, r + 1) \in Nat
      BY <1>4, SizeFacts
    <3> QED
      BY <3>1
  <2>2. \A i \in 1..Len(q) : \A j \in 1..Size(s, q[i][1]) :
          i + j - q[i][2] \in DOMAIN q /\ q[i + j - q[i][2]] = << q[i][1], j >>
    BY <1>1 DEF Stream, Whole
  <2>3. k \in 1..Size(s, q[1][1]) /\ 1 \in 1..Len(q)
    BY <1>1, <1>3
  <2>4. 1 + k - q[1][2] \in DOMAIN q /\ q[1 + k - q[1][2]] = << q[1][1], k >>
    BY <2>2, <2>3
  <2>5. 1 + k - q[1][2] = k
    BY <1>3, <2>1
  <2> QED
    BY <1>3, <2>4, <2>5
<1> QED
  BY <1>2, <1>4, <1>5

(* A message sent goes behind the others.                                  *)
LEMMA SendBytes ==
  ASSUME NEW s \in Seq(Lengths), NEW q \in Seq(Byte), NEW r \in Nat, Stream(q, s, r),
         NEW len \in Lengths
  PROVE  Stream(q \o Bytes(Len(s) + 1, len), Append(s, len), r)
<1> DEFINE n == Len(s)
           ss == Append(s, len)
           B == Bytes(n + 1, len)
           z == HeaderSize + len
           L == Len(q)
           qq == q \o B
<1>1. /\ n \in Nat /\ L \in Nat /\ z \in Nat /\ z >= 1
      /\ DOMAIN q = 1..L /\ len \in Nat
  BY MessageAssumption, LenProperties
<1>2. /\ Len(ss) = n + 1 /\ Size(ss, n + 1) = z
      /\ \A m \in 1..n : Size(ss, m) = Size(s, m)
  BY AppendFacts
<1>3. B \in Seq(Byte) /\ Len(B) = z /\ \A i \in 1..z : B[i] = << n + 1, i >>
  <2>1. n + 1 \in Nat /\ len \in Nat
    BY <1>1
  <2> QED
    BY <2>1, BytesFacts
<1> HIDE DEF n, ss, B, z
<1>4. /\ qq \in Seq(Byte) /\ Len(qq) = L + z
      /\ (\A i \in 1..L : qq[i] = q[i]) /\ \A j \in 1..z : qq[L + j] = B[j]
  <2>1. \A x \in Seq(Byte) :
          /\ q \o x \in Seq(Byte) /\ Len(q \o x) = Len(q) + Len(x)
          /\ \A i \in 1..Len(q) : (q \o x)[i] = q[i]
          /\ \A j \in 1..Len(x) : (q \o x)[Len(q) + j] = x[j]
    OBVIOUS
  <2>2. /\ q \o B \in Seq(Byte) /\ Len(q \o B) = L + Len(B)
        /\ \A i \in 1..L : (q \o B)[i] = q[i]
        /\ \A j \in 1..Len(B) : (q \o B)[L + j] = B[j]
    BY <1>3, <2>1, Zenon
  <2> QED
    BY <1>3, <2>2, Zenon
<1>5. DOMAIN qq = 1..(L + z)
  BY <1>4, LenProperties
<1> HIDE DEF qq, L
<1>6. \A i \in 1..L : qq[i] = q[i]
  BY <1>1, <1>4
<1>7. ASSUME NEW j \in 1..z PROVE qq[L + j] = << n + 1, j >>
  BY <1>3, <1>4
<1>8. /\ \A i \in 1..L : q[i][1] \in 1..n /\ q[i][2] \in 1..Size(s, q[i][1])
      /\ \A i \in 1..L : \A k \in 1..Size(s, q[i][1]) :
           i + k - q[i][2] \in 1..L /\ q[i + k - q[i][2]] = << q[i][1], k >>
      /\ \A i \in 1..L : q[i][2] = Size(s, q[i][1]) /\ i + 1 \in 1..L =>
           q[i + 1] = << q[i][1] + 1, 1 >>
  BY <1>1 DEF Stream, Whole, Consecutive, n
<1>9. \A i \in 1..(L + z) : i \in 1..L \/ \E j \in 1..z : i = L + j
  <2> SUFFICES ASSUME NEW i \in 1..(L + z), i \notin 1..L PROVE \E j \in 1..z : i = L + j
    OBVIOUS
  <2>1. i - L \in 1..z /\ i = L + (i - L)
    BY <1>1
  <2> QED
    BY <2>1
<1>10. Whole(qq, ss)
  <2> SUFFICES ASSUME NEW i \in 1..(L + z)
               PROVE  /\ qq[i][1] \in 1..(n + 1) /\ qq[i][2] \in 1..Size(ss, qq[i][1])
                      /\ \A k \in 1..Size(ss, qq[i][1]) :
                           /\ i + k - qq[i][2] \in 1..(L + z)
                           /\ qq[i + k - qq[i][2]] = << qq[i][1], k >>
    BY <1>2, <1>5 DEF Whole
  <2>1. CASE i \in 1..L
    <3>1. qq[i] = q[i] /\ q[i][1] \in 1..n /\ Size(ss, q[i][1]) = Size(s, q[i][1])
      BY <1>2, <1>6, <1>8, <2>1
    <3>2. ASSUME NEW k \in 1..Size(s, q[i][1])
          PROVE  i + k - q[i][2] \in 1..(L + z) /\ qq[i + k - q[i][2]] = << q[i][1], k >>
      <4>1. i + k - q[i][2] \in 1..L /\ q[i + k - q[i][2]] = << q[i][1], k >>
        BY <1>8, <2>1
      <4> QED
        BY <1>1, <1>6, <4>1
    <3>3. q[i][1] \in 1..(n + 1) /\ q[i][2] \in 1..Size(s, q[i][1])
      BY <1>1, <1>8, <2>1
    <3> QED
      BY <3>1, <3>2, <3>3
  <2>2. CASE \E j \in 1..z : i = L + j
    <3>1. PICK j \in 1..z : i = L + j
      BY <2>2
    <3>2. qq[i] = << n + 1, j >> /\ qq[i][1] = n + 1 /\ qq[i][2] = j
      BY <1>7, <3>1
    <3>3. Size(ss, qq[i][1]) = z
      BY <1>2, <3>2
    <3>4. ASSUME NEW k \in 1..z PROVE i + k - j \in 1..(L + z) /\ qq[i + k - j] = << n + 1, k >>
      <4>1. i + k - j = L + k /\ L + k \in 1..(L + z)
        BY <1>1, <3>1
      <4> QED
        BY <1>7, <4>1
    <3>5. n + 1 \in 1..(n + 1)
      BY <1>1
    <3> QED
      BY <3>2, <3>3, <3>4, <3>5
  <2> QED
    BY <1>9, <2>1, <2>2
<1>11. Consecutive(qq, ss)
  <2> SUFFICES ASSUME NEW i \in 1..(L + z), qq[i][2] = Size(ss, qq[i][1]), i + 1 \in 1..(L + z)
               PROVE  qq[i + 1] = << qq[i][1] + 1, 1 >>
    BY <1>5 DEF Consecutive
  <2>1. CASE i \in 1..L
    <3>1. qq[i] = q[i] /\ q[i][1] \in 1..n /\ Size(ss, q[i][1]) = Size(s, q[i][1])
      BY <1>2, <1>6, <1>8, <2>1
    <3>2. CASE i + 1 \in 1..L
      BY <1>6, <1>8, <2>1, <3>1, <3>2
    <3>3. CASE i + 1 \notin 1..L
      <4>1. i = L
        BY <1>1, <2>1, <3>3
      <4>2. q # << >>
        BY <2>1, EmptySeq DEF L
      <4>3. q[i] = << n, Size(s, n) >>
        BY <4>1, <4>2 DEF Stream, FromTo, L, n
      <4>4. qq[L + 1] = << n + 1, 1 >>
        BY <1>1, <1>7
      <4> QED
        BY <3>1, <4>1, <4>3, <4>4
    <3> QED
      BY <3>2, <3>3
  <2>2. CASE \E j \in 1..z : i = L + j
    <3>1. PICK j \in 1..z : i = L + j
      BY <2>2
    <3>2. qq[i] = << n + 1, j >> /\ qq[i][1] = n + 1 /\ qq[i][2] = j
      BY <1>7, <3>1
    <3>3. j = z
      BY <1>2, <3>2
    <3> QED
      BY <1>1, <3>1, <3>3
  <2> QED
    BY <1>9, <2>1, <2>2
<1>12. FromTo(qq, ss, r)
  <2>1. qq # << >> /\ qq[Len(qq)] = << n + 1, z >>
    <3>1. z \in 1..z /\ Len(qq) = L + z /\ L + z # 0
      BY <1>1, <1>4
    <3>2. qq # << >>
      BY <3>1, EmptySeq
    <3> QED
      BY <1>7, <3>1, <3>2
  <2>2. qq[1] = << r + 1, 1 >>
    <3>1. CASE q = << >>
      <4>1. L = 0 /\ r = n
        BY <3>1, EmptySeq DEF Stream, FromTo, L, n
      <4>2. qq[L + 1] = << n + 1, 1 >> /\ L + 1 = 1
        BY <1>1, <1>7, <4>1
      <4> QED
        BY <4>1, <4>2
    <3>2. CASE q # << >>
      <4>1. q[1] = << r + 1, 1 >>
        BY <3>2 DEF Stream, FromTo
      <4>2. 1 \in 1..L
        BY <3>2, EmptySeq DEF L
      <4> QED
        BY <1>6, <4>1, <4>2
    <3> QED
      BY <3>1, <3>2
  <2> QED
    BY <1>2, <2>1, <2>2 DEF FromTo
<1> QED
  BY <1>10, <1>11, <1>12 DEF Stream, qq, ss, B, n

(* The message at the front is taken.                                      *)
LEMMA TakeBytes ==
  ASSUME NEW s \in Seq(Lengths), NEW q \in Seq(Byte), NEW r \in Nat, Stream(q, s, r),
         q # << >>, NEW qq \in Seq(Byte), Len(qq) = Len(q) - Size(s, r + 1),
         \A i \in 1..Len(qq) : qq[i] = q[Size(s, r + 1) + i]
  PROVE  Stream(qq, s, r + 1)
<1> DEFINE z == Size(s, r + 1)
           L == Len(q)
           n == Len(s)
<1>1. /\ L \in Nat /\ L >= 1 /\ DOMAIN q = 1..L /\ n \in Nat /\ Len(qq) \in Nat
      /\ DOMAIN qq = 1..Len(qq)
  BY EmptySeq, LenProperties
<1>2. /\ r + 1 \in 1..n /\ \A k \in 1..z : k \in 1..L /\ q[k] = << r + 1, k >>
      /\ z \in Nat /\ z >= 1 /\ z <= L
  <2>1. r + 1 \in 1..n /\ \A k \in 1..z : k \in 1..L /\ q[k] = << r + 1, k >>
    BY <1>1, FrontOfStream
  <2>2. z \in Nat /\ z >= 1
    BY <2>1, SizeFacts
  <2> QED
    BY <2>1, <2>2
<1>3. Len(qq) = L - z /\ \A i \in 1..(L - z) : qq[i] = q[z + i]
  OBVIOUS
<1> HIDE DEF z, L, n
<1>4. /\ \A i \in 1..L : /\ q[i][1] \in 1..n /\ q[i][2] \in 1..Size(s, q[i][1])
                         /\ Size(s, q[i][1]) \in Nat /\ Size(s, q[i][1]) >= 1
                         /\ q[i][2] \in Nat /\ q[i][2] >= 1
      /\ \A i \in 1..L : \A k \in 1..Size(s, q[i][1]) :
           i + k - q[i][2] \in 1..L /\ q[i + k - q[i][2]] = << q[i][1], k >>
      /\ \A i \in 1..L : q[i][2] = Size(s, q[i][1]) /\ i + 1 \in 1..L =>
           q[i + 1] = << q[i][1] + 1, 1 >>
  <2>1. ASSUME NEW i \in 1..L PROVE q[i][1] \in 1..n /\ q[i][2] \in 1..Size(s, q[i][1])
    BY <1>1 DEF Stream, Whole, n
  <2>2. ASSUME NEW i \in 1..L
        PROVE  /\ Size(s, q[i][1]) \in Nat /\ Size(s, q[i][1]) >= 1
               /\ q[i][2] \in Nat /\ q[i][2] >= 1
    <3>1. Size(s, q[i][1]) \in Nat /\ Size(s, q[i][1]) >= 1
      BY <2>1, SizeFacts DEF n
    <3> QED
      BY <2>1, <3>1
  <2>3. \A i \in 1..L : \A k \in 1..Size(s, q[i][1]) :
           i + k - q[i][2] \in 1..L /\ q[i + k - q[i][2]] = << q[i][1], k >>
    BY <1>1 DEF Stream, Whole
  <2>4. \A i \in 1..L : q[i][2] = Size(s, q[i][1]) /\ i + 1 \in 1..L =>
           q[i + 1] = << q[i][1] + 1, 1 >>
    BY <1>1 DEF Stream, Consecutive
  <2> QED
    BY <2>1, <2>2, <2>3, <2>4
(* Behind the front, no byte belongs to a message that begins in it.       *)
<1>5. ASSUME NEW i \in (z + 1)..L, NEW k \in 1..Size(s, q[i][1])
      PROVE  i + k - q[i][2] \in (z + 1)..L
  <2>1. i \in 1..L
    BY <1>1, <1>2
  <2> DEFINE o == q[i][2]
  <2>2. o \in Nat /\ o >= 1 /\ k \in Nat /\ k >= 1 /\ 1 \in 1..Size(s, q[i][1])
    BY <1>4, <2>1
  <2>3. i + k - o \in 1..L /\ i + 1 - o \in 1..L /\ q[i + 1 - o] = << q[i][1], 1 >>
    BY <1>4, <2>1, <2>2
  <2> HIDE DEF o
  <2>4. ASSUME i + k - o <= z PROVE FALSE
    <3>1. i + 1 - o \in 1..z
      BY <1>1, <1>2, <2>1, <2>2, <2>3, <2>4
    <3>2. q[i + 1 - o] = << r + 1, i + 1 - o >>
      BY <1>2, <3>1
    <3>3. q[i][1] = r + 1 /\ i + 1 - o = 1
      BY <2>3, <3>2
    <3>4. i = o
      BY <2>1, <2>2, <3>3
    <3>5. o \in 1..z
      BY <1>4, <2>1, <3>3 DEF o, z
    <3> QED
      BY <1>2, <3>4, <3>5
  <2>5. i + k - o \in (z + 1)..L
    BY <1>1, <1>2, <2>1, <2>2, <2>3, <2>4
  <2> QED
    BY <2>5 DEF o
<1>6. Whole(qq, s)
  <2> SUFFICES ASSUME NEW i \in 1..(L - z)
               PROVE  /\ qq[i][1] \in 1..n /\ qq[i][2] \in 1..Size(s, qq[i][1])
                      /\ \A k \in 1..Size(s, qq[i][1]) :
                           /\ i + k - qq[i][2] \in 1..(L - z)
                           /\ qq[i + k - qq[i][2]] = << qq[i][1], k >>
    BY <1>1, <1>3 DEF Whole, n
  <2>1. z + i \in 1..L /\ z + i \in (z + 1)..L /\ qq[i] = q[z + i]
    BY <1>1, <1>2, <1>3
  <2>2. qq[i][1] \in 1..n /\ qq[i][2] \in 1..Size(s, qq[i][1])
    BY <1>4, <2>1
  <2>3. ASSUME NEW k \in 1..Size(s, qq[i][1])
        PROVE  /\ i + k - qq[i][2] \in 1..(L - z)
               /\ qq[i + k - qq[i][2]] = << qq[i][1], k >>
    <3>1. /\ (z + i) + k - q[z + i][2] \in (z + 1)..L
          /\ q[(z + i) + k - q[z + i][2]] = << q[z + i][1], k >>
      <4>1. k \in 1..Size(s, q[z + i][1])
        BY <2>1
      <4> QED
        BY <1>4, <1>5, <2>1, <4>1
    <3> DEFINE o == qq[i][2]
               j == i + k - o
    <3>2. o \in Nat /\ k \in Nat /\ i \in Nat
      <4>1. q[z + i][2] \in Nat /\ Size(s, q[z + i][1]) \in Nat
        BY <1>4, <2>1
      <4>2. o \in Nat /\ Size(s, qq[i][1]) \in Nat
        BY <2>1, <4>1
      <4> QED
        BY <1>1, <1>2, <4>2
    <3>3. z + j \in (z + 1)..L /\ q[z + j] = << q[z + i][1], k >>
      <4>1. o = q[z + i][2]
        BY <2>1
      <4> HIDE DEF o
      <4>2. (z + i) + k - o = z + j
        BY <1>2, <3>2
      <4>3. (z + i) + k - o \in (z + 1)..L /\ q[(z + i) + k - o] = << q[z + i][1], k >>
        BY <3>1, <4>1
      <4> HIDE DEF j
      <4> QED
        BY <4>2, <4>3
    <3> HIDE DEF o
    <3>4. j \in 1..(L - z)
      BY <1>1, <1>2, <3>2, <3>3
    <3> HIDE DEF j
    <3>5. qq[j] = q[z + j]
      BY <1>3, <3>4
    <3>6. qq[j] = << qq[i][1], k >>
      BY <2>1, <3>3, <3>5
    <3> QED
      BY <3>4, <3>6 DEF j, o
  <2> QED
    BY <2>2, <2>3
<1>7. Consecutive(qq, s)
  <2> SUFFICES ASSUME NEW i \in 1..(L - z), qq[i][2] = Size(s, qq[i][1]), i + 1 \in 1..(L - z)
               PROVE  qq[i + 1] = << qq[i][1] + 1, 1 >>
    BY <1>1, <1>3 DEF Consecutive
  <2>1. z + i \in 1..L /\ (z + i) + 1 \in 1..L /\ z + (i + 1) = (z + i) + 1
    BY <1>1, <1>2
  <2>2. qq[i] = q[z + i] /\ qq[i + 1] = q[(z + i) + 1]
    BY <1>3, <2>1
  <2> QED
    BY <1>4, <2>1, <2>2
<1>8. FromTo(qq, s, r + 1)
  <2>1. q[L] = << n, Size(s, n) >>
    BY DEF Stream, FromTo, L, n
  <2>2. CASE L = z
    <3>1. q[L] = << r + 1, z >>
      BY <1>2, <2>2
    <3>2. n = r + 1 /\ qq = << >>
      BY <1>1, <1>3, <2>1, <2>2, <3>1, EmptySeq
    <3> QED
      BY <3>2 DEF FromTo, n
  <2>3. CASE L # z
    <3>1. L - z \in Nat /\ L - z >= 1 /\ qq # << >>
      BY <1>1, <1>2, <1>3, <2>3, EmptySeq
    <3>2. qq[Len(qq)] = << n, Size(s, n) >>
      <4>1. L - z \in 1..(L - z) /\ z + (L - z) = L
        BY <1>1, <1>2, <3>1
      <4> QED
        BY <1>3, <2>1, <4>1
    <3>3. qq[1] = << r + 1 + 1, 1 >>
      <4>1. q[z] = << r + 1, z >> /\ z \in 1..L /\ z + 1 \in 1..L
        BY <1>1, <1>2, <3>1
      <4>2. q[z + 1] = << r + 1 + 1, 1 >>
        <5>1. q[z][1] = r + 1 /\ q[z][2] = z
          BY <4>1
        <5>2. q[z][2] = Size(s, q[z][1])
          BY <5>1 DEF z
        <5>3. q[z + 1] = << q[z][1] + 1, 1 >>
          BY <1>4, <4>1, <5>2
        <5> QED
          BY <5>1, <5>3
      <4> QED
        BY <1>3, <3>1, <4>2
    <3> QED
      BY <3>1, <3>2, <3>3 DEF FromTo, n
  <2> QED
    BY <2>2, <2>3
<1> QED
  BY <1>6, <1>7, <1>8 DEF Stream

(* The receiver's buffer is the front of the stream.                       *)
LEMMA FrontOfInput ==
  ASSUME NEW s \in Seq(Lengths), NEW in \in Seq(Byte), NEW w \in Seq(Byte), NEW r \in Nat,
         Stream(in \o w, s, r), in # << >>
  PROVE  /\ in \o w \in Seq(Byte) /\ in \o w # << >>
         /\ Len(in \o w) = Len(in) + Len(w) /\ \A i \in 1..Len(in) : (in \o w)[i] = in[i]
         /\ r + 1 \in 1..Len(s) /\ in[1] = << r + 1, 1 >>
         /\ Len(in) \in Nat /\ Len(in) >= 1 /\ s[r + 1] \in Nat /\ s[r + 1] \in Lengths
<1>1. /\ in \o w \in Seq(Byte) /\ Len(in \o w) = Len(in) + Len(w)
      /\ \A i \in 1..Len(in) : (in \o w)[i] = in[i]
  OBVIOUS
<1>2. Len(in) \in Nat /\ Len(in) >= 1 /\ Len(w) \in Nat
  BY EmptySeq, LenProperties
<1>3. in \o w # << >>
  <2>1. Len(in \o w) # 0
    BY <1>1, <1>2
  <2> QED
    BY <2>1, EmptySeq
<1>4. r + 1 \in 1..Len(s) /\ (in \o w)[1] = << r + 1, 1 >>
  BY <1>1, <1>3, FrontOfStream
<1>5. in[1] = << r + 1, 1 >>
  BY <1>1, <1>2, <1>4
<1> QED
  BY <1>1, <1>2, <1>3, <1>4, <1>5, SizeFacts

(* Header and body drained together are the bytes of the next message.     *)
LEMMA TakeMessage ==
  ASSUME NEW s \in Seq(Lengths), NEW in \in Seq(Byte), NEW w \in Seq(Byte), NEW r \in Nat,
         Stream(in \o w, s, r), in # << >>,
         NEW n \in Nat, n = HeaderSize + s[r + 1], n <= Len(in)
  PROVE  /\ SubSeq(in, 1, n) = Bytes(r + 1, s[r + 1]) /\ SubSeq(in, 1, n) \in Seq(Byte)
         /\ SubSeq(in, n + 1, Len(in)) \in Seq(Byte)
         /\ Stream(SubSeq(in, n + 1, Len(in)) \o w, s, r + 1)
<1> DEFINE q == in \o w
           m == r + 1
<1>1. /\ q \in Seq(Byte) /\ q # << >> /\ m \in 1..Len(s) /\ m \in Nat /\ s[m] \in Nat
      /\ Len(in) \in Nat /\ Len(w) \in Nat
  BY FrontOfInput, LenProperties
<1>2. n = Size(s, m) /\ n \in 1..Len(in)
  <2>1. Size(s, m) \in Nat /\ Size(s, m) >= 1
    BY <1>1, SizeFacts
  <2> QED
    BY <1>1, <2>1 DEF Size
<1>3. \A k \in 1..n : k \in DOMAIN q /\ q[k] = << m, k >>
  <2> HIDE DEF q
  <2>1. Stream(q, s, r)
    BY DEF q
  <2>2. \A k \in 1..Size(s, r + 1) : k \in DOMAIN q /\ q[k] = << r + 1, k >>
    BY <1>1, <2>1, FrontOfStream
  <2> QED
    BY <1>2, <2>2
<1>4. /\ Len(q) = Len(in) + Len(w) /\ \A i \in 1..Len(in) : q[i] = in[i]
  BY FrontOfInput
<1>5. SubSeq(in, 1, n) = Bytes(m, s[m]) /\ SubSeq(in, 1, n) \in Seq(Byte)
  <2> DEFINE a == SubSeq(in, 1, n)
             b == Bytes(m, s[m])
  <2>1. a \in Seq(Byte) /\ Len(a) = n /\ \A i \in 1..n : a[i] = in[i]
    BY <1>2, Behead
  <2>2. b \in Seq(Byte) /\ Len(b) = n /\ \A i \in 1..n : b[i] = << m, i >>
    BY <1>1, BytesFacts
  <2>3. \A i \in 1..n : in[i] = << m, i >>
    BY <1>1, <1>2, <1>3, <1>4
  <2> HIDE DEF a, b
  <2>4. \A i \in 1..Len(a) : a[i] = b[i]
    BY <2>1, <2>2, <2>3
  <2>5. a = b
    BY <2>1, <2>2, <2>4, SeqEqual
  <2> QED
    BY <2>1, <2>5 DEF a, b
<1> DEFINE t == SubSeq(in, n + 1, Len(in))
           qq == t \o w
<1>6. /\ t \in Seq(Byte) /\ qq \in Seq(Byte) /\ Len(qq) = Len(in) + Len(w) - n
      /\ \A i \in 1..(Len(in) + Len(w) - n) : qq[i] = q[n + i]
  <2>1. \A k \in 1..Len(in) :
          LET x == SubSeq(in, k + 1, Len(in))
          IN  /\ x \in Seq(Byte) /\ x \o w \in Seq(Byte)
              /\ Len(x \o w) = Len(in) + Len(w) - k
              /\ \A i \in 1..(Len(in) + Len(w) - k) : (x \o w)[i] = (in \o w)[k + i]
    BY Behead, SMTT(30)
  <2> QED
    BY <1>2, <2>1, Zenon
<1> HIDE DEF qq, t, q
<1>7. Stream(qq, s, r + 1)
  <2>1. Len(qq) = Len(q) - Size(s, r + 1) /\ \A i \in 1..Len(qq) : qq[i] = q[Size(s, r + 1) + i]
    <3>1. Len(qq) = Len(q) - n
      BY <1>4, <1>6
    <3>2. \A i \in 1..Len(qq) : qq[i] = q[n + i]
      BY <1>6
    <3> QED
      BY <1>2, <3>1, <3>2, Zenon
  <2>2. Stream(q, s, r)
    BY DEF q
  <2> QED
    BY <1>1, <1>6, <2>1, <2>2, TakeBytes
<1> QED
  BY <1>5, <1>6, <1>7 DEF qq, t

-----------------------------------------------------------------------------
(* The invariant.                                                          *)
LEMMA Constants ==
  /\ HeaderSize \in Nat /\ HeaderSize >= 1
  /\ \A len \in Lengths : len \in Nat
  /\ \A n \in ReadSizes : n \in Nat /\ n >= 1
  BY MessageAssumption

LEMMA FramingInitInv == FramingInit => FramingIInv
<1> SUFFICES ASSUME FramingInit PROVE FramingIInv
  OBVIOUS
<1>1. /\ sent = << >> /\ wire = << >> /\ input = << >> /\ received = << >>
      /\ Len(sent) = 0 /\ Len(received) = 0 /\ DOMAIN << >> = {} /\ Rest = << >>
  BY DEF FramingInit, Rest
<1>2. FramingTypeOK
  <2>1. << >> \in Seq(Lengths)
    OBVIOUS
  <2>2. 0 \in {0} \union {HeaderSize + len : len \in Lengths \union {0}}
    OBVIOUS
  <2> QED
    BY <2>1, <2>2, Zenon DEF FramingInit, FramingTypeOK
<1>3. BufferTypes
  BY DEF FramingInit, BufferTypes
<1>4. Stream(Rest, sent, Len(received))
  BY <1>1 DEF Stream, Whole, Consecutive, FromTo
<1>5. Prefix
  BY <1>1 DEF Prefix
<1>6. Waits
  BY Constants DEF FramingInit, Waits
<1>7. NoStall
  BY DEF FramingInit, NoStall
<1> QED
  BY <1>2, <1>3, <1>4, <1>5, <1>6, <1>7 DEF FramingIInv

(* What the receiver may know of its buffer.                               *)
LEMMA Front ==
  ASSUME FramingIInv, input # << >>
  PROVE  /\ Len(received) + 1 \in 1..Len(sent) /\ input[1] = << Len(received) + 1, 1 >>
         /\ Len(input) \in Nat /\ Len(input) >= 1
         /\ sent[Len(received) + 1] \in Nat /\ sent[Len(received) + 1] \in Lengths
<1>1. /\ sent \in Seq(Lengths) /\ input \in Seq(Byte) /\ wire \in Seq(Byte)
      /\ Stream(input \o wire, sent, Len(received)) /\ Len(received) \in Nat
  BY LenProperties DEF FramingIInv, FramingTypeOK, BufferTypes, Rest
<1> QED
  BY <1>1, FrontOfInput

LEMMA SendInv ==
  ASSUME FramingIInv, NEW len \in Lengths, SendMsg(len) PROVE FramingIInv'
<1> DEFINE r == Len(received)
<1>1. /\ sent \in Seq(Lengths) /\ input \in Seq(Byte) /\ wire \in Seq(Byte)
      /\ received \in Seq(Seq(Byte)) /\ r \in Nat /\ Len(sent) \in Nat
      /\ Stream(input \o wire, sent, r) /\ len \in Nat
  BY Constants, LenProperties DEF FramingIInv, FramingTypeOK, BufferTypes, Rest
<1>2. /\ sent' = Append(sent, len) /\ wire' = wire \o Bytes(Len(sent'), len)
      /\ UNCHANGED << input, state, msgLen, lowMark, consuming, received, eof >>
  BY DEF SendMsg
<1>3. /\ Append(sent, len) \in Seq(Lengths) /\ Len(Append(sent, len)) = Len(sent) + 1
      /\ \A m \in 1..Len(sent) : Append(sent, len)[m] = sent[m]
  BY <1>1, AppendFacts
<1>4. Prefix /\ r <= Len(sent) /\ FramingTypeOK /\ Waits /\ NoStall /\ Stream(input \o wire, sent, r)
  BY <1>1 DEF FramingIInv, Prefix
<1>5. wire' \in Seq(Byte) /\ Stream(Rest', sent', r)
  <2> DEFINE q == input \o wire
             B == Bytes(Len(sent) + 1, len)
  <2>1. q \in Seq(Byte) /\ B \in Seq(Byte)
    <3>1. q \in Seq(Byte)
      BY <1>1
    <3>2. Len(sent) + 1 \in Nat
      BY <1>1
    <3> QED
      BY <1>1, <3>1, <3>2, BytesFacts
  <2>2. Stream(q \o B, Append(sent, len), r)
    <3> HIDE DEF q
    <3>1. Stream(q, sent, r)
      BY <1>1 DEF q
    <3> QED
      BY <1>1, <2>1, <3>1, SendBytes
  <2>3. \A x \in Seq(Byte) : wire \o x \in Seq(Byte) /\ (input \o wire) \o x = input \o (wire \o x)
    BY <1>1
  <2>4. wire' = wire \o B
    BY <1>2, <1>3
  <2> HIDE DEF B
  <2>5. wire' \in Seq(Byte) /\ q \o B = Rest'
    BY <1>2, <2>1, <2>3, <2>4, Zenon DEF Rest, q
  <2> QED
    BY <1>2, <2>2, <2>5 DEF B
<1>6. FramingTypeOK' /\ BufferTypes'
  BY <1>1, <1>2, <1>3, <1>4, <1>5 DEF FramingTypeOK, BufferTypes
<1>7. Prefix'
  <2>1. Len(received') = r /\ Len(sent') = Len(sent) + 1
    BY <1>2, <1>3
  <2>2. ASSUME NEW i \in 1..r PROVE received'[i] = Bytes(i, sent'[i])
    <3>1. i \in 1..Len(sent)
      BY <1>1, <1>4
    <3>2. sent'[i] = sent[i]
      BY <1>2, <1>3, <3>1
    <3> QED
      BY <1>2, <1>4, <3>2 DEF Prefix
  <2> QED
    BY <1>1, <1>4, <2>1, <2>2 DEF Prefix
<1>8. input # << >> => r + 1 \in 1..Len(sent) /\ input[1][1] = r + 1 /\ sent'[r + 1] = sent[r + 1]
  <2> SUFFICES ASSUME input # << >>
               PROVE r + 1 \in 1..Len(sent) /\ input[1][1] = r + 1 /\ sent'[r + 1] = sent[r + 1]
    OBVIOUS
  <2>1. r + 1 \in 1..Len(sent) /\ input[1] = << r + 1, 1 >>
    BY Front
  <2> QED
    BY <1>2, <1>3, <2>1
<1>9. Waits'
  <2>1. state = "READ_MSG" => input # << >>
    BY <1>4, Constants, EmptySeq DEF Waits
  <2> QED
    BY <1>2, <1>4, <1>8, <2>1 DEF Waits
<1>10. NoStall'
  BY <1>2, <1>4, <1>8 DEF NoStall
<1> QED
  BY <1>2, <1>5, <1>6, <1>7, <1>9, <1>10 DEF FramingIInv

LEMMA SocketInv ==
  ASSUME FramingIInv, NEW n \in ReadSizes, OnSocketRead(n) PROVE FramingIInv'
<1> DEFINE r == Len(received)
<1>1. /\ sent \in Seq(Lengths) /\ input \in Seq(Byte) /\ wire \in Seq(Byte)
      /\ received \in Seq(Seq(Byte)) /\ r \in Nat /\ Len(sent) \in Nat /\ Len(wire) \in Nat
      /\ Len(input) \in Nat /\ n \in Nat /\ n >= 1
  BY Constants, LenProperties DEF FramingIInv, FramingTypeOK, BufferTypes
<1>2. /\ ~consuming /\ state # "CLOSED" /\ n \in 1..Len(wire)
      /\ input' = input \o SubSeq(wire, 1, n) /\ wire' = SubSeq(wire, n + 1, Len(wire))
      /\ consuming' = (Len(input') >= lowMark)
      /\ UNCHANGED << sent, state, msgLen, lowMark, received, eof >>
  BY <1>1 DEF OnSocketRead, Notifies
<1>3. /\ input' \in Seq(Byte) /\ wire' \in Seq(Byte) /\ Len(input') = Len(input) + n
      /\ Rest' = Rest
  <2>1. /\ SubSeq(wire, 1, n) \in Seq(Byte) /\ SubSeq(wire, n + 1, Len(wire)) \in Seq(Byte)
        /\ input \o SubSeq(wire, 1, n) \in Seq(Byte)
        /\ Len(input \o SubSeq(wire, 1, n)) = Len(input) + n
        /\ (input \o SubSeq(wire, 1, n)) \o SubSeq(wire, n + 1, Len(wire)) = input \o wire
    <3>1. \A s, w \in Seq(Byte) : \A k \in 1..Len(w) :
            /\ SubSeq(w, 1, k) \in Seq(Byte) /\ SubSeq(w, k + 1, Len(w)) \in Seq(Byte)
            /\ s \o SubSeq(w, 1, k) \in Seq(Byte) /\ Len(s \o SubSeq(w, 1, k)) = Len(s) + k
            /\ (s \o SubSeq(w, 1, k)) \o SubSeq(w, k + 1, Len(w)) = s \o w
      BY Regroup, Zenon
    <3>2. input \in Seq(Byte) /\ wire \in Seq(Byte) /\ n \in 1..Len(wire)
      BY <1>1, <1>2
    <3> QED
      BY <3>1, <3>2, Zenon
  <2>2. Rest' = input' \o wire'
    BY DEF Rest
  <2> QED
    BY <1>2, <2>1, <2>2, Zenon DEF Rest
<1>4. FramingTypeOK' /\ BufferTypes'
  BY <1>1, <1>2, <1>3 DEF FramingIInv, FramingTypeOK, BufferTypes
<1>5. Stream(Rest', sent', Len(received')) /\ Prefix'
  BY <1>2, <1>3 DEF FramingIInv, Prefix
<1>6. /\ input' # << >> /\ r + 1 \in 1..Len(sent) /\ input'[1] = << r + 1, 1 >>
      /\ sent[r + 1] \in Nat
  <2>1. Len(input') # 0
    BY <1>1, <1>3
  <2>2. input' # << >>
    BY <2>1, EmptySeq
  <2>3. Stream(input' \o wire', sent, r)
    BY <1>3 DEF FramingIInv, Rest
  <2> QED
    BY <1>1, <1>3, <2>2, <2>3, FrontOfInput
<1>7. Waits'
  <2>1. /\ (state = "READ_HEADER" => msgLen = 0 /\ lowMark <= HeaderSize)
        /\ (state = "READ_MSG" => Len(input) >= HeaderSize /\ msgLen = sent[r + 1]
                                  /\ lowMark = HeaderSize + msgLen)
    BY <1>2 DEF FramingIInv, Waits
  <2>2. state = "READ_MSG" => Len(input') >= HeaderSize
    BY <1>1, <1>3, <2>1, Constants
  <2> QED
    BY <1>2, <2>1, <2>2 DEF Waits
<1>8. NoStall'
  <2> SUFFICES ASSUME ~consuming'
               PROVE  /\ input'[1][2] = 1
                      /\ Len(input') < HeaderSize + sent'[input'[1][1]]
                      /\ lowMark' <= HeaderSize + sent'[input'[1][1]]
    BY DEF NoStall
  <2>1. Len(input') < lowMark /\ lowMark \in Nat
    <3>1. lowMark \in Nat
      BY Constants DEF FramingIInv, FramingTypeOK
    <3>2. ~(Len(input') >= lowMark)
      BY <1>2
    <3>3. Len(input') \in Nat
      BY <1>1, <1>3
    <3> QED
      BY <3>1, <3>2, <3>3
  <2>2. lowMark <= HeaderSize + sent[r + 1]
    <3>1. state \in {"READ_HEADER", "READ_MSG"}
      BY <1>2 DEF FramingIInv, FramingTypeOK
    <3>2. CASE state = "READ_HEADER"
      <4>1. lowMark <= HeaderSize /\ HeaderSize \in Nat /\ sent[r + 1] \in Nat
        BY <1>2, <1>6, <3>2, Constants DEF FramingIInv, Waits
      <4> QED
        BY <2>1, <4>1
    <3>3. CASE state = "READ_MSG"
      <4>1. lowMark = HeaderSize + sent[r + 1]
        BY <1>2, <3>3 DEF FramingIInv, Waits
      <4> QED
        BY <2>1, <4>1
    <3> QED
      BY <3>1, <3>2, <3>3
  <2>3. input'[1][1] = r + 1 /\ input'[1][2] = 1 /\ sent' = sent /\ lowMark' = lowMark
    BY <1>2, <1>6
  <2>4. HeaderSize + sent[r + 1] \in Nat
    BY <1>6, Constants
  <2>5. Len(input') < HeaderSize + sent[r + 1]
    BY <1>1, <1>3, <2>1, <2>2, <2>4
  <2> QED
    BY <2>2, <2>3, <2>5
<1> QED
  BY <1>4, <1>5, <1>7, <1>8 DEF FramingIInv

LEMMA HeaderInv == ASSUME FramingIInv, ReadHeader PROVE FramingIInv'
<1>1. /\ consuming /\ state = "READ_HEADER" /\ Len(input) >= HeaderSize
      /\ msgLen' \in HeaderLen /\ state' = "READ_MSG"
      /\ UNCHANGED << sent, wire, input, lowMark, consuming, received, eof >>
  BY DEF ReadHeader
<1>2. input # << >>
  BY <1>1, Constants, EmptySeq
<1>3. /\ input[1] = << Len(received) + 1, 1 >> /\ sent[Len(received) + 1] \in Lengths
  BY <1>2, Front
<1>4. msgLen' = sent[Len(received) + 1]
  BY <1>1, <1>3 DEF HeaderLen
<1>5. FramingTypeOK' /\ BufferTypes'
  BY <1>1, <1>3, <1>4 DEF FramingIInv, FramingTypeOK, BufferTypes
<1>6. Stream(Rest', sent', Len(received')) /\ Prefix'
  BY <1>1 DEF FramingIInv, Prefix, Rest
<1>7. Waits' /\ NoStall'
  BY <1>1, <1>4 DEF Waits, NoStall
<1> QED
  BY <1>5, <1>6, <1>7 DEF FramingIInv

LEMMA MessageInv == ASSUME FramingIInv, ReadMsg PROVE FramingIInv'
<1> DEFINE r == Len(received)
           n == HeaderSize + msgLen
<1>1. /\ sent \in Seq(Lengths) /\ input \in Seq(Byte) /\ wire \in Seq(Byte)
      /\ received \in Seq(Seq(Byte)) /\ r \in Nat /\ Len(sent) \in Nat /\ Len(input) \in Nat
      /\ msgLen \in Nat /\ n \in Nat
  BY Constants, LenProperties DEF FramingIInv, FramingTypeOK, BufferTypes
<1>2. /\ consuming /\ state = "READ_MSG" /\ Len(input) >= n
      /\ received' = Append(received, SubSeq(input, 1, n))
      /\ input' = SubSeq(input, n + 1, Len(input))
      /\ msgLen' = 0 /\ state' = "READ_HEADER"
      /\ UNCHANGED << sent, wire, lowMark, consuming, eof >>
  BY DEF ReadMsg
<1>3. input # << >> /\ msgLen = sent[r + 1]
  BY <1>1, <1>2, Constants, EmptySeq DEF FramingIInv, Waits
<1>4. r + 1 \in 1..Len(sent)
  BY <1>3, Front
<1>5. /\ SubSeq(input, 1, n) = Bytes(r + 1, sent[r + 1]) /\ SubSeq(input, 1, n) \in Seq(Byte)
      /\ input' \in Seq(Byte) /\ Stream(Rest', sent', r + 1)
  <2>1. n = HeaderSize + sent[r + 1] /\ n <= Len(input)
    BY <1>1, <1>2, <1>3
  <2>2. Stream(input \o wire, sent, r)
    BY DEF FramingIInv, Rest
  <2> HIDE DEF n, r
  <2>3. /\ SubSeq(input, 1, n) = Bytes(r + 1, sent[r + 1]) /\ SubSeq(input, 1, n) \in Seq(Byte)
        /\ SubSeq(input, n + 1, Len(input)) \in Seq(Byte)
        /\ Stream(SubSeq(input, n + 1, Len(input)) \o wire, sent, r + 1)
    BY <1>1, <1>3, <2>1, <2>2, TakeMessage
  <2> QED
    BY <1>2, <2>3 DEF Rest
<1>6. /\ received' \in Seq(Seq(Byte)) /\ Len(received') = r + 1
      /\ \A i \in 1..r : received'[i] = received[i]
      /\ received'[r + 1] = Bytes(r + 1, sent[r + 1])
  <2>1. \A e \in Seq(Byte) :
          /\ Append(received, e) \in Seq(Seq(Byte)) /\ Len(Append(received, e)) = r + 1
          /\ \A i \in 1..r : Append(received, e)[i] = received[i]
          /\ Append(received, e)[r + 1] = e
    BY <1>1, AppendProperties
  <2> QED
    BY <1>2, <1>5, <2>1, Zenon
<1>7. FramingTypeOK' /\ BufferTypes'
  BY <1>1, <1>2, <1>5, <1>6 DEF FramingIInv, FramingTypeOK, BufferTypes
<1>8. Stream(Rest', sent', Len(received'))
  BY <1>5, <1>6
<1>9. Prefix'
  <2>1. ASSUME NEW i \in 1..(r + 1) PROVE received'[i] = Bytes(i, sent'[i])
    <3>1. CASE i \in 1..r
      BY <1>2, <1>6, <3>1 DEF FramingIInv, Prefix
    <3>2. CASE i \notin 1..r
      <4>1. i = r + 1
        BY <1>1, <3>2
      <4> QED
        BY <1>2, <1>6, <4>1
    <3> QED
      BY <3>1, <3>2
  <2>2. sent' = sent /\ Len(received') = r + 1 /\ r + 1 <= Len(sent)
    BY <1>1, <1>2, <1>4, <1>6
  <2>3. \A i \in 1..Len(received') : received'[i] = Bytes(i, sent'[i])
    BY <2>1, <2>2
  <2> QED
    BY <2>2, <2>3 DEF Prefix
<1>10. Waits' /\ NoStall'
  BY <1>2 DEF Waits, NoStall
<1> QED
  BY <1>7, <1>8, <1>9, <1>10 DEF FramingIInv

LEMMA StopInv == ASSUME FramingIInv, StopConsuming PROVE FramingIInv'
<1> DEFINE r == Len(received)
<1>1. /\ consuming /\ consuming' = FALSE /\ lowMark' = HeaderSize + msgLen
      /\ Len(input) < HeaderSize + (IF state = "READ_MSG" THEN msgLen ELSE 0)
      /\ UNCHANGED << sent, wire, input, state, msgLen, received, eof >>
  BY DEF StopConsuming
<1>2. FramingTypeOK' /\ BufferTypes'
  BY <1>1 DEF FramingIInv, FramingTypeOK, BufferTypes
<1>3. Stream(Rest', sent', Len(received')) /\ Prefix'
  BY <1>1 DEF FramingIInv, Prefix, Rest
<1>4. Waits'
  BY <1>1, Constants DEF FramingIInv, Waits
<1>5. NoStall'
  <2> SUFFICES ASSUME input # << >>
               PROVE  /\ input[1][2] = 1
                      /\ Len(input) < HeaderSize + sent[input[1][1]]
                      /\ HeaderSize + msgLen <= HeaderSize + sent[input[1][1]]
    BY <1>1 DEF NoStall
  <2>1. input[1] = << r + 1, 1 >> /\ sent[r + 1] \in Nat /\ Len(input) \in Nat
    BY Front
  <2>2. input[1][1] = r + 1 /\ input[1][2] = 1
    BY <2>1
  <2>3. Len(input) < HeaderSize + sent[r + 1] /\ HeaderSize + msgLen <= HeaderSize + sent[r + 1]
    <3>1. CASE state = "READ_HEADER"
      <4>1. msgLen = 0 /\ Len(input) < HeaderSize + 0
        BY <1>1, <3>1 DEF FramingIInv, Waits
      <4> QED
        BY <2>1, <4>1, Constants
    <3>2. CASE state = "READ_MSG"
      <4>1. msgLen = sent[r + 1] /\ Len(input) < HeaderSize + msgLen
        BY <1>1, <3>2 DEF FramingIInv, Waits
      <4> QED
        BY <2>1, <4>1, Constants
    <3>3. state # "CLOSED"
      BY <1>1 DEF FramingIInv, Waits
    <3> QED
      BY <3>1, <3>2, <3>3 DEF FramingIInv, FramingTypeOK
  <2> QED
    BY <2>2, <2>3
<1> QED
  BY <1>2, <1>3, <1>4, <1>5 DEF FramingIInv

LEMMA CloseInv == ASSUME FramingIInv, PeerCloses \/ OnEOF \/ OnError PROVE FramingIInv'
<1>1. /\ UNCHANGED << sent, wire, input, msgLen, lowMark, consuming, received >>
      /\ eof' \in BOOLEAN
      /\ state' = state \/ (state' = "CLOSED" /\ ~consuming)
  <2>1. CASE PeerCloses
    BY <2>1 DEF PeerCloses
  <2>2. CASE OnEOF \/ OnError
    <3>1. eof \in BOOLEAN
      BY DEF FramingIInv, FramingTypeOK
    <3> QED
      BY <2>2, <3>1 DEF OnEOF, OnError
  <2> QED
    BY <2>1, <2>2
<1>2. FramingTypeOK' /\ BufferTypes'
  BY <1>1 DEF FramingIInv, FramingTypeOK, BufferTypes
<1>3. Stream(Rest', sent', Len(received')) /\ Prefix'
  BY <1>1 DEF FramingIInv, Prefix, Rest
<1>4. Waits' /\ NoStall'
  BY <1>1 DEF FramingIInv, Waits, NoStall
<1> QED
  BY <1>2, <1>3, <1>4 DEF FramingIInv

LEMMA FramingNextInv == FramingIInv /\ [FramingNext]_framingVars => FramingIInv'
<1> SUFFICES ASSUME FramingIInv, [FramingNext]_framingVars PROVE FramingIInv'
  OBVIOUS
<1>1. ASSUME NEW len \in Lengths, SendMsg(len) PROVE FramingIInv'
  BY <1>1, SendInv
<1>2. ASSUME NEW n \in ReadSizes, OnSocketRead(n) PROVE FramingIInv'
  BY <1>2, SocketInv
<1>3. CASE ReadHeader
  BY <1>3, HeaderInv
<1>4. CASE ReadMsg
  BY <1>4, MessageInv
<1>5. CASE StopConsuming
  BY <1>5, StopInv
<1>6. CASE PeerCloses \/ OnEOF \/ OnError
  BY <1>6, CloseInv
<1>7. CASE UNCHANGED framingVars
  BY <1>7 DEF framingVars, FramingIInv, FramingTypeOK, BufferTypes, Prefix, Rest, Waits, NoStall
<1> QED
  BY <1>1, <1>2, <1>3, <1>4, <1>5, <1>6, <1>7 DEF FramingNext, Reading

(* However the bytes are cut: what the receiver has, waits for and has on   *)
(* its way stays in step with the messages sent.                           *)
THEOREM FramingInv == FramingSpec => []FramingIInv
<1>1. FramingSpec => FramingInit /\ [][FramingNext]_framingVars
  BY PTL DEF FramingSpec
<1> QED
  BY <1>1, FramingInitInv, FramingNextInv, PTL

(* Whatever pieces the socket reads and whatever the lengths of the        *)
(* messages: when _consume_input is not running, the receiver's buffer     *)
(* holds no complete message, and the watermark does not exceed what       *)
(* completes the one it holds.                                             *)
THEOREM NeverStalls == FramingSpec => []NoStall
<1>1. FramingIInv => NoStall
  BY DEF FramingIInv
<1> QED
  BY <1>1, FramingInv, PTL

-----------------------------------------------------------------------------
(* The refinement: the first r messages sent, seen whole.                  *)
Numbered(s, r) == [i \in 1..r |-> << i, s[i] >>]

LEMMA NumberedFacts ==
  \A s \in Seq(Lengths) : \A r \in 0..Len(s) :
    /\ Numbered(s, r) \in Seq(Nat \X Lengths) /\ Len(Numbered(s, r)) = r
    /\ \A i \in 1..r : Numbered(s, r)[i] = << i, s[i] >>
<1> TAKE s \in Seq(Lengths)
<1> TAKE r \in 0..Len(s)
<1>1. r \in Nat /\ \A i \in 1..r : i \in Nat /\ s[i] \in Lengths
  BY ElementOfSeq
<1> DEFINE e == [i \in 1..r |-> << i, s[i] >>]
<1>2. e \in [1..r -> Nat \X Lengths] /\ \A i \in 1..r : e[i] = << i, s[i] >>
  BY <1>1
<1> HIDE DEF e
<1>3. e \in Seq(Nat \X Lengths)
  BY <1>1, <1>2, SeqDef
<1>4. Len(e) = r
  BY <1>1, <1>2, <1>3, LenProperties
<1> QED
  BY <1>2, <1>3, <1>4 DEF Numbered, e

(* Sending appends to what was sent and changes nothing before it.         *)
LEMMA NumberedAppend ==
  \A s \in Seq(Lengths) : \A len \in Lengths :
    /\ Numbered(Append(s, len), Len(s) + 1) = Append(Numbered(s, Len(s)), << Len(s) + 1, len >>)
    /\ \A r \in 0..Len(s) : Numbered(Append(s, len), r) = Numbered(s, r)
<1> TAKE s \in Seq(Lengths)
<1> TAKE len \in Lengths
<1> DEFINE n == Len(s)
           ss == Append(s, len)
<1>1. /\ n \in Nat /\ ss \in Seq(Lengths) /\ Len(ss) = n + 1
      /\ (\A m \in 1..n : ss[m] = s[m]) /\ ss[n + 1] = len
  BY AppendFacts, LenProperties
<1> HIDE DEF n, ss
<1>2. ASSUME NEW r \in 0..n PROVE Numbered(ss, r) = Numbered(s, r)
  <2>1. \A i \in 1..r : ss[i] = s[i]
    BY <1>1
  <2> QED
    BY <2>1 DEF Numbered
<1>3. Numbered(ss, n + 1) = Append(Numbered(s, n), << n + 1, len >>)
  <2> DEFINE T == Nat \X Lengths
             a == Numbered(ss, n + 1)
             b == Numbered(s, n)
             e == << n + 1, len >>
             c == Append(b, e)
  <2>1. a \in Seq(T) /\ Len(a) = n + 1 /\ \A i \in 1..(n + 1) : a[i] = << i, ss[i] >>
    <3>1. n + 1 \in 0..Len(ss)
      BY <1>1
    <3> QED
      BY <1>1, <3>1, NumberedFacts, Zenon
  <2>2. b \in Seq(T) /\ Len(b) = n /\ \A i \in 1..n : b[i] = << i, s[i] >>
    <3>1. n \in 0..Len(s)
      BY <1>1 DEF n
    <3> QED
      BY <3>1, NumberedFacts, Zenon
  <2>3. e \in T
    BY <1>1
  <2> HIDE DEF T, a, b, e
  <2>4. /\ c \in Seq(T) /\ Len(c) = n + 1 /\ \A i \in 1..n : c[i] = b[i]
        /\ c[n + 1] = e
    BY <1>1, <2>2, <2>3, AppendProperties
  <2> HIDE DEF c
  <2>5. ASSUME NEW i \in 1..(n + 1) PROVE a[i] = c[i]
    <3>1. CASE i \in 1..n
      BY <1>1, <2>1, <2>2, <2>4, <3>1
    <3>2. CASE i \notin 1..n
      <4>1. i = n + 1
        BY <1>1, <3>2
      <4> QED
        BY <1>1, <2>1, <2>4, <4>1 DEF e
    <3> QED
      BY <3>1, <3>2
  <2>6. a = c
    BY <2>1, <2>4, <2>5, SeqEqual
  <2> QED
    BY <2>6 DEF a, b, c, e
<1> QED
  BY <1>2, <1>3 DEF n, ss

(* Receiving appends the next of those sent.                               *)
LEMMA NumberedNext ==
  \A s \in Seq(Lengths) : \A r \in 0..Len(s) : r + 1 <= Len(s) =>
    Numbered(s, r + 1) = Append(Numbered(s, r), Numbered(s, Len(s))[r + 1])
<1> TAKE s \in Seq(Lengths)
<1> TAKE r \in 0..Len(s)
<1> HAVE r + 1 <= Len(s)
<1> DEFINE T == Nat \X Lengths
           a == Numbered(s, r + 1)
           b == Numbered(s, r)
           e == Numbered(s, Len(s))[r + 1]
           c == Append(b, e)
<1>1. /\ r \in Nat /\ Len(s) \in Nat /\ r + 1 \in 0..Len(s) /\ Len(s) \in 0..Len(s)
      /\ r + 1 \in 1..Len(s) /\ r + 1 \in Nat
  BY LenProperties
<1>2. a \in Seq(T) /\ Len(a) = r + 1 /\ \A i \in 1..(r + 1) : a[i] = << i, s[i] >>
  BY <1>1, NumberedFacts, Zenon
<1>3. b \in Seq(T) /\ Len(b) = r /\ \A i \in 1..r : b[i] = << i, s[i] >>
  BY NumberedFacts, Zenon
<1>4. e = << r + 1, s[r + 1] >>
  BY <1>1, NumberedFacts, Zenon
<1>5. e \in T
  BY <1>1, <1>4, SizeFacts
<1> HIDE DEF T, a, b, e
<1>6. /\ c \in Seq(T) /\ Len(c) = r + 1 /\ \A i \in 1..r : c[i] = b[i]
      /\ c[r + 1] = e
  BY <1>3, <1>5, AppendProperties
<1> HIDE DEF c
<1>7. ASSUME NEW i \in 1..(r + 1) PROVE a[i] = c[i]
  <2>1. CASE i \in 1..r
    BY <1>1, <1>2, <1>3, <1>6, <2>1
  <2>2. CASE i \notin 1..r
    <3>1. i = r + 1
      BY <1>1, <2>2
    <3> QED
      BY <1>1, <1>2, <1>4, <1>6, <3>1
  <2> QED
    BY <2>1, <2>2
<1>8. a = c
  BY <1>2, <1>6, <1>7, SeqEqual
<1> QED
  BY <1>8 DEF a, b, c, e

(* The mapped queue of MessageFifo.                                        *)
SentNow == [i \in 1..Len(sent) |-> << i, sent[i] >>]
IsOpen  == state # "CLOSED"

LEMMA SeenWhole ==
  FramingIInv => SentNow = Numbered(sent, Len(sent)) /\ Delivered = Numbered(sent, Len(received))
  BY DEF FramingIInv, Prefix, SentNow, Delivered, Numbered

LEMMA InitFifo == FramingInit => Fifo!Init
  BY DEF FramingInit, Fifo!Init, Delivered

LEMMA StepFifo ==
  FramingIInv /\ FramingIInv' /\ [FramingNext]_framingVars => [Fifo!Next]_<< SentNow, Delivered, IsOpen >>
<1> SUFFICES ASSUME FramingIInv, FramingIInv', [FramingNext]_framingVars
             PROVE  [Fifo!Next]_<< SentNow, Delivered, IsOpen >>
  OBVIOUS
<1> DEFINE r == Len(received)
           n == Len(sent)
<1>1. /\ sent \in Seq(Lengths) /\ r \in 0..n /\ n \in Nat /\ r \in Nat
      /\ received \in Seq(Seq(Byte))
  BY LenProperties DEF FramingIInv, FramingTypeOK, BufferTypes, Prefix
<1>2. /\ SentNow = Numbered(sent, n) /\ Delivered = Numbered(sent, r)
      /\ SentNow' = Numbered(sent', Len(sent')) /\ Delivered' = Numbered(sent', Len(received'))
  <2>1. SentNow = Numbered(sent, n) /\ Delivered = Numbered(sent, r)
    BY SeenWhole
  <2>2. SentNow' = Numbered(sent', Len(sent')) /\ Delivered' = Numbered(sent', Len(received'))
    BY DEF FramingIInv, Prefix, SentNow, Delivered, Numbered
  <2> QED
    BY <2>1, <2>2
<1>3. ASSUME NEW len \in Lengths, SendMsg(len) PROVE Fifo!Next
  <2>1. /\ sent' = Append(sent, len) /\ received' = received /\ state' = state /\ n < MaxMessages
        /\ Len(sent') = n + 1
    BY <1>1, <1>3, AppendFacts DEF SendMsg
  <2>2. << n + 1, len >> \in (1..MaxMessages) \X Lengths
    BY <1>1, <2>1, MessageAssumption
  <2>3. SentNow' = Append(SentNow, << n + 1, len >>)
    BY <1>1, <1>2, <2>1, NumberedAppend, Zenon
  <2>4. Delivered' = Delivered
    BY <1>1, <1>2, <2>1, NumberedAppend, Zenon
  <2> QED
    BY <2>1, <2>2, <2>3, <2>4 DEF Fifo!Next, Fifo!Send, SentNow
<1>4. ASSUME ReadMsg PROVE Fifo!Next
  <2>1. /\ sent' = sent /\ state = "READ_MSG" /\ state' = "READ_HEADER"
        /\ received' = Append(received, SubSeq(input, 1, HeaderSize + msgLen))
    BY <1>4 DEF ReadMsg
  <2>2. Len(received') = r + 1 /\ r + 1 <= n
    <3>1. Len(received') <= n
      BY <2>1 DEF FramingIInv, Prefix
    <3>2. Len(received') = r + 1
      BY <1>1, <2>1, AppendProperties
    <3> QED
      BY <3>1, <3>2
  <2>3. SentNow' = SentNow /\ Len(Delivered) = r /\ Len(SentNow) = n
    <3>1. n \in 0..n
      BY <1>1
    <3>2. Len(Numbered(sent, r)) = r /\ Len(Numbered(sent, n)) = n
      BY <1>1, <3>1, NumberedFacts, Zenon
    <3> QED
      BY <1>2, <2>1, <3>2, Zenon
  <2>4. Delivered' = Append(Delivered, SentNow[Len(Delivered) + 1])
    BY <1>1, <1>2, <2>1, <2>2, <2>3, NumberedNext, Zenon
  <2>5. Len(Delivered) < Len(SentNow)
    BY <1>1, <2>2, <2>3
  <2> QED
    BY <2>1, <2>3, <2>4, <2>5 DEF Fifo!Next, Fifo!Receive, SentNow
<1>5. ASSUME OnEOF \/ OnError PROVE Fifo!Next
  <2>1. sent' = sent /\ received' = received /\ state # "CLOSED" /\ state' = "CLOSED"
    BY <1>5 DEF OnEOF, OnError
  <2>2. SentNow' = SentNow /\ Delivered' = Delivered
    BY <1>2, <2>1
  <2> QED
    BY <2>1, <2>2 DEF Fifo!Next, Fifo!Close, SentNow
<1>6. ASSUME \/ Reading \/ ReadHeader \/ StopConsuming \/ PeerCloses \/ UNCHANGED framingVars
      PROVE  UNCHANGED << SentNow, Delivered, IsOpen >>
  <2>1. sent' = sent /\ received' = received
    BY <1>6 DEF Reading, OnSocketRead, ReadHeader, StopConsuming, PeerCloses, framingVars
  <2>2. IsOpen' = IsOpen
    BY <1>6 DEF Reading, OnSocketRead, ReadHeader, StopConsuming, PeerCloses, framingVars, IsOpen
  <2>3. SentNow' = SentNow /\ Delivered' = Delivered
    BY <1>2, <2>1
  <2> QED
    BY <2>2, <2>3
<1> QED
  BY <1>3, <1>4, <1>5, <1>6 DEF FramingNext

(* Nothing is lost, repeated, reordered or cut, however the bytes are read: *)
(* seen whole, the messages are a queue that delivers while it is open.    *)
(* That the queue delivers what it holds is left to the runs.              *)
THEOREM ChannelIsFifo == FramingSpec => Fifo!Init /\ [][Fifo!Next]_<< SentNow, Delivered, IsOpen >>
<1>1. FramingSpec => FramingInit /\ [][FramingNext]_framingVars
  BY PTL DEF FramingSpec
<1> QED
  BY <1>1, FramingInv, InitFifo, StepFifo, PTL

-----------------------------------------------------------------------------
(* Calls on a message channel.                                             *)

Once(q) == \A i, j \in DOMAIN q : q[i] = q[j] => i = j

(* Where the ids are while the connection is up: each in one place of one  *)
(* queue or with the server, and known to the client.                      *)
Places ==
  up => /\ Once(calls) /\ Once(replies)
        /\ Range(calls) \cap Range(replies) = {}
        /\ serving \cap (Range(calls) \union Range(replies)) = {}
        /\ pending \union timedOut
             = serving \union Range(calls) \union (Range(replies) \ {0})

(* Ids are used once: those in use, and those of calls that have ended,    *)
(* are below the next one.                                                 *)
Fresh ==
  /\ nextId % 2 = 1
  /\ \A c \in pending \union timedOut : c < nextId
  /\ \A c \in CallId : outcome[c] # << >> => c < nextId

(* A call waits, or its callback has been called, once; an id is           *)
(* remembered only after the callback.                                     *)
EndedOnce ==
  \A c \in CallId :
    /\ Len(outcome[c]) <= 1
    /\ c \in pending => outcome[c] = << >>
    /\ c \in timedOut => outcome[c] # << >>

(* The inductive invariant.                                                *)
IInv == TypeOK /\ NeverTakenForCall /\ Places /\ Fresh /\ EndedOnce

-----------------------------------------------------------------------------
(* Queues in which an element occurs once.                                 *)
LEMMA AppendOnce ==
  ASSUME NEW S, NEW q \in Seq(S), NEW e \in S, Once(q), e \notin Range(q)
  PROVE  Once(Append(q, e)) /\ Range(Append(q, e)) = Range(q) \union {e}
<1>1. /\ Append(q, e) \in Seq(S) /\ Len(Append(q, e)) = Len(q) + 1
      /\ \A i \in 1..Len(q) : Append(q, e)[i] = q[i]
      /\ Append(q, e)[Len(q) + 1] = e
  BY AppendProperties
<1>2. DOMAIN q = 1..Len(q) /\ DOMAIN Append(q, e) = 1..(Len(q) + 1) /\ Len(q) \in Nat
  BY <1>1
<1>3. \A i \in 1..Len(q) : q[i] # e
  BY <1>2 DEF Range
<1>4. Once(Append(q, e))
  BY <1>1, <1>2, <1>3 DEF Once
<1>5. Range(Append(q, e)) = Range(q) \union {e}
  BY <1>1, <1>2 DEF Range
<1> QED
  BY <1>4, <1>5

LEMMA TailOnce ==
  ASSUME NEW S, NEW q \in Seq(S), q # << >>, Once(q)
  PROVE  /\ Once(Tail(q)) /\ Range(Tail(q)) = Range(q) \ {Head(q)}
         /\ Head(q) \in Range(q)
<1>1. /\ Tail(q) \in Seq(S) /\ Len(Tail(q)) = Len(q) - 1
      /\ \A i \in 1..Len(Tail(q)) : Tail(q)[i] = q[i + 1]
  BY HeadTailProperties
<1>2. /\ DOMAIN q = 1..Len(q) /\ DOMAIN Tail(q) = 1..(Len(q) - 1)
      /\ Len(q) \in Nat /\ Len(q) > 0 /\ Head(q) = q[1]
  BY <1>1
<1>3. Once(Tail(q))
  BY <1>1, <1>2 DEF Once
<1>4. \A i \in 2..Len(q) : q[i] = Tail(q)[i - 1] /\ q[i] # q[1]
  BY <1>1, <1>2 DEF Once
<1>5. Head(q) \in Range(q)
  BY <1>2 DEF Range
<1>6. \A x \in Range(Tail(q)) : x \in Range(q) \ {Head(q)}
  <2> SUFFICES ASSUME NEW i \in DOMAIN Tail(q) PROVE Tail(q)[i] \in Range(q) \ {Head(q)}
    BY DEF Range
  <2>1. i + 1 \in 2..Len(q) /\ Tail(q)[i] = q[i + 1]
    BY <1>1, <1>2
  <2> QED
    BY <1>2, <1>4, <2>1 DEF Range
<1>7. \A x \in Range(q) \ {Head(q)} : x \in Range(Tail(q))
  <2> SUFFICES ASSUME NEW i \in DOMAIN q, q[i] # q[1] PROVE q[i] \in Range(Tail(q))
    BY <1>2 DEF Range
  <2>1. i \in 2..Len(q) /\ i - 1 \in DOMAIN Tail(q)
    BY <1>2
  <2> QED
    BY <1>4, <2>1 DEF Range
<1> QED
  BY <1>3, <1>5, <1>6, <1>7

LEMMA CountOnce ==
  ASSUME NEW q, NEW c, Once(q)
  PROVE  Cardinality({i \in DOMAIN q : q[i] = c}) = IF c \in Range(q) THEN 1 ELSE 0
<1>1. CASE c \in Range(q)
  <2>1. PICK j \in DOMAIN q : q[j] = c
    BY <1>1 DEF Range
  <2>2. {i \in DOMAIN q : q[i] = c} = {j}
    BY <2>1 DEF Once
  <2> QED
    BY <1>1, <2>2, FS_Singleton
<1>2. CASE c \notin Range(q)
  <2>1. {i \in DOMAIN q : q[i] = c} = {}
    BY <1>2 DEF Range
  <2> QED
    BY <1>2, <2>1, FS_EmptySet
<1> QED
  BY <1>1, <1>2

(* Ids.                                                                    *)
LEMMA Ids == CallId \subseteq Nat /\ 0 \notin CallId
  BY IpcAssumption DEF CallId

LEMMA NextIsId ==
  ASSUME nextId \in Nat, nextId % 2 = 1, nextId < 2 * MaxCalls
  PROVE  nextId \in CallId /\ nextId + 2 \in Nat /\ (nextId + 2) % 2 = 1
<1> DEFINE k == (nextId + 1) \div 2
<1>1. k \in 1..MaxCalls /\ nextId = 2 * k - 1
  BY IpcAssumption
<1>2. nextId \in CallId
  BY <1>1 DEF CallId
<1> QED
  BY <1>2

LEMMA InitInv == Init => IInv
<1> SUFFICES ASSUME Init PROVE IInv
  OBVIOUS
<1>1. TypeOK /\ NeverTakenForCall
  BY DEF Init, TypeOK, NeverTakenForCall
<1>2. Places
  BY DEF Init, Places, Once, Range
<1>3. Fresh /\ EndedOnce
  BY DEF Init, Fresh, EndedOnce
<1> QED
  BY <1>1, <1>2, <1>3 DEF IInv

-----------------------------------------------------------------------------
New(again) == IF again THEN {nextId} ELSE {}

(* The id of a new call is found nowhere.                                  *)
LEMMA NewIsNew ==
  ASSUME IInv, CanCall
  PROVE  /\ nextId \in CallId /\ outcome[nextId] = << >>
         /\ nextId \notin pending \union timedOut \union serving
         /\ nextId \notin Range(calls) \union Range(replies)
         /\ nextId + 2 \in Nat /\ (nextId + 2) % 2 = 1
<1>1. nextId \in CallId /\ nextId + 2 \in Nat /\ (nextId + 2) % 2 = 1
  BY NextIsId DEF IInv, TypeOK, Fresh, CanCall
<1>2. nextId \notin pending \union timedOut /\ outcome[nextId] = << >>
  BY <1>1, Ids DEF IInv, Fresh
<1>3. nextId # 0
  BY <1>1, Ids
<1> QED
  BY <1>1, <1>2, <1>3 DEF IInv, Places, CanCall

(* What a step that may make a call does to the queue and the table, pend  *)
(* being what is left in the table.                                        *)
LEMMA CallFacts ==
  ASSUME IInv, NEW pend \in SUBSET pending, NEW again \in BOOLEAN,
         IF again THEN CanCall /\ CallWith(pend) ELSE NoCallWith(pend)
  PROVE  /\ nextId' \in Nat /\ nextId' % 2 = 1 /\ nextId' >= nextId
         /\ pending' = pend \union New(again) /\ pending' \subseteq CallId
         /\ calls' \in Seq(CallId)
         /\ up => Once(calls') /\ Range(calls') = Range(calls) \union New(again)
         /\ New(again) \subseteq CallId
         /\ \A c \in New(again) :
              /\ c < nextId' /\ outcome[c] = << >>
              /\ c \notin pending \union timedOut \union serving
              /\ c \notin Range(calls) \union Range(replies)
<1>1. CASE again
  <2>1. /\ nextId' = nextId + 2 /\ pending' = pend \union {nextId}
        /\ calls' = Append(calls, nextId) /\ CanCall /\ up
    BY <1>1 DEF CallWith, CanCall
  <2>2. nextId \in Nat /\ calls \in Seq(CallId) /\ pending \subseteq CallId /\ Once(calls)
    BY <2>1 DEF IInv, TypeOK, Places
  <2>3. Once(calls') /\ Range(calls') = Range(calls) \union {nextId}
    BY <2>1, <2>2, NewIsNew, AppendOnce
  <2>4. calls' \in Seq(CallId)
    BY <2>1, <2>2, NewIsNew
  <2> QED
    BY <1>1, <2>1, <2>2, <2>3, <2>4, NewIsNew DEF New
<1>2. CASE ~again
  BY <1>2 DEF NoCallWith, New, IInv, TypeOK, Places, Fresh
<1> QED
  BY <1>1, <1>2

(* The callback of a pending call runs.                                    *)
LEMMA CallbackFacts ==
  ASSUME IInv, NEW id \in pending, NEW st \in {"RECV", "TIMEDOUT"},
         NEW again \in BOOLEAN, RunCallback(id, st, again)
  PROVE  /\ outcome' \in [CallId -> Seq({"RECV", "TIMEDOUT"})]
         /\ outcome' = [outcome EXCEPT ![id] = << st >>]
         /\ IF again THEN CanCall /\ CallWith(pending \ {id})
                     ELSE NoCallWith(pending \ {id})
<1>1. outcome[id] = << >> /\ id \in CallId
  BY DEF IInv, TypeOK, EndedOnce
<1>2. Append(outcome[id], st) = << st >>
  BY <1>1
<1>3. outcome' = [outcome EXCEPT ![id] = << st >>]
  BY <1>2 DEF RunCallback
<1>4. << st >> \in Seq({"RECV", "TIMEDOUT"})
  OBVIOUS
<1>5. outcome' \in [CallId -> Seq({"RECV", "TIMEDOUT"})]
  BY <1>1, <1>3, <1>4 DEF IInv, TypeOK
<1> QED
  BY <1>3, <1>5 DEF RunCallback

(* Whichever ends a call: no id is used again and no callback is called    *)
(* twice.                                                                  *)
LEMMA CallbackEnds ==
  ASSUME IInv, NEW id \in pending, NEW st \in {"RECV", "TIMEDOUT"},
         NEW again \in BOOLEAN, RunCallback(id, st, again),
         timedOut' \subseteq timedOut \union {id}
  PROVE  Fresh' /\ EndedOnce'
<1> DEFINE pend == pending \ {id}
<1>1. /\ nextId' \in Nat /\ nextId' % 2 = 1 /\ nextId' >= nextId
      /\ pending' = pend \union New(again) /\ New(again) \subseteq CallId
      /\ \A c \in New(again) : c < nextId' /\ outcome[c] = << >>
                               /\ c \notin pending \union timedOut
  <2>1. pend \in SUBSET pending
    OBVIOUS
  <2>2. IF again THEN CanCall /\ CallWith(pend) ELSE NoCallWith(pend)
    BY CallbackFacts
  <2> HIDE DEF pend
  <2> QED
    BY <2>1, <2>2, CallFacts
<1>2. outcome' = [outcome EXCEPT ![id] = << st >>]
  BY CallbackFacts
<1>3. /\ nextId \in Nat /\ outcome \in [CallId -> Seq({"RECV", "TIMEDOUT"})]
      /\ pending \subseteq CallId /\ timedOut \subseteq CallId /\ Fresh /\ EndedOnce
  BY DEF IInv, TypeOK
<1>4. Len(<< st >>) = 1 /\ << st >> # << >>
  OBVIOUS
<1>5. /\ outcome'[id] = << st >>
      /\ \A c \in CallId \ {id} : outcome'[c] = outcome[c]
  BY <1>2, <1>3
<1>6. Fresh'
  <2>1. \A c \in pending \union timedOut : c < nextId'
    BY <1>1, <1>3, Ids DEF Fresh
  <2>2. \A c \in (pending \union timedOut)' : c < nextId'
    BY <1>1, <2>1
  <2>3. \A c \in CallId : outcome'[c] # << >> => c < nextId'
    BY <1>1, <1>3, <1>5, <2>1, Ids DEF Fresh
  <2> QED
    BY <1>1, <2>2, <2>3 DEF Fresh
<1>7. EndedOnce'
  <2> SUFFICES ASSUME NEW c \in CallId
               PROVE  /\ Len(outcome'[c]) <= 1
                      /\ c \in pending' => outcome'[c] = << >>
                      /\ c \in timedOut' => outcome'[c] # << >>
    BY DEF EndedOnce
  <2>1. CASE c = id
    <3>1. c \notin pending'
      BY <1>1, <2>1
    <3>2. outcome'[c] = << st >>
      BY <1>5, <2>1
    <3> QED
      BY <1>4, <3>1, <3>2
  <2>2. CASE c # id
    BY <1>1, <1>3, <1>5, <2>2 DEF EndedOnce
  <2> QED
    BY <2>1, <2>2
<1> QED
  BY <1>6, <1>7

-----------------------------------------------------------------------------
LEMMA MakeCallInv == IInv /\ MakeCall => IInv'
<1> SUFFICES ASSUME IInv, MakeCall PROVE IInv'
  OBVIOUS
<1>1. /\ nextId' \in Nat /\ nextId' % 2 = 1 /\ nextId' >= nextId
      /\ pending' = pending \union New(TRUE) /\ pending' \subseteq CallId
      /\ calls' \in Seq(CallId)
      /\ up => Once(calls') /\ Range(calls') = Range(calls) \union New(TRUE)
      /\ \A c \in New(TRUE) :
           /\ c \in CallId /\ c < nextId' /\ outcome[c] = << >>
           /\ c \notin pending \union timedOut \union serving
           /\ c \notin Range(calls) \union Range(replies)
  BY CallFacts DEF MakeCall
<1>2. UNCHANGED << timedOut, replies, serving, outcome, up, checkOk >>
  BY DEF MakeCall
<1>3. TypeOK' /\ NeverTakenForCall'
  BY <1>1, <1>2 DEF IInv, TypeOK, NeverTakenForCall
<1>4. Places'
  BY <1>1, <1>2, Ids DEF IInv, Places
<1>5. Fresh'
  <2>1. nextId \in Nat /\ pending \union timedOut \subseteq CallId /\ Fresh
    BY DEF IInv, TypeOK
  <2>2. \A c \in CallId : c < nextId => c < nextId'
    BY <1>1, <2>1, Ids
  <2>3. \A c \in (pending \union timedOut)' : c < nextId'
    BY <1>1, <1>2, <2>1, <2>2 DEF Fresh
  <2>4. \A c \in CallId : outcome'[c] # << >> => c < nextId'
    BY <1>2, <2>1, <2>2 DEF Fresh
  <2> QED
    BY <1>1, <2>3, <2>4 DEF Fresh
<1>6. EndedOnce'
  BY <1>1, <1>2 DEF IInv, EndedOnce
<1> QED
  BY <1>3, <1>4, <1>5, <1>6 DEF IInv

LEMMA RecvReplyInv ==
  ASSUME IInv, NEW again \in BOOLEAN, RecvReply(again)
  PROVE  IInv'
<1> DEFINE id == Head(replies)
           pend == pending \ {id}
<1>1. /\ up /\ id \in pending /\ RunCallback(id, "RECV", again)
      /\ replies' = Tail(replies) /\ replies # << >>
      /\ UNCHANGED << timedOut, serving, up, checkOk >>
  BY DEF RecvReply
<1>2. /\ Once(replies') /\ Range(replies') = Range(replies) \ {id}
      /\ id \in Range(replies) /\ replies' \in Seq(CallId \union {0})
  BY <1>1, TailOnce DEF IInv, TypeOK, Places
<1>3. outcome' \in [CallId -> Seq({"RECV", "TIMEDOUT"})]
  BY <1>1, CallbackFacts
<1>4. /\ nextId' \in Nat
      /\ pending' = pend \union New(again) /\ pending' \subseteq CallId
      /\ calls' \in Seq(CallId)
      /\ Once(calls') /\ Range(calls') = Range(calls) \union New(again)
      /\ New(again) \subseteq CallId
      /\ New(again) \cap (pending \union timedOut \union serving) = {}
      /\ New(again) \cap (Range(calls) \union Range(replies)) = {}
  <2>1. pend \in SUBSET pending
    OBVIOUS
  <2>2. IF again THEN CanCall /\ CallWith(pend) ELSE NoCallWith(pend)
    BY <1>1, CallbackFacts
  <2> HIDE DEF pend
  <2> QED
    BY <1>1, <2>1, <2>2, CallFacts
<1>5. Fresh' /\ EndedOnce'
  BY <1>1, CallbackEnds
<1>6. TypeOK' /\ NeverTakenForCall'
  BY <1>1, <1>2, <1>3, <1>4 DEF IInv, TypeOK, NeverTakenForCall
<1>7. Places'
  <2>1. id \notin timedOut
    BY <1>1 DEF IInv, TypeOK, EndedOnce
  <2>2. id \in CallId /\ id # 0
    BY <1>1, Ids DEF IInv, TypeOK
  <2> HIDE DEF id
  <2> QED
    BY <1>1, <1>2, <1>4, <2>1, <2>2, Ids DEF IInv, Places
<1> QED
  BY <1>5, <1>6, <1>7 DEF IInv

LEMMA RecvLateReplyInv == IInv /\ RecvLateReply => IInv'
<1> SUFFICES ASSUME IInv, RecvLateReply PROVE IInv'
  OBVIOUS
<1> DEFINE id == Head(replies)
<1>1. /\ up /\ id \in timedOut /\ id \notin pending /\ timedOut' = timedOut \ {id}
      /\ replies' = Tail(replies) /\ replies # << >>
      /\ UNCHANGED << nextId, pending, calls, serving, outcome, up, checkOk >>
  BY DEF RecvLateReply
<1>2. /\ Once(replies') /\ Range(replies') = Range(replies) \ {id}
      /\ id \in Range(replies) /\ replies' \in Seq(CallId \union {0})
  BY <1>1, TailOnce DEF IInv, TypeOK, Places
<1> HIDE DEF id
<1>3. TypeOK' /\ NeverTakenForCall'
  BY <1>1, <1>2 DEF IInv, TypeOK, NeverTakenForCall
<1>4. Places'
  BY <1>1, <1>2 DEF IInv, Places
<1>5. Fresh' /\ EndedOnce'
  BY <1>1 DEF IInv, Fresh, EndedOnce
<1> QED
  BY <1>3, <1>4, <1>5 DEF IInv

(* The only message that is no reply has the id 0.                         *)
LEMMA RecvOtherInv == IInv /\ RecvOther => IInv'
<1> SUFFICES ASSUME IInv, RecvOther PROVE IInv'
  OBVIOUS
<1> DEFINE id == Head(replies)
<1>1. /\ up /\ id \notin pending \union timedOut /\ checkOk' = (id = 0)
      /\ replies' = Tail(replies) /\ replies # << >>
      /\ UNCHANGED << nextId, pending, timedOut, calls, serving, outcome, up >>
  BY DEF RecvOther
<1>2. /\ Once(replies') /\ Range(replies') = Range(replies) \ {id}
      /\ id \in Range(replies) /\ replies' \in Seq(CallId \union {0})
  BY <1>1, TailOnce DEF IInv, TypeOK, Places
<1> HIDE DEF id
<1>3. id = 0
  BY <1>1, <1>2 DEF IInv, Places
<1>4. TypeOK' /\ NeverTakenForCall'
  BY <1>1, <1>2, <1>3 DEF IInv, TypeOK, NeverTakenForCall
<1>5. Places'
  BY <1>1, <1>2, <1>3 DEF IInv, Places
<1>6. Fresh' /\ EndedOnce'
  BY <1>1 DEF IInv, Fresh, EndedOnce
<1> QED
  BY <1>4, <1>5, <1>6 DEF IInv

LEMMA TimeOutInv ==
  ASSUME IInv, NEW id \in CallId, NEW again \in BOOLEAN, TimeOut(id, again)
  PROVE  IInv'
<1> DEFINE pend == pending \ {id}
<1>1. /\ id \in pending /\ RunCallback(id, "TIMEDOUT", again)
      /\ timedOut' = timedOut \union {id}
      /\ UNCHANGED << replies, serving, up, checkOk >>
  BY DEF TimeOut
<1>2. outcome' \in [CallId -> Seq({"RECV", "TIMEDOUT"})]
  BY <1>1, CallbackFacts
<1>3. /\ nextId' \in Nat
      /\ pending' = pend \union New(again) /\ pending' \subseteq CallId
      /\ calls' \in Seq(CallId)
      /\ up => Once(calls') /\ Range(calls') = Range(calls) \union New(again)
      /\ New(again) \subseteq CallId
      /\ New(again) \cap (pending \union timedOut \union serving) = {}
      /\ New(again) \cap (Range(calls) \union Range(replies)) = {}
  <2>1. pend \in SUBSET pending
    OBVIOUS
  <2>2. IF again THEN CanCall /\ CallWith(pend) ELSE NoCallWith(pend)
    BY <1>1, CallbackFacts
  <2> HIDE DEF pend
  <2> QED
    BY <2>1, <2>2, CallFacts
<1>4. Fresh' /\ EndedOnce'
  BY <1>1, CallbackEnds
<1>5. TypeOK' /\ NeverTakenForCall'
  BY <1>1, <1>2, <1>3 DEF IInv, TypeOK, NeverTakenForCall
<1>6. Places'
  BY <1>1, <1>3, Ids DEF IInv, Places
<1> QED
  BY <1>4, <1>5, <1>6 DEF IInv

(* The server moves an id from one place to the next.                      *)
LEMMA ServerInv ==
  IInv /\ (ServerRecv \/ (\E id \in CallId : Reply(id)) \/ ServerSend) => IInv'
<1> SUFFICES ASSUME IInv, ServerRecv \/ (\E id \in CallId : Reply(id)) \/ ServerSend
             PROVE  IInv'
  OBVIOUS
<1>1. /\ up /\ up' = up /\ checkOk' = checkOk
      /\ UNCHANGED << nextId, pending, timedOut, outcome >>
  BY DEF ServerRecv, Reply, ServerSend
<1>2. NeverTakenForCall' /\ Fresh' /\ EndedOnce'
  BY <1>1 DEF IInv, NeverTakenForCall, Fresh, EndedOnce
<1>3. CASE ServerRecv
  <2> DEFINE id == Head(calls)
  <2>1. /\ calls # << >> /\ calls' = Tail(calls) /\ serving' = serving \union {id}
        /\ replies' = replies
    BY <1>3 DEF ServerRecv
  <2>2. /\ Once(calls') /\ Range(calls') = Range(calls) \ {id} /\ id \in Range(calls)
        /\ calls' \in Seq(CallId) /\ id \in CallId
    BY <1>1, <2>1, TailOnce DEF IInv, TypeOK, Places
  <2> HIDE DEF id
  <2>3. TypeOK'
    BY <1>1, <2>1, <2>2 DEF IInv, TypeOK
  <2>4. Places'
    BY <1>1, <2>1, <2>2 DEF IInv, Places
  <2> QED
    BY <1>2, <2>3, <2>4 DEF IInv
<1>4. ASSUME NEW id \in CallId, Reply(id) PROVE IInv'
  <2>1. /\ id \in serving /\ serving' = serving \ {id} /\ calls' = calls
        /\ replies' = Append(replies, id)
    BY <1>4 DEF Reply
  <2>2. /\ Once(replies') /\ Range(replies') = Range(replies) \union {id}
        /\ replies' \in Seq(CallId \union {0})
    BY <1>1, <2>1, AppendOnce DEF IInv, TypeOK, Places
  <2>3. TypeOK'
    BY <1>1, <2>1, <2>2 DEF IInv, TypeOK
  <2>4. Places'
    BY <1>1, <2>1, <2>2, Ids DEF IInv, Places
  <2> QED
    BY <1>2, <2>3, <2>4 DEF IInv
<1>5. CASE ServerSend
  <2>1. 0 \notin Range(replies) /\ replies' = Append(replies, 0)
        /\ serving' = serving /\ calls' = calls
    BY <1>5 DEF ServerSend
  <2>2. /\ Once(replies') /\ Range(replies') = Range(replies) \union {0}
        /\ replies' \in Seq(CallId \union {0})
    BY <1>1, <2>1, AppendOnce DEF IInv, TypeOK, Places
  <2>3. TypeOK'
    BY <1>1, <2>1, <2>2 DEF IInv, TypeOK
  <2>4. 0 \notin serving /\ 0 \notin Range(calls)
    BY Ids DEF IInv, TypeOK, Range
  <2>5. Places'
    BY <1>1, <2>1, <2>2, <2>4 DEF IInv, Places
  <2> QED
    BY <1>2, <2>3, <2>5 DEF IInv
<1> QED
  BY <1>3, <1>4, <1>5

-----------------------------------------------------------------------------
(* Every step preserves the invariant.                                     *)
LEMMA NextInv == IInv /\ [Next]_vars => IInv'
<1> SUFFICES ASSUME IInv, [Next]_vars PROVE IInv'
  OBVIOUS
<1>1. CASE MakeCall
  BY <1>1, MakeCallInv
<1>2. CASE \E again \in BOOLEAN : RecvReply(again)
  BY <1>2, RecvReplyInv
<1>3. CASE RecvLateReply
  BY <1>3, RecvLateReplyInv
<1>4. CASE RecvOther
  BY <1>4, RecvOtherInv
<1>5. CASE \E id \in CallId, again \in BOOLEAN : TimeOut(id, again)
  BY <1>5, TimeOutInv
<1>6. CASE ServerRecv \/ (\E id \in CallId : Reply(id)) \/ ServerSend
  BY <1>6, ServerInv
<1>7. CASE Close
  BY <1>7 DEF Close, IInv, TypeOK, NeverTakenForCall, Places, Fresh, EndedOnce
<1>8. CASE UNCHANGED vars
  BY <1>8 DEF vars, IInv, TypeOK, NeverTakenForCall, Places, Fresh, EndedOnce
<1> QED
  BY <1>1, <1>2, <1>3, <1>4, <1>5, <1>6, <1>7, <1>8 DEF Next

(* The invariant of the ids and of the callbacks.                          *)
THEOREM CallsInv == Spec => []IInv
<1>1. Spec => Init /\ [][Next]_vars
  BY PTL DEF Spec
<1> QED
  BY <1>1, InitInv, NextInv, PTL

(* One copy of each id in use.                                             *)
LEMMA CopiesCounted == IInv => CallsAreSafe
<1> SUFFICES ASSUME IInv PROVE CallsAreSafe
  OBVIOUS
<1>1. ASSUME up, NEW c \in CallId
      PROVE  Cardinality({i \in DOMAIN calls : calls[i] = c})
               + Cardinality({i \in DOMAIN replies : replies[i] = c})
               + (IF c \in serving THEN 1 ELSE 0)
             = IF c \in pending \union timedOut THEN 1 ELSE 0
  <2>1. /\ Cardinality({i \in DOMAIN calls : calls[i] = c})
             = IF c \in Range(calls) THEN 1 ELSE 0
        /\ Cardinality({i \in DOMAIN replies : replies[i] = c})
             = IF c \in Range(replies) THEN 1 ELSE 0
    BY <1>1, CountOnce DEF IInv, Places
  <2>2. c # 0
    BY Ids
  <2>3. /\ c \in pending \union timedOut
             <=> c \in serving \/ c \in Range(calls) \/ c \in Range(replies)
        /\ ~(c \in Range(calls) /\ c \in Range(replies))
        /\ ~(c \in serving /\ (c \in Range(calls) \/ c \in Range(replies)))
    BY <1>1, <2>2 DEF IInv, Places
  <2> QED
    BY <2>1, <2>3
<1>2. OneCopyPerCall
  BY <1>1 DEF OneCopyPerCall
<1> QED
  BY <1>2 DEF IInv, CallsAreSafe

(* onRecvMsg recognises every reply, however late, so the CHECK that a     *)
(* client is never called holds; and timed_out_call_ids_ keeps an id only  *)
(* while its reply may still come.                                         *)
THEOREM CallsStaySafe == Spec => []CallsAreSafe
  BY CallsInv, CopiesCounted, PTL

-----------------------------------------------------------------------------
(* The refinement: what a caller sees of its calls.                        *)
CallStatus == [c \in CallId |-> StatusOf(c)]

LEMMA ShortSeq ==
  ASSUME NEW S, NEW q \in Seq(S), q # << >>, Len(q) <= 1
  PROVE  Len(q) = 1
<1>1. Len(q) \in Nat /\ Len(q) # 0
  BY EmptySeq
<1> QED
  BY <1>1

(* The status of a call, from the table and the callbacks.                 *)
StatusOk ==
  \A c \in CallId :
    /\ StatusOf(c) \in {"unmade", "waiting", "RECV", "TIMEDOUT"}
    /\ c \in pending => StatusOf(c) = "waiting"
    /\ c \notin pending /\ outcome[c] = << >> => StatusOf(c) = "unmade"
    /\ \A st \in {"RECV", "TIMEDOUT"} : outcome[c] = << st >> => StatusOf(c) = st

LEMMA StatusFacts == IInv => StatusOk
<1> SUFFICES ASSUME IInv, NEW c \in CallId
             PROVE  /\ StatusOf(c) \in {"unmade", "waiting", "RECV", "TIMEDOUT"}
                    /\ c \in pending => StatusOf(c) = "waiting"
                    /\ c \notin pending /\ outcome[c] = << >> => StatusOf(c) = "unmade"
                    /\ \A st \in {"RECV", "TIMEDOUT"} :
                         outcome[c] = << st >> => StatusOf(c) = st
  BY DEF StatusOk
<1>1. /\ outcome[c] \in Seq({"RECV", "TIMEDOUT"}) /\ Len(outcome[c]) <= 1
      /\ c \in pending => outcome[c] = << >>
  BY DEF IInv, TypeOK, EndedOnce
<1>2. CASE outcome[c] = << >>
  BY <1>2 DEF StatusOf
<1>3. CASE outcome[c] # << >>
  <2>1. c \notin pending /\ Head(outcome[c]) \in {"RECV", "TIMEDOUT"}
    BY <1>1, <1>3, HeadTailProperties
  <2>2. Len(outcome[c]) = 1
    BY <1>1, <1>3, ShortSeq
  <2>3. StatusOf(c) = Head(outcome[c])
    BY <1>3, <2>1, <2>2 DEF StatusOf
  <2>4. \A st \in {"RECV", "TIMEDOUT"} : outcome[c] = << st >> => Head(outcome[c]) = st
    OBVIOUS
  <2> QED
    BY <1>3, <2>1, <2>3, <2>4
<1> QED
  BY <1>2, <1>3

(* What a step may do to one call.                                         *)
CallMoves(c) ==
  \/ (c \in pending <=> c \in pending') /\ outcome'[c] = outcome[c]
  \/ c \notin pending /\ c \in pending' /\ outcome[c] = << >> /\ outcome'[c] = << >>
  \/ c \in pending /\ c \notin pending' /\ outcome'[c] = << "RECV" >>
  \/ c \in pending /\ c \notin pending' /\ outcome'[c] = << "TIMEDOUT" >> /\ c \in Timed

(* A step that ends the call id, and may make another.                     *)
LEMMA CallbackMoves ==
  ASSUME IInv, NEW id \in pending, NEW st \in {"RECV", "TIMEDOUT"},
         NEW again \in BOOLEAN, RunCallback(id, st, again),
         st = "TIMEDOUT" => id \in Timed, NEW c \in CallId
  PROVE  CallMoves(c)
<1> DEFINE pend == pending \ {id}
<1>1. /\ pending' = pend \union New(again)
      /\ \A n \in New(again) : outcome[n] = << >> /\ n \notin pending
  <2>1. pend \in SUBSET pending
    OBVIOUS
  <2>2. IF again THEN CanCall /\ CallWith(pend) ELSE NoCallWith(pend)
    BY CallbackFacts
  <2> HIDE DEF pend
  <2> QED
    BY <2>1, <2>2, CallFacts
<1>2. outcome' = [outcome EXCEPT ![id] = << st >>]
  BY CallbackFacts
<1>3. id \in CallId /\ outcome \in [CallId -> Seq({"RECV", "TIMEDOUT"})]
  BY DEF IInv, TypeOK
<1>4. CASE c = id
  <2>1. c \in pending /\ c \notin pending' /\ outcome'[c] = << st >>
    BY <1>1, <1>2, <1>3, <1>4
  <2> QED
    BY <1>4, <2>1 DEF CallMoves
<1>5. CASE c # id
  <2>1. outcome'[c] = outcome[c]
    BY <1>2, <1>3, <1>5
  <2>2. CASE c \in New(again)
    BY <1>1, <2>1, <2>2 DEF CallMoves
  <2>3. CASE c \notin New(again)
    BY <1>1, <1>5, <2>1, <2>3 DEF CallMoves
  <2> QED
    BY <2>2, <2>3
<1> QED
  BY <1>4, <1>5

LEMMA StepMoves ==
  ASSUME IInv, [Next]_vars, NEW c \in CallId
  PROVE  CallMoves(c)
<1>1. CASE MakeCall
  <2>1. /\ pending' = pending \union New(TRUE) /\ outcome' = outcome
        /\ \A n \in New(TRUE) : outcome[n] = << >> /\ n \notin pending
    BY <1>1, CallFacts DEF MakeCall
  <2>2. CASE c \in New(TRUE)
    BY <2>1, <2>2 DEF CallMoves
  <2>3. CASE c \notin New(TRUE)
    BY <2>1, <2>3 DEF CallMoves
  <2> QED
    BY <2>2, <2>3
<1>2. ASSUME NEW again \in BOOLEAN, RecvReply(again) PROVE CallMoves(c)
  <2>1. Head(replies) \in pending /\ RunCallback(Head(replies), "RECV", again)
    BY <1>2 DEF RecvReply
  <2> QED
    BY <2>1, CallbackMoves
<1>3. ASSUME NEW id \in CallId, NEW again \in BOOLEAN, TimeOut(id, again)
      PROVE  CallMoves(c)
  <2>1. id \in pending /\ id \in Timed /\ RunCallback(id, "TIMEDOUT", again)
    BY <1>3 DEF TimeOut
  <2> QED
    BY <2>1, CallbackMoves
<1>4. CASE UNCHANGED << pending, outcome >>
  BY <1>4 DEF CallMoves
<1>5. CASE \/ RecvLateReply \/ RecvOther \/ ServerRecv \/ ServerSend \/ Close
           \/ (\E id \in CallId : Reply(id)) \/ UNCHANGED vars
  BY <1>4, <1>5 DEF RecvLateReply, RecvOther, ServerRecv, ServerSend, Close, Reply, vars
<1> QED
  BY <1>1, <1>2, <1>3, <1>5 DEF Next

LEMMA StepRefines ==
  IInv /\ StatusOk /\ StatusOk' /\ [Next]_vars => [Table!Next]_CallStatus
<1> SUFFICES ASSUME IInv, StatusOk, StatusOk', [Next]_vars
             PROVE  /\ CallStatus' \in [CallId -> Table!Status]
                    /\ \A c \in CallId : Table!Moves(c)
  BY DEF Table!Next, CallStatus
<1>1. CallStatus' \in [CallId -> Table!Status]
  BY DEF StatusOk, Table!Status, CallStatus
<1>2. ASSUME NEW c \in CallId PROVE Table!Moves(c)
  <2>1. CallStatus[c] = StatusOf(c) /\ CallStatus'[c] = StatusOf(c)'
    BY DEF CallStatus
  <2>2. CallMoves(c)
    BY StepMoves
  <2>3. CASE (c \in pending <=> c \in pending') /\ outcome'[c] = outcome[c]
    <3>1. StatusOf(c)' = StatusOf(c)
      BY <2>3 DEF StatusOf
    <3> QED
      BY <2>1, <3>1 DEF Table!Moves, CallStatus
  <2>4. CASE c \notin pending /\ c \in pending' /\ outcome[c] = << >>
    <3>1. StatusOf(c) = "unmade" /\ StatusOf(c)' = "waiting"
      BY <2>4 DEF StatusOk
    <3> QED
      BY <2>1, <3>1 DEF Table!Moves, CallStatus
  <2>5. CASE c \in pending /\ outcome'[c] = << "RECV" >>
    <3>1. StatusOf(c) = "waiting" /\ StatusOf(c)' = "RECV"
      BY <2>5 DEF StatusOk
    <3> QED
      BY <2>1, <3>1 DEF Table!Moves, CallStatus
  <2>6. CASE c \in pending /\ outcome'[c] = << "TIMEDOUT" >> /\ c \in Timed
    <3>1. StatusOf(c) = "waiting" /\ StatusOf(c)' = "TIMEDOUT"
      BY <2>6 DEF StatusOk
    <3> QED
      BY <2>1, <2>6, <3>1 DEF Table!Moves, CallStatus
  <2> QED
    BY <2>2, <2>3, <2>4, <2>5, <2>6 DEF CallMoves
<1> QED
  BY <1>1, <1>2

LEMMA InitRefines == Init => Table!Init
  BY DEF Init, Table!Init, StatusOf

(* Seen by its caller, a call is waiting once made and then ended by one   *)
(* callback, with the reply or, if it has a time limit, with a timeout:    *)
(* the safety part of ImplementsCallTable.                                 *)
THEOREM CallsEndOnce == Spec => Table!Init /\ [][Table!Next]_CallStatus
<1>1. Spec => Init /\ [][Next]_vars
  BY PTL DEF Spec
<1> QED
  BY <1>1, CallsInv, StatusFacts, StepRefines, InitRefines, PTL

=============================================================================
