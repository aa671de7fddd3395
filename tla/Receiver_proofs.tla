-------------------------- MODULE Receiver_proofs ---------------------------
(***************************************************************************)
(* Lemmas about the receiver and the channels alone, whoever its peer is   *)
(* and whatever set S the packets are from.                                *)
(***************************************************************************)
EXTENDS Receiver, SequenceTheorems, TLAPS

-----------------------------------------------------------------------------
(* Sequences and channels.                                                 *)

\* Appending x to a sequence.
LEMMA AppendType ==
  ASSUME NEW S, NEW c \in Seq(S), NEW x \in S
  PROVE  /\ Append(c, x) \in Seq(S)
         /\ Append(c, x) # <<>>
         /\ Len(Append(c, x)) = Len(c) + 1
         /\ \A i \in 1 .. Len(c) : Append(c, x)[i] = c[i]
         /\ Append(c, x)[Len(c) + 1] = x
<1>1. Append(c, x) \in Seq(S)
  OBVIOUS
<1>2. Len(Append(c, x)) = Len(c) + 1 /\ Len(c) \in Nat
  OBVIOUS
<1>3. Append(c, x) # <<>>
  BY <1>2, EmptySeq
<1> QED BY <1>1, <1>2, <1>3

\* The last element of a sequence that is not empty.
LEMMA LastType ==
  ASSUME NEW S, NEW c \in Seq(S), c # <<>>
  PROVE  /\ Len(c) \in 1 .. Len(c)
         /\ c[Len(c)] \in S
BY EmptySeq, ElementOfSeq

\* The elements of a sequence to which x is appended.
LEMMA AppendElements ==
  ASSUME NEW S, NEW c \in Seq(S), NEW x \in S
  PROVE  ToSet(Append(c, x)) = ToSet(c) \cup {x}
<1>1. DOMAIN c = 1 .. Len(c) /\ DOMAIN Append(c, x) = 1 .. Len(c) + 1 /\ Len(c) \in Nat
  BY AppendType, LenProperties
<1>2. \A i \in 1 .. Len(c) : Append(c, x)[i] = c[i]
  BY AppendType
<1>3. Append(c, x)[Len(c) + 1] = x
  BY AppendType
<1>4. ASSUME NEW y \in ToSet(c) PROVE y \in ToSet(Append(c, x))
  <2>1. PICK i \in 1 .. Len(c) : y = c[i]
    BY <1>1 DEF ToSet
  <2>2. i \in DOMAIN Append(c, x) /\ y = Append(c, x)[i]
    BY <1>1, <1>2, <2>1
  <2> QED BY <2>2 DEF ToSet
<1>5. x \in ToSet(Append(c, x))
  <2>1. Len(c) + 1 \in DOMAIN Append(c, x)
    BY <1>1
  <2> QED BY <1>3, <2>1 DEF ToSet
<1>6. ASSUME NEW y \in ToSet(Append(c, x)) PROVE y \in ToSet(c) \cup {x}
  <2>1. PICK i \in 1 .. Len(c) + 1 : y = Append(c, x)[i]
    BY <1>1 DEF ToSet
  <2>2. CASE i = Len(c) + 1
    BY <1>3, <2>1, <2>2
  <2>3. CASE i # Len(c) + 1
    <3>1. i \in 1 .. Len(c)
      BY <1>1, <2>3
    <3> QED BY <1>1, <1>2, <2>1, <3>1 DEF ToSet
  <2> QED BY <2>2, <2>3
<1> QED BY <1>4, <1>5, <1>6

\* The elements of the concatenation of two sequences.
LEMMA ConcatElements ==
  ASSUME NEW S, NEW c \in Seq(S), NEW d \in Seq(S)
  PROVE  ToSet(c \o d) = ToSet(c) \cup ToSet(d)
<1> DEFINE e == c \o d
<1>1. /\ e \in Seq(S) /\ Len(e) = Len(c) + Len(d)
      /\ \A i \in 1 .. Len(c) + Len(d) : e[i] = IF i <= Len(c) THEN c[i] ELSE d[i - Len(c)]
  BY ConcatProperties
<1> HIDE DEF e
<1>2. /\ DOMAIN c = 1 .. Len(c) /\ DOMAIN d = 1 .. Len(d)
      /\ Len(c) \in Nat /\ Len(d) \in Nat
  BY LenProperties
<1>3. DOMAIN e = 1 .. Len(c) + Len(d)
  BY <1>1, LenProperties
<1>4. ASSUME NEW y \in ToSet(c) PROVE y \in ToSet(e)
  <2>1. PICK i \in 1 .. Len(c) : y = c[i]
    BY <1>2 DEF ToSet
  <2>2. i \in 1 .. Len(c) + Len(d) /\ i <= Len(c)
    BY <1>2
  <2> QED BY <1>1, <1>3, <2>1, <2>2 DEF ToSet
<1>5. ASSUME NEW y \in ToSet(d) PROVE y \in ToSet(e)
  <2>1. PICK i \in 1 .. Len(d) : y = d[i]
    BY <1>2 DEF ToSet
  <2>2. /\ i + Len(c) \in 1 .. Len(c) + Len(d)
        /\ ~ (i + Len(c) <= Len(c))
        /\ (i + Len(c)) - Len(c) = i
    BY <1>2
  <2>3. e[i + Len(c)] = d[i]
    BY <1>1, <2>2
  <2> QED BY <1>3, <2>1, <2>2, <2>3 DEF ToSet
<1>6. ASSUME NEW y \in ToSet(e) PROVE y \in ToSet(c) \cup ToSet(d)
  <2>1. PICK i \in 1 .. Len(c) + Len(d) : y = e[i]
    BY <1>3 DEF ToSet
  <2>2. CASE i <= Len(c)
    <3>1. i \in 1 .. Len(c)
      BY <1>2, <2>2
    <3> QED BY <1>1, <1>2, <2>1, <2>2, <3>1 DEF ToSet
  <2>3. CASE ~ (i <= Len(c))
    <3>1. i - Len(c) \in 1 .. Len(d)
      BY <1>2, <2>3
    <3>2. e[i] = d[i - Len(c)]
      BY <1>1, <2>3
    <3> QED BY <1>2, <2>1, <3>1, <3>2 DEF ToSet
  <2> QED BY <2>2, <2>3
<1> QED BY <1>4, <1>5, <1>6 DEF e

\* Sending adds at most the packet that is sent.
LEMMA SentType ==
  ASSUME NEW S, NEW c \in Seq(S), NEW p \in S, NEW d \in Sent(c, p)
  PROVE  /\ d \in Seq(S)
         /\ ToSet(d) \subseteq ToSet(c) \cup {p}
<1>1. CASE d = c
  BY <1>1
<1>2. CASE d = Append(c, p)
  <2>1. d \in Seq(S) /\ DOMAIN d = 1 .. Len(c) + 1 /\ DOMAIN c = 1 .. Len(c)
    BY <1>2
  <2>2. \A i \in DOMAIN d : d[i] \in ToSet(c) \cup {p}
    BY <1>2, <2>1 DEF ToSet
  <2> QED BY <2>1, <2>2 DEF ToSet
<1> QED BY <1>1, <1>2 DEF Sent

\* Removing an element of a sequence leaves only elements it had.
LEMMA RemoveAtType ==
  ASSUME NEW S, NEW c \in Seq(S), NEW i \in 1 .. Len(c)
  PROVE  /\ RemoveAt(c, i) \in Seq(S)
         /\ ToSet(RemoveAt(c, i)) \subseteq ToSet(c)
<1> DEFINE l == SubSeq(c, 1, i - 1)
           r == SubSeq(c, i + 1, Len(c))
           d == l \o r
<1>1. l \in Seq(S) /\ Len(l) = i - 1 /\ \A j \in 1 .. i - 1 : l[j] = c[j]
  OBVIOUS
<1>2. r \in Seq(S)
  OBVIOUS
<1>3. Len(r) = Len(c) - i
  OBVIOUS
<1>4. \A j \in 1 .. Len(c) - i : r[j] = c[i + j]
  OBVIOUS
<1> HIDE DEF l, r
<1>5. /\ d \in Seq(S) /\ Len(d) = Len(l) + Len(r)
      /\ \A j \in 1 .. Len(l) + Len(r) :
            d[j] = IF j <= Len(l) THEN l[j] ELSE r[j - Len(l)]
  BY <1>1, <1>2, ConcatProperties
<1> HIDE DEF d
<1>6. DOMAIN d = 1 .. Len(c) - 1 /\ DOMAIN c = 1 .. Len(c) /\ Len(c) \in Nat
  BY <1>1, <1>3, <1>5
<1>7. \A j \in DOMAIN d : d[j] \in ToSet(c)
  <2> SUFFICES ASSUME NEW j \in DOMAIN d PROVE \E k \in DOMAIN c : d[j] = c[k]
    BY DEF ToSet
  <2>1. CASE j <= i - 1
    <3>1. j \in 1 .. i - 1 /\ j \in DOMAIN c
      BY <1>6, <2>1
    <3>2. d[j] = l[j]
      BY <1>1, <1>3, <1>5, <1>6, <2>1
    <3>3. l[j] = c[j]
      BY <1>1, <3>1
    <3> QED BY <3>1, <3>2, <3>3
  <2>2. CASE j > i - 1
    <3>1. j - (i - 1) \in 1 .. Len(c) - i /\ j + 1 \in DOMAIN c /\ i + (j - (i - 1)) = j + 1
      BY <1>6, <2>2
    <3>2. d[j] = r[j - (i - 1)]
      BY <1>1, <1>3, <1>5, <1>6, <2>2
    <3>3. r[j - (i - 1)] = c[i + (j - (i - 1))]
      BY <1>4, <3>1
    <3> QED BY <3>1, <3>2, <3>3
  <2> QED BY <1>6, <2>1, <2>2
<1> QED BY <1>5, <1>7 DEF RemoveAt, ToSet, d, l, r

\* Receiving removes at most the packet that is received.
LEMMA ReceivedType ==
  ASSUME NEW S, NEW c \in Seq(S), NEW i \in Deliverable(c), NEW d \in Received(c, i)
  PROVE  /\ c[i] \in S
         /\ c[i] \in ToSet(c)
         /\ d \in Seq(S)
         /\ ToSet(d) \subseteq ToSet(c)
<1>1. i \in 1 .. Len(c) /\ DOMAIN c = 1 .. Len(c)
  BY DEF Deliverable
<1>2. c[i] \in S /\ c[i] \in ToSet(c)
  BY <1>1 DEF ToSet
<1>3. d = c \/ d = RemoveAt(c, i)
  BY DEF Received
<1> QED BY <1>1, <1>2, <1>3, RemoveAtType

-----------------------------------------------------------------------------
(* What the receiver has.                                                  *)

\* What sliding the window writes to the stream: the n packets from lo on.
LEMMA SlideType ==
  ASSUME NEW S, NEW buffer \in SUBSET S, NEW lo \in Nat, NEW n \in Nat, Slides(buffer, lo, n)
  PROVE  /\ [i \in 1 .. n |-> PacketAt(buffer, lo + i - 1)] \in Seq(S)
         /\ \A s \in lo .. lo + n - 1 : PacketAt(buffer, s) \in buffer /\ PacketAt(buffer, s).seq = s
<1>1. \A s \in lo .. lo + n - 1 : s \in SeqsOf(buffer)
  BY DEF Slides
<1>2. \A s \in SeqsOf(buffer) : PacketAt(buffer, s) \in buffer /\ PacketAt(buffer, s).seq = s
  BY DEF SeqsOf, PacketAt
<1>3. \A i \in 1 .. n : lo + i - 1 \in lo .. lo + n - 1
  OBVIOUS
<1>4. \A i \in 1 .. n : PacketAt(buffer, lo + i - 1) \in S
  BY <1>1, <1>2, <1>3
<1> QED BY <1>1, <1>2, <1>4

\* A packet is inserted into a set of packets.
LEMMA InsertType ==
  ASSUME NEW S, NEW P \in SUBSET S, NEW p \in S
  PROVE  /\ Insert(P, p) \in SUBSET S
         /\ P \subseteq Insert(P, p)
         /\ Insert(P, p) \subseteq P \cup {p}
         /\ p.seq \in SeqsOf(Insert(P, p))
BY DEF Insert, SeqsOf

\* What the receiver has depends on the receiver alone.
LEMMA HasFrame ==
  UNCHANGED receiverVars => /\ Kept' = Kept
                            /\ \A s : Has(s)' <=> Has(s)
                            /\ \A p : Truthful(p)' <=> Truthful(p)
<1> SUFFICES ASSUME UNCHANGED receiverVars
             PROVE  /\ Kept' = Kept
                    /\ \A s : Has(s)' <=> Has(s)
                    /\ \A p : Truthful(p)' <=> Truthful(p)
  OBVIOUS
<1>1. Kept' = Kept /\ skipped' = skipped
  BY DEF receiverVars, Kept
<1>2. \A s : Has(s)' <=> Has(s)
  BY <1>1 DEF Has
<1> QED BY <1>1, <1>2 DEF Truthful

\* Accepting a packet: it goes to the buffer, what is in order goes on to the
\* stream, and the window moves over that; also when sequence numbers wrap.
LEMMA AcceptHas ==
  ASSUME NEW S, \A q \in S : q.seq \in Nat,
         recvBuffer \in SUBSET S, os \in Seq(S), first \in Nat,
         \A s \in 0 .. first - 1 : Has(s),
         NEW p \in S, Accept(p)
  PROVE  /\ recvBuffer' \in SUBSET S /\ os' \in Seq(S) /\ first' \in Nat
         /\ Kept' \subseteq Kept \cup {p}
         /\ \A s : Has(s) => Has(s)'
         /\ Has(p.seq)'
         /\ \A s \in 0 .. first' - 1 : Has(s)'
         /\ \A m \in Nat : first <= m /\ (\A q \in recvBuffer \cup {p} : q.seq < m) => first' <= m
<1> DEFINE sync == recvState = "Idle" /\ p.kind = "ConnReq"
           lo == IF sync THEN p.seq ELSE first
           buffer == Insert(recvBuffer, p)
           written(n) == [j \in 1 .. n |-> PacketAt(buffer, lo + j - 1)]
<1>1. PICK n \in 0 .. SeqSpace :
        /\ Slides(buffer, lo, n)
        /\ first' = Plus(lo, n)
        /\ os' = os \o written(n)
        /\ recvBuffer' = {q \in buffer : q.seq < lo \/ q.seq >= lo + n}
  BY DEF Accept
<1>2. /\ files' = files
      /\ skipped' = skipped \cup (IF sync THEN 0 .. p.seq - 1 ELSE {})
  BY DEF Accept
<1>3. /\ buffer \in SUBSET S /\ recvBuffer \subseteq buffer
      /\ buffer \subseteq recvBuffer \cup {p} /\ p.seq \in SeqsOf(buffer)
  BY InsertType
<1>4. lo \in Nat /\ n \in Nat /\ SeqSpace \in Nat
  BY PacketAssumption
<1> HIDE DEF buffer, lo
<1>5. /\ written(n) \in Seq(S)
      /\ \A s \in lo .. lo + n - 1 : PacketAt(buffer, s) \in buffer /\ PacketAt(buffer, s).seq = s
  <2>1. \A P \in SUBSET S, l, m \in Nat : Slides(P, l, m) =>
          /\ [j \in 1 .. m |-> PacketAt(P, l + j - 1)] \in Seq(S)
          /\ \A s \in l .. l + m - 1 : PacketAt(P, s) \in P /\ PacketAt(P, s).seq = s
    BY SlideType
  <2>2. buffer \in SUBSET S /\ lo \in Nat /\ n \in Nat /\ Slides(buffer, lo, n)
    BY <1>1, <1>3, <1>4
  <2> QED BY <2>1, <2>2, Zenon
<1>6. first' \in Nat /\ first' <= lo + n
  BY <1>1, <1>4 DEF Plus
<1>7. ToSet(os') = ToSet(os) \cup ToSet(written(n)) /\ os' \in Seq(S)
  <2> HIDE DEF written
  <2> QED BY <1>1, <1>5, ConcatElements, ConcatProperties
<1>8. ToSet(written(n)) = {PacketAt(buffer, s) : s \in lo .. lo + n - 1}
  <2>1. ToSet(written(n)) = {PacketAt(buffer, lo + j - 1) : j \in 1 .. n}
    BY DEF ToSet
  <2>2. \A j \in 1 .. n : lo + j - 1 \in lo .. lo + n - 1
    BY <1>4
  <2>3. \A s \in lo .. lo + n - 1 : s - lo + 1 \in 1 .. n /\ lo + (s - lo + 1) - 1 = s
    BY <1>4
  <2> QED BY <2>1, <2>2, <2>3
<1> HIDE DEF written
<1>9. Kept' \subseteq Kept \cup {p}
  <2>1. Kept' \subseteq Kept \cup buffer
    BY <1>1, <1>2, <1>5, <1>7, <1>8 DEF Kept
  <2> QED BY <1>3, <2>1 DEF Kept
<1>10. \A s \in SeqsOf(buffer) : s \in SeqsOf(Kept')
  <2> SUFFICES ASSUME NEW q \in buffer PROVE \E r \in Kept' : r.seq = q.seq
    BY DEF SeqsOf
  <2>1. CASE q.seq < lo \/ q.seq >= lo + n
    BY <1>1, <2>1 DEF Kept
  <2>2. CASE ~ (q.seq < lo \/ q.seq >= lo + n)
    <3>1. q.seq \in lo .. lo + n - 1
      BY <1>3, <1>4, <2>2
    <3>2. PacketAt(buffer, q.seq) \in ToSet(os') /\ PacketAt(buffer, q.seq).seq = q.seq
      BY <1>5, <1>7, <1>8, <3>1
    <3> QED BY <3>2 DEF Kept
  <2> QED BY <2>1, <2>2
<1>11. \A s \in SeqsOf(Kept) : s \in SeqsOf(Kept')
  <2> SUFFICES ASSUME NEW q \in Kept PROVE q.seq \in SeqsOf(Kept')
    BY DEF SeqsOf
  <2>1. CASE q \in recvBuffer
    BY <1>3, <1>10, <2>1 DEF SeqsOf
  <2>2. CASE q \notin recvBuffer
    <3>1. q \in Kept'
      BY <1>2, <1>7, <2>2 DEF Kept
    <3> QED BY <3>1 DEF SeqsOf
  <2> QED BY <2>1, <2>2
<1>12. \A s : Has(s) => Has(s)'
  BY <1>2, <1>11 DEF Has, SeqsOf
<1>13. Has(p.seq)'
  BY <1>3, <1>10 DEF Has, SeqsOf
<1>14. ASSUME NEW s \in 0 .. first' - 1 PROVE Has(s)'
  <2>1. CASE s < lo
    <3>1. CASE sync
      <4>1. s \in skipped'
        BY <1>2, <1>4, <2>1, <3>1 DEF lo
      <4> QED BY <4>1 DEF Has
    <3>2. CASE ~ sync
      <4>1. s \in 0 .. first - 1
        BY <1>4, <2>1, <3>2 DEF lo
      <4> QED BY <1>12, <4>1
    <3> QED BY <3>1, <3>2
  <2>2. CASE s >= lo
    <3>1. s \in lo .. lo + n - 1
      <4>1. \A b, c, d \in Nat : b <= c + d => \A e \in 0 .. b - 1 : e >= c => e \in c .. c + d - 1
        OBVIOUS
      <4> QED BY <1>4, <1>6, <2>2, <4>1
    <3>2. s \in SeqsOf(buffer)
      BY <1>5, <3>1 DEF SeqsOf
    <3> QED BY <1>10, <3>2 DEF Has, SeqsOf
  <2> QED BY <1>4, <2>1, <2>2
<1>15. ASSUME NEW m \in Nat, first <= m, \A q \in recvBuffer \cup {p} : q.seq < m
       PROVE  first' <= m
  <2>1. lo <= m
    BY <1>15 DEF lo
  <2>2. n # 0 => lo + n - 1 < m
    <3>1. n # 0 => lo + n - 1 \in lo .. lo + n - 1
      BY <1>4
    <3> QED BY <1>3, <1>5, <1>15, <3>1
  <2> QED BY <1>4, <1>6, <2>1, <2>2
<1>16. recvBuffer' \in SUBSET S
  BY <1>1, <1>3
<1> QED BY <1>6, <1>7, <1>9, <1>12, <1>13, <1>14, <1>15, <1>16

\* Saving a file keeps what was written.
LEMMA SaveKeeps ==
  ASSUME NEW S, files \in Seq(Seq(S)), os \in Seq(S), SaveFile
  PROVE  ToSet(os') \cup UNION {ToSet(files'[j]) : j \in DOMAIN files'}
           = ToSet(os) \cup UNION {ToSet(files[j]) : j \in DOMAIN files}
<1>1. os' = <<>> /\ files' = Append(files, os)
  BY DEF SaveFile
<1>2. ToSet(files') = ToSet(files) \cup {os}
  BY <1>1, AppendElements
<1>3. ToSet(<<>>) = {}
  BY DEF ToSet
<1>4. \A fs \in Seq(Seq(S)) :
        UNION {ToSet(fs[j]) : j \in DOMAIN fs} = UNION {ToSet(f) : f \in ToSet(fs)}
  <2>1. \A fs \in Seq(Seq(S)) : ToSet(fs) = {fs[j] : j \in DOMAIN fs}
    BY DEF ToSet
  <2> QED BY <2>1
<1>5. files' \in Seq(Seq(S))
  BY <1>1, AppendType
<1>6. UNION {ToSet(f) : f \in ToSet(files')} = ToSet(os) \cup UNION {ToSet(f) : f \in ToSet(files)}
  BY <1>2
<1> QED BY <1>1, <1>3, <1>4, <1>5, <1>6
=============================================================================
