------------------------- MODULE UdpFragmentsProofs -------------------------
(***************************************************************************)
(* What becomes of UDP packets sent over QUIC datagrams, for every number  *)
(* of packet numbers, fragments, writes and repeated datagrams and every   *)
(* size of the reader's buffer.                                            *)
(*                                                                         *)
(* A chunk is in one place at a time: Copies says that for every copy of a *)
(* datagram that was received its chunk is at most once in the table or in *)
(* the stream.  As long as a packet's number is its own, Progress says     *)
(* that the table holds exactly the fragments received until all are.      *)
(* Packets of one number are whole rounds apart (Numbering), so a packet   *)
(* put together from fragments of two packets shows it.                    *)
(***************************************************************************)
EXTENDS UdpFragments, FiniteSetTheorems, SequenceTheorems, TLAPS

ChunkSet == [packet : Nat \ {0}, index : Nat]

Packets == [id : Nat, count : Nat \ {0}]

Message == [by : Nat, chunks : Seq(ChunkSet), from : Nat]

\* d is a datagram that Write may have sent.
Genuine(d) ==
    LET p == d.payload.packet
        i == d.payload.index
    IN p \in 1..Len(packets) /\ i \in Nat /\ i < packets[p].count /\ d = Datagram(p, i)

\* The packets are numbered in turn.
Numbering ==
    /\ packets \in Seq(Packets)
    /\ packetID \in Nat /\ packetID < IdSpace
    /\ \E k \in Nat : Len(packets) = k * IdSpace + packetID
    /\ \A p \in 1..Len(packets) :
          packets[p].id < IdSpace /\ \E k \in Nat : p = k * IdSpace + packets[p].id

\* The fragment a Write sends next is one of its packet.
Sending ==
    /\ writing \in BOOLEAN /\ next \in Nat
    /\ writing => packets # <<>> /\ next < packets[Len(packets)].count

\* What is under way and what was received was sent.
Transport ==
    /\ \A d \in DOMAIN network : Genuine(d) /\ network[d] \in Nat \ {0}
    /\ \A d \in DOMAIN received : Genuine(d) /\ received[d] \in Nat \ {0}

\* An entry of the table: slots for the fragments, as many of them taken as counted, each by
\* the fragment of its index of a packet of the number, out of the datagrams in rs.
Entry(x, parts, count, rs) ==
    /\ \E m \in Nat : DOMAIN parts = 0..(m - 1)
    /\ \A i \in Filled(parts) :
          \E d \in rs : d.id = x /\ d.count > 1 /\ d.index = i /\ d.payload = parts[i]
    /\ Filled(parts) # {} /\ count = Cardinality(Filled(parts))

Table ==
    /\ DOMAIN fragCounts = DOMAIN fragments
    /\ \A x \in DOMAIN fragments :
          Entry(x, fragments[x], fragCounts[x], DOMAIN received)

\* A packet put together is the n chunks of the written one or mixes packets of one number.
Faithful(m, n) ==
    \/ m.chunks = [i \in 1..n |-> Chunk(m.by, i - 1)]
    \/ \E c \in Range(m.chunks) : c.packet + IdSpace <= m.by \/ m.by + IdSpace <= c.packet

\* Every message lies in the stream.
Within(s, ms) == \A k \in 1..Len(ms) : ms[k].from + Len(ms[k].chunks) <= Len(s)

Streaming ==
    /\ returned \in Seq(ChunkSet) /\ readBuf \in Seq(ChunkSet)
    /\ delivered \in Seq(Message)
    /\ \A k \in 1..Len(Stream) : Stream[k].packet <= Len(packets)
    /\ \A k \in 1..Len(delivered) :
          LET p == delivered[k].by IN
          p \in 1..Len(packets) /\ Faithful(delivered[k], packets[p].count)
    /\ Concatenates(Stream, delivered) /\ Within(Stream, delivered)

CopiesOf(d) == IF d \in DOMAIN received THEN received[d] ELSE 0

Held(x, c) == x \in DOMAIN fragments /\ c \in Range(fragments[x])

InTable(p, i) == IF Held(packets[p].id, Chunk(p, i)) THEN 1 ELSE 0

\* A chunk is in the table and in the stream no more often than its datagram was received.
Copies ==
    \A p \in 1..Len(packets), i \in Nat :
        i < packets[p].count =>
            Occurrences(Stream, Chunk(p, i)) + InTable(p, i) <= CopiesOf(Datagram(p, i))

\* The indices of all fragments of p, and of those that were received.
Whole(p) == 0..(packets[p].count - 1)

Arrived(p) == {i \in Whole(p) : Datagram(p, i) \in DOMAIN received}

Complete(p) == \E k \in 1..Len(delivered) : delivered[k].chunks = Chunks(p)

\* The table holds what was received of p until that is all of it; then p is delivered.
Tracked(p) ==
    LET x == packets[p].id IN
    IF Arrived(p) = Whole(p) THEN Complete(p)
    ELSE IF Arrived(p) = {} THEN x \notin DOMAIN fragments
    ELSE x \in DOMAIN fragments /\ DOMAIN fragments[x] = Whole(p)
         /\ Filled(fragments[x]) = Arrived(p)

Progress == \A p \in 1..Len(packets) : ~Reused(p) => Tracked(p)

\* The strengthening that is inductive.
IInv ==
    Numbering /\ Sending /\ Transport /\ Table /\ Streaming /\ Copies /\ Progress
-----------------------------------------------------------------------------
\* Zenon proves what is not said to need SMT: arithmetic, mostly.
USE ZenonT(30)

\* A bag with one more of d.
LEMMA BagMore ==
  ASSUME NEW B, NEW d, NEW C, C = OneMore(B, d),
         \A e \in DOMAIN B : B[e] \in Nat \ {0}
  PROVE  /\ DOMAIN C = DOMAIN B \cup {d}
         /\ \A e \in DOMAIN C : C[e] \in Nat \ {0}
BY SMT DEF OneMore, Put

\* A bag with one less of d.
LEMMA BagLess ==
  ASSUME NEW B, NEW d \in DOMAIN B, \A e \in DOMAIN B : B[e] \in Nat \ {0},
         NEW C, C = OneLess(B, d)
  PROVE  /\ DOMAIN C \subseteq DOMAIN B
         /\ \A e \in DOMAIN C : C[e] \in Nat \ {0}
BY SMT DEF OneLess, Put

\* An interval is finite and has as many elements as it says.
LEMMA Interval ==
  ASSUME NEW m \in Nat
  PROVE  /\ IsFiniteSet(0..(m - 1)) /\ Cardinality(0..(m - 1)) = m
         /\ IsFiniteSet(1..m) /\ Cardinality(1..m) = m
<1>1. 0 \in Int /\ 1 \in Int /\ m \in Int /\ m - 1 \in Int
  BY SMT
<1>2. /\ IsFiniteSet(0..(m - 1))
      /\ Cardinality(0..(m - 1)) = IF 0 > m - 1 THEN 0 ELSE (m - 1) - 0 + 1
  BY <1>1, FS_Interval
<1>3. IsFiniteSet(1..m) /\ Cardinality(1..m) = IF 1 > m THEN 0 ELSE m - 1 + 1
  BY <1>1, FS_Interval
<1> QED
  BY <1>2, <1>3, SMT

\* Ranking the positions of a finite set numbers them from 1 without gaps, so that Position
\* finds one of each rank.
LEMMA PositionOfRank ==
  ASSUME NEW I, I \subseteq Nat, IsFiniteSet(I)
  PROVE  /\ Cardinality(I) \in Nat
         /\ \A k \in 1..Cardinality(I) : Position(I, k) \in I /\ Rank(I, Position(I, k)) = k
         /\ \A i \in I : Rank(I, i) \in 1..Cardinality(I) /\ Position(I, Rank(I, i)) = i
<1> DEFINE Below(i) == {j \in I : j <= i}
           rank == [i \in I |-> Rank(I, i)]
<1>1. \A i \in I : /\ IsFiniteSet(Below(i)) /\ Cardinality(Below(i)) \in Nat
                   /\ Cardinality(Below(i)) <= Cardinality(I)
  BY FS_Subset, FS_CardinalityType
<1>2. Cardinality(I) \in Nat
  BY FS_CardinalityType
<1>3. \A i \in I : Rank(I, i) \in 1..Cardinality(I)
  <2>1. \A i \in I : i \in Below(i)
    BY SMT
  <2>2. \A i \in I : Cardinality(Below(i)) # 0
    BY <1>1, <2>1, FS_EmptySet
  <2> HIDE DEF Below
  <2>3. \A i \in I : Cardinality(Below(i)) \in 1..Cardinality(I)
    BY <1>1, <1>2, <2>2, SMT
  <2> QED
    BY <2>3 DEF Rank, Below
<1>4. \A i, j \in I : i < j => Rank(I, i) # Rank(I, j)
  <2> SUFFICES ASSUME NEW i \in I, NEW j \in I, i < j PROVE Rank(I, i) # Rank(I, j)
    OBVIOUS
  <2>1. Below(i) \subseteq Below(j) /\ j \in Below(j) /\ j \notin Below(i)
    <3>1. i \in Nat /\ j \in Nat /\ \A k \in I : k \in Nat
      OBVIOUS
    <3>2. (\A k \in I : k <= i => k <= j) /\ j <= j /\ ~(j <= i)
      BY <3>1, SMT
    <3> QED
      BY <3>2
  <2>2. Cardinality(Below(i)) # Cardinality(Below(j))
    BY <1>1, <2>1, FS_Subset
  <2> QED
    BY <2>2 DEF Rank
<1>5. rank \in Injection(I, 1..Cardinality(I))
  <2>1. \A i, j \in I : i # j => i < j \/ j < i
    BY SMT
  <2>2. \A i, j \in I : Rank(I, i) = Rank(I, j) => i = j
    BY <1>4, <2>1
  <2>3. rank \in [I -> 1..Cardinality(I)] /\ \A i \in I : rank[i] = Rank(I, i)
    BY <1>3
  <2> QED
    BY <2>2, <2>3 DEF Injection, IsInjective
<1>6. IsFiniteSet(1..Cardinality(I)) /\ Cardinality(1..Cardinality(I)) = Cardinality(I)
  <2>1. 1 \in Int /\ Cardinality(I) \in Int
    BY <1>2, SMT
  <2>2. /\ IsFiniteSet(1..Cardinality(I))
        /\ Cardinality(1..Cardinality(I))
             = IF 1 > Cardinality(I) THEN 0 ELSE Cardinality(I) - 1 + 1
    BY <2>1, FS_Interval
  <2> QED
    BY <1>2, <2>2, SMT
<1>7. rank \in Surjection(I, 1..Cardinality(I))
  <2> HIDE DEF rank
  <2> QED
    BY <1>5, <1>6, FS_Injection
<1>8. \A k \in 1..Cardinality(I) : \E i \in I : Rank(I, i) = k
  BY <1>7 DEF Surjection
<1>9. \A k \in 1..Cardinality(I) : Position(I, k) \in I /\ Rank(I, Position(I, k)) = k
  BY <1>8 DEF Position
<1>10. \A i, j \in I : Rank(I, i) = Rank(I, j) => i = j
  <2>1. \A i, j \in I : i # j => i < j \/ j < i
    BY SMT
  <2> QED
    BY <1>4, <2>1
<1> QED
  BY <1>2, <1>3, <1>9, <1>10

\* J is the parts taken, each once.
Joins(J, parts) ==
    /\ \A k \in 1..Len(J) :
          /\ Position(Filled(parts), k) \in Filled(parts)
          /\ Rank(Filled(parts), Position(Filled(parts), k)) = k
          /\ J[k] = parts[Position(Filled(parts), k)]
    /\ \A i \in Filled(parts) : \E k \in 1..Len(J) : J[k] = parts[i]

\* What Joined returns.
LEMMA JoinedParts ==
  ASSUME NEW S, NEW parts, NEW m \in Nat, DOMAIN parts = 0..(m - 1),
         \A i \in Filled(parts) : parts[i] \in S
  PROVE  /\ Filled(parts) \subseteq Nat /\ IsFiniteSet(Filled(parts))
         /\ Cardinality(Filled(parts)) \in Nat
         /\ Joined(parts) \in Seq(S) /\ Len(Joined(parts)) = Cardinality(Filled(parts))
         /\ Joins(Joined(parts), parts)
<1> DEFINE I == Filled(parts)
<1>1. I \subseteq Nat /\ IsFiniteSet(I)
  <2>1. I \subseteq 0..(m - 1)
    BY DEF Filled
  <2>2. 0..(m - 1) \subseteq Nat
    BY SMT
  <2> QED
    BY <2>1, <2>2, Interval, FS_Subset
<1> HIDE DEF I
<1>2. /\ Cardinality(I) \in Nat
      /\ \A k \in 1..Cardinality(I) : Position(I, k) \in I /\ Rank(I, Position(I, k)) = k
      /\ \A i \in I : Rank(I, i) \in 1..Cardinality(I) /\ Position(I, Rank(I, i)) = i
  BY <1>1, PositionOfRank
<1>3. Joined(parts) = [k \in 1..Cardinality(I) |-> parts[Position(I, k)]]
  BY DEF Joined, Selected, I
<1>4. \A k \in 1..Cardinality(I) : parts[Position(I, k)] \in S
  BY <1>2 DEF I
<1>5. Joined(parts) \in Seq(S) /\ Len(Joined(parts)) = Cardinality(I)
  BY <1>2, <1>3, <1>4, SMT
<1>6. \A k \in 1..Cardinality(I) : Joined(parts)[k] = parts[Position(I, k)]
  BY <1>3
<1>7. \A i \in I : Joined(parts)[Rank(I, i)] = parts[i]
  BY <1>2, <1>6
<1> QED
  BY <1>1, <1>2, <1>5, <1>6, <1>7 DEF I, Joins

\* If the slots taken are the first c, Joined returns these in order.
LEMMA JoinedWhole ==
  ASSUME NEW parts, NEW c \in Nat, Filled(parts) = 0..(c - 1)
  PROVE  Joined(parts) = [k \in 1..c |-> parts[k - 1]]
<1> DEFINE I == 0..(c - 1)
<1>1. I \subseteq Nat
  BY SMT
<1>2. IsFiniteSet(I) /\ Cardinality(I) = c
  BY Interval
<1>3. \A i \in I : Rank(I, i) = i + 1
  <2> SUFFICES ASSUME NEW i \in I PROVE Rank(I, i) = i + 1
    OBVIOUS
  <2>1. i + 1 \in Nat /\ {j \in I : j <= i} = 0..((i + 1) - 1)
    BY SMT
  <2> QED
    BY <2>1, Interval DEF Rank
<1> HIDE DEF I
<1>4. \A k \in 1..c : Position(I, k) \in I /\ Rank(I, Position(I, k)) = k
  BY <1>1, <1>2, PositionOfRank
<1>5. \A k \in 1..c : Position(I, k) = k - 1
  <2> SUFFICES ASSUME NEW k \in 1..c PROVE Position(I, k) = k - 1
    OBVIOUS
  <2>1. Position(I, k) \in Nat /\ Position(I, k) + 1 = k
    BY <1>1, <1>3, <1>4
  <2> QED
    BY <2>1, SMT
<1>6. Joined(parts) = [k \in 1..c |-> parts[Position(I, k)]]
  BY <1>2 DEF Joined, Selected, I
<1> QED
  BY <1>5, <1>6

\* A chunk that is somewhere in a sequence has an occurrence.
LEMMA Occurs ==
  ASSUME NEW S, NEW s \in Seq(S), NEW c, NEW l \in DOMAIN s, s[l] = c
  PROVE  Occurrences(s, c) \in Nat /\ Occurrences(s, c) # 0
<1> DEFINE At == {k \in DOMAIN s : s[k] = c}
<1>1. Len(s) \in Nat /\ DOMAIN s = 1..Len(s)
  BY SMT
<1>2. IsFiniteSet(At) /\ Cardinality(At) \in Nat
  BY <1>1, Interval, FS_Subset, FS_CardinalityType
<1>3. l \in At
  OBVIOUS
<1> HIDE DEF At
<1>4. At # {}
  BY <1>3
<1>5. Cardinality(At) # 0
  BY <1>2, <1>4, FS_EmptySet
<1> QED
  BY <1>2, <1>5 DEF Occurrences, At

\* A chunk occurs once more when it is appended once.
LEMMA OccurrencesAppend ==
  ASSUME NEW S, NEW s \in Seq(S), NEW t \in Seq(S), NEW c
  PROVE  /\ Occurrences(s, c) \in Nat
         /\ (\A k \in 1..Len(t) : t[k] # c) => Occurrences(s \o t, c) = Occurrences(s, c)
         /\ (\A k, l \in 1..Len(t) : t[k] = c /\ t[l] = c => k = l)
              => Occurrences(s \o t, c) <= Occurrences(s, c) + 1
<1> DEFINE At(q) == {k \in DOMAIN q : q[k] = c}
<1>1. Len(s) \in Nat /\ Len(t) \in Nat /\ DOMAIN s = 1..Len(s)
  BY SMT
<1>2. IsFiniteSet(At(s)) /\ Cardinality(At(s)) \in Nat
  BY <1>1, Interval, FS_Subset, FS_CardinalityType
<1>3. ASSUME \A k \in 1..Len(t) : t[k] # c PROVE At(s \o t) = At(s)
  BY <1>3, SMT
<1>4. ASSUME NEW k \in 1..Len(t), t[k] = c, \A l \in 1..Len(t) : t[l] = c => l = k
      PROVE  At(s \o t) \subseteq At(s) \cup {Len(s) + k}
  BY <1>4, SMTT(30)
<1> HIDE DEF At
<1>5. ASSUME NEW j, NEW T, T \subseteq At(s) \cup {j}
      PROVE  Cardinality(T) <= Cardinality(At(s)) + 1
  <2> DEFINE U == At(s) \cup {j}
  <2>1. IsFiniteSet(U) /\ (Cardinality(U) = Cardinality(At(s)) \/ Cardinality(U) = Cardinality(At(s)) + 1)
    BY <1>2, FS_AddElement
  <2>2. IsFiniteSet(T) /\ Cardinality(T) <= Cardinality(U) /\ Cardinality(T) \in Nat
    BY <1>5, <2>1, FS_Subset, FS_CardinalityType
  <2> QED
    BY <1>2, <2>1, <2>2, SMT
<1>6. ASSUME \A k, l \in 1..Len(t) : t[k] = c /\ t[l] = c => k = l
      PROVE  Cardinality(At(s \o t)) <= Cardinality(At(s)) + 1
  <2>1. CASE \A k \in 1..Len(t) : t[k] # c
    <3>1. Cardinality(At(s \o t)) = Cardinality(At(s))
      BY <1>3, <2>1
    <3> QED
      BY <1>2, <3>1, SMT
  <2>2. CASE \E k \in 1..Len(t) : t[k] = c
    <3>1. PICK k \in 1..Len(t) : t[k] = c
      BY <2>2
    <3>2. At(s \o t) \subseteq At(s) \cup {Len(s) + k}
      BY <1>4, <1>6, <3>1
    <3> QED
      BY <1>5, <3>2
  <2> QED
    BY <2>1, <2>2
<1>7. Occurrences(s, c) = Cardinality(At(s)) /\ Occurrences(s \o t, c) = Cardinality(At(s \o t))
  BY DEF Occurrences, At
<1>8. (\A k \in 1..Len(t) : t[k] # c) => Cardinality(At(s \o t)) = Cardinality(At(s))
  BY <1>3
<1> QED
  BY <1>2, <1>6, <1>7, <1>8

\* The parts of the packets written.
LEMMA PacketParts ==
  ASSUME packets \in Seq(Packets)
  PROVE  /\ Len(packets) \in Nat
         /\ \A p \in 1..Len(packets) : packets[p].id \in Nat /\ packets[p].count \in Nat \ {0}
<1>1. Len(packets) \in Nat /\ \A p \in 1..Len(packets) : packets[p] \in Packets
  BY SMT
<1> QED
  BY <1>1 DEF Packets

\* The parts of the messages delivered.
LEMMA MessageParts ==
  ASSUME NEW ms \in Seq(Message)
  PROVE  /\ Len(ms) \in Nat
         /\ \A k \in 1..Len(ms) :
              /\ ms[k].from \in Nat /\ ms[k].chunks \in Seq(ChunkSet)
              /\ Len(ms[k].chunks) \in Nat /\ DOMAIN ms[k].chunks = 1..Len(ms[k].chunks)
<1>1. Len(ms) \in Nat /\ \A k \in 1..Len(ms) : ms[k] \in Message
  BY SMT
<1>2. \A k \in 1..Len(ms) : ms[k].from \in Nat /\ ms[k].chunks \in Seq(ChunkSet)
  BY <1>1 DEF Message
<1>3. \A cs \in Seq(ChunkSet) : Len(cs) \in Nat /\ DOMAIN cs = 1..Len(cs)
  BY SMT
<1> QED
  BY <1>1, <1>2, <1>3

\* Packets of one number are whole rounds apart.
LEMMA Apart ==
  ASSUME Numbering, NEW p \in 1..Len(packets), NEW q \in 1..Len(packets),
         p < q, packets[p].id = packets[q].id
  PROVE  p + IdSpace <= q
<1>1. PICK k \in Nat : p = k * IdSpace + packets[p].id
  BY DEF Numbering
<1>2. PICK l \in Nat : q = l * IdSpace + packets[p].id
  BY DEF Numbering
<1>3. IdSpace \in Nat \ {0} /\ packets[p].id \in Nat
  BY UdpFragmentsAssumption, PacketParts DEF Numbering
<1>4. k < l
  <2>1. ASSUME l <= k PROVE FALSE
    <3>1. PICK e \in Nat : k = l + e
      BY <2>1, SMT
    <3>2. k * IdSpace = l * IdSpace + e * IdSpace /\ e * IdSpace \in Nat /\ l * IdSpace \in Nat
      BY <1>3, <3>1, SMT
    <3> QED
      BY <1>1, <1>2, <1>3, <3>2, SMT
  <2> QED
    BY <2>1, SMTT(30)
<1>5. PICK e \in Nat : l = k + 1 + e
  BY <1>4, SMT
<1>6. l * IdSpace = k * IdSpace + IdSpace + e * IdSpace /\ e * IdSpace \in Nat
        /\ k * IdSpace \in Nat
  BY <1>3, <1>5, SMT
<1> DEFINE a == k * IdSpace
           b == e * IdSpace
<1>7. p = a + packets[p].id /\ q = a + IdSpace + b + packets[p].id
  BY <1>1, <1>2, <1>6
<1>8. a \in Nat /\ b \in Nat
  BY <1>6
<1> HIDE DEF a, b
<1> QED
  BY <1>3, <1>7, <1>8, SMT

\* A Read hands out the stream in order: what it returns and what it keeps are what it had.
LEMMA HandKeeps ==
  ASSUME NEW chunks \in Seq(ChunkSet), NEW n \in 1..MaxBuffer, returned \in Seq(ChunkSet),
         Hand(chunks, n)
  PROVE  /\ returned' \in Seq(ChunkSet) /\ readBuf' \in Seq(ChunkSet)
         /\ Stream' = returned \o chunks
<1>0. n \in Nat \ {0} /\ Len(chunks) \in Nat
  BY UdpFragmentsAssumption, SMT
<1> DEFINE h == IF n <= Len(chunks) THEN n ELSE Len(chunks)
<1>2. /\ returned' = returned \o SubSeq(chunks, 1, h)
      /\ readBuf' = SubSeq(chunks, n + 1, Len(chunks))
  BY DEF Hand
<1>3. SubSeq(chunks, 1, h) \in Seq(ChunkSet) /\ SubSeq(chunks, n + 1, Len(chunks)) \in Seq(ChunkSet)
  BY <1>0, SMT
<1>4. SubSeq(chunks, 1, h) \o SubSeq(chunks, n + 1, Len(chunks)) = chunks
  <2>1. CASE n <= Len(chunks)
    <3>1. /\ 1 \in 1..(Len(chunks) + 1) /\ n \in (1 - 1)..Len(chunks)
          /\ Len(chunks) \in n..Len(chunks) /\ h = n
      BY <1>0, <2>1, SMT
    <3>2. SubSeq(chunks, 1, n) \o SubSeq(chunks, n + 1, Len(chunks)) = SubSeq(chunks, 1, Len(chunks))
      BY <3>1, ConcatAdjacentSubSeq
    <3> QED
      BY <3>1, <3>2, SubSeqFull
  <2>2. CASE ~(n <= Len(chunks))
    <3>1. h = Len(chunks) /\ n + 1 \in Int /\ Len(chunks) \in Int /\ Len(chunks) < n + 1
      BY <1>0, <2>2, SMT
    <3>2. SubSeq(chunks, n + 1, Len(chunks)) = <<>>
      BY <3>1, SubSeqEmpty
    <3> QED
      BY <3>1, <3>2, SubSeqFull, ConcatEmptySeq
  <2> QED
    BY <2>1, <2>2
<1>5. (returned \o SubSeq(chunks, 1, h)) \o SubSeq(chunks, n + 1, Len(chunks))
        = returned \o (SubSeq(chunks, 1, h) \o SubSeq(chunks, n + 1, Len(chunks)))
  <2> DEFINE a == SubSeq(chunks, 1, h)
             b == SubSeq(chunks, n + 1, Len(chunks))
  <2>1. a \in Seq(ChunkSet) /\ b \in Seq(ChunkSet)
    BY <1>3
  <2> HIDE DEF a, b
  <2>2. (returned \o a) \o b = returned \o (a \o b)
    BY <2>1, SMTT(30)
  <2> QED
    BY <2>2 DEF a, b
<1>6. returned' \in Seq(ChunkSet) /\ readBuf' \in Seq(ChunkSet)
  BY <1>2, <1>3, SMT
<1> QED
  BY <1>2, <1>4, <1>5, <1>6 DEF Stream

\* A message appended to the stream and to the list of messages.
LEMMA ConcatenatesAppend ==
  ASSUME NEW s \in Seq(ChunkSet), NEW ms \in Seq(Message), Concatenates(s, ms),
         Within(s, ms), NEW b, NEW cs \in Seq(ChunkSet)
  PROVE  LET ns == Append(ms, [by |-> b, chunks |-> cs, from |-> Len(s)])
         IN Concatenates(s \o cs, ns) /\ Within(s \o cs, ns)
<1> DEFINE m == [by |-> b, chunks |-> cs, from |-> Len(s)]
           ns == Append(ms, m)
<1>1. /\ Len(ms) \in Nat /\ Len(s) \in Nat /\ Len(cs) \in Nat /\ Len(s \o cs) = Len(s) + Len(cs)
      /\ \A i \in 1..Len(s) : (s \o cs)[i] = s[i]
      /\ \A i \in 1..Len(cs) : (s \o cs)[Len(s) + i] = cs[i]
      /\ DOMAIN ms = 1..Len(ms) /\ DOMAIN cs = 1..Len(cs)
  <2>1. /\ Len(ms) \in Nat /\ Len(s) \in Nat /\ Len(cs) \in Nat
        /\ DOMAIN ms = 1..Len(ms) /\ DOMAIN cs = 1..Len(cs)
    BY SMT
  <2>2. Len(s \o cs) = Len(s) + Len(cs) /\ \A i \in 1..Len(s) : (s \o cs)[i] = s[i]
    BY SMT
  <2>3. \A i \in 1..Len(cs) : (s \o cs)[Len(s) + i] = cs[i]
    <3> SUFFICES ASSUME NEW i \in 1..Len(cs) PROVE (s \o cs)[Len(s) + i] = cs[i]
      OBVIOUS
    <3>1. Len(s) + i \in 1..(Len(s) + Len(cs)) /\ ~(Len(s) + i <= Len(s)) /\ (Len(s) + i) - Len(s) = i
      BY <2>1, SMT
    <3>2. (s \o cs)[Len(s) + i] = cs[(Len(s) + i) - Len(s)]
      BY <3>1, ConcatProperties
    <3> QED
      BY <3>1, <3>2
  <2> QED
    BY <2>1, <2>2, <2>3
<1>2. /\ ns # <<>> /\ Len(ns) = Len(ms) + 1 /\ DOMAIN ns = 1..(Len(ms) + 1)
      /\ ns[Len(ms) + 1] = m /\ \A k \in 1..Len(ms) : ns[k] = ms[k]
  BY SMTT(30)
<1>3. m.chunks = cs /\ m.from = Len(s)
  OBVIOUS
<1>4. \A k \in 1..Len(ms) :
         /\ ms[k].from \in Nat /\ ms[k].chunks \in Seq(ChunkSet)
         /\ Len(ms[k].chunks) \in Nat /\ DOMAIN ms[k].chunks = 1..Len(ms[k].chunks)
  BY MessageParts
<1> HIDE DEF m, ns
<1>5. ASSUME NEW k \in 1..Len(ms)
      PROVE  /\ k = 1 => ns[k].from = 0
             /\ ns[k].from + Len(ns[k].chunks) = IF k = Len(ns) THEN Len(s \o cs) ELSE ns[k + 1].from
             /\ \A i \in DOMAIN ns[k].chunks : (s \o cs)[ns[k].from + i] = ns[k].chunks[i]
  <2>1. ns[k] = ms[k] /\ (k = 1 => ms[k].from = 0)
    BY <1>1, <1>2 DEF Concatenates
  <2>2. /\ ms[k].from + Len(ms[k].chunks) = IF k = Len(ms) THEN Len(s) ELSE ms[k + 1].from
        /\ \A i \in DOMAIN ms[k].chunks : s[ms[k].from + i] = ms[k].chunks[i]
    BY <1>1 DEF Concatenates
  <2>3. ns[k + 1].from = IF k = Len(ms) THEN Len(s) ELSE ms[k + 1].from
    <3>1. CASE k = Len(ms)
      BY <1>2, <1>3, <3>1
    <3>2. CASE k # Len(ms)
      <4>0. Len(ms) \in Nat
        BY <1>1
      <4>1. k + 1 \in 1..Len(ms)
        BY <3>2, <4>0, SMT
      <4> QED
        BY <1>2, <3>2, <4>1
    <3> QED
      BY <3>1, <3>2
  <2>4. k # Len(ns)
    BY <1>1, <1>2, SMT
  <2>5. ASSUME NEW i \in DOMAIN ms[k].chunks PROVE ms[k].from + i \in 1..Len(s)
    <3>1. ms[k].from + Len(ms[k].chunks) <= Len(s) /\ ms[k].from \in Nat
      BY <1>4 DEF Within
    <3>2. Len(ms[k].chunks) \in Nat /\ i \in 1..Len(ms[k].chunks)
      BY <1>4
    <3> QED
      BY <1>1, <3>1, <3>2, SMTT(30)
  <2> QED
    BY <1>1, <2>1, <2>2, <2>3, <2>4, <2>5
<1>6. LET k == Len(ms) + 1
      IN /\ k = 1 => ns[k].from = 0
         /\ ns[k].from + Len(ns[k].chunks) = IF k = Len(ns) THEN Len(s \o cs) ELSE ns[k + 1].from
         /\ \A i \in DOMAIN ns[k].chunks : (s \o cs)[ns[k].from + i] = ns[k].chunks[i]
  <2>1. Len(ms) + 1 = 1 => Len(s) = 0
    <3>1. Len(ms) + 1 = 1 => ms = <<>>
      BY SMT
    <3>2. ms = <<>> => s = <<>>
      BY DEF Concatenates
    <3>3. s = <<>> => Len(s) = 0
      BY SMT
    <3> QED
      BY <3>1, <3>2, <3>3
  <2> QED
    BY <1>1, <1>2, <1>3, <2>1
<1>7. \A k \in DOMAIN ns : k \in 1..Len(ms) \/ k = Len(ms) + 1
  BY <1>1, <1>2, SMT
<1>8. Concatenates(s \o cs, ns)
  BY <1>2, <1>5, <1>6, <1>7 DEF Concatenates
<1>9. Within(s \o cs, ns)
  <2>1. \A k \in 1..Len(ms) : ns[k] = ms[k] /\ ms[k].from + Len(ms[k].chunks) <= Len(s)
    BY <1>2 DEF Within
  <2>2. \A k \in 1..Len(ms) : ms[k].from \in Nat /\ Len(ms[k].chunks) \in Nat
    BY <1>4
  <2>3. \A k \in 1..Len(ms) : ns[k].from + Len(ns[k].chunks) <= Len(s \o cs)
    BY <1>1, <2>1, <2>2, SMT
  <2>4. ns[Len(ms) + 1].from + Len(ns[Len(ms) + 1].chunks) <= Len(s \o cs)
    BY <1>1, <1>2, <1>3, SMT
  <2> QED
    BY <1>2, <1>7, <2>3, <2>4 DEF Within
<1> QED
  BY <1>8, <1>9 DEF ns, m

-----------------------------------------------------------------------------
\* Write appends a packet with the next number.
LEMMA WritePackets ==
  ASSUME Numbering, NEW n \in 1..(MaxFragments + 1), Write(n)
  PROVE  /\ packetID' \in Nat /\ packetID' < IdSpace
         /\ packetID' = IF packetID + 1 = IdSpace THEN 0 ELSE packetID + 1
         /\ packets' \in Seq(Packets) /\ Len(packets') = Len(packets) + 1
         /\ packets'[Len(packets) + 1].id = packetID'
         /\ packets'[Len(packets) + 1].count = n
         /\ \A p \in 1..Len(packets) : packets'[p] = packets[p]
<1>1. /\ packetID' = (packetID + 1) % IdSpace
      /\ packets' = Append(packets, [id |-> packetID', count |-> n])
  BY DEF Write
<1>2. /\ IdSpace \in Nat \ {0} /\ MaxFragments \in Nat /\ packetID \in Nat /\ packetID < IdSpace
      /\ packets \in Seq(Packets)
  BY UdpFragmentsAssumption DEF Numbering
<1>3. (packetID + 1) % IdSpace = IF packetID + 1 = IdSpace THEN 0 ELSE packetID + 1
  BY <1>2, SMT
<1>4. packetID' \in Nat /\ packetID' < IdSpace
  BY <1>1, <1>2, <1>3, SMT
<1> DEFINE w == [id |-> packetID', count |-> n]
<1>5. n \in Nat \ {0}
  BY <1>2, SMT
<1>6. w \in Packets /\ w.id = packetID' /\ w.count = n
  BY <1>4, <1>5 DEF Packets
<1>7. packets' = Append(packets, w)
  BY <1>1
<1> HIDE DEF w
<1>8. /\ packets' \in Seq(Packets) /\ Len(packets') = Len(packets) + 1
      /\ packets'[Len(packets) + 1] = w
      /\ \A p \in 1..Len(packets) : packets'[p] = packets[p]
  BY <1>2, <1>6, <1>7, SMT
<1> QED
  BY <1>1, <1>3, <1>4, <1>6, <1>8

\* A packet once written stays as it is, and so do its datagrams.
LEMMA PacketsKept ==
  ASSUME Numbering, [Next]_vars
  PROVE  /\ packets' \in Seq(Packets) /\ Len(packets) \in Nat /\ Len(packets') \in Nat
         /\ Len(packets) <= Len(packets')
         /\ \A p \in 1..Len(packets) : p \in 1..Len(packets') /\ packets'[p] = packets[p]
         /\ \A p \in 1..Len(packets) :
              Chunks(p)' = Chunks(p) /\ \A i : Datagram(p, i)' = Datagram(p, i)
         /\ \A d : Genuine(d) => Genuine(d)'
<1>0. packets \in Seq(Packets) /\ Len(packets) \in Nat
  BY PacketParts DEF Numbering
<1>1. /\ packets' \in Seq(Packets) /\ Len(packets) <= Len(packets') /\ Len(packets') \in Nat
      /\ \A p \in 1..Len(packets) : packets'[p] = packets[p]
  <2>1. ASSUME NEW n \in 1..(MaxFragments + 1), Write(n) PROVE <1>1!:
    <3>1. /\ packets' \in Seq(Packets) /\ Len(packets') = Len(packets) + 1
          /\ \A p \in 1..Len(packets) : packets'[p] = packets[p]
      BY <2>1, WritePackets
    <3>2. Len(packets) <= Len(packets') /\ Len(packets') \in Nat
      BY <1>0, <3>1, SMT
    <3> QED
      BY <3>1, <3>2
  <2>2. ASSUME packets' = packets PROVE <1>1!:
    <3>1. Len(packets) <= Len(packets)
      BY <1>0, SMT
    <3> QED
      BY <1>0, <2>2, <3>1
  <2>3. (\E n \in 1..(MaxFragments + 1) : Write(n)) \/ packets' = packets
    BY DEF Next, SendDatagram, SendFails, Repeat, ReadBuffered, ReceiveSingle, ReceiveBeyond,
           ReceivePart, ReceiveLast, Take, vars, sendVars
  <2> QED
    BY <2>1, <2>2, <2>3
<1>2. \A p \in 1..Len(packets) : p \in 1..Len(packets')
  BY <1>0, <1>1, SMT
<1>3. \A p \in 1..Len(packets) :
         Chunks(p)' = Chunks(p) /\ \A i : Datagram(p, i)' = Datagram(p, i)
  BY <1>1 DEF Chunks, Datagram
<1>4. ASSUME NEW d, Genuine(d) PROVE Genuine(d)'
  BY <1>1, <1>2, <1>3, <1>4 DEF Genuine
<1> QED
  BY <1>0, <1>1, <1>2, <1>3, <1>4

\* Numbering: the number goes round with the length of the list.
LEMMA NumberingStep == ASSUME Numbering, [Next]_vars PROVE Numbering'
<1>0. packets \in Seq(Packets) /\ Len(packets) \in Nat /\ IdSpace \in Nat \ {0} /\ packetID \in Nat
  BY PacketParts, UdpFragmentsAssumption DEF Numbering
<1>1. ASSUME NEW n \in 1..(MaxFragments + 1), Write(n) PROVE Numbering'
  <2>1. /\ packetID' \in Nat /\ packetID' < IdSpace
        /\ packetID' = IF packetID + 1 = IdSpace THEN 0 ELSE packetID + 1
        /\ packets' \in Seq(Packets) /\ Len(packets') = Len(packets) + 1
        /\ packets'[Len(packets) + 1].id = packetID'
        /\ \A p \in 1..Len(packets) : packets'[p] = packets[p]
    BY <1>1, WritePackets
  <2>2. PICK k \in Nat : Len(packets) = k * IdSpace + packetID
    BY DEF Numbering
  <2>3. \E l \in Nat : Len(packets) + 1 = l * IdSpace + packetID'
    <3>1. CASE packetID + 1 = IdSpace
      <4>1. k + 1 \in Nat /\ (k + 1) * IdSpace = k * IdSpace + IdSpace /\ k * IdSpace \in Nat
        BY <1>0, SMT
      <4> DEFINE a == k * IdSpace
      <4>2. a \in Nat /\ Len(packets) = a + packetID /\ (k + 1) * IdSpace = a + IdSpace
        BY <2>2, <4>1
      <4> HIDE DEF a
      <4>3. Len(packets) + 1 = (a + IdSpace) + 0
        BY <1>0, <3>1, <4>2, SMT
      <4> QED
        BY <2>1, <3>1, <4>1, <4>2, <4>3
    <3>2. CASE packetID + 1 # IdSpace
      <4> DEFINE a == k * IdSpace
      <4>1. a \in Nat /\ Len(packets) = a + packetID
        BY <1>0, <2>2, SMT
      <4> HIDE DEF a
      <4>2. Len(packets) + 1 = a + (packetID + 1)
        BY <1>0, <4>1, SMT
      <4> QED
        BY <2>1, <3>2, <4>2 DEF a
    <3> QED
      BY <3>1, <3>2
  <2>4. ASSUME NEW p \in 1..Len(packets')
        PROVE  packets'[p].id < IdSpace /\ \E l \in Nat : p = l * IdSpace + packets'[p].id
    <3>1. p \in 1..Len(packets) \/ p = Len(packets) + 1
      BY <1>0, <2>1, SMT
    <3>2. CASE p \in 1..Len(packets)
      BY <2>1, <3>2 DEF Numbering
    <3>3. CASE p = Len(packets) + 1
      BY <2>1, <2>3, <3>3
    <3> QED
      BY <3>1, <3>2, <3>3
  <2> QED
    BY <2>1, <2>3, <2>4 DEF Numbering
<1>2. ASSUME UNCHANGED <<packetID, packets>> PROVE Numbering'
  BY <1>2 DEF Numbering
<1>3. (\E n \in 1..(MaxFragments + 1) : Write(n)) \/ UNCHANGED <<packetID, packets>>
  BY DEF Next, SendDatagram, SendFails, Repeat, ReadBuffered, ReceiveSingle, ReceiveBeyond,
         ReceivePart, ReceiveLast, Take, vars, sendVars
<1> QED
  BY <1>1, <1>2, <1>3

\* A datagram that was sent says which packet it is of and which chunk it carries.
LEMMA GenuineParts ==
  ASSUME Numbering, NEW d, Genuine(d), NEW p, p = d.payload.packet
  PROVE  /\ p \in 1..Len(packets) /\ p \in Nat \ {0}
         /\ d.id = packets[p].id /\ d.id \in Nat /\ d.count = packets[p].count /\ d.count \in Nat
         /\ d.index \in Nat /\ d.index < d.count /\ d.payload = Chunk(p, d.index)
         /\ d = Datagram(p, d.index)
         /\ d.payload \in ChunkSet /\ d.payload # Nil
<1>1. /\ p \in 1..Len(packets) /\ d.payload.index \in Nat /\ d.payload.index < packets[p].count
      /\ d = Datagram(p, d.payload.index)
  BY DEF Genuine
<1> DEFINE i == d.payload.index
<1>2. /\ Datagram(p, i).id = packets[p].id /\ Datagram(p, i).index = i
      /\ Datagram(p, i).count = packets[p].count /\ Datagram(p, i).payload = Chunk(p, i)
  BY DEF Datagram
<1>3. /\ d.id = packets[p].id /\ d.index = d.payload.index /\ d.count = packets[p].count
      /\ d.payload = Chunk(p, d.payload.index)
  BY <1>1, <1>2
<1>4. Len(packets) \in Nat /\ packets[p].id \in Nat /\ packets[p].count \in Nat
  BY <1>1, PacketParts DEF Numbering
<1>5. p \in Nat \ {0}
  BY <1>1, <1>4, SMT
<1>6. ASSUME NEW j \in Nat PROVE Chunk(p, j) \in ChunkSet /\ Chunk(p, j) # Nil
  <2>1. Chunk(p, j).packet = p /\ Nil.packet = 0 /\ p # 0
    BY <1>5 DEF Chunk, Nil
  <2> QED
    BY <1>5, <2>1 DEF Chunk, ChunkSet
<1> QED
  BY <1>1, <1>3, <1>4, <1>5, <1>6

\* Sending: next counts the chunks of the last packet.
LEMMA SendingStep == ASSUME Numbering, Sending, [Next]_vars PROVE Sending'
<1>0. packets \in Seq(Packets) /\ Len(packets) \in Nat /\ MaxFragments \in Nat
  BY PacketParts, UdpFragmentsAssumption DEF Numbering
<1>1. ASSUME NEW n \in 1..(MaxFragments + 1), Write(n) PROVE Sending'
  <2>1. /\ packets' \in Seq(Packets) /\ Len(packets') = Len(packets) + 1
        /\ packets'[Len(packets) + 1].count = n
    BY <1>1, WritePackets
  <2>2. next' = 0 /\ writing' = (n <= MaxFragments)
    BY <1>1 DEF Write
  <2>3. packets' # <<>> /\ 0 < n
    BY <1>0, <2>1, SMT
  <2>4. (n <= MaxFragments) \in BOOLEAN /\ 0 \in Nat
    BY SMT
  <2> QED
    BY <2>1, <2>2, <2>3, <2>4 DEF Sending
<1>2. ASSUME SendDatagram PROVE Sending'
  <2>1. packets' = packets /\ next' = next + 1 /\ writing /\ writing' = (next' < packets[Len(packets)].count)
    BY <1>2 DEF SendDatagram
  <2>2. next \in Nat /\ packets # <<>>
    BY <2>1 DEF Sending
  <2>3. next' \in Nat /\ (next' < packets[Len(packets)].count) \in BOOLEAN
    BY <2>1, <2>2, SMT
  <2> QED
    BY <2>1, <2>2, <2>3 DEF Sending
<1>3. ASSUME SendFails PROVE Sending'
  BY <1>3 DEF SendFails, Sending
<1>4. ASSUME UNCHANGED sendVars PROVE Sending'
  BY <1>4 DEF sendVars, Sending
<1>5. \/ \E n \in 1..(MaxFragments + 1) : Write(n)
      \/ SendDatagram \/ SendFails \/ UNCHANGED sendVars
  BY DEF Next, Repeat, ReadBuffered, ReceiveSingle, ReceiveBeyond, ReceivePart, ReceiveLast,
         Take, vars
<1> QED
  BY <1>1, <1>2, <1>3, <1>4, <1>5

\* What Read does to the bags when it receives d.
LEMMA Taken ==
  ASSUME Numbering, Transport, NEW d, Take(d)
  PROVE  /\ Genuine(d) /\ UNCHANGED sendVars /\ packets' = packets /\ readBuf = <<>>
         /\ DOMAIN network' \subseteq DOMAIN network
         /\ \A e \in DOMAIN network' : network'[e] \in Nat \ {0}
         /\ DOMAIN received' = DOMAIN received \cup {d}
         /\ \A e \in DOMAIN received' : received'[e] \in Nat \ {0}
         /\ \A e \in DOMAIN received : e # d => received'[e] = received[e]
         /\ received'[d] = IF d \in DOMAIN received THEN received[d] + 1 ELSE 1
<1>1. /\ d \in DOMAIN network /\ network' = OneLess(network, d)
      /\ received' = OneMore(received, d) /\ UNCHANGED sendVars /\ packets' = packets
      /\ readBuf = <<>>
  BY DEF Take, sendVars
<1>2. /\ \A e \in DOMAIN network : Genuine(e) /\ network[e] \in Nat \ {0}
      /\ \A e \in DOMAIN received : received[e] \in Nat \ {0}
  BY DEF Transport
<1>3. /\ DOMAIN network' \subseteq DOMAIN network
      /\ \A e \in DOMAIN network' : network'[e] \in Nat \ {0}
  BY <1>1, <1>2, BagLess
<1>4. received' = OneMore(received, d) /\ \A e \in DOMAIN received : received[e] \in Nat \ {0}
  BY <1>1, <1>2
<1>5. /\ DOMAIN received' = DOMAIN received \cup {d}
      /\ \A e \in DOMAIN received' : received'[e] \in Nat \ {0}
      /\ \A e \in DOMAIN received : e # d => received'[e] = received[e]
      /\ received'[d] = IF d \in DOMAIN received THEN received[d] + 1 ELSE 1
  <2>1. DOMAIN received' = DOMAIN received \cup {d}
    BY <1>4, BagMore
  <2>2. \A e \in DOMAIN received' : received'[e] \in Nat \ {0}
    BY <1>4, BagMore
  <2>3. \A e \in DOMAIN received : e # d => received'[e] = received[e]
    BY <1>4, SMT DEF OneMore, Put
  <2>4. received'[d] = IF d \in DOMAIN received THEN received[d] + 1 ELSE 1
    BY <1>4, SMT DEF OneMore, Put
  <2> QED
    BY <2>1, <2>2, <2>3, <2>4
<1> QED
  BY <1>1, <1>2, <1>3, <1>5

\* Transport: the network delivers what was sent, and Read receives what it delivers.
LEMMA TransportStep ==
  ASSUME Numbering, Sending, Transport, [Next]_vars PROVE Transport'
<1>0. \A d : Genuine(d) => Genuine(d)'
  BY PacketsKept
<1>1. /\ \A d \in DOMAIN network : Genuine(d) /\ network[d] \in Nat \ {0}
      /\ \A d \in DOMAIN received : Genuine(d) /\ received[d] \in Nat \ {0}
  BY DEF Transport
<1>2. ASSUME NEW d, Genuine(d), network' = OneMore(network, d), UNCHANGED received
      PROVE  Transport'
  <2>1. /\ DOMAIN network' = DOMAIN network \cup {d}
        /\ \A e \in DOMAIN network' : network'[e] \in Nat \ {0}
    BY <1>1, <1>2, BagMore
  <2> QED
    BY <1>0, <1>1, <1>2, <2>1 DEF Transport
<1>3. ASSUME SendDatagram PROVE Transport'
  <2> DEFINE d == Datagram(Len(packets), next)
  <2>1. Len(packets) \in 1..Len(packets) /\ next \in Nat /\ next < packets[Len(packets)].count
    <3>1. packets # <<>> /\ next \in Nat /\ next < packets[Len(packets)].count
      BY <1>3 DEF SendDatagram, Sending
    <3>2. packets \in Seq(Packets)
      BY DEF Numbering
    <3>3. Len(packets) \in 1..Len(packets)
      BY <3>1, <3>2, SMT
    <3> QED
      BY <3>1, <3>3
  <2>2. d.payload.packet = Len(packets) /\ d.payload.index = next
    BY DEF Datagram, Chunk
  <2>3. Genuine(d)
    BY <2>1, <2>2 DEF Genuine
  <2> QED
    BY <1>2, <1>3, <2>3 DEF SendDatagram
<1>4. ASSUME NEW d, Repeat(d) PROVE Transport'
  BY <1>1, <1>2, <1>4 DEF Repeat
<1>5. ASSUME NEW d, Take(d) PROVE Transport'
  <2>1. /\ Genuine(d)
        /\ DOMAIN network' \subseteq DOMAIN network
        /\ \A e \in DOMAIN network' : network'[e] \in Nat \ {0}
        /\ DOMAIN received' = DOMAIN received \cup {d}
        /\ \A e \in DOMAIN received' : received'[e] \in Nat \ {0}
    BY <1>5, Taken
  <2> QED
    BY <1>0, <1>1, <2>1 DEF Transport
<1>6. ASSUME UNCHANGED <<network, received>> PROVE Transport'
  BY <1>0, <1>1, <1>6 DEF Transport
<1>7. \/ SendDatagram \/ (\E d : Repeat(d)) \/ (\E d : Take(d)) \/ UNCHANGED <<network, received>>
  BY DEF Next, Write, SendFails, ReadBuffered, ReceiveSingle, ReceiveBeyond, ReceivePart,
         ReceiveLast, vars
<1> QED
  BY <1>3, <1>4, <1>5, <1>6, <1>7

\* What an entry becomes when the fragment d is stored in it.
LEMMA StoredParts ==
  ASSUME Numbering, Table, NEW d, Genuine(d), d.index \in DOMAIN Parts(d)
  PROVE  /\ \E m \in Nat : DOMAIN Parts(d) = 0..(m - 1)
         /\ IsFiniteSet(Filled(Parts(d))) /\ Count(d) = Cardinality(Filled(Parts(d)))
         /\ DOMAIN Stored(d) = DOMAIN Parts(d)
         /\ \A j \in DOMAIN Parts(d) : j # d.index => Stored(d)[j] = Parts(d)[j]
         /\ Stored(d)[d.index] = IF Parts(d)[d.index] = Nil THEN d.payload ELSE Parts(d)[d.index]
         /\ Filled(Stored(d)) = Filled(Parts(d)) \cup {d.index}
         /\ Counted(d) = Cardinality(Filled(Stored(d)))
         /\ \A j \in Filled(Parts(d)) :
              /\ d.id \in DOMAIN fragments /\ j \in Filled(fragments[d.id])
              /\ Parts(d)[j] = fragments[d.id][j] /\ Stored(d)[j] = Parts(d)[j]
<1>0. d.payload # Nil /\ d.count \in Nat
  BY GenuineParts
<1>1. /\ \E m \in Nat : DOMAIN Parts(d) = 0..(m - 1)
      /\ Count(d) = Cardinality(Filled(Parts(d)))
      /\ \A j \in Filled(Parts(d)) :
           /\ d.id \in DOMAIN fragments /\ j \in Filled(fragments[d.id])
           /\ Parts(d)[j] = fragments[d.id][j]
  <2>1. CASE d.id \in DOMAIN fragments
    <3>1. Parts(d) = fragments[d.id] /\ Count(d) = fragCounts[d.id]
      BY <2>1 DEF Parts, Count, Table
    <3>2. /\ \E m \in Nat : DOMAIN fragments[d.id] = 0..(m - 1)
          /\ fragCounts[d.id] = Cardinality(Filled(fragments[d.id]))
      BY <2>1 DEF Table, Entry
    <3> QED
      BY <2>1, <3>1, <3>2
  <2>2. CASE d.id \notin DOMAIN fragments
    <3>1. Parts(d) = [i \in 0..(d.count - 1) |-> Nil] /\ Count(d) = 0
      BY <2>2 DEF Parts, Count, Table
    <3>2. DOMAIN Parts(d) = 0..(d.count - 1) /\ Filled(Parts(d)) = {}
      BY <3>1 DEF Filled
    <3> QED
      BY <1>0, <3>1, <3>2, FS_EmptySet
  <2> QED
    BY <2>1, <2>2
<1>2. IsFiniteSet(Filled(Parts(d))) /\ Cardinality(Filled(Parts(d))) \in Nat
  <2>1. PICK m \in Nat : DOMAIN Parts(d) = 0..(m - 1)
    BY <1>1
  <2>2. Filled(Parts(d)) \subseteq 0..(m - 1)
    BY <2>1 DEF Filled
  <2> QED
    BY <2>2, Interval, FS_Subset, FS_CardinalityType
<1>3. /\ DOMAIN Stored(d) = DOMAIN Parts(d)
      /\ \A j \in DOMAIN Parts(d) : j # d.index => Stored(d)[j] = Parts(d)[j]
      /\ Stored(d)[d.index] = IF Parts(d)[d.index] = Nil THEN d.payload ELSE Parts(d)[d.index]
  BY DEF Stored
<1>4. Filled(Stored(d)) = Filled(Parts(d)) \cup {d.index}
  BY <1>0, <1>3 DEF Filled
<1>5. \A j \in Filled(Parts(d)) : Stored(d)[j] = Parts(d)[j]
  BY <1>3 DEF Filled
<1>6. Counted(d) = Cardinality(Filled(Stored(d)))
  <2>1. CASE Parts(d)[d.index] = Nil
    <3>1. Cardinality(Filled(Parts(d)) \cup {d.index}) = Cardinality(Filled(Parts(d))) + 1
      BY <1>2, <2>1, FS_AddElement DEF Filled
    <3> QED
      BY <1>1, <1>4, <2>1, <3>1 DEF Counted
  <2>2. CASE Parts(d)[d.index] # Nil
    <3>1. Filled(Stored(d)) = Filled(Parts(d))
      BY <1>4, <2>2 DEF Filled
    <3>2. Cardinality(Filled(Parts(d))) + 0 = Cardinality(Filled(Parts(d)))
      BY <1>2, SMT
    <3> QED
      BY <1>1, <2>2, <3>1, <3>2 DEF Counted
  <2> QED
    BY <2>1, <2>2
<1> QED
  BY <1>1, <1>2, <1>3, <1>4, <1>5, <1>6

\* Table: a fragment is stored under its number at its index, and counted once.
LEMMA TableStep ==
  ASSUME Numbering, Transport, Table, [Next]_vars PROVE Table'
<1>1. ASSUME NEW x, NEW parts, NEW count, NEW rs, NEW more, rs \subseteq more, Entry(x, parts, count, rs)
      PROVE  Entry(x, parts, count, more)
  BY <1>1 DEF Entry
<1>2. ASSUME DOMAIN received \subseteq DOMAIN received', UNCHANGED tableVars PROVE Table'
  <2>1. \A x \in DOMAIN fragments : Entry(x, fragments[x], fragCounts[x], DOMAIN received')
    BY <1>1, <1>2 DEF Table
  <2> QED
    BY <1>2, <2>1 DEF Table, tableVars
<1>3. ASSUME NEW d, Take(d) PROVE Genuine(d) /\ DOMAIN received' = DOMAIN received \cup {d}
  BY <1>3, Taken
<1>4. ASSUME NEW d, ReceivePart(d) PROVE Table'
  <2>1. /\ Genuine(d) /\ DOMAIN received' = DOMAIN received \cup {d}
        /\ d.count > 1 /\ d.index \in DOMAIN Parts(d)
        /\ fragments' = Put(fragments, d.id, Stored(d))
        /\ fragCounts' = Put(fragCounts, d.id, Counted(d))
    BY <1>3, <1>4 DEF ReceivePart
  <2>2. Entry(d.id, Stored(d), Counted(d), DOMAIN received')
    <3>1. /\ \E m \in Nat : DOMAIN Stored(d) = 0..(m - 1)
          /\ Filled(Stored(d)) = Filled(Parts(d)) \cup {d.index}
          /\ Counted(d) = Cardinality(Filled(Stored(d)))
          /\ Stored(d)[d.index] = IF Parts(d)[d.index] = Nil THEN d.payload ELSE Parts(d)[d.index]
          /\ \A j \in Filled(Parts(d)) :
               /\ d.id \in DOMAIN fragments /\ j \in Filled(fragments[d.id])
               /\ Stored(d)[j] = fragments[d.id][j]
      BY <2>1, StoredParts
    <3>2. ASSUME NEW j \in Filled(Parts(d))
          PROVE  \E e \in DOMAIN received' :
                    e.id = d.id /\ e.count > 1 /\ e.index = j /\ e.payload = Stored(d)[j]
      <4>1. /\ d.id \in DOMAIN fragments /\ j \in Filled(fragments[d.id])
            /\ Stored(d)[j] = fragments[d.id][j]
        BY <3>1
      <4>2. PICK e \in DOMAIN received :
               e.id = d.id /\ e.count > 1 /\ e.index = j /\ e.payload = fragments[d.id][j]
        <5>1. Entry(d.id, fragments[d.id], fragCounts[d.id], DOMAIN received)
          BY <4>1 DEF Table
        <5> QED
          BY <4>1, <5>1 DEF Entry
      <4> QED
        BY <2>1, <4>1, <4>2
    <3>3. d.index \notin Filled(Parts(d)) => Stored(d)[d.index] = d.payload
      BY <2>1, <3>1 DEF Filled
    <3>4. ASSUME NEW j \in Filled(Stored(d))
          PROVE  \E e \in DOMAIN received' :
                    e.id = d.id /\ e.count > 1 /\ e.index = j /\ e.payload = Stored(d)[j]
      BY <2>1, <3>1, <3>2, <3>3
    <3> QED
      BY <3>1, <3>4 DEF Entry
  <2>3. /\ DOMAIN fragments' = DOMAIN fragments \cup {d.id}
        /\ DOMAIN fragCounts' = DOMAIN fragments \cup {d.id}
        /\ fragments'[d.id] = Stored(d) /\ fragCounts'[d.id] = Counted(d)
        /\ \A x \in DOMAIN fragments : x # d.id => fragments'[x] = fragments[x]
                                                   /\ fragCounts'[x] = fragCounts[x]
    BY <2>1 DEF Put, Table
  <2>4. ASSUME NEW x \in DOMAIN fragments'
        PROVE  Entry(x, fragments'[x], fragCounts'[x], DOMAIN received')
    <3>1. CASE x = d.id
      BY <2>2, <2>3, <3>1
    <3>2. CASE x # d.id
      <4>1. x \in DOMAIN fragments /\ fragments'[x] = fragments[x] /\ fragCounts'[x] = fragCounts[x]
        BY <2>3, <3>2
      <4>2. Entry(x, fragments[x], fragCounts[x], DOMAIN received)
        BY <4>1 DEF Table
      <4>3. DOMAIN received \subseteq DOMAIN received'
        BY <2>1
      <4> QED
        BY <1>1, <4>1, <4>2, <4>3
    <3> QED
      BY <3>1, <3>2
  <2> QED
    BY <2>3, <2>4 DEF Table
<1>5. ASSUME NEW d, NEW n, ReceiveLast(d, n) PROVE Table'
  <2>1. /\ DOMAIN received \subseteq DOMAIN received'
        /\ fragments' = Restrict(fragments, DOMAIN fragments \ {d.id})
        /\ fragCounts' = Restrict(fragCounts, DOMAIN fragCounts \ {d.id})
    BY <1>3, <1>5 DEF ReceiveLast, Forget
  <2>2. /\ DOMAIN fragments' = DOMAIN fragments \ {d.id}
        /\ DOMAIN fragCounts' = DOMAIN fragments'
        /\ \A x \in DOMAIN fragments' : fragments'[x] = fragments[x] /\ fragCounts'[x] = fragCounts[x]
    BY <2>1 DEF Restrict, Table
  <2>3. ASSUME NEW x \in DOMAIN fragments'
        PROVE  Entry(x, fragments'[x], fragCounts'[x], DOMAIN received')
    <3>1. Entry(x, fragments[x], fragCounts[x], DOMAIN received)
      BY <2>2 DEF Table
    <3> QED
      BY <1>1, <2>1, <2>2, <3>1
  <2> QED
    BY <2>2, <2>3 DEF Table
<1>6. ASSUME NEW d, Take(d), UNCHANGED tableVars PROVE Table'
  BY <1>2, <1>3, <1>6
<1>7. ASSUME UNCHANGED <<received, tableVars>> PROVE Table'
  BY <1>2, <1>7
<1>8. \/ \E d : ReceivePart(d) \/ \E n : ReceiveLast(d, n)
      \/ \E d : Take(d) /\ UNCHANGED tableVars
      \/ UNCHANGED <<received, tableVars>>
  BY DEF Next, Write, SendDatagram, SendFails, Repeat, ReadBuffered, ReceiveSingle,
         ReceiveBeyond, vars
<1> QED
  BY <1>4, <1>5, <1>6, <1>7, <1>8

\* c is the chunk of index j of a packet of number x that was received in part.
Piece(c, x, j) ==
    /\ c \in ChunkSet /\ c = Chunk(c.packet, j) /\ j \in Nat
    /\ c.packet \in 1..Len(packets) /\ packets[c.packet].id = x
    /\ packets[c.packet].count > 1 /\ j < packets[c.packet].count
    /\ Datagram(c.packet, j) \in DOMAIN received

\* A part held in an entry is a fragment of a packet of the number, with the slot's index.
LEMMA HeldParts ==
  ASSUME Numbering, Transport, Table, NEW x \in DOMAIN fragments, NEW j \in Filled(fragments[x])
  PROVE  Piece(fragments[x][j], x, j)
<1> DEFINE c == fragments[x][j]
<1>1. Entry(x, fragments[x], fragCounts[x], DOMAIN received)
  BY DEF Table
<1>2. PICK e \in DOMAIN received : e.id = x /\ e.count > 1 /\ e.index = j /\ e.payload = c
  BY <1>1 DEF Entry
<1> HIDE DEF c
<1>3. Genuine(e)
  BY DEF Transport
<1>4. /\ c.packet \in 1..Len(packets)
      /\ e.id = packets[c.packet].id /\ e.count = packets[c.packet].count
      /\ e.index \in Nat /\ e.index < e.count /\ e.payload = Chunk(c.packet, e.index)
      /\ e = Datagram(c.packet, e.index)
      /\ e.payload \in ChunkSet
  BY <1>2, <1>3, GenuineParts
<1>5. Piece(c, x, j)
  BY <1>2, <1>4 DEF Piece
<1> QED
  BY <1>5 DEF c

\* The parts of an entry once the fragment d is stored in it.
LEMMA StoredChunks ==
  ASSUME Numbering, Transport, Table, NEW d, Genuine(d), d.index \in DOMAIN Parts(d),
         NEW j \in Filled(Stored(d)), NEW c, c = Stored(d)[j]
  PROVE  /\ c \in ChunkSet /\ c = Chunk(c.packet, j) /\ j \in Nat
         /\ c.packet \in 1..Len(packets) /\ packets[c.packet].id = d.id
         /\ j < packets[c.packet].count
         /\ \/ c = d.payload
            \/ d.id \in DOMAIN fragments /\ c \in Range(fragments[d.id])
         /\ \/ c.packet = d.payload.packet
            \/ packets[c.packet].count > 1 /\ Datagram(c.packet, j) \in DOMAIN received
<1>1. /\ Stored(d)[d.index] = IF Parts(d)[d.index] = Nil THEN d.payload ELSE Parts(d)[d.index]
      /\ Filled(Stored(d)) = Filled(Parts(d)) \cup {d.index}
      /\ \A k \in Filled(Parts(d)) :
           /\ d.id \in DOMAIN fragments /\ k \in Filled(fragments[d.id])
           /\ Stored(d)[k] = fragments[d.id][k]
  BY StoredParts
<1>2. CASE j \in Filled(Parts(d))
  <2>1. /\ d.id \in DOMAIN fragments /\ j \in Filled(fragments[d.id])
        /\ c = fragments[d.id][j]
    BY <1>1, <1>2
  <2>2. c \in Range(fragments[d.id])
    BY <2>1 DEF Filled, Range
  <2>3. Piece(c, d.id, j)
    BY <2>1, HeldParts
  <2> QED
    BY <2>1, <2>2, <2>3 DEF Piece
<1>3. CASE j \notin Filled(Parts(d))
  <2>1. j = d.index /\ c = d.payload
    BY <1>1, <1>3 DEF Filled
  <2> DEFINE p == d.payload.packet
  <2>2. /\ p \in 1..Len(packets) /\ d.id = packets[p].id /\ d.count = packets[p].count
        /\ d.index \in Nat /\ d.index < d.count /\ d.payload = Chunk(p, d.index)
        /\ d.payload \in ChunkSet
    BY GenuineParts
  <2> QED
    BY <2>1, <2>2
<1> QED
  BY <1>2, <1>3

\* What is put together when the count of the entry reaches the count of d: each part once, and
\* the packet of d if all parts are of that.
LEMMA LastPacket ==
  ASSUME Numbering, Transport, Table, NEW d, Genuine(d), d.index \in DOMAIN Parts(d),
         Counted(d) = d.count
  PROVE  /\ Joined(Stored(d)) \in Seq(ChunkSet)
         /\ \A k \in 1..Len(Joined(Stored(d))) :
              LET c == Joined(Stored(d))[k] IN
              /\ c.packet \in 1..Len(packets)
              /\ \/ c = d.payload
                 \/ d.id \in DOMAIN fragments /\ c \in Range(fragments[d.id])
         /\ \A k, l \in 1..Len(Joined(Stored(d))) :
              Joined(Stored(d))[k] = Joined(Stored(d))[l] => k = l
         /\ (\A j \in Filled(Stored(d)) : Stored(d)[j].packet = d.payload.packet)
               => Joined(Stored(d)) = Chunks(d.payload.packet)
         /\ \A j \in Filled(Stored(d)) : Stored(d)[j] \in Range(Joined(Stored(d)))
<1> DEFINE S == Stored(d)
           p == d.payload.packet
           J == Joined(S)
<1>1. \A j \in Filled(S) :
         /\ S[j] \in ChunkSet /\ S[j] = Chunk(S[j].packet, j) /\ j \in Nat
         /\ S[j].packet \in 1..Len(packets)
         /\ j < packets[S[j].packet].count
         /\ S[j] = d.payload \/ (d.id \in DOMAIN fragments /\ S[j] \in Range(fragments[d.id]))
  BY StoredChunks
<1>2. /\ \E m \in Nat : DOMAIN S = 0..(m - 1)
      /\ Cardinality(Filled(S)) = d.count
  BY StoredParts
<1>3. p \in 1..Len(packets) /\ d.count = packets[p].count /\ d.count \in Nat
  BY GenuineParts
<1> HIDE DEF S, p
<1>4. /\ J \in Seq(ChunkSet) /\ Len(J) = Cardinality(Filled(S)) /\ IsFiniteSet(Filled(S))
      /\ Joins(J, S)
  <2>1. PICK m \in Nat : DOMAIN S = 0..(m - 1)
    BY <1>2
  <2>2. \A j \in Filled(S) : S[j] \in ChunkSet
    BY <1>1
  <2> QED
    BY <2>1, <2>2, JoinedParts
<1>5. \A k \in 1..Len(J) :
         /\ J[k].packet \in 1..Len(packets)
         /\ J[k] = d.payload \/ (d.id \in DOMAIN fragments /\ J[k] \in Range(fragments[d.id]))
  BY <1>1, <1>4 DEF Joins
<1>6. ASSUME NEW k \in 1..Len(J), NEW l \in 1..Len(J), J[k] = J[l] PROVE k = l
  <2> DEFINE a == Position(Filled(S), k)
             b == Position(Filled(S), l)
  <2>1. a \in Filled(S) /\ b \in Filled(S) /\ S[a] = S[b] /\ Rank(Filled(S), a) = k /\ Rank(Filled(S), b) = l
    BY <1>4, <1>6 DEF Joins
  <2> HIDE DEF a, b
  <2>2. S[a].index = a /\ S[b].index = b
    <3>1. \A q, i : Chunk(q, i).index = i
      BY DEF Chunk
    <3>2. S[a] = Chunk(S[a].packet, a) /\ S[b] = Chunk(S[b].packet, b)
      BY <1>1, <2>1
    <3> DEFINE q == S[a].packet
               r == S[b].packet
    <3>3. S[a] = Chunk(q, a) /\ S[b] = Chunk(r, b)
      BY <3>2
    <3> HIDE DEF q, r
    <3>4. Chunk(q, a).index = a /\ Chunk(r, b).index = b
      BY <3>1
    <3> QED
      BY <3>3, <3>4
  <2> QED
    BY <2>1, <2>2
<1>7. ASSUME \A j \in Filled(S) : S[j].packet = p PROVE J = Chunks(p)
  <2>1. \A j \in Filled(S) : S[j] = Chunk(p, j) /\ j \in Nat /\ j < d.count
    BY <1>1, <1>3, <1>7
  <2>2. Filled(S) \subseteq 0..(d.count - 1)
    BY <1>3, <2>1, SMT
  <2>3. Filled(S) = 0..(d.count - 1)
    <3>1. IsFiniteSet(0..(d.count - 1)) /\ Cardinality(0..(d.count - 1)) = d.count
      BY <1>3, Interval
    <3> QED
      BY <1>2, <2>2, <3>1, FS_Subset
  <2>4. J = [k \in 1..d.count |-> S[k - 1]]
    BY <1>3, <2>3, JoinedWhole
  <2>5. \A k \in 1..d.count : k - 1 \in Filled(S)
    BY <1>3, <2>3, SMT
  <2>6. \A k \in 1..d.count : S[k - 1] = Chunk(p, k - 1)
    BY <2>1, <2>5
  <2>7. J = [k \in 1..d.count |-> Chunk(p, k - 1)]
    BY <2>4, <2>6
  <2> QED
    BY <1>3, <2>7 DEF Chunks
<1>8. \A j \in Filled(S) : S[j] \in Range(J)
  <2>1. DOMAIN J = 1..Len(J)
    BY <1>4, SMT
  <2> QED
    BY <1>4, <2>1 DEF Range, Joins
<1> QED
  BY <1>4, <1>5, <1>6, <1>7, <1>8 DEF S, p

\* A step that leaves the stream as it is.
LEMMA StreamKept ==
  ASSUME Numbering, Streaming, [Next]_vars, Stream' = Stream, delivered' = delivered,
         returned' \in Seq(ChunkSet), readBuf' \in Seq(ChunkSet)
  PROVE  Streaming'
<1>1. /\ Len(packets) \in Nat /\ Len(packets') \in Nat /\ Len(packets) <= Len(packets')
      /\ \A p \in 1..Len(packets) : p \in 1..Len(packets') /\ packets'[p] = packets[p]
  BY PacketsKept
<1>2. \A k \in 1..Len(Stream) : Stream[k].packet <= Len(packets')
  <2> SUFFICES ASSUME NEW k \in 1..Len(Stream) PROVE Stream[k].packet <= Len(packets')
    OBVIOUS
  <2>1. Stream[k].packet <= Len(packets)
    BY DEF Streaming
  <2>2. Stream[k] \in ChunkSet
    <3>1. returned \in Seq(ChunkSet) /\ readBuf \in Seq(ChunkSet)
      BY DEF Streaming
    <3>2. Stream \in Seq(ChunkSet)
      BY <3>1, ConcatProperties DEF Stream
    <3> QED
      BY <3>2, SMT
  <2>3. Stream[k].packet \in Nat
    BY <2>2 DEF ChunkSet
  <2> QED
    BY <1>1, <2>1, <2>3, SMTT(30)
<1>3. \A k \in 1..Len(delivered) :
         LET p == delivered[k].by IN
         p \in 1..Len(packets') /\ Faithful(delivered[k], packets'[p].count)
  BY <1>1 DEF Streaming
<1>4. delivered \in Seq(Message) /\ Concatenates(Stream, delivered) /\ Within(Stream, delivered)
  BY DEF Streaming
<1> QED
  BY <1>2, <1>3, <1>4 DEF Streaming

\* The step adds the packet J to the stream.
Adds(J) ==
    /\ Stream \in Seq(ChunkSet) /\ J \in Seq(ChunkSet) /\ Stream' = Stream \o J
    /\ Len(delivered) \in Nat /\ Len(delivered') = Len(delivered) + 1
    /\ delivered'[Len(delivered) + 1].chunks = J
    /\ \A k \in 1..Len(delivered) : delivered'[k] = delivered[k]

\* A step of Read that puts the packet J together when it receives d.
LEMMA Delivers ==
  ASSUME Numbering, Streaming, NEW d, Genuine(d), NEW J \in Seq(ChunkSet), NEW n \in 1..MaxBuffer,
         readBuf = <<>>, packets' = packets, Deliver(d, J, n),
         \A k \in 1..Len(J) : J[k].packet \in 1..Len(packets),
         \/ J = Chunks(d.payload.packet)
         \/ \E c \in Range(J) : \/ c.packet + IdSpace <= d.payload.packet
                                \/ d.payload.packet + IdSpace <= c.packet
  PROVE  Streaming' /\ Adds(J)
<1> DEFINE p == d.payload.packet
           m == [by |-> p, chunks |-> J, from |-> Len(returned)]
<1>0. /\ returned \in Seq(ChunkSet) /\ Len(returned) \in Nat
      /\ delivered \in Seq(Message) /\ Len(delivered) \in Nat
      /\ Concatenates(Stream, delivered) /\ Within(Stream, delivered)
  BY SMT DEF Streaming
<1>1. Stream = returned
  BY <1>0, ConcatEmptySeq DEF Stream
<1>2. p \in 1..Len(packets) /\ p \in Nat
  BY GenuineParts
<1>3. delivered' = Append(delivered, m) /\ Hand(J, n)
  BY DEF Deliver
<1>4. /\ returned' \in Seq(ChunkSet) /\ readBuf' \in Seq(ChunkSet)
      /\ Stream' = Stream \o J
  BY <1>0, <1>1, <1>3, HandKeeps
<1>5. m.by = p /\ m.chunks = J /\ m \in Message
  BY <1>0, <1>2 DEF Message
<1>6. Concatenates(Stream \o J, delivered') /\ Within(Stream \o J, delivered')
  BY <1>0, <1>1, <1>3, ConcatenatesAppend
<1>7. Faithful(m, packets[p].count)
  BY <1>5 DEF Faithful, Chunks
<1> HIDE DEF p, m
<1>8. /\ delivered' \in Seq(Message) /\ Len(delivered') = Len(delivered) + 1
      /\ delivered'[Len(delivered) + 1] = m
      /\ \A k \in 1..Len(delivered) : delivered'[k] = delivered[k]
  BY <1>0, <1>3, <1>5, SMTT(30)
<1>9. ASSUME NEW k \in 1..Len(delivered')
      PROVE  LET q == delivered'[k].by IN
             q \in 1..Len(packets') /\ Faithful(delivered'[k], packets'[q].count)
  <2>1. k \in 1..Len(delivered) \/ k = Len(delivered) + 1
    BY <1>0, <1>8, SMTT(30)
  <2>2. CASE k \in 1..Len(delivered)
    BY <1>8, <2>2 DEF Streaming
  <2>3. CASE k = Len(delivered) + 1
    BY <1>2, <1>5, <1>7, <1>8, <2>3
  <2> QED
    BY <2>1, <2>2, <2>3
<1>10. ASSUME NEW k \in 1..Len(Stream') PROVE Stream'[k].packet <= Len(packets')
  <2>1. Stream \in Seq(ChunkSet) /\ Len(Stream) \in Nat /\ Len(J) \in Nat /\ Len(packets) \in Nat
    <3>1. Len(J) \in Nat
      BY SMT
    <3> QED
      BY <1>0, <1>1, <3>1, PacketParts DEF Numbering
  <2>2. k \in 1..(Len(Stream) + Len(J)) /\ Len(Stream) \in Nat /\ Len(J) \in Nat /\ Len(packets) \in Nat
    BY <1>4, <2>1, ConcatProperties
  <2>3. (Stream \o J)[k] = IF k <= Len(Stream) THEN Stream[k] ELSE J[k - Len(Stream)]
    BY <2>1, <2>2, ConcatProperties
  <2>4. CASE k <= Len(Stream)
    <3>1. k \in 1..Len(Stream)
      BY <2>2, <2>4, SMT
    <3> QED
      BY <1>4, <2>3, <2>4, <3>1 DEF Streaming
  <2>5. CASE ~(k <= Len(Stream))
    <3>1. k - Len(Stream) \in 1..Len(J)
      BY <2>2, <2>5, SMTT(30)
    <3>2. J[k - Len(Stream)].packet \in 1..Len(packets)
      BY <3>1
    <3>3. J[k - Len(Stream)].packet <= Len(packets)
      BY <2>2, <3>2, SMTT(30)
    <3> QED
      BY <1>4, <2>3, <2>5, <3>3
  <2> QED
    BY <2>4, <2>5
<1>11. Streaming'
  BY <1>4, <1>6, <1>8, <1>9, <1>10 DEF Streaming
<1>12. delivered'[Len(delivered) + 1].chunks = J
  BY <1>5, <1>8
<1> QED
  BY <1>0, <1>1, <1>4, <1>8, <1>11, <1>12 DEF Adds

\* A packet of one fragment is delivered as it was written.
LEMMA SingleDelivers ==
  ASSUME Numbering, Transport, Streaming, NEW d, NEW n \in 1..MaxBuffer, ReceiveSingle(d, n)
  PROVE  /\ Streaming' /\ Adds(<<d.payload>>)
         /\ packets[d.payload.packet].count = 1 /\ d.index = 0
         /\ <<d.payload>> = Chunks(d.payload.packet)
<1> DEFINE p == d.payload.packet
<1>1. Take(d) /\ d.count <= 1 /\ Deliver(d, <<d.payload>>, n)
  BY DEF ReceiveSingle
<1>2. Genuine(d) /\ packets' = packets /\ readBuf = <<>>
  BY <1>1, Taken
<1>3. /\ p \in 1..Len(packets) /\ d.count = packets[p].count /\ d.count \in Nat /\ d.index \in Nat
      /\ d.index < d.count /\ d.payload = Chunk(p, d.index) /\ d.payload \in ChunkSet
  BY <1>2, GenuineParts
<1>4. d.count = 1 /\ d.index = 0
  BY <1>1, <1>3, SMTT(30)
<1>5. <<d.payload>> \in Seq(ChunkSet) /\ Len(<<d.payload>>) = 1 /\ <<d.payload>>[1] = d.payload
  BY <1>3, SMT
<1>6. <<d.payload>> = Chunks(p)
  <2>1. Chunks(p) = [i \in 1..1 |-> Chunk(p, i - 1)]
    BY <1>3, <1>4 DEF Chunks
  <2>2. d.payload = Chunk(p, 0)
    BY <1>3, <1>4
  <2> HIDE DEF p
  <2>3. [i \in 1..1 |-> Chunk(p, i - 1)] = <<Chunk(p, 0)>>
    BY SMT
  <2> QED
    BY <2>1, <2>2, <2>3
<1>7. \A k \in 1..Len(<<d.payload>>) : <<d.payload>>[k].packet \in 1..Len(packets)
  <2>1. \A k \in 1..1 : k = 1
    BY SMT
  <2> QED
    BY <1>3, <1>5, <2>1
<1>8. Streaming' /\ Adds(<<d.payload>>)
  BY <1>1, <1>2, <1>5, <1>6, <1>7, Delivers
<1> QED
  BY <1>3, <1>4, <1>6, <1>8

\* What ReceiveLast delivers.
LEMMA LastDelivers ==
  ASSUME Numbering, Transport, Table, Streaming, NEW d, NEW n \in 1..MaxBuffer, ReceiveLast(d, n)
  PROVE  Streaming' /\ Adds(Joined(Stored(d)))
<1> DEFINE p == d.payload.packet
           S == Stored(d)
           J == Joined(S)
<1>1. /\ Take(d) /\ d.count > 1 /\ d.index \in DOMAIN Parts(d) /\ Counted(d) = d.count
      /\ Deliver(d, J, n)
  BY DEF ReceiveLast
<1>2. Genuine(d) /\ packets' = packets /\ readBuf = <<>>
  BY <1>1, Taken
<1>3. /\ J \in Seq(ChunkSet) /\ \A k \in 1..Len(J) : J[k].packet \in 1..Len(packets)
      /\ (\A j \in Filled(S) : S[j].packet = p) => J = Chunks(p)
      /\ \A j \in Filled(S) : S[j] \in Range(J)
  BY <1>1, <1>2, LastPacket
<1>4. p \in 1..Len(packets) /\ d.id = packets[p].id
  BY <1>2, GenuineParts
<1>5. ASSUME NEW j \in Filled(S), S[j].packet # p
      PROVE  S[j].packet + IdSpace <= p \/ p + IdSpace <= S[j].packet
  <2> DEFINE q == S[j].packet
  <2>1. q \in 1..Len(packets) /\ packets[q].id = d.id
    BY <1>1, <1>2, StoredChunks
  <2> HIDE DEF q, p
  <2>2. Len(packets) \in Nat
    BY PacketParts DEF Numbering
  <2>3. q # p
    BY <1>5 DEF q, p
  <2>4. q < p \/ p < q
    BY <1>4, <2>1, <2>2, <2>3, SMTT(30)
  <2>5. q + IdSpace <= p \/ p + IdSpace <= q
    BY <1>4, <2>1, <2>4, Apart
  <2> QED
    BY <2>5 DEF q
<1>6. \/ J = Chunks(p)
      \/ \E c \in Range(J) : c.packet + IdSpace <= p \/ p + IdSpace <= c.packet
  BY <1>3, <1>5
<1> HIDE DEF J
<1>7. Streaming' /\ Adds(J)
  BY <1>1, <1>2, <1>3, <1>6, Delivers
<1> QED
  BY <1>7 DEF J

\* Streaming: Read returns the packets put together, one after the other.
LEMMA StreamingStep ==
  ASSUME Numbering, Transport, Table, Streaming, [Next]_vars PROVE Streaming'
<1>0. returned \in Seq(ChunkSet) /\ readBuf \in Seq(ChunkSet)
  BY DEF Streaming
<1>1. ASSUME NEW n \in 1..MaxBuffer, ReadBuffered(n) PROVE Streaming'
  <2>1. Hand(readBuf, n) /\ delivered' = delivered
    BY <1>1 DEF ReadBuffered
  <2>2. returned' \in Seq(ChunkSet) /\ readBuf' \in Seq(ChunkSet) /\ Stream' = returned \o readBuf
    BY <1>0, <2>1, HandKeeps
  <2>3. Stream' = Stream
    BY <2>2 DEF Stream
  <2> QED
    BY <2>1, <2>2, <2>3, StreamKept
<1>2. ASSUME UNCHANGED <<delivered, readBuf, returned>> PROVE Streaming'
  <2>1. Stream' = Stream
    BY <1>2 DEF Stream
  <2> QED
    BY <1>0, <1>2, <2>1, StreamKept
<1>3. ASSUME NEW d, NEW n \in 1..MaxBuffer, ReceiveSingle(d, n) PROVE Streaming'
  BY <1>3, SingleDelivers
<1>4. ASSUME NEW d, NEW n \in 1..MaxBuffer, ReceiveLast(d, n) PROVE Streaming'
  BY <1>4, LastDelivers
<1>5. \/ \E n \in 1..MaxBuffer : ReadBuffered(n) \/ \E d : ReceiveSingle(d, n) \/ ReceiveLast(d, n)
      \/ UNCHANGED <<delivered, readBuf, returned>>
  BY DEF Next, Write, SendDatagram, SendFails, Repeat, ReceiveBeyond, ReceivePart, vars
<1> QED
  BY <1>1, <1>2, <1>3, <1>4, <1>5

\* A chunk in the table is a piece of a packet of the entry's number.
LEMMA HeldPiece ==
  ASSUME Numbering, Transport, Table, NEW x, NEW c, c # Nil, Held(x, c)
  PROVE  c.packet \in 1..Len(packets) /\ packets[c.packet].id = x
<1>1. PICK j \in DOMAIN fragments[x] : x \in DOMAIN fragments /\ c = fragments[x][j]
  BY DEF Held, Range
<1>2. j \in Filled(fragments[x])
  BY <1>1 DEF Filled
<1>3. Piece(c, x, j)
  BY <1>1, <1>2, HeldParts
<1> QED
  BY <1>3 DEF Piece

\* A chunk of a written packet.
LEMMA ChunkParts ==
  ASSUME NEW p \in Nat \ {0}, NEW i
  PROVE  Chunk(p, i).packet = p /\ Chunk(p, i).index = i /\ Chunk(p, i) # Nil
<1>1. Chunk(p, i).packet = p /\ Chunk(p, i).index = i /\ Nil.packet = 0
  BY DEF Chunk, Nil
<1>2. p # 0
  BY SMT
<1> QED
  BY <1>1, <1>2

\* How often a datagram was received, before and after d is.
LEMMA CopiesGrow ==
  ASSUME Numbering, Transport, NEW d, Take(d), NEW p \in 1..Len(packets), NEW i \in Nat
  PROVE  /\ CopiesOf(Datagram(p, i)) \in Nat /\ CopiesOf(Datagram(p, i))' \in Nat
         /\ CopiesOf(Datagram(p, i)) <= CopiesOf(Datagram(p, i))'
         /\ Chunk(p, i) = d.payload
              => CopiesOf(Datagram(p, i))' = CopiesOf(Datagram(p, i)) + 1 /\ packets[p].id = d.id
<1> DEFINE e == Datagram(p, i)
<1>0. \A g \in DOMAIN received : received[g] \in Nat \ {0}
  BY DEF Transport
<1>1. /\ Genuine(d) /\ packets' = packets
      /\ DOMAIN received' = DOMAIN received \cup {d}
      /\ \A g \in DOMAIN received' : received'[g] \in Nat \ {0}
      /\ \A g \in DOMAIN received : g # d => received'[g] = received[g]
      /\ received'[d] = IF d \in DOMAIN received THEN received[d] + 1 ELSE 1
  BY Taken
<1>2. CopiesOf(Datagram(p, i))' = IF e \in DOMAIN received' THEN received'[e] ELSE 0
  BY <1>1 DEF CopiesOf, Datagram
<1>3. CopiesOf(Datagram(p, i)) = IF e \in DOMAIN received THEN received[e] ELSE 0
  BY DEF CopiesOf
<1> DEFINE a == CopiesOf(Datagram(p, i))
           b == CopiesOf(Datagram(p, i))'
<1>4. Chunk(p, i) = d.payload => e = d /\ packets[p].id = d.id
  <2>1. /\ d.payload = Chunk(d.payload.packet, d.index) /\ d = Datagram(d.payload.packet, d.index)
        /\ d.id = packets[d.payload.packet].id
    BY <1>1, GenuineParts
  <2>2. \A q, j : Chunk(q, j).packet = q /\ Chunk(q, j).index = j
    BY DEF Chunk
  <2>3. Chunk(p, i) = d.payload => d.payload.packet = p /\ d.index = i
    <3>1. Chunk(d.payload.packet, d.index).index = d.index
      BY <2>2
    <3>2. d.payload.index = d.index
      BY <2>1, <3>1
    <3>3. Chunk(p, i).packet = p /\ Chunk(p, i).index = i
      BY <2>2
    <3> QED
      BY <3>2, <3>3
  <2> QED
    BY <2>1, <2>3
<1> HIDE DEF e
<1>5. CASE e = d
  <2>1. b = IF d \in DOMAIN received THEN received[d] + 1 ELSE 1
    BY <1>1, <1>2, <1>5
  <2>2. a = IF d \in DOMAIN received THEN received[d] ELSE 0
    BY <1>3, <1>5
  <2>3. d \in DOMAIN received => received[d] \in Nat
    BY <1>0
  <2> HIDE DEF a, b
  <2>4. a \in Nat /\ b = a + 1
    <3>1. CASE d \in DOMAIN received
      BY <2>1, <2>2, <2>3, <3>1
    <3>2. CASE d \notin DOMAIN received
      <4>1. a = 0 /\ b = 1
        BY <2>1, <2>2, <3>2
      <4> QED
        BY <4>1, SMTT(30)
    <3> QED
      BY <3>1, <3>2
  <2>5. b \in Nat /\ a <= b
    BY <2>4, SMTT(30)
  <2> QED
    BY <1>4, <2>4, <2>5 DEF a, b
<1>6. CASE e # d
  <2>1. b = a
    <3>1. CASE e \in DOMAIN received
      BY <1>1, <1>2, <1>3, <1>6, <3>1
    <3>2. CASE e \notin DOMAIN received
      BY <1>1, <1>2, <1>3, <1>6, <3>2
    <3> QED
      BY <3>1, <3>2
  <2>2. a \in Nat
    <3>1. CASE e \in DOMAIN received
      BY <1>0, <1>3, <3>1
    <3>2. CASE e \notin DOMAIN received
      <4>1. a = 0
        BY <1>3, <3>2
      <4> HIDE DEF a
      <4> QED
        BY <4>1, SMT
    <3> QED
      BY <3>1, <3>2
  <2> HIDE DEF a, b
  <2>3. b \in Nat /\ a <= b
    BY <2>1, <2>2, SMTT(30)
  <2> QED
    BY <1>4, <1>6, <2>2, <2>3 DEF a, b
<1> QED
  BY <1>5, <1>6

\* A chunk of a packet not written yet is nowhere.
LEMMA NotYet ==
  ASSUME Numbering, Transport, Table, Streaming, NEW p \in Nat, Len(packets) < p, NEW i
  PROVE  Occurrences(Stream, Chunk(p, i)) = 0 /\ \A x : ~Held(x, Chunk(p, i))
<1>0. Len(packets) \in Nat /\ p \in Nat \ {0} /\ ~(p <= Len(packets)) /\ p \notin 1..Len(packets)
  <2>1. Len(packets) \in Nat
    BY PacketParts DEF Numbering
  <2> QED
    BY <2>1, SMT
<1>1. Chunk(p, i).packet = p /\ Chunk(p, i) # Nil
  BY <1>0, ChunkParts
<1>2. DOMAIN Stream = 1..Len(Stream)
  <2>1. returned \in Seq(ChunkSet) /\ readBuf \in Seq(ChunkSet)
    BY DEF Streaming
  <2> QED
    BY <2>1, SMT DEF Stream
<1>3. {k \in DOMAIN Stream : Stream[k] = Chunk(p, i)} = {}
  BY <1>0, <1>1, <1>2 DEF Streaming
<1>4. Occurrences(Stream, Chunk(p, i)) = 0
  BY <1>3, FS_EmptySet DEF Occurrences
<1>5. ASSUME NEW x, Held(x, Chunk(p, i)) PROVE FALSE
  BY <1>0, <1>1, <1>5, HeldPiece
<1> QED
  BY <1>4, <1>5

\* Copies, when Read receives d and what it stores or delivers is either the chunk of d or was
\* in the table before.
LEMMA CopiesTaken ==
  ASSUME Numbering, Transport, Streaming, Copies, NEW d, Take(d),
         NEW p \in 1..Len(packets), NEW i \in Nat, i < packets[p].count,
         \/ /\ Occurrences(Stream, Chunk(p, i))' = Occurrences(Stream, Chunk(p, i))
            /\ InTable(p, i)' <= InTable(p, i)
         \/ /\ Occurrences(Stream, Chunk(p, i))' <= Occurrences(Stream, Chunk(p, i)) + 1
            /\ Chunk(p, i) = d.payload /\ InTable(p, i)' <= InTable(p, i)
         \/ /\ Occurrences(Stream, Chunk(p, i))' = Occurrences(Stream, Chunk(p, i))
            /\ Chunk(p, i) = d.payload
         \/ /\ Occurrences(Stream, Chunk(p, i))' <= Occurrences(Stream, Chunk(p, i)) + 1
            /\ InTable(p, i) = 1 /\ InTable(p, i)' = 0,
         Occurrences(Stream, Chunk(p, i))' \in Nat
  PROVE  Occurrences(Stream, Chunk(p, i))' + InTable(p, i)' <= CopiesOf(Datagram(p, i))'
<1> DEFINE a == CopiesOf(Datagram(p, i))
           b == CopiesOf(Datagram(p, i))'
           o == Occurrences(Stream, Chunk(p, i))
           u == Occurrences(Stream, Chunk(p, i))'
           h == InTable(p, i)
           g == InTable(p, i)'
<1>1. o + h <= a
  BY DEF Copies
<1>2. a \in Nat /\ b \in Nat /\ a <= b /\ (Chunk(p, i) = d.payload => b = a + 1)
  BY CopiesGrow
<1>3. h \in {0, 1} /\ g \in {0, 1}
  BY DEF InTable
<1>4. o \in Nat /\ u \in Nat
  <2>1. returned \in Seq(ChunkSet) /\ readBuf \in Seq(ChunkSet)
    BY DEF Streaming
  <2>2. Stream \in Seq(ChunkSet)
    BY <2>1, ConcatProperties DEF Stream
  <2> QED
    BY <2>2, OccurrencesAppend
<1>5. \/ u = o /\ g <= h
      \/ u <= o + 1 /\ b = a + 1 /\ g <= h
      \/ u = o /\ b = a + 1
      \/ u <= o + 1 /\ h = 1 /\ g = 0
  BY <1>2
<1> HIDE DEF a, b, o, u, h, g
<1>6. u + g <= b
  BY <1>1, <1>2, <1>3, <1>4, <1>5, SMTT(30)
<1> QED
  BY <1>6 DEF u, g, b

\* Copies: a fragment goes into the table or into the stream when it is received, and from the
\* table into the stream once.
LEMMA CopiesStep ==
  ASSUME Numbering, Transport, Table, Streaming, Copies, [Next]_vars PROVE Copies'
<1>0. /\ Numbering' /\ Len(packets) \in Nat /\ Len(packets') \in Nat
      /\ \A p \in 1..Len(packets) : packets'[p] = packets[p]
      /\ \A p \in 1..Len(packets) : \A i : Datagram(p, i)' = Datagram(p, i)
  BY NumberingStep, PacketsKept
<1>s. Stream \in Seq(ChunkSet)
  <2>1. returned \in Seq(ChunkSet) /\ readBuf \in Seq(ChunkSet)
    BY DEF Streaming
  <2> QED
    BY <2>1, ConcatProperties DEF Stream
<1>t. ASSUME NEW p, NEW i, fragments' = fragments, packets' = packets
      PROVE  InTable(p, i)' = InTable(p, i) /\ InTable(p, i)' <= InTable(p, i)
  <2>1. InTable(p, i)' = InTable(p, i) /\ InTable(p, i) \in {0, 1}
    BY <1>t DEF InTable, Held
  <2>2. \A x \in {0, 1} : x <= x
    BY SMT
  <2> QED
    BY <2>1, <2>2
<1>1. ASSUME NEW n \in 1..(MaxFragments + 1), Write(n) PROVE Copies'
  <2>1. UNCHANGED <<received, fragments>> /\ Stream' = Stream
    BY <1>1 DEF Write, tableVars, Stream
  <2>2. Len(packets') = Len(packets) + 1
    BY <1>1, WritePackets
  <2> SUFFICES ASSUME NEW p \in 1..Len(packets'), NEW i \in Nat, i < packets'[p].count
               PROVE  Occurrences(Stream, Chunk(p, i))' + InTable(p, i)' <= CopiesOf(Datagram(p, i))'
    BY DEF Copies
  <2>3. CASE p \in 1..Len(packets)
    <3>1. Datagram(p, i)' = Datagram(p, i) /\ packets'[p] = packets[p]
      BY <1>0, <2>3
    <3>2. CopiesOf(Datagram(p, i))' = CopiesOf(Datagram(p, i))
      BY <2>1, <3>1 DEF CopiesOf
    <3>3. InTable(p, i)' = InTable(p, i)
      BY <2>1, <3>1 DEF InTable, Held
    <3>4. Occurrences(Stream, Chunk(p, i))' = Occurrences(Stream, Chunk(p, i))
      BY <2>1 DEF Occurrences
    <3>5. Occurrences(Stream, Chunk(p, i)) + InTable(p, i) <= CopiesOf(Datagram(p, i))
      BY <2>3, <3>1 DEF Copies
    <3> QED
      BY <3>2, <3>3, <3>4, <3>5
  <2>4. CASE p \notin 1..Len(packets)
    <3>1. p \in Nat /\ Len(packets) < p
      BY <1>0, <2>2, <2>4, SMTT(30)
    <3>2. Occurrences(Stream, Chunk(p, i)) = 0 /\ \A x : ~Held(x, Chunk(p, i))
      BY <3>1, NotYet
    <3>3. Occurrences(Stream, Chunk(p, i))' = 0
      BY <2>1, <3>2 DEF Occurrences
    <3>4. InTable(p, i)' = 0
      BY <2>1, <3>2 DEF InTable, Held
    <3>5. CopiesOf(Datagram(p, i))' \in Nat
      <4>1. \A e \in DOMAIN received' : received'[e] \in Nat
        BY <2>1 DEF Transport
      <4>2. 0 \in Nat
        BY SMT
      <4> QED
        BY <4>1, <4>2 DEF CopiesOf
    <3>6. \A y \in Nat : 0 + 0 <= y
      BY SMT
    <3> QED
      BY <3>3, <3>4, <3>5, <3>6
  <2> QED
    BY <2>3, <2>4
<1>2. ASSUME Stream' = Stream, UNCHANGED <<packets, received, fragments>> PROVE Copies'
  <2> SUFFICES ASSUME NEW p \in 1..Len(packets), NEW i \in Nat, i < packets[p].count
               PROVE  Occurrences(Stream, Chunk(p, i))' + InTable(p, i)' <= CopiesOf(Datagram(p, i))'
    BY <1>2 DEF Copies
  <2>1. InTable(p, i)' = InTable(p, i)
    BY <1>2, <1>t
  <2>2. Occurrences(Stream, Chunk(p, i))' = Occurrences(Stream, Chunk(p, i))
    BY <1>2 DEF Occurrences
  <2>3. CopiesOf(Datagram(p, i))' = CopiesOf(Datagram(p, i))
    BY <1>2 DEF CopiesOf, Datagram
  <2> QED
    BY <2>1, <2>2, <2>3 DEF Copies
<1>3. ASSUME NEW d, ReceiveBeyond(d) PROVE Copies'
  <2>1. Take(d) /\ packets' = packets /\ fragments' = fragments /\ Stream' = Stream
    BY <1>3 DEF ReceiveBeyond, Take, sendVars, tableVars, Stream
  <2> SUFFICES ASSUME NEW p \in 1..Len(packets), NEW i \in Nat, i < packets[p].count
               PROVE  Occurrences(Stream, Chunk(p, i))' + InTable(p, i)' <= CopiesOf(Datagram(p, i))'
    BY <2>1 DEF Copies
  <2>2. InTable(p, i)' <= InTable(p, i)
    BY <2>1, <1>t
  <2>3. /\ Occurrences(Stream, Chunk(p, i))' = Occurrences(Stream, Chunk(p, i))
        /\ Occurrences(Stream, Chunk(p, i))' \in Nat
    <3>1. Occurrences(Stream, Chunk(p, i))' = Occurrences(Stream, Chunk(p, i))
      BY <2>1 DEF Occurrences
    <3> QED
      BY <1>s, <3>1, OccurrencesAppend
  <2> QED
    BY <2>1, <2>2, <2>3, CopiesTaken
<1>4. ASSUME NEW d, NEW n \in 1..MaxBuffer, ReceiveSingle(d, n) PROVE Copies'
  <2>1. Take(d) /\ packets' = packets /\ fragments' = fragments
    BY <1>4 DEF ReceiveSingle, Take, sendVars, tableVars
  <2>2. Stream' = Stream \o <<d.payload>> /\ <<d.payload>> \in Seq(ChunkSet)
    BY <1>4, SingleDelivers DEF Adds
  <2>3. Len(<<d.payload>>) = 1 /\ <<d.payload>>[1] = d.payload
    BY SMT
  <2>4. \A k \in 1..1 : k = 1
    BY SMT
  <2> SUFFICES ASSUME NEW p \in 1..Len(packets), NEW i \in Nat, i < packets[p].count
               PROVE  Occurrences(Stream, Chunk(p, i))' + InTable(p, i)' <= CopiesOf(Datagram(p, i))'
    BY <2>1 DEF Copies
  <2>5. InTable(p, i)' <= InTable(p, i)
    BY <2>1, <1>t
  <2>6. Occurrences(Stream, Chunk(p, i))' = Occurrences(Stream \o <<d.payload>>, Chunk(p, i))
    BY <2>2 DEF Occurrences
  <2>7. Occurrences(Stream, Chunk(p, i))' \in Nat
    <3>1. Stream \o <<d.payload>> \in Seq(ChunkSet)
      BY <1>s, <2>2, ConcatProperties
    <3> QED
      BY <2>6, <3>1, OccurrencesAppend
  <2>8. CASE Chunk(p, i) = d.payload
    <3>1. \A k, l \in 1..Len(<<d.payload>>) : k = l
      BY <2>3, <2>4
    <3>2. Occurrences(Stream, Chunk(p, i))' <= Occurrences(Stream, Chunk(p, i)) + 1
      BY <1>s, <2>2, <2>6, <3>1, OccurrencesAppend
    <3> QED
      BY <2>1, <2>5, <2>7, <2>8, <3>2, CopiesTaken
  <2>9. CASE Chunk(p, i) # d.payload
    <3>1. \A k \in 1..Len(<<d.payload>>) : <<d.payload>>[k] # Chunk(p, i)
      BY <2>3, <2>4, <2>9
    <3>2. Occurrences(Stream, Chunk(p, i))' = Occurrences(Stream, Chunk(p, i))
      BY <1>s, <2>2, <2>6, <3>1, OccurrencesAppend
    <3> QED
      BY <2>1, <2>5, <2>7, <3>2, CopiesTaken
  <2> QED
    BY <2>8, <2>9
<1>5. ASSUME NEW d, ReceivePart(d) PROVE Copies'
  <2>1. /\ Take(d) /\ packets' = packets /\ Stream' = Stream /\ d.index \in DOMAIN Parts(d)
        /\ fragments' = Put(fragments, d.id, Stored(d))
    BY <1>5 DEF ReceivePart, Take, sendVars, Stream
  <2>2. Genuine(d)
    BY <2>1, Taken
  <2> SUFFICES ASSUME NEW p \in 1..Len(packets), NEW i \in Nat, i < packets[p].count
               PROVE  Occurrences(Stream, Chunk(p, i))' + InTable(p, i)' <= CopiesOf(Datagram(p, i))'
    BY <2>1 DEF Copies
  <2>3. /\ Occurrences(Stream, Chunk(p, i))' = Occurrences(Stream, Chunk(p, i))
        /\ Occurrences(Stream, Chunk(p, i))' \in Nat
    <3>1. Occurrences(Stream, Chunk(p, i))' = Occurrences(Stream, Chunk(p, i))
      BY <2>1 DEF Occurrences
    <3> QED
      BY <1>s, <3>1, OccurrencesAppend
  <2>4. CASE Chunk(p, i) = d.payload
    BY <2>1, <2>3, <2>4, CopiesTaken
  <2>5. CASE Chunk(p, i) # d.payload
    <3> DEFINE x == packets[p].id
               c == Chunk(p, i)
    <3>1. c # Nil
      <4>1. p \in Nat \ {0}
        BY <1>0, SMTT(30)
      <4> QED
        BY <4>1, ChunkParts
    <3>2. ASSUME Held(x, c)' PROVE Held(x, c)
      <4>1. x' = x /\ x \in DOMAIN fragments \cup {d.id}
            /\ c \in Range(IF x = d.id THEN Stored(d) ELSE fragments[x])
        BY <2>1, <3>2 DEF Held, Put
      <4>2. CASE x # d.id
        BY <4>1, <4>2 DEF Held
      <4>3. CASE x = d.id
        <5>1. PICK j \in DOMAIN Stored(d) : c = Stored(d)[j]
          BY <4>1, <4>3 DEF Range
        <5>2. j \in Filled(Stored(d))
          BY <3>1, <5>1 DEF Filled
        <5>3. c = d.payload \/ (d.id \in DOMAIN fragments /\ c \in Range(fragments[d.id]))
          BY <2>1, <2>2, <5>1, <5>2, StoredChunks
        <5> QED
          BY <2>5, <4>3, <5>3 DEF Held
      <4> QED
        BY <4>2, <4>3
    <3>3. InTable(p, i)' <= InTable(p, i)
      <4>1. 0 <= 0 /\ 0 <= 1 /\ 1 <= 1
        BY SMT
      <4> QED
        BY <2>1, <3>2, <4>1 DEF InTable
    <3> QED
      BY <2>1, <2>3, <3>3, CopiesTaken
  <2> QED
    BY <2>4, <2>5
<1>6. ASSUME NEW d, NEW n \in 1..MaxBuffer, ReceiveLast(d, n) PROVE Copies'
  <2> DEFINE J == Joined(Stored(d))
  <2>1. /\ Take(d) /\ packets' = packets /\ d.index \in DOMAIN Parts(d) /\ Counted(d) = d.count
        /\ fragments' = Restrict(fragments, DOMAIN fragments \ {d.id})
    BY <1>6 DEF ReceiveLast, Forget, Take, sendVars
  <2>2. Genuine(d)
    BY <2>1, Taken
  <2>3. Stream' = Stream \o J /\ J \in Seq(ChunkSet)
    BY <1>6, LastDelivers DEF Adds
  <2>4. /\ \A k \in 1..Len(J) :
             J[k] = d.payload \/ (d.id \in DOMAIN fragments /\ J[k] \in Range(fragments[d.id]))
        /\ \A k, l \in 1..Len(J) : J[k] = J[l] => k = l
    BY <2>1, <2>2, LastPacket
  <2> HIDE DEF J
  <2> SUFFICES ASSUME NEW p \in 1..Len(packets), NEW i \in Nat, i < packets[p].count
               PROVE  Occurrences(Stream, Chunk(p, i))' + InTable(p, i)' <= CopiesOf(Datagram(p, i))'
    BY <2>1 DEF Copies
  <2> DEFINE x == packets[p].id
             c == Chunk(p, i)
  <2>5. c # Nil /\ c.packet = p
    <3>1. p \in Nat \ {0}
      BY <1>0, SMT
    <3> QED
      BY <3>1, ChunkParts
  <2>6. x' = x /\ (Held(x, c)' => x # d.id /\ Held(x, c))
    BY <2>1 DEF Held, Restrict
  <2>7. InTable(p, i)' <= InTable(p, i)
    <3>1. 0 <= 0 /\ 0 <= 1 /\ 1 <= 1
      BY SMT
    <3> QED
      BY <2>6, <3>1 DEF InTable
  <2>8. Occurrences(Stream, c)' = Occurrences(Stream \o J, c)
    BY <2>3 DEF Occurrences
  <2>9. Occurrences(Stream, c)' \in Nat
    <3>1. Stream \o J \in Seq(ChunkSet)
      BY <1>s, <2>3, ConcatProperties
    <3> QED
      BY <2>8, <3>1, OccurrencesAppend
  <2>10. Occurrences(Stream, c)' <= Occurrences(Stream, c) + 1
    <3>1. \A k, l \in 1..Len(J) : J[k] = c /\ J[l] = c => k = l
      BY <2>4
    <3> QED
      BY <1>s, <2>3, <2>8, <3>1, OccurrencesAppend
  <2>11. CASE \A k \in 1..Len(J) : J[k] # c
    <3>1. Occurrences(Stream, c)' = Occurrences(Stream, c)
      BY <1>s, <2>3, <2>8, <2>11, OccurrencesAppend
    <3> QED
      BY <2>1, <2>7, <2>9, <3>1, CopiesTaken
  <2>12. CASE \E k \in 1..Len(J) : J[k] = c
    <3>1. c = d.payload \/ (d.id \in DOMAIN fragments /\ c \in Range(fragments[d.id]))
      BY <2>4, <2>12
    <3>2. CASE c = d.payload
      BY <2>1, <2>7, <2>9, <2>10, <3>2, CopiesTaken
    <3>3. CASE d.id \in DOMAIN fragments /\ c \in Range(fragments[d.id])
      <4>1. Held(d.id, c)
        BY <3>3 DEF Held
      <4> HIDE DEF c
      <4>2. packets[c.packet].id = d.id
        BY <2>5, <4>1, HeldPiece
      <4> USE DEF c
      <4>3. InTable(p, i) = 1 /\ InTable(p, i)' = 0
        BY <2>5, <2>6, <4>1, <4>2 DEF InTable
      <4> QED
        BY <2>1, <2>9, <2>10, <4>3, CopiesTaken
    <3> QED
      BY <3>1, <3>2, <3>3
  <2> QED
    BY <2>11, <2>12
<1>7. ASSUME NEW n \in 1..MaxBuffer, ReadBuffered(n) PROVE Copies'
  <2>1. Hand(readBuf, n) /\ UNCHANGED <<packets, received, fragments>>
    BY <1>7 DEF ReadBuffered, sendVars, tableVars
  <2>2. Stream' = Stream
    BY <2>1, HandKeeps DEF Stream, Streaming
  <2> QED
    BY <1>2, <2>1, <2>2
<1>8. ASSUME UNCHANGED <<packets, received, tableVars, readBuf, returned>> PROVE Copies'
  BY <1>2, <1>8 DEF Stream, tableVars
<1>9. \/ \E n \in 1..(MaxFragments + 1) : Write(n)
      \/ \E n \in 1..MaxBuffer : ReadBuffered(n) \/ \E d : ReceiveSingle(d, n) \/ ReceiveLast(d, n)
      \/ \E d : ReceiveBeyond(d) \/ ReceivePart(d)
      \/ UNCHANGED <<packets, received, tableVars, readBuf, returned>>
  BY DEF Next, SendDatagram, SendFails, Repeat, vars, sendVars
<1> QED
  BY <1>1, <1>3, <1>4, <1>5, <1>6, <1>7, <1>8, <1>9

\* What the receipt of d changes for the packet p.
LEMMA ArrivedGrows ==
  ASSUME Numbering, Transport, NEW d, Take(d), NEW p \in 1..Len(packets)
  PROVE  /\ Whole(p)' = Whole(p) /\ Chunks(p)' = Chunks(p)
         /\ d.payload.packet = p => Arrived(p)' = Arrived(p) \cup {d.index}
         /\ d.payload.packet # p => Arrived(p)' = Arrived(p)
         /\ ~Reused(p)' => /\ ~Reused(p)
                           /\ d.payload.packet # p => d.id # packets[p].id \/ ~(d.count > 1)
<1>1. Genuine(d) /\ packets' = packets /\ DOMAIN received' = DOMAIN received \cup {d}
  BY Taken
<1> DEFINE q == d.payload.packet
<1>2. /\ q \in 1..Len(packets) /\ d.index \in Nat /\ d.index < d.count /\ d.count = packets[q].count
      /\ d.count \in Nat /\ d = Datagram(q, d.index)
  BY <1>1, GenuineParts
<1>3. Whole(p)' = Whole(p) /\ Chunks(p)' = Chunks(p) /\ \A i : Datagram(p, i)' = Datagram(p, i)
  BY <1>1 DEF Whole, Chunks, Datagram
<1>4. Arrived(p)' = {i \in Whole(p) : Datagram(p, i) \in DOMAIN received \cup {d}}
  BY <1>1, <1>3 DEF Arrived
<1>5. \A i : Datagram(p, i).payload.packet = p /\ Datagram(p, i).index = i
  BY DEF Datagram, Chunk
<1>6. ASSUME q = p PROVE Arrived(p)' = Arrived(p) \cup {d.index}
  <2>1. d.index \in Whole(p)
    <3>1. d.index \in 0..(d.count - 1)
      BY <1>2, SMTT(30)
    <3> QED
      BY <1>2, <1>6, <3>1 DEF Whole
  <2>2. d = Datagram(p, d.index)
    BY <1>2, <1>6
  <2>3. \A i : Datagram(p, i) = d => i = d.index
    BY <1>5
  <2> QED
    BY <1>4, <2>1, <2>2, <2>3 DEF Arrived
<1>7. ASSUME q # p PROVE Arrived(p)' = Arrived(p)
  <2>1. \A i : Datagram(p, i) # d
    BY <1>5, <1>7
  <2> QED
    BY <1>4, <2>1 DEF Arrived
<1>8. ASSUME ~Reused(p)'
      PROVE  ~Reused(p) /\ (q # p => d.id # packets[p].id \/ ~(d.count > 1))
  BY <1>1, <1>8 DEF Reused
<1> QED
  BY <1>3, <1>6, <1>7, <1>8

\* A packet delivered stays delivered, and one added to the stream is.
LEMMA CompleteKept ==
  ASSUME NEW p, Chunks(p)' = Chunks(p)
  PROVE  /\ Complete(p) /\ delivered' = delivered => Complete(p)'
         /\ \A J : Adds(J) => (Complete(p) \/ J = Chunks(p) => Complete(p)')
<1>1. ASSUME NEW J, Adds(J), Complete(p) \/ J = Chunks(p) PROVE Complete(p)'
  <2>1. /\ Len(delivered) \in Nat /\ Len(delivered') = Len(delivered) + 1
        /\ delivered'[Len(delivered) + 1].chunks = J
        /\ \A k \in 1..Len(delivered) : delivered'[k] = delivered[k]
    BY <1>1 DEF Adds
  <2>2. /\ \A k \in 1..Len(delivered) : k \in 1..Len(delivered')
        /\ Len(delivered) + 1 \in 1..Len(delivered')
    BY <2>1, SMTT(30)
  <2>3. CASE Complete(p)
    <3>1. PICK k \in 1..Len(delivered) : delivered[k].chunks = Chunks(p)
      BY <2>3 DEF Complete
    <3>2. k \in 1..Len(delivered') /\ delivered'[k].chunks = Chunks(p)'
      BY <2>1, <2>2, <3>1
    <3> QED
      BY <3>2 DEF Complete
  <2>4. CASE J = Chunks(p)
    BY <2>1, <2>2, <2>4 DEF Complete
  <2> QED
    BY <1>1, <2>3, <2>4
<1>2. ASSUME Complete(p), delivered' = delivered PROVE Complete(p)'
  BY <1>2 DEF Complete
<1> QED
  BY <1>1, <1>2

\* A packet the received datagram is not of stays tracked, when its entry is left alone.
LEMMA OthersTracked ==
  ASSUME Numbering, Transport, NEW d, Take(d), NEW p \in 1..Len(packets), d.payload.packet # p,
         Tracked(p), Complete(p) => Complete(p)',
         packets[p].id \in DOMAIN fragments' <=> packets[p].id \in DOMAIN fragments,
         packets[p].id \in DOMAIN fragments => fragments'[packets[p].id] = fragments[packets[p].id]
  PROVE  Tracked(p)'
<1>1. packets' = packets
  BY Taken
<1>2. Whole(p)' = Whole(p) /\ Arrived(p)' = Arrived(p)
  BY ArrivedGrows
<1> DEFINE x == packets[p].id
<1>3. x' = x
  BY <1>1
<1>4. CASE Arrived(p) = Whole(p)
  BY <1>2, <1>4 DEF Tracked
<1>5. CASE Arrived(p) # Whole(p) /\ Arrived(p) = {}
  <2>1. x \notin DOMAIN fragments'
    BY <1>5 DEF Tracked
  <2> QED
    BY <1>2, <1>3, <1>5, <2>1 DEF Tracked
<1>6. CASE Arrived(p) # Whole(p) /\ Arrived(p) # {}
  <2>1. x \in DOMAIN fragments /\ DOMAIN fragments[x] = Whole(p) /\ Filled(fragments[x]) = Arrived(p)
    BY <1>6 DEF Tracked
  <2>2. x \in DOMAIN fragments' /\ fragments'[x] = fragments[x]
    BY <2>1
  <2> QED
    BY <1>2, <1>3, <1>6, <2>1, <2>2 DEF Tracked
<1> QED
  BY <1>4, <1>5, <1>6

\* The entry of a packet whose number is its own, as the received fragment d finds and leaves it.
LEMMA OwnEntry ==
  ASSUME Numbering, Transport, Table, NEW d, Take(d), d.count > 1,
         NEW p, p = d.payload.packet, Tracked(p), Arrived(p) # Whole(p)
  PROVE  /\ d.index \in DOMAIN Parts(d) /\ d.id = packets[p].id /\ d.count = packets[p].count
         /\ DOMAIN Stored(d) = Whole(p) /\ Filled(Stored(d)) = Arrived(p) \cup {d.index}
         /\ Counted(d) = d.count <=> Arrived(p) \cup {d.index} = Whole(p)
<1>1. Genuine(d)
  BY Taken
<1>2. /\ p \in 1..Len(packets) /\ d.id = packets[p].id /\ d.count = packets[p].count
      /\ d.index \in Nat /\ d.index < d.count /\ d.count \in Nat
  BY <1>1, GenuineParts
<1>3. d.index \in Whole(p) /\ Whole(p) = 0..(d.count - 1)
  <2>1. d.index \in 0..(d.count - 1)
    BY <1>2, SMT
  <2> QED
    BY <1>2, <2>1 DEF Whole
<1>4. DOMAIN Parts(d) = Whole(p) /\ Filled(Parts(d)) = Arrived(p)
  <2>1. CASE Arrived(p) = {}
    <3>1. Parts(d) = [i \in 0..(d.count - 1) |-> Nil]
      BY <1>2, <2>1 DEF Tracked, Parts
    <3> QED
      BY <1>3, <2>1, <3>1 DEF Filled
  <2>2. CASE Arrived(p) # {}
    BY <1>2, <2>2 DEF Tracked, Parts
  <2> QED
    BY <2>1, <2>2
<1>5. d.index \in DOMAIN Parts(d)
  BY <1>3, <1>4
<1>6. /\ DOMAIN Stored(d) = DOMAIN Parts(d) /\ Filled(Stored(d)) = Filled(Parts(d)) \cup {d.index}
      /\ Counted(d) = Cardinality(Filled(Stored(d)))
  BY <1>1, <1>5, StoredParts
<1>7. IsFiniteSet(Whole(p)) /\ Cardinality(Whole(p)) = d.count
  BY <1>2, <1>3, Interval
<1> DEFINE A == Arrived(p) \cup {d.index}
<1>8. A \subseteq Whole(p) /\ Counted(d) = Cardinality(A)
  BY <1>3, <1>4, <1>6 DEF Arrived
<1>9. Counted(d) = d.count <=> A = Whole(p)
  <2> HIDE DEF A
  <2>1. A = Whole(p) => Counted(d) = d.count
    BY <1>7, <1>8
  <2>2. Counted(d) = d.count => A = Whole(p)
    BY <1>7, <1>8, FS_Subset
  <2> QED
    BY <2>1, <2>2
<1> QED
  BY <1>2, <1>4, <1>5, <1>6, <1>9

\* A packet just written has no fragment received, and no entry unless its number is in use.
LEMMA NewTracked ==
  ASSUME Numbering, Transport, Table, NEW n \in 1..(MaxFragments + 1), Write(n), [Next]_vars,
         NEW p, p = Len(packets) + 1, ~Reused(p)'
  PROVE  Tracked(p)'
<1>1. UNCHANGED <<received, fragments>>
  BY DEF Write, tableVars
<1>2. Len(packets) \in Nat /\ packets'[p].count = n /\ MaxFragments \in Nat
  BY WritePackets, PacketParts, UdpFragmentsAssumption DEF Numbering
<1>3. p \notin 1..Len(packets) /\ 0 \in 0..(n - 1)
  BY <1>2, SMT
<1>4. Arrived(p)' = {}
  <2>1. ASSUME NEW i, Datagram(p, i)' \in DOMAIN received PROVE FALSE
    <3> DEFINE e == Datagram(p, i)'
    <3>1. e.payload.packet = p
      BY DEF Datagram, Chunk
    <3> HIDE DEF e
    <3>2. Genuine(e)
      BY <2>1 DEF Transport, e
    <3> QED
      BY <1>3, <3>1, <3>2 DEF Genuine
  <2> QED
    BY <1>1, <2>1 DEF Arrived
<1>5. Arrived(p)' # Whole(p)'
  BY <1>2, <1>3, <1>4 DEF Whole
<1>6. packets'[p].id \notin DOMAIN fragments
  <2> DEFINE x == packets'[p].id
  <2> SUFFICES ASSUME x \in DOMAIN fragments PROVE FALSE
    OBVIOUS
  <2>1. PICK j \in Filled(fragments[x]) : TRUE
    BY DEF Table, Entry
  <2> DEFINE c == fragments[x][j]
             e == Datagram(c.packet, j)
  <2>2. Piece(c, x, j)
    BY HeldParts
  <2> HIDE DEF c
  <2>3. /\ c.packet \in 1..Len(packets) /\ packets[c.packet].id = x /\ packets[c.packet].count > 1
        /\ e \in DOMAIN received
    BY <2>2 DEF Piece
  <2>4. e.payload.packet = c.packet /\ e.id = packets[c.packet].id /\ e.count = packets[c.packet].count
    BY DEF Datagram, Chunk
  <2> HIDE DEF e, x
  <2>5. e \in DOMAIN received' /\ e.payload.packet # p /\ e.id = x /\ e.count > 1
    BY <1>1, <1>3, <2>3, <2>4
  <2> QED
    BY <2>5 DEF Reused, x
<1> QED
  BY <1>1, <1>4, <1>5, <1>6 DEF Tracked

\* Progress: the fragments of a packet whose number is its own end up together.
LEMMA ProgressStep ==
  ASSUME Numbering, Transport, Table, Streaming, Progress, [Next]_vars PROVE Progress'
<1>0. /\ Len(packets) \in Nat
      /\ \A p \in 1..Len(packets) : packets'[p] = packets[p]
      /\ \A p \in 1..Len(packets) :
           Chunks(p)' = Chunks(p) /\ \A i : Datagram(p, i)' = Datagram(p, i)
  BY PacketsKept
<1>1. ASSUME NEW n \in 1..(MaxFragments + 1), Write(n) PROVE Progress'
  <2>1. UNCHANGED <<received, fragments, delivered>>
    BY <1>1 DEF Write, tableVars
  <2>2. Len(packets') = Len(packets) + 1
    BY <1>1, WritePackets
  <2> SUFFICES ASSUME NEW p \in 1..Len(packets'), ~Reused(p)' PROVE Tracked(p)'
    BY DEF Progress
  <2>3. CASE p \in 1..Len(packets)
    <3>1. packets'[p] = packets[p] /\ Chunks(p)' = Chunks(p) /\ \A i : Datagram(p, i)' = Datagram(p, i)
      BY <1>0, <2>3
    <3>2. Whole(p)' = Whole(p) /\ Arrived(p)' = Arrived(p) /\ (Complete(p) => Complete(p)')
      <4>1. Whole(p)' = Whole(p)
        BY <3>1 DEF Whole
      <4>2. Arrived(p)' = Arrived(p)
        <5>1. received' = received /\ (DOMAIN received)' = DOMAIN received
          BY <2>1
        <5>2. Arrived(p)' = {i \in Whole(p) : Datagram(p, i)' \in DOMAIN received}
          BY <4>1, <5>1 DEF Arrived
        <5>3. \A i : i \in Arrived(p)' <=> i \in Arrived(p)
          BY <3>1, <5>2 DEF Arrived
        <5> QED
          BY <5>3
      <4> QED
        BY <2>1, <3>1, <4>1, <4>2 DEF Complete
    <3>3. Reused(p)' = Reused(p)
      BY <2>1, <3>1 DEF Reused
    <3>4. Tracked(p)
      BY <2>3, <3>3 DEF Progress
    <3> QED
      BY <2>1, <3>1, <3>2, <3>4 DEF Tracked
  <2>4. CASE p \notin 1..Len(packets)
    <3>1. p = Len(packets) + 1
      BY <1>0, <2>2, <2>4, SMTT(30)
    <3> QED
      BY <1>1, <3>1, NewTracked
  <2> QED
    BY <2>3, <2>4
<1>2. ASSUME UNCHANGED <<packets, received, fragments, delivered>> PROVE Progress'
  <2> SUFFICES ASSUME NEW p \in 1..Len(packets), ~Reused(p)' PROVE Tracked(p)'
    BY <1>2 DEF Progress
  <2>1. Reused(p)' = Reused(p) /\ Tracked(p)' = Tracked(p)
    BY <1>2 DEF Reused, Tracked, Whole, Arrived, Complete, Chunks, Datagram
  <2> QED
    BY <2>1 DEF Progress
<1>3. ASSUME NEW d, Take(d),
             \A p \in 1..Len(packets) : ~Reused(p)' /\ Tracked(p) => Tracked(p)'
      PROVE  Progress'
  <2>1. packets' = packets
    BY <1>3, Taken
  <2> SUFFICES ASSUME NEW p \in 1..Len(packets), ~Reused(p)' PROVE Tracked(p)'
    BY <2>1 DEF Progress
  <2>2. ~Reused(p)
    BY <1>3, ArrivedGrows
  <2> QED
    BY <1>3, <2>2 DEF Progress
<1>4. ASSUME NEW d, NEW n \in 1..MaxBuffer, ReceiveSingle(d, n) PROVE Progress'
  <2>1. Take(d) /\ fragments' = fragments
    BY <1>4 DEF ReceiveSingle, tableVars
  <2>2. /\ Adds(<<d.payload>>) /\ packets[d.payload.packet].count = 1 /\ d.index = 0
        /\ <<d.payload>> = Chunks(d.payload.packet)
    BY <1>4, SingleDelivers
  <2>3. ASSUME NEW p \in 1..Len(packets), ~Reused(p)', Tracked(p) PROVE Tracked(p)'
    <3>1. /\ Whole(p)' = Whole(p) /\ Chunks(p)' = Chunks(p)
          /\ d.payload.packet = p => Arrived(p)' = Arrived(p) \cup {d.index}
      BY <2>1, ArrivedGrows
    <3>2. CASE d.payload.packet = p
      <4>1. Complete(p)'
        BY <2>2, <3>1, <3>2, CompleteKept
      <4>2. Whole(p) = {0}
        <5>1. 0..(1 - 1) = {0}
          BY SMT
        <5> QED
          BY <2>2, <3>2, <5>1 DEF Whole
      <4>3. Arrived(p)' = Whole(p)'
        BY <2>2, <3>1, <3>2, <4>2 DEF Arrived
      <4> QED
        BY <4>1, <4>3 DEF Tracked
    <3>3. CASE d.payload.packet # p
      <4>1. Complete(p) => Complete(p)'
        BY <2>2, <3>1, CompleteKept
      <4> QED
        BY <2>1, <2>3, <3>3, <4>1, OthersTracked
    <3> QED
      BY <3>2, <3>3
  <2> QED
    BY <1>3, <2>1, <2>3
<1>5. ASSUME NEW d, ReceiveBeyond(d) PROVE Progress'
  <2>1. /\ Take(d) /\ fragments' = fragments /\ delivered' = delivered
        /\ d.count > 1 /\ d.index \notin DOMAIN Parts(d)
    BY <1>5 DEF ReceiveBeyond, tableVars
  <2>2. ASSUME NEW p \in 1..Len(packets), ~Reused(p)', Tracked(p) PROVE Tracked(p)'
    <3>1. /\ Whole(p)' = Whole(p) /\ Chunks(p)' = Chunks(p)
          /\ d.payload.packet = p => Arrived(p)' = Arrived(p) \cup {d.index}
      BY <2>1, ArrivedGrows
    <3>2. Complete(p) => Complete(p)'
      BY <2>1, <3>1, CompleteKept
    <3>3. CASE d.payload.packet # p
      BY <2>1, <2>2, <3>2, <3>3, OthersTracked
    <3>4. CASE d.payload.packet = p
      <4>1. Arrived(p) = Whole(p)
        BY <2>1, <2>2, <3>4, OwnEntry
      <4>2. Arrived(p)' = Whole(p)'
        BY <3>1, <3>4, <4>1 DEF Arrived
      <4> QED
        BY <2>2, <3>2, <4>1, <4>2 DEF Tracked
    <3> QED
      BY <3>3, <3>4
  <2> QED
    BY <1>3, <2>1, <2>2
<1>6. ASSUME NEW d, ReceivePart(d) PROVE Progress'
  <2>1. /\ Take(d) /\ delivered' = delivered /\ d.count > 1 /\ Counted(d) # d.count
        /\ fragments' = Put(fragments, d.id, Stored(d))
    BY <1>6 DEF ReceivePart
  <2>2. ASSUME NEW p \in 1..Len(packets), ~Reused(p)', Tracked(p) PROVE Tracked(p)'
    <3>1. /\ Whole(p)' = Whole(p) /\ Chunks(p)' = Chunks(p)
          /\ d.payload.packet = p => Arrived(p)' = Arrived(p) \cup {d.index}
          /\ d.payload.packet # p => d.id # packets[p].id
      BY <2>1, <2>2, ArrivedGrows
    <3>2. Complete(p) => Complete(p)'
      BY <2>1, <3>1, CompleteKept
    <3>3. CASE d.payload.packet # p
      <4> DEFINE x == packets[p].id
      <4>1. /\ x \in DOMAIN fragments' <=> x \in DOMAIN fragments
            /\ x \in DOMAIN fragments => fragments'[x] = fragments[x]
        BY <2>1, <3>1, <3>3 DEF Put
      <4> QED
        BY <2>1, <2>2, <3>2, <3>3, <4>1, OthersTracked
    <3>4. CASE d.payload.packet = p /\ Arrived(p) = Whole(p)
      <4>1. Arrived(p)' = Whole(p)'
        BY <3>1, <3>4 DEF Arrived
      <4> QED
        BY <2>2, <3>2, <3>4, <4>1 DEF Tracked
    <3>5. CASE d.payload.packet = p /\ Arrived(p) # Whole(p)
      <4>1. /\ d.id = packets[p].id /\ DOMAIN Stored(d) = Whole(p)
            /\ Filled(Stored(d)) = Arrived(p) \cup {d.index}
            /\ Arrived(p) \cup {d.index} # Whole(p)
        BY <2>1, <2>2, <3>5, OwnEntry
      <4>2. packets' = packets
        BY <2>1, Taken
      <4>3. d.id \in DOMAIN fragments' /\ fragments'[d.id] = Stored(d)
        BY <2>1 DEF Put
      <4>4. Arrived(p)' # Whole(p)' /\ Arrived(p)' # {}
        BY <3>1, <3>5, <4>1
      <4>5. packets'[p].id = d.id
        BY <4>1, <4>2
      <4>6. DOMAIN fragments'[d.id] = Whole(p)' /\ Filled(fragments'[d.id]) = Arrived(p)'
        BY <3>1, <3>5, <4>1, <4>3
      <4> QED
        BY <4>3, <4>4, <4>5, <4>6 DEF Tracked
    <3> QED
      BY <3>3, <3>4, <3>5
  <2> QED
    BY <1>3, <2>1, <2>2
<1>7. ASSUME NEW d, NEW n \in 1..MaxBuffer, ReceiveLast(d, n) PROVE Progress'
  <2> DEFINE J == Joined(Stored(d))
  <2>1. /\ Take(d) /\ d.count > 1 /\ Counted(d) = d.count /\ d.index \in DOMAIN Parts(d)
        /\ fragments' = Restrict(fragments, DOMAIN fragments \ {d.id})
    BY <1>7 DEF ReceiveLast, Forget
  <2>2. Adds(J)
    BY <1>7, LastDelivers
  <2>3. ASSUME NEW p \in 1..Len(packets), ~Reused(p)', Tracked(p) PROVE Tracked(p)'
    <3>1. /\ Whole(p)' = Whole(p) /\ Chunks(p)' = Chunks(p) /\ ~Reused(p)
          /\ d.payload.packet = p => Arrived(p)' = Arrived(p) \cup {d.index}
          /\ d.payload.packet # p => d.id # packets[p].id
      BY <2>1, <2>3, ArrivedGrows
    <3>2. Complete(p) => Complete(p)'
      BY <2>2, <3>1, CompleteKept
    <3>3. CASE d.payload.packet # p
      <4> DEFINE x == packets[p].id
      <4>1. /\ x \in DOMAIN fragments' <=> x \in DOMAIN fragments
            /\ x \in DOMAIN fragments => fragments'[x] = fragments[x]
        BY <2>1, <3>1, <3>3 DEF Restrict
      <4> QED
        BY <2>1, <2>3, <3>2, <3>3, <4>1, OthersTracked
    <3>4. CASE d.payload.packet = p /\ Arrived(p) = Whole(p)
      <4>1. Arrived(p)' = Whole(p)'
        BY <3>1, <3>4 DEF Arrived
      <4> QED
        BY <2>3, <3>2, <3>4, <4>1 DEF Tracked
    <3>5. CASE d.payload.packet = p /\ Arrived(p) # Whole(p)
      <4>1. Arrived(p)' = Whole(p)'
        BY <2>1, <2>3, <3>1, <3>5, OwnEntry
      <4>2. Genuine(d)
        BY <2>1, Taken
      <4>3. ASSUME NEW j \in Filled(Stored(d)) PROVE Stored(d)[j].packet = p
        <5> DEFINE c == Stored(d)[j]
                   e == Datagram(c.packet, j)
        <5>1. /\ packets[c.packet].id = d.id
              /\ \/ c.packet = d.payload.packet
                 \/ packets[c.packet].count > 1 /\ e \in DOMAIN received
          BY <2>1, <4>2, StoredChunks
        <5>2. e.payload.packet = c.packet /\ e.id = packets[c.packet].id
                /\ e.count = packets[c.packet].count
          BY DEF Datagram, Chunk
        <5>3. d.id = packets[p].id
          BY <2>1, <2>3, <3>5, OwnEntry
        <5> HIDE DEF c, e
        <5>4. ASSUME c.packet # p PROVE FALSE
          <6>1. e \in DOMAIN received /\ e.payload.packet # p /\ e.id = packets[p].id /\ e.count > 1
            BY <3>5, <5>1, <5>2, <5>3, <5>4
          <6> QED
            BY <3>1, <6>1 DEF Reused
        <5> QED
          BY <5>4 DEF c
      <4>4. J = Chunks(p)
        BY <2>1, <3>5, <4>2, <4>3, LastPacket
      <4>5. Complete(p)'
        BY <2>2, <3>1, <4>4, CompleteKept
      <4> QED
        BY <4>1, <4>5 DEF Tracked
    <3> QED
      BY <3>3, <3>4, <3>5
  <2> QED
    BY <1>3, <2>1, <2>3
<1>8. \/ \E n \in 1..(MaxFragments + 1) : Write(n)
      \/ \E n \in 1..MaxBuffer : \E d : ReceiveSingle(d, n) \/ ReceiveLast(d, n)
      \/ \E d : ReceiveBeyond(d) \/ ReceivePart(d)
      \/ UNCHANGED <<packets, received, fragments, delivered>>
  BY DEF Next, SendDatagram, SendFails, Repeat, ReadBuffered, vars, sendVars, tableVars
<1> QED
  BY <1>1, <1>2, <1>4, <1>5, <1>6, <1>7, <1>8

-----------------------------------------------------------------------------
\* Nothing is sent, stored or returned at first.
LEMMA Start == Init => IInv
<1> SUFFICES ASSUME Init PROVE IInv
  OBVIOUS
<1>1. \A S : <<>> \in Seq(S)
  BY SMT
<1>2. Len(<<>>) = 0 /\ 1..0 = {} /\ DOMAIN <<>> = {} /\ <<>> \o <<>> = <<>>
  BY SMT
<1>3. /\ packets = <<>> /\ packetID = 0 /\ next = 0 /\ writing = FALSE
      /\ DOMAIN network = {} /\ DOMAIN received = {} /\ fragments = <<>> /\ fragCounts = <<>>
      /\ delivered = <<>> /\ readBuf = <<>> /\ returned = <<>>
  BY <1>2 DEF Init
<1>4. Numbering
  <2>1. 0 \in Nat /\ 0 < IdSpace /\ 0 = 0 * IdSpace + 0
    BY UdpFragmentsAssumption, SMTT(30)
  <2> QED
    BY <1>1, <1>2, <1>3, <2>1 DEF Numbering
<1>5. Sending
  <2>1. 0 \in Nat
    BY SMT
  <2> QED
    BY <1>3, <2>1 DEF Sending
<1>6. Transport /\ Table
  BY <1>2, <1>3 DEF Transport, Table
<1>7. Streaming
  BY <1>1, <1>2, <1>3 DEF Streaming, Stream, Concatenates, Within
<1>8. Copies /\ Progress
  BY <1>2, <1>3 DEF Copies, Progress
<1> QED
  BY <1>4, <1>5, <1>6, <1>7, <1>8 DEF IInv

\* What every step of Write, of the network and of Read keeps: the invariant behind the three
\* properties below.
THEOREM Invariance == Spec => []IInv
<1>1. ASSUME IInv, [Next]_vars PROVE IInv'
  <2> USE <1>1 DEF IInv
  <2> QED
    BY NumberingStep, SendingStep, TransportStep, TableStep, StreamingStep, CopiesStep, ProgressStep
<1> QED
  BY Start, <1>1, PTL DEF Spec

\* Read returns the packets put together in order, and each is exactly a written packet unless
\* it mixes packets a whole round of the packet numbers apart (handleIncomingDatagram).
THEOREM IntactHolds == Spec => []Intact
<1>1. IInv => Intact
  <2> SUFFICES ASSUME IInv PROVE Intact
    OBVIOUS
  <2>1. Concatenates(Stream, delivered) /\ delivered \in Seq(Message)
    BY DEF IInv, Streaming
  <2>2. DOMAIN delivered = 1..Len(delivered)
    BY <2>1, SMT
  <2>3. \A k \in 1..Len(delivered) : Faithful(delivered[k], packets[delivered[k].by].count)
    BY DEF IInv, Streaming
  <2>4. ASSUME NEW k \in DOMAIN delivered
        PROVE  LET p == delivered[k].by IN
               \/ delivered[k].chunks = Chunks(p)
               \/ \E c \in Range(delivered[k].chunks) :
                     c.packet + IdSpace <= p \/ p + IdSpace <= c.packet
    BY <2>2, <2>3 DEF Faithful, Chunks
  <2> QED
    BY <2>1, <2>4 DEF Intact
<1> QED
  BY Invariance, <1>1, PTL

\* No chunk is returned more often than its datagram was received (delete of the entry in
\* handleIncomingDatagram).
THEOREM NoReplayHolds == Spec => []NoReplay
<1>1. IInv => NoReplay
  <2> SUFFICES ASSUME IInv, NEW d \in DOMAIN received
               PROVE  Occurrences(Stream, d.payload) <= received[d]
    BY DEF NoReplay
  <2>1. Genuine(d) /\ received[d] \in Nat
    BY DEF IInv, Transport
  <2> DEFINE p == d.payload.packet
             i == d.index
  <2>2. /\ p \in 1..Len(packets) /\ d.count = packets[p].count /\ i \in Nat /\ i < d.count
        /\ d.payload = Chunk(p, i) /\ d = Datagram(p, i)
    BY <2>1, GenuineParts DEF IInv
  <2>3. Occurrences(Stream, Chunk(p, i)) + InTable(p, i) <= CopiesOf(Datagram(p, i))
    BY <2>2 DEF IInv, Copies
  <2>4. CopiesOf(d) = received[d]
    BY DEF CopiesOf
  <2>5. InTable(p, i) \in {0, 1}
    BY DEF InTable
  <2>6. Occurrences(Stream, d.payload) \in Nat
    <3>1. returned \in Seq(ChunkSet) /\ readBuf \in Seq(ChunkSet)
      BY DEF IInv, Streaming
    <3>2. Stream \in Seq(ChunkSet)
      BY <3>1, ConcatProperties DEF Stream
    <3> QED
      BY <3>2, OccurrencesAppend
  <2> DEFINE o == Occurrences(Stream, d.payload)
             h == InTable(p, i)
  <2>7. o + h <= received[d] /\ o \in Nat /\ h \in {0, 1}
    BY <2>2, <2>3, <2>4, <2>5, <2>6
  <2> HIDE DEF o, h
  <2>8. o <= received[d]
    BY <2>1, <2>7, SMTT(30)
  <2> QED
    BY <2>8 DEF o
<1> QED
  BY Invariance, <1>1, PTL

\* A packet all of whose fragments were received, in any order, has been delivered, and if none
\* came twice nothing of it is left in the table, unless its number was used by another packet.
THEOREM CompleteIsDeliveredHolds == Spec => []CompleteIsDelivered
<1>1. ASSUME IInv PROVE CompleteIsDelivered
  <2> USE <1>1
  <2>0. packets \in Seq(Packets) /\ DOMAIN packets = 1..Len(packets)
    <3>1. packets \in Seq(Packets)
      BY DEF IInv, Numbering
    <3> QED
      BY <3>1, SMT
  <2> SUFFICES ASSUME NEW p \in 1..Len(packets), Datagrams(p) \subseteq DOMAIN received, ~Reused(p)
               PROVE  /\ \E k \in DOMAIN delivered : delivered[k].chunks = Chunks(p)
                      /\ (\A d \in Datagrams(p) : received[d] = 1)
                            => packets[p].id \notin DOMAIN fragments
    BY <2>0 DEF CompleteIsDelivered
  <2>1. Arrived(p) = Whole(p)
    BY DEF Arrived, Whole, Datagrams
  <2>2. PICK k \in 1..Len(delivered) : delivered[k].chunks = Chunks(p)
    BY <2>1 DEF IInv, Progress, Tracked, Complete
  <2>3. delivered \in Seq(Message) /\ DOMAIN delivered = 1..Len(delivered)
    <3>1. delivered \in Seq(Message)
      BY DEF IInv, Streaming
    <3> QED
      BY <3>1, SMTT(30)
  <2>4. ASSUME packets[p].id \in DOMAIN fragments, \A d \in Datagrams(p) : received[d] = 1
        PROVE  FALSE
    <3> DEFINE x == packets[p].id
    <3>1. PICK j \in Filled(fragments[x]) : TRUE
      BY <2>4 DEF IInv, Table, Entry
    <3> DEFINE c == fragments[x][j]
               e == Datagram(c.packet, j)
    <3>2. Piece(c, x, j) /\ c \in Range(fragments[x])
      <4>1. Piece(c, x, j)
        BY <2>4, HeldParts DEF IInv
      <4> QED
        BY <4>1 DEF Range, Filled
    <3>3. Held(x, c)
      BY <2>4, <3>2 DEF Held
    <3> HIDE DEF c
    <3>4. /\ c = Chunk(c.packet, j) /\ j \in Nat /\ packets[c.packet].id = x
          /\ packets[c.packet].count > 1 /\ j < packets[c.packet].count /\ e \in DOMAIN received
      BY <3>2 DEF Piece
    <3>5. e.payload.packet = c.packet /\ e.id = packets[c.packet].id
            /\ e.count = packets[c.packet].count
      BY DEF Datagram, Chunk
    <3>6. c.packet = p
      BY <3>4, <3>5 DEF Reused
    <3> DEFINE n == packets[p].count
    <3>7. c = Chunk(p, j) /\ j < n /\ e = Datagram(p, j) /\ n \in Nat
      BY <2>0, <3>4, <3>6, PacketParts
    <3>8. e \in Datagrams(p)
      <4>1. j \in 0..(n - 1)
        BY <3>4, <3>7, SMTT(30)
      <4> QED
        BY <3>7, <4>1 DEF Datagrams
    <3>9. CopiesOf(Datagram(p, j)) = 1
      BY <2>4, <3>4, <3>7, <3>8 DEF CopiesOf
    <3>10. InTable(p, j) = 1
      BY <3>3, <3>7 DEF InTable
    <3>11. Occurrences(Stream, c) + 1 <= 1
      BY <3>4, <3>7, <3>9, <3>10 DEF IInv, Copies
    <3>12. \E l \in DOMAIN Stream : Stream[l] = c
      <4>1. /\ DOMAIN delivered[k].chunks = 1..n /\ delivered[k].from \in Nat
            /\ delivered[k].chunks = [i \in 1..n |-> Chunk(p, i - 1)]
        <5>1. delivered[k].from \in Nat
          BY <2>3, MessageParts
        <5> QED
          BY <2>2, <5>1 DEF Chunks
      <4>2. j + 1 \in 1..n /\ (j + 1) - 1 = j
        BY <3>4, <3>7, SMTT(30)
      <4>3. delivered[k].chunks[j + 1] = c
        BY <3>7, <4>1, <4>2
      <4>4. Stream[delivered[k].from + (j + 1)] = c
        BY <2>3, <4>1, <4>2, <4>3 DEF IInv, Streaming, Concatenates
      <4>5. delivered[k].from + (j + 1) \in 1..Len(Stream) /\ DOMAIN Stream = 1..Len(Stream)
        <5>1. returned \in Seq(ChunkSet) /\ readBuf \in Seq(ChunkSet)
          BY DEF IInv, Streaming
        <5>2. DOMAIN Stream = 1..Len(Stream) /\ Len(Stream) \in Nat
          BY <5>1, SMTT(30) DEF Stream
        <5>3. delivered[k].from + Len(delivered[k].chunks) <= Len(Stream)
          BY DEF IInv, Streaming, Within
        <5>4. Len(delivered[k].chunks) = n
          <6>1. delivered[k].chunks \in Seq(ChunkSet)
            BY <2>3, MessageParts
          <6> QED
            BY <3>7, <4>1, <6>1, SMTT(30)
        <5>5. j + 1 \in Nat /\ 1 <= j + 1 /\ j + 1 <= n
          BY <3>4, <3>7, <4>2, SMTT(30)
        <5> QED
          BY <3>7, <4>1, <5>2, <5>3, <5>4, <5>5, SMTT(30)
      <4> QED
        BY <4>4, <4>5
    <3>13. Occurrences(Stream, c) \in Nat /\ Occurrences(Stream, c) # 0
      <4>1. returned \in Seq(ChunkSet) /\ readBuf \in Seq(ChunkSet)
        BY DEF IInv, Streaming
      <4>2. Stream \in Seq(ChunkSet)
        BY <4>1, ConcatProperties DEF Stream
      <4> QED
        BY <3>12, <4>2, Occurs
    <3> DEFINE o == Occurrences(Stream, c)
    <3>14. o \in Nat /\ o # 0 /\ o + 1 <= 1
      BY <3>11, <3>13
    <3> HIDE DEF o
    <3> QED
      BY <3>14, SMTT(30)
  <2> QED
    BY <2>2, <2>3, <2>4
<1> QED
  BY Invariance, <1>1, PTL

=============================================================================
