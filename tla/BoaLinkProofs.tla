--------------------------- MODULE BoaLinkProofs ---------------------------
(***************************************************************************)
(* Programmer and computer at the two ends of a line that disturbs bytes,  *)
(* for every set of sessions and every size of the buffers, blocks and     *)
(* memory: as long as no length has been disturbed, a byte on the line is  *)
(* the next one of the packet that its receiver is in the middle of.       *)
(***************************************************************************)
EXTENDS BoaLink, SequenceTheorems, FiniteSetTheorems, TLAPS

Bytes == 0 .. Base - 1

----------------------------------------------------------------------------
(* Sums.                                                                   *)

\* Every set of natural numbers that is not empty has a least element.
LEMMA Minimum ==
  ASSUME NEW T, T \subseteq Nat, T # {}
  PROVE \E x \in T : \A y \in T : x <= y
<1> DEFINE R == StrictSubsetOrdering(Nat)  S == FiniteSubsetsOf(Nat)  F == {0 .. x : x \in T}
<1>1. IsWellFoundedOn(R, S)
  BY FS_StrictSubsetOrderingWellFounded
<1>2. F \subseteq S /\ F # {}
  <2>1. ASSUME NEW x \in T PROVE 0 .. x \in S
    <3>1. IsFiniteSet(0 .. x)
      BY FS_Interval, x \in Int
    <3> QED BY <3>1 DEF FiniteSubsetsOf
  <2> QED BY <2>1
<1>3. PICK a \in F : \A b \in F : <<b, a>> \notin R
  <2> HIDE DEF R, S, F
  <2> QED BY <1>1, <1>2, WFMin
<1>4. PICK x \in T : a = 0 .. x
  BY <1>3
<1>5. ASSUME NEW y \in T, y < x PROVE FALSE
  <2>1. 0 .. y \in F /\ 0 .. y \subseteq a /\ x \in a /\ x \notin 0 .. y
    BY <1>4, <1>5
  <2>2. <<0 .. y, a>> \in R
    BY <2>1, <1>4 DEF StrictSubsetOrdering
  <2> QED BY <2>1, <2>2, <1>3
<1> QED BY <1>5

\* A set with 0 that has the next of each of its numbers has all up to n.
LEMMA Upto ==
  ASSUME NEW n \in Nat, NEW T, 0 \in T, \A i \in 0 .. n - 1 : i \in T => i + 1 \in T
  PROVE  \A i \in 0 .. n : i \in T
<1> DEFINE F == {i \in 0 .. n : i \notin T}
<1>1. SUFFICES ASSUME F # {} PROVE FALSE
  OBVIOUS
<1>2. F \subseteq Nat
  OBVIOUS
<1>3. PICK x \in F : \A y \in F : x <= y
  <2> HIDE DEF F
  <2> QED BY <1>1, <1>2, Minimum
<1>4. x \in 1 .. n /\ x - 1 \in 0 .. n - 1
  BY <1>3
<1>5. x - 1 \in T
  BY <1>3, <1>4
<1> QED BY <1>3, <1>4, <1>5

\* The sums of the first bytes of s, up to n of them, as a recursive function.
Sums(f, s, n) == f = [i \in 0 .. n |-> IF i = 0 THEN 0 ELSE (f[i - 1] + s[i]) % Base]

LEMMA SumsExist ==
  ASSUME NEW s, NEW n \in Nat
  PROVE  \E f : Sums(f, s, n)
<1> DEFINE T == {m \in Nat : \E f : Sums(f, s, m)}
<1>1. 0 \in T
  <2>1. Sums([i \in 0 .. 0 |-> 0], s, 0)
    BY DEF Sums
  <2> QED BY <2>1
<1>2. ASSUME NEW m \in Nat, m \in T PROVE m + 1 \in T
  <2>1. PICK f : Sums(f, s, m)
    BY <1>2
  <2> DEFINE g == [i \in 0 .. m + 1 |-> IF i = m + 1 THEN (f[m] + s[m + 1]) % Base ELSE f[i]]
  <2>2. ASSUME NEW i \in 0 .. m + 1
        PROVE  g[i] = IF i = 0 THEN 0 ELSE (g[i - 1] + s[i]) % Base
    <3>1. CASE i = m + 1
      <4>1. g[i - 1] = f[m] /\ i # 0
        BY <3>1
      <4>2. g[i] = (f[m] + s[i]) % Base
        BY <3>1
      <4> HIDE DEF g
      <4> QED BY <4>1, <4>2
    <3>2. CASE i \in 0 .. m
      <4>1. f[i] = IF i = 0 THEN 0 ELSE (f[i - 1] + s[i]) % Base
        BY <2>1, <3>2 DEF Sums
      <4>2. g[i] = f[i] /\ (i # 0 => g[i - 1] = f[i - 1])
        BY <3>2
      <4> HIDE DEF g
      <4> QED BY <4>1, <4>2
    <3> QED BY <3>1, <3>2
  <2>3. Sums(g, s, m + 1)
    <3>1. g = [i \in 0 .. m + 1 |-> g[i]]
      OBVIOUS
    <3> HIDE DEF g
    <3> QED BY <2>2, <3>1 DEF Sums
  <2> QED BY <2>3
<1>3. \A i \in 0 .. n : i \in T
  <2>1. \A i \in 0 .. n - 1 : i \in T => i + 1 \in T
    BY <1>2
  <2> HIDE DEF T
  <2> QED BY <1>1, <2>1, Upto
<1> QED BY <1>3

\* Two of them agree where both are defined.
LEMMA SumsAgree ==
  ASSUME NEW s, NEW n \in Nat, NEW m \in Nat, n <= m, NEW f, NEW g, Sums(f, s, n), Sums(g, s, m)
  PROVE  f[n] = g[n]
<1> DEFINE T == {i \in 0 .. n : f[i] = g[i]}
<1>1. 0 \in T
  BY DEF Sums
<1>2. ASSUME NEW i \in 0 .. n - 1, i \in T PROVE i + 1 \in T
  <2>1. f[i + 1] = (f[i] + s[i + 1]) % Base /\ g[i + 1] = (g[i] + s[i + 1]) % Base
    BY DEF Sums
  <2> QED BY <1>2, <2>1
<1>3. n \in T
  <2> HIDE DEF T
  <2> QED BY <1>1, <1>2, Upto
<1> QED BY <1>3

\* SumTo adds up.
LEMMA SumToStep ==
  ASSUME NEW s, NEW n \in Nat
  PROVE  SumTo(s, 0) = 0 /\ SumTo(s, n + 1) = (SumTo(s, n) + s[n + 1]) % Base
<1> DEFINE sum(m) == CHOOSE f : Sums(f, s, m)
<1>1. ASSUME NEW m \in Nat PROVE SumTo(s, m) = sum(m)[m] /\ Sums(sum(m), s, m)
  <2>1. Sums(sum(m), s, m)
    BY SumsExist
  <2>2. SumTo(s, m) = sum(m)[m]
    BY DEF SumTo, Sums
  <2> QED BY <2>1, <2>2
<1>2. SumTo(s, 0) = 0
  <2> HIDE DEF sum
  <2> QED BY <1>1 DEF Sums
<1>3. sum(n + 1)[n] = SumTo(s, n)
  <2>1. Sums(sum(n), s, n) /\ Sums(sum(n + 1), s, n + 1) /\ n <= n + 1 /\ n + 1 \in Nat
    BY <1>1
  <2> HIDE DEF sum
  <2>2. sum(n)[n] = sum(n + 1)[n]
    BY <2>1, SumsAgree
  <2> QED BY <1>1, <2>2
<1>4. sum(n + 1)[n + 1] = (sum(n + 1)[n] + s[n + 1]) % Base
  <2>1. Sums(sum(n + 1), s, n + 1)
    BY <1>1
  <2> HIDE DEF sum
  <2> QED BY <2>1 DEF Sums
<1> HIDE DEF sum
<1> QED BY <1>1, <1>2, <1>3, <1>4

\* The sum of two bytes.
LEMMA SumOfTwo ==
  ASSUME NEW v \in Bytes, NEW w \in Bytes
  PROVE  (v + w) % Base = IF v + w < Base THEN v + w ELSE v + w - Base
<1>1. ASSUME NEW u \in 0 .. 255 PROVE u % 256 = u
  OBVIOUS
<1>2. ASSUME NEW u \in 0 .. 255 PROVE (u + 256) % 256 = u
  OBVIOUS
<1>3. CASE v + w < 256
  BY <1>1, <1>3 DEF Bytes, Base
<1>4. CASE v + w >= 256
  <2>1. v + w - 256 \in 0 .. 255 /\ (v + w - 256) + 256 = v + w
    BY <1>4 DEF Bytes, Base
  <2>2. (v + w) % 256 = v + w - 256
    BY <1>2, <2>1
  <2> QED BY <1>4, <2>2 DEF Bytes, Base
<1> QED BY <1>3, <1>4 DEF Bytes, Base

\* Sums of bytes are bytes.
LEMMA SumToType ==
  ASSUME NEW n \in Nat, NEW s \in Seq(Bytes), n <= Len(s)
  PROVE  \A i \in 0 .. n : SumTo(s, i) \in Bytes
<1> DEFINE T == {i \in 0 .. n : SumTo(s, i) \in Bytes}
<1>1. 0 \in T
  BY SumToStep DEF Bytes, Base
<1>2. ASSUME NEW i \in 0 .. n - 1, i \in T PROVE i + 1 \in T
  <2>1. SumTo(s, i + 1) = (SumTo(s, i) + s[i + 1]) % Base
    <3>1. i \in Nat
      OBVIOUS
    <3> HIDE DEF T
    <3> QED BY <3>1, SumToStep
  <2>2. s[i + 1] \in Bytes
    OBVIOUS
  <2>3. ASSUME NEW x \in Bytes, NEW y \in Bytes PROVE (x + y) % Base \in Bytes
    BY DEF Bytes, Base
  <2> QED BY <1>2, <2>1, <2>2, <2>3
<1>3. \A i \in 0 .. n : i \in T
  <2> HIDE DEF T
  <2> QED BY <1>1, <1>2, Upto
<1> QED BY <1>3

\* The sum depends on the bytes it adds.
LEMMA SumToSame ==
  ASSUME NEW n \in Nat, NEW s, NEW t, \A i \in 1 .. n : s[i] = t[i]
  PROVE  SumTo(s, n) = SumTo(t, n)
<1> DEFINE T == {i \in 0 .. n : SumTo(s, i) = SumTo(t, i)}
<1>1. 0 \in T
  BY SumToStep
<1>2. ASSUME NEW i \in 0 .. n - 1, i \in T PROVE i + 1 \in T
  <2>1. /\ SumTo(s, i + 1) = (SumTo(s, i) + s[i + 1]) % Base
        /\ SumTo(t, i + 1) = (SumTo(t, i) + t[i + 1]) % Base
    <3>1. i \in Nat
      OBVIOUS
    <3> HIDE DEF T
    <3> QED BY <3>1, SumToStep
  <2> QED BY <1>2, <2>1
<1>3. \A i \in 0 .. n : i \in T
  <2> HIDE DEF T
  <2> QED BY <1>1, <1>2, Upto
<1> QED BY <1>3

\* One other byte makes another sum.
LEMMA SumToOther ==
  ASSUME NEW s \in Seq(Bytes), NEW t \in Seq(Bytes), NEW n \in Nat, n <= Len(s), Len(t) = Len(s),
         NEW j \in 1 .. n, s[j] # t[j], \A i \in 1 .. n : i # j => s[i] = t[i]
  PROVE  SumTo(s, n) # SumTo(t, n)
<1> DEFINE T == {i \in 0 .. n : i >= j => SumTo(s, i) # SumTo(t, i)}
<1>1. 0 \in T
  OBVIOUS
<1>2. ASSUME NEW i \in 0 .. n - 1, i \in T PROVE i + 1 \in T
  <2>1. /\ SumTo(s, i + 1) = (SumTo(s, i) + s[i + 1]) % Base
        /\ SumTo(t, i + 1) = (SumTo(t, i) + t[i + 1]) % Base
    <3>1. i \in Nat
      OBVIOUS
    <3> HIDE DEF T
    <3> QED BY <3>1, SumToStep
  <2>2. SumTo(s, i) \in Bytes /\ SumTo(t, i) \in Bytes
    BY SumToType
  <2>3. s[i + 1] \in Bytes /\ t[i + 1] \in Bytes
    OBVIOUS
  <2>4. ASSUME NEW x \in Bytes, NEW y \in Bytes, NEW z \in Bytes, x # y
        PROVE  (x + z) % Base # (y + z) % Base /\ (z + x) % Base # (z + y) % Base
    <3>1. ASSUME NEW v \in Bytes, NEW w \in Bytes
          PROVE  (v + w) % Base = IF v + w < Base THEN v + w ELSE v + w - Base
      BY SumOfTwo
    <3>2. /\ (x + z) % Base = (IF x + z < Base THEN x + z ELSE x + z - Base)
          /\ (y + z) % Base = (IF y + z < Base THEN y + z ELSE y + z - Base)
      BY <3>1
    <3>3. z + x = x + z /\ z + y = y + z
      BY DEF Bytes
    <3> QED BY <2>4, <3>2, <3>3 DEF Bytes, Base
  <2>5. CASE i + 1 < j
    BY <2>5
  <2>6. CASE i + 1 = j
    <3>1. SumTo(s, i) = SumTo(t, i)
      <4>1. \A m \in 1 .. i : s[m] = t[m]
        BY <2>6
      <4> QED BY <4>1, SumToSame
    <3> QED BY <2>1, <2>2, <2>3, <2>4, <2>6, <3>1
  <2>7. CASE i >= j
    <3>1. s[i + 1] = t[i + 1] /\ SumTo(s, i) # SumTo(t, i)
      BY <1>2, <2>7
    <3> QED BY <2>1, <2>2, <2>3, <2>4, <3>1
  <2> QED BY <2>5, <2>6, <2>7
<1>3. \A i \in 0 .. n : i \in T
  <2> HIDE DEF T
  <2> QED BY <1>1, <1>2, Upto
<1> QED BY <1>3

----------------------------------------------------------------------------
(* Packets on the line.                                                    *)

Types == {P_PING, P_PONG, P_ACK, P_WHO, P_IDENT, P_SPEED, P_WRITE, P_READ, P_WDATA, P_RDATA,
          P_JUMP, P_CALL}

\* What a side sends: some bytes of data after a type.
Sendable(type, d) == type \in Types /\ d \in Seq(Bytes) /\ Len(d) < Base

\* A whole packet.
Whole(p) ==
  /\ p \in Seq(Bytes) /\ Len(p) >= 4 /\ Len(p) = p[3] + 4 /\ p[1] = STX

LEMMA SmallByte ==
  ASSUME NEW n \in Nat, n < Base
  PROVE  n \in Bytes
BY DEF Bytes, Base

LEMMA ByteNumber ==
  ASSUME NEW n \in Bytes
  PROVE  n \in Nat /\ n < Base
BY DEF Bytes, Base

LEMMA PacketParts ==
  ASSUME NEW type, NEW d, Sendable(type, d)
  PROVE  LET p == Packet(type, d) IN
         /\ Whole(p) /\ Len(p) = Len(d) + 4 /\ p[2] = type
         /\ \A i \in 1 .. Len(d) : p[3 + i] = d[i]
         /\ SumTo(p, Len(p) - 1) = p[Len(p)]
<1> DEFINE h == <<STX, type, Len(d)>>
           front == h \o d
           p == Append(front, SumTo(front, Len(front)))
<1>1. h \in Seq(Bytes) /\ Len(h) = 3 /\ h[1] = STX /\ h[2] = type /\ h[3] = Len(d)
  <2>1. type \in Bytes /\ STX \in Bytes /\ Len(d) \in Bytes
    <3>1. Types \subseteq Bytes /\ STX \in Bytes
      BY DEF Types, Bytes, Base, STX, P_PING, P_PONG, P_ACK, P_WHO, P_IDENT, P_SPEED, P_WRITE,
             P_READ, P_WDATA, P_RDATA, P_JUMP, P_CALL
    <3>2. Len(d) \in Nat /\ Len(d) < Base
      BY DEF Sendable
    <3>3. Len(d) \in Bytes
      BY <3>2, SmallByte
    <3> QED BY <3>1, <3>3 DEF Sendable
  <2> HIDE DEF Bytes
  <2> QED BY <2>1
<1>2. d \in Seq(Bytes)
  BY DEF Sendable
<1> HIDE DEF h
<1>3. /\ front \in Seq(Bytes) /\ Len(front) = Len(d) + 3
      /\ \A i \in 1 .. Len(front) : front[i] = IF i <= 3 THEN h[i] ELSE d[i - 3]
  <2> HIDE DEF Bytes
  <2>1. /\ h \o d \in Seq(Bytes) /\ Len(h \o d) = Len(h) + Len(d)
        /\ \A i \in 1 .. Len(h) + Len(d) :
             (h \o d)[i] = IF i <= Len(h) THEN h[i] ELSE d[i - Len(h)]
    BY <1>1, <1>2, ConcatProperties
  <2>2. Len(d) \in Nat
    BY <1>2
  <2> QED BY <1>1, <2>1, <2>2
<1> HIDE DEF front
<1>4. SumTo(front, Len(front)) \in Bytes
  BY <1>3, SumToType
<1>5. /\ p \in Seq(Bytes) /\ Len(p) = Len(d) + 4
      /\ \A i \in 1 .. Len(front) : p[i] = front[i]
      /\ p[Len(p)] = SumTo(front, Len(front))
  BY <1>3, <1>4, AppendProperties
<1>6. SumTo(p, Len(p) - 1) = p[Len(p)]
  <2>1. Len(p) - 1 = Len(front) /\ Len(front) \in Nat
    BY <1>3, <1>5
  <2>2. SumTo(p, Len(front)) = SumTo(front, Len(front))
    BY <1>5, <2>1, SumToSame
  <2> HIDE DEF p
  <2> QED BY <1>5, <2>1, <2>2
<1>7. p = Packet(type, d)
  BY DEF Packet, front, h
<1>8. Len(d) \in Nat
  BY <1>2
<1>9. /\ p[1] = STX /\ p[2] = type /\ p[3] = Len(d)
      /\ \A i \in 1 .. Len(d) : p[3 + i] = d[i]
  <2> HIDE DEF p
  <2>1. p[1] = front[1] /\ p[2] = front[2] /\ p[3] = front[3]
    BY <1>3, <1>5, <1>8
  <2>2. front[1] = h[1] /\ front[2] = h[2] /\ front[3] = h[3]
    BY <1>3, <1>8
  <2>3. ASSUME NEW i \in 1 .. Len(d) PROVE p[3 + i] = d[i]
    <3>1. 3 + i \in 1 .. Len(front) /\ ~(3 + i <= 3) /\ (3 + i) - 3 = i
      BY <1>3, <1>8
    <3>2. p[3 + i] = front[3 + i]
      BY <1>5, <3>1
    <3>3. front[3 + i] = d[(3 + i) - 3]
      BY <1>3, <3>1
    <3> QED BY <3>1, <3>2, <3>3
  <2> QED BY <1>1, <2>1, <2>2, <2>3
<1> HIDE DEF p
<1>10. Whole(p)
  BY <1>5, <1>9, <1>8 DEF Whole
<1> QED BY <1>5, <1>6, <1>7, <1>9, <1>10

\* The part of a packet of n bytes that its byte i is.
PartAt(n, i) ==
  IF i = 1 THEN "start" ELSE IF i = 2 THEN "type" ELSE IF i = 3 THEN "length"
  ELSE IF i = n THEN "xsum" ELSE "data"
Parts == {"start", "type", "length", "data", "xsum"}
Cells == [b : Bytes, part : Parts]

\* Packet p on a line that has delivered k bytes of it.
Rest(p, k) == [i \in 1 .. Len(p) - k |-> [b |-> p[k + i], part |-> PartAt(Len(p), k + i)]]

LEMMA RestType ==
  ASSUME NEW p, Whole(p), NEW k \in 0 .. Len(p)
  PROVE  Rest(p, k) \in Seq(Cells) /\ Len(Rest(p, k)) = Len(p) - k
<1>1. Len(p) - k \in Nat
  BY DEF Whole
<1>2. ASSUME NEW i \in 1 .. Len(p) - k
      PROVE  [b |-> p[k + i], part |-> PartAt(Len(p), k + i)] \in Cells
  <2>1. p[k + i] \in Bytes
    <3>1. k + i \in 1 .. Len(p)
      BY DEF Whole
    <3> QED BY <3>1 DEF Whole
  <2>2. PartAt(Len(p), k + i) \in Parts
    BY DEF PartAt, Parts
  <2> QED BY <2>1, <2>2 DEF Cells
<1>3. Rest(p, k) \in [1 .. Len(p) - k -> Cells]
  BY <1>2 DEF Rest
<1> QED BY <1>1, <1>3

LEMMA RestParts ==
  ASSUME NEW p, Whole(p), NEW k \in 0 .. Len(p) - 1
  PROVE  /\ Rest(p, k) # <<>> /\ Tail(Rest(p, k)) = Rest(p, k + 1)
         /\ Head(Rest(p, k)).b = p[k + 1] /\ Head(Rest(p, k)).part = PartAt(Len(p), k + 1)
         /\ Rest(p, Len(p)) = <<>>
<1>1. Len(p) \in Nat /\ k \in 0 .. Len(p) /\ k + 1 \in 0 .. Len(p)
  BY DEF Whole
<1> DEFINE r == Rest(p, k)  s == Rest(p, k + 1)
<1>2. /\ r \in Seq(Cells) /\ Len(r) = Len(p) - k /\ Len(r) >= 1
      /\ s \in Seq(Cells) /\ Len(s) = Len(r) - 1
  BY <1>1, RestType
<1>3. \A i \in 1 .. Len(s) : s[i] = r[i + 1]
  BY <1>1, <1>2 DEF Rest
<1>4. r[1] = [b |-> p[k + 1], part |-> PartAt(Len(p), k + 1)]
  BY <1>1 DEF Rest
<1>5. Rest(p, Len(p)) = <<>>
  BY <1>1 DEF Rest
<1> HIDE DEF r, s
<1>6. r # <<>> /\ Head(r) = r[1]
  BY <1>2
<1>7. Tail(r) \in Seq(Cells) /\ Len(Tail(r)) = Len(s) /\ \A i \in 1 .. Len(s) : Tail(r)[i] = s[i]
  BY <1>2, <1>3, <1>6, HeadTailProperties
<1>8. Tail(r) = s
  BY <1>2, <1>7, SeqEqual
<1> QED BY <1>4, <1>5, <1>6, <1>8 DEF r, s

LEMMA RestAll ==
  ASSUME NEW p, Whole(p)
  PROVE  <<>> \o OnLine(p) = Rest(p, 0)
<1>1. Len(p) \in Nat /\ Len(p) >= 4
  BY DEF Whole
<1>2. OnLine(p) = Rest(p, 0)
  <2>1. ASSUME NEW i \in 1 .. Len(p)
        PROVE (CASE i = 1 -> "start" [] i = 2 -> "type" [] i = 3 -> "length"
                 [] i = Len(p) -> "xsum" [] OTHER -> "data") = PartAt(Len(p), i)
    BY <1>1 DEF PartAt
  <2> QED BY <1>1, <2>1 DEF OnLine, Rest
<1>3. Rest(p, 0) \in Seq(Cells)
  BY <1>1, RestType
<1> QED BY <1>2, <1>3, ConcatEmptySeq

LEMMA NoiseBytes ==
  ASSUME NEW n \in Noise
  PROVE  n \in Bytes
BY LinkAssumption DEF Bytes

\* What may arrive of packet q when one of its bytes of the part `hit' has been
\* disturbed, or none.
HitTypes == {"none", "type", "data", "xsum"}
Arrivals(q, hit) ==
  IF hit = "none" THEN {q}
  ELSE {p \in {[q EXCEPT ![j] = n] : j \in {j \in 1 .. Len(q) : PartAt(Len(q), j) = hit}, n \in Noise} :
          p # q}

\* Start and length arrive, and the sum tells whether the rest has.
LEMMA Arrived ==
  ASSUME NEW q, Whole(q), SumTo(q, Len(q) - 1) = q[Len(q)], NEW hit \in HitTypes,
         NEW p \in Arrivals(q, hit)
  PROVE  /\ Whole(p) /\ Len(p) = Len(q) /\ p[3] = q[3]
         /\ hit # "type" => p[2] = q[2]
         /\ (SumTo(p, Len(p) - 1) = p[Len(p)]) <=> hit = "none"
         /\ hit = "none" => p = q
<1>1. CASE hit = "none"
  BY <1>1 DEF Arrivals
<1>2. CASE hit # "none"
  <2>1. PICK j \in 1 .. Len(q), n \in Noise :
          PartAt(Len(q), j) = hit /\ p = [q EXCEPT ![j] = n] /\ p # q /\ n \in Bytes
    BY <1>2, NoiseBytes DEF Arrivals
  <2>2. q \in Seq(Bytes) /\ Len(q) \in Nat /\ Len(q) >= 4
    BY DEF Whole
  <2>3. /\ p \in Seq(Bytes) /\ Len(p) = Len(q)
        /\ \A i \in 1 .. Len(q) : p[i] = IF i = j THEN n ELSE q[i]
    BY <2>1, <2>2, ExceptSeq
  <2>4. n # q[j]
    <3>1. SUFFICES ASSUME n = q[j] PROVE p = q
      BY <2>1
    <3>2. \A i \in 1 .. Len(q) : p[i] = q[i]
      BY <2>3, <3>1
    <3> QED BY <2>2, <2>3, <3>2, SeqEqual
  <2>5. j # 1 /\ j # 3 /\ (hit # "type" => j # 2)
    BY <2>1 DEF HitTypes, PartAt
  <2>6. p[1] = q[1] /\ p[3] = q[3] /\ (hit # "type" => p[2] = q[2])
    BY <2>2, <2>3, <2>5
  <2>7. SumTo(p, Len(p) - 1) # p[Len(p)]
    <3>1. CASE j = Len(q)
      <4>1. \A i \in 1 .. Len(q) - 1 : p[i] = q[i]
        BY <2>3, <3>1
      <4>2. SumTo(p, Len(q) - 1) = SumTo(q, Len(q) - 1)
        BY <2>2, <4>1, SumToSame
      <4> QED BY <2>2, <2>3, <2>4, <3>1, <4>2
    <3>2. CASE j # Len(q)
      <4>1. j \in 1 .. Len(q) - 1 /\ p[j] # q[j] /\ \A i \in 1 .. Len(q) - 1 : i # j => p[i] = q[i]
        BY <2>2, <2>3, <2>4, <3>2
      <4>2. Len(q) - 1 \in Nat /\ Len(q) - 1 <= Len(p)
        BY <2>2, <2>3
      <4>3. SumTo(p, Len(q) - 1) # SumTo(q, Len(q) - 1)
        BY <2>2, <2>3, <4>1, <4>2, SumToOther
      <4>4. p[Len(q)] = q[Len(q)]
        BY <2>2, <2>3, <3>2
      <4> QED BY <2>3, <4>3, <4>4
    <3> QED BY <3>1, <3>2
  <2> QED BY <1>2, <2>2, <2>3, <2>6, <2>7 DEF Whole
<1> QED BY <1>1, <1>2

\* The next byte of a packet on the line is disturbed.
LEMMA Disturbed ==
  ASSUME NEW q, Whole(q), NEW k \in 0 .. Len(q) - 1, NEW n \in Noise, n # q[k + 1],
         PartAt(Len(q), k + 1) \in HitTypes
  PROVE  LET p == [q EXCEPT ![k + 1] = n] IN
         /\ p \in Arrivals(q, PartAt(Len(q), k + 1))
         /\ Other(Rest(q, k), n) = Rest(p, k)
         /\ \A i \in 1 .. Len(q) : i # k + 1 => p[i] = q[i]
<1> DEFINE p == [q EXCEPT ![k + 1] = n]
<1>1. q \in Seq(Bytes) /\ Len(q) \in Nat /\ k + 1 \in 1 .. Len(q) /\ n \in Bytes
  BY NoiseBytes DEF Whole
<1>2. /\ p \in Seq(Bytes) /\ Len(p) = Len(q)
      /\ \A i \in 1 .. Len(q) : p[i] = IF i = k + 1 THEN n ELSE q[i]
  BY <1>1, ExceptSeq
<1>3. p \in Arrivals(q, PartAt(Len(q), k + 1))
  <2>1. p # q
    BY <1>1, <1>2
  <2>2. PartAt(Len(q), k + 1) # "none"
    BY DEF PartAt
  <2>3. p \in {[q EXCEPT ![j] = m] :
                j \in {j \in 1 .. Len(q) : PartAt(Len(q), j) = PartAt(Len(q), k + 1)}, m \in Noise}
    <3>1. k + 1 \in {j \in 1 .. Len(q) : PartAt(Len(q), j) = PartAt(Len(q), k + 1)}
      BY <1>1
    <3> QED BY <3>1
  <2> HIDE DEF p
  <2> QED BY <2>1, <2>2, <2>3 DEF Arrivals
<1>4. Other(Rest(q, k), n) = Rest(p, k)
  <2> DEFINE r == Rest(q, k)  s == Rest(q, k + 1)  c == [b |-> n, part |-> PartAt(Len(q), k + 1)]
             t == Rest(p, k)
  <2>1. r # <<>> /\ Tail(r) = s /\ Head(r).b = q[k + 1]
    BY RestParts
  <2>2. Head(r) = [b |-> q[k + 1], part |-> PartAt(Len(q), k + 1)]
    <3>1. r[1] = [b |-> q[k + 1], part |-> PartAt(Len(q), k + 1)]
      BY <1>1 DEF Rest
    <3>2. r \in Seq(Cells)
      BY <1>1, RestType
    <3> HIDE DEF r
    <3> QED BY <2>1, <3>1, <3>2
  <2>3. [Head(r) EXCEPT !.b = n] = c
    <3> HIDE DEF r
    <3> QED BY <2>2
  <2>4. /\ s \in Seq(Cells) /\ Len(s) = Len(q) - k - 1 /\ c \in Cells
        /\ t \in Seq(Cells) /\ Len(t) = Len(q) - k
    <3>1. k + 1 \in 0 .. Len(q) /\ k \in 0 .. Len(p) /\ Len(p) = Len(q)
      BY <1>1, <1>2
    <3>2. Whole(p)
      <4>1. k + 1 # 1 /\ k + 1 # 3
        BY DEF PartAt, HitTypes
      <4>2. Len(q) >= 4
        BY DEF Whole
      <4>3. p[1] = q[1] /\ p[3] = q[3]
        BY <1>1, <1>2, <4>1, <4>2
      <4> HIDE DEF p
      <4> QED BY <1>2, <4>2, <4>3 DEF Whole
    <3>3. s \in Seq(Cells) /\ Len(s) = Len(q) - k - 1
      <4>1. Len(q) - (k + 1) = Len(q) - k - 1
        BY <1>1
      <4> HIDE DEF Bytes, Cells
      <4> QED BY <3>1, <4>1, RestType
    <3>4. t \in Seq(Cells) /\ Len(t) = Len(q) - k
      <4> HIDE DEF p
      <4> QED BY <3>1, <3>2, RestType
    <3>5. c \in Cells
      <4>1. PartAt(Len(q), k + 1) \in Parts
        BY DEF PartAt, Parts
      <4> QED BY <1>1, <4>1 DEF Cells
    <3> QED BY <3>3, <3>4, <3>5
  <2>5. \A i \in 1 .. Len(t) : t[i] = IF i = 1 THEN c ELSE s[i - 1]
    <3>1. ASSUME NEW i \in 1 .. Len(t)
          PROVE  t[i] = IF i = 1 THEN c ELSE s[i - 1]
      <4>1. k + i \in 1 .. Len(q) /\ i \in 1 .. Len(q) - k
        BY <1>1, <2>4
      <4>2. t[i] = [b |-> p[k + i], part |-> PartAt(Len(q), k + i)]
        <5> HIDE DEF p
        <5> QED BY <1>2, <4>1 DEF Rest
      <4>3. CASE i = 1
        BY <1>2, <4>1, <4>2, <4>3
      <4>4. CASE i # 1
        <5>1. p[k + i] = q[k + i]
          BY <1>2, <4>1, <4>4
        <5>2. s[i - 1] = [b |-> q[k + i], part |-> PartAt(Len(q), k + i)]
          <6>1. i - 1 \in 1 .. Len(q) - (k + 1) /\ (k + 1) + (i - 1) = k + i
            BY <1>1, <4>1, <4>4
          <6> QED BY <6>1 DEF Rest
        <5> QED BY <4>2, <4>4, <5>1, <5>2
      <4> QED BY <4>3, <4>4
    <3> QED BY <3>1
  <2> HIDE DEF r, s, c, t, p
  <2>6. /\ <<c>> \in Seq(Cells) /\ Len(<<c>>) = 1
        /\ <<c>> \o s \in Seq(Cells) /\ Len(<<c>> \o s) = Len(s) + 1
        /\ \A i \in 1 .. Len(s) + 1 : (<<c>> \o s)[i] = IF i <= 1 THEN <<c>>[i] ELSE s[i - 1]
    BY <2>4, ConcatProperties
  <2>7. <<c>> \o s = t
    <3>1. Len(<<c>> \o s) = Len(t)
      BY <1>1, <2>4, <2>6
    <3>2. \A i \in 1 .. Len(t) : (<<c>> \o s)[i] = t[i]
      BY <1>1, <2>4, <2>5, <2>6
    <3> QED BY <2>4, <2>6, <3>1, <3>2, SeqEqual
  <2>8. Other(r, n) = <<c>> \o s
    BY <2>1, <2>3 DEF Other
  <2> QED BY <2>7, <2>8 DEF r, t
<1> QED BY <1>2, <1>3, <1>4

----------------------------------------------------------------------------
(* The parsers.                                                            *)

Parsers ==
  [type : {"NONE", "PHDR", "DATA", "NCAP", "XSUM"}, len : Nat, xsum : Bytes,
   header : [type : Bytes, length : Bytes]]

LEMMA Advanced ==
  ASSUME NEW rx \in Parsers, NEW b \in Bytes, NEW max
  PROVE  LET next == Advance(rx, b, max) IN
         /\ next \in Parsers
         /\ rx.type = "NONE" /\ b # STX => next.type = "NONE"
         /\ rx.type = "NONE" /\ b = STX => next.type = "PHDR" /\ next.len = 0 /\ next.xsum = b
         /\ rx.type # "NONE" /\ rx.type # "XSUM" => next.xsum = (rx.xsum + b) % Base
         /\ rx.type = "PHDR" /\ rx.len = 0 =>
              next.type = "PHDR" /\ next.len = 1 /\ next.header.type = b
         /\ rx.type = "PHDR" /\ rx.len # 0 =>
              /\ next.type = AfterLength(b, max) /\ next.len = 0
              /\ next.header.type = rx.header.type /\ next.header.length = b
         /\ rx.type \in {"DATA", "NCAP"} =>
              /\ next.header = rx.header /\ next.len = rx.len + 1
              /\ next.type = IF rx.len + 1 = rx.header.length THEN "XSUM" ELSE rx.type
         /\ rx.type = "XSUM" => next.type = "NONE"
<1> DEFINE sum == (rx.xsum + b) % Base
<1>1. sum \in Bytes
  <2>1. rx.xsum \in Bytes
    BY DEF Parsers
  <2>2. sum = IF rx.xsum + b < Base THEN rx.xsum + b ELSE rx.xsum + b - Base
    BY <2>1, SumOfTwo
  <2> HIDE DEF sum
  <2>3. ASSUME NEW x \in Bytes, NEW y \in Bytes
        PROVE  (IF x + y < Base THEN x + y ELSE x + y - Base) \in Bytes
    BY DEF Bytes, Base
  <2> QED BY <2>1, <2>2, <2>3
<1> HIDE DEF sum
<1>2. CASE rx.type = "NONE"
  <2> HIDE DEF Bytes
  <2>1. Advance(rx, b, max) = Start(rx, b)
    BY <1>2 DEF Advance
  <2>2. CASE b = STX
    <3>1. Start(rx, b) = [type |-> "PHDR", len |-> 0, xsum |-> b, header |-> rx.header]
      BY <2>2 DEF Start, Parsers
    <3> QED BY <1>2, <2>1, <2>2, <3>1 DEF Parsers
  <2>3. CASE b # STX
    <3>1. Start(rx, b) = [type |-> rx.type, len |-> rx.len, xsum |-> b, header |-> rx.header]
      BY <2>3 DEF Start, Parsers
    <3> QED BY <1>2, <2>1, <2>3, <3>1 DEF Parsers
  <2> QED BY <2>2, <2>3
<1>3. CASE rx.type = "PHDR" /\ rx.len = 0
  <2>1. Advance(rx, b, max) =
          [type |-> "PHDR", len |-> 1, xsum |-> sum,
           header |-> [type |-> b, length |-> rx.header.length]]
    <3>1. Advance(rx, b, max) = TakeHeader(rx, b, max)
      BY <1>3 DEF Advance
    <3>2. TakeHeader(rx, b, max) = [rx EXCEPT !.header.type = b, !.len = 1, !.xsum = sum]
      BY <1>3 DEF TakeHeader, sum
    <3> HIDE DEF Bytes
    <3> QED BY <1>3, <3>1, <3>2 DEF Parsers
  <2> HIDE DEF Bytes
  <2> QED BY <1>1, <1>3, <2>1 DEF Parsers, sum
<1>4. CASE rx.type = "PHDR" /\ rx.len # 0
  <2>1. Advance(rx, b, max) =
          [type |-> AfterLength(b, max), len |-> 0, xsum |-> sum,
           header |-> [type |-> rx.header.type, length |-> b]]
    <3>1. Advance(rx, b, max) = TakeHeader(rx, b, max)
      BY <1>4 DEF Advance
    <3>2. TakeHeader(rx, b, max) =
            [rx EXCEPT !.header.length = b, !.len = 0, !.xsum = sum, !.type = AfterLength(b, max)]
      BY <1>4 DEF TakeHeader, sum
    <3> HIDE DEF Bytes
    <3> QED BY <1>4, <3>1, <3>2 DEF Parsers
  <2>2. AfterLength(b, max) \in {"DATA", "NCAP", "XSUM"}
    BY DEF AfterLength
  <2> HIDE DEF Bytes
  <2> QED BY <1>1, <1>4, <2>1, <2>2 DEF Parsers, sum
<1>5. CASE rx.type \in {"DATA", "NCAP"}
  <2>1. Advance(rx, b, max) =
          [type |-> IF rx.len + 1 = rx.header.length THEN "XSUM" ELSE rx.type,
           len |-> rx.len + 1, xsum |-> sum, header |-> rx.header]
    <3>1. Advance(rx, b, max) = TakeData(rx, b)
      BY <1>5 DEF Advance
    <3>2. TakeData(rx, b) =
            [rx EXCEPT !.xsum = sum, !.len = rx.len + 1,
                       !.type = IF rx.len + 1 = rx.header.length THEN "XSUM" ELSE rx.type]
      BY <1>5 DEF TakeData, sum
    <3> HIDE DEF Bytes
    <3> QED BY <1>5, <3>1, <3>2 DEF Parsers
  <2> HIDE DEF Bytes
  <2> QED BY <1>1, <1>5, <2>1 DEF Parsers, sum
<1>6. CASE rx.type = "XSUM"
  <2>1. Advance(rx, b, max) = [rx EXCEPT !.type = "NONE"]
    BY <1>6 DEF Advance
  <2> HIDE DEF Bytes
  <2> QED BY <1>6, <2>1 DEF Parsers
<1>7. rx.type \in {"NONE", "PHDR", "DATA", "NCAP", "XSUM"}
  BY DEF Parsers
<1> QED BY <1>2, <1>3, <1>4, <1>5, <1>6, <1>7

\* The bytes of data among the first k.
Read(k) == IF k <= 3 THEN 0 ELSE k - 3

\* rx after the first k bytes of p, at most max of which it stores.
Parsing(rx, p, k, max) ==
  /\ k = 0 => rx.type = "NONE"
  /\ k \in {1, 2} => rx.type = "PHDR" /\ rx.len = k - 1
  /\ k >= 1 => rx.xsum = SumTo(p, k)
  /\ k >= 2 => rx.header.type = p[2]
  /\ k >= 3 => /\ rx.header.length = p[3]
               /\ rx.type = IF k = Len(p) - 1 THEN "XSUM" ELSE IF p[3] > max THEN "NCAP" ELSE "DATA"
  /\ k >= 3 /\ k # Len(p) - 1 => rx.len = k - 3

\* The next byte, which is not the last.
LEMMA ParsesOn ==
  ASSUME NEW p, Whole(p), NEW rx \in Parsers, NEW k \in 0 .. Len(p) - 2, NEW max, NEW lim,
         k = 2 => lim = max, Parsing(rx, p, k, max)
  PROVE  /\ ~Complete(rx) /\ Advance(rx, p[k + 1], lim) \in Parsers
         /\ Parsing(Advance(rx, p[k + 1], lim), p, k + 1, max)
<1> DEFINE b == p[k + 1]  next == Advance(rx, b, lim)
<1>1. Len(p) \in Nat /\ Len(p) >= 4 /\ Len(p) = p[3] + 4 /\ p[1] = STX /\ p \in Seq(Bytes)
  BY DEF Whole
<1>2. b \in Bytes /\ p[3] \in Bytes
  <2>1. k + 1 \in 1 .. Len(p) /\ 3 \in 1 .. Len(p)
    BY <1>1
  <2> HIDE DEF Bytes
  <2> QED BY <1>1, <2>1
<1>3. SumTo(p, k + 1) = (SumTo(p, k) + b) % Base
  <2>1. k \in Nat
    BY <1>1
  <2> QED BY <2>1, SumToStep
<1> HIDE DEF b
<1>4. /\ next \in Parsers
      /\ rx.type = "NONE" /\ b = STX => next.type = "PHDR" /\ next.len = 0 /\ next.xsum = b
      /\ rx.type # "NONE" /\ rx.type # "XSUM" => next.xsum = (rx.xsum + b) % Base
      /\ rx.type = "PHDR" /\ rx.len = 0 =>
           next.type = "PHDR" /\ next.len = 1 /\ next.header.type = b
      /\ rx.type = "PHDR" /\ rx.len # 0 =>
           /\ next.type = AfterLength(b, lim) /\ next.len = 0
           /\ next.header.type = rx.header.type /\ next.header.length = b
      /\ rx.type \in {"DATA", "NCAP"} =>
           /\ next.header = rx.header /\ next.len = rx.len + 1
           /\ next.type = IF rx.len + 1 = rx.header.length THEN "XSUM" ELSE rx.type
  BY <1>2, Advanced
<1> HIDE DEF next
<1>5. CASE k = 0
  <2>1. b = STX /\ rx.type = "NONE"
    BY <1>1, <1>5 DEF b, Parsing
  <2>2. SumTo(p, 1) = STX
    <3>1. SumTo(p, 0) = 0 /\ STX % Base = STX
      BY SumToStep DEF STX, Base
    <3>2. SumTo(p, 1) = (0 + STX) % Base
      BY <1>3, <1>5, <2>1, <3>1
    <3> QED BY <3>1, <3>2 DEF STX
  <2> QED BY <1>4, <1>5, <2>1, <2>2 DEF Parsing, Complete, next, b
<1>6. CASE k = 1
  <2>1. rx.type = "PHDR" /\ rx.len = 0 /\ rx.xsum = SumTo(p, 1) /\ b = p[2]
    BY <1>6 DEF Parsing, b
  <2> QED BY <1>3, <1>4, <1>6, <2>1 DEF Parsing, Complete, next, b
<1>7. CASE k = 2
  <2>1. /\ rx.type = "PHDR" /\ rx.len = 1 /\ rx.xsum = SumTo(p, 2) /\ rx.header.type = p[2]
        /\ b = p[3] /\ lim = max
    BY <1>7 DEF Parsing, b
  <2>2. AfterLength(b, lim) = IF 3 = Len(p) - 1 THEN "XSUM" ELSE IF p[3] > max THEN "NCAP" ELSE "DATA"
    BY <1>1, <1>2, <2>1 DEF AfterLength, Bytes
  <2> QED BY <1>1, <1>3, <1>4, <1>7, <2>1, <2>2 DEF Parsing, Complete, next, b
<1>8. CASE k >= 3
  <2>1. /\ rx.type = IF p[3] > max THEN "NCAP" ELSE "DATA"
        /\ rx.len = k - 3 /\ rx.xsum = SumTo(p, k) /\ rx.header.type = p[2] /\ rx.header.length = p[3]
    BY <1>1, <1>8 DEF Parsing
  <2>2. (rx.len + 1 = rx.header.length) <=> (k + 1 = Len(p) - 1)
    <3> DEFINE m == rx.header.length  l == rx.len
    <3>1. m = p[3] /\ l = k - 3
      BY <2>1
    <3> HIDE DEF m, l
    <3>2. m \in Int
      BY <1>2, <3>1, ByteNumber
    <3>3. Len(p) = m + 4
      BY <1>1, <3>1
    <3>4. (l + 1 = m) <=> (k + 1 = Len(p) - 1)
      BY <1>1, <3>1, <3>2, <3>3
    <3> QED BY <3>4 DEF m, l
  <2>3. /\ next.type = IF k + 1 = Len(p) - 1 THEN "XSUM" ELSE IF p[3] > max THEN "NCAP" ELSE "DATA"
        /\ next.header = rx.header /\ next.len = k + 1 - 3 /\ next.xsum = SumTo(p, k + 1)
        /\ rx.type # "XSUM"
    BY <1>3, <1>4, <2>1, <2>2
  <2> QED BY <1>4, <1>8, <2>1, <2>3 DEF Parsing, Complete, next, b
<1> QED BY <1>1, <1>5, <1>6, <1>7, <1>8

\* The last byte.
LEMMA ParsesLast ==
  ASSUME NEW p, Whole(p), NEW rx \in Parsers, NEW max, NEW lim, Parsing(rx, p, Len(p) - 1, max)
  PROVE  /\ Complete(rx) /\ rx.xsum = SumTo(p, Len(p) - 1)
         /\ rx.header.type = p[2] /\ rx.header.length = p[3]
         /\ Advance(rx, p[Len(p)], lim) \in Parsers /\ Advance(rx, p[Len(p)], lim).type = "NONE"
<1>1. Len(p) \in Nat /\ Len(p) >= 4 /\ p \in Seq(Bytes)
  BY DEF Whole
<1>2. p[Len(p)] \in Bytes
  <2>1. Len(p) \in 1 .. Len(p)
    BY <1>1
  <2> HIDE DEF Bytes
  <2> QED BY <1>1, <2>1
<1>3. /\ rx.type = "XSUM" /\ rx.xsum = SumTo(p, Len(p) - 1)
      /\ rx.header.type = p[2] /\ rx.header.length = p[3]
  BY <1>1 DEF Parsing
<1>4. /\ Advance(rx, p[Len(p)], lim) \in Parsers
      /\ rx.type = "XSUM" => Advance(rx, p[Len(p)], lim).type = "NONE"
  BY <1>2, Advanced
<1> QED BY <1>3, <1>4 DEF Complete

\* Bytes that have not arrived do not matter.
LEMMA ParsesPrefix ==
  ASSUME NEW p, Whole(p), NEW q, Len(q) = Len(p), NEW k \in 0 .. Len(p) - 1, NEW rx, NEW max,
         \A i \in 1 .. Len(p) : i # k + 1 => q[i] = p[i], k # 2, Parsing(rx, p, k, max)
  PROVE  Parsing(rx, q, k, max)
<1>1. Len(p) \in Nat /\ Len(p) >= 4
  BY DEF Whole
<1>2. SumTo(q, k) = SumTo(p, k)
  <2>1. \A i \in 1 .. k : q[i] = p[i]
    BY <1>1
  <2> QED BY <2>1, SumToSame
<1>3. k >= 2 => q[2] = p[2]
  BY <1>1
<1>4. k >= 3 => q[3] = p[3]
  BY <1>1
<1> QED BY <1>1, <1>2, <1>3, <1>4 DEF Parsing

----------------------------------------------------------------------------
(* The requests of a command.                                              *)

AnyRequest ==
  [type : Handled, data : Seq(Bytes), drops : {0, 1}, fatal : BOOLEAN, blk : Nat]

\* One that the computer accepts if it arrives.
Proper(r) ==
  /\ r \in AnyRequest /\ Sendable(r.type, r.data)
  /\ r.type # P_WDATA => Len(r.data) = SizeOf[r.type] /\ Len(r.data) <= 2

LEMMA Sizes ==
  /\ SizeOf[P_PING] = 1 /\ SizeOf[P_WHO] = 0 /\ SizeOf[P_SPEED] = 1 /\ SizeOf[P_WRITE] = 2
  /\ SizeOf[P_READ] = 2 /\ SizeOf[P_JUMP] = 1 /\ SizeOf[P_CALL] = 1
BY DEF SizeOf, P_PING, P_WHO, P_SPEED, P_WRITE, P_READ, P_JUMP, P_CALL

\* The types are told apart by their numbers.
TypeNumbers ==
  /\ P_PING = 0 /\ P_PONG = 1 /\ P_ACK = 2 /\ P_WHO = 3 /\ P_IDENT = 4 /\ P_SPEED = 5
  /\ P_WRITE = 16 /\ P_READ = 17 /\ P_WDATA = 18 /\ P_RDATA = 19 /\ P_JUMP = 32 /\ P_CALL = 33
LEMMA Numbers == TypeNumbers
BY DEF TypeNumbers, P_PING, P_PONG, P_ACK, P_WHO, P_IDENT, P_SPEED, P_WRITE, P_READ, P_WDATA,
       P_RDATA, P_JUMP, P_CALL

LEMMA CommandParts ==
  ASSUME NEW c \in Commands
  PROVE  /\ c.addr \in Bytes /\ c.length \in Bytes /\ c.speed \in Bytes /\ c.wdata \in Seq(Bytes)
         /\ c.addr + Len(c.wdata) <= Base - 1 /\ Len(c.wdata) \in Nat /\ Len(c.wdata) < Base
         /\ c.name \in {"upload", "run", "ping", "id", "jump", "call", "read", "write"}
         /\ c.name \in {"upload", "write"} => c.wdata # <<>>
<1>1. /\ c.addr \in Bytes /\ c.length \in Bytes /\ c.speed \in Bytes /\ c.wdata \in Seq(Bytes)
      /\ c.addr + Len(c.wdata) <= Base - 1
      /\ c.name \in {"upload", "run", "ping", "id", "jump", "call", "read", "write"}
      /\ c.name \in {"upload", "write"} => c.wdata # <<>>
  BY DEF Commands, Names, Bytes
<1>2. Len(c.wdata) \in Nat
  BY <1>1
<1>3. c.addr \in Nat
  BY <1>1, ByteNumber
<1>4. Len(c.wdata) < Base
  BY <1>1, <1>2, <1>3 DEF Base
<1> QED BY <1>1, <1>2, <1>4

\* Requests with one word of data, with two, and with none.
LEMMA ProperRequest ==
  ASSUME NEW type, NEW d \in Seq(Bytes), NEW drops \in {0, 1}, NEW fatal \in BOOLEAN, NEW blk \in Nat,
         \/ type \in {P_PING, P_SPEED, P_JUMP, P_CALL} /\ Len(d) = 1
         \/ type \in {P_WRITE, P_READ} /\ Len(d) = 2
         \/ type = P_WHO /\ Len(d) = 0
         \/ type = P_WDATA /\ Len(d) < Base
  PROVE  Proper(Request(type, d, drops, fatal, blk))
<1>1. type \in Handled /\ type \in Types /\ Len(d) < Base
  <2>1. type \in Handled /\ type \in Types
    BY DEF Handled, Types
  <2>2. Len(d) < Base
    <3> DEFINE n == Len(d)
    <3>1. n = 0 \/ n = 1 \/ n = 2 \/ n < Base
      OBVIOUS
    <3> HIDE DEF n
    <3>2. n < Base
      BY <3>1 DEF Base
    <3> QED BY <3>2 DEF n
  <2> QED BY <2>1, <2>2
<1>2. type # P_WDATA => Len(d) = SizeOf[type] /\ Len(d) <= 2
  <2>1. \/ type \in {P_PING, P_SPEED, P_JUMP, P_CALL} /\ SizeOf[type] = 1 /\ Len(d) = 1
        \/ type \in {P_WRITE, P_READ} /\ SizeOf[type] = 2 /\ Len(d) = 2
        \/ type = P_WHO /\ SizeOf[type] = 0 /\ Len(d) = 0
        \/ type = P_WDATA
    BY Sizes
  <2> DEFINE n == Len(d)  m == SizeOf[type]
  <2>2. type # P_WDATA => (m = 1 /\ n = 1) \/ (m = 2 /\ n = 2) \/ (m = 0 /\ n = 0)
    BY <2>1
  <2> HIDE DEF m, n
  <2>3. type # P_WDATA => n = m /\ n <= 2
    BY <2>2
  <2> QED BY <2>3 DEF m, n
<1>3. Request(type, d, drops, fatal, blk) =
        [type |-> type, data |-> d, drops |-> drops, fatal |-> fatal, blk |-> blk]
  BY DEF Request
<1>4. Request(type, d, drops, fatal, blk) \in AnyRequest
  <2> HIDE DEF Bytes
  <2> QED BY <1>1, <1>3 DEF AnyRequest
<1> QED BY <1>1, <1>2, <1>3, <1>4 DEF Proper, Sendable

LEMMA Divided ==
  ASSUME NEW d \in Nat, d >= 1, NEW a \in Nat
  PROVE  /\ a \div d \in Nat /\ a % d \in 0 .. d - 1 /\ a = (a \div d) * d + (a % d)
         /\ a >= d => a \div d >= 1
<1>1. a \div d \in Nat /\ a % d \in 0 .. d - 1 /\ a = (a \div d) * d + (a % d)
  OBVIOUS
<1>2. a \div d = 0 => a < d
  BY <1>1
<1> QED BY <1>1, <1>2

\* Blocks: where block b begins, and what it holds.
From(b) == (b - 1) * BlockSize
BlockOf(wdata, b) == SubSeq(wdata, From(b) + 1, Smaller(From(b) + BlockSize, Len(wdata)))

LEMMA BlockRange ==
  ASSUME NEW len \in Nat, NEW b \in 1 .. BlockCount(len)
  PROVE  /\ BlockCount(len) \in Nat /\ From(b) \in Nat /\ From(b) < len
         /\ b < BlockCount(len) => From(b) + BlockSize < len /\ From(b + 1) = From(b) + BlockSize
         /\ b = BlockCount(len) => From(b) + BlockSize >= len
<1> DEFINE n == BlockCount(len)  r == (len + BlockSize - 1) % BlockSize
<1>1. BlockSize \in Nat /\ BlockSize >= 1
  BY ProgrammerAssumption
<1>2. n \in Nat /\ r \in 0 .. BlockSize - 1 /\ len + BlockSize - 1 = n * BlockSize + r
  <2>1. len + BlockSize - 1 \in Nat
    BY <1>1
  <2> QED BY <1>1, <2>1, Divided DEF BlockCount
<1> HIDE DEF n, r
<1>3. b \in 1 .. n
  BY DEF n
<1>4. From(b) \in Nat /\ From(b) <= (n - 1) * BlockSize
  <2>1. (b - 1) * BlockSize <= (n - 1) * BlockSize
    BY <1>1, <1>2, <1>3
  <2>2. (b - 1) * BlockSize \in Nat
    BY <1>1, <1>2, <1>3
  <2> QED BY <2>1, <2>2 DEF From
<1>5. (n - 1) * BlockSize = len - 1 - r
  <2>1. (n - 1) * BlockSize = n * BlockSize - BlockSize
    BY <1>1, <1>2
  <2> QED BY <1>1, <1>2, <2>1
<1>6. From(b + 1) = From(b) + BlockSize
  <2>1. ((b + 1) - 1) * BlockSize = (b - 1) * BlockSize + BlockSize
    BY <1>1, <1>2, <1>3
  <2> QED BY <2>1 DEF From
<1>7. b < n => From(b) + BlockSize < len
  <2>1. ASSUME b < n PROVE b * BlockSize <= (n - 1) * BlockSize
    BY <1>1, <1>2, <1>3, <2>1
  <2>2. b * BlockSize = (b - 1) * BlockSize + BlockSize
    BY <1>1, <1>2, <1>3
  <2> QED BY <1>1, <1>2, <1>5, <2>1, <2>2 DEF From
<1>8. b = n => From(b) + BlockSize >= len
  BY <1>1, <1>2, <1>5 DEF From
<1> QED BY <1>1, <1>2, <1>4, <1>5, <1>6, <1>7, <1>8 DEF n

LEMMA BlockParts ==
  ASSUME NEW wdata \in Seq(Bytes), NEW b \in 1 .. BlockCount(Len(wdata)), Len(wdata) < Base
  PROVE  LET d == BlockOf(wdata, b) IN
         /\ d \in Seq(Bytes) /\ Len(d) \in Nat /\ Len(d) >= 1 /\ Len(d) < Base
         /\ From(b) + Len(d) <= Len(wdata)
         /\ \A i \in 1 .. Len(d) : d[i] = wdata[From(b) + i]
         /\ b < BlockCount(Len(wdata)) => Len(d) = BlockSize
         /\ b = BlockCount(Len(wdata)) => From(b) + Len(d) = Len(wdata)
<1> DEFINE len == Len(wdata)  d == BlockOf(wdata, b)  to == Smaller(From(b) + BlockSize, len)
<1>1. BlockSize \in Nat /\ BlockSize >= 1 /\ len \in Nat
  BY ProgrammerAssumption
<1>2. /\ From(b) \in Nat /\ From(b) < len
      /\ b < BlockCount(len) => From(b) + BlockSize < len
      /\ b = BlockCount(len) => From(b) + BlockSize >= len
  BY <1>1, BlockRange
<1>3. to \in Nat /\ to > From(b) /\ to <= len /\ to <= From(b) + BlockSize
  BY <1>1, <1>2 DEF Smaller
<1>4. b < BlockCount(len) => to = From(b) + BlockSize
  BY <1>1, <1>2 DEF Smaller
<1>5. b = BlockCount(len) => to = len
  BY <1>1, <1>2 DEF Smaller
<1>6. d = SubSeq(wdata, From(b) + 1, to)
  BY DEF BlockOf
<1> HIDE DEF to, d
<1>7. /\ d \in Seq(Bytes) /\ Len(d) = to - From(b)
      /\ \A i \in 1 .. to - From(b) : d[i] = wdata[From(b) + i]
  <2> HIDE DEF Bytes
  <2>1. ASSUME NEW i \in From(b) + 1 .. to PROVE wdata[i] \in Bytes
    <3>1. i \in 1 .. Len(wdata)
      BY <1>1, <1>2, <1>3
    <3> QED BY <3>1
  <2>2. From(b) + 1 \in Int /\ to \in Int /\ From(b) + 1 <= to /\ to - (From(b) + 1) + 1 = to - From(b)
    BY <1>2, <1>3
  <2>3. /\ d \in Seq(Bytes) /\ Len(d) = to - From(b)
        /\ \A i \in 1 .. to - From(b) : d[i] = wdata[From(b) + 1 + i - 1]
    BY <1>6, <2>1, <2>2, SubSeqProperties
  <2>4. \A i \in 1 .. to - From(b) : From(b) + 1 + i - 1 = From(b) + i
    BY <1>2, <1>3
  <2> QED BY <2>3, <2>4
<1> QED BY <1>1, <1>2, <1>3, <1>4, <1>5, <1>7 DEF d, Base

WriteOf(addr, wdata, b) ==
  Request(P_WRITE, <<addr + From(b), Len(BlockOf(wdata, b))>>, 1, FALSE, b)
WdataOf(wdata, b) == Request(P_WDATA, BlockOf(wdata, b), 0, FALSE, b)

\* write_mem: for each block a P_WRITE and a P_WDATA.
LEMMA WriteMemParts ==
  ASSUME NEW c \in Commands
  PROVE  LET w == WriteMem(c.addr, c.wdata) n == BlockCount(Len(c.wdata)) IN
         /\ n \in Nat /\ (c.wdata # <<>> => n >= 1)
         /\ w \in Seq(AnyRequest) /\ Len(w) = 2 * n
         /\ \A i \in 1 .. 2 * n : Proper(w[i])
         /\ \A i \in 1 .. 2 * n : \E b \in 1 .. n : i = 2 * b - 1 \/ i = 2 * b
         /\ \A b \in 1 .. n : /\ w[2 * b - 1] = WriteOf(c.addr, c.wdata, b)
                              /\ w[2 * b] = WdataOf(c.wdata, b)
<1> DEFINE w == WriteMem(c.addr, c.wdata)  n == BlockCount(Len(c.wdata))
           half(i) == (i + 1) \div 2
<1>1. /\ c.addr \in Nat /\ c.addr + Len(c.wdata) < Base /\ c.wdata \in Seq(Bytes)
      /\ Len(c.wdata) \in Nat /\ Len(c.wdata) < Base
  BY CommandParts, ByteNumber DEF Base
<1>2. n \in Nat /\ (c.wdata # <<>> => n >= 1)
  <2>1. BlockSize \in Nat /\ BlockSize >= 1
    BY ProgrammerAssumption
  <2>2. Len(c.wdata) + BlockSize - 1 \in Nat
    BY <1>1, <2>1
  <2>3. c.wdata # <<>> => Len(c.wdata) + BlockSize - 1 >= BlockSize
    <3>1. c.wdata # <<>> => Len(c.wdata) >= 1
      BY <1>1
    <3> QED BY <1>1, <2>1, <3>1
  <2> QED BY <2>1, <2>2, <2>3, Divided DEF BlockCount
<1>3. ASSUME NEW i \in 1 .. 2 * n
      PROVE  \E b \in 1 .. n : /\ i = 2 * b - 1 \/ i = 2 * b
                               /\ half(i) = b /\ (i % 2 = IF i = 2 * b THEN 0 ELSE 1)
  <2>1. half(i) \in 1 .. n /\ (i = 2 * half(i) - 1 \/ i = 2 * half(i))
    BY <1>2
  <2>2. i % 2 = IF i = 2 * half(i) THEN 0 ELSE 1
    BY <1>2, <2>1
  <2> QED BY <2>1, <2>2
<1>4. ASSUME NEW i \in 1 .. 2 * n
      PROVE  w[i] = IF i % 2 = 1 THEN WriteOf(c.addr, c.wdata, half(i)) ELSE WdataOf(c.wdata, half(i))
  <2>1. w[i] = BlockRequests(c.addr + From(half(i)), BlockOf(c.wdata, half(i)), half(i))[2 - (i % 2)]
    BY DEF WriteMem, From, BlockOf
  <2>2. i % 2 = 0 \/ i % 2 = 1
    BY <1>2
  <2> DEFINE pair(b) == <<WriteOf(c.addr, c.wdata, b), WdataOf(c.wdata, b)>>
  <2>3. w[i] = pair(half(i))[2 - (i % 2)]
    <3> HIDE DEF w, half
    <3> QED BY <2>1 DEF BlockRequests, WriteOf, WdataOf
  <2>4. \A b : pair(b)[2 - 0] = WdataOf(c.wdata, b) /\ pair(b)[2 - 1] = WriteOf(c.addr, c.wdata, b)
    OBVIOUS
  <2> HIDE DEF pair
  <2> HIDE DEF w, half
  <2>5. CASE i % 2 = 0
    BY <2>3, <2>5, <2>4
  <2>6. CASE i % 2 = 1
    BY <2>3, <2>6, <2>4
  <2> QED BY <2>2, <2>5, <2>6
<1>5. ASSUME NEW b \in 1 .. n
      PROVE  Proper(WriteOf(c.addr, c.wdata, b)) /\ Proper(WdataOf(c.wdata, b))
  <2> DEFINE d == BlockOf(c.wdata, b)
  <2>1. /\ d \in Seq(Bytes) /\ Len(d) \in Nat /\ Len(d) < Base /\ From(b) + Len(d) <= Len(c.wdata)
    BY <1>1, BlockParts
  <2>2. From(b) \in Nat /\ b \in Nat
    BY <1>1, <1>2, BlockRange
  <2> HIDE DEF d
  <2>3. c.addr + From(b) \in Bytes /\ Len(d) \in Bytes
    <3>1. c.addr + From(b) \in Nat /\ c.addr + From(b) < Base
      BY <1>1, <2>1, <2>2 DEF Base
    <3> QED BY <2>1, <3>1, SmallByte
  <2>4. <<c.addr + From(b), Len(d)>> \in Seq(Bytes) /\ Len(<<c.addr + From(b), Len(d)>>) = 2
    <3> HIDE DEF Bytes
    <3> QED BY <2>3
  <2>5. Proper(Request(P_WRITE, <<c.addr + From(b), Len(d)>>, 1, FALSE, b))
    <3> HIDE DEF Bytes
    <3> QED BY <2>2, <2>4, ProperRequest
  <2>6. Proper(Request(P_WDATA, d, 0, FALSE, b))
    BY <2>1, <2>2, ProperRequest
  <2> QED BY <2>5, <2>6 DEF WriteOf, WdataOf, d
<1>6. ASSUME NEW i \in 1 .. 2 * n PROVE Proper(w[i])
  <2>1. half(i) \in 1 .. n
    BY <1>3
  <2> HIDE DEF w, half, n
  <2> QED BY <1>4, <1>5, <2>1
<1>7. w = [i \in 1 .. 2 * n |-> w[i]]
  BY DEF WriteMem
<1>8. w \in Seq(AnyRequest) /\ Len(w) = 2 * n
  <2> HIDE DEF w, half, n
  <2>1. \A i \in 1 .. 2 * n : w[i] \in AnyRequest
    BY <1>6 DEF Proper
  <2> HIDE DEF AnyRequest
  <2>2. 2 * n \in Nat
    BY <1>2
  <2>3. w \in [1 .. 2 * n -> AnyRequest]
    BY <1>7, <2>1
  <2> QED BY <2>2, <2>3
<1>9. ASSUME NEW b \in 1 .. n
      PROVE  w[2 * b - 1] = WriteOf(c.addr, c.wdata, b) /\ w[2 * b] = WdataOf(c.wdata, b)
  <2>1. 2 * b - 1 \in 1 .. 2 * n /\ 2 * b \in 1 .. 2 * n
    BY <1>2
  <2>2. half(2 * b - 1) = b /\ (2 * b - 1) % 2 = 1 /\ half(2 * b) = b /\ (2 * b) % 2 = 0
    BY <1>2
  <2> HIDE DEF w, half, n
  <2> QED BY <1>4, <2>1, <2>2
<1>10. \A i \in 1 .. 2 * n : \E b \in 1 .. n : i = 2 * b - 1 \/ i = 2 * b
  BY <1>3
<1> HIDE DEF w, half, n
<1> QED BY <1>2, <1>6, <1>8, <1>9, <1>10 DEF w, n


----------------------------------------------------------------------------
(* The course of a command.                                                *)

\* Requests that have nothing to do with the speed, each with those it drops.
Plain(s) ==
  /\ s \in Seq(AnyRequest)
  /\ \A i \in 1 .. Len(s) : /\ Proper(s[i]) /\ i + s[i].drops <= Len(s)
                            /\ s[i].type # P_SPEED /\ (s[i].type = P_PING => s[i].fatal)

LEMMA PlainOne ==
  ASSUME NEW r, Proper(r), r.drops = 0, r.type # P_SPEED, r.type = P_PING => r.fatal
  PROVE  Plain(<<r>>)
<1>1. r \in AnyRequest
  BY DEF Proper
<1>2. <<r>> \in Seq(AnyRequest) /\ Len(<<r>>) = 1 /\ <<r>>[1] = r
  BY <1>1
<1>3. QED
  BY <1>2 DEF Plain

LEMMA PlainJoin ==
  ASSUME NEW s, NEW t, Plain(s), Plain(t)
  PROVE  Plain(s \o t) /\ Len(s \o t) = Len(s) + Len(t)
<1>1. /\ s \o t \in Seq(AnyRequest) /\ Len(s \o t) = Len(s) + Len(t)
      /\ Len(s) \in Nat /\ Len(t) \in Nat
      /\ \A i \in 1 .. Len(s) + Len(t) : (s \o t)[i] = IF i <= Len(s) THEN s[i] ELSE t[i - Len(s)]
  BY DEF Plain
<1>2. ASSUME NEW i \in 1 .. Len(s) + Len(t)
      PROVE  LET r == (s \o t)[i] IN
             /\ Proper(r) /\ i + r.drops <= Len(s) + Len(t)
             /\ r.type # P_SPEED /\ (r.type = P_PING => r.fatal)
  <2>1. CASE i <= Len(s)
    <3>1. i \in 1 .. Len(s) /\ (s \o t)[i] = s[i]
      BY <1>1, <2>1
    <3>2. /\ Proper(s[i]) /\ i + s[i].drops <= Len(s)
          /\ s[i].type # P_SPEED /\ (s[i].type = P_PING => s[i].fatal)
      BY <3>1 DEF Plain
    <3>3. s[i].drops \in {0, 1}
      BY <3>2 DEF Proper, AnyRequest
    <3>4. QED
      BY <1>1, <3>1, <3>2, <3>3
  <2>2. CASE ~(i <= Len(s))
    <3>1. i - Len(s) \in 1 .. Len(t) /\ (s \o t)[i] = t[i - Len(s)]
      BY <1>1, <2>2
    <3>2. /\ Proper(t[i - Len(s)]) /\ i - Len(s) + t[i - Len(s)].drops <= Len(t)
          /\ t[i - Len(s)].type # P_SPEED /\ (t[i - Len(s)].type = P_PING => t[i - Len(s)].fatal)
      BY <3>1 DEF Plain
    <3>3. t[i - Len(s)].drops \in {0, 1}
      BY <3>2 DEF Proper, AnyRequest
    <3>4. QED
      BY <1>1, <3>1, <3>2, <3>3
  <2>3. QED
    BY <2>1, <2>2
<1>3. QED
  BY <1>1, <1>2 DEF Plain

LEMMA PlainNone == Plain(<<>>)
BY DEF Plain

LEMMA PlainWriteMem ==
  ASSUME NEW c \in Commands
  PROVE  LET w == WriteMem(c.addr, c.wdata) IN
         /\ Plain(w) /\ Len(w) = 2 * BlockCount(Len(c.wdata))
         /\ \A i \in 1 .. Len(w) : w[i].type \in {P_WRITE, P_WDATA} /\ ~w[i].fatal
<1> DEFINE w == WriteMem(c.addr, c.wdata)
           n == BlockCount(Len(c.wdata))
<1>1. /\ n \in Nat /\ w \in Seq(AnyRequest) /\ Len(w) = 2 * n
      /\ \A i \in 1 .. 2 * n : Proper(w[i])
      /\ \A i \in 1 .. 2 * n : \E b \in 1 .. n : i = 2 * b - 1 \/ i = 2 * b
      /\ \A b \in 1 .. n : /\ w[2 * b - 1] = WriteOf(c.addr, c.wdata, b)
                           /\ w[2 * b] = WdataOf(c.wdata, b)
  BY WriteMemParts
<1>2. \A b : /\ WriteOf(c.addr, c.wdata, b).type = P_WRITE /\ WriteOf(c.addr, c.wdata, b).drops = 1
             /\ WriteOf(c.addr, c.wdata, b).fatal = FALSE
             /\ WdataOf(c.wdata, b).type = P_WDATA /\ WdataOf(c.wdata, b).drops = 0
             /\ WdataOf(c.wdata, b).fatal = FALSE
  BY DEF WriteOf, WdataOf, Request
<1>3. ASSUME NEW i \in 1 .. 2 * n
      PROVE  /\ w[i].type \in {P_WRITE, P_WDATA} /\ ~w[i].fatal
             /\ i + w[i].drops <= 2 * n
  <2> HIDE DEF w, n
  <2>1. PICK b \in 1 .. n : i = 2 * b - 1 \/ i = 2 * b
    BY <1>1
  <2>2. CASE i = 2 * b - 1
    <3>1. w[i] = WriteOf(c.addr, c.wdata, b)
      BY <1>1, <2>2
    <3>2. QED
      BY <3>1, <1>1, <1>2, <2>2
  <2>3. CASE i = 2 * b
    <3>1. w[i] = WdataOf(c.wdata, b)
      BY <1>1, <2>3
    <3>2. QED
      BY <3>1, <1>1, <1>2, <2>3
  <2>4. QED
    BY <2>1, <2>2, <2>3
<1>4. P_WRITE # P_SPEED /\ P_WDATA # P_SPEED /\ P_WRITE # P_PING /\ P_WDATA # P_PING
  BY Numbers DEF TypeNumbers
<1> HIDE DEF w, n
<1>5. Plain(w)
  BY <1>1, <1>3, <1>4 DEF Plain
<1>6. QED
  BY <1>1, <1>3, <1>5 DEF w, n

\* main after the speed.
LEMMA RequestsParts ==
  ASSUME NEW c \in Commands
  PROVE  LET s == Requests(c) IN
         /\ Plain(s) /\ Len(s) >= 1
         /\ c.name = "read" => s = <<Request(P_READ, <<c.addr, c.length>>, 0, TRUE, 0)>>
         /\ c.name = "call" => s = <<Request(P_CALL, <<c.addr>>, 0, TRUE, 0)>>
         /\ c.name \in {"upload", "write"} => s = WriteMem(c.addr, c.wdata)
         /\ c.name = "run" =>
              s = WriteMem(c.addr, c.wdata)
                    \o <<Request(P_JUMP, <<c.addr>>, 0, TRUE, BlockCount(Len(c.wdata)))>>
         /\ c.name # "call" => \A i \in 1 .. Len(s) : s[i].type # P_CALL
<1> DEFINE w == WriteMem(c.addr, c.wdata)
           n == BlockCount(Len(c.wdata))
           jump == Request(P_JUMP, <<c.addr>>, 0, TRUE, n)
<1>1. /\ c.addr \in Bytes /\ c.length \in Bytes /\ c.wdata \in Seq(Bytes)
      /\ c.name \in {"upload", "run", "ping", "id", "jump", "call", "read", "write"}
      /\ c.name \in {"upload", "write"} => c.wdata # <<>>
  BY CommandParts
<1>2. /\ n \in Nat /\ (c.wdata # <<>> => n >= 1) /\ Plain(w) /\ Len(w) = 2 * n
      /\ \A i \in 1 .. Len(w) : w[i].type \in {P_WRITE, P_WDATA}
  BY WriteMemParts, PlainWriteMem
<1>3. Nonce \in Bytes
  BY ProgrammerAssumption DEF Bytes
<1>4. /\ P_PING # P_SPEED /\ P_WHO # P_SPEED /\ P_READ # P_SPEED /\ P_JUMP # P_SPEED /\ P_CALL # P_SPEED
      /\ P_WHO # P_PING /\ P_READ # P_PING /\ P_JUMP # P_PING /\ P_CALL # P_PING
      /\ P_PING # P_CALL /\ P_WHO # P_CALL /\ P_READ # P_CALL /\ P_JUMP # P_CALL
      /\ P_WRITE # P_CALL /\ P_WDATA # P_CALL
  BY Numbers DEF TypeNumbers
<1>5. /\ <<Nonce>> \in Seq(Bytes) /\ Len(<<Nonce>>) = 1 /\ <<c.addr>> \in Seq(Bytes) /\ Len(<<c.addr>>) = 1
      /\ <<c.addr, c.length>> \in Seq(Bytes) /\ Len(<<c.addr, c.length>>) = 2
      /\ <<>> \in Seq(Bytes) /\ Len(<<>>) = 0
  BY <1>1, <1>3
<1>6. ASSUME NEW type, NEW d \in Seq(Bytes), NEW blk \in Nat,
             \/ type \in {P_PING, P_JUMP, P_CALL} /\ Len(d) = 1
             \/ type = P_READ /\ Len(d) = 2
             \/ type = P_WHO /\ Len(d) = 0
      PROVE  LET s == <<Request(type, d, 0, TRUE, blk)>> IN
             Plain(s) /\ Len(s) = 1 /\ s[1].type = type
  <2> DEFINE r == Request(type, d, 0, TRUE, blk)
  <2>1. Proper(r)
    BY <1>6, ProperRequest
  <2>2. r.drops = 0 /\ r.type = type /\ r.fatal = TRUE /\ r.type # P_SPEED
    BY <1>4, <1>6 DEF Request
  <2> HIDE DEF r
  <2>3. Plain(<<r>>)
    BY <2>1, <2>2, PlainOne
  <2>4. QED
    BY <2>2, <2>3 DEF r
<1>7. CASE c.name \in {"upload", "write"}
  <2>1. w \o <<>> = w
    <3>1. w \in Seq(AnyRequest)
      BY <1>2 DEF Plain
    <3>2. QED
      BY <3>1
  <2>2. Requests(c) = w
    BY <1>7, <2>1 DEF Requests, UploadElf, WriteRange
  <2> HIDE DEF w, n
  <2>3. Len(w) >= 1
    BY <1>1, <1>2, <1>7
  <2>4. \A i \in 1 .. Len(w) : w[i].type # P_CALL
    BY <1>2, <1>4
  <2>5. c.name \in {"upload", "write"}
    BY <1>7
  <2>6. QED
    BY <1>2, <2>2, <2>3, <2>4, <2>5 DEF w
<1>8. CASE c.name = "run"
  <2>1. Requests(c) = w \o <<jump>>
    BY <1>8 DEF Requests, UploadElf
  <2>2. Plain(<<jump>>) /\ Len(<<jump>>) = 1 /\ <<jump>>[1].type = P_JUMP
    BY <1>2, <1>5, <1>6
  <2> HIDE DEF w, n, jump
  <2>3. Plain(w \o <<jump>>) /\ Len(w \o <<jump>>) = 2 * n + 1
    BY <1>2, <2>2, PlainJoin
  <2>4. ASSUME NEW i \in 1 .. Len(w \o <<jump>>)
        PROVE  (w \o <<jump>>)[i].type # P_CALL
    <3>1. w \in Seq(AnyRequest) /\ <<jump>> \in Seq(AnyRequest)
      BY <1>2, <2>2 DEF Plain
    <3>2. (w \o <<jump>>)[i] = IF i <= Len(w) THEN w[i] ELSE <<jump>>[i - Len(w)]
      BY <3>1, <2>2, <2>3, <1>2
    <3>3. i <= Len(w) \/ i - Len(w) = 1
      BY <2>3, <1>2
    <3>4. CASE i <= Len(w)
      <4>1. (w \o <<jump>>)[i] = w[i] /\ i \in 1 .. Len(w)
        BY <3>2, <3>4, <1>2, <2>3
      <4>2. QED
        BY <4>1, <1>2, <1>4
    <3>5. CASE ~(i <= Len(w)) /\ i - Len(w) = 1
      <4>1. (w \o <<jump>>)[i] = <<jump>>[1]
        BY <3>2, <3>5
      <4>2. QED
        BY <4>1, <2>2, <1>4
    <3>6. QED
      BY <3>3, <3>4, <3>5
  <2>5. 2 * n + 1 >= 1
    BY <1>2
  <2>6. /\ Plain(Requests(c)) /\ Len(Requests(c)) >= 1
        /\ \A i \in 1 .. Len(Requests(c)) : Requests(c)[i].type # P_CALL
    BY <2>1, <2>3, <2>4, <2>5
  <2>7. Requests(c) = WriteMem(c.addr, c.wdata)
                        \o <<Request(P_JUMP, <<c.addr>>, 0, TRUE, BlockCount(Len(c.wdata)))>>
    BY <2>1 DEF w, jump, n
  <2>8. QED
    BY <1>8, <2>6, <2>7
<1>9. CASE c.name \in {"ping", "id", "jump", "call", "read"}
  <2>1. \/ c.name = "ping" /\ Requests(c) = <<Request(P_PING, <<Nonce>>, 0, TRUE, 0)>>
        \/ c.name = "id" /\ Requests(c) = <<Request(P_WHO, <<>>, 0, TRUE, 0)>>
        \/ c.name = "jump" /\ Requests(c) = <<Request(P_JUMP, <<c.addr>>, 0, TRUE, 0)>>
        \/ c.name = "call" /\ Requests(c) = <<Request(P_CALL, <<c.addr>>, 0, TRUE, 0)>>
        \/ c.name = "read" /\ Requests(c) = <<Request(P_READ, <<c.addr, c.length>>, 0, TRUE, 0)>>
    BY <1>9 DEF Requests, Ping, GetId, JumpOrCall, ReadRange, Only
  <2>2. 0 \in Nat
    OBVIOUS
  <2>3. /\ Plain(Requests(c)) /\ Len(Requests(c)) = 1
        /\ c.name # "call" => Requests(c)[1].type # P_CALL
    <3>1. CASE c.name = "ping"
      <4>1. Requests(c) = <<Request(P_PING, <<Nonce>>, 0, TRUE, 0)>>
        BY <2>1, <3>1
      <4> DEFINE t == <<Request(P_PING, <<Nonce>>, 0, TRUE, 0)>>
      <4>2. Plain(t) /\ Len(t) = 1 /\ t[1].type = P_PING
        BY <1>5, <1>6, <2>2
      <4> HIDE DEF t
      <4>3. QED
        BY <1>4, <3>1, <4>1, <4>2 DEF t
    <3>2. CASE c.name = "id"
      <4>1. Requests(c) = <<Request(P_WHO, <<>>, 0, TRUE, 0)>>
        BY <2>1, <3>2
      <4> DEFINE t == <<Request(P_WHO, <<>>, 0, TRUE, 0)>>
      <4>2. Plain(t) /\ Len(t) = 1 /\ t[1].type = P_WHO
        BY <1>5, <1>6, <2>2
      <4> HIDE DEF t
      <4>3. QED
        BY <1>4, <3>2, <4>1, <4>2 DEF t
    <3>3. CASE c.name = "jump"
      <4>1. Requests(c) = <<Request(P_JUMP, <<c.addr>>, 0, TRUE, 0)>>
        BY <2>1, <3>3
      <4> DEFINE t == <<Request(P_JUMP, <<c.addr>>, 0, TRUE, 0)>>
      <4>2. Plain(t) /\ Len(t) = 1 /\ t[1].type = P_JUMP
        BY <1>5, <1>6, <2>2
      <4> HIDE DEF t
      <4>3. QED
        BY <1>4, <3>3, <4>1, <4>2 DEF t
    <3>4. CASE c.name = "call"
      <4>1. Requests(c) = <<Request(P_CALL, <<c.addr>>, 0, TRUE, 0)>>
        BY <2>1, <3>4
      <4> DEFINE t == <<Request(P_CALL, <<c.addr>>, 0, TRUE, 0)>>
      <4>2. Plain(t) /\ Len(t) = 1 /\ t[1].type = P_CALL
        BY <1>5, <1>6, <2>2
      <4> HIDE DEF t
      <4>3. QED
        BY <1>4, <3>4, <4>1, <4>2 DEF t
    <3>5. CASE c.name = "read"
      <4>1. Requests(c) = <<Request(P_READ, <<c.addr, c.length>>, 0, TRUE, 0)>>
        BY <2>1, <3>5
      <4> DEFINE t == <<Request(P_READ, <<c.addr, c.length>>, 0, TRUE, 0)>>
      <4>2. Plain(t) /\ Len(t) = 1 /\ t[1].type = P_READ
        BY <1>5, <1>6, <2>2
      <4> HIDE DEF t
      <4>3. QED
        BY <1>4, <3>5, <4>1, <4>2 DEF t
    <3>6. QED
      BY <1>9, <3>1, <3>2, <3>3, <3>4, <3>5
  <2>4. c.name # "call" => \A i \in 1 .. Len(Requests(c)) : Requests(c)[i].type # P_CALL
    <3>1. \A i \in 1 .. 1 : i = 1
      OBVIOUS
    <3>2. QED
      BY <2>3, <3>1
  <2>5. Len(Requests(c)) >= 1
    BY <2>3
  <2>6. QED
    BY <1>9, <2>1, <2>3, <2>4, <2>5
<1>10. QED
  BY <1>1, <1>7, <1>8, <1>9

\* All requests of a command: P_SPEED and its ping, if the speed is to change, then the others.
LEMMA StepsParts ==
  ASSUME NEW c \in Commands
  PROVE  LET s == Begin(c).todo r == Requests(c) IN
         /\ s \in Seq(AnyRequest) /\ Len(s) \in Nat /\ Len(s) >= 1
         /\ \A i \in 1 .. Len(s) : Proper(s[i]) /\ i + s[i].drops <= Len(s)
         /\ \A i \in 1 .. Len(s) : s[i].type = P_SPEED =>
              /\ i = 1 /\ s[i].drops = 1 /\ ~s[i].fatal /\ s[i].data[1] = c.speed /\ Len(s) >= 3
              /\ s[3].type # P_SPEED /\ (s[3].type = P_PING => s[3].fatal)
         /\ \A i \in 1 .. Len(s) : s[i].type = P_PING /\ ~s[i].fatal => i = 2 /\ s[1].type = P_SPEED
         /\ \/ s = r
            \/ s = ChangeSpeed(c.speed) \o r
<1> DEFINE r == Requests(c)
           speed == Request(P_SPEED, <<c.speed>>, 1, FALSE, 0)
           ping == Request(P_PING, <<Nonce>>, 0, FALSE, 0)
           h == <<speed, ping>>
<1>1. Plain(r) /\ Len(r) >= 1 /\ Len(r) \in Nat /\ r \in Seq(AnyRequest)
  <2>1. Plain(r) /\ Len(r) >= 1
    BY RequestsParts
  <2>2. QED
    BY <2>1 DEF Plain
<1>2. /\ Proper(speed) /\ Proper(ping)
  <2>1. c.speed \in Bytes /\ Nonce \in Bytes
    BY CommandParts, ProgrammerAssumption DEF Bytes
  <2>2. <<c.speed>> \in Seq(Bytes) /\ Len(<<c.speed>>) = 1 /\ <<Nonce>> \in Seq(Bytes) /\ Len(<<Nonce>>) = 1
    BY <2>1
  <2>3. QED
    BY <2>2, ProperRequest
<1>3. /\ speed.type = P_SPEED /\ speed.drops = 1 /\ speed.fatal = FALSE /\ speed.data[1] = c.speed
      /\ ping.type = P_PING /\ ping.drops = 0 /\ ping.fatal = FALSE /\ P_PING # P_SPEED
  BY Numbers DEF Request, TypeNumbers
<1>4. ChangeSpeed(c.speed) = h
  BY DEF ChangeSpeed
<1>5. Begin(c).todo = IF c.speed > 0 THEN h \o r ELSE <<>> \o r
  BY <1>4 DEF Begin
<1>6. <<>> \o r = r
  BY <1>1
<1> HIDE DEF speed, ping, r
<1>7. CASE Begin(c).todo = r
  <2>1. \A i \in 1 .. Len(r) :
          Proper(r[i]) /\ i + r[i].drops <= Len(r) /\ r[i].type # P_SPEED /\ (r[i].type = P_PING => r[i].fatal)
    BY <1>1 DEF Plain
  <2>2. QED
    BY <1>1, <1>7, <2>1 DEF r
<1>8. CASE Begin(c).todo = h \o r
  <2> DEFINE s == h \o r
  <2>1. /\ s \in Seq(AnyRequest) /\ Len(s) = Len(r) + 2
        /\ \A i \in 1 .. Len(s) : s[i] = IF i <= 2 THEN h[i] ELSE r[i - 2]
    <3>1. h \in Seq(AnyRequest) /\ Len(h) = 2
      BY <1>2 DEF Proper
    <3>2. QED
      BY <3>1, <1>1
  <2>2. s[1] = speed /\ s[2] = ping
    BY <1>1, <2>1
  <2> HIDE DEF s, h
  <2>3. ASSUME NEW i \in 1 .. Len(s), i > 2
        PROVE  /\ Proper(s[i]) /\ i + s[i].drops <= Len(s)
               /\ s[i].type # P_SPEED /\ (s[i].type = P_PING => s[i].fatal)
    <3>1. i - 2 \in 1 .. Len(r) /\ s[i] = r[i - 2]
      BY <1>1, <2>1, <2>3
    <3>2. /\ Proper(r[i - 2]) /\ i - 2 + r[i - 2].drops <= Len(r)
          /\ r[i - 2].type # P_SPEED /\ (r[i - 2].type = P_PING => r[i - 2].fatal)
      BY <1>1, <3>1 DEF Plain
    <3>3. r[i - 2].drops \in {0, 1}
      BY <3>2 DEF Proper, AnyRequest
    <3>4. QED
      BY <1>1, <2>1, <3>1, <3>2, <3>3
  <2>4. Len(s) >= 3 /\ Len(s) \in Nat
    BY <1>1, <2>1
  <2>5. \A i \in 1 .. Len(s) : i = 1 \/ i = 2 \/ i > 2
    OBVIOUS
  <2>6. \A i \in 1 .. Len(s) : Proper(s[i]) /\ i + s[i].drops <= Len(s)
    BY <1>2, <1>3, <2>2, <2>3, <2>4, <2>5
  <2>7. \A i \in 1 .. Len(s) : s[i].type = P_SPEED => i = 1
    BY <1>3, <2>2, <2>3, <2>5
  <2>8. \A i \in 1 .. Len(s) : s[i].type = P_PING /\ ~s[i].fatal => i = 2
    BY <1>3, <2>2, <2>3, <2>5
  <2>9. s[3].type # P_SPEED /\ (s[3].type = P_PING => s[3].fatal)
    BY <2>3, <2>4
  <2>10. Begin(c).todo = s
    BY <1>8 DEF s
  <2>11. s = ChangeSpeed(c.speed) \o Requests(c)
    BY <1>4 DEF s, r
  <2>12. \A i \in 1 .. Len(s) : s[i].type = P_SPEED =>
           /\ i = 1 /\ s[i].drops = 1 /\ ~s[i].fatal /\ s[i].data[1] = c.speed /\ Len(s) >= 3
           /\ s[3].type # P_SPEED /\ (s[3].type = P_PING => s[3].fatal)
    BY <1>3, <2>2, <2>4, <2>7, <2>9
  <2>13. \A i \in 1 .. Len(s) : s[i].type = P_PING /\ ~s[i].fatal => i = 2 /\ s[1].type = P_SPEED
    BY <1>3, <2>2, <2>8
  <2>14. Len(s) \in Nat /\ Len(s) >= 1
    BY <2>4
  <2>15. QED
    BY <2>1, <2>6, <2>10, <2>11, <2>12, <2>13, <2>14
<1>9. QED
  BY <1>5, <1>6, <1>7, <1>8

\* The rest of a sequence after its first i elements.
After(s, i) == SubSeq(s, i + 1, Len(s))

LEMMA AfterParts ==
  ASSUME NEW S, NEW s \in Seq(S), NEW i \in 0 .. Len(s)
  PROVE  /\ After(s, i) \in Seq(S) /\ Len(After(s, i)) = Len(s) - i
         /\ After(s, i) # <<>> <=> i < Len(s)
         /\ i < Len(s) => Head(After(s, i)) = s[i + 1] /\ Tail(After(s, i)) = After(s, i + 1)
         /\ \A d \in 0 .. 1 : i + 1 + d <= Len(s) =>
              SubSeq(After(s, i), 2 + d, Len(After(s, i))) = After(s, i + 1 + d)
<1> DEFINE a == After(s, i)
<1>1. /\ a \in Seq(S) /\ Len(a) = Len(s) - i /\ Len(s) \in Nat
      /\ \A j \in 1 .. Len(s) - i : a[j] = s[i + j]
  <2>1. i + 1 \in Int /\ Len(s) \in Int /\ \A j \in i + 1 .. Len(s) : s[j] \in S
    OBVIOUS
  <2>2. /\ a \in Seq(S) /\ Len(a) = IF i + 1 <= Len(s) THEN Len(s) - (i + 1) + 1 ELSE 0
        /\ \A j \in 1 .. Len(s) - (i + 1) + 1 : a[j] = s[i + 1 + j - 1]
    BY <2>1, SubSeqProperties DEF After
  <2>3. QED
    BY <2>2, SMTT(30)
<1> HIDE DEF a
<1>2. a # <<>> <=> i < Len(s)
  BY <1>1
<1>3. ASSUME NEW m \in 0 .. Len(s)
      PROVE  /\ After(s, m) \in Seq(S) /\ Len(After(s, m)) = Len(s) - m
             /\ \A j \in 1 .. Len(s) - m : After(s, m)[j] = s[m + j]
  <2>1. m + 1 \in Int /\ Len(s) \in Int /\ \A j \in m + 1 .. Len(s) : s[j] \in S
    OBVIOUS
  <2>2. /\ After(s, m) \in Seq(S) /\ Len(After(s, m)) = IF m + 1 <= Len(s) THEN Len(s) - (m + 1) + 1 ELSE 0
        /\ \A j \in 1 .. Len(s) - (m + 1) + 1 : After(s, m)[j] = s[m + 1 + j - 1]
    BY <2>1, SubSeqProperties DEF After
  <2>3. QED
    BY <2>2
<1>4. ASSUME i < Len(s)
      PROVE  Head(a) = s[i + 1] /\ Tail(a) = After(s, i + 1)
  <2>1. a # <<>> /\ Head(a) = a[1] /\ a[1] = s[i + 1]
    BY <1>1, <1>2, <1>4
  <2>2. /\ Tail(a) \in Seq(S) /\ Len(Tail(a)) = Len(s) - i - 1
        /\ \A j \in 1 .. Len(s) - i - 1 : Tail(a)[j] = a[j + 1]
    BY <1>1, <2>1
  <2>3. /\ After(s, i + 1) \in Seq(S) /\ Len(After(s, i + 1)) = Len(s) - (i + 1)
        /\ \A j \in 1 .. Len(s) - (i + 1) : After(s, i + 1)[j] = s[i + 1 + j]
    BY <1>1, <1>3, <1>4
  <2>4. ASSUME NEW j \in 1 .. Len(s) - i - 1
        PROVE  Tail(a)[j] = After(s, i + 1)[j]
    <3>1. Tail(a)[j] = a[j + 1] /\ a[j + 1] = s[i + (j + 1)]
      BY <1>1, <2>2
    <3>2. After(s, i + 1)[j] = s[i + 1 + j]
      <4>1. j \in 1 .. Len(s) - (i + 1)
        BY <1>1
      <4>2. QED
        BY <2>3, <4>1
    <3>3. i + (j + 1) = i + 1 + j
      BY <1>1
    <3>4. QED
      BY <3>1, <3>2, <3>3
  <2>5. Tail(a) = After(s, i + 1)
    <3>1. Len(Tail(a)) = Len(After(s, i + 1)) /\ Len(Tail(a)) = Len(s) - i - 1
      BY <1>1, <2>2, <2>3
    <3>2. QED
      BY <2>2, <2>3, <2>4, <3>1, SeqEqual
  <2>6. QED
    BY <2>1, <2>5
<1>5. ASSUME NEW d \in 0 .. 1, i + 1 + d <= Len(s)
      PROVE  SubSeq(a, 2 + d, Len(a)) = After(s, i + 1 + d)
  <2> DEFINE t == SubSeq(a, 2 + d, Len(a))
             u == After(s, i + 1 + d)
  <2>1. 2 + d \in Int /\ Len(a) \in Int /\ 2 + d <= Len(a) + 1 /\ \A j \in 2 + d .. Len(a) : a[j] \in S
    BY <1>1, <1>5
  <2>2. /\ t \in Seq(S) /\ Len(t) = IF 2 + d <= Len(a) THEN Len(a) - (2 + d) + 1 ELSE 0
        /\ \A j \in 1 .. Len(a) - (2 + d) + 1 : t[j] = a[2 + d + j - 1]
    BY <1>1, <2>1, SubSeqProperties
  <2>3. /\ u \in Seq(S) /\ Len(u) = Len(s) - (i + 1 + d)
        /\ \A j \in 1 .. Len(s) - (i + 1 + d) : u[j] = s[i + 1 + d + j]
    BY <1>1, <1>3, <1>5
  <2> HIDE DEF t, u
  <2>4. Len(t) = Len(u) /\ Len(t) = Len(a) - (2 + d) + 1
    BY <1>1, <1>5, <2>1, <2>2, <2>3
  <2>5. ASSUME NEW j \in 1 .. Len(t)
        PROVE  t[j] = u[j]
    <3>1. t[j] = a[2 + d + j - 1] /\ 2 + d + j - 1 \in 1 .. Len(s) - i
      BY <1>1, <2>2, <2>4
    <3>2. t[j] = s[i + (2 + d + j - 1)]
      BY <1>1, <3>1
    <3>3. u[j] = s[i + 1 + d + j]
      BY <2>3, <2>4
    <3>4. i + (2 + d + j - 1) = i + 1 + d + j
      BY <1>1
    <3>5. QED
      BY <3>2, <3>3, <3>4
  <2>6. t = u
    BY <2>2, <2>3, <2>4, <2>5, SeqEqual
  <2>7. QED
    BY <2>6 DEF t, u
<1>6. QED
  BY <1>1, <1>2, <1>4, <1>5 DEF a

\* The requests of the present command, and how far the programmer has come with them.
Steps == Begin(Command).todo
AtStep(i) == i \in 1 .. Len(Steps) /\ todo = After(Steps, i - 1) /\ Present = Steps[i]

\* The programmer between two bytes: it changes its speed after P_SPEED, and f_change_speed
\* returns true only after the ping that follows.
Course ==
  /\ session \in Seq(Commands) /\ session # <<>>
  /\ \E i \in 0 .. Len(Steps) : todo = After(Steps, i)
  /\ result \in {"busy", "ok", "failed"} /\ (result = "busy" <=> todo # <<>>)
  /\ try \in Nat /\ hspeed \in Nat /\ switched \in {"yes", "no", "unknown"}
  /\ result = "busy" /\ Present.type = P_SPEED => hspeed = InitSpeed /\ switched = "unknown"
  /\ result = "busy" /\ OfSpeed /\ Present.type = P_PING => hspeed = Command.speed
  /\ switched = "yes" => hspeed = Command.speed

LEMMA CommandType ==
  ASSUME session \in Seq(Commands), session # <<>>
  PROVE  Command \in Commands
BY DEF Command

LEMMA StepsFacts ==
  ASSUME Course
  PROVE  /\ Steps \in Seq(AnyRequest) /\ Len(Steps) \in Nat /\ Len(Steps) >= 1
         /\ \A i \in 1 .. Len(Steps) : Proper(Steps[i]) /\ i + Steps[i].drops <= Len(Steps)
         /\ \A i \in 1 .. Len(Steps) : Steps[i].type = P_SPEED =>
              /\ i = 1 /\ Steps[i].drops = 1 /\ ~Steps[i].fatal
              /\ Steps[i].data[1] = Command.speed /\ Len(Steps) >= 3
              /\ Steps[3].type # P_SPEED /\ (Steps[3].type = P_PING => Steps[3].fatal)
         /\ \A i \in 1 .. Len(Steps) :
              Steps[i].type = P_PING /\ ~Steps[i].fatal => i = 2 /\ Steps[1].type = P_SPEED
<1>1. Command \in Commands
  BY CommandType DEF Course
<1>2. QED
  BY <1>1, StepsParts DEF Steps

\* While it is busy it is at one of the steps.
LEMMA PresentStep ==
  ASSUME Course, result = "busy"
  PROVE  (\E i : AtStep(i)) /\ Proper(Present)
<1>1. PICK i \in 0 .. Len(Steps) : todo = After(Steps, i)
  BY DEF Course
<1>2. todo # <<>>
  BY DEF Course
<1>3. Steps \in Seq(AnyRequest) /\ Len(Steps) \in Nat
  BY StepsFacts
<1>4. i < Len(Steps) /\ Head(todo) = Steps[i + 1]
  BY <1>1, <1>2, <1>3, AfterParts
<1>5. i + 1 \in 1 .. Len(Steps) /\ i + 1 - 1 = i
  BY <1>1, <1>3, <1>4
<1>6. AtStep(i + 1)
  BY <1>1, <1>4, <1>5 DEF AtStep, Present
<1>7. Proper(Steps[i + 1])
  BY <1>5, StepsFacts
<1>8. QED
  BY <1>6, <1>7 DEF AtStep

\* The programmer goes on with step j, or ends the command.
LEMMA NextStep ==
  ASSUME Course, session' = session, NEW j \in 2 .. Len(Steps) + 1, todo' = After(Steps, j - 1),
         try' = 0, hspeed' \in Nat, switched' \in {"yes", "no", "unknown"},
         result' \in {"busy", "ok", "failed"}, result' = "busy" <=> todo' # <<>>,
         switched' = "yes" => hspeed' = Command.speed,
         j <= Len(Steps) /\ Steps[j].type = P_PING /\ ~Steps[j].fatal => hspeed' = Command.speed
  PROVE  /\ Course' /\ (result' = "busy" => Present'.type # P_SPEED)
         /\ (result' = "busy" <=> j <= Len(Steps)) /\ (result' = "busy" => Present' = Steps[j])
<1>1. Steps' = Steps /\ Command' = Command
  BY DEF Steps, Command
<1>2. Steps \in Seq(AnyRequest) /\ Len(Steps) \in Nat
  BY StepsFacts
<1>3. j - 1 \in 0 .. Len(Steps)
  BY <1>2
<1>4. /\ todo' # <<>> <=> j - 1 < Len(Steps)
      /\ j - 1 < Len(Steps) => Head(todo') = Steps[j - 1 + 1]
  BY <1>2, <1>3, AfterParts
<1>5. j - 1 < Len(Steps) <=> j <= Len(Steps)
  BY <1>2
<1>6. result' = "busy" <=> j <= Len(Steps)
  BY <1>4, <1>5
<1>7. ASSUME result' = "busy"
      PROVE  Present'.type # P_SPEED /\ Present' = Steps[j]
  <2>1. j \in 1 .. Len(Steps) /\ j - 1 + 1 = j /\ j # 1
    BY <1>2, <1>6, <1>7
  <2>2. Present' = Steps[j]
    BY <1>4, <1>5, <1>6, <1>7, <2>1 DEF Present
  <2>3. Steps[j].type # P_SPEED
    BY <2>1, StepsFacts
  <2>4. QED
    BY <2>2, <2>3
<1>8. result' = "busy" /\ OfSpeed' /\ Present'.type = P_PING => hspeed' = Command.speed
  BY <1>6, <1>7 DEF OfSpeed
<1>9. session' \in Seq(Commands) /\ session' # <<>> /\ \E i \in 0 .. Len(Steps) : todo' = After(Steps, i)
  BY <1>3 DEF Course
<1>10. try' \in Nat
  OBVIOUS
<1>11. Course'
  BY <1>1, <1>7, <1>8, <1>9, <1>10 DEF Course
<1>12. QED
  BY <1>6, <1>7, <1>11

LEMMA Succeeded ==
  ASSUME Course, result = "busy", Success, session' = session, NEW i, AtStep(i)
  PROVE  /\ Course' /\ (result' = "busy" => Present'.type # P_SPEED)
         /\ result' = "busy" <=> i < Len(Steps)
         /\ result' = "busy" => Present' = Steps[i + 1] /\ todo' = After(Steps, i) /\ Steps' = Steps
         /\ Present.type = P_SPEED =>
              result' = "busy" /\ hspeed' = Present.data[1] /\ hspeed' = Command.speed /\ switched' = "unknown"
         /\ Present.type # P_SPEED => hspeed' = hspeed
         /\ switched' = "yes" => switched = "yes" \/ Present.type = P_PING
         /\ try' = 0
<1>1. /\ Steps \in Seq(AnyRequest) /\ Len(Steps) \in Nat
      /\ Steps[i].type = P_SPEED =>
           Steps[i].data[1] = Command.speed /\ Len(Steps) >= 3 /\ i = 1 /\ ~Steps[i].fatal
      /\ \A j \in 1 .. Len(Steps) :
           Steps[j].type = P_PING /\ ~Steps[j].fatal => j = 2 /\ Steps[1].type = P_SPEED
  BY StepsFacts DEF AtStep
<1>2. i \in 1 .. Len(Steps) /\ Present = Steps[i] /\ Steps' = Steps
  BY DEF AtStep, Steps, Command
<1>3. todo' = After(Steps, i)
  <2>1. todo' = Tail(todo)
    BY DEF Success, GoOn
  <2>2. i - 1 \in 0 .. Len(Steps) /\ i - 1 < Len(Steps) /\ i - 1 + 1 = i
    BY <1>1, <1>2
  <2>3. Tail(After(Steps, i - 1)) = After(Steps, i - 1 + 1)
    BY <1>1, <2>2, AfterParts
  <2>4. QED
    BY <2>1, <2>2, <2>3 DEF AtStep
<1>4. i + 1 \in 2 .. Len(Steps) + 1 /\ i + 1 - 1 = i
  BY <1>1, <1>2
<1>5. result' \in {"busy", "ok", "failed"} /\ (result' = "busy" <=> todo' # <<>>) /\ try' = 0
  BY DEF Success, GoOn
<1>6. CASE Present.type = P_SPEED
  <2>1. Present.type # P_PING
    BY <1>6, Numbers DEF TypeNumbers
  <2>2. hspeed' = Present.data[1] /\ switched' = switched /\ switched = "unknown"
    BY <1>6, <2>1 DEF Success, Confirms, Course
  <2>3. hspeed' = Command.speed
    BY <1>1, <1>2, <1>6, <2>2
  <2>4. Command.speed \in Nat
    <3>1. Command.speed \in Bytes
      BY CommandType, CommandParts DEF Course
    <3>2. QED
      BY <3>1, ByteNumber
  <2>5. /\ Course' /\ (result' = "busy" => Present'.type # P_SPEED)
        /\ (result' = "busy" <=> i + 1 <= Len(Steps)) /\ (result' = "busy" => Present' = Steps[i + 1])
    <3> DEFINE j == i + 1
    <3>1. j \in 2 .. Len(Steps) + 1 /\ j - 1 = i
      BY <1>1, <1>2, <1>4
    <3>2. j <= Len(Steps) /\ Steps[j].type = P_PING /\ ~Steps[j].fatal => hspeed' = Command.speed
      BY <1>5, <2>2, <2>3, <2>4
    <3> HIDE DEF j
    <3>3. todo' = After(Steps, j - 1)
      BY <1>3, <3>1
    <3>4. /\ Course' /\ (result' = "busy" => Present'.type # P_SPEED)
          /\ (result' = "busy" <=> j <= Len(Steps)) /\ (result' = "busy" => Present' = Steps[j])
      BY <1>5, <2>2, <2>3, <2>4, <3>1, <3>2, <3>3, NextStep
    <3>5. QED
      BY <3>4 DEF j
  <2>6. i + 1 <= Len(Steps) /\ i < Len(Steps)
    BY <1>1, <1>2, <1>6
  <2>7. QED
    BY <1>2, <1>3, <1>5, <1>6, <2>2, <2>3, <2>5, <2>6
<1>7. CASE Present.type # P_SPEED
  <2>1. hspeed' = hspeed /\ hspeed \in Nat /\ switched \in {"yes", "no", "unknown"}
    BY <1>7 DEF Success, Course
  <2>2. switched' = IF Confirms THEN "yes" ELSE switched
    BY DEF Success
  <2>3. switched' \in {"yes", "no", "unknown"}
    BY <2>1, <2>2
  <2>4. switched' = "yes" => hspeed' = Command.speed /\ (switched = "yes" \/ Present.type = P_PING)
    BY <2>1, <2>2 DEF Confirms, Course
  <2>5. i + 1 <= Len(Steps) /\ Steps[i + 1].type = P_PING /\ ~Steps[i + 1].fatal => FALSE
    <3>1. SUFFICES ASSUME i + 1 <= Len(Steps), Steps[i + 1].type = P_PING, ~Steps[i + 1].fatal
                   PROVE  FALSE
      OBVIOUS
    <3>2. i + 1 \in 1 .. Len(Steps)
      BY <1>1, <1>2, <3>1
    <3>3. i + 1 = 2 /\ Steps[1].type = P_SPEED
      BY <1>1, <3>1, <3>2
    <3>4. i = 1
      BY <1>1, <1>2, <3>3
    <3>5. QED
      BY <1>2, <1>7, <3>3, <3>4
  <2>6. /\ Course' /\ (result' = "busy" => Present'.type # P_SPEED)
        /\ (result' = "busy" <=> i + 1 <= Len(Steps)) /\ (result' = "busy" => Present' = Steps[i + 1])
    <3> DEFINE j == i + 1
    <3>1. j \in 2 .. Len(Steps) + 1 /\ j - 1 = i
      BY <1>1, <1>2, <1>4
    <3>2. j <= Len(Steps) /\ Steps[j].type = P_PING /\ ~Steps[j].fatal => hspeed' = Command.speed
      BY <1>5, <2>1, <2>3, <2>4, <2>5
    <3> HIDE DEF j
    <3>3. todo' = After(Steps, j - 1)
      BY <1>3, <3>1
    <3>4. /\ Course' /\ (result' = "busy" => Present'.type # P_SPEED)
          /\ (result' = "busy" <=> j <= Len(Steps)) /\ (result' = "busy" => Present' = Steps[j])
      BY <1>5, <2>1, <2>3, <2>4, <2>5, <3>1, <3>2, <3>3, NextStep
    <3>5. QED
      BY <3>4 DEF j
  <2>7. i + 1 <= Len(Steps) <=> i < Len(Steps)
    BY <1>1, <1>2
  <2>8. QED
    BY <1>2, <1>3, <1>5, <1>7, <2>1, <2>4, <2>6, <2>7
<1>8. QED
  BY <1>6, <1>7

LEMMA Failed ==
  ASSUME Course, result = "busy", Failure, session' = session, NEW i, AtStep(i)
  PROVE  /\ Course' /\ (result' = "busy" => Present'.type # P_SPEED)
         /\ Present.type = P_SPEED => result' = "busy"
         /\ Present.fatal => result' = "failed"
         /\ ~Present.fatal =>
              /\ result' = "busy" <=> i + 1 + Present.drops <= Len(Steps)
              /\ result' = "busy" =>
                   /\ Present' = Steps[i + 1 + Present.drops]
                   /\ todo' = After(Steps, i + Present.drops) /\ Steps' = Steps
         /\ hspeed' = hspeed /\ (switched' = "yes" => switched = "yes") /\ try' = 0
<1>1. /\ Steps \in Seq(AnyRequest) /\ Len(Steps) \in Nat
      /\ Steps[i].type = P_SPEED =>
           Len(Steps) >= 3 /\ i = 1 /\ ~Steps[i].fatal /\ Steps[i].drops = 1
      /\ \A j \in 1 .. Len(Steps) :
           Steps[j].type = P_PING /\ ~Steps[j].fatal => j = 2 /\ Steps[1].type = P_SPEED
      /\ Steps[1].type = P_SPEED => Steps[1].drops = 1
  BY StepsFacts DEF AtStep
<1>2. i \in 1 .. Len(Steps) /\ Present = Steps[i] /\ Steps' = Steps
  BY DEF AtStep, Steps, Command
<1>3. Proper(Steps[i]) /\ i + Steps[i].drops <= Len(Steps) /\ Steps[i].drops \in {0, 1}
      /\ Steps[i].fatal \in BOOLEAN
  <2>1. Proper(Steps[i]) /\ i + Steps[i].drops <= Len(Steps)
    BY <1>2, StepsFacts
  <2>2. QED
    BY <2>1 DEF Proper, AnyRequest
<1>4. /\ hspeed' = hspeed /\ hspeed \in Nat /\ switched \in {"yes", "no", "unknown"}
      /\ switched' = IF OfSpeed THEN "no" ELSE switched
      /\ switched = "yes" => hspeed = Command.speed
  BY DEF Failure, Course
<1>5. switched' \in {"yes", "no", "unknown"} /\ (switched' = "yes" => switched = "yes" /\ hspeed' = Command.speed)
  BY <1>4
<1>6. CASE Present.fatal
  <2>1. todo' = <<>> /\ result' = "failed" /\ try' = 0
    BY <1>6 DEF Failure, GoOn
  <2>2. Len(Steps) + 1 \in 2 .. Len(Steps) + 1 /\ Len(Steps) + 1 - 1 = Len(Steps)
        /\ ~(Len(Steps) + 1 <= Len(Steps))
    BY <1>1, <1>2
  <2>3. After(Steps, Len(Steps)) = <<>>
    <3>1. Len(Steps) \in 0 .. Len(Steps)
      BY <1>1
    <3>2. QED
      BY <1>1, <3>1, AfterParts
  <2>4. /\ todo' = After(Steps, Len(Steps) + 1 - 1)
        /\ result' \in {"busy", "ok", "failed"} /\ (result' = "busy" <=> todo' # <<>>)
    BY <2>1, <2>2, <2>3
  <2>5. Course'
    BY <1>4, <1>5, <2>1, <2>2, <2>4, NextStep
  <2>6. QED
    BY <1>1, <1>2, <1>4, <1>5, <1>6, <2>1, <2>5
<1>7. CASE ~Present.fatal
  <2> DEFINE d == Present.drops
             j == i + 1 + d
  <2>1. d \in 0 .. 1 /\ j \in 2 .. Len(Steps) + 1 /\ j - 1 = i + d
    BY <1>1, <1>2, <1>3
  <2>2. todo' = After(Steps, j - 1)
    <3>1. todo' = SubSeq(todo, 2 + d, Len(todo))
      BY <1>7 DEF Failure, GoOn
    <3>2. i - 1 \in 0 .. Len(Steps) /\ i - 1 + 1 + d <= Len(Steps) /\ i - 1 + 1 + d = i + d
      BY <1>1, <1>2, <1>3
    <3>3. SubSeq(After(Steps, i - 1), 2 + d, Len(After(Steps, i - 1))) = After(Steps, i - 1 + 1 + d)
      BY <1>1, <2>1, <3>2, AfterParts
    <3>4. QED
      BY <2>1, <3>1, <3>2, <3>3 DEF AtStep
  <2>3. result' \in {"busy", "ok", "failed"} /\ (result' = "busy" <=> todo' # <<>>) /\ try' = 0
    BY <1>7 DEF Failure, GoOn
  <2>4. j <= Len(Steps) /\ Steps[j].type = P_PING /\ ~Steps[j].fatal => FALSE
    <3>1. SUFFICES ASSUME j <= Len(Steps), Steps[j].type = P_PING, ~Steps[j].fatal
                   PROVE  FALSE
      OBVIOUS
    <3>2. j \in 1 .. Len(Steps)
      BY <1>1, <2>1, <3>1
    <3>3. j = 2 /\ Steps[1].type = P_SPEED
      <4> HIDE DEF j
      <4> QED BY <1>1, <3>1, <3>2
    <3>4. i = 1 /\ d = 0
      BY <1>1, <1>2, <2>1, <3>3
    <3>5. QED
      BY <1>1, <1>2, <3>3, <3>4
  <2> HIDE DEF d, j
  <2>5. /\ Course' /\ (result' = "busy" => Present'.type # P_SPEED)
        /\ (result' = "busy" <=> j <= Len(Steps)) /\ (result' = "busy" => Present' = Steps[j])
    BY <1>4, <1>5, <2>1, <2>2, <2>3, <2>4, NextStep
  <2>6. Present.type = P_SPEED => j <= Len(Steps)
    BY <1>1, <1>2 DEF j, d
  <2>7. QED
    BY <1>2, <1>4, <1>5, <1>7, <2>1, <2>2, <2>3, <2>5, <2>6 DEF j, d
<1>8. QED
  BY <1>6, <1>7

----------------------------------------------------------------------------
(* The inductive invariant.                                                *)

\* What the computer holds after k bytes of p: a P_WDATA is written to memory over what the
\* last complete packet left there, other data to rdata.
RomLimit(p) == IF p[2] = P_WDATA THEN Base ELSE RomMax
Overlaid(p, n) ==
  [a \in Ram |-> IF a \in waddr .. waddr + n - 1 THEN p[4 + a - waddr] ELSE handled[a]]
Stored(p, k) ==
  IF k >= 3 /\ p[2] = P_WDATA THEN mem = Overlaid(p, Read(k))
  ELSE mem = handled /\ (p[3] <= RomMax => \A i \in 1 .. Read(k) : rdata[i] = p[3 + i])
\* What the programmer holds of an answer.
Kept(p, k) == p[3] <= HostMax => \A i \in 1 .. Read(k) : pdata[i] = p[3 + i]

\* The request as it is sent, and the answer to it.
Sent == Packet(Present.type, Present.data)
ReplyType ==
  IF upHit # "none" THEN P_ACK
  ELSE CASE Present.type = P_PING -> P_PONG [] Present.type = P_WHO -> P_IDENT
         [] Present.type = P_READ -> P_RDATA [] OTHER -> P_ACK
ReplyData ==
  IF upHit # "none" THEN <<A_XSUM, 0>>
  ELSE CASE Present.type = P_PING -> <<Present.data[1]>>
         [] Present.type = P_WHO -> Ident
         [] Present.type = P_READ -> Contents(Present.data[1], Present.data[2])
         [] Present.type = P_SPEED ->
              <<IF Supported(Divider(Present.data[1])) THEN A_ACK ELSE A_NSPEED, 0>>
         [] OTHER -> <<A_ACK, 0>>
Reply == Packet(ReplyType, ReplyData)

Typed ==
  /\ Course /\ awaiting \in BOOLEAN /\ (awaiting => result = "busy")
  /\ prx \in Parsers /\ pdata \in [1 .. HostMax -> Bytes]
  /\ rrx \in Parsers /\ rdata \in [1 .. RomMax -> Bytes] /\ waddr \in Bytes
  /\ mem \in [Ram -> Bytes] /\ handled \in [Ram -> Bytes]
  /\ rom \in {"rom", "speed", "program"} /\ (rom = "program" => started)

Quiet == up = <<>> /\ rrx.type = "NONE" /\ mem = handled

\* Nothing is under way.
Idling == ~awaiting /\ Quiet /\ down = <<>> /\ prx.type = "NONE"
\* The computer has received k bytes of p, which is the request or what has become of it.
AskedTo(p, k) ==
  /\ up = Rest(p, k) /\ Parsing(rrx, p, k, RomLimit(p)) /\ Stored(p, k)
  /\ rom = "program" => k = 0
Asking ==
  /\ awaiting /\ down = <<>> /\ prx.type = "NONE" /\ rom # "speed" /\ upHit \in HitTypes
  /\ \E p \in Arrivals(Sent, upHit) : \E k \in 0 .. Len(Sent) - 1 : AskedTo(p, k)
\* The programmer has received k bytes of p, which is the answer or what has become of it.
AnsweredTo(p, k) == down = Rest(p, k) /\ Parsing(prx, p, k, HostMax) /\ Kept(p, k)
Answering ==
  /\ awaiting /\ Quiet /\ upHit \in HitTypes /\ downHit \in HitTypes
  /\ rom = "program" => Present.type = P_JUMP
  /\ Present.type = P_SPEED /\ upHit = "none" /\ Supported(Divider(Present.data[1])) =>
       rom = "speed" \/ div = Divider(Present.data[1])
  /\ \E p \in Arrivals(Reply, downHit) : \E k \in 0 .. Len(Reply) - 1 : AnsweredTo(p, k)
\* A program has read the request and thrown it away.
Lost == awaiting /\ Quiet /\ down = <<>> /\ prx.type = "NONE" /\ started /\ rom # "speed"

\* In the loop of p_speed the programmer waits for the answer, has not understood it and
\* keeps its speed, or has changed it too.
Settling ==
  rom = "speed" =>
    /\ result = "busy" /\ switched # "yes" /\ (try > 0 => Present.type = P_SPEED)
    /\ hspeed = InitSpeed \/ Divider(hspeed) = Divider(rdata[1])
    /\ awaiting => Present.type = P_SPEED /\ rdata[1] = Present.data[1] /\ SameSpeed
Together == (rom = "speed" \/ SameSpeed) /\ Settling /\ (Idling \/ Asking \/ Answering \/ Lost)

\* The bytes that the programmer's parser has taken of a packet.
Consumed(rx) ==
  IF rx.type = "PHDR" THEN 1 + rx.len ELSE IF rx.type = "XSUM" THEN 3 + rx.header.length ELSE 3 + rx.len
\* The computer has changed its speed in the middle of its answer.
Garbled ==
  /\ ~SameSpeed /\ rom = "rom" /\ awaiting /\ Quiet
  /\ Present.type = P_SPEED /\ div = Divider(Present.data[1])
  /\ prx.type # "NONE" /\ (prx.type = "PHDR" => prx.len <= 1)
  /\ prx.type \in {"DATA", "NCAP"} => prx.len < prx.header.length
  /\ down \in Seq(Cells) /\ Consumed(prx) + Len(down) <= 6
\* The computer has another speed, and takes nothing that the programmer sends for a packet.
Deaf ==
  /\ ~SameSpeed /\ rom # "speed" /\ prx.type = "NONE" /\ rrx.type = "NONE" /\ mem = handled
  /\ result = "busy" /\ hspeed = InitSpeed /\ switched # "yes" /\ (try > 0 => Present.type = P_SPEED)

LinkInv == ~misframed => Typed /\ (Together \/ Garbled \/ Deaf)

\* A byte at another speed is not taken for the start of a packet.
NoFalseStart == STX \notin Noise

----------------------------------------------------------------------------
(* Answers.                                                                *)

LEMMA Constants ==
  /\ 2 \in Nat /\ RomMax \in Nat /\ RomMax >= 2 /\ HostMax \in Nat /\ HostMax >= 2
  /\ Ram \subseteq Nat \ {0} /\ Ident \in Seq(Bytes) /\ Len(Ident) < Base
  /\ RetryCount \in Nat
<1>1. P_WRITE \in DOMAIN SizeOf
  BY DEF SizeOf
<1>2. SizeOf[P_WRITE] <= RomMax
  BY <1>1, RomAssumption
<1>3. RomMax >= 2 /\ RomMax \in Nat
  BY <1>2, Sizes, RomAssumption
<1>4. HostMax >= 2 /\ HostMax \in Nat
  BY ProgrammerAssumption DEF AckSize
<1>5. Ident \in Seq(Bytes) /\ Len(Ident) < Base /\ Ram \subseteq Nat \ {0}
  BY RomAssumption DEF Bytes
<1>6. QED
  BY <1>3, <1>4, <1>5, ProgrammerAssumption

LEMMA SentParts ==
  ASSUME Typed, result = "busy"
  PROVE  /\ Proper(Present) /\ Whole(Sent) /\ Len(Sent) = Len(Present.data) + 4
         /\ Len(Present.data) \in Nat /\ Len(Present.data) \in Bytes /\ Sent[3] = Len(Present.data)
         /\ Sent[2] = Present.type
         /\ \A i \in 1 .. Len(Present.data) : Sent[3 + i] = Present.data[i]
         /\ SumTo(Sent, Len(Sent) - 1) = Sent[Len(Sent)]
<1>1. Proper(Present) /\ Sendable(Present.type, Present.data)
  BY PresentStep DEF Typed, Proper
<1>2. /\ Whole(Sent) /\ Len(Sent) = Len(Present.data) + 4 /\ Sent[2] = Present.type
      /\ \A i \in 1 .. Len(Present.data) : Sent[3 + i] = Present.data[i]
      /\ SumTo(Sent, Len(Sent) - 1) = Sent[Len(Sent)]
  BY <1>1, PacketParts DEF Sent
<1>3. Len(Present.data) \in Nat /\ Len(Present.data) < Base
  BY <1>1 DEF Sendable
<1>4. Sent[3] = Len(Present.data)
  <2>1. Len(Sent) = Sent[3] + 4 /\ Sent \in Seq(Bytes) /\ Len(Sent) >= 4
    BY <1>2 DEF Whole
  <2>2. Sent[3] \in Nat
    <3>1. Sent[3] \in Bytes
      BY <2>1
    <3>2. QED
      BY <3>1, ByteNumber
  <2>3. QED
    BY <1>2, <1>3, <2>1, <2>2
<1>5. QED
  BY <1>1, <1>2, <1>3, <1>4, SmallByte

\* The data of the requests with words of their own.
LEMMA PresentData ==
  ASSUME Typed, result = "busy"
  PROVE  /\ Present.type \in Handled
         /\ Present.type # P_WDATA =>
              /\ Len(Present.data) = SizeOf[Present.type] /\ Len(Present.data) <= 2
              /\ Present.type # P_WHO => Len(Present.data) >= 1 /\ Present.data[1] \in Bytes
              /\ Present.type \in {P_READ, P_WRITE} => Len(Present.data) = 2 /\ Present.data[2] \in Bytes
<1>1. /\ Present \in AnyRequest
      /\ Present.type # P_WDATA => Len(Present.data) = SizeOf[Present.type] /\ Len(Present.data) <= 2
  BY SentParts DEF Proper
<1>2. Present.type \in Handled /\ Present.data \in Seq(Bytes)
  BY <1>1 DEF AnyRequest
<1>3. ASSUME Present.type # P_WDATA
      PROVE  /\ Present.type # P_WHO => Len(Present.data) >= 1
             /\ Present.type \in {P_READ, P_WRITE} => Len(Present.data) = 2
  <2>1. Present.type \in {P_PING, P_WHO, P_SPEED, P_WRITE, P_READ, P_JUMP, P_CALL}
    BY <1>2, <1>3 DEF Handled
  <2>2. Len(Present.data) = SizeOf[Present.type]
    BY <1>1, <1>3
  <2>3. Present.type # P_WHO => SizeOf[Present.type] \in {1, 2}
    BY <2>1, Sizes
  <2>4. Present.type \in {P_READ, P_WRITE} => SizeOf[Present.type] = 2
    BY Sizes
  <2>5. QED
    BY <2>2, <2>3, <2>4
<1>4. QED
  BY <1>1, <1>2, <1>3

LEMMA ReplySendable ==
  ASSUME Typed, result = "busy"
  PROVE  Sendable(ReplyType, ReplyData)
<1>1. ReplyType \in Types
  BY DEF ReplyType, Types
<1>2. /\ 0 \in Bytes /\ A_XSUM \in Bytes /\ A_ACK \in Bytes /\ A_NSPEED \in Bytes
      /\ 1 < Base /\ 2 < Base
  BY DEF Bytes, Base, A_XSUM, A_ACK, A_NSPEED
<1>3. \A x \in Bytes : <<x, 0>> \in Seq(Bytes) /\ Len(<<x, 0>>) = 2 /\ <<x>> \in Seq(Bytes) /\ Len(<<x>>) = 1
  BY <1>2
<1>4. CASE upHit # "none"
  BY <1>1, <1>2, <1>3, <1>4 DEF ReplyData, Sendable
<1>5. CASE upHit = "none" /\ Present.type = P_PING
  <2>1. Present.data[1] \in Bytes
    BY <1>5, PresentData, Numbers DEF TypeNumbers
  <2>2. ReplyData = <<Present.data[1]>>
    BY <1>5, Numbers DEF ReplyData, TypeNumbers
  <2>3. QED
    BY <1>1, <1>2, <1>3, <2>1, <2>2 DEF Sendable
<1>6. CASE upHit = "none" /\ Present.type = P_WHO
  <2>1. ReplyData = Ident
    BY <1>6, Numbers DEF ReplyData, TypeNumbers
  <2>2. QED
    BY <1>1, <2>1, Constants DEF Sendable
<1>7. CASE upHit = "none" /\ Present.type = P_READ
  <2> DEFINE a == Present.data[1]
             n == Present.data[2]
             d == Contents(a, n)
  <2>1. n \in Bytes /\ ReplyData = d
    BY <1>7, PresentData, Numbers DEF ReplyData, TypeNumbers
  <2> HIDE DEF a, n
  <2>2. n \in Nat /\ n < Base
    BY <2>1, ByteNumber
  <2>3. \A i \in 1 .. n : d[i] \in Bytes
    BY <1>2 DEF Contents, Typed
  <2>4. d \in Seq(Bytes) /\ Len(d) = n
    <3>1. d = [i \in 1 .. n |-> d[i]]
      BY DEF Contents
    <3> HIDE DEF d
    <3>2. QED
      BY <2>2, <2>3, <3>1
  <2>5. QED
    BY <1>1, <2>1, <2>2, <2>4 DEF Sendable
<1>8. CASE upHit = "none" /\ Present.type \notin {P_PING, P_WHO, P_READ}
  <2>1. \E x \in Bytes : ReplyData = <<x, 0>>
    BY <1>2, <1>8 DEF ReplyData
  <2>2. QED
    BY <1>1, <1>2, <1>3, <2>1 DEF Sendable
<1>9. QED
  BY <1>4, <1>5, <1>6, <1>7, <1>8

LEMMA ReplyParts ==
  ASSUME Typed, result = "busy"
  PROVE  /\ Whole(Reply) /\ Len(Reply) = Len(ReplyData) + 4 /\ Len(ReplyData) \in Nat
         /\ Reply[2] = ReplyType /\ Reply[3] = Len(ReplyData)
         /\ \A i \in 1 .. Len(ReplyData) : Reply[3 + i] = ReplyData[i]
         /\ SumTo(Reply, Len(Reply) - 1) = Reply[Len(Reply)]
         /\ Present.type = P_SPEED => Len(Reply) = 6
<1>1. Sendable(ReplyType, ReplyData)
  BY ReplySendable
<1>2. /\ Whole(Reply) /\ Len(Reply) = Len(ReplyData) + 4 /\ Reply[2] = ReplyType
      /\ \A i \in 1 .. Len(ReplyData) : Reply[3 + i] = ReplyData[i]
      /\ SumTo(Reply, Len(Reply) - 1) = Reply[Len(Reply)]
  BY <1>1, PacketParts DEF Reply
<1>3. Len(ReplyData) \in Nat
  BY <1>1 DEF Sendable
<1>4. Reply[3] = Len(ReplyData)
  <2>1. Len(Reply) = Reply[3] + 4 /\ Reply \in Seq(Bytes) /\ Len(Reply) >= 4
    BY <1>2 DEF Whole
  <2>2. Reply[3] \in Nat
    <3>1. Reply[3] \in Bytes
      BY <2>1
    <3>2. QED
      BY <3>1, ByteNumber
  <2>3. QED
    BY <1>2, <1>3, <2>1, <2>2
<1>5. ASSUME Present.type = P_SPEED
      PROVE  Len(ReplyData) = 2
  <2>1. Present.type \notin {P_PING, P_WHO, P_READ}
    BY <1>5, Numbers DEF TypeNumbers
  <2>2. \E x : ReplyData = <<x, 0>>
    BY <2>1, <1>5 DEF ReplyData
  <2>3. QED
    BY <2>2
<1>6. Present.type = P_SPEED => Len(Reply) = 6
  <2>1. Len(Reply) = Len(ReplyData) + 4
    BY <1>2
  <2>2. 2 + 4 = 6
    OBVIOUS
  <2>3. QED
    BY <1>5, <2>1, <2>2
<1>7. QED
  BY <1>2, <1>3, <1>4, <1>6


----------------------------------------------------------------------------
(* A byte in the middle of a packet.                                       *)

LEMMA WholeParts ==
  ASSUME NEW p, Whole(p)
  PROVE  /\ Len(p) \in Nat /\ Len(p) >= 4 /\ Len(p) = p[3] + 4
         /\ \A i \in 1 .. Len(p) : p[i] \in Bytes
         /\ p[2] \in Bytes /\ p[3] \in Bytes /\ p[3] \in Nat /\ p[3] < Base
<1>1. Len(p) \in Nat /\ Len(p) >= 4 /\ Len(p) = p[3] + 4 /\ \A i \in 1 .. Len(p) : p[i] \in Bytes
  BY DEF Whole
<1>2. p[3] \in Bytes /\ p[2] \in Bytes
  BY <1>1
<1>3. QED
  BY <1>1, <1>2, ByteNumber

\* A buffer takes the next byte.
LEMMA Extended ==
  ASSUME NEW p, Whole(p), NEW k \in 3 .. Len(p) - 2, NEW max \in Nat, p[3] <= max,
         NEW f \in [1 .. max -> Bytes], \A i \in 1 .. Read(k) : f[i] = p[3 + i]
  PROVE  LET g == [f EXCEPT ![k - 3 + 1] = p[k + 1]] IN
         g \in [1 .. max -> Bytes] /\ \A i \in 1 .. Read(k + 1) : g[i] = p[3 + i]
<1> DEFINE j == k - 3 + 1
           g == [f EXCEPT ![j] = p[k + 1]]
<1>1. Len(p) \in Nat /\ Len(p) = p[3] + 4 /\ p[3] \in Nat /\ p[k + 1] \in Bytes
  BY WholeParts
<1>2. j \in 1 .. max /\ 3 + j = k + 1
  BY <1>1
<1>3. \A i \in 1 .. Read(k + 1) : i \in 1 .. max /\ (i = j \/ i \in 1 .. Read(k))
  BY <1>1 DEF Read
<1> HIDE DEF j
<1>4. g \in [1 .. max -> Bytes] /\ \A i \in 1 .. max : g[i] = IF i = j THEN p[k + 1] ELSE f[i]
  BY <1>1, <1>2
<1> HIDE DEF g
<1>5. \A i \in 1 .. Read(k + 1) : g[i] = p[3 + i]
  BY <1>2, <1>3, <1>4
<1>6. QED
  BY <1>4, <1>5 DEF g, j

\* The programmer takes a byte of an answer.
LEMMA KeptOn ==
  ASSUME Typed, NEW p, Whole(p), NEW k \in 0 .. Len(p) - 2,
         Parsing(prx, p, k, HostMax), Kept(p, k), HostCollect(p[k + 1])
  PROVE  /\ prx' \in Parsers /\ pdata' \in [1 .. HostMax -> Bytes]
         /\ Parsing(prx', p, k + 1, HostMax) /\ Kept(p, k + 1)'
<1>1. prx \in Parsers /\ pdata \in [1 .. HostMax -> Bytes]
  BY DEF Typed
<1>2. prx' = Advance(prx, p[k + 1], HostMax)
  BY DEF HostCollect
<1>3. prx' \in Parsers /\ Parsing(prx', p, k + 1, HostMax)
  BY <1>1, <1>2, ParsesOn
<1>4. Len(p) \in Nat /\ Len(p) = p[3] + 4 /\ p[3] \in Nat
  BY WholeParts
<1>5. pdata' = IF prx.type = "DATA" THEN [pdata EXCEPT ![prx.len + 1] = p[k + 1]] ELSE pdata
  BY DEF HostCollect
<1>6. CASE k < 3
  <2>1. prx.type # "DATA"
    BY <1>6 DEF Parsing
  <2>2. Read(k + 1) = 0
    BY <1>6 DEF Read
  <2>3. QED
    BY <1>1, <1>3, <1>5, <2>1, <2>2 DEF Kept
<1>7. CASE k >= 3
  <2>1. k # Len(p) - 1
    BY <1>4
  <2>2. prx.len = k - 3 /\ prx.type = IF p[3] > HostMax THEN "NCAP" ELSE "DATA"
    BY <1>7, <2>1 DEF Parsing
  <2>3. CASE p[3] <= HostMax
    <3>1. ~(p[3] > HostMax)
      BY <1>4, <2>3, Constants
    <3>2. pdata' = [pdata EXCEPT ![k - 3 + 1] = p[k + 1]]
      BY <1>5, <2>2, <3>1
    <3>3. \A i \in 1 .. Read(k) : pdata[i] = p[3 + i]
      BY <2>3 DEF Kept
    <3>4. k \in 3 .. Len(p) - 2
      BY <1>7
    <3>5. pdata' \in [1 .. HostMax -> Bytes] /\ \A i \in 1 .. Read(k + 1) : pdata'[i] = p[3 + i]
      BY <1>1, <2>3, <3>2, <3>3, <3>4, Constants, Extended
    <3>6. QED
      BY <1>3, <3>5 DEF Kept
  <2>4. CASE ~(p[3] <= HostMax)
    <3>1. p[3] > HostMax
      BY <1>4, <2>4, Constants
    <3>2. QED
      BY <1>1, <1>3, <1>5, <2>2, <2>4, <3>1 DEF Kept
  <2>5. QED
    BY <2>3, <2>4
<1>8. QED
  BY <1>6, <1>7

\* The computer takes a byte of a request.
LEMMA StoredOn ==
  ASSUME Typed, NEW p, Whole(p), NEW k \in 0 .. Len(p) - 2, Parsing(rrx, p, k, RomLimit(p)), Stored(p, k),
         RomCollect(p[k + 1]), handled' = handled
  PROVE  /\ rrx' \in Parsers /\ rdata' \in [1 .. RomMax -> Bytes] /\ mem' \in [Ram -> Bytes]
         /\ Parsing(rrx', p, k + 1, RomLimit(p)) /\ Stored(p, k + 1)'
<1>1. rrx \in Parsers /\ rdata \in [1 .. RomMax -> Bytes] /\ mem \in [Ram -> Bytes]
      /\ handled \in [Ram -> Bytes] /\ waddr \in Bytes
  BY DEF Typed
<1>2. rrx' = Advance(rrx, p[k + 1], Limit) /\ waddr' = waddr
  BY DEF RomCollect
<1>3. k >= 2 => rrx.header.type = p[2]
  BY DEF Parsing
<1>4. k = 2 => Limit = RomLimit(p)
  BY <1>3 DEF Limit, RomLimit
<1>5. rrx' \in Parsers /\ Parsing(rrx', p, k + 1, RomLimit(p))
  BY <1>1, <1>2, <1>4, ParsesOn
<1>6. Len(p) \in Nat /\ Len(p) = p[3] + 4 /\ p[3] \in Nat /\ p[3] < Base /\ p[k + 1] \in Bytes
  BY WholeParts
<1>7. waddr \in Nat
  BY <1>1, ByteNumber
<1>8. CASE k < 3
  <2>1. rrx.type # "DATA"
    BY <1>8 DEF Parsing
  <2>2. mem' = mem /\ rdata' = rdata
    BY <2>1 DEF RomCollect, StoreByte
  <2>3. Read(k + 1) = 0 /\ ~(k >= 3)
    BY <1>8 DEF Read
  <2>4. mem = handled
    BY <2>3 DEF Stored
  <2>5. handled = [a \in Ram |-> IF a \in waddr .. waddr + 0 - 1 THEN p[4 + a - waddr] ELSE handled[a]]
    <3>1. \A a : a \notin waddr .. waddr + 0 - 1
      BY <1>7
    <3>2. QED
      BY <1>1, <3>1
  <2>6. Stored(p, k + 1)'
    BY <1>2, <2>2, <2>3, <2>4, <2>5 DEF Stored, Overlaid
  <2>7. QED
    BY <1>1, <1>5, <2>2, <2>6
<1>9. CASE k >= 3 /\ p[2] = P_WDATA
  <2>1. k # Len(p) - 1 /\ Read(k) = k - 3 /\ Read(k + 1) = k - 2 /\ k + 1 >= 3
    BY <1>6, <1>9, SMTT(30) DEF Read
  <2>2. rrx.len = k - 3 /\ rrx.type = IF p[3] > RomLimit(p) THEN "NCAP" ELSE "DATA"
    BY <1>9, <2>1 DEF Parsing
  <2>3. RomLimit(p) = Base /\ Base \in Nat
    BY <1>9 DEF RomLimit, Base
  <2>4. rrx.type = "DATA" /\ rrx.header.type = P_WDATA
    BY <1>3, <1>6, <1>9, <2>2, <2>3
  <2> DEFINE t == waddr + (k - 3)
  <2>5. mem' = (IF t \in Ram THEN [mem EXCEPT ![t] = p[k + 1]] ELSE mem) /\ rdata' = rdata
    BY <2>2, <2>4 DEF RomCollect, StoreByte, Target
  <2>6. \A a \in Ram : mem[a] = IF a \in waddr .. waddr + (k - 3) - 1 THEN p[4 + a - waddr] ELSE handled[a]
    BY <1>9, <2>1 DEF Stored, Overlaid
  <2>7. mem' \in [Ram -> Bytes]
    BY <1>1, <1>6, <2>5
  <2>8. ASSUME NEW a \in Ram
        PROVE  mem'[a] = IF a \in waddr .. waddr + (k - 2) - 1 THEN p[4 + a - waddr] ELSE handled[a]
    <3>1. a \in Nat
      BY Constants
    <3>2. mem'[a] = IF a = t THEN p[k + 1] ELSE mem[a]
      BY <1>1, <2>5
    <3>3. CASE a = t
      <4>1. a \in waddr .. waddr + (k - 2) - 1 /\ 4 + a - waddr = k + 1
        BY <1>7, <1>9, <3>3
      <4>2. QED
        BY <3>2, <3>3, <4>1
    <3>4. CASE a # t
      <4>1. a \in waddr .. waddr + (k - 2) - 1 <=> a \in waddr .. waddr + (k - 3) - 1
        BY <1>7, <1>9, <3>1, <3>4
      <4>2. QED
        BY <2>6, <3>2, <3>4, <4>1
    <3>5. QED
      BY <3>3, <3>4
  <2>9. mem' = [a \in Ram |-> IF a \in waddr .. waddr + (k - 2) - 1 THEN p[4 + a - waddr] ELSE handled[a]]
    BY <2>7, <2>8
  <2>10. Stored(p, k + 1)'
    BY <1>2, <1>9, <2>1, <2>9 DEF Stored, Overlaid
  <2>11. QED
    BY <1>1, <1>5, <2>5, <2>7, <2>10
<1>10. CASE k >= 3 /\ p[2] # P_WDATA
  <2>1. k # Len(p) - 1
    BY <1>6
  <2>2. rrx.len = k - 3 /\ rrx.type = IF p[3] > RomLimit(p) THEN "NCAP" ELSE "DATA"
    BY <1>10, <2>1 DEF Parsing
  <2>3. RomLimit(p) = RomMax /\ rrx.header.type # P_WDATA
    BY <1>3, <1>10 DEF RomLimit
  <2>4. mem' = mem /\ mem = handled
    BY <1>10, <2>3 DEF RomCollect, StoreByte, Stored
  <2>5. rdata' \in [1 .. RomMax -> Bytes] /\ (p[3] <= RomMax => \A i \in 1 .. Read(k + 1) : rdata'[i] = p[3 + i])
    <3>1. CASE p[3] <= RomMax
      <4>1. ~(p[3] > RomMax)
        BY <1>6, <3>1, Constants
      <4>2. rdata' = [rdata EXCEPT ![k - 3 + 1] = p[k + 1]]
        BY <2>2, <2>3, <4>1 DEF RomCollect, StoreByte
      <4>3. \A i \in 1 .. Read(k) : rdata[i] = p[3 + i]
        BY <1>10, <3>1 DEF Stored
      <4>4. k \in 3 .. Len(p) - 2
        BY <1>10
      <4>5. rdata' \in [1 .. RomMax -> Bytes] /\ \A i \in 1 .. Read(k + 1) : rdata'[i] = p[3 + i]
        BY <1>1, <3>1, <4>2, <4>3, <4>4, Constants, Extended
      <4>6. QED
        BY <4>5
    <3>2. CASE ~(p[3] <= RomMax)
      <4>1. p[3] > RomMax
        BY <1>6, <3>2, Constants
      <4>2. rdata' = rdata
        BY <2>2, <2>3, <4>1 DEF RomCollect, StoreByte
      <4>3. QED
        BY <1>1, <3>2, <4>2
    <3>3. QED
      BY <3>1, <3>2
  <2>6. Stored(p, k + 1)'
    BY <1>10, <2>4, <2>5 DEF Stored
  <2>7. QED
    BY <1>1, <1>5, <2>4, <2>5, <2>6
<1>11. QED
  BY <1>8, <1>9, <1>10

----------------------------------------------------------------------------
(* The programmer's steps.                                                 *)

LEMMA CourseSame ==
  ASSUME Course, UNCHANGED <<session, todo, result, hspeed, switched>>, try' \in Nat
  PROVE  Course' /\ Steps' = Steps /\ Present' = Present /\ Command' = Command
<1>1. Steps' = Steps /\ Present' = Present /\ Command' = Command
  BY DEF Steps, Present, Command
<1>2. QED
  BY <1>1 DEF Course, OfSpeed

LEMMA SequenceAfterNone ==
  ASSUME NEW S, NEW s \in Seq(S)
  PROVE  After(s, 0) = s
<1>1. 0 \in 0 .. Len(s)
  OBVIOUS
<1>2. After(s, 0) \in Seq(S) /\ Len(After(s, 0)) = Len(s)
  BY <1>1, AfterParts
<1>3. \A i \in 1 .. Len(s) : After(s, 0)[i] = s[i]
  <2>1. 1 \in Int /\ Len(s) \in Int /\ \A i \in 1 .. Len(s) : s[i] \in S
    OBVIOUS
  <2>2. \A i \in 1 .. Len(s) - 1 + 1 : SubSeq(s, 1, Len(s))[i] = s[1 + i - 1]
    BY <2>1, SubSeqProperties
  <2>3. \A i \in 1 .. Len(s) : SubSeq(s, 1, Len(s))[i] = s[i]
    BY <2>2
  <2>4. QED
    BY <2>3 DEF After
<1>4. QED
  BY <1>2, <1>3, SeqEqual

\* The requests of a new command.
LEMMA Begins ==
  ASSUME NEW c \in Commands
  PROVE  LET s == Begin(c).todo IN
         /\ s = After(s, 0) /\ 0 \in 0 .. Len(s) /\ s # <<>>
         /\ Head(s).type = P_PING => Head(s).fatal
         /\ Begin(c).pdata \in [1 .. HostMax -> Bytes]
<1> DEFINE s == Begin(c).todo
<1>1. /\ s \in Seq(AnyRequest) /\ Len(s) \in Nat /\ Len(s) >= 1
      /\ \A i \in 1 .. Len(s) : s[i].type = P_PING /\ ~s[i].fatal => i = 2 /\ s[1].type = P_SPEED
  BY StepsParts
<1>2. Begin(c).pdata = [i \in 1 .. HostMax |-> 0] /\ 0 \in Bytes
  BY DEF Begin, Bytes, Base
<1> HIDE DEF s
<1>3. s # <<>> /\ Head(s) = s[1] /\ 1 \in 1 .. Len(s) /\ 0 \in 0 .. Len(s)
  BY <1>1
<1>4. Head(s).type = P_PING => Head(s).fatal
  BY <1>1, <1>3
<1>5. After(s, 0) = s
  BY <1>1, SequenceAfterNone
<1>6. QED
  BY <1>2, <1>3, <1>4, <1>5 DEF s

LEMMA IdleParser == Idle \in Parsers /\ Idle.type = "NONE"
<1>1. 0 \in Bytes /\ 0 \in Nat
  BY DEF Bytes, Base
<1>2. QED
  BY <1>1 DEF Idle, Parsers

LEMMA Starting ==
  ASSUME Init
  PROVE  Typed /\ (Together \/ Deaf)
<1>1. /\ session \in Sessions /\ todo = Begin(Head(session)).todo /\ pdata = Begin(Head(session)).pdata
      /\ prx = Idle /\ try = 0 /\ awaiting = FALSE /\ hspeed = InitSpeed
      /\ result = "busy" /\ switched = "unknown"
  BY DEF Init, ProgrammerInit
<1>2. /\ rrx = Idle /\ rdata = NoData(RomMax) /\ waddr = 0 /\ mem = [a \in Ram |-> 0]
      /\ rom = "rom" /\ up = <<>> /\ down = <<>> /\ handled = mem
  BY DEF Init, RomInit
<1>3. session \in Seq(Commands) /\ session # <<>>
  BY <1>1, ProgrammerAssumption
<1>4. Command \in Commands
  BY <1>3, CommandType
<1>5. todo = Steps /\ pdata = Begin(Command).pdata
  BY <1>1 DEF Steps, Command
<1>6. /\ todo = After(Steps, 0) /\ 0 \in 0 .. Len(Steps) /\ todo # <<>>
      /\ Present.type = P_PING => Present.fatal
      /\ pdata \in [1 .. HostMax -> Bytes]
  BY <1>4, <1>5, Begins DEF Steps, Present
<1>7. 0 \in Nat /\ InitSpeed \in Nat /\ 0 \in Bytes
  BY ProgrammerAssumption DEF Bytes, Base
<1>8. Course
  BY <1>1, <1>3, <1>6, <1>7 DEF Course, OfSpeed
<1>9. rdata \in [1 .. RomMax -> Bytes] /\ mem \in [Ram -> Bytes]
  BY <1>2, <1>7 DEF NoData
<1>10. Typed
  BY <1>1, <1>2, <1>6, <1>7, <1>8, <1>9, IdleParser DEF Typed
<1>11. Idling
  BY <1>1, <1>2, IdleParser DEF Idling, Quiet
<1>12. SameSpeed => Together
  BY <1>2, <1>11 DEF Together, Settling
<1>13. ~SameSpeed => Deaf
  BY <1>1, <1>2, <1>7, IdleParser DEF Deaf
<1>14. QED
  BY <1>10, <1>12, <1>13

\* The programmer runs the next command.
LEMMA StartsLinked ==
  ASSUME Typed, Together \/ Garbled \/ Deaf, ProgrammerStarts
  PROVE  Typed' /\ (Together \/ Deaf)' /\ Idling /\ rom # "speed"
<1>1. /\ result # "busy" /\ Len(session) > 1 /\ session' = Tail(session)
      /\ todo' = Begin(Head(session')).todo /\ pdata' = Begin(Head(session')).pdata
      /\ prx' = Idle /\ try' = 0 /\ awaiting' = FALSE /\ hspeed' = InitSpeed
      /\ result' = "busy" /\ switched' = "unknown"
      /\ down' \in {down, <<>>} /\ up' = up
  BY DEF ProgrammerStarts, NextCommand
<1>2. /\ UNCHANGED <<rrx, rdata, waddr, mem, rom, div, calls>>
      /\ UNCHANGED <<handled, started>>
  BY DEF ProgrammerStarts, computer, history
<1>3. ~awaiting
  BY <1>1 DEF Typed
<1>4. Together /\ Idling /\ rom # "speed"
  BY <1>1, <1>3 DEF Garbled, Deaf, Together, Asking, Answering, Lost, Settling
<1>5. session' \in Seq(Commands) /\ session' # <<>>
  <2>1. session \in Seq(Commands)
    BY DEF Typed, Course
  <2>2. Len(session) > 1 /\ session' = Tail(session)
    BY <1>1
  <2>3. Tail(session) \in Seq(Commands) /\ Len(Tail(session)) = Len(session) - 1
    <3>1. session # <<>>
      BY DEF Typed, Course
    <3>2. QED
      BY <2>1, <3>1, HeadTailProperties
  <2>4. Len(session) - 1 # 0
    BY <2>1, <2>2
  <2>5. QED
    BY <2>2, <2>3, <2>4
<1>6. Command' \in Commands
  BY <1>5 DEF Command
<1>7. todo' = Steps' /\ pdata' = Begin(Command').pdata /\ Steps' = Begin(Command').todo
  BY <1>1 DEF Steps, Command
<1>8. /\ todo' = After(Steps', 0) /\ 0 \in 0 .. Len(Steps') /\ todo' # <<>>
      /\ Present'.type = P_PING => Present'.fatal
      /\ pdata' \in [1 .. HostMax -> Bytes]
  <2> DEFINE c == Command'
  <2>1. /\ todo' = Begin(c).todo /\ Steps' = Begin(c).todo /\ Present' = Head(Begin(c).todo)
        /\ pdata' = Begin(c).pdata /\ c \in Commands
    BY <1>6, <1>7 DEF Present
  <2> HIDE DEF c
  <2>2. QED
    BY <2>1, Begins
<1>9. 0 \in Nat /\ InitSpeed \in Nat
  BY ProgrammerAssumption
<1>10. Course'
  BY <1>1, <1>5, <1>8, <1>9 DEF Course, OfSpeed
<1>11. Typed'
  BY <1>1, <1>2, <1>8, <1>10, IdleParser DEF Typed
<1>12. Idling'
  BY <1>1, <1>2, <1>4, IdleParser DEF Idling, Quiet
<1>13. SameSpeed' => Together'
  BY <1>2, <1>4, <1>12 DEF Together, Settling
<1>14. ~SameSpeed' => Deaf'
  BY <1>1, <1>2, <1>4, <1>9, <1>12 DEF Deaf, Idling, Quiet
<1>15. QED
  BY <1>4, <1>11, <1>13, <1>14

\* A request is sent, to a computer that is listening for it or deaf.
LEMMA SendsLinked ==
  ASSUME Typed, Together \/ Garbled \/ Deaf, ProgrammerSends
  PROVE  Typed' /\ (Together \/ Deaf)'
<1>1. /\ result = "busy" /\ ~awaiting /\ awaiting' = TRUE
      /\ up' = up \o OnLine(Sent) /\ upHit' = "none"
  BY DEF ProgrammerSends, SendRequest, Sent
<1>2. /\ UNCHANGED <<session, todo, try, prx, pdata, hspeed, result, switched, down>>
      /\ UNCHANGED <<rrx, rdata, waddr, mem, rom, div, calls>>
      /\ UNCHANGED <<handled, started>>
  BY DEF ProgrammerSends, SendRequest, computer, history
<1>3. Course' /\ Present' = Present
  BY <1>2, CourseSame DEF Typed, Course
<1>4. Typed'
  BY <1>1, <1>2, <1>3 DEF Typed
<1>5. SameSpeed' = SameSpeed
  BY <1>2 DEF SameSpeed
<1>6. CASE Together
  <2>1. Idling
    BY <1>1, <1>6 DEF Together, Asking, Answering, Lost
  <2>2. rom # "speed" /\ SameSpeed
    BY <1>6, <2>1 DEF ProgrammerSends, LoopLeft, Idling, Together
  <2>3. Sent' = Sent
    BY <1>3 DEF Sent
  <2>4. Whole(Sent) /\ Len(Sent) \in Nat /\ Len(Sent) >= 4
    BY <1>1, SentParts, WholeParts
  <2>5. up' = Rest(Sent, 0)
    BY <1>1, <2>1, <2>4, RestAll DEF Idling, Quiet
  <2>6. Parsing(rrx', Sent, 0, RomLimit(Sent)) /\ Stored(Sent, 0)'
    <3>1. rrx'.type = "NONE" /\ mem' = handled'
      BY <1>2, <2>1 DEF Idling, Quiet
    <3>2. Read(0) = 0
      BY DEF Read
    <3>3. QED
      BY <3>1, <3>2 DEF Parsing, Stored
  <2>7. Sent \in Arrivals(Sent', upHit') /\ 0 \in 0 .. Len(Sent') - 1
    BY <1>1, <2>3, <2>4 DEF Arrivals
  <2>8. AskedTo(Sent, 0)'
    BY <2>3, <2>5, <2>6 DEF AskedTo
  <2>9. Asking'
    <3>1. \E p \in Arrivals(Sent, upHit)' : \E k \in 0 .. Len(Sent)' - 1 : AskedTo(p, k)'
      BY <2>3, <2>7, <2>8
    <3>2. awaiting' /\ down' = <<>> /\ prx'.type = "NONE" /\ rom' # "speed" /\ upHit' \in HitTypes
      BY <1>1, <1>2, <2>1, <2>2 DEF Idling, Quiet, HitTypes
    <3>3. QED
      BY <3>1, <3>2 DEF Asking
  <2>10. QED
    BY <1>2, <1>4, <1>5, <2>2, <2>9 DEF Together, Settling
<1>7. CASE Deaf
  <2>1. Deaf'
    BY <1>2, <1>3, <1>5, <1>7 DEF Deaf
  <2>2. QED
    BY <1>4, <2>1
<1>8. CASE Garbled
  BY <1>1, <1>8 DEF Garbled
<1>9. QED
  BY <1>6, <1>7, <1>8

\* await_packet gives up.
LEMMA GivesUpLinked ==
  ASSUME Typed, Together \/ Garbled \/ Deaf, ProgrammerGivesUp
  PROVE  Typed' /\ (Together \/ Deaf)'
<1>1. /\ result = "busy" /\ ~awaiting /\ try > RetryCount /\ Failure
      /\ UNCHANGED <<session, awaiting, prx, pdata, up, down>>
      /\ UNCHANGED <<rrx, rdata, waddr, mem, rom, div, calls>>
      /\ UNCHANGED <<handled, started>>
  BY DEF ProgrammerGivesUp, GiveUpRequest, NoTriesLeft, computer, history
<1>2. Course
  BY DEF Typed
<1>3. PICK i : AtStep(i)
  BY <1>1, <1>2, PresentStep
<1>4. /\ Course' /\ (result' = "busy" => Present'.type # P_SPEED)
      /\ Present.type = P_SPEED => result' = "busy"
      /\ hspeed' = hspeed /\ (switched' = "yes" => switched = "yes") /\ try' = 0
  BY <1>1, <1>2, <1>3, Failed
<1>5. try > 0
  <2>1. try \in Nat /\ RetryCount \in Nat
    BY <1>2, Constants DEF Course
  <2>2. QED
    BY <1>1, <2>1
<1>6. Typed'
  BY <1>1, <1>4 DEF Typed
<1>7. SameSpeed' = SameSpeed
  BY <1>1, <1>4 DEF SameSpeed
<1>8. CASE Together
  <2>1. Idling'
    BY <1>1, <1>8 DEF Together, Asking, Answering, Lost, Idling, Quiet
  <2>2. Settling'
    <3>1. SUFFICES ASSUME rom = "speed"
                   PROVE  /\ result' = "busy" /\ switched' # "yes" /\ (try' > 0 => Present'.type = P_SPEED)
                          /\ hspeed' = InitSpeed \/ Divider(hspeed') = Divider(rdata'[1])
                          /\ ~awaiting'
      BY <1>1 DEF Settling
    <3>2. Settling
      BY <1>8 DEF Together
    <3>3. Present.type = P_SPEED /\ switched # "yes" /\ (hspeed = InitSpeed \/ Divider(hspeed) = Divider(rdata[1]))
      BY <1>5, <3>1, <3>2 DEF Settling
    <3>4. ~(try' > 0)
      BY <1>4
    <3>5. QED
      BY <1>1, <1>4, <3>3, <3>4
  <2>3. rom' = "speed" \/ SameSpeed'
    BY <1>1, <1>7, <1>8 DEF Together
  <2>4. QED
    BY <1>6, <2>1, <2>2, <2>3 DEF Together
<1>9. CASE Deaf
  <2>1. Present.type = P_SPEED
    BY <1>5, <1>9 DEF Deaf
  <2>2. ~(try' > 0)
    BY <1>4
  <2>3. Deaf'
    BY <1>1, <1>4, <1>7, <1>9, <2>1, <2>2 DEF Deaf
  <2>4. QED
    BY <1>6, <2>3
<1>10. CASE Garbled
  BY <1>1, <1>10 DEF Garbled
<1>11. QED
  BY <1>8, <1>9, <1>10

\* One byte of the answer arrives: it is not the last, or the request is to be sent again, or
\* what has been answered to it is known.
More ==
  /\ UNCHANGED <<todo, try, awaiting, hspeed, result, switched>>
  /\ \E p \in Arrivals(Reply, downHit) : \E k \in 0 .. Len(Reply) - 1 : AnsweredTo(p, k)'
AnswerTaken == awaiting' = FALSE /\ down' = <<>> /\ prx'.type = "NONE" /\ pdata' = pdata
Repeated ==
  /\ AnswerTaken /\ try' = try + 1 /\ UNCHANGED <<todo, hspeed, result, switched>>
  /\ upHit # "none" \/ downHit # "none" \/ Len(ReplyData) > HostMax
Answered ==
  /\ AnswerTaken /\ upHit = "none" /\ downHit = "none"
  /\ prx.header.type = ReplyType /\ prx.header.length = Len(ReplyData) /\ Len(ReplyData) <= HostMax
  /\ \A i \in 1 .. Len(ReplyData) : pdata[i] = ReplyData[i]
  /\ IF Succeeds THEN Success ELSE Failure

LEMMA AckReply ==
  ASSUME Typed, result = "busy", ReplyType = P_ACK
  PROVE  /\ Len(ReplyData) = 2
         /\ upHit # "none" => ReplyData[1] = A_XSUM
         /\ upHit = "none" => ReplyData[1] \in {A_ACK, A_NSPEED}
         /\ upHit = "none" /\ Present.type # P_SPEED => ReplyData[1] = A_ACK
         /\ upHit = "none" /\ ReplyData[1] = A_ACK /\ Present.type = P_SPEED =>
              Supported(Divider(Present.data[1]))
<1>1. P_ACK # P_PONG /\ P_ACK # P_IDENT /\ P_ACK # P_RDATA
  BY Numbers DEF TypeNumbers
<1>2. upHit # "none" => ReplyData = <<A_XSUM, 0>>
  BY DEF ReplyData
<1>3. A_ACK # A_NSPEED
  BY DEF A_ACK, A_NSPEED
<1>4. upHit = "none" => Present.type \notin {P_PING, P_WHO, P_READ}
  BY <1>1 DEF ReplyType
<1>5. upHit = "none" =>
        /\ Present.type = P_SPEED =>
             ReplyData = <<IF Supported(Divider(Present.data[1])) THEN A_ACK ELSE A_NSPEED, 0>>
        /\ Present.type # P_SPEED => ReplyData = <<A_ACK, 0>>
  BY <1>4 DEF ReplyData
<1>6. CASE upHit # "none"
  BY <1>2, <1>6
<1>7. CASE upHit = "none" /\ Present.type # P_SPEED
  BY <1>5, <1>7
<1>8. CASE upHit = "none" /\ Present.type = P_SPEED /\ Supported(Divider(Present.data[1]))
  <2>1. ReplyData = <<A_ACK, 0>>
    BY <1>5, <1>8
  <2>2. QED
    BY <1>8, <2>1
<1>9. CASE upHit = "none" /\ Present.type = P_SPEED /\ ~Supported(Divider(Present.data[1]))
  <2>1. ReplyData = <<A_NSPEED, 0>>
    BY <1>5, <1>9
  <2>2. QED
    BY <1>3, <1>9, <2>1
<1>10. QED
  BY <1>6, <1>7, <1>8, <1>9

LEMMA ReceivesParts ==
  ASSUME ProgrammerReceives
  PROVE  /\ down # <<>> /\ awaiting /\ down' = Tail(down)
         /\ \E b \in Received(Head(down).b) : HostRx(b)
         /\ UNCHANGED <<rrx, rdata, waddr, mem, rom, div, calls>>
         /\ UNCHANGED <<up, handled, started, upHit, downHit, faults, session, mistaken, misframed>>
BY DEF ProgrammerReceives, computer, line, HostRx, HostCollect, HostAnswer

LEMMA AnswerArrives ==
  ASSUME Typed, Answering, SameSpeed, ProgrammerReceives
  PROVE  /\ prx' \in Parsers /\ pdata' \in [1 .. HostMax -> Bytes]
         /\ More \/ Repeated \/ Answered
<1> USE DEF AnsweredTo
<1>1. PICK p \in Arrivals(Reply, downHit) : \E k \in 0 .. Len(Reply) - 1 : AnsweredTo(p, k)
  BY DEF Answering
<1>2. PICK k \in 0 .. Len(Reply) - 1 : AnsweredTo(p, k)
  BY <1>1
<1>3. result = "busy" /\ prx \in Parsers /\ pdata \in [1 .. HostMax -> Bytes]
  BY DEF Answering, Typed
<1>4. /\ Whole(Reply) /\ Len(ReplyData) \in Nat /\ Len(Reply) = Len(ReplyData) + 4
      /\ Reply[2] = ReplyType /\ Reply[3] = Len(ReplyData)
      /\ \A i \in 1 .. Len(ReplyData) : Reply[3 + i] = ReplyData[i]
      /\ SumTo(Reply, Len(Reply) - 1) = Reply[Len(Reply)]
  BY <1>3, ReplyParts
<1>5. /\ Whole(p) /\ Len(p) = Len(Reply) /\ p[3] = Reply[3]
      /\ (SumTo(p, Len(p) - 1) = p[Len(p)]) <=> downHit = "none"
      /\ downHit = "none" => p = Reply
  BY <1>1, <1>4, Arrived DEF Answering
<1>6. k \in 0 .. Len(p) - 1
  BY <1>5
<1>7. /\ Tail(down) = Rest(p, k + 1) /\ Head(down).b = p[k + 1] /\ Rest(p, Len(p)) = <<>>
  BY <1>2, <1>5, <1>6, RestParts
<1>8. HostRx(p[k + 1]) /\ down' = Rest(p, k + 1)
  BY <1>7, ReceivesParts DEF Received
<1>9. CASE k \in 0 .. Len(p) - 2
  <2>1. ~Complete(prx)
    BY <1>2, <1>3, <1>5, <1>9, ParsesOn
  <2>2. HostCollect(p[k + 1])
    BY <1>8, <2>1 DEF HostRx, HostAnswer
  <2>3. /\ prx' \in Parsers /\ pdata' \in [1 .. HostMax -> Bytes]
        /\ Parsing(prx', p, k + 1, HostMax) /\ Kept(p, k + 1)'
    BY <1>2, <1>5, <1>9, <2>2, KeptOn
  <2>4. k + 1 \in 0 .. Len(Reply) - 1
    BY <1>4, <1>5, <1>9
  <2>5. AnsweredTo(p, k + 1)'
    BY <1>8, <2>3
  <2>6. UNCHANGED <<todo, try, awaiting, hspeed, result, switched>>
    BY <2>2 DEF HostCollect
  <2>7. More
    BY <1>1, <2>4, <2>5, <2>6 DEF More
  <2>8. QED
    BY <2>3, <2>7
<1>10. CASE k = Len(p) - 1
  <2>1. Len(p) \in Nat /\ Len(p) >= 4 /\ k + 1 = Len(p) /\ Read(k) = Len(ReplyData) /\ p[3] = Len(ReplyData)
    BY <1>4, <1>5, <1>10, WholeParts DEF Read
  <2>2. Parsing(prx, p, Len(p) - 1, HostMax) /\ Kept(p, k)
    BY <1>2, <1>10
  <2>3. /\ Complete(prx) /\ prx.xsum = SumTo(p, Len(p) - 1)
        /\ prx.header.type = p[2] /\ prx.header.length = p[3]
        /\ Advance(prx, p[Len(p)], HostMax) \in Parsers /\ Advance(prx, p[Len(p)], HostMax).type = "NONE"
    BY <1>3, <1>5, <2>2, ParsesLast
  <2> DEFINE b == p[Len(p)]
  <2>4. HostAnswer(b)
    BY <1>8, <2>1, <2>3 DEF HostRx, HostCollect
  <2>5. /\ AnswerTaken /\ prx' \in Parsers /\ pdata' \in [1 .. HostMax -> Bytes]
    BY <1>3, <1>7, <1>8, <2>1, <2>3, <2>4 DEF AnswerTaken, HostAnswer
  <2>6. SumWrong(b) <=> downHit # "none"
    BY <1>5, <2>3 DEF SumWrong
  <2>7. downHit = "none" /\ Len(ReplyData) <= HostMax =>
          /\ prx.header.type = ReplyType /\ prx.header.length = Len(ReplyData)
          /\ \A i \in 1 .. Len(ReplyData) : pdata[i] = ReplyData[i]
    BY <1>4, <1>5, <2>1, <2>2, <2>3 DEF Kept
  <2>8. Len(ReplyData) \in Nat /\ HostMax \in Nat /\ HostMax >= 2 /\ AckSize = 2
    BY <1>4, Constants DEF AckSize
  <2>9. CASE Again(b)
    <3>1. try' = try + 1 /\ UNCHANGED <<todo, hspeed, result, switched>>
      BY <2>4, <2>9 DEF HostAnswer
    <3>2. SUFFICES ASSUME upHit = "none", downHit = "none", ~(Len(ReplyData) > HostMax)
                   PROVE  FALSE
      BY <2>5, <3>1 DEF Repeated
    <3>3. Len(ReplyData) <= HostMax
      BY <2>8, <3>2
    <3>4. prx.header.type = P_ACK /\ prx.header.length = AckSize /\ pdata[1] = A_XSUM
      BY <2>1, <2>3, <2>6, <2>9, <3>2 DEF Again, ExpectAck
    <3>5. ReplyType = P_ACK /\ Len(ReplyData) = 2
      BY <2>7, <2>8, <3>2, <3>3, <3>4
    <3>6. pdata[1] = ReplyData[1]
      BY <2>7, <3>2, <3>3, <3>5
    <3>7. ReplyData[1] \in {A_ACK, A_NSPEED}
      BY <1>3, <3>2, <3>5, AckReply
    <3>8. QED
      BY <3>4, <3>6, <3>7 DEF A_ACK, A_NSPEED, A_XSUM
  <2>10. CASE ~Again(b)
    <3>1. IF Succeeds THEN Success ELSE Failure
      BY <2>4, <2>10 DEF HostAnswer
    <3>2. downHit = "none" /\ Len(ReplyData) <= HostMax
      BY <2>1, <2>3, <2>6, <2>8, <2>10 DEF Again
    <3>3. /\ prx.header.type = ReplyType /\ prx.header.length = Len(ReplyData)
          /\ \A i \in 1 .. Len(ReplyData) : pdata[i] = ReplyData[i]
      BY <2>7, <3>2
    <3>4. upHit = "none"
      <4>1. SUFFICES ASSUME upHit # "none"
                     PROVE  FALSE
        OBVIOUS
      <4>2. ReplyType = P_ACK
        BY <4>1 DEF ReplyType
      <4>3. Len(ReplyData) = 2 /\ ReplyData[1] = A_XSUM
        BY <1>3, <4>1, <4>2, AckReply
      <4>4. pdata[1] = A_XSUM
        BY <3>3, <4>3
      <4>5. Again(b)
        BY <2>8, <3>3, <4>2, <4>3, <4>4 DEF Again, ExpectAck
      <4>6. QED
        BY <2>10, <4>5
    <3>5. QED
      BY <2>5, <3>1, <3>2, <3>3, <3>4 DEF Answered
  <2>11. QED
    BY <2>5, <2>9, <2>10
<1>11. QED
  BY <1>6, <1>9, <1>10

\* The speed the computer was told is the one that a positive answer to P_SPEED confirms.
LEMMA SpeedAnswered ==
  ASSUME Typed, result = "busy", Answered, Present.type = P_SPEED, Succeeds
  PROVE  Supported(Divider(Present.data[1]))
<1>1. prx.header.type = P_ACK /\ pdata[1] = A_ACK
  BY Numbers DEF Succeeds, ExpectAck, TypeNumbers
<1>2. ReplyType = P_ACK
  BY <1>1 DEF Answered
<1>3. Len(ReplyData) = 2
  BY <1>2, AckReply
<1>4. pdata[1] = ReplyData[1]
  BY <1>3 DEF Answered
<1>5. ReplyData[1] = A_ACK /\ upHit = "none"
  BY <1>1, <1>4 DEF Answered
<1>6. QED
  BY <1>2, <1>5, AckReply

LEMMA AnsweringLinked ==
  ASSUME Typed, Together, Answering, ProgrammerReceives
  PROVE  Typed' /\ Together'
<1>1. /\ UNCHANGED <<rrx, rdata, waddr, mem, rom, div, calls>>
      /\ UNCHANGED <<up, handled, started, upHit, downHit, session>>
  BY ReceivesParts
<1>2. awaiting /\ result = "busy" /\ Course /\ Quiet /\ try \in Nat
  BY DEF Answering, Typed, Course
<1>3. SameSpeed
  BY <1>2 DEF Together, Settling
<1>4. /\ prx' \in Parsers /\ pdata' \in [1 .. HostMax -> Bytes]
      /\ More \/ Repeated \/ Answered
  BY <1>3, AnswerArrives
<1>5. Quiet'
  BY <1>1, <1>2 DEF Quiet
<1>6. Settling /\ (rom = "speed" \/ SameSpeed)
  BY DEF Together
<1>7. CASE More
  <2>1. UNCHANGED <<todo, try, awaiting, hspeed, result, switched>>
    BY <1>7 DEF More
  <2>2. Course' /\ Present' = Present
    BY <1>1, <1>2, <2>1, CourseSame
  <2>3. Typed'
    BY <1>1, <1>4, <2>1, <2>2 DEF Typed
  <2>4. Reply' = Reply
    BY <1>1, <2>2 DEF Reply, ReplyType, ReplyData, Contents
  <2>5. \E p \in Arrivals(Reply, downHit)' : \E k \in 0 .. Len(Reply)' - 1 : AnsweredTo(p, k)'
    BY <1>1, <1>7, <2>4 DEF More, Arrivals
  <2>6. Answering'
    BY <1>1, <1>2, <1>5, <2>1, <2>2, <2>5 DEF Answering
  <2>7. Settling' /\ SameSpeed'
    BY <1>1, <1>3, <1>6, <2>1, <2>2 DEF Settling, SameSpeed
  <2>8. QED
    BY <2>3, <2>6, <2>7 DEF Together
<1>8. CASE Repeated
  <2>1. AnswerTaken /\ try' = try + 1 /\ UNCHANGED <<todo, hspeed, result, switched>>
    BY <1>8 DEF Repeated
  <2>2. try' \in Nat
    BY <1>2, <2>1
  <2>3. Course' /\ Present' = Present
    BY <1>1, <1>2, <2>1, <2>2, CourseSame
  <2>4. Typed'
    BY <1>1, <1>2, <1>4, <2>1, <2>3 DEF Typed, AnswerTaken
  <2>5. Idling'
    BY <1>5, <2>1 DEF Idling, AnswerTaken
  <2>6. Settling' /\ SameSpeed'
    BY <1>1, <1>2, <1>3, <1>6, <2>1, <2>3 DEF Settling, SameSpeed, AnswerTaken
  <2>7. QED
    BY <2>4, <2>5, <2>6 DEF Together
<1>9. CASE Answered
  <2>1. AnswerTaken /\ (IF Succeeds THEN Success ELSE Failure)
    BY <1>9 DEF Answered
  <2>2. PICK i : AtStep(i)
    BY <1>2, PresentStep
  <2>3. Idling'
    BY <1>5, <2>1 DEF Idling, AnswerTaken
  <2>4. rom = "speed" => Present.type = P_SPEED /\ switched # "yes" /\ rdata[1] = Present.data[1]
    BY <1>2, <1>6 DEF Settling
  <2>5. Present.type = P_SPEED => hspeed = InitSpeed /\ switched = "unknown"
    BY <1>2 DEF Course
  <2>6. CASE Succeeds
    <3>1. /\ Course' /\ try' = 0
          /\ Present.type = P_SPEED => result' = "busy" /\ hspeed' = Present.data[1] /\ switched' = "unknown"
          /\ Present.type # P_SPEED => hspeed' = hspeed
      BY <1>1, <1>2, <2>1, <2>2, <2>6, Succeeded
    <3>2. Typed'
      BY <1>1, <1>2, <1>4, <2>1, <3>1 DEF Typed, AnswerTaken
    <3>3. CASE Present.type = P_SPEED
      <4>1. Supported(Divider(Present.data[1])) /\ upHit = "none"
        BY <1>2, <1>9, <2>6, <3>3, SpeedAnswered DEF Answered
      <4>2. rom = "speed" \/ div = Divider(Present.data[1])
        BY <3>3, <4>1 DEF Answering
      <4>3. rom' = "speed" \/ SameSpeed'
        BY <1>1, <3>1, <3>3, <4>2 DEF SameSpeed
      <4>4. Settling'
        <5>1. ~(try' > 0)
          BY <3>1
        <5>2. rom = "speed" => Divider(hspeed') = Divider(rdata'[1])
          BY <1>1, <2>4, <3>1, <3>3
        <5>3. ~awaiting'
          BY <2>1 DEF AnswerTaken
        <5>4. QED
          BY <1>1, <3>1, <3>3, <5>1, <5>2, <5>3 DEF Settling
      <4>5. QED
        BY <2>3, <3>2, <4>3, <4>4 DEF Together
    <3>4. CASE Present.type # P_SPEED
      <4>1. rom # "speed" /\ SameSpeed'
        BY <1>1, <1>3, <2>4, <3>1, <3>4 DEF SameSpeed
      <4>2. Settling'
        BY <1>1, <4>1 DEF Settling
      <4>3. QED
        BY <2>3, <3>2, <4>1, <4>2 DEF Together
    <3>5. QED
      BY <3>3, <3>4
  <2>7. CASE ~Succeeds
    <3>1. /\ Course' /\ try' = 0 /\ hspeed' = hspeed /\ (switched' = "yes" => switched = "yes")
          /\ Present.type = P_SPEED => result' = "busy"
      BY <1>1, <1>2, <2>1, <2>2, <2>7, Failed
    <3>2. Typed'
      BY <1>1, <1>2, <1>4, <2>1, <3>1 DEF Typed, AnswerTaken
    <3>3. SameSpeed'
      BY <1>1, <1>3, <3>1 DEF SameSpeed
    <3>4. ~(try' > 0) /\ ~awaiting'
      BY <2>1, <3>1 DEF AnswerTaken
    <3>5. Settling'
      BY <1>1, <2>4, <2>5, <3>1, <3>4 DEF Settling
    <3>6. QED
      BY <2>3, <3>2, <3>3, <3>5 DEF Together
  <2>8. QED
    BY <2>6, <2>7
<1>10. QED
  BY <1>4, <1>7, <1>8, <1>9

\* The parser takes a byte that may be anything.
LEMMA GarbledOn ==
  ASSUME NEW rx \in Parsers, NEW b \in Bytes, NEW max \in Nat, rx.type \notin {"NONE", "XSUM"},
         rx.type = "PHDR" => rx.len <= 1,
         rx.type \in {"DATA", "NCAP"} => rx.len < rx.header.length
  PROVE  LET next == Advance(rx, b, max) IN
         /\ next \in Parsers /\ next.type # "NONE" /\ (next.type = "PHDR" => next.len <= 1)
         /\ next.type \in {"DATA", "NCAP"} => next.len < next.header.length
         /\ Consumed(next) = Consumed(rx) + 1
<1> DEFINE next == Advance(rx, b, max)
<1>1. /\ next \in Parsers
      /\ rx.type = "PHDR" /\ rx.len = 0 => next.type = "PHDR" /\ next.len = 1 /\ next.header.type = b
      /\ rx.type = "PHDR" /\ rx.len # 0 =>
           next.type = AfterLength(b, max) /\ next.len = 0 /\ next.header.length = b
      /\ rx.type \in {"DATA", "NCAP"} =>
           /\ next.header = rx.header /\ next.len = rx.len + 1
           /\ next.type = IF rx.len + 1 = rx.header.length THEN "XSUM" ELSE rx.type
  BY Advanced
<1> HIDE DEF next
<1>2. /\ rx.type \in {"PHDR", "DATA", "NCAP"} /\ rx.len \in Nat
      /\ rx.header.length \in Bytes
  BY DEF Parsers
<1>3. rx.header.length \in Nat /\ b \in Nat
  BY <1>2, ByteNumber
<1>4. CASE rx.type = "PHDR" /\ rx.len = 0
  <2>1. next.type = "PHDR" /\ next.len = 1
    BY <1>1, <1>4
  <2>2. Consumed(next) = 2 /\ Consumed(rx) = 1
    BY <1>4, <2>1 DEF Consumed
  <2>3. QED
    BY <1>1, <2>1, <2>2 DEF next
<1>5. CASE rx.type = "PHDR" /\ rx.len # 0
  <2>1. rx.len = 1
    BY <1>2, <1>5
  <2>2. next.type = AfterLength(b, max) /\ next.len = 0 /\ next.header.length = b
    BY <1>1, <1>5
  <2>3. \/ next.type = "XSUM" /\ b = 0
        \/ next.type \in {"DATA", "NCAP"} /\ 0 < b
    BY <1>3, <2>2 DEF AfterLength
  <2>4. Consumed(next) = 3 /\ Consumed(rx) = 2
    BY <1>5, <2>1, <2>2, <2>3 DEF Consumed
  <2>5. QED
    BY <1>1, <2>2, <2>3, <2>4 DEF next
<1>6. CASE rx.type \in {"DATA", "NCAP"}
  <2>1. /\ next.header = rx.header /\ next.len = rx.len + 1
        /\ next.type = IF rx.len + 1 = rx.header.length THEN "XSUM" ELSE rx.type
        /\ rx.len < rx.header.length
    BY <1>1, <1>6
  <2>2. Consumed(rx) = 3 + rx.len
    BY <1>6 DEF Consumed
  <2>3. Consumed(next) = 3 + (rx.len + 1)
    BY <1>6, <2>1 DEF Consumed
  <2>4. next.type \in {"DATA", "NCAP"} => next.len < next.header.length
    BY <1>2, <1>3, <2>1
  <2>5. QED
    BY <1>1, <1>2, <1>6, <2>1, <2>2, <2>3, <2>4 DEF next
<1>7. QED
  BY <1>2, <1>4, <1>5, <1>6

\* The rest of an answer after the speed has changed.
LEMMA GarbledLinked ==
  ASSUME Typed, Garbled, ProgrammerReceives
  PROVE  Typed' /\ (Together \/ Garbled \/ Deaf)'
<1>1. /\ UNCHANGED <<rrx, rdata, waddr, mem, rom, div, calls>>
      /\ UNCHANGED <<up, handled, started, session>>
      /\ down # <<>> /\ down' = Tail(down)
  BY ReceivesParts
<1>2. PICK b \in Noise : HostRx(b)
  BY ReceivesParts DEF Received, Garbled
<1>3. b \in Bytes
  BY NoiseBytes
<1>4. /\ awaiting /\ result = "busy" /\ Course /\ Quiet /\ prx \in Parsers /\ ~SameSpeed
      /\ pdata \in [1 .. HostMax -> Bytes] /\ rom = "rom"
      /\ Present.type = P_SPEED /\ div = Divider(Present.data[1])
      /\ hspeed = InitSpeed /\ switched = "unknown" /\ try \in Nat
  BY DEF Garbled, Typed, Course
<1>5. /\ prx.type # "NONE" /\ (prx.type = "PHDR" => prx.len <= 1)
      /\ prx.type \in {"DATA", "NCAP"} => prx.len < prx.header.length
      /\ down \in Seq(Cells) /\ Consumed(prx) + Len(down) <= 6
  BY DEF Garbled
<1>6. down' \in Seq(Cells) /\ Len(down') = Len(down) - 1 /\ Len(down) \in Nat
  BY <1>1, <1>5
<1>7. Quiet'
  BY <1>1, <1>4 DEF Quiet
<1>8. /\ prx.len \in Nat /\ prx.header.length \in Nat /\ HostMax \in Nat
  <2>1. prx.len \in Nat /\ prx.header.length \in Bytes
    BY <1>4 DEF Parsers
  <2>2. QED
    BY <2>1, Constants, ByteNumber
<1>9. CASE HostCollect(b)
  <2>1. /\ ~Complete(prx) /\ prx' = Advance(prx, b, HostMax)
        /\ UNCHANGED <<todo, try, awaiting, hspeed, result, switched>>
    BY <1>9 DEF HostCollect
  <2>2. pdata' \in [1 .. HostMax -> Bytes]
    BY <1>3, <1>4, <1>9 DEF HostCollect
  <2>3. prx.type \notin {"NONE", "XSUM"}
    BY <1>5, <2>1 DEF Complete
  <2>4. /\ prx' \in Parsers /\ prx'.type # "NONE" /\ (prx'.type = "PHDR" => prx'.len <= 1)
        /\ prx'.type \in {"DATA", "NCAP"} => prx'.len < prx'.header.length
        /\ Consumed(prx') = Consumed(prx) + 1
    BY <1>3, <1>4, <1>5, <1>8, <2>1, <2>3, GarbledOn
  <2>5. Course' /\ Present' = Present
    BY <1>1, <1>4, <2>1, CourseSame
  <2>6. Typed'
    BY <1>1, <1>4, <2>1, <2>2, <2>4, <2>5 DEF Typed
  <2>7. Consumed(prx) \in Nat
    BY <1>8 DEF Consumed
  <2>8. Consumed(prx') + Len(down') <= 6
    BY <1>5, <1>6, <2>4, <2>7
  <2>9. Garbled'
    BY <1>1, <1>4, <1>6, <1>7, <2>1, <2>4, <2>5, <2>8 DEF Garbled, SameSpeed
  <2>10. QED
    BY <2>6, <2>9
<1>10. CASE HostAnswer(b)
  <2>1. /\ Complete(prx) /\ prx' = Advance(prx, b, HostMax) /\ awaiting' = FALSE /\ pdata' = pdata
        /\ IF Again(b) THEN try' = try + 1 /\ UNCHANGED <<todo, hspeed, result, switched>>
           ELSE IF Succeeds THEN Success ELSE Failure
    BY <1>10 DEF HostAnswer
  <2>2. prx.type = "XSUM"
    BY <2>1 DEF Complete
  <2>3. prx' \in Parsers /\ prx'.type = "NONE"
    BY <1>3, <1>4, <2>1, <2>2, Advanced
  <2>4. PICK i : AtStep(i)
    BY <1>4, PresentStep
  <2>5. CASE Again(b)
    <3>1. try' = try + 1 /\ UNCHANGED <<todo, hspeed, result, switched>> /\ try' \in Nat
      BY <1>4, <2>1, <2>5
    <3>2. Course' /\ Present' = Present
      BY <1>1, <1>4, <3>1, CourseSame
    <3>3. Typed'
      BY <1>1, <1>4, <2>1, <2>3, <3>1, <3>2 DEF Typed
    <3>4. Deaf'
      BY <1>1, <1>4, <1>7, <2>3, <3>1, <3>2 DEF Deaf, SameSpeed, Quiet
    <3>5. QED
      BY <3>3, <3>4
  <2>6. CASE ~Again(b) /\ Succeeds
    <3>1. /\ Course' /\ hspeed' = Present.data[1]
      BY <1>1, <1>4, <2>1, <2>4, <2>6, Succeeded
    <3>2. Typed'
      BY <1>1, <1>4, <2>1, <2>3, <3>1 DEF Typed
    <3>3. prx.header.length = 2
      <4>1. Present.type \notin {P_PING, P_WHO, P_READ}
        BY <1>4, Numbers DEF TypeNumbers
      <4>2. QED
        BY <2>6, <4>1 DEF Succeeds, ExpectAck, AckSize
    <3>4. Consumed(prx) = 5
      BY <2>2, <3>3 DEF Consumed
    <3>5. Len(down') = 0
      <4>1. Len(down) # 0
        BY <1>1, <1>5
      <4>2. QED
        BY <1>5, <1>6, <3>4, <4>1
    <3>6. down' = <<>>
      BY <1>6, <3>5
    <3>7. Idling'
      BY <1>7, <2>1, <2>3, <3>6 DEF Idling
    <3>8. SameSpeed' /\ rom' # "speed"
      BY <1>1, <1>4, <3>1 DEF SameSpeed
    <3>9. QED
      BY <3>2, <3>7, <3>8 DEF Together, Settling
  <2>7. CASE ~Again(b) /\ ~Succeeds
    <3>1. /\ Course' /\ try' = 0 /\ hspeed' = hspeed /\ (switched' = "yes" => switched = "yes")
          /\ result' = "busy"
      BY <1>1, <1>4, <2>1, <2>4, <2>7, Failed
    <3>2. Typed'
      BY <1>1, <1>4, <2>1, <2>3, <3>1 DEF Typed
    <3>3. ~(try' > 0)
      BY <3>1
    <3>4. Deaf'
      BY <1>1, <1>4, <1>7, <2>3, <3>1, <3>3 DEF Deaf, SameSpeed, Quiet
    <3>5. QED
      BY <3>2, <3>4
  <2>8. QED
    BY <2>5, <2>6, <2>7
<1>11. QED
  BY <1>2, <1>9, <1>10 DEF HostRx

\* The programmer does not understand a computer at another speed.
LEMMA DeafReceives ==
  ASSUME Typed, Deaf, ProgrammerReceives, NoFalseStart
  PROVE  Typed' /\ Deaf'
<1>1. /\ UNCHANGED <<rrx, rdata, waddr, mem, rom, div, calls>>
      /\ UNCHANGED <<up, handled, started, session>>
  BY ReceivesParts
<1>2. PICK b \in Noise : HostRx(b)
  BY ReceivesParts DEF Received, Deaf
<1>3. b \in Bytes /\ b # STX
  BY NoiseBytes DEF NoFalseStart
<1>4. prx \in Parsers /\ prx.type = "NONE" /\ Course /\ try \in Nat
  BY DEF Typed, Deaf, Course
<1>5. HostCollect(b)
  BY <1>2, <1>4 DEF HostRx, HostAnswer, Complete
<1>6. /\ prx' = Advance(prx, b, HostMax) /\ pdata' = pdata
      /\ UNCHANGED <<todo, try, awaiting, hspeed, result, switched>>
  BY <1>4, <1>5 DEF HostCollect
<1>7. prx' \in Parsers /\ prx'.type = "NONE"
  BY <1>3, <1>4, <1>6, Advanced
<1>8. Course' /\ Present' = Present
  BY <1>1, <1>4, <1>6, CourseSame
<1>9. Typed'
  BY <1>1, <1>6, <1>7, <1>8 DEF Typed
<1>10. Deaf'
  BY <1>1, <1>6, <1>7, <1>8 DEF Deaf, SameSpeed
<1>11. QED
  BY <1>9, <1>10

LEMMA ReceivesLinked ==
  ASSUME Typed, Together \/ Garbled \/ Deaf, NoFalseStart, ProgrammerReceives
  PROVE  Typed' /\ (Together \/ Garbled \/ Deaf)'
<1>1. awaiting /\ down # <<>>
  BY ReceivesParts
<1>2. Together => Answering
  BY <1>1 DEF Together, Idling, Asking, Lost
<1>3. QED
  BY <1>2, AnsweringLinked, GarbledLinked, DeafReceives

----------------------------------------------------------------------------
(* The computer's steps.                                                   *)

LEMMA ReplyIs ==
  ASSUME upHit = "none"
  PROVE  /\ Present.type = P_PING => ReplyType = P_PONG /\ ReplyData = <<Present.data[1]>>
         /\ Present.type = P_WHO => ReplyType = P_IDENT /\ ReplyData = Ident
         /\ Present.type = P_READ =>
              ReplyType = P_RDATA /\ ReplyData = Contents(Present.data[1], Present.data[2])
         /\ Present.type = P_SPEED =>
              /\ ReplyType = P_ACK
              /\ ReplyData = <<IF Supported(Divider(Present.data[1])) THEN A_ACK ELSE A_NSPEED, 0>>
         /\ Present.type \in {P_WRITE, P_WDATA, P_JUMP, P_CALL} =>
              ReplyType = P_ACK /\ ReplyData = <<A_ACK, 0>>
<1>1. CASE Present.type = P_PING
  BY <1>1, Numbers DEF ReplyType, ReplyData, TypeNumbers
<1>2. CASE Present.type = P_WHO
  BY <1>2, Numbers DEF ReplyType, ReplyData, TypeNumbers
<1>3. CASE Present.type = P_READ
  BY <1>3, Numbers DEF ReplyType, ReplyData, TypeNumbers
<1>4. CASE Present.type = P_SPEED
  <2>1. Present.type \notin {P_PING, P_WHO, P_READ, P_WRITE, P_WDATA, P_JUMP, P_CALL}
    BY <1>4, Numbers DEF TypeNumbers
  <2>2. QED
    BY <1>4, <2>1 DEF ReplyType, ReplyData
<1>5. CASE Present.type \in {P_WRITE, P_WDATA, P_JUMP, P_CALL}
  <2>1. Present.type \notin {P_PING, P_WHO, P_READ, P_SPEED}
    BY <1>5, Numbers DEF TypeNumbers
  <2>2. QED
    BY <1>5, <2>1 DEF ReplyType, ReplyData
<1>6. QED
  BY <1>1, <1>2, <1>3, <1>4, <1>5

\* One byte of the request arrives: it is not the last, or the packet is carried out if it is
\* what was sent, and answered.
MoreUp ==
  /\ UNCHANGED <<waddr, rom, div, calls, down, handled, downHit, mistaken>>
  /\ \E p \in Arrivals(Sent, upHit) : \E k \in 0 .. Len(Sent) - 1 : AskedTo(p, k)'
Right(type) == upHit = "none" /\ Present.type = type
CarriedOut ==
  /\ down' = Rest(Reply, 0) /\ downHit' = "none" /\ up' = <<>>
  /\ rrx'.type = "NONE" /\ mem' = mem /\ handled' = mem /\ rdata' = rdata /\ div' = div
  /\ waddr' = IF Right(P_WRITE) THEN Present.data[1] ELSE waddr
  /\ rom' = IF Right(P_SPEED) /\ Supported(Divider(Present.data[1])) THEN "speed"
            ELSE IF Right(P_JUMP) THEN "program" ELSE "rom"
  /\ calls' = IF Right(P_CALL) THEN Append(calls, Present.data[1]) ELSE calls
  /\ said' = (IF upHit = "none" THEN "A_ACK" ELSE "A_XSUM")
  /\ Right(P_SPEED) \/ Right(P_JUMP) => rdata[1] = Present.data[1]
  /\ \E p \in Arrivals(Sent, upHit) :
       Stored(p, Len(Sent) - 1) /\ rrx.header.type = p[2] /\ mistaken' = (mistaken \/ Mistaken)

LEMMA TakesParts ==
  ASSUME ComputerReceives
  PROVE  /\ up # <<>> /\ up' = Tail(up) /\ rom = "rom"
         /\ \E b \in Received(Head(up).b) :
              /\ RomRx(b)
              /\ IF Complete(rrx)
                 THEN /\ handled' = mem' /\ mistaken' = (mistaken \/ Mistaken) /\ downHit' = "none"
                      /\ said' = IF XsumRight(b) THEN "A_ACK" ELSE "A_XSUM"
                 ELSE UNCHANGED <<handled, mistaken, downHit>>
         /\ UNCHANGED <<session, todo, try, awaiting, prx, pdata, hspeed, result, switched>>
         /\ UNCHANGED <<faults, upHit, misframed>> /\ started' = (started \/ rom' = "program")
<1>1. PICK b \in Received(Head(up).b) :
        /\ RomRx(b)
        /\ IF Complete(rrx)
           THEN handled' = mem' /\ mistaken' = (mistaken \/ Mistaken) /\ downHit' = "none"
           ELSE UNCHANGED <<handled, mistaken, downHit>>
  BY DEF ComputerReceives
<1>2. rom = "rom"
  BY <1>1 DEF RomRx, RomCollect, Refuse, PPing, PWho, PSpeed, PWrite, PRead, PWdata, PJump, PCall, Accepts
<1>3. QED
  BY <1>1, <1>2 DEF ComputerReceives, programmer

\* A complete packet.
LEMMA Handling ==
  ASSUME Typed, result = "busy", rom = "rom", down = <<>>, Complete(rrx), NEW b, RomRx(b),
         rrx.header.type = Present.type \/ upHit # "none",
         rrx.header.length = Len(Present.data) \/ upHit # "none",
         XsumRight(b) <=> upHit = "none",
         upHit = "none" /\ Present.type # P_WDATA => \A i \in 1 .. Len(Present.data) : rdata[i] = Present.data[i]
  PROVE  /\ down' = Rest(Reply, 0) /\ rrx' = Advance(rrx, b, Limit) /\ mem' = mem /\ rdata' = rdata
         /\ div' = div
         /\ waddr' = IF Right(P_WRITE) THEN Present.data[1] ELSE waddr
         /\ rom' = IF Right(P_SPEED) /\ Supported(Divider(Present.data[1])) THEN "speed"
                   ELSE IF Right(P_JUMP) THEN "program" ELSE "rom"
         /\ calls' = IF Right(P_CALL) THEN Append(calls, Present.data[1]) ELSE calls
<1>1. Whole(Reply)
  BY ReplyParts
<1>2. ~RomCollect(b)
  BY DEF RomCollect
<1>3. <<>> \o OnLine(Reply) = Rest(Reply, 0)
  BY <1>1, RestAll
<1>4. /\ Present.type \in Handled
      /\ Present.type # P_WDATA =>
           /\ Len(Present.data) = SizeOf[Present.type]
           /\ Present.type # P_WHO => Len(Present.data) >= 1
           /\ Present.type \in {P_READ, P_WRITE} => Len(Present.data) = 2
      /\ Len(Present.data) \in Nat
  BY PresentData, SentParts
<1>5. CASE Refuse(b)
  <2>1. upHit # "none"
    <3>1. SUFFICES ASSUME upHit = "none"
                   PROVE  FALSE
      OBVIOUS
    <3>2. XsumRight(b) /\ rrx.header.type = Present.type /\ rrx.header.length = Len(Present.data)
      BY <3>1
    <3>3. rrx.header.type \in Handled /\ RightLength
      BY <1>4, <3>2 DEF RightLength
    <3>4. QED
      BY <1>5, <3>2, <3>3 DEF Refuse
  <2>2. ~XsumRight(b)
    BY <2>1
  <2>3. Reply = Packet(P_ACK, <<A_XSUM, 0>>)
    BY <2>1 DEF Reply, ReplyType, ReplyData
  <2>4. down' = <<>> \o OnLine(Reply)
    BY <1>5, <2>2, <2>3 DEF Refuse, SendAck, Send
  <2>5. /\ rrx' = Advance(rrx, b, Limit)
        /\ UNCHANGED <<rdata, waddr, mem, rom, div, calls>>
    BY <1>5 DEF Refuse
  <2>6. QED
    BY <1>3, <2>1, <2>4, <2>5 DEF Right
<1>6. ASSUME NEW type, Accepts(b, type)
      PROVE  /\ Right(type) /\ \A t : t # type => ~Right(t)
             /\ type # P_WDATA => \A i \in 1 .. Len(Present.data) : rdata[i] = Present.data[i]
             /\ rrx' = Advance(rrx, b, Limit) /\ rdata' = rdata
  BY <1>6 DEF Accepts, Right
<1>7. CASE PPing(b)
  <2>1. Accepts(b, P_PING) /\ Send(P_PONG, <<rdata[1]>>) /\ UNCHANGED <<waddr, mem, rom, div, calls>>
    BY <1>7 DEF PPing
  <2>2. Right(P_PING) /\ ~Right(P_WRITE) /\ ~Right(P_SPEED) /\ ~Right(P_JUMP) /\ ~Right(P_CALL)
    BY <1>6, <2>1, Numbers DEF TypeNumbers
  <2>3. rdata[1] = Present.data[1]
    BY <1>4, <1>6, <2>1, <2>2, Numbers DEF Right, TypeNumbers
  <2>4. down' = Rest(Reply, 0)
    BY <1>3, <2>1, <2>2, <2>3, ReplyIs DEF Right, Send, Reply
  <2>5. QED
    BY <1>6, <2>1, <2>2, <2>4
<1>8. CASE PWho(b)
  <2>1. Accepts(b, P_WHO) /\ Send(P_IDENT, Ident) /\ UNCHANGED <<waddr, mem, rom, div, calls>>
    BY <1>8 DEF PWho
  <2>2. Right(P_WHO) /\ ~Right(P_WRITE) /\ ~Right(P_SPEED) /\ ~Right(P_JUMP) /\ ~Right(P_CALL)
    BY <1>6, <2>1, Numbers DEF TypeNumbers
  <2>3. down' = Rest(Reply, 0)
    BY <1>3, <2>1, <2>2, ReplyIs DEF Right, Send, Reply
  <2>4. QED
    BY <1>6, <2>1, <2>2, <2>3
<1>9. CASE PSpeed(b)
  <2>1. /\ Accepts(b, P_SPEED) /\ UNCHANGED <<waddr, mem, div, calls>>
        /\ IF Supported(Divider(rdata[1])) THEN SendAck(A_ACK) /\ rom' = "speed"
           ELSE SendAck(A_NSPEED) /\ rom' = rom
    BY <1>9 DEF PSpeed
  <2>2. Right(P_SPEED) /\ ~Right(P_WRITE) /\ ~Right(P_JUMP) /\ ~Right(P_CALL)
    BY <1>6, <2>1, Numbers DEF TypeNumbers
  <2>3. rdata[1] = Present.data[1]
    BY <1>4, <1>6, <2>1, <2>2, Numbers DEF Right, TypeNumbers
  <2>4. Reply = Packet(P_ACK, <<IF Supported(Divider(Present.data[1])) THEN A_ACK ELSE A_NSPEED, 0>>)
    BY <2>2, ReplyIs DEF Right, Reply
  <2>5. down' = <<>> \o OnLine(Reply)
    BY <2>1, <2>3, <2>4 DEF SendAck, Send
  <2>6. QED
    BY <1>3, <1>6, <2>1, <2>2, <2>3, <2>5
<1>10. CASE PWrite(b)
  <2>1. Accepts(b, P_WRITE) /\ waddr' = rdata[1] /\ SendAck(A_ACK) /\ UNCHANGED <<mem, rom, div, calls>>
    BY <1>10 DEF PWrite
  <2>2. Right(P_WRITE) /\ ~Right(P_SPEED) /\ ~Right(P_JUMP) /\ ~Right(P_CALL)
    BY <1>6, <2>1, Numbers DEF TypeNumbers
  <2>3. rdata[1] = Present.data[1]
    BY <1>4, <1>6, <2>1, <2>2, Numbers DEF Right, TypeNumbers
  <2>4. down' = Rest(Reply, 0)
    BY <1>3, <2>1, <2>2, ReplyIs DEF Right, SendAck, Send, Reply
  <2>5. QED
    BY <1>6, <2>1, <2>2, <2>3, <2>4
<1>11. CASE PRead(b)
  <2>1. /\ Accepts(b, P_READ) /\ Send(P_RDATA, Contents(rdata[1], rdata[2]))
        /\ UNCHANGED <<waddr, mem, rom, div, calls>>
    BY <1>11 DEF PRead
  <2>2. Right(P_READ) /\ ~Right(P_WRITE) /\ ~Right(P_SPEED) /\ ~Right(P_JUMP) /\ ~Right(P_CALL)
    BY <1>6, <2>1, Numbers DEF TypeNumbers
  <2>3. rdata[1] = Present.data[1] /\ rdata[2] = Present.data[2]
    BY <1>4, <1>6, <2>1, <2>2, Numbers DEF Right, TypeNumbers
  <2>4. Reply = Packet(P_RDATA, Contents(rdata[1], rdata[2]))
    BY <2>2, <2>3, ReplyIs DEF Right, Reply
  <2>5. down' = <<>> \o OnLine(Reply)
    BY <2>1, <2>4 DEF Send
  <2>6. QED
    BY <1>3, <1>6, <2>1, <2>2, <2>5
<1>12. CASE PWdata(b)
  <2>1. Accepts(b, P_WDATA) /\ SendAck(A_ACK) /\ UNCHANGED <<waddr, mem, rom, div, calls>>
    BY <1>12 DEF PWdata
  <2>2. Right(P_WDATA) /\ ~Right(P_WRITE) /\ ~Right(P_SPEED) /\ ~Right(P_JUMP) /\ ~Right(P_CALL)
    BY <1>6, <2>1, Numbers DEF TypeNumbers
  <2>3. down' = Rest(Reply, 0)
    BY <1>3, <2>1, <2>2, ReplyIs DEF Right, SendAck, Send, Reply
  <2>4. QED
    BY <1>6, <2>1, <2>2, <2>3
<1>13. CASE PJump(b)
  <2>1. Accepts(b, P_JUMP) /\ SendAck(A_ACK) /\ rom' = "program" /\ UNCHANGED <<waddr, mem, div, calls>>
    BY <1>13 DEF PJump
  <2>2. Right(P_JUMP) /\ ~Right(P_WRITE) /\ ~Right(P_SPEED) /\ ~Right(P_CALL)
    BY <1>6, <2>1, Numbers DEF TypeNumbers
  <2>3. down' = Rest(Reply, 0)
    BY <1>3, <2>1, <2>2, ReplyIs DEF Right, SendAck, Send, Reply
  <2>4. QED
    BY <1>6, <2>1, <2>2, <2>3
<1>14. CASE PCall(b)
  <2>1. /\ Accepts(b, P_CALL) /\ SendAck(A_ACK) /\ calls' = Append(calls, rdata[1])
        /\ UNCHANGED <<waddr, mem, rom, div>>
    BY <1>14 DEF PCall
  <2>2. Right(P_CALL) /\ ~Right(P_WRITE) /\ ~Right(P_SPEED) /\ ~Right(P_JUMP)
    BY <1>6, <2>1, Numbers DEF TypeNumbers
  <2>3. rdata[1] = Present.data[1]
    BY <1>4, <1>6, <2>1, <2>2, Numbers DEF Right, TypeNumbers
  <2>4. down' = Rest(Reply, 0)
    BY <1>3, <2>1, <2>2, ReplyIs DEF Right, SendAck, Send, Reply
  <2>5. QED
    BY <1>6, <2>1, <2>2, <2>3, <2>4
<1>15. QED
  BY <1>2, <1>5, <1>7, <1>8, <1>9, <1>10, <1>11, <1>12, <1>13, <1>14 DEF RomRx

LEMMA RequestArrives ==
  ASSUME Typed, Asking, SameSpeed, ComputerReceives
  PROVE  /\ rrx' \in Parsers /\ rdata' \in [1 .. RomMax -> Bytes] /\ mem' \in [Ram -> Bytes]
         /\ MoreUp \/ CarriedOut
<1> USE DEF AskedTo
<1>1. PICK p \in Arrivals(Sent, upHit) : \E k \in 0 .. Len(Sent) - 1 : AskedTo(p, k)
  BY DEF Asking
<1>2. PICK k \in 0 .. Len(Sent) - 1 : AskedTo(p, k)
  BY <1>1
<1>3. /\ result = "busy" /\ rrx \in Parsers /\ rdata \in [1 .. RomMax -> Bytes] /\ mem \in [Ram -> Bytes]
      /\ down = <<>>
  BY DEF Asking, Typed
<1>4. /\ Whole(Sent) /\ Len(Sent) = Len(Present.data) + 4
      /\ Len(Present.data) \in Nat /\ Sent[3] = Len(Present.data) /\ Sent[2] = Present.type
      /\ \A i \in 1 .. Len(Present.data) : Sent[3 + i] = Present.data[i]
      /\ SumTo(Sent, Len(Sent) - 1) = Sent[Len(Sent)]
  BY <1>3, SentParts
<1>5. /\ Whole(p) /\ Len(p) = Len(Sent) /\ p[3] = Sent[3]
      /\ (SumTo(p, Len(p) - 1) = p[Len(p)]) <=> upHit = "none"
      /\ upHit = "none" => p = Sent
  <2>1. upHit \in HitTypes
    BY DEF Asking
  <2>2. QED
    BY <1>1, <1>4, <2>1, Arrived
<1>6. k \in 0 .. Len(p) - 1
  BY <1>5
<1>7. /\ Tail(up) = Rest(p, k + 1) /\ Head(up).b = p[k + 1] /\ Rest(p, Len(p)) = <<>>
  BY <1>2, <1>5, <1>6, RestParts
<1>8. /\ up' = Rest(p, k + 1) /\ rom = "rom" /\ RomRx(p[k + 1])
      /\ IF Complete(rrx)
         THEN /\ handled' = mem' /\ mistaken' = (mistaken \/ Mistaken) /\ downHit' = "none"
              /\ said' = IF XsumRight(p[k + 1]) THEN "A_ACK" ELSE "A_XSUM"
         ELSE UNCHANGED <<handled, mistaken, downHit>>
  <2>1. PICK b \in Received(Head(up).b) :
          /\ RomRx(b)
          /\ IF Complete(rrx)
             THEN /\ handled' = mem' /\ mistaken' = (mistaken \/ Mistaken) /\ downHit' = "none"
                  /\ said' = IF XsumRight(b) THEN "A_ACK" ELSE "A_XSUM"
             ELSE UNCHANGED <<handled, mistaken, downHit>>
    BY TakesParts
  <2>2. b = p[k + 1]
    BY <1>7 DEF Received
  <2>3. QED
    BY <1>7, <2>1, <2>2, TakesParts
<1>9. CASE k \in 0 .. Len(p) - 2
  <2>1. ~Complete(rrx)
    BY <1>2, <1>3, <1>5, <1>9, ParsesOn
  <2>2. RomCollect(p[k + 1])
    BY <1>8, <2>1
       DEF RomRx, Refuse, PPing, PWho, PSpeed, PWrite, PRead, PWdata, PJump, PCall, Accepts
  <2>3. UNCHANGED <<waddr, rom, div, calls, down, handled, downHit, mistaken>>
    BY <1>8, <2>1, <2>2 DEF RomCollect
  <2>4. /\ rrx' \in Parsers /\ rdata' \in [1 .. RomMax -> Bytes] /\ mem' \in [Ram -> Bytes]
        /\ Parsing(rrx', p, k + 1, RomLimit(p)) /\ Stored(p, k + 1)'
    BY <1>2, <1>5, <1>9, <2>2, <2>3, StoredOn
  <2>5. k + 1 \in 0 .. Len(Sent) - 1
    BY <1>4, <1>5, <1>9
  <2>6. AskedTo(p, k + 1)'
    BY <1>8, <2>3, <2>4
  <2>7. MoreUp
    BY <1>1, <2>3, <2>5, <2>6 DEF MoreUp
  <2>8. QED
    BY <2>4, <2>7
<1>10. CASE k = Len(p) - 1
  <2>1. Len(p) \in Nat /\ Len(p) >= 4 /\ k + 1 = Len(p) /\ Read(k) = Len(Present.data)
    BY <1>4, <1>5, <1>10, WholeParts DEF Read
  <2> DEFINE b == p[Len(p)]
  <2>2. Parsing(rrx, p, Len(p) - 1, RomLimit(p)) /\ Stored(p, k) /\ RomRx(b)
    BY <1>2, <1>8, <1>10, <2>1
  <2>3. /\ Complete(rrx) /\ rrx.xsum = SumTo(p, Len(p) - 1)
        /\ rrx.header.type = p[2] /\ rrx.header.length = p[3]
        /\ Advance(rrx, b, Limit) \in Parsers /\ Advance(rrx, b, Limit).type = "NONE"
    <3> DEFINE max == RomLimit(p)
               lim == Limit
    <3>1. Parsing(rrx, p, Len(p) - 1, max) /\ rrx \in Parsers
      BY <1>3, <2>2
    <3> HIDE DEF max, lim, AskedTo
    <3>2. /\ Complete(rrx) /\ rrx.xsum = SumTo(p, Len(p) - 1)
          /\ rrx.header.type = p[2] /\ rrx.header.length = p[3]
          /\ Advance(rrx, p[Len(p)], lim) \in Parsers /\ Advance(rrx, p[Len(p)], lim).type = "NONE"
      BY <1>5, <3>1, ParsesLast, SMTT(30)
    <3>3. QED
      BY <3>2 DEF lim
  <2>4. XsumRight(b) <=> upHit = "none"
    BY <1>5, <2>3 DEF XsumRight
  <2>5. rrx.header.length = Len(Present.data) /\ (upHit = "none" => rrx.header.type = Present.type)
    BY <1>4, <1>5, <2>3
  <2>6. ASSUME upHit = "none", Present.type # P_WDATA
        PROVE  \A i \in 1 .. Len(Present.data) : rdata[i] = Present.data[i]
    <3>1. p = Sent /\ p[2] # P_WDATA
      BY <1>4, <1>5, <2>6
    <3>2. p[3] <= RomMax
      <4>1. Len(Present.data) <= 2
        BY <1>3, <2>6, PresentData
      <4>2. QED
        BY <1>4, <1>5, <4>1, Constants
    <3>3. \A i \in 1 .. Read(k) : rdata[i] = p[3 + i]
      BY <2>2, <3>1, <3>2 DEF Stored
    <3>4. QED
      BY <1>4, <2>1, <3>1, <3>3
  <2>7. /\ down' = Rest(Reply, 0) /\ rrx' = Advance(rrx, b, Limit) /\ mem' = mem /\ rdata' = rdata
        /\ div' = div
        /\ waddr' = IF Right(P_WRITE) THEN Present.data[1] ELSE waddr
        /\ rom' = IF Right(P_SPEED) /\ Supported(Divider(Present.data[1])) THEN "speed"
                  ELSE IF Right(P_JUMP) THEN "program" ELSE "rom"
        /\ calls' = IF Right(P_CALL) THEN Append(calls, Present.data[1]) ELSE calls
    <3> HIDE DEF b, AskedTo
    <3>1. rom = "rom" /\ result = "busy" /\ down = <<>>
      BY <1>3, <1>8
    <3>2. QED
      BY <2>2, <2>3, <2>4, <2>5, <2>6, <3>1, Handling
  <2>8. Right(P_SPEED) \/ Right(P_JUMP) => rdata[1] = Present.data[1]
    <3>1. SUFFICES ASSUME Right(P_SPEED) \/ Right(P_JUMP)
                   PROVE  rdata[1] = Present.data[1]
      OBVIOUS
    <3>2. Present.type # P_WDATA /\ Present.type # P_WHO
      BY <3>1, Numbers DEF Right, TypeNumbers
    <3>3. Len(Present.data) >= 1
      BY <1>3, <3>2, PresentData
    <3>4. QED
      BY <1>4, <2>6, <3>1, <3>2, <3>3 DEF Right
  <2>9. \E q \in Arrivals(Sent, upHit) :
          Stored(q, Len(Sent) - 1) /\ rrx.header.type = q[2] /\ mistaken' = (mistaken \/ Mistaken)
    BY <1>1, <1>5, <1>8, <1>10, <2>2, <2>3
  <2>10. rrx'.type = "NONE" /\ rrx' \in Parsers
    BY <2>3, <2>7
  <2>11. /\ up' = <<>> /\ handled' = mem /\ downHit' = "none"
         /\ said' = IF upHit = "none" THEN "A_ACK" ELSE "A_XSUM"
    BY <1>7, <1>8, <2>1, <2>3, <2>4, <2>7
  <2>12. CarriedOut
    <3> HIDE DEF b, AskedTo
    <3>1. QED
      BY <2>7, <2>8, <2>9, <2>10, <2>11 DEF CarriedOut
  <2>13. QED
    BY <1>3, <2>7, <2>10, <2>12
<1>11. QED
  BY <1>6, <1>9, <1>10

LEMMA AskingTakes ==
  ASSUME Typed, Together, Asking, ComputerReceives
  PROVE  Typed' /\ Together'
<1>1. /\ UNCHANGED <<session, todo, try, awaiting, prx, pdata, hspeed, result, switched>>
      /\ upHit' = upHit /\ started' = (started \/ rom' = "program") /\ rom = "rom"
  BY TakesParts
<1>2. awaiting /\ result = "busy" /\ Course /\ try \in Nat /\ prx.type = "NONE" /\ upHit \in HitTypes
  BY DEF Asking, Typed, Course
<1>3. SameSpeed
  BY <1>1 DEF Together
<1>4. /\ rrx' \in Parsers /\ rdata' \in [1 .. RomMax -> Bytes] /\ mem' \in [Ram -> Bytes]
      /\ MoreUp \/ CarriedOut
  BY <1>3, RequestArrives
<1>5. Course' /\ Present' = Present
  BY <1>1, <1>2, CourseSame
<1>6. CASE MoreUp
  <2>1. /\ UNCHANGED <<waddr, rom, div, down, handled>>
        /\ \E p \in Arrivals(Sent, upHit) : \E k \in 0 .. Len(Sent) - 1 : AskedTo(p, k)'
    BY <1>6 DEF MoreUp
  <2>2. Sent' = Sent
    BY <1>5 DEF Sent
  <2>3. \E p \in Arrivals(Sent, upHit)' : \E k \in 0 .. Len(Sent)' - 1 : AskedTo(p, k)'
    BY <1>1, <2>1, <2>2 DEF Arrivals
  <2>4. awaiting' /\ down' = <<>> /\ prx'.type = "NONE" /\ rom' # "speed" /\ upHit' \in HitTypes
    BY <1>1, <1>2, <2>1 DEF Asking
  <2>5. Asking'
    BY <2>3, <2>4 DEF Asking
  <2>6. Typed'
    BY <1>1, <1>4, <1>5, <2>1 DEF Typed
  <2>7. SameSpeed' /\ Settling'
    BY <1>1, <1>3, <2>1 DEF SameSpeed, Settling
  <2>8. QED
    BY <2>5, <2>6, <2>7 DEF Together
<1>7. CASE CarriedOut
  <2>1. /\ down' = Rest(Reply, 0) /\ downHit' = "none" /\ up' = <<>>
        /\ rrx'.type = "NONE" /\ mem' = mem /\ handled' = mem /\ rdata' = rdata /\ div' = div
        /\ waddr' = IF Right(P_WRITE) THEN Present.data[1] ELSE waddr
        /\ rom' = IF Right(P_SPEED) /\ Supported(Divider(Present.data[1])) THEN "speed"
                  ELSE IF Right(P_JUMP) THEN "program" ELSE "rom"
        /\ Right(P_SPEED) => rdata[1] = Present.data[1]
    BY <1>7 DEF CarriedOut
  <2>2. Reply' = Reply
    BY <1>1, <1>5, <2>1 DEF Reply, ReplyType, ReplyData, Contents
  <2>3. Whole(Reply)
    BY <1>2, ReplyParts
  <2>4. 0 \in 0 .. Len(Reply) - 1
    BY <2>3, WholeParts
  <2>5. AnsweredTo(Reply, 0)'
    <3>1. Parsing(prx', Reply, 0, HostMax)
      BY <1>1, <1>2 DEF Parsing
    <3>2. \A i \in 1 .. Read(0) : pdata'[i] = Reply[3 + i]
      BY DEF Read
    <3>3. QED
      BY <2>1, <2>2, <3>1, <3>2 DEF AnsweredTo, Kept
  <2>6. \E p \in Arrivals(Reply, downHit)' : \E k \in 0 .. Len(Reply)' - 1 : AnsweredTo(p, k)'
    <3>1. Reply \in Arrivals(Reply, downHit)'
      BY <2>1, <2>2 DEF Arrivals
    <3>2. Reply' \in Arrivals(Reply, downHit)' /\ 0 \in 0 .. Len(Reply)' - 1
      BY <2>2, <2>4, <3>1
    <3>3. QED
      BY <2>2, <2>5, <3>2
  <2>7. rom' = "program" => Present.type = P_JUMP
    BY <2>1 DEF Right
  <2>8. Present.type = P_SPEED /\ upHit = "none" /\ Supported(Divider(Present.data[1])) => rom' = "speed"
    BY <2>1 DEF Right
  <2>9. Answering'
    <3>1. awaiting' /\ Quiet' /\ upHit' \in HitTypes /\ downHit' \in HitTypes
      BY <1>1, <1>2, <2>1 DEF Quiet, HitTypes
    <3>2. QED
      BY <1>1, <1>5, <2>6, <2>7, <2>8, <3>1 DEF Answering
  <2>10. SameSpeed'
    BY <1>1, <1>3, <2>1 DEF SameSpeed
  <2>11. Settling'
    <3>1. SUFFICES ASSUME rom' = "speed"
                   PROVE  Settling'
      BY DEF Settling
    <3>2. Right(P_SPEED)
      BY <2>1, <3>1
    <3>3. Present.type = P_SPEED /\ rdata'[1] = Present.data[1]
      BY <2>1, <3>2 DEF Right
    <3>4. hspeed = InitSpeed /\ switched = "unknown"
      BY <1>2, <3>3 DEF Course
    <3>5. QED
      BY <1>1, <1>2, <1>5, <2>10, <3>3, <3>4 DEF Settling
  <2>12. waddr' \in Bytes
    <3>1. CASE Right(P_WRITE)
      <4>1. Present.type # P_WDATA /\ Present.type # P_WHO
        BY <3>1, Numbers DEF Right, TypeNumbers
      <4>2. Present.data[1] \in Bytes
        BY <1>2, <4>1, PresentData
      <4>3. QED
        BY <2>1, <3>1, <4>2
    <3>2. CASE ~Right(P_WRITE)
      BY <2>1, <3>2 DEF Typed
    <3>3. QED
      BY <3>1, <3>2
  <2>13. rom' \in {"rom", "speed", "program"} /\ (rom' = "program" => started')
    BY <1>1, <2>1
  <2>14. Typed'
    BY <1>1, <1>4, <1>5, <2>1, <2>12, <2>13 DEF Typed
  <2>15. QED
    BY <2>9, <2>10, <2>11, <2>14 DEF Together
<1>8. QED
  BY <1>4, <1>6, <1>7

\* A computer at another speed takes nothing for a packet.
LEMMA DeafTakes ==
  ASSUME Typed, Deaf, ComputerReceives, NoFalseStart
  PROVE  Typed' /\ Deaf'
<1>1. /\ UNCHANGED <<session, todo, try, awaiting, prx, pdata, hspeed, result, switched>>
      /\ started' = (started \/ rom' = "program") /\ rom = "rom"
  BY TakesParts
<1>2. PICK b \in Noise :
        /\ RomRx(b)
        /\ IF Complete(rrx)
           THEN handled' = mem' /\ mistaken' = (mistaken \/ Mistaken) /\ downHit' = "none"
           ELSE UNCHANGED <<handled, mistaken, downHit>>
  BY TakesParts DEF Received, Deaf
<1>3. b \in Bytes /\ b # STX
  BY <1>2, NoiseBytes DEF NoFalseStart
<1>4. rrx \in Parsers /\ rrx.type = "NONE" /\ Course /\ try \in Nat
  BY DEF Typed, Deaf, Course
<1>5. ~Complete(rrx)
  BY <1>4 DEF Complete
<1>6. RomCollect(b)
  BY <1>2, <1>5 DEF RomRx, Refuse, PPing, PWho, PSpeed, PWrite, PRead, PWdata, PJump, PCall, Accepts
<1>7. /\ rrx' = Advance(rrx, b, Limit) /\ UNCHANGED <<rdata, mem, waddr, rom, div, down>>
      /\ handled' = handled
  BY <1>2, <1>4, <1>5, <1>6 DEF RomCollect, StoreByte
<1>8. rrx' \in Parsers /\ rrx'.type = "NONE"
  <2> DEFINE lim == Limit
  <2>1. rrx' = Advance(rrx, b, lim)
    BY <1>7
  <2> HIDE DEF lim
  <2>2. QED
    BY <1>3, <1>4, <2>1, Advanced
<1>9. Course' /\ Present' = Present
  BY <1>1, <1>4, CourseSame
<1>10. Typed'
  BY <1>1, <1>7, <1>8, <1>9 DEF Typed
<1>11. Deaf'
  BY <1>1, <1>7, <1>8, <1>9 DEF Deaf, SameSpeed
<1>12. QED
  BY <1>10, <1>11

LEMMA TakesLinked ==
  ASSUME Typed, Together \/ Garbled \/ Deaf, NoFalseStart, ComputerReceives
  PROVE  Typed' /\ (Together \/ Garbled \/ Deaf)'
<1>1. up # <<>> /\ rom = "rom"
  BY TakesParts
<1>2. ~Garbled
  BY <1>1 DEF Garbled, Quiet
<1>3. Together => Asking
  BY <1>1 DEF Together, Idling, Answering, Lost, Quiet
<1>4. QED
  BY <1>2, <1>3, AskingTakes, DeafTakes

\* How much a parser has taken.
LEMMA ParsesCount ==
  ASSUME NEW p, Whole(p), NEW k \in 1 .. Len(p) - 1, NEW rx, NEW max, Parsing(rx, p, k, max)
  PROVE  /\ rx.type # "NONE" /\ (rx.type = "PHDR" => rx.len <= 1)
         /\ rx.type \in {"DATA", "NCAP"} => rx.len < rx.header.length
         /\ Consumed(rx) = k
<1>1. Len(p) \in Nat /\ Len(p) = p[3] + 4 /\ p[3] \in Nat
  BY WholeParts
<1>2. CASE k \in {1, 2}
  <2>1. rx.type = "PHDR" /\ rx.len = k - 1
    BY <1>2 DEF Parsing
  <2>2. QED
    BY <1>1, <1>2, <2>1 DEF Consumed
<1>3. CASE k >= 3 /\ k = Len(p) - 1
  <2>1. rx.type = "XSUM" /\ rx.header.length = p[3]
    BY <1>3 DEF Parsing
  <2>2. QED
    BY <1>1, <1>3, <2>1 DEF Consumed
<1>4. CASE k >= 3 /\ k # Len(p) - 1
  <2>1. rx.type \in {"DATA", "NCAP"} /\ rx.header.length = p[3] /\ rx.len = k - 3
    BY <1>4 DEF Parsing
  <2>2. k - 3 < p[3] /\ 3 + (k - 3) = k
    BY <1>1, <1>4
  <2>3. QED
    BY <2>1, <2>2 DEF Consumed
<1>5. QED
  BY <1>1, <1>2, <1>3, <1>4

\* p_speed leaves its loop, with the programmer at the new speed or not yet, or with its answer
\* still on the line.
LEMMA SetsDividerLinked ==
  ASSUME Typed, Together \/ Garbled \/ Deaf, ComputerSetsDivider
  PROVE  Typed' /\ (Together \/ Garbled \/ Deaf)'
<1>1. /\ rom = "speed" /\ div' = Divider(rdata[1]) /\ rom' = "rom"
      /\ UNCHANGED <<rrx, rdata, waddr, mem, calls, down, up>>
      /\ UNCHANGED <<session, todo, try, awaiting, prx, pdata, hspeed, result, switched>>
      /\ UNCHANGED <<upHit, downHit, handled, started>>
  BY DEF ComputerSetsDivider, SetDivider, programmer, line, history
<1>2. Course /\ try \in Nat /\ Together
  BY <1>1 DEF Typed, Course, Garbled, Deaf
<1>3. /\ result = "busy" /\ switched # "yes" /\ (try > 0 => Present.type = P_SPEED)
      /\ hspeed = InitSpeed \/ Divider(hspeed) = Divider(rdata[1])
      /\ awaiting => Present.type = P_SPEED /\ rdata[1] = Present.data[1]
  BY <1>1, <1>2 DEF Together, Settling
<1>4. Course' /\ Present' = Present
  BY <1>1, <1>2, CourseSame
<1>5. Typed'
  BY <1>1, <1>4 DEF Typed
<1>6. Settling' /\ (SameSpeed' <=> Divider(hspeed) = Divider(rdata[1]))
  BY <1>1 DEF Settling, SameSpeed
<1>7. CASE Idling
  <2>1. Idling' /\ prx'.type = "NONE" /\ rrx'.type = "NONE" /\ mem' = handled'
    BY <1>1, <1>7 DEF Idling, Quiet
  <2>2. CASE SameSpeed'
    BY <1>5, <1>6, <2>1, <2>2 DEF Together
  <2>3. CASE ~SameSpeed'
    <3>1. hspeed = InitSpeed
      BY <1>3, <1>6, <2>3
    <3>2. Deaf'
      BY <1>1, <1>3, <1>4, <2>1, <2>3, <3>1 DEF Deaf
    <3>3. QED
      BY <1>5, <3>2
  <2>4. QED
    BY <2>2, <2>3
<1>8. CASE Answering
  <2>1. /\ awaiting /\ Quiet /\ Present.type = P_SPEED /\ rdata[1] = Present.data[1]
        /\ upHit \in HitTypes /\ downHit \in HitTypes
    BY <1>3, <1>8 DEF Answering
  <2>2. Quiet' /\ rrx'.type = "NONE" /\ mem' = handled'
    BY <1>1, <2>1 DEF Quiet
  <2>3. PICK p \in Arrivals(Reply, downHit) : \E k \in 0 .. Len(Reply) - 1 : AnsweredTo(p, k)
    BY <1>8 DEF Answering
  <2>4. PICK k \in 0 .. Len(Reply) - 1 : AnsweredTo(p, k)
    BY <2>3
  <2>5. Reply' = Reply
    BY <1>1, <1>4 DEF Reply, ReplyType, ReplyData, Contents
  <2>6. AnsweredTo(p, k)'
    BY <1>1, <2>4 DEF AnsweredTo, Kept
  <2>7. CASE SameSpeed'
    <3>1. \E q \in Arrivals(Reply, downHit)' : \E j \in 0 .. Len(Reply)' - 1 : AnsweredTo(q, j)'
      <4>1. Arrivals(Reply, downHit)' = Arrivals(Reply, downHit)
        BY <1>1, <2>5 DEF Arrivals
      <4>2. p \in Arrivals(Reply, downHit)' /\ k \in 0 .. Len(Reply)' - 1
        BY <2>3, <2>5, <4>1
      <4>3. QED
        BY <2>6, <4>2
    <3>2. Answering'
      BY <1>1, <1>4, <2>1, <2>2, <3>1 DEF Answering
    <3>3. QED
      BY <1>5, <1>6, <2>7, <3>2 DEF Together
  <2>8. CASE ~SameSpeed'
    <3>1. hspeed = InitSpeed
      BY <1>2, <1>3, <2>1 DEF Course
    <3>2. /\ Whole(Reply) /\ Len(Reply) = 6 /\ SumTo(Reply, Len(Reply) - 1) = Reply[Len(Reply)]
      BY <1>3, <2>1, ReplyParts
    <3>3. Whole(p) /\ Len(p) = 6
      BY <2>1, <2>3, <3>2, Arrived
    <3>4. /\ down = Rest(p, k) /\ Parsing(prx, p, k, HostMax)
      BY <2>4 DEF AnsweredTo
    <3>5. CASE k = 0
      <4>1. prx.type = "NONE"
        BY <3>4, <3>5 DEF Parsing
      <4>2. Deaf'
        BY <1>1, <1>3, <1>4, <2>2, <2>8, <3>1, <4>1 DEF Deaf
      <4>3. QED
        BY <1>5, <4>2
    <3>6. CASE k # 0
      <4>1. k \in 1 .. Len(p) - 1 /\ k \in 0 .. Len(p)
        BY <3>2, <3>3, <3>6
      <4>2. /\ prx.type # "NONE" /\ (prx.type = "PHDR" => prx.len <= 1)
            /\ prx.type \in {"DATA", "NCAP"} => prx.len < prx.header.length
            /\ Consumed(prx) = k
        BY <3>3, <3>4, <4>1, ParsesCount
      <4>3. down \in Seq(Cells) /\ Len(down) = Len(p) - k
        BY <3>3, <3>4, <4>1, RestType
      <4>4. Consumed(prx) + Len(down) <= 6
        BY <3>3, <4>1, <4>2, <4>3
      <4>5. Garbled'
        BY <1>1, <1>4, <2>1, <2>2, <2>8, <4>2, <4>3, <4>4 DEF Garbled
      <4>6. QED
        BY <1>5, <4>5
    <3>7. QED
      BY <3>5, <3>6
  <2>9. QED
    BY <2>7, <2>8
<1>9. QED
  BY <1>1, <1>2, <1>7, <1>8 DEF Together, Asking, Lost

\* A program returns, and the computer begins anew.
LEMMA RestartsLinked ==
  ASSUME Typed, Together \/ Garbled \/ Deaf, ComputerRestarts
  PROVE  Typed' /\ (Together \/ Deaf)'
<1>1. /\ rom = "program" /\ rom' = "rom" /\ rrx' = Idle /\ rdata' = NoData(RomMax) /\ waddr' = 0
      /\ UNCHANGED <<mem, div, calls, down>> /\ up' \in {up, <<>>}
      /\ UNCHANGED <<session, todo, try, awaiting, prx, pdata, hspeed, result, switched>>
      /\ UNCHANGED <<upHit, downHit, handled, started>>
  BY DEF ComputerRestarts, Restart, programmer, line, history
<1>2. Course /\ try \in Nat /\ started
  BY <1>1 DEF Typed, Course
<1>3. Course' /\ Present' = Present
  BY <1>1, <1>2, CourseSame
<1>4. rrx' \in Parsers /\ rrx'.type = "NONE"
  BY <1>1, IdleParser
<1>5. rdata' \in [1 .. RomMax -> Bytes] /\ waddr' \in Bytes
  BY <1>1 DEF NoData, Bytes, Base
<1>6. Typed'
  BY <1>1, <1>3, <1>4, <1>5 DEF Typed
<1>7. SameSpeed' <=> SameSpeed
  BY <1>1 DEF SameSpeed
<1>8. CASE Deaf
  <2>1. Deaf'
    BY <1>1, <1>3, <1>4, <1>7, <1>8 DEF Deaf
  <2>2. QED
    BY <1>6, <2>1
<1>9. CASE Together
  <2>1. SameSpeed' /\ Settling'
    BY <1>1, <1>7, <1>9 DEF Together, Settling
  <2>2. CASE Idling
    <3>1. Idling'
      BY <1>1, <1>4, <2>2 DEF Idling, Quiet
    <3>2. QED
      BY <1>6, <2>1, <3>1 DEF Together
  <2>3. CASE Lost
    <3>1. Lost'
      BY <1>1, <1>4, <2>3 DEF Lost, Quiet
    <3>2. QED
      BY <1>6, <2>1, <3>1 DEF Together
  <2>4. CASE Answering
    <3>1. Quiet' /\ Present.type = P_JUMP
      BY <1>1, <1>4, <2>4 DEF Answering, Quiet
    <3>2. Present.type # P_SPEED
      BY <3>1, Numbers DEF TypeNumbers
    <3>3. Reply' = Reply
      BY <1>1, <1>3 DEF Reply, ReplyType, ReplyData, Contents
    <3>4. \E p \in Arrivals(Reply, downHit)' : \E k \in 0 .. Len(Reply)' - 1 : AnsweredTo(p, k)'
      BY <1>1, <2>4, <3>3 DEF Answering, AnsweredTo, Kept, Arrivals
    <3>5. Answering'
      BY <1>1, <1>3, <2>4, <3>1, <3>2, <3>4 DEF Answering
    <3>6. QED
      BY <1>6, <2>1, <3>5 DEF Together
  <2>5. CASE Asking
    <3>1. PICK p \in Arrivals(Sent, upHit) : \E k \in 0 .. Len(Sent) - 1 : AskedTo(p, k)
      BY <2>5 DEF Asking
    <3>2. AskedTo(p, 0) /\ 0 \in 0 .. Len(Sent) - 1
      BY <1>1, <3>1 DEF AskedTo
    <3>3. mem = handled /\ Read(0) = 0
      BY <3>2 DEF AskedTo, Stored, Read
    <3>4. awaiting /\ down = <<>> /\ prx.type = "NONE" /\ upHit \in HitTypes
      BY <2>5 DEF Asking
    <3>5. CASE up' = <<>>
      <4>1. Lost'
        BY <1>1, <1>2, <1>4, <3>3, <3>4, <3>5 DEF Lost, Quiet
      <4>2. QED
        BY <1>6, <2>1, <4>1 DEF Together
    <3>6. CASE up' = up
      <4>1. Parsing(rrx', p, 0, RomLimit(p))
        BY <1>4 DEF Parsing
      <4>2. Stored(p, 0)'
        BY <1>1, <3>3 DEF Stored
      <4>3. AskedTo(p, 0)'
        BY <3>2, <3>6, <4>1, <4>2 DEF AskedTo
      <4>4. Sent' = Sent
        BY <1>3 DEF Sent
      <4>5. p \in Arrivals(Sent, upHit)' /\ 0 \in 0 .. Len(Sent)' - 1
        BY <1>1, <3>1, <3>2, <4>4 DEF Arrivals
      <4>6. Asking'
        BY <1>1, <3>4, <4>3, <4>5 DEF Asking
      <4>7. QED
        BY <1>6, <2>1, <4>6 DEF Together
    <3>7. QED
      BY <1>1, <3>5, <3>6
  <2>6. QED
    BY <1>9, <2>2, <2>3, <2>4, <2>5 DEF Together
<1>10. QED
  BY <1>1, <1>8, <1>9 DEF Garbled

----------------------------------------------------------------------------
(* The line's steps.                                                       *)

LEMMA DisturbParts ==
  ASSUME Disturb, ~misframed'
  PROVE  /\ UNCHANGED <<rrx, rdata, waddr, mem, rom, div, calls>>
         /\ UNCHANGED <<session, todo, try, awaiting, prx, pdata, hspeed, result, switched>>
         /\ UNCHANGED <<handled, mistaken, started>> /\ faults' = faults + 1 /\ ~misframed
         /\ \E n \in Noise : DisturbUp(n) \/ DisturbDown(n)
         /\ upHit' # "length" /\ downHit' # "length"
BY DEF Disturb, computer, programmer

\* The part of a packet that a byte is of, if it may be disturbed unseen.
LEMMA PartHit ==
  ASSUME NEW part \in Hit[Command.name], Course, part # "length"
  PROVE  part \in HitTypes /\ part \in {"type", "data", "xsum"}
<1>1. Command.name \in Names
  BY CommandType DEF Course, Commands
<1>2. Hit[Command.name] \subseteq {"type", "length", "data", "xsum"}
  BY <1>1, LinkAssumption
<1>3. QED
  BY <1>2 DEF HitTypes

LEMMA RequestDisturbed ==
  ASSUME Typed, Asking, NEW n \in Noise, DisturbUp(n), upHit' # "length",
         UNCHANGED <<rrx, rdata, waddr, mem, rom, handled, awaiting, prx, todo>>
  PROVE  Asking'
<1>1. /\ up # <<>> /\ upHit = "none" /\ Head(up).part \in Hit[Command.name] /\ n # Head(up).b
      /\ up' = Other(up, n) /\ upHit' = Head(up).part /\ UNCHANGED <<down, downHit>>
  BY DEF DisturbUp, Open
<1>2. PICK k \in 0 .. Len(Sent) - 1 : AskedTo(Sent, k)
  BY <1>1 DEF Asking, Arrivals
<1>3. /\ awaiting /\ result = "busy" /\ down = <<>> /\ prx.type = "NONE" /\ rom # "speed"
  BY DEF Asking, Typed
<1>4. Whole(Sent) /\ Len(Sent) \in Nat
  BY <1>3, SentParts, WholeParts
<1>5. /\ up = Rest(Sent, k) /\ Parsing(rrx, Sent, k, RomLimit(Sent)) /\ Stored(Sent, k)
      /\ rom = "program" => k = 0
  BY <1>2 DEF AskedTo
<1>6. Head(up).b = Sent[k + 1] /\ Head(up).part = PartAt(Len(Sent), k + 1)
  BY <1>4, <1>5, RestParts
<1>7. upHit' \in HitTypes /\ k # 2
  <2>1. upHit' \in HitTypes
    BY <1>1, PartHit DEF Typed
  <2>2. PartAt(Len(Sent), 2 + 1) = "length"
    BY <1>4 DEF PartAt
  <2>3. QED
    BY <1>1, <1>6, <2>1, <2>2
<1>8. PICK p : p = [Sent EXCEPT ![k + 1] = n]
  OBVIOUS
<1>9. /\ p \in Arrivals(Sent, upHit') /\ up' = Rest(p, k)
      /\ \A i \in 1 .. Len(Sent) : i # k + 1 => p[i] = Sent[i]
  <2>1. n \in Bytes /\ n # Sent[k + 1] /\ PartAt(Len(Sent), k + 1) = upHit' /\ upHit' \in HitTypes
    BY <1>1, <1>6, <1>7, NoiseBytes
  <2>2. LET q == [Sent EXCEPT ![k + 1] = n] IN
        /\ q \in Arrivals(Sent, PartAt(Len(Sent), k + 1))
        /\ Other(Rest(Sent, k), n) = Rest(q, k)
        /\ \A i \in 1 .. Len(Sent) : i # k + 1 => q[i] = Sent[i]
    <3>1. PartAt(Len(Sent), k + 1) \in HitTypes /\ k \in 0 .. Len(Sent) - 1
      BY <2>1
    <3>2. QED
      BY <1>4, <2>1, <3>1, Disturbed
  <2>3. QED
    BY <1>1, <1>5, <1>8, <2>1, <2>2
<1>10. Len(p) = Len(Sent)
  BY <1>4, <1>8 DEF Whole
<1>11. k # 1 => p[2] = Sent[2]
  BY <1>4, <1>9, WholeParts
<1>12. p[3] = Sent[3]
  BY <1>4, <1>7, <1>9, WholeParts
<1>13. Parsing(rrx, p, k, RomLimit(p))
  <2> DEFINE max == RomLimit(Sent)
             new == RomLimit(p)
  <2>1. k # 1 => new = max
    BY <1>11 DEF RomLimit
  <2>2. Parsing(rrx, Sent, k, max)
    BY <1>5
  <2> HIDE DEF max, new
  <2>3. Parsing(rrx, p, k, max)
    BY <1>4, <1>7, <1>9, <1>10, <2>2, ParsesPrefix
  <2>4. Parsing(rrx, p, k, new)
    BY <2>1, <2>3 DEF Parsing
  <2>5. QED
    BY <2>4 DEF new
<1>14. Stored(p, k)
  <2>1. CASE k < 3
    <3>1. ~(k >= 3) /\ Read(k) = 0
      BY <2>1 DEF Read
    <3>2. mem = handled
      BY <1>5, <3>1 DEF Stored
    <3>3. QED
      BY <3>1, <3>2 DEF Stored
  <2>2. CASE k >= 3
    <3>1. Read(k) = k - 3 /\ Read(k) \in Nat
      BY <2>2 DEF Read
    <3>2. \A i \in 1 .. Read(k) : p[3 + i] = Sent[3 + i]
      BY <1>4, <1>9, <2>2, <3>1
    <3>3. p[2] = Sent[2]
      BY <1>11, <2>2
    <3>4. Overlaid(p, Read(k)) = Overlaid(Sent, Read(k))
      <4>1. waddr \in Nat /\ Ram \subseteq Nat
        BY ByteNumber, Constants DEF Typed
      <4>2. ASSUME NEW a \in Ram, a \in waddr .. waddr + Read(k) - 1
            PROVE  p[4 + a - waddr] = Sent[4 + a - waddr]
        <5> DEFINE i == 1 + a - waddr
        <5>1. i \in 1 .. Read(k) /\ 3 + i = 4 + a - waddr
          BY <3>1, <4>1, <4>2
        <5>2. QED
          BY <3>2, <5>1
      <4>3. QED
        BY <4>2 DEF Overlaid
    <3>5. QED
      BY <1>5, <1>12, <3>2, <3>3, <3>4 DEF Stored
  <2>3. QED
    BY <2>1, <2>2
<1>15. AskedTo(p, k)'
  <2>1. Stored(p, k)'
    BY <1>14 DEF Stored, Overlaid
  <2>2. QED
    BY <1>5, <1>9, <1>13, <2>1 DEF AskedTo
<1>16. Sent' = Sent
  BY DEF Sent, Present
<1>17. p \in Arrivals(Sent, upHit)' /\ k \in 0 .. Len(Sent)' - 1
  BY <1>2, <1>9, <1>16 DEF Arrivals
<1>18. awaiting' /\ down' = <<>> /\ prx'.type = "NONE" /\ rom' # "speed" /\ upHit' \in HitTypes
  BY <1>1, <1>3, <1>7
<1>19. QED
  BY <1>15, <1>17, <1>18 DEF Asking

LEMMA AnswerDisturbed ==
  ASSUME Typed, Answering, NEW n \in Noise, DisturbDown(n), downHit' # "length",
         UNCHANGED <<rrx, mem, rom, div, handled, awaiting, prx, pdata, todo>>
  PROVE  Answering'
<1>1. /\ down # <<>> /\ downHit = "none" /\ Head(down).part \in Hit[Command.name] /\ n # Head(down).b
      /\ down' = Other(down, n) /\ downHit' = Head(down).part /\ UNCHANGED <<up, upHit>>
  BY DEF DisturbDown, Open
<1>2. PICK k \in 0 .. Len(Reply) - 1 : AnsweredTo(Reply, k)
  BY <1>1 DEF Answering, Arrivals
<1>3. result = "busy"
  BY DEF Answering, Typed
<1>4. Whole(Reply) /\ Len(Reply) \in Nat
  BY <1>3, ReplyParts, WholeParts
<1>5. down = Rest(Reply, k) /\ Parsing(prx, Reply, k, HostMax) /\ Kept(Reply, k)
  BY <1>2 DEF AnsweredTo
<1>6. Head(down).b = Reply[k + 1] /\ Head(down).part = PartAt(Len(Reply), k + 1)
  BY <1>4, <1>5, RestParts
<1>7. downHit' \in HitTypes /\ k # 2
  <2>1. downHit' \in HitTypes
    BY <1>1, PartHit DEF Typed
  <2>2. PartAt(Len(Reply), 2 + 1) = "length"
    BY <1>4 DEF PartAt
  <2>3. QED
    BY <1>1, <1>6, <2>1, <2>2
<1>8. PICK p : p = [Reply EXCEPT ![k + 1] = n]
  OBVIOUS
<1>9. /\ p \in Arrivals(Reply, downHit') /\ down' = Rest(p, k)
      /\ \A i \in 1 .. Len(Reply) : i # k + 1 => p[i] = Reply[i]
  <2>1. n \in Bytes /\ n # Reply[k + 1] /\ PartAt(Len(Reply), k + 1) = downHit' /\ downHit' \in HitTypes
    BY <1>1, <1>6, <1>7, NoiseBytes
  <2>2. LET q == [Reply EXCEPT ![k + 1] = n] IN
        /\ q \in Arrivals(Reply, PartAt(Len(Reply), k + 1))
        /\ Other(Rest(Reply, k), n) = Rest(q, k)
        /\ \A i \in 1 .. Len(Reply) : i # k + 1 => q[i] = Reply[i]
    <3>1. PartAt(Len(Reply), k + 1) \in HitTypes /\ k \in 0 .. Len(Reply) - 1
      BY <2>1
    <3>2. QED
      BY <1>4, <2>1, <3>1, Disturbed
  <2>3. QED
    BY <1>1, <1>5, <1>8, <2>1, <2>2
<1>10. Len(p) = Len(Reply)
  BY <1>4, <1>8 DEF Whole
<1>11. p[3] = Reply[3]
  BY <1>4, <1>7, <1>9, WholeParts
<1>12. Parsing(prx, p, k, HostMax)
  BY <1>4, <1>5, <1>7, <1>9, <1>10, ParsesPrefix
<1>13. Kept(p, k)
  <2>1. \A i \in 1 .. Read(k) : p[3 + i] = Reply[3 + i]
    BY <1>4, <1>9 DEF Read
  <2>2. QED
    BY <1>5, <1>11, <2>1 DEF Kept
<1>14. AnsweredTo(p, k)'
  BY <1>9, <1>12, <1>13 DEF AnsweredTo, Kept
<1>15. Reply' = Reply /\ Present' = Present
  BY <1>1 DEF Reply, ReplyType, ReplyData, Contents, Present
<1>16. p \in Arrivals(Reply, downHit)' /\ k \in 0 .. Len(Reply)' - 1
  BY <1>2, <1>9, <1>15 DEF Arrivals
<1>17. awaiting' /\ Quiet' /\ upHit' \in HitTypes
  BY <1>1 DEF Answering, Quiet
<1>18. /\ rom' = "program" => Present'.type = P_JUMP
       /\ Present'.type = P_SPEED /\ upHit' = "none" /\ Supported(Divider(Present'.data[1])) =>
            rom' = "speed" \/ div' = Divider(Present'.data[1])
  BY <1>1, <1>15 DEF Answering
<1>19. QED
  BY <1>7, <1>14, <1>16, <1>17, <1>18 DEF Answering

LEMMA OtherCells ==
  ASSUME NEW s \in Seq(Cells), s # <<>>, NEW n \in Bytes
  PROVE  Other(s, n) \in Seq(Cells) /\ Len(Other(s, n)) = Len(s)
<1> DEFINE c == [Head(s) EXCEPT !.b = n]
           t == Tail(s)
<1>1. c \in Cells
  <2>1. Head(s) \in Cells
    BY HeadTailProperties
  <2>2. QED
    BY <2>1 DEF Cells
<1>2. t \in Seq(Cells) /\ Len(t) = Len(s) - 1 /\ Len(s) \in Nat
  BY HeadTailProperties
<1> HIDE DEF c, t
<1>3. <<c>> \in Seq(Cells) /\ Len(<<c>>) = 1
  BY <1>1
<1>4. <<c>> \o t \in Seq(Cells) /\ Len(<<c>> \o t) = 1 + Len(t)
  BY <1>2, <1>3, ConcatProperties
<1>5. QED
  BY <1>2, <1>4 DEF Other, c, t

LEMMA DisturbLinked ==
  ASSUME Typed, Together \/ Garbled \/ Deaf, Disturb, ~misframed'
  PROVE  Typed' /\ (Together \/ Garbled \/ Deaf)'
<1>1. /\ UNCHANGED <<rrx, rdata, waddr, mem, rom, div, calls>>
      /\ UNCHANGED <<session, todo, try, awaiting, prx, pdata, hspeed, result, switched>>
      /\ UNCHANGED <<handled, mistaken, started>>
      /\ upHit' # "length" /\ downHit' # "length"
  BY DisturbParts
<1>2. PICK n \in Noise : DisturbUp(n) \/ DisturbDown(n)
  BY DisturbParts
<1>3. Course /\ try \in Nat
  BY DEF Typed, Course
<1>4. Course' /\ Present' = Present
  BY <1>1, <1>3, CourseSame
<1>5. Typed'
  BY <1>1, <1>4 DEF Typed
<1>6. SameSpeed' <=> SameSpeed
  BY <1>1 DEF SameSpeed
<1>7. CASE Deaf
  BY <1>1, <1>4, <1>5, <1>6, <1>7 DEF Deaf
<1>8. CASE Garbled
  <2>1. DisturbDown(n) /\ down # <<>>
    BY <1>2, <1>8 DEF Garbled, Quiet, DisturbUp, DisturbDown, Open
  <2>2. down' = Other(down, n) /\ up' = up
    BY <2>1 DEF DisturbDown
  <2>3. down' \in Seq(Cells) /\ Len(down') = Len(down)
    BY <1>8, <2>1, <2>2, NoiseBytes, OtherCells DEF Garbled
  <2>4. Quiet'
    BY <1>1, <1>8, <2>2 DEF Garbled, Quiet
  <2>5. Garbled'
    BY <1>1, <1>4, <1>6, <1>8, <2>3, <2>4 DEF Garbled
  <2>6. QED
    BY <1>5, <2>5
<1>9. CASE Together
  <2>1. (rom' = "speed" \/ SameSpeed') /\ Settling'
    BY <1>1, <1>4, <1>6, <1>9 DEF Together, Settling
  <2>2. CASE DisturbUp(n)
    <3>1. Asking
      BY <1>9, <2>2 DEF Together, Idling, Answering, Lost, Quiet, DisturbUp, Open
    <3>2. Asking'
      BY <1>1, <2>2, <3>1, RequestDisturbed
    <3>3. QED
      BY <1>5, <2>1, <3>2 DEF Together
  <2>3. CASE DisturbDown(n)
    <3>1. Answering
      BY <1>9, <2>3 DEF Together, Idling, Asking, Lost, DisturbDown, Open
    <3>2. Answering'
      BY <1>1, <2>3, <3>1, AnswerDisturbed
    <3>3. QED
      BY <1>5, <2>1, <3>2 DEF Together
  <2>4. QED
    BY <1>2, <2>2, <2>3
<1>10. QED
  BY <1>7, <1>8, <1>9

LEMMA UnrecognisedLinked ==
  ASSUME Typed, Together \/ Garbled \/ Deaf, Unrecognised
  PROVE  Typed' /\ (Garbled \/ Deaf)'
<1>1. /\ ~SameSpeed
      /\ \/ up # <<>> /\ up' = Tail(up) /\ UNCHANGED down
         \/ down # <<>> /\ down' = Tail(down) /\ UNCHANGED up
      /\ UNCHANGED <<rrx, rdata, waddr, mem, rom, div, calls>>
      /\ UNCHANGED <<session, todo, try, awaiting, prx, pdata, hspeed, result, switched>>
      /\ UNCHANGED <<handled, mistaken, started>>
  BY DEF Unrecognised, computer, programmer, line, history
<1>2. Course /\ try \in Nat
  BY DEF Typed, Course
<1>3. Course' /\ Present' = Present
  BY <1>1, <1>2, CourseSame
<1>4. Typed'
  BY <1>1, <1>3 DEF Typed
<1>5. ~SameSpeed'
  BY <1>1 DEF SameSpeed
<1>6. ~Together
  BY <1>1 DEF Together, Settling, Idling, Asking, Answering, Lost, Quiet
<1>7. CASE Deaf
  BY <1>1, <1>3, <1>4, <1>5, <1>7 DEF Deaf
<1>8. CASE Garbled
  <2>1. down # <<>> /\ down' = Tail(down) /\ up' = up /\ down \in Seq(Cells)
    BY <1>1, <1>8 DEF Garbled, Quiet
  <2>2. down' \in Seq(Cells) /\ Len(down') = Len(down) - 1 /\ Len(down) \in Nat
    BY <2>1, HeadTailProperties
  <2>3. Consumed(prx) \in Nat
    <3>1. prx.len \in Nat /\ prx.header.length \in Bytes
      BY DEF Typed, Parsers
    <3>2. QED
      BY <3>1, ByteNumber DEF Consumed
  <2>4. Consumed(prx) + Len(down) <= 6
    BY <1>8 DEF Garbled
  <2>5. Consumed(prx) + Len(down') <= 6
    BY <2>2, <2>3, <2>4
  <2>6. Quiet'
    BY <1>1, <1>8, <2>1 DEF Garbled, Quiet
  <2>7. Garbled'
    BY <1>1, <1>3, <1>5, <1>8, <2>2, <2>5, <2>6 DEF Garbled
  <2>8. QED
    BY <1>4, <2>7
<1>9. QED
  BY <1>6, <1>7, <1>8

----------------------------------------------------------------------------
(* The phases of the link.                                                 *)

LEMMA LinkInit == Init => LinkInv
BY Starting DEF LinkInv

\* What frames a packet never comes right again.
LEMMA MisframedStays ==
  ASSUME [Next]_vars
  PROVE  misframed => misframed'
<1>1. CASE Programmer
  BY <1>1 DEF Programmer, ProgrammerSends, ProgrammerGivesUp, ProgrammerStarts, ProgrammerReceives, history
<1>2. CASE Computer
  BY <1>2 DEF Computer, ComputerReceives, ComputerSetsDivider, ComputerRestarts, history
<1>3. CASE Disturb \/ Unrecognised
  BY <1>3 DEF Disturb, Unrecognised, history
<1>4. CASE UNCHANGED vars
  BY <1>4 DEF vars, history
<1>5. QED
  BY <1>1, <1>2, <1>3, <1>4 DEF Next

LEMMA LinkStutter ==
  ASSUME Typed, Together \/ Garbled \/ Deaf, UNCHANGED vars
  PROVE  Typed' /\ (Together \/ Garbled \/ Deaf)'
<1>1. /\ UNCHANGED <<rrx, rdata, waddr, mem, rom, div, calls, up, down>>
      /\ UNCHANGED <<session, todo, try, awaiting, prx, pdata, hspeed, result, switched>>
      /\ UNCHANGED <<upHit, downHit, handled, started>>
  BY DEF vars, computer, programmer, line, history
<1>2. Course' /\ Present' = Present
  BY <1>1, CourseSame DEF Typed, Course
<1>3. Typed'
  BY <1>1, <1>2 DEF Typed
<1>4. SameSpeed' <=> SameSpeed
  BY <1>1 DEF SameSpeed
<1>5. CASE Garbled
  BY <1>1, <1>2, <1>3, <1>4, <1>5 DEF Garbled, Quiet
<1>6. CASE Deaf
  BY <1>1, <1>2, <1>3, <1>4, <1>6 DEF Deaf
<1>7. CASE Together
  <2>1. Settling' /\ (rom' = "speed" \/ SameSpeed') /\ (Quiet' <=> Quiet)
    BY <1>1, <1>2, <1>4, <1>7 DEF Together, Settling, Quiet
  <2>2. Sent' = Sent /\ Reply' = Reply
    BY <1>1, <1>2 DEF Sent, Reply, ReplyType, ReplyData, Contents
  <2>3. Asking => Asking'
    BY <1>1, <2>2 DEF Asking, AskedTo, Stored, Overlaid, Arrivals
  <2>4. Answering => Answering'
    BY <1>1, <1>2, <2>1, <2>2 DEF Answering, AnsweredTo, Kept, Arrivals
  <2>5. (Idling => Idling') /\ (Lost => Lost')
    BY <1>1, <2>1 DEF Idling, Lost
  <2>6. Together'
    BY <1>7, <2>1, <2>3, <2>4, <2>5 DEF Together
  <2>7. QED
    BY <1>3, <2>6
<1>8. QED
  BY <1>5, <1>6, <1>7

LEMMA LinkStep ==
  ASSUME NoFalseStart, LinkInv, [Next]_vars
  PROVE  LinkInv'
<1>1. SUFFICES ASSUME ~misframed'
               PROVE  Typed' /\ (Together \/ Garbled \/ Deaf)'
  BY DEF LinkInv
<1>2. Typed /\ (Together \/ Garbled \/ Deaf)
  BY <1>1, MisframedStays DEF LinkInv
<1>3. CASE ProgrammerSends
  BY <1>2, <1>3, SendsLinked
<1>4. CASE ProgrammerGivesUp
  BY <1>2, <1>4, GivesUpLinked
<1>5. CASE ProgrammerStarts
  BY <1>2, <1>5, StartsLinked
<1>6. CASE ProgrammerReceives
  BY <1>2, <1>6, ReceivesLinked
<1>7. CASE ComputerReceives
  BY <1>2, <1>7, TakesLinked
<1>8. CASE ComputerSetsDivider
  BY <1>2, <1>8, SetsDividerLinked
<1>9. CASE ComputerRestarts
  BY <1>2, <1>9, RestartsLinked
<1>10. CASE Disturb
  BY <1>1, <1>2, <1>10, DisturbLinked
<1>11. CASE Unrecognised
  BY <1>2, <1>11, UnrecognisedLinked
<1>12. CASE UNCHANGED vars
  BY <1>2, <1>12, LinkStutter
<1>13. QED
  BY <1>3, <1>4, <1>5, <1>6, <1>7, <1>8, <1>9, <1>10, <1>11, <1>12 DEF Next, Programmer, Computer

\* Whatever sizes, speeds and sessions there are and however often the line disturbs: as long as
\* what frames a packet arrives, programmer and computer are in one of the phases of a request
\* and its answer together, or have different speeds and understand nothing of one another.
THEOREM LinkInvariant == NoFalseStart => (Spec => []LinkInv)
<1> SUFFICES ASSUME NoFalseStart
             PROVE  Spec => []LinkInv
  OBVIOUS
<1>1. LinkInv /\ [Next]_vars => LinkInv'
  BY LinkStep
<1>2. QED
  BY <1>1, LinkInit, PTL DEF Spec

LEMMA HangsLemma == LinkInv => HangsOnlyAlone
<1> SUFFICES ASSUME LinkInv, Hung, ~started, SameSpeed, ~misframed
             PROVE  FALSE
  BY DEF HangsOnlyAlone
<1>1. Typed /\ Together /\ awaiting /\ down = <<>>
  BY DEF LinkInv, Garbled, Deaf, Hung
<1>2. rom # "program" /\ result = "busy"
  BY <1>1 DEF Typed
<1>3. ~Idling /\ ~Lost
  BY <1>1 DEF Idling, Lost
<1>4. ASSUME Answering
      PROVE  FALSE
  <2>1. PICK p \in Arrivals(Reply, downHit) : \E k \in 0 .. Len(Reply) - 1 : AnsweredTo(p, k)
    BY <1>4 DEF Answering
  <2>2. PICK k \in 0 .. Len(Reply) - 1 : AnsweredTo(p, k)
    BY <2>1
  <2>3. Whole(Reply) /\ SumTo(Reply, Len(Reply) - 1) = Reply[Len(Reply)] /\ downHit \in HitTypes
    BY <1>1, <1>2, <1>4, ReplyParts DEF Answering
  <2>4. Whole(p) /\ k \in 0 .. Len(p) - 1
    BY <2>1, <2>2, <2>3, Arrived
  <2>5. down # <<>>
    BY <2>2, <2>4, RestParts DEF AnsweredTo
  <2>6. QED
    BY <1>1, <2>5
<1>5. ASSUME Asking
      PROVE  FALSE
  <2>1. PICK p \in Arrivals(Sent, upHit) : \E k \in 0 .. Len(Sent) - 1 : AskedTo(p, k)
    BY <1>5 DEF Asking
  <2>2. PICK k \in 0 .. Len(Sent) - 1 : AskedTo(p, k)
    BY <2>1
  <2>3. Whole(Sent) /\ SumTo(Sent, Len(Sent) - 1) = Sent[Len(Sent)] /\ upHit \in HitTypes
    BY <1>1, <1>2, <1>5, SentParts DEF Asking
  <2>4. Whole(p) /\ k \in 0 .. Len(p) - 1
    BY <2>1, <2>2, <2>3, Arrived
  <2>5. up # <<>>
    BY <2>2, <2>4, RestParts DEF AskedTo
  <2>6. rom = "rom"
    BY <1>1, <1>2, <1>5 DEF Typed, Asking
  <2>7. QED
    BY <2>5, <2>6 DEF Hung
<1>6. QED
  BY <1>1, <1>3, <1>4, <1>5 DEF Together

\* The programmer waits for ever only for a computer that has been told to start a program, or
\* has another speed, or after what frames a packet has been disturbed.
THEOREM HangsAlone == NoFalseStart => (Spec => []HangsOnlyAlone)
<1> SUFFICES ASSUME NoFalseStart
             PROVE  Spec => []HangsOnlyAlone
  OBVIOUS
<1>1. QED
  BY LinkInvariant, HangsLemma, PTL

LEMMA SpeedsLemma == LinkInv => misframed \/ SpeedsAgree
<1> SUFFICES ASSUME LinkInv, ~misframed, switched = "yes"
             PROVE  SameSpeed /\ hspeed = Command.speed
  BY DEF SpeedsAgree
<1>1. Course /\ (awaiting => result = "busy") /\ (Together \/ Garbled \/ Deaf)
  BY DEF LinkInv, Typed
<1>2. ~Garbled /\ ~Deaf
  BY <1>1 DEF Garbled, Deaf, Course
<1>3. SameSpeed
  BY <1>1, <1>2 DEF Together, Settling
<1>4. QED
  BY <1>1, <1>3 DEF Course

\* As long as what frames a packet arrives, both sides have the speed of the command once
\* f_change_speed has returned true.
THEOREM SpeedsAlwaysAgree == NoFalseStart => (Spec => [](misframed \/ SpeedsAgree))
<1> SUFFICES ASSUME NoFalseStart
             PROVE  Spec => [](misframed \/ SpeedsAgree)
  OBVIOUS
<1>1. QED
  BY LinkInvariant, SpeedsLemma, PTL

----------------------------------------------------------------------------
(* What a step is to the commands.                                         *)

\* Requests that an acknowledgement answers.
Acknowledged == {P_WRITE, P_WDATA, P_JUMP, P_CALL}
\* What was sent has been carried out, and the answer is on the line.
Replied == SameSpeed /\ awaiting /\ down # <<>> /\ upHit = "none"
\* The present try is in vain.
Hurt == awaiting /\ (upHit # "none" \/ (down # <<>> /\ downHit # "none"))

Still == UNCHANGED <<session, mem, handled, calls, mistaken, waddr, rom, faults, upHit, downHit>>

\* A new command.
Begun ==
  /\ result # "busy" /\ Len(session) > 1 /\ session' = Tail(session)
  /\ todo' = Steps' /\ todo' # <<>> /\ try' = 0 /\ result' = "busy" /\ ~awaiting'
  /\ faults' = 0 /\ upHit' = "none" /\ downHit' = "none"
  /\ UNCHANGED <<handled, mem, calls, mistaken, waddr, rom>>
\* A request succeeds.
Passed ==
  /\ result = "busy" /\ awaiting /\ Success /\ ~awaiting' /\ Still /\ pdata' = pdata
  /\ Present.type # P_SPEED =>
       /\ Replied /\ rom # "speed" /\ (Present.type # P_JUMP => rom # "program")
       /\ Len(ReplyData) <= HostMax /\ \A i \in 1 .. Len(ReplyData) : pdata[i] = ReplyData[i]
\* It fails, an acknowledged one only after all its tries.
Missed ==
  /\ result = "busy" /\ Failure /\ ~awaiting' /\ Still
  /\ Present.type \in Acknowledged => ~awaiting /\ try > RetryCount
\* It is to be tried again, an acknowledged one only if it or its answer was disturbed.
Retried ==
  /\ result = "busy" /\ try' = try + 1 /\ UNCHANGED <<todo, result>> /\ ~awaiting' /\ Still
  /\ Present.type \in Acknowledged => Hurt
\* The computer carries out a packet.
Executed ==
  /\ result = "busy" /\ awaiting /\ down = <<>> /\ rom = "rom" /\ SameSpeed /\ CarriedOut
  /\ UNCHANGED <<session, todo, try, awaiting, result, faults, upHit>> /\ SameSpeed'
\* Nothing of this.
Calm ==
  /\ UNCHANGED <<session, todo, try, result, calls, handled, mistaken>>
  /\ result # "busy" => UNCHANGED <<mem, pdata>>
  /\ rom = "rom" => UNCHANGED <<waddr, rom>>
  /\ Present.type # P_SPEED => (Replied' <=> Replied)
  /\ faults' \in {faults, faults + 1}
  /\ Hurt' => faults' = faults + 1 \/ Hurt \/ (Deaf /\ faults' = faults /\ (upHit # "none" \/ downHit # "none"))
  /\ (upHit' # "none" \/ downHit' # "none") => (upHit # "none" \/ downHit # "none") \/ faults' = faults + 1

LEMMA AcknowledgedReply ==
  ASSUME Typed, result = "busy", Present.type \in Acknowledged
  PROVE  ReplyType = P_ACK /\ Len(ReplyData) = 2
<1>1. Present.type \notin {P_PING, P_WHO, P_READ, P_SPEED}
  BY Numbers DEF Acknowledged, TypeNumbers
<1>2. ReplyType = P_ACK
  BY <1>1 DEF ReplyType
<1>3. QED
  BY <1>2, AckReply

LEMMA PassedOrMissed ==
  ASSUME Typed, Together, Answering, SameSpeed, ProgrammerReceives, Answered
  PROVE  Passed \/ Missed
<1>1. /\ awaiting /\ down # <<>> /\ Still
  BY ReceivesParts DEF Still
<1>2. result = "busy" /\ ~awaiting' /\ pdata' = pdata
  BY <1>1 DEF Answered, AnswerTaken, Typed
<1>3. upHit = "none" /\ Len(ReplyData) <= HostMax /\ (\A i \in 1 .. Len(ReplyData) : pdata[i] = ReplyData[i])
      /\ prx.header.type = ReplyType /\ prx.header.length = Len(ReplyData)
      /\ IF Succeeds THEN Success ELSE Failure
  BY DEF Answered
<1>4. CASE Succeeds
  <2>1. Present.type # P_SPEED => rom # "speed"
    BY <1>1 DEF Together, Settling
  <2>2. Present.type # P_JUMP => rom # "program"
    BY DEF Answering
  <2>3. Passed
    BY <1>1, <1>2, <1>3, <1>4, <2>1, <2>2 DEF Passed, Replied
  <2>4. QED
    BY <2>3
<1>5. CASE ~Succeeds
  <2>1. ASSUME Present.type \in Acknowledged
        PROVE  FALSE
    <3>1. ReplyType = P_ACK /\ Len(ReplyData) = 2
      BY <1>2, <2>1, AcknowledgedReply
    <3>2. Present.type \notin {P_PING, P_WHO, P_READ, P_SPEED}
      BY <2>1, Numbers DEF Acknowledged, TypeNumbers
    <3>3. ReplyData[1] = A_ACK
      BY <1>2, <1>3, <3>1, <3>2, AckReply
    <3>4. pdata[1] = A_ACK
      BY <1>3, <3>1, <3>3
    <3>5. Succeeds
      BY <1>3, <3>1, <3>2, <3>4 DEF Succeeds, ExpectAck, AckSize
    <3>6. QED
      BY <1>5, <3>5
  <2>2. QED
    BY <1>1, <1>2, <1>3, <1>5, <2>1 DEF Missed
<1>6. QED
  BY <1>4, <1>5

LEMMA ReceivesKind ==
  ASSUME Typed, Together \/ Garbled \/ Deaf, ProgrammerReceives, NoFalseStart
  PROVE  Passed \/ Missed \/ Retried \/ Calm
<1>1. /\ down # <<>> /\ awaiting /\ down' = Tail(down) /\ Still /\ result = "busy" /\ try \in Nat
      /\ UNCHANGED <<up, rrx, rdata, waddr, mem, rom, div, calls>>
  BY ReceivesParts DEF Still, Typed, Course
<1>2. P_SPEED \notin Acknowledged
  BY Numbers DEF Acknowledged, TypeNumbers
<1>3. ASSUME UNCHANGED <<todo, try, awaiting, hspeed, result>>, ~SameSpeed \/ down' # <<>>
      PROVE  Calm
  <2>1. SameSpeed' <=> SameSpeed
    BY <1>1, <1>3 DEF SameSpeed
  <2>2. Replied' <=> Replied
    BY <1>1, <1>3, <2>1 DEF Replied, Still
  <2>3. Hurt' => Hurt
    BY <1>1, <1>3 DEF Hurt, Still
  <2>4. QED
    BY <1>1, <1>3, <2>2, <2>3 DEF Calm, Still
<1>4. CASE Deaf
  <2>1. PICK b \in Noise : HostRx(b)
    BY <1>4, ReceivesParts DEF Received, Deaf
  <2>2. HostCollect(b)
    BY <1>4, <2>1 DEF Deaf, HostRx, HostAnswer, Complete
  <2>3. QED
    BY <1>3, <1>4, <2>2 DEF HostCollect, Deaf
<1>5. CASE Garbled
  <2>1. PICK b \in Noise : HostRx(b)
    BY <1>5, ReceivesParts DEF Received, Garbled
  <2>2. Present.type = P_SPEED
    BY <1>5 DEF Garbled
  <2>3. CASE HostCollect(b)
    BY <1>3, <1>5, <2>3 DEF HostCollect, Garbled
  <2>4. CASE HostAnswer(b)
    <3>1. /\ awaiting' = FALSE /\ pdata' = pdata
          /\ IF Again(b) THEN try' = try + 1 /\ UNCHANGED <<todo, hspeed, result, switched>>
             ELSE IF Succeeds THEN Success ELSE Failure
      BY <2>4 DEF HostAnswer
    <3>2. CASE Again(b)
      BY <1>1, <1>2, <2>2, <3>1, <3>2 DEF Retried
    <3>3. CASE ~Again(b) /\ Succeeds
      BY <1>1, <2>2, <3>1, <3>3 DEF Passed
    <3>4. CASE ~Again(b) /\ ~Succeeds
      BY <1>1, <1>2, <2>2, <3>1, <3>4 DEF Missed
    <3>5. QED
      BY <3>2, <3>3, <3>4
  <2>5. QED
    BY <2>1, <2>3, <2>4 DEF HostRx
<1>6. CASE Together
  <2>1. Answering
    BY <1>1, <1>6 DEF Together, Idling, Asking, Lost
  <2>2. SameSpeed
    BY <1>1, <1>6 DEF Together, Settling
  <2>3. More \/ Repeated \/ Answered
    BY <2>1, <2>2, AnswerArrives
  <2>4. CASE More
    <3>1. PICK p \in Arrivals(Reply, downHit) : \E k \in 0 .. Len(Reply) - 1 : AnsweredTo(p, k)'
      BY <2>4 DEF More
    <3>2. PICK k \in 0 .. Len(Reply) - 1 : AnsweredTo(p, k)'
      BY <3>1
    <3>3. Whole(Reply) /\ SumTo(Reply, Len(Reply) - 1) = Reply[Len(Reply)] /\ downHit \in HitTypes
      BY <1>1, <2>1, ReplyParts DEF Answering
    <3>4. Whole(p) /\ k \in 0 .. Len(p) - 1
      BY <3>1, <3>2, <3>3, Arrived
    <3>5. down' # <<>>
      BY <3>2, <3>4, RestParts DEF AnsweredTo
    <3>6. QED
      BY <1>3, <2>4, <3>5 DEF More
  <2>5. CASE Answered
    BY <1>6, <2>1, <2>2, <2>5, PassedOrMissed
  <2>6. CASE Repeated
    <3>1. /\ AnswerTaken /\ try' = try + 1 /\ UNCHANGED <<todo, hspeed, result, switched>>
          /\ upHit # "none" \/ downHit # "none" \/ Len(ReplyData) > HostMax
      BY <2>6 DEF Repeated
    <3>2. ASSUME Present.type \in Acknowledged
          PROVE  Hurt
      <4>1. Len(ReplyData) = 2
        BY <1>1, <3>2, AcknowledgedReply
      <4>2. ~(Len(ReplyData) > HostMax)
        BY <4>1, Constants
      <4>3. QED
        BY <1>1, <3>1, <4>2 DEF Hurt
    <3>3. QED
      BY <1>1, <3>1, <3>2 DEF Retried, AnswerTaken
  <2>7. QED
    BY <2>3, <2>4, <2>5, <2>6
<1>7. QED
  BY <1>4, <1>5, <1>6

LEMMA SendsKind ==
  ASSUME Typed, Together \/ Garbled \/ Deaf, ProgrammerSends
  PROVE  Calm
<1>1. /\ result = "busy" /\ ~awaiting /\ upHit' = "none"
      /\ UNCHANGED <<session, todo, try, hspeed, result, down, downHit, faults>>
      /\ UNCHANGED <<waddr, mem, rom, div, calls, handled, mistaken>>
  BY DEF ProgrammerSends, SendRequest, computer, history
<1>2. SameSpeed' <=> SameSpeed
  BY <1>1 DEF SameSpeed
<1>3. Deaf \/ (Together /\ down = <<>>)
  BY <1>1 DEF Garbled, Together, Idling, Asking, Answering, Lost
<1>4. ~Replied' /\ ~Replied
  BY <1>1, <1>2, <1>3 DEF Replied, Deaf
<1>5. Hurt' => Deaf /\ downHit # "none"
  BY <1>1, <1>3 DEF Hurt
<1>6. QED
  BY <1>1, <1>4, <1>5 DEF Calm

LEMMA GivesUpKind ==
  ASSUME ProgrammerGivesUp
  PROVE  Missed
BY DEF ProgrammerGivesUp, GiveUpRequest, NoTriesLeft, Missed, Still, computer, line, history

LEMMA StartsKind ==
  ASSUME Typed, Together \/ Garbled \/ Deaf, ProgrammerStarts
  PROVE  Begun
<1>1. /\ result # "busy" /\ Len(session) > 1 /\ session' = Tail(session)
      /\ todo' = Begin(Head(session')).todo
      /\ try' = 0 /\ awaiting' = FALSE /\ result' = "busy"
      /\ faults' = 0 /\ upHit' = "none" /\ downHit' = "none"
      /\ UNCHANGED <<handled, mem, calls, mistaken, waddr, rom>>
  BY DEF ProgrammerStarts, NextCommand, computer, history
<1>2. todo' = Steps'
  BY <1>1 DEF Steps, Command
<1>3. todo' # <<>>
  <2>1. Course'
    BY StartsLinked DEF Typed
  <2>2. QED
    BY <1>1, <2>1 DEF Course
<1>4. QED
  BY <1>1, <1>2, <1>3 DEF Begun

LEMMA TakesKind ==
  ASSUME Typed, Together \/ Garbled \/ Deaf, ComputerReceives, NoFalseStart
  PROVE  Executed \/ Calm
<1>1. /\ UNCHANGED <<session, todo, try, awaiting, prx, pdata, hspeed, result, switched>>
      /\ UNCHANGED <<faults, upHit>> /\ rom = "rom" /\ up # <<>>
  BY TakesParts
<1>2. CASE Deaf
  <2>1. PICK b \in Noise :
          /\ RomRx(b)
          /\ IF Complete(rrx)
             THEN handled' = mem' /\ mistaken' = (mistaken \/ Mistaken) /\ downHit' = "none"
             ELSE UNCHANGED <<handled, mistaken, downHit>>
    BY <1>2, TakesParts DEF Received, Deaf
  <2>2. rrx.type = "NONE" /\ ~Complete(rrx) /\ result = "busy" /\ ~SameSpeed
    BY <1>2 DEF Deaf, Complete
  <2>3. RomCollect(b)
    BY <2>1, <2>2 DEF RomRx, Refuse, PPing, PWho, PSpeed, PWrite, PRead, PWdata, PJump, PCall, Accepts
  <2>4. UNCHANGED <<waddr, rom, div, calls, down, handled, mistaken, downHit>>
    BY <2>1, <2>2, <2>3 DEF RomCollect
  <2>5. ~Replied /\ ~Replied'
    BY <1>1, <2>2, <2>4 DEF Replied, SameSpeed
  <2>6. Hurt' => Hurt
    BY <1>1, <2>4 DEF Hurt
  <2>7. QED
    BY <1>1, <2>2, <2>4, <2>5, <2>6 DEF Calm
<1>3. CASE Together
  <2>1. Asking /\ SameSpeed
    BY <1>1, <1>3 DEF Together, Idling, Answering, Lost, Quiet
  <2>2. awaiting /\ down = <<>> /\ result = "busy"
    BY <2>1 DEF Asking, Typed
  <2>3. MoreUp \/ CarriedOut
    BY <2>1, RequestArrives
  <2>4. CASE MoreUp
    <3>1. UNCHANGED <<waddr, rom, div, calls, down, handled, downHit, mistaken>>
      BY <2>4 DEF MoreUp
    <3>2. ~Replied /\ ~Replied'
      BY <2>2, <3>1 DEF Replied
    <3>3. Hurt' => Hurt
      BY <1>1, <3>1 DEF Hurt
    <3>4. QED
      BY <1>1, <2>2, <3>1, <3>2, <3>3 DEF Calm
  <2>5. CASE CarriedOut
    BY <1>1, <2>1, <2>2, <2>5 DEF Executed, CarriedOut, SameSpeed
  <2>6. QED
    BY <2>3, <2>4, <2>5
<1>4. QED
  BY <1>1, <1>2, <1>3 DEF Garbled, Quiet

LEMMA SetsDividerKind ==
  ASSUME Typed, Together \/ Garbled \/ Deaf, ComputerSetsDivider
  PROVE  Calm
<1>1. /\ rom = "speed" /\ UNCHANGED <<mem, calls, down, handled, mistaken>>
      /\ UNCHANGED <<session, todo, try, awaiting, pdata, result, faults, upHit, downHit>>
  BY DEF ComputerSetsDivider, SetDivider, programmer, line, history
<1>2. awaiting => Present.type = P_SPEED
  BY <1>1 DEF Together, Settling, Garbled, Deaf
<1>3. Present.type # P_SPEED => ~Replied /\ ~Replied'
  BY <1>1, <1>2 DEF Replied
<1>4. Hurt' => Hurt
  BY <1>1 DEF Hurt
<1>5. QED
  BY <1>1, <1>3, <1>4 DEF Calm

LEMMA RestartsKind ==
  ASSUME ComputerRestarts
  PROVE  Calm
<1>1. /\ rom = "program" /\ UNCHANGED <<mem, calls, down, div, hspeed, handled, mistaken>>
      /\ UNCHANGED <<session, todo, try, awaiting, pdata, result, faults, upHit, downHit>>
  BY DEF ComputerRestarts, Restart, programmer, line, history
<1>2. Replied' <=> Replied
  BY <1>1 DEF Replied, SameSpeed
<1>3. Hurt' => Hurt
  BY <1>1 DEF Hurt
<1>4. QED
  BY <1>1, <1>2, <1>3 DEF Calm

LEMMA DisturbKind ==
  ASSUME Typed, Together \/ Garbled \/ Deaf, Disturb, ~misframed'
  PROVE  Calm
<1>1. /\ UNCHANGED <<waddr, mem, rom, div, calls, handled, mistaken>> /\ faults' = faults + 1
      /\ UNCHANGED <<session, todo, try, awaiting, pdata, hspeed, result>>
      /\ upHit' # "length" /\ downHit' # "length"
  BY DisturbParts
<1>2. PICK n \in Noise : DisturbUp(n) \/ DisturbDown(n)
  BY DisturbParts
<1>3. SameSpeed' <=> SameSpeed
  BY <1>1 DEF SameSpeed
<1>4. CASE DisturbUp(n)
  <2>1. /\ up # <<>> /\ Head(up).part \in Hit[Command.name] /\ upHit' = Head(up).part /\ down' = down
    BY <1>4 DEF DisturbUp, Open
  <2>2. upHit' # "none"
    BY <1>1, <2>1, PartHit DEF Typed
  <2>3. Replied => Together /\ Answering
    BY DEF Replied, Garbled, Deaf, Together, Idling, Asking, Lost
  <2>4. ~Replied /\ ~Replied'
    BY <2>1, <2>2, <2>3 DEF Replied, Answering, Quiet
  <2>5. QED
    BY <1>1, <2>4 DEF Calm
<1>5. CASE DisturbDown(n)
  <2>1. down # <<>> /\ down' = Other(down, n) /\ upHit' = upHit
    BY <1>5 DEF DisturbDown, Open
  <2>2. ASSUME Replied
        PROVE  down' # <<>>
    <3>1. Answering /\ result = "busy"
      BY <2>2 DEF Replied, Garbled, Deaf, Together, Idling, Asking, Lost, Typed
    <3>2. PICK p \in Arrivals(Reply, downHit) : \E k \in 0 .. Len(Reply) - 1 : AnsweredTo(p, k)
      BY <3>1 DEF Answering
    <3>3. PICK k \in 0 .. Len(Reply) - 1 : AnsweredTo(p, k)
      BY <3>2
    <3>4. Whole(Reply) /\ SumTo(Reply, Len(Reply) - 1) = Reply[Len(Reply)] /\ downHit \in HitTypes
      BY <3>1, ReplyParts DEF Answering
    <3>5. Whole(p) /\ Len(p) = Len(Reply) /\ Len(p) \in Nat
      BY <3>2, <3>4, Arrived, WholeParts
    <3>6. down \in Seq(Cells)
      BY <3>3, <3>5, RestType DEF AnsweredTo
    <3>7. Len(down') = Len(down) /\ Len(down) # 0
      BY <2>1, <3>6, NoiseBytes, OtherCells
    <3>8. QED
      BY <3>7
  <2>3. Replied' <=> Replied
    BY <1>1, <1>3, <2>1, <2>2 DEF Replied
  <2>4. QED
    BY <1>1, <2>3 DEF Calm
<1>6. QED
  BY <1>2, <1>4, <1>5

LEMMA UnrecognisedKind ==
  ASSUME Unrecognised
  PROVE  Calm
<1>1. /\ ~SameSpeed /\ UNCHANGED <<waddr, mem, rom, div, calls, handled, mistaken>>
      /\ UNCHANGED <<session, todo, try, awaiting, pdata, hspeed, result, faults, upHit, downHit>>
      /\ down' = down \/ (down # <<>> /\ down' = Tail(down))
  BY DEF Unrecognised, computer, programmer, line, history
<1>2. ~Replied /\ ~Replied'
  BY <1>1 DEF Replied, SameSpeed
<1>3. Hurt' => Hurt
  BY <1>1 DEF Hurt
<1>4. QED
  BY <1>1, <1>2, <1>3 DEF Calm

\* Every step is of one of these kinds.
LEMMA Kinds ==
  ASSUME NoFalseStart, LinkInv, [Next]_vars, ~misframed'
  PROVE  Begun \/ Passed \/ Missed \/ Retried \/ Executed \/ Calm
<1>1. Typed /\ (Together \/ Garbled \/ Deaf)
  BY MisframedStays DEF LinkInv
<1>2. CASE Programmer
  BY <1>1, <1>2, SendsKind, GivesUpKind, StartsKind, ReceivesKind DEF Programmer
<1>3. CASE Computer
  BY <1>1, <1>3, TakesKind, SetsDividerKind, RestartsKind DEF Computer
<1>4. CASE Disturb \/ Unrecognised
  BY <1>1, <1>4, DisturbKind, UnrecognisedKind
<1>5. CASE UNCHANGED vars
  <2>1. /\ UNCHANGED <<waddr, mem, rom, div, calls, handled, mistaken, down>>
        /\ UNCHANGED <<session, todo, try, awaiting, pdata, hspeed, result, faults, upHit, downHit>>
    BY <1>5 DEF vars, computer, programmer, line, history
  <2>2. (Replied' <=> Replied) /\ (Hurt' => Hurt)
    BY <2>1 DEF Replied, SameSpeed, Hurt
  <2>3. QED
    BY <2>1, <2>2 DEF Calm
<1>6. QED
  BY <1>2, <1>3, <1>4, <1>5 DEF Next

----------------------------------------------------------------------------
(* The steps of a command one after the other.                             *)

LEMMA PassedOn ==
  ASSUME Typed, Passed, NEW i, AtStep(i)
  PROVE  /\ Steps' = Steps /\ Command' = Command /\ try' = 0 /\ result' \in {"busy", "ok", "failed"}
         /\ result' = "busy" <=> i < Len(Steps)
         /\ result' = "busy" => Present' = Steps[i + 1]
         /\ result' # "busy" /\ Present.type # P_WHO => result' = "ok"
<1>1. Course /\ result = "busy" /\ Success /\ session' = session
  BY DEF Typed, Passed, Still
<1>2. /\ Course' /\ try' = 0 /\ (result' = "busy" <=> i < Len(Steps))
      /\ result' = "busy" => Present' = Steps[i + 1]
  BY <1>1, Succeeded
<1>3. result' \in {"busy", "ok", "failed"} /\ (result' # "busy" /\ Present.type # P_WHO => result' = "ok")
  BY <1>1 DEF Success, GoOn
<1>4. Steps' = Steps /\ Command' = Command
  BY <1>1 DEF Steps, Command
<1>5. QED
  BY <1>2, <1>3, <1>4

LEMMA MissedOn ==
  ASSUME Typed, Missed, NEW i, AtStep(i)
  PROVE  /\ Steps' = Steps /\ Command' = Command /\ try' = 0
         /\ Present.fatal => result' = "failed"
         /\ ~Present.fatal =>
              /\ result' = "busy" <=> i + 1 + Present.drops <= Len(Steps)
              /\ result' = "busy" => Present' = Steps[i + 1 + Present.drops]
<1>1. Course /\ result = "busy" /\ Failure /\ session' = session
  BY DEF Typed, Missed, Still
<1>2. /\ try' = 0 /\ (Present.fatal => result' = "failed")
      /\ ~Present.fatal =>
           /\ result' = "busy" <=> i + 1 + Present.drops <= Len(Steps)
           /\ result' = "busy" => Present' = Steps[i + 1 + Present.drops]
  BY <1>1, Failed
<1>3. Steps' = Steps /\ Command' = Command
  BY <1>1 DEF Steps, Command
<1>4. QED
  BY <1>2, <1>3

\* The requests of f_change_speed come first, if there are any.
LEMMA SpeedSteps ==
  ASSUME NEW c \in Commands
  PROVE  LET s == Begin(c).todo t == Requests(c) IN
         \E o \in {0, 2} :
           /\ Len(t) \in Nat /\ Len(t) >= 1 /\ Len(s) = o + Len(t)
           /\ \A i \in 1 .. Len(t) : s[o + i] = t[i]
           /\ \A i \in 1 .. o :
                /\ s[i].type \in {P_SPEED, P_PING} /\ s[i].fatal = FALSE /\ s[i].blk = 0
                /\ s[i].drops \in {0, 1} /\ i + 1 + s[i].drops <= 3
<1> DEFINE s == Begin(c).todo
           t == Requests(c)
           h == ChangeSpeed(c.speed)
<1>1. s = t \/ s = h \o t
  BY StepsParts
<1>2. t \in Seq(AnyRequest) /\ Len(t) \in Nat /\ Len(t) >= 1
  <2>1. Plain(t) /\ Len(t) >= 1
    BY RequestsParts
  <2>2. QED
    BY <2>1 DEF Plain
<1>3. h = <<Request(P_SPEED, <<c.speed>>, 1, FALSE, 0), Request(P_PING, <<Nonce>>, 0, FALSE, 0)>>
  BY DEF ChangeSpeed
<1>4. /\ Len(h) = 2 /\ h[1].type = P_SPEED /\ h[1].fatal = FALSE /\ h[1].blk = 0 /\ h[1].drops = 1
      /\ h[2].type = P_PING /\ h[2].fatal = FALSE /\ h[2].blk = 0 /\ h[2].drops = 0
  BY <1>3 DEF Request
<1>5. h \in Seq(AnyRequest)
  <2>1. c.speed \in Bytes /\ Nonce \in Bytes
    BY CommandParts, ProgrammerAssumption DEF Bytes
  <2>2. /\ <<c.speed>> \in Seq(Bytes) /\ Len(<<c.speed>>) = 1
        /\ <<Nonce>> \in Seq(Bytes) /\ Len(<<Nonce>>) = 1
    BY <2>1
  <2>3. /\ Proper(Request(P_SPEED, <<c.speed>>, 1, FALSE, 0))
        /\ Proper(Request(P_PING, <<Nonce>>, 0, FALSE, 0))
    BY <2>2, ProperRequest
  <2>4. /\ Request(P_SPEED, <<c.speed>>, 1, FALSE, 0) \in AnyRequest
        /\ Request(P_PING, <<Nonce>>, 0, FALSE, 0) \in AnyRequest
    BY <2>3 DEF Proper
  <2>5. \A a, b \in AnyRequest : <<a, b>> \in Seq(AnyRequest)
    OBVIOUS
  <2>6. QED
    BY <1>3, <2>4, <2>5
<1> HIDE DEF s, t, h
<1>6. CASE s = t
  <2>1. Len(s) = 0 + Len(t) /\ \A i \in 1 .. Len(t) : s[0 + i] = t[i]
    BY <1>2, <1>6
  <2>2. QED
    BY <1>2, <2>1 DEF s, t
<1>7. CASE s = h \o t
  <2>1. /\ Len(s) = 2 + Len(t)
        /\ \A i \in 1 .. Len(s) : s[i] = IF i <= 2 THEN h[i] ELSE t[i - 2]
    <3>1. /\ Len(h \o t) = Len(h) + Len(t)
          /\ \A i \in 1 .. Len(h) + Len(t) : (h \o t)[i] = IF i <= Len(h) THEN h[i] ELSE t[i - Len(h)]
      BY <1>2, <1>5, ConcatProperties
    <3>2. Len(h) = 2
      BY <1>4
    <3>3. QED
      BY <1>7, <3>1, <3>2
  <2>2. \A i \in 1 .. Len(t) : s[2 + i] = t[i]
    <3>1. ASSUME NEW i \in 1 .. Len(t)
          PROVE  s[2 + i] = t[i]
      <4>1. 2 + i \in 1 .. Len(s) /\ ~(2 + i <= 2) /\ 2 + i - 2 = i
        BY <1>2, <2>1
      <4>2. QED
        BY <2>1, <4>1
    <3>2. QED
      BY <3>1
  <2>3. s[1] = h[1] /\ s[2] = h[2]
    BY <1>2, <2>1
  <2>4. \A i \in 1 .. 2 :
          /\ s[i].type \in {P_SPEED, P_PING} /\ s[i].fatal = FALSE /\ s[i].blk = 0
          /\ s[i].drops \in {0, 1} /\ i + 1 + s[i].drops <= 3
    BY <1>4, <2>3
  <2>5. QED
    BY <1>2, <2>1, <2>2, <2>4 DEF s, t
<1>8. QED
  BY <1>1, <1>6, <1>7 DEF s, t, h

\* A command of one request ends with it.
LEMMA SingleSteps ==
  ASSUME NEW c \in Commands, NEW r, Requests(c) = <<r>>
  PROVE  LET s == Begin(c).todo IN
         /\ Len(s) \in Nat /\ s[Len(s)] = r
         /\ \A i \in 1 .. Len(s) : i # Len(s) =>
              /\ s[i].type \in {P_SPEED, P_PING} /\ s[i].fatal = FALSE /\ s[i].drops \in {0, 1}
              /\ i + 1 + s[i].drops <= Len(s)
<1> DEFINE s == Begin(c).todo
           t == Requests(c)
<1>1. PICK o \in {0, 2} :
        /\ Len(t) \in Nat /\ Len(t) >= 1 /\ Len(s) = o + Len(t)
        /\ \A i \in 1 .. Len(t) : s[o + i] = t[i]
        /\ \A i \in 1 .. o :
             /\ s[i].type \in {P_SPEED, P_PING} /\ s[i].fatal = FALSE /\ s[i].blk = 0
             /\ s[i].drops \in {0, 1} /\ i + 1 + s[i].drops <= 3
  BY SpeedSteps
<1>2. Len(t) = 1 /\ t[1] = r
  OBVIOUS
<1> HIDE DEF s, t
<1>3. Len(s) = o + 1 /\ s[o + 1] = r
  BY <1>1, <1>2
<1>4. ASSUME NEW i \in 1 .. Len(s), i # Len(s)
      PROVE  /\ s[i].type \in {P_SPEED, P_PING} /\ s[i].fatal = FALSE /\ s[i].drops \in {0, 1}
             /\ i + 1 + s[i].drops <= Len(s)
  <2>1. i \in 1 .. o /\ o = 2 /\ Len(s) = 3
    BY <1>3, <1>4
  <2>2. QED
    BY <1>1, <2>1
<1>5. Len(s) \in Nat /\ s[Len(s)] = r
  BY <1>3
<1>6. QED
  BY <1>4, <1>5 DEF s

----------------------------------------------------------------------------
(* Tries and disturbances.                                                 *)

\* Each try of an acknowledged request but the present one has cost a disturbance.
Tried ==
  /\ faults \in Nat /\ (upHit # "none" \/ downHit # "none" => faults >= 1)
  /\ result = "busy" /\ Present.type \in Acknowledged => try <= faults /\ (Hurt => try < faults)

LEMMA TriedInit == Init => Tried
BY DEF Init, ProgrammerInit, Tried, Hurt

LEMMA TriedStep ==
  ASSUME NoFalseStart, LinkInv, [Next]_vars, ~misframed', Tried
  PROVE  Tried'
<1>1. Typed /\ Course /\ try \in Nat /\ faults \in Nat
  BY MisframedStays DEF LinkInv, Typed, Course, Tried
<1>2. Begun \/ Passed \/ Missed \/ Retried \/ Executed \/ Calm
  BY Kinds
<1>3. CASE Begun
  BY <1>3 DEF Begun, Tried, Hurt
<1>4. CASE Passed \/ Missed
  <2>1. PICK i : AtStep(i)
    BY <1>1, <1>4, PresentStep DEF Passed, Missed
  <2>2. try' = 0
    BY <1>1, <1>4, <2>1, PassedOn, MissedOn
  <2>3. ~awaiting' /\ UNCHANGED <<faults, upHit, downHit>>
    BY <1>4 DEF Passed, Missed, Still
  <2>4. QED
    BY <1>1, <2>2, <2>3 DEF Tried, Hurt
<1>5. CASE Retried
  <2>1. Present' = Present
    BY <1>5 DEF Retried, Present
  <2>2. QED
    BY <1>1, <1>5, <2>1 DEF Retried, Still, Tried, Hurt
<1>6. CASE Executed
  <2>1. Present' = Present /\ downHit' = "none"
    BY <1>6 DEF Executed, CarriedOut, Present
  <2>2. Hurt' => Hurt
    BY <1>6, <2>1 DEF Executed, Hurt
  <2>3. QED
    BY <1>1, <1>6, <2>1, <2>2 DEF Executed, Tried
<1>7. CASE Calm
  <2>1. /\ Present' = Present /\ UNCHANGED <<try, result>> /\ faults' \in {faults, faults + 1}
        /\ Hurt' =>
             faults' = faults + 1 \/ Hurt \/ (Deaf /\ faults' = faults /\ (upHit # "none" \/ downHit # "none"))
        /\ (upHit' # "none" \/ downHit' # "none") =>
             (upHit # "none" \/ downHit # "none") \/ faults' = faults + 1
    BY <1>7 DEF Calm, Present
  <2>2. Deaf /\ Present.type \in Acknowledged => try = 0
    <3>1. Deaf => (try > 0 => Present.type = P_SPEED)
      BY DEF Deaf
    <3>2. P_SPEED \notin Acknowledged
      BY Numbers DEF Acknowledged, TypeNumbers
    <3>3. QED
      BY <1>1, <3>1, <3>2
  <2>3. ASSUME result = "busy", Present.type \in Acknowledged
        PROVE  try <= faults' /\ (Hurt' => try < faults')
    <3>1. try <= faults /\ (Hurt => try < faults)
      BY <2>3 DEF Tried
    <3>2. Deaf /\ (upHit # "none" \/ downHit # "none") => try < faults
      BY <1>1, <2>2, <2>3 DEF Tried
    <3>3. QED
      BY <1>1, <2>1, <3>1, <3>2
  <2>4. faults' \in Nat /\ (upHit' # "none" \/ downHit' # "none" => faults' >= 1)
    BY <1>1, <2>1 DEF Tried
  <2>5. QED
    BY <2>1, <2>3, <2>4 DEF Tried
<1>8. QED
  BY <1>2, <1>3, <1>4, <1>5, <1>6, <1>7

----------------------------------------------------------------------------
(* Calls.                                                                  *)

\* The function that a session calls is called by one of its commands.
OneCall == \A s \in Sessions : \A i, j \in 1 .. Len(s) : s[i].name = "call" /\ s[j].name = "call" => i = j

CalledOnce ==
  /\ calls \in Seq(Bytes)
  /\ \A i, j \in 1 .. Len(session) : session[i].name = "call" /\ session[j].name = "call" => i = j
  /\ (\E i \in 1 .. Len(session) : session[i].name = "call") /\ Command.name # "call" => calls = <<>>
  /\ Command.name = "call" =>
       /\ \A i \in 1 .. Len(calls) : calls[i] = Command.addr
       /\ result = "busy" /\ Present.type # P_CALL => calls = <<>>
       /\ result = "busy" /\ Present.type = P_CALL =>
            /\ Replied => Len(calls) \in 1 .. 1 + try
            /\ ~Replied => Len(calls) <= try
       /\ result # "busy" => Len(calls) <= 1 + faults /\ (result = "ok" => Len(calls) > 0)

LEMMA SinglePlace ==
  ASSUME Typed, result = "busy", NEW i, AtStep(i), NEW r, Requests(Command) = <<r>>
  PROVE  /\ i = Len(Steps) => Present = r
         /\ i # Len(Steps) =>
              /\ Present.type \in {P_SPEED, P_PING} /\ Present.fatal = FALSE /\ Present.drops \in {0, 1}
              /\ i + 1 + Present.drops <= Len(Steps) /\ i < Len(Steps)
<1>1. Command \in Commands
  BY CommandType DEF Typed, Course
<1>2. /\ Len(Steps) \in Nat /\ Steps[Len(Steps)] = r
      /\ \A j \in 1 .. Len(Steps) : j # Len(Steps) =>
           /\ Steps[j].type \in {P_SPEED, P_PING} /\ Steps[j].fatal = FALSE /\ Steps[j].drops \in {0, 1}
           /\ j + 1 + Steps[j].drops <= Len(Steps)
  BY <1>1, SingleSteps DEF Steps
<1>3. i \in 1 .. Len(Steps) /\ Present = Steps[i]
  BY DEF AtStep
<1>4. QED
  BY <1>2, <1>3

LEMMA CallPlace ==
  ASSUME Typed, result = "busy", NEW i, AtStep(i), Command.name = "call"
  PROVE  /\ Present.type = P_CALL =>
              i = Len(Steps) /\ Present.fatal /\ Present.data[1] = Command.addr
         /\ Present.type # P_CALL =>
              /\ Present.fatal = FALSE /\ Present.drops \in {0, 1}
              /\ i + 1 + Present.drops <= Len(Steps) /\ i < Len(Steps)
<1> DEFINE r == Request(P_CALL, <<Command.addr>>, 0, TRUE, 0)
<1>1. Command \in Commands
  BY CommandType DEF Typed, Course
<1>2. Requests(Command) = <<r>>
  BY <1>1, RequestsParts
<1>3. r.type = P_CALL /\ r.fatal = TRUE /\ r.data[1] = Command.addr
  BY DEF Request
<1>4. P_CALL \notin {P_SPEED, P_PING}
  BY Numbers DEF TypeNumbers
<1> HIDE DEF r
<1>5. QED
  BY <1>2, <1>3, <1>4, SinglePlace

LEMMA NoCallPlace ==
  ASSUME Typed, result = "busy", Command.name # "call"
  PROVE  Present.type # P_CALL
<1> DEFINE t == Requests(Command)
<1>1. Command \in Commands
  BY CommandType DEF Typed, Course
<1>2. PICK o \in {0, 2} :
        /\ Len(t) \in Nat /\ Len(t) >= 1 /\ Len(Steps) = o + Len(t)
        /\ \A i \in 1 .. Len(t) : Steps[o + i] = t[i]
        /\ \A i \in 1 .. o :
             /\ Steps[i].type \in {P_SPEED, P_PING} /\ Steps[i].fatal = FALSE /\ Steps[i].blk = 0
             /\ Steps[i].drops \in {0, 1} /\ i + 1 + Steps[i].drops <= 3
  BY <1>1, SpeedSteps DEF Steps
<1>3. \A i \in 1 .. Len(t) : t[i].type # P_CALL
  BY <1>1, RequestsParts
<1>4. PICK i : AtStep(i)
  BY PresentStep DEF Typed
<1>5. i \in 1 .. Len(Steps) /\ Present = Steps[i]
  BY <1>4 DEF AtStep
<1>6. P_CALL \notin {P_SPEED, P_PING}
  BY Numbers DEF TypeNumbers
<1> HIDE DEF t
<1>7. CASE i <= o
  <2>1. i \in 1 .. o
    BY <1>2, <1>5, <1>7
  <2>2. QED
    BY <1>2, <1>5, <1>6, <2>1
<1>8. CASE i > o
  <2>1. i - o \in 1 .. Len(t) /\ o + (i - o) = i
    BY <1>2, <1>5, <1>8
  <2>2. Steps[i] = t[i - o]
    BY <1>2, <2>1
  <2>3. QED
    BY <1>3, <1>5, <2>1, <2>2
<1>9. QED
  BY <1>2, <1>5, <1>7, <1>8

LEMMA CallsInit == OneCall /\ Init => CalledOnce
<1> SUFFICES ASSUME OneCall, Init
             PROVE  CalledOnce
  OBVIOUS
<1>1. calls = <<>> /\ session \in Sessions /\ result = "busy" /\ awaiting = FALSE /\ try = 0
  BY DEF Init, RomInit, ProgrammerInit
<1>2. calls \in Seq(Bytes) /\ Len(calls) = 0
  BY <1>1
<1>3. \A i, j \in 1 .. Len(session) : session[i].name = "call" /\ session[j].name = "call" => i = j
  BY <1>1 DEF OneCall
<1>4. ~Replied
  BY <1>1 DEF Replied
<1>5. QED
  BY <1>1, <1>2, <1>3, <1>4 DEF CalledOnce

LEMMA CallsStep ==
  ASSUME NoFalseStart, LinkInv, [Next]_vars, ~misframed', Tried, CalledOnce
  PROVE  CalledOnce'
<1>1. Typed /\ Course /\ try \in Nat /\ faults \in Nat
  BY MisframedStays DEF LinkInv, Typed, Course, Tried
<1>2. Begun \/ Passed \/ Missed \/ Retried \/ Executed \/ Calm
  BY Kinds
<1>3. calls \in Seq(Bytes) /\ Len(calls) \in Nat
  BY DEF CalledOnce
<1>4. P_CALL \in Acknowledged /\ P_CALL # P_WHO /\ P_CALL # P_SPEED
  BY Numbers DEF Acknowledged, TypeNumbers
<1>5. CASE Begun
  <2>1. /\ session' = Tail(session) /\ session \in Seq(Commands) /\ session # <<>>
        /\ result' = "busy" /\ ~awaiting' /\ try' = 0 /\ calls' = calls
    BY <1>1, <1>5 DEF Begun, Course
  <2>2. /\ Len(session') = Len(session) - 1 /\ Len(session) \in Nat /\ Len(session) > 1
        /\ \A i \in 1 .. Len(session') : session'[i] = session[i + 1]
    BY <1>5, <2>1, HeadTailProperties DEF Begun
  <2>3. Command = session[1] /\ Command' = session'[1] /\ 1 \in 1 .. Len(session')
    BY <2>1, <2>2 DEF Command
  <2>4. \A i, j \in 1 .. Len(session') : session'[i].name = "call" /\ session'[j].name = "call" => i = j
    <3>1. \A i \in 1 .. Len(session') : i + 1 \in 1 .. Len(session)
      BY <2>2
    <3>2. ASSUME NEW i \in 1 .. Len(session'), NEW j \in 1 .. Len(session'),
                 session'[i].name = "call", session'[j].name = "call"
          PROVE  i = j
      <4>1. i + 1 = j + 1
        BY <2>2, <3>1, <3>2 DEF CalledOnce
      <4>2. QED
        BY <2>2, <4>1
    <3>3. QED
      BY <3>2
  <2>5. (\E i \in 1 .. Len(session') : session'[i].name = "call") => calls = <<>>
    <3>1. SUFFICES ASSUME NEW i \in 1 .. Len(session'), session'[i].name = "call"
                   PROVE  calls = <<>>
      OBVIOUS
    <3>2. i + 1 \in 1 .. Len(session) /\ i + 1 # 1 /\ 1 \in 1 .. Len(session) /\ session[i + 1].name = "call"
      BY <2>2, <3>1
    <3>3. session[1].name # "call"
      BY <3>2 DEF CalledOnce
    <3>4. QED
      BY <2>3, <3>2, <3>3 DEF CalledOnce
  <2>6. Command'.name = "call" => calls = <<>>
    BY <2>3, <2>5
  <2>7. ~Replied'
    BY <2>1 DEF Replied
  <2>8. Command'.name = "call" => Len(calls') = 0 /\ Len(calls') <= try'
    BY <2>1, <2>6
  <2>9. QED
    BY <1>3, <2>1, <2>4, <2>5, <2>6, <2>7, <2>8 DEF CalledOnce
<1>6. ASSUME session' = session, calls' = calls,
             Command.name = "call" =>
               /\ result' = "busy" /\ Present'.type # P_CALL => calls = <<>>
               /\ result' = "busy" /\ Present'.type = P_CALL =>
                    /\ Replied' => Len(calls) \in 1 .. 1 + try'
                    /\ ~Replied' => Len(calls) <= try'
               /\ result' # "busy" => Len(calls) <= 1 + faults' /\ (result' = "ok" => Len(calls) > 0)
      PROVE  CalledOnce'
  <2>1. Command' = Command
    BY <1>6 DEF Command
  <2>2. QED
    BY <1>6, <2>1 DEF CalledOnce
<1>7. CASE Passed \/ Missed
  <2>1. session' = session /\ calls' = calls /\ faults' = faults /\ ~Replied' /\ result = "busy"
    BY <1>7 DEF Passed, Missed, Still, Replied
  <2>2. SUFFICES ASSUME Command.name = "call"
                 PROVE  /\ result' = "busy" => Len(calls) <= try' /\ calls = <<>>
                        /\ result' # "busy" => Len(calls) <= 1 + faults /\ (result' = "ok" => Len(calls) > 0)
    BY <1>6, <2>1
  <2>3. PICK i : AtStep(i)
    BY <1>1, <2>1, PresentStep
  <2>4. /\ Present.type = P_CALL =>
             i = Len(Steps) /\ Present.fatal /\ Present.data[1] = Command.addr
        /\ Present.type # P_CALL =>
             /\ Present.fatal = FALSE /\ Present.drops \in {0, 1}
             /\ i + 1 + Present.drops <= Len(Steps) /\ i < Len(Steps)
    BY <1>1, <2>1, <2>2, <2>3, CallPlace
  <2>5. try' = 0 /\ Len(Steps) \in Nat
    BY <1>1, <1>7, <2>3, PassedOn, MissedOn, StepsFacts
  <2>6. CASE Present.type # P_CALL
    <3>1. calls = <<>>
      BY <2>1, <2>2, <2>6 DEF CalledOnce
    <3>2. result' = "busy"
      BY <1>1, <1>7, <2>3, <2>4, <2>6, PassedOn, MissedOn
    <3>3. Len(calls) = 0
      BY <3>1
    <3>4. QED
      BY <2>5, <3>1, <3>2, <3>3
  <2>7. CASE Present.type = P_CALL
    <3>1. CASE Passed
      <4>1. Replied
        BY <1>4, <2>7, <3>1 DEF Passed
      <4>2. Len(calls) \in 1 .. 1 + try /\ try <= faults
        BY <1>4, <2>1, <2>2, <2>7, <4>1 DEF CalledOnce, Tried
      <4>3. result' # "busy" /\ result' = "ok"
        BY <1>1, <1>4, <2>3, <2>4, <2>5, <2>7, <3>1, PassedOn
      <4>4. QED
        BY <1>1, <1>3, <4>2, <4>3
    <3>2. CASE Missed
      <4>1. ~Replied
        BY <1>4, <2>7, <3>2 DEF Missed, Replied
      <4>2. Len(calls) <= try /\ try <= faults
        BY <1>4, <2>1, <2>2, <2>7, <4>1 DEF CalledOnce, Tried
      <4>3. result' = "failed"
        BY <1>1, <2>3, <2>4, <2>7, <3>2, MissedOn
      <4>4. QED
        BY <1>1, <1>3, <4>2, <4>3
    <3>3. QED
      BY <1>7, <3>1, <3>2
  <2>8. QED
    BY <2>6, <2>7
<1>8. CASE Retried
  <2>1. session' = session /\ calls' = calls /\ Present' = Present /\ ~Replied' /\ result' = "busy" /\ result = "busy"
        /\ try' = try + 1
    BY <1>8 DEF Retried, Still, Replied, Present
  <2>2. ASSUME Command.name = "call"
        PROVE  /\ Present.type # P_CALL => calls = <<>>
               /\ Present.type = P_CALL => Len(calls) <= try'
    BY <1>1, <1>3, <2>1, <2>2 DEF CalledOnce
  <2>3. QED
    BY <1>6, <2>1, <2>2
<1>9. CASE Executed
  <2>1. /\ session' = session /\ Present' = Present /\ result' = result /\ result = "busy"
        /\ try' = try /\ ~Replied /\ upHit' = upHit
        /\ calls' = IF Right(P_CALL) THEN Append(calls, Present.data[1]) ELSE calls
    BY <1>9 DEF Executed, CarriedOut, Replied, Present
  <2>2. CASE Right(P_CALL)
    <3>1. Command.name = "call" /\ Present.type = P_CALL
      BY <1>1, <2>1, <2>2, NoCallPlace DEF Right
    <3>2. PICK i : AtStep(i)
      BY <1>1, <2>1, PresentStep
    <3>3. Present.data[1] = Command.addr /\ Command.addr \in Bytes
      BY <1>1, <2>1, <3>1, <3>2, CallPlace, CommandType, CommandParts DEF Course
    <3>4. Len(calls) <= try /\ \A x \in 1 .. Len(calls) : calls[x] = Command.addr
      BY <2>1, <3>1 DEF CalledOnce
    <3>5. /\ calls' \in Seq(Bytes) /\ Len(calls') = Len(calls) + 1
          /\ \A x \in 1 .. Len(calls') : calls'[x] = Command.addr
      BY <1>3, <2>1, <2>2, <3>3, <3>4
    <3>6. Len(calls') \in 1 .. 1 + try'
      BY <1>1, <1>3, <2>1, <3>4, <3>5
    <3>7. Replied'
      <4>1. upHit' = "none" /\ down' = Rest(Reply, 0) /\ div' = div
        BY <1>9, <2>1, <2>2 DEF Right, Executed, CarriedOut
      <4>2. down' # <<>>
        <5>1. Whole(Reply)
          BY <1>1, <2>1, ReplyParts
        <5>2. 0 \in 0 .. Len(Reply) - 1
          BY <5>1, WholeParts
        <5>3. QED
          BY <4>1, <5>1, <5>2, RestParts
      <4>3. SameSpeed' /\ awaiting'
        BY <1>9 DEF Executed
      <4>4. QED
        BY <4>1, <4>2, <4>3 DEF Replied
    <3>8. Command' = Command
      BY <2>1 DEF Command
    <3>9. QED
      BY <2>1, <3>1, <3>5, <3>6, <3>7, <3>8 DEF CalledOnce
  <2>3. CASE ~Right(P_CALL)
    <3>1. Present.type = P_CALL => ~Replied'
      BY <2>1, <2>3 DEF Right, Replied
    <3>2. ASSUME Command.name = "call"
          PROVE  /\ Present.type # P_CALL => calls = <<>>
                 /\ Present.type = P_CALL => Len(calls) <= try'
      BY <2>1, <3>2 DEF CalledOnce
    <3>3. QED
      BY <1>6, <2>1, <2>3, <3>1, <3>2
  <2>4. QED
    BY <2>2, <2>3
<1>10. CASE Calm
  <2>1. /\ session' = session /\ calls' = calls /\ Present' = Present /\ result' = result /\ try' = try
        /\ faults' \in {faults, faults + 1}
        /\ Present.type = P_CALL => (Replied' <=> Replied)
    BY <1>4, <1>10 DEF Calm, Present
  <2>2. ASSUME Command.name = "call"
        PROVE  /\ result = "busy" /\ Present.type # P_CALL => calls = <<>>
               /\ result = "busy" /\ Present.type = P_CALL =>
                    /\ Replied => Len(calls) \in 1 .. 1 + try
                    /\ ~Replied => Len(calls) <= try
               /\ result # "busy" => Len(calls) <= 1 + faults' /\ (result = "ok" => Len(calls) > 0)
    <3>1. result # "busy" => Len(calls) <= 1 + faults
      BY <2>2 DEF CalledOnce
    <3>2. result # "busy" => Len(calls) <= 1 + faults'
      BY <1>1, <1>3, <2>1, <3>1
    <3>3. QED
      BY <2>2, <3>2 DEF CalledOnce
  <2>3. QED
    BY <1>6, <2>1, <2>2
<1>11. QED
  BY <1>2, <1>5, <1>7, <1>8, <1>9, <1>10

\* Under the hypothesis that a session calls one function only.
CallsInv == LinkInv /\ (~misframed => Tried /\ CalledOnce)

LEMMA CallsLemma == CallsInv => misframed \/ CallsAsAsked
<1> SUFFICES ASSUME CallsInv, ~misframed, Command.name = "call"
             PROVE  /\ \A i \in 1 .. Len(calls) : calls[i] = Command.addr
                    /\ Len(calls) <= 1 + faults /\ (result = "ok" => Len(calls) > 0)
  BY DEF CallsAsAsked
<1>1. Typed /\ Tried /\ CalledOnce
  BY DEF CallsInv, LinkInv
<1>2. try \in Nat /\ faults \in Nat /\ calls \in Seq(Bytes) /\ Len(calls) \in Nat
  BY <1>1 DEF Typed, Course, Tried, CalledOnce
<1>3. \A i \in 1 .. Len(calls) : calls[i] = Command.addr
  BY <1>1 DEF CalledOnce
<1>4. CASE result # "busy"
  BY <1>1, <1>3, <1>4 DEF CalledOnce
<1>5. CASE result = "busy" /\ Present.type # P_CALL
  <2>1. calls = <<>> /\ Len(<<>>) = 0
    BY <1>1, <1>5 DEF CalledOnce
  <2>2. QED
    BY <1>2, <1>3, <1>5, <2>1
<1>6. CASE result = "busy" /\ Present.type = P_CALL
  <2>1. try <= faults
    BY <1>1, <1>6 DEF Tried, Acknowledged
  <2>2. Len(calls) <= 1 + try
    BY <1>1, <1>2, <1>6 DEF CalledOnce
  <2>3. QED
    BY <1>2, <1>3, <1>6, <2>1, <2>2
<1>7. QED
  BY <1>4, <1>5, <1>6

\* A command `call' calls the function it was given and no other, at most once more than there
\* were disturbances, and at least once if it succeeds: as long as what frames a packet arrives,
\* in sessions that call one function.
THEOREM CallsOnce == NoFalseStart /\ OneCall => (Spec => [](misframed \/ CallsAsAsked))
<1> SUFFICES ASSUME NoFalseStart, OneCall
             PROVE  Spec => [](misframed \/ CallsAsAsked)
  OBVIOUS
<1>1. Init => CallsInv
  BY LinkInit, TriedInit, CallsInit DEF CallsInv
<1>2. CallsInv /\ [Next]_vars => CallsInv'
  <2>1. SUFFICES ASSUME CallsInv, [Next]_vars, ~misframed'
                 PROVE  Tried' /\ CalledOnce'
    BY LinkStep DEF CallsInv
  <2>2. LinkInv /\ Tried /\ CalledOnce
    BY <2>1, MisframedStays DEF CallsInv
  <2>3. QED
    BY <2>1, <2>2, TriedStep, CallsStep
<1>3. QED
  BY <1>1, <1>2, CallsLemma, PTL DEF Spec

----------------------------------------------------------------------------
(* Reads.                                                                  *)

\* What a session reads is memory.
ReadsFrom(s) ==
  \A i \in 1 .. Len(s) : s[i].name = "read" => \A j \in 1 .. s[i].length : s[i].addr + j - 1 \in Ram
ReadsRam == \A s \in Sessions : ReadsFrom(s)

LEMMA ReadPlace ==
  ASSUME Typed, result = "busy", NEW i, AtStep(i), Command.name = "read"
  PROVE  /\ i = Len(Steps) =>
              /\ Present.type = P_READ /\ Present.fatal
              /\ Present.data[1] = Command.addr /\ Present.data[2] = Command.length
         /\ i # Len(Steps) =>
              /\ Present.fatal = FALSE /\ Present.drops \in {0, 1}
              /\ i + 1 + Present.drops <= Len(Steps) /\ i < Len(Steps)
<1> DEFINE r == Request(P_READ, <<Command.addr, Command.length>>, 0, TRUE, 0)
<1>1. Command \in Commands
  BY CommandType DEF Typed, Course
<1>2. Requests(Command) = <<r>>
  BY <1>1, RequestsParts
<1>3. r.type = P_READ /\ r.fatal = TRUE /\ r.data[1] = Command.addr /\ r.data[2] = Command.length
  BY DEF Request
<1> HIDE DEF r
<1>4. PICK q : q = r
  OBVIOUS
<1>5. Requests(Command) = <<q>>
  BY <1>2, <1>4
<1>6. /\ i = Len(Steps) => Present = q
      /\ i # Len(Steps) =>
           /\ Present.type \in {P_SPEED, P_PING} /\ Present.fatal = FALSE /\ Present.drops \in {0, 1}
           /\ i + 1 + Present.drops <= Len(Steps) /\ i < Len(Steps)
  BY <1>5, SinglePlace
<1>7. QED
  BY <1>3, <1>4, <1>6

LEMMA ReadsStep ==
  ASSUME NoFalseStart, LinkInv, [Next]_vars, ~misframed', ReadsFrom(session), ReadsMemory
  PROVE  ReadsFrom(session)' /\ ReadsMemory'
<1>1. Typed /\ Course
  BY MisframedStays DEF LinkInv, Typed
<1>2. Begun \/ Passed \/ Missed \/ Retried \/ Executed \/ Calm
  BY Kinds
<1>3. CASE Begun
  <2>1. session' = Tail(session) /\ session \in Seq(Commands) /\ session # <<>> /\ result' = "busy"
    BY <1>1, <1>3 DEF Begun, Course
  <2>2. /\ Len(session') = Len(session) - 1 /\ Len(session) \in Nat
        /\ \A i \in 1 .. Len(session') : session'[i] = session[i + 1]
    BY <2>1, HeadTailProperties
  <2>3. \A i \in 1 .. Len(session') : i + 1 \in 1 .. Len(session)
    BY <2>2
  <2>4. ReadsFrom(session)'
    BY <2>2, <2>3 DEF ReadsFrom
  <2>5. ReadsMemory'
    BY <2>1 DEF ReadsMemory, Ended
  <2>6. QED
    BY <2>4, <2>5
<1>4. ASSUME session' = session,
             result' = "ok" /\ Command.name = "read" =>
               /\ Command.length <= HostMax
               /\ SubSeq(pdata', 1, Command.length) = [j \in 1 .. Command.length |-> mem'[Command.addr + j - 1]]
      PROVE  ReadsFrom(session)' /\ ReadsMemory'
  <2>1. Command' = Command
    BY <1>4 DEF Command
  <2>2. ReadsFrom(session)'
    BY <1>4 DEF ReadsFrom
  <2>3. ReadsMemory'
    BY <1>4, <2>1 DEF ReadsMemory, Ended, InMemory
  <2>4. QED
    BY <2>2, <2>3
<1>5. CASE Missed
  <2>1. session' = session /\ result = "busy"
    BY <1>5 DEF Missed, Still
  <2>2. SUFFICES ASSUME result' = "ok", Command.name = "read"
                 PROVE  FALSE
    BY <1>4, <2>1
  <2>3. PICK i : AtStep(i)
    BY <1>1, <2>1, PresentStep
  <2>4. Len(Steps) \in Nat
    BY <1>1, <2>3, StepsFacts
  <2>5. QED
    BY <1>1, <1>5, <2>1, <2>2, <2>3, <2>4, ReadPlace, MissedOn
<1>6. CASE Retried \/ Executed
  <2>1. session' = session /\ result' = "busy"
    BY <1>6 DEF Retried, Executed, Still
  <2>2. QED
    BY <1>4, <2>1
<1>7. CASE Calm
  <2>1. session' = session /\ result' = result /\ (result # "busy" => mem' = mem /\ pdata' = pdata)
    BY <1>7 DEF Calm
  <2>2. QED
    BY <1>4, <2>1 DEF ReadsMemory, Ended, InMemory
<1>8. CASE Passed
  <2>1. session' = session /\ result = "busy" /\ mem' = mem /\ pdata' = pdata
    BY <1>8 DEF Passed, Still
  <2>2. SUFFICES ASSUME result' = "ok", Command.name = "read"
                 PROVE  /\ Command.length <= HostMax
                        /\ SubSeq(pdata, 1, Command.length) = [j \in 1 .. Command.length |-> mem[Command.addr + j - 1]]
    BY <1>4, <2>1
  <2>3. PICK i : AtStep(i)
    BY <1>1, <2>1, PresentStep
  <2>4. i = Len(Steps)
    <3>1. Len(Steps) \in Nat
      BY <1>1, <2>3, StepsFacts
    <3>2. ~(i < Len(Steps))
      BY <1>1, <1>8, <2>2, <2>3, PassedOn
    <3>3. QED
      BY <1>1, <2>1, <2>2, <2>3, <3>1, <3>2, ReadPlace
  <2>5. Present.type = P_READ /\ Present.data[1] = Command.addr /\ Present.data[2] = Command.length
    BY <1>1, <2>1, <2>2, <2>3, <2>4, ReadPlace
  <2>6. P_READ # P_SPEED
    BY Numbers DEF TypeNumbers
  <2>7. /\ upHit = "none" /\ Len(ReplyData) <= HostMax
        /\ \A j \in 1 .. Len(ReplyData) : pdata[j] = ReplyData[j]
    BY <1>8, <2>5, <2>6 DEF Passed, Replied
  <2>8. ReplyData = Contents(Command.addr, Command.length)
    BY <2>5, <2>7, ReplyIs
  <2>9. Command.addr \in Nat /\ Command.length \in Nat
    BY <1>1, CommandType, CommandParts DEF Course, Bytes
  <2>10. /\ Len(ReplyData) = Command.length
         /\ \A j \in 1 .. Command.length : Command.addr + j - 1 \in Ram => ReplyData[j] = mem[Command.addr + j - 1]
    BY <2>8, <2>9 DEF Contents
  <2>11. \A j \in 1 .. Command.length : Command.addr + j - 1 \in Ram
    <3>1. Command = session[1] /\ 1 \in 1 .. Len(session)
      BY <1>1 DEF Command, Course
    <3>2. QED
      BY <2>2, <3>1 DEF ReadsFrom
  <2>12. \A j \in 1 .. Command.length : pdata[j] = mem[Command.addr + j - 1]
    BY <2>7, <2>10, <2>11
  <2>13. Command.length <= HostMax
    BY <2>7, <2>10
  <2>14. SubSeq(pdata, 1, Command.length) = [j \in 1 .. Command.length |-> mem[Command.addr + j - 1]]
    <3>1. pdata \in Seq(Bytes) /\ Len(pdata) = HostMax /\ HostMax \in Nat
      BY <1>1, Constants DEF Typed
    <3>2. /\ SubSeq(pdata, 1, Command.length) \in Seq(Bytes)
          /\ Len(SubSeq(pdata, 1, Command.length)) = Command.length
          /\ \A j \in 1 .. Command.length : SubSeq(pdata, 1, Command.length)[j] = pdata[j]
      BY <2>9, <2>13, <3>1, SubSeqProperties
    <3> DEFINE s == SubSeq(pdata, 1, Command.length)
               t == [j \in 1 .. Command.length |-> mem[Command.addr + j - 1]]
    <3>3. s = [j \in 1 .. Command.length |-> s[j]]
      BY <3>2
    <3>4. \A j \in 1 .. Command.length : s[j] = mem[Command.addr + j - 1]
      BY <2>12, <3>2
    <3> HIDE DEF s
    <3>5. s = t
      BY <3>3, <3>4
    <3>6. QED
      BY <3>5 DEF s
  <2>15. QED
    BY <2>13, <2>14
<1>9. QED
  BY <1>2, <1>3, <1>5, <1>6, <1>7, <1>8

\* A command `read' that succeeds shows what is in memory, whatever was disturbed and however
\* often it was tried, as long as what frames a packet arrives: in sessions that read memory.
THEOREM ReadsTrue == NoFalseStart /\ ReadsRam => (Spec => [](misframed \/ ReadsMemory))
<1> SUFFICES ASSUME NoFalseStart, ReadsRam
             PROVE  Spec => [](misframed \/ ReadsMemory)
  OBVIOUS
<1> DEFINE ReadsInv == LinkInv /\ (~misframed => ReadsFrom(session) /\ ReadsMemory)
<1>1. Init => ReadsInv
  <2>1. Init => ReadsFrom(session)
    BY DEF Init, ProgrammerInit, ReadsRam
  <2>2. Init => ReadsMemory
    BY DEF Init, ProgrammerInit, ReadsMemory, Ended
  <2>3. QED
    BY <2>1, <2>2, LinkInit
<1>2. ReadsInv /\ [Next]_vars => ReadsInv'
  <2>1. SUFFICES ASSUME ReadsInv, [Next]_vars, ~misframed'
                 PROVE  ReadsFrom(session)' /\ ReadsMemory'
    BY LinkStep
  <2>2. LinkInv /\ ReadsFrom(session) /\ ReadsMemory
    BY <2>1, MisframedStays
  <2>3. QED
    BY <2>1, <2>2, ReadsStep
<1>3. ReadsInv => misframed \/ ReadsMemory
  OBVIOUS
<1>4. QED
  BY <1>1, <1>2, <1>3, PTL DEF Spec

----------------------------------------------------------------------------
(* The requests of a command that writes.                                  *)

Writers == {"upload", "write", "run"}
Size(c) == BlockCount(Len(c.wdata))

LEMMA WriterRequests ==
  ASSUME NEW c \in Commands, c.name \in Writers
  PROVE  LET t == Requests(c) n == Size(c) IN
         /\ n \in Nat /\ Len(t) \in {2 * n, 2 * n + 1} /\ Len(t) >= 1
         /\ \A k \in 1 .. 2 * n : \E b \in 1 .. n : k = 2 * b - 1 \/ k = 2 * b
         /\ \A b \in 1 .. n : t[2 * b - 1] = WriteOf(c.addr, c.wdata, b) /\ t[2 * b] = WdataOf(c.wdata, b)
         /\ Len(t) = 2 * n + 1 =>
              t[2 * n + 1].type = P_JUMP /\ t[2 * n + 1].fatal = TRUE /\ t[2 * n + 1].blk = n
<1> DEFINE t == Requests(c)
           n == Size(c)
           w == WriteMem(c.addr, c.wdata)
           j == Request(P_JUMP, <<c.addr>>, 0, TRUE, BlockCount(Len(c.wdata)))
<1>1. /\ n \in Nat /\ w \in Seq(AnyRequest) /\ Len(w) = 2 * n
      /\ c.wdata # <<>> => n >= 1
      /\ \A k \in 1 .. 2 * n : \E b \in 1 .. n : k = 2 * b - 1 \/ k = 2 * b
      /\ \A b \in 1 .. n : w[2 * b - 1] = WriteOf(c.addr, c.wdata, b) /\ w[2 * b] = WdataOf(c.wdata, b)
  BY WriteMemParts DEF Size
<1>2. /\ c.name \in {"upload", "write"} => t = w /\ c.wdata # <<>>
      /\ c.name = "run" => t = w \o <<j>>
  BY RequestsParts, CommandParts
<1>3. j.type = P_JUMP /\ j.fatal = TRUE /\ j.blk = n
  BY DEF Request, Size
<1> HIDE DEF t, n, w, j
<1>4. CASE c.name \in {"upload", "write"}
  <2>1. t = w /\ n >= 1
    BY <1>1, <1>2, <1>4
  <2>2. Len(t) = 2 * n /\ Len(t) >= 1 /\ Len(t) # 2 * n + 1
    BY <1>1, <2>1
  <2>3. QED
    BY <1>1, <2>1, <2>2 DEF t, n
<1>5. CASE c.name = "run"
  <2>1. Len(t) = 2 * n + 1 /\ t[2 * n + 1] = j /\ \A k \in 1 .. 2 * n : t[k] = w[k]
    <3>1. t = Append(w, j)
      BY <1>1, <1>2, <1>5
    <3>2. QED
      BY <1>1, <3>1
  <2>2. \A b \in 1 .. n : 2 * b - 1 \in 1 .. 2 * n /\ 2 * b \in 1 .. 2 * n
    BY <1>1
  <2>3. \A b \in 1 .. n : t[2 * b - 1] = WriteOf(c.addr, c.wdata, b) /\ t[2 * b] = WdataOf(c.wdata, b)
    BY <1>1, <2>1, <2>2
  <2>4. Len(t) >= 1 /\ Len(t) \in {2 * n, 2 * n + 1}
    BY <1>1, <2>1
  <2>5. QED
    BY <1>1, <1>3, <2>1, <2>3, <2>4 DEF t, n
<1>6. QED
  BY <1>4, <1>5 DEF Writers

\* A request before any block has been written.
Fresh(r) == r.type # P_WDATA /\ (r.blk = 0 \/ (r.type = P_WRITE /\ r.blk = 1))
\* What request i of s, of command c that writes, is, and what comes after it.
Preparing(s, i) ==
  /\ s[i].type \in {P_SPEED, P_PING} /\ s[i].fatal = FALSE /\ s[i].drops \in {0, 1}
  /\ i + 1 + s[i].drops <= Len(s) /\ Fresh(s[i + 1]) /\ Fresh(s[i + 1 + s[i].drops])
Addressing(s, i, c, b) ==
  /\ s[i] = WriteOf(c.addr, c.wdata, b) /\ i + 1 <= Len(s) /\ s[i + 1] = WdataOf(c.wdata, b)
  /\ i + 2 <= Len(s) => s[i + 2].type # P_WDATA
Writing(s, i, c, b) ==
  /\ s[i] = WdataOf(c.wdata, b)
  /\ i < Len(s) => \/ s[i + 1].type = P_WRITE /\ s[i + 1].blk = b + 1
                   \/ s[i + 1].type = P_JUMP /\ s[i + 1].blk = b
  /\ i = Len(s) => b = Size(c)
Jumping(s, i, c) ==
  i = Len(s) /\ s[i].type = P_JUMP /\ s[i].fatal = TRUE /\ s[i].blk = Size(c)

LEMMA WriterSteps ==
  ASSUME NEW c \in Commands, c.name \in Writers
  PROVE  LET s == Begin(c).todo IN
         /\ Len(s) >= 1 /\ Fresh(s[1])
         /\ \A i \in 1 .. Len(s) :
              \/ Preparing(s, i)
              \/ \E b \in 1 .. Size(c) : Addressing(s, i, c, b) \/ Writing(s, i, c, b)
              \/ Jumping(s, i, c)
<1> DEFINE s == Begin(c).todo
           t == Requests(c)
           n == Size(c)
<1>1. PICK o \in {0, 2} :
        /\ Len(t) \in Nat /\ Len(t) >= 1 /\ Len(s) = o + Len(t)
        /\ \A i \in 1 .. Len(t) : s[o + i] = t[i]
        /\ \A i \in 1 .. o :
             /\ s[i].type \in {P_SPEED, P_PING} /\ s[i].fatal = FALSE /\ s[i].blk = 0
             /\ s[i].drops \in {0, 1} /\ i + 1 + s[i].drops <= 3
  BY SpeedSteps
<1>2. /\ n \in Nat /\ Len(t) \in {2 * n, 2 * n + 1}
      /\ \A k \in 1 .. 2 * n : \E b \in 1 .. n : k = 2 * b - 1 \/ k = 2 * b
      /\ \A b \in 1 .. n : t[2 * b - 1] = WriteOf(c.addr, c.wdata, b) /\ t[2 * b] = WdataOf(c.wdata, b)
      /\ Len(t) = 2 * n + 1 =>
           t[2 * n + 1].type = P_JUMP /\ t[2 * n + 1].fatal = TRUE /\ t[2 * n + 1].blk = n
  BY WriterRequests
<1>3. /\ \A b : WriteOf(c.addr, c.wdata, b).type = P_WRITE /\ WriteOf(c.addr, c.wdata, b).blk = b
      /\ \A b : WdataOf(c.wdata, b).type = P_WDATA /\ WdataOf(c.wdata, b).blk = b
  BY DEF WriteOf, WdataOf, Request
<1>4. P_WDATA \notin {P_SPEED, P_PING, P_WRITE, P_JUMP}
  BY Numbers DEF TypeNumbers
<1> HIDE DEF s, t, n
<1>5. \A b \in 1 .. n : 2 * b - 1 \in 1 .. Len(t) /\ 2 * b \in 1 .. Len(t)
  BY <1>2, SMTT(30)
<1>6. /\ \A b \in 1 .. n : /\ s[o + (2 * b - 1)] = WriteOf(c.addr, c.wdata, b)
                           /\ s[o + 2 * b] = WdataOf(c.wdata, b)
      /\ Len(t) = 2 * n + 1 =>
           s[o + (2 * n + 1)].type = P_JUMP /\ s[o + (2 * n + 1)].fatal = TRUE /\ s[o + (2 * n + 1)].blk = n
  <2>1. \A i \in 1 .. Len(t) : s[o + i] = t[i]
    BY <1>1
  <2>2. ASSUME NEW b \in 1 .. n
        PROVE  s[o + (2 * b - 1)] = WriteOf(c.addr, c.wdata, b) /\ s[o + 2 * b] = WdataOf(c.wdata, b)
    <3>1. s[o + (2 * b - 1)] = t[2 * b - 1] /\ s[o + 2 * b] = t[2 * b]
      BY <1>5, <2>1
    <3>2. t[2 * b - 1] = WriteOf(c.addr, c.wdata, b) /\ t[2 * b] = WdataOf(c.wdata, b)
      BY <1>2
    <3>3. QED
      BY <3>1, <3>2
  <2>3. ASSUME Len(t) = 2 * n + 1
        PROVE  s[o + (2 * n + 1)] = t[2 * n + 1]
    <3>1. 2 * n + 1 \in 1 .. Len(t)
      BY <1>2, <2>3
    <3>2. QED
      BY <2>1, <3>1
  <2>4. QED
    BY <1>2, <2>2, <2>3
<1>7. Fresh(s[o + 1])
  <2>1. CASE n >= 1
    <3>1. 1 \in 1 .. n /\ 2 * 1 - 1 = 1
      BY <1>2, <2>1
    <3>2. s[o + 1] = WriteOf(c.addr, c.wdata, 1)
      BY <1>6, <3>1
    <3>3. QED
      BY <1>3, <1>4, <3>2 DEF Fresh
  <2>2. CASE n = 0
    <3>1. Len(t) = 2 * n + 1 /\ 2 * n + 1 = 1
      BY <1>1, <1>2, <2>2
    <3>2. QED
      BY <1>4, <1>6, <2>2, <3>1 DEF Fresh
  <2>3. QED
    BY <1>2, <2>1, <2>2
<1>8. \A i \in 1 .. o : Fresh(s[i])
  BY <1>1, <1>4 DEF Fresh
<1>9. Len(s) >= 1 /\ Fresh(s[1])
  BY <1>1, <1>7, <1>8
<1>10. ASSUME NEW i \in 1 .. o
       PROVE  Preparing(s, i)
  <2>1. o = 2 /\ i \in {1, 2} /\ Len(s) >= 3
    BY <1>1, <1>10
  <2>2. /\ i + 1 \in {2, 3} /\ s[i].drops \in {0, 1} /\ i + 1 + s[i].drops <= 3
        /\ i + 1 + s[i].drops \in {2, 3}
    BY <1>1, <1>10, <2>1
  <2>3. \A k \in {2, 3} : Fresh(s[k])
    BY <1>7, <1>8, <2>1
  <2>4. i + 1 + s[i].drops <= Len(s)
    BY <2>1, <2>2
  <2>5. QED
    BY <1>1, <1>10, <2>2, <2>3, <2>4 DEF Preparing
<1>11. ASSUME NEW b \in 1 .. n
       PROVE  Addressing(s, o + (2 * b - 1), c, b)
  <2>1. o + (2 * b - 1) + 1 = o + 2 * b /\ o + 2 * b <= Len(s)
    BY <1>1, <1>5, <1>2
  <2>2. ASSUME o + (2 * b - 1) + 2 <= Len(s)
        PROVE  s[o + (2 * b - 1) + 2].type # P_WDATA
    <3>1. CASE b = n
      <4>1. Len(t) = 2 * n + 1 /\ o + (2 * b - 1) + 2 = o + (2 * n + 1)
        BY <1>1, <1>2, <2>2, <3>1
      <4>2. QED
        BY <1>4, <1>6, <4>1
    <3>2. CASE b # n
      <4>1. b + 1 \in 1 .. n /\ o + (2 * b - 1) + 2 = o + (2 * (b + 1) - 1)
        BY <1>1, <1>2, <3>2
      <4>2. QED
        BY <1>3, <1>4, <1>6, <4>1
    <3>3. QED
      BY <3>1, <3>2
  <2>3. QED
    BY <1>6, <2>1, <2>2 DEF Addressing
<1>12. ASSUME NEW b \in 1 .. n
       PROVE  Writing(s, o + 2 * b, c, b)
  <2>1. CASE b = n
    <3>1. o + 2 * b < Len(s) => Len(t) = 2 * n + 1 /\ o + 2 * b + 1 = o + (2 * n + 1)
      BY <1>1, <1>2, <2>1
    <3>2. QED
      BY <1>6, <2>1, <3>1 DEF Writing, n
  <2>2. CASE b # n
    <3>1. /\ b + 1 \in 1 .. n /\ o + 2 * b + 1 = o + (2 * (b + 1) - 1)
          /\ o + 2 * b # Len(s)
      BY <1>1, <1>2, <2>2, SMTT(30)
    <3>2. s[o + 2 * b + 1] = WriteOf(c.addr, c.wdata, b + 1)
      BY <1>6, <3>1
    <3>3. QED
      BY <1>3, <1>6, <3>1, <3>2 DEF Writing
  <2>3. QED
    BY <2>1, <2>2
<1>13. ASSUME NEW i \in 1 .. Len(s)
       PROVE  \/ Preparing(s, i)
              \/ \E b \in 1 .. n : Addressing(s, i, c, b) \/ Writing(s, i, c, b)
              \/ Jumping(s, i, c)
  <2>1. CASE i <= o
    <3>1. i \in 1 .. o
      BY <1>1, <2>1
    <3>2. QED
      BY <1>10, <3>1
  <2>2. CASE i > o /\ i - o <= 2 * n
    <3>1. i - o \in 1 .. 2 * n
      BY <1>1, <1>2, <2>2
    <3>2. PICK b \in 1 .. n : i - o = 2 * b - 1 \/ i - o = 2 * b
      BY <1>2, <3>1
    <3>3. i = o + (2 * b - 1) \/ i = o + 2 * b
      BY <1>1, <1>2, <3>2
    <3>4. QED
      BY <1>11, <1>12, <3>3
  <2>3. CASE i > o /\ i - o > 2 * n
    <3>1. Len(t) = 2 * n + 1 /\ i = o + (2 * n + 1) /\ i = Len(s)
      BY <1>1, <1>2, <2>3
    <3>2. QED
      BY <1>6, <3>1 DEF Jumping, n
  <2>4. QED
    BY <1>1, <1>2, <2>1, <2>2, <2>3
<1>14. QED
  BY <1>9, <1>13 DEF s, n

----------------------------------------------------------------------------
(* Writes.                                                                 *)

\* What a session writes goes to memory.
WritesTo(s) ==
  \A i \in 1 .. Len(s) : s[i].name \in Writers =>
    \A j \in 1 .. Len(s[i].wdata) : s[i].addr + j - 1 \in Ram
\* Memory does not begin at 1: a P_WDATA that comes before any P_WRITE, and was another request of
\* one or two words, does not reach it.
WritesRam == 1 \notin Ram /\ \A s \in Sessions : WritesTo(s)

\* After the last complete packet, memory holds block b.
Held(b) ==
  \A i \in 1 .. Len(BlockOf(Command.wdata, b)) :
    handled[Command.addr + From(b) + i - 1] = Command.wdata[From(b) + i]
\* Block b has been written.
Due(b) ==
  \/ result = "ok"
  \/ result = "busy" /\ \/ b < Present.blk
                        \/ b = Present.blk /\ (Present.type = P_JUMP \/ (Present.type = P_WDATA /\ Replied))
\* The address of a block is known once its P_WRITE has been carried out.
Addressed ==
  Command.name \in Writers /\ result = "busy" =>
    /\ Present.type = P_WRITE /\ Replied => rom = "rom" /\ waddr = Present.data[1]
    /\ Present.type = P_WDATA => rom = "rom" /\ waddr = Command.addr + From(Present.blk)
Written ==
  Command.name \in Writers /\ faults <= RetryCount /\ ~mistaken =>
    \A b \in 1 .. Size(Command) : Due(b) => Held(b)

LEMMA BlocksApart ==
  ASSUME NEW wdata \in Seq(Bytes), Len(wdata) < Base, NEW b \in 1 .. BlockCount(Len(wdata)),
         NEW e \in 1 .. BlockCount(Len(wdata)), b < e
  PROVE  /\ From(b) \in Nat /\ From(e) \in Nat /\ Len(BlockOf(wdata, b)) \in Nat
         /\ From(b) + Len(BlockOf(wdata, b)) <= From(e)
<1>1. BlockSize \in Nat /\ BlockSize >= 1
  BY ProgrammerAssumption
<1>2. /\ BlockCount(Len(wdata)) \in Nat /\ From(b) \in Nat /\ From(e) \in Nat
  BY BlockRange
<1>3. Len(BlockOf(wdata, b)) = BlockSize
  BY <1>2, BlockParts
<1>4. From(b) + BlockSize <= From(e)
  <2>1. (b - 1) * BlockSize + BlockSize = b * BlockSize
    BY <1>1, <1>2
  <2>2. b <= e - 1 /\ b \in Nat /\ e - 1 \in Nat
    BY <1>2
  <2>3. b * BlockSize <= (e - 1) * BlockSize
    BY <1>1, <2>2
  <2>4. QED
    BY <2>1, <2>3 DEF From
<1>5. QED
  BY <1>1, <1>2, <1>3, <1>4

\* Every byte is in a block.
LEMMA BlockWith ==
  ASSUME NEW wdata \in Seq(Bytes), Len(wdata) < Base, NEW j \in 1 .. Len(wdata)
  PROVE  \E b \in 1 .. BlockCount(Len(wdata)) :
           From(b) < j /\ j <= From(b) + Len(BlockOf(wdata, b))
<1> DEFINE n == BlockCount(Len(wdata))
           T == {b \in 1 .. n : From(b) < j}
<1>1. Len(wdata) \in Nat /\ BlockSize \in Nat /\ BlockSize >= 1
  BY ProgrammerAssumption
<1>2. n \in Nat /\ n >= 1
  <2>1. Len(wdata) + BlockSize - 1 \in Nat /\ Len(wdata) + BlockSize - 1 >= BlockSize
    BY <1>1
  <2>2. QED
    BY <1>1, <2>1, Divided DEF BlockCount
<1>3. 1 \in T
  <2>1. 1 - 1 = 0 /\ 0 * BlockSize = 0
    BY <1>1
  <2>2. From(1) = 0
    BY <2>1 DEF From
  <2>3. QED
    BY <1>2, <2>2
<1> HIDE DEF n
<1>4. PICK b \in T : b + 1 \notin T
  <2>1. ASSUME \A b \in T : b + 1 \in T
        PROVE  FALSE
    <3>1. \A i \in 0 .. n : i \in T \cup {0}
      <4>1. \A i \in 0 .. n - 1 : i \in T \cup {0} => i + 1 \in T \cup {0}
        BY <1>2, <1>3, <2>1
      <4> HIDE DEF T
      <4>2. QED
        BY <1>2, <4>1, Upto
    <3>2. n \in T
      BY <1>2, <3>1
    <3>3. n + 1 \in T
      BY <2>1, <3>2
    <3>4. QED
      BY <1>2, <3>3
  <2>2. QED
    BY <2>1
<1>5. b \in 1 .. n /\ From(b) < j /\ From(b) \in Nat /\ Len(BlockOf(wdata, b)) \in Nat
  BY <1>1, <1>4, BlockRange, BlockParts DEF n
<1>6. CASE b = n
  BY <1>1, <1>5, <1>6, BlockParts DEF n
<1>7. CASE b # n
  <2>1. b + 1 \in 1 .. n /\ b < n
    BY <1>2, <1>5, <1>7
  <2>2. ~(From(b + 1) < j) /\ From(b + 1) \in Nat
    BY <1>1, <1>4, <2>1, BlockRange DEF n
  <2>3. From(b + 1) = From(b) + Len(BlockOf(wdata, b))
    BY <1>1, <1>5, <2>1, BlockRange, BlockParts DEF n
  <2>4. QED
    BY <1>1, <1>5, <2>2, <2>3 DEF n
<1>8. QED
  BY <1>5, <1>6, <1>7 DEF n

LEMMA WriteKinds ==
  /\ \A addr, wdata, b :
       LET r == WriteOf(addr, wdata, b) IN
       r.type = P_WRITE /\ r.blk = b /\ r.drops = 1 /\ r.fatal = FALSE /\ r.data[1] = addr + From(b)
  /\ \A wdata, b :
       LET r == WdataOf(wdata, b) IN
       r.type = P_WDATA /\ r.blk = b /\ r.drops = 0 /\ r.fatal = FALSE /\ r.data = BlockOf(wdata, b)
BY DEF WriteOf, WdataOf, Request

LEMMA WriterPlace ==
  ASSUME Typed, result = "busy", Command.name \in Writers, NEW i, AtStep(i)
  PROVE  /\ Present = Steps[i] /\ i \in 1 .. Len(Steps) /\ Len(Steps) \in Nat
         /\ \/ Preparing(Steps, i)
            \/ \E b \in 1 .. Size(Command) : Addressing(Steps, i, Command, b) \/ Writing(Steps, i, Command, b)
            \/ Jumping(Steps, i, Command)
<1>1. Command \in Commands
  BY CommandType DEF Typed, Course
<1>2. Len(Steps) \in Nat /\ i \in 1 .. Len(Steps) /\ Present = Steps[i]
  BY StepsFacts DEF Typed, AtStep
<1>3. QED
  BY <1>1, <1>2, WriterSteps DEF Steps

LEMMA WdataPlace ==
  ASSUME Typed, result = "busy", Command.name \in Writers, Present.type = P_WDATA
  PROVE  Present.blk \in 1 .. Size(Command) /\ Present = WdataOf(Command.wdata, Present.blk)
<1>1. PICK i : AtStep(i)
  BY PresentStep DEF Typed
<1>2. P_WDATA \notin {P_SPEED, P_PING, P_WRITE, P_JUMP}
  BY Numbers DEF TypeNumbers
<1>3. ~Preparing(Steps, i) /\ ~Jumping(Steps, i, Command) /\ Present = Steps[i]
  BY <1>1, <1>2, WriterPlace DEF Preparing, Jumping
<1>4. PICK b \in 1 .. Size(Command) : Addressing(Steps, i, Command, b) \/ Writing(Steps, i, Command, b)
  BY <1>1, <1>3, WriterPlace
<1>5. Present = WdataOf(Command.wdata, b)
  BY <1>2, <1>3, <1>4, WriteKinds DEF Addressing, Writing
<1>6. QED
  BY <1>5, WriteKinds

\* Where the bytes of a block are.
LEMMA HeldRange ==
  ASSUME Typed, WritesTo(session), Command.name \in Writers, NEW b \in 1 .. Size(Command)
  PROVE  /\ Command.addr \in Nat /\ From(b) \in Nat /\ Len(BlockOf(Command.wdata, b)) \in Nat
         /\ \A i \in 1 .. Len(BlockOf(Command.wdata, b)) :
              /\ Command.addr + From(b) + i - 1 \in Ram
              /\ BlockOf(Command.wdata, b)[i] = Command.wdata[From(b) + i]
<1>1. /\ Command \in Commands /\ Command = session[1] /\ 1 \in 1 .. Len(session)
  BY CommandType DEF Typed, Course, Command
<1>2. /\ Command.addr \in Nat /\ Command.wdata \in Seq(Bytes) /\ Len(Command.wdata) \in Nat
      /\ Len(Command.wdata) < Base
  BY <1>1, CommandParts DEF Bytes
<1>3. \A j \in 1 .. Len(Command.wdata) : Command.addr + j - 1 \in Ram
  BY <1>1 DEF WritesTo
<1>4. /\ From(b) \in Nat /\ Len(BlockOf(Command.wdata, b)) \in Nat
      /\ From(b) + Len(BlockOf(Command.wdata, b)) <= Len(Command.wdata)
      /\ \A i \in 1 .. Len(BlockOf(Command.wdata, b)) :
           BlockOf(Command.wdata, b)[i] = Command.wdata[From(b) + i]
  BY <1>2, BlockRange, BlockParts DEF Size
<1>5. ASSUME NEW i \in 1 .. Len(BlockOf(Command.wdata, b))
      PROVE  Command.addr + From(b) + i - 1 \in Ram
  <2>1. From(b) + i \in 1 .. Len(Command.wdata)
    BY <1>2, <1>4
  <2>2. Command.addr + (From(b) + i) - 1 = Command.addr + From(b) + i - 1
    BY <1>2, <1>4
  <2>3. QED
    BY <1>3, <2>1, <2>2
<1>6. QED
  BY <1>2, <1>4, <1>5

\* A complete packet leaves blocks before the present one as they were.
LEMMA ExecutedKeeps ==
  ASSUME Typed, Executed, Addressed, WritesTo(session), Command.name \in Writers, 1 \notin Ram,
         ~mistaken', NEW b \in 1 .. Size(Command), Held(b), Present.type = P_WDATA => b < Present.blk
  PROVE  \A i \in 1 .. Len(BlockOf(Command.wdata, b)) :
           mem[Command.addr + From(b) + i - 1] = Command.wdata[From(b) + i]
<1>1. result = "busy" /\ CarriedOut
  BY DEF Executed
<1>2. PICK p \in Arrivals(Sent, upHit) :
        Stored(p, Len(Sent) - 1) /\ rrx.header.type = p[2] /\ mistaken' = (mistaken \/ Mistaken)
  BY <1>1 DEF CarriedOut
<1>3. /\ Len(Sent) = Len(Present.data) + 4 /\ Len(Present.data) \in Nat
      /\ Read(Len(Sent) - 1) = Len(Present.data) /\ Len(Sent) - 1 >= 3
  BY <1>1, SentParts DEF Read
<1>4. CASE p[2] # P_WDATA
  <2>1. mem = handled
    BY <1>2, <1>4 DEF Stored
  <2>2. QED
    BY <2>1 DEF Held
<1>5. CASE p[2] = P_WDATA
  <2>1. mem = Overlaid(p, Len(Present.data))
    BY <1>2, <1>3, <1>5 DEF Stored
  <2>2. \A a \in Ram : a \notin waddr .. waddr + Len(Present.data) - 1 => mem[a] = handled[a]
    BY <2>1 DEF Overlaid
  <2>3. /\ Command.addr \in Nat /\ From(b) \in Nat /\ Len(BlockOf(Command.wdata, b)) \in Nat
        /\ \A i \in 1 .. Len(BlockOf(Command.wdata, b)) : Command.addr + From(b) + i - 1 \in Ram
    BY HeldRange
  <2>4. ASSUME NEW i \in 1 .. Len(BlockOf(Command.wdata, b))
        PROVE  Command.addr + From(b) + i - 1 \notin waddr .. waddr + Len(Present.data) - 1
    <3>1. CASE Present.type = P_WDATA
      <4>1. waddr = Command.addr + From(Present.blk) /\ Present.blk \in 1 .. Size(Command)
        BY <1>1, <3>1, WdataPlace DEF Addressed
      <4>2. Command.wdata \in Seq(Bytes) /\ Len(Command.wdata) < Base
        BY CommandType, CommandParts DEF Typed, Course
      <4>3. PICK e : e = Present.blk
        OBVIOUS
      <4>4. e \in 1 .. BlockCount(Len(Command.wdata)) /\ b < e
        BY <3>1, <4>1, <4>3 DEF Size
      <4>5. From(e) \in Nat /\ From(b) + Len(BlockOf(Command.wdata, b)) <= From(e)
        BY <4>2, <4>4, BlocksApart DEF Size
      <4>6. waddr = Command.addr + From(e)
        BY <4>1, <4>3
      <4>7. QED
        BY <2>3, <4>5, <4>6, SMTT(30)
    <3>2. CASE Present.type # P_WDATA
      <4>1. ~Mistaken /\ rrx.header.type = P_WDATA
        BY <1>2, <1>5
      <4>2. waddr = 0
        BY <3>2, <4>1 DEF Mistaken
      <4>3. Len(Present.data) <= 2
        BY <1>1, <3>2, PresentData
      <4>4. Command.addr + From(b) + i - 1 \notin {0, 1}
        BY <2>3, Constants
      <4>5. QED
        BY <1>3, <4>2, <4>3, <4>4
    <3>3. QED
      BY <3>1, <3>2
  <2>5. QED
    BY <2>2, <2>3, <2>4 DEF Held
<1>6. QED
  BY <1>4, <1>5

\* An intact P_WDATA leaves its block in memory.
LEMMA ExecutedWrites ==
  ASSUME Typed, Executed, Addressed, WritesTo(session), Command.name \in Writers,
         Present.type = P_WDATA, upHit = "none"
  PROVE  \A i \in 1 .. Len(BlockOf(Command.wdata, Present.blk)) :
           mem[Command.addr + From(Present.blk) + i - 1] = Command.wdata[From(Present.blk) + i]
<1>1. result = "busy" /\ CarriedOut
  BY DEF Executed
<1>2. PICK e : e = Present.blk
  OBVIOUS
<1>3. e \in 1 .. Size(Command) /\ Present = WdataOf(Command.wdata, e) /\ waddr = Command.addr + From(e)
  BY <1>1, <1>2, WdataPlace DEF Addressed
<1>4. Present.data = BlockOf(Command.wdata, e)
  BY <1>3, WriteKinds
<1>5. /\ Len(Sent) = Len(Present.data) + 4 /\ Len(Present.data) \in Nat /\ Sent[2] = P_WDATA
      /\ Read(Len(Sent) - 1) = Len(Present.data) /\ Len(Sent) - 1 >= 3
      /\ \A i \in 1 .. Len(Present.data) : Sent[3 + i] = Present.data[i]
  BY <1>1, SentParts DEF Read
<1>6. Stored(Sent, Len(Sent) - 1)
  BY <1>1 DEF CarriedOut, Arrivals
<1>7. mem = Overlaid(Sent, Len(Present.data))
  BY <1>5, <1>6 DEF Stored
<1>8. \A a \in Ram : a \in waddr .. waddr + Len(Present.data) - 1 => mem[a] = Sent[4 + a - waddr]
  BY <1>7 DEF Overlaid
<1>9. /\ Command.addr \in Nat /\ From(e) \in Nat
      /\ \A i \in 1 .. Len(Present.data) :
           /\ Command.addr + From(e) + i - 1 \in Ram
           /\ Present.data[i] = Command.wdata[From(e) + i]
  BY <1>3, <1>4, HeldRange
<1>10. ASSUME NEW i \in 1 .. Len(Present.data)
       PROVE  mem[Command.addr + From(e) + i - 1] = Command.wdata[From(e) + i]
  <2> DEFINE a == Command.addr + From(e) + i - 1
  <2>1. a \in waddr .. waddr + Len(Present.data) - 1 /\ 4 + a - waddr = 3 + i
    <3>1. Command.addr + From(e) \in Nat /\ a = waddr + i - 1
      BY <1>3, <1>9
    <3>2. waddr \in Nat
      BY <1>3, <3>1
    <3> HIDE DEF a
    <3>3. QED
      BY <1>5, <3>1, <3>2, SMTT(30)
  <2>2. a \in Ram
    BY <1>9
  <2> HIDE DEF a
  <2>3. mem[a] = Sent[3 + i]
    BY <1>8, <2>1, <2>2
  <2>4. QED
    BY <1>5, <1>9, <2>3 DEF a
<1>11. QED
  BY <1>2, <1>4, <1>10

LEMMA FreshNow ==
  ASSUME result = "busy", ~awaiting, Fresh(Present)
  PROVE  Addressed /\ Written
<1>1. P_WDATA # P_WRITE /\ P_WDATA # P_JUMP /\ P_WRITE # P_JUMP
  BY Numbers DEF TypeNumbers
<1>2. Present.type # P_WDATA /\ (Present.blk = 0 \/ (Present.type = P_WRITE /\ Present.blk = 1))
  BY DEF Fresh
<1>3. ~Replied
  BY DEF Replied
<1>4. Addressed
  BY <1>2, <1>3 DEF Addressed
<1>5. ASSUME NEW b \in 1 .. Size(Command), Due(b)
      PROVE  FALSE
  <2>1. b < Present.blk \/ (b = Present.blk /\ Present.type = P_JUMP)
    BY <1>2, <1>5 DEF Due
  <2>2. b >= 1
    OBVIOUS
  <2>3. QED
    BY <1>1, <1>2, <2>1, <2>2
<1>6. Written
  BY <1>5 DEF Written
<1>7. QED
  BY <1>4, <1>6

LEMMA FreshNext == (result = "busy")' /\ (~awaiting)' /\ (Fresh(Present))' => Addressed' /\ Written'
<1>1. result = "busy" /\ ~awaiting /\ Fresh(Present) => Addressed /\ Written
  BY FreshNow
<1>2. QED
  BY <1>1, PTL

LEMMA WritesBegin ==
  ASSUME Typed, Typed', Begun
  PROVE  Addressed' /\ Written'
<1>1. CASE Command'.name \in Writers
  <2>1. Command' \in Commands /\ Steps' = Begin(Command').todo
    BY DEF Typed, Course, Steps, Command
  <2>2. PICK c \in Commands : c = Command'
    BY <2>1
  <2>3. Fresh(Begin(c).todo[1]) /\ Len(Begin(c).todo) >= 1
    BY <1>1, <2>2, WriterSteps
  <2>4. Present' = Begin(c).todo[1]
    BY <2>1, <2>2 DEF Begun, Present
  <2>5. QED
    BY <2>3, <2>4, FreshNext DEF Begun
<1>2. CASE Command'.name \notin Writers
  BY <1>2 DEF Addressed, Written
<1>3. QED
  BY <1>1, <1>2

\* What is due stays.
LEMMA WritesSame ==
  ASSUME session' = session, handled' = handled, mistaken' = mistaken, Written,
         faults' <= RetryCount => faults <= RetryCount,
         \A b \in 1 .. Size(Command) :
           (\/ result' = "ok"
            \/ result' = "busy" /\ b < Present'.blk
            \/ /\ result' = "busy" /\ b = Present'.blk
               /\ Present'.type = P_JUMP \/ (Present'.type = P_WDATA /\ Replied'))
           => Due(b)
  PROVE  Written'
<1>1. Command' = Command
  BY DEF Command
<1>2. SUFFICES ASSUME Command.name \in Writers, faults' <= RetryCount, ~mistaken,
                      NEW b \in 1 .. Size(Command), Due(b)'
               PROVE  Held(b)'
  BY <1>1 DEF Written
<1>3. Due(b)
  BY <1>2 DEF Due
<1>4. Held(b)
  BY <1>2, <1>3 DEF Written
<1>5. QED
  BY <1>1, <1>4 DEF Held

LEMMA WritesPassed ==
  ASSUME Typed, Passed, Addressed, Written, Command.name \in Writers
  PROVE  Addressed' /\ Written'
<1>1. /\ result = "busy" /\ ~awaiting' /\ ~Replied' /\ Command' = Command
      /\ UNCHANGED <<session, handled, mistaken, waddr, rom, faults>>
  BY DEF Passed, Still, Replied, Command
<1>2. PICK i : AtStep(i)
  BY <1>1, PresentStep DEF Typed
<1>3. /\ Present = Steps[i] /\ i \in 1 .. Len(Steps) /\ Len(Steps) \in Nat
      /\ \/ Preparing(Steps, i)
         \/ \E b \in 1 .. Size(Command) : Addressing(Steps, i, Command, b) \/ Writing(Steps, i, Command, b)
         \/ Jumping(Steps, i, Command)
  BY <1>1, <1>2, WriterPlace
<1>4. /\ result' = "busy" <=> i < Len(Steps)
      /\ result' = "busy" => Present' = Steps[i + 1]
  BY <1>2, PassedOn
<1>5. P_WDATA \notin {P_WRITE, P_JUMP, P_SPEED} /\ P_WRITE \notin {P_JUMP, P_SPEED} /\ P_JUMP # P_SPEED
  BY Numbers DEF TypeNumbers
<1>6. CASE Preparing(Steps, i)
  <2>1. result' = "busy" /\ Fresh(Steps[i + 1])
    BY <1>3, <1>4, <1>6 DEF Preparing
  <2>2. QED
    BY <1>1, <1>4, <2>1, FreshNext
<1>7. ASSUME NEW b \in 1 .. Size(Command), Addressing(Steps, i, Command, b)
      PROVE  Addressed' /\ Written'
  <2>1. result' = "busy" /\ Present' = WdataOf(Command.wdata, b) /\ Present = WriteOf(Command.addr, Command.wdata, b)
    BY <1>3, <1>4, <1>7 DEF Addressing
  <2>2. /\ Present'.type = P_WDATA /\ Present'.blk = b
        /\ Present.type = P_WRITE /\ Present.blk = b /\ Present.data[1] = Command.addr + From(b)
    BY <2>1, WriteKinds
  <2>3. rom = "rom" /\ waddr = Command.addr + From(b)
    BY <1>1, <1>5, <2>2 DEF Passed, Addressed
  <2>4. Addressed'
    BY <1>1, <1>5, <2>2, <2>3 DEF Addressed
  <2>5. Written'
    BY <1>1, <1>5, <2>1, <2>2, WritesSame DEF Due
  <2>6. QED
    BY <2>4, <2>5
<1>8. ASSUME NEW b \in 1 .. Size(Command), Writing(Steps, i, Command, b)
      PROVE  Addressed' /\ Written'
  <2>1. Present = WdataOf(Command.wdata, b)
    BY <1>3, <1>8 DEF Writing
  <2>2. Present.type = P_WDATA /\ Present.blk = b
    BY <2>1, WriteKinds
  <2>3. Replied
    BY <1>5, <2>2 DEF Passed
  <2>4. \A x \in 1 .. Size(Command) : x <= b => Due(x)
    BY <1>1, <2>2, <2>3 DEF Due
  <2>5. CASE i < Len(Steps)
    <3>1. /\ result' = "busy"
          /\ \/ Present'.type = P_WRITE /\ Present'.blk = b + 1
             \/ Present'.type = P_JUMP /\ Present'.blk = b
      BY <1>3, <1>4, <1>8, <2>5 DEF Writing
    <3>2. Addressed'
      BY <1>1, <1>5, <3>1 DEF Addressed
    <3>3. ASSUME NEW x \in 1 .. Size(Command),
                 \/ x < Present'.blk
                 \/ /\ x = Present'.blk
                    /\ Present'.type = P_JUMP \/ (Present'.type = P_WDATA /\ Replied')
          PROVE  Due(x)
      <4>1. x <= b
        BY <1>1, <1>5, <3>1, <3>3
      <4>2. QED
        BY <2>4, <4>1
    <3>4. Written'
      BY <1>1, <3>1, <3>3, WritesSame
    <3>5. QED
      BY <3>2, <3>4
  <2>6. CASE ~(i < Len(Steps))
    <3>1. i = Len(Steps) /\ result' # "busy" /\ b = Size(Command)
      BY <1>3, <1>4, <1>8, <2>6 DEF Writing
    <3>2. Addressed'
      BY <3>1 DEF Addressed
    <3>3. \A x \in 1 .. Size(Command) : x <= b
      BY <3>1
    <3>4. Written'
      BY <1>1, <2>4, <3>1, <3>3, WritesSame
    <3>5. QED
      BY <3>2, <3>4
  <2>7. QED
    BY <2>5, <2>6
<1>9. CASE Jumping(Steps, i, Command)
  <2>1. result' # "busy" /\ Present.type = P_JUMP /\ Present.blk = Size(Command)
    BY <1>3, <1>4, <1>9 DEF Jumping
  <2>2. Addressed'
    BY <2>1 DEF Addressed
  <2>3. \A x \in 1 .. Size(Command) : x < Present.blk \/ x = Present.blk
    <3>1. Size(Command) \in Nat
      BY CommandType, WriterRequests DEF Typed, Course
    <3>2. QED
      BY <2>1, <3>1
  <2>4. \A x \in 1 .. Size(Command) : Due(x)
    BY <1>1, <2>1, <2>3 DEF Due
  <2>5. Written'
    BY <1>1, <2>1, <2>4, WritesSame
  <2>6. QED
    BY <2>2, <2>5
<1>10. QED
  BY <1>3, <1>6, <1>7, <1>8, <1>9

LEMMA WritesMissed ==
  ASSUME Typed, Tried, Missed, Command.name \in Writers
  PROVE  Addressed' /\ Written'
<1>1. /\ result = "busy" /\ ~awaiting' /\ ~Replied' /\ Command' = Command
      /\ UNCHANGED <<session, handled, mistaken, waddr, rom, faults>>
  BY DEF Missed, Still, Replied, Command
<1>2. PICK i : AtStep(i)
  BY <1>1, PresentStep DEF Typed
<1>3. /\ Present = Steps[i] /\ i \in 1 .. Len(Steps) /\ Len(Steps) \in Nat
      /\ \/ Preparing(Steps, i)
         \/ \E b \in 1 .. Size(Command) : Addressing(Steps, i, Command, b) \/ Writing(Steps, i, Command, b)
         \/ Jumping(Steps, i, Command)
  BY <1>1, <1>2, WriterPlace
<1>4. /\ Present.fatal => result' = "failed"
      /\ ~Present.fatal =>
           /\ result' = "busy" <=> i + 1 + Present.drops <= Len(Steps)
           /\ result' = "busy" => Present' = Steps[i + 1 + Present.drops]
  BY <1>2, MissedOn
<1>5. P_WDATA \notin {P_WRITE, P_JUMP, P_SPEED} /\ P_WRITE \notin {P_JUMP, P_SPEED} /\ P_JUMP # P_SPEED
  BY Numbers DEF TypeNumbers
<1>6. CASE Preparing(Steps, i)
  <2>1. result' = "busy" /\ Present' = Steps[i + 1 + Present.drops] /\ Fresh(Steps[i + 1 + Present.drops])
    BY <1>3, <1>4, <1>6 DEF Preparing
  <2>2. QED
    BY <1>1, <2>1, FreshNext
\* An acknowledged request has used up more tries than there may be disturbances.
<1>7. ASSUME Present.type \in Acknowledged
      PROVE  Written'
  <2>1. try > RetryCount /\ try <= faults
    BY <1>1, <1>7 DEF Missed, Tried
  <2>2. try \in Nat /\ faults \in Nat /\ RetryCount \in Nat
    BY Constants DEF Typed, Course, Tried
  <2>3. ~(faults' <= RetryCount)
    BY <1>1, <2>1, <2>2
  <2>4. QED
    BY <2>3 DEF Written
<1>8. ASSUME NEW b \in 1 .. Size(Command), Addressing(Steps, i, Command, b)
      PROVE  Addressed' /\ Written'
  <2>1. Present = WriteOf(Command.addr, Command.wdata, b) /\ (i + 2 <= Len(Steps) => Steps[i + 2].type # P_WDATA)
    BY <1>3, <1>8 DEF Addressing
  <2>2. Present.type = P_WRITE /\ Present.drops = 1 /\ ~Present.fatal
    BY <2>1, WriteKinds
  <2>3. result' = "busy" => Present'.type # P_WDATA
    <3>1. i + 1 + Present.drops = i + 2
      BY <1>3, <2>2
    <3>2. QED
      BY <1>4, <2>1, <2>2, <3>1
  <2>4. QED
    BY <1>1, <1>7, <2>2, <2>3 DEF Addressed, Acknowledged
<1>9. ASSUME NEW b \in 1 .. Size(Command), Writing(Steps, i, Command, b)
      PROVE  Addressed' /\ Written'
  <2>1. /\ Present = WdataOf(Command.wdata, b)
        /\ i < Len(Steps) => Steps[i + 1].type \in {P_WRITE, P_JUMP}
    BY <1>3, <1>9 DEF Writing
  <2>2. Present.type = P_WDATA /\ Present.drops = 0 /\ ~Present.fatal
    BY <2>1, WriteKinds
  <2>3. result' = "busy" => Present'.type # P_WDATA
    <3>1. i + 1 + Present.drops = i + 1 /\ (i + 1 <= Len(Steps) => i < Len(Steps))
      BY <1>3, <2>2
    <3>2. QED
      BY <1>4, <1>5, <2>1, <2>2, <3>1
  <2>4. QED
    BY <1>1, <1>7, <2>2, <2>3 DEF Addressed, Acknowledged
<1>10. CASE Jumping(Steps, i, Command)
  <2>1. Present.type = P_JUMP /\ Present.fatal = TRUE
    BY <1>3, <1>10 DEF Jumping
  <2>2. result' = "failed"
    BY <1>4, <2>1
  <2>3. QED
    BY <1>1, <1>7, <2>1, <2>2 DEF Addressed, Acknowledged
<1>11. QED
  BY <1>3, <1>6, <1>8, <1>9, <1>10

LEMMA WritesExecuted ==
  ASSUME Typed, Executed, Addressed, Written, WritesTo(session), 1 \notin Ram, Command.name \in Writers
  PROVE  Addressed' /\ Written'
<1>1. /\ result = "busy" /\ result' = "busy" /\ Present' = Present /\ Command' = Command
      /\ UNCHANGED <<session, faults, upHit>> /\ CarriedOut
  BY DEF Executed, Present, Command
<1>2. P_WDATA \notin {P_WRITE, P_JUMP, P_SPEED} /\ P_WRITE \notin {P_JUMP, P_SPEED} /\ P_JUMP # P_SPEED
  BY Numbers DEF TypeNumbers
<1>3. Replied' => upHit = "none"
  BY <1>1 DEF Replied
<1>4. Addressed'
  <2>1. ASSUME Present.type = P_WRITE, Replied'
        PROVE  rom' = "rom" /\ waddr' = Present.data[1]
    BY <1>1, <1>2, <1>3, <2>1 DEF CarriedOut, Right
  <2>2. ASSUME Present.type = P_WDATA
        PROVE  rom' = "rom" /\ waddr' = waddr
    BY <1>1, <1>2, <2>2 DEF CarriedOut, Right
  <2>3. QED
    BY <1>1, <2>1, <2>2 DEF Addressed
<1>5. SUFFICES ASSUME faults <= RetryCount, ~mistaken', NEW b \in 1 .. Size(Command), Due(b)'
               PROVE  Held(b)'
  BY <1>1, <1>4 DEF Written
<1>6. handled' = mem
  BY <1>1 DEF CarriedOut
<1>7. SUFFICES \A i \in 1 .. Len(BlockOf(Command.wdata, b)) :
                 mem[Command.addr + From(b) + i - 1] = Command.wdata[From(b) + i]
  BY <1>1, <1>6 DEF Held
<1>8. \/ b < Present.blk
      \/ b = Present.blk /\ (Present.type = P_JUMP \/ (Present.type = P_WDATA /\ Replied'))
  BY <1>1, <1>5 DEF Due
<1>9. CASE Present.type = P_WDATA /\ ~(b < Present.blk)
  <2>1. b = Present.blk /\ upHit = "none"
    BY <1>2, <1>3, <1>8, <1>9
  <2>2. QED
    BY <1>9, <2>1, ExecutedWrites
<1>10. CASE Present.type = P_WDATA => b < Present.blk
  <2>1. Due(b)
    BY <1>1, <1>8, <1>10 DEF Due
  <2>2. ~mistaken
    BY <1>1, <1>5 DEF CarriedOut
  <2>3. Held(b)
    BY <1>5, <2>1, <2>2 DEF Written
  <2>4. QED
    BY <1>5, <1>10, <2>3, ExecutedKeeps
<1>11. QED
  BY <1>9, <1>10

LEMMA WritesCalm ==
  ASSUME Typed, Tried, Calm, Addressed, Written, Command.name \in Writers
  PROVE  Addressed' /\ Written'
<1>1. /\ Present' = Present /\ Command' = Command /\ result' = result
      /\ UNCHANGED <<session, handled, mistaken>> /\ faults' \in {faults, faults + 1}
      /\ rom = "rom" => waddr' = waddr /\ rom' = rom
      /\ Present.type # P_SPEED => (Replied' <=> Replied)
  BY DEF Calm, Present, Command
<1>2. P_WDATA \notin {P_WRITE, P_JUMP, P_SPEED} /\ P_WRITE \notin {P_JUMP, P_SPEED} /\ P_JUMP # P_SPEED
  BY Numbers DEF TypeNumbers
<1>3. Addressed'
  BY <1>1, <1>2 DEF Addressed
<1>4. faults' <= RetryCount => faults <= RetryCount
  BY <1>1, Constants DEF Tried
<1>5. Written'
  BY <1>1, <1>2, <1>4, WritesSame DEF Due
<1>6. QED
  BY <1>3, <1>5

LEMMA WritesRetried ==
  ASSUME Typed, Retried, Addressed, Written
  PROVE  Addressed' /\ Written'
<1>1. /\ Present' = Present /\ Command' = Command /\ result' = "busy" /\ result = "busy"
      /\ UNCHANGED <<session, handled, mistaken, faults, waddr, rom>> /\ ~Replied'
  BY DEF Retried, Still, Present, Command, Replied
<1>2. Addressed'
  BY <1>1 DEF Addressed
<1>3. Written'
  BY <1>1, WritesSame DEF Due
<1>4. QED
  BY <1>2, <1>3

LEMMA WritesLemma ==
  ASSUME LinkInv, ~misframed, Written, WritesTo(session)
  PROVE  WritesMemory
<1> SUFFICES ASSUME result = "ok", Command.name \in Writers, faults <= RetryCount, ~mistaken
             PROVE  InMemory(Command.addr, Len(Command.wdata)) = Command.wdata
  BY DEF WritesMemory, Ended, Writers
<1>1. Typed /\ mem = handled
  BY DEF LinkInv, Typed, Together, Idling, Asking, Answering, Lost, Quiet, Garbled, Deaf
<1>2. /\ Command.addr \in Nat /\ Command.wdata \in Seq(Bytes) /\ Len(Command.wdata) \in Nat
      /\ Len(Command.wdata) < Base
  BY <1>1, CommandType, CommandParts DEF Typed, Course, Bytes
<1>3. \A b \in 1 .. Size(Command) : Held(b)
  BY DEF Written, Due
<1>4. ASSUME NEW j \in 1 .. Len(Command.wdata)
      PROVE  mem[Command.addr + j - 1] = Command.wdata[j]
  <2>1. PICK b \in 1 .. Size(Command) : From(b) < j /\ j <= From(b) + Len(BlockOf(Command.wdata, b))
    BY <1>2, BlockWith DEF Size
  <2>2. From(b) \in Nat /\ Len(BlockOf(Command.wdata, b)) \in Nat
    BY <1>1, <1>2, BlockRange, BlockParts DEF Size
  <2>3. PICK i \in 1 .. Len(BlockOf(Command.wdata, b)) : j = From(b) + i
    <3>1. j - From(b) \in 1 .. Len(BlockOf(Command.wdata, b)) /\ j = From(b) + (j - From(b))
      BY <1>2, <2>1, <2>2
    <3>2. QED
      BY <3>1
  <2>4. handled[Command.addr + From(b) + i - 1] = Command.wdata[From(b) + i]
    BY <1>3, <2>3 DEF Held
  <2>5. Command.addr + From(b) + i - 1 = Command.addr + j - 1
    BY <1>2, <2>2, <2>3
  <2>6. QED
    BY <1>1, <2>3, <2>4, <2>5
<1>5. Command.wdata = [j \in 1 .. Len(Command.wdata) |-> Command.wdata[j]]
  BY <1>2
<1>6. QED
  BY <1>4, <1>5 DEF InMemory

LEMMA WritesInit ==
  ASSUME Init, WritesRam
  PROVE  Addressed /\ Written /\ WritesTo(session)
<1>1. /\ session \in Sessions /\ todo = Steps /\ result = "busy" /\ ~awaiting
  BY DEF Init, ProgrammerInit, Steps, Command
<1>2. WritesTo(session)
  BY <1>1 DEF WritesRam
<1>3. CASE Command.name \in Writers
  <2>1. PICK c \in Commands : c = Command
    BY <1>1, ProgrammerAssumption DEF Command
  <2>2. Fresh(Begin(c).todo[1]) /\ Len(Begin(c).todo) >= 1
    BY <1>3, <2>1, WriterSteps
  <2>3. Present = Begin(c).todo[1]
    BY <1>1, <2>1, <2>2 DEF Present, Steps
  <2>4. QED
    BY <1>1, <1>2, <2>2, <2>3, FreshNow
<1>4. CASE Command.name \notin Writers
  BY <1>2, <1>4 DEF Addressed, Written
<1>5. QED
  BY <1>3, <1>4

LEMMA WritesStep ==
  ASSUME NoFalseStart, WritesRam, LinkInv, [Next]_vars, ~misframed', Tried, Addressed, Written, WritesTo(session)
  PROVE  Addressed' /\ Written' /\ WritesTo(session)'
<1>1. Typed /\ Course /\ Typed' /\ 1 \notin Ram
  BY MisframedStays, LinkStep DEF LinkInv, Typed, WritesRam
<1>2. Begun \/ Passed \/ Missed \/ Retried \/ Executed \/ Calm
  BY Kinds
<1>3. CASE Begun
  <2>1. session' = Tail(session) /\ session \in Seq(Commands) /\ session # <<>>
    BY <1>1, <1>3 DEF Begun, Course
  <2>2. /\ Len(session') = Len(session) - 1 /\ Len(session) \in Nat
        /\ \A i \in 1 .. Len(session') : session'[i] = session[i + 1]
    BY <2>1, HeadTailProperties
  <2>3. \A i \in 1 .. Len(session') : i + 1 \in 1 .. Len(session)
    BY <2>2
  <2>4. WritesTo(session)'
    BY <2>2, <2>3 DEF WritesTo
  <2>5. QED
    BY <1>1, <1>3, <2>4, WritesBegin
<1>4. CASE Passed \/ Missed \/ Retried \/ Executed \/ Calm
  <2>1. session' = session
    BY <1>4 DEF Passed, Missed, Retried, Executed, Calm, Still
  <2>2. WritesTo(session)'
    BY <2>1 DEF WritesTo
  <2>3. CASE Command.name \in Writers
    BY <1>1, <1>4, <2>2, <2>3, WritesPassed, WritesMissed, WritesRetried, WritesExecuted, WritesCalm
  <2>4. CASE Command.name \notin Writers
    BY <2>1, <2>2, <2>4 DEF Addressed, Written, Command
  <2>5. QED
    BY <2>3, <2>4
<1>5. QED
  BY <1>2, <1>3, <1>4

\* After a command that writes has succeeded with no more disturbances than it has tries for a
\* block, none of which sent another request to memory, memory holds what it was to write, as long
\* as what frames a packet arrives: in sessions that write to memory.
THEOREM WritesTrue == NoFalseStart /\ WritesRam => (Spec => [](misframed \/ WritesMemory))
<1> SUFFICES ASSUME NoFalseStart, WritesRam
             PROVE  Spec => [](misframed \/ WritesMemory)
  OBVIOUS
<1> DEFINE WritesInv == LinkInv /\ (~misframed => Tried /\ Addressed /\ Written /\ WritesTo(session))
<1>1. Init => WritesInv
  BY LinkInit, TriedInit, WritesInit
<1>2. WritesInv /\ [Next]_vars => WritesInv'
  <2>1. SUFFICES ASSUME WritesInv, [Next]_vars, ~misframed'
                 PROVE  Tried' /\ Addressed' /\ Written' /\ WritesTo(session)'
    BY LinkStep
  <2>2. LinkInv /\ Tried /\ Addressed /\ Written /\ WritesTo(session)
    BY <2>1, MisframedStays
  <2>3. QED
    BY <2>1, <2>2, TriedStep, WritesStep
<1>3. WritesInv => misframed \/ WritesMemory
  BY WritesLemma
<1>4. QED
  BY <1>1, <1>2, <1>3, PTL DEF Spec

----------------------------------------------------------------------------
(* The upload: what its blocks hold.                                       *)

\* The upload is a session of its own, of a program that does not return; its packets are framed
\* well, and its speed is the one both sides begin with.  A block can be told from memory that has
\* not been written, which is zero, and is longer than what another request carries.
UploadAlone ==
  /\ Upload \in Commands /\ Upload.name = "run" /\ Upload.speed = 0 /\ Upload.wdata # <<>>
  /\ Upload.addr \notin Returning /\ "length" \notin Hit["run"]
  /\ Divider(InitSpeed) = Divider(DefaultSpeed)
  /\ \A s \in Sessions : (\E i \in 1 .. Len(s) : s[i] = Upload) => s = <<Upload>>
  /\ 0 \notin Noise /\ BlockSize >= 2
  /\ \A b \in Blocks : \E i \in 1 .. Len(DataOf(b)) : DataOf(b)[i] # 0

\* The state of block b in memory m.
Shown(m, b) ==
  LET now == [i \in 1 .. Len(DataOf(b)) |-> m[AddressOf(b) + i - 1]]
  IN CASE now = DataOf(b) -> "image"
       [] \A i \in DOMAIN now : now[i] = 0 -> "old"
       [] OTHER -> "garbage"

Place(b) == AddressOf(b) .. AddressOf(b) + Len(DataOf(b)) - 1

LEMMA UploadBlocks ==
  ASSUME UploadAlone
  PROVE  /\ Upload.addr \in Nat /\ Upload.wdata \in Seq(Bytes) /\ Len(Upload.wdata) < Base
         /\ BlockCount(Len(Upload.wdata)) \in Nat /\ BlockCount(Len(Upload.wdata)) >= 1
         /\ \A b \in Blocks :
              /\ b \in Nat /\ DataOf(b) = BlockOf(Upload.wdata, b) /\ DataOf(b) \in Seq(Bytes)
              /\ AddressOf(b) = Upload.addr + From(b) /\ AddressOf(b) \in Nat
              /\ Len(DataOf(b)) \in Nat /\ Len(DataOf(b)) >= 1
              /\ b < BlockCount(Len(Upload.wdata)) => Len(DataOf(b)) >= 2
<1>1. /\ Upload \in Commands /\ Upload.wdata # <<>> /\ BlockSize >= 2
  BY DEF UploadAlone
<1>2. /\ Upload.addr \in Nat /\ Upload.wdata \in Seq(Bytes) /\ Len(Upload.wdata) < Base
      /\ Len(Upload.wdata) \in Nat
  BY <1>1, CommandParts DEF Bytes
<1> DEFINE w == WriteMem(Upload.addr, Upload.wdata)
           n == BlockCount(Len(Upload.wdata))
<1>3. /\ n \in Nat /\ n >= 1
      /\ \A b \in 1 .. n : w[2 * b] = WdataOf(Upload.wdata, b)
  <2> HIDE DEF w, n
  <2>1. LET v == WriteMem(Upload.addr, Upload.wdata) m == BlockCount(Len(Upload.wdata)) IN
         /\ m \in Nat /\ (Upload.wdata # <<>> => m >= 1)
         /\ \A b \in 1 .. m : v[2 * b] = WdataOf(Upload.wdata, b)
    BY <1>1, WriteMemParts
  <2>2. QED
    BY <1>1, <2>1 DEF w, n
<1>4. ASSUME NEW b \in 1 .. n
      PROVE  /\ b \in Nat /\ DataOf(b) = BlockOf(Upload.wdata, b) /\ DataOf(b) \in Seq(Bytes)
             /\ AddressOf(b) = Upload.addr + From(b) /\ AddressOf(b) \in Nat
             /\ Len(DataOf(b)) \in Nat /\ Len(DataOf(b)) >= 1
             /\ b < n => Len(DataOf(b)) >= 2
  <2>1. DataOf(b) = BlockOf(Upload.wdata, b)
    <3>1. w[2 * b].data = BlockOf(Upload.wdata, b)
      <4> HIDE DEF w, n
      <4>1. QED
        BY <1>3, WriteKinds
    <3>2. QED
      BY <3>1 DEF DataOf
  <2>2. /\ BlockOf(Upload.wdata, b) \in Seq(Bytes) /\ Len(BlockOf(Upload.wdata, b)) \in Nat
        /\ Len(BlockOf(Upload.wdata, b)) >= 1
        /\ b < n => Len(BlockOf(Upload.wdata, b)) = BlockSize
    BY <1>2, BlockParts
  <2>3. From(b) \in Nat
    BY <1>2, BlockRange
  <2>4. AddressOf(b) = Upload.addr + From(b)
    BY DEF AddressOf, From
  <2>5. QED
    <3> HIDE DEF n
    <3>1. QED
      BY <1>1, <1>2, <1>3, <2>1, <2>2, <2>3, <2>4
<1>5. QED
  BY <1>2, <1>3, <1>4 DEF Blocks

\* The places of two blocks are apart, and further than two bytes.
LEMMA PlacesApart ==
  ASSUME UploadAlone, NEW b \in Blocks, NEW e \in Blocks, b < e
  PROVE  AddressOf(b) + Len(DataOf(b)) <= AddressOf(e) /\ AddressOf(b) + 2 <= AddressOf(e)
<1>1. From(b) + Len(BlockOf(Upload.wdata, b)) <= From(e)
  BY UploadBlocks, BlocksApart DEF Blocks
<1>2. b < BlockCount(Len(Upload.wdata))
  BY UploadBlocks DEF Blocks
<1>3. From(b) \in Nat /\ From(e) \in Nat
  BY UploadBlocks, BlockRange DEF Blocks
<1>4. Len(DataOf(b)) >= 2
  BY <1>2, UploadBlocks
<1>5. /\ AddressOf(b) = Upload.addr + From(b) /\ AddressOf(e) = Upload.addr + From(e)
      /\ DataOf(b) = BlockOf(Upload.wdata, b) /\ Len(DataOf(b)) \in Nat /\ Upload.addr \in Nat
  BY UploadBlocks
<1>6. QED
  BY <1>1, <1>3, <1>4, <1>5

LEMMA ShownFacts ==
  ASSUME UploadAlone, NEW b \in Blocks, NEW m
  PROVE  /\ (\A i \in 1 .. Len(DataOf(b)) : m[AddressOf(b) + i - 1] = DataOf(b)[i]) => Shown(m, b) = "image"
         /\ (\A i \in 1 .. Len(DataOf(b)) : m[AddressOf(b) + i - 1] = 0) => Shown(m, b) = "old"
         /\ (\E i \in 1 .. Len(DataOf(b)) : m[AddressOf(b) + i - 1] # 0) => Shown(m, b) \in {"image", "garbage"}
<1> DEFINE d == DataOf(b)
           now == [i \in 1 .. Len(d) |-> m[AddressOf(b) + i - 1]]
<1>1. d \in Seq(Bytes) /\ Len(d) \in Nat /\ \E i \in 1 .. Len(d) : d[i] # 0
  BY UploadBlocks DEF UploadAlone
<1>2. Shown(m, b) = CASE now = d -> "image" [] \A i \in DOMAIN now : now[i] = 0 -> "old" [] OTHER -> "garbage"
  BY DEF Shown
<1>3. DOMAIN now = 1 .. Len(d) /\ \A i \in 1 .. Len(d) : now[i] = m[AddressOf(b) + i - 1]
  OBVIOUS
<1>4. d = [i \in 1 .. Len(d) |-> d[i]] /\ DOMAIN d = 1 .. Len(d)
  <2> HIDE DEF d
  <2>1. QED
    BY <1>1
<1>5. now = d <=> \A i \in 1 .. Len(d) : m[AddressOf(b) + i - 1] = d[i]
  <2> HIDE DEF d
  <2>1. QED
    BY <1>3, <1>4
<1>6. (now = d) => ~(\A i \in DOMAIN now : now[i] = 0)
  <2> HIDE DEF d, now
  <2>1. QED
    BY <1>1, <1>3
<1> HIDE DEF now
<1>7. QED
  BY <1>1, <1>2, <1>3, <1>5, <1>6 DEF d

\* A block that is not written to stays as it is.
LEMMA ShownSame ==
  ASSUME UploadAlone, NEW b \in Blocks, NEW m, NEW h, \A a \in Place(b) : m[a] = h[a]
  PROVE  Shown(m, b) = Shown(h, b)
<1>1. AddressOf(b) \in Nat /\ Len(DataOf(b)) \in Nat
  BY UploadBlocks
<1>2. ASSUME NEW i \in 1 .. Len(DataOf(b))
      PROVE  m[AddressOf(b) + i - 1] = h[AddressOf(b) + i - 1]
  <2>1. AddressOf(b) + i - 1 \in Place(b)
    BY <1>1 DEF Place
  <2>2. QED
    BY <2>1
<1>3. [i \in 1 .. Len(DataOf(b)) |-> m[AddressOf(b) + i - 1]]
        = [i \in 1 .. Len(DataOf(b)) |-> h[AddressOf(b) + i - 1]]
  BY <1>2
<1>4. QED
  BY <1>3 DEF Shown

----------------------------------------------------------------------------
(* The upload: its requests.                                               *)

JumpOf == Request(P_JUMP, <<Upload.addr>>, 0, TRUE, BlockCount(Len(Upload.wdata)))

LEMMA UploadSteps ==
  ASSUME UploadAlone
  PROVE  LET s == Begin(Upload).todo n == BlockCount(Len(Upload.wdata)) IN
         /\ Len(s) = 2 * n + 1 /\ s[2 * n + 1] = JumpOf
         /\ \A b \in 1 .. n : /\ s[2 * b - 1] = WriteOf(Upload.addr, Upload.wdata, b)
                              /\ s[2 * b] = WdataOf(Upload.wdata, b)
         /\ \A i \in 1 .. 2 * n : \E b \in 1 .. n : i = 2 * b - 1 \/ i = 2 * b
<1> DEFINE w == WriteMem(Upload.addr, Upload.wdata)
           n == BlockCount(Len(Upload.wdata))
<1>1. Upload \in Commands /\ Upload.name = "run" /\ Upload.speed = 0
  BY DEF UploadAlone
<1> HIDE DEF w, n
<1>2. /\ n \in Nat /\ w \in Seq(AnyRequest) /\ Len(w) = 2 * n
      /\ \A i \in 1 .. 2 * n : \E b \in 1 .. n : i = 2 * b - 1 \/ i = 2 * b
      /\ \A b \in 1 .. n : /\ w[2 * b - 1] = WriteOf(Upload.addr, Upload.wdata, b)
                           /\ w[2 * b] = WdataOf(Upload.wdata, b)
  BY <1>1, WriteMemParts DEF w, n
<1>3. Requests(Upload) = w \o <<JumpOf>> /\ Plain(Requests(Upload))
  BY <1>1, RequestsParts DEF w, JumpOf
<1>4. JumpOf \in AnyRequest
  <2>1. Upload.addr \in Bytes
    BY <1>1, CommandParts
  <2>2. <<Upload.addr>> \in Seq(Bytes) /\ Len(<<Upload.addr>>) = 1
    BY <2>1
  <2>3. Proper(Request(P_JUMP, <<Upload.addr>>, 0, TRUE, n))
    BY <1>2, <2>2, ProperRequest
  <2>4. QED
    BY <2>3 DEF Proper, JumpOf, n
<1>5. /\ Len(w \o <<JumpOf>>) = 2 * n + 1
      /\ \A i \in 1 .. 2 * n + 1 : (w \o <<JumpOf>>)[i] = IF i <= 2 * n THEN w[i] ELSE JumpOf
  <2>1. <<JumpOf>> \in Seq(AnyRequest) /\ Len(<<JumpOf>>) = 1 /\ <<JumpOf>>[1] = JumpOf
    BY <1>4
  <2>2. /\ Len(w \o <<JumpOf>>) = Len(w) + Len(<<JumpOf>>)
        /\ \A i \in 1 .. Len(w) + Len(<<JumpOf>>) :
             (w \o <<JumpOf>>)[i] = IF i <= Len(w) THEN w[i] ELSE <<JumpOf>>[i - Len(w)]
    BY <1>2, <2>1, ConcatProperties
  <2>3. ASSUME NEW i \in 1 .. 2 * n + 1
        PROVE  (w \o <<JumpOf>>)[i] = IF i <= 2 * n THEN w[i] ELSE JumpOf
    <3>1. ~(i <= 2 * n) => i - Len(w) = 1
      BY <1>2
    <3>2. QED
      BY <1>2, <2>1, <2>2, <3>1
  <2>4. QED
    BY <1>2, <2>1, <2>2, <2>3
<1>6. Begin(Upload).todo = Requests(Upload)
  <2>1. Requests(Upload) \in Seq(AnyRequest)
    BY <1>3 DEF Plain
  <2>2. Begin(Upload).todo = <<>> \o Requests(Upload)
    BY <1>1 DEF Begin
  <2>3. QED
    BY <2>1, <2>2, ConcatEmptySeq
<1>7. /\ (w \o <<JumpOf>>)[2 * n + 1] = JumpOf
      /\ \A b \in 1 .. n : /\ (w \o <<JumpOf>>)[2 * b - 1] = WriteOf(Upload.addr, Upload.wdata, b)
                           /\ (w \o <<JumpOf>>)[2 * b] = WdataOf(Upload.wdata, b)
  <2>1. ASSUME NEW b \in 1 .. n
        PROVE  2 * b - 1 \in 1 .. 2 * n + 1 /\ 2 * b - 1 <= 2 * n /\ 2 * b \in 1 .. 2 * n + 1 /\ 2 * b <= 2 * n
    BY <1>2
  <2>2. 2 * n + 1 \in 1 .. 2 * n + 1 /\ ~(2 * n + 1 <= 2 * n)
    BY <1>2
  <2>3. QED
    BY <1>2, <1>5, <2>1, <2>2
<1>8. QED
  BY <1>2, <1>3, <1>5, <1>6, <1>7 DEF n

LEMMA NameIs ==
  /\ NameOf(P_WRITE) = "P_WRITE" /\ NameOf(P_WDATA) = "P_WDATA" /\ NameOf(P_JUMP) = "P_JUMP"
  /\ P_WRITE # P_WDATA /\ P_WRITE # P_JUMP /\ P_WDATA # P_JUMP
  /\ P_SPEED \notin {P_WRITE, P_WDATA, P_JUMP}
  /\ {P_WRITE, P_WDATA, P_JUMP} \subseteq Acknowledged
BY Numbers DEF TypeNumbers, NameOf, Acknowledged

JumpKind == /\ JumpOf.type = P_JUMP /\ JumpOf.blk = BlockCount(Len(Upload.wdata)) /\ JumpOf.drops = 0
            /\ JumpOf.fatal = TRUE /\ JumpOf.data = <<Upload.addr>> /\ JumpOf.data[1] = Upload.addr
LEMMA JumpIs == JumpKind
BY DEF JumpKind, JumpOf, Request

\* Where the programmer is in an upload.
AtWrite(i, b) == i = 2 * b - 1 /\ Present = WriteOf(Upload.addr, Upload.wdata, b)
AtWdata(i, b) == i = 2 * b /\ Present = WdataOf(Upload.wdata, b)
AtJump(i) == i = 2 * BlockCount(Len(Upload.wdata)) + 1 /\ Present = JumpOf

LEMMA UploadPlace ==
  ASSUME UploadAlone, Typed, Uploading, result = "busy"
  PROVE  \E i : /\ AtStep(i) /\ i \in Nat
                /\ (\E b \in Blocks : AtWrite(i, b) \/ AtWdata(i, b)) \/ AtJump(i)
<1>1. Steps = Begin(Upload).todo
  BY DEF Steps, Command, Uploading
<1>2. PICK i : AtStep(i)
  BY PresentStep DEF Typed
<1> DEFINE n == BlockCount(Len(Upload.wdata))
<1> HIDE DEF n
<1>3. /\ Len(Steps) = 2 * n + 1 /\ Steps[2 * n + 1] = JumpOf
      /\ \A b \in 1 .. n : /\ Steps[2 * b - 1] = WriteOf(Upload.addr, Upload.wdata, b)
                           /\ Steps[2 * b] = WdataOf(Upload.wdata, b)
      /\ \A j \in 1 .. 2 * n : \E b \in 1 .. n : j = 2 * b - 1 \/ j = 2 * b
  BY <1>1, UploadSteps DEF n
<1>4. n \in Nat
  BY UploadBlocks DEF n
<1>5. i \in 1 .. 2 * n + 1 /\ Present = Steps[i]
  BY <1>2, <1>3 DEF AtStep
<1>6. CASE i = 2 * n + 1
  BY <1>2, <1>3, <1>4, <1>5, <1>6 DEF AtJump, n
<1>7. CASE i \in 1 .. 2 * n
  <2>1. PICK b \in 1 .. n : i = 2 * b - 1 \/ i = 2 * b
    BY <1>3, <1>7
  <2>2. AtWrite(i, b) \/ AtWdata(i, b)
    BY <1>3, <1>5, <2>1 DEF AtWrite, AtWdata
  <2>3. QED
    BY <1>2, <1>7, <2>1, <2>2 DEF Blocks, n
<1>8. QED
  BY <1>4, <1>5, <1>6, <1>7

\* What BoaBoot sees of the programmer's place.
LEMMA BootPlace ==
  ASSUME UploadAlone, Typed, Uploading, result = "busy"
  PROVE  /\ BootStep = NameOf(Present.type) /\ BootBlk = Present.blk /\ Present.blk \in Blocks
         /\ \/ Present.type = P_WRITE /\ BootStep = "P_WRITE" /\ Present.data[1] = AddressOf(Present.blk)
            \/ Present.type = P_WDATA /\ BootStep = "P_WDATA" /\ Present.data = DataOf(Present.blk)
            \/ Present.type = P_JUMP /\ BootStep = "P_JUMP" /\ Present.data[1] = Upload.addr
<1>1. PICK i : (\E b \in Blocks : AtWrite(i, b) \/ AtWdata(i, b)) \/ AtJump(i)
  BY UploadPlace
<1>2. BootStep = NameOf(Present.type) /\ BootBlk = Present.blk
  BY DEF BootStep, BootBlk
<1>3. ASSUME NEW b \in Blocks, AtWrite(i, b)
      PROVE  Present.type = P_WRITE /\ Present.blk \in Blocks /\ Present.data[1] = AddressOf(Present.blk)
  <2>1. Present.type = P_WRITE /\ Present.blk = b /\ Present.data[1] = Upload.addr + From(b)
    BY <1>3, WriteKinds DEF AtWrite
  <2>2. QED
    BY <2>1, UploadBlocks
<1>4. ASSUME NEW b \in Blocks, AtWdata(i, b)
      PROVE  Present.type = P_WDATA /\ Present.blk \in Blocks /\ Present.data = DataOf(Present.blk)
  <2>1. Present.type = P_WDATA /\ Present.blk = b /\ Present.data = BlockOf(Upload.wdata, b)
    BY <1>4, WriteKinds DEF AtWdata
  <2>2. QED
    BY <2>1, UploadBlocks
<1>5. ASSUME AtJump(i)
      PROVE  Present.type = P_JUMP /\ Present.blk \in Blocks /\ Present.data[1] = Upload.addr
  BY <1>5, JumpIs, UploadBlocks DEF AtJump, JumpKind, Blocks
<1>6. QED
  BY <1>1, <1>2, <1>3, <1>4, <1>5, NameIs

\* The programmer comes to another request of the upload.
LEMMA BootArrives ==
  ASSUME UploadAlone, Typed, Uploading, session' = session, result' = "busy",
         NEW j \in 1 .. Len(Steps), Present' = Steps[j]
  PROVE  /\ \A b \in Blocks : j = 2 * b - 1 => BootStep' = "P_WRITE" /\ BootBlk' = b
         /\ \A b \in Blocks : j = 2 * b => BootStep' = "P_WDATA" /\ BootBlk' = b
         /\ j = 2 * BlockCount(Len(Upload.wdata)) + 1 =>
              BootStep' = "P_JUMP" /\ BootBlk' = BlockCount(Len(Upload.wdata))
<1>1. Steps = Begin(Upload).todo
  BY DEF Steps, Command, Uploading
<1>2. BootStep' = NameOf(Present'.type) /\ BootBlk' = Present'.blk
  BY DEF BootStep, BootBlk, Uploading, NameOf
<1>3. ASSUME NEW b \in Blocks
      PROVE  /\ j = 2 * b - 1 => Present' = WriteOf(Upload.addr, Upload.wdata, b)
             /\ j = 2 * b => Present' = WdataOf(Upload.wdata, b)
  BY <1>1, UploadSteps DEF Blocks
<1>4. j = 2 * BlockCount(Len(Upload.wdata)) + 1 => Present' = JumpOf
  BY <1>1, UploadSteps
<1>5. ASSUME NEW b \in Blocks, j = 2 * b - 1
      PROVE  BootStep' = "P_WRITE" /\ BootBlk' = b
  <2>1. Present'.type = P_WRITE /\ Present'.blk = b
    BY <1>3, <1>5, WriteKinds
  <2>2. QED
    BY <1>2, <2>1, NameIs
<1>6. ASSUME NEW b \in Blocks, j = 2 * b
      PROVE  BootStep' = "P_WDATA" /\ BootBlk' = b
  <2>1. Present'.type = P_WDATA /\ Present'.blk = b
    BY <1>3, <1>6, WriteKinds
  <2>2. QED
    BY <1>2, <2>1, NameIs
<1>7. ASSUME j = 2 * BlockCount(Len(Upload.wdata)) + 1
      PROVE  BootStep' = "P_JUMP" /\ BootBlk' = BlockCount(Len(Upload.wdata))
  BY <1>2, <1>4, <1>7, JumpIs, NameIs DEF JumpKind
<1>8. QED
  BY <1>5, <1>6, <1>7

\* After a request that succeeds comes the next one, or the end.
LEMMA BootGoesOn ==
  ASSUME UploadAlone, Typed, Uploading, result = "busy", Success, session' = session
  PROVE  \/ BootStep = "P_WRITE" /\ BootStep' = "P_WDATA" /\ UNCHANGED BootBlk
         \/ BootStep = "P_WDATA" /\ Boot!NextBlock
         \/ BootStep = "P_JUMP" /\ BootStep' = "done" /\ UNCHANGED BootBlk
<1>1. PICK i \in Nat : AtStep(i) /\ ((\E b \in Blocks : AtWrite(i, b) \/ AtWdata(i, b)) \/ AtJump(i))
  BY UploadPlace
<1> DEFINE n == BlockCount(Len(Upload.wdata))
<1>2. Len(Steps) = 2 * n + 1 /\ n \in Nat /\ n >= 1
  BY UploadSteps, UploadBlocks DEF Steps, Command, Uploading
<1>3. /\ result' = "busy" <=> i < 2 * n + 1
      /\ result' = "busy" => Present' = Steps[i + 1]
  BY <1>1, <1>2, Succeeded DEF Typed
<1> HIDE DEF n
<1>4. ASSUME NEW b \in Blocks, AtWrite(i, b)
      PROVE  BootStep = "P_WRITE" /\ BootStep' = "P_WDATA" /\ UNCHANGED BootBlk
  <2>1. i = 2 * b - 1 /\ b \in 1 .. n /\ Present.type = P_WRITE /\ Present.blk = b
    BY <1>4, WriteKinds DEF AtWrite, Blocks, n
  <2>2. i + 1 = 2 * b /\ i + 1 \in 1 .. Len(Steps) /\ i < 2 * n + 1
    BY <1>2, <2>1
  <2>3. BootStep' = "P_WDATA" /\ BootBlk' = b
    BY <1>3, <2>2, BootArrives
  <2>4. QED
    BY <2>1, <2>3, BootPlace, NameIs
<1>5. ASSUME NEW b \in Blocks, AtWdata(i, b)
      PROVE  BootStep = "P_WDATA" /\ Boot!NextBlock
  <2>1. i = 2 * b /\ b \in 1 .. n /\ Present.type = P_WDATA /\ Present.blk = b
    BY <1>5, WriteKinds DEF AtWdata, Blocks, n
  <2>2. i + 1 \in 1 .. Len(Steps) /\ i < 2 * n + 1
    BY <1>2, <2>1
  <2>3. BootStep = "P_WDATA" /\ BootBlk = b
    BY <2>1, BootPlace, NameIs
  <2>4. CASE b < n
    <3>1. b + 1 \in 1 .. n /\ i + 1 = 2 * (b + 1) - 1
      BY <1>2, <2>1, <2>4
    <3>2. BootStep' = "P_WRITE" /\ BootBlk' = b + 1
      BY <1>3, <2>2, <3>1, BootArrives DEF Blocks, n
    <3>3. QED
      BY <2>3, <2>4, <3>2 DEF Boot!NextBlock, n
  <2>5. CASE ~(b < n)
    <3>1. b = n /\ i + 1 = 2 * n + 1
      BY <1>2, <2>1, <2>5
    <3>2. BootStep' = "P_JUMP" /\ BootBlk' = n
      BY <1>3, <2>2, <3>1, BootArrives DEF n
    <3>3. QED
      BY <2>3, <2>5, <3>1, <3>2 DEF Boot!NextBlock, n
  <2>6. QED
    BY <2>3, <2>4, <2>5
<1>6. ASSUME AtJump(i)
      PROVE  BootStep = "P_JUMP" /\ BootStep' = "done" /\ UNCHANGED BootBlk
  <2>1. i = 2 * n + 1 /\ Present.type = P_JUMP /\ Present.blk = n
    BY <1>6, JumpIs DEF AtJump, JumpKind, n
  <2>2. result' # "busy"
    BY <1>2, <1>3, <2>1
  <2>3. Present.type # P_WHO
    BY <2>1, Numbers DEF TypeNumbers
  <2>4. result' = "ok"
    BY <2>2, <2>3 DEF Success, GoOn
  <2>5. BootStep' = "done" /\ BootBlk' = n
    BY <2>4 DEF BootStep, BootBlk, Uploading, n
  <2>6. QED
    BY <2>1, <2>5, BootPlace, NameIs
<1>7. QED
  BY <1>1, <1>4, <1>5, <1>6

\* After one that fails comes the next block, if it was not the last request.
LEMMA BootDrops ==
  ASSUME UploadAlone, Typed, Uploading, result = "busy", Failure, session' = session
  PROVE  IF BootStep = "P_JUMP" THEN BootStep' = "failed" /\ UNCHANGED BootBlk ELSE Boot!NextBlock
<1>1. PICK i \in Nat : AtStep(i) /\ ((\E b \in Blocks : AtWrite(i, b) \/ AtWdata(i, b)) \/ AtJump(i))
  BY UploadPlace
<1> DEFINE n == BlockCount(Len(Upload.wdata))
<1>2. Len(Steps) = 2 * n + 1 /\ n \in Nat /\ n >= 1
  BY UploadSteps, UploadBlocks DEF Steps, Command, Uploading
<1>3. /\ Present.fatal => result' = "failed"
      /\ ~Present.fatal => /\ result' = "busy" <=> i + 1 + Present.drops <= Len(Steps)
                           /\ result' = "busy" => Present' = Steps[i + 1 + Present.drops]
  BY <1>1, Failed DEF Typed
<1> HIDE DEF n
<1>4. ASSUME NEW b \in Blocks, AtWrite(i, b) \/ AtWdata(i, b)
      PROVE  BootStep # "P_JUMP" /\ Boot!NextBlock
  <2>1. /\ b \in 1 .. n /\ Present.type \in {P_WRITE, P_WDATA} /\ Present.blk = b /\ ~Present.fatal
        /\ i + 1 + Present.drops = 2 * b + 1
    BY SMTT(30), <1>2, <1>4, WriteKinds DEF AtWrite, AtWdata, Blocks, n
  <2>2. 2 * b + 1 \in 1 .. Len(Steps)
    BY <1>2, <2>1
  <2>3. result' = "busy" /\ Present' = Steps[2 * b + 1]
    BY <1>3, <2>1, <2>2
  <2>4. BootStep # "P_JUMP" /\ BootBlk = b
    BY <2>1, BootPlace, NameIs
  <2>5. CASE b < n
    <3>1. b + 1 \in 1 .. n /\ 2 * b + 1 = 2 * (b + 1) - 1
      BY <1>2, <2>1, <2>5
    <3>2. BootStep' = "P_WRITE" /\ BootBlk' = b + 1
      BY <2>2, <2>3, <3>1, BootArrives DEF Blocks, n
    <3>3. QED
      BY <2>4, <2>5, <3>2 DEF Boot!NextBlock, n
  <2>6. CASE ~(b < n)
    <3>1. b = n
      BY <1>2, <2>1, <2>6
    <3>2. BootStep' = "P_JUMP" /\ BootBlk' = n
      BY <2>2, <2>3, <3>1, BootArrives DEF n
    <3>3. QED
      BY <2>4, <2>6, <3>1, <3>2 DEF Boot!NextBlock, n
  <2>7. QED
    BY <2>4, <2>5, <2>6
<1>5. ASSUME AtJump(i)
      PROVE  BootStep = "P_JUMP" /\ BootStep' = "failed" /\ UNCHANGED BootBlk
  <2>1. Present.type = P_JUMP /\ Present.blk = n /\ Present.fatal = TRUE
    BY <1>5, JumpIs DEF AtJump, JumpKind, n
  <2>2. result' = "failed"
    BY <1>3, <2>1
  <2>3. BootStep' = "failed" /\ BootBlk' = n
    BY <2>2 DEF BootStep, BootBlk, Uploading, n
  <2>4. QED
    BY <2>1, <2>3, BootPlace, NameIs
<1>6. QED
  BY <1>1, <1>4, <1>5

----------------------------------------------------------------------------
(* The upload: its steps are those of BoaBoot.                             *)

\* While the upload runs, both sides have one speed and neither waits to change it; the checksum
\* of the last packet has been found right or wrong as the line has treated it; the address is of
\* a block.
Uploaded ==
  /\ ~misframed /\ SameSpeed /\ rom # "speed" /\ (rom = "program" => rdata[1] = Upload.addr)
  /\ upHit # "length" /\ downHit # "length"
  /\ down # <<>> => said = (IF upHit = "none" THEN "A_ACK" ELSE "A_XSUM")
  /\ waddr = 0 \/ \E b \in Blocks : waddr = AddressOf(b)
BootInv ==
  /\ Uploading \/ \A i \in 1 .. Len(session) : session[i] # Upload
  /\ Uploading => Uploaded

\* Answers and requests are under way one at a time.
LEMMA UploadPhases ==
  ASSUME Typed, Together \/ Garbled \/ Deaf, Uploaded
  PROVE  /\ Together /\ (Idling \/ Asking \/ Answering \/ Lost)
         /\ up # <<>> => Asking
         /\ down # <<>> => Answering
         /\ ~awaiting => Idling
         /\ result # "busy" => Idling
<1>1. Together
  BY DEF Uploaded, Garbled, Deaf
<1>2. Idling \/ Asking \/ Answering \/ Lost
  BY <1>1 DEF Together
<1>3. QED
  BY <1>1, <1>2 DEF Typed, Idling, Asking, Answering, Lost, Quiet

\* What does not change what BoaBoot sees.
LEMMA BootSame ==
  ASSUME session' = session
  PROVE  /\ Uploading' <=> Uploading
         /\ UNCHANGED <<todo, result>> => UNCHANGED <<BootStep, BootBlk>>
         /\ UNCHANGED <<todo, upHit>> /\ (up' = <<>> <=> up = <<>>) => UNCHANGED BootRequest
         /\ UNCHANGED <<todo, said, downHit>> /\ (down' = <<>> <=> down = <<>>) => UNCHANGED BootAnswer
         /\ down = <<>> /\ down' = <<>> => UNCHANGED BootAnswer
         /\ up = <<>> /\ up' = <<>> => UNCHANGED BootRequest
         /\ waddr' = waddr => UNCHANGED BootWaddr
         /\ handled' = handled => UNCHANGED BootMem
<1>1. Uploading' <=> Uploading
  BY DEF Uploading
<1>2. todo' = todo => NameOf(Present.type)' = NameOf(Present.type) /\ Present'.blk = Present.blk
  BY DEF NameOf, Present
<1>3. UNCHANGED <<todo, result>> => UNCHANGED <<BootStep, BootBlk>>
  BY <1>1, <1>2 DEF BootStep, BootBlk
<1>4. UNCHANGED <<todo, upHit>> /\ (up' = <<>> <=> up = <<>>) => UNCHANGED BootRequest
  BY <1>1, <1>2 DEF BootRequest, FaultOf
<1>5. UNCHANGED <<todo, said, downHit>> /\ (down' = <<>> <=> down = <<>>) => UNCHANGED BootAnswer
  BY <1>1, <1>2 DEF BootAnswer
<1>6. /\ down = <<>> /\ down' = <<>> => UNCHANGED BootAnswer
      /\ up = <<>> /\ up' = <<>> => UNCHANGED BootRequest
  BY DEF BootAnswer, BootRequest
<1>7. waddr' = waddr => UNCHANGED BootWaddr
  BY <1>1 DEF BootWaddr
<1>8. handled' = handled => UNCHANGED BootMem
  BY <1>1 DEF BootMem, BlockState
<1>9. QED
  BY <1>1, <1>3, <1>4, <1>5, <1>6, <1>7, <1>8

LEMMA BootSends ==
  ASSUME UploadAlone, Typed, Together \/ Garbled \/ Deaf, Uploading, Uploaded, ProgrammerSends
  PROVE  Uploaded' /\ Boot!Send
<1>1. /\ result = "busy" /\ ~awaiting /\ try <= RetryCount /\ awaiting' = TRUE
      /\ up' = up \o OnLine(Sent) /\ upHit' = "none"
      /\ UNCHANGED <<session, todo, try, prx, pdata, hspeed, result, switched, down>>
      /\ UNCHANGED <<rrx, rdata, waddr, mem, rom, div, calls, faults, downHit>>
      /\ UNCHANGED <<acked, said, handled, mistaken, misframed, started>>
  BY DEF ProgrammerSends, SendRequest, Sent, computer, history
<1>2. up = <<>> /\ down = <<>>
  BY <1>1, UploadPhases DEF Idling, Quiet
<1>3. up' # <<>>
  <2>1. Whole(Sent) /\ Len(Sent) \in Nat
    BY <1>1, SentParts, WholeParts
  <2>2. up' = Rest(Sent, 0) /\ Rest(Sent, 0) # <<>>
    <3>1. 0 \in 0 .. Len(Sent) - 1
      BY <2>1 DEF Whole
    <3>2. QED
      BY <1>1, <1>2, <2>1, <3>1, RestAll, RestParts
  <2>3. QED
    BY <2>2
<1>4. Uploaded'
  BY <1>1, <1>2 DEF Uploaded, SameSpeed
<1>5. /\ Uploading' /\ UNCHANGED <<BootStep, BootBlk, BootAnswer, BootWaddr, BootMem>>
  BY <1>1, <1>2, BootSame
<1>6. BootRequest' = [type |-> BootStep, blk |-> BootBlk, fault |-> "none"]
  <2>1. BootRequest' = [type |-> NameOf(Present.type)', blk |-> Present'.blk, fault |-> FaultOf(upHit)']
    BY <1>3, <1>5 DEF BootRequest
  <2>2. NameOf(Present.type)' = NameOf(Present.type) /\ Present'.blk = Present.blk
    BY <1>1 DEF NameOf, Present
  <2>3. FaultOf(upHit)' = "none"
    BY <1>1 DEF FaultOf
  <2>4. QED
    BY <1>1, <2>1, <2>2, <2>3, BootPlace
<1>7. BootStep \notin {"done", "failed"}
  BY <1>1, BootPlace
<1>8. Boot!Send
  BY <1>1, <1>5, <1>6, <1>7 DEF Boot!Send, Boot!Sends, Boot!boot
<1>9. QED
  BY <1>4, <1>8

LEMMA BootGivesUp ==
  ASSUME UploadAlone, Typed, Together \/ Garbled \/ Deaf, Uploading, Uploaded, ProgrammerGivesUp
  PROVE  Uploaded' /\ Boot!GiveUp
<1>1. /\ result = "busy" /\ ~awaiting /\ try > RetryCount /\ Failure
      /\ UNCHANGED <<session, awaiting, prx, pdata, up, down>>
      /\ UNCHANGED <<rrx, rdata, waddr, mem, rom, div, calls, faults, upHit, downHit>>
      /\ UNCHANGED <<acked, said, handled, mistaken, misframed, started>>
  BY DEF ProgrammerGivesUp, GiveUpRequest, NoTriesLeft, computer, line, history
<1>2. up = <<>> /\ down = <<>>
  BY <1>1, UploadPhases DEF Idling, Quiet
<1>3. hspeed' = hspeed /\ try' = 0
  BY <1>1 DEF Failure, GoOn
<1>4. Uploaded'
  BY <1>1, <1>2, <1>3 DEF Uploaded, SameSpeed
<1>5. Uploading' /\ UNCHANGED <<BootRequest, BootAnswer, BootWaddr, BootMem>>
  BY <1>1, <1>2, BootSame
<1>6. BootStep \notin {"done", "failed"}
  BY <1>1, BootPlace
<1>7. IF BootStep = "P_JUMP" THEN BootStep' = "failed" /\ UNCHANGED BootBlk ELSE Boot!NextBlock
  BY <1>1, BootDrops
<1>8. Boot!GiveUp
  BY <1>1, <1>3, <1>5, <1>6, <1>7 DEF Boot!GiveUp, Boot!Sends, Boot!boot
<1>9. QED
  BY <1>4, <1>8

\* A byte of the answer: BoaBoot receives it with the last one.
LEMMA BootReceives ==
  ASSUME UploadAlone, Typed, Together \/ Garbled \/ Deaf, Uploading, Uploaded, ProgrammerReceives
  PROVE  Uploaded' /\ (Boot!Receive \/ UNCHANGED Boot!vars)
<1>1. /\ down # <<>> /\ awaiting /\ UNCHANGED <<up, handled, upHit, downHit, faults, session, mistaken, misframed>>
      /\ UNCHANGED <<rrx, rdata, waddr, mem, rom, div, calls>>
  BY ReceivesParts
<1>2. PICK b : HostRx(b)
  BY ReceivesParts
<1>3. /\ acked' = IF Complete(prx) /\ Present.type = P_WDATA /\ try' = 0 /\ ExpectAck(A_ACK)
                  THEN acked \cup {Present.blk} ELSE acked
      /\ said' = said
  BY DEF ProgrammerReceives
<1>4. result = "busy"
  BY <1>1 DEF Typed
<1>5. Together /\ Answering /\ SameSpeed
  BY <1>1, UploadPhases DEF Uploaded
<1>6. More \/ Repeated \/ Answered
  BY <1>5, AnswerArrives
<1>7. /\ Present.type \in Acknowledged /\ Present.type \notin {P_PING, P_WHO, P_READ, P_SPEED}
      /\ BootStep \in {"P_WRITE", "P_WDATA", "P_JUMP"}
      /\ Present.type = P_WDATA <=> BootStep = "P_WDATA"
      /\ BootBlk = Present.blk
  BY <1>4, BootPlace, NameIs, Numbers DEF TypeNumbers
<1>8. up = <<>>
  BY <1>5 DEF Answering, Quiet
<1>9. /\ BootAnswer = [type |-> said, for |-> BootStep, blk |-> BootBlk, intact |-> downHit = "none"]
      /\ said = IF upHit = "none" THEN "A_ACK" ELSE "A_XSUM"
  BY <1>1, <1>4, <1>7, BootPlace DEF BootAnswer, Uploaded
<1>10. CASE More
  <2>1. down' # <<>>
    <3>1. PICK p \in Arrivals(Reply, downHit), k \in 0 .. Len(Reply) - 1 : AnsweredTo(p, k)'
      BY <1>10 DEF More
    <3>2. Whole(p) /\ Len(p) = Len(Reply) /\ down' = Rest(p, k)
      BY <1>4, <1>5, <3>1, ReplyParts, Arrived DEF Answering, AnsweredTo
    <3>3. QED
      BY <3>2, RestParts
  <2>2. UNCHANGED <<todo, try, awaiting, hspeed, result, switched>>
    BY <1>10 DEF More
  <2>3. ~Complete(prx)
    BY <1>1, <1>2, <2>2 DEF HostRx, HostCollect, HostAnswer
  <2>4. acked' = acked
    BY <1>3, <2>3
  <2>5. UNCHANGED <<BootStep, BootBlk, BootRequest, BootAnswer, BootWaddr, BootMem>> /\ Uploading'
    BY <1>1, <1>3, <1>8, <2>1, <2>2, BootSame
  <2>6. UNCHANGED Boot!vars
    BY <1>1, <2>2, <2>4, <2>5 DEF Boot!vars, Boot!prog, Boot!boot
  <2>7. Uploaded'
    BY <1>1, <1>3, <2>2, <2>1 DEF Uploaded, SameSpeed
  <2>8. QED
    BY <2>6, <2>7
<1>11. CASE Repeated
  <2>1. /\ awaiting' = FALSE /\ down' = <<>> /\ try' = try + 1 /\ UNCHANGED <<todo, hspeed, result, switched>>
        /\ upHit # "none" \/ downHit # "none" \/ Len(ReplyData) > HostMax
    BY <1>11 DEF Repeated, AnswerTaken
  <2>2. upHit # "none" \/ downHit # "none"
    <3>1. Len(ReplyData) = 2
      BY <1>4, <1>7, AcknowledgedReply
    <3>2. HostMax \in Nat /\ HostMax >= 2
      BY Constants
    <3>3. ~(Len(ReplyData) > HostMax)
      BY <3>1, <3>2
    <3>4. QED
      BY <2>1, <3>3
  <2>3. acked' = acked
    BY <1>3, <2>1 DEF Typed, Course
  <2>4. /\ UNCHANGED <<BootStep, BootBlk, BootRequest, BootWaddr, BootMem>> /\ Uploading'
        /\ BootAnswer' = [type |-> "none"]
    BY <1>1, <1>8, <2>1, BootSame DEF BootAnswer
  <2>5. ~Boot!Accepts(BootAnswer) /\ BootAnswer # [type |-> "none"]
    BY <1>9, <2>2 DEF Boot!Accepts
  <2>6. Boot!Receive
    BY <1>1, <2>1, <2>3, <2>4, <2>5 DEF Boot!Receive, Boot!None, Boot!boot
  <2>7. Uploaded'
    BY <1>1, <1>3, <2>1 DEF Uploaded, SameSpeed
  <2>8. QED
    BY <2>6, <2>7
<1>12. CASE Answered
  <2>1. /\ awaiting' = FALSE /\ down' = <<>> /\ upHit = "none" /\ downHit = "none"
        /\ prx.header.type = ReplyType /\ prx.header.length = Len(ReplyData)
        /\ \A i \in 1 .. Len(ReplyData) : pdata[i] = ReplyData[i]
        /\ IF Succeeds THEN Success ELSE Failure
    BY <1>12 DEF Answered, AnswerTaken
  <2>2. ReplyType = P_ACK /\ Len(ReplyData) = 2 /\ ReplyData[1] = A_ACK
    BY <1>4, <1>7, <2>1, AcknowledgedReply, AckReply
  <2>3. ExpectAck(A_ACK)
    BY <2>1, <2>2 DEF ExpectAck, AckSize
  <2>4. Success
    BY <1>7, <2>1, <2>3 DEF Succeeds
  <2>5. try' = 0 /\ hspeed' = hspeed
    BY <1>7, <2>4 DEF Success, GoOn
  <2>6. Complete(prx)
    BY <1>1, <1>2, <2>1 DEF HostRx, HostCollect, HostAnswer
  <2>7. acked' = IF BootStep = "P_WDATA" THEN acked \cup {BootBlk} ELSE acked
    BY <1>3, <1>7, <2>3, <2>5, <2>6
  <2>8. /\ UNCHANGED <<BootRequest, BootWaddr, BootMem>> /\ Uploading'
        /\ BootAnswer' = [type |-> "none"]
    BY <1>1, <1>8, <2>1, BootSame DEF BootAnswer
  <2>9. Boot!Accepts(BootAnswer) /\ BootAnswer # [type |-> "none"]
    BY <1>9, <2>1 DEF Boot!Accepts
  <2>10. \/ BootStep = "P_WRITE" /\ BootStep' = "P_WDATA" /\ UNCHANGED BootBlk
         \/ BootStep = "P_WDATA" /\ Boot!NextBlock
         \/ BootStep = "P_JUMP" /\ BootStep' = "done" /\ UNCHANGED BootBlk
    BY <1>1, <1>4, <2>4, BootGoesOn
  <2>11. Boot!Succeed
    BY <2>5, <2>7, <2>8, <2>10 DEF Boot!Succeed
  <2>12. Boot!Receive
    BY <1>1, <2>1, <2>8, <2>9, <2>11 DEF Boot!Receive, Boot!None, Boot!boot
  <2>13. Uploaded'
    BY <1>1, <1>3, <2>1, <2>5 DEF Uploaded, SameSpeed
  <2>14. QED
    BY <2>12, <2>13
<1>13. QED
  BY <1>6, <1>10, <1>11, <1>12

\* There is something on a line on which something is under way.
LEMMA LinesHold ==
  ASSUME Typed
  PROVE  /\ Asking => up \in Seq(Cells) /\ up # <<>>
         /\ Answering => down \in Seq(Cells) /\ down # <<>>
<1>1. ASSUME Asking
      PROVE  up \in Seq(Cells) /\ up # <<>>
  <2>1. PICK p \in Arrivals(Sent, upHit), k \in 0 .. Len(Sent) - 1 : AskedTo(p, k)
    BY <1>1 DEF Asking
  <2>2. Whole(p) /\ Len(p) = Len(Sent) /\ up = Rest(p, k)
    BY <1>1, <2>1, SentParts, Arrived DEF Asking, AskedTo, Typed
  <2>3. k \in 0 .. Len(p) - 1 /\ k \in 0 .. Len(p)
    BY <2>2, WholeParts
  <2>4. QED
    BY <2>2, <2>3, RestType, RestParts
<1>2. ASSUME Answering
      PROVE  down \in Seq(Cells) /\ down # <<>>
  <2>1. PICK p \in Arrivals(Reply, downHit), k \in 0 .. Len(Reply) - 1 : AnsweredTo(p, k)
    BY <1>2 DEF Answering
  <2>2. Whole(p) /\ Len(p) = Len(Reply) /\ down = Rest(p, k)
    BY <1>2, <2>1, ReplyParts, Arrived DEF Answering, AnsweredTo, Typed
  <2>3. k \in 0 .. Len(p) - 1 /\ k \in 0 .. Len(p)
    BY <2>2, WholeParts
  <2>4. QED
    BY <2>2, <2>3, RestType, RestParts
<1>3. QED
  BY <1>1, <1>2

LEMMA AnswerBroken ==
  ASSUME NEW t, NEW f, NEW b, NEW u, NEW v
  PROVE  [[type |-> t, for |-> f, blk |-> b, intact |-> u] EXCEPT !.intact = v]
           = [type |-> t, for |-> f, blk |-> b, intact |-> v]
<1> DEFINE r == [type |-> t, for |-> f, blk |-> b, intact |-> u]
           s == [type |-> t, for |-> f, blk |-> b, intact |-> v]
           x == [r EXCEPT !.intact = v]
<1>1. DOMAIN s = DOMAIN r
  OBVIOUS
<1>2. DOMAIN x = DOMAIN r
  OBVIOUS
<1>3. \A i \in DOMAIN r : x[i] = s[i]
  OBVIOUS
<1>4. x = [i \in DOMAIN x |-> x[i]] /\ s = [i \in DOMAIN s |-> s[i]]
  OBVIOUS
<1>5. QED
  <2> HIDE DEF x, r, s
  <2>1. x = s
    BY <1>1, <1>2, <1>3, <1>4
  <2>2. QED
    BY <2>1 DEF x, r, s

\* The line disturbs a byte of a packet: BoaBoot damages the packet.
LEMMA BootDisturbs ==
  ASSUME UploadAlone, Typed, Together \/ Garbled \/ Deaf, Uploading, Uploaded, Disturb
  PROVE  Uploaded' /\ Boot!Disturb
<1>1. /\ faults < MaxFaults /\ faults' = faults + 1 /\ misframed' = (misframed \/ "length" \in {upHit', downHit'})
      /\ UNCHANGED <<session, todo, try, awaiting, prx, pdata, hspeed, result, switched>>
      /\ UNCHANGED <<rrx, rdata, waddr, mem, rom, div, calls, acked, said, handled, mistaken, started>>
  BY DEF Disturb, programmer, computer
<1>2. PICK n \in Noise : DisturbUp(n) \/ DisturbDown(n)
  BY DEF Disturb
<1>3. Hit[Command.name] \subseteq {"type", "data", "xsum"}
  <2>1. Command.name = "run" /\ "length" \notin Hit["run"]
    BY DEF Command, Uploading, UploadAlone
  <2>2. Hit["run"] \subseteq {"type", "length", "data", "xsum"}
    BY LinkAssumption DEF Names
  <2>3. QED
    BY <2>1, <2>2
<1>4. n \in Bytes
  BY NoiseBytes
<1>5. UNCHANGED <<BootStep, BootBlk, BootWaddr, BootMem>> /\ Uploading'
  BY <1>1, BootSame
<1>6. CASE DisturbUp(n)
  <2>1. /\ up # <<>> /\ upHit = "none" /\ Head(up).part \in {"type", "data", "xsum"}
        /\ up' = Other(up, n) /\ upHit' = Head(up).part /\ UNCHANGED <<down, downHit>>
    BY <1>3, <1>6 DEF DisturbUp, Open
  <2>2. up' # <<>>
    <3>1. up \in Seq(Cells)
      BY <2>1, UploadPhases, LinesHold
    <3>2. Other(up, n) \in Seq(Cells) /\ Len(Other(up, n)) = Len(up)
      BY <1>4, <2>1, <3>1, OtherCells
    <3>3. QED
      BY <2>1, <3>1, <3>2
  <2>3. ~misframed' /\ upHit' # "length"
    BY <1>1, <2>1 DEF Uploaded
  <2>4. Uploaded'
    BY <1>1, <2>1, <2>3, UploadPhases DEF Uploaded, SameSpeed, Asking
  <2>5. UNCHANGED BootAnswer
    BY <1>1, <2>1, BootSame
  <2>6. BootRequest = [type |-> NameOf(Present.type), blk |-> Present.blk, fault |-> "none"]
    BY <2>1 DEF BootRequest, FaultOf
  <2>7. BootRequest' = [type |-> NameOf(Present.type), blk |-> Present.blk, fault |-> FaultOf(upHit')]
    <3>1. NameOf(Present.type)' = NameOf(Present.type) /\ Present'.blk = Present.blk
      BY <1>1 DEF NameOf, Present
    <3>2. BootRequest' = [type |-> NameOf(Present.type)', blk |-> Present'.blk, fault |-> FaultOf(upHit)']
      BY <1>5, <2>2 DEF BootRequest
    <3>3. QED
      BY <3>1, <3>2 DEF FaultOf
  <2>8. FaultOf(upHit') \in {"data", "type"}
    BY <2>1 DEF FaultOf
  <2>9. PICK kind : kind = FaultOf(upHit')
    OBVIOUS
  <2>10. Boot!Damage(kind)
    BY <2>5, <2>6, <2>7, <2>9 DEF Boot!Damage, Boot!None
  <2>11. kind \in {"data", "type", "reply"} \cap {"data", "type"}
    BY <2>8, <2>9
  <2>12. Boot!Disturb
    BY <1>1, <1>5, <2>10, <2>11 DEF Boot!Disturb, Boot!prog, Boot!boot
  <2>13. QED
    BY <2>4, <2>12
<1>7. CASE DisturbDown(n)
  <2>1. /\ down # <<>> /\ downHit = "none" /\ Head(down).part \in {"type", "data", "xsum"}
        /\ down' = Other(down, n) /\ downHit' = Head(down).part /\ UNCHANGED <<up, upHit>>
    BY <1>3, <1>7 DEF DisturbDown, Open
  <2>2. down' # <<>>
    <3>1. down \in Seq(Cells)
      BY <2>1, UploadPhases, LinesHold
    <3>2. Other(down, n) \in Seq(Cells) /\ Len(Other(down, n)) = Len(down)
      BY <1>4, <2>1, <3>1, OtherCells
    <3>3. QED
      BY <2>1, <3>1, <3>2
  <2>3. ~misframed' /\ downHit' # "length" /\ downHit' # "none"
    BY <1>1, <2>1 DEF Uploaded
  <2>4. Uploaded'
    BY <1>1, <2>1, <2>3 DEF Uploaded, SameSpeed
  <2>5. UNCHANGED BootRequest
    BY <1>1, <2>1, BootSame
  <2>6. BootAnswer = [type |-> said, for |-> NameOf(Present.type), blk |-> Present.blk, intact |-> TRUE]
    BY <2>1 DEF BootAnswer
  <2>7. BootAnswer' = [type |-> said, for |-> NameOf(Present.type), blk |-> Present.blk, intact |-> FALSE]
    <3>1. NameOf(Present.type)' = NameOf(Present.type) /\ Present'.blk = Present.blk
      BY <1>1 DEF NameOf, Present
    <3>2. QED
      BY <1>1, <1>5, <2>2, <2>3, <3>1 DEF BootAnswer
  <2>8. BootAnswer # [type |-> "none"]
    BY <2>1, <2>6 DEF Uploaded
  <2>9. Boot!DamageReply
    <3>1. BootAnswer.intact
      BY <2>6
    <3>2. PICK u, v : u = TRUE /\ v = FALSE
      OBVIOUS
    <3>3. PICK t, f, b : t = said /\ f = NameOf(Present.type) /\ b = Present.blk
      OBVIOUS
    <3>4. /\ BootAnswer = [type |-> t, for |-> f, blk |-> b, intact |-> u]
          /\ BootAnswer' = [type |-> t, for |-> f, blk |-> b, intact |-> v]
      BY <2>6, <2>7, <3>2, <3>3
    <3>5. [BootAnswer EXCEPT !.intact = v] = BootAnswer'
      <4>1. [[type |-> t, for |-> f, blk |-> b, intact |-> u] EXCEPT !.intact = v]
              = [type |-> t, for |-> f, blk |-> b, intact |-> v]
        BY AnswerBroken
      <4>2. QED
        BY <3>4, <4>1, Zenon
    <3>6. QED
      BY <2>5, <2>8, <3>1, <3>2, <3>5, Zenon DEF Boot!DamageReply, Boot!None
  <2>10. Boot!Disturb
    BY <1>1, <1>5, <2>9 DEF Boot!Disturb, Boot!prog, Boot!boot
  <2>11. QED
    BY <2>4, <2>10
<1>8. QED
  BY <1>2, <1>6, <1>7

----------------------------------------------------------------------------
(* The upload: what a packet leaves in memory.                             *)

\* The places of the blocks are in memory.
LEMMA PlaceInRam ==
  ASSUME UploadAlone, Typed, Uploading, WritesTo(session), NEW b \in Blocks
  PROVE  Place(b) \subseteq Ram /\ AddressOf(b) \in Place(b) /\ AddressOf(b) # 0
<1>1. Command = Upload /\ Command.name \in Writers /\ b \in 1 .. Size(Command)
  BY DEF Command, Uploading, UploadAlone, Writers, Size, Blocks
<1>2. \A i \in 1 .. Len(BlockOf(Upload.wdata, b)) : Upload.addr + From(b) + i - 1 \in Ram
  BY <1>1, HeldRange
<1>3. /\ AddressOf(b) = Upload.addr + From(b) /\ AddressOf(b) \in Nat
      /\ DataOf(b) = BlockOf(Upload.wdata, b) /\ Len(DataOf(b)) \in Nat /\ Len(DataOf(b)) >= 1
  BY UploadBlocks
<1>4. ASSUME NEW a \in Place(b)
      PROVE  a \in Ram
  <2>1. a - AddressOf(b) + 1 \in 1 .. Len(DataOf(b)) /\ AddressOf(b) + (a - AddressOf(b) + 1) - 1 = a
    BY <1>3 DEF Place
  <2>2. QED
    BY <1>2, <1>3, <2>1
<1>5. AddressOf(b) \in Place(b)
  BY <1>3 DEF Place
<1>6. QED
  BY <1>4, <1>5, Constants

LEMMA BlockIs ==
  ASSUME UploadAlone, NEW b \in Blocks, NEW a, a = AddressOf(b)
  PROVE  (CHOOSE blk \in Blocks : AddressOf(blk) = a) = b
<1>1. ASSUME NEW e \in Blocks, AddressOf(e) = a
      PROVE  e = b
  <2>1. b \in Nat /\ e \in Nat /\ AddressOf(b) \in Nat /\ AddressOf(e) \in Nat
    BY UploadBlocks
  <2>2. ~(b < e)
    BY <1>1, <2>1, PlacesApart
  <2>3. ~(e < b)
    BY <1>1, <2>1, PlacesApart
  <2>4. QED
    BY <2>1, <2>2, <2>3
<1>2. QED
  BY <1>1

LEMMA OthersSame ==
  ASSUME UploadAlone, NEW b \in Blocks, NEW e \in Blocks, e # b, NEW l \in Nat,
         l <= Len(DataOf(b)) \/ l <= 2, NEW m, NEW h,
         \A a \in Place(e) : a \notin AddressOf(b) .. AddressOf(b) + l - 1 => m[a] = h[a]
  PROVE  Shown(m, e) = Shown(h, e)
<1>1. /\ b \in Nat /\ e \in Nat /\ AddressOf(b) \in Nat /\ AddressOf(e) \in Nat
      /\ Len(DataOf(b)) \in Nat /\ Len(DataOf(e)) \in Nat
  BY UploadBlocks
<1>2. ASSUME NEW a \in Place(e)
      PROVE  a \notin AddressOf(b) .. AddressOf(b) + l - 1
  <2>1. a \in Nat /\ AddressOf(e) <= a /\ a < AddressOf(e) + Len(DataOf(e))
    BY <1>1 DEF Place
  <2>2. CASE b < e
    <3>1. AddressOf(b) + Len(DataOf(b)) <= AddressOf(e) /\ AddressOf(b) + 2 <= AddressOf(e)
      BY <2>2, PlacesApart
    <3>2. QED
      BY <1>1, <2>1, <3>1
  <2>3. CASE e < b
    <3>1. AddressOf(e) + Len(DataOf(e)) <= AddressOf(b)
      BY <2>3, PlacesApart
    <3>2. QED
      BY <1>1, <2>1, <3>1
  <2>4. QED
    BY <1>1, <2>2, <2>3
<1>3. \A a \in Place(e) : m[a] = h[a]
  BY <1>2
<1>4. QED
  BY <1>3, ShownSame

LEMMA MemoryAfter ==
  ASSUME Typed, result = "busy", NEW p, Stored(p, Len(Sent) - 1)
  PROVE  /\ p[2] # P_WDATA => mem = handled
         /\ p[2] = P_WDATA =>
              \A a \in Ram : mem[a] = IF a \in waddr .. waddr + Len(Present.data) - 1
                                      THEN p[4 + a - waddr] ELSE handled[a]
<1>1. Read(Len(Sent) - 1) = Len(Present.data) /\ Len(Sent) - 1 >= 3
  BY SentParts DEF Read
<1>2. CASE p[2] # P_WDATA
  BY <1>2 DEF Stored
<1>3. CASE p[2] = P_WDATA
  <2>1. mem = Overlaid(p, Len(Present.data))
    BY <1>1, <1>3 DEF Stored
  <2>2. QED
    BY <1>3, <2>1 DEF Overlaid
<1>4. QED
  BY <1>2, <1>3

\* The data of a P_WDATA are in the place of their block, or what a disturbed byte has made of
\* them.
LEMMA WdataShown ==
  ASSUME UploadAlone, Typed, Uploading, WritesTo(session), result = "busy", Present.type = P_WDATA,
         upHit \in {"none", "data", "xsum"}, NEW b \in Blocks, b = Present.blk, waddr = AddressOf(b),
         NEW p \in Arrivals(Sent, upHit), Stored(p, Len(Sent) - 1)
  PROVE  /\ Shown(mem, b) \in {"image", "garbage"} /\ (upHit = "none" => Shown(mem, b) = "image")
         /\ \A e \in Blocks : e # b => Shown(mem, e) = Shown(handled, e)
<1>1. Present.data = DataOf(b)
  BY BootPlace, NameIs
<1>2. /\ Whole(Sent) /\ Len(Sent) = Len(Present.data) + 4 /\ Sent[2] = P_WDATA
      /\ \A i \in 1 .. Len(Present.data) : Sent[3 + i] = Present.data[i]
      /\ SumTo(Sent, Len(Sent) - 1) = Sent[Len(Sent)]
  BY SentParts
<1>3. p[2] = P_WDATA /\ (upHit = "none" => p = Sent)
  BY <1>2, Arrived DEF HitTypes
<1>4. /\ AddressOf(b) \in Nat /\ Len(DataOf(b)) \in Nat /\ Len(DataOf(b)) >= 1
      /\ DataOf(b) \in Seq(Bytes)
  BY UploadBlocks
<1>5. \A a \in Ram : mem[a] = IF a \in AddressOf(b) .. AddressOf(b) + Len(DataOf(b)) - 1
                              THEN p[4 + a - AddressOf(b)] ELSE handled[a]
  BY <1>1, <1>3, MemoryAfter
<1>6. \A e \in Blocks : e # b => Shown(mem, e) = Shown(handled, e)
  BY SMTT(30), <1>4, <1>5, PlaceInRam, OthersSame
<1>7. ASSUME NEW i \in 1 .. Len(DataOf(b))
      PROVE  mem[AddressOf(b) + i - 1] = p[3 + i] /\ Sent[3 + i] = DataOf(b)[i]
  <2>1. PICK a : a = AddressOf(b) + i - 1
    OBVIOUS
  <2>2. a \in AddressOf(b) .. AddressOf(b) + Len(DataOf(b)) - 1 /\ 4 + a - AddressOf(b) = 3 + i
    BY <1>4, <2>1
  <2>3. a \in Ram
    BY <2>2, PlaceInRam DEF Place
  <2>4. QED
    BY <1>1, <1>2, <1>5, <2>1, <2>2, <2>3
<1>8. CASE upHit = "none"
  <2>1. Shown(mem, b) = "image"
    BY <1>3, <1>7, <1>8, ShownFacts
  <2>2. QED
    BY <1>6, <2>1
<1>9. CASE upHit # "none"
  <2>1. PICK j \in 1 .. Len(Sent), n \in Noise : PartAt(Len(Sent), j) = upHit /\ p = [Sent EXCEPT ![j] = n]
    BY <1>9 DEF Arrivals
  <2>2. Sent \in Seq(Bytes) /\ Len(Sent) \in Nat /\ n \in Bytes /\ n # 0
    BY <1>2, <1>4, <1>1, NoiseBytes DEF Whole, UploadAlone
  <2>3. \A i \in 1 .. Len(Sent) : p[i] = IF i = j THEN n ELSE Sent[i]
    BY <2>1, <2>2, ExceptSeq
  <2>4. CASE upHit = "xsum"
    <3>1. j = Len(Sent)
      BY <2>1, <2>4 DEF PartAt
    <3>2. \A i \in 1 .. Len(DataOf(b)) : mem[AddressOf(b) + i - 1] = DataOf(b)[i]
      <4>1. \A i \in 1 .. Len(DataOf(b)) : 3 + i \in 1 .. Len(Sent) /\ 3 + i # j
        BY <1>1, <1>2, <1>4, <3>1
      <4>2. QED
        BY <1>7, <2>3, <4>1
    <3>3. QED
      BY <1>6, <1>9, <3>2, ShownFacts
  <2>5. CASE upHit = "data"
    <3>1. j # 1 /\ j # 2 /\ j # 3 /\ j # Len(Sent)
      BY <2>1, <2>5 DEF PartAt
    <3>2. j - 3 \in 1 .. Len(DataOf(b)) /\ 3 + (j - 3) = j
      BY <1>1, <1>2, <1>4, <2>2, <3>1
    <3>3. mem[AddressOf(b) + (j - 3) - 1] # 0
      BY SMTT(30), <1>7, <2>2, <2>3, <3>2
    <3>4. QED
      BY <1>6, <1>9, <3>2, <3>3, ShownFacts
  <2>6. QED
    BY <1>9, <2>4, <2>5
<1>10. QED
  BY <1>8, <1>9

\* The first byte of another request, which is taken for a P_WDATA, is of an address: not zero.
LEMMA MistakenShown ==
  ASSUME UploadAlone, Typed, Uploading, WritesTo(session), result = "busy", Present.type # P_WDATA,
         upHit = "type", NEW b \in Blocks, waddr = AddressOf(b),
         NEW p \in Arrivals(Sent, upHit), Stored(p, Len(Sent) - 1), p[2] = P_WDATA
  PROVE  /\ Shown(mem, b) \in {"image", "garbage"}
         /\ \A e \in Blocks : e # b => Shown(mem, e) = Shown(handled, e)
<1>1. Len(Present.data) \in Nat /\ Len(Present.data) >= 1 /\ Len(Present.data) <= 2 /\ Present.data[1] # 0
  <2>1. Present.type # P_WHO
    BY BootPlace, Numbers DEF TypeNumbers
  <2>2. Len(Present.data) \in Nat /\ Len(Present.data) >= 1 /\ Len(Present.data) <= 2
    BY <2>1, PresentData, SentParts
  <2>3. \E e \in Blocks : Present.data[1] = AddressOf(e)
    <3>1. CASE Present.type = P_WRITE
      BY <3>1, BootPlace, NameIs
    <3>2. CASE Present.type # P_WRITE
      <4>1. Present.data[1] = Upload.addr
        BY <3>2, BootPlace
      <4>2. 1 \in Blocks /\ AddressOf(1) = Upload.addr
        <5>1. 1 \in Blocks /\ Upload.addr \in Nat /\ BlockSize \in Nat
          BY UploadBlocks, ProgrammerAssumption DEF Blocks
        <5>2. (1 - 1) * BlockSize = 0
          BY <5>1
        <5>3. QED
          BY <5>1, <5>2 DEF AddressOf
      <4>3. QED
        BY <4>1, <4>2
    <3>3. QED
      BY <3>1, <3>2
  <2>4. QED
    BY <2>2, <2>3, PlaceInRam
<1>2. /\ Whole(Sent) /\ Len(Sent) = Len(Present.data) + 4 /\ Sent[3 + 1] = Present.data[1]
  BY <1>1, SentParts
<1>3. AddressOf(b) \in Nat /\ Len(DataOf(b)) \in Nat /\ Len(DataOf(b)) >= 1
  BY UploadBlocks
<1>4. \A a \in Ram : mem[a] = IF a \in AddressOf(b) .. AddressOf(b) + Len(Present.data) - 1
                              THEN p[4 + a - AddressOf(b)] ELSE handled[a]
  BY MemoryAfter
<1>5. \A e \in Blocks : e # b => Shown(mem, e) = Shown(handled, e)
  BY SMTT(30), <1>1, <1>4, PlaceInRam, OthersSame
<1>6. PICK j \in 1 .. Len(Sent), n \in Noise : PartAt(Len(Sent), j) = "type" /\ p = [Sent EXCEPT ![j] = n]
  BY DEF Arrivals
<1>7. p[4] = Present.data[1]
  <2>1. Sent \in Seq(Bytes) /\ Len(Sent) \in Nat /\ n \in Bytes
    BY <1>1, <1>2, NoiseBytes DEF Whole
  <2>2. \A i \in 1 .. Len(Sent) : p[i] = IF i = j THEN n ELSE Sent[i]
    BY <1>6, <2>1, ExceptSeq
  <2>3. j # 4 /\ 4 \in 1 .. Len(Sent)
    BY <1>1, <1>2, <1>6 DEF PartAt
  <2>4. QED
    BY <1>2, <2>2, <2>3
<1>8. mem[AddressOf(b)] = p[4]
  <2>1. AddressOf(b) \in AddressOf(b) .. AddressOf(b) + Len(Present.data) - 1 /\ 4 + AddressOf(b) - AddressOf(b) = 4
    BY <1>1, <1>3
  <2>2. AddressOf(b) \in Ram
    BY PlaceInRam
  <2>3. QED
    BY <1>4, <2>1, <2>2
<1>9. 1 \in 1 .. Len(DataOf(b)) /\ AddressOf(b) + 1 - 1 = AddressOf(b)
  BY <1>3
<1>10. Shown(mem, b) \in {"image", "garbage"}
  BY <1>1, <1>7, <1>8, <1>9, ShownFacts
<1>11. QED
  BY <1>5, <1>10

\* Before the first P_WRITE nothing is written: no memory is at 0 or 1.
LEMMA NothingShown ==
  ASSUME Typed, result = "busy", 1 \notin Ram, waddr = 0, Present.type # P_WDATA,
         NEW p, Stored(p, Len(Sent) - 1)
  PROVE  mem = handled
<1>1. CASE p[2] # P_WDATA
  BY <1>1, MemoryAfter
<1>2. CASE p[2] = P_WDATA
  <2>1. Len(Present.data) \in Nat /\ Len(Present.data) <= 2
    BY PresentData, SentParts
  <2>2. ASSUME NEW a \in Ram
        PROVE  mem[a] = handled[a]
    <3>1. a \in Nat /\ a # 0 /\ a # 1
      BY Constants
    <3>2. a \notin waddr .. waddr + Len(Present.data) - 1
      BY <2>1, <3>1
    <3>3. QED
      BY <1>2, <3>2, MemoryAfter
  <2>3. mem \in [Ram -> Bytes] /\ handled \in [Ram -> Bytes]
    BY DEF Typed
  <2>4. QED
    BY <2>2, <2>3
<1>3. QED
  BY <1>1, <1>2

----------------------------------------------------------------------------
(* The upload: the computer.                                               *)

LEMMA BootAt ==
  ASSUME UploadAlone, Typed, Uploading, WritesTo(session), NEW b \in Blocks
  PROVE  /\ b # 0
         /\ waddr = AddressOf(b) => BootWaddr = b
         /\ Uploading' /\ waddr' = AddressOf(b) => BootWaddr' = b
<1>1. AddressOf(b) # 0
  BY PlaceInRam
<1>2. b \in Nat /\ b # 0
  BY UploadBlocks DEF Blocks
<1>3. ASSUME waddr = AddressOf(b)
      PROVE  BootWaddr = b
  <2>1. (CHOOSE blk \in Blocks : AddressOf(blk) = waddr) = b
    BY <1>3, BlockIs
  <2>2. QED
    BY <1>1, <1>3, <2>1 DEF BootWaddr
<1>4. ASSUME Uploading', waddr' = AddressOf(b)
      PROVE  BootWaddr' = b
  <2>1. (CHOOSE blk \in Blocks : AddressOf(blk) = waddr') = b
    BY <1>4, BlockIs
  <2>2. QED
    BY <1>1, <1>4, <2>1 DEF BootWaddr
<1>5. QED
  BY <1>2, <1>3, <1>4

LEMMA BootPut ==
  ASSUME Uploading, Uploading', handled' = mem, NEW b \in Blocks,
         \A e \in Blocks : e # b => Shown(mem, e) = Shown(handled, e)
  PROVE  BootMem' = [BootMem EXCEPT ![b] = Shown(mem, b)]
<1>1. BootMem = [blk \in Blocks |-> Shown(handled, blk)]
  BY DEF BootMem, BlockState, Shown
<1>2. BootMem' = [blk \in Blocks |-> Shown(mem, blk)]
  BY DEF BootMem, BlockState, Shown
<1>3. QED
  BY <1>1, <1>2

\* A packet is complete: BoaBoot's computer takes it.
LEMMA BootCarries ==
  ASSUME UploadAlone, 1 \notin Ram, Typed, Together \/ Garbled \/ Deaf, Uploading, Uploaded,
         WritesTo(session), Addressed, result = "busy", up # <<>>, upHit \in HitTypes, rom = "rom", CarriedOut,
         UNCHANGED <<session, todo, try, awaiting, hspeed, result, faults, upHit, acked, misframed>>
  PROVE  Uploaded' /\ Boot!React
<1>1. /\ down' = Rest(Reply, 0) /\ downHit' = "none" /\ up' = <<>>
      /\ handled' = mem /\ div' = div /\ rdata' = rdata
      /\ waddr' = IF Right(P_WRITE) THEN Present.data[1] ELSE waddr
      /\ rom' = IF Right(P_SPEED) /\ Supported(Divider(Present.data[1])) THEN "speed"
                ELSE IF Right(P_JUMP) THEN "program" ELSE "rom"
      /\ said' = (IF upHit = "none" THEN "A_ACK" ELSE "A_XSUM")
      /\ Right(P_JUMP) => rdata[1] = Present.data[1]
  BY DEF CarriedOut
<1>2. PICK p \in Arrivals(Sent, upHit) :
        Stored(p, Len(Sent) - 1) /\ rrx.header.type = p[2] /\ mistaken' = (mistaken \/ Mistaken)
  BY DEF CarriedOut
<1>3. /\ Whole(Sent) /\ Sent[2] = Present.type /\ SumTo(Sent, Len(Sent) - 1) = Sent[Len(Sent)]
  BY SentParts
<1>4. upHit # "type" => p[2] = Present.type
  BY <1>2, <1>3, Arrived
<1>5. PICK b \in Blocks : b = Present.blk
  BY BootPlace
<1>6. /\ BootStep = NameOf(Present.type) /\ BootBlk = b
      /\ \/ Present.type = P_WRITE /\ BootStep = "P_WRITE" /\ Present.data[1] = AddressOf(b)
         \/ Present.type = P_WDATA /\ BootStep = "P_WDATA"
         \/ Present.type = P_JUMP /\ BootStep = "P_JUMP" /\ Present.data[1] = Upload.addr
  BY <1>5, BootPlace
<1>7. BootRequest = [type |-> BootStep, blk |-> b, fault |-> FaultOf(upHit)]
  BY <1>5, <1>6 DEF BootRequest
<1>8. /\ Uploading' /\ UNCHANGED <<BootStep, BootBlk>> /\ BootRequest' = [type |-> "none"]
      /\ handled' = handled => UNCHANGED BootMem
      /\ waddr' = waddr => UNCHANGED BootWaddr
  BY <1>1, BootSame DEF BootRequest
<1>9. down' # <<>>
  <2>1. Whole(Reply)
    BY ReplyParts
  <2>2. 0 \in 0 .. Len(Reply) - 1
    BY <2>1 DEF Whole
  <2>3. QED
    BY <1>1, <2>1, <2>2, RestParts
<1>10. Boot!Answer(said')
  <2>1. NameOf(Present.type)' = NameOf(Present.type) /\ Present'.blk = Present.blk
    BY DEF NameOf, Present
  <2>2. BootAnswer' = [type |-> said', for |-> NameOf(Present.type)', blk |-> Present'.blk, intact |-> TRUE]
    BY <1>1, <1>8, <1>9 DEF BootAnswer
  <2>3. BootRequest.type = BootStep /\ BootRequest.blk = b
    BY <1>7
  <2>4. BootAnswer' = [type |-> said', for |-> BootRequest.type, blk |-> BootRequest.blk, intact |-> TRUE]
    BY <1>5, <1>6, <2>1, <2>2, <2>3
  <2>5. QED
    BY <2>4 DEF Boot!Answer
<1>11. ~Right(P_SPEED) /\ (Right(P_WRITE) => waddr' = AddressOf(b))
  BY <1>1, <1>6, NameIs DEF Right
<1>12. Present.type = P_WDATA => waddr = AddressOf(b)
  <2>1. ASSUME Present.type = P_WDATA
        PROVE  waddr = AddressOf(b)
    <3>1. Command = Upload /\ Command.name \in Writers
      BY DEF Command, Uploading, UploadAlone, Writers
    <3>2. waddr = Upload.addr + From(Present.blk)
      BY <2>1, <3>1 DEF Addressed
    <3>3. QED
      BY <1>5, <3>2, UploadBlocks
  <2>2. QED
    BY <2>1
<1>13. Uploaded'
  <2>1. SameSpeed' <=> SameSpeed
    BY <1>1 DEF SameSpeed
  <2>2. rom' # "speed" /\ (rom' = "program" => rdata'[1] = Upload.addr)
    BY <1>1, <1>6, <1>11, NameIs DEF Right
  <2>3. waddr' = 0 \/ \E e \in Blocks : waddr' = AddressOf(e)
    BY <1>1, <1>11 DEF Uploaded
  <2>4. upHit' # "length" /\ downHit' # "length" /\ ~misframed'
    BY <1>1 DEF Uploaded
  <2>5. QED
    BY <1>1, <2>1, <2>2, <2>3, <2>4 DEF Uploaded
<1>14. /\ BootRequest.type = BootStep /\ BootRequest.blk = b /\ BootRequest.fault = FaultOf(upHit)
       /\ BootRequest # [type |-> "none"]
  <2>1. BootRequest.type = BootStep /\ BootRequest.blk = b /\ BootRequest.fault = FaultOf(upHit)
    BY <1>7
  <2>2. QED
    BY <1>6, <2>1
<1>15. ~(Uploading /\ rom = "program") /\ ((Uploading /\ rom = "program")' <=> Right(P_JUMP))
  BY <1>1, <1>8, <1>11
<1>16. p[2] # P_WDATA => handled' = handled
  BY <1>1, <1>2, MemoryAfter
<1>17. (p[2] = P_WDATA => Present.type = P_WDATA \/ waddr = 0) => ((Uploading /\ mistaken)' <=> (Uploading /\ mistaken))
  BY <1>2, <1>8 DEF Mistaken
<1>18. CASE upHit = "none"
  <2>1. BootRequest.fault = "none" /\ said' = "A_ACK"
    BY <1>1, <1>14, <1>18 DEF FaultOf
  <2>2. (Uploading /\ mistaken)' <=> (Uploading /\ mistaken)
    BY <1>4, <1>17, <1>18
  <2>3. CASE Present.type = P_WRITE
    <3>1. BootWaddr' = BootRequest.blk
      BY <1>8, <1>11, <1>14, <1>18, <2>3, BootAt DEF Right
    <3>2. UNCHANGED BootMem /\ ~Right(P_JUMP) /\ BootRequest.type = "P_WRITE"
      BY <1>4, <1>6, <1>8, <1>14, <1>16, <1>18, <2>3, NameIs DEF Right
    <3>3. Boot!Intact
      BY <1>10, <1>15, <2>1, <3>1, <3>2, Zenon DEF Boot!Intact
    <3>4. QED
      BY <1>8, <1>13, <1>14, <2>2, <3>3, Zenon DEF Boot!React, Boot!None, Boot!prog
  <2>4. CASE Present.type = P_WDATA
    <3>1. waddr = AddressOf(b) /\ UNCHANGED BootWaddr /\ BootWaddr = b /\ ~Right(P_JUMP)
      BY <1>1, <1>8, <1>12, <2>4, BootAt, NameIs DEF Right
    <3>2. /\ Shown(mem, b) = "image"
          /\ \A e \in Blocks : e # b => Shown(mem, e) = Shown(handled, e)
      BY <1>2, <1>5, <1>18, <2>4, <3>1, WdataShown
    <3>3. BootMem' = [BootMem EXCEPT ![BootWaddr] = "image"]
      BY <1>1, <1>8, <3>1, <3>2, BootPut
    <3>4. Boot!Put(IF BootWaddr = BootRequest.blk THEN "image" ELSE "garbage")
      BY <1>14, <3>1, <3>3 DEF Boot!Put
    <3>5. BootRequest.type = "P_WDATA"
      BY <1>6, <1>14, <2>4, NameIs
    <3>6. Boot!Intact
      BY <1>10, <1>15, <2>1, <3>1, <3>4, <3>5, Zenon DEF Boot!Intact
    <3>7. QED
      BY <1>8, <1>13, <1>14, <2>2, <3>6, Zenon DEF Boot!React, Boot!None, Boot!prog
  <2>5. CASE Present.type = P_JUMP
    <3>1. UNCHANGED <<BootMem, BootWaddr>> /\ Right(P_JUMP) /\ BootRequest.type = "P_JUMP"
      BY <1>1, <1>4, <1>6, <1>8, <1>14, <1>16, <1>18, <2>5, NameIs DEF Right
    <3>2. (Uploading /\ rom = "program")' = TRUE
      BY <1>15, <3>1
    <3>3. Boot!Intact
      BY <1>10, <1>15, <2>1, <3>1, <3>2, Zenon DEF Boot!Intact
    <3>4. QED
      BY <1>8, <1>13, <1>14, <2>2, <3>3, Zenon DEF Boot!React, Boot!None, Boot!prog
  <2>6. QED
    BY <1>6, <2>3, <2>4, <2>5
<1>19. ASSUME upHit # "none"
       PROVE  /\ said' = "A_XSUM" /\ UNCHANGED BootWaddr /\ ~Right(P_JUMP)
              /\ (Uploading /\ rom = "program")' <=> (Uploading /\ rom = "program")
  BY <1>1, <1>8, <1>15, <1>19 DEF Right
<1>20. CASE upHit \in {"data", "xsum"}
  <2>1. BootRequest.fault = "data"
    BY <1>14, <1>20 DEF FaultOf
  <2>2. (Uploading /\ mistaken)' <=> (Uploading /\ mistaken)
    BY <1>4, <1>17, <1>20
  <2>3. CASE Present.type = P_WDATA
    <3>1. waddr = AddressOf(b) /\ BootWaddr = b /\ BootWaddr # 0
      BY <1>12, <2>3, BootAt
    <3>2. /\ Shown(mem, b) \in {"image", "garbage"}
          /\ \A e \in Blocks : e # b => Shown(mem, e) = Shown(handled, e)
      BY <1>2, <1>5, <1>20, <2>3, <3>1, WdataShown
    <3>3. BootMem' = [BootMem EXCEPT ![BootWaddr] = Shown(mem, b)]
      BY <1>1, <1>8, <3>1, <3>2, BootPut
    <3>4. \E what \in {"image", "garbage"} : Boot!Put(what)
      BY <3>2, <3>3 DEF Boot!Put
    <3>5. BootRequest.type = "P_WDATA"
      BY <1>6, <1>14, <2>3, NameIs
    <3>6. Boot!Damaged
      BY <1>10, <1>15, <1>19, <1>20, <2>1, <3>1, <3>4, <3>5, Zenon DEF Boot!Damaged
    <3>7. QED
      BY <1>8, <1>13, <1>14, <2>2, <3>6, Zenon DEF Boot!React, Boot!None, Boot!prog
  <2>4. CASE Present.type # P_WDATA
    <3>1. UNCHANGED BootMem /\ BootRequest.type # "P_WDATA"
      BY <1>4, <1>6, <1>8, <1>14, <1>16, <1>20, <2>4
    <3>2. Boot!Damaged
      BY <1>10, <1>15, <1>19, <1>20, <2>1, <3>1, Zenon DEF Boot!Damaged
    <3>3. QED
      BY <1>8, <1>13, <1>14, <2>2, <3>2, Zenon DEF Boot!React, Boot!None, Boot!prog
  <2>5. QED
    BY <2>3, <2>4
<1>21. CASE upHit = "type"
  <2>1. BootRequest.fault = "type"
    BY <1>14, <1>21 DEF FaultOf
  <2>2. Present.type = P_WDATA => p[2] # P_WDATA
    <3>1. PICK j \in 1 .. Len(Sent), n \in Noise : PartAt(Len(Sent), j) = "type" /\ p = [Sent EXCEPT ![j] = n] /\ p # Sent
      BY <1>2, <1>21 DEF Arrivals
    <3>2. Sent \in Seq(Bytes) /\ Len(Sent) \in Nat /\ n \in Bytes /\ 2 \in 1 .. Len(Sent)
      BY <1>3, NoiseBytes DEF Whole
    <3>3. /\ p \in Seq(Bytes) /\ Len(p) = Len(Sent)
          /\ \A i \in 1 .. Len(Sent) : p[i] = IF i = j THEN n ELSE Sent[i]
      BY <3>1, <3>2, ExceptSeq
    <3>4. j = 2
      BY <3>1 DEF PartAt
    <3>5. p[2] # Sent[2]
      <4>1. SUFFICES ASSUME p[2] = Sent[2]
                     PROVE  p = Sent
        BY <3>1
      <4>2. \A i \in 1 .. Len(Sent) : p[i] = Sent[i]
        BY <3>3, <3>4, <4>1
      <4>3. QED
        BY <3>2, <3>3, <4>2, SeqEqual
    <3>6. QED
      BY <1>3, <3>5
  <2>3. CASE p[2] = P_WDATA /\ waddr # 0
    <3>1. PICK e \in Blocks : waddr = AddressOf(e)
      BY <2>3 DEF Uploaded
    <3>2. BootWaddr = e /\ BootWaddr # 0 /\ Present.type # P_WDATA
      BY <2>2, <2>3, <3>1, BootAt
    <3>3. /\ Shown(mem, e) \in {"image", "garbage"}
          /\ \A x \in Blocks : x # e => Shown(mem, x) = Shown(handled, x)
      BY <1>2, <1>21, <2>3, <3>1, <3>2, MistakenShown
    <3>4. BootMem' = [BootMem EXCEPT ![BootWaddr] = Shown(mem, e)]
      BY <1>1, <1>8, <3>2, <3>3, BootPut
    <3>5. \E what \in {"image", "garbage"} : Boot!Put(what)
      BY <3>3, <3>4 DEF Boot!Put
    <3>6. BootRequest.type # "P_WDATA" /\ (Uploading /\ mistaken)' = TRUE
      BY <1>2, <1>6, <1>8, <1>14, <2>3, <3>2 DEF Mistaken
    <3>7. Boot!Mistaken
      BY <1>10, <1>15, <1>19, <1>21, <2>1, <3>2, <3>5, <3>6, Zenon DEF Boot!Mistaken
    <3>8. QED
      BY <1>8, <1>13, <1>14, <3>7, Zenon DEF Boot!React, Boot!None, Boot!prog
  <2>4. CASE ~(p[2] = P_WDATA /\ waddr # 0)
    <3>1. (Uploading /\ mistaken)' <=> (Uploading /\ mistaken)
      BY <1>17, <2>4
    <3>2. handled' = handled
      BY <1>1, <1>2, <1>16, <2>2, <2>4, NothingShown
    <3>3. Boot!Mistaken
      BY <1>8, <1>10, <1>15, <1>19, <1>21, <2>1, <3>1, <3>2, Zenon DEF Boot!Mistaken
    <3>4. QED
      BY <1>8, <1>13, <1>14, <3>3, Zenon DEF Boot!React, Boot!None, Boot!prog
  <2>5. QED
    BY <2>3, <2>4
<1>22. QED
  BY <1>18, <1>20, <1>21 DEF HitTypes

LEMMA BootTakes ==
  ASSUME UploadAlone, 1 \notin Ram, Typed, Together \/ Garbled \/ Deaf, Uploading, Uploaded,
         WritesTo(session), Addressed, ComputerReceives
  PROVE  Uploaded' /\ (Boot!React \/ UNCHANGED Boot!vars)
<1>1. /\ up # <<>> /\ rom = "rom"
      /\ UNCHANGED <<session, todo, try, awaiting, hspeed, result, faults, upHit, misframed>>
  BY TakesParts
<1>2. acked' = acked /\ (said' = said \/ Complete(rrx))
  BY DEF ComputerReceives
<1>3. Asking /\ SameSpeed
  BY <1>1, UploadPhases DEF Uploaded
<1>4. MoreUp \/ CarriedOut
  BY <1>3, RequestArrives
<1>5. result = "busy" /\ upHit \in HitTypes /\ down = <<>>
  BY <1>3 DEF Asking, Typed
<1>6. CASE MoreUp
  <2>1. UNCHANGED <<waddr, rom, div, calls, down, handled, downHit, mistaken>>
    BY <1>6 DEF MoreUp
  <2>2. PICK p \in Arrivals(Sent, upHit), k \in 0 .. Len(Sent) - 1 : AskedTo(p, k)'
    BY <1>6 DEF MoreUp
  <2>3. up' # <<>>
    <3>1. Whole(p) /\ Len(p) = Len(Sent) /\ up' = Rest(p, k)
      BY <1>5, <2>2, SentParts, Arrived DEF AskedTo
    <3>2. QED
      BY <3>1, RestParts
  <2>4. UNCHANGED <<BootStep, BootBlk, BootRequest, BootAnswer, BootWaddr, BootMem>> /\ Uploading'
    BY <1>1, <1>5, <2>1, <2>3, BootSame
  <2>5. UNCHANGED Boot!vars
    BY <1>1, <1>2, <2>1, <2>4 DEF Boot!vars, Boot!prog, Boot!boot
  <2>6. Uploaded'
    BY <1>1, <1>5, <2>1 DEF Uploaded, SameSpeed
  <2>7. QED
    BY <2>5, <2>6
<1>7. CASE CarriedOut
  BY <1>1, <1>2, <1>5, <1>7, BootCarries
<1>8. QED
  BY <1>4, <1>6, <1>7

\* A step of an upload is one of BoaBoot, or none.
LEMMA UploadStep ==
  ASSUME UploadAlone, 1 \notin Ram, LinkInv, [Next]_vars, Uploading, Uploaded, WritesTo(session), Addressed
  PROVE  Uploading' /\ Uploaded' /\ [Boot!Next]_Boot!vars
<1>1. Typed /\ (Together \/ Garbled \/ Deaf)
  BY DEF LinkInv, Uploaded
<1>2. CASE ProgrammerSends
  <2>1. Uploaded' /\ Boot!Send
    BY <1>1, <1>2, BootSends
  <2>2. session' = session
    BY <1>2 DEF ProgrammerSends, SendRequest
  <2>3. QED
    BY <2>1, <2>2 DEF Boot!Next, Uploading
<1>3. CASE ProgrammerGivesUp
  <2>1. Uploaded' /\ Boot!GiveUp
    BY <1>1, <1>3, BootGivesUp
  <2>2. session' = session
    BY <1>3 DEF ProgrammerGivesUp, GiveUpRequest
  <2>3. QED
    BY <2>1, <2>2 DEF Boot!Next, Uploading
<1>4. CASE ProgrammerReceives
  <2>1. Uploaded' /\ (Boot!Receive \/ UNCHANGED Boot!vars)
    BY <1>1, <1>4, BootReceives
  <2>2. session' = session
    BY <1>4, ReceivesParts
  <2>3. QED
    BY <2>1, <2>2 DEF Boot!Next, Uploading
<1>5. CASE ComputerReceives
  <2>1. Uploaded' /\ (Boot!React \/ UNCHANGED Boot!vars)
    BY <1>1, <1>5, BootTakes
  <2>2. session' = session
    BY <1>5, TakesParts
  <2>3. QED
    BY <2>1, <2>2 DEF Boot!Next, Uploading
<1>6. CASE Disturb
  <2>1. Uploaded' /\ Boot!Disturb
    BY <1>1, <1>6, BootDisturbs
  <2>2. session' = session
    BY <1>6 DEF Disturb, programmer
  <2>3. QED
    BY <2>1, <2>2 DEF Boot!Next, Uploading
<1>7. ~ProgrammerStarts
  BY DEF ProgrammerStarts, NextCommand, Uploading
<1>8. ~ComputerSetsDivider /\ ~ComputerRestarts /\ ~Unrecognised
  BY DEF ComputerSetsDivider, SetDivider, ComputerRestarts, Restart, Unrecognised, Uploaded, UploadAlone
<1>9. CASE UNCHANGED vars
  <2>1. /\ UNCHANGED <<rrx, rdata, waddr, mem, rom, div, calls, up, down>>
        /\ UNCHANGED <<session, todo, try, awaiting, prx, pdata, hspeed, result, switched>>
        /\ UNCHANGED <<faults, upHit, downHit, acked, said, handled, mistaken, misframed, started>>
    BY <1>9 DEF vars, computer, programmer, line, history
  <2>2. UNCHANGED <<BootStep, BootBlk, BootRequest, BootAnswer, BootWaddr, BootMem>> /\ Uploading'
    BY <2>1, BootSame
  <2>3. UNCHANGED Boot!vars
    BY <2>1, <2>2 DEF Boot!vars, Boot!prog, Boot!boot
  <2>4. Uploaded'
    BY <2>1 DEF Uploaded, SameSpeed
  <2>5. QED
    BY <2>2, <2>3, <2>4
<1>10. QED
  BY <1>2, <1>3, <1>4, <1>5, <1>6, <1>7, <1>8, <1>9 DEF Next, Programmer, Computer

\* What the mapping makes of other sessions.
Elsewhere ==
  /\ BootStep = "P_WRITE" /\ BootBlk = 1 /\ BootRequest = [type |-> "none"]
  /\ BootAnswer = [type |-> "none"] /\ BootWaddr = 0 /\ BootMem = [blk \in Blocks |-> "old"]

LEMMA NotUploading == ~Uploading => Elsewhere
BY DEF Elsewhere, BootStep, BootBlk, BootRequest, BootAnswer, BootWaddr, BootMem

LEMMA SessionGoes ==
  ASSUME [Next]_vars
  PROVE  session' = session \/ (Len(session) > 1 /\ session' = Tail(session))
<1>1. CASE Programmer
  BY <1>1 DEF Programmer, ProgrammerSends, SendRequest, ProgrammerGivesUp, GiveUpRequest,
       ProgrammerStarts, NextCommand, ProgrammerReceives, HostRx, HostCollect, HostAnswer
<1>2. CASE Computer \/ Disturb \/ Unrecognised
  BY <1>2 DEF Computer, ComputerReceives, ComputerSetsDivider, ComputerRestarts, Disturb, Unrecognised, programmer
<1>3. CASE UNCHANGED vars
  BY <1>3 DEF vars, programmer
<1>4. QED
  BY <1>1, <1>2, <1>3 DEF Next

\* The sessions of other commands never become the upload.
LEMMA OtherStep ==
  ASSUME [Next]_vars, session \in Seq(Commands), session # <<>>, ~Uploading,
         \A i \in 1 .. Len(session) : session[i] # Upload
  PROVE  /\ ~Uploading' /\ (\A i \in 1 .. Len(session) : session[i] # Upload)'
         /\ UNCHANGED Boot!vars
<1>1. session' = session \/ session' = Tail(session)
  BY SessionGoes
<1>2. /\ Len(Tail(session)) = Len(session) - 1 /\ Len(session) \in Nat
      /\ \A i \in 1 .. Len(Tail(session)) : Tail(session)[i] = session[i + 1]
  BY HeadTailProperties
<1>3. \A i \in 1 .. Len(session') : session'[i] # Upload
  <2>1. \A i \in 1 .. Len(Tail(session)) : i + 1 \in 1 .. Len(session)
    BY <1>2
  <2>2. QED
    BY <1>1, <1>2, <2>1
<1>4. ~Uploading'
  <2>1. SUFFICES ASSUME session' = <<Upload>>
                 PROVE  FALSE
    BY DEF Uploading
  <2>2. Len(session') = 1 /\ session'[1] = Upload
    BY <2>1
  <2>3. QED
    BY <1>3, <2>2
<1>5. Elsewhere /\ Elsewhere'
  BY <1>4, NotUploading DEF Elsewhere, BootStep, BootBlk, BootRequest, BootAnswer, BootWaddr, BootMem
<1>6. UNCHANGED <<BootStep, BootBlk, BootRequest, BootAnswer, BootWaddr, BootMem>>
  BY <1>5 DEF Elsewhere
<1>7. UNCHANGED Boot!vars
  BY <1>4, <1>6 DEF Boot!vars, Boot!prog, Boot!boot
<1>8. QED
  BY <1>3, <1>4, <1>7

LEMMA BootInit ==
  ASSUME UploadAlone, WritesRam, Init
  PROVE  BootInv /\ Boot!Init
<1>1. /\ session \in Sessions /\ todo = Begin(Head(session)).todo /\ result = "busy" /\ ~awaiting
      /\ up = <<>> /\ down = <<>> /\ try = 0 /\ faults = 0 /\ acked = {} /\ mistaken = FALSE
      /\ misframed = FALSE /\ upHit = "none" /\ downHit = "none" /\ hspeed = InitSpeed
      /\ rom = "rom" /\ waddr = 0 /\ div = Divider(DefaultSpeed) /\ handled = [a \in Ram |-> 0]
  BY DEF Init, ProgrammerInit, RomInit
<1>2. Typed /\ WritesTo(session)
  BY <1>1, LinkInit, WritesInit DEF LinkInv
<1>3. BootInv
  <2>1. Uploading \/ \A i \in 1 .. Len(session) : session[i] # Upload
    BY <1>1 DEF UploadAlone, Uploading
  <2>2. Uploaded
    BY <1>1 DEF Uploaded, SameSpeed, UploadAlone
  <2>3. QED
    BY <2>1, <2>2 DEF BootInv
<1>4. Elsewhere
  <2>1. CASE Uploading
    <3>1. 1 \in 1 .. BlockCount(Len(Upload.wdata)) /\ 2 * 1 - 1 = 1
      BY UploadBlocks
    <3>2. Begin(Upload).todo[1] = WriteOf(Upload.addr, Upload.wdata, 1)
      BY <3>1, UploadSteps
    <3>3. Present = WriteOf(Upload.addr, Upload.wdata, 1)
      BY <1>1, <2>1, <3>2 DEF Uploading, Present
    <3>4. BootStep = "P_WRITE" /\ BootBlk = 1
      <4>1. Present.type = P_WRITE /\ Present.blk = 1
        BY <3>3, WriteKinds
      <4>2. QED
        BY <1>1, <1>2, <2>1, <4>1, BootPlace, NameIs
    <3>5. ASSUME NEW b \in Blocks
          PROVE  Shown(handled, b) = "old"
      <4>1. AddressOf(b) \in Nat /\ Len(DataOf(b)) \in Nat
        BY UploadBlocks
      <4>2. ASSUME NEW i \in 1 .. Len(DataOf(b))
            PROVE  handled[AddressOf(b) + i - 1] = 0
        <5>1. AddressOf(b) + i - 1 \in Place(b)
          BY <4>1 DEF Place
        <5>2. AddressOf(b) + i - 1 \in Ram
          BY <1>2, <2>1, <5>1, PlaceInRam
        <5>3. QED
          BY <1>1, <5>2
      <4>3. QED
        BY <4>2, ShownFacts
    <3>6. BootMem = [blk \in Blocks |-> "old"]
      <4>1. BootMem = [blk \in Blocks |-> Shown(handled, blk)]
        BY <2>1 DEF BootMem, BlockState, Shown
      <4>2. QED
        BY <3>5, <4>1
    <3>7. BootRequest = [type |-> "none"] /\ BootAnswer = [type |-> "none"] /\ BootWaddr = 0
      BY <1>1 DEF BootRequest, BootAnswer, BootWaddr
    <3>8. QED
      BY <3>4, <3>6, <3>7 DEF Elsewhere
  <2>2. CASE ~Uploading
    BY <2>2, NotUploading
  <2>3. QED
    BY <2>1, <2>2
<1>5. Boot!Init
  BY <1>1, <1>4 DEF Boot!Init, Boot!None, Boot!Block, Elsewhere, Blocks
<1>6. QED
  BY <1>3, <1>5

\* An upload of packets of bytes through two parsers is, step by step, the upload of whole messages
\* that BoaBoot describes, so that all that is shown there holds of it: whatever the data, the sizes
\* of blocks and buffers and the number of tries, and whichever bytes the line disturbs.
THEOREM LinkIsBoot == NoFalseStart /\ WritesRam /\ UploadAlone => (Spec => IsBoot)
<1> SUFFICES ASSUME NoFalseStart, WritesRam, UploadAlone
             PROVE  Spec => IsBoot
  OBVIOUS
<1> DEFINE UploadInv == /\ LinkInv /\ (~misframed => Tried /\ Addressed /\ Written /\ WritesTo(session))
                        /\ session \in Seq(Commands) /\ session # <<>> /\ BootInv
<1>1. Init => UploadInv /\ Boot!Init
  <2>1. SUFFICES ASSUME Init
                 PROVE  session \in Seq(Commands) /\ session # <<>>
    BY LinkInit, TriedInit, WritesInit, BootInit
  <2>2. session \in Sessions
    BY <2>1 DEF Init, ProgrammerInit
  <2>3. QED
    BY <2>2, ProgrammerAssumption
<1>2. UploadInv /\ [Next]_vars => UploadInv' /\ [Boot!Next]_Boot!vars
  <2>1. SUFFICES ASSUME UploadInv, [Next]_vars
                 PROVE  UploadInv' /\ [Boot!Next]_Boot!vars
    OBVIOUS
  <2>2. LinkInv' /\ (~misframed' => (Tried /\ Addressed /\ Written /\ WritesTo(session))')
    <3>1. SUFFICES ASSUME ~misframed'
                   PROVE  Tried' /\ Addressed' /\ Written' /\ WritesTo(session)'
      BY <2>1, LinkStep
    <3>2. LinkInv /\ Tried /\ Addressed /\ Written /\ WritesTo(session)
      BY <2>1, <3>1, MisframedStays
    <3>3. QED
      BY <2>1, <3>1, <3>2, TriedStep, WritesStep
  <2>3. (session \in Seq(Commands) /\ session # <<>>)'
    <3>1. session' = session \/ (Len(session) > 1 /\ session' = Tail(session))
      BY <2>1, SessionGoes
    <3>2. QED
      BY <2>1, <3>1, HeadTailProperties
  <2>4. CASE Uploading
    <3>1. Uploaded /\ ~misframed
      BY <2>1, <2>4 DEF BootInv, Uploaded
    <3>2. Uploading' /\ Uploaded' /\ [Boot!Next]_Boot!vars
      BY <2>1, <2>4, <3>1, UploadStep DEF WritesRam
    <3>3. QED
      BY <2>2, <2>3, <3>2 DEF BootInv
  <2>5. CASE ~Uploading
    <3>1. \A i \in 1 .. Len(session) : session[i] # Upload
      BY <2>1, <2>5 DEF BootInv
    <3>2. ~Uploading' /\ (\A i \in 1 .. Len(session) : session[i] # Upload)' /\ UNCHANGED Boot!vars
      BY <2>1, <2>5, <3>1, OtherStep
    <3>3. QED
      BY <2>2, <2>3, <3>2 DEF BootInv
  <2>6. QED
    BY <2>4, <2>5
<1>3. QED
  BY <1>1, <1>2, PTL DEF Spec, IsBoot, Boot!Spec
=============================================================================
