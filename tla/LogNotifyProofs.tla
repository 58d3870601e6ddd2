-------------------------- MODULE LogNotifyProofs --------------------------
(***************************************************************************)
(* Proofs about LogNotify: its types, and that it implements LogRead, for  *)
(* any number of sensors, logs and buffers and any size of areas and       *)
(* packets, as long as the sensors that work do record.                    *)
(***************************************************************************)
EXTENDS LogNotify, SequenceTheorems, FiniteSetTheorems, WellFoundedInduction,
        TLAPS

-----------------------------------------------------------------------------
(* Numbers.                                                                *)

LEMMA Constants ==
    /\ NumSensors \in Nat /\ MaxLogs \in Nat \ {0} /\ Capacity \in Nat
    /\ PerPacket \in Nat /\ PerPacket > 0 /\ TxSlots \in Nat /\ TxSlots > 0
    /\ Starts \subseteq Nat /\ StoredSizes \subseteq 0 .. Capacity
    /\ 0 \in LogIDs /\ LogIDs \subseteq Nat
  BY NotifyAssumption DEF LogIDs

LEMMA MaxOfTwo ==
    ASSUME NEW a \in Int, NEW b \in Int
    PROVE  Max({a, b}) = IF a >= b THEN a ELSE b
<1> DEFINE m == IF a >= b THEN a ELSE b
<1>1. m \in {a, b} /\ \A y \in {a, b} : m >= y
  OBVIOUS
<1>2. \A x \in {a, b} : (\A y \in {a, b} : x >= y) => x = m
  OBVIOUS
<1> QED
  BY <1>1, <1>2 DEF Max

LEMMA MinOfTwo ==
    ASSUME NEW a \in Int, NEW b \in Int
    PROVE  Min({a, b}) = IF a <= b THEN a ELSE b
<1> DEFINE m == IF a <= b THEN a ELSE b
<1>1. m \in {a, b} /\ \A y \in {a, b} : m <= y
  OBVIOUS
<1>2. \A x \in {a, b} : (\A y \in {a, b} : x <= y) => x = m
  OBVIOUS
<1> QED
  BY <1>1, <1>2 DEF Min

\* A set of numbers has a least.
LEMMA LeastOf ==
    ASSUME NEW S \in SUBSET Nat, S # {}
    PROVE  Min(S) \in S
<1> DEFINE R == {ss \in Nat \X Nat : ss[1] < ss[2]}
<1>1. IsWellFoundedOn(R, Nat)
  BY NatLessThanWellFounded, Zenon DEF OpToRel
<1>2. PICK x \in S : \A y \in S : <<y, x>> \notin R
  <2> HIDE DEF R
  <2> QED
    BY <1>1, WFMin
<1>3. ASSUME NEW y \in S PROVE x <= y
  <2>1. x \in Nat /\ y \in Nat /\ <<y, x>> \in Nat \X Nat
    OBVIOUS
  <2>2. ~(<<y, x>>[1] < <<y, x>>[2])
    BY <1>2, <2>1
  <2> QED
    BY <2>1, <2>2
<1> QED
  BY <1>3 DEF Min

LEMMA Quotient ==
    ASSUME NEW a \in Nat, NEW b \in Nat, b > 0
    PROVE  /\ a \div b \in Nat
           /\ (a \div b) * b <= a
           /\ a < (a \div b) * b + b
<1>1. a \div b \in Nat /\ a % b \in 0 .. b - 1 /\ a = b * (a \div b) + (a % b)
  OBVIOUS
<1>2. b * (a \div b) = (a \div b) * b
  BY <1>1
<1> QED
  BY <1>1, <1>2

LEMMA Products ==
    ASSUME NEW i \in Nat, NEW j \in Nat, NEW b \in Nat
    PROVE  /\ i * b \in Nat
           /\ (i + 1) * b = i * b + b
           /\ i <= j => i * b <= j * b
<1>1. i <= j => j * b = i * b + (j - i) * b
  OBVIOUS
<1>2. i <= j => (j - i) * b \in Nat
  OBVIOUS
<1> QED
  BY <1>1, <1>2

-----------------------------------------------------------------------------
(* What is buffered.                                                       *)

DataPackets == [kind : {"data"}, sensor : Sensors, log : LogIDs, from : Nat,
                count : 0 .. PerPacket]
PacketSet   == DataPackets \cup {Other, Reply}

LEMMA PacketKinds ==
    /\ Other # Reply
    /\ \A p \in DataPackets : p # Reply /\ p # Other /\ p.kind = "data"
    /\ Reply.kind = "reply" /\ Other.kind = "other"
  BY DEF DataPackets, Other, Reply

Notified(q) == {i \in DOMAIN q : q[i] # Reply}
Replies(q)  == {i \in DOMAIN q : q[i] = Reply}

LEMMA NotifiedFinite ==
    ASSUME NEW q \in Seq(PacketSet)
    PROVE  /\ IsFiniteSet(Notified(q)) /\ Cardinality(Notified(q)) \in Nat
           /\ Free(q) = TxSlots - Cardinality(Notified(q))
           /\ Free(q) \in Int
<1>1. DOMAIN q = 1 .. Len(q) /\ Len(q) \in Nat
  BY LenProperties
<1>2. IsFiniteSet(1 .. Len(q)) /\ Notified(q) \in SUBSET (1 .. Len(q))
  BY <1>1, FS_Interval DEF Notified
<1>3. IsFiniteSet(Notified(q))
  BY <1>2, FS_Subset
<1>4. Cardinality(Notified(q)) \in Nat
  BY <1>3, FS_CardinalityType
<1> QED
  BY <1>3, <1>4, Constants DEF Free, Notified

\* Notifications take a buffer each.
LEMMA FreeAfterNotifications ==
    ASSUME NEW q \in Seq(PacketSet), NEW r \in Seq(PacketSet \ {Reply})
    PROVE  /\ q \o r \in Seq(PacketSet)
           /\ Free(q \o r) = Free(q) - Len(r)
           /\ Replies(q \o r) = Replies(q)
<1>1. r \in Seq(PacketSet) /\ Len(r) \in Nat /\ Len(q) \in Nat
  BY LenProperties, SeqMonotonic
<1>2. /\ q \o r \in Seq(PacketSet) /\ Len(q \o r) = Len(q) + Len(r)
      /\ \A i \in 1 .. Len(q) + Len(r) :
            (q \o r)[i] = IF i <= Len(q) THEN q[i] ELSE r[i - Len(q)]
  BY <1>1, ConcatProperties
<1>3. /\ DOMAIN q = 1 .. Len(q)
      /\ DOMAIN (q \o r) = 1 .. Len(q) + Len(r)
  BY <1>2, LenProperties
<1>4. \A i \in Len(q) + 1 .. Len(q) + Len(r) : (q \o r)[i] # Reply
  <2>1. \A j \in 1 .. Len(r) : r[j] # Reply
    BY ElementOfSeq
  <2> QED
    BY <1>1, <1>2, <2>1
<1> DEFINE new == Len(q) + 1 .. Len(q) + Len(r)
<1>5. Notified(q \o r) = Notified(q) \cup new
  <2>1. ASSUME NEW i \in 1 .. Len(q)
        PROVE  i \in DOMAIN (q \o r) /\ (q \o r)[i] = q[i]
    BY <1>1, <1>2, <1>3
  <2>2. ASSUME NEW i \in new
        PROVE  i \in DOMAIN (q \o r) /\ (q \o r)[i] # Reply
    BY <1>1, <1>2, <1>3, <1>4
  <2>3. ASSUME NEW i \in DOMAIN (q \o r), i \notin 1 .. Len(q)
        PROVE  i \in new
    BY <1>1, <1>3, <2>3
  <2> HIDE DEF new
  <2> QED
    BY <1>3, <2>1, <2>2, <2>3 DEF Notified
<1>6. Notified(q) \cap new = {}
  BY <1>1, <1>3 DEF Notified
<1>7. IsFiniteSet(new) /\ Cardinality(new) = Len(r)
  <2> DEFINE a == Len(q) + 1
             b == Len(q) + Len(r)
  <2>1. a \in Int /\ b \in Int
    BY <1>1
  <2> HIDE DEF a, b
  <2>2. /\ IsFiniteSet(a .. b)
        /\ Cardinality(a .. b) = IF a > b THEN 0 ELSE b - a + 1
    BY <2>1, FS_Interval
  <2>3. (IF a > b THEN 0 ELSE b - a + 1) = Len(r)
    BY <1>1 DEF a, b
  <2> QED
    BY <2>2, <2>3 DEF a, b
<1>8. /\ IsFiniteSet(Notified(q)) /\ Cardinality(Notified(q)) \in Nat
      /\ Free(q) = TxSlots - Cardinality(Notified(q))
      /\ Free(q \o r) = TxSlots - Cardinality(Notified(q \o r))
  BY <1>2, NotifiedFinite
<1>9. Cardinality(Notified(q \o r)) = Cardinality(Notified(q)) + Len(r)
  <2> HIDE DEF new
  <2>1. Cardinality(Notified(q) \cap new) = 0
    BY <1>6, FS_EmptySet
  <2>2. Cardinality(Notified(q) \cup new)
           = Cardinality(Notified(q)) + Cardinality(new)
                - Cardinality(Notified(q) \cap new)
    BY <1>7, <1>8, FS_Union
  <2> QED
    BY <1>1, <1>5, <1>7, <1>8, <2>1, <2>2
<1>10. Replies(q \o r) = Replies(q)
  BY <1>1, <1>2, <1>3, <1>4 DEF Replies
<1> QED
  BY <1>1, <1>2, <1>8, <1>9, <1>10, Constants

\* Answers take none.
LEMMA FreeAfterReply ==
    ASSUME NEW q \in Seq(PacketSet)
    PROVE  /\ Append(q, Reply) \in Seq(PacketSet)
           /\ Free(Append(q, Reply)) = Free(q)
           /\ Replies(Append(q, Reply)) = Replies(q) \cup {Len(q) + 1}
<1> DEFINE r == Append(q, Reply)
<1>1. /\ r \in Seq(PacketSet) /\ Len(r) = Len(q) + 1 /\ Len(q) \in Nat
      /\ \A i \in 1 .. Len(q) : r[i] = q[i]
      /\ r[Len(q) + 1] = Reply
  BY AppendProperties, LenProperties DEF PacketSet
<1>2. DOMAIN q = 1 .. Len(q) /\ DOMAIN r = 1 .. Len(q) + 1
  BY <1>1, LenProperties
<1> HIDE DEF r
<1>3. Notified(r) = Notified(q)
  BY <1>1, <1>2 DEF Notified
<1>4. Replies(r) = Replies(q) \cup {Len(q) + 1}
  BY <1>1, <1>2 DEF Replies
<1> QED
  BY <1>1, <1>3, <1>4, NotifiedFinite DEF r

\* What is delivered leaves its buffer.
LEMMA FreeAfterDelivery ==
    ASSUME NEW q \in Seq(PacketSet), q # <<>>
    PROVE  /\ Tail(q) \in Seq(PacketSet) /\ Head(q) \in PacketSet
           /\ Free(Tail(q)) = Free(q) + (IF Head(q) = Reply THEN 0 ELSE 1)
           /\ Replies(Tail(q)) = {i - 1 : i \in Replies(q) \ {1}}
           /\ (Head(q) = Reply) = (1 \in Replies(q))
<1> DEFINE r == Tail(q)
<1>1. /\ r \in Seq(PacketSet) /\ Head(q) \in PacketSet
      /\ Len(q) \in Nat /\ Len(q) # 0 /\ Len(r) = Len(q) - 1
      /\ \A i \in 1 .. Len(r) : r[i] = q[i + 1]
      /\ Head(q) = q[1]
  BY EmptySeq, LenProperties, HeadTailProperties
<1>2. DOMAIN q = 1 .. Len(q) /\ DOMAIN r = 1 .. Len(q) - 1
  BY <1>1, LenProperties
<1> HIDE DEF r
<1> DEFINE A == Notified(q) \ {1}
           f == [i \in Notified(r) |-> i + 1]
<1>3. /\ \A i \in Notified(r) : i \in Int /\ i + 1 \in A
      /\ \A j \in A : j \in Int /\ j - 1 \in Notified(r)
  BY <1>1, <1>2 DEF Notified
<1>4. f \in Bijection(Notified(r), A)
  <2>1. f \in [Notified(r) -> A]
    BY <1>3
  <2>2. \A i, j \in Notified(r) : f[i] = f[j] => i = j
    BY <1>3
  <2>3. \A j \in A : \E i \in Notified(r) : f[i] = j
    <3> SUFFICES ASSUME NEW j \in A PROVE f[j - 1] = j
      BY <1>3
    <3> QED
      BY <1>3
  <2> HIDE DEF f, A
  <2> QED
    BY <2>1, <2>2, <2>3 DEF Bijection, Injection, Surjection, IsInjective
<1>5. /\ IsFiniteSet(Notified(r)) /\ IsFiniteSet(Notified(q))
      /\ Cardinality(Notified(q)) \in Nat
  BY <1>1, NotifiedFinite
<1> HIDE DEF f
<1>6. Cardinality(A) = Cardinality(Notified(r))
  BY <1>4, <1>5, FS_Bijection DEF ExistsBijection
<1>7. Cardinality(A) = Cardinality(Notified(q)) - (IF Head(q) = Reply THEN 0 ELSE 1)
  <2>1. (1 \in Notified(q)) = (Head(q) # Reply)
    BY <1>1, <1>2 DEF Notified
  <2>2. Cardinality(A) = IF 1 \in Notified(q) THEN Cardinality(Notified(q)) - 1
                         ELSE Cardinality(Notified(q))
    BY <1>5, FS_RemoveElement
  <2> HIDE DEF A
  <2> QED
    BY <1>5, <2>1, <2>2
<1>8. Free(r) = Free(q) + (IF Head(q) = Reply THEN 0 ELSE 1)
  <2>1. /\ Free(r) = TxSlots - Cardinality(Notified(r))
        /\ Free(q) = TxSlots - Cardinality(Notified(q))
    BY <1>1, NotifiedFinite
  <2>2. Cardinality(Notified(r)) =
            Cardinality(Notified(q)) - (IF Head(q) = Reply THEN 0 ELSE 1)
    BY <1>6, <1>7
  <2> HIDE DEF A
  <2> QED
    BY <1>5, <2>1, <2>2, Constants
<1>9. Replies(r) = {i - 1 : i \in Replies(q) \ {1}}
  <2>1. ASSUME NEW i \in Replies(r)
        PROVE  i + 1 \in Replies(q) \ {1} /\ i = (i + 1) - 1
    BY <1>1, <1>2 DEF Replies
  <2>2. ASSUME NEW i \in Replies(q) \ {1}
        PROVE  i - 1 \in Replies(r)
    BY <1>1, <1>2 DEF Replies
  <2> QED
    BY <2>1, <2>2, Zenon
<1>10. (Head(q) = Reply) = (1 \in Replies(q))
  BY <1>1, <1>2 DEF Replies
<1> QED
  BY <1>1, <1>8, <1>9, <1>10 DEF r

-----------------------------------------------------------------------------
(* What is made of a context.                                              *)

LEMMA Slice ==
    ASSUME NEW left \in Nat, NEW size \in Nat, size > 0,
           NEW x \in Nat, NEW y \in Nat, y = x + size,
           NEW i \in Nat, NEW full \in Nat, NEW F \in Nat,
           F <= left + size - 1, left + size - 1 < F + size,
           i <= full => y <= F, i > full => F <= x
    PROVE  LET k == IF left <= x THEN left ELSE x
               l == IF left <= y THEN left ELSE y
               n == IF size <= left - k THEN size ELSE left - k
           IN  /\ k \in 0 .. left /\ n \in 0 .. size
               /\ x = 0 => k = 0
               /\ i <= full => n > 0
               /\ i > full => n = 0 /\ k = left
               /\ k + n <= left
               /\ l = k + n
  OBVIOUS

\* The packets that are still to be made follow one another from the
\* position of the context to the limit, and the end of data comes last, if
\* the log does not grow any more.
LEMMA PacketsInOrder ==
    ASSUME NEW s \in Sensors, NEW c \in Context
    PROVE  LET P == Packets(s, c)
           IN  /\ P \in Seq(DataPackets) /\ Len(P) \in Nat
               /\ \A i \in 1 .. Len(P) :
                     /\ P[i] \in DataPackets /\ P[i].sensor = s /\ P[i].log = c.log
                     /\ P[i].count > 0 => P[i].from + P[i].count <= Limit(c)
                     /\ P[i].count = 0 => ~c.canWrite /\ P[i].from >= Limit(c)
                     /\ i = 1 => P[i].from = c.rpos
                     /\ i < Len(P) => /\ P[i].count > 0
                                      /\ P[i + 1].from = P[i].from + P[i].count
<1> DEFINE left == Max({0, Limit(c) - c.rpos})
           full == (left + PerPacket - 1) \div PerPacket
           done == IF c.canWrite THEN 0 ELSE 1
           skipped(i) == Min({left, (i - 1) * PerPacket})
           count(i) == Min({PerPacket, left - skipped(i)})
           packet(i) == Data(s, c.log, c.rpos + skipped(i), count(i))
           P == Packets(s, c)
<1>1. P = [i \in 1 .. full + done |-> packet(i)]
  BY DEF Packets
<1>2. /\ c.log \in LogIDs /\ c.rpos \in Nat /\ Limit(c) \in Nat
      /\ c.canWrite \in BOOLEAN
  BY Constants DEF Context, Limit
<1>3. /\ left \in Nat
      /\ left = IF Limit(c) >= c.rpos THEN Limit(c) - c.rpos ELSE 0
  BY <1>2, MaxOfTwo
<1> HIDE DEF left
<1>4. /\ full \in Nat /\ full * PerPacket <= left + PerPacket - 1
      /\ left + PerPacket - 1 < full * PerPacket + PerPacket
  <2>1. left + PerPacket - 1 \in Nat
    BY <1>3, Constants
  <2> QED
    BY <2>1, Constants, Quotient
<1>5. done \in {0, 1} /\ (done = 1) = (~c.canWrite)
  BY <1>2
<1> HIDE DEF full, done
<1>6. ASSUME NEW i \in 1 .. full + done
      PROVE  /\ skipped(i) \in 0 .. left /\ count(i) \in 0 .. PerPacket
             /\ i = 1 => skipped(i) = 0
             /\ i <= full => count(i) > 0
             /\ i > full => count(i) = 0 /\ skipped(i) = left
             /\ skipped(i) + count(i) <= left
             /\ i < full + done => skipped(i + 1) = skipped(i) + count(i)
  <2> DEFINE x == (i - 1) * PerPacket
             y == i * PerPacket
             F == full * PerPacket
  <2>1. /\ i \in Nat /\ i - 1 \in Nat /\ i <= full + done
        /\ i - 1 <= full
    BY <1>4, <1>5
  <2>2. /\ x \in Nat /\ y \in Nat /\ y = x + PerPacket /\ F \in Nat
        /\ i <= full => y <= F
        /\ i > full => F <= x
        /\ i = 1 => x = 0
    <3>1. /\ x \in Nat /\ (i - 1 + 1) * PerPacket = x + PerPacket
          /\ i <= full => i * PerPacket <= full * PerPacket
          /\ full <= i - 1 => full * PerPacket <= (i - 1) * PerPacket
      BY <1>4, <2>1, Constants, Products
    <3>2. y \in Nat /\ F \in Nat
      BY <1>4, <2>1, Constants, Products
    <3>3. i = 1 => x = 0
      BY Constants
    <3>4. i - 1 + 1 = i /\ (i > full => full <= i - 1)
      BY <1>4, <2>1
    <3> QED
      BY <3>1, <3>2, <3>3, <3>4
  <2>3. skipped(i + 1) = Min({left, y})
    <3>1. i + 1 - 1 = i
      BY <2>1
    <3> QED
      BY <3>1
  <2> HIDE DEF x, y, F
  <2>4. skipped(i) = IF left <= x THEN left ELSE x
    <3>1. Min({left, x}) = IF left <= x THEN left ELSE x
      BY <1>3, <2>2, MinOfTwo
    <3> QED
      BY <3>1 DEF x
  <2>5. skipped(i + 1) = IF left <= y THEN left ELSE y
    BY <1>3, <2>2, <2>3, MinOfTwo
  <2>6. skipped(i) \in Nat
    BY <1>3, <2>2, <2>4
  <2>7. count(i) = IF PerPacket <= left - skipped(i) THEN PerPacket
                   ELSE left - skipped(i)
    <3> DEFINE k == skipped(i)
    <3>1. k \in Nat
      BY <2>6
    <3> HIDE DEF k
    <3>2. Min({PerPacket, left - k}) = IF PerPacket <= left - k THEN PerPacket
                                       ELSE left - k
      BY <1>3, <3>1, Constants, MinOfTwo
    <3> QED
      BY <3>2 DEF k
  <2>8. F <= left + PerPacket - 1 /\ left + PerPacket - 1 < F + PerPacket
    BY <1>4 DEF F
  <2> DEFINE k == IF left <= x THEN left ELSE x
             l == IF left <= y THEN left ELSE y
             n == IF PerPacket <= left - k THEN PerPacket ELSE left - k
  <2>9. /\ k \in 0 .. left /\ n \in 0 .. PerPacket
        /\ x = 0 => k = 0
        /\ i <= full => n > 0
        /\ i > full => n = 0 /\ k = left
        /\ k + n <= left
        /\ l = k + n
    <3>1. /\ left \in Nat /\ PerPacket \in Nat /\ PerPacket > 0
          /\ full \in Nat /\ i \in Nat
      BY <1>3, <1>4, <2>1, Constants
    <3> QED
      BY <2>2, <2>8, <3>1, Slice
  <2> HIDE DEF count, skipped
  <2>10. skipped(i) = k /\ skipped(i + 1) = l /\ count(i) = n
    BY <2>4, <2>5, <2>7
  <2> HIDE DEF k, l, n
  <2> QED
    BY <2>2, <2>9, <2>10
<1>7. ASSUME NEW i \in 1 .. full + done
      PROVE  /\ packet(i) \in DataPackets /\ packet(i).sensor = s
             /\ packet(i).log = c.log
             /\ packet(i).from = c.rpos + skipped(i)
             /\ packet(i).count = count(i)
  <2> HIDE DEF skipped, count
  <2>1. skipped(i) \in Nat /\ count(i) \in 0 .. PerPacket
    BY <1>3, <1>6
  <2> QED
    BY <1>2, <2>1 DEF Data, DataPackets
<1>8. /\ full + done \in Nat /\ Len(P) = full + done
      /\ P \in Seq(DataPackets)
      /\ \A i \in 1 .. full + done : P[i] = packet(i)
  <2>1. full + done \in Nat
    BY <1>4, <1>5
  <2>2. P \in [1 .. full + done -> DataPackets]
    BY <1>1, <1>7
  <2>3. P \in Seq(DataPackets)
    BY <2>1, <2>2, SeqDef
  <2>4. Len(P) = full + done
    BY <2>1, <2>2, <2>3, LenProperties
  <2> QED
    BY <1>1, <2>1, <2>3, <2>4
<1> HIDE DEF P, packet, skipped, count
<1>9. ASSUME NEW i \in 1 .. Len(P)
      PROVE  /\ P[i] \in DataPackets /\ P[i].sensor = s /\ P[i].log = c.log
             /\ P[i].count > 0 => P[i].from + P[i].count <= Limit(c)
             /\ P[i].count = 0 => ~c.canWrite /\ P[i].from >= Limit(c)
             /\ i = 1 => P[i].from = c.rpos
             /\ i < Len(P) => /\ P[i].count > 0
                              /\ P[i + 1].from = P[i].from + P[i].count
  <2>1. /\ i \in 1 .. full + done /\ P[i] = packet(i)
        /\ i < Len(P) => i + 1 \in 1 .. full + done /\ P[i + 1] = packet(i + 1)
    BY <1>8
  <2>2. /\ P[i] \in DataPackets /\ P[i].sensor = s /\ P[i].log = c.log
        /\ P[i].from = c.rpos + skipped(i) /\ P[i].count = count(i)
        /\ i < Len(P) => P[i + 1].from = c.rpos + skipped(i + 1)
    BY <1>7, <2>1
  <2>3. /\ skipped(i) \in 0 .. left /\ count(i) \in 0 .. PerPacket
        /\ i = 1 => skipped(i) = 0
        /\ i <= full => count(i) > 0
        /\ i > full => count(i) = 0 /\ skipped(i) = left
        /\ skipped(i) + count(i) <= left
        /\ i < full + done => skipped(i + 1) = skipped(i) + count(i)
    BY <1>6, <2>1
  <2>4. i > full => ~c.canWrite
    BY <1>4, <1>5, <1>8, <2>1
  <2>5. P[i].count > 0 => P[i].from + P[i].count <= Limit(c)
    BY <1>2, <1>3, <2>2, <2>3
  <2>6. P[i].count = 0 => P[i].from >= Limit(c)
    BY <1>2, <1>3, <1>4, <2>2, <2>3
  <2>7. P[i].count = 0 => i > full
    BY <1>4, <2>2, <2>3
  <2>8. i = 1 => P[i].from = c.rpos
    BY <1>2, <2>2, <2>3
  <2>9. i < Len(P) => i <= full /\ i < full + done
    BY <1>4, <1>5, <1>8
  <2>10. i < Len(P) => /\ P[i].count > 0
                       /\ P[i + 1].from = P[i].from + P[i].count
    BY <1>2, <1>3, <2>2, <2>3, <2>9
  <2> QED
    BY <2>2, <2>4, <2>5, <2>6, <2>7, <2>8, <2>10
<1> QED
  BY <1>8, <1>9 DEF P

-----------------------------------------------------------------------------
(* What notifying logs does to the device.                                 *)

Pointers == {"null", "writing", "reading"}
Devs == [w : [Sensors -> Context], r : [Sensors -> Context],
         p : [Sensors -> Pointers], on : [Sensors -> BOOLEAN],
         q : Seq(PacketSet)]

DevOK(d) == d \in Devs /\ Free(d.q) \in 0 .. TxSlots

\* The context a sensor reads from, and what n of its packets make of it.
Read(d, s)    == IF d.p[s] = "writing" THEN d.w[s] ELSE d.r[s]
Batch(d, s, n) == SubSeq(Packets(s, Read(d, s)), 1, n)
Moved(d, s, n) == After(Read(d, s), Packets(s, Read(d, s)), n)
Sent(d, s, n) ==
    [w  |-> IF d.p[s] = "writing" THEN [d.w EXCEPT ![s] = Moved(d, s, n)] ELSE d.w,
     r  |-> IF d.p[s] = "writing" THEN d.r ELSE [d.r EXCEPT ![s] = Moved(d, s, n)],
     p  |-> d.p, on |-> d.on, q |-> d.q \o Batch(d, s, n)]

Sending(d, s, n) ==
    /\ d.on[s] /\ d.p[s] # "null" /\ ~Read(d, s).ended /\ linked /\ cccd[s]
    /\ n \in 1 .. Len(Packets(s, Read(d, s))) /\ n <= Free(d.q)

LEMMA ReadType ==
    ASSUME NEW d \in Devs, NEW s \in Sensors
    PROVE  Read(d, s) \in Context
  BY DEF Devs, Read

LEMMA MovedFields ==
    ASSUME NEW d \in Devs, NEW s \in Sensors,
           NEW n \in 1 .. Len(Packets(s, Read(d, s)))
    PROVE  LET p == Packets(s, Read(d, s))[n]
               m == Moved(d, s, n)
           IN  /\ p \in DataPackets /\ m \in Context
               /\ m = [Read(d, s) EXCEPT !.rpos = p.from + p.count,
                                         !.ended = p.count = 0]
               /\ m.rpos = p.from + p.count /\ m.ended = (p.count = 0)
               /\ m.log = Read(d, s).log /\ m.size = Read(d, s).size
               /\ m.canWrite = Read(d, s).canWrite /\ m.wpos = Read(d, s).wpos
<1> DEFINE p == Packets(s, Read(d, s))[n]
           m == Moved(d, s, n)
           c == Read(d, s)
<1>1. c \in Context
  BY ReadType
<1>2. p \in DataPackets
  BY <1>1, PacketsInOrder
<1>3. m = [c EXCEPT !.rpos = p.from + p.count, !.ended = p.count = 0]
  BY DEF Moved, After
<1> HIDE DEF p, m, c
<1>4. p.from + p.count \in Nat /\ (p.count = 0) \in BOOLEAN
  BY <1>2, Constants DEF DataPackets
<1> QED
  BY <1>1, <1>2, <1>3, <1>4 DEF Context, p, m, c

\* The position is behind what was sent, the end noted, the rest as it was.
LEMMA MovedKeeps ==
    ASSUME NEW d \in Devs, NEW s \in Sensors,
           NEW n \in 1 .. Len(Packets(s, Read(d, s)))
    PROVE  /\ Moved(d, s, n).log = Read(d, s).log
           /\ Moved(d, s, n).size = Read(d, s).size
           /\ Moved(d, s, n).canWrite = Read(d, s).canWrite
           /\ Moved(d, s, n).wpos = Read(d, s).wpos
           /\ Moved(d, s, n).ended = (Packets(s, Read(d, s))[n].count = 0)
           /\ Moved(d, s, n).rpos = Packets(s, Read(d, s))[n].from
                                    + Packets(s, Read(d, s))[n].count
<1> DEFINE p == Packets(s, Read(d, s))[n]
           m == Moved(d, s, n)
           c == Read(d, s)
<1>1. c \in Context
  BY ReadType
<1>2. m = [c EXCEPT !.rpos = p.from + p.count, !.ended = p.count = 0]
  BY DEF Moved, After
<1> HIDE DEF p, m, c
<1>3. /\ m.log = c.log /\ m.size = c.size /\ m.canWrite = c.canWrite
      /\ m.wpos = c.wpos /\ m.ended = (p.count = 0)
      /\ m.rpos = p.from + p.count
  BY <1>1, <1>2 DEF Context
<1> QED
  BY <1>3 DEF p, m, c

LEMMA NotifyCases ==
    ASSUME NEW d \in Devs, Free(d.q) \in 0 .. TxSlots
    PROVE  \/ NotifyLogData(d) = d
           \/ \E s \in Sensors, n \in Nat :
                 Sending(d, s, n) /\ NotifyLogData(d) = Sent(d, s, n)
<1> DEFINE context(s) == IF d.p[s] = "writing" THEN d.w[s] ELSE d.r[s]
           packets(s) == IF d.on[s] /\ d.p[s] # "null" /\ ~context(s).ended
                            /\ linked /\ cccd[s]
                         THEN Packets(s, context(s)) ELSE <<>>
           taken(s)   == Min({Free(d.q), Len(packets(s))})
           able       == {s \in Sensors : taken(s) > 0}
           first      == Min(able)
           sent       == [d EXCEPT !.q = @ \o SubSeq(packets(first), 1, taken(first))]
           after      == After(context(first), packets(first), taken(first))
<1>1. NotifyLogData(d) =
         IF able = {} THEN d
         ELSE IF d.p[first] = "writing" THEN [sent EXCEPT !.w[first] = after]
         ELSE [sent EXCEPT !.r[first] = after]
  BY DEF NotifyLogData
<1>2. CASE able = {}
  BY <1>1, <1>2
<1>3. CASE able # {}
  <2>1. first \in able
    <3>1. able \in SUBSET Nat
      BY Constants DEF Sensors
    <3> HIDE DEF able
    <3> QED
      BY <1>3, <3>1, LeastOf
  <2> DEFINE s == first
             n == taken(s)
  <2>2. s \in Sensors /\ n > 0
    BY <2>1
  <2> HIDE DEF first, able
  <2>3. context(s) = Read(d, s)
    BY DEF Read
  <2>4. Len(packets(s)) \in Nat
    <3>1. Len(Packets(s, Read(d, s))) \in Nat
      BY <2>2, ReadType, PacketsInOrder
    <3>2. Len(<<>>) = 0
      BY EmptySeq
    <3> QED
      BY <2>3, <3>1, <3>2
  <2>5. n = IF Free(d.q) <= Len(packets(s)) THEN Free(d.q) ELSE Len(packets(s))
    <3>1. Free(d.q) \in Int /\ Len(packets(s)) \in Int
      BY <2>4, Constants
    <3> HIDE DEF packets
    <3> QED
      BY <3>1, MinOfTwo
  <2>6. n \in Nat /\ n <= Free(d.q) /\ n <= Len(packets(s))
    <3>1. Free(d.q) \in Nat
      BY Constants
    <3> HIDE DEF packets, n
    <3> QED
      BY <2>4, <2>5, <3>1
  <2>7. d.on[s] /\ d.p[s] # "null" /\ ~context(s).ended /\ linked /\ cccd[s]
    <3>1. Len(<<>>) = 0
      BY EmptySeq
    <3>2. Len(packets(s)) > 0
      <4> HIDE DEF packets, n
      <4> QED
        BY <2>2, <2>4, <2>6
    <3> QED
      BY <3>1, <3>2
  <2>8. packets(s) = Packets(s, Read(d, s))
    BY <2>3, <2>7
  <2> HIDE DEF context, packets, taken
  <2>9. Sending(d, s, n)
    <3>1. n \in 1 .. Len(packets(s))
      BY <2>2, <2>4, <2>6
    <3> QED
      BY <2>3, <2>6, <2>7, <2>8, <3>1 DEF Sending
  <2>10. after = Moved(d, s, n) /\ sent = [d EXCEPT !.q = d.q \o Batch(d, s, n)]
    BY <2>3, <2>8 DEF Moved, Batch
  <2>11. NotifyLogData(d) = IF d.p[s] = "writing"
                            THEN [sent EXCEPT !.w[s] = Moved(d, s, n)]
                            ELSE [sent EXCEPT !.r[s] = Moved(d, s, n)]
    BY <1>1, <1>3, <2>10
  <2> HIDE DEF sent, after, n, s
  <2>12. NotifyLogData(d) = Sent(d, s, n)
    <3>1. sent = [w |-> d.w, r |-> d.r, p |-> d.p, on |-> d.on,
                  q |-> d.q \o Batch(d, s, n)]
      BY <2>10 DEF Devs
    <3>2. CASE d.p[s] = "writing"
      <4>1. NotifyLogData(d) = [sent EXCEPT !.w[s] = Moved(d, s, n)]
        BY <2>11, <3>2
      <4> QED
        BY <3>1, <3>2, <4>1 DEF Sent
    <3>3. CASE d.p[s] # "writing"
      <4>1. NotifyLogData(d) = [sent EXCEPT !.r[s] = Moved(d, s, n)]
        BY <2>11, <3>3
      <4> QED
        BY <3>1, <3>3, <4>1 DEF Sent
    <3> QED
      BY <3>2, <3>3
  <2> QED
    BY <2>2, <2>6, <2>9, <2>12 DEF s, n
<1> QED
  BY <1>2, <1>3

LEMMA BatchType ==
    ASSUME NEW d \in Devs, NEW s \in Sensors, NEW n \in Nat, Sending(d, s, n)
    PROVE  /\ Batch(d, s, n) \in Seq(DataPackets) /\ Len(Batch(d, s, n)) = n
           /\ Batch(d, s, n) \in Seq(PacketSet \ {Reply})
           /\ \A i \in 1 .. n : Batch(d, s, n)[i] = Packets(s, Read(d, s))[i]
<1> DEFINE P == Packets(s, Read(d, s))
<1>1. P \in Seq(DataPackets) /\ Len(P) \in Nat /\ n \in 1 .. Len(P)
  BY ReadType, PacketsInOrder DEF Sending
<1> HIDE DEF P
<1>2. \A i \in 1 .. n : P[i] \in DataPackets
  BY <1>1, ElementOfSeq
<1>3. /\ SubSeq(P, 1, n) \in Seq(DataPackets) /\ Len(SubSeq(P, 1, n)) = n
      /\ \A i \in 1 .. n : SubSeq(P, 1, n)[i] = P[i]
  <2>1. /\ SubSeq(P, 1, n) \in Seq(DataPackets)
        /\ Len(SubSeq(P, 1, n)) = IF 1 <= n THEN n - 1 + 1 ELSE 0
        /\ \A i \in 1 .. n - 1 + 1 : SubSeq(P, 1, n)[i] = P[1 + i - 1]
    BY <1>1, <1>2, SubSeqProperties
  <2>2. n - 1 + 1 = n /\ 1 <= n /\ \A i \in 1 .. n : 1 + i - 1 = i
    BY <1>1
  <2> QED
    BY <2>1, <2>2
<1>4. DataPackets \subseteq PacketSet \ {Reply}
  BY PacketKinds DEF PacketSet
<1> QED
  BY <1>3, <1>4, SeqMonotonic DEF Batch, P

LEMMA SentType ==
    ASSUME NEW d, DevOK(d), NEW s \in Sensors, NEW n \in Nat, Sending(d, s, n)
    PROVE  DevOK(Sent(d, s, n)) /\ Replies(Sent(d, s, n).q) = Replies(d.q)
<1>1. d \in Devs /\ d.q \in Seq(PacketSet) /\ Free(d.q) \in 0 .. TxSlots
  BY DEF DevOK, Devs
<1>2. /\ Batch(d, s, n) \in Seq(PacketSet \ {Reply}) /\ Len(Batch(d, s, n)) = n
  BY <1>1, BatchType
<1>3. /\ d.q \o Batch(d, s, n) \in Seq(PacketSet)
      /\ Free(d.q \o Batch(d, s, n)) = Free(d.q) - n
      /\ Replies(d.q \o Batch(d, s, n)) = Replies(d.q)
  BY <1>1, <1>2, FreeAfterNotifications
<1>4. Moved(d, s, n) \in Context
  BY <1>1, MovedFields DEF Sending
<1>5. Free(d.q \o Batch(d, s, n)) \in 0 .. TxSlots
  BY <1>1, <1>3, Constants DEF Sending
<1>6. Sent(d, s, n).q = d.q \o Batch(d, s, n)
  BY DEF Sent
<1>7. Sent(d, s, n) \in Devs
  BY <1>1, <1>3, <1>4 DEF Sent, Devs
<1> QED
  BY <1>3, <1>5, <1>6, <1>7 DEF DevOK

\* Everything but positions, and what is buffered, stays as it is.
LEMMA NotifyType ==
    ASSUME NEW d, DevOK(d)
    PROVE  LET e == NotifyLogData(d)
           IN  /\ DevOK(e) /\ Replies(e.q) = Replies(d.q)
               /\ e.p = d.p /\ e.on = d.on
               /\ \A s \in Sensors :
                     /\ e.w[s].log = d.w[s].log /\ e.w[s].size = d.w[s].size
                     /\ e.w[s].canWrite = d.w[s].canWrite
                     /\ e.w[s].wpos = d.w[s].wpos
                     /\ e.r[s].log = d.r[s].log /\ e.r[s].size = d.r[s].size
                     /\ e.r[s].canWrite = d.r[s].canWrite
                     /\ e.r[s].wpos = d.r[s].wpos
<1>1. d \in Devs /\ Free(d.q) \in 0 .. TxSlots
  BY DEF DevOK
<1>2. CASE NotifyLogData(d) = d
  BY <1>2
<1>3. ASSUME NEW t \in Sensors, NEW n \in Nat, Sending(d, t, n),
             NotifyLogData(d) = Sent(d, t, n)
      PROVE  LET e == NotifyLogData(d)
             IN  /\ DevOK(e) /\ Replies(e.q) = Replies(d.q)
                 /\ e.p = d.p /\ e.on = d.on
                 /\ \A s \in Sensors :
                       /\ e.w[s].log = d.w[s].log /\ e.w[s].size = d.w[s].size
                       /\ e.w[s].canWrite = d.w[s].canWrite
                       /\ e.w[s].wpos = d.w[s].wpos
                       /\ e.r[s].log = d.r[s].log /\ e.r[s].size = d.r[s].size
                       /\ e.r[s].canWrite = d.r[s].canWrite
                       /\ e.r[s].wpos = d.r[s].wpos
  <2>1. /\ DevOK(Sent(d, t, n)) /\ Replies(Sent(d, t, n).q) = Replies(d.q)
    BY <1>3, SentType
  <2> DEFINE m == Moved(d, t, n)
  <2>2. /\ m.log = Read(d, t).log /\ m.size = Read(d, t).size
        /\ m.canWrite = Read(d, t).canWrite /\ m.wpos = Read(d, t).wpos
    BY <1>1, <1>3, MovedFields DEF Sending
  <2>3. /\ d.w \in [Sensors -> Context] /\ d.r \in [Sensors -> Context]
    BY <1>1 DEF Devs
  <2> HIDE DEF m
  <2>4. ASSUME NEW s \in Sensors
        PROVE  LET e == Sent(d, t, n)
               IN  /\ e.w[s] = IF d.p[t] = "writing" /\ s = t THEN m ELSE d.w[s]
                   /\ e.r[s] = IF d.p[t] # "writing" /\ s = t THEN m ELSE d.r[s]
    BY <2>3 DEF Sent, m
  <2>5. Sent(d, t, n).p = d.p /\ Sent(d, t, n).on = d.on
    BY DEF Sent
  <2> QED
    BY <1>3, <2>1, <2>2, <2>4, <2>5 DEF Read
<1> QED
  BY <1>1, <1>2, <1>3, NotifyCases

-----------------------------------------------------------------------------
(* What the commands and requests do to the device.                        *)

LEMMA BecomeReaders ==
    ASSUME NEW d \in Devs, Become(d)
    PROVE  Readers' = d
  BY DEF Devs, Become, Readers

LEMMA StatusFields ==
    ASSUME NEW d, DevOK(d), NEW n \in Nat
    PROVE  LET e == Status(d, n)
           IN  /\ DevOK(e) /\ Replies(e.q) = Replies(d.q)
               /\ e.w = d.w /\ e.r = d.r /\ e.p = d.p /\ e.on = d.on
               /\ e = [d EXCEPT !.q = e.q]
               /\ ~linked => e.q = d.q
               /\ \E m \in Seq({Other}) : linked => e.q = d.q \o m
<1> DEFINE k == Min({n, Free(d.q)})
           m == [i \in 1 .. k |-> Other]
           e == Status(d, n)
<1>1. d \in Devs /\ d.q \in Seq(PacketSet) /\ Free(d.q) \in 0 .. TxSlots
  BY DEF DevOK, Devs
<1>2. k \in Nat /\ k <= Free(d.q)
  <2>1. Free(d.q) \in Nat
    BY <1>1, Constants
  <2>2. k = IF n <= Free(d.q) THEN n ELSE Free(d.q)
    BY <2>1, MinOfTwo
  <2> HIDE DEF k
  <2> QED
    BY <2>1, <2>2
<1> HIDE DEF k
<1>3. m \in Seq({Other}) /\ Len(m) = k
  <2>1. m \in [1 .. k -> {Other}]
    OBVIOUS
  <2>2. m \in Seq({Other})
    BY <1>2, <2>1, SeqDef
  <2> QED
    BY <1>2, <2>2, LenProperties
<1>4. m \in Seq(PacketSet \ {Reply})
  <2>1. {Other} \subseteq PacketSet \ {Reply}
    BY PacketKinds DEF PacketSet
  <2> HIDE DEF m
  <2> QED
    BY <1>3, <2>1, SeqMonotonic
<1>5. e = IF linked THEN [d EXCEPT !.q = d.q \o m] ELSE d
  BY DEF Status, k
<1> HIDE DEF m, e
<1>6. /\ d.q \o m \in Seq(PacketSet)
      /\ Free(d.q \o m) = Free(d.q) - k
      /\ Replies(d.q \o m) = Replies(d.q)
  BY <1>1, <1>3, <1>4, FreeAfterNotifications
<1>7. Free(d.q \o m) \in 0 .. TxSlots
  BY <1>1, <1>2, <1>6, Constants
<1>8. CASE linked
  <2>1. e = [d EXCEPT !.q = d.q \o m]
    BY <1>5, <1>8
  <2>2. /\ e.w = d.w /\ e.r = d.r /\ e.p = d.p /\ e.on = d.on
        /\ e.q = d.q \o m /\ e \in Devs
    BY <1>1, <1>6, <2>1 DEF Devs
  <2> QED
    BY <1>3, <1>6, <1>7, <1>8, <2>1, <2>2 DEF DevOK, e
<1>9. CASE ~linked
  <2>1. e = d
    BY <1>5, <1>9
  <2>2. d = [d EXCEPT !.q = d.q]
    BY <1>1 DEF Devs
  <2> QED
    BY <1>1, <1>3, <1>9, <2>1, <2>2 DEF DevOK, e
<1> QED
  BY <1>8, <1>9

LEMMA ReplyFields ==
    ASSUME NEW d, DevOK(d)
    PROVE  LET e == [d EXCEPT !.q = Append(@, Reply)]
           IN  /\ DevOK(e) /\ Replies(e.q) = Replies(d.q) \cup {Len(d.q) + 1}
               /\ e.w = d.w /\ e.r = d.r /\ e.p = d.p /\ e.on = d.on
               /\ e.q = Append(d.q, Reply)
<1>1. d \in Devs /\ d.q \in Seq(PacketSet)
  BY DEF DevOK, Devs
<1>2. /\ Append(d.q, Reply) \in Seq(PacketSet)
      /\ Free(Append(d.q, Reply)) = Free(d.q)
      /\ Replies(Append(d.q, Reply)) = Replies(d.q) \cup {Len(d.q) + 1}
  BY <1>1, FreeAfterReply
<1> QED
  BY <1>1, <1>2 DEF DevOK, Devs

LEMMA StopLoggingFields ==
    ASSUME NEW d, DevOK(d), \A s \in Sensors : d.w[s].wpos <= d.w[s].size
    PROVE  LET e == StopLogging(d)
           IN  /\ DevOK(e) /\ e.q = d.q /\ e.on = d.on
               /\ \A s \in Sensors :
                     /\ e.w[s] = [d.w[s] EXCEPT !.size = d.w[s].wpos]
                     /\ e.r[s] = IF d.p[s] = "writing"
                                 THEN [d.w[s] EXCEPT !.size = d.w[s].wpos,
                                                     !.canWrite = FALSE]
                                 ELSE d.r[s]
                     /\ e.p[s] = IF d.p[s] = "writing" THEN "reading" ELSE d.p[s]
<1> DEFINE e == StopLogging(d)
           shut == [s \in Sensors |-> [d.w[s] EXCEPT !.size = d.w[s].wpos]]
           copy == [s \in Sensors |-> IF d.p[s] = "writing"
                       THEN [shut[s] EXCEPT !.canWrite = FALSE] ELSE d.r[s]]
           moved == [s \in Sensors |-> IF d.p[s] = "writing"
                       THEN "reading" ELSE d.p[s]]
<1>1. d \in Devs
  BY DEF DevOK
<1>2. e = [d EXCEPT !.w = shut, !.r = copy, !.p = moved]
  BY DEF StopLogging
<1>3. \A s \in Sensors : /\ d.w[s] \in Context /\ d.w[s].wpos \in 0 .. Capacity
                         /\ d.r[s] \in Context /\ d.p[s] \in Pointers
  BY <1>1 DEF Devs, Context
<1>4. \A s \in Sensors : shut[s] \in Context
  BY <1>3 DEF Context
<1>5. shut \in [Sensors -> Context]
  BY <1>4
<1>6. copy \in [Sensors -> Context]
  <2>1. \A c \in Context : [c EXCEPT !.canWrite = FALSE] \in Context
    BY DEF Context
  <2> HIDE DEF shut
  <2> QED
    BY <1>3, <1>4, <2>1
<1>7. moved \in [Sensors -> Pointers]
  BY <1>3 DEF Pointers
<1>8. \A s \in Sensors :
         /\ shut[s] = [d.w[s] EXCEPT !.size = d.w[s].wpos]
         /\ copy[s] = IF d.p[s] = "writing"
                      THEN [d.w[s] EXCEPT !.size = d.w[s].wpos,
                                          !.canWrite = FALSE]
                      ELSE d.r[s]
         /\ moved[s] = IF d.p[s] = "writing" THEN "reading" ELSE d.p[s]
  OBVIOUS
<1> HIDE DEF shut, copy, moved, e
<1>9. /\ e \in Devs /\ e.w = shut /\ e.r = copy /\ e.p = moved
      /\ e.q = d.q /\ e.on = d.on
  BY <1>1, <1>2, <1>5, <1>6, <1>7 DEF Devs
<1> QED
  BY <1>8, <1>9 DEF DevOK, e

-----------------------------------------------------------------------------
(* The inductive invariant for the types.                                  *)

Views  == [reading : BOOLEAN, log : LogIDs, next : Nat \cup {-1},
           ended : BOOLEAN]
Events == Requests \cup {Op("txComplete", 0), Op("disconnected", 0)}

Recording == session = "log"

\* The logs below this one do not change any more.
Closed == IF Recording THEN logCount - 1 ELSE logCount

\* The logs follow one another in the area of a sensor, and what is being
\* written fits behind them.
AreasFit ==
    \A s \in Sensors, l \in LogIDs :
        l < Closed => LogStart(s, l) <= header[s][l]
WritersFit ==
    /\ \A s \in Sensors : writing[s].wpos <= writing[s].size
    /\ Recording =>
          /\ logCount > 0
          /\ \A s \in Sensors :
                /\ writing[s].log = logCount - 1
                /\ writing[s].canWrite
                /\ writing[s].size = Capacity - LogStart(s, logCount - 1)
StorageFits ==
    /\ header \in [Sensors -> [LogIDs -> 0 .. Capacity]]
    /\ logCount \in 0 .. MaxLogs /\ session \in {"none", "log", "notify"}
    /\ diskFull \in BOOLEAN
    /\ AreasFit /\ WritersFit

\* A request is on its way, or its answer is, or it is still to be sent.
Asks(q) == {i \in DOMAIN q : q[i].op = "logID"}
RequestsFit ==
    /\ linked \in BOOLEAN /\ asked \in BOOLEAN
    /\ ops \in Seq(Requests) /\ events \in Seq(Events)
    /\ ~linked => tx = <<>> /\ ops = <<>> /\ ~asked
    /\ asked => ops # <<>>
    /\ Replies(tx) # {} => asked
    /\ \A i, j \in Replies(tx) : i = j
    /\ linked => \A i \in Asks(events) :
                    /\ asked /\ events[i] = Head(ops) /\ Replies(tx) = {}
                    /\ \A j \in Asks(events) : i = j

ClientFits ==
    /\ cccd \in [Sensors -> BOOLEAN] /\ up \in BOOLEAN
    /\ view \in [Sensors -> Views]

TypeInv == StorageFits /\ DevOK(Readers) /\ RequestsFit /\ ClientFits

LEMMA TypeInvType ==
    ASSUME TypeInv
    PROVE  TypeOK
<1>1. /\ writing \in [Sensors -> Context] /\ reading \in [Sensors -> Context]
      /\ pointer \in [Sensors -> {"null", "writing", "reading"}]
      /\ notifying \in [Sensors -> BOOLEAN] /\ Free(tx) \in 0 .. TxSlots
  BY DEF TypeInv, DevOK, Devs, Readers, Pointers
<1>2. Range(events) \subseteq Events
  <2>1. events \in Seq(Events)
    BY DEF TypeInv, RequestsFit
  <2>2. \A i \in DOMAIN events : events[i] \in Events
    BY <2>1, LenProperties, ElementOfSeq
  <2> QED
    BY <2>2 DEF Range
<1> QED
  BY <1>1, <1>2 DEF TypeInv, TypeOK, StorageFits, RequestsFit, ClientFits,
                    Views, Events

LEMMA RequestFields ==
    ASSUME NEW e \in Requests
    PROVE  /\ e.op \in {"on", "off", "logID"} /\ e.sensor \in Sensors
           /\ e.op = "logID" => /\ e.log \in LogIDs /\ e.from \in Starts
                                /\ e.from \in Nat
  BY Constants DEF Requests, Op, LogID

LEMMA EventFields ==
    /\ Op("txComplete", 0).op = "txComplete"
    /\ Op("disconnected", 0).op = "disconnected"
    /\ Op("txComplete", 0) \in Events /\ Op("disconnected", 0) \in Events
    /\ Requests \subseteq Events
    /\ \A e \in Events : e.op \in {"on", "off", "logID"} => e \in Requests
  BY DEF Op, Events

LEMMA AsksAfterAppend ==
    ASSUME NEW q \in Seq(Events), NEW e \in Events
    PROVE  /\ Append(q, e) \in Seq(Events)
           /\ e.op # "logID" => Asks(Append(q, e)) = Asks(q)
           /\ e.op = "logID" => Asks(Append(q, e)) = Asks(q) \cup {Len(q) + 1}
           /\ Append(q, e)[Len(q) + 1] = e
           /\ \A i \in Asks(q) : Append(q, e)[i] = q[i]
<1> DEFINE r == Append(q, e)
<1>1. /\ r \in Seq(Events) /\ Len(r) = Len(q) + 1 /\ Len(q) \in Nat
      /\ \A i \in 1 .. Len(q) : r[i] = q[i]
      /\ r[Len(q) + 1] = e
  BY AppendProperties, LenProperties
<1>2. DOMAIN q = 1 .. Len(q) /\ DOMAIN r = 1 .. Len(q) + 1
  BY <1>1, LenProperties
<1> HIDE DEF r
<1>3. Asks(r) = Asks(q) \cup (IF e.op = "logID" THEN {Len(q) + 1} ELSE {})
  BY <1>1, <1>2 DEF Asks
<1>4. \A i \in Asks(q) : r[i] = q[i]
  BY <1>1, <1>2 DEF Asks
<1> QED
  BY <1>1, <1>3, <1>4 DEF r

LEMMA AsksAfterTail ==
    ASSUME NEW q \in Seq(Events), q # <<>>
    PROVE  /\ Tail(q) \in Seq(Events) /\ Head(q) \in Events
           /\ \A i \in Asks(Tail(q)) : i + 1 \in Asks(q) /\ Tail(q)[i] = q[i + 1]
                                        /\ i \in Nat /\ i > 0
           /\ (Head(q).op = "logID") = (1 \in Asks(q))
           /\ Head(q) = q[1]
<1> DEFINE r == Tail(q)
<1>1. /\ r \in Seq(Events) /\ Head(q) \in Events
      /\ Len(q) \in Nat /\ Len(q) # 0 /\ Len(r) = Len(q) - 1
      /\ \A i \in 1 .. Len(r) : r[i] = q[i + 1]
      /\ Head(q) = q[1]
  BY EmptySeq, LenProperties, HeadTailProperties
<1>2. DOMAIN q = 1 .. Len(q) /\ DOMAIN r = 1 .. Len(q) - 1
  BY <1>1, LenProperties
<1> HIDE DEF r
<1>3. \A i \in Asks(r) : i + 1 \in Asks(q) /\ r[i] = q[i + 1] /\ i \in Nat /\ i > 0
  BY <1>1, <1>2 DEF Asks
<1>4. (Head(q).op = "logID") = (1 \in Asks(q))
  BY <1>1, <1>2 DEF Asks
<1> QED
  BY <1>1, <1>3, <1>4 DEF r

LEMMA NoReplies == Replies(<<>>) = {} /\ Asks(<<>>) = {}
  BY DEF Replies, Asks

\* Where the writing contexts only move their reading positions, the storage
\* still fits.
LEMMA SameStorage ==
    ASSUME StorageFits, UNCHANGED storage,
           \A s \in Sensors :
              /\ writing'[s].log = writing[s].log
              /\ writing'[s].size = writing[s].size
              /\ writing'[s].canWrite = writing[s].canWrite
              /\ writing'[s].wpos = writing[s].wpos
    PROVE  StorageFits'
  BY DEF StorageFits, AreasFit, WritersFit, storage, LogStart, Closed, Recording

LEMMA SameRequests ==
    ASSUME RequestsFit, UNCHANGED <<linked, events, ops, asked>>,
           Replies(tx') = Replies(tx), ~linked => tx' = tx
    PROVE  RequestsFit'
  BY DEF RequestsFit

\* An event is taken from the queue and not answered.
LEMMA HandledRequests ==
    ASSUME RequestsFit, events # <<>>, events' = Tail(events),
           UNCHANGED <<linked, ops, asked>>,
           Replies(tx') = Replies(tx), ~linked => tx' = tx
    PROVE  RequestsFit'
<1>1. events \in Seq(Events)
  BY DEF RequestsFit
<1>2. /\ events' \in Seq(Events)
      /\ \A i \in Asks(events') : i + 1 \in Asks(events)
                                  /\ events'[i] = events[i + 1] /\ i \in Nat
  BY <1>1, AsksAfterTail
<1>3. linked' => \A i \in Asks(events') :
                    /\ asked' /\ events'[i] = Head(ops') /\ Replies(tx') = {}
                    /\ \A j \in Asks(events') : i = j
  <2> SUFFICES ASSUME linked', NEW i \in Asks(events'), NEW j \in Asks(events')
               PROVE  /\ asked' /\ events'[i] = Head(ops') /\ Replies(tx') = {}
                      /\ i = j
    OBVIOUS
  <2>1. i + 1 \in Asks(events) /\ j + 1 \in Asks(events) /\ i \in Nat /\ j \in Nat
        /\ events'[i] = events[i + 1]
    BY <1>2
  <2>3. linked
    OBVIOUS
  <2>2. /\ asked /\ events[i + 1] = Head(ops) /\ Replies(tx) = {}
        /\ i + 1 = j + 1
    BY <2>1, <2>3 DEF RequestsFit
  <2>4. i = j
    BY <2>1, <2>2
  <2> QED
    BY <2>1, <2>2, <2>4
<1> QED
  BY <1>2, <1>3 DEF RequestsFit

LEMMA ReadersFields ==
    /\ Readers.w = writing /\ Readers.r = reading /\ Readers.p = pointer
    /\ Readers.on = notifying /\ Readers.q = tx
    /\ Readers'.w = writing' /\ Readers'.r = reading' /\ Readers'.p = pointer'
    /\ Readers'.on = notifying' /\ Readers'.q = tx'
  BY DEF Readers

-----------------------------------------------------------------------------
(* Each step keeps it.                                                     *)

LEMMA LogStartType ==
    ASSUME StorageFits, NEW s \in Sensors, NEW l \in LogIDs
    PROVE  /\ LogStart(s, l) \in 0 .. Capacity
           /\ l < Closed => LogSize(s, l) \in 0 .. Capacity
<1>1. l = 0 \/ l - 1 \in LogIDs
  BY Constants DEF LogIDs
<1>2. LogStart(s, l) \in 0 .. Capacity
  BY <1>1, Constants DEF LogStart, StorageFits
<1>3. header[s][l] \in 0 .. Capacity
  BY DEF StorageFits
<1>4. l < Closed => LogStart(s, l) <= header[s][l]
  BY DEF StorageFits, AreasFit
<1> QED
  BY <1>2, <1>3, <1>4, Constants DEF LogSize

LEMMA NewContextType ==
    ASSUME StorageFits, NEW s \in Sensors
    PROVE  LET c == NewContext(s)
           IN  /\ c \in Context /\ c.log = logCount /\ c.canWrite /\ c.wpos = 0
               /\ c.size = Capacity - LogStart(s, logCount)
               /\ c.size >= 0 /\ c.rpos = 0 /\ ~c.ended
<1>1. logCount \in LogIDs
  BY DEF StorageFits, LogIDs
<1>2. LogStart(s, logCount) \in 0 .. Capacity
  BY <1>1, LogStartType
<1>3. Capacity - LogStart(s, logCount) \in 0 .. Capacity
  BY <1>2, Constants
<1>4. NewContext(s) = [log |-> logCount, size |-> Capacity - LogStart(s, logCount),
                       canWrite |-> TRUE, ended |-> FALSE, rpos |-> 0, wpos |-> 0]
  <2> DEFINE size == Capacity - LogStart(s, logCount)
  <2>1. NewContext(s) = [Blank EXCEPT !.log = logCount, !.canWrite = TRUE,
                                      !.size = size]
    BY DEF NewContext
  <2> HIDE DEF size
  <2>2. NewContext(s) = [log |-> logCount, size |-> size, canWrite |-> TRUE,
                         ended |-> FALSE, rpos |-> 0, wpos |-> 0]
    BY <2>1 DEF Blank
  <2> QED
    BY <2>2 DEF size
<1>5. 0 \in 0 .. Capacity
  BY Constants
<1> QED
  BY <1>1, <1>3, <1>4, <1>5 DEF Context

LEMMA StartTypes ==
    ASSUME TypeInv, NEW kind \in Sessions, Start(kind)
    PROVE  TypeInv'
<1>1. /\ StorageFits /\ DevOK(Readers) /\ RequestsFit /\ ClientFits
      /\ up /\ ~Working /\ ~diskFull /\ session' = kind
      /\ UNCHANGED <<header, diskFull, linked, cccd, events, client, up>>
  BY DEF TypeInv, Start
<1>2. Readers \in Devs
  BY <1>1 DEF DevOK
<1>3. kind \in {"log", "notify"} /\ session = "none"
  BY <1>1, NotifyAssumption DEF Working
<1> DEFINE d == IF kind = "log"
                THEN [Readers EXCEPT !.w = [s \in Sensors |-> NewContext(s)]]
                ELSE Readers
           n == IF kind = "log" THEN 2 ELSE 1
<1>4. Become(Status(d, n))
  BY <1>1 DEF Start
<1>5. /\ DevOK(d) /\ d.q = tx
      /\ d.w = IF kind = "log" THEN [s \in Sensors |-> NewContext(s)] ELSE writing
  <2>1. [s \in Sensors |-> NewContext(s)] \in [Sensors -> Context]
    BY <1>1, NewContextType
  <2> QED
    BY <1>1, <1>2, <2>1, ReadersFields DEF DevOK, Devs
<1>6. n \in Nat
  OBVIOUS
<1> HIDE DEF d, n
<1>7. /\ DevOK(Status(d, n)) /\ Replies(Status(d, n).q) = Replies(d.q)
      /\ Status(d, n).w = d.w
      /\ ~linked => Status(d, n).q = d.q
  BY <1>5, <1>6, StatusFields
<1>8. Readers' = Status(d, n)
  BY <1>4, <1>7, BecomeReaders DEF DevOK
<1>9. DevOK(Readers')
  BY <1>7, <1>8
<1>10. /\ writing' = d.w /\ Replies(tx') = Replies(tx)
       /\ ~linked => tx' = tx
  BY <1>5, <1>7, <1>8, ReadersFields
<1>11. RequestsFit' /\ ClientFits'
  BY <1>1, <1>10, SameRequests DEF ClientFits, client
<1>12. StorageFits'
  <2>1. CASE kind = "log"
    <3>1. logCount < MaxLogs /\ logCount' = logCount + 1
      BY <1>1, <2>1 DEF Start
    <3>2. logCount \in Nat /\ logCount' \in 0 .. MaxLogs
      BY <1>1, <3>1, Constants DEF StorageFits
    <3>8. ~Recording /\ Recording'
      BY <1>1, <1>3, <2>1 DEF Recording
    <3>9. Closed' = Closed
      BY <3>1, <3>2, <3>8 DEF Closed
    <3>3. logCount' > 0 /\ logCount' - 1 = logCount
      BY <3>1, <3>2
    <3>4. \A s \in Sensors, l \in LogIDs : LogStart(s, l)' = LogStart(s, l)
      BY <1>1 DEF LogStart
    <3>5. \A s \in Sensors :
             /\ writing'[s].wpos <= writing'[s].size
             /\ writing'[s].log = logCount /\ writing'[s].canWrite
             /\ writing'[s].size = Capacity - LogStart(s, logCount)
      <4> SUFFICES ASSUME NEW s \in Sensors
                   PROVE  /\ writing'[s].wpos <= writing'[s].size
                          /\ writing'[s].log = logCount /\ writing'[s].canWrite
                          /\ writing'[s].size = Capacity - LogStart(s, logCount)
        OBVIOUS
      <4>1. writing'[s] = NewContext(s)
        BY <1>5, <1>10, <2>1
      <4>2. LET c == NewContext(s)
            IN  /\ c.log = logCount /\ c.canWrite /\ c.wpos = 0
                /\ c.size = Capacity - LogStart(s, logCount) /\ c.size >= 0
        BY <1>1, NewContextType
      <4> QED
        BY <4>1, <4>2
    <3>6. \A s \in Sensors : LogStart(s, logCount) = LogStart(s, logCount - 1)'
      BY <1>1, <3>3 DEF LogStart
    <3>7. WritersFit'
      BY <3>3, <3>5, <3>6 DEF WritersFit
    <3> QED
      BY <1>1, <1>3, <2>1, <3>2, <3>4, <3>7, <3>9 DEF StorageFits, AreasFit
  <2>2. CASE kind # "log"
    <3>1. logCount' = logCount
      BY <2>2 DEF Start
    <3>2. writing' = writing
      BY <1>5, <1>10, <2>2
    <3>3. /\ ~Recording /\ ~Recording' /\ session' \in {"none", "log", "notify"}
      BY <1>1, <1>3, <2>2 DEF Recording
    <3> QED
      BY <1>1, <3>1, <3>2, <3>3
         DEF StorageFits, AreasFit, WritersFit, LogStart, Closed
  <2> QED
    BY <2>1, <2>2
<1> QED
  BY <1>9, <1>11, <1>12 DEF TypeInv

\* The state of the writers is that of a device that only reads on.
SameWriters(d) ==
    \A s \in Sensors : /\ d.w[s].log = writing[s].log
                       /\ d.w[s].size = writing[s].size
                       /\ d.w[s].canWrite = writing[s].canWrite
                       /\ d.w[s].wpos = writing[s].wpos

LEMMA StopAfterTypes ==
    ASSUME StorageFits, NEW d, DevOK(d), SameWriters(d), StopAfter(d),
           Working, logCount' = logCount, diskFull' \in BOOLEAN
    PROVE  /\ DevOK(Readers') /\ tx' = d.q /\ StorageFits'
<1>1. session' = "none" /\ session \in {"log", "notify"} /\ ~Recording'
  BY DEF StopAfter, StorageFits, Working, Recording
<1>2. Closed' = logCount
  BY <1>1 DEF Closed
<1>3. CASE session = "log"
  <2>1. /\ Become(StopLogging(d))
        /\ header' = [s \in Sensors |-> [header[s] EXCEPT ![logCount - 1] =
                         LogStart(s, logCount - 1) + d.w[s].wpos]]
    BY <1>3 DEF StopAfter
  <2>2. Recording
    BY <1>3 DEF Recording
  <2>3. /\ logCount > 0 /\ logCount \in 0 .. MaxLogs
        /\ \A s \in Sensors :
              /\ writing[s].wpos <= writing[s].size
              /\ writing[s].size = Capacity - LogStart(s, logCount - 1)
    BY <2>2 DEF StorageFits, WritersFit
  <2>4. logCount - 1 \in LogIDs /\ Closed = logCount - 1
    BY <2>2, <2>3, Constants DEF LogIDs, Closed
  <2>5. \A s \in Sensors : d.w[s].wpos <= d.w[s].size
    BY <2>3 DEF SameWriters
  <2>6. LET e == StopLogging(d)
        IN  /\ DevOK(e) /\ e.q = d.q
            /\ \A s \in Sensors : e.w[s] = [d.w[s] EXCEPT !.size = d.w[s].wpos]
    BY <2>5, StopLoggingFields
  <2>7. Readers' = StopLogging(d)
    BY <2>1, <2>6, BecomeReaders DEF DevOK
  <2>8. DevOK(Readers') /\ tx' = d.q /\ writing' = StopLogging(d).w
    BY <2>6, <2>7, ReadersFields
  <2>9. ASSUME NEW s \in Sensors
        PROVE  writing'[s].wpos <= writing'[s].size
    <3>1. d.w[s] \in Context
      BY DEF DevOK, Devs
    <3>2. writing'[s] = [d.w[s] EXCEPT !.size = d.w[s].wpos]
      BY <2>6, <2>8
    <3>3. d.w[s].wpos \in Int /\ d.w[s].wpos <= d.w[s].wpos
      BY <3>1, Constants DEF Context
    <3> QED
      BY <3>1, <3>2, <3>3 DEF Context
  <2>10. ASSUME NEW s \in Sensors
         PROVE  /\ LogStart(s, logCount - 1) + d.w[s].wpos \in 0 .. Capacity
                /\ d.w[s].wpos \in Nat /\ LogStart(s, logCount - 1) \in Nat
    <3>1. LogStart(s, logCount - 1) \in 0 .. Capacity
      BY <2>4, LogStartType
    <3>2. d.w[s].wpos \in 0 .. Capacity
      BY DEF DevOK, Devs, Context
    <3>3. d.w[s].wpos <= Capacity - LogStart(s, logCount - 1)
      BY <2>3 DEF SameWriters
    <3> QED
      BY <3>1, <3>2, <3>3, Constants
  <2>11. header' \in [Sensors -> [LogIDs -> 0 .. Capacity]]
    BY <2>1, <2>10 DEF StorageFits
  <2>12. ASSUME NEW s \in Sensors, NEW l \in LogIDs
         PROVE  header'[s][l] = IF l = logCount - 1
                                THEN LogStart(s, logCount - 1) + d.w[s].wpos
                                ELSE header[s][l]
    BY <2>1 DEF StorageFits
  <2>13. ASSUME NEW s \in Sensors, NEW l \in LogIDs, l < logCount
         PROVE  LogStart(s, l)' = LogStart(s, l)
    <3>1. l = 0 \/ (l - 1 \in LogIDs /\ l - 1 # logCount - 1)
      BY <2>13, <2>3, Constants DEF LogIDs
    <3> QED
      BY <2>12, <3>1 DEF LogStart
  <2>14. AreasFit'
    <3> SUFFICES ASSUME NEW s \in Sensors, NEW l \in LogIDs, l < logCount
                 PROVE  LogStart(s, l)' <= header'[s][l]
      BY <1>2 DEF AreasFit
    <3>1. CASE l = logCount - 1
      BY <2>10, <2>12, <2>13, <3>1
    <3>2. CASE l # logCount - 1
      <4>1. l < Closed
        BY <2>3, <2>4, <3>2, Constants
      <4>2. LogStart(s, l) <= header[s][l]
        BY <4>1 DEF StorageFits, AreasFit
      <4> QED
        BY <2>12, <2>13, <3>2, <4>2
    <3> QED
      BY <3>1, <3>2
  <2> QED
    BY <1>1, <2>3, <2>8, <2>9, <2>11, <2>14 DEF StorageFits, WritersFit
<1>4. CASE session # "log"
  <2>1. Become(d) /\ header' = header
    BY <1>4 DEF StopAfter
  <2>2. Readers' = d
    BY <2>1, BecomeReaders DEF DevOK
  <2>3. DevOK(Readers') /\ tx' = d.q /\ writing' = d.w
    BY <2>2, ReadersFields
  <2>4. ~Recording
    BY <1>4 DEF Recording
  <2>5. AreasFit'
    BY <1>2, <2>1, <2>4 DEF AreasFit, StorageFits, Closed, LogStart
  <2>6. WritersFit'
    BY <1>1, <2>3 DEF WritersFit, StorageFits, SameWriters
  <2> QED
    BY <1>1, <2>1, <2>3, <2>5, <2>6 DEF StorageFits
<1> QED
  BY <1>3, <1>4

LEMMA StopTypes ==
    ASSUME TypeInv, Stop
    PROVE  TypeInv'
<1>1. /\ StorageFits /\ DevOK(Readers) /\ RequestsFit /\ ClientFits
      /\ Working /\ StopAfter(Status(Readers, 1))
      /\ UNCHANGED <<logCount, diskFull, linked, cccd, events, client, up>>
  BY DEF TypeInv, Stop
<1> DEFINE d == Status(Readers, 1)
<1>2. /\ DevOK(d) /\ Replies(d.q) = Replies(tx) /\ d.w = writing
      /\ ~linked => d.q = tx
  BY <1>1, StatusFields, ReadersFields
<1>3. StopAfter(d)
  BY <1>1
<1> HIDE DEF d
<1>4. DevOK(Readers') /\ tx' = d.q /\ StorageFits'
  <2>1. diskFull' \in BOOLEAN /\ logCount' = logCount
    BY <1>1 DEF StorageFits
  <2>2. SameWriters(d)
    BY <1>2 DEF SameWriters
  <2> QED
    BY <1>1, <1>2, <1>3, <2>1, <2>2, StopAfterTypes
<1>5. RequestsFit' /\ ClientFits'
  BY <1>1, <1>2, <1>4, SameRequests DEF ClientFits, client
<1> QED
  BY <1>4, <1>5 DEF TypeInv

LEMMA FormatTypes ==
    ASSUME TypeInv, Format
    PROVE  TypeInv'
<1>1. /\ StorageFits /\ DevOK(Readers) /\ RequestsFit /\ ClientFits
      /\ header' = [s \in Sensors |-> [l \in LogIDs |-> 0]]
      /\ logCount' = 0 /\ session' = "none" /\ diskFull' = FALSE
      /\ Become(Status([Readers EXCEPT !.p = [s \in Sensors |-> "null"]], 4))
      /\ view' = [s \in Sensors |-> Idle]
      /\ UNCHANGED <<linked, cccd, events, ops, asked, up>>
  BY DEF TypeInv, Format
<1> DEFINE d == [Readers EXCEPT !.p = [s \in Sensors |-> "null"]]
           e == Status(d, 4)
<1>2. DevOK(d) /\ d.q = tx /\ d.w = writing
  BY <1>1, ReadersFields DEF DevOK, Devs, Pointers
<1>3. Become(e)
  BY <1>1
<1> HIDE DEF d
<1>4. /\ DevOK(e) /\ Replies(e.q) = Replies(tx) /\ e.w = writing
      /\ ~linked => e.q = tx
  BY <1>2, StatusFields
<1> HIDE DEF e
<1>5. Readers' = e
  BY <1>3, <1>4, BecomeReaders DEF DevOK
<1>6. /\ DevOK(Readers') /\ writing' = writing /\ tx' = e.q
  BY <1>4, <1>5, ReadersFields
<1>7. StorageFits'
  <2>1. ~Recording' /\ Closed' = 0
    BY <1>1 DEF Recording, Closed
  <2>2. AreasFit'
    <3>1. \A l \in LogIDs : ~(l < 0)
      BY Constants
    <3> QED
      BY <2>1, <3>1 DEF AreasFit
  <2>3. WritersFit'
    <3>1. \A s \in Sensors : writing[s].wpos <= writing[s].size
      BY <1>1 DEF WritersFit, StorageFits
    <3> QED
      BY <1>6, <2>1, <3>1 DEF WritersFit
  <2>4. 0 \in 0 .. Capacity /\ 0 \in 0 .. MaxLogs
    BY Constants
  <2>5. header' \in [Sensors -> [LogIDs -> 0 .. Capacity]]
    BY <1>1, <2>4
  <2> QED
    BY <1>1, <2>2, <2>3, <2>4, <2>5 DEF StorageFits
<1>8. RequestsFit'
  BY <1>1, <1>4, <1>6, SameRequests
<1>9. ClientFits'
  BY <1>1, Constants DEF ClientFits, Idle, Views
<1> QED
  BY <1>6, <1>7, <1>8, <1>9 DEF TypeInv

\* A device on which the logs are notified.
LEMMA NotifyUnlinked ==
    ASSUME NEW d, DevOK(d), ~linked
    PROVE  NotifyLogData(d) = d
  BY NotifyCases DEF DevOK, Sending

LEMMA BecomeNotified ==
    ASSUME NEW d, DevOK(d), Become(NotifyLogData(d))
    PROVE  /\ DevOK(Readers') /\ Replies(tx') = Replies(d.q)
           /\ ~linked => tx' = d.q
           /\ pointer' = d.p /\ notifying' = d.on
           /\ \A s \in Sensors :
                 /\ writing'[s].log = d.w[s].log
                 /\ writing'[s].size = d.w[s].size
                 /\ writing'[s].canWrite = d.w[s].canWrite
                 /\ writing'[s].wpos = d.w[s].wpos
<1> DEFINE e == NotifyLogData(d)
<1>1. Become(e)
  OBVIOUS
<1>2. /\ DevOK(e) /\ Replies(e.q) = Replies(d.q)
      /\ e.p = d.p /\ e.on = d.on
      /\ \A s \in Sensors :
            /\ e.w[s].log = d.w[s].log /\ e.w[s].size = d.w[s].size
            /\ e.w[s].canWrite = d.w[s].canWrite
            /\ e.w[s].wpos = d.w[s].wpos
  BY NotifyType
<1>3. ~linked => e.q = d.q
  BY NotifyUnlinked
<1> HIDE DEF e
<1>4. Readers' = e
  BY <1>1, <1>2, BecomeReaders DEF DevOK
<1> QED
  BY <1>2, <1>3, <1>4, ReadersFields

LEMMA WriteTypes ==
    ASSUME TypeInv, NEW s \in Sensors, Write(s)
    PROVE  TypeInv'
<1>1. /\ StorageFits /\ DevOK(Readers) /\ RequestsFit /\ ClientFits
      /\ up /\ session = "log"
      /\ UNCHANGED <<logCount, linked, cccd, events, client, up>>
  BY DEF TypeInv, Write
<1>2. Recording /\ Working
  BY <1>1 DEF Recording, Working
<1>3. writing \in [Sensors -> Context] /\ Readers \in Devs
  BY <1>1, ReadersFields DEF DevOK, Devs
<1>4. CASE RoomFor(writing[s])
  <2> DEFINE c == [writing[s] EXCEPT !.wpos = @ + 1]
             d == [Readers EXCEPT !.w[s].wpos = @ + 1]
  <2>1. /\ Become(NotifyLogData(d))
        /\ UNCHANGED <<header, session, diskFull>>
    BY <1>4 DEF Write
  <2>2. /\ writing[s] \in Context /\ writing[s].wpos < writing[s].size
        /\ writing[s].size \in 0 .. Capacity /\ writing[s].wpos \in 0 .. Capacity
    BY <1>3, <1>4 DEF RoomFor, Context
  <2>3. writing[s].wpos + 1 \in 0 .. Capacity /\ writing[s].wpos + 1 <= writing[s].size
    BY <2>2, Constants
  <2>4. /\ c \in Context /\ c.log = writing[s].log /\ c.size = writing[s].size
        /\ c.canWrite = writing[s].canWrite /\ c.wpos = writing[s].wpos + 1
    BY <2>2, <2>3 DEF Context
  <2>5. d = [Readers EXCEPT !.w = [writing EXCEPT ![s] = c]]
    BY <1>3, ReadersFields DEF Devs
  <2> HIDE DEF c, d
  <2>6. [writing EXCEPT ![s] = c] \in [Sensors -> Context]
    BY <1>3, <2>4
  <2>7. /\ DevOK(d) /\ d.q = tx
        /\ d.w = [writing EXCEPT ![s] = c]
    BY <1>1, <1>3, <2>5, <2>6, ReadersFields DEF DevOK, Devs
  <2>8. /\ DevOK(Readers') /\ Replies(tx') = Replies(tx)
        /\ ~linked => tx' = tx
        /\ \A t \in Sensors :
              /\ writing'[t].log = d.w[t].log
              /\ writing'[t].size = d.w[t].size
              /\ writing'[t].canWrite = d.w[t].canWrite
              /\ writing'[t].wpos = d.w[t].wpos
    BY <2>1, <2>7, BecomeNotified
  <2>9. \A t \in Sensors :
           /\ writing'[t].log = writing[t].log
           /\ writing'[t].size = writing[t].size
           /\ writing'[t].canWrite = writing[t].canWrite
           /\ writing'[t].wpos = IF t = s THEN writing[s].wpos + 1
                                 ELSE writing[t].wpos
    BY <1>3, <2>4, <2>7, <2>8
  <2>10. WritersFit'
    <3>1. \A t \in Sensors : writing[t].wpos <= writing[t].size
      BY <1>1 DEF StorageFits, WritersFit
    <3>2. \A t \in Sensors : writing'[t].wpos <= writing'[t].size
      BY <2>3, <2>9, <3>1
    <3>3. /\ logCount > 0 /\ logCount' = logCount
          /\ \A t \in Sensors :
                /\ writing[t].log = logCount - 1
                /\ writing[t].canWrite
                /\ writing[t].size = Capacity - LogStart(t, logCount - 1)
      BY <1>1, <1>2 DEF StorageFits, WritersFit
    <3>4. \A t \in Sensors : LogStart(t, logCount - 1)' = LogStart(t, logCount - 1)
      BY <1>1, <2>1 DEF LogStart
    <3> QED
      BY <2>9, <3>2, <3>3, <3>4 DEF WritersFit
  <2>11. StorageFits'
    <3>1. AreasFit'
      BY <1>1, <2>1 DEF AreasFit, StorageFits, LogStart, Closed, Recording
    <3> QED
      BY <1>1, <2>1, <2>10, <3>1 DEF StorageFits
  <2>12. RequestsFit' /\ ClientFits'
    BY <1>1, <2>8, SameRequests DEF ClientFits, client
  <2> QED
    BY <2>8, <2>11, <2>12 DEF TypeInv
<1>5. CASE ~RoomFor(writing[s])
  <2> DEFINE d == NotifyLogData(Readers)
             e == Status(d, 2)
  <2>1. StopAfter(e) /\ diskFull' = TRUE
    BY <1>5 DEF Write
  <2>2. /\ DevOK(d) /\ Replies(d.q) = Replies(tx)
        /\ \A t \in Sensors :
              /\ d.w[t].log = writing[t].log /\ d.w[t].size = writing[t].size
              /\ d.w[t].canWrite = writing[t].canWrite
              /\ d.w[t].wpos = writing[t].wpos
    BY <1>1, NotifyType, ReadersFields
  <2>3. ~linked => d.q = tx
    BY <1>1, NotifyUnlinked, ReadersFields
  <2> HIDE DEF d
  <2>4. /\ DevOK(e) /\ Replies(e.q) = Replies(d.q) /\ e.w = d.w
        /\ ~linked => e.q = d.q
    BY <2>2, StatusFields
  <2> HIDE DEF e
  <2>5. SameWriters(e)
    BY <2>2, <2>4 DEF SameWriters
  <2>6. logCount' = logCount /\ diskFull' \in BOOLEAN
    BY <1>1, <2>1
  <2>7. DevOK(Readers') /\ tx' = e.q /\ StorageFits'
    BY <1>1, <1>2, <2>1, <2>4, <2>5, <2>6, StopAfterTypes
  <2>8. RequestsFit' /\ ClientFits'
    BY <1>1, <2>2, <2>3, <2>4, <2>7, SameRequests DEF ClientFits, client
  <2> QED
    BY <2>7, <2>8 DEF TypeInv
<1> QED
  BY <1>4, <1>5

LEMMA OnWriteTypes ==
    ASSUME TypeInv, OnWrite
    PROVE  TypeInv'
<1> DEFINE e == Head(events)
           d == [Readers EXCEPT !.on[e.sensor] = (e.op = "on")]
<1>1. /\ StorageFits /\ DevOK(Readers) /\ RequestsFit /\ ClientFits
      /\ events # <<>> /\ e.op \in {"on", "off"} /\ events' = Tail(events)
  BY DEF TypeInv, OnWrite, Handle
<1>2. events \in Seq(Events) /\ e \in Events
  BY <1>1, AsksAfterTail DEF RequestsFit
<1>3. e \in Requests /\ e.sensor \in Sensors
  BY <1>1, <1>2, EventFields, RequestFields
<1>4. CASE ~linked
  <2>1. Fail
    BY <1>4 DEF OnWrite
  <2>2. /\ up' = FALSE
        /\ UNCHANGED <<storage, readers, linked, cccd, tx, client>>
    BY <2>1 DEF Fail
  <2>3. Readers' = Readers /\ writing' = writing
    BY <2>2 DEF Readers, readers
  <2>4. StorageFits'
    BY <1>1, <2>2, <2>3, SameStorage
  <2>5. RequestsFit'
    BY <1>1, <2>2, HandledRequests DEF client
  <2>6. DevOK(Readers')
    BY <1>1, <2>3
  <2>7. ClientFits'
    BY <1>1, <2>2 DEF ClientFits, client
  <2> QED
    BY <2>4, <2>5, <2>6, <2>7 DEF TypeInv
<1>5. CASE linked
  <2>1. /\ Become(NotifyLogData(d))
        /\ UNCHANGED <<storage, linked, cccd, client, up>>
    BY <1>5 DEF OnWrite
  <2>2. DevOK(d) /\ d.q = tx /\ d.w = writing
    <3>1. [notifying EXCEPT ![e.sensor] = (e.op = "on")] \in [Sensors -> BOOLEAN]
      <4>1. notifying \in [Sensors -> BOOLEAN] /\ (e.op = "on") \in BOOLEAN
        BY <1>1, ReadersFields DEF DevOK, Devs
      <4> HIDE DEF e
      <4> QED
        BY <4>1
    <3>2. d = [Readers EXCEPT !.on = [notifying EXCEPT ![e.sensor] = (e.op = "on")]]
      BY ReadersFields
    <3> HIDE DEF d, e
    <3> QED
      BY <1>1, <3>1, <3>2, ReadersFields DEF DevOK, Devs
  <2> HIDE DEF d, e
  <2>3. /\ DevOK(Readers') /\ Replies(tx') = Replies(tx)
        /\ ~linked => tx' = tx
        /\ \A s \in Sensors :
              /\ writing'[s].log = writing[s].log
              /\ writing'[s].size = writing[s].size
              /\ writing'[s].canWrite = writing[s].canWrite
              /\ writing'[s].wpos = writing[s].wpos
    BY <2>1, <2>2, BecomeNotified
  <2>4. StorageFits'
    BY <1>1, <2>1, <2>3, SameStorage
  <2>5. RequestsFit'
    BY <1>1, <2>1, <2>3, HandledRequests DEF client
  <2>6. ClientFits'
    BY <1>1, <2>1 DEF ClientFits, client
  <2> QED
    BY <2>3, <2>4, <2>5, <2>6 DEF TypeInv
<1> QED
  BY <1>1, <1>4, <1>5 DEF RequestsFit

LEMMA OnTxCompleteTypes ==
    ASSUME TypeInv, OnTxComplete
    PROVE  TypeInv'
<1>1. /\ StorageFits /\ DevOK(Readers) /\ RequestsFit /\ ClientFits
      /\ events # <<>> /\ events' = Tail(events)
      /\ Become(NotifyLogData(Readers))
      /\ UNCHANGED <<storage, linked, cccd, client, up>>
  BY DEF TypeInv, OnTxComplete, Handle
<1>2. /\ DevOK(Readers') /\ Replies(tx') = Replies(tx)
      /\ ~linked => tx' = tx
      /\ \A s \in Sensors :
            /\ writing'[s].log = writing[s].log
            /\ writing'[s].size = writing[s].size
            /\ writing'[s].canWrite = writing[s].canWrite
            /\ writing'[s].wpos = writing[s].wpos
  BY <1>1, BecomeNotified, ReadersFields
<1>3. StorageFits'
  BY <1>1, <1>2, SameStorage
<1>4. RequestsFit'
  BY <1>1, <1>2, HandledRequests DEF client
<1>5. ClientFits'
  BY <1>1 DEF ClientFits, client
<1> QED
  BY <1>2, <1>3, <1>4, <1>5 DEF TypeInv

LEMMA OnDisconnectedTypes ==
    ASSUME TypeInv, OnDisconnected
    PROVE  TypeInv'
<1> DEFINE d == [Readers EXCEPT !.on = [s \in Sensors |-> FALSE]]
<1>1. /\ StorageFits /\ DevOK(Readers) /\ RequestsFit /\ ClientFits
      /\ events # <<>> /\ events' = Tail(events)
      /\ Become(d)
      /\ UNCHANGED <<storage, linked, cccd, client, up>>
  BY DEF TypeInv, OnDisconnected, Handle
<1>2. DevOK(d) /\ d.q = tx /\ d.w = writing
  BY <1>1, ReadersFields DEF DevOK, Devs
<1> HIDE DEF d
<1>3. Readers' = d
  BY <1>1, <1>2, BecomeReaders DEF DevOK
<1>4. DevOK(Readers') /\ tx' = tx /\ writing' = writing
  BY <1>2, <1>3, ReadersFields
<1>5. StorageFits'
  BY <1>1, <1>4, SameStorage
<1>6. RequestsFit'
  BY <1>1, <1>4, HandledRequests DEF client
<1>7. ClientFits'
  BY <1>1 DEF ClientFits, client
<1> QED
  BY <1>4, <1>5, <1>6, <1>7 DEF TypeInv

\* A client's write of a log ID, in terms of the fields.
LEMMA WriteLogIDFields ==
    ASSUME StorageFits, DevOK(Readers),
           NEW s \in Sensors, NEW l \in LogIDs, NEW p \in Nat
    PROVE  LET d == WriteLogID(Readers, s, l, p)
               own == Working /\ writing[s].log = l
           IN  /\ DevOK(d) /\ d.q = tx /\ d.on = notifying /\ SameWriters(d)
               /\ \A t \in Sensors \ {s} : /\ d.w[t] = writing[t]
                                           /\ d.r[t] = reading[t]
                                           /\ d.p[t] = pointer[t]
               /\ l >= logCount => /\ d.p[s] = "null" /\ d.w = writing
                                   /\ d.r = reading
               /\ l < logCount /\ own =>
                     /\ d.p[s] = "writing" /\ d.r = reading
                     /\ d.w[s] = [writing[s] EXCEPT !.rpos = p]
               /\ l < logCount /\ ~own =>
                     /\ d.p[s] = "reading" /\ d.w = writing
                     /\ d.r[s].log = l /\ d.r[s].size = LogSize(s, l)
                     /\ ~d.r[s].canWrite /\ ~d.r[s].ended /\ d.r[s].rpos = p
<1> DEFINE own == Working /\ writing[s].log = l
           d == WriteLogID(Readers, s, l, p)
           c == [Blank EXCEPT !.log = l, !.size = LogSize(s, l), !.rpos = p]
<1>1. /\ Readers \in Devs /\ writing \in [Sensors -> Context]
      /\ reading \in [Sensors -> Context] /\ pointer \in [Sensors -> Pointers]
  BY ReadersFields DEF DevOK, Devs
<1>2. l \in Int /\ logCount \in Int
  BY Constants DEF StorageFits
<1>3. d = IF l >= logCount THEN [Readers EXCEPT !.p[s] = "null"]
          ELSE IF own THEN [Readers EXCEPT !.p[s] = "writing", !.w[s].rpos = p]
          ELSE [Readers EXCEPT !.p[s] = "reading", !.r[s] = c]
  BY ReadersFields DEF WriteLogID
<1>4. CASE l >= logCount
  <2>1. d = [Readers EXCEPT !.p = [pointer EXCEPT ![s] = "null"]]
    BY <1>3, <1>4, ReadersFields
  <2>2. [pointer EXCEPT ![s] = "null"] \in [Sensors -> Pointers]
    BY <1>1 DEF Pointers
  <2> HIDE DEF d
  <2>3. /\ d \in Devs /\ d.w = writing /\ d.r = reading /\ d.q = tx
        /\ d.on = notifying /\ d.p = [pointer EXCEPT ![s] = "null"]
    BY <1>1, <2>1, <2>2, ReadersFields DEF Devs
  <2>4. DevOK(d) /\ SameWriters(d)
    BY <2>3, ReadersFields DEF DevOK, SameWriters
  <2>5. ~(l < logCount)
    BY <1>2, <1>4
  <2> QED
    BY <1>1, <2>3, <2>4, <2>5 DEF d
<1>5. CASE ~(l >= logCount) /\ own
  <2> DEFINE m == [writing[s] EXCEPT !.rpos = p]
  <2>1. d = [Readers EXCEPT !.p = [pointer EXCEPT ![s] = "writing"],
                            !.w = [writing EXCEPT ![s] = m]]
    BY <1>3, <1>5, ReadersFields
  <2>2. /\ m \in Context /\ m.log = writing[s].log /\ m.size = writing[s].size
        /\ m.canWrite = writing[s].canWrite /\ m.wpos = writing[s].wpos
    BY <1>1 DEF Context
  <2> HIDE DEF d, m
  <2>3. [pointer EXCEPT ![s] = "writing"] \in [Sensors -> Pointers]
    BY <1>1 DEF Pointers
  <2>4. [writing EXCEPT ![s] = m] \in [Sensors -> Context]
    BY <1>1, <2>2
  <2>5. /\ d \in Devs /\ d.w = [writing EXCEPT ![s] = m] /\ d.r = reading
        /\ d.q = tx /\ d.on = notifying
        /\ d.p = [pointer EXCEPT ![s] = "writing"]
    BY <1>1, <2>1, <2>3, <2>4, ReadersFields DEF Devs
  <2>6. DevOK(d) /\ SameWriters(d)
    BY <1>1, <2>2, <2>5, ReadersFields DEF DevOK, SameWriters
  <2>7. /\ d.p[s] = "writing" /\ d.w[s] = m
        /\ \A t \in Sensors \ {s} : d.w[t] = writing[t] /\ d.p[t] = pointer[t]
    BY <1>1, <2>5
  <2> QED
    BY <1>5, <2>5, <2>6, <2>7 DEF d, m
<1>6. CASE ~(l >= logCount) /\ ~own
  <2>1. l < Closed
    <3>1. CASE Recording
      <4>1. writing[s].log = logCount - 1 /\ Working
        BY <3>1 DEF StorageFits, WritersFit, Recording, Working
      <4> QED
        BY <1>2, <1>6, <3>1, <4>1 DEF Closed
    <3> QED
      BY <1>2, <1>6, <3>1 DEF Closed
  <2>2. LogSize(s, l) \in 0 .. Capacity
    BY <2>1, LogStartType
  <2>4. /\ c \in Context /\ c.log = l /\ c.size = LogSize(s, l)
        /\ ~c.canWrite /\ ~c.ended /\ c.rpos = p
    <3> DEFINE n == LogSize(s, l)
               k == [Blank EXCEPT !.log = l, !.size = n, !.rpos = p]
    <3>1. n \in 0 .. Capacity
      BY <2>2
    <3> HIDE DEF n
    <3>2. /\ k \in Context /\ k.log = l /\ k.size = n
          /\ ~k.canWrite /\ ~k.ended /\ k.rpos = p
      <4>1. 0 \in 0 .. Capacity /\ l \in Nat
        BY Constants
      <4> QED
        BY <3>1, <4>1 DEF Blank, Context
    <3>3. k = c
      BY DEF n
    <3> QED
      BY <3>2, <3>3 DEF n
  <2>5. d = [Readers EXCEPT !.p = [pointer EXCEPT ![s] = "reading"],
                            !.r = [reading EXCEPT ![s] = c]]
    <3> HIDE DEF c, own
    <3> QED
      BY <1>3, <1>6, ReadersFields
  <2> HIDE DEF d, c
  <2>6. [pointer EXCEPT ![s] = "reading"] \in [Sensors -> Pointers]
    BY <1>1 DEF Pointers
  <2>7. [reading EXCEPT ![s] = c] \in [Sensors -> Context]
    BY <1>1, <2>4
  <2>8. /\ d \in Devs /\ d.r = [reading EXCEPT ![s] = c] /\ d.w = writing
        /\ d.q = tx /\ d.on = notifying
        /\ d.p = [pointer EXCEPT ![s] = "reading"]
    BY <1>1, <2>5, <2>6, <2>7, ReadersFields DEF Devs
  <2>9. DevOK(d) /\ SameWriters(d)
    BY <2>8, ReadersFields DEF DevOK, SameWriters
  <2>10. /\ d.p[s] = "reading" /\ d.r[s] = c
         /\ \A t \in Sensors \ {s} : d.r[t] = reading[t] /\ d.p[t] = pointer[t]
    BY <1>1, <2>8
  <2> QED
    BY <1>6, <2>4, <2>8, <2>9, <2>10 DEF d
<1> QED
  BY <1>4, <1>5, <1>6

LEMMA OnRWAuthReqTypes ==
    ASSUME TypeInv, OnRWAuthReq
    PROVE  TypeInv'
<1> DEFINE e == Head(events)
           w == WriteLogID(Readers, e.sensor, e.log, e.from)
           d == [w EXCEPT !.q = Append(@, Reply)]
<1>1. /\ StorageFits /\ DevOK(Readers) /\ RequestsFit /\ ClientFits
      /\ events # <<>> /\ e.op = "logID" /\ events' = Tail(events)
  BY DEF TypeInv, OnRWAuthReq, Handle
<1>2. /\ events \in Seq(Events) /\ e \in Events /\ events' \in Seq(Events)
      /\ 1 \in Asks(events) /\ e = events[1]
      /\ \A i \in Asks(events') : i + 1 \in Asks(events) /\ i \in Nat /\ i > 0
  <2>1. events \in Seq(Events)
    BY <1>1 DEF RequestsFit
  <2> QED
    BY <1>1, <2>1, AsksAfterTail
<1>3. /\ e \in Requests /\ e.sensor \in Sensors /\ e.log \in LogIDs
      /\ e.from \in Nat
  BY <1>1, <1>2, EventFields, RequestFields
<1>4. CASE ~linked
  <2>1. Fail
    BY <1>4 DEF OnRWAuthReq
  <2>2. /\ up' = FALSE
        /\ UNCHANGED <<storage, readers, linked, cccd, tx, client>>
    BY <2>1 DEF Fail
  <2>3. Readers' = Readers /\ writing' = writing
    BY <2>2 DEF Readers, readers
  <2>4. StorageFits'
    BY <1>1, <2>2, <2>3, SameStorage
  <2>5. RequestsFit'
    BY <1>1, <2>2, HandledRequests DEF client
  <2>6. DevOK(Readers')
    BY <1>1, <2>3
  <2>7. ClientFits'
    BY <1>1, <2>2 DEF ClientFits, client
  <2> QED
    BY <2>4, <2>5, <2>6, <2>7 DEF TypeInv
<1>5. CASE linked
  <2>1. /\ Become(NotifyLogData(d))
        /\ UNCHANGED <<storage, linked, cccd, client, up>>
    BY <1>5 DEF OnRWAuthReq
  <2> HIDE DEF e
  <2>2. DevOK(w) /\ w.q = tx /\ SameWriters(w)
    BY <1>1, <1>3, WriteLogIDFields
  <2> HIDE DEF w
  <2>3. /\ DevOK(d) /\ Replies(d.q) = Replies(tx) \cup {Len(tx) + 1}
        /\ d.w = w.w
    BY <2>2, ReplyFields
  <2> HIDE DEF d
  <2>4. /\ DevOK(Readers') /\ Replies(tx') = Replies(d.q)
        /\ \A s \in Sensors :
              /\ writing'[s].log = d.w[s].log
              /\ writing'[s].size = d.w[s].size
              /\ writing'[s].canWrite = d.w[s].canWrite
              /\ writing'[s].wpos = d.w[s].wpos
    BY <2>1, <2>3, BecomeNotified
  <2>5. \A s \in Sensors :
           /\ writing'[s].log = writing[s].log
           /\ writing'[s].size = writing[s].size
           /\ writing'[s].canWrite = writing[s].canWrite
           /\ writing'[s].wpos = writing[s].wpos
    BY <2>2, <2>3, <2>4 DEF SameWriters
  <2>6. StorageFits'
    BY <1>1, <2>1, <2>5, SameStorage
  <2>7. /\ asked /\ Replies(tx) = {} /\ ops # <<>>
        /\ \A j \in Asks(events) : 1 = j
    BY <1>1, <1>2, <1>5 DEF RequestsFit
  <2>8. Asks(events') = {}
    <3> SUFFICES ASSUME NEW i \in Asks(events') PROVE FALSE
      OBVIOUS
    <3>1. i \in Nat /\ i > 0 /\ i + 1 = 1
      BY <1>2, <2>7
    <3> QED
      BY <3>1
  <2>9. /\ linked' = linked /\ ops' = ops /\ asked' = asked
    BY <2>1 DEF client
  <2>10. Replies(tx') = {Len(tx) + 1}
    BY <2>3, <2>4, <2>7
  <2>11. RequestsFit'
    BY <1>1, <1>2, <1>5, <2>7, <2>8, <2>9, <2>10 DEF RequestsFit
  <2>12. ClientFits'
    BY <1>1, <2>1 DEF ClientFits, client
  <2> QED
    BY <2>4, <2>6, <2>11, <2>12 DEF TypeInv
<1> QED
  BY <1>1, <1>4, <1>5 DEF RequestsFit

\* Nothing happens in the firmware.
LEMMA FirmwareIdle ==
    ASSUME StorageFits, UNCHANGED <<storage, readers>>
    PROVE  StorageFits' /\ writing' = writing
<1>1. writing' = writing
  BY DEF readers
<1> QED
  BY <1>1, SameStorage

LEMMA StartToReadLogTypes ==
    ASSUME TypeInv, NEW s \in Sensors, NEW l \in LogIDs, NEW p \in Starts,
           StartToReadLog(s, l, p)
    PROVE  TypeInv'
<1>1. /\ StorageFits /\ DevOK(Readers) /\ RequestsFit /\ ClientFits
      /\ linked /\ ops = <<>>
      /\ view' = [view EXCEPT ![s] = Idle]
      /\ UNCHANGED <<storage, readers, linked, cccd, tx, events, asked, up>>
  BY DEF TypeInv, StartToReadLog
<1>2. StorageFits' /\ Readers' = Readers
  BY <1>1, FirmwareIdle DEF Readers, readers
<1>3. /\ Op("off", s) \in Requests /\ Op("on", s) \in Requests
      /\ LogID(s, l, p) \in Requests
  BY DEF Requests
<1>4. ops' \in Seq(Requests)
  <2>1. ops' \in {<<Op("off", s), LogID(s, l, p), Op("on", s)>>, <<LogID(s, l, p)>>}
    BY DEF StartToReadLog
  <2>2. <<Op("off", s), LogID(s, l, p), Op("on", s)>> \in Seq(Requests)
    BY <1>3
  <2>3. <<LogID(s, l, p)>> \in Seq(Requests)
    BY <1>3
  <2> QED
    BY <2>1, <2>2, <2>3
<1>5. ~asked /\ Replies(tx) = {} /\ Asks(events) = {}
  BY <1>1 DEF RequestsFit
<1>6. RequestsFit'
  BY <1>1, <1>4, <1>5 DEF RequestsFit
<1>7. ClientFits'
  <2>1. Idle \in Views
    BY Constants DEF Idle, Views
  <2> QED
    BY <1>1, <2>1 DEF ClientFits
<1> QED
  BY <1>1, <1>2, <1>6, <1>7 DEF TypeInv

LEMMA SendTypes ==
    ASSUME TypeInv, Send
    PROVE  TypeInv'
<1> DEFINE e == Head(ops)
<1>1. /\ StorageFits /\ DevOK(Readers) /\ RequestsFit /\ ClientFits
      /\ linked /\ ops # <<>> /\ ~asked /\ asked' = TRUE
      /\ events' = Append(events, e)
      /\ UNCHANGED <<storage, readers, linked, ops, view, up>>
  BY DEF TypeInv, Send
<1>2. /\ ops \in Seq(Requests) /\ events \in Seq(Events)
      /\ Replies(tx) = {} /\ Asks(events) = {}
  BY <1>1 DEF RequestsFit
<1>3. e \in Requests
  BY <1>1, <1>2, HeadTailProperties
<1>4. e \in Events /\ e.op \in {"on", "off", "logID"} /\ e.sensor \in Sensors
  BY <1>3, EventFields, RequestFields
<1>5. StorageFits'
  BY <1>1, FirmwareIdle
<1>6. /\ events' \in Seq(Events)
      /\ e.op # "logID" => Asks(events') = {}
      /\ e.op = "logID" => /\ Asks(events') = {Len(events) + 1}
                           /\ events'[Len(events) + 1] = e
  BY <1>1, <1>2, <1>4, AsksAfterAppend
<1>7. CASE e.op \in {"on", "off"}
  <2>1. /\ cccd' = [cccd EXCEPT ![e.sensor] = (e.op = "on")]
        /\ tx' = Append(tx, Reply)
    BY <1>7 DEF Send
  <2>2. tx \in Seq(PacketSet)
    BY <1>1, ReadersFields DEF DevOK, Devs
  <2>3. /\ tx' \in Seq(PacketSet) /\ Free(tx') = Free(tx)
        /\ Replies(tx') = {Len(tx) + 1}
    BY <1>2, <2>1, <2>2, FreeAfterReply
  <2>4. DevOK(Readers')
    <3>1. /\ writing' = writing /\ reading' = reading /\ pointer' = pointer
          /\ notifying' = notifying
      BY <1>1 DEF readers
    <3> QED
      BY <1>1, <2>3, <3>1 DEF DevOK, Devs, Readers
  <2>5. RequestsFit'
    BY <1>1, <1>2, <1>6, <1>7, <2>3 DEF RequestsFit
  <2>6. ClientFits'
    <3>1. cccd \in [Sensors -> BOOLEAN] /\ (e.op = "on") \in BOOLEAN
      BY <1>1 DEF ClientFits
    <3>2. cccd' \in [Sensors -> BOOLEAN]
      <4> HIDE DEF e
      <4> QED
        BY <2>1, <3>1
    <3> QED
      BY <1>1, <3>2 DEF ClientFits
  <2> QED
    BY <1>5, <2>4, <2>5, <2>6 DEF TypeInv
<1>8. CASE e.op \notin {"on", "off"}
  <2>1. UNCHANGED <<cccd, tx>>
    BY <1>8 DEF Send
  <2>2. Readers' = Readers
    BY <1>1, <2>1 DEF Readers, readers
  <2>3. e.op = "logID"
    BY <1>4, <1>8
  <2>4. RequestsFit'
    <3>1. \A i \in Asks(events') : /\ asked' /\ events'[i] = Head(ops')
                                   /\ Replies(tx') = {}
                                   /\ \A j \in Asks(events') : i = j
      <4>1. Asks(events') = {Len(events) + 1} /\ events'[Len(events) + 1] = e
        BY <1>6, <2>3
      <4>2. Head(ops') = e /\ Replies(tx') = {} /\ asked'
        BY <1>1, <1>2, <2>1
      <4> QED
        BY <4>1, <4>2
    <3> QED
      BY <1>1, <1>2, <1>6, <2>1, <3>1 DEF RequestsFit
  <2>5. ClientFits'
    BY <1>1, <2>1 DEF ClientFits
  <2> QED
    BY <1>1, <1>5, <2>2, <2>4, <2>5 DEF TypeInv
<1> QED
  BY <1>7, <1>8

LEMMA SeenType ==
    ASSUME NEW v \in Views, NEW p \in DataPackets
    PROVE  Seen(v, p) \in Views
<1>1. p.count \in Nat /\ v.next \in Nat \cup {-1}
  BY Constants DEF DataPackets, Views
<1>2. CASE ~v.reading
  BY <1>2 DEF Seen
<1>3. CASE v.reading /\ (v.ended \/ p.log # v.log
                            \/ (p.count > 0 /\ p.from # v.next))
  BY <1>3 DEF Seen, Views
<1>4. CASE v.reading /\ ~(v.ended \/ p.log # v.log
                             \/ (p.count > 0 /\ p.from # v.next))
  <2>1. CASE p.count = 0
    BY <1>4, <2>1 DEF Seen, Views
  <2>2. CASE p.count # 0
    <3>1. v.next + p.count \in Nat
      BY <1>1, <2>2
    <3>2. Seen(v, p) = [v EXCEPT !.next = v.next + p.count]
      BY <1>4, <2>2 DEF Seen
    <3> QED
      BY <3>1, <3>2 DEF Views
  <2> QED
    BY <2>1, <2>2
<1> QED
  BY <1>2, <1>3, <1>4

LEMMA DeliverTypes ==
    ASSUME TypeInv, Deliver
    PROVE  TypeInv'
<1> DEFINE p == Head(tx)
           e == Head(ops)
           done == Op("txComplete", 0)
<1>1. /\ StorageFits /\ DevOK(Readers) /\ RequestsFit /\ ClientFits
      /\ linked /\ tx # <<>> /\ tx' = Tail(tx)
      /\ UNCHANGED <<storage, readers, linked, cccd, up>>
  BY DEF TypeInv, Deliver
<1>2. tx \in Seq(PacketSet) /\ Free(tx) \in 0 .. TxSlots
  BY <1>1, ReadersFields DEF DevOK, Devs
<1>3. /\ tx' \in Seq(PacketSet) /\ p \in PacketSet
      /\ Free(tx') = Free(tx) + (IF p = Reply THEN 0 ELSE 1)
      /\ Replies(tx') = {i - 1 : i \in Replies(tx) \ {1}}
      /\ (p = Reply) = (1 \in Replies(tx))
  BY <1>1, <1>2, FreeAfterDelivery
<1>4. Free(tx') \in 0 .. TxSlots
  <2>1. Free(tx') <= TxSlots
    <3>1. Free(tx') = TxSlots - Cardinality(Notified(tx'))
          /\ Cardinality(Notified(tx')) \in Nat
      BY <1>3, NotifiedFinite
    <3> QED
      BY <3>1, Constants
  <2> QED
    BY <1>2, <1>3, <2>1, Constants
<1>5. DevOK(Readers')
  <2>1. /\ writing' = writing /\ reading' = reading /\ pointer' = pointer
        /\ notifying' = notifying
    BY <1>1 DEF readers
  <2> QED
    BY <1>1, <1>3, <1>4, <2>1 DEF DevOK, Devs, Readers
<1>6. StorageFits'
  BY <1>1, FirmwareIdle
<1>7. ops \in Seq(Requests) /\ events \in Seq(Events)
  BY <1>1 DEF RequestsFit
<1>8. CASE p = Reply
  <2>1. /\ ops' = Tail(ops) /\ asked' = FALSE
        /\ view' = IF e.op # "logID" THEN view
                   ELSE [view EXCEPT ![e.sensor] =
                           [reading |-> TRUE, log |-> e.log,
                            next |-> e.from, ended |-> FALSE]]
        /\ UNCHANGED events
    BY <1>8 DEF Deliver
  <2>2. /\ 1 \in Replies(tx) /\ asked /\ ops # <<>>
        /\ \A i \in Replies(tx) : i = 1
    BY <1>1, <1>3, <1>8 DEF RequestsFit
  <2>3. Replies(tx') = {}
    BY <1>3, <2>2
  <2>4. Asks(events) = {}
    BY <1>1, <2>2 DEF RequestsFit
  <2>5. e \in Requests /\ Tail(ops) \in Seq(Requests)
    BY <1>7, <2>2, HeadTailProperties
  <2>6. RequestsFit'
    BY <1>1, <1>7, <2>1, <2>3, <2>4, <2>5 DEF RequestsFit
  <2>7. ClientFits'
    <3>1. e.op = "logID" => [reading |-> TRUE, log |-> e.log, next |-> e.from,
                             ended |-> FALSE] \in Views
      BY <2>5, RequestFields DEF Views
    <3>2. view' \in [Sensors -> Views]
      BY <1>1, <2>1, <3>1 DEF ClientFits
    <3> QED
      BY <1>1, <3>2 DEF ClientFits
  <2> QED
    BY <1>5, <1>6, <2>6, <2>7 DEF TypeInv
<1>9. CASE p # Reply
  <2>1. /\ events' = IF done \in Range(events) THEN events
                     ELSE Append(events, done)
        /\ view' = IF p = Other THEN view
                   ELSE [view EXCEPT ![p.sensor] = Seen(@, p)]
        /\ UNCHANGED <<ops, asked>>
    BY <1>9 DEF Deliver
  <2>2. /\ done \in Events /\ done.op # "logID"
    BY EventFields
  <2>3. /\ events' \in Seq(Events) /\ Asks(events') = Asks(events)
        /\ \A i \in Asks(events) : events'[i] = events[i]
    BY <1>7, <2>1, <2>2, AsksAfterAppend
  <2>4. /\ Replies(tx) = {} => Replies(tx') = {}
        /\ Replies(tx') # {} => Replies(tx) # {}
    BY <1>3
  <2>5. \A i, j \in Replies(tx') : i = j
    <3>1. \A i, j \in Replies(tx) : i = j
      BY <1>1 DEF RequestsFit
    <3> QED
      BY <1>3, <3>1
  <2>6. RequestsFit'
    BY <1>1, <2>1, <2>3, <2>4, <2>5 DEF RequestsFit
  <2>7. ClientFits'
    <3>1. view \in [Sensors -> Views]
      BY <1>1 DEF ClientFits
    <3>2. p # Other => p \in DataPackets /\ p.sensor \in Sensors
      BY <1>3, <1>9 DEF PacketSet, DataPackets
    <3>3. p # Other => Seen(view[p.sensor], p) \in Views
      BY <3>1, <3>2, SeenType
    <3>4. view' \in [Sensors -> Views]
      <4> HIDE DEF p
      <4> QED
        BY <2>1, <3>1, <3>3
    <3> QED
      BY <1>1, <3>4 DEF ClientFits
  <2> QED
    BY <1>5, <1>6, <2>6, <2>7 DEF TypeInv
<1> QED
  BY <1>8, <1>9

LEMMA LoseLinkTypes ==
    ASSUME TypeInv, LoseLink
    PROVE  TypeInv'
<1>1. /\ StorageFits /\ DevOK(Readers) /\ RequestsFit /\ ClientFits
      /\ linked' = FALSE /\ tx' = <<>>
      /\ cccd' = [s \in Sensors |-> FALSE]
      /\ events' = Append(events, Op("disconnected", 0))
      /\ ops' = <<>> /\ asked' = FALSE
      /\ view' = [s \in Sensors |-> Idle]
      /\ UNCHANGED <<storage, readers, up>>
  BY DEF TypeInv, LoseLink
<1>2. StorageFits'
  BY <1>1, FirmwareIdle
<1>3. tx' \in Seq(PacketSet) /\ Free(tx') \in 0 .. TxSlots
  <2>1. <<>> \in Seq(PacketSet) /\ Notified(<<>>) = {}
    BY EmptySeq DEF Notified
  <2>2. Free(<<>>) = TxSlots - 0
    BY <2>1, NotifiedFinite, FS_EmptySet
  <2> QED
    BY <1>1, <2>1, <2>2, Constants
<1>4. DevOK(Readers')
  <2>1. /\ writing' = writing /\ reading' = reading /\ pointer' = pointer
        /\ notifying' = notifying
    BY <1>1 DEF readers
  <2> QED
    BY <1>1, <1>3, <2>1 DEF DevOK, Devs, Readers
<1>5. RequestsFit'
  <2>1. events' \in Seq(Events)
    BY <1>1, EventFields, AsksAfterAppend DEF RequestsFit
  <2>2. ops' \in Seq(Requests)
    BY <1>1, EmptySeq
  <2> QED
    BY <1>1, <2>1, <2>2, NoReplies DEF RequestsFit
<1>6. ClientFits'
  <2>1. Idle \in Views
    BY Constants DEF Idle, Views
  <2> QED
    BY <1>1, <2>1 DEF ClientFits
<1> QED
  BY <1>2, <1>4, <1>5, <1>6 DEF TypeInv

LEMMA ConnectTypes ==
    ASSUME TypeInv, Connect
    PROVE  TypeInv'
<1>1. /\ StorageFits /\ DevOK(Readers) /\ RequestsFit /\ ClientFits
      /\ ~linked /\ events = <<>> /\ linked' = TRUE
      /\ ops' = [s \in Sensors |-> Op("on", s)]
      /\ UNCHANGED <<storage, readers, cccd, tx, events, asked, view, up>>
  BY DEF TypeInv, Connect
<1>2. StorageFits' /\ Readers' = Readers
  BY <1>1, FirmwareIdle DEF Readers, readers
<1>3. ops' \in Seq(Requests)
  <2>1. \A s \in Sensors : Op("on", s) \in Requests
    BY DEF Requests
  <2>2. ops' \in [1 .. NumSensors -> Requests] /\ NumSensors \in Nat
    BY <1>1, <2>1, Constants DEF Sensors
  <2> QED
    BY <2>2, SeqDef
<1>4. tx = <<>> /\ ~asked
  BY <1>1 DEF RequestsFit
<1>5. RequestsFit'
  BY <1>1, <1>3, <1>4, NoReplies DEF RequestsFit
<1>6. ClientFits'
  BY <1>1 DEF ClientFits
<1> QED
  BY <1>1, <1>2, <1>5, <1>6 DEF TypeInv

LEMMA TypeInvInit ==
    ASSUME Init
    PROVE  TypeInv
<1>1. /\ header \in [Sensors -> [LogIDs -> StoredSizes \cup {0}]]
      /\ \A s \in Sensors, l \in LogIDs : l > 0 => header[s][l] = 0
      /\ logCount \in {0, 1} /\ session = "none" /\ diskFull = FALSE
      /\ writing = [s \in Sensors |-> Blank] /\ reading = writing
      /\ pointer = [s \in Sensors |-> "null"]
      /\ notifying = [s \in Sensors |-> FALSE] /\ cccd = notifying
      /\ linked = FALSE /\ tx = <<>> /\ events = <<>>
      /\ ops = <<>> /\ asked = FALSE
      /\ view = [s \in Sensors |-> Idle] /\ up = TRUE
  BY DEF Init
<1>2. Blank \in Context /\ Idle \in Views
  <2>1. 0 \in 0 .. Capacity
    BY Constants
  <2> QED
    BY <2>1, Constants DEF Blank, Context, Idle, Views
<1>3. DevOK(Readers)
  <2>1. <<>> \in Seq(PacketSet) /\ Notified(<<>>) = {}
    BY EmptySeq DEF Notified
  <2>2. Free(<<>>) = TxSlots - 0
    BY <2>1, NotifiedFinite, FS_EmptySet
  <2>3. Free(tx) \in 0 .. TxSlots
    BY <1>1, <2>2, Constants
  <2> QED
    BY <1>1, <1>2, <2>1, <2>3 DEF DevOK, Devs, Readers, Pointers
<1>4. StorageFits
  <2>1. header \in [Sensors -> [LogIDs -> 0 .. Capacity]]
    <3>1. StoredSizes \cup {0} \subseteq 0 .. Capacity
      BY Constants
    <3> QED
      BY <1>1, <3>1
  <2>2. logCount \in 0 .. MaxLogs
    BY <1>1, Constants
  <2>3. AreasFit
    <3> SUFFICES ASSUME NEW s \in Sensors, NEW l \in LogIDs, l < Closed
                 PROVE  LogStart(s, l) <= header[s][l]
      BY DEF AreasFit
    <3>1. l = 0
      BY <1>1, Constants DEF Closed, Recording
    <3> QED
      BY <2>1, <3>1, Constants DEF LogStart
  <2>4. WritersFit
    BY <1>1 DEF WritersFit, Recording, Blank
  <2> QED
    BY <1>1, <2>1, <2>2, <2>3, <2>4 DEF StorageFits
<1>5. RequestsFit
  BY <1>1, NoReplies, EmptySeq DEF RequestsFit
<1>6. ClientFits
  BY <1>1, <1>2 DEF ClientFits
<1> QED
  BY <1>3, <1>4, <1>5, <1>6 DEF TypeInv

LEMMA TypeInvStep ==
    ASSUME TypeInv, [Next]_vars
    PROVE  TypeInv'
<1>1. ASSUME NEW kind \in Sessions, Start(kind)
      PROVE  TypeInv'
  BY <1>1, StartTypes
<1>2. ASSUME NEW s \in Sensors, Write(s)
      PROVE  TypeInv'
  BY <1>2, WriteTypes
<1>3. CASE Handler
  BY <1>3, OnWriteTypes, OnRWAuthReqTypes, OnTxCompleteTypes,
     OnDisconnectedTypes DEF Handler
<1>4. ASSUME NEW s \in Sensors, NEW l \in LogIDs, NEW p \in Starts,
             StartToReadLog(s, l, p)
      PROVE  TypeInv'
  BY <1>4, StartToReadLogTypes
<1>5. CASE UNCHANGED vars
  <2>1. /\ UNCHANGED <<storage, readers, linked, cccd, tx, events, client, up>>
    BY <1>5 DEF vars
  <2>2. StorageFits' /\ Readers' = Readers
    BY <2>1, FirmwareIdle DEF TypeInv, Readers, readers
  <2>3. RequestsFit' /\ ClientFits'
    BY <2>1 DEF TypeInv, RequestsFit, ClientFits, client
  <2> QED
    BY <2>2, <2>3 DEF TypeInv
<1> QED
  BY <1>1, <1>2, <1>3, <1>4, <1>5, StopTypes, FormatTypes, SendTypes,
     DeliverTypes, LoseLinkTypes, ConnectTypes DEF Next

\* TypeOK holds: the positions, sizes and log IDs of the contexts are those
\* of logs that fit into the area of a sensor, never more is notified than
\* there are buffers, and what the client and the SoftDevice hold is what
\* the protocol allows (senstick_sensor_controller.c:158-213, 351-404).
THEOREM TypesHold == Spec => []TypeOK
<1>1. Init => TypeInv
  BY TypeInvInit
<1>2. TypeInv /\ [Next]_vars => TypeInv'
  BY TypeInvStep
<1>3. TypeInv => TypeOK
  BY TypeInvType
<1> QED
  BY <1>1, <1>2, <1>3, PTL DEF Spec

-----------------------------------------------------------------------------
(* What the packets that are buffered will do to what a client reads.      *)

SoundViews == [reading : BOOLEAN, log : LogIDs, next : Nat, ended : BOOLEAN]

\* The logs there are, which of them are closed, their samples, and the
\* request that is next to be answered.
World == [count |-> logCount, closed |-> Closed,
          size |-> [s \in Sensors |-> [l \in LogIDs |-> SamplesOf(s, l)]],
          request |-> Head(ops)]

Answered(e)    == [reading |-> TRUE, log |-> e.log, next |-> e.from,
                   ended |-> FALSE]
OfSensor(s, p) == p.kind = "data" /\ p.sensor = s

\* What the client makes of a packet, and whether the packet is right.
Taken(W, s, v, p) ==
    IF p = Reply
    THEN IF W.request.op = "logID" /\ W.request.sensor = s
         THEN Answered(W.request) ELSE v
    ELSE IF OfSensor(s, p) THEN Seen(v, p) ELSE v
Good(W, s, v, p) ==
    p # Reply /\ OfSensor(s, p) /\ v.reading =>
        /\ ~v.ended /\ p.log = v.log /\ p.from = v.next /\ v.log < W.count
        /\ p.count > 0 => p.from + p.count <= W.size[s][v.log]
        /\ p.count = 0 => v.log < W.closed /\ v.next >= W.size[s][v.log]

\* All packets of q are right, and take the client from v to w.
Chain(W, s, v, q, w, f) ==
    /\ f \in [1 .. Len(q) + 1 -> SoundViews]
    /\ f[1] = v /\ f[Len(q) + 1] = w
    /\ \A i \in 1 .. Len(q) : /\ f[i + 1] = Taken(W, s, f[i], q[i])
                              /\ Good(W, s, f[i], q[i])
Follows(W, s, v, q, w) ==
    \E f \in [1 .. Len(q) + 1 -> SoundViews] : Chain(W, s, v, q, w, f)

LEMMA FollowsType ==
    ASSUME NEW W, NEW s, NEW v, NEW q \in Seq(PacketSet), NEW w,
           Follows(W, s, v, q, w)
    PROVE  v \in SoundViews /\ w \in SoundViews
<1>1. PICK f \in [1 .. Len(q) + 1 -> SoundViews] : Chain(W, s, v, q, w, f)
  BY DEF Follows
<1>2. Len(q) \in Nat
  BY LenProperties
<1>3. 1 \in 1 .. Len(q) + 1 /\ Len(q) + 1 \in 1 .. Len(q) + 1
  BY <1>2
<1> QED
  BY <1>1, <1>3 DEF Chain

LEMMA FollowsNothing ==
    ASSUME NEW W, NEW s, NEW v \in SoundViews
    PROVE  Follows(W, s, v, <<>>, v)
<1> DEFINE f == [i \in 1 .. 1 |-> v]
<1>1. Len(<<>>) = 0
  BY EmptySeq
<1>2. f \in [1 .. Len(<<>>) + 1 -> SoundViews] /\ f[1] = v
  BY <1>1
<1>3. Chain(W, s, v, <<>>, v, f)
  BY <1>1, <1>2 DEF Chain
<1> QED
  BY <1>2, <1>3 DEF Follows

LEMMA FollowsConcat ==
    ASSUME NEW W, NEW s, NEW v, NEW u, NEW w,
           NEW q \in Seq(PacketSet), NEW r \in Seq(PacketSet),
           Follows(W, s, v, q, u), Follows(W, s, u, r, w)
    PROVE  Follows(W, s, v, q \o r, w)
<1>1. PICK f \in [1 .. Len(q) + 1 -> SoundViews] : Chain(W, s, v, q, u, f)
  BY DEF Follows
<1>2. PICK g \in [1 .. Len(r) + 1 -> SoundViews] : Chain(W, s, u, r, w, g)
  BY DEF Follows
<1>3. /\ Len(q) \in Nat /\ Len(r) \in Nat
      /\ Len(q \o r) = Len(q) + Len(r)
      /\ \A i \in 1 .. Len(q) + Len(r) :
            (q \o r)[i] = IF i <= Len(q) THEN q[i] ELSE r[i - Len(q)]
  BY LenProperties, ConcatProperties
<1> DEFINE a == Len(q)
           b == Len(r)
           t == q \o r
           h == [i \in 1 .. a + b + 1 |-> IF i <= a THEN f[i] ELSE g[i - a]]
<1>4. a \in Nat /\ b \in Nat /\ Len(t) = a + b
  BY <1>3
<1>5. \A i \in 1 .. a + b : t[i] = IF i <= a THEN q[i] ELSE r[i - a]
  BY <1>3
<1>6. /\ f \in [1 .. a + 1 -> SoundViews] /\ f[1] = v /\ f[a + 1] = u
      /\ \A i \in 1 .. a : /\ f[i + 1] = Taken(W, s, f[i], q[i])
                           /\ Good(W, s, f[i], q[i])
  BY <1>1 DEF Chain
<1>7. /\ g \in [1 .. b + 1 -> SoundViews] /\ g[1] = u /\ g[b + 1] = w
      /\ \A i \in 1 .. b : /\ g[i + 1] = Taken(W, s, g[i], r[i])
                           /\ Good(W, s, g[i], r[i])
  BY <1>2 DEF Chain
<1> HIDE DEF a, b, t
<1>8. h \in [1 .. a + b + 1 -> SoundViews]
  <2>1. ASSUME NEW i \in 1 .. a + b + 1
        PROVE  (IF i <= a THEN f[i] ELSE g[i - a]) \in SoundViews
    <3>1. CASE i <= a
      BY <1>4, <1>6, <3>1
    <3>2. CASE ~(i <= a)
      <4>1. i - a \in 1 .. b + 1
        BY <1>4, <3>2
      <4> QED
        BY <1>7, <3>2, <4>1
    <3> QED
      BY <3>1, <3>2
  <2> QED
    BY <2>1
<1>9. \A i \in 1 .. a + 1 : h[i] = f[i]
  <2> SUFFICES ASSUME NEW i \in 1 .. a + 1 PROVE h[i] = f[i]
    OBVIOUS
  <2>1. i \in 1 .. a + b + 1
    BY <1>4
  <2>2. CASE i <= a
    BY <2>1, <2>2
  <2>3. CASE ~(i <= a)
    <3>1. i = a + 1 /\ i - a = 1
      BY <1>4, <2>3
    <3> QED
      BY <1>6, <1>7, <2>1, <2>3, <3>1
  <2> QED
    BY <2>2, <2>3
<1>10. \A i \in 1 .. b + 1 : h[a + i] = g[i]
  <2> SUFFICES ASSUME NEW i \in 1 .. b + 1 PROVE h[a + i] = g[i]
    OBVIOUS
  <2>1. a + i \in 1 .. a + b + 1 /\ ~(a + i <= a) /\ (a + i) - a = i
    BY <1>4
  <2> QED
    BY <2>1
<1> HIDE DEF h
<1>11. ASSUME NEW i \in 1 .. a + b
       PROVE  h[i + 1] = Taken(W, s, h[i], t[i]) /\ Good(W, s, h[i], t[i])
  <2>1. CASE i <= a
    <3>1. i \in 1 .. a /\ i \in 1 .. a + 1 /\ i + 1 \in 1 .. a + 1
      BY <1>4, <2>1
    <3> QED
      BY <1>5, <1>6, <1>9, <2>1, <3>1
  <2>2. CASE ~(i <= a)
    <3> DEFINE j == i - a
    <3>1. j \in 1 .. b /\ j \in 1 .. b + 1 /\ j + 1 \in 1 .. b + 1
          /\ a + j = i /\ a + (j + 1) = i + 1
      BY <1>4, <2>2
    <3>2. t[i] = r[j]
      BY <1>5, <2>2
    <3> HIDE DEF j
    <3>3. h[i] = g[j] /\ h[i + 1] = g[j + 1]
      BY <1>10, <3>1
    <3> QED
      BY <1>7, <3>1, <3>2, <3>3
  <2> QED
    BY <2>1, <2>2
<1>12. h[1] = v /\ h[a + b + 1] = w
  <2>1. 1 \in 1 .. a + 1 /\ b + 1 \in 1 .. b + 1 /\ a + (b + 1) = a + b + 1
    BY <1>4
  <2> QED
    BY <1>6, <1>7, <1>9, <1>10, <2>1
<1>13. h \in [1 .. Len(t) + 1 -> SoundViews] /\ Chain(W, s, v, t, w, h)
  BY <1>4, <1>8, <1>11, <1>12 DEF Chain
<1> QED
  BY <1>13 DEF Follows, t

LEMMA FollowsOne ==
    ASSUME NEW W, NEW s, NEW v \in SoundViews, NEW p \in PacketSet,
           Good(W, s, v, p), Taken(W, s, v, p) \in SoundViews
    PROVE  Follows(W, s, v, <<p>>, Taken(W, s, v, p))
<1> DEFINE w == Taken(W, s, v, p)
           f == [i \in 1 .. 2 |-> IF i = 1 THEN v ELSE w]
<1>1. Len(<<p>>) = 1 /\ <<p>>[1] = p
  OBVIOUS
<1> HIDE DEF w
<1>2. f \in [1 .. 2 -> SoundViews] /\ f[1] = v /\ f[2] = w
  BY DEF w
<1> HIDE DEF f
<1>3. \A i \in 1 .. 1 : i = 1 /\ i + 1 = 2
  OBVIOUS
<1>4. Chain(W, s, v, <<p>>, w, f)
  BY <1>1, <1>2, <1>3 DEF Chain, w
<1> QED
  BY <1>1, <1>2, <1>4 DEF Follows, w

LEMMA FollowsAppend ==
    ASSUME NEW W, NEW s, NEW v, NEW u, NEW q \in Seq(PacketSet),
           NEW p \in PacketSet, Follows(W, s, v, q, u),
           Good(W, s, u, p), Taken(W, s, u, p) \in SoundViews
    PROVE  Follows(W, s, v, Append(q, p), Taken(W, s, u, p))
<1>1. u \in SoundViews
  BY FollowsType
<1>2. Follows(W, s, u, <<p>>, Taken(W, s, u, p))
  BY <1>1, FollowsOne
<1>3. <<p>> \in Seq(PacketSet) /\ q \o <<p>> = Append(q, p)
  BY AppendIsConcat
<1>4. Follows(W, s, v, q \o <<p>>, Taken(W, s, u, p))
  BY <1>2, <1>3, FollowsConcat
<1> QED
  BY <1>3, <1>4

LEMMA FollowsTail ==
    ASSUME NEW W, NEW s, NEW v, NEW w, NEW q \in Seq(PacketSet), q # <<>>,
           Follows(W, s, v, q, w)
    PROVE  /\ Good(W, s, v, Head(q))
           /\ Taken(W, s, v, Head(q)) \in SoundViews
           /\ Follows(W, s, Taken(W, s, v, Head(q)), Tail(q), w)
<1>1. PICK f \in [1 .. Len(q) + 1 -> SoundViews] : Chain(W, s, v, q, w, f)
  BY DEF Follows
<1> DEFINE n == Len(q)
           r == Tail(q)
           g == [i \in 1 .. n |-> f[i + 1]]
           u == Taken(W, s, v, Head(q))
<1>2. /\ n \in Nat /\ n > 0 /\ Len(r) = n - 1
      /\ \A i \in 1 .. n - 1 : r[i] = q[i + 1]
      /\ Head(q) = q[1]
  <2>1. /\ n \in Nat /\ n # 0 /\ Len(r) = n - 1
        /\ \A i \in 1 .. Len(r) : r[i] = q[i + 1]
        /\ Head(q) = q[1]
    BY EmptySeq, LenProperties, HeadTailProperties
  <2> HIDE DEF n, r
  <2> QED
    BY <2>1
<1>3. /\ f \in [1 .. n + 1 -> SoundViews] /\ f[1] = v /\ f[n + 1] = w
      /\ \A i \in 1 .. n : /\ f[i + 1] = Taken(W, s, f[i], q[i])
                           /\ Good(W, s, f[i], q[i])
  BY <1>1 DEF Chain
<1> HIDE DEF n, r
<1>4. f[2] = u /\ Good(W, s, v, Head(q)) /\ f[2] \in SoundViews
  <2>1. 1 \in 1 .. n /\ 1 + 1 = 2 /\ 2 \in 1 .. n + 1
    BY <1>2
  <2> QED
    BY <1>2, <1>3, <2>1
<1>5. g \in [1 .. n -> SoundViews]
  <2>1. \A i \in 1 .. n : i + 1 \in 1 .. n + 1
    BY <1>2
  <2> QED
    BY <1>3, <2>1
<1>6. g[1] = u /\ g[n] = w
  <2>1. 1 \in 1 .. n /\ n \in 1 .. n /\ 1 + 1 = 2
    BY <1>2
  <2> HIDE DEF u
  <2> QED
    BY <1>3, <1>4, <2>1
<1>7. ASSUME NEW i \in 1 .. n - 1
      PROVE  g[i + 1] = Taken(W, s, g[i], r[i]) /\ Good(W, s, g[i], r[i])
  <2>1. i \in 1 .. n /\ i + 1 \in 1 .. n
    BY <1>2
  <2>2. g[i] = f[i + 1] /\ g[i + 1] = f[i + 1 + 1] /\ r[i] = q[i + 1]
    BY <1>2, <2>1
  <2> HIDE DEF g
  <2> QED
    BY <1>3, <2>1, <2>2
<1>8. n - 1 + 1 = n
  BY <1>2
<1> HIDE DEF g, u
<1>9. g \in [1 .. Len(r) + 1 -> SoundViews] /\ Chain(W, s, u, r, w, g)
  BY <1>2, <1>5, <1>6, <1>7, <1>8 DEF Chain
<1> QED
  BY <1>4, <1>9 DEF Follows, u, r

\* Packets that are not for the client of s leave it where it is.
LEMMA FollowsOthers ==
    ASSUME NEW W, NEW s, NEW v \in SoundViews, NEW q \in Seq(PacketSet),
           \A i \in 1 .. Len(q) : /\ q[i] # Reply
                                  /\ OfSensor(s, q[i]) => ~v.reading
    PROVE  Follows(W, s, v, q, v)
<1> DEFINE f == [i \in 1 .. Len(q) + 1 |-> v]
<1>1. Len(q) \in Nat
  BY LenProperties
<1>2. f \in [1 .. Len(q) + 1 -> SoundViews] /\ f[1] = v /\ f[Len(q) + 1] = v
  BY <1>1
<1>3. ASSUME NEW i \in 1 .. Len(q)
      PROVE  f[i + 1] = Taken(W, s, f[i], q[i]) /\ Good(W, s, f[i], q[i])
  <2>1. f[i] = v /\ f[i + 1] = v
    BY <1>1
  <2>2. Taken(W, s, v, q[i]) = v /\ Good(W, s, v, q[i])
    BY DEF Taken, Good, Seen
  <2> QED
    BY <2>1, <2>2
<1>4. Chain(W, s, v, q, v, f)
  BY <1>2, <1>3 DEF Chain
<1> QED
  BY <1>2, <1>4 DEF Follows

\* The world may go on: there are more logs, more of them closed, and the
\* one that is open has more samples.
Later(W, U) ==
    /\ W.count <= U.count /\ W.closed <= U.closed
    /\ \A s \in Sensors, l \in LogIDs :
          l < W.count =>
              /\ W.size[s][l] <= U.size[s][l]
              /\ l < W.closed => U.size[s][l] = W.size[s][l]

LEMMA FollowsLater ==
    ASSUME NEW W, NEW U, W.count \in Int, U.count \in Int,
           W.closed \in Int, U.closed \in Int, W.closed <= W.count,
           W.size \in [Sensors -> [LogIDs -> Nat]],
           U.size \in [Sensors -> [LogIDs -> Nat]],
           Later(W, U), NEW s \in Sensors, NEW v, NEW w, NEW q \in Seq(PacketSet),
           U.request = W.request \/ Replies(q) = {},
           Follows(W, s, v, q, w)
    PROVE  Follows(U, s, v, q, w)
<1>1. PICK f \in [1 .. Len(q) + 1 -> SoundViews] : Chain(W, s, v, q, w, f)
  BY DEF Follows
<1>2. Len(q) \in Nat /\ DOMAIN q = 1 .. Len(q)
  BY LenProperties
<1>3. ASSUME NEW i \in 1 .. Len(q)
      PROVE  Taken(U, s, f[i], q[i]) = Taken(W, s, f[i], q[i])
  BY <1>2 DEF Taken, Replies
<1>4. ASSUME NEW i \in 1 .. Len(q)
      PROVE  Good(U, s, f[i], q[i])
  <2> DEFINE p == q[i]
             x == f[i]
  <2>1. x \in SoundViews /\ p \in PacketSet
    <3>1. i \in 1 .. Len(q) + 1
      BY <1>2
    <3> QED
      BY <3>1, ElementOfSeq
  <2>2. Good(W, s, x, p)
    BY <1>1 DEF Chain
  <2> HIDE DEF p, x
  <2> SUFFICES ASSUME p # Reply, OfSensor(s, p), x.reading
               PROVE  /\ ~x.ended /\ p.log = x.log /\ p.from = x.next
                      /\ x.log < U.count
                      /\ p.count > 0 => p.from + p.count <= U.size[s][x.log]
                      /\ p.count = 0 => /\ x.log < U.closed
                                        /\ x.next >= U.size[s][x.log]
    BY DEF Good, p, x
  <2>3. /\ ~x.ended /\ p.log = x.log /\ p.from = x.next
        /\ x.log < W.count
        /\ p.count > 0 => p.from + p.count <= W.size[s][x.log]
        /\ p.count = 0 => x.log < W.closed /\ x.next >= W.size[s][x.log]
    BY <2>2 DEF Good
  <2>4. x.log \in LogIDs /\ x.log \in Nat /\ x.next \in Nat
    BY <2>1, Constants DEF SoundViews
  <2>5. p \in DataPackets
    BY <2>1, PacketKinds DEF PacketSet, OfSensor
  <2>6. p.count \in Nat /\ p.from \in Nat
    BY <2>5, Constants DEF DataPackets
  <2>7. W.size[s][x.log] \in Nat /\ U.size[s][x.log] \in Nat
    BY <2>4
  <2>8. /\ W.size[s][x.log] <= U.size[s][x.log]
        /\ x.log < W.closed => U.size[s][x.log] = W.size[s][x.log]
        /\ W.count <= U.count /\ W.closed <= U.closed
    BY <2>3, <2>4 DEF Later
  <2>9. x.log < U.count
    BY <2>3, <2>4, <2>8
  <2>10. ASSUME p.count > 0
         PROVE  p.from + p.count <= U.size[s][x.log]
    BY <2>3, <2>6, <2>7, <2>8, <2>10
  <2>11. ASSUME p.count = 0
         PROVE  x.log < U.closed /\ x.next >= U.size[s][x.log]
    BY <2>3, <2>4, <2>8, <2>11
  <2> QED
    BY <2>3, <2>9, <2>10, <2>11
<1>5. Chain(U, s, v, q, w, f)
  BY <1>1, <1>3, <1>4 DEF Chain
<1> QED
  BY <1>5 DEF Follows

-----------------------------------------------------------------------------
(* A client takes a packet.                                                *)

LEMMA DataFields ==
    \A p \in DataPackets :
        /\ p.kind = "data" /\ p.sensor \in Sensors /\ p.log \in LogIDs
        /\ p.log \in Nat /\ p.from \in Nat /\ p.count \in Nat
<1>1. \A p \in DataPackets :
         /\ p.kind = "data" /\ p.sensor \in Sensors /\ p.log \in LogIDs
         /\ p.from \in Nat /\ p.count \in 0 .. PerPacket
  BY DEF DataPackets
<1>2. LogIDs \subseteq Nat /\ 0 .. PerPacket \subseteq Nat
  BY Constants
<1> QED
  BY <1>1, <1>2

\* A context that is read from is that of a log there is, with its samples;
\* only the open log is read from a writing context.
Fits(W, d, s) ==
    /\ ~d.w[s].ended
    /\ d.p[s] # "null" =>
          LET c == Read(d, s)
          IN  /\ c.canWrite = (d.p[s] = "writing")
              /\ c.canWrite = ~(c.log < W.closed)
              /\ c.log < W.count /\ Limit(c) = W.size[s][c.log]

\* A client that has received what is buffered is where the context is that
\* its next packets are made from.
Meets(d, s, w) ==
    w.reading /\ d.p[s] # "null" =>
        LET c == Read(d, s)
        IN  w.log = c.log /\ w.next = c.rpos /\ w.ended = c.ended
Foreseen(W, d, s, v) ==
    \E w \in SoundViews : Follows(W, s, v, d.q, w) /\ Meets(d, s, w)

LEMMA SeenNext ==
    ASSUME NEW v \in SoundViews, NEW p \in DataPackets,
           v.reading, ~v.ended, p.log = v.log, p.from = v.next
    PROVE  LET w == Seen(v, p)
           IN  /\ w \in SoundViews /\ w.reading /\ w.log = v.log
               /\ w.next = p.from + p.count /\ w.ended = (p.count = 0)
<1>1. p.count \in Nat /\ p.from \in Nat /\ v.next \in Nat
  BY Constants DEF DataPackets, SoundViews
<1>2. CASE p.count = 0
  <2>1. Seen(v, p) = [v EXCEPT !.ended = TRUE]
    BY <1>2 DEF Seen
  <2>2. p.from + p.count = v.next
    BY <1>1, <1>2
  <2> QED
    BY <1>2, <2>1, <2>2 DEF SoundViews
<1>3. CASE p.count # 0
  <2>1. Seen(v, p) = [v EXCEPT !.next = v.next + p.count]
    BY <1>3 DEF Seen
  <2>2. v.next + p.count \in Nat
    BY <1>1
  <2> QED
    BY <1>3, <2>1, <2>2 DEF SoundViews
<1> QED
  BY <1>2, <1>3

LEMMA FollowsBatch ==
    ASSUME NEW W, NEW d, DevOK(d), NEW s \in Sensors, NEW n \in Nat,
           Sending(d, s, n), Fits(W, d, s), NEW v \in SoundViews, Meets(d, s, v),
           v.reading
    PROVE  \E w \in SoundViews :
              /\ Follows(W, s, v, Batch(d, s, n), w)
              /\ LET m == Moved(d, s, n)
                 IN  w.log = m.log /\ w.next = m.rpos /\ w.ended = m.ended
<1> DEFINE c == Read(d, s)
           P == Packets(s, c)
           B == Batch(d, s, n)
           m == Moved(d, s, n)
<1>1. d \in Devs /\ c \in Context
  BY ReadType DEF DevOK
<1>2. /\ d.p[s] # "null" /\ ~c.ended /\ n \in 1 .. Len(P)
  BY DEF Sending
<1>3. /\ P \in Seq(DataPackets) /\ Len(P) \in Nat
      /\ \A i \in 1 .. Len(P) :
            /\ P[i] \in DataPackets /\ P[i].sensor = s /\ P[i].log = c.log
            /\ P[i].count > 0 => P[i].from + P[i].count <= Limit(c)
            /\ P[i].count = 0 => ~c.canWrite /\ P[i].from >= Limit(c)
            /\ i = 1 => P[i].from = c.rpos
            /\ i < Len(P) => /\ P[i].count > 0
                             /\ P[i + 1].from = P[i].from + P[i].count
  BY <1>1, PacketsInOrder
<1>4. Len(B) = n /\ \A i \in 1 .. n : B[i] = P[i]
  BY <1>1, BatchType
<1>5. m.rpos = P[n].from + P[n].count /\ m.ended = (P[n].count = 0) /\ m.log = c.log
  BY <1>1, <1>2, MovedKeeps
<1>6. /\ v.log = c.log /\ v.next = c.rpos /\ ~v.ended
      /\ c.canWrite = ~(c.log < W.closed)
      /\ c.log < W.count /\ Limit(c) = W.size[s][c.log]
  BY <1>2 DEF Meets, Fits
<1> HIDE DEF c, P, B, m
<1> DEFINE x(i) == [v EXCEPT !.next = P[i].from, !.ended = FALSE]
           f == [i \in 1 .. n + 1 |-> IF i <= n THEN x(i) ELSE Seen(x(n), P[n])]
<1>7. ASSUME NEW i \in 1 .. n
      PROVE  /\ i \in 1 .. Len(P) /\ P[i] \in DataPackets
             /\ x(i) \in SoundViews /\ x(i).reading /\ ~x(i).ended
             /\ x(i).log = v.log /\ x(i).next = P[i].from
  <2>1. i \in 1 .. Len(P)
    BY <1>2, <1>3
  <2>2. P[i] \in DataPackets /\ P[i].from \in Nat
    BY <1>3, <2>1 DEF DataPackets
  <2> QED
    BY <2>1, <2>2 DEF SoundViews
<1>8. ASSUME NEW i \in 1 .. n
      PROVE  LET w == Seen(x(i), P[i])
             IN  /\ w \in SoundViews /\ w.reading /\ w.log = v.log
                 /\ w.next = P[i].from + P[i].count
                 /\ w.ended = (P[i].count = 0)
  <2> HIDE DEF x
  <2>1. P[i].log = x(i).log
    BY <1>3, <1>6, <1>7
  <2> QED
    BY <1>7, <2>1, SeenNext
<1>9. ASSUME NEW i \in 1 .. n, i < n
      PROVE  x(i + 1) = Seen(x(i), P[i])
  <2>1. i \in 1 .. Len(P) /\ i < Len(P)
    BY <1>2, <1>3, <1>9
  <2>2. P[i].count > 0 /\ P[i + 1].from = P[i].from + P[i].count
    BY <1>3, <2>1
  <2>3. P[i].count # 0 /\ P[i].count \in Nat
    <3>1. P[i].count \in Nat
      BY <1>7, DataFields
    <3> HIDE DEF x
    <3> QED
      BY <2>2, <3>1
  <2>4. Seen(x(i), P[i]) = [x(i) EXCEPT !.next = P[i].from + P[i].count]
    <3> HIDE DEF x
    <3>1. P[i].log = x(i).log /\ P[i].from = x(i).next
      BY <1>3, <1>6, <1>7
    <3> QED
      BY <1>7, <2>3, <3>1 DEF Seen
  <2>5. x(i + 1) = [x(i) EXCEPT !.next = P[i + 1].from]
    OBVIOUS
  <2> HIDE DEF x
  <2> QED
    BY <2>2, <2>4, <2>5
<1>10. x(1) = v
  <2>1. P[1].from = c.rpos
    BY <1>2, <1>3
  <2>2. P[1].from = v.next /\ v.ended = FALSE
    BY <1>6, <2>1 DEF SoundViews
  <2> QED
    BY <2>2 DEF SoundViews
<1> HIDE DEF x
<1>11. n \in Nat /\ n >= 1
  BY <1>2
<1>12. f \in [1 .. n + 1 -> SoundViews]
  <2>1. \A i \in 1 .. n + 1 : i <= n => i \in 1 .. n
    BY <1>11
  <2>2. n \in 1 .. n
    BY <1>11
  <2> QED
    BY <1>7, <1>8, <2>1, <2>2
<1> DEFINE w == Seen(x(n), P[n])
<1>13. /\ f[n + 1] = w /\ f[1] = v
       /\ \A i \in 1 .. n : f[i] = x(i) /\ f[i + 1] = Seen(x(i), P[i])
  <2>1. \A i \in 1 .. n : i \in 1 .. n + 1 /\ i + 1 \in 1 .. n + 1 /\ i <= n
                          /\ (i + 1 <= n) = (i < n)
    BY <1>11
  <2>2. n + 1 \in 1 .. n + 1 /\ ~(n + 1 <= n) /\ 1 \in 1 .. n /\ n \in 1 .. n
    BY <1>11
  <2>3. f[n + 1] = w
    BY <2>2
  <2>4. \A i \in 1 .. n : f[i] = x(i)
    BY <2>1
  <2>5. \A i \in 1 .. n : f[i + 1] = Seen(x(i), P[i])
    <3> SUFFICES ASSUME NEW i \in 1 .. n
                 PROVE  f[i + 1] = Seen(x(i), P[i])
      OBVIOUS
    <3>1. CASE i < n
      <4>1. i + 1 \in 1 .. n
        BY <1>11, <3>1
      <4> HIDE DEF f
      <4> QED
        BY <1>9, <2>4, <3>1, <4>1
    <3>2. CASE ~(i < n)
      <4>1. i = n
        BY <1>11, <3>2
      <4> HIDE DEF f
      <4> QED
        BY <2>3, <4>1
    <3> QED
      BY <3>1, <3>2
  <2> HIDE DEF f, w
  <2> QED
    BY <1>10, <2>2, <2>3, <2>4, <2>5
<1> HIDE DEF f
<1>14. ASSUME NEW i \in 1 .. n
       PROVE  /\ f[i + 1] = Taken(W, s, f[i], B[i])
              /\ Good(W, s, f[i], B[i])
  <2>1. /\ P[i] # Reply /\ OfSensor(s, P[i])
    BY <1>3, <1>7, PacketKinds DEF OfSensor
  <2>2. f[i + 1] = Taken(W, s, f[i], B[i])
    BY <1>4, <1>13, <2>1 DEF Taken
  <2>3. /\ ~x(i).ended /\ P[i].log = x(i).log /\ P[i].from = x(i).next
        /\ x(i).log < W.count
    BY <1>3, <1>6, <1>7
  <2>4. P[i].count > 0 => P[i].from + P[i].count <= W.size[s][x(i).log]
    BY <1>3, <1>6, <1>7
  <2>5. ASSUME P[i].count = 0
        PROVE  x(i).log < W.closed /\ x(i).next >= W.size[s][x(i).log]
    <3>1. ~c.canWrite /\ P[i].from >= Limit(c)
      BY <1>3, <1>7, <2>5
    <3> QED
      BY <1>6, <1>7, <3>1
  <2>6. Good(W, s, x(i), P[i])
    BY <2>3, <2>4, <2>5 DEF Good
  <2> QED
    BY <1>4, <1>13, <2>2, <2>6
<1>15. /\ w \in SoundViews /\ w.log = m.log /\ w.next = m.rpos
       /\ w.ended = m.ended
  <2>1. n \in 1 .. n
    BY <1>11
  <2> QED
    BY <1>5, <1>6, <1>8, <2>1
<1> HIDE DEF w
<1>16. Follows(W, s, v, B, w)
  <2>1. f \in [1 .. Len(B) + 1 -> SoundViews] /\ Chain(W, s, v, B, w, f)
    BY <1>4, <1>12, <1>13, <1>14 DEF Chain
  <2> QED
    BY <2>1 DEF Follows
<1> QED
  BY <1>15, <1>16 DEF B, m

-----------------------------------------------------------------------------
(* A packet is handed to the stack, or refused.                            *)

LEMMA SentFields ==
    ASSUME NEW d, DevOK(d), NEW t \in Sensors, NEW n \in Nat, Sending(d, t, n),
           NEW s \in Sensors
    PROVE  LET e == Sent(d, t, n)
           IN  /\ e.p = d.p /\ e.q = d.q \o Batch(d, t, n)
               /\ Read(e, s) = IF s = t THEN Moved(d, t, n) ELSE Read(d, s)
               /\ e.w[s] = IF s = t /\ d.p[t] = "writing" THEN Moved(d, t, n)
                           ELSE d.w[s]
<1> DEFINE m == Moved(d, t, n)
           e == Sent(d, t, n)
<1>1. /\ d.w \in [Sensors -> Context] /\ d.r \in [Sensors -> Context]
  BY DEF DevOK, Devs
<1> HIDE DEF m
<1>2. /\ e.p = d.p /\ e.q = d.q \o Batch(d, t, n)
      /\ e.w = IF d.p[t] = "writing" THEN [d.w EXCEPT ![t] = m] ELSE d.w
      /\ e.r = IF d.p[t] = "writing" THEN d.r ELSE [d.r EXCEPT ![t] = m]
  BY DEF Sent, m
<1> HIDE DEF e
<1>3. /\ e.w[s] = IF s = t /\ d.p[t] = "writing" THEN m ELSE d.w[s]
      /\ e.r[s] = IF s = t /\ d.p[t] # "writing" THEN m ELSE d.r[s]
  BY <1>1, <1>2
<1> QED
  BY <1>2, <1>3 DEF Read, e, m

\* What is notified goes on where the client will be.
LEMMA NotifyForeseen ==
    ASSUME NEW W, NEW d, DevOK(d), NEW s \in Sensors, Fits(W, d, s), NEW v,
           Foreseen(W, d, s, v)
    PROVE  LET e == NotifyLogData(d)
           IN  Fits(W, e, s) /\ Foreseen(W, e, s, v)
<1>1. d \in Devs /\ Free(d.q) \in 0 .. TxSlots /\ d.q \in Seq(PacketSet)
  BY DEF DevOK, Devs
<1>2. CASE NotifyLogData(d) = d
  BY <1>2
<1>3. ASSUME NEW t \in Sensors, NEW n \in Nat, Sending(d, t, n),
             NotifyLogData(d) = Sent(d, t, n)
      PROVE  LET e == NotifyLogData(d)
             IN  Fits(W, e, s) /\ Foreseen(W, e, s, v)
  <2> DEFINE e == Sent(d, t, n)
             m == Moved(d, t, n)
             B == Batch(d, t, n)
  <2>1. /\ e.p = d.p /\ e.q = d.q \o B
        /\ Read(e, s) = IF s = t THEN m ELSE Read(d, s)
        /\ e.w[s] = IF s = t /\ d.p[t] = "writing" THEN m ELSE d.w[s]
    BY <1>3, SentFields
  <2>2. /\ B \in Seq(DataPackets) /\ Len(B) = n /\ B \in Seq(PacketSet)
        /\ \A i \in 1 .. n : B[i] = Packets(t, Read(d, t))[i]
    <3>1. PacketSet \ {Reply} \subseteq PacketSet
      OBVIOUS
    <3> QED
      BY <1>1, <1>3, <3>1, BatchType, SeqMonotonic
  <2>3. /\ n \in 1 .. Len(Packets(t, Read(d, t))) /\ d.p[t] # "null"
    BY <1>3 DEF Sending
  <2>4. LET p == Packets(t, Read(d, t))[n]
        IN  /\ m.log = Read(d, t).log /\ m.size = Read(d, t).size
            /\ m.canWrite = Read(d, t).canWrite /\ m.wpos = Read(d, t).wpos
            /\ m.ended = (p.count = 0)
            /\ p.count = 0 => ~Read(d, t).canWrite
    <3>1. LET p == Packets(t, Read(d, t))[n]
          IN  /\ m.log = Read(d, t).log /\ m.size = Read(d, t).size
              /\ m.canWrite = Read(d, t).canWrite /\ m.wpos = Read(d, t).wpos
              /\ m.ended = (p.count = 0)
      <4>1. d \in Devs
        BY DEF DevOK
      <4>2. n \in 1 .. Len(Packets(t, Read(d, t)))
        BY <2>3
      <4> HIDE DEF e, B
      <4> QED
        BY <4>1, <4>2, MovedKeeps
    <3> HIDE DEF m
    <3>2. Read(d, t) \in Context
      BY <1>1, ReadType
    <3>3. Packets(t, Read(d, t))[n].count = 0 => ~Read(d, t).canWrite
      BY <2>3, <3>2, PacketsInOrder
    <3> QED
      BY <3>1, <3>3
  <2>5. \A i \in 1 .. n : B[i] # Reply /\ B[i].sensor = t
    <3>1. \A i \in 1 .. n : i \in 1 .. Len(Packets(t, Read(d, t)))
      <4>1. Len(Packets(t, Read(d, t))) \in Nat
        BY <1>1, ReadType, PacketsInOrder
      <4> QED
        BY <2>3, <4>1
    <3>2. \A i \in 1 .. n : /\ B[i] \in DataPackets /\ B[i].sensor = t
      <4>1. Read(d, t) \in Context
        BY <1>1, ReadType
      <4>2. \A i \in 1 .. Len(Packets(t, Read(d, t))) :
               LET p == Packets(t, Read(d, t))[i]
               IN  p \in DataPackets /\ p.sensor = t
        BY <4>1, PacketsInOrder
      <4> HIDE DEF e, m, B
      <4> QED
        BY <2>2, <3>1, <4>2
    <3> QED
      BY <3>2, PacketKinds
  <2> HIDE DEF e, m, B
  <2>6. Fits(W, e, s)
    <3>1. CASE s = t
      <4>1. Read(e, s) = m /\ Limit(m) = Limit(Read(d, s))
        BY <2>1, <2>4, <3>1 DEF Limit
      <4>2. /\ m.canWrite = (d.p[s] = "writing")
            /\ m.canWrite = ~(m.log < W.closed)
            /\ m.log < W.count /\ Limit(m) = W.size[s][m.log]
        BY <2>3, <2>4, <3>1, <4>1 DEF Fits
      <4>3. ~e.w[s].ended
        <5>1. CASE d.p[t] = "writing"
          <6>1. m.canWrite
            BY <3>1, <4>2, <5>1
          <6> QED
            BY <2>1, <2>4, <3>1, <5>1, <6>1
        <5>2. CASE d.p[t] # "writing"
          BY <2>1, <5>2 DEF Fits
        <5> QED
          BY <5>1, <5>2
      <4> QED
        BY <2>1, <4>1, <4>2, <4>3 DEF Fits
    <3>2. CASE s # t
      BY <2>1, <3>2 DEF Fits
    <3> QED
      BY <3>1, <3>2
  <2>7. Foreseen(W, e, s, v)
    <3>1. PICK w \in SoundViews : Follows(W, s, v, d.q, w) /\ Meets(d, s, w)
      BY DEF Foreseen
    <3>2. CASE s = t /\ w.reading
      <4>1. PICK u \in SoundViews :
               /\ Follows(W, s, w, B, u)
               /\ u.log = m.log /\ u.next = m.rpos /\ u.ended = m.ended
        BY <1>3, <3>1, <3>2, FollowsBatch DEF B, m
      <4>2. Follows(W, s, v, e.q, u)
        BY <1>1, <2>1, <2>2, <3>1, <4>1, FollowsConcat
      <4>3. Meets(e, s, u)
        BY <2>1, <3>2, <4>1 DEF Meets
      <4> QED
        BY <4>2, <4>3 DEF Foreseen
    <3>3. CASE ~(s = t /\ w.reading)
      <4>1. \A i \in 1 .. Len(B) : /\ B[i] # Reply
                                   /\ OfSensor(s, B[i]) => ~w.reading
        BY <2>2, <2>5, <3>3 DEF OfSensor
      <4>2. Follows(W, s, w, B, w)
        BY <2>2, <4>1, FollowsOthers
      <4>3. Follows(W, s, v, e.q, w)
        BY <1>1, <2>1, <2>2, <3>1, <4>2, FollowsConcat
      <4>4. Meets(e, s, w)
        BY <2>1, <3>1, <3>3 DEF Meets
      <4> QED
        BY <4>3, <4>4 DEF Foreseen
    <3> QED
      BY <3>2, <3>3
  <2> QED
    BY <1>3, <2>6, <2>7 DEF e
<1> QED
  BY <1>1, <1>2, <1>3, NotifyCases

\* Two devices whose readers are at the same place, with the same packets.
LEMMA SameForeseen ==
    ASSUME NEW W, NEW d, NEW e, NEW s \in Sensors, NEW v, Foreseen(W, d, s, v),
           e.q = d.q,
           e.p[s] # "null" => /\ d.p[s] # "null"
                              /\ Read(e, s).log = Read(d, s).log
                              /\ Read(e, s).rpos = Read(d, s).rpos
                              /\ Read(e, s).ended = Read(d, s).ended
    PROVE  Foreseen(W, e, s, v)
  BY DEF Foreseen, Meets

LEMMA LaterForeseen ==
    ASSUME NEW W, NEW U, W.count \in Int, U.count \in Int,
           W.closed \in Int, U.closed \in Int, W.closed <= W.count,
           W.size \in [Sensors -> [LogIDs -> Nat]],
           U.size \in [Sensors -> [LogIDs -> Nat]],
           Later(W, U), NEW d, d.q \in Seq(PacketSet),
           U.request = W.request \/ Replies(d.q) = {},
           NEW s \in Sensors, NEW v, Foreseen(W, d, s, v)
    PROVE  Foreseen(U, d, s, v)
<1>1. PICK w \in SoundViews : Follows(W, s, v, d.q, w) /\ Meets(d, s, w)
  BY DEF Foreseen
<1>2. Follows(U, s, v, d.q, w)
  BY <1>1, FollowsLater
<1> QED
  BY <1>1, <1>2 DEF Foreseen

LEMMA StatusForeseen ==
    ASSUME NEW W, NEW d, DevOK(d), NEW n \in Nat, NEW s \in Sensors,
           Fits(W, d, s), NEW v, Foreseen(W, d, s, v)
    PROVE  Fits(W, Status(d, n), s) /\ Foreseen(W, Status(d, n), s, v)
<1> DEFINE e == Status(d, n)
<1>1. d.q \in Seq(PacketSet)
  BY DEF DevOK, Devs
<1>2. /\ e.w = d.w /\ e.r = d.r /\ e.p = d.p
      /\ ~linked => e.q = d.q
      /\ \E m \in Seq({Other}) : linked => e.q = d.q \o m
  BY StatusFields
<1> HIDE DEF e
<1>3. /\ Read(e, s) = Read(d, s) /\ Fits(W, e, s)
  BY <1>2 DEF Fits, Read
<1>4. PICK w \in SoundViews : Follows(W, s, v, d.q, w) /\ Meets(d, s, w)
  BY DEF Foreseen
<1>5. Meets(e, s, w)
  BY <1>2, <1>3, <1>4 DEF Meets
<1>6. Follows(W, s, v, e.q, w)
  <2>1. CASE ~linked
    BY <1>2, <1>4, <2>1
  <2>2. CASE linked
    <3>1. PICK m \in Seq({Other}) : e.q = d.q \o m
      BY <1>2, <2>2
    <3>2. m \in Seq(PacketSet)
      <4>1. {Other} \subseteq PacketSet
        BY DEF PacketSet
      <4> QED
        BY <4>1, SeqMonotonic
    <3>3. \A i \in 1 .. Len(m) : m[i] = Other
      BY ElementOfSeq
    <3>4. \A i \in 1 .. Len(m) : m[i] # Reply /\ ~OfSensor(s, m[i])
      BY <3>3, PacketKinds DEF OfSensor
    <3>5. Follows(W, s, w, m, w)
      BY <3>2, <3>4, FollowsOthers
    <3> QED
      BY <1>1, <1>4, <3>1, <3>2, <3>5, FollowsConcat
  <2> QED
    BY <2>1, <2>2
<1> QED
  BY <1>3, <1>5, <1>6 DEF Foreseen, e

-----------------------------------------------------------------------------
(* The samples of the logs, and how steps change them.                     *)

LEMMA SamplesCases ==
    ASSUME NEW s \in Sensors, NEW l \in LogIDs, logCount \in Nat
    PROVE  /\ l >= logCount => SamplesOf(s, l) = 0
           /\ Recording /\ l = logCount - 1 => SamplesOf(s, l) = writing[s].wpos
           /\ l < logCount /\ ~(Recording /\ l = logCount - 1)
                 => SamplesOf(s, l) = LogSize(s, l)
           /\ l >= logCount \/ l < logCount
<1>1. l \in Nat
  BY Constants
<1>2. CASE l >= logCount
  <2>1. ~(l < logCount) /\ l # logCount - 1
    BY <1>1, <1>2
  <2>2. SamplesOf(s, l) = 0
    BY <1>2, <2>1 DEF SamplesOf
  <2> QED
    BY <1>2, <2>1, <2>2
<1>3. CASE ~(l >= logCount)
  <2>1. l < logCount
    BY <1>1, <1>3
  <2>2. Recording /\ l = logCount - 1 => SamplesOf(s, l) = writing[s].wpos
    BY <1>3 DEF SamplesOf, Recording
  <2>3. ~(Recording /\ l = logCount - 1) => SamplesOf(s, l) = LogSize(s, l)
    BY <1>3 DEF SamplesOf, Recording
  <2> QED
    BY <1>3, <2>1, <2>2, <2>3
<1> QED
  BY <1>2, <1>3

LEMMA SamplesType ==
    ASSUME TypeInv, NEW s \in Sensors, NEW l \in LogIDs
    PROVE  SamplesOf(s, l) \in 0 .. Capacity
<1>1. /\ StorageFits /\ logCount \in Nat /\ l \in Nat
      /\ writing[s].wpos \in 0 .. Capacity
  <2>1. writing \in [Sensors -> Context] /\ logCount \in Nat
    BY Constants, ReadersFields DEF TypeInv, DevOK, Devs, StorageFits
  <2> QED
    BY <2>1, Constants DEF TypeInv, Context
<1>2. CASE l >= logCount
  BY <1>1, <1>2, SamplesCases, Constants
<1>3. CASE Recording /\ l = logCount - 1
  BY <1>1, <1>3, SamplesCases
<1>4. CASE l < logCount /\ ~(Recording /\ l = logCount - 1)
  <2>1. l < Closed
    BY <1>1, <1>4 DEF Closed
  <2> QED
    BY <1>1, <1>4, <2>1, SamplesCases, LogStartType
<1> QED
  BY <1>1, <1>2, <1>3, <1>4, SamplesCases

LEMMA WorldType ==
    ASSUME TypeInv
    PROVE  /\ World.count = logCount /\ World.count \in Nat
           /\ World.closed = Closed /\ World.closed \in Nat
           /\ World.closed <= World.count
           /\ World.request = Head(ops)
           /\ World.size \in [Sensors -> [LogIDs -> Nat]]
           /\ \A s \in Sensors, l \in LogIDs : World.size[s][l] = SamplesOf(s, l)
<1>1. World.size = [s \in Sensors |-> [l \in LogIDs |-> SamplesOf(s, l)]]
  BY DEF World
<1>2. 0 .. Capacity \subseteq Nat
  OBVIOUS
<1>3. World.size \in [Sensors -> [LogIDs -> Nat]]
  BY <1>1, <1>2, SamplesType
<1>4. /\ World.count = logCount /\ World.closed = Closed
      /\ World.request = Head(ops)
  BY DEF World
<1>5. logCount \in Nat /\ Recording => logCount > 0
  BY Constants DEF TypeInv, StorageFits, WritersFit
<1>6. Closed \in Nat /\ Closed <= logCount
  <2>1. logCount \in Nat
    BY DEF TypeInv, StorageFits
  <2>2. Recording => logCount > 0
    BY DEF TypeInv, StorageFits, WritersFit
  <2> QED
    BY <2>1, <2>2 DEF Closed
<1>7. logCount \in Nat
  BY DEF TypeInv, StorageFits
<1> QED
  BY <1>1, <1>3, <1>4, <1>6, <1>7

LEMMA SamplesSame ==
    ASSUME TypeInv, UNCHANGED storage,
           \A s \in Sensors : writing'[s].wpos = writing[s].wpos,
           NEW s \in Sensors, NEW l \in LogIDs
    PROVE  SamplesOf(s, l)' = SamplesOf(s, l)
<1>1. UNCHANGED <<header, logCount, session>>
  BY DEF storage
<1>2. LogSize(s, l)' = LogSize(s, l)
  BY <1>1 DEF LogSize, LogStart
<1> QED
  BY <1>1, <1>2 DEF SamplesOf

\* A new log is empty.
LEMMA SamplesStart ==
    ASSUME TypeInv, Start("log"), NEW s \in Sensors, NEW l \in LogIDs
    PROVE  SamplesOf(s, l)' = SamplesOf(s, l)
<1>1. /\ session # "log" /\ session' = "log" /\ logCount' = logCount + 1
      /\ header' = header /\ logCount \in Nat /\ l \in Nat
  BY Constants DEF Start, Working, TypeInv, StorageFits
<1>2. writing'[s].wpos = 0
  <2> DEFINE d == [Readers EXCEPT !.w = [t \in Sensors |-> NewContext(t)]]
  <2>1. Become(Status(d, 2))
    BY DEF Start
  <2>2. Readers \in Devs /\ DevOK(Readers)
    BY DEF TypeInv, DevOK
  <2>3. \A t \in Sensors : NewContext(t) \in Context /\ NewContext(t).wpos = 0
    BY NewContextType DEF TypeInv
  <2>4. DevOK(d) /\ d.w = [t \in Sensors |-> NewContext(t)]
    BY <2>2, <2>3 DEF DevOK, Devs
  <2> HIDE DEF d
  <2>5. DevOK(Status(d, 2)) /\ Status(d, 2).w = d.w
    BY <2>4, StatusFields
  <2>6. writing' = d.w
    BY <2>1, <2>5, BecomeReaders, ReadersFields DEF DevOK
  <2> QED
    BY <2>3, <2>4, <2>6
<1>3. LogSize(s, l)' = LogSize(s, l)
  BY <1>1 DEF LogSize, LogStart
<1>4. CASE l >= logCount + 1
  <2>1. l >= logCount /\ l >= logCount' /\ l # logCount' - 1
    BY <1>1, <1>4
  <2> QED
    BY <1>1, <2>1 DEF SamplesOf
<1>5. CASE l = logCount
  <2>1. l >= logCount /\ ~(l >= logCount') /\ l = logCount' - 1
    BY <1>1, <1>5
  <2>2. SamplesOf(s, l) = 0
    <3>1. ~(session = "log" /\ l = logCount - 1)
      BY <1>1
    <3> QED
      BY <2>1, <3>1 DEF SamplesOf
  <2>3. SamplesOf(s, l)' = 0
    BY <1>1, <1>2, <2>1 DEF SamplesOf
  <2> QED
    BY <2>2, <2>3
<1>6. CASE l < logCount
  <2>1. ~(l >= logCount) /\ ~(l >= logCount') /\ l # logCount' - 1
    BY <1>1, <1>6
  <2>2. SamplesOf(s, l) = LogSize(s, l)
    BY <1>1, <2>1 DEF SamplesOf
  <2>3. SamplesOf(s, l)' = LogSize(s, l)'
    BY <1>1, <2>1 DEF SamplesOf
  <2> QED
    BY <1>3, <2>2, <2>3
<1> QED
  BY <1>1, <1>4, <1>5, <1>6

\* A log that is closed keeps its samples.
LEMMA SamplesStop ==
    ASSUME TypeInv, NEW d, SameWriters(d), session = "log", StopAfter(d),
           logCount' = logCount, NEW s \in Sensors, NEW l \in LogIDs
    PROVE  SamplesOf(s, l)' = SamplesOf(s, l)
<1>1. /\ session' = "none" /\ Recording
      /\ header' = [t \in Sensors |-> [header[t] EXCEPT ![logCount - 1] =
                       LogStart(t, logCount - 1) + d.w[t].wpos]]
  BY DEF StopAfter, Recording
<1>2. /\ logCount \in 0 .. MaxLogs /\ logCount > 0 /\ logCount - 1 \in LogIDs
      /\ l \in Nat /\ StorageFits
      /\ header \in [Sensors -> [LogIDs -> 0 .. Capacity]]
  BY <1>1, Constants DEF TypeInv, StorageFits, WritersFit, LogIDs
<1>3. \A k \in LogIDs : header'[s][k] = IF k = logCount - 1
                           THEN LogStart(s, logCount - 1) + d.w[s].wpos
                           ELSE header[s][k]
  BY <1>1, <1>2
<1>4. l < logCount => LogStart(s, l)' = LogStart(s, l)
  <2>1. l < logCount => l = 0 \/ (l - 1 \in LogIDs /\ l - 1 # logCount - 1)
    BY <1>2, Constants DEF LogIDs
  <2> QED
    BY <1>3, <2>1 DEF LogStart
<1>5. CASE l >= logCount
  <2>1. l # logCount - 1
    BY <1>2, <1>5
  <2> QED
    BY <1>5, <2>1 DEF SamplesOf
<1>6. CASE l = logCount - 1
  <2>1. ~(l >= logCount) /\ l < logCount
    BY <1>2, <1>6
  <2>2. SamplesOf(s, l) = writing[s].wpos
    BY <1>1, <1>6, <2>1 DEF SamplesOf, Recording
  <2>3. SamplesOf(s, l)' = LogSize(s, l)'
    BY <1>1, <2>1 DEF SamplesOf
  <2>4. LogSize(s, l)' = (LogStart(s, l) + d.w[s].wpos) - LogStart(s, l)
    <3>1. header'[s][l] = LogStart(s, l) + d.w[s].wpos
      BY <1>3, <1>6
    <3>2. LogStart(s, l)' = LogStart(s, l)
      BY <1>4, <2>1
    <3> QED
      BY <3>1, <3>2 DEF LogSize
  <2>5. d.w[s].wpos = writing[s].wpos /\ writing[s].wpos \in Int
    BY ReadersFields DEF SameWriters, TypeInv, DevOK, Devs, Context
  <2>6. LogStart(s, l) \in Int
    BY <1>2, LogStartType
  <2> QED
    BY <2>2, <2>3, <2>4, <2>5, <2>6
<1>7. CASE l < logCount - 1
  <2>1. ~(l >= logCount) /\ l < logCount /\ l # logCount - 1
    BY <1>2, <1>7
  <2>2. LogSize(s, l)' = LogSize(s, l)
    BY <1>3, <1>4, <2>1 DEF LogSize
  <2> QED
    BY <1>1, <2>1, <2>2 DEF SamplesOf
<1> QED
  BY <1>2, <1>5, <1>6, <1>7

\* What a sample that is written makes of them.
LEMMA SamplesWrite ==
    ASSUME TypeInv, session = "log", UNCHANGED <<header, session, logCount>>,
           NEW t \in Sensors,
           \A s \in Sensors : writing'[s].wpos = IF s = t THEN writing[s].wpos + 1
                                                 ELSE writing[s].wpos,
           NEW s \in Sensors, NEW l \in LogIDs
    PROVE  SamplesOf(s, l)' = IF s = t /\ l = logCount - 1
                              THEN SamplesOf(s, l) + 1 ELSE SamplesOf(s, l)
<1>1. logCount \in Nat /\ l \in Nat
  BY Constants DEF TypeInv, StorageFits
<1>2. LogSize(s, l)' = LogSize(s, l)
  BY DEF LogSize, LogStart
<1>3. CASE l >= logCount
  <2>1. l # logCount - 1
    BY <1>1, <1>3
  <2> QED
    BY <1>3, <2>1 DEF SamplesOf
<1>4. CASE l = logCount - 1
  <2>1. ~(l >= logCount)
    BY <1>1, <1>4
  <2>2. SamplesOf(s, l) = writing[s].wpos /\ SamplesOf(s, l)' = writing'[s].wpos
    BY <1>4, <2>1 DEF SamplesOf
  <2> QED
    BY <1>4, <2>2
<1>5. CASE l < logCount - 1
  <2>1. ~(l >= logCount) /\ l # logCount - 1
    BY <1>1, <1>5
  <2> QED
    BY <1>2, <2>1 DEF SamplesOf
<1> QED
  BY <1>1, <1>3, <1>4, <1>5

-----------------------------------------------------------------------------
(* The invariant of the reads, while the sensors that work do record.      *)

WorldOK == /\ World.count = logCount /\ World.count \in Nat
           /\ World.closed = Closed /\ World.closed \in Nat
           /\ World.closed <= World.count
           /\ World.request = Head(ops)
           /\ World.size \in [Sensors -> [LogIDs -> Nat]]
           /\ \A s \in Sensors, l \in LogIDs :
                 /\ World.size[s][l] = SamplesOf(s, l)
                 /\ SamplesOf(s, l) \in 0 .. Capacity

LEMMA WorldFacts == TypeInv => WorldOK
  BY WorldType, SamplesType DEF WorldOK

LEMMA WorldFactsNext == TypeInv' => WorldOK'
  BY WorldFacts, PTL

Sees == \A s \in Sensors : /\ Fits(World, Readers, s)
                           /\ Foreseen(World, Readers, s, view[s])
ReadInv == TypeInv /\ session # "notify" /\ Sees

LEMMA KeptForeseen ==
    ASSUME TypeInv, TypeInv', logCount <= logCount', Closed <= Closed',
           \A s \in Sensors, l \in LogIDs :
              l < logCount => /\ SamplesOf(s, l) <= SamplesOf(s, l)'
                              /\ l < Closed => SamplesOf(s, l)' = SamplesOf(s, l),
           NEW d, d.q \in Seq(PacketSet), ops' = ops \/ Replies(d.q) = {},
           NEW s \in Sensors, NEW v, Foreseen(World, d, s, v)
    PROVE  Foreseen(World', d, s, v)
<1> DEFINE W == World
           U == World'
<1>1. /\ W.count = logCount /\ W.count \in Nat /\ W.closed = Closed
      /\ W.closed \in Nat /\ W.closed <= W.count /\ W.request = Head(ops)
      /\ W.size \in [Sensors -> [LogIDs -> Nat]]
      /\ \A t \in Sensors, l \in LogIDs : W.size[t][l] = SamplesOf(t, l)
  BY WorldFacts DEF WorldOK
<1>2. /\ U.count = logCount' /\ U.count \in Nat /\ U.closed = Closed'
      /\ U.closed \in Nat /\ U.request = Head(ops')
      /\ U.size \in [Sensors -> [LogIDs -> Nat]]
      /\ \A t \in Sensors, l \in LogIDs : U.size[t][l] = SamplesOf(t, l)'
  BY WorldFactsNext DEF WorldOK
<1>4. U.request = W.request \/ Replies(d.q) = {}
  BY <1>1, <1>2
<1> HIDE DEF W, U
<1>5. Later(W, U)
  BY <1>1, <1>2 DEF Later
<1>6. W.count \in Int /\ U.count \in Int /\ W.closed \in Int /\ U.closed \in Int
  BY <1>1, <1>2
<1>7. Foreseen(W, d, s, v)
  BY DEF W
<1>8. Foreseen(U, d, s, v)
  BY <1>1, <1>2, <1>4, <1>5, <1>6, <1>7, LaterForeseen
<1> QED
  BY <1>8 DEF U

\* Logs are notified from a device d on which everything fits.
LEMMA NotifiedSees ==
    ASSUME NEW d, DevOK(d), Become(NotifyLogData(d)), view' = view,
           \A s \in Sensors : /\ Fits(World', d, s)
                              /\ Foreseen(World', d, s, view[s])
    PROVE  Sees'
<1>1. DevOK(NotifyLogData(d))
  BY NotifyType
<1>2. Readers' = NotifyLogData(d)
  BY <1>1, BecomeReaders DEF DevOK
<1>3. \A s \in Sensors : /\ Fits(World', NotifyLogData(d), s)
                         /\ Foreseen(World', NotifyLogData(d), s, view[s])
  BY NotifyForeseen
<1> QED
  BY <1>2, <1>3 DEF Sees

\* The world, as the readers see it, stays as it is.
LEMMA SameWorldSees ==
    ASSUME TypeInv, TypeInv', Sees, UNCHANGED <<storage, ops>>,
           \A s \in Sensors : writing'[s].wpos = writing[s].wpos,
           NEW s \in Sensors
    PROVE  /\ Fits(World', Readers, s)
           /\ Foreseen(World', Readers, s, view[s])
<1>1. UNCHANGED <<header, logCount, session>> /\ Closed' = Closed
  BY DEF storage, Closed, Recording
<1>2. \A t \in Sensors, l \in LogIDs : SamplesOf(t, l)' = SamplesOf(t, l)
  BY SamplesSame
<1>3. World' = World
  BY <1>1, <1>2 DEF World
<1> QED
  BY <1>3 DEF Sees

LEMMA NotWriting ==
    ASSUME TypeInv, Sees, ~Recording, NEW s \in Sensors
    PROVE  pointer[s] # "writing"
<1>1. SUFFICES ASSUME pointer[s] = "writing" PROVE FALSE
  OBVIOUS
<1>2. /\ World.closed = logCount /\ World.count = logCount
  BY WorldFacts DEF WorldOK, Closed
<1>3. LET c == Read(Readers, s)
      IN  /\ c.canWrite = TRUE /\ c.canWrite = ~(c.log < World.closed)
          /\ c.log < World.count
  BY <1>1, ReadersFields DEF Sees, Fits
<1> QED
  BY <1>2, <1>3

LEMMA ContextOf ==
    ASSUME TypeInv, NEW s \in Sensors
    PROVE  /\ Read(Readers, s) \in Context /\ Read(Readers, s).log \in LogIDs
           /\ writing[s] \in Context /\ reading[s] \in Context
           /\ Read(Readers, s) = IF pointer[s] = "writing" THEN writing[s]
                                 ELSE reading[s]
  BY ReadersFields DEF TypeInv, DevOK, Devs, Read, Context

LEMMA StartSees ==
    ASSUME TypeInv, TypeInv', Sees, Start("log")
    PROVE  Sees'
<1> DEFINE d == [Readers EXCEPT !.w = [s \in Sensors |-> NewContext(s)]]
<1>1. /\ Become(Status(d, 2)) /\ session = "none" /\ session' = "log"
      /\ logCount' = logCount + 1 /\ ops' = ops /\ view' = view
      /\ logCount \in Nat
  BY DEF Start, Working, client, TypeInv, StorageFits
<1>2. ~Recording /\ Recording' /\ Closed = logCount /\ Closed' = logCount
  BY <1>1 DEF Recording, Closed
<1>3. Readers \in Devs /\ DevOK(Readers)
  BY DEF TypeInv, DevOK
<1>4. \A s \in Sensors : NewContext(s) \in Context /\ ~NewContext(s).ended
  BY NewContextType DEF TypeInv
<1>5. /\ DevOK(d) /\ d.w = [s \in Sensors |-> NewContext(s)]
      /\ d.p = pointer /\ d.r = reading /\ d.q = tx
  BY <1>3, <1>4, ReadersFields DEF DevOK, Devs
<1> HIDE DEF d
<1>6. ASSUME NEW s \in Sensors
      PROVE  Fits(World', d, s) /\ Foreseen(World', d, s, view[s])
  <2>1. pointer[s] # "writing" /\ Read(d, s) = reading[s]
        /\ Read(Readers, s) = reading[s]
    BY <1>2, <1>5, NotWriting, ContextOf DEF Read
  <2>2. /\ World'.count = World.count + 1 /\ World'.closed = World.closed
        /\ World.closed = World.count /\ World.count \in Nat
        /\ \A l \in LogIDs : World'.size[s][l] = World.size[s][l]
    BY <1>1, <1>2, SamplesStart, WorldFacts, WorldFactsNext DEF WorldOK
  <2>3. Fits(World', d, s)
    <3>1. ~d.w[s].ended
      BY <1>4, <1>5
    <3>2. ASSUME pointer[s] # "null"
          PROVE  /\ reading[s].canWrite = FALSE /\ reading[s].log < World.count
                 /\ reading[s].log < World.closed
                 /\ Limit(reading[s]) = World.size[s][reading[s].log]
      BY <2>1, <2>2, <3>2, ReadersFields DEF Sees, Fits
    <3>3. reading[s].log \in LogIDs /\ reading[s].log \in Nat
      BY <2>1, ContextOf, Constants
    <3>4. ASSUME pointer[s] # "null"
          PROVE  /\ reading[s].canWrite = FALSE /\ reading[s].log < World'.count
                 /\ reading[s].log < World'.closed
                 /\ Limit(reading[s]) = World'.size[s][reading[s].log]
      <4> DEFINE k == reading[s].log
      <4>1. k \in LogIDs /\ k \in Nat /\ k < World.count /\ k < World.closed
        BY <3>2, <3>3, <3>4
      <4>2. World'.size[s][k] = World.size[s][k]
        BY <2>2, <4>1
      <4> HIDE DEF k
      <4>3. k < World'.count /\ k < World'.closed
        BY <2>2, <4>1
      <4> QED
        BY <3>2, <3>4, <4>2, <4>3 DEF k
    <3> QED
      BY <1>5, <2>1, <3>1, <3>4 DEF Fits
  <2>4. Foreseen(World', Readers, s, view[s])
    <3>1. logCount <= logCount' /\ Closed <= Closed'
      BY <1>1, <1>2
    <3>2. \A t \in Sensors, l \in LogIDs :
             /\ SamplesOf(t, l)' = SamplesOf(t, l)
             /\ SamplesOf(t, l) <= SamplesOf(t, l)'
      <4>1. \A t \in Sensors, l \in LogIDs : SamplesOf(t, l) \in Int
        BY SamplesType
      <4> QED
        BY <4>1, SamplesStart
    <3>3. Readers.q \in Seq(PacketSet)
      BY <1>3 DEF Devs
    <3> QED
      BY <1>1, <3>1, <3>2, <3>3, KeptForeseen DEF Sees
  <2>5. Foreseen(World', d, s, view[s])
    BY <1>5, <2>1, <2>4, ReadersFields, SameForeseen
  <2> QED
    BY <2>3, <2>5
<1>7. Readers' = Status(d, 2)
  BY <1>1, <1>5, StatusFields, BecomeReaders DEF DevOK
<1>8. \A s \in Sensors : /\ Fits(World', Status(d, 2), s)
                         /\ Foreseen(World', Status(d, 2), s, view[s])
  BY <1>5, <1>6, StatusForeseen
<1> QED
  BY <1>1, <1>7, <1>8 DEF Sees

-----------------------------------------------------------------------------
(* Each step keeps it.                                                     *)

LEMMA StopAfterSees ==
    ASSUME TypeInv, TypeInv', session = "log", NEW d, DevOK(d), SameWriters(d),
           StopAfter(d), logCount' = logCount, ops' = ops, view' = view,
           \A s \in Sensors : /\ Fits(World, d, s)
                              /\ Foreseen(World, d, s, view[s])
    PROVE  Sees'
<1> DEFINE e == StopLogging(d)
<1>1. Become(e) /\ Recording /\ ~Recording'
  BY DEF StopAfter, Recording
<1>2. /\ Closed = logCount - 1 /\ Closed' = logCount /\ logCount \in Nat
  BY <1>1 DEF Closed, TypeInv, StorageFits
<1>3. \A s \in Sensors : d.w[s].wpos <= d.w[s].size
  BY DEF SameWriters, TypeInv, StorageFits, WritersFit
<1>4. /\ DevOK(e) /\ e.q = d.q
      /\ \A s \in Sensors :
            /\ e.w[s] = [d.w[s] EXCEPT !.size = d.w[s].wpos]
            /\ e.r[s] = IF d.p[s] = "writing"
                        THEN [d.w[s] EXCEPT !.size = d.w[s].wpos,
                                            !.canWrite = FALSE]
                        ELSE d.r[s]
            /\ e.p[s] = IF d.p[s] = "writing" THEN "reading" ELSE d.p[s]
  BY <1>3, StopLoggingFields
<1> HIDE DEF e
<1>5. Readers' = e
  BY <1>1, <1>4, BecomeReaders DEF DevOK
<1>6. /\ World'.count = World.count /\ World'.closed = World.count
      /\ World.closed = World.count - 1 /\ World.count \in Nat
      /\ \A s \in Sensors, l \in LogIDs : World'.size[s][l] = World.size[s][l]
  BY <1>2, SamplesStop, WorldFacts, WorldFactsNext DEF WorldOK
<1>7. ASSUME NEW s \in Sensors
      PROVE  Fits(World', e, s) /\ Foreseen(World', e, s, view[s])
  <2>1. /\ d.w[s] \in Context /\ d.r[s] \in Context
    BY DEF DevOK, Devs
  <2>2. /\ e.w[s].ended = d.w[s].ended
        /\ e.w[s].canWrite = d.w[s].canWrite
    BY <1>4, <2>1 DEF Context
  <2>3. ASSUME d.p[s] = "writing"
        PROVE  /\ e.p[s] = "reading" /\ Read(e, s) = e.r[s] /\ Read(d, s) = d.w[s]
               /\ e.r[s].canWrite = FALSE /\ e.r[s].log = d.w[s].log
               /\ e.r[s].rpos = d.w[s].rpos /\ e.r[s].ended = d.w[s].ended
               /\ e.r[s].size = d.w[s].wpos
    BY <1>4, <2>1, <2>3 DEF Read, Context
  <2>4. ASSUME d.p[s] # "writing"
        PROVE  /\ e.p[s] = d.p[s] /\ Read(e, s) = Read(d, s)
    BY <1>4, <2>4 DEF Read
  <2>5. Read(d, s).log \in LogIDs /\ Read(d, s).log \in Nat
    BY <2>1, Constants DEF Context, Read
  <2>6. World'.size[s][Read(d, s).log] = World.size[s][Read(d, s).log]
    BY <1>6, <2>5
  <2>7. Fits(World, d, s)
    OBVIOUS
  <2>8. d.p[s] # "null" => Read(d, s).log < World.count
    BY <2>7 DEF Fits
  <2>9. Fits(World', e, s)
    <3>1. ~e.w[s].ended
      BY <2>2, <2>7 DEF Fits
    <3>2. CASE d.p[s] = "writing"
      <4>1. Limit(d.w[s]) = d.w[s].wpos /\ Limit(e.r[s]) = e.r[s].size
        BY <2>3, <2>7, <3>2 DEF Fits, Limit
      <4>2. Limit(d.w[s]) = World.size[s][d.w[s].log]
        BY <2>3, <2>7, <3>2 DEF Fits
      <4>3. d.w[s].log < World'.count /\ d.w[s].log < World'.closed
        BY <1>6, <2>3, <2>8, <3>2
      <4>4. LET c == Read(e, s)
            IN  /\ c.canWrite = FALSE /\ c.log < World'.count
                /\ c.log < World'.closed /\ Limit(c) = World'.size[s][c.log]
        BY <2>3, <2>6, <3>2, <4>1, <4>2, <4>3
      <4> QED
        BY <2>3, <3>1, <3>2, <4>4 DEF Fits
    <3>3. CASE d.p[s] # "writing" /\ d.p[s] # "null"
      <4> DEFINE c == Read(d, s)
      <4>1. /\ c.canWrite = FALSE /\ c.canWrite = ~(c.log < World.closed)
            /\ c.log < World.count /\ Limit(c) = World.size[s][c.log]
        BY <2>7, <3>3 DEF Fits
      <4>2. c.log < World'.count /\ c.log < World'.closed
        BY <1>6, <2>8, <3>3
      <4>3. Limit(c) = World'.size[s][c.log]
        BY <2>6, <4>1
      <4> HIDE DEF c
      <4> QED
        BY <2>4, <3>1, <3>3, <4>1, <4>2, <4>3 DEF Fits, c
    <3>4. CASE d.p[s] = "null"
      BY <2>4, <3>1, <3>4 DEF Fits
    <3> QED
      BY <3>2, <3>3, <3>4
  <2>10. Foreseen(World', d, s, view[s])
    <3>1. logCount <= logCount' /\ Closed <= Closed'
      BY <1>2
    <3>2. \A t \in Sensors, l \in LogIDs :
             /\ SamplesOf(t, l)' = SamplesOf(t, l)
             /\ SamplesOf(t, l) <= SamplesOf(t, l)'
      <4>1. \A t \in Sensors, l \in LogIDs : SamplesOf(t, l) \in Int
        BY SamplesType
      <4> QED
        BY <4>1, SamplesStop
    <3>3. d.q \in Seq(PacketSet)
      BY DEF DevOK, Devs
    <3> QED
      BY <3>1, <3>2, <3>3, KeptForeseen
  <2>11. Foreseen(World', e, s, view[s])
    <3>1. e.p[s] # "null" => /\ d.p[s] # "null"
                             /\ Read(e, s).log = Read(d, s).log
                             /\ Read(e, s).rpos = Read(d, s).rpos
                             /\ Read(e, s).ended = Read(d, s).ended
      BY <2>3, <2>4
    <3> QED
      BY <1>4, <2>10, <3>1, SameForeseen
  <2> QED
    BY <2>9, <2>11
<1> QED
  BY <1>5, <1>7 DEF Sees

LEMMA StopSees ==
    ASSUME TypeInv, TypeInv', session # "notify", Sees, Stop
    PROVE  Sees'
<1> DEFINE d == Status(Readers, 1)
<1>1. /\ session = "log" /\ StopAfter(d)
      /\ logCount' = logCount /\ ops' = ops /\ view' = view
  BY DEF Stop, client, Working, TypeInv, StorageFits
<1>2. DevOK(Readers)
  BY DEF TypeInv
<1>3. /\ DevOK(d) /\ d.w = writing
  BY <1>2, StatusFields, ReadersFields
<1>4. \A s \in Sensors : Fits(World, d, s) /\ Foreseen(World, d, s, view[s])
  BY <1>2, StatusForeseen DEF Sees
<1>5. SameWriters(d)
  BY <1>3 DEF SameWriters
<1> HIDE DEF d
<1> QED
  BY <1>1, <1>3, <1>4, <1>5, StopAfterSees

\* A client that reads nothing and has asked for nothing sees nothing.
LEMMA IdleForeseen ==
    ASSUME NEW W, NEW d, d.q \in Seq(PacketSet), Replies(d.q) = {},
           NEW s \in Sensors
    PROVE  Foreseen(W, d, s, Idle)
<1>1. Idle \in SoundViews /\ ~Idle.reading
  BY Constants DEF Idle, SoundViews
<1>2. \A i \in 1 .. Len(d.q) : d.q[i] # Reply
  BY LenProperties DEF Replies
<1>3. Follows(W, s, Idle, d.q, Idle)
  BY <1>1, <1>2, FollowsOthers
<1> QED
  BY <1>1, <1>3 DEF Foreseen, Meets

LEMMA FormatSees ==
    ASSUME TypeInv, TypeInv', Sees, Format
    PROVE  Sees'
<1> DEFINE d == [Readers EXCEPT !.p = [s \in Sensors |-> "null"]]
<1>1. /\ ~asked /\ Become(Status(d, 4))
      /\ view' = [s \in Sensors |-> Idle]
  BY DEF Format
<1>2. DevOK(Readers) /\ Readers \in Devs /\ Replies(tx) = {}
  BY <1>1 DEF TypeInv, DevOK, RequestsFit
<1>3. /\ DevOK(d) /\ d.q = tx /\ d.w = writing /\ d.p = [s \in Sensors |-> "null"]
  BY <1>2, ReadersFields DEF DevOK, Devs, Pointers
<1> HIDE DEF d
<1>4. ASSUME NEW s \in Sensors
      PROVE  Fits(World', d, s) /\ Foreseen(World', d, s, Idle)
  <2>1. d.q \in Seq(PacketSet)
    BY <1>3 DEF DevOK, Devs
  <2>2. ~d.w[s].ended
    BY <1>3, ReadersFields DEF Sees, Fits
  <2>3. Fits(World', d, s)
    BY <1>3, <2>2 DEF Fits
  <2> QED
    BY <1>2, <1>3, <2>1, <2>3, IdleForeseen
<1>5. Readers' = Status(d, 4)
  BY <1>1, <1>3, StatusFields, BecomeReaders DEF DevOK
<1>6. \A s \in Sensors : /\ Fits(World', Status(d, 4), s)
                         /\ Foreseen(World', Status(d, 4), s, Idle)
  BY <1>3, <1>4, StatusForeseen
<1> QED
  BY <1>1, <1>5, <1>6 DEF Sees

LEMMA WriteSees ==
    ASSUME TypeInv, TypeInv', session # "notify", Sees,
           NEW t \in Sensors, Write(t)
    PROVE  Sees'
<1>1. /\ session = "log" /\ logCount' = logCount /\ ops' = ops /\ view' = view
      /\ Recording /\ DevOK(Readers) /\ Readers \in Devs
      /\ writing \in [Sensors -> Context]
  BY ReadersFields DEF Write, client, Recording, TypeInv, DevOK, Devs
<1>2. CASE RoomFor(writing[t])
  <2> DEFINE c == [writing[t] EXCEPT !.wpos = @ + 1]
             d == [Readers EXCEPT !.w[t].wpos = @ + 1]
  <2>1. /\ Become(NotifyLogData(d))
        /\ UNCHANGED <<header, session, diskFull>>
    BY <1>2 DEF Write
  <2>2. /\ writing[t] \in Context /\ writing[t].wpos < writing[t].size
        /\ writing[t].size \in 0 .. Capacity /\ writing[t].wpos \in 0 .. Capacity
    BY <1>1, <1>2 DEF RoomFor, Context
  <2>3. writing[t].wpos + 1 \in 0 .. Capacity
    BY <2>2, Constants
  <2>4. /\ c \in Context /\ c.log = writing[t].log /\ c.ended = writing[t].ended
        /\ c.canWrite = writing[t].canWrite /\ c.wpos = writing[t].wpos + 1
        /\ c.rpos = writing[t].rpos
    BY <2>2, <2>3 DEF Context
  <2>5. d = [Readers EXCEPT !.w = [writing EXCEPT ![t] = c]]
    BY <1>1, ReadersFields DEF Devs
  <2> HIDE DEF c, d
  <2>6. [writing EXCEPT ![t] = c] \in [Sensors -> Context]
    BY <1>1, <2>4
  <2>7. /\ DevOK(d) /\ d.q = tx /\ d.p = pointer /\ d.r = reading
        /\ d.w = [writing EXCEPT ![t] = c]
    BY <1>1, <2>5, <2>6, ReadersFields DEF DevOK, Devs
  <2>8. \A s \in Sensors :
           writing'[s].wpos = IF s = t THEN writing[s].wpos + 1
                              ELSE writing[s].wpos
    <3>1. \A s \in Sensors : writing'[s].wpos = d.w[s].wpos
      BY <2>1, <2>7, BecomeNotified
    <3> QED
      BY <1>1, <2>4, <2>7, <3>1
  <2>9. \A s \in Sensors, l \in LogIDs :
           SamplesOf(s, l)' = IF s = t /\ l = logCount - 1
                              THEN SamplesOf(s, l) + 1 ELSE SamplesOf(s, l)
    BY <1>1, <2>1, <2>8, SamplesWrite
  <2>10. /\ Closed' = Closed /\ Closed = logCount - 1 /\ logCount \in Nat
    BY <1>1, <2>1 DEF Closed, Recording, TypeInv, StorageFits
  <2>11. /\ World'.count = World.count /\ World'.closed = World.closed
         /\ World.closed = World.count - 1 /\ World.count \in Nat
         /\ \A s \in Sensors, l \in LogIDs :
               World'.size[s][l] = IF s = t /\ l = World.closed
                                   THEN World.size[s][l] + 1
                                   ELSE World.size[s][l]
    BY <1>1, <2>9, <2>10, WorldFacts, WorldFactsNext DEF WorldOK
  <2>12. ASSUME NEW s \in Sensors
         PROVE  Fits(World', d, s) /\ Foreseen(World', d, s, view[s])
    <3>1. Fits(World, Readers, s) /\ Foreseen(World, Readers, s, view[s])
      BY DEF Sees
    <3>2. /\ d.w[s] = IF s = t THEN c ELSE writing[s]
          /\ Read(d, s) = IF s = t /\ pointer[s] = "writing" THEN c
                          ELSE Read(Readers, s)
      BY <1>1, <2>7, ReadersFields DEF Read
    <3>3. /\ Read(Readers, s) \in Context /\ Read(Readers, s).log \in LogIDs
          /\ Read(Readers, s).log \in Nat
          /\ pointer[s] = "writing" => Read(Readers, s) = writing[s]
      BY ContextOf, Constants
    <3>4. ~d.w[s].ended
      BY <2>4, <3>1, <3>2, ReadersFields DEF Fits
    <3>5. ASSUME pointer[s] # "null"
          PROVE  LET k == Read(Readers, s)
                 IN  /\ k.canWrite = (pointer[s] = "writing")
                     /\ k.canWrite = ~(k.log < World.closed)
                     /\ k.log < World.count /\ Limit(k) = World.size[s][k.log]
      BY <3>1, <3>5, ReadersFields DEF Fits
    <3>6. Fits(World', d, s)
      <4>1. CASE pointer[s] = "writing" /\ s = t
        <5> DEFINE k == writing[t]
        <5>1. /\ k.canWrite /\ ~(k.log < World.closed) /\ k.log < World.count
              /\ k.log \in Nat /\ k.log \in LogIDs
              /\ Limit(k) = World.size[t][k.log]
          BY <3>3, <3>5, <4>1
        <5>2. k.log = World.closed
          <6> HIDE DEF k
          <6> QED
            BY <2>11, <5>1
        <5>3. World'.size[t][k.log] = World.size[t][k.log] + 1
          BY <2>11, <5>1, <5>2
        <5>4. Limit(c) = c.wpos /\ Limit(k) = k.wpos
          BY <2>4, <5>1 DEF Limit
        <5>5. c.canWrite = TRUE /\ c.log = k.log
          BY <2>4, <3>3, <4>1, <5>1 DEF Context
        <5>6. d.p[s] = "writing"
          BY <2>7, <4>1
        <5>7. ~(c.log < World'.closed) /\ c.log < World'.count
          BY <2>11, <5>1, <5>5
        <5>8. Limit(c) = World'.size[s][c.log]
          BY <2>4, <4>1, <5>1, <5>3, <5>4, <5>5
        <5> HIDE DEF k
        <5>9. Read(d, s) = c
          BY <3>2, <4>1
        <5> QED
          BY <3>4, <5>5, <5>6, <5>7, <5>8, <5>9 DEF Fits
      <4>2. CASE pointer[s] # "null" /\ ~(pointer[s] = "writing" /\ s = t)
        <5> DEFINE k == Read(Readers, s)
        <5>1. /\ k.canWrite = (pointer[s] = "writing")
              /\ k.canWrite = ~(k.log < World.closed)
              /\ k.log < World.count /\ Limit(k) = World.size[s][k.log]
              /\ k.log \in LogIDs /\ k.log \in Nat
          BY <3>3, <3>5, <4>2
        <5> HIDE DEF k
        <5>2. ~(s = t /\ k.log = World.closed)
          <6>1. SUFFICES ASSUME s = t, k.log = World.closed PROVE FALSE
            OBVIOUS
          <6>2. ~(k.log < World.closed)
            BY <2>11, <5>1, <6>1
          <6> QED
            BY <4>2, <5>1, <6>1, <6>2
        <5>3. World'.size[s][k.log] = World.size[s][k.log]
          BY <2>11, <5>1, <5>2
        <5> QED
          BY <2>7, <2>11, <3>2, <3>4, <4>2, <5>1, <5>3 DEF Fits, k
      <4>3. CASE pointer[s] = "null"
        BY <2>7, <3>4, <4>3 DEF Fits
      <4> QED
        BY <4>1, <4>2, <4>3
    <3>7. Foreseen(World', Readers, s, view[s])
      <4>1. logCount <= logCount' /\ Closed <= Closed'
        BY <1>1, <2>10
      <4>2. ASSUME NEW u \in Sensors, NEW l \in LogIDs, l < logCount
            PROVE  /\ SamplesOf(u, l) <= SamplesOf(u, l)'
                   /\ l < Closed => SamplesOf(u, l)' = SamplesOf(u, l)
        <5>1. SamplesOf(u, l) \in Int /\ l \in Int
          BY SamplesType, Constants
        <5> QED
          BY <2>9, <2>10, <5>1
      <4>3. Readers.q \in Seq(PacketSet)
        BY <1>1 DEF Devs
      <4> QED
        BY <1>1, <3>1, <4>1, <4>2, <4>3, KeptForeseen
    <3>8. Foreseen(World', d, s, view[s])
      <4>1. /\ Read(d, s).log = Read(Readers, s).log
            /\ Read(d, s).rpos = Read(Readers, s).rpos
            /\ Read(d, s).ended = Read(Readers, s).ended
        BY <2>4, <3>2, <3>3
      <4> QED
        BY <2>7, <3>7, <4>1, ReadersFields, SameForeseen
    <3> QED
      BY <3>6, <3>8
  <2> QED
    BY <1>1, <2>1, <2>7, <2>12, NotifiedSees
<1>3. CASE ~RoomFor(writing[t])
  <2> DEFINE d == NotifyLogData(Readers)
             e == Status(d, 2)
  <2>1. StopAfter(e)
    BY <1>3 DEF Write
  <2>2. /\ DevOK(d)
        /\ \A s \in Sensors :
              /\ d.w[s].log = writing[s].log /\ d.w[s].size = writing[s].size
              /\ d.w[s].canWrite = writing[s].canWrite
              /\ d.w[s].wpos = writing[s].wpos
    BY <1>1, NotifyType, ReadersFields
  <2>3. \A s \in Sensors : Fits(World, d, s) /\ Foreseen(World, d, s, view[s])
    BY <1>1, NotifyForeseen DEF Sees
  <2> HIDE DEF d
  <2>4. DevOK(e) /\ e.w = d.w
    BY <2>2, StatusFields
  <2>5. \A s \in Sensors : Fits(World, e, s) /\ Foreseen(World, e, s, view[s])
    BY <2>2, <2>3, StatusForeseen
  <2> HIDE DEF e
  <2>6. SameWriters(e)
    BY <2>2, <2>4 DEF SameWriters
  <2> QED
    BY <1>1, <2>1, <2>4, <2>5, <2>6, StopAfterSees
<1> QED
  BY <1>2, <1>3

\* The storage is as it was.
LEMMA KeptWorld ==
    ASSUME TypeInv, TypeInv', UNCHANGED storage,
           \A s \in Sensors : writing'[s].wpos = writing[s].wpos
    PROVE  /\ World'.count = World.count /\ World'.closed = World.closed
           /\ World'.size = World.size /\ World'.request = Head(ops')
           /\ World.request = Head(ops)
<1>1. UNCHANGED <<header, logCount, session>> /\ Closed' = Closed
  BY DEF storage, Closed, Recording
<1>2. \A t \in Sensors, l \in LogIDs : SamplesOf(t, l)' = SamplesOf(t, l)
  BY SamplesSame
<1>3. /\ World'.count = logCount' /\ World'.closed = Closed'
      /\ World'.size = [s \in Sensors |-> [l \in LogIDs |-> SamplesOf(s, l)']]
      /\ World'.request = Head(ops')
  BY DEF World
<1>4. /\ World.count = logCount /\ World.closed = Closed
      /\ World.size = [s \in Sensors |-> [l \in LogIDs |-> SamplesOf(s, l)]]
      /\ World.request = Head(ops)
  BY DEF World
<1> QED
  BY <1>1, <1>2, <1>3, <1>4

LEMMA KeptWorldFits ==
    ASSUME TypeInv, TypeInv', UNCHANGED storage,
           \A s \in Sensors : writing'[s].wpos = writing[s].wpos,
           NEW d, NEW s \in Sensors, Fits(World, d, s)
    PROVE  Fits(World', d, s)
  BY KeptWorld DEF Fits

LEMMA KeptWorldForeseen ==
    ASSUME TypeInv, TypeInv', UNCHANGED storage,
           \A s \in Sensors : writing'[s].wpos = writing[s].wpos,
           NEW d, d.q \in Seq(PacketSet), ops' = ops \/ Replies(d.q) = {},
           NEW s \in Sensors, NEW v, Foreseen(World, d, s, v)
    PROVE  Foreseen(World', d, s, v)
<1>1. UNCHANGED <<header, logCount, session>> /\ Closed' = Closed
  BY DEF storage, Closed, Recording
<1>2. logCount \in Int /\ Closed \in Int
  BY WorldFacts DEF WorldOK
<1>3. \A t \in Sensors, l \in LogIDs : SamplesOf(t, l)' = SamplesOf(t, l)
  BY SamplesSame
<1>4. \A t \in Sensors, l \in LogIDs : SamplesOf(t, l) \in Int
  BY SamplesType
<1>5. logCount <= logCount' /\ Closed <= Closed'
  BY <1>1, <1>2
<1>6. \A t \in Sensors, l \in LogIDs :
         l < logCount => /\ SamplesOf(t, l) <= SamplesOf(t, l)'
                         /\ l < Closed => SamplesOf(t, l)' = SamplesOf(t, l)
  BY <1>3, <1>4
<1> QED
  BY <1>5, <1>6, KeptForeseen

\* Two devices that differ only in the flags of their services.
LEMMA SameDevice ==
    ASSUME NEW W, NEW d, NEW e, NEW s \in Sensors, NEW v,
           e.w = d.w, e.r = d.r, e.p = d.p, e.q = d.q,
           Fits(W, d, s), Foreseen(W, d, s, v)
    PROVE  Fits(W, e, s) /\ Foreseen(W, e, s, v)
<1>1. Read(e, s) = Read(d, s)
  BY DEF Read
<1> QED
  BY <1>1 DEF Fits, Foreseen, Meets

\* Nothing happens that readers or clients see.
LEMMA UnchangedSees ==
    ASSUME TypeInv, TypeInv', Sees,
           UNCHANGED <<storage, writing, reading, pointer, tx, ops, view>>
    PROVE  Sees'
<1>1. \A s \in Sensors : /\ Fits(World', Readers, s)
                         /\ Foreseen(World', Readers, s, view[s])
  BY SameWorldSees
<1>2. /\ Readers'.w = Readers.w /\ Readers'.r = Readers.r
      /\ Readers'.p = Readers.p /\ Readers'.q = Readers.q
  BY ReadersFields
<1> HIDE DEF Readers
<1>3. \A s \in Sensors : /\ Fits(World', Readers', s)
                         /\ Foreseen(World', Readers', s, view[s])
  BY <1>1, <1>2, SameDevice
<1> QED
  BY <1>3 DEF Sees

LEMMA FailSees ==
    ASSUME TypeInv, TypeInv', Sees, Fail
    PROVE  Sees'
<1>1. UNCHANGED <<storage, writing, reading, pointer, tx, ops, view>>
  BY DEF Fail, readers, client
<1> QED
  BY <1>1, UnchangedSees

LEMMA OnWriteSees ==
    ASSUME TypeInv, TypeInv', Sees, OnWrite
    PROVE  Sees'
<1> DEFINE e == Head(events)
           f == [notifying EXCEPT ![e.sensor] = (e.op = "on")]
           d == [Readers EXCEPT !.on = f]
<1>1. CASE ~linked
  BY <1>1, FailSees DEF OnWrite
<1>2. CASE linked
  <2>1. /\ Become(NotifyLogData([Readers EXCEPT !.on[e.sensor] = (e.op = "on")]))
        /\ UNCHANGED <<storage, client>>
    BY <1>2 DEF OnWrite
  <2>2. [Readers EXCEPT !.on[e.sensor] = (e.op = "on")] = d
    BY ReadersFields
  <2>3. DevOK(Readers) /\ Readers \in Devs
    BY DEF TypeInv, DevOK
  <2>4. f \in [Sensors -> BOOLEAN]
    <3>1. notifying \in [Sensors -> BOOLEAN] /\ (e.op = "on") \in BOOLEAN
      BY <2>3, ReadersFields DEF Devs
    <3> HIDE DEF e
    <3> QED
      BY <3>1
  <2> HIDE DEF e, f
  <2>5. /\ DevOK(d) /\ d.w = Readers.w /\ d.r = Readers.r /\ d.p = Readers.p
        /\ d.q = Readers.q
    BY <2>3, <2>4 DEF DevOK, Devs
  <2>6. Become(NotifyLogData(d))
    BY <2>1, <2>2
  <2> HIDE DEF d
  <2>7. \A s \in Sensors : writing'[s].wpos = writing[s].wpos
    BY <2>5, <2>6, BecomeNotified, ReadersFields
  <2>8. ops' = ops /\ view' = view
    BY <2>1 DEF client
  <2>9. \A s \in Sensors : /\ Fits(World', Readers, s)
                           /\ Foreseen(World', Readers, s, view[s])
    BY <2>1, <2>7, <2>8, SameWorldSees
  <2>10. \A s \in Sensors : Fits(World', d, s) /\ Foreseen(World', d, s, view[s])
    BY <2>5, <2>9, SameDevice
  <2> QED
    BY <2>5, <2>6, <2>8, <2>10, NotifiedSees
<1>3. linked \in BOOLEAN
  BY DEF TypeInv, RequestsFit
<1> QED
  BY <1>1, <1>2, <1>3

LEMMA OnTxCompleteSees ==
    ASSUME TypeInv, TypeInv', Sees, OnTxComplete
    PROVE  Sees'
<1>1. Become(NotifyLogData(Readers)) /\ UNCHANGED <<storage, client>>
  BY DEF OnTxComplete
<1>2. DevOK(Readers)
  BY DEF TypeInv
<1>3. \A s \in Sensors : writing'[s].wpos = writing[s].wpos
  BY <1>1, <1>2, BecomeNotified, ReadersFields
<1>4. ops' = ops /\ view' = view
  BY <1>1 DEF client
<1>5. \A s \in Sensors : /\ Fits(World', Readers, s)
                         /\ Foreseen(World', Readers, s, view[s])
  BY <1>1, <1>3, <1>4, SameWorldSees
<1> QED
  BY <1>1, <1>2, <1>4, <1>5, NotifiedSees

LEMMA OnDisconnectedSees ==
    ASSUME TypeInv, TypeInv', Sees, OnDisconnected
    PROVE  Sees'
<1> DEFINE f == [s \in Sensors |-> FALSE]
           d == [Readers EXCEPT !.on = f]
<1>1. Become(d) /\ UNCHANGED <<storage, client>>
  BY DEF OnDisconnected
<1>2. Readers \in Devs
  BY DEF TypeInv, DevOK
<1>3. /\ d.w = writing /\ d.r = reading /\ d.p = pointer /\ d.q = tx
  BY <1>2, ReadersFields DEF Devs
<1> HIDE DEF d
<1>4. UNCHANGED <<storage, writing, reading, pointer, tx, ops, view>>
  BY <1>1, <1>3 DEF Become, client
<1> QED
  BY <1>4, UnchangedSees

\* Sensor s reads log l, if that exists, and is at sample p of it.
PlacedAt(d, s, l, p) ==
    /\ Fits(World, d, s)
    /\ d.p[s] # "null" => /\ Read(d, s).log = l /\ Read(d, s).rpos = p
                          /\ Read(d, s).ended = FALSE

\* A request for a log is answered: from the answer on, its client is where
\* the context is that the firmware reads from.
LEMMA AnsweredFits ==
    ASSUME TypeInv, session # "notify", Sees, NEW t \in Sensors,
           NEW l \in LogIDs, NEW p \in Nat
    PROVE  PlacedAt(WriteLogID(Readers, t, l, p), t, l, p)
<1> DEFINE d == WriteLogID(Readers, t, l, p)
           own == Working /\ writing[t].log = l
<1> SUFFICES /\ Fits(World, d, t)
             /\ d.p[t] # "null" => /\ Read(d, t).log = l /\ Read(d, t).rpos = p
                                   /\ Read(d, t).ended = FALSE
  BY DEF PlacedAt
<1>1. /\ DevOK(d)
      /\ l >= logCount => d.p[t] = "null" /\ d.w = writing
      /\ l < logCount /\ own => /\ d.p[t] = "writing"
                                /\ d.w[t] = [writing[t] EXCEPT !.rpos = p]
      /\ l < logCount /\ ~own =>
            /\ d.p[t] = "reading" /\ d.w = writing
            /\ d.r[t].log = l /\ d.r[t].size = LogSize(t, l)
            /\ ~d.r[t].canWrite /\ ~d.r[t].ended /\ d.r[t].rpos = p
  BY WriteLogIDFields DEF TypeInv
<1>2. /\ writing[t] \in Context /\ ~writing[t].ended
      /\ l \in Nat /\ logCount \in Nat
  BY ContextOf, ReadersFields, Constants DEF Sees, Fits, TypeInv, StorageFits
<1>3. /\ World.count = logCount /\ World.closed = Closed
      /\ World.size[t][l] = SamplesOf(t, l)
  BY WorldFacts DEF WorldOK
<1> HIDE DEF d
<1>4. CASE l >= logCount
  BY <1>1, <1>2, <1>4 DEF Fits
<1>5. CASE l < logCount /\ own
  <2> DEFINE c == [writing[t] EXCEPT !.rpos = p]
  <2>1. Recording
    BY <1>5 DEF Working, Recording, TypeInv, StorageFits
  <2>2. l = logCount - 1 /\ writing[t].canWrite
    BY <1>5, <2>1 DEF TypeInv, StorageFits, WritersFit
  <2>3. /\ c.log = l /\ c.rpos = p /\ c.ended = FALSE /\ c.canWrite = TRUE
        /\ c.wpos = writing[t].wpos
    BY <1>2, <1>5, <2>2 DEF Context
  <2>4. d.p[t] = "writing" /\ d.w[t] = c
    BY <1>1, <1>5
  <2> HIDE DEF c
  <2>5. Read(d, t) = c
    BY <2>4 DEF Read
  <2>6. SamplesOf(t, l) = writing[t].wpos
    BY <1>2, <2>1, <2>2, SamplesCases
  <2>7. Limit(c) = World.size[t][l]
    BY <1>3, <2>3, <2>6 DEF Limit
  <2>8. ~(l < World.closed) /\ l < World.count
    BY <1>2, <1>3, <1>5, <2>1, <2>2 DEF Closed
  <2>9. Fits(World, d, t)
    BY <2>3, <2>4, <2>5, <2>7, <2>8 DEF Fits
  <2> QED
    BY <2>3, <2>5, <2>9
<1>6. CASE l < logCount /\ ~own
  <2> DEFINE c == d.r[t]
  <2>1. /\ d.p[t] = "reading" /\ d.w = writing
        /\ c.log = l /\ c.size = LogSize(t, l)
        /\ ~c.canWrite /\ ~c.ended /\ c.rpos = p
    BY <1>1, <1>6
  <2>2. c \in Context
    BY <1>1 DEF DevOK, Devs
  <2>3. Read(d, t) = c
    BY <2>1 DEF Read
  <2> HIDE DEF c
  <2>4. c.canWrite = FALSE /\ c.ended = FALSE
    BY <2>1, <2>2 DEF Context
  <2>5. ~(Recording /\ l = logCount - 1)
    BY <1>6 DEF Recording, Working, TypeInv, StorageFits, WritersFit
  <2>6. SamplesOf(t, l) = LogSize(t, l)
    BY <1>2, <1>6, <2>5, SamplesCases
  <2>7. Limit(c) = World.size[t][l]
    BY <1>3, <2>1, <2>4, <2>6 DEF Limit
  <2>8. l < World.closed /\ l < World.count
    BY <1>2, <1>3, <1>6, <2>5 DEF Closed
  <2>9. ~d.w[t].ended
    BY <1>2, <2>1
  <2>10. Fits(World, d, t)
    BY <2>1, <2>3, <2>4, <2>7, <2>8, <2>9 DEF Fits
  <2> QED
    BY <2>1, <2>3, <2>4, <2>10
<1>7. l >= logCount \/ l < logCount
  BY <1>2
<1> QED
  BY <1>4, <1>5, <1>6, <1>7, Zenon

LEMMA AnsweredView ==
    ASSUME NEW e \in Requests, e.op = "logID"
    PROVE  Answered(e) \in SoundViews
  BY RequestFields DEF Answered, SoundViews

\* An answer is appended to what is buffered.
LEMMA ReplyForeseen ==
    ASSUME NEW W, NEW s \in Sensors, NEW v, NEW q \in Seq(PacketSet), NEW u,
           Follows(W, s, v, q, u), NEW a \in SoundViews,
           a = IF W.request.op = "logID" /\ W.request.sensor = s
               THEN Answered(W.request) ELSE u
    PROVE  Follows(W, s, v, Append(q, Reply), a)
<1>1. Taken(W, s, u, Reply) = a /\ Good(W, s, u, Reply) /\ Reply \in PacketSet
  BY DEF Taken, Good, PacketSet
<1> QED
  BY <1>1, FollowsAppend

LEMMA OnRWAuthReqSees ==
    ASSUME TypeInv, TypeInv', session # "notify", Sees, OnRWAuthReq
    PROVE  Sees'
<1> DEFINE e == Head(events)
           t == e.sensor
           w == WriteLogID(Readers, t, e.log, e.from)
           d == [w EXCEPT !.q = Append(@, Reply)]
<1>1. events # <<>> /\ e.op = "logID" /\ RequestsFit
  BY DEF TypeInv, OnRWAuthReq, Handle
<1>2. /\ events \in Seq(Events) /\ e \in Events
      /\ 1 \in Asks(events) /\ e = events[1]
  <2>1. events \in Seq(Events)
    BY <1>1 DEF RequestsFit
  <2> QED
    BY <1>1, <2>1, AsksAfterTail
<1>3. /\ e \in Requests /\ t \in Sensors /\ e.log \in LogIDs /\ e.from \in Nat
  BY <1>1, <1>2, EventFields, RequestFields
<1>4. CASE ~linked
  BY <1>4, FailSees DEF OnRWAuthReq
<1>5. CASE linked
  <2>1. Become(NotifyLogData(d)) /\ UNCHANGED <<storage, client>>
    BY <1>5 DEF OnRWAuthReq
  <2>2. e = Head(ops) /\ ops' = ops /\ view' = view
    BY <1>1, <1>2, <1>5, <2>1 DEF RequestsFit, client
  <2>3. /\ DevOK(w) /\ w.q = tx /\ SameWriters(w)
        /\ \A s \in Sensors \ {t} : /\ w.w[s] = writing[s] /\ w.r[s] = reading[s]
                                    /\ w.p[s] = pointer[s]
    <3> HIDE DEF e
    <3> QED
      BY <1>3, WriteLogIDFields DEF TypeInv
  <2>4. /\ Fits(World, w, t)
        /\ w.p[t] # "null" => /\ Read(w, t).log = e.log
                              /\ Read(w, t).rpos = e.from
                              /\ Read(w, t).ended = FALSE
    <3> HIDE DEF e
    <3>1. PlacedAt(w, t, e.log, e.from)
      BY <1>3, AnsweredFits
    <3> QED
      BY <3>1 DEF PlacedAt
  <2> HIDE DEF e, w
  <2>5. /\ DevOK(d) /\ d.w = w.w /\ d.r = w.r /\ d.p = w.p
        /\ d.q = Append(tx, Reply)
    BY <2>3, ReplyFields
  <2> HIDE DEF d
  <2>6. \A s \in Sensors : writing'[s].wpos = writing[s].wpos
    BY <2>1, <2>3, <2>5, BecomeNotified DEF SameWriters
  <2>7. /\ World'.count = World.count /\ World'.closed = World.closed
        /\ World'.size = World.size /\ World'.request = e
    BY <2>1, <2>2, <2>6, KeptWorld
  <2>8. tx \in Seq(PacketSet)
    BY ReadersFields DEF TypeInv, DevOK, Devs
  <2>9. ASSUME NEW s \in Sensors
        PROVE  Fits(World', d, s) /\ Foreseen(World', d, s, view[s])
    <3>1. /\ Fits(World', Readers, s)
          /\ Foreseen(World', Readers, s, view[s])
      BY <2>1, <2>2, <2>6, SameWorldSees
    <3>2. PICK u \in SoundViews :
             Follows(World', s, view[s], tx, u) /\ Meets(Readers, s, u)
      BY <3>1, ReadersFields DEF Foreseen
    <3>3. Read(d, s) = Read(w, s)
      BY <2>5 DEF Read
    <3>4. CASE s = t
      <4>1. Fits(World', d, s)
        BY <2>4, <2>5, <2>7, <3>3, <3>4 DEF Fits
      <4> DEFINE a == Answered(e)
      <4>2. a \in SoundViews
        BY <1>1, <1>3, AnsweredView DEF e
      <4>3. Follows(World', s, view[s], d.q, a)
        <5>1. a = IF World'.request.op = "logID" /\ World'.request.sensor = s
                  THEN Answered(World'.request) ELSE u
          BY <1>1, <2>7, <3>4
        <5> HIDE DEF a
        <5> QED
          BY <2>5, <2>8, <3>2, <4>2, <5>1, ReplyForeseen
      <4>4. Meets(d, s, a)
        BY <2>4, <2>5, <3>3, <3>4 DEF Meets, Answered
      <4> HIDE DEF a
      <4> QED
        BY <4>1, <4>2, <4>3, <4>4 DEF Foreseen
    <3>5. CASE s # t
      <4>1. /\ d.w[s] = Readers.w[s] /\ d.p[s] = Readers.p[s]
            /\ Read(d, s) = Read(Readers, s)
        BY <2>3, <2>5, <3>5, ReadersFields DEF Read
      <4>2. Fits(World', d, s)
        BY <3>1, <4>1 DEF Fits
      <4>3. Meets(d, s, u)
        BY <3>2, <4>1 DEF Meets
      <4>4. Follows(World', s, view[s], d.q, u)
        <5>1. u = IF World'.request.op = "logID" /\ World'.request.sensor = s
                  THEN Answered(World'.request) ELSE u
          BY <2>7, <3>5
        <5> QED
          BY <2>5, <2>8, <3>2, <5>1, ReplyForeseen
      <4> QED
        BY <4>2, <4>3, <4>4 DEF Foreseen
    <3> QED
      BY <3>4, <3>5
  <2> QED
    BY <2>1, <2>2, <2>5, <2>9, NotifiedSees
<1>6. linked \in BOOLEAN
  BY DEF TypeInv, RequestsFit
<1> QED
  BY <1>4, <1>5, <1>6

LEMMA StartToReadLogSees ==
    ASSUME TypeInv, TypeInv', Sees, NEW t \in Sensors, NEW l \in LogIDs,
           NEW p \in Starts, StartToReadLog(t, l, p)
    PROVE  Sees'
<1>1. /\ linked /\ ops = <<>> /\ view' = [view EXCEPT ![t] = Idle]
      /\ UNCHANGED <<storage, readers, tx>>
      /\ view \in [Sensors -> Views]
  BY DEF StartToReadLog, TypeInv, ClientFits
<1>2. Replies(tx) = {} /\ tx \in Seq(PacketSet)
  BY <1>1, ReadersFields DEF TypeInv, RequestsFit, DevOK, Devs
<1>3. Readers' = Readers /\ writing' = writing /\ Readers.q = tx
  BY <1>1, ReadersFields DEF Readers, readers
<1>4. ASSUME NEW s \in Sensors
      PROVE  Fits(World', Readers, s) /\ Foreseen(World', Readers, s, view'[s])
  <2>1. Fits(World, Readers, s) /\ Foreseen(World, Readers, s, view[s])
    BY DEF Sees
  <2>2. Fits(World', Readers, s)
    BY <1>1, <1>3, <2>1, KeptWorldFits
  <2>3. Foreseen(World', Readers, s, view[s])
    BY <1>1, <1>2, <1>3, <2>1, KeptWorldForeseen
  <2>4. Foreseen(World', Readers, s, Idle)
    BY <1>2, <1>3, IdleForeseen
  <2>5. view'[s] = IF s = t THEN Idle ELSE view[s]
    BY <1>1
  <2> QED
    BY <2>2, <2>3, <2>4, <2>5
<1> QED
  BY <1>3, <1>4 DEF Sees

LEMMA SendSees ==
    ASSUME TypeInv, TypeInv', Sees, Send
    PROVE  Sees'
<1> DEFINE e == Head(ops)
<1>1. UNCHANGED <<storage, readers, ops, view>>
  BY DEF Send
<1>2. UNCHANGED <<writing, reading, pointer>>
  BY <1>1 DEF readers
<1>3. CASE e.op \notin {"on", "off"}
  <2>1. tx' = tx
    BY <1>3 DEF Send
  <2> QED
    BY <1>1, <1>2, <2>1, UnchangedSees
<1>4. CASE e.op \in {"on", "off"}
  <2>1. tx' = Append(tx, Reply) /\ tx \in Seq(PacketSet)
    BY <1>4, ReadersFields DEF Send, TypeInv, DevOK, Devs
  <2>2. World'.request = e
    BY <1>1, <1>2, KeptWorld
  <2>3. ASSUME NEW s \in Sensors
        PROVE  Fits(World', Readers', s) /\ Foreseen(World', Readers', s, view'[s])
    <3>1. Fits(World', Readers, s) /\ Foreseen(World', Readers, s, view[s])
      BY <1>1, <1>2, SameWorldSees
    <3>2. PICK u \in SoundViews :
             Follows(World', s, view[s], tx, u) /\ Meets(Readers, s, u)
      BY <3>1, ReadersFields DEF Foreseen
    <3>3. /\ Readers'.w = Readers.w /\ Readers'.p = Readers.p
          /\ Readers'.q = Append(tx, Reply)
          /\ Read(Readers', s) = Read(Readers, s)
      BY <1>2, <2>1, ReadersFields DEF Read
    <3>4. Fits(World', Readers', s)
      BY <3>1, <3>3 DEF Fits
    <3>5. Meets(Readers', s, u)
      BY <3>2, <3>3 DEF Meets
    <3>6. Follows(World', s, view[s], Append(tx, Reply), u)
      <4>1. World'.request.op # "logID"
        BY <1>4, <2>2
      <4>2. u = IF World'.request.op = "logID" /\ World'.request.sensor = s
                THEN Answered(World'.request) ELSE u
        BY <4>1
      <4> QED
        BY <2>1, <3>2, <4>2, ReplyForeseen
    <3> QED
      BY <1>1, <3>3, <3>4, <3>5, <3>6 DEF Foreseen
  <2> QED
    BY <2>3 DEF Sees
<1> QED
  BY <1>3, <1>4

\* What a client makes of the packet that it is delivered.
LEMMA DeliveredView ==
    ASSUME TypeInv, Deliver, NEW s \in Sensors
    PROVE  view'[s] = Taken(World, s, view[s], Head(tx))
<1> DEFINE p == Head(tx)
           e == Head(ops)
<1>1. tx # <<>> /\ tx \in Seq(PacketSet) /\ view \in [Sensors -> Views]
  BY ReadersFields DEF Deliver, TypeInv, DevOK, Devs, ClientFits
<1>2. p \in PacketSet
  BY <1>1, FreeAfterDelivery
<1>3. World.request = e
  BY DEF World
<1>4. CASE p = Reply
  <2>1. view' = IF e.op # "logID" THEN view
                ELSE [view EXCEPT ![e.sensor] = Answered(e)]
    BY <1>4 DEF Deliver, Answered
  <2>2. Taken(World, s, view[s], p) = IF e.op = "logID" /\ e.sensor = s
                                      THEN Answered(e) ELSE view[s]
    BY <1>3, <1>4 DEF Taken
  <2> HIDE DEF p, e
  <2>3. view'[s] = IF e.op = "logID" /\ e.sensor = s THEN Answered(e) ELSE view[s]
    BY <1>1, <2>1
  <2> QED
    BY <2>2, <2>3 DEF p
<1>5. CASE p = Other
  <2>1. p # Reply /\ p.kind # "data"
    BY <1>5, PacketKinds
  <2>2. view' = view
    BY <1>5, <2>1 DEF Deliver
  <2>3. Taken(World, s, view[s], p) = view[s]
    BY <2>1 DEF Taken, OfSensor
  <2> QED
    BY <2>2, <2>3
<1>6. CASE p \in DataPackets
  <2>1. p # Reply /\ p # Other /\ p.kind = "data"
    BY <1>6, PacketKinds
  <2>2. view' = [view EXCEPT ![p.sensor] = Seen(view[p.sensor], p)]
    BY <2>1 DEF Deliver
  <2>3. Taken(World, s, view[s], p) = IF p.sensor = s THEN Seen(view[s], p)
                                      ELSE view[s]
    BY <2>1 DEF Taken, OfSensor
  <2> HIDE DEF p
  <2>4. view'[s] = IF p.sensor = s THEN Seen(view[s], p) ELSE view[s]
    BY <1>1, <2>2
  <2> QED
    BY <2>3, <2>4 DEF p
<1> QED
  BY <1>2, <1>4, <1>5, <1>6 DEF PacketSet

LEMMA DeliverSees ==
    ASSUME TypeInv, TypeInv', Sees, Deliver
    PROVE  Sees'
<1> DEFINE d == Readers'
<1>1. tx # <<>> /\ tx' = Tail(tx) /\ UNCHANGED <<storage, readers>>
  BY DEF Deliver
<1>2. UNCHANGED <<writing, reading, pointer>>
  BY <1>1 DEF readers
<1>3. tx \in Seq(PacketSet) /\ RequestsFit /\ RequestsFit'
  BY ReadersFields DEF TypeInv, DevOK, Devs
<1>4. /\ tx' \in Seq(PacketSet)
      /\ Replies(tx') = {i - 1 : i \in Replies(tx) \ {1}}
      /\ (Head(tx) = Reply) = (1 \in Replies(tx))
  BY <1>1, <1>3, FreeAfterDelivery
<1>5. ops' = ops \/ Replies(tx') = {}
  <2>1. CASE Head(tx) = Reply
    <3>1. 1 \in Replies(tx) /\ \A i \in Replies(tx) : i = 1
      BY <1>3, <1>4, <2>1 DEF RequestsFit
    <3> QED
      BY <1>4, <3>1
  <2>2. CASE Head(tx) # Reply
    BY <2>2 DEF Deliver
  <2> QED
    BY <2>1, <2>2
<1>6. ASSUME NEW s \in Sensors
      PROVE  Fits(World', d, s) /\ Foreseen(World', d, s, view'[s])
  <2>1. Fits(World, Readers, s) /\ Foreseen(World, Readers, s, view[s])
    BY DEF Sees
  <2>2. /\ d.w = Readers.w /\ d.r = Readers.r /\ d.p = Readers.p
        /\ d.q = Tail(tx) /\ Readers.q = tx
    BY <1>1, <1>2, ReadersFields
  <2> HIDE DEF d
  <2>3. Read(d, s) = Read(Readers, s)
    BY <2>2 DEF Read
  <2>4. Fits(World, d, s)
    BY <2>1, <2>2, <2>3 DEF Fits
  <2>5. PICK u \in SoundViews :
           Follows(World, s, view[s], tx, u) /\ Meets(Readers, s, u)
    BY <2>1, <2>2 DEF Foreseen
  <2>6. Follows(World, s, view'[s], Tail(tx), u)
    BY <1>1, <1>3, <2>5, FollowsTail, DeliveredView
  <2>7. Meets(d, s, u)
    BY <2>2, <2>3, <2>5 DEF Meets
  <2>8. Foreseen(World, d, s, view'[s])
    BY <2>2, <2>5, <2>6, <2>7 DEF Foreseen
  <2>9. Fits(World', d, s)
    BY <1>1, <1>2, <2>4, KeptWorldFits
  <2>10. d.q \in Seq(PacketSet) /\ (ops' = ops \/ Replies(d.q) = {})
    BY <1>1, <1>4, <1>5, <2>2
  <2>11. \A v : Foreseen(World, d, s, v) => Foreseen(World', d, s, v)
    BY <1>1, <1>2, <2>10, KeptWorldForeseen
  <2> QED
    BY <2>8, <2>9, <2>11
<1> QED
  BY <1>6 DEF Sees

LEMMA LoseLinkSees ==
    ASSUME TypeInv, TypeInv', Sees, LoseLink
    PROVE  Sees'
<1>1. /\ tx' = <<>> /\ view' = [s \in Sensors |-> Idle]
      /\ UNCHANGED <<storage, readers>>
  BY DEF LoseLink
<1>2. UNCHANGED <<writing, reading, pointer>>
  BY <1>1 DEF readers
<1>3. ASSUME NEW s \in Sensors
      PROVE  Fits(World', Readers', s) /\ Foreseen(World', Readers', s, view'[s])
  <2>1. Fits(World', Readers, s)
    BY <1>1, <1>2, KeptWorldFits DEF Sees
  <2>2. /\ Readers'.w = Readers.w /\ Readers'.p = Readers.p
        /\ Readers'.q = <<>> /\ Read(Readers', s) = Read(Readers, s)
    BY <1>1, <1>2, ReadersFields DEF Read
  <2>3. Fits(World', Readers', s)
    BY <2>1, <2>2 DEF Fits
  <2>4. <<>> \in Seq(PacketSet) /\ Replies(<<>>) = {}
    BY EmptySeq, NoReplies
  <2>5. Foreseen(World', Readers', s, Idle)
    BY <2>2, <2>4, IdleForeseen
  <2> QED
    BY <1>1, <2>3, <2>5
<1> QED
  BY <1>3 DEF Sees

LEMMA ConnectSees ==
    ASSUME TypeInv, TypeInv', Sees, Connect
    PROVE  Sees'
<1>1. ~linked /\ UNCHANGED <<storage, readers, tx, view>>
  BY DEF Connect
<1>2. tx = <<>>
  BY <1>1 DEF TypeInv, RequestsFit
<1>3. Readers' = Readers /\ writing' = writing /\ Readers.q = tx
  BY <1>1, ReadersFields DEF Readers, readers
<1>4. tx \in Seq(PacketSet) /\ Replies(tx) = {}
  BY <1>2, EmptySeq, NoReplies
<1>5. ASSUME NEW s \in Sensors
      PROVE  Fits(World', Readers, s) /\ Foreseen(World', Readers, s, view[s])
  <2>1. Fits(World, Readers, s) /\ Foreseen(World, Readers, s, view[s])
    BY DEF Sees
  <2>2. Fits(World', Readers, s)
    BY <1>1, <1>3, <2>1, KeptWorldFits
  <2>3. Foreseen(World', Readers, s, view[s])
    BY <1>1, <1>3, <1>4, <2>1, KeptWorldForeseen
  <2> QED
    BY <2>2, <2>3
<1> QED
  BY <1>1, <1>3, <1>5 DEF Sees

LEMMA ReadInvInit ==
    ASSUME Init
    PROVE  ReadInv
<1>1. TypeInv /\ session = "none"
  BY TypeInvInit DEF Init
<1>2. /\ pointer = [s \in Sensors |-> "null"]
      /\ writing = [s \in Sensors |-> Blank]
      /\ view = [s \in Sensors |-> Idle] /\ tx = <<>>
  BY DEF Init
<1>3. ASSUME NEW s \in Sensors
      PROVE  Fits(World, Readers, s) /\ Foreseen(World, Readers, s, view[s])
  <2>1. Fits(World, Readers, s)
    BY <1>2, ReadersFields DEF Fits, Blank
  <2>2. Readers.q = <<>> /\ <<>> \in Seq(PacketSet)
    BY <1>2, EmptySeq, ReadersFields
  <2>3. Foreseen(World, Readers, s, Idle)
    BY <2>2, NoReplies, IdleForeseen
  <2> QED
    BY <1>2, <2>1, <2>3
<1> QED
  BY <1>1, <1>3 DEF ReadInv, Sees

\* Where the sensors that work do record, the readers and what is buffered
\* keep with the clients.
LEMMA ReadInvStep ==
    ASSUME Sessions \subseteq {"log"}, ReadInv, [Next]_vars
    PROVE  ReadInv'
<1>1. TypeInv /\ session # "notify" /\ Sees
  BY DEF ReadInv
<1>2. TypeInv'
  BY <1>1, TypeInvStep
<1>3. session' # "notify" /\ Sees'
  <2>1. ASSUME NEW kind \in Sessions, Start(kind)
        PROVE  session' # "notify" /\ Sees'
    <3>1. kind = "log"
      OBVIOUS
    <3> QED
      BY <1>1, <1>2, <2>1, <3>1, StartSees DEF Start
  <2>2. CASE Stop
    BY <1>1, <1>2, <2>2, StopSees DEF Stop, StopAfter
  <2>3. CASE Format
    BY <1>1, <1>2, <2>3, FormatSees DEF Format
  <2>4. ASSUME NEW s \in Sensors, Write(s)
        PROVE  session' # "notify" /\ Sees'
    BY <1>1, <1>2, <2>4, WriteSees DEF Write, StopAfter
  <2>5. ASSUME UNCHANGED storage, Sees'
        PROVE  session' # "notify" /\ Sees'
    BY <1>1, <2>5 DEF storage
  <2>6. CASE OnWrite
    <3>1. UNCHANGED storage
      BY <2>6 DEF OnWrite, Fail
    <3> QED
      BY <1>1, <1>2, <2>5, <2>6, <3>1, OnWriteSees
  <2>7. CASE OnRWAuthReq
    <3>1. UNCHANGED storage
      BY <2>7 DEF OnRWAuthReq, Fail
    <3> QED
      BY <1>1, <1>2, <2>5, <2>7, <3>1, OnRWAuthReqSees
  <2>8. CASE OnTxComplete
    <3>1. UNCHANGED storage
      BY <2>8 DEF OnTxComplete
    <3> QED
      BY <1>1, <1>2, <2>5, <2>8, <3>1, OnTxCompleteSees
  <2>9. CASE OnDisconnected
    <3>1. UNCHANGED storage
      BY <2>9 DEF OnDisconnected
    <3> QED
      BY <1>1, <1>2, <2>5, <2>9, <3>1, OnDisconnectedSees
  <2>10. ASSUME NEW s \in Sensors, NEW l \in LogIDs, NEW p \in Starts,
                StartToReadLog(s, l, p)
         PROVE  session' # "notify" /\ Sees'
    <3>1. UNCHANGED storage
      BY <2>10 DEF StartToReadLog
    <3> QED
      BY <1>1, <1>2, <2>5, <2>10, <3>1, StartToReadLogSees
  <2>11. CASE Send
    <3>1. UNCHANGED storage
      BY <2>11 DEF Send
    <3> QED
      BY <1>1, <1>2, <2>5, <2>11, <3>1, SendSees
  <2>12. CASE Deliver
    <3>1. UNCHANGED storage
      BY <2>12 DEF Deliver
    <3> QED
      BY <1>1, <1>2, <2>5, <2>12, <3>1, DeliverSees
  <2>13. CASE LoseLink
    <3>1. UNCHANGED storage
      BY <2>13 DEF LoseLink
    <3> QED
      BY <1>1, <1>2, <2>5, <2>13, <3>1, LoseLinkSees
  <2>14. CASE Connect
    <3>1. UNCHANGED storage
      BY <2>14 DEF Connect
    <3> QED
      BY <1>1, <1>2, <2>5, <2>14, <3>1, ConnectSees
  <2>15. CASE UNCHANGED vars
    <3>1. UNCHANGED <<storage, writing, reading, pointer, tx, ops, view>>
      BY <2>15 DEF vars, readers, client
    <3> QED
      BY <1>1, <1>2, <2>5, <3>1, UnchangedSees
  <2> QED
    BY <2>1, <2>2, <2>3, <2>4, <2>6, <2>7, <2>8, <2>9, <2>10, <2>11, <2>12,
       <2>13, <2>14, <2>15 DEF Next, Handler
<1> QED
  BY <1>2, <1>3 DEF ReadInv

-----------------------------------------------------------------------------
(* LogNotify implements LogRead.                                           *)

Lengths == [s \in Sensors |-> [l \in LogIDs |-> SamplesOf(s, l)]]

LEMMA LengthsOf ==
    ASSUME TypeInv
    PROVE  /\ Lengths \in [Sensors -> [LogIDs -> Nat]]
           /\ \A s \in Sensors, l \in LogIDs :
                 Lengths[s][l] = SamplesOf(s, l) /\ Lengths[s][l] \in 0 .. Capacity
<1>1. \A s \in Sensors, l \in LogIDs : SamplesOf(s, l) \in 0 .. Capacity
  BY SamplesType
<1>2. \A s \in Sensors, l \in LogIDs : SamplesOf(s, l) \in Nat
  BY <1>1, Constants
<1> QED
  BY <1>1, <1>2 DEF Lengths

LEMMA SameLengths ==
    ASSUME \A s \in Sensors, l \in LogIDs : SamplesOf(s, l)' = SamplesOf(s, l)
    PROVE  Lengths' = Lengths
  BY DEF Lengths

\* What the steps that handle an event leave alone.
LEMMA HandlerKeeps ==
    ASSUME TypeInv, Handler
    PROVE  /\ UNCHANGED <<storage, view>>
           /\ \A s \in Sensors : writing'[s].wpos = writing[s].wpos
<1> DEFINE e == Head(events)
<1>1. DevOK(Readers) /\ Readers \in Devs /\ RequestsFit /\ StorageFits
  BY DEF TypeInv, DevOK
<1>2. CASE Fail
  BY <1>2 DEF Fail, readers, client
<1>3. ASSUME NEW d, DevOK(d), SameWriters(d), Become(NotifyLogData(d))
      PROVE  \A s \in Sensors : writing'[s].wpos = writing[s].wpos
  BY <1>3, BecomeNotified DEF SameWriters
<1>4. CASE OnWrite /\ linked
  <2> DEFINE f == [notifying EXCEPT ![e.sensor] = (e.op = "on")]
             d == [Readers EXCEPT !.on = f]
  <2>1. /\ Become(NotifyLogData([Readers EXCEPT !.on[e.sensor] = (e.op = "on")]))
        /\ UNCHANGED <<storage, client>>
    BY <1>4 DEF OnWrite
  <2>2. [Readers EXCEPT !.on[e.sensor] = (e.op = "on")] = d
    BY ReadersFields
  <2>3. f \in [Sensors -> BOOLEAN]
    <3>1. notifying \in [Sensors -> BOOLEAN] /\ (e.op = "on") \in BOOLEAN
      BY <1>1, ReadersFields DEF Devs
    <3> HIDE DEF e
    <3> QED
      BY <3>1
  <2> HIDE DEF e, f
  <2>4. DevOK(d) /\ d.w = writing
    BY <1>1, <2>3, ReadersFields DEF DevOK, Devs
  <2>5. Become(NotifyLogData(d)) /\ SameWriters(d)
    BY <2>1, <2>2, <2>4 DEF SameWriters
  <2> HIDE DEF d
  <2> QED
    BY <1>3, <2>1, <2>4, <2>5 DEF client
<1>5. CASE OnRWAuthReq /\ linked
  <2> DEFINE w == WriteLogID(Readers, e.sensor, e.log, e.from)
             d == [w EXCEPT !.q = Append(@, Reply)]
  <2>1. /\ Become(NotifyLogData(d)) /\ UNCHANGED <<storage, client>>
        /\ events # <<>> /\ e.op = "logID"
    BY <1>5 DEF OnRWAuthReq, Handle
  <2>2. events \in Seq(Events)
    BY <1>1 DEF RequestsFit
  <2>3. e \in Requests
    BY <2>1, <2>2, AsksAfterTail, EventFields
  <2>4. e.sensor \in Sensors /\ e.log \in LogIDs /\ e.from \in Nat
    BY <2>1, <2>3, RequestFields
  <2> HIDE DEF e
  <2>5. DevOK(w) /\ SameWriters(w)
    BY <1>1, <2>4, WriteLogIDFields
  <2> HIDE DEF w
  <2>6. DevOK(d) /\ d.w = w.w
    BY <2>5, ReplyFields
  <2>7. SameWriters(d)
    BY <2>5, <2>6 DEF SameWriters
  <2> HIDE DEF d
  <2> QED
    BY <1>3, <2>1, <2>6, <2>7 DEF client
<1>6. CASE OnTxComplete
  <2>1. Become(NotifyLogData(Readers)) /\ UNCHANGED <<storage, client>>
    BY <1>6 DEF OnTxComplete
  <2>2. SameWriters(Readers)
    BY ReadersFields DEF SameWriters
  <2> QED
    BY <1>1, <1>3, <2>1, <2>2 DEF client
<1>7. CASE OnDisconnected
  <2> DEFINE d == [Readers EXCEPT !.on = [s \in Sensors |-> FALSE]]
  <2>1. Become(d) /\ UNCHANGED <<storage, client>>
    BY <1>7 DEF OnDisconnected
  <2>2. d.w = writing
    BY <1>1, ReadersFields DEF Devs
  <2> QED
    BY <2>1, <2>2 DEF Become, client
<1>8. linked \in BOOLEAN
  BY <1>1 DEF RequestsFit
<1> QED
  BY <1>2, <1>4, <1>5, <1>6, <1>7, <1>8 DEF Handler, OnWrite, OnRWAuthReq

LEMMA ReadsInit ==
    ASSUME Init
    PROVE  Reads!Init
<1>1. TypeInv /\ session = "none" /\ view = [s \in Sensors |-> Idle]
  BY TypeInvInit DEF Init
<1>2. logCount \in 0 .. MaxLogs
  BY <1>1 DEF TypeInv, StorageFits
<1>3. logCount \in Nat /\ 0 .. logCount - 1 \subseteq LogIDs
  BY <1>2, Constants DEF LogIDs
<1>4. Lengths \in [Sensors -> [LogIDs -> Nat]]
  BY <1>1, LengthsOf
<1>5. (session = "log") = FALSE
  BY <1>1
<1> QED
  BY <1>1, <1>3, <1>4, <1>5
     DEF Reads!Init, Reads!Logs, Reads!Idle, Idle, Lengths

LEMMA StartReads ==
    ASSUME TypeInv, TypeInv', Start("log")
    PROVE  Reads!Begin
<1>1. /\ session = "none" /\ session' = "log" /\ logCount < MaxLogs
      /\ logCount' = logCount + 1 /\ view' = view /\ logCount \in 0 .. MaxLogs
  BY DEF Start, Working, client, TypeInv, StorageFits
<1>2. logCount \in LogIDs /\ logCount \in Nat
  BY <1>1, Constants DEF LogIDs
<1>3. Lengths' = Lengths
  BY SamplesStart, SameLengths
<1>4. \A s \in Sensors : Lengths[s][logCount] = 0
  <2>1. logCount >= logCount
    BY <1>2
  <2> QED
    BY <1>2, <2>1, SamplesCases, LengthsOf
<1>5. Lengths \in [Sensors -> [LogIDs -> Nat]]
  BY LengthsOf
<1>6. Lengths' = [s \in Sensors |-> [Lengths[s] EXCEPT ![logCount] = 0]]
  <2>1. \A s \in Sensors : [Lengths[s] EXCEPT ![logCount] = 0] = Lengths[s]
    BY <1>4, <1>5
  <2> QED
    BY <1>3, <1>5, <2>1
<1> QED
  BY <1>1, <1>2, <1>6 DEF Reads!Begin, Lengths

LEMMA CloseReads ==
    ASSUME TypeInv, NEW d, SameWriters(d), session = "log", StopAfter(d),
           logCount' = logCount, view' = view
    PROVE  Reads!Close
<1>1. Lengths' = Lengths
  BY SamplesStop, SameLengths
<1>2. (session = "log") = TRUE /\ (session' = "log") = FALSE
  BY DEF StopAfter
<1> QED
  BY <1>1, <1>2 DEF Reads!Close, Lengths

LEMMA StopReads ==
    ASSUME TypeInv, session # "notify", Stop
    PROVE  Reads!Close
<1> DEFINE d == Status(Readers, 1)
<1>1. /\ session = "log" /\ StopAfter(d) /\ logCount' = logCount /\ view' = view
  BY DEF Stop, client, Working, TypeInv, StorageFits
<1>2. d.w = writing
  BY StatusFields, ReadersFields DEF TypeInv
<1>3. SameWriters(d)
  BY <1>2 DEF SameWriters
<1> HIDE DEF d
<1> QED
  BY <1>1, <1>3, CloseReads

LEMMA FormatReads ==
    ASSUME TypeInv, TypeInv', Format
    PROVE  Reads!Format
<1>1. /\ logCount' = 0 /\ session' = "none" /\ view' = [s \in Sensors |-> Idle]
  BY DEF Format
<1>2. \A s \in Sensors, l \in LogIDs : SamplesOf(s, l)' = 0
  <2> SUFFICES ASSUME NEW s \in Sensors, NEW l \in LogIDs
               PROVE  SamplesOf(s, l)' = 0
    OBVIOUS
  <2>1. l >= logCount' /\ ~(session' = "log" /\ l = logCount' - 1)
    BY <1>1, Constants
  <2> QED
    BY <2>1 DEF SamplesOf
<1>3. Lengths' = [s \in Sensors |-> [l \in LogIDs |-> 0]]
  BY <1>2 DEF Lengths
<1>4. (session' = "log") = FALSE
  BY <1>1
<1> QED
  BY <1>1, <1>3, <1>4 DEF Reads!Format, Reads!Idle, Idle, Lengths

LEMMA WriteReads ==
    ASSUME TypeInv, NEW t \in Sensors, Write(t)
    PROVE  Reads!Record(t) \/ Reads!Close
<1>1. /\ session = "log" /\ logCount' = logCount /\ view' = view
      /\ Recording /\ DevOK(Readers) /\ Readers \in Devs
      /\ writing \in [Sensors -> Context]
  BY ReadersFields DEF Write, client, Recording, TypeInv, DevOK, Devs
<1>2. CASE RoomFor(writing[t])
  <2> DEFINE c == [writing[t] EXCEPT !.wpos = @ + 1]
             d == [Readers EXCEPT !.w[t].wpos = @ + 1]
             last == logCount - 1
  <2>1. /\ Become(NotifyLogData(d))
        /\ UNCHANGED <<header, session, diskFull>>
    BY <1>2 DEF Write
  <2>2. /\ writing[t] \in Context /\ writing[t].wpos < writing[t].size
        /\ writing[t].size \in 0 .. Capacity /\ writing[t].wpos \in 0 .. Capacity
    BY <1>1, <1>2 DEF RoomFor, Context
  <2>3. writing[t].wpos + 1 \in 0 .. Capacity
    BY <2>2, Constants
  <2>4. c \in Context /\ c.wpos = writing[t].wpos + 1
    BY <2>2, <2>3 DEF Context
  <2>5. d = [Readers EXCEPT !.w = [writing EXCEPT ![t] = c]]
    BY <1>1, ReadersFields DEF Devs
  <2> HIDE DEF c, d
  <2>6. [writing EXCEPT ![t] = c] \in [Sensors -> Context]
    BY <1>1, <2>4
  <2>7. DevOK(d) /\ d.w = [writing EXCEPT ![t] = c]
    BY <1>1, <2>5, <2>6, ReadersFields DEF DevOK, Devs
  <2>8. \A s \in Sensors :
           writing'[s].wpos = IF s = t THEN writing[s].wpos + 1
                              ELSE writing[s].wpos
    <3>1. \A s \in Sensors : writing'[s].wpos = d.w[s].wpos
      BY <2>1, <2>7, BecomeNotified
    <3> QED
      BY <1>1, <2>4, <2>7, <3>1
  <2>9. \A s \in Sensors, l \in LogIDs :
           SamplesOf(s, l)' = IF s = t /\ l = last
                              THEN SamplesOf(s, l) + 1 ELSE SamplesOf(s, l)
    BY <1>1, <2>1, <2>8, SamplesWrite
  <2>10. last \in LogIDs
    BY <1>1, Constants DEF TypeInv, StorageFits, WritersFit, LogIDs
  <2> HIDE DEF last
  <2>11. Lengths' = [Lengths EXCEPT ![t][last] = Lengths[t][last] + 1]
    <3>1. Lengths' = [s \in Sensors |-> [l \in LogIDs |->
                         IF s = t /\ l = last
                         THEN SamplesOf(s, l) + 1 ELSE SamplesOf(s, l)]]
      BY <2>9 DEF Lengths
    <3> QED
      BY <2>10, <3>1 DEF Lengths
  <2>12. (session = "log") = TRUE /\ (session' = "log") = TRUE
    BY <1>1, <2>1
  <2>13. Reads!Record(t)
    BY <1>1, <2>11, <2>12 DEF Reads!Record, Lengths, last
  <2> QED
    BY <2>13
<1>3. CASE ~RoomFor(writing[t])
  <2> DEFINE d == NotifyLogData(Readers)
             e == Status(d, 2)
  <2>1. StopAfter(e)
    BY <1>3 DEF Write
  <2>2. /\ DevOK(d)
        /\ \A s \in Sensors :
              /\ d.w[s].log = writing[s].log /\ d.w[s].size = writing[s].size
              /\ d.w[s].canWrite = writing[s].canWrite
              /\ d.w[s].wpos = writing[s].wpos
    BY <1>1, NotifyType, ReadersFields
  <2> HIDE DEF d
  <2>3. e.w = d.w
    BY <2>2, StatusFields
  <2> HIDE DEF e
  <2>4. SameWriters(e)
    BY <2>2, <2>3 DEF SameWriters
  <2>5. Reads!Close
    BY <1>1, <2>1, <2>4, CloseReads
  <2> QED
    BY <2>5
<1> QED
  BY <1>2, <1>3

\* Nothing that LogRead tells apart changes.
LEMMA StutterReads ==
    ASSUME TypeInv, UNCHANGED <<storage, view>>,
           \A s \in Sensors : writing'[s].wpos = writing[s].wpos
    PROVE  UNCHANGED Reads!vars
<1>1. Lengths' = Lengths
  BY SamplesSame, SameLengths
<1>2. logCount' = logCount /\ session' = session
  BY DEF storage
<1> QED
  BY <1>1, <1>2 DEF Reads!vars, Lengths

LEMMA LeaveReads ==
    ASSUME TypeInv, UNCHANGED storage,
           \A s \in Sensors : writing'[s].wpos = writing[s].wpos,
           NEW S \in SUBSET Sensors,
           view' = [s \in Sensors |-> IF s \in S THEN Idle ELSE view[s]]
    PROVE  Reads!Leave(S)
<1>1. Lengths' = Lengths
  BY SamplesSame, SameLengths
<1>2. logCount' = logCount /\ session' = session
  BY DEF storage
<1> QED
  BY <1>1, <1>2 DEF Reads!Leave, Reads!Idle, Idle, Lengths

\* A packet that is delivered is the answer to a request, the next samples
\* or the end of the log.
LEMMA DeliverReads ==
    ASSUME TypeInv, TypeInv', Sees, Deliver
    PROVE  [Reads!Next]_(Reads!vars)
<1> DEFINE p == Head(tx)
           e == Head(ops)
<1>1. tx # <<>> /\ UNCHANGED <<storage, readers>>
  BY DEF Deliver
<1>2. /\ writing' = writing /\ logCount' = logCount /\ session' = session
      /\ Lengths' = Lengths
  BY <1>1, SamplesSame, SameLengths DEF readers, storage
<1>3. /\ tx \in Seq(PacketSet) /\ view \in [Sensors -> Views] /\ RequestsFit
  BY ReadersFields DEF TypeInv, DevOK, Devs, ClientFits
<1>4. p \in PacketSet /\ ((p = Reply) = (1 \in Replies(tx)))
  BY <1>1, <1>3, FreeAfterDelivery
<1>5. CASE view' = view
  BY <1>1, <1>2, <1>5, StutterReads
<1>6. CASE p = Reply /\ view' # view
  <2>1. e.op = "logID" /\ view' = [view EXCEPT ![e.sensor] = Answered(e)]
    BY <1>6 DEF Deliver, Answered
  <2>2. ops # <<>> /\ ops \in Seq(Requests)
    BY <1>3, <1>4, <1>6 DEF RequestsFit
  <2>3. e \in Requests
    BY <2>2, HeadTailProperties
  <2>4. e.sensor \in Sensors /\ e.log \in LogIDs /\ e.from \in Starts
    BY <2>1, <2>3, RequestFields
  <2> HIDE DEF e
  <2>5. Reads!Ask(e.sensor)
    BY <1>2, <2>1, <2>4 DEF Reads!Ask, Answered, Lengths
  <2>6. Reads!Next
    BY <2>4, <2>5 DEF Reads!Next
  <2> QED
    BY <2>6
<1>7. CASE p # Reply /\ view' # view
  <2>1. p # Other
    BY <1>7 DEF Deliver
  <2>2. p \in DataPackets
    BY <1>4, <1>7, <2>1 DEF PacketSet
  <2> DEFINE s == p.sensor
             v == view[s]
  <2>3. view' = [view EXCEPT ![s] = Seen(v, p)]
    BY <1>7, <2>1 DEF Deliver
  <2>4. /\ p.kind = "data" /\ s \in Sensors /\ p.log \in LogIDs
        /\ p.from \in Nat /\ p.count \in Nat
    BY <2>2, DataFields
  <2>5. v.reading
    <3>1. ~v.reading => Seen(v, p) = v
      BY DEF Seen
    <3>2. view \in [Sensors -> Views]
      BY <1>3
    <3> QED
      BY <1>7, <2>3, <3>1, <3>2
  <2>6. Good(World, s, v, p) /\ v \in SoundViews
    <3>1. Foreseen(World, Readers, s, v)
      BY <2>4 DEF Sees
    <3>2. PICK u \in SoundViews : Follows(World, s, v, tx, u)
      BY <3>1, ReadersFields DEF Foreseen
    <3> QED
      BY <1>1, <1>3, <3>2, FollowsTail, FollowsType
  <2>7. /\ ~v.ended /\ p.log = v.log /\ p.from = v.next /\ v.log < World.count
        /\ p.count > 0 => p.from + p.count <= World.size[s][v.log]
        /\ p.count = 0 => v.log < World.closed /\ v.next >= World.size[s][v.log]
    <3>1. OfSensor(s, p)
      BY <2>4 DEF OfSensor
    <3> HIDE DEF p, s, v
    <3> QED
      BY <1>7, <2>5, <2>6, <3>1 DEF Good
  <2> HIDE DEF p, s, v
  <2>8. /\ v.log \in LogIDs /\ v.log \in Nat /\ v.next \in Nat
    BY <2>6, Constants DEF SoundViews
  <2>9. /\ World.count = logCount /\ World.closed = Closed /\ logCount \in Nat
        /\ World.size[s][v.log] = Lengths[s][v.log]
        /\ Lengths[s][v.log] \in 0 .. Capacity
    BY <2>4, <2>8, WorldFacts, LengthsOf DEF WorldOK
  <2>10. Reads!CanReceive(s)
    <3>1. v.log \in 0 .. logCount - 1
      BY <2>7, <2>8, <2>9
    <3> QED
      BY <2>5, <2>7, <3>1 DEF Reads!CanReceive, Reads!Logs, v
  <2>11. CASE p.count = 0
    <3>1. Seen(v, p) = [v EXCEPT !.ended = TRUE]
      BY <2>5, <2>7, <2>11 DEF Seen
    <3>2. view' = [view EXCEPT ![s].ended = TRUE]
      BY <2>3, <3>1 DEF v
    <3>3. ~(session = "log" /\ v.log = logCount - 1)
      BY <2>7, <2>8, <2>9, <2>11 DEF Closed, Recording
    <3>4. v.next >= Lengths[s][v.log]
      BY <2>7, <2>9, <2>11
    <3>5. Reads!End(s)
      BY <1>2, <2>10, <3>2, <3>3, <3>4 DEF Reads!End, Reads!Open, Lengths, v
    <3>6. Reads!Next
      BY <2>4, <3>5 DEF Reads!Next
    <3> QED
      BY <3>6
  <2>12. CASE p.count # 0
    <3>1. p.count > 0 /\ v.next + p.count <= Lengths[s][v.log]
          /\ p.count \in 0 .. Capacity
      <4>1. p.count > 0 /\ p.from + p.count <= World.size[s][v.log]
        BY <2>4, <2>7, <2>12
      <4>2. p.count \in Nat /\ v.next \in Nat /\ p.from = v.next
        BY <2>4, <2>7, <2>8
      <4>3. v.next + p.count <= Lengths[s][v.log] /\ Lengths[s][v.log] \in 0 .. Capacity
        BY <2>9, <4>1, <4>2
      <4> DEFINE n == Lengths[s][v.log]
      <4>4. v.next + p.count <= n /\ n <= Capacity /\ n \in Nat
        BY <4>3, Constants
      <4> HIDE DEF n
      <4>5. p.count <= Capacity
        BY <4>2, <4>4, Constants
      <4> QED
        BY <4>1, <4>2, <4>3, <4>5, Constants
    <3>2. Seen(v, p) = [v EXCEPT !.next = v.next + p.count]
      BY <2>5, <2>7, <2>12 DEF Seen
    <3>3. view' = [view EXCEPT ![s].next = @ + p.count]
      BY <2>3, <3>2 DEF v
    <3>4. Reads!Receive(s, p.count)
      BY <1>2, <2>10, <3>1, <3>3 DEF Reads!Receive, Lengths, v
    <3>5. p.count \in Starts \cup 0 .. Capacity
      BY <3>1
    <3>6. Reads!Next
      BY <2>4, <3>1, <3>4, <3>5 DEF Reads!Next
    <3> QED
      BY <3>6
  <2> QED
    BY <2>11, <2>12
<1> QED
  BY <1>5, <1>6, <1>7

LEMMA ReadsStep ==
    ASSUME Sessions \subseteq {"log"}, ReadInv, ReadInv', [Next]_vars
    PROVE  [Reads!Next]_(Reads!vars)
<1>1. TypeInv /\ TypeInv' /\ session # "notify" /\ Sees
  BY DEF ReadInv
<1>2. ASSUME NEW kind \in Sessions, Start(kind)
      PROVE  Reads!Next
  <2>1. kind = "log"
    OBVIOUS
  <2> QED
    BY <1>1, <1>2, <2>1, StartReads DEF Reads!Next
<1>3. CASE Stop
  BY <1>1, <1>3, StopReads DEF Reads!Next
<1>4. CASE Format
  BY <1>1, <1>4, FormatReads DEF Reads!Next
<1>5. ASSUME NEW s \in Sensors, Write(s)
      PROVE  Reads!Next
  BY <1>1, <1>5, WriteReads DEF Reads!Next
<1>6. CASE Handler
  BY <1>1, <1>6, HandlerKeeps, StutterReads
<1>7. ASSUME NEW s \in Sensors, NEW l \in LogIDs, NEW p \in Starts,
             StartToReadLog(s, l, p)
      PROVE  Reads!Next
  <2>1. /\ UNCHANGED storage /\ writing' = writing
        /\ view' = [view EXCEPT ![s] = Idle] /\ view \in [Sensors -> Views]
    BY <1>1, <1>7 DEF StartToReadLog, readers, TypeInv, ClientFits
  <2>2. view' = [t \in Sensors |-> IF t \in {s} THEN Idle ELSE view[t]]
    BY <2>1
  <2>3. {s} \in SUBSET Sensors
    OBVIOUS
  <2>4. Reads!Leave({s})
    BY <1>1, <2>1, <2>2, <2>3, LeaveReads
  <2> QED
    BY <2>3, <2>4 DEF Reads!Next
<1>8. CASE Send
  <2>1. UNCHANGED <<storage, view>> /\ writing' = writing
    BY <1>8 DEF Send, readers
  <2> QED
    BY <1>1, <2>1, StutterReads
<1>9. CASE Deliver
  BY <1>1, <1>9, DeliverReads
<1>10. CASE LoseLink
  <2>1. /\ UNCHANGED storage /\ writing' = writing
        /\ view' = [s \in Sensors |-> Idle]
    BY <1>10 DEF LoseLink, readers
  <2>2. view' = [t \in Sensors |-> IF t \in Sensors THEN Idle ELSE view[t]]
    BY <2>1
  <2>3. Sensors \in SUBSET Sensors
    OBVIOUS
  <2>4. Reads!Leave(Sensors)
    BY <1>1, <2>1, <2>2, <2>3, LeaveReads
  <2> QED
    BY <2>3, <2>4 DEF Reads!Next
<1>11. CASE Connect
  <2>1. UNCHANGED <<storage, view>> /\ writing' = writing
    BY <1>11 DEF Connect, readers
  <2> QED
    BY <1>1, <2>1, StutterReads
<1>12. CASE UNCHANGED vars
  <2>1. UNCHANGED <<storage, view>> /\ writing' = writing
    BY <1>12 DEF vars, readers, client
  <2> QED
    BY <1>1, <2>1, StutterReads
<1> QED
  BY <1>2, <1>3, <1>4, <1>5, <1>6, <1>7, <1>8, <1>9, <1>10, <1>11, <1>12 DEF Next

\* ReadsAreFaithful holds where the sensors that are started do record: a
\* client gets the samples of the log it has asked for, in order and each
\* once, and the end of data after the last of a closed log and only there.
\* seekLog, didSendEndOfDataPacket and the change of contexts in stopLogging
\* (senstick_sensor_controller.c:158-213, 351-364) see to that, whatever the
\* number of sensors, logs and buffers and the sizes of areas and packets.
THEOREM ReadingImplementsLogRead ==
    ASSUME Sessions \subseteq {"log"}
    PROVE  Spec => ReadsAreFaithful
<1>1. Init => Reads!Init /\ ReadInv
  BY ReadsInit, ReadInvInit
<1>2. ReadInv /\ [Next]_vars => ReadInv'
  BY ReadInvStep
<1>3. ReadInv /\ ReadInv' /\ [Next]_vars => [Reads!Next]_(Reads!vars)
  BY ReadsStep
<1> QED
  BY <1>1, <1>2, <1>3, PTL DEF Spec, ReadsAreFaithful, Reads!Spec

-----------------------------------------------------------------------------
(* What LogRead promises follows from its steps. *)

ViewsFit ==
    /\ logCount \in Nat
    /\ Recording \in BOOLEAN
    /\ Lengths \in [Sensors -> [LogIDs -> Nat]]
    /\ view \in [Sensors -> [reading : BOOLEAN, log : LogIDs \cup {0},
                             next : Nat, ended : BOOLEAN]]

\* A recording has a log, and who was told the end of one names a log that
\* exists: log IDs are used again only after a format.
EndedLogExists ==
    /\ Recording => logCount > 0
    /\ \A s \in Sensors : view[s].ended => view[s].log \in 0 .. logCount - 1

EndedIsAll ==
    \A s \in Sensors : view[s].ended =>
        /\ ~(Recording /\ view[s].log = logCount - 1)
        /\ view[s].next >= Lengths[s][view[s].log]

EndInv == ViewsFit /\ EndedLogExists /\ EndedIsAll

\* The invariant holds of a device that nobody reads.
LEMMA EndInvInit == Reads!Init => EndInv
<1> SUFFICES ASSUME Reads!Init PROVE EndInv
  OBVIOUS
<1>1. /\ logCount \in Nat /\ Recording = FALSE
      /\ Lengths \in [Sensors -> [LogIDs -> Nat]]
      /\ view = [s \in Sensors |-> Idle]
  BY DEF Reads!Init, Reads!Idle, Idle, Lengths, Recording
<1>2. ViewsFit
  BY <1>1 DEF ViewsFit, Idle
<1>3. \A s \in Sensors : ~view[s].ended
  BY <1>1 DEF Idle
<1> QED
  BY <1>1, <1>2, <1>3 DEF EndInv, EndedLogExists, EndedIsAll

\* The steps that change the logs.
LEMMA BeginEnds ==
    ASSUME EndInv, Reads!Begin
    PROVE  EndInv'
<1>1. /\ ~Recording /\ Recording' = TRUE /\ logCount' = logCount + 1
      /\ logCount \in LogIDs /\ view' = view
      /\ Lengths' = [s \in Sensors |-> [Lengths[s] EXCEPT ![logCount] = 0]]
  BY DEF Reads!Begin, Lengths, Recording
<1>2. ViewsFit'
  BY <1>1 DEF EndInv, ViewsFit
<1>3. EndedLogExists'
  BY <1>1 DEF EndInv, ViewsFit, EndedLogExists
<1>4. ASSUME NEW s \in Sensors, view[s].ended
      PROVE  view[s].log # logCount /\ view[s].next >= Lengths'[s][view[s].log]
  <2>1. view[s].log \in 0 .. logCount - 1 /\ view[s].log \in LogIDs /\ logCount \in Nat
    BY <1>4, Constants DEF EndInv, ViewsFit, EndedLogExists
  <2>2. Lengths'[s][view[s].log] = Lengths[s][view[s].log]
    BY <1>1, <2>1 DEF EndInv, ViewsFit
  <2> QED
    BY <1>4, <2>1, <2>2 DEF EndInv, EndedIsAll
<1> QED
  BY <1>1, <1>2, <1>3, <1>4 DEF EndInv, EndedIsAll, ViewsFit

LEMMA CloseEnds ==
    ASSUME EndInv, Reads!Close
    PROVE  EndInv'
<1>1. /\ Recording' = FALSE /\ logCount' = logCount /\ view' = view
      /\ Lengths' = Lengths
  BY DEF Reads!Close, Lengths, Recording
<1> QED
  BY <1>1 DEF EndInv, ViewsFit, EndedLogExists, EndedIsAll

LEMMA FormatEnds ==
    ASSUME EndInv, Reads!Format
    PROVE  EndInv'
<1>1. /\ Recording' = FALSE /\ logCount' = 0
      /\ view' = [s \in Sensors |-> Idle]
      /\ Lengths' = [s \in Sensors |-> [l \in LogIDs |-> 0]]
  BY DEF Reads!Format, Reads!Idle, Idle, Lengths, Recording
<1>2. ViewsFit'
  BY <1>1 DEF ViewsFit, Idle
<1>3. \A s \in Sensors : ~view'[s].ended
  BY <1>1 DEF Idle
<1> QED
  BY <1>1, <1>2, <1>3 DEF EndInv, EndedLogExists, EndedIsAll

LEMMA RecordEnds ==
    ASSUME EndInv, NEW s \in Sensors, Reads!Record(s)
    PROVE  EndInv'
<1> DEFINE l == logCount - 1
<1>1. /\ Recording /\ Recording' = Recording /\ logCount' = logCount /\ view' = view
      /\ Lengths' = [Lengths EXCEPT ![s] = [Lengths[s] EXCEPT ![l] = Lengths[s][l] + 1]]
  BY DEF Reads!Record, Lengths, Recording
<1>2. l \in LogIDs \/ l \notin LogIDs
  OBVIOUS
<1>3. Lengths[s] \in [LogIDs -> Nat]
  BY DEF EndInv, ViewsFit
<1> HIDE DEF l
<1>4. [Lengths[s] EXCEPT ![l] = Lengths[s][l] + 1] \in [LogIDs -> Nat]
  <2>1. CASE l \in LogIDs
    <3>1. Lengths[s][l] + 1 \in Nat
      BY <1>3, <2>1
    <3> QED
      BY <1>3, <3>1
  <2>2. CASE l \notin LogIDs
    BY <1>3, <2>2
  <2> QED
    BY <2>1, <2>2
<1>5. ViewsFit'
  BY <1>1, <1>4 DEF EndInv, ViewsFit
<1>6. EndedLogExists'
  BY <1>1 DEF EndInv, EndedLogExists
<1>7. ASSUME NEW t \in Sensors, view[t].ended
      PROVE  view[t].log # l /\ view[t].next >= Lengths'[t][view[t].log]
  <2>1. view[t].log # l
    BY <1>1, <1>7 DEF EndInv, EndedIsAll, l
  <2>2. Lengths'[t][view[t].log] = Lengths[t][view[t].log]
    BY <1>1, <1>7, <2>1 DEF EndInv, ViewsFit
  <2> QED
    BY <1>7, <2>1, <2>2 DEF EndInv, EndedIsAll
<1> QED
  BY <1>1, <1>5, <1>6, <1>7 DEF EndInv, EndedIsAll, l

\* The steps of the clients, which leave the logs as they are.
LEMMA ViewEnds ==
    ASSUME EndInv, NEW s \in Sensors, NEW v,
           Recording' = Recording, logCount' = logCount, Lengths' = Lengths,
           view' = [view EXCEPT ![s] = v],
           v \in [reading : BOOLEAN, log : LogIDs \cup {0}, next : Nat,
                  ended : BOOLEAN],
           v.ended => /\ v.log \in 0 .. logCount - 1
                      /\ ~(Recording /\ v.log = logCount - 1)
                      /\ v.next >= Lengths[s][v.log]
    PROVE  EndInv'
<1>1. view' \in [Sensors -> [reading : BOOLEAN, log : LogIDs \cup {0},
                            next : Nat, ended : BOOLEAN]]
  BY DEF EndInv, ViewsFit
<1>2. \A t \in Sensors : view'[t] = IF t = s THEN v ELSE view[t]
  BY DEF EndInv, ViewsFit
<1>3. ViewsFit'
  BY <1>1 DEF EndInv, ViewsFit
<1> QED
  BY <1>2, <1>3 DEF EndInv, EndedLogExists, EndedIsAll

LEMMA ReadEndsWell ==
    ASSUME EndInv, NEW s \in Sensors,
           \/ Reads!Ask(s) \/ Reads!End(s)
           \/ \E n \in Starts \cup 0 .. Capacity : n > 0 /\ Reads!Receive(s, n)
    PROVE  EndInv'
<1>1. view[s] \in [reading : BOOLEAN, log : LogIDs \cup {0}, next : Nat,
                  ended : BOOLEAN]
  BY DEF EndInv, ViewsFit
<1>2. CASE Reads!Ask(s)
  <2>1. PICK l \in LogIDs, p \in Starts \cup 0 .. Capacity :
           view' = [view EXCEPT ![s] = [reading |-> TRUE, log |-> l,
                                        next |-> p, ended |-> FALSE]]
    BY <1>2 DEF Reads!Ask
  <2>2. Recording' = Recording /\ logCount' = logCount /\ Lengths' = Lengths
    BY <1>2 DEF Reads!Ask, Recording, Lengths
  <2>3. p \in Nat
    BY Constants
  <2> QED
    BY <2>1, <2>2, <2>3, ViewEnds
<1>3. CASE Reads!End(s)
  <2>1. /\ view' = [view EXCEPT ![s] = [view[s] EXCEPT !.ended = TRUE]]
        /\ view[s].log \in 0 .. logCount - 1
        /\ ~(Recording /\ view[s].log = logCount - 1)
        /\ view[s].next >= Lengths[s][view[s].log]
    BY <1>3 DEF Reads!End, Reads!CanReceive, Reads!Logs, Reads!Open, Recording,
                Lengths
  <2>2. Recording' = Recording /\ logCount' = logCount /\ Lengths' = Lengths
    BY <1>3 DEF Reads!End, Recording, Lengths
  <2> DEFINE v == [view[s] EXCEPT !.ended = TRUE]
  <2>3. /\ v \in [reading : BOOLEAN, log : LogIDs \cup {0}, next : Nat,
                  ended : BOOLEAN]
        /\ v.log = view[s].log /\ v.next = view[s].next
    BY <1>1
  <2> HIDE DEF v
  <2>4. view' = [view EXCEPT ![s] = v]
    BY <2>1 DEF v
  <2> QED
    BY <2>1, <2>2, <2>3, <2>4, ViewEnds
<1>4. ASSUME NEW n \in Starts \cup 0 .. Capacity, n > 0, Reads!Receive(s, n)
      PROVE  EndInv'
  <2>1. /\ view' = [view EXCEPT ![s] = [view[s] EXCEPT !.next = view[s].next + n]]
        /\ ~view[s].ended
    BY <1>4 DEF Reads!Receive, Reads!CanReceive
  <2>2. Recording' = Recording /\ logCount' = logCount /\ Lengths' = Lengths
    BY <1>4 DEF Reads!Receive, Recording, Lengths
  <2> DEFINE v == [view[s] EXCEPT !.next = view[s].next + n]
  <2>3. n \in Nat
    BY Constants
  <2>4. /\ v \in [reading : BOOLEAN, log : LogIDs \cup {0}, next : Nat,
                  ended : BOOLEAN]
        /\ ~v.ended
    BY <1>1, <2>1, <2>3
  <2> HIDE DEF v
  <2>5. view' = [view EXCEPT ![s] = v]
    BY <2>1 DEF v
  <2> QED
    BY <2>2, <2>4, <2>5, ViewEnds
<1> QED
  BY <1>2, <1>3, <1>4

LEMMA LeaveEnds ==
    ASSUME EndInv, NEW S \in SUBSET Sensors, Reads!Leave(S)
    PROVE  EndInv'
<1>1. /\ Recording' = Recording /\ logCount' = logCount /\ Lengths' = Lengths
      /\ view' = [s \in Sensors |-> IF s \in S THEN Idle ELSE view[s]]
  BY DEF Reads!Leave, Reads!Idle, Idle, Recording, Lengths
<1> QED
  BY <1>1 DEF EndInv, ViewsFit, EndedLogExists, EndedIsAll, Idle

LEMMA EndInvStep == EndInv /\ [Reads!Next]_(Reads!vars) => EndInv'
<1> SUFFICES ASSUME EndInv, [Reads!Next]_(Reads!vars) PROVE EndInv'
  OBVIOUS
<1>1. CASE UNCHANGED Reads!vars
  <2>1. Recording' = Recording /\ logCount' = logCount /\ Lengths' = Lengths
        /\ view' = view
    BY <1>1 DEF Reads!vars, Recording, Lengths
  <2> QED
    BY <2>1 DEF EndInv, ViewsFit, EndedLogExists, EndedIsAll
<1>2. CASE Reads!Next
  BY <1>2, BeginEnds, CloseEnds, FormatEnds, RecordEnds, ReadEndsWell, LeaveEnds
     DEF Reads!Next
<1> QED
  BY <1>1, <1>2

\* EndOfDataIsEnd, where the sensors that are started do record: what a
\* client takes for the end of the data (senstick_sensor_controller.c:187)
\* comes when it has the last sample of a log that does not grow any more.
\* It holds of whatever takes the steps of LogRead.
THEOREM EndOfDataHolds ==
    ASSUME Sessions \subseteq {"log"}
    PROVE  Spec => []EndOfDataIsEnd
<1>1. EndInv => EndOfDataIsEnd
  BY DEF EndInv, EndedIsAll, EndOfDataIsEnd, Reads!EndMeansAll, Reads!Open,
         Reads!Logs, Recording, Lengths
<1> QED
  BY <1>1, EndInvInit, EndInvStep, ReadingImplementsLogRead, PTL
     DEF ReadsAreFaithful, Reads!Spec
=============================================================================
