--------------------------- MODULE CsvWriterProofs ---------------------------
(***************************************************************************)
(* For any number of records, any buffer and any clock bound:              *)
(*  - the writer is type correct, and its open handle always has a file;   *)
(*  - when it rotates by age only and the clock is not set back, a rotation*)
(*    never takes the name of a file rotated before, and in append mode no *)
(*    file ever disappears or loses content, whatever crashes or fails;    *)
(*  - when it rotates by size, a rotation that lost the live file leaves a *)
(*    writer that acknowledges nothing;                                    *)
(*  - with any rotation and any failure, no half of a line is ever in two  *)
(*    places, and until a process ends without writing its buffer a file   *)
(*    is a header and whole lines;                                         *)
(*  - with rotation by age in append mode, flushes that do not stop half   *)
(*    way and a buffer that holds a batch, no crash takes away a record    *)
(*    that was flushed, nor as many accepted ones as a batch has;          *)
(*  - with rotation by age in append mode and any failure, the files and   *)
(*    the buffer behave as RecordLog says.                                 *)
(***************************************************************************)
EXTENDS CsvWriterLog, SequenceTheorems, FiniteSetTheorems, WellFoundedInduction,
        NaturalsInduction, TLAPS

\* Appending does not depend on the order in which the parts are joined.
LEMMA HalvesAssociate ==
    ASSUME NEW s \in Seq(Half), NEW t \in Seq(Half), NEW u \in Seq(Half)
    PROVE  (s \o t) \o u = s \o (t \o u)
    BY ConcatAssociative

-----------------------------------------------------------------------------
(* The files are a log: what is on disk and what is in memory, in the order  *)
(* of its places, behaves as RecordLog says.  First, how places are ordered. *)

Place == Paths \X Nat

Enumerates(s, P) == s \in Seq(P) /\ GoesThrough(s, P)

\* The records of the places that s goes through, where R tells them.
At(R, s) == [k \in DOMAIN s |-> R[s[k]]]

LEMMA BeforeIsStrict ==
    ASSUME NEW x \in Place, NEW y \in Place, Before(x, y)
    PROVE  ~Before(y, x) /\ x # y
<1>1. x[1] \in Paths /\ y[1] \in Paths /\ x[2] \in Nat /\ y[2] \in Nat
    BY DEF Place
<1>2. Age(x[1]) \in Int /\ Age(y[1]) \in Int
    BY <1>1, ConfigAssumption DEF Age, Paths, Live
<1> QED
    BY <1>1, <1>2 DEF Before

LEMMA EnumerationType ==
    ASSUME NEW P, NEW s, Enumerates(s, P)
    PROVE  /\ s \in Seq(P) /\ Len(s) \in Nat /\ DOMAIN s = 1 .. Len(s) /\ s \in [1 .. Len(s) -> P]
           /\ \A k \in 1 .. Len(s) : s[k] \in P
           /\ \A x \in P : \E k \in 1 .. Len(s) : s[k] = x
           /\ \A j, k \in 1 .. Len(s) : j < k => Before(s[j], s[k])
<1>1. s \in Seq(P) /\ Len(s) \in Nat /\ DOMAIN s = 1 .. Len(s) /\ s \in [1 .. Len(s) -> P]
    BY LenProperties DEF Enumerates
<1>2. \A k \in 1 .. Len(s) : s[k] \in P
    BY <1>1
<1> QED
    BY <1>1, <1>2 DEF Enumerates, GoesThrough

LEMMA PlacesType ==
    ASSUME NEW P \in SUBSET Place, NEW s, Enumerates(s, P)
    PROVE  /\ Len(s) \in Nat /\ \A k \in 1 .. Len(s) : s[k] \in Place /\ s[k] \in P
           /\ \A x \in P : \E k \in 1 .. Len(s) : s[k] = x
           /\ \A j, k \in 1 .. Len(s) : j < k => Before(s[j], s[k])
<1>1. /\ Len(s) \in Nat /\ \A k \in 1 .. Len(s) : s[k] \in P
      /\ \A x \in P : \E k \in 1 .. Len(s) : s[k] = x
      /\ \A j, k \in 1 .. Len(s) : j < k => Before(s[j], s[k])
    BY EnumerationType
<1>2. \A x \in P : x \in Place
    OBVIOUS
<1> QED
    BY <1>1, <1>2

SmallerNat == OpToRel(<, Nat)

\* A nonempty set of naturals has a least element.
LEMMA SmallestExists ==
    ASSUME NEW T \in SUBSET Nat, T # {}
    PROVE  \E x \in T : \A y \in T : x <= y
<1>1. IsWellFoundedOn(SmallerNat, Nat)
    BY NatLessThanWellFounded DEF SmallerNat
<1>2. PICK x \in T : \A y \in T : ~(<<y, x>> \in SmallerNat)
    BY <1>1, WFMin
<1>3. \A m, n \in Nat : <<n, m>> \in SmallerNat <=> n < m
    BY DEF SmallerNat, OpToRel
<1>4. ASSUME NEW y \in T PROVE x <= y
    <2>1. x \in Nat /\ y \in Nat
        OBVIOUS
    <2>2. ~(<<y, x>> \in SmallerNat)
        BY <1>2
    <2>3. <<y, x>> \in SmallerNat <=> y < x
        BY <1>3, <2>1
    <2> QED
        BY <2>1, <2>2, <2>3
<1> QED
    BY <1>4

\* Two ways through the same places that agree up to n agree at n.
LEMMA AgreeAtNext ==
    ASSUME NEW P \in SUBSET Place, NEW s, NEW t, Enumerates(s, P), Enumerates(t, P),
           NEW n \in 1 .. Len(s),
           \A k \in 1 .. n - 1 : k \in 1 .. Len(t) /\ t[k] = s[k]
    PROVE  n \in 1 .. Len(t) /\ t[n] = s[n]
<1>s. /\ Len(s) \in Nat /\ \A k \in 1 .. Len(s) : s[k] \in Place /\ s[k] \in P
      /\ \A x \in P : \E k \in 1 .. Len(s) : s[k] = x
      /\ \A j, k \in 1 .. Len(s) : j < k => Before(s[j], s[k])
    BY PlacesType
<1>t. /\ Len(t) \in Nat /\ \A k \in 1 .. Len(t) : t[k] \in Place /\ t[k] \in P
      /\ \A x \in P : \E k \in 1 .. Len(t) : t[k] = x
      /\ \A j, k \in 1 .. Len(t) : j < k => Before(t[j], t[k])
    BY PlacesType
<1>1. PICK j \in 1 .. Len(t) : t[j] = s[n]
    BY <1>s, <1>t
<1>2. j >= n
    <2>1. SUFFICES ASSUME j < n PROVE FALSE
        BY <1>1, <1>t
    <2>2. j \in 1 .. n - 1 /\ j \in 1 .. Len(s)
        BY <1>s, <1>1, <2>1
    <2>3. t[j] = s[j] /\ Before(s[j], s[n])
        BY <1>s, <2>1, <2>2
    <2>4. s[j] # s[n]
        BY <1>s, <2>2, <2>3, BeforeIsStrict
    <2> QED
        BY <1>1, <2>3, <2>4
<1>3. n \in 1 .. Len(t)
    BY <1>1, <1>2, <1>s, <1>t
<1>4. PICK m \in 1 .. Len(s) : s[m] = t[n]
    BY <1>s, <1>t, <1>3
<1>5. m >= n
    <2>1. SUFFICES ASSUME m < n PROVE FALSE
        BY <1>4, <1>s
    <2>2. m \in 1 .. n - 1 /\ m \in 1 .. Len(t)
        BY <1>s, <1>t, <1>3, <1>4, <2>1
    <2>3. t[m] = s[m] /\ Before(t[m], t[n])
        BY <1>t, <1>3, <2>1, <2>2
    <2>4. t[m] # t[n]
        BY <1>t, <1>3, <2>2, <2>3, BeforeIsStrict
    <2> QED
        BY <1>4, <2>3, <2>4
<1>6. CASE j > n /\ m > n
    <2>1. Before(t[n], t[j]) /\ Before(s[n], s[m])
        BY <1>s, <1>t, <1>1, <1>3, <1>4, <1>6
    <2>2. Before(t[n], s[n]) /\ Before(s[n], t[n])
        BY <1>1, <1>4, <2>1
    <2>3. s[n] \in Place /\ t[n] \in Place
        BY <1>s, <1>t, <1>3
    <2> QED
        BY <2>2, <2>3, BeforeIsStrict
<1>7. CASE ~(j > n /\ m > n)
    <2>1. j = n \/ m = n
        BY <1>1, <1>2, <1>4, <1>5, <1>7, <1>s, <1>t
    <2> QED
        BY <1>1, <1>3, <1>4, <2>1
<1> QED
    BY <1>6, <1>7, <1>3

\* There is one way through the places.
LEMMA OneWay ==
    ASSUME NEW P \in SUBSET Place, NEW s, NEW t, Enumerates(s, P), Enumerates(t, P)
    PROVE  s = t
<1>1. /\ s \in Seq(P) /\ t \in Seq(P) /\ Len(s) \in Nat /\ Len(t) \in Nat
    BY EnumerationType
<1> DEFINE Agree(n) == n \in 1 .. Len(s) /\ n \in 1 .. Len(t) /\ t[n] = s[n]
           Bad == {n \in Nat : (n \in 1 .. Len(s) \/ n \in 1 .. Len(t)) /\ ~Agree(n)}
<1>2. Bad = {}
    <2> SUFFICES ASSUME Bad # {} PROVE FALSE
        OBVIOUS
    <2>1. Bad \in SUBSET Nat
        OBVIOUS
    <2>2. PICK n \in Bad : \A k \in Bad : n <= k
        <3> HIDE DEF Bad
        <3> QED
            BY <2>1, SmallestExists
    <2>3. n \in Nat /\ (n \in 1 .. Len(s) \/ n \in 1 .. Len(t)) /\ ~Agree(n)
        BY <2>2
    <2>4. ASSUME NEW k \in 1 .. n - 1 PROVE Agree(k)
        <3>1. k \in Nat /\ k < n /\ (k \in 1 .. Len(s) \/ k \in 1 .. Len(t))
            BY <1>1, <2>3
        <3> QED
            BY <2>2, <3>1
    <2>5. CASE n \in 1 .. Len(s)
        <3>1. \A k \in 1 .. n - 1 : k \in 1 .. Len(t) /\ t[k] = s[k]
            BY <2>4
        <3>2. n \in 1 .. Len(t) /\ t[n] = s[n]
            <4> HIDE DEF Agree, Bad
            <4> QED
                BY <2>5, <3>1, AgreeAtNext
        <3> QED
            BY <2>3, <2>5, <3>2
    <2>6. CASE n \in 1 .. Len(t)
        <3>1. \A k \in 1 .. n - 1 : k \in 1 .. Len(s) /\ s[k] = t[k]
            BY <2>4
        <3>2. n \in 1 .. Len(s) /\ s[n] = t[n]
            <4> HIDE DEF Agree, Bad
            <4> QED
                BY <2>6, <3>1, AgreeAtNext
        <3> QED
            BY <2>3, <2>6, <3>2
    <2> QED
        BY <2>3, <2>5, <2>6
<1>3. ASSUME NEW n \in Nat, n \in 1 .. Len(s) \/ n \in 1 .. Len(t)
      PROVE  Agree(n)
    BY <1>2, <1>3
<1>4. Len(s) = Len(t)
    <2>1. CASE Len(s) < Len(t)
        <3>1. Len(t) \in 1 .. Len(t)
            BY <1>1, <2>1
        <3>2. Len(t) \in 1 .. Len(s)
            BY <1>1, <1>3, <3>1
        <3> QED
            BY <1>1, <2>1, <3>2
    <2>2. CASE Len(t) < Len(s)
        <3>1. Len(s) \in 1 .. Len(s)
            BY <1>1, <2>2
        <3>2. Len(s) \in 1 .. Len(t)
            BY <1>1, <1>3, <3>1
        <3> QED
            BY <1>1, <2>2, <3>2
    <2> QED
        BY <1>1, <2>1, <2>2
<1>5. \A n \in 1 .. Len(s) : s[n] = t[n]
    BY <1>1, <1>3
<1> QED
    BY <1>1, <1>4, <1>5, SeqEqual

\* InOrder finds it.
LEMMA InOrderIs ==
    ASSUME NEW P \in SUBSET Place, NEW s, Enumerates(s, P)
    PROVE  InOrder(P) = s
<1>1. /\ s \in Seq(P) /\ Len(s) \in Nat /\ DOMAIN s = 1 .. Len(s) /\ s \in [1 .. Len(s) -> P]
      /\ \A k \in 1 .. Len(s) : s[k] \in P
      /\ \A x \in P : \E k \in 1 .. Len(s) : s[k] = x
      /\ \A j, k \in 1 .. Len(s) : j < k => Before(s[j], s[k])
    BY EnumerationType
<1>2. ASSUME NEW j \in 1 .. Len(s), NEW k \in 1 .. Len(s), s[j] = s[k]
      PROVE  j = k
    <2>1. s[j] \in Place /\ s[k] \in Place
        BY <1>1
    <2>2. ~Before(s[j], s[k]) /\ ~Before(s[k], s[j])
        BY <1>2, <2>1, BeforeIsStrict
    <2>3. ~(j < k) /\ ~(k < j)
        BY <1>1, <2>2
    <2> QED
        BY <1>1, <2>3
<1>3. s \in Bijection(1 .. Len(s), P)
    BY <1>1, <1>2 DEF Bijection, Injection, Surjection, IsInjective
<1>4. Cardinality(P) = Len(s)
    BY <1>1, <1>3, FS_CountingElements DEF ExistsBijection
<1>5. s \in [1 .. Cardinality(P) -> P] /\ GoesThrough(s, P)
    BY <1>1, <1>4 DEF Enumerates
<1> DEFINE c == InOrder(P)
<1>6. c \in [1 .. Cardinality(P) -> P] /\ GoesThrough(c, P)
    BY <1>5 DEF InOrder
<1> HIDE DEF c
<1>7. c \in Seq(P)
    BY <1>1, <1>4, <1>6, SeqDef
<1>8. Enumerates(c, P)
    BY <1>6, <1>7 DEF Enumerates
<1>9. c = s
    BY <1>8, OneWay
<1> QED
    BY <1>9 DEF c

\* One part of the places after the other.
LEMMA WaysJoin ==
    ASSUME NEW P \in SUBSET Place, NEW Q \in SUBSET Place, NEW s, NEW t,
           Enumerates(s, P), Enumerates(t, Q), \A x \in P, y \in Q : Before(x, y)
    PROVE  Enumerates(s \o t, P \cup Q)
<1> DEFINE u == s \o t
           m == Len(s)
           n == Len(t)
<1>1. /\ s \in Seq(P) /\ m \in Nat
      /\ \A k \in 1 .. m : s[k] \in P
      /\ \A x \in P : \E k \in 1 .. m : s[k] = x
      /\ \A j, k \in 1 .. m : j < k => Before(s[j], s[k])
    BY EnumerationType
<1>2. /\ t \in Seq(Q) /\ n \in Nat
      /\ \A k \in 1 .. n : t[k] \in Q
      /\ \A x \in Q : \E k \in 1 .. n : t[k] = x
      /\ \A j, k \in 1 .. n : j < k => Before(t[j], t[k])
    BY EnumerationType
<1>3. s \in Seq(P \cup Q) /\ t \in Seq(P \cup Q)
    <2>1. P \subseteq P \cup Q /\ Q \subseteq P \cup Q
        OBVIOUS
    <2> QED
        BY <1>1, <1>2, <2>1, SeqMonotonic
<1>4. /\ u \in Seq(P \cup Q) /\ Len(u) = m + n
      /\ \A k \in 1 .. m + n : u[k] = IF k <= m THEN s[k] ELSE t[k - m]
    BY <1>3, ConcatProperties
<1> HIDE DEF u, m, n
<1>5. DOMAIN u = 1 .. m + n
    BY <1>4, LenProperties
<1>6. \A x \in P \cup Q : \E k \in 1 .. m + n : u[k] = x
    <2>1. ASSUME NEW k \in 1 .. m PROVE k \in 1 .. m + n /\ u[k] = s[k]
        BY <1>1, <1>2, <1>4
    <2>2. ASSUME NEW k \in 1 .. n PROVE m + k \in 1 .. m + n /\ u[m + k] = t[k]
        <3>1. m + k \in 1 .. m + n /\ ~(m + k <= m) /\ (m + k) - m = k
            BY <1>1, <1>2
        <3> QED
            BY <1>4, <3>1
    <2> QED
        BY <1>1, <1>2, <2>1, <2>2
<1>7. ASSUME NEW j \in 1 .. m + n, NEW k \in 1 .. m + n, j < k
      PROVE  Before(u[j], u[k])
    <2>1. CASE k <= m
        <3>1. j \in 1 .. m /\ k \in 1 .. m
            BY <1>1, <1>7, <2>1
        <3> QED
            BY <1>1, <1>4, <1>7, <3>1
    <2>2. CASE j > m
        <3>1. j - m \in 1 .. n /\ k - m \in 1 .. n /\ j - m < k - m /\ ~(j <= m) /\ ~(k <= m)
            BY <1>1, <1>2, <1>7, <2>2
        <3>2. u[j] = t[j - m] /\ u[k] = t[k - m]
            BY <1>4, <3>1
        <3> QED
            BY <1>2, <3>1, <3>2
    <2>3. CASE j <= m /\ k > m
        <3>1. j \in 1 .. m /\ k - m \in 1 .. n /\ ~(k <= m)
            BY <1>1, <1>2, <1>7, <2>3
        <3>2. u[j] = s[j] /\ u[k] = t[k - m]
            BY <1>4, <2>3, <3>1
        <3> QED
            BY <1>1, <1>2, <3>1, <3>2
    <2> QED
        BY <1>1, <1>7, <2>1, <2>2, <2>3
<1>8. Enumerates(u, P \cup Q)
    BY <1>4, <1>5, <1>6, <1>7 DEF Enumerates, GoesThrough
<1> QED
    BY <1>8 DEF u

\* A way through places of which Q comes first, and its two parts.
LEMMA WaysPart ==
    ASSUME NEW P \in SUBSET Place, NEW Q \in SUBSET P, NEW s, Enumerates(s, P),
           \A x \in Q, y \in P \ Q : Before(x, y)
    PROVE  \E k \in 0 .. Len(s) :
              /\ Enumerates(SubSeq(s, 1, k), Q)
              /\ Enumerates(SubSeq(s, k + 1, Len(s)), P \ Q)
<1> DEFINE n == Len(s)
<1>1. /\ s \in Seq(P) /\ n \in Nat
      /\ \A k \in 1 .. n : s[k] \in P /\ s[k] \in Place
      /\ \A x \in P : \E k \in 1 .. n : s[k] = x
      /\ \A j, k \in 1 .. n : j < k => Before(s[j], s[k])
    BY EnumerationType
<1> HIDE DEF n
<1> DEFINE Out == {j \in 1 .. n + 1 : j = n + 1 \/ s[j] \notin Q}
<1>2. Out \in SUBSET Nat /\ Out # {}
    <2>1. n + 1 \in Out
        BY <1>1
    <2> QED
        BY <1>1, <2>1
<1>3. PICK f \in Out : \A j \in Out : f <= j
    <2> HIDE DEF Out
    <2> QED
        BY <1>2, SmallestExists
<1> DEFINE c == f - 1
<1>4. c \in 0 .. n /\ c \in Nat /\ f = c + 1
    BY <1>1, <1>3
<1>5. ASSUME NEW j \in 1 .. n PROVE s[j] \in Q <=> j <= c
    <2>1. CASE j <= c
        <3>1. j \notin Out
            BY <1>1, <1>3, <1>4, <2>1
        <3> QED
            BY <1>1, <1>5, <2>1, <3>1
    <2>2. CASE j = f
        BY <1>1, <1>3, <1>4, <1>5, <2>2
    <2>3. CASE j > f
        <3>1. f \in 1 .. n /\ s[f] \in P \ Q
            BY <1>1, <1>3, <1>5, <2>3
        <3>2. Before(s[f], s[j])
            BY <1>1, <1>5, <2>3, <3>1
        <3>3. ~Before(s[j], s[f])
            BY <1>1, <1>5, <3>1, <3>2, BeforeIsStrict
        <3>4. s[j] \notin Q
            BY <3>1, <3>3
        <3> QED
            BY <1>1, <1>4, <2>3, <3>4
    <2> QED
        BY <1>1, <1>4, <2>1, <2>2, <2>3
<1> HIDE DEF c, Out
<1>6. Enumerates(SubSeq(s, 1, c), Q)
    <2> DEFINE q == SubSeq(s, 1, c)
    <2>1. \A i \in 1 .. c : s[i] \in Q
        BY <1>1, <1>4, <1>5
    <2>2. 1 \in Int /\ c \in Int /\ c - 1 + 1 = c /\ (1 <= c <=> c # 0)
        BY <1>4
    <2>3. /\ q \in Seq(Q) /\ Len(q) = IF 1 <= c THEN c - 1 + 1 ELSE 0
          /\ \A i \in 1 .. c - 1 + 1 : q[i] = s[1 + i - 1]
        BY <2>1, <2>2, SubSeqProperties
    <2>4. q \in Seq(Q) /\ Len(q) = c /\ \A i \in 1 .. c : q[i] = s[i]
        <3>1. \A i \in 1 .. c : 1 + i - 1 = i
            BY <1>4
        <3> QED
            BY <2>2, <2>3, <3>1
    <2> HIDE DEF q
    <2>5. DOMAIN q = 1 .. c
        BY <2>4, LenProperties
    <2>6. ASSUME NEW x \in Q PROVE \E i \in 1 .. c : q[i] = x
        <3>1. PICK i \in 1 .. n : s[i] = x
            BY <1>1
        <3>2. i \in 1 .. c
            BY <1>4, <1>5, <3>1
        <3> QED
            BY <2>4, <3>1, <3>2
    <2>7. ASSUME NEW i \in 1 .. c, NEW j \in 1 .. c, i < j PROVE Before(q[i], q[j])
        <3>1. i \in 1 .. n /\ j \in 1 .. n
            BY <1>1, <1>4
        <3> QED
            BY <1>1, <2>4, <2>7, <3>1
    <2>8. Enumerates(q, Q)
        BY <2>4, <2>5, <2>6, <2>7 DEF Enumerates, GoesThrough
    <2> QED
        BY <2>8 DEF q
<1>7. Enumerates(SubSeq(s, c + 1, n), P \ Q)
    <2> DEFINE q == SubSeq(s, c + 1, n)
               l == n - c
    <2>1. \A i \in c + 1 .. n : s[i] \in P \ Q
        BY <1>1, <1>4, <1>5
    <2>2. c + 1 \in Int /\ n \in Int /\ l \in Nat /\ n - (c + 1) + 1 = l /\ (c + 1 <= n <=> l # 0)
        BY <1>1, <1>4
    <2>3. /\ q \in Seq(P \ Q) /\ Len(q) = IF c + 1 <= n THEN n - (c + 1) + 1 ELSE 0
          /\ \A i \in 1 .. n - (c + 1) + 1 : q[i] = s[(c + 1) + i - 1]
        BY <2>1, <2>2, SubSeqProperties
    <2>4. q \in Seq(P \ Q) /\ Len(q) = l /\ \A i \in 1 .. l : q[i] = s[c + i]
        <3>1. \A i \in 1 .. l : (c + 1) + i - 1 = c + i
            BY <1>4, <2>2
        <3> QED
            BY <2>2, <2>3, <3>1
    <2>9. l \in Nat /\ c + l = n
        BY <1>1, <1>4
    <2> HIDE DEF q, l
    <2>5. DOMAIN q = 1 .. l
        BY <2>4, LenProperties
    <2>6. ASSUME NEW x \in P \ Q PROVE \E i \in 1 .. l : q[i] = x
        <3>1. PICK i \in 1 .. n : s[i] = x
            BY <1>1
        <3>2. i - c \in 1 .. l /\ c + (i - c) = i
            BY <1>1, <1>4, <1>5, <2>9, <3>1
        <3> QED
            BY <2>4, <3>1, <3>2
    <2>7. ASSUME NEW i \in 1 .. l, NEW j \in 1 .. l, i < j PROVE Before(q[i], q[j])
        <3>1. c + i \in 1 .. n /\ c + j \in 1 .. n /\ c + i < c + j
            BY <1>4, <2>7, <2>9
        <3> QED
            BY <1>1, <2>4, <3>1
    <2>8. Enumerates(q, P \ Q)
        BY <2>4, <2>5, <2>6, <2>7 DEF Enumerates, GoesThrough
    <2> QED
        BY <2>8 DEF q
<1> QED
    BY <1>4, <1>6, <1>7 DEF n

LEMMA NoPlaces == Enumerates(<<>>, {})
<1>1. <<>> \in Seq({}) /\ Len(<<>>) = 0
    BY EmptySeq
<1>2. DOMAIN <<>> = 1 .. 0
    BY <1>1, LenProperties
<1> QED
    BY <1>1, <1>2 DEF Enumerates, GoesThrough

LEMMA OnePlace ==
    ASSUME NEW x
    PROVE  Enumerates(<<x>>, {x})
  BY DEF Enumerates, GoesThrough

-----------------------------------------------------------------------------
(* The records of places. *)

LEMMA RecordsType ==
    ASSUME NEW P, NEW R, \A x \in P : R[x] \in Records, NEW s \in Seq(P)
    PROVE  /\ At(R, s) \in Seq(Records) /\ Len(At(R, s)) = Len(s)
           /\ \A k \in 1 .. Len(s) : At(R, s)[k] = R[s[k]]
<1>1. Len(s) \in Nat /\ DOMAIN s = 1 .. Len(s) /\ \A k \in 1 .. Len(s) : s[k] \in P
    BY LenProperties, ElementOfSeq
<1>2. At(R, s) \in [1 .. Len(s) -> Records]
    BY <1>1 DEF At
<1>3. At(R, s) \in Seq(Records)
    BY <1>1, <1>2, SeqDef
<1>4. DOMAIN At(R, s) = 1 .. Len(At(R, s)) /\ Len(At(R, s)) \in Nat
    BY <1>3, LenProperties
<1>5. DOMAIN At(R, s) = 1 .. Len(s)
    BY <1>1 DEF At
<1>6. Len(At(R, s)) = Len(s)
    <2> DEFINE l == Len(At(R, s))
               n == Len(s)
    <2>1. l \in Nat /\ n \in Nat /\ 1 .. l = 1 .. n
        BY <1>1, <1>4, <1>5
    <2> HIDE DEF l, n
    <2>2. l = n
        <3>1. l \in 1 .. l <=> l # 0
            BY <2>1
        <3>2. n \in 1 .. n <=> n # 0
            BY <2>1
        <3>3. (l # 0 => l \in 1 .. n) /\ (n # 0 => n \in 1 .. l)
            BY <2>1, <3>1, <3>2
        <3>4. (l # 0 => l <= n) /\ (n # 0 => n <= l)
            BY <2>1, <3>3
        <3> QED
            BY <2>1, <3>4
    <2> QED
        BY <2>2 DEF l, n
<1> QED
    BY <1>1, <1>3, <1>6 DEF At

LEMMA RecordsJoin ==
    ASSUME NEW P, NEW R, \A x \in P : R[x] \in Records, NEW s \in Seq(P), NEW t \in Seq(P)
    PROVE  At(R, s \o t) = At(R, s) \o At(R, t)
<1> DEFINE m == Len(s)
           n == Len(t)
           u == s \o t
           a == At(R, s)
           b == At(R, t)
<1>1. m \in Nat /\ n \in Nat
    BY LenProperties
<1>2. u \in Seq(P) /\ Len(u) = m + n /\ \A k \in 1 .. m + n : u[k] = IF k <= m THEN s[k] ELSE t[k - m]
    BY ConcatProperties
<1>3. a \in Seq(Records) /\ Len(a) = m /\ \A k \in 1 .. m : a[k] = R[s[k]]
    BY RecordsType
<1>4. b \in Seq(Records) /\ Len(b) = n /\ \A k \in 1 .. n : b[k] = R[t[k]]
    BY RecordsType
<1> HIDE DEF m, n
<1>5. /\ a \o b \in Seq(Records) /\ Len(a \o b) = m + n
      /\ \A k \in 1 .. m + n : (a \o b)[k] = IF k <= m THEN a[k] ELSE b[k - m]
    <2> HIDE DEF a, b
    <2>1. /\ a \o b \in Seq(Records) /\ Len(a \o b) = Len(a) + Len(b)
          /\ \A k \in 1 .. Len(a) + Len(b) : (a \o b)[k] = IF k <= Len(a) THEN a[k] ELSE b[k - Len(a)]
        BY <1>3, <1>4, ConcatProperties
    <2> QED
        BY <1>3, <1>4, <2>1
<1>6. At(R, u) \in Seq(Records) /\ Len(At(R, u)) = Len(u) /\ \A k \in 1 .. Len(u) : At(R, u)[k] = R[u[k]]
    <2> HIDE DEF u, a, b
    <2> QED
        BY <1>2, RecordsType
<1> HIDE DEF u, a, b
<1>9. \A k \in 1 .. m + n : At(R, u)[k] = R[u[k]]
    BY <1>2, <1>6
<1>7. ASSUME NEW k \in 1 .. m + n PROVE At(R, u)[k] = (a \o b)[k]
    <2>3. At(R, u)[k] = R[u[k]]
        BY <1>9
    <2>1. CASE k <= m
        <3>1. k \in 1 .. m
            BY <1>1, <2>1
        <3> QED
            BY <1>2, <1>3, <1>5, <2>1, <2>3, <3>1
    <2>2. CASE ~(k <= m)
        <3>1. k - m \in 1 .. n
            BY <1>1, <2>2
        <3> QED
            BY <1>2, <1>4, <1>5, <2>2, <2>3, <3>1
    <2> QED
        BY <2>1, <2>2
<1>8. At(R, u) = a \o b
    BY <1>2, <1>5, <1>6, <1>7, SeqEqual
<1> QED
    BY <1>8 DEF u, a, b

LEMMA RecordsPart ==
    ASSUME NEW P, NEW R, \A x \in P : R[x] \in Records, NEW s \in Seq(P),
           NEW i \in 1 .. Len(s) + 1, NEW j \in 0 .. Len(s)
    PROVE  At(R, SubSeq(s, i, j)) = SubSeq(At(R, s), i, j)
<1> DEFINE n == Len(s)
           q == SubSeq(s, i, j)
           a == At(R, s)
           l == IF i <= j THEN j - i + 1 ELSE 0
<1>1. n \in Nat /\ i \in Int /\ j \in Int /\ \A k \in i .. j : k \in 1 .. n /\ s[k] \in P
    <2>1. n \in Nat /\ \A k \in 1 .. n : s[k] \in P
        BY LenProperties, ElementOfSeq
    <2> QED
        BY <2>1
<1>2. a \in Seq(Records) /\ Len(a) = n /\ \A k \in 1 .. n : a[k] = R[s[k]]
    BY RecordsType
<1>3. /\ q \in Seq(P) /\ Len(q) = l
      /\ \A k \in 1 .. j - i + 1 : q[k] = s[i + k - 1]
    BY <1>1, SubSeqProperties
<1>4. \A k \in i .. j : a[k] \in Records
    BY <1>1, <1>2
<1>5. /\ SubSeq(a, i, j) \in Seq(Records) /\ Len(SubSeq(a, i, j)) = l
      /\ \A k \in 1 .. j - i + 1 : SubSeq(a, i, j)[k] = a[i + k - 1]
    <2> HIDE DEF a
    <2> QED
        BY <1>1, <1>4, SubSeqProperties
<1>6. At(R, q) \in Seq(Records) /\ Len(At(R, q)) = Len(q) /\ \A k \in 1 .. Len(q) : At(R, q)[k] = R[q[k]]
    <2> HIDE DEF q, l
    <2> QED
        BY <1>3, RecordsType
<1>7. ASSUME NEW k \in 1 .. l PROVE k \in 1 .. j - i + 1 /\ i + k - 1 \in 1 .. n
    BY <1>1
<1> HIDE DEF n, q, a, l
<1>8. ASSUME NEW k \in 1 .. l PROVE At(R, q)[k] = SubSeq(a, i, j)[k]
    <2>1. k \in 1 .. j - i + 1 /\ i + k - 1 \in 1 .. n
        BY <1>7
    <2>2. At(R, q)[k] = R[q[k]] /\ q[k] = s[i + k - 1]
        BY <1>3, <1>6, <2>1
    <2>3. SubSeq(a, i, j)[k] = a[i + k - 1]
        BY <1>5, <2>1
    <2> QED
        BY <1>2, <2>1, <2>2, <2>3
<1>9. At(R, q) = SubSeq(a, i, j)
    BY <1>3, <1>5, <1>6, <1>8, SeqEqual
<1> QED
    BY <1>9 DEF q, a

\* d goes through D and s through N: the places of N not in M join D.
Splits(D, N, M, d, s, R) ==
    \E k \in 0 .. Len(s) : \E d1, m1 :
        /\ Enumerates(d1, D \cup (N \ M)) /\ At(R, d1) = At(R, d) \o SubSeq(At(R, s), 1, k)
        /\ Enumerates(m1, M) /\ At(R, m1) = SubSeq(At(R, s), k + 1, Len(s))

\* New places N come after those on disk, D; the last of them, M, stay in
\* memory and the others join D.
LEMMA LogSplits ==
    ASSUME NEW D \in SUBSET Place, NEW N \in SUBSET Place, NEW M \in SUBSET N,
           NEW d, NEW s, Enumerates(d, D), Enumerates(s, N),
           \A x \in D, y \in N : Before(x, y),
           \A x \in N \ M, y \in M : Before(x, y),
           NEW R, \A x \in D \cup N : R[x] \in Records
    PROVE  Splits(D, N, M, d, s, R)
<1>1. N \ M \in SUBSET N /\ N \ (N \ M) = M
    OBVIOUS
<1>2. PICK k \in 0 .. Len(s) :
          /\ Enumerates(SubSeq(s, 1, k), N \ M)
          /\ Enumerates(SubSeq(s, k + 1, Len(s)), M)
    <2> DEFINE Q == N \ M
    <2>1. Q \in SUBSET N /\ N \ Q = M /\ \A x \in Q, y \in N \ Q : Before(x, y)
        BY <1>1
    <2> HIDE DEF Q
    <2>2. \E k \in 0 .. Len(s) :
              /\ Enumerates(SubSeq(s, 1, k), Q)
              /\ Enumerates(SubSeq(s, k + 1, Len(s)), N \ Q)
        BY <2>1, WaysPart
    <2> QED
        BY <2>1, <2>2 DEF Q
<1>3. Enumerates(d \o SubSeq(s, 1, k), D \cup (N \ M))
    <2>1. N \ M \in SUBSET Place /\ \A x \in D, y \in N \ M : Before(x, y)
        OBVIOUS
    <2> QED
        BY <1>2, <2>1, WaysJoin
<1>4. /\ s \in Seq(N) /\ Len(s) \in Nat /\ d \in Seq(D \cup N) /\ s \in Seq(D \cup N)
      /\ SubSeq(s, 1, k) \in Seq(D \cup N)
    <2>1. s \in Seq(N) /\ d \in Seq(D) /\ SubSeq(s, 1, k) \in Seq(N \ M) /\ Len(s) \in Nat
        BY <1>2, EnumerationType
    <2>2. D \subseteq D \cup N /\ N \subseteq D \cup N /\ N \ M \subseteq D \cup N
        OBVIOUS
    <2> QED
        BY <2>1, <2>2, SeqMonotonic
<1>5. At(R, d \o SubSeq(s, 1, k)) = At(R, d) \o At(R, SubSeq(s, 1, k))
    <2> DEFINE P == D \cup N
               q == SubSeq(s, 1, k)
    <2>1. d \in Seq(P) /\ q \in Seq(P) /\ \A x \in P : R[x] \in Records
        BY <1>4
    <2> HIDE DEF P, q
    <2>2. At(R, d \o q) = At(R, d) \o At(R, q)
        BY <2>1, RecordsJoin
    <2> QED
        BY <2>2 DEF q
<1>6. /\ At(R, SubSeq(s, 1, k)) = SubSeq(At(R, s), 1, k)
      /\ At(R, SubSeq(s, k + 1, Len(s))) = SubSeq(At(R, s), k + 1, Len(s))
    <2>1. 1 \in 1 .. Len(s) + 1 /\ k + 1 \in 1 .. Len(s) + 1 /\ Len(s) \in 0 .. Len(s)
        BY <1>4
    <2>2. \A x \in N : R[x] \in Records
        OBVIOUS
    <2>3. At(R, SubSeq(s, 1, k)) = SubSeq(At(R, s), 1, k)
        BY <1>4, <2>1, <2>2, RecordsPart
    <2>4. At(R, SubSeq(s, k + 1, Len(s))) = SubSeq(At(R, s), k + 1, Len(s))
        <3> DEFINE n == Len(s)
                   i == k + 1
        <3>1. i \in 1 .. Len(s) + 1 /\ n \in 0 .. Len(s) /\ s \in Seq(N)
            BY <1>4, <2>1
        <3> HIDE DEF n, i
        <3>2. At(R, SubSeq(s, i, n)) = SubSeq(At(R, s), i, n)
            BY <2>2, <3>1, RecordsPart
        <3> QED
            BY <3>2 DEF n, i
    <2> QED
        BY <2>3, <2>4
<1> QED
    BY <1>2, <1>3, <1>5, <1>6 DEF Splits

-----------------------------------------------------------------------------
USE ConfigAssumption, NoFileAssumption DEF Exists

-----------------------------------------------------------------------------
(* Sequences of halves *)

\* Both parts of a cut sequence of halves are sequences of halves.
LEMMA CutType ==
    ASSUME NEW s \in Seq(Half), NEW k \in 0 .. Len(s)
    PROVE  /\ SubSeq(s, 1, k) \in Seq(Half)
           /\ SubSeq(s, k + 1, Len(s)) \in Seq(Half)
<1>1. \A i \in 1 .. k : s[i] \in Half
    BY ElementOfSeq
<1>2. \A i \in k + 1 .. Len(s) : s[i] \in Half
    BY ElementOfSeq
<1> QED
    BY <1>1, <1>2, SubSeqProperties, LenProperties

\* The line of a record is a sequence of halves.
LEMMA LineType ==
    ASSUME NEW r \in {Header} \cup Records
    PROVE  Line(r) \in Seq(Half)
    BY DEF Line, Half

\* Appending keeps what was there.
LEMMA ConcatPrefix ==
    ASSUME NEW s \in Seq(Half), NEW t \in Seq(Half)
    PROVE  s \o t \in Seq(Half) /\ IsPrefixOf(s, s \o t)
    BY ConcatProperties, LenProperties DEF IsPrefixOf

LEMMA PrefixReflexive ==
    ASSUME NEW s \in Seq(Half)
    PROVE  IsPrefixOf(s, s)
    BY LenProperties DEF IsPrefixOf

-----------------------------------------------------------------------------
(* Type correctness.  A flush extends the file of the handle, so the handle  *)
(* must be the path of a file; a record under way must be one of Records.    *)

HandleOpen == pc # "down" => Exists(handle)
RecordAtHand == pc \notin {"down", "idle"} => next \in Records

TInv == TypeOK /\ HandleOpen /\ RecordAtHand

\* The writer only adds to the file it has open.
Grows == \E s \in Seq(Half) : disk' = [disk EXCEPT ![handle] = @ \o s]

\* What a step that grows the open file does to the files.
LEMMA GrowKeepsFiles ==
    ASSUME TypeOK, Exists(handle), Grows
    PROVE  /\ disk' \in [Paths -> Seq(Half) \cup {NoFile}]
           /\ \A p \in Paths : Exists(p)' <=> Exists(p)
           /\ \A p \in Paths : Exists(p) => IsPrefixOf(disk[p], disk'[p])
<1> PICK s \in Seq(Half) : disk' = [disk EXCEPT ![handle] = @ \o s]
    BY DEF Grows
<1>1. disk[handle] \in Seq(Half)
    BY DEF TypeOK
<1>2. disk[handle] \o s \in Seq(Half) /\ IsPrefixOf(disk[handle], disk[handle] \o s)
    BY <1>1, ConcatPrefix
<1>3. /\ disk'[handle] = disk[handle] \o s
      /\ \A p \in Paths \ {handle} : disk'[p] = disk[p]
    BY DEF TypeOK
<1>4. disk' \in [Paths -> Seq(Half) \cup {NoFile}]
    BY <1>2 DEF TypeOK
<1>5. ASSUME NEW p \in Paths
      PROVE  (Exists(p)' <=> Exists(p)) /\ (Exists(p) => IsPrefixOf(disk[p], disk'[p]))
    <2>1. CASE p = handle
        BY <1>2, <1>3, <2>1
    <2>2. CASE p # handle
        <3>1. Exists(p) => disk[p] \in Seq(Half)
            BY DEF TypeOK
        <3>2. Exists(p) => IsPrefixOf(disk[p], disk[p])
            BY <3>1, PrefixReflexive
        <3> QED
            BY <1>3, <2>2, <3>2
    <2> QED
        BY <2>1, <2>2
<1> QED
    BY <1>4, <1>5

\* The buffer operations of flush, successful or not, grow the open file.
LEMMA FlushGrows ==
    ASSUME TypeOK, FlushOk \/ FlushFails
    PROVE  Grows /\ buf' \in Seq(Half) /\ recordsWritten' \in Nat /\ lastFlush' \in 0 .. MaxTime
<1>1. CASE FlushOk
    <2>1. Grows
        BY <1>1 DEF FlushOk, Grows, TypeOK
    <2>2. <<>> \in Seq(Half)
        BY EmptySeq
    <2> QED
        BY <1>1, <2>1, <2>2 DEF FlushOk, TypeOK
<1>2. CASE FlushFails
    <2> PICK k \in 0 .. Len(buf) :
            /\ disk' = [disk EXCEPT ![handle] = @ \o SubSeq(buf, 1, k)]
            /\ buf' = SubSeq(buf, k + 1, Len(buf))
            /\ UNCHANGED <<recordsWritten, lastFlush>>
        BY <1>2 DEF FlushFails
    <2> QED
        BY CutType DEF Grows, TypeOK
<1> QED
    BY <1>1, <1>2

LEMMA AppendGrows ==
    ASSUME TInv, AppendRecord
    PROVE  Grows /\ buf' \in Seq(Half)
<1> DEFINE all == buf \o Line(next)
           spill == IF Len(all) > BufCap THEN BufCap ELSE 0
<1>1. all \in Seq(Half)
    BY LineType, ConcatPrefix DEF TInv, TypeOK, RecordAtHand, AppendRecord
<1>2. spill \in 0 .. Len(all)
    BY <1>1, LenProperties
<1>3. SubSeq(all, 1, spill) \in Seq(Half) /\ SubSeq(all, spill + 1, Len(all)) \in Seq(Half)
    BY <1>1, <1>2, CutType
<1>4. /\ disk' = [disk EXCEPT ![handle] = @ \o SubSeq(all, 1, spill)]
      /\ buf' = SubSeq(all, spill + 1, Len(all))
    BY DEF AppendRecord
<1> QED
    BY <1>3, <1>4 DEF Grows

LEMMA CloseGrows ==
    ASSUME TypeOK, Close
    PROVE  Grows
<1>1. \/ \E k \in 0 .. Len(buf) :
            disk' = [disk EXCEPT ![handle] = @ \o SubSeq(buf, 1, k)]
      \/ disk' = [disk EXCEPT ![handle] = @ \o buf]
    BY DEF Close
<1>2. \A k \in 0 .. Len(buf) : SubSeq(buf, 1, k) \in Seq(Half)
    BY CutType DEF TypeOK
<1> QED
    BY <1>1, <1>2 DEF Grows, TypeOK
-----------------------------------------------------------------------------
LEMMA TypeInit == Init => TInv
<1> SUFFICES ASSUME Init PROVE TInv
    OBVIOUS
<1>1. <<>> \in Seq(Half)
    BY EmptySeq
<1> QED
    <2>1. died \in BOOLEAN
        BY Zenon DEF Init
    <2>2. TypeOK
        BY <1>1, <2>1 DEF Init, TypeOK, Paths, Live, Steps, Records
    <2> QED
        BY <2>2 DEF Init, TInv, HandleOpen, RecordAtHand

LEMMA TypeStep == TInv /\ [Next]_vars => TInv'
<1> SUFFICES ASSUME TInv, [Next]_vars PROVE TInv'
    OBVIOUS
<1> USE DEF TInv, HandleOpen, RecordAtHand
<1>0. TypeOK
    OBVIOUS
<1>e. <<>> \in Seq(Half)
    BY EmptySeq
<1>n. /\ next \in 1 .. MaxRecords + 1
      /\ pc \notin {"down", "idle"} => next + 1 \in 1 .. MaxRecords + 1
      /\ pc \notin {"down", "idle"} => acked \cup {next} \subseteq Records
    <2>1. next \in 1 .. MaxRecords + 1 /\ acked \subseteq Records
        BY <1>0 DEF TypeOK
    <2>2. pc \notin {"down", "idle"} => next \in Records
        OBVIOUS
    <2>3. next \in Records => next + 1 \in 1 .. MaxRecords + 1
        BY ConfigAssumption DEF Records
    <2> QED
        BY <2>1, <2>2, <2>3
<1>g. ASSUME Grows, Exists(handle)
      PROVE  /\ disk' \in [Paths -> Seq(Half) \cup {NoFile}]
             /\ Exists(handle)'  <=> disk'[handle'] # NoFile
             /\ disk'[handle] # NoFile
    BY <1>g, <1>0, GrowKeepsFiles DEF TypeOK
<1>1. CASE Open
    <2>1. Line(Header) \in Seq(Half)
        BY LineType
    <2> QED
        BY <1>1, <1>e, <2>1 DEF Open, TypeOK, Paths, Live, Steps
<1>2. CASE StartWrite
    BY <1>2 DEF StartWrite, TypeOK, Steps, fileVars, writerVars, Records
<1>3. CASE RejectWrite
    BY <1>3 DEF RejectWrite, Reject, TypeOK, Steps, fileVars, writerVars
<1>4. CASE RotateFlush
    BY <1>4, <1>g, FlushGrows DEF RotateFlush, TypeOK, Steps
<1>5. CASE FlushError
    <2>1. /\ Grows /\ buf' \in Seq(Half)
          /\ recordsWritten' \in Nat /\ lastFlush' \in 0 .. MaxTime
        BY <1>5, <1>0, FlushGrows DEF FlushError
    <2>2. /\ disk' \in [Paths -> Seq(Half) \cup {NoFile}]
          /\ disk'[handle] # NoFile
        BY <1>5, <1>g, <2>1 DEF FlushError
    <2>3. next' \in 1 .. MaxRecords + 1
        BY <1>5, <1>n DEF FlushError, Reject
    <2>4. pc' \in Steps /\ acked' \subseteq Records /\ safe' \subseteq Records
        BY <1>5, <1>0 DEF FlushError, Reject, TypeOK, Steps
    <2>6. died' = died
        BY <1>5, Zenon DEF FlushError, Reject
    <2>5. TypeOK'
        BY <1>5, <2>1, <2>2, <2>3, <2>4, <2>6 DEF FlushError, TypeOK
    <2> QED
        BY <1>5, <2>2, <2>5 DEF FlushError, Reject
<1>6. CASE RotateRename
    <2>1. now \in Paths /\ Live \in Paths /\ now # Live
        BY DEF TypeOK, Paths, Live
    <2>2. disk' \in [Paths -> Seq(Half) \cup {NoFile}] /\ disk'[now] = disk[Live]
        BY <1>6, <2>1 DEF RotateRename, TypeOK
    <2> QED
        BY <1>6, <2>1, <2>2 DEF RotateRename, TypeOK, Steps, writerVars
<1>7. CASE RenameError
    BY <1>7 DEF RenameError, Reject, TypeOK, Steps, fileVars, writerVars, Records
<1>8. CASE RotateCreate
    <2>1. Line(Header) \in Seq(Half)
        BY LineType
    <2> QED
        BY <1>8, <1>e, <2>1 DEF RotateCreate, TypeOK, Paths, Live, Steps
<1>9. CASE CreateError
    BY <1>9 DEF CreateError, Reject, TypeOK, Steps, fileVars, writerVars, Records
<1>10. CASE AppendRecord
    <2>1. Grows /\ buf' \in Seq(Half)
        BY <1>10, AppendGrows DEF AppendRecord
    <2>2. /\ disk' \in [Paths -> Seq(Half) \cup {NoFile}]
          /\ disk'[handle] # NoFile
        BY <1>10, <1>g, <2>1 DEF AppendRecord
    <2>8. pc = "appending" /\ next' \in {next, next + 1}
        BY <1>10 DEF AppendRecord, Reject
    <2>9. pc' \in {"flushing", "idle"} /\ acked' \in {acked, acked \cup {next}} /\ safe' = safe
        BY <1>10 DEF AppendRecord, Reject
    <2>3. next' \in 1 .. MaxRecords + 1
        BY <2>8, <1>n
    <2>4. pc' \in Steps /\ acked' \subseteq Records /\ safe' \subseteq Records
        BY <2>8, <2>9, <1>0, <1>n DEF TypeOK, Steps
    <2>5. recordsWritten' = recordsWritten + 1 /\ UNCHANGED <<handle, createdAt, lastFlush, now>>
        BY <1>10 DEF AppendRecord
    <2>7. died' = died
        BY <1>10, Zenon DEF AppendRecord, Reject
    <2>6. TypeOK'
        BY <2>1, <2>2, <2>3, <2>4, <2>5, <2>7 DEF TypeOK
    <2>10. next' = next \/ pc' = "idle"
        BY <1>10 DEF AppendRecord, Reject
    <2> QED
        BY <2>2, <2>5, <2>6, <2>8, <2>10
<1>11. CASE FlushBatch
    <2>1. /\ Grows /\ buf' \in Seq(Half)
          /\ recordsWritten' \in Nat /\ lastFlush' \in 0 .. MaxTime
        BY <1>11, <1>0, FlushGrows DEF FlushBatch
    <2>2. /\ disk' \in [Paths -> Seq(Half) \cup {NoFile}]
          /\ disk'[handle] # NoFile
        BY <1>11, <1>g, <2>1 DEF FlushBatch
    <2>3. next' \in 1 .. MaxRecords + 1 /\ acked' \subseteq Records
        BY <1>11, <1>n DEF FlushBatch
    <2>4. safe' \subseteq Records
        BY <1>11, <1>0, <2>3 DEF FlushBatch, TypeOK
    <2>5. pc' = "idle" /\ pc' \in Steps /\ UNCHANGED <<handle, createdAt, now>>
        BY <1>11 DEF FlushBatch, Steps
    <2>6. died' = died
        BY <1>11, Zenon DEF FlushBatch
    <2>7. TypeOK'
        BY <2>1, <2>2, <2>3, <2>4, <2>5, <2>6 DEF TypeOK
    <2> QED
        BY <2>2, <2>5, <2>7
<1>12. CASE Flush
    BY <1>12, <1>g, FlushGrows DEF Flush, TypeOK
<1>13. CASE Close
    BY <1>13, <1>e, <1>g, CloseGrows DEF Close, TypeOK, Steps
<1>14. CASE Crash
    BY <1>14, <1>e DEF Crash, TypeOK, Steps, fileVars, Records
<1>15. CASE Tick
    BY <1>15 DEF Tick, TypeOK, fileVars, writerVars
<1>16. CASE ClockBack
    BY <1>16 DEF ClockBack, TypeOK, fileVars, writerVars
<1>17. CASE UNCHANGED vars
    BY <1>17 DEF vars, TypeOK
<1> QED
    BY <1>1, <1>2, <1>3, <1>4, <1>5, <1>6, <1>7, <1>8, <1>9, <1>10, <1>11,
       <1>12, <1>13, <1>14, <1>15, <1>16, <1>17 DEF Next, WriteStep

LEMMA TypeInvariant == Spec => []TInv
    BY TypeInit, TypeStep, PTL DEF Spec

\* The type invariant of CsvWriter, for all values of the constants.
THEOREM TypeCorrect == Spec => []TypeOK
    BY TypeInvariant, PTL DEF TInv

-----------------------------------------------------------------------------
(* Rotation by age.  The names of the rotated files are times at which the   *)
(* live file was created or earlier; a file that is due for rotation is at   *)
(* least a tick old, so the name of the current time is free.  While the live*)
(* file is missing nothing is known of the names, and nothing is renamed.    *)

AgeOnly == MaxSize = 0 /\ "clock" \notin Faults

RotatedBy(t) == \A q \in 0 .. MaxTime : Exists(q) => q <= t

TimeInv ==
    /\ createdAt <= now
    /\ RotatedBy(now)
    /\ pc # "down" /\ Exists(Live) => RotatedBy(createdAt)
    /\ pc \in {"rotating", "renaming"} => createdAt < now
    /\ pc = "creating" => ~Exists(Live)

LEMMA TimeInit == Init => TimeInv
    BY DEF Init, TimeInv, RotatedBy, Paths, Live

\* Every step that writes to the open file keeps the set of files.
LEMMA GrowingSteps ==
    ASSUME TInv, RotateFlush \/ FlushError \/ AppendRecord \/ FlushBatch \/ Flush \/ Close
    PROVE  /\ Grows
           /\ pc # "down"
           /\ UNCHANGED <<createdAt, now>>
           /\ pc' \notin {"rotating", "creating"}
           /\ pc' = "renaming" => pc = "rotating"
<1>1. CASE RotateFlush
    BY <1>1, FlushGrows DEF RotateFlush, TInv
<1>2. CASE FlushError
    BY <1>2, FlushGrows DEF FlushError, Reject, TInv
<1>3. CASE AppendRecord
    <2>1. pc' \in {"flushing", "idle"}
        BY <1>3 DEF AppendRecord, Reject
    <2>2. pc # "down" /\ UNCHANGED <<createdAt, now>>
        BY <1>3 DEF AppendRecord
    <2> QED
        BY <1>3, <2>1, <2>2, AppendGrows
<1>4. CASE FlushBatch
    BY <1>4, FlushGrows DEF FlushBatch, TInv
<1>5. CASE Flush
    BY <1>5, FlushGrows DEF Flush, TInv
<1>6. CASE Close
    BY <1>6, CloseGrows DEF Close, TInv
<1> QED
    BY <1>1, <1>2, <1>3, <1>4, <1>5, <1>6

\* Every step that leaves the files and the clock alone.
LEMMA QuietSteps ==
    ASSUME AgeOnly, TInv,
           StartWrite \/ RejectWrite \/ RenameError \/ CreateError \/ Crash \/ UNCHANGED vars
    PROVE  /\ UNCHANGED <<disk, createdAt, now>>
           /\ pc = "down" => pc' = "down"
           /\ pc' = "creating" => pc = "creating"
           /\ pc' \in {"rotating", "renaming"} =>
                pc \in {"rotating", "renaming"} \/ createdAt < now
<1>1. CASE StartWrite
    BY <1>1 DEF StartWrite, RotateDue, AgeDue, SizeDue, AgeOnly, TInv, TypeOK,
                fileVars, writerVars
<1>2. CASE RejectWrite
    BY <1>2 DEF RejectWrite, Reject, fileVars, writerVars
<1>3. CASE RenameError
    BY <1>3 DEF RenameError, Reject, fileVars, writerVars
<1>4. CASE CreateError
    BY <1>4 DEF CreateError, Reject, fileVars, writerVars
<1>5. CASE Crash
    BY <1>5 DEF Crash, fileVars
<1>6. CASE UNCHANGED vars
    BY <1>6 DEF vars
<1> QED
    BY <1>1, <1>2, <1>3, <1>4, <1>5, <1>6

LEMMA TimeStep ==
    ASSUME AgeOnly, TInv, TimeInv, [Next]_vars
    PROVE  TimeInv'
<1> USE DEF TimeInv
<1>n. /\ now \in 0 .. MaxTime /\ createdAt \in 0 .. MaxTime
      /\ 0 .. MaxTime \subseteq Paths /\ Live \in Paths /\ Live \notin 0 .. MaxTime
    BY DEF TInv, TypeOK, Paths, Live
<1>1. CASE Open
    <2>1. \A q \in 0 .. MaxTime : Exists(q)' <=> Exists(q)
        BY <1>1, <1>n DEF Open, TInv, TypeOK
    <2> QED
        BY <1>1, <1>n, <2>1 DEF Open, RotatedBy
<1>2. CASE StartWrite \/ RejectWrite \/ RenameError \/ CreateError \/ Crash \/ UNCHANGED vars
    BY <1>2, QuietSteps DEF RotatedBy
<1>3. CASE RotateFlush \/ FlushError \/ AppendRecord \/ FlushBatch \/ Flush \/ Close
    <2>1. /\ Grows /\ pc # "down" /\ UNCHANGED <<createdAt, now>>
          /\ pc' \notin {"rotating", "creating"} /\ (pc' = "renaming" => pc = "rotating")
        BY <1>3, GrowingSteps
    <2>2. \A p \in Paths : Exists(p)' <=> Exists(p)
        BY <2>1, GrowKeepsFiles DEF TInv, HandleOpen
    <2> QED
        BY <1>n, <2>1, <2>2 DEF RotatedBy
<1>4. CASE RotateRename
    <2>1. \A q \in 0 .. MaxTime : Exists(q)' => Exists(q) \/ q = now
        BY <1>4, <1>n DEF RotateRename, TInv, TypeOK
    <2>2. ~Exists(Live)'
        BY <1>4, <1>n DEF RotateRename, TInv, TypeOK
    <2>3. pc' = "creating" /\ UNCHANGED <<createdAt, now>>
        BY <1>4 DEF RotateRename, writerVars
    <2> QED
        BY <1>n, <2>1, <2>2, <2>3 DEF RotatedBy
<1>5. CASE RotateCreate
    <2>1. \A q \in 0 .. MaxTime : Exists(q)' <=> Exists(q)
        BY <1>5, <1>n DEF RotateCreate, TInv, TypeOK
    <2> QED
        BY <1>5, <1>n, <2>1 DEF RotateCreate, RotatedBy
<1>6. CASE Tick
    BY <1>6, <1>n DEF Tick, RotatedBy, fileVars, writerVars
<1>7. CASE ClockBack
    BY <1>7 DEF ClockBack, AgeOnly
<1> QED
    BY <1>1, <1>2, <1>3, <1>4, <1>5, <1>6, <1>7 DEF Next, WriteStep

LEMMA TimeInvariant ==
    ASSUME AgeOnly
    PROVE  Spec => []TimeInv
<1>1. TInv /\ TimeInv /\ [Next]_vars => TimeInv'
    BY TimeStep
<1> QED
    BY <1>1, TimeInit, TypeInvariant, PTL DEF Spec

\* With rotation by age and a clock that is not set back, a rotation never
\* takes the name of an earlier rotated file.
THEOREM AgeRotationNeverOverwrites ==
    ASSUME AgeOnly
    PROVE  Spec => []NoOverwrite
<1>1. TInv /\ TimeInv => NoOverwrite
    BY DEF TInv, TypeOK, TimeInv, RotatedBy, NoOverwrite
<1> QED
    BY <1>1, TimeInvariant, TypeInvariant, PTL

-----------------------------------------------------------------------------
\* In append mode no step, a crash or a failure included, removes a file or any
\* of its content, given that a rotation does not overwrite one.
LEMMA FilesSurviveStep ==
    ASSUME AgeOnly, Append_ = TRUE, TInv, TimeInv, NoOverwrite, [Next]_vars
    PROVE  \A p \in Paths : Exists(p) =>
                \E q \in Paths : Exists(q)' /\ IsPrefixOf(disk[p], disk[q]')
<1> SUFFICES ASSUME NEW p \in Paths, Exists(p)
             PROVE  \E q \in Paths : Exists(q)' /\ IsPrefixOf(disk[p], disk[q]')
    OBVIOUS
<1>p. disk[p] \in Seq(Half) /\ IsPrefixOf(disk[p], disk[p])
    BY PrefixReflexive DEF TInv, TypeOK
<1>n. now \in Paths /\ Live \in Paths /\ Live # now
    BY DEF TInv, TypeOK, Paths, Live
<1>1. CASE Open
    BY <1>1, <1>p DEF Open, TInv, TypeOK
<1>2. CASE StartWrite \/ RejectWrite \/ RenameError \/ CreateError \/ Crash \/ UNCHANGED vars
    BY <1>2, <1>p, QuietSteps
<1>3. CASE RotateFlush \/ FlushError \/ AppendRecord \/ FlushBatch \/ Flush \/ Close
    BY <1>3, GrowingSteps, GrowKeepsFiles DEF TInv, HandleOpen
<1>4. CASE RotateRename
    <2>1. CASE p = Live
        BY <1>4, <1>p, <1>n, <2>1 DEF RotateRename, TInv, TypeOK
    <2>2. CASE p # Live
        <3>1. p # now
            BY <1>4 DEF RotateRename, NoOverwrite
        <3> QED
            BY <1>4, <1>p, <2>2, <3>1 DEF RotateRename, TInv, TypeOK
    <2> QED
        BY <2>1, <2>2
<1>5. CASE RotateCreate
    <2>1. p # Live
        BY <1>5 DEF RotateCreate, TimeInv
    <2> QED
        BY <1>5, <1>p, <2>1 DEF RotateCreate, TInv, TypeOK
<1>6. CASE Tick
    BY <1>6, <1>p DEF Tick, fileVars
<1>7. CASE ClockBack
    BY <1>7 DEF ClockBack, AgeOnly
<1> QED
    BY <1>1, <1>2, <1>3, <1>4, <1>5, <1>6, <1>7 DEF Next, WriteStep

\* No file is ever lost when rotating by age in append mode.
THEOREM AgeRotationKeepsFiles ==
    ASSUME AgeOnly, Append_ = TRUE
    PROVE  Spec => FilesSurvive
<1>1. TInv /\ TimeInv /\ NoOverwrite /\ [Next]_vars =>
        [\A p \in Paths : Exists(p) =>
            \E q \in Paths : Exists(q)' /\ IsPrefixOf(disk[p], disk[q]')]_vars
    BY FilesSurviveStep
<1> QED
    BY <1>1, TypeInvariant, TimeInvariant, AgeRotationNeverOverwrites, PTL DEF Spec, FilesSurvive

-----------------------------------------------------------------------------
(* Rotation by size: a write goes past the check of should_rotate only if the *)
(* live file exists, and only the rename takes it away.                       *)

WritesToLive == pc \in {"rotating", "renaming", "appending", "flushing"} => Exists(Live)

LEMMA WritesToLiveStep ==
    ASSUME MaxSize > 0, TInv, WritesToLive, [Next]_vars
    PROVE  WritesToLive'
<1> USE DEF WritesToLive
<1>n. Live \in Paths
    BY DEF Paths
<1>1. CASE Open
    BY <1>1 DEF Open
<1>2. CASE StartWrite
    BY <1>2 DEF StartWrite, RotateUnknown, SizeUnknown, fileVars
<1>3. CASE RejectWrite \/ RenameError \/ CreateError
    BY <1>3 DEF RejectWrite, RenameError, CreateError, Reject
<1>4. CASE RotateFlush \/ FlushError \/ AppendRecord \/ FlushBatch \/ Flush \/ Close
    <2>1. Exists(Live)' <=> Exists(Live)
        BY <1>4, <1>n, GrowingSteps, GrowKeepsFiles DEF TInv, HandleOpen
    <2>2. pc' \in {"rotating", "renaming", "appending", "flushing"} =>
            pc \in {"rotating", "renaming", "appending", "flushing"}
        BY <1>4 DEF RotateFlush, FlushError, AppendRecord, FlushBatch, Flush, Close, Reject
    <2> QED
        BY <2>1, <2>2
<1>5. CASE RotateRename
    BY <1>5 DEF RotateRename
<1>6. CASE RotateCreate
    <2>1. disk'[Live] = <<>>
        BY <1>6, <1>n DEF RotateCreate, TInv, TypeOK
    <2> QED
        BY <2>1, EmptySeq
<1>7. CASE Crash
    BY <1>7 DEF Crash
<1>8. CASE Tick \/ ClockBack \/ UNCHANGED vars
    BY <1>8 DEF Tick, ClockBack, vars, fileVars
<1> QED
    BY <1>1, <1>2, <1>3, <1>4, <1>5, <1>6, <1>7, <1>8 DEF Next, WriteStep

\* With rotation by size, a writer that has lost its live file acknowledges no
\* record until it is opened again.
THEOREM SizeRotationStuck ==
    ASSUME MaxSize > 0
    PROVE  Spec => StuckAfterFailedCreate
<1>1. Init => WritesToLive
    BY DEF Init, WritesToLive
<1>2. TInv /\ WritesToLive /\ [Next]_vars => WritesToLive'
    BY WritesToLiveStep
<1>3. WritesToLive /\ [Next]_vars => [~Exists(Live) => acked' \subseteq acked]_vars
    <2> SUFFICES ASSUME WritesToLive, Next, ~Exists(Live) PROVE acked' \subseteq acked
        OBVIOUS
    <2> QED
        BY DEF WritesToLive, Next, WriteStep, Open, StartWrite, RejectWrite, RotateFlush,
               FlushError, RotateRename, RenameError, RotateCreate, CreateError,
               AppendRecord, FlushBatch, Flush, Close, Crash, Tick, ClockBack, Reject
<1> QED
    BY <1>1, <1>2, <1>3, TypeInvariant, PTL DEF Spec, StuckAfterFailedCreate
-----------------------------------------------------------------------------
(* Each line once.  The files as they will be once the buffer is written out *)
(* only change in two ways: a step keeps, renames or cuts what they hold, or *)
(* it adds the line of a record that was in none of them.                    *)

Contents == [p \in Files |-> Content(p)]

\* No half of a record is in two places.
Distinct(C) ==
    \A p, q \in DOMAIN C : \A i \in DOMAIN C[p], j \in DOMAIN C[q] :
        C[p][i] = C[q][j] /\ C[p][i].of \in Records => p = q /\ i = j

\* What is held was handed in before n.
Older(C, n) == \A p \in DOMAIN C : \A i \in DOMAIN C[p] : C[p][i].of < n

\* A file of whole lines, the first of them, and no other, the header.
WholeFile(s) ==
    /\ Len(s) >= 2 /\ Len(s) % 2 = 0
    /\ \A i \in DOMAIN s : i % 2 = 0 => WholeAt(s, i)
    /\ \A i \in DOMAIN s : s[i].of = Header <=> i \in {1, 2}

HalvesIn(C) == \A p \in DOMAIN C : C[p] \in Seq(Half)

\* Every file of D is new or what a file of C began with; no two are from one.
Parts(D, C) ==
    \E from \in [DOMAIN D -> Paths] :
        /\ \A p, q \in DOMAIN D : from[p] = from[q] => p = q
        /\ \A p \in DOMAIN D :
              D[p] = Line(Header) \/ (from[p] \in DOMAIN C /\ IsPrefixOf(D[p], C[from[p]]))

LEMMA LineHalves ==
    ASSUME NEW r \in {Header} \cup Records
    PROVE  /\ Line(r) \in Seq(Half) /\ Len(Line(r)) = 2 /\ DOMAIN Line(r) = {1, 2}
           /\ Line(r)[1] = [of |-> r, half |-> 1] /\ Line(r)[2] = [of |-> r, half |-> 2]
<1>1. Line(r) \in Seq(Half)
    BY LineType
<1>2. Len(Line(r)) = 2 /\ Line(r)[1] = [of |-> r, half |-> 1] /\ Line(r)[2] = [of |-> r, half |-> 2]
    BY DEF Line
<1>3. DOMAIN Line(r) = 1 .. 2
    BY <1>1, <1>2, LenProperties
<1> QED
    BY <1>1, <1>2, <1>3

LEMMA HalfOf == \A h \in Half : h.of \in Nat /\ (h.of # Header <=> h.of \in Records)
    BY DEF Half, Header, Records

LEMMA PartsKeep ==
    ASSUME NEW C, NEW D, HalvesIn(C), HalvesIn(D), Parts(D, C),
           NEW n \in Nat \ {0}, Older(C, n), Distinct(C)
    PROVE  Older(D, n) /\ Distinct(D)
<1>1. PICK from \in [DOMAIN D -> Paths] :
        /\ \A p, q \in DOMAIN D : from[p] = from[q] => p = q
        /\ \A p \in DOMAIN D :
              D[p] = Line(Header) \/ (from[p] \in DOMAIN C /\ IsPrefixOf(D[p], C[from[p]]))
    BY DEF Parts
<1>2. ASSUME NEW p \in DOMAIN D, NEW i \in DOMAIN D[p]
      PROVE  \/ D[p][i].of = Header
             \/ /\ from[p] \in DOMAIN C /\ i \in DOMAIN C[from[p]]
                /\ C[from[p]][i] = D[p][i]
    <2>1. CASE D[p] = Line(Header)
        <3>1. i \in {1, 2}
            BY <2>1, LineHalves
        <3>2. D[p][1].of = Header /\ D[p][2].of = Header
            <4>1. Line(Header)[1].of = Header /\ Line(Header)[2].of = Header
                BY DEF Line
            <4> QED
                BY <2>1, <4>1
        <3> QED
            BY <3>1, <3>2
    <2>2. CASE from[p] \in DOMAIN C /\ IsPrefixOf(D[p], C[from[p]])
        <3>1. /\ DOMAIN D[p] = 1 .. Len(D[p]) /\ Len(D[p]) \in Nat
              /\ DOMAIN C[from[p]] = 1 .. Len(C[from[p]]) /\ Len(C[from[p]]) \in Nat
            BY <2>2, LenProperties DEF HalvesIn
        <3> QED
            BY <2>2, <3>1 DEF IsPrefixOf
    <2> QED
        BY <1>1, <2>1, <2>2
<1>3. Older(D, n)
    BY <1>2 DEF Older, Header
<1>4. Distinct(D)
    <2> SUFFICES ASSUME NEW p \in DOMAIN D, NEW q \in DOMAIN D,
                        NEW i \in DOMAIN D[p], NEW j \in DOMAIN D[q],
                        D[p][i] = D[q][j], D[p][i].of \in Records
                 PROVE  p = q /\ i = j
        BY DEF Distinct
    <2>1. D[p][i].of # Header /\ D[q][j].of # Header
        BY DEF Records, Header
    <2>2. from[p] = from[q] /\ i = j
        BY <1>2, <2>1 DEF Distinct
    <2> QED
        BY <1>1, <2>2
<1> QED
    BY <1>3, <1>4

\* The line of a record is added to a file.
LEMMA LineKeeps ==
    ASSUME NEW C, NEW D, HalvesIn(C), DOMAIN D = DOMAIN C, NEW f \in DOMAIN C,
           NEW r \in Records, Older(C, r), Distinct(C),
           \A p \in DOMAIN C : p # f => D[p] = C[p], D[f] = C[f] \o Line(r)
    PROVE  Older(D, r + 1) /\ Distinct(D)
<1> DEFINE s == C[f]
           t == s \o Line(r)
<1>1. /\ s \in Seq(Half) /\ Len(s) \in Nat /\ DOMAIN s = 1 .. Len(s)
    BY LenProperties DEF HalvesIn
<1>2. /\ Line(r) \in Seq(Half) /\ Len(Line(r)) = 2
      /\ Line(r)[1] = [of |-> r, half |-> 1] /\ Line(r)[2] = [of |-> r, half |-> 2]
    BY LineHalves
<1>3. /\ DOMAIN t = 1 .. Len(s) + 2 /\ \A i \in 1 .. Len(s) : t[i] = s[i]
      /\ t[Len(s) + 1] = [of |-> r, half |-> 1] /\ t[Len(s) + 2] = [of |-> r, half |-> 2]
    <2> HIDE DEF s
    <2>0. /\ t \in Seq(Half) /\ Len(t) = Len(s) + Len(Line(r))
          /\ \A i \in 1 .. Len(s) + Len(Line(r)) :
                t[i] = IF i <= Len(s) THEN s[i] ELSE Line(r)[i - Len(s)]
        BY <1>1, <1>2, ConcatProperties
    <2>1. /\ t \in Seq(Half) /\ Len(t) = Len(s) + 2
          /\ \A i \in 1 .. Len(s) + 2 : t[i] = IF i <= Len(s) THEN s[i] ELSE Line(r)[i - Len(s)]
        BY <2>0, <1>2
    <2> HIDE DEF t
    <2>2. DOMAIN t = 1 .. Len(s) + 2
        BY <2>1, LenProperties
    <2>3. \A i \in 1 .. Len(s) : t[i] = s[i]
        BY <1>1, <2>1
    <2>4. t[Len(s) + 1] = Line(r)[1]
        <3>1. Len(s) + 1 \in 1 .. Len(s) + 2 /\ ~(Len(s) + 1 <= Len(s)) /\ (Len(s) + 1) - Len(s) = 1
            BY <1>1
        <3> QED
            BY <2>1, <3>1
    <2>5. t[Len(s) + 2] = Line(r)[2]
        <3>1. Len(s) + 2 \in 1 .. Len(s) + 2 /\ ~(Len(s) + 2 <= Len(s)) /\ (Len(s) + 2) - Len(s) = 2
            BY <1>1
        <3> QED
            BY <2>1, <3>1
    <2> QED
        BY <1>2, <2>2, <2>3, <2>4, <2>5
<1> HIDE DEF s, t
<1>4. ASSUME NEW p \in DOMAIN D, NEW i \in DOMAIN D[p]
      PROVE  \/ i \in DOMAIN C[p] /\ D[p][i] = C[p][i] /\ D[p][i].of < r
             \/ p = f /\ i = Len(s) + 1 /\ D[p][i] = [of |-> r, half |-> 1]
             \/ p = f /\ i = Len(s) + 2 /\ D[p][i] = [of |-> r, half |-> 2]
    <2>1. CASE p # f
        BY <2>1 DEF Older
    <2>2. CASE p = f
        <3>1. D[p] = t /\ C[p] = s
            BY <2>2 DEF s, t
        <3>2. i \in 1 .. Len(s) \/ i = Len(s) + 1 \/ i = Len(s) + 2
            BY <3>1, <1>1, <1>3
        <3> QED
            BY <3>1, <3>2, <1>1, <1>3, <2>2 DEF Older
    <2> QED
        BY <2>1, <2>2
<1>5. Older(D, r + 1)
    <2>1. ASSUME NEW p \in DOMAIN C, NEW i \in DOMAIN C[p] PROVE C[p][i].of \in Nat
        BY HalfOf, LenProperties, ElementOfSeq DEF HalvesIn
    <2>2. r \in Nat
        BY DEF Records
    <2> QED
        BY <1>4, <2>1, <2>2 DEF Older
<1>6. Distinct(D)
    <2> SUFFICES ASSUME NEW p \in DOMAIN D, NEW q \in DOMAIN D,
                        NEW i \in DOMAIN D[p], NEW j \in DOMAIN D[q],
                        D[p][i] = D[q][j], D[p][i].of \in Records
                 PROVE  p = q /\ i = j
        BY DEF Distinct
    <2>1. ~(r < r)
        BY DEF Records
    <2>2. [of |-> r, half |-> 1].of = r /\ [of |-> r, half |-> 2].of = r
          /\ [of |-> r, half |-> 1].half # [of |-> r, half |-> 2].half
        OBVIOUS
    <2>3. CASE D[p][i].of < r
        <3>1. i \in DOMAIN C[p] /\ D[p][i] = C[p][i] /\ j \in DOMAIN C[q] /\ D[q][j] = C[q][j]
            BY <1>4, <2>1, <2>2, <2>3
        <3>2. C[p][i] = C[q][j] /\ C[p][i].of \in Records
            BY <3>1
        <3> QED
            BY <3>1, <3>2 DEF Distinct
    <2>4. CASE ~(D[p][i].of < r)
        <3>1. p = f /\ q = f
            BY <1>4, <2>4
        <3> QED
            BY <1>4, <2>2, <2>4
    <2> QED
        BY <2>3, <2>4
<1> QED
    BY <1>5, <1>6

\* A line after whole lines.
LEMMA WholeFileGrows ==
    ASSUME NEW s \in Seq(Half), WholeFile(s), NEW r \in Records
    PROVE  WholeFile(s \o Line(r))
<1> DEFINE t == s \o Line(r)
           n == Len(s)
<1>1. n \in Nat /\ DOMAIN s = 1 .. n /\ n >= 2 /\ n % 2 = 0
    BY LenProperties DEF WholeFile
<1>2. /\ Line(r) \in Seq(Half) /\ Len(Line(r)) = 2
      /\ Line(r)[1] = [of |-> r, half |-> 1] /\ Line(r)[2] = [of |-> r, half |-> 2]
    BY LineHalves
<1>3. /\ t \in Seq(Half) /\ Len(t) = n + 2 /\ DOMAIN t = 1 .. n + 2
      /\ \A i \in 1 .. n : t[i] = s[i]
      /\ t[n + 1] = [of |-> r, half |-> 1] /\ t[n + 2] = [of |-> r, half |-> 2]
    <2>0. /\ t \in Seq(Half) /\ Len(t) = n + Len(Line(r))
          /\ \A i \in 1 .. n + Len(Line(r)) : t[i] = IF i <= n THEN s[i] ELSE Line(r)[i - n]
        BY <1>2, ConcatProperties
    <2>1. /\ t \in Seq(Half) /\ Len(t) = n + 2
          /\ \A i \in 1 .. n + 2 : t[i] = IF i <= n THEN s[i] ELSE Line(r)[i - n]
        BY <2>0, <1>2
    <2> HIDE DEF t, n
    <2>2. DOMAIN t = 1 .. n + 2
        BY <2>1, LenProperties
    <2>3. (n + 1) - n = 1 /\ (n + 2) - n = 2
        BY <1>1
    <2> QED
        BY <1>1, <1>2, <2>1, <2>2, <2>3
<1> HIDE DEF t, n
<1>0. \A i \in DOMAIN t : i \in 1 .. n \/ i = n + 1 \/ i = n + 2
    BY <1>1, <1>3
<1>4. Len(t) >= 2 /\ Len(t) % 2 = 0 /\ (n + 1) % 2 # 0
    BY <1>1, <1>3
<1>5. ASSUME NEW i \in DOMAIN t, i % 2 = 0 PROVE WholeAt(t, i)
    <2>1. i \in 1 .. n \/ i = n + 2
        BY <1>1, <1>3, <1>4, <1>5
    <2>2. CASE i \in 1 .. n
        <3>1. WholeAt(s, i)
            BY <2>2, <1>1, <1>5 DEF WholeFile
        <3>2. i - 1 \in 1 .. n /\ (i > 2 => i - 2 \in 1 .. n)
            BY <2>2, <3>1, <1>1 DEF WholeAt
        <3> QED
            BY <3>1, <3>2, <2>2, <1>3 DEF WholeAt
    <2>3. CASE i = n + 2
        <3>1. WholeAt(s, n)
            BY <1>1 DEF WholeFile
        <3>2. i - 1 = n + 1 /\ i - 2 = n /\ n \in 1 .. n /\ i > 1
            BY <2>3, <1>1
        <3>3. t[i] = [of |-> r, half |-> 2] /\ t[i - 1] = [of |-> r, half |-> 1]
              /\ t[i - 2] = s[n]
            BY <1>3, <2>3, <3>2
        <3> QED
            BY <3>1, <3>2, <3>3 DEF WholeAt
    <2> QED
        BY <2>1, <2>2, <2>3
<1>6. ASSUME NEW i \in DOMAIN t PROVE t[i].of = Header <=> i \in {1, 2}
    <2>1. i \in 1 .. n \/ i = n + 1 \/ i = n + 2
        BY <1>0
    <2>2. CASE i \in 1 .. n
        BY <2>2, <1>1, <1>3 DEF WholeFile
    <2>3. CASE i = n + 1 \/ i = n + 2
        <3>1. t[i].of = r /\ r # Header
            BY <2>3, <1>3 DEF Records, Header
        <3>2. i \notin {1, 2}
            BY <2>3, <1>1
        <3> QED
            BY <3>1, <3>2
    <2> QED
        BY <2>1, <2>2, <2>3
<1> QED
    BY <1>4, <1>5, <1>6 DEF WholeFile, t

LEMMA HeaderIsWhole == WholeFile(Line(Header))
<1> DEFINE s == Line(Header)
<1>1. /\ s \in Seq(Half) /\ Len(s) = 2 /\ DOMAIN s = {1, 2}
      /\ s[1] = [of |-> Header, half |-> 1] /\ s[2] = [of |-> Header, half |-> 2]
    BY LineHalves
<1> HIDE DEF s
<1>2. s[1].of = Header /\ s[2].of = Header /\ s[2].half = 2 /\ s[1] = [of |-> s[2].of, half |-> 1]
    BY <1>1
<1>3. 2 % 2 = 0 /\ 1 % 2 # 0 /\ 2 - 1 = 1
    OBVIOUS
<1>4. WholeAt(s, 2)
    BY <1>2, <1>3 DEF WholeAt
<1>5. \A i \in DOMAIN s : i % 2 = 0 => WholeAt(s, i)
    BY <1>1, <1>3, <1>4
<1> QED
    BY <1>1, <1>2, <1>3, <1>5 DEF WholeFile, s

\* Of a sequence cut in two, written after s in two pieces, nothing is missing.
LEMMA CutJoins ==
    ASSUME NEW s \in Seq(Half), NEW t \in Seq(Half), NEW k \in 0 .. Len(t)
    PROVE  (s \o SubSeq(t, 1, k)) \o SubSeq(t, k + 1, Len(t)) = s \o t
<1>1. SubSeq(t, 1, k) \in Seq(Half) /\ SubSeq(t, k + 1, Len(t)) \in Seq(Half)
    BY CutType
<1>2. (s \o SubSeq(t, 1, k)) \o SubSeq(t, k + 1, Len(t))
        = s \o (SubSeq(t, 1, k) \o SubSeq(t, k + 1, Len(t)))
    BY <1>1, HalvesAssociate
<1>3. 1 \in 1 .. Len(t) + 1 /\ k \in 1 - 1 .. Len(t) /\ Len(t) \in k .. Len(t)
    BY LenProperties
<1>4. SubSeq(t, 1, k) \o SubSeq(t, k + 1, Len(t)) = SubSeq(t, 1, Len(t))
    BY <1>3, ConcatAdjacentSubSeq
<1> QED
    BY <1>2, <1>4, SubSeqFull

\* The files of D are those of C, under other names, and files with a header.
Moves(D, C) ==
    \E from \in [DOMAIN D -> Paths] :
        /\ \A p, q \in DOMAIN D : from[p] = from[q] => p = q
        /\ \A p \in DOMAIN D :
              D[p] = Line(Header) \/ (from[p] \in DOMAIN C /\ D[p] = C[from[p]])

\* What the files hold is in order: every record once, none from the future,
\* and, until the process ended without writing its buffer, whole lines.
LinesOK(C, n, cut) ==
    /\ HalvesIn(C) /\ Distinct(C) /\ Older(C, n)
    /\ cut \/ \A p \in DOMAIN C : WholeFile(C[p])

LEMMA MovesKeep ==
    ASSUME NEW C, NEW D, NEW n \in Nat \ {0}, NEW cut \in BOOLEAN,
           LinesOK(C, n, cut), Moves(D, C)
    PROVE  LinesOK(D, n, cut)
<1>1. PICK from \in [DOMAIN D -> Paths] :
        /\ \A p, q \in DOMAIN D : from[p] = from[q] => p = q
        /\ \A p \in DOMAIN D :
              D[p] = Line(Header) \/ (from[p] \in DOMAIN C /\ D[p] = C[from[p]])
    BY DEF Moves
<1>2. HalvesIn(D)
    <2>1. Line(Header) \in Seq(Half)
        BY LineType
    <2> QED
        BY <1>1, <2>1 DEF HalvesIn, LinesOK
<1>3. ASSUME NEW p \in DOMAIN D, from[p] \in DOMAIN C, D[p] = C[from[p]]
      PROVE  IsPrefixOf(D[p], C[from[p]])
    BY <1>2, <1>3, PrefixReflexive DEF HalvesIn
<1>4. Parts(D, C)
    BY <1>1, <1>3 DEF Parts
<1>5. Older(D, n) /\ Distinct(D)
    BY <1>2, <1>4, PartsKeep DEF LinesOK
<1>6. cut \/ \A p \in DOMAIN D : WholeFile(D[p])
    BY <1>1, HeaderIsWhole DEF LinesOK
<1> QED
    BY <1>2, <1>5, <1>6 DEF LinesOK

\* Files that are cut, in a process that ends.
LEMMA CutKeeps ==
    ASSUME NEW C, NEW D, NEW n \in Nat \ {0}, NEW cut \in BOOLEAN,
           LinesOK(C, n, cut), HalvesIn(D), DOMAIN D = DOMAIN C, DOMAIN C \subseteq Paths,
           \A p \in DOMAIN D : IsPrefixOf(D[p], C[p])
    PROVE  LinesOK(D, n, TRUE)
<1> DEFINE from == [p \in DOMAIN D |-> p]
<1>1. from \in [DOMAIN D -> Paths] /\ \A p \in DOMAIN D : from[p] = p
    OBVIOUS
<1>2. Parts(D, C)
    BY <1>1 DEF Parts
<1> QED
    BY <1>2, PartsKeep DEF LinesOK

LEMMA RecordKeeps ==
    ASSUME NEW C, NEW D, NEW cut \in BOOLEAN, NEW f \in DOMAIN C, NEW r \in Records,
           LinesOK(C, r, cut), DOMAIN D = DOMAIN C,
           \A p \in DOMAIN C : p # f => D[p] = C[p], D[f] = C[f] \o Line(r)
    PROVE  LinesOK(D, r + 1, cut)
<1>1. C[f] \in Seq(Half) /\ Line(r) \in Seq(Half)
    BY LineHalves DEF LinesOK, HalvesIn
<1>2. C[f] \o Line(r) \in Seq(Half)
    BY <1>1, ConcatProperties
<1>3. HalvesIn(D)
    BY <1>2 DEF LinesOK, HalvesIn
<1>4. Older(D, r + 1) /\ Distinct(D)
    BY LineKeeps DEF LinesOK
<1>5. cut \/ \A p \in DOMAIN D : WholeFile(D[p])
    BY <1>1, WholeFileGrows DEF LinesOK
<1> QED
    BY <1>3, <1>4, <1>5 DEF LinesOK

LEMMA LaterKeeps ==
    ASSUME NEW C, NEW m \in Nat, NEW n \in Int, m <= n, NEW cut \in BOOLEAN, LinesOK(C, m, cut)
    PROVE  LinesOK(C, n, cut)
<1>1. ASSUME NEW p \in DOMAIN C, NEW i \in DOMAIN C[p] PROVE C[p][i].of \in Nat
    BY HalfOf, LenProperties, ElementOfSeq DEF HalvesIn, LinesOK
<1>2. Older(C, n)
    BY <1>1 DEF Older, LinesOK
<1> QED
    BY <1>2 DEF LinesOK

-----------------------------------------------------------------------------
\* A record is in the buffer before its write is over, when a flush is due.
Handed == IF pc = "flushing" THEN next + 1 ELSE next

LinesInv ==
    /\ TInv
    /\ pc \in {"down", "renaming", "creating"} => buf = <<>>
    /\ pc # "down" /\ Exists(Live) => handle = Live
    /\ LinesOK(Contents, Handed, died)

LEMMA ContentsType ==
    ASSUME TInv
    PROVE  /\ DOMAIN Contents = Files /\ Files \subseteq Paths /\ HalvesIn(Contents)
           /\ \A p \in Files : /\ Contents[p] = Content(p) /\ disk[p] \in Seq(Half)
                               /\ Content(p) \in Seq(Half)
           /\ buf = <<>> => \A p \in Files : Content(p) = disk[p]
<1>1. DOMAIN Contents = Files /\ Files \subseteq Paths /\ \A p \in Files : Contents[p] = Content(p)
    BY DEF Contents, Files
<1>2. \A p \in Files : disk[p] \in Seq(Half)
    BY DEF Files, TInv, TypeOK
<1>3. \A p \in Files : disk[p] \o buf \in Seq(Half) /\ disk[p] \o <<>> = disk[p]
    BY <1>2, ConcatProperties, ConcatEmptySeq DEF TInv, TypeOK
<1>4. \A p \in Files : Content(p) \in Seq(Half)
    BY <1>2, <1>3 DEF Content
<1>5. buf = <<>> => \A p \in Files : Content(p) = disk[p]
    BY <1>3 DEF Content
<1> QED
    BY <1>1, <1>2, <1>4, <1>5 DEF HalvesIn

\* The writer adds a to its file and has b in its buffer.
LEMMA WrittenOut ==
    ASSUME TInv, pc # "down", NEW a \in Seq(Half), NEW b \in Seq(Half),
           disk' = [disk EXCEPT ![handle] = @ \o a], buf' = b, handle' = handle
    PROVE  /\ Files' = Files /\ handle \in Files
           /\ \A p \in Files : p # handle => Contents'[p] = Contents[p]
           /\ Contents'[handle] = (disk[handle] \o a) \o b
           /\ Contents[handle] = disk[handle] \o buf
<1>1. handle \in Files /\ disk[handle] \in Seq(Half)
    BY ContentsType DEF TInv, HandleOpen, Files, TypeOK
<1>2. disk[handle] \o a \in Seq(Half)
    BY <1>1, ConcatProperties
<1>3. disk'[handle] = disk[handle] \o a /\ \A p \in Paths : p # handle => disk'[p] = disk[p]
    BY <1>1 DEF TInv, TypeOK
<1>4. disk'[handle] # NoFile
    BY <1>2, <1>3
<1>5. Files' = Files
    BY <1>1, <1>3, <1>4 DEF Files
<1>6. \A p \in Files : p # handle => Contents'[p] = Contents[p]
    BY <1>3, <1>5 DEF Contents, Content, Files
<1>7. Contents'[handle] = (disk[handle] \o a) \o b /\ Contents[handle] = disk[handle] \o buf
    BY <1>1, <1>3, <1>5 DEF Contents, Content
<1> QED
    BY <1>1, <1>5, <1>6, <1>7

LEMMA SameContents ==
    ASSUME Files' = Files, handle \in Files, Contents'[handle] = Contents[handle],
           \A p \in Files : p # handle => Contents'[p] = Contents[p]
    PROVE  Contents' = Contents
<1>1. \A p \in Files : Contents'[p] = Contents[p]
    OBVIOUS
<1> QED
    BY <1>1 DEF Contents

\* A flush, complete or cut short, and the flush of a close.
LEMMA FlushKeepsContents ==
    ASSUME TInv, pc # "down", handle' = handle,
           \/ FlushOk \/ FlushFails
           \/ disk' = [disk EXCEPT ![handle] = @ \o buf] /\ buf' = <<>>
    PROVE  Contents' = Contents
<1>1. buf \in Seq(Half) /\ <<>> \in Seq(Half)
    BY EmptySeq DEF TInv, TypeOK
<1>2. disk[handle] \in Seq(Half)
    BY DEF TInv, TypeOK, HandleOpen
<1>3. CASE disk' = [disk EXCEPT ![handle] = @ \o buf] /\ buf' = <<>>
    <2>1. (disk[handle] \o buf) \o <<>> = disk[handle] \o buf
        BY <1>1, <1>2, ConcatProperties, ConcatEmptySeq
    <2> QED
        BY <1>1, <1>3, <2>1, WrittenOut, SameContents
<1>4. CASE FlushFails
    <2>1. PICK k \in 0 .. Len(buf) :
            /\ disk' = [disk EXCEPT ![handle] = @ \o SubSeq(buf, 1, k)]
            /\ buf' = SubSeq(buf, k + 1, Len(buf))
        BY <1>4 DEF FlushFails
    <2>2. SubSeq(buf, 1, k) \in Seq(Half) /\ SubSeq(buf, k + 1, Len(buf)) \in Seq(Half)
        BY <1>1, CutType
    <2>3. (disk[handle] \o SubSeq(buf, 1, k)) \o SubSeq(buf, k + 1, Len(buf))
            = disk[handle] \o buf
        BY <1>1, <1>2, CutJoins
    <2> QED
        BY <2>1, <2>2, <2>3, WrittenOut, SameContents
<1>5. CASE FlushOk
    BY <1>3, <1>5 DEF FlushOk
<1> QED
    BY <1>3, <1>4, <1>5

LEMMA AppendAddsLine ==
    ASSUME TInv, AppendRecord
    PROVE  /\ DOMAIN Contents' = DOMAIN Contents /\ handle \in DOMAIN Contents
           /\ next \in Records
           /\ \A p \in DOMAIN Contents : p # handle => Contents'[p] = Contents[p]
           /\ Contents'[handle] = Contents[handle] \o Line(next)
<1> DEFINE all == buf \o Line(next)
           spill == IF Len(all) > BufCap THEN BufCap ELSE 0
<1>1. /\ disk' = [disk EXCEPT ![handle] = @ \o SubSeq(all, 1, spill)]
      /\ buf' = SubSeq(all, spill + 1, Len(all))
      /\ handle' = handle /\ pc = "appending"
    BY DEF AppendRecord
<1>2. next \in Records /\ buf \in Seq(Half) /\ Line(next) \in Seq(Half) /\ disk[handle] \in Seq(Half)
    BY <1>1, LineType DEF TInv, TypeOK, RecordAtHand, HandleOpen
<1>3. all \in Seq(Half)
    BY <1>2, ConcatProperties
<1>4. spill \in 0 .. Len(all)
    BY <1>3, LenProperties
<1>5. disk[handle] \o all = (disk[handle] \o buf) \o Line(next)
    BY <1>2, HalvesAssociate DEF all
<1> HIDE DEF all, spill
<1>6. SubSeq(all, 1, spill) \in Seq(Half) /\ SubSeq(all, spill + 1, Len(all)) \in Seq(Half)
    BY <1>3, <1>4, CutType
<1>7. (disk[handle] \o SubSeq(all, 1, spill)) \o SubSeq(all, spill + 1, Len(all))
        = disk[handle] \o all
    BY <1>2, <1>3, <1>4, CutJoins
<1>8. DOMAIN Contents = Files /\ DOMAIN Contents' = Files'
    BY DEF Contents
<1> QED
    BY <1>1, <1>2, <1>5, <1>6, <1>7, <1>8, WrittenOut

LEMMA LinesInit == Init => LinesInv
<1> SUFFICES ASSUME Init PROVE LinesInv
    OBVIOUS
<1>1. TInv
    BY TypeInit
<1>2. Files = {}
    BY DEF Init, Files
<1>3. DOMAIN Contents = {}
    BY <1>2 DEF Contents
<1>4. LinesOK(Contents, Handed, died)
    BY <1>3 DEF LinesOK, HalvesIn, Distinct, Older
<1> QED
    BY <1>1, <1>4 DEF Init, LinesInv

\* A new live file, with its header in the buffer.
LEMMA CreateMoves ==
    ASSUME TInv, TInv', buf = <<>>, disk' = [disk EXCEPT ![Live] = <<>>],
           handle' = Live, buf' = Line(Header)
    PROVE  Moves(Contents', Contents)
<1>1. Live \in Paths /\ disk'[Live] = <<>> /\ \A p \in Paths : p # Live => disk'[p] = disk[p]
    BY DEF Paths, TInv, TypeOK
<1>2. <<>> \in Seq(Half) /\ Line(Header) \in Seq(Half)
    BY EmptySeq, LineType
<1>3. <<>> \o Line(Header) = Line(Header)
    BY <1>2, ConcatEmptySeq
<1>4. DOMAIN Contents' = Files' /\ Files' \subseteq Paths
    BY DEF Contents, Files
<1>5. ASSUME NEW p \in Files'
      PROVE  Contents'[p] = Line(Header) \/ (p \in Files /\ Contents'[p] = Contents[p])
    <2>1. CASE p = Live
        BY <1>1, <1>3, <1>5, <2>1 DEF Contents, Content
    <2>2. CASE p # Live
        <3>1. p \in Files /\ Contents'[p] = disk[p]
            BY <1>1, <1>4, <1>5, <2>2 DEF Contents, Content, Files
        <3> QED
            BY <3>1, ContentsType
    <2> QED
        BY <2>1, <2>2
<1> DEFINE from == [p \in Files' |-> p]
<1>6. from \in [Files' -> Paths] /\ \A p \in Files' : from[p] = p
    BY <1>4
<1>7. DOMAIN Contents = Files
    BY DEF Contents
<1> HIDE DEF from
<1> QED
    BY <1>4, <1>5, <1>6, <1>7 DEF Moves

\* The live file is renamed; the handle follows it.
LEMMA RenameMoves ==
    ASSUME TInv, TInv', LinesInv, RotateRename
    PROVE  Moves(Contents', Contents)
<1>1. /\ buf = <<>> /\ buf' = <<>> /\ Exists(Live)
      /\ disk' = [disk EXCEPT ![now] = disk[Live], ![Live] = NoFile]
    BY DEF LinesInv, RotateRename, writerVars
<1>2. Live \in Paths /\ now \in Paths /\ now # Live
    BY DEF Paths, Live, TInv, TypeOK
<1>3. /\ disk'[now] = disk[Live] /\ disk'[Live] = NoFile
      /\ \A p \in Paths : p # Live /\ p # now => disk'[p] = disk[p]
    BY <1>1, <1>2 DEF TInv, TypeOK
<1> DEFINE from == [p \in Files' |-> IF p = now THEN Live ELSE p]
<1>4. DOMAIN Contents' = Files' /\ Files' \subseteq Paths /\ DOMAIN Contents = Files
    BY DEF Contents, Files
<1>5. /\ from \in [Files' -> Paths] /\ Live \notin Files'
      /\ \A p \in Files' : from[p] = IF p = now THEN Live ELSE p
    BY <1>2, <1>3, <1>4 DEF Files
<1>6. \A p \in Files : Contents[p] = disk[p]
    BY <1>1, ContentsType
<1>7. \A p \in Files' : Contents'[p] = disk'[p]
    <2>1. \A p \in Files' : Contents'[p] = Content(p)'
        BY DEF Contents
    <2>2. \A p \in Files' : disk'[p] \in Seq(Half)
        BY DEF TInv, TypeOK, Files
    <2>3. \A p \in Files' : disk'[p] \o <<>> = disk'[p]
        BY <2>2, ConcatEmptySeq
    <2> QED
        BY <1>1, <2>1, <2>3 DEF Content
<1> HIDE DEF from
<1>8. \A p \in Files' : from[p] \in Files /\ Contents'[p] = Contents[from[p]]
    <2> TAKE p \in Files'
    <2>1. CASE p = now
        BY <1>1, <1>2, <1>3, <1>5, <1>6, <1>7, <2>1 DEF Files
    <2>2. CASE p # now
        <3>1. p \in Paths /\ p # Live /\ disk'[p] # NoFile
            BY <1>5 DEF Files
        <3>2. p \in Files /\ disk'[p] = disk[p]
            BY <1>3, <2>2, <3>1 DEF Files
        <3> QED
            BY <1>5, <1>6, <1>7, <2>2, <3>2
    <2> QED
        BY <2>1, <2>2
<1>9. \A p, q \in Files' : from[p] = from[q] => p = q
    BY <1>5
<1> QED
    BY <1>4, <1>5, <1>8, <1>9 DEF Moves

\* A process ends, its buffer lost: the files keep the first part of what they
\* were to hold.
LEMMA LostBuffer ==
    ASSUME TInv, TInv', NEW a \in Seq(Half), IsPrefixOf(a, buf), pc # "down",
           disk' = [disk EXCEPT ![handle] = @ \o a], buf' = <<>>, handle' = handle
    PROVE  /\ DOMAIN Contents' = DOMAIN Contents
           /\ \A p \in DOMAIN Contents : IsPrefixOf(Contents'[p], Contents[p])
<1>1. <<>> \in Seq(Half) /\ buf \in Seq(Half)
    BY EmptySeq DEF TInv, TypeOK
<1>2. /\ Files' = Files /\ handle \in Files
      /\ \A p \in Files : p # handle => Contents'[p] = Contents[p]
      /\ Contents'[handle] = (disk[handle] \o a) \o <<>>
      /\ Contents[handle] = disk[handle] \o buf
    BY <1>1, WrittenOut
<1>3. disk[handle] \in Seq(Half)
    BY <1>2, ContentsType
<1>4. disk[handle] \o a \in Seq(Half)
    BY <1>3, ConcatProperties
<1>5. Contents'[handle] = disk[handle] \o a
    BY <1>2, <1>4, ConcatEmptySeq
<1>6. IsPrefixOf(disk[handle] \o a, disk[handle] \o buf)
    <2> DEFINE s == disk[handle]
    <2>1. /\ s \in Seq(Half) /\ Len(s) \in Nat /\ Len(a) \in Nat /\ Len(buf) \in Nat
          /\ Len(a) <= Len(buf) /\ \A i \in 1 .. Len(a) : buf[i] = a[i]
        BY <1>1, <1>3, LenProperties DEF IsPrefixOf
    <2> HIDE DEF s
    <2>2. /\ Len(s \o a) = Len(s) + Len(a)
          /\ \A i \in 1 .. Len(s) + Len(a) : (s \o a)[i] = IF i <= Len(s) THEN s[i] ELSE a[i - Len(s)]
        BY <2>1, ConcatProperties
    <2>3. /\ Len(s \o buf) = Len(s) + Len(buf)
          /\ \A i \in 1 .. Len(s) + Len(buf) :
                (s \o buf)[i] = IF i <= Len(s) THEN s[i] ELSE buf[i - Len(s)]
        BY <1>1, <2>1, ConcatProperties
    <2>4. ASSUME NEW i \in 1 .. Len(s) + Len(a) PROVE (s \o buf)[i] = (s \o a)[i]
        <3>1. i \in 1 .. Len(s) + Len(buf)
            BY <2>1
        <3>2. CASE i <= Len(s)
            BY <2>2, <2>3, <3>1, <3>2
        <3>3. CASE ~(i <= Len(s))
            <4>1. i - Len(s) \in 1 .. Len(a)
                BY <2>1, <3>3
            <4> QED
                BY <2>1, <2>2, <2>3, <3>1, <3>3, <4>1
        <3> QED
            BY <3>2, <3>3
    <2>5. IsPrefixOf(s \o a, s \o buf)
        BY <2>1, <2>2, <2>3, <2>4 DEF IsPrefixOf
    <2> QED
        BY <2>5 DEF s
<1>7. ASSUME NEW p \in Files PROVE IsPrefixOf(Contents'[p], Contents[p])
    <2>1. Contents[p] \in Seq(Half)
        BY ContentsType
    <2> QED
        BY <1>2, <1>5, <1>6, <2>1, PrefixReflexive
<1>8. DOMAIN Contents = Files /\ DOMAIN Contents' = Files'
    BY DEF Contents
<1> QED
    BY <1>2, <1>7, <1>8

LEMMA ContentsHalves == TInv => HalvesIn(Contents)
    BY ContentsType

LEMMA LinesStep == LinesInv /\ [Next]_vars => LinesInv'
<1> SUFFICES ASSUME LinesInv, [Next]_vars PROVE LinesInv'
    OBVIOUS
<1>t. TInv /\ TInv'
    BY TypeStep DEF LinesInv
<1>n. /\ next \in Nat \ {0} /\ Handed \in Nat \ {0} /\ next <= Handed /\ Handed <= next + 1
      /\ died \in BOOLEAN /\ died' \in BOOLEAN /\ Handed' \in Int
      /\ now \in Paths /\ Live \in Paths /\ Live # now
    <2>1. died \in BOOLEAN /\ died' \in BOOLEAN
        BY <1>t, Zenon DEF TInv, TypeOK
    <2>2. next \in 1 .. MaxRecords + 1 /\ next' \in 1 .. MaxRecords + 1 /\ now \in 0 .. MaxTime
        BY <1>t DEF TInv, TypeOK
    <2>3. Handed \in {next, next + 1} /\ Handed' \in {next', next' + 1}
        BY DEF Handed
    <2>4. /\ next \in Nat \ {0} /\ Handed \in Nat \ {0} /\ next <= Handed /\ Handed <= next + 1
          /\ Handed' \in Int
        <3>1. next \in Nat \ {0} /\ next' \in Int
            BY <2>2
        <3>2. Handed' \in Int
            BY <2>3, <3>1
        <3>3. Handed \in Nat \ {0} /\ next <= Handed /\ Handed <= next + 1
            BY <2>3, <3>1
        <3> QED
            BY <3>1, <3>2, <3>3
    <2>5. now \in Paths /\ Live \in Paths /\ Live # now
        BY <2>2 DEF Paths, Live
    <2> QED
        BY <2>1, <2>4, <2>5
<1>c. /\ pc \in {"down", "renaming", "creating"} => buf = <<>>
      /\ pc # "down" /\ Exists(Live) => handle = Live
      /\ LinesOK(Contents, Handed, died)
    BY DEF LinesInv
\* What is left to show once the contents are known to be the same.
<1>k. ASSUME Contents' = Contents, Handed <= Handed', died' = died
      PROVE  LinesOK(Contents', Handed', died')
    BY <1>n, <1>c, <1>k, LaterKeeps
<1>m. ASSUME Moves(Contents', Contents), Handed <= Handed', died' = died
      PROVE  LinesOK(Contents', Handed', died')
    <2>1. LinesOK(Contents', Handed, died)
        BY <1>n, <1>c, <1>m, MovesKeep
    <2> QED
        BY <1>n, <1>m, <2>1, LaterKeeps
<1>l. ASSUME DOMAIN Contents' = DOMAIN Contents, Handed <= Handed', died' = TRUE,
             \A p \in DOMAIN Contents : IsPrefixOf(Contents'[p], Contents[p])
      PROVE  LinesOK(Contents', Handed', died')
    <2>1. HalvesIn(Contents)'
        BY <1>t, ContentsHalves, PTL
    <2>3. DOMAIN Contents \subseteq Paths
        BY <1>t, ContentsType
    <2>2. LinesOK(Contents', Handed, TRUE)
        BY <1>n, <1>c, <1>l, <2>1, <2>3, CutKeeps
    <2> QED
        BY <1>n, <1>l, <2>2, LaterKeeps
\* Steps in which no file appears or is renamed.
<1>f. ASSUME Files' = Files, handle' = handle, pc' # "down" => pc # "down"
      PROVE  pc' # "down" /\ Exists(Live)' => handle' = Live
    BY <1>n, <1>c, <1>f DEF Files
<1>1. CASE Open
    <2>1. buf = <<>> /\ handle' = Live /\ pc' = "idle" /\ died' = died /\ next' = next
        BY <1>1, <1>c DEF Open
    <2>2. Handed' = Handed
        BY <1>1, <2>1 DEF Handed, Open
    <2>3. CASE Append_ /\ Exists(Live)
        <3>1. disk' = disk /\ buf' = <<>>
            BY <1>1, <1>t, <2>3 DEF Open, TInv, TypeOK
        <3>2. Files' = Files /\ \A p \in Files : Contents'[p] = Contents[p]
            <4>1. Files' = Files
                BY <3>1 DEF Files
            <4>2. \A p \in Files : Content(p) = disk[p]
                BY <1>t, <2>1, ContentsType
            <4>3. \A p \in Files' : Content(p)' = disk'[p]
                <5>1. \A p \in Files' : disk'[p] \o <<>> = disk'[p]
                    BY <3>1, <4>1, <1>t, ContentsType, ConcatEmptySeq
                <5> QED
                    BY <3>1, <5>1 DEF Content
            <4> QED
                BY <3>1, <4>1, <4>2, <4>3 DEF Contents
        <3>3. Contents' = Contents
            BY <3>2 DEF Contents
        <3> QED
            BY <1>k, <1>t, <2>1, <2>2, <3>3 DEF LinesInv
    <2>4. CASE ~(Append_ /\ Exists(Live))
        <3>1. disk' = [disk EXCEPT ![Live] = <<>>] /\ buf' = Line(Header)
            BY <1>1, <2>4 DEF Open
        <3>2. Moves(Contents', Contents)
            BY <1>t, <2>1, <3>1, CreateMoves
        <3> QED
            BY <1>m, <1>n, <1>t, <2>1, <2>2, <3>1, <3>2 DEF LinesInv
    <2> QED
        BY <2>3, <2>4
<1>2. CASE StartWrite \/ RejectWrite \/ RenameError \/ CreateError \/ Tick \/ ClockBack \/ UNCHANGED vars
    <2>1. disk' = disk /\ buf' = buf /\ handle' = handle /\ died' = died
        BY <1>2 DEF StartWrite, RejectWrite, RenameError, CreateError, Tick, ClockBack, Reject,
                    vars, fileVars, writerVars
    <2>2. next' \in {next, next + 1}
        BY <1>2 DEF StartWrite, RejectWrite, RenameError, CreateError, Tick, ClockBack, Reject, vars
    <2>5. \/ pc' = pc
          \/ pc \in {"idle", "renaming", "creating"} /\ pc' \in {"idle", "rotating", "appending"}
        BY <1>2 DEF StartWrite, RejectWrite, RenameError, CreateError, Tick, ClockBack, Reject, vars
    <2>3. Contents' = Contents /\ Files' = Files
        BY <2>1 DEF Contents, Content, Files
    <2>4. Handed <= Handed'
        BY <1>n, <2>2, <2>5 DEF Handed
    <2> QED
        BY <1>c, <1>f, <1>k, <1>t, <2>1, <2>3, <2>4, <2>5 DEF LinesInv
<1>3. CASE RotateFlush \/ FlushError \/ FlushBatch \/ Flush
    <2>1. /\ pc # "down" /\ handle' = handle /\ (FlushOk \/ FlushFails)
        BY <1>3 DEF RotateFlush, FlushError, FlushBatch, Flush
    <2>2. died' = died
        BY <1>3, Zenon DEF RotateFlush, FlushError, FlushBatch, Flush, Reject
    <2>3. /\ Handed <= Handed'
          /\ pc' \notin {"down", "creating"} /\ (pc' = "renaming" => buf' = <<>>)
        BY <1>3, <1>n DEF RotateFlush, FlushError, FlushBatch, Flush, Reject, Handed, FlushOk
    <2>4. Contents' = Contents
        BY <1>t, <2>1, FlushKeepsContents
    <2>5. Files' = Files
        BY <2>4 DEF Contents
    <2> QED
        BY <1>f, <1>k, <1>t, <2>1, <2>2, <2>3, <2>4, <2>5 DEF LinesInv
<1>4. CASE RotateRename
    <2>1. Moves(Contents', Contents)
        BY <1>4, <1>t, RenameMoves
    <2>2. disk'[Live] = NoFile
        BY <1>4, <1>n, <1>t DEF RotateRename, TInv, TypeOK
    <2>3. pc' = "creating" /\ buf' = <<>> /\ died' = died /\ Handed' = Handed
        BY <1>4, <1>c DEF RotateRename, writerVars, Handed
    <2> QED
        BY <1>m, <1>n, <1>t, <2>1, <2>2, <2>3 DEF LinesInv
<1>5. CASE RotateCreate
    <2>1. /\ buf = <<>> /\ disk' = [disk EXCEPT ![Live] = <<>>]
          /\ handle' = Live /\ buf' = Line(Header)
          /\ pc' = "appending" /\ died' = died /\ Handed' = Handed
        BY <1>5, <1>c DEF RotateCreate, Handed
    <2>2. Moves(Contents', Contents)
        BY <1>t, <2>1, CreateMoves
    <2> QED
        BY <1>m, <1>n, <1>t, <2>1, <2>2 DEF LinesInv
<1>6. CASE AppendRecord
    <2>1. /\ DOMAIN Contents' = DOMAIN Contents /\ handle \in DOMAIN Contents
          /\ next \in Records
          /\ \A p \in DOMAIN Contents : p # handle => Contents'[p] = Contents[p]
          /\ Contents'[handle] = Contents[handle] \o Line(next)
        BY <1>6, <1>t, AppendAddsLine
    <2>2. died' = died
        BY <1>6, Zenon DEF AppendRecord, Reject
    <2>3. Handed = next /\ Handed' = next + 1 /\ pc' \in {"flushing", "idle"}
        BY <1>6 DEF AppendRecord, Reject, Handed
    <2>4. pc # "down" /\ handle' = handle
        BY <1>6 DEF AppendRecord
    <2>5. LinesOK(Contents', next + 1, died)
        BY <1>c, <1>n, <2>1, <2>3, RecordKeeps
    <2>6. Files' = Files
        BY <2>1 DEF Contents
    <2> QED
        BY <1>f, <1>t, <2>2, <2>3, <2>4, <2>5, <2>6 DEF LinesInv
<1>7. CASE Close
    <2>1. /\ pc = "idle" /\ pc' = "down" /\ buf' = <<>> /\ handle' = handle /\ next' = next
          /\ Handed' = Handed
        BY <1>7 DEF Close, Handed
    <2>2. CASE disk' = [disk EXCEPT ![handle] = @ \o buf] /\ died' = died
        <3>1. Contents' = Contents
            BY <1>t, <2>1, <2>2, FlushKeepsContents
        <3> QED
            BY <1>k, <1>n, <1>t, <2>1, <2>2, <3>1 DEF LinesInv
    <2>3. CASE /\ \E k \in 0 .. Len(buf) : disk' = [disk EXCEPT ![handle] = @ \o SubSeq(buf, 1, k)]
               /\ died' = TRUE
        <3>1. PICK k \in 0 .. Len(buf) : disk' = [disk EXCEPT ![handle] = @ \o SubSeq(buf, 1, k)]
            BY <2>3
        <3>2. buf \in Seq(Half) /\ Len(buf) \in Nat
            BY <1>t, LenProperties DEF TInv, TypeOK
        <3>3. SubSeq(buf, 1, k) \in Seq(Half)
            BY <3>2, CutType
        <3>4. IsPrefixOf(SubSeq(buf, 1, k), buf)
            <4>1. \A i \in 1 .. k : buf[i] \in Half
                BY <3>2, ElementOfSeq
            <4>2. /\ Len(SubSeq(buf, 1, k)) = IF 1 <= k THEN k - 1 + 1 ELSE 0
                  /\ \A i \in 1 .. k - 1 + 1 : SubSeq(buf, 1, k)[i] = buf[1 + i - 1]
                BY <4>1, SubSeqProperties
            <4>3. Len(SubSeq(buf, 1, k)) = k /\ \A i \in 1 .. k : SubSeq(buf, 1, k)[i] = buf[i]
                BY <4>2
            <4> QED
                BY <3>2, <4>3 DEF IsPrefixOf
        <3>5. /\ DOMAIN Contents' = DOMAIN Contents
              /\ \A p \in DOMAIN Contents : IsPrefixOf(Contents'[p], Contents[p])
            BY <1>t, <2>1, <3>1, <3>3, <3>4, LostBuffer
        <3>6. LinesOK(Contents', Handed', died')
            <4>1. Handed <= Handed' /\ died' = TRUE
                BY <1>n, <2>1, <2>3
            <4> QED
                BY <1>l, <3>5, <4>1
        <3> QED
            BY <1>t, <2>1, <3>6 DEF LinesInv
    <2> QED
        BY <1>7, <2>2, <2>3 DEF Close
<1>8. CASE Crash
    <2>1. /\ pc # "down" /\ pc' = "down" /\ buf' = <<>> /\ handle' = handle
          /\ disk' = disk /\ died' = TRUE
        BY <1>8 DEF Crash, fileVars
    <2>2. Handed <= Handed'
        BY <1>8, <1>n DEF Crash, Handed
    <2>3. <<>> \in Seq(Half) /\ buf \in Seq(Half) /\ disk[handle] \in Seq(Half)
        BY <1>t, <2>1, EmptySeq DEF TInv, TypeOK, HandleOpen
    <2>4. disk' = [disk EXCEPT ![handle] = @ \o <<>>]
        BY <1>t, <2>1, <2>3, ConcatEmptySeq DEF TInv, TypeOK
    <2>5. IsPrefixOf(<<>>, buf)
        BY <2>3, LenProperties DEF IsPrefixOf
    <2>6. /\ DOMAIN Contents' = DOMAIN Contents
          /\ \A p \in DOMAIN Contents : IsPrefixOf(Contents'[p], Contents[p])
        BY <1>t, <2>1, <2>3, <2>4, <2>5, LostBuffer
    <2> QED
        BY <1>l, <1>n, <1>t, <2>1, <2>2, <2>6 DEF LinesInv
<1> QED
    BY <1>1, <1>2, <1>3, <1>4, <1>5, <1>6, <1>7, <1>8 DEF Next, WriteStep

LEMMA LinesInvariant == Spec => []LinesInv
    BY LinesInit, LinesStep, PTL DEF Spec

\* At most one place holds a half: a set of equal elements has at most one.
LEMMA LinesAreOnce == LinesInv => EachLineOnce
<1> SUFFICES ASSUME LinesInv PROVE EachLineOnce
    OBVIOUS
<1>t. TInv
    BY DEF LinesInv
<1>1. WellFormed
    BY <1>t, ContentsType DEF LinesInv, LinesOK, WholeFile, WellFormed
<1>2. ASSUME NEW r \in Records, NEW k \in {1, 2}
      PROVE  Cardinality({x \in Paths \X (1 .. 2 * MaxRecords + 2) :
                        /\ Exists(x[1])
                        /\ x[2] \in DOMAIN Content(x[1])
                        /\ Content(x[1])[x[2]] = [of |-> r, half |-> k]}) <= 1
    <2> DEFINE places == {x \in Paths \X (1 .. 2 * MaxRecords + 2) :
                        /\ Exists(x[1])
                        /\ x[2] \in DOMAIN Content(x[1])
                        /\ Content(x[1])[x[2]] = [of |-> r, half |-> k]}
    <2>1. ASSUME NEW x \in places, NEW y \in places PROVE x = y
        <3>1. /\ x[1] \in Files /\ x[2] \in DOMAIN Contents[x[1]]
              /\ Contents[x[1]][x[2]] = [of |-> r, half |-> k]
              /\ y[1] \in Files /\ y[2] \in DOMAIN Contents[y[1]]
              /\ Contents[y[1]][y[2]] = [of |-> r, half |-> k]
            BY DEF Files, Contents
        <3>2. x[1] = y[1] /\ x[2] = y[2]
            BY <1>t, <3>1, ContentsType DEF LinesInv, LinesOK, Distinct
        <3> QED
            BY <3>2
    <2> HIDE DEF places
    <2>2. places = {} \/ \E x : places = {x}
        <3>1. CASE places # {}
            <4> PICK x \in places : TRUE
                BY <3>1
            <4>1. places = {x}
                BY <2>1
            <4> QED
                BY <4>1
        <3> QED
            BY <3>1
    <2>3. Cardinality(places) <= 1
        <3>1. CASE places = {}
            BY <3>1, FS_EmptySet
        <3>2. ASSUME NEW x, places = {x} PROVE Cardinality(places) <= 1
            <4>1. Cardinality({x}) = 1
                BY FS_Singleton
            <4> QED
                BY <3>2, <4>1
        <3> QED
            BY <2>2, <3>1, <3>2
    <2> QED
        BY <2>3 DEF places
<1> QED
    BY <1>1, <1>2 DEF EachLineOnce, NoDuplicates

\* Whatever fails, however the buffer spills and wherever the clock is set, no
\* half of a line is written twice, and until a process ends without writing
\* its buffer every file is its header and whole lines.
THEOREM EachLineOnceAlways == Spec => []EachLineOnce
    BY LinesInvariant, LinesAreOnce, PTL

-----------------------------------------------------------------------------
(* No accepted record is lost.  When the buffer has room for a batch, no     *)
(* flush fails half way and files are rotated by age, only whole lines ever  *)
(* reach a file, and what the files hold is never taken away.                *)

WholeBatches ==
    /\ AgeOnly /\ Append_ = TRUE
    /\ BatchSize > 0 /\ BufCap >= 2 * BatchSize + 2
    /\ Faults \cap {"flush", "drop"} = {}

\* Whole lines, with or without a header.
Lined(s) ==
    /\ s \in Seq(Half) /\ Len(s) % 2 = 0
    /\ \A i \in DOMAIN s : i % 2 = 0 => WholeAt(s, i)

LEMMA LinedEmpty == Lined(<<>>) /\ RecordsIn(<<>>) = {}
<1>1. <<>> \in Seq(Half) /\ Len(<<>>) = 0 /\ DOMAIN <<>> = {}
    BY EmptySeq
<1>2. 0 % 2 = 0
    OBVIOUS
<1> QED
    BY <1>1, <1>2 DEF Lined, RecordsIn

\* The records of whole lines are those of their second halves.
LEMMA LinedRecords ==
    ASSUME NEW s, Lined(s)
    PROVE  /\ Len(s) \in Nat /\ DOMAIN s = 1 .. Len(s)
           /\ \A r : r \in RecordsIn(s) <=>
                r # Header /\ \E i \in 1 .. Len(s) : i % 2 = 0 /\ s[i].of = r
<1>1. Len(s) \in Nat /\ DOMAIN s = 1 .. Len(s)
    BY LenProperties DEF Lined
<1>2. ASSUME NEW i \in 1 .. Len(s), i % 2 # 0 PROVE ~WholeAt(s, i)
    <2>1. i + 1 \in 1 .. Len(s) /\ (i + 1) % 2 = 0 /\ (i + 1) - 1 = i
        BY <1>1, <1>2 DEF Lined
    <2>2. WholeAt(s, i + 1)
        BY <1>1, <2>1 DEF Lined
    <2>3. s[i] = [of |-> s[i + 1].of, half |-> 1]
        BY <2>1, <2>2 DEF WholeAt
    <2>4. s[i].half = 1
        BY <2>3
    <2> QED
        BY <2>4 DEF WholeAt
<1>3. \A i \in 1 .. Len(s) : WholeAt(s, i) <=> i % 2 = 0
    BY <1>1, <1>2 DEF Lined
<1>4. \A r : r \in RecordsIn(s) <=> r # Header /\ \E i \in 1 .. Len(s) : WholeAt(s, i) /\ s[i].of = r
    BY <1>1 DEF RecordsIn
<1> QED
    BY <1>1, <1>3, <1>4

\* Whole lines after whole lines: no record appears or disappears.
LEMMA LinedConcat ==
    ASSUME NEW s, NEW t, Lined(s), Lined(t)
    PROVE  Lined(s \o t) /\ RecordsIn(s \o t) = RecordsIn(s) \cup RecordsIn(t)
<1> DEFINE u == s \o t
           m == Len(s)
           n == Len(t)
<1>1. /\ s \in Seq(Half) /\ t \in Seq(Half)
      /\ m \in Nat /\ DOMAIN s = 1 .. m /\ m % 2 = 0
      /\ n \in Nat /\ DOMAIN t = 1 .. n /\ n % 2 = 0
    BY LinedRecords DEF Lined
<1>2. /\ u \in Seq(Half) /\ Len(u) = Len(s) + Len(t)
      /\ \A i \in 1 .. Len(s) + Len(t) : u[i] = IF i <= Len(s) THEN s[i] ELSE t[i - Len(s)]
    BY <1>1, ConcatProperties
<1>3. /\ u \in Seq(Half) /\ Len(u) = m + n
      /\ \A i \in 1 .. m + n : u[i] = IF i <= m THEN s[i] ELSE t[i - m]
    BY <1>2
<1> HIDE DEF u, m, n
<1>4. DOMAIN u = 1 .. m + n
    BY <1>3, LenProperties
<1>5. \A i \in 1 .. m : u[i] = s[i]
    BY <1>1, <1>3
<1>6. ASSUME NEW i \in 1 .. n PROVE u[m + i] = t[i] /\ m + i \in 1 .. m + n
    <2>1. m + i \in 1 .. m + n /\ ~(m + i <= m) /\ (m + i) - m = i
        BY <1>1
    <2> QED
        BY <1>3, <2>1
<1>7. ASSUME NEW i \in 1 .. m + n, i % 2 = 0 PROVE WholeAt(u, i)
    <2>1. CASE i <= m
        <3>1. i \in 1 .. m /\ WholeAt(s, i)
            BY <1>1, <1>7, <2>1 DEF Lined
        <3>2. i > 1 /\ i - 1 \in 1 .. m /\ (i > 2 => i - 2 \in 1 .. m)
            BY <1>1, <3>1 DEF WholeAt
        <3>3. u[i] = s[i] /\ u[i - 1] = s[i - 1] /\ (i > 2 => u[i - 2] = s[i - 2])
            BY <1>5, <3>1, <3>2
        <3> QED
            BY <3>1, <3>2, <3>3 DEF WholeAt
    <2>2. CASE ~(i <= m)
        <3> DEFINE j == i - m
        <3>1. j \in 1 .. n /\ j % 2 = 0 /\ i = m + j
            BY <1>1, <1>7, <2>2
        <3> HIDE DEF j
        <3>2. WholeAt(t, j)
            BY <1>1, <3>1 DEF Lined
        <3>3. j > 1 /\ j - 1 \in 1 .. n /\ i > 1 /\ m + (j - 1) = i - 1
            BY <1>1, <3>1, <3>2 DEF WholeAt
        <3>4. u[i] = t[j] /\ u[i - 1] = t[j - 1]
            BY <1>6, <3>1, <3>3
        <3>5. i > 2 => u[i - 2].half = 2
            <4>1. CASE j > 2
                <5>1. j - 2 \in 1 .. n /\ m + (j - 2) = i - 2
                    BY <1>1, <3>1, <4>1
                <5> QED
                    BY <1>6, <3>2, <4>1, <5>1 DEF WholeAt
            <4>2. CASE ~(j > 2) /\ i > 2
                <5>1. j = 2 /\ i - 2 = m /\ m \in 1 .. m
                    BY <1>1, <3>1, <3>3, <4>2
                <5>2. WholeAt(s, m)
                    BY <1>1, <5>1 DEF Lined
                <5> QED
                    BY <1>5, <5>1, <5>2 DEF WholeAt
            <4> QED
                BY <4>1, <4>2
        <3> QED
            BY <3>2, <3>3, <3>4, <3>5 DEF WholeAt
    <2> QED
        BY <2>1, <2>2
<1>8. Lined(u)
    <2>1. (m + n) % 2 = 0
        BY <1>1
    <2> QED
        BY <1>3, <1>4, <1>7, <2>1 DEF Lined
<1>9. ASSUME NEW r PROVE r \in RecordsIn(u) <=> r \in RecordsIn(s) \/ r \in RecordsIn(t)
    <2>1. r \in RecordsIn(u) <=> r # Header /\ \E i \in 1 .. m + n : i % 2 = 0 /\ u[i].of = r
        BY <1>3, <1>8, LinedRecords
    <2>2. r \in RecordsIn(s) <=> r # Header /\ \E i \in 1 .. m : i % 2 = 0 /\ s[i].of = r
        BY LinedRecords DEF m
    <2>3. r \in RecordsIn(t) <=> r # Header /\ \E i \in 1 .. n : i % 2 = 0 /\ t[i].of = r
        BY LinedRecords DEF n
    <2>4. ASSUME NEW i \in 1 .. m + n, i % 2 = 0, u[i].of = r
          PROVE  \/ \E j \in 1 .. m : j % 2 = 0 /\ s[j].of = r
                 \/ \E j \in 1 .. n : j % 2 = 0 /\ t[j].of = r
        <3>1. CASE i <= m
            <4>1. i \in 1 .. m
                BY <1>1, <3>1
            <4> QED
                BY <1>5, <2>4, <4>1
        <3>2. CASE ~(i <= m)
            <4>1. i - m \in 1 .. n /\ (i - m) % 2 = 0 /\ m + (i - m) = i
                BY <1>1, <2>4, <3>2
            <4> QED
                BY <1>6, <2>4, <4>1
        <3> QED
            BY <3>1, <3>2
    <2>5. ASSUME NEW i \in 1 .. m, i % 2 = 0, s[i].of = r
          PROVE  \E j \in 1 .. m + n : j % 2 = 0 /\ u[j].of = r
        <3>1. i \in 1 .. m + n
            BY <1>1
        <3> QED
            BY <1>5, <2>5, <3>1
    <2>6. ASSUME NEW i \in 1 .. n, i % 2 = 0, t[i].of = r
          PROVE  \E j \in 1 .. m + n : j % 2 = 0 /\ u[j].of = r
        <3>1. (m + i) % 2 = 0
            BY <1>1, <2>6
        <3> QED
            BY <1>6, <2>6, <3>1
    <2> QED
        BY <2>1, <2>2, <2>3, <2>4, <2>5, <2>6
<1> QED
    BY <1>8, <1>9 DEF u

LEMMA LinedLine ==
    ASSUME NEW r \in {Header} \cup Records
    PROVE  Lined(Line(r)) /\ RecordsIn(Line(r)) = {r} \ {Header}
<1> DEFINE s == Line(r)
<1>1. /\ s \in Seq(Half) /\ Len(s) = 2 /\ DOMAIN s = {1, 2}
      /\ s[1] = [of |-> r, half |-> 1] /\ s[2] = [of |-> r, half |-> 2]
    BY LineHalves
<1> HIDE DEF s
<1>2. s[2].of = r /\ s[2].half = 2 /\ s[1] = [of |-> s[2].of, half |-> 1]
    BY <1>1
<1>3. 2 % 2 = 0 /\ 1 % 2 # 0 /\ 2 - 1 = 1
    OBVIOUS
<1>4. WholeAt(s, 2)
    BY <1>2, <1>3 DEF WholeAt
<1>5. Lined(s)
    BY <1>1, <1>3, <1>4 DEF Lined
<1>6. RecordsIn(s) = {r} \ {Header}
    <2>1. \A x : x \in RecordsIn(s) <=> x # Header /\ \E i \in 1 .. 2 : i % 2 = 0 /\ s[i].of = x
        BY <1>1, <1>5, LinedRecords
    <2>2. \A i \in 1 .. 2 : i % 2 = 0 <=> i = 2
        BY <1>3
    <2> QED
        BY <1>2, <2>1, <2>2
<1> QED
    BY <1>5, <1>6 DEF s

-----------------------------------------------------------------------------
\* The records accepted since the last open are on disk or in the buffer, which
\* holds a record for every one that was counted, and never has to spill.
BatchInv ==
    /\ pc # "down" =>
        /\ Len(buf) <= 2 * recordsWritten + 2
        /\ IsFiniteSet(RecordsIn(buf)) /\ Cardinality(RecordsIn(buf)) <= recordsWritten
    /\ pc \notin {"down", "flushing"} => recordsWritten < BatchSize
    /\ pc = "flushing" => next \in RecordsIn(buf)

Kept ==
    /\ safe \subseteq OnDisk
    /\ pc # "down" => acked \subseteq OnDisk \cup RecordsIn(buf)
    /\ pc = "down" => acked = {}

KeptInv ==
    /\ LinesInv /\ TimeInv
    /\ \A p \in Files : Lined(disk[p])
    /\ Lined(buf)
    /\ BatchInv
    /\ Kept

LEMMA OnDiskMeans == \A r : r \in OnDisk <=> \E p \in Files : r \in RecordsIn(disk[p])
    BY DEF OnDisk

LEMMA KeptInit == Init => KeptInv
<1> SUFFICES ASSUME Init PROVE KeptInv
    OBVIOUS
<1>1. LinesInv /\ TimeInv
    BY LinesInit, TimeInit
<1>2. Files = {}
    BY DEF Init, Files
<1>3. Lined(buf)
    BY LinedEmpty DEF Init
<1> QED
    BY <1>1, <1>2, <1>3 DEF Init, KeptInv, BatchInv, Kept

\* A buffer of whole lines is written to the open file.
LEMMA FlushKeepsRecords ==
    ASSUME TInv, pc # "down", Lined(buf), \A p \in Files : Lined(disk[p]),
           disk' = [disk EXCEPT ![handle] = @ \o buf]
    PROVE  /\ \A p \in Files' : Lined(disk'[p])
           /\ OnDisk \cup RecordsIn(buf) \subseteq OnDisk'
<1>1. handle \in Files /\ Lined(disk[handle])
    BY DEF TInv, TypeOK, HandleOpen, Files
<1>2. /\ Lined(disk[handle] \o buf)
      /\ RecordsIn(disk[handle] \o buf) = RecordsIn(disk[handle]) \cup RecordsIn(buf)
    BY <1>1, LinedConcat
<1>3. disk'[handle] = disk[handle] \o buf /\ \A p \in Paths : p # handle => disk'[p] = disk[p]
    BY <1>1 DEF TInv, TypeOK
<1>4. disk'[handle] # NoFile
    BY <1>2, <1>3 DEF Lined
<1>5. Files' = Files
    BY <1>1, <1>3, <1>4 DEF Files
<1>6. \A p \in Files' : Lined(disk'[p])
    BY <1>2, <1>3, <1>5 DEF Files
<1>7. \A p \in Files : RecordsIn(disk[p]) \subseteq RecordsIn(disk'[p])
    BY <1>2, <1>3 DEF Files
<1>8. RecordsIn(buf) \subseteq RecordsIn(disk'[handle])
    BY <1>2, <1>3
<1>9. OnDisk' = UNION {RecordsIn(disk'[p]) : p \in Files'}
    BY DEF OnDisk
<1> QED
    BY <1>1, <1>5, <1>6, <1>7, <1>8, <1>9 DEF OnDisk

\* A new live file where there was none.
LEMMA CreateKeepsRecords ==
    ASSUME TInv, \A p \in Files : Lined(disk[p]), ~Exists(Live),
           disk' = [disk EXCEPT ![Live] = <<>>]
    PROVE  (\A p \in Files' : Lined(disk'[p])) /\ OnDisk \subseteq OnDisk'
<1>1. Live \in Paths /\ Live \notin Files
    BY DEF Paths, Files
<1>2. disk'[Live] = <<>> /\ \A p \in Paths : p # Live => disk'[p] = disk[p]
    BY <1>1 DEF TInv, TypeOK
<1>3. Files \subseteq Files' /\ \A p \in Files : disk'[p] = disk[p]
    BY <1>1, <1>2 DEF Files
<1>4. \A p \in Files' : p = Live \/ p \in Files
    BY <1>2 DEF Files
<1>5. \A p \in Files' : Lined(disk'[p])
    BY <1>2, <1>3, <1>4, LinedEmpty
<1>6. OnDisk' = UNION {RecordsIn(disk'[p]) : p \in Files'}
    BY DEF OnDisk
<1> QED
    BY <1>3, <1>5, <1>6 DEF OnDisk

\* The live file gets a name that is free.
LEMMA RenameKeepsRecords ==
    ASSUME TInv, \A p \in Files : Lined(disk[p]), RotateRename, ~Exists(now)
    PROVE  (\A p \in Files' : Lined(disk'[p])) /\ OnDisk \subseteq OnDisk'
<1>1. /\ Live \in Paths /\ now \in Paths /\ now # Live /\ Live \in Files
      /\ disk' = [disk EXCEPT ![now] = disk[Live], ![Live] = NoFile]
    BY DEF Paths, Live, TInv, TypeOK, RotateRename, Files
<1>2. /\ disk'[now] = disk[Live] /\ disk'[Live] = NoFile
      /\ \A p \in Paths : p # Live /\ p # now => disk'[p] = disk[p]
    BY <1>1 DEF TInv, TypeOK
<1>3. \A p \in Files' : p = now \/ (p \in Files /\ disk'[p] = disk[p])
    BY <1>2 DEF Files
<1>4. \A p \in Files' : Lined(disk'[p])
    BY <1>1, <1>2, <1>3
<1>5. \A p \in Files : p = Live \/ (p \in Files' /\ disk'[p] = disk[p])
    BY <1>2 DEF Files
<1>6. now \in Files'
    BY <1>1, <1>2 DEF Files
<1>7. OnDisk' = UNION {RecordsIn(disk'[p]) : p \in Files'}
    BY DEF OnDisk
<1>8. \A p \in Files : \E q \in Files' : disk'[q] = disk[p]
    BY <1>1, <1>2, <1>5, <1>6
<1> QED
    BY <1>4, <1>7, <1>8 DEF OnDisk

\* A batch fits into the buffer: the line is added and nothing is written out.
LEMMA AppendFits ==
    ASSUME WholeBatches, KeptInv, AppendRecord
    PROVE  /\ disk' = disk /\ buf' = buf \o Line(next) /\ Lined(buf')
           /\ RecordsIn(buf') = RecordsIn(buf) \cup {next}
           /\ Len(buf') <= 2 * recordsWritten' + 2
           /\ IsFiniteSet(RecordsIn(buf')) /\ Cardinality(RecordsIn(buf')) <= recordsWritten'
<1> DEFINE all == buf \o Line(next)
           spill == IF Len(all) > BufCap THEN BufCap ELSE 0
<1>1. /\ disk' = [disk EXCEPT ![handle] = @ \o SubSeq(all, 1, spill)]
      /\ buf' = SubSeq(all, spill + 1, Len(all))
      /\ pc = "appending" /\ recordsWritten' = recordsWritten + 1
    BY DEF AppendRecord
<1>2. TInv /\ Lined(buf) /\ BatchInv
    BY DEF KeptInv, LinesInv
<1>3. /\ next \in Records /\ recordsWritten \in Nat /\ disk[handle] \in Seq(Half)
      /\ buf \in Seq(Half) /\ Len(buf) \in Nat
    BY <1>1, <1>2, LenProperties DEF TInv, TypeOK, RecordAtHand, HandleOpen
<1>4. /\ Line(next) \in Seq(Half) /\ Len(Line(next)) = 2 /\ Lined(Line(next))
      /\ RecordsIn(Line(next)) = {next}
    <2>1. next \in {Header} \cup Records /\ {next} \ {Header} = {next}
        BY <1>3 DEF Records, Header
    <2>2. Line(next) \in Seq(Half) /\ Len(Line(next)) = 2
        BY <2>1, LineHalves
    <2> QED
        BY <2>1, <2>2, LinedLine
<1>5. Lined(all) /\ RecordsIn(all) = RecordsIn(buf) \cup {next}
    BY <1>2, <1>4, LinedConcat
<1>6. all \in Seq(Half) /\ Len(all) = Len(buf) + 2
    <2>1. all \in Seq(Half) /\ Len(all) = Len(buf) + Len(Line(next))
        BY <1>3, <1>4, ConcatProperties
    <2> QED
        BY <1>4, <2>1
<1>7. Len(buf) <= 2 * recordsWritten + 2 /\ recordsWritten < BatchSize
    BY <1>1, <1>2 DEF BatchInv
<1>8. spill = 0
    <2>1. BatchSize \in Nat /\ BufCap \in Nat /\ BufCap >= 2 * BatchSize + 2
        BY ConfigAssumption DEF WholeBatches
    <2>2. ~(Len(all) > BufCap)
        BY <1>3, <1>6, <1>7, <2>1
    <2> QED
        BY <2>2
<1> HIDE DEF spill, all
<1>9. SubSeq(all, 1, 0) = <<>> /\ SubSeq(all, 1, Len(all)) = all
    BY <1>6, SubSeqEmpty, SubSeqFull
<1>10. disk' = disk
    <2>1. disk[handle] \o <<>> = disk[handle]
        BY <1>3, ConcatEmptySeq
    <2>2. disk' = [disk EXCEPT ![handle] = @ \o <<>>]
        BY <1>1, <1>8, <1>9
    <2> QED
        BY <1>2, <2>1, <2>2 DEF TInv, TypeOK
<1>11. buf' = all
    <2>1. 0 + 1 = 1
        OBVIOUS
    <2> QED
        BY <1>1, <1>8, <1>9, <2>1
<1>12. Len(all) <= 2 * recordsWritten' + 2
    BY <1>1, <1>3, <1>6, <1>7
<1>13. /\ IsFiniteSet(RecordsIn(buf) \cup {next})
       /\ Cardinality(RecordsIn(buf) \cup {next}) <= Cardinality(RecordsIn(buf)) + 1
       /\ Cardinality(RecordsIn(buf)) \in Nat
       /\ Cardinality(RecordsIn(buf)) <= recordsWritten
    <2>1. IsFiniteSet(RecordsIn(buf)) /\ Cardinality(RecordsIn(buf)) <= recordsWritten
        BY <1>1, <1>2 DEF BatchInv
    <2>2. Cardinality(RecordsIn(buf)) \in Nat
        BY <2>1, FS_CardinalityType
    <2>3. /\ IsFiniteSet(RecordsIn(buf) \cup {next})
          /\ Cardinality(RecordsIn(buf) \cup {next}) =
                IF next \in RecordsIn(buf) THEN Cardinality(RecordsIn(buf))
                ELSE Cardinality(RecordsIn(buf)) + 1
        BY <2>1, FS_AddElement
    <2> QED
        BY <2>1, <2>2, <2>3
<1>14. Cardinality(RecordsIn(all)) <= recordsWritten' /\ IsFiniteSet(RecordsIn(all))
    <2> DEFINE c == Cardinality(RecordsIn(buf))
               d == Cardinality(RecordsIn(buf) \cup {next})
    <2>1. d <= c + 1 /\ c \in Nat /\ c <= recordsWritten /\ d \in Nat
        BY <1>13, FS_CardinalityType
    <2> HIDE DEF c, d
    <2>2. d <= recordsWritten'
        BY <1>1, <1>3, <2>1
    <2> QED
        BY <1>5, <1>13, <2>2 DEF d
<1> QED
    BY <1>5, <1>10, <1>11, <1>12, <1>14 DEF all

LEMMA KeptStep ==
    ASSUME WholeBatches, KeptInv, [Next]_vars
    PROVE  KeptInv'
<1>t. /\ TInv /\ TInv' /\ LinesInv /\ LinesInv' /\ TimeInv /\ TimeInv' /\ NoOverwrite
      /\ \A p \in Files : Lined(disk[p])
      /\ Lined(buf) /\ BatchInv /\ Kept
    <2>1. LinesInv /\ TimeInv /\ TInv /\ AgeOnly
        BY DEF KeptInv, LinesInv, WholeBatches
    <2>2. TInv' /\ LinesInv'
        BY <2>1, TypeStep, LinesStep
    <2>3. TimeInv'
        BY <2>1, TimeStep
    <2>4. NoOverwrite
        BY <2>1 DEF TInv, TypeOK, TimeInv, RotatedBy, NoOverwrite
    <2> QED
        BY <2>1, <2>2, <2>3, <2>4 DEF KeptInv
<1>c. /\ pc \in {"down", "renaming", "creating"} => buf = <<>>
      /\ BatchSize \in Nat /\ BatchSize > 0 /\ recordsWritten \in Nat
      /\ "flush" \notin Faults /\ "drop" \notin Faults
    BY <1>t, ConfigAssumption DEF LinesInv, TInv, TypeOK, WholeBatches
<1>b. /\ pc # "down" => /\ Len(buf) <= 2 * recordsWritten + 2
                        /\ IsFiniteSet(RecordsIn(buf))
                        /\ Cardinality(RecordsIn(buf)) <= recordsWritten
      /\ pc \notin {"down", "flushing"} => recordsWritten < BatchSize
      /\ pc = "flushing" => next \in RecordsIn(buf)
    BY <1>t DEF BatchInv
<1>e. /\ Lined(<<>>) /\ RecordsIn(<<>>) = {} /\ Len(<<>>) = 0
      /\ IsFiniteSet(RecordsIn(<<>>)) /\ Cardinality(RecordsIn(<<>>)) = 0
    BY LinedEmpty, EmptySeq, FS_EmptySet
<1>h. /\ Lined(Line(Header)) /\ Len(Line(Header)) = 2
      /\ IsFiniteSet(RecordsIn(Line(Header))) /\ Cardinality(RecordsIn(Line(Header))) = 0
    <2>1. {Header} \ {Header} = {}
        OBVIOUS
    <2>2. Len(Line(Header)) = 2
        BY LineHalves
    <2> QED
        BY <2>1, <2>2, LinedLine, FS_EmptySet
<1>x. ASSUME buf' \in {<<>>, Line(Header)}, recordsWritten' = 0, pc' \in {"idle", "appending"}
      PROVE  BatchInv'
    <2>1. /\ Len(buf') \in {0, 2} /\ IsFiniteSet(RecordsIn(buf'))
          /\ Cardinality(RecordsIn(buf')) = 0
        <3>1. CASE buf' = <<>>
            BY <1>e, <3>1
        <3>2. CASE buf' = Line(Header)
            BY <1>h, <3>2
        <3> QED
            BY <1>x, <3>1, <3>2
    <2>2. Len(buf') <= 2 * recordsWritten' + 2
        <3>1. 0 <= 2 * 0 + 2 /\ 2 <= 2 * 0 + 2
            OBVIOUS
        <3> QED
            BY <1>x, <2>1, <3>1
    <2>3. Cardinality(RecordsIn(buf')) <= recordsWritten' /\ recordsWritten' < BatchSize
        BY <1>c, <1>x, <2>1
    <2> QED
        BY <1>x, <2>1, <2>2, <2>3 DEF BatchInv
\* What has to be shown of a step.
<1>s. ASSUME \A p \in Files' : Lined(disk'[p]), Lined(buf'), BatchInv', Kept'
      PROVE  KeptInv'
    BY <1>t, <1>s DEF KeptInv
<1>1. CASE Open
    <2>1. /\ pc = "down" /\ pc' = "idle" /\ recordsWritten' = 0 /\ safe' = safe /\ acked' = acked
          /\ buf' \in {<<>>, Line(Header)} /\ buf = <<>> /\ acked = {}
        BY <1>1, <1>c, <1>t DEF Open, Kept
    <2>2. (\A p \in Files' : Lined(disk'[p])) /\ OnDisk \subseteq OnDisk'
        <3>1. CASE Exists(Live)
            <4>1. disk' = disk
                BY <1>1, <1>t, <3>1 DEF Open, WholeBatches, TInv, TypeOK
            <4> QED
                BY <1>t, <4>1 DEF Files, OnDisk
        <3>2. CASE ~Exists(Live)
            <4>1. disk' = [disk EXCEPT ![Live] = <<>>]
                BY <1>1, <3>2 DEF Open
            <4> QED
                BY <1>t, <3>2, <4>1, CreateKeepsRecords
        <3> QED
            BY <3>1, <3>2
    <2>3. Lined(buf')
        BY <1>e, <1>h, <2>1
    <2>4. BatchInv'
        BY <1>x, <2>1
    <2>5. Kept'
        BY <1>t, <2>1, <2>2 DEF Kept
    <2> QED
        BY <1>s, <2>2, <2>3, <2>4, <2>5
<1>2. CASE StartWrite \/ RejectWrite \/ RenameError \/ CreateError \/ Tick \/ ClockBack \/ UNCHANGED vars
    <2>1. /\ disk' = disk /\ buf' = buf /\ recordsWritten' = recordsWritten
          /\ safe' = safe /\ acked' = acked
        BY <1>2 DEF StartWrite, RejectWrite, RenameError, CreateError, Tick, ClockBack, Reject,
                    vars, fileVars, writerVars
    <2>2. \/ pc' = pc /\ next' = next
          \/ /\ pc \in {"idle", "renaming", "creating"}
             /\ pc' \in {"idle", "rotating", "appending"}
        BY <1>2 DEF StartWrite, RejectWrite, RenameError, CreateError, Tick, ClockBack, Reject, vars
    <2>3. (\A p \in Files' : Lined(disk'[p])) /\ OnDisk' = OnDisk /\ Lined(buf')
        BY <1>t, <2>1 DEF Files, OnDisk
    <2>4. BatchInv'
        BY <1>b, <2>1, <2>2 DEF BatchInv
    <2>5. Kept'
        BY <1>t, <2>1, <2>2, <2>3 DEF Kept
    <2> QED
        BY <1>s, <2>3, <2>4, <2>5
<1>3. CASE RotateFlush \/ FlushError \/ FlushBatch \/ Flush \/ Close
    <2>1. /\ pc \in {"idle", "rotating", "flushing"}
          /\ disk' = [disk EXCEPT ![handle] = @ \o buf] /\ buf' = <<>>
          /\ pc' = "down" \/ recordsWritten' = 0
          /\ pc' \in {"idle", "renaming", "down"}
        BY <1>3, <1>c DEF RotateFlush, FlushError, FlushBatch, Flush, Close, FlushOk
    <2>2. /\ safe' \subseteq safe \cup acked \cup (IF pc = "flushing" THEN {next} ELSE {})
          /\ acked' \subseteq acked \cup (IF pc = "flushing" THEN {next} ELSE {})
          /\ pc' = "down" => acked' = {}
        BY <1>3, <1>c DEF RotateFlush, FlushError, FlushBatch, Flush, Close
    <2>3. /\ \A p \in Files' : Lined(disk'[p])
          /\ OnDisk \cup RecordsIn(buf) \subseteq OnDisk'
        BY <1>t, <2>1, FlushKeepsRecords
    <2>4. safe \cup acked \cup (IF pc = "flushing" THEN {next} ELSE {}) \subseteq OnDisk \cup RecordsIn(buf)
        BY <1>b, <1>t, <2>1 DEF Kept
    <2>5. Lined(buf')
        BY <1>e, <2>1
    <2>6. BatchInv'
        BY <1>c, <1>e, <2>1 DEF BatchInv
    <2>7. Kept'
        BY <2>2, <2>3, <2>4 DEF Kept
    <2> QED
        BY <1>s, <2>3, <2>5, <2>6, <2>7
<1>4. CASE RotateRename
    <2>1. ~Exists(now) /\ pc = "renaming" /\ pc' = "creating"
        BY <1>4, <1>t DEF NoOverwrite, RotateRename
    <2>2. (\A p \in Files' : Lined(disk'[p])) /\ OnDisk \subseteq OnDisk'
        BY <1>4, <1>t, <2>1, RenameKeepsRecords
    <2>3. /\ buf' = buf /\ recordsWritten' = recordsWritten /\ next' = next
          /\ safe' = safe /\ acked' = acked
        BY <1>4 DEF RotateRename, writerVars
    <2>4. Lined(buf') /\ BatchInv'
        BY <1>b, <1>t, <2>1, <2>3 DEF BatchInv
    <2>5. Kept'
        BY <1>t, <2>1, <2>2, <2>3 DEF Kept
    <2> QED
        BY <1>s, <2>2, <2>4, <2>5
<1>5. CASE RotateCreate
    <2>1. /\ disk' = [disk EXCEPT ![Live] = <<>>] /\ ~Exists(Live) /\ buf = <<>>
          /\ buf' = Line(Header) /\ recordsWritten' = 0
          /\ pc = "creating" /\ pc' = "appending" /\ safe' = safe /\ acked' = acked
        BY <1>5, <1>c, <1>t DEF RotateCreate, TimeInv
    <2>2. (\A p \in Files' : Lined(disk'[p])) /\ OnDisk \subseteq OnDisk'
        BY <1>t, <2>1, CreateKeepsRecords
    <2>3. Lined(buf')
        BY <1>h, <2>1
    <2>4. BatchInv'
        BY <1>x, <2>1
    <2>5. Kept'
        BY <1>e, <1>t, <2>1, <2>2 DEF Kept
    <2> QED
        BY <1>s, <2>2, <2>3, <2>4, <2>5
<1>6. CASE AppendRecord
    <2>1. /\ disk' = disk /\ Lined(buf') /\ RecordsIn(buf') = RecordsIn(buf) \cup {next}
          /\ Len(buf') <= 2 * recordsWritten' + 2
          /\ IsFiniteSet(RecordsIn(buf')) /\ Cardinality(RecordsIn(buf')) <= recordsWritten'
        BY <1>6, AppendFits
    <2>2. /\ pc = "appending" /\ pc' \in {"idle", "flushing"} /\ recordsWritten' = recordsWritten + 1
          /\ safe' = safe /\ acked' \subseteq acked \cup {next}
          /\ pc' = "flushing" => next' = next
        BY <1>6 DEF AppendRecord, Reject
    <2>3. pc' = "idle" => recordsWritten' < BatchSize
        <3>1. pc' = "idle" => ~BatchDue
            BY <1>6 DEF AppendRecord, FlushDue, FlushUnknown
        <3> QED
            BY <1>c, <2>2, <3>1 DEF BatchDue
    <2>4. (\A p \in Files' : Lined(disk'[p])) /\ OnDisk' = OnDisk
        BY <1>t, <2>1 DEF Files, OnDisk
    <2>5. BatchInv'
        BY <2>1, <2>2, <2>3 DEF BatchInv
    <2>6. Kept'
        BY <1>t, <2>1, <2>2, <2>4 DEF Kept
    <2> QED
        BY <1>s, <2>1, <2>4, <2>5, <2>6
<1>7. CASE Crash
    <2>1. disk' = disk /\ buf' = <<>> /\ pc' = "down" /\ safe' = safe /\ acked' = {}
        BY <1>7 DEF Crash, fileVars
    <2>2. (\A p \in Files' : Lined(disk'[p])) /\ OnDisk' = OnDisk /\ Lined(buf')
        BY <1>e, <1>t, <2>1 DEF Files, OnDisk
    <2>3. BatchInv'
        BY <2>1 DEF BatchInv
    <2>4. Kept'
        BY <1>t, <2>1, <2>2 DEF Kept
    <2> QED
        BY <1>s, <2>2, <2>3, <2>4
<1> QED
    BY <1>1, <1>2, <1>3, <1>4, <1>5, <1>6, <1>7 DEF Next, WriteStep

LEMMA KeptInvariant ==
    ASSUME WholeBatches
    PROVE  Spec => []KeptInv
<1>1. KeptInv /\ [Next]_vars => KeptInv'
    BY KeptStep
<1> QED
    BY <1>1, KeptInit, PTL DEF Spec

LEMMA KeptMeans ==
    ASSUME KeptInv
    PROVE  RecordsKept /\ CrashLosesLessThanBatch
<1>1. TInv /\ BatchInv /\ Kept /\ Lined(buf) /\ \A p \in Files : Lined(disk[p])
    BY DEF KeptInv, LinesInv
<1>2. RecordsKept
    <2>1. safe \subseteq OnDisk
        BY <1>1 DEF Kept
    <2>2. CASE pc = "down"
        BY <1>1, <2>1, <2>2 DEF Kept, RecordsKept
    <2>3. CASE pc # "down"
        <3>1. handle \in Files
            BY <1>1, <2>3 DEF TInv, TypeOK, HandleOpen, Files
        <3>2. RecordsIn(disk[handle] \o buf) = RecordsIn(disk[handle]) \cup RecordsIn(buf)
            BY <1>1, <3>1, LinedConcat
        <3>3. /\ \A p \in Files : RecordsIn(disk[p]) \subseteq RecordsIn(Content(p))
              /\ RecordsIn(buf) \subseteq RecordsIn(Content(handle))
            BY <3>2 DEF Content
        <3>4. OnDisk \cup RecordsIn(buf) \subseteq OnDiskOrInMemory
            BY <3>1, <3>3 DEF OnDisk, OnDiskOrInMemory
        <3> QED
            BY <1>1, <2>1, <2>3, <3>4 DEF Kept, RecordsKept
    <2> QED
        BY <2>2, <2>3
<1>3. ASSUME pc = "idle", BatchSize > 0 PROVE Cardinality(acked \ OnDisk) < BatchSize
    <2>1. acked \ OnDisk \subseteq RecordsIn(buf)
        BY <1>1, <1>3 DEF Kept
    <2>2. /\ IsFiniteSet(RecordsIn(buf)) /\ Cardinality(RecordsIn(buf)) <= recordsWritten
          /\ recordsWritten < BatchSize
        BY <1>1, <1>3 DEF BatchInv
    <2>3. /\ IsFiniteSet(acked \ OnDisk)
          /\ Cardinality(acked \ OnDisk) <= Cardinality(RecordsIn(buf))
        BY <2>1, <2>2, FS_Subset
    <2> DEFINE a == Cardinality(acked \ OnDisk)
               b == Cardinality(RecordsIn(buf))
    <2>4. a \in Nat /\ b \in Nat /\ recordsWritten \in Nat /\ BatchSize \in Nat
        BY <1>1, <2>2, <2>3, FS_CardinalityType, ConfigAssumption DEF TInv, TypeOK
    <2>5. a <= b /\ b <= recordsWritten
        BY <2>2, <2>3
    <2> HIDE DEF a, b
    <2>6. a < BatchSize
        BY <2>2, <2>4, <2>5
    <2> QED
        BY <2>6 DEF a
<1> QED
    BY <1>2, <1>3 DEF CrashLosesLessThanBatch

\* Whatever crashes and whichever rotation fails, with a buffer that holds a
\* batch: a record that a flush covered can be read from a file ever after, and
\* every accepted one is in a file or in the buffer.
THEOREM RecordsKeptAlways ==
    ASSUME WholeBatches
    PROVE  Spec => []RecordsKept
<1>1. KeptInv => RecordsKept
    BY KeptMeans
<1> QED
    BY <1>1, KeptInvariant, PTL

\* With the same buffer, fewer accepted records than a batch has are in memory
\* only, and so lost when the process dies.
THEOREM CrashLosesLessThanBatchAlways ==
    ASSUME WholeBatches
    PROVE  Spec => []CrashLosesLessThanBatch
<1>1. KeptInv => CrashLosesLessThanBatch
    BY KeptMeans
<1> QED
    BY <1>1, KeptInvariant, PTL
-----------------------------------------------------------------------------
(* As long as no process has ended without writing its buffer, no accepted   *)
(* record is lost either, however small the buffer is and whatever flush     *)
(* fails: a record is cut in two on the way to its file, and becomes whole.  *)

Readable ==
    /\ RecordsKept
    /\ pc = "flushing" => next \in OnDiskOrInMemory

ReadableUntilDeath == ~died => Readable

\* A record that can be read stays where it is when something is appended.
LEMMA PrefixKeepsRecords ==
    ASSUME NEW s \in Seq(Half), NEW t \in Seq(Half), IsPrefixOf(s, t)
    PROVE  RecordsIn(s) \subseteq RecordsIn(t)
<1>1. /\ Len(s) \in Nat /\ Len(t) \in Nat /\ Len(s) <= Len(t)
      /\ DOMAIN s = 1 .. Len(s) /\ DOMAIN t = 1 .. Len(t)
      /\ \A i \in 1 .. Len(s) : t[i] = s[i]
    BY LenProperties DEF IsPrefixOf
<1>2. ASSUME NEW i \in DOMAIN s, WholeAt(s, i)
      PROVE  i \in DOMAIN t /\ WholeAt(t, i) /\ t[i].of = s[i].of
    <2>1. i \in 1 .. Len(s) /\ i > 1
        BY <1>1, <1>2 DEF WholeAt
    <2>2. i - 1 \in 1 .. Len(s) /\ (i > 2 => i - 2 \in 1 .. Len(s)) /\ i \in 1 .. Len(t)
        BY <1>1, <2>1
    <2>3. t[i] = s[i] /\ t[i - 1] = s[i - 1] /\ (i > 2 => t[i - 2] = s[i - 2])
        BY <1>1, <2>1, <2>2
    <2> QED
        BY <1>1, <1>2, <2>2, <2>3 DEF WholeAt
<1> QED
    BY <1>2 DEF RecordsIn

\* What can be read from a file once can be read from one ever after.
LEMMA OnDiskGrows ==
    ASSUME AgeOnly, Append_ = TRUE, TInv, TInv', TimeInv, NoOverwrite, [Next]_vars
    PROVE  OnDisk \subseteq OnDisk'
<1> SUFFICES ASSUME NEW r \in OnDisk PROVE r \in OnDisk'
    OBVIOUS
<1>1. PICK p \in Files : r \in RecordsIn(disk[p])
    BY DEF OnDisk
<1>2. p \in Paths /\ Exists(p) /\ disk[p] \in Seq(Half)
    BY DEF Files, TInv, TypeOK
<1>3. PICK q \in Paths : Exists(q)' /\ IsPrefixOf(disk[p], disk[q]')
    BY <1>2, FilesSurviveStep
<1>4. q \in Files' /\ disk'[q] \in Seq(Half)
    BY <1>3 DEF Files, TInv, TypeOK
<1>5. r \in RecordsIn(disk'[q])
    BY <1>1, <1>2, <1>3, <1>4, PrefixKeepsRecords
<1> QED
    BY <1>4, <1>5 DEF OnDisk

LEMMA HeldMeans ==
    \A r : r \in OnDiskOrInMemory <=> \E p \in Files : r \in RecordsIn(Contents[p])
    BY DEF OnDiskOrInMemory, Contents

\* What is on disk is held, and all that is held when the buffer is empty.
DiskHeld ==
    /\ OnDisk \subseteq OnDiskOrInMemory
    /\ buf = <<>> => OnDisk = OnDiskOrInMemory

LEMMA DiskIsHeld == TInv => DiskHeld
<1> SUFFICES ASSUME TInv PROVE DiskHeld
    OBVIOUS
<1>1. ASSUME NEW p \in Files
      PROVE  RecordsIn(disk[p]) \subseteq RecordsIn(Content(p))
    <2>1. disk[p] \in Seq(Half) /\ buf \in Seq(Half)
        BY ContentsType DEF TInv, TypeOK
    <2>2. IsPrefixOf(disk[p], Content(p)) /\ Content(p) \in Seq(Half)
        BY <2>1, ConcatPrefix, PrefixReflexive DEF Content
    <2> QED
        BY <2>1, <2>2, PrefixKeepsRecords
<1>2. buf = <<>> => \A p \in Files : Content(p) = disk[p]
    BY ContentsType
<1> QED
    BY <1>1, <1>2 DEF DiskHeld, OnDisk, OnDiskOrInMemory

LEMMA DeathIsForGood == died /\ [Next]_vars => died'
    BY Zenon DEF Next, WriteStep, Open, StartWrite, RejectWrite, Reject, RotateFlush, FlushError,
       RotateRename, RenameError, RotateCreate, CreateError, AppendRecord, FlushBatch,
       Flush, Close, Crash, Tick, ClockBack, vars

\* The line of the record at hand is added to whole lines, and can be read.
LEMMA AppendIsReadable ==
    ASSUME LinesInv, ~died, AppendRecord
    PROVE  OnDiskOrInMemory \cup {next} \subseteq OnDiskOrInMemory'
<1>1. /\ DOMAIN Contents' = DOMAIN Contents /\ handle \in DOMAIN Contents
      /\ next \in Records
      /\ \A p \in DOMAIN Contents : p # handle => Contents'[p] = Contents[p]
      /\ Contents'[handle] = Contents[handle] \o Line(next)
    BY AppendAddsLine DEF LinesInv
<1>2. /\ DOMAIN Contents = Files /\ DOMAIN Contents' = Files'
      /\ WholeFile(Contents[handle]) /\ Contents[handle] \in Seq(Half)
    BY <1>1 DEF LinesInv, LinesOK, HalvesIn, Contents
<1>3. Lined(Contents[handle])
    BY <1>2 DEF WholeFile, Lined
<1>4. Lined(Line(next)) /\ RecordsIn(Line(next)) = {next}
    <2>1. next \in {Header} \cup Records /\ {next} \ {Header} = {next}
        BY <1>1 DEF Records, Header
    <2> QED
        BY <2>1, LinedLine
<1>5. RecordsIn(Contents'[handle]) = RecordsIn(Contents[handle]) \cup {next}
    BY <1>1, <1>3, <1>4, LinedConcat
<1>6. \A p \in Files : RecordsIn(Contents[p]) \subseteq RecordsIn(Contents'[p])
    BY <1>1, <1>2, <1>5
<1>7. \A r : r \in OnDiskOrInMemory' <=> \E p \in Files' : r \in RecordsIn(Contents'[p])
    BY DEF OnDiskOrInMemory, Contents
<1> QED
    BY <1>1, <1>2, <1>5, <1>6, <1>7, HeldMeans

LEMMA ReadableStep ==
    ASSUME AgeOnly, Append_ = TRUE, LinesInv, TimeInv, ReadableUntilDeath, [Next]_vars
    PROVE  ReadableUntilDeath'
<1> SUFFICES ASSUME ~died' PROVE Readable'
    BY DEF ReadableUntilDeath
<1>t. TInv /\ TInv' /\ NoOverwrite
    <2>1. TInv
        BY DEF LinesInv
    <2>2. TInv'
        BY <2>1, TypeStep
    <2>3. NoOverwrite
        BY <2>1 DEF TInv, TypeOK, TimeInv, RotatedBy, NoOverwrite
    <2> QED
        BY <2>1, <2>2, <2>3
<1>d. ~died
    BY DeathIsForGood
<1>r. /\ safe \subseteq OnDisk /\ acked \subseteq OnDiskOrInMemory
      /\ pc = "flushing" => next \in OnDiskOrInMemory
    BY <1>d DEF ReadableUntilDeath, Readable, RecordsKept
<1>g. /\ OnDisk \subseteq OnDisk' /\ OnDisk' \subseteq OnDiskOrInMemory'
      /\ buf' = <<>> => OnDisk' = OnDiskOrInMemory'
    <2>1. DiskHeld'
        BY <1>t, DiskIsHeld, PTL
    <2> QED
        BY <1>t, <2>1, OnDiskGrows DEF DiskHeld
<1>k. ASSUME OnDiskOrInMemory \subseteq OnDiskOrInMemory', pc' # "flushing",
             safe' = safe, acked' \subseteq acked
      PROVE  Readable'
    BY <1>g, <1>k, <1>r DEF Readable, RecordsKept
\* Steps with an empty buffer: what is held is on disk.
<1>1. CASE Open \/ RotateRename \/ RotateCreate
    <2>1. /\ pc \in {"down", "renaming", "creating"} /\ pc' # "flushing"
          /\ safe' = safe /\ acked' = acked
        BY <1>1 DEF Open, RotateRename, RotateCreate
    <2>2. OnDisk = OnDiskOrInMemory
        BY <1>t, <2>1, DiskIsHeld DEF DiskHeld, LinesInv
    <2> QED
        BY <1>g, <1>k, <2>1, <2>2
<1>2. CASE StartWrite \/ RejectWrite \/ RenameError \/ CreateError \/ Tick \/ ClockBack \/ UNCHANGED vars
    <2>1. /\ disk' = disk /\ buf' = buf /\ handle' = handle
          /\ safe' = safe /\ acked' = acked
        BY <1>2 DEF StartWrite, RejectWrite, RenameError, CreateError, Tick, ClockBack, Reject,
                    vars, fileVars, writerVars
    <2>2. pc' # "flushing" \/ (pc' = pc /\ next' = next)
        BY <1>2 DEF StartWrite, RejectWrite, RenameError, CreateError, Tick, ClockBack, Reject, vars
    <2>3. OnDiskOrInMemory' = OnDiskOrInMemory
        BY <2>1 DEF OnDiskOrInMemory, Files, Content
    <2> QED
        BY <1>g, <1>r, <2>1, <2>2, <2>3 DEF Readable, RecordsKept
\* A flush, complete or not, leaves the files as they will be.
<1>f. ASSUME Contents' = Contents PROVE OnDiskOrInMemory' = OnDiskOrInMemory
    <2>1. DOMAIN Contents = Files /\ DOMAIN Contents' = Files'
        BY DEF Contents
    <2>2. \A r : r \in OnDiskOrInMemory' <=> \E p \in Files' : r \in RecordsIn(Contents'[p])
        BY DEF OnDiskOrInMemory, Contents
    <2> QED
        BY <1>f, <2>1, <2>2, HeldMeans
<1>3. CASE RotateFlush \/ FlushError \/ FlushBatch \/ Flush \/ Close
    <2>1. /\ pc \in {"idle", "rotating", "flushing"} /\ handle' = handle
          /\ pc' \in {"idle", "renaming", "down"}
        BY <1>3 DEF RotateFlush, FlushError, FlushBatch, Flush, Close, Reject
    <2>2. \/ /\ disk' = [disk EXCEPT ![handle] = @ \o buf] /\ buf' = <<>>
             /\ safe' \subseteq safe \cup acked \cup (IF pc = "flushing" THEN {next} ELSE {})
             /\ acked' \subseteq acked \cup (IF pc = "flushing" THEN {next} ELSE {})
          \/ FlushFails /\ safe' = safe /\ acked' = acked
        <3>1. Close => died' \/ (/\ disk' = [disk EXCEPT ![handle] = @ \o buf]
                                 /\ safe' = safe \cup acked)
            BY Zenon DEF Close
        <3>2. CASE Close
            BY <3>1, <3>2 DEF Close
        <3>3. CASE ~Close
            BY <1>3, <3>3 DEF RotateFlush, FlushError, FlushBatch, Flush, FlushOk, Reject
        <3> QED
            BY <3>2, <3>3
    <2>3. Contents' = Contents
        BY <1>t, <2>1, <2>2, FlushKeepsContents
    <2>4. CASE buf' = <<>> /\ ~(FlushFails /\ safe' = safe /\ acked' = acked)
        BY <1>f, <1>g, <1>r, <2>1, <2>2, <2>3, <2>4 DEF Readable, RecordsKept
    <2>5. CASE safe' = safe /\ acked' = acked
        BY <1>f, <1>k, <2>1, <2>3, <2>5
    <2> QED
        BY <2>2, <2>4, <2>5
<1>4. CASE AppendRecord
    <2>1. OnDiskOrInMemory \cup {next} \subseteq OnDiskOrInMemory'
        BY <1>4, <1>d, AppendIsReadable
    <2>2. /\ safe' = safe /\ acked' \subseteq acked \cup {next}
          /\ pc' = "flushing" => next' = next
        BY <1>4 DEF AppendRecord, Reject
    <2> QED
        BY <1>g, <1>r, <2>1, <2>2 DEF Readable, RecordsKept
<1>5. CASE Crash
    <2>1. died' = TRUE
        BY <1>5 DEF Crash
    <2> QED
        BY <2>1
<1> QED
    BY <1>1, <1>2, <1>3, <1>4, <1>5 DEF Next, WriteStep

\* For any buffer and any batch, while flushes, renames and creates fail at any
\* time: as long as no process has ended without writing its buffer, every
\* record that a flush covered can be read from a file, and every accepted one
\* from a file once the buffer is written.
THEOREM RecordsKeptUntilDeath ==
    ASSUME AgeOnly, Append_ = TRUE
    PROVE  Spec => [](~died => RecordsKept)
<1>1. Init => ReadableUntilDeath
    BY DEF Init, ReadableUntilDeath, Readable, RecordsKept
<1>2. LinesInv /\ TimeInv /\ ReadableUntilDeath /\ [Next]_vars => ReadableUntilDeath'
    BY ReadableStep
<1>3. ReadableUntilDeath => (~died => RecordsKept)
    BY DEF ReadableUntilDeath, Readable
<1> QED
    BY <1>1, <1>2, <1>3, LinesInvariant, TimeInvariant, PTL DEF Spec

-----------------------------------------------------------------------------
(* Where lines end, and the places of the writer. *)

LEMMA EndsType ==
    ASSUME NEW s \in Seq(Half), NEW n \in Nat, NEW i \in Ends(s, n)
    PROVE  i \in 1 .. Len(s) /\ i \in Nat /\ i > n /\ s[i].of \in Records
<1>1. i \in DOMAIN s /\ i > n /\ s[i].of # Header
    BY DEF Ends
<1>2. i \in 1 .. Len(s) /\ Len(s) \in Nat
    BY <1>1, LenProperties
<1>3. s[i] \in Half
    BY <1>2, ElementOfSeq
<1> QED
    BY <1>1, <1>2, <1>3, HalfOf

\* Whether a line ends at i only depends on what comes before.
LEMMA EndsOfPrefix ==
    ASSUME NEW a \in Seq(Half), NEW c \in Seq(Half), IsPrefixOf(a, c), NEW n \in Nat
    PROVE  \A i : i \in Ends(a, n) <=> i \in Ends(c, n) /\ i <= Len(a)
<1>1. /\ Len(a) \in Nat /\ Len(c) \in Nat /\ Len(a) <= Len(c)
      /\ DOMAIN a = 1 .. Len(a) /\ DOMAIN c = 1 .. Len(c)
      /\ \A i \in 1 .. Len(a) : c[i] = a[i]
    BY LenProperties DEF IsPrefixOf
<1>2. ASSUME NEW i \in 1 .. Len(a) PROVE WholeAt(a, i) <=> WholeAt(c, i)
    <2>1. c[i] = a[i] /\ (i > 1 => c[i - 1] = a[i - 1]) /\ (i > 2 => c[i - 2] = a[i - 2])
        BY <1>1
    <2> QED
        BY <2>1 DEF WholeAt
<1>3. \A i : i \in 1 .. Len(a) <=> i \in 1 .. Len(c) /\ i <= Len(a)
    BY <1>1
<1> QED
    BY <1>1, <1>2, <1>3 DEF Ends

\* A line ends where the next one is added, unless the one before has no end.
LEMMA EndsOfLine ==
    ASSUME NEW s \in Seq(Half), NEW r \in Records, NEW n \in 0 .. Len(s)
    PROVE  /\ s \o Line(r) \in Seq(Half) /\ Len(s \o Line(r)) = Len(s) + 2
           /\ (s \o Line(r))[Len(s) + 2].of = r
           /\ \/ Ends(s \o Line(r), n) = Ends(s, n)
              \/ Ends(s \o Line(r), n) = Ends(s, n) \cup {Len(s) + 2}
           /\ \A i \in Ends(s, n) : (s \o Line(r))[i].of = s[i].of
<1> DEFINE c == s \o Line(r)
           l == Len(s)
<1>1. Line(r) \in Seq(Half) /\ Len(Line(r)) = 2 /\ l \in Nat
      /\ Line(r)[1] = [of |-> r, half |-> 1] /\ Line(r)[2] = [of |-> r, half |-> 2]
    BY LineHalves, LenProperties
<1>2. c \in Seq(Half) /\ IsPrefixOf(s, c)
    BY <1>1, ConcatPrefix
<1>3. Len(c) = l + 2 /\ \A i \in 1 .. l + 2 : c[i] = IF i <= l THEN s[i] ELSE Line(r)[i - l]
    <2> DEFINE t == Line(r)
    <2>1. t \in Seq(Half) /\ Len(t) = 2
        BY <1>1
    <2> HIDE DEF t
    <2>2. /\ Len(s \o t) = Len(s) + Len(t)
          /\ \A i \in 1 .. Len(s) + Len(t) : (s \o t)[i] = IF i <= Len(s) THEN s[i] ELSE t[i - Len(s)]
        BY <2>1, ConcatProperties
    <2> QED
        BY <2>1, <2>2 DEF t
<1> HIDE DEF c, l
<1>4. c[l + 1] = [of |-> r, half |-> 1] /\ c[l + 2] = [of |-> r, half |-> 2]
    <2>1. l + 1 \in 1 .. l + 2 /\ l + 2 \in 1 .. l + 2 /\ (l + 1) - l = 1 /\ (l + 2) - l = 2
          /\ ~(l + 1 <= l) /\ ~(l + 2 <= l)
        BY <1>1
    <2> QED
        BY <1>1, <1>3, <2>1
<1>5. \A i : i \in Ends(s, n) <=> i \in Ends(c, n) /\ i <= l
    BY <1>2, EndsOfPrefix DEF l
<1>6. ASSUME NEW i \in Ends(c, n), i > l PROVE i = l + 2
    <2>1. i \in 1 .. l + 2 /\ WholeAt(c, i)
        BY <1>2, <1>3, LenProperties DEF Ends
    <2>2. i # l + 1
        BY <1>4, <2>1 DEF WholeAt
    <2> QED
        BY <1>1, <1>6, <2>1, <2>2
<1>7. \A i \in Ends(c, n) : i \in Nat
    BY <1>2, EndsType
<1>8. Ends(c, n) = Ends(s, n) \/ Ends(c, n) = Ends(s, n) \cup {l + 2}
    <2>1. \A i \in Ends(c, n) : i \in Ends(s, n) \/ i = l + 2
        BY <1>1, <1>5, <1>6, <1>7
    <2>2. Ends(s, n) \subseteq Ends(c, n)
        BY <1>5
    <2> QED
        BY <2>1, <2>2
<1>9. \A i \in Ends(s, n) : c[i].of = s[i].of
    <2>1. n \in Nat
        BY <1>1 DEF l
    <2>2. \A i \in Ends(s, n) : i \in 1 .. Len(s)
        BY <2>1, EndsType
    <2> QED
        BY <1>2, <2>2 DEF IsPrefixOf
<1>10. c[l + 2].of = r
    BY <1>4
<1>11. c \in Seq(Half) /\ Len(c) = l + 2
    BY <1>2, <1>3
<1> QED
    BY <1>8, <1>9, <1>10, <1>11 DEF c, l

Recorded == [x \in OnDiskAt \cup InMemoryAt |-> RecordAt(x)]

\* What the abstract log is made of.
LogMeans ==
    /\ OnDiskAt \subseteq Place /\ InMemoryAt \subseteq Place
    /\ \A p, i : <<p, i>> \in OnDiskAt <=> p \in Files /\ i \in Ends(disk[p], 0)
    /\ \A p, i : <<p, i>> \in InMemoryAt <=>
          p = handle /\ handle \in Files /\ i \in Ends(Content(handle), Len(disk[handle]))
    /\ \A x \in OnDiskAt : Recorded[x] = disk[x[1]][x[2]].of
    /\ \A x \in InMemoryAt : Recorded[x] = Content(handle)[x[2]].of
    /\ \A x \in OnDiskAt \cup InMemoryAt : Recorded[x] \in Records
    /\ \A d : Enumerates(d, OnDiskAt) => durable = At(Recorded, d)
    /\ \A m : Enumerates(m, InMemoryAt) => volatile = At(Recorded, m)

LEMMA LogMeaning == TInv => LogMeans
<1> SUFFICES ASSUME TInv PROVE LogMeans
    OBVIOUS
<1>1. /\ Files \subseteq Paths
      /\ \A p \in Files : disk[p] \in Seq(Half) /\ Content(p) \in Seq(Half)
    BY ContentsType
<1>2. \A p \in Files : IsPrefixOf(disk[p], Content(p)) /\ Len(disk[p]) \in Nat
    <2> TAKE p \in Files
    <2>1. disk[p] \in Seq(Half) /\ buf \in Seq(Half)
        BY <1>1 DEF TInv, TypeOK
    <2>2. IsPrefixOf(disk[p], disk[p] \o buf) /\ IsPrefixOf(disk[p], disk[p])
        BY <2>1, ConcatPrefix, PrefixReflexive
    <2> QED
        BY <2>1, <2>2, LenProperties DEF Content
<1>3. \A p, i : <<p, i>> \in OnDiskAt <=> p \in Files /\ i \in Ends(disk[p], 0)
    BY DEF OnDiskAt
<1>4. handle \in Files <=> Exists(handle)
    BY DEF TInv, TypeOK, Files
<1>5. \A p, i : <<p, i>> \in InMemoryAt <=>
          p = handle /\ handle \in Files /\ i \in Ends(Content(handle), Len(disk[handle]))
    BY <1>4 DEF InMemoryAt
<1>6. \A x \in OnDiskAt : x = <<x[1], x[2]>>
    BY DEF OnDiskAt
<1>7. \A x \in InMemoryAt : x = <<x[1], x[2]>>
    BY DEF InMemoryAt
<1>8. ASSUME NEW x \in OnDiskAt
      PROVE  x \in Place /\ Recorded[x] = disk[x[1]][x[2]].of /\ Recorded[x] \in Records
    <2>1. x[1] \in Files /\ x[2] \in Ends(disk[x[1]], 0)
        BY <1>3, <1>6
    <2>2. disk[x[1]] \in Seq(Half)
        BY <1>1, <2>1
    <2>3. x[2] \in 1 .. Len(disk[x[1]]) /\ x[2] \in Nat /\ disk[x[1]][x[2]].of \in Records
        BY <2>1, <2>2, EndsType
    <2>4. Content(x[1])[x[2]] = disk[x[1]][x[2]]
        BY <1>2, <2>1, <2>3 DEF IsPrefixOf
    <2>5. Recorded[x] = Content(x[1])[x[2]].of
        BY DEF Recorded, RecordAt
    <2>6. x \in Place
        BY <1>1, <1>6, <2>1, <2>3 DEF Place
    <2> QED
        BY <2>3, <2>4, <2>5, <2>6
<1>9. ASSUME NEW x \in InMemoryAt
      PROVE  x \in Place /\ Recorded[x] = Content(handle)[x[2]].of /\ Recorded[x] \in Records
    <2>1. x[1] = handle /\ handle \in Files /\ x[2] \in Ends(Content(handle), Len(disk[handle]))
        BY <1>5, <1>7
    <2>2. Content(handle) \in Seq(Half) /\ Len(disk[handle]) \in Nat
        BY <1>1, <1>2, <2>1
    <2>3. x[2] \in Nat /\ Content(handle)[x[2]].of \in Records
        BY <2>1, <2>2, EndsType
    <2>5. Recorded[x] = Content(handle)[x[2]].of
        BY <2>1 DEF Recorded, RecordAt
    <2>6. x \in Place
        BY <1>1, <1>7, <2>1, <2>3 DEF Place
    <2> QED
        BY <2>3, <2>5, <2>6
<1>10. OnDiskAt \subseteq Place /\ InMemoryAt \subseteq Place
    BY <1>8, <1>9
<1>11. ASSUME NEW P \in SUBSET (OnDiskAt \cup InMemoryAt), NEW d, Enumerates(d, P)
       PROVE  RecordsAt(InOrder(P)) = At(Recorded, d)
    <2>1. P \in SUBSET Place
        BY <1>10
    <2>2. InOrder(P) = d
        BY <1>11, <2>1, InOrderIs
    <2>3. DOMAIN d = 1 .. Len(d) /\ \A k \in 1 .. Len(d) : d[k] \in P
        BY <1>11, EnumerationType
    <2>4. \A k \in DOMAIN d : Recorded[d[k]] = RecordAt(d[k])
        BY <2>3 DEF Recorded
    <2> QED
        BY <2>2, <2>4 DEF RecordsAt, At
<1>12. /\ \A d : Enumerates(d, OnDiskAt) => durable = At(Recorded, d)
       /\ \A m : Enumerates(m, InMemoryAt) => volatile = At(Recorded, m)
    BY <1>11 DEF durable, volatile
<1> QED
    BY <1>3, <1>5, <1>8, <1>9, <1>10, <1>12 DEF LogMeans

LEMMA PlaceIsPair == \A x \in Place : x = <<x[1], x[2]>> /\ x[1] \in Paths /\ x[2] \in Nat
    BY DEF Place

LEMMA SamePlaces ==
    ASSUME NEW P \in SUBSET Place, NEW Q \in SUBSET Place,
           \A p, i : <<p, i>> \in P <=> <<p, i>> \in Q
    PROVE  P = Q
<1>1. \A x \in Place : x \in P <=> x \in Q
    BY PlaceIsPair
<1> QED
    BY <1>1

\* The file being written is the last one.
LastFile == pc # "down" => \A p \in Files : p = handle \/ Age(p) < Age(handle)

Enumerable ==
    /\ \E d : Enumerates(d, OnDiskAt)
    /\ \E m : Enumerates(m, InMemoryAt)

\* The writer appends to its file, which holds the first part of c then; what
\* was on disk and in memory was the first part of c before.
LEMMA WriteSplits ==
    ASSUME TInv, TInv', LastFile, pc # "down", handle' = handle, Files' = Files,
           NEW c \in Seq(Half),
           IsPrefixOf(disk[handle], disk'[handle]), IsPrefixOf(disk'[handle], c),
           \A p \in Files : p # handle => disk'[p] = disk[p],
           NEW s, Enumerates(s, {handle} \X Ends(c, Len(disk[handle]))),
           Enumerable,
           NEW t, t = [i \in DOMAIN s |-> c[s[i][2]].of]
    PROVE  \E k \in 0 .. Len(s) :
              /\ durable' = durable \o SubSeq(t, 1, k)
              /\ \E d : Enumerates(d, OnDiskAt')
              /\ Content(handle)' = c =>
                    /\ volatile' = SubSeq(t, k + 1, Len(s))
                    /\ \E m : Enumerates(m, InMemoryAt')
              /\ Content(handle)' = disk'[handle] =>
                    /\ volatile' = <<>>
                    /\ \E m : Enumerates(m, InMemoryAt')
<1> DEFINE h == handle
           a == disk[h]
           b == disk'[h]
           N == {h} \X Ends(c, Len(a))
           M == {h} \X Ends(c, Len(b))
           R == [x \in OnDiskAt \cup N |-> IF x[1] = h THEN c[x[2]].of ELSE disk[x[1]][x[2]].of]
<1>m. LogMeans
    BY LogMeaning
<1>p. LogMeans'
    BY LogMeaning, PTL
<1>h. h \in Files /\ h \in Paths /\ Files \subseteq Paths /\ handle' = h /\ Files' = Files
    BY DEF TInv, TypeOK, HandleOpen, Files
<1>1. /\ a \in Seq(Half) /\ b \in Seq(Half) /\ c \in Seq(Half)
      /\ Len(a) \in Nat /\ Len(b) \in Nat /\ Len(c) \in Nat
      /\ Len(a) <= Len(b) /\ Len(b) <= Len(c)
      /\ IsPrefixOf(a, b) /\ IsPrefixOf(b, c)
      /\ \A i \in 1 .. Len(b) : c[i] = b[i]
      /\ \A i \in 1 .. Len(a) : c[i] = a[i]
    <2>1. a \in Seq(Half) /\ b \in Seq(Half)
        <3>1. \A p \in Files : disk[p] \in Seq(Half)
            BY ContentsType
        <3>2. \A p \in Files' : disk'[p] \in Seq(Half)
            BY DEF TInv, TypeOK, Files, Exists
        <3> QED
            BY <1>h, <3>1, <3>2
    <2>2. Len(a) \in Nat /\ Len(b) \in Nat /\ Len(c) \in Nat
        BY <2>1, LenProperties
    <2> HIDE DEF a, b
    <2>3. IsPrefixOf(a, b) /\ IsPrefixOf(b, c)
        BY DEF a, b, h
    <2>4. Len(a) <= Len(b) /\ Len(b) <= Len(c) /\ \A i \in 1 .. Len(b) : c[i] = b[i]
        BY <2>3 DEF IsPrefixOf
    <2>5. \A i \in 1 .. Len(a) : i \in 1 .. Len(b) /\ b[i] = a[i]
        BY <2>2, <2>3, <2>4 DEF IsPrefixOf
    <2> QED
        BY <2>1, <2>2, <2>3, <2>4, <2>5
<1>d. /\ OnDiskAt \subseteq Place
      /\ \A p, i : <<p, i>> \in OnDiskAt <=> p \in Files /\ i \in Ends(disk[p], 0)
    BY <1>m DEF LogMeans
<1>e. /\ OnDiskAt' \subseteq Place
      /\ \A p, i : <<p, i>> \in OnDiskAt' <=> p \in Files /\ i \in Ends(disk'[p], 0)
    BY <1>p, <1>h DEF LogMeans
<1>o. \A p \in Files : p # h => disk'[p] = disk[p]
    BY <1>h
<1>n. /\ \A p, i : <<p, i>> \in N <=> p = h /\ i \in Ends(c, Len(a))
      /\ \A p, i : <<p, i>> \in M <=> p = h /\ i \in Ends(c, Len(b))
    OBVIOUS
<1> HIDE DEF a, b
\* Lines that end after n.
<1>2. /\ \A i \in Ends(c, 0) : i \in Nat /\ i \in 1 .. Len(c) /\ c[i].of \in Records
      /\ \A i : i \in Ends(c, Len(a)) <=> i \in Ends(c, 0) /\ i > Len(a)
      /\ \A i : i \in Ends(c, Len(b)) <=> i \in Ends(c, 0) /\ i > Len(b)
    <2>1. \A i \in Ends(c, 0) : i \in Nat /\ i \in 1 .. Len(c) /\ c[i].of \in Records
        BY EndsType
    <2>2. \A i \in DOMAIN c : i \in Nat /\ i > 0
        BY LenProperties
    <2>3. ASSUME NEW n \in Nat
          PROVE  \A i : i \in Ends(c, n) <=> i \in Ends(c, 0) /\ i > n
        BY <2>2 DEF Ends
    <2> QED
        BY <1>1, <2>1, <2>3
<1>3. /\ \A i : i \in Ends(a, 0) <=> i \in Ends(c, 0) /\ i <= Len(a)
      /\ \A i : i \in Ends(b, 0) <=> i \in Ends(c, 0) /\ i <= Len(b)
    <2>1. IsPrefixOf(a, c)
        BY <1>1 DEF IsPrefixOf
    <2> QED
        BY <1>1, <2>1, EndsOfPrefix
<1>4. N \in SUBSET Place /\ M \in SUBSET N
    <2>1. \A i \in Ends(c, Len(a)) : i \in Nat
        BY <1>2
    <2>2. \A i \in Ends(c, Len(b)) : i \in Ends(c, Len(a))
        BY <1>1, <1>2
    <2> QED
        BY <1>h, <2>1, <2>2 DEF Place
<1> HIDE DEF N, M, R, h
<1>5. OnDiskAt' = OnDiskAt \cup (N \ M)
    <2>1. ASSUME NEW p, NEW i
          PROVE  <<p, i>> \in OnDiskAt' <=> <<p, i>> \in OnDiskAt \/ (<<p, i>> \in N /\ <<p, i>> \notin M)
        <3>1. CASE p = h
            <4>1. <<p, i>> \in OnDiskAt' <=> i \in Ends(c, 0) /\ i <= Len(b)
                BY <1>e, <1>h, <1>3, <3>1 DEF b
            <4>2. <<p, i>> \in OnDiskAt <=> i \in Ends(c, 0) /\ i <= Len(a)
                BY <1>d, <1>h, <1>3, <3>1 DEF a
            <4>3. <<p, i>> \in N /\ <<p, i>> \notin M <=> i \in Ends(c, 0) /\ i > Len(a) /\ ~(i > Len(b))
                BY <1>n, <1>2, <3>1
            <4>4. i \in Ends(c, 0) => i \in Nat
                BY <1>2
            <4> QED
                BY <1>1, <4>1, <4>2, <4>3, <4>4
        <3>2. CASE p # h
            BY <1>d, <1>e, <1>n, <1>o, <3>2
        <3> QED
            BY <3>1, <3>2
    <2>2. OnDiskAt \cup (N \ M) \in SUBSET Place /\ OnDiskAt' \in SUBSET Place
        BY <1>d, <1>e, <1>4
    <2> DEFINE Q == OnDiskAt \cup (N \ M)
    <2>3. \A p, i : <<p, i>> \in OnDiskAt' <=> <<p, i>> \in Q
        BY <2>1
    <2>5. Q \in SUBSET Place
        BY <2>2
    <2> HIDE DEF Q
    <2>4. OnDiskAt' = Q
        BY <2>2, <2>3, <2>5, SamePlaces
    <2> QED
        BY <2>4 DEF Q
<1>6. \A x \in OnDiskAt, y \in N : Before(x, y)
    <2> TAKE x \in OnDiskAt, y \in N
    <2>1. x \in Place /\ y \in Place /\ x = <<x[1], x[2]>> /\ y = <<y[1], y[2]>>
        BY <1>d, <1>4, PlaceIsPair
    <2>2. x[1] \in Files /\ x[2] \in Ends(disk[x[1]], 0) /\ y[1] = h /\ y[2] \in Ends(c, Len(a))
        BY <1>d, <1>n, <2>1
    <2>3. CASE x[1] = h
        <3>1. x[2] \in Ends(c, 0) /\ x[2] <= Len(a) /\ x[2] \in Nat
            BY <1>2, <1>3, <2>2, <2>3 DEF a
        <3>2. y[2] > Len(a) /\ y[2] \in Nat
            BY <1>2, <2>2
        <3>3. x[2] < y[2]
            BY <1>1, <3>1, <3>2
        <3> QED
            BY <2>2, <2>3, <3>3 DEF Before
    <2>4. CASE x[1] # h
        BY <2>2, <2>4 DEF LastFile, Before, h
    <2> QED
        BY <2>3, <2>4
<1>7. \A x \in N \ M, y \in M : Before(x, y)
    <2> TAKE x \in N \ M, y \in M
    <2>1. x \in Place /\ y \in Place /\ x = <<x[1], x[2]>> /\ y = <<y[1], y[2]>>
        BY <1>4, PlaceIsPair
    <2>2. x[1] = h /\ x[2] \in Ends(c, 0) /\ ~(x[2] > Len(b))
        BY <1>n, <1>2, <2>1
    <2>3. y[1] = h /\ y[2] \in Ends(c, 0) /\ y[2] > Len(b)
        BY <1>n, <1>2, <2>1
    <2>4. x[2] \in Nat /\ y[2] \in Nat
        BY <1>2, <2>2, <2>3
    <2>5. x[2] < y[2]
        BY <1>1, <2>2, <2>3, <2>4
    <2> QED
        BY <2>2, <2>3, <2>5 DEF Before
<1>8. ASSUME NEW x \in OnDiskAt
      PROVE  R[x] = Recorded[x] /\ R[x] \in Records
    <2>1. x = <<x[1], x[2]>> /\ x[1] \in Files /\ x[2] \in Ends(disk[x[1]], 0)
        BY <1>d, PlaceIsPair
    <2>2. Recorded[x] = disk[x[1]][x[2]].of /\ Recorded[x] \in Records
        BY <1>m DEF LogMeans
    <2>3. R[x] = IF x[1] = h THEN c[x[2]].of ELSE disk[x[1]][x[2]].of
        BY DEF R
    <2>4. CASE x[1] = h
        <3>1. x[2] \in Ends(c, 0) /\ x[2] <= Len(a)
            BY <1>3, <2>1, <2>4 DEF a
        <3>2. x[2] \in 1 .. Len(a)
            BY <1>1, <1>2, <3>1
        <3>3. c[x[2]] = disk[x[1]][x[2]]
            BY <1>1, <2>4, <3>2 DEF a
        <3> QED
            BY <2>2, <2>3, <2>4, <3>3
    <2> QED
        BY <2>2, <2>3, <2>4
<1>9. ASSUME NEW x \in N
      PROVE  R[x] = c[x[2]].of /\ R[x] \in Records
    <2>1. x = <<x[1], x[2]>> /\ x[1] = h /\ x[2] \in Ends(c, 0)
        BY <1>n, <1>2, <1>4, PlaceIsPair
    <2>2. R[x] = c[x[2]].of
        BY <2>1 DEF R
    <2> QED
        BY <1>2, <2>1, <2>2
<1>10. \A x \in OnDiskAt \cup N : R[x] \in Records
    BY <1>8, <1>9
<1>11. Enumerates(s, N)
    BY DEF N, h, a
<1>12. PICK d : Enumerates(d, OnDiskAt)
    BY DEF Enumerable
<1>13. PICK k \in 0 .. Len(s) : \E d1, m1 :
              /\ Enumerates(d1, OnDiskAt \cup (N \ M)) /\ At(R, d1) = At(R, d) \o SubSeq(At(R, s), 1, k)
              /\ Enumerates(m1, M) /\ At(R, m1) = SubSeq(At(R, s), k + 1, Len(s))
    <2> DEFINE D == OnDiskAt
    <2>1. D \in SUBSET Place /\ Enumerates(d, D) /\ (\A x \in D, y \in N : Before(x, y))
          /\ (\A x \in D \cup N : R[x] \in Records)
        BY <1>d, <1>6, <1>10, <1>12
    <2> HIDE DEF D
    <2>3. N \in SUBSET Place /\ M \in SUBSET N /\ Enumerates(s, N)
          /\ (\A x \in N \ M, y \in M : Before(x, y))
        BY <1>4, <1>7, <1>11
    <2>2. Splits(D, N, M, d, s, R)
        BY <2>1, <2>3, LogSplits
    <2> QED
        BY <2>2 DEF D, Splits
<1>14. PICK d1, m1 :
              /\ Enumerates(d1, OnDiskAt') /\ At(R, d1) = At(R, d) \o SubSeq(At(R, s), 1, k)
              /\ Enumerates(m1, M) /\ At(R, m1) = SubSeq(At(R, s), k + 1, Len(s))
    BY <1>5, <1>13
<1>15. At(R, s) = t
    <2>1. DOMAIN s = 1 .. Len(s) /\ \A i \in 1 .. Len(s) : s[i] \in N
        BY <1>11, EnumerationType
    <2>2. \A i \in DOMAIN s : R[s[i]] = c[s[i][2]].of
        BY <1>9, <2>1
    <2> QED
        BY <2>2 DEF At
<1>16. At(R, d) = durable
    <2>1. \A i \in DOMAIN d : d[i] \in OnDiskAt
        BY <1>12, EnumerationType
    <2>2. At(R, d) = At(Recorded, d)
        BY <1>8, <2>1 DEF At
    <2> QED
        BY <1>m, <1>12, <2>2 DEF LogMeans
<1>17. At(R, d1) = durable'
    <2>1. ASSUME NEW x \in OnDiskAt' PROVE R[x] = Recorded'[x]
        <3>1. x = <<x[1], x[2]>> /\ x[1] \in Files /\ x[2] \in Ends(disk'[x[1]], 0)
            BY <1>e, PlaceIsPair
        <3>2. Recorded'[x] = disk'[x[1]][x[2]].of
            BY <1>p DEF LogMeans
        <3>3. CASE x \in N
            <4>1. R[x] = c[x[2]].of /\ x[1] = h
                BY <1>9, <1>n, <3>1, <3>3
            <4>2. x[2] \in Ends(c, 0) /\ x[2] <= Len(b)
                BY <1>3, <3>1, <4>1 DEF b
            <4>3. x[2] \in 1 .. Len(b)
                BY <1>1, <1>2, <4>2
            <4>4. c[x[2]] = disk'[x[1]][x[2]]
                BY <1>1, <4>1, <4>3 DEF b
            <4> QED
                BY <3>2, <4>1, <4>4
        <3>4. CASE x \in OnDiskAt
            <4>1. R[x] = IF x[1] = h THEN c[x[2]].of ELSE disk[x[1]][x[2]].of
                BY <3>4 DEF R
            <4>2. CASE x[1] = h
                <5>1. x[2] \in Ends(c, 0) /\ x[2] <= Len(b)
                    BY <1>3, <3>1, <4>2 DEF b
                <5>2. x[2] \in 1 .. Len(b)
                    BY <1>1, <1>2, <5>1
                <5>3. c[x[2]] = disk'[x[1]][x[2]]
                    BY <1>1, <4>2, <5>2 DEF b
                <5> QED
                    BY <3>2, <4>1, <4>2, <5>3
            <4>3. CASE x[1] # h
                BY <1>o, <3>1, <3>2, <4>1, <4>3
            <4> QED
                BY <4>2, <4>3
        <3> QED
            BY <1>5, <3>3, <3>4
    <2>2. \A i \in DOMAIN d1 : d1[i] \in OnDiskAt'
        BY <1>14, EnumerationType
    <2>3. At(R, d1) = At(Recorded', d1)
        BY <2>1, <2>2 DEF At
    <2>4. durable' = At(Recorded', d1)
        BY <1>p, <1>14 DEF LogMeans
    <2> QED
        BY <2>3, <2>4
<1>18. ASSUME Content(handle)' = c
       PROVE  volatile' = SubSeq(t, k + 1, Len(s)) /\ \E m : Enumerates(m, InMemoryAt')
    <2>i. /\ InMemoryAt' \subseteq Place
          /\ \A p, i : <<p, i>> \in InMemoryAt' <=> p = h /\ i \in Ends(c, Len(b))
        BY <1>p, <1>h, <1>18 DEF LogMeans, b, h
    <2>1. InMemoryAt' = M
        <3>1. M \in SUBSET Place /\ InMemoryAt' \in SUBSET Place
            BY <1>4, <2>i
        <3>2. \A p, i : <<p, i>> \in InMemoryAt' <=> <<p, i>> \in M
            BY <1>n, <2>i
        <3> QED
            BY <3>1, <3>2, SamePlaces
    <2>2. Enumerates(m1, InMemoryAt')
        BY <1>14, <2>1
    <2>3. \A x \in M : R[x] = Recorded'[x]
        <3> TAKE x \in M
        <3>1. R[x] = c[x[2]].of
            BY <1>4, <1>9
        <3>2. Recorded'[x] = c[x[2]].of
            BY <1>p, <1>18, <2>1 DEF LogMeans
        <3> QED
            BY <3>1, <3>2
    <2>4. \A i \in DOMAIN m1 : m1[i] \in M
        BY <1>14, EnumerationType
    <2>5. At(R, m1) = At(Recorded', m1)
        BY <2>3, <2>4 DEF At
    <2>6. volatile' = At(Recorded', m1)
        BY <1>p, <2>2 DEF LogMeans
    <2> QED
        BY <1>14, <1>15, <2>2, <2>5, <2>6
<1>19. ASSUME Content(handle)' = disk'[handle]
       PROVE  volatile' = <<>> /\ \E m : Enumerates(m, InMemoryAt')
    <2>1. \A p, i : <<p, i>> \notin InMemoryAt'
        <3>1. ASSUME NEW p, NEW i, <<p, i>> \in InMemoryAt' PROVE FALSE
            <4>1. i \in Ends(b, Len(b))
                BY <1>p, <1>h, <1>19, <3>1 DEF LogMeans, b, h
            <4>2. i \in 1 .. Len(b) /\ i > Len(b)
                BY <1>1, <4>1, EndsType
            <4> QED
                BY <1>1, <4>2
        <3> QED
            BY <3>1
    <2>2. InMemoryAt' = {}
        <3>1. InMemoryAt' \subseteq Place
            BY <1>p DEF LogMeans
        <3> QED
            BY <2>1, <3>1, PlaceIsPair
    <2>3. Enumerates(<<>>, InMemoryAt')
        BY <2>2, NoPlaces
    <2>4. volatile' = At(Recorded', <<>>)
        BY <1>p, <2>3 DEF LogMeans
    <2>5. At(Recorded', <<>>) = <<>>
        BY DEF At
    <2> QED
        BY <2>3, <2>4, <2>5
<1> QED
    BY <1>14, <1>15, <1>16, <1>17, <1>18, <1>19

-----------------------------------------------------------------------------
(* The steps of the writer as steps of the log. *)

LogInv == LinesInv /\ TimeInv /\ LastFile /\ Enumerable

\* What is in memory, seen from the open file.
LEMMA InMemoryWay ==
    ASSUME TInv, handle \in Files, NEW m, Enumerates(m, InMemoryAt)
    PROVE  /\ Enumerates(m, {handle} \X Ends(Content(handle), Len(disk[handle])))
           /\ volatile = [i \in DOMAIN m |-> Content(handle)[m[i][2]].of]
           /\ Len(volatile) = Len(m) /\ Len(m) \in Nat /\ volatile \in Seq(Records)
           /\ m \in Seq(Place) /\ \A i \in 1 .. Len(m) : m[i] \in InMemoryAt
<1>1. InMemoryAt = {handle} \X Ends(Content(handle), Len(disk[handle]))
    BY DEF InMemoryAt, Files, Exists
<1>2. LogMeans
    BY LogMeaning
<1>3. DOMAIN m = 1 .. Len(m) /\ Len(m) \in Nat /\ m \in Seq(InMemoryAt)
      /\ \A i \in 1 .. Len(m) : m[i] \in InMemoryAt
    BY EnumerationType
<1>4. /\ \A x \in InMemoryAt : Recorded[x] \in Records /\ Recorded[x] = Content(handle)[x[2]].of
      /\ InMemoryAt \subseteq Place
      /\ volatile = At(Recorded, m)
    BY <1>2 DEF LogMeans
<1>5. volatile = [i \in DOMAIN m |-> Content(handle)[m[i][2]].of]
    BY <1>3, <1>4 DEF At
<1>6. At(Recorded, m) \in Seq(Records) /\ Len(At(Recorded, m)) = Len(m)
    <2> DEFINE P == InMemoryAt
               R == Recorded
    <2>1. m \in Seq(P) /\ \A x \in P : R[x] \in Records
        BY <1>3, <1>4
    <2> HIDE DEF P, R
    <2>2. At(R, m) \in Seq(Records) /\ Len(At(R, m)) = Len(m)
        BY <2>1, RecordsType
    <2> QED
        BY <2>2 DEF R
<1>7. m \in Seq(Place)
    BY <1>3, <1>4, SeqMonotonic
<1> QED
    BY <1>1, <1>3, <1>4, <1>5, <1>6, <1>7

\* The part a of what the writer has to write, a and b, gets to its file.
LEMMA PartWritten ==
    ASSUME TInv, pc # "down", NEW a \in Seq(Half), NEW b \in Seq(Half),
           disk' = [disk EXCEPT ![handle] = @ \o a], handle' = handle
    PROVE  LET c == (disk[handle] \o a) \o b IN
           /\ Files' = Files /\ handle \in Files
           /\ \A p \in Files : p # handle => disk'[p] = disk[p]
           /\ c \in Seq(Half)
           /\ IsPrefixOf(disk[handle], disk'[handle]) /\ IsPrefixOf(disk'[handle], c)
           /\ buf' = b => Content(handle)' = c
           /\ buf' = <<>> => Content(handle)' = disk'[handle]
<1> DEFINE f == disk[handle]
           c == (f \o a) \o b
<1>1. handle \in Files /\ handle \in Paths /\ f \in Seq(Half)
    BY ContentsType DEF TInv, TypeOK, HandleOpen, Files
<1>2. disk'[handle] = f \o a /\ \A p \in Paths : p # handle => disk'[p] = disk[p]
    BY <1>1 DEF TInv, TypeOK
<1> HIDE DEF f
<1>3. f \o a \in Seq(Half) /\ IsPrefixOf(f, f \o a)
    BY <1>1, ConcatPrefix
<1>4. c \in Seq(Half) /\ IsPrefixOf(f \o a, c)
    BY <1>3, ConcatPrefix
<1>5. disk'[handle] # NoFile
    BY <1>2, <1>3, NoFileAssumption
<1>6. Files' = Files
    BY <1>1, <1>2, <1>5 DEF Files, Exists
<1>7. \A p \in Files : p # handle => disk'[p] = disk[p]
    BY <1>2 DEF Files
<1>8. Content(handle)' = disk'[handle] \o buf'
    BY DEF Content
<1>9. (f \o a) \o <<>> = f \o a
    BY <1>3, ConcatEmptySeq
<1> QED
    BY <1>1, <1>2, <1>3, <1>4, <1>6, <1>7, <1>8, <1>9 DEF f

\* A flush, the flush of a close, and a crash: some of what is in memory gets
\* to disk, and the rest stays or is lost.
LEMMA WriteOutOfLog ==
    ASSUME LogInv, TInv', pc # "down", NEW a \in Seq(Half), NEW b \in Seq(Half),
           disk' = [disk EXCEPT ![handle] = @ \o a], handle' = handle,
           (disk[handle] \o a) \o b = disk[handle] \o buf
    PROVE  /\ buf' = b => Log!Flush /\ Enumerable'
           /\ buf' = <<>> => Log!Stop /\ Enumerable'
<1> DEFINE c == Content(handle)
<1>t. TInv /\ LastFile /\ Enumerable
    BY DEF LogInv, LinesInv
<1>1. c = (disk[handle] \o a) \o b
    BY DEF Content
<1>2. /\ Files' = Files /\ handle \in Files
      /\ \A p \in Files : p # handle => disk'[p] = disk[p]
      /\ c \in Seq(Half)
      /\ IsPrefixOf(disk[handle], disk'[handle]) /\ IsPrefixOf(disk'[handle], c)
      /\ buf' = b => Content(handle)' = c
      /\ buf' = <<>> => Content(handle)' = disk'[handle]
    BY <1>t, <1>1, PartWritten
<1>3. PICK m : Enumerates(m, InMemoryAt)
    BY <1>t DEF Enumerable
<1>4. /\ Enumerates(m, {handle} \X Ends(c, Len(disk[handle])))
      /\ volatile = [i \in DOMAIN m |-> c[m[i][2]].of]
      /\ Len(volatile) = Len(m)
    BY <1>t, <1>2, <1>3, InMemoryWay
<1> HIDE DEF c
<1>5. PICK k \in 0 .. Len(m) :
              /\ durable' = durable \o SubSeq(volatile, 1, k)
              /\ \E d : Enumerates(d, OnDiskAt')
              /\ Content(handle)' = c =>
                    /\ volatile' = SubSeq(volatile, k + 1, Len(m))
                    /\ \E e : Enumerates(e, InMemoryAt')
              /\ Content(handle)' = disk'[handle] =>
                    /\ volatile' = <<>>
                    /\ \E e : Enumerates(e, InMemoryAt')
    BY <1>t, <1>2, <1>4, WriteSplits
<1>6. ASSUME buf' = b PROVE Log!Flush /\ Enumerable'
    <2>1. Log!Split(volatile, k) /\ k \in 0 .. Len(volatile)
        BY <1>2, <1>4, <1>5, <1>6 DEF Log!Split
    <2>2. Enumerable'
        BY <1>2, <1>5, <1>6 DEF Enumerable
    <2> QED
        BY <2>1, <2>2 DEF Log!Flush
<1>7. ASSUME buf' = <<>> PROVE Log!Stop /\ Enumerable'
    <2>1. Enumerable'
        BY <1>2, <1>5, <1>7 DEF Enumerable
    <2> QED
        BY <1>2, <1>4, <1>5, <1>7, <2>1 DEF Log!Stop
<1> QED
    BY <1>6, <1>7

LEMMA FlushOfLog ==
    ASSUME LogInv, TInv', pc # "down", handle' = handle, FlushOk \/ FlushFails
    PROVE  Log!Flush /\ Enumerable'
<1>t. TInv /\ buf \in Seq(Half) /\ disk[handle] \in Seq(Half) /\ <<>> \in Seq(Half)
    BY EmptySeq DEF LogInv, LinesInv, TInv, TypeOK, HandleOpen, Exists
<1>1. CASE FlushOk
    <2>1. (disk[handle] \o buf) \o <<>> = disk[handle] \o buf
        BY <1>t, ConcatProperties, ConcatEmptySeq
    <2>2. disk' = [disk EXCEPT ![handle] = @ \o buf] /\ buf' = <<>>
        BY <1>1 DEF FlushOk
    <2> QED
        BY <1>t, <2>1, <2>2, WriteOutOfLog
<1>2. CASE FlushFails
    <2>1. PICK k \in 0 .. Len(buf) :
            /\ disk' = [disk EXCEPT ![handle] = @ \o SubSeq(buf, 1, k)]
            /\ buf' = SubSeq(buf, k + 1, Len(buf))
        BY <1>2 DEF FlushFails
    <2>2. SubSeq(buf, 1, k) \in Seq(Half) /\ SubSeq(buf, k + 1, Len(buf)) \in Seq(Half)
        BY <1>t, CutType
    <2>3. (disk[handle] \o SubSeq(buf, 1, k)) \o SubSeq(buf, k + 1, Len(buf))
            = disk[handle] \o buf
        BY <1>t, CutJoins
    <2> QED
        BY <2>1, <2>2, <2>3, WriteOutOfLog
<1> QED
    BY <1>1, <1>2

LEMMA StopOfLog ==
    ASSUME LogInv, TInv', Close \/ Crash
    PROVE  Log!Stop /\ Enumerable'
<1>1. pc # "down" /\ handle' = handle /\ buf' = <<>>
    BY DEF Close, Crash, fileVars
<1>t. TInv /\ buf \in Seq(Half) /\ disk[handle] \in Seq(Half) /\ <<>> \in Seq(Half)
    BY <1>1, EmptySeq DEF LogInv, LinesInv, TInv, TypeOK, HandleOpen, Exists
<1>2. CASE \E k \in 0 .. Len(buf) : disk' = [disk EXCEPT ![handle] = @ \o SubSeq(buf, 1, k)]
    <2>1. PICK k \in 0 .. Len(buf) : disk' = [disk EXCEPT ![handle] = @ \o SubSeq(buf, 1, k)]
        BY <1>2
    <2>2. SubSeq(buf, 1, k) \in Seq(Half) /\ SubSeq(buf, k + 1, Len(buf)) \in Seq(Half)
        BY <1>t, CutType
    <2>3. (disk[handle] \o SubSeq(buf, 1, k)) \o SubSeq(buf, k + 1, Len(buf))
            = disk[handle] \o buf
        BY <1>t, CutJoins
    <2> QED
        BY <1>1, <2>1, <2>2, <2>3, WriteOutOfLog
<1>3. CASE disk' = [disk EXCEPT ![handle] = @ \o buf]
    <2>1. (disk[handle] \o buf) \o <<>> = disk[handle] \o buf
        BY <1>t, ConcatProperties, ConcatEmptySeq
    <2> QED
        BY <1>1, <1>3, <1>t, <2>1, WriteOutOfLog
<1>4. CASE Crash
    <2>1. disk' = disk /\ disk[handle] \o <<>> = disk[handle]
        BY <1>4, <1>t, ConcatEmptySeq DEF Crash, fileVars
    <2>2. disk' = [disk EXCEPT ![handle] = @ \o <<>>]
        BY <1>t, <2>1 DEF TInv, TypeOK
    <2>3. (disk[handle] \o <<>>) \o buf = disk[handle] \o buf
        BY <2>1
    <2> QED
        BY <1>1, <1>t, <2>2, <2>3, WriteOutOfLog
<1> QED
    BY <1>2, <1>3, <1>4 DEF Close

\* A record is added, and with a full buffer some halves get to disk.  Its line
\* can be read unless the line before it was torn.
LEMMA AppendOfLog ==
    ASSUME LogInv, TInv', AppendRecord
    PROVE  (Log!Flush \/ \E r \in Records : Log!Write(r)) /\ Enumerable'
<1> DEFINE all == buf \o Line(next)
           spill == IF Len(all) > BufCap THEN BufCap ELSE 0
           c == Content(handle) \o Line(next)
           a == SubSeq(all, 1, spill)
           b == SubSeq(all, spill + 1, Len(all))
           n == Len(disk[handle])
<1>1. /\ disk' = [disk EXCEPT ![handle] = @ \o a] /\ buf' = b
      /\ handle' = handle /\ pc # "down" /\ pc = "appending"
    BY DEF AppendRecord
<1>t. TInv /\ LastFile /\ Enumerable
    BY DEF LogInv, LinesInv
<1>2. /\ next \in Records /\ buf \in Seq(Half) /\ Line(next) \in Seq(Half)
      /\ disk[handle] \in Seq(Half) /\ handle \in Files
    BY <1>1, <1>t, LineType DEF TInv, TypeOK, RecordAtHand, HandleOpen, Files, Exists
<1>3. all \in Seq(Half) /\ Len(all) \in Nat
    BY <1>2, ConcatProperties, LenProperties
<1>4. spill \in 0 .. Len(all)
    BY <1>3, ConfigAssumption
<1>5. /\ disk[handle] \o all = c /\ Content(handle) = disk[handle] \o buf
      /\ Content(handle) \in Seq(Half) /\ n \in 0 .. Len(Content(handle))
    <2>1. Content(handle) = disk[handle] \o buf
        BY DEF Content
    <2>2. disk[handle] \o buf \in Seq(Half) /\ IsPrefixOf(disk[handle], disk[handle] \o buf)
        BY <1>2, ConcatPrefix
    <2>3. n \in 0 .. Len(Content(handle))
        BY <1>2, <2>1, <2>2, LenProperties DEF IsPrefixOf
    <2>4. disk[handle] \o all = (disk[handle] \o buf) \o Line(next)
        BY <1>2, HalvesAssociate DEF all
    <2> QED
        BY <2>1, <2>2, <2>3, <2>4
<1> HIDE DEF all, spill, c, n
<1>6. /\ a \in Seq(Half) /\ b \in Seq(Half)
      /\ (disk[handle] \o a) \o b = c
    BY <1>2, <1>3, <1>4, <1>5, CutType, CutJoins
<1> HIDE DEF a, b
<1>7. /\ Files' = Files
      /\ \A p \in Files : p # handle => disk'[p] = disk[p]
      /\ c \in Seq(Half)
      /\ IsPrefixOf(disk[handle], disk'[handle]) /\ IsPrefixOf(disk'[handle], c)
      /\ Content(handle)' = c
    <2>1. buf' = b
        BY <1>1
    <2> QED
        BY <1>1, <1>6, <1>t, <2>1, PartWritten
<1>8. PICK m : Enumerates(m, InMemoryAt)
    BY <1>t DEF Enumerable
<1> DEFINE f == Content(handle)
           l == Len(f) + 2
           v == volatile
<1>9. /\ Enumerates(m, {handle} \X Ends(f, n))
      /\ v = [i \in DOMAIN m |-> f[m[i][2]].of]
      /\ Len(v) = Len(m) /\ Len(m) \in Nat /\ v \in Seq(Records) /\ m \in Seq(Place)
    BY <1>t, <1>2, <1>8, InMemoryWay DEF n
<1> HIDE DEF v
<1>10. /\ c[l].of = next
       /\ Ends(c, n) = Ends(f, n) \/ Ends(c, n) = Ends(f, n) \cup {l}
       /\ \A i \in Ends(f, n) : c[i].of = f[i].of
    <2>1. f \in Seq(Half) /\ n \in 0 .. Len(f) /\ next \in Records /\ c = f \o Line(next)
        BY <1>2, <1>5 DEF c
    <2> HIDE DEF f
    <2>2. /\ c[Len(f) + 2].of = next
          /\ Ends(c, n) = Ends(f, n) \/ Ends(c, n) = Ends(f, n) \cup {Len(f) + 2}
          /\ \A i \in Ends(f, n) : c[i].of = f[i].of
        <3> DEFINE g == f \o Line(next)
        <3>1. /\ g[Len(f) + 2].of = next
              /\ Ends(g, n) = Ends(f, n) \/ Ends(g, n) = Ends(f, n) \cup {Len(f) + 2}
              /\ \A i \in Ends(f, n) : g[i].of = f[i].of
            <4>1. g[Len(f) + 2].of = next
                BY <2>1, EndsOfLine
            <4>2. Ends(g, n) = Ends(f, n) \/ Ends(g, n) = Ends(f, n) \cup {Len(f) + 2}
                BY <2>1, EndsOfLine
            <4>3. \A i \in Ends(f, n) : g[i].of = f[i].of
                BY <2>1, EndsOfLine
            <4> QED
                BY <4>1, <4>2, <4>3
        <3> QED
            BY <2>1, <3>1
    <2> QED
        BY <2>2
<1>11. f \in Seq(Half) /\ Len(f) \in Nat /\ n \in Nat /\ handle \in Paths
    BY <1>2, <1>5, LenProperties DEF Files
<1>12. \A x \in {handle} \X Ends(f, n) : x[1] = handle /\ x[2] \in Ends(f, n)
    OBVIOUS
<1>13. /\ DOMAIN m = 1 .. Len(m)
       /\ \A i \in 1 .. Len(m) : m[i][1] = handle /\ m[i][2] \in Ends(f, n)
    BY <1>9, <1>12, EnumerationType
<1> HIDE DEF f, l
<1>14. ASSUME NEW s, Enumerates(s, {handle} \X Ends(c, n)),
              NEW t, t = [i \in DOMAIN s |-> c[s[i][2]].of], Len(t) = Len(s)
       PROVE  (\E k \in 0 .. Len(t) : Log!Split(t, k)) /\ Enumerable'
    <2>1. PICK k \in 0 .. Len(s) :
              /\ durable' = durable \o SubSeq(t, 1, k)
              /\ \E d : Enumerates(d, OnDiskAt')
              /\ Content(handle)' = c =>
                    /\ volatile' = SubSeq(t, k + 1, Len(s))
                    /\ \E e : Enumerates(e, InMemoryAt')
        BY <1>1, <1>7, <1>14, <1>t, WriteSplits DEF n
    <2>2. Enumerable'
        BY <1>7, <2>1 DEF Enumerable
    <2> QED
        BY <1>7, <1>14, <2>1, <2>2 DEF Log!Split
<1>15. CASE Ends(c, n) = Ends(f, n)
    <2>1. v = [i \in DOMAIN m |-> c[m[i][2]].of]
        BY <1>9, <1>10, <1>13
    <2>2. (\E k \in 0 .. Len(v) : Log!Split(v, k)) /\ Enumerable'
        BY <1>9, <1>14, <1>15, <2>1
    <2> QED
        BY <2>2 DEF Log!Flush, v
<1>16. CASE Ends(c, n) = Ends(f, n) \cup {l}
    <2> DEFINE P == {handle} \X Ends(f, n)
               new == <<handle, l>>
               s == m \o <<new>>
               t == Append(v, next)
    <2>1. P \in SUBSET Place /\ {new} \in SUBSET Place /\ \A x \in P, y \in {new} : Before(x, y)
        <3>1. \A i \in Ends(f, n) : i \in Nat /\ i < l
            BY <1>11, EndsType DEF l
        <3>2. l \in Nat
            BY <1>11 DEF l
        <3> QED
            BY <1>11, <3>1, <3>2 DEF Place, Before
    <2>2. Enumerates(<<new>>, {new})
        BY OnePlace
    <2>3. P \cup {new} = {handle} \X Ends(c, n)
        BY <1>16
    <2>4. Enumerates(s, {handle} \X Ends(c, n))
        <3> HIDE DEF P, new
        <3>1. Enumerates(m, P)
            BY <1>9 DEF P
        <3>2. Enumerates(s, P \cup {new})
            BY <2>1, <2>2, <3>1, WaysJoin
        <3> QED
            BY <2>3, <3>2
    <2>5. /\ s = Append(m, new) /\ Len(s) = Len(m) + 1 /\ DOMAIN s = 1 .. Len(m) + 1
          /\ \A i \in 1 .. Len(m) : s[i] = m[i]
          /\ s[Len(m) + 1] = new
        <3>1. new \in Place
            BY <2>1
        <3> HIDE DEF new
        <3>2. s = Append(m, new)
            BY <1>9, <3>1, AppendIsConcat
        <3> QED
            BY <1>9, <3>1, <3>2, AppendProperties
    <2>6. /\ Len(t) = Len(v) + 1 /\ DOMAIN t = 1 .. Len(v) + 1
          /\ \A i \in 1 .. Len(v) : t[i] = v[i]
          /\ t[Len(v) + 1] = next /\ t \in Seq(Records)
        BY <1>2, <1>9, AppendProperties
    <2> HIDE DEF s, t, P
    <2>7. ASSUME NEW i \in 1 .. Len(m) + 1 PROVE t[i] = c[s[i][2]].of
        <3>1. CASE i \in 1 .. Len(m)
            BY <1>9, <1>10, <1>13, <2>5, <2>6, <3>1
        <3>2. CASE i = Len(m) + 1
            BY <1>9, <1>10, <2>5, <2>6, <3>2
        <3> QED
            BY <1>9, <3>1, <3>2
    <2>8. t = [i \in DOMAIN s |-> c[s[i][2]].of]
        <3>1. t = [i \in 1 .. Len(m) + 1 |-> t[i]]
            BY <1>9, <2>6, LenProperties
        <3> QED
            BY <2>5, <2>7, <3>1
    <2>9. (\E k \in 0 .. Len(t) : Log!Split(t, k)) /\ Enumerable'
        <3>1. Len(t) = Len(s)
            BY <1>9, <2>5, <2>6
        <3> QED
            BY <1>14, <2>4, <2>8, <3>1, Zenon
    <2>10. Log!Write(next)
        BY <2>9 DEF Log!Write, t, v
    <2> QED
        BY <1>2, <2>9, <2>10
<1> QED
    BY <1>10, <1>15, <1>16

LEMMA NoLinesInMemory ==
    ASSUME TInv, \A i : i \notin Ends(Content(handle), Len(disk[handle]))
    PROVE  volatile = <<>> /\ Enumerates(<<>>, InMemoryAt)
<1>1. LogMeans
    BY LogMeaning
<1>2. InMemoryAt = {}
    <2>1. InMemoryAt \subseteq Place /\ \A p, i : <<p, i>> \notin InMemoryAt
        BY <1>1 DEF LogMeans
    <2> QED
        BY <2>1, PlaceIsPair
<1>3. Enumerates(<<>>, InMemoryAt)
    BY <1>2, NoPlaces
<1>4. volatile = At(Recorded, <<>>) /\ At(Recorded, <<>>) = <<>>
    BY <1>1, <1>3 DEF LogMeans, At
<1> QED
    BY <1>3, <1>4

NothingInMemory == volatile = <<>> /\ Enumerates(<<>>, InMemoryAt)

BufferIsEmpty == buf = <<>>

LEMMA EmptyBuffer == TInv /\ BufferIsEmpty => NothingInMemory
<1> SUFFICES ASSUME TInv, buf = <<>> PROVE NothingInMemory
    BY DEF BufferIsEmpty
<1>1. CASE handle \in Files
    <2>1. disk[handle] \in Seq(Half) /\ Content(handle) = disk[handle] /\ Len(disk[handle]) \in Nat
        BY <1>1, ContentsType, LenProperties
    <2>2. ASSUME NEW i \in Ends(disk[handle], Len(disk[handle])) PROVE FALSE
        <3>1. i \in 1 .. Len(disk[handle]) /\ i > Len(disk[handle])
            BY <2>1, EndsType
        <3> QED
            BY <2>1, <3>1
    <2> QED
        BY <2>1, <2>2, NoLinesInMemory DEF NothingInMemory
<1>2. CASE handle \notin Files
    <2>1. LogMeans
        BY LogMeaning
    <2>2. InMemoryAt = {}
        <3>1. InMemoryAt \subseteq Place /\ \A p, i : <<p, i>> \notin InMemoryAt
            BY <1>2, <2>1 DEF LogMeans
        <3> QED
            BY <3>1, PlaceIsPair
    <2>3. Enumerates(<<>>, InMemoryAt)
        BY <2>2, NoPlaces
    <2>4. volatile = At(Recorded, <<>>) /\ At(Recorded, <<>>) = <<>>
        BY <2>1, <2>3 DEF LogMeans, At
    <2> QED
        BY <2>3, <2>4 DEF NothingInMemory
<1> QED
    BY <1>1, <1>2

\* A header is no record.
HeaderInBuffer == handle \in Files /\ disk[handle] = <<>> /\ buf = Line(Header)

LEMMA HeaderBuffer == TInv /\ HeaderInBuffer => NothingInMemory
<1> SUFFICES ASSUME TInv, HeaderInBuffer PROVE NothingInMemory
    OBVIOUS
<1>1. /\ Line(Header) \in Seq(Half) /\ Len(Line(Header)) = 2 /\ DOMAIN Line(Header) = {1, 2}
      /\ Line(Header)[1].of = Header /\ Line(Header)[2].of = Header
    <2>1. /\ Line(Header) \in Seq(Half) /\ Len(Line(Header)) = 2 /\ DOMAIN Line(Header) = {1, 2}
          /\ Line(Header)[1] = [of |-> Header, half |-> 1]
          /\ Line(Header)[2] = [of |-> Header, half |-> 2]
        BY LineHalves
    <2> QED
        BY <2>1
<1>2. Content(handle) = Line(Header)
    BY <1>1, ConcatEmptySeq DEF HeaderInBuffer, Content
<1>3. \A i : i \notin Ends(Line(Header), Len(disk[handle]))
    BY <1>1 DEF Ends
<1> QED
    BY <1>2, <1>3, NoLinesInMemory DEF NothingInMemory

\* Files that hold the same lines under the same names.
LEMMA SameOnDisk ==
    ASSUME TInv, TInv', Enumerable,
           \A p \in Files : p \in Files' /\ disk'[p] = disk[p],
           \A p \in Files' : p \in Files \/ disk'[p] = <<>>
    PROVE  durable' = durable /\ \E d : Enumerates(d, OnDiskAt')
<1>m. LogMeans
    BY LogMeaning
<1>p. LogMeans'
    BY LogMeaning, PTL
<1>1. \A i : i \notin Ends(<<>>, 0)
    BY DEF Ends
<1>d. /\ OnDiskAt \subseteq Place
      /\ \A p, i : <<p, i>> \in OnDiskAt <=> p \in Files /\ i \in Ends(disk[p], 0)
    BY <1>m DEF LogMeans
<1>e. /\ OnDiskAt' \subseteq Place
      /\ \A p, i : <<p, i>> \in OnDiskAt' <=> p \in Files' /\ i \in Ends(disk'[p], 0)
    BY <1>p DEF LogMeans
<1>2. OnDiskAt' = OnDiskAt
    <2>1. ASSUME NEW p, NEW i PROVE <<p, i>> \in OnDiskAt' <=> <<p, i>> \in OnDiskAt
        BY <1>1, <1>d, <1>e
    <2>2. OnDiskAt \in SUBSET Place /\ OnDiskAt' \in SUBSET Place
        BY <1>d, <1>e
    <2> QED
        BY <2>1, <2>2, SamePlaces
<1>3. PICK d : Enumerates(d, OnDiskAt)
    BY DEF Enumerable
<1>4. ASSUME NEW x \in OnDiskAt PROVE Recorded'[x] = Recorded[x]
    <2>1. x[1] \in Files
        BY <1>d, PlaceIsPair
    <2>2. Recorded'[x] = disk'[x[1]][x[2]].of
        BY <1>2, <1>p DEF LogMeans
    <2>3. Recorded[x] = disk[x[1]][x[2]].of
        BY <1>m DEF LogMeans
    <2> QED
        BY <2>1, <2>2, <2>3
<1>5. At(Recorded', d) = At(Recorded, d)
    <2>1. \A i \in DOMAIN d : d[i] \in OnDiskAt
        BY <1>3, EnumerationType
    <2> QED
        BY <1>4, <2>1 DEF At
<1>6. durable' = At(Recorded', d) /\ durable = At(Recorded, d)
    BY <1>2, <1>3, <1>m, <1>p DEF LogMeans
<1> QED
    BY <1>2, <1>3, <1>5, <1>6

\* Opening, with or without a live file, and the new file of a rotation.
LEMMA OpenOfLog ==
    ASSUME LogInv, TInv', Append_ = TRUE, Open \/ RotateCreate
    PROVE  durable' = durable /\ volatile' = volatile /\ Enumerable'
<1>t. TInv /\ Enumerable /\ buf = <<>> /\ (RotateCreate => ~Exists(Live))
    BY DEF LogInv, LinesInv, TimeInv, Open, RotateCreate
<1>1. NothingInMemory
    BY <1>t, EmptyBuffer DEF BufferIsEmpty
<1>n. Live \in Paths
    BY DEF Paths
<1>2. CASE Open /\ Exists(Live)
    <2>1. disk' = disk /\ buf' = <<>>
        BY <1>2, <1>t DEF Open, TInv, TypeOK
    <2>2. Files' = Files
        BY <2>1 DEF Files, Exists
    <2>5. BufferIsEmpty'
        BY <2>1 DEF BufferIsEmpty
    <2>3. NothingInMemory'
        BY <2>5, EmptyBuffer, PTL
    <2>4. durable' = durable /\ \E d : Enumerates(d, OnDiskAt')
        BY <1>t, <2>1, <2>2, SameOnDisk
    <2> QED
        BY <1>1, <2>3, <2>4 DEF NothingInMemory, Enumerable
<1>3. CASE ~(Open /\ Exists(Live))
    <2>1. /\ ~Exists(Live) /\ disk' = [disk EXCEPT ![Live] = <<>>]
          /\ handle' = Live /\ buf' = Line(Header)
        BY <1>3, <1>t DEF Open, RotateCreate
    <2>2. disk'[Live] = <<>> /\ \A p \in Paths : p # Live => disk'[p] = disk[p]
        BY <1>n, <1>t, <2>1 DEF TInv, TypeOK
    <2>3. <<>> # NoFile
        BY NoFileAssumption, EmptySeq
    <2>4. Live \in Files' /\ Live \notin Files
        BY <1>n, <2>1, <2>2, <2>3 DEF Files, Exists
    <2>5. \A p \in Files : p \in Files' /\ disk'[p] = disk[p]
        BY <2>2, <2>4 DEF Files, Exists
    <2>6. \A p \in Files' : p \in Files \/ disk'[p] = <<>>
        BY <2>2 DEF Files, Exists
    <2>7. durable' = durable /\ \E d : Enumerates(d, OnDiskAt')
        BY <1>t, <2>5, <2>6, SameOnDisk
    <2>8. HeaderInBuffer'
        BY <2>1, <2>2, <2>4 DEF HeaderInBuffer
    <2>9. NothingInMemory'
        BY <2>8, HeaderBuffer, PTL
    <2> QED
        BY <1>1, <2>7, <2>9 DEF NothingInMemory, Enumerable
<1> QED
    BY <1>2, <1>3

\* The renamed file stays the last one: its name is later than the others.
LEMMA RenameOfLog ==
    ASSUME LogInv, TInv', RotateRename
    PROVE  durable' = durable /\ volatile' = volatile /\ Enumerable' /\ LastFile'
<1>t. TInv /\ Enumerable /\ buf = <<>> /\ TimeInv
    BY DEF LogInv, LinesInv, RotateRename
<1>1. /\ Exists(Live) /\ pc = "renaming" /\ buf' = <<>> /\ handle' = now
      /\ disk' = [disk EXCEPT ![now] = disk[Live], ![Live] = NoFile]
    BY <1>t DEF RotateRename, writerVars
<1>2. Live \in Paths /\ now \in Paths /\ now # Live /\ now \in Nat /\ now <= MaxTime
      /\ MaxTime \in Nat /\ createdAt \in Nat /\ createdAt < now
    BY <1>1, <1>t, ConfigAssumption DEF Paths, Live, TInv, TypeOK, TimeInv
<1>3. /\ disk'[now] = disk[Live] /\ disk'[Live] = NoFile
      /\ \A p \in Paths : p # Live /\ p # now => disk'[p] = disk[p]
    BY <1>1, <1>2, <1>t DEF TInv, TypeOK
<1>4. \A p \in Files : p = Live \/ (p \in Nat /\ p < now /\ p \in Paths)
    <2>1. \A p \in Files : p = Live \/ (p \in 0 .. MaxTime /\ Exists(p) /\ p \in Paths)
        BY DEF Files, Paths
    <2>2. \A p \in 0 .. MaxTime : Exists(p) => p <= createdAt
        BY <1>1, <1>t DEF TimeInv, RotatedBy
    <2> QED
        BY <1>2, <2>1, <2>2
<1>5. /\ Files' = (Files \ {Live}) \cup {now} /\ Live \in Files /\ now \notin Files
      /\ \A p \in Files : p # Live => p # now /\ disk'[p] = disk[p]
    <2>1. now \notin Files
        BY <1>2, <1>4
    <2>2. Files' = (Files \ {Live}) \cup {now}
        BY <1>1, <1>2, <1>3 DEF Files, Exists
    <2>3. Live \in Files
        BY <1>1, <1>2 DEF Files
    <2>4. \A p \in Files : p # Live => p # now /\ disk'[p] = disk[p]
        BY <1>2, <1>3, <2>1 DEF Files
    <2> QED
        BY <2>1, <2>2, <2>3, <2>4
<1>6. LastFile'
    <2>1. ASSUME NEW p \in Files' PROVE p = now \/ Age(p) < Age(now)
        <3>1. p = now \/ (p \in Nat /\ p < now /\ p # Live)
            BY <1>4, <1>5
        <3> QED
            BY <1>2, <3>1 DEF Age
    <2> QED
        BY <1>1, <2>1 DEF LastFile
<1>7. NothingInMemory /\ NothingInMemory'
    <2>1. NothingInMemory
        BY <1>t, EmptyBuffer DEF BufferIsEmpty
    <2>2. BufferIsEmpty'
        BY <1>1 DEF BufferIsEmpty
    <2>3. NothingInMemory'
        BY <2>2, EmptyBuffer, PTL
    <2> QED
        BY <2>1, <2>3
<1>m. LogMeans
    BY <1>t, LogMeaning
<1>p. LogMeans'
    BY LogMeaning, PTL
<1>d. /\ OnDiskAt \subseteq Place
      /\ \A p, i : <<p, i>> \in OnDiskAt <=> p \in Files /\ i \in Ends(disk[p], 0)
    BY <1>m DEF LogMeans
<1>e. /\ OnDiskAt' \subseteq Place
      /\ \A p, i : <<p, i>> \in OnDiskAt' <=> p \in Files' /\ i \in Ends(disk'[p], 0)
    BY <1>p DEF LogMeans
<1>8. PICK d : Enumerates(d, OnDiskAt)
    BY <1>t DEF Enumerable
<1> DEFINE To(x) == IF x[1] = Live THEN <<now, x[2]>> ELSE x
           e == [i \in DOMAIN d |-> To(d[i])]
<1>9. ASSUME NEW x \in OnDiskAt
      PROVE  To(x) \in OnDiskAt' /\ Recorded'[To(x)] = Recorded[x]
    <2>1. x = <<x[1], x[2]>> /\ x[1] \in Files /\ x[2] \in Ends(disk[x[1]], 0)
        BY <1>d, PlaceIsPair
    <2>2. Recorded[x] = disk[x[1]][x[2]].of
        BY <1>m DEF LogMeans
    <2>3. CASE x[1] = Live
        <3>1. To(x) = <<now, x[2]>> /\ <<now, x[2]>> \in OnDiskAt'
            BY <1>3, <1>5, <1>e, <2>1, <2>3
        <3>2. Recorded'[<<now, x[2]>>] = disk'[now][x[2]].of
            BY <1>p, <3>1 DEF LogMeans
        <3> QED
            BY <1>3, <2>2, <2>3, <3>1, <3>2
    <2>4. CASE x[1] # Live
        <3>1. To(x) = x /\ x \in OnDiskAt' /\ disk'[x[1]] = disk[x[1]]
            BY <1>5, <1>e, <2>1, <2>4
        <3>2. Recorded'[x] = disk'[x[1]][x[2]].of
            BY <1>p, <3>1 DEF LogMeans
        <3> QED
            BY <2>2, <3>1, <3>2
    <2> QED
        BY <2>3, <2>4
<1>10. ASSUME NEW y \in OnDiskAt' PROVE \E x \in OnDiskAt : To(x) = y
    <2>1. y = <<y[1], y[2]>> /\ y[1] \in Files' /\ y[2] \in Ends(disk'[y[1]], 0)
        BY <1>e, PlaceIsPair
    <2>2. CASE y[1] = now
        <3>1. <<Live, y[2]>> \in OnDiskAt
            BY <1>3, <1>5, <1>d, <2>1, <2>2
        <3>2. To(<<Live, y[2]>>) = y
            BY <2>1, <2>2
        <3> QED
            BY <3>1, <3>2
    <2>3. CASE y[1] # now
        <3>1. y[1] \in Files /\ y[1] # Live
            BY <1>5, <2>1, <2>3
        <3>2. y \in OnDiskAt /\ To(y) = y
            BY <1>5, <1>d, <2>1, <3>1
        <3> QED
            BY <3>2
    <2> QED
        BY <2>2, <2>3
<1>11. ASSUME NEW x \in OnDiskAt, NEW y \in OnDiskAt, Before(x, y)
       PROVE  Before(To(x), To(y))
    <2>1. x[1] \in Files /\ y[1] \in Files
        BY <1>d, PlaceIsPair
    <2>2. /\ x[1] = Live \/ (x[1] \in Nat /\ x[1] < now /\ x[1] # Live /\ Age(x[1]) = x[1])
          /\ y[1] = Live \/ (y[1] \in Nat /\ y[1] < now /\ y[1] # Live /\ Age(y[1]) = y[1])
        BY <1>4, <2>1 DEF Age, Paths, Live
    <2>3. Age(Live) = MaxTime + 1 /\ Age(now) = now
        BY <1>2 DEF Age
    <2>4. CASE x[1] = Live /\ y[1] = Live
        <3>1. x[2] < y[2]
            BY <1>2, <2>3, <2>4, <1>11 DEF Before
        <3> QED
            BY <2>4, <3>1 DEF Before
    <2>5. CASE x[1] # Live /\ y[1] = Live
        <3>1. Age(x[1]) < Age(now)
            BY <2>2, <2>3, <2>5
        <3> QED
            BY <2>5, <3>1 DEF Before
    <2>6. CASE x[1] = Live /\ y[1] # Live
        BY <1>2, <2>2, <2>3, <2>6, <1>11 DEF Before
    <2>7. CASE x[1] # Live /\ y[1] # Live
        BY <2>7, <1>11
    <2> QED
        BY <2>4, <2>5, <2>6, <2>7
<1>12. /\ d \in Seq(OnDiskAt) /\ Len(d) \in Nat /\ DOMAIN d = 1 .. Len(d)
       /\ \A i \in 1 .. Len(d) : d[i] \in OnDiskAt
       /\ \A x \in OnDiskAt : \E i \in 1 .. Len(d) : d[i] = x
       /\ \A i, j \in 1 .. Len(d) : i < j => Before(d[i], d[j])
    <2> DEFINE P == OnDiskAt
    <2>1. Enumerates(d, P)
        BY <1>8
    <2> HIDE DEF P
    <2>2. d \in Seq(P) /\ Len(d) \in Nat /\ DOMAIN d = 1 .. Len(d)
        BY <2>1, EnumerationType, Zenon
    <2>3. /\ \A i \in 1 .. Len(d) : d[i] \in P
          /\ \A x \in P : \E i \in 1 .. Len(d) : d[i] = x
          /\ \A i, j \in 1 .. Len(d) : i < j => Before(d[i], d[j])
        <3>1. \A i \in 1 .. Len(d) : d[i] \in P
            BY <2>1, EnumerationType
        <3> QED
            BY <2>1, <2>2, <3>1 DEF Enumerates, GoesThrough
    <2> QED
        BY <2>2, <2>3 DEF P
<1>13. Enumerates(e, OnDiskAt')
    <2>1. DOMAIN e = 1 .. Len(d) /\ \A i \in 1 .. Len(d) : e[i] = To(d[i]) /\ e[i] \in OnDiskAt'
        BY <1>9, <1>12
    <2>2. e \in [1 .. Len(d) -> OnDiskAt']
        BY <2>1
    <2> HIDE DEF e, To
    <2>3. e \in Seq(OnDiskAt')
        BY <1>12, <2>2, SeqDef
    <2>4. \A y \in OnDiskAt' : \E i \in DOMAIN e : e[i] = y
        BY <1>10, <1>12, <2>1
    <2>5. \A i, j \in DOMAIN e : i < j => Before(e[i], e[j])
        BY <1>11, <1>12, <2>1
    <2> QED
        BY <2>3, <2>4, <2>5 DEF Enumerates, GoesThrough
<1>14. At(Recorded', e) = At(Recorded, d)
    <2>1. DOMAIN e = DOMAIN d /\ \A i \in DOMAIN d : Recorded'[e[i]] = Recorded[d[i]]
        BY <1>9, <1>12
    <2> QED
        BY <2>1 DEF At
<1>15. durable' = At(Recorded', e) /\ durable = At(Recorded, d)
    BY <1>8, <1>13, <1>m, <1>p DEF LogMeans
<1> QED
    BY <1>6, <1>7, <1>13, <1>14, <1>15 DEF NothingInMemory, Enumerable

LEMMA LogInit == Init => LogInv /\ Log!Init
<1> SUFFICES ASSUME Init PROVE LogInv /\ Log!Init
    OBVIOUS
<1>1. LinesInv /\ TimeInv
    BY LinesInit, TimeInit, ConfigAssumption
<1>2. TInv /\ pc = "down" /\ BufferIsEmpty /\ Files = {}
    BY <1>1 DEF Init, LinesInv, BufferIsEmpty, Files, Exists
<1>3. NothingInMemory
    BY <1>2, EmptyBuffer
<1>4. LogMeans
    BY <1>2, LogMeaning
<1>5. OnDiskAt = {}
    <2>1. OnDiskAt \subseteq Place /\ \A p, i : <<p, i>> \notin OnDiskAt
        BY <1>2, <1>4 DEF LogMeans
    <2> QED
        BY <2>1, PlaceIsPair
<1>6. Enumerates(<<>>, OnDiskAt)
    BY <1>5, NoPlaces
<1>7. durable = At(Recorded, <<>>) /\ At(Recorded, <<>>) = <<>>
    BY <1>4, <1>6 DEF LogMeans, At
<1> QED
    BY <1>1, <1>2, <1>3, <1>6, <1>7 DEF LogInv, LastFile, Enumerable, NothingInMemory, Log!Init

\* What a step may do to the log.
LogStepOK == Log!Next \/ (durable' = durable /\ volatile' = volatile)

LEMMA LogStep ==
    ASSUME AgeOnly, Append_ = TRUE, LogInv, [Next]_vars
    PROVE  LogInv' /\ LogStepOK
<1>t. /\ TInv /\ TInv' /\ LinesInv /\ LinesInv' /\ TimeInv /\ TimeInv'
      /\ LastFile /\ Enumerable
    <2>1. LinesInv /\ TimeInv /\ TInv /\ LastFile /\ Enumerable
        BY DEF LogInv, LinesInv
    <2>2. TInv' /\ LinesInv'
        BY <2>1, TypeStep, LinesStep
    <2>3. TimeInv'
        BY <2>1, TimeStep
    <2> QED
        BY <2>1, <2>2, <2>3
<1>s. ASSUME LastFile', Enumerable', LogStepOK
      PROVE  LogInv' /\ LogStepOK
    BY <1>t, <1>s DEF LogInv
<1>k. ASSUME Files' = Files, handle' = handle, pc' # "down" => pc # "down"
      PROVE  LastFile'
    BY <1>t, <1>k DEF LastFile
<1>1. CASE Open \/ RotateCreate
    <2>1. durable' = durable /\ volatile' = volatile /\ Enumerable'
        BY <1>1, <1>t, OpenOfLog
    <2>2. handle' = Live
        BY <1>1 DEF Open, RotateCreate
    <2>3. LastFile'
        <3>1. ASSUME NEW p \in Files' PROVE p = Live \/ Age(p) < Age(Live)
            BY ConfigAssumption DEF Files, Paths, Age, Live
        <3> QED
            BY <2>2, <3>1 DEF LastFile
    <2> QED
        BY <1>s, <2>1, <2>3 DEF LogStepOK
<1>2. CASE StartWrite \/ RejectWrite \/ RenameError \/ CreateError \/ Tick \/ ClockBack \/ UNCHANGED vars
    <2>1. disk' = disk /\ buf' = buf /\ handle' = handle
        BY <1>2 DEF StartWrite, RejectWrite, RenameError, CreateError, Tick, ClockBack, Reject,
                    vars, fileVars, writerVars
    <2>2. pc' # "down" => pc # "down"
        BY <1>2 DEF StartWrite, RejectWrite, RenameError, CreateError, Tick, ClockBack, Reject, vars
    <2>3. Files' = Files /\ OnDiskAt' = OnDiskAt /\ InMemoryAt' = InMemoryAt
        BY <2>1 DEF Files, OnDiskAt, InMemoryAt, Exists, Content
    <2>4. durable' = durable /\ volatile' = volatile
        BY <2>1, <2>3 DEF durable, volatile, RecordsAt, RecordAt, Content
    <2>5. Enumerable'
        BY <1>t, <2>3 DEF Enumerable
    <2> QED
        BY <1>k, <1>s, <2>1, <2>2, <2>3, <2>4, <2>5 DEF LogStepOK
<1>3. CASE RotateFlush \/ FlushError \/ FlushBatch \/ Flush
    <2>1. /\ pc # "down" /\ handle' = handle /\ (FlushOk \/ FlushFails)
        BY <1>3 DEF RotateFlush, FlushError, FlushBatch, Flush
    <2>2. Log!Flush /\ Enumerable'
        BY <1>t, <2>1, FlushOfLog
    <2>3. Files' = Files
        BY <1>t, <2>1, FlushKeepsContents DEF Contents
    <2> QED
        BY <1>k, <1>s, <2>1, <2>2, <2>3 DEF LogStepOK, Log!Next
<1>4. CASE RotateRename
    <2>1. durable' = durable /\ volatile' = volatile /\ Enumerable' /\ LastFile'
        BY <1>4, <1>t, RenameOfLog
    <2> QED
        BY <1>s, <2>1 DEF LogStepOK
<1>5. CASE AppendRecord
    <2>1. (Log!Flush \/ \E r \in Records : Log!Write(r)) /\ Enumerable'
        BY <1>5, <1>t, AppendOfLog
    <2>2. handle' = handle /\ pc # "down"
        BY <1>5 DEF AppendRecord
    <2>3. Files' = Files
        BY <1>5, <1>t, AppendAddsLine DEF Contents
    <2> QED
        BY <1>k, <1>s, <2>1, <2>2, <2>3 DEF LogStepOK, Log!Next
<1>6. CASE Close \/ Crash
    <2>1. Log!Stop /\ Enumerable'
        BY <1>6, <1>t, StopOfLog
    <2>2. pc' = "down"
        BY <1>6 DEF Close, Crash
    <2>3. LastFile'
        BY <2>2 DEF LastFile
    <2> QED
        BY <1>s, <2>1, <2>3 DEF LogStepOK, Log!Next
<1> QED
    BY <1>1, <1>2, <1>3, <1>4, <1>5, <1>6 DEF Next, WriteStep

\* When files are rotated by age, in append mode, and the clock is not set
\* back, the files and the buffer are the log RecordLog describes, whatever
\* flush, rename or create fails and wherever the process dies: the records that
\* can be read from disk only ever grow, at their end and in the order they were
\* written, and a crash takes away nothing but records in memory.
THEOREM WriterImplementsLog ==
    ASSUME AgeOnly, Append_ = TRUE
    PROVE  Spec => LogSpec
<1>1. Init => LogInv /\ Log!Init
    BY LogInit
<1>2. LogInv /\ [Next]_vars => LogInv' /\ LogStepOK
    BY LogStep
<1>3. LogStepOK => [Log!Next]_(Log!vars)
    BY DEF LogStepOK, Log!vars
<1> QED
    BY <1>1, <1>2, <1>3, PTL DEF Spec, LogSpec, Log!Spec
=============================================================================
