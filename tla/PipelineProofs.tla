--------------------------- MODULE PipelineProofs ---------------------------
(***************************************************************************)
(* For any pools, capacities, faults and number of changes:                *)
(*  - every accepted update is accounted for, by the orchestrator on its   *)
(*    own and in the program of main.rs;                                   *)
(*  - both implement SnapshotDelivery;                                     *)
(*  - the backfilled row of a pool comes before all others.                *)
(*                                                                         *)
(* The argument is about one sequence, Line, which holds all that is on    *)
(* its way.  Most steps move an update along it and leave it unchanged;    *)
(* the others append to it, or cut a piece out of it that is lost.         *)
(***************************************************************************)
EXTENDS Pipeline, SequenceTheorems, FiniteSetTheorems, TLAPS

-----------------------------------------------------------------------------
(* Sequences of updates. *)

LEMMA Append1 ==
    ASSUME NEW S, NEW s \in Seq(S), NEW u \in S
    PROVE  /\ Append(s, u) \in Seq(S)
           /\ Len(Append(s, u)) = Len(s) + 1
           /\ Elements(Append(s, u)) = Elements(s) \cup {u}
<1>1. /\ Append(s, u) \in Seq(S)
      /\ Len(Append(s, u)) = Len(s) + 1
      /\ \A i \in 1 .. Len(s) : Append(s, u)[i] = s[i]
      /\ Append(s, u)[Len(s) + 1] = u
  BY AppendProperties
<1>2. Len(s) \in Nat
  BY LenProperties
<1>3. DOMAIN s = 1 .. Len(s) /\ DOMAIN Append(s, u) = 1 .. Len(s) + 1
  BY <1>1, LenProperties
<1>4. Elements(Append(s, u)) \subseteq Elements(s) \cup {u}
  BY <1>1, <1>2, <1>3 DEF Elements
<1>5. Elements(s) \cup {u} \subseteq Elements(Append(s, u))
  BY <1>1, <1>2, <1>3 DEF Elements
<1> QED
  BY <1>1, <1>4, <1>5

LEMMA Concat1 ==
    ASSUME NEW S, NEW s \in Seq(S), NEW t \in Seq(S)
    PROVE  /\ s \o t \in Seq(S)
           /\ Elements(s \o t) = Elements(s) \cup Elements(t)
<1>1. /\ s \o t \in Seq(S)
      /\ Len(s \o t) = Len(s) + Len(t)
      /\ \A i \in 1 .. Len(s) + Len(t) :
            (s \o t)[i] = IF i <= Len(s) THEN s[i] ELSE t[i - Len(s)]
  BY ConcatProperties
<1>2. Len(s) \in Nat /\ Len(t) \in Nat
  BY LenProperties
<1>3. /\ DOMAIN s = 1 .. Len(s) /\ DOMAIN t = 1 .. Len(t)
      /\ DOMAIN (s \o t) = 1 .. Len(s) + Len(t)
  BY <1>1, LenProperties
<1>4. ASSUME NEW x \in Elements(s \o t) PROVE x \in Elements(s) \cup Elements(t)
  <2>1. PICK i \in 1 .. Len(s) + Len(t) : x = (s \o t)[i]
    BY <1>3, <1>4 DEF Elements
  <2>2. CASE i <= Len(s)
    BY <1>1, <1>2, <1>3, <2>1, <2>2 DEF Elements
  <2>3. CASE ~ (i <= Len(s))
    <3>1. x = t[i - Len(s)] /\ i - Len(s) \in 1 .. Len(t)
      BY <1>1, <1>2, <2>1, <2>3
    <3> QED
      BY <3>1, <1>3 DEF Elements
  <2> QED
    BY <2>2, <2>3
<1>5. ASSUME NEW x \in Elements(s) PROVE x \in Elements(s \o t)
  <2>1. PICK i \in 1 .. Len(s) : x = s[i]
    BY <1>3, <1>5 DEF Elements
  <2> QED
    BY <1>1, <1>2, <1>3, <2>1 DEF Elements
<1>6. ASSUME NEW x \in Elements(t) PROVE x \in Elements(s \o t)
  <2>1. PICK i \in 1 .. Len(t) : x = t[i]
    BY <1>3, <1>6 DEF Elements
  <2>2. Len(s) + i \in 1 .. Len(s) + Len(t) /\ ~ (Len(s) + i <= Len(s))
    BY <1>2
  <2>3. (s \o t)[Len(s) + i] = t[(Len(s) + i) - Len(s)]
    BY <1>1, <2>2
  <2>4. (Len(s) + i) - Len(s) = i
    BY <1>2
  <2> QED
    BY <1>3, <2>1, <2>2, <2>3, <2>4 DEF Elements
<1> QED
  BY <1>1, <1>4, <1>5, <1>6

LEMMA Singleton ==
    ASSUME NEW S, NEW u \in S
    PROVE  <<u>> \in Seq(S) /\ Elements(<<u>>) = {u}
  BY DEF Elements

LEMMA EmptyElements == \A S : <<>> \in Seq(S) /\ Elements(<<>>) = {}
  BY DEF Elements

LEMMA ElementsType ==
    ASSUME NEW S, NEW s \in Seq(S)
    PROVE  Elements(s) \subseteq S
  BY LenProperties, ElementOfSeq DEF Elements

\* The first element goes from one sequence to the end of the one before it.
LEMMA MoveHead ==
    ASSUME NEW S, NEW s \in Seq(S), NEW t \in Seq(S), t # <<>>
    PROVE  /\ Head(t) \in S
           /\ Tail(t) \in Seq(S)
           /\ Len(Tail(t)) = Len(t) - 1
           /\ t = <<Head(t)>> \o Tail(t)
           /\ s \o t = (s \o <<Head(t)>>) \o Tail(t)
           /\ s \o t = Append(s, Head(t)) \o Tail(t)
<1>1. /\ Head(t) \in S /\ Tail(t) \in Seq(S)
      /\ Len(Tail(t)) = Len(t) - 1
      /\ \A i \in 1 .. Len(Tail(t)) : Tail(t)[i] = t[i + 1]
  BY HeadTailProperties
<1>2. <<Head(t)>> \in Seq(S)
  BY <1>1, Singleton
<1>3. t = <<Head(t)>> \o Tail(t)
  <2>1. Len(t) \in Nat \ {0}
    BY EmptySeq
  <2>2. Len(<<Head(t)>>) = 1 /\ <<Head(t)>>[1] = Head(t)
    OBVIOUS
  <2>3. Len(<<Head(t)>> \o Tail(t)) = Len(t)
    BY <1>1, <1>2, <2>1, <2>2, ConcatProperties
  <2>4. ASSUME NEW i \in 1 .. Len(t) PROVE t[i] = (<<Head(t)>> \o Tail(t))[i]
    <3>1. (<<Head(t)>> \o Tail(t))[i] =
             IF i <= 1 THEN <<Head(t)>>[i] ELSE Tail(t)[i - 1]
      BY <1>1, <1>2, <2>1, <2>2, ConcatProperties
    <3>2. CASE i = 1
      BY <3>1, <3>2, <2>2
    <3>3. CASE i # 1
      <4>1. i - 1 \in 1 .. Len(Tail(t)) /\ (i - 1) + 1 = i /\ ~ (i <= 1)
        BY <3>3, <2>1, <1>1
      <4> QED
        BY <4>1, <3>1, <1>1
    <3> QED
      BY <3>2, <3>3
  <2> QED
    BY <2>3, <2>4, <1>1, <1>2, ConcatProperties, SeqEqual
<1>4. s \o t = (s \o <<Head(t)>>) \o Tail(t)
  BY <1>1, <1>2, <1>3, ConcatAssociative
<1>5. Append(s, Head(t)) = s \o <<Head(t)>>
  BY <1>1, AppendIsConcat
<1> QED
  BY <1>1, <1>3, <1>4, <1>5

-----------------------------------------------------------------------------
(* A line of updates that are on their way, all of the updates accepted so   *)
(* far, and those given up.                                                  *)

\* The updates of the line are in the order of acceptance.
Ordered(line, acc) ==
    \A i, j \in DOMAIN line : \A k, l \in DOMAIN acc :
        acc[k] = line[i] /\ acc[l] = line[j] /\ i < j => k < l

Accounted(line, acc, gone) ==
    /\ line \in Seq(Update) /\ acc \in Seq(Update)
    /\ IsInjective(acc)
    /\ Ordered(line, acc)
    /\ Elements(line) \cup gone = Elements(acc)
    /\ Elements(line) \cap gone = {}

\* A new update joins the line at its end.
LEMMA Join ==
    ASSUME NEW line, NEW acc, NEW gone, NEW u \in Update,
           Accounted(line, acc, gone), u \notin Elements(acc)
    PROVE  Accounted(Append(line, u), Append(acc, u), gone)
<1> DEFINE line2 == Append(line, u)
           acc2 == Append(acc, u)
<1>1. line \in Seq(Update) /\ acc \in Seq(Update)
  BY DEF Accounted
<1>2. /\ line2 \in Seq(Update) /\ acc2 \in Seq(Update)
      /\ Elements(line2) = Elements(line) \cup {u}
      /\ Elements(acc2) = Elements(acc) \cup {u}
  BY <1>1, Append1
<1>3. /\ Len(line) \in Nat /\ DOMAIN line = 1 .. Len(line)
      /\ DOMAIN line2 = 1 .. Len(line) + 1
      /\ \A i \in 1 .. Len(line) : line2[i] = line[i] /\ line[i] \in Elements(line)
      /\ line2[Len(line) + 1] = u
  BY <1>1, AppendProperties, LenProperties DEF Elements
<1>4. /\ Len(acc) \in Nat /\ DOMAIN acc = 1 .. Len(acc)
      /\ DOMAIN acc2 = 1 .. Len(acc) + 1
      /\ \A i \in 1 .. Len(acc) : acc2[i] = acc[i] /\ acc[i] \in Elements(acc)
      /\ acc2[Len(acc) + 1] = u
  BY <1>1, AppendProperties, LenProperties DEF Elements
<1>5. Elements(line) \subseteq Elements(acc) /\ u \notin gone
  BY DEF Accounted
<1> HIDE DEF line2, acc2
<1>6. IsInjective(acc2)
  BY <1>4 DEF Accounted, IsInjective
<1>7. ASSUME NEW i \in DOMAIN line2, NEW j \in DOMAIN line2,
             NEW k \in DOMAIN acc2, NEW l \in DOMAIN acc2,
             acc2[k] = line2[i], acc2[l] = line2[j], i < j
      PROVE  k < l
  <2>1. i \in 1 .. Len(line) /\ line2[i] # u
    BY <1>3, <1>5, <1>7
  <2>2. k \in 1 .. Len(acc)
    BY <1>4, <1>7, <2>1
  <2>3. CASE j = Len(line) + 1
    BY <2>2, <2>3, <1>3, <1>4, <1>5, <1>7
  <2>4. CASE j # Len(line) + 1
    <3>1. j \in 1 .. Len(line) /\ line2[j] # u
      BY <1>3, <1>5, <1>7, <2>4
    <3>2. l \in 1 .. Len(acc)
      BY <1>4, <1>7, <3>1
    <3> QED
      BY <2>1, <2>2, <3>1, <3>2, <1>3, <1>4, <1>7 DEF Accounted, Ordered
  <2> QED
    BY <2>3, <2>4
<1>8. Ordered(line2, acc2)
  BY <1>7 DEF Ordered
<1>9. /\ Elements(line2) \cup gone = Elements(acc2)
      /\ Elements(line2) \cap gone = {}
  BY <1>2, <1>5 DEF Accounted
<1> QED
  BY <1>2, <1>6, <1>8, <1>9 DEF Accounted, line2, acc2

\* A piece of the line is given up.
LEMMA Drop ==
    ASSUME NEW a \in Seq(Update), NEW m \in Seq(Update), NEW b \in Seq(Update),
           NEW acc, NEW gone, Accounted((a \o m) \o b, acc, gone)
    PROVE  Accounted(a \o b, acc, gone \cup Elements(m))
<1> DEFINE am == a \o m
           line == am \o b
           rest == a \o b
           f(q) == IF q <= Len(a) THEN q ELSE q + Len(m)
<1>1. /\ am \in Seq(Update) /\ line \in Seq(Update) /\ rest \in Seq(Update)
      /\ Elements(rest) = Elements(a) \cup Elements(b)
      /\ Elements(line) = Elements(a) \cup Elements(m) \cup Elements(b)
  <2>1. am \in Seq(Update) /\ Elements(am) = Elements(a) \cup Elements(m)
    BY Concat1
  <2>2. rest \in Seq(Update) /\ Elements(rest) = Elements(a) \cup Elements(b)
    BY Concat1
  <2> HIDE DEF am, rest
  <2>3. am \o b \in Seq(Update) /\ Elements(am \o b) = Elements(am) \cup Elements(b)
    BY <2>1, Concat1
  <2> QED
    BY <2>1, <2>2, <2>3
<1>2. Len(a) \in Nat /\ Len(m) \in Nat /\ Len(b) \in Nat
  BY LenProperties
<1>3. /\ Len(am) = Len(a) + Len(m)
      /\ \A i \in 1 .. Len(a) + Len(m) :
            am[i] = IF i <= Len(a) THEN a[i] ELSE m[i - Len(a)]
  BY ConcatProperties
<1>4. /\ Len(line) = Len(am) + Len(b)
      /\ \A i \in 1 .. Len(am) + Len(b) :
            line[i] = IF i <= Len(am) THEN am[i] ELSE b[i - Len(am)]
  BY <1>1, ConcatProperties
<1>5. /\ Len(rest) = Len(a) + Len(b)
      /\ \A i \in 1 .. Len(a) + Len(b) :
            rest[i] = IF i <= Len(a) THEN a[i] ELSE b[i - Len(a)]
  BY ConcatProperties
<1>6. /\ DOMAIN line = 1 .. Len(a) + Len(m) + Len(b)
      /\ DOMAIN rest = 1 .. Len(a) + Len(b)
      /\ DOMAIN m = 1 .. Len(m)
  BY <1>1, <1>2, <1>3, <1>4, <1>5, LenProperties
<1>7. Accounted(line, acc, gone)
  OBVIOUS
<1> HIDE DEF am, line, rest
<1>8. ASSUME NEW q \in DOMAIN rest
      PROVE  f(q) \in DOMAIN line /\ line[f(q)] = rest[q]
  <2>1. CASE q <= Len(a)
    BY <2>1, <1>2, <1>3, <1>4, <1>5, <1>6
  <2>2. CASE ~ (q <= Len(a))
    <3>1. f(q) = q + Len(m) /\ q - Len(a) \in 1 .. Len(b)
      BY <2>2, <1>2, <1>6
    <3>2. f(q) \in 1 .. Len(am) + Len(b) /\ ~ (f(q) <= Len(am))
      BY <3>1, <2>2, <1>2, <1>3, <1>6
    <3>3. f(q) - Len(am) = q - Len(a)
      BY <3>1, <1>2, <1>3, <1>6
    <3>4. line[f(q)] = b[q - Len(a)]
      BY <3>2, <3>3, <1>4
    <3>5. rest[q] = b[q - Len(a)]
      BY <2>2, <1>5, <1>6
    <3> QED
      BY <3>1, <3>2, <3>4, <3>5, <1>2, <1>3, <1>6
  <2> QED
    BY <2>1, <2>2
<1>9. ASSUME NEW p \in DOMAIN m
      PROVE  Len(a) + p \in DOMAIN line /\ line[Len(a) + p] = m[p]
  <2>1. Len(a) + p \in 1 .. Len(am) /\ ~ (Len(a) + p <= Len(a))
    BY <1>2, <1>3, <1>6
  <2>2. line[Len(a) + p] = am[Len(a) + p]
    BY <2>1, <1>2, <1>3, <1>4
  <2>3. am[Len(a) + p] = m[(Len(a) + p) - Len(a)] /\ (Len(a) + p) - Len(a) = p
    BY <2>1, <1>2, <1>3, <1>6
  <2> QED
    BY <2>1, <2>2, <2>3, <1>2, <1>3, <1>6
<1>10. ASSUME NEW q \in DOMAIN rest, NEW p \in DOMAIN m PROVE rest[q] # m[p]
  <2>1. SUFFICES ASSUME rest[q] = m[p] PROVE FALSE
    OBVIOUS
  <2>2. PICK k \in DOMAIN acc : acc[k] = m[p]
    <3>1. m[p] \in Elements(m)
      BY DEF Elements
    <3>2. m[p] \in Elements(acc)
      BY <3>1, <1>1, <1>7 DEF Accounted
    <3> QED
      BY <3>2 DEF Elements
  <2>3. f(q) # Len(a) + p
    BY <1>2, <1>6
  <2>4. f(q) \in Nat /\ Len(a) + p \in Nat
    BY <1>2, <1>6
  <2>5. k \in Nat
    BY <1>7, LenProperties DEF Accounted
  <2> HIDE DEF f
  <2>6. f(q) < Len(a) + p \/ Len(a) + p < f(q)
    BY <2>3, <2>4
  <2>7. k < k
    BY <2>1, <2>2, <2>6, <1>7, <1>8, <1>9 DEF Accounted, Ordered
  <2> QED
    BY <2>5, <2>7
<1>11. ASSUME NEW i \in DOMAIN rest, NEW j \in DOMAIN rest,
              NEW k \in DOMAIN acc, NEW l \in DOMAIN acc,
              acc[k] = rest[i], acc[l] = rest[j], i < j
       PROVE  k < l
  <2>1. f(i) < f(j)
    BY <1>2, <1>6, <1>11
  <2> HIDE DEF f
  <2> QED
    BY <2>1, <1>7, <1>8, <1>11 DEF Accounted, Ordered
<1>12. Elements(rest) \cap Elements(m) = {}
  BY <1>10 DEF Elements
<1>13. /\ Elements(rest) \cup (gone \cup Elements(m)) = Elements(acc)
       /\ Elements(rest) \cap (gone \cup Elements(m)) = {}
  BY <1>1, <1>7, <1>12 DEF Accounted
<1>14. Ordered(rest, acc)
  BY <1>11 DEF Ordered
<1>15. acc \in Seq(Update) /\ IsInjective(acc)
  BY <1>7 DEF Accounted
<1> QED
  BY <1>1, <1>13, <1>14, <1>15 DEF Accounted, rest

\* An injective sequence has as many elements as its length.
LEMMA InjectiveLength ==
    ASSUME NEW S, NEW s \in Seq(S), IsInjective(s)
    PROVE  Len(s) = Cardinality(Elements(s))
<1>1. Len(s) \in Nat /\ DOMAIN s = 1 .. Len(s) /\ s \in [1 .. Len(s) -> S]
  BY LenProperties
<1>2. s \in [1 .. Len(s) -> Elements(s)]
  BY <1>1 DEF Elements
<1>3. s \in Bijection(1 .. Len(s), Elements(s))
  BY <1>1, <1>2 DEF Bijection, Injection, Surjection, IsInjective, Elements
<1>4. ExistsBijection(1 .. Len(s), Elements(s))
  BY <1>3 DEF ExistsBijection
<1> QED
  BY <1>1, <1>4, FS_CountingElements

\* What is accounted for has one place each and keeps its order.
LEMMA AccountedIsSafe ==
    ASSUME Accounted(Line, accepted, lost)
    PROVE  NoOvertaking /\ OneFate
<1>1. /\ Line \in Seq(Update) /\ accepted \in Seq(Update)
      /\ Ordered(Line, accepted)
      /\ Elements(Line) \cup lost = Elements(accepted)
      /\ Elements(Line) \cap lost = {}
  BY DEF Accounted
<1>2. DOMAIN Line = 1 .. Len(Line) /\ Len(Line) \in Nat
      /\ DOMAIN accepted = 1 .. Len(accepted) /\ Len(accepted) \in Nat
  BY <1>1, LenProperties
<1>3. \A i \in DOMAIN Line :
         Ticket(Line[i]) \in DOMAIN accepted /\ accepted[Ticket(Line[i])] = Line[i]
  <2>1. TAKE i \in DOMAIN Line
  <2>2. Line[i] \in Elements(Line)
    BY DEF Elements
  <2>3. Line[i] \in Elements(accepted)
    BY <2>2, <1>1
  <2>4. \E k \in DOMAIN accepted : accepted[k] = Line[i]
    BY <2>3 DEF Elements
  <2> QED
    BY <2>4 DEF Ticket
<1>4. NoOvertaking
  BY <1>1, <1>3 DEF NoOvertaking, Ordered
<1>5. IsInjective(Line)
  <2>1. SUFFICES ASSUME NEW i \in DOMAIN Line, NEW j \in DOMAIN Line,
                        Line[i] = Line[j], i # j
                 PROVE  FALSE
    BY DEF IsInjective
  <2>2. i \in Nat /\ j \in Nat
    BY <1>2
  <2>3. i < j \/ j < i
    BY <2>1, <2>2
  <2>4. Ticket(Line[i]) < Ticket(Line[i])
    BY <2>1, <2>3, <1>4 DEF NoOvertaking
  <2>5. Ticket(Line[i]) \in Nat
    BY <1>2, <1>3
  <2> QED
    BY <2>4, <2>5
<1>6. Len(Line) = Cardinality(Elements(Line))
  BY <1>1, <1>5, InjectiveLength
<1> QED
  BY <1>1, <1>4, <1>6 DEF OneFate

-----------------------------------------------------------------------------
(* The line of the orchestrator. *)

\* What a task has in hand.
Held(u) == IF u = None THEN <<>> ELSE <<u>>

\* All of the line that is not in a file yet.
Behind == Held(rec) \o (snapshots \o (Held(cur) \o queue))

LEMMA HeldType ==
    ASSUME NEW u \in Update \cup {None}
    PROVE  Held(u) \in Seq(Update) /\ Elements(Held(u)) = {u} \ {None}
<1>1. CASE u = None
  BY <1>1, EmptyElements DEF Held
<1>2. CASE u # None
  <2>1. u \in Update /\ Held(u) = <<u>>
    BY <1>2 DEF Held
  <2> QED
    BY <1>2, <2>1, Singleton
<1> QED
  BY <1>1, <1>2

\* The line from its end and from its beginning.
LEMMA LineForms ==
    ASSUME TypeOK
    PROVE  /\ Line = (((rows \o Held(rec)) \o snapshots) \o Held(cur)) \o queue
           /\ Line = rows \o Behind
           /\ Line = (rows \o Held(rec)) \o ((snapshots \o Held(cur)) \o queue)
           /\ Line = ((rows \o Held(rec)) \o snapshots) \o (Held(cur) \o queue)
           /\ Behind \in Seq(Update)
           /\ Elements(Behind) = ({rec} \ {None}) \cup Elements(snapshots)
                                 \cup ({cur} \ {None}) \cup Elements(queue)
<1> DEFINE R == Held(rec)
           C == Held(cur)
<1>1. /\ rows \in Seq(Update) /\ snapshots \in Seq(Update) /\ queue \in Seq(Update)
      /\ cur \in Update \cup {None} /\ rec \in Update \cup {None}
  BY DEF TypeOK
<1>2. /\ R \in Seq(Update) /\ C \in Seq(Update)
      /\ Elements(R) = {rec} \ {None} /\ Elements(C) = {cur} \ {None}
  BY <1>1, HeldType
<1>3. Line = (((rows \o R) \o snapshots) \o C) \o queue
  BY DEF Line, Held
<1> HIDE DEF R, C
<1> DEFINE CQ == C \o queue
           SCQ == snapshots \o CQ
           RSCQ == R \o SCQ
           SC == snapshots \o C
           A == rows \o R
           AS == A \o snapshots
<1>4. CQ \in Seq(Update) /\ Elements(CQ) = Elements(C) \cup Elements(queue)
  BY <1>1, <1>2, Concat1
<1>5. SC \in Seq(Update) /\ A \in Seq(Update)
  BY <1>1, <1>2, Concat1
<1>6. SC \o queue = SCQ
  BY <1>1, <1>2, ConcatAssociative
<1>7. Line = (AS \o C) \o queue
  BY <1>3
<1> HIDE DEF CQ, A
<1>8. SCQ \in Seq(Update) /\ Elements(SCQ) = Elements(snapshots) \cup Elements(CQ)
  BY <1>1, <1>4, Concat1
<1>9. AS \in Seq(Update)
  BY <1>1, <1>5, Concat1
<1>10. AS \o CQ = A \o SCQ
  BY <1>1, <1>4, <1>5, ConcatAssociative
<1> HIDE DEF SCQ, AS
<1>11. RSCQ \in Seq(Update) /\ Elements(RSCQ) = Elements(R) \cup Elements(SCQ)
  BY <1>2, <1>8, Concat1
<1>12. (AS \o C) \o queue = AS \o CQ
  BY <1>1, <1>2, <1>9, ConcatAssociative DEF CQ
<1>13. A \o SCQ = rows \o RSCQ
  BY <1>1, <1>2, <1>8, ConcatAssociative DEF A
<1>14. Line = rows \o RSCQ /\ Line = A \o SCQ /\ Line = AS \o CQ
  BY <1>7, <1>10, <1>12, <1>13
<1>15. Elements(RSCQ) = Elements(R) \cup Elements(snapshots) \cup Elements(C) \cup Elements(queue)
  BY <1>4, <1>8, <1>11
<1>16. Behind = RSCQ
  BY DEF Behind, R, C, SCQ, CQ
<1> QED
  BY <1>2, <1>6, <1>7, <1>11, <1>14, <1>15, <1>16 DEF R, C, A, AS, CQ, SCQ

\* The line as its parts make it, in this state and in the next.
LEMMA LineOfParts ==
    /\ Line = (((rows \o Held(rec)) \o snapshots) \o Held(cur)) \o queue
    /\ Line' = (((rows' \o Held(rec')) \o snapshots') \o Held(cur')) \o queue'
  BY DEF Line, Held

-----------------------------------------------------------------------------
(* The steps of the orchestrator. *)

\* What the proofs keep: the channels and tasks are well formed, the line is
\* accounted for, and without a fault nothing of a configured pool is lost.
OInv == TypeOK /\ Accounted(Line, accepted, lost) /\ OnlyFaultsLose

LEMMA OInvIsSafe == OInv => UpdatesAccounted
  BY AccountedIsSafe DEF OInv, UpdatesAccounted

LEMMA InitOInv == OrchestratorInit => OInv
<1> SUFFICES ASSUME OrchestratorInit PROVE OInv
  OBVIOUS
<1>1. TypeOK
  <2>1. /\ <<>> \in Seq(Update) /\ Len(<<>>) = 0
        /\ 0 <= QueueCap /\ 0 <= SnapCap
    BY EmptyElements, OrchestratorAssumption
  <2>2. registered \in SUBSET Pools /\ Configured \subseteq registered
    BY OrchestratorAssumption DEF OrchestratorInit
  <2> QED
    BY <2>1, <2>2, NoneAssumption DEF TypeOK, OrchestratorInit
<1>2. Line = <<>>
  BY DEF Line, OrchestratorInit
<1>3. Accounted(Line, accepted, lost)
  BY <1>2, EmptyElements DEF Accounted, Ordered, IsInjective, OrchestratorInit
<1> QED
  BY <1>1, <1>3 DEF OInv, OnlyFaultsLose, OrchestratorInit

\* A step that changes only registered, the writers, the faults or the step of
\* a task leaves the line as it is.
LEMMA LineKept ==
    ASSUME Accounted(Line, accepted, lost), Line' = Line,
           UNCHANGED <<accepted, lost>>
    PROVE  Accounted(Line, accepted, lost)'
<1>1. Accounted(Line', accepted', lost') = Accounted(Line, accepted, lost)
  OBVIOUS
<1> QED
  BY <1>1 DEF Accounted

LEMMA SendKeeps ==
    ASSUME OInv, NEW u \in Update, u \notin Elements(accepted), Send(u)
    PROVE  OInv'
<1> DEFINE X == ((rows \o Held(rec)) \o snapshots) \o Held(cur)
<1>1. /\ rows \in Seq(Update) /\ snapshots \in Seq(Update) /\ queue \in Seq(Update)
      /\ accepted \in Seq(Update) /\ Len(queue) < QueueCap
      /\ cur \in Update \cup {None} /\ rec \in Update \cup {None}
  BY DEF OInv, TypeOK, Send, HasRoom
<1>2. queue' = Append(queue, u) /\ accepted' = Append(accepted, u)
      /\ UNCHANGED <<registered, receiver, snapshots, writer, rows, lost, faulted>>
  BY DEF Send
<1>3. /\ queue' \in Seq(Update) /\ Len(queue') = Len(queue) + 1
      /\ accepted' \in Seq(Update)
  BY <1>1, <1>2, Append1
<1>4. Len(queue) \in Nat /\ QueueCap \in Nat
  BY <1>1, LenProperties, OrchestratorAssumption
<1>5. TypeOK'
  BY <1>1, <1>2, <1>3, <1>4 DEF OInv, TypeOK, receiver, writer
<1>6. X \in Seq(Update)
  BY <1>1, HeldType, Concat1
<1>7. Line = X \o queue /\ Line' = X \o queue'
  BY <1>2, LineOfParts DEF receiver, writer
<1> HIDE DEF X
<1>8. Line' = Append(Line, u)
  <2>1. Append(queue, u) = queue \o <<u>> /\ <<u>> \in Seq(Update)
    BY <1>1, AppendIsConcat, Singleton
  <2>2. X \o (queue \o <<u>>) = (X \o queue) \o <<u>>
    BY <1>1, <1>6, <2>1, ConcatAssociative
  <2>3. X \o queue \in Seq(Update)
    BY <1>1, <1>6, Concat1
  <2>4. (X \o queue) \o <<u>> = Append(X \o queue, u)
    BY <2>3, AppendIsConcat
  <2> QED
    BY <1>2, <1>7, <2>1, <2>2, <2>4
<1>9. Accounted(Append(Line, u), Append(accepted, u), lost)
  BY Join DEF OInv
<1>10. Accounted(Line', accepted', lost')
  BY <1>2, <1>8, <1>9
<1>11. OnlyFaultsLose'
  BY <1>2 DEF OInv, OnlyFaultsLose
<1> QED
  BY <1>5, <1>10, <1>11 DEF OInv, Accounted

LEMMA RegisterKeeps ==
    ASSUME OInv, NEW p \in Pools, RegisterPool(p)
    PROVE  OInv'
<1>1. UNCHANGED <<queue, receiver, snapshots, writer, rows, lost, accepted, faulted>>
      /\ registered' = registered \cup {p}
  BY DEF RegisterPool
<1>2. TypeOK'
  BY <1>1 DEF OInv, TypeOK, receiver, writer
<1>3. Line' = Line
  BY <1>1 DEF Line, receiver, writer
<1>4. Accounted(Line, accepted, lost)'
  BY <1>1, <1>3, LineKept DEF OInv
<1> QED
  BY <1>1, <1>2, <1>4 DEF OInv, OnlyFaultsLose

\* The update of the receiver is given up.
LEMMA GiveUpKeeps ==
    ASSUME OInv, cur # None, GiveUp, faulted' \in BOOLEAN,
           cur.pool \in Configured => faulted', faulted => faulted'
    PROVE  OInv'
<1> DEFINE X == (rows \o Held(rec)) \o snapshots
<1>1. /\ rows \in Seq(Update) /\ snapshots \in Seq(Update) /\ queue \in Seq(Update)
      /\ cur \in Update /\ rec \in Update \cup {None}
  BY DEF OInv, TypeOK
<1>2. /\ lost' = lost \cup {cur} /\ cur' = None /\ pc' = "recv"
      /\ UNCHANGED <<registered, queue, snapshots, writer, rows, accepted>>
  BY DEF GiveUp
<1>3. TypeOK'
  BY <1>1, <1>2 DEF OInv, TypeOK, writer
<1>4. X \in Seq(Update) /\ X \o <<>> = X
  BY <1>1, HeldType, Concat1, ConcatEmptySeq
<1>5. Line = (X \o <<cur>>) \o queue /\ Line' = (X \o <<>>) \o queue
  BY <1>1, <1>2, NoneAssumption, LineOfParts DEF Held, writer
<1> HIDE DEF X
<1>6. <<cur>> \in Seq(Update) /\ Elements(<<cur>>) = {cur}
  BY <1>1, Singleton
<1>7. Accounted((X \o <<cur>>) \o queue, accepted, lost)
  BY <1>5 DEF OInv
<1>8. Accounted(X \o queue, accepted, lost \cup {cur})
  BY <1>1, <1>4, <1>6, <1>7, Drop
<1>9. Accounted(Line', accepted', lost')
  BY <1>2, <1>4, <1>5, <1>8
<1>10. OnlyFaultsLose'
  BY <1>2 DEF OInv, OnlyFaultsLose
<1> QED
  BY <1>3, <1>9, <1>10 DEF OInv, Accounted

LEMMA ReceiveKeeps == OInv /\ Receive => OInv'
<1> SUFFICES ASSUME OInv, Receive PROVE OInv'
  OBVIOUS
<1> DEFINE X == (rows \o Held(rec)) \o snapshots
<1>1. /\ rows \in Seq(Update) /\ snapshots \in Seq(Update) /\ queue \in Seq(Update)
      /\ rec \in Update \cup {None} /\ cur = None /\ queue # <<>>
      /\ Len(queue) <= QueueCap
  BY DEF OInv, TypeOK, Receive
<1>2. /\ cur' = Head(queue) /\ queue' = Tail(queue) /\ pc' = "lookup"
      /\ UNCHANGED <<registered, snapshots, writer, rows, lost, accepted, faulted>>
  BY DEF Receive
<1>3. X \in Seq(Update) /\ X \o <<>> = X
  BY <1>1, HeldType, Concat1, ConcatEmptySeq
<1>4. /\ Head(queue) \in Update /\ Tail(queue) \in Seq(Update)
      /\ Len(Tail(queue)) = Len(queue) - 1
  BY <1>1, HeadTailProperties
<1>5. Len(queue) \in Nat /\ QueueCap \in Nat
  BY <1>1, LenProperties, OrchestratorAssumption
<1>6. TypeOK'
  BY <1>1, <1>2, <1>4, <1>5, NoneAssumption DEF OInv, TypeOK, writer
<1>7. Line = (X \o <<>>) \o queue /\ Line' = (X \o <<Head(queue)>>) \o Tail(queue)
  BY <1>1, <1>2, <1>4, NoneAssumption, LineOfParts DEF Held, writer
<1> HIDE DEF X
<1>8. X \o queue = (X \o <<Head(queue)>>) \o Tail(queue)
  BY <1>1, <1>3, MoveHead
<1>9. Line' = Line
  BY <1>3, <1>7, <1>8
<1>10. Accounted(Line, accepted, lost)'
  BY <1>2, <1>9, LineKept DEF OInv
<1> QED
  BY <1>2, <1>6, <1>10 DEF OInv, OnlyFaultsLose

LEMMA SendSnapshotKeeps == OInv /\ SendSnapshot => OInv'
<1> SUFFICES ASSUME OInv, SendSnapshot PROVE OInv'
  OBVIOUS
<1> DEFINE X == rows \o Held(rec)
<1>1. /\ rows \in Seq(Update) /\ snapshots \in Seq(Update) /\ queue \in Seq(Update)
      /\ rec \in Update \cup {None} /\ cur \in Update
      /\ Len(snapshots) < SnapCap
  BY DEF OInv, TypeOK, SendSnapshot
<1>2. /\ snapshots' = Append(snapshots, cur) /\ cur' = None /\ pc' = "recv"
      /\ UNCHANGED <<registered, queue, writer, rows, lost, accepted, faulted>>
  BY DEF SendSnapshot
<1>3. X \in Seq(Update)
  BY <1>1, HeldType, Concat1
<1>4. /\ snapshots' \in Seq(Update) /\ Len(snapshots') = Len(snapshots) + 1
      /\ snapshots' = snapshots \o <<cur>> /\ <<cur>> \in Seq(Update)
  BY <1>1, <1>2, Append1, AppendIsConcat, Singleton
<1>5. Len(snapshots) \in Nat /\ SnapCap \in Nat
  BY <1>1, LenProperties, OrchestratorAssumption
<1>6. TypeOK'
  BY <1>1, <1>2, <1>4, <1>5 DEF OInv, TypeOK, writer
<1>7. Line = ((X \o snapshots) \o <<cur>>) \o queue
      /\ Line' = ((X \o snapshots') \o <<>>) \o queue
  BY <1>1, <1>2, NoneAssumption, LineOfParts DEF Held, writer
<1> HIDE DEF X
<1>8. (X \o snapshots) \o <<cur>> = X \o snapshots'
  BY <1>1, <1>3, <1>4, ConcatAssociative
<1>9. (X \o snapshots') \o <<>> = X \o snapshots'
  BY <1>3, <1>4, Concat1, ConcatEmptySeq
<1>10. Line' = Line
  BY <1>7, <1>8, <1>9
<1>11. Accounted(Line, accepted, lost)'
  BY <1>2, <1>10, LineKept DEF OInv
<1> QED
  BY <1>2, <1>6, <1>11 DEF OInv, OnlyFaultsLose

\* The steps of the receiver that only move on.
LEMMA GoOnKeeps ==
    ASSUME OInv, cur # None,
           NEW step \in {"coin", "pc", "enrich", "send"}, GoOn(step)
    PROVE  OInv'
<1>1. pc' = step
      /\ UNCHANGED <<registered, queue, cur, snapshots, writer, rows, lost, accepted, faulted>>
  BY DEF GoOn
<1>2. TypeOK'
  BY <1>1 DEF OInv, TypeOK, writer
<1>3. Line' = Line
  BY <1>1 DEF Line, writer
<1>4. Accounted(Line, accepted, lost)'
  BY <1>1, <1>3, LineKept DEF OInv
<1> QED
  BY <1>1, <1>2, <1>4 DEF OInv, OnlyFaultsLose

LEMMA ReceiverKeeps == OInv /\ ReceiverStep => OInv'
<1> SUFFICES ASSUME OInv, ReceiverStep PROVE OInv'
  OBVIOUS
<1>1. faulted \in BOOLEAN /\ Configured \subseteq registered
      /\ (pc \notin {"recv", "aborted"} => cur # None)
  BY DEF OInv, TypeOK
<1>2. CASE Receive
  BY <1>2, ReceiveKeeps
<1>3. CASE LookupFails
  <2>1. cur # None /\ GiveUp /\ faulted' = faulted /\ cur.pool \notin Configured
    BY <1>1, <1>3 DEF LookupFails
  <2> QED
    BY <1>1, <2>1, GiveUpKeeps
<1>4. CASE DecodeFails
  <2>1. cur # None /\ GiveUp /\ faulted' = TRUE
    BY <1>1, <1>4 DEF DecodeFails
  <2> QED
    BY <2>1, GiveUpKeeps
<1>5. CASE Decode
  BY <1>1, <1>5, GoOnKeeps DEF Decode
<1>6. CASE FetchVault
  BY <1>1, <1>6, GoOnKeeps DEF FetchVault
<1>7. CASE FetchFails
  <2>1. cur # None /\ GiveUp /\ faulted' = TRUE
    BY <1>1, <1>7 DEF FetchFails
  <2> QED
    BY <2>1, GiveUpKeeps
<1>8. CASE Enrich \/ EnrichFails
  BY <1>1, <1>8, GoOnKeeps DEF Enrich, EnrichFails
<1>9. CASE SendSnapshot
  BY <1>9, SendSnapshotKeeps
<1> QED
  BY <1>2, <1>3, <1>4, <1>5, <1>6, <1>7, <1>8, <1>9 DEF ReceiverStep

LEMMA AbortKeeps == OInv /\ Abort => OInv'
<1> SUFFICES ASSUME OInv, Abort PROVE OInv'
  OBVIOUS
<1> DEFINE X == (rows \o Held(rec)) \o snapshots
           M == Held(cur) \o queue
<1>1. /\ rows \in Seq(Update) /\ snapshots \in Seq(Update) /\ queue \in Seq(Update)
      /\ cur \in Update \cup {None} /\ rec \in Update \cup {None}
      /\ QueueCap \in Nat
  BY OrchestratorAssumption DEF OInv, TypeOK
<1>2. /\ pc' = "aborted" /\ cur' = None /\ queue' = <<>> /\ faulted' = TRUE
      /\ lost' = lost \cup Elements(queue) \cup ({cur} \ {None})
      /\ UNCHANGED <<registered, snapshots, writer, rows, accepted>>
  BY DEF Abort
<1>3. X \in Seq(Update) /\ <<>> \in Seq(Update) /\ Len(<<>>) = 0
  BY <1>1, HeldType, Concat1, EmptyElements
<1>4. M \in Seq(Update) /\ Elements(M) = ({cur} \ {None}) \cup Elements(queue)
  BY <1>1, HeldType, Concat1
<1>5. lost \in SUBSET Update /\ lost' \in SUBSET Update
  BY <1>1, <1>2, ElementsType DEF OInv, TypeOK
<1>6. TypeOK'
  BY <1>1, <1>2, <1>3, <1>5 DEF OInv, TypeOK, writer
<1>7. Line = X \o M /\ Line' = (X \o <<>>) \o <<>>
  BY <1>1, <1>2, LineForms, LineOfParts DEF OInv, Held, writer
<1> HIDE DEF X, M
<1>8. X \o <<>> = X /\ X \o M \in Seq(Update) /\ (X \o M) \o <<>> = X \o M
  BY <1>3, <1>4, Concat1, ConcatEmptySeq
<1>9. Accounted((X \o M) \o <<>>, accepted, lost)
  BY <1>7, <1>8 DEF OInv
<1>10. Accounted(X \o <<>>, accepted, lost \cup Elements(M))
  BY <1>3, <1>4, <1>9, Drop
<1>11. lost \cup Elements(M) = lost'
  BY <1>2, <1>4
<1>12. Accounted(Line', accepted', lost')
  BY <1>2, <1>7, <1>8, <1>10, <1>11
<1>13. OnlyFaultsLose'
  BY <1>2 DEF OnlyFaultsLose
<1> QED
  BY <1>6, <1>12, <1>13 DEF OInv, Accounted

LEMMA WriterReceivesKeeps == OInv /\ WriterReceives => OInv'
<1> SUFFICES ASSUME OInv, WriterReceives PROVE OInv'
  OBVIOUS
<1>1. /\ rows \in Seq(Update) /\ snapshots \in Seq(Update) /\ queue \in Seq(Update)
      /\ cur \in Update \cup {None} /\ rec = None /\ snapshots # <<>>
      /\ Len(snapshots) <= SnapCap
  BY DEF OInv, TypeOK, WriterReceives
<1>2. /\ rec' = Head(snapshots) /\ snapshots' = Tail(snapshots) /\ wpc' = "write"
      /\ UNCHANGED <<registered, queue, receiver, writers, rows, lost, accepted, faulted>>
  BY DEF WriterReceives
<1>3. /\ Head(snapshots) \in Update /\ Tail(snapshots) \in Seq(Update)
      /\ Len(Tail(snapshots)) = Len(snapshots) - 1
      /\ rows \o snapshots = (rows \o <<Head(snapshots)>>) \o Tail(snapshots)
      /\ rows \o <<>> = rows
  BY <1>1, MoveHead, ConcatEmptySeq
<1>4. Len(snapshots) \in Nat /\ SnapCap \in Nat
  BY <1>1, LenProperties, OrchestratorAssumption
<1>5. TypeOK'
  BY <1>1, <1>2, <1>3, <1>4, NoneAssumption DEF OInv, TypeOK, receiver
<1>6. /\ Line = (((rows \o <<>>) \o snapshots) \o Held(cur)) \o queue
      /\ Line' = (((rows \o <<Head(snapshots)>>) \o Tail(snapshots)) \o Held(cur)) \o queue
  BY <1>1, <1>2, <1>3, NoneAssumption, LineOfParts DEF Held, receiver
<1>7. Line' = Line
  BY <1>3, <1>6
<1>8. Accounted(Line, accepted, lost)'
  BY <1>2, <1>7, LineKept DEF OInv
<1> QED
  BY <1>2, <1>5, <1>8 DEF OInv, OnlyFaultsLose

LEMMA WriteSnapshotKeeps == OInv /\ WriteSnapshot => OInv'
<1> SUFFICES ASSUME OInv, WriteSnapshot PROVE OInv'
  OBVIOUS
<1>1. /\ rows \in Seq(Update) /\ rec \in Update
  BY DEF OInv, TypeOK, WriteSnapshot
<1>2. /\ writers' = writers \cup {rec.pool} /\ rows' = Append(rows, rec)
      /\ rec' = None /\ wpc' = "recv"
      /\ UNCHANGED <<registered, queue, receiver, snapshots, lost, accepted, faulted>>
  BY DEF WriteSnapshot
<1>3. /\ rows' \in Seq(Update) /\ rows' = rows \o <<rec>> /\ rows' \o <<>> = rows'
      /\ rec.pool \in Pools
  BY <1>1, <1>2, Append1, AppendIsConcat, ConcatEmptySeq DEF Update
<1>4. TypeOK'
  BY <1>2, <1>3 DEF OInv, TypeOK, receiver
<1>5. /\ Line = (((rows \o <<rec>>) \o snapshots) \o Held(cur)) \o queue
      /\ Line' = (((rows' \o <<>>) \o snapshots) \o Held(cur)) \o queue
  BY <1>1, <1>2, NoneAssumption, LineOfParts DEF Held, receiver
<1>6. Line' = Line
  BY <1>3, <1>5
<1>7. Accounted(Line, accepted, lost)'
  BY <1>2, <1>6, LineKept DEF OInv
<1> QED
  BY <1>2, <1>4, <1>7 DEF OInv, OnlyFaultsLose

LEMMA WriteFailsKeeps == OInv /\ WriteFails => OInv'
<1> SUFFICES ASSUME OInv, WriteFails PROVE OInv'
  OBVIOUS
<1> DEFINE C == Held(cur)
           B == (snapshots \o C) \o queue
<1>1. /\ rows \in Seq(Update) /\ snapshots \in Seq(Update) /\ queue \in Seq(Update)
      /\ cur \in Update \cup {None} /\ rec \in Update
  BY DEF OInv, TypeOK, WriteFails
<1>2. /\ writers' \in {writers, writers \cup {rec.pool}}
      /\ lost' = lost \cup {rec} /\ faulted' = TRUE /\ rec' = None /\ wpc' = "recv"
      /\ UNCHANGED <<registered, queue, receiver, snapshots, rows, accepted>>
  BY DEF WriteFails
<1>3. rec.pool \in Pools
  BY <1>1 DEF Update
<1>4. TypeOK'
  BY <1>1, <1>2, <1>3 DEF OInv, TypeOK, receiver
<1>5. C \in Seq(Update) /\ <<rec>> \in Seq(Update) /\ Elements(<<rec>>) = {rec}
  BY <1>1, HeldType, Singleton
<1>6. /\ Line = (((rows \o <<rec>>) \o snapshots) \o C) \o queue
      /\ Line' = (((rows \o <<>>) \o snapshots) \o C) \o queue
  BY <1>1, <1>2, NoneAssumption, LineOfParts DEF Held, receiver
<1> HIDE DEF C
<1>7. B \in Seq(Update)
  BY <1>1, <1>5, Concat1
<1>8. rows \o <<rec>> \in Seq(Update) /\ rows \o <<>> = rows
  BY <1>1, <1>5, Concat1, ConcatEmptySeq
<1>9. Line = (rows \o <<rec>>) \o B /\ Line' = rows \o B
  <2> DEFINE A == rows \o <<rec>>
             SC == snapshots \o C
  <2>0. A \in Seq(Update)
    BY <1>8
  <2>1. Line = ((A \o snapshots) \o C) \o queue
    BY <1>6, <1>8
  <2>2. Line' = ((rows \o snapshots) \o C) \o queue
    BY <1>6, <1>8
  <2> HIDE DEF A
  <2>3. SC \in Seq(Update)
    BY <1>1, <1>5, Concat1
  <2>4. (A \o snapshots) \o C = A \o SC
    BY <1>1, <1>5, <2>0, ConcatAssociative
  <2>5. (rows \o snapshots) \o C = rows \o SC
    BY <1>1, <1>5, ConcatAssociative
  <2> HIDE DEF SC
  <2>6. (A \o SC) \o queue = A \o (SC \o queue)
    BY <1>1, <2>0, <2>3, ConcatAssociative
  <2>7. (rows \o SC) \o queue = rows \o (SC \o queue)
    BY <1>1, <2>3, ConcatAssociative
  <2> QED
    BY <2>1, <2>2, <2>4, <2>5, <2>6, <2>7 DEF A, SC
<1> HIDE DEF B
<1>10. Accounted((rows \o <<rec>>) \o B, accepted, lost)
  BY <1>9 DEF OInv
<1>11. Accounted(rows \o B, accepted, lost \cup {rec})
  BY <1>1, <1>5, <1>7, <1>10, Drop
<1>12. Accounted(Line', accepted', lost')
  BY <1>2, <1>9, <1>11
<1>13. OnlyFaultsLose'
  BY <1>2 DEF OnlyFaultsLose
<1> QED
  BY <1>4, <1>12, <1>13 DEF OInv, Accounted

LEMMA WriterKeeps == OInv /\ WriterStep => OInv'
<1> SUFFICES ASSUME OInv, WriterStep PROVE OInv'
  OBVIOUS
<1>1. CASE WriterEnds
  <2>1. TypeOK'
    BY <1>1 DEF OInv, TypeOK, WriterEnds, receiver
  <2>2. Line' = Line
    BY <1>1 DEF Line, WriterEnds, receiver
  <2>3. Accounted(Line, accepted, lost)'
    BY <1>1, <2>2, LineKept DEF OInv, WriterEnds
  <2> QED
    BY <1>1, <2>1, <2>3 DEF OInv, OnlyFaultsLose, WriterEnds
<1> QED
  BY <1>1, WriterReceivesKeeps, WriteSnapshotKeeps, WriteFailsKeeps DEF WriterStep

LEMMA StutterKeeps == OInv /\ UNCHANGED orchestratorVars => OInv'
<1> SUFFICES ASSUME OInv, UNCHANGED orchestratorVars PROVE OInv'
  OBVIOUS
<1>1. TypeOK'
  BY DEF OInv, TypeOK, orchestratorVars, receiver, writer
<1>2. Line' = Line
  BY DEF Line, orchestratorVars, receiver, writer
<1>3. Accounted(Line, accepted, lost)'
  BY <1>2, LineKept DEF OInv, orchestratorVars
<1> QED
  BY <1>1, <1>3 DEF OInv, OnlyFaultsLose, orchestratorVars

LEMMA NextKeeps == OInv /\ [Next]_orchestratorVars => OInv'
<1> SUFFICES ASSUME OInv, [Next]_orchestratorVars PROVE OInv'
  OBVIOUS
<1>1. CASE Submit
  BY <1>1, SendKeeps DEF Submit
<1>2. CASE Register
  BY <1>2, RegisterKeeps DEF Register
<1>3. CASE Interrupt
  BY <1>3, AbortKeeps DEF Interrupt
<1>4. CASE ReceiverStep
  BY <1>4, ReceiverKeeps
<1>5. CASE WriterStep
  BY <1>5, WriterKeeps
<1>6. CASE Idle \/ UNCHANGED orchestratorVars
  BY <1>6, StutterKeeps DEF Idle
<1> QED
  BY <1>1, <1>2, <1>3, <1>4, <1>5, <1>6 DEF Next

\* At any moment every update the channel accepted has exactly one place, in the
\* order of acceptance, or was given up, and then for a reason: two tasks, two
\* bounded channels, any of the failures, and the abort of run().
THEOREM UpdatesAccountedAlways == Spec => []UpdatesAccounted
<1>1. Spec => []OInv
  BY InitOInv, NextKeeps, PTL DEF Spec
<1> QED
  BY <1>1, OInvIsSafe, PTL

-----------------------------------------------------------------------------
(* The orchestrator implements SnapshotDelivery. *)

\* What is further back in the line was accepted later.
LEMMA Later ==
    ASSUME NEW a \in Seq(Update), NEW b \in Seq(Update), NEW acc, NEW gone,
           Accounted(a \o b, acc, gone),
           NEW k \in DOMAIN acc, NEW l \in DOMAIN acc,
           acc[k] \in Elements(a), acc[l] \in Elements(b)
    PROVE  k < l
<1> DEFINE line == a \o b
<1>1. PICK i \in DOMAIN a : acc[k] = a[i]
  BY DEF Elements
<1>2. PICK j \in DOMAIN b : acc[l] = b[j]
  BY DEF Elements
<1>3. /\ Len(a) \in Nat /\ Len(b) \in Nat
      /\ DOMAIN a = 1 .. Len(a) /\ DOMAIN b = 1 .. Len(b)
  BY LenProperties
<1>4. /\ line \in Seq(Update) /\ Len(line) = Len(a) + Len(b)
      /\ \A n \in 1 .. Len(a) + Len(b) :
            line[n] = IF n <= Len(a) THEN a[n] ELSE b[n - Len(a)]
  BY ConcatProperties
<1>5. DOMAIN line = 1 .. Len(a) + Len(b)
  BY <1>4, LenProperties
<1>6. Ordered(line, acc)
  BY DEF Accounted
<1> HIDE DEF line
<1>7. i \in DOMAIN line /\ line[i] = a[i]
  BY <1>3, <1>4, <1>5
<1>8. Len(a) + j \in DOMAIN line /\ line[Len(a) + j] = b[j]
  <2>1. Len(a) + j \in 1 .. Len(a) + Len(b) /\ ~ (Len(a) + j <= Len(a))
        /\ (Len(a) + j) - Len(a) = j
    BY <1>3
  <2> QED
    BY <2>1, <1>4, <1>5
<1>9. i < Len(a) + j
  BY <1>3
<1> QED
  BY <1>1, <1>2, <1>6, <1>7, <1>8, <1>9 DEF Ordered

\* What is behind the rows has no fate yet.
LEMMA BehindIsOpen ==
    ASSUME OInv
    PROVE  Elements(Behind) \subseteq Delivery!Open
<1>1. /\ rows \in Seq(Update) /\ Behind \in Seq(Update)
      /\ accepted \in Seq(Update)
      /\ Accounted(rows \o Behind, accepted, lost)
      /\ Elements(rows \o Behind) = Elements(rows) \cup Elements(Behind)
  <2>1. rows \in Seq(Update) /\ accepted \in Seq(Update)
    BY DEF OInv, TypeOK
  <2>2. Behind \in Seq(Update) /\ Line = rows \o Behind
    BY LineForms DEF OInv
  <2>3. Elements(rows \o Behind) = Elements(rows) \cup Elements(Behind)
    BY <2>1, <2>2, Concat1
  <2> QED
    BY <2>1, <2>2, <2>3 DEF OInv
<1>2. ASSUME NEW x \in Elements(Behind) PROVE x \in Delivery!Open
  <2>1. x \in Elements(accepted) /\ x \notin lost
    BY <1>1, <1>2 DEF Accounted
  <2>2. PICK k \in DOMAIN accepted : accepted[k] = x
    BY <2>1 DEF Elements
  <2>3. x \notin Elements(rows)
    <3>1. SUFFICES ASSUME x \in Elements(rows) PROVE FALSE
      OBVIOUS
    <3>2. k < k
      BY <1>1, <1>2, <2>2, <3>1, Later
    <3>3. k \in Nat
      BY <1>1, LenProperties
    <3> QED
      BY <3>2, <3>3
  <2> QED
    BY <2>1, <2>3 DEF Delivery!Open, Delivery!Elements, Elements
<1> QED
  BY <1>2

\* Giving up what is behind the rows is a step of the abstract specification.
LEMMA LosingIsGivingUp ==
    ASSUME OInv, UNCHANGED <<accepted, rows>>,
           lost \subseteq lost', lost' \subseteq lost \cup Elements(Behind)
    PROVE  Delivery!GiveUp
  BY BehindIsOpen DEF Delivery!GiveUp

LEMMA SendDelivers ==
    ASSUME NEW u \in Update, u \notin Elements(accepted), Send(u)
    PROVE  Delivery!Next
<1>1. Delivery!TakeIn(u)
  BY DEF Send, Delivery!TakeIn, Delivery!Elements, Elements
<1> QED
  BY <1>1 DEF Delivery!Next

LEMMA RegisterDelivers ==
    ASSUME NEW p \in Pools, RegisterPool(p)
    PROVE  UNCHANGED Delivery!vars
  BY DEF RegisterPool, Delivery!vars

LEMMA ReceiverDelivers ==
    ASSUME OInv, ReceiverStep
    PROVE  Delivery!Next
<1>1. UNCHANGED <<accepted, rows>>
  BY DEF ReceiverStep, Receive, LookupFails, DecodeFails, Decode, FetchVault, FetchFails,
         Enrich, EnrichFails, SendSnapshot, GoOn, GiveUp
<1>2. \/ lost' = lost
      \/ lost' = lost \cup {cur} /\ pc \notin {"recv", "aborted"}
  <2>1. CASE Receive \/ Decode \/ FetchVault \/ Enrich \/ EnrichFails \/ SendSnapshot
    <3>1. lost' = lost
      BY <2>1 DEF Receive, Decode, FetchVault, Enrich, EnrichFails, SendSnapshot, GoOn
    <3> QED
      BY <3>1
  <2>2. CASE LookupFails \/ DecodeFails \/ FetchFails
    <3>1. pc \in {"lookup", "coin", "pc"}
      BY <2>2 DEF LookupFails, DecodeFails, FetchFails
    <3>2. lost' = lost \cup {cur}
      BY <2>2 DEF LookupFails, DecodeFails, FetchFails, GiveUp
    <3> QED
      BY <3>1, <3>2
  <2> QED
    BY <2>1, <2>2 DEF ReceiverStep
<1>3. pc \notin {"recv", "aborted"} => cur \in Elements(Behind)
  BY LineForms DEF OInv, TypeOK
<1>4. Delivery!GiveUp
  BY <1>1, <1>2, <1>3, LosingIsGivingUp
<1> QED
  BY <1>4 DEF Delivery!Next

LEMMA WriterDelivers ==
    ASSUME OInv, WriterStep
    PROVE  Delivery!Next
<1>1. wpc = "write" => rec \in Elements(Behind) /\ rec \in Update
  BY LineForms DEF OInv, TypeOK
<1>2. CASE WriteSnapshot
  <2>1. rec \in Delivery!Open /\ rec \in Update
    BY <1>1, <1>2, BehindIsOpen DEF WriteSnapshot
  <2>2. ASSUME NEW i \in DOMAIN accepted, NEW j \in DOMAIN accepted,
               accepted[i] = rec, accepted[j] \in Elements(rows)
        PROVE  j < i
    <3>1. /\ rows \in Seq(Update) /\ Behind \in Seq(Update)
          /\ Accounted(rows \o Behind, accepted, lost)
      BY LineForms DEF OInv, TypeOK
    <3>2. accepted[i] \in Elements(Behind)
      BY <1>1, <1>2, <2>2 DEF WriteSnapshot
    <3> QED
      BY <2>2, <3>1, <3>2, Later
  <2>3. Delivery!After(rec)
    BY <2>2 DEF Delivery!After, Delivery!Elements, Elements
  <2>4. Delivery!Record(rec)
    BY <1>2, <2>1, <2>3 DEF WriteSnapshot, Delivery!Record
  <2> QED
    BY <2>1, <2>4 DEF Delivery!Next
<1>3. CASE WriterReceives \/ WriteFails \/ WriterEnds
  <2>1. UNCHANGED <<accepted, rows>>
        /\ \/ lost' = lost
           \/ lost' = lost \cup {rec} /\ wpc = "write"
    <3>1. CASE WriterReceives
      <4>1. accepted' = accepted /\ rows' = rows /\ lost' = lost
        BY <3>1 DEF WriterReceives
      <4> QED
        BY <4>1
    <3>2. CASE WriterEnds
      <4>1. accepted' = accepted /\ rows' = rows /\ lost' = lost
        BY <3>2 DEF WriterEnds
      <4> QED
        BY <4>1
    <3>3. CASE WriteFails
      BY <3>3 DEF WriteFails
    <3> QED
      BY <1>3, <3>1, <3>2, <3>3
  <2>2. Delivery!GiveUp
    BY <1>1, <2>1, LosingIsGivingUp
  <2> QED
    BY <2>2 DEF Delivery!Next
<1> QED
  BY <1>2, <1>3 DEF WriterStep

LEMMA AbortDelivers ==
    ASSUME OInv, Abort
    PROVE  Delivery!Next
<1>1. UNCHANGED <<accepted, rows>>
      /\ lost' = lost \cup Elements(queue) \cup ({cur} \ {None})
  BY DEF Abort
<1>2. Elements(queue) \cup ({cur} \ {None}) \subseteq Elements(Behind)
  BY LineForms DEF OInv
<1>3. Delivery!GiveUp
  BY <1>1, <1>2, LosingIsGivingUp
<1> QED
  BY <1>3 DEF Delivery!Next

LEMMA InitDelivers == OrchestratorInit => Delivery!Init
  BY DEF OrchestratorInit, Delivery!Init

LEMMA NextDelivers == OInv /\ [Next]_orchestratorVars => [Delivery!Next]_(Delivery!vars)
<1> SUFFICES ASSUME OInv, [Next]_orchestratorVars
             PROVE  [Delivery!Next]_(Delivery!vars)
  OBVIOUS
<1>1. CASE Submit
  BY <1>1, SendDelivers DEF Submit
<1>2. CASE Register
  BY <1>2, RegisterDelivers DEF Register
<1>3. CASE Interrupt
  BY <1>3, AbortDelivers DEF Interrupt
<1>4. CASE ReceiverStep
  BY <1>4, ReceiverDelivers
<1>5. CASE WriterStep
  BY <1>5, WriterDelivers
<1>6. CASE Idle \/ UNCHANGED orchestratorVars
  BY <1>6 DEF Idle, orchestratorVars, Delivery!vars
<1> QED
  BY <1>1, <1>2, <1>3, <1>4, <1>5, <1>6 DEF Next

\* The two tasks and the two channels of orchestrator.rs do what
\* SnapshotDelivery promises: rows are appended in the order of acceptance, and
\* an update ends as one row or is given up once and for all.
THEOREM OrchestratorDelivers == Spec => DeliverySpec
<1>1. Spec => []OInv
  BY InitOInv, NextKeeps, PTL DEF Spec
<1> QED
  BY <1>1, InitDelivers, NextDelivers, PTL DEF Spec, DeliverySpec, Delivery!Spec

-----------------------------------------------------------------------------
(* The program of main.rs. *)

\* The variables of main, of the listeners and of the tasks of the callback.
MainTypeOK ==
    /\ phase \in {"backfill", "discover", "serving", "stopping", "exited"}
    /\ backfill \in Seq(Update)
    /\ sending \in SUBSET Update
    /\ listeners \in SUBSET Pools
    /\ slot \in [Pools -> 0 .. MaxSlot]

\* What main still has to send is new, and each of it is new once.
BackfillIsNew ==
    /\ \A u \in Elements(backfill) : u.slot = 0 /\ u \notin Elements(accepted)
    /\ IsInjective(backfill)

\* Until main listens, only the backfill is sent; then nothing is left of it.
InPhase ==
    /\ phase # "backfill" => backfill = <<>>
    /\ phase \in {"backfill", "discover"} =>
          /\ sending = {} /\ listeners = {}
          /\ \A u \in Elements(accepted) : u.slot = 0

\* No update reports a change that is still to come, and what a task is about
\* to send was not accepted yet.
ChangesReported ==
    /\ \A u \in sending \cup Elements(accepted) : u.slot <= slot[u.pool]
    /\ \A u \in sending : u.slot # 0 /\ u \notin Elements(accepted)

\* The backfill was accepted before any notification.
BackfillAccepted ==
    \A i, j \in DOMAIN accepted :
        accepted[i].slot # 0 /\ accepted[j].slot = 0 => j < i

MainInv == MainTypeOK /\ BackfillIsNew /\ InPhase /\ ChangesReported /\ BackfillAccepted

PInv == OInv /\ MainInv

\* A finite set has a sequence of its elements, each once.
LEMMA SetToSeqType ==
    ASSUME NEW S, IsFiniteSet(S)
    PROVE  /\ SetToSeq(S) \in Seq(S)
           /\ IsInjective(SetToSeq(S))
<1>1. Cardinality(S) \in Nat /\ ExistsBijection(1 .. Cardinality(S), S)
  BY FS_CardinalityType
<1>2. \E f \in [1 .. Cardinality(S) -> S] : IsInjective(f)
  BY <1>1 DEF ExistsBijection, Bijection, Injection, IsInjective
<1>3. SetToSeq(S) \in [1 .. Cardinality(S) -> S] /\ IsInjective(SetToSeq(S))
  BY <1>2 DEF SetToSeq
<1>4. SetToSeq(S) \in Seq(S)
  BY <1>1, <1>3, SeqDef
<1> QED
  BY <1>3, <1>4

LEMMA FetchedIsFinite ==
    ASSUME NEW fetched \in SUBSET Configured
    PROVE  IsFiniteSet([pool : fetched, slot : {0}])
<1> DEFINE S == [pool : fetched, slot : {0}]
           f == [u \in S |-> u.pool]
<1>1. IsFiniteSet(fetched)
  BY OrchestratorAssumption, FS_Subset
<1>2. f \in [S -> fetched]
  OBVIOUS
<1>3. \A u, v \in S : f[u] = f[v] => u = v
  OBVIOUS
<1>4. f \in Injection(S, fetched)
  BY <1>2, <1>3 DEF Injection, IsInjective
<1> HIDE DEF S, f
<1> QED
  BY <1>1, <1>4, FS_Injection DEF S

LEMMA InitPInv == PipelineInit => PInv
<1> SUFFICES ASSUME PipelineInit PROVE PInv
  OBVIOUS
<1>1. OInv /\ accepted = <<>> /\ Elements(accepted) = {}
  BY InitOInv, EmptyElements DEF PipelineInit, OrchestratorInit
<1>2. PICK fetched \in SUBSET Configured : backfill = SetToSeq([pool : fetched, slot : {0}])
  BY DEF PipelineInit
<1> DEFINE S == [pool : fetched, slot : {0}]
<1>3. backfill \in Seq(S) /\ IsInjective(backfill)
  BY <1>2, FetchedIsFinite, SetToSeqType
<1>4. 0 \in 0 .. MaxSlot /\ Configured \subseteq Pools
  BY OrchestratorAssumption
<1>5. S \subseteq Update /\ \A u \in S : u.slot = 0
  BY <1>4 DEF Update
<1>6. Elements(backfill) \subseteq S
  BY <1>3, ElementsType
<1>7. backfill \in Seq(Update)
  BY <1>3, <1>5, SeqMonotonic
<1>8. /\ phase = "backfill" /\ sending = {} /\ listeners = {}
      /\ slot = [p \in Pools |-> 0]
  BY DEF PipelineInit
<1> HIDE DEF S
<1>9. MainTypeOK
  BY <1>4, <1>7, <1>8 DEF MainTypeOK
<1>10. BackfillIsNew
  BY <1>1, <1>3, <1>5, <1>6 DEF BackfillIsNew
<1>11. InPhase /\ ChangesReported /\ BackfillAccepted
  BY <1>1, <1>8 DEF InPhase, ChangesReported, BackfillAccepted
<1> QED
  BY <1>1, <1>9, <1>10, <1>11 DEF PInv, MainInv

-----------------------------------------------------------------------------
(* The steps of the program. *)

\* A step of the orchestrator that accepts nothing leaves main's part as it is.
LEMMA MainKept ==
    ASSUME MainInv, UNCHANGED <<mainVars, accepted>>
    PROVE  MainInv'
<1> USE DEF mainVars
<1>1. MainTypeOK' /\ BackfillIsNew'
  BY DEF MainInv, MainTypeOK, BackfillIsNew, IsInjective
<1>2. InPhase' /\ ChangesReported' /\ BackfillAccepted'
  BY DEF MainInv, InPhase, ChangesReported, BackfillAccepted
<1> QED
  BY <1>1, <1>2 DEF MainInv

\* What is accepted after the step, when u is sent.
LEMMA AcceptedAfter ==
    ASSUME OInv, NEW u \in Update, Send(u)
    PROVE  /\ Elements(accepted') = Elements(accepted) \cup {u}
           /\ DOMAIN accepted' = 1 .. Len(accepted) + 1
           /\ DOMAIN accepted = 1 .. Len(accepted)
           /\ Len(accepted) \in Nat
           /\ \A i \in DOMAIN accepted : accepted'[i] = accepted[i]
           /\ accepted'[Len(accepted) + 1] = u
<1>1. accepted \in Seq(Update) /\ accepted' = Append(accepted, u)
  BY DEF OInv, TypeOK, Send
<1> QED
  BY <1>1, Append1, AppendProperties, LenProperties

LEMMA SendBackfillKeeps == PInv /\ SendBackfill => PInv'
<1> SUFFICES ASSUME PInv, SendBackfill PROVE PInv'
  OBVIOUS
<1> DEFINE u == Head(backfill)
<1>1. /\ phase = "backfill" /\ backfill # <<>> /\ Send(u)
      /\ backfill' = Tail(backfill)
      /\ UNCHANGED <<phase, sending, listeners, slot>>
  BY DEF SendBackfill
<1>2. /\ backfill \in Seq(Update)
      /\ sending = {} /\ listeners = {}
      /\ \A v \in Elements(accepted) : v.slot = 0
  BY <1>1 DEF PInv, MainInv, MainTypeOK, InPhase
<1>3. /\ u \in Update /\ Tail(backfill) \in Seq(Update)
      /\ Len(Tail(backfill)) = Len(backfill) - 1
      /\ \A i \in 1 .. Len(Tail(backfill)) : Tail(backfill)[i] = backfill[i + 1]
  BY <1>1, <1>2, HeadTailProperties
<1>4. /\ Len(backfill) \in Nat \ {0}
      /\ DOMAIN backfill = 1 .. Len(backfill)
      /\ DOMAIN Tail(backfill) = 1 .. Len(backfill) - 1
      /\ u = backfill[1]
  BY <1>1, <1>2, <1>3, EmptySeq, LenProperties
<1> HIDE DEF u
<1>5. u \in Elements(backfill) /\ Elements(backfill') \subseteq Elements(backfill)
  BY <1>1, <1>3, <1>4 DEF Elements
<1>6. u.slot = 0 /\ u \notin Elements(accepted)
  BY <1>5 DEF PInv, MainInv, BackfillIsNew
<1>7. OInv'
  BY <1>1, <1>3, <1>6, SendKeeps DEF PInv
<1>8. u \notin Elements(backfill')
  <2>1. ASSUME NEW i \in 1 .. Len(backfill) - 1, Tail(backfill)[i] = u PROVE FALSE
    <3>1. i + 1 \in DOMAIN backfill /\ 1 \in DOMAIN backfill /\ backfill[i + 1] = backfill[1]
      BY <1>3, <1>4, <2>1
    <3> QED
      BY <3>1, <2>1 DEF PInv, MainInv, BackfillIsNew, IsInjective
  <2> QED
    BY <1>1, <1>4, <2>1 DEF Elements
<1>9. IsInjective(backfill')
  <2>1. ASSUME NEW i \in 1 .. Len(backfill) - 1, NEW j \in 1 .. Len(backfill) - 1,
               Tail(backfill)[i] = Tail(backfill)[j]
        PROVE  i = j
    <3>1. i + 1 \in DOMAIN backfill /\ j + 1 \in DOMAIN backfill
          /\ backfill[i + 1] = backfill[j + 1]
      BY <1>3, <1>4, <2>1
    <3>2. i + 1 = j + 1
      BY <3>1 DEF PInv, MainInv, BackfillIsNew, IsInjective
    <3> QED
      BY <3>2
  <2> QED
    BY <1>1, <1>4, <2>1 DEF IsInjective
<1>10. Elements(accepted') = Elements(accepted) \cup {u}
  BY <1>1, <1>3, AcceptedAfter DEF PInv
<1>11. BackfillIsNew'
  BY <1>5, <1>8, <1>9, <1>10 DEF PInv, MainInv, BackfillIsNew
<1>12. MainTypeOK'
  BY <1>1, <1>3 DEF PInv, MainInv, MainTypeOK
<1>13. InPhase'
  BY <1>1, <1>2, <1>6, <1>10 DEF InPhase
<1>14. ChangesReported'
  <2>1. slot \in [Pools -> 0 .. MaxSlot] /\ u.pool \in Pools
    BY <1>3 DEF PInv, MainInv, MainTypeOK, Update
  <2>2. u.slot <= slot[u.pool]
    BY <1>6, <2>1, OrchestratorAssumption
  <2> QED
    BY <1>1, <1>2, <1>10, <2>2 DEF PInv, MainInv, ChangesReported
<1>15. BackfillAccepted'
  <2>1. \A i \in DOMAIN accepted' : accepted'[i] \in Elements(accepted')
    BY DEF Elements
  <2>2. \A i \in DOMAIN accepted' : accepted'[i].slot = 0
    BY <1>2, <1>6, <1>10, <2>1
  <2> QED
    BY <2>2 DEF BackfillAccepted
<1> QED
  BY <1>7, <1>11, <1>12, <1>13, <1>14, <1>15 DEF PInv, MainInv

LEMMA SendUpdateKeeps ==
    ASSUME PInv, NEW u \in Update, SendUpdate(u)
    PROVE  PInv'
<1>1. /\ u \in sending /\ Send(u) /\ sending' = sending \ {u}
      /\ UNCHANGED <<phase, backfill, listeners, slot>>
  BY DEF SendUpdate
<1>2. /\ u.slot # 0 /\ u \notin Elements(accepted)
      /\ phase \notin {"backfill", "discover"}
      /\ u.slot <= slot[u.pool]
  BY <1>1 DEF PInv, MainInv, ChangesReported, InPhase
<1>3. OInv'
  BY <1>1, <1>2, SendKeeps DEF PInv
<1>4. /\ Elements(accepted') = Elements(accepted) \cup {u}
      /\ DOMAIN accepted' = 1 .. Len(accepted) + 1
      /\ DOMAIN accepted = 1 .. Len(accepted)
      /\ Len(accepted) \in Nat
      /\ \A i \in DOMAIN accepted : accepted'[i] = accepted[i]
      /\ accepted'[Len(accepted) + 1] = u
  BY <1>1, AcceptedAfter DEF PInv
<1>5. MainTypeOK'
  BY <1>1 DEF PInv, MainInv, MainTypeOK
<1>6. BackfillIsNew'
  BY <1>1, <1>2, <1>4 DEF PInv, MainInv, BackfillIsNew, IsInjective
<1>7. InPhase'
  BY <1>1, <1>2 DEF PInv, MainInv, InPhase
<1>8. ChangesReported'
  BY <1>1, <1>2, <1>4 DEF PInv, MainInv, ChangesReported
<1>9. BackfillAccepted'
  BY <1>2, <1>4 DEF PInv, MainInv, BackfillAccepted
<1> QED
  BY <1>3, <1>5, <1>6, <1>7, <1>8, <1>9 DEF PInv, MainInv

\* A new notification reports a change no update has reported.
LEMMA NotifyKeeps ==
    ASSUME PInv, NEW p \in Pools, Notify(p)
    PROVE  PInv'
<1> DEFINE u == [pool |-> p, slot |-> slot'[p]]
<1>1. /\ p \in listeners /\ slot[p] < MaxSlot
      /\ slot' = [slot EXCEPT ![p] = @ + 1]
      /\ sending' \in {sending, sending \cup {u}}
      /\ UNCHANGED <<orchestratorVars, phase, backfill, listeners>>
  BY DEF Notify, Changed
<1>2. OInv'
  BY <1>1, StutterKeeps DEF PInv
<1>3. /\ slot \in [Pools -> 0 .. MaxSlot] /\ slot[p] \in Nat /\ MaxSlot \in Nat
      /\ slot'[p] = slot[p] + 1
      /\ slot' \in [Pools -> 0 .. MaxSlot]
      /\ \A q \in Pools : slot[q] <= slot'[q] /\ slot[q] \in Nat /\ slot'[q] \in Nat
  BY <1>1, OrchestratorAssumption DEF PInv, MainInv, MainTypeOK
<1>4. /\ u \in Update /\ u.slot = slot[p] + 1 /\ u.pool = p
  BY <1>3 DEF Update
<1>5. accepted' = accepted /\ Elements(accepted) \subseteq Update /\ sending \subseteq Update
  BY <1>1, ElementsType DEF PInv, OInv, TypeOK, MainInv, MainTypeOK, orchestratorVars
<1>6. \A v \in sending \cup Elements(accepted) :
         v.slot \in Nat /\ v.pool \in Pools /\ v.slot <= slot[v.pool]
  BY <1>5, OrchestratorAssumption DEF PInv, MainInv, ChangesReported, Update
<1> HIDE DEF u
<1>7. u \notin Elements(accepted) /\ u.slot # 0 /\ u.slot <= slot'[u.pool]
  BY <1>3, <1>4, <1>6
<1>8. MainTypeOK'
  BY <1>1, <1>3, <1>4 DEF PInv, MainInv, MainTypeOK
<1>9. BackfillIsNew' /\ BackfillAccepted'
  BY <1>1, <1>5 DEF PInv, MainInv, BackfillIsNew, BackfillAccepted, IsInjective
<1>10. InPhase'
  BY <1>1, <1>5 DEF PInv, MainInv, InPhase
<1>11. ChangesReported'
  <2>1. ASSUME NEW v \in sending' \cup Elements(accepted')
        PROVE  v.slot <= slot'[v.pool]
    BY <1>1, <1>3, <1>5, <1>6, <1>7
  <2>2. ASSUME NEW v \in sending' PROVE v.slot # 0 /\ v \notin Elements(accepted')
    BY <1>1, <1>5, <1>7 DEF PInv, MainInv, ChangesReported
  <2> QED
    BY <2>1, <2>2 DEF ChangesReported
<1> QED
  BY <1>2, <1>8, <1>9, <1>10, <1>11 DEF PInv, MainInv

\* The process ends: all that is not in a file is lost.
LEMMA ExitLine ==
    ASSUME OInv, Exit
    PROVE  OInv' /\ Elements(queue \o snapshots) \cup ({cur, rec} \ {None}) = Elements(Behind)
<1>1. /\ rows \in Seq(Update) /\ snapshots \in Seq(Update) /\ queue \in Seq(Update)
      /\ cur \in Update \cup {None} /\ rec \in Update \cup {None}
      /\ accepted \in Seq(Update)
  BY DEF OInv, TypeOK
<1>2. /\ lost' = lost \cup ((Elements(queue \o snapshots) \cup {cur, rec}) \ {None})
      /\ pc' = "aborted" /\ cur' = None /\ queue' = <<>>
      /\ wpc' = "done" /\ rec' = None /\ snapshots' = <<>>
      /\ faulted' = TRUE
      /\ UNCHANGED <<registered, writers, rows, accepted>>
  BY DEF Exit
<1>3. Elements(queue \o snapshots) = Elements(queue) \cup Elements(snapshots)
      /\ Elements(queue) \subseteq Update /\ Elements(snapshots) \subseteq Update
  BY <1>1, Concat1, ElementsType
<1>4. /\ Behind \in Seq(Update) /\ Line = rows \o Behind
      /\ Elements(Behind) = ({rec} \ {None}) \cup Elements(snapshots)
                            \cup ({cur} \ {None}) \cup Elements(queue)
  BY LineForms DEF OInv
<1>5. lost' = lost \cup Elements(Behind)
  BY <1>2, <1>3, <1>4, NoneAssumption
<1>6. Elements(Behind) \subseteq Update
  BY <1>4, ElementsType
<1>7. TypeOK'
  <2>1. /\ <<>> \in Seq(Update) /\ Len(<<>>) = 0
        /\ 0 <= QueueCap /\ 0 <= SnapCap
    BY EmptyElements, OrchestratorAssumption
  <2>2. lost' \in SUBSET Update
    BY <1>5, <1>6 DEF OInv, TypeOK
  <2> QED
    BY <1>1, <1>2, <2>1, <2>2, NoneAssumption DEF OInv, TypeOK
<1>8. rows \o <<>> = rows
  BY <1>1, ConcatEmptySeq
<1>9. Line' = rows
  <2>1. Line' = (((rows \o <<>>) \o <<>>) \o <<>>) \o <<>>
    BY <1>2, LineOfParts DEF Held
  <2> QED
    BY <2>1, <1>8
<1>10. Accounted((rows \o Behind) \o <<>>, accepted, lost)
  <2>1. rows \o Behind \in Seq(Update)
    BY <1>1, <1>4, Concat1
  <2>2. (rows \o Behind) \o <<>> = rows \o Behind
    BY <2>1, ConcatEmptySeq
  <2> QED
    BY <1>4, <2>2 DEF OInv
<1>11. Accounted(rows \o <<>>, accepted, lost \cup Elements(Behind))
  BY <1>1, <1>4, <1>10, Drop, EmptyElements
<1>12. Accounted(Line', accepted', lost')
  BY <1>2, <1>5, <1>8, <1>9, <1>11
<1>13. OnlyFaultsLose'
  BY <1>2 DEF OnlyFaultsLose
<1> QED
  BY <1>3, <1>4, <1>7, <1>12, <1>13 DEF OInv, Accounted

LEMMA ExitKeeps == PInv /\ Exit => PInv'
<1> SUFFICES ASSUME PInv, Exit PROVE PInv'
  OBVIOUS
<1>1. /\ phase' = "exited" /\ sending' = {} /\ listeners' = {} /\ backfill' = <<>>
      /\ accepted' = accepted /\ slot' = slot
  BY DEF Exit
<1>2. OInv'
  BY ExitLine DEF PInv
<1>3. <<>> \in Seq(Update) /\ Elements(<<>>) = {} /\ IsInjective(<<>>)
  BY EmptyElements DEF IsInjective
<1>4. MainTypeOK' /\ BackfillIsNew'
  BY <1>1, <1>3 DEF PInv, MainInv, MainTypeOK, BackfillIsNew
<1>5. InPhase' /\ ChangesReported' /\ BackfillAccepted'
  BY <1>1 DEF PInv, MainInv, InPhase, ChangesReported, BackfillAccepted
<1> QED
  BY <1>2, <1>4, <1>5 DEF PInv, MainInv

\* Steps that accept nothing and change only the phase, the listeners or what
\* is waiting to be sent.
LEMMA OtherKeeps ==
    ASSUME PInv,
           \/ BackfillDone \/ Listen \/ CtrlC
           \/ \E p \in Pools : ChangeUnheard(p) \/ ListenerEnds(p)
           \/ \E u \in Update : SendRefused(u)
    PROVE  PInv'
<1> USE DEF PInv, MainInv
<1>1. UNCHANGED orchestratorVars /\ accepted' = accepted
  BY DEF BackfillDone, Listen, CtrlC, ChangeUnheard, ListenerEnds, SendRefused, orchestratorVars
<1>2. OInv'
  BY <1>1, StutterKeeps
<1>3. CASE BackfillDone \/ Listen \/ CtrlC
  <2>1. /\ UNCHANGED <<backfill, sending, slot>>
        /\ phase' \in {"discover", "serving", "stopping"}
        /\ phase = "backfill" => backfill = <<>>
        /\ listeners' \in {listeners, Configured}
        /\ phase' = "discover" => phase = "backfill" /\ listeners' = listeners
    BY <1>3 DEF BackfillDone, Listen, CtrlC
  <2>2. MainTypeOK'
    BY <2>1, OrchestratorAssumption DEF MainTypeOK
  <2>3. BackfillIsNew' /\ ChangesReported' /\ BackfillAccepted'
    BY <1>1, <2>1 DEF BackfillIsNew, ChangesReported, BackfillAccepted, IsInjective
  <2>4. InPhase'
    BY <1>1, <2>1 DEF InPhase
  <2> QED
    BY <1>2, <2>2, <2>3, <2>4
<1>4. ASSUME NEW p \in Pools, ChangeUnheard(p) PROVE PInv'
  <2>1. /\ UNCHANGED <<phase, backfill, sending, listeners>> /\ phase = "serving"
        /\ slot[p] < MaxSlot /\ slot' = [slot EXCEPT ![p] = @ + 1]
    BY <1>4 DEF ChangeUnheard, Changed
  <2>2. slot \in [Pools -> 0 .. MaxSlot] /\ MaxSlot \in Nat
    BY OrchestratorAssumption DEF MainTypeOK
  <2>3. /\ slot' \in [Pools -> 0 .. MaxSlot]
        /\ \A q \in Pools : slot[q] <= slot'[q] /\ slot[q] \in Nat /\ slot'[q] \in Nat
    BY <2>1, <2>2
  <2>4. MainTypeOK' /\ BackfillIsNew' /\ InPhase' /\ BackfillAccepted'
    BY <1>1, <2>1, <2>3
    DEF MainTypeOK, BackfillIsNew, InPhase, BackfillAccepted, IsInjective
  <2>5. ChangesReported'
    <3>1. \A v \in sending \cup Elements(accepted) : v.pool \in Pools /\ v.slot \in Nat
      <4>1. sending \subseteq Update /\ Elements(accepted) \subseteq Update
        BY ElementsType DEF OInv, TypeOK, MainTypeOK
      <4> QED
        BY <4>1, <2>2 DEF Update
    <3> QED
      BY <1>1, <2>1, <2>3, <3>1 DEF ChangesReported
  <2> QED
    BY <1>2, <2>4, <2>5
<1>5. ASSUME NEW p \in Pools, ListenerEnds(p) PROVE PInv'
  <2>1. UNCHANGED <<phase, backfill, sending, slot>> /\ listeners' = listeners \ {p}
    BY <1>5 DEF ListenerEnds
  <2>2. MainTypeOK' /\ BackfillIsNew' /\ InPhase' /\ ChangesReported' /\ BackfillAccepted'
    BY <1>1, <2>1
    DEF MainTypeOK, BackfillIsNew, InPhase, ChangesReported, BackfillAccepted, IsInjective
  <2> QED
    BY <1>2, <2>2
<1>6. ASSUME NEW u \in Update, SendRefused(u) PROVE PInv'
  <2>1. UNCHANGED <<phase, backfill, listeners, slot>> /\ sending' = sending \ {u}
    BY <1>6 DEF SendRefused
  <2>2. MainTypeOK' /\ BackfillIsNew' /\ InPhase' /\ ChangesReported' /\ BackfillAccepted'
    BY <1>1, <2>1
    DEF MainTypeOK, BackfillIsNew, InPhase, ChangesReported, BackfillAccepted, IsInjective
  <2> QED
    BY <1>2, <2>2
<1> QED
  BY <1>3, <1>4, <1>5, <1>6

LEMMA PipelineNextKeeps == PInv /\ [PipelineNext]_pipelineVars => PInv'
<1> SUFFICES ASSUME PInv, [PipelineNext]_pipelineVars PROVE PInv'
  OBVIOUS
<1>1. CASE SendBackfill
  BY <1>1, SendBackfillKeeps
<1>2. CASE \E u \in Update : SendUpdate(u)
  BY <1>2, SendUpdateKeeps
<1>3. CASE \E p \in Pools : Notify(p)
  BY <1>3, NotifyKeeps
<1>4. CASE \/ BackfillDone \/ Listen \/ CtrlC
           \/ \E p \in Pools : ChangeUnheard(p) \/ ListenerEnds(p)
           \/ \E u \in Update : SendRefused(u)
  BY <1>4, OtherKeeps
<1>5. CASE Exit
  BY <1>5, ExitKeeps
<1>6. CASE AbortOrchestrator
  <2>1. Abort /\ UNCHANGED <<mainVars, accepted>>
    BY <1>6 DEF AbortOrchestrator, Abort
  <2> QED
    BY <2>1, AbortKeeps, MainKept DEF PInv
<1>7. CASE \E p \in Pools : Discover(p)
  <2>1. PICK p \in Pools : RegisterPool(p) /\ UNCHANGED <<mainVars, accepted>>
    BY <1>7 DEF Discover, RegisterPool
  <2> QED
    BY <2>1, RegisterKeeps, MainKept DEF PInv
<1>8. CASE Receiver
  <2>1. ReceiverStep /\ UNCHANGED <<mainVars, accepted>>
    BY <1>8 DEF Receiver, ReceiverStep, Receive, LookupFails, DecodeFails, Decode, FetchVault,
               FetchFails, Enrich, EnrichFails, SendSnapshot, GoOn, GiveUp
  <2> QED
    BY <2>1, ReceiverKeeps, MainKept DEF PInv
<1>9. CASE Writer
  <2>1. WriterStep /\ UNCHANGED <<mainVars, accepted>>
    BY <1>9 DEF Writer, WriterStep, WriterReceives, WriteSnapshot, WriteFails, WriterEnds
  <2> QED
    BY <2>1, WriterKeeps, MainKept DEF PInv
<1>10. CASE Quiet \/ UNCHANGED pipelineVars
  <2>1. UNCHANGED orchestratorVars /\ UNCHANGED <<mainVars, accepted>>
    BY <1>10 DEF Quiet, pipelineVars, orchestratorVars
  <2> QED
    BY <2>1, StutterKeeps, MainKept DEF PInv
<1> QED
  BY <1>1, <1>2, <1>3, <1>4, <1>5, <1>6, <1>7, <1>8, <1>9, <1>10
  DEF PipelineNext, MainStep

LEMMA PInvIsSafe == PInv => BackfillFirst /\ UpdatesAccounted
<1> SUFFICES ASSUME PInv PROVE BackfillFirst /\ UpdatesAccounted
  OBVIOUS
<1>1. /\ rows \in Seq(Update) /\ Behind \in Seq(Update)
      /\ Line = rows \o Behind /\ accepted \in Seq(Update)
      /\ Accounted(Line, accepted, lost)
  BY LineForms DEF PInv, OInv, TypeOK
<1>2. /\ Len(rows) \in Nat /\ DOMAIN rows = 1 .. Len(rows)
      /\ DOMAIN accepted = 1 .. Len(accepted) /\ Len(accepted) \in Nat
  BY <1>1, LenProperties
<1>3. \A i \in DOMAIN rows : i \in DOMAIN Line /\ Line[i] = rows[i]
  BY <1>1, <1>2, ConcatProperties, LenProperties
<1>4. ASSUME NEW i \in DOMAIN rows, NEW j \in DOMAIN rows,
             rows[i].pool = rows[j].pool, rows[j].slot = 0
      PROVE  j <= i
  <2>1. SUFFICES ASSUME i < j PROVE FALSE
    BY <1>2
  <2>2. rows[i] \in Elements(accepted) /\ rows[j] \in Elements(accepted)
    BY <1>1, <1>3 DEF Accounted, Elements
  <2>3. PICK k \in DOMAIN accepted : accepted[k] = rows[i]
    BY <2>2 DEF Elements
  <2>4. PICK l \in DOMAIN accepted : accepted[l] = rows[j]
    BY <2>2 DEF Elements
  <2>5. k < l
    BY <1>1, <1>3, <2>1, <2>3, <2>4 DEF Accounted, Ordered
  <2>6. CASE rows[i].slot = 0
    <3>1. rows[i] \in Update /\ rows[j] \in Update
      BY <1>1, <1>2, ElementOfSeq
    <3>2. rows[i] = rows[j]
      BY <1>4, <2>6, <3>1 DEF Update
    <3>3. k = l
      BY <1>1, <2>3, <2>4, <3>2 DEF Accounted, IsInjective
    <3> QED
      BY <2>5, <3>3, <1>2
  <2>7. CASE rows[i].slot # 0
    <3>1. l < k
      BY <1>4, <2>3, <2>4, <2>7 DEF PInv, MainInv, BackfillAccepted
    <3> QED
      BY <2>5, <3>1, <1>2
  <2> QED
    BY <2>6, <2>7
<1>5. BackfillFirst
  BY <1>4 DEF BackfillFirst
<1> QED
  BY <1>5, OInvIsSafe DEF PInv

LEMMA PipelineDelivers == PInv /\ [PipelineNext]_pipelineVars => [Delivery!Next]_(Delivery!vars)
<1> SUFFICES ASSUME PInv, [PipelineNext]_pipelineVars
             PROVE  [Delivery!Next]_(Delivery!vars)
  OBVIOUS
<1>1. CASE SendBackfill
  <2>1. Send(Head(backfill)) /\ backfill # <<>>
    BY <1>1 DEF SendBackfill
  <2>2. Head(backfill) = backfill[1] /\ 1 \in DOMAIN backfill /\ Head(backfill) \in Update
    BY <2>1, EmptySeq, LenProperties, HeadTailProperties DEF PInv, MainInv, MainTypeOK
  <2>3. Head(backfill) \notin Elements(accepted)
    BY <2>2 DEF PInv, MainInv, BackfillIsNew, Elements
  <2> QED
    BY <2>1, <2>2, <2>3, SendDelivers
<1>2. CASE \E u \in Update : SendUpdate(u)
  <2>1. PICK u \in Update : u \in sending /\ Send(u)
    BY <1>2 DEF SendUpdate
  <2> QED
    BY <2>1, SendDelivers DEF PInv, MainInv, ChangesReported
<1>3. CASE Exit
  <2>1. UNCHANGED <<accepted, rows>>
        /\ lost' = lost \cup ((Elements(queue \o snapshots) \cup {cur, rec}) \ {None})
    BY <1>3 DEF Exit
  <2>2. Elements(queue \o snapshots) \cup ({cur, rec} \ {None}) = Elements(Behind)
    BY <1>3, ExitLine DEF PInv
  <2>3. lost \subseteq lost' /\ lost' \subseteq lost \cup Elements(Behind)
    BY <2>1, <2>2
  <2>4. Delivery!GiveUp
    BY <2>1, <2>3, LosingIsGivingUp DEF PInv
  <2> QED
    BY <2>4 DEF Delivery!Next
<1>4. CASE AbortOrchestrator
  BY <1>4, AbortDelivers DEF AbortOrchestrator, PInv
<1>5. CASE Receiver
  BY <1>5, ReceiverDelivers DEF Receiver, PInv
<1>6. CASE Writer
  BY <1>6, WriterDelivers DEF Writer, PInv
<1>7. CASE \E p \in Pools : Discover(p)
  BY <1>7, RegisterDelivers DEF Discover
<1>8. CASE \/ BackfillDone \/ Listen \/ CtrlC
           \/ \E p \in Pools : Notify(p) \/ ChangeUnheard(p) \/ ListenerEnds(p)
           \/ \E u \in Update : SendRefused(u)
           \/ Quiet \/ UNCHANGED pipelineVars
  <2>1. UNCHANGED orchestratorVars
    BY <1>8 DEF BackfillDone, Listen, CtrlC, Notify, ChangeUnheard, ListenerEnds,
               SendRefused, Quiet, pipelineVars
  <2> QED
    BY <2>1 DEF orchestratorVars, Delivery!vars
<1> QED
  BY <1>1, <1>2, <1>3, <1>4, <1>5, <1>6, <1>7, <1>8 DEF PipelineNext, MainStep

\* Of every pool the row of the backfill comes before every row of a
\* notification, whatever the tasks of the callback and the failures do: main
\* listens only when the channel has accepted the whole backfill.
THEOREM BackfillFirstAlways == PipelineSpec => []BackfillFirst
<1>1. PipelineSpec => []PInv
  BY InitPInv, PipelineNextKeeps, PTL DEF PipelineSpec
<1> QED
  BY <1>1, PInvIsSafe, PTL

\* Main, its listeners, Ctrl+C and the end of the process keep the account of
\* the orchestrator: no update is sent twice, and what an exit drops is lost.
THEOREM PipelineAccounts == PipelineSpec => []UpdatesAccounted
<1>1. PipelineSpec => []PInv
  BY InitPInv, PipelineNextKeeps, PTL DEF PipelineSpec
<1> QED
  BY <1>1, PInvIsSafe, PTL

\* The whole program does what SnapshotDelivery promises.
THEOREM PipelineImplementsDelivery == PipelineSpec => DeliverySpec
<1>1. PipelineSpec => []PInv
  BY InitPInv, PipelineNextKeeps, PTL DEF PipelineSpec
<1>2. PipelineInit => Delivery!Init
  BY InitDelivers DEF PipelineInit
<1> QED
  BY <1>1, <1>2, PipelineDelivers, PTL DEF PipelineSpec, DeliverySpec, Delivery!Spec
=============================================================================
