---------------------------- MODULE RxPathProofs ----------------------------
(***************************************************************************)
(* For any gateways, frames, queue limits, delays and windows: queues and  *)
(* buffer stay within their limits; telegrams reach the pipeline in the    *)
(* order in which they were sent, up to one delay; at most one copy of an  *)
(* emission passes while the buffer is not full; a telegram is dropped as  *)
(* a duplicate only for one received within the window; and an emission    *)
(* that nobody repeats gets through.                                       *)
(***************************************************************************)
EXTENDS RxPath, FiniteSetTheorems, SequenceTheorems, WellFoundedInduction, TLAPS

LEMMA Zahlen ==
    /\ Window \in Nat /\ DedupMax \in Nat \ {0}
    /\ GwQueueMax \in Nat \ {0} /\ MgrQueueMax \in Nat \ {0}
    /\ Laufzeit \in Nat /\ MaxRueck \in Nat /\ MaxSendungen \in Nat /\ MaxZeit \in Nat
BY DedupAssumption, RxAssumption

-----------------------------------------------------------------------------
(* Sequences *)

\* What an element is after it was put at the end.
LEMMA Hinten ==
    ASSUME NEW S, NEW s \in Seq(S), NEW x \in S
    PROVE  /\ Append(s, x) \in Seq(S)
           /\ Len(Append(s, x)) = Len(s) + 1
           /\ Len(s) \in Nat
           /\ \A i \in 1..Len(s) : Append(s, x)[i] = s[i]
           /\ Append(s, x)[Len(s) + 1] = x
BY AppendProperties

\* What is left after the first element was taken.
LEMMA Vorne ==
    ASSUME NEW S, NEW s \in Seq(S), s # <<>>
    PROVE  /\ Tail(s) \in Seq(S) /\ Head(s) \in S /\ Head(s) = s[1]
           /\ Len(s) \in Nat /\ Len(s) >= 1 /\ Len(Tail(s)) = Len(s) - 1
           /\ \A i \in 1..Len(Tail(s)) : i + 1 \in 1..Len(s) /\ Tail(s)[i] = s[i + 1]
<1>1. Tail(s) \in Seq(S) /\ Head(s) \in S /\ Len(Tail(s)) = Len(s) - 1
      /\ \A i \in 1..Len(Tail(s)) : Tail(s)[i] = s[i + 1]
  BY HeadTailProperties
<1>2. Len(s) \in Nat /\ Len(s) >= 1
  BY EmptySeq
<1>3. Head(s) = s[1]
  OBVIOUS
<1> QED
  BY <1>1, <1>2, <1>3

\* The elements of a sequence are of its set.
LEMMA Glieder ==
    ASSUME NEW S, NEW s \in Seq(S)
    PROVE  Len(s) \in Nat /\ \A i \in 1..Len(s) : s[i] \in S
OBVIOUS

\* A sequence over a set is one over a larger set.
LEMMA Weiter ==
    ASSUME NEW S, NEW T, S \subseteq T, NEW s \in Seq(S)
    PROVE  s \in Seq(T)
<1>1. s \in [1..Len(s) -> S] /\ Len(s) \in Nat
  OBVIOUS
<1>2. s \in [1..Len(s) -> T]
  BY <1>1
<1> QED
  BY <1>1, <1>2, SeqDef

-----------------------------------------------------------------------------
(* The buffer *)

\* Expiry takes a prefix; a check adds at most one entry and keeps the limit.
LEMMA PufferTyp ==
    ASSUME NEW E, NEW es \in Seq(E), Len(es) <= DedupMax, NEW fp, NEW ts,
           Eintrag(fp, ts) \in E
    PROVE  /\ NachPruefung(es, fp, ts) \in Seq(E)
           /\ Len(NachPruefung(es, fp, ts)) <= DedupMax
<1> DEFINE alt == {i \in 1..Len(es) : \A j \in 1..i : es[j].ts + Window < ts}
           rest == SubSeq(es, Cardinality(alt) + 1, Len(es))
           e == Eintrag(fp, ts)
<1>1. IsFiniteSet(1..Len(es)) /\ Len(es) \in Nat
  BY FS_Interval
<1>2. IsFiniteSet(alt)
  BY <1>1, FS_Subset
<1>3. Cardinality(alt) \in Nat
  BY <1>2, FS_CardinalityType
<1> DEFINE c == Cardinality(alt) + 1
<1>4. c \in Nat /\ c >= 1
  BY <1>3
<1> HIDE DEF c
<1> DEFINE r == SubSeq(es, c, Len(es))
<1>5. r \in Seq(E) /\ Len(r) <= Len(es) /\ Len(r) \in Nat
  <2>1. r \in Seq(E) /\ Len(r) = IF c <= Len(es) THEN Len(es) - c + 1 ELSE 0
    BY <1>1, <1>4, SubSeqProperties
  <2> HIDE DEF r
  <2> QED
    BY <1>1, <1>4, <2>1
<1>6. rest = r
  BY DEF c
<1>7. OhneAbgelaufene(es, ts) = rest
  BY DEF OhneAbgelaufene
<1>8. /\ Registriert(r, e) \in Seq(E)
      /\ Len(Registriert(r, e)) <= DedupMax
  <2> HIDE DEF r, e
  <2>0. e \in E /\ DedupMax \in Nat \ {0}
    BY Zahlen DEF e
  <2>1. CASE Len(r) < DedupMax
    <3>1. Append(r, e) \in Seq(E) /\ Len(Append(r, e)) = Len(r) + 1
      BY <1>5, <2>0, Hinten
    <3> QED
      BY <1>5, <2>0, <2>1, <3>1 DEF Registriert
  <2>2. CASE ~(Len(r) < DedupMax)
    <3>1. Len(r) = DedupMax /\ r # <<>>
      BY <1>1, <1>5, <2>0, <2>2
    <3>2. Tail(r) \in Seq(E) /\ Len(Tail(r)) = Len(r) - 1
      BY <1>5, <3>1, Vorne
    <3>3. Append(Tail(r), e) \in Seq(E) /\ Len(Append(Tail(r), e)) = Len(Tail(r)) + 1
      BY <2>0, <3>2, Hinten
    <3> QED
      BY <2>0, <2>2, <3>1, <3>2, <3>3 DEF Registriert
  <2> QED
    BY <2>1, <2>2
<1>9. NachPruefung(es, fp, ts) = IF Bekannt(r, fp) THEN r ELSE Registriert(r, e)
  BY <1>6, <1>7 DEF NachPruefung
<1> HIDE DEF r, e
<1> QED
  BY <1>1, <1>5, <1>8, <1>9, Zahlen

\* A nonempty set of natural numbers has a least element.
LEMMA Kleinstes ==
    ASSUME NEW S \in SUBSET Nat, S # {}
    PROVE  \E m \in S : \A k \in S : m <= k
<1>1. PICK x \in S : \A y \in S : <<y, x>> \notin OpToRel(<, Nat)
  BY NatLessThanWellFounded, WFMin
<1>2. \A y \in S : ~(y < x)
  BY <1>1 DEF OpToRel
<1> QED
  BY <1>2

\* Expiry takes the entries up to the first one that is young enough.
LEMMA Verfallen ==
    ASSUME NEW E, NEW es \in Seq(E), NEW ts
    PROVE  \E m \in 0..Len(es) :
              /\ OhneAbgelaufene(es, ts) = SubSeq(es, m + 1, Len(es))
              /\ \A i \in 1..m : es[i].ts + Window < ts
              /\ m < Len(es) => ~(es[m + 1].ts + Window < ts)
<1> DEFINE jung == {i \in 1..(Len(es) + 1) : i <= Len(es) => ~(es[i].ts + Window < ts)}
           alt == {i \in 1..Len(es) : \A j \in 1..i : es[j].ts + Window < ts}
<1>1. Len(es) \in Nat
  OBVIOUS
<1>2. Len(es) + 1 \in jung /\ jung \in SUBSET Nat
  BY <1>1
<1>3. PICK n \in jung : \A k \in jung : n <= k
  <2> HIDE DEF jung
  <2> QED
    BY <1>2, Kleinstes
<1>4. n \in 1..(Len(es) + 1) /\ \A i \in 1..Len(es) : i < n => es[i].ts + Window < ts
  BY <1>1, <1>3
<1>5. n <= Len(es) => ~(es[n].ts + Window < ts)
  BY <1>3
<1> DEFINE m == n - 1
<1>6. alt = 1..m
  <2>1. ASSUME NEW i \in 1..Len(es), i < n PROVE i \in alt
    BY <1>1, <1>4, <2>1
  <2>2. ASSUME NEW i \in alt PROVE i < n
    <3>1. i \in 1..Len(es) /\ \A j \in 1..i : es[j].ts + Window < ts
      OBVIOUS
    <3>2. n \notin 1..i
      <4>1. ASSUME n \in 1..i PROVE FALSE
        <5>1. n <= Len(es) /\ es[n].ts + Window < ts
          BY <1>1, <1>4, <3>1, <4>1
        <5> QED
          BY <5>1, <1>5
      <4> QED
        BY <4>1
    <3> HIDE DEF alt
    <3> QED
      BY <1>1, <1>4, <3>1, <3>2
  <2>3. \A i \in alt : i \in 1..Len(es)
    OBVIOUS
  <2> HIDE DEF alt, jung
  <2>4. n \in Int /\ n <= Len(es) + 1
    BY <1>1, <1>4
  <2>5. \A i \in alt : i \in 1..m
    BY <1>1, <2>2, <2>3, <2>4
  <2>6. \A i \in 1..m : i \in 1..Len(es) /\ i < n
    BY <1>1, <2>4
  <2> QED
    BY <2>1, <2>5, <2>6
<1>7. Cardinality(alt) + 1 = m + 1
  <2>1. m \in Nat
    BY <1>1, <1>4
  <2>2. Cardinality(1..m) = m
    <3> HIDE DEF m
    <3> QED
      BY <2>1, FS_Interval
  <2> QED
    BY <1>6, <2>2
<1>8. OhneAbgelaufene(es, ts) = SubSeq(es, m + 1, Len(es))
  BY <1>7 DEF OhneAbgelaufene
<1>9. m \in 0..Len(es) /\ m + 1 = n
  BY <1>1, <1>4
<1>10. \A i \in 1..m : es[i].ts + Window < ts
  BY <1>1, <1>4
<1> HIDE DEF m
<1> QED
  BY <1>1, <1>5, <1>8, <1>9, <1>10

\* What a check leaves of the buffer: without the m expired entries, for a new
\* fingerprint with an entry at the end, at the limit without the oldest.
Verbleib(es, fp, ts, m, d) ==
    LET n == Len(es)
        nach == NachPruefung(es, fp, ts)
    IN  /\ \A i \in 1..m : es[i].ts + Window < ts
        /\ m < n => ~(es[m + 1].ts + Window < ts)
        /\ IstDuplikat(es, fp, ts)
              => /\ \E i \in (m + 1)..n : es[i].fp = fp
                 /\ Len(nach) = n - m
                 /\ \A k \in 1..(n - m) : nach[k] = es[m + k]
        /\ ~IstDuplikat(es, fp, ts)
              => /\ \A i \in (m + 1)..n : es[i].fp # fp
                 /\ n < DedupMax => d = 0
                 /\ m + d <= n
                 /\ Len(nach) = n - m - d + 1
                 /\ \A k \in 1..(n - m - d) : nach[k] = es[m + d + k]
                 /\ nach[n - m - d + 1] = Eintrag(fp, ts)

LEMMA Pruefung ==
    ASSUME NEW E, NEW es \in Seq(E), Len(es) <= DedupMax, NEW fp, NEW ts,
           Eintrag(fp, ts) \in E
    PROVE  \E m \in 0..Len(es), d \in {0, 1} : Verbleib(es, fp, ts, m, d)
<1> DEFINE n == Len(es)
           e == Eintrag(fp, ts)
           P == NachPruefung(es, fp, ts)
<1>1. PICK m \in 0..n :
          /\ OhneAbgelaufene(es, ts) = SubSeq(es, m + 1, n)
          /\ \A i \in 1..m : es[i].ts + Window < ts
          /\ m < n => ~(es[m + 1].ts + Window < ts)
  BY Verfallen
<1> DEFINE r == SubSeq(es, m + 1, n)
<1>2. n \in Nat /\ m \in Nat /\ m <= n
  BY <1>1
<1>3. r \in Seq(E) /\ Len(r) = n - m /\ \A k \in 1..(n - m) : r[k] = es[m + k]
  <2>1. /\ r \in Seq(E)
        /\ Len(r) = IF m + 1 <= n THEN n - (m + 1) + 1 ELSE 0
        /\ \A k \in 1..(n - (m + 1) + 1) : r[k] = es[(m + 1) + k - 1]
    BY <1>2, SubSeqProperties
  <2> HIDE DEF r, n
  <2>2. Len(r) = n - m
    BY <1>2, <2>1
  <2>3. ASSUME NEW k \in 1..(n - m) PROVE r[k] = es[m + k]
    <3>1. k \in 1..(n - (m + 1) + 1) /\ (m + 1) + k - 1 = m + k
      BY <1>2
    <3> QED
      BY <2>1, <3>1
  <2> QED
    BY <2>1, <2>2, <2>3
<1>4. IstDuplikat(es, fp, ts) = Bekannt(r, fp)
  BY <1>1 DEF IstDuplikat
<1>5. P = IF Bekannt(r, fp) THEN r ELSE Registriert(r, e)
  BY <1>1 DEF NachPruefung
<1> HIDE DEF P, r
<1>6. Bekannt(r, fp) <=> \E i \in (m + 1)..n : es[i].fp = fp
  <2>1. ASSUME NEW k \in 1..Len(r), r[k].fp = fp PROVE \E i \in (m + 1)..n : es[i].fp = fp
    <3>1. m + k \in (m + 1)..n /\ es[m + k].fp = fp
      <4> HIDE DEF n
      <4> QED
        BY <1>2, <1>3, <2>1
    <3> QED
      BY <3>1
  <2>2. ASSUME NEW i \in (m + 1)..n, es[i].fp = fp PROVE \E k \in 1..Len(r) : r[k].fp = fp
    <3>1. i - m \in 1..(n - m) /\ m + (i - m) = i
      <4> HIDE DEF n
      <4> QED
        BY <1>2
    <3>2. r[i - m] = es[i]
      BY <1>3, <3>1
    <3> QED
      BY <1>3, <2>2, <3>1, <3>2
  <2> QED
    BY <2>1, <2>2 DEF Bekannt
<1>7. CASE Bekannt(r, fp)
  <2>1. Len(P) = n - m /\ \A k \in 1..(n - m) : P[k] = es[m + k]
    BY <1>3, <1>5, <1>7
  <2> QED
    BY <1>1, <1>4, <1>6, <1>7, <2>1 DEF P, Verbleib
<1>8. CASE ~Bekannt(r, fp)
  <2>0. e \in E /\ DedupMax \in Nat \ {0} /\ n <= DedupMax
    BY Zahlen
  <2>1. CASE Len(r) < DedupMax
    <3>1. P = Append(r, e)
      BY <1>5, <1>8, <2>1 DEF Registriert
    <3>2. /\ Len(P) = n - m + 1 /\ P[n - m + 1] = e
          /\ \A k \in 1..(n - m) : P[k] = es[m + k]
      <4> HIDE DEF e, n
      <4> QED
        BY <1>3, <2>0, <3>1, Hinten
    <3>3. n - m - 0 = n - m /\ m + 0 = m
      <4> HIDE DEF n
      <4> QED
        BY <1>2
    <3>4. \E d \in {0, 1} :
             /\ n < DedupMax => d = 0
             /\ m + d <= n /\ Len(P) = n - m - d + 1
             /\ \A k \in 1..(n - m - d) : P[k] = es[m + d + k]
             /\ P[n - m - d + 1] = e
      <4> HIDE DEF e, n
      <4> WITNESS 0 \in {0, 1}
      <4> QED
        BY <1>2, <3>2, <3>3
    <3> QED
      BY <1>1, <1>4, <1>6, <1>8, <3>4 DEF P, Verbleib
  <2>2. CASE ~(Len(r) < DedupMax)
    <3>1. m = 0 /\ n = DedupMax /\ r # <<>> /\ n >= 1
      <4>1. Len(r) >= 1 /\ m = 0 /\ n = DedupMax
        <5> HIDE DEF n
        <5> QED
          BY <1>2, <1>3, <2>0, <2>2
      <4>2. r # <<>>
        BY <4>1, EmptySeq
      <4> QED
        BY <4>1, <4>2, <2>0
    <3> DEFINE t == Tail(r)
    <3>2. /\ t \in Seq(E) /\ Len(t) = n - 1
          /\ \A k \in 1..(n - 1) : k + 1 \in 1..n /\ t[k] = r[k + 1]
      <4>1. /\ t \in Seq(E) /\ Len(t) = Len(r) - 1
            /\ \A i \in 1..Len(t) : i + 1 \in 1..Len(r) /\ t[i] = r[i + 1]
        BY <1>3, <3>1, Vorne
      <4>2. Len(r) = n
        <5> HIDE DEF n
        <5> QED
          BY <1>2, <1>3, <3>1
      <4> QED
        BY <4>1, <4>2
    <3>3. P = Append(t, e)
      BY <1>5, <1>8, <2>2 DEF Registriert
    <3> HIDE DEF t, e, n
    <3>4. /\ Len(P) = n - 1 + 1 /\ P[n - 1 + 1] = e
          /\ \A k \in 1..(n - 1) : P[k] = t[k]
      BY <2>0, <3>2, <3>3, Hinten
    <3>5. \A k \in 1..(n - 1) : P[k] = es[1 + k]
      <4> TAKE k \in 1..(n - 1)
      <4>1. k + 1 \in 1..(n - m) /\ m + (k + 1) = 1 + k
        BY <1>2, <3>1
      <4> QED
        BY <1>3, <3>2, <3>4, <4>1
    <3>6. n - m - 1 = n - 1 /\ m + 1 = 1
      BY <1>2, <3>1
    <3>7. \E d \in {0, 1} :
             /\ n < DedupMax => d = 0
             /\ m + d <= n /\ Len(P) = n - m - d + 1
             /\ \A k \in 1..(n - m - d) : P[k] = es[m + d + k]
             /\ P[n - m - d + 1] = e
      <4> WITNESS 1 \in {0, 1}
      <4> QED
        BY <1>2, <2>0, <3>1, <3>4, <3>5, <3>6
    <3> QED
      BY <1>1, <1>4, <1>6, <1>8, <3>7 DEF P, e, n, Verbleib
  <2> QED
    BY <2>1, <2>2
<1> QED
  BY <1>7, <1>8

-----------------------------------------------------------------------------
(* Type correctness *)

Sendung == [fp : Frames, ab : 0..MaxZeit]

BufferEintrag == [fp : Frames, ts : 0..(MaxZeit + MaxRueck)]

\* The wall clock, shifted, is a natural number.
LEMMA UhrTyp ==
    ASSUME zeit \in 0..MaxZeit, rueck \in 0..MaxRueck
    PROVE  Uhr \in 0..(MaxZeit + MaxRueck)
BY Zahlen DEF Uhr

\* A new emission is one more; telegrams of the ones before stay telegrams.
LEMMA TypSenden ==
    ASSUME TypeOK, NEW fp \in Frames, Senden(fp)
    PROVE  TypeOK'
<1> DEFINE s == [fp |-> fp, ab |-> zeit]
<1>1. luft \in Seq(Sendung) /\ s \in Sendung /\ luft' = Append(luft, s)
  BY DEF TypeOK, Senden, Sendung
<1> HIDE DEF s
<1>2. luft' \in Seq(Sendung) /\ Len(luft') = Len(luft) + 1 /\ Len(luft) \in Nat
  BY <1>1, Hinten
<1>3. Sendungen \subseteq Sendungen' /\ Len(luft) + 1 \in Sendungen'
  BY <1>2 DEF Sendungen
<1>4. Telegramm \subseteq Telegramm'
  BY <1>3 DEF Telegramm
<1>5. UNCHANGED <<zeit, rueck, gwQueue, mgrQueue, entries, durch, verloren>>
  BY DEF Senden
<1>6. offen' \subseteq (Sendungen \X Gateways)'
  BY <1>3 DEF TypeOK, Senden
<1>7. gwQueue' \in [Gateways -> Seq(Telegramm')]
  <2>1. gwQueue \in [Gateways -> Seq(Telegramm)]
    BY DEF TypeOK
  <2>2. \A g \in Gateways : gwQueue[g] \in Seq(Telegramm')
    <3> SUFFICES ASSUME NEW g \in Gateways PROVE gwQueue[g] \in Seq(Telegramm')
      OBVIOUS
    <3>1. gwQueue[g] \in Seq(Telegramm)
      BY <2>1
    <3> QED
      BY <1>4, <3>1, Weiter
  <2> QED
    BY <1>5, <2>1, <2>2
<1>8. mgrQueue' \in Seq(Telegramm') /\ durch' \in Seq(Telegramm')
  BY <1>4, <1>5, Weiter DEF TypeOK
<1>9. luft' \in Seq([fp : Frames, ab : 0..MaxZeit])
  BY <1>2 DEF Sendung
<1>10. verloren' \subseteq Sendungen'
  BY <1>3, <1>5 DEF TypeOK
<1> QED
  BY <1>5, <1>6, <1>7, <1>8, <1>9, <1>10 DEF TypeOK

\* A copy is stamped and queued, or dropped at a full queue.
LEMMA TypHoeren ==
    ASSUME TypeOK, NEW g \in Gateways, NEW e \in 1..Len(luft), Hoeren(g, e)
    PROVE  TypeOK'
<1> DEFINE rx == [e |-> e, fp |-> luft[e].fp, ts |-> Uhr, zeit |-> zeit]
<1>1. Sendungen' = Sendungen /\ Telegramm' = Telegramm
      /\ UNCHANGED <<zeit, rueck, luft, mgrQueue, entries, durch>>
  BY DEF Hoeren, Sendungen, Telegramm
<1>2. rx \in Telegramm
  <2>1. luft \in Seq(Sendung)
    BY DEF TypeOK, Sendung
  <2>2. luft[e].fp \in Frames
    <3>1. luft[e] \in Sendung
      BY <2>1, Glieder
    <3> QED
      BY <3>1 DEF Sendung
  <2>3. Uhr \in 0..(MaxZeit + MaxRueck) /\ zeit \in 0..MaxZeit
    BY UhrTyp DEF TypeOK
  <2> QED
    BY <2>2, <2>3 DEF Telegramm, Sendungen
<1>3. offen' \subseteq Sendungen \X Gateways
  BY DEF TypeOK, Hoeren
<1>4. /\ gwQueue' \in [Gateways -> Seq(Telegramm)]
      /\ \A h \in Gateways : Len(gwQueue'[h]) <= GwQueueMax
      /\ verloren' \subseteq Sendungen
  <2> HIDE DEF rx
  <2>0. /\ gwQueue \in [Gateways -> Seq(Telegramm)]
        /\ \A h \in Gateways : Len(gwQueue[h]) <= GwQueueMax
        /\ verloren \subseteq Sendungen
    BY DEF TypeOK
  <2>1. CASE Len(gwQueue[g]) < GwQueueMax
    <3> DEFINE q == Append(gwQueue[g], rx)
    <3>1. gwQueue' = [gwQueue EXCEPT ![g] = q] /\ verloren' = verloren
      BY <2>1 DEF Hoeren, rx
    <3>2. q \in Seq(Telegramm) /\ Len(q) = Len(gwQueue[g]) + 1 /\ Len(gwQueue[g]) \in Nat
      BY <1>2, <2>0, Hinten
    <3> HIDE DEF q
    <3>3. Len(q) <= GwQueueMax
      BY <2>1, <3>2, Zahlen
    <3> QED
      BY <2>0, <3>1, <3>2, <3>3
  <2>2. CASE ~(Len(gwQueue[g]) < GwQueueMax)
    <3>1. verloren' = verloren \cup {e} /\ gwQueue' = gwQueue
      BY <2>2 DEF Hoeren
    <3> QED
      BY <2>0, <3>1 DEF Sendungen
  <2> QED
    BY <2>1, <2>2
<1> QED
  BY <1>1, <1>3, <1>4 DEF TypeOK

LEMMA TypFanIn ==
    ASSUME TypeOK, NEW g \in Gateways, FanIn(g)
    PROVE  TypeOK'
<1> DEFINE rx == Head(gwQueue[g])
           rest == Tail(gwQueue[g])
<1>1. Sendungen' = Sendungen /\ Telegramm' = Telegramm
      /\ UNCHANGED <<zeit, rueck, luft, offen, entries, durch>>
  BY DEF FanIn, Sendungen, Telegramm
<1>2. gwQueue[g] \in Seq(Telegramm) /\ gwQueue[g] # <<>>
  BY DEF TypeOK, FanIn
<1>3. /\ rx \in Telegramm /\ rest \in Seq(Telegramm)
      /\ Len(rest) = Len(gwQueue[g]) - 1 /\ Len(gwQueue[g]) \in Nat
  BY <1>2, Vorne
<1>4. rx.e \in Sendungen
  BY <1>3 DEF Telegramm
<1>5. gwQueue' = [gwQueue EXCEPT ![g] = rest]
  BY DEF FanIn
<1>6. \/ Len(mgrQueue) < MgrQueueMax /\ mgrQueue' = Append(mgrQueue, rx) /\ verloren' = verloren
      \/ verloren' = verloren \cup {rx.e} /\ mgrQueue' = mgrQueue
  BY DEF FanIn
<1> HIDE DEF rx, rest
<1>7. /\ gwQueue' \in [Gateways -> Seq(Telegramm)]
      /\ \A h \in Gateways : Len(gwQueue'[h]) <= GwQueueMax
  <2>1. /\ gwQueue \in [Gateways -> Seq(Telegramm)]
        /\ \A h \in Gateways : Len(gwQueue[h]) <= GwQueueMax
    BY DEF TypeOK
  <2>2. Len(rest) <= GwQueueMax
    BY <1>3, <2>1, Zahlen
  <2> QED
    BY <1>3, <1>5, <2>1, <2>2
<1>8. mgrQueue' \in Seq(Telegramm) /\ Len(mgrQueue') <= MgrQueueMax
  <2>1. mgrQueue \in Seq(Telegramm) /\ Len(mgrQueue) <= MgrQueueMax
    BY DEF TypeOK
  <2>2. Append(mgrQueue, rx) \in Seq(Telegramm) /\ Len(mgrQueue) \in Nat
        /\ Len(Append(mgrQueue, rx)) = Len(mgrQueue) + 1
    BY <1>3, <2>1, Hinten
  <2> QED
    BY <1>6, <2>1, <2>2, Zahlen
<1>9. verloren' \subseteq Sendungen
  BY <1>4, <1>6 DEF TypeOK
<1> QED
  BY <1>1, <1>7, <1>8, <1>9 DEF TypeOK

LEMMA TypVerarbeiten ==
    ASSUME TypeOK, Verarbeiten
    PROVE  TypeOK'
<1> DEFINE rx == Head(mgrQueue)
           rest == Tail(mgrQueue)
<1>1. Sendungen' = Sendungen /\ Telegramm' = Telegramm
      /\ UNCHANGED <<zeit, rueck, luft, offen, gwQueue, verloren>>
  BY DEF Verarbeiten, Sendungen, Telegramm
<1>2. mgrQueue \in Seq(Telegramm) /\ mgrQueue # <<>> /\ Len(mgrQueue) <= MgrQueueMax
  BY DEF TypeOK, Verarbeiten
<1>3. rx \in Telegramm /\ rest \in Seq(Telegramm)
      /\ Len(rest) = Len(mgrQueue) - 1 /\ Len(mgrQueue) \in Nat
  BY <1>2, Vorne
<1>4. /\ mgrQueue' = rest
      /\ durch' = durch \/ durch' = Append(durch, rx)
      /\ entries' = NachPruefung(entries, rx.fp, rx.ts)
  <2>1. durch' = IF IstDuplikat(entries, rx.fp, rx.ts) THEN durch ELSE Append(durch, rx)
    BY DEF Verarbeiten
  <2>2. mgrQueue' = rest /\ entries' = NachPruefung(entries, rx.fp, rx.ts)
    BY DEF Verarbeiten
  <2> HIDE DEF rx, rest
  <2> QED
    BY <2>1, <2>2
<1>5. Eintrag(rx.fp, rx.ts) \in BufferEintrag
  BY <1>3 DEF Telegramm, BufferEintrag, Eintrag
<1> HIDE DEF rx, rest
<1>6. mgrQueue' \in Seq(Telegramm) /\ Len(mgrQueue') <= MgrQueueMax
  BY <1>2, <1>3, <1>4, Zahlen
<1>7. durch' \in Seq(Telegramm)
  <2>1. durch \in Seq(Telegramm)
    BY DEF TypeOK
  <2>2. Append(durch, rx) \in Seq(Telegramm)
    BY <1>3, <2>1, Hinten
  <2> QED
    BY <1>4, <2>1, <2>2
<1>8. entries' \in Seq(BufferEintrag) /\ Len(entries') <= DedupMax
  <2>1. entries \in Seq(BufferEintrag) /\ Len(entries) <= DedupMax
    BY DEF TypeOK, BufferEintrag
  <2> QED
    BY <1>4, <1>5, <2>1, PufferTyp
<1> QED
  BY <1>1, <1>6, <1>7, <1>8 DEF TypeOK, BufferEintrag

LEMMA TypZeit ==
    ASSUME TypeOK, Tick \/ UhrZurueck
    PROVE  TypeOK'
<1>1. zeit' \in 0..MaxZeit /\ rueck' \in 0..MaxRueck
  BY Zahlen DEF TypeOK, Tick, UhrZurueck
<1>2. Sendungen' = Sendungen /\ Telegramm' = Telegramm
      /\ UNCHANGED <<luft, offen, gwQueue, mgrQueue, entries, durch, verloren>>
  BY DEF Tick, UhrZurueck, Sendungen, Telegramm
<1> QED
  BY <1>1, <1>2 DEF TypeOK

\* TypeOK: no queue and no buffer ever outgrows its limit, and every telegram
\* in them is of an emission that was sent (base.py, manager.py, cascade.py).
THEOREM TypKorrekt == Spec => []TypeOK
<1>1. Init => TypeOK
  <2> SUFFICES ASSUME Init PROVE TypeOK
    OBVIOUS
  <2>1. zeit \in 0..MaxZeit /\ rueck \in 0..MaxRueck
    BY Zahlen DEF Init
  <2>2. /\ luft = <<>> /\ mgrQueue = <<>> /\ entries = <<>> /\ durch = <<>>
        /\ offen = {} /\ verloren = {}
        /\ \A g \in Gateways : gwQueue[g] = <<>>
        /\ gwQueue = [g \in Gateways |-> <<>>]
    BY DEF Init
  <2>3. \A S : <<>> \in Seq(S) /\ Len(<<>>) = 0
    BY EmptySeq
  <2> QED
    BY <2>1, <2>2, <2>3, Zahlen DEF TypeOK
<1>2. TypeOK /\ [Next]_vars => TypeOK'
  <2>1. ASSUME TypeOK, UNCHANGED vars PROVE TypeOK'
    BY <2>1 DEF TypeOK, vars, Sendungen, Telegramm
  <2> QED
    BY <2>1, TypSenden, TypHoeren, TypFanIn, TypVerarbeiten, TypZeit DEF Next
<1> QED
  BY <1>1, <1>2, PTL DEF Spec

-----------------------------------------------------------------------------
(* The order *)

\* A telegram was stamped at most one delay after its emission.
Puenktlich(l, t) == l[t.e].ab <= t.zeit /\ t.zeit <= l[t.e].ab + Laufzeit

\* Telegrams stand in the order in which they were received.
Sortiert(s) == \A i, j \in 1..Len(s) : i < j => s[i].zeit <= s[j].zeit

AllePuenktlich(l, s) == \A i \in 1..Len(s) : Puenktlich(l, s[i])

\* What waits at a gateway was received just now: time does not pass while a
\* gateway's queue holds anything.
Ordnung ==
    /\ \A e \in Sendungen : luft[e].ab <= zeit
    /\ \A g \in Gateways :
          /\ AllePuenktlich(luft, gwQueue[g])
          /\ \A i \in 1..Len(gwQueue[g]) : gwQueue[g][i].zeit = zeit
    /\ AllePuenktlich(luft, mgrQueue) /\ AllePuenktlich(luft, durch)
    /\ Sortiert(mgrQueue) /\ Sortiert(durch)
    /\ \A i \in 1..Len(mgrQueue) : mgrQueue[i].zeit <= zeit
    /\ \A i \in 1..Len(durch) : durch[i].zeit <= zeit
    /\ \A i \in 1..Len(durch) : \A j \in 1..Len(mgrQueue) : durch[i].zeit <= mgrQueue[j].zeit

\* A sorted sequence stays sorted when a late enough element is put at its end.
LEMMA HintenSortiert ==
    ASSUME NEW s \in Seq(Telegramm), NEW t \in Telegramm, Sortiert(s),
           \A i \in 1..Len(s) : s[i].zeit <= t.zeit
    PROVE  Sortiert(Append(s, t))
<1>1. /\ Len(Append(s, t)) = Len(s) + 1 /\ Len(s) \in Nat
      /\ \A i \in 1..Len(s) : Append(s, t)[i] = s[i]
      /\ Append(s, t)[Len(s) + 1] = t
  BY Hinten
<1> DEFINE r == Append(s, t)
<1> HIDE DEF r
<1>2. SUFFICES ASSUME NEW i \in 1..Len(r), NEW j \in 1..Len(r), i < j
               PROVE  r[i].zeit <= r[j].zeit
  BY DEF Sortiert, r
<1>3. i \in 1..Len(s) /\ r[i] = s[i]
  BY <1>1, <1>2 DEF r
<1>4. CASE j \in 1..Len(s)
  BY <1>1, <1>2, <1>3, <1>4 DEF Sortiert, r
<1>5. CASE j = Len(s) + 1
  BY <1>1, <1>3, <1>5 DEF r
<1> QED
  BY <1>1, <1>4, <1>5 DEF r

\* Putting a punctual element at the end, and taking the first away.
LEMMA PuenktlichBleibt ==
    ASSUME NEW l, NEW s \in Seq(Telegramm), AllePuenktlich(l, s)
    PROVE  /\ \A t \in Telegramm : Puenktlich(l, t) => AllePuenktlich(l, Append(s, t))
           /\ s # <<>> => AllePuenktlich(l, Tail(s)) /\ Puenktlich(l, Head(s))
<1>1. ASSUME NEW t \in Telegramm, Puenktlich(l, t)
      PROVE  AllePuenktlich(l, Append(s, t))
  <2>1. /\ Len(Append(s, t)) = Len(s) + 1 /\ Len(s) \in Nat
        /\ \A i \in 1..Len(s) : Append(s, t)[i] = s[i]
        /\ Append(s, t)[Len(s) + 1] = t
    BY Hinten
  <2>2. ASSUME NEW i \in 1..Len(Append(s, t)) PROVE Puenktlich(l, Append(s, t)[i])
    <3>1. i \in 1..Len(s) \/ i = Len(s) + 1
      BY <2>1, <2>2
    <3> QED
      BY <1>1, <2>1, <3>1 DEF AllePuenktlich
  <2> QED
    BY <2>2 DEF AllePuenktlich
<1>2. ASSUME s # <<>> PROVE AllePuenktlich(l, Tail(s)) /\ Puenktlich(l, Head(s))
  <2>1. /\ Head(s) = s[1] /\ 1 \in 1..Len(s)
        /\ \A i \in 1..Len(Tail(s)) : i + 1 \in 1..Len(s) /\ Tail(s)[i] = s[i + 1]
    <3>1. Len(s) \in Nat /\ Len(s) >= 1
      BY <1>2, Vorne
    <3> QED
      BY <1>2, <3>1, Vorne
  <2> QED
    BY <2>1 DEF AllePuenktlich
<1> QED
  BY <1>1, <1>2

\* A new emission leaves the others what they were.
LEMMA OrdnungSenden ==
    ASSUME TypeOK, Ordnung, NEW fp \in Frames, Senden(fp)
    PROVE  Ordnung'
<1> DEFINE s == [fp |-> fp, ab |-> zeit]
<1>1. luft \in Seq(Sendung) /\ s \in Sendung /\ luft' = Append(luft, s) /\ s.ab = zeit
  BY DEF TypeOK, Senden, Sendung
<1> HIDE DEF s
<1>2. /\ Len(luft') = Len(luft) + 1 /\ Len(luft) \in Nat
      /\ \A e \in Sendungen : luft'[e] = luft[e]
      /\ luft'[Len(luft) + 1] = s
  BY <1>1, Hinten DEF Sendungen
<1>3. UNCHANGED <<zeit, gwQueue, mgrQueue, durch>>
  BY DEF Senden
<1>4. \A q \in Seq(Telegramm) : AllePuenktlich(luft, q) => AllePuenktlich(luft', q)
  <2>1. SUFFICES ASSUME NEW q \in Seq(Telegramm), AllePuenktlich(luft, q),
                        NEW i \in 1..Len(q)
                 PROVE  Puenktlich(luft', q[i])
    BY DEF AllePuenktlich
  <2>2. q[i] \in Telegramm
    BY Glieder
  <2>3. luft'[q[i].e] = luft[q[i].e]
    BY <1>2, <2>2 DEF Telegramm
  <2> QED
    BY <2>1, <2>3 DEF AllePuenktlich, Puenktlich
<1>5. \A e \in Sendungen' : luft'[e].ab <= zeit'
  <2>1. SUFFICES ASSUME NEW e \in 1..(Len(luft) + 1) PROVE luft'[e].ab <= zeit
    BY <1>2, <1>3 DEF Sendungen
  <2>2. CASE e \in Sendungen
    BY <1>2, <2>2 DEF Ordnung
  <2>3. CASE e = Len(luft) + 1
    BY <1>1, <1>2, <2>3 DEF TypeOK
  <2> QED
    BY <1>2, <2>2, <2>3 DEF Sendungen
<1>6. /\ \A g \in Gateways : gwQueue[g] \in Seq(Telegramm)
      /\ mgrQueue \in Seq(Telegramm) /\ durch \in Seq(Telegramm)
  BY DEF TypeOK
<1> QED
  BY <1>3, <1>4, <1>5, <1>6 DEF Ordnung

LEMMA OrdnungHoeren ==
    ASSUME TypeOK, Ordnung, NEW g \in Gateways, NEW e \in 1..Len(luft), Hoeren(g, e)
    PROVE  Ordnung'
<1> DEFINE rx == [e |-> e, fp |-> luft[e].fp, ts |-> Uhr, zeit |-> zeit]
<1>1. UNCHANGED <<zeit, luft, mgrQueue, durch>>
  BY DEF Hoeren
<1>2. rx.e = e /\ rx.zeit = zeit /\ rx \in Telegramm
  <2>1. luft \in Seq(Sendung)
    BY DEF TypeOK, Sendung
  <2>2. luft[e] \in Sendung
    BY <2>1, Glieder
  <2>3. Uhr \in 0..(MaxZeit + MaxRueck) /\ zeit \in 0..MaxZeit
    BY UhrTyp DEF TypeOK
  <2> QED
    BY <2>2, <2>3 DEF Telegramm, Sendungen, Sendung
<1>3. Puenktlich(luft, rx)
  <2>1. luft[e].ab \in Nat /\ zeit \in Nat
    <3>1. luft \in Seq(Sendung) /\ zeit \in Nat
      BY DEF TypeOK, Sendung
    <3>2. luft[e] \in Sendung
      BY <3>1, Glieder
    <3> QED
      BY <3>1, <3>2, Zahlen DEF Sendung
  <2>2. luft[e].ab <= zeit
    BY DEF Ordnung, Sendungen
  <2>3. zeit - luft[e].ab <= Laufzeit
    BY DEF Hoeren
  <2> HIDE DEF rx
  <2> QED
    BY <1>2, <2>1, <2>2, <2>3, Zahlen DEF Puenktlich
<1>4. gwQueue' = gwQueue \/ gwQueue' = [gwQueue EXCEPT ![g] = Append(gwQueue[g], rx)]
  BY DEF Hoeren
<1> HIDE DEF rx
<1>5. gwQueue[g] \in Seq(Telegramm) /\ gwQueue \in [Gateways -> Seq(Telegramm)]
  BY DEF TypeOK
<1>6. /\ AllePuenktlich(luft, Append(gwQueue[g], rx))
      /\ \A i \in 1..Len(Append(gwQueue[g], rx)) : Append(gwQueue[g], rx)[i].zeit = zeit
  <2>1. AllePuenktlich(luft, Append(gwQueue[g], rx))
    BY <1>2, <1>3, <1>5, PuenktlichBleibt DEF Ordnung
  <2>2. /\ Len(Append(gwQueue[g], rx)) = Len(gwQueue[g]) + 1 /\ Len(gwQueue[g]) \in Nat
        /\ \A i \in 1..Len(gwQueue[g]) : Append(gwQueue[g], rx)[i] = gwQueue[g][i]
        /\ Append(gwQueue[g], rx)[Len(gwQueue[g]) + 1] = rx
    BY <1>2, <1>5, Hinten
  <2>3. \A i \in 1..Len(gwQueue[g]) : gwQueue[g][i].zeit = zeit
    BY DEF Ordnung
  <2> QED
    BY <1>2, <2>1, <2>2, <2>3
<1>7. \A h \in Gateways :
          /\ AllePuenktlich(luft, gwQueue'[h])
          /\ \A i \in 1..Len(gwQueue'[h]) : gwQueue'[h][i].zeit = zeit
  <2>1. \A h \in Gateways : gwQueue'[h] = gwQueue[h] \/ (h = g /\ gwQueue'[h] = Append(gwQueue[g], rx))
    BY <1>4, <1>5
  <2> QED
    BY <1>6, <2>1 DEF Ordnung
<1> QED
  BY <1>1, <1>7 DEF Ordnung, Sendungen

LEMMA OrdnungFanIn ==
    ASSUME TypeOK, Ordnung, NEW g \in Gateways, FanIn(g)
    PROVE  Ordnung'
<1> DEFINE q == gwQueue[g]
           rx == Head(q)
           rest == Tail(q)
<1>1. /\ UNCHANGED <<zeit, luft, durch>> /\ q # <<>>
      /\ gwQueue' = [gwQueue EXCEPT ![g] = rest]
      /\ mgrQueue' = mgrQueue \/ mgrQueue' = Append(mgrQueue, rx)
  BY DEF FanIn
<1>2. /\ q \in Seq(Telegramm) /\ gwQueue \in [Gateways -> Seq(Telegramm)]
      /\ mgrQueue \in Seq(Telegramm) /\ durch \in Seq(Telegramm)
  BY DEF TypeOK
<1>3. /\ AllePuenktlich(luft, q) /\ (\A i \in 1..Len(q) : q[i].zeit = zeit)
  BY DEF Ordnung
<1> HIDE DEF q
<1>4. /\ rx \in Telegramm /\ rx = q[1] /\ 1 \in 1..Len(q)
      /\ \A i \in 1..Len(rest) : i + 1 \in 1..Len(q) /\ rest[i] = q[i + 1]
  <2>1. Len(q) \in Nat /\ Len(q) >= 1
    BY <1>1, <1>2, Vorne
  <2> QED
    BY <1>1, <1>2, <2>1, Vorne
<1>5. AllePuenktlich(luft, rest) /\ Puenktlich(luft, rx)
  BY <1>1, <1>2, <1>3, PuenktlichBleibt
<1> HIDE DEF rx, rest
<1>6. rx.zeit = zeit /\ \A i \in 1..Len(rest) : rest[i].zeit = zeit
  BY <1>3, <1>4
<1>7. \A h \in Gateways :
          /\ AllePuenktlich(luft, gwQueue'[h])
          /\ \A i \in 1..Len(gwQueue'[h]) : gwQueue'[h][i].zeit = zeit
  <2>1. \A h \in Gateways : gwQueue'[h] = IF h = g THEN rest ELSE gwQueue[h]
    BY <1>1, <1>2
  <2> QED
    BY <1>5, <1>6, <2>1 DEF Ordnung
<1>8. /\ AllePuenktlich(luft, mgrQueue') /\ Sortiert(mgrQueue')
      /\ \A i \in 1..Len(mgrQueue') : mgrQueue'[i].zeit <= zeit
      /\ \A i \in 1..Len(durch) : \A j \in 1..Len(mgrQueue') : durch[i].zeit <= mgrQueue'[j].zeit
  <2>1. CASE mgrQueue' = mgrQueue
    BY <2>1 DEF Ordnung
  <2>2. CASE mgrQueue' = Append(mgrQueue, rx)
    <3>0. /\ AllePuenktlich(luft, mgrQueue) /\ Sortiert(mgrQueue)
          /\ \A i \in 1..Len(mgrQueue) : mgrQueue[i].zeit <= zeit
          /\ \A i \in 1..Len(durch) : \A j \in 1..Len(mgrQueue) : durch[i].zeit <= mgrQueue[j].zeit
      BY DEF Ordnung
    <3>1. AllePuenktlich(luft, mgrQueue')
      BY <1>2, <1>4, <1>5, <2>2, <3>0, PuenktlichBleibt
    <3>2. Sortiert(mgrQueue')
      BY <1>2, <1>4, <1>6, <2>2, <3>0, HintenSortiert
    <3>3. /\ Len(mgrQueue') = Len(mgrQueue) + 1 /\ Len(mgrQueue) \in Nat
          /\ \A i \in 1..Len(mgrQueue) : mgrQueue'[i] = mgrQueue[i]
          /\ mgrQueue'[Len(mgrQueue) + 1] = rx
      BY <1>2, <1>4, <2>2, Hinten
    <3>4. zeit \in Nat
      BY DEF TypeOK
    <3>5. \A i \in 1..Len(durch) : durch[i].zeit <= zeit
      BY DEF Ordnung
    <3>6. \A j \in 1..Len(mgrQueue') : j \in 1..Len(mgrQueue) \/ j = Len(mgrQueue) + 1
      BY <3>3
    <3>7. \A j \in 1..Len(mgrQueue') : mgrQueue'[j].zeit <= zeit
      BY <1>6, <3>0, <3>3, <3>4, <3>6
    <3>8. \A i \in 1..Len(durch) : \A j \in 1..Len(mgrQueue') : durch[i].zeit <= mgrQueue'[j].zeit
      BY <1>6, <3>0, <3>3, <3>5, <3>6
    <3> QED
      BY <3>1, <3>2, <3>7, <3>8
  <2> QED
    BY <1>1, <2>1, <2>2
<1> QED
  BY <1>1, <1>7, <1>8 DEF Ordnung, Sendungen

LEMMA OrdnungVerarbeiten ==
    ASSUME TypeOK, Ordnung, Verarbeiten
    PROVE  Ordnung'
<1> DEFINE q == mgrQueue
           rx == Head(q)
           rest == Tail(q)
<1>1. /\ UNCHANGED <<zeit, luft, gwQueue>> /\ q # <<>> /\ mgrQueue' = rest
      /\ durch' = durch \/ durch' = Append(durch, rx)
  <2>1. durch' = IF IstDuplikat(entries, rx.fp, rx.ts) THEN durch ELSE Append(durch, rx)
    BY DEF Verarbeiten
  <2>2. UNCHANGED <<zeit, luft, gwQueue>> /\ q # <<>> /\ mgrQueue' = rest
    BY DEF Verarbeiten
  <2> HIDE DEF rx, rest, q
  <2> QED
    BY <2>1, <2>2
<1>2. q \in Seq(Telegramm) /\ durch \in Seq(Telegramm)
  BY DEF TypeOK
<1>3. /\ AllePuenktlich(luft, q) /\ AllePuenktlich(luft, durch)
      /\ Sortiert(q) /\ Sortiert(durch)
      /\ \A i \in 1..Len(q) : q[i].zeit <= zeit
      /\ \A i \in 1..Len(durch) : durch[i].zeit <= zeit
      /\ \A i \in 1..Len(durch) : \A j \in 1..Len(q) : durch[i].zeit <= q[j].zeit
  BY DEF Ordnung
<1> HIDE DEF q
<1>4. /\ rx \in Telegramm /\ rx = q[1] /\ 1 \in 1..Len(q)
      /\ Len(q) \in Nat /\ Len(rest) = Len(q) - 1
      /\ \A i \in 1..Len(rest) : i + 1 \in 1..Len(q) /\ rest[i] = q[i + 1]
  <2>1. Len(q) \in Nat /\ Len(q) >= 1
    BY <1>1, <1>2, Vorne
  <2> QED
    BY <1>1, <1>2, <2>1, Vorne
<1>5. AllePuenktlich(luft, rest) /\ Puenktlich(luft, rx)
  BY <1>1, <1>2, <1>3, PuenktlichBleibt
<1> HIDE DEF rx, rest
<1>6. /\ Sortiert(rest)
      /\ \A i \in 1..Len(rest) : rest[i].zeit <= zeit
      /\ \A i \in 1..Len(rest) : rx.zeit <= rest[i].zeit
      /\ \A i \in 1..Len(durch) : \A j \in 1..Len(rest) : durch[i].zeit <= rest[j].zeit
  <2>1. Sortiert(rest)
    BY <1>3, <1>4 DEF Sortiert
  <2>2. \A i \in 1..Len(rest) : rx.zeit <= rest[i].zeit
    BY <1>3, <1>4 DEF Sortiert
  <2> QED
    BY <1>3, <1>4, <2>1, <2>2
<1>7. /\ AllePuenktlich(luft, durch') /\ Sortiert(durch')
      /\ \A i \in 1..Len(durch') : durch'[i].zeit <= zeit
      /\ \A i \in 1..Len(durch') : \A j \in 1..Len(rest) : durch'[i].zeit <= rest[j].zeit
  <2>1. CASE durch' = durch
    BY <1>3, <1>6, <2>1
  <2>2. CASE durch' = Append(durch, rx)
    <3>1. AllePuenktlich(luft, durch')
      BY <1>2, <1>3, <1>4, <1>5, <2>2, PuenktlichBleibt
    <3>2. \A i \in 1..Len(durch) : durch[i].zeit <= rx.zeit
      BY <1>3, <1>4
    <3>3. Sortiert(durch')
      BY <1>2, <1>3, <1>4, <2>2, <3>2, HintenSortiert
    <3>4. /\ Len(durch') = Len(durch) + 1 /\ Len(durch) \in Nat
          /\ \A i \in 1..Len(durch) : durch'[i] = durch[i]
          /\ durch'[Len(durch) + 1] = rx
      BY <1>2, <1>4, <2>2, Hinten
    <3>5. \A i \in 1..Len(durch') : i \in 1..Len(durch) \/ i = Len(durch) + 1
      BY <3>4
    <3>6. rx.zeit <= zeit
      BY <1>3, <1>4
    <3> QED
      BY <1>3, <1>6, <3>1, <3>3, <3>4, <3>5, <3>6
  <2> QED
    BY <1>1, <2>1, <2>2
<1>8. /\ \A e \in Sendungen : luft[e].ab <= zeit
      /\ \A g \in Gateways :
            /\ AllePuenktlich(luft, gwQueue[g])
            /\ \A i \in 1..Len(gwQueue[g]) : gwQueue[g][i].zeit = zeit
  BY DEF Ordnung
<1> QED
  BY <1>1, <1>5, <1>6, <1>7, <1>8 DEF Ordnung, Sendungen

LEMMA OrdnungZeit ==
    ASSUME TypeOK, Ordnung, Tick \/ UhrZurueck
    PROVE  Ordnung'
<1>1. UNCHANGED <<luft, gwQueue, mgrQueue, durch>>
  BY DEF Tick, UhrZurueck
<1>2. CASE UhrZurueck
  BY <1>1, <1>2 DEF UhrZurueck, Ordnung, Sendungen
<1>3. CASE Tick
  <2>1. zeit \in Nat /\ zeit' = zeit + 1 /\ \A g \in Gateways : Len(gwQueue[g]) = 0
    BY <1>3, EmptySeq DEF Tick, TypeOK
  <2>2. \A e \in Sendungen : luft[e].ab \in Nat
    <3>1. luft \in Seq(Sendung)
      BY DEF TypeOK, Sendung
    <3>2. SUFFICES ASSUME NEW e \in Sendungen PROVE luft[e].ab \in Nat
      OBVIOUS
    <3>3. luft[e] \in Sendung
      BY <3>1, Glieder DEF Sendungen
    <3> QED
      BY <3>3 DEF Sendung
  <2>3. \A s \in Seq(Telegramm) : \A i \in 1..Len(s) : s[i].zeit \in Nat
    <3>1. SUFFICES ASSUME NEW s \in Seq(Telegramm), NEW i \in 1..Len(s) PROVE s[i].zeit \in Nat
      OBVIOUS
    <3>2. s[i] \in Telegramm
      BY Glieder
    <3> QED
      BY <3>2 DEF Telegramm
  <2>4. mgrQueue \in Seq(Telegramm) /\ durch \in Seq(Telegramm)
    BY DEF TypeOK
  <2>5. \A e \in Sendungen : luft[e].ab <= zeit'
    BY <2>1, <2>2 DEF Ordnung
  <2>6. /\ \A i \in 1..Len(mgrQueue) : mgrQueue[i].zeit <= zeit'
        /\ \A i \in 1..Len(durch) : durch[i].zeit <= zeit'
    <3>1. /\ \A i \in 1..Len(mgrQueue) : mgrQueue[i].zeit \in Nat /\ mgrQueue[i].zeit <= zeit
          /\ \A i \in 1..Len(durch) : durch[i].zeit \in Nat /\ durch[i].zeit <= zeit
      BY <2>3, <2>4 DEF Ordnung
    <3> QED
      BY <2>1, <3>1
  <2>7. \A g \in Gateways : \A i \in 1..Len(gwQueue[g]) : gwQueue[g][i].zeit = zeit'
    BY <2>1
  <2> QED
    BY <1>1, <2>5, <2>6, <2>7 DEF Ordnung, Sendungen
<1> QED
  BY <1>2, <1>3

LEMMA OrdnungImmer == Spec => []Ordnung
<1>1. Init => Ordnung
  <2> SUFFICES ASSUME Init PROVE Ordnung
    OBVIOUS
  <2>1. /\ Len(luft) = 0 /\ Len(mgrQueue) = 0 /\ Len(durch) = 0
        /\ \A g \in Gateways : Len(gwQueue[g]) = 0
    BY EmptySeq DEF Init
  <2> QED
    BY <2>1 DEF Ordnung, Sendungen, AllePuenktlich, Sortiert
<1>2. TypeOK /\ Ordnung /\ [Next]_vars => Ordnung'
  <2>1. ASSUME Ordnung, UNCHANGED vars PROVE Ordnung'
    BY <2>1 DEF Ordnung, vars, Sendungen
  <2> QED
    BY <2>1, OrdnungSenden, OrdnungHoeren, OrdnungFanIn, OrdnungVerarbeiten,
       OrdnungZeit DEF Next
<1> QED
  BY <1>1, <1>2, TypKorrekt, PTL DEF Spec

LEMMA Kette ==
    ASSUME NEW a \in Nat, NEW b \in Nat, NEW c \in Nat, NEW d \in Nat, NEW l \in Nat,
           a <= b, b <= c, c <= d + l
    PROVE  a <= d + l
BY SMT

\* ReihenfolgeGewahrt: whatever the interleaving of gateways, fan-in tasks and
\* pipeline, and whatever full queues drop, two telegrams that were sent more
\* than one delay apart are handled in that order (manager.py, pipeline.py).
THEOREM ReihenfolgeSicher == Spec => []ReihenfolgeGewahrt
<1>1. TypeOK /\ Ordnung => ReihenfolgeGewahrt
  <2> SUFFICES ASSUME TypeOK, Ordnung,
                      NEW i \in 1..Len(durch), NEW j \in 1..Len(durch), i < j
               PROVE  luft[durch[i].e].ab <= luft[durch[j].e].ab + Laufzeit
    BY DEF ReihenfolgeGewahrt
  <2>1. /\ luft[durch[i].e].ab <= durch[i].zeit
        /\ durch[j].zeit <= luft[durch[j].e].ab + Laufzeit
        /\ durch[i].zeit <= durch[j].zeit
    BY DEF Ordnung, AllePuenktlich, Puenktlich, Sortiert
  <2>2. durch[i] \in Telegramm /\ durch[j] \in Telegramm
    <3>1. durch \in Seq(Telegramm)
      BY DEF TypeOK
    <3> QED
      BY <3>1, Glieder
  <2>3. luft[durch[i].e] \in Sendung /\ luft[durch[j].e] \in Sendung
    <3>1. luft \in Seq(Sendung)
      BY DEF TypeOK, Sendung
    <3>2. durch[i].e \in 1..Len(luft) /\ durch[j].e \in 1..Len(luft)
      BY <2>2 DEF Telegramm, Sendungen
    <3> QED
      BY <3>1, <3>2, Glieder
  <2>4. /\ luft[durch[i].e].ab \in Nat /\ luft[durch[j].e].ab \in Nat
        /\ durch[i].zeit \in Nat /\ durch[j].zeit \in Nat
    BY <2>2, <2>3 DEF Sendung, Telegramm
  <2> QED
    <3> DEFINE A == luft[durch[i].e].ab
               D == luft[durch[j].e].ab
               B == durch[i].zeit
               C == durch[j].zeit
    <3>1. A \in Nat /\ B \in Nat /\ C \in Nat /\ D \in Nat
      BY <2>4
    <3>2. A <= B /\ B <= C /\ C <= D + Laufzeit
      BY <2>1
    <3> HIDE DEF A, B, C, D
    <3>3. A <= D + Laufzeit
      BY <3>1, <3>2, Kette, Zahlen
    <3> QED
      BY <3>3 DEF A, D
<1> QED
  BY <1>1, OrdnungImmer, TypKorrekt, PTL

-----------------------------------------------------------------------------
(* The buffer is the end of what has passed *)

\* How far a stamp is ahead of the true time: what the clock was not set back.
Versatz(t) == t.ts - t.zeit

Echt(l, s) == \A i \in 1..Len(s) : s[i].fp = l[s[i].e].fp

\* A stamp is the clock's, and the clock is only ever set back: the later a
\* telegram was received, the less its stamp is ahead.
Stempel ==
    /\ \A g \in Gateways : \A i \in 1..Len(gwQueue[g]) : gwQueue[g][i].ts = Uhr
    /\ \A i \in 1..Len(mgrQueue) :
          MaxRueck - rueck <= Versatz(mgrQueue[i]) /\ Versatz(mgrQueue[i]) <= MaxRueck
    /\ \A i, j \in 1..Len(mgrQueue) : i < j => Versatz(mgrQueue[j]) <= Versatz(mgrQueue[i])
    /\ \A i \in 1..Len(durch) :
          MaxRueck - rueck <= Versatz(durch[i]) /\ Versatz(durch[i]) <= MaxRueck
    /\ \A i \in 1..Len(durch) : \A j \in 1..Len(mgrQueue) :
          Versatz(mgrQueue[j]) <= Versatz(durch[i])

\* A copy has the fingerprint of its emission.
Inhalt ==
    /\ \A g \in Gateways : Echt(luft, gwQueue[g])
    /\ Echt(luft, mgrQueue) /\ Echt(luft, durch)

\* The buffer holds the last telegrams that passed; the others are forgotten.
Vergessen == Len(durch) - Len(entries)

Spiegel ==
    /\ Vergessen >= 0
    /\ \A k \in 1..Len(entries) :
          entries[k] = Eintrag(durch[Vergessen + k].fp, durch[Vergessen + k].ts)

Gedaechtnis == Stempel /\ Inhalt /\ Spiegel

\* The stamp, the time and the emission of a telegram are numbers.
LEMMA TelegrammZahlen ==
    ASSUME NEW t \in Telegramm
    PROVE  t.ts \in Nat /\ t.zeit \in Nat /\ Versatz(t) \in Int /\ t.e \in 1..Len(luft)
BY Zahlen DEF Telegramm, Versatz, Sendungen

LEMMA GedaechtnisSenden ==
    ASSUME TypeOK, Gedaechtnis, NEW fp \in Frames, Senden(fp)
    PROVE  Gedaechtnis'
<1> DEFINE s == [fp |-> fp, ab |-> zeit]
<1>1. luft \in Seq(Sendung) /\ s \in Sendung /\ luft' = Append(luft, s)
  BY DEF TypeOK, Senden, Sendung
<1> HIDE DEF s
<1>2. \A e \in 1..Len(luft) : luft'[e] = luft[e]
  BY <1>1, Hinten
<1>3. UNCHANGED <<zeit, rueck, gwQueue, mgrQueue, entries, durch>>
  BY DEF Senden
<1>4. ASSUME NEW q \in Seq(Telegramm), Echt(luft, q) PROVE Echt(luft', q)
  <2>1. SUFFICES ASSUME NEW i \in 1..Len(q) PROVE q[i].fp = luft'[q[i].e].fp
    BY DEF Echt
  <2>2. q[i] \in Telegramm
    BY Glieder
  <2>3. luft'[q[i].e] = luft[q[i].e]
    BY <1>2, <2>2, TelegrammZahlen
  <2> QED
    BY <1>4, <2>3 DEF Echt
<1>5. /\ \A g \in Gateways : gwQueue[g] \in Seq(Telegramm)
      /\ mgrQueue \in Seq(Telegramm) /\ durch \in Seq(Telegramm)
  BY DEF TypeOK
<1>6. Inhalt'
  BY <1>3, <1>4, <1>5 DEF Inhalt, Gedaechtnis
<1>7. Stempel' /\ Spiegel'
  <2>1. Uhr' = Uhr /\ Vergessen' = Vergessen
    BY <1>3 DEF Uhr, Vergessen
  <2> QED
    BY <1>3, <2>1 DEF Stempel, Spiegel, Gedaechtnis, Versatz
<1> QED
  BY <1>6, <1>7 DEF Gedaechtnis

LEMMA GedaechtnisHoeren ==
    ASSUME TypeOK, Gedaechtnis, NEW g \in Gateways, NEW e \in 1..Len(luft), Hoeren(g, e)
    PROVE  Gedaechtnis'
<1> DEFINE rx == [e |-> e, fp |-> luft[e].fp, ts |-> Uhr, zeit |-> zeit]
<1>1. UNCHANGED <<zeit, rueck, luft, mgrQueue, entries, durch>>
  BY DEF Hoeren
<1>2. rx \in Telegramm /\ rx.fp = luft[rx.e].fp /\ rx.ts = Uhr
  <2>1. luft \in Seq(Sendung)
    BY DEF TypeOK, Sendung
  <2>2. luft[e] \in Sendung
    BY <2>1, Glieder
  <2>3. Uhr \in 0..(MaxZeit + MaxRueck) /\ zeit \in 0..MaxZeit
    BY UhrTyp DEF TypeOK
  <2> QED
    BY <2>2, <2>3 DEF Telegramm, Sendungen, Sendung
<1>3. gwQueue' = gwQueue \/ gwQueue' = [gwQueue EXCEPT ![g] = Append(gwQueue[g], rx)]
  BY DEF Hoeren
<1> HIDE DEF rx
<1>4. gwQueue[g] \in Seq(Telegramm) /\ gwQueue \in [Gateways -> Seq(Telegramm)]
  BY DEF TypeOK
<1> DEFINE q == Append(gwQueue[g], rx)
<1>5. /\ Len(q) = Len(gwQueue[g]) + 1 /\ Len(gwQueue[g]) \in Nat
      /\ \A i \in 1..Len(gwQueue[g]) : q[i] = gwQueue[g][i]
      /\ q[Len(gwQueue[g]) + 1] = rx
  BY <1>2, <1>4, Hinten
<1>6. \A i \in 1..Len(q) : q[i].ts = Uhr /\ q[i].fp = luft[q[i].e].fp
  <2> HIDE DEF q
  <2>1. \A i \in 1..Len(q) : i \in 1..Len(gwQueue[g]) \/ i = Len(gwQueue[g]) + 1
    BY <1>5
  <2>2. \A i \in 1..Len(gwQueue[g]) :
            gwQueue[g][i].ts = Uhr /\ gwQueue[g][i].fp = luft[gwQueue[g][i].e].fp
    BY DEF Gedaechtnis, Stempel, Inhalt, Echt
  <2> QED
    BY <1>2, <1>5, <2>1, <2>2
<1>7. \A h \in Gateways : gwQueue'[h] = gwQueue[h] \/ gwQueue'[h] = q
  BY <1>3, <1>4
<1> HIDE DEF q
<1>8. \A h \in Gateways : \A i \in 1..Len(gwQueue'[h]) :
         gwQueue'[h][i].ts = Uhr /\ gwQueue'[h][i].fp = luft[gwQueue'[h][i].e].fp
  BY <1>6, <1>7 DEF Gedaechtnis, Stempel, Inhalt, Echt
<1>9. Uhr' = Uhr /\ Vergessen' = Vergessen
  BY <1>1 DEF Uhr, Vergessen
<1> QED
  BY <1>1, <1>8, <1>9 DEF Gedaechtnis, Stempel, Inhalt, Echt, Spiegel, Versatz

LEMMA GedaechtnisFanIn ==
    ASSUME TypeOK, Ordnung, Gedaechtnis, NEW g \in Gateways, FanIn(g)
    PROVE  Gedaechtnis'
<1> DEFINE q == gwQueue[g]
           rx == Head(q)
           rest == Tail(q)
<1>1. /\ UNCHANGED <<zeit, rueck, luft, durch, entries>> /\ q # <<>>
      /\ gwQueue' = [gwQueue EXCEPT ![g] = rest]
      /\ mgrQueue' = mgrQueue \/ mgrQueue' = Append(mgrQueue, rx)
  BY DEF FanIn
<1>2. /\ q \in Seq(Telegramm) /\ gwQueue \in [Gateways -> Seq(Telegramm)]
      /\ mgrQueue \in Seq(Telegramm) /\ durch \in Seq(Telegramm)
  BY DEF TypeOK
<1>3. \A i \in 1..Len(q) : q[i].ts = Uhr /\ q[i].fp = luft[q[i].e].fp /\ q[i].zeit = zeit
  BY DEF Gedaechtnis, Stempel, Inhalt, Echt, Ordnung
<1> HIDE DEF q
<1>4. /\ rx \in Telegramm /\ rx = q[1] /\ 1 \in 1..Len(q)
      /\ \A i \in 1..Len(rest) : i + 1 \in 1..Len(q) /\ rest[i] = q[i + 1]
  <2>1. Len(q) \in Nat /\ Len(q) >= 1
    BY <1>1, <1>2, Vorne
  <2> QED
    BY <1>1, <1>2, <2>1, Vorne
<1> HIDE DEF rx, rest
<1>5. rx.ts = Uhr /\ rx.fp = luft[rx.e].fp /\ rx.zeit = zeit
  BY <1>3, <1>4
<1>6. \A i \in 1..Len(rest) : rest[i].ts = Uhr /\ rest[i].fp = luft[rest[i].e].fp
  BY <1>3, <1>4
<1>7. \A h \in Gateways : gwQueue'[h] = IF h = g THEN rest ELSE gwQueue[h]
  BY <1>1, <1>2
<1>8. \A h \in Gateways : \A i \in 1..Len(gwQueue'[h]) :
         gwQueue'[h][i].ts = Uhr /\ gwQueue'[h][i].fp = luft[gwQueue'[h][i].e].fp
  BY <1>6, <1>7 DEF Gedaechtnis, Stempel, Inhalt, Echt
<1>9. Uhr' = Uhr /\ Vergessen' = Vergessen
  BY <1>1 DEF Uhr, Vergessen
<1>10. Versatz(rx) = MaxRueck - rueck /\ MaxRueck - rueck <= MaxRueck
  <2>1. zeit \in Nat /\ rueck \in Nat /\ MaxRueck \in Nat
    BY Zahlen DEF TypeOK
  <2> QED
    BY <1>5, <2>1 DEF Versatz, Uhr
<1>11. CASE mgrQueue' = mgrQueue
  BY <1>1, <1>8, <1>9, <1>11 DEF Gedaechtnis, Stempel, Inhalt, Echt, Spiegel, Versatz
<1>12. CASE mgrQueue' = Append(mgrQueue, rx)
  <2>1. /\ Len(mgrQueue') = Len(mgrQueue) + 1 /\ Len(mgrQueue) \in Nat
        /\ \A i \in 1..Len(mgrQueue) : mgrQueue'[i] = mgrQueue[i]
        /\ mgrQueue'[Len(mgrQueue) + 1] = rx
    BY <1>2, <1>4, <1>12, Hinten
  <2>2. \A i \in 1..Len(mgrQueue') : i \in 1..Len(mgrQueue) \/ i = Len(mgrQueue) + 1
    BY <2>1
  <2>3. /\ \A i \in 1..Len(mgrQueue) :
              MaxRueck - rueck <= Versatz(mgrQueue[i]) /\ Versatz(mgrQueue[i]) <= MaxRueck
        /\ \A i, j \in 1..Len(mgrQueue) :
              i < j => Versatz(mgrQueue[j]) <= Versatz(mgrQueue[i])
        /\ \A i \in 1..Len(durch) :
              MaxRueck - rueck <= Versatz(durch[i]) /\ Versatz(durch[i]) <= MaxRueck
        /\ \A i \in 1..Len(durch) : \A j \in 1..Len(mgrQueue) :
              Versatz(mgrQueue[j]) <= Versatz(durch[i])
    BY DEF Gedaechtnis, Stempel
  <2>4. \A i \in 1..Len(mgrQueue') :
           MaxRueck - rueck <= Versatz(mgrQueue'[i]) /\ Versatz(mgrQueue'[i]) <= MaxRueck
    <3>1. MaxRueck - rueck \in Int
      BY Zahlen DEF TypeOK
    <3> QED
      BY <1>10, <2>1, <2>2, <2>3, <3>1
  <2>5. ASSUME NEW i \in 1..Len(mgrQueue'), NEW j \in 1..Len(mgrQueue'), i < j
        PROVE  Versatz(mgrQueue'[j]) <= Versatz(mgrQueue'[i])
    <3>1. i \in 1..Len(mgrQueue)
      BY <2>1, <2>5
    <3>2. CASE j \in 1..Len(mgrQueue)
      BY <2>1, <2>3, <2>5, <3>1, <3>2
    <3>3. CASE j = Len(mgrQueue) + 1
      BY <1>10, <2>1, <2>3, <3>1, <3>3
    <3> QED
      BY <2>2, <3>2, <3>3
  <2>6. \A i \in 1..Len(durch) : \A j \in 1..Len(mgrQueue') :
            Versatz(mgrQueue'[j]) <= Versatz(durch[i])
    BY <1>10, <2>1, <2>2, <2>3
  <2>7. \A i \in 1..Len(mgrQueue') : mgrQueue'[i].fp = luft[mgrQueue'[i].e].fp
    <3>1. \A i \in 1..Len(mgrQueue) : mgrQueue[i].fp = luft[mgrQueue[i].e].fp
      BY DEF Gedaechtnis, Inhalt, Echt
    <3> QED
      BY <1>5, <2>1, <2>2, <3>1
  <2>8. Stempel'
    BY <1>1, <1>8, <1>9, <2>3, <2>4, <2>5, <2>6 DEF Stempel, Versatz
  <2>9. Inhalt'
    BY <1>1, <1>8, <2>7 DEF Gedaechtnis, Inhalt, Echt
  <2>10. Spiegel'
    BY <1>1, <1>9 DEF Gedaechtnis, Spiegel
  <2> QED
    BY <2>8, <2>9, <2>10 DEF Gedaechtnis
<1> QED
  BY <1>1, <1>11, <1>12

\* A check, in terms of the telegrams that passed: it forgets those up to v,
\* all older than the window, drops the telegram if one that is not forgotten
\* has its fingerprint, and lets it pass otherwise.
LEMMA Schritt ==
    ASSUME TypeOK, Spiegel, Verarbeiten
    PROVE  LET rx == Head(mgrQueue)
           IN  /\ Spiegel'
               /\ \E v \in Vergessen..Len(durch) :
                     /\ \A i \in (Vergessen + 1)..v : durch[i].ts + Window < rx.ts
                     /\ v < Len(durch) => ~(durch[v + 1].ts + Window < rx.ts)
                     /\ \/ /\ durch' = durch /\ Vergessen' = v
                           /\ \E i \in (v + 1)..Len(durch) : durch[i].fp = rx.fp
                        \/ /\ durch' = Append(durch, rx)
                           /\ Len(entries) < DedupMax => Vergessen' = v
                           /\ \A i \in (v + 1)..Len(durch) : durch[i].fp # rx.fp
<1> DEFINE rx == Head(mgrQueue)
           n == Len(entries)
           V == Vergessen
           e == Eintrag(rx.fp, rx.ts)
           dup == IstDuplikat(entries, rx.fp, rx.ts)
<1>1. rx \in Telegramm
  <2>1. mgrQueue \in Seq(Telegramm) /\ mgrQueue # <<>>
    BY DEF TypeOK, Verarbeiten
  <2> QED
    BY <2>1, Vorne
<1>2. e \in BufferEintrag
  <2> HIDE DEF rx
  <2> QED
    BY <1>1 DEF Telegramm, BufferEintrag, Eintrag
<1>3. /\ entries \in Seq(BufferEintrag) /\ Len(entries) <= DedupMax
      /\ durch \in Seq(Telegramm) /\ n \in Nat /\ Len(durch) \in Nat
  BY DEF TypeOK, BufferEintrag
<1>4. V \in Nat /\ Len(durch) = V + n
  BY <1>3 DEF Spiegel, Vergessen
<1>5. \A k \in 1..n : entries[k].fp = durch[V + k].fp /\ entries[k].ts = durch[V + k].ts
  <2>1. \A k \in 1..n : entries[k] = Eintrag(durch[V + k].fp, durch[V + k].ts)
    BY DEF Spiegel
  <2> HIDE DEF n, V
  <2> TAKE k \in 1..n
  <2>2. entries[k] = [fp |-> durch[V + k].fp, ts |-> durch[V + k].ts]
    BY <2>1 DEF Eintrag
  <2> QED
    BY <2>2
<1>6. /\ durch' = IF dup THEN durch ELSE Append(durch, rx)
      /\ entries' = NachPruefung(entries, rx.fp, rx.ts)
  BY DEF Verarbeiten
<1>7. PICK m \in 0..n, d \in {0, 1} :
         /\ \A i \in 1..m : entries[i].ts + Window < rx.ts
         /\ m < n => ~(entries[m + 1].ts + Window < rx.ts)
         /\ dup => /\ \E i \in (m + 1)..n : entries[i].fp = rx.fp
                   /\ Len(entries') = n - m
                   /\ \A k \in 1..(n - m) : entries'[k] = entries[m + k]
         /\ ~dup => /\ \A i \in (m + 1)..n : entries[i].fp # rx.fp
                    /\ n < DedupMax => d = 0
                    /\ m + d <= n
                    /\ Len(entries') = n - m - d + 1
                    /\ \A k \in 1..(n - m - d) : entries'[k] = entries[m + d + k]
                    /\ entries'[n - m - d + 1] = e
  <2>1. PICK m \in 0..n, d \in {0, 1} : Verbleib(entries, rx.fp, rx.ts, m, d)
    <3> HIDE DEF rx
    <3> QED
      BY <1>2, <1>3, Pruefung
  <2> QED
    BY <1>6, <2>1 DEF Verbleib
<1> HIDE DEF dup, V, n, rx
<1> DEFINE v == V + m
<1>8. /\ v \in V..Len(durch) /\ v \in Nat /\ m \in Nat /\ m <= n
      /\ \A i \in (V + 1)..v : durch[i].ts + Window < rx.ts
      /\ v < Len(durch) => ~(durch[v + 1].ts + Window < rx.ts)
  <2>1. v \in V..Len(durch) /\ v \in Nat /\ m \in Nat /\ m <= n
    BY <1>3, <1>4
  <2>2. ASSUME NEW i \in (V + 1)..v PROVE durch[i].ts + Window < rx.ts
    <3>1. i - V \in 1..m /\ i - V \in 1..n /\ V + (i - V) = i
      BY <1>3, <1>4, <2>1
    <3>2. entries[i - V].ts + Window < rx.ts
      BY <1>7, <3>1
    <3>3. entries[i - V].ts = durch[i].ts
      BY <1>5, <3>1
    <3> QED
      BY <3>2, <3>3
  <2>3. ASSUME v < Len(durch) PROVE ~(durch[v + 1].ts + Window < rx.ts)
    <3>1. m + 1 \in 1..n /\ V + (m + 1) = v + 1 /\ m < n
      BY <1>3, <1>4, <2>1, <2>3
    <3> QED
      BY <1>5, <1>7, <3>1
  <2> QED
    BY <2>1, <2>2, <2>3
<1>9. CASE dup
  <2>1. durch' = durch /\ Len(entries') = n - m
    BY <1>6, <1>7, <1>9
  <2>2. Vergessen' = v /\ v \in Nat
    BY <1>3, <1>4, <1>8, <2>1 DEF Vergessen
  <2>3. \E i \in (v + 1)..Len(durch) : durch[i].fp = rx.fp
    <3>1. PICK i \in (m + 1)..n : entries[i].fp = rx.fp
      BY <1>7, <1>9
    <3>2. V + i \in (v + 1)..Len(durch) /\ i \in 1..n
      BY <1>3, <1>4, <1>8
    <3> QED
      BY <1>5, <3>1, <3>2
  <2>4. ASSUME NEW k \in 1..Len(entries')
        PROVE  entries'[k] = Eintrag(durch'[v + k].fp, durch'[v + k].ts)
    <3>1. k \in 1..(n - m) /\ m + k \in 1..n /\ V + (m + k) = v + k
      BY <1>3, <1>4, <1>8, <2>1
    <3>2. entries[m + k] = Eintrag(durch[V + (m + k)].fp, durch[V + (m + k)].ts)
      BY <3>1 DEF Spiegel, V, n
    <3> QED
      BY <1>7, <1>9, <2>1, <3>1, <3>2
  <2>5. Spiegel'
    <3> HIDE DEF v
    <3>1. Vergessen' >= 0
      BY <2>2
    <3>2. \A k \in 1..Len(entries') :
             entries'[k] = Eintrag(durch'[Vergessen' + k].fp, durch'[Vergessen' + k].ts)
      BY <2>2, <2>4
    <3> QED
      BY <3>1, <3>2 DEF Spiegel
  <2> HIDE DEF v
  <2> QED
    BY <1>8, <2>1, <2>2, <2>3, <2>5 DEF V, rx
<1>10. CASE ~dup
  <2>1. /\ durch' = Append(durch, rx) /\ Len(entries') = n - m - d + 1
        /\ Len(durch') = Len(durch) + 1
        /\ \A i \in 1..Len(durch) : durch'[i] = durch[i]
        /\ durch'[Len(durch) + 1] = rx
    BY <1>1, <1>3, <1>6, <1>7, <1>10, Hinten
  <2>2. Vergessen' = v + d /\ v + d \in Nat /\ d \in {0, 1} /\ m + d <= n
    BY <1>3, <1>4, <1>7, <1>8, <1>10, <2>1 DEF Vergessen
  <2>3. \A i \in (v + 1)..Len(durch) : durch[i].fp # rx.fp
    <3>1. SUFFICES ASSUME NEW i \in (v + 1)..Len(durch) PROVE durch[i].fp # rx.fp
      OBVIOUS
    <3>2. i - V \in (m + 1)..n /\ i - V \in 1..n /\ V + (i - V) = i
      BY <1>3, <1>4, <1>8
    <3> QED
      BY <1>5, <1>7, <1>10, <3>2
  <2>4. ASSUME NEW k \in 1..Len(entries')
        PROVE  entries'[k] = Eintrag(durch'[v + d + k].fp, durch'[v + d + k].ts)
    <3>1. k \in 1..(n - m - d) \/ k = n - m - d + 1
      BY <1>3, <1>8, <2>1, <2>2
    <3>2. CASE k \in 1..(n - m - d)
      <4>1. /\ m + d + k \in 1..n /\ V + (m + d + k) = v + d + k
            /\ v + d + k \in 1..Len(durch)
        BY <1>3, <1>4, <1>8, <2>2, <3>2
      <4>2. entries[m + d + k] =
              Eintrag(durch[V + (m + d + k)].fp, durch[V + (m + d + k)].ts)
        BY <4>1 DEF Spiegel, V, n
      <4>3. entries'[k] = entries[m + d + k]
        BY <1>7, <1>10, <3>2
      <4> QED
        BY <2>1, <4>1, <4>2, <4>3
    <3>3. CASE k = n - m - d + 1
      <4>1. v + d + k = Len(durch) + 1
        BY <1>3, <1>4, <1>8, <2>2, <3>3
      <4>2. entries'[k] = e
        BY <1>7, <1>10, <3>3
      <4> QED
        BY <2>1, <4>1, <4>2
    <3> QED
      BY <3>1, <3>2, <3>3
  <2>5. Spiegel'
    <3> HIDE DEF v
    <3>1. Vergessen' >= 0
      BY <2>2
    <3>2. \A k \in 1..Len(entries') :
             entries'[k] = Eintrag(durch'[Vergessen' + k].fp, durch'[Vergessen' + k].ts)
      BY <2>2, <2>4
    <3> QED
      BY <3>1, <3>2 DEF Spiegel
  <2>6. n < DedupMax => Vergessen' = v
    <3> HIDE DEF v
    <3>1. n < DedupMax => d = 0
      BY <1>7, <1>10
    <3> QED
      BY <1>8, <2>2, <3>1
  <2> HIDE DEF v
  <2> QED
    BY <1>8, <2>1, <2>3, <2>5, <2>6 DEF V, rx, n
<1> QED
  BY <1>9, <1>10

\* What the first of the waiting telegrams is to the others.
LEMMA Erstes ==
    ASSUME TypeOK, Ordnung, Gedaechtnis, mgrQueue # <<>>
    PROVE  LET rx == Head(mgrQueue)
               rest == Tail(mgrQueue)
           IN  /\ rx \in Telegramm /\ rx.fp = luft[rx.e].fp /\ Puenktlich(luft, rx)
               /\ MaxRueck - rueck <= Versatz(rx) /\ Versatz(rx) <= MaxRueck
               /\ rx.zeit <= zeit
               /\ \A i \in 1..Len(durch) :
                     Versatz(rx) <= Versatz(durch[i]) /\ durch[i].zeit <= rx.zeit
               /\ rest \in Seq(Telegramm)
               /\ \A j \in 1..Len(rest) : j + 1 \in 1..Len(mgrQueue) /\ rest[j] = mgrQueue[j + 1]
               /\ \A j \in 1..Len(rest) :
                     Versatz(rest[j]) <= Versatz(rx) /\ rx.zeit <= rest[j].zeit
<1> DEFINE q == mgrQueue
           rx == Head(q)
           rest == Tail(q)
<1>1. q \in Seq(Telegramm) /\ q # <<>>
  BY DEF TypeOK
<1>2. /\ \A i \in 1..Len(q) :
            /\ MaxRueck - rueck <= Versatz(q[i]) /\ Versatz(q[i]) <= MaxRueck
            /\ q[i].fp = luft[q[i].e].fp /\ Puenktlich(luft, q[i]) /\ q[i].zeit <= zeit
      /\ \A i, j \in 1..Len(q) : i < j => Versatz(q[j]) <= Versatz(q[i]) /\ q[i].zeit <= q[j].zeit
      /\ \A i \in 1..Len(durch) : \A j \in 1..Len(q) :
            Versatz(q[j]) <= Versatz(durch[i]) /\ durch[i].zeit <= q[j].zeit
  BY DEF Ordnung, Gedaechtnis, Stempel, Inhalt, Echt, Sortiert, AllePuenktlich
<1> HIDE DEF q
<1>3. /\ rx \in Telegramm /\ rx = q[1] /\ 1 \in 1..Len(q)
      /\ rest \in Seq(Telegramm) /\ Len(q) \in Nat
      /\ \A i \in 1..Len(rest) : i + 1 \in 1..Len(q) /\ rest[i] = q[i + 1]
  <2>1. Len(q) \in Nat /\ Len(q) >= 1
    BY <1>1, Vorne
  <2> QED
    BY <1>1, <2>1, Vorne
<1> HIDE DEF rx, rest
<1>4. \A j \in 1..Len(rest) : Versatz(rest[j]) <= Versatz(rx) /\ rx.zeit <= rest[j].zeit
  <2> TAKE j \in 1..Len(rest)
  <2>1. 1 < j + 1 /\ j + 1 \in 1..Len(q) /\ rest[j] = q[j + 1]
    BY <1>3
  <2> QED
    BY <1>2, <1>3, <2>1
<1>5. /\ rx.fp = luft[rx.e].fp /\ Puenktlich(luft, rx)
      /\ MaxRueck - rueck <= Versatz(rx) /\ Versatz(rx) <= MaxRueck
      /\ rx.zeit <= zeit
      /\ \A i \in 1..Len(durch) : Versatz(rx) <= Versatz(durch[i]) /\ durch[i].zeit <= rx.zeit
  BY <1>2, <1>3
<1> QED
  BY <1>3, <1>4, <1>5 DEF q, rx, rest

LEMMA GedaechtnisVerarbeiten ==
    ASSUME TypeOK, Ordnung, Gedaechtnis, Verarbeiten
    PROVE  Gedaechtnis'
<1> DEFINE rx == Head(mgrQueue)
           rest == Tail(mgrQueue)
<1>1. /\ UNCHANGED <<zeit, rueck, luft, gwQueue>> /\ mgrQueue # <<>> /\ mgrQueue' = rest
  BY DEF Verarbeiten
<1>2. Spiegel' /\ (durch' = durch \/ durch' = Append(durch, rx))
  BY Schritt DEF Gedaechtnis
<1>3. /\ rx \in Telegramm /\ rx.fp = luft[rx.e].fp
      /\ MaxRueck - rueck <= Versatz(rx) /\ Versatz(rx) <= MaxRueck
      /\ \A i \in 1..Len(durch) : Versatz(rx) <= Versatz(durch[i])
      /\ rest \in Seq(Telegramm)
      /\ \A j \in 1..Len(rest) : j + 1 \in 1..Len(mgrQueue) /\ rest[j] = mgrQueue[j + 1]
      /\ \A j \in 1..Len(rest) : Versatz(rest[j]) <= Versatz(rx)
  BY <1>1, Erstes
<1> HIDE DEF rx, rest
<1>4. durch \in Seq(Telegramm)
  BY DEF TypeOK
<1>5. /\ \A i \in 1..Len(mgrQueue) :
            /\ MaxRueck - rueck <= Versatz(mgrQueue[i]) /\ Versatz(mgrQueue[i]) <= MaxRueck
            /\ mgrQueue[i].fp = luft[mgrQueue[i].e].fp
      /\ \A i, j \in 1..Len(mgrQueue) : i < j => Versatz(mgrQueue[j]) <= Versatz(mgrQueue[i])
      /\ \A i \in 1..Len(durch) :
            /\ MaxRueck - rueck <= Versatz(durch[i]) /\ Versatz(durch[i]) <= MaxRueck
            /\ durch[i].fp = luft[durch[i].e].fp
      /\ \A i \in 1..Len(durch) : \A j \in 1..Len(mgrQueue) :
            Versatz(mgrQueue[j]) <= Versatz(durch[i])
  BY DEF Gedaechtnis, Stempel, Inhalt, Echt
<1>6. \A i \in 1..Len(durch') :
         \/ i \in 1..Len(durch) /\ durch'[i] = durch[i]
         \/ durch'[i] = rx
  <2>1. CASE durch' = durch
    BY <2>1
  <2>2. CASE durch' = Append(durch, rx)
    <3>1. /\ Len(durch') = Len(durch) + 1 /\ Len(durch) \in Nat
          /\ \A i \in 1..Len(durch) : durch'[i] = durch[i]
          /\ durch'[Len(durch) + 1] = rx
      BY <1>3, <1>4, <2>2, Hinten
    <3> QED
      BY <3>1
  <2> QED
    BY <1>2, <2>1, <2>2
<1>7. \A i \in 1..Len(durch') :
         /\ MaxRueck - rueck <= Versatz(durch'[i]) /\ Versatz(durch'[i]) <= MaxRueck
         /\ durch'[i].fp = luft[durch'[i].e].fp
         /\ \A j \in 1..Len(rest) : Versatz(rest[j]) <= Versatz(durch'[i])
  <2> TAKE i \in 1..Len(durch')
  <2>1. CASE i \in 1..Len(durch) /\ durch'[i] = durch[i]
    BY <1>3, <1>5, <2>1
  <2>2. CASE durch'[i] = rx
    BY <1>3, <2>2
  <2> QED
    BY <1>6, <2>1, <2>2
<1>8. \A i \in 1..Len(rest) :
         /\ MaxRueck - rueck <= Versatz(rest[i]) /\ Versatz(rest[i]) <= MaxRueck
         /\ rest[i].fp = luft[rest[i].e].fp
  BY <1>3, <1>5
<1>9. \A i, j \in 1..Len(rest) : i < j => Versatz(rest[j]) <= Versatz(rest[i])
  <2> SUFFICES ASSUME NEW i \in 1..Len(rest), NEW j \in 1..Len(rest), i < j
               PROVE  Versatz(rest[j]) <= Versatz(rest[i])
    OBVIOUS
  <2>1. i + 1 \in 1..Len(mgrQueue) /\ j + 1 \in 1..Len(mgrQueue) /\ i + 1 < j + 1
    BY <1>3
  <2> QED
    BY <1>3, <1>5, <2>1
<1>10. /\ \A g \in Gateways : \A i \in 1..Len(gwQueue[g]) : gwQueue[g][i].ts = Uhr
       /\ \A g \in Gateways : Echt(luft, gwQueue[g])
  BY DEF Gedaechtnis, Stempel, Inhalt
<1>11. Uhr' = Uhr
  BY <1>1 DEF Uhr
<1>12. Stempel'
  BY <1>1, <1>7, <1>8, <1>9, <1>10, <1>11 DEF Stempel, Versatz
<1>13. Inhalt'
  BY <1>1, <1>7, <1>8, <1>10 DEF Inhalt, Echt
<1> QED
  BY <1>2, <1>12, <1>13 DEF Gedaechtnis

LEMMA GedaechtnisZeit ==
    ASSUME TypeOK, Gedaechtnis, Tick \/ UhrZurueck
    PROVE  Gedaechtnis'
<1>1. UNCHANGED <<luft, gwQueue, mgrQueue, durch, entries>>
      /\ \A g \in Gateways : Len(gwQueue[g]) = 0
  BY EmptySeq DEF Tick, UhrZurueck
<1>2. Inhalt' /\ Spiegel'
  BY <1>1 DEF Gedaechtnis, Inhalt, Spiegel, Vergessen
<1>3. \A s \in Seq(Telegramm) : \A i \in 1..Len(s) : Versatz(s[i]) \in Int
  <2> SUFFICES ASSUME NEW s \in Seq(Telegramm), NEW i \in 1..Len(s)
               PROVE  Versatz(s[i]) \in Int
    OBVIOUS
  <2> QED
    BY Glieder, TelegrammZahlen
<1>4. MaxRueck - rueck' <= MaxRueck - rueck /\ MaxRueck - rueck' \in Int /\ MaxRueck - rueck \in Int
  <2>1. MaxRueck \in Nat /\ rueck \in Nat
    BY Zahlen DEF TypeOK
  <2>2. (rueck' = rueck) \/ (rueck = 0 /\ rueck' \in 1..MaxRueck)
    BY DEF Tick, UhrZurueck
  <2> QED
    BY <2>1, <2>2
<1>5. /\ mgrQueue \in Seq(Telegramm) /\ durch \in Seq(Telegramm)
      /\ \A g \in Gateways : \A i \in 1..Len(gwQueue[g]) : FALSE
  BY <1>1 DEF TypeOK
<1>6. Stempel'
  <2>1. /\ \A i \in 1..Len(mgrQueue) : MaxRueck - rueck' <= Versatz(mgrQueue[i])
        /\ \A i \in 1..Len(durch) : MaxRueck - rueck' <= Versatz(durch[i])
    BY <1>3, <1>4, <1>5 DEF Gedaechtnis, Stempel
  <2> QED
    BY <1>1, <1>5, <2>1 DEF Gedaechtnis, Stempel, Versatz
<1> QED
  BY <1>2, <1>6 DEF Gedaechtnis

LEMMA GedaechtnisImmer == Spec => []Gedaechtnis
<1>1. Init => Gedaechtnis
  <2> SUFFICES ASSUME Init PROVE Gedaechtnis
    OBVIOUS
  <2>1. /\ Len(mgrQueue) = 0 /\ Len(durch) = 0 /\ Len(entries) = 0
        /\ \A g \in Gateways : Len(gwQueue[g]) = 0
    BY EmptySeq DEF Init
  <2> QED
    BY <2>1 DEF Gedaechtnis, Stempel, Inhalt, Echt, Spiegel, Vergessen
<1>2. TypeOK /\ Ordnung /\ Gedaechtnis /\ [Next]_vars => Gedaechtnis'
  <2>1. ASSUME Gedaechtnis, UNCHANGED vars PROVE Gedaechtnis'
    BY <2>1 DEF Gedaechtnis, Stempel, Inhalt, Spiegel, Vergessen, Uhr, vars
  <2> QED
    BY <2>1, GedaechtnisSenden, GedaechtnisHoeren, GedaechtnisFanIn,
       GedaechtnisVerarbeiten, GedaechtnisZeit DEF Next
<1> QED
  BY <1>1, <1>2, TypKorrekt, OrdnungImmer, PTL DEF Spec

-----------------------------------------------------------------------------
(* What is dropped as a duplicate *)

LEMMA Abstand ==
    ASSUME NEW rz \in Nat, NEW rt \in Nat, NEW fz \in Nat, NEW ft \in Nat, NEW dz \in Nat,
           NEW w \in Nat, NEW m \in Nat, NEW r \in Nat,
           ~(ft + w < rt), m - r <= rt - rz, ft - fz <= m, fz <= dz
    PROVE  rz - dz <= w + r
BY SMT

\* What drops a telegram is one of the same fingerprint in the buffer, and the
\* buffer's first entry, which is older, is within the window.
LEMMA Fenster ==
    ASSUME TypeOK, Ordnung, Gedaechtnis, Verarbeiten, durch' = durch
    PROVE  \E i \in 1..Len(durch) :
              /\ durch[i].fp = Head(mgrQueue).fp
              /\ Head(mgrQueue).zeit - durch[i].zeit <= Window + rueck
<1> DEFINE rx == Head(mgrQueue)
<1>1. durch \in Seq(Telegramm) /\ Len(durch) \in Nat /\ rueck \in Nat
  BY DEF TypeOK
<1>2. mgrQueue # <<>>
  BY DEF Verarbeiten
<1>3. rx \in Telegramm /\ MaxRueck - rueck <= Versatz(rx)
  BY <1>2, Erstes
<1>4. PICK v \in Vergessen..Len(durch) :
         /\ v < Len(durch) => ~(durch[v + 1].ts + Window < rx.ts)
         /\ \/ \E i \in (v + 1)..Len(durch) : durch[i].fp = rx.fp
            \/ durch' = Append(durch, rx)
  BY Schritt DEF Gedaechtnis
<1> HIDE DEF rx
<1>5. durch' # Append(durch, rx)
  <2>1. Len(Append(durch, rx)) = Len(durch) + 1
    BY <1>1, <1>3, Hinten
  <2> QED
    BY <1>1, <2>1
<1>6. PICK i \in (v + 1)..Len(durch) : durch[i].fp = rx.fp
  BY <1>4, <1>5
<1>7. v \in Int /\ Vergessen \in Nat /\ v >= Vergessen
  BY <1>1 DEF Gedaechtnis, Spiegel, Vergessen, TypeOK
<1>8. v < Len(durch) /\ v + 1 \in 1..Len(durch) /\ i \in 1..Len(durch) /\ (v + 1 < i \/ v + 1 = i)
  BY <1>1, <1>6, <1>7
<1> DEFINE f == durch[v + 1]
           d == durch[i]
<1>9. f \in Telegramm /\ d \in Telegramm
  BY <1>1, <1>8, Glieder
<1>10. Versatz(f) <= MaxRueck
  BY <1>8 DEF Gedaechtnis, Stempel
<1>11. f.zeit <= d.zeit
  <2>1. CASE v + 1 < i
    BY <1>8, <2>1 DEF Ordnung, Sortiert
  <2>2. CASE v + 1 = i
    <3>1. f.zeit = d.zeit /\ f.zeit \in Nat
      BY <1>9, <2>2, TelegrammZahlen
    <3> QED
      BY <3>1
  <2> QED
    BY <1>8, <2>1, <2>2
<1>12. ~(f.ts + Window < rx.ts)
  BY <1>4, <1>8
<1> HIDE DEF f, d
<1>13. rx.zeit - d.zeit <= Window + rueck
  <2> DEFINE rz == rx.zeit
             rt == rx.ts
             fz == f.zeit
             ft == f.ts
             dz == d.zeit
  <2>1. rz \in Nat /\ rt \in Nat /\ fz \in Nat /\ ft \in Nat /\ dz \in Nat
    BY <1>3, <1>9, TelegrammZahlen
  <2>2. ~(ft + Window < rt) /\ MaxRueck - rueck <= rt - rz /\ ft - fz <= MaxRueck /\ fz <= dz
    BY <1>3, <1>10, <1>11, <1>12 DEF Versatz
  <2> HIDE DEF rz, rt, fz, ft, dz
  <2>3. rz - dz <= Window + rueck
    BY <1>1, <2>1, <2>2, Abstand, Zahlen
  <2> QED
    BY <2>3 DEF rz, dz
<1> QED
  BY <1>6, <1>8, <1>13 DEF d, rx

\* Only the pipeline takes from the manager's queue.
LEMMA NurVerarbeitenNimmt ==
    ASSUME TypeOK, [Next]_vars, mgrQueue # <<>>, mgrQueue' = Tail(mgrQueue)
    PROVE  Verarbeiten
<1>1. mgrQueue \in Seq(Telegramm)
  BY DEF TypeOK
<1>2. Len(mgrQueue) \in Nat /\ Len(mgrQueue) >= 1 /\ Len(mgrQueue') = Len(mgrQueue) - 1
  BY <1>1, Vorne
<1>3. mgrQueue' # mgrQueue
  <2>1. ASSUME mgrQueue' = mgrQueue PROVE FALSE
    <3>1. Len(mgrQueue) = Len(mgrQueue) - 1
      BY <1>2, <2>1
    <3> DEFINE n == Len(mgrQueue)
    <3>2. n \in Nat /\ n = n - 1
      BY <1>2, <3>1
    <3> HIDE DEF n
    <3> QED
      BY <3>2
  <2> QED
    BY <2>1
<1>4. ASSUME NEW g \in Gateways, FanIn(g) PROVE FALSE
  <2> DEFINE t == Head(gwQueue[g])
  <2>1. mgrQueue' = Append(mgrQueue, t)
    BY <1>3, <1>4 DEF FanIn
  <2>2. t \in Telegramm
    <3>1. gwQueue[g] \in Seq(Telegramm) /\ gwQueue[g] # <<>>
      BY <1>4 DEF TypeOK, FanIn
    <3> QED
      BY <3>1, Vorne
  <2> HIDE DEF t
  <2>3. Len(mgrQueue') = Len(mgrQueue) + 1
    BY <1>1, <2>1, <2>2, Hinten
  <2> QED
    BY <1>2, <2>3
<1> QED
  BY <1>3, <1>4 DEF Next, vars, Senden, Hoeren, Tick, UhrZurueck

\* VerworfenNurImFenster: a telegram is dropped as a duplicate only if one of
\* the same fingerprint passed at most a window, and what the clock was set
\* back, before it (cascade.py, is_duplicate); for every window, buffer limit
\* and delay.
THEOREM FensterSicher == Spec => VerworfenNurImFenster
<1> DEFINE A == mgrQueue # <<>> /\ mgrQueue' = Tail(mgrQueue) /\ durch' = durch
                   => \E i \in 1..Len(durch) :
                         /\ durch[i].fp = Head(mgrQueue).fp
                         /\ Head(mgrQueue).zeit - durch[i].zeit <= Window + rueck
<1>1. TypeOK /\ Ordnung /\ Gedaechtnis /\ [Next]_vars => [A]_vars
  BY Fenster, NurVerarbeitenNimmt
<1>2. VerworfenNurImFenster <=> [][A]_vars
  BY DEF VerworfenNurImFenster
<1> HIDE DEF A
<1> QED
  BY <1>1, <1>2, TypKorrekt, OrdnungImmer, GedaechtnisImmer, PTL DEF Spec

-----------------------------------------------------------------------------
(* Every emission gets through *)

Enthaelt(s, e) == \E i \in 1..Len(s) : s[i].e = e

\* The first of a queue is taken; who waited further back still waits.
LEMMA NochDa ==
    ASSUME NEW s \in Seq(Telegramm), s # <<>>, NEW e, Enthaelt(s, e), Head(s).e # e
    PROVE  Enthaelt(Tail(s), e)
<1>1. PICK i \in 1..Len(s) : s[i].e = e
  BY DEF Enthaelt
<1>2. /\ Head(s) = s[1] /\ Len(s) \in Nat /\ Len(Tail(s)) = Len(s) - 1
      /\ \A j \in 1..Len(Tail(s)) : Tail(s)[j] = s[j + 1]
  BY Vorne
<1>3. i # 1
  BY <1>1, <1>2
<1>4. i - 1 \in 1..Len(Tail(s)) /\ (i - 1) + 1 = i
  BY <1>2, <1>3
<1>5. Tail(s)[i - 1] = s[i]
  BY <1>2, <1>4
<1> QED
  BY <1>1, <1>4, <1>5 DEF Enthaelt

\* Who waits in a queue still waits when another telegram is put at its end.
LEMMA AuchDa ==
    ASSUME NEW s \in Seq(Telegramm), NEW t \in Telegramm, NEW e
    PROVE  Enthaelt(s, e) \/ t.e = e => Enthaelt(Append(s, t), e)
<1>1. /\ Len(Append(s, t)) = Len(s) + 1 /\ Len(s) \in Nat
      /\ \A i \in 1..Len(s) : Append(s, t)[i] = s[i]
      /\ Append(s, t)[Len(s) + 1] = t
  BY Hinten
<1> DEFINE r == Append(s, t)
<1> HIDE DEF r
<1>2. ASSUME Enthaelt(s, e) PROVE Enthaelt(r, e)
  <2>1. PICK i \in 1..Len(s) : s[i].e = e
    BY <1>2 DEF Enthaelt
  <2>2. i \in 1..Len(r) /\ r[i] = s[i]
    BY <1>1 DEF r
  <2> QED
    BY <2>1, <2>2 DEF Enthaelt
<1>3. ASSUME t.e = e PROVE Enthaelt(r, e)
  <2>1. Len(s) + 1 \in 1..Len(r) /\ r[Len(s) + 1] = t
    BY <1>1 DEF r
  <2> QED
    BY <1>3, <2>1 DEF Enthaelt
<1> QED
  BY <1>2, <1>3 DEF r

LEMMA WartetForm ==
    ASSUME NEW e
    PROVE  /\ Wartet(e) <=> Enthaelt(mgrQueue, e) \/ \E g \in Gateways : Enthaelt(gwQueue[g], e)
           /\ Wartet(e)' <=> Enthaelt(mgrQueue', e) \/ \E g \in Gateways : Enthaelt(gwQueue'[g], e)
BY DEF Wartet, Enthaelt

LEMMA Nachbar ==
    ASSUME NEW a \in Nat, NEW b \in Nat, NEW rz \in Nat, NEW dz \in Nat,
           NEW w \in Nat, NEW l \in Nat, NEW r \in Nat,
           a <= rz, rz <= a + l, b <= dz, dz <= b + l, dz <= rz, rz - dz <= w + r
    PROVE  ~(a - b > w + l + r) /\ ~(b - a > w + l + r)
BY SMT

\* A telegram of an emission that nobody repeats is no duplicate of another's.
LEMMA AlleinKommtDurch ==
    ASSUME TypeOK, Ordnung, Gedaechtnis, Verarbeiten,
           NEW e \in Sendungen, Head(mgrQueue).e = e, Allein(e)
    PROVE  Durchgelassen(e)'
<1> DEFINE rx == Head(mgrQueue)
<1>1. durch \in Seq(Telegramm) /\ mgrQueue # <<>> /\ rueck \in Nat
  BY DEF TypeOK, Verarbeiten
<1>2. /\ rx \in Telegramm /\ rx.fp = luft[rx.e].fp /\ Puenktlich(luft, rx)
      /\ \A i \in 1..Len(durch) : durch[i].zeit <= rx.zeit
  BY <1>1, Erstes
<1>3. durch' = durch \/ durch' = Append(durch, rx)
  BY Schritt DEF Gedaechtnis
<1>4. CASE durch' = Append(durch, rx)
  <2>1. rx.e = e
    OBVIOUS
  <2> HIDE DEF rx
  <2>2. Enthaelt(durch', e)
    BY <1>1, <1>2, <1>4, <2>1, AuchDa
  <2> QED
    BY <2>2 DEF Durchgelassen, Enthaelt
<1>5. CASE durch' = durch
  <2>1. PICK i \in 1..Len(durch) :
           durch[i].fp = rx.fp /\ rx.zeit - durch[i].zeit <= Window + rueck
    BY <1>5, Fenster
  <2> HIDE DEF rx
  <2> DEFINE d == durch[i]
  <2>2. /\ d \in Telegramm /\ d.fp = luft[d.e].fp /\ Puenktlich(luft, d) /\ d.zeit <= rx.zeit
    <3>1. d \in Telegramm
      BY <1>1, Glieder
    <3> QED
      BY <1>2, <3>1 DEF Gedaechtnis, Inhalt, Echt, Ordnung, AllePuenktlich
  <2>3. d.fp = rx.fp /\ rx.zeit - d.zeit <= Window + rueck
    BY <2>1
  <2> HIDE DEF d
  <2>4. CASE d.e = rx.e
    <3>1. durch'[i].e = e /\ i \in 1..Len(durch')
      BY <1>5, <2>4 DEF d, rx
    <3> QED
      BY <3>1 DEF Durchgelassen
  <2>5. CASE d.e # rx.e
    <3> DEFINE a == luft[rx.e].ab
               b == luft[d.e].ab
               rz == rx.zeit
               dz == d.zeit
    <3>1. rx.e \in Sendungen /\ d.e \in Sendungen
      BY <1>2, <2>2 DEF Telegramm
    <3>2. luft[rx.e] \in Sendung /\ luft[d.e] \in Sendung
      <4>1. luft \in Seq(Sendung)
        BY DEF TypeOK, Sendung
      <4> QED
        BY <3>1, <4>1, Glieder DEF Sendungen
    <3>3. a \in Nat /\ b \in Nat /\ rz \in Nat /\ dz \in Nat
      BY <1>2, <2>2, <3>2, TelegrammZahlen DEF Sendung
    <3>4. a <= rz /\ rz <= a + Laufzeit /\ b <= dz /\ dz <= b + Laufzeit /\ dz <= rz
      BY <1>2, <2>2 DEF Puenktlich
    <3>5. rz - dz <= Window + rueck
      BY <2>3
    <3>6. \/ a - b > Window + Laufzeit + rueck
          \/ b - a > Window + Laufzeit + rueck
      <4>1. luft[d.e].fp = luft[rx.e].fp /\ d.e \in Sendungen \ {rx.e}
        BY <1>2, <2>2, <2>3, <2>5, <3>1
      <4> QED
        BY <4>1 DEF Allein, rx
    <3> HIDE DEF a, b, rz, dz
    <3>7. ~(a - b > Window + Laufzeit + rueck) /\ ~(b - a > Window + Laufzeit + rueck)
      BY <1>1, <3>3, <3>4, <3>5, Nachbar, Zahlen
    <3> QED
      BY <3>6, <3>7
  <2> QED
    BY <2>4, <2>5
<1> QED
  BY <1>3, <1>4, <1>5

LEMMA KommtDurchSchritt ==
    ASSUME TypeOK, Ordnung, Gedaechtnis, [Next]_vars,
           NEW e \in Sendungen, Wartet(e), ~(Wartet(e)')
    PROVE  Durchgelassen(e)' \/ e \in verloren' \/ ~Allein(e)
<1>1. /\ gwQueue \in [Gateways -> Seq(Telegramm)]
      /\ mgrQueue \in Seq(Telegramm)
  BY DEF TypeOK
<1>2. ASSUME UNCHANGED <<gwQueue, mgrQueue>> PROVE FALSE
  BY <1>2 DEF Wartet
<1>3. ASSUME NEW g \in Gateways, NEW f \in 1..Len(luft), Hoeren(g, f) PROVE FALSE
  <2> DEFINE rx == [e |-> f, fp |-> luft[f].fp, ts |-> Uhr, zeit |-> zeit]
  <2>1. mgrQueue' = mgrQueue /\ gwQueue' # gwQueue
    BY <1>2, <1>3 DEF Hoeren
  <2>2. gwQueue' = [gwQueue EXCEPT ![g] = Append(gwQueue[g], rx)]
    BY <1>3, <2>1 DEF Hoeren
  <2>3. TypeOK'
    BY <1>3, TypHoeren
  <2>4. rx \in Telegramm
    <3>1. luft \in Seq(Sendung)
      BY DEF TypeOK, Sendung
    <3>2. luft[f] \in Sendung
      BY <3>1, Glieder
    <3>3. Uhr \in 0..(MaxZeit + MaxRueck) /\ zeit \in 0..MaxZeit
      BY UhrTyp DEF TypeOK
    <3> QED
      BY <3>2, <3>3 DEF Telegramm, Sendungen, Sendung
  <2> HIDE DEF rx
  <2>5. CASE Enthaelt(mgrQueue, e)
    BY <2>1, <2>5, WartetForm
  <2>6. CASE \E h \in Gateways : Enthaelt(gwQueue[h], e)
    <3>1. PICK h \in Gateways : Enthaelt(gwQueue[h], e)
      BY <2>6
    <3>2. gwQueue'[h] = gwQueue[h] \/ gwQueue'[h] = Append(gwQueue[h], rx)
      BY <1>1, <2>2
    <3>3. Enthaelt(gwQueue'[h], e)
      BY <1>1, <2>4, <3>1, <3>2, AuchDa
    <3> QED
      BY <3>3, WartetForm
  <2> QED
    BY <2>5, <2>6, WartetForm
<1>4. ASSUME NEW g \in Gateways, FanIn(g), e \notin verloren' PROVE FALSE
  <2> DEFINE rx == Head(gwQueue[g])
             rest == Tail(gwQueue[g])
  <2>1. /\ gwQueue[g] # <<>> /\ gwQueue' = [gwQueue EXCEPT ![g] = rest]
        /\ \/ mgrQueue' = Append(mgrQueue, rx)
           \/ mgrQueue' = mgrQueue /\ rx.e # e
    BY <1>4 DEF FanIn
  <2>2. rx \in Telegramm
    BY <1>1, <2>1, Vorne
  <2>3. CASE Enthaelt(mgrQueue, e)
    <3> HIDE DEF rx
    <3>1. Enthaelt(mgrQueue', e)
      BY <1>1, <2>1, <2>2, <2>3, AuchDa
    <3> QED
      BY <3>1, WartetForm
  <2>4. CASE \E h \in Gateways : Enthaelt(gwQueue[h], e)
    <3>1. PICK h \in Gateways : Enthaelt(gwQueue[h], e)
      BY <2>4
    <3>2. CASE h # g
      <4>1. gwQueue'[h] = gwQueue[h]
        BY <1>1, <2>1, <3>2
      <4> QED
        BY <3>1, <4>1, WartetForm
    <3>3. CASE h = g /\ rx.e # e
      <4>1. Enthaelt(rest, e)
        BY <1>1, <2>1, <3>1, <3>3, NochDa
      <4>2. gwQueue'[g] = rest
        BY <1>1, <2>1
      <4> HIDE DEF rest
      <4> QED
        BY <4>1, <4>2, WartetForm
    <3>4. CASE h = g /\ rx.e = e
      <4> HIDE DEF rx
      <4>1. mgrQueue' = Append(mgrQueue, rx)
        BY <2>1, <3>4
      <4>2. Enthaelt(mgrQueue', e)
        BY <1>1, <2>2, <3>4, <4>1, AuchDa
      <4> QED
        BY <4>2, WartetForm
    <3> QED
      BY <3>2, <3>3, <3>4
  <2> QED
    BY <2>3, <2>4, WartetForm
<1>5. ASSUME Verarbeiten PROVE Durchgelassen(e)' \/ ~Allein(e)
  <2>1. gwQueue' = gwQueue /\ mgrQueue # <<>> /\ mgrQueue' = Tail(mgrQueue)
    BY <1>5 DEF Verarbeiten
  <2>2. Enthaelt(mgrQueue, e)
    BY <2>1, WartetForm
  <2>3. Head(mgrQueue).e = e
    <3>1. ASSUME Head(mgrQueue).e # e PROVE FALSE
      <4>1. Enthaelt(Tail(mgrQueue), e)
        BY <1>1, <2>1, <2>2, <3>1, NochDa
      <4> QED
        BY <2>1, <4>1, WartetForm
    <3> QED
      BY <3>1
  <2> QED
    BY <1>5, <2>3, AlleinKommtDurch
<1> QED
  BY <1>2, <1>3, <1>4, <1>5 DEF Next, vars, Senden, Tick, UhrZurueck

\* KommtDurch: whatever the interleaving and the loss at full queues, an
\* emission a gateway has heard gets through the cascade, unless the same frame
\* was sent around the same time or a full queue took it.
THEOREM KommtDurchSicher == Spec => KommtDurch
<1> DEFINE A == \A e \in Sendungen :
                   Wartet(e) /\ ~(Wartet(e)')
                      => \/ Durchgelassen(e)' \/ e \in verloren' \/ ~Allein(e)
<1>1. TypeOK /\ Ordnung /\ Gedaechtnis /\ [Next]_vars => [A]_vars
  BY KommtDurchSchritt
<1>2. KommtDurch <=> [][A]_vars
  BY DEF KommtDurch
<1> HIDE DEF A
<1> QED
  BY <1>1, <1>2, TypKorrekt, OrdnungImmer, GedaechtnisImmer, PTL DEF Spec

-----------------------------------------------------------------------------
(* At most once *)

\* The buffer never holds as many entries as it may: nothing is forgotten
\* before it has expired.
PufferReicht == Len(entries) < DedupMax

\* What is forgotten was received more than a window before whatever waits, and
\* before now.
Abgelaufen ==
    \A i \in 1..Vergessen :
        /\ durch[i].zeit + Window < zeit
        /\ \A j \in 1..Len(mgrQueue) : durch[i].zeit + Window < mgrQueue[j].zeit

LEMMA Frueher ==
    ASSUME NEW dz \in Nat, NEW dt \in Nat, NEW rz \in Nat, NEW rt \in Nat, NEW w \in Nat,
           dt + w < rt, rt - rz <= dt - dz
    PROVE  dz + w < rz
BY SMT

\* A telegram stamped more than a window before another was received more than
\* a window before it: the clock is never set forward.
LEMMA Gestempelt ==
    ASSUME NEW d \in Telegramm, NEW rx \in Telegramm, Versatz(rx) <= Versatz(d),
           d.ts + Window < rx.ts
    PROVE  d.zeit + Window < rx.zeit
<1> DEFINE dz == d.zeit
           dt == d.ts
           rz == rx.zeit
           rt == rx.ts
<1>1. dz \in Nat /\ dt \in Nat /\ rz \in Nat /\ rt \in Nat
  BY TelegrammZahlen
<1>2. dt + Window < rt /\ rt - rz <= dt - dz
  BY DEF Versatz
<1> HIDE DEF dz, dt, rz, rt
<1>3. dz + Window < rz
  BY <1>1, <1>2, Frueher, Zahlen
<1> QED
  BY <1>3 DEF dz, rz

LEMMA AbgelaufenVerarbeiten ==
    ASSUME TypeOK, Ordnung, Gedaechtnis, Abgelaufen, PufferReicht, Verarbeiten
    PROVE  Abgelaufen'
<1> DEFINE rx == Head(mgrQueue)
           rest == Tail(mgrQueue)
<1>1. durch \in Seq(Telegramm) /\ Len(durch) \in Nat /\ Vergessen \in Nat /\ zeit \in Nat
  BY DEF TypeOK, Gedaechtnis, Spiegel, Vergessen
<1>2. mgrQueue # <<>> /\ mgrQueue' = rest /\ zeit' = zeit
  BY DEF Verarbeiten
<1>3. /\ rx \in Telegramm /\ rx.zeit <= zeit
      /\ \A i \in 1..Len(durch) : Versatz(rx) <= Versatz(durch[i])
      /\ rest \in Seq(Telegramm)
      /\ \A j \in 1..Len(rest) : j + 1 \in 1..Len(mgrQueue) /\ rest[j] = mgrQueue[j + 1]
      /\ \A j \in 1..Len(rest) : rx.zeit <= rest[j].zeit
  BY <1>2, Erstes
<1>4. PICK v \in Vergessen..Len(durch) :
         /\ \A i \in (Vergessen + 1)..v : durch[i].ts + Window < rx.ts
         /\ Vergessen' = v
         /\ durch' = durch \/ durch' = Append(durch, rx)
  BY Schritt DEF Gedaechtnis, PufferReicht
<1> HIDE DEF rx, rest
<1>5. \A i \in 1..Len(durch) : durch'[i] = durch[i]
  BY <1>1, <1>3, <1>4, Hinten
<1>6. SUFFICES ASSUME NEW i \in 1..v
               PROVE  /\ durch[i].zeit + Window < zeit
                      /\ \A j \in 1..Len(rest) : durch[i].zeit + Window < rest[j].zeit
  <2>1. \A i \in 1..v : i \in 1..Len(durch)
    BY <1>1, <1>4
  <2> QED
    BY <1>2, <1>4, <1>5, <2>1 DEF Abgelaufen
<1>7. i \in 1..Len(durch) /\ v \in Nat
  BY <1>1, <1>4
<1>8. CASE i \in 1..Vergessen
  BY <1>3, <1>8 DEF Abgelaufen
<1>9. CASE i \in (Vergessen + 1)..v
  <2>1. durch[i] \in Telegramm
    BY <1>1, <1>7, Glieder
  <2>2. durch[i].zeit + Window < rx.zeit
    BY <1>3, <1>4, <1>7, <1>9, <2>1, Gestempelt
  <2>3. rx.zeit \in Nat /\ durch[i].zeit + Window \in Nat
    BY <1>3, <2>1, TelegrammZahlen, Zahlen
  <2>4. \A j \in 1..Len(rest) : rest[j].zeit \in Nat
    <3> SUFFICES ASSUME NEW j \in 1..Len(rest) PROVE rest[j].zeit \in Nat
      OBVIOUS
    <3>1. rest[j] \in Telegramm
      BY <1>3, Glieder
    <3> QED
      BY <3>1, TelegrammZahlen
  <2> DEFINE D == durch[i].zeit + Window
  <2> HIDE DEF D
  <2>5. D < rx.zeit /\ D \in Nat
    BY <2>2, <2>3 DEF D
  <2>6. D < zeit /\ \A j \in 1..Len(rest) : D < rest[j].zeit
    BY <1>1, <1>3, <2>3, <2>4, <2>5
  <2> QED
    BY <2>6 DEF D
<1> QED
  BY <1>1, <1>4, <1>8, <1>9

LEMMA AbgelaufenFanIn ==
    ASSUME TypeOK, Ordnung, Abgelaufen, NEW g \in Gateways, FanIn(g)
    PROVE  Abgelaufen'
<1> DEFINE q == gwQueue[g]
           rx == Head(q)
<1>1. /\ UNCHANGED <<zeit, durch, entries>> /\ q # <<>>
      /\ mgrQueue' = mgrQueue \/ mgrQueue' = Append(mgrQueue, rx)
  BY DEF FanIn
<1>2. q \in Seq(Telegramm) /\ mgrQueue \in Seq(Telegramm)
  BY DEF TypeOK
<1>3. \A i \in 1..Len(q) : q[i].zeit = zeit
  BY DEF Ordnung
<1> HIDE DEF q
<1>4. rx \in Telegramm /\ rx = q[1] /\ 1 \in 1..Len(q)
  <2>1. Len(q) \in Nat /\ Len(q) >= 1
    BY <1>1, <1>2, Vorne
  <2> QED
    BY <1>1, <1>2, <2>1, Vorne
<1> HIDE DEF rx
<1>5. \A j \in 1..Len(mgrQueue') :
         (j \in 1..Len(mgrQueue) /\ mgrQueue'[j] = mgrQueue[j]) \/ mgrQueue'[j].zeit = zeit
  <2>1. CASE mgrQueue' = mgrQueue
    BY <2>1
  <2>2. CASE mgrQueue' = Append(mgrQueue, rx)
    <3>1. /\ Len(mgrQueue') = Len(mgrQueue) + 1 /\ Len(mgrQueue) \in Nat
          /\ \A j \in 1..Len(mgrQueue) : mgrQueue'[j] = mgrQueue[j]
          /\ mgrQueue'[Len(mgrQueue) + 1] = rx
      BY <1>2, <1>4, <2>2, Hinten
    <3> QED
      BY <1>3, <1>4, <3>1
  <2> QED
    BY <1>1, <2>1, <2>2
<1>6. Vergessen' = Vergessen
  BY <1>1 DEF Vergessen
<1> QED
  BY <1>1, <1>5, <1>6 DEF Abgelaufen

LEMMA AbgelaufenTick ==
    ASSUME TypeOK, Gedaechtnis, Abgelaufen, Tick
    PROVE  Abgelaufen'
<1>1. UNCHANGED <<mgrQueue, durch, entries>> /\ zeit' = zeit + 1 /\ zeit \in Nat
  BY DEF Tick, TypeOK
<1>2. durch \in Seq(Telegramm) /\ Len(durch) \in Nat /\ Vergessen \in Int
      /\ Vergessen <= Len(durch)
  BY DEF TypeOK, Vergessen
<1>3. Vergessen' = Vergessen
  BY <1>1 DEF Vergessen
<1>4. \A i \in 1..Vergessen : durch[i].zeit + Window < zeit + 1
  <2> SUFFICES ASSUME NEW i \in 1..Vergessen PROVE durch[i].zeit + Window < zeit + 1
    OBVIOUS
  <2>1. durch[i] \in Telegramm
    <3>1. i \in 1..Len(durch)
      BY <1>2
    <3> QED
      BY <1>2, <3>1, Glieder
  <2>2. durch[i].zeit \in Nat
    BY <2>1, TelegrammZahlen
  <2>3. durch[i].zeit + Window < zeit
    BY DEF Abgelaufen
  <2> DEFINE dz == durch[i].zeit
  <2> HIDE DEF dz
  <2>4. dz \in Nat /\ dz + Window < zeit
    BY <2>2, <2>3 DEF dz
  <2>5. dz + Window < zeit + 1
    BY <1>1, <2>4, Zahlen
  <2> QED
    BY <2>5 DEF dz
<1> QED
  BY <1>1, <1>3, <1>4 DEF Abgelaufen

LEMMA AbgelaufenSchritt ==
    ASSUME TypeOK, Ordnung, Gedaechtnis, Abgelaufen, PufferReicht, [Next]_vars
    PROVE  Abgelaufen'
<1>1. ASSUME UNCHANGED <<zeit, durch, entries, mgrQueue>> PROVE Abgelaufen'
  BY <1>1 DEF Abgelaufen, Vergessen
<1> QED
  BY <1>1, AbgelaufenVerarbeiten, AbgelaufenFanIn, AbgelaufenTick
  DEF Next, vars, Senden, Hoeren, UhrZurueck

LEMMA NichtVergessen ==
    ASSUME NEW a \in Nat, NEW l \in Nat, NEW w \in Nat, NEW dz \in Nat, NEW rz \in Nat,
           l <= w, a <= dz, rz <= a + l
    PROVE  ~(dz + w < rz)
BY SMT

\* A copy of an emission of which one has passed finds that one's entry.
LEMMA EinmalSchritt ==
    ASSUME Laufzeit <= Window,
           TypeOK, Ordnung, Gedaechtnis, Abgelaufen, HoechstensEinmal, [Next]_vars
    PROVE  HoechstensEinmal'
<1>1. ASSUME UNCHANGED durch PROVE HoechstensEinmal'
  BY <1>1 DEF HoechstensEinmal
<1>2. ASSUME Verarbeiten PROVE HoechstensEinmal'
  <2> DEFINE rx == Head(mgrQueue)
  <2>1. durch \in Seq(Telegramm) /\ Len(durch) \in Nat /\ Vergessen \in Nat
    BY DEF TypeOK, Gedaechtnis, Spiegel, Vergessen
  <2>2. mgrQueue # <<>> /\ Len(mgrQueue) \in Nat /\ rx = mgrQueue[1] /\ 1 \in 1..Len(mgrQueue)
    <3>1. mgrQueue # <<>> /\ mgrQueue \in Seq(Telegramm)
      BY <1>2 DEF Verarbeiten, TypeOK
    <3>2. Len(mgrQueue) \in Nat /\ Len(mgrQueue) >= 1 /\ rx = mgrQueue[1]
      BY <3>1, Vorne
    <3> QED
      BY <3>1, <3>2
  <2>3. /\ rx \in Telegramm /\ rx.fp = luft[rx.e].fp /\ Puenktlich(luft, rx)
        /\ \A i \in 1..Len(durch) : Versatz(rx) <= Versatz(durch[i])
    BY <2>2, Erstes
  <2>4. PICK v \in Vergessen..Len(durch) :
           /\ \A i \in (Vergessen + 1)..v : durch[i].ts + Window < rx.ts
           /\ \/ durch' = durch
              \/ /\ durch' = Append(durch, rx)
                 /\ \A i \in (v + 1)..Len(durch) : durch[i].fp # rx.fp
    BY <1>2, Schritt DEF Gedaechtnis
  <2>5. CASE durch' = durch
    BY <1>1, <2>5
  <2>6. CASE /\ durch' = Append(durch, rx)
             /\ \A i \in (v + 1)..Len(durch) : durch[i].fp # rx.fp
    <3>0. \A i \in 1..Vergessen : durch[i].zeit + Window < rx.zeit
      BY <2>2 DEF Abgelaufen
    <3> HIDE DEF rx
    <3>1. ASSUME NEW i \in 1..Len(durch), durch[i].e = rx.e PROVE FALSE
      <4> DEFINE d == durch[i]
      <4>1. d \in Telegramm /\ d.fp = luft[d.e].fp /\ Puenktlich(luft, d)
        <5>1. d \in Telegramm
          BY <2>1, Glieder
        <5> QED
          BY <5>1 DEF Gedaechtnis, Inhalt, Echt, Ordnung, AllePuenktlich
      <4>2. d.e = rx.e /\ d.fp = rx.fp
        BY <2>3, <3>1, <4>1
      <4>3. ~(d.zeit + Window < rx.zeit)
        <5> HIDE DEF d
        <5> DEFINE a == luft[rx.e].ab
                   dz == d.zeit
                   rz == rx.zeit
        <5>1. luft[rx.e] \in Sendung
          <6>1. luft \in Seq(Sendung) /\ rx.e \in 1..Len(luft)
            BY <2>3, TelegrammZahlen DEF TypeOK, Sendung
          <6> QED
            BY <6>1, Glieder
        <5>2. a \in Nat /\ dz \in Nat /\ rz \in Nat
          BY <2>3, <4>1, <5>1, TelegrammZahlen DEF Sendung
        <5>3. a <= dz /\ rz <= a + Laufzeit
          BY <2>3, <4>1, <4>2 DEF Puenktlich
        <5> HIDE DEF a, dz, rz
        <5>4. ~(dz + Window < rz)
          BY <5>2, <5>3, NichtVergessen, Zahlen
        <5> QED
          BY <5>4 DEF dz, rz
      <4>4. i \notin 1..Vergessen
        BY <3>0, <4>3
      <4>5. i \notin (v + 1)..Len(durch)
        BY <2>6, <4>2
      <4>6. i \in (Vergessen + 1)..v
        BY <2>1, <2>4, <4>4, <4>5
      <4>7. d.ts + Window < rx.ts /\ Versatz(rx) <= Versatz(d)
        BY <2>3, <2>4, <4>6
      <4> QED
        BY <2>3, <4>1, <4>3, <4>7, Gestempelt
    <3>2. /\ Len(durch') = Len(durch) + 1
          /\ \A i \in 1..Len(durch) : durch'[i] = durch[i]
          /\ durch'[Len(durch) + 1] = rx
      BY <2>1, <2>3, <2>6, Hinten
    <3>3. SUFFICES ASSUME NEW i \in 1..Len(durch'), NEW j \in 1..Len(durch'),
                          durch'[i].e = durch'[j].e
                   PROVE  i = j
      BY DEF HoechstensEinmal
    <3>4. (i \in 1..Len(durch) \/ i = Len(durch) + 1) /\ (j \in 1..Len(durch) \/ j = Len(durch) + 1)
      BY <2>1, <3>2
    <3>5. CASE i \in 1..Len(durch) /\ j \in 1..Len(durch)
      BY <3>2, <3>3, <3>5 DEF HoechstensEinmal
    <3>6. CASE i \in 1..Len(durch) /\ j = Len(durch) + 1
      BY <3>1, <3>2, <3>3, <3>6
    <3>7. CASE j \in 1..Len(durch) /\ i = Len(durch) + 1
      BY <3>1, <3>2, <3>3, <3>7
    <3> QED
      BY <3>4, <3>5, <3>6, <3>7
  <2> QED
    BY <2>4, <2>5, <2>6
<1> QED
  BY <1>1, <1>2 DEF Next, vars, Senden, Hoeren, FanIn, Tick, UhrZurueck

\* HoechstensEinmal, as long as the buffer is not full: if the copies of an
\* emission are no more than a window apart, only one of them passes, whatever
\* the interleaving and even if the clock is set back (cascade.py, DedupBuffer).
THEOREM EinmalSolangePufferReicht ==
    ASSUME Laufzeit <= Window
    PROVE  Spec /\ []PufferReicht => []HoechstensEinmal
<1> DEFINE I == Abgelaufen /\ HoechstensEinmal
<1>1. Init => I
  <2> SUFFICES ASSUME Init PROVE I
    OBVIOUS
  <2>1. Len(durch) = 0 /\ Len(entries) = 0
    BY EmptySeq DEF Init
  <2>2. Vergessen = 0
    BY <2>1 DEF Vergessen
  <2> QED
    BY <2>1, <2>2 DEF Abgelaufen, HoechstensEinmal
<1>2. TypeOK /\ Ordnung /\ Gedaechtnis /\ PufferReicht /\ I /\ [Next]_vars => I'
  BY AbgelaufenSchritt, EinmalSchritt
<1>3. I => HoechstensEinmal
  OBVIOUS
<1> HIDE DEF I
<1> QED
  BY <1>1, <1>2, <1>3, TypKorrekt, OrdnungImmer, GedaechtnisImmer, PTL DEF Spec

\* At most one telegram of each emission: no more entries than emissions.
LEMMA WenigeEintraege ==
    ASSUME TypeOK, Gedaechtnis, HoechstensEinmal
    PROVE  Len(entries) <= Len(luft)
<1> DEFINE f == [i \in 1..Len(durch) |-> durch[i].e]
<1>1. durch \in Seq(Telegramm) /\ Len(durch) \in Nat /\ Len(luft) \in Nat /\ Len(entries) \in Nat
  BY DEF TypeOK
<1>2. \A i \in 1..Len(durch) : durch[i].e \in 1..Len(luft)
  <2> SUFFICES ASSUME NEW i \in 1..Len(durch) PROVE durch[i].e \in 1..Len(luft)
    OBVIOUS
  <2>1. durch[i] \in Telegramm
    BY <1>1, Glieder
  <2> QED
    BY <2>1, TelegrammZahlen
<1>3. f \in Injection(1..Len(durch), 1..Len(luft))
  <2>1. f \in [1..Len(durch) -> 1..Len(luft)]
    BY <1>2
  <2>2. \A i, j \in 1..Len(durch) : f[i] = f[j] => i = j
    BY DEF HoechstensEinmal
  <2> HIDE DEF f
  <2> QED
    BY <2>1, <2>2 DEF Injection, IsInjective
<1>4. /\ IsFiniteSet(1..Len(durch)) /\ IsFiniteSet(1..Len(luft))
      /\ Cardinality(1..Len(durch)) = Len(durch) /\ Cardinality(1..Len(luft)) = Len(luft)
  <2>1. ASSUME NEW n \in Nat PROVE IsFiniteSet(1..n) /\ Cardinality(1..n) = n
    BY FS_Interval
  <2> QED
    BY <1>1, <2>1
<1>5. Cardinality(1..Len(durch)) <= Cardinality(1..Len(luft))
  <2> HIDE DEF f
  <2> QED
    BY <1>3, <1>4, FS_Injection
<1>6. Len(entries) <= Len(durch)
  BY <1>1 DEF Gedaechtnis, Spiegel, Vergessen
<1> QED
  BY <1>1, <1>4, <1>5, <1>6

LEMMA SendungenBegrenzt == Spec => [](Len(luft) <= MaxSendungen)
<1> DEFINE G == Len(luft) <= MaxSendungen
<1>1. Init => G
  <2> SUFFICES ASSUME Init PROVE Len(luft) <= MaxSendungen
    OBVIOUS
  <2>1. Len(luft) = 0
    BY EmptySeq DEF Init
  <2> QED
    BY <2>1, Zahlen
<1>2. TypeOK /\ G /\ [Next]_vars => G'
  <2> SUFFICES ASSUME TypeOK, Len(luft) <= MaxSendungen, [Next]_vars
               PROVE  Len(luft') <= MaxSendungen
    OBVIOUS
  <2>1. ASSUME NEW fp \in Frames, Senden(fp) PROVE Len(luft') <= MaxSendungen
    <3> DEFINE s == [fp |-> fp, ab |-> zeit]
    <3>1. luft \in Seq(Sendung) /\ s \in Sendung /\ luft' = Append(luft, s)
      BY <2>1 DEF TypeOK, Senden, Sendung
    <3> HIDE DEF s
    <3>2. Len(luft') = Len(luft) + 1 /\ Len(luft) \in Nat
      BY <3>1, Hinten
    <3>3. Len(luft) < MaxSendungen
      BY <2>1 DEF Senden
    <3> QED
      BY <3>2, <3>3, Zahlen
  <2>2. ASSUME UNCHANGED luft PROVE Len(luft') <= MaxSendungen
    BY <2>2
  <2> QED
    BY <2>1, <2>2 DEF Next, vars, Hoeren, FanIn, Verarbeiten, Tick, UhrZurueck
<1>3. G <=> Len(luft) <= MaxSendungen
  OBVIOUS
<1> HIDE DEF G
<1> QED
  BY <1>1, <1>2, <1>3, TypKorrekt, PTL DEF Spec

\* HoechstensEinmal for every behaviour of fewer emissions than the buffer has
\* entries, which is what the run checks on a small instance.
THEOREM EinmalSicher ==
    ASSUME Laufzeit <= Window, MaxSendungen < DedupMax
    PROVE  Spec => []HoechstensEinmal
<1> DEFINE I == Abgelaufen /\ HoechstensEinmal
<1>1. Init => I
  <2> SUFFICES ASSUME Init PROVE I
    OBVIOUS
  <2>1. Len(durch) = 0 /\ Len(entries) = 0
    BY EmptySeq DEF Init
  <2>2. Vergessen = 0
    BY <2>1 DEF Vergessen
  <2> QED
    BY <2>1, <2>2 DEF Abgelaufen, HoechstensEinmal
<1>2. TypeOK /\ Gedaechtnis /\ HoechstensEinmal /\ Len(luft) <= MaxSendungen => PufferReicht
  <2> SUFFICES ASSUME TypeOK, Gedaechtnis, HoechstensEinmal, Len(luft) <= MaxSendungen
               PROVE  PufferReicht
    OBVIOUS
  <2>1. Len(entries) <= Len(luft) /\ Len(entries) \in Nat /\ Len(luft) \in Nat
    BY WenigeEintraege DEF TypeOK
  <2> QED
    BY <2>1, Zahlen DEF PufferReicht
<1>3. TypeOK /\ Ordnung /\ Gedaechtnis /\ PufferReicht /\ I /\ [Next]_vars => I'
  BY AbgelaufenSchritt, EinmalSchritt
<1>4. I => HoechstensEinmal
  OBVIOUS
<1> HIDE DEF I
<1> QED
  BY <1>1, <1>2, <1>3, <1>4, TypKorrekt, OrdnungImmer, GedaechtnisImmer,
     SendungenBegrenzt, PTL DEF Spec
=============================================================================
