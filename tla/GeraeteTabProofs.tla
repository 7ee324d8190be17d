------------------------- MODULE GeraeteTabProofs -------------------------
(***************************************************************************)
(* Theorems about the device tab, for any number of devices, channels,     *)
(* senders and requests.                                                   *)
(*                                                                         *)
(* IInv types the registry, the list, the dialog's rows and what each      *)
(* request carries; every sequence of senders in it has at most one active *)
(* sender, and the first of a channel is active.  From it follow TypeOK,   *)
(* EinAktiver and WasManSieht: only the server's handler answers a         *)
(* request, and what a save carries is what its rows showed.               *)
(*                                                                         *)
(* NurGewolltes needs to know what nobody wrote in between.  Spur says it  *)
(* of the devices that are not in gestoert: one request at a time writes   *)
(* such a device (Einzeln); what writes the device of a fresh dialog came  *)
(* from that dialog (AusDialog); the rows of a fresh dialog show the       *)
(* device up to what its one request has done already (ImBild); and so a   *)
(* request that writes the whole device keeps what it has (Treu).          *)
(***************************************************************************)
EXTENDS GeraeteTab, FiniteSetTheorems, SequenceTheorems, WellFoundedInduction, TLAPS

\* A nonempty set of natural numbers has a least element.
LEMMA Kleinstes ==
    ASSUME NEW S \in SUBSET Nat, S # {}
    PROVE  \E m \in S : \A k \in S : m <= k
<1>1. PICK x \in S : \A y \in S : <<y, x>> \notin OpToRel(<, Nat)
  BY NatLessThanWellFounded, WFMin
<1>2. \A y \in S : ~(y < x)
  BY <1>1 DEF OpToRel
<1> QED
  BY <1>2

\* How many elements of a finite set of numbers are at most k: one more than
\* at most k - 1 where k is an element, and no more where it is not.
LEMMA RangSchritt ==
    ASSUME NEW S \in SUBSET (Nat \ {0}), IsFiniteSet(S)
    PROVE  /\ \A k \in Nat : Rang(S, k) \in 0..Cardinality(S)
           /\ Rang(S, 0) = 0
           /\ \A k \in Nat : Rang(S, k + 1) = Rang(S, k) + IF k + 1 \in S THEN 1 ELSE 0
<1>0. \A i \in S : i \in Nat /\ i # 0
  OBVIOUS
<1>1. ASSUME NEW k \in Nat PROVE Rang(S, k) \in 0..Cardinality(S) /\ IsFiniteSet({i \in S : i <= k})
  <2>1. {i \in S : i <= k} \in SUBSET S
    OBVIOUS
  <2>2. /\ IsFiniteSet({i \in S : i <= k})
        /\ Cardinality({i \in S : i <= k}) <= Cardinality(S)
    BY <2>1, FS_Subset
  <2>3. Cardinality({i \in S : i <= k}) \in Nat /\ Cardinality(S) \in Nat
    BY <2>2, FS_CardinalityType
  <2> QED
    BY <2>2, <2>3 DEF Rang
<1>2. Rang(S, 0) = 0
  <2>1. \A i \in S : ~(i <= 0)
    BY <1>0
  <2>2. {i \in S : i <= 0} = {}
    BY <2>1
  <2> QED
    BY <2>2, FS_EmptySet DEF Rang
<1>3. ASSUME NEW k \in Nat PROVE Rang(S, k + 1) = Rang(S, k) + IF k + 1 \in S THEN 1 ELSE 0
  <2>1. CASE k + 1 \in S
    <3>0. \A i \in S : (i <= k + 1 <=> i <= k \/ i = k + 1) /\ ~(k + 1 <= k)
      BY <1>0
    <3>1. {i \in S : i <= k + 1} = {i \in S : i <= k} \cup {k + 1} /\ k + 1 \notin {i \in S : i <= k}
      BY <2>1, <3>0
    <3>2. Cardinality({i \in S : i <= k} \cup {k + 1}) = Cardinality({i \in S : i <= k}) + 1
      BY <1>1, <3>1, FS_AddElement
    <3> QED
      BY <2>1, <3>1, <3>2 DEF Rang
  <2>2. CASE k + 1 \notin S
    <3>0. \A i \in S : i <= k + 1 <=> i <= k
      BY <1>0, <2>2
    <3>1. {i \in S : i <= k + 1} = {i \in S : i <= k}
      BY <3>0
    <3>2. Rang(S, k) \in Nat
      BY <1>1, FS_CardinalityType DEF Rang
    <3> QED
      BY <2>2, <3>1, <3>2 DEF Rang
  <2> QED
    BY <2>1, <2>2
<1> QED
  BY <1>1, <1>2, <1>3

\* Ranks grow with the number.
LEMMA RangMonoton ==
    ASSUME NEW S \in SUBSET (Nat \ {0}), IsFiniteSet(S), NEW k \in S, NEW l \in S, k < l
    PROVE  Rang(S, k) < Rang(S, l)
<1> DEFINE T == {i \in S : i <= k}
           U == {i \in S : i <= l}
<1>0. k \in Nat /\ l \in Nat /\ ~(l <= k) /\ l <= l /\ \A i \in S : i \in Nat /\ (i <= k => i <= l)
  OBVIOUS
<1>1. T \in SUBSET U /\ l \in U /\ l \notin T /\ U \in SUBSET S
  BY <1>0
<1>2. IsFiniteSet(U)
  BY <1>1, FS_Subset
<1>3. IsFiniteSet(T) /\ Cardinality(T) <= Cardinality(U) /\ Cardinality(T) # Cardinality(U)
  <2> HIDE DEF T, U
  <2> QED
    BY <1>1, <1>2, FS_Subset
<1>4. Cardinality(T) \in Nat /\ Cardinality(U) \in Nat
  BY <1>2, <1>3, FS_CardinalityType
<1>5. Rang(S, k) = Cardinality(T) /\ Rang(S, l) = Cardinality(U)
  BY DEF Rang
<1> HIDE DEF T, U
<1> QED
  BY <1>3, <1>4, <1>5

\* Each rank up to the number of elements is that of an element, which the
\* n-th smallest is; so numbering by rank reaches every element once.
LEMMA Rangfolge ==
    ASSUME NEW S \in SUBSET (Nat \ {0}), IsFiniteSet(S)
    PROVE  /\ Cardinality(S) \in Nat
           /\ \A n \in 1..Cardinality(S) : Nter(S, n) \in S /\ Rang(S, Nter(S, n)) = n
           /\ \A k \in S : Rang(S, k) \in 1..Cardinality(S) /\ Nter(S, Rang(S, k)) = k
<1> DEFINE C == Cardinality(S)
<1>0. C \in Nat
  BY FS_CardinalityType
<1>1. \A k \in Nat : Rang(S, k) \in 0..C
  BY RangSchritt
<1>2. \E k \in Nat : Rang(S, k) = C
  <2> DEFINE Reste == {C - Rang(S, k) : k \in Nat}
  <2>1. Reste \in SUBSET Nat /\ Reste # {}
    <3>1. \A k \in Nat : C - Rang(S, k) \in Nat
      BY <1>0, <1>1
    <3>2. C - Rang(S, 0) \in Reste
      OBVIOUS
    <3> QED
      BY <3>1, <3>2
  <2>2. PICK r \in Reste : \A q \in Reste : r <= q
    <3> HIDE DEF Reste
    <3> QED
      BY <2>1, Kleinstes
  <2>3. PICK k \in Nat : r = C - Rang(S, k)
    BY <2>2
  <2>4. ASSUME NEW l \in S PROVE l <= k
    <3>1. CASE l > k
      <4>1. l \in Nat /\ C - Rang(S, k) <= C - Rang(S, l)
        BY <2>2, <2>3
      <4> DEFINE T == {i \in S : i <= k}
                 U == {i \in S : i <= l}
      <4>0. ~(l <= k) /\ l <= l /\ \A i \in S : i \in Nat /\ (i <= k => i <= l)
        BY <3>1, <4>1
      <4>2. T \in SUBSET U /\ l \in U /\ l \notin T /\ U \in SUBSET S
        BY <4>0
      <4>3. IsFiniteSet(U)
        BY <4>2, FS_Subset
      <4>4. IsFiniteSet(T) /\ Cardinality(T) <= Cardinality(U) /\ Cardinality(T) # Cardinality(U)
        <5> HIDE DEF T, U
        <5> QED
          BY <4>2, <4>3, FS_Subset
      <4>5. Cardinality(T) \in Nat /\ Cardinality(U) \in Nat
        BY <4>3, <4>4, FS_CardinalityType
      <4>6. Rang(S, k) = Cardinality(T) /\ Rang(S, l) = Cardinality(U)
        BY DEF Rang
      <4> HIDE DEF T, U
      <4> QED
        BY <1>0, <4>1, <4>4, <4>5, <4>6
    <3> QED
      BY <3>1
  <2>5. {i \in S : i <= k} = S
    BY <2>4
  <2> QED
    BY <2>5 DEF Rang
<1>3. ASSUME NEW n \in 1..C PROVE \E k \in S : Rang(S, k) = n
  <2> DEFINE gross == {k \in Nat : Rang(S, k) >= n}
  <2>1. gross \in SUBSET Nat /\ gross # {}
    BY <1>0, <1>2
  <2>2. PICK k \in gross : \A l \in gross : k <= l
    <3> HIDE DEF gross
    <3> QED
      BY <2>1, Kleinstes
  <2>3. k \in Nat /\ Rang(S, k) >= n /\ Rang(S, k) \in Nat
    BY <1>1, <2>2
  <2>4. k # 0
    BY <2>3, RangSchritt
  <2>5. k - 1 \in Nat /\ k - 1 \notin gross
    BY <2>2, <2>3, <2>4
  <2>6. ~(Rang(S, k - 1) >= n) /\ Rang(S, k - 1) \in Nat
    BY <1>1, <2>5
  <2>7. Rang(S, k) = Rang(S, k - 1) + IF k \in S THEN 1 ELSE 0
    <3>1. Rang(S, (k - 1) + 1) = Rang(S, k - 1) + IF (k - 1) + 1 \in S THEN 1 ELSE 0
      BY <2>5, RangSchritt
    <3>2. (k - 1) + 1 = k
      BY <2>3
    <3> QED
      BY <3>1, <3>2
  <2>8. k \in S
    BY <2>3, <2>6, <2>7
  <2> HIDE DEF gross
  <2>9. Rang(S, k) = n
    BY <2>3, <2>6, <2>7, <2>8
  <2> QED
    BY <2>8, <2>9
<1>4. ASSUME NEW n \in 1..C PROVE Nter(S, n) \in S /\ Rang(S, Nter(S, n)) = n
  BY <1>3 DEF Nter
<1>5. ASSUME NEW k \in S PROVE Rang(S, k) \in 1..C /\ Nter(S, Rang(S, k)) = k
  <2>1. k \in Nat /\ k # 0
    OBVIOUS
  <2>2. Rang(S, k) \in 0..C
    BY <1>1, <2>1
  <2>3. Rang(S, k) # 0
    <3>1. Rang(S, (k - 1) + 1) = Rang(S, k - 1) + IF (k - 1) + 1 \in S THEN 1 ELSE 0
      BY <2>1, RangSchritt
    <3>2. (k - 1) + 1 = k /\ k - 1 \in Nat
      BY <2>1
    <3>3. Rang(S, k - 1) \in 0..C
      BY <1>1, <3>2
    <3> QED
      BY <1>0, <3>1, <3>2, <3>3
  <2>4. Rang(S, k) \in 1..C
    BY <1>0, <2>2, <2>3
  <2>5. Nter(S, Rang(S, k)) \in S /\ Rang(S, Nter(S, Rang(S, k))) = Rang(S, k)
    BY <1>4, <2>4
  <2> DEFINE l == Nter(S, Rang(S, k))
  <2>6. l \in S /\ Rang(S, l) = Rang(S, k)
    BY <2>5
  <2> HIDE DEF l
  <2>7. ~(l < k) /\ ~(k < l)
    BY <1>0, <1>1, <2>1, <2>2, <2>6, RangMonoton
  <2>8. l = k
    BY <2>1, <2>6, <2>7
  <2> QED
    BY <2>4, <2>8 DEF l
<1> QED
  BY <1>0, <1>4, <1>5

-----------------------------------------------------------------------------
(* Senders *)

Sender == [id : Ids, aktiv : BOOLEAN]

\* What a row may hold: an id that nobody has filled in yet, too.
Rohsender == [id : Ids \cup {Leer}, aktiv : BOOLEAN]

\* The same as EinerAktiv, said with the one that is.
GenauEiner(s) == s # <<>> => \E n \in DOMAIN s : \A i \in DOMAIN s : s[i].aktiv <=> i = n

LEMMA EinerIstGenauEiner ==
    ASSUME NEW R, NEW s \in Seq(R)
    PROVE  EinerAktiv(s) <=> GenauEiner(s)
<1> DEFINE aktive == {i \in DOMAIN s : s[i].aktiv}
<1>1. DOMAIN s = 1..Len(s) /\ Len(s) \in Nat
  OBVIOUS
<1>2. IsFiniteSet(DOMAIN s)
  BY <1>1, FS_Interval
<1>3. aktive \in SUBSET (DOMAIN s)
  OBVIOUS
<1>4. IsFiniteSet(aktive)
  <2> HIDE DEF aktive
  <2> QED
    BY <1>2, <1>3, FS_Subset
<1>5. Cardinality(aktive) = 1 <=> \E n : aktive = {n}
  <2> HIDE DEF aktive
  <2> QED
    BY <1>4, FS_Singleton
<1>6. ASSUME NEW n, aktive = {n}
      PROVE  n \in DOMAIN s /\ \A i \in DOMAIN s : s[i].aktiv <=> i = n
  BY <1>6
<1>7. ASSUME NEW n \in DOMAIN s, \A i \in DOMAIN s : s[i].aktiv <=> i = n
      PROVE  aktive = {n}
  BY <1>7
<1>8. Cardinality(aktive) = 1 <=> \E n \in DOMAIN s : \A i \in DOMAIN s : s[i].aktiv <=> i = n
  <2> HIDE DEF aktive
  <2> QED
    BY <1>5, <1>6, <1>7
<1>9. EinerAktiv(s) <=> (s # <<>> => Cardinality(aktive) = 1)
  BY DEF EinerAktiv
<1> HIDE DEF aktive
<1> QED
  BY <1>8, <1>9 DEF GenauEiner

\* Aktiver finds the first active sender, if there is one.
LEMMA ErsterAktiver ==
    ASSUME NEW R, NEW s \in Seq(R)
    PROVE  \/ Aktiver(s) = 0 /\ \A i \in DOMAIN s : ~s[i].aktiv
           \/ Aktiver(s) \in DOMAIN s /\ s[Aktiver(s)].aktiv
<1> DEFINE aktive == {i \in 1..Len(s) : s[i].aktiv}
<1>1. Aktiver(s) = IF aktive # {} THEN CHOOSE x \in aktive : \A y \in aktive : x =< y ELSE 0
  BY DEF Aktiver, SelectInSeq, Min
<1>2. CASE aktive # {}
  <2>1. aktive \in SUBSET Nat
    OBVIOUS
  <2>2. \E m \in aktive : \A k \in aktive : m <= k
    <3> HIDE DEF aktive
    <3> QED
      BY <1>2, <2>1, Kleinstes
  <2>3. Aktiver(s) \in aktive
    <3> HIDE DEF aktive
    <3> QED
      BY <1>1, <1>2, <2>2
  <2> QED
    BY <2>3
<1>3. CASE aktive = {}
  BY <1>1, <1>3
<1> QED
  BY <1>2, <1>3

\* Senders with ids of a set
Mit(I) == [id : I, aktiv : BOOLEAN]

\* setActiveSender and the server's normalisation keep the ids and their order.
LEMMA AlleinAktivWirkt ==
    ASSUME NEW I, NEW s \in Seq(Mit(I)), NEW a
    PROVE  /\ AlleinAktiv(s, a) \in Seq(Mit(I))
           /\ Len(AlleinAktiv(s, a)) = Len(s)
           /\ \A i \in 1..Len(s) : /\ AlleinAktiv(s, a)[i].id = s[i].id
                                   /\ AlleinAktiv(s, a)[i].aktiv <=> i = a
<1> DEFINE t == AlleinAktiv(s, a)
<1>1. t = [i \in 1..Len(s) |-> [s[i] EXCEPT !.aktiv = (i = a)]] /\ Len(s) \in Nat
  BY DEF AlleinAktiv
<1>2. ASSUME NEW i \in 1..Len(s)
      PROVE  t[i] \in Mit(I) /\ t[i].id = s[i].id /\ (t[i].aktiv <=> i = a)
  <2>1. s[i] \in Mit(I)
    OBVIOUS
  <2>2. t[i] = [s[i] EXCEPT !.aktiv = (i = a)]
    BY <1>1
  <2> HIDE DEF t
  <2> QED
    BY <2>1, <2>2 DEF Mit
<1> HIDE DEF t
<1>3. t \in Seq(Mit(I)) /\ Len(t) = Len(s)
  BY <1>1, <1>2
<1> QED
  BY <1>2, <1>3 DEF t

LEMMA AlleinAktivGenau ==
    ASSUME NEW I, NEW s \in Seq(Mit(I)), NEW a \in DOMAIN s
    PROVE  GenauEiner(AlleinAktiv(s, a))
<1> DEFINE t == AlleinAktiv(s, a)
<1>1. t \in Seq(Mit(I)) /\ Len(t) = Len(s) /\ \A i \in 1..Len(s) : t[i].aktiv <=> i = a
  BY AlleinAktivWirkt
<1>2. DOMAIN t = 1..Len(s) /\ a \in 1..Len(s)
  BY <1>1
<1> HIDE DEF t
<1>3. GenauEiner(t)
  BY <1>1, <1>2 DEF GenauEiner
<1> QED
  BY <1>3 DEF t

\* A new sender is active only when it is the first.
LEMMA MitSenderWirkt ==
    ASSUME NEW I, NEW s \in Seq(Mit(I)), NEW id \in I, GenauEiner(s)
    PROVE  MitSender(s, id) \in Seq(Mit(I)) /\ GenauEiner(MitSender(s, id))
<1> DEFINE b == [id |-> id, aktiv |-> s = <<>>]
           t == MitSender(s, id)
<1>1. t = Append(s, b) /\ b \in Mit(I) /\ (b.aktiv <=> s = <<>>)
  BY DEF MitSender, Mit
<1> HIDE DEF b, t
<1>2. /\ t \in Seq(Mit(I)) /\ Len(t) = Len(s) + 1 /\ Len(s) \in Nat
      /\ DOMAIN t = 1..Len(t) /\ DOMAIN s = 1..Len(s)
      /\ t[Len(s) + 1] = b /\ \A i \in 1..Len(s) : t[i] = s[i]
  BY <1>1, AppendProperties
<1>3. CASE s = <<>>
  <2>1. Len(s) = 0 /\ DOMAIN t = {1} /\ t[1].aktiv
    BY <1>1, <1>2, <1>3
  <2> QED
    BY <1>1, <1>2, <2>1 DEF GenauEiner, t
<1>4. CASE s # <<>>
  <2>1. PICK n \in DOMAIN s : \A i \in DOMAIN s : s[i].aktiv <=> i = n
    BY <1>4 DEF GenauEiner
  <2>2. n \in DOMAIN t
    BY <1>2
  <2>3. ASSUME NEW i \in DOMAIN t PROVE t[i].aktiv <=> i = n
    <3>1. CASE i \in 1..Len(s)
      BY <1>2, <2>1, <3>1
    <3>2. CASE i = Len(s) + 1
      BY <1>1, <1>2, <1>4, <2>1, <3>2
    <3> QED
      BY <1>2, <3>1, <3>2
  <2> QED
    BY <1>2, <2>2, <2>3 DEF GenauEiner, t
<1> QED
  BY <1>3, <1>4

\* Removing the element at a place moves the later ones up.
LEMMA RemoveAtWirkt ==
    ASSUME NEW R, NEW s \in Seq(R), NEW i \in DOMAIN s
    PROVE  /\ RemoveAt(s, i) \in Seq(R)
           /\ Len(RemoveAt(s, i)) = Len(s) - 1
           /\ \A j \in 1..(Len(s) - 1) : RemoveAt(s, i)[j] = IF j < i THEN s[j] ELSE s[j + 1]
<1> DEFINE a == SubSeq(s, 1, i - 1)
           b == SubSeq(s, i + 1, Len(s))
<1>1. Len(s) \in Nat /\ i \in 1..Len(s) /\ i \in Nat
  OBVIOUS
<1>2. a \in Seq(R) /\ Len(a) = i - 1 /\ \A j \in 1..(i - 1) : a[j] = s[j]
  BY <1>1, SubSeqProperties
<1>3. b \in Seq(R) /\ Len(b) = Len(s) - i /\ \A j \in 1..(Len(s) - i) : b[j] = s[i + j]
  BY <1>1, SubSeqProperties
<1>4. RemoveAt(s, i) = a \o b
  BY DEF RemoveAt
<1> HIDE DEF a, b
<1>5. /\ a \o b \in Seq(R) /\ Len(a \o b) = Len(a) + Len(b)
      /\ \A j \in 1..(Len(a) + Len(b)) : (a \o b)[j] = IF j <= Len(a) THEN a[j] ELSE b[j - Len(a)]
  BY <1>2, <1>3, ConcatProperties
<1>6. Len(a) + Len(b) = Len(s) - 1
  BY <1>1, <1>2, <1>3
<1>7. ASSUME NEW j \in 1..(Len(s) - 1)
      PROVE  (a \o b)[j] = IF j < i THEN s[j] ELSE s[j + 1]
  <2>1. CASE j < i
    <3>1. j \in 1..(i - 1) /\ j <= Len(a)
      BY <1>1, <1>2, <2>1
    <3> QED
      BY <1>2, <1>5, <1>6, <2>1, <3>1
  <2>2. CASE ~(j < i)
    <3>1. j - (i - 1) \in 1..(Len(s) - i) /\ i + (j - (i - 1)) = j + 1 /\ ~(j <= Len(a))
      BY <1>1, <1>2, <2>2
    <3>2. (a \o b)[j] = b[j - (i - 1)]
      BY <1>2, <1>5, <1>6, <3>1
    <3> QED
      BY <1>3, <2>2, <3>1, <3>2
  <2> QED
    BY <2>1, <2>2
<1> QED
  BY <1>4, <1>5, <1>6, <1>7

\* The first of the others follows a removed active sender.
LEMMA OhneSenderWirkt ==
    ASSUME NEW I, NEW s \in Seq(Mit(I)), NEW i \in DOMAIN s, GenauEiner(s)
    PROVE  OhneSender(s, i) \in Seq(Mit(I)) /\ GenauEiner(OhneSender(s, i))
<1> DEFINE r == RemoveAt(s, i)
           t == [r EXCEPT ![1].aktiv = TRUE]
<1>0. Len(s) \in Nat /\ DOMAIN s = 1..Len(s) /\ i \in 1..Len(s) /\ s # <<>>
  OBVIOUS
<1>1. /\ r \in Seq(Mit(I)) /\ Len(r) = Len(s) - 1 /\ DOMAIN r = 1..(Len(s) - 1)
      /\ \A j \in 1..(Len(s) - 1) : r[j] = IF j < i THEN s[j] ELSE s[j + 1]
  <2>1. /\ r \in Seq(Mit(I)) /\ Len(r) = Len(s) - 1
        /\ \A j \in 1..(Len(s) - 1) : r[j] = IF j < i THEN s[j] ELSE s[j + 1]
    BY RemoveAtWirkt
  <2> HIDE DEF r
  <2> QED
    BY <2>1
<1>2. OhneSender(s, i) = IF s[i].aktiv /\ r # <<>> THEN t ELSE r
  BY DEF OhneSender
<1>3. PICK n \in DOMAIN s : \A j \in DOMAIN s : s[j].aktiv <=> j = n
  BY <1>0 DEF GenauEiner
<1> HIDE DEF r
<1>4. CASE s[i].aktiv /\ r # <<>>
  <2>1. n = i
    BY <1>3, <1>4
  <2>2. 1 \in DOMAIN r
    BY <1>0, <1>1, <1>4
  <2> DEFINE e == [r[1] EXCEPT !.aktiv = TRUE]
  <2>3. r[1] \in Mit(I)
    BY <1>1, <2>2
  <2>4. e \in Mit(I) /\ e.aktiv
    BY <2>3 DEF Mit
  <2>5. t = [r EXCEPT ![1] = e]
    BY <1>1, <2>2
  <2>6. t \in Seq(Mit(I)) /\ DOMAIN t = 1..Len(r) /\ t[1] = e /\ \A j \in 1..Len(r) : j # 1 => t[j] = r[j]
    <3> HIDE DEF t, e
    <3>1. 1 \in 1..Len(r) /\ DOMAIN r = 1..Len(r)
      BY <1>1, <2>2
    <3> QED
      BY <1>1, <2>4, <2>5, <3>1, ExceptSeq
  <2> HIDE DEF e
  <2>7. ASSUME NEW j \in 1..Len(r), j # 1 PROVE ~t[j].aktiv
    <3>1. t[j] = r[j]
      BY <2>6, <2>7
    <3>2. r[j] = IF j < i THEN s[j] ELSE s[j + 1]
      BY <1>1
    <3>3. CASE j < i
      <4>1. j \in DOMAIN s /\ j # i
        BY <1>0, <1>1, <3>3
      <4> QED
        BY <1>3, <2>1, <3>1, <3>2, <3>3, <4>1
    <3>4. CASE ~(j < i)
      <4>1. j + 1 \in DOMAIN s /\ j + 1 # i
        BY <1>0, <1>1, <3>4
      <4> QED
        BY <1>3, <2>1, <3>1, <3>2, <3>4, <4>1
    <3> QED
      BY <3>3, <3>4
  <2> HIDE DEF t
  <2>8. GenauEiner(t)
    <3>1. \A j \in DOMAIN t : t[j].aktiv <=> j = 1
      BY <2>4, <2>6, <2>7
    <3>2. 1 \in DOMAIN t
      BY <1>1, <2>2, <2>6
    <3> QED
      BY <3>1, <3>2 DEF GenauEiner
  <2> QED
    BY <1>2, <1>4, <2>6, <2>8
<1>5. CASE ~s[i].aktiv /\ r # <<>>
  <2>1. n # i
    BY <1>3, <1>5
  <2> DEFINE m == IF n < i THEN n ELSE n - 1
  <2>2. m \in 1..(Len(s) - 1) /\ \A j \in 1..(Len(s) - 1) : (IF j < i THEN j ELSE j + 1) = n <=> j = m
    BY <1>0, <2>1
  <2>3. ASSUME NEW j \in DOMAIN r PROVE r[j].aktiv <=> j = m
    <3>1. r[j] = s[IF j < i THEN j ELSE j + 1] /\ (IF j < i THEN j ELSE j + 1) \in DOMAIN s
      BY <1>0, <1>1
    <3> QED
      BY <1>1, <1>3, <2>2, <3>1
  <2> HIDE DEF m
  <2>4. GenauEiner(r)
    <3>1. m \in DOMAIN r
      BY <1>1, <2>2
    <3> QED
      BY <2>3, <3>1 DEF GenauEiner
  <2> QED
    BY <1>1, <1>2, <1>5, <2>4
<1>6. CASE r = <<>>
  BY <1>1, <1>2, <1>6 DEF GenauEiner
<1> QED
  BY <1>4, <1>5, <1>6

\* A paired id is active alone, or the row had it already.
LEMMA GepaartWirkt ==
    ASSUME NEW I, NEW s \in Seq(Mit(I)), NEW id \in I, GenauEiner(s)
    PROVE  Gepaart(s, id) \in Seq(Mit(I)) /\ GenauEiner(Gepaart(s, id))
<1> DEFINE o == AlleinAktiv(s, 0)
           b == [id |-> id, aktiv |-> TRUE]
           t == Append(o, b)
<1>1. CASE \E i \in DOMAIN s : s[i].id = id
  BY <1>1 DEF Gepaart
<1>2. CASE ~\E i \in DOMAIN s : s[i].id = id
  <2>1. Gepaart(s, id) = t
    BY <1>2 DEF Gepaart
  <2>2. o \in Seq(Mit(I)) /\ Len(o) = Len(s) /\ \A i \in 1..Len(s) : o[i].aktiv <=> i = 0
    BY AlleinAktivWirkt
  <2>3. b \in Mit(I) /\ b.aktiv
    BY DEF Mit
  <2> HIDE DEF o, b
  <2>4. /\ t \in Seq(Mit(I)) /\ Len(t) = Len(s) + 1 /\ Len(s) \in Nat /\ DOMAIN t = 1..Len(t)
        /\ t[Len(s) + 1] = b /\ \A i \in 1..Len(s) : t[i] = o[i]
    BY <2>2, <2>3, AppendProperties
  <2> HIDE DEF t
  <2>5. Len(s) + 1 \in DOMAIN t
    BY <2>4
  <2>6. ASSUME NEW i \in DOMAIN t PROVE t[i].aktiv <=> i = Len(s) + 1
    BY <2>2, <2>3, <2>4
  <2> QED
    BY <2>1, <2>4, <2>5, <2>6 DEF GenauEiner
<1> QED
  BY <1>1, <1>2

\* Typing an id into a sender's field
LEMMA EintragenWirkt ==
    ASSUME NEW I, NEW s \in Seq(Mit(I)), NEW id \in I, NEW i \in DOMAIN s, GenauEiner(s)
    PROVE  [s EXCEPT ![i].id = id] \in Seq(Mit(I)) /\ GenauEiner([s EXCEPT ![i].id = id])
<1> DEFINE t == [s EXCEPT ![i].id = id]
<1>0. Len(s) \in Nat /\ DOMAIN s = 1..Len(s) /\ i \in 1..Len(s)
  OBVIOUS
<1>1. t = [j \in 1..Len(s) |-> IF j = i THEN [s[i] EXCEPT !.id = id] ELSE s[j]]
  BY <1>0
<1>2. ASSUME NEW j \in 1..Len(s) PROVE t[j] \in Mit(I) /\ (t[j].aktiv <=> s[j].aktiv)
  <2>1. s[j] \in Mit(I)
    OBVIOUS
  <2>2. [s[j] EXCEPT !.id = id] \in Mit(I) /\ ([s[j] EXCEPT !.id = id].aktiv <=> s[j].aktiv)
    BY <2>1 DEF Mit
  <2>3. t[j] = IF j = i THEN [s[j] EXCEPT !.id = id] ELSE s[j]
    BY <1>1
  <2> HIDE DEF t
  <2> QED
    BY <2>1, <2>2, <2>3
<1> HIDE DEF t
<1>3. t \in Seq(Mit(I)) /\ Len(t) = Len(s) /\ DOMAIN t = 1..Len(s)
  BY <1>0, <1>1, <1>2
<1>4. GenauEiner(t)
  <2>1. PICK n \in DOMAIN s : \A j \in DOMAIN s : s[j].aktiv <=> j = n
    BY <1>0 DEF GenauEiner
  <2>2. n \in DOMAIN t /\ \A j \in DOMAIN t : t[j].aktiv <=> j = n
    BY <1>0, <1>2, <1>3, <2>1
  <2> QED
    BY <2>2 DEF GenauEiner
<1> QED
  BY <1>3, <1>4 DEF t

\* The pair id is that of an active sender where there is one, of the first
\* sender where there is none.
LEMMA PaarWirkt ==
    ASSUME NEW I, NEW s \in Seq(Mit(I))
    PROVE  /\ s = <<>> => Paar(s) = Leer
           /\ s # <<>> => \E n \in DOMAIN s : Paar(s) = s[n].id
           /\ \A n \in DOMAIN s : s[n].aktiv =>
                  \E m \in DOMAIN s : s[m].aktiv /\ Paar(s) = s[m].id
           /\ (s # <<>> /\ \A n \in DOMAIN s : ~s[n].aktiv) => Paar(s) = s[1].id
<1>1. \/ Aktiver(s) = 0 /\ \A i \in DOMAIN s : ~s[i].aktiv
      \/ Aktiver(s) \in DOMAIN s /\ s[Aktiver(s)].aktiv
  BY ErsterAktiver
<1>2. s # <<>> => 1 \in DOMAIN s
  OBVIOUS
<1>3. 0 \notin DOMAIN s
  OBVIOUS
<1> QED
  BY <1>1, <1>2, <1>3 DEF Paar

LEMMA PaarDesEinen ==
    ASSUME NEW I, NEW s \in Seq(Mit(I)), GenauEiner(s), NEW n \in DOMAIN s, s[n].aktiv
    PROVE  Paar(s) = s[n].id
<1>1. PICK m \in DOMAIN s : s[m].aktiv /\ Paar(s) = s[m].id
  BY PaarWirkt
<1>2. s # <<>>
  OBVIOUS
<1>3. m = n
  BY <1>1, <1>2 DEF GenauEiner
<1> QED
  BY <1>1, <1>3

\* saveEdit sends the senders with an id, each of them, and no other.
LEMMA GefuelltWirkt ==
    ASSUME NEW s \in Seq(Mit(Ids \cup {Leer}))
    PROVE  /\ Gefuellt(s) \in Seq(Mit(Ids))
           /\ \A m \in DOMAIN Gefuellt(s) : \E n \in DOMAIN s : s[n].id # Leer /\ Gefuellt(s)[m] = s[n]
           /\ \A n \in DOMAIN s : s[n].id # Leer => \E m \in DOMAIN Gefuellt(s) : Gefuellt(s)[m] = s[n]
<1> DEFINE volle == {n \in DOMAIN s : s[n].id # Leer}
           t == Gefuellt(s)
<1>1. Len(s) \in Nat /\ DOMAIN s = 1..Len(s)
  OBVIOUS
<1>2. volle \in SUBSET (Nat \ {0}) /\ volle \in SUBSET (1..Len(s))
  BY <1>1
<1>3. IsFiniteSet(volle)
  <2> HIDE DEF volle
  <2>1. IsFiniteSet(1..Len(s))
    BY <1>1, FS_Interval
  <2> QED
    BY <1>2, <2>1, FS_Subset
<1>4. t = [m \in 1..Cardinality(volle) |-> s[Nter(volle, m)]]
  BY DEF Gefuellt
<1>5. /\ Cardinality(volle) \in Nat
      /\ \A m \in 1..Cardinality(volle) : Nter(volle, m) \in volle
      /\ \A k \in volle : Rang(volle, k) \in 1..Cardinality(volle) /\ Nter(volle, Rang(volle, k)) = k
  <2> HIDE DEF volle
  <2> QED
    BY <1>2, <1>3, Rangfolge
<1>6. ASSUME NEW k \in volle PROVE k \in DOMAIN s /\ s[k].id # Leer /\ s[k] \in Mit(Ids)
  <2>1. k \in DOMAIN s /\ s[k].id # Leer
    OBVIOUS
  <2>2. s[k] \in Mit(Ids \cup {Leer})
    BY <2>1
  <2> QED
    BY <2>1, <2>2 DEF Mit
<1>7. \A n \in DOMAIN s : s[n].id # Leer => n \in volle
  OBVIOUS
<1> HIDE DEF volle, t
<1>8. DOMAIN t = 1..Cardinality(volle) /\ \A m \in 1..Cardinality(volle) : t[m] = s[Nter(volle, m)]
  BY <1>4
<1>9. t \in Seq(Mit(Ids))
  BY <1>4, <1>5, <1>6
<1>10. \A m \in DOMAIN t : \E n \in DOMAIN s : s[n].id # Leer /\ t[m] = s[n]
  BY <1>5, <1>6, <1>8
<1>11. ASSUME NEW n \in DOMAIN s, s[n].id # Leer
       PROVE  \E m \in DOMAIN t : t[m] = s[n]
  <2>1. n \in volle
    BY <1>7, <1>11
  <2>2. Rang(volle, n) \in DOMAIN t /\ t[Rang(volle, n)] = s[n]
    BY <1>5, <1>8, <2>1
  <2> QED
    BY <2>2
<1> QED
  BY <1>9, <1>10, <1>11 DEF t

\* What a request carries of a channel
Ladung == [sender : Seq(Mit(Ids)), paar : Ids \cup {Leer}, eep : Eeps, invert : BOOLEAN]

\* The server normalises what it gets: one sender is active whatever was sent.
LEMMA BereinigtWirkt ==
    ASSUME NEW c \in Ladung
    PROVE  /\ Bereinigt(c) \in Kanal
           /\ GenauEiner(Bereinigt(c).sender)
           /\ Bereinigt(c).eep = c.eep /\ Bereinigt(c).invert = c.invert
           /\ c.sender = <<>> /\ c.paar = Leer => Bereinigt(c).sender = <<>>
           /\ c.sender # <<>> =>
                  /\ Len(Bereinigt(c).sender) = Len(c.sender)
                  /\ \A n \in DOMAIN c.sender : Bereinigt(c).sender[n].id = c.sender[n].id
                  /\ Paar(Bereinigt(c).sender) = Paar(c.sender)
<1> DEFINE ein == <<[id |-> c.paar, aktiv |-> TRUE]>>
           s == IF c.sender = <<>> /\ c.paar # Leer THEN ein ELSE c.sender
           a == IF Aktiver(s) = 0 THEN 1 ELSE Aktiver(s)
           t == AlleinAktiv(s, a)
<1>1. c.sender \in Seq(Mit(Ids)) /\ c.paar \in Ids \cup {Leer} /\ c.eep \in Eeps /\ c.invert \in BOOLEAN
  BY DEF Ladung
<1>2. s \in Seq(Mit(Ids))
  <2>1. CASE c.sender = <<>> /\ c.paar # Leer
    <3>1. [id |-> c.paar, aktiv |-> TRUE] \in Mit(Ids)
      BY <1>1, <2>1 DEF Mit
    <3> QED
      BY <2>1, <3>1
  <2>2. CASE ~(c.sender = <<>> /\ c.paar # Leer)
    BY <1>1, <2>2
  <2> QED
    BY <2>1, <2>2
<1>3. Bereinigt(c) = [sender |-> t, eep |-> c.eep, invert |-> c.invert]
  BY DEF Bereinigt
<1>4. c.sender = <<>> /\ c.paar = Leer => s = <<>>
  OBVIOUS
<1>5. c.sender # <<>> => s = c.sender
  OBVIOUS
<1> HIDE DEF s
<1>6. /\ t \in Seq(Mit(Ids)) /\ Len(t) = Len(s)
      /\ \A i \in 1..Len(s) : t[i].id = s[i].id /\ (t[i].aktiv <=> i = a)
  <2> HIDE DEF a
  <2> QED
    BY <1>2, AlleinAktivWirkt
<1>7. Len(s) \in Nat /\ DOMAIN s = 1..Len(s) /\ DOMAIN t = 1..Len(s) /\ (s = <<>> <=> Len(s) = 0)
  <2> HIDE DEF t
  <2> QED
    BY <1>2, <1>6
<1>8. s # <<>> => a \in DOMAIN s
  <2>1. Aktiver(s) = 0 \/ Aktiver(s) \in DOMAIN s
    BY <1>2, ErsterAktiver
  <2> QED
    BY <1>7, <2>1
<1>9. GenauEiner(t)
  <2>1. CASE s = <<>>
    <3>1. t = <<>>
      <4> HIDE DEF t
      <4> QED
        BY <1>6, <1>7, <2>1
    <3> HIDE DEF t
    <3> QED
      BY <3>1 DEF GenauEiner
  <2>2. CASE s # <<>>
    <3> HIDE DEF a
    <3> QED
      BY <1>2, <1>8, <2>2, AlleinAktivGenau
  <2> QED
    BY <2>1, <2>2
<1>10. s = <<>> => t = <<>>
  <2> HIDE DEF t
  <2> QED
    BY <1>6, <1>7
<1>11. s # <<>> => Paar(t) = Paar(s)
  <2> SUFFICES ASSUME s # <<>> PROVE Paar(t) = Paar(s)
    OBVIOUS
  <2>1. Paar(s) = s[a].id
    <3>1. a = IF Aktiver(s) = 0 THEN 1 ELSE Aktiver(s)
      OBVIOUS
    <3> HIDE DEF a
    <3> QED
      BY <3>1 DEF Paar
  <2>2. a \in DOMAIN t /\ t[a].aktiv /\ t[a].id = s[a].id
    <3> HIDE DEF a, t
    <3> QED
      BY <1>6, <1>7, <1>8
  <2> HIDE DEF a, t
  <2>3. Paar(t) = t[a].id
    BY <1>6, <1>9, <2>2, PaarDesEinen
  <2> QED
    BY <2>1, <2>2, <2>3
<1> HIDE DEF t, a
<1>12. Bereinigt(c) \in Kanal /\ Bereinigt(c).sender = t /\ Bereinigt(c).eep = c.eep /\ Bereinigt(c).invert = c.invert
  BY <1>1, <1>3, <1>6 DEF Kanal, Mit
<1> QED
  BY <1>4, <1>5, <1>6, <1>7, <1>9, <1>10, <1>11, <1>12

-----------------------------------------------------------------------------
(* Rows *)

\* The rows of a dialog: one for a channel, one active sender in each.
ReihenGut(rs) ==
    /\ rs \in Seq(Reihentyp)
    /\ \A j \in DOMAIN rs : GenauEiner(rs[j].sender)
    /\ \A i, j \in DOMAIN rs : rs[i].kanal = rs[j].kanal => i = j

\* The same channels with the same EEPs
GleicheKanaele(rs, neu) ==
    /\ DOMAIN neu = DOMAIN rs
    /\ \A j \in DOMAIN rs : neu[j].kanal = rs[j].kanal /\ neu[j].eep = rs[j].eep

LEMMA ReihenForm ==
    ASSUME NEW rs, ReihenGut(rs)
    PROVE  /\ Len(rs) \in Nat /\ DOMAIN rs = 1..Len(rs)
           /\ \A j \in DOMAIN rs : /\ rs[j] \in Reihentyp /\ rs[j].kanal \in Kanaele
                                   /\ rs[j].sender \in Seq(Mit(Ids \cup {Leer}))
                                   /\ rs[j].paar \in Ids \cup {Leer} /\ rs[j].eep \in Eeps
<1>1. rs \in Seq(Reihentyp)
  BY DEF ReihenGut
<1>2. Len(rs) \in Nat /\ DOMAIN rs = 1..Len(rs) /\ \A j \in DOMAIN rs : rs[j] \in Reihentyp
  BY <1>1
<1> QED
  BY <1>2 DEF Reihentyp, Mit

\* Replacing a row by one for the same channel
LEMMA ReiheErsetzt ==
    ASSUME NEW rs, ReihenGut(rs), NEW j \in DOMAIN rs, NEW r \in Reihentyp,
           r.kanal = rs[j].kanal, GenauEiner(r.sender)
    PROVE  ReihenGut([rs EXCEPT ![j] = r])
<1> DEFINE t == [rs EXCEPT ![j] = r]
<1>1. Len(rs) \in Nat /\ DOMAIN rs = 1..Len(rs) /\ rs \in Seq(Reihentyp)
  BY ReihenForm DEF ReihenGut
<1>2. t \in Seq(Reihentyp) /\ Len(t) = Len(rs) /\ \A i \in 1..Len(rs) : t[i] = IF i = j THEN r ELSE rs[i]
  BY <1>1, ExceptSeq
<1> HIDE DEF t
<1>3. DOMAIN t = DOMAIN rs
  BY <1>1, <1>2
<1>4. \A i \in DOMAIN t : GenauEiner(t[i].sender) /\ t[i].kanal = rs[i].kanal
  BY <1>1, <1>2, <1>3 DEF ReihenGut
<1>5. ReihenGut(t)
  BY <1>2, <1>3, <1>4 DEF ReihenGut
<1> QED
  BY <1>5 DEF t

LEMMA SenderErsetzt ==
    ASSUME NEW rs, ReihenGut(rs), NEW j \in DOMAIN rs,
           NEW s \in Seq(Mit(Ids \cup {Leer})), GenauEiner(s)
    PROVE  ReihenGut([rs EXCEPT ![j].sender = s]) /\ GleicheKanaele(rs, [rs EXCEPT ![j].sender = s])
<1> DEFINE r == [rs[j] EXCEPT !.sender = s]
           t == [rs EXCEPT ![j] = r]
<1>1. rs[j] \in Reihentyp
  BY ReihenForm
<1>2. r \in Reihentyp /\ r.kanal = rs[j].kanal /\ r.sender = s /\ r.eep = rs[j].eep
  BY <1>1 DEF Reihentyp, Mit
<1>3. [rs EXCEPT ![j].sender = s] = t
  OBVIOUS
<1> HIDE DEF r
<1>4. ReihenGut(t)
  BY <1>2, ReiheErsetzt
<1>5. GleicheKanaele(rs, t)
  BY <1>2 DEF GleicheKanaele
<1> HIDE DEF t
<1> QED
  BY <1>3, <1>4, <1>5

LEMMA EepErsetzt ==
    ASSUME NEW rs, ReihenGut(rs), NEW j \in DOMAIN rs, NEW e \in Eeps
    PROVE  /\ ReihenGut([rs EXCEPT ![j].eep = e])
           /\ DOMAIN [rs EXCEPT ![j].eep = e] = DOMAIN rs
           /\ \A i \in DOMAIN rs :
                 /\ [rs EXCEPT ![j].eep = e][i].kanal = rs[i].kanal
                 /\ [rs EXCEPT ![j].eep = e][i].eep = IF i = j THEN e ELSE rs[i].eep
<1> DEFINE r == [rs[j] EXCEPT !.eep = e]
           t == [rs EXCEPT ![j] = r]
           u == [rs EXCEPT ![j].eep = e]
<1>1. rs[j] \in Reihentyp /\ GenauEiner(rs[j].sender)
  BY ReihenForm DEF ReihenGut
<1>2. r \in Reihentyp /\ r.kanal = rs[j].kanal /\ r.sender = rs[j].sender /\ r.eep = e
  BY <1>1 DEF Reihentyp
<1>3. u = t
  OBVIOUS
<1> HIDE DEF r
<1>4. ReihenGut(t)
  BY <1>1, <1>2, ReiheErsetzt
<1>5. DOMAIN t = DOMAIN rs /\ \A i \in DOMAIN rs : t[i] = IF i = j THEN r ELSE rs[i]
  OBVIOUS
<1> HIDE DEF t, u
<1>6. ReihenGut(u) /\ DOMAIN u = DOMAIN rs
  BY <1>3, <1>4, <1>5
<1>7. \A i \in DOMAIN rs : u[i].kanal = rs[i].kanal /\ u[i].eep = IF i = j THEN e ELSE rs[i].eep
  BY <1>2, <1>3, <1>5
<1> QED
  BY <1>6, <1>7 DEF u

LEMMA LeereReiheGut ==
    ASSUME NEW k \in Kanaele
    PROVE  /\ LeereReihe(k) \in Reihentyp /\ LeereReihe(k).kanal = k
           /\ GenauEiner(LeereReihe(k).sender)
<1>1. ErstesEep \in Eeps
  BY GeraeteTabAnnahme DEF ErstesEep
<1>2. <<>> \in Seq([id : Ids \cup {Leer}, aktiv : BOOLEAN])
  OBVIOUS
<1> QED
  BY <1>1, <1>2 DEF LeereReihe, Reihentyp, GenauEiner

LEMMA ReiheAngehaengt ==
    ASSUME NEW rs, ReihenGut(rs), NEW r \in Reihentyp, GenauEiner(r.sender),
           \A j \in DOMAIN rs : rs[j].kanal # r.kanal
    PROVE  ReihenGut(Append(rs, r))
<1> DEFINE t == Append(rs, r)
<1>1. Len(rs) \in Nat /\ DOMAIN rs = 1..Len(rs) /\ rs \in Seq(Reihentyp)
  BY ReihenForm DEF ReihenGut
<1>2. /\ t \in Seq(Reihentyp) /\ Len(t) = Len(rs) + 1 /\ DOMAIN t = 1..(Len(rs) + 1)
      /\ t[Len(rs) + 1] = r /\ \A i \in 1..Len(rs) : t[i] = rs[i]
  BY <1>1, AppendProperties
<1> HIDE DEF t
<1>3. \A i \in DOMAIN t : i \in DOMAIN rs \/ i = Len(rs) + 1
  BY <1>1, <1>2
<1>4. \A i \in DOMAIN t : GenauEiner(t[i].sender)
  BY <1>1, <1>2, <1>3 DEF ReihenGut
<1>5. \A i, j \in DOMAIN t : t[i].kanal = t[j].kanal => i = j
  BY <1>1, <1>2, <1>3 DEF ReihenGut
<1>6. ReihenGut(t)
  BY <1>2, <1>4, <1>5 DEF ReihenGut
<1> QED
  BY <1>6 DEF t

LEMMA ReiheEntfernt ==
    ASSUME NEW rs, ReihenGut(rs), NEW i \in DOMAIN rs
    PROVE  /\ ReihenGut(RemoveAt(rs, i))
           /\ \A j \in DOMAIN RemoveAt(rs, i) : \E k \in DOMAIN rs : k # i /\ RemoveAt(rs, i)[j] = rs[k]
           /\ \A k \in DOMAIN rs : k # i => \E j \in DOMAIN RemoveAt(rs, i) : RemoveAt(rs, i)[j] = rs[k]
<1> DEFINE t == RemoveAt(rs, i)
           woher(j) == IF j < i THEN j ELSE j + 1
           wohin(k) == IF k < i THEN k ELSE k - 1
<1>1. Len(rs) \in Nat /\ DOMAIN rs = 1..Len(rs) /\ rs \in Seq(Reihentyp)
  BY ReihenForm DEF ReihenGut
<1>2. /\ t \in Seq(Reihentyp) /\ Len(t) = Len(rs) - 1
      /\ \A j \in 1..(Len(rs) - 1) : t[j] = IF j < i THEN rs[j] ELSE rs[j + 1]
  BY <1>1, RemoveAtWirkt
<1> HIDE DEF t
<1>3. DOMAIN t = 1..(Len(rs) - 1)
  BY <1>2
<1>4. ASSUME NEW j \in DOMAIN t
      PROVE  woher(j) \in DOMAIN rs /\ woher(j) # i /\ t[j] = rs[woher(j)]
  BY <1>1, <1>2, <1>3
<1>5. \A j, k \in DOMAIN t : woher(j) = woher(k) => j = k
  BY <1>1, <1>3
<1>6. ASSUME NEW k \in DOMAIN rs, k # i
      PROVE  wohin(k) \in DOMAIN t /\ woher(wohin(k)) = k
  BY <1>1, <1>3, <1>6
<1> HIDE DEF woher, wohin
<1>7. ReihenGut(t)
  <2>1. \A j \in DOMAIN t : GenauEiner(t[j].sender)
    BY <1>4 DEF ReihenGut
  <2>2. \A j, k \in DOMAIN t : t[j].kanal = t[k].kanal => j = k
    BY <1>4, <1>5 DEF ReihenGut
  <2> QED
    BY <1>2, <2>1, <2>2 DEF ReihenGut
<1>8. ASSUME NEW k \in DOMAIN rs, k # i PROVE \E j \in DOMAIN t : t[j] = rs[k]
  <2>1. wohin(k) \in DOMAIN t /\ woher(wohin(k)) = k
    BY <1>6, <1>8
  <2>2. t[wohin(k)] = rs[woher(wohin(k))]
    BY <1>4, <2>1
  <2> QED
    BY <2>1, <2>2
<1> QED
  BY <1>4, <1>7, <1>8 DEF t

\* A registry, or a list of it: channels as Kanal has them, one active sender each.
RegisterGut(r) ==
    /\ IstRegister(r)
    /\ \A g \in DOMAIN r : \A k \in DOMAIN r[g] : GenauEiner(r[g][k].sender)

\* The rows show the channels of a device and their EEPs, no other and all.
Spiegelt(rs, f) ==
    /\ \A j \in DOMAIN rs : rs[j].kanal \in DOMAIN f /\ f[rs[j].kanal].eep = rs[j].eep
    /\ \A k \in DOMAIN f : \E j \in DOMAIN rs : rs[j].kanal = k

LEMMA KanaeleEndlich ==
    ASSUME NEW S \in SUBSET Kanaele
    PROVE  S \in SUBSET (Nat \ {0}) /\ IsFiniteSet(S)
BY GeraeteTabAnnahme, FS_Subset

LEMMA ReiheAusKanal ==
    ASSUME NEW k \in Kanaele, NEW c \in Kanal, GenauEiner(c.sender)
    PROVE  /\ Reihe(k, c) \in Reihentyp /\ Reihe(k, c).kanal = k /\ Reihe(k, c).eep = c.eep
           /\ GenauEiner(Reihe(k, c).sender)
<1>1. c.sender \in Seq(Mit(Ids)) /\ c.eep \in Eeps
  BY DEF Kanal, Mit
<1>2. Mit(Ids) \subseteq Mit(Ids \cup {Leer})
  BY DEF Mit
<1>3. c.sender \in Seq(Mit(Ids \cup {Leer}))
  BY <1>1, <1>2, SeqMonotonic
<1>4. Paar(c.sender) \in Ids \cup {Leer}
  <2>1. CASE c.sender = <<>>
    BY <1>1, <2>1, PaarWirkt
  <2>2. CASE c.sender # <<>>
    <3>1. PICK n \in DOMAIN c.sender : Paar(c.sender) = c.sender[n].id
      BY <1>1, <2>2, PaarWirkt
    <3>2. c.sender[n] \in Mit(Ids)
      BY <1>1
    <3> QED
      BY <3>1, <3>2 DEF Mit
  <2> QED
    BY <2>1, <2>2
<1> QED
  BY <1>1, <1>3, <1>4 DEF Reihe, Reihentyp, Mit

\* openEdit makes a row of each channel of the list's device.
LEMMA ReihenGeoeffnet ==
    ASSUME NEW f, DOMAIN f \subseteq Kanaele,
           \A k \in DOMAIN f : f[k] \in Kanal /\ GenauEiner(f[k].sender),
           NEW rs, rs = [j \in 1..Cardinality(DOMAIN f) |->
                            LET k == Nter(DOMAIN f, j) IN Reihe(k, f[k])]
    PROVE  ReihenGut(rs) /\ Spiegelt(rs, f)
<1> DEFINE D == DOMAIN f
<1>1. /\ Cardinality(D) \in Nat
      /\ \A j \in 1..Cardinality(D) : Nter(D, j) \in D /\ Rang(D, Nter(D, j)) = j
      /\ \A k \in D : Rang(D, k) \in 1..Cardinality(D) /\ Nter(D, Rang(D, k)) = k
  <2>1. D \in SUBSET (Nat \ {0}) /\ IsFiniteSet(D)
    BY KanaeleEndlich
  <2> QED
    BY <2>1, Rangfolge
<1>2. ASSUME NEW k \in D
      PROVE  /\ Reihe(k, f[k]) \in Reihentyp /\ Reihe(k, f[k]).kanal = k
             /\ Reihe(k, f[k]).eep = f[k].eep /\ GenauEiner(Reihe(k, f[k]).sender)
  BY ReiheAusKanal
<1>3. /\ DOMAIN rs = 1..Cardinality(D)
      /\ \A j \in 1..Cardinality(D) : rs[j] = Reihe(Nter(D, j), f[Nter(D, j)])
  OBVIOUS
<1>4. \A j \in DOMAIN rs : /\ rs[j] \in Reihentyp /\ rs[j].kanal = Nter(D, j)
                           /\ rs[j].eep = f[Nter(D, j)].eep /\ GenauEiner(rs[j].sender)
  BY <1>1, <1>2, <1>3
<1>5. rs \in Seq(Reihentyp)
  BY <1>1, <1>3, <1>4
<1>6. \A i, j \in DOMAIN rs : rs[i].kanal = rs[j].kanal => i = j
  BY <1>1, <1>3, <1>4
<1>7. \A k \in D : \E j \in DOMAIN rs : rs[j].kanal = k
  BY <1>1, <1>3, <1>4
<1>8. ReihenGut(rs)
  BY <1>4, <1>5, <1>6 DEF ReihenGut
<1>9. Spiegelt(rs, f)
  BY <1>1, <1>3, <1>4, <1>7 DEF Spiegelt
<1> QED
  BY <1>8, <1>9

\* rescaffoldChannels makes an empty row of each channel of the product.
LEMMA ReihenDerVorlage ==
    ASSUME NEW rs, rs = [j \in 1..Cardinality(Vorlage) |-> LeereReihe(Nter(Vorlage, j))]
    PROVE  ReihenGut(rs)
<1>1. /\ Cardinality(Vorlage) \in Nat
      /\ \A j \in 1..Cardinality(Vorlage) : Nter(Vorlage, j) \in Vorlage /\ Rang(Vorlage, Nter(Vorlage, j)) = j
  <2>1. Vorlage \in SUBSET Kanaele
    BY GeraeteTabAnnahme
  <2>2. Vorlage \in SUBSET (Nat \ {0}) /\ IsFiniteSet(Vorlage)
    BY <2>1, KanaeleEndlich
  <2> QED
    BY <2>2, Rangfolge
<1>2. ASSUME NEW k \in Vorlage
      PROVE  /\ LeereReihe(k) \in Reihentyp /\ LeereReihe(k).kanal = k
             /\ GenauEiner(LeereReihe(k).sender)
  <2>1. k \in Kanaele
    BY GeraeteTabAnnahme
  <2> QED
    BY <2>1, LeereReiheGut
<1>3. DOMAIN rs = 1..Cardinality(Vorlage)
  OBVIOUS
<1>4. \A j \in DOMAIN rs : rs[j] \in Reihentyp /\ rs[j].kanal = Nter(Vorlage, j) /\ GenauEiner(rs[j].sender)
  BY <1>1, <1>2
<1>5. rs \in Seq(Reihentyp)
  BY <1>1, <1>3, <1>4
<1>6. \A i, j \in DOMAIN rs : rs[i].kanal = rs[j].kanal => i = j
  BY <1>1, <1>3, <1>4
<1> QED
  BY <1>4, <1>5, <1>6 DEF ReihenGut

-----------------------------------------------------------------------------
(* What requests carry *)

LadungenGut(n) == DOMAIN n \subseteq Kanaele /\ \A k \in DOMAIN n : n[k] \in Ladung

\* A saved device is the one that the user saw in the rows.
Getreu(w) ==
    /\ ReihenGut(w.bild)
    /\ \A j \in DOMAIN w.bild :
          /\ w.bild[j].kanal \in DOMAIN w.nutzlast
          /\ w.nutzlast[w.bild[j].kanal].sender = Gefuellt(w.bild[j].sender)
          /\ w.nutzlast[w.bild[j].kanal].paar = w.bild[j].paar
    /\ \A k \in DOMAIN w.nutzlast : \E j \in DOMAIN w.bild : w.bild[j].kanal = k

\* And of each channel the EEP that the row shows, and the list's direction.
AusReihen(n, g, rs) ==
    /\ \A j \in DOMAIN rs : /\ rs[j].kanal \in DOMAIN n
                             /\ n[rs[j].kanal].eep = rs[j].eep
                             /\ n[rs[j].kanal].invert = Invert(g, rs[j].kanal)
    /\ \A k \in DOMAIN n : \E j \in DOMAIN rs : rs[j].kanal = k

LEMMA InvertIstBoolesch ==
    ASSUME IstRegister(liste), NEW g, NEW k
    PROVE  Invert(g, k) \in BOOLEAN
BY DEF IstRegister, Invert, Kanal

LEMMA SerialisiertWirkt ==
    ASSUME NEW g, NEW rs, ReihenGut(rs), IstRegister(liste)
    PROVE  /\ LadungenGut(Serialisiert(g, rs))
           /\ Getreu([bild |-> rs, nutzlast |-> Serialisiert(g, rs)])
           /\ AusReihen(Serialisiert(g, rs), g, rs)
<1> DEFINE n == Serialisiert(g, rs)
           Zeile(k) == CHOOSE j \in DOMAIN rs : rs[j].kanal = k
<1>1. DOMAIN n = {rs[j].kanal : j \in DOMAIN rs}
  BY DEF Serialisiert
<1>2. ASSUME NEW k \in DOMAIN n
      PROVE  n[k] = [sender |-> Gefuellt(rs[Zeile(k)].sender), paar |-> rs[Zeile(k)].paar,
                     eep |-> rs[Zeile(k)].eep, invert |-> Invert(g, k)]
  BY <1>1 DEF Serialisiert
<1>3. ASSUME NEW k \in DOMAIN n PROVE Zeile(k) \in DOMAIN rs /\ rs[Zeile(k)].kanal = k
  BY <1>1
<1>4. ASSUME NEW j \in DOMAIN rs PROVE rs[j].kanal \in DOMAIN n /\ Zeile(rs[j].kanal) = j
  <2>1. rs[j].kanal \in DOMAIN n
    BY <1>1
  <2>2. Zeile(rs[j].kanal) \in DOMAIN rs /\ rs[Zeile(rs[j].kanal)].kanal = rs[j].kanal
    BY <1>3, <2>1
  <2> HIDE DEF Zeile
  <2> QED
    BY <2>1, <2>2 DEF ReihenGut
<1> HIDE DEF n, Zeile
<1>5. ASSUME NEW k \in DOMAIN n PROVE k \in Kanaele /\ n[k] \in Ladung
  <2> DEFINE r == rs[Zeile(k)]
  <2>1. r.kanal = k /\ r.kanal \in Kanaele /\ r.sender \in Seq(Mit(Ids \cup {Leer}))
        /\ r.paar \in Ids \cup {Leer} /\ r.eep \in Eeps
    BY <1>3, ReihenForm
  <2>2. n[k] = [sender |-> Gefuellt(r.sender), paar |-> r.paar, eep |-> r.eep, invert |-> Invert(g, k)]
    BY <1>2
  <2> HIDE DEF r
  <2>3. Gefuellt(r.sender) \in Seq(Mit(Ids))
    BY <2>1, GefuelltWirkt
  <2>4. Invert(g, k) \in BOOLEAN
    BY InvertIstBoolesch
  <2> QED
    BY <2>1, <2>2, <2>3, <2>4 DEF Ladung
<1>6. ASSUME NEW j \in DOMAIN rs
      PROVE  /\ n[rs[j].kanal].sender = Gefuellt(rs[j].sender) /\ n[rs[j].kanal].paar = rs[j].paar
             /\ n[rs[j].kanal].eep = rs[j].eep /\ n[rs[j].kanal].invert = Invert(g, rs[j].kanal)
  BY <1>2, <1>4
<1>7. LadungenGut(n)
  BY <1>5 DEF LadungenGut
<1>8. \A k \in DOMAIN n : \E j \in DOMAIN rs : rs[j].kanal = k
  BY <1>3
<1>9. Getreu([bild |-> rs, nutzlast |-> n])
  BY <1>4, <1>6, <1>8 DEF Getreu
<1>10. AusReihen(n, g, rs)
  BY <1>4, <1>6, <1>8 DEF AusReihen
<1> QED
  BY <1>7, <1>9, <1>10 DEF n

\* Nor does toggleInvertDirection send anything but the list's channels.
Umgekehrt(f, k, an) == [c \in DOMAIN f |-> [Nutzlast(f[c]) EXCEPT !.invert = IF c = k THEN an ELSE @]]

WieListe(n, f, k) ==
    /\ DOMAIN n = DOMAIN f
    /\ \A c \in DOMAIN f : n[c].eep = f[c].eep /\ (c # k => n[c].invert = f[c].invert)

LEMMA UmkehrenLadung ==
    ASSUME NEW f, DOMAIN f \subseteq Kanaele, \A c \in DOMAIN f : f[c] \in Kanal,
           NEW k, NEW an \in BOOLEAN
    PROVE  LadungenGut(Umgekehrt(f, k, an)) /\ WieListe(Umgekehrt(f, k, an), f, k)
<1> DEFINE n == Umgekehrt(f, k, an)
<1>0. n = [c \in DOMAIN f |-> [Nutzlast(f[c]) EXCEPT !.invert = IF c = k THEN an ELSE @]]
  BY DEF Umgekehrt
<1> HIDE DEF n
<1>1. ASSUME NEW c \in DOMAIN f
      PROVE  n[c] \in Ladung /\ n[c].eep = f[c].eep /\ (c # k => n[c].invert = f[c].invert)
  <2>1. f[c] \in Kanal
    OBVIOUS
  <2>2. f[c].sender \in Seq(Mit(Ids)) /\ f[c].eep \in Eeps /\ f[c].invert \in BOOLEAN
    BY <2>1 DEF Kanal, Mit
  <2>3. Paar(f[c].sender) \in Ids \cup {Leer}
    <3> DEFINE s == f[c].sender
    <3>1. CASE s = <<>>
      BY <2>2, <3>1, PaarWirkt
    <3>2. CASE s # <<>>
      <4>1. PICK m \in DOMAIN s : Paar(s) = s[m].id
        BY <2>2, <3>2, PaarWirkt
      <4>2. s[m] \in Mit(Ids)
        BY <2>2
      <4> QED
        BY <4>1, <4>2 DEF Mit
    <3> QED
      BY <3>1, <3>2
  <2>4. n[c] = [Nutzlast(f[c]) EXCEPT !.invert = IF c = k THEN an ELSE @]
    BY <1>0
  <2>5. n[c] = [sender |-> f[c].sender, paar |-> Paar(f[c].sender), eep |-> f[c].eep,
                invert |-> IF c = k THEN an ELSE f[c].invert]
    BY <2>4 DEF Nutzlast
  <2> QED
    BY <2>2, <2>3, <2>5 DEF Ladung
<1>2. DOMAIN n = DOMAIN f
  BY <1>0
<1> QED
  BY <1>1, <1>2 DEF LadungenGut, WieListe, n

-----------------------------------------------------------------------------
(* The inductive invariant: types, one active sender, faithful requests *)

Arten == Schreibend \cup {"liste", "naechste_id", "paarung", "vorlage"}

WertGut(art, ort, w) ==
    /\ art = "speichern" => Getreu(w) /\ LadungenGut(w.nutzlast)
    /\ art = "umkehren" => LadungenGut(w.nutzlast) /\ w.an \in BOOLEAN
    /\ art = "anlegen" => LadungenGut(w)
    /\ art = "eep" => w \in Eeps
    /\ art = "liste" /\ ort = "zurueck" => RegisterGut(w)
    /\ art = "naechste_id" /\ ort = "hin" => w \in {"sender", "paarung"}
    /\ art = "naechste_id" /\ ort = "zurueck" => w.zweck \in {"sender", "paarung"} /\ w.id \in Ids
    /\ art = "paarung" => w \in Ids

AntragGut(a) ==
    /\ a \in [art : Arten, ort : {"hin", "zurueck", "fehler"}, geraet : Geraete \cup {Keins},
              kanal : Kanaele \cup {Leer}, wert : {a.wert}, reihe : Kanaele \cup {Leer}, hier : BOOLEAN]
    /\ a.art \in Schreibend => a.geraet \in Geraete
    /\ WertGut(a.art, a.ort, a.wert)

AnfragenGut(A) ==
    /\ DOMAIN A = Plaetze
    /\ \A i \in Plaetze : A[i] # Frei => AntragGut(A[i])

DialogGut(d) ==
    /\ d \in [offen : BOOLEAN, modus : {"edit", "add"}, geraet : Geraete \cup {Keins},
              reihen : Seq(Reihentyp), saving : BOOLEAN, busy : BOOLEAN, alt : BOOLEAN]
    /\ ReihenGut(d.reihen)
    /\ d.offen /\ d.modus = "edit" => d.geraet \in Geraete

IInv ==
    /\ RegisterGut(server)
    /\ RegisterGut(liste)
    /\ DialogGut(dialog)
    /\ AnfragenGut(anfrage)
    /\ gestoert \subseteq Geraete /\ eingaben \in 0..MaxEingaben

LEMMA AntragForm ==
    ASSUME NEW a, AntragGut(a)
    PROVE  /\ a # Frei /\ a.art \in Arten /\ a.ort \in {"hin", "zurueck", "fehler"}
           /\ a.geraet \in Geraete \cup {Keins} /\ a.kanal \in Kanaele \cup {Leer}
           /\ a.reihe \in Kanaele \cup {Leer} /\ a.hier \in BOOLEAN
           /\ a = [art |-> a.art, ort |-> a.ort, geraet |-> a.geraet, kanal |-> a.kanal,
                   wert |-> a.wert, reihe |-> a.reihe, hier |-> a.hier]
<1>1. /\ a.art \in Arten /\ a.ort \in {"hin", "zurueck", "fehler"}
      /\ a.geraet \in Geraete \cup {Keins} /\ a.kanal \in Kanaele \cup {Leer}
      /\ a.reihe \in Kanaele \cup {Leer} /\ a.hier \in BOOLEAN
      /\ a = [art |-> a.art, ort |-> a.ort, geraet |-> a.geraet, kanal |-> a.kanal,
              wert |-> a.wert, reihe |-> a.reihe, hier |-> a.hier]
  BY DEF AntragGut
<1>2. Frei.art = "frei" /\ "frei" \notin Arten
  BY DEF Frei, Arten, Schreibend
<1> QED
  BY <1>1, <1>2

\* A request on its way
LEMMA AbschickenWirkt ==
    ASSUME NEW A, AnfragenGut(A), NEW art \in Arten, NEW g \in Geraete \cup {Keins},
           NEW k \in Kanaele \cup {Leer}, NEW w, art \in Schreibend => g \in Geraete,
           WertGut(art, "hin", w), Abschicken(A, art, g, k, w)
    PROVE  /\ AnfragenGut(anfrage')
           /\ \E i \in Plaetze :
                 /\ A[i] = Frei
                 /\ anfrage'[i] = [art |-> art, ort |-> "hin", geraet |-> g, kanal |-> k,
                                   wert |-> w, reihe |-> k, hier |-> TRUE]
                 /\ \A j \in Plaetze : j # i => anfrage'[j] = A[j]
<1> DEFINE r == [art |-> art, ort |-> "hin", geraet |-> g, kanal |-> k,
                 wert |-> w, reihe |-> k, hier |-> TRUE]
<1>1. PICK i \in Plaetze : A[i] = Frei /\ anfrage' = [A EXCEPT ![i] = r]
  BY DEF Abschicken
<1>2. DOMAIN A = Plaetze
  BY DEF AnfragenGut
<1>3. AntragGut(r)
  BY DEF AntragGut
<1> HIDE DEF r
<1>4. anfrage'[i] = r /\ \A j \in Plaetze : j # i => anfrage'[j] = A[j]
  BY <1>1, <1>2
<1>5. AnfragenGut(anfrage')
  BY <1>1, <1>2, <1>3, <1>4 DEF AnfragenGut
<1> QED
  BY <1>1, <1>4, <1>5 DEF r

\* Orphaned requests are as they were, but for the row they hold.
LEMMA VerwaistWirkt ==
    ASSUME AnfragenGut(anfrage)
    PROVE  /\ AnfragenGut(OhneReihe) /\ AnfragenGut(Verwaist)
           /\ \A i \in Plaetze :
                 /\ OhneReihe[i] = IF anfrage[i] = Frei THEN Frei ELSE [anfrage[i] EXCEPT !.reihe = Leer]
                 /\ Verwaist[i] = IF anfrage[i] = Frei THEN Frei
                                  ELSE [anfrage[i] EXCEPT !.reihe = Leer, !.hier = FALSE]
<1>1. DOMAIN OhneReihe = Plaetze /\ DOMAIN Verwaist = Plaetze
  BY DEF OhneReihe, Verwaist
<1>2. \A i \in Plaetze :
          /\ OhneReihe[i] = IF anfrage[i] = Frei THEN Frei ELSE [anfrage[i] EXCEPT !.reihe = Leer]
          /\ Verwaist[i] = IF anfrage[i] = Frei THEN Frei
                           ELSE [anfrage[i] EXCEPT !.reihe = Leer, !.hier = FALSE]
  BY DEF OhneReihe, Verwaist
<1>3. ASSUME NEW a, AntragGut(a)
      PROVE  /\ AntragGut([a EXCEPT !.reihe = Leer])
             /\ AntragGut([a EXCEPT !.reihe = Leer, !.hier = FALSE])
  BY <1>3 DEF AntragGut
<1>4. ASSUME NEW i \in Plaetze
      PROVE  /\ OhneReihe[i] # Frei => AntragGut(OhneReihe[i])
             /\ Verwaist[i] # Frei => AntragGut(Verwaist[i])
  <2>1. CASE anfrage[i] = Frei
    BY <1>2, <2>1
  <2>2. CASE anfrage[i] # Frei
    <3>1. AntragGut(anfrage[i])
      BY <2>2 DEF AnfragenGut
    <3>2. /\ OhneReihe[i] = [anfrage[i] EXCEPT !.reihe = Leer]
          /\ Verwaist[i] = [anfrage[i] EXCEPT !.reihe = Leer, !.hier = FALSE]
      BY <1>2, <2>2
    <3> QED
      BY <1>3, <3>1, <3>2
  <2> QED
    BY <2>1, <2>2
<1> QED
  BY <1>1, <1>2, <1>4 DEF AnfragenGut

\* An edit of the rows leaves the rest of the dialog.
LEMMA DialogMitReihen ==
    ASSUME NEW d, DialogGut(d), NEW rs, ReihenGut(rs)
    PROVE  /\ DialogGut([d EXCEPT !.reihen = rs]) /\ [d EXCEPT !.reihen = rs].reihen = rs
           /\ DialogGut([d EXCEPT !.reihen = rs, !.busy = FALSE])
           /\ [d EXCEPT !.reihen = rs, !.busy = FALSE].reihen = rs
           /\ \A b \in BOOLEAN : /\ DialogGut([d EXCEPT !.reihen = rs, !.alt = b])
                                 /\ [d EXCEPT !.reihen = rs, !.alt = b].reihen = rs
<1>1. rs \in Seq(Reihentyp)
  BY DEF ReihenGut
<1> QED
  BY <1>1 DEF DialogGut

-----------------------------------------------------------------------------
(* The registry after a request *)

\* upsert_device replaces the device by what was sent, normalised.
LEMMA UpsertWirkt ==
    ASSUME RegisterGut(server), NEW g \in Geraete, NEW n, LadungenGut(n)
    PROVE  /\ RegisterGut(Upsert(g, n))
           /\ DOMAIN Upsert(g, n) = DOMAIN server \cup {g}
           /\ \A h \in DOMAIN server : h # g => Upsert(g, n)[h] = server[h]
           /\ DOMAIN Upsert(g, n)[g] = DOMAIN n
           /\ \A k \in DOMAIN n : Upsert(g, n)[g][k] = Bereinigt(n[k])
<1> DEFINE neu == [k \in DOMAIN n |-> Bereinigt(n[k])]
           u == Upsert(g, n)
<1>1. DOMAIN u = DOMAIN server \cup {g}
  BY DEF Upsert, Setzen
<1>2. u[g] = neu
  BY DEF Upsert, Setzen
<1>3. \A h \in DOMAIN server : h # g => u[h] = server[h]
  BY DEF Upsert, Setzen
<1>4. DOMAIN neu = DOMAIN n /\ DOMAIN n \subseteq Kanaele
  BY DEF LadungenGut
<1>5. ASSUME NEW k \in DOMAIN n
      PROVE  neu[k] = Bereinigt(n[k]) /\ neu[k] \in Kanal /\ GenauEiner(neu[k].sender)
  <2>1. n[k] \in Ladung
    BY DEF LadungenGut
  <2> QED
    BY <2>1, BereinigtWirkt
<1> HIDE DEF neu, u
<1>6. ASSUME NEW h \in DOMAIN u
      PROVE  /\ h \in Geraete /\ DOMAIN u[h] \subseteq Kanaele
             /\ \A k \in DOMAIN u[h] : u[h][k] \in Kanal /\ GenauEiner(u[h][k].sender)
  <2>1. CASE h = g
    BY <1>2, <1>4, <1>5, <2>1
  <2>2. CASE h # g
    <3>1. h \in DOMAIN server /\ u[h] = server[h]
      BY <1>1, <1>3, <2>2
    <3> QED
      BY <3>1 DEF RegisterGut, IstRegister
  <2> QED
    BY <2>1, <2>2
<1>7. RegisterGut(u)
  BY <1>6 DEF RegisterGut, IstRegister
<1> QED
  BY <1>1, <1>2, <1>3, <1>4, <1>5, <1>7 DEF u

\* The other changes of a registry: a device goes, a channel goes, a channel's
\* EEP or direction is another.
LEMMA GeraetFehlt ==
    ASSUME NEW r, RegisterGut(r), NEW g
    PROVE  /\ RegisterGut(Weg(r, g)) /\ DOMAIN Weg(r, g) = DOMAIN r \ {g}
           /\ \A h \in DOMAIN r : h # g => Weg(r, g)[h] = r[h]
<1>1. DOMAIN Weg(r, g) = DOMAIN r \ {g} /\ \A h \in DOMAIN r : h # g => Weg(r, g)[h] = r[h]
  BY DEF Weg
<1> QED
  BY <1>1 DEF RegisterGut, IstRegister

LEMMA KanalFehlt ==
    ASSUME NEW r, RegisterGut(r), NEW g \in DOMAIN r, NEW k,
           NEW u, u = [r EXCEPT ![g] = Weg(@, k)]
    PROVE  /\ RegisterGut(u) /\ DOMAIN u = DOMAIN r /\ DOMAIN u[g] = DOMAIN r[g] \ {k}
           /\ \A h \in DOMAIN r : h # g => u[h] = r[h]
           /\ \A l \in DOMAIN r[g] : l # k => u[g][l] = r[g][l]
<1>1. DOMAIN u = DOMAIN r /\ u[g] = Weg(r[g], k) /\ \A h \in DOMAIN r : h # g => u[h] = r[h]
  OBVIOUS
<1>2. DOMAIN Weg(r[g], k) = DOMAIN r[g] \ {k} /\ \A l \in DOMAIN r[g] : l # k => Weg(r[g], k)[l] = r[g][l]
  BY DEF Weg
<1>3. ASSUME NEW h \in DOMAIN u
      PROVE  /\ h \in Geraete /\ DOMAIN u[h] \subseteq Kanaele
             /\ \A l \in DOMAIN u[h] : u[h][l] \in Kanal /\ GenauEiner(u[h][l].sender)
  <2>1. h \in Geraete /\ DOMAIN r[h] \subseteq Kanaele
        /\ \A l \in DOMAIN r[h] : r[h][l] \in Kanal /\ GenauEiner(r[h][l].sender)
    BY <1>1 DEF RegisterGut, IstRegister
  <2>2. CASE h = g
    BY <1>1, <1>2, <2>1, <2>2
  <2>3. CASE h # g
    BY <1>1, <2>1, <2>3
  <2> QED
    BY <2>2, <2>3
<1> QED
  BY <1>1, <1>2, <1>3 DEF RegisterGut, IstRegister

KanalNeu(r, u, g, k, c) ==
    /\ DOMAIN u = DOMAIN r /\ DOMAIN u[g] = DOMAIN r[g] /\ u[g][k] = c
    /\ \A h \in DOMAIN r : h # g => u[h] = r[h]
    /\ \A l \in DOMAIN r[g] : l # k => u[g][l] = r[g][l]

LEMMA KanalGeaendert ==
    ASSUME NEW r, RegisterGut(r), NEW g \in DOMAIN r, NEW k \in DOMAIN r[g],
           NEW c \in Kanal, c.sender = r[g][k].sender, NEW u, KanalNeu(r, u, g, k, c)
    PROVE  RegisterGut(u)
<1>1. DOMAIN u = DOMAIN r /\ \A h \in DOMAIN r : h # g => u[h] = r[h]
  BY DEF KanalNeu
<1>2. /\ DOMAIN u[g] = DOMAIN r[g] /\ u[g][k] = c
      /\ \A l \in DOMAIN r[g] : l # k => u[g][l] = r[g][l]
  BY DEF KanalNeu
<1>3. ASSUME NEW h \in DOMAIN u
      PROVE  /\ h \in Geraete /\ DOMAIN u[h] \subseteq Kanaele
             /\ \A l \in DOMAIN u[h] : u[h][l] \in Kanal /\ GenauEiner(u[h][l].sender)
  <2>1. h \in Geraete /\ DOMAIN r[h] \subseteq Kanaele
        /\ \A l \in DOMAIN r[h] : r[h][l] \in Kanal /\ GenauEiner(r[h][l].sender)
    BY <1>1 DEF RegisterGut, IstRegister
  <2>2. CASE h = g
    <3>1. ASSUME NEW l \in DOMAIN u[h] PROVE u[h][l] \in Kanal /\ GenauEiner(u[h][l].sender)
      <4>1. CASE l = k
        BY <1>2, <2>1, <2>2, <4>1
      <4>2. CASE l # k
        BY <1>2, <2>1, <2>2, <4>2
      <4> QED
        BY <4>1, <4>2
    <3> QED
      BY <1>2, <2>1, <2>2, <3>1
  <2>3. CASE h # g
    BY <1>1, <2>1, <2>3
  <2> QED
    BY <2>2, <2>3
<1> QED
  BY <1>1, <1>2, <1>3 DEF RegisterGut, IstRegister

LEMMA EepGeaendert ==
    ASSUME NEW r, RegisterGut(r), NEW g \in DOMAIN r, NEW k \in DOMAIN r[g], NEW e \in Eeps,
           NEW u, u = [r EXCEPT ![g][k].eep = e]
    PROVE  /\ RegisterGut(u) /\ DOMAIN u = DOMAIN r /\ DOMAIN u[g] = DOMAIN r[g]
           /\ u[g][k].eep = e /\ u[g][k].invert = r[g][k].invert
           /\ \A h \in DOMAIN r : h # g => u[h] = r[h]
           /\ \A l \in DOMAIN r[g] : l # k => u[g][l] = r[g][l]
<1> DEFINE c == [r[g][k] EXCEPT !.eep = e]
<1>1. r[g][k] \in Kanal
  BY DEF RegisterGut, IstRegister
<1>2. c \in Kanal /\ c.sender = r[g][k].sender /\ c.eep = e /\ c.invert = r[g][k].invert
  BY <1>1 DEF Kanal
<1>3. KanalNeu(r, u, g, k, c)
  BY DEF KanalNeu
<1> HIDE DEF c
<1>4. RegisterGut(u)
  BY <1>2, <1>3, KanalGeaendert
<1> QED
  BY <1>2, <1>3, <1>4 DEF KanalNeu

LEMMA InvertGeaendert ==
    ASSUME NEW r, RegisterGut(r), NEW g \in DOMAIN r, NEW k \in DOMAIN r[g], NEW b \in BOOLEAN,
           NEW u, u = [r EXCEPT ![g][k].invert = b]
    PROVE  RegisterGut(u)
<1> DEFINE c == [r[g][k] EXCEPT !.invert = b]
<1>1. r[g][k] \in Kanal
  BY DEF RegisterGut, IstRegister
<1>2. c \in Kanal /\ c.sender = r[g][k].sender
  BY <1>1 DEF Kanal
<1>3. KanalNeu(r, u, g, k, c)
  BY DEF KanalNeu
<1> HIDE DEF c
<1> QED
  BY <1>2, <1>3, KanalGeaendert

\* refresh takes over what the server sent.
LEMMA VerschmolzenWirkt ==
    ASSUME NEW alt, NEW neu, RegisterGut(neu)
    PROVE  RegisterGut(Verschmolzen(alt, neu))
<1> DEFINE u == Verschmolzen(alt, neu)
<1>1. DOMAIN u = DOMAIN neu
      /\ \A g \in DOMAIN neu : DOMAIN u[g] = DOMAIN neu[g] /\ \A k \in DOMAIN neu[g] : u[g][k] = neu[g][k]
  BY DEF Verschmolzen
<1> HIDE DEF u
<1>2. RegisterGut(u)
  BY <1>1 DEF RegisterGut, IstRegister
<1> QED
  BY <1>2 DEF u

\* Which request does what to the registry
LEMMA DanachFaelle ==
    ASSUME NEW a, AntragGut(a)
    PROVE  /\ a.art \in {"speichern", "umkehren"} => Danach(a) = Upsert(a.geraet, a.wert.nutzlast)
           /\ a.art = "anlegen" => Danach(a) = Upsert(a.geraet, a.wert)
           /\ a.art = "geraet_weg" /\ a.geraet \in DOMAIN server => Danach(a) = Weg(server, a.geraet)
           /\ a.art = "kanal_weg" /\ HatKanal(a.geraet, a.kanal) =>
                  Danach(a) = [server EXCEPT ![a.geraet] = Weg(@, a.kanal)]
           /\ a.art = "eep" /\ HatKanal(a.geraet, a.kanal) =>
                  Danach(a) = [server EXCEPT ![a.geraet][a.kanal].eep = a.wert]
           /\ a.art = "geraet_weg" /\ a.geraet \notin DOMAIN server => Danach(a) = server
           /\ a.art \in {"kanal_weg", "eep"} /\ ~HatKanal(a.geraet, a.kanal) => Danach(a) = server
           /\ a.art \notin Schreibend => Danach(a) = server
<1>1. a.art \in Arten
  BY AntragForm
<1> QED
  BY <1>1 DEF Danach, Arten, Schreibend

LEMMA DanachGut ==
    ASSUME NEW a, AntragGut(a), RegisterGut(server)
    PROVE  RegisterGut(Danach(a))
<1>1. a.art \in Arten /\ (a.art \in Schreibend => a.geraet \in Geraete) /\ WertGut(a.art, a.ort, a.wert)
  BY AntragForm DEF AntragGut
<1> DEFINE d == Danach(a)
<1>2. CASE a.art \in {"speichern", "umkehren"}
  <2>1. LadungenGut(a.wert.nutzlast) /\ a.geraet \in Geraete
    BY <1>1, <1>2 DEF WertGut, Schreibend
  <2>2. d = Upsert(a.geraet, a.wert.nutzlast)
    BY <1>2, DanachFaelle
  <2>3. RegisterGut(Upsert(a.geraet, a.wert.nutzlast))
    BY <2>1, UpsertWirkt
  <2> QED
    BY <2>2, <2>3
<1>3. CASE a.art = "anlegen"
  <2>1. LadungenGut(a.wert) /\ a.geraet \in Geraete
    BY <1>1, <1>3 DEF WertGut, Schreibend
  <2>2. d = Upsert(a.geraet, a.wert)
    BY <1>3, DanachFaelle
  <2>3. RegisterGut(Upsert(a.geraet, a.wert))
    BY <2>1, UpsertWirkt
  <2> QED
    BY <2>2, <2>3
<1>4. CASE a.art = "geraet_weg" /\ a.geraet \in DOMAIN server
  <2>1. d = Weg(server, a.geraet)
    BY <1>4, DanachFaelle
  <2>2. RegisterGut(Weg(server, a.geraet))
    BY GeraetFehlt
  <2> QED
    BY <2>1, <2>2
<1>5. CASE a.art = "kanal_weg" /\ HatKanal(a.geraet, a.kanal)
  <2>1. d = [server EXCEPT ![a.geraet] = Weg(@, a.kanal)]
    BY <1>5, DanachFaelle
  <2>2. a.geraet \in DOMAIN server
    BY <1>5 DEF HatKanal
  <2> HIDE DEF d
  <2>3. RegisterGut(d)
    BY <2>1, <2>2, KanalFehlt
  <2> QED
    BY <2>3 DEF d
<1>6. CASE a.art = "eep" /\ HatKanal(a.geraet, a.kanal)
  <2>1. d = [server EXCEPT ![a.geraet][a.kanal].eep = a.wert]
    BY <1>6, DanachFaelle
  <2>2. a.wert \in Eeps /\ a.geraet \in DOMAIN server /\ a.kanal \in DOMAIN server[a.geraet]
    BY <1>1, <1>6 DEF WertGut, HatKanal
  <2> HIDE DEF d
  <2>3. RegisterGut(d)
    BY <2>1, <2>2, EepGeaendert, ZenonT(30)
  <2> QED
    BY <2>3 DEF d
<1>7. CASE \/ a.art = "geraet_weg" /\ a.geraet \notin DOMAIN server
           \/ a.art \in {"kanal_weg", "eep"} /\ ~HatKanal(a.geraet, a.kanal)
           \/ a.art \notin Schreibend
  <2>1. d = server
    BY <1>7, DanachFaelle
  <2> QED
    BY <2>1
<1> QED
  BY <1>2, <1>3, <1>4, <1>5, <1>6, <1>7 DEF Schreibend

-----------------------------------------------------------------------------
(* The dialog after an answer *)

LEMMA StelleWirkt ==
    ASSUME ReihenGut(dialog.reihen), NEW k
    PROVE  /\ \/ Stelle(k) = 0 /\ \A j \in DOMAIN dialog.reihen : dialog.reihen[j].kanal # k
              \/ Stelle(k) \in DOMAIN dialog.reihen /\ dialog.reihen[Stelle(k)].kanal = k
           /\ 0 \notin DOMAIN dialog.reihen
<1> DEFINE rs == dialog.reihen
           stellen == {i \in 1..Len(rs) : rs[i].kanal = k}
<1>1. Len(rs) \in Nat /\ DOMAIN rs = 1..Len(rs)
  BY ReihenForm
<1>2. Stelle(k) = IF stellen # {} THEN CHOOSE x \in stellen : \A y \in stellen : x =< y ELSE 0
  BY DEF Stelle, SelectInSeq, Min
<1>3. CASE stellen # {}
  <2>1. stellen \in SUBSET Nat
    OBVIOUS
  <2>2. \E m \in stellen : \A l \in stellen : m <= l
    <3> HIDE DEF stellen
    <3> QED
      BY <1>3, <2>1, Kleinstes
  <2>3. Stelle(k) \in stellen
    <3> HIDE DEF stellen
    <3> QED
      BY <1>2, <1>3, <2>2
  <2> QED
    BY <1>1, <2>3
<1>4. CASE stellen = {}
  BY <1>1, <1>2, <1>4
<1> QED
  BY <1>3, <1>4

\* What the answers leave of the dialog, but for its rows and what is pending
Rahmen(d, neu) ==
    neu.offen = d.offen /\ neu.modus = d.modus /\ neu.geraet = d.geraet /\ neu.alt = d.alt

LEMMA MitReihenRahmen ==
    ASSUME NEW d, DialogGut(d), NEW rs
    PROVE  /\ Rahmen(d, [d EXCEPT !.reihen = rs]) /\ [d EXCEPT !.reihen = rs].reihen = rs
           /\ Rahmen(d, [d EXCEPT !.reihen = rs, !.busy = FALSE])
           /\ [d EXCEPT !.reihen = rs, !.busy = FALSE].reihen = rs
BY DEF DialogGut, Rahmen

LEMMA BusyRahmen ==
    ASSUME NEW d, DialogGut(d), NEW b \in BOOLEAN
    PROVE  DialogGut([d EXCEPT !.busy = b]) /\ Rahmen(d, [d EXCEPT !.busy = b])
           /\ [d EXCEPT !.busy = b].reihen = d.reihen
BY DEF DialogGut, Rahmen

LEMMA GleichBleibt ==
    ASSUME NEW rs
    PROVE  GleicheKanaele(rs, rs)
BY DEF GleicheKanaele

\* Answers that change no channel and no EEP
Harmlos == {"naechste_id", "paarung", "liste", "umkehren", "geraet_weg"}

LEMMA NachherHarmlos ==
    ASSUME DialogGut(dialog), NEW a, AntragGut(a), a.ort = "zurueck", a.art \in Harmlos
    PROVE  /\ DialogGut(Nachher(a)) /\ Rahmen(dialog, Nachher(a))
           /\ GleicheKanaele(dialog.reihen, Nachher(a).reihen)
<1> DEFINE j == Stelle(a.reihe)
           rs == dialog.reihen
           s == rs[j].sender
           n == Nachher(a)
<1>0. ReihenGut(rs)
  BY DEF DialogGut
<1>1. Sichtbar(a) => j \in DOMAIN rs
  BY <1>0, StelleWirkt DEF Sichtbar
<1>2. WertGut(a.art, a.ort, a.wert)
  BY DEF AntragGut
<1>3. CASE a.art = "naechste_id" /\ a.wert.zweck = "sender" /\ Sichtbar(a) /\ Len(s) < MaxSender
  <2> DEFINE t == MitSender(s, a.wert.id)
  <2>1. n = [dialog EXCEPT !.reihen = [rs EXCEPT ![j].sender = t]]
    BY <1>3 DEF Nachher, MitSendern
  <2>2. s \in Seq(Mit(Ids \cup {Leer})) /\ GenauEiner(s)
    BY <1>0, <1>1, <1>3, ReihenForm DEF ReihenGut
  <2>3. a.wert.id \in Ids \cup {Leer}
    BY <1>2, <1>3 DEF WertGut
  <2> HIDE DEF s, n
  <2>4. t \in Seq(Mit(Ids \cup {Leer})) /\ GenauEiner(t)
    BY <2>2, <2>3, MitSenderWirkt
  <2> HIDE DEF t
  <2>5. ReihenGut([rs EXCEPT ![j].sender = t]) /\ GleicheKanaele(rs, [rs EXCEPT ![j].sender = t])
    <3> HIDE DEF j, rs
    <3> QED
      BY <1>0, <1>1, <1>3, <2>4, SenderErsetzt
  <2> DEFINE u == [rs EXCEPT ![j].sender = t]
  <2>6. ReihenGut(u) /\ GleicheKanaele(rs, u) /\ n = [dialog EXCEPT !.reihen = u]
    BY <2>1, <2>5
  <2> HIDE DEF u, rs, j
  <2>7. DialogGut(n) /\ Rahmen(dialog, n) /\ n.reihen = u
    BY <2>6, DialogMitReihen, MitReihenRahmen
  <2> QED
    BY <2>6, <2>7 DEF n, rs
<1>4. CASE a.art = "paarung" /\ Sichtbar(a) /\ Len(s) < MaxSender
  <2> DEFINE t == Gepaart(s, a.wert)
  <2>1. n = [dialog EXCEPT !.reihen = [rs EXCEPT ![j].sender = t], !.busy = FALSE]
    BY <1>4 DEF Nachher, MitSendern
  <2>2. s \in Seq(Mit(Ids \cup {Leer})) /\ GenauEiner(s)
    BY <1>0, <1>1, <1>4, ReihenForm DEF ReihenGut
  <2>3. a.wert \in Ids \cup {Leer}
    BY <1>2, <1>4 DEF WertGut
  <2> HIDE DEF s, n
  <2>4. t \in Seq(Mit(Ids \cup {Leer})) /\ GenauEiner(t)
    BY <2>2, <2>3, GepaartWirkt
  <2> HIDE DEF t
  <2>5. ReihenGut([rs EXCEPT ![j].sender = t]) /\ GleicheKanaele(rs, [rs EXCEPT ![j].sender = t])
    <3> HIDE DEF j, rs
    <3> QED
      BY <1>0, <1>1, <1>4, <2>4, SenderErsetzt
  <2> DEFINE u == [rs EXCEPT ![j].sender = t]
  <2>6. ReihenGut(u) /\ GleicheKanaele(rs, u) /\ n = [dialog EXCEPT !.reihen = u, !.busy = FALSE]
    BY <2>1, <2>5
  <2> HIDE DEF u, rs, j
  <2>7. DialogGut(n) /\ Rahmen(dialog, n) /\ n.reihen = u
    BY <2>6, DialogMitReihen, MitReihenRahmen
  <2> QED
    BY <2>6, <2>7 DEF n, rs
<1>5. CASE /\ ~(a.art = "naechste_id" /\ a.wert.zweck = "sender" /\ Sichtbar(a) /\ Len(s) < MaxSender)
           /\ ~(a.art = "paarung" /\ Sichtbar(a) /\ Len(s) < MaxSender)
  <2>1. n = dialog \/ \E b \in BOOLEAN : n = [dialog EXCEPT !.busy = b]
    BY <1>5 DEF Nachher, Harmlos
  <2> HIDE DEF n
  <2>2. DialogGut(n) /\ Rahmen(dialog, n) /\ n.reihen = dialog.reihen
    <3>1. CASE n = dialog
      BY <3>1 DEF Rahmen
    <3>2. ASSUME NEW b \in BOOLEAN, n = [dialog EXCEPT !.busy = b]
          PROVE  DialogGut(n) /\ Rahmen(dialog, n) /\ n.reihen = dialog.reihen
      BY <3>2, BusyRahmen
    <3> QED
      BY <2>1, <3>1, <3>2
  <2>3. GleicheKanaele(dialog.reihen, n.reihen)
    BY <2>2, GleichBleibt
  <2> QED
    BY <2>2, <2>3 DEF n
<1> QED
  BY <1>3, <1>4, <1>5

LEMMA NachLoeschenWirkt ==
    ASSUME ReihenGut(dialog.reihen), NEW j
    PROVE  ReihenGut(NachLoeschen(j))
<1>1. CASE j \in DOMAIN dialog.reihen
  BY <1>1, ReiheEntfernt DEF NachLoeschen
<1>2. CASE j \notin DOMAIN dialog.reihen
  BY <1>2 DEF NachLoeschen
<1> QED
  BY <1>1, <1>2

LEMMA NachherKanalWeg ==
    ASSUME DialogGut(dialog), NEW a, AntragGut(a), a.art = "kanal_weg"
    PROVE  /\ DialogGut(Nachher(a)) /\ Nachher(a).reihen = NachLoeschen(a.wert)
           /\ Nachher(a).alt = (dialog.alt \/ ~a.hier)
           /\ Nachher(a).offen = dialog.offen /\ Nachher(a).modus = dialog.modus
           /\ Nachher(a).geraet = dialog.geraet
<1> DEFINE rs == NachLoeschen(a.wert)
           b == dialog.alt \/ ~a.hier
           n == Nachher(a)
<1>1. n = [dialog EXCEPT !.reihen = rs, !.alt = b]
  BY DEF Nachher
<1>2. ReihenGut(rs)
  <2>1. ReihenGut(dialog.reihen)
    BY DEF DialogGut
  <2> QED
    BY <2>1, NachLoeschenWirkt
<1>3. b \in BOOLEAN
  BY AntragForm DEF DialogGut
<1> HIDE DEF n, rs, b
<1>4. DialogGut(n) /\ n.reihen = rs
  BY <1>1, <1>2, <1>3, DialogMitReihen
<1>5. n.alt = b /\ n.offen = dialog.offen /\ n.modus = dialog.modus /\ n.geraet = dialog.geraet
  BY <1>1 DEF DialogGut
<1> QED
  BY <1>4, <1>5 DEF n, rs, b

LEMMA NachherEep ==
    ASSUME DialogGut(dialog), NEW a, AntragGut(a), a.art = "eep"
    PROVE  /\ DialogGut(Nachher(a)) /\ Rahmen(dialog, Nachher(a))
           /\ DOMAIN Nachher(a).reihen = DOMAIN dialog.reihen
           /\ \A i \in DOMAIN dialog.reihen :
                 /\ Nachher(a).reihen[i].kanal = dialog.reihen[i].kanal
                 /\ Nachher(a).reihen[i].eep =
                        IF dialog.reihen[i].kanal = a.reihe THEN a.wert ELSE dialog.reihen[i].eep
<1> DEFINE j == Stelle(a.reihe)
           rs == dialog.reihen
           n == Nachher(a)
           u == [rs EXCEPT ![j].eep = a.wert]
<1>0. ReihenGut(rs) /\ a.wert \in Eeps
  BY DEF DialogGut, AntragGut, WertGut
<1>1. \/ ~Sichtbar(a) /\ \A i \in DOMAIN rs : rs[i].kanal # a.reihe
      \/ Sichtbar(a) /\ j \in DOMAIN rs /\ rs[j].kanal = a.reihe
  BY <1>0, StelleWirkt DEF Sichtbar
<1>2. CASE ~Sichtbar(a) /\ \A i \in DOMAIN rs : rs[i].kanal # a.reihe
  <2>1. n = dialog
    BY <1>2 DEF Nachher
  <2> QED
    BY <1>2, <2>1 DEF Rahmen
<1>3. CASE Sichtbar(a) /\ j \in DOMAIN rs /\ rs[j].kanal = a.reihe
  <2>1. n = [dialog EXCEPT !.reihen = u]
    BY <1>3 DEF Nachher
  <2> HIDE DEF n, j, rs
  <2>2. /\ ReihenGut(u) /\ DOMAIN u = DOMAIN rs
        /\ \A i \in DOMAIN rs : u[i].kanal = rs[i].kanal /\ u[i].eep = IF i = j THEN a.wert ELSE rs[i].eep
    BY <1>0, <1>3, EepErsetzt
  <2>3. \A i \in DOMAIN rs : i = j <=> rs[i].kanal = a.reihe
    BY <1>0, <1>3 DEF ReihenGut
  <2> HIDE DEF u
  <2>4. DialogGut(n) /\ Rahmen(dialog, n) /\ n.reihen = u
    BY <2>1, <2>2, DialogMitReihen, MitReihenRahmen
  <2>5. \A i \in DOMAIN rs : u[i].eep = IF rs[i].kanal = a.reihe THEN a.wert ELSE rs[i].eep
    BY <2>2, <2>3
  <2> QED
    BY <2>2, <2>4, <2>5 DEF n, rs
<1> QED
  BY <1>1, <1>2, <1>3

LEMMA NachherGespeichert ==
    ASSUME DialogGut(dialog), NEW a, a.art \in {"speichern", "anlegen"}
    PROVE  /\ DialogGut(Nachher(a)) /\ ~Nachher(a).offen /\ Nachher(a).reihen = dialog.reihen
           /\ Nachher(a).geraet = dialog.geraet
<1>1. Nachher(a) = [dialog EXCEPT !.offen = FALSE, !.saving = FALSE]
  BY DEF Nachher
<1> QED
  BY <1>1 DEF DialogGut

LEMMA NachherGut ==
    ASSUME DialogGut(dialog), NEW a, AntragGut(a), a.ort = "zurueck", a.art # "vorlage"
    PROVE  DialogGut(Nachher(a))
<1>1. a.art \in Arten
  BY AntragForm
<1>2. a.art \in Harmlos \/ a.art \in {"speichern", "anlegen"} \/ a.art = "kanal_weg" \/ a.art = "eep"
  BY <1>1 DEF Arten, Schreibend, Harmlos
<1> QED
  BY <1>2, NachherHarmlos, NachherGespeichert, NachherKanalWeg, NachherEep

LEMMA MitVorlageGut ==
    ASSUME DialogGut(dialog)
    PROVE  /\ DialogGut(MitVorlage) /\ MitVorlage.alt
           /\ MitVorlage.offen = dialog.offen /\ MitVorlage.modus = dialog.modus
           /\ MitVorlage.geraet = dialog.geraet
<1> DEFINE rs == [j \in 1..Cardinality(Vorlage) |-> LeereReihe(Nter(Vorlage, j))]
<1>1. MitVorlage = [dialog EXCEPT !.alt = TRUE, !.reihen = rs]
  BY DEF MitVorlage
<1>2. ReihenGut(rs)
  BY ReihenDerVorlage
<1> HIDE DEF rs
<1>3. rs \in Seq(Reihentyp)
  BY <1>2 DEF ReihenGut
<1> QED
  BY <1>1, <1>2, <1>3 DEF DialogGut

-----------------------------------------------------------------------------
(* Requests on their way and back *)

\* The handler answers once: the request keeps what it was about.
LEMMA AnkunftWirkt ==
    ASSUME RegisterGut(server), AnfragenGut(anfrage), NEW i \in Plaetze, Ankunft(i)
    PROVE  /\ AntragGut(anfrage[i]) /\ anfrage[i].ort = "hin" /\ server' = Danach(anfrage[i])
           /\ AnfragenGut(anfrage')
           /\ \E beob \in SUBSET Ids :
                 anfrage'[i] = [anfrage[i] EXCEPT !.wert = Erwidert(anfrage[i], beob),
                     !.ort = IF Gelingt(anfrage[i], beob) THEN "zurueck" ELSE "fehler"]
           /\ \A j \in Plaetze : j # i => anfrage'[j] = anfrage[j]
<1>0. PICK beob \in SUBSET Ids :
          anfrage' = [anfrage EXCEPT ![i].wert = Erwidert(anfrage[i], beob),
              ![i].ort = IF Gelingt(anfrage[i], beob) THEN "zurueck" ELSE "fehler"]
  BY DEF Ankunft
<1> DEFINE a == anfrage[i]
           b == [a EXCEPT !.wert = Erwidert(a, beob),
                          !.ort = IF Gelingt(a, beob) THEN "zurueck" ELSE "fehler"]
<1>1. /\ a # Frei /\ a.ort = "hin" /\ server' = Danach(a)
      /\ anfrage' = [anfrage EXCEPT ![i] = b]
  BY <1>0 DEF Ankunft
<1>2. DOMAIN anfrage = Plaetze /\ AntragGut(a)
  BY <1>1 DEF AnfragenGut
<1>3. AntragGut(b)
  <2> HIDE DEF a
  <2>1. a = [art |-> a.art, ort |-> a.ort, geraet |-> a.geraet, kanal |-> a.kanal,
             wert |-> a.wert, reihe |-> a.reihe, hier |-> a.hier]
    BY <1>2, AntragForm
  <2>2. /\ b.art = a.art /\ b.wert = Erwidert(a, beob) /\ b.geraet = a.geraet
        /\ b.ort = IF Gelingt(a, beob) THEN "zurueck" ELSE "fehler"
        /\ b \in [art : Arten, ort : {"hin", "zurueck", "fehler"}, geraet : Geraete \cup {Keins},
                  kanal : Kanaele \cup {Leer}, wert : {b.wert}, reihe : Kanaele \cup {Leer}, hier : BOOLEAN]
    BY <2>1, <1>2, AntragForm
  <2> DEFINE o == b.ort
             w == b.wert
  <2>3. WertGut(a.art, "hin", a.wert)
    BY <1>1, <1>2 DEF AntragGut, a
  <2>4. CASE a.art = "liste"
    <3>1. w = server
      BY <2>2, <2>4 DEF Erwidert
    <3> QED
      BY <2>2, <2>4, <3>1 DEF AntragGut, WertGut, Schreibend
  <2>5. CASE a.art = "naechste_id" /\ Gelingt(a, beob)
    <3>1. w = [zweck |-> a.wert, id |-> NaechsteId(beob)]
      BY <2>2, <2>5 DEF Erwidert
    <3>2. NaechsteId(beob) \in Ids
      <4>1. FreieIds(beob) # {}
        BY <2>5 DEF Gelingt
      <4> DEFINE S == FreieIds(beob)
      <4>2. S # {} /\ S \in SUBSET Nat
        BY <4>1, GeraeteTabAnnahme DEF Ids, FreieIds
      <4>3. \E m \in S : \A k \in S : m <= k
        <5> HIDE DEF S
        <5> QED
          BY <4>2, Kleinstes
      <4>4. NaechsteId(beob) \in S
        <5>1. NaechsteId(beob) = CHOOSE m \in S : \A k \in S : m <= k
          BY DEF NaechsteId
        <5> HIDE DEF S
        <5> QED
          BY <4>3, <5>1
      <4> QED
        BY <4>4 DEF FreieIds
    <3>3. a.wert \in {"sender", "paarung"}
      BY <2>3, <2>5 DEF WertGut
    <3> QED
      BY <2>2, <2>5, <3>1, <3>2, <3>3 DEF AntragGut, WertGut, Schreibend
  <2>6. CASE a.art # "liste" /\ ~(a.art = "naechste_id" /\ Gelingt(a, beob))
    <3>1. w = a.wert
      BY <2>2, <2>6 DEF Erwidert
    <3>2. WertGut(b.art, b.ort, b.wert)
      BY <2>2, <2>3, <2>6, <3>1 DEF WertGut
    <3>3. a.art \in Schreibend => a.geraet \in Geraete
      BY <1>2 DEF AntragGut
    <3> HIDE DEF b
    <3> QED
      BY <2>2, <3>2, <3>3 DEF AntragGut
  <2> QED
    BY <2>4, <2>5, <2>6
<1> HIDE DEF b
<1>4. anfrage'[i] = b /\ \A j \in Plaetze : j # i => anfrage'[j] = anfrage[j]
  BY <1>1, <1>2
<1>5. AnfragenGut(anfrage')
  BY <1>1, <1>2, <1>3, <1>4 DEF AnfragenGut
<1> QED
  BY <1>1, <1>2, <1>4, <1>5 DEF b

LEMMA FreigabeGut ==
    ASSUME NEW A, AnfragenGut(A), NEW i \in Plaetze
    PROVE  /\ AnfragenGut([A EXCEPT ![i] = Frei]) /\ [A EXCEPT ![i] = Frei][i] = Frei
           /\ \A j \in Plaetze : j # i => [A EXCEPT ![i] = Frei][j] = A[j]
BY DEF AnfragenGut

-----------------------------------------------------------------------------
(* Every step preserves the invariant *)

LEMMA EingabeWirkt ==
    ASSUME IInv, Eingabe
    PROVE  eingaben' \in 0..MaxEingaben
BY GeraeteTabAnnahme DEF IInv, Eingabe

\* A request that carries nothing the invariant speaks of
LEMMA SchlichterAntrag ==
    ASSUME NEW A, AnfragenGut(A), NEW art, NEW g, NEW k, NEW w, Abschicken(A, art, g, k, w),
           \/ art \in {"liste", "vorlage"} /\ g = Keins /\ k = Leer
           \/ art = "geraet_weg" /\ g \in Geraete /\ k = Leer
           \/ art = "kanal_weg" /\ g \in Geraete /\ k \in Kanaele
           \/ art = "eep" /\ g \in Geraete /\ k \in Kanaele /\ w \in Eeps
           \/ art = "naechste_id" /\ g = Keins /\ k \in Kanaele /\ w \in {"sender", "paarung"}
           \/ art = "paarung" /\ g = Keins /\ k \in Kanaele /\ w \in Ids
    PROVE  AnfragenGut(anfrage')
<1>1. /\ art \in Arten /\ g \in Geraete \cup {Keins} /\ k \in Kanaele \cup {Leer}
      /\ art \in Schreibend => g \in Geraete
  BY DEF Arten, Schreibend
<1>2. WertGut(art, "hin", w)
  BY DEF WertGut
<1> QED
  BY <1>1, <1>2, AbschickenWirkt

\* An edit of the rows
LEMMA ReihenWirkt ==
    ASSUME IInv, NEW rs, ReihenGut(rs), Reihen(rs)
    PROVE  IInv'
<1>1. /\ Eingabe /\ dialog' = [dialog EXCEPT !.reihen = rs]
      /\ UNCHANGED <<server, liste, anfrage, gestoert>>
  BY DEF Reihen
<1>2. DialogGut(dialog')
  BY <1>1, DialogMitReihen DEF IInv
<1>3. eingaben' \in 0..MaxEingaben
  BY <1>1, EingabeWirkt
<1> QED
  BY <1>1, <1>2, <1>3 DEF IInv

LEMMA SpeichernWirkt ==
    ASSUME IInv, Speichern
    PROVE  /\ IInv' /\ dialog' = [dialog EXCEPT !.saving = TRUE]
           /\ dialog.geraet \in Geraete
           /\ \E i \in Plaetze :
                 /\ anfrage[i] = Frei
                 /\ anfrage'[i] = [art |-> "speichern", ort |-> "hin", geraet |-> dialog.geraet,
                        kanal |-> Leer, reihe |-> Leer, hier |-> TRUE,
                        wert |-> [bild |-> dialog.reihen,
                                  nutzlast |-> Serialisiert(dialog.geraet, dialog.reihen)]]
                 /\ \A j \in Plaetze : j # i => anfrage'[j] = anfrage[j]
<1> DEFINE g == dialog.geraet
           w == [bild |-> dialog.reihen, nutzlast |-> Serialisiert(g, dialog.reihen)]
<1>1. /\ Eingabe /\ dialog.offen /\ dialog.modus = "edit" /\ g \in DOMAIN liste
      /\ dialog' = [dialog EXCEPT !.saving = TRUE]
      /\ Abschicken(anfrage, "speichern", g, Leer, w)
      /\ Gestoert(g, dialog.alt \/ SchreibtAn(g) \/ ListeVeraltet(g))
      /\ UNCHANGED <<server, liste>>
  BY DEF Speichern, ZuSpeichern
<1>2. g \in Geraete /\ ReihenGut(dialog.reihen) /\ IstRegister(liste)
  BY <1>1 DEF IInv, RegisterGut, IstRegister, DialogGut
<1>3. Getreu(w) /\ LadungenGut(w.nutzlast)
  BY <1>2, SerialisiertWirkt
<1> HIDE DEF w
<1>4. WertGut("speichern", "hin", w) /\ "speichern" \in Arten
  BY <1>3 DEF WertGut, Arten, Schreibend
<1>5. /\ AnfragenGut(anfrage')
      /\ \E i \in Plaetze :
             /\ anfrage[i] = Frei
             /\ anfrage'[i] = [art |-> "speichern", ort |-> "hin", geraet |-> g, kanal |-> Leer,
                               wert |-> w, reihe |-> Leer, hier |-> TRUE]
             /\ \A j \in Plaetze : j # i => anfrage'[j] = anfrage[j]
  BY <1>1, <1>2, <1>4, AbschickenWirkt DEF IInv
<1>6. DialogGut(dialog')
  BY <1>1 DEF IInv, DialogGut
<1>7. gestoert' \subseteq Geraete
  BY <1>1, <1>2 DEF Gestoert, IInv
<1>8. eingaben' \in 0..MaxEingaben
  BY <1>1, EingabeWirkt
<1>9. IInv'
  BY <1>1, <1>5, <1>6, <1>7, <1>8 DEF IInv
<1> QED
  BY <1>1, <1>2, <1>5, <1>9 DEF w

LEMMA UmkehrenWirkt ==
    ASSUME IInv, NEW g \in Geraete, NEW k \in Kanaele, Umkehren(g, k)
    PROVE  /\ IInv' /\ ~dialog.offen /\ dialog' = dialog /\ g \in DOMAIN liste
           /\ \E i \in Plaetze : \E w :
                 /\ anfrage[i] = Frei
                 /\ anfrage'[i] = [art |-> "umkehren", ort |-> "hin", geraet |-> g,
                        kanal |-> k, wert |-> w, reihe |-> k, hier |-> TRUE]
                 /\ \A j \in Plaetze : j # i => anfrage'[j] = anfrage[j]
                 /\ WieListe(w.nutzlast, liste[g], k)
<1> DEFINE an == ~liste[g][k].invert
           n == [c \in DOMAIN liste[g] |-> [Nutzlast(liste[g][c]) EXCEPT !.invert = IF c = k THEN an ELSE @]]
           w == [an |-> an, nutzlast |-> n]
<1>1. /\ Eingabe /\ ~dialog.offen /\ g \in DOMAIN liste /\ k \in DOMAIN liste[g]
      /\ Abschicken(anfrage, "umkehren", g, k, w)
      /\ Gestoert(g, ~Aktuell(g))
      /\ UNCHANGED <<server, liste, dialog>>
  BY DEF Umkehren
<1>2. /\ DOMAIN liste[g] \subseteq Kanaele /\ \A c \in DOMAIN liste[g] : liste[g][c] \in Kanal
      /\ an \in BOOLEAN
  BY <1>1 DEF IInv, RegisterGut, IstRegister
<1> HIDE DEF an
<1>3. LadungenGut(n) /\ WieListe(n, liste[g], k)
  <2>0. PICK f : f = liste[g]
    OBVIOUS
  <2>1. DOMAIN f \subseteq Kanaele /\ \A c \in DOMAIN f : f[c] \in Kanal
    BY <1>2, <2>0
  <2>2. PICK x \in BOOLEAN : x = an
    BY <1>2
  <2>3. n = Umgekehrt(f, k, x)
    BY <2>0, <2>2 DEF Umgekehrt
  <2> HIDE DEF n
  <2>4. LadungenGut(n) /\ WieListe(n, f, k)
    BY <2>1, <2>3, UmkehrenLadung
  <2> QED
    BY <2>0, <2>4
<1> HIDE DEF n
<1>4. w.nutzlast = n /\ w.an = an
  OBVIOUS
<1> HIDE DEF w
<1>5. WertGut("umkehren", "hin", w) /\ "umkehren" \in Arten
  BY <1>2, <1>3, <1>4 DEF WertGut, Arten, Schreibend
<1>6. /\ AnfragenGut(anfrage')
      /\ \E i \in Plaetze :
             /\ anfrage[i] = Frei
             /\ anfrage'[i] = [art |-> "umkehren", ort |-> "hin", geraet |-> g, kanal |-> k,
                               wert |-> w, reihe |-> k, hier |-> TRUE]
             /\ \A j \in Plaetze : j # i => anfrage'[j] = anfrage[j]
  BY <1>1, <1>5, AbschickenWirkt DEF IInv
<1>7. gestoert' \subseteq Geraete
  BY <1>1 DEF Gestoert, IInv
<1>8. eingaben' \in 0..MaxEingaben
  BY <1>1, EingabeWirkt
<1>9. IInv'
  BY <1>1, <1>6, <1>7, <1>8 DEF IInv
<1>10. PICK i \in Plaetze :
             /\ anfrage[i] = Frei
             /\ anfrage'[i] = [art |-> "umkehren", ort |-> "hin", geraet |-> g, kanal |-> k,
                               wert |-> w, reihe |-> k, hier |-> TRUE]
             /\ \A j \in Plaetze : j # i => anfrage'[j] = anfrage[j]
  BY <1>6
<1> QED
  BY <1>1, <1>3, <1>4, <1>9, <1>10

LEMMA AnlegenWirkt ==
    ASSUME IInv, NEW g \in Geraete, Anlegen(g)
    PROVE  /\ IInv' /\ dialog' = [dialog EXCEPT !.saving = TRUE] /\ dialog.modus = "add"
           /\ \E i \in Plaetze : \E w :
                 /\ anfrage[i] = Frei
                 /\ anfrage'[i] = [art |-> "anlegen", ort |-> "hin", geraet |-> g,
                        kanal |-> Leer, wert |-> w, reihe |-> Leer, hier |-> TRUE]
                 /\ \A j \in Plaetze : j # i => anfrage'[j] = anfrage[j]
<1> DEFINE rs == dialog.reihen
           Zeile(k) == CHOOSE j \in DOMAIN rs : rs[j].kanal = k
           w == [k \in {rs[j].kanal : j \in DOMAIN rs} |->
                    [sender |-> <<>>, paar |-> rs[Zeile(k)].paar, eep |-> rs[Zeile(k)].eep, invert |-> FALSE]]
<1>1. /\ Eingabe /\ dialog.modus = "add" /\ dialog' = [dialog EXCEPT !.saving = TRUE]
      /\ Abschicken(anfrage, "anlegen", g, Leer, w)
      /\ Gestoert(g, SchreibtAn(g))
      /\ UNCHANGED <<server, liste>>
  BY DEF Anlegen
<1>2. LadungenGut(w)
  <2>1. ASSUME NEW k \in {rs[j].kanal : j \in DOMAIN rs} PROVE k \in Kanaele /\ w[k] \in Ladung
    <3>1. Zeile(k) \in DOMAIN rs /\ rs[Zeile(k)].kanal = k
      OBVIOUS
    <3>2. w[k] = [sender |-> <<>>, paar |-> rs[Zeile(k)].paar, eep |-> rs[Zeile(k)].eep, invert |-> FALSE]
      OBVIOUS
    <3> DEFINE z == Zeile(k)
    <3>3. z \in DOMAIN rs /\ rs[z].kanal = k
          /\ w[k] = [sender |-> <<>>, paar |-> rs[z].paar, eep |-> rs[z].eep, invert |-> FALSE]
      BY <3>1, <3>2
    <3> HIDE DEF z, w
    <3>4. rs[z].paar \in Ids \cup {Leer} /\ rs[z].eep \in Eeps /\ rs[z].kanal \in Kanaele
      BY <3>3, ReihenForm DEF IInv, DialogGut
    <3>5. <<>> \in Seq(Mit(Ids))
      OBVIOUS
    <3> QED
      BY <3>3, <3>4, <3>5 DEF Ladung
  <2>2. DOMAIN w = {rs[j].kanal : j \in DOMAIN rs}
    OBVIOUS
  <2> HIDE DEF w
  <2> QED
    BY <2>1, <2>2 DEF LadungenGut
<1> HIDE DEF w
<1>3. WertGut("anlegen", "hin", w) /\ "anlegen" \in Arten
  BY <1>2 DEF WertGut, Arten, Schreibend
<1>4. /\ AnfragenGut(anfrage')
      /\ \E i \in Plaetze :
             /\ anfrage[i] = Frei
             /\ anfrage'[i] = [art |-> "anlegen", ort |-> "hin", geraet |-> g, kanal |-> Leer,
                               wert |-> w, reihe |-> Leer, hier |-> TRUE]
             /\ \A j \in Plaetze : j # i => anfrage'[j] = anfrage[j]
  BY <1>1, <1>3, AbschickenWirkt DEF IInv
<1>5. DialogGut(dialog')
  BY <1>1 DEF IInv, DialogGut
<1>6. gestoert' \subseteq Geraete
  BY <1>1 DEF Gestoert, IInv
<1>7. eingaben' \in 0..MaxEingaben
  BY <1>1, EingabeWirkt
<1>8. IInv'
  BY <1>1, <1>4, <1>5, <1>6, <1>7 DEF IInv
<1> QED
  BY <1>1, <1>4, <1>8

\* An edit of a row's senders leaves each channel and its EEP.
NurSender == \E rs : ReihenGut(rs) /\ GleicheKanaele(dialog.reihen, rs) /\ Reihen(rs)

LEMMA MitSendernWirkt ==
    ASSUME IInv, NEW j \in DOMAIN dialog.reihen, NEW s \in Seq(Mit(Ids \cup {Leer})), GenauEiner(s),
           Reihen(MitSendern(j, s))
    PROVE  NurSender
<1>0. PICK rs : rs = dialog.reihen
  OBVIOUS
<1> DEFINE u == [rs EXCEPT ![j].sender = s]
<1>1. ReihenGut(rs) /\ j \in DOMAIN rs
  BY <1>0 DEF IInv, DialogGut
<1>2. ReihenGut(u) /\ GleicheKanaele(rs, u)
  BY <1>1, SenderErsetzt
<1>3. Reihen(u)
  BY <1>0 DEF MitSendern
<1> HIDE DEF u
<1> QED
  BY <1>0, <1>2, <1>3 DEF NurSender

LEMMA SenderSchritt ==
    ASSUME IInv, NEW j \in DOMAIN dialog.reihen,
           \/ SenderDazu(j)
           \/ \E i \in DOMAIN dialog.reihen[j].sender :
                  \/ SenderAktivieren(j, i) \/ SenderWeg(j, i)
                  \/ \E id \in Ids : SenderEintragen(j, i, id)
    PROVE  NurSender
<1> DEFINE s == dialog.reihen[j].sender
           I == Ids \cup {Leer}
<1>1. s \in Seq(Mit(I)) /\ GenauEiner(s)
  BY ReihenForm DEF IInv, DialogGut, ReihenGut
<1>2. CASE SenderDazu(j)
  <2> DEFINE t == MitSender(s, Leer)
  <2>1. Reihen(MitSendern(j, t))
    BY <1>2 DEF SenderDazu
  <2>2. t \in Seq(Mit(I)) /\ GenauEiner(t)
    <3>1. Leer \in I
      OBVIOUS
    <3> HIDE DEF s, I
    <3> QED
      BY <1>1, <3>1, MitSenderWirkt
  <2> HIDE DEF t
  <2> QED
    BY <2>1, <2>2, MitSendernWirkt
<1>3. ASSUME NEW i \in DOMAIN s, SenderAktivieren(j, i) PROVE NurSender
  <2> DEFINE t == AlleinAktiv(s, i)
  <2>1. Reihen(MitSendern(j, t))
    BY <1>3 DEF SenderAktivieren
  <2>2. t \in Seq(Mit(I)) /\ GenauEiner(t)
    <3> HIDE DEF s, I
    <3> QED
      BY <1>1, <1>3, AlleinAktivWirkt, AlleinAktivGenau
  <2> HIDE DEF t
  <2> QED
    BY <2>1, <2>2, MitSendernWirkt
<1>4. ASSUME NEW i \in DOMAIN s, SenderWeg(j, i) PROVE NurSender
  <2> DEFINE t == OhneSender(s, i)
  <2>1. Reihen(MitSendern(j, t))
    BY <1>4 DEF SenderWeg
  <2>2. t \in Seq(Mit(I)) /\ GenauEiner(t)
    <3> HIDE DEF s, I
    <3> QED
      BY <1>1, <1>4, OhneSenderWirkt
  <2> HIDE DEF t
  <2> QED
    BY <2>1, <2>2, MitSendernWirkt
<1>5. ASSUME NEW i \in DOMAIN s, NEW id \in Ids, SenderEintragen(j, i, id) PROVE NurSender
  <2> DEFINE t == [s EXCEPT ![i].id = id]
  <2>1. Reihen(MitSendern(j, t))
    <3>1. [dialog.reihen EXCEPT ![j].sender[i].id = id] = MitSendern(j, t)
      BY DEF MitSendern
    <3> QED
      BY <1>5, <3>1 DEF SenderEintragen
  <2>2. t \in Seq(Mit(I)) /\ GenauEiner(t)
    <3>1. id \in I
      OBVIOUS
    <3> HIDE DEF s, I
    <3> QED
      BY <1>1, <1>5, <3>1, EintragenWirkt
  <2> HIDE DEF t
  <2> QED
    BY <2>1, <2>2, MitSendernWirkt
<1> QED
  BY <1>2, <1>3, <1>4, <1>5

\* Rows come and go only while a device is being added.
LEMMA ReihenzahlSchritt ==
    ASSUME IInv, ReiheDazu \/ \E j \in DOMAIN dialog.reihen : ReiheWeg(j)
    PROVE  dialog.modus = "add" /\ \E rs : ReihenGut(rs) /\ Reihen(rs)
<1>1. ReihenGut(dialog.reihen)
  BY DEF IInv, DialogGut
<1>2. CASE ReiheDazu
  <2> DEFINE n == Len(dialog.reihen) + 1
             r == LeereReihe(n)
  <2>1. /\ dialog.modus = "add" /\ n \in Kanaele
        /\ \A j \in DOMAIN dialog.reihen : dialog.reihen[j].kanal # n
        /\ Reihen(Append(dialog.reihen, r))
    BY <1>2 DEF ReiheDazu
  <2> HIDE DEF n
  <2>2. r \in Reihentyp /\ r.kanal = n /\ GenauEiner(r.sender)
    BY <2>1, LeereReiheGut
  <2> HIDE DEF r
  <2>3. ReihenGut(Append(dialog.reihen, r))
    BY <1>1, <2>1, <2>2, ReiheAngehaengt
  <2> QED
    BY <2>1, <2>3
<1>3. ASSUME NEW j \in DOMAIN dialog.reihen, ReiheWeg(j)
      PROVE  dialog.modus = "add" /\ \E rs : ReihenGut(rs) /\ Reihen(rs)
  <2>1. dialog.modus = "add" /\ Reihen(RemoveAt(dialog.reihen, j))
    BY <1>3 DEF ReiheWeg
  <2>2. ReihenGut(RemoveAt(dialog.reihen, j))
    BY <1>1, ReiheEntfernt
  <2> QED
    BY <2>1, <2>2
<1> QED
  BY <1>2, <1>3

\* openEdit shows the list's device and orphans what is under way.
LEMMA OeffnenWirkt ==
    ASSUME IInv, NEW g, Oeffnen(g)
    PROVE  /\ IInv' /\ g \in DOMAIN liste /\ anfrage' = Verwaist
           /\ Spiegelt(dialog'.reihen, liste[g])
           /\ dialog'.geraet = g /\ dialog'.alt = ~Aktuell(g) /\ dialog'.modus = "edit"
<1> DEFINE rs == [j \in 1..Cardinality(DOMAIN liste[g]) |->
                     LET k == Nter(DOMAIN liste[g], j) IN Reihe(k, liste[g][k])]
<1>1. /\ Eingabe /\ g \in DOMAIN liste /\ anfrage' = Verwaist
      /\ dialog' = [Zu EXCEPT !.offen = TRUE, !.geraet = g, !.alt = ~Aktuell(g), !.reihen = rs]
      /\ UNCHANGED <<server, liste, gestoert>>
  BY DEF Oeffnen
<1>2. /\ g \in Geraete /\ DOMAIN liste[g] \subseteq Kanaele
      /\ \A k \in DOMAIN liste[g] : liste[g][k] \in Kanal /\ GenauEiner(liste[g][k].sender)
  BY <1>1 DEF IInv, RegisterGut, IstRegister
<1>3. ReihenGut(rs) /\ Spiegelt(rs, liste[g])
  <2>1. PICK f : f = liste[g]
    OBVIOUS
  <2>2. DOMAIN f \subseteq Kanaele /\ \A k \in DOMAIN f : f[k] \in Kanal /\ GenauEiner(f[k].sender)
    BY <1>2, <2>1
  <2>3. rs = [j \in 1..Cardinality(DOMAIN f) |-> LET k == Nter(DOMAIN f, j) IN Reihe(k, f[k])]
    BY <2>1
  <2> HIDE DEF rs
  <2>4. ReihenGut(rs) /\ Spiegelt(rs, f)
    BY <2>2, <2>3, ReihenGeoeffnet
  <2> QED
    BY <2>1, <2>4
<1> HIDE DEF rs
<1>4. rs \in Seq(Reihentyp) /\ Aktuell(g) \in BOOLEAN
  BY <1>3 DEF ReihenGut, Aktuell
<1>5. /\ DialogGut(dialog') /\ dialog'.reihen = rs /\ dialog'.geraet = g
      /\ dialog'.alt = ~Aktuell(g) /\ dialog'.modus = "edit"
  BY <1>1, <1>2, <1>3, <1>4 DEF DialogGut, Zu
<1>6. AnfragenGut(anfrage')
  BY <1>1, VerwaistWirkt DEF IInv
<1>7. eingaben' \in 0..MaxEingaben
  BY <1>1, EingabeWirkt
<1>8. IInv'
  BY <1>1, <1>5, <1>6, <1>7 DEF IInv
<1> QED
  BY <1>1, <1>3, <1>5, <1>8

LEMMA OeffnenNeuWirkt ==
    ASSUME IInv, OeffnenNeu
    PROVE  IInv' /\ anfrage' = Verwaist /\ dialog'.modus = "add"
<1> DEFINE r == LeereReihe(1)
<1>1. /\ Eingabe /\ anfrage' = Verwaist
      /\ dialog' = [Zu EXCEPT !.offen = TRUE, !.modus = "add", !.reihen = <<r>>]
      /\ UNCHANGED <<server, liste, gestoert>>
  BY DEF OeffnenNeu
<1>2. r \in Reihentyp /\ GenauEiner(r.sender)
  BY LeereReiheGut, GeraeteTabAnnahme
<1> HIDE DEF r
<1>3. ReihenGut(<<r>>)
  BY <1>2 DEF ReihenGut
<1>4. <<r>> \in Seq(Reihentyp)
  BY <1>2
<1>5. DialogGut(dialog') /\ dialog'.modus = "add"
  BY <1>1, <1>3, <1>4 DEF DialogGut, Zu
<1>6. AnfragenGut(anfrage')
  BY <1>1, VerwaistWirkt DEF IInv
<1>7. eingaben' \in 0..MaxEingaben
  BY <1>1, EingabeWirkt
<1> QED
  BY <1>1, <1>5, <1>6, <1>7 DEF IInv

LEMMA AntragSchritt ==
    ASSUME IInv,
           \/ Takt \/ ProduktWaehlen
           \/ \E g \in Geraete : GeraetLoeschen(g)
           \/ \E j \in DOMAIN dialog.reihen :
                  \/ KanalLoeschen(j) \/ \E e \in Eeps : EepWechseln(j, e)
                  \/ \E z \in {"sender", "paarung"} : IdHolen(j, z)
                  \/ \E id \in Ids : PaarungStarten(j, id)
    PROVE  IInv'
<1>0. AnfragenGut(anfrage) /\ DialogGut(dialog) /\ ReihenGut(dialog.reihen)
      /\ (dialog.offen /\ dialog.modus = "edit" => dialog.geraet \in Geraete)
  BY DEF IInv, DialogGut
<1>1. CASE Takt
  <2>1. /\ Abschicken(anfrage, "liste", Keins, Leer, Nichts)
        /\ UNCHANGED <<server, liste, dialog, gestoert, eingaben>>
    BY <1>1 DEF Takt
  <2>2. AnfragenGut(anfrage')
    BY <1>0, <2>1, SchlichterAntrag
  <2> QED
    BY <2>1, <2>2 DEF IInv
<1>2. CASE ProduktWaehlen
  <2>1. /\ Eingabe /\ Abschicken(anfrage, "vorlage", Keins, Leer, Nichts)
        /\ UNCHANGED <<server, liste, dialog, gestoert>>
    BY <1>2 DEF ProduktWaehlen
  <2>2. AnfragenGut(anfrage') /\ eingaben' \in 0..MaxEingaben
    BY <1>0, <2>1, SchlichterAntrag, EingabeWirkt
  <2> QED
    BY <2>1, <2>2 DEF IInv
<1>3. ASSUME NEW g \in Geraete, GeraetLoeschen(g) PROVE IInv'
  <2>1. /\ Eingabe /\ Abschicken(anfrage, "geraet_weg", g, Leer, Nichts)
        /\ UNCHANGED <<server, liste, dialog, gestoert>>
    BY <1>3 DEF GeraetLoeschen
  <2>2. AnfragenGut(anfrage') /\ eingaben' \in 0..MaxEingaben
    BY <1>0, <2>1, SchlichterAntrag, EingabeWirkt
  <2> QED
    BY <2>1, <2>2 DEF IInv
<1>4. ASSUME NEW j \in DOMAIN dialog.reihen, KanalLoeschen(j) PROVE IInv'
  <2>1. /\ Eingabe /\ dialog.geraet \in Geraete
        /\ Abschicken(anfrage, "kanal_weg", dialog.geraet, dialog.reihen[j].kanal, j)
        /\ Gestoert(dialog.geraet, SchreibtAn(dialog.geraet))
        /\ UNCHANGED <<server, liste, dialog>>
    BY <1>0, <1>4 DEF KanalLoeschen
  <2>2. dialog.reihen[j].kanal \in Kanaele
    BY <1>0, ReihenForm
  <2>3. AnfragenGut(anfrage')
    BY <1>0, <2>1, <2>2, SchlichterAntrag
  <2>4. eingaben' \in 0..MaxEingaben /\ gestoert' \subseteq Geraete
    BY <2>1, EingabeWirkt DEF Gestoert, IInv
  <2> QED
    BY <2>1, <2>3, <2>4 DEF IInv
<1>5. ASSUME NEW j \in DOMAIN dialog.reihen, NEW e \in Eeps, EepWechseln(j, e) PROVE IInv'
  <2>1. /\ Eingabe /\ dialog.geraet \in Geraete
        /\ Abschicken(anfrage, "eep", dialog.geraet, dialog.reihen[j].kanal, e)
        /\ Gestoert(dialog.geraet, SchreibtAn(dialog.geraet))
        /\ UNCHANGED <<server, liste, dialog>>
    BY <1>0, <1>5 DEF EepWechseln
  <2>2. dialog.reihen[j].kanal \in Kanaele
    BY <1>0, ReihenForm
  <2>3. AnfragenGut(anfrage')
    BY <1>0, <2>1, <2>2, SchlichterAntrag
  <2>4. eingaben' \in 0..MaxEingaben /\ gestoert' \subseteq Geraete
    BY <2>1, EingabeWirkt DEF Gestoert, IInv
  <2> QED
    BY <2>1, <2>3, <2>4 DEF IInv
<1>6. ASSUME NEW j \in DOMAIN dialog.reihen, NEW z \in {"sender", "paarung"}, IdHolen(j, z) PROVE IInv'
  <2>1. /\ Eingabe /\ Abschicken(anfrage, "naechste_id", Keins, dialog.reihen[j].kanal, z)
        /\ UNCHANGED <<server, liste, dialog, gestoert>>
    BY <1>6 DEF IdHolen
  <2>2. dialog.reihen[j].kanal \in Kanaele
    BY <1>0, ReihenForm
  <2>3. AnfragenGut(anfrage')
    BY <1>0, <2>1, <2>2, SchlichterAntrag
  <2> QED
    BY <2>1, <2>3, EingabeWirkt DEF IInv
<1>7. ASSUME NEW j \in DOMAIN dialog.reihen, NEW id \in Ids, PaarungStarten(j, id) PROVE IInv'
  <2>1. /\ Eingabe /\ Abschicken(anfrage, "paarung", Keins, dialog.reihen[j].kanal, id)
        /\ dialog' = [dialog EXCEPT !.busy = TRUE]
        /\ UNCHANGED <<server, liste, gestoert>>
    BY <1>7 DEF PaarungStarten
  <2>2. dialog.reihen[j].kanal \in Kanaele
    BY <1>0, ReihenForm
  <2>3. AnfragenGut(anfrage')
    BY <1>0, <2>1, <2>2, SchlichterAntrag
  <2>4. DialogGut(dialog')
    BY <1>0, <2>1, BusyRahmen
  <2> QED
    BY <2>1, <2>3, <2>4, EingabeWirkt DEF IInv
<1> QED
  BY <1>1, <1>2, <1>3, <1>4, <1>5, <1>6, <1>7

\* A teach telegram
LEMMA LerntelegrammGut ==
    ASSUME IInv, NEW g \in Geraete, NEW k \in Kanaele, NEW e \in Eeps, Lerntelegramm(g, k, e)
    PROVE  IInv'
<1>1. /\ Eingabe /\ HatKanal(g, k) /\ server' = [server EXCEPT ![g][k].eep = e]
      /\ dialog' = [dialog EXCEPT !.alt = @ \/ dialog.geraet = g]
      /\ Gestoert(g, SchreibtAn(g)) /\ UNCHANGED <<liste, anfrage>>
  BY DEF Lerntelegramm
<1>2. g \in DOMAIN server /\ k \in DOMAIN server[g] /\ RegisterGut(server)
  BY <1>1 DEF HatKanal, IInv
<1>3. RegisterGut(server')
  <2>1. PICK r : r = server
    OBVIOUS
  <2>2. PICK u : u = [r EXCEPT ![g][k].eep = e]
    OBVIOUS
  <2>3. RegisterGut(u)
    BY <1>2, <2>1, <2>2, EepGeaendert
  <2> QED
    BY <1>1, <2>1, <2>2, <2>3
<1>4. DialogGut(dialog')
  BY <1>1 DEF IInv, DialogGut
<1>5. gestoert' \subseteq Geraete /\ eingaben' \in 0..MaxEingaben
  BY <1>1, EingabeWirkt DEF Gestoert, IInv
<1> QED
  BY <1>1, <1>3, <1>4, <1>5 DEF IInv

\* An error
LEMMA FehlschlagGut ==
    ASSUME IInv, NEW i \in Plaetze, Fehlschlag(i)
    PROVE  IInv'
<1> DEFINE a == anfrage[i]
<1>1. /\ a # Frei /\ UNCHANGED <<server, liste, gestoert, eingaben>>
      /\ anfrage' = IF a.art = "vorlage" THEN [OhneReihe EXCEPT ![i] = Frei] ELSE [anfrage EXCEPT ![i] = Frei]
      /\ \/ dialog' = [dialog EXCEPT !.saving = FALSE, !.alt = TRUE]
         \/ dialog' = [dialog EXCEPT !.alt = TRUE]
         \/ dialog' = [dialog EXCEPT !.busy = FALSE]
         \/ dialog' = MitVorlage
         \/ dialog' = dialog
  BY DEF Fehlschlag, Erledigt
<1>2. AnfragenGut(anfrage')
  BY <1>1, FreigabeGut, VerwaistWirkt DEF IInv
<1>3. DialogGut(dialog')
  <2>0. DialogGut(dialog)
    BY DEF IInv
  <2>1. \/ dialog' = [dialog EXCEPT !.saving = FALSE, !.alt = TRUE]
        \/ dialog' = [dialog EXCEPT !.alt = TRUE]
        \/ dialog' = [dialog EXCEPT !.busy = FALSE]
        => DialogGut(dialog')
    BY <2>0 DEF DialogGut
  <2>2. dialog' = MitVorlage => DialogGut(dialog')
    BY <2>0, MitVorlageGut
  <2> QED
    BY <1>1, <2>0, <2>1, <2>2
<1> QED
  BY <1>1, <1>2, <1>3 DEF IInv

\* An answer
LEMMA AntwortGut ==
    ASSUME IInv, NEW i \in Plaetze, Antwort(i)
    PROVE  IInv'
<1> DEFINE a == anfrage[i]
<1>1. /\ a # Frei /\ a.ort = "zurueck" /\ UNCHANGED <<server, gestoert, eingaben>>
      /\ liste' = IF a.art = "liste" THEN Verschmolzen(liste, a.wert)
                  ELSE IF a.art = "umkehren" /\ a.geraet \in DOMAIN liste
                          /\ a.kanal \in DOMAIN liste[a.geraet]
                  THEN [liste EXCEPT ![a.geraet][a.kanal].invert = a.wert.an]
                  ELSE liste
      /\ dialog' = IF a.art = "vorlage" THEN MitVorlage ELSE Nachher(a)
      /\ \/ a.art \in MitRefresh /\ Abschicken(Erledigt(i), "liste", Keins, Leer, Nichts)
         \/ a.art = "naechste_id" /\ a.wert.zweck = "paarung"
            /\ anfrage' = [anfrage EXCEPT ![i].art = "paarung", ![i].ort = "hin", ![i].wert = a.wert.id]
         \/ a.art = "vorlage" /\ anfrage' = [OhneReihe EXCEPT ![i] = Frei]
         \/ anfrage' = Erledigt(i)
  BY DEF Antwort
<1>2. AntragGut(a) /\ DOMAIN anfrage = Plaetze /\ AnfragenGut(anfrage)
  BY <1>1 DEF IInv, AnfragenGut
<1>3. WertGut(a.art, "zurueck", a.wert)
  BY <1>1, <1>2 DEF AntragGut
<1>4. RegisterGut(liste')
  <2>1. CASE a.art = "liste"
    <3>1. RegisterGut(a.wert) /\ liste' = Verschmolzen(liste, a.wert)
      BY <1>1, <1>3, <2>1 DEF WertGut
    <3> QED
      BY <3>1, VerschmolzenWirkt
  <2>2. CASE a.art = "umkehren" /\ a.geraet \in DOMAIN liste /\ a.kanal \in DOMAIN liste[a.geraet]
    <3>1. liste' = [liste EXCEPT ![a.geraet][a.kanal].invert = a.wert.an] /\ a.wert.an \in BOOLEAN
      BY <1>1, <1>3, <2>2 DEF WertGut
    <3>2. PICK r : r = liste
      OBVIOUS
    <3>3. PICK g \in DOMAIN r : g = a.geraet
      BY <2>2, <3>2
    <3>4. PICK k \in DOMAIN r[g] : k = a.kanal
      BY <2>2, <3>2, <3>3
    <3>5. PICK b \in BOOLEAN : b = a.wert.an
      BY <3>1
    <3>6. PICK u : u = [r EXCEPT ![g][k].invert = b]
      OBVIOUS
    <3>7. RegisterGut(u)
      BY <3>2, <3>6, InvertGeaendert DEF IInv
    <3> QED
      BY <3>1, <3>2, <3>3, <3>4, <3>5, <3>6, <3>7
  <2>3. CASE a.art # "liste" /\ ~(a.art = "umkehren" /\ a.geraet \in DOMAIN liste
                                  /\ a.kanal \in DOMAIN liste[a.geraet])
    BY <1>1, <2>3 DEF IInv
  <2> QED
    BY <2>1, <2>2, <2>3
<1>5. DialogGut(dialog')
  <2>1. CASE a.art = "vorlage"
    BY <1>1, <2>1, MitVorlageGut DEF IInv
  <2>2. CASE a.art # "vorlage"
    BY <1>1, <1>2, <2>2, NachherGut DEF IInv
  <2> QED
    BY <2>1, <2>2
<1>6. AnfragenGut(anfrage')
  <2>1. CASE a.art \in MitRefresh /\ Abschicken(Erledigt(i), "liste", Keins, Leer, Nichts)
    <3>1. AnfragenGut(Erledigt(i))
      BY <1>2, FreigabeGut DEF Erledigt
    <3>2. PICK A : A = Erledigt(i)
      OBVIOUS
    <3>3. Abschicken(A, "liste", Keins, Leer, Nichts)
      BY <2>1, <3>2
    <3> QED
      BY <3>1, <3>2, <3>3, SchlichterAntrag
  <2>2. CASE a.art = "naechste_id" /\ a.wert.zweck = "paarung"
             /\ anfrage' = [anfrage EXCEPT ![i].art = "paarung", ![i].ort = "hin", ![i].wert = a.wert.id]
    <3> DEFINE b == [a EXCEPT !.art = "paarung", !.ort = "hin", !.wert = a.wert.id]
    <3>1. anfrage' = [anfrage EXCEPT ![i] = b]
      BY <2>2
    <3>2. a.wert.id \in Ids
      BY <1>3, <2>2 DEF WertGut
    <3>3. AntragGut(b)
      BY <1>2, <3>2, AntragForm, ZenonT(30) DEF AntragGut, WertGut, Arten, Schreibend
    <3> HIDE DEF b
    <3> QED
      BY <1>2, <3>1, <3>3 DEF AnfragenGut
  <2>3. CASE a.art = "vorlage" /\ anfrage' = [OhneReihe EXCEPT ![i] = Frei]
    BY <1>2, <2>3, FreigabeGut, VerwaistWirkt
  <2>4. CASE anfrage' = Erledigt(i)
    BY <1>2, <2>4, FreigabeGut DEF Erledigt
  <2> QED
    BY <1>1, <2>1, <2>2, <2>3, <2>4
<1> QED
  BY <1>1, <1>4, <1>5, <1>6 DEF IInv

LEMMA AbbruchGut ==
    ASSUME IInv, NEW i \in Plaetze, Abbruch(i)
    PROVE  IInv'
<1>1. /\ Eingabe /\ anfrage[i] # Frei /\ anfrage' = [anfrage EXCEPT ![i].ort = "fehler"]
      /\ UNCHANGED <<server, liste, dialog, gestoert>>
  BY DEF Abbruch
<1>2. AntragGut(anfrage[i]) /\ DOMAIN anfrage = Plaetze
  BY <1>1 DEF IInv, AnfragenGut
<1> DEFINE b == [anfrage[i] EXCEPT !.ort = "fehler"]
<1>3. AntragGut(b)
  BY <1>2 DEF AntragGut, WertGut
<1>4. anfrage' = [anfrage EXCEPT ![i] = b]
  BY <1>1
<1> HIDE DEF b
<1>5. AnfragenGut(anfrage')
  BY <1>2, <1>3, <1>4 DEF AnfragenGut, IInv
<1> QED
  BY <1>1, <1>5, EingabeWirkt DEF IInv

LEMMA SchliessenGut ==
    ASSUME IInv, Schliessen \/ SpeichernOhneGeraet
    PROVE  IInv' /\ dialog' = [dialog EXCEPT !.offen = FALSE] /\ UNCHANGED <<server, liste, anfrage, gestoert>>
<1>1. /\ Eingabe /\ dialog' = [dialog EXCEPT !.offen = FALSE]
      /\ UNCHANGED <<server, liste, anfrage, gestoert>>
  BY DEF Schliessen, SpeichernOhneGeraet
<1>2. DialogGut(dialog')
  BY <1>1 DEF IInv, DialogGut
<1> QED
  BY <1>1, <1>2, EingabeWirkt DEF IInv

LEMMA InitGut == Init => IInv
<1> SUFFICES ASSUME Init PROVE IInv
  OBVIOUS
<1>1. /\ server = Anfang /\ liste = [g \in {} |-> Nichts] /\ dialog = Zu
      /\ gestoert = {} /\ eingaben = 0
      /\ anfrage = [i \in Plaetze |->
             IF i = 1 THEN [art |-> "liste", ort |-> "hin", geraet |-> Keins,
                            kanal |-> Leer, wert |-> Nichts, reihe |-> Leer, hier |-> TRUE]
             ELSE Frei]
  BY DEF Init
<1>2. RegisterGut(server)
  <2>1. ASSUME NEW g \in DOMAIN Anfang, NEW k \in DOMAIN Anfang[g]
        PROVE  GenauEiner(Anfang[g][k].sender)
    <3>1. Anfang[g][k] \in Kanal /\ EinerAktiv(Anfang[g][k].sender)
      BY AnfangAnnahme DEF IstRegister
    <3>2. Anfang[g][k].sender \in Seq(Mit(Ids))
      BY <3>1 DEF Kanal, Mit
    <3> QED
      BY <3>1, <3>2, EinerIstGenauEiner
  <2> QED
    BY <1>1, <2>1, AnfangAnnahme DEF RegisterGut
<1>3. RegisterGut(liste)
  BY <1>1 DEF RegisterGut, IstRegister
<1>4. DialogGut(dialog)
  <2>1. ReihenGut(<<>>)
    BY DEF ReihenGut
  <2> QED
    BY <1>1, <2>1 DEF DialogGut, Zu
<1>5. AnfragenGut(anfrage)
  <2> DEFINE r == [art |-> "liste", ort |-> "hin", geraet |-> Keins,
                   kanal |-> Leer, wert |-> Nichts, reihe |-> Leer, hier |-> TRUE]
  <2>1. AntragGut(r)
    BY DEF AntragGut, WertGut, Arten, Schreibend
  <2>2. anfrage = [i \in Plaetze |-> IF i = 1 THEN r ELSE Frei]
    BY <1>1
  <2> HIDE DEF r
  <2> QED
    BY <2>1, <2>2 DEF AnfragenGut
<1> QED
  BY <1>1, <1>2, <1>3, <1>4, <1>5, GeraeteTabAnnahme DEF IInv

LEMMA SchrittGut == IInv /\ [Next]_vars => IInv'
<1> SUFFICES ASSUME IInv, [Next]_vars PROVE IInv'
  OBVIOUS
<1>1. CASE Bedienen
  <2>1. ASSUME NEW g \in Geraete, GeraetLoeschen(g) \/ Oeffnen(g) \/ Anlegen(g) PROVE IInv'
    BY <2>1, AntragSchritt, OeffnenWirkt, AnlegenWirkt
  <2>2. ASSUME NEW g \in Geraete, NEW k \in Kanaele, Umkehren(g, k) PROVE IInv'
    BY <2>2, UmkehrenWirkt
  <2>3. CASE OeffnenNeu \/ Schliessen \/ ProduktWaehlen \/ Speichern \/ SpeichernOhneGeraet
    BY <2>3, OeffnenNeuWirkt, SchliessenGut, AntragSchritt, SpeichernWirkt
  <2>4. CASE ReiheDazu \/ \E j \in DOMAIN dialog.reihen : ReiheWeg(j)
    BY <2>4, ReihenzahlSchritt, ReihenWirkt
  <2>5. ASSUME NEW j \in DOMAIN dialog.reihen,
               \/ KanalLoeschen(j) \/ \E e \in Eeps : EepWechseln(j, e)
               \/ \E z \in {"sender", "paarung"} : IdHolen(j, z)
               \/ \E id \in Ids : PaarungStarten(j, id)
        PROVE  IInv'
    BY <2>5, AntragSchritt
  <2>6. ASSUME NEW j \in DOMAIN dialog.reihen,
               \/ SenderDazu(j)
               \/ \E i \in DOMAIN dialog.reihen[j].sender :
                      \/ SenderAktivieren(j, i) \/ SenderWeg(j, i)
                      \/ \E id \in Ids : SenderEintragen(j, i, id)
        PROVE  IInv'
    <3>1. NurSender
      BY <2>6, SenderSchritt
    <3> QED
      BY <3>1, ReihenWirkt DEF NurSender
  <2> QED
    BY <1>1, <2>1, <2>2, <2>3, <2>4, <2>5, <2>6 DEF Bedienen
<1>2. CASE Takt
  BY <1>2, AntragSchritt
<1>3. ASSUME NEW i \in Plaetze, Ankunft(i) PROVE IInv'
  <2>1. /\ AntragGut(anfrage[i]) /\ server' = Danach(anfrage[i]) /\ AnfragenGut(anfrage')
    BY <1>3, AnkunftWirkt DEF IInv
  <2>2. RegisterGut(server')
    BY <2>1, DanachGut DEF IInv
  <2> QED
    BY <1>3, <2>1, <2>2 DEF IInv, Ankunft
<1>4. ASSUME NEW i \in Plaetze, Antwort(i) \/ Fehlschlag(i) \/ Abbruch(i) PROVE IInv'
  BY <1>4, AntwortGut, FehlschlagGut, AbbruchGut
<1>5. ASSUME NEW g \in Geraete, NEW k \in Kanaele, NEW e \in Eeps, Lerntelegramm(g, k, e) PROVE IInv'
  BY <1>5, LerntelegrammGut
<1>6. CASE UNCHANGED vars
  BY <1>6 DEF vars, IInv
<1> QED
  BY <1>1, <1>2, <1>3, <1>4, <1>5, <1>6 DEF Next

LEMMA Induktiv == Spec => []IInv
<1> QED
  BY InitGut, SchrittGut, PTL DEF Spec

\* The types of the registry, the list, the dialog and the requests, in every
\* reachable state and for any number of devices, channels and requests: no
\* sender without an id gets into the registry or the list.
THEOREM TypSicher == Spec => []TypeOK
<1>1. IInv => TypeOK
  <2> SUFFICES ASSUME IInv PROVE TypeOK
    OBVIOUS
  <2>1. ASSUME NEW i \in Plaetze, anfrage[i] # Frei
        PROVE  /\ anfrage[i].art \in Schreibend \cup {"liste", "naechste_id", "paarung", "vorlage"}
               /\ anfrage[i].art \in Schreibend => anfrage[i].geraet \in Geraete
    <3>1. AntragGut(anfrage[i])
      BY <2>1 DEF IInv, AnfragenGut
    <3> QED
      BY <3>1, AntragForm DEF AntragGut, Arten
  <2> QED
    BY <2>1 DEF IInv, TypeOK, RegisterGut, DialogGut
<1> QED
  BY <1>1, Induktiv, PTL

\* Exactly one sender of each channel is active, in the registry and in every
\* row, whatever answers come in whatever order (devices.py:186, app.js:1330).
THEOREM EinAktiverSicher == Spec => []EinAktiver
<1>1. IInv => EinAktiver
  <2> SUFFICES ASSUME IInv PROVE EinAktiver
    OBVIOUS
  <2>1. ASSUME NEW g \in DOMAIN server, NEW k \in DOMAIN server[g]
        PROVE  EinerAktiv(server[g][k].sender)
    <3>1. server[g][k] \in Kanal /\ GenauEiner(server[g][k].sender)
      BY DEF IInv, RegisterGut, IstRegister
    <3>2. server[g][k].sender \in Seq(Mit(Ids))
      BY <3>1 DEF Kanal, Mit
    <3> QED
      BY <3>1, <3>2, EinerIstGenauEiner
  <2>2. ASSUME NEW j \in DOMAIN dialog.reihen
        PROVE  EinerAktiv(dialog.reihen[j].sender)
    <3>1. ReihenGut(dialog.reihen)
      BY DEF IInv, DialogGut
    <3>2. dialog.reihen[j].sender \in Seq(Mit(Ids \cup {Leer})) /\ GenauEiner(dialog.reihen[j].sender)
      BY <3>1, ReihenForm DEF ReihenGut
    <3> QED
      BY <3>2, EinerIstGenauEiner
  <2> QED
    BY <2>1, <2>2 DEF EinAktiver
<1> QED
  BY <1>1, Induktiv, PTL

-----------------------------------------------------------------------------
(* What is written is what was shown *)

\* A request that does not arrive in this step stays where it is, is given up
\* or answered, has failed, or has just been sent.
Wartet(j) ==
    \/ anfrage[j] = Frei \/ anfrage'[j] = Frei
    \/ anfrage'[j].ort = anfrage[j].ort \/ anfrage'[j].ort \in {"hin", "fehler"}

LEMMA AbschickenOrt ==
    ASSUME NEW A, AnfragenGut(A), NEW art, NEW g, NEW k, NEW w, Abschicken(A, art, g, k, w),
           NEW j \in Plaetze
    PROVE  anfrage'[j] = A[j] \/ (anfrage'[j].ort = "hin" /\ A[j] = Frei)
<1> DEFINE r == [art |-> art, ort |-> "hin", geraet |-> g, kanal |-> k,
                 wert |-> w, reihe |-> k, hier |-> TRUE]
<1>1. PICK i \in Plaetze : A[i] = Frei /\ anfrage' = [A EXCEPT ![i] = r]
  BY DEF Abschicken
<1>2. DOMAIN A = Plaetze /\ r.ort = "hin"
  BY DEF AnfragenGut
<1> HIDE DEF r
<1> QED
  BY <1>1, <1>2

LEMMA SchrittOrt ==
    ASSUME IInv, Next, NEW j \in Plaetze
    PROVE  Wartet(j) \/ Ankunft(j)
<1>0. AnfragenGut(anfrage) /\ DOMAIN anfrage = Plaetze
  BY DEF IInv, AnfragenGut
<1>1. ASSUME UNCHANGED anfrage PROVE Wartet(j)
  BY <1>1 DEF Wartet
<1>2. ASSUME NEW art, NEW g, NEW k, NEW w, Abschicken(anfrage, art, g, k, w) PROVE Wartet(j)
  BY <1>0, <1>2, AbschickenOrt DEF Wartet
<1>3. ASSUME anfrage' = Verwaist PROVE Wartet(j)
  <2>1. CASE anfrage[j] = Frei
    BY <2>1 DEF Wartet
  <2>2. CASE anfrage[j] # Frei
    <3>1. anfrage'[j] = [anfrage[j] EXCEPT !.reihe = Leer, !.hier = FALSE] /\ AntragGut(anfrage[j])
      BY <1>0, <1>3, <2>2, VerwaistWirkt DEF AnfragenGut
    <3>2. anfrage'[j].ort = anfrage[j].ort
      BY <3>1 DEF AntragGut
    <3> QED
      BY <3>2 DEF Wartet
  <2> QED
    BY <2>1, <2>2
<1>4. ASSUME NEW i \in Plaetze, anfrage' = [OhneReihe EXCEPT ![i] = Frei] PROVE Wartet(j)
  <2>0. DOMAIN OhneReihe = Plaetze
    BY <1>0, VerwaistWirkt DEF AnfragenGut
  <2>1. CASE anfrage[j] = Frei
    BY <2>1 DEF Wartet
  <2>2. CASE anfrage[j] # Frei /\ j # i
    <3>1. anfrage'[j] = OhneReihe[j]
      BY <1>4, <2>0, <2>2
    <3>2. anfrage'[j] = [anfrage[j] EXCEPT !.reihe = Leer] /\ AntragGut(anfrage[j])
      BY <1>0, <3>1, <2>2, VerwaistWirkt DEF AnfragenGut
    <3>3. anfrage'[j].ort = anfrage[j].ort
      BY <3>2 DEF AntragGut
    <3> QED
      BY <3>3 DEF Wartet
  <2>3. CASE j = i
    BY <1>4, <2>0, <2>3 DEF Wartet
  <2> QED
    BY <2>1, <2>2, <2>3
<1>5. ASSUME NEW i \in Plaetze, anfrage' = Erledigt(i) PROVE Wartet(j)
  BY <1>0, <1>5 DEF Erledigt, Wartet
<1>6. CASE Bedienen
  <2>1. ASSUME NEW g \in Geraete, GeraetLoeschen(g) \/ Anlegen(g) PROVE Wartet(j)
    BY <1>2, <2>1 DEF GeraetLoeschen, Anlegen
  <2>2. ASSUME NEW g \in Geraete, Oeffnen(g) PROVE Wartet(j)
    BY <1>3, <2>2 DEF Oeffnen
  <2>3. ASSUME NEW g \in Geraete, NEW k \in Kanaele, Umkehren(g, k) PROVE Wartet(j)
    BY <1>2, <2>3 DEF Umkehren
  <2>4. CASE OeffnenNeu
    BY <1>3, <2>4 DEF OeffnenNeu
  <2>5. CASE Schliessen \/ ReiheDazu \/ SpeichernOhneGeraet
    BY <1>1, <2>5 DEF Schliessen, ReiheDazu, SpeichernOhneGeraet, Reihen
  <2>6. CASE ProduktWaehlen
    BY <1>2, <2>6 DEF ProduktWaehlen
  <2>7. CASE Speichern
    BY <1>2, <2>7 DEF Speichern
  <2>8. ASSUME NEW l \in DOMAIN dialog.reihen,
               \/ ReiheWeg(l) \/ SenderDazu(l)
               \/ \E i \in DOMAIN dialog.reihen[l].sender :
                      \/ SenderAktivieren(l, i) \/ SenderWeg(l, i)
                      \/ \E id \in Ids : SenderEintragen(l, i, id)
        PROVE  Wartet(j)
    BY <1>1, <2>8 DEF ReiheWeg, SenderDazu, SenderAktivieren, SenderWeg, SenderEintragen, Reihen
  <2>9. ASSUME NEW l \in DOMAIN dialog.reihen,
               \/ KanalLoeschen(l) \/ \E e \in Eeps : EepWechseln(l, e)
               \/ \E z \in {"sender", "paarung"} : IdHolen(l, z)
               \/ \E id \in Ids : PaarungStarten(l, id)
        PROVE  Wartet(j)
    BY <1>2, <2>9 DEF KanalLoeschen, EepWechseln, IdHolen, PaarungStarten
  <2> QED
    BY <1>6, <2>1, <2>2, <2>3, <2>4, <2>5, <2>6, <2>7, <2>8, <2>9 DEF Bedienen
<1>7. CASE Takt
  BY <1>2, <1>7 DEF Takt
<1>8. ASSUME NEW i \in Plaetze, Ankunft(i) PROVE Wartet(j) \/ Ankunft(j)
  <2>1. j # i => anfrage'[j] = anfrage[j]
    BY <1>8, AnkunftWirkt DEF IInv
  <2> QED
    BY <1>8, <2>1 DEF Wartet
<1>9. ASSUME NEW i \in Plaetze, Antwort(i) PROVE Wartet(j)
  <2>1. \/ Abschicken(Erledigt(i), "liste", Keins, Leer, Nichts)
        \/ anfrage' = [anfrage EXCEPT ![i].art = "paarung", ![i].ort = "hin", ![i].wert = anfrage[i].wert.id]
        \/ anfrage' = [OhneReihe EXCEPT ![i] = Frei]
        \/ anfrage' = Erledigt(i)
    BY <1>9 DEF Antwort
  <2>2. CASE Abschicken(Erledigt(i), "liste", Keins, Leer, Nichts)
    <3>1. PICK A : A = Erledigt(i)
      OBVIOUS
    <3>2. AnfragenGut(A) /\ Abschicken(A, "liste", Keins, Leer, Nichts)
      BY <1>0, <2>2, <3>1, FreigabeGut DEF Erledigt
    <3>3. anfrage'[j] = A[j] \/ anfrage'[j].ort = "hin"
      BY <3>2, AbschickenOrt
    <3>4. A[j] = Frei \/ A[j] = anfrage[j]
      BY <1>0, <3>1 DEF Erledigt
    <3> QED
      BY <3>3, <3>4 DEF Wartet
  <2>3. CASE anfrage' = [anfrage EXCEPT ![i].art = "paarung", ![i].ort = "hin", ![i].wert = anfrage[i].wert.id]
    <3>1. AntragGut(anfrage[i])
      BY <1>0, <1>9 DEF Antwort, AnfragenGut
    <3>2. CASE j = i
      <4>1. anfrage'[i] = [anfrage[i] EXCEPT !.art = "paarung", !.ort = "hin", !.wert = anfrage[i].wert.id]
        BY <1>0, <2>3
      <4>2. anfrage'[i].ort = "hin"
        BY <3>1, <4>1 DEF AntragGut
      <4> QED
        BY <3>2, <4>2 DEF Wartet
    <3>3. CASE j # i
      <4>1. anfrage'[j] = anfrage[j]
        BY <1>0, <2>3, <3>3
      <4> QED
        BY <4>1 DEF Wartet
    <3> QED
      BY <3>2, <3>3
  <2> QED
    BY <1>4, <1>5, <2>1, <2>2, <2>3
<1>10. ASSUME NEW i \in Plaetze, Fehlschlag(i) PROVE Wartet(j)
  BY <1>4, <1>5, <1>10 DEF Fehlschlag
<1>11. ASSUME NEW i \in Plaetze, Abbruch(i) PROVE Wartet(j)
  <2>1. AntragGut(anfrage[i]) /\ anfrage' = [anfrage EXCEPT ![i].ort = "fehler"]
    BY <1>0, <1>11 DEF Abbruch, AnfragenGut
  <2>2. CASE j = i
    <3>1. anfrage'[i] = [anfrage[i] EXCEPT !.ort = "fehler"]
      BY <1>0, <2>1
    <3>2. anfrage'[i].ort = "fehler"
      BY <2>1, <3>1 DEF AntragGut
    <3> QED
      BY <2>2, <3>2 DEF Wartet
  <2>3. CASE j # i
    <3>1. anfrage'[j] = anfrage[j]
      BY <1>0, <2>1, <2>3
    <3> QED
      BY <3>1 DEF Wartet
  <2> QED
    BY <2>2, <2>3
<1>12. ASSUME NEW g \in Geraete, NEW k \in Kanaele, NEW e \in Eeps, Lerntelegramm(g, k, e) PROVE Wartet(j)
  BY <1>1, <1>12 DEF Lerntelegramm
<1> QED
  BY <1>6, <1>7, <1>8, <1>9, <1>10, <1>11, <1>12 DEF Next

\* Only the server's handler answers, so whatever was written arrived.
LEMMA NurAnkunftSchreibt ==
    ASSUME IInv, [Next]_vars, NEW i \in Plaetze, NEW arten, Geschrieben(i, arten)
    PROVE  Ankunft(i) /\ AntragGut(anfrage[i])
<1>1. /\ anfrage[i] # Frei /\ anfrage[i].ort = "hin"
      /\ anfrage'[i] # Frei /\ anfrage'[i].ort = "zurueck"
  BY DEF Geschrieben
<1>2. ~Wartet(i)
  BY <1>1 DEF Wartet
<1>3. Next
  BY <1>1 DEF vars
<1> QED
  BY <1>1, <1>2, <1>3, SchrittOrt DEF IInv, AnfragenGut

\* What a row's senders become when the row is saved: those with an id, in the
\* registry with the same one active.
Gesehen(s, paar, da) ==
    /\ Gefuellt(s) # <<>> =>
           /\ {da[n].id : n \in DOMAIN da} = {s[n].id : n \in DOMAIN s} \ {Leer}
           /\ Paar(s) # Leer => Paar(da) = Paar(s)
    /\ Gefuellt(s) = <<>> /\ paar = Leer => da = <<>>

LEMMA ReiheGespeichert ==
    ASSUME NEW s \in Seq(Mit(Ids \cup {Leer})), GenauEiner(s), NEW c \in Ladung,
           c.sender = Gefuellt(s)
    PROVE  Gesehen(s, c.paar, Bereinigt(c).sender)
<1> DEFINE t == c.sender
           da == Bereinigt(c).sender
<1>1. /\ t \in Seq(Mit(Ids))
      /\ \A m \in DOMAIN t : \E n \in DOMAIN s : s[n].id # Leer /\ t[m] = s[n]
      /\ \A n \in DOMAIN s : s[n].id # Leer => \E m \in DOMAIN t : t[m] = s[n]
  <2>1. /\ Gefuellt(s) \in Seq(Mit(Ids))
        /\ \A m \in DOMAIN Gefuellt(s) : \E n \in DOMAIN s : s[n].id # Leer /\ Gefuellt(s)[m] = s[n]
        /\ \A n \in DOMAIN s : s[n].id # Leer => \E m \in DOMAIN Gefuellt(s) : Gefuellt(s)[m] = s[n]
    BY GefuelltWirkt
  <2> QED
    BY <2>1
<1>2. /\ da \in Seq(Mit(Ids))
      /\ t = <<>> /\ c.paar = Leer => da = <<>>
      /\ t # <<>> => /\ Len(da) = Len(t)
                     /\ \A n \in DOMAIN t : da[n].id = t[n].id
                     /\ Paar(da) = Paar(t)
  <2>1. Bereinigt(c) \in Kanal
    BY BereinigtWirkt
  <2>2. da \in Seq(Mit(Ids))
    BY <2>1 DEF Kanal, Mit
  <2> QED
    BY <2>2, BereinigtWirkt
<1>3. t = Gefuellt(s)
  OBVIOUS
<1> HIDE DEF t, da
<1>4. ASSUME t # <<>>
      PROVE  {da[n].id : n \in DOMAIN da} = {s[n].id : n \in DOMAIN s} \ {Leer}
  <2>1. DOMAIN da = DOMAIN t
    BY <1>1, <1>2, <1>4
  <2>2. ASSUME NEW m \in DOMAIN da PROVE da[m].id \in {s[n].id : n \in DOMAIN s} \ {Leer}
    BY <1>1, <1>2, <1>4, <2>1
  <2>3. ASSUME NEW n \in DOMAIN s, s[n].id # Leer PROVE s[n].id \in {da[m].id : m \in DOMAIN da}
    <3>1. PICK m \in DOMAIN t : t[m] = s[n]
      BY <1>1, <2>3
    <3>2. m \in DOMAIN da /\ da[m].id = s[n].id
      BY <1>2, <1>4, <2>1, <3>1
    <3> QED
      BY <3>2
  <2> QED
    BY <2>2, <2>3
<1>5. ASSUME t # <<>>, Paar(s) # Leer PROVE Paar(da) = Paar(s)
  <2>1. s # <<>>
    BY <1>5, PaarWirkt
  <2>2. PICK n \in DOMAIN s : \A i \in DOMAIN s : s[i].aktiv <=> i = n
    BY <2>1 DEF GenauEiner
  <2>3. Paar(s) = s[n].id
    BY <2>2, PaarDesEinen
  <2>4. PICK m \in DOMAIN t : t[m] = s[n]
    BY <1>1, <1>5, <2>3
  <2>5. PICK l \in DOMAIN t : t[l].aktiv /\ Paar(t) = t[l].id
    BY <1>1, <2>2, <2>4, PaarWirkt, SMTT(30)
  <2>6. t[l] = s[n]
    <3>1. PICK i \in DOMAIN s : t[l] = s[i]
      BY <1>1
    <3> QED
      BY <2>2, <2>5, <3>1
  <2> QED
    BY <1>2, <1>5, <2>3, <2>5, <2>6
<1> QED
  BY <1>2, <1>3, <1>4, <1>5 DEF Gesehen, t, da

\* A saved device has the channels of the rows it was saved from, and of each
\* the senders and the active one that the user saw (app.js:1897).
THEOREM WasManSiehtSicher == Spec => WasManSieht
<1>1. ASSUME IInv, [Next]_vars, NEW i \in Plaetze, Geschrieben(i, {"speichern"})
      PROVE  LET rs == anfrage[i].wert.bild
                 neu == server'[anfrage[i].geraet]
             IN  /\ DOMAIN neu = {rs[j].kanal : j \in DOMAIN rs}
                 /\ \A j \in DOMAIN rs :
                       Gesehen(rs[j].sender, rs[j].paar, neu[rs[j].kanal].sender)
  <2>1. PICK a : a = anfrage[i]
    OBVIOUS
  <2>2. Ankunft(i) /\ AntragGut(a)
    BY <1>1, <2>1, NurAnkunftSchreibt
  <2>3. a.art = "speichern" /\ a.geraet \in Geraete /\ Getreu(a.wert) /\ LadungenGut(a.wert.nutzlast)
    BY <1>1, <2>1, <2>2 DEF Geschrieben, AntragGut, WertGut, Schreibend
  <2>4. server' = Danach(a)
    BY <1>1, <2>1, <2>2, AnkunftWirkt DEF IInv
  <2> DEFINE rs == a.wert.bild
             n == a.wert.nutzlast
             u == Upsert(a.geraet, n)
             neu == u[a.geraet]
  <2>5. server' = u
    BY <2>2, <2>3, <2>4, DanachFaelle
  <2>6. DOMAIN neu = DOMAIN n /\ \A k \in DOMAIN n : neu[k] = Bereinigt(n[k])
    BY <1>1, <2>3, UpsertWirkt DEF IInv
  <2>7. /\ ReihenGut(rs) /\ LadungenGut(n)
        /\ \A j \in DOMAIN rs : /\ rs[j].kanal \in DOMAIN n
                                /\ n[rs[j].kanal].sender = Gefuellt(rs[j].sender)
                                /\ n[rs[j].kanal].paar = rs[j].paar
        /\ \A k \in DOMAIN n : \E j \in DOMAIN rs : rs[j].kanal = k
    BY <2>3 DEF Getreu
  <2> HIDE DEF rs, n, neu
  <2>8. DOMAIN neu = {rs[j].kanal : j \in DOMAIN rs}
    BY <2>6, <2>7
  <2>9. ASSUME NEW j \in DOMAIN rs
        PROVE  Gesehen(rs[j].sender, rs[j].paar, neu[rs[j].kanal].sender)
    <3>1. PICK c : c = n[rs[j].kanal]
      OBVIOUS
    <3>2. PICK s : s = rs[j].sender
      OBVIOUS
    <3>3. c \in Ladung /\ c.sender = Gefuellt(s) /\ c.paar = rs[j].paar
      BY <2>7, <3>1, <3>2 DEF LadungenGut
    <3>4. s \in Seq(Mit(Ids \cup {Leer})) /\ GenauEiner(s)
      BY <2>7, <3>2, ReihenForm DEF ReihenGut
    <3>5. Gesehen(s, c.paar, Bereinigt(c).sender)
      BY <3>3, <3>4, ReiheGespeichert
    <3>6. neu[rs[j].kanal] = Bereinigt(c)
      BY <2>6, <2>7, <3>1
    <3> QED
      BY <3>2, <3>3, <3>5, <3>6
  <2> QED
    BY <2>1, <2>5, <2>8, <2>9 DEF rs, neu
<1>2. IInv /\ [Next]_vars =>
        (\A i \in Plaetze :
          Geschrieben(i, {"speichern"}) =>
              LET rs == anfrage[i].wert.bild
                  neu == server'[anfrage[i].geraet]
              IN  /\ DOMAIN neu = {rs[j].kanal : j \in DOMAIN rs}
                  /\ \A j \in DOMAIN rs :
                        LET s == rs[j].sender
                            da == neu[rs[j].kanal].sender
                        IN  /\ Gefuellt(s) # <<>> =>
                                /\ {da[n].id : n \in DOMAIN da} = {s[n].id : n \in DOMAIN s} \ {Leer}
                                /\ Paar(s) # Leer => Paar(da) = Paar(s)
                            /\ Gefuellt(s) = <<>> /\ rs[j].paar = Leer => da = <<>>)
  BY <1>1 DEF Gesehen
<1> QED
  BY <1>2, Induktiv, PTL DEF Spec, WasManSieht

-----------------------------------------------------------------------------
(* Nothing is written from something stale: what requests, dialog and registry *)
(* know of a device that nobody else has changed                             *)

Schreibt(a, g) == a # Frei /\ a.art \in Schreibend /\ a.geraet = g

Frisch(d) == d.offen /\ d.modus = "edit" /\ ~d.alt

\* Of an undisturbed device at most one request that writes is under way; only
\* its removal may overtake.
Einzeln(A, G) ==
    \A i, j \in Plaetze, g \in Geraete \ G :
        /\ Schreibt(A[i], g) /\ A[i].art # "geraet_weg"
        /\ Schreibt(A[j], g) /\ A[j].art # "geraet_weg"
        => i = j

\* A continuation that still finds its dialog is about the device it shows; and
\* what is written of a device whose dialog is fresh was sent by that dialog.
AusDialog(A, d) ==
    /\ \A i \in Plaetze : A[i] # Frei /\ A[i].art \in {"kanal_weg", "eep"} =>
           IF A[i].hier THEN A[i].geraet = d.geraet ELSE A[i].reihe = Leer
    /\ Frisch(d) => \A i \in Plaetze : Schreibt(A[i], d.geraet) =>
           A[i].hier /\ A[i].art \in {"speichern", "kanal_weg", "eep"}

\* What a request that writes a whole device keeps of it
Erhaelt(a, f) ==
    LET n == a.wert.nutzlast
    IN  /\ DOMAIN n = DOMAIN f
        /\ \A k \in DOMAIN f :
              /\ n[k].eep = f[k].eep
              /\ n[k].invert = f[k].invert \/ (a.art = "umkehren" /\ a.kanal = k)

Treu(A, S, G) ==
    \A i \in Plaetze :
        /\ A[i] # Frei /\ A[i].art \in {"speichern", "umkehren"} /\ A[i].ort = "hin"
        /\ A[i].geraet \in DOMAIN S \ G
        => Erhaelt(A[i], S[A[i].geraet])

\* The rows show a device up to what its one request has done already.
Passend(a, rs, f) ==
    /\ a.art \in {"kanal_weg", "eep"} /\ a.ort = "hin" => Spiegelt(rs, f)
    /\ a.art = "kanal_weg" /\ a.ort # "fehler" => a.wert \in DOMAIN rs /\ rs[a.wert].kanal = a.kanal
    /\ a.art = "kanal_weg" /\ a.ort = "zurueck" =>
           /\ \A j \in DOMAIN rs : rs[j].kanal # a.kanal =>
                  rs[j].kanal \in DOMAIN f /\ f[rs[j].kanal].eep = rs[j].eep
           /\ \A k \in DOMAIN f : k # a.kanal /\ \E j \in DOMAIN rs : rs[j].kanal = k
    /\ a.art = "eep" => a.reihe = a.kanal
    /\ a.art = "eep" /\ a.ort = "zurueck" =>
           /\ \A j \in DOMAIN rs : rs[j].kanal \in DOMAIN f
                  /\ f[rs[j].kanal].eep = IF rs[j].kanal = a.kanal THEN a.wert ELSE rs[j].eep
           /\ \A k \in DOMAIN f : \E j \in DOMAIN rs : rs[j].kanal = k

ImBild(A, d, S, G) ==
    Frisch(d) /\ d.geraet \in DOMAIN S \ G =>
        /\ (\A i \in Plaetze : ~Schreibt(A[i], d.geraet)) => Spiegelt(d.reihen, S[d.geraet])
        /\ \A i \in Plaetze : Schreibt(A[i], d.geraet) => Passend(A[i], d.reihen, S[d.geraet])

Spur(A, d, S, G) == Einzeln(A, G) /\ AusDialog(A, d) /\ Treu(A, S, G) /\ ImBild(A, d, S, G)

\* A request as it was, or failed, or orphaned
Folgt(a, b, d, e) ==
    /\ a # Frei /\ b.art = a.art /\ b.geraet = a.geraet /\ b.kanal = a.kanal /\ b.wert = a.wert
    /\ b.ort = a.ort \/ b.ort = "fehler"
    /\ \/ b.hier = a.hier /\ e.geraet = d.geraet /\ b.reihe \in {a.reihe, Leer}
       \/ ~b.hier /\ b.reihe = Leer
    /\ Frisch(e) => b.reihe = a.reihe /\ b.hier = a.hier

LEMMA SpiegeltBleibt ==
    ASSUME NEW rs, NEW neu, GleicheKanaele(rs, neu), NEW f
    PROVE  /\ Spiegelt(rs, f) => Spiegelt(neu, f)
           /\ \A a, b : /\ Passend(a, rs, f) /\ b.art = a.art /\ b.kanal = a.kanal /\ b.wert = a.wert
                        /\ b.reihe = a.reihe /\ (b.ort = a.ort \/ b.ort = "fehler")
                        => Passend(b, neu, f)
<1>1. DOMAIN neu = DOMAIN rs /\ \A j \in DOMAIN rs : neu[j].kanal = rs[j].kanal /\ neu[j].eep = rs[j].eep
  BY DEF GleicheKanaele
<1>2. Spiegelt(rs, f) => Spiegelt(neu, f)
  BY <1>1 DEF Spiegelt
<1>3. ASSUME NEW a, NEW b, Passend(a, rs, f), b.art = a.art, b.kanal = a.kanal, b.wert = a.wert,
             b.reihe = a.reihe, b.ort = a.ort \/ b.ort = "fehler"
      PROVE  Passend(b, neu, f)
  <2>1. CASE b.ort = "fehler"
    BY <1>3, <2>1 DEF Passend
  <2>2. CASE b.ort = a.ort /\ b.ort # "fehler"
    <3>1. b.art \in {"kanal_weg", "eep"} /\ b.ort = "hin" => Spiegelt(neu, f)
      BY <1>2, <1>3, <2>2 DEF Passend
    <3>2. b.art = "kanal_weg" => b.wert \in DOMAIN neu /\ neu[b.wert].kanal = b.kanal
      BY <1>1, <1>3, <2>2 DEF Passend
    <3>3. b.art = "kanal_weg" /\ b.ort = "zurueck" =>
              /\ \A j \in DOMAIN neu : neu[j].kanal # b.kanal =>
                     neu[j].kanal \in DOMAIN f /\ f[neu[j].kanal].eep = neu[j].eep
              /\ \A k \in DOMAIN f : k # b.kanal /\ \E j \in DOMAIN neu : neu[j].kanal = k
      BY <1>1, <1>3, <2>2 DEF Passend
    <3>4. b.art = "eep" => b.reihe = b.kanal
      BY <1>3 DEF Passend
    <3>5. b.art = "eep" /\ b.ort = "zurueck" =>
              /\ \A j \in DOMAIN neu : neu[j].kanal \in DOMAIN f
                     /\ f[neu[j].kanal].eep = IF neu[j].kanal = b.kanal THEN b.wert ELSE neu[j].eep
              /\ \A k \in DOMAIN f : \E j \in DOMAIN neu : neu[j].kanal = k
      BY <1>1, <1>3, <2>2 DEF Passend
    <3> QED
      BY <3>1, <3>2, <3>3, <3>4, <3>5 DEF Passend
  <2> QED
    BY <1>3, <2>1, <2>2
<1> QED
  BY <1>2, <1>3

\* What holds of a dialog and the requests when a step neither writes nor sends
Ruhig(A, B, d, e) ==
    /\ Frisch(e) => /\ Frisch(d) /\ e.geraet = d.geraet /\ GleicheKanaele(d.reihen, e.reihen)
                    /\ \A i \in Plaetze : Schreibt(A[i], d.geraet) => Schreibt(B[i], d.geraet)
    /\ \A i \in Plaetze : B[i] # Frei /\ B[i].art \in Schreibend => Folgt(A[i], B[i], d, e)

LEMMA RuhigGut ==
    ASSUME NEW A, NEW B, NEW d, NEW e, NEW S, NEW G, NEW H, G \subseteq H,
           Spur(A, d, S, G), Ruhig(A, B, d, e)
    PROVE  Spur(B, e, S, H)
<1>0. /\ Frisch(e) => /\ Frisch(d) /\ e.geraet = d.geraet /\ GleicheKanaele(d.reihen, e.reihen)
                      /\ \A i \in Plaetze : Schreibt(A[i], d.geraet) => Schreibt(B[i], d.geraet)
      /\ \A i \in Plaetze : B[i] # Frei /\ B[i].art \in Schreibend => Folgt(A[i], B[i], d, e)
  BY DEF Ruhig
<1>1. ASSUME NEW i \in Plaetze, NEW g, Schreibt(B[i], g)
      PROVE  Schreibt(A[i], g) /\ A[i].art = B[i].art
  BY <1>0, <1>1 DEF Schreibt, Folgt
<1>2. Einzeln(B, H)
  BY <1>1 DEF Spur, Einzeln
<1>3. AusDialog(B, e)
  <2>1. ASSUME NEW i \in Plaetze, B[i] # Frei, B[i].art \in {"kanal_weg", "eep"}
        PROVE  IF B[i].hier THEN B[i].geraet = e.geraet ELSE B[i].reihe = Leer
    <3>1. Folgt(A[i], B[i], d, e)
      BY <1>0, <2>1 DEF Schreibend
    <3>2. IF A[i].hier THEN A[i].geraet = d.geraet ELSE A[i].reihe = Leer
      BY <2>1, <3>1 DEF Folgt, Spur, AusDialog
    <3> QED
      BY <3>1, <3>2 DEF Folgt
  <2>2. ASSUME Frisch(e), NEW i \in Plaetze, Schreibt(B[i], e.geraet)
        PROVE  B[i].hier /\ B[i].art \in {"speichern", "kanal_weg", "eep"}
    <3>1. Frisch(d) /\ Schreibt(A[i], d.geraet) /\ Folgt(A[i], B[i], d, e)
      BY <1>0, <1>1, <2>2 DEF Schreibt
    <3>2. A[i].hier /\ A[i].art \in {"speichern", "kanal_weg", "eep"}
      BY <3>1 DEF Spur, AusDialog
    <3> QED
      BY <2>2, <3>1, <3>2 DEF Folgt
  <2> QED
    BY <2>1, <2>2 DEF AusDialog
<1>4. Treu(B, S, H)
  <2>1. ASSUME NEW i \in Plaetze, B[i] # Frei, B[i].art \in {"speichern", "umkehren"}, B[i].ort = "hin",
               B[i].geraet \in DOMAIN S \ H
        PROVE  Erhaelt(B[i], S[B[i].geraet])
    <3>1. Folgt(A[i], B[i], d, e)
      BY <1>0, <2>1 DEF Schreibend
    <3>2. Erhaelt(A[i], S[A[i].geraet])
      BY <2>1, <3>1 DEF Folgt, Spur, Treu
    <3> QED
      BY <3>1, <3>2 DEF Folgt, Erhaelt
  <2> QED
    BY <2>1 DEF Treu
<1>5. ImBild(B, e, S, H)
  <2> SUFFICES ASSUME Frisch(e), e.geraet \in DOMAIN S \ H
               PROVE  /\ (\A i \in Plaetze : ~Schreibt(B[i], e.geraet)) => Spiegelt(e.reihen, S[e.geraet])
                      /\ \A i \in Plaetze : Schreibt(B[i], e.geraet) => Passend(B[i], e.reihen, S[e.geraet])
    BY DEF ImBild
  <2>1. /\ Frisch(d) /\ e.geraet = d.geraet /\ GleicheKanaele(d.reihen, e.reihen)
        /\ \A i \in Plaetze : Schreibt(A[i], d.geraet) => Schreibt(B[i], d.geraet)
    BY <1>0
  <2>2. /\ (\A i \in Plaetze : ~Schreibt(A[i], d.geraet)) => Spiegelt(d.reihen, S[d.geraet])
        /\ \A i \in Plaetze : Schreibt(A[i], d.geraet) => Passend(A[i], d.reihen, S[d.geraet])
    BY <2>1 DEF Spur, ImBild
  <2>3. (\A i \in Plaetze : ~Schreibt(B[i], e.geraet)) => Spiegelt(e.reihen, S[e.geraet])
    BY <2>1, <2>2, SpiegeltBleibt
  <2>4. ASSUME NEW i \in Plaetze, Schreibt(B[i], e.geraet)
        PROVE  Passend(B[i], e.reihen, S[e.geraet])
    <3>1. Schreibt(A[i], d.geraet) /\ Folgt(A[i], B[i], d, e)
      BY <1>0, <1>1, <2>1, <2>4 DEF Schreibt
    <3>2. Passend(A[i], d.reihen, S[d.geraet])
      BY <2>2, <3>1
    <3> QED
      BY <2>1, <3>1, <3>2, SpiegeltBleibt DEF Folgt
  <2> QED
    BY <2>3, <2>4
<1> QED
  BY <1>2, <1>3, <1>4, <1>5 DEF Spur

\* A request that writes may be sent if it is the only one of its device, or
\* disturbs it, and if it keeps what the server has.
Zulaessig(r, A, d, e, S, H) ==
    /\ r # Frei /\ r.art \in Schreibend /\ r.ort = "hin" /\ r.hier
    /\ r.art # "geraet_weg" /\ r.geraet \notin H => \A i \in Plaetze : ~Schreibt(A[i], r.geraet)
    /\ Frisch(e) /\ r.geraet = d.geraet => r.art \in {"speichern", "kanal_weg", "eep"}
    /\ r.art \in {"kanal_weg", "eep"} => r.geraet = d.geraet
    /\ r.art \in {"speichern", "umkehren"} /\ r.geraet \in DOMAIN S \ H => Erhaelt(r, S[r.geraet])
    /\ Frisch(e) /\ r.geraet = d.geraet /\ r.geraet \in DOMAIN S \ H /\ Spiegelt(d.reihen, S[r.geraet])
           => Passend(r, d.reihen, S[r.geraet])

Gesendet(r, A, B) ==
    \E p \in Plaetze : A[p] = Frei /\ B[p] = r /\ \A i \in Plaetze : i # p => B[i] = A[i]

LEMMA GesendetGut ==
    ASSUME NEW A, NEW B, NEW d, NEW e, NEW S, NEW G, NEW H, NEW r, G \subseteq H,
           Spur(A, d, S, G), Gesendet(r, A, B), Zulaessig(r, A, d, e, S, H),
           e.geraet = d.geraet, Frisch(e) => Frisch(d) /\ e.reihen = d.reihen
    PROVE  Spur(B, e, S, H)
<1>0. PICK p \in Plaetze : A[p] = Frei /\ B[p] = r /\ \A i \in Plaetze : i # p => B[i] = A[i]
  BY DEF Gesendet
<1>1. /\ r # Frei /\ r.art \in Schreibend /\ r.ort = "hin" /\ r.hier
      /\ r.art # "geraet_weg" /\ r.geraet \notin H => \A i \in Plaetze : ~Schreibt(A[i], r.geraet)
      /\ Frisch(e) /\ r.geraet = d.geraet => r.art \in {"speichern", "kanal_weg", "eep"}
      /\ r.art \in {"kanal_weg", "eep"} => r.geraet = d.geraet
      /\ r.art \in {"speichern", "umkehren"} /\ r.geraet \in DOMAIN S \ H => Erhaelt(r, S[r.geraet])
      /\ Frisch(e) /\ r.geraet = d.geraet /\ r.geraet \in DOMAIN S \ H /\ Spiegelt(d.reihen, S[r.geraet])
             => Passend(r, d.reihen, S[r.geraet])
  BY DEF Zulaessig
<1>2. \A i \in Plaetze : \A g : Schreibt(B[i], g) => (i # p /\ Schreibt(A[i], g)) \/ (i = p /\ r.geraet = g)
  BY <1>0 DEF Schreibt
<1>3. \A i \in Plaetze : \A g : Schreibt(A[i], g) => Schreibt(B[i], g)
  BY <1>0 DEF Schreibt
<1>4. Einzeln(B, H)
  <2>1. ASSUME NEW i \in Plaetze, NEW j \in Plaetze, NEW g \in Geraete \ H,
               Schreibt(B[i], g), B[i].art # "geraet_weg", Schreibt(B[j], g), B[j].art # "geraet_weg"
        PROVE  i = j
    <3>1. CASE i # p /\ j # p
      <4>1. Schreibt(A[i], g) /\ Schreibt(A[j], g) /\ B[i] = A[i] /\ B[j] = A[j] /\ g \in Geraete \ G
        BY <1>0, <1>2, <2>1, <3>1
      <4> QED
        BY <2>1, <4>1 DEF Spur, Einzeln
    <3>2. CASE i = p /\ j # p
      BY <1>0, <1>1, <1>2, <2>1, <3>2
    <3>3. CASE i # p /\ j = p
      BY <1>0, <1>1, <1>2, <2>1, <3>3
    <3> QED
      BY <3>1, <3>2, <3>3
  <2> QED
    BY <2>1 DEF Einzeln
<1>5. AusDialog(B, e)
  <2>1. ASSUME NEW i \in Plaetze, B[i] # Frei, B[i].art \in {"kanal_weg", "eep"}
        PROVE  IF B[i].hier THEN B[i].geraet = e.geraet ELSE B[i].reihe = Leer
    <3>1. CASE i = p
      BY <1>0, <1>1, <2>1, <3>1
    <3>2. CASE i # p
      BY <1>0, <2>1, <3>2 DEF Spur, AusDialog
    <3> QED
      BY <3>1, <3>2
  <2>2. ASSUME Frisch(e), NEW i \in Plaetze, Schreibt(B[i], e.geraet)
        PROVE  B[i].hier /\ B[i].art \in {"speichern", "kanal_weg", "eep"}
    <3>1. CASE i = p
      BY <1>0, <1>1, <1>2, <2>2, <3>1
    <3>2. CASE i # p
      BY <1>0, <1>2, <2>2, <3>2 DEF Spur, AusDialog
    <3> QED
      BY <3>1, <3>2
  <2> QED
    BY <2>1, <2>2 DEF AusDialog
<1>6. Treu(B, S, H)
  <2>1. ASSUME NEW i \in Plaetze, B[i] # Frei, B[i].art \in {"speichern", "umkehren"}, B[i].ort = "hin",
               B[i].geraet \in DOMAIN S \ H
        PROVE  Erhaelt(B[i], S[B[i].geraet])
    <3>1. CASE i = p
      BY <1>0, <1>1, <2>1, <3>1
    <3>2. CASE i # p
      BY <1>0, <2>1, <3>2 DEF Spur, Treu
    <3> QED
      BY <3>1, <3>2
  <2> QED
    BY <2>1 DEF Treu
<1>7. ImBild(B, e, S, H)
  <2> SUFFICES ASSUME Frisch(e), e.geraet \in DOMAIN S \ H
               PROVE  /\ (\A i \in Plaetze : ~Schreibt(B[i], e.geraet)) => Spiegelt(e.reihen, S[e.geraet])
                      /\ \A i \in Plaetze : Schreibt(B[i], e.geraet) => Passend(B[i], e.reihen, S[e.geraet])
    BY DEF ImBild
  <2>1. /\ (\A i \in Plaetze : ~Schreibt(A[i], d.geraet)) => Spiegelt(d.reihen, S[d.geraet])
        /\ \A i \in Plaetze : Schreibt(A[i], d.geraet) => Passend(A[i], d.reihen, S[d.geraet])
    BY DEF Spur, ImBild
  <2>2. (\A i \in Plaetze : ~Schreibt(B[i], e.geraet)) => Spiegelt(e.reihen, S[e.geraet])
    BY <1>3, <2>1
  <2>3. ASSUME NEW i \in Plaetze, Schreibt(B[i], e.geraet)
        PROVE  Passend(B[i], e.reihen, S[e.geraet])
    <3>1. CASE i = p
      <4>1. r.geraet = d.geraet /\ r.geraet \notin H /\ r.art # "geraet_weg"
        BY <1>1, <1>2, <2>3, <3>1
      <4>2. Spiegelt(d.reihen, S[r.geraet])
        BY <1>1, <2>1, <4>1
      <4> QED
        BY <1>0, <1>1, <3>1, <4>1, <4>2
    <3>2. CASE i # p
      BY <1>0, <1>2, <2>1, <2>3, <3>2
    <3> QED
      BY <3>1, <3>2
  <2> QED
    BY <2>2, <2>3
<1> QED
  BY <1>4, <1>5, <1>6, <1>7 DEF Spur

\* The registry after a request: other devices are as they were, and what the
\* dialog's own request does to its device, the rows allow for.
Bearbeitet(a, b, S, T) ==
    /\ b.art = a.art /\ b.geraet = a.geraet /\ b.kanal = a.kanal /\ b.wert = a.wert
    /\ b.hier = a.hier /\ b.reihe = a.reihe /\ b.ort \in {"zurueck", "fehler"}
    /\ \A h : h # a.geraet => (h \in DOMAIN T <=> h \in DOMAIN S) /\ (h \in DOMAIN S => T[h] = S[h])
    /\ a.art = "geraet_weg" => a.geraet \notin DOMAIN T
    /\ a.art \in {"kanal_weg", "eep"} /\ b.ort = "zurueck" =>
           a.geraet \in DOMAIN S /\ a.geraet \in DOMAIN T /\ a.kanal \in DOMAIN S[a.geraet]
    /\ a.art \in {"kanal_weg", "eep"} /\ b.ort = "fehler" => DOMAIN T = DOMAIN S
    /\ a.art = "kanal_weg" /\ b.ort = "zurueck" =>
           /\ DOMAIN T[a.geraet] = DOMAIN S[a.geraet] \ {a.kanal}
           /\ \A k \in DOMAIN T[a.geraet] : T[a.geraet][k].eep = S[a.geraet][k].eep
    /\ a.art = "eep" /\ b.ort = "zurueck" =>
           /\ DOMAIN T[a.geraet] = DOMAIN S[a.geraet]
           /\ \A k \in DOMAIN T[a.geraet] :
                 T[a.geraet][k].eep = IF k = a.kanal THEN a.wert ELSE S[a.geraet][k].eep

LEMMA PasstDanach ==
    ASSUME NEW a, NEW b, NEW S, NEW T, Bearbeitet(a, b, S, T), NEW rs, ReihenGut(rs),
           a.art \in {"speichern", "kanal_weg", "eep"}, a.ort = "hin",
           a.art # "speichern" /\ b.ort = "zurueck" => Passend(a, rs, S[a.geraet]),
           a.art = "eep" => a.reihe = a.kanal
    PROVE  Passend(b, rs, T[a.geraet])
<1> DEFINE f == S[a.geraet]
           t == T[a.geraet]
<1>1. CASE a.art = "speichern"
  BY <1>1 DEF Passend, Bearbeitet
<1>2. CASE b.ort = "fehler"
  BY <1>2 DEF Passend, Bearbeitet
<1>3. CASE a.art = "kanal_weg" /\ b.ort = "zurueck"
  <2>1. /\ Spiegelt(rs, f) /\ a.wert \in DOMAIN rs /\ rs[a.wert].kanal = a.kanal
        /\ DOMAIN t = DOMAIN f \ {a.kanal} /\ \A k \in DOMAIN t : t[k].eep = f[k].eep
    BY <1>3 DEF Passend, Bearbeitet
  <2> HIDE DEF f, t
  <2>2. /\ \A j \in DOMAIN rs : rs[j].kanal # a.kanal =>
               rs[j].kanal \in DOMAIN t /\ t[rs[j].kanal].eep = rs[j].eep
        /\ \A k \in DOMAIN t : k # a.kanal /\ \E j \in DOMAIN rs : rs[j].kanal = k
    BY <2>1 DEF Spiegelt
  <2>3. b.art = "kanal_weg" /\ b.wert = a.wert /\ b.kanal = a.kanal
    BY <1>3 DEF Bearbeitet
  <2>4. Passend(b, rs, t)
    BY <1>3, <2>1, <2>2, <2>3 DEF Passend
  <2> QED
    BY <2>4 DEF t
<1>4. CASE a.art = "eep" /\ b.ort = "zurueck"
  <2>1. /\ Spiegelt(rs, f)
        /\ DOMAIN t = DOMAIN f
        /\ \A k \in DOMAIN t : t[k].eep = IF k = a.kanal THEN a.wert ELSE f[k].eep
    BY <1>4 DEF Passend, Bearbeitet
  <2> HIDE DEF f, t
  <2>2. /\ \A j \in DOMAIN rs : rs[j].kanal \in DOMAIN t
               /\ t[rs[j].kanal].eep = IF rs[j].kanal = a.kanal THEN a.wert ELSE rs[j].eep
        /\ \A k \in DOMAIN t : \E j \in DOMAIN rs : rs[j].kanal = k
    BY <2>1 DEF Spiegelt
  <2>3. b.art = "eep" /\ b.wert = a.wert /\ b.kanal = a.kanal /\ b.reihe = b.kanal
    BY <1>4 DEF Bearbeitet
  <2>4. Passend(b, rs, t)
    BY <1>4, <2>2, <2>3 DEF Passend
  <2> QED
    BY <2>4 DEF t
<1> QED
  BY <1>1, <1>2, <1>3, <1>4 DEF Bearbeitet

LEMMA BearbeitetGut ==
    ASSUME NEW A, NEW B, NEW d, NEW S, NEW T, NEW G, NEW p \in Plaetze,
           Spur(A, d, S, G), A[p] # Frei, A[p].art \in Schreibend, A[p].ort = "hin",
           B[p] # Frei, A[p].geraet \in Geraete, Bearbeitet(A[p], B[p], S, T), ReihenGut(d.reihen),
           \A i \in Plaetze : i # p => B[i] = A[i]
    PROVE  Spur(B, d, T, G)
<1> DEFINE a == A[p]
           b == B[p]
           g == a.geraet
<1>0. /\ b.art = a.art /\ b.geraet = a.geraet /\ b.kanal = a.kanal /\ b.wert = a.wert
      /\ b.hier = a.hier /\ b.reihe = a.reihe /\ b.ort \in {"zurueck", "fehler"}
      /\ \A h : h # g => (h \in DOMAIN T <=> h \in DOMAIN S) /\ (h \in DOMAIN S => T[h] = S[h])
      /\ a.art = "geraet_weg" => g \notin DOMAIN T
      /\ a.art \in {"kanal_weg", "eep"} /\ b.ort = "zurueck" => g \in DOMAIN S
  BY DEF Bearbeitet
<1>1. \A i \in Plaetze : /\ B[i] = Frei <=> A[i] = Frei
                         /\ B[i].art = A[i].art /\ B[i].geraet = A[i].geraet
                         /\ B[i].hier = A[i].hier /\ B[i].reihe = A[i].reihe
  BY <1>0
<1>2. \A i \in Plaetze : \A h : Schreibt(B[i], h) <=> Schreibt(A[i], h)
  BY <1>1 DEF Schreibt
<1>3. Einzeln(B, G)
  BY <1>1, <1>2 DEF Spur, Einzeln
<1>4. AusDialog(B, d)
  BY <1>1, <1>2 DEF Spur, AusDialog
<1>5. Treu(B, T, G)
  <2>1. ASSUME NEW i \in Plaetze, B[i] # Frei, B[i].art \in {"speichern", "umkehren"}, B[i].ort = "hin",
               B[i].geraet \in DOMAIN T \ G
        PROVE  Erhaelt(B[i], T[B[i].geraet])
    <3>1. i # p /\ B[i] = A[i]
      BY <1>0, <2>1
    <3>2. CASE A[i].geraet = g
      <4>1. Schreibt(A[i], g) /\ Schreibt(a, g) /\ a.art # "geraet_weg" /\ A[i].art # "geraet_weg"
        BY <1>0, <2>1, <3>1, <3>2 DEF Schreibt, Schreibend
      <4>2. g \in Geraete \ G
        BY <2>1, <3>1, <3>2
      <4>3. i = p
        BY <4>1, <4>2 DEF Spur, Einzeln
      <4> QED
        BY <3>1, <4>3
    <3>3. CASE A[i].geraet # g
      <4>1. A[i].geraet \in DOMAIN S \ G /\ T[A[i].geraet] = S[A[i].geraet]
        BY <1>0, <2>1, <3>1, <3>3
      <4> QED
        BY <2>1, <3>1, <4>1 DEF Spur, Treu
    <3> QED
      BY <3>2, <3>3
  <2> QED
    BY <2>1 DEF Treu
<1>6. ImBild(B, d, T, G)
  <2> SUFFICES ASSUME Frisch(d), d.geraet \in DOMAIN T \ G
               PROVE  /\ (\A i \in Plaetze : ~Schreibt(B[i], d.geraet)) => Spiegelt(d.reihen, T[d.geraet])
                      /\ \A i \in Plaetze : Schreibt(B[i], d.geraet) => Passend(B[i], d.reihen, T[d.geraet])
    BY DEF ImBild
  <2>1. CASE d.geraet # g
    <3>1. d.geraet \in DOMAIN S \ G /\ T[d.geraet] = S[d.geraet]
      BY <1>0, <2>1
    <3>2. /\ (\A i \in Plaetze : ~Schreibt(A[i], d.geraet)) => Spiegelt(d.reihen, S[d.geraet])
          /\ \A i \in Plaetze : Schreibt(A[i], d.geraet) => Passend(A[i], d.reihen, S[d.geraet])
      BY <3>1 DEF Spur, ImBild
    <3>3. \A i \in Plaetze : Schreibt(B[i], d.geraet) => i # p
      BY <1>0, <2>1 DEF Schreibt
    <3> QED
      BY <1>2, <3>1, <3>2, <3>3
  <2>2. CASE d.geraet = g
    <3>1. Schreibt(a, g) /\ a.art \in {"speichern", "kanal_weg", "eep"}
      <4>1. Schreibt(a, d.geraet)
        BY <2>2 DEF Schreibt
      <4> QED
        BY <2>2, <4>1 DEF Spur, AusDialog
    <3>2. ASSUME NEW i \in Plaetze, Schreibt(B[i], g) PROVE i = p
      <4>1. Schreibt(A[i], g)
        BY <1>2, <3>2
      <4>2. A[i].art \in {"speichern", "kanal_weg", "eep"}
        BY <2>2, <4>1 DEF Spur, AusDialog
      <4>3. g \in Geraete \ G
        BY <2>2
      <4> QED
        BY <3>1, <4>1, <4>2, <4>3 DEF Spur, Einzeln
    <3>3. Schreibt(B[p], g)
      BY <1>2, <3>1
    <3>4. g \in DOMAIN S => Passend(a, d.reihen, S[g])
      BY <2>2, <3>1 DEF Spur, ImBild
    <3>5. Passend(b, d.reihen, T[g])
      <4>1. CASE a.art \in {"kanal_weg", "eep"} /\ b.ort = "fehler"
        <5>1. g \in DOMAIN S
          BY <2>2, <4>1 DEF Bearbeitet
        <5> QED
          BY <1>0, <3>1, <3>4, <4>1, <5>1 DEF Passend
      <4>2. CASE a.art = "speichern"
        BY <1>0, <4>2 DEF Passend
      <4>3. CASE a.art \in {"kanal_weg", "eep"} /\ b.ort = "zurueck"
        <5>1. Passend(a, d.reihen, S[g])
          BY <1>0, <3>4, <4>3
        <5>2. a.art = "eep" => a.reihe = a.kanal
          BY <5>1 DEF Passend
        <5> HIDE DEF a, b
        <5> QED
          BY <3>1, <5>1, <5>2, PasstDanach DEF a, b
      <4> QED
        BY <1>0, <3>1, <4>1, <4>2, <4>3
    <3> QED
      BY <2>2, <3>2, <3>3, <3>5
  <2> QED
    BY <2>1, <2>2
<1> QED
  BY <1>3, <1>4, <1>5, <1>6 DEF Spur

\* The dialog shows the same device, and if its rows are still fresh, the same
\* channels.
DialogRuhig(d, e) ==
    e.geraet = d.geraet /\ (Frisch(e) => Frisch(d) /\ GleicheKanaele(d.reihen, e.reihen))

Schlicht(a) == a = Frei \/ a.art \notin Schreibend

LEMMA RuhigStandard ==
    ASSUME NEW A, NEW B, NEW d, NEW e, DialogRuhig(d, e),
           \A i \in Plaetze : \/ B[i] = A[i]
                              \/ Schlicht(B[i]) /\ (Frisch(e) => ~Schreibt(A[i], d.geraet))
    PROVE  Ruhig(A, B, d, e)
<1>1. ASSUME NEW i \in Plaetze, B[i] # Frei, B[i].art \in Schreibend
      PROVE  Folgt(A[i], B[i], d, e)
  BY <1>1 DEF Folgt, Schlicht, DialogRuhig
<1>2. ASSUME Frisch(e), NEW i \in Plaetze, Schreibt(A[i], d.geraet)
      PROVE  Schreibt(B[i], d.geraet)
  BY <1>2
<1> QED
  BY <1>1, <1>2 DEF Ruhig, DialogRuhig

\* The dialog's own change of its device has been answered, and the rows show it.
LEMMA BeantwortetGut ==
    ASSUME NEW A, NEW B, NEW d, NEW e, NEW S, NEW G, NEW p \in Plaetze,
           Spur(A, d, S, G), Schreibt(A[p], d.geraet), d.geraet \in Geraete,
           Frisch(d), e.geraet = d.geraet, Schlicht(B[p]),
           \A i \in Plaetze : i # p => B[i] = A[i] \/ (Schlicht(A[i]) /\ Schlicht(B[i])),
           d.geraet \in DOMAIN S \ G => Spiegelt(e.reihen, S[d.geraet])
    PROVE  Spur(B, e, S, G)
<1>1. ASSUME NEW i \in Plaetze, B[i] # Frei, B[i].art \in Schreibend
      PROVE  B[i] = A[i] /\ i # p
  BY <1>1 DEF Schlicht
<1>2. \A i \in Plaetze : \A g : Schreibt(B[i], g) => Schreibt(A[i], g) /\ B[i] = A[i] /\ i # p
  BY <1>1 DEF Schreibt
<1>3. Einzeln(B, G)
  BY <1>2 DEF Spur, Einzeln
<1>4. AusDialog(B, e)
  <2>1. \A i \in Plaetze : B[i] # Frei /\ B[i].art \in {"kanal_weg", "eep"} =>
           IF B[i].hier THEN B[i].geraet = e.geraet ELSE B[i].reihe = Leer
    BY <1>1 DEF Spur, AusDialog, Schreibend
  <2>2. \A i \in Plaetze : Schreibt(B[i], e.geraet) =>
           B[i].hier /\ B[i].art \in {"speichern", "kanal_weg", "eep"}
    BY <1>2 DEF Spur, AusDialog
  <2> QED
    BY <2>1, <2>2 DEF AusDialog
<1>5. Treu(B, S, G)
  <2>1. ASSUME NEW i \in Plaetze, B[i] # Frei, B[i].art \in {"speichern", "umkehren"}, B[i].ort = "hin",
               B[i].geraet \in DOMAIN S \ G
        PROVE  Erhaelt(B[i], S[B[i].geraet])
    <3>1. B[i] = A[i]
      BY <1>1, <2>1 DEF Schreibend
    <3> QED
      BY <2>1, <3>1 DEF Spur, Treu
  <2> QED
    BY <2>1 DEF Treu
<1>6. ImBild(B, e, S, G)
  <2>1. ASSUME d.geraet \notin G, NEW i \in Plaetze, Schreibt(B[i], d.geraet) PROVE FALSE
    <3>1. Schreibt(A[i], d.geraet) /\ i # p
      BY <1>2, <2>1
    <3>2. /\ A[i].art \in {"speichern", "kanal_weg", "eep"}
          /\ A[p].art \in {"speichern", "kanal_weg", "eep"}
      BY <3>1 DEF Spur, AusDialog
    <3> QED
      BY <2>1, <3>1, <3>2 DEF Spur, Einzeln
  <2> QED
    BY <2>1 DEF ImBild
<1> QED
  BY <1>3, <1>4, <1>5, <1>6 DEF Spur

LEMMA SpurAnkunft ==
    ASSUME IInv, Spur(anfrage, dialog, server, gestoert), NEW i \in Plaetze, Ankunft(i)
    PROVE  Spur(anfrage', dialog', server', gestoert')
<1>0. PICK a : a = anfrage[i]
  OBVIOUS
<1>1. /\ AntragGut(a) /\ a.ort = "hin" /\ server' = Danach(a)
      /\ \A j \in Plaetze : j # i => anfrage'[j] = anfrage[j]
      /\ a # Frei
  BY <1>0, AnkunftWirkt DEF IInv, Ankunft
<1>a. PICK beob \in SUBSET Ids :
          anfrage'[i] = [a EXCEPT !.wert = Erwidert(a, beob),
                         !.ort = IF Gelingt(a, beob) THEN "zurueck" ELSE "fehler"]
  BY <1>0, AnkunftWirkt DEF IInv
<1>2. dialog' = dialog /\ gestoert' = gestoert /\ RegisterGut(server) /\ DialogGut(dialog)
  BY DEF Ankunft, IInv
<1>3. PICK b : b = anfrage'[i]
  OBVIOUS
<1>4. /\ b.art = a.art /\ b.geraet = a.geraet /\ b.kanal = a.kanal /\ b.hier = a.hier /\ b.reihe = a.reihe
      /\ b.wert = Erwidert(a, beob)
      /\ b.ort = IF Gelingt(a, beob) THEN "zurueck" ELSE "fehler"
      /\ a.art \in Arten
  BY <1>1, <1>3, <1>a DEF AntragGut
<1>5. CASE a.art \notin Schreibend
  <2>1. server' = server
    BY <1>1, <1>5, DanachFaelle
  <2>2. Schlicht(a) /\ Schlicht(b) /\ ~Schreibt(a, dialog.geraet)
    BY <1>4, <1>5 DEF Schlicht, Schreibt
  <2>3. DialogRuhig(dialog, dialog)
    BY DEF DialogRuhig, GleicheKanaele
  <2>4. \A j \in Plaetze : \/ anfrage'[j] = anfrage[j]
                           \/ Schlicht(anfrage'[j]) /\ ~Schreibt(anfrage[j], dialog.geraet)
    BY <1>0, <1>1, <1>3, <2>2
  <2>5. Ruhig(anfrage, anfrage', dialog, dialog)
    BY <2>3, <2>4, RuhigStandard
  <2> QED
    BY <1>2, <2>1, <2>5, RuhigGut
<1>6. CASE a.art \in Schreibend
  <2>1. b.wert = a.wert /\ b # Frei /\ b.ort \in {"zurueck", "fehler"}
    <3>1. b.wert = a.wert
      BY <1>4, <1>6 DEF Erwidert, Schreibend
    <3>2. Frei.art = "frei"
      BY DEF Frei
    <3> QED
      BY <1>4, <1>6, <3>1, <3>2 DEF Schreibend
  <2>2. PICK S : S = server
    OBVIOUS
  <2>3. PICK T : T = server'
    OBVIOUS
  <2>4. a.geraet \in Geraete /\ WertGut(a.art, a.ort, a.wert)
    BY <1>1, <1>6 DEF AntragGut
  <2> DEFINE g == a.geraet
  <2>5. Bearbeitet(a, b, S, T)
    <3>5. CASE a.art \in {"speichern", "umkehren", "anlegen"}
      <4>1. PICK n : /\ LadungenGut(n)
                     /\ n = IF a.art = "anlegen" THEN a.wert ELSE a.wert.nutzlast
        BY <2>4, <3>5 DEF WertGut
      <4>2. T = Upsert(g, n)
        BY <1>1, <2>3, <3>5, <4>1, DanachFaelle
      <4>3. DOMAIN T = DOMAIN S \cup {g} /\ \A h \in DOMAIN S : h # g => T[h] = S[h]
        BY <1>2, <2>2, <2>4, <4>1, <4>2, UpsertWirkt
      <4> QED
        BY <1>4, <2>1, <3>5, <4>3 DEF Bearbeitet
    <3>6. CASE a.art = "geraet_weg" /\ g \in DOMAIN S
      <4>1. T = Weg(S, g)
        BY <1>1, <2>2, <2>3, <3>6, DanachFaelle
      <4>2. DOMAIN T = DOMAIN S \ {g} /\ \A h \in DOMAIN S : h # g => T[h] = S[h]
        BY <1>2, <2>2, <4>1, GeraetFehlt
      <4>3. Bearbeitet(a, b, S, T)
        BY <1>4, <2>1, <3>6, <4>2 DEF Bearbeitet
      <4> QED
        BY <4>3
    <3>7. CASE a.art = "kanal_weg" /\ HatKanal(g, a.kanal)
      <4>1. T = [S EXCEPT ![g] = Weg(@, a.kanal)]
        BY <1>1, <2>2, <2>3, <3>7, DanachFaelle
      <4>2. g \in DOMAIN S /\ a.kanal \in DOMAIN S[g]
        BY <2>2, <3>7 DEF HatKanal
      <4>3. /\ DOMAIN T = DOMAIN S /\ DOMAIN T[g] = DOMAIN S[g] \ {a.kanal}
            /\ \A h \in DOMAIN S : h # g => T[h] = S[h]
            /\ \A l \in DOMAIN S[g] : l # a.kanal => T[g][l] = S[g][l]
        BY <1>2, <2>2, <4>1, <4>2, KanalFehlt
      <4>4. b.ort = "zurueck"
        BY <1>4, <3>7 DEF Gelingt
      <4>5. Bearbeitet(a, b, S, T)
        BY <1>4, <2>1, <3>7, <4>2, <4>3, <4>4 DEF Bearbeitet
      <4> QED
        BY <4>5
    <3>8. CASE a.art = "eep" /\ HatKanal(g, a.kanal)
      <4>1. T = [S EXCEPT ![g][a.kanal].eep = a.wert]
        BY <1>1, <2>2, <2>3, <3>8, DanachFaelle
      <4>2. g \in DOMAIN S /\ a.kanal \in DOMAIN S[g] /\ a.wert \in Eeps
        BY <2>2, <2>4, <3>8 DEF HatKanal, WertGut
      <4>3. /\ DOMAIN T = DOMAIN S /\ DOMAIN T[g] = DOMAIN S[g] /\ T[g][a.kanal].eep = a.wert
            /\ \A h \in DOMAIN S : h # g => T[h] = S[h]
            /\ \A l \in DOMAIN S[g] : l # a.kanal => T[g][l] = S[g][l]
        BY <1>2, <2>2, <4>1, <4>2, EepGeaendert
      <4>4. b.ort = "zurueck"
        BY <1>4, <3>8 DEF Gelingt
      <4>5. Bearbeitet(a, b, S, T)
        BY <1>4, <2>1, <3>8, <4>2, <4>3, <4>4 DEF Bearbeitet
      <4> QED
        BY <4>5
    <3>9. CASE \/ a.art = "geraet_weg" /\ g \notin DOMAIN S
               \/ a.art \in {"kanal_weg", "eep"} /\ ~HatKanal(g, a.kanal)
      <4>1. T = S
        BY <1>1, <2>2, <2>3, <3>9, DanachFaelle
      <4>2. a.art \in {"kanal_weg", "eep"} => b.ort = "fehler"
        BY <1>4, <3>9 DEF Gelingt
      <4>3. Bearbeitet(a, b, S, T)
        BY <1>4, <2>1, <3>9, <4>1, <4>2 DEF Bearbeitet
      <4> QED
        BY <4>3
    <3> QED
      BY <1>6, <2>2, <3>5, <3>6, <3>7, <3>8, <3>9 DEF Schreibend
  <2>6. PICK A, B, d, G : A = anfrage /\ B = anfrage' /\ d = dialog /\ G = gestoert
    OBVIOUS
  <2>7. A[i] = a /\ B[i] = b /\ (\A j \in Plaetze : j # i => B[j] = A[j]) /\ ReihenGut(d.reihen)
    BY <1>0, <1>1, <1>2, <1>3, <2>6 DEF DialogGut
  <2>8. Spur(A, d, S, G)
    BY <2>2, <2>6
  <2>9. Spur(B, d, T, G)
    BY <1>1, <1>6, <2>1, <2>4, <2>5, <2>7, <2>8, BearbeitetGut
  <2> QED
    BY <1>2, <2>3, <2>6, <2>9
<1> QED
  BY <1>5, <1>6

\* A teach telegram that changes a device while it is written disturbs it, and
\* makes a dialog that shows it stale.
LEMMA SpurLerntelegramm ==
    ASSUME IInv, Spur(anfrage, dialog, server, gestoert),
           NEW g \in Geraete, NEW k \in Kanaele, NEW e \in Eeps, Lerntelegramm(g, k, e)
    PROVE  Spur(anfrage', dialog', server', gestoert')
<1>1. /\ HatKanal(g, k) /\ server' = [server EXCEPT ![g][k].eep = e] /\ anfrage' = anfrage
      /\ dialog' = [dialog EXCEPT !.alt = @ \/ dialog.geraet = g]
      /\ gestoert' = IF SchreibtAn(g) THEN gestoert \cup {g} ELSE gestoert
  BY DEF Lerntelegramm, Gestoert
<1>2. PICK A, d, S, G : A = anfrage /\ d = dialog /\ S = server /\ G = gestoert
  OBVIOUS
<1>3. PICK f, T, H : f = dialog' /\ T = server' /\ H = gestoert'
  OBVIOUS
<1>4. DialogGut(d) /\ RegisterGut(S) /\ g \in DOMAIN S /\ k \in DOMAIN S[g]
  BY <1>1, <1>2 DEF IInv, HatKanal
<1>5. DOMAIN T = DOMAIN S /\ \A h \in DOMAIN S : h # g => T[h] = S[h]
  <2>1. T = [S EXCEPT ![g][k].eep = e]
    BY <1>1, <1>2, <1>3
  <2> QED
    BY <1>4, <2>1, EepGeaendert
<1>6. f.geraet = d.geraet /\ f.reihen = d.reihen /\ (Frisch(f) => Frisch(d) /\ d.geraet # g)
  BY <1>1, <1>2, <1>3, <1>4 DEF DialogGut, Frisch
<1>7. G \subseteq H /\ (g \notin H => \A i \in Plaetze : ~Schreibt(A[i], g))
  BY <1>1, <1>2, <1>3 DEF SchreibtAn, Schreibt
<1>8. Spur(A, d, S, G)
  BY <1>2
<1>9. Einzeln(A, H)
  BY <1>7, <1>8 DEF Spur, Einzeln
<1>10. AusDialog(A, f)
  BY <1>6, <1>8 DEF Spur, AusDialog
<1>11. Treu(A, T, H)
  <2>1. ASSUME NEW i \in Plaetze, A[i] # Frei, A[i].art \in {"speichern", "umkehren"}, A[i].ort = "hin",
               A[i].geraet \in DOMAIN T \ H
        PROVE  Erhaelt(A[i], T[A[i].geraet])
    <3>1. A[i].geraet # g
      BY <1>7, <2>1 DEF Schreibt, Schreibend
    <3>2. A[i].geraet \in DOMAIN S \ G /\ T[A[i].geraet] = S[A[i].geraet]
      BY <1>5, <1>7, <2>1, <3>1
    <3> QED
      BY <1>8, <2>1, <3>2 DEF Spur, Treu
  <2> QED
    BY <2>1 DEF Treu
<1>12. ImBild(A, f, T, H)
  <2>1. ASSUME Frisch(f), f.geraet \in DOMAIN T \ H
        PROVE  /\ Frisch(d) /\ d.geraet \in DOMAIN S \ G /\ T[f.geraet] = S[d.geraet]
               /\ f.geraet = d.geraet /\ f.reihen = d.reihen
    BY <1>5, <1>6, <1>7, <2>1
  <2> QED
    BY <1>8, <2>1 DEF Spur, ImBild
<1>13. Spur(A, f, T, H)
  BY <1>9, <1>10, <1>11, <1>12 DEF Spur
<1> QED
  BY <1>1, <1>2, <1>3, <1>13

\* openEdit: stale, unless the list shows the device as it is and nobody writes.
LEMMA SpurOeffnen ==
    ASSUME IInv, Spur(anfrage, dialog, server, gestoert), NEW g \in Geraete, Oeffnen(g)
    PROVE  Spur(anfrage', dialog', server', gestoert')
<1>1. /\ anfrage' = Verwaist /\ Spiegelt(dialog'.reihen, liste[g])
      /\ dialog'.geraet = g /\ dialog'.alt = ~Aktuell(g)
      /\ server' = server /\ gestoert' = gestoert
  BY OeffnenWirkt DEF Oeffnen
<1>2. PICK A, d, S, G : A = anfrage /\ d = dialog /\ S = server /\ G = gestoert
  OBVIOUS
<1>3. PICK B, e : B = anfrage' /\ e = dialog'
  OBVIOUS
<1>4. \A i \in Plaetze : B[i] = IF A[i] = Frei THEN Frei ELSE [A[i] EXCEPT !.reihe = Leer, !.hier = FALSE]
  BY <1>1, <1>2, <1>3, VerwaistWirkt DEF IInv
<1>5. ASSUME NEW i \in Plaetze, B[i] # Frei
      PROVE  /\ A[i] # Frei /\ B[i].art = A[i].art /\ B[i].geraet = A[i].geraet /\ B[i].kanal = A[i].kanal
             /\ B[i].wert = A[i].wert /\ B[i].ort = A[i].ort /\ B[i].reihe = Leer /\ ~B[i].hier
  <2>1. A[i] # Frei /\ B[i] = [A[i] EXCEPT !.reihe = Leer, !.hier = FALSE]
    BY <1>4, <1>5
  <2>2. AntragGut(A[i])
    BY <1>2, <2>1 DEF IInv, AnfragenGut
  <2> QED
    BY <2>1, <2>2 DEF AntragGut
<1>6. \A i \in Plaetze : \A h : Schreibt(B[i], h) => Schreibt(A[i], h) /\ B[i].art = A[i].art
  BY <1>5 DEF Schreibt
<1>7. Frisch(e) => /\ \A i \in Plaetze : ~Schreibt(A[i], g)
                   /\ liste[g] = S[g]
  BY <1>1, <1>2, <1>3 DEF Frisch, Aktuell, SchreibtAn, Schreibt
<1>8. Spur(A, d, S, G)
  BY <1>2
<1>9. Einzeln(B, G)
  BY <1>6, <1>8 DEF Spur, Einzeln
<1>10. AusDialog(B, e)
  <2>1. \A i \in Plaetze : B[i] # Frei /\ B[i].art \in {"kanal_weg", "eep"} =>
           IF B[i].hier THEN B[i].geraet = e.geraet ELSE B[i].reihe = Leer
    BY <1>5
  <2>2. Frisch(e) => \A i \in Plaetze : ~Schreibt(B[i], e.geraet)
    BY <1>1, <1>3, <1>6, <1>7
  <2> QED
    BY <2>1, <2>2 DEF AusDialog
<1>11. Treu(B, S, G)
  <2>1. ASSUME NEW i \in Plaetze, B[i] # Frei, B[i].art \in {"speichern", "umkehren"}, B[i].ort = "hin",
               B[i].geraet \in DOMAIN S \ G
        PROVE  Erhaelt(B[i], S[B[i].geraet])
    <3>1. Erhaelt(A[i], S[A[i].geraet])
      BY <1>5, <1>8, <2>1 DEF Spur, Treu
    <3> QED
      BY <1>5, <2>1, <3>1 DEF Erhaelt
  <2> QED
    BY <2>1 DEF Treu
<1>12. ImBild(B, e, S, G)
  BY <1>1, <1>3, <1>6, <1>7 DEF ImBild
<1>13. Spur(B, e, S, G)
  BY <1>9, <1>10, <1>11, <1>12 DEF Spur
<1> QED
  BY <1>1, <1>2, <1>3, <1>13

\* A step that leaves the registry, sends nothing that writes, and in which no
\* write to the device shown by a fresh dialog comes back.
LEMMA SpurRuhig ==
    ASSUME Spur(anfrage, dialog, server, gestoert), server' = server, gestoert \subseteq gestoert',
           Ruhig(anfrage, anfrage', dialog, dialog')
    PROVE  Spur(anfrage', dialog', server', gestoert')
BY RuhigGut

\* A request on its way, seen as one more in its place
LEMMA AbschickenGesendet ==
    ASSUME AnfragenGut(anfrage), NEW art, NEW g, NEW k, NEW w, Abschicken(anfrage, art, g, k, w)
    PROVE  Gesendet([art |-> art, ort |-> "hin", geraet |-> g, kanal |-> k,
                     wert |-> w, reihe |-> k, hier |-> TRUE], anfrage, anfrage')
<1> DEFINE r == [art |-> art, ort |-> "hin", geraet |-> g, kanal |-> k,
                 wert |-> w, reihe |-> k, hier |-> TRUE]
<1>1. PICK i \in Plaetze : anfrage[i] = Frei /\ anfrage' = [anfrage EXCEPT ![i] = r]
  BY DEF Abschicken
<1>2. DOMAIN anfrage = Plaetze
  BY DEF AnfragenGut
<1> HIDE DEF r
<1>3. anfrage'[i] = r /\ \A j \in Plaetze : j # i => anfrage'[j] = anfrage[j]
  BY <1>1, <1>2
<1>4. Gesendet(r, anfrage, anfrage')
  BY <1>1, <1>3 DEF Gesendet
<1> QED
  BY <1>4 DEF r

\* Requests that read
LEMMA SpurLesen ==
    ASSUME AnfragenGut(anfrage), Spur(anfrage, dialog, server, gestoert),
           server' = server, gestoert' = gestoert, DialogRuhig(dialog, dialog'),
           NEW art, NEW g, NEW k, NEW w, Abschicken(anfrage, art, g, k, w), art \notin Schreibend
    PROVE  Spur(anfrage', dialog', server', gestoert')
<1>1. PICK i \in Plaetze : /\ anfrage[i] = Frei
                           /\ anfrage'[i] = [art |-> art, ort |-> "hin", geraet |-> g, kanal |-> k,
                                             wert |-> w, reihe |-> k, hier |-> TRUE]
                           /\ \A j \in Plaetze : j # i => anfrage'[j] = anfrage[j]
  BY AbschickenGesendet DEF Gesendet
<1>2. Schlicht(anfrage'[i]) /\ ~Schreibt(anfrage[i], dialog.geraet)
  BY <1>1 DEF Schlicht, Schreibt
<1>3. Ruhig(anfrage, anfrage', dialog, dialog')
  BY <1>1, <1>2, RuhigStandard
<1> QED
  BY <1>3, SpurRuhig

\* Requests that write
LEMMA SpurSendet ==
    ASSUME Spur(anfrage, dialog, server, gestoert), server' = server, gestoert \subseteq gestoert',
           dialog'.geraet = dialog.geraet,
           Frisch(dialog') => Frisch(dialog) /\ dialog'.reihen = dialog.reihen,
           NEW r, Gesendet(r, anfrage, anfrage'),
           Zulaessig(r, anfrage, dialog, dialog', server, gestoert')
    PROVE  Spur(anfrage', dialog', server', gestoert')
BY GesendetGut

LEMMA SpurUmkehren ==
    ASSUME IInv, Spur(anfrage, dialog, server, gestoert),
           NEW g \in Geraete, NEW k \in Kanaele, Umkehren(g, k)
    PROVE  Spur(anfrage', dialog', server', gestoert')
<1>1. /\ ~dialog.offen /\ dialog' = dialog /\ server' = server
      /\ gestoert' = IF ~Aktuell(g) THEN gestoert \cup {g} ELSE gestoert
  BY DEF Umkehren, Gestoert
<1>0. PICK i \in Plaetze : \E w :
          /\ anfrage[i] = Frei
          /\ anfrage'[i] = [art |-> "umkehren", ort |-> "hin", geraet |-> g,
                 kanal |-> k, wert |-> w, reihe |-> k, hier |-> TRUE]
          /\ \A j \in Plaetze : j # i => anfrage'[j] = anfrage[j]
          /\ WieListe(w.nutzlast, liste[g], k)
  BY UmkehrenWirkt
<1>2. PICK w :
          /\ anfrage[i] = Frei
          /\ anfrage'[i] = [art |-> "umkehren", ort |-> "hin", geraet |-> g,
                 kanal |-> k, wert |-> w, reihe |-> k, hier |-> TRUE]
          /\ \A j \in Plaetze : j # i => anfrage'[j] = anfrage[j]
          /\ WieListe(w.nutzlast, liste[g], k)
  BY <1>0
<1> DEFINE r == [art |-> "umkehren", ort |-> "hin", geraet |-> g,
                 kanal |-> k, wert |-> w, reihe |-> k, hier |-> TRUE]
<1>3. Gesendet(r, anfrage, anfrage')
  BY <1>2 DEF Gesendet
<1>4. g \notin gestoert' => liste[g] = server[g] /\ \A j \in Plaetze : ~Schreibt(anfrage[j], g)
  BY <1>1 DEF Aktuell, SchreibtAn, Schreibt
<1>5. /\ r.art = "umkehren" /\ r.ort = "hin" /\ r.geraet = g /\ r.kanal = k /\ r.wert = w /\ r.hier
      /\ r # Frei
  BY DEF Frei
<1> HIDE DEF r
<1>6. g \notin gestoert' => Erhaelt(r, server[g])
  BY <1>2, <1>4, <1>5 DEF Erhaelt, WieListe
<1>7. Zulaessig(r, anfrage, dialog, dialog', server, gestoert')
  BY <1>1, <1>4, <1>5, <1>6 DEF Zulaessig, Schreibend, Frisch
<1> QED
  BY <1>1, <1>3, <1>7, SpurSendet

LEMMA SpurSpeichern ==
    ASSUME IInv, Spur(anfrage, dialog, server, gestoert), Speichern
    PROVE  Spur(anfrage', dialog', server', gestoert')
<1> DEFINE g == dialog.geraet
           rs == dialog.reihen
           n == Serialisiert(g, rs)
           w == [bild |-> rs, nutzlast |-> n]
           r == [art |-> "speichern", ort |-> "hin", geraet |-> g, kanal |-> Leer,
                 reihe |-> Leer, hier |-> TRUE, wert |-> w]
<1>1. /\ dialog.offen /\ dialog.modus = "edit" /\ server' = server
      /\ dialog' = [dialog EXCEPT !.saving = TRUE]
      /\ gestoert' = IF dialog.alt \/ SchreibtAn(g) \/ ListeVeraltet(g)
                     THEN gestoert \cup {g} ELSE gestoert
  BY DEF Speichern, Gestoert
<1>2. DialogGut(dialog) /\ ReihenGut(rs) /\ IstRegister(liste)
  BY DEF IInv, DialogGut, RegisterGut
<1>3. dialog'.geraet = g /\ dialog'.reihen = rs /\ (Frisch(dialog') => Frisch(dialog))
  BY <1>1, <1>2 DEF DialogGut, Frisch
<1>4. Gesendet(r, anfrage, anfrage')
  BY SpeichernWirkt DEF Gesendet
<1>5. g \notin gestoert' => /\ Frisch(dialog) /\ ~ListeVeraltet(g) /\ g \notin gestoert
                            /\ \A j \in Plaetze : ~Schreibt(anfrage[j], g)
  BY <1>1 DEF SchreibtAn, Schreibt, Frisch
<1>6. /\ \A j \in DOMAIN rs : /\ rs[j].kanal \in DOMAIN n
                              /\ n[rs[j].kanal].eep = rs[j].eep
                              /\ n[rs[j].kanal].invert = Invert(g, rs[j].kanal)
      /\ \A k \in DOMAIN n : \E j \in DOMAIN rs : rs[j].kanal = k
  <2>1. AusReihen(n, g, rs)
    BY <1>2, SerialisiertWirkt
  <2> HIDE DEF n
  <2> QED
    BY <2>1 DEF AusReihen
<1>7. /\ r.art = "speichern" /\ r.ort = "hin" /\ r.geraet = g /\ r.wert.nutzlast = n /\ r.hier
      /\ r # Frei
  BY DEF Frei
<1> HIDE DEF r, n
<1>8. ASSUME g \in DOMAIN server \ gestoert' PROVE Erhaelt(r, server[g])
  <2>1. Spiegelt(rs, server[g])
    BY <1>5, <1>8 DEF Spur, ImBild
  <2>2. \A j \in DOMAIN rs : rs[j].kanal \in DOMAIN server[g] =>
            server[g][rs[j].kanal].invert = Invert(g, rs[j].kanal)
    BY <1>5, <1>8 DEF ListeVeraltet
  <2>3. PICK f : f = server[g]
    OBVIOUS
  <2>4. /\ \A j \in DOMAIN rs : /\ rs[j].kanal \in DOMAIN f /\ f[rs[j].kanal].eep = rs[j].eep
                                /\ f[rs[j].kanal].invert = Invert(g, rs[j].kanal)
        /\ \A k \in DOMAIN f : \E j \in DOMAIN rs : rs[j].kanal = k
    BY <2>1, <2>2, <2>3 DEF Spiegelt
  <2>5. DOMAIN n = DOMAIN f
    BY <1>6, <2>4
  <2>6. ASSUME NEW k \in DOMAIN f PROVE n[k].eep = f[k].eep /\ n[k].invert = f[k].invert
    BY <1>6, <2>4
  <2>7. Erhaelt(r, f)
    BY <1>7, <2>5, <2>6 DEF Erhaelt
  <2> QED
    BY <2>3, <2>7
<1>9. Zulaessig(r, anfrage, dialog, dialog', server, gestoert')
  <2>1. \A f : Passend(r, rs, f)
    BY <1>7 DEF Passend
  <2> QED
    BY <1>5, <1>7, <1>8, <2>1 DEF Zulaessig, Schreibend
<1> QED
  BY <1>1, <1>3, <1>4, <1>9, SpurSendet

LEMMA SpurSchreiben ==
    ASSUME IInv, Spur(anfrage, dialog, server, gestoert),
           \/ \E g \in Geraete : Anlegen(g) \/ GeraetLoeschen(g)
           \/ \E j \in DOMAIN dialog.reihen : KanalLoeschen(j) \/ \E e \in Eeps : EepWechseln(j, e)
    PROVE  Spur(anfrage', dialog', server', gestoert')
<1>0. DialogGut(dialog) /\ AnfragenGut(anfrage)
  BY DEF IInv
<1>1. ASSUME NEW g \in Geraete, Anlegen(g) PROVE Spur(anfrage', dialog', server', gestoert')
  <2>1. PICK w : Abschicken(anfrage, "anlegen", g, Leer, w)
    BY <1>1 DEF Anlegen
  <2>2. /\ dialog.modus = "add" /\ dialog' = [dialog EXCEPT !.saving = TRUE] /\ server' = server
        /\ gestoert' = IF SchreibtAn(g) THEN gestoert \cup {g} ELSE gestoert
    BY <1>1 DEF Anlegen, Gestoert
  <2>3. dialog'.geraet = dialog.geraet /\ ~Frisch(dialog')
    BY <1>0, <2>2 DEF DialogGut, Frisch
  <2>4. g \notin gestoert' => \A j \in Plaetze : ~Schreibt(anfrage[j], g)
    BY <2>2 DEF SchreibtAn, Schreibt
  <2> DEFINE r == [art |-> "anlegen", ort |-> "hin", geraet |-> g, kanal |-> Leer,
                   wert |-> w, reihe |-> Leer, hier |-> TRUE]
  <2>5. Gesendet(r, anfrage, anfrage')
    BY <1>0, <2>1, AbschickenGesendet
  <2>6. Zulaessig(r, anfrage, dialog, dialog', server, gestoert')
    <3>1. r # Frei /\ r.art = "anlegen" /\ r.ort = "hin" /\ r.geraet = g /\ r.hier
      BY DEF Frei
    <3> HIDE DEF r
    <3> QED
      BY <2>3, <2>4, <3>1 DEF Zulaessig, Schreibend
  <2> QED
    BY <2>2, <2>3, <2>5, <2>6, SpurSendet
<1>2. ASSUME NEW g \in Geraete, GeraetLoeschen(g) PROVE Spur(anfrage', dialog', server', gestoert')
  <2>1. /\ ~dialog.offen /\ dialog' = dialog /\ server' = server /\ gestoert' = gestoert
        /\ Abschicken(anfrage, "geraet_weg", g, Leer, Nichts)
    BY <1>2 DEF GeraetLoeschen
  <2> DEFINE r == [art |-> "geraet_weg", ort |-> "hin", geraet |-> g, kanal |-> Leer,
                   wert |-> Nichts, reihe |-> Leer, hier |-> TRUE]
  <2>2. Gesendet(r, anfrage, anfrage')
    BY <1>0, <2>1, AbschickenGesendet
  <2>3. Zulaessig(r, anfrage, dialog, dialog', server, gestoert')
    <3>1. r # Frei /\ r.art = "geraet_weg" /\ r.ort = "hin" /\ r.geraet = g /\ r.hier
      BY DEF Frei
    <3> HIDE DEF r
    <3> QED
      BY <2>1, <3>1 DEF Zulaessig, Schreibend, Frisch
  <2> QED
    BY <2>1, <2>2, <2>3, SpurSendet
<1>3. ASSUME NEW j \in DOMAIN dialog.reihen, KanalLoeschen(j)
      PROVE  Spur(anfrage', dialog', server', gestoert')
  <2> DEFINE g == dialog.geraet
             k == dialog.reihen[j].kanal
             r == [art |-> "kanal_weg", ort |-> "hin", geraet |-> g, kanal |-> k,
                   wert |-> j, reihe |-> k, hier |-> TRUE]
  <2>1. /\ dialog' = dialog /\ server' = server
        /\ gestoert' = IF SchreibtAn(g) THEN gestoert \cup {g} ELSE gestoert
        /\ Abschicken(anfrage, "kanal_weg", g, k, j)
    BY <1>3 DEF KanalLoeschen, Gestoert
  <2>2. Gesendet(r, anfrage, anfrage')
    BY <1>0, <2>1, AbschickenGesendet
  <2>3. g \notin gestoert' => \A i \in Plaetze : ~Schreibt(anfrage[i], g)
    BY <2>1 DEF SchreibtAn, Schreibt
  <2>4. /\ r # Frei /\ r.art = "kanal_weg" /\ r.ort = "hin" /\ r.geraet = g /\ r.hier
        /\ r.wert = j /\ r.kanal = k
    BY DEF Frei
  <2>5. Zulaessig(r, anfrage, dialog, dialog', server, gestoert')
    <3> HIDE DEF r
    <3>1. Spiegelt(dialog.reihen, server[g]) => Passend(r, dialog.reihen, server[g])
      BY <1>3, <2>4 DEF Passend
    <3> QED
      BY <2>3, <2>4, <3>1 DEF Zulaessig, Schreibend
  <2> QED
    BY <2>1, <2>2, <2>5, SpurSendet
<1>4. ASSUME NEW j \in DOMAIN dialog.reihen, NEW e \in Eeps, EepWechseln(j, e)
      PROVE  Spur(anfrage', dialog', server', gestoert')
  <2> DEFINE g == dialog.geraet
             k == dialog.reihen[j].kanal
             r == [art |-> "eep", ort |-> "hin", geraet |-> g, kanal |-> k,
                   wert |-> e, reihe |-> k, hier |-> TRUE]
  <2>1. /\ dialog' = dialog /\ server' = server
        /\ gestoert' = IF SchreibtAn(g) THEN gestoert \cup {g} ELSE gestoert
        /\ Abschicken(anfrage, "eep", g, k, e)
    BY <1>4 DEF EepWechseln, Gestoert
  <2>2. Gesendet(r, anfrage, anfrage')
    BY <1>0, <2>1, AbschickenGesendet
  <2>3. g \notin gestoert' => \A i \in Plaetze : ~Schreibt(anfrage[i], g)
    BY <2>1 DEF SchreibtAn, Schreibt
  <2>4. /\ r # Frei /\ r.art = "eep" /\ r.ort = "hin" /\ r.geraet = g /\ r.hier
        /\ r.reihe = k /\ r.kanal = k
    BY DEF Frei
  <2>5. Zulaessig(r, anfrage, dialog, dialog', server, gestoert')
    <3> HIDE DEF r
    <3>1. Spiegelt(dialog.reihen, server[g]) => Passend(r, dialog.reihen, server[g])
      BY <2>4 DEF Passend
    <3> QED
      BY <2>3, <2>4, <3>1 DEF Zulaessig, Schreibend
  <2> QED
    BY <2>1, <2>2, <2>5, SpurSendet
<1> QED
  BY <1>1, <1>2, <1>3, <1>4

\* Opening the form for a new device, editing rows, closing the dialog
LEMMA SpurBedienen ==
    ASSUME IInv, Spur(anfrage, dialog, server, gestoert),
           \/ OeffnenNeu \/ Schliessen \/ SpeichernOhneGeraet \/ NurSender
           \/ ReiheDazu \/ \E j \in DOMAIN dialog.reihen : ReiheWeg(j)
    PROVE  Spur(anfrage', dialog', server', gestoert')
<1>0. DialogGut(dialog) /\ AnfragenGut(anfrage)
  BY DEF IInv
<1>1. CASE OeffnenNeu
  <2>1. /\ anfrage' = Verwaist /\ server' = server /\ gestoert' = gestoert
        /\ dialog'.modus = "add"
    BY <1>1, OeffnenNeuWirkt DEF OeffnenNeu
  <2>2. ~Frisch(dialog')
    BY <2>1 DEF Frisch
  <2>3. ASSUME NEW i \in Plaetze, anfrage'[i] # Frei
        PROVE  Folgt(anfrage[i], anfrage'[i], dialog, dialog')
    <3>1. anfrage[i] # Frei /\ anfrage'[i] = [anfrage[i] EXCEPT !.reihe = Leer, !.hier = FALSE]
      BY <1>0, <2>1, <2>3, VerwaistWirkt
    <3>2. AntragGut(anfrage[i])
      BY <1>0, <3>1 DEF AnfragenGut
    <3> QED
      BY <2>2, <3>1, <3>2 DEF Folgt, AntragGut
  <2>4. Ruhig(anfrage, anfrage', dialog, dialog')
    BY <2>2, <2>3 DEF Ruhig
  <2> QED
    BY <2>1, <2>4, SpurRuhig
<1>2. ASSUME anfrage' = anfrage, server' = server, gestoert' = gestoert, DialogRuhig(dialog, dialog')
      PROVE  Spur(anfrage', dialog', server', gestoert')
  <2>1. Ruhig(anfrage, anfrage', dialog, dialog')
    BY <1>2, RuhigStandard
  <2> QED
    BY <1>2, <2>1, SpurRuhig
<1>3. CASE Schliessen \/ SpeichernOhneGeraet
  <2>1. /\ dialog' = [dialog EXCEPT !.offen = FALSE] /\ anfrage' = anfrage
        /\ server' = server /\ gestoert' = gestoert
    BY <1>3 DEF Schliessen, SpeichernOhneGeraet
  <2>2. dialog'.geraet = dialog.geraet /\ ~Frisch(dialog')
    BY <1>0, <2>1 DEF DialogGut, Frisch
  <2> QED
    BY <1>2, <2>1, <2>2 DEF DialogRuhig
<1>4. ASSUME NEW rs, Reihen(rs), dialog.modus = "add" \/ GleicheKanaele(dialog.reihen, rs)
      PROVE  Spur(anfrage', dialog', server', gestoert')
  <2>1. /\ dialog' = [dialog EXCEPT !.reihen = rs] /\ anfrage' = anfrage
        /\ server' = server /\ gestoert' = gestoert
    BY <1>4 DEF Reihen
  <2>2. Rahmen(dialog, dialog') /\ dialog'.reihen = rs
    BY <1>0, <2>1, MitReihenRahmen
  <2>3. DialogRuhig(dialog, dialog')
    BY <1>4, <2>2 DEF DialogRuhig, Rahmen, Frisch
  <2> QED
    BY <1>2, <2>1, <2>3
<1>5. CASE NurSender
  BY <1>4, <1>5 DEF NurSender
<1>6. CASE ReiheDazu \/ \E j \in DOMAIN dialog.reihen : ReiheWeg(j)
  BY <1>4, <1>6, ReihenzahlSchritt
<1> QED
  BY <1>1, <1>3, <1>5, <1>6

\* An answer gives its place free; another request takes it, or takes another.
LEMMA AntwortPlaetze ==
    ASSUME AnfragenGut(anfrage), NEW i \in Plaetze, Antwort(i), anfrage[i].art # "vorlage"
    PROVE  /\ Schlicht(anfrage'[i])
           /\ \A j \in Plaetze : j # i =>
                  anfrage'[j] = anfrage[j] \/ (Schlicht(anfrage[j]) /\ Schlicht(anfrage'[j]))
<1>0. PICK A, B, a : A = anfrage /\ B = anfrage' /\ a = A[i]
  OBVIOUS
<1>1. AnfragenGut(A) /\ DOMAIN A = Plaetze /\ a # Frei /\ AntragGut(a)
  BY <1>0 DEF AnfragenGut, Antwort
<1>2. \/ Abschicken(Erledigt(i), "liste", Keins, Leer, Nichts)
      \/ B = [A EXCEPT ![i].art = "paarung", ![i].ort = "hin", ![i].wert = a.wert.id]
      \/ B = [A EXCEPT ![i] = Frei]
  BY <1>0 DEF Antwort, Erledigt
<1>3. "liste" \notin Schreibend /\ "paarung" \notin Schreibend
  BY DEF Schreibend
<1>4. CASE Abschicken(Erledigt(i), "liste", Keins, Leer, Nichts)
  <2>1. PICK C : C = [A EXCEPT ![i] = Frei]
    OBVIOUS
  <2> DEFINE r == [art |-> "liste", ort |-> "hin", geraet |-> Keins, kanal |-> Leer,
                   wert |-> Nichts, reihe |-> Leer, hier |-> TRUE]
  <2>2. PICK p \in Plaetze : C[p] = Frei /\ B = [C EXCEPT ![p] = r]
    BY <1>0, <1>4, <2>1 DEF Abschicken, Erledigt
  <2>3. DOMAIN C = Plaetze /\ C[i] = Frei /\ \A j \in Plaetze : j # i => C[j] = A[j]
    BY <1>1, <2>1
  <2>4. Schlicht(r)
    BY <1>3 DEF Schlicht
  <2> HIDE DEF r
  <2>5. \A j \in Plaetze : B[j] = IF j = p THEN r ELSE C[j]
    BY <2>2, <2>3
  <2> QED
    BY <1>0, <2>2, <2>3, <2>4, <2>5 DEF Schlicht
<1>5. CASE B = [A EXCEPT ![i].art = "paarung", ![i].ort = "hin", ![i].wert = a.wert.id]
  <2>1. B[i] = [a EXCEPT !.art = "paarung", !.ort = "hin", !.wert = a.wert.id]
        /\ \A j \in Plaetze : j # i => B[j] = A[j]
    BY <1>0, <1>1, <1>5
  <2>2. B[i].art = "paarung"
    BY <1>1, <2>1 DEF AntragGut
  <2> QED
    BY <1>0, <1>3, <2>1, <2>2 DEF Schlicht
<1>6. CASE B = [A EXCEPT ![i] = Frei]
  BY <1>0, <1>1, <1>6 DEF Schlicht
<1> QED
  BY <1>2, <1>4, <1>5, <1>6

\* Where rows are replaced by a template's, the dialog is stale.
LEMMA SpurVorlage ==
    ASSUME IInv, Spur(anfrage, dialog, server, gestoert), NEW i \in Plaetze,
           anfrage' = [OhneReihe EXCEPT ![i] = Frei], dialog' = MitVorlage,
           server' = server, gestoert' = gestoert
    PROVE  Spur(anfrage', dialog', server', gestoert')
<1>0. DialogGut(dialog) /\ AnfragenGut(anfrage)
  BY DEF IInv
<1>1. ~Frisch(dialog') /\ dialog'.geraet = dialog.geraet
  BY <1>0, MitVorlageGut DEF Frisch
<1>2. ASSUME NEW j \in Plaetze, anfrage'[j] # Frei
      PROVE  Folgt(anfrage[j], anfrage'[j], dialog, dialog')
  <2>0. DOMAIN OhneReihe = Plaetze
    BY <1>0, VerwaistWirkt DEF AnfragenGut
  <2>1. anfrage'[j] = OhneReihe[j]
    BY <1>2, <2>0
  <2>2. anfrage[j] # Frei /\ anfrage'[j] = [anfrage[j] EXCEPT !.reihe = Leer]
    BY <1>0, <1>2, <2>1, VerwaistWirkt
  <2>3. AntragGut(anfrage[j])
    BY <1>0, <2>2 DEF AnfragenGut
  <2> QED
    BY <1>1, <2>2, <2>3 DEF Folgt, AntragGut
<1>3. Ruhig(anfrage, anfrage', dialog, dialog')
  BY <1>1, <1>2 DEF Ruhig
<1> QED
  BY <1>3, SpurRuhig

LEMMA SpurFehlschlag ==
    ASSUME IInv, Spur(anfrage, dialog, server, gestoert), NEW i \in Plaetze, Fehlschlag(i)
    PROVE  Spur(anfrage', dialog', server', gestoert')
<1>0. DialogGut(dialog) /\ AnfragenGut(anfrage) /\ DOMAIN anfrage = Plaetze
  BY DEF IInv, AnfragenGut
<1>1. PICK a : a = anfrage[i]
  OBVIOUS
<1>2. a # Frei /\ server' = server /\ gestoert' = gestoert /\ a.art \in Arten
  BY <1>0, <1>1, AntragForm DEF Fehlschlag, AnfragenGut
<1>3. CASE a.art = "vorlage"
  BY <1>1, <1>2, <1>3, SpurVorlage DEF Fehlschlag
<1>4. CASE a.art # "vorlage"
  <2>1. /\ anfrage' = [anfrage EXCEPT ![i] = Frei]
        /\ \/ /\ a.art \in {"speichern", "anlegen"}
              /\ dialog' = [dialog EXCEPT !.saving = FALSE, !.alt = TRUE]
           \/ a.art \in {"kanal_weg", "eep"} /\ dialog' = [dialog EXCEPT !.alt = TRUE]
           \/ /\ a.art \notin {"speichern", "anlegen", "kanal_weg", "eep"}
              /\ dialog' = [dialog EXCEPT !.busy = FALSE] \/ dialog' = dialog
    BY <1>1, <1>4 DEF Fehlschlag, Erledigt
  <2>2. /\ dialog'.geraet = dialog.geraet /\ (Frisch(dialog') => Frisch(dialog))
        /\ dialog'.reihen = dialog.reihen
        /\ a.art \in {"speichern", "anlegen", "kanal_weg", "eep"} => ~Frisch(dialog')
    BY <1>0, <2>1 DEF DialogGut, Frisch
  <2>3. DialogRuhig(dialog, dialog')
    BY <2>2, GleichBleibt DEF DialogRuhig
  <2>4. Frisch(dialog') => ~Schreibt(a, dialog.geraet)
    BY <1>1, <2>2 DEF Spur, AusDialog
  <2>5. Schlicht(anfrage'[i]) /\ \A j \in Plaetze : j # i => anfrage'[j] = anfrage[j]
    BY <1>0, <2>1 DEF Schlicht
  <2>6. Ruhig(anfrage, anfrage', dialog, dialog')
    BY <1>1, <2>3, <2>4, <2>5, RuhigStandard
  <2> QED
    BY <1>2, <2>6, SpurRuhig
<1> QED
  BY <1>3, <1>4

LEMMA SpurAbbruch ==
    ASSUME IInv, Spur(anfrage, dialog, server, gestoert), NEW i \in Plaetze, Abbruch(i)
    PROVE  Spur(anfrage', dialog', server', gestoert')
<1>1. /\ anfrage[i] # Frei /\ anfrage' = [anfrage EXCEPT ![i].ort = "fehler"]
      /\ dialog' = dialog /\ server' = server /\ gestoert' = gestoert
      /\ AntragGut(anfrage[i]) /\ DOMAIN anfrage = Plaetze
  BY DEF Abbruch, IInv, AnfragenGut
<1>2. PICK a, b : a = anfrage[i] /\ b = [a EXCEPT !.ort = "fehler"]
  OBVIOUS
<1>3. anfrage'[i] = b /\ \A j \in Plaetze : j # i => anfrage'[j] = anfrage[j]
  BY <1>1, <1>2
<1>4. /\ a # Frei /\ b.art = a.art /\ b.geraet = a.geraet /\ b.kanal = a.kanal /\ b.wert = a.wert
      /\ b.ort = "fehler" /\ b.hier = a.hier /\ b.reihe = a.reihe
  BY <1>1, <1>2 DEF AntragGut
<1>5. b # Frei
  <2>1. a.art \in Arten
    BY <1>1, <1>2, AntragForm
  <2> QED
    BY <1>4, <2>1 DEF Frei, Arten, Schreibend
<1>6. ASSUME NEW j \in Plaetze, anfrage'[j] # Frei
      PROVE  Folgt(anfrage[j], anfrage'[j], dialog, dialog')
  <2>1. CASE j = i
    BY <1>1, <1>2, <1>3, <1>4, <2>1 DEF Folgt
  <2>2. CASE j # i
    BY <1>1, <1>3, <1>6, <2>2 DEF Folgt
  <2> QED
    BY <2>1, <2>2
<1>7. ASSUME NEW j \in Plaetze, Schreibt(anfrage[j], dialog.geraet)
      PROVE  Schreibt(anfrage'[j], dialog.geraet)
  BY <1>2, <1>3, <1>4, <1>5, <1>7 DEF Schreibt
<1>8. Ruhig(anfrage, anfrage', dialog, dialog')
  BY <1>1, <1>6, <1>7, GleichBleibt DEF Ruhig
<1> QED
  BY <1>1, <1>8, SpurRuhig

\* The answered change shows in the rows, and they show the device again.
LEMMA PasstNachAntwort ==
    ASSUME NEW rs, ReihenGut(rs), NEW a, NEW f, Passend(a, rs, f), a.ort = "zurueck"
    PROVE  /\ a.art = "kanal_weg" => a.wert \in DOMAIN rs /\ Spiegelt(RemoveAt(rs, a.wert), f)
           /\ \A neu : /\ a.art = "eep" /\ DOMAIN neu = DOMAIN rs
                       /\ \A j \in DOMAIN rs :
                              /\ neu[j].kanal = rs[j].kanal
                              /\ neu[j].eep = IF rs[j].kanal = a.reihe THEN a.wert ELSE rs[j].eep
                       => Spiegelt(neu, f)
<1>1. ASSUME a.art = "kanal_weg"
      PROVE  a.wert \in DOMAIN rs /\ Spiegelt(RemoveAt(rs, a.wert), f)
  <2>1. /\ a.wert \in DOMAIN rs /\ rs[a.wert].kanal = a.kanal
        /\ \A j \in DOMAIN rs : rs[j].kanal # a.kanal =>
               rs[j].kanal \in DOMAIN f /\ f[rs[j].kanal].eep = rs[j].eep
        /\ \A k \in DOMAIN f : k # a.kanal /\ \E j \in DOMAIN rs : rs[j].kanal = k
    BY <1>1 DEF Passend
  <2>2. \A j \in DOMAIN rs : j # a.wert => rs[j].kanal # a.kanal
    BY <2>1 DEF ReihenGut
  <2>3. PICK w \in DOMAIN rs : w = a.wert
    BY <2>1
  <2> DEFINE t == RemoveAt(rs, w)
  <2>4. /\ \A j \in DOMAIN t : \E k \in DOMAIN rs : k # w /\ t[j] = rs[k]
        /\ \A k \in DOMAIN rs : k # w => \E j \in DOMAIN t : t[j] = rs[k]
    BY ReiheEntfernt
  <2> HIDE DEF t
  <2>5. Spiegelt(t, f)
    <3>1. \A j \in DOMAIN t : t[j].kanal \in DOMAIN f /\ f[t[j].kanal].eep = t[j].eep
      BY <2>1, <2>2, <2>3, <2>4
    <3>2. \A k \in DOMAIN f : \E j \in DOMAIN t : t[j].kanal = k
      BY <2>1, <2>3, <2>4
    <3> QED
      BY <3>1, <3>2 DEF Spiegelt
  <2> QED
    BY <2>1, <2>3, <2>5 DEF t
<1>2. ASSUME NEW neu, a.art = "eep", DOMAIN neu = DOMAIN rs,
             \A j \in DOMAIN rs :
                 /\ neu[j].kanal = rs[j].kanal
                 /\ neu[j].eep = IF rs[j].kanal = a.reihe THEN a.wert ELSE rs[j].eep
      PROVE  Spiegelt(neu, f)
  BY <1>2 DEF Passend, Spiegelt
<1> QED
  BY <1>1, <1>2

LEMMA SpurAntwort ==
    ASSUME IInv, Spur(anfrage, dialog, server, gestoert), NEW i \in Plaetze, Antwort(i)
    PROVE  Spur(anfrage', dialog', server', gestoert')
<1>0. DialogGut(dialog) /\ AnfragenGut(anfrage) /\ ReihenGut(dialog.reihen)
  BY DEF IInv, DialogGut
<1>1. PICK a : a = anfrage[i]
  OBVIOUS
<1>2. /\ a # Frei /\ a.ort = "zurueck" /\ server' = server /\ gestoert' = gestoert
      /\ dialog' = IF a.art = "vorlage" THEN MitVorlage ELSE Nachher(a)
  BY <1>1 DEF Antwort
<1>3. AntragGut(a) /\ a.art \in Arten
  BY <1>0, <1>1, <1>2, AntragForm DEF AnfragenGut
<1>4. CASE a.art = "vorlage"
  <2>1. anfrage' = [OhneReihe EXCEPT ![i] = Frei]
    BY <1>1, <1>4 DEF Antwort, MitRefresh
  <2> QED
    BY <1>2, <1>4, <2>1, SpurVorlage
<1>5. ASSUME a.art # "vorlage"
      PROVE  /\ Schlicht(anfrage'[i]) /\ dialog' = Nachher(a)
             /\ \A j \in Plaetze : j # i =>
                    anfrage'[j] = anfrage[j] \/ (Schlicht(anfrage[j]) /\ Schlicht(anfrage'[j]))
  BY <1>0, <1>1, <1>2, <1>5, AntwortPlaetze
<1>6. ASSUME a.art # "vorlage", DialogRuhig(dialog, dialog'),
             Frisch(dialog') => ~Schreibt(a, dialog.geraet)
      PROVE  Spur(anfrage', dialog', server', gestoert')
  <2>1. \A j \in Plaetze : Schlicht(anfrage[j]) => ~Schreibt(anfrage[j], dialog.geraet)
    BY DEF Schlicht, Schreibt
  <2>2. \A j \in Plaetze : \/ anfrage'[j] = anfrage[j]
                           \/ Schlicht(anfrage'[j]) /\ (Frisch(dialog') => ~Schreibt(anfrage[j], dialog.geraet))
    BY <1>1, <1>5, <1>6, <2>1
  <2>3. Ruhig(anfrage, anfrage', dialog, dialog')
    BY <1>6, <2>2, RuhigStandard
  <2> QED
    BY <1>2, <2>3, SpurRuhig
<1>7. CASE a.art \in Harmlos
  <2>1. Rahmen(dialog, dialog') /\ GleicheKanaele(dialog.reihen, dialog'.reihen)
    BY <1>0, <1>2, <1>3, <1>7, NachherHarmlos DEF Harmlos
  <2>2. DialogRuhig(dialog, dialog') /\ (Frisch(dialog') => Frisch(dialog))
    BY <2>1 DEF DialogRuhig, Rahmen, Frisch
  <2>3. Frisch(dialog') => ~Schreibt(a, dialog.geraet)
    BY <1>1, <1>7, <2>2 DEF Spur, AusDialog, Harmlos
  <2> QED
    BY <1>6, <1>7, <2>2, <2>3 DEF Harmlos
<1>8. CASE a.art \in {"speichern", "anlegen"}
  <2>1. ~Frisch(dialog') /\ dialog'.geraet = dialog.geraet
    BY <1>0, <1>2, <1>8, NachherGespeichert DEF Frisch
  <2> QED
    BY <1>6, <1>8, <2>1 DEF DialogRuhig
\* The place, the dialog and the registry of a change of the dialog's device
<1>9. ASSUME a.art \in {"kanal_weg", "eep"}, Frisch(dialog), a.hier, dialog'.geraet = dialog.geraet,
             dialog.geraet \in DOMAIN server \ gestoert /\ Passend(a, dialog.reihen, server[dialog.geraet])
                 => Spiegelt(dialog'.reihen, server[dialog.geraet])
      PROVE  Spur(anfrage', dialog', server', gestoert')
  <2>1. Schreibt(a, dialog.geraet) /\ dialog.geraet \in Geraete
    <3>1. a.geraet = dialog.geraet
      BY <1>1, <1>2, <1>9 DEF Spur, AusDialog
    <3>2. a.geraet \in Geraete
      BY <1>3, <1>9 DEF AntragGut, Schreibend
    <3> QED
      BY <1>2, <1>9, <3>1, <3>2 DEF Schreibt, Schreibend
  <2>2. dialog.geraet \in DOMAIN server \ gestoert => Spiegelt(dialog'.reihen, server[dialog.geraet])
    BY <1>1, <1>9, <2>1 DEF Spur, ImBild
  <2>3. PICK A, B, d, e, S, G : /\ A = anfrage /\ B = anfrage' /\ d = dialog /\ e = dialog'
                                /\ S = server /\ G = gestoert
    OBVIOUS
  <2>4. /\ Spur(A, d, S, G) /\ Schreibt(A[i], d.geraet) /\ d.geraet \in Geraete /\ Frisch(d)
        /\ e.geraet = d.geraet /\ Schlicht(B[i])
        /\ d.geraet \in DOMAIN S \ G => Spiegelt(e.reihen, S[d.geraet])
        /\ \A j \in Plaetze : j # i => B[j] = A[j] \/ (Schlicht(A[j]) /\ Schlicht(B[j]))
    BY <1>1, <1>5, <1>9, <2>1, <2>2, <2>3
  <2>5. Spur(B, e, S, G)
    BY <2>4, BeantwortetGut
  <2> QED
    BY <1>2, <2>3, <2>5
<1>10. CASE a.art = "kanal_weg"
  <2>1. /\ dialog'.reihen = NachLoeschen(a.wert) /\ dialog'.geraet = dialog.geraet
        /\ Frisch(dialog') => Frisch(dialog) /\ a.hier
    BY <1>0, <1>2, <1>3, <1>10, NachherKanalWeg DEF Frisch
  <2>2. CASE ~Frisch(dialog')
    BY <1>6, <1>10, <2>1, <2>2 DEF DialogRuhig
  <2>3. CASE Frisch(dialog')
    <3>1. ASSUME Passend(a, dialog.reihen, server[dialog.geraet])
          PROVE  Spiegelt(dialog'.reihen, server[dialog.geraet])
      <4>1. PICK rs, f : rs = dialog.reihen /\ f = server[dialog.geraet]
        OBVIOUS
      <4>2. a.wert \in DOMAIN rs /\ Spiegelt(RemoveAt(rs, a.wert), f)
        BY <1>0, <1>2, <1>10, <3>1, <4>1, PasstNachAntwort
      <4> QED
        BY <2>1, <4>1, <4>2 DEF NachLoeschen
    <3> QED
      BY <1>9, <1>10, <2>1, <2>3, <3>1
  <2> QED
    BY <2>2, <2>3
<1>11. CASE a.art = "eep"
  <2>1. /\ Rahmen(dialog, dialog') /\ DOMAIN dialog'.reihen = DOMAIN dialog.reihen
        /\ \A j \in DOMAIN dialog.reihen :
              /\ dialog'.reihen[j].kanal = dialog.reihen[j].kanal
              /\ dialog'.reihen[j].eep =
                     IF dialog.reihen[j].kanal = a.reihe THEN a.wert ELSE dialog.reihen[j].eep
    BY <1>0, <1>2, <1>3, <1>11, NachherEep
  <2>2. dialog'.geraet = dialog.geraet /\ (Frisch(dialog') => Frisch(dialog))
    BY <2>1 DEF Rahmen, Frisch
  <2>3. CASE ~Frisch(dialog')
    BY <1>6, <1>11, <2>2, <2>3 DEF DialogRuhig
  <2>4. CASE Frisch(dialog') /\ a.hier
    <3>1. ASSUME Passend(a, dialog.reihen, server[dialog.geraet])
          PROVE  Spiegelt(dialog'.reihen, server[dialog.geraet])
      <4>1. PICK rs, neu, f : rs = dialog.reihen /\ neu = dialog'.reihen /\ f = server[dialog.geraet]
        OBVIOUS
      <4>2. Spiegelt(neu, f)
        BY <1>0, <1>2, <1>11, <2>1, <3>1, <4>1, PasstNachAntwort
      <4> QED
        BY <4>1, <4>2
    <3> QED
      BY <1>9, <1>11, <2>2, <2>4, <3>1
  <2>5. CASE Frisch(dialog') /\ ~a.hier
    <3>1. a.reihe = Leer
      BY <1>1, <1>2, <1>11, <2>5 DEF Spur, AusDialog
    <3>2. \A j \in DOMAIN dialog.reihen : dialog.reihen[j].kanal # Leer
      BY <1>0, ReihenForm, GeraeteTabAnnahme DEF Leer
    <3>3. GleicheKanaele(dialog.reihen, dialog'.reihen)
      BY <2>1, <3>1, <3>2 DEF GleicheKanaele
    <3>4. ~Schreibt(a, dialog.geraet)
      BY <1>1, <2>2, <2>5 DEF Spur, AusDialog
    <3> QED
      BY <1>6, <1>11, <2>2, <3>3, <3>4 DEF DialogRuhig
  <2> QED
    BY <2>3, <2>4, <2>5
<1> QED
  BY <1>3, <1>4, <1>7, <1>8, <1>10, <1>11 DEF Arten, Schreibend, Harmlos

LEMMA SpurAmAnfang ==
    ASSUME Init
    PROVE  Spur(anfrage, dialog, server, gestoert)
<1>1. \A i \in Plaetze : anfrage[i] # Frei => anfrage[i].art = "liste"
  BY DEF Init
<1>2. \A i \in Plaetze : \A g : ~Schreibt(anfrage[i], g)
  BY <1>1 DEF Schreibt, Schreibend
<1>3. ~Frisch(dialog)
  BY DEF Init, Zu, Frisch
<1> QED
  BY <1>1, <1>2, <1>3 DEF Spur, Einzeln, AusDialog, Treu, ImBild

LEMMA SpurSchritt ==
    ASSUME IInv, Spur(anfrage, dialog, server, gestoert), [Next]_vars
    PROVE  Spur(anfrage', dialog', server', gestoert')
<1> DEFINE Ziel == Spur(anfrage', dialog', server', gestoert')
<1>0. AnfragenGut(anfrage) /\ DialogGut(dialog)
  BY DEF IInv
<1>1. CASE Bedienen
  <2>1. ASSUME NEW g \in Geraete, GeraetLoeschen(g) \/ Oeffnen(g) \/ Anlegen(g) PROVE Ziel
    BY <2>1, SpurSchreiben, SpurOeffnen
  <2>2. ASSUME NEW g \in Geraete, NEW k \in Kanaele, Umkehren(g, k) PROVE Ziel
    BY <2>2, SpurUmkehren
  <2>3. CASE OeffnenNeu \/ Schliessen \/ ReiheDazu \/ SpeichernOhneGeraet
    BY <2>3, SpurBedienen
  <2>4. CASE ProduktWaehlen
    <3>1. /\ Abschicken(anfrage, "vorlage", Keins, Leer, Nichts) /\ "vorlage" \notin Schreibend
          /\ server' = server /\ gestoert' = gestoert /\ dialog' = dialog
      BY <2>4 DEF ProduktWaehlen, Schreibend
    <3> QED
      BY <1>0, <3>1, SpurLesen, GleichBleibt DEF DialogRuhig
  <2>5. CASE Speichern
    BY <2>5, SpurSpeichern
  <2>6. ASSUME NEW j \in DOMAIN dialog.reihen,
               \/ ReiheWeg(j) \/ KanalLoeschen(j) \/ \E e \in Eeps : EepWechseln(j, e)
        PROVE  Ziel
    BY <2>6, SpurBedienen, SpurSchreiben
  <2>7. ASSUME NEW j \in DOMAIN dialog.reihen, NEW z \in {"sender", "paarung"}, IdHolen(j, z) PROVE Ziel
    <3>1. /\ Abschicken(anfrage, "naechste_id", Keins, dialog.reihen[j].kanal, z)
          /\ "naechste_id" \notin Schreibend
          /\ server' = server /\ gestoert' = gestoert /\ dialog' = dialog
      BY <2>7 DEF IdHolen, Schreibend
    <3> QED
      BY <1>0, <3>1, SpurLesen, GleichBleibt DEF DialogRuhig
  <2>8. ASSUME NEW j \in DOMAIN dialog.reihen, NEW id \in Ids, PaarungStarten(j, id) PROVE Ziel
    <3>1. /\ Abschicken(anfrage, "paarung", Keins, dialog.reihen[j].kanal, id)
          /\ "paarung" \notin Schreibend
          /\ server' = server /\ gestoert' = gestoert /\ dialog' = [dialog EXCEPT !.busy = TRUE]
      BY <2>8 DEF PaarungStarten, Schreibend
    <3>2. DialogRuhig(dialog, dialog')
      BY <1>0, <3>1, BusyRahmen, GleichBleibt DEF DialogRuhig, Rahmen, Frisch
    <3> QED
      BY <1>0, <3>1, <3>2, SpurLesen
  <2>9. ASSUME NEW j \in DOMAIN dialog.reihen,
               \/ SenderDazu(j)
               \/ \E i \in DOMAIN dialog.reihen[j].sender :
                      \/ SenderAktivieren(j, i) \/ SenderWeg(j, i)
                      \/ \E id \in Ids : SenderEintragen(j, i, id)
        PROVE  Ziel
    <3>1. NurSender
      BY <2>9, SenderSchritt
    <3> QED
      BY <3>1, SpurBedienen
  <2> QED
    BY <1>1, <2>1, <2>2, <2>3, <2>4, <2>5, <2>6, <2>7, <2>8, <2>9 DEF Bedienen
<1>2. CASE Takt
  <2>1. /\ Abschicken(anfrage, "liste", Keins, Leer, Nichts) /\ "liste" \notin Schreibend
        /\ server' = server /\ gestoert' = gestoert /\ dialog' = dialog
    BY <1>2 DEF Takt, Schreibend
  <2> QED
    BY <1>0, <2>1, SpurLesen, GleichBleibt DEF DialogRuhig
<1>3. ASSUME NEW i \in Plaetze, Ankunft(i) \/ Antwort(i) \/ Fehlschlag(i) \/ Abbruch(i) PROVE Ziel
  BY <1>3, SpurAnkunft, SpurAntwort, SpurFehlschlag, SpurAbbruch
<1>4. ASSUME NEW g \in Geraete, NEW k \in Kanaele, NEW e \in Eeps, Lerntelegramm(g, k, e) PROVE Ziel
  BY <1>4, SpurLerntelegramm
<1>5. CASE UNCHANGED vars
  BY <1>5 DEF vars
<1> QED
  BY <1>1, <1>2, <1>3, <1>4, <1>5 DEF Next


LEMMA SpurInduktiv == Spec => [](IInv /\ Spur(anfrage, dialog, server, gestoert))
<1>1. Init => IInv /\ Spur(anfrage, dialog, server, gestoert)
  BY InitGut, SpurAmAnfang
<1>2. IInv /\ Spur(anfrage, dialog, server, gestoert) /\ [Next]_vars
        => IInv' /\ Spur(anfrage, dialog, server, gestoert)'
  BY SchrittGut, SpurSchritt
<1> QED
  BY <1>1, <1>2, PTL DEF Spec

\* What an answered write of the device g, from a dialog or from the list,
\* leaves as it was
Gewollt(a, g) ==
    /\ DOMAIN server'[g] = DOMAIN server[g]
    /\ \A k \in DOMAIN server[g] :
          /\ server'[g][k].eep = server[g][k].eep
          /\ server'[g][k].invert # server[g][k].invert => a.art = "umkehren" /\ a.kanal = k

\* saveEdit (app.js:1896) and toggleInvertDirection (app.js:764) send the whole
\* device.  Yet of a device that nobody else changed in the meantime, saving
\* changes no channel, no EEP and no direction, and inverting only the one
\* direction that was clicked: for any number of devices, channels, requests.
THEOREM NurGewolltesSicher == Spec => NurGewolltes
<1>1. ASSUME IInv, Spur(anfrage, dialog, server, gestoert), [Next]_vars,
             NEW g \in DOMAIN server, g \notin gestoert,
             NEW i \in Plaetze, Geschrieben(i, {"speichern", "umkehren"}), anfrage[i].geraet = g
      PROVE  Gewollt(anfrage[i], g)
  <2>1. PICK a, f : a = anfrage[i] /\ f = server[g]
    OBVIOUS
  <2>2. Ankunft(i) /\ AntragGut(a)
    BY <1>1, <2>1, NurAnkunftSchreibt
  <2>3. a.art \in {"speichern", "umkehren"} /\ a.ort = "hin" /\ a # Frei
    BY <1>1, <2>1 DEF Geschrieben
  <2>4. PICK n : n = a.wert.nutzlast
    OBVIOUS
  <2>5. LadungenGut(n) /\ g \in Geraete
    BY <1>1, <2>1, <2>2, <2>3, <2>4 DEF AntragGut, WertGut, IInv, RegisterGut, IstRegister
  <2>6. server' = Danach(a) /\ Danach(a) = Upsert(g, n)
    BY <1>1, <2>1, <2>2, <2>3, <2>4, AnkunftWirkt, DanachFaelle DEF IInv
  <2>7. PICK neu : neu = server'[g]
    OBVIOUS
  <2>8. DOMAIN neu = DOMAIN n /\ \A k \in DOMAIN n : neu[k] = Bereinigt(n[k])
    BY <1>1, <2>5, <2>6, <2>7, UpsertWirkt, SMTT(30) DEF IInv
  <2>9. Erhaelt(a, f)
    BY <1>1, <2>1, <2>3 DEF Spur, Treu
  <2>10. DOMAIN n = DOMAIN f
    BY <2>4, <2>9 DEF Erhaelt
  <2>11. ASSUME NEW k \in DOMAIN f
         PROVE  neu[k].eep = f[k].eep /\ (neu[k].invert # f[k].invert => a.art = "umkehren" /\ a.kanal = k)
    <3>1. neu[k] = Bereinigt(n[k]) /\ n[k] \in Ladung
      BY <2>5, <2>8, <2>10 DEF LadungenGut
    <3>2. neu[k].eep = n[k].eep /\ neu[k].invert = n[k].invert
      BY <3>1, BereinigtWirkt
    <3>3. n[k].eep = f[k].eep /\ (n[k].invert = f[k].invert \/ (a.art = "umkehren" /\ a.kanal = k))
      BY <2>4, <2>9 DEF Erhaelt
    <3> QED
      BY <3>2, <3>3
  <2> QED
    BY <2>1, <2>7, <2>8, <2>10, <2>11 DEF Gewollt
<1>2. IInv /\ Spur(anfrage, dialog, server, gestoert) /\ [Next]_vars =>
        (\A g \in DOMAIN server \cap DOMAIN server' : server[g] # server'[g] /\ g \notin gestoert =>
          \A i \in Plaetze :
              Geschrieben(i, {"speichern", "umkehren"}) /\ anfrage[i].geraet = g =>
                  /\ DOMAIN server'[g] = DOMAIN server[g]
                  /\ \A k \in DOMAIN server[g] :
                        /\ server'[g][k].eep = server[g][k].eep
                        /\ server'[g][k].invert # server[g][k].invert =>
                               anfrage[i].art = "umkehren" /\ anfrage[i].kanal = k)
  BY <1>1 DEF Gewollt
<1> QED
  BY <1>2, SpurInduktiv, PTL DEF Spec, NurGewolltes
=============================================================================
