-------------------------- MODULE LanGatewayProofs --------------------------
(***************************************************************************)
(* For any number of TX callers: the lock keeps writers apart, and the     *)
(* status shown agrees with the writer, wherever the task is cancelled.    *)
(***************************************************************************)
EXTENDS LanGateway, TLAPS

\* The holder of the lock stands first in the queue.
Inhaber == \A r \in Rufer : senden[r] = "drain" => sperre # <<>> /\ sperre[1] = r

\* Where the task is, there is a writer or none.
WriterPasst ==
    /\ lauf \in {"start", "verbinden", "warten"} => writer = "None"
    /\ lauf \in {"version", "lesen", "schliessen", "beenden"} => writer # "None"

\* The task has a telegram of its own only while it waits for its sending.
NurInVersion == lauf # "version" => senden[Schleife] = "ruht"

IInv == TypeOK /\ Inhaber /\ WriterPasst /\ StatusPasstZuWriter /\ NurInVersion

-----------------------------------------------------------------------------
(* The queue *)

\* Who queues for the lock: a sequence without repetitions of just those
\* callers that have not returned.
Schlange(s, z) ==
    /\ s \in Seq(Rufer) /\ IsInjective(s)
    /\ Range(s) = {r \in Rufer : z[r] # "ruht"}

\* The same, said of places.
LEMMA SchlangeHeisst ==
    ASSUME NEW s \in Seq(Rufer), NEW z \in [Rufer -> {"ruht", "wartet", "drain"}]
    PROVE  Schlange(s, z) <=>
               /\ \A i, j \in 1..Len(s) : s[i] = s[j] => i = j
               /\ \A i \in 1..Len(s) : z[s[i]] # "ruht"
               /\ \A r \in Rufer : z[r] # "ruht" => \E i \in 1..Len(s) : s[i] = r
<1>1. DOMAIN s = 1..Len(s) /\ \A i \in 1..Len(s) : s[i] \in Rufer
  OBVIOUS
<1>2. IsInjective(s) <=> \A i, j \in 1..Len(s) : s[i] = s[j] => i = j
  BY <1>1, Zenon DEF IsInjective
<1>3. Range(s) = {s[i] : i \in 1..Len(s)}
  BY <1>1, Zenon DEF Range
<1>4. Range(s) = {r \in Rufer : z[r] # "ruht"} <=>
          /\ \A i \in 1..Len(s) : z[s[i]] # "ruht"
          /\ \A r \in Rufer : z[r] # "ruht" => \E i \in 1..Len(s) : s[i] = r
  <2>1. ASSUME Range(s) = {r \in Rufer : z[r] # "ruht"}
        PROVE  /\ \A i \in 1..Len(s) : z[s[i]] # "ruht"
               /\ \A r \in Rufer : z[r] # "ruht" => \E i \in 1..Len(s) : s[i] = r
    <3>1. \A i \in 1..Len(s) : s[i] \in Range(s)
      BY <1>3
    <3>2. \A r \in Range(s) : \E i \in 1..Len(s) : s[i] = r
      BY <1>3
    <3> QED
      BY <2>1, <3>1, <3>2
  <2>2. ASSUME \A i \in 1..Len(s) : z[s[i]] # "ruht",
               \A r \in Rufer : z[r] # "ruht" => \E i \in 1..Len(s) : s[i] = r
        PROVE  Range(s) = {r \in Rufer : z[r] # "ruht"}
    BY <1>1, <1>3, <2>2
  <2> QED
    BY <2>1, <2>2
<1> QED
  BY <1>2, <1>4 DEF Schlange

\* A caller that had returned queues at the end.
LEMMA HintenAn ==
    ASSUME NEW s, NEW z \in [Rufer -> {"ruht", "wartet", "drain"}], Schlange(s, z),
           NEW r \in Rufer, z[r] = "ruht", NEW w \in {"wartet", "drain"}
    PROVE  Schlange(Append(s, r), [z EXCEPT ![r] = w])
<1> DEFINE t == Append(s, r)
           y == [z EXCEPT ![r] = w]
<1>1. s \in Seq(Rufer)
  BY DEF Schlange
<1>2. /\ t \in Seq(Rufer) /\ Len(t) = Len(s) + 1 /\ Len(s) \in Nat
      /\ \A i \in 1..Len(s) : t[i] = s[i]
      /\ t[Len(s) + 1] = r
  BY <1>1
<1>3. y \in [Rufer -> {"ruht", "wartet", "drain"}]
      /\ y[r] = w /\ \A q \in Rufer : q # r => y[q] = z[q]
  OBVIOUS
<1>4. /\ \A i, j \in 1..Len(s) : s[i] = s[j] => i = j
      /\ \A i \in 1..Len(s) : z[s[i]] # "ruht"
      /\ \A q \in Rufer : z[q] # "ruht" => \E i \in 1..Len(s) : s[i] = q
      /\ \A i \in 1..Len(s) : s[i] \in Rufer
  BY <1>1, SchlangeHeisst
<1> HIDE DEF t, y
<1>5. \A i \in 1..Len(s) : s[i] # r
  BY <1>4
<1>6. \A i, j \in 1..Len(t) : t[i] = t[j] => i = j
  BY <1>2, <1>4, <1>5
<1>7. \A i \in 1..Len(t) : y[t[i]] # "ruht"
  BY <1>2, <1>3, <1>4, <1>5
<1>8. \A q \in Rufer : y[q] # "ruht" => \E i \in 1..Len(t) : t[i] = q
  <2>1. SUFFICES ASSUME NEW q \in Rufer, y[q] # "ruht" PROVE \E i \in 1..Len(t) : t[i] = q
    OBVIOUS
  <2>2. CASE q = r
    <3>1. Len(s) + 1 \in 1..Len(t) /\ t[Len(s) + 1] = q
      BY <1>2, <2>2
    <3> QED
      BY <3>1
  <2>3. CASE q # r
    <3>1. PICK i \in 1..Len(s) : s[i] = q
      BY <1>3, <1>4, <2>1, <2>3
    <3>2. i \in 1..Len(t) /\ t[i] = q
      BY <1>2, <3>1
    <3> QED
      BY <3>2
  <2> QED
    BY <2>2, <2>3
<1>9. Schlange(t, y)
  BY <1>2, <1>3, <1>6, <1>7, <1>8, SchlangeHeisst
<1> QED
  BY <1>9 DEF t, y

\* The caller at one place leaves the queue.
LEMMA Gegangen ==
    ASSUME NEW s, NEW z \in [Rufer -> {"ruht", "wartet", "drain"}], Schlange(s, z),
           NEW i \in 1..Len(s), NEW t \in Seq(Rufer), Len(t) = Len(s) - 1,
           \A j \in 1..(Len(s) - 1) : t[j] = IF j < i THEN s[j] ELSE s[j + 1]
    PROVE  Schlange(t, [z EXCEPT ![s[i]] = "ruht"])
<1> DEFINE y == [z EXCEPT ![s[i]] = "ruht"]
<1>1. s \in Seq(Rufer) /\ Len(s) \in Nat /\ s[i] \in Rufer
  BY DEF Schlange
<1>2. /\ \A a, b \in 1..Len(s) : s[a] = s[b] => a = b
      /\ \A a \in 1..Len(s) : z[s[a]] # "ruht" /\ s[a] \in Rufer
      /\ \A q \in Rufer : z[q] # "ruht" => \E a \in 1..Len(s) : s[a] = q
  <2>1. \A a \in 1..Len(s) : s[a] \in Rufer
    BY <1>1
  <2>2. /\ \A a, b \in 1..Len(s) : s[a] = s[b] => a = b
        /\ \A a \in 1..Len(s) : z[s[a]] # "ruht"
        /\ \A q \in Rufer : z[q] # "ruht" => \E a \in 1..Len(s) : s[a] = q
    BY <1>1, SchlangeHeisst
  <2> QED
    BY <2>1, <2>2
<1>3. y \in [Rufer -> {"ruht", "wartet", "drain"}]
      /\ y[s[i]] = "ruht" /\ \A q \in Rufer : q # s[i] => y[q] = z[q]
  BY <1>1
<1> HIDE DEF y
<1> DEFINE frueher(a) == IF a < i THEN a ELSE a + 1
<1>0. \A a \in 1..Len(t) : frueher(a) \in 1..Len(s) /\ frueher(a) # i /\ t[a] = s[frueher(a)]
  <2>1. SUFFICES ASSUME NEW a \in 1..Len(t)
        PROVE  frueher(a) \in 1..Len(s) /\ frueher(a) # i /\ t[a] = s[frueher(a)]
    BY Zenon
  <2>2. a \in 1..(Len(s) - 1) /\ a \in Nat /\ i \in Nat
    BY <1>1
  <2>3. t[a] = IF a < i THEN s[a] ELSE s[a + 1]
    BY <2>2
  <2>4. CASE a < i
    <3>1. frueher(a) = a /\ a \in 1..Len(s) /\ a # i
      BY <1>1, <2>2, <2>4
    <3> QED
      BY <3>1, <2>3, <2>4
  <2>5. CASE ~(a < i)
    <3>1. frueher(a) = a + 1 /\ a + 1 \in 1..Len(s) /\ a + 1 # i
      BY <1>1, <2>2, <2>5
    <3> QED
      BY <3>1, <2>3, <2>5
  <2> QED
    BY <2>4, <2>5
<1>4. \A a, b \in 1..Len(t) : t[a] = t[b] => a = b
  <2>1. \A a, b \in 1..Len(t) : t[a] = t[b] => frueher(a) = frueher(b)
    <3> HIDE DEF frueher
    <3> QED
      BY <1>0, <1>2
  <2>2. \A a, b \in 1..Len(t) : frueher(a) = frueher(b) => a = b
    BY <1>1, SMT
  <2> QED
    BY <2>1, <2>2
<1>5. \A a \in 1..Len(t) : y[t[a]] # "ruht"
  <2>1. SUFFICES ASSUME NEW a \in 1..Len(t) PROVE y[t[a]] # "ruht"
    OBVIOUS
  <2>2. PICK b \in 1..Len(s) : b # i /\ t[a] = s[b]
    BY <1>0
  <2> QED
    BY <1>2, <1>3, <2>2
<1>6. \A q \in Rufer : y[q] # "ruht" => \E a \in 1..Len(t) : t[a] = q
  <2>1. SUFFICES ASSUME NEW q \in Rufer, y[q] # "ruht" PROVE \E a \in 1..Len(t) : t[a] = q
    OBVIOUS
  <2>2. q # s[i] /\ z[q] # "ruht"
    BY <1>3, <2>1
  <2>3. PICK b \in 1..Len(s) : s[b] = q
    BY <1>2, <2>2
  <2>4. b # i
    BY <2>2, <2>3
  <2>5. CASE b < i
    <3>1. b \in 1..Len(t) /\ t[b] = q
      BY <1>1, <2>3, <2>5, SMT
    <3> QED
      BY <3>1
  <2>6. CASE b > i
    <3>1. b - 1 \in 1..Len(t) /\ t[b - 1] = q
      BY <1>1, <2>3, <2>6, SMT
    <3> QED
      BY <3>1
  <2> QED
    BY <2>4, <2>5, <2>6, <1>1, SMT
<1>7. Schlange(t, y)
  BY <1>3, <1>4, <1>5, <1>6, SchlangeHeisst
<1> QED
  BY <1>7 DEF y

-----------------------------------------------------------------------------
(* The actions *)

LEMMA SchlangeIst == TypeOK => Schlange(sperre, senden)
  BY DEF TypeOK, Schlange

\* A caller that had returned queues: the lock stays with its holder.
LEMMA AnstellenGut ==
    ASSUME IInv, NEW r \in Rufer, senden[r] = "ruht", Anstellen(r)
    PROVE  /\ Schlange(sperre', senden') /\ Inhaber'
           /\ senden' \in [Rufer -> {"ruht", "wartet", "drain"}]
           /\ \A q \in Rufer : q # r => senden'[q] = senden[q]
<1> DEFINE w == IF sperre = <<>> THEN "drain" ELSE "wartet"
<1>1. /\ senden \in [Rufer -> {"ruht", "wartet", "drain"}] /\ sperre \in Seq(Rufer)
      /\ Schlange(sperre, senden) /\ Inhaber
  BY SchlangeIst DEF IInv, TypeOK
<1>2. sperre' = Append(sperre, r) /\ senden' = [senden EXCEPT ![r] = w]
  BY DEF Anstellen
<1>3. w \in {"wartet", "drain"}
  OBVIOUS
<1>4. Schlange(sperre', senden')
  <2> HIDE DEF w
  <2> QED
    BY <1>1, <1>2, <1>3, HintenAn
<1>5. Inhaber'
  <2>1. SUFFICES ASSUME NEW q \in Rufer, senden'[q] = "drain"
                 PROVE  sperre' # <<>> /\ sperre'[1] = q
    BY DEF Inhaber
  <2>2. CASE sperre = <<>>
    <3>1. \A i \in 1..Len(sperre) : FALSE
      BY <2>2
    <3>2. \A p \in Rufer : senden[p] = "ruht"
      BY <1>1, <3>1, SchlangeHeisst
    <3>3. q = r
      BY <1>1, <1>2, <2>1, <3>2
    <3> QED
      BY <1>1, <1>2, <2>2, <3>3
  <2>3. CASE sperre # <<>>
    <3>1. q # r /\ senden[q] = "drain"
      BY <1>1, <1>2, <2>1, <2>3
    <3>2. sperre[1] = q
      BY <1>1, <3>1 DEF Inhaber
    <3> QED
      BY <1>1, <1>2, <2>3, <3>2
  <2> QED
    BY <2>2, <2>3
<1>6. senden' \in [Rufer -> {"ruht", "wartet", "drain"}] /\ \A q \in Rufer : q # r => senden'[q] = senden[q]
  BY <1>1, <1>2
<1> QED
  BY <1>4, <1>5, <1>6

\* The caller at the head returns, with or without having written.
LEMMA KopfGeht ==
    ASSUME IInv, NEW r \in Rufer, sperre # <<>>, sperre[1] = r,
           sperre' = Tail(sperre), senden' = [senden EXCEPT ![r] = "ruht"]
    PROVE  /\ Schlange(sperre', senden') /\ Inhaber'
           /\ senden' \in [Rufer -> {"ruht", "wartet", "drain"}]
           /\ \A q \in Rufer : q # r => senden'[q] = senden[q]
           /\ senden'[r] = "ruht"
<1>1. /\ senden \in [Rufer -> {"ruht", "wartet", "drain"}] /\ sperre \in Seq(Rufer)
      /\ Schlange(sperre, senden) /\ Inhaber
  BY SchlangeIst DEF IInv, TypeOK
<1>2. /\ Len(sperre) \in Nat /\ 1 \in 1..Len(sperre)
      /\ Tail(sperre) \in Seq(Rufer) /\ Len(Tail(sperre)) = Len(sperre) - 1
      /\ \A j \in 1..(Len(sperre) - 1) : Tail(sperre)[j] = sperre[j + 1]
  BY <1>1
<1>3. \A j \in 1..(Len(sperre) - 1) :
          Tail(sperre)[j] = IF j < 1 THEN sperre[j] ELSE sperre[j + 1]
  BY <1>2
<1>4. Schlange(sperre', senden')
  BY <1>1, <1>2, <1>3, Gegangen
<1>5. Inhaber'
  BY <1>1 DEF Inhaber
<1> QED
  BY <1>1, <1>4, <1>5

\* The cancelled task leaves the queue from wherever it stands in it.
LEMMA SchleifeGeht ==
    ASSUME IInv, Abgebrochen
    PROVE  /\ Schlange(sperre', senden') /\ Inhaber'
           /\ senden' \in [Rufer -> {"ruht", "wartet", "drain"}]
           /\ senden'[Schleife] = "ruht"
<1>1. /\ senden \in [Rufer -> {"ruht", "wartet", "drain"}] /\ sperre \in Seq(Rufer)
      /\ Schlange(sperre, senden) /\ Inhaber /\ Schleife \in Rufer
  BY SchlangeIst DEF IInv, TypeOK, Rufer
<1>2. senden' = [senden EXCEPT ![Schleife] = "ruht"]
  BY DEF Abgebrochen
<1>3. CASE senden[Schleife] = "ruht"
  <2>1. sperre' = sperre /\ senden' = senden
    BY <1>1, <1>2, <1>3 DEF Abgebrochen
  <2> QED
    BY <1>1, <1>3, <2>1 DEF Inhaber
<1>4. CASE senden[Schleife] # "ruht"
  <2>1. PICK i \in 1..Len(sperre) : sperre[i] = Schleife /\ sperre' = OhnePlatz(i)
    BY <1>4 DEF Abgebrochen
  <2> DEFINE n == Len(sperre) - 1
  <2>2. Len(sperre) \in Nat /\ n \in Nat /\ \A j \in 1..Len(sperre) : sperre[j] \in Rufer
    BY <1>1, <2>1
  <2>3. \A j \in 1..n : OhnePlatz(i)[j] = IF j < i THEN sperre[j] ELSE sperre[j + 1]
    BY DEF OhnePlatz
  <2>4. OhnePlatz(i) \in Seq(Rufer) /\ Len(OhnePlatz(i)) = n
    <3>1. \A j \in 1..n : (IF j < i THEN sperre[j] ELSE sperre[j + 1]) \in Rufer
      <4>1. \A j \in 1..n : j \in 1..Len(sperre) /\ j + 1 \in 1..Len(sperre)
        BY <2>2
      <4> QED
        BY <2>2, <4>1
    <3>2. OhnePlatz(i) \in [1..n -> Rufer]
      BY <3>1 DEF OhnePlatz
    <3> HIDE DEF n
    <3> QED
      BY <2>2, <3>2
  <2>5. Schlange(sperre', senden')
    BY <1>1, <1>2, <2>1, <2>3, <2>4, Gegangen
  <2>6. Inhaber'
    <3>1. SUFFICES ASSUME NEW q \in Rufer, senden'[q] = "drain"
                   PROVE  sperre' # <<>> /\ sperre'[1] = q
      BY DEF Inhaber
    <3>2. q # Schleife /\ senden[q] = "drain"
      BY <1>1, <1>2, <3>1
    <3>3. sperre[1] = q /\ i # 1
      BY <1>1, <2>1, <3>2 DEF Inhaber
    <3>4. 1 \in 1..n /\ 1 < i
      BY <2>1, <2>2, <3>3
    <3>5. sperre'[1] = q /\ Len(sperre') # 0
      BY <2>1, <2>2, <2>3, <2>4, <3>3, <3>4
    <3> QED
      BY <3>5
  <2> QED
    BY <1>1, <1>2, <2>5, <2>6
<1> QED
  BY <1>3, <1>4

\* What the callers of send do keeps the invariant.
LEMMA SendenIInv ==
    ASSUME IInv,
           \/ \E s \in Sender : SendeBeginn(s)
           \/ \E r \in Rufer : SperreErhalten(r) \/ DrainEndet(r)
    PROVE  IInv'
<1> DEFINE Gut == /\ Schlange(sperre', senden') /\ Inhaber'
                  /\ senden' \in [Rufer -> {"ruht", "wartet", "drain"}]
                  /\ (senden[Schleife] = "ruht" => senden'[Schleife] = "ruht")
<1>1. UNCHANGED <<lauf, backoff, status, writer, stop, erwartet, chip, gegenstelle, leitung>>
  BY DEF SendeBeginn, SperreErhalten, DrainEndet
<1>2. /\ senden \in [Rufer -> {"ruht", "wartet", "drain"}] /\ sperre \in Seq(Rufer)
      /\ Schlange(sperre, senden) /\ Inhaber /\ Schleife \in Rufer
  BY SchlangeIst DEF IInv, TypeOK, Rufer
<1>3. ASSUME NEW s \in Sender, SendeBeginn(s) PROVE Gut
  <2>1. s \in Rufer /\ s # Schleife
    BY GatewayAssumption DEF Rufer
  <2> QED
    BY <1>2, <1>3, <2>1, AnstellenGut DEF SendeBeginn
<1>4. ASSUME NEW r \in Rufer, DrainEndet(r) PROVE Gut
  <2>1. sperre # <<>> /\ sperre[1] = r
    BY <1>2, <1>4 DEF Inhaber, DrainEndet
  <2> QED
    BY <1>2, <1>4, <2>1, KopfGeht DEF DrainEndet
<1>5. ASSUME NEW r \in Rufer, SperreErhalten(r) PROVE Gut
  <2>1. senden[r] = "wartet" /\ sperre[1] = r
    BY <1>5 DEF SperreErhalten
  <2>2. sperre # <<>>
    <3>1. PICK i \in 1..Len(sperre) : sperre[i] = r
      BY <1>2, <2>1, SchlangeHeisst
    <3> QED
      BY <1>2, <3>1
  <2>3. CASE writer = "None"
    BY <1>2, <1>5, <2>1, <2>2, <2>3, KopfGeht DEF SperreErhalten
  <2>4. CASE writer # "None"
    <3>1. senden' = [senden EXCEPT ![r] = "drain"] /\ sperre' = sperre
      BY <1>5, <2>4 DEF SperreErhalten
    <3>2. senden' \in [Rufer -> {"ruht", "wartet", "drain"}]
      BY <1>2, <3>1
    <3>3. {q \in Rufer : senden'[q] # "ruht"} = {q \in Rufer : senden[q] # "ruht"}
      BY <1>2, <2>1, <3>1
    <3>4. Schlange(sperre', senden')
      BY <1>2, <3>1, <3>3 DEF Schlange
    <3>5. Inhaber'
      BY <1>2, <2>1, <2>2, <3>1 DEF Inhaber
    <3>6. senden[Schleife] = "ruht" => senden'[Schleife] = "ruht"
      BY <1>2, <2>1, <3>1
    <3> QED
      BY <3>2, <3>4, <3>5, <3>6
  <2> QED
    BY <2>3, <2>4
<1>6. Gut
  BY <1>3, <1>4, <1>5
<1>7. TypeOK'
  BY <1>1, <1>6 DEF IInv, TypeOK, Schlange
<1>8. WriterPasst' /\ StatusPasstZuWriter' /\ NurInVersion'
  BY <1>1, <1>6 DEF IInv, WriterPasst, StatusPasstZuWriter, NurInVersion
<1> QED
  BY <1>6, <1>7, <1>8 DEF IInv

\* Steps of the task, of stop and of the network that leave the queue alone.
LEMMA OhneSchlangeIInv ==
    ASSUME IInv, UNCHANGED <<sperre, senden>>,
           \/ Versuchen \/ NichtVerbunden \/ VersionGesendet \/ VersionAntwort
           \/ Abriss \/ Geschlossen \/ PauseEndet \/ LesenBeendet
           \/ Stoppen \/ GegenstelleWechselt
    PROVE  IInv'
<1> USE DEF IInv
<1>1. Inhaber'
  BY DEF Inhaber
<1>2. backoff' \in BackoffStart..BackoffMax
  <2>1. backoff' = backoff \/ PauseEndet
    BY DEF Versuchen, NichtVerbunden, VersionGesendet, VersionAntwort, Abriss,
           Geschlossen, LesenBeendet, Stoppen, GegenstelleWechselt
  <2> QED
    BY <2>1, GatewayAssumption, SMT DEF PauseEndet, TypeOK
<1>3. TypeOK'
  <2>1. /\ lauf' \in {"start", "verbinden", "version", "lesen", "schliessen", "beenden",
                      "warten", "ende"}
        /\ status' \in {"DISCONNECTED", "CONNECTING", "CONNECTED", "ERROR"}
        /\ writer' \in {"None", "offen", "schliesst"}
        /\ {stop', erwartet', chip', gegenstelle', leitung'} \subseteq BOOLEAN
    BY DEF TypeOK, Versuchen, NichtVerbunden, VersionGesendet, VersionAntwort, Abriss,
           Geschlossen, PauseEndet, LesenBeendet, Stoppen, GegenstelleWechselt
  <2> QED
    BY <1>2, <2>1 DEF TypeOK
<1>4. WriterPasst' /\ StatusPasstZuWriter'
  BY DEF TypeOK, WriterPasst, StatusPasstZuWriter, Versuchen, NichtVerbunden,
         VersionGesendet, VersionAntwort, Abriss, Geschlossen, PauseEndet,
         LesenBeendet, Stoppen, GegenstelleWechselt
<1>5. NurInVersion'
  BY DEF NurInVersion, Versuchen, NichtVerbunden, VersionGesendet, VersionAntwort,
         Abriss, Geschlossen, PauseEndet, LesenBeendet, Stoppen, GegenstelleWechselt
<1> QED
  BY <1>1, <1>3, <1>4, <1>5

LEMMA VerbundenIInv ==
    ASSUME IInv, Verbunden
    PROVE  IInv'
<1>1. Schleife \in Rufer /\ senden[Schleife] = "ruht" /\ Anstellen(Schleife)
  BY DEF Rufer, IInv, NurInVersion, Verbunden
<1>2. /\ Schlange(sperre', senden') /\ Inhaber'
      /\ senden' \in [Rufer -> {"ruht", "wartet", "drain"}]
  BY <1>1, AnstellenGut
<1>3. TypeOK'
  BY <1>2 DEF IInv, TypeOK, Schlange, Verbunden
<1>4. WriterPasst' /\ StatusPasstZuWriter' /\ NurInVersion'
  BY DEF WriterPasst, StatusPasstZuWriter, NurInVersion, Verbunden
<1> QED
  BY <1>2, <1>3, <1>4 DEF IInv

LEMMA AbgebrochenIInv ==
    ASSUME IInv, Abgebrochen
    PROVE  IInv'
<1>1. /\ Schlange(sperre', senden') /\ Inhaber'
      /\ senden' \in [Rufer -> {"ruht", "wartet", "drain"}]
      /\ senden'[Schleife] = "ruht"
  BY SchleifeGeht
<1>2. TypeOK'
  BY <1>1 DEF IInv, TypeOK, Schlange, Abgebrochen
<1>3. WriterPasst' /\ StatusPasstZuWriter' /\ NurInVersion'
  BY <1>1 DEF IInv, WriterPasst, StatusPasstZuWriter, NurInVersion, Abgebrochen
<1> QED
  BY <1>1, <1>2, <1>3 DEF IInv

-----------------------------------------------------------------------------

LEMMA AnfangIInv == Init => IInv
<1> SUFFICES ASSUME Init PROVE IInv
  OBVIOUS
<1>1. sperre = <<>> /\ senden = [r \in Rufer |-> "ruht"]
  BY DEF Init
<1>2. Schlange(sperre, senden)
  <2>1. sperre \in Seq(Rufer) /\ Len(sperre) = 0
    BY <1>1
  <2>2. senden \in [Rufer -> {"ruht", "wartet", "drain"}] /\ \A r \in Rufer : senden[r] = "ruht"
    BY <1>1
  <2>3. \A i \in 1..Len(sperre) : FALSE
    BY <2>1
  <2> QED
    BY <2>1, <2>2, <2>3, SchlangeHeisst
<1>3. backoff \in BackoffStart..BackoffMax
  BY GatewayAssumption, SMT DEF Init
<1>4. TypeOK
  BY <1>1, <1>2, <1>3 DEF Init, TypeOK, Schlange
<1>5. Inhaber /\ WriterPasst /\ StatusPasstZuWriter /\ NurInVersion
  BY <1>1 DEF Init, Inhaber, WriterPasst, StatusPasstZuWriter, NurInVersion, Rufer
<1> QED
  BY <1>4, <1>5 DEF IInv

LEMMA SchrittIInv == IInv /\ [Next]_vars => IInv'
<1> SUFFICES ASSUME IInv, [Next]_vars PROVE IInv'
  OBVIOUS
<1>1. CASE \/ Versuchen \/ NichtVerbunden \/ VersionGesendet \/ VersionAntwort
           \/ Abriss \/ Geschlossen \/ PauseEndet \/ LesenBeendet
           \/ Stoppen \/ GegenstelleWechselt
  <2>1. UNCHANGED <<sperre, senden>>
    BY <1>1 DEF Versuchen, NichtVerbunden, VersionGesendet, VersionAntwort, Abriss,
           Geschlossen, PauseEndet, LesenBeendet, Stoppen, GegenstelleWechselt
  <2> QED
    BY <1>1, <2>1, OhneSchlangeIInv
<1>2. CASE Verbunden
  BY <1>2, VerbundenIInv
<1>3. CASE Abgebrochen
  BY <1>3, AbgebrochenIInv
<1>4. CASE \/ \E s \in Sender : SendeBeginn(s)
           \/ \E r \in Rufer : SperreErhalten(r) \/ DrainEndet(r)
  BY <1>4, SendenIInv
<1>5. CASE UNCHANGED vars
  BY <1>5 DEF IInv, TypeOK, Inhaber, WriterPasst, StatusPasstZuWriter, NurInVersion, vars
<1> QED
  BY <1>1, <1>2, <1>3, <1>4, <1>5 DEF Next, Betrieb

LEMMA IInvImmer == Spec => []IInv
  BY AnfangIInv, SchrittIInv, PTL DEF Spec

\* Types, and that whoever has called send and not returned is in the queue for
\* the lock exactly once, for any number of callers and any cancel.
THEOREM TypKorrekt == Spec => []TypeOK
<1>1. IInv => TypeOK
  BY DEF IInv
<1> QED
  BY <1>1, IInvImmer, PTL

\* The status shown is CONNECTED exactly while send has a writer.
THEOREM StatusStimmt == Spec => []StatusPasstZuWriter
<1>1. IInv => StatusPasstZuWriter
  BY DEF IInv
<1> QED
  BY <1>1, IInvImmer, PTL

\* No two callers are between write and the end of drain at once.
THEOREM NurEinerSchreibt == Spec => []EinerSchreibt
<1>1. IInv => EinerSchreibt
  BY DEF IInv, Inhaber, EinerSchreibt
<1> QED
  BY <1>1, IInvImmer, PTL
=============================================================================
