----------------------------- MODULE MemoriaProofs -----------------------------
(***************************************************************************)
(* What holds of Memoria for every size of the memory and of its segment  *)
(* 0, every set of PIDs, IDs and sizes, and the three algorithms.  The    *)
(* segments of the tables, those that are being freed and the holes are   *)
(* pieces of one memory (Trozos); an action replaces some of them by      *)
(* others that have the same bytes, and holes are never neighbours.       *)
(***************************************************************************)
EXTENDS Memoria, TLAPS, SequenceTheorems, FiniteSetTheorems, FunctionTheorems,
        WellFoundedInduction, NaturalsInduction

-----------------------------------------------------------------------------
(* Lists *)

Inyectiva(l) == \A i, j \in DOMAIN l : l[i] = l[j] => i = j

\* What SelectInSeq finds.
LEMMA HayMinimo ==
    ASSUME NEW S \in SUBSET Nat, S # {}
    PROVE  Min(S) \in S /\ \A x \in S : Min(S) <= x
  <1> DEFINE R == OpToRel(<, Nat)
  <1>1. IsWellFoundedOn(R, Nat)
    BY NatLessThanWellFounded
  <1>2. \A x, y \in Nat : <<y, x>> \in R <=> y < x
    BY DEF OpToRel
  <1> HIDE DEF R
  <1>3. PICK x \in S : \A y \in S : ~ (<<y, x>> \in R)
    BY <1>1, WFMin
  <1>4. ASSUME NEW y \in S PROVE x =< y
    <2>1. x \in Nat /\ y \in Nat /\ ~ (<<y, x>> \in R)
      BY <1>3
    <2>2. ~ (y < x)
      BY <1>2, <2>1
    <2> QED
      BY <2>1, <2>2
  <1> QED
    BY <1>4 DEF Min

\* list_add.
LEMMA AgregarAlFinal ==
    ASSUME NEW S, NEW s \in Seq(S), NEW e \in S
    PROVE  /\ Append(s, e) \in Seq(S) /\ Len(Append(s, e)) = Len(s) + 1
           /\ \A i \in 1 .. Len(s) : Append(s, e)[i] = s[i]
           /\ Append(s, e)[Len(s) + 1] = e
           /\ Range(Append(s, e)) = Range(s) \cup {e}
           /\ Inyectiva(s) /\ e \notin Range(s) => Inyectiva(Append(s, e))
  <1> DEFINE n == Len(s)
             t == Append(s, e)
  <1>1. /\ n \in Nat /\ DOMAIN s = 1 .. n /\ DOMAIN t = 1 .. n + 1 /\ t \in Seq(S)
        /\ Len(t) = n + 1 /\ t[n + 1] = e
        /\ \A i \in 1 .. n : t[i] = s[i]
    BY LenProperties, AppendProperties
  <1> HIDE DEF n, t
  <1>2. Range(t) = Range(s) \cup {e}
    <2>1. ASSUME NEW i \in 1 .. n + 1 PROVE t[i] \in Range(s) \cup {e}
      BY <1>1 DEF Range
    <2>2. ASSUME NEW i \in 1 .. n PROVE s[i] \in Range(t)
      <3>1. i \in 1 .. n + 1 /\ t[i] = s[i]
        BY <1>1
      <3> QED
        BY <1>1, <3>1 DEF Range
    <2>3. n + 1 \in 1 .. n + 1
      BY <1>1
    <2>4. e \in Range(t)
      BY <1>1, <2>3 DEF Range
    <2> QED
      BY <1>1, <2>1, <2>2, <2>4 DEF Range
  <1>3. ASSUME Inyectiva(s), e \notin Range(s), NEW i \in 1 .. n + 1, NEW j \in 1 .. n + 1,
               t[i] = t[j]
        PROVE  i = j
    <2>1. \A k \in 1 .. n : t[k] # e
      BY <1>1, <1>3 DEF Range
    <2>2. CASE i = n + 1 \/ j = n + 1
      BY <1>1, <1>3, <2>1, <2>2
    <2>3. CASE i \in 1 .. n /\ j \in 1 .. n
      BY <1>1, <1>3, <2>3 DEF Inyectiva
    <2> QED
      BY <1>1, <2>2, <2>3
  <1>4. Inyectiva(s) /\ e \notin Range(s) => Inyectiva(t)
    BY <1>1, <1>3 DEF Inyectiva
  <1> QED
    BY <1>1, <1>2, <1>4 DEF n, t

\* list_remove.
LEMMA QuitarUno ==
    ASSUME NEW S, NEW s \in Seq(S), NEW k \in 1 .. Len(s)
    PROVE  /\ RemoveAt(s, k) \in Seq(S) /\ Len(RemoveAt(s, k)) = Len(s) - 1
           /\ \A i \in 1 .. k - 1 : RemoveAt(s, k)[i] = s[i]
           /\ \A i \in k .. Len(s) - 1 : RemoveAt(s, k)[i] = s[i + 1]
  <1> DEFINE n == Len(s)
             a == SubSeq(s, 1, k - 1)
             b == SubSeq(s, k + 1, n)
  <1>1. n \in Nat /\ k \in Nat /\ k >= 1 /\ k <= n /\ \A i \in 1 .. n : s[i] \in S
    BY LenProperties, ElementOfSeq
  <1>2. /\ a \in Seq(S) /\ Len(a) = k - 1 /\ \A i \in 1 .. k - 1 : a[i] = s[i]
    BY <1>1, SubSeqProperties
  <1>3. /\ b \in Seq(S) /\ Len(b) = n - k /\ \A i \in 1 .. n - k : b[i] = s[i + k]
    BY <1>1, SubSeqProperties
  <1> HIDE DEF a, b, n
  <1>4. PICK t : t = a \o b
    OBVIOUS
  <1>5. /\ t \in Seq(S) /\ Len(t) = (k - 1) + (n - k)
        /\ \A i \in 1 .. (k - 1) + (n - k) : t[i] = IF i <= k - 1 THEN a[i] ELSE b[i - (k - 1)]
    BY <1>2, <1>3, <1>4, ConcatProperties
  <1>6. ASSUME NEW i \in 1 .. k - 1 PROVE t[i] = s[i]
    BY <1>1, <1>2, <1>5
  <1>7. ASSUME NEW i \in k .. n - 1 PROVE t[i] = s[i + 1]
    <2>1. i \in 1 .. (k - 1) + (n - k) /\ ~ (i <= k - 1) /\ i - (k - 1) \in 1 .. n - k
          /\ (i - (k - 1)) + k = i + 1
      BY <1>1
    <2>2. t[i] = b[i - (k - 1)]
      BY <1>5, <2>1
    <2>3. b[i - (k - 1)] = s[(i - (k - 1)) + k]
      BY <1>3, <2>1
    <2> QED
      BY <2>1, <2>2, <2>3
  <1>8. RemoveAt(s, k) = t
    BY <1>4 DEF RemoveAt, a, b, n
  <1>9. /\ t \in Seq(S) /\ Len(t) = n - 1
        /\ \A i \in 1 .. k - 1 : t[i] = s[i]
        /\ \A i \in k .. n - 1 : t[i] = s[i + 1]
    BY <1>1, <1>5, <1>6, <1>7
  <1> QED
    BY <1>8, <1>9 DEF n

LEMMA QuitarDeInyectiva ==
    ASSUME NEW S, NEW s \in Seq(S), NEW k \in 1 .. Len(s), Inyectiva(s)
    PROVE  Range(RemoveAt(s, k)) = Range(s) \ {s[k]} /\ Inyectiva(RemoveAt(s, k))
  <1>1. PICK n \in Nat : n = Len(s)
    BY LenProperties
  <1>2. PICK t : t = RemoveAt(s, k)
    OBVIOUS
  <1>3. /\ t \in Seq(S) /\ Len(t) = n - 1
        /\ \A i \in 1 .. k - 1 : t[i] = s[i]
        /\ \A i \in k .. n - 1 : t[i] = s[i + 1]
    BY <1>1, <1>2, QuitarUno
  <1>4. DOMAIN s = 1 .. n /\ DOMAIN t = 1 .. n - 1 /\ k \in 1 .. n
    BY <1>1, <1>3, LenProperties
  <1>5. \A i \in 1 .. n - 1 :
           \/ i \in 1 .. k - 1 /\ i \in 1 .. n /\ i # k /\ t[i] = s[i]
           \/ i \in k .. n - 1 /\ i + 1 \in 1 .. n /\ i + 1 # k /\ t[i] = s[i + 1]
    BY <1>3, <1>4
  <1>6. \A i \in 1 .. n - 1 : t[i] \in Range(s) \ {s[k]}
    BY <1>4, <1>5 DEF Range, Inyectiva
  <1>7. ASSUME NEW i \in 1 .. n, i # k PROVE s[i] \in Range(t)
    <2>1. CASE i < k
      <3>1. i \in 1 .. n - 1 /\ t[i] = s[i]
        BY <1>3, <1>4, <2>1
      <3> QED
        BY <1>4, <3>1 DEF Range
    <2>2. CASE i > k
      <3>1. i - 1 \in 1 .. n - 1 /\ i - 1 \in k .. n - 1 /\ (i - 1) + 1 = i
        BY <1>4, <2>2
      <3>2. t[i - 1] = s[i]
        BY <1>3, <3>1
      <3> QED
        BY <1>4, <3>1, <3>2 DEF Range
    <2> QED
      BY <1>4, <1>7, <2>1, <2>2
  <1>8. Range(t) = Range(s) \ {s[k]}
    BY <1>4, <1>6, <1>7 DEF Range
  <1>9. ASSUME NEW i \in 1 .. n - 1, NEW j \in 1 .. n - 1, t[i] = t[j] PROVE i = j
    <2>1. CASE i \in 1 .. k - 1 /\ j \in 1 .. k - 1
      BY <1>3, <1>4, <1>9, <2>1 DEF Inyectiva
    <2>2. CASE i \in 1 .. k - 1 /\ j \in k .. n - 1
      <3>1. i \in 1 .. n /\ j + 1 \in 1 .. n /\ s[i] = s[j + 1] /\ i # j + 1
        BY <1>3, <1>4, <1>9, <2>2
      <3> QED
        BY <1>4, <3>1 DEF Inyectiva
    <2>3. CASE i \in k .. n - 1 /\ j \in 1 .. k - 1
      <3>1. j \in 1 .. n /\ i + 1 \in 1 .. n /\ s[j] = s[i + 1] /\ j # i + 1
        BY <1>3, <1>4, <1>9, <2>3
      <3> QED
        BY <1>4, <3>1 DEF Inyectiva
    <2>4. CASE i \in k .. n - 1 /\ j \in k .. n - 1
      <3>1. i + 1 \in 1 .. n /\ j + 1 \in 1 .. n /\ s[i + 1] = s[j + 1]
        BY <1>3, <1>4, <1>9, <2>4
      <3>2. i + 1 = j + 1
        BY <1>4, <3>1 DEF Inyectiva
      <3> QED
        BY <3>2
    <2> QED
      BY <1>4, <2>1, <2>2, <2>3, <2>4
  <1>10. Inyectiva(t)
    BY <1>4, <1>9 DEF Inyectiva
  <1> QED
    BY <1>2, <1>8, <1>10

\* An element of the list is changed in place.
EsCambio(t, s, k, e) == t = [s EXCEPT ![k] = e]

LEMMA CambiarUno ==
    ASSUME NEW S, NEW s \in Seq(S), NEW k \in 1 .. Len(s), NEW e \in S, Inyectiva(s),
           e \notin Range(s) \ {s[k]},
           NEW t, EsCambio(t, s, k, e)
    PROVE  /\ t \in Seq(S) /\ Len(t) = Len(s)
           /\ \A i \in 1 .. Len(s) : t[i] = IF i = k THEN e ELSE s[i]
           /\ Range(t) = (Range(s) \ {s[k]}) \cup {e} /\ Inyectiva(t)
  <1>1. PICK n \in Nat : n = Len(s)
    BY LenProperties
  <1>2. /\ t \in Seq(S) /\ Len(t) = n /\ DOMAIN s = 1 .. n /\ DOMAIN t = 1 .. n
        /\ \A i \in 1 .. n : t[i] = IF i = k THEN e ELSE s[i]
    BY <1>1, ExceptSeq, LenProperties DEF EsCambio
  <1>3. \A i \in 1 .. n : s[i] = s[k] => i = k
    BY <1>1, <1>2 DEF Inyectiva
  <1>4. \A i \in 1 .. n : i # k => s[i] \in Range(s) \ {s[k]}
    BY <1>2, <1>3 DEF Range
  <1>5. Range(t) = (Range(s) \ {s[k]}) \cup {e}
    BY <1>1, <1>2, <1>3 DEF Range
  <1>6. Inyectiva(t)
    BY <1>1, <1>2, <1>4 DEF Inyectiva
  <1> QED
    BY <1>1, <1>2, <1>5, <1>6
-----------------------------------------------------------------------------
(* Holes *)

Hueco == [pos : Nat, size : Nat \ {0}]
EnHueco(d, h) == h.pos <= d /\ d < h.pos + h.size

\* Two holes have something between them.
Separados(S) == \A a, b \in S : a # b => a.pos + a.size < b.pos \/ b.pos + b.size < a.pos

\* One hole takes the place of some, and of the bytes from b to b + l.
Absorbe(m, Q, b, l) ==
    \A d \in Nat : EnHueco(d, m) <=> (b <= d /\ d < b + l) \/ \E q \in Q : EnHueco(d, q)

\* The bytes from b to b + l are in no hole; which holes touch them.
NoEsta(R, b, l) ==
    b \in Nat /\ l \in Nat /\ l > 0 /\ \A h \in R : h.pos + h.size <= b \/ b + l <= h.pos
Tocan(h, b, l) == h.pos + h.size = b \/ b + l = h.pos
Vecinos(R, Q, b, l) == \A h \in R : Tocan(h, b, l) => h \in Q

\* A hole that grows over free bytes, and over the hole that follows them.
LEMMA Crece ==
    ASSUME NEW R \in SUBSET Hueco, Separados(R), NEW b, NEW l, NoEsta(R, b, l),
           NEW Q \in SUBSET R, NEW m \in Hueco, Absorbe(m, Q, b, l), Vecinos(R, Q, b, l)
    PROVE  m \notin R \ Q /\ Separados((R \ Q) \cup {m})
  <1>1. /\ b \in Nat /\ l \in Nat /\ l > 0 /\ m.pos \in Nat /\ m.size \in Nat /\ m.size > 0
        /\ \A h \in R : h.pos \in Nat /\ h.size \in Nat /\ h.size > 0
        /\ \A h \in R : h.pos + h.size <= b \/ b + l <= h.pos
        /\ \A h \in R : h.pos + h.size = b => h \in Q
        /\ \A h \in R : b + l = h.pos => h \in Q
    BY DEF Hueco, NoEsta, Vecinos, Tocan
  <1>2. ASSUME NEW h \in R \ Q PROVE h.pos + h.size < m.pos \/ m.pos + m.size < h.pos
    <2> DEFINE hp == h.pos
               he == h.pos + h.size
               mp == m.pos
               me == m.pos + m.size
    <2>1. hp \in Nat /\ he \in Nat /\ hp < he /\ mp \in Nat /\ me \in Nat /\ mp < me
      BY <1>1
    <2>2. \A d \in Nat : hp <= d /\ d <= he => ~ (b <= d /\ d < b + l) \/ d = he
      BY <1>1, <1>2
    <2>3. ASSUME NEW q \in Q PROVE he < q.pos \/ q.pos + q.size < hp
      BY <1>2, <2>3 DEF Separados
    <2>4. \A q \in Q : q.pos \in Nat /\ q.size \in Nat
      BY <1>1
    <2>5. he < b \/ b + l < hp
      BY <1>1, <1>2
    <2>6. ASSUME NEW d \in Nat, hp <= d, d <= he PROVE ~EnHueco(d, m)
      <3>1. ~ (b <= d /\ d < b + l)
        BY <1>1, <2>1, <2>5, <2>6
      <3>2. \A q \in Q : ~EnHueco(d, q)
        BY <2>1, <2>3, <2>4, <2>6 DEF EnHueco
      <3> QED
        BY <3>1, <3>2 DEF Absorbe
    <2>7. ASSUME NEW d \in Nat, hp <= d, d <= he PROVE ~ (mp <= d /\ d < me)
      BY <2>6, <2>7 DEF EnHueco
    <2>8. \A d \in Nat : EnHueco(d, m) <=> mp <= d /\ d < me
      BY DEF EnHueco
    <2>9. mp # he /\ me # hp
      <3>1. mp # he
        BY <2>1, <2>7
      <3>2. ASSUME me = hp PROVE FALSE
        <4>1. me - 1 \in Nat /\ mp <= me - 1 /\ me - 1 < me
          BY <2>1
        <4>2. EnHueco(me - 1, m)
          BY <2>8, <4>1
        <4>3. (b <= me - 1 /\ me - 1 < b + l) \/ \E q \in Q : EnHueco(me - 1, q)
          BY <4>1, <4>2 DEF Absorbe
        <4>4. CASE b <= me - 1 /\ me - 1 < b + l
          BY <1>1, <2>1, <2>5, <3>2, <4>4
        <4>5. ASSUME NEW q \in Q, EnHueco(me - 1, q) PROVE FALSE
          BY <2>1, <2>3, <2>4, <3>2, <4>5 DEF EnHueco
        <4> QED
          BY <4>3, <4>4, <4>5
      <3> QED
        BY <3>1, <3>2
    <2> HIDE DEF hp, he, mp, me
    <2>10. he < mp \/ me < hp
      <3>1. ASSUME ~ (he < mp), ~ (me < hp) PROVE FALSE
        <4>1. CASE mp <= hp
          BY <2>1, <2>7, <2>9, <3>1, <4>1
        <4>2. CASE hp < mp
          BY <2>1, <2>7, <2>9, <3>1, <4>2
        <4> QED
          BY <2>1, <4>1, <4>2
      <3> QED
        BY <3>1
    <2> QED
      BY <2>10 DEF hp, he, mp, me
  <1>3. m \notin R \ Q
    BY <1>1, <1>2
  <1>4. Separados((R \ Q) \cup {m})
    BY <1>2 DEF Separados
  <1> QED
    BY <1>3, <1>4

\* A list of holes as they must be.
ListaDeHuecos(hs) == hs \in Seq(Hueco) /\ Inyectiva(hs) /\ Separados(Range(hs))

\* The list r has, for some holes of hs and the bytes that are freed, one hole.
Alojado(r, hs, b, l) ==
    /\ ListaDeHuecos(r)
    /\ \E Q \in SUBSET Range(hs), m \in Hueco :
          Range(r) = (Range(hs) \ Q) \cup {m} /\ Absorbe(m, Q, b, l)

LEMMA UnHueco ==
    ASSUME NEW hs, ListaDeHuecos(hs), NEW i \in 1 .. Len(hs)
    PROVE  /\ hs[i] \in Range(hs) /\ hs[i] \in Hueco
           /\ hs[i].pos \in Nat /\ hs[i].size \in Nat /\ hs[i].size > 0
  <1>1. hs \in Seq(Hueco)
    BY DEF ListaDeHuecos
  <1>2. hs[i] \in Hueco /\ i \in DOMAIN hs
    BY <1>1, LenProperties, ElementOfSeq
  <1> QED
    BY <1>2 DEF Hueco, Range

\* The new hole is the only one that touches the freed bytes.
LEMMA Alojada ==
    ASSUME NEW hs, ListaDeHuecos(hs), NEW b, NEW l, NoEsta(Range(hs), b, l),
           NEW Q \in SUBSET Range(hs), NEW m \in Hueco, Absorbe(m, Q, b, l),
           Vecinos(Range(hs), Q, b, l),
           NEW r \in Seq(Hueco), Inyectiva(r), Range(r) = (Range(hs) \ Q) \cup {m}
    PROVE  Alojado(r, hs, b, l)
  <1>1. Range(hs) \in SUBSET Hueco /\ Separados(Range(hs))
    <2>1. hs \in Seq(Hueco)
      BY DEF ListaDeHuecos
    <2>2. \A i \in DOMAIN hs : hs[i] \in Hueco
      BY <2>1, LenProperties, ElementOfSeq
    <2> QED
      BY <2>2 DEF Range, ListaDeHuecos
  <1>2. Separados((Range(hs) \ Q) \cup {m})
    BY <1>1, Crece
  <1>3. ListaDeHuecos(r)
    BY <1>2, Zenon DEF ListaDeHuecos
  <1> QED
    BY <1>3 DEF Alojado

LEMMA NoSeRepite ==
    ASSUME NEW hs, ListaDeHuecos(hs), NEW b, NEW l, NoEsta(Range(hs), b, l),
           NEW Q \in SUBSET Range(hs), NEW m \in Hueco, Absorbe(m, Q, b, l),
           Vecinos(Range(hs), Q, b, l)
    PROVE  m \notin Range(hs) \ Q
  <1>1. Range(hs) \in SUBSET Hueco /\ Separados(Range(hs))
    <2>1. hs \in Seq(Hueco)
      BY DEF ListaDeHuecos
    <2>2. \A i \in DOMAIN hs : hs[i] \in Hueco
      BY <2>1, LenProperties, ElementOfSeq
    <2> QED
      BY <2>2 DEF Range, ListaDeHuecos
  <1> QED
    BY <1>1, Crece

LEMMA UnSoloVecino ==
    ASSUME NEW hs, ListaDeHuecos(hs), NEW x \in Range(hs), NEW y \in Range(hs),
           x.pos + x.size = y.pos + y.size \/ x.pos = y.pos
    PROVE  x = y
  <1>1. x \in Hueco /\ y \in Hueco
    <2>1. hs \in Seq(Hueco)
      BY DEF ListaDeHuecos
    <2>2. \A i \in DOMAIN hs : hs[i] \in Hueco
      BY <2>1, LenProperties, ElementOfSeq
    <2> QED
      BY <2>2 DEF Range
  <1>2. /\ x.pos \in Nat /\ x.size \in Nat /\ x.size > 0
        /\ y.pos \in Nat /\ y.size \in Nat /\ y.size > 0
    BY <1>1 DEF Hueco
  <1>3. x # y => x.pos + x.size < y.pos \/ y.pos + y.size < x.pos
    BY DEF ListaDeHuecos, Separados
  <1> QED
    BY <1>2, <1>3

\* Two holes and what is between them.
DeDos(m, x, y, l) == m = [pos |-> x.pos, size |-> x.size + l + y.size]

LEMMA DosYMedio ==
    ASSUME NEW x \in Hueco, NEW y \in Hueco, NEW b \in Nat, NEW l \in Nat, l > 0,
           x.pos + x.size = b, b + l = y.pos,
           NEW m, DeDos(m, x, y, l)
    PROVE  m \in Hueco /\ m # y /\ Absorbe(m, {x, y}, b, l) /\ x # y
  <1>1. /\ x.pos \in Nat /\ x.size \in Nat /\ x.size > 0
        /\ y.pos \in Nat /\ y.size \in Nat /\ y.size > 0
    BY DEF Hueco
  <1>2. m.pos = x.pos /\ m.size = x.size + l + y.size /\ m.pos + m.size = y.pos + y.size
    BY <1>1 DEF DeDos
  <1>3. m \in Hueco
    BY <1>1 DEF Hueco, DeDos
  <1> QED
    BY <1>1, <1>2, <1>3 DEF Absorbe, EnHueco, Hueco

LEMMA AlojarEntreDos ==
    ASSUME NEW hs, ListaDeHuecos(hs), NEW b, NEW l, NoEsta(Range(hs), b, l),
           NEW inf \in 1 .. Len(hs), hs[inf].pos + hs[inf].size = b,
           NEW sup \in 1 .. Len(hs), b + l = hs[sup].pos
    PROVE  Alojado(RemoveAt([hs EXCEPT ![inf].size = @ + l + hs[sup].size], sup), hs, b, l)
  <1>1. PICK x \in Range(hs), y \in Range(hs) : x = hs[inf] /\ y = hs[sup]
    BY UnHueco
  <1>2. /\ x \in Hueco /\ x.pos \in Nat /\ x.size \in Nat /\ x.size > 0 /\ x.pos + x.size = b
        /\ y \in Hueco /\ y.pos \in Nat /\ y.size \in Nat /\ y.size > 0 /\ b + l = y.pos
    BY <1>1, UnHueco
  <1>3. b \in Nat /\ l \in Nat /\ l > 0
    BY DEF NoEsta
  <1>4. PICK m : DeDos(m, x, y, l)
    BY DEF DeDos
  <1>5. m \in Hueco /\ m # y /\ Absorbe(m, {x, y}, b, l) /\ x # y
    BY <1>2, <1>3, <1>4, DosYMedio
  <1>6. [hs[inf] EXCEPT !.size = @ + l + hs[sup].size] = m
    <2>1. [x EXCEPT !.size = @ + l + y.size] = m
      BY <1>2, <1>4 DEF Hueco, DeDos
    <2> QED
      BY <1>1, <2>1, Zenon
  <1>7. PICK Q : Q = {x, y}
    OBVIOUS
  <1>8. Absorbe(m, Q, b, l)
    BY <1>5, <1>7
  <1>9. Vecinos(Range(hs), Q, b, l)
    <2> SUFFICES ASSUME NEW h \in Range(hs), Tocan(h, b, l) PROVE h \in Q
      BY DEF Vecinos
    <2>1. h.pos + h.size = x.pos + x.size \/ h.pos = y.pos
      BY <1>2 DEF Tocan
    <2> QED
      BY <1>7, <2>1, UnSoloVecino
  <1>10. Q \in SUBSET Range(hs)
    BY <1>7
  <1>11. m \notin Range(hs) \ Q
    BY <1>5, <1>8, <1>9, <1>10, NoSeRepite
  <1>12. m \notin Range(hs) \ {hs[inf]}
    BY <1>1, <1>5, <1>7, <1>11
  <1>13. PICK k : EsCambio(k, hs, inf, m)
    BY DEF EsCambio
  <1>14. hs \in Seq(Hueco) /\ Inyectiva(hs)
    BY DEF ListaDeHuecos
  <1>15. /\ k \in Seq(Hueco) /\ Len(k) = Len(hs)
         /\ \A i \in 1 .. Len(hs) : k[i] = IF i = inf THEN m ELSE hs[i]
         /\ Range(k) = (Range(hs) \ {hs[inf]}) \cup {m} /\ Inyectiva(k)
    BY <1>5, <1>12, <1>13, <1>14, CambiarUno
  <1>16. inf # sup
    BY <1>1, <1>5
  <1>17. sup \in 1 .. Len(k) /\ k[sup] = y
    BY <1>1, <1>15, <1>16
  <1>18. PICK r : r = RemoveAt(k, sup)
    OBVIOUS
  <1>19. r \in Seq(Hueco) /\ Range(r) = Range(k) \ {y} /\ Inyectiva(r)
    BY <1>15, <1>17, <1>18, QuitarUno, QuitarDeInyectiva
  <1>20. Range(r) = (Range(hs) \ Q) \cup {m}
    BY <1>1, <1>5, <1>7, <1>15, <1>19
  <1>21. Alojado(r, hs, b, l)
    BY <1>5, <1>8, <1>9, <1>10, <1>19, <1>20, Alojada
  <1>22. [hs EXCEPT ![inf].size = @ + l + hs[sup].size] = k
    BY <1>6, <1>13 DEF EsCambio
  <1> QED
    BY <1>18, <1>21, <1>22, Zenon

LEMMA AlojarEncima ==
    ASSUME NEW hs, ListaDeHuecos(hs), NEW b, NEW l, NoEsta(Range(hs), b, l),
           NEW inf \in 1 .. Len(hs), hs[inf].pos + hs[inf].size = b,
           \A h \in Range(hs) : b + l # h.pos
    PROVE  Alojado([hs EXCEPT ![inf].size = @ + l], hs, b, l)
  <1>1. PICK x \in Range(hs) : x = hs[inf]
    BY UnHueco
  <1>2. /\ x \in Hueco /\ x.pos \in Nat /\ x.size \in Nat /\ x.size > 0 /\ x.pos + x.size = b
    BY <1>1, UnHueco
  <1>3. b \in Nat /\ l \in Nat /\ l > 0
    BY DEF NoEsta
  <1>4. PICK m : m = [pos |-> x.pos, size |-> x.size + l]
    OBVIOUS
  <1>5. /\ m \in Hueco /\ m.pos = x.pos /\ m.size = x.size + l /\ m.pos + m.size = b + l
    <2>1. PICK y \in Nat, n \in Nat : y = x.pos /\ n = x.size + l /\ n > 0 /\ y + n = b + l
      BY <1>2, <1>3
    <2>2. m = [pos |-> y, size |-> n]
      BY <1>4, <2>1
    <2> QED
      BY <2>1, <2>2 DEF Hueco
  <1>6. [hs[inf] EXCEPT !.size = @ + l] = m
    <2>1. [x EXCEPT !.size = @ + l] = m
      BY <1>2, <1>4 DEF Hueco
    <2> QED
      BY <1>1, <2>1, Zenon
  <1>7. PICK Q : Q = {x}
    OBVIOUS
  <1>8. Absorbe(m, Q, b, l)
    BY <1>2, <1>3, <1>5, <1>7 DEF Absorbe, EnHueco
  <1>9. Vecinos(Range(hs), Q, b, l)
    <2> SUFFICES ASSUME NEW h \in Range(hs), Tocan(h, b, l) PROVE h \in Q
      BY DEF Vecinos
    <2>1. h.pos + h.size = x.pos + x.size
      BY <1>2 DEF Tocan
    <2> QED
      BY <1>7, <2>1, UnSoloVecino
  <1>10. Q \in SUBSET Range(hs)
    BY <1>7
  <1>11. m \notin Range(hs) \ {hs[inf]}
    BY <1>1, <1>5, <1>7, <1>8, <1>9, <1>10, NoSeRepite
  <1>12. PICK r : EsCambio(r, hs, inf, m)
    BY DEF EsCambio
  <1>13. hs \in Seq(Hueco) /\ Inyectiva(hs)
    BY DEF ListaDeHuecos
  <1>14. r \in Seq(Hueco) /\ Range(r) = (Range(hs) \ {hs[inf]}) \cup {m} /\ Inyectiva(r)
    BY <1>5, <1>11, <1>12, <1>13, CambiarUno
  <1>15. Range(r) = (Range(hs) \ Q) \cup {m}
    BY <1>1, <1>7, <1>14
  <1>16. Alojado(r, hs, b, l)
    BY <1>5, <1>8, <1>9, <1>10, <1>14, <1>15, Alojada
  <1>17. [hs EXCEPT ![inf].size = @ + l] = r
    BY <1>6, <1>12 DEF EsCambio
  <1> QED
    BY <1>16, <1>17, Zenon

LEMMA AlojarDebajo ==
    ASSUME NEW hs, ListaDeHuecos(hs), NEW b, NEW l, NoEsta(Range(hs), b, l),
           NEW sup \in 1 .. Len(hs), b + l = hs[sup].pos,
           \A h \in Range(hs) : h.pos + h.size # b
    PROVE  Alojado([hs EXCEPT ![sup] = [pos |-> b, size |-> @.size + l]], hs, b, l)
  <1>1. PICK y \in Range(hs) : y = hs[sup]
    BY UnHueco
  <1>2. /\ y \in Hueco /\ y.pos \in Nat /\ y.size \in Nat /\ y.size > 0 /\ b + l = y.pos
    BY <1>1, UnHueco
  <1>3. b \in Nat /\ l \in Nat /\ l > 0
    BY DEF NoEsta
  <1>4. PICK m : m = [pos |-> b, size |-> y.size + l]
    OBVIOUS
  <1>5. /\ m \in Hueco /\ m.pos = b /\ m.size = y.size + l /\ m.pos + m.size = y.pos + y.size
    BY <1>2, <1>3, <1>4 DEF Hueco
  <1>6. [pos |-> b, size |-> hs[sup].size + l] = m
    BY <1>1, <1>4
  <1>7. PICK Q : Q = {y}
    OBVIOUS
  <1>8. Absorbe(m, Q, b, l)
    BY <1>2, <1>3, <1>5, <1>7 DEF Absorbe, EnHueco
  <1>9. Vecinos(Range(hs), Q, b, l)
    <2> SUFFICES ASSUME NEW h \in Range(hs), Tocan(h, b, l) PROVE h \in Q
      BY DEF Vecinos
    <2>1. h.pos = y.pos
      BY <1>2 DEF Tocan
    <2> QED
      BY <1>7, <2>1, UnSoloVecino
  <1>10. Q \in SUBSET Range(hs)
    BY <1>7
  <1>11. m \notin Range(hs) \ {hs[sup]}
    BY <1>1, <1>5, <1>7, <1>8, <1>9, <1>10, NoSeRepite
  <1>12. PICK r : EsCambio(r, hs, sup, m)
    BY DEF EsCambio
  <1>13. hs \in Seq(Hueco) /\ Inyectiva(hs)
    BY DEF ListaDeHuecos
  <1>14. r \in Seq(Hueco) /\ Range(r) = (Range(hs) \ {hs[sup]}) \cup {m} /\ Inyectiva(r)
    BY <1>5, <1>11, <1>12, <1>13, CambiarUno
  <1>15. Range(r) = (Range(hs) \ Q) \cup {m}
    BY <1>1, <1>7, <1>14
  <1>16. Alojado(r, hs, b, l)
    BY <1>5, <1>8, <1>9, <1>10, <1>14, <1>15, Alojada
  <1>17. [hs EXCEPT ![sup] = [pos |-> b, size |-> @.size + l]] = r
    BY <1>6, <1>12 DEF EsCambio
  <1> QED
    BY <1>16, <1>17, Zenon

LEMMA AlojarAparte ==
    ASSUME NEW hs, ListaDeHuecos(hs), NEW b, NEW l, NoEsta(Range(hs), b, l),
           \A h \in Range(hs) : h.pos + h.size # b,
           \A h \in Range(hs) : b + l # h.pos
    PROVE  Alojado(Append(hs, [pos |-> b, size |-> l]), hs, b, l)
  <1>1. b \in Nat /\ l \in Nat /\ l > 0
    BY DEF NoEsta
  <1>2. PICK m : m = [pos |-> b, size |-> l]
    OBVIOUS
  <1>3. /\ m \in Hueco /\ m.pos = b /\ m.size = l
    BY <1>1, <1>2 DEF Hueco
  <1>4. PICK Q : Q = {}
    OBVIOUS
  <1>5. Absorbe(m, Q, b, l)
    BY <1>1, <1>3, <1>4 DEF Absorbe, EnHueco
  <1>6. Vecinos(Range(hs), Q, b, l) /\ Q \in SUBSET Range(hs)
    BY <1>4 DEF Vecinos, Tocan
  <1>7. m \notin Range(hs)
    BY <1>3, <1>4, <1>5, <1>6, NoSeRepite
  <1>8. PICK r : r = Append(hs, m)
    OBVIOUS
  <1>9. hs \in Seq(Hueco) /\ Inyectiva(hs)
    BY DEF ListaDeHuecos
  <1>10. r \in Seq(Hueco) /\ Range(r) = Range(hs) \cup {m} /\ Inyectiva(r)
    BY <1>3, <1>7, <1>8, <1>9, AgregarAlFinal
  <1>11. Range(r) = (Range(hs) \ Q) \cup {m}
    BY <1>4, <1>10
  <1>12. Alojado(r, hs, b, l)
    BY <1>3, <1>5, <1>6, <1>10, <1>11, Alojada
  <1> QED
    BY <1>2, <1>8, <1>12, Zenon

\* alojar_nuevo_hueco: whatever the order of the list, the freed bytes and the holes that touch
\* them become one hole, and holes have something between them as before.
LEMMA Alojar ==
    ASSUME NEW hs, ListaDeHuecos(hs), NEW b, NEW l, NoEsta(Range(hs), b, l)
    PROVE  Alojado(alojar_nuevo_hueco(hs, b, l), hs, b, l)
  <1> DEFINE I == {i \in 1 .. Len(hs) : EsAdyacenteInferior(hs[i], b)}
             J == {i \in 1 .. Len(hs) : EsAdyacenteSuperior(hs[i], b, l)}
  <1>1. PICK inf : inf = IF I # {} THEN Min(I) ELSE 0
    OBVIOUS
  <1>2. PICK sup : sup = IF J # {} THEN Min(J) ELSE 0
    OBVIOUS
  <1>3. inf = SelectInSeq(hs, LAMBDA h : EsAdyacenteInferior(h, b))
    BY <1>1 DEF SelectInSeq
  <1>4. sup = SelectInSeq(hs, LAMBDA h : EsAdyacenteSuperior(h, b, l))
    BY <1>2 DEF SelectInSeq
  <1>5. PICK r : r = alojar_nuevo_hueco(hs, b, l)
    OBVIOUS
  <1>6. r = CASE inf # 0 /\ sup # 0 -> RemoveAt([hs EXCEPT ![inf].size = @ + l + hs[sup].size], sup)
              [] inf # 0 /\ sup = 0 -> [hs EXCEPT ![inf].size = @ + l]
              [] inf = 0 /\ sup # 0 -> [hs EXCEPT ![sup] = [pos |-> b, size |-> @.size + l]]
              [] OTHER -> Append(hs, [pos |-> b, size |-> l])
    BY <1>3, <1>4, <1>5 DEF alojar_nuevo_hueco
  <1>7. Len(hs) \in Nat /\ DOMAIN hs = 1 .. Len(hs)
    BY LenProperties DEF ListaDeHuecos
  <1>8. I \in SUBSET Nat /\ 0 \notin I /\ J \in SUBSET Nat /\ 0 \notin J
    BY <1>7
  <1>9. (I # {} => Min(I) \in I) /\ (J # {} => Min(J) \in J)
    BY <1>8, HayMinimo
  <1>10. inf # 0 => inf \in 1 .. Len(hs) /\ hs[inf].pos + hs[inf].size = b
    BY <1>1, <1>9 DEF EsAdyacenteInferior
  <1>11. sup # 0 => sup \in 1 .. Len(hs) /\ b + l = hs[sup].pos
    BY <1>2, <1>9 DEF EsAdyacenteSuperior
  <1>12. inf = 0 => \A h \in Range(hs) : h.pos + h.size # b
    <2>1. inf = 0 => I = {}
      BY <1>1, <1>8, <1>9
    <2> QED
      BY <1>7, <2>1 DEF Range, EsAdyacenteInferior
  <1>13. sup = 0 => \A h \in Range(hs) : b + l # h.pos
    <2>1. sup = 0 => J = {}
      BY <1>2, <1>8, <1>9
    <2> QED
      BY <1>7, <2>1 DEF Range, EsAdyacenteSuperior
  <1>14. CASE inf # 0 /\ sup # 0
    <2>1. Alojado(RemoveAt([hs EXCEPT ![inf].size = @ + l + hs[sup].size], sup), hs, b, l)
      BY <1>10, <1>11, <1>14, AlojarEntreDos
    <2>2. r = RemoveAt([hs EXCEPT ![inf].size = @ + l + hs[sup].size], sup)
      BY <1>6, <1>14
    <2> QED
      BY <1>5, <2>1, <2>2, Zenon
  <1>15. CASE inf # 0 /\ sup = 0
    <2>1. Alojado([hs EXCEPT ![inf].size = @ + l], hs, b, l)
      BY <1>10, <1>13, <1>15, AlojarEncima
    <2>2. r = [hs EXCEPT ![inf].size = @ + l]
      BY <1>6, <1>15
    <2> QED
      BY <1>5, <2>1, <2>2, Zenon
  <1>16. CASE inf = 0 /\ sup # 0
    <2>1. Alojado([hs EXCEPT ![sup] = [pos |-> b, size |-> @.size + l]], hs, b, l)
      BY <1>11, <1>12, <1>16, AlojarDebajo
    <2>2. r = [hs EXCEPT ![sup] = [pos |-> b, size |-> @.size + l]]
      BY <1>6, <1>16
    <2> QED
      BY <1>5, <2>1, <2>2, Zenon
  <1>17. CASE inf = 0 /\ sup = 0
    <2>1. Alojado(Append(hs, [pos |-> b, size |-> l]), hs, b, l)
      BY <1>12, <1>13, <1>17, AlojarAparte
    <2>2. r = Append(hs, [pos |-> b, size |-> l])
      BY <1>6, <1>17
    <2> QED
      BY <1>5, <2>1, <2>2, Zenon
  <1> QED
    BY <1>14, <1>15, <1>16, <1>17
-----------------------------------------------------------------------------
(* The memory shared out: S, segments of the tables with their process; L, segments that are *)
(* being freed; H, holes.                                                                    *)

EnSeg(d, s) == s.base <= d /\ d < s.base + s.limite

Cubre(d, S, L, H) ==
    (\E e \in S : EnSeg(d, e[2])) \/ (\E s \in L : EnSeg(d, s)) \/ (\E h \in H : EnHueco(d, h))

\* No byte is in two pieces.
SinPisar(S, L, H) ==
    \A d \in Nat :
        /\ \A e, f \in S : EnSeg(d, e[2]) /\ EnSeg(d, f[2]) => e = f
        /\ \A s, t \in L : EnSeg(d, s) /\ EnSeg(d, t) => s = t
        /\ \A g, h \in H : EnHueco(d, g) /\ EnHueco(d, h) => g = h
        /\ \A e \in S, s \in L : ~ (EnSeg(d, e[2]) /\ EnSeg(d, s))
        /\ \A e \in S, h \in H : ~ (EnSeg(d, e[2]) /\ EnHueco(d, h))
        /\ \A s \in L, h \in H : ~ (EnSeg(d, s) /\ EnHueco(d, h))

Reparto(S, L, H) ==
    /\ SinPisar(S, L, H)
    /\ \A d \in Nat : Cubre(d, S, L, H) <=> TAM_SEGMENTO_0 <= d /\ d < TAM_MEMORIA

\* Some pieces take the place of others that have the same bytes.
MismosBytes(S1, L1, H1, S2, L2, H2) ==
    \A d \in Nat : Cubre(d, S1, L1, H1) <=> Cubre(d, S2, L2, H2)

LEMMA Cambio ==
    ASSUME NEW S, NEW L, NEW H, Reparto(S, L, H),
           NEW S1 \in SUBSET S, NEW L1 \in SUBSET L, NEW H1 \in SUBSET H,
           NEW S2, NEW L2, NEW H2, SinPisar(S2, L2, H2),
           MismosBytes(S1, L1, H1, S2, L2, H2),
           NEW SN, SN = (S \ S1) \cup S2, NEW LN, LN = (L \ L1) \cup L2,
           NEW HN, HN = (H \ H1) \cup H2
    PROVE  Reparto(SN, LN, HN)
  <1> DEFINE Quedan(d) == Cubre(d, S \ S1, L \ L1, H \ H1)
  <1>1. ASSUME NEW d \in Nat, Cubre(d, S1, L1, H1) PROVE ~ Quedan(d)
    BY <1>1 DEF Reparto, SinPisar, Cubre
  <1>2. ASSUME NEW d \in Nat, Cubre(d, S2, L2, H2) PROVE ~ Quedan(d)
    BY <1>1, <1>2 DEF MismosBytes
  <1>3. SinPisar(S \ S1, L \ L1, H \ H1)
    BY DEF Reparto, SinPisar
  <1>4. SinPisar(SN, LN, HN)
    <2> SUFFICES ASSUME NEW d \in Nat
                 PROVE  /\ \A e, f \in SN : EnSeg(d, e[2]) /\ EnSeg(d, f[2]) => e = f
                        /\ \A s, t \in LN : EnSeg(d, s) /\ EnSeg(d, t) => s = t
                        /\ \A g, h \in HN : EnHueco(d, g) /\ EnHueco(d, h) => g = h
                        /\ \A e \in SN, s \in LN : ~ (EnSeg(d, e[2]) /\ EnSeg(d, s))
                        /\ \A e \in SN, h \in HN : ~ (EnSeg(d, e[2]) /\ EnHueco(d, h))
                        /\ \A s \in LN, h \in HN : ~ (EnSeg(d, s) /\ EnHueco(d, h))
      BY DEF SinPisar
    <2>1. CASE Cubre(d, S2, L2, H2)
      <3>1. /\ \A e \in S \ S1 : ~ EnSeg(d, e[2])
            /\ \A s \in L \ L1 : ~ EnSeg(d, s)
            /\ \A h \in H \ H1 : ~ EnHueco(d, h)
        BY <1>2, <2>1 DEF Cubre
      <3> QED
        BY <3>1 DEF SinPisar
    <2>2. CASE ~ Cubre(d, S2, L2, H2)
      <3>1. /\ \A e \in S2 : ~ EnSeg(d, e[2])
            /\ \A s \in L2 : ~ EnSeg(d, s)
            /\ \A h \in H2 : ~ EnHueco(d, h)
        BY <2>2 DEF Cubre
      <3> QED
        BY <1>3, <3>1 DEF SinPisar
    <2> QED
      BY <2>1, <2>2
  <1>5. ASSUME NEW d \in Nat PROVE Cubre(d, SN, LN, HN) <=> Cubre(d, S, L, H)
    <2>1. Cubre(d, SN, LN, HN) <=> Quedan(d) \/ Cubre(d, S2, L2, H2)
      BY DEF Cubre
    <2>2. Cubre(d, S, L, H) <=> Quedan(d) \/ Cubre(d, S1, L1, H1)
      BY DEF Cubre
    <2> QED
      BY <2>1, <2>2 DEF MismosBytes
  <1> QED
    BY <1>4, <1>5 DEF Reparto

\* Two non-empty intervals with no number in common.
LEMMA Aparte ==
    ASSUME NEW a \in Nat, NEW m \in Nat, m > 0, NEW b \in Nat, NEW n \in Nat, n > 0,
           \A d \in Nat : ~ (a <= d /\ d < a + m /\ b <= d /\ d < b + n)
    PROVE  a + m <= b \/ b + n <= a
  <1>1. CASE a <= b
    BY <1>1
  <1>2. CASE b <= a
    BY <1>2
  <1> QED
    BY <1>1, <1>2
-----------------------------------------------------------------------------
(* Tables *)

\* A table: the shared segment 0, then others, none of them twice.
Lista(l) ==
    /\ l \in Seq(Segmento) /\ Len(l) > 0 /\ l[1] = segmento_0
    /\ \A i \in 2 .. Len(l) : l[i].ID \in IDs
    /\ Inyectiva(l)

Propio(s) == s # segmento_0
PropiosDe(l) == {s \in Range(l) : Propio(s)}
\* With its process, every segment of the tables D that is not the shared one.
SegmentosDe(D) == UNION {{<<p, s>> : s \in PropiosDe(D[p])} : p \in DOMAIN D}

\* The table of p becomes t.
EsTabla(DN, D, p, t) ==
    /\ DOMAIN DN = DOMAIN D
    /\ \A q \in DOMAIN D : DN[q] = IF q = p THEN t ELSE D[q]

LEMMA EnSegmentosDe ==
    ASSUME NEW D
    PROVE  /\ \A p, s : <<p, s>> \in SegmentosDe(D) <=> p \in DOMAIN D /\ s \in PropiosDe(D[p])
           /\ \A x \in SegmentosDe(D) : x = <<x[1], x[2]>>
  <1>1. \A x : x \in SegmentosDe(D) <=> \E p \in DOMAIN D : \E s \in PropiosDe(D[p]) : x = <<p, s>>
    BY DEF SegmentosDe
  <1> QED
    BY <1>1

LEMMA SegmentoCero == segmento_0 \in Segmento /\ \A s : s.ID \in IDs => Propio(s)
  BY MemoriaAssumption DEF segmento_0, Segmento, Propio

LEMMA EnLista ==
    ASSUME NEW l, Lista(l)
    PROVE  /\ Len(l) \in Nat /\ Len(l) > 0 /\ DOMAIN l = 1 .. Len(l)
           /\ \A i \in 2 .. Len(l) : l[i] \in PropiosDe(l)
           /\ \A s \in PropiosDe(l) : s \in Segmento /\ \E i \in 2 .. Len(l) : s = l[i]
           /\ l \in Seq(Segmento) /\ l[1] \in Range(l) /\ ~ Propio(l[1])
  <1>1. /\ l \in Seq(Segmento) /\ Len(l) \in Nat /\ Len(l) > 0 /\ DOMAIN l = 1 .. Len(l)
        /\ l[1] = segmento_0
        /\ \A i \in 1 .. Len(l) : l[i] \in Segmento
        /\ \A i \in 2 .. Len(l) : Propio(l[i])
    BY LenProperties, ElementOfSeq, SegmentoCero DEF Lista
  <1>2. \A i \in 2 .. Len(l) : i \in 1 .. Len(l)
    BY <1>1
  <1>3. \A i \in 1 .. Len(l) : i = 1 \/ i \in 2 .. Len(l)
    BY <1>1
  <1>4. ~ Propio(l[1])
    BY <1>1 DEF Propio
  <1>5. 1 \in DOMAIN l
    BY <1>1
  <1> QED
    BY <1>1, <1>2, <1>3, <1>4, <1>5 DEF PropiosDe, Range

LEMMA ListaAgrega ==
    ASSUME NEW l, Lista(l), NEW s \in Segmento, s.ID \in IDs, s \notin PropiosDe(l)
    PROVE  Lista(Append(l, s)) /\ PropiosDe(Append(l, s)) = PropiosDe(l) \cup {s}
  <1>1. Propio(s) /\ s \notin Range(l)
    BY SegmentoCero DEF PropiosDe
  <1>11. PICK n \in Nat : n = Len(l)
    BY EnLista
  <1>2. PICK t : n = Len(l) /\ t = Append(l, s)
    BY <1>11
  <1>3. l \in Seq(Segmento) /\ Inyectiva(l) /\ n > 0 /\ l[1] = segmento_0
        /\ \A i \in 2 .. n : l[i].ID \in IDs
    BY <1>2 DEF Lista
  <1>4. /\ t \in Seq(Segmento) /\ Len(t) = n + 1
        /\ \A i \in 1 .. n : t[i] = l[i]
        /\ t[n + 1] = s
        /\ Range(t) = Range(l) \cup {s} /\ Inyectiva(t)
    BY <1>1, <1>2, <1>3, AgregarAlFinal
  <1>5. \A i \in 2 .. n + 1 : i = n + 1 \/ (i \in 2 .. n /\ i \in 1 .. n)
    BY <1>2
  <1>6. t[1] = segmento_0 /\ \A i \in 2 .. n + 1 : t[i].ID \in IDs
    BY <1>2, <1>3, <1>4, <1>5
  <1>7. Lista(t)
    BY <1>2, <1>3, <1>4, <1>6 DEF Lista
  <1>8. PropiosDe(t) = PropiosDe(l) \cup {s}
    BY <1>1, <1>4 DEF PropiosDe
  <1> QED
    BY <1>2, <1>7, <1>8

LEMMA ListaQuita ==
    ASSUME NEW l, Lista(l), NEW k \in 2 .. Len(l)
    PROVE  Lista(RemoveAt(l, k)) /\ PropiosDe(RemoveAt(l, k)) = PropiosDe(l) \ {l[k]}
  <1>11. PICK n \in Nat : n = Len(l)
    BY EnLista
  <1>1. PICK t : n = Len(l) /\ t = RemoveAt(l, k)
    BY <1>11
  <1>2. l \in Seq(Segmento) /\ Inyectiva(l) /\ n > 0 /\ l[1] = segmento_0
        /\ \A i \in 2 .. n : l[i].ID \in IDs
    BY <1>1 DEF Lista
  <1>3. k \in 1 .. n /\ k \in 2 .. n
    BY <1>1
  <1>4. /\ t \in Seq(Segmento) /\ Len(t) = n - 1
        /\ \A i \in 1 .. k - 1 : t[i] = l[i]
        /\ \A i \in k .. n - 1 : t[i] = l[i + 1]
        /\ Range(t) = Range(l) \ {l[k]} /\ Inyectiva(t)
    BY <1>1, <1>2, <1>3, QuitarUno, QuitarDeInyectiva
  <1>5. t[1] = segmento_0 /\ n - 1 > 0
    BY <1>2, <1>3, <1>4
  <1>6. \A i \in 2 .. n - 1 :
          (i \in 1 .. k - 1 /\ i \in 2 .. n) \/ (i \in k .. n - 1 /\ i + 1 \in 2 .. n)
    BY <1>3
  <1>7. \A i \in 2 .. n - 1 : t[i].ID \in IDs
    BY <1>2, <1>4, <1>6
  <1>8. Lista(t)
    BY <1>4, <1>5, <1>7 DEF Lista
  <1>9. PropiosDe(t) = PropiosDe(l) \ {l[k]}
    BY <1>4 DEF PropiosDe
  <1> QED
    BY <1>1, <1>8, <1>9

LEMMA ListaCambia ==
    ASSUME NEW l, Lista(l), NEW k \in 2 .. Len(l), NEW s \in Segmento, s.ID \in IDs,
           s \notin PropiosDe(l),
           NEW t, EsCambio(t, l, k, s)
    PROVE  Lista(t) /\ PropiosDe(t) = (PropiosDe(l) \ {l[k]}) \cup {s} /\ Len(t) = Len(l)
           /\ \A i \in 1 .. Len(l) : t[i] = IF i = k THEN s ELSE l[i]
  <1>1. PICK n \in Nat : n = Len(l)
    BY EnLista
  <1>2. l \in Seq(Segmento) /\ Inyectiva(l) /\ n > 0 /\ l[1] = segmento_0
        /\ \A i \in 2 .. n : l[i].ID \in IDs
    BY <1>1 DEF Lista
  <1>3. k \in 1 .. n /\ k \in 2 .. n
    BY <1>1
  <1>4. Propio(s) /\ s \notin Range(l)
    BY SegmentoCero DEF PropiosDe
  <1>5. /\ t \in Seq(Segmento) /\ Len(t) = n
        /\ \A i \in 1 .. n : t[i] = IF i = k THEN s ELSE l[i]
        /\ Range(t) = (Range(l) \ {l[k]}) \cup {s} /\ Inyectiva(t)
    BY <1>1, <1>2, <1>3, <1>4, CambiarUno
  <1>6. t[1] = segmento_0
    BY <1>2, <1>3, <1>5
  <1>7. \A i \in 2 .. n : t[i].ID \in IDs
    BY <1>2, <1>5
  <1>8. Lista(t)
    BY <1>2, <1>5, <1>6, <1>7 DEF Lista
  <1>9. PropiosDe(t) = (PropiosDe(l) \ {l[k]}) \cup {s}
    BY <1>4, <1>5 DEF PropiosDe
  <1> QED
    BY <1>1, <1>5, <1>8, <1>9

\* A table changes: the segments of the others stay.
LEMMA TablaCambia ==
    ASSUME NEW D, NEW p \in DOMAIN D, NEW t, NEW DN, EsTabla(DN, D, p, t),
           NEW A \in SUBSET PropiosDe(D[p]), NEW B,
           PropiosDe(t) = (PropiosDe(D[p]) \ A) \cup B
    PROVE  SegmentosDe(DN) = (SegmentosDe(D) \ ({p} \X A)) \cup ({p} \X B)
  <1>1. \A q, s : <<q, s>> \in SegmentosDe(DN)
                    <=> <<q, s>> \in (SegmentosDe(D) \ ({p} \X A)) \cup ({p} \X B)
    <2>1. \A q, s : <<q, s>> \in SegmentosDe(DN) <=> q \in DOMAIN D /\ s \in PropiosDe(DN[q])
      BY EnSegmentosDe DEF EsTabla
    <2>2. \A q, s : <<q, s>> \in SegmentosDe(D) <=> q \in DOMAIN D /\ s \in PropiosDe(D[q])
      BY EnSegmentosDe
    <2>3. DN[p] = t /\ \A q \in DOMAIN D : q # p => DN[q] = D[q]
      BY DEF EsTabla
    <2> QED
      BY <2>1, <2>2, <2>3
  <1>2. \A x \in SegmentosDe(DN) : x = <<x[1], x[2]>>
    BY EnSegmentosDe
  <1>3. \A x \in (SegmentosDe(D) \ ({p} \X A)) \cup ({p} \X B) : x = <<x[1], x[2]>>
    BY EnSegmentosDe
  <1> QED
    BY <1>1, <1>2, <1>3
-----------------------------------------------------------------------------
(* What an action does to the parts of the memory *)

LEMMA DeSegmento ==
    ASSUME NEW s \in Segmento
    PROVE  /\ s.base \in Nat /\ s.limite \in Nat /\ s.limite > 0
           /\ EnSeg(s.base, s)
  BY DEF Segmento, EnSeg

LEMMA DeHueco ==
    ASSUME NEW h \in Hueco
    PROVE  h.pos \in Nat /\ h.size \in Nat /\ h.size > 0 /\ EnHueco(h.pos, h)
  BY DEF Hueco, EnHueco

LEMMA SonHuecos ==
    ASSUME NEW hs, ListaDeHuecos(hs)
    PROVE  /\ hs \in Seq(Hueco) /\ Len(hs) \in Nat /\ DOMAIN hs = 1 .. Len(hs)
           /\ Range(hs) \in SUBSET Hueco /\ Inyectiva(hs) /\ Separados(Range(hs))
           /\ \A i \in 1 .. Len(hs) : hs[i] \in Range(hs)
  <1>1. hs \in Seq(Hueco) /\ Len(hs) \in Nat /\ DOMAIN hs = 1 .. Len(hs)
    BY LenProperties DEF ListaDeHuecos
  <1>2. \A i \in 1 .. Len(hs) : hs[i] \in Hueco
    BY <1>1, ElementOfSeq
  <1> QED
    BY <1>1, <1>2 DEF ListaDeHuecos, Range

\* The segments of one process change hands, from the tables to the end of the process.
LEMMA Pasan ==
    ASSUME NEW S, NEW H, Reparto(S, {}, H), NEW p, NEW A, {p} \X A \in SUBSET S
    PROVE  Reparto(S \ ({p} \X A), A, H)
  <1> DEFINE SA == {p} \X A
  <1>1. \A s \in A : <<p, s>> \in SA /\ <<p, s>> \in S /\ <<p, s>>[2] = s
    OBVIOUS
  <1>2. \A e \in SA : e[2] \in A
    OBVIOUS
  <1>3. SinPisar({}, A, {})
    <2> SUFFICES ASSUME NEW d \in Nat, NEW s \in A, NEW t \in A, EnSeg(d, s), EnSeg(d, t)
                 PROVE  s = t
      BY DEF SinPisar
    <2>1. <<p, s>> = <<p, t>>
      BY <1>1 DEF Reparto, SinPisar
    <2> QED
      BY <2>1
  <1>4. MismosBytes(SA, {}, {}, {}, A, {})
    BY <1>1, <1>2 DEF MismosBytes, Cubre
  <1>5. SA \in SUBSET S
    OBVIOUS
  <1> HIDE DEF SA
  <1>6. Reparto(S \ SA, A, H)
    <2>1. S \ SA = (S \ SA) \cup {} /\ A = ({} \ {}) \cup A /\ H = (H \ {}) \cup {}
      OBVIOUS
    <2> QED
      BY <1>3, <1>4, <1>5, <2>1, Cambio
  <1> QED
    BY <1>6 DEF SA

LEMMA NoHayHueco ==
    ASSUME NEW H \in SUBSET Hueco, NEW b \in Nat, NEW l \in Nat, l > 0,
           \A d \in Nat, h \in H : ~ (b <= d /\ d < b + l /\ EnHueco(d, h))
    PROVE  NoEsta(H, b, l)
  <1>1. ASSUME NEW h \in H PROVE h.pos + h.size <= b \/ b + l <= h.pos
    <2>1. h.pos \in Nat /\ h.size \in Nat /\ h.size > 0
      BY DeHueco
    <2>2. \A d \in Nat : ~ (h.pos <= d /\ d < h.pos + h.size /\ b <= d /\ d < b + l)
      BY DEF EnHueco
    <2> QED
      BY <2>1, <2>2, Aparte
  <1> QED
    BY <1>1 DEF NoEsta

\* No hole has a byte of a segment that is being freed.
LEMMA NoEsHueco ==
    ASSUME NEW S, NEW L, NEW H \in SUBSET Hueco, Reparto(S, L, H), NEW s \in L, s \in Segmento
    PROVE  NoEsta(H, s.base, s.limite)
  <1>1. PICK b \in Nat, l \in Nat : b = s.base /\ l = s.limite /\ l > 0
    BY DeSegmento
  <1>2. \A d \in Nat, h \in H : ~ (b <= d /\ d < b + l /\ EnHueco(d, h))
    BY <1>1 DEF Reparto, SinPisar, EnSeg
  <1>3. NoEsta(H, b, l)
    BY <1>1, <1>2, NoHayHueco
  <1> QED
    BY <1>1, <1>3

\* A segment that is being freed becomes a hole, or part of one.
LEMMA Suelta ==
    ASSUME NEW S, NEW L, NEW hs, ListaDeHuecos(hs), Reparto(S, L, Range(hs)),
           NEW s \in L, s \in Segmento,
           NEW r, r = alojar_nuevo_hueco(hs, s.base, s.limite)
    PROVE  ListaDeHuecos(r) /\ r # <<>> /\ Reparto(S, L \ {s}, Range(r))
  <1>1. PICK b \in Nat, l \in Nat : b = s.base /\ l = s.limite /\ l > 0
    BY DeSegmento
  <1>2. PICK H : H = Range(hs)
    OBVIOUS
  <1>3. H \in SUBSET Hueco
    BY <1>2, SonHuecos
  <1>4. NoEsta(H, s.base, s.limite)
    BY <1>2, <1>3, NoEsHueco
  <1>5. NoEsta(H, b, l)
    BY <1>1, <1>4, Zenon
  <1>6. Alojado(r, hs, b, l)
    BY <1>1, <1>2, <1>5, Alojar
  <1>7. ListaDeHuecos(r)
    BY <1>6 DEF Alojado
  <1>8. PICK Q \in SUBSET H, m \in Hueco : Range(r) = (H \ Q) \cup {m} /\ Absorbe(m, Q, b, l)
    BY <1>2, <1>6 DEF Alojado
  <1>9. r # <<>>
    BY <1>8 DEF Range
  <1>10. SinPisar({}, {}, {m})
    BY DEF SinPisar
  <1>11. MismosBytes({}, {s}, Q, {}, {}, {m})
    BY <1>1, <1>8 DEF MismosBytes, Cubre, Absorbe, EnSeg
  <1>12. PICK HN : HN = Range(r)
    OBVIOUS
  <1>13. Reparto(S, L \ {s}, HN)
    <2>1. S = (S \ {}) \cup {} /\ L \ {s} = (L \ {s}) \cup {} /\ HN = (H \ Q) \cup {m}
      BY <1>8, <1>12
    <2>2. {} \in SUBSET S /\ {s} \in SUBSET L /\ Q \in SUBSET H /\ Reparto(S, L, H)
      BY <1>2
    <2> QED
      BY <1>10, <1>11, <2>1, <2>2, Cambio
  <1> QED
    BY <1>7, <1>9, <1>12, <1>13

\* A segment of a table is freed.
LEMMA SueltaDeTabla ==
    ASSUME NEW S, NEW hs, ListaDeHuecos(hs), Reparto(S, {}, Range(hs)),
           NEW p, NEW s \in Segmento, <<p, s>> \in S,
           NEW r, r = alojar_nuevo_hueco(hs, s.base, s.limite)
    PROVE  ListaDeHuecos(r) /\ r # <<>> /\ Reparto(S \ ({p} \X {s}), {}, Range(r))
  <1>1. PICK H, L : H = Range(hs) /\ L = {s}
    OBVIOUS
  <1>2. PICK SA : SA = {p} \X L
    OBVIOUS
  <1>3. Reparto(S, {}, H)
    BY <1>1
  <1>4. {p} \X L \in SUBSET S
    BY <1>1
  <1>5. Reparto(S \ SA, L, H)
    BY <1>2, <1>3, <1>4, Pasan
  <1>6. ListaDeHuecos(r) /\ r # <<>> /\ Reparto(S \ SA, L \ {s}, Range(r))
    BY <1>1, <1>5, Suelta
  <1>7. L \ {s} = {} /\ SA = {p} \X {s}
    BY <1>1, <1>2
  <1> QED
    BY <1>6, <1>7

LEMMA CubreUno ==
    ASSUME NEW p, NEW s, NEW SA, SA = {p} \X {s}, NEW d
    PROVE  /\ \A H : Cubre(d, SA, {}, H) <=> (EnSeg(d, s) \/ \E h \in H : EnHueco(d, h))
           /\ \A m : Cubre(d, SA, {}, {m}) <=> (EnSeg(d, s) \/ EnHueco(d, m))
           /\ Cubre(d, SA, {}, {}) <=> EnSeg(d, s)
  <1>1. <<p, s>> \in SA /\ \A e \in SA : e[2] = s
    OBVIOUS
  <1>2. (\E e \in SA : EnSeg(d, e[2])) <=> EnSeg(d, s)
    <2>1. ASSUME EnSeg(d, s) PROVE \E e \in SA : EnSeg(d, e[2])
      <3>1. EnSeg(d, <<p, s>>[2])
        BY <2>1
      <3> QED
        BY <1>1, <3>1
    <2>2. ASSUME NEW e \in SA, EnSeg(d, e[2]) PROVE EnSeg(d, s)
      BY <1>1, <2>2
    <2> QED
      BY <2>1, <2>2
  <1> QED
    BY <1>2 DEF Cubre

\* The segment takes the whole hole, which leaves the list ...
LEMMA OcupaTodo ==
    ASSUME NEW S, NEW hs, ListaDeHuecos(hs), Reparto(S, {}, Range(hs)),
           NEW k \in 1 .. Len(hs), NEW p, NEW s \in Segmento,
           s.base = hs[k].pos, s.limite = hs[k].size,
           NEW r, r = RemoveAt(hs, k)
    PROVE  ListaDeHuecos(r) /\ Reparto(S \cup ({p} \X {s}), {}, Range(r))
  <1>1. PICK H, h : H = Range(hs) /\ h = hs[k]
    OBVIOUS
  <1>2. h \in H /\ H \in SUBSET Hueco /\ Separados(H)
    BY <1>1, SonHuecos
  <1>3. hs \in Seq(Hueco) /\ Inyectiva(hs)
    BY SonHuecos
  <1>4. r \in Seq(Hueco) /\ Range(r) = H \ {h} /\ Inyectiva(r)
    BY <1>1, <1>3, QuitarUno, QuitarDeInyectiva
  <1>5. Separados(H \ {h})
    BY <1>2 DEF Separados
  <1>6. ListaDeHuecos(r)
    BY <1>4, <1>5 DEF ListaDeHuecos
  <1>7. PICK SA : SA = {p} \X {s}
    OBVIOUS
  <1>8. SinPisar(SA, {}, {})
    BY <1>7 DEF SinPisar
  <1>9. MismosBytes({}, {}, {h}, SA, {}, {})
    <2> SUFFICES ASSUME NEW d \in Nat PROVE Cubre(d, {}, {}, {h}) <=> Cubre(d, SA, {}, {})
      BY DEF MismosBytes
    <2>1. Cubre(d, SA, {}, {}) <=> EnSeg(d, s)
      BY <1>7, CubreUno
    <2>2. Cubre(d, {}, {}, {h}) <=> EnHueco(d, h)
      BY DEF Cubre
    <2> QED
      BY <1>1, <2>1, <2>2 DEF EnSeg, EnHueco
  <1>10. PICK HN : HN = Range(r)
    OBVIOUS
  <1>11. Reparto(S \cup SA, {}, HN)
    <2>1. S \cup SA = (S \ {}) \cup SA /\ {} = ({} \ {}) \cup {} /\ HN = (H \ {h}) \cup {}
      BY <1>4, <1>10
    <2>2. {} \in SUBSET S /\ {h} \in SUBSET H /\ Reparto(S, {}, H)
      BY <1>1, <1>2
    <2> QED
      BY <1>8, <1>9, <2>1, <2>2, Cambio
  <1> QED
    BY <1>6, <1>7, <1>10, <1>11

\* ... or its first bytes.
LEMMA OcupaParte ==
    ASSUME NEW S, NEW hs, ListaDeHuecos(hs), Reparto(S, {}, Range(hs)),
           NEW k \in 1 .. Len(hs), NEW p, NEW s \in Segmento,
           s.base = hs[k].pos, s.limite < hs[k].size,
           NEW m, m = [pos |-> hs[k].pos + s.limite, size |-> hs[k].size - s.limite],
           NEW r, EsCambio(r, hs, k, m)
    PROVE  ListaDeHuecos(r) /\ Reparto(S \cup ({p} \X {s}), {}, Range(r))
  <1>1. PICK H, h : H = Range(hs) /\ h = hs[k]
    OBVIOUS
  <1>2. h \in H /\ H \in SUBSET Hueco /\ Separados(H)
    BY <1>1, SonHuecos
  <1>3. hs \in Seq(Hueco) /\ Inyectiva(hs)
    BY SonHuecos
  <1>4. /\ h.pos \in Nat /\ h.size \in Nat /\ s.limite \in Nat /\ s.limite > 0
        /\ s.base = h.pos /\ s.limite < h.size
    BY <1>1, <1>2, DeHueco, DeSegmento
  <1>5. /\ m.pos = h.pos + s.limite /\ m.size = h.size - s.limite
        /\ m.pos + m.size = h.pos + h.size /\ m \in Hueco
    BY <1>1, <1>4 DEF Hueco
  <1>6. \A g \in H : g # h => g.pos + g.size < m.pos \/ m.pos + m.size < g.pos
    <2> SUFFICES ASSUME NEW g \in H, g # h
                 PROVE  g.pos + g.size < m.pos \/ m.pos + m.size < g.pos
      OBVIOUS
    <2>1. g.pos \in Nat /\ g.size \in Nat
      BY <1>2, DeHueco
    <2>2. g.pos + g.size < h.pos \/ h.pos + h.size < g.pos
      BY <1>2 DEF Separados
    <2> QED
      BY <1>4, <1>5, <2>1, <2>2
  <1>7. m \notin H \ {h}
    <2> SUFFICES ASSUME m \in H, m # h PROVE FALSE
      OBVIOUS
    <2>1. m.pos + m.size < m.pos
      BY <1>6
    <2> QED
      BY <1>4, <1>5, <2>1
  <1>8. r \in Seq(Hueco) /\ Range(r) = (H \ {h}) \cup {m} /\ Inyectiva(r)
    BY <1>1, <1>3, <1>5, <1>7, CambiarUno
  <1>9. Separados((H \ {h}) \cup {m})
    BY <1>2, <1>6 DEF Separados
  <1>10. ListaDeHuecos(r)
    BY <1>8, <1>9 DEF ListaDeHuecos
  <1>11. PICK SA : SA = {p} \X {s}
    OBVIOUS
  <1>12. \A d \in Nat : EnHueco(d, h) <=> EnSeg(d, s) \/ EnHueco(d, m)
    BY <1>4, <1>5 DEF EnHueco, EnSeg
  <1>13. \A d \in Nat : ~ (EnSeg(d, s) /\ EnHueco(d, m))
    BY <1>4, <1>5 DEF EnHueco, EnSeg
  <1>14. SinPisar(SA, {}, {m})
    BY <1>11, <1>13 DEF SinPisar
  <1>15. MismosBytes({}, {}, {h}, SA, {}, {m})
    <2> SUFFICES ASSUME NEW d \in Nat PROVE Cubre(d, {}, {}, {h}) <=> Cubre(d, SA, {}, {m})
      BY DEF MismosBytes
    <2>1. Cubre(d, SA, {}, {m}) <=> EnSeg(d, s) \/ EnHueco(d, m)
      BY <1>11, CubreUno
    <2>2. Cubre(d, {}, {}, {h}) <=> EnHueco(d, h)
      BY DEF Cubre
    <2> QED
      BY <1>12, <2>1, <2>2
  <1>16. PICK HN : HN = Range(r)
    OBVIOUS
  <1>17. Reparto(S \cup SA, {}, HN)
    <2>1. S \cup SA = (S \ {}) \cup SA /\ {} = ({} \ {}) \cup {} /\ HN = (H \ {h}) \cup {m}
      BY <1>8, <1>16
    <2>2. {} \in SUBSET S /\ {h} \in SUBSET H /\ Reparto(S, {}, H)
      BY <1>1, <1>2
    <2> QED
      BY <1>14, <1>15, <2>1, <2>2, Cambio
  <1> QED
    BY <1>10, <1>11, <1>16, <1>17

\* A segment whose first byte is in a hole is in no table.
LEMMA NoEstaba ==
    ASSUME NEW S, NEW H \in SUBSET Hueco, Reparto(S, {}, H), NEW h \in H,
           NEW s \in Segmento, s.base = h.pos, NEW p
    PROVE  <<p, s>> \notin S
  <1>1. EnSeg(h.pos, s) /\ EnHueco(h.pos, h) /\ h.pos \in Nat
    BY DeHueco, DeSegmento
  <1> QED
    BY <1>1 DEF Reparto, SinPisar

\* The segment t is s, moved to the place of the hole h, which it follows.
EnLugarDe(t, s, h) == s.base = h.pos + h.size /\ t.base = h.pos /\ t.limite = s.limite

\* No other hole is where the hole is rebuilt.
LEMMA DetrasLibre ==
    ASSUME NEW S, NEW H \in SUBSET Hueco, Reparto(S, {}, H), NEW h \in H,
           NEW p, NEW s \in Segmento, <<p, s>> \in S, s.base = h.pos + h.size
    PROVE  NoEsta(H \ {h}, h.pos + s.limite, h.size)
  <1>1. PICK b \in Nat, l \in Nat : b = h.pos + s.limite /\ l = h.size
    BY DeHueco, DeSegmento
  <1>2. h.pos \in Nat /\ l > 0 /\ s.limite \in Nat /\ s.limite > 0 /\ s.base = h.pos + l
    BY <1>1, DeHueco, DeSegmento
  <1>3. PICK e : e = <<p, s>>
    OBVIOUS
  <1>4. \A d \in Nat, g \in H \ {h} : ~ (EnHueco(d, g) /\ (EnHueco(d, h) \/ EnSeg(d, e[2])))
    BY <1>3 DEF Reparto, SinPisar
  <1>5. \A d \in Nat : b <= d /\ d < b + l => EnHueco(d, h) \/ EnSeg(d, e[2])
    BY <1>1, <1>2, <1>3 DEF EnHueco, EnSeg
  <1>6. \A d \in Nat, g \in H \ {h} : ~ (b <= d /\ d < b + l /\ EnHueco(d, g))
    BY <1>4, <1>5
  <1>7. H \ {h} \in SUBSET Hueco
    OBVIOUS
  <1>8. NoEsta(H \ {h}, b, l)
    BY <1>1, <1>2, <1>6, <1>7, NoHayHueco
  <1> QED
    BY <1>1, <1>8

\* realloc_segment: the segment that follows the hole moves to the place of the hole, and the
\* hole is rebuilt behind it, where it may touch the next one.
LEMMA Desplaza ==
    ASSUME NEW S, NEW hs, ListaDeHuecos(hs), Reparto(S, {}, Range(hs)),
           NEW k \in 1 .. Len(hs), NEW p, NEW s \in Segmento, <<p, s>> \in S,
           NEW t \in Segmento, EnLugarDe(t, s, hs[k]),
           NEW q, q = RemoveAt(hs, k),
           NEW r, r = alojar_nuevo_hueco(q, hs[k].pos + s.limite, hs[k].size)
    PROVE  /\ ListaDeHuecos(r) /\ r # <<>>
           /\ Reparto((S \ ({p} \X {s})) \cup ({p} \X {t}), {}, Range(r))
  <1>1. PICK H, h : H = Range(hs) /\ h = hs[k]
    OBVIOUS
  <1>2. h \in H /\ H \in SUBSET Hueco /\ Separados(H)
    BY <1>1, SonHuecos
  <1>3. hs \in Seq(Hueco) /\ Inyectiva(hs)
    BY SonHuecos
  <1>4. q \in Seq(Hueco) /\ Range(q) = H \ {h} /\ Inyectiva(q)
    BY <1>1, <1>3, QuitarUno, QuitarDeInyectiva
  <1>5. Separados(H \ {h})
    BY <1>2 DEF Separados
  <1>6. ListaDeHuecos(q)
    BY <1>4, <1>5 DEF ListaDeHuecos
  <1>7. PICK b \in Nat, l \in Nat : b = h.pos + s.limite /\ l = h.size
    BY <1>2, DeHueco, DeSegmento
  <1>8. /\ h.pos \in Nat /\ l = h.size /\ l > 0
        /\ s.limite \in Nat /\ s.limite > 0
        /\ s.base = h.pos + l /\ b = h.pos + s.limite
        /\ t.base = h.pos /\ t.limite = s.limite
    BY <1>1, <1>2, <1>7, DeHueco, DeSegmento DEF EnLugarDe
  <1>9. \A d \in Nat : EnHueco(d, h) \/ EnSeg(d, s) <=> EnSeg(d, t) \/ (b <= d /\ d < b + l)
    <2> TAKE d \in Nat
    <2>1. PICK x \in Nat, n \in Nat : x = h.pos /\ n = s.limite
      BY <1>8
    <2>2. /\ EnHueco(d, h) <=> x <= d /\ d < x + l
          /\ EnSeg(d, s) <=> x + l <= d /\ d < x + l + n
          /\ EnSeg(d, t) <=> x <= d /\ d < x + n
      BY <1>8, <2>1 DEF EnHueco, EnSeg
    <2>3. b = x + n
      BY <1>8, <2>1
    <2> QED
      BY <2>2, <2>3
  <1>10. \A d \in Nat : ~ (EnSeg(d, t) /\ b <= d /\ d < b + l)
    BY <1>8 DEF EnHueco, EnSeg
  <1>11. \A d \in Nat, g \in H \ {h} : ~ (EnHueco(d, g) /\ (EnHueco(d, h) \/ EnSeg(d, s)))
    BY <1>1, <1>2 DEF Reparto, SinPisar
  <1>12. NoEsta(H \ {h}, b, l)
    <2>1. s.base = h.pos + h.size
      BY <1>8
    <2>2. NoEsta(H \ {h}, h.pos + s.limite, h.size)
      BY <1>1, <1>2, <2>1, DetrasLibre
    <2> QED
      BY <1>7, <2>2
  <1>13. Alojado(r, q, b, l)
    <2>1. r = alojar_nuevo_hueco(q, b, l)
      BY <1>1, <1>7, Zenon
    <2> QED
      BY <1>4, <1>6, <1>12, <2>1, Alojar
  <1>14. PICK Q \in SUBSET (H \ {h}), m \in Hueco :
            Range(r) = ((H \ {h}) \ Q) \cup {m} /\ Absorbe(m, Q, b, l)
    BY <1>4, <1>13 DEF Alojado
  <1>15. ListaDeHuecos(r) /\ r # <<>>
    BY <1>13, <1>14 DEF Alojado, Range
  <1>16. PICK SA, SB : SA = {p} \X {s} /\ SB = {p} \X {t}
    OBVIOUS
  <1>17. PICK HQ : HQ = Q \cup {h}
    OBVIOUS
  <1>18. \A d \in Nat : EnHueco(d, m) <=> (b <= d /\ d < b + l) \/ \E g \in Q : EnHueco(d, g)
    BY <1>14 DEF Absorbe
  <1>19. \A d \in Nat : ~ (EnSeg(d, t) /\ EnHueco(d, m))
    BY <1>9, <1>10, <1>11, <1>18
  <1>20. SinPisar(SB, {}, {m})
    BY <1>16, <1>19 DEF SinPisar
  <1>21. MismosBytes(SA, {}, HQ, SB, {}, {m})
    <2> SUFFICES ASSUME NEW d \in Nat PROVE Cubre(d, SA, {}, HQ) <=> Cubre(d, SB, {}, {m})
      BY DEF MismosBytes
    <2>1. (\E g \in HQ : EnHueco(d, g)) <=> EnHueco(d, h) \/ \E g \in Q : EnHueco(d, g)
      BY <1>17
    <2>2. Cubre(d, SA, {}, HQ) <=> EnSeg(d, s) \/ \E g \in HQ : EnHueco(d, g)
      BY <1>16, CubreUno
    <2>3. Cubre(d, SB, {}, {m}) <=> EnSeg(d, t) \/ EnHueco(d, m)
      BY <1>16, CubreUno
    <2> QED
      BY <1>9, <1>18, <2>1, <2>2, <2>3
  <1>22. PICK HN : HN = Range(r)
    OBVIOUS
  <1>23. Reparto((S \ SA) \cup SB, {}, HN)
    <2>1. {} = ({} \ {}) \cup {} /\ HN = (H \ HQ) \cup {m}
      BY <1>14, <1>17, <1>22
    <2>2. SA \in SUBSET S /\ HQ \in SUBSET H /\ Reparto(S, {}, H)
      BY <1>1, <1>2, <1>16, <1>17
    <2> QED
      BY <1>20, <1>21, <2>1, <2>2, Cambio
  <1> QED
    BY <1>15, <1>16, <1>22, <1>23
-----------------------------------------------------------------------------
(* What CHOOSE takes *)

LEMMA HayMenor ==
    ASSUME NEW U \in SUBSET Nat, U # {}, NEW f, \A i \in U : f[i] \in Nat
    PROVE  \E i \in U : \A j \in U : f[i] < f[j] \/ (f[i] = f[j] /\ i <= j)
  <1>1. PICK V : V = {f[i] : i \in U}
    OBVIOUS
  <1>2. V \in SUBSET Nat /\ V # {}
    BY <1>1
  <1>3. PICK v \in V : \A w \in V : v <= w
    BY <1>2, HayMinimo
  <1>4. PICK I : I = {i \in U : f[i] = v}
    OBVIOUS
  <1>5. I \in SUBSET Nat /\ I # {}
    BY <1>1, <1>4
  <1>6. PICK i \in I : \A j \in I : i <= j
    BY <1>5, HayMinimo
  <1>7. \A j \in U : f[i] < f[j] \/ (f[i] = f[j] /\ i <= j)
    <2> SUFFICES ASSUME NEW j \in U PROVE f[i] < f[j] \/ (f[i] = f[j] /\ i <= j)
      OBVIOUS
    <2>1. f[i] = v /\ f[j] \in V /\ v <= f[j] /\ f[i] \in Nat /\ f[j] \in Nat
      BY <1>1, <1>3, <1>4
    <2>2. f[j] = v => j \in I
      BY <1>4
    <2> QED
      BY <1>6, <2>1, <2>2
  <1> QED
    BY <1>4, <1>7

\* get_lowest_base_hole.
LEMMA ElPrimero ==
    ASSUME ListaDeHuecos(huecos_libres), huecos_libres # <<>>
    PROVE  /\ PrimerHueco \in 1 .. Len(huecos_libres)
           /\ \A j \in 1 .. Len(huecos_libres) :
                 huecos_libres[PrimerHueco].pos <= huecos_libres[j].pos
  <1>1. PICK hs : hs = huecos_libres
    OBVIOUS
  <1>2. PICK U : U = 1 .. Len(hs)
    OBVIOUS
  <1>3. hs \in Seq(Hueco) /\ DOMAIN hs = U /\ U \in SUBSET Nat
    BY <1>1, <1>2, SonHuecos
  <1>4. U # {}
    <2>1. Len(hs) # 0 /\ Len(hs) \in Nat
      BY <1>1, <1>3, LenProperties, EmptySeq
    <2> QED
      BY <1>2, <2>1
  <1>5. \A i \in U : hs[i].pos \in Nat
    BY <1>1, <1>2, UnHueco
  <1>6. PICK f : f = [i \in U |-> hs[i].pos]
    OBVIOUS
  <1>7. \A i \in U : f[i] \in Nat /\ f[i] = hs[i].pos
    BY <1>5, <1>6
  <1>8. \E i \in U : \A j \in U : f[i] < f[j] \/ (f[i] = f[j] /\ i <= j)
    BY <1>3, <1>4, <1>7, HayMenor
  <1>9. \E i \in U : \A j \in U : hs[i].pos < hs[j].pos \/ (hs[i].pos = hs[j].pos /\ i <= j)
    BY <1>7, <1>8
  <1>10. PrimerHueco = CHOOSE i \in U : \A j \in U :
             hs[i].pos < hs[j].pos \/ (hs[i].pos = hs[j].pos /\ i <= j)
    BY <1>1, <1>3 DEF PrimerHueco
  <1>11. PICK k \in U : /\ k = PrimerHueco
                        /\ \A j \in U : hs[k].pos < hs[j].pos \/ (hs[k].pos = hs[j].pos /\ k <= j)
    BY <1>9, <1>10
  <1>12. \A j \in U : hs[k].pos <= hs[j].pos
    BY <1>5, <1>11
  <1> QED
    BY <1>1, <1>2, <1>11, <1>12

\* calloc_segment takes a hole that can hold the segment, whatever the algorithm.
LEMMA ElElegido ==
    ASSUME ListaDeHuecos(huecos_libres), algoritmo \in Algoritmos,
           \A i \in 1 .. Len(huecos_libres) : huecos_libres[i].size <= TAM_MEMORIA,
           NEW tam, Utiles(tam) # {}
    PROVE  Elegido(tam) \in 1 .. Len(huecos_libres) /\ huecos_libres[Elegido(tam)].size >= tam
  <1>1. PICK hs : hs = huecos_libres
    OBVIOUS
  <1>2. PICK U : U = Utiles(tam)
    OBVIOUS
  <1>3. DOMAIN hs = 1 .. Len(hs) /\ Len(hs) \in Nat
    BY <1>1, SonHuecos
  <1>4. U \in SUBSET (1 .. Len(hs)) /\ U \in SUBSET Nat /\ U # {}
        /\ \A i \in U : hs[i].size >= tam
    BY <1>1, <1>2, <1>3 DEF Utiles
  <1>5. \A i \in U : hs[i].pos \in Nat /\ hs[i].size \in Nat /\ hs[i].size <= TAM_MEMORIA
    BY <1>1, <1>4, UnHueco
  <1>6. PICK f : f = [i \in U |-> Clave(hs[i]) + TAM_MEMORIA]
    OBVIOUS
  <1>7. \A i \in U : /\ f[i] \in Nat /\ Clave(hs[i]) \in Int
                     /\ f[i] = Clave(hs[i]) + TAM_MEMORIA
    <2> SUFFICES ASSUME NEW i \in U
                 PROVE  Clave(hs[i]) \in Int /\ Clave(hs[i]) + TAM_MEMORIA \in Nat
      BY <1>6
    <2>1. TAM_MEMORIA \in Nat /\ algoritmo \in {"BEST", "FIRST", "WORST"}
      BY MemoriaAssumption
    <2>2. hs[i].pos \in Nat /\ hs[i].size \in Nat /\ hs[i].size <= TAM_MEMORIA
      BY <1>5
    <2>3. CASE algoritmo = "BEST"
      BY <2>1, <2>2, <2>3 DEF Clave
    <2>4. CASE algoritmo = "FIRST"
      BY <2>1, <2>2, <2>4 DEF Clave
    <2>5. CASE algoritmo = "WORST"
      BY <2>1, <2>2, <2>5 DEF Clave
    <2> QED
      BY <2>1, <2>3, <2>4, <2>5
  <1>8. \E i \in U : \A j \in U : f[i] < f[j] \/ (f[i] = f[j] /\ i <= j)
    BY <1>4, <1>7, HayMenor
  <1>9. \E i \in U : \A j \in U : \/ Clave(hs[i]) < Clave(hs[j])
                                  \/ Clave(hs[i]) = Clave(hs[j]) /\ i <= j
    <2>1. PICK i \in U : \A j \in U : f[i] < f[j] \/ (f[i] = f[j] /\ i <= j)
      BY <1>8
    <2>2. ASSUME NEW j \in U
          PROVE  Clave(hs[i]) < Clave(hs[j]) \/ (Clave(hs[i]) = Clave(hs[j]) /\ i <= j)
      <3>1. PICK a \in Int, b \in Int : a = Clave(hs[i]) /\ b = Clave(hs[j])
        BY <1>7
      <3>2. f[i] = a + TAM_MEMORIA /\ f[j] = b + TAM_MEMORIA /\ TAM_MEMORIA \in Nat
        BY <1>7, <3>1, MemoriaAssumption
      <3>3. a + TAM_MEMORIA < b + TAM_MEMORIA \/ (a + TAM_MEMORIA = b + TAM_MEMORIA /\ i <= j)
        BY <2>1, <3>2
      <3>4. a < b \/ (a = b /\ i <= j)
        BY <3>2, <3>3
      <3> QED
        BY <3>1, <3>4
    <2> QED
      BY <2>2
  <1>10. Elegido(tam) = CHOOSE i \in U : \A j \in U :
             \/ Clave(hs[i]) < Clave(hs[j])
             \/ Clave(hs[i]) = Clave(hs[j]) /\ i <= j
    BY <1>1, <1>2 DEF Elegido
  <1>11. Elegido(tam) \in U
    BY <1>9, <1>10, Zenon
  <1> QED
    BY <1>1, <1>4, <1>11
-----------------------------------------------------------------------------
(* The free bytes *)

Libres(T) == {d \in Direcciones : \E h \in T : EnHueco(d, h)}
Suma(hs) == FoldSeq(LAMBDA h, n : n + h.size, 0, hs)

LEMMA LibresDeUno ==
    ASSUME NEW h \in Hueco, h.pos + h.size <= TAM_MEMORIA
    PROVE  IsFiniteSet(Libres({h})) /\ Cardinality(Libres({h})) = h.size
  <1>1. h.pos \in Nat /\ h.size \in Nat /\ h.size > 0 /\ TAM_MEMORIA \in Nat
    BY DeHueco, MemoriaAssumption
  <1>2. PICK a \in Int, b \in Int : a = h.pos /\ b = h.pos + h.size - 1
    BY <1>1
  <1>3. Libres({h}) = a .. b
    BY <1>1, <1>2 DEF Libres, EnHueco, Direcciones
  <1>4. IsFiniteSet(a .. b) /\ Cardinality(a .. b) = IF a > b THEN 0 ELSE b - a + 1
    BY FS_Interval
  <1>5. ~ (a > b) /\ b - a + 1 = h.size
    BY <1>1, <1>2
  <1> QED
    BY <1>3, <1>4, <1>5

LEMMA LibresFinito == ASSUME NEW T PROVE IsFiniteSet(Libres(T)) /\ Cardinality(Libres(T)) \in Nat
  <1>1. IsFiniteSet(Direcciones)
    BY FS_Interval, MemoriaAssumption DEF Direcciones
  <1>2. Libres(T) \in SUBSET Direcciones
    BY DEF Libres
  <1> QED
    BY <1>1, <1>2, FS_Subset, FS_CardinalityType

LEMMA LibresMas ==
    ASSUME NEW T \in SUBSET Hueco, NEW h \in Hueco, h \notin T, h.pos + h.size <= TAM_MEMORIA,
           Separados(T \cup {h})
    PROVE  Cardinality(Libres(T \cup {h})) = Cardinality(Libres(T)) + h.size
  <1>1. PICK A, B : A = Libres(T) /\ B = Libres({h})
    OBVIOUS
  <1>2. IsFiniteSet(A) /\ IsFiniteSet(B) /\ Cardinality(A) \in Nat
    BY <1>1, LibresFinito
  <1>3. Cardinality(B) = h.size /\ h.size \in Nat
    BY <1>1, LibresDeUno, DeHueco
  <1>4. A \cap B = {}
    <2> SUFFICES ASSUME NEW d \in Direcciones, NEW g \in T, EnHueco(d, g), EnHueco(d, h)
                 PROVE  FALSE
      BY <1>1 DEF Libres
    <2>1. g.pos \in Nat /\ g.size \in Nat /\ h.pos \in Nat /\ h.size \in Nat
      BY DeHueco
    <2>2. g.pos + g.size < h.pos \/ h.pos + h.size < g.pos
      BY DEF Separados
    <2>3. d \in Int
      BY MemoriaAssumption DEF Direcciones
    <2> QED
      BY <2>1, <2>2, <2>3 DEF EnHueco
  <1>5. Libres(T \cup {h}) = A \cup B
    BY <1>1 DEF Libres
  <1>6. Cardinality(A \cap B) = 0
    BY <1>4, FS_EmptySet
  <1>7. Cardinality(A \cup B) = Cardinality(A) + Cardinality(B) - Cardinality(A \cap B)
    BY <1>2, FS_Union
  <1>8. PICK a \in Nat, b \in Nat : a = Cardinality(A) /\ b = Cardinality(B) /\ b = h.size
    BY <1>2, <1>3
  <1>9. Cardinality(A \cup B) = a + b
    BY <1>6, <1>7, <1>8
  <1> QED
    BY <1>1, <1>5, <1>8, <1>9

\* The sum of the holes is the number of free bytes, in whatever order they are added.
LEMMA SumaSonLibres ==
    ASSUME NEW hs, ListaDeHuecos(hs),
           \A i \in 1 .. Len(hs) : hs[i].pos + hs[i].size <= TAM_MEMORIA
    PROVE  Suma(hs) = Cardinality(Libres(Range(hs)))
  <1> DEFINE N == DOMAIN hs
             De(s) == {hs[i] : i \in s}
             Resto(s) == s \ {CHOOSE x \in s : TRUE}
             Primero(s) == CHOOSE x \in s : TRUE
             it == CHOOSE it : it = [s \in SUBSET N |->
                      IF s = {} THEN 0
                      ELSE LET x == CHOOSE x \in s : TRUE
                           IN  it[s \ {x}] + hs[x].size]
             f == [s \in SUBSET N |-> Cardinality(Libres(De(s)))]
  <1>1. Suma(hs) = it[N]
    BY DEF Suma, FoldSeq, FoldFunction, FoldFunctionOnSet, MapThenFoldSet
  <1>2. N = 1 .. Len(hs) /\ Len(hs) \in Nat /\ IsFiniteSet(N)
    BY SonHuecos, FS_Interval
  <1>3. ASSUME NEW s \in SUBSET N, NEW x \in s
        PROVE  /\ s \ {x} \in SUBSET N /\ hs[x].size \in Nat
               /\ Cardinality(Libres(De(s))) = Cardinality(Libres(De(s \ {x}))) + hs[x].size
    <2>1. PICK T, h : T = De(s \ {x}) /\ h = hs[x]
      OBVIOUS
    <2>2. h \in Hueco /\ h.pos + h.size <= TAM_MEMORIA /\ h.size \in Nat
      BY <1>2, <2>1, UnHueco
    <2>3. De(s) = T \cup {h}
      BY <2>1
    <2>4. h \notin T
      <3>1. \A i, j \in N : hs[i] = hs[j] => i = j
        BY SonHuecos DEF Inyectiva
      <3> QED
        BY <2>1, <3>1
    <2>5. T \cup {h} \in SUBSET Range(hs)
      BY <2>1 DEF Range
    <2>6. T \in SUBSET Hueco /\ Separados(T \cup {h})
      BY <2>5, SonHuecos DEF Separados
    <2>7. Cardinality(Libres(T \cup {h})) = Cardinality(Libres(T)) + h.size
      BY <2>2, <2>4, <2>6, LibresMas
    <2>8. Libres(De(s)) = Libres(T \cup {h}) /\ Libres(De(s \ {x})) = Libres(T)
      BY <2>1, <2>3, Zenon
    <2>9. Cardinality(Libres(De(s))) = Cardinality(Libres(De(s \ {x}))) + h.size
      BY <2>7, <2>8, Zenon
    <2> QED
      BY <2>1, <2>2, <2>9
  <1>4. De({}) = {} /\ Libres({}) = {} /\ Cardinality({}) = 0
    BY FS_EmptySet DEF Libres
  <1>5. \A s \in SUBSET N : s # {} => LET x == CHOOSE x \in s : TRUE IN x \in s
    OBVIOUS
  <1>6. ASSUME NEW s \in SUBSET N
        PROVE  f[s] = IF s = {} THEN 0
                      ELSE LET x == CHOOSE x \in s : TRUE
                           IN  f[s \ {x}] + hs[x].size
    <2>1. CASE s = {}
      <3>1. De(s) = {}
        BY <2>1
      <3>2. Cardinality(Libres(De(s))) = 0
        BY <1>4, <3>1
      <3> QED
        BY <2>1, <3>2
    <2>2. CASE s # {}
      <3>1. PICK x \in s : x = CHOOSE y \in s : TRUE
        BY <2>2
      <3>2. /\ s \ {x} \in SUBSET N
            /\ Cardinality(Libres(De(s))) = Cardinality(Libres(De(s \ {x}))) + hs[x].size
        BY <1>3
      <3>3. f[s] = f[s \ {x}] + hs[x].size
        BY <3>2
      <3> QED
        BY <2>2, <3>1, <3>3
    <2> QED
      BY <2>1, <2>2
  <1> HIDE DEF De
  <1>7. f = [s \in SUBSET N |->
                 IF s = {} THEN 0
                 ELSE LET x == CHOOSE x \in s : TRUE
                      IN  f[s \ {x}] + hs[x].size]
    BY <1>6
  <1> HIDE DEF f
  <1>8. it = [s \in SUBSET N |->
                 IF s = {} THEN 0
                 ELSE LET x == CHOOSE x \in s : TRUE
                      IN  it[s \ {x}] + hs[x].size]
    BY <1>7
  <1> HIDE DEF it
  <1>9. \A s \in SUBSET N : it[s] = f[s]
    <2> DEFINE Malos == {Cardinality(s) : s \in {s \in SUBSET N : it[s] # f[s]}}
    <2>1. \A s \in SUBSET N : IsFiniteSet(s) /\ Cardinality(s) \in Nat
      BY <1>2, FS_Subset, FS_CardinalityType
    <2> SUFFICES ASSUME NEW s0 \in SUBSET N, it[s0] # f[s0] PROVE FALSE
      OBVIOUS
    <2>2. Malos \in SUBSET Nat /\ Malos # {}
      BY <2>1
    <2>3. PICK n \in Malos : \A m \in Malos : n <= m
      BY <2>2, HayMinimo
    <2>4. PICK s \in SUBSET N : it[s] # f[s] /\ Cardinality(s) = n
      BY <2>3
    <2>5. CASE s = {}
      <3>1. it[s] = 0 /\ f[s] = 0
        BY <1>6, <1>8, <2>5
      <3> QED
        BY <2>4, <3>1
    <2>6. CASE s # {}
      <3>1. PICK x \in s : x = CHOOSE y \in s : TRUE
        BY <2>6
      <3>2. PICK t \in SUBSET N : t = s \ {x}
        OBVIOUS
      <3>3. it[s] = it[t] + hs[x].size
        BY <1>8, <2>6, <3>1, <3>2
      <3>4. f[s] = f[t] + hs[x].size
        BY <1>6, <2>6, <3>1, <3>2
      <3>5. it[t] # f[t]
        BY <2>4, <3>3, <3>4
      <3>6. Cardinality(t) = Cardinality(s) - 1
        BY <2>1, <3>1, <3>2, FS_RemoveElement
      <3>7. Cardinality(t) \in Malos
        BY <3>5
      <3>8. n <= Cardinality(t) /\ n \in Nat
        BY <2>2, <2>3, <3>7
      <3> QED
        BY <2>4, <3>6, <3>8
    <2> QED
      BY <2>5, <2>6
  <1>10. f[N] = Cardinality(Libres(De(N))) /\ N \in SUBSET N
    BY DEF f
  <1>11. De(N) = Range(hs)
    BY DEF De, Range
  <1> QED
    BY <1>1, <1>9, <1>10, <1>11
-----------------------------------------------------------------------------
(* The inductive invariant *)

\* The tables, the holes and the table that is being freed share out the memory.
Partes(D, hs, lib) ==
    /\ \A p \in DOMAIN D : Lista(D[p])
    /\ lib = <<>> \/ Lista(lib)
    /\ ListaDeHuecos(hs)
    /\ Reparto(SegmentosDe(D), PropiosDe(lib), Range(hs))

Simples ==
    /\ algoritmo \in Algoritmos
    /\ DOMAIN diccionario_tablas \subseteq PIDs
    /\ user_space \in [Direcciones -> {" ", "x"}]
    /\ pc \in {"esperar", "salir", "compactar"} /\ caido \in BOOLEAN
    /\ rechazados \subseteq DOMAIN diccionario_tablas

\* A request that waits has its process, and holes to compact.
PedidoServible ==
    /\ pedido = NINGUNO \/ /\ pedido \in Pedidos
                           /\ pedido.pid \in DOMAIN diccionario_tablas
                           /\ huecos_libres # <<>>
    /\ pc = "compactar" => pedido # NINGUNO

FaseDeSalida == pc = "salir" <=> liberando # <<>>

MemoriaInv ==
    /\ Simples
    /\ PedidoServible
    /\ FaseDeSalida
    /\ Partes(diccionario_tablas, huecos_libres, liberando)

LEMMA NadaQueLiberar == PropiosDe(<<>>) = {} /\ ~ Lista(<<>>)
  BY DEF PropiosDe, Range, Lista

LEMMA EsPedido == \A x \in Pedidos : x # NINGUNO
  BY DEF Pedidos, NINGUNO

LEMMA InvTipos ==
    ASSUME MemoriaInv
    PROVE  TypeOK
  <1>1. \A p \in DOMAIN diccionario_tablas : Tabla(p) \in Seq(Segmento)
    BY DEF MemoriaInv, Partes, Lista, Tabla
  <1>2. liberando \in Seq(Segmento)
    BY EmptySeq DEF MemoriaInv, Partes, Lista
  <1>3. huecos_libres \in Seq([pos : Nat, size : Nat \ {0}])
    BY DEF MemoriaInv, Partes, ListaDeHuecos, Hueco
  <1> QED
    BY <1>1, <1>2, <1>3 DEF TypeOK, MemoriaInv, Simples, PedidoServible

\* A hole ends inside the memory.
LEMMA HuecoDentro ==
    ASSUME NEW D, NEW hs, NEW lib, Partes(D, hs, lib), NEW i \in 1 .. Len(hs)
    PROVE  hs[i].pos + hs[i].size <= TAM_MEMORIA /\ hs[i].size <= TAM_MEMORIA
           /\ TAM_SEGMENTO_0 <= hs[i].pos
  <1>1. PICK h \in Range(hs) : h = hs[i]
    BY UnHueco DEF Partes
  <1>2. h.pos \in Nat /\ h.size \in Nat /\ h.size > 0
    BY <1>1, UnHueco DEF Partes
  <1>3. h.pos + h.size - 1 \in Nat /\ EnHueco(h.pos + h.size - 1, h) /\ EnHueco(h.pos, h)
    BY <1>2 DEF EnHueco
  <1>4. \A d \in Nat : EnHueco(d, h) => TAM_SEGMENTO_0 <= d /\ d < TAM_MEMORIA
    BY DEF Partes, Reparto, Cubre
  <1>5. TAM_MEMORIA \in Nat /\ TAM_SEGMENTO_0 \in Nat
    BY MemoriaAssumption
  <1>6. h.pos + h.size - 1 < TAM_MEMORIA /\ TAM_SEGMENTO_0 <= h.pos
    BY <1>2, <1>3, <1>4
  <1> QED
    BY <1>1, <1>2, <1>5, <1>6

LEMMA PartesInicio ==
    ASSUME NEW hs, hs = <<[pos |-> TAM_SEGMENTO_0, size |-> TAM_MEMORIA - TAM_SEGMENTO_0]>>
    PROVE  Partes(<<>>, hs, <<>>)
  <1>1. PICK h : h = [pos |-> TAM_SEGMENTO_0, size |-> TAM_MEMORIA - TAM_SEGMENTO_0]
    OBVIOUS
  <1>2. h \in Hueco /\ h.pos = TAM_SEGMENTO_0 /\ h.pos + h.size = TAM_MEMORIA
    BY <1>1, MemoriaAssumption DEF Hueco
  <1>3. hs = <<h>> /\ hs \in Seq(Hueco) /\ DOMAIN hs = {1} /\ hs[1] = h
    BY <1>1, <1>2
  <1>4. Range(hs) = {h} /\ Inyectiva(hs)
    BY <1>3 DEF Range, Inyectiva
  <1>5. ListaDeHuecos(hs)
    BY <1>3, <1>4 DEF ListaDeHuecos, Separados
  <1>6. DOMAIN <<>> = {}
    OBVIOUS
  <1>7. SegmentosDe(<<>>) = {} /\ PropiosDe(<<>>) = {}
    BY <1>6, NadaQueLiberar DEF SegmentosDe
  <1>8. Reparto({}, {}, {h})
    BY <1>2 DEF Reparto, SinPisar, Cubre, EnHueco
  <1> QED
    BY <1>4, <1>5, <1>6, <1>7, <1>8 DEF Partes

LEMMA PartesCrear ==
    ASSUME NEW D, NEW hs, NEW lib, Partes(D, hs, lib), NEW p, p \notin DOMAIN D,
           NEW DN, DOMAIN DN = DOMAIN D \cup {p}, DN[p] = <<segmento_0>>,
           \A q \in DOMAIN D : DN[q] = D[q]
    PROVE  Partes(DN, hs, lib)
  <1>1. PICK l : l = <<segmento_0>>
    OBVIOUS
  <1>2. l \in Seq(Segmento) /\ Len(l) = 1 /\ DOMAIN l = {1} /\ l[1] = segmento_0
    BY <1>1, SegmentoCero
  <1>3. Lista(l) /\ PropiosDe(l) = {}
    BY <1>2 DEF Lista, Inyectiva, PropiosDe, Range, Propio
  <1>4. \A q \in DOMAIN DN : Lista(DN[q])
    BY <1>1, <1>3 DEF Partes
  <1>5. \A q, s : <<q, s>> \in SegmentosDe(DN) <=> <<q, s>> \in SegmentosDe(D)
    <2>1. \A q, s : <<q, s>> \in SegmentosDe(DN) <=> q \in DOMAIN DN /\ s \in PropiosDe(DN[q])
      BY EnSegmentosDe
    <2>2. \A q, s : <<q, s>> \in SegmentosDe(D) <=> q \in DOMAIN D /\ s \in PropiosDe(D[q])
      BY EnSegmentosDe
    <2> QED
      BY <1>1, <1>3, <2>1, <2>2
  <1>6. \A x \in SegmentosDe(DN) : x = <<x[1], x[2]>>
    BY EnSegmentosDe
  <1>7. \A x \in SegmentosDe(D) : x = <<x[1], x[2]>>
    BY EnSegmentosDe
  <1>8. SegmentosDe(DN) = SegmentosDe(D)
    BY <1>5, <1>6, <1>7
  <1> QED
    BY <1>4, <1>8 DEF Partes

LEMMA PartesAlojar ==
    ASSUME NEW D, NEW hs, Partes(D, hs, <<>>), NEW p \in DOMAIN D,
           NEW k \in 1 .. Len(hs), NEW s \in Segmento, s.ID \in IDs,
           s.base = hs[k].pos, s.limite <= hs[k].size,
           NEW DN, EsTabla(DN, D, p, Append(D[p], s)),
           NEW r, r = IF hs[k].size = s.limite THEN RemoveAt(hs, k)
                      ELSE [hs EXCEPT ![k] = [pos |-> @.pos + s.limite, size |-> @.size - s.limite]]
    PROVE  Partes(DN, r, <<>>)
  <1>1. PICK S, H : S = SegmentosDe(D) /\ H = Range(hs)
    OBVIOUS
  <1>2. Reparto(S, {}, H) /\ ListaDeHuecos(hs) /\ H \in SUBSET Hueco /\ hs[k] \in H
    BY <1>1, NadaQueLiberar, SonHuecos DEF Partes
  <1>3. <<p, s>> \notin S
    BY <1>2, NoEstaba
  <1>4. s \notin PropiosDe(D[p]) /\ Lista(D[p])
    BY <1>1, <1>3, EnSegmentosDe DEF Partes
  <1>5. PICK t : t = Append(D[p], s)
    OBVIOUS
  <1>6. Lista(t) /\ PropiosDe(t) = PropiosDe(D[p]) \cup {s}
    BY <1>4, <1>5, ListaAgrega
  <1>7. SegmentosDe(DN) = S \cup ({p} \X {s})
    <2>1. EsTabla(DN, D, p, t)
      BY <1>5
    <2>21. PICK A \in SUBSET PropiosDe(D[p]) : A = {}
      OBVIOUS
    <2>2. PICK B : A = {} /\ B = {s}
      BY <2>21
    <2>3. PropiosDe(t) = (PropiosDe(D[p]) \ A) \cup B
      BY <1>6, <2>2
    <2>4. SegmentosDe(DN) = (SegmentosDe(D) \ ({p} \X A)) \cup ({p} \X B)
      BY <2>1, <2>3, TablaCambia
    <2>5. {p} \X A = {}
      BY <2>2
    <2> QED
      BY <1>1, <2>2, <2>4, <2>5
  <1>8. s.limite \in Nat /\ hs[k].size \in Nat
    BY <1>2, DeSegmento, UnHueco
  <1>9. ListaDeHuecos(r) /\ Reparto(S \cup ({p} \X {s}), {}, Range(r))
    <2>1. CASE hs[k].size = s.limite
      <3>1. r = RemoveAt(hs, k)
        BY <2>1
      <3>2. Reparto(S, {}, Range(hs))
        BY <1>1, <1>2
      <3> QED
        BY <1>2, <2>1, <3>1, <3>2, OcupaTodo
    <2>2. CASE hs[k].size # s.limite
      <3>1. PICK m : m = [pos |-> hs[k].pos + s.limite, size |-> hs[k].size - s.limite]
        OBVIOUS
      <3>2. r = [hs EXCEPT ![k] = [pos |-> @.pos + s.limite, size |-> @.size - s.limite]]
        BY <2>2
      <3>3. r = [hs EXCEPT ![k] = m]
        BY <3>1, <3>2, Zenon
      <3>4. EsCambio(r, hs, k, m)
        BY <3>3 DEF EsCambio
      <3>5. s.limite < hs[k].size
        BY <1>8, <2>2
      <3>6. Reparto(S, {}, Range(hs))
        BY <1>1, <1>2
      <3> QED
        BY <1>2, <3>1, <3>4, <3>5, <3>6, OcupaParte
    <2> QED
      BY <2>1, <2>2
  <1>10. \A q \in DOMAIN DN : Lista(DN[q])
    BY <1>5, <1>6 DEF EsTabla, Partes
  <1> QED
    BY <1>7, <1>9, <1>10, NadaQueLiberar DEF Partes

LEMMA PartesBorrar ==
    ASSUME NEW D, NEW hs, Partes(D, hs, <<>>), NEW p \in DOMAIN D, NEW i \in 2 .. Len(D[p]),
           NEW DN, EsTabla(DN, D, p, RemoveAt(D[p], i)),
           NEW r, r = alojar_nuevo_hueco(hs, D[p][i].base, D[p][i].limite)
    PROVE  Partes(DN, r, <<>>) /\ r # <<>>
  <1>1. PICK S : S = SegmentosDe(D)
    OBVIOUS
  <1>2. PICK l, s : l = D[p] /\ s = D[p][i]
    OBVIOUS
  <1>3. Lista(l) /\ i \in 2 .. Len(l) /\ s = l[i]
    BY <1>2 DEF Partes
  <1>4. s \in PropiosDe(l) /\ s \in Segmento
    BY <1>3, EnLista
  <1>5. <<p, s>> \in S
    BY <1>1, <1>2, <1>4, EnSegmentosDe
  <1>6. Reparto(S, {}, Range(hs)) /\ ListaDeHuecos(hs)
    BY <1>1, NadaQueLiberar DEF Partes
  <1>7. r = alojar_nuevo_hueco(hs, s.base, s.limite)
    BY <1>2, Zenon
  <1>8. ListaDeHuecos(r) /\ r # <<>> /\ Reparto(S \ ({p} \X {s}), {}, Range(r))
    BY <1>4, <1>5, <1>6, <1>7, SueltaDeTabla
  <1>9. PICK t : t = RemoveAt(l, i)
    OBVIOUS
  <1>10. Lista(t) /\ PropiosDe(t) = PropiosDe(l) \ {s}
    BY <1>3, <1>9, ListaQuita
  <1>11. EsTabla(DN, D, p, t)
    BY <1>2, <1>9
  <1>12. SegmentosDe(DN) = S \ ({p} \X {s})
    <2>21. PICK A \in SUBSET PropiosDe(D[p]) : A = {s}
      BY <1>2, <1>4
    <2>1. PICK B : A = {s} /\ B = {}
      BY <2>21
    <2>2. PropiosDe(t) = (PropiosDe(D[p]) \ A) \cup B
      BY <1>2, <1>10, <2>1
    <2>3. SegmentosDe(DN) = (SegmentosDe(D) \ ({p} \X A)) \cup ({p} \X B)
      BY <1>11, <2>2, TablaCambia
    <2>4. {p} \X B = {}
      BY <2>1
    <2> QED
      BY <1>1, <2>1, <2>3, <2>4
  <1>13. \A q \in DOMAIN DN : Lista(DN[q])
    BY <1>10, <1>11 DEF EsTabla, Partes
  <1> QED
    BY <1>8, <1>12, <1>13, NadaQueLiberar DEF Partes

LEMMA PartesSalir ==
    ASSUME NEW D, NEW hs, Partes(D, hs, <<>>), NEW p \in DOMAIN D,
           NEW DN, DOMAIN DN = DOMAIN D \ {p}, \A q \in DOMAIN DN : DN[q] = D[q]
    PROVE  Partes(DN, hs, D[p]) /\ D[p] # <<>>
  <1>1. PICK S, A : S = SegmentosDe(D) /\ A = PropiosDe(D[p])
    OBVIOUS
  <1>2. Lista(D[p]) /\ ListaDeHuecos(hs) /\ Reparto(S, {}, Range(hs))
    BY <1>1, NadaQueLiberar DEF Partes
  <1>3. \A q, s : <<q, s>> \in S <=> q \in DOMAIN D /\ s \in PropiosDe(D[q])
    BY <1>1, EnSegmentosDe
  <1>4. {p} \X A \in SUBSET S
    BY <1>1, <1>3
  <1>5. Reparto(S \ ({p} \X A), A, Range(hs))
    BY <1>2, <1>4, Pasan
  <1>6. SegmentosDe(DN) = S \ ({p} \X A)
    <2>1. \A q, s : <<q, s>> \in SegmentosDe(DN) <=> q \in DOMAIN DN /\ s \in PropiosDe(DN[q])
      BY EnSegmentosDe
    <2>2. \A q, s : <<q, s>> \in SegmentosDe(DN) <=> <<q, s>> \in S \ ({p} \X A)
      BY <1>1, <1>3, <2>1
    <2>3. \A x \in SegmentosDe(DN) : x = <<x[1], x[2]>>
      BY EnSegmentosDe
    <2>4. \A x \in S : x = <<x[1], x[2]>>
      BY <1>1, EnSegmentosDe
    <2> QED
      BY <2>2, <2>3, <2>4
  <1>7. \A q \in DOMAIN DN : Lista(DN[q])
    BY DEF Partes
  <1>8. D[p] # <<>>
    BY <1>2, NadaQueLiberar
  <1> QED
    BY <1>1, <1>2, <1>5, <1>6, <1>7, <1>8 DEF Partes

LEMMA PartesLiberar ==
    ASSUME NEW D, NEW hs, NEW lib, Partes(D, hs, lib), Len(lib) > 1,
           NEW r, r = alojar_nuevo_hueco(hs, lib[2].base, lib[2].limite)
    PROVE  Partes(D, r, RemoveAt(lib, 2)) /\ r # <<>> /\ RemoveAt(lib, 2) # <<>>
  <1>1. PICK S, L : S = SegmentosDe(D) /\ L = PropiosDe(lib)
    OBVIOUS
  <1>2. Lista(lib)
    BY DEF Partes
  <1>3. 2 \in 2 .. Len(lib)
    BY <1>2, EnLista
  <1>4. PICK s : s = lib[2]
    OBVIOUS
  <1>5. s \in L /\ s \in Segmento
    BY <1>1, <1>2, <1>3, <1>4, EnLista
  <1>6. Reparto(S, L, Range(hs)) /\ ListaDeHuecos(hs)
    BY <1>1 DEF Partes
  <1>7. r = alojar_nuevo_hueco(hs, s.base, s.limite)
    BY <1>4, Zenon
  <1>8. ListaDeHuecos(r) /\ r # <<>> /\ Reparto(S, L \ {s}, Range(r))
    BY <1>5, <1>6, <1>7, Suelta
  <1>9. Lista(RemoveAt(lib, 2)) /\ PropiosDe(RemoveAt(lib, 2)) = L \ {s}
    BY <1>1, <1>2, <1>3, <1>4, ListaQuita
  <1>10. RemoveAt(lib, 2) # <<>>
    BY <1>9, NadaQueLiberar
  <1> QED
    BY <1>1, <1>8, <1>9, <1>10 DEF Partes

LEMMA PartesFin ==
    ASSUME NEW D, NEW hs, NEW lib, Partes(D, hs, lib), Len(lib) = 1
    PROVE  Partes(D, hs, <<>>)
  <1>1. Lista(lib)
    BY DEF Partes
  <1>2. PropiosDe(lib) = {}
    <2> SUFFICES ASSUME NEW s \in PropiosDe(lib) PROVE FALSE
      OBVIOUS
    <2>1. PICK i \in 2 .. Len(lib) : s = lib[i]
      BY <1>1, EnLista
    <2> QED
      BY <2>1
  <1> QED
    BY <1>2, NadaQueLiberar DEF Partes

EsMovido(u, s, h) == u = [s EXCEPT !.base = h.pos]

LEMMA PartesDesplazar ==
    ASSUME NEW D, NEW hs, Partes(D, hs, <<>>), NEW p \in DOMAIN D, NEW i \in 2 .. Len(D[p]),
           NEW k \in 1 .. Len(hs),
           D[p][i].base = hs[k].pos + hs[k].size,
           NEW u, EsMovido(u, D[p][i], hs[k]),
           NEW t, EsCambio(t, D[p], i, u),
           NEW DN, EsTabla(DN, D, p, t),
           NEW r,
           r = alojar_nuevo_hueco(RemoveAt(hs, k), hs[k].pos + D[p][i].limite, hs[k].size)
    PROVE  Partes(DN, r, <<>>) /\ r # <<>>
  <1>1. PICK S : S = SegmentosDe(D)
    OBVIOUS
  <1>2. PICK l, s, h : l = D[p] /\ s = D[p][i] /\ h = hs[k]
    OBVIOUS
  <1>3. Lista(l) /\ i \in 2 .. Len(l) /\ s = l[i]
    BY <1>2 DEF Partes
  <1>4. s \in PropiosDe(l) /\ s \in Segmento /\ s.ID \in IDs
    BY <1>3, EnLista DEF Lista
  <1>5. <<p, s>> \in S
    BY <1>1, <1>2, <1>4, EnSegmentosDe
  <1>6. Reparto(S, {}, Range(hs)) /\ ListaDeHuecos(hs)
    BY <1>1, NadaQueLiberar DEF Partes
  <1>7. h \in Range(hs) /\ Range(hs) \in SUBSET Hueco /\ h.pos \in Nat /\ h.size \in Nat
    BY <1>2, <1>6, SonHuecos, UnHueco
  <1>8. u = [s EXCEPT !.base = h.pos]
    BY <1>2, Zenon DEF EsMovido
  <1>9. u \in Segmento /\ u.base = h.pos /\ u.limite = s.limite /\ u.ID = s.ID
    BY <1>4, <1>7, <1>8 DEF Segmento
  <1>10. <<p, u>> \notin S
    <2>1. PICK H \in SUBSET Hueco : H = Range(hs)
      BY <1>7
    <2>2. Reparto(S, {}, H) /\ h \in H
      BY <1>6, <1>7, <2>1
    <2> QED
      BY <1>9, <2>2, NoEstaba
  <1>11. u \notin PropiosDe(l)
    BY <1>1, <1>2, <1>10, EnSegmentosDe
  <1>12. EsCambio(t, l, i, u)
    BY <1>2
  <1>13. Lista(t) /\ PropiosDe(t) = (PropiosDe(l) \ {s}) \cup {u}
    <2>1. u \in Segmento /\ u.ID \in IDs
      BY <1>4, <1>9
    <2>2. Lista(t) /\ PropiosDe(t) = (PropiosDe(l) \ {l[i]}) \cup {u}
      BY <1>3, <1>11, <1>12, <2>1, ListaCambia
    <2> QED
      BY <1>3, <2>2
  <1>14. SegmentosDe(DN) = (S \ ({p} \X {s})) \cup ({p} \X {u})
    <2>21. PICK A \in SUBSET PropiosDe(D[p]) : A = {s}
      BY <1>2, <1>4
    <2>1. PICK B : A = {s} /\ B = {u}
      BY <2>21
    <2>2. PropiosDe(t) = (PropiosDe(D[p]) \ A) \cup B
      BY <1>2, <1>13, <2>1
    <2>3. SegmentosDe(DN) = (SegmentosDe(D) \ ({p} \X A)) \cup ({p} \X B)
      BY <2>2, TablaCambia
    <2> QED
      BY <1>1, <2>1, <2>3
  <1>15. /\ ListaDeHuecos(r) /\ r # <<>>
         /\ Reparto((S \ ({p} \X {s})) \cup ({p} \X {u}), {}, Range(r))
    <2>1. PICK q : q = RemoveAt(hs, k)
      OBVIOUS
    <2>2. r = alojar_nuevo_hueco(q, hs[k].pos + s.limite, hs[k].size)
      BY <1>2, <2>1, Zenon
    <2>3. EnLugarDe(u, s, hs[k])
      BY <1>2, <1>9 DEF EnLugarDe
    <2>4. s \in Segmento /\ u \in Segmento
      BY <1>4, <1>9
    <2> QED
      BY <1>5, <1>6, <2>1, <2>2, <2>3, <2>4, Desplaza
  <1>16. \A q \in DOMAIN DN : Lista(DN[q])
    BY <1>13 DEF EsTabla, Partes
  <1> QED
    BY <1>14, <1>15, <1>16, NadaQueLiberar DEF Partes

\* A segment begins after segment 0 and ends inside the memory.
LEMMA SegmentoDentro ==
    ASSUME NEW D, NEW hs, Partes(D, hs, <<>>), NEW p \in DOMAIN D, NEW s \in PropiosDe(D[p])
    PROVE  /\ s.base \in Nat /\ s.limite \in Nat /\ s.limite > 0
           /\ TAM_SEGMENTO_0 <= s.base /\ s.base + s.limite <= TAM_MEMORIA
  <1>1. s \in Segmento
    BY EnLista DEF Partes
  <1>2. PICK b \in Nat, l \in Nat : b = s.base /\ l = s.limite /\ l > 0
    BY <1>1, DeSegmento
  <1>3. PICK e : e = <<p, s>>
    OBVIOUS
  <1>4. e \in SegmentosDe(D) /\ e[2] = s
    BY <1>3, EnSegmentosDe
  <1>5. \A d \in Nat : EnSeg(d, e[2]) => TAM_SEGMENTO_0 <= d /\ d < TAM_MEMORIA
    BY <1>4 DEF Partes, Reparto, Cubre
  <1>6. EnSeg(b, e[2]) /\ EnSeg(b + l - 1, e[2]) /\ b + l - 1 \in Nat
    BY <1>2, <1>4 DEF EnSeg
  <1>7. TAM_SEGMENTO_0 <= b /\ b + l - 1 < TAM_MEMORIA
    BY <1>2, <1>5, <1>6
  <1> QED
    BY <1>2, <1>7, MemoriaAssumption

\* The hole of least position is followed by a segment, unless it reaches the end of the memory:
\* between them there can be no byte, and another hole would not touch it.
LEMMA SigueAlgo ==
    ASSUME NEW D, NEW hs, Partes(D, hs, <<>>), NEW k \in 1 .. Len(hs),
           \A j \in 1 .. Len(hs) : hs[k].pos <= hs[j].pos,
           hs[k].pos + hs[k].size < TAM_MEMORIA
    PROVE  \E q \in DOMAIN D : \E t \in PropiosDe(D[q]) : t.base = hs[k].pos + hs[k].size
  <1>1. PICK S, H : S = SegmentosDe(D) /\ H = Range(hs)
    OBVIOUS
  <1>2. Reparto(S, {}, H) /\ ListaDeHuecos(hs) /\ H \in SUBSET Hueco /\ Separados(H)
    BY <1>1, NadaQueLiberar, SonHuecos DEF Partes
  <1>3. PICK h \in H : h = hs[k]
    BY <1>1, <1>2, SonHuecos
  <1>4. h.pos \in Nat /\ h.size \in Nat /\ h.size > 0 /\ TAM_SEGMENTO_0 <= h.pos
    BY <1>2, <1>3, DeHueco, HuecoDentro
  <1>5. PICK d \in Nat : d = h.pos + h.size
    BY <1>4
  <1>6. Cubre(d, S, {}, H)
    <2>1. TAM_SEGMENTO_0 <= d /\ d < TAM_MEMORIA
      BY <1>3, <1>4, <1>5, MemoriaAssumption
    <2> QED
      BY <1>2, <2>1 DEF Reparto
  <1>7. ASSUME NEW g \in H, EnHueco(d, g) PROVE FALSE
    <2>1. PICK j \in 1 .. Len(hs) : g = hs[j]
      BY <1>1, <1>2, SonHuecos DEF Range
    <2>2. h.pos <= g.pos /\ g.pos \in Nat /\ g.size \in Nat /\ g.size > 0
      BY <1>2, <1>3, <2>1, DeHueco
    <2>3. g # h
      BY <1>4, <1>5, <1>7 DEF EnHueco
    <2>4. h.pos + h.size < g.pos \/ g.pos + g.size < h.pos
      BY <1>2, <2>3 DEF Separados
    <2> QED
      BY <1>4, <1>5, <1>7, <2>2, <2>4 DEF EnHueco
  <1>8. PICK e \in S : EnSeg(d, e[2])
    BY <1>6, <1>7 DEF Cubre
  <1>9. PICK q, t : q = e[1] /\ t = e[2]
    OBVIOUS
  <1>10. q \in DOMAIN D /\ t \in PropiosDe(D[q])
    <2>1. e = <<q, t>>
      BY <1>1, <1>9, EnSegmentosDe
    <2> QED
      BY <1>1, <2>1, EnSegmentosDe
  <1>11. t.base = d
    <2>1. t.base <= d /\ d < t.base + t.limite
      BY <1>8, <1>9 DEF EnSeg
    <2>2. t.base \in Nat /\ t.limite \in Nat
      BY <1>10, SegmentoDentro
    <2>3. ~ (EnSeg(d - 1, e[2]) /\ EnHueco(d - 1, h)) /\ EnHueco(d - 1, h)
      BY <1>2, <1>4, <1>5 DEF Reparto, SinPisar, EnHueco
    <2>4. ~ (t.base <= d - 1 /\ d - 1 < t.base + t.limite)
      BY <1>9, <2>3 DEF EnSeg
    <2> QED
      BY <2>1, <2>2, <2>4
  <1> QED
    BY <1>3, <1>5, <1>10, <1>11

\* A segment beyond the hole of least position begins after it.
LEMMA SigueSegmento ==
    ASSUME NEW D, NEW hs, Partes(D, hs, <<>>), NEW k \in 1 .. Len(hs),
           \A j \in 1 .. Len(hs) : hs[k].pos <= hs[j].pos,
           NEW p \in DOMAIN D, NEW s \in PropiosDe(D[p]), s.base > hs[k].pos
    PROVE  /\ s.base >= hs[k].pos + hs[k].size
           /\ \E q \in DOMAIN D : \E t \in PropiosDe(D[q]) : t.base = hs[k].pos + hs[k].size
  <1>1. PICK S, H : S = SegmentosDe(D) /\ H = Range(hs)
    OBVIOUS
  <1>2. Reparto(S, {}, H) /\ ListaDeHuecos(hs) /\ H \in SUBSET Hueco
    BY <1>1, NadaQueLiberar, SonHuecos DEF Partes
  <1>3. PICK h \in H : h = hs[k]
    BY <1>1, <1>2, SonHuecos
  <1>4. h.pos \in Nat /\ h.size \in Nat /\ h.size > 0
    BY <1>2, DeHueco
  <1>5. s.base \in Nat /\ s.limite \in Nat /\ s.limite > 0 /\ s.base + s.limite <= TAM_MEMORIA
    BY SegmentoDentro
  <1>6. s.base >= h.pos + h.size
    <2>1. PICK e : e = <<p, s>>
      OBVIOUS
    <2>2. e \in S /\ e[2] = s
      BY <1>1, <2>1, EnSegmentosDe
    <2>3. ~ (EnSeg(s.base, e[2]) /\ EnHueco(s.base, h))
      BY <1>2, <1>5, <2>2 DEF Reparto, SinPisar
    <2> QED
      BY <1>3, <1>4, <1>5, <2>2, <2>3 DEF EnSeg, EnHueco
  <1>7. hs[k].pos + hs[k].size < TAM_MEMORIA
    BY <1>3, <1>4, <1>5, <1>6, MemoriaAssumption
  <1> QED
    BY <1>3, <1>6, <1>7, SigueAlgo

\* Nothing beyond the hole of least position: it is the only one.
LEMMA UnicoHueco ==
    ASSUME NEW D, NEW hs, Partes(D, hs, <<>>), NEW k \in 1 .. Len(hs),
           \A j \in 1 .. Len(hs) : hs[k].pos <= hs[j].pos,
           \A q \in DOMAIN D : \A t \in PropiosDe(D[q]) : ~ (t.base > hs[k].pos)
    PROVE  Range(hs) = {hs[k]}
  <1>1. ListaDeHuecos(hs) /\ Range(hs) \in SUBSET Hueco /\ Separados(Range(hs))
        /\ hs[k] \in Range(hs) /\ DOMAIN hs = 1 .. Len(hs)
    BY SonHuecos DEF Partes
  <1>2. ASSUME NEW g \in Range(hs), g # hs[k] PROVE FALSE
    <2>1. PICK j \in 1 .. Len(hs) : g = hs[j]
      BY <1>1 DEF Range
    <2>2. PICK h : h = hs[k]
      OBVIOUS
    <2>3. /\ h.pos \in Nat /\ h.size \in Nat /\ h.size > 0
          /\ g.pos \in Nat /\ g.size \in Nat /\ g.size > 0
      BY <1>1, <2>2, DeHueco
    <2>4. h.pos + h.size < g.pos \/ g.pos + g.size < h.pos
      BY <1>1, <1>2, <2>2 DEF Separados
    <2>5. h.pos <= g.pos /\ g.pos + g.size <= TAM_MEMORIA
      BY <2>1, <2>2, HuecoDentro
    <2>6. h.pos + h.size < TAM_MEMORIA
      BY <2>3, <2>4, <2>5, MemoriaAssumption
    <2>7. hs[k].pos + hs[k].size < TAM_MEMORIA
      BY <2>2, <2>6
    <2>8. PICK q, t : /\ q \in DOMAIN D /\ t \in PropiosDe(D[q])
                      /\ t.base = hs[k].pos + hs[k].size
      BY <2>7, SigueAlgo
    <2> QED
      BY <2>2, <2>3, <2>8
  <1> QED
    BY <1>1, <1>2
-----------------------------------------------------------------------------
(* The invariant is inductive *)

LEMMA InvInicio ==
    ASSUME Init
    PROVE  MemoriaInv
  <1>1. Partes(diccionario_tablas, huecos_libres, liberando)
    BY PartesInicio DEF Init
  <1>2. Simples
    <2>1. DOMAIN diccionario_tablas = {} /\ rechazados = {}
      <3>1. DOMAIN <<>> = {}
        OBVIOUS
      <3>2. diccionario_tablas = <<>> /\ rechazados = {}
        BY DEF Init
      <3> QED
        BY <3>1, <3>2, Zenon
    <2>2. user_space \in [Direcciones -> {" ", "x"}]
      BY DEF Init
    <2>3. algoritmo \in Algoritmos /\ pc = "esperar" /\ caido \in BOOLEAN
      BY DEF Init
    <2> QED
      BY <2>1, <2>2, <2>3 DEF Simples
  <1> QED
    BY <1>1, <1>2 DEF Init, MemoriaInv, PedidoServible, FaseDeSalida

\* No process is ending: nothing is being freed.
LEMMA SinSalida ==
    ASSUME MemoriaInv, pc # "salir"
    PROVE  liberando = <<>> /\ Partes(diccionario_tablas, huecos_libres, <<>>)
  BY DEF MemoriaInv, FaseDeSalida

LEMMA InvCrearTabla ==
    ASSUME MemoriaInv, NEW p \in PIDs, CrearTabla(p)
    PROVE  MemoriaInv'
  <1>1. PICK D, DN : D = diccionario_tablas /\ DN = diccionario_tablas'
    OBVIOUS
  <1>2. /\ p \notin DOMAIN D /\ DOMAIN DN = DOMAIN D \cup {p} /\ DN[p] = <<segmento_0>>
        /\ \A q \in DOMAIN D : DN[q] = D[q]
        /\ UNCHANGED <<algoritmo, huecos_libres, user_space, pedido, pc, liberando, rechazados,
                       caido>>
    BY <1>1 DEF CrearTabla, Tabla
  <1>3. Partes(D, huecos_libres, liberando)
    BY <1>1 DEF MemoriaInv
  <1>4. Partes(DN, huecos_libres, liberando)
    BY <1>2, <1>3, PartesCrear
  <1>5. Partes(diccionario_tablas, huecos_libres, liberando)'
    BY <1>1, <1>2, <1>4
  <1>6. Simples' /\ PedidoServible' /\ FaseDeSalida'
    BY <1>1, <1>2 DEF MemoriaInv, Simples, PedidoServible, FaseDeSalida
  <1> QED
    BY <1>5, <1>6 DEF MemoriaInv

LEMMA InvCallocAloja ==
    ASSUME MemoriaInv, pc = "esperar", NEW p \in DOMAIN diccionario_tablas, NEW id \in IDs,
           NEW tam \in Tamanos, CallocAloja(p, id, tam)
    PROVE  MemoriaInv'
  <1>1. PICK D, DN : D = diccionario_tablas /\ DN = diccionario_tablas'
    OBVIOUS
  <1>2. PICK hs, r : hs = huecos_libres /\ r = huecos_libres'
    OBVIOUS
  <1>3. Partes(D, hs, <<>>) /\ liberando = <<>>
    BY <1>1, <1>2, SinSalida
  <1>4. PICK k : k = Elegido(tam)
    OBVIOUS
  <1>5. k \in 1 .. Len(hs) /\ hs[k].size >= tam
    <2>1. \A i \in 1 .. Len(hs) : hs[i].size <= TAM_MEMORIA
      BY <1>3, HuecoDentro
    <2>2. ListaDeHuecos(huecos_libres) /\ algoritmo \in Algoritmos /\ Utiles(tam) # {}
      BY DEF MemoriaInv, Partes, Simples, CallocAloja
    <2> QED
      BY <1>2, <1>4, <2>1, <2>2, ElElegido
  <1>6. PICK s : s = [ID |-> id, base |-> hs[k].pos, limite |-> tam]
    OBVIOUS
  <1>7. /\ DN = [D EXCEPT ![p] = Append(@, s)]
        /\ r = IF hs[k].size = tam THEN RemoveAt(hs, k)
               ELSE [hs EXCEPT ![k] = [pos |-> @.pos + tam, size |-> @.size - tam]]
        /\ pedido' = NINGUNO
        /\ UNCHANGED <<algoritmo, user_space, pc, liberando, rechazados, caido>>
    BY <1>1, <1>2, <1>4, <1>6 DEF CallocAloja, Ocupar
  <1>8. s \in Segmento /\ s.ID \in IDs /\ s.base = hs[k].pos /\ s.limite = tam /\ p \in DOMAIN D
    <2>1. hs[k].pos \in Nat
      BY <1>3, <1>5, UnHueco DEF Partes
    <2> QED
      BY <1>1, <1>6, <2>1, MemoriaAssumption DEF Segmento
  <1>9. s.limite <= hs[k].size
    <2>1. hs[k].size \in Nat /\ tam \in Nat
      BY <1>3, <1>5, UnHueco, MemoriaAssumption DEF Partes
    <2> QED
      BY <1>5, <1>8, <2>1
  <1>10. EsTabla(DN, D, p, Append(D[p], s))
    BY <1>7, <1>8 DEF EsTabla
  <1>11. r = IF hs[k].size = s.limite THEN RemoveAt(hs, k)
             ELSE [hs EXCEPT ![k] = [pos |-> @.pos + s.limite, size |-> @.size - s.limite]]
    BY <1>7, <1>8, Zenon
  <1>12. Partes(DN, r, <<>>)
    BY <1>3, <1>5, <1>8, <1>9, <1>10, <1>11, PartesAlojar
  <1>13. Partes(diccionario_tablas, huecos_libres, liberando)'
    BY <1>1, <1>2, <1>3, <1>7, <1>12
  <1>14. Simples' /\ PedidoServible' /\ FaseDeSalida'
    BY <1>1, <1>7, <1>10 DEF MemoriaInv, Simples, PedidoServible, FaseDeSalida, EsTabla
  <1> QED
    BY <1>13, <1>14 DEF MemoriaInv

\* BytesLibres adds the sizes in the list: it is the number of bytes in holes.
LEMMA CuentaLibres ==
    ASSUME NEW D, NEW hs, NEW lib, Partes(D, hs, lib)
    PROVE  Suma(hs) = Cardinality(Libres(Range(hs)))
  <1>1. ListaDeHuecos(hs)
    BY DEF Partes
  <1>2. \A i \in 1 .. Len(hs) : hs[i].pos + hs[i].size <= TAM_MEMORIA
    BY HuecoDentro
  <1> QED
    BY <1>1, <1>2, SumaSonLibres

LEMMA HayHuecos ==
    ASSUME MemoriaInv, NEW tam \in Tamanos, BytesLibres >= tam
    PROVE  huecos_libres # <<>>
  <1> SUFFICES ASSUME huecos_libres = <<>> PROVE FALSE
    OBVIOUS
  <1>1. Suma(huecos_libres) = Cardinality(Libres(Range(huecos_libres)))
    BY CuentaLibres DEF MemoriaInv
  <1>2. Range(huecos_libres) = {}
    BY DEF Range
  <1>3. Libres(Range(huecos_libres)) = {}
    BY <1>2 DEF Libres
  <1>4. BytesLibres = 0
    BY <1>1, <1>3, FS_EmptySet DEF BytesLibres, Suma
  <1> QED
    BY <1>4, MemoriaAssumption

LEMMA InvCalloc ==
    ASSUME MemoriaInv, pc = "esperar", NEW p \in DOMAIN diccionario_tablas, NEW id \in IDs,
           NEW tam \in Tamanos, Calloc(p, id, tam)
    PROVE  MemoriaInv'
  <1>1. CASE CallocAloja(p, id, tam)
    BY <1>1, InvCallocAloja
  <1>2. CASE CallocPideCompactar(p, id, tam)
    <2>1. huecos_libres # <<>>
      BY <1>2, HayHuecos DEF CallocPideCompactar
    <2>2. p \in PIDs
      BY DEF MemoriaInv, Simples
    <2>3. /\ pedido' = [pid |-> p, id |-> id, tam |-> tam, compactado |-> FALSE]
          /\ UNCHANGED <<algoritmo, diccionario_tablas, huecos_libres, user_space, pc, liberando,
                         rechazados, caido>>
      BY <1>2 DEF CallocPideCompactar
    <2>4. pedido' \in Pedidos /\ pedido'.pid = p
      BY <2>2, <2>3 DEF Pedidos
    <2>5. PedidoServible'
      BY <2>1, <2>3, <2>4 DEF PedidoServible
    <2> QED
      BY <2>3, <2>5 DEF MemoriaInv, Simples, FaseDeSalida
  <1>3. CASE CallocRechaza(p, tam)
    BY <1>3 DEF CallocRechaza, MemoriaInv, Simples, PedidoServible, FaseDeSalida
  <1> QED
    BY <1>1, <1>2, <1>3 DEF Calloc

LEMMA InvCrearSegmento ==
    ASSUME MemoriaInv, NEW p \in PIDs, NEW id \in IDs, NEW tam \in Tamanos,
           CrearSegmento(p, id, tam)
    PROVE  MemoriaInv'
  BY InvCalloc DEF CrearSegmento, SinPedido, Libre, Vivos

LEMMA InvReintentar ==
    ASSUME MemoriaInv, Reintentar
    PROVE  MemoriaInv'
  <1>1. PICK p, id, tam : p = pedido.pid /\ id = pedido.id /\ tam = pedido.tam
    OBVIOUS
  <1>2. p \in DOMAIN diccionario_tablas /\ id \in IDs /\ tam \in Tamanos
    BY <1>1 DEF Reintentar, MemoriaInv, PedidoServible, Pedidos
  <1>3. pc = "esperar" /\ Calloc(p, id, tam)
    BY <1>1 DEF Reintentar, Libre
  <1> QED
    BY <1>2, <1>3, InvCalloc

\* delete_segment finds a segment that is not the shared one, whose ID is 0.
LEMMA ElBorrado ==
    ASSUME NEW l, Lista(l), NEW id \in IDs, \E i \in DOMAIN l : l[i].ID = id
    PROVE  LET k == SelectInSeq(l, LAMBDA s : s.ID = id)
           IN  k \in 2 .. Len(l) /\ l[k].ID = id /\ \A j \in 1 .. k - 1 : l[j].ID # id
  <1>1. PICK I : I = {i \in 1 .. Len(l) : l[i].ID = id}
    OBVIOUS
  <1>2. Len(l) \in Nat /\ DOMAIN l = 1 .. Len(l) /\ I \in SUBSET Nat
    BY <1>1, EnLista
  <1>3. I # {}
    BY <1>1, <1>2
  <1>4. Min(I) \in I
    BY <1>2, <1>3, HayMinimo
  <1>5. 1 \notin I
    <2>1. l[1].ID = 0 /\ 0 \notin IDs
      BY MemoriaAssumption DEF Lista, segmento_0
    <2> QED
      BY <1>1, <2>1
  <1>6. SelectInSeq(l, LAMBDA s : s.ID = id) = Min(I)
    BY <1>1, <1>3 DEF SelectInSeq
  <1>7. PICK k : k = Min(I)
    OBVIOUS
  <1>8. k \in 2 .. Len(l) /\ l[k].ID = id
    BY <1>1, <1>2, <1>4, <1>5, <1>7
  <1>9. ASSUME NEW j \in 1 .. k - 1 PROVE l[j].ID # id
    <2>1. j \in 1 .. Len(l) /\ j < k
      BY <1>2, <1>8
    <2>2. \A x \in I : k <= x
      BY <1>2, <1>3, <1>7, HayMinimo
    <2>3. j \notin I
      BY <1>8, <2>1, <2>2
    <2> QED
      BY <1>1, <2>1, <2>3
  <1> QED
    BY <1>6, <1>7, <1>8, <1>9

LEMMA InvBorrarSegmento ==
    ASSUME MemoriaInv, NEW p \in PIDs, NEW id \in IDs, BorrarSegmento(p, id)
    PROVE  MemoriaInv'
  <1>1. PICK D, DN : D = diccionario_tablas /\ DN = diccionario_tablas'
    OBVIOUS
  <1>2. PICK hs, r : hs = huecos_libres /\ r = huecos_libres'
    OBVIOUS
  <1>3. Partes(D, hs, <<>>) /\ liberando = <<>>
    BY <1>1, <1>2, SinSalida DEF BorrarSegmento, SinPedido, Libre
  <1>4. p \in DOMAIN D /\ \E i \in DOMAIN D[p] : D[p][i].ID = id
    BY <1>1 DEF BorrarSegmento, Vivos, Tabla
  <1>5. Lista(D[p])
    BY <1>3, <1>4 DEF Partes
  <1>6. PICK i : i = SelectInSeq(D[p], LAMBDA s : s.ID = id)
    OBVIOUS
  <1>7. i \in 2 .. Len(D[p])
    BY <1>4, <1>5, <1>6, ElBorrado
  <1>8. /\ DN = [D EXCEPT ![p] = RemoveAt(@, i)]
        /\ r = alojar_nuevo_hueco(hs, D[p][i].base, D[p][i].limite)
        /\ UNCHANGED <<algoritmo, user_space, pedido, pc, liberando, rechazados, caido>>
    BY <1>1, <1>2, <1>6 DEF BorrarSegmento, Tabla
  <1>9. EsTabla(DN, D, p, RemoveAt(D[p], i))
    BY <1>4, <1>8 DEF EsTabla
  <1>10. Partes(DN, r, <<>>) /\ r # <<>>
    BY <1>3, <1>4, <1>7, <1>8, <1>9, PartesBorrar
  <1>11. Partes(diccionario_tablas, huecos_libres, liberando)'
    BY <1>1, <1>2, <1>3, <1>8, <1>10
  <1>12. Simples' /\ PedidoServible' /\ FaseDeSalida'
    BY <1>1, <1>2, <1>8, <1>9, <1>10
       DEF MemoriaInv, Simples, PedidoServible, FaseDeSalida, EsTabla
  <1> QED
    BY <1>11, <1>12 DEF MemoriaInv

LEMMA InvExit ==
    ASSUME MemoriaInv, NEW p \in PIDs, Exit(p)
    PROVE  MemoriaInv'
  <1>1. PICK D, DN : D = diccionario_tablas /\ DN = diccionario_tablas'
    OBVIOUS
  <1>2. Partes(D, huecos_libres, <<>>)
    BY <1>1, SinSalida DEF Exit, Libre
  <1>3. /\ p \in DOMAIN D
        /\ DOMAIN DN = DOMAIN D \ {p} /\ \A q \in DOMAIN DN : DN[q] = D[q]
        /\ pedido = NINGUNO \/ pedido.pid # p
        /\ liberando' = D[p] /\ pc' = "salir"
        /\ rechazados' = rechazados \ {p}
        /\ UNCHANGED <<algoritmo, huecos_libres, user_space, pedido, caido>>
    BY <1>1 DEF Exit, Tabla
  <1>4. Partes(DN, huecos_libres, D[p]) /\ D[p] # <<>>
    BY <1>2, <1>3, PartesSalir
  <1>5. Partes(diccionario_tablas, huecos_libres, liberando)'
    BY <1>1, <1>3, <1>4
  <1>6. Simples' /\ PedidoServible' /\ FaseDeSalida'
    BY <1>1, <1>3, <1>4 DEF MemoriaInv, Simples, PedidoServible, FaseDeSalida
  <1> QED
    BY <1>5, <1>6 DEF MemoriaInv

LEMMA InvLiberarSegmento ==
    ASSUME MemoriaInv, LiberarSegmento
    PROVE  MemoriaInv'
  <1>1. PICK D, lib : D = diccionario_tablas /\ lib = liberando
    OBVIOUS
  <1>2. PICK hs, r : hs = huecos_libres /\ r = huecos_libres'
    OBVIOUS
  <1>3. /\ Len(lib) > 1 /\ r = alojar_nuevo_hueco(hs, lib[2].base, lib[2].limite)
        /\ liberando' = RemoveAt(lib, 2) /\ pc = "salir"
        /\ UNCHANGED <<algoritmo, diccionario_tablas, user_space, pedido, pc, rechazados, caido>>
    BY <1>1, <1>2 DEF LiberarSegmento
  <1>4. Partes(D, hs, lib)
    BY <1>1, <1>2 DEF MemoriaInv
  <1>5. Partes(D, r, RemoveAt(lib, 2)) /\ r # <<>> /\ RemoveAt(lib, 2) # <<>>
    BY <1>3, <1>4, PartesLiberar
  <1>6. Partes(diccionario_tablas, huecos_libres, liberando)'
    BY <1>1, <1>2, <1>3, <1>5
  <1>7. Simples' /\ PedidoServible' /\ FaseDeSalida'
    BY <1>2, <1>3, <1>5 DEF MemoriaInv, Simples, PedidoServible, FaseDeSalida
  <1> QED
    BY <1>6, <1>7 DEF MemoriaInv

LEMMA InvFinExit ==
    ASSUME MemoriaInv, FinExit
    PROVE  MemoriaInv'
  <1>1. Partes(diccionario_tablas, huecos_libres, <<>>)
    BY PartesFin DEF MemoriaInv, FinExit
  <1> QED
    BY <1>1 DEF FinExit, MemoriaInv, Simples, PedidoServible, FaseDeSalida

LEMMA InvMovOut ==
    ASSUME MemoriaInv, NEW p \in PIDs, NEW i \in 2 .. MAX_SEGMENTOS + 1, MovOut(p, i)
    PROVE  MemoriaInv'
  <1>1. user_space' \in [Direcciones -> {" ", "x"}]
    BY DEF MovOut, MemoriaInv, Simples
  <1> QED
    BY <1>1 DEF MovOut, MemoriaInv, Simples, PedidoServible, FaseDeSalida

LEMMA EnSegmentos ==
    /\ \A e \in Segmentos : \E p \in DOMAIN diccionario_tablas : \E i \in DOMAIN Tabla(p) :
          e = <<p, i>> /\ Seg(e) = Tabla(p)[i]
    /\ \A p \in DOMAIN diccionario_tablas : \A i \in DOMAIN Tabla(p) :
          <<p, i>> \in Segmentos /\ Seg(<<p, i>>) = Tabla(p)[i]
  BY DEF Segmentos, Seg

LEMMA SegmentosDelHueco ==
    ASSUME MemoriaInv, pc # "salir", huecos_libres # <<>>,
           NEW hueco, hueco = huecos_libres[PrimerHueco]
    PROVE  /\ hueco \in Hueco /\ hueco.pos \in Nat /\ hueco.size \in Nat /\ hueco.size > 0
           /\ \A e \in SegmentosUtiles(hueco) :
                 /\ \E p \in DOMAIN diccionario_tablas : \E i \in 2 .. Len(Tabla(p)) :
                       e = <<p, i>> /\ Seg(e) = Tabla(p)[i]
                 /\ Seg(e) \in Segmento /\ Seg(e).base >= hueco.pos + hueco.size
           /\ SegmentosUtiles(hueco) # {} =>
                 \E e \in SegmentosUtiles(hueco) : Seg(e).base = hueco.pos + hueco.size
  <1>1. PICK D, hs : D = diccionario_tablas /\ hs = huecos_libres
    OBVIOUS
  <1>2. Partes(D, hs, <<>>) /\ ListaDeHuecos(hs)
    BY <1>1, SinSalida DEF Partes
  <1>3. PICK k : k = PrimerHueco
    OBVIOUS
  <1>4. k \in 1 .. Len(hs) /\ \A j \in 1 .. Len(hs) : hs[k].pos <= hs[j].pos
    BY <1>1, <1>2, <1>3, ElPrimero
  <1>5. hueco = hs[k]
    BY <1>1, <1>3
  <1>6. hueco \in Hueco /\ hueco.pos \in Nat /\ hueco.size \in Nat /\ hueco.size > 0
    BY <1>2, <1>4, <1>5, UnHueco
  <1>7. ASSUME NEW e \in SegmentosUtiles(hueco)
        PROVE  \E p \in DOMAIN D : \E i \in 2 .. Len(D[p]) : e = <<p, i>> /\ Seg(e) = D[p][i]
    <2>1. e \in Segmentos /\ Seg(e).base > hueco.pos
      BY <1>7 DEF SegmentosUtiles
    <2>2. PICK p, i : /\ p \in DOMAIN D /\ i \in DOMAIN D[p]
                   /\ e = <<p, i>> /\ Seg(e) = D[p][i]
      BY <1>1, <2>1, EnSegmentos DEF Tabla
    <2>3. Lista(D[p])
      BY <1>2, <2>2 DEF Partes
    <2>4. i # 1
      <3>1. D[p][1].base = 0
        BY <2>3 DEF Lista, segmento_0
      <3> QED
        BY <1>6, <2>1, <2>2, <3>1
    <2>5. i \in 2 .. Len(D[p])
      BY <2>2, <2>3, <2>4, EnLista
    <2> QED
      BY <2>2, <2>5
  <1>8. ASSUME NEW e \in SegmentosUtiles(hueco)
        PROVE  /\ Seg(e) \in Segmento /\ Seg(e).base >= hueco.pos + hueco.size
               /\ \E f \in SegmentosUtiles(hueco) : Seg(f).base = hueco.pos + hueco.size
    <2>1. PICK p, i : /\ p \in DOMAIN D /\ i \in 2 .. Len(D[p])
                   /\ e = <<p, i>> /\ Seg(e) = D[p][i]
      BY <1>7
    <2>2. PICK s : s = Seg(e)
      OBVIOUS
    <2>3. s \in PropiosDe(D[p]) /\ s \in Segmento /\ s.base > hueco.pos
      BY <1>2, <1>8, <2>1, <2>2, EnLista DEF Partes, SegmentosUtiles
    <2>4. s.base > hs[k].pos
      BY <1>5, <2>3
    <2>5. /\ s.base >= hs[k].pos + hs[k].size
          /\ \E q \in DOMAIN D : \E t \in PropiosDe(D[q]) : t.base = hs[k].pos + hs[k].size
      BY <1>2, <1>4, <2>1, <2>3, <2>4, SigueSegmento
    <2>6. PICK q, t : /\ q \in DOMAIN D /\ t \in PropiosDe(D[q])
                   /\ t.base = hueco.pos + hueco.size
      BY <1>5, <2>5
    <2>7. PICK j \in 2 .. Len(D[q]) : t = D[q][j]
      BY <1>2, <2>6, EnLista DEF Partes
    <2>8. j \in DOMAIN D[q]
      BY <1>2, <2>6, EnLista DEF Partes
    <2>9. <<q, j>> \in Segmentos /\ Seg(<<q, j>>) = t
      BY <1>1, <2>6, <2>7, <2>8, EnSegmentos DEF Tabla
    <2>10. t.base > hueco.pos
      BY <1>6, <2>6
    <2>11. <<q, j>> \in SegmentosUtiles(hueco)
      BY <2>9, <2>10 DEF SegmentosUtiles
    <2> QED
      BY <1>5, <2>2, <2>3, <2>5, <2>6, <2>9, <2>11
  <1> QED
    BY <1>1, <1>6, <1>7, <1>8 DEF Tabla

\* The segment that a turn of the loop moves is the one right after the hole.
LEMMA ElDesplazado ==
    ASSUME MemoriaInv, pc # "salir", huecos_libres # <<>>,
           NEW hueco, hueco = huecos_libres[PrimerHueco],
           NEW e \in SegmentosUtiles(hueco),
           \A f \in SegmentosUtiles(hueco) : Seg(e).base <= Seg(f).base
    PROVE  Seg(e).base = hueco.pos + hueco.size
  <1>1. hueco.pos \in Nat /\ hueco.size \in Nat
    BY SegmentosDelHueco
  <1>2. Seg(e) \in Segmento /\ Seg(e).base >= hueco.pos + hueco.size
    BY SegmentosDelHueco
  <1>3. PICK f \in SegmentosUtiles(hueco) : Seg(f).base = hueco.pos + hueco.size
    BY SegmentosDelHueco
  <1>4. Seg(e).base <= hueco.pos + hueco.size
    BY <1>3
  <1>5. Seg(e).base \in Nat
    BY <1>2, DeSegmento
  <1> QED
    BY <1>1, <1>2, <1>4, <1>5

LEMMA InvDesplazar ==
    ASSUME MemoriaInv, Desplazar
    PROVE  MemoriaInv'
  <1>1. PICK D, DN : D = diccionario_tablas /\ DN = diccionario_tablas'
    OBVIOUS
  <1>2. PICK hs, r : hs = huecos_libres /\ r = huecos_libres'
    OBVIOUS
  <1>3. PICK k, hueco : k = PrimerHueco /\ hueco = hs[k]
    OBVIOUS
  <1>4. pc = "compactar" /\ hs # <<>>
    BY <1>2 DEF Desplazar
  <1>5. Partes(D, hs, <<>>) /\ liberando = <<>>
    BY <1>1, <1>2, <1>4, SinSalida
  <1>6. k \in 1 .. Len(hs)
    BY <1>2, <1>3, <1>4, <1>5, ElPrimero DEF Partes
  <1>7. PICK e \in SegmentosUtiles(hueco) :
            /\ \A f \in SegmentosUtiles(hueco) : Seg(e).base <= Seg(f).base
            /\ user_space' = Mover(Seg(e).base, hueco.pos, Seg(e).limite)
            /\ DN = [D EXCEPT ![e[1]][e[2]].base = hueco.pos]
            /\ r = alojar_nuevo_hueco(RemoveAt(hs, k), hueco.pos + Seg(e).limite, hueco.size)
    BY <1>1, <1>2, <1>3 DEF Desplazar
  <1>8. UNCHANGED <<algoritmo, pedido, pc, liberando, rechazados, caido>>
    BY DEF Desplazar
  <1>9. PICK p, i : /\ p \in DOMAIN D /\ i \in 2 .. Len(D[p])
                   /\ e = <<p, i>> /\ Seg(e) = D[p][i]
    BY <1>1, <1>2, <1>3, <1>4, SegmentosDelHueco DEF Tabla
  <1>10. Seg(e).base = hueco.pos + hueco.size
    BY <1>2, <1>3, <1>4, <1>7, ElDesplazado
  <1>11. PICK u : u = [D[p][i] EXCEPT !.base = hueco.pos]
    OBVIOUS
  <1>12. PICK t : t = [D[p] EXCEPT ![i] = u]
    OBVIOUS
  <1>13. EsMovido(u, D[p][i], hs[k]) /\ EsCambio(t, D[p], i, u)
    BY <1>3, <1>11, <1>12 DEF EsMovido, EsCambio
  <1>14. EsTabla(DN, D, p, t)
    <2>1. DN = [D EXCEPT ![p] = [D[p] EXCEPT ![i] = [D[p][i] EXCEPT !.base = hueco.pos]]]
      BY <1>7, <1>9
    <2>2. DN = [D EXCEPT ![p] = t]
      BY <1>11, <1>12, <2>1, Zenon
    <2> QED
      BY <2>2 DEF EsTabla
  <1>15. Partes(DN, r, <<>>) /\ r # <<>>
    <2>1. D[p][i].base = hs[k].pos + hs[k].size
      BY <1>3, <1>9, <1>10
    <2>2. r = alojar_nuevo_hueco(RemoveAt(hs, k), hs[k].pos + D[p][i].limite, hs[k].size)
      BY <1>3, <1>7, <1>9, Zenon
    <2> QED
      BY <1>5, <1>6, <1>9, <1>13, <1>14, <2>1, <2>2, PartesDesplazar
  <1>16. Partes(diccionario_tablas, huecos_libres, liberando)'
    BY <1>1, <1>2, <1>5, <1>8, <1>15
  <1>17. user_space' \in [Direcciones -> {" ", "x"}]
    <2>1. PICK a, b, n : a = Seg(e).base /\ b = hueco.pos /\ n = Seg(e).limite
      OBVIOUS
    <2>2. Seg(e) \in PropiosDe(D[p])
      BY <1>5, <1>9, EnLista DEF Partes
    <2>3. a \in Nat /\ b \in Nat /\ n \in Nat /\ a + n <= TAM_MEMORIA
      BY <1>2, <1>3, <1>4, <1>5, <1>9, <2>1, <2>2, SegmentosDelHueco, SegmentoDentro
    <2>4. \A d \in Direcciones : d \in b .. b + n - 1 => a + (d - b) \in Direcciones
      BY <2>3, MemoriaAssumption DEF Direcciones
    <2>5. \A d \in Direcciones : user_space[d] \in {" ", "x"}
      BY DEF MemoriaInv, Simples
    <2>6. user_space' = Mover(a, b, n)
      BY <1>7, <2>1
    <2> QED
      BY <2>4, <2>5, <2>6 DEF Mover
  <1>18. Simples' /\ PedidoServible' /\ FaseDeSalida'
    BY <1>1, <1>2, <1>8, <1>14, <1>15, <1>17
       DEF MemoriaInv, Simples, PedidoServible, FaseDeSalida, EsTabla
  <1> QED
    BY <1>16, <1>18 DEF MemoriaInv

LEMMA InvPaso ==
    ASSUME MemoriaInv, [Next]_vars
    PROVE  MemoriaInv'
  <1>1. CASE UNCHANGED vars
    BY <1>1 DEF vars, MemoriaInv, Simples, PedidoServible, FaseDeSalida
  <1>2. ASSUME NEW p \in PIDs, CrearTabla(p) \/ Exit(p) PROVE MemoriaInv'
    BY <1>2, InvCrearTabla, InvExit
  <1>3. ASSUME NEW p \in PIDs, NEW id \in IDs, BorrarSegmento(p, id) \/ BorrarInexistente(p, id)
        PROVE  MemoriaInv'
    <2>1. CASE BorrarInexistente(p, id)
      BY <2>1 DEF BorrarInexistente, MemoriaInv, Simples, PedidoServible, FaseDeSalida
    <2> QED
      BY <1>3, <2>1, InvBorrarSegmento
  <1>4. ASSUME NEW p \in PIDs, NEW id \in IDs, NEW tam \in Tamanos, CrearSegmento(p, id, tam)
        PROVE  MemoriaInv'
    BY <1>4, InvCrearSegmento
  <1>5. ASSUME NEW p \in PIDs, NEW i \in 2 .. MAX_SEGMENTOS + 1, MovOut(p, i)
        PROVE  MemoriaInv'
    BY <1>5, InvMovOut
  <1>6. CASE LiberarSegmento
    BY <1>6, InvLiberarSegmento
  <1>7. CASE FinExit
    BY <1>7, InvFinExit
  <1>8. CASE Reintentar
    BY <1>8, InvReintentar
  <1>9. CASE Compactar
    BY <1>9 DEF Compactar, Libre, MemoriaInv, Simples, PedidoServible, FaseDeSalida
  <1>10. CASE Desplazar
    BY <1>10, InvDesplazar
  <1>11. CASE FinCompactar
    <2>1. pedido \in Pedidos /\ pedido.pid \in DOMAIN diccionario_tablas
      BY <1>11 DEF FinCompactar, MemoriaInv, PedidoServible
    <2>2. pedido' \in Pedidos /\ pedido'.pid = pedido.pid
      BY <1>11, <2>1 DEF FinCompactar, Pedidos
    <2> QED
      BY <1>11, <2>1, <2>2
         DEF FinCompactar, MemoriaInv, Simples, PedidoServible, FaseDeSalida
  <1> QED
    BY <1>1, <1>2, <1>3, <1>4, <1>5, <1>6, <1>7, <1>8, <1>9, <1>10, <1>11
       DEF Next, compactar_segmentos

\* The memory is shared out at every moment.
THEOREM Invariante == Spec => []MemoriaInv
  <1>1. Init => MemoriaInv
    BY InvInicio
  <1>2. MemoriaInv /\ [Next]_vars => MemoriaInv'
    BY InvPaso
  <1> QED
    BY <1>1, <1>2, PTL DEF Spec

\* Every variable keeps its type.
THEOREM Tipos == Spec => []TypeOK
  <1>1. MemoriaInv => TypeOK
    BY InvTipos
  <1> QED
    BY <1>1, Invariante, PTL

LEMMA AloSumoUno ==
    ASSUME NEW A, \A x, y \in A : x = y
    PROVE  Cardinality(A) = IF A = {} THEN 0 ELSE 1
  <1>1. CASE A = {}
    BY <1>1, FS_EmptySet
  <1>2. CASE A # {}
    <2>1. PICK x : A = {x}
      BY <1>2
    <2> QED
      BY <1>2, <2>1, FS_Singleton
  <1> QED
    BY <1>1, <1>2

LEMMA InvParticion ==
    ASSUME MemoriaInv
    PROVE  ParticionDeMemoria
  <1>1. PICK D, hs, lib : D = diccionario_tablas /\ hs = huecos_libres /\ lib = liberando
    OBVIOUS
  <1>2. PICK S, L, H : S = SegmentosDe(D) /\ L = PropiosDe(lib) /\ H = Range(hs)
    OBVIOUS
  <1>3. Partes(D, hs, lib) /\ Reparto(S, L, H) /\ ListaDeHuecos(hs)
    BY <1>1, <1>2 DEF MemoriaInv, Partes
  <1>4. DOMAIN hs = 1 .. Len(hs) /\ \A i \in DOMAIN hs : hs[i] \in H
    BY <1>2, <1>3, SonHuecos
  <1>5. ASSUME NEW i \in DOMAIN hs, NEW j \in DOMAIN hs PROVE hs[i].pos + hs[i].size # hs[j].pos
    <2>1. PICK g, h : g = hs[i] /\ h = hs[j]
      OBVIOUS
    <2>2. g \in H /\ h \in H /\ Separados(H) /\ H \in SUBSET Hueco
      BY <1>2, <1>3, <1>4, <2>1, SonHuecos
    <2>3. g.pos \in Nat /\ g.size \in Nat /\ g.size > 0 /\ h.pos \in Nat /\ h.size \in Nat
      BY <2>2, DeHueco
    <2>4. g # h => g.pos + g.size < h.pos \/ h.pos + h.size < g.pos
      BY <2>2 DEF Separados
    <2> QED
      BY <2>1, <2>3, <2>4
  <1>6. ASSUME NEW d \in Direcciones
        PROVE  Cardinality({e \in Propios : d \in Bytes(Seg(e))})
                 + Cardinality({i \in 2 .. Len(lib) : d \in Bytes(lib[i])})
                 + Cardinality({i \in DOMAIN hs : d \in hs[i].pos .. hs[i].pos + hs[i].size - 1})
               = IF d < TAM_SEGMENTO_0 THEN 0 ELSE 1
    <2>1. d \in Nat /\ d < TAM_MEMORIA
      BY MemoriaAssumption DEF Direcciones
    <2>2. PICK A, B, C : /\ A = {e \in Propios : d \in Bytes(Seg(e))}
                         /\ B = {i \in 2 .. Len(lib) : d \in Bytes(lib[i])}
                         /\ C = {i \in DOMAIN hs : d \in hs[i].pos .. hs[i].pos + hs[i].size - 1}
      OBVIOUS
    <2>3. SinPisar(S, L, H)
      BY <1>3 DEF Reparto
    <2>4. \A s \in Segmento : d \in Bytes(s) <=> EnSeg(d, s)
      <3> SUFFICES ASSUME NEW s \in Segmento PROVE d \in Bytes(s) <=> EnSeg(d, s)
        OBVIOUS
      <3>1. s.base \in Nat /\ s.limite \in Nat
        BY DeSegmento
      <3> QED
        BY <2>1, <3>1 DEF Bytes, EnSeg
    <2>5. \A e \in A : \E p \in DOMAIN D : \E i \in 2 .. Len(D[p]) :
                          /\ e = <<p, i>> /\ EnSeg(d, D[p][i])
                          /\ D[p][i] \in PropiosDe(D[p])
      <3> SUFFICES ASSUME NEW e \in A
                   PROVE  \E p \in DOMAIN D : \E i \in 2 .. Len(D[p]) :
                             e = <<p, i>> /\ EnSeg(d, D[p][i]) /\ D[p][i] \in PropiosDe(D[p])
        OBVIOUS
      <3>1. e \in Segmentos /\ e[2] > 1 /\ d \in Bytes(Seg(e))
        BY <2>2 DEF Propios
      <3>2. PICK p, i : p \in DOMAIN D /\ i \in DOMAIN D[p] /\ e = <<p, i>> /\ Seg(e) = D[p][i]
        BY <1>1, <3>1, EnSegmentos DEF Tabla
      <3>3. Lista(D[p])
        BY <1>3, <3>2 DEF Partes
      <3>4. i \in 2 .. Len(D[p])
        BY <3>1, <3>2, <3>3, EnLista
      <3>5. D[p][i] \in PropiosDe(D[p]) /\ D[p][i] \in Segmento
        BY <3>3, <3>4, EnLista
      <3> QED
        BY <2>4, <3>1, <3>2, <3>4, <3>5
    <2>6. \A x, y \in A : x = y
      <3> SUFFICES ASSUME NEW x \in A, NEW y \in A PROVE x = y
        OBVIOUS
      <3>1. PICK p, i : /\ p \in DOMAIN D /\ i \in 2 .. Len(D[p]) /\ x = <<p, i>>
                        /\ EnSeg(d, D[p][i]) /\ D[p][i] \in PropiosDe(D[p])
        BY <2>5
      <3>2. PICK q, j : /\ q \in DOMAIN D /\ j \in 2 .. Len(D[q]) /\ y = <<q, j>>
                        /\ EnSeg(d, D[q][j]) /\ D[q][j] \in PropiosDe(D[q])
        BY <2>5
      <3>3. PICK s, t : s = D[p][i] /\ t = D[q][j]
        OBVIOUS
      <3>4. <<p, s>> \in S /\ <<q, t>> \in S
        BY <1>2, <3>1, <3>2, <3>3, EnSegmentosDe
      <3>5. EnSeg(d, <<p, s>>[2]) /\ EnSeg(d, <<q, t>>[2])
        BY <3>1, <3>2, <3>3
      <3>6. <<p, s>> = <<q, t>>
        BY <2>1, <2>3, <3>4, <3>5 DEF SinPisar
      <3>7. p = q /\ D[p][i] = D[p][j] /\ Lista(D[p])
        BY <1>3, <3>1, <3>3, <3>6 DEF Partes
      <3>8. i = j
        BY <3>1, <3>2, <3>7, EnLista DEF Lista, Inyectiva
      <3> QED
        BY <3>1, <3>2, <3>7, <3>8
    <2>7. A # {} <=> \E x \in S : EnSeg(d, x[2])
      <3>1. ASSUME NEW e \in A PROVE \E x \in S : EnSeg(d, x[2])
        <4>1. PICK p, i : /\ p \in DOMAIN D /\ i \in 2 .. Len(D[p]) /\ e = <<p, i>>
                          /\ EnSeg(d, D[p][i]) /\ D[p][i] \in PropiosDe(D[p])
          BY <2>5
        <4>2. <<p, D[p][i]>> \in S
          BY <1>2, <4>1, EnSegmentosDe
        <4>3. EnSeg(d, <<p, D[p][i]>>[2])
          BY <4>1
        <4> QED
          BY <4>2, <4>3
      <3>2. ASSUME NEW x \in S, EnSeg(d, x[2]) PROVE A # {}
        <4>1. PICK p, s : p = x[1] /\ s = x[2]
          OBVIOUS
        <4>2. x = <<p, s>>
          BY <1>2, <4>1, EnSegmentosDe
        <4>3. p \in DOMAIN D /\ s \in PropiosDe(D[p]) /\ EnSeg(d, s)
          BY <1>2, <3>2, <4>1, <4>2, EnSegmentosDe
        <4>4. Lista(D[p])
          BY <1>3, <4>3 DEF Partes
        <4>5. PICK i \in 2 .. Len(D[p]) : s = D[p][i]
          BY <4>3, <4>4, EnLista
        <4>6. s \in Segmento /\ i \in DOMAIN D[p] /\ i > 1
          BY <4>3, <4>4, <4>5, EnLista
        <4>7. <<p, i>> \in Segmentos /\ Seg(<<p, i>>) = s /\ <<p, i>>[2] > 1
          BY <1>1, <4>3, <4>5, <4>6, EnSegmentos DEF Tabla
        <4>8. d \in Bytes(s)
          BY <2>4, <4>3, <4>6
        <4> QED
          BY <2>2, <4>7, <4>8 DEF Propios
      <3> QED
        BY <3>1, <3>2
    <2>8. \A i \in 2 .. Len(lib) : lib[i] \in L /\ lib[i] \in Segmento
      <3> SUFFICES ASSUME NEW i \in 2 .. Len(lib) PROVE lib[i] \in L /\ lib[i] \in Segmento
        OBVIOUS
      <3>1. Lista(lib)
        BY <1>3 DEF Partes
      <3> QED
        BY <1>2, <3>1, EnLista
    <2>9. \A x, y \in B : x = y
      <3> SUFFICES ASSUME NEW x \in B, NEW y \in B PROVE x = y
        OBVIOUS
      <3>1. x \in 2 .. Len(lib) /\ y \in 2 .. Len(lib) /\ EnSeg(d, lib[x]) /\ EnSeg(d, lib[y])
        BY <2>2, <2>4, <2>8
      <3>2. lib[x] = lib[y]
        BY <2>1, <2>3, <2>8, <3>1 DEF SinPisar
      <3>3. Lista(lib)
        BY <1>3, <3>1 DEF Partes
      <3> QED
        BY <3>1, <3>2, <3>3, EnLista DEF Lista, Inyectiva
    <2>10. B # {} <=> \E s \in L : EnSeg(d, s)
      <3>1. ASSUME NEW i \in B PROVE \E s \in L : EnSeg(d, s)
        BY <2>2, <2>4, <2>8
      <3>2. ASSUME NEW s \in L, EnSeg(d, s) PROVE B # {}
        <4>1. Lista(lib)
          BY <1>2, <1>3, NadaQueLiberar DEF Partes
        <4>2. PICK i \in 2 .. Len(lib) : s = lib[i]
          BY <1>2, <4>1, EnLista
        <4> QED
          BY <2>2, <2>4, <2>8, <3>2, <4>2
      <3> QED
        BY <3>1, <3>2
    <2>11. \A i \in DOMAIN hs : d \in hs[i].pos .. hs[i].pos + hs[i].size - 1 <=> EnHueco(d, hs[i])
      <3> SUFFICES ASSUME NEW i \in DOMAIN hs
                   PROVE  d \in hs[i].pos .. hs[i].pos + hs[i].size - 1 <=> EnHueco(d, hs[i])
        OBVIOUS
      <3>1. hs[i].pos \in Nat /\ hs[i].size \in Nat
        BY <1>3, <1>4, UnHueco
      <3> QED
        BY <2>1, <3>1 DEF EnHueco
    <2>12. \A x, y \in C : x = y
      <3> SUFFICES ASSUME NEW x \in C, NEW y \in C PROVE x = y
        OBVIOUS
      <3>1. x \in DOMAIN hs /\ y \in DOMAIN hs /\ EnHueco(d, hs[x]) /\ EnHueco(d, hs[y])
        BY <2>2, <2>11
      <3>2. hs[x] = hs[y]
        BY <1>4, <2>1, <2>3, <3>1 DEF SinPisar
      <3> QED
        BY <1>3, <3>1, <3>2, SonHuecos DEF Inyectiva
    <2>13. C # {} <=> \E h \in H : EnHueco(d, h)
      BY <1>2, <2>2, <2>11 DEF Range
    <2>14. /\ Cardinality(A) = IF A = {} THEN 0 ELSE 1
           /\ Cardinality(B) = IF B = {} THEN 0 ELSE 1
           /\ Cardinality(C) = IF C = {} THEN 0 ELSE 1
      BY <2>6, <2>9, <2>12, AloSumoUno
    <2>15. (A # {} \/ B # {} \/ C # {}) <=> TAM_SEGMENTO_0 <= d
      BY <1>3, <2>1, <2>7, <2>10, <2>13 DEF Reparto, Cubre
    <2>16. (A # {} => B = {}) /\ (A # {} => C = {}) /\ (B # {} => C = {})
      BY <2>1, <2>3, <2>7, <2>10, <2>13 DEF SinPisar
    <2>17. Cardinality(A) + Cardinality(B) + Cardinality(C) = IF d < TAM_SEGMENTO_0 THEN 0 ELSE 1
      BY <2>1, <2>14, <2>15, <2>16, MemoriaAssumption
    <2> QED
      BY <2>2, <2>17, Zenon
  <1> QED
    BY <1>1, <1>5, <1>6 DEF ParticionDeMemoria

\* Segments, what is being freed and holes share out the memory at every moment, and free
\* neighbours are merged (alojar_nuevo_hueco and realloc_segment, memoria.h).
THEOREM Particion == Spec => []ParticionDeMemoria
  <1>1. MemoriaInv => ParticionDeMemoria
    BY InvParticion
  <1> QED
    BY <1>1, Invariante, PTL

\* The comment of memoria.h 580 is true: the segment that compaction moves follows the hole.
THEOREM Adyacente == Spec => []DesplazaAdyacente
  <1>1. MemoriaInv => DesplazaAdyacente
    <2> SUFFICES ASSUME MemoriaInv, pc = "compactar"
                 PROVE  /\ huecos_libres # <<>>
                        /\ SegmentosUtiles(huecos_libres[PrimerHueco]) # {} =>
                             \E e \in SegmentosUtiles(huecos_libres[PrimerHueco]) :
                                 Seg(e).base = huecos_libres[PrimerHueco].pos
                                                 + huecos_libres[PrimerHueco].size
      BY DEF DesplazaAdyacente
    <2>1. huecos_libres # <<>>
      BY DEF MemoriaInv, PedidoServible
    <2>2. PICK hueco : hueco = huecos_libres[PrimerHueco]
      OBVIOUS
    <2>3. SegmentosUtiles(hueco) # {} =>
             \E e \in SegmentosUtiles(hueco) : Seg(e).base = hueco.pos + hueco.size
      BY <2>1, <2>2, SegmentosDelHueco
    <2> QED
      BY <2>1, <2>2, <2>3
  <1> QED
    BY <1>1, Invariante, PTL

\* memmove then memset, outside of what is moved and of where it goes.
Fuera(d, b, n) == ~ (b <= d /\ d < b + n)

LEMMA MoverFuera ==
    ASSUME NEW desde \in Nat, NEW hasta \in Nat, NEW tam \in Nat, NEW d \in Direcciones,
           Fuera(d, hasta, tam), Fuera(d, desde, tam)
    PROVE  Mover(desde, hasta, tam)[d] = user_space[d]
  <1>1. d \in Nat
    BY MemoriaAssumption DEF Direcciones
  <1>2. d \notin hasta .. hasta + tam - 1 /\ d \notin desde .. desde + tam - 1
    BY <1>1 DEF Fuera
  <1> QED
    BY <1>2 DEF Mover

\* ... and where it goes, when it does not reach where it was.
LEMMA MoverDentro ==
    ASSUME NEW desde \in Nat, NEW hasta \in Nat, NEW tam \in Nat, hasta + tam <= desde,
           NEW k \in Nat, k < tam, hasta + k \in Direcciones
    PROVE  Mover(desde, hasta, tam)[hasta + k] = user_space[desde + k]
  <1>1. PICK d \in Direcciones : d = hasta + k
    OBVIOUS
  <1>2. d \in hasta .. hasta + tam - 1 /\ d \notin desde .. desde + tam - 1
        /\ desde + (d - hasta) = desde + k
    BY <1>1
  <1>3. Mover(desde, hasta, tam)[d] = user_space[desde + (d - hasta)]
    BY <1>2 DEF Mover
  <1> QED
    BY <1>1, <1>2, <1>3

LEMMA DesplazarConserva ==
    ASSUME MemoriaInv, Desplazar, NEW f \in Segmentos
    PROVE  \/ Contenido(f)' = Contenido(f)
           \/ 0 < Seg(f).base - Seg(f)'.base /\ Seg(f).base - Seg(f)'.base < Seg(f).limite
  <1>1. PICK D, DN : D = diccionario_tablas /\ DN = diccionario_tablas'
    OBVIOUS
  <1>2. PICK hs, U, V : hs = huecos_libres /\ U = user_space /\ V = user_space'
    OBVIOUS
  <1>3. PICK k, hueco : k = PrimerHueco /\ hueco = hs[k]
    OBVIOUS
  <1>4. pc = "compactar" /\ hs # <<>>
    BY <1>2 DEF Desplazar
  <1>5. Partes(D, hs, <<>>) /\ Reparto(SegmentosDe(D), {}, Range(hs))
    BY <1>1, <1>2, <1>4, SinSalida, NadaQueLiberar DEF Partes
  <1>6. k \in 1 .. Len(hs) /\ hueco \in Range(hs) /\ TAM_SEGMENTO_0 <= hueco.pos
    BY <1>2, <1>3, <1>4, <1>5, ElPrimero, SonHuecos, HuecoDentro DEF Partes
  <1>7. PICK e \in SegmentosUtiles(hueco) :
            /\ \A g \in SegmentosUtiles(hueco) : Seg(e).base <= Seg(g).base
            /\ V = Mover(Seg(e).base, hueco.pos, Seg(e).limite)
            /\ DN = [D EXCEPT ![e[1]][e[2]].base = hueco.pos]
    BY <1>1, <1>2, <1>3 DEF Desplazar
  <1>8. PICK p, i : p \in DOMAIN D /\ i \in 2 .. Len(D[p]) /\ e = <<p, i>> /\ Seg(e) = D[p][i]
    BY <1>1, <1>2, <1>3, <1>4, SegmentosDelHueco DEF Tabla
  <1>9. Seg(e).base = hueco.pos + hueco.size
    BY <1>2, <1>3, <1>4, <1>7, ElDesplazado
  <1>10. PICK s : s = D[p][i]
    OBVIOUS
  <1>11. s \in PropiosDe(D[p]) /\ Lista(D[p])
    BY <1>5, <1>8, <1>10, EnLista DEF Partes
  <1>12. PICK a \in Nat, b \in Nat, n \in Nat, m \in Nat :
            /\ a = s.base /\ b = hueco.pos /\ n = s.limite /\ m = hueco.size
            /\ a = b + m /\ n > 0 /\ m > 0 /\ a + n <= TAM_MEMORIA
    <2>1. hueco.pos \in Nat /\ hueco.size \in Nat /\ hueco.size > 0
      BY <1>2, <1>3, <1>4, SegmentosDelHueco
    <2>2. s.base \in Nat /\ s.limite \in Nat /\ s.limite > 0 /\ s.base + s.limite <= TAM_MEMORIA
      BY <1>5, <1>8, <1>11, SegmentoDentro
    <2>3. s.base = hueco.pos + hueco.size
      BY <1>8, <1>9, <1>10
    <2> QED
      BY <2>1, <2>2, <2>3
  <1>13. V = Mover(a, b, n)
    BY <1>7, <1>8, <1>10, <1>12
  <1>14. PICK q, j : q \in DOMAIN D /\ j \in DOMAIN D[q] /\ f = <<q, j>> /\ Seg(f) = D[q][j]
    BY <1>1, EnSegmentos DEF Tabla
  <1>15. PICK t, u : t = D[q][j] /\ u = DN[q][j]
    OBVIOUS
  <1>16. Seg(f) = t /\ Seg(f)' = u
    BY <1>1, <1>14, <1>15 DEF Seg, Tabla
  <1>17. /\ Contenido(f) = [x \in 0 .. t.limite - 1 |-> U[t.base + x]]
         /\ Contenido(f)' = [x \in 0 .. u.limite - 1 |-> V[u.base + x]]
    BY <1>2, <1>16 DEF Contenido
  <1>18. p \in DOMAIN D /\ i \in DOMAIN D[p]
    BY <1>8, <1>11, EnLista
  <1>19. DN = [D EXCEPT ![p] = [D[p] EXCEPT ![i] = [s EXCEPT !.base = b]]]
    <2>1. DN = [D EXCEPT ![p][i].base = b]
      BY <1>7, <1>8, <1>12
    <2> QED
      BY <1>10, <2>1
  <1>20. s \in Segmento
    BY <1>11, EnLista
  <1>21. CASE q = p /\ j = i
    <2>1. u = [s EXCEPT !.base = b] /\ t = s
      BY <1>10, <1>15, <1>18, <1>19, <1>21
    <2>2. u.base = b /\ u.limite = n /\ t.base = a /\ t.limite = n
      BY <1>12, <1>20, <2>1 DEF Segmento
    <2>3. CASE m < n
      BY <1>12, <1>16, <2>2, <2>3
    <2>4. CASE n <= m
      <3>1. \A x \in 0 .. n - 1 : V[b + x] = U[a + x]
        <4> SUFFICES ASSUME NEW x \in 0 .. n - 1 PROVE V[b + x] = U[a + x]
          OBVIOUS
        <4>1. x \in Nat /\ x < n /\ b + n <= a /\ b + x \in Direcciones
          BY <1>12, <2>4, MemoriaAssumption DEF Direcciones
        <4>2. Mover(a, b, n)[b + x] = user_space[a + x]
          BY <4>1, MoverDentro
        <4> QED
          BY <1>2, <1>13, <4>2
      <3>2. Contenido(f)' = Contenido(f)
        BY <1>17, <2>2, <3>1
      <3> QED
        BY <3>2
    <2> QED
      BY <1>12, <2>3, <2>4
  <1>22. CASE q # p \/ j # i
    <2>1. u = t
      BY <1>14, <1>15, <1>19, <1>22
    <2>2. t.base \in Nat /\ t.limite \in Nat
          /\ \A d \in Nat : t.base <= d /\ d < t.base + t.limite =>
                ~ (b <= d /\ d < b + m) /\ ~ (a <= d /\ d < a + n) /\ d < TAM_MEMORIA
      <3>1. CASE j = 1
        <4>1. t.base = 0 /\ t.limite = TAM_SEGMENTO_0
          BY <1>5, <1>14, <1>15, <3>1 DEF Partes, Lista, segmento_0
        <4> QED
          BY <1>6, <1>12, <4>1, MemoriaAssumption
      <3>2. CASE j # 1
        <4>1. Lista(D[q])
          BY <1>5, <1>14 DEF Partes
        <4>2. j \in 2 .. Len(D[q]) /\ t \in PropiosDe(D[q]) /\ t \in Segmento
          BY <1>14, <1>15, <3>2, <4>1, EnLista
        <4>3. t.base \in Nat /\ t.limite \in Nat /\ t.base + t.limite <= TAM_MEMORIA
          BY <1>5, <1>14, <4>2, SegmentoDentro
        <4>4. PICK x, y : x = <<q, t>> /\ y = <<p, s>>
          OBVIOUS
        <4>5. x \in SegmentosDe(D) /\ y \in SegmentosDe(D) /\ x[2] = t /\ y[2] = s
          BY <1>8, <1>11, <1>14, <4>2, <4>4, EnSegmentosDe
        <4>6. x # y
          <5> SUFFICES ASSUME x = y PROVE FALSE
            OBVIOUS
          <5>1. q = p /\ t = s
            <6>1. <<q, t>> = <<p, s>>
              BY <4>4, Zenon
            <6> QED
              BY <6>1
          <5>2. D[p][j] = D[p][i] /\ j \in DOMAIN D[p]
            BY <1>10, <1>14, <1>15, <5>1
          <5>3. j = i
            BY <1>11, <1>18, <5>2 DEF Lista, Inyectiva
          <5> QED
            BY <1>22, <5>1, <5>3
        <4>7. \A d \in Nat : EnSeg(d, t) => ~ EnSeg(d, s) /\ ~ EnHueco(d, hueco)
          BY <1>5, <1>6, <4>5, <4>6 DEF Reparto, SinPisar
        <4>8. ASSUME NEW d \in Nat, t.base <= d, d < t.base + t.limite
              PROVE  ~ (b <= d /\ d < b + m) /\ ~ (a <= d /\ d < a + n) /\ d < TAM_MEMORIA
          <5>1. EnSeg(d, t)
            BY <4>8 DEF EnSeg
          <5>2. ~ EnSeg(d, s) /\ ~ EnHueco(d, hueco)
            BY <4>7, <5>1
          <5> QED
            BY <1>12, <4>3, <4>8, <5>2, MemoriaAssumption DEF EnSeg, EnHueco
        <4> QED
          BY <4>3, <4>8
      <3> QED
        BY <3>1, <3>2
    <2>3. \A x \in 0 .. t.limite - 1 : V[t.base + x] = U[t.base + x]
      <3> SUFFICES ASSUME NEW x \in 0 .. t.limite - 1 PROVE V[t.base + x] = U[t.base + x]
        OBVIOUS
      <3>1. PICK d \in Nat : d = t.base + x /\ t.base <= d /\ d < t.base + t.limite
        BY <2>2
      <3>2. ~ (b <= d /\ d < b + m) /\ ~ (a <= d /\ d < a + n) /\ d < TAM_MEMORIA
        BY <2>2, <3>1
      <3>3. d \in Direcciones /\ Fuera(d, b, n) /\ Fuera(d, a, n)
        BY <1>12, <3>1, <3>2, MemoriaAssumption DEF Direcciones, Fuera
      <3>4. Mover(a, b, n)[d] = user_space[d]
        BY <3>3, MoverFuera
      <3> QED
        BY <1>2, <1>13, <3>1, <3>4
    <2>4. Contenido(f)' = Contenido(f)
      BY <1>17, <2>1, <2>3
    <2> QED
      BY <2>4
  <1> QED
    BY <1>21, <1>22

\* Compaction keeps the bytes of the segments it leaves where they are, and of those it moves
\* by at least their own length (memmove and memset, memoria.h 621).
THEOREM SinSolapar == Spec => CompactaSinSolapar
  <1>1. ASSUME MemoriaInv, [Next]_vars, pc = "compactar", NEW f \in Segmentos
        PROVE  \/ Contenido(f)' = Contenido(f)
               \/ 0 < Seg(f).base - Seg(f)'.base /\ Seg(f).base - Seg(f)'.base < Seg(f).limite
    <2>1. CASE UNCHANGED <<diccionario_tablas, user_space>>
      BY <2>1 DEF Contenido, Seg, Tabla
    <2>2. CASE Desplazar
      BY <1>1, <2>2, DesplazarConserva
    <2>3. Desplazar \/ UNCHANGED <<diccionario_tablas, user_space>>
      <3>1. pedido # NINGUNO
        BY <1>1 DEF MemoriaInv, PedidoServible
      <3> QED
        BY <1>1, <3>1 DEF Next, vars, CrearTabla, Exit, BorrarSegmento, BorrarInexistente,
                          CrearSegmento, MovOut, LiberarSegmento, FinExit, Reintentar,
                          compactar_segmentos, Compactar, FinCompactar, SinPedido, Libre
    <2> QED
      BY <2>1, <2>2, <2>3
  <1>2. MemoriaInv /\ [Next]_vars =>
           [pc = "compactar" =>
              \A e \in Segmentos :
                 \/ Contenido(e)' = Contenido(e)
                 \/ 0 < Seg(e).base - Seg(e)'.base
                       /\ Seg(e).base - Seg(e)'.base < Seg(e).limite]_vars
    BY <1>1
  <1> QED
    BY <1>2, Invariante, PTL DEF Spec, CompactaSinSolapar
-----------------------------------------------------------------------------
(* The free bytes that a request waits for *)

HayUtil(hs, tam) == \E h \in Range(hs) : h.size >= tam

\* Compaction was asked for with bytes enough, and they stay; after it a hole is large enough.
EspacioPedido ==
    pedido # NINGUNO =>
        /\ Suma(huecos_libres) >= pedido.tam
        /\ pedido.compactado => pc # "compactar" /\ HayUtil(huecos_libres, pedido.tam)

\* What is freed adds its bytes, and no hole gets smaller.
LEMMA AlojadoCuenta ==
    ASSUME NEW hs, ListaDeHuecos(hs), NEW b, NEW l, NoEsta(Range(hs), b, l),
           b + l <= TAM_MEMORIA, NEW r, Alojado(r, hs, b, l)
    PROVE  /\ Cardinality(Libres(Range(r))) = Cardinality(Libres(Range(hs))) + l
           /\ \A tam \in Nat : HayUtil(hs, tam) => HayUtil(r, tam)
  <1>1. PICK H : H = Range(hs)
    OBVIOUS
  <1>2. H \in SUBSET Hueco /\ b \in Nat /\ l \in Nat /\ l > 0
        /\ \A h \in H : h.pos + h.size <= b \/ b + l <= h.pos
    BY <1>1, SonHuecos DEF NoEsta
  <1>3. PICK Q \in SUBSET H, m \in Hueco : Range(r) = (H \ Q) \cup {m} /\ Absorbe(m, Q, b, l)
    BY <1>1 DEF Alojado
  <1>4. PICK R : R = (H \ Q) \cup {m}
    OBVIOUS
  <1>5. PICK A, I : A = Libres(H) /\ I = {d \in Direcciones : b <= d /\ d < b + l}
    OBVIOUS
  <1>6. Libres(R) = A \cup I
    <2>1. \A d \in Direcciones : d \in Nat
      BY MemoriaAssumption DEF Direcciones
    <2>2. \A d \in Direcciones : (\E h \in R : EnHueco(d, h))
                                   <=> (\E h \in H : EnHueco(d, h)) \/ (b <= d /\ d < b + l)
      BY <1>3, <1>4, <2>1 DEF Absorbe
    <2> QED
      BY <1>5, <2>2 DEF Libres
  <1>7. A \cap I = {}
    <2> SUFFICES ASSUME NEW d \in Direcciones, NEW h \in H, EnHueco(d, h), b <= d, d < b + l
                 PROVE  FALSE
      BY <1>5 DEF Libres
    <2>1. d \in Int /\ h.pos \in Nat /\ h.size \in Nat
      BY <1>2, DeHueco, MemoriaAssumption DEF Direcciones
    <2> QED
      BY <1>2, <2>1 DEF EnHueco
  <1>8. IsFiniteSet(I) /\ Cardinality(I) = l
    <2>1. PICK a \in Int, c \in Int : a = b /\ c = b + l - 1
      BY <1>2
    <2>2. I = a .. c
      BY <1>2, <1>5, <2>1, MemoriaAssumption DEF Direcciones
    <2>3. IsFiniteSet(a .. c) /\ Cardinality(a .. c) = IF a > c THEN 0 ELSE c - a + 1
      BY FS_Interval
    <2>4. ~ (a > c) /\ c - a + 1 = l
      BY <1>2, <2>1
    <2> QED
      BY <2>2, <2>3, <2>4
  <1>9. Cardinality(Libres(R)) = Cardinality(Libres(H)) + l
    <2>1. IsFiniteSet(A) /\ Cardinality(A) \in Nat
      BY <1>5, LibresFinito
    <2>2. Cardinality(A \cup I) = Cardinality(A) + Cardinality(I) - Cardinality(A \cap I)
      BY <1>8, <2>1, FS_Union
    <2>3. Cardinality(A \cap I) = 0
      BY <1>7, FS_EmptySet
    <2>4. PICK a \in Nat : a = Cardinality(A)
      BY <2>1
    <2>5. Cardinality(A \cup I) = a + l
      BY <1>2, <1>8, <2>2, <2>3, <2>4
    <2> QED
      BY <1>5, <1>6, <2>4, <2>5
  <1>10. ASSUME NEW tam \in Nat, NEW h \in H, h.size >= tam
         PROVE  \E g \in R : g.size >= tam
    <2>1. CASE h \notin Q
      BY <1>4, <1>10, <2>1
    <2>2. CASE h \in Q
      <3>1. /\ h.pos \in Nat /\ h.size \in Nat /\ h.size > 0
            /\ m.pos \in Nat /\ m.size \in Nat
        BY <1>2, DeHueco
      <3>2. EnHueco(h.pos, h) /\ EnHueco(h.pos + h.size - 1, h) /\ h.pos + h.size - 1 \in Nat
        BY <3>1 DEF EnHueco
      <3>3. EnHueco(h.pos, m) /\ EnHueco(h.pos + h.size - 1, m)
        BY <1>3, <2>2, <3>1, <3>2 DEF Absorbe
      <3>4. m.size >= tam
        BY <1>10, <3>1, <3>3 DEF EnHueco
      <3> QED
        BY <1>4, <3>4
    <2> QED
      BY <2>1, <2>2
  <1> QED
    BY <1>1, <1>3, <1>4, <1>9, <1>10 DEF HayUtil

LEMMA EspacioLiberar ==
    ASSUME MemoriaInv, EspacioPedido, LiberarSegmento
    PROVE  EspacioPedido'
  <1> SUFFICES ASSUME pedido # NINGUNO PROVE EspacioPedido'
    BY DEF LiberarSegmento, EspacioPedido
  <1>1. PICK D, lib, hs, r : /\ D = diccionario_tablas /\ lib = liberando
                             /\ hs = huecos_libres /\ r = huecos_libres'
    OBVIOUS
  <1>2. /\ Len(lib) > 1 /\ r = alojar_nuevo_hueco(hs, lib[2].base, lib[2].limite)
        /\ pedido' = pedido /\ pc' = "salir"
    BY <1>1 DEF LiberarSegmento
  <1>3. Partes(D, hs, lib) /\ Partes(D, r, RemoveAt(lib, 2))
    BY <1>1, <1>2, PartesLiberar DEF MemoriaInv
  <1>4. PICK S, L, H : S = SegmentosDe(D) /\ L = PropiosDe(lib) /\ H = Range(hs)
    OBVIOUS
  <1>5. Lista(lib) /\ ListaDeHuecos(hs) /\ Reparto(S, L, H) /\ H \in SUBSET Hueco
    BY <1>2, <1>3, <1>4, SonHuecos DEF Partes
  <1>6. PICK s : s = lib[2]
    OBVIOUS
  <1>7. s \in L /\ s \in Segmento
    BY <1>2, <1>4, <1>5, <1>6, EnLista
  <1>8. PICK b \in Nat, l \in Nat : b = s.base /\ l = s.limite /\ l > 0
    BY <1>7, DeSegmento
  <1>9. NoEsta(H, b, l)
    <2>1. NoEsta(H, s.base, s.limite)
      BY <1>5, <1>7, NoEsHueco
    <2> QED
      BY <1>8, <2>1, Zenon
  <1>10. b + l <= TAM_MEMORIA
    <2>1. EnSeg(b + l - 1, s) /\ b + l - 1 \in Nat
      BY <1>8 DEF EnSeg
    <2>2. b + l - 1 < TAM_MEMORIA
      BY <1>5, <1>7, <2>1 DEF Reparto, Cubre
    <2> QED
      BY <1>8, <2>2, MemoriaAssumption
  <1>11. Alojado(r, hs, b, l)
    <2>1. r = alojar_nuevo_hueco(hs, b, l)
      BY <1>2, <1>6, <1>8, Zenon
    <2> QED
      BY <1>4, <1>5, <1>9, <2>1, Alojar
  <1>12. /\ Cardinality(Libres(Range(r))) = Cardinality(Libres(Range(hs))) + l
         /\ \A tam \in Nat : HayUtil(hs, tam) => HayUtil(r, tam)
    BY <1>4, <1>5, <1>9, <1>10, <1>11, AlojadoCuenta
  <1>13. PICK a \in Nat : a = Suma(hs)
    BY <1>3, CuentaLibres, LibresFinito
  <1>14. Suma(r) = a + l
    BY <1>3, <1>12, <1>13, CuentaLibres
  <1>15. pedido.tam \in Nat
    BY MemoriaAssumption DEF MemoriaInv, PedidoServible, Pedidos
  <1>16. a >= pedido.tam /\ (pedido.compactado => HayUtil(hs, pedido.tam))
    BY <1>1, <1>13 DEF EspacioPedido
  <1>17. Suma(r) >= pedido.tam /\ (pedido.compactado => HayUtil(r, pedido.tam))
    BY <1>8, <1>12, <1>14, <1>15, <1>16
  <1> QED
    BY <1>1, <1>2, <1>17 DEF EspacioPedido

\* A turn of compaction neither gives nor takes a byte.
LEMMA EspacioDesplazar ==
    ASSUME MemoriaInv, EspacioPedido, Desplazar
    PROVE  EspacioPedido'
  <1> SUFFICES ASSUME pedido # NINGUNO PROVE EspacioPedido'
    BY DEF Desplazar, EspacioPedido
  <1>1. PICK D, hs, r : D = diccionario_tablas /\ hs = huecos_libres /\ r = huecos_libres'
    OBVIOUS
  <1>2. pc = "compactar" /\ hs # <<>> /\ pedido' = pedido /\ pc' = pc
    BY <1>1 DEF Desplazar
  <1>3. PICK k, h : k = PrimerHueco /\ h = hs[k]
    OBVIOUS
  <1>4. PICK e \in SegmentosUtiles(h) :
            /\ \A f \in SegmentosUtiles(h) : Seg(e).base <= Seg(f).base
            /\ r = alojar_nuevo_hueco(RemoveAt(hs, k), h.pos + Seg(e).limite, h.size)
    BY <1>1, <1>3 DEF Desplazar
  <1>5. Partes(D, hs, <<>>)
    BY <1>1, <1>2, SinSalida
  <1>6. PICK DN, libN : Partes(DN, r, libN)
    BY <1>1, InvDesplazar DEF MemoriaInv
  <1>7. PICK S, H : S = SegmentosDe(D) /\ H = Range(hs)
    OBVIOUS
  <1>8. ListaDeHuecos(hs) /\ Reparto(S, {}, H) /\ H \in SUBSET Hueco /\ Separados(H)
        /\ hs \in Seq(Hueco) /\ Inyectiva(hs)
    BY <1>5, <1>7, NadaQueLiberar, SonHuecos DEF Partes
  <1>9. k \in 1 .. Len(hs) /\ h \in H
    BY <1>1, <1>2, <1>3, <1>7, <1>8, ElPrimero, SonHuecos
  <1>10. PICK p, i : p \in DOMAIN D /\ i \in 2 .. Len(D[p]) /\ e = <<p, i>> /\ Seg(e) = D[p][i]
    BY <1>1, <1>2, <1>3, SegmentosDelHueco DEF Tabla
  <1>11. PICK s : s = Seg(e)
    OBVIOUS
  <1>12. s \in PropiosDe(D[p]) /\ s \in Segmento
    BY <1>5, <1>10, <1>11, EnLista DEF Partes
  <1>13. <<p, s>> \in S
    BY <1>7, <1>10, <1>12, EnSegmentosDe
  <1>14. s.base = h.pos + h.size
    BY <1>1, <1>2, <1>3, <1>4, <1>11, ElDesplazado
  <1>15. PICK b \in Nat, l \in Nat : b = h.pos + s.limite /\ l = h.size
    BY <1>8, <1>9, <1>12, DeHueco, DeSegmento
  <1>16. NoEsta(H \ {h}, b, l)
    <2>1. NoEsta(H \ {h}, h.pos + s.limite, h.size)
      BY <1>8, <1>9, <1>12, <1>13, <1>14, DetrasLibre
    <2> QED
      BY <1>15, <2>1
  <1>17. b + l <= TAM_MEMORIA
    <2>1. s.base + s.limite <= TAM_MEMORIA
      BY <1>5, <1>10, <1>12, SegmentoDentro
    <2>2. h.pos \in Nat /\ s.limite \in Nat
      BY <1>8, <1>9, <1>12, DeHueco, DeSegmento
    <2> QED
      BY <1>14, <1>15, <2>1, <2>2
  <1>18. PICK q : q = RemoveAt(hs, k)
    OBVIOUS
  <1>19. q \in Seq(Hueco) /\ Range(q) = H \ {h} /\ Inyectiva(q)
    BY <1>3, <1>7, <1>8, <1>9, <1>18, QuitarUno, QuitarDeInyectiva
  <1>20. Separados(H \ {h})
    BY <1>8 DEF Separados
  <1>21. ListaDeHuecos(q)
    BY <1>19, <1>20 DEF ListaDeHuecos
  <1>22. NoEsta(Range(q), b, l)
    BY <1>16, <1>19
  <1>23. Alojado(r, q, b, l)
    <2>1. r = alojar_nuevo_hueco(q, b, l)
      BY <1>4, <1>11, <1>15, <1>18, Zenon
    <2> QED
      BY <1>21, <1>22, <2>1, Alojar
  <1>24. Cardinality(Libres(Range(r))) = Cardinality(Libres(Range(q))) + l
    BY <1>17, <1>21, <1>22, <1>23, AlojadoCuenta
  <1>25. Cardinality(Libres(H)) = Cardinality(Libres(H \ {h})) + h.size
    <2>1. PICK T \in SUBSET Hueco : T = H \ {h}
      BY <1>8
    <2>2. h \in Hueco /\ h \notin T /\ T \cup {h} = H
      BY <1>8, <1>9, <2>1
    <2>3. h.pos + h.size <= TAM_MEMORIA /\ Separados(T \cup {h})
      BY <1>3, <1>5, <1>8, <1>9, <2>2, HuecoDentro
    <2>4. Cardinality(Libres(T \cup {h})) = Cardinality(Libres(T)) + h.size
      BY <2>2, <2>3, LibresMas
    <2> QED
      BY <2>1, <2>2, <2>4
  <1>26. Suma(r) = Suma(hs)
    BY <1>5, <1>6, <1>7, <1>15, <1>19, <1>24, <1>25, CuentaLibres
  <1>27. ~ pedido.compactado
    BY <1>2 DEF EspacioPedido
  <1>28. Suma(r) >= pedido.tam
    BY <1>1, <1>26 DEF EspacioPedido
  <1> QED
    BY <1>1, <1>2, <1>27, <1>28 DEF EspacioPedido

\* When no segment is left beyond the first hole, it has every free byte.
LEMMA EspacioFinCompactar ==
    ASSUME MemoriaInv, EspacioPedido, FinCompactar
    PROVE  EspacioPedido'
  <1>1. PICK D, hs, k, h : /\ D = diccionario_tablas /\ hs = huecos_libres
                           /\ k = PrimerHueco /\ h = hs[k]
    OBVIOUS
  <1>2. /\ pc = "compactar" /\ hs # <<>> /\ SegmentosUtiles(h) = {}
        /\ huecos_libres' = hs /\ pc' = "esperar" /\ pedido' = [pedido EXCEPT !.compactado = TRUE]
    BY <1>1 DEF FinCompactar
  <1>3. Partes(D, hs, <<>>) /\ ListaDeHuecos(hs)
    BY <1>1, <1>2, SinSalida DEF Partes
  <1>4. k \in 1 .. Len(hs) /\ \A j \in 1 .. Len(hs) : hs[k].pos <= hs[j].pos
    BY <1>1, <1>2, <1>3, ElPrimero
  <1>5. \A q \in DOMAIN D : \A t \in PropiosDe(D[q]) : ~ (t.base > hs[k].pos)
    <2> SUFFICES ASSUME NEW q \in DOMAIN D, NEW t \in PropiosDe(D[q]), t.base > h.pos
                 PROVE  FALSE
      BY <1>1
    <2>1. Lista(D[q])
      BY <1>3 DEF Partes
    <2>2. PICK i \in 2 .. Len(D[q]) : t = D[q][i]
      BY <2>1, EnLista
    <2>3. i \in DOMAIN D[q]
      BY <2>1, EnLista
    <2>4. <<q, i>> \in Segmentos /\ Seg(<<q, i>>) = t
      BY <1>1, <2>2, <2>3, EnSegmentos DEF Tabla
    <2> QED
      BY <1>2, <2>4 DEF SegmentosUtiles
  <1>6. Range(hs) = {hs[k]}
    BY <1>3, <1>4, <1>5, UnicoHueco
  <1>7. h \in Hueco /\ h.pos + h.size <= TAM_MEMORIA
    BY <1>1, <1>3, <1>4, UnHueco, HuecoDentro
  <1>8. Suma(hs) = h.size
    <2>1. Range(hs) = {h}
      BY <1>1, <1>6
    <2>2. Suma(hs) = Cardinality(Libres({h}))
      BY <1>3, <2>1, CuentaLibres
    <2> QED
      BY <1>7, <2>2, LibresDeUno
  <1>9. pedido \in Pedidos /\ Suma(hs) >= pedido.tam
    BY <1>1, <1>2 DEF MemoriaInv, PedidoServible, EspacioPedido
  <1>10. HayUtil(hs, pedido.tam)
    BY <1>1, <1>6, <1>8, <1>9 DEF HayUtil
  <1>11. pedido'.tam = pedido.tam
    BY <1>2, <1>9 DEF Pedidos
  <1> QED
    BY <1>1, <1>2, <1>9, <1>10, <1>11 DEF EspacioPedido

LEMMA EspacioCalloc ==
    ASSUME MemoriaInv, EspacioPedido, NEW p, NEW id, NEW tam \in Tamanos, Calloc(p, id, tam)
    PROVE  EspacioPedido'
  <1>1. CASE CallocPideCompactar(p, id, tam)
    <2>1. /\ pedido' = [pid |-> p, id |-> id, tam |-> tam, compactado |-> FALSE]
          /\ BytesLibres >= tam /\ huecos_libres' = huecos_libres
      BY <1>1 DEF CallocPideCompactar
    <2>2. pedido'.tam = tam /\ ~ pedido'.compactado
      BY <2>1
    <2>3. Suma(huecos_libres) = BytesLibres
      BY DEF Suma, BytesLibres
    <2> QED
      BY <2>1, <2>2, <2>3 DEF EspacioPedido
  <1> QED
    BY <1>1 DEF Calloc, CallocAloja, CallocRechaza, EspacioPedido

LEMMA EspacioPaso ==
    ASSUME MemoriaInv, EspacioPedido, [Next]_vars
    PROVE  EspacioPedido'
  <1>1. CASE UNCHANGED <<pedido, huecos_libres>> /\ (pc' = pc \/ pc' # "compactar")
    BY <1>1 DEF EspacioPedido
  <1>2. CASE pedido' = NINGUNO
    BY <1>2 DEF EspacioPedido
  <1>3. CASE UNCHANGED vars
    BY <1>1, <1>3 DEF vars
  <1>4. ASSUME NEW p \in PIDs, CrearTabla(p) \/ Exit(p) PROVE EspacioPedido'
    BY <1>1, <1>4 DEF CrearTabla, Exit
  <1>5. ASSUME NEW p \in PIDs, NEW id \in IDs, BorrarSegmento(p, id) \/ BorrarInexistente(p, id)
        PROVE  EspacioPedido'
    BY <1>2, <1>5 DEF BorrarSegmento, BorrarInexistente, SinPedido
  <1>6. ASSUME NEW p \in PIDs, NEW id \in IDs, NEW tam \in Tamanos, CrearSegmento(p, id, tam)
        PROVE  EspacioPedido'
    BY <1>6, EspacioCalloc DEF CrearSegmento
  <1>7. ASSUME NEW p \in PIDs, NEW i \in 2 .. MAX_SEGMENTOS + 1, MovOut(p, i)
        PROVE  EspacioPedido'
    BY <1>1, <1>7 DEF MovOut
  <1>8. CASE LiberarSegmento
    BY <1>8, EspacioLiberar
  <1>9. CASE FinExit
    BY <1>1, <1>9 DEF FinExit
  <1>10. CASE Reintentar
    <2>1. PICK p, id, tam : p = pedido.pid /\ id = pedido.id /\ tam = pedido.tam
      OBVIOUS
    <2>2. tam \in Tamanos /\ Calloc(p, id, tam)
      BY <1>10, <2>1 DEF Reintentar, MemoriaInv, PedidoServible, Pedidos
    <2> QED
      BY <2>2, EspacioCalloc
  <1>11. CASE Compactar
    BY <1>11 DEF Compactar, EspacioPedido
  <1>12. CASE Desplazar
    BY <1>12, EspacioDesplazar
  <1>13. CASE FinCompactar
    BY <1>13, EspacioFinCompactar
  <1> QED
    BY <1>3, <1>4, <1>5, <1>6, <1>7, <1>8, <1>9, <1>10, <1>11, <1>12, <1>13
       DEF Next, compactar_segmentos

\* The create_segment that the kernel repeats after the compaction (kernel.h 500-503) is served
\* by the second call.
THEOREM Reintento == Spec => []ReintentoSuficiente
  <1>1. Init => EspacioPedido
    BY DEF Init, EspacioPedido
  <1>2. MemoriaInv /\ EspacioPedido /\ [Next]_vars => EspacioPedido'
    BY EspacioPaso
  <1>3. MemoriaInv /\ EspacioPedido => ReintentoSuficiente
    <2> SUFFICES ASSUME MemoriaInv, EspacioPedido, pedido # NINGUNO, pedido.compactado
                 PROVE  Utiles(pedido.tam) # {}
      BY DEF ReintentoSuficiente
    <2>1. PICK h \in Range(huecos_libres) : h.size >= pedido.tam
      BY DEF EspacioPedido, HayUtil
    <2>2. PICK i \in DOMAIN huecos_libres : h = huecos_libres[i]
      BY DEF Range
    <2> QED
      BY <2>1, <2>2 DEF Utiles
  <1> QED
    BY <1>1, <1>2, <1>3, Invariante, PTL DEF Spec
-----------------------------------------------------------------------------
(* What MemoriaIdeal sees *)

Descripcion == [ID : Nat, limite : Nat]
Describe(s) == [ID |-> s.ID, limite |-> s.limite]

LEMMA DeDescripcion == \A s \in Segmento : Describe(s) \in Descripcion
  <1> SUFFICES ASSUME NEW s \in Segmento PROVE Describe(s) \in Descripcion
    OBVIOUS
  <1>1. s.ID \in IDs \cup {0} /\ s.limite \in Nat
    BY DEF Segmento
  <1>2. IDs \subseteq Nat
    BY MemoriaAssumption
  <1>3. PICK x \in Nat, n \in Nat : x = s.ID /\ n = s.limite
    BY <1>1, <1>2
  <1>4. Describe(s) = [ID |-> x, limite |-> n]
    BY <1>3 DEF Describe
  <1> QED
    BY <1>4 DEF Descripcion

LEMMA SinBasesDe ==
    ASSUME NEW l \in Seq(Segmento), Len(l) > 0
    PROVE  /\ SinBases(l) \in Seq(Descripcion) /\ Len(SinBases(l)) = Len(l) - 1
           /\ \A i \in 1 .. Len(l) - 1 : SinBases(l)[i] = Describe(l[i + 1])
  <1>1. PICK n \in Nat : n = Len(l) - 1
    BY LenProperties
  <1>2. PICK t : t = SinBases(l)
    OBVIOUS
  <1>3. t = [i \in 1 .. n |-> Describe(l[i + 1])]
    BY <1>1, <1>2 DEF SinBases, Describe
  <1>4. \A i \in 1 .. n : Describe(l[i + 1]) \in Descripcion
    <2> TAKE i \in 1 .. n
    <2>1. i + 1 \in 1 .. Len(l)
      BY <1>1
    <2>2. l[i + 1] \in Segmento
      BY <2>1, ElementOfSeq
    <2> QED
      BY <2>2, DeDescripcion
  <1>5. /\ t \in [1 .. n -> Descripcion] /\ DOMAIN t = 1 .. n
        /\ \A i \in 1 .. n : t[i] = Describe(l[i + 1])
    BY <1>3, <1>4
  <1>6. t \in Seq(Descripcion) /\ Len(t) = n
    BY <1>5
  <1> QED
    BY <1>1, <1>2, <1>5, <1>6

\* Equal lists: the one that SinBases gives and a list with the same descriptions.
LEMMA SonSinBases ==
    ASSUME NEW l \in Seq(Segmento), Len(l) > 0, NEW t \in Seq(Descripcion), Len(t) = Len(l) - 1,
           \A i \in 1 .. Len(l) - 1 : t[i] = Describe(l[i + 1])
    PROVE  SinBases(l) = t
  <1>1. PICK u \in Seq(Descripcion) : u = SinBases(l)
    BY SinBasesDe
  <1>2. Len(u) = Len(t) /\ \A i \in 1 .. Len(l) - 1 : u[i] = t[i]
    BY <1>1, SinBasesDe
  <1>3. \A i \in 1 .. Len(u) : u[i] = t[i]
    BY <1>1, <1>2, SinBasesDe
  <1>4. u = t
    BY <1>2, <1>3, SeqEqual
  <1> QED
    BY <1>1, <1>4

LEMMA SinBasesAgrega ==
    ASSUME NEW l \in Seq(Segmento), Len(l) > 0, NEW s \in Segmento
    PROVE  SinBases(Append(l, s)) = Append(SinBases(l), Describe(s))
  <1>1. PICK n \in Nat : n = Len(l)
    BY LenProperties
  <1>2. PICK a \in Seq(Segmento) : a = Append(l, s)
    BY AgregarAlFinal
  <1>3. Len(a) = n + 1 /\ a[n + 1] = s /\ \A i \in 1 .. n : a[i] = l[i]
    BY <1>1, <1>2, AgregarAlFinal
  <1>4. PICK b \in Seq(Descripcion) : b = SinBases(l)
    BY SinBasesDe
  <1>5. Len(b) = n - 1 /\ \A i \in 1 .. n - 1 : b[i] = Describe(l[i + 1])
    BY <1>1, <1>4, SinBasesDe
  <1>6. Describe(s) \in Descripcion
    BY DeDescripcion
  <1>7. PICK t \in Seq(Descripcion) : t = Append(b, Describe(s))
    BY <1>6, AgregarAlFinal
  <1>8. Len(t) = Len(b) + 1 /\ t[Len(b) + 1] = Describe(s) /\ \A i \in 1 .. Len(b) : t[i] = b[i]
    BY <1>6, <1>7, AgregarAlFinal
  <1>9. Len(t) = n /\ t[n] = Describe(s) /\ \A i \in 1 .. n - 1 : t[i] = b[i]
    BY <1>5, <1>8
  <1>10. \A i \in 1 .. n : t[i] = Describe(a[i + 1])
    <2> TAKE i \in 1 .. n
    <2>1. CASE i = n
      BY <1>3, <1>9, <2>1
    <2>2. CASE i # n
      <3>1. i \in 1 .. n - 1 /\ i + 1 \in 1 .. n
        BY <2>2
      <3> QED
        BY <1>3, <1>5, <1>9, <3>1
    <2> QED
      BY <2>1, <2>2
  <1>11. SinBases(a) = t
    <2>1. Len(a) > 0 /\ Len(a) - 1 = n
      BY <1>1, <1>3
    <2>2. Len(t) = Len(a) - 1 /\ \A i \in 1 .. Len(a) - 1 : t[i] = Describe(a[i + 1])
      BY <1>9, <1>10, <2>1
    <2> QED
      BY <2>1, <2>2, SonSinBases
  <1> QED
    BY <1>2, <1>4, <1>7, <1>11

LEMMA SinBasesQuita ==
    ASSUME NEW l \in Seq(Segmento), NEW k \in 2 .. Len(l)
    PROVE  SinBases(RemoveAt(l, k)) = RemoveAt(SinBases(l), k - 1)
  <1>1. PICK n \in Nat : n = Len(l) - 1 /\ Len(l) > 0
    BY LenProperties
  <1>2. k \in 1 .. Len(l) /\ k - 1 \in 1 .. n /\ n > 0 /\ Len(l) = n + 1
    BY <1>1
  <1>3. PICK a \in Seq(Segmento) : a = RemoveAt(l, k)
    BY <1>2, QuitarUno
  <1>4. Len(a) = n /\ (\A i \in 1 .. k - 1 : a[i] = l[i]) /\ \A i \in k .. n : a[i] = l[i + 1]
    BY <1>1, <1>2, <1>3, QuitarUno
  <1>5. PICK b \in Seq(Descripcion) : b = SinBases(l)
    BY <1>1, SinBasesDe
  <1>6. Len(b) = n /\ \A i \in 1 .. n : b[i] = Describe(l[i + 1])
    BY <1>1, <1>5, SinBasesDe
  <1>7. PICK m \in 1 .. Len(b) : m = k - 1
    BY <1>2, <1>6
  <1>8. PICK t \in Seq(Descripcion) : t = RemoveAt(b, m)
    BY QuitarUno
  <1>9. /\ Len(t) = n - 1
        /\ (\A i \in 1 .. m - 1 : t[i] = b[i]) /\ \A i \in m .. n - 1 : t[i] = b[i + 1]
    BY <1>6, <1>8, QuitarUno
  <1>10. \A i \in 1 .. n - 1 : t[i] = Describe(a[i + 1])
    <2> TAKE i \in 1 .. n - 1
    <2>1. CASE i < m
      <3>1. i \in 1 .. m - 1 /\ i \in 1 .. n /\ i + 1 \in 1 .. k - 1
        BY <1>2, <1>7, <2>1
      <3> QED
        BY <1>4, <1>6, <1>9, <3>1
    <2>2. CASE ~ (i < m)
      <3>1. i \in m .. n - 1 /\ i + 1 \in 1 .. n /\ i + 1 \in k .. n
        BY <1>2, <1>7, <2>2
      <3> QED
        BY <1>4, <1>6, <1>9, <3>1
    <2> QED
      BY <2>1, <2>2
  <1>11. SinBases(a) = t
    <2>1. Len(a) > 0 /\ Len(a) - 1 = n - 1
      BY <1>2, <1>4
    <2>2. Len(t) = Len(a) - 1 /\ \A i \in 1 .. Len(a) - 1 : t[i] = Describe(a[i + 1])
      BY <1>9, <1>10, <2>1
    <2> QED
      BY <2>1, <2>2, SonSinBases
  <1> QED
    BY <1>3, <1>5, <1>7, <1>8, <1>11

LEMMA SinBasesInicial == SinBases(<<segmento_0>>) = <<>>
  <1>1. PICK l : l = <<segmento_0>>
    OBVIOUS
  <1>2. l \in Seq(Segmento) /\ Len(l) = 1
    BY <1>1, SegmentoCero
  <1>3. PICK t \in Seq(Descripcion) : t = <<>> /\ Len(t) = 0
    BY EmptySeq
  <1>4. SinBases(l) = t
    <2>1. Len(l) > 0 /\ Len(t) = Len(l) - 1
      BY <1>2, <1>3
    <2>2. \A i \in 1 .. Len(l) - 1 : t[i] = Describe(l[i + 1])
      BY <1>2
    <2> QED
      BY <1>2, <2>1, <2>2, SonSinBases
  <1> QED
    BY <1>1, <1>3, <1>4

LEMMA SinBasesMueve ==
    ASSUME NEW l \in Seq(Segmento), Len(l) > 0, NEW t \in Seq(Segmento), Len(t) = Len(l),
           \A i \in 1 .. Len(l) : Describe(t[i]) = Describe(l[i])
    PROVE  SinBases(t) = SinBases(l)
  <1>1. PICK u \in Seq(Descripcion) : u = SinBases(l)
    BY SinBasesDe
  <1>2. Len(u) = Len(l) - 1 /\ \A i \in 1 .. Len(l) - 1 : u[i] = Describe(l[i + 1])
    BY <1>1, SinBasesDe
  <1>3. \A i \in 1 .. Len(l) - 1 : i + 1 \in 1 .. Len(l)
    BY LenProperties
  <1>4. \A i \in 1 .. Len(t) - 1 : u[i] = Describe(t[i + 1])
    BY <1>2, <1>3
  <1>5. SinBases(t) = u
    BY <1>2, <1>4, SonSinBases
  <1> QED
    BY <1>1, <1>5

Asignado(D) == [p \in DOMAIN D |-> SinBases(D[p])]

LEMMA AsignadoDe == asignado = Asignado(diccionario_tablas)
                    /\ asignado' = Asignado(diccionario_tablas')
  BY DEF asignado, Asignado, Tabla

LEMMA AsignadoCambia ==
    ASSUME NEW D, NEW DN, NEW p \in DOMAIN D, NEW t, EsTabla(DN, D, p, t)
    PROVE  EsCambio(Asignado(DN), Asignado(D), p, SinBases(t))
  <1>1. DOMAIN DN = DOMAIN D /\ \A q \in DOMAIN D : DN[q] = IF q = p THEN t ELSE D[q]
    BY DEF EsTabla
  <1>2. PICK A, x : A = Asignado(D) /\ x = SinBases(t)
    OBVIOUS
  <1>3. DOMAIN A = DOMAIN D /\ \A q \in DOMAIN D : A[q] = SinBases(D[q])
    BY <1>2 DEF Asignado
  <1>4. Asignado(DN) = [q \in DOMAIN D |-> IF q = p THEN x ELSE A[q]]
    <2>1. \A q \in DOMAIN D : SinBases(DN[q]) = IF q = p THEN x ELSE A[q]
      BY <1>1, <1>2, <1>3
    <2> QED
      BY <1>1, <2>1 DEF Asignado
  <1>5. A = [q \in DOMAIN D |-> A[q]]
    BY <1>2, <1>3 DEF Asignado
  <1>6. [A EXCEPT ![p] = x] = [q \in DOMAIN D |-> IF q = p THEN x ELSE A[q]]
    BY <1>3, <1>5
  <1> QED
    BY <1>2, <1>4, <1>6 DEF EsCambio

\* The bytes that MemoriaIdeal counts.
Reserva(A) ==
    UNION {{e} \X (1 .. A[e[1]][e[2]].limite) :
              e \in UNION {{p} \X DOMAIN A[p] : p \in DOMAIN A}}

LEMMA EnReserva ==
    ASSUME NEW D, \A p \in DOMAIN D : Lista(D[p])
    PROVE  \A x : x \in Reserva(Asignado(D)) <=>
                     \E p \in DOMAIN D : \E i \in 2 .. Len(D[p]) :
                         \E k \in 1 .. D[p][i].limite : x = <<<<p, i - 1>>, k>>
  <1>1. PICK A : A = Asignado(D)
    OBVIOUS
  <1>2. DOMAIN A = DOMAIN D /\ \A p \in DOMAIN D : A[p] = SinBases(D[p])
    BY <1>1 DEF Asignado
  <1>3. ASSUME NEW p \in DOMAIN D
        PROVE  /\ DOMAIN A[p] = 1 .. Len(D[p]) - 1 /\ Len(D[p]) \in Nat
               /\ \A i \in DOMAIN A[p] : A[p][i].limite = D[p][i + 1].limite
    <2>1. PICK l \in Seq(Segmento) : l = D[p] /\ Len(l) > 0 /\ Len(l) \in Nat
      BY EnLista
    <2>2. PICK t \in Seq(Descripcion) : t = SinBases(l)
      BY <2>1, SinBasesDe
    <2>3. Len(t) = Len(l) - 1 /\ \A i \in 1 .. Len(l) - 1 : t[i] = Describe(l[i + 1])
      BY <2>1, <2>2, SinBasesDe
    <2>4. DOMAIN t = 1 .. Len(l) - 1
      BY <2>3, LenProperties
    <2> QED
      BY <1>2, <2>1, <2>2, <2>3, <2>4 DEF Describe
  <1>4. PICK E : E = UNION {{p} \X DOMAIN A[p] : p \in DOMAIN A}
    OBVIOUS
  <1>5. \A e : e \in E <=> \E p \in DOMAIN D : \E j \in 1 .. Len(D[p]) - 1 : e = <<p, j>>
    <2>1. \A e : e \in E <=> \E p \in DOMAIN D : e \in {p} \X (1 .. Len(D[p]) - 1)
      BY <1>2, <1>3, <1>4
    <2> QED
      BY <2>1
  <1>6. \A x : x \in Reserva(A) <=> \E e \in E : x \in {e} \X (1 .. A[e[1]][e[2]].limite)
    BY <1>4 DEF Reserva
  <1>7. \A x : x \in Reserva(A) <=>
                   \E p \in DOMAIN D : \E j \in 1 .. Len(D[p]) - 1 :
                       \E k \in 1 .. D[p][j + 1].limite : x = <<<<p, j>>, k>>
    <2> TAKE x
    <2>1. ASSUME NEW e \in E, x \in {e} \X (1 .. A[e[1]][e[2]].limite)
          PROVE  \E p \in DOMAIN D : \E j \in 1 .. Len(D[p]) - 1 :
                     \E k \in 1 .. D[p][j + 1].limite : x = <<<<p, j>>, k>>
      <3>1. PICK p \in DOMAIN D : \E j \in 1 .. Len(D[p]) - 1 : e = <<p, j>>
        BY <1>5
      <3>2. PICK j \in 1 .. Len(D[p]) - 1 : e = <<p, j>>
        BY <3>1
      <3>3. PICK k \in 1 .. A[p][j].limite : x = <<e, k>>
        BY <2>1, <3>2
      <3>4. A[p][j].limite = D[p][j + 1].limite
        BY <1>3
      <3> QED
        BY <3>2, <3>3, <3>4
    <2>2. ASSUME NEW p \in DOMAIN D, NEW j \in 1 .. Len(D[p]) - 1,
                 NEW k \in 1 .. D[p][j + 1].limite, x = <<<<p, j>>, k>>
          PROVE  \E e \in E : x \in {e} \X (1 .. A[e[1]][e[2]].limite)
      <3>1. PICK e \in E : e = <<p, j>>
        BY <1>5
      <3>4. e[1] = p /\ e[2] = j
        BY <3>1
      <3>2. A[p][j].limite = D[p][j + 1].limite
        BY <1>3
      <3>3. x \in {e} \X (1 .. A[e[1]][e[2]].limite)
        BY <2>2, <3>1, <3>2, <3>4
      <3> QED
        BY <3>3
    <2> QED
      BY <1>6, <2>1, <2>2
  <1>8. ASSUME NEW x, NEW p \in DOMAIN D
        PROVE  (\E j \in 1 .. Len(D[p]) - 1 :
                    \E k \in 1 .. D[p][j + 1].limite : x = <<<<p, j>>, k>>)
                 <=> \E i \in 2 .. Len(D[p]) :
                         \E k \in 1 .. D[p][i].limite : x = <<<<p, i - 1>>, k>>
    <2>1. PICK n \in Nat : n = Len(D[p])
      BY <1>3
    <2>2. \A j \in 1 .. n - 1 : j + 1 \in 2 .. n /\ (j + 1) - 1 = j
      BY <2>1
    <2>3. \A i \in 2 .. n : i - 1 \in 1 .. n - 1 /\ (i - 1) + 1 = i
      BY <2>1
    <2>4. ASSUME NEW j \in 1 .. n - 1, NEW k \in 1 .. D[p][j + 1].limite, x = <<<<p, j>>, k>>
          PROVE  \E i \in 2 .. n : \E h \in 1 .. D[p][i].limite : x = <<<<p, i - 1>>, h>>
      <3>1. PICK i \in 2 .. n : i = j + 1 /\ i - 1 = j
        BY <2>2
      <3> QED
        BY <2>4, <3>1
    <2>5. ASSUME NEW i \in 2 .. n, NEW k \in 1 .. D[p][i].limite, x = <<<<p, i - 1>>, k>>
          PROVE  \E j \in 1 .. n - 1 : \E h \in 1 .. D[p][j + 1].limite : x = <<<<p, j>>, h>>
      <3>1. PICK j \in 1 .. n - 1 : j = i - 1 /\ j + 1 = i
        BY <2>3
      <3> QED
        BY <2>5, <3>1
    <2> QED
      BY <2>1, <2>4, <2>5
  <1> QED
    BY <1>1, <1>7, <1>8

LEMMA CuentaReserva ==
    ASSUME NEW D, NEW hs, Partes(D, hs, <<>>)
    PROVE  /\ Cardinality(Reserva(Asignado(D))) \in Nat
           /\ TAM_SEGMENTO_0 + Cardinality(Reserva(Asignado(D))) + Suma(hs) = TAM_MEMORIA
  <1>1. PICK R : R = Reserva(Asignado(D))
    OBVIOUS
  <1>2. PICK H : H = Range(hs)
    OBVIOUS
  <1>3. PICK S : S = SegmentosDe(D)
    OBVIOUS
  <1>4. /\ \A p \in DOMAIN D : Lista(D[p])
        /\ Reparto(S, {}, H) /\ ListaDeHuecos(hs)
    BY <1>2, <1>3, NadaQueLiberar DEF Partes
  <1>5. \A x : x \in R <=> \E p \in DOMAIN D : \E i \in 2 .. Len(D[p]) :
                              \E k \in 1 .. D[p][i].limite : x = <<<<p, i - 1>>, k>>
    BY <1>1, <1>4, EnReserva
  <1> DEFINE O == {d \in Direcciones : \E e \in S : EnSeg(d, e[2])}
             F == [x \in R |-> D[x[1][1]][x[1][2] + 1].base + x[2] - 1]
  <1>6. ASSUME NEW p \in DOMAIN D, NEW i \in 2 .. Len(D[p])
        PROVE  /\ D[p][i].base \in Nat /\ D[p][i].limite \in Nat /\ i \in Int
               /\ <<p, D[p][i]>> \in S
    <2>1. D[p][i] \in PropiosDe(D[p]) /\ D[p][i] \in Segmento /\ Len(D[p]) \in Nat
      BY <1>4, EnLista
    <2> QED
      BY <1>3, <2>1, EnSegmentosDe, DeSegmento
  <1>7. ASSUME NEW x \in R, NEW p \in DOMAIN D, NEW i \in 2 .. Len(D[p]),
               NEW k \in 1 .. D[p][i].limite, x = <<<<p, i - 1>>, k>>
        PROVE  /\ F[x] = D[p][i].base + k - 1 /\ F[x] \in Direcciones
               /\ EnSeg(F[x], D[p][i]) /\ F[x] \in O
    <2>1. x[1][1] = p /\ x[1][2] = i - 1 /\ x[2] = k /\ (i - 1) + 1 = i
      BY <1>6, <1>7
    <2>2. F[x] = D[p][i].base + k - 1
      BY <2>1
    <2>9. PICK b \in Nat, n \in Nat : b = D[p][i].base /\ n = D[p][i].limite
      BY <1>6
    <2>10. k \in 1 .. n
      BY <2>9
    <2>3. PICK d \in Nat : d = D[p][i].base + k - 1
      BY <2>9, <2>10
    <2>4. EnSeg(d, D[p][i])
      BY <2>3, <2>9, <2>10 DEF EnSeg
    <2>5. PICK e \in S : e[2] = D[p][i]
      BY <1>6
    <2>6. Cubre(d, S, {}, H)
      BY <2>4, <2>5 DEF Cubre
    <2>7. d < TAM_MEMORIA
      BY <1>4, <2>6 DEF Reparto
    <2>8. d \in Direcciones
      BY <2>7, MemoriaAssumption DEF Direcciones
    <2> QED
      BY <2>2, <2>3, <2>4, <2>5, <2>8
  <1>8. F \in [R -> O]
    <2> SUFFICES ASSUME NEW x \in R PROVE F[x] \in O
      OBVIOUS
    <2> QED
      BY <1>5, <1>7
  <1>9. ASSUME NEW x \in R, NEW y \in R, F[x] = F[y] PROVE x = y
    <2>1. PICK p, i, k : /\ p \in DOMAIN D /\ i \in 2 .. Len(D[p]) /\ k \in 1 .. D[p][i].limite
                         /\ x = <<<<p, i - 1>>, k>>
      BY <1>5
    <2>2. PICK q, j, h : /\ q \in DOMAIN D /\ j \in 2 .. Len(D[q]) /\ h \in 1 .. D[q][j].limite
                         /\ y = <<<<q, j - 1>>, h>>
      BY <1>5
    <2>12. F[x] = D[p][i].base + k - 1 /\ EnSeg(F[x], D[p][i]) /\ F[x] \in Direcciones
      BY <1>7, <2>1
    <2>13. F[y] = D[q][j].base + h - 1 /\ EnSeg(F[y], D[q][j])
      BY <1>7, <2>2
    <2>3. /\ F[x] = D[p][i].base + k - 1 /\ EnSeg(F[x], D[p][i]) /\ F[x] \in Direcciones
          /\ F[y] = D[q][j].base + h - 1 /\ EnSeg(F[y], D[q][j])
      BY <2>12, <2>13
    <2>14. Direcciones \subseteq Nat
      BY MemoriaAssumption DEF Direcciones
    <2>4. PICK d \in Nat : d = F[x]
      BY <2>3, <2>14
    <2>5. PICK e \in S, f \in S : e = <<p, D[p][i]>> /\ f = <<q, D[q][j]>>
      BY <1>6, <2>1, <2>2
    <2>6. EnSeg(d, e[2]) /\ EnSeg(d, f[2])
      BY <1>9, <2>3, <2>4, <2>5
    <2>7. e = f
      BY <1>4, <2>6 DEF Reparto, SinPisar
    <2>8. p = q /\ D[p][i] = D[p][j]
      BY <2>5, <2>7
    <2>9. Inyectiva(D[p]) /\ DOMAIN D[p] = 1 .. Len(D[p]) /\ Len(D[p]) \in Nat
      BY <1>4, <2>1, EnLista DEF Lista
    <2>10. i = j
      BY <2>1, <2>2, <2>8, <2>9 DEF Inyectiva
    <2>11. k = h
      <3>1. PICK b \in Nat : b = D[p][i].base
        BY <1>6, <2>1
      <3>2. k \in Int /\ h \in Int
        BY <2>1, <2>2
      <3>3. b + k - 1 = b + h - 1
        BY <1>9, <2>3, <2>8, <2>10, <3>1
      <3> QED
        BY <3>1, <3>2, <3>3
    <2> QED
      BY <2>1, <2>2, <2>8, <2>10, <2>11
  <1>10. ASSUME NEW d \in O PROVE \E x \in R : F[x] = d
    <2>1. PICK e \in S : EnSeg(d, e[2])
      OBVIOUS
    <2>2. PICK p, s : e = <<p, s>> /\ p \in DOMAIN D /\ s \in PropiosDe(D[p])
      BY <1>3, EnSegmentosDe
    <2>3. PICK i \in 2 .. Len(D[p]) : s = D[p][i]
      BY <1>4, <2>2, EnLista
    <2>4. d \in Int /\ s.base \in Nat /\ s.limite \in Nat /\ s.base <= d /\ d < s.base + s.limite
      BY <1>6, <2>1, <2>2, <2>3, MemoriaAssumption DEF EnSeg, Direcciones
    <2>5. PICK k \in 1 .. s.limite : k = d - s.base + 1
      BY <2>4
    <2>6. PICK x \in R : x = <<<<p, i - 1>>, k>>
      BY <1>5, <2>2, <2>3
    <2>7. F[x] = s.base + k - 1
      BY <1>7, <2>2, <2>3, <2>6
    <2> QED
      BY <2>4, <2>5, <2>7
  <1> HIDE DEF O, F
  <1>11. ExistsBijection(O, R)
    <2>1. F \in Bijection(R, O)
      BY <1>8, <1>9, <1>10, Fun_IsBij
    <2> QED
      BY <2>1, Fun_ExistsBij, Fun_ExistsBijSymmetric
  <1>12. PICK A, L : A = O /\ L = Libres(H)
    OBVIOUS
  <1>13. IsFiniteSet(A) /\ IsFiniteSet(L) /\ Cardinality(L) \in Nat /\ Cardinality(A) \in Nat
    <2>1. IsFiniteSet(Direcciones)
      BY FS_Interval, MemoriaAssumption DEF Direcciones
    <2>2. A \in SUBSET Direcciones
      BY <1>12 DEF O
    <2> QED
      BY <1>12, <2>1, <2>2, FS_Subset, FS_CardinalityType, LibresFinito
  <1>14. Cardinality(R) = Cardinality(A)
    BY <1>11, <1>12, <1>13, FS_Bijection
  <1>15. A \cap L = {}
    <2> SUFFICES ASSUME NEW d \in Direcciones, NEW e \in S, NEW h \in H,
                        EnSeg(d, e[2]), EnHueco(d, h)
                 PROVE  FALSE
      BY <1>12 DEF O, Libres
    <2>1. d \in Nat
      BY DEF Direcciones
    <2> QED
      BY <1>4, <2>1 DEF Reparto, SinPisar
  <1>16. A \cup L = TAM_SEGMENTO_0 .. TAM_MEMORIA - 1
    <2>1. ASSUME NEW d \in Direcciones
          PROVE  d \in A \cup L <=> TAM_SEGMENTO_0 <= d
      <3>1. d \in Nat /\ d < TAM_MEMORIA
        BY MemoriaAssumption DEF Direcciones
      <3>2. d \in A \cup L <=> Cubre(d, S, {}, H)
        BY <1>12 DEF O, Libres, Cubre
      <3> QED
        BY <1>4, <3>1, <3>2 DEF Reparto
    <2>2. A \cup L \in SUBSET Direcciones
      BY <1>12 DEF O, Libres
    <2> QED
      BY <2>1, <2>2, MemoriaAssumption DEF Direcciones
  <1>17. Cardinality(A \cup L) = Cardinality(A) + Cardinality(L)
    <2>1. Cardinality(A \cap L) = 0
      BY <1>15, FS_EmptySet
    <2>2. Cardinality(A \cup L) = Cardinality(A) + Cardinality(L) - Cardinality(A \cap L)
      BY <1>13, FS_Union
    <2>3. PICK a \in Nat, b \in Nat : a = Cardinality(A) /\ b = Cardinality(L)
      BY <1>13
    <2> QED
      BY <2>1, <2>2, <2>3
  <1>18. Cardinality(A \cup L) = TAM_MEMORIA - TAM_SEGMENTO_0
    <2>1. PICK a \in Int, b \in Int : a = TAM_SEGMENTO_0 /\ b = TAM_MEMORIA - 1
      BY MemoriaAssumption
    <2>2. Cardinality(a .. b) = IF a > b THEN 0 ELSE b - a + 1
      BY FS_Interval
    <2>3. b - a + 1 = TAM_MEMORIA - TAM_SEGMENTO_0 /\ ~ (a > b)
      BY <2>1, MemoriaAssumption
    <2> QED
      BY <1>16, <2>1, <2>2, <2>3
  <1>19. Suma(hs) = Cardinality(L)
    BY <1>2, <1>12, CuentaLibres
  <1>20. PICK a \in Nat, b \in Nat : a = Cardinality(A) /\ b = Cardinality(L)
    BY <1>13
  <1> QED
    BY <1>1, <1>14, <1>17, <1>18, <1>19, <1>20, MemoriaAssumption

LEMMA AsignadoIgual ==
    ASSUME NEW D, NEW DN, DOMAIN DN = DOMAIN D,
           \A q \in DOMAIN D : SinBases(DN[q]) = SinBases(D[q])
    PROVE  Asignado(DN) = Asignado(D)
  BY DEF Asignado

\* A request that waits is of a process that goes on.
PedidoVivo == pedido # NINGUNO => pedido.pid \notin rechazados
IdealInv == MemoriaInv /\ PedidoVivo

\* The operators of the library are the same in both modules.
LEMMA DeLaBiblioteca ==
    /\ \A S : Ideal!Cardinality(S) = Cardinality(S)
    /\ \A s, i : Ideal!RemoveAt(s, i) = RemoveAt(s, i)
  <1>1. \A S : Ideal!Cardinality(S) = Cardinality(S)
    BY DEF Ideal!Cardinality, Cardinality
  <1>2. \A s, i : Ideal!RemoveAt(s, i) = RemoveAt(s, i)
    BY DEF Ideal!RemoveAt, RemoveAt
  <1> QED
    BY <1>1, <1>2

\* While nothing is being freed, what is not reserved is in holes.
LEMMA Ocupado ==
    ASSUME MemoriaInv, pc = "esperar"
    PROVE  Ideal!Ocupado \in Int /\ BytesLibres \in Nat /\ Ideal!Ocupado + BytesLibres = TAM_MEMORIA
  <1>1. PICK D, hs : D = diccionario_tablas /\ hs = huecos_libres
    OBVIOUS
  <1>2. Partes(D, hs, <<>>)
    BY <1>1, SinSalida
  <1>3. Ideal!Ocupado = TAM_SEGMENTO_0 + Cardinality(Reserva(Asignado(D)))
    <2>1. asignado = Asignado(D)
      BY <1>1, AsignadoDe
    <2>2. Ideal!Reservados = Reserva(asignado)
      BY DEF Ideal!Reservados, Ideal!Asignaciones, Reserva
    <2>3. Ideal!Cardinality(Ideal!Reservados) = Cardinality(Reserva(Asignado(D)))
      BY <2>1, <2>2, DeLaBiblioteca, Zenon
    <2> QED
      BY <2>3 DEF Ideal!Ocupado
  <1>4. BytesLibres = Suma(hs)
    BY <1>1 DEF BytesLibres, Suma
  <1>5. TAM_SEGMENTO_0 + Cardinality(Reserva(Asignado(D))) + Suma(hs) = TAM_MEMORIA
    BY <1>2, CuentaReserva
  <1>6. Suma(hs) \in Nat
    BY <1>2, CuentaLibres, LibresFinito
  <1>7. Cardinality(Reserva(Asignado(D))) \in Nat
    BY <1>2, CuentaReserva
  <1> QED
    BY <1>3, <1>4, <1>5, <1>6, <1>7, MemoriaAssumption

LEMMA IdealInicio == Init => Ideal!Init
  <1> SUFFICES ASSUME Init PROVE Ideal!Init
    OBVIOUS
  <1>1. DOMAIN diccionario_tablas = {} /\ rechazados = {}
    <2>1. DOMAIN <<>> = {}
      OBVIOUS
    <2>2. diccionario_tablas = <<>> /\ rechazados = {}
      BY DEF Init
    <2> QED
      BY <2>1, <2>2, Zenon
  <1>2. asignado = <<>>
    BY <1>1 DEF asignado
  <1> QED
    BY <1>1, <1>2 DEF Ideal!Init

LEMMA IdealAlta ==
    ASSUME MemoriaInv, NEW p \in PIDs, CrearTabla(p)
    PROVE  Ideal!Alta(p)
  <1>1. PICK D, DN : D = diccionario_tablas /\ DN = diccionario_tablas'
    OBVIOUS
  <1>2. /\ p \notin DOMAIN D /\ DOMAIN DN = DOMAIN D \cup {p} /\ DN[p] = <<segmento_0>>
        /\ \A q \in DOMAIN D : DN[q] = D[q]
        /\ UNCHANGED rechazados
    BY <1>1 DEF CrearTabla, Tabla
  <1>3. PICK A : A = Asignado(D)
    OBVIOUS
  <1>4. DOMAIN A = DOMAIN D /\ \A q \in DOMAIN D : A[q] = SinBases(D[q])
    BY <1>3 DEF Asignado
  <1>5. Asignado(DN) = [q \in DOMAIN A \cup {p} |-> IF q = p THEN <<>> ELSE A[q]]
    <2>1. \A q \in DOMAIN DN : SinBases(DN[q]) = IF q = p THEN <<>> ELSE A[q]
      BY <1>2, <1>4, SinBasesInicial
    <2> QED
      BY <1>2, <1>4, <2>1 DEF Asignado
  <1>6. asignado = A /\ asignado' = Asignado(DN)
    BY <1>1, <1>3, AsignadoDe
  <1> QED
    BY <1>2, <1>4, <1>5, <1>6 DEF Ideal!Alta

LEMMA IdealBaja ==
    ASSUME MemoriaInv, NEW p \in PIDs, Exit(p)
    PROVE  Ideal!Baja(p)
  <1>1. PICK D, DN : D = diccionario_tablas /\ DN = diccionario_tablas'
    OBVIOUS
  <1>2. /\ p \in DOMAIN D /\ DOMAIN DN = DOMAIN D \ {p} /\ \A q \in DOMAIN DN : DN[q] = D[q]
        /\ rechazados' = rechazados \ {p}
    BY <1>1 DEF Exit, Tabla
  <1>3. PICK A : A = Asignado(D)
    OBVIOUS
  <1>4. DOMAIN A = DOMAIN D /\ \A q \in DOMAIN D : A[q] = SinBases(D[q])
    BY <1>3 DEF Asignado
  <1>5. Asignado(DN) = [q \in DOMAIN A \ {p} |-> A[q]]
    BY <1>2, <1>4 DEF Asignado
  <1>6. asignado = A /\ asignado' = Asignado(DN)
    BY <1>1, <1>3, AsignadoDe
  <1> QED
    BY <1>2, <1>4, <1>5, <1>6 DEF Ideal!Baja

\* A hole is not larger than all of them.
LEMMA UtilCabe ==
    ASSUME NEW D, NEW hs, Partes(D, hs, <<>>), NEW k \in 1 .. Len(hs)
    PROVE  hs[k].size <= Suma(hs)
  <1>1. PICK h : h = hs[k]
    OBVIOUS
  <1>2. h \in Hueco /\ h.pos + h.size <= TAM_MEMORIA /\ h \in Range(hs)
    BY <1>1, UnHueco, HuecoDentro DEF Partes
  <1>3. PICK A, B : A = Libres({h}) /\ B = Libres(Range(hs))
    OBVIOUS
  <1>4. A \in SUBSET B
    BY <1>2, <1>3 DEF Libres
  <1>5. IsFiniteSet(B)
    BY <1>3, LibresFinito
  <1>6. Cardinality(A) <= Cardinality(B)
    BY <1>4, <1>5, FS_Subset
  <1>7. Cardinality(A) = h.size
    BY <1>2, <1>3, LibresDeUno
  <1> QED
    BY <1>1, <1>3, <1>6, <1>7, CuentaLibres

LEMMA IdealCrear ==
    ASSUME MemoriaInv, pc = "esperar", NEW p \in Vivos, NEW id \in IDs, NEW tam \in Tamanos,
           CallocAloja(p, id, tam)
    PROVE  Ideal!Crear(p, id, tam)
  <1>1. PICK D, DN : D = diccionario_tablas /\ DN = diccionario_tablas'
    OBVIOUS
  <1>2. PICK hs : hs = huecos_libres
    OBVIOUS
  <1>3. Partes(D, hs, <<>>) /\ p \in DOMAIN D /\ p \notin rechazados
    BY <1>1, <1>2, SinSalida DEF Vivos
  <1>4. PICK k : k = Elegido(tam)
    OBVIOUS
  <1>5. k \in 1 .. Len(hs) /\ hs[k].size >= tam
    <2>1. \A i \in 1 .. Len(hs) : hs[i].size <= TAM_MEMORIA
      BY <1>3, HuecoDentro
    <2>2. ListaDeHuecos(huecos_libres) /\ algoritmo \in Algoritmos /\ Utiles(tam) # {}
      BY DEF MemoriaInv, Partes, Simples, CallocAloja
    <2> QED
      BY <1>2, <1>4, <2>1, <2>2, ElElegido
  <1>6. Ideal!Ocupado + tam <= TAM_MEMORIA
    <2>1. hs[k].size <= Suma(hs) /\ hs[k].size \in Nat
      BY <1>3, <1>5, UtilCabe, UnHueco DEF Partes
    <2>2. BytesLibres = Suma(hs)
      BY <1>2 DEF BytesLibres, Suma
    <2>3. PICK o \in Int, b \in Nat : o = Ideal!Ocupado /\ b = BytesLibres /\ o + b = TAM_MEMORIA
      BY Ocupado
    <2>4. tam \in Nat /\ tam <= b
      BY <1>5, <2>1, <2>2, <2>3, MemoriaAssumption
    <2> QED
      BY <2>3, <2>4, MemoriaAssumption
  <1>7. PICK s : s = [ID |-> id, base |-> hs[k].pos, limite |-> tam]
    OBVIOUS
  <1>8. s \in Segmento /\ Describe(s) = [ID |-> id, limite |-> tam]
    <2>1. hs[k].pos \in Nat
      BY <1>3, <1>5, UnHueco DEF Partes
    <2> QED
      BY <1>7, <2>1, MemoriaAssumption DEF Segmento, Describe
  <1>9. DN = [D EXCEPT ![p] = Append(@, s)] /\ UNCHANGED rechazados
    BY <1>1, <1>2, <1>4, <1>7 DEF CallocAloja
  <1>16. PICK t : t = Append(D[p], s)
    OBVIOUS
  <1>10. EsTabla(DN, D, p, t)
    BY <1>3, <1>9, <1>16 DEF EsTabla
  <1>11. SinBases(t) = Append(SinBases(D[p]), [ID |-> id, limite |-> tam])
    <2>1. Lista(D[p])
      BY <1>3 DEF Partes
    <2>2. D[p] \in Seq(Segmento) /\ Len(D[p]) > 0
      BY <2>1, EnLista
    <2>3. SinBases(Append(D[p], s)) = Append(SinBases(D[p]), Describe(s))
      BY <1>8, <2>2, SinBasesAgrega
    <2> QED
      BY <1>8, <1>16, <2>3
  <1>12. asignado = Asignado(D) /\ asignado' = Asignado(DN)
    BY <1>1, AsignadoDe
  <1>13. Asignado(DN) = [Asignado(D) EXCEPT ![p] = SinBases(t)]
    <2>1. EsCambio(Asignado(DN), Asignado(D), p, SinBases(t))
      BY <1>3, <1>10, AsignadoCambia
    <2> QED
      BY <2>1 DEF EsCambio
  <1>14. asignado[p] = SinBases(D[p]) /\ DOMAIN asignado = DOMAIN D
    BY <1>3, <1>12 DEF Asignado
  <1>15. asignado' = [asignado EXCEPT ![p] = Append(asignado[p], [ID |-> id, limite |-> tam])]
    BY <1>11, <1>12, <1>13, <1>14, Zenon
  <1> QED
    BY <1>3, <1>6, <1>9, <1>14, <1>15 DEF Ideal!Crear

LEMMA IdealRechazar ==
    ASSUME MemoriaInv, pc = "esperar", NEW p \in Vivos, NEW tam \in Tamanos, CallocRechaza(p, tam)
    PROVE  Ideal!Rechazar(p, tam)
  <1>1. /\ BytesLibres < tam /\ rechazados' = rechazados \cup {p}
        /\ UNCHANGED diccionario_tablas
    BY DEF CallocRechaza
  <1>2. PICK o \in Int, b \in Nat : o = Ideal!Ocupado /\ b = BytesLibres /\ o + b = TAM_MEMORIA
    BY Ocupado
  <1>3. Ideal!Ocupado + tam > TAM_MEMORIA
    <2>1. tam \in Nat /\ b < tam
      BY <1>1, <1>2, MemoriaAssumption
    <2> QED
      BY <1>2, <2>1, MemoriaAssumption
  <1>4. asignado' = asignado
    BY <1>1, AsignadoDe
  <1>5. p \in DOMAIN asignado \ rechazados
    BY DEF Vivos, asignado
  <1> QED
    BY <1>1, <1>3, <1>4, <1>5 DEF Ideal!Rechazar

LEMMA IdealBorrar ==
    ASSUME MemoriaInv, NEW p \in PIDs, NEW id \in IDs, BorrarSegmento(p, id)
    PROVE  Ideal!Borrar(p, id)
  <1>1. PICK D, DN : D = diccionario_tablas /\ DN = diccionario_tablas'
    OBVIOUS
  <1>2. p \in DOMAIN D /\ p \notin rechazados /\ \E i \in DOMAIN D[p] : D[p][i].ID = id
    BY <1>1 DEF BorrarSegmento, Vivos, Tabla
  <1>3. Lista(D[p])
    BY <1>1, <1>2 DEF MemoriaInv, Partes
  <1>4. PICK k : k = SelectInSeq(D[p], LAMBDA s : s.ID = id)
    OBVIOUS
  <1>5. k \in 2 .. Len(D[p]) /\ D[p][k].ID = id /\ \A j \in 1 .. k - 1 : D[p][j].ID # id
    BY <1>2, <1>3, <1>4, ElBorrado
  <1>6. DN = [D EXCEPT ![p] = RemoveAt(@, k)] /\ UNCHANGED rechazados
    BY <1>1, <1>4 DEF BorrarSegmento, Tabla
  <1>19. PICK u : u = RemoveAt(D[p], k)
    OBVIOUS
  <1>7. EsTabla(DN, D, p, u)
    BY <1>2, <1>6, <1>19 DEF EsTabla
  <1>8. asignado = Asignado(D) /\ asignado' = Asignado(DN)
    BY <1>1, AsignadoDe
  <1>9. asignado[p] = SinBases(D[p]) /\ DOMAIN asignado = DOMAIN D
    BY <1>2, <1>8 DEF Asignado
  <1>10. PICK l \in Seq(Segmento) : l = D[p] /\ Len(l) \in Nat /\ Len(l) > 0
    BY <1>3, EnLista
  <1>11. PICK t \in Seq(Descripcion) : t = SinBases(l)
    BY <1>10, SinBasesDe
  <1>12. Len(t) = Len(l) - 1 /\ \A i \in 1 .. Len(l) - 1 : t[i].ID = l[i + 1].ID
    <2>1. Len(t) = Len(l) - 1 /\ \A i \in 1 .. Len(l) - 1 : t[i] = Describe(l[i + 1])
      BY <1>10, <1>11, SinBasesDe
    <2>2. \A x : Describe(x).ID = x.ID
      BY DEF Describe
    <2> QED
      BY <2>1, <2>2
  <1>13. PICK i \in DOMAIN t : i = k - 1
    <2>1. DOMAIN t = 1 .. Len(l) - 1
      BY <1>12, LenProperties
    <2> QED
      BY <1>5, <1>10, <2>1
  <1>14. t[i].ID = id /\ \A j \in 1 .. i - 1 : t[j].ID # id
    <2>1. i \in 1 .. Len(l) - 1 /\ i + 1 = k
      BY <1>5, <1>10, <1>13
    <2>2. \A j \in 1 .. i - 1 : j \in 1 .. Len(l) - 1 /\ j + 1 \in 1 .. k - 1
      BY <1>10, <2>1
    <2> QED
      BY <1>5, <1>10, <1>12, <2>1, <2>2
  <1>15. SinBases(RemoveAt(l, k)) = RemoveAt(t, i)
    BY <1>5, <1>10, <1>11, <1>13, SinBasesQuita
  <1>16. Asignado(DN) = [Asignado(D) EXCEPT ![p] = SinBases(u)]
    <2>1. EsCambio(Asignado(DN), Asignado(D), p, SinBases(u))
      BY <1>2, <1>7, AsignadoCambia
    <2> QED
      BY <2>1 DEF EsCambio
  <1>17. asignado[p] = t
    BY <1>9, <1>10, <1>11
  <1>18. asignado' = [asignado EXCEPT ![p] = Ideal!RemoveAt(asignado[p], i)]
    <2>1. SinBases(u) = Ideal!RemoveAt(asignado[p], i)
      BY <1>10, <1>15, <1>17, <1>19, DeLaBiblioteca, Zenon
    <2> QED
      BY <1>8, <1>16, <2>1, Zenon
  <1>20. i \in DOMAIN asignado[p] /\ asignado[p][i].ID = id
         /\ \A j \in 1 .. i - 1 : asignado[p][j].ID # id
    BY <1>13, <1>14, <1>17
  <1>21. p \in DOMAIN asignado \ rechazados
    BY <1>2, <1>9
  <1> QED
    BY <1>6, <1>18, <1>20, <1>21 DEF Ideal!Borrar

\* Compaction changes bases and nothing else.
LEMMA IdealDesplazar ==
    ASSUME MemoriaInv, Desplazar
    PROVE  UNCHANGED <<asignado, rechazados>>
  <1>1. PICK D, DN : D = diccionario_tablas /\ DN = diccionario_tablas'
    OBVIOUS
  <1>2. PICK hs : hs = huecos_libres
    OBVIOUS
  <1>3. PICK k, hueco : k = PrimerHueco /\ hueco = hs[k]
    OBVIOUS
  <1>4. pc = "compactar" /\ hs # <<>> /\ UNCHANGED rechazados
    BY <1>2 DEF Desplazar
  <1>5. Partes(D, hs, <<>>)
    BY <1>1, <1>2, <1>4, SinSalida
  <1>6. PICK e \in SegmentosUtiles(hueco) : DN = [D EXCEPT ![e[1]][e[2]].base = hueco.pos]
    BY <1>1, <1>2, <1>3 DEF Desplazar
  <1>7. PICK p, i : p \in DOMAIN D /\ i \in 2 .. Len(D[p]) /\ e = <<p, i>>
    BY <1>1, <1>2, <1>3, <1>4, SegmentosDelHueco DEF Tabla
  <1>8. PICK l \in Seq(Segmento) : l = D[p] /\ Len(l) \in Nat /\ Len(l) > 0
    BY <1>5, <1>7, EnLista DEF Partes
  <1>9. PICK u : u = [l[i] EXCEPT !.base = hueco.pos]
    OBVIOUS
  <1>10. PICK t : t = [l EXCEPT ![i] = u]
    OBVIOUS
  <1>11. EsTabla(DN, D, p, t)
    <2>1. DN = [D EXCEPT ![p] = [D[p] EXCEPT ![i] = [D[p][i] EXCEPT !.base = hueco.pos]]]
      BY <1>6, <1>7
    <2>2. DN = [D EXCEPT ![p] = t]
      BY <1>8, <1>9, <1>10, <2>1, Zenon
    <2> QED
      BY <2>2 DEF EsTabla
  <1>12. i \in 1 .. Len(l)
    BY <1>7, <1>8
  <1>13. u \in Segmento /\ Describe(u) = Describe(l[i])
    <2>1. hueco.pos \in Nat
      <3>1. k \in 1 .. Len(hs)
        BY <1>2, <1>3, <1>4, <1>5, ElPrimero DEF Partes
      <3> QED
        BY <1>3, <1>5, <3>1, UnHueco DEF Partes
    <2>2. l[i] \in Segmento
      BY <1>12, ElementOfSeq
    <2> QED
      BY <1>9, <2>1, <2>2 DEF Segmento, Describe
  <1>14. t \in Seq(Segmento) /\ Len(t) = Len(l)
         /\ \A j \in 1 .. Len(l) : t[j] = IF j = i THEN u ELSE l[j]
    BY <1>10, <1>12, <1>13, ExceptSeq
  <1>15. \A j \in 1 .. Len(l) : Describe(t[j]) = Describe(l[j])
    BY <1>13, <1>14
  <1>16. SinBases(t) = SinBases(l)
    BY <1>8, <1>14, <1>15, SinBasesMueve
  <1>17. DOMAIN DN = DOMAIN D /\ \A q \in DOMAIN D : SinBases(DN[q]) = SinBases(D[q])
    BY <1>8, <1>11, <1>16 DEF EsTabla
  <1>18. Asignado(DN) = Asignado(D)
    BY <1>17, AsignadoIgual
  <1> QED
    BY <1>1, <1>4, <1>18, AsignadoDe

LEMMA IdealCalloc ==
    ASSUME MemoriaInv, pc = "esperar", NEW p \in Vivos, p \in PIDs, NEW id \in IDs,
           NEW tam \in Tamanos, Calloc(p, id, tam)
    PROVE  [Ideal!Next]_<<asignado, rechazados>> /\ PedidoVivo'
  <1>1. CASE CallocAloja(p, id, tam)
    <2>1. Ideal!Crear(p, id, tam)
      BY <1>1, IdealCrear
    <2>2. pedido' = NINGUNO
      BY <1>1 DEF CallocAloja
    <2> QED
      BY <2>1, <2>2 DEF Ideal!Next, PedidoVivo
  <1>2. CASE CallocPideCompactar(p, id, tam)
    <2>1. UNCHANGED <<diccionario_tablas, rechazados>> /\ pedido'.pid = p
      BY <1>2 DEF CallocPideCompactar
    <2>2. asignado' = asignado
      BY <2>1, AsignadoDe
    <2> QED
      BY <2>1, <2>2 DEF PedidoVivo, Vivos
  <1>3. CASE CallocRechaza(p, tam)
    <2>1. Ideal!Rechazar(p, tam)
      BY <1>3, IdealRechazar
    <2>2. pedido' = NINGUNO
      BY <1>3 DEF CallocRechaza
    <2> QED
      BY <2>1, <2>2 DEF Ideal!Next, PedidoVivo
  <1> QED
    BY <1>1, <1>2, <1>3 DEF Calloc

LEMMA IdealQuieto ==
    ASSUME IdealInv, UNCHANGED <<diccionario_tablas, rechazados, pedido>>
    PROVE  UNCHANGED <<asignado, rechazados>> /\ PedidoVivo'
  BY AsignadoDe DEF IdealInv, PedidoVivo

LEMMA IdealPaso ==
    ASSUME IdealInv, [Next]_vars
    PROVE  [Ideal!Next]_<<asignado, rechazados>> /\ PedidoVivo'
  <1>2. CASE UNCHANGED vars
    BY <1>2, IdealQuieto DEF vars
  <1>3. ASSUME NEW p \in PIDs, CrearTabla(p)
        PROVE  [Ideal!Next]_<<asignado, rechazados>> /\ PedidoVivo'
    <2>1. Ideal!Alta(p)
      BY <1>3, IdealAlta DEF IdealInv
    <2>2. UNCHANGED <<pedido, rechazados>>
      BY <1>3 DEF CrearTabla
    <2> QED
      BY <2>1, <2>2 DEF Ideal!Next, IdealInv, PedidoVivo
  <1>4. ASSUME NEW p \in PIDs, Exit(p)
        PROVE  [Ideal!Next]_<<asignado, rechazados>> /\ PedidoVivo'
    <2>1. Ideal!Baja(p)
      BY <1>4, IdealBaja DEF IdealInv
    <2>2. pedido' = pedido /\ rechazados' = rechazados \ {p}
      BY <1>4 DEF Exit
    <2> QED
      BY <2>1, <2>2 DEF Ideal!Next, IdealInv, PedidoVivo
  <1>5. ASSUME NEW p \in PIDs, NEW id \in IDs, BorrarSegmento(p, id)
        PROVE  [Ideal!Next]_<<asignado, rechazados>> /\ PedidoVivo'
    <2>1. Ideal!Borrar(p, id)
      BY <1>5, IdealBorrar DEF IdealInv
    <2>2. UNCHANGED <<pedido, rechazados>>
      BY <1>5 DEF BorrarSegmento
    <2> QED
      BY <2>1, <2>2 DEF Ideal!Next, IdealInv, PedidoVivo
  <1>6. ASSUME NEW p \in PIDs, NEW id \in IDs, BorrarInexistente(p, id)
        PROVE  [Ideal!Next]_<<asignado, rechazados>> /\ PedidoVivo'
    BY <1>6, IdealQuieto DEF BorrarInexistente
  <1>7. ASSUME NEW p \in PIDs, NEW id \in IDs, NEW tam \in Tamanos, CrearSegmento(p, id, tam)
        PROVE  [Ideal!Next]_<<asignado, rechazados>> /\ PedidoVivo'
    <2>1. pc = "esperar" /\ p \in Vivos /\ Calloc(p, id, tam)
      BY <1>7 DEF CrearSegmento, SinPedido, Libre
    <2> QED
      BY <2>1, IdealCalloc DEF IdealInv
  <1>8. ASSUME NEW p \in PIDs, NEW i \in 2 .. MAX_SEGMENTOS + 1, MovOut(p, i)
        PROVE  [Ideal!Next]_<<asignado, rechazados>> /\ PedidoVivo'
    BY <1>8, IdealQuieto DEF MovOut
  <1>9. CASE LiberarSegmento \/ FinExit
    BY <1>9, IdealQuieto DEF LiberarSegmento, FinExit
  <1>10. CASE Reintentar
    <2>1. PICK p, id, tam : p = pedido.pid /\ id = pedido.id /\ tam = pedido.tam
      OBVIOUS
    <2>2. p \in DOMAIN diccionario_tablas /\ p \notin rechazados
          /\ p \in PIDs /\ id \in IDs /\ tam \in Tamanos
      BY <1>10, <2>1 DEF Reintentar, IdealInv, PedidoVivo, MemoriaInv, PedidoServible, Pedidos
    <2>3. p \in Vivos /\ pc = "esperar" /\ Calloc(p, id, tam)
      BY <1>10, <2>1, <2>2 DEF Reintentar, Libre, Vivos
    <2> QED
      BY <2>2, <2>3, IdealCalloc DEF IdealInv
  <1>11. CASE Compactar
    BY <1>11, IdealQuieto DEF Compactar
  <1>12. CASE Desplazar
    <2>1. UNCHANGED <<asignado, rechazados>>
      BY <1>12, IdealDesplazar DEF IdealInv
    <2>2. pedido' = pedido
      BY <1>12 DEF Desplazar
    <2> QED
      BY <2>1, <2>2 DEF IdealInv, PedidoVivo
  <1>13. CASE FinCompactar
    <2>1. /\ UNCHANGED <<diccionario_tablas, rechazados>> /\ pc = "compactar"
          /\ pedido' = [pedido EXCEPT !.compactado = TRUE]
      BY <1>13 DEF FinCompactar
    <2>2. pedido # NINGUNO /\ pedido \in Pedidos
      BY <2>1 DEF IdealInv, MemoriaInv, PedidoServible
    <2>3. pedido'.pid = pedido.pid
      BY <2>1, <2>2 DEF Pedidos
    <2>4. UNCHANGED <<asignado, rechazados>>
      BY <2>1, AsignadoDe
    <2> QED
      BY <2>1, <2>2, <2>3, <2>4 DEF IdealInv, PedidoVivo
  <1> QED
    BY <1>2, <1>3, <1>4, <1>5, <1>6, <1>7, <1>8, <1>9, <1>10, <1>11, <1>12, <1>13
       DEF Next, compactar_segmentos

\* Memoria implements MemoriaIdeal: whatever the fragmentation, the algorithm and the
\* compactions, a segment is refused exactly when the free bytes do not reach
\* (calloc_segment, memoria.h 127-184).
THEOREM IdealImplementada == Spec => ImplementaIdeal
  <1>1. Init => PedidoVivo /\ Ideal!Init
    BY IdealInicio DEF Init, PedidoVivo
  <1>2. IdealInv /\ [Next]_vars => [Ideal!Next]_<<asignado, rechazados>> /\ PedidoVivo'
    BY IdealPaso
  <1>3. Spec => []IdealInv
    <2>1. MemoriaInv /\ PedidoVivo /\ [Next]_vars => PedidoVivo'
      BY <1>2 DEF IdealInv
    <2>2. Spec => []PedidoVivo
      BY <1>1, <2>1, Invariante, PTL DEF Spec
    <2>3. MemoriaInv /\ PedidoVivo => IdealInv
      BY DEF IdealInv
    <2> QED
      BY <2>2, <2>3, Invariante, PTL
  <1> QED
    BY <1>1, <1>2, <1>3, PTL DEF Spec, ImplementaIdeal, Ideal!Spec
=============================================================================
