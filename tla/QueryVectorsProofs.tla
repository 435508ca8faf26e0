-------------------------- MODULE QueryVectorsProofs --------------------------
(***************************************************************************)
(* Proofs about the cache of query vectors, for any number of threads,     *)
(* queries and slots, any size and time to live, and any order in which    *)
(* threads look up, call the provider, fail and put their answers.         *)
(***************************************************************************)
EXTENDS QueryVectors, SequenceTheorems, FiniteSetTheorems, TLAPS

Entries == [key : Keys, expires : Nat]
Elements(s) == {s[n] : n \in DOMAIN s}
KeysOf(items) == {items[n].key : n \in DOMAIN items}

-----------------------------------------------------------------------------
(* Sequences *)

LEMMA RemoveAtShape ==
  ASSUME NEW S, NEW s \in Seq(S), NEW i \in DOMAIN s
  PROVE  /\ RemoveAt(s, i) \in Seq(S) /\ Len(RemoveAt(s, i)) = Len(s) - 1
         /\ \A n \in 1..(Len(s) - 1) : RemoveAt(s, i)[n] = IF n < i THEN s[n] ELSE s[n + 1]
<1> DEFINE front == SubSeq(s, 1, i - 1)
           back == SubSeq(s, i + 1, Len(s))
<1>1. Len(s) \in Nat /\ i \in 1..Len(s) /\ \A n \in 1..Len(s) : s[n] \in S
  OBVIOUS
<1>2. i - 1 \in Int /\ i + 1 \in Int /\ Len(s) \in Int
  BY <1>1
<1>3. \A n \in 1..(i - 1) : s[n] \in S
  BY <1>1
<1>4. \A n \in (i + 1)..Len(s) : s[n] \in S
  BY <1>1
<1>5. /\ front \in Seq(S) /\ Len(front) = i - 1
      /\ \A n \in 1..(i - 1) : front[n] = s[n]
  <2>1. /\ SubSeq(s, 1, i - 1) \in Seq(S)
        /\ Len(SubSeq(s, 1, i - 1)) = IF 1 <= i - 1 THEN i - 1 - 1 + 1 ELSE 0
        /\ \A n \in 1..(i - 1 - 1 + 1) : SubSeq(s, 1, i - 1)[n] = s[1 + n - 1]
    BY <1>2, <1>3, SubSeqProperties
  <2> QED
    BY <1>1, <2>1
<1>6. /\ back \in Seq(S) /\ Len(back) = Len(s) - i
      /\ \A n \in 1..(Len(s) - i) : back[n] = s[i + n]
  <2>1. /\ SubSeq(s, i + 1, Len(s)) \in Seq(S)
        /\ Len(SubSeq(s, i + 1, Len(s))) = IF i + 1 <= Len(s) THEN Len(s) - (i + 1) + 1 ELSE 0
        /\ \A n \in 1..(Len(s) - (i + 1) + 1) : SubSeq(s, i + 1, Len(s))[n] = s[i + 1 + n - 1]
    BY <1>2, <1>4, SubSeqProperties
  <2>2. ASSUME NEW n \in 1..(Len(s) - i) PROVE back[n] = s[i + n]
    <3>1. n \in 1..(Len(s) - (i + 1) + 1) /\ i + 1 + n - 1 = i + n
      BY <1>1
    <3> QED
      BY <2>1, <3>1
  <2> QED
    BY <1>1, <2>1, <2>2
<1>7. RemoveAt(s, i) = front \o back
  BY DEF RemoveAt
<1> HIDE DEF front, back
<1>8. /\ front \o back \in Seq(S) /\ Len(front \o back) = Len(front) + Len(back)
      /\ \A n \in 1..(Len(front) + Len(back)) :
           (front \o back)[n] = IF n <= Len(front) THEN front[n] ELSE back[n - Len(front)]
  BY <1>5, <1>6, ConcatProperties
<1>9. ASSUME NEW n \in 1..(Len(s) - 1)
      PROVE  (front \o back)[n] = IF n < i THEN s[n] ELSE s[n + 1]
  <2>1. n \in 1..(Len(front) + Len(back))
    BY <1>1, <1>5, <1>6
  <2>2. CASE n < i
    BY <1>1, <1>5, <1>8, <2>1, <2>2
  <2>3. CASE ~(n < i)
    <3>1. n - (i - 1) \in 1..(Len(s) - i) /\ i + (n - (i - 1)) = n + 1
      BY <1>1, <2>3
    <3>2. back[n - (i - 1)] = s[n + 1]
      BY <1>6, <3>1
    <3> QED
      BY <1>1, <1>5, <1>8, <2>1, <2>3, <3>2
  <2> QED
    BY <2>2, <2>3
<1>10. Len(front \o back) = Len(s) - 1
  BY <1>1, <1>5, <1>6, <1>8
<1> QED
  BY <1>7, <1>8, <1>9, <1>10

(* Without the element at a place, the others are there in their order and *)
(* not farther from the end.                                               *)
Apart(s, d, places, f) ==
  /\ f \in [DOMAIN d -> DOMAIN s]
  /\ \A n \in DOMAIN d : d[n] = s[f[n]] /\ f[n] \notin places /\ Len(s) - f[n] <= Len(d) + 1 - n
  /\ \A m, n \in DOMAIN d : m < n => f[m] < f[n]
  /\ \A i \in DOMAIN s : i \in places \/ \E n \in DOMAIN d : f[n] = i

LEMMA DroppedShape ==
  ASSUME NEW S, NEW s \in Seq(S), NEW places \in SUBSET DOMAIN s, \A i, j \in places : i = j
  PROVE  /\ Dropped(s, places) \in Seq(S) /\ Len(Dropped(s, places)) <= Len(s)
         /\ places # {} => Len(Dropped(s, places)) = Len(s) - 1
         /\ \E f : Apart(s, Dropped(s, places), places, f)
<1> DEFINE d == Dropped(s, places)
<1>1. Len(s) \in Nat /\ DOMAIN s = 1..Len(s)
  OBVIOUS
<1>2. CASE places = {}
  <2>1. d = s
    BY <1>2 DEF Dropped
  <2>2. Apart(s, s, places, [n \in DOMAIN s |-> n])
    BY <1>1, <1>2 DEF Apart
  <2>3. d \in Seq(S) /\ Len(d) <= Len(s)
    BY <1>1, <2>1
  <2> HIDE DEF d
  <2>4. \E f : Apart(s, d, places, f)
    BY <2>1, <2>2
  <2> QED
    BY <1>2, <2>3, <2>4 DEF d
<1>3. CASE places # {}
  <2> DEFINE i == CHOOSE n \in places : TRUE
             f == [n \in 1..(Len(s) - 1) |-> IF n < i THEN n ELSE n + 1]
  <2>1. places = {i} /\ i \in 1..Len(s)
    BY <1>1, <1>3
  <2>2. d = RemoveAt(s, i)
    BY <1>3 DEF Dropped
  <2> HIDE DEF i, d
  <2>3. /\ d \in Seq(S) /\ Len(d) = Len(s) - 1
        /\ \A n \in 1..(Len(s) - 1) : d[n] = IF n < i THEN s[n] ELSE s[n + 1]
    BY <1>1, <2>1, <2>2, RemoveAtShape
  <2>4. DOMAIN d = 1..(Len(s) - 1)
    BY <2>3
  <2>5. f \in [DOMAIN d -> DOMAIN s]
    BY <1>1, <2>1, <2>4
  <2>6. \A n \in DOMAIN d : d[n] = s[f[n]] /\ f[n] \notin places /\ Len(s) - f[n] <= Len(d) + 1 - n
    BY <1>1, <2>1, <2>3, <2>4
  <2>7. \A m, n \in DOMAIN d : m < n => f[m] < f[n]
    BY <1>1, <2>1, <2>4
  <2>8. \A j \in DOMAIN s : j \in places \/ \E n \in DOMAIN d : f[n] = j
    <3> SUFFICES ASSUME NEW j \in DOMAIN s, j # i PROVE \E n \in DOMAIN d : f[n] = j
      BY <2>1
    <3>1. CASE j < i
      <4>1. j \in DOMAIN d /\ f[j] = j
        BY <1>1, <2>1, <2>4, <3>1
      <4> QED
        BY <4>1
    <3>2. CASE j > i
      <4>1. j - 1 \in DOMAIN d /\ f[j - 1] = j
        BY <1>1, <2>1, <2>4, <3>2
      <4> QED
        BY <4>1
    <3>3. j < i \/ j > i
      BY <1>1, <2>1
    <3> HIDE DEF f
    <3> QED
      BY <3>1, <3>2, <3>3
  <2>9. Apart(s, d, places, f)
    BY <2>5, <2>6, <2>7, <2>8 DEF Apart
  <2> HIDE DEF f
  <2>10. \E g : Apart(s, d, places, g)
    BY <2>9
  <2>11. d \in Seq(S) /\ Len(d) <= Len(s) /\ Len(d) = Len(s) - 1
    BY <1>1, <2>3
  <2> QED
    BY <2>10, <2>11 DEF d
<1> QED
  BY <1>2, <1>3

-----------------------------------------------------------------------------
(* The cache and the order of uses *)

Once(keys) == \A m, n \in DOMAIN keys : keys[m] = keys[n] => m = n

(* The entries have keys that were used, and are in the order of their     *)
(* uses.                                                                   *)
Ordered(items, keys) ==
  \A i, j \in DOMAIN items, m, n \in DOMAIN keys :
    i < j /\ keys[m] = items[i].key /\ keys[n] = items[j].key => m < n

Fits(items, keys) ==
  /\ items \in Seq(Entries) /\ keys \in Seq(Keys) /\ Once(keys)
  /\ KeysOf(items) \subseteq Elements(keys)
  /\ Ordered(items, keys)

LEMMA KeyOnce ==
  ASSUME NEW items, NEW keys, Fits(items, keys)
  PROVE  \A i, j \in DOMAIN items : items[i].key = items[j].key => i = j
<1> SUFFICES ASSUME NEW i \in DOMAIN items, NEW j \in DOMAIN items, items[i].key = items[j].key, i # j
             PROVE  FALSE
  OBVIOUS
<1>1. i \in Nat /\ j \in Nat
  BY DEF Fits
<1>2. PICK m \in DOMAIN keys : keys[m] = items[i].key
  BY DEF Fits, KeysOf, Elements
<1>3. m \in Nat
  BY DEF Fits
<1>4. i < j \/ j < i
  BY <1>1
<1>5. m < m
  BY <1>2, <1>4 DEF Fits, Ordered
<1> QED
  BY <1>3, <1>5

(* An entry that goes.                                                     *)
LEMMA OthersFit ==
  ASSUME NEW items, NEW keys, Fits(items, keys), NEW k
  PROVE  /\ Fits(Others(items, k), keys) /\ Len(Others(items, k)) <= Len(items)
         /\ k \in KeysOf(items) => Len(Others(items, k)) = Len(items) - 1
         /\ KeysOf(Others(items, k)) = KeysOf(items) \ {k}
         /\ Elements(Others(items, k)) \subseteq Elements(items)
<1> DEFINE places == {n \in DOMAIN items : items[n].key = k}
           rest == Others(items, k)
<1>1. items \in Seq(Entries) /\ keys \in Seq(Keys) /\ Once(keys)
  BY DEF Fits
<1>2. places \in SUBSET DOMAIN items /\ \A i, j \in places : i = j
  BY KeyOnce
<1>3. rest = Dropped(items, places)
  BY DEF Others
<1>4. /\ rest \in Seq(Entries) /\ Len(rest) <= Len(items)
      /\ places # {} => Len(rest) = Len(items) - 1
      /\ \E f : Apart(items, rest, places, f)
  BY <1>1, <1>2, <1>3, DroppedShape
<1>5. PICK f : Apart(items, rest, places, f)
  BY <1>4
<1> HIDE DEF rest
<1>6. /\ f \in [DOMAIN rest -> DOMAIN items]
      /\ \A n \in DOMAIN rest : rest[n] = items[f[n]] /\ f[n] \notin places
      /\ \A m, n \in DOMAIN rest : m < n => f[m] < f[n]
      /\ \A i \in DOMAIN items : i \in places \/ \E n \in DOMAIN rest : f[n] = i
  BY <1>5 DEF Apart
<1>7. Elements(rest) \subseteq Elements(items)
  BY <1>6 DEF Elements
<1>8. KeysOf(rest) = KeysOf(items) \ {k}
  <2>1. ASSUME NEW n \in DOMAIN rest PROVE rest[n].key \in KeysOf(items) \ {k}
    BY <1>6 DEF KeysOf
  <2>2. ASSUME NEW i \in DOMAIN items, items[i].key # k PROVE items[i].key \in KeysOf(rest)
    <3>1. PICK n \in DOMAIN rest : f[n] = i
      BY <1>6, <2>2
    <3>2. rest[n].key = items[i].key
      BY <1>6, <3>1
    <3> QED
      BY <3>2 DEF KeysOf
  <2> QED
    BY <2>1, <2>2 DEF KeysOf
<1>9. Ordered(rest, keys)
  <2> SUFFICES ASSUME NEW i \in DOMAIN rest, NEW j \in DOMAIN rest, NEW m \in DOMAIN keys, NEW n \in DOMAIN keys,
                      i < j, keys[m] = rest[i].key, keys[n] = rest[j].key
               PROVE  m < n
    BY DEF Ordered
  <2>1. f[i] \in DOMAIN items /\ f[j] \in DOMAIN items /\ f[i] < f[j]
    BY <1>6
  <2>2. keys[m] = items[f[i]].key /\ keys[n] = items[f[j]].key
    BY <1>6
  <2> QED
    BY <2>1, <2>2 DEF Fits, Ordered
<1>10. Fits(rest, keys)
  BY <1>1, <1>4, <1>8, <1>9 DEF Fits
<1>11. k \in KeysOf(items) => places # {}
  BY DEF KeysOf
<1> QED
  BY <1>4, <1>7, <1>8, <1>10, <1>11 DEF rest

(* A use of a key.                                                         *)
Moved(keys, k, new) ==
  /\ new \in Seq(Keys) /\ Once(new) /\ Len(new) >= 1 /\ new[Len(new)] = k
  /\ Elements(new) = Elements(keys) \cup {k}
  /\ \A n \in DOMAIN new : n # Len(new) =>
       /\ new[n] # k
       /\ \E m \in DOMAIN keys : keys[m] = new[n] /\ Len(keys) - m <= Len(new) - n
  /\ \A m, n \in DOMAIN new, a, b \in DOMAIN keys :
       m # Len(new) /\ n # Len(new) /\ new[m] = keys[a] /\ new[n] = keys[b] /\ a < b => m < n

LEMMA MovedShape ==
  ASSUME NEW keys \in Seq(Keys), Once(keys), NEW k \in Keys
  PROVE  Moved(keys, k, MovedLast(keys, k))
<1> DEFINE places == {n \in DOMAIN keys : keys[n] = k}
           rest == Dropped(keys, places)
           new == MovedLast(keys, k)
<1>1. places \in SUBSET DOMAIN keys /\ \A i, j \in places : i = j
  BY DEF Once
<1>2. rest \in Seq(Keys) /\ \E f : Apart(keys, rest, places, f)
  BY <1>1, DroppedShape
<1>3. PICK f : Apart(keys, rest, places, f)
  BY <1>2
<1>4. new = Append(rest, k)
  BY DEF MovedLast
<1> HIDE DEF rest, new
<1>5. /\ f \in [DOMAIN rest -> DOMAIN keys]
      /\ \A n \in DOMAIN rest : rest[n] = keys[f[n]] /\ f[n] \notin places /\ Len(keys) - f[n] <= Len(rest) + 1 - n
      /\ \A m, n \in DOMAIN rest : m < n => f[m] < f[n]
      /\ \A i \in DOMAIN keys : i \in places \/ \E n \in DOMAIN rest : f[n] = i
  BY <1>3 DEF Apart
<1>6. /\ new \in Seq(Keys) /\ Len(new) = Len(rest) + 1 /\ Len(rest) \in Nat /\ new[Len(new)] = k
      /\ DOMAIN rest = 1..Len(rest) /\ DOMAIN new = 1..(Len(rest) + 1)
      /\ \A n \in 1..Len(rest) : new[n] = rest[n]
  BY <1>2, <1>4
<1>7. ASSUME NEW n \in DOMAIN new, n # Len(new)
      PROVE  n \in DOMAIN rest /\ new[n] = keys[f[n]] /\ f[n] \in DOMAIN keys /\ new[n] # k
             /\ Len(keys) - f[n] <= Len(new) - n
  <2>1. n \in DOMAIN rest /\ new[n] = rest[n]
    BY <1>6, <1>7
  <2> QED
    BY <1>5, <1>6, <2>1
<1>8. Elements(new) = Elements(keys) \cup {k}
  <2>1. ASSUME NEW n \in DOMAIN new PROVE new[n] \in Elements(keys) \cup {k}
    BY <1>6, <1>7 DEF Elements
  <2>2. ASSUME NEW i \in DOMAIN keys PROVE keys[i] \in Elements(new)
    <3>1. CASE i \in places
      <4>1. Len(new) \in DOMAIN new /\ new[Len(new)] = keys[i]
        BY <1>6, <3>1
      <4> QED
        BY <4>1 DEF Elements
    <3>2. CASE i \notin places
      <4>1. PICK n \in DOMAIN rest : f[n] = i
        BY <1>5, <3>2
      <4>2. n \in DOMAIN new /\ new[n] = keys[i]
        BY <1>5, <1>6, <4>1
      <4> QED
        BY <4>2 DEF Elements
    <3> QED
      BY <3>1, <3>2
  <2>3. k \in Elements(new)
    <3>1. Len(new) \in DOMAIN new
      BY <1>6
    <3> QED
      BY <1>6, <3>1 DEF Elements
  <2> QED
    BY <2>1, <2>2, <2>3 DEF Elements
<1>9. ASSUME NEW m \in DOMAIN rest, NEW n \in DOMAIN rest, f[m] < f[n] \/ f[m] = f[n]
      PROVE  m < n \/ m = n
  <2> SUFFICES ASSUME n < m PROVE FALSE
    BY <1>6
  <2>1. f[n] < f[m]
    BY <1>5
  <2>2. f[n] \in Int /\ f[m] \in Int
    BY <1>5
  <2> QED
    BY <1>9, <2>1, <2>2
<1>10. Once(new)
  <2> SUFFICES ASSUME NEW m \in DOMAIN new, NEW n \in DOMAIN new, new[m] = new[n] PROVE m = n
    BY DEF Once
  <2>1. CASE m = Len(new) \/ n = Len(new)
    BY <1>6, <1>7, <2>1
  <2>2. CASE m # Len(new) /\ n # Len(new)
    <3>1. keys[f[m]] = keys[f[n]] /\ f[m] \in DOMAIN keys /\ f[n] \in DOMAIN keys
          /\ m \in DOMAIN rest /\ n \in DOMAIN rest
      BY <1>7, <2>2
    <3>2. f[m] = f[n]
      BY <3>1 DEF Once
    <3>3. (m < n \/ m = n) /\ (n < m \/ n = m)
      BY <1>9, <3>1, <3>2
    <3> QED
      BY <1>6, <3>1, <3>3
  <2> QED
    BY <2>1, <2>2
<1>11. ASSUME NEW m \in DOMAIN new, NEW n \in DOMAIN new, NEW a \in DOMAIN keys, NEW b \in DOMAIN keys,
              m # Len(new), n # Len(new), new[m] = keys[a], new[n] = keys[b], a < b
       PROVE  m < n
  <2>1. /\ m \in DOMAIN rest /\ n \in DOMAIN rest /\ keys[f[m]] = keys[a] /\ keys[f[n]] = keys[b]
        /\ f[m] \in DOMAIN keys /\ f[n] \in DOMAIN keys
    BY <1>7, <1>11
  <2>2. f[m] = a /\ f[n] = b
    BY <2>1 DEF Once
  <2>3. m < n \/ m = n
    BY <1>9, <1>11, <2>1, <2>2
  <2>4. a \in Int /\ b \in Int
    OBVIOUS
  <2> QED
    BY <1>11, <2>2, <2>3, <2>4
<1>12. ASSUME NEW n \in DOMAIN new, n # Len(new)
       PROVE  \E m \in DOMAIN keys : keys[m] = new[n] /\ Len(keys) - m <= Len(new) - n
  BY <1>7, <1>12
<1>13. Len(new) >= 1
  BY <1>6
<1>14. Moved(keys, k, new)
  BY <1>6, <1>7, <1>8, <1>10, <1>11, <1>12, <1>13 DEF Moved
<1> QED
  BY <1>14 DEF new

(* An entry that is the latest with its key.                               *)
Latest(items, e, latest) ==
  /\ KeysOf(latest) = KeysOf(items) \cup {e.key}
  /\ \A x \in Elements(latest) : x = e \/ (x \in Elements(items) /\ x.key # e.key)
  /\ Len(latest) \in 1..(Len(items) + 1)
  /\ e.key \in KeysOf(items) => Len(latest) = Len(items)

(* A use of a key with its entry: both are the latest.                     *)
LEMMA UseFits ==
  ASSUME NEW items, NEW keys, Fits(items, keys), NEW e \in Entries,
         NEW latest, latest = Append(Others(items, e.key), e)
  PROVE  Fits(latest, MovedLast(keys, e.key)) /\ Latest(items, e, latest)
<1> DEFINE rest == Others(items, e.key)
           new == MovedLast(keys, e.key)
<1>1. e.key \in Keys /\ keys \in Seq(Keys) /\ Once(keys)
  BY DEF Entries, Fits
<1>2. /\ Fits(rest, keys) /\ KeysOf(rest) = KeysOf(items) \ {e.key}
      /\ Elements(rest) \subseteq Elements(items)
      /\ Len(rest) <= Len(items) /\ (e.key \in KeysOf(items) => Len(rest) = Len(items) - 1)
  BY OthersFit
<1>0. new = MovedLast(keys, e.key) /\ Moved(keys, e.key, new)
  BY <1>1, MovedShape
<1> HIDE DEF new
<1>3. /\ new \in Seq(Keys) /\ Once(new) /\ Len(new) >= 1 /\ new[Len(new)] = e.key
      /\ Elements(new) = Elements(keys) \cup {e.key}
      /\ \A n \in DOMAIN new : n # Len(new) => new[n] # e.key
      /\ \A m, n \in DOMAIN new, a, b \in DOMAIN keys :
           m # Len(new) /\ n # Len(new) /\ new[m] = keys[a] /\ new[n] = keys[b] /\ a < b => m < n
  BY <1>0 DEF Moved
<1> HIDE DEF rest
<1>4. rest \in Seq(Entries) /\ latest = Append(rest, e)
  BY <1>2 DEF Fits, rest
<1>5. /\ latest \in Seq(Entries) /\ DOMAIN latest = 1..(Len(rest) + 1) /\ DOMAIN rest = 1..Len(rest)
      /\ Len(rest) \in Nat /\ latest[Len(rest) + 1] = e
      /\ \A n \in 1..Len(rest) : latest[n] = rest[n]
  BY <1>4
<1>6. \A x \in Elements(latest) : x = e \/ (x \in Elements(items) /\ x.key # e.key)
  <2> SUFFICES ASSUME NEW n \in DOMAIN latest, latest[n] # e
               PROVE  latest[n] \in Elements(items) /\ latest[n].key # e.key
    BY DEF Elements
  <2>1. n \in DOMAIN rest /\ latest[n] = rest[n]
    BY <1>5
  <2>2. rest[n] \in Elements(rest) /\ rest[n].key \in KeysOf(rest)
    BY <2>1 DEF Elements, KeysOf
  <2> QED
    BY <1>2, <2>1, <2>2
<1>11. Len(latest) \in 1..(Len(items) + 1) /\ (e.key \in KeysOf(items) => Len(latest) = Len(items))
  <2>1. Len(latest) = Len(rest) + 1 /\ Len(items) \in Nat
    BY <1>4 DEF Fits
  <2> QED
    BY <1>2, <1>5, <2>1
<1>7. KeysOf(latest) = KeysOf(items) \cup {e.key}
  <2>1. ASSUME NEW n \in DOMAIN latest PROVE latest[n].key \in KeysOf(rest) \cup {e.key}
    BY <1>5 DEF KeysOf
  <2>2. ASSUME NEW n \in DOMAIN rest PROVE rest[n].key \in KeysOf(latest)
    <3>1. n \in DOMAIN latest /\ latest[n] = rest[n]
      BY <1>5
    <3> QED
      BY <3>1 DEF KeysOf
  <2>3. e.key \in KeysOf(latest)
    <3>1. Len(rest) + 1 \in DOMAIN latest
      BY <1>5
    <3> QED
      BY <1>5, <3>1 DEF KeysOf
  <2>4. KeysOf(latest) = KeysOf(rest) \cup {e.key}
    BY <2>1, <2>2, <2>3 DEF KeysOf
  <2> QED
    BY <1>2, <2>4
<1>8. KeysOf(latest) \subseteq Elements(new)
  BY <1>3, <1>7 DEF Fits
<1>9. Ordered(latest, new)
  <2> SUFFICES ASSUME NEW i \in DOMAIN latest, NEW j \in DOMAIN latest, NEW m \in DOMAIN new, NEW n \in DOMAIN new,
                      i < j, new[m] = latest[i].key, new[n] = latest[j].key
               PROVE  m < n
    BY DEF Ordered
  <2>1. i \in DOMAIN rest /\ latest[i] = rest[i] /\ m \in 1..Len(new) /\ n \in 1..Len(new) /\ Len(new) \in Nat
    BY <1>3, <1>5
  <2>2. rest[i].key # e.key /\ rest[i].key \in Elements(keys)
    BY <1>2, <2>1 DEF KeysOf, Fits
  <2>3. m # Len(new)
    BY <1>3, <2>1, <2>2
  <2>4. CASE n = Len(new)
    BY <2>1, <2>3, <2>4
  <2>5. CASE n # Len(new)
    <3>1. new[n] # e.key
      BY <1>3, <2>5
    <3>2. j \in DOMAIN rest /\ latest[j] = rest[j]
      BY <1>5, <3>1
    <3>3. rest[j].key \in Elements(keys)
      BY <1>2, <3>2 DEF KeysOf, Fits
    <3>4. PICK a \in DOMAIN keys : keys[a] = rest[i].key
      BY <2>2 DEF Elements
    <3>5. PICK b \in DOMAIN keys : keys[b] = rest[j].key
      BY <3>3 DEF Elements
    <3>6. a < b
      BY <1>2, <2>1, <3>2, <3>4, <3>5 DEF Fits, Ordered
    <3>7. new[m] = keys[a] /\ new[n] = keys[b]
      BY <2>1, <3>2, <3>4, <3>5
    <3> QED
      BY <1>3, <2>3, <2>5, <3>6, <3>7
  <2> QED
    BY <2>4, <2>5
<1>10. Fits(latest, new)
  BY <1>3, <1>5, <1>8, <1>9 DEF Fits
<1> QED
  BY <1>0, <1>6, <1>7, <1>10, <1>11 DEF Latest

(* Without the oldest entry.                                               *)
LEMMA TailFits ==
  ASSUME NEW items, NEW keys, Fits(items, keys), items # <<>>
  PROVE  /\ Fits(Tail(items), keys) /\ Len(Tail(items)) = Len(items) - 1
         /\ Elements(Tail(items)) \subseteq Elements(items)
         /\ KeysOf(items) = KeysOf(Tail(items)) \cup {items[1].key}
<1> DEFINE rest == Tail(items)
<1>1. items \in Seq(Entries) /\ keys \in Seq(Keys) /\ Once(keys) /\ KeysOf(items) \subseteq Elements(keys)
  BY DEF Fits
<1>2. /\ rest \in Seq(Entries) /\ Len(rest) = Len(items) - 1 /\ Len(items) \in Nat
      /\ DOMAIN items = 1..Len(items) /\ DOMAIN rest = 1..(Len(items) - 1)
      /\ \A i \in 1..(Len(items) - 1) : rest[i] = items[i + 1]
  BY <1>1, HeadTailProperties
<1>3. 1 \in DOMAIN items
  BY <1>1, <1>2
<1> HIDE DEF rest
<1>4. \A i \in DOMAIN rest : i + 1 \in DOMAIN items /\ rest[i] = items[i + 1]
  BY <1>2
<1>5. Elements(rest) \subseteq Elements(items)
  BY <1>4 DEF Elements
<1>6. KeysOf(items) = KeysOf(rest) \cup {items[1].key}
  <2>1. ASSUME NEW i \in DOMAIN items, i # 1 PROVE items[i].key \in KeysOf(rest)
    <3>1. i - 1 \in DOMAIN rest /\ i - 1 + 1 = i
      BY <1>2, <2>1
    <3>2. rest[i - 1].key = items[i].key
      BY <1>4, <3>1
    <3> QED
      BY <3>1, <3>2 DEF KeysOf
  <2>2. KeysOf(rest) \subseteq KeysOf(items)
    BY <1>4 DEF KeysOf
  <2> QED
    BY <1>3, <2>1, <2>2 DEF KeysOf
<1>7. Ordered(rest, keys)
  <2> SUFFICES ASSUME NEW i \in DOMAIN rest, NEW j \in DOMAIN rest, NEW m \in DOMAIN keys, NEW n \in DOMAIN keys,
                      i < j, keys[m] = rest[i].key, keys[n] = rest[j].key
               PROVE  m < n
    BY DEF Ordered
  <2>1. i + 1 \in DOMAIN items /\ j + 1 \in DOMAIN items /\ i + 1 < j + 1
    BY <1>2
  <2>2. keys[m] = items[i + 1].key /\ keys[n] = items[j + 1].key
    BY <1>4
  <2> QED
    BY <2>1, <2>2 DEF Fits, Ordered
<1>8. Fits(rest, keys)
  BY <1>1, <1>2, <1>6, <1>7 DEF Fits
<1> QED
  BY <1>2, <1>5, <1>6, <1>8 DEF rest

(* Every other entry was used after the oldest one.                        *)
LEMMA Oldest ==
  ASSUME NEW items, NEW keys, Fits(items, keys), NEW m \in DOMAIN keys,
         items # <<>>, keys[m] = items[1].key
  PROVE  Len(keys) - m >= Len(items) - 1
<1> DEFINE later == 2..Len(items)
           places == (m + 1)..Len(keys)
           f == [i \in later |-> CHOOSE n \in DOMAIN keys : keys[n] = items[i].key]
<1>1. /\ items \in Seq(Entries) /\ keys \in Seq(Keys) /\ Len(items) \in Nat /\ Len(keys) \in Nat
      /\ DOMAIN items = 1..Len(items) /\ DOMAIN keys = 1..Len(keys)
  BY DEF Fits
<1>2. 1 \in DOMAIN items /\ later \subseteq DOMAIN items
  BY <1>1
<1>3. ASSUME NEW i \in later PROVE f[i] \in DOMAIN keys /\ keys[f[i]] = items[i].key
  <2>1. \E n \in DOMAIN keys : keys[n] = items[i].key
    BY <1>2 DEF Fits, KeysOf, Elements
  <2> QED
    BY <2>1
<1>4. ASSUME NEW i \in later PROVE f[i] \in places
  <2>1. 1 < i
    BY <1>1
  <2>2. m < f[i]
    BY <1>2, <1>3, <2>1 DEF Fits, Ordered
  <2>3. f[i] \in 1..Len(keys) /\ m \in 1..Len(keys)
    BY <1>1, <1>3
  <2> HIDE DEF f
  <2> QED
    BY <1>1, <2>2, <2>3
<1>5. ASSUME NEW i \in later, NEW j \in later, f[i] = f[j] PROVE i = j
  BY <1>2, <1>3, <1>5, KeyOnce
<1>6. f \in [later -> places]
  BY <1>4
<1> HIDE DEF f
<1>7. f \in Injection(later, places)
  <2> HIDE DEF later, places
  <2>1. DOMAIN f = later
    BY <1>6
  <2>2. IsInjective(f)
    BY <1>5, <2>1 DEF IsInjective
  <2> QED
    BY <1>6, <2>2 DEF Injection
<1>8. IsFiniteSet(places) /\ Cardinality(places) = IF m + 1 > Len(keys) THEN 0 ELSE Len(keys) - (m + 1) + 1
  <2>1. m + 1 \in Int /\ Len(keys) \in Int
    BY <1>1
  <2> QED
    BY <2>1, FS_Interval, Zenon
<1>9. Cardinality(later) = IF 2 > Len(items) THEN 0 ELSE Len(items) - 2 + 1
  <2>1. 2 \in Int /\ Len(items) \in Int
    BY <1>1
  <2> QED
    BY <2>1, FS_Interval, Zenon
<1>10. Cardinality(later) <= Cardinality(places)
  BY <1>7, <1>8, FS_Injection
<1> HIDE DEF later, places
<1> QED
  BY <1>1, <1>8, <1>9, <1>10

-----------------------------------------------------------------------------
(* What the cache keeps: entries dated by the last put of their keys; and  *)
(* a used key that is in no entry has expired, or as many as the cache     *)
(* holds were used after it.                                               *)

Dated(items, put) == \A e \in Elements(items) : e.expires = put[e.key] + Ttl

Clocked(keys, put, time) ==
  /\ time \in Nat
  /\ Elements(keys) \subseteq DOMAIN put
  /\ \A k \in DOMAIN put : put[k] \in Nat /\ put[k] <= time

Remembers(items, keys, put, time) ==
  \A n \in DOMAIN keys :
    \/ keys[n] \in KeysOf(items)
    \/ time >= put[keys[n]] + Ttl
    \/ Len(keys) - n >= CacheSize

Keeps(items, keys, put, time) ==
  /\ Fits(items, keys) /\ Len(items) <= CacheSize
  /\ Disabled => items = <<>>
  /\ Dated(items, put) /\ Clocked(keys, put, time) /\ Remembers(items, keys, put, time)

CacheInv == Keeps(cache, uses, putAt, now)

Steps == {"idle", "wait", "call", "calling", "sleep", "leave", "finish"}

(* A thread that is not idle asks for a key.                               *)
AskInv ==
  /\ pc \in [Threads -> Steps] /\ query \in [Threads -> Keys \cup {Idle}]
  /\ \A t \in Threads : pc[t] # "idle" => query[t] \in Keys

LEMMA Sizes == CacheSize \in Nat /\ Ttl \in Nat
  BY SizeAssumption

(* Without a cache every answer is forgotten, and may be.                  *)
LEMMA DisabledRemembers ==
  ASSUME Disabled, NEW keys \in Seq(Keys), NEW put, NEW time, Clocked(keys, put, time)
  PROVE  \A items : Remembers(items, keys, put, time)
<1> SUFFICES ASSUME NEW n \in DOMAIN keys
             PROVE  time >= put[keys[n]] + Ttl \/ Len(keys) - n >= CacheSize
  BY DEF Remembers
<1>1. keys[n] \in Elements(keys)
  BY DEF Elements
<1>2. put[keys[n]] \in Nat /\ put[keys[n]] <= time /\ time \in Nat
  BY <1>1 DEF Clocked
<1>3. n <= Len(keys) /\ n \in Nat /\ Len(keys) \in Nat
  OBVIOUS
<1> QED
  BY <1>2, <1>3 DEF Disabled

(* Only the date of this key is another.                                   *)
Redated(keys, k, put, again) == \A j \in Elements(keys) \ {k} : again[j] = put[j]

(* A key that is used becomes the last; a fresh put only changes its date. *)
LEMMA MovedRemembers ==
  ASSUME NEW items, NEW keys \in Seq(Keys), NEW new, NEW k, Moved(keys, k, new),
         NEW put, NEW time, Remembers(items, keys, put, time),
         NEW latest, KeysOf(latest) = KeysOf(items) \cup {k},
         NEW again, Redated(keys, k, put, again)
  PROVE  Remembers(latest, new, again, time)
<1> SUFFICES ASSUME NEW n \in DOMAIN new
             PROVE  \/ new[n] \in KeysOf(latest)
                    \/ time >= again[new[n]] + Ttl
                    \/ Len(new) - n >= CacheSize
  BY DEF Remembers
<1>1. CASE n = Len(new)
  BY <1>1 DEF Moved
<1>2. CASE n # Len(new)
  <2>1. PICK m \in DOMAIN keys : keys[m] = new[n] /\ Len(keys) - m <= Len(new) - n
    BY <1>2 DEF Moved
  <2>2. new[n] # k
    BY <1>2 DEF Moved
  <2>3. again[new[n]] = put[keys[m]]
    BY <2>1, <2>2 DEF Redated, Elements
  <2>4. \/ keys[m] \in KeysOf(items)
        \/ time >= put[keys[m]] + Ttl
        \/ Len(keys) - m >= CacheSize
    BY DEF Remembers
  <2>5. CASE Len(keys) - m >= CacheSize
    <3>1. Len(keys) \in Int /\ m \in Int /\ Len(new) \in Int /\ n \in Int
      BY DEF Moved
    <3> QED
      BY <2>1, <2>5, <3>1, Sizes
  <2> QED
    BY <2>1, <2>3, <2>4, <2>5
<1> QED
  BY <1>1, <1>2

(* An entry of a key that is in the cache.                                 *)
LEMMA EntryFound ==
  ASSUME CacheInv, NEW k \in Cached
  PROVE  EntryOf(k) \in Elements(cache) /\ EntryOf(k).key = k /\ EntryOf(k) \in Entries
<1>1. cache \in Seq(Entries)
  BY DEF CacheInv, Keeps, Fits
<1>2. PICK n \in DOMAIN cache : cache[n].key = k
  BY DEF Cached
<1>3. ToSet(cache) = Elements(cache)
  BY DEF ToSet, Elements
<1>4. \E e \in ToSet(cache) : e.key = k
  BY <1>2, <1>3 DEF Elements
<1>5. EntryOf(k) \in ToSet(cache) /\ EntryOf(k).key = k
  BY <1>4 DEF EntryOf
<1>6. Elements(cache) \subseteq Entries
  BY <1>1 DEF Elements
<1> QED
  BY <1>3, <1>5, <1>6

-----------------------------------------------------------------------------
(* The operations of the cache *)

LEMMA HitKeeps ==
  ASSUME CacheInv, NEW k, Hit(k)
  PROVE  Keeps(AfterGet(k), MovedLast(uses, k), putAt, now)
<1> DEFINE e == EntryOf(k)
           latest == AfterGet(k)
           new == MovedLast(uses, k)
<1>1. k \in Cached /\ ~Disabled
  BY DEF Hit
<1>2. e \in Elements(cache) /\ e.key = k /\ e \in Entries
  BY <1>1, EntryFound
<1>3. latest = Append(Others(cache, e.key), e)
  BY <1>2 DEF AfterGet
<1> HIDE DEF e, latest
<1>4. k \in Keys /\ k \in KeysOf(cache)
  BY <1>1, <1>2 DEF Entries, Cached, KeysOf
<1>5. /\ Fits(cache, uses) /\ Len(cache) <= CacheSize /\ uses \in Seq(Keys) /\ Once(uses)
      /\ Dated(cache, putAt) /\ Clocked(uses, putAt, now) /\ Remembers(cache, uses, putAt, now)
  BY DEF CacheInv, Keeps, Fits
<1>6. /\ Fits(latest, new) /\ KeysOf(latest) = KeysOf(cache) \cup {k}
      /\ \A x \in Elements(latest) : x = e \/ x \in Elements(cache)
      /\ Len(latest) = Len(cache)
  <2>1. Fits(latest, MovedLast(uses, e.key)) /\ Latest(cache, e, latest)
    BY <1>2, <1>3, <1>5, UseFits
  <2> QED
    BY <1>2, <1>4, <2>1 DEF Latest
<1>7. new = MovedLast(uses, k) /\ Moved(uses, k, new)
  BY <1>4, <1>5, MovedShape
<1> HIDE DEF new
<1>8. Remembers(latest, new, putAt, now)
  <2>1. Redated(uses, k, putAt, putAt)
    BY DEF Redated
  <2> QED
    BY <1>5, <1>6, <1>7, <2>1, MovedRemembers
<1>9. Dated(latest, putAt)
  BY <1>2, <1>5, <1>6 DEF Dated
<1>10. Clocked(new, putAt, now)
  <2>1. Elements(new) = Elements(uses)
    <3>1. k \in Elements(uses)
      BY <1>4, <1>5 DEF Fits
    <3> QED
      BY <1>7, <3>1 DEF Moved
  <2> QED
    BY <1>5, <2>1 DEF Clocked
<1>11. Len(latest) <= CacheSize
  BY <1>5, <1>6
<1> QED
  BY <1>1, <1>6, <1>7, <1>8, <1>9, <1>10, <1>11 DEF Keeps, latest

LEMMA MissKeeps ==
  ASSUME CacheInv, NEW k, ~Hit(k)
  PROVE  Keeps(AfterGet(k), uses, putAt, now)
<1>1. CASE Disabled
  BY <1>1 DEF AfterGet, CacheInv
<1>2. CASE ~Disabled
  <2> DEFINE rest == Others(cache, k)
  <2>1. AfterGet(k) = rest
    BY <1>2 DEF AfterGet
  <2>2. /\ Fits(cache, uses) /\ Len(cache) <= CacheSize /\ cache \in Seq(Entries) /\ uses \in Seq(Keys)
        /\ Dated(cache, putAt) /\ Clocked(uses, putAt, now) /\ Remembers(cache, uses, putAt, now)
    BY DEF CacheInv, Keeps, Fits
  <2>3. /\ Fits(rest, uses) /\ Len(rest) <= Len(cache) /\ KeysOf(rest) = KeysOf(cache) \ {k}
        /\ Elements(rest) \subseteq Elements(cache)
    BY <2>2, OthersFit
  <2> HIDE DEF rest
  <2>4. Len(rest) <= CacheSize
    <3>1. Len(rest) \in Nat /\ Len(cache) \in Nat
      BY <2>2, <2>3 DEF Fits
    <3> QED
      BY <2>2, <2>3, <3>1, Sizes
  <2>5. Dated(rest, putAt)
    BY <2>2, <2>3 DEF Dated
  <2>6. Remembers(rest, uses, putAt, now)
    <3> SUFFICES ASSUME NEW n \in DOMAIN uses, uses[n] \in KeysOf(cache) \ KeysOf(rest)
                 PROVE  now >= putAt[uses[n]] + Ttl
      BY <2>2 DEF Remembers
    <3>1. uses[n] = k /\ k \in Cached
      BY <2>3 DEF Cached, KeysOf
    <3>2. EntryOf(k) \in Elements(cache) /\ EntryOf(k).key = k /\ EntryOf(k) \in Entries
      BY <3>1, EntryFound
    <3>3. EntryOf(k).expires = putAt[k] + Ttl
      BY <2>2, <3>2 DEF Dated
    <3>4. ~(EntryOf(k).expires > now) /\ EntryOf(k).expires \in Nat /\ now \in Nat
      BY <1>2, <2>2, <3>1, <3>2 DEF Hit, Entries, Clocked
    <3> QED
      BY <3>1, <3>3, <3>4
  <2> QED
    BY <1>2, <2>1, <2>2, <2>3, <2>4, <2>5, <2>6 DEF Keeps
<1> QED
  BY <1>1, <1>2

(* The date of a put.                                                      *)
PutNow(k) == [j \in DOMAIN putAt \cup {k} |-> IF j = k THEN now ELSE putAt[j]]

LEMMA PutClocked ==
  ASSUME CacheInv, NEW k \in Keys
  PROVE  Clocked(MovedLast(uses, k), PutNow(k), now)
<1> DEFINE new == MovedLast(uses, k)
<1>1. uses \in Seq(Keys) /\ Once(uses) /\ Clocked(uses, putAt, now)
  BY DEF CacheInv, Keeps, Fits
<1>2. Elements(new) = Elements(uses) \cup {k}
  <2>1. Moved(uses, k, new)
    BY <1>1, MovedShape
  <2> HIDE DEF new
  <2> QED
    BY <2>1 DEF Moved
<1> HIDE DEF new
<1>3. Clocked(new, PutNow(k), now)
  BY <1>1, <1>2 DEF Clocked, PutNow
<1> QED
  BY <1>3 DEF new

LEMMA PutKeeps ==
  ASSUME CacheInv, NEW k \in Keys
  PROVE  Keeps(AfterPut(k), MovedLast(uses, k), PutNow(k), now)
<1> DEFINE e == [key |-> k, expires |-> now + Ttl]
           latest == Append(Others(cache, k), e)
           new == MovedLast(uses, k)
           put == PutNow(k)
<1>1. /\ Fits(cache, uses) /\ Len(cache) <= CacheSize /\ uses \in Seq(Keys) /\ Once(uses)
      /\ Dated(cache, putAt) /\ Clocked(uses, putAt, now) /\ Remembers(cache, uses, putAt, now)
  BY DEF CacheInv, Keeps, Fits
<1>2. e \in Entries /\ e.key = k /\ e.expires = now + Ttl
  BY <1>1, Sizes DEF Entries, Clocked
<1> HIDE DEF e
<1>3. latest = Append(Others(cache, e.key), e)
  BY <1>2
<1>4. AfterPut(k) = IF Disabled THEN cache ELSE IF Len(latest) > CacheSize THEN Tail(latest) ELSE latest
  BY DEF AfterPut, e
<1> HIDE DEF latest
<1>5. /\ Fits(latest, new) /\ KeysOf(latest) = KeysOf(cache) \cup {k}
      /\ \A x \in Elements(latest) : x = e \/ (x \in Elements(cache) /\ x.key # k)
      /\ Len(latest) \in 1..(Len(cache) + 1)
  <2>1. Fits(latest, MovedLast(uses, e.key)) /\ Latest(cache, e, latest)
    BY <1>1, <1>2, <1>3, UseFits
  <2> QED
    BY <1>2, <2>1 DEF Latest
<1>6. Moved(uses, k, new) /\ Clocked(new, put, now)
  BY <1>1, MovedShape, PutClocked
<1>7. put[k] = now /\ \A j \in DOMAIN putAt \ {k} : put[j] = putAt[j]
  BY DEF PutNow
<1>8. Keeps(AfterPut(k), new, put, now) <=> Keeps(AfterPut(k), MovedLast(uses, k), PutNow(k), now)
  OBVIOUS
<1> HIDE DEF new, put
<1>9. /\ latest \in Seq(Entries) /\ cache \in Seq(Entries) /\ new \in Seq(Keys) /\ Once(new)
      /\ KeysOf(cache) \subseteq Elements(uses)
  BY <1>1, <1>5 DEF Fits
<1>10. CASE Disabled
  <2>1. cache = <<>> /\ AfterPut(k) = <<>>
    BY <1>4, <1>10 DEF CacheInv, Keeps
  <2>2. Fits(<<>>, new)
    BY <1>9 DEF Fits, KeysOf, Ordered
  <2>3. Dated(<<>>, put) /\ Len(<<>>) <= CacheSize
    BY Sizes DEF Dated, Elements
  <2>4. Remembers(<<>>, new, put, now)
    BY <1>6, <1>9, <1>10, DisabledRemembers
  <2> QED
    BY <1>6, <1>8, <2>1, <2>2, <2>3, <2>4 DEF Keeps
<1>11. CASE ~Disabled
  <2>1. Dated(latest, put)
    <3> SUFFICES ASSUME NEW x \in Elements(latest) PROVE x.expires = put[x.key] + Ttl
      BY DEF Dated
    <3>1. CASE x = e
      BY <1>2, <1>7, <3>1
    <3>2. CASE x \in Elements(cache) /\ x.key # k
      <4>1. x.key \in KeysOf(cache)
        BY <3>2 DEF Elements, KeysOf
      <4>2. x.key \in DOMAIN putAt
        BY <1>1, <1>9, <4>1 DEF Clocked
      <4> QED
        BY <1>1, <1>7, <3>2, <4>2 DEF Dated
    <3> QED
      BY <1>5, <3>1, <3>2
  <2>2. Redated(uses, k, putAt, put)
    BY <1>1, <1>7 DEF Clocked, Redated
  <2>3. Remembers(latest, new, put, now)
    BY <1>1, <1>5, <1>6, <2>2, MovedRemembers
  <2>4. CASE Len(latest) <= CacheSize
    <3>1. AfterPut(k) = latest
      <4>1. ~(Len(latest) > CacheSize)
        BY <1>9, <2>4, Sizes
      <4> QED
        BY <1>4, <1>11, <4>1
    <3> QED
      BY <1>5, <1>6, <1>8, <1>11, <2>1, <2>3, <2>4, <3>1 DEF Keeps
  <2>5. CASE Len(latest) > CacheSize
    <3> DEFINE rest == Tail(latest)
    <3>1. AfterPut(k) = rest
      BY <1>4, <1>11, <2>5
    <3>2. latest # <<>> /\ Len(latest) - 1 = CacheSize
      BY <1>1, <1>5, <1>9, <2>5, Sizes
    <3>3. /\ Fits(rest, new) /\ Len(rest) = CacheSize /\ Elements(rest) \subseteq Elements(latest)
          /\ KeysOf(latest) = KeysOf(rest) \cup {latest[1].key}
      BY <1>5, <3>2, TailFits
    <3> HIDE DEF rest
    <3>4. Dated(rest, put)
      BY <2>1, <3>3 DEF Dated
    <3>5. Remembers(rest, new, put, now)
      <4> SUFFICES ASSUME NEW n \in DOMAIN new, new[n] \in KeysOf(latest) \ KeysOf(rest)
                   PROVE  Len(new) - n >= CacheSize
        BY <2>3 DEF Remembers
      <4>1. new[n] = latest[1].key
        BY <3>3
      <4> QED
        BY <1>5, <3>2, <4>1, Oldest
    <3>6. Len(rest) <= CacheSize
      BY <3>3, Sizes
    <3> QED
      BY <1>6, <1>8, <1>11, <3>1, <3>3, <3>4, <3>5, <3>6 DEF Keeps
  <2>6. Len(latest) <= CacheSize \/ Len(latest) > CacheSize
    BY <1>9, Sizes
  <2> QED
    BY <2>4, <2>5, <2>6
<1> QED
  BY <1>10, <1>11

-----------------------------------------------------------------------------
(* The threads *)

LEMMA InitAsks == Init => AskInv
  BY DEF Init, AskInv, Steps

LEMMA GetAsks ==
  ASSUME AskInv, NEW t \in Threads, NEW k \in Keys, NEW label \in Steps, Get(t, k, label)
  PROVE  AskInv'
<1>1. CASE Hit(k)
  BY <1>1 DEF AskInv, Get, Return, Goto, Steps
<1>2. CASE ~Hit(k)
  <2>1. pc' = [pc EXCEPT ![t] = label] /\ query' = [query EXCEPT ![t] = k]
    BY <1>2 DEF Get, Goto
  <2> QED
    BY <2>1 DEF AskInv
<1> QED
  BY <1>1, <1>2

LEMMA StepAsks == AskInv /\ [Next]_vars => AskInv'
<1> SUFFICES ASSUME AskInv, [Next]_vars PROVE AskInv'
  OBVIOUS
<1>1. CASE UNCHANGED vars
  BY <1>1 DEF AskInv, vars
<1>2. CASE Tick
  BY <1>2 DEF AskInv, Tick
<1>3. ASSUME NEW t \in Threads, NEW k \in Keys, Ask(t, k) PROVE AskInv'
  <2>1. Get(t, k, "wait") /\ "wait" \in Steps
    BY <1>3 DEF Ask, Steps
  <2> QED
    BY <2>1, GetAsks
<1>4. ASSUME NEW t \in Threads, Recheck(t) PROVE AskInv'
  <2>1. Get(t, query[t], "call") /\ "call" \in Steps /\ query[t] \in Keys
    BY <1>4 DEF Recheck, Steps, AskInv
  <2> QED
    BY <2>1, GetAsks
<1>5. ASSUME NEW t \in Threads, NEW label \in Steps, Goto(t, label), pc[t] # "idle", query' = query PROVE AskInv'
  BY <1>5 DEF AskInv, Goto
<1>6. ASSUME NEW t \in Threads, AcquireProvider(t) PROVE AskInv'
  BY <1>5, <1>6 DEF AcquireProvider, Steps
<1>7. ASSUME NEW t \in Threads, ProviderAnswers(t) PROVE AskInv'
  BY <1>5, <1>7 DEF ProviderAnswers, Steps
<1>8. ASSUME NEW t \in Threads, ProviderFails(t) PROVE AskInv'
  <2>1. Goto(t, "leave") \/ Goto(t, "sleep")
    BY <1>8 DEF ProviderFails
  <2> QED
    BY <1>5, <1>8, <2>1 DEF ProviderFails, Steps
<1>9. ASSUME NEW t \in Threads, Wake(t) PROVE AskInv'
  BY <1>5, <1>9 DEF Wake, Steps
<1>10. ASSUME NEW t \in Threads, Leave(t) PROVE AskInv'
  BY <1>5, <1>10 DEF Leave, Steps
<1>11. ASSUME NEW t \in Threads, Finish(t) PROVE AskInv'
  BY <1>11 DEF Finish, Return, Goto, AskInv, Steps
<1> QED
  BY <1>1, <1>2, <1>3, <1>4, <1>6, <1>7, <1>8, <1>9, <1>10, <1>11 DEF Next, Serve

LEMMA InitKeeps == Init => CacheInv
<1> SUFFICES ASSUME Init PROVE CacheInv
  OBVIOUS
<1>1. cache = <<>> /\ uses = <<>> /\ now = 0 /\ DOMAIN putAt = {}
  BY DEF Init
<1>2. Fits(cache, uses)
  BY <1>1 DEF Fits, Once, KeysOf, Ordered
<1>3. Dated(cache, putAt) /\ Clocked(uses, putAt, now) /\ Remembers(cache, uses, putAt, now)
  BY <1>1 DEF Dated, Clocked, Remembers, Elements
<1>4. Len(cache) <= CacheSize
  BY <1>1, Sizes
<1> QED
  BY <1>1, <1>2, <1>3, <1>4 DEF CacheInv, Keeps

LEMMA GetKeeps ==
  ASSUME CacheInv, NEW t \in Threads, NEW k, NEW label, Get(t, k, label)
  PROVE  CacheInv'
<1>1. cache' = AfterGet(k) /\ putAt' = putAt /\ now' = now
  BY DEF Get
<1>2. CASE Hit(k)
  <2>1. uses' = MovedLast(uses, k)
    BY <1>2 DEF Get, Used
  <2>2. Keeps(cache', uses', putAt', now')
    BY <1>1, <1>2, <2>1, HitKeeps
  <2> QED
    BY <2>2 DEF CacheInv
<1>3. CASE ~Hit(k)
  <2>1. uses' = uses
    BY <1>3 DEF Get
  <2>2. Keeps(cache', uses', putAt', now')
    BY <1>1, <1>3, <2>1, MissKeeps
  <2> QED
    BY <2>2 DEF CacheInv
<1> QED
  BY <1>2, <1>3

LEMMA StepKeeps == CacheInv /\ AskInv /\ [Next]_vars => CacheInv'
<1> SUFFICES ASSUME CacheInv, AskInv, [Next]_vars PROVE CacheInv'
  OBVIOUS
<1>1. ASSUME UNCHANGED <<cache, uses, putAt, now>> PROVE CacheInv'
  BY <1>1 DEF CacheInv
<1>2. CASE UNCHANGED vars
  BY <1>1, <1>2 DEF vars
<1>3. CASE Tick
  <2>1. cache' = cache /\ uses' = uses /\ putAt' = putAt /\ now' = now + 1
    BY <1>3 DEF Tick, history
  <2>2. /\ Fits(cache, uses) /\ Len(cache) <= CacheSize /\ (Disabled => cache = <<>>)
        /\ Dated(cache, putAt) /\ Clocked(uses, putAt, now) /\ Remembers(cache, uses, putAt, now)
    BY DEF CacheInv, Keeps
  <2>3. Clocked(uses, putAt, now + 1)
    BY <2>2 DEF Clocked
  <2>4. Remembers(cache, uses, putAt, now + 1)
    <3> SUFFICES ASSUME NEW n \in DOMAIN uses, now >= putAt[uses[n]] + Ttl
                 PROVE  now + 1 >= putAt[uses[n]] + Ttl
      BY <2>2 DEF Remembers
    <3>1. uses[n] \in Elements(uses)
      BY DEF Elements
    <3>2. putAt[uses[n]] \in Nat /\ now \in Nat
      BY <2>2, <3>1 DEF Clocked
    <3> QED
      BY <3>2, Sizes
  <2>5. Keeps(cache', uses', putAt', now')
    BY <2>1, <2>2, <2>3, <2>4 DEF Keeps
  <2> QED
    BY <2>5 DEF CacheInv
<1>4. ASSUME NEW t \in Threads, NEW k \in Keys, Ask(t, k) PROVE CacheInv'
  BY <1>4, GetKeeps DEF Ask
<1>5. ASSUME NEW t \in Threads, Recheck(t) PROVE CacheInv'
  BY <1>5, GetKeeps DEF Recheck
<1>6. ASSUME NEW t \in Threads, AcquireProvider(t) PROVE CacheInv'
  BY <1>1, <1>6 DEF AcquireProvider, history
<1>7. ASSUME NEW t \in Threads, ProviderAnswers(t) PROVE CacheInv'
  BY <1>1, <1>7 DEF ProviderAnswers, history
<1>8. ASSUME NEW t \in Threads, ProviderFails(t) PROVE CacheInv'
  BY <1>1, <1>8 DEF ProviderFails, history
<1>9. ASSUME NEW t \in Threads, Wake(t) PROVE CacheInv'
  BY <1>1, <1>9 DEF Wake, history
<1>10. ASSUME NEW t \in Threads, Leave(t) PROVE CacheInv'
  BY <1>1, <1>10 DEF Leave, history
<1>11. ASSUME NEW t \in Threads, Finish(t) PROVE CacheInv'
  <2>1. CASE calls[t].ok
    <3>1. query[t] \in Keys /\ now' = now
      BY <1>11 DEF Finish, AskInv
    <3>2. cache' = AfterPut(query[t]) /\ uses' = MovedLast(uses, query[t]) /\ putAt' = PutNow(query[t])
      BY <1>11, <2>1 DEF Finish, Used, PutNow
    <3>3. Keeps(cache', uses', putAt', now')
      BY <3>1, <3>2, PutKeeps
    <3> QED
      BY <3>3 DEF CacheInv
  <2>2. CASE ~calls[t].ok
    BY <1>1, <1>11, <2>2 DEF Finish, history
  <2> QED
    BY <2>1, <2>2
<1> QED
  BY <1>2, <1>3, <1>4, <1>5, <1>6, <1>7, <1>8, <1>9, <1>10, <1>11 DEF Next, Serve

LEMMA CacheForgets == CacheInv => ForgetsLeastRecent
<1> SUFFICES ASSUME CacheInv PROVE ForgetsLeastRecent
  OBVIOUS
<1>1. Fits(cache, uses) /\ Len(cache) <= CacheSize /\ Remembers(cache, uses, putAt, now)
  BY DEF CacheInv, Keeps
<1>2. \A m, n \in DOMAIN cache : cache[m].key = cache[n].key => m = n
  BY <1>1, KeyOnce
<1>3. Cached = KeysOf(cache)
  BY DEF Cached, KeysOf
<1> QED
  BY <1>1, <1>2, <1>3 DEF Remembers, ForgetsLeastRecent

(* The cache never has a key twice or more entries than its size, and a    *)
(* query is forgotten only when its answer has expired or as many others   *)
(* were used since (QueryEmbeddingCache): whatever the threads look up,    *)
(* expire and put, in any order.                                           *)
THEOREM CacheForgetsLeastRecent == Spec => []ForgetsLeastRecent
<1>1. Init => CacheInv /\ AskInv
  BY InitKeeps, InitAsks
<1>2. CacheInv /\ AskInv /\ [Next]_vars => (CacheInv /\ AskInv)'
  BY StepKeeps, StepAsks
<1>3. CacheInv /\ AskInv => ForgetsLeastRecent
  BY CacheForgets
<1> QED
  BY <1>1, <1>2, <1>3, PTL DEF Spec
=============================================================================
