------------------------------ MODULE LruProofs ------------------------------
(***************************************************************************)
(* Proof that a tier is a least-recently-used cache: _ready holds exactly  *)
(* the keys used last, in the order of their last use, for every set of    *)
(* calls, threads and keys and every capacity.  The record of uses is the  *)
(* history variable of MCTierCache.                                        *)
(*                                                                         *)
(* The rank of a key, which MostRecent counts, is not kept by a step in a  *)
(* way that can be followed; what is kept is that the entries are in the   *)
(* order of their last use, that whatever is not an entry was last used    *)
(* before all of them, and that it is not an entry because the tier is     *)
(* full.                                                                   *)
(***************************************************************************)
EXTENDS MCTierCache, TierCacheProofs

\* The position of the last k in u.
LastOf(u, k) == CHOOSE i \in DOMAIN u : u[i] = k /\ \A j \in i+1..Len(u) : u[j] # k
HasLasts(u) == \A k \in ToSet(u) : \E i \in DOMAIN u : u[i] = k /\ \A j \in i+1..Len(u) : u[j] # k

\* The keys r are those used last in u, in the order of their last use.
Recency(r, u) ==
  /\ u \in Seq(Keys) /\ HasLasts(u)
  /\ r \in Seq(Keys) /\ \A i \in DOMAIN r : r[i] \in ToSet(u)
  /\ \A i, j \in DOMAIN r : i < j => LastOf(u, r[i]) < LastOf(u, r[j])
  /\ \A k \in ToSet(u) \ ToSet(r), i \in DOMAIN r : LastOf(u, k) < LastOf(u, r[i])
  /\ Len(r) <= Capacity
  /\ Len(r) < Capacity => ToSet(u) \subseteq ToSet(r)

LEMMA LastOfType ==
  ASSUME NEW u \in Seq(Keys), HasLasts(u), NEW k \in ToSet(u)
  PROVE  /\ LastOf(u, k) \in 1..Len(u) /\ u[LastOf(u, k)] = k
         /\ \A j \in LastOf(u, k)+1..Len(u) : u[j] # k
<1>1. \E i \in DOMAIN u : u[i] = k /\ \A j \in i+1..Len(u) : u[j] # k
  BY DEF HasLasts
<1>2. DOMAIN u = 1..Len(u)
  BY LenProperties
<1>3. QED
  BY <1>1, <1>2 DEF LastOf

\* There is one last position.
LEMMA LastOfIs ==
  ASSUME NEW u \in Seq(Keys), NEW k, NEW i \in 1..Len(u), u[i] = k, \A j \in i+1..Len(u) : u[j] # k
  PROVE  LastOf(u, k) = i
<1>1. DOMAIN u = 1..Len(u) /\ Len(u) \in Nat
  BY LenProperties
<1>2. \E l \in DOMAIN u : u[l] = k /\ \A j \in l+1..Len(u) : u[j] # k
  BY <1>1
<1>3. PICK l : l = LastOf(u, k)
  OBVIOUS
<1>4. l \in 1..Len(u) /\ u[l] = k /\ \A j \in l+1..Len(u) : u[j] # k
  BY <1>1, <1>2, <1>3 DEF LastOf
<1>5. ~ (l < i) /\ ~ (i < l)
  <2>1. ASSUME l < i PROVE FALSE
    <3>1. i \in l+1..Len(u)
      BY <1>1, <1>4, <2>1
    <3>2. QED
      BY <1>4, <3>1
  <2>2. ASSUME i < l PROVE FALSE
    <3>1. l \in i+1..Len(u)
      BY <1>1, <1>4, <2>2
    <3>2. QED
      BY <1>4, <3>1
  <2>3. QED
    BY <2>1, <2>2
<1>6. QED
  BY <1>1, <1>3, <1>4, <1>5

\* v is u with one more use, of k: the last of its key, after all the others.
UsedNext(u, k, v) ==
  /\ v \in Seq(Keys) /\ HasLasts(v) /\ ToSet(v) = ToSet(u) \cup {k}
  /\ Len(u) \in Nat /\ LastOf(v, k) = Len(u) + 1
  /\ \A l \in ToSet(u) \ {k} : LastOf(v, l) = LastOf(u, l)
  /\ \A l \in ToSet(u) : LastOf(u, l) \in 1..Len(u)

\* s is r with the entry at i moved to its end.
Touched(r, i, s) ==
  /\ s \in Seq(Keys) /\ Len(s) = Len(r) /\ ToSet(s) = ToSet(r)
  /\ \A j \in 1..Len(r) : WasAt(i, Len(r), j) \in 1..Len(r) /\ s[j] = r[WasAt(i, Len(r), j)]

\* s is r with k added, less the n oldest entries.
Pushed(r, k, n, s) ==
  /\ s \in Seq(Keys) /\ Len(s) = Len(r) + 1 - n
  /\ \A j \in 1..(Len(r) + 1 - n) : s[j] = IF n + j = Len(r) + 1 THEN k ELSE r[n + j]

\* One more use is the last of its key and leaves the last uses of the others.
LEMMA LastOfAppend ==
  ASSUME NEW u \in Seq(Keys), HasLasts(u), NEW k \in Keys, NEW v, v = Append(u, k)
  PROVE  UsedNext(u, k, v)
<1>1. /\ DOMAIN u = 1..Len(u) /\ Len(u) \in Nat
      /\ v \in Seq(Keys) /\ Len(v) = Len(u) + 1 /\ DOMAIN v = 1..(Len(u) + 1)
      /\ \A i \in 1..Len(u) : v[i] = u[i]
      /\ v[Len(u) + 1] = k
  BY LenProperties, AppendProperties
<1>2. ToSet(v) = ToSet(u) \cup {k}
  <2>1. 1..(Len(u) + 1) = 1..Len(u) \cup {Len(u) + 1}
    BY <1>1
  <2>2. QED
    BY <1>1, <2>1 DEF ToSet
<1>3. ASSUME NEW l \in ToSet(u) \ {k}
      PROVE  /\ LastOf(u, l) \in DOMAIN v /\ v[LastOf(u, l)] = l
             /\ \A j \in LastOf(u, l)+1..Len(v) : v[j] # l
  <2>1. /\ LastOf(u, l) \in 1..Len(u) /\ u[LastOf(u, l)] = l
        /\ \A j \in LastOf(u, l)+1..Len(u) : u[j] # l
    BY LastOfType
  <2>2. ASSUME NEW j \in LastOf(u, l)+1..Len(v) PROVE v[j] # l
    <3>1. CASE j = Len(u) + 1
      BY <1>1, <3>1
    <3>2. CASE j # Len(u) + 1
      <4>1. j \in LastOf(u, l)+1..Len(u) /\ j \in 1..Len(u)
        BY <1>1, <2>1, <3>2
      <4>2. QED
        BY <1>1, <2>1, <4>1
    <3>3. QED
      BY <3>1, <3>2
  <2>3. QED
    BY <1>1, <2>1, <2>2
<1>4. /\ Len(u) + 1 \in 1..Len(v) /\ v[Len(u) + 1] = k
      /\ \A j \in (Len(u) + 1)+1..Len(v) : v[j] # k
  BY <1>1
<1>5. HasLasts(v)
  <2>1. ASSUME NEW l \in ToSet(v) PROVE \E i \in DOMAIN v : v[i] = l /\ \A j \in i+1..Len(v) : v[j] # l
    <3>1. CASE l = k
      BY <1>1, <1>4, <3>1
    <3>2. CASE l # k
      BY <1>2, <1>3, <3>2
    <3>3. QED
      BY <3>1, <3>2
  <2>2. QED
    BY <2>1 DEF HasLasts
<1>6. LastOf(v, k) = Len(u) + 1
  <2>1. PICK p : p = Len(u) + 1
    OBVIOUS
  <2>2. p \in 1..Len(v) /\ v[p] = k /\ \A j \in p+1..Len(v) : v[j] # k
    BY <1>4, <2>1
  <2>3. LastOf(v, k) = p
    BY <1>1, <2>2, LastOfIs
  <2>4. QED
    BY <2>1, <2>3
<1>7. ASSUME NEW l \in ToSet(u) \ {k} PROVE LastOf(v, l) = LastOf(u, l)
  <2>1. PICK p : p = LastOf(u, l)
    OBVIOUS
  <2>2. p \in 1..Len(v) /\ v[p] = l /\ \A j \in p+1..Len(v) : v[j] # l
    BY <1>1, <1>3, <2>1
  <2>3. LastOf(v, l) = p
    BY <1>1, <2>2, LastOfIs
  <2>4. QED
    BY <2>1, <2>3
<1>8. \A l \in ToSet(u) : LastOf(u, l) \in 1..Len(u)
  BY LastOfType
<1>9. QED
  BY <1>1, <1>2, <1>5, <1>6, <1>7, <1>8 DEF UsedNext

\* Moving the entry that is used to the end keeps the order.
LEMMA TouchKeepsRecency ==
  ASSUME NEW r, NEW u, Recency(r, u), NEW i \in DOMAIN r, NEW s, Touched(r, i, s),
         NEW v, UsedNext(u, r[i], v)
  PROVE  Recency(s, v)
<1>t. /\ s \in Seq(Keys) /\ Len(s) = Len(r) /\ ToSet(s) = ToSet(r)
      /\ \A j \in 1..Len(r) : WasAt(i, Len(r), j) \in 1..Len(r) /\ s[j] = r[WasAt(i, Len(r), j)]
  BY DEF Touched
<1>1. /\ u \in Seq(Keys) /\ HasLasts(u) /\ r \in Seq(Keys) /\ Len(r) \in Nat
      /\ DOMAIN r = 1..Len(r) /\ DOMAIN s = 1..Len(r) /\ r[i] \in Keys
      /\ \A j \in 1..Len(r) : r[j] \in ToSet(u)
  <2>1. u \in Seq(Keys) /\ HasLasts(u) /\ r \in Seq(Keys) /\ \A j \in DOMAIN r : r[j] \in ToSet(u)
    BY DEF Recency
  <2>2. Len(r) \in Nat /\ DOMAIN r = 1..Len(r) /\ DOMAIN s = 1..Len(r)
    BY <1>t, <2>1, LenProperties
  <2>3. r[i] \in Keys
    BY <2>1, <2>2, ElementOfSeq
  <2>4. QED
    BY <2>1, <2>2, <2>3
<1>2. /\ v \in Seq(Keys) /\ HasLasts(v) /\ ToSet(v) = ToSet(u) \cup {r[i]}
      /\ Len(u) \in Nat /\ LastOf(v, r[i]) = Len(u) + 1
      /\ \A l \in ToSet(u) \ {r[i]} : LastOf(v, l) = LastOf(u, l)
      /\ \A l \in ToSet(u) : LastOf(u, l) \in 1..Len(u)
  BY DEF UsedNext
<1>3. ToSet(v) = ToSet(u)
  BY <1>1, <1>2
<1>4. \A j, l \in 1..Len(r) : j < l => LastOf(u, r[j]) < LastOf(u, r[l])
  BY <1>1 DEF Recency
<1>5. \A j \in 1..Len(r) : j # i => r[j] # r[i]
  <2>1. ASSUME NEW j \in 1..Len(r), j # i, r[j] = r[i] PROVE FALSE
    <3>1. (j < i \/ i < j) /\ LastOf(u, r[i]) \in Nat
      BY <1>1, <1>2, <2>1
    <3>2. QED
      BY <1>1, <1>4, <2>1, <3>1
  <2>2. QED
    BY <2>1
<1>6. ASSUME NEW j \in 1..Len(r), NEW l \in 1..Len(r), j < l
      PROVE  LastOf(v, s[j]) < LastOf(v, s[l])
  <2>1. /\ WasAt(i, Len(r), j) \in 1..Len(r) /\ s[j] = r[WasAt(i, Len(r), j)]
        /\ WasAt(i, Len(r), l) \in 1..Len(r) /\ s[l] = r[WasAt(i, Len(r), l)]
        /\ WasAt(i, Len(r), j) # i
    BY <1>t, <1>1, <1>6 DEF WasAt
  <2>2. LastOf(v, s[j]) = LastOf(u, s[j]) /\ LastOf(u, s[j]) \in 1..Len(u)
    BY <1>1, <1>2, <1>5, <2>1
  <2>3. CASE l = Len(r)
    <3>1. s[l] = r[i]
      BY <1>1, <2>1, <2>3 DEF WasAt
    <3>2. QED
      BY <1>2, <2>2, <3>1
  <2>4. CASE l # Len(r)
    <3>1. WasAt(i, Len(r), j) < WasAt(i, Len(r), l) /\ WasAt(i, Len(r), l) # i
      <4>1. Len(r) \in Nat /\ i \in 1..Len(r)
        BY <1>1
      <4>2. PICK n : n = Len(r)
        OBVIOUS
      <4>3. n \in Nat /\ i \in 1..n /\ j \in 1..n /\ l \in 1..n /\ j < l /\ l # n
        BY <1>6, <2>4, <4>1, <4>2
      <4>4. WasAt(i, n, j) < WasAt(i, n, l) /\ WasAt(i, n, l) # i
        <5>1. CASE l < i
          BY <4>3, <5>1 DEF WasAt
        <5>2. CASE ~ (l < i) /\ j < i
          BY <4>3, <5>2 DEF WasAt
        <5>3. CASE ~ (l < i) /\ ~ (j < i)
          <6>1. j < n /\ l < n
            BY <4>3
          <6>2. WasAt(i, n, j) = j + 1 /\ WasAt(i, n, l) = l + 1
            BY <5>3, <6>1 DEF WasAt
          <6>3. QED
            BY <4>3, <5>3, <6>2
        <5>4. QED
          BY <5>1, <5>2, <5>3
      <4>5. QED
        BY <4>2, <4>4
    <3>2. LastOf(v, s[l]) = LastOf(u, s[l])
      BY <1>1, <1>2, <1>5, <2>1, <3>1
    <3>3. QED
      BY <1>4, <2>1, <2>2, <3>1, <3>2
  <2>5. QED
    BY <2>3, <2>4
<1>7. ASSUME NEW k \in ToSet(v) \ ToSet(s), NEW j \in 1..Len(r)
      PROVE  LastOf(v, k) < LastOf(v, s[j])
  <2>1. k \in ToSet(u) \ ToSet(r) /\ k # r[i] /\ LastOf(v, k) = LastOf(u, k)
    BY <1>t, <1>1, <1>2, <1>3, <1>7 DEF ToSet
  <2>2. PICK l \in 1..Len(r) : s[j] = r[l]
    BY <1>t
  <2>3. LastOf(u, k) < LastOf(u, r[l])
    BY <1>1, <2>1 DEF Recency
  <2>4. r[l] \in ToSet(u) /\ LastOf(u, k) \in 1..Len(u) /\ LastOf(u, r[l]) \in 1..Len(u)
    BY <1>1, <1>2, <2>1
  <2>5. CASE r[l] = r[i]
    BY <1>2, <2>1, <2>2, <2>4, <2>5
  <2>6. CASE r[l] # r[i]
    BY <1>2, <2>1, <2>2, <2>3, <2>4, <2>6
  <2>7. QED
    BY <2>5, <2>6
<1>8. \A j \in DOMAIN s : s[j] \in ToSet(v)
  BY <1>t, <1>1, <1>3
<1>9. Len(s) <= Capacity /\ (Len(s) < Capacity => ToSet(v) \subseteq ToSet(s))
  BY <1>t, <1>3 DEF Recency
<1>10. QED
  BY <1>t, <1>1, <1>2, <1>6, <1>7, <1>8, <1>9 DEF Recency

\* Adding an entry that was not there, and dropping the oldest one if the tier
\* was full, keeps it.
LEMMA PushKeepsRecency ==
  ASSUME NEW r, NEW u, Recency(r, u), NEW k \in Keys, k \notin ToSet(r),
         NEW n \in {0, 1}, n = 1 <=> Len(r) = Capacity, NEW s, Pushed(r, k, n, s),
         NEW v, UsedNext(u, k, v)
  PROVE  Recency(s, v)
<1>n. n \in Nat /\ (n = 0 \/ n = 1)
  OBVIOUS
<1>t. /\ s \in Seq(Keys) /\ Len(s) = Len(r) + 1 - n
      /\ \A j \in 1..(Len(r) + 1 - n) : s[j] = IF n + j = Len(r) + 1 THEN k ELSE r[n + j]
  BY DEF Pushed
<1>1. /\ u \in Seq(Keys) /\ HasLasts(u) /\ r \in Seq(Keys) /\ Len(r) \in Nat /\ Len(r) <= Capacity
      /\ DOMAIN r = 1..Len(r) /\ DOMAIN s = 1..(Len(r) + 1 - n)
      /\ \A j \in 1..Len(r) : r[j] \in ToSet(u)
  <2>1. /\ u \in Seq(Keys) /\ HasLasts(u) /\ r \in Seq(Keys) /\ Len(r) <= Capacity
        /\ \A j \in DOMAIN r : r[j] \in ToSet(u)
    BY DEF Recency
  <2>2. Len(r) \in Nat /\ DOMAIN r = 1..Len(r) /\ DOMAIN s = 1..Len(s)
    BY <1>t, <2>1, LenProperties
  <2>3. QED
    BY <1>t, <2>1, <2>2
<1>2. /\ v \in Seq(Keys) /\ HasLasts(v) /\ ToSet(v) = ToSet(u) \cup {k}
      /\ Len(u) \in Nat /\ LastOf(v, k) = Len(u) + 1
      /\ \A l \in ToSet(u) \ {k} : LastOf(v, l) = LastOf(u, l)
      /\ \A l \in ToSet(u) : LastOf(u, l) \in 1..Len(u)
  BY DEF UsedNext
<1>3. Capacity \in Nat /\ (n = 1 <=> Len(r) = Capacity)
  BY CapacityAssumption
<1>4. \A j, l \in 1..Len(r) : j < l => LastOf(u, r[j]) < LastOf(u, r[l])
  BY <1>1 DEF Recency
<1>5. ASSUME NEW j \in 1..Len(r)
      PROVE  r[j] # k /\ LastOf(v, r[j]) = LastOf(u, r[j]) /\ LastOf(u, r[j]) \in 1..Len(u)
  BY <1>1, <1>2 DEF ToSet
<1>6. ASSUME NEW j \in 1..(Len(r) + 1 - n)
      PROVE  \/ n + j \in 1..Len(r) /\ s[j] = r[n + j]
             \/ n + j = Len(r) + 1 /\ s[j] = k
  <2>1. n + j \in 1..Len(r) \/ n + j = Len(r) + 1
    <3>1. Len(r) \in Nat
      BY <1>1
    <3>2. QED
      BY <1>n, <3>1
  <2>2. n + j \in 1..Len(r) => n + j # Len(r) + 1
    BY <1>1
  <2>3. QED
    BY <1>t, <2>1, <2>2
<1>7. ASSUME NEW j \in 1..(Len(r) + 1 - n), NEW l \in 1..(Len(r) + 1 - n), j < l
      PROVE  LastOf(v, s[j]) < LastOf(v, s[l])
  <2>1. n + j \in 1..Len(r) /\ s[j] = r[n + j] /\ n + j < n + l
    <3>1. Len(r) \in Nat
      BY <1>1
    <3>2. n + j < n + l /\ n + j # Len(r) + 1
      BY <1>n, <1>7, <3>1
    <3>3. QED
      BY <1>6, <3>2
  <2>2. CASE n + l = Len(r) + 1
    BY <1>2, <1>5, <1>6, <2>1, <2>2
  <2>3. CASE n + l # Len(r) + 1
    BY <1>4, <1>5, <1>6, <2>1, <2>3
  <2>4. QED
    BY <2>2, <2>3
<1>8. ASSUME NEW m \in ToSet(v) \ ToSet(s), NEW j \in 1..(Len(r) + 1 - n)
      PROVE  LastOf(v, m) < LastOf(v, s[j])
  <2>1. Len(r) + 1 - n \in DOMAIN s /\ s[Len(r) + 1 - n] = k
    <3>1. PICK p : p = Len(r) + 1 - n
      OBVIOUS
    <3>2. p \in 1..p /\ n + p = Len(r) + 1 /\ DOMAIN s = 1..p
      <4>1. Len(r) \in Nat
        BY <1>1
      <4>2. p \in 1..p /\ n + p = Len(r) + 1
        BY <1>n, <3>1, <4>1
      <4>3. QED
        BY <1>1, <3>1, <4>2
    <3>3. s[p] = k
      BY <1>t, <3>1, <3>2
    <3>4. QED
      BY <3>1, <3>2, <3>3
  <2>2. m # k /\ m \in ToSet(u)
    BY <1>2, <2>1 DEF ToSet
  <2>3. LastOf(v, m) = LastOf(u, m) /\ LastOf(u, m) \in 1..Len(u)
    BY <1>2, <2>2
  <2>4. CASE s[j] = k
    BY <1>2, <2>3, <2>4
  <2>5. CASE s[j] # k
    <3>1. n + j \in 1..Len(r) /\ s[j] = r[n + j]
      BY <1>6, <2>5
    <3>2. CASE m \notin ToSet(r)
      <4>1. LastOf(u, m) < LastOf(u, r[n + j])
        BY <1>1, <2>2, <3>1, <3>2 DEF Recency
      <4>2. QED
        BY <1>5, <2>3, <3>1, <4>1
    <3>3. CASE m \in ToSet(r)
      <4>1. PICK l \in 1..Len(r) : r[l] = m
        BY <1>1, <3>3 DEF ToSet
      <4>2. ~ (l > n)
        <5>1. ASSUME l > n PROVE FALSE
          <6>1. l - n \in 1..(Len(r) + 1 - n) /\ n + (l - n) = l /\ l # Len(r) + 1
            <7>1. n \in Nat /\ Len(r) \in Nat
              BY <1>n, <1>1
            <7>2. QED
              BY <5>1, <7>1, <1>n
          <6>2. s[l - n] = m /\ l - n \in DOMAIN s
            BY <1>1, <1>6, <4>1, <6>1
          <6>3. QED
            BY <6>2 DEF ToSet
        <5>2. QED
          BY <5>1
      <4>3. l < n + j
        BY <1>3, <4>2, <3>1
      <4>4. QED
        BY <1>4, <1>5, <2>3, <3>1, <4>1, <4>3
    <3>4. QED
      BY <3>2, <3>3
  <2>6. QED
    BY <2>4, <2>5
<1>9. ASSUME NEW j \in DOMAIN s PROVE s[j] \in ToSet(v)
  BY <1>1, <1>2, <1>6
<1>10. Len(s) <= Capacity
  <2>1. Len(s) = Len(r) + 1 - n /\ Len(r) \in Nat /\ Len(r) <= Capacity
    BY <1>t, <1>1
  <2>2. QED
    BY <1>n, <1>3, <2>1
<1>11. ASSUME Len(s) < Capacity PROVE ToSet(v) \subseteq ToSet(s)
  <2>1. n = 0 /\ Len(r) < Capacity
    <3>1. Len(s) = Len(r) + 1 - n /\ Len(r) \in Nat /\ Len(r) <= Capacity
      BY <1>t, <1>1
    <3>2. QED
      BY <1>n, <1>3, <1>11, <3>1
  <2>2. ToSet(u) \subseteq ToSet(r)
    BY <2>1 DEF Recency
  <2>3. k \in ToSet(s)
    <3>1. Len(r) + 1 \in DOMAIN s /\ s[Len(r) + 1] = k
      BY <1>1, <1>6, <2>1
    <3>2. QED
      BY <3>1 DEF ToSet
  <2>4. ASSUME NEW x \in ToSet(r) PROVE x \in ToSet(s)
    <3>1. PICK l \in 1..Len(r) : x = r[l]
      BY <1>1 DEF ToSet
    <3>2. l \in DOMAIN s /\ s[l] = x
      BY <1>1, <1>6, <2>1, <3>1
    <3>3. QED
      BY <3>2 DEF ToSet
  <2>5. QED
    BY <1>2, <2>2, <2>3, <2>4
<1>12. QED
  BY <1>t, <1>1, <1>2, <1>7, <1>8, <1>9, <1>10, <1>11 DEF Recency

-----------------------------------------------------------------------------
(* From the order of the entries to the rank of the keys.                  *)

Newer(u, k) == {l \in ToSet(u) : LastOf(u, l) > LastOf(u, k)}

\* The entries are the keys of which fewer than Capacity were used since.
LEMMA RecencyIsRank ==
  ASSUME NEW r, NEW u, Recency(r, u)
  PROVE  ToSet(r) = {k \in ToSet(u) : Cardinality(Newer(u, k)) < Capacity}
<1>1. /\ u \in Seq(Keys) /\ HasLasts(u) /\ r \in Seq(Keys) /\ Len(r) <= Capacity
      /\ \A i \in DOMAIN r : r[i] \in ToSet(u)
      /\ \A i, j \in DOMAIN r : i < j => LastOf(u, r[i]) < LastOf(u, r[j])
      /\ \A k \in ToSet(u) \ ToSet(r), i \in DOMAIN r : LastOf(u, k) < LastOf(u, r[i])
      /\ Len(r) < Capacity => ToSet(u) \subseteq ToSet(r)
  BY DEF Recency
<1>2. Len(r) \in Nat /\ DOMAIN r = 1..Len(r) /\ Len(u) \in Nat /\ DOMAIN u = 1..Len(u)
  BY <1>1, LenProperties
<1>3. \A k \in ToSet(u) : LastOf(u, k) \in Nat
  BY <1>1, LastOfType, <1>2
<1>4. IsFiniteSet(ToSet(r)) /\ Cardinality(ToSet(r)) = Len(r)
  <2>1. ASSUME NEW i \in DOMAIN r, NEW j \in DOMAIN r, r[i] = r[j] PROVE i = j
    <3>1. LastOf(u, r[i]) \in Nat /\ i \in Nat /\ j \in Nat
      BY <1>1, <1>2, <1>3
    <3>2. ~ (i < j) /\ ~ (j < i)
      BY <1>1, <2>1, <3>1
    <3>3. QED
      BY <3>1, <3>2
  <2>2. QED
    BY <1>1, <2>1, CountEntries
<1>5. IsFiniteSet(ToSet(u))
  <2>1. u \in [1..Len(u) -> ToSet(u)]
    BY <1>1, <1>2, LenProperties DEF ToSet
  <2>2. \A x \in ToSet(u) : \E i \in 1..Len(u) : u[i] = x
    BY <1>2 DEF ToSet
  <2>3. u \in Surjection(1..Len(u), ToSet(u))
    BY <2>1, <2>2, Fun_IsSurj
  <2>4. IsFiniteSet(1..Len(u))
    BY <1>2, FS_Interval
  <2>5. QED
    BY <2>3, <2>4, FS_Surjection
<1>6. ToSet(r) \subseteq ToSet(u)
  <2>1. ASSUME NEW x \in ToSet(r) PROVE x \in ToSet(u)
    <3>1. PICK i \in DOMAIN r : x = r[i]
      BY DEF ToSet
    <3>2. QED
      BY <1>1, <3>1
  <2>2. QED
    BY <2>1
<1>7. ASSUME NEW k \in ToSet(r) PROVE Cardinality(Newer(u, k)) < Capacity
  <2>1. PICK i \in DOMAIN r : k = r[i]
    BY DEF ToSet
  <2>2. ASSUME NEW l \in Newer(u, k) PROVE l \in ToSet(r) \ {k}
    <3>1. l \in ToSet(u) /\ LastOf(u, l) > LastOf(u, k)
      BY DEF Newer
    <3>2. LastOf(u, l) \in Nat /\ LastOf(u, k) \in Nat
      BY <1>3, <1>6, <3>1
    <3>3. l # k
      BY <3>1, <3>2
    <3>4. ASSUME l \notin ToSet(r) PROVE FALSE
      <4>1. LastOf(u, l) < LastOf(u, k)
        BY <1>1, <2>1, <3>1, <3>4
      <4>2. QED
        BY <3>1, <3>2, <4>1
    <3>5. QED
      BY <3>3, <3>4
  <2>3. Newer(u, k) \subseteq ToSet(r) \ {k}
    BY <2>2
  <2>4. IsFiniteSet(ToSet(r) \ {k}) /\ Cardinality(ToSet(r) \ {k}) = Len(r) - 1
    BY <1>4, FS_RemoveElement
  <2>5. IsFiniteSet(Newer(u, k)) /\ Cardinality(Newer(u, k)) <= Len(r) - 1
    BY <2>3, <2>4, FS_Subset
  <2>6. Cardinality(Newer(u, k)) \in Nat
    BY <2>5, FS_CardinalityType
  <2>7. QED
    BY <1>1, <1>2, <2>5, <2>6, CapacityAssumption
<1>8. ASSUME NEW k \in ToSet(u) \ ToSet(r) PROVE ~ (Cardinality(Newer(u, k)) < Capacity)
  <2>1. Len(r) = Capacity
    <3>1. ~ (Len(r) < Capacity) /\ Len(r) \in Nat /\ Len(r) <= Capacity
      BY <1>1, <1>2
    <3>2. QED
      BY <3>1, CapacityAssumption
  <2>2. ASSUME NEW l \in ToSet(r) PROVE l \in Newer(u, k)
    <3>1. PICK i \in DOMAIN r : l = r[i]
      BY DEF ToSet
    <3>2. LastOf(u, k) < LastOf(u, l) /\ l \in ToSet(u)
      BY <1>1, <1>6, <3>1
    <3>3. LastOf(u, k) \in Nat /\ LastOf(u, l) \in Nat
      BY <1>3, <3>2
    <3>4. QED
      BY <3>2, <3>3 DEF Newer
  <2>3. Newer(u, k) \subseteq ToSet(u)
    BY DEF Newer
  <2>4. IsFiniteSet(Newer(u, k))
    BY <1>5, <2>3, FS_Subset
  <2>5. ToSet(r) \subseteq Newer(u, k)
    BY <2>2
  <2>6. Capacity <= Cardinality(Newer(u, k)) /\ Cardinality(Newer(u, k)) \in Nat
    BY <1>4, <2>1, <2>4, <2>5, FS_Subset, FS_CardinalityType
  <2>7. QED
    BY <2>6, CapacityAssumption
<1>9. QED
  BY <1>6, <1>7, <1>8
-----------------------------------------------------------------------------
(* The keys of _ready                                                      *)

KeysOf(b, f) == [i \in DOMAIN b |-> f[b[i]]]

LEMMA KeysOfType ==
  ASSUME NEW b \in Seq(Calls), NEW f, \A i \in DOMAIN b : f[b[i]] \in Keys
  PROVE  /\ Len(b) \in Nat /\ DOMAIN b = 1..Len(b)
         /\ KeysOf(b, f) \in Seq(Keys) /\ Len(KeysOf(b, f)) = Len(b)
         /\ DOMAIN KeysOf(b, f) = 1..Len(b)
         /\ \A i \in 1..Len(b) : KeysOf(b, f)[i] = f[b[i]] /\ f[b[i]] \in Keys
         /\ ToSet(KeysOf(b, f)) = {f[x] : x \in ToSet(b)}
<1>1. Len(b) \in Nat /\ DOMAIN b = 1..Len(b)
  BY LenProperties
<1>2. KeysOf(b, f) \in [1..Len(b) -> Keys]
  BY <1>1 DEF KeysOf
<1>3. KeysOf(b, f) \in Seq(Keys)
  BY <1>1, <1>2, SeqDef
<1>4. DOMAIN KeysOf(b, f) = 1..Len(b) /\ Len(KeysOf(b, f)) = Len(b)
  BY <1>1, <1>2, <1>3, LenProperties
<1>5. \A i \in 1..Len(b) : KeysOf(b, f)[i] = f[b[i]] /\ f[b[i]] \in Keys
  BY <1>1 DEF KeysOf
<1>6. ASSUME NEW x \in ToSet(KeysOf(b, f)) PROVE x \in {f[y] : y \in ToSet(b)}
  <2>1. PICK i \in 1..Len(b) : x = KeysOf(b, f)[i]
    BY <1>4 DEF ToSet
  <2>2. b[i] \in ToSet(b) /\ x = f[b[i]]
    BY <1>1, <1>5, <2>1 DEF ToSet
  <2>3. PICK y \in ToSet(b) : x = f[y]
    BY <2>2
  <2>4. QED
    BY <2>3
<1>7. ASSUME NEW y \in ToSet(b) PROVE f[y] \in ToSet(KeysOf(b, f))
  <2>1. PICK i \in 1..Len(b) : y = b[i]
    BY <1>1 DEF ToSet
  <2>2. f[y] = KeysOf(b, f)[i] /\ i \in DOMAIN KeysOf(b, f)
    BY <1>4, <1>5, <2>1
  <2>3. QED
    BY <2>2 DEF ToSet
<1>8. QED
  BY <1>1, <1>3, <1>4, <1>5, <1>6, <1>7

\* Entries are finished calls, which have a key.
LEMMA EntriesHaveKeys ==
  ASSUME Inv
  PROVE  /\ ready \in Seq(Calls)
         /\ \A i \in DOMAIN ready : ready[i] \in Calls /\ Past(ready[i]) /\ key[ready[i]] \in Keys
<1>1. \A i \in DOMAIN ready : ready[i] \in Calls /\ Past(ready[i])
  BY DEF Inv, ReadyInv, Good
<1>2. QED
  BY <1>1 DEF Inv, TypeOK, CallsInv, Past

\* The entries of the tier are in the order of the uses so far.
LruInv == Recency(KeysOf(ready, key), uses)

\* The record of the uses gains the key of the call that uses it, or stays.
LEMMA UsesMove ==
  ASSUME HistoryNext, NEW c \in Calls, Moves(c)
  PROVE  uses' = IF Uses(c) THEN Append(uses, key[c]) ELSE uses
<1>1. \A d \in Calls : Uses(d) => d = c
  BY DEF Moves, Uses
<1>2. CASE Uses(c)
  <2>1. (CHOOSE d \in Calls : Uses(d)) = c
    BY <1>1, <1>2
  <2>2. QED
    BY <1>2, <2>1 DEF HistoryNext
<1>3. CASE ~ Uses(c)
  BY <1>1, <1>3 DEF HistoryNext
<1>4. QED
  BY <1>2, <1>3

\* A step that serves nobody from _ready and publishes nothing leaves the order.
LEMMA LruFrame ==
  ASSUME Inv, LruInv, uses' = uses, ready' = ready, \A i \in DOMAIN ready : key'[ready[i]] = key[ready[i]]
  PROVE  LruInv'
<1>1. KeysOf(ready', key') = KeysOf(ready, key)
  BY DEF KeysOf
<1>2. QED
  BY <1>1 DEF LruInv

\* A hit is a use of the entry it moves to the end.
LEMMA HitKeepsLru ==
  ASSUME Inv, LruInv, NEW c \in Calls, Hit(c), uses' = Append(uses, key[c])
  PROVE  LruInv'
<1>1. PICK i \in DOMAIN ready : key[ready[i]] = key[c] /\ ready' = Append(RemoveAt(ready, i), ready[i])
  BY DEF Hit
<1>2. key' = key
  BY DEF Hit, callVars
<1>3. PICK r, s, n : r = KeysOf(ready, key) /\ s = KeysOf(ready', key) /\ n = Len(ready)
  OBVIOUS
<1>4. /\ ready \in Seq(Calls) /\ n \in Nat /\ DOMAIN ready = 1..n
      /\ r \in Seq(Keys) /\ Len(r) = n /\ DOMAIN r = 1..n
      /\ \A j \in 1..n : r[j] = key[ready[j]] /\ key[ready[j]] \in Keys
      /\ ToSet(r) = {key[x] : x \in ToSet(ready)}
  BY <1>3, EntriesHaveKeys, KeysOfType
<1>5. /\ ready' \in Seq(Calls) /\ Len(ready') = n
      /\ \A j \in 1..n : WasAt(i, n, j) \in 1..n /\ ready'[j] = ready[WasAt(i, n, j)]
  BY <1>1, <1>3, <1>4, TouchReady
<1>6. ToSet(ready') = ToSet(ready)
  BY <1>1, TouchedStore
<1>7. DOMAIN ready' = 1..n
  BY <1>5, LenProperties
<1>8. \A j \in DOMAIN ready' : key[ready'[j]] \in Keys
  BY <1>4, <1>5, <1>7
<1>9. /\ s \in Seq(Keys) /\ Len(s) = n
      /\ \A j \in 1..n : s[j] = key[ready'[j]]
      /\ ToSet(s) = {key[x] : x \in ToSet(ready')}
  BY <1>3, <1>5, <1>8, KeysOfType
<1>10. Touched(r, i, s)
  <2>1. ToSet(s) = ToSet(r)
    BY <1>4, <1>6, <1>9
  <2>2. ASSUME NEW j \in 1..n PROVE WasAt(i, n, j) \in 1..n /\ s[j] = r[WasAt(i, n, j)]
    <3>1. PICK p : p = WasAt(i, n, j)
      OBVIOUS
    <3>2. p \in 1..n /\ ready'[j] = ready[p] /\ s[j] = key[ready'[j]]
      BY <1>5, <1>9, <3>1
    <3>3. r[p] = key[ready[p]]
      BY <1>4, <3>2
    <3>4. QED
      BY <3>1, <3>2, <3>3
  <2>3. QED
    BY <1>4, <1>9, <2>1, <2>2 DEF Touched
<1>11. Recency(r, uses) /\ uses \in Seq(Keys) /\ HasLasts(uses) /\ i \in DOMAIN r /\ r[i] = key[c] /\ r[i] \in Keys
  BY <1>1, <1>3, <1>4 DEF LruInv, Recency
<1>12. UsedNext(uses, r[i], uses')
  BY <1>11, LastOfAppend
<1>13. Recency(s, uses')
  BY <1>10, <1>11, <1>12, TouchKeepsRecency
<1>14. QED
  BY <1>2, <1>3, <1>13 DEF LruInv

\* A publication is a use of the entry it adds; the entries it drops are those
\* used least recently.
LEMMA PublishKeepsLru ==
  ASSUME Inv, LruInv, NEW c \in Calls, Publish(c), uses' = Append(uses, key[c])
  PROVE  LruInv'
<1>1. key' = key /\ pc[c] = "publish" /\ key[c] \in Keys
  BY DEF Publish, callVars, Inv, CallsInv
<1>2. PICK r, s, n, m, a : /\ r = KeysOf(ready, key) /\ s = KeysOf(ready', key)
                           /\ n = Surplus /\ m = Len(ready) /\ a = Append(ready, c)
  OBVIOUS
<1>3. /\ ready \in Seq(Calls) /\ m \in Nat /\ DOMAIN ready = 1..m
      /\ r \in Seq(Keys) /\ Len(r) = m /\ DOMAIN r = 1..m
      /\ \A j \in 1..m : r[j] = key[ready[j]] /\ key[ready[j]] \in Keys
  BY <1>2, EntriesHaveKeys, KeysOfType
<1>4. /\ Len(a) = m + 1 /\ \A i \in 1..m : a[i] = ready[i]
      /\ a[m + 1] = c
  BY <1>2, <1>3, AppendProperties
<1>5. /\ ready' \in Seq(Calls) /\ Len(ready') = m + 1 - n
      /\ \A j \in 1..(m + 1 - n) : n + j \in 1..(m + 1) /\ ready'[j] = a[n + j]
  BY <1>2, PublishedReady
<1>6. Recency(r, uses) /\ uses \in Seq(Keys) /\ HasLasts(uses) /\ m <= Capacity
  BY <1>2, <1>3 DEF LruInv, Recency
<1>7. n \in {0, 1} /\ (n = 1 <=> m = Capacity)
  BY <1>2, <1>3, <1>6, CapacityAssumption DEF Surplus
<1>8. DOMAIN ready' = 1..(m + 1 - n)
  BY <1>5, LenProperties
<1>9. ASSUME NEW j \in 1..(m + 1 - n)
      PROVE  key[ready'[j]] = (IF n + j = m + 1 THEN key[c] ELSE r[n + j]) /\ key[ready'[j]] \in Keys
  <2>1. n + j \in 1..m \/ n + j = m + 1
    BY <1>3, <1>5
  <2>2. CASE n + j = m + 1
    BY <1>1, <1>4, <1>5, <2>2
  <2>3. CASE n + j \in 1..m
    <3>1. n + j # m + 1
      BY <1>3, <2>3
    <3>2. QED
      BY <1>3, <1>4, <1>5, <2>3, <3>1
  <2>4. QED
    BY <2>1, <2>2, <2>3
<1>10. /\ s \in Seq(Keys) /\ Len(s) = m + 1 - n
       /\ \A j \in 1..(m + 1 - n) : s[j] = key[ready'[j]]
  BY <1>2, <1>5, <1>8, <1>9, KeysOfType
<1>11. Pushed(r, key[c], n, s)
  BY <1>3, <1>9, <1>10 DEF Pushed
<1>12. key[c] \notin ToSet(r)
  BY <1>1, <1>3 DEF ToSet, Inv, UnreadyInv, InFlight
<1>13. UsedNext(uses, key[c], uses')
  BY <1>1, <1>6, LastOfAppend
<1>14. Recency(s, uses')
  BY <1>1, <1>3, <1>6, <1>7, <1>11, <1>12, <1>13, PushKeepsRecency
<1>15. QED
  BY <1>1, <1>2, <1>14 DEF LruInv

\* Every step of the tier and of its record keeps the order.
LEMMA LruStep == Inv /\ LruInv /\ [HistoryNext]_<<vars, uses>> => LruInv'
<1> SUFFICES ASSUME Inv, LruInv, [HistoryNext]_<<vars, uses>> PROVE LruInv'
  OBVIOUS
<1>. TypeOK
  BY DEF Inv
<1>e. ASSUME NEW c \in Calls, NEW t, NEW p, NEW k \in Keys, NEW F, Enter(c, t, p, k, F), HistoryNext PROVE LruInv'
  <2>1. Moves(c) /\ pc[c] = "unused" /\ pc'[c] = "lookup"
    BY <1>e, EnterMoves
  <2>2. uses' = uses
    BY <1>e, <2>1, UsesMove DEF Uses
  <2>3. \A i \in DOMAIN ready : key'[ready[i]] = key[ready[i]]
    BY <1>e, <2>1, EntriesHaveKeys DEF Enter, Past, TypeOK
  <2>4. QED
    BY <1>e, <2>2, <2>3, LruFrame DEF Enter, tierVars
<1>s. ASSUME NEW c \in Calls, Step(c), HistoryNext PROVE LruInv'
  <2>1. Moves(c) /\ uses' = IF Uses(c) THEN Append(uses, key[c]) ELSE uses
    BY <1>s, StepMoves, UsesMove
  <2>2. CASE Hit(c)
    <3>1. Uses(c)
      BY <2>2 DEF Hit, Return, Goto, Uses, TypeOK
    <3>2. QED
      BY <2>1, <2>2, <3>1, HitKeepsLru
  <2>3. CASE Publish(c)
    <3>1. Uses(c)
      BY <2>3 DEF Publish, Goto, Uses, TypeOK
    <3>2. QED
      BY <2>1, <2>3, <3>1, PublishKeepsLru
  <2>4. CASE ~ Hit(c) /\ ~ Publish(c)
    <3>1. ~ Uses(c) /\ ready' = ready /\ key' = key
      <4>1. CASE Lead(c)
        BY <4>1 DEF Lead, Goto, callVars, TypeOK, Uses
      <4>2. CASE Join(c)
        BY <4>2 DEF Join, Goto, callVars, tierVars, TypeOK, Uses
      <4>3. CASE Reenter(c)
        BY <4>3 DEF Reenter, Goto, Raise, callVars, tierVars, TypeOK, Uses
      <4>4. CASE Wake(c)
        BY <4>4 DEF Wake, Goto, Return, Raise, callVars, tierVars, TypeOK, Uses
      <4>5. CASE Miss(c)
        BY <4>5 DEF Miss, Goto, Fail, callVars, TypeOK, Uses
      <4>6. CASE CompileOk(c)
        BY <4>6 DEF CompileOk, Goto, callVars, TypeOK, Uses
      <4>7. CASE CompileFail(c)
        BY <4>7 DEF CompileFail, Goto, Fail, callVars, tierVars, TypeOK, Uses
      <4>8. CASE Signal(c)
        BY <4>8 DEF Signal, Goto, Return, callVars, tierVars, TypeOK, Uses
      <4>9. CASE Announce(c)
        BY <4>9 DEF Announce, Goto, Return, Raise, callVars, tierVars, TypeOK, Uses
      <4>10. CASE Abort(c)
        BY <4>10 DEF Abort, Goto, callVars, TypeOK, Uses
      <4>11. CASE Release(c)
        BY <4>11 DEF Release, Goto, Raise, callVars, tierVars, TypeOK, Uses
      <4>12. QED
        BY <1>s, <2>4, <4>1, <4>2, <4>3, <4>4, <4>5, <4>6, <4>7, <4>8, <4>9, <4>10, <4>11 DEF Step
    <3>2. QED
      BY <2>1, <3>1, LruFrame
  <2>5. QED
    BY <2>2, <2>3, <2>4
<1>u. ASSUME UNCHANGED vars, HistoryNext \/ uses' = uses PROVE LruInv'
  <2>1. pc' = pc /\ key' = key /\ ready' = ready
    BY <1>u DEF vars
  <2>2. \A c \in Calls : ~ Uses(c)
    BY <2>1 DEF Uses
  <2>3. uses' = uses
    BY <1>u, <2>2 DEF HistoryNext
  <2>4. QED
    BY <2>1, <2>3, LruFrame
<1>1. CASE UNCHANGED <<vars, uses>>
  BY <1>1, <1>u
<1>2. CASE HistoryNext
  <2>1. Next
    BY <1>2 DEF HistoryNext
  <2>2. CASE \E c \in Calls, t \in Threads, k \in Keys, F \in Contexts : Call(c, t, k, F)
    BY <1>2, <2>2, <1>e DEF Call
  <2>3. CASE \E c, p \in Calls, k \in Keys : CallNested(c, p, k)
    BY <1>2, <2>3, <1>e DEF CallNested
  <2>4. CASE \E c \in Calls : Step(c)
    BY <1>2, <2>4, <1>s
  <2>5. CASE Terminated
    BY <1>2, <2>5, <1>u DEF Terminated
  <2>6. QED
    BY <2>1, <2>2, <2>3, <2>4, <2>5 DEF Next
<1>3. QED
  BY <1>1, <1>2

LEMMA LruInit == Init /\ uses = <<>> => LruInv
<1> SUFFICES ASSUME Init, uses = <<>> PROVE LruInv
  OBVIOUS
<1>1. PICK r : r = KeysOf(ready, key)
  OBVIOUS
<1>2. DOMAIN ready = {} /\ ready \in Seq(Calls)
  BY DEF Init
<1>3. /\ r \in Seq(Keys) /\ Len(r) = 0 /\ DOMAIN r = {}
  <2>1. Len(ready) = 0
    BY DEF Init
  <2>2. QED
    BY <1>1, <1>2, <2>1, KeysOfType DEF KeysOf
<1>4. uses \in Seq(Keys) /\ ToSet(uses) = {}
  BY DEF ToSet
<1>5. HasLasts(uses)
  BY <1>4 DEF HasLasts
<1>6. 0 <= Capacity
  BY CapacityAssumption
<1>7. QED
  BY <1>1, <1>3, <1>4, <1>5, <1>6 DEF LruInv, Recency

\* What the order says of the rank.
LEMMA LruIsRank == Inv /\ LruInv => ReadyIsLRU
<1> SUFFICES ASSUME Inv, LruInv PROVE ReadyIsLRU
  OBVIOUS
<1>1. PICK r : r = KeysOf(ready, key)
  OBVIOUS
<1>2. /\ Recency(r, uses) /\ DOMAIN r = DOMAIN ready
      /\ \A i \in DOMAIN ready : r[i] = key[ready[i]]
  BY <1>1 DEF LruInv, KeysOf
<1>3. Held(ready) = ToSet(r)
  BY <1>2 DEF Held, ToSet
<1>4. \A k : LastUse(k) = LastOf(uses, k)
  BY DEF LastUse, LastOf
<1>5. \A k : Newer(uses, k) = {l \in ToSet(uses) : LastUse(l) > LastUse(k)}
  BY <1>4 DEF Newer
<1>6. MostRecent = {k \in ToSet(uses) : Cardinality(Newer(uses, k)) < Capacity}
  BY <1>5 DEF MostRecent
<1>7. \A i, j \in DOMAIN ready : i < j => LastUse(key[ready[i]]) < LastUse(key[ready[j]])
  BY <1>2, <1>4 DEF Recency
<1>8. QED
  BY <1>2, <1>3, <1>6, <1>7, RecencyIsRank DEF ReadyIsLRU

\* A tier is a least-recently-used cache that counts right, whatever hits,
\* builds, waits and failures come between: _ready holds exactly the Capacity
\* keys used last, in the order of their last use, and the counters are those
\* of its entries.
THEOREM TierIsLru == HistorySpec => []Bookkeeping
<1>1. HistoryInit => Inv /\ Counted /\ LruInv
  <2>1. HistoryInit => Init /\ uses = <<>>
    BY DEF HistoryInit
  <2>2. Init => Counted
    BY InitCounters
  <2>3. QED
    BY <2>1, <2>2, InitInv, LruInit
<1>2. Inv /\ Counted /\ LruInv /\ [HistoryNext]_<<vars, uses>> => (Inv /\ Counted /\ LruInv)'
  <2>1. [HistoryNext]_<<vars, uses>> => [Next]_vars
    BY DEF HistoryNext
  <2>2. QED
    BY <2>1, StepInv, CountersStep, LruStep
<1>3. Inv /\ Counted /\ LruInv => Bookkeeping
  BY LruIsRank DEF Bookkeeping, Counted
<1>4. QED
  BY <1>1, <1>2, <1>3, PTL DEF HistorySpec
=============================================================================
