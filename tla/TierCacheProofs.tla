--------------------------- MODULE TierCacheProofs ---------------------------
(***************************************************************************)
(* Proofs about TierCache for every set of calls, threads and keys, every  *)
(* capacity and every dependency between keys: its invariant, its counters *)
(* and that it implements AtomicMemo.                                      *)
(***************************************************************************)
EXTENDS TierCache, SequenceTheorems, FiniteSetTheorems, FunctionTheorems, TLAPS

\* Where an entry of a sequence of length n moved to the end from i was before.
WasAt(i, n, j) == IF j < i THEN j ELSE IF j < n THEN j + 1 ELSE i

\* Taking out the entry at i leaves the others in their order.
LEMMA RemoveKeeps ==
  ASSUME NEW S, NEW s \in Seq(S), NEW i \in DOMAIN s
  PROVE  /\ Len(s) \in Nat /\ DOMAIN s = 1..Len(s) /\ i \in 1..Len(s) /\ s[i] \in S
         /\ RemoveAt(s, i) \in Seq(S) /\ Len(RemoveAt(s, i)) = Len(s) - 1
         /\ \A j \in 1..(Len(s) - 1) : RemoveAt(s, i)[j] = IF j < i THEN s[j] ELSE s[j+1]
<1>1. Len(s) \in Nat /\ DOMAIN s = 1..Len(s) /\ i \in 1..Len(s) /\ s[i] \in S
  BY LenProperties, ElementOfSeq
<1> DEFINE n == Len(s)
<1>2. PICK a : a = SubSeq(s, 1, i-1)
  OBVIOUS
<1>3. PICK b : b = SubSeq(s, i+1, Len(s))
  OBVIOUS
<1>4. /\ a \in Seq(S) /\ Len(a) = i-1
      /\ \A j \in 1..(i-1) : a[j] = s[j]
  BY <1>1, <1>2, SubSeqProperties
<1>5. /\ b \in Seq(S) /\ Len(b) = n - i
      /\ \A j \in 1..(n - i) : b[j] = s[i + j]
  BY <1>1, <1>3, SubSeqProperties
<1>6. PICK c : c = a \o b
  OBVIOUS
<1>7. /\ c \in Seq(S) /\ Len(c) = Len(a) + Len(b)
      /\ \A j \in 1..(Len(a) + Len(b)) : c[j] = IF j <= Len(a) THEN a[j] ELSE b[j - Len(a)]
  BY <1>4, <1>5, <1>6, ConcatProperties
<1>8. /\ c \in Seq(S) /\ Len(c) = n - 1
      /\ \A j \in 1..(n - 1) : c[j] = IF j < i THEN s[j] ELSE s[j+1]
  <2>1. Len(a) + Len(b) = n - 1
    BY <1>1, <1>4, <1>5
  <2>2. ASSUME NEW j \in 1..(n-1)
        PROVE  c[j] = IF j < i THEN s[j] ELSE s[j+1]
    <3>1. CASE j < i
      <4>1. j \in 1..(i-1) /\ j <= Len(a)
        BY <3>1, <1>1, <1>4
      <4>2. QED
        BY <4>1, <3>1, <2>1, <1>4, <1>7
    <3>2. CASE i <= j
      <4>1. j - (i-1) \in 1..(n - i) /\ i + (j - (i-1)) = j+1 /\ ~(j <= Len(a)) /\ ~(j < i)
        BY <3>2, <1>1, <1>4
      <4>2. c[j] = b[j - (i-1)]
        BY <4>1, <2>1, <1>4, <1>7
      <4>3. QED
        BY <4>1, <4>2, <1>5
    <3>3. QED
      BY <3>1, <3>2, <1>1
  <2>3. QED
    BY <2>1, <2>2, <1>7
<1>9. RemoveAt(s, i) = c
  BY <1>2, <1>3, <1>6 DEF RemoveAt
<1>10. QED
  BY <1>1, <1>8, <1>9

\* Moving the entry at i to the end permutes the sequence.
LEMMA TouchPermutes ==
  ASSUME NEW S, NEW s \in Seq(S), NEW i \in DOMAIN s,
         NEW t, t = Append(RemoveAt(s, i), s[i])
  PROVE  /\ t \in Seq(S)
         /\ Len(t) = Len(s)
         /\ \A j \in 1..Len(s) : WasAt(i, Len(s), j) \in 1..Len(s) /\ t[j] = s[WasAt(i, Len(s), j)]
<1> DEFINE n == Len(s)
<1>1. PICK c : c = RemoveAt(s, i)
  OBVIOUS
<1>2. /\ n \in Nat /\ DOMAIN s = 1..n /\ i \in 1..n /\ s[i] \in S
      /\ c \in Seq(S) /\ Len(c) = n - 1
      /\ \A j \in 1..(n - 1) : c[j] = IF j < i THEN s[j] ELSE s[j+1]
  BY <1>1, RemoveKeeps, Zenon
<1>3. /\ t \in Seq(S)
      /\ Len(t) = Len(c) + 1
      /\ \A j \in 1..Len(c) : t[j] = c[j]
      /\ t[Len(c) + 1] = s[i]
  <2>1. t = Append(c, s[i])
    BY <1>1
  <2>2. c \in Seq(S) /\ s[i] \in S
    BY <1>2
  <2>3. QED
    BY <2>1, <2>2, AppendProperties
<1>4. ASSUME NEW j \in 1..n
       PROVE  WasAt(i, n, j) \in 1..n /\ t[j] = s[WasAt(i, n, j)]
  <2>1. CASE j < n
    BY <2>1, <1>2, <1>3 DEF WasAt
  <2>2. CASE ~ (j < n)
    <3>1. j = n
      BY <2>2
    <3>2. QED
      BY <2>2, <3>1, <1>2, <1>3 DEF WasAt
  <2>3. QED
    BY <2>1, <2>2
<1>5. QED
  BY <1>2, <1>3, <1>4

\* Keeping all but the first n entries keeps them in their order.
LEMMA DropKeeps ==
  ASSUME NEW S, NEW s \in Seq(S), NEW n \in Nat, n <= Len(s),
         NEW t, t = SubSeq(s, n + 1, Len(s))
  PROVE  /\ t \in Seq(S)
         /\ Len(t) = Len(s) - n
         /\ \A j \in 1..(Len(s) - n) : n + j \in 1..Len(s) /\ t[j] = s[n + j]
<1>1. Len(s) \in Nat /\ DOMAIN s = 1..Len(s)
  BY LenProperties
<1>2. \A i \in (n+1)..Len(s) : s[i] \in S
  BY <1>1, ElementOfSeq
<1>3. /\ t \in Seq(S)
      /\ Len(t) = IF n+1 <= Len(s) THEN Len(s) - (n+1) + 1 ELSE 0
      /\ \A j \in 1..(Len(s) - (n+1) + 1) : t[j] = s[(n+1) + j - 1]
  BY <1>1, <1>2, SubSeqProperties
<1>4. Len(t) = Len(s) - n
  <2>1. Len(s) \in Nat /\ Len(t) = IF n+1 <= Len(s) THEN Len(s) - (n+1) + 1 ELSE 0
    BY <1>1, <1>3
  <2>2. QED
    BY <2>1
<1>5. ASSUME NEW j \in 1..(Len(s) - n)
      PROVE  n + j \in 1..Len(s) /\ t[j] = s[n + j]
  <2>1. j \in 1..(Len(s) - (n+1) + 1) /\ (n+1) + j - 1 = n + j /\ n + j \in 1..Len(s)
    BY <1>1
  <2>2. QED
    BY <2>1, <1>3
<1>6. QED
  BY <1>3, <1>4, <1>5

\* What a hit does to _ready.
LEMMA TouchReady ==
  ASSUME ready \in Seq(Calls), NEW i \in DOMAIN ready,
         ready' = Append(RemoveAt(ready, i), ready[i])
  PROVE  /\ ready' \in Seq(Calls)
         /\ Len(ready') = Len(ready)
         /\ \A j \in 1..Len(ready) : /\ WasAt(i, Len(ready), j) \in 1..Len(ready)
                                     /\ ready'[j] = ready[WasAt(i, Len(ready), j)]
<1>1. ready' \in Seq(Calls)
  BY TouchPermutes
<1>2. Len(ready') = Len(ready)
  BY TouchPermutes
<1>3. \A j \in 1..Len(ready) : WasAt(i, Len(ready), j) \in 1..Len(ready)
  BY TouchPermutes
<1>4. \A j \in 1..Len(ready) : ready'[j] = ready[WasAt(i, Len(ready), j)]
  BY TouchPermutes
<1>5. QED
  BY <1>1, <1>2, <1>3, <1>4

\* One more call is made in a step, at most.
LEMMA MadeFinite ==
  ASSUME TypeOK, NEW c \in Calls, NEW s, pc' = [pc EXCEPT ![c] = s],
         IsFiniteSet({d \in Calls : pc[d] # "unused"})
  PROVE  IsFiniteSet({d \in Calls : pc'[d] # "unused"})
<1>1. IsFiniteSet({d \in Calls : pc[d] # "unused"} \cup {c})
  BY FS_AddElement
<1>2. {d \in Calls : pc'[d] # "unused"} \subseteq {d \in Calls : pc[d] # "unused"} \cup {c}
  BY DEF TypeOK
<1>3. QED
  BY <1>1, <1>2, FS_Subset

\* Every step of a call keeps the invariant: one step per action, and under it
\* one per conjunct.
LEMMA StepInv == Inv /\ [Next]_vars => Inv'
<1> SUFFICES ASSUME Inv, [Next]_vars PROVE Inv'
  OBVIOUS
<1>. TypeOK /\ CallsInv /\ BuildingInv /\ UnreadyInv /\ SlotInv /\ ReadyInv /\ WaitInv /\ AnswerInv /\ MadeInv
  BY DEF Inv
<1>1. ASSUME NEW c \in Calls, NEW t \in Threads, NEW k \in Keys, NEW F \in Contexts, Call(c, t, k, F)
      PROVE  Inv'
  <2>1. TypeOK'
    BY <1>1, NoneAssumption, DepsAssumption, ContextsAssumption DEF Call, Enter, Goto, slotVars, tierVars, TypeOK, Steps, Errors
  <2>2. CallsInv'
    BY <1>1 DEF Call, Enter, Goto, slotVars, tierVars, TypeOK, CallsInv
  <2>3. BuildingInv'
    BY <1>1, NoneAssumption DEF Call, Enter, Goto, slotVars, tierVars, TypeOK, CallsInv, BuildingInv, InFlight
  <2>4. UnreadyInv'
    BY <1>1 DEF Call, Enter, Goto, slotVars, tierVars, TypeOK, CallsInv, ReadyInv, Good, Past, UnreadyInv, InFlight, Held
  <2>5. SlotInv'
    BY <1>1 DEF Call, Enter, Goto, slotVars, tierVars, TypeOK, SlotInv, AnswerInv
  <2>6. ReadyInv'
    BY <1>1 DEF Call, Enter, Goto, slotVars, tierVars, TypeOK, SlotInv, ReadyInv, Good, Past
  <2>7. WaitInv'
    BY <1>1, NoneAssumption DEF Call, Enter, Goto, slotVars, tierVars, TypeOK, CallsInv, BuildingInv, SlotInv, WaitInv, InFlight
  <2>8. AnswerInv'
    BY <1>1 DEF Call, Enter, Goto, slotVars, tierVars, TypeOK, SlotInv, ReadyInv, AnswerInv, Good, Past
  <2>9. MadeInv'
    <3>1. \E s \in Steps : pc' = [pc EXCEPT ![c] = s]
      BY <1>1 DEF Call, Enter, Goto, Steps
    <3>2. IsFiniteSet({d \in Calls : pc[d] # "unused"})'
      BY <3>1, MadeFinite DEF MadeInv
    <3>3. QED
      BY <1>1, <3>2 DEF Call, Enter, Goto, callVars, slotVars, tierVars, TypeOK, MadeInv
  <2>. QED
    BY <2>1, <2>2, <2>3, <2>4, <2>5, <2>6, <2>7, <2>8, <2>9 DEF Inv
<1>2. ASSUME NEW c \in Calls, NEW p \in Calls, NEW k \in Keys, CallNested(c, p, k)
      PROVE  Inv'
  <2>1. TypeOK'
    BY <1>2, NoneAssumption, DepsAssumption, ContextsAssumption DEF CallNested, Enter, Goto, slotVars, tierVars, TypeOK, Steps, Errors
  <2>2. CallsInv'
    BY <1>2 DEF CallNested, Enter, Goto, slotVars, tierVars, TypeOK, CallsInv
  <2>3. BuildingInv'
    BY <1>2, NoneAssumption DEF CallNested, Enter, Goto, slotVars, tierVars, TypeOK, CallsInv, BuildingInv, InFlight
  <2>4. UnreadyInv'
    BY <1>2 DEF CallNested, Enter, Goto, slotVars, tierVars, TypeOK, CallsInv, ReadyInv, Good, Past, UnreadyInv, InFlight, Held
  <2>5. SlotInv'
    BY <1>2 DEF CallNested, Enter, Goto, slotVars, tierVars, TypeOK, SlotInv, AnswerInv
  <2>6. ReadyInv'
    BY <1>2 DEF CallNested, Enter, Goto, slotVars, tierVars, TypeOK, SlotInv, ReadyInv, Good, Past
  <2>7. WaitInv'
    BY <1>2, NoneAssumption DEF CallNested, Enter, Goto, slotVars, tierVars, TypeOK, CallsInv, BuildingInv, SlotInv, WaitInv, InFlight
  <2>8. AnswerInv'
    BY <1>2 DEF CallNested, Enter, Goto, slotVars, tierVars, TypeOK, SlotInv, ReadyInv, AnswerInv, Good, Past
  <2>9. MadeInv'
    <3>1. \E s \in Steps : pc' = [pc EXCEPT ![c] = s]
      BY <1>2 DEF CallNested, Enter, Goto, Steps
    <3>2. IsFiniteSet({d \in Calls : pc[d] # "unused"})'
      BY <3>1, MadeFinite DEF MadeInv
    <3>3. QED
      BY <1>2, <3>2 DEF CallNested, Enter, Goto, callVars, slotVars, tierVars, TypeOK, MadeInv
  <2>. QED
    BY <2>1, <2>2, <2>3, <2>4, <2>5, <2>6, <2>7, <2>8, <2>9 DEF Inv
<1>3. ASSUME NEW c \in Calls, Hit(c)
      PROVE  Inv'
  <2>p. PICK i \in DOMAIN ready :
         /\ key[ready[i]] = key[c]
         /\ ready' = Append(RemoveAt(ready, i), ready[i])
         /\ Return(c, ready[i])
    BY <1>3 DEF Hit
  <2>a. ready \in Seq(Calls) /\ ready[i] \in Calls
    BY DEF TypeOK, ReadyInv, Good
  <2>b. /\ ready' \in Seq(Calls)
        /\ Len(ready') = Len(ready)
        /\ \A j \in 1..Len(ready) : /\ WasAt(i, Len(ready), j) \in 1..Len(ready)
                                    /\ ready'[j] = ready[WasAt(i, Len(ready), j)]
    <3>1. i \in DOMAIN ready /\ ready' = Append(RemoveAt(ready, i), ready[i])
      BY <2>p
    <3>2. QED
      BY <3>1, <2>a, TouchReady
  <2>c. /\ Len(ready) \in Nat /\ DOMAIN ready = 1..Len(ready) /\ DOMAIN ready' = 1..Len(ready)
    BY <2>a, <2>b, LenProperties
  <2>d. ASSUME NEW j \in DOMAIN ready'
        PROVE  WasAt(i, Len(ready), j) \in DOMAIN ready /\ ready'[j] = ready[WasAt(i, Len(ready), j)]
    BY <2>b, <2>c
  <2>e. ASSUME NEW j \in DOMAIN ready', NEW l \in DOMAIN ready',
               WasAt(i, Len(ready), j) = WasAt(i, Len(ready), l)
        PROVE  j = l
    <3>1. j \in 1..Len(ready) /\ l \in 1..Len(ready) /\ i \in 1..Len(ready) /\ Len(ready) \in Nat
      BY <2>c
    <3>2. QED
      BY <3>1, <2>e DEF WasAt
  <2>1. TypeOK'
    <3>1. pc' \in [Calls -> Steps] /\ answer' \in [Calls -> Calls \cup {None}]
      BY <2>p, <2>a DEF Goto, Return, TypeOK, Steps
    <3>2. stats' \in [{"hits", "misses", "compiles", "evictions"} -> Nat]
      BY <1>3 DEF Hit, Count, TypeOK
    <3>3. QED
      BY <1>3, <2>p, <2>b, <3>1, <3>2 DEF Hit, Return, callVars, slotVars, TypeOK
  <2>2. CallsInv'
    BY <1>3 DEF Hit, Goto, Return, Count, callVars, slotVars, TypeOK, CallsInv
  <2>3. BuildingInv'
    BY <1>3, NoneAssumption DEF Hit, Goto, Return, Count, callVars, slotVars, TypeOK, CallsInv, BuildingInv, InFlight
  <2>4. UnreadyInv'
    BY <1>3, <2>d DEF Hit, Goto, Return, callVars, TypeOK, UnreadyInv, InFlight
  <2>5. SlotInv'
    BY <1>3 DEF Hit, Goto, Return, Count, callVars, slotVars, TypeOK, SlotInv, AnswerInv
  <2>6. ReadyInv'
    <3>1. ASSUME NEW j \in DOMAIN ready' PROVE Good(ready[j])'
      <4>1. /\ pc[c] = "lookup" /\ \A d \in Calls \ {c} : pc'[d] = pc[d]
            /\ error' = error
        BY <1>3, <2>p DEF Hit, Goto, Return, slotVars, TypeOK
      <4>2. PICK b : b = ready'[j]
        OBVIOUS
      <4>3. Good(b)
        BY <4>2, <2>d DEF ReadyInv
      <4>4. QED
        BY <4>1, <4>2, <4>3 DEF Good, Past
    <3>2. ASSUME NEW j \in DOMAIN ready', NEW l \in DOMAIN ready', (key[ready[j]] = key[ready[l]])'
          PROVE  j = l
      <4>1. WasAt(i, Len(ready), j) = WasAt(i, Len(ready), l)
        BY <1>3, <2>d, <3>2 DEF Hit, callVars, ReadyInv
      <4>2. QED
        BY <4>1, <2>e
    <3>3. QED
      BY <3>1, <3>2, Zenon DEF ReadyInv
  <2>7. WaitInv'
    BY <1>3, NoneAssumption DEF Hit, Goto, Return, Count, callVars, slotVars, TypeOK, CallsInv, BuildingInv, SlotInv, WaitInv, InFlight
  <2>8. AnswerInv'
    BY <1>3 DEF Hit, Goto, Return, Count, callVars, slotVars, TypeOK, SlotInv, ReadyInv, AnswerInv, Good, Past
  <2>9. MadeInv'
    <3>1. \E s \in Steps : pc' = [pc EXCEPT ![c] = s]
      BY <1>3 DEF Hit, Return, Goto, Steps
    <3>2. IsFiniteSet({d \in Calls : pc[d] # "unused"})'
      BY <3>1, MadeFinite DEF MadeInv
    <3>3. QED
      BY <1>3, <3>2 DEF Hit, Return, Goto, callVars, slotVars, tierVars, TypeOK, MadeInv
  <2>. QED
    BY <2>1, <2>2, <2>3, <2>4, <2>5, <2>6, <2>7, <2>8, <2>9 DEF Inv
<1>4. ASSUME NEW c \in Calls, Lead(c)
      PROVE  Inv'
  <2>1. TypeOK'
    BY <1>4 DEF Lead, Goto, callVars, slotVars, Held, TypeOK, Steps, Errors
  <2>2. CallsInv'
    BY <1>4 DEF Lead, Goto, callVars, slotVars, Held, TypeOK, CallsInv
  <2>3. BuildingInv'
    BY <1>4, NoneAssumption DEF Lead, Goto, callVars, slotVars, Held, TypeOK, CallsInv, BuildingInv, InFlight
  <2>4. UnreadyInv'
    BY <1>4 DEF Lead, Goto, callVars, slotVars, Held, TypeOK, CallsInv, ReadyInv, Good, Past, UnreadyInv, InFlight
  <2>5. SlotInv'
    BY <1>4 DEF Lead, Goto, callVars, slotVars, Held, TypeOK, SlotInv, AnswerInv
  <2>6. ReadyInv'
    BY <1>4 DEF Lead, Goto, callVars, slotVars, Held, TypeOK, SlotInv, ReadyInv, Good, Past
  <2>7. WaitInv'
    BY <1>4, NoneAssumption DEF Lead, Goto, callVars, slotVars, Held, TypeOK, CallsInv, BuildingInv, SlotInv, WaitInv, InFlight
  <2>8. AnswerInv'
    BY <1>4 DEF Lead, Goto, callVars, slotVars, Held, TypeOK, SlotInv, ReadyInv, AnswerInv, Good, Past
  <2>9. MadeInv'
    <3>1. \E s \in Steps : pc' = [pc EXCEPT ![c] = s]
      BY <1>4 DEF Lead, Goto, Steps
    <3>2. IsFiniteSet({d \in Calls : pc[d] # "unused"})'
      BY <3>1, MadeFinite DEF MadeInv
    <3>3. QED
      BY <1>4, <3>2 DEF Lead, Goto, callVars, slotVars, tierVars, TypeOK, MadeInv
  <2>. QED
    BY <2>1, <2>2, <2>3, <2>4, <2>5, <2>6, <2>7, <2>8, <2>9 DEF Inv
<1>5. ASSUME NEW c \in Calls, Join(c)
      PROVE  Inv'
  <2>1. TypeOK'
    BY <1>5 DEF Join, Goto, callVars, slotVars, tierVars, TypeOK, CallsInv, Steps
  <2>2. CallsInv'
    BY <1>5 DEF Join, Goto, callVars, slotVars, tierVars, TypeOK, CallsInv
  <2>3. BuildingInv'
    BY <1>5, NoneAssumption DEF Join, Goto, callVars, slotVars, tierVars, TypeOK, CallsInv, BuildingInv, InFlight
  <2>4. UnreadyInv'
    BY <1>5 DEF Join, Goto, callVars, slotVars, tierVars, TypeOK, CallsInv, ReadyInv, Good, Past, UnreadyInv, InFlight, Held
  <2>5. SlotInv'
    BY <1>5 DEF Join, Goto, callVars, slotVars, tierVars, TypeOK, SlotInv, AnswerInv
  <2>6. ReadyInv'
    BY <1>5 DEF Join, Goto, callVars, slotVars, tierVars, TypeOK, SlotInv, ReadyInv, Good, Past
  <2>7. WaitInv'
    BY <1>5, NoneAssumption DEF Join, Goto, callVars, slotVars, tierVars, TypeOK, CallsInv, BuildingInv, SlotInv, WaitInv, InFlight
  <2>8. AnswerInv'
    BY <1>5 DEF Join, Goto, callVars, slotVars, tierVars, TypeOK, SlotInv, ReadyInv, AnswerInv, Good, Past
  <2>9. MadeInv'
    <3>1. \E s \in Steps : pc' = [pc EXCEPT ![c] = s]
      BY <1>5 DEF Join, Goto, Steps
    <3>2. IsFiniteSet({d \in Calls : pc[d] # "unused"})'
      BY <3>1, MadeFinite DEF MadeInv
    <3>3. QED
      BY <1>5, <3>2 DEF Join, Goto, callVars, slotVars, tierVars, TypeOK, MadeInv
  <2>. QED
    BY <2>1, <2>2, <2>3, <2>4, <2>5, <2>6, <2>7, <2>8, <2>9 DEF Inv
<1>6. ASSUME NEW c \in Calls, Reenter(c)
      PROVE  Inv'
  <2>1. TypeOK'
    BY <1>6 DEF Reenter, Goto, Raise, callVars, slotVars, tierVars, TypeOK, Steps, Errors
  <2>2. CallsInv'
    BY <1>6 DEF Reenter, Goto, Raise, callVars, slotVars, tierVars, TypeOK, CallsInv
  <2>3. BuildingInv'
    BY <1>6, NoneAssumption DEF Reenter, Goto, Raise, callVars, slotVars, tierVars, TypeOK, CallsInv, BuildingInv, InFlight
  <2>4. UnreadyInv'
    BY <1>6 DEF Reenter, Goto, Raise, callVars, slotVars, tierVars, TypeOK, CallsInv, ReadyInv, Good, Past, UnreadyInv, InFlight, Held
  <2>5. SlotInv'
    BY <1>6 DEF Reenter, Goto, Raise, callVars, slotVars, tierVars, TypeOK, SlotInv, AnswerInv
  <2>6. ReadyInv'
    BY <1>6 DEF Reenter, Goto, Raise, callVars, slotVars, tierVars, TypeOK, SlotInv, ReadyInv, Good, Past
  <2>7. WaitInv'
    BY <1>6, NoneAssumption DEF Reenter, Goto, Raise, callVars, slotVars, tierVars, TypeOK, CallsInv, BuildingInv, SlotInv, WaitInv, InFlight
  <2>8. AnswerInv'
    BY <1>6 DEF Reenter, Goto, Raise, callVars, slotVars, tierVars, TypeOK, SlotInv, ReadyInv, AnswerInv, Good, Past
  <2>9. MadeInv'
    <3>1. \E s \in Steps : pc' = [pc EXCEPT ![c] = s]
      BY <1>6 DEF Reenter, Raise, Goto, Steps
    <3>2. IsFiniteSet({d \in Calls : pc[d] # "unused"})'
      BY <3>1, MadeFinite DEF MadeInv
    <3>3. QED
      BY <1>6, <3>2 DEF Reenter, Raise, Goto, callVars, slotVars, tierVars, TypeOK, MadeInv
  <2>. QED
    BY <2>1, <2>2, <2>3, <2>4, <2>5, <2>6, <2>7, <2>8, <2>9 DEF Inv
<1>7. ASSUME NEW c \in Calls, Wake(c)
      PROVE  Inv'
  <2>1. TypeOK'
    BY <1>7 DEF Wake, Goto, Return, Raise, callVars, slotVars, tierVars, TypeOK, Steps, Errors
  <2>2. CallsInv'
    BY <1>7 DEF Wake, Goto, Return, Raise, callVars, slotVars, tierVars, TypeOK, CallsInv
  <2>3. BuildingInv'
    BY <1>7, NoneAssumption DEF Wake, Goto, Return, Raise, callVars, slotVars, tierVars, TypeOK, CallsInv, BuildingInv, InFlight
  <2>4. UnreadyInv'
    BY <1>7 DEF Wake, Goto, Return, Raise, callVars, slotVars, tierVars, TypeOK, CallsInv, ReadyInv, Good, Past, UnreadyInv, InFlight, Held
  <2>5. SlotInv'
    BY <1>7 DEF Wake, Goto, Return, Raise, callVars, slotVars, tierVars, TypeOK, SlotInv, AnswerInv
  <2>6. ReadyInv'
    BY <1>7 DEF Wake, Goto, Return, Raise, callVars, slotVars, tierVars, TypeOK, SlotInv, ReadyInv, Good, Past
  <2>7. WaitInv'
    <3>1. /\ pc[c] = "wait" /\ pc'[c] # "wait"
          /\ \A d \in Calls \ {c} : pc'[d] = pc[d]
          /\ UNCHANGED <<target, key, thread, event>>
      BY <1>7 DEF Wake, Goto, Return, Raise, callVars, slotVars, TypeOK
    <3>2. QED
      BY <3>1 DEF WaitInv, InFlight
  <2>8. AnswerInv'
    <3>1. /\ target[c] \in Calls /\ key[target[c]] = key[c] /\ target[c] \in event /\ target[c] # c
      BY <1>7 DEF Wake, WaitInv, TypeOK
    <3>2. Past(target[c]) /\ Past(target[c])'
      BY <1>7, <3>1 DEF Wake, Goto, Return, Raise, SlotInv, Past, TypeOK
    <3>3. ASSUME NEW d \in Calls, d # c
          PROVE  /\ pc'[d] = "returned" => Good(answer[d])' /\ key'[answer'[d]] = key'[d]
                 /\ pc'[d] = "raised" => err'[d] # "none"
      <4>1. pc'[d] = pc[d] /\ answer'[d] = answer[d] /\ err'[d] = err[d] /\ key' = key /\ error' = error
        BY <1>7, <3>3 DEF Wake, Goto, Return, Raise, callVars, slotVars, TypeOK
      <4>2. \A b \in Calls : Past(b) => Past(b)'
        BY <1>7 DEF Wake, Goto, Return, Raise, TypeOK, Past
      <4>3. /\ pc[d] = "returned" => Good(answer[d]) /\ key[answer[d]] = key[d]
            /\ pc[d] = "raised" => err[d] # "none"
        BY DEF AnswerInv
      <4>4. QED
        BY <4>1, <4>2, <4>3 DEF Good
    <3>4. CASE error[target[c]] = "none" /\ Return(c, target[c])
      <4>1. /\ pc'[c] = "returned" /\ answer'[c] = target[c] /\ error'[target[c]] = "none"
            /\ key' = key /\ target' = target
        BY <1>7, <3>4 DEF Wake, Goto, Return, callVars, slotVars, TypeOK
      <4>2. Good(answer[c])' /\ key'[answer'[c]] = key'[c]
        BY <4>1, <3>1, <3>2 DEF Good, Past
      <4>3. QED
        BY <4>1, <4>2, <3>3 DEF AnswerInv
    <3>5. CASE error[target[c]] # "none" /\ Raise(c, error[target[c]])
      <4>1. pc'[c] = "raised" /\ err'[c] # "none"
        BY <1>7, <3>5 DEF Wake, Goto, Raise, TypeOK
      <4>2. QED
        BY <4>1, <3>3 DEF AnswerInv
    <3>6. QED
      BY <1>7, <3>4, <3>5 DEF Wake
  <2>9. MadeInv'
    <3>1. \E s \in Steps : pc' = [pc EXCEPT ![c] = s]
      BY <1>7 DEF Wake, Return, Raise, Goto, Steps
    <3>2. IsFiniteSet({d \in Calls : pc[d] # "unused"})'
      BY <3>1, MadeFinite DEF MadeInv
    <3>3. QED
      BY <1>7, <3>2 DEF Wake, Return, Raise, Goto, callVars, slotVars, tierVars, TypeOK, MadeInv
  <2>. QED
    BY <2>1, <2>2, <2>3, <2>4, <2>5, <2>6, <2>7, <2>8, <2>9 DEF Inv
<1>8. ASSUME NEW c \in Calls, Miss(c)
      PROVE  Inv'
  <2>1. TypeOK'
    <3>1. pc' \in [Calls -> Steps] /\ error' \in [Calls -> Errors \cup {"none"}]
      BY <1>8 DEF Miss, Goto, Fail, TypeOK, Steps, Errors
    <3>2. stats' \in [{"hits", "misses", "compiles", "evictions"} -> Nat]
      BY <1>8 DEF Miss, Count, TypeOK
    <3>3. QED
      BY <1>8, <3>1, <3>2 DEF Miss, callVars, slotVars, TypeOK
  <2>2. CallsInv'
    BY <1>8 DEF Miss, Goto, Fail, Count, callVars, slotVars, TypeOK, CallsInv
  <2>3. BuildingInv'
    BY <1>8, NoneAssumption DEF Miss, Goto, Fail, Count, callVars, slotVars, TypeOK, CallsInv, BuildingInv, InFlight
  <2>4. UnreadyInv'
    BY <1>8 DEF Miss, Goto, Fail, Count, callVars, slotVars, TypeOK, CallsInv, ReadyInv, Good, Past, UnreadyInv, InFlight, Held
  <2>5. SlotInv'
    BY <1>8 DEF Miss, Goto, Fail, Count, callVars, slotVars, TypeOK, SlotInv, AnswerInv
  <2>6. ReadyInv'
    BY <1>8 DEF Miss, Goto, Fail, Count, callVars, slotVars, TypeOK, SlotInv, ReadyInv, Good, Past
  <2>7. WaitInv'
    <3>1. /\ pc[c] = "miss" /\ pc'[c] \in {"abort", "compile"}
          /\ \A d \in Calls \ {c} : pc'[d] = pc[d]
          /\ UNCHANGED <<target, key, thread, event>>
      BY <1>8 DEF Miss, Goto, Fail, callVars, TypeOK
    <3>2. QED
      BY <3>1 DEF WaitInv, InFlight
  <2>8. AnswerInv'
    BY <1>8 DEF Miss, Goto, Fail, Count, callVars, slotVars, TypeOK, SlotInv, ReadyInv, AnswerInv, Good, Past
  <2>9. MadeInv'
    <3>1. \E s \in Steps : pc' = [pc EXCEPT ![c] = s]
      BY <1>8 DEF Miss, Fail, Goto, Steps
    <3>2. IsFiniteSet({d \in Calls : pc[d] # "unused"})'
      BY <3>1, MadeFinite DEF MadeInv
    <3>3. QED
      BY <1>8, <3>2 DEF Miss, Fail, Goto, callVars, slotVars, tierVars, TypeOK, MadeInv
  <2>. QED
    BY <2>1, <2>2, <2>3, <2>4, <2>5, <2>6, <2>7, <2>8, <2>9 DEF Inv
<1>9. ASSUME NEW c \in Calls, CompileOk(c)
      PROVE  Inv'
  <2>1. TypeOK'
    BY <1>9 DEF CompileOk, Goto, Count, callVars, slotVars, TypeOK, Steps, Errors
  <2>2. CallsInv'
    BY <1>9 DEF CompileOk, Goto, Count, callVars, slotVars, TypeOK, CallsInv
  <2>3. BuildingInv'
    BY <1>9, NoneAssumption DEF CompileOk, Goto, Count, callVars, slotVars, TypeOK, CallsInv, BuildingInv, InFlight
  <2>4. UnreadyInv'
    BY <1>9 DEF CompileOk, Goto, Count, callVars, slotVars, TypeOK, CallsInv, ReadyInv, Good, Past, UnreadyInv, InFlight, Held
  <2>5. SlotInv'
    BY <1>9 DEF CompileOk, Goto, Count, callVars, slotVars, TypeOK, SlotInv, AnswerInv
  <2>6. ReadyInv'
    BY <1>9 DEF CompileOk, Goto, Count, callVars, slotVars, TypeOK, SlotInv, ReadyInv, Good, Past
  <2>7. WaitInv'
    BY <1>9, NoneAssumption DEF CompileOk, Goto, Count, callVars, slotVars, TypeOK, CallsInv, BuildingInv, SlotInv, WaitInv, InFlight
  <2>8. AnswerInv'
    BY <1>9 DEF CompileOk, Goto, Count, callVars, slotVars, TypeOK, SlotInv, ReadyInv, AnswerInv, Good, Past
  <2>9. MadeInv'
    <3>1. \E s \in Steps : pc' = [pc EXCEPT ![c] = s]
      BY <1>9 DEF CompileOk, Goto, Steps
    <3>2. IsFiniteSet({d \in Calls : pc[d] # "unused"})'
      BY <3>1, MadeFinite DEF MadeInv
    <3>3. QED
      BY <1>9, <3>2 DEF CompileOk, Goto, callVars, slotVars, tierVars, TypeOK, MadeInv
  <2>. QED
    BY <2>1, <2>2, <2>3, <2>4, <2>5, <2>6, <2>7, <2>8, <2>9 DEF Inv
<1>10. ASSUME NEW c \in Calls, CompileFail(c)
      PROVE  Inv'
  <2>1. TypeOK'
    BY <1>10 DEF CompileFail, Children, Fail, Goto, callVars, slotVars, tierVars, Errors, TypeOK, Steps
  <2>2. CallsInv'
    BY <1>10 DEF CompileFail, Children, Fail, Goto, callVars, slotVars, tierVars, Errors, TypeOK, CallsInv
  <2>3. BuildingInv'
    BY <1>10, NoneAssumption DEF CompileFail, Children, Fail, Goto, callVars, slotVars, tierVars, Errors, TypeOK, CallsInv, BuildingInv, InFlight
  <2>4. UnreadyInv'
    BY <1>10 DEF CompileFail, Children, Fail, Goto, callVars, slotVars, tierVars, Errors, TypeOK, CallsInv, ReadyInv, Good, Past, UnreadyInv, InFlight, Held
  <2>5. SlotInv'
    BY <1>10 DEF CompileFail, Children, Fail, Goto, callVars, slotVars, tierVars, Errors, TypeOK, SlotInv, AnswerInv
  <2>6. ReadyInv'
    BY <1>10 DEF CompileFail, Children, Fail, Goto, callVars, slotVars, tierVars, Errors, TypeOK, SlotInv, ReadyInv, Good, Past
  <2>7. WaitInv'
    BY <1>10, NoneAssumption DEF CompileFail, Children, Fail, Goto, callVars, slotVars, tierVars, Errors, TypeOK, CallsInv, BuildingInv, SlotInv, WaitInv, InFlight
  <2>8. AnswerInv'
    BY <1>10 DEF CompileFail, Children, Fail, Goto, callVars, slotVars, tierVars, Errors, TypeOK, SlotInv, ReadyInv, AnswerInv, Good, Past
  <2>9. MadeInv'
    <3>1. \E s \in Steps : pc' = [pc EXCEPT ![c] = s]
      BY <1>10 DEF CompileFail, Fail, Goto, Steps
    <3>2. IsFiniteSet({d \in Calls : pc[d] # "unused"})'
      BY <3>1, MadeFinite DEF MadeInv
    <3>3. QED
      BY <1>10, <3>2 DEF CompileFail, Fail, Goto, callVars, slotVars, tierVars, TypeOK, MadeInv
  <2>. QED
    BY <2>1, <2>2, <2>3, <2>4, <2>5, <2>6, <2>7, <2>8, <2>9 DEF Inv
<1>11. ASSUME NEW c \in Calls, Publish(c)
      PROVE  Inv'
  <2>. DEFINE n == Surplus
              all == Append(ready, c)
  <2>a. /\ ready \in Seq(Calls) /\ Len(ready) \in Nat /\ DOMAIN ready = 1..Len(ready)
    BY LenProperties DEF TypeOK
  <2>b. /\ all \in Seq(Calls) /\ Len(all) = Len(ready) + 1
        /\ \A j \in 1..Len(ready) : all[j] = ready[j]
        /\ all[Len(ready) + 1] = c
    BY <2>a, AppendProperties
  <2>c. n \in Nat /\ n <= Len(ready) + 1
    BY <2>a, CapacityAssumption DEF Surplus
  <2>d. ready' = SubSeq(all, n + 1, Len(all))
    BY <1>11 DEF Publish
  <2>. HIDE DEF n, all
  <2>e. /\ ready' \in Seq(Calls)
        /\ Len(ready') = Len(ready) + 1 - n
        /\ \A j \in 1..(Len(ready) + 1 - n) : n + j \in 1..(Len(ready) + 1) /\ ready'[j] = all[n + j]
    BY <2>b, <2>c, <2>d, DropKeeps
  <2>f. DOMAIN ready' = 1..(Len(ready) + 1 - n)
    BY <2>e, LenProperties
  <2>g. ASSUME NEW j \in DOMAIN ready'
        PROVE  \/ n + j \in DOMAIN ready /\ ready'[j] = ready[n + j]
               \/ n + j = Len(ready) + 1 /\ ready'[j] = c
    <3>1. j \in 1..(Len(ready) + 1 - n) /\ n + j \in 1..(Len(ready) + 1) /\ ready'[j] = all[n + j]
      BY <2>e, <2>f
    <3>2. n + j \in 1..Len(ready) \/ n + j = Len(ready) + 1
      BY <3>1, <2>a, <2>c
    <3>3. QED
      BY <3>1, <3>2, <2>a, <2>b
  <2>1. TypeOK'
    <3>1. evicted' \in [Calls -> SUBSET Calls]
      <4>1. \A j \in 1..n : all[j] \in Calls
        BY <2>a, <2>b, <2>c, ElementOfSeq
      <4>2. {all[j] : j \in 1..n} \in SUBSET Calls
        BY <4>1
      <4>3. evicted' = [evicted EXCEPT ![c] = {all[j] : j \in 1..n}]
        BY <1>11 DEF Publish, n, all
      <4>4. QED
        BY <4>2, <4>3 DEF TypeOK
    <3>2. stats' \in [{"hits", "misses", "compiles", "evictions"} -> Nat]
      <4>1. stats' = [stats EXCEPT !["evictions"] = @ + n]
        BY <1>11 DEF Publish, Count, n
      <4>2. QED
        BY <4>1, <2>c DEF TypeOK
    <3>3. QED
      BY <1>11, <2>e, <3>1, <3>2
         DEF Publish, Goto, callVars, slotVars, TypeOK, Steps
  <2>2. CallsInv'
    BY <1>11 DEF Publish, Surplus, Goto, Count, callVars, slotVars, TypeOK, CallsInv
  <2>3. BuildingInv'
    BY <1>11, NoneAssumption DEF Publish, Surplus, Goto, Count, callVars, slotVars, TypeOK, CallsInv, BuildingInv, InFlight
  <2>4. UnreadyInv'
    <3>1. ASSUME NEW d \in Calls, InFlight(d)', NEW j \in DOMAIN ready'
          PROVE  key[ready'[j]] # key[d]
      <4>1. InFlight(c) /\ InFlight(d) /\ d # c
        BY <1>11, <3>1 DEF Publish, Goto, InFlight, TypeOK
      <4>2. key[d] # key[c]
        BY <4>1 DEF BuildingInv
      <4>3. QED
        BY <4>1, <4>2, <2>g DEF UnreadyInv
    <3>2. QED
      BY <1>11, <3>1 DEF Publish, callVars, UnreadyInv
  <2>5. SlotInv'
    BY <1>11 DEF Publish, Surplus, Goto, Count, callVars, slotVars, TypeOK, SlotInv, AnswerInv
  <2>6. ReadyInv'
    <3>1. /\ pc[c] = "publish" /\ pc'[c] = "signal" /\ error' = error /\ key' = key
          /\ \A d \in Calls \ {c} : pc'[d] = pc[d]
      BY <1>11 DEF Publish, Goto, callVars, slotVars, TypeOK
    <3>2. InFlight(c) /\ error[c] = "none"
      BY <3>1 DEF SlotInv, InFlight
    <3>3. ASSUME NEW j \in DOMAIN ready'
          PROVE  Good(ready[j])'
      <4>1. PICK b : b = ready'[j]
        OBVIOUS
      <4>2. Good(b) \/ b = c
        BY <4>1, <2>g DEF ReadyInv
      <4>3. QED
        BY <4>1, <4>2, <3>1, <3>2 DEF Good, Past
    <3>4. ASSUME NEW j \in DOMAIN ready', NEW l \in DOMAIN ready', (key[ready[j]] = key[ready[l]])'
          PROVE  j = l
      <4>1. n + j = n + l
        BY <3>1, <3>2, <3>4, <2>g DEF ReadyInv, UnreadyInv
      <4>2. j \in Int /\ l \in Int
        BY <2>f
      <4>3. QED
        BY <4>1, <4>2, <2>c
    <3>5. QED
      BY <3>1, <3>3, <3>4, Zenon DEF ReadyInv
  <2>7. WaitInv'
    BY <1>11, NoneAssumption DEF Publish, Surplus, Goto, Count, callVars, slotVars, TypeOK, CallsInv, BuildingInv, SlotInv, WaitInv, InFlight
  <2>8. AnswerInv'
    BY <1>11 DEF Publish, Surplus, Goto, Count, callVars, slotVars, TypeOK, SlotInv, ReadyInv, AnswerInv, Good, Past
  <2>9. MadeInv'
    <3>1. \E s \in Steps : pc' = [pc EXCEPT ![c] = s]
      BY <1>11 DEF Publish, Goto, Steps
    <3>2. IsFiniteSet({d \in Calls : pc[d] # "unused"})'
      BY <3>1, MadeFinite DEF MadeInv
    <3>3. QED
      BY <1>11, <3>2 DEF Publish, Goto, callVars, slotVars, tierVars, TypeOK, MadeInv
  <2>. QED
    BY <2>1, <2>2, <2>3, <2>4, <2>5, <2>6, <2>7, <2>8, <2>9 DEF Inv
<1>12. ASSUME NEW c \in Calls, Signal(c)
      PROVE  Inv'
  <2>1. TypeOK'
    BY <1>12 DEF Signal, Goto, Return, callVars, slotVars, tierVars, TypeOK, Steps, Errors
  <2>2. CallsInv'
    BY <1>12 DEF Signal, Goto, Return, callVars, slotVars, tierVars, TypeOK, CallsInv
  <2>3. BuildingInv'
    BY <1>12, NoneAssumption DEF Signal, Goto, Return, callVars, slotVars, tierVars, TypeOK, CallsInv, BuildingInv, InFlight
  <2>4. UnreadyInv'
    BY <1>12 DEF Signal, Goto, Return, callVars, slotVars, tierVars, TypeOK, CallsInv, ReadyInv, Good, Past, UnreadyInv, InFlight, Held
  <2>5. SlotInv'
    BY <1>12 DEF Signal, Goto, Return, callVars, slotVars, tierVars, TypeOK, SlotInv, AnswerInv
  <2>6. ReadyInv'
    BY <1>12 DEF Signal, Goto, Return, callVars, slotVars, tierVars, TypeOK, SlotInv, ReadyInv, Good, Past
  <2>7. WaitInv'
    BY <1>12, NoneAssumption DEF Signal, Goto, Return, callVars, slotVars, tierVars, TypeOK, CallsInv, BuildingInv, SlotInv, WaitInv, InFlight
  <2>8. AnswerInv'
    BY <1>12 DEF Signal, Goto, Return, callVars, slotVars, tierVars, TypeOK, SlotInv, ReadyInv, AnswerInv, Good, Past
  <2>9. MadeInv'
    <3>1. \E s \in Steps : pc' = [pc EXCEPT ![c] = s]
      BY <1>12 DEF Signal, Return, Goto, Steps
    <3>2. IsFiniteSet({d \in Calls : pc[d] # "unused"})'
      BY <3>1, MadeFinite DEF MadeInv
    <3>3. QED
      BY <1>12, <3>2 DEF Signal, Return, Goto, callVars, slotVars, tierVars, TypeOK, MadeInv
  <2>. QED
    BY <2>1, <2>2, <2>3, <2>4, <2>5, <2>6, <2>7, <2>8, <2>9 DEF Inv
<1>13. ASSUME NEW c \in Calls, Announce(c)
      PROVE  Inv'
  <2>1. TypeOK'
    BY <1>13 DEF Announce, Goto, Return, Raise, callVars, slotVars, tierVars, TypeOK, Steps, Errors
  <2>2. CallsInv'
    BY <1>13 DEF Announce, Goto, Return, Raise, callVars, slotVars, tierVars, TypeOK, CallsInv
  <2>3. BuildingInv'
    BY <1>13, NoneAssumption DEF Announce, Goto, Return, Raise, callVars, slotVars, tierVars, TypeOK, CallsInv, BuildingInv, InFlight
  <2>4. UnreadyInv'
    BY <1>13 DEF Announce, Goto, Return, Raise, callVars, slotVars, tierVars, TypeOK, CallsInv, ReadyInv, Good, Past, UnreadyInv, InFlight, Held
  <2>5. SlotInv'
    BY <1>13 DEF Announce, Goto, Return, Raise, callVars, slotVars, tierVars, TypeOK, SlotInv, AnswerInv
  <2>6. ReadyInv'
    BY <1>13 DEF Announce, Goto, Return, Raise, callVars, slotVars, tierVars, TypeOK, SlotInv, ReadyInv, Good, Past
  <2>7. WaitInv'
    BY <1>13, NoneAssumption DEF Announce, Goto, Return, Raise, callVars, slotVars, tierVars, TypeOK, CallsInv, BuildingInv, SlotInv, WaitInv, InFlight
  <2>8. AnswerInv'
    <3>1. /\ pc[c] = "announce" /\ \A d \in Calls \ {c} : pc'[d] = pc[d] /\ answer'[d] = answer[d] /\ err'[d] = err[d]
          /\ UNCHANGED <<key, error>>
      BY <1>13 DEF Announce, Goto, Return, Raise, callVars, slotVars, TypeOK
    <3>2. \/ pc'[c] = "raised" /\ err'[c] # "none"
          \/ pc'[c] = "returned" /\ answer'[c] = c
      BY <1>13 DEF Announce, Goto, Return, Raise, TypeOK
    <3>3. Good(c) /\ Good(c)'
      BY <3>1, <3>2 DEF SlotInv, Good, Past
    <3>4. \A b : Good(b) => Good(b)'
      BY <3>1, <3>3 DEF Good, Past
    <3>5. QED
      BY <3>1, <3>2, <3>3, <3>4 DEF AnswerInv
  <2>9. MadeInv'
    <3>1. \E s \in Steps : pc' = [pc EXCEPT ![c] = s]
      BY <1>13 DEF Announce, Return, Raise, Goto, Steps
    <3>2. IsFiniteSet({d \in Calls : pc[d] # "unused"})'
      BY <3>1, MadeFinite DEF MadeInv
    <3>3. pc[c] = "announce" /\ pc'[c] \in {"returned", "raised"} /\ \A d \in Calls \ {c} : pc'[d] = pc[d]
      BY <1>13 DEF Announce, Return, Raise, Goto, TypeOK
    <3>4. UNCHANGED <<key, evicted>>
      BY <1>13 DEF Announce, callVars
    <3>5. \A d \in Calls : pc'[d] = "unused" => key'[d] = None
      BY <3>3, <3>4 DEF MadeInv
    <3>6. \A d \in Calls : pc'[d] = "announce" => evicted'[d] # {}
      BY <3>3, <3>4 DEF MadeInv
    <3>7. QED
      BY <3>2, <3>5, <3>6, Zenon DEF MadeInv
  <2>. QED
    BY <2>1, <2>2, <2>3, <2>4, <2>5, <2>6, <2>7, <2>8, <2>9 DEF Inv
<1>14. ASSUME NEW c \in Calls, Abort(c)
      PROVE  Inv'
  <2>1. TypeOK'
    BY <1>14 DEF Abort, Goto, callVars, slotVars, TypeOK, Steps, Errors
  <2>2. CallsInv'
    BY <1>14 DEF Abort, Goto, callVars, slotVars, TypeOK, CallsInv
  <2>3. BuildingInv'
    BY <1>14, NoneAssumption DEF Abort, Goto, callVars, slotVars, TypeOK, CallsInv, BuildingInv, InFlight
  <2>4. UnreadyInv'
    BY <1>14 DEF Abort, Goto, callVars, slotVars, TypeOK, CallsInv, ReadyInv, Good, Past, UnreadyInv, InFlight, Held
  <2>5. SlotInv'
    BY <1>14 DEF Abort, Goto, callVars, slotVars, TypeOK, SlotInv, AnswerInv
  <2>6. ReadyInv'
    BY <1>14 DEF Abort, Goto, callVars, slotVars, TypeOK, SlotInv, ReadyInv, Good, Past
  <2>7. WaitInv'
    BY <1>14, NoneAssumption DEF Abort, Goto, callVars, slotVars, TypeOK, CallsInv, BuildingInv, SlotInv, WaitInv, InFlight
  <2>8. AnswerInv'
    BY <1>14 DEF Abort, Goto, callVars, slotVars, TypeOK, SlotInv, ReadyInv, AnswerInv, Good, Past
  <2>9. MadeInv'
    <3>1. \E s \in Steps : pc' = [pc EXCEPT ![c] = s]
      BY <1>14 DEF Abort, Goto, Steps
    <3>2. IsFiniteSet({d \in Calls : pc[d] # "unused"})'
      BY <3>1, MadeFinite DEF MadeInv
    <3>3. QED
      BY <1>14, <3>2 DEF Abort, Goto, callVars, slotVars, tierVars, TypeOK, MadeInv
  <2>. QED
    BY <2>1, <2>2, <2>3, <2>4, <2>5, <2>6, <2>7, <2>8, <2>9 DEF Inv
<1>15. ASSUME NEW c \in Calls, Release(c)
      PROVE  Inv'
  <2>1. TypeOK'
    BY <1>15 DEF Release, Goto, Raise, callVars, slotVars, tierVars, TypeOK, Steps, Errors
  <2>2. CallsInv'
    BY <1>15 DEF Release, Goto, Raise, callVars, slotVars, tierVars, TypeOK, CallsInv
  <2>3. BuildingInv'
    BY <1>15, NoneAssumption DEF Release, Goto, Raise, callVars, slotVars, tierVars, TypeOK, CallsInv, BuildingInv, InFlight
  <2>4. UnreadyInv'
    BY <1>15 DEF Release, Goto, Raise, callVars, slotVars, tierVars, TypeOK, CallsInv, ReadyInv, Good, Past, UnreadyInv, InFlight, Held
  <2>5. SlotInv'
    BY <1>15 DEF Release, Goto, Raise, callVars, slotVars, tierVars, TypeOK, SlotInv, AnswerInv
  <2>6. ReadyInv'
    BY <1>15 DEF Release, Goto, Raise, callVars, slotVars, tierVars, TypeOK, SlotInv, ReadyInv, Good, Past
  <2>7. WaitInv'
    BY <1>15, NoneAssumption DEF Release, Goto, Raise, callVars, slotVars, tierVars, TypeOK, CallsInv, BuildingInv, SlotInv, WaitInv, InFlight
  <2>8. AnswerInv'
    BY <1>15 DEF Release, Goto, Raise, callVars, slotVars, tierVars, TypeOK, SlotInv, ReadyInv, AnswerInv, Good, Past
  <2>9. MadeInv'
    <3>1. \E s \in Steps : pc' = [pc EXCEPT ![c] = s]
      BY <1>15 DEF Release, Raise, Goto, Steps
    <3>2. IsFiniteSet({d \in Calls : pc[d] # "unused"})'
      BY <3>1, MadeFinite DEF MadeInv
    <3>3. QED
      BY <1>15, <3>2 DEF Release, Raise, Goto, callVars, slotVars, tierVars, TypeOK, MadeInv
  <2>. QED
    BY <2>1, <2>2, <2>3, <2>4, <2>5, <2>6, <2>7, <2>8, <2>9 DEF Inv
<1>16. ASSUME UNCHANGED vars
      PROVE  Inv'
  <2>1. TypeOK'
    BY <1>16 DEF vars, slotVars, callVars, tierVars, TypeOK, Steps, Errors
  <2>2. CallsInv'
    BY <1>16 DEF vars, slotVars, callVars, tierVars, TypeOK, CallsInv
  <2>3. BuildingInv'
    BY <1>16, NoneAssumption DEF vars, slotVars, callVars, tierVars, TypeOK, CallsInv, BuildingInv, InFlight
  <2>4. UnreadyInv'
    BY <1>16 DEF vars, slotVars, callVars, tierVars, TypeOK, CallsInv, ReadyInv, Good, Past, UnreadyInv, InFlight, Held
  <2>5. SlotInv'
    BY <1>16 DEF vars, slotVars, callVars, tierVars, TypeOK, SlotInv, AnswerInv
  <2>6. ReadyInv'
    BY <1>16 DEF vars, slotVars, callVars, tierVars, TypeOK, SlotInv, ReadyInv, Good, Past
  <2>7. WaitInv'
    BY <1>16, NoneAssumption DEF vars, slotVars, callVars, tierVars, TypeOK, CallsInv, BuildingInv, SlotInv, WaitInv, InFlight
  <2>8. AnswerInv'
    BY <1>16 DEF vars, slotVars, callVars, tierVars, TypeOK, SlotInv, ReadyInv, AnswerInv, Good, Past
  <2>9. MadeInv'
    BY <1>16 DEF vars, callVars, slotVars, tierVars, MadeInv
  <2>. QED
    BY <2>1, <2>2, <2>3, <2>4, <2>5, <2>6, <2>7, <2>8, <2>9 DEF Inv
<1>17. QED
  BY <1>1, <1>2, <1>3, <1>4, <1>5, <1>6, <1>7, <1>8, <1>9, <1>10, <1>11, <1>12, <1>13, <1>14, <1>15, <1>16 DEF Next, Step, Terminated

\* No call has been made and nothing is cached.
LEMMA InitInv == Init => Inv
<1> SUFFICES ASSUME Init PROVE Inv
  OBVIOUS
<1>1. TypeOK
  BY DEF Init, TypeOK, Steps
<1>2. CallsInv /\ BuildingInv /\ UnreadyInv /\ SlotInv /\ ReadyInv /\ WaitInv /\ AnswerInv
  BY DEF Init, CallsInv, BuildingInv, UnreadyInv, SlotInv, ReadyInv, WaitInv, AnswerInv, InFlight
<1>3. MadeInv
  <2>1. {c \in Calls : pc[c] # "unused"} = {}
    BY DEF Init
  <2>2. QED
    BY <2>1, FS_EmptySet DEF Init, MadeInv
<1>4. QED
  BY <1>1, <1>2, <1>3 DEF Inv

\* The inductive invariant holds of every behaviour: the state that the lock of
\* a tier protects is consistent whatever the threads do.
THEOREM InvHolds == Spec => []Inv
<1>1. Init => Inv
  BY InitInv
<1>2. Inv /\ [Next]_vars => Inv'
  BY StepInv
<1>3. QED
  BY <1>1, <1>2, PTL DEF Spec

\* Type correctness of the tier, for every set of calls, threads and keys.
THEOREM TypeCorrect == Spec => []TypeOK
<1>1. Inv => TypeOK
  BY DEF Inv
<1>2. QED
  BY <1>1, InvHolds, PTL

\* Concurrent misses of get_or_compile compile once: at most one build of a key
\* is in flight, and none of a key that is ready.
THEOREM BuildsAreSingle == Spec => []SingleFlight
<1>1. Inv => SingleFlight
  <2> SUFFICES ASSUME Inv, NEW c \in Calls, InFlight(c)
               PROVE  /\ key[c] \notin Held(ready)
                      /\ \A d \in Calls : InFlight(d) /\ key[d] = key[c] => d = c
    BY DEF SingleFlight
  <2>1. key[c] \notin Held(ready)
    BY DEF Inv, UnreadyInv, Held
  <2>2. ASSUME NEW d \in Calls, InFlight(d), key[d] = key[c] PROVE d = c
    BY <2>2 DEF Inv, BuildingInv
  <2>3. QED
    BY <2>1, <2>2
<1>2. QED
  BY <1>1, InvHolds, PTL

\* _ready has one entry for a key, and every entry is a build that did not fail.
THEOREM EntriesAreUnique == Spec => []OneEntryPerKey
<1>1. Inv => OneEntryPerKey
  BY DEF Inv, ReadyInv, Good, Past, OneEntryPerKey
<1>2. QED
  BY <1>1, InvHolds, PTL

\* Whatever get_or_compile returns was built for the caller's key, by a build
\* that did not fail.
THEOREM AnswersAreRight == Spec => []ServedOwnKey
<1>1. Inv => ServedOwnKey
  BY NoneAssumption DEF Inv, AnswerInv, Good, ServedOwnKey
<1>2. QED
  BY <1>1, InvHolds, PTL

\* A waiter always has a build ahead of it that will set its event: no path
\* through a failing or forbidden build leaves slot.event unset.
THEOREM WaitersAreLetGo == Spec => []NoStrandedWaiter
<1>1. Inv => NoStrandedWaiter
  BY DEF Inv, WaitInv, NoStrandedWaiter
<1>2. QED
  BY <1>1, InvHolds, PTL

\* What a caller of get_or_compile may rely on, all of it together.
THEOREM TierIsSafe == Spec => []Safety
  BY BuildsAreSingle, EntriesAreUnique, AnswersAreRight, WaitersAreLetGo, PTL DEF Safety

-----------------------------------------------------------------------------
(* Whose steps they are, and how many                                      *)

\* A step of c leaves what belongs to the other calls alone.
Moves(c) ==
  /\ pc' = [pc EXCEPT ![c] = pc'[c]]
  /\ \A d \in Calls \ {c} :
       /\ pc'[d] = pc[d] /\ target'[d] = target[d] /\ forbid'[d] = forbid[d]
       /\ answer'[d] = answer[d] /\ err'[d] = err[d]
       /\ error'[d] = error[d] /\ evicted'[d] = evicted[d]

\* A call that is made is new to everybody.
LEMMA EnterMoves ==
  ASSUME Inv, NEW c \in Calls, NEW t, NEW p, NEW k, NEW F, Enter(c, t, p, k, F)
  PROVE  Moves(c) /\ pc[c] = "unused" /\ pc'[c] = "lookup"
  BY DEF Inv, TypeOK, Enter, Goto, slotVars, tierVars, Moves

\* Every step of get_or_compile is one call's.
LEMMA StepMoves ==
  ASSUME Inv, NEW c \in Calls, Step(c)
  PROVE  Moves(c)
<1>. TypeOK
  BY DEF Inv
<1>1. CASE Hit(c)
  BY <1>1 DEF Hit, Goto, Return, callVars, slotVars, TypeOK, Moves
<1>2. CASE Lead(c)
  BY <1>2 DEF Lead, Goto, callVars, slotVars, TypeOK, Moves
<1>3. CASE Join(c)
  BY <1>3 DEF Join, Goto, callVars, slotVars, TypeOK, Moves
<1>4. CASE Reenter(c)
  BY <1>4 DEF Reenter, Goto, Raise, callVars, slotVars, TypeOK, Moves
<1>5. CASE Wake(c)
  BY <1>5 DEF Wake, Goto, Return, Raise, callVars, slotVars, TypeOK, Moves
<1>6. CASE Miss(c)
  BY <1>6 DEF Miss, Goto, Fail, callVars, TypeOK, Moves
<1>7. CASE CompileOk(c)
  BY <1>7 DEF CompileOk, Goto, callVars, slotVars, TypeOK, Moves
<1>8. CASE CompileFail(c)
  BY <1>8 DEF CompileFail, Goto, Fail, callVars, TypeOK, Moves
<1>9. CASE Publish(c)
  BY <1>9 DEF Publish, Goto, callVars, slotVars, TypeOK, Moves
<1>10. CASE Signal(c)
  BY <1>10 DEF Signal, Goto, Return, callVars, TypeOK, Moves
<1>11. CASE Announce(c)
  BY <1>11 DEF Announce, Goto, Return, Raise, callVars, slotVars, TypeOK, Moves
<1>12. CASE Abort(c)
  BY <1>12 DEF Abort, Goto, callVars, slotVars, TypeOK, Moves
<1>13. CASE Release(c)
  BY <1>13 DEF Release, Goto, Raise, callVars, TypeOK, Moves
<1>14. QED
  BY <1>1, <1>2, <1>3, <1>4, <1>5, <1>6, <1>7, <1>8, <1>9, <1>10, <1>11, <1>12, <1>13 DEF Step

\* What a publication leaves ready: all but the first entries, in their order.
LEMMA PublishedReady ==
  ASSUME Inv, NEW c \in Calls, Publish(c)
  PROVE  /\ Len(ready) \in Nat /\ Surplus \in 0..(Len(ready) + 1)
         /\ ready' \in Seq(Calls) /\ Len(ready') = Len(ready) + 1 - Surplus
         /\ \A j \in 1..(Len(ready) + 1 - Surplus) :
              /\ Surplus + j \in 1..(Len(ready) + 1)
              /\ ready'[j] = Append(ready, c)[Surplus + j]
<1>1. ready \in Seq(Calls) /\ Len(ready) \in Nat
  BY LenProperties DEF Inv, TypeOK
<1>2. Append(ready, c) \in Seq(Calls) /\ Len(Append(ready, c)) = Len(ready) + 1
  BY <1>1, AppendProperties
<1>3. Surplus \in Nat /\ Surplus <= Len(ready) + 1
  BY <1>1, CapacityAssumption DEF Surplus
<1>4. ready' = SubSeq(Append(ready, c), Surplus + 1, Len(Append(ready, c)))
  BY DEF Publish
<1>5. PICK s, n : s = Append(ready, c) /\ n = Surplus
  OBVIOUS
<1>6. /\ ready' \in Seq(Calls) /\ Len(ready') = Len(s) - n
      /\ \A j \in 1..(Len(s) - n) : n + j \in 1..Len(s) /\ ready'[j] = s[n + j]
  <2>1. s \in Seq(Calls) /\ n \in Nat /\ n <= Len(s) /\ ready' = SubSeq(s, n + 1, Len(s))
    BY <1>2, <1>3, <1>4, <1>5
  <2>2. QED
    BY <2>1, DropKeeps
<1>7. QED
  BY <1>1, <1>2, <1>3, <1>5, <1>6

\* A set of calls picked by where they are gains or loses the call that moves.
LEMMA OneMore ==
  ASSUME NEW S, IsFiniteSet(S), NEW c, c \notin S
  PROVE  Cardinality(S \cup {c}) = Cardinality(S) + 1
  BY FS_AddElement

LEMMA OneLess ==
  ASSUME NEW S, IsFiniteSet(S), NEW c, c \in S
  PROVE  Cardinality(S \ {c}) = Cardinality(S) - 1
  BY FS_RemoveElement

\* Few calls are under way or about to publish: they have been made.
LEMMA FewUnderway ==
  ASSUME Inv
  PROVE  /\ IsFiniteSet(Underway) /\ Cardinality(Underway) \in Nat
         /\ IsFiniteSet({c \in Calls : pc[c] = "publish"})
         /\ Cardinality({c \in Calls : pc[c] = "publish"}) \in Nat
<1>1. IsFiniteSet({c \in Calls : pc[c] # "unused"})
  BY DEF Inv, MadeInv
<1>2. Underway \subseteq {c \in Calls : pc[c] # "unused"}
  BY DEF Underway, InFlight
<1>3. {c \in Calls : pc[c] = "publish"} \subseteq {c \in Calls : pc[c] # "unused"}
  OBVIOUS
<1>4. QED
  BY <1>1, <1>2, <1>3, FS_Subset, FS_CardinalityType
-----------------------------------------------------------------------------
(* The counters                                                            *)

Publishing == {c \in Calls : pc[c] = "publish"}

\* The builds that are ready, went, or are about to be published.
Booked == Len(ready) + stats.evictions + Cardinality(Publishing)

\* A step leaves what is counted and not booked as it is, and the capacity kept.
BooksKept ==
  /\ stats'.compiles - Booked' = stats.compiles - Booked
  /\ Len(ready) <= Capacity => Len(ready') <= Capacity

LEMMA BooksType ==
  ASSUME Inv
  PROVE  /\ Len(ready) \in Nat /\ stats.compiles \in Nat /\ stats.evictions \in Nat
         /\ Cardinality(Publishing) \in Nat /\ Booked \in Nat
  BY LenProperties, FewUnderway DEF Inv, TypeOK, Publishing, Booked

LEMMA BooksNext ==
  ASSUME Inv'
  PROVE  /\ Len(ready') \in Nat /\ stats'.compiles \in Nat /\ stats'.evictions \in Nat
         /\ Cardinality(Publishing') \in Nat /\ Booked' \in Nat
<1>1. Len(ready') \in Nat /\ stats'.compiles \in Nat /\ stats'.evictions \in Nat
  BY LenProperties DEF Inv, TypeOK
<1>2. IsFiniteSet({c \in Calls : pc'[c] # "unused"})
  BY DEF Inv, MadeInv
<1>3. Publishing' \subseteq {c \in Calls : pc'[c] # "unused"}
  BY DEF Publishing
<1>4. Cardinality(Publishing') \in Nat
  BY <1>2, <1>3, FS_Subset, FS_CardinalityType
<1>5. QED
  BY <1>1, <1>4 DEF Booked

\* A step that neither builds, publishes nor evicts leaves the sum alone.
LEMMA BooksFrame ==
  ASSUME NEW c \in Calls, Moves(c),
         pc[c] # "publish", pc'[c] # "publish", Len(ready') = Len(ready),
         stats'.compiles = stats.compiles, stats'.evictions = stats.evictions
  PROVE  BooksKept
<1>1. Publishing' = Publishing
  BY DEF Moves, Publishing
<1>2. QED
  BY <1>1 DEF BooksKept, Booked

\* Every step of a tier keeps the counters in step with its entries.
LEMMA BooksStep == Inv /\ [Next]_vars => BooksKept
<1> SUFFICES ASSUME Inv, [Next]_vars PROVE BooksKept
  OBVIOUS
<1>. TypeOK
  BY DEF Inv
<1>1. ASSUME NEW c \in Calls, NEW t, NEW p, NEW k, NEW F, Enter(c, t, p, k, F)
      PROVE  BooksKept
  BY <1>1, EnterMoves, BooksFrame DEF Enter, tierVars
<1>2. ASSUME NEW c \in Calls, Hit(c) PROVE BooksKept
  <2>1. PICK i \in DOMAIN ready : ready' = Append(RemoveAt(ready, i), ready[i]) /\ pc' = [pc EXCEPT ![c] = "returned"]
    BY <1>2 DEF Hit, Return, Goto
  <2>2. Len(ready') = Len(ready)
    BY <2>1, TouchReady DEF TypeOK
  <2>3. pc[c] = "lookup" /\ pc'[c] = "returned" /\ stats'.compiles = stats.compiles /\ stats'.evictions = stats.evictions
    BY <1>2, <2>1 DEF Hit, Count, TypeOK
  <2>4. Moves(c)
    BY <1>2, StepMoves DEF Step
  <2>5. QED
    BY <2>2, <2>3, <2>4, BooksFrame
<1>3. ASSUME NEW c \in Calls, Lead(c) \/ Join(c) \/ Reenter(c) \/ Wake(c) \/ CompileFail(c) \/ Signal(c)
                              \/ Announce(c) \/ Abort(c) \/ Release(c)
      PROVE  BooksKept
  <2>1. Moves(c)
    BY <1>3, StepMoves DEF Step
  <2>2. ready' = ready /\ stats' = stats
    BY <1>3 DEF Lead, Join, Reenter, Wake, CompileFail, Signal, Announce, Abort, Release, tierVars
  <2>3. pc[c] # "publish"
    BY <1>3 DEF Lead, Join, Reenter, Wake, CompileFail, Signal, Announce, Abort, Release
  <2>4. pc'[c] # "publish"
    BY <1>3 DEF Lead, Join, Reenter, Wake, CompileFail, Signal, Announce, Abort, Release,
                Goto, Return, Raise, Fail, TypeOK
  <2>5. QED
    BY <2>1, <2>2, <2>3, <2>4, BooksFrame
<1>4. ASSUME NEW c \in Calls, Miss(c) PROVE BooksKept
  <2>1. Moves(c)
    BY <1>4, StepMoves DEF Step
  <2>2. /\ ready' = ready /\ pc[c] = "miss" /\ pc'[c] \in {"abort", "compile"}
        /\ stats'.compiles = stats.compiles /\ stats'.evictions = stats.evictions
    BY <1>4 DEF Miss, Fail, Goto, Count, TypeOK
  <2>3. QED
    BY <2>1, <2>2, BooksFrame
<1>5. ASSUME NEW c \in Calls, CompileOk(c) PROVE BooksKept
  <2>1. /\ ready' = ready /\ pc[c] = "compile" /\ pc'[c] = "publish" /\ Moves(c)
        /\ stats'.compiles = stats.compiles + 1 /\ stats'.evictions = stats.evictions
    BY <1>5, StepMoves DEF CompileOk, Goto, Count, TypeOK, Step
  <2>2. Publishing' = Publishing \cup {c} /\ c \notin Publishing
    BY <2>1 DEF Moves, Publishing
  <2>3. Cardinality(Publishing') = Cardinality(Publishing) + 1
    BY <2>2, FewUnderway, OneMore DEF Publishing
  <2>4. PICK l, e, n, m : l = Len(ready) /\ e = stats.evictions /\ n = Cardinality(Publishing) /\ m = stats.compiles
    OBVIOUS
  <2>5. l \in Nat /\ e \in Nat /\ n \in Nat /\ m \in Nat
    BY <2>4, BooksType
  <2>6. Booked = l + e + n /\ Booked' = l + e + (n + 1) /\ stats'.compiles = m + 1
    BY <2>1, <2>3, <2>4 DEF Booked
  <2>7. stats'.compiles - Booked' = stats.compiles - Booked
    <3>1. (m + 1) - (l + e + (n + 1)) = m - (l + e + n)
      BY <2>5
    <3>2. QED
      BY <2>4, <2>6, <3>1
  <2>8. Len(ready) <= Capacity => Len(ready') <= Capacity
    BY <2>1
  <2>9. QED
    BY <2>7, <2>8 DEF BooksKept
<1>6. ASSUME NEW c \in Calls, Publish(c) PROVE BooksKept
  <2>1. /\ pc[c] = "publish" /\ pc'[c] = "signal" /\ Moves(c)
        /\ stats'.compiles = stats.compiles /\ stats'.evictions = stats.evictions + Surplus
    BY <1>6, StepMoves DEF Publish, Goto, Count, TypeOK, Step
  <2>2. Publishing' = Publishing \ {c} /\ c \in Publishing
    BY <2>1 DEF Moves, Publishing
  <2>3. Cardinality(Publishing') = Cardinality(Publishing) - 1
    BY <2>2, FewUnderway, OneLess DEF Publishing
  <2>4. Len(ready') = Len(ready) + 1 - Surplus
    BY <1>6, PublishedReady
  <2>5. Surplus \in Nat /\ Len(ready) + 1 - Surplus <= Capacity
    BY BooksType, CapacityAssumption DEF Surplus
  <2>6. Booked' = Booked
    <3>1. PICK l, e, n, m : l = Len(ready) /\ e = stats.evictions /\ n = Cardinality(Publishing) /\ m = Surplus
      OBVIOUS
    <3>2. l \in Nat /\ e \in Nat /\ n \in Nat /\ m \in Nat
      BY <2>5, <3>1, BooksType
    <3>3. Booked = l + e + n /\ Booked' = (l + 1 - m) + (e + m) + (n - 1)
      BY <2>1, <2>3, <2>4, <3>1 DEF Booked
    <3>4. QED
      BY <3>2, <3>3
  <2>7. QED
    BY <2>1, <2>4, <2>5, <2>6 DEF BooksKept
<1>7. CASE UNCHANGED vars
  BY <1>7 DEF vars, BooksKept, Booked, Publishing
<1>8. QED
  BY <1>1, <1>2, <1>3, <1>4, <1>5, <1>6, <1>7 DEF Next, Step, Call, CallNested, Terminated

\* The calls that were hits, those whose build failed, and those that build.
Served == {c \in Calls : pc[c] = "returned" /\ answer[c] # c /\ target[c] = None}
Failing == {c \in Calls : error[c] # "none"}
Compiling == {c \in Calls : pc[c] = "compile"}

\* A call has a build to wait for when it joined one.
Untargeted == \A c \in Calls : pc[c] \notin {"wait", "returned", "raised"} => target[c] = None

\* A step leaves what is counted as a hit, and as a miss, in step with the calls.
TallyKept ==
  /\ stats'.hits - Cardinality(Served') = stats.hits - Cardinality(Served)
  /\ stats'.misses - (stats'.compiles + Cardinality(Failing') + Cardinality(Compiling'))
       = stats.misses - (stats.compiles + Cardinality(Failing) + Cardinality(Compiling))

\* Few calls were hits, failed or build: they have been made.
LEMMA FewTallied ==
  ASSUME Inv
  PROVE  /\ IsFiniteSet(Served) /\ IsFiniteSet(Failing) /\ IsFiniteSet(Compiling)
         /\ Cardinality(Served) \in Nat /\ Cardinality(Failing) \in Nat /\ Cardinality(Compiling) \in Nat
<1>1. IsFiniteSet({c \in Calls : pc[c] # "unused"})
  BY DEF Inv, MadeInv
<1>2. Failing \subseteq {c \in Calls : pc[c] # "unused"}
  BY DEF Failing, Inv, SlotInv
<1>3. Served \subseteq {c \in Calls : pc[c] # "unused"} /\ Compiling \subseteq {c \in Calls : pc[c] # "unused"}
  BY DEF Served, Compiling
<1>4. QED
  BY <1>1, <1>2, <1>3, FS_Subset, FS_CardinalityType

\* The same of the next state.
LEMMA FewTalliedNext ==
  ASSUME Inv'
  PROVE  Cardinality(Served') \in Nat /\ Cardinality(Failing') \in Nat /\ Cardinality(Compiling') \in Nat
<1>1. IsFiniteSet({c \in Calls : pc'[c] # "unused"})
  BY DEF Inv, MadeInv
<1>2. Failing' \subseteq {c \in Calls : pc'[c] # "unused"}
  BY DEF Failing, Inv, SlotInv
<1>3. Served' \subseteq {c \in Calls : pc'[c] # "unused"} /\ Compiling' \subseteq {c \in Calls : pc'[c] # "unused"}
  BY DEF Served, Compiling
<1>4. QED
  BY <1>1, <1>2, <1>3, FS_Subset, FS_CardinalityType

\* A step that is no hit, no miss and no end of a build leaves the tally alone.
LEMMA TallyFrame ==
  ASSUME NEW c \in Calls, Moves(c), pc[c] # "returned",
         pc'[c] = "returned" => answer'[c] = c \/ target'[c] # None,
         error'[c] = error[c], pc[c] # "compile", pc'[c] # "compile",
         stats'.hits = stats.hits, stats'.misses = stats.misses, stats'.compiles = stats.compiles
  PROVE  TallyKept
<1>1. Served' = Served /\ Failing' = Failing /\ Compiling' = Compiling
  BY DEF Moves, Served, Failing, Compiling
<1>2. QED
  BY <1>1 DEF TallyKept

\* Hits, misses and failures are counted as they happen.
LEMMA TallyStep == Inv /\ Untargeted /\ [Next]_vars => TallyKept
<1> SUFFICES ASSUME Inv, Untargeted, [Next]_vars PROVE TallyKept
  OBVIOUS
<1>. TypeOK
  BY DEF Inv
<1>1. ASSUME NEW c \in Calls, NEW t, NEW p, NEW k, NEW F, Enter(c, t, p, k, F)
      PROVE  TallyKept
  BY <1>1, EnterMoves, TallyFrame DEF Enter, tierVars, slotVars
<1>2. PICK h, n, f, m : h = Cardinality(Served) /\ f = Cardinality(Failing) /\ m = Cardinality(Compiling) /\ n = stats
  OBVIOUS
<1>3. h \in Nat /\ f \in Nat /\ m \in Nat /\ n.hits \in Nat /\ n.misses \in Nat /\ n.compiles \in Nat
  BY <1>2, FewTallied DEF TypeOK
<1>4. ASSUME NEW c \in Calls, Hit(c) PROVE TallyKept
  <2>1. PICK i \in DOMAIN ready : pc'[c] = "returned" /\ answer'[c] = ready[i]
    BY <1>4 DEF Hit, Return, Goto, TypeOK
  <2>2. pc[c] = "lookup" /\ target'[c] = None /\ error' = error
    BY <1>4 DEF Hit, slotVars, Untargeted
  <2>3. ready[i] # c
    BY <2>2 DEF Inv, ReadyInv, Good, Past
  <2>4. Moves(c)
    BY <1>4, StepMoves DEF Step
  <2>5. Served' = Served \cup {c} /\ c \notin Served /\ Failing' = Failing /\ Compiling' = Compiling
    BY <2>1, <2>2, <2>3, <2>4 DEF Moves, Served, Failing, Compiling
  <2>6. Cardinality(Served') = h + 1
    BY <1>2, <2>5, FewTallied, OneMore
  <2>7. stats'.hits = n.hits + 1 /\ stats'.misses = n.misses /\ stats'.compiles = n.compiles
    BY <1>2, <1>4 DEF Hit, Count, TypeOK
  <2>8. (n.hits + 1) - (h + 1) = n.hits - h
    BY <1>3
  <2>9. QED
    BY <1>2, <2>5, <2>6, <2>7, <2>8 DEF TallyKept
<1>5. ASSUME NEW c \in Calls, Lead(c) \/ Join(c) \/ Reenter(c) \/ Abort(c) \/ Release(c) PROVE TallyKept
  <2>1. Moves(c)
    BY <1>5, StepMoves DEF Step
  <2>2. stats' = stats /\ error' = error
    BY <1>5 DEF Lead, Join, Reenter, Abort, Release, tierVars, slotVars
  <2>3. pc[c] \notin {"returned", "compile"}
    BY <1>5 DEF Lead, Join, Reenter, Abort, Release
  <2>4. pc'[c] \notin {"returned", "compile"}
    BY <1>5 DEF Lead, Join, Reenter, Abort, Release, Goto, Raise, TypeOK
  <2>5. QED
    BY <2>1, <2>2, <2>3, <2>4, TallyFrame
<1>6. ASSUME NEW c \in Calls, Signal(c) \/ Announce(c) \/ Wake(c) PROVE TallyKept
  <2>1. Moves(c)
    BY <1>6, StepMoves DEF Step
  <2>2. stats' = stats /\ error' = error
    BY <1>6 DEF Signal, Announce, Wake, tierVars, slotVars
  <2>3. pc[c] \notin {"returned", "compile"}
    BY <1>6 DEF Signal, Announce, Wake
  <2>4. pc'[c] # "compile"
    BY <1>6 DEF Signal, Announce, Wake, Goto, Return, Raise, TypeOK
  <2>5. pc'[c] = "returned" => answer'[c] = c \/ target'[c] # None
    <3>1. CASE Signal(c) \/ Announce(c)
      BY <3>1 DEF Signal, Announce, Goto, Return, Raise, TypeOK
    <3>2. CASE Wake(c)
      <4>1. target' = target /\ target[c] \in Calls
        BY <3>2 DEF Wake, Inv, WaitInv
      <4>2. QED
        BY <4>1, NoneAssumption
    <3>3. QED
      BY <1>6, <3>1, <3>2
  <2>6. QED
    BY <2>1, <2>2, <2>3, <2>4, <2>5, TallyFrame
<1>7. ASSUME NEW c \in Calls, Miss(c) PROVE TallyKept
  <2>1. Moves(c)
    BY <1>7, StepMoves DEF Step
  <2>2. pc[c] = "miss" /\ error[c] = "none"
    BY <1>7 DEF Miss, Inv, SlotInv
  <2>3. stats'.hits = n.hits /\ stats'.misses = n.misses + 1 /\ stats'.compiles = n.compiles
    BY <1>2, <1>7 DEF Miss, Count, TypeOK
  <2>4. CASE Fail(c, "Forbidden")
    <3>1. pc'[c] = "abort" /\ error'[c] = "Forbidden"
      BY <2>4 DEF Fail, Goto, TypeOK
    <3>2. Served' = Served /\ Failing' = Failing \cup {c} /\ c \notin Failing /\ Compiling' = Compiling
      BY <2>1, <2>2, <3>1 DEF Moves, Served, Failing, Compiling
    <3>3. Cardinality(Failing') = f + 1
      BY <1>2, <3>2, FewTallied, OneMore
    <3>4. (n.misses + 1) - (n.compiles + (f + 1) + m) = n.misses - (n.compiles + f + m)
      BY <1>3
    <3>5. QED
      BY <1>2, <2>3, <3>2, <3>3, <3>4 DEF TallyKept
  <2>5. CASE Goto(c, "compile") /\ UNCHANGED error
    <3>1. pc'[c] = "compile" /\ error' = error
      BY <2>5 DEF Goto, TypeOK
    <3>2. Served' = Served /\ Failing' = Failing /\ Compiling' = Compiling \cup {c} /\ c \notin Compiling
      BY <2>1, <2>2, <3>1 DEF Moves, Served, Failing, Compiling
    <3>3. Cardinality(Compiling') = m + 1
      BY <1>2, <3>2, FewTallied, OneMore
    <3>4. (n.misses + 1) - (n.compiles + f + (m + 1)) = n.misses - (n.compiles + f + m)
      BY <1>3
    <3>5. QED
      BY <1>2, <2>3, <3>2, <3>3, <3>4 DEF TallyKept
  <2>6. QED
    BY <1>7, <2>4, <2>5 DEF Miss
<1>8. ASSUME NEW c \in Calls, CompileOk(c) PROVE TallyKept
  <2>1. /\ Moves(c) /\ pc[c] = "compile" /\ pc'[c] = "publish" /\ error' = error
        /\ stats'.hits = n.hits /\ stats'.misses = n.misses /\ stats'.compiles = n.compiles + 1
    BY <1>2, <1>8, StepMoves DEF CompileOk, Goto, Count, TypeOK, Step, slotVars
  <2>2. Served' = Served /\ Failing' = Failing /\ Compiling' = Compiling \ {c} /\ c \in Compiling
    BY <2>1 DEF Moves, Served, Failing, Compiling
  <2>3. Cardinality(Compiling') = m - 1
    BY <1>2, <2>2, FewTallied, OneLess
  <2>4. n.misses - ((n.compiles + 1) + f + (m - 1)) = n.misses - (n.compiles + f + m)
    BY <1>3
  <2>5. QED
    BY <1>2, <2>1, <2>2, <2>3, <2>4 DEF TallyKept
<1>9. ASSUME NEW c \in Calls, CompileFail(c) PROVE TallyKept
  <2>1. Moves(c) /\ pc[c] = "compile" /\ error[c] = "none" /\ stats' = stats
    BY <1>9, StepMoves DEF CompileFail, Step, tierVars, Inv, SlotInv
  <2>2. PICK e : Fail(c, e) /\ e # "none"
    BY <1>9 DEF CompileFail, Inv, AnswerInv, Children
  <2>3. pc'[c] = "abort" /\ error'[c] # "none"
    BY <2>2 DEF Fail, Goto, TypeOK
  <2>4. /\ Served' = Served /\ Failing' = Failing \cup {c} /\ c \notin Failing
        /\ Compiling' = Compiling \ {c} /\ c \in Compiling
    BY <2>1, <2>3 DEF Moves, Served, Failing, Compiling
  <2>5. Cardinality(Failing') = f + 1 /\ Cardinality(Compiling') = m - 1
    BY <1>2, <2>4, FewTallied, OneMore, OneLess
  <2>6. n.misses - (n.compiles + (f + 1) + (m - 1)) = n.misses - (n.compiles + f + m)
    BY <1>3
  <2>7. QED
    BY <1>2, <2>1, <2>4, <2>5, <2>6 DEF TallyKept
<1>10. ASSUME NEW c \in Calls, Publish(c) PROVE TallyKept
  <2>1. /\ Moves(c) /\ pc[c] = "publish" /\ pc'[c] = "signal" /\ error' = error
        /\ stats'.hits = stats.hits /\ stats'.misses = stats.misses /\ stats'.compiles = stats.compiles
    BY <1>10, StepMoves DEF Publish, Goto, Count, TypeOK, Step, slotVars
  <2>2. QED
    BY <2>1, TallyFrame
<1>11. CASE UNCHANGED vars
  BY <1>11 DEF vars, TallyKept, Served, Failing, Compiling
<1>12. QED
  BY <1>1, <1>4, <1>5, <1>6, <1>7, <1>8, <1>9, <1>10, <1>11 DEF Next, Step, Call, CallNested, Terminated

\* A call has nothing to wait for before it joins a build.
LEMMA UntargetedStep == Inv /\ Untargeted /\ [Next]_vars => Untargeted'
<1> SUFFICES ASSUME Inv, Untargeted, [Next]_vars PROVE Untargeted'
  OBVIOUS
<1>. TypeOK
  BY DEF Inv
<1>1. ASSUME NEW c \in Calls, Moves(c), pc[c] \notin {"wait", "returned", "raised"} => target'[c] = target[c] \/ pc'[c] = "wait",
             pc[c] \notin {"returned", "raised"},
             pc[c] = "wait" => pc'[c] \in {"returned", "raised"}
      PROVE  Untargeted'
  BY <1>1 DEF Moves, Untargeted
<1>2. ASSUME NEW c \in Calls, NEW t, NEW p, NEW k, NEW F, Enter(c, t, p, k, F)
      PROVE  Untargeted'
  BY <1>1, <1>2, EnterMoves DEF Enter
<1>3. ASSUME NEW c \in Calls, Step(c) PROVE Untargeted'
  <2>1. Moves(c)
    BY <1>3, StepMoves
  <2>2. pc[c] \notin {"unused", "returned", "raised"}
    BY <1>3 DEF Step, Hit, Lead, Join, Reenter, Wake, Miss, CompileOk, CompileFail, Publish,
                Signal, Announce, Abort, Release
  <2>3. CASE Join(c)
    BY <1>1, <2>1, <2>3 DEF Join, Goto, TypeOK
  <2>4. CASE Wake(c)
    BY <1>1, <2>1, <2>4 DEF Wake, Goto, Return, Raise, TypeOK
  <2>5. CASE ~ Join(c) /\ ~ Wake(c)
    <3>1. target' = target /\ pc[c] # "wait"
      BY <1>3, <2>5 DEF Step, Hit, Lead, Reenter, Miss, CompileOk, CompileFail, Publish,
                        Signal, Announce, Abort, Release
    <3>2. QED
      BY <1>1, <2>1, <2>2, <3>1
  <2>6. QED
    BY <2>3, <2>4, <2>5
<1>4. CASE UNCHANGED vars
  BY <1>4 DEF vars, Untargeted
<1>5. QED
  BY <1>2, <1>3, <1>4 DEF Next, Call, CallNested, Terminated

\* The counters, and what they need to stay exact.
Counted == CountersAddUp /\ Untargeted

LEMMA CountersStep == Inv /\ Counted /\ [Next]_vars => Counted'
<1> SUFFICES ASSUME Inv, Counted, [Next]_vars PROVE Counted'
  OBVIOUS
<1>. CountersAddUp /\ Untargeted
  BY DEF Counted
<1>1. Inv' /\ BooksKept /\ TallyKept /\ Untargeted'
  BY StepInv, BooksStep, TallyStep, UntargetedStep
<1>2. stats.compiles = Booked /\ Len(ready) <= Capacity
  BY DEF CountersAddUp, Booked, Publishing
<1>3. Booked \in Nat
  BY BooksType
<1>4. Booked' \in Nat /\ stats'.compiles \in Nat
  BY <1>1, BooksNext
<1>5. stats'.compiles = Booked' /\ Len(ready') <= Capacity
  BY <1>1, <1>2, <1>3, <1>4 DEF BooksKept
<1>6. stats'.hits = Cardinality(Served')
  <2>1. stats.hits = Cardinality(Served) /\ Cardinality(Served) \in Nat
    BY FewTallied DEF CountersAddUp, Served
  <2>2. stats'.hits \in Nat /\ Cardinality(Served') \in Nat
    BY <1>1, FewTalliedNext DEF Inv, TypeOK
  <2>3. QED
    BY <1>1, <2>1, <2>2 DEF TallyKept
<1>7. stats'.misses = stats'.compiles + Cardinality(Failing') + Cardinality(Compiling')
  <2>1. stats.misses = stats.compiles + Cardinality(Failing) + Cardinality(Compiling)
    BY DEF CountersAddUp, Failing, Compiling
  <2>2. stats.compiles \in Nat /\ Cardinality(Failing) \in Nat /\ Cardinality(Compiling) \in Nat
    BY FewTallied, BooksType
  <2>3. stats'.misses \in Nat /\ Cardinality(Failing') \in Nat /\ Cardinality(Compiling') \in Nat
    BY <1>1, FewTalliedNext DEF Inv, TypeOK
  <2>4. PICK x, y : x = stats.compiles + Cardinality(Failing) + Cardinality(Compiling)
                    /\ y = stats'.compiles + Cardinality(Failing') + Cardinality(Compiling')
    OBVIOUS
  <2>5. x \in Nat /\ y \in Nat
    BY <1>4, <2>2, <2>3, <2>4
  <2>6. stats'.misses - y = x - x
    BY <1>1, <2>1, <2>4 DEF TallyKept
  <2>7. QED
    BY <2>3, <2>4, <2>5, <2>6
<1>8. QED
  BY <1>1, <1>5, <1>6, <1>7 DEF Counted, CountersAddUp, Booked, Publishing, Served, Failing, Compiling

LEMMA InitCounters == Init => Counted
<1> SUFFICES ASSUME Init PROVE Counted
  OBVIOUS
<1>1. Publishing = {} /\ Served = {} /\ Failing = {} /\ Compiling = {}
  BY DEF Init, Publishing, Served, Failing, Compiling
<1>2. /\ Cardinality(Publishing) = 0 /\ Cardinality(Served) = 0
      /\ Cardinality(Failing) = 0 /\ Cardinality(Compiling) = 0
  BY <1>1, FS_EmptySet
<1>3. Len(ready) = 0 /\ stats.compiles = 0 /\ stats.evictions = 0 /\ stats.hits = 0 /\ stats.misses = 0
  BY DEF Init
<1>4. CountersAddUp
  BY <1>2, <1>3, CapacityAssumption DEF CountersAddUp, Publishing, Served, Failing, Compiling
<1>5. Untargeted
  <2>1. target = [c \in Calls |-> None]
    BY DEF Init
  <2>2. QED
    BY <2>1 DEF Untargeted
<1>6. QED
  BY <1>4, <1>5 DEF Counted

\* The counters of a tier are exact at every step: a hit was answered without
\* building or waiting; a miss was built, failed, or is being built; what was
\* built is ready, was evicted, or is about to be published; and a tier never
\* holds more than its capacity.
THEOREM CountersAreExact == Spec => []CountersAddUp
<1>1. Init => Counted
  BY InitCounters
<1>2. Inv /\ Counted /\ [Next]_vars => Counted'
  BY CountersStep
<1>3. Counted => CountersAddUp
  BY DEF Counted
<1>4. QED
  BY <1>1, <1>2, <1>3, InvHolds, PTL DEF Spec
-----------------------------------------------------------------------------
(* The refinement                                                          *)

\* Who waits for the build of c.
Waiters(c) == {d \in Calls : pc[d] = "wait" /\ target[d] = c}

\* What a call has been given changes with its own steps, and with the step that
\* decides the build it waits for.
LEMMA OthersKeep ==
  ASSUME Inv, NEW c \in Calls, Moves(c), NEW d \in Calls \ {c},
         d \in Waiters(c) => (InFlight(c)' <=> InFlight(c)) /\ (~ InFlight(c) => error'[c] = error[c])
  PROVE  GotOf(d)' = GotOf(d) /\ FailedOf(d)' = FailedOf(d)
<1>1. /\ pc'[d] = pc[d] /\ target'[d] = target[d] /\ forbid'[d] = forbid[d]
      /\ answer'[d] = answer[d] /\ err'[d] = err[d] /\ error'[d] = error[d] /\ evicted'[d] = evicted[d]
  BY DEF Moves
<1>2. CASE pc[d] = "wait"
  <2>1. target[d] \in Calls
    BY <1>2 DEF Inv, WaitInv
  <2>2. (InFlight(target[d])' <=> InFlight(target[d])) /\ (~ InFlight(target[d]) => error'[target[d]] = error[target[d]])
    BY <1>1, <1>2, <2>1 DEF Waiters, Moves, InFlight
  <2>3. QED
    BY <1>1, <1>2, <2>2 DEF GotOf, FailedOf, Published, Decided, EvictionForbidden
<1>3. CASE pc[d] # "wait"
  BY <1>1, <1>3 DEF GotOf, FailedOf, Published, Decided, EvictionForbidden
<1>4. QED
  BY <1>2, <1>3

\* A call nobody can be waiting for: its build is not under way yet.
LEMMA NoWaiters ==
  ASSUME Inv, NEW c \in Calls, pc[c] \in {"unused", "lookup", "wait"}
  PROVE  Waiters(c) = {}
  BY DEF Inv, WaitInv, SlotInv, InFlight, Waiters

\* A call that has neither an answer nor a decision yet.
LEMMA OpenCall ==
  ASSUME NEW c, pc[c] \in {"unused", "lookup", "miss", "compile", "publish", "abort"}
  PROVE  GotOf(c) = None /\ FailedOf(c) = "none"
  BY DEF GotOf, FailedOf, Published, Decided

\* A key being built, and a key not among the ready ones, is not in the store.
LEMMA NotStored ==
  ASSUME Inv, NEW c \in Calls, InFlight(c) \/ key[c] \notin Held(ready)
  PROVE  ~ Memo!Stored(key[c])
<1>1. ASSUME NEW b \in ToSet(ready), key[b] = key[c] PROVE FALSE
  <2>1. PICK i \in DOMAIN ready : ready[i] = b
    BY <1>1 DEF ToSet
  <2>2. QED
    BY <1>1, <2>1 DEF Inv, UnreadyInv, Held
<1>2. QED
  BY <1>1 DEF Memo!Stored

\* The calls that wait for c want what c wants, and have nothing yet.
LEMMA WaitersShare ==
  ASSUME Inv, NEW c \in Calls, InFlight(c)
  PROVE  Waiters(c) \in SUBSET Memo!Sharers(c)
<1> SUFFICES ASSUME NEW d \in Waiters(c) PROVE d \in Memo!Sharers(c)
  OBVIOUS
<1>1. d \in Calls /\ pc[d] = "wait" /\ target[d] = c
  BY DEF Waiters
<1>2. key[d] = key[c] /\ d # c /\ key[c] \in Keys
  BY <1>1 DEF Inv, WaitInv, CallsInv, InFlight
<1>3. GotOf(d) = None /\ FailedOf(d) = "none"
  BY <1>1 DEF GotOf, FailedOf, Published, Decided
<1>4. QED
  BY <1>1, <1>2, <1>3, NoneAssumption DEF Memo!Sharers, Memo!Open, GotBar, FailedBar

\* A call that is open and has a key is open in the memo.
LEMMA OpenInMemo ==
  ASSUME Inv, NEW c \in Calls, pc[c] \in {"lookup", "miss", "compile", "publish", "abort"}
  PROVE  Memo!Open(c)
  BY OpenCall, NoneAssumption DEF Inv, CallsInv, Memo!Open, GotBar, FailedBar

\* The set of builds under way changes only where a build begins and ends.
LEMMA SameUnderway ==
  ASSUME NEW c \in Calls, Moves(c), (c \in Underway') <=> (c \in Underway),
         stats'.misses = stats.misses
  PROVE  AttemptsBar' = AttemptsBar
<1>1. Underway' = Underway
  BY DEF Underway, InFlight, Moves
<1>2. QED
  BY <1>1 DEF AttemptsBar

LEMMA LessUnderway ==
  ASSUME Inv, NEW c \in Calls, Moves(c), c \in Underway, c \notin Underway',
         stats'.misses = stats.misses
  PROVE  AttemptsBar' = AttemptsBar + 1
<1>1. Underway' = Underway \ {c}
  BY DEF Underway, InFlight, Moves
<1>2. Cardinality(Underway') = Cardinality(Underway) - 1 /\ Cardinality(Underway) \in Nat
  BY <1>1, FewUnderway, OneLess
<1>3. stats.misses \in Nat
  BY DEF Inv, TypeOK
<1>4. QED
  BY <1>2, <1>3 DEF AttemptsBar

\* Where nothing changes for anybody the memo stutters.
LEMMA MemoStutters ==
  ASSUME key' = key, ToSet(ready') = ToSet(ready), AttemptsBar' = AttemptsBar,
         \A d \in Calls : GotOf(d)' = GotOf(d) /\ FailedOf(d)' = FailedOf(d)
  PROVE  UNCHANGED Memo!memoVars
<1>1. GotBar' = GotBar /\ FailedBar' = FailedBar
  BY DEF GotBar, FailedBar
<1>2. QED
  BY <1>1 DEF Memo!memoVars

\* A sequence without repetitions has as many members as entries.
LEMMA CountEntries ==
  ASSUME NEW S, NEW s \in Seq(S), \A i, j \in DOMAIN s : s[i] = s[j] => i = j
  PROVE  IsFiniteSet(ToSet(s)) /\ Cardinality(ToSet(s)) = Len(s)
<1>1. Len(s) \in Nat /\ DOMAIN s = 1..Len(s) /\ s \in [1..Len(s) -> ToSet(s)]
  BY LenProperties DEF ToSet
<1>2. s \in Bijection(1..Len(s), ToSet(s))
  BY <1>1, Fun_IsBij DEF ToSet
<1>3. ExistsBijection(1..Len(s), ToSet(s))
  BY <1>2 DEF ExistsBijection
<1>4. QED
  BY <1>1, <1>3, FS_CountingElements, FS_NatBijection

\* A hit reorders the store and changes nothing in it.
LEMMA TouchedStore ==
  ASSUME Inv, NEW i \in DOMAIN ready, ready' = Append(RemoveAt(ready, i), ready[i])
  PROVE  ToSet(ready') = ToSet(ready)
<1>1. /\ ready \in Seq(Calls) /\ Len(ready) \in Nat /\ DOMAIN ready = 1..Len(ready)
  BY LenProperties DEF Inv, TypeOK
<1>2. /\ ready' \in Seq(Calls) /\ Len(ready') = Len(ready)
      /\ \A j \in 1..Len(ready) : /\ WasAt(i, Len(ready), j) \in 1..Len(ready)
                                  /\ ready'[j] = ready[WasAt(i, Len(ready), j)]
  BY <1>1, TouchReady
<1>3. DOMAIN ready' = 1..Len(ready)
  BY <1>2, LenProperties
<1>4. ASSUME NEW l \in 1..Len(ready) PROVE \E j \in 1..Len(ready) : WasAt(i, Len(ready), j) = l
  <2>1. CASE l < i
    BY <2>1, <1>1 DEF WasAt
  <2>2. CASE l = i
    <3>1. Len(ready) \in 1..Len(ready) /\ WasAt(i, Len(ready), Len(ready)) = i
      BY <1>1 DEF WasAt
    <3>2. QED
      BY <2>2, <3>1
  <2>3. CASE l > i
    <3>1. l - 1 \in 1..Len(ready) /\ WasAt(i, Len(ready), l - 1) = l
      BY <2>3, <1>1 DEF WasAt
    <3>2. QED
      BY <3>1
  <2>4. QED
    BY <1>1, <2>1, <2>2, <2>3
<1>5. ASSUME NEW x \in ToSet(ready') PROVE x \in ToSet(ready)
  <2>1. PICK j \in 1..Len(ready) : x = ready'[j]
    BY <1>3 DEF ToSet
  <2>2. x = ready[WasAt(i, Len(ready), j)] /\ WasAt(i, Len(ready), j) \in DOMAIN ready
    BY <1>1, <1>2, <2>1
  <2>3. QED
    BY <2>2 DEF ToSet
<1>6. ASSUME NEW x \in ToSet(ready) PROVE x \in ToSet(ready')
  <2>1. PICK l \in 1..Len(ready) : x = ready[l]
    BY <1>1 DEF ToSet
  <2>2. PICK j \in 1..Len(ready) : WasAt(i, Len(ready), j) = l
    BY <1>4
  <2>3. x = ready'[j] /\ j \in DOMAIN ready'
    BY <1>2, <1>3, <2>1, <2>2
  <2>4. QED
    BY <2>3 DEF ToSet
<1>7. QED
  BY <1>5, <1>6

\* A publication puts the build into the store and takes out what it evicts; the
\* store is within the capacity, and full if anything had to go.
LEMMA PublishedStore ==
  ASSUME Inv, NEW c \in Calls, Publish(c)
  PROVE  /\ ToSet(ready') = (ToSet(ready) \cup {c}) \ evicted'[c]
         /\ evicted'[c] \subseteq ToSet(ready) \cup {c}
         /\ Cardinality(ToSet(ready')) <= Capacity
         /\ evicted'[c] # {} => Cardinality(ToSet(ready')) = Capacity
<1>1. /\ ready \in Seq(Calls) /\ Len(ready) \in Nat /\ DOMAIN ready = 1..Len(ready)
      /\ evicted \in [Calls -> SUBSET Calls]
  BY LenProperties DEF Inv, TypeOK
<1>2. PICK s, n, m : s = Append(ready, c) /\ n = Surplus /\ m = Len(ready)
  OBVIOUS
<1>3. /\ s \in Seq(Calls) /\ Len(s) = m + 1 /\ m \in Nat /\ n \in 0..(m + 1)
      /\ \A i \in 1..m : s[i] = ready[i]
      /\ s[m + 1] = c
  BY <1>1, <1>2, AppendProperties, PublishedReady
<1>4. /\ ready' \in Seq(Calls) /\ Len(ready') = m + 1 - n
      /\ \A j \in 1..(m + 1 - n) : n + j \in 1..(m + 1) /\ ready'[j] = s[n + j]
  BY <1>2, PublishedReady
<1>5. evicted'[c] = {s[i] : i \in 1..n}
  BY <1>1, <1>2 DEF Publish
<1>6. \A i \in 1..m : ready[i] # c
  BY <1>1, <1>2 DEF Inv, UnreadyInv, InFlight, Publish
<1>7. \A i, j \in 1..m : ready[i] = ready[j] => i = j
  BY <1>1, <1>2 DEF Inv, ReadyInv
<1>8. ASSUME NEW i \in 1..(m + 1), NEW j \in 1..(m + 1), s[i] = s[j] PROVE i = j
  <2>1. (i \in 1..m \/ i = m + 1) /\ (j \in 1..m \/ j = m + 1)
    BY <1>3
  <2>2. QED
    BY <1>3, <1>6, <1>7, <1>8, <2>1
<1>9. DOMAIN ready' = 1..(m + 1 - n)
  BY <1>4, LenProperties
<1>10. ToSet(ready) \cup {c} = {s[i] : i \in 1..(m + 1)}
  <2>1. ToSet(ready) = {s[i] : i \in 1..m}
    BY <1>1, <1>2, <1>3 DEF ToSet
  <2>2. 1..(m + 1) = 1..m \cup {m + 1}
    BY <1>3
  <2>3. QED
    BY <2>1, <2>2, <1>3
<1>11. ToSet(ready') = {s[i] : i \in 1..(m + 1)} \ {s[i] : i \in 1..n}
  <2>1. ASSUME NEW x \in ToSet(ready') PROVE x \in {s[i] : i \in 1..(m + 1)} \ {s[i] : i \in 1..n}
    <3>1. PICK j \in 1..(m + 1 - n) : x = s[n + j] /\ n + j \in 1..(m + 1)
      BY <1>4, <1>9 DEF ToSet
    <3>2. ASSUME NEW i \in 1..n, s[i] = s[n + j] PROVE FALSE
      <4>1. i \in 1..(m + 1) /\ i # n + j
        BY <1>3, <3>1
      <4>2. QED
        BY <1>8, <3>1, <3>2, <4>1
    <3>3. QED
      BY <3>1, <3>2
  <2>2. ASSUME NEW i \in 1..(m + 1), s[i] \notin {s[j] : j \in 1..n} PROVE s[i] \in ToSet(ready')
    <3>1. ~ (i \in 1..n)
      BY <2>2
    <3>2. i - n \in 1..(m + 1 - n) /\ n + (i - n) = i
      BY <1>3, <3>1
    <3>3. QED
      BY <1>4, <1>9, <3>2 DEF ToSet
  <2>3. QED
    BY <2>1, <2>2
<1>12. \A i, j \in DOMAIN ready' : ready'[i] = ready'[j] => i = j
  <2>1. ASSUME NEW i \in 1..(m + 1 - n), NEW j \in 1..(m + 1 - n), s[n + i] = s[n + j] PROVE i = j
    <3>1. n + i = n + j
      BY <1>4, <1>8, <2>1
    <3>2. QED
      BY <1>3, <3>1
  <2>2. QED
    BY <1>4, <1>9, <2>1
<1>13. Cardinality(ToSet(ready')) = m + 1 - n
  BY <1>4, <1>12, CountEntries
<1>14. m + 1 - n <= Capacity /\ (n # 0 => m + 1 - n = Capacity)
  BY <1>2, <1>3, CapacityAssumption DEF Surplus
<1>15. n = 0 => evicted'[c] = {}
  BY <1>5
<1>16. evicted'[c] \subseteq ToSet(ready) \cup {c}
  <2>1. 1..n \subseteq 1..(m + 1)
    BY <1>3
  <2>2. QED
    BY <2>1, <1>5, <1>10
<1>17. QED
  BY <1>5, <1>10, <1>11, <1>13, <1>14, <1>15, <1>16

\* Being asked: a call is made.
LEMMA EnterAsks ==
  ASSUME Inv, NEW c \in Calls, NEW t, NEW p, NEW k \in Keys, NEW F, Enter(c, t, p, k, F)
  PROVE  Memo!Ask(c, k)
<1>1. Moves(c) /\ pc[c] = "unused" /\ pc'[c] = "lookup"
  BY EnterMoves
<1>2. key[c] = None /\ Waiters(c) = {}
  BY <1>1, NoWaiters DEF Inv, MadeInv
<1>3. \A d \in Calls \ {c} : GotOf(d)' = GotOf(d) /\ FailedOf(d)' = FailedOf(d)
  BY <1>1, <1>2, OthersKeep
<1>4. GotOf(c) = None /\ FailedOf(c) = "none" /\ GotOf(c)' = None /\ FailedOf(c)' = "none"
  BY <1>1 DEF GotOf, FailedOf, Published, Decided
<1>5. GotBar' = GotBar /\ FailedBar' = FailedBar
  BY <1>3, <1>4 DEF GotBar, FailedBar
<1>6. key' = [key EXCEPT ![c] = k] /\ ready' = ready /\ stats' = stats
  BY DEF Enter, tierVars
<1>7. AttemptsBar' = AttemptsBar
  BY <1>1, <1>6, SameUnderway DEF Underway, InFlight
<1>8. QED
  BY <1>2, <1>5, <1>6, <1>7 DEF Memo!Ask

\* Being recalled: a hit.
LEMMA HitRecalls ==
  ASSUME Inv, NEW c \in Calls, Hit(c)
  PROVE  Memo!Recall(c)
<1>1. PICK i \in DOMAIN ready :
        /\ key[ready[i]] = key[c] /\ ready' = Append(RemoveAt(ready, i), ready[i])
        /\ Return(c, ready[i])
  BY DEF Hit
<1>2. /\ Moves(c) /\ pc[c] = "lookup" /\ pc'[c] = "returned" /\ answer'[c] = ready[i]
      /\ key' = key /\ stats'.misses = stats.misses
  BY <1>1, StepMoves DEF Inv, TypeOK, Step, Hit, Return, Goto, Count, callVars
<1>3. \A d \in Calls \ {c} : GotOf(d)' = GotOf(d) /\ FailedOf(d)' = FailedOf(d)
  BY <1>2, NoWaiters, OthersKeep
<1>4. GotOf(c)' = ready[i] /\ FailedOf(c)' = "none" /\ FailedOf(c) = "none"
  BY <1>2 DEF GotOf, FailedOf, Published, Decided
<1>5. GotBar' = [GotBar EXCEPT ![c] = ready[i]] /\ FailedBar' = FailedBar
  BY <1>3, <1>4 DEF GotBar, FailedBar
<1>6. ToSet(ready') = ToSet(ready) /\ ready[i] \in ToSet(ready)
  BY <1>1, TouchedStore DEF ToSet
<1>7. AttemptsBar' = AttemptsBar
  BY <1>2, SameUnderway DEF Underway, InFlight
<1>8. Memo!Open(c)
  BY <1>2, OpenInMemo
<1>9. QED
  BY <1>1, <1>2, <1>5, <1>6, <1>7, <1>8 DEF Memo!Recall

\* Being refused: a re-entrant lookup.
LEMMA ReenterRefuses ==
  ASSUME Inv, NEW c \in Calls, Reenter(c)
  PROVE  Memo!Refuse(c)
<1>1. /\ Moves(c) /\ pc[c] = "lookup" /\ pc'[c] = "raised" /\ err'[c] = "Reentrant"
      /\ key' = key /\ stats' = stats /\ ready' = ready /\ key[c] \notin Held(ready)
  BY StepMoves DEF Inv, TypeOK, Step, Reenter, Raise, Goto, callVars, tierVars
<1>2. \A d \in Calls \ {c} : GotOf(d)' = GotOf(d) /\ FailedOf(d)' = FailedOf(d)
  BY <1>1, NoWaiters, OthersKeep
<1>3. GotOf(c)' = None /\ GotOf(c) = None /\ FailedOf(c)' = "Reentrant"
  BY <1>1 DEF GotOf, FailedOf, Published, Decided
<1>4. GotBar' = GotBar /\ FailedBar' = [FailedBar EXCEPT ![c] = "Reentrant"]
  BY <1>2, <1>3 DEF GotBar, FailedBar
<1>5. AttemptsBar' = AttemptsBar
  BY <1>1, SameUnderway DEF Underway, InFlight
<1>6. Memo!Open(c) /\ ~ Memo!Stored(key[c])
  BY <1>1, OpenInMemo, NotStored
<1>7. QED
  BY <1>1, <1>4, <1>5, <1>6 DEF Memo!Refuse

\* The abstract module counts the way this one does.
LEMMA SameCardinality == \A S : Memo!Cardinality(S) = Cardinality(S)
  BY Zenon DEF Memo!Cardinality, Cardinality

\* What a publication means for the memo, whoever gets what.
LEMMA PublishCommon ==
  ASSUME Inv, NEW c \in Calls, Publish(c)
  PROVE  /\ Memo!Open(c) /\ ~ Memo!Stored(key[c])
         /\ ToSet(ready') = (ToSet(ready) \cup {c}) \ evicted'[c]
         /\ Cardinality(ToSet(ready')) <= Capacity
         /\ evicted'[c] # {} => Cardinality(ToSet(ready')) = Capacity
         /\ AttemptsBar' = AttemptsBar + 1
         /\ key' = key
<1>1. pc[c] = "publish" /\ pc'[c] = "signal" /\ key' = key /\ stats'.misses = stats.misses /\ Moves(c)
  BY StepMoves DEF Inv, TypeOK, Step, Publish, Goto, Count, callVars
<1>2. AttemptsBar' = AttemptsBar + 1
  BY <1>1, LessUnderway DEF Underway, InFlight
<1>3. Memo!Open(c) /\ ~ Memo!Stored(key[c])
  BY <1>1, OpenInMemo, NotStored DEF InFlight
<1>4. QED
  BY <1>1, <1>2, <1>3, PublishedStore

\* Being built: a publication decides the build for c and for all who wait.
LEMMA PublishBuilds ==
  ASSUME Inv, NEW c \in Calls, Publish(c)
  PROVE  Memo!Build(c, Waiters(c), evicted'[c])
<1>1. /\ Moves(c) /\ pc[c] = "publish" /\ pc'[c] = "signal" /\ key' = key
      /\ stats'.misses = stats.misses /\ UNCHANGED <<target, forbid, error>>
  BY StepMoves DEF Inv, TypeOK, Step, Publish, Goto, Count, callVars, slotVars
<1>2. error[c] = "none" /\ c \notin Waiters(c)
  BY <1>1 DEF Inv, SlotInv, Waiters
<1>3. \A d \in Calls \ ({c} \cup Waiters(c)) : GotOf(d)' = GotOf(d) /\ FailedOf(d)' = FailedOf(d)
  BY <1>1, OthersKeep
<1>4. \A d \in Waiters(c) : /\ GotOf(d)' = c
                            /\ FailedOf(d)' = "none" /\ FailedOf(d) = "none"
  BY <1>1, <1>2 DEF Waiters, Moves, GotOf, FailedOf, Published, Decided, InFlight
<1>5. /\ FailedOf(c) = "none" /\ GotOf(c) = None
      /\ ~ EvictionForbidden(c)' => GotOf(c)' = c /\ FailedOf(c)' = "none"
      /\ EvictionForbidden(c)' => GotOf(c)' = None /\ FailedOf(c)' = "Forbidden"
  BY <1>1 DEF GotOf, FailedOf, Published, Decided
<1>6. CASE ~ EvictionForbidden(c)'
  <2>1. GotBar' = [d \in Calls |-> IF d \in Waiters(c) \cup {c} THEN c ELSE GotBar[d]] /\ FailedBar' = FailedBar
    BY <1>3, <1>4, <1>5, <1>6 DEF GotBar, FailedBar, Waiters
  <2>2. QED
    BY <2>1, PublishCommon, SameCardinality DEF Memo!Build
<1>7. CASE EvictionForbidden(c)'
  <2>1. /\ GotBar' = [d \in Calls |-> IF d \in Waiters(c) THEN c ELSE GotBar[d]]
        /\ FailedBar' = [FailedBar EXCEPT ![c] = "Forbidden"]
    BY <1>2, <1>3, <1>4, <1>5, <1>7 DEF GotBar, FailedBar, Waiters
  <2>2. evicted'[c] # {}
    BY <1>7 DEF EvictionForbidden
  <2>3. QED
    BY <2>1, <2>2, PublishCommon, SameCardinality DEF Memo!Build
<1>8. QED
  BY <1>6, <1>7

\* Being broken: a failed build leaves with its error for c and for all who wait.
LEMMA AbortBreaks ==
  ASSUME Inv, NEW c \in Calls, Abort(c)
  PROVE  Memo!Break(c, Waiters(c), error[c]) /\ error[c] \in Errors
<1>1. /\ Moves(c) /\ pc[c] = "abort" /\ pc'[c] = "release" /\ key' = key
      /\ stats' = stats /\ ready' = ready /\ UNCHANGED <<target, error>>
  BY StepMoves DEF Inv, TypeOK, Step, Abort, Goto, callVars, slotVars
<1>2. error[c] # "none" /\ error[c] \in Errors /\ c \notin Waiters(c)
  BY <1>1 DEF Inv, SlotInv, TypeOK, Waiters
<1>3. \A d \in Calls \ ({c} \cup Waiters(c)) : GotOf(d)' = GotOf(d) /\ FailedOf(d)' = FailedOf(d)
  BY <1>1, OthersKeep
<1>4. \A d \in Waiters(c) : GotOf(d)' = None /\ GotOf(d) = None /\ FailedOf(d)' = error[c]
  BY <1>1, <1>2 DEF Waiters, Moves, GotOf, FailedOf, Published, Decided, InFlight
<1>5. GotOf(c)' = None /\ GotOf(c) = None /\ FailedOf(c)' = error[c]
  BY <1>1 DEF GotOf, FailedOf, Published, Decided
<1>6. GotBar' = GotBar /\ FailedBar' = [d \in Calls |-> IF d \in Waiters(c) \cup {c} THEN error[c] ELSE FailedBar[d]]
  BY <1>3, <1>4, <1>5 DEF GotBar, FailedBar, Waiters
<1>7. AttemptsBar' = AttemptsBar + 1
  BY <1>1, LessUnderway DEF Underway, InFlight
<1>8. Memo!Open(c) /\ ~ Memo!Stored(key[c])
  BY <1>1, OpenInMemo, NotStored DEF InFlight
<1>9. QED
  BY <1>1, <1>2, <1>6, <1>7, <1>8 DEF Memo!Break

\* Every other step of a call leaves the memo as it is: what a waiter takes over,
\* a builder returns or an exception carries on was decided before.
LEMMA OtherStepsStutter ==
  ASSUME Inv, NEW c \in Calls,
         Lead(c) \/ Join(c) \/ Wake(c) \/ Miss(c) \/ CompileOk(c) \/ CompileFail(c)
           \/ Signal(c) \/ Announce(c) \/ Release(c)
  PROVE  UNCHANGED Memo!memoVars
<1>. TypeOK /\ WaitInv /\ SlotInv /\ MadeInv /\ BuildingInv /\ CallsInv
  BY DEF Inv
<1>1. Moves(c) /\ key' = key /\ ready' = ready
  BY StepMoves DEF Step, Lead, Join, Wake, Miss, CompileOk, CompileFail, Signal, Announce, Release,
                   callVars, tierVars
<1>2. CASE Lead(c)
  <2>1. pc[c] = "lookup" /\ pc'[c] = "miss" /\ stats' = stats
    BY <1>2 DEF Lead, Goto, TypeOK
  <2>2. \A d \in Calls \ {c} : GotOf(d)' = GotOf(d) /\ FailedOf(d)' = FailedOf(d)
    BY <1>1, <2>1, NoWaiters, OthersKeep
  <2>3. GotOf(c)' = GotOf(c) /\ FailedOf(c)' = FailedOf(c)
    BY <2>1 DEF GotOf, FailedOf, Published, Decided
  <2>4. AttemptsBar' = AttemptsBar
    BY <1>1, <2>1, SameUnderway DEF Underway, InFlight
  <2>5. QED
    BY <1>1, <2>2, <2>3, <2>4, MemoStutters
<1>3. CASE Join(c)
  <2>1. /\ pc[c] = "lookup" /\ pc'[c] = "wait" /\ stats' = stats
        /\ target'[c] = building[key[c]] /\ building[key[c]] # None
    BY <1>3 DEF Join, Goto, TypeOK, tierVars
  <2>2. \A d \in Calls \ {c} : GotOf(d)' = GotOf(d) /\ FailedOf(d)' = FailedOf(d)
    BY <1>1, <2>1, NoWaiters, OthersKeep
  <2>3. building[key[c]] \in Calls \ {c} /\ InFlight(building[key[c]])
    BY <2>1, NoneAssumption DEF TypeOK, CallsInv, BuildingInv, InFlight
  <2>4. InFlight(target[c])'
    BY <1>1, <2>1, <2>3 DEF InFlight, Moves
  <2>5. GotOf(c)' = GotOf(c) /\ FailedOf(c)' = FailedOf(c)
    BY <2>1, <2>4 DEF GotOf, FailedOf, Published, Decided
  <2>6. AttemptsBar' = AttemptsBar
    BY <1>1, <2>1, SameUnderway DEF Underway, InFlight
  <2>7. QED
    BY <1>1, <2>2, <2>5, <2>6, MemoStutters
<1>4. CASE Wake(c)
  <2>1. /\ pc[c] = "wait" /\ target[c] \in event /\ stats' = stats /\ UNCHANGED <<target, error>>
        /\ \/ error[target[c]] = "none" /\ pc'[c] = "returned" /\ answer'[c] = target[c]
           \/ error[target[c]] # "none" /\ pc'[c] = "raised" /\ err'[c] = error[target[c]]
    BY <1>4 DEF Wake, Return, Raise, Goto, TypeOK, tierVars, slotVars
  <2>2. \A d \in Calls \ {c} : GotOf(d)' = GotOf(d) /\ FailedOf(d)' = FailedOf(d)
    BY <1>1, <2>1, NoWaiters, OthersKeep
  <2>3. ~ InFlight(target[c])
    BY <2>1 DEF WaitInv, SlotInv, InFlight
  <2>4. GotOf(c)' = GotOf(c) /\ FailedOf(c)' = FailedOf(c)
    BY <2>1, <2>3 DEF GotOf, FailedOf, Published, Decided
  <2>5. AttemptsBar' = AttemptsBar
    BY <1>1, <2>1, SameUnderway DEF Underway, InFlight
  <2>6. QED
    BY <1>1, <2>2, <2>4, <2>5, MemoStutters
<1>5. CASE Miss(c) \/ CompileOk(c) \/ CompileFail(c)
  <2>1. /\ pc[c] \in {"miss", "compile"} /\ pc'[c] \in {"compile", "publish", "abort"}
    BY <1>5 DEF Miss, CompileOk, CompileFail, Fail, Goto, TypeOK
  <2>2. \A d \in Calls \ {c} : GotOf(d)' = GotOf(d) /\ FailedOf(d)' = FailedOf(d)
    BY <1>1, <2>1, OthersKeep DEF InFlight
  <2>3. GotOf(c)' = GotOf(c) /\ FailedOf(c)' = FailedOf(c)
    BY <2>1 DEF GotOf, FailedOf, Published, Decided
  <2>4. AttemptsBar' = AttemptsBar
    <3>1. CASE Miss(c)
      <4>1. /\ pc[c] = "miss" /\ pc'[c] # "miss" /\ stats'.misses = stats.misses + 1 /\ stats.misses \in Nat
        BY <3>1 DEF Miss, Fail, Goto, Count, TypeOK
      <4>2. Underway' = Underway \cup {c} /\ c \notin Underway
        BY <1>1, <2>1, <4>1 DEF Underway, InFlight, Moves
      <4>3. Cardinality(Underway') = Cardinality(Underway) + 1 /\ Cardinality(Underway) \in Nat
        BY <4>2, FewUnderway, OneMore
      <4>4. QED
        BY <4>1, <4>3 DEF AttemptsBar
    <3>2. CASE CompileOk(c) \/ CompileFail(c)
      <4>1. pc[c] = "compile" /\ stats'.misses = stats.misses
        BY <3>2 DEF CompileOk, CompileFail, Count, TypeOK, tierVars
      <4>2. QED
        BY <1>1, <2>1, <4>1, SameUnderway DEF Underway, InFlight
    <3>3. QED
      BY <1>5, <3>1, <3>2
  <2>5. QED
    BY <1>1, <2>2, <2>3, <2>4, MemoStutters
<1>6. CASE Signal(c)
  <2>1. /\ pc[c] = "signal" /\ stats' = stats /\ UNCHANGED <<forbid, evicted, error>>
        /\ \/ evicted[c] = {} /\ pc'[c] = "returned" /\ answer'[c] = c
           \/ evicted[c] # {} /\ pc'[c] = "announce"
    BY <1>6 DEF Signal, Return, Goto, TypeOK, tierVars, callVars
  <2>2. \A d \in Calls \ {c} : GotOf(d)' = GotOf(d) /\ FailedOf(d)' = FailedOf(d)
    BY <1>1, <2>1, OthersKeep DEF InFlight
  <2>3. GotOf(c)' = GotOf(c) /\ FailedOf(c)' = FailedOf(c)
    BY <2>1 DEF GotOf, FailedOf, Published, Decided, EvictionForbidden
  <2>4. AttemptsBar' = AttemptsBar
    BY <1>1, <2>1, SameUnderway DEF Underway, InFlight
  <2>5. QED
    BY <1>1, <2>2, <2>3, <2>4, MemoStutters
<1>7. CASE Announce(c)
  <2>1. /\ pc[c] = "announce" /\ stats' = stats /\ error' = error /\ evicted[c] # {}
        /\ \/ "evict" \in forbid[c] /\ pc'[c] = "raised" /\ err'[c] = "Forbidden"
           \/ "evict" \notin forbid[c] /\ pc'[c] = "returned" /\ answer'[c] = c
    BY <1>7 DEF Announce, Return, Raise, Goto, TypeOK, MadeInv, tierVars, slotVars
  <2>2. \A d \in Calls \ {c} : GotOf(d)' = GotOf(d) /\ FailedOf(d)' = FailedOf(d)
    BY <1>1, <2>1, OthersKeep DEF InFlight
  <2>3. GotOf(c)' = GotOf(c) /\ FailedOf(c)' = FailedOf(c)
    BY <2>1 DEF GotOf, FailedOf, Published, Decided, EvictionForbidden
  <2>4. AttemptsBar' = AttemptsBar
    BY <1>1, <2>1, SameUnderway DEF Underway, InFlight
  <2>5. QED
    BY <1>1, <2>2, <2>3, <2>4, MemoStutters
<1>8. CASE Release(c)
  <2>1. /\ pc[c] = "release" /\ stats' = stats /\ error' = error
        /\ pc'[c] = "raised" /\ err'[c] = error[c]
    BY <1>8 DEF Release, Raise, Goto, TypeOK, tierVars
  <2>2. \A d \in Calls \ {c} : GotOf(d)' = GotOf(d) /\ FailedOf(d)' = FailedOf(d)
    BY <1>1, <2>1, OthersKeep DEF InFlight
  <2>3. GotOf(c)' = GotOf(c) /\ FailedOf(c)' = FailedOf(c)
    BY <2>1 DEF GotOf, FailedOf, Published, Decided
  <2>4. AttemptsBar' = AttemptsBar
    BY <1>1, <2>1, SameUnderway DEF Underway, InFlight
  <2>5. QED
    BY <1>1, <2>2, <2>3, <2>4, MemoStutters
<1>9. QED
  BY <1>2, <1>3, <1>4, <1>5, <1>6, <1>7, <1>8

\* Every step of the base class is a step of the memo or nothing to it.
LEMMA StepImplements ==
  ASSUME Inv, NEW c \in Calls, Step(c)
  PROVE  Memo!MemoNext \/ UNCHANGED Memo!memoVars
<1>1. CASE Hit(c)
  BY <1>1, HitRecalls DEF Memo!MemoNext
<1>2. CASE Reenter(c)
  BY <1>2, ReenterRefuses DEF Memo!MemoNext
<1>3. CASE Publish(c)
  <2>1. Memo!Build(c, Waiters(c), evicted'[c])
    BY <1>3, PublishBuilds
  <2>2. Waiters(c) \in SUBSET Memo!Sharers(c)
    BY <1>3, WaitersShare DEF Publish, InFlight
  <2>3. evicted'[c] \in SUBSET (ToSet(ready) \cup {c})
    BY <1>3, PublishedStore
  <2>4. QED
    BY <2>1, <2>2, <2>3 DEF Memo!MemoNext
<1>4. CASE Abort(c)
  <2>1. Memo!Break(c, Waiters(c), error[c]) /\ error[c] \in Memo!Failures
    BY <1>4, AbortBreaks DEF Errors, Memo!Failures
  <2>2. Waiters(c) \in SUBSET Memo!Sharers(c)
    BY <1>4, WaitersShare DEF Abort, InFlight
  <2>3. QED
    BY <2>1, <2>2 DEF Memo!MemoNext
<1>5. QED
  BY <1>1, <1>2, <1>3, <1>4, OtherStepsStutter DEF Step

\* So is every step of a tier.
LEMMA NextImplements == Inv /\ [Next]_vars => [Memo!MemoNext]_(Memo!memoVars)
<1> SUFFICES ASSUME Inv, [Next]_vars PROVE Memo!MemoNext \/ UNCHANGED Memo!memoVars
  OBVIOUS
<1>1. ASSUME NEW c \in Calls, NEW t \in Threads, NEW k \in Keys, NEW F \in Contexts, Call(c, t, k, F)
      PROVE  Memo!MemoNext
  BY <1>1, EnterAsks DEF Call, Memo!MemoNext
<1>2. ASSUME NEW c \in Calls, NEW p \in Calls, NEW k \in Keys, CallNested(c, p, k)
      PROVE  Memo!MemoNext
  BY <1>2, EnterAsks DEF CallNested, Memo!MemoNext
<1>3. ASSUME NEW c \in Calls, Step(c)
      PROVE  Memo!MemoNext \/ UNCHANGED Memo!memoVars
  BY <1>3, StepImplements
<1>4. CASE UNCHANGED vars
  <2>1. \A d \in Calls : GotOf(d)' = GotOf(d) /\ FailedOf(d)' = FailedOf(d)
    BY <1>4 DEF vars, GotOf, FailedOf, Published, Decided, EvictionForbidden, InFlight
  <2>2. key' = key /\ ToSet(ready') = ToSet(ready) /\ AttemptsBar' = AttemptsBar
    BY <1>4 DEF vars, AttemptsBar, Underway, InFlight
  <2>3. QED
    BY <2>1, <2>2, MemoStutters
<1>5. QED
  BY <1>1, <1>2, <1>3, <1>4 DEF Next, Terminated

\* A memo that has been asked nothing.
LEMMA InitImplements == Init => Memo!MemoInit
<1> SUFFICES ASSUME Init PROVE Memo!MemoInit
  OBVIOUS
<1>1. GotBar = [c \in Calls |-> None] /\ FailedBar = [c \in Calls |-> "none"]
  BY DEF Init, GotBar, FailedBar, GotOf, FailedOf, Published, Decided
<1>2. ToSet(ready) = {}
  BY DEF Init, ToSet
<1>3. Underway = {}
  BY DEF Init, Underway, InFlight
<1>4. AttemptsBar = 0
  BY <1>3, FS_EmptySet DEF Init, AttemptsBar
<1>5. QED
  BY <1>1, <1>2, <1>4 DEF Init, Memo!MemoInit

\* A tier of the cache is an atomic memo: with its lock taken and released, its
\* slots and events, its nested and failing compiles, get_or_compile answers
\* every call as if the key had been looked up, or built, in a single step.
THEOREM TierIsMemo == Spec => ImplementsMemo
<1>1. Init => Memo!MemoInit
  BY InitImplements
<1>2. Inv /\ [Next]_vars => [Memo!MemoNext]_(Memo!memoVars)
  BY NextImplements
<1>3. QED
  BY <1>1, <1>2, InvHolds, PTL DEF Spec, ImplementsMemo, Memo!MemoSpec
=============================================================================
