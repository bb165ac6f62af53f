--------------------------- MODULE DispatchProofs ---------------------------
(***************************************************************************)
(* Proofs about Dispatch, for any number of calls, threads, kernels and    *)
(* registrations: whichever build, bump and swap overlap, a dispatch runs  *)
(* code of its own, rendered once, lowered with every registration that    *)
(* was complete when it began.                                             *)
(***************************************************************************)
EXTENDS Dispatch, FiniteSetTheorems, TLAPS

\* Before anything is registered or dispatched, the tiers agree.
LEMMA InitAgrees == Init => AgreeInv
  <1> SUFFICES ASSUME Init PROVE AgreeInv OBVIOUS
  <1>1. TypeOK
    BY NoneAssumption DEF Init, TypeOK, Actors, CallSteps, RegistrationSteps, Building, Served
  <1>2. RecordInv /\ ArtifactInv /\ WaitInv /\ RenderInv /\ LoweredInv /\ FreshInv
    BY NoneAssumption
    DEF Init, RecordInv, ArtifactInv, WaitInv, RenderInv, Rendered, Rendering, LoweredInv,
        Lowered, Begun, FreshInv, Actors
  <1> QED BY <1>1, <1>2 DEF AgreeInv

\* What builds are sure to see stays enough where no registration moves, no
\* build begins, and none loses what it saw.
LEMMA FreshIsKept ==
  ASSUME FreshInv, UNCHANGED <<gen, generation, completed, language>>,
         \A r \in Registrations : pc'[r] = pc[r],
         \A d \in Calls : pc'[d] # "unused" => pc[d] # "unused",
         \A b \in Calls : Begun(b)' => Begun(b) /\ Sees(b) \subseteq Sees(b)'
  PROVE  FreshInv'
<1>1. Bumped' = Bumped
  BY DEF Bumped
<1>2. QED
  BY <1>1 DEF FreshInv

\* Every step of a registration or of a dispatch keeps the tiers in
\* agreement.
LEMMA StepAgrees == AgreeInv /\ [Next]_vars => AgreeInv'
<1> SUFFICES ASSUME AgreeInv, [Next]_vars PROVE AgreeInv' OBVIOUS
<1> USE NoneAssumption, DisjointAssumption
<1> USE DEF AgreeInv, From, vars, keyVars, buildVars, worldVars, tier1Vars
<1>1. ASSUME NEW r \in Registrations, NEW t \in Threads, Mutate(r, t) PROVE AgreeInv'
  <2>1. TypeOK'
    <3>1. language' \subseteq Changes
      BY <1>1 DEF TypeOK, Mutate, Parts, Changes
    <3>2. pc' \in [Actors -> CallSteps \cup RegistrationSteps] /\ pc'[r] \in RegistrationSteps
      BY <1>1 DEF TypeOK, Mutate, RegistrationSteps, Actors
    <3>3. \A c \in Calls : pc'[c] = pc[c]
      BY <1>1 DEF TypeOK, Mutate, Actors
    <3>4. \A q \in Registrations : pc'[q] \in RegistrationSteps
      BY <1>1, <3>2 DEF TypeOK, Mutate, Actors
    <3> QED BY <1>1, <3>1, <3>2, <3>3, <3>4 DEF TypeOK, Served, Actors, Mutate
  <2>2. RecordInv'
    BY <1>1 DEF TypeOK, RecordInv, ArtifactInv, WaitInv, Served, Key, Building, Actors,
        Mutate
  <2>3. ArtifactInv'
    BY <1>1 DEF TypeOK, RecordInv, ArtifactInv, WaitInv, Served, Content, Actors,
        Rendering, Mutate
  <2>4. WaitInv'
    BY <1>1 DEF TypeOK, RecordInv, ArtifactInv, WaitInv, Served, Key, Content,
        Rendering, Building, Actors, Mutate
  <2>5. RenderInv'
    BY <1>1 DEF TypeOK, RecordInv, ArtifactInv, WaitInv, RenderInv, Rendered, Rendering,
        Content, Served, Actors, Mutate
  <2>6. LoweredInv'
    BY <1>1 DEF TypeOK, RecordInv, LoweredInv, Lowered, Served, Contents, Actors, Key,
        Mutate
  <2>7. FreshInv'
    <3>1. Bumped' = Bumped /\ \A b \in Calls : Begun(b)' = Begun(b) /\ Sees(b)' = Sees(b)
      BY <1>1 DEF TypeOK, Actors, Bumped, Begun, Lowered, Sees, Mutate
    <3>2. \A r2 \in Registrations : pc'[r2] \in {"mutated", "bumped", "done"} => Parts(r2) \subseteq language'
      BY <1>1 DEF TypeOK, Actors, FreshInv, Parts, Mutate
    <3>3. \A d \in Calls : completed'[d] \subseteq {r2 \in Registrations : pc'[r2] = "done"}
      BY <1>1 DEF TypeOK, Actors, FreshInv, Mutate
    <3> QED BY <1>1, <3>1, <3>2, <3>3 DEF TypeOK, Actors, FreshInv, Mutate
  <2> QED BY <2>1, <2>2, <2>3, <2>4, <2>5, <2>6, <2>7
<1>2. ASSUME NEW r \in Registrations, Abandon(r) PROVE AgreeInv'
  <2>1. TypeOK'
    BY <1>2 DEF TypeOK, CallSteps, RegistrationSteps, Building, Served, Actors,
        RecordInv, ArtifactInv, WaitInv, LoweredInv, Contents, Abandon
  <2>2. RecordInv'
    BY <1>2 DEF TypeOK, RecordInv, ArtifactInv, WaitInv, Served, Key, Building, Actors,
        Abandon
  <2>3. ArtifactInv'
    BY <1>2 DEF TypeOK, RecordInv, ArtifactInv, WaitInv, Served, Content, Actors,
        Rendering, Abandon
  <2>4. WaitInv'
    BY <1>2 DEF TypeOK, RecordInv, ArtifactInv, WaitInv, Served, Key, Content,
        Rendering, Building, Actors, Abandon
  <2>5. RenderInv'
    BY <1>2 DEF TypeOK, RecordInv, ArtifactInv, WaitInv, RenderInv, Rendered, Rendering,
        Content, Served, Actors, Abandon
  <2>6. LoweredInv'
    BY <1>2 DEF TypeOK, RecordInv, LoweredInv, Lowered, Served, Contents, Actors, Key,
        Abandon
  <2>7. FreshInv'
    <3>1. Bumped' = Bumped /\ \A b \in Calls : Begun(b)' = Begun(b) /\ Sees(b)' = Sees(b)
      BY <1>2 DEF TypeOK, Actors, Bumped, Begun, Lowered, Sees, Abandon
    <3>2. \A r2 \in Registrations : pc'[r2] \in {"mutated", "bumped", "done"} => Parts(r2) \subseteq language'
      BY <1>2 DEF TypeOK, Actors, FreshInv, Parts, Abandon
    <3>3. \A d \in Calls : completed'[d] \subseteq {r2 \in Registrations : pc'[r2] = "done"}
      BY <1>2 DEF TypeOK, Actors, FreshInv, Abandon
    <3> QED BY <1>2, <3>1, <3>2, <3>3 DEF TypeOK, Actors, FreshInv, Abandon
  <2> QED BY <2>1, <2>2, <2>3, <2>4, <2>5, <2>6, <2>7
<1>3. ASSUME NEW r \in Registrations, Bump(r) PROVE AgreeInv'
  <2>1. TypeOK'
    BY <1>3 DEF TypeOK, CallSteps, RegistrationSteps, Building, Served, Actors,
        RecordInv, ArtifactInv, WaitInv, LoweredInv, Contents, Bump
  <2>2. RecordInv'
    BY <1>3 DEF TypeOK, RecordInv, ArtifactInv, WaitInv, Served, Key, Building, Actors,
        Bump
  <2>3. ArtifactInv'
    BY <1>3 DEF TypeOK, RecordInv, ArtifactInv, WaitInv, Served, Content, Actors,
        Rendering, Bump
  <2>4. WaitInv'
    BY <1>3 DEF TypeOK, RecordInv, ArtifactInv, WaitInv, Served, Key, Content,
        Rendering, Building, Actors, Bump
  <2>5. RenderInv'
    BY <1>3 DEF TypeOK, RecordInv, ArtifactInv, WaitInv, RenderInv, Rendered, Rendering,
        Content, Served, Actors, Bump
  <2>6. LoweredInv'
    BY <1>3 DEF TypeOK, RecordInv, LoweredInv, Lowered, Served, Contents, Actors, Key,
        Bump
  <2>7. FreshInv'
    <3>1. \A b \in Calls : Begun(b)' = Begun(b) /\ Sees(b)' = Sees(b)
      BY <1>3 DEF TypeOK, Actors, Begun, Lowered, Sees, Bump
    <3>2. \A b \in Calls : Begun(b) => gen'[b] # generation'
      BY <1>3 DEF TypeOK, RecordInv, Served, Begun, Lowered, Bump
    <3>3. \A r2 \in Registrations : pc'[r2] \in {"mutated", "bumped", "done"} => Parts(r2) \subseteq language'
      BY <1>3 DEF TypeOK, Actors, FreshInv, Bump
    <3>4. \A d \in Calls : completed'[d] \subseteq {r2 \in Registrations : pc'[r2] = "done"}
      BY <1>3 DEF TypeOK, Actors, FreshInv, Bump
    <3> QED BY <1>3, <3>1, <3>2, <3>3, <3>4 DEF TypeOK, Actors, FreshInv, Bump
  <2> QED BY <2>1, <2>2, <2>3, <2>4, <2>5, <2>6, <2>7
<1>4. ASSUME NEW r \in Registrations, Swap(r) PROVE AgreeInv'
  <2>1. TypeOK'
    BY <1>4 DEF TypeOK, CallSteps, RegistrationSteps, Building, Served, Actors,
        RecordInv, ArtifactInv, WaitInv, LoweredInv, Contents, Swap
  <2>2. RecordInv'
    BY <1>4 DEF TypeOK, RecordInv, ArtifactInv, WaitInv, Served, Key, Building, Actors,
        Swap
  <2>3. ArtifactInv'
    BY <1>4 DEF TypeOK, RecordInv, ArtifactInv, WaitInv, Served, Content, Actors,
        Rendering, Swap
  <2>4. WaitInv'
    BY <1>4 DEF TypeOK, RecordInv, ArtifactInv, WaitInv, Served, Key, Content,
        Rendering, Building, Actors, Swap
  <2>5. RenderInv'
    BY <1>4 DEF TypeOK, RecordInv, ArtifactInv, WaitInv, RenderInv, Rendered, Rendering,
        Content, Served, Actors, Swap
  <2>6. LoweredInv'
    BY <1>4 DEF TypeOK, RecordInv, LoweredInv, Lowered, Served, Contents, Actors, Key,
        Swap
  <2>7. FreshInv'
    <3>1. Bumped' = Bumped /\ \A b \in Calls : Begun(b)' = Begun(b) /\ Sees(b)' = Sees(b)
      BY <1>4 DEF TypeOK, Actors, Bumped, Begun, Lowered, Sees, Swap
    <3>2. \A r2 \in Registrations : pc'[r2] \in {"mutated", "bumped", "done"} => Parts(r2) \subseteq language'
      BY <1>4 DEF TypeOK, Actors, FreshInv, Parts, Swap
    <3>3. \A d \in Calls : completed'[d] \subseteq {r2 \in Registrations : pc'[r2] = "done"}
      BY <1>4 DEF TypeOK, Actors, FreshInv, Swap
    <3> QED BY <1>4, <3>1, <3>2, <3>3 DEF TypeOK, Actors, FreshInv, Swap
  <2> QED BY <2>1, <2>2, <2>3, <2>4, <2>5, <2>6, <2>7
<1>5. ASSUME NEW c \in Calls, NEW t \in Threads, NEW k \in Kernels, Begin(c, t, k) PROVE AgreeInv'
  <2>1. TypeOK'
    BY <1>5 DEF TypeOK, CallSteps, RegistrationSteps, Building, Served, Actors,
        RecordInv, ArtifactInv, WaitInv, LoweredInv, Contents, Begin
  <2>2. RecordInv'
    BY <1>5 DEF TypeOK, RecordInv, ArtifactInv, WaitInv, Served, Key, Building, Actors,
        Begin
  <2>3. ArtifactInv'
    BY <1>5 DEF TypeOK, RecordInv, ArtifactInv, WaitInv, Served, Content, Actors,
        Rendering, Begin
  <2>4. WaitInv'
    BY <1>5 DEF TypeOK, RecordInv, ArtifactInv, WaitInv, Served, Key, Content,
        Rendering, Building, Actors, Begin
  <2>5. RenderInv'
    BY <1>5 DEF TypeOK, RecordInv, ArtifactInv, WaitInv, RenderInv, Rendered, Rendering,
        Content, Served, Actors, Begin
  <2>6. LoweredInv'
    BY <1>5 DEF TypeOK, RecordInv, LoweredInv, Lowered, Served, Contents, Actors, Key,
        Begin
  <2>7. FreshInv'
    <3>1. Bumped' = Bumped /\ {r \in Registrations : pc'[r] = "done"} = {r \in Registrations : pc[r] = "done"}
      BY <1>5 DEF TypeOK, Actors, Bumped, Begin
    <3>2. \A b \in Calls : Begun(b)' => b # c /\ Begun(b) /\ Sees(b)' = Sees(b)
      BY <1>5 DEF TypeOK, Actors, RecordInv, Served, Begun, Lowered, Sees, Begin
    <3>3. PartsOf({r \in Registrations : pc[r] = "done"}) \subseteq PartsOf(Bumped)
      BY DEF PartsOf, Bumped
    <3>4. \A d \in Calls : completed'[d] \subseteq {r \in Registrations : pc'[r] = "done"}
      BY <1>5, <3>1 DEF TypeOK, FreshInv, Begin
    <3>5. \A b \in Calls : Begun(b)' /\ gen'[b] = generation' => PartsOf(Bumped') \subseteq Sees(b)'
      BY <1>5, <3>1, <3>2 DEF TypeOK, FreshInv, Begin
    <3>6. \A b, d \in Calls : Begun(b)' /\ pc'[d] # "unused" /\ gen'[b] = gen'[d] =>
            PartsOf(completed'[d]) \subseteq Sees(b)'
      <4>1. SUFFICES ASSUME NEW b \in Calls, NEW d \in Calls, Begun(b)', pc'[d] # "unused", gen'[b] = gen'[d]
                     PROVE  PartsOf(completed'[d]) \subseteq Sees(b)'
        OBVIOUS
      <4>2. b # c /\ Begun(b) /\ Sees(b)' = Sees(b) /\ gen'[b] = gen[b]
        BY <1>5, <3>2, <4>1 DEF TypeOK, Begin
      <4>3. CASE d = c
        <5>1. gen[b] = generation /\ completed'[d] = {r \in Registrations : pc[r] = "done"}
          BY <1>5, <4>1, <4>2, <4>3 DEF TypeOK, Begin
        <5> QED BY <3>3, <4>2, <5>1 DEF FreshInv
      <4>4. CASE d # c
        <5>1. pc[d] # "unused" /\ gen[d] = gen[b] /\ completed'[d] = completed[d]
          BY <1>5, <4>1, <4>2, <4>4 DEF TypeOK, Actors, Begin
        <5> QED BY <4>2, <5>1 DEF FreshInv
      <4> QED BY <4>3, <4>4
    <3>7. \A r2 \in Registrations : pc'[r2] \in {"mutated", "bumped", "done"} => Parts(r2) \subseteq language'
      BY <1>5 DEF TypeOK, Actors, FreshInv, Begin
    <3> QED BY <3>4, <3>5, <3>6, <3>7 DEF FreshInv
  <2> QED BY <2>1, <2>2, <2>3, <2>4, <2>5, <2>6, <2>7
<1>6. ASSUME NEW c \in Calls, RecordHit(c) PROVE AgreeInv'
  <2>1. TypeOK'
    BY <1>6 DEF TypeOK, CallSteps, RegistrationSteps, Building, Served, Actors,
        RecordInv, ArtifactInv, WaitInv, LoweredInv, Contents, RecordHit
  <2>2. RecordInv'
    BY <1>6 DEF TypeOK, RecordInv, ArtifactInv, WaitInv, Served, Key, Building, Actors,
        RecordHit
  <2>3. ArtifactInv'
    BY <1>6 DEF TypeOK, RecordInv, ArtifactInv, WaitInv, Served, Content, Actors,
        Rendering, RecordHit
  <2>4. WaitInv'
    BY <1>6 DEF TypeOK, RecordInv, ArtifactInv, WaitInv, Served, Key, Content,
        Rendering, Building, Actors, RecordHit
  <2>5. RenderInv'
    BY <1>6 DEF TypeOK, RecordInv, ArtifactInv, WaitInv, RenderInv, Rendered, Rendering,
        Content, Served, Actors, RecordHit
  <2>6. LoweredInv'
    BY <1>6 DEF TypeOK, RecordInv, LoweredInv, Lowered, Served, Contents, Actors, Key,
        RecordHit
  <2>7. FreshInv'
    <3>1. UNCHANGED <<gen, generation, completed, language>> /\ \A r \in Registrations : pc'[r] = pc[r]
      BY <1>6 DEF TypeOK, Actors, RecordHit
    <3>2. \A d \in Calls : pc'[d] # "unused" => pc[d] # "unused"
      BY <1>6 DEF TypeOK, Actors, RecordHit
    <3>3. \A b \in Calls : Begun(b)' => Begun(b) /\ Sees(b) \subseteq Sees(b)'
      BY <1>6 DEF TypeOK, Actors, RecordInv, Served, Begun, Lowered, Sees, RecordHit
    <3> QED BY <3>1, <3>2, <3>3, FreshIsKept
  <2> QED BY <2>1, <2>2, <2>3, <2>4, <2>5, <2>6, <2>7
<1>7. ASSUME NEW c \in Calls, RecordLead(c) PROVE AgreeInv'
  <2>1. TypeOK'
    BY <1>7 DEF TypeOK, CallSteps, RegistrationSteps, Building, Served, Actors,
        RecordInv, ArtifactInv, WaitInv, LoweredInv, Contents, RecordLead, NoRecord,
        InFlight1
  <2>2. RecordInv'
    BY <1>7 DEF TypeOK, RecordInv, ArtifactInv, WaitInv, Served, Key, Building, Actors,
        RecordLead, NoRecord, InFlight1
  <2>3. ArtifactInv'
    BY <1>7 DEF TypeOK, RecordInv, ArtifactInv, WaitInv, Served, Content, Actors,
        Rendering, RecordLead, NoRecord, InFlight1
  <2>4. WaitInv'
    BY <1>7 DEF TypeOK, RecordInv, ArtifactInv, WaitInv, Served, Key, Content,
        Rendering, Building, Actors, RecordLead, NoRecord, InFlight1
  <2>5. RenderInv'
    BY <1>7 DEF TypeOK, RecordInv, ArtifactInv, WaitInv, RenderInv, Rendered, Rendering,
        Content, Served, Actors, RecordLead, NoRecord, InFlight1
  <2>6. LoweredInv'
    BY <1>7 DEF TypeOK, RecordInv, LoweredInv, Lowered, Served, Contents, Actors, Key,
        RecordLead, NoRecord, InFlight1
  <2>7. FreshInv'
    <3>1. \A r \in Registrations : pc'[r] = pc[r]
      BY <1>7 DEF TypeOK, Actors, RecordLead
    <3>2. \A b \in Calls : Begun(b)' => (Begun(b) /\ Sees(b)' = Sees(b)) \/ Sees(b)' = language
      BY <1>7 DEF TypeOK, Actors, Begun, Lowered, Sees, RecordLead
    <3>3. PartsOf(Bumped) \subseteq language /\ \A d \in Calls : PartsOf(completed[d]) \subseteq language
      BY DEF FreshInv, PartsOf, Bumped
    <3>4. Bumped' = Bumped /\ \A d \in Calls : pc'[d] # "unused" => pc[d] # "unused"
      BY <1>7, <3>1 DEF TypeOK, Actors, Bumped, RecordLead
    <3> QED BY <1>7, <3>1, <3>2, <3>3, <3>4 DEF FreshInv, RecordLead
  <2> QED BY <2>1, <2>2, <2>3, <2>4, <2>5, <2>6, <2>7
<1>8. ASSUME NEW c \in Calls, RecordJoin(c) PROVE AgreeInv'
  <2>1. TypeOK'
    BY <1>8 DEF TypeOK, CallSteps, RegistrationSteps, Building, Served, Actors,
        RecordInv, ArtifactInv, WaitInv, LoweredInv, Contents, RecordJoin, InFlight1,
        NoRecord
  <2>2. RecordInv'
    BY <1>8 DEF TypeOK, RecordInv, ArtifactInv, WaitInv, Served, Key, Building, Actors,
        RecordJoin, InFlight1, NoRecord
  <2>3. ArtifactInv'
    BY <1>8 DEF TypeOK, RecordInv, ArtifactInv, WaitInv, Served, Content, Actors,
        Rendering, RecordJoin, InFlight1, NoRecord, Building
  <2>4. WaitInv'
    BY <1>8 DEF TypeOK, RecordInv, ArtifactInv, WaitInv, Served, Key, Content,
        Rendering, Building, Actors, RecordJoin, InFlight1, NoRecord
  <2>5. RenderInv'
    BY <1>8 DEF TypeOK, RecordInv, ArtifactInv, WaitInv, RenderInv, Rendered, Rendering,
        Content, Served, Actors, RecordJoin, InFlight1, NoRecord, Building
  <2>6. LoweredInv'
    BY <1>8 DEF TypeOK, RecordInv, LoweredInv, Lowered, Served, Contents, Actors, Key,
        RecordJoin, InFlight1, NoRecord, Building
  <2>7. FreshInv'
    <3>1. UNCHANGED <<gen, generation, completed, language>> /\ \A r \in Registrations : pc'[r] = pc[r]
      BY <1>8 DEF TypeOK, Actors, RecordJoin
    <3>2. \A d \in Calls : pc'[d] # "unused" => pc[d] # "unused"
      BY <1>8 DEF TypeOK, Actors, RecordJoin
    <3>3. \A b \in Calls : Begun(b)' => Begun(b) /\ Sees(b) \subseteq Sees(b)'
      BY <1>8 DEF TypeOK, Actors, RecordInv, Served, Begun, Lowered, Sees, RecordJoin, InFlight1, NoRecord
    <3> QED BY <3>1, <3>2, <3>3, FreshIsKept
  <2> QED BY <2>1, <2>2, <2>3, <2>4, <2>5, <2>6, <2>7
<1>9. ASSUME NEW c \in Calls, RecordWake(c) PROVE AgreeInv'
  <2>1. TypeOK'
    <3>1. CASE From(c, "wait1", "pack") /\ recordOf[slot[c]] # None
      BY <1>9, <3>1 DEF TypeOK, CallSteps, RegistrationSteps, Building, Served, Actors, RecordWake
    <3>2. CASE From(c, "wait1", "raised") /\ pc[slot[c]] = "raised"
      BY <1>9, <3>2 DEF TypeOK, CallSteps, RegistrationSteps, Building, Served, Actors, RecordWake
    <3> QED BY <1>9, <3>1, <3>2 DEF RecordWake
  <2>2. RecordInv'
    BY <1>9 DEF TypeOK, RecordInv, ArtifactInv, WaitInv, Served, Key, Building, Actors,
        RecordWake
  <2>3. ArtifactInv'
    BY <1>9 DEF TypeOK, RecordInv, ArtifactInv, WaitInv, Served, Content, Actors,
        Rendering, RecordWake
  <2>4. WaitInv'
    BY <1>9 DEF TypeOK, RecordInv, ArtifactInv, WaitInv, Served, Key, Content,
        Rendering, Building, Actors, RecordWake
  <2>5. RenderInv'
    BY <1>9 DEF TypeOK, RecordInv, ArtifactInv, WaitInv, RenderInv, Rendered, Rendering,
        Content, Served, Actors, RecordWake
  <2>6. LoweredInv'
    BY <1>9 DEF TypeOK, RecordInv, LoweredInv, Lowered, Served, Contents, Actors, Key,
        RecordWake
  <2>7. FreshInv'
    <3>1. UNCHANGED <<gen, generation, completed, language>> /\ \A r \in Registrations : pc'[r] = pc[r]
      BY <1>9 DEF TypeOK, Actors, RecordWake
    <3>2. \A d \in Calls : pc'[d] # "unused" => pc[d] # "unused"
      BY <1>9 DEF TypeOK, Actors, RecordWake
    <3>3. \A b \in Calls : Begun(b)' => Begun(b) /\ Sees(b) \subseteq Sees(b)'
      BY <1>9 DEF TypeOK, Actors, RecordInv, Served, Begun, Lowered, Sees, RecordWake
    <3> QED BY <3>1, <3>2, <3>3, FreshIsKept
  <2> QED BY <2>1, <2>2, <2>3, <2>4, <2>5, <2>6, <2>7
<1>10. ASSUME NEW c \in Calls, Lower(c) PROVE AgreeInv'
  <2>1. TypeOK'
    BY <1>10 DEF TypeOK, CallSteps, RegistrationSteps, Building, Served, Actors,
        RecordInv, ArtifactInv, WaitInv, LoweredInv, Contents, Lower
  <2>2. RecordInv'
    BY <1>10 DEF TypeOK, RecordInv, ArtifactInv, WaitInv, Served, Key, Building, Actors,
        Lower
  <2>3. ArtifactInv'
    BY <1>10 DEF TypeOK, RecordInv, ArtifactInv, WaitInv, Served, Content, Actors,
        Rendering, Lower
  <2>4. WaitInv'
    BY <1>10 DEF TypeOK, RecordInv, ArtifactInv, WaitInv, Served, Key, Content,
        Rendering, Building, Actors, Lower
  <2>5. RenderInv'
    <3>1. ~ Rendered(c) /\ ~ Rendered(c)'
      BY <1>10 DEF TypeOK, RecordInv, ArtifactInv, Rendered, Rendering, Served, Actors, Lower
    <3>2. \A d \in Calls \ {c} : Rendered(d)' = Rendered(d) /\ Content(d)' = Content(d)
      BY <1>10 DEF TypeOK, Rendered, Content, Actors, Lower
    <3> QED BY <3>1, <3>2 DEF RenderInv
  <2>6. LoweredInv'
    BY <1>10 DEF TypeOK, RecordInv, LoweredInv, Lowered, Served, Contents, Actors, Key,
        Lower
  <2>7. FreshInv'
    <3>1. UNCHANGED <<gen, generation, completed, language>> /\ \A r \in Registrations : pc'[r] = pc[r]
      BY <1>10 DEF TypeOK, Actors, Lower
    <3>2. \A d \in Calls : pc'[d] # "unused" => pc[d] # "unused"
      BY <1>10 DEF TypeOK, Actors, Lower
    <3>3. \A b \in Calls : Begun(b)' => Begun(b) /\ Sees(b) \subseteq Sees(b)'
      BY <1>10 DEF TypeOK, Actors, RecordInv, Served, Begun, Lowered, Sees, Lower
    <3> QED BY <3>1, <3>2, <3>3, FreshIsKept
  <2> QED BY <2>1, <2>2, <2>3, <2>4, <2>5, <2>6, <2>7
<1>11. ASSUME NEW c \in Calls, LowerFails(c) PROVE AgreeInv'
  <2>1. TypeOK'
    BY <1>11 DEF TypeOK, CallSteps, RegistrationSteps, Building, Served, Actors,
        RecordInv, ArtifactInv, WaitInv, LoweredInv, Contents, LowerFails
  <2>2. RecordInv'
    BY <1>11 DEF TypeOK, RecordInv, ArtifactInv, WaitInv, Served, Key, Building, Actors,
        LowerFails
  <2>3. ArtifactInv'
    BY <1>11 DEF TypeOK, RecordInv, ArtifactInv, WaitInv, Served, Content, Actors,
        Rendering, LowerFails
  <2>4. WaitInv'
    BY <1>11 DEF TypeOK, RecordInv, ArtifactInv, WaitInv, Served, Key, Content,
        Rendering, Building, Actors, LowerFails
  <2>5. RenderInv'
    BY <1>11 DEF TypeOK, RecordInv, ArtifactInv, WaitInv, RenderInv, Rendered,
        Rendering, Content, Served, Actors, LowerFails
  <2>6. LoweredInv'
    BY <1>11 DEF TypeOK, RecordInv, LoweredInv, Lowered, Served, Contents, Actors, Key,
        LowerFails
  <2>7. FreshInv'
    <3>1. UNCHANGED <<gen, generation, completed, language>> /\ \A r \in Registrations : pc'[r] = pc[r]
      BY <1>11 DEF TypeOK, Actors, LowerFails
    <3>2. \A d \in Calls : pc'[d] # "unused" => pc[d] # "unused"
      BY <1>11 DEF TypeOK, Actors, LowerFails
    <3>3. \A b \in Calls : Begun(b)' => Begun(b) /\ Sees(b) \subseteq Sees(b)'
      BY <1>11 DEF TypeOK, Actors, RecordInv, Served, Begun, Lowered, Sees, LowerFails
    <3> QED BY <3>1, <3>2, <3>3, FreshIsKept
  <2> QED BY <2>1, <2>2, <2>3, <2>4, <2>5, <2>6, <2>7
<1>12. ASSUME NEW c \in Calls, ReadArtifacts(c) PROVE AgreeInv'
  <2>1. TypeOK'
    BY <1>12 DEF TypeOK, CallSteps, RegistrationSteps, Building, Served, Actors,
        RecordInv, ArtifactInv, WaitInv, LoweredInv, Contents, ReadArtifacts
  <2>2. RecordInv'
    BY <1>12 DEF TypeOK, RecordInv, ArtifactInv, WaitInv, Served, Key, Building, Actors,
        ReadArtifacts
  <2>3. ArtifactInv'
    BY <1>12 DEF TypeOK, RecordInv, ArtifactInv, WaitInv, Served, Content, Actors,
        Rendering, ReadArtifacts
  <2>4. WaitInv'
    BY <1>12 DEF TypeOK, RecordInv, ArtifactInv, WaitInv, Served, Key, Content,
        Rendering, Building, Actors, ReadArtifacts
  <2>5. RenderInv'
    BY <1>12 DEF TypeOK, RecordInv, ArtifactInv, WaitInv, RenderInv, Rendered,
        Rendering, Content, Served, Actors, ReadArtifacts
  <2>6. LoweredInv'
    BY <1>12 DEF TypeOK, RecordInv, LoweredInv, Lowered, Served, Contents, Actors, Key,
        ReadArtifacts
  <2>7. FreshInv'
    <3>1. UNCHANGED <<gen, generation, completed, language>> /\ \A r \in Registrations : pc'[r] = pc[r]
      BY <1>12 DEF TypeOK, Actors, ReadArtifacts
    <3>2. \A d \in Calls : pc'[d] # "unused" => pc[d] # "unused"
      BY <1>12 DEF TypeOK, Actors, ReadArtifacts
    <3>3. \A b \in Calls : Begun(b)' => Begun(b) /\ Sees(b) \subseteq Sees(b)'
      BY <1>12 DEF TypeOK, Actors, RecordInv, Served, Begun, Lowered, Sees, ReadArtifacts
    <3> QED BY <3>1, <3>2, <3>3, FreshIsKept
  <2> QED BY <2>1, <2>2, <2>3, <2>4, <2>5, <2>6, <2>7
<1>13. ASSUME NEW c \in Calls, ArtifactHit(c) PROVE AgreeInv'
  <2>1. TypeOK'
    BY <1>13 DEF TypeOK, CallSteps, RegistrationSteps, Building, Served, Actors,
        RecordInv, ArtifactInv, WaitInv, LoweredInv, Contents, ArtifactHit
  <2>2. RecordInv'
    BY <1>13 DEF TypeOK, RecordInv, ArtifactInv, WaitInv, Served, Key, Building, Actors,
        ArtifactHit
  <2>3. ArtifactInv'
    BY <1>13 DEF TypeOK, RecordInv, ArtifactInv, WaitInv, Served, Content, Actors,
        Rendering, ArtifactHit
  <2>4. WaitInv'
    BY <1>13 DEF TypeOK, RecordInv, ArtifactInv, WaitInv, Served, Key, Content,
        Rendering, Building, Actors, ArtifactHit
  <2>5. RenderInv'
    BY <1>13 DEF TypeOK, RecordInv, ArtifactInv, WaitInv, RenderInv, Rendered,
        Rendering, Content, Served, Actors, ArtifactHit
  <2>6. LoweredInv'
    BY <1>13 DEF TypeOK, RecordInv, LoweredInv, Lowered, Served, Contents, Actors, Key,
        ArtifactHit
  <2>7. FreshInv'
    <3>1. UNCHANGED <<gen, generation, completed, language>> /\ \A r \in Registrations : pc'[r] = pc[r]
      BY <1>13 DEF TypeOK, Actors, ArtifactHit
    <3>2. \A d \in Calls : pc'[d] # "unused" => pc[d] # "unused"
      BY <1>13 DEF TypeOK, Actors, ArtifactHit
    <3>3. \A b \in Calls : Begun(b)' => Begun(b) /\ Sees(b) \subseteq Sees(b)'
      BY <1>13 DEF TypeOK, Actors, RecordInv, Served, Begun, Lowered, Sees, ArtifactHit
    <3> QED BY <3>1, <3>2, <3>3, FreshIsKept
  <2> QED BY <2>1, <2>2, <2>3, <2>4, <2>5, <2>6, <2>7
<1>14. ASSUME NEW c \in Calls, ArtifactLead(c) PROVE AgreeInv'
  <2>1. TypeOK'
    BY <1>14 DEF TypeOK, CallSteps, RegistrationSteps, Building, Served, Actors,
        RecordInv, ArtifactInv, WaitInv, LoweredInv, Contents, ArtifactLead, NoArtifact,
        InFlight2
  <2>2. RecordInv'
    BY <1>14 DEF TypeOK, RecordInv, ArtifactInv, WaitInv, Served, Key, Building, Actors,
        ArtifactLead, NoArtifact, InFlight2
  <2>3. ArtifactInv'
    BY <1>14 DEF TypeOK, RecordInv, ArtifactInv, WaitInv, Served, Content, Actors,
        Rendering, ArtifactLead, NoArtifact, InFlight2
  <2>4. WaitInv'
    BY <1>14 DEF TypeOK, RecordInv, ArtifactInv, WaitInv, Served, Key, Content,
        Rendering, Building, Actors, ArtifactLead, NoArtifact, InFlight2
  <2>5. RenderInv'
    BY <1>14 DEF TypeOK, RecordInv, ArtifactInv, WaitInv, RenderInv, Rendered,
        Rendering, Content, Served, Actors, ArtifactLead, NoArtifact, InFlight2
  <2>6. LoweredInv'
    BY <1>14 DEF TypeOK, RecordInv, LoweredInv, Lowered, Served, Contents, Actors, Key,
        ArtifactLead, NoArtifact, InFlight2
  <2>7. FreshInv'
    <3>1. UNCHANGED <<gen, generation, completed, language>> /\ \A r \in Registrations : pc'[r] = pc[r]
      BY <1>14 DEF TypeOK, Actors, ArtifactLead
    <3>2. \A d \in Calls : pc'[d] # "unused" => pc[d] # "unused"
      BY <1>14 DEF TypeOK, Actors, ArtifactLead
    <3>3. \A b \in Calls : Begun(b)' => Begun(b) /\ Sees(b) \subseteq Sees(b)'
      BY <1>14 DEF TypeOK, Actors, RecordInv, Served, Begun, Lowered, Sees, ArtifactLead, NoArtifact, InFlight2
    <3> QED BY <3>1, <3>2, <3>3, FreshIsKept
  <2> QED BY <2>1, <2>2, <2>3, <2>4, <2>5, <2>6, <2>7
<1>15. ASSUME NEW c \in Calls, ArtifactJoin(c) PROVE AgreeInv'
  <2>1. TypeOK'
    <3>1. PICK d \in InFlight2(c) : slot' = [slot EXCEPT ![c] = d]
      BY <1>15 DEF ArtifactJoin
    <3>2. d \in Calls /\ d # c
      BY <1>15 DEF ArtifactJoin, InFlight2, Rendering
    <3> QED BY <1>15, <3>1, <3>2 DEF TypeOK, CallSteps, RegistrationSteps, Building, Served, Actors, ArtifactJoin
  <2>2. RecordInv'
    BY <1>15 DEF TypeOK, RecordInv, ArtifactInv, WaitInv, Served, Key, Building, Actors,
        ArtifactJoin, NoArtifact, InFlight2
  <2>3. ArtifactInv'
    BY <1>15 DEF TypeOK, RecordInv, ArtifactInv, WaitInv, Served, Content, Actors,
        Rendering, ArtifactJoin, NoArtifact, InFlight2
  <2>4. WaitInv'
    BY <1>15 DEF TypeOK, RecordInv, ArtifactInv, WaitInv, Served, Key, Content,
        Rendering, Building, Actors, ArtifactJoin, NoArtifact, InFlight2
  <2>5. RenderInv'
    BY <1>15 DEF TypeOK, RecordInv, ArtifactInv, WaitInv, RenderInv, Rendered,
        Rendering, Content, Served, Actors, ArtifactJoin, NoArtifact, InFlight2
  <2>6. LoweredInv'
    BY <1>15 DEF TypeOK, RecordInv, LoweredInv, Lowered, Served, Contents, Actors, Key,
        ArtifactJoin, NoArtifact, InFlight2
  <2>7. FreshInv'
    <3>1. UNCHANGED <<gen, generation, completed, language>> /\ \A r \in Registrations : pc'[r] = pc[r]
      BY <1>15 DEF TypeOK, Actors, ArtifactJoin
    <3>2. \A d \in Calls : pc'[d] # "unused" => pc[d] # "unused"
      BY <1>15 DEF TypeOK, Actors, ArtifactJoin
    <3>3. \A b \in Calls : Begun(b)' => Begun(b) /\ Sees(b) \subseteq Sees(b)'
      BY <1>15 DEF TypeOK, Actors, RecordInv, Served, Begun, Lowered, Sees, ArtifactJoin, NoArtifact, InFlight2
    <3> QED BY <3>1, <3>2, <3>3, FreshIsKept
  <2> QED BY <2>1, <2>2, <2>3, <2>4, <2>5, <2>6, <2>7
<1>16. ASSUME NEW c \in Calls, ArtifactWake(c) PROVE AgreeInv'
  <2>1. TypeOK'
    <3>1. CASE From(c, "wait2", "install") /\ artifactOf[slot[c]] # None
      BY <1>16, <3>1 DEF TypeOK, CallSteps, RegistrationSteps, Building, Served, Actors, ArtifactWake
    <3>2. CASE From(c, "wait2", "failed") /\ pc[slot[c]] \in {"failed", "raised"}
      BY <1>16, <3>2 DEF TypeOK, CallSteps, RegistrationSteps, Building, Served, Actors, ArtifactWake
    <3> QED BY <1>16, <3>1, <3>2 DEF ArtifactWake
  <2>2. RecordInv'
    BY <1>16 DEF TypeOK, RecordInv, ArtifactInv, WaitInv, Served, Key, Building, Actors,
        ArtifactWake
  <2>3. ArtifactInv'
    BY <1>16 DEF TypeOK, RecordInv, ArtifactInv, WaitInv, Served, Content, Actors,
        Rendering, ArtifactWake
  <2>4. WaitInv'
    BY <1>16 DEF TypeOK, RecordInv, ArtifactInv, WaitInv, Served, Key, Content,
        Rendering, Building, Actors, ArtifactWake
  <2>5. RenderInv'
    BY <1>16 DEF TypeOK, RecordInv, ArtifactInv, WaitInv, RenderInv, Rendered,
        Rendering, Content, Served, Actors, ArtifactWake
  <2>6. LoweredInv'
    BY <1>16 DEF TypeOK, RecordInv, LoweredInv, Lowered, Served, Contents, Actors, Key,
        ArtifactWake
  <2>7. FreshInv'
    <3>1. UNCHANGED <<gen, generation, completed, language>> /\ \A r \in Registrations : pc'[r] = pc[r]
      BY <1>16 DEF TypeOK, Actors, ArtifactWake
    <3>2. \A d \in Calls : pc'[d] # "unused" => pc[d] # "unused"
      BY <1>16 DEF TypeOK, Actors, ArtifactWake
    <3>3. \A b \in Calls : Begun(b)' => Begun(b) /\ Sees(b) \subseteq Sees(b)'
      BY <1>16 DEF TypeOK, Actors, RecordInv, Served, Begun, Lowered, Sees, ArtifactWake
    <3> QED BY <3>1, <3>2, <3>3, FreshIsKept
  <2> QED BY <2>1, <2>2, <2>3, <2>4, <2>5, <2>6, <2>7
<1>17. ASSUME NEW c \in Calls, Render(c) PROVE AgreeInv'
  <2>1. TypeOK'
    BY <1>17 DEF TypeOK, CallSteps, RegistrationSteps, Building, Served, Actors,
        RecordInv, ArtifactInv, WaitInv, LoweredInv, Contents, Render
  <2>2. RecordInv'
    BY <1>17 DEF TypeOK, RecordInv, ArtifactInv, WaitInv, Served, Key, Building, Actors,
        Render
  <2>3. ArtifactInv'
    BY <1>17 DEF TypeOK, RecordInv, ArtifactInv, WaitInv, Served, Content, Actors,
        Rendering, Render
  <2>4. WaitInv'
    BY <1>17 DEF TypeOK, RecordInv, ArtifactInv, WaitInv, Served, Key, Content,
        Rendering, Building, Actors, Render
  <2>5. RenderInv'
    BY <1>17 DEF TypeOK, RecordInv, ArtifactInv, WaitInv, RenderInv, Rendered,
        Rendering, Content, Served, Actors, Render
  <2>6. LoweredInv'
    BY <1>17 DEF TypeOK, RecordInv, LoweredInv, Lowered, Served, Contents, Actors, Key,
        Render
  <2>7. FreshInv'
    <3>1. UNCHANGED <<gen, generation, completed, language>> /\ \A r \in Registrations : pc'[r] = pc[r]
      BY <1>17 DEF TypeOK, Actors, Render
    <3>2. \A d \in Calls : pc'[d] # "unused" => pc[d] # "unused"
      BY <1>17 DEF TypeOK, Actors, Render
    <3>3. \A b \in Calls : Begun(b)' => Begun(b) /\ Sees(b) \subseteq Sees(b)'
      BY <1>17 DEF TypeOK, Actors, RecordInv, Served, Begun, Lowered, Sees, Render
    <3> QED BY <3>1, <3>2, <3>3, FreshIsKept
  <2> QED BY <2>1, <2>2, <2>3, <2>4, <2>5, <2>6, <2>7
<1>18. ASSUME NEW c \in Calls, RenderFails(c) PROVE AgreeInv'
  <2>1. TypeOK'
    BY <1>18 DEF TypeOK, CallSteps, RegistrationSteps, Building, Served, Actors,
        RecordInv, ArtifactInv, WaitInv, LoweredInv, Contents, RenderFails
  <2>2. RecordInv'
    BY <1>18 DEF TypeOK, RecordInv, ArtifactInv, WaitInv, Served, Key, Building, Actors,
        RenderFails
  <2>3. ArtifactInv'
    BY <1>18 DEF TypeOK, RecordInv, ArtifactInv, WaitInv, Served, Content, Actors,
        Rendering, RenderFails
  <2>4. WaitInv'
    BY <1>18 DEF TypeOK, RecordInv, ArtifactInv, WaitInv, Served, Key, Content,
        Rendering, Building, Actors, RenderFails
  <2>5. RenderInv'
    BY <1>18 DEF TypeOK, RecordInv, ArtifactInv, WaitInv, RenderInv, Rendered,
        Rendering, Content, Served, Actors, RenderFails
  <2>6. LoweredInv'
    BY <1>18 DEF TypeOK, RecordInv, LoweredInv, Lowered, Served, Contents, Actors, Key,
        RenderFails
  <2>7. FreshInv'
    <3>1. UNCHANGED <<gen, generation, completed, language>> /\ \A r \in Registrations : pc'[r] = pc[r]
      BY <1>18 DEF TypeOK, Actors, RenderFails
    <3>2. \A d \in Calls : pc'[d] # "unused" => pc[d] # "unused"
      BY <1>18 DEF TypeOK, Actors, RenderFails
    <3>3. \A b \in Calls : Begun(b)' => Begun(b) /\ Sees(b) \subseteq Sees(b)'
      BY <1>18 DEF TypeOK, Actors, RecordInv, Served, Begun, Lowered, Sees, RenderFails
    <3> QED BY <3>1, <3>2, <3>3, FreshIsKept
  <2> QED BY <2>1, <2>2, <2>3, <2>4, <2>5, <2>6, <2>7
<1>19. ASSUME NEW c \in Calls, RecordFails(c) PROVE AgreeInv'
  <2>1. TypeOK'
    BY <1>19 DEF TypeOK, CallSteps, RegistrationSteps, Building, Served, Actors,
        RecordInv, ArtifactInv, WaitInv, LoweredInv, Contents, RecordFails
  <2>2. RecordInv'
    BY <1>19 DEF TypeOK, RecordInv, ArtifactInv, WaitInv, Served, Key, Building, Actors,
        RecordFails
  <2>3. ArtifactInv'
    BY <1>19 DEF TypeOK, RecordInv, ArtifactInv, WaitInv, Served, Content, Actors,
        Rendering, RecordFails
  <2>4. WaitInv'
    BY <1>19 DEF TypeOK, RecordInv, ArtifactInv, WaitInv, Served, Key, Content,
        Rendering, Building, Actors, RecordFails
  <2>5. RenderInv'
    BY <1>19 DEF TypeOK, RecordInv, ArtifactInv, WaitInv, RenderInv, Rendered,
        Rendering, Content, Served, Actors, RecordFails
  <2>6. LoweredInv'
    BY <1>19 DEF TypeOK, RecordInv, LoweredInv, Lowered, Served, Contents, Actors, Key,
        RecordFails
  <2>7. FreshInv'
    <3>1. UNCHANGED <<gen, generation, completed, language>> /\ \A r \in Registrations : pc'[r] = pc[r]
      BY <1>19 DEF TypeOK, Actors, RecordFails
    <3>2. \A d \in Calls : pc'[d] # "unused" => pc[d] # "unused"
      BY <1>19 DEF TypeOK, Actors, RecordFails
    <3>3. \A b \in Calls : Begun(b)' => Begun(b) /\ Sees(b) \subseteq Sees(b)'
      BY <1>19 DEF TypeOK, Actors, RecordInv, Served, Begun, Lowered, Sees, RecordFails
    <3> QED BY <3>1, <3>2, <3>3, FreshIsKept
  <2> QED BY <2>1, <2>2, <2>3, <2>4, <2>5, <2>6, <2>7
<1>20. ASSUME NEW c \in Calls, PublishArtifact(c) PROVE AgreeInv'
  <2>1. TypeOK'
    BY <1>20 DEF TypeOK, CallSteps, RegistrationSteps, Building, Served, Actors,
        RecordInv, ArtifactInv, WaitInv, LoweredInv, Contents, PublishArtifact
  <2>2. RecordInv'
    BY <1>20 DEF TypeOK, RecordInv, ArtifactInv, WaitInv, Served, Key, Building, Actors,
        PublishArtifact
  <2>3. ArtifactInv'
    BY <1>20 DEF TypeOK, RecordInv, ArtifactInv, WaitInv, Served, Content, Actors,
        Rendering, PublishArtifact
  <2>4. WaitInv'
    BY <1>20 DEF TypeOK, RecordInv, ArtifactInv, WaitInv, Served, Key, Content,
        Rendering, Building, Actors, PublishArtifact
  <2>5. RenderInv'
    BY <1>20 DEF TypeOK, RecordInv, ArtifactInv, WaitInv, RenderInv, Rendered,
        Rendering, Content, Served, Actors, PublishArtifact
  <2>6. LoweredInv'
    BY <1>20 DEF TypeOK, RecordInv, LoweredInv, Lowered, Served, Contents, Actors, Key,
        PublishArtifact
  <2>7. FreshInv'
    <3>1. UNCHANGED <<gen, generation, completed, language>> /\ \A r \in Registrations : pc'[r] = pc[r]
      BY <1>20 DEF TypeOK, Actors, PublishArtifact
    <3>2. \A d \in Calls : pc'[d] # "unused" => pc[d] # "unused"
      BY <1>20 DEF TypeOK, Actors, PublishArtifact
    <3>3. \A b \in Calls : Begun(b)' => Begun(b) /\ Sees(b) \subseteq Sees(b)'
      BY <1>20 DEF TypeOK, Actors, RecordInv, Served, Begun, Lowered, Sees, PublishArtifact
    <3> QED BY <3>1, <3>2, <3>3, FreshIsKept
  <2> QED BY <2>1, <2>2, <2>3, <2>4, <2>5, <2>6, <2>7
<1>21. ASSUME NEW c \in Calls, Install(c) PROVE AgreeInv'
  <2>1. TypeOK'
    BY <1>21 DEF TypeOK, CallSteps, RegistrationSteps, Building, Served, Actors,
        RecordInv, ArtifactInv, WaitInv, LoweredInv, Contents, Install
  <2>2. RecordInv'
    BY <1>21 DEF TypeOK, RecordInv, ArtifactInv, WaitInv, Served, Key, Building, Actors,
        Install
  <2>3. ArtifactInv'
    BY <1>21 DEF TypeOK, RecordInv, ArtifactInv, WaitInv, Served, Content, Actors,
        Rendering, Install
  <2>4. WaitInv'
    BY <1>21 DEF TypeOK, RecordInv, ArtifactInv, WaitInv, Served, Key, Content,
        Rendering, Building, Actors, Install
  <2>5. RenderInv'
    BY <1>21 DEF TypeOK, RecordInv, ArtifactInv, WaitInv, RenderInv, Rendered,
        Rendering, Content, Served, Actors, Install
  <2>6. LoweredInv'
    BY <1>21 DEF TypeOK, RecordInv, LoweredInv, Lowered, Served, Contents, Actors, Key,
        Install
  <2>7. FreshInv'
    <3>1. UNCHANGED <<gen, generation, completed, language>> /\ \A r \in Registrations : pc'[r] = pc[r]
      BY <1>21 DEF TypeOK, Actors, Install
    <3>2. \A d \in Calls : pc'[d] # "unused" => pc[d] # "unused"
      BY <1>21 DEF TypeOK, Actors, Install
    <3>3. \A b \in Calls : Begun(b)' => Begun(b) /\ Sees(b) \subseteq Sees(b)'
      BY <1>21 DEF TypeOK, Actors, RecordInv, Served, Begun, Lowered, Sees, Install
    <3> QED BY <3>1, <3>2, <3>3, FreshIsKept
  <2> QED BY <2>1, <2>2, <2>3, <2>4, <2>5, <2>6, <2>7
<1>22. ASSUME NEW c \in Calls, Pack(c) PROVE AgreeInv'
  <2>1. TypeOK'
    BY <1>22 DEF TypeOK, CallSteps, RegistrationSteps, Building, Served, Actors,
        RecordInv, ArtifactInv, WaitInv, LoweredInv, Contents, Pack
  <2>2. RecordInv'
    BY <1>22 DEF TypeOK, RecordInv, ArtifactInv, WaitInv, Served, Key, Building, Actors,
        Pack
  <2>3. ArtifactInv'
    BY <1>22 DEF TypeOK, RecordInv, ArtifactInv, WaitInv, Served, Content, Actors,
        Rendering, Pack
  <2>4. WaitInv'
    BY <1>22 DEF TypeOK, RecordInv, ArtifactInv, WaitInv, Served, Key, Content,
        Rendering, Building, Actors, Pack
  <2>5. RenderInv'
    BY <1>22 DEF TypeOK, RecordInv, ArtifactInv, WaitInv, RenderInv, Rendered,
        Rendering, Content, Served, Actors, Pack
  <2>6. LoweredInv'
    BY <1>22 DEF TypeOK, RecordInv, LoweredInv, Lowered, Served, Contents, Actors, Key,
        Pack
  <2>7. FreshInv'
    <3>1. UNCHANGED <<gen, generation, completed, language>> /\ \A r \in Registrations : pc'[r] = pc[r]
      BY <1>22 DEF TypeOK, Actors, Pack
    <3>2. \A d \in Calls : pc'[d] # "unused" => pc[d] # "unused"
      BY <1>22 DEF TypeOK, Actors, Pack
    <3>3. \A b \in Calls : Begun(b)' => Begun(b) /\ Sees(b) \subseteq Sees(b)'
      BY <1>22 DEF TypeOK, Actors, RecordInv, Served, Begun, Lowered, Sees, Pack
    <3> QED BY <3>1, <3>2, <3>3, FreshIsKept
  <2> QED BY <2>1, <2>2, <2>3, <2>4, <2>5, <2>6, <2>7
<1>23. ASSUME NEW c \in Calls, Launch(c) PROVE AgreeInv'
  <2>1. TypeOK'
    BY <1>23 DEF TypeOK, CallSteps, RegistrationSteps, Building, Served, Actors,
        RecordInv, ArtifactInv, WaitInv, LoweredInv, Contents, Launch
  <2>2. RecordInv'
    BY <1>23 DEF TypeOK, RecordInv, ArtifactInv, WaitInv, Served, Key, Building, Actors,
        Launch
  <2>3. ArtifactInv'
    BY <1>23 DEF TypeOK, RecordInv, ArtifactInv, WaitInv, Served, Content, Actors,
        Rendering, Launch
  <2>4. WaitInv'
    BY <1>23 DEF TypeOK, RecordInv, ArtifactInv, WaitInv, Served, Key, Content,
        Rendering, Building, Actors, Launch
  <2>5. RenderInv'
    BY <1>23 DEF TypeOK, RecordInv, ArtifactInv, WaitInv, RenderInv, Rendered,
        Rendering, Content, Served, Actors, Launch
  <2>6. LoweredInv'
    BY <1>23 DEF TypeOK, RecordInv, LoweredInv, Lowered, Served, Contents, Actors, Key,
        Launch
  <2>7. FreshInv'
    <3>1. UNCHANGED <<gen, generation, completed, language>> /\ \A r \in Registrations : pc'[r] = pc[r]
      BY <1>23 DEF TypeOK, Actors, Launch
    <3>2. \A d \in Calls : pc'[d] # "unused" => pc[d] # "unused"
      BY <1>23 DEF TypeOK, Actors, Launch
    <3>3. \A b \in Calls : Begun(b)' => Begun(b) /\ Sees(b) \subseteq Sees(b)'
      BY <1>23 DEF TypeOK, Actors, RecordInv, Served, Begun, Lowered, Sees, Launch
    <3> QED BY <3>1, <3>2, <3>3, FreshIsKept
  <2> QED BY <2>1, <2>2, <2>3, <2>4, <2>5, <2>6, <2>7
<1>24. ASSUME NEW r \in Registrations, MutateRest(r) PROVE AgreeInv'
  <2>1. TypeOK'
    <3>1. language' \subseteq Changes
      BY <1>24 DEF TypeOK, MutateRest, Parts, Changes
    <3>2. pc' \in [Actors -> CallSteps \cup RegistrationSteps] /\ pc'[r] \in RegistrationSteps
      BY <1>24 DEF TypeOK, MutateRest, RegistrationSteps, Actors
    <3>3. \A c \in Calls : pc'[c] = pc[c]
      BY <1>24 DEF TypeOK, MutateRest, Actors
    <3>4. \A q \in Registrations : pc'[q] \in RegistrationSteps
      BY <1>24, <3>2 DEF TypeOK, MutateRest, Actors
    <3> QED BY <1>24, <3>1, <3>2, <3>3, <3>4 DEF TypeOK, Served, Actors, MutateRest
  <2>2. RecordInv'
    BY <1>24 DEF TypeOK, RecordInv, ArtifactInv, WaitInv, Served, Key, Building, Actors,
        MutateRest
  <2>3. ArtifactInv'
    BY <1>24 DEF TypeOK, RecordInv, ArtifactInv, WaitInv, Served, Content, Actors,
        Rendering, MutateRest
  <2>4. WaitInv'
    BY <1>24 DEF TypeOK, RecordInv, ArtifactInv, WaitInv, Served, Key, Content,
        Rendering, Building, Actors, MutateRest
  <2>5. RenderInv'
    BY <1>24 DEF TypeOK, RecordInv, ArtifactInv, WaitInv, RenderInv, Rendered, Rendering,
        Content, Served, Actors, MutateRest
  <2>6. LoweredInv'
    BY <1>24 DEF TypeOK, RecordInv, LoweredInv, Lowered, Served, Contents, Actors, Key,
        MutateRest
  <2>7. FreshInv'
    <3>1. Bumped' = Bumped /\ \A b \in Calls : Begun(b)' = Begun(b) /\ Sees(b)' = Sees(b)
      BY <1>24 DEF TypeOK, Actors, Bumped, Begun, Lowered, Sees, MutateRest
    <3>2. \A r2 \in Registrations : pc'[r2] \in {"mutated", "bumped", "done"} => Parts(r2) \subseteq language'
      BY <1>24 DEF TypeOK, Actors, FreshInv, Parts, MutateRest
    <3>3. \A d \in Calls : completed'[d] \subseteq {r2 \in Registrations : pc'[r2] = "done"}
      BY <1>24 DEF TypeOK, Actors, FreshInv, MutateRest
    <3> QED BY <1>24, <3>1, <3>2, <3>3 DEF TypeOK, Actors, FreshInv, MutateRest
  <2> QED BY <2>1, <2>2, <2>3, <2>4, <2>5, <2>6, <2>7
<1>25. ASSUME NEW c \in Calls, InstallFails(c) PROVE AgreeInv'
  <2>1. TypeOK'
    BY <1>25 DEF TypeOK, CallSteps, RegistrationSteps, Building, Served, Actors,
        RecordInv, ArtifactInv, WaitInv, LoweredInv, Contents, InstallFails
  <2>2. RecordInv'
    BY <1>25 DEF TypeOK, RecordInv, ArtifactInv, WaitInv, Served, Key, Building, Actors,
        InstallFails
  <2>3. ArtifactInv'
    BY <1>25 DEF TypeOK, RecordInv, ArtifactInv, WaitInv, Served, Content, Actors,
        Rendering, InstallFails
  <2>4. WaitInv'
    BY <1>25 DEF TypeOK, RecordInv, ArtifactInv, WaitInv, Served, Key, Content,
        Rendering, Building, Actors, InstallFails
  <2>5. RenderInv'
    BY <1>25 DEF TypeOK, RecordInv, ArtifactInv, WaitInv, RenderInv, Rendered,
        Rendering, Content, Served, Actors, InstallFails
  <2>6. LoweredInv'
    BY <1>25 DEF TypeOK, RecordInv, LoweredInv, Lowered, Served, Contents, Actors, Key,
        InstallFails
  <2>7. FreshInv'
    <3>1. UNCHANGED <<gen, generation, completed, language>> /\ \A r \in Registrations : pc'[r] = pc[r]
      BY <1>25 DEF TypeOK, Actors, InstallFails
    <3>2. \A d \in Calls : pc'[d] # "unused" => pc[d] # "unused"
      BY <1>25 DEF TypeOK, Actors, InstallFails
    <3>3. \A b \in Calls : Begun(b)' => Begun(b) /\ Sees(b) \subseteq Sees(b)'
      BY <1>25 DEF TypeOK, Actors, RecordInv, Served, Begun, Lowered, Sees, InstallFails
    <3> QED BY <3>1, <3>2, <3>3, FreshIsKept
  <2> QED BY <2>1, <2>2, <2>3, <2>4, <2>5, <2>6, <2>7
<1>26. CASE UNCHANGED vars
  BY <1>26 DEF TypeOK, RecordInv, ArtifactInv, WaitInv, RenderInv, Rendered, LoweredInv,
      Lowered, FreshInv, Begun, Sees, Bumped, Served, Key, Content
<1> QED BY <1>1, <1>2, <1>3, <1>4, <1>5, <1>6, <1>7, <1>8, <1>9, <1>10, <1>11, <1>12,
    <1>13, <1>14, <1>15, <1>16, <1>17, <1>18, <1>19, <1>20, <1>21, <1>22, <1>23, <1>24, <1>25, <1>26
    DEF Next, Step, Terminated

-----------------------------------------------------------------------------
(* What a step of a dispatch changes, and what it leaves to the others      *)

\* A step of get_or_compile, of a build or of a launch is of one dispatch; it
\* begins a build only where there is none, and installs no record but its own.
LEMMA StepMoves ==
  ASSUME AgreeInv, NEW c \in Calls, Step(c)
  PROVE  /\ kernel' = kernel /\ gen' = gen /\ language' = language /\ generation' = generation
         /\ pc' = [pc EXCEPT ![c] = pc'[c]]
         /\ pc'[c] \in Building => pc[c] \in Building \/ RecordLead(c)
         /\ \/ records' = records
            \/ pc[c] = "install" /\ pc'[c] = "pack" /\ records' = records \cup {c}
<1> USE DEF From, keyVars, worldVars, tier1Vars, Building
<1>. pc \in [Actors -> CallSteps \cup RegistrationSteps] /\ c \in Actors
  BY DEF AgreeInv, TypeOK, Actors
<1>1. CASE RecordHit(c) \/ RecordLead(c) \/ RecordJoin(c) \/ RecordWake(c)
  BY <1>1 DEF RecordHit, RecordLead, RecordJoin, RecordWake
<1>2. CASE Lower(c) \/ LowerFails(c) \/ ReadArtifacts(c) \/ ArtifactHit(c)
  BY <1>2 DEF Lower, LowerFails, ReadArtifacts, ArtifactHit
<1>3. CASE ArtifactLead(c) \/ ArtifactJoin(c) \/ ArtifactWake(c) \/ Render(c)
  BY <1>3 DEF ArtifactLead, ArtifactJoin, ArtifactWake, Render
<1>4. CASE RenderFails(c) \/ RecordFails(c) \/ PublishArtifact(c)
  BY <1>4 DEF RenderFails, RecordFails, PublishArtifact
<1>5. CASE Install(c) \/ InstallFails(c) \/ Pack(c) \/ Launch(c)
  BY <1>5 DEF Install, InstallFails, Pack, Launch
<1>6. QED
  BY <1>1, <1>2, <1>3, <1>4, <1>5 DEF Step

\* A registration changes nothing of a dispatch, and drops records or none.
LEMMA RegistrationMoves ==
  ASSUME AgreeInv, NEW r \in Registrations,
         (\E t \in Threads : Mutate(r, t)) \/ MutateRest(r) \/ Abandon(r) \/ Bump(r) \/ Swap(r)
  PROVE  /\ kernel' = kernel /\ gen' = gen /\ UNCHANGED buildVars
         /\ slot' = slot /\ recordOf' = recordOf /\ artifacts' = artifacts
         /\ pc' = [pc EXCEPT ![r] = pc'[r]] /\ \A c \in Calls : pc'[c] = pc[c]
         /\ records' = records \/ records' = {}
<1>. pc \in [Actors -> CallSteps \cup RegistrationSteps] /\ r \in Actors /\ r \notin Calls
  BY DisjointAssumption DEF AgreeInv, TypeOK, Actors
<1>. QED
  BY DEF Mutate, MutateRest, Abandon, Bump, Swap, From, keyVars, worldVars, tier1Vars, Actors

\* What beginning a dispatch changes.
LEMMA BeginMoves ==
  ASSUME AgreeInv, NEW c \in Calls, NEW t \in Threads, NEW k \in Kernels, Begin(c, t, k)
  PROVE  /\ pc[c] = "unused" /\ pc' = [pc EXCEPT ![c] = "lookup1"]
         /\ c \notin records /\ \A d \in Calls : recordOf[d] # c
         /\ \A d \in Calls \ {c} : Key(d)' = Key(d)
         /\ UNCHANGED buildVars /\ language' = language /\ generation' = generation
         /\ slot' = slot /\ recordOf' = recordOf /\ records' = records /\ artifacts' = artifacts
<1>1. pc[c] = "unused" /\ pc' = [pc EXCEPT ![c] = "lookup1"]
  BY DEF Begin, From
<1>2. ~ Served(c)
  BY <1>1 DEF Served
<1>3. c \notin records /\ \A d \in Calls : recordOf[d] # c
  BY <1>2, NoneAssumption DEF AgreeInv, RecordInv, TypeOK
<1>4. \A d \in Calls \ {c} : Key(d)' = Key(d)
  BY DEF Begin, Key, AgreeInv, TypeOK
<1>5. QED
  BY <1>1, <1>3, <1>4 DEF Begin, worldVars, tier1Vars

-----------------------------------------------------------------------------
(* The rest of the invariant                                               *)

\* Builds of one key are never in flight together at tier 1, though a bump may
\* empty it and a registration change what they lower to in between.
LEMMA StepFlight == AgreeInv /\ FlightInv /\ [Next]_vars => FlightInv'
<1>. SUFFICES ASSUME AgreeInv, FlightInv, [Next]_vars
     PROVE FlightInv'
  OBVIOUS
<1>. pc \in [Actors -> CallSteps \cup RegistrationSteps] /\ records \subseteq Calls /\ Calls \subseteq Actors
  BY DEF AgreeInv, TypeOK, Actors
<1>1. ASSUME NEW c \in Calls, Step(c)
      PROVE  FlightInv'
  <2>1. /\ kernel' = kernel /\ gen' = gen /\ pc' = [pc EXCEPT ![c] = pc'[c]]
        /\ pc'[c] \in Building => pc[c] \in Building \/ RecordLead(c)
        /\ \/ records' = records
           \/ pc[c] = "install" /\ pc'[c] = "pack" /\ records' = records \cup {c}
    BY <1>1, StepMoves
  <2>2. \A d \in Calls : Key(d)' = Key(d)
    BY <2>1 DEF Key
  <2>3. RecordLead(c) => NoRecord(c) /\ InFlight1(c) = {}
    BY DEF RecordLead
  <2>4. ASSUME NEW d \in Calls, pc'[d] \in Building
        PROVE  NoRecord(d)'
    <3>1. CASE records' = records
      BY <2>1, <2>2, <2>3, <2>4, <3>1 DEF FlightInv, NoRecord
    <3>2. CASE pc[c] = "install" /\ pc'[c] = "pack" /\ records' = records \cup {c}
      <4>1. d # c /\ pc[d] \in Building /\ pc[c] \in Building
        BY <2>1, <2>4, <3>2 DEF Building
      <4>2. Key(c) # Key(d)
        BY <4>1 DEF FlightInv
      <4>3. QED
        BY <2>2, <3>2, <4>1, <4>2 DEF FlightInv, NoRecord
    <3>3. QED
      BY <2>1, <3>1, <3>2
  <2>5. ASSUME NEW d \in Calls, pc'[d] \in Building, NEW e \in Calls, pc'[e] \in Building, Key(e)' = Key(d)'
        PROVE  d = e
    BY <2>1, <2>2, <2>3, <2>5 DEF FlightInv, InFlight1
  <2>6. QED
    BY <2>4, <2>5 DEF FlightInv
<1>2. ASSUME NEW r \in Registrations, (\E t \in Threads : Mutate(r, t)) \/ MutateRest(r) \/ Abandon(r) \/ Bump(r) \/ Swap(r)
      PROVE  FlightInv'
  BY <1>2, RegistrationMoves DEF FlightInv, NoRecord, Key
<1>3. ASSUME NEW c \in Calls, NEW t \in Threads, NEW k \in Kernels, Begin(c, t, k)
      PROVE  FlightInv'
  <2>1. /\ pc' = [pc EXCEPT ![c] = "lookup1"] /\ c \notin records /\ records' = records
        /\ \A d \in Calls \ {c} : Key(d)' = Key(d)
    BY <1>3, BeginMoves
  <2>2. ASSUME NEW d \in Calls, pc'[d] \in Building
        PROVE  d # c /\ pc[d] \in Building
    BY <2>1, <2>2 DEF Building
  <2>3. QED
    BY <2>1, <2>2 DEF FlightInv, NoRecord
<1>4. CASE UNCHANGED vars
  BY <1>4 DEF FlightInv, NoRecord, Key, vars, keyVars, tier1Vars
<1>5. QED
  BY <1>1, <1>2, <1>3, <1>4 DEF Next, Terminated

\* How far a call came shows in what it has of its build, and a waiter of tier 1
\* waits for a build that was begun.
LEMMA StepProgress == AgreeInv /\ ProgressInv /\ [Next]_vars => ProgressInv'
<1>. SUFFICES ASSUME AgreeInv, ProgressInv, [Next]_vars
     PROVE ProgressInv'
  OBVIOUS
<1>. USE DEF From, Building
<1>. pc \in [Actors -> CallSteps \cup RegistrationSteps] /\ Calls \subseteq Actors
  BY DEF AgreeInv, TypeOK, Actors
<1>. slot \in [Calls -> Calls \cup {None}] /\ content \in [Calls -> Contents \cup {None}]
  BY DEF AgreeInv, TypeOK
<1>. \A c \in Calls : pc[c] = "wait1" => slot[c] \in Calls \ {c}
  BY DEF AgreeInv, TypeOK
<1>. None \notin Calls
  BY NoneAssumption
<1>1. ASSUME NEW c \in Calls, RecordHit(c) \/ RecordLead(c) \/ RecordWake(c) \/ LowerFails(c)
      PROVE  ProgressInv'
  BY <1>1 DEF ProgressInv, Served, RecordHit, RecordLead, RecordWake, LowerFails, buildVars
<1>2. ASSUME NEW c \in Calls, RecordJoin(c)
      PROVE  ProgressInv'
  BY <1>2 DEF ProgressInv, Served, RecordJoin, InFlight1, buildVars
<1>3. ASSUME NEW c \in Calls, Lower(c)
      PROVE  ProgressInv'
  BY <1>3 DEF ProgressInv, Served, Lower
<1>4. ASSUME NEW c \in Calls, ReadArtifacts(c) \/ ArtifactHit(c) \/ ArtifactLead(c)
      PROVE  ProgressInv'
  BY <1>4 DEF ProgressInv, Served, ReadArtifacts, ArtifactHit, ArtifactLead, buildVars
<1>5. ASSUME NEW c \in Calls, ArtifactJoin(c)
      PROVE  ProgressInv'
  BY <1>5 DEF ProgressInv, Served, ArtifactJoin, InFlight2, buildVars
<1>6. ASSUME NEW c \in Calls, ArtifactWake(c) \/ Render(c) \/ RenderFails(c) \/ RecordFails(c)
      PROVE  ProgressInv'
  BY <1>6 DEF ProgressInv, Served, ArtifactWake, Render, RenderFails, RecordFails, buildVars
<1>7. ASSUME NEW c \in Calls, PublishArtifact(c) \/ Install(c) \/ InstallFails(c) \/ Pack(c) \/ Launch(c)
      PROVE  ProgressInv'
  BY <1>7 DEF ProgressInv, Served, PublishArtifact, Install, InstallFails, Pack, Launch, buildVars
<1>8. ASSUME NEW r \in Registrations, (\E t \in Threads : Mutate(r, t)) \/ MutateRest(r) \/ Abandon(r) \/ Bump(r) \/ Swap(r)
      PROVE  ProgressInv'
  BY <1>8, RegistrationMoves DEF ProgressInv, Served, buildVars
<1>9. ASSUME NEW c \in Calls, NEW t \in Threads, NEW k \in Kernels, Begin(c, t, k)
      PROVE  ProgressInv'
  BY <1>9, BeginMoves DEF ProgressInv, Served, buildVars
<1>10. CASE UNCHANGED vars
  BY <1>10 DEF ProgressInv, Served, vars, buildVars
<1>11. QED
  BY <1>1, <1>2, <1>3, <1>4, <1>5, <1>6, <1>7, <1>8, <1>9, <1>10 DEF Next, Step, Terminated

\* Where no registration moves, none bumps.
LEMMA SameBumped ==
  ASSUME AgreeInv, NEW c \in Calls, pc' = [pc EXCEPT ![c] = pc'[c]]
  PROVE  Bumped' = Bumped
  BY DisjointAssumption DEF AgreeInv, TypeOK, Actors, Bumped

\* Every bump counts, and what a build lowered to holds changes of the language.
LEMMA StepHistory == AgreeInv /\ HistoryInv /\ [Next]_vars => HistoryInv'
<1>. SUFFICES ASSUME AgreeInv, HistoryInv, [Next]_vars
     PROVE HistoryInv'
  OBVIOUS
<1>. pc \in [Actors -> CallSteps \cup RegistrationSteps] /\ Calls \subseteq Actors /\ Registrations \subseteq Actors
  BY DEF AgreeInv, TypeOK, Actors
<1>. content \in [Calls -> Contents \cup {None}] /\ generation \in Nat
  BY DEF AgreeInv, TypeOK
<1>1. ASSUME NEW c \in Calls, Step(c)
      PROVE  HistoryInv'
  <2>1. Bumped' = Bumped /\ generation' = generation /\ language' = language
    BY <1>1, StepMoves, SameBumped
  <2>2. CASE Lower(c)
    <3>1. PICK late \in SUBSET (language \ seen[c]) :
            content' = [content EXCEPT ![c] = <<IrOf[kernel[c]], seen[c] \cup late>>]
      BY <2>2 DEF Lower
    <3>2. kernel[c] \in Kernels /\ seen' = [seen EXCEPT ![c] = {}]
      BY <2>2 DEF Lower, From, AgreeInv, TypeOK
    <3>3. seen[c] \cup late \subseteq PartsOf(Registrations)
      BY DEF HistoryInv
    <3>4. QED
      BY <2>1, <3>1, <3>2, <3>3 DEF HistoryInv
  <2>3. CASE RecordLead(c)
    BY <2>1, <2>3 DEF RecordLead, HistoryInv
  <2>4. CASE content' = content /\ seen' = seen
    BY <2>1, <2>4 DEF HistoryInv
  <2>5. Lower(c) \/ RecordLead(c) \/ (content' = content /\ seen' = seen)
    BY <1>1 DEF Step, RecordHit, RecordJoin, RecordWake, LowerFails, ReadArtifacts, ArtifactHit,
      ArtifactLead, ArtifactJoin, ArtifactWake, Render, RenderFails, RecordFails, PublishArtifact, Install,
      InstallFails, Pack, Launch, buildVars
  <2>6. QED
    BY <2>2, <2>3, <2>4, <2>5
<1>2. ASSUME NEW r \in Registrations, (\E t \in Threads : Mutate(r, t)) \/ MutateRest(r) \/ Abandon(r) \/ Swap(r)
      PROVE  HistoryInv'
  <2>1. content' = content /\ seen' = seen /\ Bumped' = Bumped
    BY <1>2 DEF Mutate, MutateRest, Abandon, Swap, From, buildVars, Bumped
  <2>2. generation' = generation /\ language' \subseteq language \cup PartsOf(Registrations)
    <3>1. Parts(r) \subseteq PartsOf(Registrations)
      BY DEF PartsOf
    <3>2. DoorOf[r] = "record" => <<r, 1>> \in Parts(r)
      BY DEF Parts
    <3>3. QED
      BY <1>2, <3>1, <3>2 DEF Mutate, MutateRest, Abandon, Swap, worldVars, tier1Vars
  <2>3. QED
    BY <2>1, <2>2 DEF HistoryInv
<1>3. ASSUME NEW r \in Registrations, Bump(r)
      PROVE  HistoryInv'
  <2>1. Bumped' = Bumped \cup {r} /\ r \notin Bumped
    BY <1>3 DEF Bump, From, Bumped
  <2>2. IsFiniteSet(Bumped)
    BY DisjointAssumption, FS_Subset DEF Bumped
  <2>3. Cardinality(Bumped') = Cardinality(Bumped) + 1
    BY <2>1, <2>2, FS_AddElement
  <2>4. generation' = generation + 1 /\ content' = content /\ seen' = seen /\ language' = language
    BY <1>3 DEF Bump, buildVars, worldVars
  <2>5. QED
    BY <2>3, <2>4 DEF HistoryInv
<1>4. ASSUME NEW c \in Calls, NEW t \in Threads, NEW k \in Kernels, Begin(c, t, k)
      PROVE  HistoryInv'
  <2>1. pc' = [pc EXCEPT ![c] = pc'[c]] /\ generation' = generation /\ language' = language /\ content' = content /\ seen' = seen
    BY <1>4, BeginMoves DEF buildVars
  <2>2. QED
    BY <2>1, SameBumped DEF HistoryInv
<1>5. CASE UNCHANGED vars
  BY <1>5 DEF HistoryInv, Bumped, vars, buildVars, worldVars, tier1Vars
<1>6. QED
  BY <1>1, <1>2, <1>3, <1>4, <1>5 DEF Next, Terminated

LEMMA InitInv == Init => Inv
<1>. SUFFICES ASSUME Init PROVE Inv
  OBVIOUS
<1>1. AgreeInv
  BY InitAgrees
<1>2. FlightInv /\ ProgressInv
  BY DEF Init, FlightInv, ProgressInv, Building, Actors
<1>3. Bumped = {}
  BY DEF Init, Bumped, Actors
<1>4. HistoryInv
  BY <1>3, FS_EmptySet DEF Init, HistoryInv
<1>5. QED
  BY <1>1, <1>2, <1>4 DEF Inv

LEMMA StepInv == Inv /\ [Next]_vars => Inv'
  BY StepAgrees, StepFlight, StepProgress, StepHistory DEF Inv

\* The invariant holds in every reachable state.
THEOREM InvHolds == Spec => []Inv
  <1>1. Init => Inv BY InitInv
  <1>2. Inv /\ [Next]_vars => Inv' BY StepInv
  <1> QED BY <1>1, <1>2, PTL DEF Spec

\* Every variable keeps its type, however far each call has come.
THEOREM TypeCorrect == Spec => []TypeOK
  <1>1. Inv => TypeOK BY DEF Inv, AgreeInv
  <1> QED BY <1>1, InvHolds, PTL

\* "Identical IR never renders twice" within an artifact cache.
THEOREM ContentIsRenderedOnce == Spec => []RendersOnce
  <1>1. Inv => RendersOnce BY DEF Inv, AgreeInv, RenderInv, Rendered, RendersOnce
  <1> QED BY <1>1, InvHolds, PTL

\* A dispatch launches a record of its own key, made of its own content.
THEOREM CodeIsItsOwn == Spec => []RunsItsOwnCode
  <1>1. Inv => RunsItsOwnCode
    <2> SUFFICES ASSUME Inv, NEW c \in Calls, Served(c)
                 PROVE LET b == recordOf[c] IN
                         /\ Key(b) = Key(c)
                         /\ content[b][1] = IrOf[kernel[c]]
                         /\ Content(artifactOf[b]) = Content(b)
      BY DEF RunsItsOwnCode
    <2> DEFINE b == recordOf[c]
    <2>1. b \in Calls /\ b # None /\ recordOf[b] = b /\ Key(b) = Key(c) /\ artifactOf[b] # None
      BY NoneAssumption DEF Inv, AgreeInv, TypeOK, RecordInv
    <2>2. kernel[b] = kernel[c]
      BY <2>1 DEF Key
    <2>3. content[b][1] = IrOf[kernel[b]]
      BY <2>1 DEF Inv, AgreeInv, LoweredInv, Lowered
    <2>4. Content(artifactOf[b]) = Content(b)
      BY <2>1 DEF Inv, AgreeInv, ArtifactInv
    <2> QED BY <2>1, <2>2, <2>3, <2>4
  <1> QED BY <1>1, InvHolds, PTL

\* No dispatch begun after a registration of the language runs code that was
\* lowered without it, however many registrations and dispatches overlap.
THEOREM RegistrationsAreSeen == Spec => []LanguageIsFresh
  <1>1. Inv => LanguageIsFresh
    <2> SUFFICES ASSUME Inv, NEW c \in Calls, Served(c)
                 PROVE PartsOf(completed[c]) \subseteq content[recordOf[c]][2]
      BY DEF LanguageIsFresh
    <2> DEFINE b == recordOf[c]
    <2>1. b \in Calls /\ recordOf[b] = b /\ gen[b] = gen[c]
      BY NoneAssumption DEF Inv, AgreeInv, TypeOK, RecordInv, Key
    <2>2. pc[c] # "unused"
      BY DEF Served
    <2>3. pc[b] # "lower"
      BY <2>1, NoneAssumption DEF Inv, AgreeInv, RecordInv, Served
    <2> QED BY <2>1, <2>2, <2>3 DEF Inv, AgreeInv, FreshInv, Begun, Lowered, Sees
  <1> QED BY <1>1, InvHolds, PTL

\* What a dispatch may rely on, all of it together.
THEOREM DispatchIsSafe == Spec => []Safety
  BY ContentIsRenderedOnce, CodeIsItsOwn, RegistrationsAreSeen, PTL DEF Safety

-----------------------------------------------------------------------------
(***************************************************************************)
(* Proofs that a dispatch uses each of its two tiers as the atomic memo    *)
(* the cache is shown to be, for any number of calls, threads, kernels and *)
(* registrations: tier 1 as one whose owner may drop entries, tier 2, over *)
(* all the artifact caches a registry has had, as one that forgets nothing.*)
(***************************************************************************)

\* The abstract module counts the way this one does, for either tier.
LEMMA SameCardinality1 == \A S : Tier1!Cardinality(S) = Cardinality(S)
  BY Zenon DEF Tier1!Cardinality, Cardinality

LEMMA SameCardinality2 == \A S : Tier2!Cardinality(S) = Cardinality(S)
  BY Zenon DEF Tier2!Cardinality, Cardinality

\* Sets of calls are counted, and there is room for all of them.
LEMMA CallsCount ==
  ASSUME NEW S \in SUBSET Calls
  PROVE  /\ Cardinality(S) \in Nat /\ Cardinality(S) <= Cardinality(Calls)
         /\ \A c \in Calls \ S : Cardinality(S \cup {c}) = Cardinality(S) + 1
  BY RoomAssumption, FS_Subset, FS_CardinalityType, FS_AddElement

-----------------------------------------------------------------------------
(* TIER 1                                                                  *)

\* Who waits at tier 1 for the build of c.
Waiters1(c) == {d \in Calls : pc[d] = "wait1" /\ slot[d] = c}

\* Who has no record is not served, and the other way round for who is.
LEMMA NoRecordYet ==
  ASSUME Inv, NEW c \in Calls, ~ Served(c)
  PROVE  recordOf[c] = None
  BY NoneAssumption DEF Inv, AgreeInv, RecordInv

\* The key of a call that was made is a key of the memo.
LEMMA KeyOfCall ==
  ASSUME Inv, NEW c \in Calls, pc[c] # "unused"
  PROVE  Key(c) \in Kernels \X Nat /\ Key(c) # None
<1>1. Key(c) \in Kernels \X Nat
  BY DEF Inv, AgreeInv, TypeOK, Key
<1>2. QED
  BY <1>1, KeyAssumption

\* A call that looks up or builds has no answer of tier 1.
LEMMA OpenAt1 ==
  ASSUME Inv, NEW c \in Calls, pc[c] \in Building \cup {"lookup1"}
  PROVE  Tier1!Open(c) /\ Got1(c) = None /\ Failed1(c) = "none" /\ recordOf[c] = None
<1>1. pc[c] \notin {"unused", "wait1", "raised"} /\ ~ Served(c)
  BY DEF Building, Served
<1>2. recordOf[c] = None /\ Key(c) # None
  BY <1>1, NoRecordYet, KeyOfCall
<1>3. Got1(c) = None /\ Failed1(c) = "none" /\ Want1(c) # None
  BY <1>1, <1>2 DEF Got1, Failed1, Want1
<1>4. QED
  BY <1>2, <1>3 DEF Tier1!Open, Want1Bar, Got1Bar, Failed1Bar

\* A key being built has no record.
LEMMA NotStored1 ==
  ASSUME Inv, NEW c \in Calls, pc[c] \in Building
  PROVE  ~ Tier1!Stored(Want1Bar[c])
<1>1. NoRecord(c) /\ Want1Bar[c] = Key(c)
  BY DEF Inv, FlightInv, Want1Bar, Want1, Building
<1>2. \A b \in records : b \in Calls /\ pc[b] # "unused"
  BY NoneAssumption DEF Inv, AgreeInv, TypeOK, RecordInv, Served
<1>3. \A b \in records : Want1Bar[b] = Key(b)
  BY <1>2 DEF Want1Bar, Want1
<1>4. QED
  BY <1>1, <1>3 DEF NoRecord, Tier1!Stored

\* The calls that wait for c at tier 1 want what c wants, and have nothing yet.
LEMMA WaitersShare1 ==
  ASSUME Inv, NEW c \in Calls, pc[c] \in Building
  PROVE  Waiters1(c) \in SUBSET Tier1!Sharers(c)
<1> SUFFICES ASSUME NEW d \in Waiters1(c) PROVE d \in Tier1!Sharers(c)
  OBVIOUS
<1>1. d \in Calls \ {c} /\ pc[d] = "wait1" /\ slot[d] = c /\ Key(d) = Key(c)
  BY DEF Waiters1, Inv, AgreeInv, TypeOK, WaitInv
<1>2. Key(d) # None
  BY <1>1, KeyOfCall
<1>3. recordOf[c] = None /\ pc[c] \notin {"raised", "unused"}
  BY OpenAt1 DEF Building
<1>4. Want1(d) = Key(d) /\ Want1(c) = Key(c) /\ Got1(d) = None /\ Failed1(d) = "none"
  BY <1>1, <1>3 DEF Want1, Got1, Failed1
<1>5. QED
  BY <1>1, <1>2, <1>4 DEF Tier1!Sharers, Tier1!Open, Want1Bar, Got1Bar, Failed1Bar

\* Where nothing changes for anybody the memo stutters.
LEMMA Stutters1 ==
  ASSUME records' = records, Tried1' = Tried1,
         \A d \in Calls : Want1(d)' = Want1(d) /\ Got1(d)' = Got1(d) /\ Failed1(d)' = Failed1(d)
  PROVE  UNCHANGED Tier1!memoVars
<1>1. Want1Bar' = Want1Bar /\ Got1Bar' = Got1Bar /\ Failed1Bar' = Failed1Bar
  BY DEF Want1Bar, Got1Bar, Failed1Bar
<1>2. QED
  BY <1>1 DEF Tier1!memoVars, Attempts1Bar

\* What others want, and what a step of c does to what they are given.
LEMMA OthersKeep1 ==
  ASSUME Inv, NEW c \in Calls, Step(c), NEW d \in Calls \ {c},
         recordOf'[d] = recordOf[d], slot'[d] = slot[d],
         d \in Waiters1(c) => recordOf'[c] = recordOf[c] /\ (pc'[c] = "raised" <=> pc[c] = "raised"),
         \A e \in Calls \ {c} : recordOf'[e] = recordOf[e]
  PROVE  Want1(d)' = Want1(d) /\ Got1(d)' = Got1(d) /\ Failed1(d)' = Failed1(d)
<1>1. kernel' = kernel /\ gen' = gen /\ pc' = [pc EXCEPT ![c] = pc'[c]]
  BY StepMoves DEF Inv
<1>2. \A e \in Calls \ {c} : pc'[e] = pc[e]
  BY <1>1 DEF Inv, AgreeInv, TypeOK, Actors
<1>3. Want1(d)' = Want1(d)
  BY <1>1, <1>2 DEF Want1, Key
<1>4. CASE pc[d] = "wait1"
  <2>1. slot[d] \in Calls
    BY <1>4 DEF Inv, AgreeInv, TypeOK
  <2>2. recordOf'[slot[d]] = recordOf[slot[d]] /\ (pc'[slot[d]] = "raised" <=> pc[slot[d]] = "raised")
    BY <1>2, <1>4, <2>1 DEF Waiters1
  <2>3. QED
    BY <1>2, <1>3, <1>4, <2>2 DEF Got1, Failed1
<1>5. CASE pc[d] # "wait1"
  BY <1>2, <1>3, <1>5 DEF Got1, Failed1
<1>6. QED
  BY <1>4, <1>5

\* A step inside a build, or with a record, that tier 1 knows nothing of.
Quiet1(c) ==
  /\ recordOf' = recordOf /\ records' = records
  /\ pc[c] \notin {"unused", "wait1", "raised"} /\ pc'[c] \notin {"unused", "wait1", "raised"}
  /\ \A d \in Calls \ {c} : slot'[d] = slot[d] /\ content'[d] = content[d]

LEMMA QuietStutters1 ==
  ASSUME Inv, NEW c \in Calls, Step(c), Quiet1(c)
  PROVE  UNCHANGED Tier1!memoVars
<1>1. kernel' = kernel /\ gen' = gen /\ pc' = [pc EXCEPT ![c] = pc'[c]]
  BY StepMoves DEF Inv
<1>2. \A d \in Calls \ {c} : pc'[d] = pc[d]
  BY <1>1 DEF Inv, AgreeInv, TypeOK, Actors
<1>3. \A d \in Calls \ {c} : Want1(d)' = Want1(d) /\ Got1(d)' = Got1(d) /\ Failed1(d)' = Failed1(d)
  BY OthersKeep1 DEF Quiet1
<1>4. Want1(c)' = Want1(c) /\ Got1(c)' = Got1(c) /\ Failed1(c)' = Failed1(c)
  BY <1>1 DEF Quiet1, Want1, Got1, Failed1, Key
<1>5. Tried1' = Tried1
  BY <1>2 DEF Quiet1, Tried1, Led1
<1>6. QED
  BY <1>3, <1>4, <1>5, Stutters1 DEF Quiet1

LEMMA QuietSteps1 ==
  ASSUME Inv, NEW c \in Calls,
         \/ RecordLead(c) \/ Lower(c) \/ ReadArtifacts(c) \/ ArtifactHit(c) \/ ArtifactLead(c)
         \/ ArtifactJoin(c) \/ ArtifactWake(c) \/ Render(c) \/ RenderFails(c) \/ PublishArtifact(c)
         \/ Pack(c) \/ Launch(c)
  PROVE  UNCHANGED Tier1!memoVars
<1> SUFFICES Quiet1(c)
  BY QuietStutters1 DEF Step
<1>. USE DEF From, tier1Vars, buildVars, Quiet1
<1>. /\ pc \in [Actors -> CallSteps \cup RegistrationSteps] /\ c \in Actors
     /\ slot \in [Calls -> Calls \cup {None}] /\ content \in [Calls -> Contents \cup {None}]
  BY DEF Inv, AgreeInv, TypeOK, Actors
<1>1. CASE RecordLead(c) \/ ArtifactLead(c) \/ RenderFails(c)
  BY <1>1 DEF RecordLead, ArtifactLead, RenderFails
<1>2. CASE Lower(c) \/ ReadArtifacts(c) \/ ArtifactHit(c)
  BY <1>2 DEF Lower, ReadArtifacts, ArtifactHit
<1>3. CASE ArtifactJoin(c) \/ ArtifactWake(c) \/ Render(c)
  BY <1>3 DEF ArtifactJoin, ArtifactWake, Render
<1>4. CASE PublishArtifact(c) \/ Pack(c) \/ Launch(c)
  BY <1>4 DEF PublishArtifact, Pack, Launch
<1>5. QED
  BY <1>1, <1>2, <1>3, <1>4

\* Nobody waits for a call that is not building and has not ended.
LEMMA NoWaiters1 ==
  ASSUME Inv, NEW c \in Calls, pc[c] \in {"unused", "lookup1", "wait1"}
  PROVE  Waiters1(c) = {}
  BY DEF Inv, ProgressInv, Waiters1, Building, Served

\* To wait is not to be answered yet: the build that is waited for is under way.
LEMMA JoinStutters1 ==
  ASSUME Inv, NEW c \in Calls, RecordJoin(c)
  PROVE  UNCHANGED Tier1!memoVars
<1>1. PICK e \in InFlight1(c) : slot' = [slot EXCEPT ![c] = e]
  BY DEF RecordJoin
<1>2. /\ pc[c] = "lookup1" /\ pc' = [pc EXCEPT ![c] = "wait1"] /\ recordOf' = recordOf /\ records' = records
      /\ content' = content /\ Key(c)' = Key(c)
  BY DEF RecordJoin, From, tier1Vars, buildVars, Key, keyVars
<1>3. /\ \A d \in Calls \ {c} : pc'[d] = pc[d] /\ slot'[d] = slot[d]
      /\ pc'[c] = "wait1" /\ slot'[c] = e
  BY <1>1, <1>2 DEF Inv, AgreeInv, TypeOK, Actors
<1>4. \A d \in Calls \ {c} : Want1(d)' = Want1(d) /\ Got1(d)' = Got1(d) /\ Failed1(d)' = Failed1(d)
  BY <1>2, <1>3, NoWaiters1, OthersKeep1 DEF Step
<1>5. e \in Calls /\ pc[e] \in Building /\ e # c /\ recordOf[e] = None
  BY <1>2, OpenAt1 DEF InFlight1, Building
<1>6. Got1(c) = None /\ Failed1(c) = "none" /\ Want1(c)' = Want1(c)
  BY <1>2, <1>3, OpenAt1 DEF Want1
<1>7. Got1(c)' = None /\ Failed1(c)' = "none"
  BY <1>2, <1>3, <1>5 DEF Got1, Failed1, Building
<1>8. Tried1' = Tried1
  BY <1>2, <1>3 DEF Tried1, Led1
<1>9. QED
  BY <1>2, <1>4, <1>6, <1>7, <1>8, Stutters1

\* Nor is to wake up: the answer is the one the build gave when it ended.
LEMMA WakeStutters1 ==
  ASSUME Inv, NEW c \in Calls, RecordWake(c)
  PROVE  UNCHANGED Tier1!memoVars
<1>1. /\ pc[c] = "wait1" /\ pc'[c] \in {"pack", "raised"} /\ records' = records
      /\ recordOf' = [recordOf EXCEPT ![c] = recordOf[slot[c]]]
      /\ content' = content /\ slot' = slot /\ Key(c)' = Key(c)
      /\ pc'[c] = "raised" <=> pc[slot[c]] = "raised"
  <2>1. pc[slot[c]] = "raised" => recordOf[slot[c]] = None
    BY NoRecordYet DEF RecordWake, From, Inv, AgreeInv, TypeOK, Served
  <2>2. QED
    BY <2>1 DEF RecordWake, From, tier1Vars, buildVars, Key, keyVars, Inv, AgreeInv, TypeOK, Actors
<1>2. \A d \in Calls \ {c} : pc'[d] = pc[d] /\ recordOf'[d] = recordOf[d]
  BY DEF RecordWake, From, Inv, AgreeInv, TypeOK, Actors
<1>3. slot[c] \in Calls \ {c} /\ content[c] = None /\ recordOf[c] = None
  BY <1>1, NoRecordYet DEF Inv, AgreeInv, TypeOK, ProgressInv, Served
<1>4. recordOf'[c] = recordOf[slot[c]] /\ recordOf[slot[c]] # c
  <2>1. recordOf'[c] = recordOf[slot[c]]
    BY <1>1 DEF Inv, AgreeInv, TypeOK
  <2>2. ~ Served(c)
    BY <1>1 DEF Served
  <2>3. recordOf[slot[c]] # None => Served(recordOf[slot[c]])
    BY <1>3 DEF Inv, AgreeInv, RecordInv
  <2>4. QED
    BY <2>1, <2>2, <2>3, NoneAssumption
<1>5. \A d \in Calls \ {c} : Want1(d)' = Want1(d) /\ Got1(d)' = Got1(d) /\ Failed1(d)' = Failed1(d)
  BY <1>1, <1>2, NoWaiters1, OthersKeep1 DEF Step
<1>6. Want1(c)' = Want1(c) /\ Got1(c)' = Got1(c) /\ Failed1(c)' = Failed1(c)
  BY <1>1, <1>4 DEF Want1, Got1, Failed1
<1>7. Tried1' = Tried1
  <2>1. \A d \in Calls \ {c} : d \in Tried1' <=> d \in Tried1
    BY <1>1, <1>2 DEF Tried1, Led1
  <2>2. c \notin Tried1 /\ c \notin Tried1'
    BY <1>1, <1>3, <1>4, NoneAssumption DEF Tried1, Led1
  <2>3. QED
    BY <2>1, <2>2 DEF Tried1
<1>8. QED
  BY <1>1, <1>5, <1>6, <1>7, Stutters1

\* A dispatch begins by asking tier 1 for its key of this generation.
LEMMA BeginAsks1 ==
  ASSUME Inv, NEW c \in Calls, NEW t \in Threads, NEW k \in Kernels, Begin(c, t, k)
  PROVE  \E x \in Kernels \X (0..Cardinality(Registrations)) : Tier1!Ask(c, x)
<1>1. /\ pc[c] = "unused" /\ pc' = [pc EXCEPT ![c] = "lookup1"] /\ c \notin records
      /\ \A d \in Calls \ {c} : Key(d)' = Key(d)
      /\ content' = content /\ slot' = slot /\ recordOf' = recordOf /\ records' = records
  BY BeginMoves DEF buildVars, Inv
<1>2. \A d \in Calls : pc'[d] = IF d = c THEN "lookup1" ELSE pc[d]
  BY <1>1 DEF Inv, AgreeInv, TypeOK, Actors
<1>3. Key(c)' = <<k, generation>>
  BY DEF Begin, Key, Inv, AgreeInv, TypeOK
<1>4. generation \in 0..Cardinality(Registrations)
  <2>1. Bumped \in SUBSET Registrations
    BY DEF Bumped
  <2>2. generation = Cardinality(Bumped) /\ generation \in Nat
    BY DEF Inv, AgreeInv, HistoryInv, TypeOK
  <2>3. Cardinality(Bumped) <= Cardinality(Registrations) /\ Cardinality(Registrations) \in Nat
    BY <2>1, DisjointAssumption, FS_Subset, FS_CardinalityType
  <2>4. QED
    BY <2>2, <2>3
<1>5. \A d \in Calls \ {c} : Want1(d)' = Want1(d) /\ Got1(d)' = Got1(d) /\ Failed1(d)' = Failed1(d)
  <2>1. \A d \in Calls \ {c} : pc[d] = "wait1" => slot[d] \in Calls \ {c}
    BY <1>1, NoWaiters1 DEF Inv, AgreeInv, TypeOK, Waiters1
  <2>2. QED
    BY <1>1, <1>2, <2>1 DEF Want1, Got1, Failed1
<1>6. Want1(c) = None /\ Want1(c)' = <<k, generation>> /\ Got1(c)' = Got1(c) /\ Failed1(c)' = Failed1(c)
  BY <1>1, <1>2, <1>3 DEF Want1, Got1, Failed1
<1>7. Want1Bar' = [Want1Bar EXCEPT ![c] = <<k, generation>>] /\ Got1Bar' = Got1Bar /\ Failed1Bar' = Failed1Bar
  BY <1>5, <1>6 DEF Want1Bar, Got1Bar, Failed1Bar
<1>8. Tried1' = Tried1
  BY <1>1, <1>2 DEF Tried1, Led1
<1>9. Tier1!Ask(c, <<k, generation>>)
  BY <1>1, <1>6, <1>7, <1>8 DEF Tier1!Ask, Want1Bar, Attempts1Bar
<1>10. QED
  BY <1>4, <1>9

\* A record that is there is recalled.
LEMMA HitRecalls1 ==
  ASSUME Inv, NEW c \in Calls, RecordHit(c)
  PROVE  Tier1!Recall(c)
<1>1. PICK b \in records : Key(b) = Key(c) /\ recordOf' = [recordOf EXCEPT ![c] = b]
  BY DEF RecordHit
<1>2. /\ pc[c] = "lookup1" /\ pc' = [pc EXCEPT ![c] = "pack"] /\ records' = records
      /\ content' = content /\ slot' = slot /\ Key(c)' = Key(c)
  BY DEF RecordHit, From, tier1Vars, buildVars, Key, keyVars
<1>3. /\ pc'[c] = "pack" /\ recordOf'[c] = b
      /\ \A d \in Calls \ {c} : pc'[d] = pc[d] /\ recordOf'[d] = recordOf[d]
  BY <1>1, <1>2 DEF Inv, AgreeInv, TypeOK, Actors
<1>4. b \in Calls /\ Served(b) /\ b # c
  BY <1>2, NoneAssumption DEF Inv, AgreeInv, TypeOK, RecordInv, Served
<1>5. \A d \in Calls \ {c} : Want1(d)' = Want1(d) /\ Got1(d)' = Got1(d) /\ Failed1(d)' = Failed1(d)
  BY <1>2, <1>3, NoWaiters1, OthersKeep1 DEF Step
<1>6. Want1(c)' = Want1(c) /\ Got1(c)' = b /\ Failed1(c)' = Failed1(c)
  BY <1>2, <1>3 DEF Want1, Got1, Failed1
<1>7. Want1Bar' = Want1Bar /\ Got1Bar' = [Got1Bar EXCEPT ![c] = b] /\ Failed1Bar' = Failed1Bar
  BY <1>5, <1>6 DEF Want1Bar, Got1Bar, Failed1Bar
<1>8. Tried1' = Tried1
  <2>1. recordOf[c] = None
    BY <1>2, OpenAt1
  <2>2. QED
    BY <1>2, <1>3, <1>4, <2>1, NoneAssumption DEF Tried1, Led1
<1>9. Tier1!Open(c) /\ Want1Bar[b] = Want1Bar[c]
  BY <1>1, <1>2, <1>4, OpenAt1 DEF Want1Bar, Want1, Served
<1>10. QED
  BY <1>2, <1>7, <1>8, <1>9 DEF Tier1!Recall, Attempts1Bar

\* A build that is given up, in lowering or with its artifact, breaks for the
\* call and for all who wait for it at tier 1.
LEMMA FailBreaks1 ==
  ASSUME Inv, NEW c \in Calls, LowerFails(c) \/ RecordFails(c) \/ InstallFails(c)
  PROVE  Tier1!Break(c, Waiters1(c), "Failed")
<1>1. /\ pc[c] \in {"lower", "failed", "install"} /\ pc' = [pc EXCEPT ![c] = "raised"] /\ records' = records
      /\ recordOf' = recordOf /\ content' = content /\ slot' = slot /\ Key(c)' = Key(c)
  BY DEF LowerFails, RecordFails, InstallFails, From, tier1Vars, buildVars, Key, keyVars
<1>2. pc'[c] = "raised" /\ \A d \in Calls \ {c} : pc'[d] = pc[d]
  BY <1>1 DEF Inv, AgreeInv, TypeOK, Actors
<1>3. /\ Tier1!Open(c) /\ ~ Tier1!Stored(Want1Bar[c])
      /\ Got1(c) = None /\ Failed1(c) = "none" /\ recordOf[c] = None
  BY <1>1, OpenAt1, NotStored1 DEF Building
<1>4. \A d \in Calls \ ({c} \cup Waiters1(c)) : Want1(d)' = Want1(d) /\ Got1(d)' = Got1(d) /\ Failed1(d)' = Failed1(d)
  BY <1>1, OthersKeep1 DEF Step
<1>5. \A d \in Waiters1(c) : Want1(d)' = Want1(d) /\ Got1(d)' = Got1(d) /\ Failed1(d)' = "Failed"
  <2>1. \A d \in Waiters1(c) : d \in Calls \ {c} /\ pc[d] = "wait1" /\ slot[d] = c
    BY <1>1 DEF Waiters1
  <2>2. \A d \in Calls : Key(d)' = Key(d)
    BY DEF LowerFails, RecordFails, InstallFails, keyVars, Key
  <2>3. QED
    BY <1>1, <1>2, <2>1, <2>2 DEF Want1, Got1, Failed1
<1>6. Want1(c)' = Want1(c) /\ Got1(c)' = Got1(c) /\ Failed1(c)' = "Failed"
  BY <1>1, <1>2 DEF Want1, Got1, Failed1
<1>7. /\ Want1Bar' = Want1Bar /\ Got1Bar' = Got1Bar
      /\ Failed1Bar' = [d \in Calls |-> IF d \in Waiters1(c) \cup {c} THEN "Failed" ELSE Failed1Bar[d]]
  BY <1>4, <1>5, <1>6 DEF Want1Bar, Got1Bar, Failed1Bar
<1>8. Led1(c)
  <2>1. CASE pc[c] = "lower"
    BY <2>1 DEF Inv, ProgressInv, Led1
  <2>2. CASE pc[c] \in {"failed", "install"}
    BY <2>2, KeyAssumption DEF Inv, AgreeInv, LoweredInv, Lowered, Led1
  <2>3. QED
    BY <1>1, <2>1, <2>2
<1>9. Tried1' = Tried1 \cup {c} /\ c \notin Tried1
  BY <1>1, <1>2, <1>3, <1>8, NoneAssumption DEF Tried1, Led1
<1>10. Attempts1Bar' = Attempts1Bar + 1
  BY <1>9, CallsCount DEF Attempts1Bar, Tried1
<1>11. QED
  BY <1>1, <1>3, <1>7, <1>10 DEF Tier1!Break

\* The record is built for the call and for all who wait for it.
LEMMA InstallBuilds1 ==
  ASSUME Inv, NEW c \in Calls, Install(c)
  PROVE  Tier1!Build(c, Waiters1(c), {})
<1>1. /\ pc[c] = "install" /\ pc' = [pc EXCEPT ![c] = "pack"] /\ records' = records \cup {c}
      /\ recordOf' = [recordOf EXCEPT ![c] = c] /\ content' = content /\ slot' = slot /\ Key(c)' = Key(c)
  BY DEF Install, From, buildVars, Key, keyVars
<1>2. /\ pc'[c] = "pack" /\ recordOf'[c] = c
      /\ \A d \in Calls \ {c} : pc'[d] = pc[d] /\ recordOf'[d] = recordOf[d]
  BY <1>1 DEF Inv, AgreeInv, TypeOK, Actors
<1>3. /\ Tier1!Open(c) /\ ~ Tier1!Stored(Want1Bar[c])
      /\ Got1(c) = None /\ Failed1(c) = "none" /\ recordOf[c] = None
  BY <1>1, OpenAt1, NotStored1 DEF Building
<1>4. \A d \in Calls \ ({c} \cup Waiters1(c)) : Want1(d)' = Want1(d) /\ Got1(d)' = Got1(d) /\ Failed1(d)' = Failed1(d)
  BY <1>1, <1>2, OthersKeep1 DEF Step
<1>5. \A d \in Waiters1(c) : Want1(d)' = Want1(d) /\ Got1(d)' = c /\ Failed1(d)' = Failed1(d)
  <2>1. \A d \in Waiters1(c) : d \in Calls \ {c} /\ pc[d] = "wait1" /\ slot[d] = c
    BY <1>1 DEF Waiters1
  <2>2. \A d \in Calls : Key(d)' = Key(d)
    BY DEF Install, keyVars, Key
  <2>3. QED
    BY <1>1, <1>2, <2>1, <2>2 DEF Want1, Got1, Failed1
<1>6. Want1(c)' = Want1(c) /\ Got1(c)' = c /\ Failed1(c)' = Failed1(c)
  BY <1>1, <1>2 DEF Want1, Got1, Failed1
<1>7. /\ Want1Bar' = Want1Bar /\ Failed1Bar' = Failed1Bar
      /\ Got1Bar' = [d \in Calls |-> IF d \in Waiters1(c) \cup {c} THEN c ELSE Got1Bar[d]]
  BY <1>4, <1>5, <1>6 DEF Want1Bar, Got1Bar, Failed1Bar
<1>8. Tried1' = Tried1 \cup {c} /\ c \notin Tried1
  BY <1>1, <1>2, <1>3, NoneAssumption DEF Tried1, Led1
<1>9. Attempts1Bar' = Attempts1Bar + 1
  BY <1>8, CallsCount DEF Attempts1Bar, Tried1
<1>10. Cardinality(records') <= Cardinality(Calls)
  <2>1. records' \in SUBSET Calls
    BY <1>1 DEF Inv, AgreeInv, TypeOK
  <2>2. QED
    BY <2>1, CallsCount
<1>11. records' = (records \cup {c}) \ {}
  BY <1>1
<1>12. QED
  BY <1>3, <1>7, <1>9, <1>10, <1>11, SameCardinality1 DEF Tier1!Build

\* A registration drops the records there are, or changes nothing.
LEMMA RegistrationForgets1 ==
  ASSUME Inv, NEW r \in Registrations,
         (\E t \in Threads : Mutate(r, t)) \/ MutateRest(r) \/ Abandon(r) \/ Bump(r) \/ Swap(r)
  PROVE  Tier1!Forget \/ UNCHANGED Tier1!memoVars
<1>1. /\ kernel' = kernel /\ gen' = gen /\ content' = content /\ slot' = slot /\ recordOf' = recordOf
      /\ \A c \in Calls : pc'[c] = pc[c]
      /\ records' = records \/ records' = {}
  BY RegistrationMoves DEF Inv, buildVars
<1>2. \A c \in Calls : Want1(c)' = Want1(c) /\ Got1(c)' = Got1(c) /\ Failed1(c)' = Failed1(c)
  BY <1>1 DEF Inv, AgreeInv, TypeOK, Want1, Got1, Failed1, Key
<1>3. Tried1' = Tried1
  BY <1>1 DEF Tried1, Led1
<1>4. Want1Bar' = Want1Bar /\ Got1Bar' = Got1Bar /\ Failed1Bar' = Failed1Bar /\ Attempts1Bar' = Attempts1Bar
  BY <1>2, <1>3 DEF Want1Bar, Got1Bar, Failed1Bar, Attempts1Bar
<1>5. CASE records' = records
  BY <1>4, <1>5 DEF Tier1!memoVars
<1>6. CASE records' = {} /\ records # {}
  BY <1>4, <1>6 DEF Tier1!Forget
<1>7. QED
  BY <1>1, <1>5, <1>6

LEMMA StepImplements1 ==
  ASSUME Inv, NEW c \in Calls, Step(c)
  PROVE  Tier1!MemoNext \/ UNCHANGED Tier1!memoVars
<1>1. CASE RecordHit(c)
  BY <1>1, HitRecalls1 DEF Tier1!MemoNext
<1>2. CASE RecordJoin(c)
  BY <1>2, JoinStutters1
<1>3. CASE RecordWake(c)
  BY <1>3, WakeStutters1
<1>4. CASE LowerFails(c) \/ RecordFails(c) \/ InstallFails(c)
  <2>1. pc[c] \in Building
    BY <1>4 DEF LowerFails, RecordFails, InstallFails, From, Building
  <2>2. Tier1!Break(c, Waiters1(c), "Failed") /\ Waiters1(c) \in SUBSET Tier1!Sharers(c)
    BY <1>4, <2>1, FailBreaks1, WaitersShare1
  <2>3. QED
    BY <2>2 DEF Tier1!MemoNext, Tier1!Failures
<1>5. CASE Install(c)
  <2>1. pc[c] \in Building
    BY <1>5 DEF Install, From, Building
  <2>2. Tier1!Build(c, Waiters1(c), {}) /\ Waiters1(c) \in SUBSET Tier1!Sharers(c)
    BY <1>5, <2>1, InstallBuilds1, WaitersShare1
  <2>3. QED
    BY <2>2 DEF Tier1!MemoNext
<1>6. QED
  BY <1>1, <1>2, <1>3, <1>4, <1>5, QuietSteps1 DEF Step

LEMMA NextImplements1 == Inv /\ [Next]_vars => [Tier1!MemoNext \/ Tier1!Forget]_(Tier1!memoVars)
<1> SUFFICES ASSUME Inv, [Next]_vars
             PROVE  Tier1!MemoNext \/ Tier1!Forget \/ UNCHANGED Tier1!memoVars
  OBVIOUS
<1>1. ASSUME NEW r \in Registrations, (\E t \in Threads : Mutate(r, t)) \/ MutateRest(r) \/ Abandon(r) \/ Bump(r) \/ Swap(r)
      PROVE  Tier1!Forget \/ UNCHANGED Tier1!memoVars
  BY <1>1, RegistrationForgets1
<1>2. ASSUME NEW c \in Calls, NEW t \in Threads, NEW k \in Kernels, Begin(c, t, k)
      PROVE  Tier1!MemoNext
  BY <1>2, BeginAsks1 DEF Tier1!MemoNext
<1>3. ASSUME NEW c \in Calls, Step(c)
      PROVE  Tier1!MemoNext \/ UNCHANGED Tier1!memoVars
  BY <1>3, StepImplements1
<1>4. CASE UNCHANGED vars
  <2>1. \A c \in Calls : Want1(c)' = Want1(c) /\ Got1(c)' = Got1(c) /\ Failed1(c)' = Failed1(c)
    BY <1>4 DEF vars, keyVars, Want1, Got1, Failed1, Key
  <2>2. Tried1' = Tried1 /\ records' = records
    BY <1>4 DEF vars, buildVars, tier1Vars, Tried1, Led1
  <2>3. QED
    BY <2>1, <2>2, Stutters1
<1>5. QED
  BY <1>1, <1>2, <1>3, <1>4 DEF Next, Terminated

LEMMA InitImplements1 == Init => Tier1!MemoInit
<1> SUFFICES ASSUME Init PROVE Tier1!MemoInit
  OBVIOUS
<1>1. /\ Want1Bar = [c \in Calls |-> None] /\ Got1Bar = [c \in Calls |-> None]
      /\ Failed1Bar = [c \in Calls |-> "none"]
  BY DEF Init, Actors, Want1Bar, Got1Bar, Failed1Bar, Want1, Got1, Failed1
<1>2. Tried1 = {}
  BY NoneAssumption DEF Init, Actors, Tried1
<1>3. Attempts1Bar = 0
  BY <1>2, FS_EmptySet DEF Attempts1Bar
<1>4. QED
  BY <1>1, <1>3 DEF Init, Tier1!MemoInit

\* Dispatches use tier 1 as the memo SpecCache is: each gets a record of its key
\* and generation, built once at a time and shared by those that waited, or the
\* exception of the build; bumps drop records in the middle of it.
THEOREM Tier1IsUsedAsMemo == Spec => Tier1IsMemo
<1>1. Init => Tier1!MemoInit
  BY InitImplements1
<1>2. Inv /\ [Next]_vars => [Tier1!MemoNext \/ Tier1!Forget]_(Tier1!memoVars)
  BY NextImplements1
<1>3. QED
  BY <1>1, <1>2, InvHolds, PTL DEF Spec, Tier1IsMemo, Tier1!ForgetfulMemoSpec

-----------------------------------------------------------------------------
(* TIER 2                                                                  *)

\* Who waits at tier 2 for the render of c.
Waiters2(c) == {d \in Calls : pc[d] = "wait2" /\ slot[d] = c}

\* A build that came to tier 2 asks it for the content it was lowered to.
LEMMA ContentOfBuild ==
  ASSUME Inv, NEW c \in Calls, content[c] # None
  PROVE  /\ Content(c) \in (Registrations \cup {None}) \X ({IrOf[k] : k \in Kernels} \X SUBSET PartsOf(Registrations))
         /\ Content(c) # None
<1>1. content[c] \in {IrOf[k] : k \in Kernels} \X SUBSET PartsOf(Registrations)
  BY DEF Inv, HistoryInv
<1>2. era[c] \in Registrations \cup {None}
  BY DEF Inv, AgreeInv, TypeOK
<1>3. content[c] \in Contents
  BY <1>1 DEF Contents, PartsOf, Parts, Changes
<1>4. QED
  BY <1>1, <1>2, <1>3, KeyAssumption DEF Content

\* A build that was lowered has a content.
LEMMA LoweredHas ==
  ASSUME Inv, NEW c \in Calls, Lowered(c)
  PROVE  content[c] # None
  BY KeyAssumption DEF Inv, AgreeInv, LoweredInv

\* An artifact is for a build about to install its record, or that did, or that
\* could not.
LEMMA NoArtifactYet ==
  ASSUME Inv, NEW c \in Calls, pc[c] \notin {"install", "raised"}, ~ Served(c)
  PROVE  artifactOf[c] = None
<1>1. recordOf[c] # c
  BY NoRecordYet, NoneAssumption
<1>2. QED
  BY <1>1 DEF Inv, AgreeInv, ArtifactInv

\* A build that looks up or renders has no answer of tier 2.
LEMMA OpenAt2 ==
  ASSUME Inv, NEW c \in Calls, pc[c] \in Rendering \cup {"lookup2"}
  PROVE  /\ Tier2!Open(c) /\ Got2(c) = None /\ Failed2(c) = "none" /\ artifactOf[c] = None
         /\ Reached2(c) /\ ~ Failing2(c)
<1>1. artifactOf[c] = None
  BY NoArtifactYet DEF Rendering, Served
<1>2. Reached2(c) /\ Content(c) # None
  BY LoweredHas, ContentOfBuild DEF Lowered, Rendering, Reached2
<1>3. Got2(c) = None /\ Failed2(c) = "none" /\ Want2(c) # None /\ ~ Failing2(c)
  BY <1>1, <1>2 DEF Got2, Failed2, Want2, Failing2, Rendering
<1>4. QED
  BY <1>1, <1>2, <1>3 DEF Tier2!Open, Want2Bar, Got2Bar, Failed2Bar

\* A content being rendered has no artifact in the cache it is rendered for.
LEMMA NotStored2 ==
  ASSUME Inv, NEW c \in Calls, pc[c] \in Rendering
  PROVE  ~ Tier2!Stored(Want2Bar[c])
<1>1. Reached2(c) /\ artifactOf[c] = None /\ Content(c) # None
  BY OpenAt2, ContentOfBuild DEF Reached2
<1>2. Want2Bar[c] = Content(c)
  BY <1>1 DEF Want2Bar, Want2
<1>3. ASSUME NEW b \in artifacts PROVE Want2Bar[b] # Content(c)
  <2>1. b \in Calls /\ artifactOf[b] = b /\ b # c
    BY <1>1, NoneAssumption DEF Inv, AgreeInv, TypeOK, ArtifactInv
  <2>2. Content(b) # Content(c)
    BY <2>1 DEF Inv, AgreeInv, RenderInv, Rendered
  <2>3. QED
    BY <1>1, <2>1, <2>2 DEF Want2Bar, Want2
<1>4. QED
  BY <1>2, <1>3 DEF Tier2!Stored

\* Who waits at tier 2 wants what the one it waits for renders, and who is
\* neither rendering nor done with it has no one waiting.
LEMMA WaiterOf2 ==
  ASSUME Inv, NEW c \in Calls, NEW d \in Waiters2(c)
  PROVE  /\ d \in Calls \ {c} /\ pc[d] = "wait2" /\ slot[d] = c
         /\ Reached2(d) /\ content[d] = content[c] /\ Content(d) = Content(c)
         /\ pc[c] \in Rendering \cup {"failed", "raised"} \/ artifactOf[c] = c
<1>1. d \in Calls \ {c} /\ pc[d] = "wait2" /\ slot[d] = c
  BY DEF Waiters2, Inv, AgreeInv, TypeOK
<1>2. Content(d) = Content(c)
  BY <1>1 DEF Inv, AgreeInv, WaitInv
<1>3. content[d] = content[c]
  BY <1>2 DEF Content
<1>4. Reached2(d)
  BY <1>1, LoweredHas DEF Lowered, Reached2
<1>5. QED
  BY <1>1, <1>2, <1>3, <1>4 DEF Inv, AgreeInv, WaitInv

LEMMA NoWaiters2 ==
  ASSUME Inv, NEW c \in Calls, pc[c] \notin Rendering \cup {"failed", "raised", "install"}, ~ Served(c)
  PROVE  Waiters2(c) = {}
<1>1. artifactOf[c] # c
  BY NoArtifactYet, NoneAssumption
<1>2. QED
  BY <1>1, WaiterOf2

LEMMA WaitersShare2 ==
  ASSUME Inv, NEW c \in Calls, pc[c] \in Rendering
  PROVE  Waiters2(c) \in SUBSET Tier2!Sharers(c)
<1> SUFFICES ASSUME NEW d \in Waiters2(c) PROVE d \in Tier2!Sharers(c)
  OBVIOUS
<1>1. /\ d \in Calls \ {c} /\ pc[d] = "wait2" /\ slot[d] = c
      /\ Reached2(d) /\ Content(d) = Content(c)
  BY WaiterOf2
<1>2. artifactOf[c] = None /\ ~ Failing2(c) /\ Reached2(c)
  BY OpenAt2
<1>3. Content(d) # None
  BY <1>1, ContentOfBuild DEF Reached2
<1>4. Want2(d) = Content(d) /\ Want2(c) = Content(c) /\ Got2(d) = None /\ Failed2(d) = "none"
  BY <1>1, <1>2 DEF Want2, Got2, Failed2, Failing2
<1>5. QED
  BY <1>1, <1>3, <1>4 DEF Tier2!Sharers, Tier2!Open, Want2Bar, Got2Bar, Failed2Bar

\* Where nothing changes for anybody the memo stutters.
LEMMA Stutters2 ==
  ASSUME artifacts' = artifacts, Tried2' = Tried2,
         \A d \in Calls : Want2(d)' = Want2(d) /\ Got2(d)' = Got2(d) /\ Failed2(d)' = Failed2(d)
  PROVE  UNCHANGED Tier2!memoVars
<1>1. Want2Bar' = Want2Bar /\ Got2Bar' = Got2Bar /\ Failed2Bar' = Failed2Bar
  BY DEF Want2Bar, Got2Bar, Failed2Bar
<1>2. QED
  BY <1>1 DEF Tier2!memoVars, Attempts2Bar

\* What a step of c leaves alone in the others.
Apart2(c) ==
  \A d \in Calls \ {c} :
    /\ pc'[d] = pc[d] /\ slot'[d] = slot[d] /\ content'[d] = content[d] /\ era'[d] = era[d]
    /\ artifactOf'[d] = artifactOf[d]

\* What tier 2 has for another call changes with the step that decides what it
\* waits for, and with no other.
LEMMA OthersKeep2 ==
  ASSUME Inv, NEW c \in Calls, Apart2(c), NEW d \in Calls \ {c},
         d \in Waiters2(c) => artifactOf'[c] = artifactOf[c] /\ (Failing2(c)' <=> Failing2(c))
  PROVE  /\ Want2(d)' = Want2(d) /\ Got2(d)' = Got2(d) /\ Failed2(d)' = Failed2(d)
         /\ (d \in Tried2)' <=> d \in Tried2
<1>1. \A e \in Calls \ {c} : (Reached2(e)' <=> Reached2(e)) /\ (Failing2(e)' <=> Failing2(e))
  BY DEF Apart2, Reached2, Failing2
<1>2. Want2(d)' = Want2(d)
  BY <1>1 DEF Apart2, Want2, Content
<1>3. (d \in Tried2)' <=> d \in Tried2
  BY <1>1 DEF Apart2, Tried2
<1>4. CASE pc[d] = "wait2"
  <2>1. PICK e \in Calls : e = slot[d] /\ e = slot'[d]
    BY <1>4 DEF Inv, AgreeInv, TypeOK, Apart2
  <2>2. artifactOf'[e] = artifactOf[e] /\ (Failing2(e)' <=> Failing2(e))
    <3>1. e = c => d \in Waiters2(c)
      BY <1>4, <2>1 DEF Waiters2
    <3>2. QED
      BY <1>1, <2>1, <3>1 DEF Apart2
  <2>3. Got2(d)' = Got2(d) /\ Failed2(d)' = Failed2(d)
    <3>1. pc'[d] = "wait2" /\ ~ Failing2(d) /\ ~ Failing2(d)'
      BY <1>4 DEF Apart2, Failing2
    <3>2. Failed2(d) = (IF Failing2(e) THEN "Failed" ELSE "none")
      BY <1>4, <2>1, <3>1 DEF Failed2
    <3>3. Failed2(d)' = (IF Failing2(e)' THEN "Failed" ELSE "none")
      BY <2>1, <3>1 DEF Failed2
    <3>4. Got2(d)' = Got2(d)
      BY <1>4, <2>1, <2>2, <3>1 DEF Got2
    <3>5. QED
      BY <2>2, <3>2, <3>3, <3>4
  <2>4. QED
    BY <1>2, <1>3, <2>3
<1>5. CASE pc[d] # "wait2"
  BY <1>1, <1>2, <1>3, <1>5 DEF Apart2, Got2, Failed2
<1>6. QED
  BY <1>4, <1>5

\* A step in which tier 2 is neither asked nor answers.
Quiet2(c) ==
  /\ Apart2(c) /\ artifactOf' = artifactOf /\ artifacts' = artifacts
  /\ pc[c] # "wait2" /\ pc'[c] # "wait2"
  /\ (Reached2(c)' <=> Reached2(c)) /\ (Failing2(c)' <=> Failing2(c))
  /\ Reached2(c) => UNCHANGED <<content, era, slot>>

LEMMA QuietStutters2 ==
  ASSUME Inv, NEW c \in Calls, Quiet2(c)
  PROVE  UNCHANGED Tier2!memoVars
<1>1. \A d \in Calls \ {c} : /\ Want2(d)' = Want2(d) /\ Got2(d)' = Got2(d) /\ Failed2(d)' = Failed2(d)
                             /\ (d \in Tried2)' <=> d \in Tried2
  BY OthersKeep2 DEF Quiet2
<1>2. Want2(c)' = Want2(c)
  BY DEF Quiet2, Want2, Content
<1>3. Got2(c)' = Got2(c) /\ Failed2(c)' = Failed2(c)
  BY DEF Quiet2, Got2, Failed2
<1>4. c \in Tried2' <=> c \in Tried2
  BY DEF Quiet2, Tried2, Failing2
<1>5. Tried2' = Tried2
  BY <1>1, <1>4 DEF Tried2
<1>6. QED
  BY <1>1, <1>2, <1>3, <1>5, Stutters2 DEF Quiet2

LEMMA QuietSteps2 ==
  ASSUME Inv, NEW c \in Calls,
         \/ RecordHit(c) \/ RecordLead(c) \/ RecordJoin(c) \/ RecordWake(c) \/ LowerFails(c)
         \/ Lower(c) \/ ArtifactLead(c) \/ Render(c) \/ RecordFails(c) \/ Install(c)
         \/ InstallFails(c) \/ Pack(c) \/ Launch(c)
  PROVE  UNCHANGED Tier2!memoVars
<1> SUFFICES Quiet2(c)
  BY QuietStutters2
<1>. USE DEF From, buildVars, Quiet2, Apart2, Reached2, Failing2
<1>. /\ pc \in [Actors -> CallSteps \cup RegistrationSteps] /\ Calls \subseteq Actors
     /\ slot \in [Calls -> Calls \cup {None}] /\ content \in [Calls -> Contents \cup {None}]
  BY DEF Inv, AgreeInv, TypeOK, Actors
<1>. pc[c] \in {"lookup1", "wait1", "lower"} => content[c] = None
  BY DEF Inv, ProgressInv
<1>. pc[c] = "install" => artifactOf[c] # None
  BY NoneAssumption DEF Inv, AgreeInv, TypeOK
<1>1. CASE RecordHit(c) \/ RecordLead(c) \/ RecordJoin(c)
  BY <1>1 DEF RecordHit, RecordLead, RecordJoin
<1>2. CASE RecordWake(c) \/ LowerFails(c)
  BY <1>2 DEF RecordWake, LowerFails
<1>3. CASE Lower(c)
  BY <1>3 DEF Lower
<1>4. CASE ArtifactLead(c) \/ Render(c)
  BY <1>4 DEF ArtifactLead, Render
<1>5. CASE RecordFails(c) \/ Install(c) \/ InstallFails(c)
  BY <1>5 DEF RecordFails, Install, InstallFails
<1>6. CASE Pack(c) \/ Launch(c)
  BY <1>6 DEF Pack, Launch
<1>7. QED
  BY <1>1, <1>2, <1>3, <1>4, <1>5, <1>6

\* A build asks tier 2 where it reads which artifact cache the registry has.
LEMMA ReadAsks2 ==
  ASSUME Inv, NEW c \in Calls, ReadArtifacts(c)
  PROVE  \E x \in (Registrations \cup {None}) \X ({IrOf[k] : k \in Kernels} \X SUBSET PartsOf(Registrations)) :
           Tier2!Ask(c, x)
<1>1. /\ pc[c] = "artifacts" /\ pc' = [pc EXCEPT ![c] = "lookup2"] /\ era' = [era EXCEPT ![c] = current]
      /\ content' = content /\ slot' = slot /\ artifactOf' = artifactOf /\ artifacts' = artifacts
  BY DEF ReadArtifacts, From
<1>2. Apart2(c) /\ pc'[c] = "lookup2" /\ era'[c] = current
  BY <1>1 DEF Inv, AgreeInv, TypeOK, Actors, Apart2
<1>3. content[c] # None /\ content[c] \in {IrOf[k] : k \in Kernels} \X SUBSET PartsOf(Registrations)
  BY <1>1, LoweredHas DEF Lowered, Inv, HistoryInv
<1>4. current \in Registrations \cup {None}
  BY DEF Inv, AgreeInv, TypeOK
<1>5. \A d \in Calls \ {c} : /\ Want2(d)' = Want2(d) /\ Got2(d)' = Got2(d) /\ Failed2(d)' = Failed2(d)
                             /\ (d \in Tried2)' <=> d \in Tried2
  BY <1>1, <1>2, OthersKeep2, NoWaiters2 DEF Rendering, Served
<1>6. /\ Want2(c) = None /\ Want2(c)' = <<current, content[c]>>
      /\ Got2(c)' = Got2(c) /\ Failed2(c)' = Failed2(c)
      /\ c \in Tried2' <=> c \in Tried2
  BY <1>1, <1>2, <1>3 DEF Want2, Got2, Failed2, Failing2, Reached2, Content, Tried2
<1>7. Want2Bar' = [Want2Bar EXCEPT ![c] = <<current, content[c]>>] /\ Got2Bar' = Got2Bar /\ Failed2Bar' = Failed2Bar
  BY <1>5, <1>6 DEF Want2Bar, Got2Bar, Failed2Bar
<1>8. Tried2' = Tried2
  BY <1>5, <1>6 DEF Tried2
<1>9. Tier2!Ask(c, <<current, content[c]>>)
  BY <1>1, <1>6, <1>7, <1>8 DEF Tier2!Ask, Want2Bar, Attempts2Bar
<1>10. QED
  BY <1>3, <1>4, <1>9

\* An artifact that is there is recalled, whoever rendered it.
LEMMA HitRecalls2 ==
  ASSUME Inv, NEW c \in Calls, ArtifactHit(c)
  PROVE  Tier2!Recall(c)
<1>1. PICK b \in artifacts : Content(b) = Content(c) /\ artifactOf' = [artifactOf EXCEPT ![c] = b]
  BY DEF ArtifactHit
<1>2. /\ pc[c] = "lookup2" /\ pc' = [pc EXCEPT ![c] = "install"]
      /\ content' = content /\ era' = era /\ slot' = slot /\ artifacts' = artifacts
  BY DEF ArtifactHit, From
<1>3. Apart2(c) /\ pc'[c] = "install" /\ artifactOf'[c] = b
  BY <1>1, <1>2 DEF Inv, AgreeInv, TypeOK, Actors, Apart2
<1>4. Tier2!Open(c) /\ Reached2(c) /\ ~ Failing2(c) /\ artifactOf[c] = None
  BY <1>2, OpenAt2
<1>5. b \in Calls /\ artifactOf[b] = b /\ b # c
  BY <1>4, NoneAssumption DEF Inv, AgreeInv, TypeOK, ArtifactInv
<1>6. Reached2(b)
  <2>1. pc[b] \in {"install", "raised"} \/ Served(b)
    BY <1>5, NoneAssumption DEF Inv, AgreeInv, ArtifactInv, RecordInv
  <2>2. content[b] = content[c]
    BY <1>1 DEF Content
  <2>3. QED
    BY <1>4, <2>1, <2>2 DEF Reached2, Served
<1>7. \A d \in Calls \ {c} : /\ Want2(d)' = Want2(d) /\ Got2(d)' = Got2(d) /\ Failed2(d)' = Failed2(d)
                             /\ (d \in Tried2)' <=> d \in Tried2
  BY <1>2, <1>3, OthersKeep2, NoWaiters2 DEF Rendering, Served
<1>8. /\ Want2(c)' = Want2(c) /\ Got2(c)' = b /\ Failed2(c)' = Failed2(c)
      /\ c \notin Tried2' /\ c \notin Tried2
  BY <1>2, <1>3, <1>4, <1>5, NoneAssumption DEF Want2, Got2, Failed2, Failing2, Reached2, Content, Tried2
<1>9. Want2Bar' = Want2Bar /\ Got2Bar' = [Got2Bar EXCEPT ![c] = b] /\ Failed2Bar' = Failed2Bar
  BY <1>7, <1>8 DEF Want2Bar, Got2Bar, Failed2Bar
<1>10. Tried2' = Tried2
  BY <1>7, <1>8 DEF Tried2
<1>11. Want2Bar[b] = Want2Bar[c]
  BY <1>1, <1>4, <1>5, <1>6 DEF Want2Bar, Want2
<1>12. QED
  BY <1>2, <1>4, <1>9, <1>10, <1>11 DEF Tier2!Recall, Attempts2Bar

\* To wait is not to be answered yet.
LEMMA JoinStutters2 ==
  ASSUME Inv, NEW c \in Calls, ArtifactJoin(c)
  PROVE  UNCHANGED Tier2!memoVars
<1>1. PICK e \in InFlight2(c) : slot' = [slot EXCEPT ![c] = e]
  BY DEF ArtifactJoin
<1>2. /\ pc[c] = "lookup2" /\ pc' = [pc EXCEPT ![c] = "wait2"]
      /\ content' = content /\ era' = era /\ artifactOf' = artifactOf /\ artifacts' = artifacts
  BY DEF ArtifactJoin, From, buildVars
<1>3. Apart2(c) /\ pc'[c] = "wait2" /\ slot'[c] = e
  BY <1>1, <1>2 DEF Inv, AgreeInv, TypeOK, Actors, Apart2
<1>4. e \in Calls /\ pc[e] \in Rendering /\ e # c /\ artifactOf[e] = None /\ pc'[e] = pc[e]
  BY <1>2, <1>3, OpenAt2 DEF InFlight2, Rendering, Apart2
<1>5. /\ Reached2(c) /\ ~ Failing2(c) /\ artifactOf[c] = None /\ Got2(c) = None /\ Failed2(c) = "none"
  BY <1>2, OpenAt2
<1>6. \A d \in Calls \ {c} : /\ Want2(d)' = Want2(d) /\ Got2(d)' = Got2(d) /\ Failed2(d)' = Failed2(d)
                             /\ (d \in Tried2)' <=> d \in Tried2
  BY <1>2, <1>3, OthersKeep2, NoWaiters2 DEF Rendering, Served
<1>7. Want2(c)' = Want2(c) /\ Got2(c)' = None
  BY <1>2, <1>3, <1>4, <1>5 DEF Want2, Got2, Reached2, Content
<1>8. Failed2(c)' = "none"
  <2>1. ~ Failing2(c)' /\ ~ Failing2(e)'
    BY <1>3, <1>4 DEF Failing2, Rendering
  <2>2. QED
    BY <1>3, <2>1 DEF Failed2
<1>9. c \notin Tried2' /\ c \notin Tried2
  BY <1>2, <1>3, <1>5, NoneAssumption DEF Tried2, Failing2
<1>10. Tried2' = Tried2
  BY <1>6, <1>9 DEF Tried2
<1>11. QED
  BY <1>2, <1>5, <1>6, <1>7, <1>8, <1>10, Stutters2

\* Nor is to wake up: the answer is the one the render gave when it ended.
LEMMA WakeStutters2 ==
  ASSUME Inv, NEW c \in Calls, ArtifactWake(c)
  PROVE  UNCHANGED Tier2!memoVars
<1>1. PICK e \in Calls \ {c} : slot[c] = e
  BY DEF ArtifactWake, From, Inv, AgreeInv, TypeOK
<1>2. /\ pc[c] = "wait2" /\ content' = content /\ era' = era /\ slot' = slot /\ artifacts' = artifacts
      /\ artifactOf' = [artifactOf EXCEPT ![c] = artifactOf[e]]
  BY <1>1 DEF ArtifactWake, From
<1>3. /\ Apart2(c) /\ artifactOf'[c] = artifactOf[e]
      /\ \/ pc'[c] = "install" /\ artifactOf[e] # None
         \/ pc'[c] = "failed" /\ artifactOf[e] = None /\ pc[e] \in {"failed", "raised"}
  BY <1>1, <1>2 DEF ArtifactWake, From, Inv, AgreeInv, TypeOK, Actors, Apart2
<1>4. Reached2(c) /\ content[e] = content[c]
  <2>1. c \in Waiters2(e)
    BY <1>1, <1>2 DEF Waiters2
  <2>2. QED
    BY <1>1, <2>1, WaiterOf2
<1>5. Failing2(e) <=> pc'[c] = "failed"
  BY <1>3, <1>4 DEF Failing2, Reached2
<1>6. artifactOf[c] = None /\ artifactOf[e] # c
  <2>1. artifactOf[c] = None
    BY <1>2, NoArtifactYet DEF Served
  <2>2. QED
    BY <1>1, <2>1, NoneAssumption DEF Inv, AgreeInv, ArtifactInv
<1>7. \A d \in Calls \ {c} : /\ Want2(d)' = Want2(d) /\ Got2(d)' = Got2(d) /\ Failed2(d)' = Failed2(d)
                             /\ (d \in Tried2)' <=> d \in Tried2
  BY <1>2, <1>3, OthersKeep2, NoWaiters2 DEF Rendering, Served
<1>8. Want2(c)' = Want2(c) /\ Got2(c)' = Got2(c)
  BY <1>1, <1>2, <1>3, <1>4 DEF Want2, Got2, Reached2, Content
<1>9. Failed2(c)' = Failed2(c)
  <2>1. Failed2(c) = IF Failing2(e) THEN "Failed" ELSE "none"
    BY <1>1, <1>2 DEF Failed2, Failing2
  <2>2. Failed2(c)' = IF pc'[c] = "failed" THEN "Failed" ELSE "none"
    BY <1>2, <1>3, <1>4 DEF Failed2, Failing2, Reached2
  <2>3. QED
    BY <1>5, <2>1, <2>2
<1>10. c \notin Tried2' /\ c \notin Tried2
  BY <1>1, <1>2, <1>3, <1>6, NoneAssumption DEF Tried2
<1>11. Tried2' = Tried2
  BY <1>7, <1>10 DEF Tried2
<1>12. QED
  BY <1>2, <1>7, <1>8, <1>9, <1>11, Stutters2

\* A render that raises breaks for the build and for all builds that wait for
\* it, in whatever record and generation they are under way.
LEMMA FailBreaks2 ==
  ASSUME Inv, NEW c \in Calls, RenderFails(c)
  PROVE  Tier2!Break(c, Waiters2(c), "Failed")
<1>1. /\ pc[c] = "render" /\ pc' = [pc EXCEPT ![c] = "failed"] /\ slot[c] = None
      /\ content' = content /\ era' = era /\ slot' = slot
      /\ artifactOf' = artifactOf /\ artifacts' = artifacts
  BY DEF RenderFails, From, buildVars, Inv, ProgressInv
<1>2. Apart2(c) /\ pc'[c] = "failed"
  BY <1>1 DEF Inv, AgreeInv, TypeOK, Actors, Apart2
<1>3. /\ Tier2!Open(c) /\ ~ Tier2!Stored(Want2Bar[c]) /\ artifactOf[c] = None
      /\ Reached2(c) /\ Failing2(c)' /\ c \notin Tried2
  <2>1. /\ Tier2!Open(c) /\ ~ Tier2!Stored(Want2Bar[c]) /\ artifactOf[c] = None
        /\ Reached2(c) /\ ~ Failing2(c)
    BY <1>1, OpenAt2, NotStored2 DEF Rendering
  <2>2. QED
    BY <1>1, <1>2, <2>1, NoneAssumption DEF Failing2, Reached2, Tried2
<1>4. \A d \in Calls \ ({c} \cup Waiters2(c)) : Want2(d)' = Want2(d) /\ Got2(d)' = Got2(d) /\ Failed2(d)' = Failed2(d)
  BY <1>2, OthersKeep2
<1>5. \A d \in Waiters2(c) : Want2(d)' = Want2(d) /\ Got2(d)' = Got2(d) /\ Failed2(d)' = "Failed"
  <2> SUFFICES ASSUME NEW d \in Waiters2(c)
               PROVE  Want2(d)' = Want2(d) /\ Got2(d)' = Got2(d) /\ Failed2(d)' = "Failed"
    OBVIOUS
  <2>1. d \in Calls \ {c} /\ pc[d] = "wait2" /\ slot[d] = c
    BY DEF Waiters2, Inv, AgreeInv, TypeOK
  <2>2. Want2(d)' = Want2(d) /\ Got2(d)' = Got2(d)
    BY <1>1, <1>2, <2>1 DEF Apart2, Want2, Got2, Reached2, Content
  <2>3. pc'[d] = "wait2" /\ slot'[d] = c
    BY <1>2, <2>1 DEF Apart2
  <2>4. QED
    BY <1>3, <2>2, <2>3 DEF Failed2
<1>6. Want2(c)' = Want2(c) /\ Got2(c)' = Got2(c) /\ Failed2(c)' = "Failed"
  BY <1>1, <1>2, <1>3 DEF Want2, Got2, Failed2, Reached2, Content
<1>7. /\ Want2Bar' = Want2Bar /\ Got2Bar' = Got2Bar
      /\ Failed2Bar' = [d \in Calls |-> IF d \in Waiters2(c) \cup {c} THEN "Failed" ELSE Failed2Bar[d]]
  BY <1>4, <1>5, <1>6 DEF Want2Bar, Got2Bar, Failed2Bar
<1>8. Tried2' = Tried2 \cup {c}
  <2>1. \A d \in Calls \ {c} : d \in Tried2' <=> d \in Tried2
    BY <1>2 DEF Apart2, Tried2, Failing2, Reached2
  <2>2. c \in Tried2'
    BY <1>1, <1>3 DEF Tried2
  <2>3. QED
    BY <2>1, <2>2 DEF Tried2
<1>9. Attempts2Bar' = Attempts2Bar + 1
  BY <1>3, <1>8, CallsCount DEF Attempts2Bar, Tried2
<1>10. QED
  BY <1>1, <1>3, <1>7, <1>9 DEF Tier2!Break

\* The artifact is rendered for the build and for all builds that wait for it.
LEMMA PublishBuilds2 ==
  ASSUME Inv, NEW c \in Calls, PublishArtifact(c)
  PROVE  Tier2!Build(c, Waiters2(c), {})
<1>1. /\ pc[c] = "publish" /\ pc' = [pc EXCEPT ![c] = "install"] /\ artifacts' = artifacts \cup {c}
      /\ content' = content /\ era' = era /\ slot' = slot /\ artifactOf' = [artifactOf EXCEPT ![c] = c]
  BY DEF PublishArtifact, From
<1>2. Apart2(c) /\ pc'[c] = "install" /\ artifactOf'[c] = c
  BY <1>1 DEF Inv, AgreeInv, TypeOK, Actors, Apart2
<1>3. /\ Tier2!Open(c) /\ ~ Tier2!Stored(Want2Bar[c]) /\ artifactOf[c] = None
      /\ Reached2(c) /\ ~ Failing2(c) /\ ~ Failing2(c)' /\ c \notin Tried2
  <2>1. /\ Tier2!Open(c) /\ ~ Tier2!Stored(Want2Bar[c]) /\ artifactOf[c] = None
        /\ Reached2(c) /\ ~ Failing2(c)
    BY <1>1, OpenAt2, NotStored2 DEF Rendering
  <2>2. QED
    BY <1>2, <2>1, NoneAssumption DEF Failing2, Tried2
<1>4. \A d \in Calls \ ({c} \cup Waiters2(c)) : Want2(d)' = Want2(d) /\ Got2(d)' = Got2(d) /\ Failed2(d)' = Failed2(d)
  BY <1>2, OthersKeep2
<1>5. \A d \in Waiters2(c) : Want2(d)' = Want2(d) /\ Got2(d)' = c /\ Failed2(d)' = Failed2(d)
  <2> SUFFICES ASSUME NEW d \in Waiters2(c)
               PROVE  Want2(d)' = Want2(d) /\ Got2(d)' = c /\ Failed2(d)' = Failed2(d)
    OBVIOUS
  <2>1. d \in Calls \ {c} /\ pc[d] = "wait2" /\ slot[d] = c
    BY DEF Waiters2, Inv, AgreeInv, TypeOK
  <2>2. pc'[d] = "wait2" /\ slot'[d] = c
    BY <1>2, <2>1 DEF Apart2
  <2>3. Want2(d)' = Want2(d) /\ Got2(d)' = c
    BY <1>2, <2>1, <2>2 DEF Apart2, Want2, Got2, Reached2, Content
  <2>4. ~ Failing2(d) /\ ~ Failing2(d)'
    BY <2>1, <2>2 DEF Failing2
  <2>5. Failed2(d) = "none" /\ Failed2(d)' = "none"
    BY <1>3, <2>1, <2>2, <2>4 DEF Failed2
  <2>6. QED
    BY <2>3, <2>5
<1>6. Want2(c)' = Want2(c) /\ Got2(c)' = c /\ Failed2(c)' = Failed2(c)
  BY <1>1, <1>2, <1>3 DEF Want2, Got2, Failed2, Reached2, Content
<1>7. /\ Want2Bar' = Want2Bar /\ Failed2Bar' = Failed2Bar
      /\ Got2Bar' = [d \in Calls |-> IF d \in Waiters2(c) \cup {c} THEN c ELSE Got2Bar[d]]
  BY <1>4, <1>5, <1>6 DEF Want2Bar, Got2Bar, Failed2Bar
<1>8. Tried2' = Tried2 \cup {c}
  <2>1. \A d \in Calls \ {c} : d \in Tried2' <=> d \in Tried2
    BY <1>2 DEF Apart2, Tried2, Failing2, Reached2
  <2>2. c \in Tried2'
    BY <1>2 DEF Tried2
  <2>3. QED
    BY <2>1, <2>2 DEF Tried2
<1>9. Attempts2Bar' = Attempts2Bar + 1
  BY <1>3, <1>8, CallsCount DEF Attempts2Bar, Tried2
<1>10. Cardinality(artifacts') <= Cardinality(Calls)
  <2>1. artifacts' \in SUBSET Calls
    BY <1>1 DEF Inv, AgreeInv, TypeOK
  <2>2. QED
    BY <2>1, CallsCount
<1>11. artifacts' = (artifacts \cup {c}) \ {}
  BY <1>1
<1>12. QED
  BY <1>3, <1>7, <1>9, <1>10, <1>11, SameCardinality2 DEF Tier2!Build

LEMMA StepImplements2 ==
  ASSUME Inv, NEW c \in Calls, Step(c)
  PROVE  Tier2!MemoNext \/ UNCHANGED Tier2!memoVars
<1>1. CASE ReadArtifacts(c)
  BY <1>1, ReadAsks2 DEF Tier2!MemoNext
<1>2. CASE ArtifactHit(c)
  BY <1>2, HitRecalls2 DEF Tier2!MemoNext
<1>3. CASE ArtifactJoin(c)
  BY <1>3, JoinStutters2
<1>4. CASE ArtifactWake(c)
  BY <1>4, WakeStutters2
<1>5. CASE RenderFails(c)
  <2>1. pc[c] \in Rendering
    BY <1>5 DEF RenderFails, From, Rendering
  <2>2. Tier2!Break(c, Waiters2(c), "Failed") /\ Waiters2(c) \in SUBSET Tier2!Sharers(c)
    BY <1>5, <2>1, FailBreaks2, WaitersShare2
  <2>3. QED
    BY <2>2 DEF Tier2!MemoNext, Tier2!Failures
<1>6. CASE PublishArtifact(c)
  <2>1. pc[c] \in Rendering
    BY <1>6 DEF PublishArtifact, From, Rendering
  <2>2. Tier2!Build(c, Waiters2(c), {}) /\ Waiters2(c) \in SUBSET Tier2!Sharers(c)
    BY <1>6, <2>1, PublishBuilds2, WaitersShare2
  <2>3. QED
    BY <2>2 DEF Tier2!MemoNext
<1>7. QED
  BY <1>1, <1>2, <1>3, <1>4, <1>5, <1>6, QuietSteps2 DEF Step

\* Beginning a dispatch is nothing to tier 2.
LEMMA BeginStutters2 ==
  ASSUME Inv, NEW c \in Calls, NEW t \in Threads, NEW k \in Kernels, Begin(c, t, k)
  PROVE  UNCHANGED Tier2!memoVars
<1>1. /\ pc[c] = "unused" /\ pc' = [pc EXCEPT ![c] = "lookup1"]
      /\ UNCHANGED buildVars /\ slot' = slot /\ artifacts' = artifacts
  BY BeginMoves DEF Inv
<1>2. content[c] = None /\ pc'[c] = "lookup1" /\ \A d \in Calls \ {c} : pc'[d] = pc[d]
  BY <1>1 DEF Inv, AgreeInv, TypeOK, ProgressInv, Actors
<1>3. Quiet2(c)
  BY <1>1, <1>2 DEF buildVars, Quiet2, Apart2, Reached2, Failing2
<1>4. QED
  BY <1>3, QuietStutters2

\* A swap leaves the artifact caches of earlier eras as they are, with what is
\* being rendered for them, and a bump clears tier 1 only.
LEMMA RegistrationStutters2 ==
  ASSUME Inv, NEW r \in Registrations,
         (\E t \in Threads : Mutate(r, t)) \/ MutateRest(r) \/ Abandon(r) \/ Bump(r) \/ Swap(r)
  PROVE  UNCHANGED Tier2!memoVars
<1>1. /\ UNCHANGED buildVars /\ slot' = slot /\ artifacts' = artifacts
      /\ \A c \in Calls : pc'[c] = pc[c]
  BY RegistrationMoves DEF Inv
<1>2. \A c \in Calls : (Reached2(c)' <=> Reached2(c)) /\ (Failing2(c)' <=> Failing2(c))
  BY <1>1 DEF buildVars, Reached2, Failing2
<1>3. \A c \in Calls : Want2(c)' = Want2(c) /\ Got2(c)' = Got2(c) /\ Failed2(c)' = Failed2(c)
  <2> SUFFICES ASSUME NEW c \in Calls
               PROVE  Want2(c)' = Want2(c) /\ Got2(c)' = Got2(c) /\ Failed2(c)' = Failed2(c)
    OBVIOUS
  <2>1. Want2(c)' = Want2(c) /\ Got2(c)' = Got2(c)
    BY <1>1, <1>2 DEF buildVars, Want2, Got2, Content
  <2>2. CASE pc[c] = "wait2"
    <3>1. PICK e \in Calls : slot[c] = e /\ slot'[c] = e
      BY <1>1, <2>2 DEF Inv, AgreeInv, TypeOK
    <3>2. QED
      BY <1>1, <1>2, <2>1, <2>2, <3>1 DEF Failed2
  <2>3. CASE pc[c] # "wait2"
    BY <1>1, <1>2, <2>1, <2>3 DEF Failed2
  <2>4. QED
    BY <2>2, <2>3
<1>4. Tried2' = Tried2
  BY <1>1, <1>2 DEF buildVars, Tried2
<1>5. QED
  BY <1>1, <1>3, <1>4, Stutters2

LEMMA NextImplements2 == Inv /\ [Next]_vars => [Tier2!MemoNext]_(Tier2!memoVars)
<1> SUFFICES ASSUME Inv, [Next]_vars
             PROVE  Tier2!MemoNext \/ UNCHANGED Tier2!memoVars
  OBVIOUS
<1>1. ASSUME NEW r \in Registrations, (\E t \in Threads : Mutate(r, t)) \/ MutateRest(r) \/ Abandon(r) \/ Bump(r) \/ Swap(r)
      PROVE  UNCHANGED Tier2!memoVars
  BY <1>1, RegistrationStutters2
<1>2. ASSUME NEW c \in Calls, NEW t \in Threads, NEW k \in Kernels, Begin(c, t, k)
      PROVE  UNCHANGED Tier2!memoVars
  BY <1>2, BeginStutters2
<1>3. ASSUME NEW c \in Calls, Step(c)
      PROVE  Tier2!MemoNext \/ UNCHANGED Tier2!memoVars
  BY <1>3, StepImplements2
<1>4. CASE UNCHANGED vars
  <2>1. \A c \in Calls : Want2(c)' = Want2(c) /\ Got2(c)' = Got2(c) /\ Failed2(c)' = Failed2(c)
    BY <1>4 DEF vars, buildVars, Want2, Got2, Failed2, Failing2, Reached2, Content
  <2>2. Tried2' = Tried2 /\ artifacts' = artifacts
    BY <1>4 DEF vars, buildVars, Tried2, Failing2, Reached2
  <2>3. QED
    BY <2>1, <2>2, Stutters2
<1>5. QED
  BY <1>1, <1>2, <1>3, <1>4 DEF Next, Terminated

LEMMA InitImplements2 == Init => Tier2!MemoInit
<1> SUFFICES ASSUME Init PROVE Tier2!MemoInit
  OBVIOUS
<1>1. \A c \in Calls : pc[c] = "unused" /\ ~ Reached2(c) /\ ~ Failing2(c)
  BY DEF Init, Actors, Reached2, Failing2
<1>2. /\ Want2Bar = [c \in Calls |-> None] /\ Got2Bar = [c \in Calls |-> None]
      /\ Failed2Bar = [c \in Calls |-> "none"]
  BY <1>1 DEF Init, Want2Bar, Got2Bar, Failed2Bar, Want2, Got2, Failed2
<1>3. Tried2 = {}
  BY <1>1, NoneAssumption DEF Init, Tried2
<1>4. Attempts2Bar = 0
  BY <1>3, FS_EmptySet DEF Attempts2Bar
<1>5. QED
  BY <1>2, <1>4 DEF Init, Tier2!MemoInit

\* Builds use tier 2 as a memo that forgets nothing: through bumps, swaps of the
\* artifact cache and failing renders, each content is rendered once for each
\* artifact cache, and shared by the builds that came to it meanwhile.
THEOREM Tier2IsUsedAsMemo == Spec => Tier2IsMemo
<1>1. Init => Tier2!MemoInit
  BY InitImplements2
<1>2. Inv /\ [Next]_vars => [Tier2!MemoNext]_(Tier2!memoVars)
  BY NextImplements2
<1>3. QED
  BY <1>1, <1>2, InvHolds, PTL DEF Spec, Tier2IsMemo, Tier2!MemoSpec

\* Dispatch and registration use both tiers as atomic memos, one inside the
\* build of the other.
THEOREM BothTiersAreMemos == Spec => TiersAreMemos
  BY Tier1IsUsedAsMemo, Tier2IsUsedAsMemo DEF TiersAreMemos
=============================================================================
