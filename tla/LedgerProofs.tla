---------------------------- MODULE LedgerProofs ----------------------------
(***************************************************************************)
(* Proofs about Ledger, for any number of calls, loads, keys, sessions and *)
(* saves: whatever processes, loads and saves overlap, a fact is what was  *)
(* measured for its key, a session has one fact per key, and nothing that  *)
(* was loaded is measured again.                                           *)
(***************************************************************************)
EXTENDS Ledger, TLAPS

\* In a fresh process with no file, the invariant holds.
LEMMA InitInv == Init => Inv
  <1> SUFFICES ASSUME Init PROVE Inv OBVIOUS
  <1>1. TypeOK
    BY BoundAssumption DEF Init, TypeOK, Actors, Maps, Values, Steps, Empty
  <1>2. FactsAreMeasured /\ OneFactPerKey /\ NeverMeasuredTwice
    BY NoneAssumption
    DEF Init, Actors, FactsAreMeasured, AllMeasured, OneFactPerKey, NeverMeasuredTwice, Empty
  <1>3. FactInv /\ FlightInv /\ WaitInv /\ SessionInv /\ SeededInv /\ LedgerInv
    BY NoneAssumption
    DEF Init, Actors, FactInv, FlightInv, WaitInv, SessionInv, SeededInv, LedgerInv, Empty,
        AllMeasured, LedgerCoversCache, KeysOf, Building, Live
  <1> QED BY <1>1, <1>2, <1>3 DEF Inv

\* Every step of a call, a load, a save or a restart keeps the invariant.
LEMMA StepInv == Inv /\ [Next]_vars => Inv'
<1> SUFFICES ASSUME Inv, [Next]_vars PROVE Inv' OBVIOUS
<1> USE NoneAssumption, ActorsAssumption, BoundAssumption
<1> USE DEF Inv, From, vars, askVars, loadVars, saveVars
<1>1. ASSUME NEW c \in Calls, NEW k \in Keys, Call(c, k) PROVE Inv'
  <2>1. TypeOK'
    BY <1>1 DEF TypeOK, Maps, Values, Steps, Actors, Call, Seeded, KeysOf
  <2>2. FactsAreMeasured'
    BY <1>1 DEF TypeOK, Maps, Values, Steps, Actors, FactsAreMeasured, AllMeasured,
        MeasuredFor, FactInv, WaitInv, Over, Failed, Built, Call, Seeded, KeysOf
  <2>3. OneFactPerKey'
    BY <1>1 DEF TypeOK, Maps, Values, Steps, Actors, OneFactPerKey, SessionInv, Live,
        Call, Seeded, KeysOf
  <2>4. NeverMeasuredTwice'
    BY <1>1 DEF TypeOK, Maps, Values, Steps, Actors, NeverMeasuredTwice, SeededInv,
        FactInv, Live, Call, Seeded, KeysOf
  <2>5. FactInv'
    BY <1>1 DEF TypeOK, Maps, Values, Steps, Actors, FactInv, FactsAreMeasured,
        AllMeasured, MeasuredFor, KeysOf, Call, Seeded
  <2>6. FlightInv'
    BY <1>1 DEF TypeOK, Maps, Values, Steps, Actors, FlightInv, Building, Call, Seeded,
        KeysOf
  <2>7. WaitInv'
    BY <1>1 DEF TypeOK, Maps, Values, Steps, Actors, WaitInv, Over, Failed, Built,
        Building, FactInv, FlightInv, Call, Seeded, KeysOf
  <2>8. SessionInv'
    BY <1>1 DEF TypeOK, Maps, Values, Steps, Actors, SessionInv, Live, FlightInv,
        Building, Call, Seeded, KeysOf
  <2>9. SeededInv'
    BY <1>1 DEF TypeOK, Maps, Values, Steps, Actors, SeededInv, Live, SessionInv, Over,
        Failed, Built, WaitInv, Call, Seeded, KeysOf
  <2>10. LedgerInv'
    BY <1>1 DEF TypeOK, Maps, Values, Steps, Actors, LedgerInv, LedgerCoversCache,
        KeysOf, FactInv, Call, Seeded
  <2> QED BY <2>1, <2>2, <2>3, <2>4, <2>5, <2>6, <2>7, <2>8, <2>9, <2>10
<1>2. ASSUME NEW l \in Loads, Load(l) PROVE Inv'
  <2>1. TypeOK'
    <3>1. CASE From(l, "unused", "raised") /\ file = None /\ UNCHANGED loadVars
      BY <1>2, <3>1 DEF TypeOK, Maps, Values, Steps, Actors, Load, KeysOf
    <3>2. CASE /\ From(l, "unused", "next") /\ file \in Maps
               /\ data' = [data EXCEPT ![l] = file]
               /\ pending' = [pending EXCEPT ![l] = KeysOf(file)]
      BY <1>2, <3>2 DEF TypeOK, Maps, Values, Steps, Actors, Load, KeysOf
    <3> QED BY <1>2, <3>1, <3>2 DEF Load, TypeOK
  <2>2. FactsAreMeasured'
    BY <1>2 DEF TypeOK, Maps, Values, Steps, Actors, FactsAreMeasured, AllMeasured,
        MeasuredFor, FactInv, WaitInv, Over, Failed, Built, Load, KeysOf
  <2>3. OneFactPerKey'
    BY <1>2 DEF TypeOK, Maps, Values, Steps, Actors, OneFactPerKey, SessionInv, Live,
        Load, KeysOf
  <2>4. NeverMeasuredTwice'
    BY <1>2 DEF TypeOK, Maps, Values, Steps, Actors, NeverMeasuredTwice, SeededInv,
        FactInv, Live, Load, KeysOf
  <2>5. FactInv'
    <3>1. CASE From(l, "unused", "raised") /\ file = None /\ UNCHANGED loadVars
      BY <1>2, <3>1 DEF TypeOK, Maps, Values, Steps, Actors, FactInv, FactsAreMeasured,
          AllMeasured, MeasuredFor, Load, KeysOf
    <3>2. CASE /\ From(l, "unused", "next") /\ file \in Maps
               /\ data' = [data EXCEPT ![l] = file]
               /\ pending' = [pending EXCEPT ![l] = KeysOf(file)]
      BY <1>2, <3>2 DEF TypeOK, Maps, Values, Steps, Actors, FactInv, FactsAreMeasured,
          AllMeasured, MeasuredFor, Load, KeysOf
    <3> QED BY <1>2, <3>1, <3>2 DEF Load, TypeOK
  <2>6. FlightInv'
    BY <1>2 DEF TypeOK, Maps, Values, Steps, Actors, FlightInv, Building, Load, KeysOf
  <2>7. WaitInv'
    <3>1. CASE From(l, "unused", "raised") /\ file = None /\ UNCHANGED loadVars
      BY <1>2, <3>1 DEF TypeOK, Maps, Values, Steps, Actors, WaitInv, Over, Failed,
          Built, Building, FactInv, FlightInv, Load, KeysOf
    <3>2. CASE /\ From(l, "unused", "next") /\ file \in Maps
               /\ data' = [data EXCEPT ![l] = file]
               /\ pending' = [pending EXCEPT ![l] = KeysOf(file)]
      BY <1>2, <3>2 DEF TypeOK, Maps, Values, Steps, Actors, WaitInv, Over, Failed,
          Built, Building, FactInv, FlightInv, Load, KeysOf
    <3> QED BY <1>2, <3>1, <3>2 DEF Load, TypeOK
  <2>8. SessionInv'
    BY <1>2 DEF TypeOK, Maps, Values, Steps, Actors, SessionInv, Live, FlightInv,
        Building, Load, KeysOf
  <2>9. SeededInv'
    <3>1. CASE From(l, "unused", "raised") /\ file = None /\ UNCHANGED loadVars
      BY <1>2, <3>1 DEF TypeOK, Maps, Values, Steps, Actors, SeededInv, Live, KeysOf,
          Load
    <3>2. CASE /\ From(l, "unused", "next") /\ file \in Maps
               /\ data' = [data EXCEPT ![l] = file]
               /\ pending' = [pending EXCEPT ![l] = KeysOf(file)]
      BY <1>2, <3>2 DEF TypeOK, Maps, Values, Steps, Actors, SeededInv, Live, KeysOf,
          Load
    <3> QED BY <1>2, <3>1, <3>2 DEF Load, TypeOK
  <2>10. LedgerInv'
    BY <1>2 DEF TypeOK, Maps, Values, Steps, Actors, LedgerInv, LedgerCoversCache,
        KeysOf, FactInv, Load
  <2> QED BY <2>1, <2>2, <2>3, <2>4, <2>5, <2>6, <2>7, <2>8, <2>9, <2>10
<1>3. ASSUME NEW a \in Actors, Hit(a) PROVE Inv'
  <2>1. TypeOK'
    BY <1>3 DEF TypeOK, Maps, Values, Steps, Actors, Hit, Served
  <2>2. FactsAreMeasured'
    BY <1>3 DEF TypeOK, Maps, Values, Steps, Actors, FactsAreMeasured, AllMeasured,
        MeasuredFor, FactInv, WaitInv, Over, Failed, Built, Hit, Served
  <2>3. OneFactPerKey'
    BY <1>3 DEF TypeOK, Maps, Values, Steps, Actors, OneFactPerKey, SessionInv, Live,
        Hit, Served
  <2>4. NeverMeasuredTwice'
    BY <1>3 DEF TypeOK, Maps, Values, Steps, Actors, NeverMeasuredTwice, FactInv,
        FactsAreMeasured, AllMeasured, MeasuredFor, Hit, Served
  <2>5. FactInv'
    BY <1>3 DEF TypeOK, Maps, Values, Steps, Actors, FactInv, FactsAreMeasured,
        AllMeasured, MeasuredFor, KeysOf, Hit, Served
  <2>6. FlightInv'
    BY <1>3 DEF TypeOK, Maps, Values, Steps, Actors, FlightInv, Building, Hit, Served
  <2>7. WaitInv'
    BY <1>3 DEF TypeOK, Maps, Values, Steps, Actors, WaitInv, Over, Failed, Built,
        Building, FactInv, FlightInv, Hit, Served
  <2>8. SessionInv'
    BY <1>3 DEF TypeOK, Maps, Values, Steps, Actors, SessionInv, Live, FlightInv,
        Building, Hit, Served
  <2>9. SeededInv'
    BY <1>3 DEF TypeOK, Maps, Values, Steps, Actors, SeededInv, Live, SessionInv, Over,
        Failed, Built, WaitInv, Hit, Served
  <2>10. LedgerInv'
    BY <1>3 DEF TypeOK, Maps, Values, Steps, Actors, LedgerInv, LedgerCoversCache,
        KeysOf, FactInv, Hit, Served
  <2> QED BY <2>1, <2>2, <2>3, <2>4, <2>5, <2>6, <2>7, <2>8, <2>9, <2>10
<1>4. ASSUME NEW a \in Actors, Lead(a) PROVE Inv'
  <2>1. TypeOK'
    BY <1>4 DEF TypeOK, Maps, Values, Steps, Actors, Lead, InFlight, Building
  <2>2. FactsAreMeasured'
    BY <1>4 DEF TypeOK, Maps, Values, Steps, Actors, FactsAreMeasured, AllMeasured,
        MeasuredFor, FactInv, WaitInv, Over, Failed, Built, Lead, InFlight, Building
  <2>3. OneFactPerKey'
    BY <1>4 DEF TypeOK, Maps, Values, Steps, Actors, OneFactPerKey, SessionInv, Live,
        Lead, InFlight, Building
  <2>4. NeverMeasuredTwice'
    BY <1>4 DEF TypeOK, Maps, Values, Steps, Actors, NeverMeasuredTwice, SeededInv,
        FactInv, Live, Lead, InFlight, Building
  <2>5. FactInv'
    BY <1>4 DEF TypeOK, Maps, Values, Steps, Actors, FactInv, FactsAreMeasured,
        AllMeasured, MeasuredFor, KeysOf, Lead, InFlight, Building
  <2>6. FlightInv'
    BY <1>4 DEF TypeOK, Maps, Values, Steps, Actors, FlightInv, Building, Lead, InFlight
  <2>7. WaitInv'
    BY <1>4 DEF TypeOK, Maps, Values, Steps, Actors, WaitInv, Over, Failed, Built,
        Building, FactInv, FlightInv, Lead, InFlight
  <2>8. SessionInv'
    BY <1>4 DEF TypeOK, Maps, Values, Steps, Actors, SessionInv, Live, FlightInv,
        Building, Lead, InFlight
  <2>9. SeededInv'
    BY <1>4 DEF TypeOK, Maps, Values, Steps, Actors, SeededInv, Live, SessionInv, Over,
        Failed, Built, WaitInv, Lead, InFlight, Building
  <2>10. LedgerInv'
    BY <1>4 DEF TypeOK, Maps, Values, Steps, Actors, LedgerInv, LedgerCoversCache,
        KeysOf, FactInv, Lead, InFlight, Building
  <2> QED BY <2>1, <2>2, <2>3, <2>4, <2>5, <2>6, <2>7, <2>8, <2>9, <2>10
<1>5. ASSUME NEW a \in Actors, Join(a) PROVE Inv'
  <2>1. TypeOK'
    BY <1>5 DEF TypeOK, Maps, Values, Steps, Actors, Join, InFlight, Building
  <2>2. FactsAreMeasured'
    BY <1>5 DEF TypeOK, Maps, Values, Steps, Actors, FactsAreMeasured, AllMeasured,
        MeasuredFor, FactInv, WaitInv, Over, Failed, Built, Join, InFlight, Building
  <2>3. OneFactPerKey'
    BY <1>5 DEF TypeOK, Maps, Values, Steps, Actors, OneFactPerKey, SessionInv, Live,
        Join, InFlight, Building
  <2>4. NeverMeasuredTwice'
    BY <1>5 DEF TypeOK, Maps, Values, Steps, Actors, NeverMeasuredTwice, SeededInv,
        FactInv, Live, Join, InFlight, Building
  <2>5. FactInv'
    BY <1>5 DEF TypeOK, Maps, Values, Steps, Actors, FactInv, FactsAreMeasured,
        AllMeasured, MeasuredFor, KeysOf, Join, InFlight, Building
  <2>6. FlightInv'
    BY <1>5 DEF TypeOK, Maps, Values, Steps, Actors, FlightInv, Building, Join, InFlight
  <2>7. WaitInv'
    BY <1>5 DEF TypeOK, Maps, Values, Steps, Actors, WaitInv, Over, Failed, Built,
        Building, FactInv, FlightInv, Join, InFlight
  <2>8. SessionInv'
    BY <1>5 DEF TypeOK, Maps, Values, Steps, Actors, SessionInv, Live, FlightInv,
        Building, Join, InFlight
  <2>9. SeededInv'
    BY <1>5 DEF TypeOK, Maps, Values, Steps, Actors, SeededInv, Live, SessionInv, Over,
        Failed, Built, WaitInv, Join, InFlight, Building
  <2>10. LedgerInv'
    BY <1>5 DEF TypeOK, Maps, Values, Steps, Actors, LedgerInv, LedgerCoversCache,
        KeysOf, FactInv, Join, InFlight, Building
  <2> QED BY <2>1, <2>2, <2>3, <2>4, <2>5, <2>6, <2>7, <2>8, <2>9, <2>10
<1>6. ASSUME NEW a \in Actors, Publish(a) PROVE Inv'
  <2>1. TypeOK'
    BY <1>6 DEF TypeOK, Maps, Values, Steps, Actors, Publish, Served, Building
  <2>2. FactsAreMeasured'
    BY <1>6 DEF TypeOK, Maps, Values, Steps, Actors, FactsAreMeasured, AllMeasured,
        MeasuredFor, FactInv, WaitInv, Over, Failed, Built, Publish, Served, Building
  <2>3. OneFactPerKey'
    BY <1>6 DEF TypeOK, Maps, Values, Steps, Actors, OneFactPerKey, SessionInv,
        FlightInv, FactInv, Building, Live, Publish, Served
  <2>4. NeverMeasuredTwice'
    BY <1>6 DEF TypeOK, Maps, Values, Steps, Actors, NeverMeasuredTwice, SeededInv,
        FactInv, Live, Publish, Served, Building
  <2>5. FactInv'
    BY <1>6 DEF TypeOK, Maps, Values, Steps, Actors, FactInv, FactsAreMeasured,
        AllMeasured, MeasuredFor, KeysOf, Publish, Served, Building
  <2>6. FlightInv'
    BY <1>6 DEF TypeOK, Maps, Values, Steps, Actors, FlightInv, Building, Publish,
        Served
  <2>7. WaitInv'
    BY <1>6 DEF TypeOK, Maps, Values, Steps, Actors, WaitInv, Over, Failed, Built,
        Building, FactInv, FlightInv, Publish, Served
  <2>8. SessionInv'
    BY <1>6 DEF TypeOK, Maps, Values, Steps, Actors, SessionInv, FlightInv, FactInv,
        Building, Live, Publish, Served
  <2>9. SeededInv'
    BY <1>6 DEF TypeOK, Maps, Values, Steps, Actors, SeededInv, FactInv, FlightInv,
        SessionInv, Live, Building, Publish, Served
  <2>10. LedgerInv'
    BY <1>6 DEF TypeOK, Maps, Values, Steps, Actors, LedgerInv, LedgerCoversCache,
        KeysOf, FactInv, Publish, Served, Building
  <2> QED BY <2>1, <2>2, <2>3, <2>4, <2>5, <2>6, <2>7, <2>8, <2>9, <2>10
<1>7. ASSUME NEW a \in Actors, Wake(a) PROVE Inv'
  <2>1. TypeOK'
    <3>1. CASE Failed(a) /\ From(a, "wait", "raised") /\ UNCHANGED fact
      BY <1>7, <3>1 DEF TypeOK, Maps, Values, Steps, Actors, Over, Failed, Built, Wake,
          Served
    <3>2. CASE ~ Failed(a) /\ From(a, "wait", Served(a)) /\ fact' = [fact EXCEPT ![a] = Built(a)]
      BY <1>7, <3>2 DEF TypeOK, Maps, Values, Steps, Actors, Over, Failed, Built, Wake,
          Served
    <3> QED BY <1>7, <3>1, <3>2 DEF Wake
  <2>2. FactsAreMeasured'
    BY <1>7 DEF TypeOK, Maps, Values, Steps, Actors, FactsAreMeasured, AllMeasured,
        MeasuredFor, FactInv, WaitInv, Over, Failed, Built, Wake, Served
  <2>3. OneFactPerKey'
    <3>1. CASE Failed(a) /\ From(a, "wait", "raised") /\ UNCHANGED fact
      BY <1>7, <3>1 DEF TypeOK, Maps, Values, Steps, Actors, OneFactPerKey, SessionInv,
          Live, WaitInv, Over, Wake, Served
    <3>2. CASE ~ Failed(a) /\ From(a, "wait", Served(a)) /\ fact' = [fact EXCEPT ![a] = Built(a)]
      BY <1>7, <3>2 DEF TypeOK, Maps, Values, Steps, Actors, OneFactPerKey, SessionInv,
          Live, WaitInv, Over, Wake, Served
    <3> QED BY <1>7, <3>1, <3>2 DEF Wake
  <2>4. NeverMeasuredTwice'
    <3>1. CASE Failed(a) /\ From(a, "wait", "raised") /\ UNCHANGED fact
      BY <1>7, <3>1 DEF TypeOK, Maps, Values, Steps, Actors, NeverMeasuredTwice,
          FactInv, FactsAreMeasured, AllMeasured, MeasuredFor, WaitInv, Over, Wake,
          Served
    <3>2. CASE ~ Failed(a) /\ From(a, "wait", Served(a)) /\ fact' = [fact EXCEPT ![a] = Built(a)]
      BY <1>7, <3>2 DEF TypeOK, Maps, Values, Steps, Actors, NeverMeasuredTwice,
          FactInv, FactsAreMeasured, AllMeasured, MeasuredFor, WaitInv, Over, Wake,
          Served
    <3> QED BY <1>7, <3>1, <3>2 DEF Wake
  <2>5. FactInv'
    <3>1. CASE Failed(a) /\ From(a, "wait", "raised") /\ UNCHANGED fact
      BY <1>7, <3>1 DEF TypeOK, Maps, Values, Steps, Actors, FactInv, FactsAreMeasured,
          AllMeasured, MeasuredFor, KeysOf, Over, Wake, Served
    <3>2. CASE ~ Failed(a) /\ From(a, "wait", Served(a)) /\ fact' = [fact EXCEPT ![a] = Built(a)]
      BY <1>7, <3>2 DEF TypeOK, Maps, Values, Steps, Actors, FactInv, FactsAreMeasured,
          AllMeasured, MeasuredFor, KeysOf, Over, Wake, Served
    <3> QED BY <1>7, <3>1, <3>2 DEF Wake
  <2>6. FlightInv'
    BY <1>7 DEF TypeOK, Maps, Values, Steps, Actors, FlightInv, Building, Wake, Served,
        Over, Failed, Built
  <2>7. WaitInv'
    BY <1>7 DEF TypeOK, Maps, Values, Steps, Actors, WaitInv, Over, Failed, Built,
        Building, FactInv, FlightInv, Wake, Served
  <2>8. SessionInv'
    <3>1. CASE Failed(a) /\ From(a, "wait", "raised") /\ UNCHANGED fact
      BY <1>7, <3>1 DEF TypeOK, Maps, Values, Steps, Actors, SessionInv, Live, WaitInv,
          Over, Wake, Served
    <3>2. CASE ~ Failed(a) /\ From(a, "wait", Served(a)) /\ fact' = [fact EXCEPT ![a] = Built(a)]
      BY <1>7, <3>2 DEF TypeOK, Maps, Values, Steps, Actors, SessionInv, Live, WaitInv,
          Over, Wake, Served
    <3> QED BY <1>7, <3>1, <3>2 DEF Wake
  <2>9. SeededInv'
    BY <1>7 DEF TypeOK, Maps, Values, Steps, Actors, SeededInv, Live, SessionInv, Over,
        Failed, Built, WaitInv, Wake, Served
  <2>10. LedgerInv'
    BY <1>7 DEF TypeOK, Maps, Values, Steps, Actors, LedgerInv, LedgerCoversCache,
        KeysOf, FactInv, Wake, Served, Over, Failed, Built
  <2> QED BY <2>1, <2>2, <2>3, <2>4, <2>5, <2>6, <2>7, <2>8, <2>9, <2>10
<1>8. ASSUME NEW c \in Calls, Measure(c) PROVE Inv'
  <2>1. TypeOK'
    BY <1>8 DEF TypeOK, Maps, Values, Steps, Actors, Measure
  <2>2. FactsAreMeasured'
    BY <1>8 DEF TypeOK, Maps, Values, Steps, Actors, FactsAreMeasured, AllMeasured,
        MeasuredFor, FactInv, WaitInv, Over, Failed, Built, Measure
  <2>3. OneFactPerKey'
    BY <1>8 DEF TypeOK, Maps, Values, Steps, Actors, OneFactPerKey, SessionInv, Live,
        Measure
  <2>4. NeverMeasuredTwice'
    BY <1>8 DEF TypeOK, Maps, Values, Steps, Actors, NeverMeasuredTwice, SeededInv,
        FactInv, Live, Measure
  <2>5. FactInv'
    BY <1>8 DEF TypeOK, Maps, Values, Steps, Actors, FactInv, FactsAreMeasured,
        AllMeasured, MeasuredFor, KeysOf, Measure
  <2>6. FlightInv'
    BY <1>8 DEF TypeOK, Maps, Values, Steps, Actors, FlightInv, Building, Measure
  <2>7. WaitInv'
    BY <1>8 DEF TypeOK, Maps, Values, Steps, Actors, WaitInv, Over, Failed, Built,
        Building, FactInv, FlightInv, Measure
  <2>8. SessionInv'
    BY <1>8 DEF TypeOK, Maps, Values, Steps, Actors, SessionInv, Live, FlightInv,
        Building, Measure
  <2>9. SeededInv'
    BY <1>8 DEF TypeOK, Maps, Values, Steps, Actors, SeededInv, Live, SessionInv, Over,
        Failed, Built, WaitInv, Measure
  <2>10. LedgerInv'
    BY <1>8 DEF TypeOK, Maps, Values, Steps, Actors, LedgerInv, LedgerCoversCache,
        KeysOf, FactInv, Measure
  <2> QED BY <2>1, <2>2, <2>3, <2>4, <2>5, <2>6, <2>7, <2>8, <2>9, <2>10
<1>9. ASSUME NEW a \in Actors, BuildFails(a) PROVE Inv'
  <2>1. TypeOK'
    BY <1>9 DEF TypeOK, Maps, Values, Steps, Actors, BuildFails
  <2>2. FactsAreMeasured'
    BY <1>9 DEF TypeOK, Maps, Values, Steps, Actors, FactsAreMeasured, AllMeasured,
        MeasuredFor, FactInv, WaitInv, Over, Failed, Built, BuildFails
  <2>3. OneFactPerKey'
    BY <1>9 DEF TypeOK, Maps, Values, Steps, Actors, OneFactPerKey, SessionInv, Live,
        BuildFails
  <2>4. NeverMeasuredTwice'
    BY <1>9 DEF TypeOK, Maps, Values, Steps, Actors, NeverMeasuredTwice, SeededInv,
        FactInv, Live, BuildFails
  <2>5. FactInv'
    BY <1>9 DEF TypeOK, Maps, Values, Steps, Actors, FactInv, FactsAreMeasured,
        AllMeasured, MeasuredFor, KeysOf, BuildFails
  <2>6. FlightInv'
    BY <1>9 DEF TypeOK, Maps, Values, Steps, Actors, FlightInv, Building, BuildFails
  <2>7. WaitInv'
    BY <1>9 DEF TypeOK, Maps, Values, Steps, Actors, WaitInv, Over, Failed, Built,
        Building, FactInv, FlightInv, BuildFails
  <2>8. SessionInv'
    BY <1>9 DEF TypeOK, Maps, Values, Steps, Actors, SessionInv, Live, FlightInv,
        Building, BuildFails
  <2>9. SeededInv'
    BY <1>9 DEF TypeOK, Maps, Values, Steps, Actors, SeededInv, Live, SessionInv, Over,
        Failed, Built, WaitInv, BuildFails
  <2>10. LedgerInv'
    BY <1>9 DEF TypeOK, Maps, Values, Steps, Actors, LedgerInv, LedgerCoversCache,
        KeysOf, FactInv, BuildFails
  <2> QED BY <2>1, <2>2, <2>3, <2>4, <2>5, <2>6, <2>7, <2>8, <2>9, <2>10
<1>10. ASSUME NEW l \in Loads, Recall(l) PROVE Inv'
  <2>1. TypeOK'
    BY <1>10 DEF TypeOK, Maps, Values, Steps, Actors, Recall
  <2>2. FactsAreMeasured'
    BY <1>10 DEF TypeOK, Maps, Values, Steps, Actors, FactsAreMeasured, AllMeasured,
        MeasuredFor, FactInv, WaitInv, Over, Failed, Built, Recall
  <2>3. OneFactPerKey'
    BY <1>10 DEF TypeOK, Maps, Values, Steps, Actors, OneFactPerKey, SessionInv, Live,
        Recall
  <2>4. NeverMeasuredTwice'
    BY <1>10 DEF TypeOK, Maps, Values, Steps, Actors, NeverMeasuredTwice, SeededInv,
        FactInv, Live, Recall
  <2>5. FactInv'
    BY <1>10 DEF TypeOK, Maps, Values, Steps, Actors, FactInv, FactsAreMeasured,
        AllMeasured, MeasuredFor, KeysOf, Recall
  <2>6. FlightInv'
    BY <1>10 DEF TypeOK, Maps, Values, Steps, Actors, FlightInv, Building, Recall
  <2>7. WaitInv'
    BY <1>10 DEF TypeOK, Maps, Values, Steps, Actors, WaitInv, Over, Failed, Built,
        Building, FactInv, FlightInv, Recall
  <2>8. SessionInv'
    BY <1>10 DEF TypeOK, Maps, Values, Steps, Actors, SessionInv, Live, FlightInv,
        Building, Recall
  <2>9. SeededInv'
    BY <1>10 DEF TypeOK, Maps, Values, Steps, Actors, SeededInv, Live, SessionInv, Over,
        Failed, Built, WaitInv, Recall
  <2>10. LedgerInv'
    BY <1>10 DEF TypeOK, Maps, Values, Steps, Actors, LedgerInv, LedgerCoversCache,
        KeysOf, FactInv, Recall
  <2> QED BY <2>1, <2>2, <2>3, <2>4, <2>5, <2>6, <2>7, <2>8, <2>9, <2>10
<1>11. ASSUME NEW l \in Loads, NEW k \in Keys, LoadNext(l, k) PROVE Inv'
  <2>1. TypeOK'
    BY <1>11 DEF TypeOK, Maps, Values, Steps, Actors, LoadNext
  <2>2. FactsAreMeasured'
    BY <1>11 DEF TypeOK, Maps, Values, Steps, Actors, FactsAreMeasured, AllMeasured,
        MeasuredFor, FactInv, WaitInv, Over, Failed, Built, LoadNext
  <2>3. OneFactPerKey'
    BY <1>11 DEF TypeOK, Maps, Values, Steps, Actors, OneFactPerKey, SessionInv, Live,
        LoadNext
  <2>4. NeverMeasuredTwice'
    BY <1>11 DEF TypeOK, Maps, Values, Steps, Actors, NeverMeasuredTwice, SeededInv,
        FactInv, Live, LoadNext
  <2>5. FactInv'
    BY <1>11 DEF TypeOK, Maps, Values, Steps, Actors, FactInv, FactsAreMeasured,
        AllMeasured, MeasuredFor, KeysOf, LoadNext
  <2>6. FlightInv'
    BY <1>11 DEF TypeOK, Maps, Values, Steps, Actors, FlightInv, Building, LoadNext
  <2>7. WaitInv'
    BY <1>11 DEF TypeOK, Maps, Values, Steps, Actors, WaitInv, Over, Failed, Built,
        Building, FactInv, FlightInv, LoadNext
  <2>8. SessionInv'
    BY <1>11 DEF TypeOK, Maps, Values, Steps, Actors, SessionInv, Live, FlightInv,
        Building, LoadNext
  <2>9. SeededInv'
    BY <1>11 DEF TypeOK, Maps, Values, Steps, Actors, SeededInv, Live, SessionInv, Over,
        Failed, Built, WaitInv, LoadNext
  <2>10. LedgerInv'
    BY <1>11 DEF TypeOK, Maps, Values, Steps, Actors, LedgerInv, LedgerCoversCache,
        KeysOf, FactInv, LoadNext
  <2> QED BY <2>1, <2>2, <2>3, <2>4, <2>5, <2>6, <2>7, <2>8, <2>9, <2>10
<1>12. ASSUME NEW l \in Loads, LoadDone(l) PROVE Inv'
  <2>1. TypeOK'
    BY <1>12 DEF TypeOK, Maps, Values, Steps, Actors, LoadDone, KeysOf
  <2>2. FactsAreMeasured'
    BY <1>12 DEF TypeOK, Maps, Values, Steps, Actors, FactsAreMeasured, AllMeasured,
        MeasuredFor, FactInv, WaitInv, Over, Failed, Built, LoadDone, KeysOf
  <2>3. OneFactPerKey'
    BY <1>12 DEF TypeOK, Maps, Values, Steps, Actors, OneFactPerKey, SessionInv, Live,
        LoadDone, KeysOf
  <2>4. NeverMeasuredTwice'
    BY <1>12 DEF TypeOK, Maps, Values, Steps, Actors, NeverMeasuredTwice, SeededInv,
        FactInv, Live, LoadDone, KeysOf
  <2>5. FactInv'
    BY <1>12 DEF TypeOK, Maps, Values, Steps, Actors, FactInv, FactsAreMeasured,
        AllMeasured, MeasuredFor, KeysOf, LoadDone
  <2>6. FlightInv'
    BY <1>12 DEF TypeOK, Maps, Values, Steps, Actors, FlightInv, Building, LoadDone,
        KeysOf
  <2>7. WaitInv'
    BY <1>12 DEF TypeOK, Maps, Values, Steps, Actors, WaitInv, Over, Failed, Built,
        Building, FactInv, FlightInv, LoadDone, KeysOf
  <2>8. SessionInv'
    BY <1>12 DEF TypeOK, Maps, Values, Steps, Actors, SessionInv, Live, FlightInv,
        Building, LoadDone, KeysOf
  <2>9. SeededInv'
    BY <1>12 DEF TypeOK, Maps, Values, Steps, Actors, SeededInv, Live, SessionInv, Over,
        Failed, Built, WaitInv, LoadDone, KeysOf
  <2>10. LedgerInv'
    BY <1>12 DEF TypeOK, Maps, Values, Steps, Actors, LedgerInv, LedgerCoversCache,
        KeysOf, FactInv, LoadDone
  <2> QED BY <2>1, <2>2, <2>3, <2>4, <2>5, <2>6, <2>7, <2>8, <2>9, <2>10
<1>13. ASSUME Save PROVE Inv'
  <2>1. TypeOK'
    BY <1>13 DEF TypeOK, Maps, Values, Steps, Actors, Save
  <2>2. FactsAreMeasured'
    BY <1>13 DEF TypeOK, Maps, Values, Steps, Actors, FactsAreMeasured, AllMeasured,
        MeasuredFor, FactInv, WaitInv, Over, Failed, Built, Save
  <2>3. OneFactPerKey'
    BY <1>13 DEF TypeOK, Maps, Values, Steps, Actors, OneFactPerKey, SessionInv, Live,
        Save
  <2>4. NeverMeasuredTwice'
    BY <1>13 DEF TypeOK, Maps, Values, Steps, Actors, NeverMeasuredTwice, SeededInv,
        FactInv, Live, Save
  <2>5. FactInv'
    BY <1>13 DEF TypeOK, Maps, Values, Steps, Actors, FactInv, FactsAreMeasured,
        AllMeasured, MeasuredFor, KeysOf, Save
  <2>6. FlightInv'
    BY <1>13 DEF TypeOK, Maps, Values, Steps, Actors, FlightInv, Building, Save
  <2>7. WaitInv'
    BY <1>13 DEF TypeOK, Maps, Values, Steps, Actors, WaitInv, Over, Failed, Built,
        Building, FactInv, FlightInv, Save
  <2>8. SessionInv'
    BY <1>13 DEF TypeOK, Maps, Values, Steps, Actors, SessionInv, Live, FlightInv,
        Building, Save
  <2>9. SeededInv'
    BY <1>13 DEF TypeOK, Maps, Values, Steps, Actors, SeededInv, Live, SessionInv, Over,
        Failed, Built, WaitInv, Save
  <2>10. LedgerInv'
    BY <1>13 DEF TypeOK, Maps, Values, Steps, Actors, LedgerInv, LedgerCoversCache,
        KeysOf, FactInv, Save
  <2> QED BY <2>1, <2>2, <2>3, <2>4, <2>5, <2>6, <2>7, <2>8, <2>9, <2>10
<1>14. ASSUME Truncate PROVE Inv'
  <2>1. TypeOK'
    BY <1>14 DEF TypeOK, Maps, Values, Steps, Actors, Truncate
  <2>2. FactsAreMeasured'
    BY <1>14 DEF TypeOK, Maps, Values, Steps, Actors, FactsAreMeasured, AllMeasured,
        MeasuredFor, FactInv, WaitInv, Over, Failed, Built, Truncate
  <2>3. OneFactPerKey'
    BY <1>14 DEF TypeOK, Maps, Values, Steps, Actors, OneFactPerKey, SessionInv, Live,
        Truncate
  <2>4. NeverMeasuredTwice'
    BY <1>14 DEF TypeOK, Maps, Values, Steps, Actors, NeverMeasuredTwice, SeededInv,
        FactInv, Live, Truncate
  <2>5. FactInv'
    BY <1>14 DEF TypeOK, Maps, Values, Steps, Actors, FactInv, FactsAreMeasured,
        AllMeasured, MeasuredFor, KeysOf, Truncate
  <2>6. FlightInv'
    BY <1>14 DEF TypeOK, Maps, Values, Steps, Actors, FlightInv, Building, Truncate
  <2>7. WaitInv'
    BY <1>14 DEF TypeOK, Maps, Values, Steps, Actors, WaitInv, Over, Failed, Built,
        Building, FactInv, FlightInv, Truncate
  <2>8. SessionInv'
    BY <1>14 DEF TypeOK, Maps, Values, Steps, Actors, SessionInv, Live, FlightInv,
        Building, Truncate
  <2>9. SeededInv'
    BY <1>14 DEF TypeOK, Maps, Values, Steps, Actors, SeededInv, Live, SessionInv, Over,
        Failed, Built, WaitInv, Truncate
  <2>10. LedgerInv'
    BY <1>14 DEF TypeOK, Maps, Values, Steps, Actors, LedgerInv, LedgerCoversCache,
        KeysOf, FactInv, Truncate
  <2> QED BY <2>1, <2>2, <2>3, <2>4, <2>5, <2>6, <2>7, <2>8, <2>9, <2>10
<1>15. ASSUME Write PROVE Inv'
  <2>1. TypeOK'
    BY <1>15 DEF TypeOK, Maps, Values, Steps, Actors, Write
  <2>2. FactsAreMeasured'
    BY <1>15 DEF TypeOK, Maps, Values, Steps, Actors, FactsAreMeasured, AllMeasured,
        MeasuredFor, FactInv, WaitInv, Over, Failed, Built, Write
  <2>3. OneFactPerKey'
    BY <1>15 DEF TypeOK, Maps, Values, Steps, Actors, OneFactPerKey, SessionInv, Live,
        Write
  <2>4. NeverMeasuredTwice'
    BY <1>15 DEF TypeOK, Maps, Values, Steps, Actors, NeverMeasuredTwice, SeededInv,
        FactInv, Live, Write
  <2>5. FactInv'
    BY <1>15 DEF TypeOK, Maps, Values, Steps, Actors, FactInv, FactsAreMeasured,
        AllMeasured, MeasuredFor, KeysOf, Write
  <2>6. FlightInv'
    BY <1>15 DEF TypeOK, Maps, Values, Steps, Actors, FlightInv, Building, Write
  <2>7. WaitInv'
    BY <1>15 DEF TypeOK, Maps, Values, Steps, Actors, WaitInv, Over, Failed, Built,
        Building, FactInv, FlightInv, Write
  <2>8. SessionInv'
    BY <1>15 DEF TypeOK, Maps, Values, Steps, Actors, SessionInv, Live, FlightInv,
        Building, Write
  <2>9. SeededInv'
    BY <1>15 DEF TypeOK, Maps, Values, Steps, Actors, SeededInv, Live, SessionInv, Over,
        Failed, Built, WaitInv, Write
  <2>10. LedgerInv'
    BY <1>15 DEF TypeOK, Maps, Values, Steps, Actors, LedgerInv, LedgerCoversCache,
        KeysOf, FactInv, Write
  <2> QED BY <2>1, <2>2, <2>3, <2>4, <2>5, <2>6, <2>7, <2>8, <2>9, <2>10
<1>16. ASSUME Restart PROVE Inv'
  <2>1. TypeOK'
    BY <1>16 DEF TypeOK, Maps, Values, Steps, Actors, Restart, Empty, Live
  <2>2. FactsAreMeasured'
    BY <1>16 DEF TypeOK, Maps, Values, Steps, Actors, FactsAreMeasured, AllMeasured,
        MeasuredFor, FactInv, WaitInv, Over, Failed, Built, Restart, Empty, Live
  <2>3. OneFactPerKey'
    BY <1>16 DEF TypeOK, Maps, Values, Steps, Actors, OneFactPerKey, SessionInv, Live,
        Restart, Empty
  <2>4. NeverMeasuredTwice'
    BY <1>16 DEF TypeOK, Maps, Values, Steps, Actors, NeverMeasuredTwice, SeededInv,
        FactInv, Live, Restart, Empty
  <2>5. FactInv'
    BY <1>16 DEF TypeOK, Maps, Values, Steps, Actors, FactInv, FactsAreMeasured,
        AllMeasured, MeasuredFor, KeysOf, Restart, Empty, Live
  <2>6. FlightInv'
    BY <1>16 DEF TypeOK, Maps, Values, Steps, Actors, FlightInv, Building, Restart,
        Empty, Live
  <2>7. WaitInv'
    BY <1>16 DEF TypeOK, Maps, Values, Steps, Actors, WaitInv, Over, Failed, Built,
        Building, FactInv, FlightInv, Restart, Empty, Live
  <2>8. SessionInv'
    BY <1>16 DEF TypeOK, Maps, Values, Steps, Actors, SessionInv, Live, FlightInv,
        Building, Restart, Empty
  <2>9. SeededInv'
    BY <1>16 DEF TypeOK, Maps, Values, Steps, Actors, SeededInv, Live, SessionInv, Over,
        Failed, Built, WaitInv, Restart, Empty
  <2>10. LedgerInv'
    BY <1>16 DEF TypeOK, Maps, Values, Steps, Actors, LedgerInv, LedgerCoversCache,
        KeysOf, FactInv, Restart, Empty, Live
  <2> QED BY <2>1, <2>2, <2>3, <2>4, <2>5, <2>6, <2>7, <2>8, <2>9, <2>10
<1>17. CASE UNCHANGED vars
  BY <1>17 DEF TypeOK, Maps, Values, Steps, Actors, FactsAreMeasured, AllMeasured, MeasuredFor, OneFactPerKey, NeverMeasuredTwice,
      FactInv, FlightInv, WaitInv, SessionInv, SeededInv, LedgerInv, LedgerCoversCache, KeysOf,
      Over, Failed, Built, Building, Live
<1> QED BY <1>1, <1>2, <1>3, <1>4, <1>5, <1>6, <1>7, <1>8, <1>9, <1>10, <1>11, <1>12,
    <1>13, <1>14, <1>15, <1>16, <1>17 DEF Next, Step, Terminated, Actors

\* The invariant holds in every reachable state.
THEOREM InvHolds == Spec => []Inv
  <1>1. Init => Inv BY InitInv
  <1>2. Inv /\ [Next]_vars => Inv' BY StepInv
  <1> QED BY <1>1, <1>2, PTL DEF Spec

\* What is answered, kept, saved or loaded was measured for its key.
THEOREM FactsAreRight == Spec => []FactsAreMeasured
  <1>1. Inv => FactsAreMeasured BY DEF Inv
  <1> QED BY <1>1, InvHolds, PTL

\* All calls of a session that ask for a key are given one fact.
THEOREM FactsAgree == Spec => []OneFactPerKey
  <1>1. Inv => OneFactPerKey BY DEF Inv
  <1> QED BY <1>1, InvHolds, PTL

\* What a load of the session had brought is not measured again.
THEOREM LoadedIsKept == Spec => []NeverMeasuredTwice
  <1>1. Inv => NeverMeasuredTwice BY DEF Inv
  <1> QED BY <1>1, InvHolds, PTL

\* What the sessions may rely on, all of it together.
THEOREM LedgerIsSafe == Spec => []Safety
  <1>1. Inv => LedgerCoversCache BY DEF Inv, LedgerInv
  <1>2. Inv => Safety BY <1>1 DEF Inv, Safety
  <1> QED BY <1>2, InvHolds, PTL
=============================================================================
