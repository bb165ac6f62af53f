------------------------------- MODULE Ledger -------------------------------
(***************************************************************************)
(* Measurements that outlive the process (tensorlib, analysis.py): the     *)
(* cache ANALYSES, a Memo that never evicts; LEDGER, the dict of the facts *)
(* that were measured; and the file save_ledger and load_ledger go through.*)
(*                                                                         *)
(* An actor is a call of a ledger analysis or a load_ledger.  The Memo is  *)
(* used as TierCache shows it to be: a key is served from the store, or    *)
(* one actor builds it and those that come meanwhile share what becomes of *)
(* the build.  A load goes through the same door, once per key of its      *)
(* file, with a build that runs nothing.                                   *)
(*                                                                         *)
(* A measurement taken twice gives two values, so that a value is named by *)
(* the call that measured it; a Fact is a key and such a value.  A process *)
(* ends at any moment, and the next session starts with an empty cache and *)
(* an empty ledger.  One thread saves at a time.                           *)
(***************************************************************************)
EXTENDS Integers, FiniteSets

CONSTANTS Calls, Loads, Keys,
          MaxSessions,   \* bound on the sessions
          MaxSaves,      \* bound on the saves of a behaviour
          None

ASSUME NoneAssumption == None \notin Calls \cup Loads \cup Keys
ASSUME ActorsAssumption == Calls \cap Loads = {}
ASSUME BoundAssumption == MaxSessions \in Nat \ {0} /\ MaxSaves \in Nat

VARIABLES
  pc,        \* [Actors -> where it is]
  key,       \* [Actors -> the key it asks for, for a load the one it is at]
  slot,      \* [Actors -> the actor whose build it waits for]
  fact,      \* [Actors -> the value it was given, for a load the last one]
  data,      \* [Loads -> what the load read, Keys -> value]
  pending,   \* [Loads -> the keys of data it has still to go through]
  known,     \* [Calls -> the keys that loads had seeded when it began]
  session,   \* the number of the process
  born,      \* [Actors -> the session in which it began]
  cache,     \* ANALYSES: [Keys -> value]
  ledger,    \* LEDGER: [Keys -> value]
  file,      \* the file: [Keys -> value], None while there is nothing in it
  saving,    \* what save_ledger is about to write, None while nothing is saved
  saves      \* how many saves were begun

askVars == <<key, born, known>>
loadVars == <<data, pending>>
saveVars == <<file, saving, saves>>
vars == <<pc, askVars, slot, fact, loadVars, session, cache, ledger, saveVars>>

Actors == Calls \cup Loads
Values == Calls \cup {None}
Empty == [k \in Keys |-> None]
KeysOf(m) == {k \in Keys : m[k] # None}
Live(a) == pc[a] \in {"lookup", "build", "publish", "wait", "next"}
Building(a) == pc[a] \in {"build", "publish"}

\* Where an actor goes with the fact it got: a load to its next key.
Served(a) == IF a \in Loads THEN "next" ELSE "returned"

\* The keys loads of this session have been through.
Seeded == UNION {KeysOf(data[l]) \ pending[l] : l \in {m \in Loads : pc[m] = "returned" /\ born[m] = session}}

Init ==
  /\ pc = [a \in Actors |-> "unused"]
  /\ key = [a \in Actors |-> None]
  /\ slot = [a \in Actors |-> None]
  /\ fact = [a \in Actors |-> None]
  /\ data = [l \in Loads |-> Empty] /\ pending = [l \in Loads |-> {}]
  /\ known = [c \in Calls |-> {}]
  /\ session = 1 /\ born = [a \in Actors |-> 0]
  /\ cache = Empty /\ ledger = Empty
  /\ file = None /\ saving = None /\ saves = 0

From(a, here, there) == pc[a] = here /\ pc' = [pc EXCEPT ![a] = there]

-----------------------------------------------------------------------------
(* Through the cache                                                       *)

\* Analysis.__call__: the key is that of the inputs.
Call(c, k) ==
  /\ From(c, "unused", "lookup")
  /\ key' = [key EXCEPT ![c] = k]
  /\ born' = [born EXCEPT ![c] = session]
  /\ known' = [known EXCEPT ![c] = Seeded]
  /\ UNCHANGED <<slot, fact, loadVars, session, cache, ledger, saveVars>>

Hit(a) ==
  /\ From(a, "lookup", Served(a))
  /\ cache[key[a]] # None
  /\ fact' = [fact EXCEPT ![a] = cache[key[a]]]
  /\ UNCHANGED <<askVars, slot, loadVars, session, cache, ledger, saveVars>>

InFlight(a) == {b \in Actors : Building(b) /\ key[b] = key[a]}

Lead(a) ==
  /\ From(a, "lookup", "build")
  /\ cache[key[a]] = None /\ InFlight(a) = {}
  /\ UNCHANGED <<askVars, slot, fact, loadVars, session, cache, ledger, saveVars>>

Join(a) ==
  /\ From(a, "lookup", "wait")
  /\ cache[key[a]] = None
  /\ \E b \in InFlight(a) : slot' = [slot EXCEPT ![a] = b]
  /\ UNCHANGED <<askVars, fact, loadVars, session, cache, ledger, saveVars>>

\* build of a call: the measurement is taken and entered in the ledger.
Measure(c) ==
  /\ From(c, "build", "publish")
  /\ fact' = [fact EXCEPT ![c] = c]
  /\ ledger' = [ledger EXCEPT ![key[c]] = c]
  /\ UNCHANGED <<askVars, slot, loadVars, session, cache, saveVars>>

\* build of a load: the fact as it was read.
Recall(l) ==
  /\ From(l, "build", "publish")
  /\ fact' = [fact EXCEPT ![l] = data[l][key[l]]]
  /\ UNCHANGED <<askVars, slot, loadVars, session, cache, ledger, saveVars>>

\* A miss is announced before the build runs, and raises where it is forbidden;
\* or a measurement fails, or its value is not JSON.  Nothing more is entered: a
\* load ends there, with its key in the ledger alone.
BuildFails(a) ==
  /\ From(a, "build", "raised")
  /\ UNCHANGED <<askVars, slot, fact, loadVars, session, cache, ledger, saveVars>>

Publish(a) ==
  /\ From(a, "publish", Served(a))
  /\ cache' = [cache EXCEPT ![key[a]] = fact[a]]
  /\ UNCHANGED <<askVars, slot, fact, loadVars, session, ledger, saveVars>>

\* What became of the build the actor waited for; a load goes on after its, and
\* one that ends in an exception is left at the key it could not build.
Over(a) == pc[a] = "wait" /\ ~ (Building(slot[a]) /\ key[slot[a]] = key[a])
Failed(a) == pc[slot[a]] = "raised" /\ key[slot[a]] = key[a]
Built(a) == IF slot[a] \in Loads THEN data[slot[a]][key[a]] ELSE fact[slot[a]]

\* Variant: the waiter takes what its builder was given last.
WakeLate(a) ==
  /\ From(a, "wait", Served(a)) /\ Over(a)
  /\ fact' = [fact EXCEPT ![a] = fact[slot[a]]]
  /\ UNCHANGED <<askVars, slot, loadVars, session, cache, ledger, saveVars>>

\* It is over: the waiter shares the fact or the exception.
Wake(a) ==
  /\ Over(a)
  /\ \/ Failed(a) /\ From(a, "wait", "raised") /\ UNCHANGED fact
     \/ ~ Failed(a) /\ From(a, "wait", Served(a)) /\ fact' = [fact EXCEPT ![a] = Built(a)]
  /\ UNCHANGED <<askVars, slot, loadVars, session, cache, ledger, saveVars>>

-----------------------------------------------------------------------------
(* The ledger                                                              *)

\* load_ledger reads the file, or raises where there is nothing to be parsed.
Load(l) ==
  /\ \/ From(l, "unused", "raised") /\ file = None /\ UNCHANGED loadVars
     \/ /\ From(l, "unused", "next") /\ file # None
        /\ data' = [data EXCEPT ![l] = file]
        /\ pending' = [pending EXCEPT ![l] = KeysOf(file)]
  /\ born' = [born EXCEPT ![l] = session]
  /\ UNCHANGED <<key, known, slot, fact, session, cache, ledger, saveVars>>

\* The next key: into the ledger, and then through the cache.
LoadNext(l, k) ==
  /\ From(l, "next", "lookup") /\ k \in pending[l]
  /\ pending' = [pending EXCEPT ![l] = @ \ {k}]
  /\ key' = [key EXCEPT ![l] = k]
  /\ ledger' = [ledger EXCEPT ![k] = data[l][k]]
  /\ UNCHANGED <<born, known, slot, fact, data, session, cache, saveVars>>

\* Variant: the load is over when every key is on its way.
LoadDoneEarly(l) ==
  /\ From(l, "lookup", "returned") /\ pending[l] = {}
  /\ UNCHANGED <<askVars, slot, fact, loadVars, session, cache, ledger, saveVars>>

LoadDone(l) ==
  /\ From(l, "next", "returned") /\ pending[l] = {}
  /\ UNCHANGED <<askVars, slot, fact, loadVars, session, cache, ledger, saveVars>>

\* save_ledger puts together what it is going to write.
Save ==
  /\ saving = None /\ saves < MaxSaves
  /\ saves' = saves + 1 /\ saving' = ledger
  /\ UNCHANGED <<pc, askVars, slot, fact, loadVars, session, cache, ledger, file>>

\* write_text opens the file, which empties it, and then writes.
Truncate ==
  /\ saving # None /\ file' = None
  /\ UNCHANGED <<pc, askVars, slot, fact, loadVars, session, cache, ledger, saving, saves>>
Write ==
  /\ saving # None /\ file = None
  /\ file' = saving /\ saving' = None
  /\ UNCHANGED <<pc, askVars, slot, fact, loadVars, session, cache, ledger, saves>>

\* The process ends, in the middle of whatever it does, and another begins.
Restart ==
  /\ session < MaxSessions /\ session' = session + 1
  /\ pc' = [a \in Actors |-> IF Live(a) THEN "lost" ELSE pc[a]]
  /\ cache' = Empty /\ ledger' = Empty /\ saving' = None
  /\ UNCHANGED <<askVars, slot, fact, loadVars, file, saves>>

-----------------------------------------------------------------------------
Step(a) ==
  \/ Hit(a) \/ Lead(a) \/ Join(a) \/ BuildFails(a) \/ Publish(a) \/ Wake(a)
  \/ a \in Calls /\ Measure(a)
  \/ a \in Loads /\ (Recall(a) \/ (\E k \in Keys : LoadNext(a, k)) \/ LoadDone(a))

\* Everybody has ended and nothing is being written.
Terminated ==
  /\ \A a \in Actors : pc[a] \in {"returned", "raised", "lost"}
  /\ saving = None
  /\ UNCHANGED vars

Next ==
  \/ \E c \in Calls, k \in Keys : Call(c, k)
  \/ \E l \in Loads : Load(l)
  \/ \E a \in Actors : Step(a)
  \/ Save \/ Truncate \/ Write
  \/ Restart
  \/ Terminated

Spec == Init /\ [][Next]_vars

-----------------------------------------------------------------------------
(* Properties                                                              *)

Maps == [Keys -> Values]
Steps == {"unused", "lookup", "build", "publish", "wait", "next", "returned", "raised", "lost"}

\* The variables have their types; who asks has a key, who waits a builder.
TypeOK ==
  /\ pc \in [Actors -> Steps]
  /\ key \in [Actors -> Keys \cup {None}] /\ slot \in [Actors -> Actors \cup {None}]
  /\ fact \in [Actors -> Values]
  /\ data \in [Loads -> Maps] /\ pending \in [Loads -> SUBSET Keys]
  /\ known \in [Calls -> SUBSET Keys]
  /\ session \in 1..MaxSessions /\ born \in [Actors -> 0..session]
  /\ cache \in Maps /\ ledger \in Maps
  /\ file \in Maps \cup {None} /\ saving \in Maps \cup {None} /\ saves \in 0..MaxSaves
  /\ \A a \in Actors : pc[a] \in {"lookup", "build", "publish", "wait"} => key[a] \in Keys
  /\ \A a \in Actors : pc[a] = "wait" => slot[a] \in Actors \ {a}

\* Value v was measured for key k.
MeasuredFor(v, k) == v \in Calls /\ key[v] = k /\ fact[v] = v

\* What a call is given was measured for its key, in this session or in one
\* whose ledger was saved and loaded; and so is everything kept, anywhere.
AllMeasured(m) == \A k \in Keys : m[k] # None => MeasuredFor(m[k], k)
FactsAreMeasured ==
  /\ \A c \in Calls : pc[c] = "returned" => MeasuredFor(fact[c], key[c])
  /\ AllMeasured(cache) /\ AllMeasured(ledger)
  /\ file # None => AllMeasured(file)
  /\ saving # None => AllMeasured(saving)

\* "The key is the identity": in one session all calls of a key are given one
\* fact, whether they measured it, waited for it, or found what a load brought.
OneFactPerKey ==
  \A c, d \in Calls :
    pc[c] = "returned" /\ pc[d] = "returned" /\ born[c] = born[d] /\ key[c] = key[d]
      => fact[c] = fact[d]

\* "Nothing keyed identically is ever measured twice, across sessions
\* included": no call measures what a load had brought when the call began.
NeverMeasuredTwice ==
  \A c \in Calls : pc[c] = "build" \/ fact[c] = c => key[c] \notin known[c]

\* What the cache serves is in the ledger, so that a save keeps it; a save of
\* a session that loaded the file before keeps all of the file.
LedgerCoversCache == KeysOf(cache) \subseteq KeysOf(ledger)

\* What is served is what a save keeps.  It does not hold: a load enters its
\* facts in the ledger over those that this session measured and serves.
LedgerIsCache == \A k \in Keys : cache[k] # None => ledger[k] = cache[k]

\* What the sessions may rely on: facts are measured, one for a key, once over
\* all sessions, and a save loses none that is served.
Safety == FactsAreMeasured /\ OneFactPerKey /\ NeverMeasuredTwice /\ LedgerCoversCache

-----------------------------------------------------------------------------
(* The inductive invariant behind these properties.                        *)

\* An actor has no fact before it is given one, and keeps what it is given; a
\* load builds what its file says, key after key.
FactInv ==
  /\ \A c \in Calls : pc[c] \in {"unused", "lookup", "build", "wait"} => fact[c] = None
  /\ \A c \in Calls : pc[c] = "publish" => fact[c] = c
  /\ \A l \in Loads : pc[l] = "publish" => fact[l] = data[l][key[l]]
  /\ \A l \in Loads : pc[l] \in {"lookup", "build", "publish", "wait"} => data[l][key[l]] # None
  /\ \A l \in Loads : pending[l] \subseteq KeysOf(data[l]) /\ AllMeasured(data[l])
  /\ \A l \in Loads : pc[l] \in {"lookup", "build", "publish", "wait"} => key[l] \notin pending[l]

\* One actor builds a key, and only while the cache does not have it.
FlightInv ==
  \A a \in Actors : Building(a) =>
    /\ cache[key[a]] = None
    /\ \A b \in Actors : Building(b) /\ key[a] = key[b] => a = b

\* A build that is over and did not fail is what the cache has; a load does not
\* come back to a key it has built.
WaitInv ==
  \A a \in Actors : pc[a] = "wait" =>
    /\ pc[slot[a]] # "unused"
    /\ slot[a] \in Calls => key[slot[a]] = key[a] /\ pc[slot[a]] \in {"build", "publish", "returned", "raised"}
    /\ slot[a] \in Loads => /\ key[a] \notin pending[slot[a]]
                            /\ key[slot[a]] = key[a] => pc[slot[a]] \in {"build", "publish", "next", "returned", "raised"}
    /\ Over(a) /\ ~ Failed(a) => cache[key[a]] # None /\ Built(a) = cache[key[a]]

\* Who is under way belongs to this session; so does the cache, which still has
\* what it gave the calls of the session.
SessionInv ==
  /\ \A a \in Actors : Live(a) => born[a] = session
  /\ \A c \in Calls : pc[c] = "returned" =>
       fact[c] # None /\ (born[c] = session => fact[c] = cache[key[c]])

\* The cache has all that loads of this session went through, and so all that
\* a call of this session knew of.
SeededInv ==
  /\ \A l \in Loads, k \in Keys :
       /\ pc[l] \in {"lookup", "build", "publish", "wait", "next", "returned"} /\ born[l] = session
       /\ data[l][k] # None /\ k \notin pending[l]
       /\ pc[l] \in {"next", "returned"} \/ key[l] # k
       => cache[k] # None
  /\ \A c \in Calls : Live(c) => \A k \in known[c] : cache[k] # None

\* What is built or about to be is in the ledger.
LedgerInv ==
  /\ LedgerCoversCache
  /\ \A c \in Calls : pc[c] = "publish" => ledger[key[c]] # None
  /\ \A l \in Loads : pc[l] \in {"lookup", "build", "publish", "wait"} => ledger[key[l]] # None

\* The cache, the ledger, the file and everyone under way agree at every step.
Inv ==
  /\ TypeOK /\ FactsAreMeasured /\ OneFactPerKey /\ NeverMeasuredTwice
  /\ FactInv /\ FlightInv /\ WaitInv /\ SessionInv /\ SeededInv /\ LedgerInv
=============================================================================
