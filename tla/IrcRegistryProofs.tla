-------------------------- MODULE IrcRegistryProofs --------------------------
(* Safety of the nick registry and of MONITOR for any number of sessions,   *)
(* any set of nicks and any limits: admission, the shape of the registry    *)
(* and what may be missing from it, and that no notification is lost.       *)
EXTENDS IrcRegistry, FiniteSetTheorems, TLAPS

(* clientsCurrent counts the connections whose slot was not given back.     *)
Held == {s \in Sessions : phase[s] \in {"refused", "handshake", "open"}}
Admitted == {s \in Sessions : phase[s] \in {"handshake", "open"}}
Arrived == {s \in Sessions : phase[s] # "new"}
Slots == IsFiniteSet(Arrived) /\ clients = Cardinality(Held)

(* What the life of a connection, its registration and the handler it is in *)
(* have to do with each other.                                              *)
Before == {"new", "refused", "handshake"}
Life ==
  \A s \in Sessions :
    /\ phase[s] \in Before => state[s] = "PreReg" /\ pc[s] = "idle"
    /\ phase[s] = "gone" => pc[s] = "idle"
    /\ phase[s] = "leaving" => pc[s] \in {"remove", "notify", "telling"}
    /\ pc[s] = "add" => state[s] = "PreReg" /\ nick[s] \in Nicks
    /\ pc[s] = "remove" => phase[s] = "leaving" /\ nick[s] \in Nicks

(* A registered session has a nick and a key, which differ only after a     *)
(* NICK; only a registered session monitors.                                *)
Identity ==
  \A s \in Sessions :
    /\ state[s] = "Registered" =>
         /\ nick[s] \in Nicks /\ key[s] \in Nicks
         /\ s \notin renamed => nick[s] = key[s]
    /\ state[s] # "Registered" => monitor[s] = {}

(* The arguments of the handlers that work with one.                        *)
Args ==
  \A s \in Sessions :
    /\ pc[s] \in {"notify", "telling", "lookup", "answer"} => arg[s] \in Nicks
    /\ pc[s] \in {"idle", "add", "remove"} => status[s] = "offline"

(* A session is filed under the nick with which it registered.              *)
Filed ==
  \A k \in Nicks : Registered(k) =>
    state[registry[k]] = "Registered" /\ key[registry[k]] = k

(* A session whose removal has passed Registry.Remove.                      *)
Removed(s) == phase[s] = "gone" \/ (phase[s] = "leaving" /\ pc[s] # "remove")
RemovedIsRenamed ==
  \A k \in Nicks : Registered(k) /\ Removed(registry[k]) => registry[k] \in renamed

NewsType == [Sessions -> [Nicks -> SUBSET {"online", "offline"}]]

(* What a watcher has not been told it will be told: by its own MONITOR +,  *)
(* or by a notification that is on its way.                                 *)
Now(k) == IF Registered(k) THEN "online" ELSE "offline"
Asking(w, k) ==
  arg[w] = k /\ (pc[w] = "lookup" \/ (pc[w] = "answer" /\ status[w] = Now(k)))
Telling(s, w, k) ==
  /\ arg[s] = k /\ status[s] = Now(k)
  /\ \/ pc[s] = "notify" /\ (status[s] = "online" => s # w)
     \/ pc[s] = "telling" /\ w \in todo[s]
Served(w, k) ==
  \/ Now(k) \in news[w][k]
  \/ Asking(w, k)
  \/ \E s \in Sessions : Telling(s, w, k)
NewsComing == \A w \in All, k \in Nicks : k \in monitor[w] => Served(w, k)

IInv ==
  /\ TypeOK
  /\ Slots
  /\ AdmissionBounded
  /\ Life
  /\ Identity
  /\ Args
  /\ Filed
  /\ RemovedIsRenamed
  /\ MissingOnlyByNamesake
  /\ NewsComing

-----------------------------------------------------------------------------
(* A step of a session gives a slot back, or moves it between the phases    *)
(* that hold one, or takes one.                                             *)
LEMMA SlotsStep == TypeOK /\ Slots /\ Life /\ [Next]_vars => Slots' /\ clients' \in Nat
<1> SUFFICES ASSUME TypeOK, Slots, Life, [Next]_vars PROVE Slots' /\ clients' \in Nat
  OBVIOUS
<1> USE DEF connVars, sessVars, monVars, hist
<1>1. IsFiniteSet(Arrived) /\ IsFiniteSet(Held) /\ clients = Cardinality(Held)
  <2>1. Held \subseteq Arrived
    BY DEF Held, Arrived
  <2> QED
    BY <2>1, FS_Subset DEF Slots
<1>2. ASSUME NEW s \in Sessions, Accept(s) PROVE Slots' /\ clients' \in Nat
  <2>1. Held' = Held \cup {s} /\ Arrived' = Arrived \cup {s} /\ s \notin Held
    BY <1>2 DEF Accept, Held, Arrived, TypeOK
  <2>2. clients' = clients + 1
    BY <1>2 DEF Accept
  <2>3. Cardinality(Held') = Cardinality(Held) + 1 /\ IsFiniteSet(Arrived')
    BY Zenon, <1>1, <2>1, FS_AddElement
  <2>4. Cardinality(Held) \in Nat
    BY <1>1, FS_CardinalityType
  <2> QED
    BY <1>1, <2>2, <2>3, <2>4 DEF Slots
<1>3. ASSUME NEW s \in Sessions, Refuse(s) \/ HandshakeFails(s) \/ Leave(s)
      PROVE  Slots' /\ clients' \in Nat
  <2>1. Held' = Held \ {s} /\ Arrived' = Arrived /\ s \in Held /\ clients' = clients - 1
    BY <1>3 DEF Refuse, HandshakeFails, Leave, Ready, Held, Arrived, TypeOK
  <2>2. Cardinality(Held') = Cardinality(Held) - 1 /\ IsFiniteSet(Held')
    BY <1>1, <2>1, FS_RemoveElement
  <2>3. Cardinality(Held') \in Nat
    BY <2>2, FS_CardinalityType
  <2> QED
    BY <1>1, <2>1, <2>2, <2>3 DEF Slots
<1>4. ASSUME Held' = Held, Arrived' = Arrived, clients' = clients
      PROVE  Slots' /\ clients' \in Nat
  BY <1>1, <1>4, FS_CardinalityType DEF Slots
<1>5. ASSUME NEW s \in Sessions, Start(s) \/ Told(s) PROVE Slots' /\ clients' \in Nat
  <2>1. Held' = Held /\ Arrived' = Arrived /\ clients' = clients
    BY <1>5 DEF Start, Told, Held, Arrived, TypeOK
  <2> QED
    BY <1>4, <2>1
<1>6. ASSUME UNCHANGED connVars PROVE Slots' /\ clients' \in Nat
  BY <1>4, <1>6 DEF Held, Arrived
<1>7. ASSUME NEW s \in Sessions,
             \/ \E n \in Nicks : Nick(s, n)
             \/ User(s) \/ CapBegin(s) \/ CapEnd(s) \/ Add(s) \/ AddTaken(s)
             \/ Snapshot(s) \/ \E w \in Sessions : TellWatcher(s, w)
             \/ \E k \in Nicks : MonitorAdd(s, k)
             \/ \E ks \in {{k} : k \in Nicks} \cup {Nicks} : MonitorRemove(s, ks)
             \/ MonitorLookup(s) \/ MonitorAnswer(s) \/ Remove(s)
      PROVE  UNCHANGED connVars
  BY Zenon, <1>7 DEF Nick, User, CapBegin, CapEnd, Add, AddTaken, Snapshot, TellWatcher,
              MonitorAdd, MonitorRemove, MonitorLookup, MonitorAnswer, Remove
<1>8. CASE UNCHANGED vars
  BY <1>6, <1>8 DEF vars
<1> QED
  BY <1>2, <1>3, <1>5, <1>6, <1>7, <1>8 DEF Next

(* acceptLoop lets a connection in only after its own slot was counted.     *)
LEMMA AdmissionStep == IInv /\ [Next]_vars => AdmissionBounded'
<1> SUFFICES ASSUME IInv, [Next]_vars, MaxClients > 0
             PROVE  Cardinality(Admitted') <= MaxClients
  BY DEF AdmissionBounded, Admitted
<1> USE RegistryAssumption DEF connVars, sessVars, monVars, hist
<1>0. TypeOK /\ Life /\ Slots /\ Slots' /\ Cardinality(Admitted) <= MaxClients
  BY SlotsStep DEF IInv, AdmissionBounded, Admitted
<1>1. IsFiniteSet(Admitted) /\ IsFiniteSet(Held')
  <2>1. Admitted \subseteq Arrived /\ Held' \subseteq Arrived'
    BY DEF Admitted, Arrived, Held
  <2> QED
    BY <1>0, <2>1, FS_Subset DEF Slots
<1>2. CASE Admitted' \subseteq Admitted
  <2>1. Cardinality(Admitted') <= Cardinality(Admitted)
    BY <1>1, <1>2, FS_Subset
  <2>2. Cardinality(Admitted) \in Nat /\ Cardinality(Admitted') \in Nat
    BY <1>1, <1>2, FS_CardinalityType, FS_Subset
  <2> QED
    BY <1>0, <2>1, <2>2
<1>3. ASSUME NEW s \in Sessions, Accept(s) PROVE Cardinality(Admitted') <= MaxClients
  <2>1. CASE clients + 1 > MaxClients
    <3>1. Admitted' \subseteq Admitted
      BY <1>0, <1>3, <2>1 DEF Accept, Admitted, TypeOK
    <3> QED
      BY <1>2, <3>1
  <2>2. CASE ~(clients + 1 > MaxClients)
    <3>1. Cardinality(Admitted') <= Cardinality(Held')
      <4>1. Admitted' \subseteq Held'
        BY DEF Admitted, Held
      <4> QED
        BY <1>1, <4>1, FS_Subset
    <3>2. Cardinality(Held') = clients + 1 /\ clients \in Nat
      BY <1>0, <1>3 DEF Accept, Slots, TypeOK
    <3>3. Cardinality(Admitted') \in Nat
      <4>1. IsFiniteSet(Admitted')
        BY <1>1, FS_Subset DEF Admitted, Held
      <4> QED
        BY <4>1, FS_CardinalityType
    <3> QED
      BY <2>2, <3>1, <3>2, <3>3
  <2> QED
    BY <2>1, <2>2
<1>4. ASSUME NEW s \in Sessions,
             Refuse(s) \/ HandshakeFails(s) \/ Leave(s) \/ Start(s) \/ Told(s)
      PROVE  Admitted' \subseteq Admitted
  BY <1>0, <1>4 DEF Refuse, HandshakeFails, Leave, Start, Told, Admitted, TypeOK
<1>5. ASSUME NEW s \in Sessions,
             \/ \E n \in Nicks : Nick(s, n)
             \/ User(s) \/ CapBegin(s) \/ CapEnd(s) \/ Add(s) \/ AddTaken(s)
             \/ Snapshot(s) \/ \E w \in Sessions : TellWatcher(s, w)
             \/ \E k \in Nicks : MonitorAdd(s, k)
             \/ \E ks \in {{k} : k \in Nicks} \cup {Nicks} : MonitorRemove(s, ks)
             \/ MonitorLookup(s) \/ MonitorAnswer(s) \/ Remove(s)
      PROVE  UNCHANGED phase
  BY Zenon, <1>5 DEF Nick, User, CapBegin, CapEnd, Add, AddTaken, Snapshot, TellWatcher,
              MonitorAdd, MonitorRemove, MonitorLookup, MonitorAnswer, Remove
<1>6. ASSUME UNCHANGED phase PROVE Admitted' \subseteq Admitted
  BY <1>6 DEF Admitted
<1>7. CASE UNCHANGED vars
  BY <1>2, <1>6, <1>7 DEF vars
<1> QED
  BY <1>2, <1>3, <1>4, <1>5, <1>6, <1>7 DEF Next

(* Types.  That clients stays a number is the matter of SlotsStep.          *)
LEMMA TypeStep ==
  TypeOK /\ Life /\ Args /\ clients' \in Nat /\ [Next]_vars
    => TypeOK'
<1> SUFFICES ASSUME TypeOK, Life, Args, clients' \in Nat, [Next]_vars
             PROVE  TypeOK'
  OBVIOUS
<1> USE RegistryAssumption DEF connVars, sessVars, monVars, hist
<1>1. ASSUME NEW s \in Sessions, Accept(s) PROVE TypeOK'
  BY <1>1 DEF Accept, TypeOK, Life, Args
<1>2. ASSUME NEW s \in Sessions, Refuse(s) PROVE TypeOK'
  BY <1>2 DEF Refuse, TypeOK, Life, Args
<1>3. ASSUME NEW s \in Sessions, Start(s) PROVE TypeOK'
  BY <1>3 DEF Start, TypeOK, Life, Args
<1>4. ASSUME NEW s \in Sessions, HandshakeFails(s) PROVE TypeOK'
  BY <1>4 DEF HandshakeFails, TypeOK, Life, Args
<1>5. ASSUME NEW s \in Sessions, NEW n \in Nicks, Nick(s, n) PROVE TypeOK'
  BY <1>5 DEF Nick, Ready, TryRegister, Registered, Goto, TypeOK, Life, Args
<1>6. ASSUME NEW s \in Sessions, User(s) PROVE TypeOK'
  BY <1>6 DEF User, Ready, TryRegister, Goto, TypeOK, Life, Args
<1>7. ASSUME NEW s \in Sessions, CapBegin(s) PROVE TypeOK'
  BY <1>7 DEF CapBegin, Ready, TypeOK, Life, Args
<1>8. ASSUME NEW s \in Sessions, CapEnd(s) PROVE TypeOK'
  BY <1>8 DEF CapEnd, Ready, TryRegister, Goto, TypeOK, Life, Args
<1>9. ASSUME NEW s \in Sessions, Add(s) PROVE TypeOK'
  BY <1>9 DEF Add, Forget, Registered, Goto, TypeOK, Life, Args
<1>10. ASSUME NEW s \in Sessions, AddTaken(s) PROVE TypeOK'
  BY <1>10 DEF AddTaken, Registered, Goto, TypeOK, Life, Args
<1>11. ASSUME NEW s \in Sessions, Snapshot(s) PROVE TypeOK'
  BY <1>11 DEF Snapshot, All, Goto, TypeOK, Life, Args
<1>12. ASSUME NEW s \in Sessions, NEW w \in Sessions, TellWatcher(s, w)
       PROVE  TypeOK'
  <2>1. arg[s] \in Nicks /\ status[s] \in {"online", "offline"} /\ news \in NewsType
    BY <1>12 DEF TellWatcher, Args, TypeOK, NewsType
  <2>2. Tell(w, arg[s], status[s]) => news' \in NewsType
    BY <2>1 DEF Tell, NewsType
  <2>3. news' \in NewsType
    BY <1>12, <2>1, <2>2 DEF TellWatcher
  <2> QED
    BY Zenon, <1>12, <2>3 DEF TellWatcher, TypeOK, NewsType
<1>13. ASSUME NEW s \in Sessions, Told(s) PROVE TypeOK'
  BY <1>13 DEF Told, Goto, TypeOK, Life, Args
<1>14. ASSUME NEW s \in Sessions, NEW k \in Nicks, MonitorAdd(s, k)
       PROVE  TypeOK'
  BY <1>14 DEF MonitorAdd, Ready, Goto, TypeOK, Life, Args
<1>15. ASSUME NEW s \in Sessions, NEW ks \in SUBSET Nicks, MonitorRemove(s, ks)
       PROVE  TypeOK'
  BY <1>15 DEF MonitorRemove, Ready, TypeOK, Life, Args
<1>16. ASSUME NEW s \in Sessions, MonitorLookup(s) PROVE TypeOK'
  BY <1>16 DEF MonitorLookup, Registered, Goto, TypeOK, Life, Args
<1>17. ASSUME NEW s \in Sessions, MonitorAnswer(s) PROVE TypeOK'
  BY <1>17 DEF MonitorAnswer, Tell, Goto, TypeOK, Life, Args
<1>18. ASSUME NEW s \in Sessions, Leave(s) PROVE TypeOK'
  BY <1>18 DEF Leave, Ready, Goto, TypeOK, Life, Args
<1>19. ASSUME NEW s \in Sessions, Remove(s) PROVE TypeOK'
  <2>1. news \in NewsType /\ nick[s] \in Nicks
    BY <1>19 DEF Remove, Life, TypeOK, NewsType
  <2>2. Forget(nick[s]) => news' \in NewsType
    BY <2>1 DEF Forget, NewsType
  <2>3. news' \in NewsType
    BY <1>19, <2>1, <2>2 DEF Remove
  <2> QED
    BY Zenon, <1>19, <2>1, <2>3 DEF Remove, Goto, TypeOK, NewsType
<1>20. CASE UNCHANGED vars
  BY <1>20 DEF vars, TypeOK, Life, Args
<1>21. \A ks \in {{k} : k \in Nicks} \cup {Nicks} : ks \in SUBSET Nicks
  OBVIOUS
<1> QED
  BY <1>1, <1>2, <1>3, <1>4, <1>5, <1>6, <1>7, <1>8, <1>9, <1>10, <1>11,
  <1>12, <1>13, <1>14, <1>15, <1>16, <1>17, <1>18, <1>19, <1>20, <1>21 DEF Next

(* Removal follows the end of a registered session; handlers run only while *)
(* it is open.                                                              *)
LEMMA LifeStep == TypeOK /\ Life /\ Identity /\ [Next]_vars => Life'
<1> SUFFICES ASSUME TypeOK, Life, Identity, [Next]_vars PROVE Life'
  OBVIOUS
<1> USE RegistryAssumption DEF connVars, sessVars, monVars, hist
<1>1. ASSUME NEW s \in Sessions, Accept(s) PROVE Life'
  BY <1>1 DEF Accept, TypeOK, Life, Identity, Before
<1>2. ASSUME NEW s \in Sessions, Refuse(s) PROVE Life'
  BY <1>2 DEF Refuse, TypeOK, Life, Identity, Before
<1>3. ASSUME NEW s \in Sessions, Start(s) PROVE Life'
  BY <1>3 DEF Start, TypeOK, Life, Identity, Before
<1>4. ASSUME NEW s \in Sessions, HandshakeFails(s) PROVE Life'
  BY <1>4 DEF HandshakeFails, TypeOK, Life, Identity, Before
<1>5. ASSUME NEW s \in Sessions, NEW n \in Nicks, Nick(s, n) PROVE Life'
  BY <1>5 DEF Nick, Ready, TryRegister, Registered, Goto, TypeOK, Life,
  Identity, Before
<1>6. ASSUME NEW s \in Sessions, User(s) PROVE Life'
  BY <1>6 DEF User, Ready, TryRegister, Goto, TypeOK, Life, Identity, Before
<1>7. ASSUME NEW s \in Sessions, CapBegin(s) PROVE Life'
  BY <1>7 DEF CapBegin, Ready, TypeOK, Life, Identity, Before
<1>8. ASSUME NEW s \in Sessions, CapEnd(s) PROVE Life'
  BY <1>8 DEF CapEnd, Ready, TryRegister, Goto, TypeOK, Life, Identity,
  Before
<1>9. ASSUME NEW s \in Sessions, Add(s) PROVE Life'
  BY <1>9 DEF Add, Forget, Registered, Goto, TypeOK, Life, Identity, Before
<1>10. ASSUME NEW s \in Sessions, AddTaken(s) PROVE Life'
  BY <1>10 DEF AddTaken, Registered, Goto, TypeOK, Life, Identity, Before
<1>11. ASSUME NEW s \in Sessions, Snapshot(s) PROVE Life'
  BY <1>11 DEF Snapshot, All, Goto, TypeOK, Life, Identity, Before
<1>12. ASSUME NEW s \in Sessions, Told(s) PROVE Life'
  BY <1>12 DEF Told, Goto, TypeOK, Life, Identity, Before
<1>13. ASSUME NEW s \in Sessions, NEW k \in Nicks, MonitorAdd(s, k) PROVE Life'
  BY <1>13 DEF MonitorAdd, Ready, Goto, TypeOK, Life, Identity, Before
<1>14. ASSUME NEW s \in Sessions, MonitorLookup(s) PROVE Life'
  BY <1>14 DEF MonitorLookup, Registered, Goto, TypeOK, Life, Identity,
  Before
<1>15. ASSUME NEW s \in Sessions, MonitorAnswer(s) PROVE Life'
  BY <1>15 DEF MonitorAnswer, Tell, Goto, TypeOK, Life, Identity, Before
<1>16. ASSUME NEW s \in Sessions, Leave(s) PROVE Life'
  BY <1>16 DEF Leave, Ready, Goto, TypeOK, Life, Identity, Before
<1>17. ASSUME NEW s \in Sessions, Remove(s) PROVE Life'
  BY <1>17 DEF Remove, Forget, Registered, Goto, TypeOK, Life, Identity,
  Before
<1>18. ASSUME UNCHANGED <<phase, state, pc, nick>> PROVE Life'
  BY <1>18 DEF Life
<1>19. ASSUME NEW s \in Sessions,
             \/ \E w \in Sessions : TellWatcher(s, w)
             \/ \E ks \in {{k} : k \in Nicks} \cup {Nicks} : MonitorRemove(s, ks)
      PROVE  Life'
  BY <1>18, <1>19 DEF TellWatcher, MonitorRemove
<1>20. CASE UNCHANGED vars
  BY <1>18, <1>20 DEF vars
<1> QED
  BY <1>1, <1>2, <1>3, <1>4, <1>5, <1>6, <1>7, <1>8, <1>9, <1>10, <1>11,
  <1>12, <1>13, <1>14, <1>15, <1>16, <1>17, <1>19, <1>20 DEF Next

(* AddTaken clears the nick of a session that is not registered.            *)
LEMMA IdentityStep == TypeOK /\ Life /\ Identity /\ [Next]_vars => Identity'
<1> SUFFICES ASSUME TypeOK, Life, Identity, [Next]_vars PROVE Identity'
  OBVIOUS
<1> USE RegistryAssumption DEF connVars, sessVars, monVars, hist
<1>1. ASSUME NEW s \in Sessions, NEW n \in Nicks, Nick(s, n) PROVE Identity'
  BY <1>1 DEF Nick, Ready, TryRegister, Registered, Goto, TypeOK, Life,
  Identity
<1>2. ASSUME NEW s \in Sessions, CapBegin(s) PROVE Identity'
  BY <1>2 DEF CapBegin, Ready, TypeOK, Life, Identity
<1>3. ASSUME NEW s \in Sessions, CapEnd(s) PROVE Identity'
  BY <1>3 DEF CapEnd, Ready, TryRegister, Goto, TypeOK, Life, Identity
<1>4. ASSUME NEW s \in Sessions, Add(s) PROVE Identity'
  BY <1>4 DEF Add, Forget, Registered, Goto, TypeOK, Life, Identity
<1>5. ASSUME NEW s \in Sessions, AddTaken(s) PROVE Identity'
  BY <1>5 DEF AddTaken, Registered, Goto, TypeOK, Life, Identity
<1>6. ASSUME NEW s \in Sessions, NEW k \in Nicks, MonitorAdd(s, k)
       PROVE  Identity'
  BY <1>6 DEF MonitorAdd, Ready, Goto, TypeOK, Life, Identity
<1>7. ASSUME NEW s \in Sessions, NEW ks \in SUBSET Nicks, MonitorRemove(s, ks)
       PROVE  Identity'
  BY <1>7 DEF MonitorRemove, Ready, TypeOK, Life, Identity
<1>8. ASSUME UNCHANGED <<state, nick, key, renamed, monitor>> PROVE Identity'
  BY <1>8 DEF Identity
<1>9. ASSUME NEW s \in Sessions,
             \/ Accept(s) \/ Refuse(s) \/ Start(s) \/ HandshakeFails(s)
             \/ User(s) \/ Snapshot(s) \/ Told(s) \/ MonitorLookup(s)
             \/ MonitorAnswer(s) \/ Leave(s) \/ Remove(s)
             \/ \E w \in Sessions : TellWatcher(s, w)
      PROVE  Identity'
  BY Zenon, <1>8, <1>9 DEF Accept, Refuse, Start, HandshakeFails, User, Snapshot,
  TellWatcher, Told, MonitorLookup, MonitorAnswer, Leave, Remove
<1>10. CASE UNCHANGED vars
  BY <1>8, <1>10 DEF vars
<1>11. \A ks \in {{k} : k \in Nicks} \cup {Nicks} : ks \in SUBSET Nicks
  OBVIOUS
<1> QED
  BY <1>1, <1>2, <1>3, <1>4, <1>5, <1>6, <1>7, <1>9, <1>10, <1>11 DEF Next

(* Handlers clear what they leave behind.                                   *)
LEMMA ArgsStep == TypeOK /\ Life /\ Args /\ [Next]_vars => Args'
<1> SUFFICES ASSUME TypeOK, Life, Args, [Next]_vars PROVE Args'
  OBVIOUS
<1> USE RegistryAssumption DEF connVars, sessVars, monVars, hist
<1>1. ASSUME NEW s \in Sessions, NEW n \in Nicks, Nick(s, n) PROVE Args'
  BY <1>1 DEF Nick, Ready, TryRegister, Registered, Goto, TypeOK, Life, Args
<1>2. ASSUME NEW s \in Sessions, User(s) PROVE Args'
  BY <1>2 DEF User, Ready, TryRegister, Goto, TypeOK, Life, Args
<1>3. ASSUME NEW s \in Sessions, CapEnd(s) PROVE Args'
  BY <1>3 DEF CapEnd, Ready, TryRegister, Goto, TypeOK, Life, Args
<1>4. ASSUME NEW s \in Sessions, Add(s) PROVE Args'
  BY <1>4 DEF Add, Forget, Registered, Goto, TypeOK, Life, Args
<1>5. ASSUME NEW s \in Sessions, AddTaken(s) PROVE Args'
  BY <1>5 DEF AddTaken, Registered, Goto, TypeOK, Life, Args
<1>6. ASSUME NEW s \in Sessions, Snapshot(s) PROVE Args'
  BY <1>6 DEF Snapshot, All, Goto, TypeOK, Life, Args
<1>7. ASSUME NEW s \in Sessions, Told(s) PROVE Args'
  BY <1>7 DEF Told, Goto, TypeOK, Life, Args
<1>8. ASSUME NEW s \in Sessions, NEW k \in Nicks, MonitorAdd(s, k) PROVE Args'
  BY <1>8 DEF MonitorAdd, Ready, Goto, TypeOK, Life, Args
<1>9. ASSUME NEW s \in Sessions, MonitorLookup(s) PROVE Args'
  BY <1>9 DEF MonitorLookup, Registered, Goto, TypeOK, Life, Args
<1>10. ASSUME NEW s \in Sessions, MonitorAnswer(s) PROVE Args'
  BY <1>10 DEF MonitorAnswer, Tell, Goto, TypeOK, Life, Args
<1>11. ASSUME NEW s \in Sessions, Leave(s) PROVE Args'
  BY <1>11 DEF Leave, Ready, Goto, TypeOK, Life, Args
<1>12. ASSUME NEW s \in Sessions, Remove(s) PROVE Args'
  BY <1>12 DEF Remove, Forget, Registered, Goto, TypeOK, Life, Args
<1>13. ASSUME UNCHANGED <<pc, arg, status>> PROVE Args'
  BY <1>13 DEF Args
<1>14. ASSUME NEW s \in Sessions,
             \/ Accept(s) \/ Refuse(s) \/ Start(s) \/ HandshakeFails(s)
             \/ CapBegin(s)
             \/ \E w \in Sessions : TellWatcher(s, w)
             \/ \E ks \in {{k} : k \in Nicks} \cup {Nicks} : MonitorRemove(s, ks)
      PROVE  Args'
  BY <1>13, <1>14 DEF Accept, Refuse, Start, HandshakeFails, CapBegin,
  TellWatcher, MonitorRemove
<1>15. CASE UNCHANGED vars
  BY <1>13, <1>15 DEF vars
<1> QED
  BY <1>1, <1>2, <1>3, <1>4, <1>5, <1>6, <1>7, <1>8, <1>9, <1>10, <1>11,
  <1>12, <1>14, <1>15 DEF Next
-----------------------------------------------------------------------------
(* Registry.Add files a session only once, under the nick it has then.      *)
LEMMA FiledStep == TypeOK /\ Life /\ Filed /\ [Next]_vars => Filed'
<1> SUFFICES ASSUME TypeOK, Life, Filed, [Next]_vars PROVE Filed'
  OBVIOUS
<1> USE RegistryAssumption DEF connVars, sessVars, monVars, hist
<1>1. ASSUME NEW s \in Sessions, CapBegin(s) PROVE Filed'
  BY <1>1 DEF CapBegin, Ready, TypeOK, Life, Filed, Registered
<1>2. ASSUME NEW s \in Sessions, CapEnd(s) PROVE Filed'
  BY <1>2 DEF CapEnd, Ready, TryRegister, Goto, TypeOK, Life, Filed,
  Registered
<1>3. ASSUME NEW s \in Sessions, Add(s) PROVE Filed'
  BY <1>3 DEF Add, Forget, Goto, TypeOK, Life, Filed, Registered
<1>4. ASSUME NEW s \in Sessions, Remove(s) PROVE Filed'
  BY <1>4 DEF Remove, Forget, Goto, TypeOK, Life, Filed, Registered
<1>5. ASSUME UNCHANGED <<registry, state, key>> PROVE Filed'
  BY <1>5 DEF Filed, Registered
<1>6. ASSUME NEW s \in Sessions,
             \/ Accept(s) \/ Refuse(s) \/ Start(s) \/ HandshakeFails(s)
             \/ User(s) \/ AddTaken(s) \/ Snapshot(s) \/ Told(s)
             \/ MonitorLookup(s) \/ MonitorAnswer(s) \/ Leave(s)
             \/ \E n \in Nicks : Nick(s, n)
             \/ \E w \in Sessions : TellWatcher(s, w)
             \/ \E k \in Nicks : MonitorAdd(s, k)
             \/ \E ks \in {{k} : k \in Nicks} \cup {Nicks} : MonitorRemove(s, ks)
      PROVE  Filed'
  BY Zenon, <1>5, <1>6 DEF Accept, Refuse, Start, HandshakeFails, Nick, User,
  AddTaken, Snapshot, TellWatcher, Told, MonitorAdd, MonitorRemove,
  MonitorLookup, MonitorAnswer, Leave
<1>7. CASE UNCHANGED vars
  BY <1>5, <1>7 DEF vars
<1> QED
  BY <1>1, <1>2, <1>3, <1>4, <1>6, <1>7 DEF Next

(* removeSession removes a session that did not change its nick.            *)
LEMMA RemovedStep ==
  TypeOK /\ Life /\ Identity /\ Filed /\ RemovedIsRenamed /\ [Next]_vars
    => RemovedIsRenamed'
<1> SUFFICES ASSUME TypeOK, Life, Identity, Filed, RemovedIsRenamed, [Next]_vars
             PROVE  RemovedIsRenamed'
  OBVIOUS
<1> USE RegistryAssumption DEF connVars, sessVars, monVars, hist
<1>1. ASSUME NEW s \in Sessions, Accept(s) PROVE RemovedIsRenamed'
  BY <1>1 DEF Accept, TypeOK, Life, Identity, Filed, Registered,
  RemovedIsRenamed, Removed, Before
<1>2. ASSUME NEW s \in Sessions, Refuse(s) PROVE RemovedIsRenamed'
  BY <1>2 DEF Refuse, TypeOK, Life, Identity, Filed, Registered,
  RemovedIsRenamed, Removed, Before
<1>3. ASSUME NEW s \in Sessions, Start(s) PROVE RemovedIsRenamed'
  BY <1>3 DEF Start, TypeOK, Life, Identity, Filed, Registered,
  RemovedIsRenamed, Removed, Before
<1>4. ASSUME NEW s \in Sessions, HandshakeFails(s) PROVE RemovedIsRenamed'
  BY <1>4 DEF HandshakeFails, TypeOK, Life, Identity, Filed, Registered,
  RemovedIsRenamed, Removed, Before
<1>5. ASSUME NEW s \in Sessions, NEW n \in Nicks, Nick(s, n)
       PROVE  RemovedIsRenamed'
  BY <1>5 DEF Nick, Ready, TryRegister, Goto, TypeOK, Life, Identity, Filed,
  Registered, RemovedIsRenamed, Removed, Before
<1>6. ASSUME NEW s \in Sessions, User(s) PROVE RemovedIsRenamed'
  BY <1>6 DEF User, Ready, TryRegister, Goto, TypeOK, Life, Identity, Filed,
  Registered, RemovedIsRenamed, Removed, Before
<1>7. ASSUME NEW s \in Sessions, CapEnd(s) PROVE RemovedIsRenamed'
  BY <1>7 DEF CapEnd, Ready, TryRegister, Goto, TypeOK, Life, Identity,
  Filed, Registered, RemovedIsRenamed, Removed, Before
<1>8. ASSUME NEW s \in Sessions, Add(s) PROVE RemovedIsRenamed'
  <2>1. phase[s] = "open" /\ state[s] = "PreReg" /\ nick[s] \in Nicks
    BY Zenon, <1>8 DEF Add, Life, TypeOK, Before
  <2>2. ~Removed(s)'
    BY <1>8, <2>1 DEF Add, Goto, Removed
  <2> SUFFICES ASSUME NEW k \in Nicks, (Registered(k) /\ Removed(registry[k]))'
               PROVE  registry'[k] \in renamed'
    BY DEF RemovedIsRenamed
  <2>3. k # nick[s] /\ registry'[k] = registry[k]
    BY <1>8, <2>1, <2>2 DEF Add, TypeOK
  <2>4. registry[k] \in Sessions /\ registry[k] # s /\ Registered(k)
    BY <2>1, <2>3 DEF Filed, Registered, TypeOK
  <2>5. Removed(registry[k]) /\ renamed' = renamed
    BY <1>8, <2>3, <2>4 DEF Add, Goto, Removed, TypeOK
  <2> QED
    BY <2>3, <2>4, <2>5 DEF RemovedIsRenamed
<1>9. ASSUME NEW s \in Sessions, AddTaken(s) PROVE RemovedIsRenamed'
  BY <1>9 DEF AddTaken, Goto, TypeOK, Life, Identity, Filed, Registered,
  RemovedIsRenamed, Removed, Before
<1>10. ASSUME NEW s \in Sessions, Snapshot(s) PROVE RemovedIsRenamed'
  BY <1>10 DEF Snapshot, All, Goto, TypeOK, Life, Identity, Filed,
  Registered, RemovedIsRenamed, Removed, Before
<1>11. ASSUME NEW s \in Sessions, Told(s) PROVE RemovedIsRenamed'
  BY <1>11 DEF Told, Goto, TypeOK, Life, Identity, Filed, Registered,
  RemovedIsRenamed, Removed, Before
<1>12. ASSUME NEW s \in Sessions, NEW k \in Nicks, MonitorAdd(s, k)
       PROVE  RemovedIsRenamed'
  BY <1>12 DEF MonitorAdd, Ready, Goto, TypeOK, Life, Identity, Filed,
  Registered, RemovedIsRenamed, Removed, Before
<1>13. ASSUME NEW s \in Sessions, MonitorLookup(s) PROVE RemovedIsRenamed'
  BY <1>13 DEF MonitorLookup, Goto, TypeOK, Life, Identity, Filed,
  Registered, RemovedIsRenamed, Removed, Before
<1>14. ASSUME NEW s \in Sessions, MonitorAnswer(s) PROVE RemovedIsRenamed'
  BY <1>14 DEF MonitorAnswer, Tell, Goto, TypeOK, Life, Identity, Filed,
  Registered, RemovedIsRenamed, Removed, Before
<1>15. ASSUME NEW s \in Sessions, Leave(s) PROVE RemovedIsRenamed'
  BY <1>15 DEF Leave, Ready, Goto, TypeOK, Life, Identity, Filed, Registered,
  RemovedIsRenamed, Removed, Before
<1>16. ASSUME NEW s \in Sessions, Remove(s) PROVE RemovedIsRenamed'
  BY <1>16 DEF Remove, Forget, Goto, TypeOK, Life, Identity, Filed,
  Registered, RemovedIsRenamed, Removed, Before
<1>17. ASSUME UNCHANGED <<phase, pc, registry, renamed>> PROVE RemovedIsRenamed'
  BY <1>17 DEF RemovedIsRenamed, Removed, Registered
<1>18. ASSUME NEW s \in Sessions,
             \/ CapBegin(s)
             \/ \E w \in Sessions : TellWatcher(s, w)
             \/ \E ks \in {{k} : k \in Nicks} \cup {Nicks} : MonitorRemove(s, ks)
      PROVE  RemovedIsRenamed'
  BY <1>17, <1>18 DEF CapBegin, TellWatcher, MonitorRemove
<1>19. CASE UNCHANGED vars
  BY <1>17, <1>19 DEF vars
<1> QED
  BY <1>1, <1>2, <1>3, <1>4, <1>5, <1>6, <1>7, <1>8, <1>9, <1>10, <1>11,
  <1>12, <1>13, <1>14, <1>15, <1>16, <1>18, <1>19 DEF Next

(* The session that took the entry away has ended and keeps its nick.       *)
LEMMA MissingStep ==
  TypeOK /\ Life /\ Identity /\ MissingOnlyByNamesake /\ [Next]_vars
    => MissingOnlyByNamesake'
<1> SUFFICES ASSUME TypeOK, Life, Identity, MissingOnlyByNamesake, [Next]_vars
             PROVE  MissingOnlyByNamesake'
  OBVIOUS
<1> USE RegistryAssumption DEF connVars, sessVars, monVars, hist
<1>1. ASSUME NEW s \in Sessions, Accept(s) PROVE MissingOnlyByNamesake'
  BY <1>1 DEF Accept, TypeOK, Life, Identity, MissingOnlyByNamesake, Before
<1>2. ASSUME NEW s \in Sessions, Refuse(s) PROVE MissingOnlyByNamesake'
  BY <1>2 DEF Refuse, TypeOK, Life, Identity, MissingOnlyByNamesake, Before
<1>3. ASSUME NEW s \in Sessions, Start(s) PROVE MissingOnlyByNamesake'
  BY <1>3 DEF Start, TypeOK, Life, Identity, MissingOnlyByNamesake, Before
<1>4. ASSUME NEW s \in Sessions, HandshakeFails(s) PROVE MissingOnlyByNamesake'
  BY <1>4 DEF HandshakeFails, TypeOK, Life, Identity, MissingOnlyByNamesake,
  Before
<1>5. ASSUME NEW s \in Sessions, NEW n \in Nicks, Nick(s, n)
       PROVE  MissingOnlyByNamesake'
  BY Zenon, <1>5 DEF Nick, Ready, TryRegister, Registered, Goto, TypeOK, Life,
  Identity, MissingOnlyByNamesake, Before
<1>6. ASSUME NEW s \in Sessions, CapBegin(s) PROVE MissingOnlyByNamesake'
  BY <1>6 DEF CapBegin, Ready, TypeOK, Life, Identity, MissingOnlyByNamesake,
  Before
<1>7. ASSUME NEW s \in Sessions, CapEnd(s) PROVE MissingOnlyByNamesake'
  BY <1>7 DEF CapEnd, Ready, TryRegister, Goto, TypeOK, Life, Identity,
  MissingOnlyByNamesake, Before
<1>8. ASSUME NEW s \in Sessions, Add(s) PROVE MissingOnlyByNamesake'
  BY <1>8 DEF Add, Forget, Registered, Goto, TypeOK, Life, Identity,
  MissingOnlyByNamesake, Before
<1>9. ASSUME NEW s \in Sessions, AddTaken(s) PROVE MissingOnlyByNamesake'
  <2>1. phase[s] = "open" /\ phase' = phase /\ state' = state /\ registry' = registry
    BY Zenon, <1>9 DEF AddTaken, Life, TypeOK, Before
  <2>2. key' = key /\ \A u \in Sessions \ {s} : nick'[u] = nick[u]
    BY <1>9 DEF AddTaken, TypeOK
  <2> SUFFICES ASSUME NEW t \in Sessions, phase[t] = "open", state[t] = "Registered",
                      registry[key[t]] # t
               PROVE  \E u \in Sessions \ {t} :
                        phase[u] \in {"leaving", "gone"} /\ nick'[u] = key[t]
    BY <2>1, <2>2 DEF MissingOnlyByNamesake
  <2>3. PICK u \in Sessions \ {t} : phase[u] \in {"leaving", "gone"} /\ nick[u] = key[t]
    BY DEF MissingOnlyByNamesake
  <2> QED
    BY <2>1, <2>2, <2>3
<1>10. ASSUME NEW s \in Sessions, Told(s) PROVE MissingOnlyByNamesake'
  BY <1>10 DEF Told, Goto, TypeOK, Life, Identity, MissingOnlyByNamesake,
  Before
<1>11. ASSUME NEW s \in Sessions, Leave(s) PROVE MissingOnlyByNamesake'
  BY <1>11 DEF Leave, Ready, Goto, TypeOK, Life, Identity,
  MissingOnlyByNamesake, Before
<1>12. ASSUME NEW s \in Sessions, Remove(s) PROVE MissingOnlyByNamesake'
  BY <1>12 DEF Remove, Forget, Registered, Goto, TypeOK, Life, Identity,
  MissingOnlyByNamesake, Before
<1>13. ASSUME UNCHANGED <<phase, state, registry, key, nick>> PROVE MissingOnlyByNamesake'
  BY <1>13 DEF MissingOnlyByNamesake
<1>14. ASSUME NEW s \in Sessions,
             \/ User(s) \/ Snapshot(s) \/ MonitorLookup(s)
             \/ MonitorAnswer(s)
             \/ \E w \in Sessions : TellWatcher(s, w)
             \/ \E k \in Nicks : MonitorAdd(s, k)
             \/ \E ks \in {{k} : k \in Nicks} \cup {Nicks} : MonitorRemove(s, ks)
      PROVE  MissingOnlyByNamesake'
  BY Zenon, <1>13, <1>14 DEF User, Snapshot, TellWatcher, MonitorAdd, MonitorRemove,
  MonitorLookup, MonitorAnswer
<1>15. CASE UNCHANGED vars
  BY <1>13, <1>15 DEF vars
<1> QED
  BY <1>1, <1>2, <1>3, <1>4, <1>5, <1>6, <1>7, <1>8, <1>9, <1>10, <1>11,
  <1>12, <1>14, <1>15 DEF Next
-----------------------------------------------------------------------------
(* A session that neither asks nor tells.                                   *)
Silent(s) == pc[s] \in {"idle", "add", "remove"}

(* A step of one session that leaves the others, the status of the nick and *)
(* the news alone keeps the promise to a watcher if the part that session   *)
(* has in it is kept.                                                       *)
LEMMA ServedKept ==
  ASSUME NEW s \in Sessions, NEW w \in Sessions, NEW k \in Nicks, Served(w, k),
         Now(k)' = Now(k), news[w][k] \subseteq news'[w][k],
         \A u \in Sessions \ {s} : /\ pc'[u] = pc[u] /\ arg'[u] = arg[u]
                                   /\ status'[u] = status[u] /\ todo'[u] = todo[u],
         w = s /\ Asking(w, k) => Served(w, k)',
         Telling(s, w, k) => Served(w, k)'
  PROVE  Served(w, k)'
<1>1. CASE Now(k) \in news[w][k]
  BY Zenon, <1>1 DEF Served
<1>2. CASE Asking(w, k) /\ w # s
  BY Zenon, <1>2 DEF Served, Asking
<1>3. ASSUME NEW u \in Sessions, Telling(u, w, k), u # s PROVE Served(w, k)'
  <2>1. Telling(u, w, k)'
    BY <1>3 DEF Telling
  <2> QED
    BY Zenon, <2>1 DEF Served
<1> QED
  BY Zenon, <1>1, <1>2, <1>3 DEF Served

(* The sessions in the registry are sessions.                               *)
LEMMA AllSessions == TypeOK => All \subseteq Sessions
  BY DEF TypeOK, All

(* A silent session that does not touch registry, monitor and news keeps    *)
(* every promise.                                                           *)
LEMMA SilentStep ==
  ASSUME TypeOK, NewsComing, NEW s \in Sessions, Silent(s),
         UNCHANGED <<registry, monitor, news, arg, status, todo>>,
         \A u \in Sessions \ {s} : pc'[u] = pc[u]
  PROVE  NewsComing'
<1>1. All' = All /\ \A k \in Nicks : Now(k)' = Now(k)
  BY DEF All, Now, Registered
<1> SUFFICES ASSUME NEW w \in All, NEW k \in Nicks, k \in monitor[w]
             PROVE  Served(w, k)'
  BY <1>1 DEF NewsComing
<1>2. Served(w, k) /\ w \in Sessions
  BY AllSessions DEF NewsComing
<1>3. ~Asking(s, k) /\ ~Telling(s, w, k)
  BY DEF Silent, Asking, Telling
<1> QED
  BY <1>1, <1>2, <1>3, ServedKept

(* News.                                                                    *)
LEMMA NewsStep == IInv /\ [Next]_vars => NewsComing'
<1> SUFFICES ASSUME IInv, [Next]_vars PROVE NewsComing'
  OBVIOUS
<1> USE DEF connVars, sessVars, monVars, hist
<1>0. TypeOK /\ NewsComing /\ Args /\ Life /\ Identity /\ All \subseteq Sessions
  BY AllSessions DEF IInv
<1>1. ASSUME UNCHANGED <<pc, registry, monitor, news, arg, status, todo>>
      PROVE  NewsComing'
  BY <1>0, <1>1 DEF NewsComing, All, Served, Asking, Telling, Now, Registered
<1>2. ASSUME NEW s \in Sessions,
             Accept(s) \/ Refuse(s) \/ Start(s) \/ HandshakeFails(s) \/ CapBegin(s)
      PROVE  NewsComing'
  BY <1>1, <1>2 DEF Accept, Refuse, Start, HandshakeFails, CapBegin
<1>3. ASSUME NEW s \in Sessions,
             \/ \E n \in Nicks : Nick(s, n)
             \/ User(s) \/ CapEnd(s) \/ AddTaken(s) \/ Leave(s)
      PROVE  NewsComing'
  <2>1. Silent(s) /\ UNCHANGED <<registry, monitor, news, arg, status, todo>>
    BY Zenon, <1>3 DEF Silent, Nick, User, CapEnd, AddTaken, Leave, Ready
  <2>2. \A u \in Sessions \ {s} : pc'[u] = pc[u]
    BY <1>0, <1>3 DEF TypeOK, Nick, User, CapEnd, AddTaken, Leave, TryRegister, Goto
  <2> QED
    BY <1>0, <2>1, <2>2, SilentStep
<1>4. ASSUME NEW s \in Sessions, Add(s) PROVE NewsComing'
  <2> SUFFICES ASSUME NEW w \in All', NEW k \in Nicks, k \in monitor'[w]
               PROVE  Served(w, k)'
    BY DEF NewsComing
  <2>1. /\ pc[s] = "add" /\ nick[s] \in Nicks /\ monitor' = monitor /\ monitor[s] = {}
        /\ registry' = [registry EXCEPT ![nick[s]] = s]
    BY <1>0, <1>4 DEF Add, Life, Identity
  <2>2. w # s /\ w \in Sessions /\ w \in All
    BY <1>0, <2>1 DEF All, TypeOK
  <2>3. CASE k = nick[s]
    <3>1. Telling(s, w, k)'
      BY <1>0, <1>4, <2>2, <2>3, RegistryAssumption
         DEF Add, Goto, Telling, Now, Registered, TypeOK
    <3> QED
      BY <3>1 DEF Served
  <2>4. CASE k # nick[s]
    <3>1. Served(w, k) /\ Now(k)' = Now(k)
      BY <1>0, <2>1, <2>2, <2>4 DEF NewsComing, Now, Registered, TypeOK
    <3>2. news'[w][k] = news[w][k]
      BY <1>0, <1>4, <2>2, <2>4 DEF Add, Forget, TypeOK
    <3>3. \A u \in Sessions \ {s} : /\ pc'[u] = pc[u] /\ arg'[u] = arg[u]
                                    /\ status'[u] = status[u] /\ todo'[u] = todo[u]
      BY <1>0, <1>4 DEF Add, Goto, TypeOK
    <3>4. ~Telling(s, w, k)
      BY <2>1 DEF Telling
    <3> QED
      BY Zenon, <2>2, <3>1, <3>2, <3>3, <3>4, ServedKept
  <2> QED
    BY <2>3, <2>4
<1>5. ASSUME NEW s \in Sessions, Remove(s) PROVE NewsComing'
  <2> SUFFICES ASSUME NEW w \in All', NEW k \in Nicks, k \in monitor'[w]
               PROVE  Served(w, k)'
    BY DEF NewsComing
  <2>1. /\ pc[s] = "remove" /\ nick[s] \in Nicks /\ monitor' = monitor
        /\ status[s] = "offline" /\ status' = status
        /\ registry' = [registry EXCEPT ![nick[s]] = None]
    BY <1>0, <1>5 DEF Remove, Life, Args
  <2>2. w \in Sessions /\ w \in All
    BY <1>0, <2>1 DEF All, TypeOK
  <2>3. CASE k = nick[s]
    <3>1. Telling(s, w, k)'
      BY <1>0, <1>5, <2>1, <2>2, <2>3 DEF Remove, Goto, Telling, Now, Registered, TypeOK
    <3> QED
      BY <3>1 DEF Served
  <2>4. CASE k # nick[s]
    <3>1. Served(w, k) /\ Now(k)' = Now(k)
      BY <1>0, <2>1, <2>2, <2>4 DEF NewsComing, Now, Registered, TypeOK
    <3>2. news'[w][k] = news[w][k]
      BY <1>0, <1>5, <2>2, <2>4 DEF Remove, Forget, TypeOK
    <3>3. \A u \in Sessions \ {s} : /\ pc'[u] = pc[u] /\ arg'[u] = arg[u]
                                    /\ status'[u] = status[u] /\ todo'[u] = todo[u]
      BY <1>0, <1>5 DEF Remove, Goto, TypeOK
    <3>4. ~Telling(s, w, k) /\ ~Asking(s, k)
      BY <2>1 DEF Telling, Asking
    <3> QED
      BY <2>2, <3>1, <3>2, <3>3, <3>4, ServedKept
  <2> QED
    BY <2>3, <2>4
<1>6. ASSUME NEW s \in Sessions,
             \/ Snapshot(s) \/ (\E v \in Sessions : TellWatcher(s, v)) \/ Told(s)
             \/ (\E j \in Nicks : MonitorAdd(s, j))
             \/ (\E ks \in {{j} : j \in Nicks} \cup {Nicks} : MonitorRemove(s, ks))
             \/ MonitorLookup(s) \/ MonitorAnswer(s)
      PROVE  NewsComing'
  <2>1. registry' = registry
    BY <1>6 DEF Snapshot, TellWatcher, Told, MonitorAdd, MonitorRemove, MonitorLookup,
                MonitorAnswer
  <2> SUFFICES ASSUME NEW w \in All, NEW k \in Nicks, k \in monitor'[w]
               PROVE  Served(w, k)'
    BY <2>1 DEF NewsComing, All
  <2>2. w \in Sessions /\ Now(k)' = Now(k)
    BY <1>0, <2>1 DEF Now, Registered
  <2>3. \A u \in Sessions \ {s} : /\ pc'[u] = pc[u] /\ arg'[u] = arg[u]
                                  /\ status'[u] = status[u] /\ todo'[u] = todo[u]
    <3>1. CASE Snapshot(s) \/ Told(s)
      BY <1>0, <3>1 DEF Snapshot, Told, Goto, TypeOK
    <3>2. ASSUME NEW v \in Sessions, TellWatcher(s, v)
          PROVE  \A u \in Sessions \ {s} : /\ pc'[u] = pc[u] /\ arg'[u] = arg[u]
                                            /\ status'[u] = status[u] /\ todo'[u] = todo[u]
      BY <1>0, <3>2 DEF TellWatcher, TypeOK
    <3>3. ASSUME NEW j \in Nicks, MonitorAdd(s, j)
          PROVE  \A u \in Sessions \ {s} : /\ pc'[u] = pc[u] /\ arg'[u] = arg[u]
                                            /\ status'[u] = status[u] /\ todo'[u] = todo[u]
      BY <1>0, <3>3 DEF MonitorAdd, Goto, TypeOK
    <3>4. CASE \E ks \in {{j} : j \in Nicks} \cup {Nicks} : MonitorRemove(s, ks)
      BY <3>4 DEF MonitorRemove
    <3>5. CASE MonitorLookup(s) \/ MonitorAnswer(s)
      BY <1>0, <3>5 DEF MonitorLookup, MonitorAnswer, Goto, TypeOK
    <3> QED
      BY <1>6, <3>1, <3>2, <3>3, <3>4, <3>5
  <2>4. CASE Snapshot(s)
    <3>1. Served(w, k) /\ news' = news
      BY <1>0, <2>4 DEF Snapshot, NewsComing
    <3>2. ~Asking(s, k)
      BY <2>4 DEF Snapshot, Asking
    <3>3. Telling(s, w, k) => Telling(s, w, k)'
      BY <1>0, <2>2, <2>4 DEF Snapshot, Goto, Telling, TypeOK
    <3> QED
      BY Zenon, <2>2, <2>3, <3>1, <3>2, <3>3, ServedKept DEF Served
  <2>5. ASSUME NEW v \in Sessions, TellWatcher(s, v) PROVE Served(w, k)'
    <3>1. Served(w, k) /\ k \in monitor[w] /\ pc[s] = "telling"
      BY Zenon, <1>0, <2>5 DEF TellWatcher, NewsComing
    <3>2. news[w][k] \subseteq news'[w][k]
      <4>1. arg[s] \in Nicks
        BY <1>0, <3>1 DEF Args
      <4>2. Tell(v, arg[s], status[s]) => news[w][k] \subseteq news'[w][k]
        <5>1. news \in [Sessions -> [Nicks -> SUBSET {"online", "offline"}]]
          BY <1>0 DEF TypeOK
        <5> QED
          BY <2>2, <4>1, <5>1 DEF Tell
      <4>3. Tell(v, arg[s], status[s]) \/ news' = news
        BY <2>5 DEF TellWatcher
      <4> QED
        BY <4>2, <4>3
    <3>3. ~Asking(s, k)
      BY <3>1 DEF Asking
    <3>4. CASE v = w
      <4>1. Telling(s, w, k) => Now(k) \in news'[w][k]
        BY <1>0, <2>2, <2>5, <3>1, <3>4 DEF TellWatcher, Tell, Telling, TypeOK
      <4> QED
        BY Zenon, <2>2, <2>3, <3>1, <3>2, <3>3, <4>1, ServedKept DEF Served
    <3>5. CASE v # w
      <4>1. Telling(s, w, k) => Telling(s, w, k)'
        BY <1>0, <2>2, <2>5, <3>1, <3>5 DEF TellWatcher, Telling, TypeOK
      <4> QED
        BY Zenon, <2>2, <2>3, <3>1, <3>2, <3>3, <4>1, ServedKept DEF Served
    <3> QED
      BY <3>4, <3>5
  <2>6. CASE Told(s)
    <3>1. Served(w, k) /\ news' = news
      BY Zenon, <1>0, <2>6 DEF Told, NewsComing
    <3>2. ~Asking(s, k) /\ ~Telling(s, w, k)
      BY Zenon, <2>6 DEF Told, Asking, Telling
    <3> QED
      BY Zenon, <2>2, <2>3, <3>1, <3>2, ServedKept
  <2>7. ASSUME NEW j \in Nicks, MonitorAdd(s, j) PROVE Served(w, k)'
    <3>1. CASE w = s /\ k = j
      <4>1. Asking(w, k)'
        BY <1>0, <2>7, <3>1 DEF MonitorAdd, Goto, Asking, TypeOK
      <4> QED
        BY <4>1 DEF Served
    <3>2. CASE ~(w = s /\ k = j)
      <4>1. k \in monitor[w]
        BY <1>0, <2>2, <2>7, <3>2 DEF MonitorAdd, TypeOK
      <4>2. Served(w, k) /\ news' = news
        BY Zenon, <1>0, <2>7, <4>1 DEF MonitorAdd, NewsComing
      <4>3. ~Asking(s, k) /\ ~Telling(s, w, k)
        BY <2>7 DEF MonitorAdd, Ready, Asking, Telling
      <4> QED
        BY Zenon, <2>2, <2>3, <4>2, <4>3, ServedKept
    <3> QED
      BY <3>1, <3>2
  <2>8. ASSUME NEW ks \in SUBSET Nicks, MonitorRemove(s, ks) PROVE Served(w, k)'
    <3>1. k \in monitor[w]
      BY <1>0, <2>2, <2>8 DEF MonitorRemove, TypeOK
    <3>2. Served(w, k) /\ news' = news
      BY Zenon, <1>0, <2>8, <3>1 DEF MonitorRemove, NewsComing
    <3>3. ~Asking(s, k) /\ ~Telling(s, w, k)
      BY Zenon, <2>8 DEF MonitorRemove, Ready, Asking, Telling
    <3> QED
      BY Zenon, <2>2, <2>3, <3>2, <3>3, ServedKept
  <2>9. CASE MonitorLookup(s)
    <3>1. Served(w, k) /\ news' = news
      BY <1>0, <2>9 DEF MonitorLookup, NewsComing
    <3>2. Asking(s, k) => Asking(s, k)'
      BY <1>0, <2>9 DEF MonitorLookup, Goto, Asking, Now, Registered, TypeOK
    <3>3. ~Telling(s, w, k)
      BY <2>9 DEF MonitorLookup, Telling
    <3> QED
      BY Zenon, <2>2, <2>3, <3>1, <3>2, <3>3, ServedKept DEF Served
  <2>10. CASE MonitorAnswer(s)
    <3>1. Served(w, k)
      BY Zenon, <1>0, <2>10 DEF MonitorAnswer, NewsComing
    <3>2. news[w][k] \subseteq news'[w][k]
      BY <1>0, <2>2, <2>10 DEF MonitorAnswer, Tell, TypeOK
    <3>3. Asking(s, k) => Now(k) \in news'[s][k]
      BY <1>0, <2>10 DEF MonitorAnswer, Tell, Asking, TypeOK
    <3>4. ~Telling(s, w, k)
      BY Zenon, <2>10 DEF MonitorAnswer, Telling
    <3> QED
      BY Zenon, <2>2, <2>3, <3>1, <3>2, <3>3, <3>4, ServedKept DEF Served
  <2>11. ASSUME NEW ks \in {{j} : j \in Nicks} \cup {Nicks} PROVE ks \in SUBSET Nicks
    OBVIOUS
  <2> QED
    BY <1>6, <2>4, <2>5, <2>6, <2>7, <2>8, <2>9, <2>10, <2>11
<1>7. CASE UNCHANGED vars
  BY <1>1, <1>7 DEF vars
<1> QED
  BY <1>2, <1>3, <1>4, <1>5, <1>6, <1>7 DEF Next
-----------------------------------------------------------------------------
(* The invariant holds initially and is kept by every step.                 *)
LEMMA InitInv == Init => IInv
<1> SUFFICES ASSUME Init PROVE IInv
  OBVIOUS
<1> USE RegistryAssumption
<1>1. TypeOK
  BY DEF Init, TypeOK
<1>2. Held = {} /\ Admitted = {} /\ Arrived = {}
  BY DEF Init, Held, Admitted, Arrived
<1>3. Slots
  BY <1>2, FS_EmptySet DEF Init, Slots
<1>4. AdmissionBounded
  BY <1>2, FS_EmptySet DEF AdmissionBounded, Admitted
<1>5. All = {}
  BY DEF Init, All
<1>6. Life /\ Identity /\ Args
  BY DEF Init, Life, Identity, Args
<1>7. Filed /\ RemovedIsRenamed /\ MissingOnlyByNamesake /\ NewsComing
  BY <1>5 DEF Init, Filed, RemovedIsRenamed, MissingOnlyByNamesake, NewsComing, Registered
<1> QED
  BY <1>1, <1>3, <1>4, <1>6, <1>7 DEF IInv

(* The inductive invariant of the registry holds in every reachable state.  *)
THEOREM Inductive == Spec => []IInv
<1>1. IInv /\ [Next]_vars => IInv'
  BY SlotsStep, TypeStep, AdmissionStep, LifeStep, IdentityStep, ArgsStep, FiledStep,
     RemovedStep, MissingStep, NewsStep DEF IInv
<1> QED
  BY <1>1, InitInv, PTL DEF Spec

(* Type correctness of sessions, registry and monitor lists.                *)
THEOREM TypeCorrect == Spec => []TypeOK
BY Inductive, PTL DEF IInv

(* acceptLoop never lets in more connections than MaxClients, for any       *)
(* number of listeners and connections.                                     *)
THEOREM AdmissionHolds == Spec => []AdmissionBounded
BY Inductive, PTL DEF IInv

(* Registry.Add and Registry.Remove never file a session under two nicks.   *)
THEOREM OneKey == Spec => []OneKeyPerSession
<1>1. IInv => OneKeyPerSession
  BY Zenon DEF IInv, Filed, Registered, OneKeyPerSession
<1> QED
  BY <1>1, Inductive, PTL

(* removeSession leaves an entry behind only for a session that had changed *)
(* its nick after registration.                                             *)
THEOREM GhostsAreRenamed == Spec => []GhostOnlyAfterRename
<1>1. IInv => GhostOnlyAfterRename
  BY DEF IInv, RemovedIsRenamed, Removed, GhostOnlyAfterRename
<1> QED
  BY <1>1, Inductive, PTL

(* A connected, registered session is missing from the registry only when a *)
(* session of the same nick ended.                                          *)
THEOREM MissingExplained == Spec => []MissingOnlyByNamesake
BY Inductive, PTL DEF IInv

(* When no handler runs, every watcher knows the present status of every    *)
(* nick it monitors: MONITOR, notifyMonitorOnline and notifyMonitorOffline  *)
(* lose no change.                                                          *)
THEOREM MonitorComplete == Spec => []MonitorNotLost
<1>1. IInv => MonitorNotLost
  <2> SUFFICES ASSUME IInv, Quiet, NEW w \in All, NEW k \in Nicks, k \in monitor[w]
               PROVE  Now(k) \in news[w][k]
    BY DEF MonitorNotLost, Now
  <2>1. Served(w, k) /\ w \in Sessions
    BY AllSessions DEF IInv, NewsComing
  <2>2. ~Asking(w, k) /\ \A s \in Sessions : ~Telling(s, w, k)
    BY <2>1 DEF Quiet, Asking, Telling
  <2> QED
    BY <2>1, <2>2 DEF Served
<1> QED
  BY <1>1, Inductive, PTL
=============================================================================
