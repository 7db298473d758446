------------------------ MODULE StatsDelegate_proofs ------------------------
(***************************************************************************)
(* OneWaits and RegisteredOnce of StatsDelegate, for every pool of binder  *)
(* threads, any number of lives of the powerstats service and of callApps. *)
(***************************************************************************)
EXTENDS StatsDelegate, FiniteSetTheorems, TLAPS

(* What the delegate owes the service is in one place: with a thread that  *)
(* waits for the service, or in a link to the death of one life of it.     *)
OneToken ==
  /\ \A t, u \in Waiting : t = u
  /\ \A i, j \in links : i = j
  /\ Waiting # {} => links = {}
  /\ notices \subseteq links

(* Life i has ended. *)
Ended(i) == i < lives \/ (i = lives /\ ~ alive)

(* Nobody knows a life before it starts, or of an end before it ends.      *)
Known ==
  /\ listed <= lives
  /\ alive => lives # 0
  /\ \A t \in Threads : service[t] <= lives /\ (pc[t] = "link" => service[t] # 0)
  /\ \A i \in Lives : i > lives => registered[i] = 0
  /\ \A i \in notices \cup mourned : Ended(i)

(* About to register with life i. *)
Registering(i) == {t \in Threads : pc[t] = "register" /\ service[t] = i}

(* The life that is on is linked before it is registered with, so until it *)
(* ends nobody comes to register with it again.                            *)
OneRegisters ==
  alive => /\ \A t, u \in Registering(lives) : t = u
           /\ registered[lives] > 0 => Registering(lives) = {}
           /\ (registered[lives] > 0 \/ Registering(lives) # {}) => lives \in links

Inv == TypeOK /\ OneToken /\ Known /\ OneRegisters /\ RegisteredOnce
-----------------------------------------------------------------------------
LEMMA InitInv == Init => Inv
<1> SUFFICES ASSUME Init PROVE Inv
  OBVIOUS
<1> USE StatsDelegateAssumption DEF Init
<1>1. TypeOK
  <2>1. pc \in [Threads -> {"idle", "callApp", "wait", "link", "register", "done"}]
    OBVIOUS
  <2>2. service \in [Threads -> 0 .. MaxLives] /\ registered \in [Lives -> Nat]
    BY DEF Lives
  <2>3. 0 \in 0 .. MaxLives /\ 0 \in 0 .. MaxCalls
    OBVIOUS
  <2>4. alive \in BOOLEAN
    BY Zenon
  <2>5. links \subseteq Lives /\ notices \subseteq Lives /\ mourned \subseteq Lives
    OBVIOUS
  <2>6. served \in 0 .. calls
    OBVIOUS
  <2> QED BY <2>1, <2>2, <2>3, <2>4, <2>5, <2>6 DEF TypeOK
<1>2. Waiting = {Async}
  BY DEF Waiting, Threads
<1>3. OneToken
  BY <1>2 DEF OneToken
<1>4. Known /\ OneRegisters /\ RegisteredOnce
  BY DEF Known, OneRegisters, RegisteredOnce, Threads, Lives
<1> QED BY <1>1, <1>3, <1>4 DEF Inv

(* The service comes on: a life nobody has heard of.                       *)
LEMMA ServiceStartsInv == ASSUME Inv, ServiceStarts PROVE Inv'
<1> USE StatsDelegateAssumption DEF ServiceStarts, powerstats, deaths, clients
<1>1. TypeOK'
  BY DEF Inv, TypeOK, Lives
<1>2. OneToken'
  BY DEF Inv, OneToken, Waiting
<1>3. Known'
  BY DEF Inv, TypeOK, Known, Ended, Lives, OneToken
<1>4. OneRegisters'
  BY DEF Inv, TypeOK, OneToken, Known, OneRegisters, Registering, Lives, Threads
<1>5. RegisteredOnce'
  BY DEF Inv, RegisteredOnce
<1> QED BY <1>1, <1>2, <1>3, <1>4, <1>5 DEF Inv

(* The service dies: who is linked will be told.                           *)
LEMMA ServiceDiesInv == ASSUME Inv, ServiceDies PROVE Inv'
<1> USE StatsDelegateAssumption DEF ServiceDies, powerstats, deaths, clients
<1>1. TypeOK'
  <2>1. links \subseteq Lives /\ notices \subseteq Lives /\ notices' \subseteq Lives
    BY DEF Inv, TypeOK
  <2>2. 0 \in 0 .. MaxLives /\ listed \in 0 .. MaxLives
    BY DEF Inv, TypeOK
  <2>3. listed' \in {0, listed}
    OBVIOUS
  <2>4. alive' \in BOOLEAN
    OBVIOUS
  <2> QED BY <2>1, <2>2, <2>3, <2>4 DEF Inv, TypeOK
<1>2. OneToken'
  BY DEF Inv, OneToken, Waiting
<1>3. Known'
  BY DEF Inv, TypeOK, Known, Ended, Lives, OneToken
<1>4. OneRegisters'
  BY DEF Inv, TypeOK, OneToken, Known, OneRegisters, Registering, Lives, Threads
<1>5. RegisteredOnce'
  BY DEF Inv, RegisteredOnce
<1> QED BY <1>1, <1>2, <1>3, <1>4, <1>5 DEF Inv

(* The service manager forgets a dead service.                             *)
LEMMA ManagerNoticesInv == ASSUME Inv, ManagerNotices PROVE Inv'
<1> USE StatsDelegateAssumption DEF ManagerNotices, powerstats, deaths, clients
<1>1. TypeOK'
  BY DEF Inv, TypeOK, Lives
<1>2. OneToken'
  BY DEF Inv, OneToken, Waiting
<1>3. Known'
  BY DEF Inv, TypeOK, Known, Ended, Lives, OneToken
<1>4. OneRegisters'
  BY DEF Inv, TypeOK, OneToken, Known, OneRegisters, Registering, Lives, Threads
<1>5. RegisteredOnce'
  BY DEF Inv, RegisteredOnce
<1> QED BY <1>1, <1>2, <1>3, <1>4, <1>5 DEF Inv

(* A HAL calls.                                                            *)
LEMMA CallArrivesInv == ASSUME Inv, CallArrives PROVE Inv'
<1> USE StatsDelegateAssumption DEF CallArrives, powerstats, deaths, clients
<1>1. TypeOK'
  BY DEF Inv, TypeOK, Lives
<1>2. OneToken'
  BY DEF Inv, OneToken, Waiting
<1>3. Known'
  BY DEF Inv, TypeOK, Known, Ended, Lives, OneToken
<1>4. OneRegisters'
  BY DEF Inv, TypeOK, OneToken, Known, OneRegisters, Registering, Lives, Threads
<1>5. RegisteredOnce'
  BY DEF Inv, RegisteredOnce
<1> QED BY <1>1, <1>2, <1>3, <1>4, <1>5 DEF Inv

(* A pool thread takes a callApp.                                          *)
LEMMA TakeCallInv == ASSUME Inv, NEW t \in Pool, TakeCall(t) PROVE Inv'
<1> USE StatsDelegateAssumption DEF TakeCall, powerstats, deaths, clients, Goto
<1>0. t \in Threads
  BY DEF Threads
<1>1. TypeOK'
  BY <1>0 DEF Inv, TypeOK, Known, Lives
<1>2. OneToken'
  BY <1>0 DEF Inv, TypeOK, OneToken, Waiting
<1>3. Known'
  BY <1>0 DEF Inv, TypeOK, Known, Ended, OneToken, Lives
<1>4. OneRegisters'
  BY <1>0 DEF Inv, TypeOK, OneToken, Known, Ended, OneRegisters, Registering, Waiting, Lives
<1>5. RegisteredOnce'
  BY <1>0 DEF Inv, TypeOK, OneRegisters, Registering, RegisteredOnce, Lives
<1> QED BY <1>1, <1>2, <1>3, <1>4, <1>5 DEF Inv

(* It is free again.                                                       *)
LEMMA CallReturnsInv == ASSUME Inv, NEW t \in Pool, CallReturns(t) PROVE Inv'
<1> USE StatsDelegateAssumption DEF CallReturns, powerstats, deaths, clients, Goto
<1>0. t \in Threads
  BY DEF Threads
<1>1. TypeOK'
  BY <1>0 DEF Inv, TypeOK, Known, Lives
<1>2. OneToken'
  BY <1>0 DEF Inv, TypeOK, OneToken, Waiting
<1>3. Known'
  BY <1>0 DEF Inv, TypeOK, Known, Ended, OneToken, Lives
<1>4. OneRegisters'
  BY <1>0 DEF Inv, TypeOK, OneToken, Known, Ended, OneRegisters, Registering, Waiting, Lives
<1>5. RegisteredOnce'
  BY <1>0 DEF Inv, TypeOK, OneRegisters, Registering, RegisteredOnce, Lives
<1> QED BY <1>1, <1>2, <1>3, <1>4, <1>5 DEF Inv

(* A pool thread is told of an end: the token is its own now.              *)
LEMMA BinderDiedInv == ASSUME Inv, NEW t \in Pool, BinderDied(t) PROVE Inv'
<1> USE StatsDelegateAssumption DEF BinderDied, powerstats, deaths, clients, Goto
<1>0. t \in Threads
  BY DEF Threads
<1>1. TypeOK'
  BY <1>0 DEF Inv, TypeOK, Known, Lives
<1>2. OneToken'
  BY <1>0 DEF Inv, TypeOK, OneToken, Waiting
<1>3. Known'
  BY <1>0 DEF Inv, TypeOK, Known, Ended, OneToken, Lives
<1>4. OneRegisters'
  BY <1>0 DEF Inv, TypeOK, OneToken, Known, Ended, OneRegisters, Registering, Waiting, Lives
<1>5. RegisteredOnce'
  BY <1>0 DEF Inv, TypeOK, OneRegisters, Registering, RegisteredOnce, Lives
<1> QED BY <1>1, <1>2, <1>3, <1>4, <1>5 DEF Inv

(* It finds the service, maybe a life that is over.                        *)
LEMMA CheckServiceInv == ASSUME Inv, NEW t \in Threads, CheckService(t) PROVE Inv'
<1> USE StatsDelegateAssumption DEF CheckService, powerstats, deaths, clients, Goto
<1>0. t \in Threads
  BY DEF Threads
<1>1. TypeOK'
  BY <1>0 DEF Inv, TypeOK, Known, Lives
<1>2. OneToken'
  BY <1>0 DEF Inv, TypeOK, OneToken, Waiting
<1>3. Known'
  BY <1>0 DEF Inv, TypeOK, Known, Ended, OneToken, Lives
<1>4. OneRegisters'
  BY <1>0 DEF Inv, TypeOK, OneToken, Known, Ended, OneRegisters, Registering, Waiting, Lives
<1>5. RegisteredOnce'
  BY <1>0 DEF Inv, TypeOK, OneRegisters, Registering, RegisteredOnce, Lives
<1> QED BY <1>1, <1>2, <1>3, <1>4, <1>5 DEF Inv

(* It gives the token to the link, or drops it.                            *)
LEMMA LinkToDeathInv == ASSUME Inv, NEW t \in Threads, LinkToDeath(t) PROVE Inv'
<1> USE StatsDelegateAssumption DEF LinkToDeath, powerstats, deaths, clients, Goto
<1>0. t \in Threads
  BY DEF Threads
<1>1. TypeOK'
  <2>1. service[t] \in Lives
    BY DEF Inv, TypeOK, Known, Lives
  <2>2. links' \subseteq Lives /\ notices' \subseteq Lives
    BY <2>1 DEF Inv, TypeOK
  <2>3. pc' \in [Threads -> {"idle", "callApp", "wait", "link", "register", "done"}]
    BY DEF Inv, TypeOK
  <2> QED BY <2>2, <2>3 DEF Inv, TypeOK
<1>2. OneToken'
  BY <1>0 DEF Inv, TypeOK, OneToken, Waiting
<1>3. Known'
  <2>1. \A i \in notices' \cup mourned' : Ended(i)'
    <3>1. service[t] \in 0 .. MaxLives /\ service[t] <= lives /\ lives \in Nat
      BY DEF Inv, TypeOK, Known
    <3>2. ~ (alive /\ service[t] = lives) => Ended(service[t])
      BY <3>1 DEF Ended
    <3> QED BY <3>2 DEF Inv, Known, Ended
  <2>2. \A u \in Threads : pc'[u] = "link" => pc[u] = "link"
    BY DEF Inv, TypeOK
  <2> QED BY <2>1, <2>2 DEF Inv, Known
<1>4. OneRegisters'
  BY <1>0 DEF Inv, TypeOK, OneToken, Known, Ended, OneRegisters, Registering, Waiting, Lives
<1>5. RegisteredOnce'
  BY <1>0 DEF Inv, TypeOK, OneRegisters, Registering, RegisteredOnce, Lives
<1> QED BY <1>1, <1>2, <1>3, <1>4, <1>5 DEF Inv

(* It registers, if the life it found is still on.                         *)
LEMMA RegisterCallbackInv == ASSUME Inv, NEW t \in Threads, RegisterCallback(t) PROVE Inv'
<1>1. /\ pc[t] = "register" /\ pc' = [pc EXCEPT ![t] = pc'[t]] /\ pc'[t] \in {"idle", "done"}
      /\ UNCHANGED <<lives, alive, listed, links, notices, mourned, service, calls, served>>
  BY DEF RegisterCallback, Goto, AfterFailure, deaths, clients, Inv, TypeOK
<1>2. \/ /\ alive /\ service[t] = lives
         /\ registered' = [registered EXCEPT ![lives] = @ + 1]
      \/ UNCHANGED registered /\ ~ (alive /\ service[t] = lives)
  BY DEF RegisterCallback
<1>3. alive => lives \in Lives
  BY StatsDelegateAssumption DEF Inv, TypeOK, Known, Lives
<1>4. pc \in [Threads -> {"idle", "callApp", "wait", "link", "register", "done"}]
  BY DEF Inv, TypeOK
<1>5. /\ pc' \in [Threads -> {"idle", "callApp", "wait", "link", "register", "done"}]
      /\ \A u \in Threads \ {t} : pc'[u] = pc[u]
  BY <1>1, <1>4
<1>6. registered \in [Lives -> Nat] /\ registered' \in [Lives -> Nat]
  BY <1>2, <1>3 DEF Inv, TypeOK
<1>7. TypeOK'
  BY <1>1, <1>5, <1>6 DEF Inv, TypeOK
<1>8. Waiting' = Waiting
  BY <1>1, <1>5 DEF Waiting
<1>9. OneToken'
  BY <1>1, <1>8 DEF Inv, OneToken
<1>10. Known'
  <2>1. \A i \in Lives : i > lives => registered'[i] = 0
    BY <1>2, <1>3, <1>6, StatsDelegateAssumption DEF Inv, TypeOK, Known, Lives
  <2>2. \A u \in Threads : pc'[u] = "link" => pc[u] = "link"
    BY <1>1, <1>5
  <2> QED BY <1>1, <2>1, <2>2 DEF Inv, Known, Ended
<1>11. \A i : Registering(i)' = Registering(i) \ {t}
  BY <1>1, <1>5 DEF Registering
<1>12. CASE alive /\ service[t] = lives
  <2>1. t \in Registering(lives)
    BY <1>1, <1>12 DEF Registering
  <2>2. /\ lives \in links /\ Registering(lives)' = {}
        /\ ~ (registered[lives] > 0)
    BY <1>1, <1>11, <1>12, <2>1 DEF Inv, OneRegisters
  <2>3. OneRegisters'
    BY <1>1, <2>2 DEF OneRegisters
  <2>4. RegisteredOnce'
    <3>1. registered[lives] = 0
      BY <1>3, <1>6, <1>12, <2>2
    <3>2. \A i \in Lives : registered'[i] = IF i = lives THEN 1 ELSE registered[i]
      BY <1>2, <1>6, <1>12, <3>1
    <3> QED BY <3>2 DEF Inv, RegisteredOnce
  <2> QED BY <1>7, <1>9, <1>10, <2>3, <2>4 DEF Inv
<1>13. CASE ~ (alive /\ service[t] = lives)
  <2>1. UNCHANGED registered
    BY <1>2, <1>13
  <2>2. alive => Registering(lives)' = Registering(lives)
    BY <1>1, <1>11, <1>13 DEF Registering
  <2>3. OneRegisters' /\ RegisteredOnce'
    BY <1>1, <2>1, <2>2 DEF Inv, OneRegisters, RegisteredOnce
  <2> QED BY <1>7, <1>9, <1>10, <2>3 DEF Inv
<1> QED BY <1>12, <1>13

LEMMA NextInv == Inv /\ [Next]_vars => Inv'
<1> SUFFICES ASSUME Inv, [Next]_vars PROVE Inv'
  OBVIOUS
<1>1. CASE ServiceStarts \/ ServiceDies \/ ManagerNotices \/ CallArrives
  BY <1>1, ServiceStartsInv, ServiceDiesInv, ManagerNoticesInv, CallArrivesInv
<1>2. CASE PoolTakes
  BY <1>2, TakeCallInv, BinderDiedInv DEF PoolTakes
<1>3. CASE \E t \in Pool : CallReturns(t)
  BY <1>3, CallReturnsInv
<1>4. CASE \E t \in Threads : DelegateSteps(t)
  BY <1>4, CheckServiceInv, LinkToDeathInv, RegisterCallbackInv DEF DelegateSteps
<1>5. CASE UNCHANGED vars
  BY <1>5 DEF vars, powerstats, deaths, clients, Inv, TypeOK, OneToken, Waiting, Known, Ended,
              OneRegisters, Registering, RegisteredOnce
<1> QED BY <1>1, <1>2, <1>3, <1>4, <1>5 DEF Next

(* However often the service dies, and at whatever step of a registration, *)
(* one thread at most waits for it: the pool keeps the others for the HALs.*)
THEOREM OneThreadWaits == Spec => []OneWaits
<1>1. Init => Inv
  BY InitInv
<1>2. Inv /\ [Next]_vars => Inv'
  BY NextInv
<1>3. Inv => OneWaits
  <2> SUFFICES ASSUME Inv PROVE OneWaits
    OBVIOUS
  <2>1. CASE Waiting = {}
    BY <2>1, FS_EmptySet DEF OneWaits
  <2>2. CASE Waiting # {}
    <3>1. PICK t \in Waiting : Waiting = {t}
      BY <2>2, Zenon DEF Inv, OneToken
    <3>2. Cardinality({t}) = 1
      BY FS_Singleton
    <3> QED BY <3>1, <3>2 DEF OneWaits
  <2> QED BY <2>1, <2>2
<1> QED BY <1>1, <1>2, <1>3, PTL DEF Spec

(* Nor is a life of the service given the callback twice, also when its    *)
(* predecessor is looked up after its end, or an end is told late.         *)
THEOREM CallbackRegisteredOnce == Spec => []RegisteredOnce
<1>1. Init => Inv
  BY InitInv
<1>2. Inv /\ [Next]_vars => Inv'
  BY NextInv
<1>3. Inv => RegisteredOnce
  BY DEF Inv
<1> QED BY <1>1, <1>2, <1>3, PTL DEF Spec
=============================================================================
