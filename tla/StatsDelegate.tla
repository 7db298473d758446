---------------------------- MODULE StatsDelegate ----------------------------
(***************************************************************************)
(* citadeld's StatsDelegate (citadel/citadeld/main.cpp:111): it gives the  *)
(* powerstats service a callback to fetch the stats with, and gives it     *)
(* again when the service died and came back.  The first time is done by a *)
(* thread of its own, later ones by the thread of the binder pool that is  *)
(* told of the death, which waits there for the service's return while the *)
(* other pool threads serve the HALs' callApp.                             *)
(*                                                                         *)
(* The service, the service manager and death notices are external.  Each  *)
(* life of the service has a number.                                       *)
(***************************************************************************)
EXTENDS Naturals, FiniteSets

CONSTANTS
  Pool,         \* the threads that serve binder requests
  Async,        \* the thread of std::async
  MaxLives,     \* bound: how often the service starts
  MaxCalls      \* bound: callApps of the HALs

ASSUME StatsDelegateAssumption ==
  /\ IsFiniteSet(Pool) /\ Async \notin Pool
  /\ MaxLives \in Nat /\ MaxCalls \in Nat

VARIABLES
  lives,       \* external: lives of the service so far, the last one maybe on
  alive,       \* external: whether the last one is on
  staleLookup, \* external: a dead service may still be looked up for a while
  listed,      \* external: the life the service manager gives out, or 0
  links,       \* external: lives whose end we are to be told of
  notices,     \* external: ends that we are to be told of and have not been
  mourned,     \* external: lives whose proxy in this process knows of its end
  registered,  \* external: [life -> how often our callback was registered]
  pc,          \* where each thread is
  service,     \* the life each thread got from WaitForPowerStatsService
  calls,       \* external: callApps that arrived
  served       \* external: callApps that a thread has taken

powerstats == <<lives, alive, staleLookup, listed, registered>>
deaths == <<links, notices, mourned>>
clients == <<calls, served>>
vars == <<powerstats, deaths, clients, pc, service>>

Threads == Pool \cup {Async}
Lives == 1 .. MaxLives

Init ==
  /\ lives = 0 /\ alive = FALSE /\ staleLookup \in BOOLEAN /\ listed = 0
  /\ links = {} /\ notices = {} /\ mourned = {}
  /\ registered = [i \in Lives |-> 0]
  /\ pc = [t \in Threads |-> IF t = Async THEN "wait" ELSE "idle"]
  /\ service = [t \in Threads |-> 0]
  /\ calls = 0 /\ served = 0

Goto(t, label) == pc' = [pc EXCEPT ![t] = label]
-----------------------------------------------------------------------------
ServiceStarts ==
  /\ ~ alive /\ lives < MaxLives
  /\ lives' = lives + 1 /\ alive' = TRUE /\ listed' = lives + 1
  /\ UNCHANGED <<staleLookup, registered, deaths, clients, pc, service>>

ServiceDies ==
  /\ alive
  /\ alive' = FALSE
  /\ listed' = IF staleLookup THEN listed ELSE 0
  /\ notices' = notices \cup (links \cap {lives})
  /\ UNCHANGED <<lives, staleLookup, registered, links, mourned, clients, pc, service>>

ManagerNotices ==
  /\ ~ alive /\ listed # 0
  /\ listed' = 0
  /\ UNCHANGED <<lives, alive, staleLookup, registered, deaths, clients, pc, service>>

CallArrives ==
  /\ calls < MaxCalls
  /\ calls' = calls + 1
  /\ UNCHANGED <<powerstats, deaths, served, pc, service>>

(* A pool thread takes a callApp; what it does is in Citadeld. *)
TakeCall(t) ==
  /\ pc[t] = "idle"
  /\ served < calls
  /\ served' = served + 1
  /\ Goto(t, "callApp")
  /\ UNCHANGED <<powerstats, deaths, calls, service>>

CallReturns(t) ==
  /\ pc[t] = "callApp"
  /\ Goto(t, "idle")
  /\ UNCHANGED <<powerstats, deaths, clients, service>>
-----------------------------------------------------------------------------
(* binderDied: unlink, then wait for the service. *)
BinderDied(t) ==
  /\ pc[t] = "idle"
  /\ \E i \in notices :
       /\ notices' = notices \ {i}
       /\ mourned' = mourned \cup {i}
       /\ links' = links \ {i}
  /\ Goto(t, "wait")
  /\ UNCHANGED <<powerstats, clients, service>>

(* WaitForPowerStatsService: one checkService that finds something. *)
CheckService(t) ==
  /\ pc[t] = "wait"
  /\ listed # 0
  /\ service' = [service EXCEPT ![t] = listed]
  /\ Goto(t, "link")
  /\ UNCHANGED <<powerstats, deaths, clients>>

(* Mutant: a delegate that has registered once does not link again. *)
LinkToDeathOnce(t) ==
  /\ pc[t] = "link"
  /\ links' = IF t = Async THEN links \cup {service[t]} ELSE links
  /\ notices' = IF t = Async /\ (~ alive \/ service[t] # lives)
                THEN notices \cup {service[t]} ELSE notices
  /\ Goto(t, "register")
  /\ UNCHANGED <<powerstats, mourned, clients, service>>

(* linkToDeath: refused by a proxy that knows it is dead, which is logged; *)
(* of an end that has come already we are told at once.                    *)
LinkToDeath(t) ==
  /\ pc[t] = "link"
  /\ IF service[t] \in mourned
     THEN UNCHANGED <<links, notices>>
     ELSE /\ links' = links \cup {service[t]}
          /\ notices' = IF alive /\ service[t] = lives
                        THEN notices ELSE notices \cup {service[t]}
  /\ Goto(t, "register")
  /\ UNCHANGED <<powerstats, mourned, clients, service>>

(* Mutant: after a failure, wait for the service again. *)
AfterFailureRetry == "wait"

(* After a failure, just return: Async's work is done, others are free.    *)
AfterFailure == "idle"

(* registerCallback *)
RegisterCallback(t) ==
  /\ pc[t] = "register"
  /\ \/ /\ alive /\ service[t] = lives
        /\ registered' = [registered EXCEPT ![lives] = @ + 1]
        /\ Goto(t, IF t = Async THEN "done" ELSE "idle")
     \/ /\ ~ alive \/ service[t] # lives
        /\ Goto(t, IF t = Async /\ AfterFailure = "idle" THEN "done" ELSE AfterFailure)
        /\ UNCHANGED registered
  /\ UNCHANGED <<lives, alive, staleLookup, listed, deaths, clients, service>>
-----------------------------------------------------------------------------
DelegateSteps(t) == CheckService(t) \/ LinkToDeath(t) \/ RegisterCallback(t)

(* The kernel hands work to some idle thread of the pool. *)
PoolTakes == \E t \in Pool : TakeCall(t) \/ BinderDied(t)

Next ==
  \/ ServiceStarts \/ ServiceDies \/ ManagerNotices \/ CallArrives
  \/ PoolTakes
  \/ \E t \in Pool : CallReturns(t)
  \/ \E t \in Threads : DelegateSteps(t)

Spec == Init /\ [][Next]_vars

(* Work is handed out and threads run: chip and binder calls return.  The  *)
(* service owes nobody a restart.                                          *)
FairSpec ==
  /\ Spec
  /\ WF_vars(PoolTakes)
  /\ \A t \in Pool : WF_vars(CallReturns(t))
  /\ \A t \in Threads : WF_vars(DelegateSteps(t))
-----------------------------------------------------------------------------
TypeOK ==
  /\ lives \in 0 .. MaxLives /\ alive \in BOOLEAN /\ listed \in 0 .. MaxLives
  /\ links \subseteq Lives /\ notices \subseteq Lives /\ mourned \subseteq Lives
  /\ registered \in [Lives -> Nat]
  /\ pc \in [Threads -> {"idle", "callApp", "wait", "link", "register", "done"}]
  /\ service \in [Threads -> 0 .. MaxLives]
  /\ served \in 0 .. calls /\ calls \in 0 .. MaxCalls

Waiting == {t \in Threads : pc[t] \in {"wait", "link"}}

(* The pool never has more than one thread waiting for the service, however*)
(* often it dies while it is being registered with (binderDied).           *)
OneWaits == Cardinality(Waiting) <= 1

(* No life of the service is given the callback twice. *)
RegisteredOnce == \A i \in Lives : registered[i] <= 1

(* A service that stays is given the callback, however often it died       *)
(* before and at whatever step of a registration, if the service manager   *)
(* forgets a dead service at once.                                         *)
ServiceGetsCallback ==
  \A i \in Lives : (alive /\ lives = i /\ ~ staleLookup)
                     ~> (registered[i] > 0 \/ ~ (alive /\ lives = i))

(* "Failures here must not block or delay AP/Citadel communication"        *)
(* (main.cpp:113): callApps are served with the service gone for good.     *)
CallsServed == calls > served ~> calls = served
=============================================================================
