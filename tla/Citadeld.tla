------------------------------ MODULE Citadeld ------------------------------
(***************************************************************************)
(* citadeld (citadel/citadeld/main.cpp), the daemon through which every    *)
(* HAL reaches the Citadel chip: the threads of CitadelProxy and its       *)
(* mutexes.                                                                *)
(*                                                                         *)
(*  - binder threads serve callApp, reset, getCachedStats and onGetStats;  *)
(*  - the event thread fetches the chip's event records on its interrupt;  *)
(*  - the waiter thread of the DeferredCallback refreshes the cached       *)
(*    low-power stats some time after the last callApp;                    *)
(*  - the main thread constructs the proxy, which starts the last two.     *)
(*                                                                         *)
(* A step is what a thread does between two points where it can block or   *)
(* where another thread can tell the difference.  The chip is external.    *)
(***************************************************************************)
EXTENDS Integers, Sequences, FiniteSets

CONSTANTS
  Binders,          \* threads of the binder thread pool
  Event, Waiter,    \* the two threads the proxy starts
  None,             \* no thread
  MaxAppId,         \* kMaxAppId (255 in the code)
  MaxCalls,         \* bound: calls the clients make
  MaxEvents,        \* bound: event records the chip ever has
  MaxFaults,        \* bound: failed chip calls and spurious wakeups
  RacyStart         \* whether the two threads can run before the constructor
                    \* that starts them has returned

ASSUME CitadeldAssumption ==
  /\ IsFiniteSet(Binders)
  /\ Event # Waiter
  /\ {Event, Waiter} \cap Binders = {}
  /\ None \notin Binders \cup {Event, Waiter}
  /\ {MaxAppId, MaxCalls, MaxEvents, MaxFaults} \subseteq Nat
  /\ RacyStart \in BOOLEAN

Threads == Binders \cup {Event, Waiter}
Apps    == 0 .. MaxAppId
Nugget  == 0   \* APP_ID_NUGGET

VARIABLES
  main,        \* where the main thread is
  pc,          \* where each other thread is
  app,         \* appId of a thread's lockedCallApp
  appLocks,    \* _appLocks: owner of each app's mutex
  cvMutex,     \* _cv_mutex: owner
  statsMutex,  \* _stats_mutex: owner
  armed,       \* _armed
  listed,      \* whether _cv knows that the waiter waits on it
  stats,       \* _stats, in two parts: the collection each part comes from
  buffer,      \* the parts that cacheStats's buffer brought from the chip
  copy,        \* the part of _stats each binder thread has copied so far
  events,      \* external: event records the chip holds, its interrupt line
  raised,      \* history: event records the chip has had
  calls,       \* history: calls clients made
  scheduled,   \* history: calls of schedule()
  runs,        \* history: calls of cacheStats()
  wakes,       \* history: spurious wakeups that start a delay
  faults       \* history: faults so far

clientVars == <<copy, calls>>
timerVars  == <<armed, listed, scheduled, runs, wakes>>
chipVars   == <<events, raised>>
vars == <<main, pc, app, appLocks, cvMutex, statsMutex, stats, buffer, faults,
          clientVars, timerVars, chipVars>>

(* A part of _stats holds the number of the collection it is from, or      *)
(* whatever was in the memory.                                             *)
Uninitialized == 0

Init ==
  /\ main = "construct appLocks"
  /\ pc = [t \in Threads |-> IF t = Event  THEN "wait_for_interrupt"
                           ELSE IF t = Waiter THEN "start" ELSE "idle"]
  /\ app = [t \in Threads |-> Nugget]
  /\ appLocks = [a \in Apps |-> None]
  /\ cvMutex = None
  /\ statsMutex = None
  /\ armed = FALSE
  /\ listed = FALSE
  /\ stats = [part \in 1 .. 2 |-> Uninitialized]
  /\ buffer = {}
  /\ copy = [b \in Binders |-> << >>]
  /\ events = 0
  /\ raised = 0
  /\ calls = 0
  /\ scheduled = 0
  /\ runs = 0
  /\ wakes = 0
  /\ faults = 0

Fault == faults < MaxFaults /\ faults' = faults + 1

(* A thread the constructor started runs when it returned, or, if the      *)
(* start is racy, as soon as it exists: the event thread before _appLocks, *)
(* the waiter before _cv_mutex and _cv are constructed.  Until then their  *)
(* memory is taken to be zeroes, which is an unlocked mutex.               *)
Runs(t) ==
  \/ main = "serving"
  \/ RacyStart /\ t = Event
  \/ RacyStart /\ t = Waiter /\ main # "construct appLocks"

Goto(t, label) == pc' = [pc EXCEPT ![t] = label]
-----------------------------------------------------------------------------
(* main(): the constructor of CitadelProxy, member by member *)

ConstructAppLocks ==
  /\ main = "construct appLocks"
  /\ main' = "construct cv"
  /\ appLocks' = [a \in Apps |-> None]
  /\ UNCHANGED <<pc, app, cvMutex, statsMutex, stats, buffer, faults,
                 clientVars, timerVars, chipVars>>

(* Constructing _cv forgets a waiter that is already there. *)
ConstructCv ==
  /\ main = "construct cv"
  /\ main' = "construct statsMutex"
  /\ cvMutex' = None
  /\ listed' = FALSE
  /\ UNCHANGED <<pc, app, appLocks, statsMutex, stats, buffer, faults, armed, scheduled,
                 runs, wakes, clientVars, chipVars>>

ConstructStatsMutex ==
  /\ main = "construct statsMutex"
  /\ main' = "add service"
  /\ statsMutex' = None
  /\ UNCHANGED <<pc, app, appLocks, cvMutex, stats, buffer, faults,
                 clientVars, timerVars, chipVars>>

AddService ==
  /\ main = "add service"
  /\ main' = "serving"
  /\ UNCHANGED <<pc, app, appLocks, cvMutex, statsMutex, stats, buffer, faults,
                 clientVars, timerVars, chipVars>>
-----------------------------------------------------------------------------
(* lockedCallApp(), by any thread *)

(* Mutant: the call is made without the app's lock. *)
LockAppAlways(t) ==
  /\ pc[t] = "lock app"
  /\ Goto(t, "CallApp")
  /\ UNCHANGED <<main, app, appLocks, cvMutex, statsMutex, stats, buffer, faults,
                 clientVars, timerVars, chipVars>>

LockApp(t) ==
  /\ pc[t] = "lock app"
  /\ appLocks[app[t]] = None
  /\ appLocks' = [appLocks EXCEPT ![app[t]] = t]
  /\ Goto(t, "CallApp")
  /\ UNCHANGED <<main, app, cvMutex, statsMutex, stats, buffer, faults,
                 clientVars, timerVars, chipVars>>

(* Mutant: a path that returns with the lock still held. *)
CallAppEndsLocked(t) ==
  /\ pc[t] = "CallApp"
  /\ UNCHANGED appLocks

(* The chip call ends, the lock goes. *)
CallAppEnds(t) ==
  /\ pc[t] = "CallApp"
  /\ appLocks' = [appLocks EXCEPT ![app[t]] = None]
-----------------------------------------------------------------------------
(* Binder threads *)

(* A client's call arrives. *)
Serve(b) ==
  /\ main = "serving"
  /\ pc[b] = "idle"
  /\ calls < MaxCalls
  /\ calls' = calls + 1

(* Mutant: an appId is compared with the number of locks. *)
AppIdUpToSize(appId) == appId \in 0 .. MaxAppId + 1

AppIdInRange(appId) == appId >= 0 /\ appId <= MaxAppId

(* callApp with an appId or an argument that is out of range returns       *)
(* EX_ILLEGAL_ARGUMENT; otherwise the appId is an index of _appLocks.      *)
CallApp(b, appId, argInRange) ==
  /\ Serve(b)
  /\ IF ~ AppIdInRange(appId) \/ ~ argInRange
     THEN UNCHANGED <<pc, app>>
     ELSE /\ app' = [app EXCEPT ![b] = appId]
          /\ Goto(b, "lock app")
  /\ UNCHANGED <<main, appLocks, cvMutex, statsMutex, stats, buffer, faults, copy,
                 timerVars, chipVars>>

(* Whatever the status: it goes to the client, and schedule() is next. *)
BinderCallAppReturns(b) ==
  /\ CallAppEnds(b)
  /\ Goto(b, "schedule")
  /\ UNCHANGED <<main, app, cvMutex, statsMutex, stats, buffer, faults,
                 clientVars, timerVars, chipVars>>

(* Mutant: schedule() does not take _cv_mutex. *)
ScheduleNow == TRUE

ScheduleMay == cvMutex = None

(* notify_one wakes the waiter, if it waits and _cv knows. *)
Notify ==
  IF listed /\ pc[Waiter] = "wait"       THEN "notified"  ELSE
  IF listed /\ pc[Waiter] = "wait_until" THEN "restarted" ELSE pc[Waiter]

(* schedule(): it takes and leaves _cv_mutex; then callApp returns. *)
Schedule(b) ==
  /\ pc[b] = "schedule"
  /\ ScheduleMay
  /\ armed' = TRUE
  /\ pc' = [pc EXCEPT ![b] = "idle", ![Waiter] = Notify]
  /\ scheduled' = scheduled + 1
  /\ UNCHANGED <<main, app, appLocks, cvMutex, statsMutex, stats, buffer, faults,
                 listed, runs, wakes, clientVars, chipVars>>

(* reset() takes no lock.  External: the chip may lose its event records.  *)
Reset(b) ==
  /\ Serve(b)
  /\ events' \in {0, events}
  /\ UNCHANGED <<main, pc, app, appLocks, cvMutex, statsMutex, stats, buffer, faults,
                 copy, raised, timerVars>>

(* getCachedStats and onGetStats: _stats is read under _stats_mutex. *)
GetStats(b) ==
  /\ Serve(b)
  /\ Goto(b, "lock stats")
  /\ copy' = [copy EXCEPT ![b] = << >>]
  /\ UNCHANGED <<main, app, appLocks, cvMutex, statsMutex, stats, buffer, faults,
                 timerVars, chipVars>>

(* Mutant: _stats is read without _stats_mutex. *)
LockStatsAlways(t) ==
  /\ pc[t] = "lock stats"
  /\ Goto(t, "copy stats")
  /\ UNCHANGED <<main, app, appLocks, cvMutex, statsMutex, stats, buffer, faults,
                 clientVars, timerVars, chipVars>>

LockStats(t) ==
  /\ pc[t] = "lock stats"
  /\ statsMutex = None
  /\ statsMutex' = t
  /\ Goto(t, "copy stats")
  /\ UNCHANGED <<main, app, appLocks, cvMutex, stats, buffer, faults,
                 clientVars, timerVars, chipVars>>

(* One part, then the other with the lock given back. *)
CopyStats(b) ==
  /\ \/ /\ pc[b] = "copy stats"
        /\ copy' = [copy EXCEPT ![b] = <<stats[1]>>]
        /\ Goto(b, "copy rest")
        /\ UNCHANGED statsMutex
     \/ /\ pc[b] = "copy rest"
        /\ copy' = [copy EXCEPT ![b] = Append(@, stats[2])]
        /\ Goto(b, "idle")
        /\ statsMutex' = None
  /\ UNCHANGED <<main, app, appLocks, cvMutex, stats, buffer, faults, calls,
                 timerVars, chipVars>>
-----------------------------------------------------------------------------
(* dispatchEvents(), the event thread *)

WaitForInterrupt ==
  /\ Runs(Event)
  /\ pc[Event] = "wait_for_interrupt"
  /\ events > 0
  /\ Goto(Event, "lock app")
  /\ UNCHANGED <<main, app, appLocks, cvMutex, statsMutex, stats, buffer, faults,
                 clientVars, timerVars, chipVars>>

(* A record: fetch the next.  None, or an error: sleep(1).  External: a    *)
(* fetch removes the record, even if the reply is lost.                    *)
EventCallAppReturns ==
  /\ CallAppEnds(Event)
  /\ \/ /\ events > 0
        /\ events' = events - 1
        /\ Goto(Event, "lock app")
        /\ UNCHANGED faults
     \/ /\ events = 0
        /\ Goto(Event, "sleep")
        /\ UNCHANGED <<events, faults>>
     \/ /\ Fault
        /\ events' \in {events, events - 1} \cap Nat
        /\ Goto(Event, "sleep")
  /\ UNCHANGED <<main, app, cvMutex, statsMutex, stats, buffer, raised,
                 clientVars, timerVars>>

SleepEnds ==
  /\ pc[Event] = "sleep"
  /\ Goto(Event, "wait_for_interrupt")
  /\ UNCHANGED <<main, app, appLocks, cvMutex, statsMutex, stats, buffer, faults,
                 clientVars, timerVars, chipVars>>

(* External: the chip has an event record and asserts its interrupt. *)
RaiseEvent ==
  /\ raised < MaxEvents
  /\ raised' = raised + 1
  /\ events' = events + 1
  /\ UNCHANGED <<main, pc, app, appLocks, cvMutex, statsMutex, stats, buffer, faults,
                 clientVars, timerVars>>
-----------------------------------------------------------------------------
(* waiter_task(), the thread of the DeferredCallback *)

(* The head of the loop, reached with _cv_mutex: wait on _cv for a         *)
(* schedule(), or, armed, for the delay.  Either gives _cv_mutex back.     *)
WaiterLoops(isArmed) ==
  /\ cvMutex' = None
  /\ listed' = TRUE
  /\ Goto(Waiter, IF isArmed THEN "wait_until" ELSE "wait")

WaiterStarts ==
  /\ Runs(Waiter)
  /\ pc[Waiter] = "start"
  /\ cvMutex = None
  /\ WaiterLoops(armed)
  /\ UNCHANGED <<main, app, appLocks, statsMutex, stats, buffer, faults, armed, scheduled,
                 runs, wakes, clientVars, chipVars>>

(* Neither kind of waiting is in a loop that tests why it ended: woken     *)
(* from the first, the waiter waits for the delay, and calls the function, *)
(* though nobody called schedule().                                        *)
WakeSpuriously ==
  /\ Fault
  /\ \/ /\ pc[Waiter] = "wait"
        /\ Goto(Waiter, "notified")
        /\ wakes' = wakes + 1
     \/ /\ pc[Waiter] = "wait_until"
        /\ Goto(Waiter, "restarted")
        /\ UNCHANGED wakes
  /\ UNCHANGED <<main, app, appLocks, cvMutex, statsMutex, stats, buffer, armed, listed,
                 scheduled, runs, clientVars, chipVars>>

(* wait() returned: now wait for the delay, whatever _armed says. *)
StartDelay ==
  /\ pc[Waiter] = "notified"
  /\ cvMutex = None
  /\ Goto(Waiter, "wait_until")
  /\ UNCHANGED <<main, app, appLocks, cvMutex, statsMutex, stats, buffer, faults,
                 clientVars, timerVars, chipVars>>

(* wait_until() returned before the delay was over. *)
RestartDelay ==
  /\ pc[Waiter] = "restarted"
  /\ cvMutex = None
  /\ WaiterLoops(armed)
  /\ UNCHANGED <<main, app, appLocks, statsMutex, stats, buffer, faults, armed, scheduled,
                 runs, wakes, clientVars, chipVars>>

(* The delay is over.  It counts even if a notification came first: what   *)
(* wait_until() returns is decided by the clock when it has the mutex.     *)
DelayEnds ==
  /\ pc[Waiter] \in {"wait_until", "restarted"}
  /\ Goto(Waiter, "timeout")
  /\ UNCHANGED <<main, app, appLocks, cvMutex, statsMutex, stats, buffer, faults,
                 clientVars, timerVars, chipVars>>

(* wait_until() returned timeout: call _func, cacheStats(), with _cv_mutex *)
(* held.  Its first step is lockedCallApp(APP_ID_NUGGET, ...).             *)
CallFunc ==
  /\ pc[Waiter] = "timeout"
  /\ cvMutex = None
  /\ cvMutex' = Waiter
  /\ runs' = runs + 1
  /\ Goto(Waiter, "lock app")
  /\ UNCHANGED <<main, app, appLocks, statsMutex, stats, buffer, faults, armed, listed,
                 scheduled, wakes, clientVars, chipVars>>

(* External: a successful reply brings both parts, or is cut short. *)
WaiterCallAppReturns ==
  /\ CallAppEnds(Waiter)
  /\ \/ /\ Goto(Waiter, "lock stats")
        /\ buffer' \in {{}, {1}, {1, 2}}
        /\ UNCHANGED faults
     \/ /\ Fault
        /\ Goto(Waiter, "func returns")
        /\ UNCHANGED buffer
  /\ UNCHANGED <<main, app, cvMutex, statsMutex, stats,
                 clientVars, timerVars, chipVars>>

(* memcpy into _stats of no more than there is in the buffer: one part,    *)
(* then the other with the lock given back and the buffer's end.           *)
StorePart(part) ==
  stats' = IF part \in buffer THEN [stats EXCEPT ![part] = runs] ELSE stats

StoreStats ==
  /\ \/ /\ pc[Waiter] = "copy stats"
        /\ StorePart(1)
        /\ Goto(Waiter, "copy rest")
        /\ UNCHANGED <<statsMutex, buffer>>
     \/ /\ pc[Waiter] = "copy rest"
        /\ StorePart(2)
        /\ Goto(Waiter, "func returns")
        /\ statsMutex' = None
        /\ buffer' = {}
  /\ UNCHANGED <<main, app, appLocks, cvMutex, faults,
                 clientVars, timerVars, chipVars>>

(* Mutant: _armed is not reset. *)
StaysArmed == armed

Disarmed == FALSE

(* Mutant: the thread goes back to waiting without giving _cv_mutex back. *)
FuncReturnsHolding ==
  /\ pc[Waiter] = "func returns"
  /\ armed' = FALSE
  /\ listed' = TRUE
  /\ Goto(Waiter, "wait")
  /\ UNCHANGED <<main, app, appLocks, cvMutex, statsMutex, stats, buffer, faults, scheduled,
                 runs, wakes, clientVars, chipVars>>

FuncReturns ==
  /\ pc[Waiter] = "func returns"
  /\ armed' = Disarmed
  /\ WaiterLoops(Disarmed)
  /\ UNCHANGED <<main, app, appLocks, statsMutex, stats, buffer, faults, scheduled,
                 runs, wakes, clientVars, chipVars>>
-----------------------------------------------------------------------------
MainSteps == ConstructAppLocks \/ ConstructCv \/ ConstructStatsMutex \/ AddService

ClientSteps(b) ==
  \/ \E appId \in -1 .. MaxAppId + 1, argInRange \in BOOLEAN :
       CallApp(b, appId, argInRange)
  \/ Reset(b)
  \/ GetStats(b)

BinderSteps(b) ==
  \/ LockApp(b)
  \/ BinderCallAppReturns(b)
  \/ Schedule(b)
  \/ LockStats(b)
  \/ CopyStats(b)

EventSteps == WaitForInterrupt \/ LockApp(Event) \/ EventCallAppReturns \/ SleepEnds

WaiterSteps ==
  \/ WaiterStarts
  \/ StartDelay
  \/ RestartDelay
  \/ DelayEnds
  \/ CallFunc
  \/ LockApp(Waiter)
  \/ WaiterCallAppReturns
  \/ LockStats(Waiter)
  \/ StoreStats
  \/ FuncReturns

Next ==
  \/ MainSteps
  \/ \E b \in Binders : ClientSteps(b) \/ BinderSteps(b)
  \/ EventSteps
  \/ WaiterSteps
  \/ RaiseEvent
  \/ WakeSpuriously

Spec == Init /\ [][Next]_vars

(* The kernel runs every thread, a chip call returns (the driver's         *)
(* transfer is bounded), a timed wait ends, and a mutex that is free goes  *)
(* to somebody.  Clients and the chip's events owe nobody anything.        *)
FairSpec ==
  /\ Spec
  /\ WF_vars(MainSteps)
  /\ \A b \in Binders : WF_vars(BinderSteps(b))
  /\ WF_vars(EventSteps)
  /\ WF_vars(WaiterSteps)
-----------------------------------------------------------------------------
CallLabels   == {"lock app", "CallApp"}
StatsLabels  == {"lock stats", "copy stats", "copy rest"}
BinderLabels == {"idle", "schedule"} \cup CallLabels \cup StatsLabels
EventLabels  == {"wait_for_interrupt", "sleep"} \cup CallLabels
DelayLabels  == {"notified", "wait_until", "restarted", "timeout"}
FuncLabels   == CallLabels \cup StatsLabels \cup {"func returns"}
WaiterLabels == {"start", "wait"} \cup DelayLabels \cup FuncLabels

PcOK ==
  /\ pc \in [Threads -> BinderLabels \cup EventLabels \cup WaiterLabels]
  /\ \A b \in Binders : pc[b] \in BinderLabels
  /\ pc[Event] \in EventLabels
  /\ pc[Waiter] \in WaiterLabels

MutexOK ==
  /\ app \in [Threads -> Apps]
  /\ appLocks \in [Apps -> Threads \cup {None}]
  /\ cvMutex \in Threads \cup {None}
  /\ statsMutex \in Threads \cup {None}

FlagsOK ==
  /\ main \in {"construct appLocks", "construct cv", "construct statsMutex",
               "add service", "serving"}
  /\ armed \in BOOLEAN
  /\ listed \in BOOLEAN

StatsOK ==
  /\ stats \in [1 .. 2 -> Nat]
  /\ buffer \in SUBSET (1 .. 2)
  /\ copy \in [Binders -> Seq(Nat)]

CountersOK ==
  /\ events \in Nat /\ raised \in Nat /\ calls \in Nat
  /\ scheduled \in Nat /\ runs \in Nat /\ wakes \in Nat /\ faults \in Nat

(* Type correctness of the model: in particular, the appId of every call   *)
(* that is made is an index of _appLocks.                                  *)
TypeOK == PcOK /\ MutexOK /\ FlagsOK /\ StatsOK /\ CountersOK

(* The waiter is in cacheStats(), or about to return from it. *)
InFunc == pc[Waiter] \in FuncLabels

(* Who holds which mutex, read off the threads' positions: what mutual     *)
(* exclusion rests on.                                                     *)
StartInv ==
  main # "serving" =>
    /\ \A b \in Binders : pc[b] = "idle"
    /\ pc[Event] = "wait_for_interrupt"
    /\ pc[Waiter] = "start"

AppLockInv ==
  /\ \A t \in Threads : pc[t] = "CallApp" => appLocks[app[t]] = t
  /\ \A a \in Apps : appLocks[a] # None => /\ pc[appLocks[a]] = "CallApp"
                                           /\ app[appLocks[a]] = a

StatsLockInv ==
  \A t \in Threads : pc[t] \in {"copy stats", "copy rest"} <=> statsMutex = t

CvInv == cvMutex = IF InFunc THEN Waiter ELSE None

LockInv == StartInv /\ AppLockInv /\ StatsLockInv /\ CvInv

(* How far the copies out of _stats have got. *)
CopyInv ==
  \A b \in Binders : pc[b] = "copy rest" => copy[b] = <<stats[1]>>

(* The waiter waits without a delay only when not armed, and so that it    *)
(* hears of the next schedule().                                           *)
WaitInv == pc[Waiter] = "wait" => listed /\ ~ armed

(* "Make the call to the app while holding the lock for that app"          *)
(* (main.cpp:279): binder, event and waiter thread never have two calls to *)
(* the same app at the same time, whose datagrams would mix on the chip.   *)
AppCallsExclusive ==
  \A s, t \in Threads :
    (s # t /\ pc[s] = "CallApp" /\ pc[t] = "CallApp") => app[s] # app[t]

(* What a client or the powerstats service gets is _stats as it is at the  *)
(* moment its call gives the lock back, and no collection is half stored   *)
(* then (getCachedStats and onGetStats against cacheStats).  The parts can *)
(* be of two collections only because a short reply replaced the front of  *)
(* _stats (main.cpp:296), never because they were read around a store.     *)
SnapshotWhole ==
  [][\A b \in Binders :
       pc[b] = "copy rest" /\ pc'[b] = "idle" =>
         copy'[b] = <<stats[1], stats[2]>> /\ pc[Waiter] # "copy rest"]_vars

(* Nobody waits for a mutex while holding one, but for the waiter, which   *)
(* calls cacheStats() with _cv_mutex held: so no circle of waiting threads *)
(* (schedule(), lockedCallApp(), cacheStats()).                            *)
LockOrder ==
  \A t \in Threads :
    pc[t] \in {"lock app", "lock stats", "schedule", "start", "notified",
              "restarted", "timeout"}
    => /\ \A a \in Apps : appLocks[a] # t
       /\ statsMutex # t
       /\ cvMutex = t => InFunc /\ t = Waiter

(* Every call returns to its client, although schedule() can wait for the  *)
(* waiter, which can wait for a client's or the event thread's call.       *)
CallsReturn ==
  \A b \in Binders : (pc[b] # "idle") ~> (pc[b] = "idle")

(* Every event record is fetched in the end, failed fetches or not         *)
(* (dispatchEvents).                                                       *)
EventsFetched == (events > 0) ~> (events = 0)

(* schedule() was called and the function has not started since. *)
Pending == armed /\ ~ InFunc

(* The delay that runs was started by nothing but a spurious wakeup. *)
Woken == ~ armed /\ pc[Waiter] \in DelayLabels

Timer == INSTANCE DeferredTimer WITH pending <- Pending, woken <- Woken

(* The DeferredCallback does what its comment promises (main.cpp:67-71):   *)
(* one call for any number of schedules before it, none without (but for   *)
(* the spurious wakeups), and none is forgotten, not even a schedule()     *)
(* that arrives while the function runs.                                   *)
ImplementsTimer == Timer!FairSpec

(* "Call .schedule() to start the timer, and the function will be called   *)
(* (once) after the time has elapsed" (main.cpp:67): the function is never *)
(* called more often than scheduled, plus once for each wakeup that nobody *)
(* caused.                                                                 *)
RunsAreScheduled == runs <= scheduled + wakes
=============================================================================
