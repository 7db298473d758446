-------------------------- MODULE Citadeld_proofs --------------------------
(***************************************************************************)
(* Theorems about Citadeld, for any number of binder threads, apps, calls, *)
(* events and faults.  They assume that the threads the proxy starts do    *)
(* not run before its mutexes are constructed (RacyStart = FALSE): without *)
(* that, mutual exclusion is lost, as the run citadeld_racylock shows.     *)
(*                                                                         *)
(* Inv says where a thread is when it owns a mutex (LockInv) and what is   *)
(* in the copies of _stats while they are made (CopyInv).  One lemma per   *)
(* action shows that the action preserves it.                              *)
(***************************************************************************)
EXTENDS Citadeld, SequenceTheorems, TLAPS

Inv == TypeOK /\ LockInv /\ CopyInv

LEMMA ThreadsDistinct ==
  /\ Event \in Threads /\ Waiter \in Threads /\ Event # Waiter /\ None \notin Threads
  /\ \A b \in Binders : b \in Threads /\ b # Event /\ b # Waiter
  /\ \A t \in Threads : t \in Binders \/ t = Event \/ t = Waiter
BY CitadeldAssumption DEF Threads

LEMMA Constants == MaxAppId \in Nat /\ RacyStart \in BOOLEAN /\ Nugget \in Apps
BY CitadeldAssumption DEF Nugget, Apps

LEMMA EmptySeqOfNats == << >> \in Seq(Nat) /\ Len(<< >>) = 0
OBVIOUS

LEMMA OneElement ==
  ASSUME NEW n \in Nat
  PROVE  <<n>> \in Seq(Nat)
OBVIOUS

LEMMA OneMore ==
  ASSUME NEW a \in Nat, NEW b \in Nat
  PROVE  Append(<<a>>, b) = <<a, b>>
<1>1. <<a>> \in Seq(Nat) /\ <<a, b>> \in Seq(Nat) /\ Len(<<a>>) = 1 /\ Len(<<a, b>>) = 2
  OBVIOUS
<1>2. <<a>>[1] = a /\ <<a, b>>[1] = a /\ <<a, b>>[2] = b
  OBVIOUS
<1> DEFINE s == <<a>>
           t == <<a, b>>
<1> HIDE DEF s, t
<1>3. Append(s, b) \in Seq(Nat) /\ Len(Append(s, b)) = 2
  BY <1>1 DEF s
<1>4. Append(s, b)[1] = a /\ Append(s, b)[2] = b
  BY <1>1, <1>2 DEF s
<1>5. t[1] = a /\ t[2] = b
  BY <1>2 DEF t
<1>6. ASSUME NEW i \in 1 .. 2 PROVE Append(s, b)[i] = t[i]
  <2>1. i = 1 \/ i = 2
    OBVIOUS
  <2> QED BY ONLY <1>4, <1>5, <2>1
<1> QED BY <1>1, <1>3, <1>6, SeqEqual DEF s, t

LEMMA Moves ==
  ASSUME PcOK, NEW t \in Threads, NEW label, Goto(t, label),
         t \in Binders => label \in BinderLabels,
         t = Event => label \in EventLabels,
         t = Waiter => label \in WaiterLabels
  PROVE  /\ PcOK'
         /\ pc'[t] = label
         /\ \A s \in Threads \ {t} : pc'[s] = pc[s]
<1>1. label \in BinderLabels \cup EventLabels \cup WaiterLabels
  BY ThreadsDistinct
<1>2. pc' = [pc EXCEPT ![t] = label] /\ pc \in [Threads -> BinderLabels \cup EventLabels \cup WaiterLabels]
  BY DEF Goto, PcOK
<1>3. pc'[t] = label /\ \A s \in Threads \ {t} : pc'[s] = pc[s]
  BY <1>2
<1>4. pc' \in [Threads -> BinderLabels \cup EventLabels \cup WaiterLabels]
  BY <1>1, <1>2
<1> QED BY <1>3, <1>4, ThreadsDistinct DEF PcOK

LEMMA Stays == ASSUME PcOK, UNCHANGED pc PROVE PcOK'
BY DEF PcOK

(* A step that enters and leaves no call of an app keeps the apps' mutexes. *)
LEMMA AppLocksKept ==
  ASSUME MutexOK, AppLockInv, UNCHANGED <<app, appLocks>>,
         \A s \in Threads : pc'[s] = "CallApp" <=> pc[s] = "CallApp"
  PROVE  AppLockInv'
<1>1. \A t \in Threads : pc'[t] = "CallApp" => appLocks'[app'[t]] = t
  BY DEF AppLockInv
<1>2. \A a \in Apps : appLocks'[a] # None => /\ pc'[appLocks'[a]] = "CallApp"
                                            /\ app'[appLocks'[a]] = a
  BY DEF AppLockInv, MutexOK
<1> QED BY <1>1, <1>2 DEF AppLockInv

(* lockedCallApp() gives back the lock it took, and none else. *)
LEMMA AppUnlocked ==
  ASSUME PcOK, MutexOK, AppLockInv, NEW t \in Threads, CallAppEnds(t), app' = app,
         NEW label, label # "CallApp", Goto(t, label)
  PROVE  AppLockInv'
<1>1. appLocks[app[t]] = t /\ app[t] \in Apps /\ pc[t] = "CallApp"
  BY DEF AppLockInv, CallAppEnds, MutexOK
<1>2. pc'[t] = label /\ \A s \in Threads \ {t} : pc'[s] = pc[s]
  BY DEF PcOK, Goto
<1>3. appLocks'[app[t]] = None /\ \A a \in Apps \ {app[t]} : appLocks'[a] = appLocks[a]
  BY <1>1 DEF MutexOK, CallAppEnds
<1>4. ASSUME NEW s \in Threads, pc'[s] = "CallApp"
      PROVE  appLocks'[app'[s]] = s
  <2>1. s # t /\ pc[s] = "CallApp" /\ appLocks[app[s]] = s /\ app[s] \in Apps
    BY <1>2, <1>4 DEF AppLockInv, MutexOK
  <2>2. app[s] # app[t]
    BY <1>1, <2>1
  <2> QED BY <1>3, <2>1, <2>2
<1>5. ASSUME NEW a \in Apps, appLocks'[a] # None
      PROVE  pc'[appLocks'[a]] = "CallApp" /\ app'[appLocks'[a]] = a
  <2>1. a # app[t] /\ appLocks'[a] = appLocks[a]
    BY <1>3, <1>5
  <2>2. appLocks[a] # t
    BY <1>1, <2>1, <1>5 DEF AppLockInv
  <2> QED BY <1>2, <1>5, <2>1, <2>2 DEF AppLockInv, MutexOK
<1> QED BY <1>4, <1>5 DEF AppLockInv

(* Away from lockedCallApp() the locks of the apps do not change hands. *)
LEMMA AppLocksStay ==
  ASSUME PcOK, MutexOK, AppLockInv, NEW t \in Threads, UNCHANGED appLocks,
         \A s \in Threads \ {t} : app'[s] = app[s],
         NEW label, label # "CallApp", pc[t] # "CallApp", Goto(t, label)
  PROVE  AppLockInv'
<1>1. pc'[t] = label /\ \A s \in Threads \ {t} : pc'[s] = pc[s]
  BY DEF PcOK, Goto
<1> QED BY <1>1 DEF AppLockInv, MutexOK

LEMMA InvInit == Init => Inv
<1> SUFFICES ASSUME Init PROVE Inv
  OBVIOUS
<1>1. PcOK
  BY ThreadsDistinct DEF Init, PcOK, BinderLabels, EventLabels, WaiterLabels
<1>2. TypeOK
  <2>1. MutexOK
    BY ThreadsDistinct, Constants DEF Init, MutexOK
  <2>2. FlagsOK
    BY DEF Init, FlagsOK
  <2>3. StatsOK
    BY EmptySeqOfNats DEF Init, StatsOK, Uninitialized
  <2>4. CountersOK
    BY DEF Init, CountersOK
  <2> QED BY <1>1, <2>1, <2>2, <2>3, <2>4 DEF TypeOK
<1>3. LockInv
  BY ThreadsDistinct
       DEF Init, LockInv, StartInv, AppLockInv, StatsLockInv, CvInv, InFunc, FuncLabels,
           CallLabels, StatsLabels
<1>4. CopyInv
  BY ThreadsDistinct DEF Init, CopyInv
<1> QED BY <1>2, <1>3, <1>4 DEF Inv

LEMMA ConstructAppLocksStep ==
  ASSUME RacyStart = FALSE, Inv, ConstructAppLocks
  PROVE  Inv'
<1> USE ThreadsDistinct, Constants DEF Inv, ConstructAppLocks, clientVars, timerVars, chipVars
<1>1. PcOK'
  BY Moves, Stays
       DEF TypeOK, CallLabels, StatsLabels, BinderLabels, EventLabels, DelayLabels,
           FuncLabels, WaiterLabels
<1>2. TypeOK'
  <2>1. MutexOK'
    BY DEF TypeOK, MutexOK, Apps, Nugget, Goto
  <2>2. FlagsOK'
    BY DEF TypeOK, FlagsOK
  <2>3. StatsOK'
    BY EmptySeqOfNats DEF TypeOK, StatsOK, CountersOK
  <2>4. CountersOK'
    BY DEF TypeOK, CountersOK, Goto
  <2> QED BY <1>1, <2>1, <2>2, <2>3, <2>4 DEF TypeOK
<1>3. LockInv'
  <2>1. StartInv'
    BY DEF TypeOK, PcOK, LockInv, StartInv, Goto
  <2>2. AppLockInv'
    BY DEF TypeOK, PcOK, MutexOK, LockInv, StartInv, AppLockInv
  <2>3. StatsLockInv'
    BY DEF TypeOK, PcOK, MutexOK, LockInv, StartInv, StatsLockInv
  <2>4. CvInv'
    BY
         DEF TypeOK, PcOK, MutexOK, LockInv, StartInv, CvInv, InFunc, FuncLabels,
             CallLabels, StatsLabels, Goto
  <2> QED BY <2>1, <2>2, <2>3, <2>4 DEF LockInv
<1>4. CopyInv'
  BY DEF TypeOK, PcOK, StatsOK, MutexOK, Goto, LockInv, StatsLockInv, StartInv, CopyInv
<1> QED BY <1>2, <1>3, <1>4

LEMMA ConstructCvStep ==
  ASSUME RacyStart = FALSE, Inv, ConstructCv
  PROVE  Inv'
<1> USE ThreadsDistinct, Constants DEF Inv, ConstructCv, clientVars, chipVars
<1>1. PcOK'
  BY Moves, Stays
       DEF TypeOK, CallLabels, StatsLabels, BinderLabels, EventLabels, DelayLabels,
           FuncLabels, WaiterLabels
<1>2. TypeOK'
  <2>1. MutexOK'
    BY DEF TypeOK, MutexOK, Apps, Nugget, Goto
  <2>2. FlagsOK'
    BY DEF TypeOK, FlagsOK
  <2>3. StatsOK'
    BY EmptySeqOfNats DEF TypeOK, StatsOK, CountersOK
  <2>4. CountersOK'
    BY DEF TypeOK, CountersOK, Goto
  <2> QED BY <1>1, <2>1, <2>2, <2>3, <2>4 DEF TypeOK
<1>3. LockInv'
  <2>1. StartInv'
    BY DEF TypeOK, PcOK, LockInv, StartInv, Goto
  <2>2. AppLockInv'
    BY DEF TypeOK, PcOK, MutexOK, LockInv, StartInv, AppLockInv
  <2>3. StatsLockInv'
    BY DEF TypeOK, PcOK, MutexOK, LockInv, StartInv, StatsLockInv
  <2>4. CvInv'
    BY
         DEF TypeOK, PcOK, MutexOK, LockInv, StartInv, CvInv, InFunc, FuncLabels,
             CallLabels, StatsLabels, Goto
  <2> QED BY <2>1, <2>2, <2>3, <2>4 DEF LockInv
<1>4. CopyInv'
  BY DEF TypeOK, PcOK, StatsOK, MutexOK, Goto, LockInv, StatsLockInv, StartInv, CopyInv
<1> QED BY <1>2, <1>3, <1>4

LEMMA ConstructStatsMutexStep ==
  ASSUME RacyStart = FALSE, Inv, ConstructStatsMutex
  PROVE  Inv'
<1> USE ThreadsDistinct, Constants
     DEF Inv, ConstructStatsMutex, clientVars, timerVars, chipVars
<1>1. PcOK'
  BY Moves, Stays
       DEF TypeOK, CallLabels, StatsLabels, BinderLabels, EventLabels, DelayLabels,
           FuncLabels, WaiterLabels
<1>2. TypeOK'
  <2>1. MutexOK'
    BY DEF TypeOK, MutexOK, Apps, Nugget, Goto
  <2>2. FlagsOK'
    BY DEF TypeOK, FlagsOK
  <2>3. StatsOK'
    BY EmptySeqOfNats DEF TypeOK, StatsOK, CountersOK
  <2>4. CountersOK'
    BY DEF TypeOK, CountersOK, Goto
  <2> QED BY <1>1, <2>1, <2>2, <2>3, <2>4 DEF TypeOK
<1>3. LockInv'
  <2>1. StartInv'
    BY DEF TypeOK, PcOK, LockInv, StartInv, Goto
  <2>2. AppLockInv'
    BY DEF TypeOK, PcOK, MutexOK, LockInv, StartInv, AppLockInv
  <2>3. StatsLockInv'
    BY DEF TypeOK, PcOK, MutexOK, LockInv, StartInv, StatsLockInv
  <2>4. CvInv'
    BY
         DEF TypeOK, PcOK, MutexOK, LockInv, StartInv, CvInv, InFunc, FuncLabels,
             CallLabels, StatsLabels, Goto
  <2> QED BY <2>1, <2>2, <2>3, <2>4 DEF LockInv
<1>4. CopyInv'
  BY DEF TypeOK, PcOK, StatsOK, MutexOK, Goto, LockInv, StatsLockInv, StartInv, CopyInv
<1> QED BY <1>2, <1>3, <1>4

LEMMA AddServiceStep ==
  ASSUME RacyStart = FALSE, Inv, AddService
  PROVE  Inv'
<1> USE ThreadsDistinct, Constants DEF Inv, AddService, clientVars, timerVars, chipVars
<1>1. PcOK'
  BY Moves, Stays
       DEF TypeOK, CallLabels, StatsLabels, BinderLabels, EventLabels, DelayLabels,
           FuncLabels, WaiterLabels
<1>2. TypeOK'
  <2>1. MutexOK'
    BY DEF TypeOK, MutexOK, Apps, Nugget, Goto
  <2>2. FlagsOK'
    BY DEF TypeOK, FlagsOK
  <2>3. StatsOK'
    BY EmptySeqOfNats DEF TypeOK, StatsOK, CountersOK
  <2>4. CountersOK'
    BY DEF TypeOK, CountersOK, Goto
  <2> QED BY <1>1, <2>1, <2>2, <2>3, <2>4 DEF TypeOK
<1>3. LockInv'
  <2>1. StartInv'
    BY DEF TypeOK, PcOK, LockInv, StartInv, Goto
  <2>2. AppLockInv'
    BY DEF TypeOK, PcOK, MutexOK, LockInv, AppLockInv, Goto
  <2>3. StatsLockInv'
    BY DEF TypeOK, PcOK, MutexOK, LockInv, StatsLockInv, Goto
  <2>4. CvInv'
    BY
         DEF TypeOK, PcOK, MutexOK, LockInv, CvInv, InFunc, FuncLabels, CallLabels,
             StatsLabels, Goto
  <2> QED BY <2>1, <2>2, <2>3, <2>4 DEF LockInv
<1>4. CopyInv'
  BY DEF TypeOK, PcOK, StatsOK, MutexOK, Goto, LockInv, StatsLockInv, StartInv, CopyInv
<1> QED BY <1>2, <1>3, <1>4

LEMMA CallAppStep ==
  ASSUME NEW b \in Binders, NEW appId \in Int, NEW arg \in BOOLEAN, RacyStart = FALSE,
         Inv, CallApp(b, appId, arg)
  PROVE  Inv'
<1> USE ThreadsDistinct, Constants DEF Inv, CallApp, Serve, AppIdInRange, timerVars, chipVars
<1>1. PcOK'
  BY Moves, Stays
       DEF TypeOK, CallLabels, StatsLabels, BinderLabels, EventLabels, DelayLabels,
           FuncLabels, WaiterLabels
<1>2. TypeOK'
  <2>1. MutexOK'
    <3>1. app' = app \/ (appId \in Apps /\ app' = [app EXCEPT ![b] = appId])
      <4>1. AppIdInRange(appId) => appId \in Apps
        BY ONLY Constants, appId \in Int DEF AppIdInRange, Apps
      <4> QED BY ONLY <4>1, CallApp(b, appId, arg) DEF CallApp
    <3>2. UNCHANGED <<appLocks, cvMutex, statsMutex>>
      OBVIOUS
    <3> QED BY ONLY <3>1, <3>2, Inv DEF Inv, TypeOK, MutexOK
  <2>2. FlagsOK'
    BY DEF TypeOK, FlagsOK
  <2>3. StatsOK'
    BY EmptySeqOfNats DEF TypeOK, StatsOK, CountersOK
  <2>4. CountersOK'
    <3>1. calls' = calls + 1
      BY DEF TypeOK, CountersOK
    <3>2. UNCHANGED <<events, raised, scheduled, runs, wakes, faults>>
      OBVIOUS
    <3> QED BY ONLY <3>1, <3>2, Inv DEF Inv, TypeOK, CountersOK
  <2> QED BY <1>1, <2>1, <2>2, <2>3, <2>4 DEF TypeOK
<1>3. LockInv'
  <2>1. StartInv'
    BY DEF TypeOK, PcOK, LockInv, StartInv, Goto
  <2>2. AppLockInv'
    <3>1. CASE UNCHANGED <<pc, app>>
      BY <3>1 DEF LockInv, AppLockInv
    <3>2. CASE Goto(b, "lock app") /\ app' = [app EXCEPT ![b] = appId]
      <4>1. \A s \in Threads \ {b} : app'[s] = app[s]
        BY <3>2 DEF TypeOK, MutexOK
      <4> QED BY <3>2, <4>1, AppLocksStay DEF TypeOK, LockInv
    <3> QED BY <3>1, <3>2
  <2>3. StatsLockInv'
    BY DEF TypeOK, PcOK, MutexOK, LockInv, StatsLockInv, Goto
  <2>4. CvInv'
    BY
         DEF TypeOK, PcOK, MutexOK, LockInv, CvInv, InFunc, FuncLabels, CallLabels,
             StatsLabels, Goto
  <2> QED BY <2>1, <2>2, <2>3, <2>4 DEF LockInv
<1>4. CopyInv'
  BY DEF TypeOK, PcOK, StatsOK, MutexOK, Goto, LockInv, StatsLockInv, StartInv, CopyInv
<1> QED BY <1>2, <1>3, <1>4

LEMMA ResetStep ==
  ASSUME NEW b \in Binders, RacyStart = FALSE, Inv, Reset(b)
  PROVE  Inv'
<1> USE ThreadsDistinct, Constants DEF Inv, Reset, Serve, timerVars
<1>1. PcOK'
  BY Moves, Stays
       DEF TypeOK, CallLabels, StatsLabels, BinderLabels, EventLabels, DelayLabels,
           FuncLabels, WaiterLabels
<1>2. TypeOK'
  <2>1. MutexOK'
    BY DEF TypeOK, MutexOK, Apps, Nugget, Goto
  <2>2. FlagsOK'
    BY DEF TypeOK, FlagsOK
  <2>3. StatsOK'
    BY EmptySeqOfNats DEF TypeOK, StatsOK, CountersOK
  <2>4. CountersOK'
    BY DEF TypeOK, CountersOK, Goto
  <2> QED BY <1>1, <2>1, <2>2, <2>3, <2>4 DEF TypeOK
<1>3. LockInv'
  <2>1. StartInv'
    BY DEF TypeOK, PcOK, LockInv, StartInv, Goto
  <2>2. AppLockInv'
    BY DEF TypeOK, PcOK, MutexOK, LockInv, AppLockInv, Goto
  <2>3. StatsLockInv'
    BY DEF TypeOK, PcOK, MutexOK, LockInv, StatsLockInv, Goto
  <2>4. CvInv'
    BY
         DEF TypeOK, PcOK, MutexOK, LockInv, CvInv, InFunc, FuncLabels, CallLabels,
             StatsLabels, Goto
  <2> QED BY <2>1, <2>2, <2>3, <2>4 DEF LockInv
<1>4. CopyInv'
  BY DEF TypeOK, PcOK, StatsOK, MutexOK, Goto, LockInv, StatsLockInv, StartInv, CopyInv
<1> QED BY <1>2, <1>3, <1>4

LEMMA GetStatsStep ==
  ASSUME NEW b \in Binders, RacyStart = FALSE, Inv, GetStats(b)
  PROVE  Inv'
<1> USE ThreadsDistinct, Constants DEF Inv, GetStats, Serve, timerVars, chipVars
<1>1. PcOK'
  BY Moves, Stays
       DEF TypeOK, CallLabels, StatsLabels, BinderLabels, EventLabels, DelayLabels,
           FuncLabels, WaiterLabels
<1>2. TypeOK'
  <2>1. MutexOK'
    BY DEF TypeOK, MutexOK, Apps, Nugget, Goto
  <2>2. FlagsOK'
    BY DEF TypeOK, FlagsOK
  <2>3. StatsOK'
    BY EmptySeqOfNats DEF TypeOK, StatsOK, CountersOK
  <2>4. CountersOK'
    <3>1. calls' = calls + 1
      BY DEF TypeOK, CountersOK
    <3>2. UNCHANGED <<events, raised, scheduled, runs, wakes, faults>>
      OBVIOUS
    <3> QED BY ONLY <3>1, <3>2, Inv DEF Inv, TypeOK, CountersOK
  <2> QED BY <1>1, <2>1, <2>2, <2>3, <2>4 DEF TypeOK
<1>3. LockInv'
  <2>1. StartInv'
    BY DEF TypeOK, PcOK, LockInv, StartInv, Goto
  <2>2. AppLockInv'
    <3>1. \A s \in Threads : pc'[s] = "CallApp" <=> pc[s] = "CallApp"
      BY DEF TypeOK, PcOK, Goto
    <3>2. UNCHANGED <<app, appLocks>>
      OBVIOUS
    <3> QED BY ONLY <3>1, <3>2, Inv, AppLocksKept DEF Inv, TypeOK, LockInv
  <2>3. StatsLockInv'
    BY DEF TypeOK, PcOK, MutexOK, LockInv, StatsLockInv, Goto
  <2>4. CvInv'
    BY
         DEF TypeOK, PcOK, MutexOK, LockInv, CvInv, InFunc, FuncLabels, CallLabels,
             StatsLabels, Goto
  <2> QED BY <2>1, <2>2, <2>3, <2>4 DEF LockInv
<1>4. CopyInv'
  BY DEF TypeOK, PcOK, StatsOK, MutexOK, Goto, LockInv, StatsLockInv, StartInv, CopyInv
<1> QED BY <1>2, <1>3, <1>4

LEMMA BinderCallAppReturnsStep ==
  ASSUME NEW b \in Binders, RacyStart = FALSE, Inv, BinderCallAppReturns(b)
  PROVE  Inv'
<1> USE ThreadsDistinct, Constants
     DEF Inv, BinderCallAppReturns, CallAppEnds, clientVars, timerVars, chipVars
<1>1. PcOK'
  BY Moves, Stays
       DEF TypeOK, CallLabels, StatsLabels, BinderLabels, EventLabels, DelayLabels,
           FuncLabels, WaiterLabels
<1>2. TypeOK'
  <2>1. MutexOK'
    BY DEF TypeOK, MutexOK, Apps, Nugget, Goto
  <2>2. FlagsOK'
    BY DEF TypeOK, FlagsOK
  <2>3. StatsOK'
    BY EmptySeqOfNats DEF TypeOK, StatsOK, CountersOK
  <2>4. CountersOK'
    BY DEF TypeOK, CountersOK, Goto
  <2> QED BY <1>1, <2>1, <2>2, <2>3, <2>4 DEF TypeOK
<1>3. LockInv'
  <2>1. StartInv'
    BY DEF TypeOK, PcOK, LockInv, StartInv, Goto
  <2>2. AppLockInv'
    BY AppUnlocked DEF TypeOK, LockInv
  <2>3. StatsLockInv'
    BY DEF TypeOK, PcOK, MutexOK, LockInv, StatsLockInv, Goto
  <2>4. CvInv'
    BY
         DEF TypeOK, PcOK, MutexOK, LockInv, CvInv, InFunc, FuncLabels, CallLabels,
             StatsLabels, Goto
  <2> QED BY <2>1, <2>2, <2>3, <2>4 DEF LockInv
<1>4. CopyInv'
  BY DEF TypeOK, PcOK, StatsOK, MutexOK, Goto, LockInv, StatsLockInv, StartInv, CopyInv
<1> QED BY <1>2, <1>3, <1>4

LEMMA ScheduleStep ==
  ASSUME NEW b \in Binders, RacyStart = FALSE, Inv, Schedule(b)
  PROVE  Inv'
<1> USE ThreadsDistinct, Constants DEF Inv, Schedule, ScheduleMay, Notify, clientVars, chipVars
<1>1. PcOK'
  <2>1. "idle" \in BinderLabels /\ {"notified", "restarted"} \subseteq WaiterLabels
    BY DEF BinderLabels, WaiterLabels, DelayLabels
  <2>2. Notify \in WaiterLabels
    BY <2>1 DEF TypeOK, PcOK
  <2> QED BY <2>1, <2>2 DEF TypeOK, PcOK
<1>2. TypeOK'
  <2>1. MutexOK'
    BY DEF TypeOK, MutexOK, Apps, Nugget, Goto
  <2>2. FlagsOK'
    BY DEF TypeOK, FlagsOK
  <2>3. StatsOK'
    BY EmptySeqOfNats DEF TypeOK, StatsOK, CountersOK
  <2>4. CountersOK'
    BY DEF TypeOK, CountersOK, Goto
  <2> QED BY <1>1, <2>1, <2>2, <2>3, <2>4 DEF TypeOK
<1>3. LockInv'
  <2>1. StartInv'
    BY DEF TypeOK, PcOK, LockInv, StartInv, Goto
  <2>2. AppLockInv'
    BY DEF TypeOK, PcOK, MutexOK, LockInv, AppLockInv, Goto
  <2>3. StatsLockInv'
    BY DEF TypeOK, PcOK, MutexOK, LockInv, StatsLockInv, Goto
  <2>4. CvInv'
    BY
         DEF TypeOK, PcOK, MutexOK, LockInv, CvInv, InFunc, FuncLabels, CallLabels,
             StatsLabels, Goto
  <2> QED BY <2>1, <2>2, <2>3, <2>4 DEF LockInv
<1>4. CopyInv'
  BY DEF TypeOK, PcOK, StatsOK, MutexOK, Goto, LockInv, StatsLockInv, StartInv, CopyInv
<1> QED BY <1>2, <1>3, <1>4

LEMMA CopyStatsStep ==
  ASSUME NEW b \in Binders, RacyStart = FALSE, Inv, CopyStats(b)
  PROVE  Inv'
<1> USE ThreadsDistinct, Constants DEF Inv, CopyStats, timerVars, chipVars
<1>1. PcOK'
  BY Moves, Stays
       DEF TypeOK, CallLabels, StatsLabels, BinderLabels, EventLabels, DelayLabels,
           FuncLabels, WaiterLabels
<1>2. TypeOK'
  <2>1. MutexOK'
    BY DEF TypeOK, MutexOK, Apps, Nugget, Goto
  <2>2. FlagsOK'
    BY DEF TypeOK, FlagsOK
  <2>3. StatsOK'
    <3>1. /\ stats[1] \in Nat /\ stats[2] \in Nat /\ copy[b] \in Seq(Nat)
          /\ copy \in [Binders -> Seq(Nat)]
      BY ONLY Inv, b \in Binders DEF Inv, TypeOK, StatsOK
    <3>2. <<stats[1]>> \in Seq(Nat) /\ Append(copy[b], stats[2]) \in Seq(Nat)
      BY ONLY <3>1, OneElement, AppendProperties
    <3>3. \/ copy' = [copy EXCEPT ![b] = <<stats[1]>>]
          \/ copy' = [copy EXCEPT ![b] = Append(@, stats[2])]
      BY ONLY CopyStats(b) DEF CopyStats
    <3>4. stats' = stats /\ buffer' = buffer
      OBVIOUS
    <3> QED BY ONLY Inv, <3>1, <3>2, <3>3, <3>4 DEF Inv, TypeOK, StatsOK
  <2>4. CountersOK'
    BY DEF TypeOK, CountersOK, Goto
  <2> QED BY <1>1, <2>1, <2>2, <2>3, <2>4 DEF TypeOK
<1>3. LockInv'
  <2>1. StartInv'
    BY DEF TypeOK, PcOK, LockInv, StartInv, Goto
  <2>2. AppLockInv'
    BY AppLocksStay DEF TypeOK, LockInv, AppLockInv
  <2>3. StatsLockInv'
    BY DEF TypeOK, PcOK, MutexOK, LockInv, StatsLockInv, Goto
  <2>4. CvInv'
    BY
         DEF TypeOK, PcOK, MutexOK, LockInv, CvInv, InFunc, FuncLabels, CallLabels,
             StatsLabels, Goto
  <2> QED BY <2>1, <2>2, <2>3, <2>4 DEF LockInv
<1>4. CopyInv'
  <2>1. stats' = stats /\ pc'[Waiter] = pc[Waiter]
    BY DEF TypeOK, PcOK, Goto
  <2>2. ASSUME NEW c \in Binders, c # b
        PROVE  pc'[c] = pc[c] /\ copy'[c] = copy[c]
    BY <2>2 DEF TypeOK, PcOK, StatsOK, Goto
  <2>3. pc'[b] = "copy rest" => copy'[b] = <<stats[1]>>
    BY DEF TypeOK, PcOK, StatsOK, Goto
  <2> QED BY <2>1, <2>2, <2>3 DEF CopyInv
<1> QED BY <1>2, <1>3, <1>4

LEMMA WaitForInterruptStep ==
  ASSUME RacyStart = FALSE, Inv, WaitForInterrupt
  PROVE  Inv'
<1> USE ThreadsDistinct, Constants
     DEF Inv, WaitForInterrupt, Runs, clientVars, timerVars, chipVars
<1>1. PcOK'
  BY Moves, Stays
       DEF TypeOK, CallLabels, StatsLabels, BinderLabels, EventLabels, DelayLabels,
           FuncLabels, WaiterLabels
<1>2. TypeOK'
  <2>1. MutexOK'
    BY DEF TypeOK, MutexOK, Apps, Nugget, Goto
  <2>2. FlagsOK'
    BY DEF TypeOK, FlagsOK
  <2>3. StatsOK'
    BY EmptySeqOfNats DEF TypeOK, StatsOK, CountersOK
  <2>4. CountersOK'
    BY DEF TypeOK, CountersOK, Goto
  <2> QED BY <1>1, <2>1, <2>2, <2>3, <2>4 DEF TypeOK
<1>3. LockInv'
  <2>1. StartInv'
    BY DEF TypeOK, PcOK, LockInv, StartInv, Goto
  <2>2. AppLockInv'
    <3>1. \A s \in Threads : pc'[s] = "CallApp" <=> pc[s] = "CallApp"
      BY DEF TypeOK, PcOK, Goto
    <3>2. UNCHANGED <<app, appLocks>>
      OBVIOUS
    <3> QED BY ONLY <3>1, <3>2, Inv, AppLocksKept DEF Inv, TypeOK, LockInv
  <2>3. StatsLockInv'
    BY DEF TypeOK, PcOK, MutexOK, LockInv, StatsLockInv, Goto
  <2>4. CvInv'
    BY
         DEF TypeOK, PcOK, MutexOK, LockInv, CvInv, InFunc, FuncLabels, CallLabels,
             StatsLabels, Goto
  <2> QED BY <2>1, <2>2, <2>3, <2>4 DEF LockInv
<1>4. CopyInv'
  BY DEF TypeOK, PcOK, StatsOK, MutexOK, Goto, LockInv, StatsLockInv, StartInv, CopyInv
<1> QED BY <1>2, <1>3, <1>4

LEMMA EventCallAppReturnsStep ==
  ASSUME RacyStart = FALSE, Inv, EventCallAppReturns
  PROVE  Inv'
<1> USE ThreadsDistinct, Constants
     DEF Inv, EventCallAppReturns, CallAppEnds, Fault, clientVars, timerVars
<1>1. PcOK'
  BY Moves, Stays
       DEF TypeOK, CallLabels, StatsLabels, BinderLabels, EventLabels, DelayLabels,
           FuncLabels, WaiterLabels
<1>2. TypeOK'
  <2>1. MutexOK'
    BY DEF TypeOK, MutexOK, Apps, Nugget, Goto
  <2>2. FlagsOK'
    BY DEF TypeOK, FlagsOK
  <2>3. StatsOK'
    BY EmptySeqOfNats DEF TypeOK, StatsOK, CountersOK
  <2>4. CountersOK'
    <3>1. faults' = faults \/ faults' = faults + 1
      OBVIOUS
    <3>2. UNCHANGED <<raised, calls, scheduled, runs, wakes>>
      OBVIOUS
    <3>3. \/ events > 0 /\ events' = events - 1
          \/ events' = events
          \/ events' \in {events, events - 1} \cap Nat
      OBVIOUS
    <3> QED BY ONLY <3>1, <3>2, <3>3, Inv DEF Inv, TypeOK, CountersOK
  <2> QED BY <1>1, <2>1, <2>2, <2>3, <2>4 DEF TypeOK
<1>3. LockInv'
  <2>1. StartInv'
    BY DEF TypeOK, PcOK, LockInv, StartInv, Goto
  <2>2. AppLockInv'
    BY AppUnlocked DEF TypeOK, LockInv
  <2>3. StatsLockInv'
    BY DEF TypeOK, PcOK, MutexOK, LockInv, StatsLockInv, Goto
  <2>4. CvInv'
    BY
         DEF TypeOK, PcOK, MutexOK, LockInv, CvInv, InFunc, FuncLabels, CallLabels,
             StatsLabels, Goto
  <2> QED BY <2>1, <2>2, <2>3, <2>4 DEF LockInv
<1>4. CopyInv'
  BY DEF TypeOK, PcOK, StatsOK, MutexOK, Goto, LockInv, StatsLockInv, StartInv, CopyInv
<1> QED BY <1>2, <1>3, <1>4

LEMMA SleepEndsStep ==
  ASSUME RacyStart = FALSE, Inv, SleepEnds
  PROVE  Inv'
<1> USE ThreadsDistinct, Constants DEF Inv, SleepEnds, clientVars, timerVars, chipVars
<1>1. PcOK'
  BY Moves, Stays
       DEF TypeOK, CallLabels, StatsLabels, BinderLabels, EventLabels, DelayLabels,
           FuncLabels, WaiterLabels
<1>2. TypeOK'
  <2>1. MutexOK'
    BY DEF TypeOK, MutexOK, Apps, Nugget, Goto
  <2>2. FlagsOK'
    BY DEF TypeOK, FlagsOK
  <2>3. StatsOK'
    BY EmptySeqOfNats DEF TypeOK, StatsOK, CountersOK
  <2>4. CountersOK'
    BY DEF TypeOK, CountersOK, Goto
  <2> QED BY <1>1, <2>1, <2>2, <2>3, <2>4 DEF TypeOK
<1>3. LockInv'
  <2>1. StartInv'
    BY DEF TypeOK, PcOK, LockInv, StartInv, Goto
  <2>2. AppLockInv'
    BY DEF TypeOK, PcOK, MutexOK, LockInv, AppLockInv, Goto
  <2>3. StatsLockInv'
    BY DEF TypeOK, PcOK, MutexOK, LockInv, StatsLockInv, Goto
  <2>4. CvInv'
    BY
         DEF TypeOK, PcOK, MutexOK, LockInv, CvInv, InFunc, FuncLabels, CallLabels,
             StatsLabels, Goto
  <2> QED BY <2>1, <2>2, <2>3, <2>4 DEF LockInv
<1>4. CopyInv'
  BY DEF TypeOK, PcOK, StatsOK, MutexOK, Goto, LockInv, StatsLockInv, StartInv, CopyInv
<1> QED BY <1>2, <1>3, <1>4

LEMMA RaiseEventStep ==
  ASSUME RacyStart = FALSE, Inv, RaiseEvent
  PROVE  Inv'
<1> USE ThreadsDistinct, Constants DEF Inv, RaiseEvent, clientVars, timerVars
<1>1. PcOK'
  BY Moves, Stays
       DEF TypeOK, CallLabels, StatsLabels, BinderLabels, EventLabels, DelayLabels,
           FuncLabels, WaiterLabels
<1>2. TypeOK'
  <2>1. MutexOK'
    BY DEF TypeOK, MutexOK, Apps, Nugget, Goto
  <2>2. FlagsOK'
    BY DEF TypeOK, FlagsOK
  <2>3. StatsOK'
    BY EmptySeqOfNats DEF TypeOK, StatsOK, CountersOK
  <2>4. CountersOK'
    BY DEF TypeOK, CountersOK, Goto
  <2> QED BY <1>1, <2>1, <2>2, <2>3, <2>4 DEF TypeOK
<1>3. LockInv'
  <2>1. StartInv'
    BY DEF TypeOK, PcOK, LockInv, StartInv, Goto
  <2>2. AppLockInv'
    BY DEF TypeOK, PcOK, MutexOK, LockInv, AppLockInv, Goto
  <2>3. StatsLockInv'
    BY DEF TypeOK, PcOK, MutexOK, LockInv, StatsLockInv, Goto
  <2>4. CvInv'
    BY
         DEF TypeOK, PcOK, MutexOK, LockInv, CvInv, InFunc, FuncLabels, CallLabels,
             StatsLabels, Goto
  <2> QED BY <2>1, <2>2, <2>3, <2>4 DEF LockInv
<1>4. CopyInv'
  BY DEF TypeOK, PcOK, StatsOK, MutexOK, Goto, LockInv, StatsLockInv, StartInv, CopyInv
<1> QED BY <1>2, <1>3, <1>4

LEMMA WaiterStartsStep ==
  ASSUME RacyStart = FALSE, Inv, WaiterStarts
  PROVE  Inv'
<1> USE ThreadsDistinct, Constants
     DEF Inv, WaiterStarts, Runs, WaiterLoops, clientVars, chipVars
<1>1. PcOK'
  BY Moves, Stays
       DEF TypeOK, CallLabels, StatsLabels, BinderLabels, EventLabels, DelayLabels,
           FuncLabels, WaiterLabels
<1>2. TypeOK'
  <2>1. MutexOK'
    BY DEF TypeOK, MutexOK, Apps, Nugget, Goto
  <2>2. FlagsOK'
    BY DEF TypeOK, FlagsOK
  <2>3. StatsOK'
    BY EmptySeqOfNats DEF TypeOK, StatsOK, CountersOK
  <2>4. CountersOK'
    BY DEF TypeOK, CountersOK, Goto
  <2> QED BY <1>1, <2>1, <2>2, <2>3, <2>4 DEF TypeOK
<1>3. LockInv'
  <2>1. StartInv'
    BY DEF TypeOK, PcOK, LockInv, StartInv, Goto
  <2>2. AppLockInv'
    <3>1. \A s \in Threads : pc'[s] = "CallApp" <=> pc[s] = "CallApp"
      BY DEF TypeOK, PcOK, Goto
    <3>2. UNCHANGED <<app, appLocks>>
      OBVIOUS
    <3> QED BY ONLY <3>1, <3>2, Inv, AppLocksKept DEF Inv, TypeOK, LockInv
  <2>3. StatsLockInv'
    BY DEF TypeOK, PcOK, MutexOK, LockInv, StatsLockInv, Goto
  <2>4. CvInv'
    BY
         DEF TypeOK, PcOK, MutexOK, LockInv, CvInv, InFunc, FuncLabels, CallLabels,
             StatsLabels, Goto
  <2> QED BY <2>1, <2>2, <2>3, <2>4 DEF LockInv
<1>4. CopyInv'
  BY DEF TypeOK, PcOK, StatsOK, MutexOK, Goto, LockInv, StatsLockInv, StartInv, CopyInv
<1> QED BY <1>2, <1>3, <1>4

LEMMA WakeSpuriouslyStep ==
  ASSUME RacyStart = FALSE, Inv, WakeSpuriously
  PROVE  Inv'
<1> USE ThreadsDistinct, Constants
     DEF Inv, WakeSpuriously, Fault, clientVars, chipVars
<1>1. PcOK'
  BY Moves, Stays
       DEF TypeOK, CallLabels, StatsLabels, BinderLabels, EventLabels, DelayLabels,
           FuncLabels, WaiterLabels
<1>2. TypeOK'
  <2>1. MutexOK'
    BY DEF TypeOK, MutexOK, Apps, Nugget, Goto
  <2>2. FlagsOK'
    BY DEF TypeOK, FlagsOK
  <2>3. StatsOK'
    BY EmptySeqOfNats DEF TypeOK, StatsOK, CountersOK
  <2>4. CountersOK'
    BY DEF TypeOK, CountersOK, Goto
  <2> QED BY <1>1, <2>1, <2>2, <2>3, <2>4 DEF TypeOK
<1>3. LockInv'
  <2>1. StartInv'
    BY DEF TypeOK, PcOK, LockInv, StartInv, Goto
  <2>2. AppLockInv'
    BY AppLocksStay DEF TypeOK, LockInv, AppLockInv
  <2>3. StatsLockInv'
    BY DEF TypeOK, PcOK, MutexOK, LockInv, StatsLockInv, Goto
  <2>4. CvInv'
    BY
         DEF TypeOK, PcOK, MutexOK, LockInv, CvInv, InFunc, FuncLabels, CallLabels,
             StatsLabels, Goto
  <2> QED BY <2>1, <2>2, <2>3, <2>4 DEF LockInv
<1>4. CopyInv'
  BY DEF TypeOK, PcOK, StatsOK, MutexOK, Goto, LockInv, StatsLockInv, StartInv, CopyInv
<1> QED BY <1>2, <1>3, <1>4

LEMMA StartDelayStep ==
  ASSUME RacyStart = FALSE, Inv, StartDelay
  PROVE  Inv'
<1> USE ThreadsDistinct, Constants DEF Inv, StartDelay, clientVars, timerVars, chipVars
<1>1. PcOK'
  BY Moves, Stays
       DEF TypeOK, CallLabels, StatsLabels, BinderLabels, EventLabels, DelayLabels,
           FuncLabels, WaiterLabels
<1>2. TypeOK'
  <2>1. MutexOK'
    BY DEF TypeOK, MutexOK, Apps, Nugget, Goto
  <2>2. FlagsOK'
    BY DEF TypeOK, FlagsOK
  <2>3. StatsOK'
    BY EmptySeqOfNats DEF TypeOK, StatsOK, CountersOK
  <2>4. CountersOK'
    BY DEF TypeOK, CountersOK, Goto
  <2> QED BY <1>1, <2>1, <2>2, <2>3, <2>4 DEF TypeOK
<1>3. LockInv'
  <2>1. StartInv'
    BY DEF TypeOK, PcOK, LockInv, StartInv, Goto
  <2>2. AppLockInv'
    BY DEF TypeOK, PcOK, MutexOK, LockInv, AppLockInv, Goto
  <2>3. StatsLockInv'
    BY DEF TypeOK, PcOK, MutexOK, LockInv, StatsLockInv, Goto
  <2>4. CvInv'
    BY
         DEF TypeOK, PcOK, MutexOK, LockInv, CvInv, InFunc, FuncLabels, CallLabels,
             StatsLabels, Goto
  <2> QED BY <2>1, <2>2, <2>3, <2>4 DEF LockInv
<1>4. CopyInv'
  BY DEF TypeOK, PcOK, StatsOK, MutexOK, Goto, LockInv, StatsLockInv, StartInv, CopyInv
<1> QED BY <1>2, <1>3, <1>4

LEMMA RestartDelayStep ==
  ASSUME RacyStart = FALSE, Inv, RestartDelay
  PROVE  Inv'
<1> USE ThreadsDistinct, Constants DEF Inv, RestartDelay, WaiterLoops, clientVars, chipVars
<1>1. PcOK'
  BY Moves, Stays
       DEF TypeOK, CallLabels, StatsLabels, BinderLabels, EventLabels, DelayLabels,
           FuncLabels, WaiterLabels
<1>2. TypeOK'
  <2>1. MutexOK'
    BY DEF TypeOK, MutexOK, Apps, Nugget, Goto
  <2>2. FlagsOK'
    BY DEF TypeOK, FlagsOK
  <2>3. StatsOK'
    BY EmptySeqOfNats DEF TypeOK, StatsOK, CountersOK
  <2>4. CountersOK'
    BY DEF TypeOK, CountersOK, Goto
  <2> QED BY <1>1, <2>1, <2>2, <2>3, <2>4 DEF TypeOK
<1>3. LockInv'
  <2>1. StartInv'
    BY DEF TypeOK, PcOK, LockInv, StartInv, Goto
  <2>2. AppLockInv'
    BY DEF TypeOK, PcOK, MutexOK, LockInv, AppLockInv, Goto
  <2>3. StatsLockInv'
    BY DEF TypeOK, PcOK, MutexOK, LockInv, StatsLockInv, Goto
  <2>4. CvInv'
    BY
         DEF TypeOK, PcOK, MutexOK, LockInv, CvInv, InFunc, FuncLabels, CallLabels,
             StatsLabels, Goto
  <2> QED BY <2>1, <2>2, <2>3, <2>4 DEF LockInv
<1>4. CopyInv'
  BY DEF TypeOK, PcOK, StatsOK, MutexOK, Goto, LockInv, StatsLockInv, StartInv, CopyInv
<1> QED BY <1>2, <1>3, <1>4

LEMMA DelayEndsStep ==
  ASSUME RacyStart = FALSE, Inv, DelayEnds
  PROVE  Inv'
<1> USE ThreadsDistinct, Constants DEF Inv, DelayEnds, clientVars, timerVars, chipVars
<1>1. PcOK'
  BY Moves, Stays
       DEF TypeOK, CallLabels, StatsLabels, BinderLabels, EventLabels, DelayLabels,
           FuncLabels, WaiterLabels
<1>2. TypeOK'
  <2>1. MutexOK'
    BY DEF TypeOK, MutexOK, Apps, Nugget, Goto
  <2>2. FlagsOK'
    BY DEF TypeOK, FlagsOK
  <2>3. StatsOK'
    BY EmptySeqOfNats DEF TypeOK, StatsOK, CountersOK
  <2>4. CountersOK'
    BY DEF TypeOK, CountersOK, Goto
  <2> QED BY <1>1, <2>1, <2>2, <2>3, <2>4 DEF TypeOK
<1>3. LockInv'
  <2>1. StartInv'
    BY DEF TypeOK, PcOK, LockInv, StartInv, Goto
  <2>2. AppLockInv'
    BY DEF TypeOK, PcOK, MutexOK, LockInv, AppLockInv, Goto
  <2>3. StatsLockInv'
    BY DEF TypeOK, PcOK, MutexOK, LockInv, StatsLockInv, Goto
  <2>4. CvInv'
    BY
         DEF TypeOK, PcOK, MutexOK, LockInv, CvInv, InFunc, FuncLabels, CallLabels,
             StatsLabels, Goto
  <2> QED BY <2>1, <2>2, <2>3, <2>4 DEF LockInv
<1>4. CopyInv'
  BY DEF TypeOK, PcOK, StatsOK, MutexOK, Goto, LockInv, StatsLockInv, StartInv, CopyInv
<1> QED BY <1>2, <1>3, <1>4

LEMMA CallFuncStep ==
  ASSUME RacyStart = FALSE, Inv, CallFunc
  PROVE  Inv'
<1> USE ThreadsDistinct, Constants DEF Inv, CallFunc, clientVars, chipVars
<1>1. PcOK'
  BY Moves, Stays
       DEF TypeOK, CallLabels, StatsLabels, BinderLabels, EventLabels, DelayLabels,
           FuncLabels, WaiterLabels
<1>2. TypeOK'
  <2>1. MutexOK'
    BY DEF TypeOK, MutexOK, Apps, Nugget, Goto
  <2>2. FlagsOK'
    BY DEF TypeOK, FlagsOK
  <2>3. StatsOK'
    BY EmptySeqOfNats DEF TypeOK, StatsOK, CountersOK
  <2>4. CountersOK'
    <3>1. runs' = runs + 1
      BY DEF TypeOK, CountersOK
    <3>2. UNCHANGED <<events, raised, calls, scheduled, wakes, faults>>
      OBVIOUS
    <3> QED BY ONLY <3>1, <3>2, Inv DEF Inv, TypeOK, CountersOK
  <2> QED BY <1>1, <2>1, <2>2, <2>3, <2>4 DEF TypeOK
<1>3. LockInv'
  <2>1. StartInv'
    BY DEF TypeOK, PcOK, LockInv, StartInv, Goto
  <2>2. AppLockInv'
    <3>1. \A s \in Threads : pc'[s] = "CallApp" <=> pc[s] = "CallApp"
      BY DEF TypeOK, PcOK, Goto
    <3>2. UNCHANGED <<app, appLocks>>
      OBVIOUS
    <3> QED BY ONLY <3>1, <3>2, Inv, AppLocksKept DEF Inv, TypeOK, LockInv
  <2>3. StatsLockInv'
    BY DEF TypeOK, PcOK, MutexOK, LockInv, StatsLockInv, Goto
  <2>4. CvInv'
    BY
         DEF TypeOK, PcOK, MutexOK, LockInv, CvInv, InFunc, FuncLabels, CallLabels,
             StatsLabels, Goto
  <2> QED BY <2>1, <2>2, <2>3, <2>4 DEF LockInv
<1>4. CopyInv'
  BY DEF TypeOK, PcOK, StatsOK, MutexOK, Goto, LockInv, StatsLockInv, StartInv, CopyInv
<1> QED BY <1>2, <1>3, <1>4

LEMMA WaiterCallAppReturnsStep ==
  ASSUME RacyStart = FALSE, Inv, WaiterCallAppReturns
  PROVE  Inv'
<1> USE ThreadsDistinct, Constants
     DEF Inv, WaiterCallAppReturns, CallAppEnds, Fault, clientVars, timerVars, chipVars
<1>1. PcOK'
  BY Moves, Stays
       DEF TypeOK, CallLabels, StatsLabels, BinderLabels, EventLabels, DelayLabels,
           FuncLabels, WaiterLabels
<1>2. TypeOK'
  <2>1. MutexOK'
    BY DEF TypeOK, MutexOK, Apps, Nugget, Goto
  <2>2. FlagsOK'
    BY DEF TypeOK, FlagsOK
  <2>3. StatsOK'
    <3>1. buffer' \in {buffer, {}, {1}, {1, 2}} /\ UNCHANGED <<stats, copy>>
      OBVIOUS
    <3>2. {1} \subseteq 1 .. 2 /\ {1, 2} \subseteq 1 .. 2
      BY ONLY TRUE
    <3> QED BY ONLY Inv, <3>1, <3>2 DEF Inv, TypeOK, StatsOK
  <2>4. CountersOK'
    <3>1. faults' = faults \/ faults' = faults + 1
      BY DEF TypeOK, CountersOK
    <3>2. UNCHANGED <<events, raised, calls, scheduled, runs, wakes>>
      OBVIOUS
    <3> QED BY ONLY <3>1, <3>2, Inv DEF Inv, TypeOK, CountersOK
  <2> QED BY <1>1, <2>1, <2>2, <2>3, <2>4 DEF TypeOK
<1>3. LockInv'
  <2>1. StartInv'
    BY DEF TypeOK, PcOK, LockInv, StartInv, Goto
  <2>2. AppLockInv'
    BY AppUnlocked DEF TypeOK, LockInv
  <2>3. StatsLockInv'
    BY DEF TypeOK, PcOK, MutexOK, LockInv, StatsLockInv, Goto
  <2>4. CvInv'
    BY
         DEF TypeOK, PcOK, MutexOK, LockInv, CvInv, InFunc, FuncLabels, CallLabels,
             StatsLabels, Goto
  <2> QED BY <2>1, <2>2, <2>3, <2>4 DEF LockInv
<1>4. CopyInv'
  BY DEF TypeOK, PcOK, StatsOK, MutexOK, Goto, LockInv, StatsLockInv, StartInv, CopyInv
<1> QED BY <1>2, <1>3, <1>4

LEMMA StoreStatsStep ==
  ASSUME RacyStart = FALSE, Inv, StoreStats
  PROVE  Inv'
<1> USE ThreadsDistinct, Constants DEF Inv, StoreStats, clientVars, timerVars, chipVars
<1>1. PcOK'
  BY Moves, Stays
       DEF TypeOK, CallLabels, StatsLabels, BinderLabels, EventLabels, DelayLabels,
           FuncLabels, WaiterLabels
<1>2. TypeOK'
  <2>1. MutexOK'
    BY DEF TypeOK, MutexOK, Apps, Nugget, Goto
  <2>2. FlagsOK'
    BY DEF TypeOK, FlagsOK
  <2>3. StatsOK'
    <3>1. runs \in Nat
      BY DEF TypeOK, CountersOK
    <3>2. \/ stats' = [stats EXCEPT ![1] = runs]
          \/ stats' = [stats EXCEPT ![2] = runs]
          \/ stats' = stats
      BY DEF StorePart
    <3>3. UNCHANGED copy /\ buffer' \in {buffer, {}}
      OBVIOUS
    <3> QED BY ONLY <3>1, <3>2, <3>3, Inv DEF Inv, TypeOK, StatsOK
  <2>4. CountersOK'
    BY DEF TypeOK, CountersOK, Goto
  <2> QED BY <1>1, <2>1, <2>2, <2>3, <2>4 DEF TypeOK
<1>3. LockInv'
  <2>1. StartInv'
    BY DEF TypeOK, PcOK, LockInv, StartInv, Goto
  <2>2. AppLockInv'
    BY AppLocksStay DEF TypeOK, LockInv, AppLockInv
  <2>3. StatsLockInv'
    <3>1. \A s \in Threads \ {Waiter} : pc'[s] = pc[s]
      BY DEF TypeOK, PcOK, Goto
    <3>2. statsMutex = Waiter
      BY DEF LockInv, StatsLockInv
    <3>3. \/ pc'[Waiter] = "copy rest" /\ statsMutex' = Waiter
          \/ pc'[Waiter] = "func returns" /\ statsMutex' = None
      BY <3>2 DEF TypeOK, PcOK, Goto
    <3> QED BY <3>1, <3>2, <3>3 DEF LockInv, StatsLockInv
  <2>4. CvInv'
    BY
         DEF TypeOK, PcOK, MutexOK, LockInv, CvInv, InFunc, FuncLabels, CallLabels,
             StatsLabels, Goto
  <2> QED BY <2>1, <2>2, <2>3, <2>4 DEF LockInv
<1>4. CopyInv'
  <2>1. \A b \in Binders : pc'[b] = pc[b] /\ pc[b] # "copy rest"
    BY DEF TypeOK, PcOK, Goto, LockInv, StatsLockInv
  <2> QED BY <2>1 DEF CopyInv
<1> QED BY <1>2, <1>3, <1>4

LEMMA FuncReturnsStep ==
  ASSUME RacyStart = FALSE, Inv, FuncReturns
  PROVE  Inv'
<1> USE ThreadsDistinct, Constants
     DEF Inv, FuncReturns, WaiterLoops, Disarmed, clientVars, chipVars
<1>1. PcOK'
  BY Moves, Stays
       DEF TypeOK, CallLabels, StatsLabels, BinderLabels, EventLabels, DelayLabels,
           FuncLabels, WaiterLabels
<1>2. TypeOK'
  <2>1. MutexOK'
    BY DEF TypeOK, MutexOK, Apps, Nugget, Goto
  <2>2. FlagsOK'
    BY DEF TypeOK, FlagsOK
  <2>3. StatsOK'
    BY EmptySeqOfNats DEF TypeOK, StatsOK, CountersOK
  <2>4. CountersOK'
    BY DEF TypeOK, CountersOK, Goto
  <2> QED BY <1>1, <2>1, <2>2, <2>3, <2>4 DEF TypeOK
<1>3. LockInv'
  <2>1. StartInv'
    BY DEF TypeOK, PcOK, LockInv, StartInv, Goto
  <2>2. AppLockInv'
    <3>1. \A s \in Threads : pc'[s] = "CallApp" <=> pc[s] = "CallApp"
      BY DEF TypeOK, PcOK, Goto
    <3>2. UNCHANGED <<app, appLocks>>
      OBVIOUS
    <3> QED BY ONLY <3>1, <3>2, Inv, AppLocksKept DEF Inv, TypeOK, LockInv
  <2>3. StatsLockInv'
    BY DEF TypeOK, PcOK, MutexOK, LockInv, StatsLockInv, Goto
  <2>4. CvInv'
    BY
         DEF TypeOK, PcOK, MutexOK, LockInv, CvInv, InFunc, FuncLabels, CallLabels,
             StatsLabels, Goto
  <2> QED BY <2>1, <2>2, <2>3, <2>4 DEF LockInv
<1>4. CopyInv'
  BY DEF TypeOK, PcOK, StatsOK, MutexOK, Goto, LockInv, StatsLockInv, StartInv, CopyInv
<1> QED BY <1>2, <1>3, <1>4

LEMMA LockAppStep ==
  ASSUME NEW t \in Threads, RacyStart = FALSE, Inv, LockApp(t)
  PROVE  Inv'
<1> USE ThreadsDistinct, Constants DEF Inv, LockApp, clientVars, timerVars, chipVars
<1>1. PcOK'
  BY Moves, Stays
       DEF TypeOK, CallLabels, StatsLabels, BinderLabels, EventLabels, DelayLabels,
           FuncLabels, WaiterLabels
<1>2. TypeOK'
  <2>1. MutexOK'
    BY DEF TypeOK, MutexOK, Apps, Nugget, Goto
  <2>2. FlagsOK'
    BY DEF TypeOK, FlagsOK
  <2>3. StatsOK'
    BY EmptySeqOfNats DEF TypeOK, StatsOK, CountersOK
  <2>4. CountersOK'
    BY DEF TypeOK, CountersOK, Goto
  <2> QED BY <1>1, <2>1, <2>2, <2>3, <2>4 DEF TypeOK
<1>3. LockInv'
  <2>1. StartInv'
    BY DEF TypeOK, PcOK, LockInv, StartInv, Goto
  <2>2. AppLockInv'
    <3>1. pc'[t] = "CallApp" /\ \A s \in Threads \ {t} : pc'[s] = pc[s]
      BY DEF TypeOK, PcOK, Goto
    <3>2. /\ appLocks[app[t]] = None /\ appLocks'[app[t]] = t /\ app' = app
          /\ \A a \in Apps \ {app[t]} : appLocks'[a] = appLocks[a]
      BY DEF TypeOK, MutexOK
    <3> HIDE DEF LockApp
    <3>3. ASSUME NEW s \in Threads \ {t}, pc'[s] = "CallApp" PROVE appLocks'[app'[s]] = s
      <4>1. pc[s] = "CallApp" /\ app[s] \in Apps /\ appLocks[app[s]] = s
        BY <3>1, <3>3 DEF TypeOK, MutexOK, LockInv, AppLockInv
      <4>2. app[s] # app[t]
        BY <3>2, <4>1
      <4> QED BY <3>2, <4>1, <4>2
    <3>4. ASSUME NEW a \in Apps \ {app[t]}, appLocks'[a] # None
          PROVE  pc'[appLocks'[a]] = "CallApp" /\ app'[appLocks'[a]] = a
      <4>1. appLocks'[a] = appLocks[a] /\ appLocks[a] \in Threads /\ app[appLocks[a]] = a
        BY <3>2, <3>4 DEF TypeOK, MutexOK, LockInv, AppLockInv
      <4>2. pc[appLocks[a]] = "CallApp"
        BY <3>4, <4>1 DEF LockInv, AppLockInv
      <4>3. appLocks[a] # t
        BY <4>1
      <4> QED BY <3>1, <3>2, <4>1, <4>2, <4>3
    <3> QED BY <3>1, <3>2, <3>3, <3>4 DEF AppLockInv, TypeOK, MutexOK
  <2>3. StatsLockInv'
    BY DEF TypeOK, PcOK, MutexOK, LockInv, StatsLockInv, Goto
  <2>4. CvInv'
    BY
         DEF TypeOK, PcOK, MutexOK, LockInv, CvInv, InFunc, FuncLabels, CallLabels,
             StatsLabels, Goto
  <2> QED BY <2>1, <2>2, <2>3, <2>4 DEF LockInv
<1>4. CopyInv'
  BY DEF TypeOK, PcOK, StatsOK, MutexOK, Goto, LockInv, StatsLockInv, StartInv, CopyInv
<1> QED BY <1>2, <1>3, <1>4

LEMMA LockStatsStep ==
  ASSUME NEW t \in Threads, t \in Binders \cup {Waiter}, RacyStart = FALSE, Inv, LockStats(t)
  PROVE  Inv'
<1> USE ThreadsDistinct, Constants DEF Inv, LockStats, clientVars, timerVars, chipVars
<1>1. PcOK'
  BY Moves, Stays
       DEF TypeOK, CallLabels, StatsLabels, BinderLabels, EventLabels, DelayLabels,
           FuncLabels, WaiterLabels
<1>2. TypeOK'
  <2>1. MutexOK'
    BY DEF TypeOK, MutexOK, Apps, Nugget, Goto
  <2>2. FlagsOK'
    BY DEF TypeOK, FlagsOK
  <2>3. StatsOK'
    BY EmptySeqOfNats DEF TypeOK, StatsOK, CountersOK
  <2>4. CountersOK'
    BY DEF TypeOK, CountersOK, Goto
  <2> QED BY <1>1, <2>1, <2>2, <2>3, <2>4 DEF TypeOK
<1>3. LockInv'
  <2>1. StartInv'
    BY DEF TypeOK, PcOK, LockInv, StartInv, Goto
  <2>2. AppLockInv'
    <3>1. \A s \in Threads : pc'[s] = "CallApp" <=> pc[s] = "CallApp"
      BY DEF TypeOK, PcOK, Goto
    <3>2. UNCHANGED <<app, appLocks>>
      OBVIOUS
    <3> QED BY ONLY <3>1, <3>2, Inv, AppLocksKept DEF Inv, TypeOK, LockInv
  <2>3. StatsLockInv'
    BY DEF TypeOK, PcOK, MutexOK, LockInv, StatsLockInv, Goto
  <2>4. CvInv'
    BY
         DEF TypeOK, PcOK, MutexOK, LockInv, CvInv, InFunc, FuncLabels, CallLabels,
             StatsLabels, Goto
  <2> QED BY <2>1, <2>2, <2>3, <2>4 DEF LockInv
<1>4. CopyInv'
  BY DEF TypeOK, PcOK, StatsOK, MutexOK, Goto, LockInv, StatsLockInv, StartInv, CopyInv
<1> QED BY <1>2, <1>3, <1>4

-----------------------------------------------------------------------------
LEMMA InvNext ==
  ASSUME RacyStart = FALSE, Inv, [Next]_vars
  PROVE  Inv'
<1> USE ThreadsDistinct
<1>1. CASE UNCHANGED vars
  <2>1. TypeOK'
    BY <1>1 DEF vars, clientVars, timerVars, chipVars, Inv, TypeOK, PcOK, MutexOK,
                FlagsOK, StatsOK, CountersOK
  <2>2. LockInv' /\ CopyInv'
    BY <1>1 DEF vars, clientVars, timerVars, chipVars, Inv, LockInv, StartInv,
                AppLockInv, StatsLockInv, CvInv, InFunc, CopyInv
  <2> QED BY <2>1, <2>2 DEF Inv
<1>2. CASE MainSteps
  BY <1>2, ConstructAppLocksStep, ConstructCvStep, ConstructStatsMutexStep, AddServiceStep
     DEF MainSteps
<1>3. ASSUME NEW b \in Binders, ClientSteps(b)
      PROVE  Inv'
  <2>1. ASSUME NEW appId \in -1 .. MaxAppId + 1, NEW arg \in BOOLEAN, CallApp(b, appId, arg)
        PROVE  Inv'
    <3>1. appId \in Int
      BY Constants
    <3> QED BY <2>1, <3>1, CallAppStep
  <2> QED BY <1>3, <2>1, ResetStep, GetStatsStep DEF ClientSteps
<1>4. ASSUME NEW b \in Binders, BinderSteps(b)
      PROVE  Inv'
  BY <1>4, LockAppStep, BinderCallAppReturnsStep, ScheduleStep, LockStatsStep, CopyStatsStep
     DEF BinderSteps
<1>5. CASE EventSteps
  BY <1>5, WaitForInterruptStep, LockAppStep, EventCallAppReturnsStep, SleepEndsStep
     DEF EventSteps
<1>6. CASE WaiterSteps
  BY <1>6, WaiterStartsStep, StartDelayStep, RestartDelayStep, DelayEndsStep, CallFuncStep,
     LockAppStep, WaiterCallAppReturnsStep, LockStatsStep, StoreStatsStep, FuncReturnsStep
     DEF WaiterSteps
<1>7. CASE RaiseEvent
  BY <1>7, RaiseEventStep
<1>8. CASE WakeSpuriously
  BY <1>8, WakeSpuriouslyStep
<1> QED BY <1>1, <1>2, <1>3, <1>4, <1>5, <1>6, <1>7, <1>8 DEF Next

LEMMA InvHolds ==
  ASSUME RacyStart = FALSE
  PROVE  Spec => []Inv
<1>1. Init => Inv
  BY InvInit
<1>2. Inv /\ [Next]_vars => Inv'
  BY InvNext
<1> QED BY <1>1, <1>2, PTL DEF Spec

(* The state of every thread and mutex has its type at all times: in       *)
(* particular callApp's range checks make every appId an index of          *)
(* _appLocks, whatever a client asks for.                                  *)
THEOREM TypeCorrect ==
  ASSUME RacyStart = FALSE
  PROVE  Spec => []TypeOK
<1>1. Inv => TypeOK
  BY DEF Inv
<1> QED BY <1>1, InvHolds, PTL

(* However many binder threads and apps there are, no two threads are in a *)
(* call to the same app (lockedCallApp), if no thread runs before the      *)
(* mutexes are constructed.                                                *)
THEOREM AppCallsNeverOverlap ==
  ASSUME RacyStart = FALSE
  PROVE  Spec => []AppCallsExclusive
<1>1. Inv => AppCallsExclusive
  <2> SUFFICES ASSUME Inv, NEW s \in Threads, NEW t \in Threads, s # t,
                      pc[s] = "CallApp", pc[t] = "CallApp"
               PROVE  app[s] # app[t]
    BY DEF AppCallsExclusive
  <2>1. appLocks[app[s]] = s /\ appLocks[app[t]] = t
    BY DEF Inv, LockInv, AppLockInv
  <2> QED BY <2>1
<1> QED BY <1>1, InvHolds, PTL

(* The order of the locks: only the waiter, in cacheStats(), waits for a   *)
(* mutex while it holds one, so threads never wait in a circle.            *)
THEOREM LocksInOrder ==
  ASSUME RacyStart = FALSE
  PROVE  Spec => []LockOrder
<1>1. Inv => LockOrder
  <2> SUFFICES ASSUME Inv, NEW t \in Threads,
                      pc[t] \in {"lock app", "lock stats", "schedule", "start", "notified",
                                "restarted", "timeout"}
               PROVE  /\ \A a \in Apps : appLocks[a] # t
                      /\ statsMutex # t
                      /\ cvMutex = t => InFunc /\ t = Waiter
    BY DEF LockOrder
  <2>1. \A a \in Apps : appLocks[a] # t
    <3> SUFFICES ASSUME NEW a \in Apps, appLocks[a] = t
                 PROVE  pc[t] = "CallApp"
      OBVIOUS
    <3>1. appLocks[a] # None
      BY ThreadsDistinct
    <3> QED BY <3>1 DEF Inv, LockInv, AppLockInv
  <2>2. statsMutex # t
    BY DEF Inv, LockInv, StatsLockInv
  <2>3. cvMutex = t => InFunc /\ t = Waiter
    BY ThreadsDistinct DEF Inv, LockInv, CvInv
  <2> QED BY <2>1, <2>2, <2>3
<1> QED BY <1>1, InvHolds, PTL
-----------------------------------------------------------------------------
LEMMA SnapshotStep ==
  ASSUME RacyStart = FALSE, Inv, [Next]_vars, NEW b \in Binders,
         pc[b] = "copy rest", pc'[b] = "idle"
  PROVE  copy'[b] = <<stats[1], stats[2]>> /\ pc[Waiter] # "copy rest"
<1> USE ThreadsDistinct
<1>1. pc \in [Threads -> BinderLabels \cup EventLabels \cup WaiterLabels]
  BY DEF Inv, TypeOK, PcOK
<1>2. pc[Waiter] # "copy rest"
  BY DEF Inv, LockInv, StatsLockInv
<1>3. CopyStats(b)
  <2>1. CASE UNCHANGED vars \/ MainSteps \/ RaiseEvent \/ \E c \in Binders : ClientSteps(c)
    <3>1. CASE UNCHANGED vars \/ MainSteps \/ RaiseEvent
      BY <3>1 DEF vars, MainSteps, ConstructAppLocks, ConstructCv, ConstructStatsMutex,
                  AddService, RaiseEvent
    <3>2. ASSUME NEW c \in Binders, ClientSteps(c)
          PROVE  pc'[b] = pc[b]
      <4>1. pc[c] = "idle"
        BY <3>2 DEF ClientSteps, CallApp, Reset, GetStats, Serve
      <4> QED BY <1>1, <3>2, <4>1 DEF ClientSteps, CallApp, Reset, GetStats, Goto
    <3> QED BY <2>1, <3>1, <3>2
  <2>2. ASSUME NEW c \in Binders, BinderSteps(c)
        PROVE  CopyStats(b)
    <3>1. CASE c = b
      BY <1>1, <2>2, <3>1 DEF BinderSteps, LockApp, BinderCallAppReturns, CallAppEnds, Schedule,
         LockStats
    <3>2. CASE c # b
      <4>1. pc'[b] = pc[b]
        BY <1>1, <2>2, <3>2 DEF BinderSteps, LockApp, BinderCallAppReturns, Schedule,
           LockStats, CopyStats, Goto
      <4> QED BY <4>1
    <3> QED BY <3>1, <3>2
  <2>3. CASE EventSteps
    BY <1>1, <2>3
       DEF EventSteps, WaitForInterrupt, LockApp, EventCallAppReturns, SleepEnds, Goto
  <2>4. CASE WaiterSteps \/ WakeSpuriously
    BY <1>1, <2>4
       DEF WaiterSteps, WaiterStarts, StartDelay, RestartDelay, DelayEnds, CallFunc, LockApp,
           WaiterCallAppReturns, LockStats, StoreStats, FuncReturns, WaiterLoops,
           WakeSpuriously, Goto
  <2> QED BY <2>1, <2>2, <2>3, <2>4 DEF Next
<1>4. copy'[b] = Append(copy[b], stats[2])
  BY <1>3 DEF CopyStats, Inv, TypeOK, StatsOK
<1>5. copy[b] = <<stats[1]>>
  BY DEF Inv, CopyInv
<1>6. stats[1] \in Nat /\ stats[2] \in Nat
  <2>1. StatsOK
    BY DEF Inv, TypeOK
  <2> QED BY ONLY <2>1 DEF StatsOK
<1>7. Append(<<stats[1]>>, stats[2]) = <<stats[1], stats[2]>>
  BY ONLY <1>6, OneMore
<1> QED BY ONLY <1>2, <1>4, <1>5, <1>7

(* Each call of getCachedStats and onGetStats gets _stats as it is when    *)
(* the call gives the lock back, which is never between the parts of a     *)
(* collection that cacheStats() stores.                                    *)
THEOREM SnapshotsAreWhole ==
  ASSUME RacyStart = FALSE
  PROVE  Spec => SnapshotWhole
<1>1. ASSUME Inv, [Next]_vars
      PROVE  [\A b \in Binders :
                pc[b] = "copy rest" /\ pc'[b] = "idle" =>
                  copy'[b] = <<stats[1], stats[2]>> /\ pc[Waiter] # "copy rest"]_vars
  BY <1>1, SnapshotStep
<1> QED BY <1>1, InvHolds, PTL DEF Spec, SnapshotWhole
-----------------------------------------------------------------------------
(* The rest of the module relates the proxy to its abstract timer.  A step *)
(* of another thread, and a step of the waiter that keeps it waiting, in   *)
(* the delay or in the function, is a stutter of the timer.                *)
LEMMA OtherThreads ==
  ASSUME WaitInv, UNCHANGED <<armed, scheduled, runs, wakes>>,
         listed' = listed \/ pc[Waiter] # "wait",
         pc'[Waiter] = pc[Waiter]
  PROVE  WaitInv' /\ UNCHANGED Timer!vars
<1>1. Pending' = Pending /\ Woken' = Woken
  BY DEF Pending, Woken, InFunc
<1>2. WaitInv'
  BY DEF WaitInv
<1> QED BY <1>1, <1>2 DEF Timer!vars

LEMMA WaiterMoves ==
  ASSUME PcOK, UNCHANGED <<armed, scheduled, runs, wakes>>,
         NEW label, Goto(Waiter, label), label # "wait",
         pc[Waiter] \in FuncLabels <=> label \in FuncLabels,
         armed \/ (pc[Waiter] \in DelayLabels <=> label \in DelayLabels)
  PROVE  WaitInv' /\ UNCHANGED Timer!vars
<1>1. pc'[Waiter] = label
  BY ThreadsDistinct DEF Goto, PcOK
<1>2. Pending' = Pending /\ Woken' = Woken
  BY <1>1 DEF Pending, Woken, InFunc
<1>3. WaitInv'
  BY <1>1 DEF WaitInv
<1> QED BY <1>2, <1>3 DEF Timer!vars

LEMMA LabelsDisjoint ==
  /\ "wait" \notin DelayLabels \cup FuncLabels
  /\ "start" \notin DelayLabels \cup FuncLabels
  /\ \A label \in DelayLabels : label \notin FuncLabels
BY DEF DelayLabels, FuncLabels, CallLabels, StatsLabels

LEMMA ScheduleIsSchedule ==
  ASSUME Inv, WaitInv, NEW b \in Binders, Schedule(b)
  PROVE  WaitInv' /\ Timer!Schedule
<1>1. ~ InFunc
  BY ThreadsDistinct DEF Schedule, ScheduleMay, Inv, LockInv, CvInv
<1>2. pc'[Waiter] = Notify
  <2>1. pc \in [Threads -> BinderLabels \cup EventLabels \cup WaiterLabels]
    BY DEF Inv, TypeOK, PcOK
  <2>2. pc' = [pc EXCEPT ![b] = "idle", ![Waiter] = Notify]
    BY DEF Schedule
  <2> QED BY <2>1, <2>2, ThreadsDistinct
<1>3. ~ InFunc'
  BY <1>1, <1>2 DEF InFunc, Notify, FuncLabels, CallLabels, StatsLabels
<1>4. armed' = TRUE /\ scheduled' = scheduled + 1 /\ runs' = runs /\ wakes' = wakes
  BY DEF Schedule
<1>5. Pending' = TRUE /\ Woken' = FALSE
  BY <1>3, <1>4 DEF Pending, Woken
<1>6. WaitInv'
  BY <1>2 DEF WaitInv, Notify
<1> QED BY <1>4, <1>5, <1>6 DEF Timer!Schedule

LEMMA CallFuncIsFire ==
  ASSUME Inv, CallFunc
  PROVE  WaitInv' /\ Timer!Fire
<1>1. pc[Waiter] = "timeout" /\ armed \in BOOLEAN
  BY DEF CallFunc, Inv, TypeOK, FlagsOK
<1>2. pc[Waiter] \in DelayLabels /\ ~ InFunc
  BY <1>1 DEF InFunc, DelayLabels, FuncLabels, CallLabels, StatsLabels
<1>3. pc'[Waiter] = "lock app"
  BY ThreadsDistinct DEF CallFunc, Goto, Inv, TypeOK, PcOK
<1>4. InFunc' /\ pc'[Waiter] \notin DelayLabels
  BY <1>3 DEF InFunc, DelayLabels, FuncLabels, CallLabels
<1>5. armed' = armed /\ scheduled' = scheduled /\ runs' = runs + 1 /\ wakes' = wakes
  BY DEF CallFunc
<1>6. (Pending \/ Woken) /\ Pending' = FALSE /\ Woken' = FALSE
  BY <1>1, <1>2, <1>4 DEF Pending, Woken
<1>7. WaitInv'
  BY <1>3 DEF WaitInv
<1> QED BY <1>5, <1>6, <1>7 DEF Timer!Fire

LEMMA FuncReturnsIsStutter ==
  ASSUME Inv, FuncReturns
  PROVE  WaitInv' /\ UNCHANGED Timer!vars
<1>1. InFunc /\ pc[Waiter] \notin DelayLabels
  BY DEF FuncReturns, InFunc, FuncLabels, DelayLabels
<1>2. pc'[Waiter] = "wait" /\ armed' = FALSE /\ listed' = TRUE
  BY ThreadsDistinct DEF FuncReturns, WaiterLoops, Disarmed, Goto, Inv, TypeOK, PcOK
<1>3. Pending = FALSE /\ Pending' = FALSE /\ Woken = FALSE /\ Woken' = FALSE
  BY <1>1, <1>2, LabelsDisjoint DEF Pending, Woken
<1>4. WaitInv'
  BY <1>2 DEF WaitInv
<1>5. UNCHANGED <<scheduled, runs, wakes>>
  BY DEF FuncReturns
<1> QED BY <1>3, <1>4, <1>5 DEF Timer!vars

(* At the head of the loop the waiter, when not armed, waits without a     *)
(* delay: if a spurious wakeup had started one, that is forgotten.         *)
LEMMA LoopWaitsAgain ==
  ASSUME Inv, WaiterStarts \/ RestartDelay
  PROVE  WaitInv' /\ [Timer!WaitAgain]_(Timer!vars)
<1>1. /\ pc'[Waiter] = IF armed THEN "wait_until" ELSE "wait"
      /\ listed' = TRUE
  BY ThreadsDistinct DEF WaiterStarts, RestartDelay, WaiterLoops, Goto, Inv, TypeOK, PcOK
<1>2. UNCHANGED <<armed, scheduled, runs, wakes>> /\ armed \in BOOLEAN
  BY DEF WaiterStarts, RestartDelay, Inv, TypeOK, FlagsOK
<1>3. WaitInv'
  BY <1>1, <1>2 DEF WaitInv
<1>4. ~ InFunc /\ ~ InFunc'
  BY <1>1 DEF WaiterStarts, RestartDelay, InFunc, FuncLabels, CallLabels, StatsLabels
<1>5. Pending' = Pending
  BY <1>2, <1>4 DEF Pending
<1>6. Woken' = FALSE
  BY <1>1, <1>2, LabelsDisjoint DEF Woken
<1>7. CASE Woken
  BY <1>2, <1>3, <1>5, <1>6, <1>7 DEF Timer!WaitAgain
<1>8. CASE ~ Woken
  <2>1. Woken = FALSE
    BY <1>8 DEF Woken
  <2> QED BY <1>2, <1>3, <1>5, <1>6, <2>1 DEF Timer!vars
<1> QED BY <1>7, <1>8

LEMMA WakeSpuriouslyIsWake ==
  ASSUME Inv, WaitInv, WakeSpuriously
  PROVE  WaitInv' /\ [Timer!Wake]_(Timer!vars)
<1>1. UNCHANGED <<armed, scheduled, runs>> /\ PcOK
  BY DEF WakeSpuriously, Inv, TypeOK
<1>2. CASE pc[Waiter] = "wait" /\ Goto(Waiter, "notified") /\ wakes' = wakes + 1
  <2>1. ~ armed
    BY <1>2 DEF WaitInv
  <2>2. pc'[Waiter] = "notified"
    BY <1>1, <1>2, ThreadsDistinct DEF Goto, PcOK
  <2>3. ~ Pending /\ ~ Woken /\ Pending' = Pending
    BY <1>1, <1>2, <2>1, LabelsDisjoint DEF Pending, Woken
  <2>4. Woken' = TRUE
    BY <1>1, <2>1, <2>2 DEF Woken, DelayLabels
  <2>5. WaitInv'
    BY <2>2 DEF WaitInv
  <2> QED BY <1>1, <1>2, <2>3, <2>4, <2>5 DEF Timer!Wake
<1>3. CASE pc[Waiter] = "wait_until" /\ Goto(Waiter, "restarted") /\ UNCHANGED wakes
  <2>1. "wait_until" \in DelayLabels /\ "restarted" \in DelayLabels
    BY DEF DelayLabels
  <2> QED BY <1>1, <1>3, <2>1, LabelsDisjoint, WaiterMoves
<1> QED BY <1>2, <1>3 DEF WakeSpuriously

LEMMA TimerNext ==
  ASSUME RacyStart = FALSE, Inv, WaitInv, [Next]_vars
  PROVE  WaitInv' /\ [Timer!Next]_(Timer!vars)
<1> USE ThreadsDistinct
<1>1. PcOK
  BY DEF Inv, TypeOK
<1>2. CASE UNCHANGED vars \/ MainSteps \/ RaiseEvent
  <2>1. UNCHANGED <<armed, scheduled, runs, wakes>> /\ pc'[Waiter] = pc[Waiter]
    BY <1>2 DEF vars, timerVars, MainSteps, ConstructAppLocks, ConstructCv,
                ConstructStatsMutex, AddService, RaiseEvent
  <2>2. listed' = listed \/ pc[Waiter] # "wait"
    <3>1. CASE ConstructCv
      BY <3>1 DEF ConstructCv, Inv, LockInv, StartInv
    <3>2. CASE ~ ConstructCv
      BY <1>2, <3>2 DEF vars, timerVars, MainSteps, ConstructAppLocks,
                        ConstructStatsMutex, AddService, RaiseEvent
    <3> QED BY <3>1, <3>2
  <2> QED BY <2>1, <2>2, OtherThreads
<1>3. ASSUME NEW b \in Binders, ClientSteps(b)
      PROVE  WaitInv' /\ UNCHANGED Timer!vars
  <2>1. UNCHANGED <<armed, listed, scheduled, runs, wakes>>
    BY <1>3 DEF ClientSteps, CallApp, Reset, GetStats, timerVars
  <2>2. pc'[Waiter] = pc[Waiter]
    BY <1>1, <1>3 DEF ClientSteps, CallApp, Reset, GetStats, Goto, PcOK
  <2> QED BY <2>1, <2>2, OtherThreads
<1>4. ASSUME NEW b \in Binders, BinderSteps(b)
      PROVE  WaitInv' /\ [Timer!Next]_(Timer!vars)
  <2>1. CASE Schedule(b)
    BY <2>1, ScheduleIsSchedule DEF Timer!Next
  <2>2. CASE LockApp(b) \/ BinderCallAppReturns(b) \/ LockStats(b) \/ CopyStats(b)
    <3>1. UNCHANGED <<armed, listed, scheduled, runs, wakes>>
      BY <2>2 DEF LockApp, BinderCallAppReturns, LockStats, CopyStats, timerVars
    <3>2. pc'[Waiter] = pc[Waiter]
      BY <1>1, <2>2 DEF LockApp, BinderCallAppReturns, LockStats, CopyStats, Goto, PcOK
    <3> QED BY <3>1, <3>2, OtherThreads
  <2> QED BY <1>4, <2>1, <2>2 DEF BinderSteps
<1>5. CASE EventSteps
  <2>1. UNCHANGED <<armed, listed, scheduled, runs, wakes>>
    BY <1>5
         DEF EventSteps, WaitForInterrupt, LockApp, EventCallAppReturns, SleepEnds,
             timerVars
  <2>2. pc'[Waiter] = pc[Waiter]
    BY <1>1, <1>5 DEF EventSteps, WaitForInterrupt, LockApp, EventCallAppReturns, SleepEnds,
                      Goto, PcOK
  <2> QED BY <2>1, <2>2, OtherThreads
<1>6. CASE WaiterSteps
  <2>1. CASE CallFunc
    BY <2>1, CallFuncIsFire DEF Timer!Next
  <2>2. CASE FuncReturns
    BY <2>2, FuncReturnsIsStutter
  <2>3. CASE WaiterStarts \/ RestartDelay
    BY <2>3, LoopWaitsAgain DEF Timer!Next
  <2>4. CASE StartDelay \/ DelayEnds
    <3>1. PICK label \in {"wait_until", "timeout"} : Goto(Waiter, label)
      BY <2>4 DEF StartDelay, DelayEnds
    <3>2. UNCHANGED <<armed, scheduled, runs, wakes>>
      BY <2>4 DEF StartDelay, DelayEnds, timerVars
    <3>3. pc[Waiter] \in DelayLabels /\ label \in DelayLabels /\ label # "wait"
      BY <2>4, <3>1 DEF StartDelay, DelayEnds, DelayLabels
    <3> QED BY <1>1, <3>1, <3>2, <3>3, LabelsDisjoint, WaiterMoves
  <2>5. CASE LockApp(Waiter) \/ WaiterCallAppReturns \/ LockStats(Waiter) \/ StoreStats
    <3>1. PICK label \in FuncLabels : Goto(Waiter, label)
      BY <2>5 DEF LockApp, WaiterCallAppReturns, LockStats, StoreStats,
                  FuncLabels, CallLabels, StatsLabels
    <3>2. UNCHANGED <<armed, scheduled, runs, wakes>>
      BY <2>5 DEF LockApp, WaiterCallAppReturns, LockStats, StoreStats, timerVars
    <3>3. pc[Waiter] \in FuncLabels
      BY <2>5 DEF LockApp, WaiterCallAppReturns, CallAppEnds, LockStats, StoreStats,
                  FuncLabels, CallLabels, StatsLabels
    <3> QED BY <1>1, <3>1, <3>2, <3>3, LabelsDisjoint, WaiterMoves
  <2> QED BY <1>6, <2>1, <2>2, <2>3, <2>4, <2>5 DEF WaiterSteps
<1>7. CASE WakeSpuriously
  BY <1>7, WakeSpuriouslyIsWake DEF Timer!Next
<1> QED BY <1>2, <1>3, <1>4, <1>5, <1>6, <1>7 DEF Next

LEMMA TimerInit ==
  Init => WaitInv /\ Timer!Init
<1> SUFFICES ASSUME Init PROVE WaitInv /\ Timer!Init
  OBVIOUS
<1>1. armed = FALSE /\ scheduled = 0 /\ runs = 0 /\ wakes = 0
  BY DEF Init
<1>2. pc[Waiter] = "start"
  BY ThreadsDistinct DEF Init
<1>3. WaitInv
  BY <1>2 DEF WaitInv
<1>4. Pending = FALSE /\ Woken = FALSE
  BY <1>1, <1>2, LabelsDisjoint DEF Pending, Woken
<1> QED BY <1>1, <1>3, <1>4 DEF Timer!Init

(* The DeferredCallback implements the timer its comment promises, as far  *)
(* as safety goes: one call of the function for the schedule()s before it, *)
(* and no other, unless a condition variable woke its waiter for nothing.  *)
THEOREM DeferredCallbackIsTimer ==
  ASSUME RacyStart = FALSE
  PROVE  Spec => Timer!Spec
<1>1. Init => WaitInv /\ Timer!Init
  BY TimerInit
<1>2. Inv /\ WaitInv /\ [Next]_vars => WaitInv' /\ [Timer!Next]_(Timer!vars)
  BY TimerNext
<1> QED BY <1>1, <1>2, InvHolds, PTL DEF Spec, Timer!Spec

(* What a call of the timer's function costs: a schedule() or a wakeup.    *)
Owed == IF Pending \/ Woken THEN 1 ELSE 0

LEMMA TimerCounts ==
  ASSUME RacyStart = FALSE
  PROVE  Spec => [](runs + Owed <= scheduled + wakes)
<1> DEFINE Count == runs + Owed <= scheduled + wakes
<1>1. Init => Count
  <2> SUFFICES ASSUME Init PROVE Count
    OBVIOUS
  <2>1. Timer!Init
    BY TimerInit
  <2>2. Owed = 0
    BY <2>1 DEF Timer!Init, Owed
  <2> QED BY <2>1, <2>2 DEF Timer!Init
<1>2. Inv /\ Count /\ [Timer!Next]_(Timer!vars) => Count'
  <2> SUFFICES ASSUME Inv, Count, [Timer!Next]_(Timer!vars) PROVE Count'
    OBVIOUS
  <2> USE DEF Owed
  <2>1. runs \in Nat /\ scheduled \in Nat /\ wakes \in Nat
    BY DEF Inv, TypeOK, CountersOK
  <2>2. CASE UNCHANGED Timer!vars
    BY <2>2 DEF Timer!vars
  <2>3. CASE Timer!Schedule
    BY <2>1, <2>3 DEF Timer!Schedule
  <2>4. CASE Timer!Wake
    BY <2>1, <2>4 DEF Timer!Wake
  <2>5. CASE Timer!WaitAgain
    BY <2>1, <2>5 DEF Timer!WaitAgain
  <2>6. CASE Timer!Fire
    BY <2>1, <2>6 DEF Timer!Fire
  <2> QED BY <2>2, <2>3, <2>4, <2>5, <2>6 DEF Timer!Next
<1> QED BY <1>1, <1>2, InvHolds, DeferredCallbackIsTimer, PTL DEF Spec, Timer!Spec

(* cacheStats() runs at most once per callApp and per spurious wakeup.     *)
THEOREM NoUnscheduledRuns ==
  ASSUME RacyStart = FALSE
  PROVE  Spec => []RunsAreScheduled
<1>1. Inv /\ runs + Owed <= scheduled + wakes => RunsAreScheduled
  BY DEF Inv, TypeOK, CountersOK, RunsAreScheduled, Owed
<1> QED BY <1>1, InvHolds, TimerCounts, PTL
=============================================================================
