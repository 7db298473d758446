--------------------------- MODULE DeferredTimer ---------------------------
(***************************************************************************)
(* What citadeld's DeferredCallback promises (citadeld/main.cpp:67-71):    *)
(* schedule() makes a call of the function pending, or leaves it pending;  *)
(* a pending call happens, once.  A condition variable may wake its waiter *)
(* for no reason: then a call may happen that nobody asked for, or not.    *)
(***************************************************************************)
EXTENDS Naturals

VARIABLES
  pending,    \* schedule() was called and the function has not been, since
  woken,      \* none is pending, but a spurious wakeup can cause a call
  scheduled,  \* how many times schedule() was called
  runs,       \* how many times the function was called
  wakes       \* how many spurious wakeups there were

vars == <<pending, woken, scheduled, runs, wakes>>

Init ==
  /\ pending = FALSE
  /\ woken = FALSE
  /\ scheduled = 0
  /\ runs = 0
  /\ wakes = 0

Schedule ==
  /\ pending' = TRUE
  /\ woken' = FALSE
  /\ scheduled' = scheduled + 1
  /\ UNCHANGED <<runs, wakes>>

Wake ==
  /\ ~ pending /\ ~ woken
  /\ woken' = TRUE
  /\ wakes' = wakes + 1
  /\ UNCHANGED <<pending, scheduled, runs>>

(* The wakeup is noticed to have had no reason. *)
WaitAgain ==
  /\ woken
  /\ woken' = FALSE
  /\ UNCHANGED <<pending, scheduled, runs, wakes>>

Fire ==
  /\ pending \/ woken
  /\ pending' = FALSE
  /\ woken' = FALSE
  /\ runs' = runs + 1
  /\ UNCHANGED <<scheduled, wakes>>

Next == Schedule \/ Wake \/ WaitAgain \/ Fire

Spec == Init /\ [][Next]_vars

FairSpec == Spec /\ WF_vars(Fire)
=============================================================================
