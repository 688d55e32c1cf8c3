----------------------- MODULE RoutineSyncTimerProofs -----------------------
(***************************************************************************)
(* Proofs about RoutineSyncTimer, for every set of timers, every bound on  *)
(* time and every loop interval.                                           *)
(*                                                                         *)
(* NoOversleep is not inductive alone: a timer must not change its time    *)
(* point while it is in the set.  OutsideSet says where its owner may be   *)
(* while it is out of it.                                                  *)
(***************************************************************************)
EXTENDS RoutineSyncTimer, TLAPS

(* Where the user of a timer has not added it yet, has cancelled it, or is  *)
(* between the erase and the insert of reset(), the timer is out of the set *)
OutsideSet ==
    \A i \in Ids : caller[i] \in {"new", "canceled", "inserting"} => i \notin timerIds

(* The wrapper's mutex is held exactly by those who have taken it.          *)
MutexHeld ==
    \A i \in Ids :
        /\ caller[i] = "locked" => invokeLocked[i]
        /\ (pc \in {"invoke", "callback"} /\ id = i) => invokeLocked[i]
        /\ invokeLocked[i] => caller[i] = "locked" \/ (pc \in {"invoke", "callback"} /\ id = i)
        /\ ~(caller[i] = "locked" /\ pc \in {"invoke", "callback"} /\ id = i)

(* start() is only possible when the previous timer thread is gone, so     *)
(* there is one run() at a time.                                           *)
OneThread == ctl = "stopped" => pc = "exited"

IInv == TypeOK /\ OutsideSet /\ NoOversleep /\ MutexHeld /\ OneThread

-----------------------------------------------------------------------------

(* The initial states satisfy the invariant. *)
LEMMA InitIInv == Init => IInv
<1> SUFFICES ASSUME Init PROVE IInv
  OBVIOUS
<1>1. TypeOK
  <2>1. 0 \in TimePoints /\ 0 \in 0..(MaxTime + LoopInterval)
    BY TimerAssumption DEF TimePoints
  <2>2. tp \in [Ids -> TimePoints]
    BY <2>1 DEF Init
  <2> QED
    BY <2>1, <2>2 DEF Init, TypeOK
<1>2. OutsideSet /\ NoOversleep /\ MutexHeld /\ OneThread
  BY DEF Init, OutsideSet, NoOversleep, MutexHeld, OneThread
<1> QED
  BY <1>1, <1>2 DEF IInv

(* Every step keeps every variable in its type. *)
LEMMA NextTypeOK == TypeOK /\ [Next]_vars => TypeOK'
<1> SUFFICES ASSUME TypeOK, [Next]_vars PROVE TypeOK'
  OBVIOUS
<1> USE TimerAssumption DEF TypeOK, TimePoints
<1>1. ASSUME NEW i \in Ids, Add(i) PROVE TypeOK'
  BY <1>1 DEF Add, InsertTimerId, TouchTimerIds
<1>2. ASSUME NEW i \in Ids, ResetBegin(i) PROVE TypeOK'
  BY <1>2 DEF ResetBegin, timerVars, threadVars
<1>3. ASSUME NEW i \in Ids, ResetErase(i) PROVE TypeOK'
  <2>1. timerIds' \subseteq Ids /\ done' \in [Ids -> BOOLEAN]
    BY <1>3 DEF ResetErase, Equivalent
  <2>2. caller' \in [Ids -> {"new", "idle", "erasing", "inserting", "locking",
                             "locked", "canceling", "canceled"}]
    BY <1>3 DEF ResetErase
  <2>3. tp' \in [Ids -> TimePoints]
    BY <1>3 DEF ResetErase
  <2> QED
    BY <1>3, <2>1, <2>2, <2>3 DEF ResetErase, threadVars
<1>4. ASSUME NEW i \in Ids, ResetInsert(i) PROVE TypeOK'
  BY <1>4 DEF ResetInsert, InsertTimerId, TouchTimerIds
<1>5. ASSUME NEW i \in Ids, CancelCall(i) \/ CancelLock(i) \/ CancelMark(i) PROVE TypeOK'
  BY <1>5 DEF CancelCall, CancelLock, CancelMark, timerVars, threadVars
<1>6. ASSUME NEW i \in Ids, CancelErase(i) PROVE TypeOK'
  BY <1>6 DEF CancelErase, Equivalent, TouchTimerIds, threadVars
<1>7. CASE RunExit
  BY <1>7 DEF RunExit, timerVars
<1>8. CASE RunFire
  BY <1>8 DEF RunFire, IsBegin, Equivalent, TryInvoke, TouchTimerIds
<1>9. CASE RunInvoke
  BY <1>9 DEF RunInvoke
<1>10. CASE RunCallbackReturns
  BY <1>10 DEF RunCallbackReturns
<1>11. CASE RunSleep
  <2>1. id' \in Ids \cup {NoId}
    BY <1>11 DEF RunSleep
  <2>2. SleepUntil(id') \in 0..(MaxTime + LoopInterval)
    <3>1. CASE id' = NoId
      BY <3>1 DEF SleepUntil
    <3>2. CASE id' \in Ids
      BY <3>2 DEF SleepUntil
    <3> QED
      BY <2>1, <3>1, <3>2
  <2> QED
    BY <1>11, <2>1, <2>2 DEF RunSleep, TouchTimerIds, timerVars
<1>12. CASE RunWake \/ RunSpuriousWake
  BY <1>12 DEF RunWake, RunSpuriousWake, timerVars
<1>13. CASE Start \/ Stop \/ StopNotify \/ StopJoin
  BY <1>13 DEF Start, Stop, StopNotify, StopJoin, timerVars, threadVars
<1>14. CASE Tick
  BY <1>14 DEF Tick, timerVars, threadVars
<1>15. CASE UNCHANGED vars
  BY <1>15 DEF vars, timerVars, threadVars
<1> QED
  BY <1>1, <1>2, <1>3, <1>4, <1>5, <1>6, <1>7, <1>8, <1>9, <1>10, <1>11, <1>12,
     <1>13, <1>14, <1>15 DEF Next, CallerNext, Run

(* OutsideSet is preserved: only the owner of a timer inserts it, and an    *)
(* erase by time point always erases the timer itself if it is in the set.  *)
LEMMA NextOutsideSet == TypeOK /\ OutsideSet /\ [Next]_vars => OutsideSet'
<1> SUFFICES ASSUME TypeOK, OutsideSet, [Next]_vars PROVE OutsideSet'
  OBVIOUS
<1> USE DEF TypeOK, OutsideSet
<1>1. ASSUME NEW i \in Ids, Add(i) PROVE OutsideSet'
  BY <1>1 DEF Add, InsertTimerId
<1>2. ASSUME NEW i \in Ids, ResetBegin(i) PROVE OutsideSet'
  BY <1>2 DEF ResetBegin, timerVars
<1>3. ASSUME NEW i \in Ids, ResetErase(i) PROVE OutsideSet'
  BY <1>3 DEF ResetErase, Equivalent
<1>4. ASSUME NEW i \in Ids, ResetInsert(i) PROVE OutsideSet'
  BY <1>4 DEF ResetInsert, InsertTimerId
<1>5. ASSUME NEW i \in Ids, CancelCall(i) \/ CancelLock(i) \/ CancelMark(i) PROVE OutsideSet'
  BY <1>5 DEF CancelCall, CancelLock, CancelMark, timerVars
<1>6. ASSUME NEW i \in Ids, CancelErase(i) PROVE OutsideSet'
  BY <1>6 DEF CancelErase, Equivalent
<1>7. CASE RunFire
  BY <1>7 DEF RunFire
<1>8. CASE RunExit \/ RunInvoke \/ RunCallbackReturns \/ RunSleep \/ RunWake
           \/ RunSpuriousWake
  BY <1>8 DEF RunExit, RunInvoke, RunCallbackReturns, RunSleep, RunWake, RunSpuriousWake,
              timerVars
<1>9. CASE Start \/ Stop \/ StopNotify \/ StopJoin \/ Tick \/ UNCHANGED vars
  BY <1>9 DEF Start, Stop, StopNotify, StopJoin, Tick, vars, timerVars
<1> QED
  BY <1>1, <1>2, <1>3, <1>4, <1>5, <1>6, <1>7, <1>8, <1>9 DEF Next, CallerNext, Run

(* An insertion keeps NoOversleep: either the thread is notified, or the    *)
(* timer is not due before the next check, or a timer that is due no later  *)
(* than it was already in the set.                                          *)
LEMMA InsertKeepsNoOversleep ==
  ASSUME TypeOK, NoOversleep, NEW i \in Ids, NEW t \in TimePoints,
         InsertTimerId(i, t), UNCHANGED <<pc, nextCheckAbstime>>,
         tp' = [tp EXCEPT ![i] = t], i \notin timerIds
  PROVE  NoOversleep'
<1> SUFFICES ASSUME pc = "waiting", ~signalled', NEW j \in timerIds'
             PROVE  nextCheckAbstime <= tp'[j]
  BY DEF NoOversleep
<1> USE DEF TypeOK, TimePoints, InsertTimerId
<1>1. ~signalled /\ ~(AtFront(t) /\ t < nextCheckAbstime)
  OBVIOUS
<1>2. \A k \in timerIds : nextCheckAbstime <= tp[k]
  BY <1>1 DEF NoOversleep
<1>3. nextCheckAbstime <= t
  BY <1>1, <1>2, TimerAssumption DEF AtFront
<1> QED
  BY <1>2, <1>3

(* NoOversleep is preserved. *)
LEMMA NextNoOversleep ==
  TypeOK /\ OutsideSet /\ NoOversleep /\ [Next]_vars => NoOversleep'
<1> SUFFICES ASSUME TypeOK, OutsideSet, NoOversleep, [Next]_vars PROVE NoOversleep'
  OBVIOUS
<1>1. ASSUME NEW i \in Ids, Add(i) PROVE NoOversleep'
  <2>1. PICK t \in TimePoints : tp' = [tp EXCEPT ![i] = t] /\ InsertTimerId(i, t)
    BY <1>1 DEF Add
  <2>2. i \notin timerIds /\ UNCHANGED <<pc, nextCheckAbstime>>
    BY <1>1 DEF Add, OutsideSet
  <2> QED
    BY <2>1, <2>2, InsertKeepsNoOversleep
<1>2. ASSUME NEW i \in Ids, ResetErase(i) PROVE NoOversleep'
  BY <1>2 DEF ResetErase, Equivalent, threadVars, NoOversleep, TypeOK
<1>3. ASSUME NEW i \in Ids, ResetInsert(i) PROVE NoOversleep'
  <2>1. tp' = [tp EXCEPT ![i] = tp[i]] /\ tp[i] \in TimePoints /\ InsertTimerId(i, tp[i])
    BY <1>3 DEF ResetInsert, TypeOK
  <2>2. i \notin timerIds /\ UNCHANGED <<pc, nextCheckAbstime>>
    BY <1>3 DEF ResetInsert, OutsideSet
  <2> QED
    BY <2>1, <2>2, InsertKeepsNoOversleep
<1>4. ASSUME NEW i \in Ids, ResetBegin(i) \/ CancelCall(i) \/ CancelLock(i) \/ CancelMark(i)
      PROVE  NoOversleep'
  BY <1>4 DEF ResetBegin, CancelCall, CancelLock, CancelMark, timerVars, threadVars, NoOversleep
<1>5. ASSUME NEW i \in Ids, CancelErase(i) PROVE NoOversleep'
  BY <1>5 DEF CancelErase, threadVars, NoOversleep
<1>6. CASE RunSleep
  <2> SUFFICES ASSUME NEW j \in timerIds PROVE nextCheckAbstime' <= tp[j]
    BY <1>6 DEF RunSleep, timerVars, NoOversleep
  <2>1. PICK i \in timerIds : IsBegin(i) /\ now < tp[i] /\ id' = i
    BY <1>6 DEF RunSleep
  <2>2. i \in Ids /\ i # NoId /\ tp[i] \in Nat /\ tp[j] \in Nat /\ now \in Nat
    BY TimerAssumption DEF TypeOK, TimePoints
  <2>3. nextCheckAbstime' <= tp[i]
    BY <1>6, <2>1, <2>2 DEF RunSleep, SleepUntil
  <2>4. nextCheckAbstime' \in Nat
    BY <1>6, <2>1, <2>2 DEF RunSleep, SleepUntil
  <2> QED
    BY <2>1, <2>2, <2>3, <2>4 DEF IsBegin
<1>7. CASE RunExit \/ RunInvoke \/ RunCallbackReturns \/ RunWake \/ RunSpuriousWake \/ Start
  BY <1>7 DEF RunExit, RunInvoke, RunCallbackReturns, RunWake, RunSpuriousWake, Start, NoOversleep
<1>8. CASE RunFire
  BY <1>8 DEF RunFire, TryInvoke, NoOversleep
<1>9. CASE Stop \/ StopNotify \/ StopJoin \/ Tick \/ UNCHANGED vars
  BY <1>9 DEF Stop, StopNotify, StopJoin, Tick, vars, timerVars, threadVars, NoOversleep
<1> QED
  BY <1>1, <1>2, <1>3, <1>4, <1>5, <1>6, <1>7, <1>8, <1>9 DEF Next, CallerNext, Run

(* OneThread is preserved. *)
LEMMA NextOneThread == OneThread /\ [Next]_vars => OneThread'
<1> SUFFICES ASSUME OneThread, [Next]_vars PROVE OneThread'
  OBVIOUS
<1> USE DEF OneThread
<1>1. ASSUME NEW i \in Ids, CallerNext(i) PROVE OneThread'
  BY <1>1 DEF CallerNext, Add, ResetBegin, ResetErase, ResetInsert, CancelCall, CancelLock,
              CancelMark, CancelErase, threadVars
<1>2. CASE Run \/ RunSpuriousWake
  BY <1>2 DEF Run, RunExit, RunFire, RunInvoke, RunCallbackReturns, RunSleep, RunWake,
              RunSpuriousWake
<1>3. CASE Start \/ Stop \/ StopNotify \/ StopJoin \/ Tick \/ UNCHANGED vars
  BY <1>3 DEF Start, Stop, StopNotify, StopJoin, Tick, vars, threadVars
<1> QED
  BY <1>1, <1>2, <1>3 DEF Next

(* MutexHeld is preserved. *)
LEMMA NextMutexHeld == TypeOK /\ OneThread /\ MutexHeld /\ [Next]_vars => MutexHeld'
<1> SUFFICES ASSUME TypeOK, OneThread, MutexHeld, [Next]_vars PROVE MutexHeld'
  OBVIOUS
<1> USE DEF TypeOK, MutexHeld
<1>1. ASSUME NEW i \in Ids, Add(i) PROVE MutexHeld'
  BY <1>1 DEF Add
<1>2. ASSUME NEW i \in Ids, ResetBegin(i) PROVE MutexHeld'
  BY <1>2 DEF ResetBegin, timerVars, threadVars
<1>3. ASSUME NEW i \in Ids, ResetErase(i) PROVE MutexHeld'
  BY <1>3 DEF ResetErase, threadVars
<1>4. ASSUME NEW i \in Ids, ResetInsert(i) PROVE MutexHeld'
  BY <1>4 DEF ResetInsert
<1>5. ASSUME NEW i \in Ids, CancelCall(i) PROVE MutexHeld'
  BY <1>5 DEF CancelCall, timerVars, threadVars
<1>6. ASSUME NEW i \in Ids, CancelLock(i) PROVE MutexHeld'
  BY <1>6 DEF CancelLock, threadVars
<1>7. ASSUME NEW i \in Ids, CancelMark(i) PROVE MutexHeld'
  BY <1>7 DEF CancelMark, threadVars
<1>8. ASSUME NEW i \in Ids, CancelErase(i) PROVE MutexHeld'
  BY <1>8 DEF CancelErase, threadVars
<1>9. CASE RunFire
  BY <1>9 DEF RunFire, TryInvoke
<1>10. CASE RunInvoke
  BY <1>10 DEF RunInvoke
<1>11. CASE RunCallbackReturns
  BY <1>11 DEF RunCallbackReturns
<1>12. CASE RunExit \/ RunSleep \/ RunWake \/ RunSpuriousWake
  BY <1>12 DEF RunExit, RunSleep, RunWake, RunSpuriousWake, timerVars
<1>13. CASE Start
  BY <1>13 DEF Start, OneThread, timerVars
<1>14. CASE Stop \/ StopNotify \/ StopJoin \/ Tick \/ UNCHANGED vars
  BY <1>14 DEF Stop, StopNotify, StopJoin, Tick, vars, timerVars, threadVars
<1> QED
  BY <1>1, <1>2, <1>3, <1>4, <1>5, <1>6, <1>7, <1>8, <1>9, <1>10, <1>11, <1>12, <1>13,
     <1>14 DEF Next, CallerNext, Run

-----------------------------------------------------------------------------

(* The inductive invariant holds in every reachable state. *)
THEOREM InvariantHolds == Spec => []IInv
<1>1. Init => IInv
  BY InitIInv
<1>2. IInv /\ [Next]_vars => IInv'
  BY NextTypeOK, NextOutsideSet, NextNoOversleep, NextMutexHeld, NextOneThread DEF IInv
<1> QED
  BY <1>1, <1>2, PTL DEF Spec

(* Every variable of the timer keeps its type. *)
THEOREM TypeCorrect == Spec => []TypeOK
<1>1. IInv => TypeOK
  BY DEF IInv
<1> QED
  BY <1>1, InvariantHolds, PTL

(* The timer thread never sleeps past the first timer unless it has been    *)
(* notified: the condition in insertTimerId under which it notifies is      *)
(* sufficient.                                                              *)
THEOREM NeverOversleeps == Spec => []NoOversleep
<1>1. IInv => NoOversleep
  BY DEF IInv
<1> QED
  BY <1>1, InvariantHolds, PTL

(* The wrapper's mutex always has exactly one holder.                       *)
THEOREM MutexHasOneOwner == Spec => []InvokeMutexOwner
<1>1. IInv => InvokeMutexOwner
  BY DEF IInv, MutexHeld, InvokeMutexOwner
<1> QED
  BY <1>1, InvariantHolds, PTL

(* Once cancel() has returned, the timer thread does not take the timer.    *)
THEOREM CancelIsFinal == Spec => CanceledNeverStarts
<1> DEFINE A == \A i \in Ids : caller[i] = "canceled" /\ pc' = "invoke" /\ id' = i
                                => pc = "invoke" /\ id = i
<1>1. ASSUME IInv, [Next]_vars PROVE [A]_vars
  <2> SUFFICES ASSUME NEW i \in Ids, caller[i] = "canceled", pc' = "invoke", id' = i,
                      ~(pc = "invoke" /\ id = i), Next
               PROVE  FALSE
    BY <1>1
  <2> USE <1>1 DEF IInv, OutsideSet
  <2>1. CASE RunFire
    BY <2>1 DEF RunFire
  <2>2. ASSUME NEW j \in Ids, CallerNext(j) PROVE FALSE
    BY <2>2 DEF CallerNext, Add, ResetBegin, ResetErase, ResetInsert, CancelCall, CancelLock,
                CancelMark, CancelErase, threadVars
  <2>3. CASE RunExit \/ RunInvoke \/ RunCallbackReturns \/ RunSleep \/ RunWake
             \/ RunSpuriousWake
    BY <2>3 DEF RunExit, RunInvoke, RunCallbackReturns, RunSleep, RunWake, RunSpuriousWake
  <2>4. CASE Start \/ Stop \/ StopNotify \/ StopJoin \/ Tick
    BY <2>4 DEF Start, Stop, StopNotify, StopJoin, Tick, threadVars
  <2> QED
    BY <2>1, <2>2, <2>3, <2>4 DEF Next, Run
<1>2. Spec => [][Next]_vars
  BY PTL DEF Spec
<1>3. [](IInv) /\ [][Next]_vars => [][A]_vars
  BY <1>1, PTL
<1> QED
  BY <1>2, <1>3, InvariantHolds DEF CanceledNeverStarts

=============================================================================
