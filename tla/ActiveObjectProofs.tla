------------------------ MODULE ActiveObjectProofs --------------------------
(***************************************************************************)
(* Proofs about ActiveObject, for any sets of callers and threads.         *)
(***************************************************************************)
EXTENDS ActiveObject, TLAPS

(* Calling Stop is inside its locked part, which never unlocks. *)
Stopping(c) == cpc[c] \in StopPC \ {"stopLock"}

(* activated_ is locked by exactly the ThreadMain that is active. *)
ActivatedInv == \A w \in Worker : Active(w) <=> activated_ = w

(* Whoever is inside Start or Stop holds locker_. *)
LockerInv ==
  \A c \in Caller : Starting(c) \/ Stopping(c) => locker_ = c

(* waiting_for_initialization_ is locked only on behalf of a Start that     *)
(* has not given it back yet.                                               *)
WaitingInv ==
  waiting_for_initialization_ =>
    \E c \in Caller : cpc[c] \in {"startCreate", "startAwait", "startSignal"}

(* The inductive invariant behind OneBody and StartNeverBlocks. *)
IInv == TypeOK /\ ActivatedInv /\ LockerInv /\ WaitingInv

(* TypeOK in two parts: the flags, and all that is not Boolean. *)
FlagsOK ==
  /\ enable_ \in BOOLEAN
  /\ stop_ \in BOOLEAN
  /\ waiting_for_initialization_ \in BOOLEAN

RestOK ==
  /\ thread_ \in Worker \cup {NoThread}
  /\ locker_ \in Caller \cup Worker \cup {NoThread}
  /\ activated_ \in Worker \cup {NoThread}
  /\ cpc \in [Caller -> CallerPC]
  /\ wpc \in [Worker -> WorkerPC]
  /\ op \in [Caller -> Operation]
  /\ joined \in [Caller -> Worker \cup {NoThread}]
  /\ ret \in [Caller -> Result]

(* The rest holds when Preprocess is always in time.                        *)

(* A thread still in its initialization has a Start waiting for it.         *)
AwaitInv ==
  /\ \A c \in Caller : cpc[c] = "startCreate" => waiting_for_initialization_
  /\ (\E w \in Worker : wpc[w] \in {"spawned", "preprocess", "announce"})
       => /\ waiting_for_initialization_
          /\ \E c \in Caller : cpc[c] = "startAwait"

(* A thread asked to stop, or on its way out, was stopped by a Stop that    *)
(* retired the object.                                                      *)
RetiredInv ==
  \A w \in Worker :
    /\ wpc[w] \in {"quitFlag", "quitJoin", "postprocess", "done"} => Retired
    /\ wpc[w] \in {"announce", "loop"} /\ stop_ => Retired

(* A Start that is about to create a thread is the first one.               *)
FreshInv ==
  \A c \in Caller : cpc[c] \in {"startHold", "startCreate"} => Created = {}

(* A Stop reports the end of the object only after a thread has ended.      *)
EndedInv == (\E c \in Caller : ret[c] = "stopped") => \E w \in Worker : wpc[w] = "done"

(* The inductive invariant behind OneThread and StopQuiesces. *)
TInv ==
  InitInTime => OneThread /\ AwaitInv /\ RetiredInv /\ FreshInv /\ EndedInv

-----------------------------------------------------------------------------
LEMMA TypeParts == TypeOK <=> FlagsOK /\ RestOK
  BY Zenon DEF TypeOK, FlagsOK, RestOK

LEMMA TypeInit == Init => TypeOK
<1>1. Init => FlagsOK
  BY Zenon DEF Init, FlagsOK
<1>2. Init => RestOK
  BY SMT DEF Init, RestOK, CallerPC, WorkerPC, Operation, Result
<1>3. QED
  BY <1>1, <1>2, TypeParts

(* The flags are only ever assigned truth values. *)
LEMMA FlagsNext == FlagsOK /\ [Next]_vars => FlagsOK'
<1> SUFFICES ASSUME FlagsOK, [Next]_vars PROVE FlagsOK'
  OBVIOUS
<1> USE DEF FlagsOK, Lockers
<1>1. ASSUME NEW c \in Caller, Call(c) PROVE FlagsOK'
  BY <1>1, Zenon DEF Call, SetEnableProperty, Disable, StartCall, StopCall
<1>2. ASSUME NEW c \in Caller, StartStep(c) PROVE FlagsOK'
  BY <1>2, Zenon DEF StartStep, StartLock, StartLockTimeout, StartProbe, StartHold,
       StartCreate, StartAwait, StartAwaitTimeout, StartSignal, StartUnlock
<1>3. ASSUME NEW c \in Caller, RunStep(c) PROVE FlagsOK'
  BY <1>3, Zenon DEF RunStep, RunJoinable, RunPoll, RunJoin, RunEnd, Join
<1>4. ASSUME NEW c \in Caller, StopStep(c) PROVE FlagsOK'
  BY <1>4, Zenon DEF StopStep, StopLock, StopLockTimeout, StopProbe, StopFlag,
       StopJoin, StopEnd, Join
<1>5. ASSUME NEW w \in Worker, ThreadMain(w) \/ QuitLock(w) PROVE FlagsOK'
  BY <1>5, Zenon DEF ThreadMain, Activate, ThreadInit, LoopExit, Deactivate,
       QuitFlag, QuitJoin, QuitLock
<1>6. CASE UNCHANGED vars
  BY <1>6, Zenon DEF vars
<1>7. QED
  BY <1>1, <1>2, <1>3, <1>4, <1>5, <1>6, Zenon DEF Next, CallerStep

LEMMA RestNext == RestOK /\ [Next]_vars => RestOK'
<1> SUFFICES ASSUME RestOK, [Next]_vars PROVE RestOK'
  OBVIOUS
<1> USE DEF RestOK, Goto, Advance, Return, Lockers, Operation, Result, CallerPC,
        WorkerPC, ActivePC, StartPC, RunPC, StopPC
<1>1. ASSUME NEW c \in Caller, Call(c) PROVE RestOK'
  BY <1>1 DEF Call, SetEnableProperty, Disable, StartCall, StopCall
<1>2. ASSUME NEW c \in Caller, StartStep(c) PROVE RestOK'
  <2>1. CASE StartLock(c) \/ StartLockTimeout(c) \/ StartProbe(c)
    BY <2>1 DEF StartLock, StartLockTimeout, StartProbe
  <2>2. CASE StartHold(c) \/ StartAwait(c) \/ StartAwaitTimeout(c)
    BY <2>2 DEF StartHold, StartAwait, StartAwaitTimeout
  <2>3. CASE StartCreate(c)
    BY <2>3 DEF StartCreate, Created
  <2>4. CASE StartSignal(c) \/ StartUnlock(c)
    BY <2>4 DEF StartSignal, StartUnlock
  <2>5. QED
    BY <1>2, <2>1, <2>2, <2>3, <2>4 DEF StartStep
<1>3. ASSUME NEW c \in Caller, RunStep(c) PROVE RestOK'
  BY <1>3 DEF RunStep, RunJoinable, RunPoll, RunJoin, RunEnd, Join
<1>4. ASSUME NEW c \in Caller, StopStep(c) PROVE RestOK'
  <2>1. CASE StopLock(c) \/ StopLockTimeout(c) \/ StopProbe(c)
    BY <2>1 DEF StopLock, StopLockTimeout, StopProbe
  <2>2. CASE StopFlag(c) \/ StopJoin(c) \/ StopEnd(c)
    BY <2>2 DEF StopFlag, StopJoin, StopEnd, Join
  <2>3. QED
    BY <1>4, <2>1, <2>2 DEF StopStep
<1>5. ASSUME NEW w \in Worker, ThreadMain(w) \/ QuitLock(w) PROVE RestOK'
  BY <1>5 DEF ThreadMain, Activate, ThreadInit, LoopExit, Deactivate,
              QuitFlag, QuitJoin, QuitLock
<1>6. CASE UNCHANGED vars
  BY <1>6 DEF vars
<1>7. QED
  BY <1>1, <1>2, <1>3, <1>4, <1>5, <1>6 DEF Next, CallerStep

LEMMA TypeNext == TypeOK /\ [Next]_vars => TypeOK'
<1>1. TypeOK' <=> FlagsOK' /\ RestOK'
  BY Zenon DEF TypeOK, FlagsOK, RestOK
<1>2. QED
  BY <1>1, TypeParts, FlagsNext, RestNext

(* The variables always have the types the code gives them. *)
THEOREM TypeCorrect == Spec => []TypeOK
  BY TypeInit, TypeNext, PTL DEF Spec

-----------------------------------------------------------------------------
(* The steps that touch a Locker or a program counter, group by group; all  *)
(* four parts of IInv are checked for each.                                 *)

LEMMA IInvInit == Init => IInv
<1> SUFFICES ASSUME Init PROVE IInv
  OBVIOUS
<1>1. TypeOK
  BY TypeInit
<1>2. ActivatedInv
  BY ActiveObjectAssumption DEF Init, ActivatedInv, Active, ActivePC
<1>3. LockerInv
  BY DEF Init, LockerInv, Starting, Stopping, StartPC, StopPC
<1>4. WaitingInv
  BY Zenon DEF Init, WaitingInv
<1>5. QED
  BY <1>1, <1>2, <1>3, <1>4 DEF IInv

LEMMA ActivatedNext == RestOK /\ ActivatedInv /\ [Next]_vars => ActivatedInv'
<1> SUFFICES ASSUME RestOK, ActivatedInv, [Next]_vars PROVE ActivatedInv'
  OBVIOUS
<1> USE ActiveObjectAssumption DEF RestOK, ActivatedInv, Active, ActivePC, WorkerPC
<1>1. ASSUME NEW c \in Caller, Call(c) PROVE ActivatedInv'
  BY <1>1 DEF Call, SetEnableProperty, Disable, StartCall, StopCall, Lockers
<1>2. ASSUME NEW c \in Caller, StartStep(c) PROVE ActivatedInv'
  <2>1. CASE StartCreate(c)
    BY <2>1 DEF StartCreate, Created, Lockers
  <2>2. CASE ~StartCreate(c)
    BY <1>2, <2>2 DEF StartStep, StartLock, StartLockTimeout, StartProbe,
         StartHold, StartAwait, StartAwaitTimeout, StartSignal, StartUnlock, Lockers
  <2>3. QED
    BY <2>1, <2>2
<1>3. ASSUME NEW c \in Caller, RunStep(c) PROVE ActivatedInv'
  BY <1>3 DEF RunStep, RunJoinable, RunPoll, RunJoin, RunEnd, Join, Lockers
<1>4. ASSUME NEW c \in Caller, StopStep(c) PROVE ActivatedInv'
  BY <1>4 DEF StopStep, StopLock, StopLockTimeout, StopProbe, StopFlag,
       StopJoin, StopEnd, Join, Lockers
<1>5. ASSUME NEW w \in Worker, ThreadMain(w) \/ QuitLock(w) PROVE ActivatedInv'
  <2>1. CASE Activate(w) \/ Deactivate(w)
    BY <2>1 DEF Activate, Deactivate, Advance
  <2>2. CASE ThreadInit(w) \/ LoopExit(w) \/ QuitFlag(w) \/ QuitJoin(w) \/ QuitLock(w)
    BY <2>2 DEF ThreadInit, LoopExit, QuitFlag, QuitJoin, QuitLock, Advance, Lockers
  <2>3. QED
    BY <1>5, <2>1, <2>2 DEF ThreadMain
<1>6. CASE UNCHANGED vars
  BY <1>6 DEF vars
<1>7. QED
  BY <1>1, <1>2, <1>3, <1>4, <1>5, <1>6 DEF Next, CallerStep

(* Only StartLock, StopLock and QuitLock lock locker_, when it is free, and *)
(* only the StartUnlock of the caller that locked it unlocks it.            *)
LEMMA LockerNext == RestOK /\ LockerInv /\ [Next]_vars => LockerInv'
<1> SUFFICES ASSUME RestOK, LockerInv, [Next]_vars PROVE LockerInv'
  OBVIOUS
<1> USE ActiveObjectAssumption
    DEF RestOK, LockerInv, Starting, Stopping, StartPC, StopPC, Goto, Return
<1>1. ASSUME NEW c \in Caller, Call(c) PROVE LockerInv'
  BY <1>1 DEF Call, SetEnableProperty, Disable, StartCall, StopCall, Lockers
<1>2. ASSUME NEW c \in Caller, StartStep(c) PROVE LockerInv'
  <2>1. CASE StartLock(c) \/ StartLockTimeout(c)
    BY <2>1 DEF StartLock, StartLockTimeout, Lockers
  <2>2. CASE StartUnlock(c)
    BY <2>2 DEF StartUnlock
  <2>3. CASE StartProbe(c) \/ StartHold(c) \/ StartCreate(c)
    BY <2>3 DEF StartProbe, StartHold, StartCreate, Lockers
  <2>4. CASE StartAwait(c) \/ StartAwaitTimeout(c) \/ StartSignal(c)
    BY <2>4 DEF StartAwait, StartAwaitTimeout, StartSignal, Lockers
  <2>5. QED
    BY <1>2, <2>1, <2>2, <2>3, <2>4 DEF StartStep
<1>3. ASSUME NEW c \in Caller, RunStep(c) PROVE LockerInv'
  BY <1>3 DEF RunStep, RunJoinable, RunPoll, RunJoin, RunEnd, Join, Lockers, RunPC
<1>4. ASSUME NEW c \in Caller, StopStep(c) PROVE LockerInv'
  <2>1. CASE StopLock(c) \/ StopLockTimeout(c)
    BY <2>1 DEF StopLock, StopLockTimeout, Lockers
  <2>2. CASE StopProbe(c) \/ StopFlag(c) \/ StopJoin(c) \/ StopEnd(c)
    BY <2>2 DEF StopProbe, StopFlag, StopJoin, StopEnd, Join, Lockers
  <2>3. QED
    BY <1>4, <2>1, <2>2 DEF StopStep
<1>5. ASSUME NEW w \in Worker, ThreadMain(w) \/ QuitLock(w) PROVE LockerInv'
  BY <1>5 DEF ThreadMain, Activate, ThreadInit, LoopExit, Deactivate,
       QuitFlag, QuitJoin, QuitLock, Lockers
<1>6. CASE UNCHANGED vars
  BY <1>6 DEF vars
<1>7. QED
  BY <1>1, <1>2, <1>3, <1>4, <1>5, <1>6 DEF Next, CallerStep

LEMMA WaitingNext ==
  RestOK /\ LockerInv /\ WaitingInv /\ [Next]_vars => WaitingInv'
<1> SUFFICES ASSUME RestOK, LockerInv, WaitingInv, [Next]_vars,
                    waiting_for_initialization_'
             PROVE  \E d \in Caller :
                      cpc[d]' \in {"startCreate", "startAwait", "startSignal"}
  BY Zenon DEF WaitingInv
<1> DEFINE Holds(pc) == pc \in {"startCreate", "startAwait", "startSignal"}
<1> USE DEF RestOK, WaitingInv, Goto, Return, Lockers
<1>1. ASSUME NEW c \in Caller, Call(c) PROVE \E d \in Caller : Holds(cpc[d]')
  BY <1>1 DEF Call, SetEnableProperty, Disable, StartCall, StopCall
<1>2. ASSUME NEW c \in Caller, StartStep(c) PROVE \E d \in Caller : Holds(cpc[d]')
  <2>1. CASE StartSignal(c)
    BY <2>1, Zenon DEF StartSignal
  <2>2. CASE StartHold(c) \/ StartAwait(c) \/ StartAwaitTimeout(c) \/ StartCreate(c)
    <3>1. Holds(cpc[c]')
      BY <2>2 DEF StartHold, StartAwait, StartAwaitTimeout, StartCreate
    <3>2. QED
      BY <3>1
  <2>3. CASE StartLock(c) \/ StartLockTimeout(c) \/ StartProbe(c) \/ StartUnlock(c)
    BY <2>3 DEF StartLock, StartLockTimeout, StartProbe, StartUnlock
  <2>4. QED
    BY <1>2, <2>1, <2>2, <2>3 DEF StartStep
<1>3. ASSUME NEW c \in Caller, RunStep(c) PROVE \E d \in Caller : Holds(cpc[d]')
  BY <1>3 DEF RunStep, RunJoinable, RunPoll, RunJoin, RunEnd, Join
<1>4. ASSUME NEW c \in Caller, StopStep(c) PROVE \E d \in Caller : Holds(cpc[d]')
  BY <1>4 DEF StopStep, StopLock, StopLockTimeout, StopProbe, StopFlag,
       StopJoin, StopEnd, Join
<1>5. ASSUME NEW w \in Worker, ThreadMain(w) \/ QuitLock(w)
      PROVE  \E d \in Caller : Holds(cpc[d]')
  <2>1. waiting_for_initialization_ /\ cpc' = cpc
    BY <1>5, Zenon DEF ThreadMain, Activate, ThreadInit, LoopExit, Deactivate,
         QuitFlag, QuitJoin, QuitLock
  <2>2. QED
    BY <2>1
<1>6. CASE UNCHANGED vars
  BY <1>6 DEF vars
<1>7. QED
  BY <1>1, <1>2, <1>3, <1>4, <1>5, <1>6 DEF Next, CallerStep

LEMMA IInvNext == IInv /\ [Next]_vars => IInv'
<1>1. TypeOK => RestOK
  BY TypeParts
<1>2. QED
  BY <1>1, TypeNext, ActivatedNext, LockerNext, WaitingNext DEF IInv

LEMMA IInvAlways == Spec => []IInv
  BY IInvInit, IInvNext, PTL DEF Spec

(* Mutual exclusion of the object's body, for any number of threads Start   *)
(* may have created: Process() needs no lock against itself.                *)
THEOREM BodyIsExclusive == Spec => []OneBody
<1>1. IInv => OneBody
  BY DEF IInv, ActivatedInv, OneBody
<1>2. QED
  BY <1>1, IInvAlways, PTL

(* A Start that has locked locker_ finds waiting_for_initialization_ free,  *)
(* also after Starts that timed out.                                        *)
THEOREM StartIsNotBlocked == Spec => []StartNeverBlocks
<1>1. IInv => StartNeverBlocks
  <2> SUFFICES ASSUME IInv, NEW c \in Caller, cpc[c] = "startHold",
                      waiting_for_initialization_
               PROVE  FALSE
    BY DEF StartNeverBlocks
  <2>1. PICK d \in Caller : cpc[d] \in {"startCreate", "startAwait", "startSignal"}
    BY DEF IInv, WaitingInv
  <2>2. Starting(c) /\ Starting(d)
    BY <2>1 DEF Starting, StartPC
  <2>3. locker_ = c /\ locker_ = d
    BY <2>2 DEF IInv, LockerInv
  <2>4. QED
    BY <2>1, <2>3
<1>2. QED
  BY <1>1, IInvAlways, PTL

-----------------------------------------------------------------------------
(* Once retired, an object stays so, and Start creates no thread: the only  *)
(* step that unlocks locker_ belongs to a Start that holds it.              *)
LEMMA RetiredStable ==
  RestOK /\ Retired /\ [Next]_vars => Retired' /\ Created' = Created
<1> SUFFICES ASSUME RestOK, Retired, [Next]_vars
             PROVE  Retired' /\ Created' = Created
  OBVIOUS
<1> USE ActiveObjectAssumption
    DEF RestOK, Retired, Starting, StartPC, Goto, Return, Lockers, Created, WorkerPC
<1>1. ASSUME NEW c \in Caller, Call(c) PROVE Retired' /\ Created' = Created
  BY <1>1 DEF Call, SetEnableProperty, Disable, StartCall, StopCall
<1>2. ASSUME NEW c \in Caller, StartStep(c) PROVE Retired' /\ Created' = Created
  <2>1. ~StartLock(c) /\ ~StartProbe(c) /\ ~StartHold(c) /\ ~StartCreate(c)
    BY DEF StartLock, StartProbe, StartHold, StartCreate
  <2>2. ~StartAwait(c) /\ ~StartAwaitTimeout(c) /\ ~StartSignal(c) /\ ~StartUnlock(c)
    BY DEF StartAwait, StartAwaitTimeout, StartSignal, StartUnlock
  <2>3. StartLockTimeout(c)
    BY <1>2, <2>1, <2>2 DEF StartStep
  <2>4. QED
    BY <2>3 DEF StartLockTimeout
<1>3. ASSUME NEW c \in Caller, RunStep(c) PROVE Retired' /\ Created' = Created
  BY <1>3 DEF RunStep, RunJoinable, RunPoll, RunJoin, RunEnd, Join
<1>4. ASSUME NEW c \in Caller, StopStep(c) PROVE Retired' /\ Created' = Created
  BY <1>4 DEF StopStep, StopLock, StopLockTimeout, StopProbe, StopFlag,
       StopJoin, StopEnd, Join
<1>5. ASSUME NEW w \in Worker, ThreadMain(w) \/ QuitLock(w)
      PROVE  Retired' /\ Created' = Created
  <2>1. Retired'
    BY <1>5 DEF ThreadMain, Activate, ThreadInit, LoopExit, Deactivate,
         QuitFlag, QuitJoin, QuitLock
  <2>2. \E to \in WorkerPC \ {"free"} :
          wpc[w] # "free" /\ wpc' = [wpc EXCEPT ![w] = to]
    BY <1>5 DEF ThreadMain, Activate, ThreadInit, LoopExit, Deactivate,
         QuitFlag, QuitJoin, QuitLock, Advance, ActivePC
  <2>3. QED
    BY <2>1, <2>2
<1>6. CASE UNCHANGED vars
  BY <1>6 DEF vars
<1>7. QED
  BY <1>1, <1>2, <1>3, <1>4, <1>5, <1>6 DEF Next, CallerStep

(* Stop is for good: with locker_ left locked there is no way back.         *)
THEOREM StopIsFinal == Spec => NoThreadAfterStop
<1>1. TypeOK /\ [Next]_vars => [Retired => Retired' /\ Created' = Created]_vars
  BY RetiredStable, TypeParts
<1>2. QED
  BY <1>1, TypeCorrect, PTL DEF Spec, NoThreadAfterStop

-----------------------------------------------------------------------------
(* The invariant of the objects whose Preprocess is in time.                *)

LEMMA TInvInit == Init => TInv
  BY SMT DEF Init, TInv, OneThread, AwaitInv, RetiredInv, FreshInv, EndedInv, Created

(* How a step moves the threads: it creates one, or moves one that exists.  *)
LEMMA WorkerMoves ==
  ASSUME RestOK, [Next]_vars, wpc' # wpc
  PROVE  \/ \E c \in Caller : StartCreate(c)
         \/ \E w \in Worker : ThreadMain(w) \/ QuitLock(w)
<1>1. ASSUME NEW c \in Caller, Call(c) PROVE FALSE
  BY <1>1 DEF Call, SetEnableProperty, Disable, StartCall, StopCall
<1>2. ASSUME NEW c \in Caller, StartStep(c) PROVE StartCreate(c)
  BY <1>2 DEF StartStep, StartLock, StartLockTimeout, StartProbe, StartHold,
       StartAwait, StartAwaitTimeout, StartSignal, StartUnlock
<1>3. ASSUME NEW c \in Caller, RunStep(c) \/ StopStep(c) PROVE FALSE
  BY <1>3 DEF RunStep, RunJoinable, RunPoll, RunJoin, RunEnd, Join, StopStep,
       StopLock, StopLockTimeout, StopProbe, StopFlag, StopJoin, StopEnd
<1>4. QED
  BY <1>1, <1>2, <1>3 DEF Next, CallerStep, vars

LEMMA ThreadKeepsCreated ==
  ASSUME RestOK, NEW w \in Worker, ThreadMain(w) \/ QuitLock(w)
  PROVE  Created' = Created
<1>1. \E to \in WorkerPC \ {"free"} :
        wpc[w] # "free" /\ wpc' = [wpc EXCEPT ![w] = to]
  BY DEF ThreadMain, Activate, ThreadInit, LoopExit, Deactivate,
       QuitFlag, QuitJoin, QuitLock, Advance, WorkerPC, ActivePC
<1>2. QED
  BY <1>1 DEF RestOK, Created

LEMMA OneThreadNext ==
  ASSUME InitInTime, IInv, TInv, [Next]_vars
  PROVE  OneThread'
<1> USE DEF IInv, TInv, OneThread
<1>0. RestOK
  BY TypeParts
<1>1. CASE wpc' = wpc
  BY <1>1 DEF Created
<1>2. ASSUME NEW c \in Caller, StartCreate(c) PROVE OneThread'
  <2>1. Created = {}
    BY <1>2 DEF FreshInv, StartCreate, Goto
  <2>2. QED
    BY <1>0, <1>2, <2>1 DEF StartCreate, Created, RestOK
<1>3. ASSUME NEW w \in Worker, ThreadMain(w) \/ QuitLock(w) PROVE OneThread'
  BY <1>0, <1>3, ThreadKeepsCreated
<1>4. QED
  BY <1>0, <1>1, <1>2, <1>3, WorkerMoves

(* The Start that created a thread is the only one inside locker_, and does *)
(* not leave startAwait before the thread has announced itself.             *)
LEMMA AwaitNext ==
  ASSUME InitInTime, IInv, TInv, [Next]_vars
  PROVE  AwaitInv'
<1> DEFINE Initializing(w) == wpc[w] \in {"spawned", "preprocess", "announce"}
<1>0. RestOK /\ LockerInv /\ AwaitInv /\ OneThread
  BY TypeParts DEF IInv, TInv
<1> USE DEF RestOK, AwaitInv
<1>1. ASSUME NEW c \in Caller, Call(c) PROVE AwaitInv'
  BY <1>0, <1>1 DEF Call, SetEnableProperty, Disable, StartCall, StopCall, Goto, Lockers
<1>2. ASSUME NEW c \in Caller, StartStep(c) PROVE AwaitInv'
  <2>1. Starting(c) => \A d \in Caller : Starting(d) => d = c
    BY <1>0 DEF LockerInv
  <2> USE <1>0, <2>1 DEF Starting, StartPC, Goto, Return, Lockers
  <2>2. CASE StartLock(c) \/ StartLockTimeout(c) \/ StartProbe(c)
    BY <2>2 DEF StartLock, StartLockTimeout, StartProbe
  <2>3. CASE StartHold(c)
    BY <2>3 DEF StartHold
  <2>4. CASE StartCreate(c)
    <3>1. waiting_for_initialization_'
      BY <2>4, Zenon DEF StartCreate
    <3>2. cpc[c]' = "startAwait"
      BY <2>4 DEF StartCreate
    <3>3. QED
      BY <3>1, <3>2
  <2>5. CASE StartAwait(c)
    BY <2>5 DEF StartAwait
  <2>6. CASE StartSignal(c) \/ StartUnlock(c)
    BY <2>6 DEF StartSignal, StartUnlock
  <2>7. QED
    BY <1>2, <2>2, <2>3, <2>4, <2>5, <2>6, InitInTime DEF StartStep, StartAwaitTimeout
<1>3. ASSUME NEW c \in Caller, RunStep(c) \/ StopStep(c) PROVE AwaitInv'
  BY <1>0, <1>3 DEF RunStep, RunJoinable, RunPoll, RunJoin, RunEnd, Join, StopStep,
       StopLock, StopLockTimeout, StopProbe, StopFlag, StopJoin, StopEnd, Goto,
       Return, Lockers
<1>4. ASSUME NEW w \in Worker, ThreadMain(w) \/ QuitLock(w) PROVE AwaitInv'
  <2> USE DEF Advance, Lockers
  <2>1. CASE Activate(w) \/ LoopExit(w) \/ QuitFlag(w) \/ QuitJoin(w)
    BY <1>0, <2>1 DEF Activate, LoopExit, QuitFlag, QuitJoin
  <2>2. CASE Deactivate(w) \/ QuitLock(w)
    BY <1>0, <2>2 DEF Deactivate, QuitLock
  <2>3. CASE ThreadInit(w) /\ wpc[w] = "preprocess"
    BY <1>0, <2>3 DEF ThreadInit
  <2>4. CASE ThreadInit(w) /\ wpc[w] = "announce"
    <3>1. \A v \in Worker : ~Initializing(v)'
      BY <1>0, <2>4, InitInTime DEF ThreadInit, OneThread, Created
    <3>2. PICK d \in Caller : cpc[d] = "startAwait"
      BY <1>0, <2>4
    <3>3. \A c \in Caller : cpc[c] # "startCreate"
      BY <1>0, <3>2 DEF LockerInv, Starting, StartPC
    <3>4. cpc' = cpc
      BY <2>4 DEF ThreadInit
    <3>5. QED
      BY <3>1, <3>3, <3>4
  <2>5. QED
    BY <1>4, <2>1, <2>2, <2>3, <2>4 DEF ThreadMain, ThreadInit
<1>5. CASE UNCHANGED vars
  BY <1>0, <1>5 DEF vars
<1>6. QED
  BY <1>1, <1>2, <1>3, <1>4, <1>5 DEF Next, CallerStep

(* A thread leaves its loop only for a stop_ set by a Stop, which holds      *)
(* locker_ when it sets it and keeps it for good.                           *)
LEMMA RetiredNext ==
  ASSUME InitInTime, IInv, TInv, [Next]_vars
  PROVE  RetiredInv'
<1>0. RestOK /\ LockerInv /\ RetiredInv
  BY TypeParts DEF IInv, TInv
<1>1. CASE Retired
  <2>1. Retired'
    BY <1>0, <1>1, RetiredStable
  <2>2. QED
    BY <2>1 DEF RetiredInv
<1>2. CASE ~Retired
  <2>1. \A w \in Worker :
          /\ wpc[w] \notin {"quitFlag", "quitJoin", "postprocess", "done"}
          /\ wpc[w] \in {"announce", "loop"} => ~stop_
    BY <1>0, <1>2, Zenon DEF RetiredInv
  <2> SUFFICES ASSUME ~Retired'
               PROVE  \A w \in Worker :
                 /\ wpc[w]' \notin {"quitFlag", "quitJoin", "postprocess", "done"}
                 /\ wpc[w]' \in {"announce", "loop"} => ~stop_'
    BY Zenon DEF RetiredInv
  <2>2. ASSUME NEW c \in Caller, StartCreate(c)
        PROVE  \A w \in Worker :
                 /\ wpc[w]' = wpc[w] \/ wpc[w]' = "spawned"
                 /\ stop_' = stop_
    BY <1>0, <2>2 DEF StartCreate, RestOK
  <2>3. ASSUME NEW c \in Caller,
               Call(c) \/ RunStep(c) \/ (StartStep(c) /\ ~StartCreate(c))
        PROVE  wpc' = wpc /\ stop_' = stop_
    BY <2>3, Zenon DEF Call, SetEnableProperty, Disable, StartCall, StopCall, RunStep,
         RunJoinable, RunPoll, RunJoin, RunEnd, Join, StartStep, StartLock,
         StartLockTimeout, StartProbe, StartHold, StartAwait, StartAwaitTimeout,
         StartSignal, StartUnlock
  <2>4. ASSUME NEW c \in Caller, StopStep(c)
        PROVE  wpc' = wpc /\ stop_' = stop_
    <3>1. ~StopFlag(c)
      <4> SUFFICES ASSUME StopFlag(c) PROVE Retired
        BY <1>2
      <4>1. Stopping(c) /\ locker_ = c
        BY <1>0 DEF StopFlag, Goto, Return, Stopping, StopPC, LockerInv
      <4>2. QED
        BY <1>0, <4>1, ActiveObjectAssumption
           DEF LockerInv, Retired, Starting, Stopping, StartPC, StopPC
    <3>2. QED
      BY <2>4, <3>1, Zenon DEF StopStep, StopLock, StopLockTimeout, StopProbe,
           StopJoin, StopEnd, Join
  <2>5. ASSUME NEW w \in Worker, Activate(w)
        PROVE  \A v \in Worker : wpc[v]' = wpc[v] \/ wpc[v]' = "preprocess"
    BY <1>0, <2>5 DEF Activate, Advance, RestOK
  <2>6. ASSUME NEW w \in Worker, ThreadInit(w)
        PROVE  \A v \in Worker :
                 /\ wpc[v]' = wpc[v] \/ wpc[v]' \in {"announce", "loop"}
                 /\ wpc[v]' = "loop" /\ wpc[v]' # wpc[v]
                      => wpc[v] = "announce" /\ stop_' = stop_
                 /\ wpc[v]' = "announce" /\ wpc[v]' # wpc[v] => stop_' = FALSE
                 /\ stop_' = stop_ \/ stop_' = FALSE
    BY <1>0, <2>6 DEF ThreadInit, Advance, RestOK
  <2>7. ASSUME NEW w \in Worker, QuitLock(w) PROVE FALSE
    <3>1. locker_' # NoThread /\ cpc' = cpc
      BY <2>7, ActiveObjectAssumption DEF QuitLock
    <3>2. \A c \in Caller : ~Starting(c)
      BY <1>0, <2>7, ActiveObjectAssumption DEF QuitLock, LockerInv
    <3>3. QED
      BY <3>1, <3>2 DEF Retired, Starting
  <2>8. ASSUME NEW w \in Worker,
               LoopExit(w) \/ Deactivate(w) \/ QuitFlag(w) \/ QuitJoin(w)
        PROVE  FALSE
    BY <2>1, <2>8, Zenon DEF LoopExit, Deactivate, QuitFlag, QuitJoin, Advance
  <2>9. ASSUME NEW w \in Worker, Activate(w) PROVE stop_' = stop_
    BY <2>9 DEF Activate
  <2>10. CASE UNCHANGED vars
    BY <2>1, <2>10, Zenon DEF vars
  <2>11. CASE \E c \in Caller : Call(c) \/ CallerStep(c)
    <3>1. CASE \E c \in Caller : StartCreate(c)
      BY <2>1, <2>2, <3>1
    <3>2. CASE wpc' = wpc /\ stop_' = stop_
      BY <2>1, <3>2, Zenon
    <3>3. QED
      BY <2>3, <2>4, <2>11, <3>1, <3>2, Zenon DEF CallerStep
  <2>12. CASE \E w \in Worker : ThreadMain(w) \/ QuitLock(w)
    <3>1. PICK w \in Worker : Activate(w) \/ ThreadInit(w)
      BY <2>7, <2>8, <2>12, Zenon DEF ThreadMain
    <3>2. CASE Activate(w)
      BY <2>1, <2>5, <2>9, <3>2
    <3>3. CASE ThreadInit(w)
      <4>1. \A v \in Worker : wpc[v]' \notin {"quitFlag", "quitJoin", "postprocess", "done"}
        BY <2>1, <2>6, <3>3
      <4>2. ASSUME NEW v \in Worker, wpc[v]' \in {"announce", "loop"} PROVE ~stop_'
        BY <2>1, <2>6, <3>3, <4>2
      <4>3. QED
        BY <4>1, <4>2
    <3>4. QED
      BY <3>1, <3>2, <3>3
  <2>13. QED
    BY <2>10, <2>11, <2>12, Zenon DEF Next
<1>3. QED
  BY <1>1, <1>2

(* A Start that finds activated_ free, with a thread already created, would *)
(* need that thread spawned (its own Start then holds locker_) or done (the *)
(* object is then retired).                                                 *)
LEMMA FreshNext ==
  ASSUME InitInTime, IInv, TInv, [Next]_vars
  PROVE  FreshInv'
<1>0. RestOK /\ LockerInv /\ ActivatedInv /\ AwaitInv /\ RetiredInv /\ FreshInv
  BY TypeParts DEF IInv, TInv
<1> DEFINE Early(pc) == pc \in {"startHold", "startCreate"}
<1> USE DEF RestOK, FreshInv
<1>1. ASSUME NEW c \in Caller, Call(c) \/ RunStep(c) \/ StopStep(c) PROVE FreshInv'
  <2>1. wpc' = wpc /\ \A d \in Caller : Early(cpc[d]') => cpc[d]' = cpc[d]
    BY <1>0, <1>1 DEF Call, SetEnableProperty, Disable, StartCall, StopCall, RunStep,
         RunJoinable, RunPoll, RunJoin, RunEnd, Join, StopStep, StopLock,
         StopLockTimeout, StopProbe, StopFlag, StopJoin, StopEnd, Goto, Return
  <2>2. QED
    BY <1>0, <2>1 DEF Created
<1>2. ASSUME NEW c \in Caller, StartStep(c) PROVE FreshInv'
  <2>1. Starting(c) => \A d \in Caller : Starting(d) => d = c
    BY <1>0 DEF LockerInv
  <2>2. CASE StartProbe(c) /\ activated_ = NoThread
    <3>1. Starting(c) /\ cpc[c] = "startProbe"
      BY <2>2 DEF StartProbe, Goto, Starting, StartPC
    <3>2. ASSUME NEW w \in Created PROVE FALSE
      <4>1. ~Active(w)
        BY <1>0, <2>2, ActiveObjectAssumption DEF ActivatedInv, Created
      <4>2. CASE wpc[w] = "spawned"
        BY <1>0, <2>1, <3>1, <4>2 DEF AwaitInv, Created, Starting, StartPC
      <4>3. CASE wpc[w] = "done"
        BY <1>0, <3>1, <4>3, Zenon DEF RetiredInv, Retired, Created
      <4>4. QED
        BY <1>0, <4>1, <4>2, <4>3 DEF Created, Active, WorkerPC
    <3>3. wpc' = wpc
      BY <2>2 DEF StartProbe
    <3>4. QED
      BY <3>2, <3>3 DEF Created
  <2>3. CASE StartCreate(c)
    BY <1>0, <2>1, <2>3 DEF StartCreate, Goto, Starting, StartPC
  <2>4. CASE StartHold(c)
    BY <1>0, <2>4 DEF StartHold, Goto, Created
  <2>5. CASE ~StartCreate(c) /\ ~StartHold(c) /\ ~(StartProbe(c) /\ activated_ = NoThread)
    <3>1. wpc' = wpc /\ \A d \in Caller : Early(cpc[d]') => cpc[d]' = cpc[d]
      BY <1>0, <1>2, <2>5 DEF StartStep, StartLock, StartLockTimeout, StartProbe,
           StartAwait, StartAwaitTimeout, StartSignal, StartUnlock, Goto, Return
    <3>2. QED
      BY <1>0, <3>1 DEF Created
  <2>6. QED
    BY <2>2, <2>3, <2>4, <2>5
<1>3. ASSUME NEW w \in Worker, ThreadMain(w) \/ QuitLock(w) PROVE FreshInv'
  <2>1. cpc' = cpc
    BY <1>3, Zenon DEF ThreadMain, Activate, ThreadInit, LoopExit, Deactivate,
         QuitFlag, QuitJoin, QuitLock
  <2>2. QED
    BY <1>0, <1>3, <2>1, ThreadKeepsCreated
<1>4. CASE UNCHANGED vars
  BY <1>0, <1>4 DEF vars, Created
<1>5. QED
  BY <1>1, <1>2, <1>3, <1>4 DEF Next, CallerStep

LEMMA DoneStays ==
  ASSUME RestOK, [Next]_vars, NEW w \in Worker, wpc[w] = "done"
  PROVE  wpc[w]' = "done"
<1> USE DEF RestOK
<1>1. CASE wpc' = wpc
  BY <1>1
<1>2. ASSUME NEW c \in Caller, StartCreate(c) PROVE wpc[w]' = "done"
  BY <1>2 DEF StartCreate, Created
<1>3. ASSUME NEW v \in Worker, ThreadMain(v) \/ QuitLock(v) PROVE wpc[w]' = "done"
  BY <1>3 DEF ThreadMain, Activate, ThreadInit, LoopExit, Deactivate, QuitFlag,
       QuitJoin, QuitLock, Advance
<1>4. QED
  BY <1>1, <1>2, <1>3, WorkerMoves

LEMMA EndedNext ==
  ASSUME InitInTime, IInv, TInv, [Next]_vars
  PROVE  EndedInv'
<1>0. RestOK /\ EndedInv
  BY TypeParts DEF IInv, TInv
<1>1. CASE \E w \in Worker : wpc[w] = "done"
  BY <1>0, <1>1, DoneStays DEF EndedInv
<1>2. CASE \A w \in Worker : wpc[w] # "done"
  <2>1. \A c \in Caller : ret[c] # "stopped"
    BY <1>0, <1>2 DEF EndedInv
  <2> USE DEF RestOK
  <2>2. ASSUME NEW c \in Caller, Call(c) \/ RunStep(c)
        PROVE  \A d \in Caller : ret[d]' # "stopped"
    BY <1>0, <2>1, <2>2 DEF Call, SetEnableProperty, Disable, StartCall, StopCall,
         RunStep, RunJoinable, RunPoll, RunJoin, RunEnd, Join, Return
  <2>3. ASSUME NEW c \in Caller, StartStep(c)
        PROVE  \A d \in Caller : ret[d]' # "stopped"
    BY <1>0, <2>1, <2>3 DEF StartStep, StartLock, StartLockTimeout, StartProbe,
         StartHold, StartCreate, StartAwait, StartAwaitTimeout, StartSignal,
         StartUnlock, Return
  <2>4. ASSUME NEW c \in Caller, StopStep(c)
        PROVE  \A d \in Caller : ret[d]' # "stopped"
    <3>1. ~StopEnd(c)
      BY <1>0, <1>2 DEF StopEnd
    <3>2. QED
      BY <1>0, <2>1, <2>4, <3>1 DEF StopStep, StopLock, StopLockTimeout, StopProbe,
           StopFlag, StopJoin, Join, Return
  <2>5. ASSUME NEW w \in Worker, ThreadMain(w) \/ QuitLock(w) PROVE ret' = ret
    BY <2>5, Zenon DEF ThreadMain, Activate, ThreadInit, LoopExit, Deactivate,
         QuitFlag, QuitJoin, QuitLock
  <2>6. CASE UNCHANGED vars
    BY <2>1, <2>6 DEF vars, EndedInv
  <2>7. QED
    BY <2>1, <2>2, <2>3, <2>4, <2>5, <2>6 DEF Next, CallerStep, EndedInv
<1>3. QED
  BY <1>1, <1>2

LEMMA TInvNext == IInv /\ TInv /\ [Next]_vars => TInv'
  BY OneThreadNext, AwaitNext, RetiredNext, FreshNext, EndedNext, Zenon DEF TInv

LEMMA TInvAlways == Spec => []TInv
  BY IInvAlways, TInvInit, TInvNext, PTL DEF Spec

(* With Preprocess in time, any number of Starts create one thread at most. *)
THEOREM StartCreatesOnce == Spec => []OneThread
<1>1. TInv => OneThread
  BY DEF TInv, OneThread
<1>2. QED
  BY <1>1, TInvAlways, PTL

(* With Preprocess in time, a Stop that reports the end has ended all.      *)
THEOREM StopReturnsQuiet == Spec => []StopQuiesces
<1>1. TInv => StopQuiesces
  BY DEF TInv, EndedInv, OneThread, StopQuiesces, Created
<1>2. QED
  BY <1>1, TInvAlways, PTL

-----------------------------------------------------------------------------
(* Towards Lifecycle.  A thread on its way out was stopped, and stays so.   *)
OutInv == InitInTime => \A w \in Worker : wpc[w] = "postprocess" => stop_

(* The phase, when there is no thread and when there is one.                *)
PhaseIs ==
  /\ Created = {} => Phase = IF Retired THEN "retired" ELSE "fresh"
  /\ \A w \in Worker : Created = {w} =>
       /\ wpc[w] \in {"spawned", "preprocess"} => Phase = "starting"
       /\ wpc[w] = "done" => Phase = "ended"
       /\ wpc[w] \notin {"spawned", "preprocess", "done"} /\ stop_ => Phase = "stopping"
       /\ wpc[w] \notin {"spawned", "preprocess", "done"} /\ ~stop_ => Phase = "running"

LEMMA PhaseNow == PhaseIs
<1>1. Created = {} => Phase = IF Retired THEN "retired" ELSE "fresh"
  BY DEF Phase
<1>2. ASSUME NEW w \in Worker, Created = {w}
      PROVE  /\ wpc[w] \in {"spawned", "preprocess"} => Phase = "starting"
             /\ wpc[w] = "done" => Phase = "ended"
             /\ wpc[w] \notin {"spawned", "preprocess", "done"} /\ stop_ => Phase = "stopping"
             /\ wpc[w] \notin {"spawned", "preprocess", "done"} /\ ~stop_ => Phase = "running"
  <2>1. (\E v \in Created : wpc[v] \in {"spawned", "preprocess"})
          <=> wpc[w] \in {"spawned", "preprocess"}
    BY <1>2
  <2>2. (Created # {} /\ \A v \in Created : wpc[v] = "done") <=> wpc[w] = "done"
    BY <1>2
  <2>3. Created # {}
    BY <1>2
  <2>4. QED
    BY <2>1, <2>2, <2>3 DEF Phase
<1>3. QED
  BY <1>1, <1>2 DEF PhaseIs

LEMMA PhaseThen == PhaseIs'
  BY PhaseNow, PTL

(* How the only thread and stop_ move. *)
Moves(w) ==
  \/ wpc'[w] = wpc[w] /\ (stop_' = stop_ \/ stop_')
  \/ wpc[w] = "spawned" /\ wpc'[w] = "preprocess" /\ stop_' = stop_
  \/ wpc[w] = "preprocess" /\ wpc'[w] = "announce" /\ ~stop_'
  \/ /\ wpc[w] \in {"announce", "loop", "quitJoin"}
     /\ wpc'[w] \in {"loop", "quitFlag"}
     /\ stop_' = stop_
  \/ wpc[w] = "loop" /\ wpc'[w] = "postprocess" /\ stop_ /\ stop_' = stop_
  \/ wpc[w] = "quitFlag" /\ wpc'[w] = "quitJoin" /\ stop_'
  \/ wpc[w] = "postprocess" /\ wpc'[w] = "done" /\ stop_' = stop_

LEMMA OneMoves ==
  ASSUME InitInTime, IInv, TInv, [Next]_vars, NEW w \in Worker, Created = {w}
  PROVE  Moves(w)
<1>0. RestOK /\ FlagsOK /\ FreshInv
  BY TypeParts DEF IInv, TInv
<1>1. ASSUME NEW c \in Caller, StartCreate(c) PROVE FALSE
  BY <1>0, <1>1 DEF StartCreate, Goto, FreshInv
<1>2. ASSUME NEW c \in Caller, Call(c) \/ StartStep(c) \/ RunStep(c)
      PROVE  wpc' = wpc /\ stop_' = stop_
  BY <1>1, <1>2, Zenon DEF Call, SetEnableProperty, Disable, StartCall, StopCall, RunStep,
     RunJoinable, RunPoll, RunJoin, RunEnd, Join, StartStep, StartLock,
     StartLockTimeout, StartProbe, StartHold, StartAwait, StartAwaitTimeout,
     StartSignal, StartUnlock
<1>3. ASSUME NEW c \in Caller, StopStep(c)
      PROVE  wpc' = wpc /\ (stop_' = stop_ \/ stop_')
  BY <1>3, Zenon DEF StopStep, StopLock, StopLockTimeout, StopProbe, StopFlag, StopJoin,
     StopEnd, Join
<1>4. ASSUME NEW v \in Worker, ThreadMain(v) \/ QuitLock(v) PROVE Moves(w)
  <2>1. v = w
    <3>1. wpc[v] # "free"
      BY <1>4 DEF ThreadMain, Activate, ThreadInit, LoopExit, Deactivate, QuitFlag,
         QuitJoin, QuitLock, Advance
    <3>2. QED
      BY <3>1 DEF Created
  <2>2. \A from, to \in WorkerPC : Advance(w, from, to) => wpc[w] = from /\ wpc'[w] = to
    BY <1>0 DEF Advance, RestOK
  <2>3. {"spawned", "preprocess", "announce", "loop", "quitFlag", "quitJoin",
         "postprocess", "done"} \subseteq WorkerPC
    BY DEF WorkerPC, ActivePC
  <2>4. CASE Activate(w)
    BY <2>2, <2>3, <2>4 DEF Activate, Moves
  <2>5. CASE ThreadInit(w)
    BY <2>2, <2>3, <2>5 DEF ThreadInit, Moves
  <2>6. CASE LoopExit(w)
    BY <2>2, <2>3, <2>6 DEF LoopExit, Moves
  <2>7. CASE Deactivate(w)
    BY <2>2, <2>3, <2>7 DEF Deactivate, Moves
  <2>8. CASE QuitFlag(w)
    BY <2>2, <2>3, <2>8 DEF QuitFlag, Moves
  <2>9. CASE QuitJoin(w) \/ QuitLock(w)
    BY <2>2, <2>3, <2>9 DEF QuitJoin, QuitLock, Moves
  <2>10. QED
    BY <1>4, <2>1, <2>4, <2>5, <2>6, <2>7, <2>8, <2>9, Zenon DEF ThreadMain
<1>5. CASE UNCHANGED vars
  BY <1>5, Zenon DEF vars, Moves
<1>6. QED
  BY <1>2, <1>3, <1>4, <1>5, Zenon DEF Next, CallerStep, Moves

LEMMA OutInit == Init => OutInv
  BY DEF Init, OutInv

(* With one thread, or none, what was created. *)
LEMMA Creation ==
  ASSUME InitInTime, TInv
  PROVE  Created = {} \/ \E w \in Worker : Created = {w}
  BY DEF TInv, OneThread, Created

LEMMA StaysCreated ==
  ASSUME RestOK, [Next]_vars, NEW w \in Created
  PROVE  w \in Created'
<1> USE DEF RestOK
<1>1. CASE wpc' = wpc
  BY <1>1 DEF Created
<1>2. ASSUME NEW c \in Caller, StartCreate(c) PROVE w \in Created'
  BY <1>2 DEF StartCreate, Created
<1>3. ASSUME NEW v \in Worker, ThreadMain(v) \/ QuitLock(v) PROVE w \in Created'
  BY <1>3, ThreadKeepsCreated
<1>4. QED
  BY <1>1, <1>2, <1>3, WorkerMoves

LEMMA OutNext ==
  ASSUME IInv, TInv, TInv', OutInv, [Next]_vars
  PROVE  OutInv'
<1> SUFFICES ASSUME InitInTime, NEW w \in Worker, wpc'[w] = "postprocess" PROVE stop_'
  BY DEF OutInv
<1>0. RestOK
  BY TypeParts DEF IInv
<1>1. CASE Created = {}
  <2>1. PICK v \in Worker : wpc[v] # wpc'[v]
    BY <1>1, <1>0 DEF Created, RestOK
  <2>2. ASSUME NEW c \in Caller, StartCreate(c) PROVE FALSE
    BY <1>0, <1>1, <2>2 DEF StartCreate, RestOK, Created
  <2>3. ASSUME NEW u \in Worker, ThreadMain(u) \/ QuitLock(u) PROVE FALSE
    BY <1>0, <1>1, <2>3, ThreadKeepsCreated DEF Created
  <2>4. QED
    BY <1>0, <2>1, <2>2, <2>3, WorkerMoves
<1>2. CASE Created # {}
  <2>1. PICK v \in Worker : Created = {v}
    BY <1>2, Creation
  <2>2. v \in Created' /\ w \in Created'
    BY <1>0, <2>1, StaysCreated DEF Created
  <2>3. v = w
    BY <2>2 DEF TInv, OneThread
  <2>4. Moves(w)
    BY <2>1, <2>3, OneMoves
  <2>5. wpc[w] = "postprocess" => stop_
    BY DEF OutInv
  <2>6. \/ wpc[w] = "postprocess" /\ (stop_' = stop_ \/ stop_')
        \/ stop_ /\ stop_' = stop_
    BY <2>4 DEF Moves
  <2>7. QED
    BY <2>5, <2>6, Zenon
<1>3. QED
  BY <1>1, <1>2

(* Every step is a step of the Lifecycle, or none. *)
LEMMA StepLifecycle ==
  ASSUME InitInTime, IInv, TInv, TInv', OutInv, [Next]_vars
  PROVE  Abstract!Next \/ Phase' = Phase
<1>0. RestOK
  BY TypeParts DEF IInv
<1>1. CASE Created = {}
  <2>1. Phase = IF Retired THEN "retired" ELSE "fresh"
    BY <1>1, PhaseNow DEF PhaseIs
  <2>2. CASE Created' = {}
    <3>1. Phase' = IF Retired' THEN "retired" ELSE "fresh"
      BY <2>2, PhaseThen DEF PhaseIs
    <3>2. Retired => Retired'
      BY <1>0, RetiredStable
    <3>3. QED
      BY <2>1, <3>1, <3>2 DEF Abstract!Next, Abstract!Retire, Abstract!Become
  <2>3. CASE Created' # {}
    <3>1. wpc' # wpc
      BY <1>1, <2>3 DEF Created
    <3>2. ASSUME NEW v \in Worker, ThreadMain(v) \/ QuitLock(v) PROVE FALSE
      BY <1>0, <1>1, <2>3, <3>2, ThreadKeepsCreated
    <3>3. PICK c \in Caller : StartCreate(c)
      BY <1>0, <3>1, <3>2, WorkerMoves
    <3>4. PICK w \in Worker : wpc' = [wpc EXCEPT ![w] = "spawned"]
      BY <3>3 DEF StartCreate
    <3>5. Created' = {w} /\ wpc'[w] = "spawned"
      BY <1>0, <1>1, <3>4 DEF Created, RestOK
    <3>6. Phase' = "starting"
      BY <3>5, PhaseThen DEF PhaseIs
    <3>7. ~Retired
      BY <1>0, <1>1, <2>3, RetiredStable
    <3>8. QED
      BY <2>1, <3>6, <3>7 DEF Abstract!Next, Abstract!Start, Abstract!Become
  <2>4. QED
    BY <2>2, <2>3
<1>2. ASSUME NEW w \in Worker, Created = {w} PROVE Abstract!Next \/ Phase' = Phase
  <2>1. Created' = {w}
    <3>1. w \in Created'
      BY <1>0, <1>2, StaysCreated
    <3>2. QED
      BY <3>1 DEF TInv, OneThread
  <2>2. Moves(w)
    BY <1>2, OneMoves
  <2> DEFINE Early(pc) == pc \in {"spawned", "preprocess"}
             Now == /\ Early(wpc[w]) => Phase = "starting"
                    /\ wpc[w] = "done" => Phase = "ended"
                    /\ ~Early(wpc[w]) /\ wpc[w] # "done" /\ stop_ => Phase = "stopping"
                    /\ ~Early(wpc[w]) /\ wpc[w] # "done" /\ ~stop_ => Phase = "running"
  <2>3. Now
    BY <1>2, PhaseNow DEF PhaseIs
  <2>4. Now'
    BY <2>1, PhaseThen DEF PhaseIs
  <2>5. wpc[w] = "postprocess" => stop_
    BY DEF OutInv
  <2>6. \/ Phase' = Phase
        \/ Phase = "starting" /\ Phase' = "running"
        \/ Phase = "running" /\ Phase' = "stopping"
        \/ Phase = "stopping" /\ Phase' = "ended"
    BY <2>2, <2>3, <2>4, <2>5 DEF Moves
  <2>7. QED
    BY <2>6, Zenon DEF Abstract!Next, Abstract!Ready, Abstract!Stop, Abstract!End,
       Abstract!Become
<1>3. QED
  BY <1>1, <1>2, Creation

(* When Preprocess is in time, an object is used up once, as Lifecycle has  *)
(* it: what callers see of Start, Stop and ThreadMain are its steps, in its *)
(* order.  That it gets on is left to the runs.                             *)
THEOREM StepsOfLifecycle ==
  ASSUME InitInTime
  PROVE  Spec => Abstract!Init /\ [][Abstract!Next]_Phase
<1>1. Init => Abstract!Init
  BY ActiveObjectAssumption, PhaseNow DEF PhaseIs, Init, Created, Retired, Abstract!Init
<1>2. IInv /\ TInv /\ TInv' /\ OutInv /\ [Next]_vars => [Abstract!Next]_Phase
  BY StepLifecycle
<1>3. IInv /\ TInv /\ TInv' /\ OutInv /\ [Next]_vars => OutInv'
  BY OutNext
<1>4. QED
  BY IInvAlways, TInvAlways, OutInit, <1>1, <1>2, <1>3, PTL DEF Spec

=============================================================================
