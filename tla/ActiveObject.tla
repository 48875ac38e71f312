---------------------------- MODULE ActiveObject ----------------------------
(***************************************************************************)
(* The lifecycle of one ActiveObject (lib/active_object.cpp): any number   *)
(* of threads call Start, Stop, Run and SetEnable on it, and each          *)
(* pthread_create adds a thread that executes ThreadMain.                  *)
(*                                                                         *)
(* The three Lockers (lib/locker.cpp) are a pthread mutex with a flag: any *)
(* thread may Unlock what another locked, and Unlock of a free Locker does *)
(* nothing.  One call on a Locker is one step.  The probe of activated_    *)
(* (TryLock(0) followed at once by Unlock) is one step too: it is made     *)
(* only under locker_, so all it could do to others is delay a ThreadMain. *)
(***************************************************************************)
EXTENDS Naturals

CONSTANTS
  Caller,      (* threads that call the operations of the object            *)
  Worker,      (* identities pthread_create can return; bounds the threads  *)
  NoThread,    (* a free Locker; a null thread_                             *)
  InitInTime,  (* does Preprocess always end within Start's _timeout?       *)
  SelfStop     (* may Process call Stop() on its own object (Shell's quit)? *)

ASSUME ActiveObjectAssumption ==
  /\ Caller \cap Worker = {}
  /\ NoThread \notin Caller \cup Worker
  /\ InitInTime \in BOOLEAN
  /\ SelfStop \in BOOLEAN

VARIABLES
  enable_,     (* Object::enable_                                           *)
  stop_,       (* ActiveObject::stop_                                       *)
  thread_,     (* the thread the member thread_ names                       *)
  locker_,     (* who locked locker_, or NoThread                           *)
  waiting_for_initialization_, (* is that Locker locked?                    *)
  activated_,  (* the ThreadMain that locked activated_, or NoThread        *)
  cpc,         (* where each caller is                                      *)
  wpc,         (* where each ThreadMain is                                  *)
  op,          (* the operation each caller executes                        *)
  joined,      (* the thread each caller passed to pthread_join             *)
  ret          (* how the last operation of each caller returned            *)

vars == <<enable_, stop_, thread_, locker_, waiting_for_initialization_,
          activated_, cpc, wpc, op, joined, ret>>

Lockers == <<locker_, waiting_for_initialization_, activated_>>

StartPC   == {"startLock", "startProbe", "startHold", "startCreate",
              "startAwait", "startSignal", "startUnlock"}
RunPC     == {"runJoinable", "runPoll", "runJoin", "runJoining"}
StopPC    == {"stopLock", "stopProbe", "stopFlag", "stopJoin", "stopJoining"}
CallerPC  == {"idle", "crashed"} \cup StartPC \cup RunPC \cup StopPC
ActivePC  == {"preprocess", "announce", "loop", "quitFlag", "quitJoin",
              "postprocess"}
WorkerPC  == {"free", "spawned", "done"} \cup ActivePC
Operation == {"none", "start", "run", "stop", "stopNoWait"}
Result    == {"none", "started", "refused", "ended", "stopped", "notActive"}

TypeOK ==
  /\ enable_ \in BOOLEAN
  /\ stop_ \in BOOLEAN
  /\ thread_ \in Worker \cup {NoThread}
  /\ locker_ \in Caller \cup Worker \cup {NoThread}
  /\ waiting_for_initialization_ \in BOOLEAN
  /\ activated_ \in Worker \cup {NoThread}
  /\ cpc \in [Caller -> CallerPC]
  /\ wpc \in [Worker -> WorkerPC]
  /\ op \in [Caller -> Operation]
  /\ joined \in [Caller -> Worker \cup {NoThread}]
  /\ ret \in [Caller -> Result]

Init ==
  /\ enable_ \in BOOLEAN
  /\ stop_ = TRUE
  /\ thread_ = NoThread
  /\ locker_ = NoThread
  /\ waiting_for_initialization_ = FALSE
  /\ activated_ = NoThread
  /\ cpc = [c \in Caller |-> "idle"]
  /\ wpc = [w \in Worker |-> "free"]
  /\ op = [c \in Caller |-> "none"]
  /\ joined = [c \in Caller |-> NoThread]
  /\ ret = [c \in Caller |-> "none"]

-----------------------------------------------------------------------------
(* Helpers: how a caller and a ThreadMain move.                             *)

Goto(c, from, to) ==
  /\ cpc[c] = from
  /\ cpc' = [cpc EXCEPT ![c] = to]

Advance(w, from, to) ==
  /\ wpc[w] = from
  /\ wpc' = [wpc EXCEPT ![w] = to]

Return(c, from, value) ==
  /\ Goto(c, from, "idle")
  /\ op' = [op EXCEPT ![c] = "none"]
  /\ ret' = [ret EXCEPT ![c] = value]

Created == {w \in Worker : wpc[w] # "free"}

-----------------------------------------------------------------------------
(* SetEnable.  The property path (a string) only sets the member; the       *)
(* virtual SetEnable(bool) stops the object when that disables it.          *)

SetEnableProperty(c) ==
  /\ cpc[c] = "idle"
  /\ enable_' = ~enable_
  /\ UNCHANGED <<stop_, thread_, Lockers, cpc, wpc, op, joined, ret>>

Disable(c) ==
  /\ enable_
  /\ Goto(c, "idle", "stopLock")
  /\ enable_' = FALSE
  /\ op' = [op EXCEPT ![c] = "stop"]
  /\ UNCHANGED <<stop_, thread_, Lockers, wpc, joined, ret>>

-----------------------------------------------------------------------------
(* Start and Run.                                                           *)

StartCall(c, o) ==
  /\ cpc[c] = "idle"
  /\ IF enable_
     THEN /\ Goto(c, "idle", "startLock")
          /\ op' = [op EXCEPT ![c] = o]
          /\ UNCHANGED ret
     ELSE /\ ret' = [ret EXCEPT ![c] = "refused"]
          /\ UNCHANGED <<cpc, op>>
  /\ UNCHANGED <<enable_, stop_, thread_, Lockers, wpc, joined>>

StartLock(c) ==
  /\ locker_ = NoThread
  /\ locker_' = c
  /\ Goto(c, "startLock", "startProbe")
  /\ UNCHANGED <<enable_, stop_, thread_, waiting_for_initialization_,
                 activated_, wpc, op, joined, ret>>

StartLockTimeout(c) ==
  /\ locker_ # NoThread
  /\ Return(c, "startLock", "refused")
  /\ UNCHANGED <<enable_, stop_, thread_, Lockers, wpc, joined>>

StartProbeDropped(c) ==
  /\ Goto(c, "startProbe", "startHold")
  /\ ret' = [ret EXCEPT ![c] = "started"]
  /\ UNCHANGED <<enable_, stop_, thread_, Lockers, wpc, op, joined>>

StartProbe(c) ==
  /\ Goto(c, "startProbe",
          IF activated_ = NoThread THEN "startHold" ELSE "startUnlock")
  /\ ret' = [ret EXCEPT
               ![c] = IF activated_ = NoThread THEN "started" ELSE "refused"]
  /\ UNCHANGED <<enable_, stop_, thread_, Lockers, wpc, op, joined>>

(* The blocking Lock() of waiting_for_initialization_. *)
StartHold(c) ==
  /\ ~waiting_for_initialization_
  /\ waiting_for_initialization_' = TRUE
  /\ Goto(c, "startHold", "startCreate")
  /\ UNCHANGED <<enable_, stop_, thread_, locker_, activated_, wpc, op,
                 joined, ret>>

StartCreate(c) ==
  /\ Goto(c, "startCreate", "startAwait")
  /\ \E w \in Worker \ Created :
       /\ wpc' = [wpc EXCEPT ![w] = "spawned"]
       /\ thread_' = w
  /\ UNCHANGED <<enable_, stop_, Lockers, op, joined, ret>>

(* The second, timed, lock succeeds once the new thread has unlocked. *)
StartAwait(c) ==
  /\ ~waiting_for_initialization_
  /\ waiting_for_initialization_' = TRUE
  /\ Goto(c, "startAwait", "startSignal")
  /\ UNCHANGED <<enable_, stop_, thread_, locker_, activated_, wpc, op,
                 joined, ret>>

StartAwaitTimeout(c) ==
  /\ ~InitInTime
  /\ waiting_for_initialization_
  /\ Goto(c, "startAwait", "startSignal")
  /\ UNCHANGED <<enable_, stop_, thread_, Lockers, wpc, op, joined, ret>>

StartSignalOmitted(c) ==
  /\ Goto(c, "startSignal", "startUnlock")
  /\ UNCHANGED <<enable_, stop_, thread_, Lockers, wpc, op, joined, ret>>

StartSignal(c) ==
  /\ waiting_for_initialization_' = FALSE
  /\ Goto(c, "startSignal", "startUnlock")
  /\ UNCHANGED <<enable_, stop_, thread_, locker_, activated_, wpc, op,
                 joined, ret>>

StartUnlock(c) ==
  /\ locker_' = NoThread
  /\ IF op[c] = "run" /\ ret[c] = "started"
     THEN Goto(c, "startUnlock", "runJoinable") /\ UNCHANGED op
     ELSE /\ Goto(c, "startUnlock", "idle")
          /\ op' = [op EXCEPT ![c] = "none"]
  /\ UNCHANGED <<enable_, stop_, thread_, waiting_for_initialization_,
                 activated_, wpc, joined, ret>>

RunJoinable(c) ==
  /\ thread_ # NoThread
  /\ Goto(c, "runJoinable", "runPoll")
  /\ UNCHANGED <<enable_, stop_, thread_, Lockers, wpc, op, joined, ret>>

RunPoll(c) ==
  /\ stop_
  /\ Goto(c, "runPoll", "runJoin")
  /\ UNCHANGED <<enable_, stop_, thread_, Lockers, wpc, op, joined, ret>>

(* pthread_join on the thread thread_ names now; on a null pthread_t the    *)
(* process dies.                                                            *)
Join(c, from, to) ==
  /\ Goto(c, from, IF thread_ = NoThread THEN "crashed" ELSE to)
  /\ joined' = [joined EXCEPT ![c] = thread_]
  /\ UNCHANGED <<enable_, stop_, thread_, Lockers, wpc, op, ret>>

RunJoin(c) == Join(c, "runJoin", "runJoining")

RunEnd(c) ==
  /\ joined[c] # NoThread /\ wpc[joined[c]] = "done"
  /\ thread_' = NoThread
  /\ Return(c, "runJoining", "ended")
  /\ UNCHANGED <<enable_, stop_, Lockers, wpc, joined>>

-----------------------------------------------------------------------------
(* Stop.  No path of it unlocks locker_.                                    *)

StopCall(c, o) ==
  /\ Goto(c, "idle", "stopLock")
  /\ op' = [op EXCEPT ![c] = o]
  /\ UNCHANGED <<enable_, stop_, thread_, Lockers, wpc, joined, ret>>

StopLock(c) ==
  /\ locker_ = NoThread
  /\ locker_' = c
  /\ Goto(c, "stopLock", "stopProbe")
  /\ UNCHANGED <<enable_, stop_, thread_, waiting_for_initialization_,
                 activated_, wpc, op, joined, ret>>

StopLockTimeout(c) ==
  /\ locker_ # NoThread
  /\ Return(c, "stopLock", "refused")
  /\ UNCHANGED <<enable_, stop_, thread_, Lockers, wpc, joined>>

StopProbe(c) ==
  /\ IF activated_ # NoThread
     THEN Goto(c, "stopProbe", "stopFlag") /\ UNCHANGED <<op, ret>>
     ELSE Return(c, "stopProbe", "notActive")
  /\ UNCHANGED <<enable_, stop_, thread_, Lockers, wpc, joined>>

StopFlagUnlocks(c) ==
  /\ stop_' = TRUE
  /\ locker_' = NoThread
  /\ IF op[c] = "stop"
     THEN Goto(c, "stopFlag", "stopJoin") /\ UNCHANGED <<op, ret>>
     ELSE Return(c, "stopFlag", "ended")
  /\ UNCHANGED <<enable_, thread_, waiting_for_initialization_, activated_,
                 wpc, joined>>

StopFlagNoJoin(c) ==
  /\ stop_' = TRUE
  /\ Return(c, "stopFlag", "stopped")
  /\ UNCHANGED <<enable_, thread_, Lockers, wpc, joined>>

StopFlag(c) ==
  /\ stop_' = TRUE
  /\ IF op[c] = "stop"
     THEN Goto(c, "stopFlag", "stopJoin") /\ UNCHANGED <<op, ret>>
     ELSE Return(c, "stopFlag", "ended")
  /\ UNCHANGED <<enable_, thread_, Lockers, wpc, joined>>

StopJoin(c) == Join(c, "stopJoin", "stopJoining")

StopEnd(c) ==
  /\ joined[c] # NoThread /\ wpc[joined[c]] = "done"
  /\ thread_' = NoThread
  /\ Return(c, "stopJoining", "stopped")
  /\ UNCHANGED <<enable_, stop_, Lockers, wpc, joined>>

-----------------------------------------------------------------------------
(* ThreadMain.                                                              *)

ActivateUnchecked(w) ==
  /\ activated_' = w
  /\ Advance(w, "spawned", "preprocess")
  /\ UNCHANGED <<enable_, stop_, thread_, locker_,
                 waiting_for_initialization_, cpc, op, joined, ret>>

Activate(w) ==
  /\ activated_ = NoThread
  /\ activated_' = w
  /\ Advance(w, "spawned", "preprocess")
  /\ UNCHANGED <<enable_, stop_, thread_, locker_,
                 waiting_for_initialization_, cpc, op, joined, ret>>

(* Preprocess() runs and stop_ is cleared, whatever was asked meanwhile;    *)
(* then the starter is released.                                            *)
ThreadInitSwapped(w) ==
  /\ \/ /\ waiting_for_initialization_' = FALSE
        /\ Advance(w, "preprocess", "announce")
        /\ UNCHANGED stop_
     \/ /\ stop_' = FALSE
        /\ Advance(w, "announce", "loop")
        /\ UNCHANGED waiting_for_initialization_
  /\ UNCHANGED <<enable_, thread_, locker_, activated_, cpc, op, joined, ret>>

ThreadInit(w) ==
  /\ \/ /\ stop_' = FALSE
        /\ Advance(w, "preprocess", "announce")
        /\ UNCHANGED waiting_for_initialization_
     \/ /\ waiting_for_initialization_' = FALSE
        /\ Advance(w, "announce", "loop")
        /\ UNCHANGED stop_
  /\ UNCHANGED <<enable_, thread_, locker_, activated_, cpc, op, joined, ret>>

LoopExit(w) ==
  /\ stop_
  /\ Advance(w, "loop", "postprocess")
  /\ UNCHANGED <<enable_, stop_, thread_, Lockers, cpc, op, joined, ret>>

(* A Process() that calls Stop() on its own object: TryLock(0) of locker_   *)
(* may fail, the probe finds activated_ locked, and joining oneself is      *)
(* refused by pthread_join, after which thread_ is null all the same.       *)
QuitLock(w) ==
  /\ SelfStop
  /\ ~stop_
  /\ locker_ = NoThread
  /\ locker_' = w
  /\ Advance(w, "loop", "quitFlag")
  /\ UNCHANGED <<enable_, stop_, thread_, waiting_for_initialization_,
                 activated_, cpc, op, joined, ret>>

QuitFlag(w) ==
  /\ stop_' = TRUE
  /\ Advance(w, "quitFlag", "quitJoin")
  /\ UNCHANGED <<enable_, thread_, Lockers, cpc, op, joined, ret>>

QuitJoin(w) ==
  /\ thread_' = NoThread
  /\ Advance(w, "quitJoin", "loop")
  /\ UNCHANGED <<enable_, stop_, Lockers, cpc, op, joined, ret>>

Deactivate(w) ==
  /\ activated_' = NoThread
  /\ Advance(w, "postprocess", "done")
  /\ UNCHANGED <<enable_, stop_, thread_, locker_,
                 waiting_for_initialization_, cpc, op, joined, ret>>

-----------------------------------------------------------------------------
StartStep(c) ==
  \/ StartLock(c) \/ StartLockTimeout(c) \/ StartProbe(c) \/ StartHold(c)
  \/ StartCreate(c) \/ StartAwait(c) \/ StartAwaitTimeout(c)
  \/ StartSignal(c) \/ StartUnlock(c)

RunStep(c) == RunJoinable(c) \/ RunPoll(c) \/ RunJoin(c) \/ RunEnd(c)

StopStep(c) ==
  \/ StopLock(c) \/ StopLockTimeout(c) \/ StopProbe(c) \/ StopFlag(c)
  \/ StopJoin(c) \/ StopEnd(c)

CallerStep(c) == StartStep(c) \/ RunStep(c) \/ StopStep(c)

Call(c) ==
  \/ SetEnableProperty(c)
  \/ Disable(c)
  \/ \E o \in {"start", "run"} : StartCall(c, o)
  \/ \E o \in {"stop", "stopNoWait"} : StopCall(c, o)

ThreadMain(w) ==
  \/ Activate(w) \/ ThreadInit(w) \/ LoopExit(w) \/ Deactivate(w)
  \/ QuitFlag(w) \/ QuitJoin(w)

Next ==
  \/ \E c \in Caller : Call(c) \/ CallerStep(c)
  \/ \E w \in Worker : ThreadMain(w) \/ QuitLock(w)

Fairness ==
  /\ \A c \in Caller : WF_vars(CallerStep(c))
  /\ \A w \in Worker : WF_vars(ThreadMain(w))

Spec == Init /\ [][Next]_vars
FairSpec == Spec /\ Fairness

-----------------------------------------------------------------------------
Active(w) == wpc[w] \in ActivePC

(* Process(), Preprocess() and Postprocess() of one object never run in two *)
(* threads at once, however many threads Start has created.                 *)
OneBody ==
  \A v, w \in Worker : Active(v) /\ Active(w) => v = w

(* Start's untimed Lock() of waiting_for_initialization_ never blocks:      *)
(* whatever earlier Starts and their threads did, it is free.               *)
StartNeverBlocks ==
  \A c \in Caller : cpc[c] = "startHold" => ~waiting_for_initialization_

(* The callers between Start's TryLock and Unlock of locker_. *)
Starting(c) == cpc[c] \in StartPC \ {"startLock"}

(* locker_ is locked and no Start is going to unlock it. *)
Retired == locker_ # NoThread /\ \A c \in Caller : ~Starting(c)

(* Stop leaves locker_ locked, so once any Stop has got it (on a running    *)
(* object or not) no Start ever creates another thread for this object.     *)
NoThreadAfterStop == [][Retired => Retired' /\ Created' = Created]_vars

(* When Preprocess always beats the timeout, Start creates one thread in    *)
(* the life of the object, whatever the interleaving of Starts and Stops.   *)
OneThread == InitInTime => \A v, w \in Created : v = w

(* When Preprocess always beats the timeout, a Stop(true) that reports the  *)
(* end of an active object returns with every thread of the object ended.   *)
StopQuiesces ==
  InitInTime /\ (\E c \in Caller : ret[c] = "stopped")
    => \A w \in Worker : wpc[w] \in {"free", "done"}

(* Every Start and Stop returns: a Stop is never overwritten by the thread  *)
(* that clears stop_ at the end of its initialization.                      *)
CallsReturn ==
  \A c \in Caller :
    (cpc[c] \in StartPC \cup StopPC) ~> (cpc[c] \notin StartPC \cup StopPC)

(* The detailed lifecycle, seen as one phase, implements Lifecycle. *)
Phase ==
  CASE Created = {} -> IF Retired THEN "retired" ELSE "fresh"
    [] \E w \in Created : wpc[w] \in {"spawned", "preprocess"} -> "starting"
    [] Created # {} /\ \A w \in Created : wpc[w] = "done" -> "ended"
    [] OTHER -> IF stop_ THEN "stopping" ELSE "running"

Abstract == INSTANCE Lifecycle WITH phase <- Phase

(* When Preprocess is in time, the object runs at most once, becomes ready  *)
(* once started and ends once stopped: Start, Stop and ThreadMain together  *)
(* implement the one-shot Lifecycle.                                        *)
ImplementsLifecycle == Abstract!Spec

=============================================================================
