-------------------------- MODULE EndpointSchedule --------------------------
(***************************************************************************)
(* How a Device polls its passive Endpoints (lib/device.cpp,               *)
(* lib/endpoint.cpp).  endpoint_schedule_list_ maps a second to the one    *)
(* endpoint due then; the device's thread takes the earliest due entry     *)
(* out, reads the endpoint and puts it back at a later second, while other *)
(* threads (shell, RCS sessions) call Start and Stop of the endpoints.     *)
(*                                                                         *)
(* RemoveSchedule and the insertion of AddSchedule lock the list; Process  *)
(* walks it and erases from it without the lock.  One operation on the     *)
(* list is one step.  All endpoints stay attached to the device; endpoints *)
(* with active_ set have a thread of their own and are not polled.         *)
(***************************************************************************)
EXTENDS Integers

CONSTANTS
  User,      (* threads that start and stop endpoints                       *)
  Dev,       (* the thread of the device                                    *)
  Endpoint,  (* its passive endpoints                                       *)
  NoEndpoint, (* id[t] of a thread concerned with none                   *)
  Interval,  (* GetCorrectionInterval() of each, in seconds                 *)
  MaxTime    (* bound on the clock                                          *)

ASSUME ScheduleAssumption ==
  /\ Dev \notin User
  /\ NoEndpoint \notin Endpoint
  /\ Interval \in [Endpoint -> Nat \ {0}]
  /\ MaxTime \in Nat

VARIABLES
  now,       (* Date::GetCurrent(), in seconds                              *)
  stop_,     (* ActiveObject::stop_ of each endpoint                        *)
  endpoint_schedule_list_, (* the entries, [time, id]                       *)
  phase,     (* which function of its own the device's thread is in         *)
  todo,      (* endpoints its Pre- or Postprocess has still to visit        *)
  pc,        (* where each thread is                                        *)
  id,        (* the endpoint each thread is concerned with                  *)
  time,      (* the second each thread is about to schedule it for          *)
  overlapped (* history: has a call or a turn begun inside another?         *)

vars == <<now, stop_, endpoint_schedule_list_, phase, todo, pc, id, time,
          overlapped>>

Thread == User \cup {Dev}

CallPC   == {"startTest", "startFlag", "startInsert", "stopRemove", "stopFlag"}
Phase    == {"preprocess", "loop", "postprocess", "ended"}
DevicePC == Phase \cup {"picked", "dangling", "correct", "reschedule", "crashed"}
Entry    == [time : Nat, id : Endpoint]

TypeOK ==
  /\ now \in Nat
  /\ stop_ \in [Endpoint -> BOOLEAN]
  /\ endpoint_schedule_list_ \subseteq Entry
  /\ \A r, s \in endpoint_schedule_list_ : r.time = s.time => r = s
  /\ phase \in Phase
  /\ todo \subseteq Endpoint
  /\ pc \in [Thread -> CallPC \cup DevicePC \cup {"idle"}]
  /\ \A u \in User : pc[u] \in CallPC \cup {"idle"}
  /\ id \in [Thread -> Endpoint \cup {NoEndpoint}]
  /\ time \in [Thread -> Nat]
  /\ overlapped \in BOOLEAN

Init ==
  /\ now = 0
  /\ stop_ = [e \in Endpoint |-> TRUE]
  /\ endpoint_schedule_list_ = {}
  /\ phase = "preprocess"
  /\ todo = Endpoint
  /\ pc = [t \in Thread |-> IF t = Dev THEN "preprocess" ELSE "idle"]
  /\ id = [t \in Thread |-> NoEndpoint]
  /\ time = [t \in Thread |-> 0]
  /\ overlapped = FALSE

-----------------------------------------------------------------------------
Goto(t, from, to) ==
  /\ pc[t] = from
  /\ pc' = [pc EXCEPT ![t] = to]

(* A call of Start or Stop returns to where the thread came from. *)
Return(t, from) ==
  /\ Goto(t, from, IF t = Dev THEN phase ELSE "idle")
  /\ id' = [id EXCEPT ![t] = NoEndpoint]
  /\ time' = [time EXCEPT ![t] = 0]

Outside(t) == pc[t] \in Phase \cup {"idle"}
Enter      == overlapped' = (overlapped \/ \E t \in Thread : ~Outside(t))

Scheduled(e) == {r \in endpoint_schedule_list_ : r.id = e}
First(s)     == {r \in s : \A q \in s : r.time <= q.time}

InsertOverwrites(e, at) ==
  {r \in endpoint_schedule_list_ : r.time # at} \cup {[time |-> at, id |-> e]}

(* std::map::insert keeps what is already there for the key. *)
Insert(e, at) ==
  IF \E r \in endpoint_schedule_list_ : r.time = at
  THEN endpoint_schedule_list_
  ELSE endpoint_schedule_list_ \cup {[time |-> at, id |-> e]}

NextTimeFromNow(at, interval) ==
  now + ((now - at) \div interval + 1) * interval

NextTimeStale(at, interval) ==
  at + ((now - at) \div interval) * interval

(* The first second after now that is a multiple of the interval past at. *)
NextTime(at, interval) ==
  at + ((now - at) \div interval + 1) * interval

-----------------------------------------------------------------------------
(* Endpoint::Start and Endpoint::Stop, called by any thread.                *)

Begin(t, e, from, to) ==
  /\ Goto(t, from, to)
  /\ id' = [id EXCEPT ![t] = e]
  /\ Enter
  /\ UNCHANGED <<now, stop_, endpoint_schedule_list_, phase, time>>

Call(u, e) ==
  /\ \E op \in {"startTest", "stopRemove"} : Begin(u, e, "idle", op)
  /\ UNCHANGED todo

StartTestSkipped(t) ==
  /\ \/ Return(t, "startTest")
     \/ /\ Goto(t, "startTest", "startFlag")
        /\ UNCHANGED <<id, time>>
  /\ UNCHANGED <<now, stop_, endpoint_schedule_list_, phase, todo, overlapped>>

(* A disabled endpoint is not started; a started one is left alone. *)
StartTest(t) ==
  /\ \/ Return(t, "startTest")
     \/ /\ Goto(t, "startTest", "startFlag")
        /\ stop_[id[t]]
        /\ UNCHANGED <<id, time>>
  /\ UNCHANGED <<now, stop_, endpoint_schedule_list_, phase, todo, overlapped>>

StartFlag(t) ==
  /\ Goto(t, "startFlag", "startInsert")
  /\ stop_' = [stop_ EXCEPT ![id[t]] = FALSE]
  /\ time' = [time EXCEPT ![t] = now]
  /\ UNCHANGED <<now, endpoint_schedule_list_, phase, todo, id, overlapped>>

StartInsert(t) ==
  /\ Return(t, "startInsert")
  /\ endpoint_schedule_list_' = Insert(id[t], time[t])
  /\ UNCHANGED <<now, stop_, phase, todo, overlapped>>

(* RemoveSchedule erases the first entry of the endpoint.  If the device's  *)
(* thread is about to erase that very entry, its iterator now dangles.      *)
StopRemove(t) ==
  /\ pc[t] = "stopRemove"
  /\ LET removed == First(Scheduled(id[t]))
         dangles == pc[Dev] = "picked" /\ [time |-> time[Dev], id |-> id[Dev]] \in removed
     IN  /\ endpoint_schedule_list_' = endpoint_schedule_list_ \ removed
         /\ pc' = [pc EXCEPT ![t] = "stopFlag",
                             ![Dev] = IF dangles THEN "dangling" ELSE @]
  /\ UNCHANGED <<now, stop_, phase, todo, id, time, overlapped>>

StopFlag(t) ==
  /\ Return(t, "stopFlag")
  /\ stop_' = [stop_ EXCEPT ![id[t]] = TRUE]
  /\ UNCHANGED <<now, endpoint_schedule_list_, phase, todo, overlapped>>

CallStep(t) ==
  StartTest(t) \/ StartFlag(t) \/ StartInsert(t) \/ StopRemove(t) \/ StopFlag(t)

-----------------------------------------------------------------------------
(* The device's thread.  Preprocess starts every endpoint, Postprocess      *)
(* stops every one.                                                         *)

Visit(from, op) ==
  /\ \E e \in todo : Begin(Dev, e, from, op) /\ todo' = todo \ {e}

Turn(from, to) ==
  /\ Goto(Dev, from, to)
  /\ phase' = to
  /\ UNCHANGED <<now, stop_, endpoint_schedule_list_, id, time, overlapped>>

Preprocess ==
  \/ Visit("preprocess", "startTest")
  \/ todo = {} /\ Turn("preprocess", "loop") /\ UNCHANGED todo

Postprocess ==
  \/ Visit("postprocess", "stopRemove")
  \/ todo = {} /\ Turn("postprocess", "ended") /\ UNCHANGED todo

LoopExit == Turn("loop", "postprocess") /\ todo' = Endpoint

(* Process looks at the first entry; no later one can be due before it. *)
Pick ==
  /\ Goto(Dev, "loop", "picked")
  /\ \E first \in First(endpoint_schedule_list_) :
       /\ first.time <= now
       /\ time' = [time EXCEPT ![Dev] = first.time]
       /\ id' = [id EXCEPT ![Dev] = first.id]
  /\ Enter
  /\ UNCHANGED <<now, stop_, endpoint_schedule_list_, phase, todo>>

Erase ==
  /\ Goto(Dev, "picked", "correct")
  /\ endpoint_schedule_list_' =
       endpoint_schedule_list_ \ {[time |-> time[Dev], id |-> id[Dev]]}
  /\ UNCHANGED <<now, stop_, phase, todo, id, time, overlapped>>

(* Erasing through a dangling iterator corrupts the list: nothing more is   *)
(* said about the device after it.                                          *)
EraseDangling ==
  /\ Goto(Dev, "dangling", "crashed")
  /\ UNCHANGED <<now, stop_, endpoint_schedule_list_, phase, todo, id, time, overlapped>>

(* CorrectionProcess reads the endpoint, which takes its time; afterwards   *)
(* the next time is computed.  stop_ is not looked at.                      *)
Correct ==
  /\ Goto(Dev, "correct", "reschedule")
  /\ time' = [time EXCEPT ![Dev] = NextTime(time[Dev], Interval[id[Dev]])]
  /\ UNCHANGED <<now, stop_, endpoint_schedule_list_, phase, todo, id, overlapped>>

Reschedule ==
  /\ Return(Dev, "reschedule")
  /\ endpoint_schedule_list_' = Insert(id[Dev], time[Dev])
  /\ UNCHANGED <<now, stop_, phase, todo, overlapped>>

Process == Pick \/ Erase \/ EraseDangling \/ Correct \/ Reschedule

Tick ==
  /\ now < MaxTime
  /\ now' = now + 1
  /\ UNCHANGED <<stop_, endpoint_schedule_list_, phase, todo, pc, id, time, overlapped>>

Next ==
  \/ Tick
  \/ \E u \in User, e \in Endpoint : Call(u, e)
  \/ \E t \in Thread : CallStep(t)
  \/ Preprocess \/ Process \/ LoopExit \/ Postprocess

Spec == Init /\ [][Next]_vars

(* The threads keep running; nobody has to call anything. *)
FairSpec ==
  /\ Spec
  /\ \A t \in Thread : WF_vars(CallStep(t))
  /\ WF_vars(Preprocess \/ Process \/ Postprocess)

-----------------------------------------------------------------------------
(* The device's thread has the endpoint out of the list.                    *)
InHand(e) == pc[Dev] \in {"correct", "reschedule"} /\ id[Dev] = e

Starting(e) == \E t \in Thread : pc[t] = "startInsert" /\ id[t] = e
Stopping(e) == \E t \in Thread : pc[t] = "stopFlag" /\ id[t] = e

(* As long as no call has overlapped another or a turn of the device, an    *)
(* endpoint has one turn at most: it is either stopped, or in the list      *)
(* once, or in the hand of the device.                                      *)
OneTurn ==
  ~overlapped =>
    \A e \in Endpoint :
      /\ \A r, s \in Scheduled(e) : r = s
      /\ Scheduled(e) # {} => ~InHand(e) /\ ~Starting(e)
      /\ Scheduled(e) # {} \/ InHand(e) \/ Starting(e) => ~stop_[e]

(* An endpoint in the list is due within one interval, however late its     *)
(* readings were and whatever calls overlapped them.                        *)
WithinInterval ==
  \A r \in endpoint_schedule_list_ : r.time <= now + Interval[r.id]

(* Started, and nobody is going to read it any more. *)
Lost(e) ==
  /\ ~stop_[e]
  /\ Scheduled(e) = {}
  /\ ~InHand(e) /\ ~Starting(e) /\ ~Stopping(e)

(* An endpoint drops out of polling, still started, only because another    *)
(* one is in the list for the second it was to get; so whatever the         *)
(* interleaving of Start, Stop and Process, nothing else loses it.          *)
LostByCollision ==
  [][\A e \in Endpoint :
       ~Lost(e) /\ Lost(e)' =>
         \E t \in Thread, r \in endpoint_schedule_list_ :
           id[t] = e /\ r.time = time[t] /\ r.id # e]_vars

(* Start does not bring back an endpoint that has dropped out: unless calls *)
(* have overlapped, it is lost until it is stopped.                         *)
LostUntilStopped ==
  [][~overlapped' => \A e \in Endpoint : Lost(e) => Lost(e)' \/ Stopping(e)']_vars

(* An entry that is due is taken out as long as the device runs, however    *)
(* often other endpoints come due or are started meanwhile.                 *)
NoStarvation ==
  \A e \in Endpoint, at \in 0..MaxTime :
    ([time |-> at, id |-> e] \in endpoint_schedule_list_ /\ at <= now)
      ~> \/ [time |-> at, id |-> e] \notin endpoint_schedule_list_
         \/ phase \in {"postprocess", "ended"}
         \/ pc[Dev] = "crashed"

=============================================================================
