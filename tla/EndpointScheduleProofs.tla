----------------------- MODULE EndpointScheduleProofs -----------------------
(***************************************************************************)
(* Proofs about EndpointSchedule, for any users, endpoints, intervals and  *)
(* length of time.                                                         *)
(***************************************************************************)
EXTENDS EndpointSchedule, TLAPS

(* The next time lies in the future, but not more than an interval away.    *)
LEMMA NextTimeBounds ==
  ASSUME now \in Nat, NEW at \in Nat, at <= now, NEW i \in Nat \ {0}
  PROVE  /\ NextTime(at, i) \in Nat
         /\ now < NextTime(at, i)
         /\ NextTime(at, i) <= now + i
<1> DEFINE d == now - at
           q == d \div i
<1>1. d \in Nat /\ i \in Nat /\ i > 0
  OBVIOUS
<1>2. q \in Int /\ i * q <= d /\ d < i * q + i /\ q >= 0
  BY <1>1
<1>3. (q + 1) * i = i * q + i /\ i * q \in Int
  BY <1>1, <1>2
<1>4. NextTime(at, i) = at + (q + 1) * i
  BY DEF NextTime
<1> HIDE DEF q
<1>5. QED
  BY <1>1, <1>2, <1>3, <1>4

(* A thread inside Start, Stop or a turn of Process has an endpoint.        *)
BusyInv == \A t \in Thread : ~Outside(t) => id[t] \in Endpoint

(* What the device takes out was due; what is about to go in is due at most *)
(* an interval from now.                                                    *)
DueInv ==
  /\ pc[Dev] \in {"picked", "dangling", "correct"} => time[Dev] <= now
  /\ \A t \in Thread : pc[t] = "startInsert" => time[t] <= now
  /\ pc[Dev] = "reschedule" => time[Dev] <= now + Interval[id[Dev]]

(* The inductive invariant behind WithinInterval. *)
IInv == TypeOK /\ BusyInv /\ DueInv /\ WithinInterval

(* TypeOK in two parts: the flags, and all that is not Boolean. *)
FlagsOK == stop_ \in [Endpoint -> BOOLEAN] /\ overlapped \in BOOLEAN

RestOK ==
  /\ now \in Nat
  /\ endpoint_schedule_list_ \subseteq Entry
  /\ \A r, s \in endpoint_schedule_list_ : r.time = s.time => r = s
  /\ phase \in Phase
  /\ todo \subseteq Endpoint
  /\ pc \in [Thread -> CallPC \cup DevicePC \cup {"idle"}]
  /\ \A u \in User : pc[u] \in CallPC \cup {"idle"}
  /\ id \in [Thread -> Endpoint \cup {NoEndpoint}]
  /\ time \in [Thread -> Nat]

LEMMA TypeParts == TypeOK <=> FlagsOK /\ RestOK
  BY Zenon DEF TypeOK, FlagsOK, RestOK

(* Overlapping is remembered.                                               *)
LEMMA Remembered ==
  [Next]_vars => Enter \/ UNCHANGED overlapped
BY Zenon DEF Next, vars, Tick, Call, Begin, CallStep, StartTest, StartFlag,
   StartInsert, StopRemove, StopFlag, Preprocess, Postprocess, LoopExit, Visit, Turn,
   Process, Pick, Erase, EraseDangling, Correct, Reschedule

LEMMA FlagsStep == FlagsOK /\ [Next]_vars => FlagsOK'
<1> SUFFICES ASSUME FlagsOK, [Next]_vars PROVE FlagsOK'
  OBVIOUS
<1> DEFINE StopOK == stop_ \in [Endpoint -> BOOLEAN]
<1>1. ASSUME NEW t \in Thread, StartFlag(t) PROVE StopOK'
  BY <1>1, Zenon DEF FlagsOK, StartFlag
<1>2. ASSUME NEW t \in Thread, StopFlag(t) PROVE StopOK'
  BY <1>2, Zenon DEF FlagsOK, StopFlag
<1>3. UNCHANGED stop_ => StopOK'
  BY Zenon DEF FlagsOK
<1>4. StopOK'
  BY <1>1, <1>2, <1>3, Zenon DEF FlagsOK, Next, vars, Tick, Call, Begin, CallStep,
     StartTest,
     StartInsert, StopRemove, Preprocess, Postprocess, LoopExit, Visit, Turn,
     Process, Pick, Erase, EraseDangling, Correct, Reschedule
<1>5. overlapped' \in BOOLEAN
  BY Remembered, Zenon DEF FlagsOK, Enter
<1>6. QED
  BY <1>4, <1>5, Zenon DEF FlagsOK

LEMMA InsertKeeps ==
  ASSUME RestOK, NEW e \in Endpoint, NEW at \in Nat
  PROVE  /\ Insert(e, at) \subseteq Entry
         /\ \A r, s \in Insert(e, at) : r.time = s.time => r = s
         /\ \A r \in Insert(e, at) :
              r \in endpoint_schedule_list_ \/ (r.time = at /\ r.id = e)
  BY DEF RestOK, Insert, Entry

LEMMA IInvInit == Init => IInv
<1> SUFFICES ASSUME Init PROVE IInv
  OBVIOUS
<1>1. FlagsOK
  BY Zenon DEF Init, FlagsOK
<1>2. RestOK
  BY ScheduleAssumption DEF Init, RestOK, Thread, Phase, CallPC, DevicePC
<1>3. BusyInv /\ DueInv /\ WithinInterval
  BY ScheduleAssumption DEF Init, BusyInv, DueInv, WithinInterval, Thread,
     Outside, Phase
<1>4. QED
  BY <1>1, <1>2, <1>3, TypeParts DEF IInv

(* The steps, with those that begin a call and those that turn the device   *)
(* to its next function taken together.                                     *)
BeginStep ==
  \E t \in Thread, e \in Endpoint :
    \E from \in Phase \cup {"idle"}, op \in {"startTest", "stopRemove"} :
      Begin(t, e, from, op) /\ todo' \subseteq Endpoint

TurnStep ==
  \E from, to \in Phase : Turn(from, to) /\ todo' \subseteq Endpoint

LEMMA NextCases ==
  ASSUME RestOK, [Next]_vars
  PROVE  \/ Tick
         \/ BeginStep
         \/ \E t \in Thread : CallStep(t)
         \/ TurnStep
         \/ Process
         \/ UNCHANGED vars
<1>1. Dev \in Thread /\ User \subseteq Thread
  BY DEF Thread
<1>2. ASSUME NEW u \in User, NEW e \in Endpoint, Call(u, e) PROVE BeginStep
  BY <1>1, <1>2 DEF Call, BeginStep, RestOK
<1>3. ASSUME NEW from \in Phase, NEW op \in {"startTest", "stopRemove"}, Visit(from, op)
      PROVE BeginStep
  BY <1>1, <1>3 DEF Visit, BeginStep, RestOK
<1>4. Preprocess => BeginStep \/ TurnStep
  BY <1>3 DEF Preprocess, TurnStep, Phase, RestOK
<1>5. Postprocess => BeginStep \/ TurnStep
  BY <1>3 DEF Postprocess, TurnStep, Phase, RestOK
<1>6. LoopExit => TurnStep
  BY DEF LoopExit, TurnStep, Phase
<1>7. QED
  BY <1>2, <1>4, <1>5, <1>6 DEF Next

LEMMA Constants ==
  /\ Dev \in Thread /\ User \subseteq Thread /\ Dev \notin User
  /\ \A t \in Thread : t # Dev => t \in User
  /\ \A e \in Endpoint : Interval[e] \in Nat \ {0}
  BY ScheduleAssumption DEF Thread

(* What a thread about to put an entry in has at hand.                      *)
LEMMA AtHand ==
  ASSUME RestOK, BusyInv, DueInv
  PROVE  /\ \A t \in Thread : pc[t] = "startInsert" =>
              id[t] \in Endpoint /\ time[t] \in Nat /\ time[t] <= now
         /\ pc[Dev] = "correct" =>
              /\ id[Dev] \in Endpoint /\ time[Dev] \in Nat /\ time[Dev] <= now
              /\ NextTime(time[Dev], Interval[id[Dev]]) \in Nat
              /\ NextTime(time[Dev], Interval[id[Dev]]) <= now + Interval[id[Dev]]
         /\ pc[Dev] = "reschedule" =>
              /\ id[Dev] \in Endpoint /\ time[Dev] \in Nat
              /\ time[Dev] <= now + Interval[id[Dev]]
<1>1. \A t \in Thread : pc[t] = "startInsert" =>
        id[t] \in Endpoint /\ time[t] \in Nat /\ time[t] <= now
  BY DEF RestOK, BusyInv, DueInv, Outside, Phase
<1>2. pc[Dev] = "reschedule" =>
        /\ id[Dev] \in Endpoint /\ time[Dev] \in Nat
        /\ time[Dev] <= now + Interval[id[Dev]]
  BY Constants DEF RestOK, BusyInv, DueInv, Outside, Phase
<1>3. pc[Dev] = "correct" =>
        id[Dev] \in Endpoint /\ time[Dev] \in Nat /\ time[Dev] <= now
  BY Constants DEF RestOK, BusyInv, DueInv, Outside, Phase
<1>4. ASSUME pc[Dev] = "correct"
      PROVE  /\ NextTime(time[Dev], Interval[id[Dev]]) \in Nat
             /\ NextTime(time[Dev], Interval[id[Dev]]) <= now + Interval[id[Dev]]
  <2>1. now \in Nat /\ Interval[id[Dev]] \in Nat \ {0}
    BY <1>3, <1>4, Constants DEF RestOK
  <2>2. QED
    BY <1>3, <1>4, <2>1, NextTimeBounds
<1>5. QED
  BY <1>1, <1>2, <1>3, <1>4

LEMMA RestNext ==
  ASSUME RestOK, BusyInv, DueInv, [Next]_vars
  PROVE  RestOK'
<1>1. CASE Tick
  BY Constants, <1>1 DEF Tick, RestOK, Phase, CallPC, DevicePC
<1>2. CASE BeginStep
  BY Constants, <1>2 DEF BeginStep, Begin, Goto, RestOK, Phase, CallPC,
     DevicePC
<1>3. ASSUME NEW t \in Thread, CallStep(t) PROVE RestOK'
  <2>1. CASE StartTest(t)
    BY Constants, <2>1 DEF StartTest, Return, Goto, RestOK, Phase, CallPC,
       DevicePC
  <2>2. CASE StartFlag(t)
    <3>1. time' \in [Thread -> Nat]
      BY <2>2 DEF StartFlag, RestOK
    <3>2. /\ pc' \in [Thread -> CallPC \cup DevicePC \cup {"idle"}]
          /\ \A u \in User : pc'[u] \in CallPC \cup {"idle"}
      BY Constants, <2>2 DEF StartFlag, Goto, RestOK, CallPC
    <3>3. QED
      BY <2>2, <3>1, <3>2 DEF StartFlag, RestOK
  <2>3. CASE StartInsert(t)
    <3>1. id' \in [Thread -> Endpoint \cup {NoEndpoint}] /\ time' \in [Thread -> Nat]
      BY <2>3 DEF StartInsert, Return, RestOK
    <3>2. /\ pc' \in [Thread -> CallPC \cup DevicePC \cup {"idle"}]
          /\ \A u \in User : pc'[u] \in CallPC \cup {"idle"}
      BY Constants, <2>3 DEF StartInsert, Return, Goto, RestOK, Phase,
         CallPC, DevicePC
    <3>3. /\ endpoint_schedule_list_' \subseteq Entry
          /\ \A r, s \in endpoint_schedule_list_' : r.time = s.time => r = s
      BY <2>3, AtHand, InsertKeeps DEF StartInsert, Return, Goto
    <3>4. QED
      BY <2>3, <3>1, <3>2, <3>3 DEF StartInsert, RestOK
  <2>4. CASE StopRemove(t)
    BY Constants, <2>4 DEF StopRemove, First, Scheduled, RestOK, Phase,
       CallPC,
       DevicePC
  <2>5. CASE StopFlag(t)
    <3>1. id' \in [Thread -> Endpoint \cup {NoEndpoint}] /\ time' \in [Thread -> Nat]
      BY <2>5 DEF StopFlag, Return, RestOK
    <3>2. /\ pc' \in [Thread -> CallPC \cup DevicePC \cup {"idle"}]
          /\ \A u \in User : pc'[u] \in CallPC \cup {"idle"}
      BY Constants, <2>5 DEF StopFlag, Return, Goto, RestOK, Phase, CallPC,
         DevicePC
    <3>3. QED
      BY <2>5, <3>1, <3>2 DEF StopFlag, RestOK
  <2>6. QED
    BY <1>3, <2>1, <2>2, <2>3, <2>4, <2>5 DEF CallStep
<1>4. CASE TurnStep
  BY Constants, <1>4 DEF TurnStep, Turn, Goto, RestOK, Phase, CallPC, DevicePC
<1>5. CASE Process
  <2>1. CASE Pick
    BY Constants, <2>1 DEF Pick, First, Goto, RestOK, Phase, CallPC, DevicePC,
       Entry
  <2>2. CASE Erase
    BY Constants, <2>2 DEF Erase, Goto, RestOK, Phase, CallPC, DevicePC
  <2>3. CASE EraseDangling
    BY Constants, <2>3 DEF EraseDangling, Goto, RestOK, Phase, CallPC,
       DevicePC
  <2>4. CASE Correct
    BY Constants, AtHand, <2>4 DEF Correct, Goto, RestOK, Phase, CallPC,
       DevicePC
  <2>5. CASE Reschedule
    BY Constants, AtHand, InsertKeeps, <2>5 DEF Reschedule, Return, Goto,
       RestOK,
       Phase, CallPC, DevicePC
  <2>6. QED
    BY <1>5, <2>1, <2>2, <2>3, <2>4, <2>5 DEF Process
<1>6. CASE UNCHANGED vars
  BY Constants, <1>6 DEF vars, RestOK, Phase, CallPC, DevicePC
<1>7. QED
  BY <1>1, <1>2, <1>3, <1>4, <1>5, <1>6, NextCases

LEMMA BusyNext ==
  ASSUME RestOK, BusyInv, [Next]_vars
  PROVE  BusyInv'
<1>1. CASE Tick
  BY Constants, <1>1 DEF Tick, RestOK, BusyInv, Outside, Phase
<1>2. CASE BeginStep
  BY Constants, <1>2 DEF BeginStep, Begin, Goto, RestOK, BusyInv, Outside,
     Phase
<1>3. ASSUME NEW t \in Thread, CallStep(t) PROVE BusyInv'
  <2>1. CASE StartTest(t)
    BY Constants, <2>1 DEF StartTest, Return, Goto, RestOK, BusyInv, Outside,
       Phase
  <2>2. CASE StartFlag(t)
    BY Constants, <2>2 DEF StartFlag, Goto, RestOK, BusyInv, Outside, Phase
  <2>3. CASE StartInsert(t)
    BY Constants, <2>3 DEF StartInsert, Return, Goto, RestOK, BusyInv,
       Outside,
       Phase
  <2>4. CASE StopRemove(t)
    BY Constants, <2>4 DEF StopRemove, First, Scheduled, RestOK, BusyInv,
       Outside,
       Phase
  <2>5. CASE StopFlag(t)
    BY Constants, <2>5 DEF StopFlag, Return, Goto, RestOK, BusyInv, Outside,
       Phase
  <2>6. QED
    BY <1>3, <2>1, <2>2, <2>3, <2>4, <2>5 DEF CallStep
<1>4. CASE TurnStep
  BY Constants, <1>4 DEF TurnStep, Turn, Goto, RestOK, BusyInv, Outside, Phase
<1>5. CASE Process
  <2>1. CASE Pick
    BY Constants, <2>1 DEF Pick, First, Goto, RestOK, BusyInv, Outside, Phase,
       Entry
  <2>2. CASE Erase
    BY Constants, <2>2 DEF Erase, Goto, RestOK, BusyInv, Outside, Phase
  <2>3. CASE EraseDangling
    BY Constants, <2>3 DEF EraseDangling, Goto, RestOK, BusyInv, Outside,
       Phase
  <2>4. CASE Correct
    BY Constants, <2>4 DEF Correct, Goto, RestOK, BusyInv, Outside, Phase
  <2>5. CASE Reschedule
    BY Constants, <2>5 DEF Reschedule, Return, Goto, RestOK, BusyInv, Outside,
       Phase
  <2>6. QED
    BY <1>5, <2>1, <2>2, <2>3, <2>4, <2>5 DEF Process
<1>6. CASE UNCHANGED vars
  BY Constants, <1>6 DEF vars, RestOK, BusyInv, Outside, Phase
<1>7. QED
  BY <1>1, <1>2, <1>3, <1>4, <1>5, <1>6, NextCases

LEMMA DueNext ==
  ASSUME RestOK, BusyInv, DueInv, [Next]_vars
  PROVE  DueInv'
<1>1. CASE Tick
  BY Constants, <1>1 DEF Tick, RestOK, DueInv, BusyInv, Outside, Phase
<1>2. CASE BeginStep
  BY Constants, <1>2 DEF BeginStep, Begin, Goto, RestOK, DueInv, Phase
<1>3. ASSUME NEW t \in Thread, CallStep(t) PROVE DueInv'
  <2>1. CASE StartTest(t)
    BY Constants, <2>1 DEF StartTest, Return, Goto, RestOK, DueInv, Phase
  <2>2. CASE StartFlag(t)
    BY Constants, <2>2 DEF StartFlag, Goto, RestOK, DueInv
  <2>3. CASE StartInsert(t)
    BY Constants, <2>3 DEF StartInsert, Return, Goto, RestOK, DueInv, Phase
  <2>4. CASE StopRemove(t)
    BY Constants, <2>4 DEF StopRemove, First, Scheduled, RestOK, DueInv
  <2>5. CASE StopFlag(t)
    BY Constants, <2>5 DEF StopFlag, Return, Goto, RestOK, DueInv, Phase
  <2>6. QED
    BY <1>3, <2>1, <2>2, <2>3, <2>4, <2>5 DEF CallStep
<1>4. CASE TurnStep
  BY Constants, <1>4 DEF TurnStep, Turn, Goto, RestOK, DueInv, Phase
<1>5. CASE Process
  <2>1. CASE Pick
    BY Constants, <2>1 DEF Pick, First, Goto, RestOK, DueInv, Entry
  <2>2. CASE Erase
    BY Constants, <2>2 DEF Erase, Goto, RestOK, DueInv
  <2>3. CASE EraseDangling
    BY Constants, <2>3 DEF EraseDangling, Goto, RestOK, DueInv
  <2>4. CASE Correct
    BY Constants, AtHand, <2>4 DEF Correct, Goto, RestOK, DueInv
  <2>5. CASE Reschedule
    BY Constants, <2>5 DEF Reschedule, Return, Goto, RestOK, DueInv, Phase
  <2>6. QED
    BY <1>5, <2>1, <2>2, <2>3, <2>4, <2>5 DEF Process
<1>6. CASE UNCHANGED vars
  BY Constants, <1>6 DEF vars, RestOK, DueInv
<1>7. QED
  BY <1>1, <1>2, <1>3, <1>4, <1>5, <1>6, NextCases

LEMMA WithinNext ==
  ASSUME RestOK, BusyInv, DueInv, WithinInterval, [Next]_vars
  PROVE  WithinInterval'
<1>1. CASE Tick
  BY Constants, <1>1 DEF Tick, RestOK, WithinInterval, Entry
<1>2. CASE BeginStep
  BY Constants, <1>2 DEF BeginStep, Begin, Goto, RestOK, WithinInterval
<1>3. ASSUME NEW t \in Thread, CallStep(t) PROVE WithinInterval'
  <2>1. CASE StartTest(t)
    BY Constants, <2>1 DEF StartTest, Return, Goto, RestOK, WithinInterval
  <2>2. CASE StartFlag(t)
    BY Constants, <2>2 DEF StartFlag, Goto, RestOK, WithinInterval
  <2>3. CASE StartInsert(t)
    BY Constants, AtHand, InsertKeeps, <2>3 DEF StartInsert, Return, Goto,
       RestOK,
       WithinInterval, Entry
  <2>4. CASE StopRemove(t)
    BY Constants, <2>4 DEF StopRemove, First, Scheduled, RestOK,
       WithinInterval
  <2>5. CASE StopFlag(t)
    BY Constants, <2>5 DEF StopFlag, Return, Goto, RestOK, WithinInterval
  <2>6. QED
    BY <1>3, <2>1, <2>2, <2>3, <2>4, <2>5 DEF CallStep
<1>4. CASE TurnStep
  BY Constants, <1>4 DEF TurnStep, Turn, Goto, RestOK, WithinInterval
<1>5. CASE Process
  <2>1. CASE Pick
    BY Constants, <2>1 DEF Pick, First, Goto, RestOK, WithinInterval
  <2>2. CASE Erase
    BY Constants, <2>2 DEF Erase, Goto, RestOK, WithinInterval
  <2>3. CASE EraseDangling
    BY Constants, <2>3 DEF EraseDangling, Goto, RestOK, WithinInterval
  <2>4. CASE Correct
    BY Constants, <2>4 DEF Correct, Goto, RestOK, WithinInterval
  <2>5. CASE Reschedule
    BY Constants, AtHand, InsertKeeps, <2>5 DEF Reschedule, Return, Goto,
       RestOK,
       WithinInterval, Entry
  <2>6. QED
    BY <1>5, <2>1, <2>2, <2>3, <2>4, <2>5 DEF Process
<1>6. CASE UNCHANGED vars
  BY Constants, <1>6 DEF vars, RestOK, WithinInterval
<1>7. QED
  BY <1>1, <1>2, <1>3, <1>4, <1>5, <1>6, NextCases

LEMMA IInvNext == IInv /\ [Next]_vars => IInv'
<1>1. TypeOK' <=> FlagsOK' /\ RestOK'
  BY Zenon DEF TypeOK, FlagsOK, RestOK
<1>2. QED
  BY <1>1, TypeParts, FlagsStep, RestNext, BusyNext, DueNext,
     WithinNext DEF IInv

(* The type invariant. *)
THEOREM TypeCorrect == Spec => []TypeOK
<1>1. IInv => TypeOK
  BY DEF IInv
<1>2. QED
  BY IInvInit, IInvNext, <1>1, PTL DEF Spec

(* However late the readings are and whatever calls overlap them, every     *)
(* endpoint in the list is due within one interval of its own.              *)
THEOREM DueInTime == Spec => []WithinInterval
<1>1. IInv => WithinInterval
  BY DEF IInv
<1>2. QED
  BY IInvInit, IInvNext, <1>1, PTL DEF Spec

-----------------------------------------------------------------------------
(* One thread at a time is inside a call or a turn. *)
Serial == \A s, t \in Thread : ~Outside(s) /\ ~Outside(t) => s = t

(* What the device is about to erase is still there. *)
PickedInv ==
  pc[Dev] = "picked" => [time |-> time[Dev], id |-> id[Dev]] \in endpoint_schedule_list_

(* Start goes on with an endpoint that is stopped, Stop has removed it. *)
FlagInv ==
  \A t \in Thread :
    /\ pc[t] = "startFlag" => stop_[id[t]]
    /\ pc[t] = "stopFlag" => Scheduled(id[t]) = {}

(* OneTurn, for calls that have not overlapped. *)
Single == \A e \in Endpoint : \A r, s \in Scheduled(e) : r = s

Placed ==
  \A e \in Endpoint :
    /\ Scheduled(e) # {} => ~InHand(e) /\ ~Starting(e)
    /\ Scheduled(e) # {} \/ InHand(e) \/ Starting(e) => ~stop_[e]

(* The inductive invariant behind OneTurn. *)
TurnInv == Serial /\ PickedInv /\ FlagInv /\ Single /\ Placed

LEMMA SerialNext ==
  ASSUME ~overlapped', RestOK, Serial, [Next]_vars
  PROVE  Serial'
<1>0. Enter => \A t \in Thread : Outside(t)
  BY Zenon DEF Enter
<1>1. CASE Tick
  BY Constants, <1>1 DEF Tick, RestOK, Serial, Outside, Phase
<1>2. CASE BeginStep
  BY Constants, <1>0, <1>2 DEF BeginStep, Begin, Goto, RestOK, Serial, Outside,
     Phase
<1>3. ASSUME NEW t \in Thread, CallStep(t) PROVE Serial'
  <2>1. CASE StartTest(t)
    BY Constants, <2>1 DEF StartTest, Return, Goto, RestOK, Serial, Outside,
       Phase
  <2>2. CASE StartFlag(t)
    BY Constants, <2>2 DEF StartFlag, Goto, RestOK, Serial, Outside, Phase
  <2>3. CASE StartInsert(t)
    BY Constants, <2>3 DEF StartInsert, Return, Goto, RestOK, Serial, Outside,
       Phase
  <2>4. CASE StopRemove(t)
    BY Constants, <2>4 DEF StopRemove, First, Scheduled, RestOK, Serial,
       Outside,
       Phase
  <2>5. CASE StopFlag(t)
    BY Constants, <2>5 DEF StopFlag, Return, Goto, RestOK, Serial, Outside,
       Phase
  <2>6. QED
    BY <1>3, <2>1, <2>2, <2>3, <2>4, <2>5 DEF CallStep
<1>4. CASE TurnStep
  BY Constants, <1>4 DEF TurnStep, Turn, Goto, RestOK, Serial, Outside, Phase
<1>5. CASE Process
  <2>1. CASE Pick
    BY Constants, <1>0, <2>1 DEF Pick, First, Goto, RestOK, Serial, Outside, Phase
  <2>2. CASE Erase
    BY Constants, <2>2 DEF Erase, Goto, RestOK, Serial, Outside, Phase
  <2>3. CASE EraseDangling
    BY Constants, <2>3 DEF EraseDangling, Goto, RestOK, Serial, Outside, Phase
  <2>4. CASE Correct
    BY Constants, <2>4 DEF Correct, Goto, RestOK, Serial, Outside, Phase
  <2>5. CASE Reschedule
    BY Constants, <2>5 DEF Reschedule, Return, Goto, RestOK, Serial, Outside,
       Phase
  <2>6. QED
    BY <1>5, <2>1, <2>2, <2>3, <2>4, <2>5 DEF Process
<1>6. CASE UNCHANGED vars
  BY Constants, <1>6 DEF vars, RestOK, Serial, Outside, Phase
<1>7. QED
  BY <1>1, <1>2, <1>3, <1>4, <1>5, <1>6, NextCases

LEMMA PickedNext ==
  ASSUME RestOK, Serial, PickedInv, [Next]_vars
  PROVE  PickedInv'
<1>1. CASE Tick
  BY Constants, <1>1 DEF Tick, RestOK, PickedInv
<1>2. CASE BeginStep
  BY Constants, <1>2 DEF BeginStep, Begin, Goto, RestOK, PickedInv, Phase
<1>3. ASSUME NEW t \in Thread, CallStep(t) PROVE PickedInv'
  <2>1. CASE StartTest(t)
    BY Constants, <2>1 DEF StartTest, Return, Goto, RestOK, PickedInv, Phase
  <2>2. CASE StartFlag(t)
    BY Constants, <2>2 DEF StartFlag, Goto, RestOK, PickedInv
  <2>3. CASE StartInsert(t)
    BY Constants, <2>3 DEF StartInsert, Return, Goto, RestOK, PickedInv,
       Serial,
       Outside, Phase, Insert
  <2>4. CASE StopRemove(t)
    BY Constants, <2>4 DEF StopRemove, First, Scheduled, RestOK, PickedInv,
       Serial, Outside, Phase
  <2>5. CASE StopFlag(t)
    BY Constants, <2>5 DEF StopFlag, Return, Goto, RestOK, PickedInv, Phase
  <2>6. QED
    BY <1>3, <2>1, <2>2, <2>3, <2>4, <2>5 DEF CallStep
<1>4. CASE TurnStep
  BY Constants, <1>4 DEF TurnStep, Turn, Goto, RestOK, PickedInv, Phase
<1>5. CASE Process
  <2>1. CASE Pick
    BY Constants, <2>1 DEF Pick, First, Goto, RestOK, PickedInv, Entry
  <2>2. CASE Erase
    BY Constants, <2>2 DEF Erase, Goto, RestOK, PickedInv
  <2>3. CASE EraseDangling
    BY Constants, <2>3 DEF EraseDangling, Goto, RestOK, PickedInv
  <2>4. CASE Correct
    BY Constants, <2>4 DEF Correct, Goto, RestOK, PickedInv
  <2>5. CASE Reschedule
    BY Constants, <2>5 DEF Reschedule, Return, Goto, RestOK, PickedInv, Phase
  <2>6. QED
    BY <1>5, <2>1, <2>2, <2>3, <2>4, <2>5 DEF Process
<1>6. CASE UNCHANGED vars
  BY Constants, <1>6 DEF vars, RestOK, PickedInv
<1>7. QED
  BY <1>1, <1>2, <1>3, <1>4, <1>5, <1>6, NextCases

LEMMA SingleNext ==
  ASSUME RestOK, BusyInv, DueInv, Single, Placed, [Next]_vars
  PROVE  Single'
<1>1. CASE Tick
  BY Constants, <1>1 DEF Tick, Single, Scheduled
<1>2. CASE BeginStep
  BY Constants, <1>2 DEF BeginStep, Begin, Goto, Single, Scheduled
<1>3. ASSUME NEW t \in Thread, CallStep(t) PROVE Single'
  <2>1. CASE StartTest(t)
    BY Constants, <2>1 DEF StartTest, Return, Goto, Single, Scheduled
  <2>2. CASE StartFlag(t)
    BY Constants, <2>2 DEF StartFlag, Goto, Single, Scheduled
  <2>3. CASE StartInsert(t)
    BY Constants, AtHand, InsertKeeps, <2>3 DEF StartInsert, Return, Goto,
       Single,
       Scheduled, Placed, Starting
  <2>4. CASE StopRemove(t)
    BY Constants, <2>4 DEF StopRemove, First, Scheduled, Single, Scheduled
  <2>5. CASE StopFlag(t)
    BY Constants, <2>5 DEF StopFlag, Return, Goto, Single, Scheduled
  <2>6. QED
    BY <1>3, <2>1, <2>2, <2>3, <2>4, <2>5 DEF CallStep
<1>4. CASE TurnStep
  BY Constants, <1>4 DEF TurnStep, Turn, Goto, Single, Scheduled
<1>5. CASE Process
  <2>1. CASE Pick
    BY Constants, <2>1 DEF Pick, First, Goto, Single, Scheduled
  <2>2. CASE Erase
    BY Constants, <2>2 DEF Erase, Goto, Single, Scheduled
  <2>3. CASE EraseDangling
    BY Constants, <2>3 DEF EraseDangling, Goto, Single, Scheduled
  <2>4. CASE Correct
    BY Constants, <2>4 DEF Correct, Goto, Single, Scheduled
  <2>5. CASE Reschedule
    BY Constants, AtHand, InsertKeeps, <2>5 DEF Reschedule, Return, Goto,
       Single,
       Scheduled, Placed, InHand
  <2>6. QED
    BY <1>5, <2>1, <2>2, <2>3, <2>4, <2>5 DEF Process
<1>6. CASE UNCHANGED vars
  BY Constants, <1>6 DEF vars, Single, Scheduled
<1>7. QED
  BY <1>1, <1>2, <1>3, <1>4, <1>5, <1>6, NextCases

(* Removing the first entry of an endpoint that has one removes it. *)
LEMMA RemoveClears ==
  ASSUME RestOK, Single, NEW e \in Endpoint
  PROVE  Scheduled(e) \ First(Scheduled(e)) = {}
  BY DEF RestOK, Single, Scheduled, First, Entry

LEMMA FlagNext ==
  ASSUME RestOK, FlagsOK, BusyInv, DueInv,
         Serial, Single, Placed, PickedInv, FlagInv, [Next]_vars
  PROVE  FlagInv'
<1>1. CASE Tick
  BY Constants, <1>1 DEF Tick, FlagInv, RestOK, Scheduled
<1>2. CASE BeginStep
  BY Constants, <1>2 DEF BeginStep, Begin, Goto, FlagInv, RestOK, Scheduled
<1>3. ASSUME NEW t \in Thread, CallStep(t) PROVE FlagInv'
  <2>1. CASE StartTest(t)
    BY Constants, <2>1 DEF StartTest, Return, Goto, FlagInv, RestOK,
       Scheduled,
       Phase
  <2>2. CASE StartFlag(t)
    BY Constants, <2>2 DEF StartFlag, Goto, FlagInv, RestOK, Scheduled,
       Serial,
       Outside, Phase
  <2>3. CASE StartInsert(t)
    BY Constants, <2>3 DEF StartInsert, Return, Goto, FlagInv, RestOK,
       Scheduled,
       Phase, Serial, Outside
  <2>4. CASE StopRemove(t)
    <3>1. Scheduled(id[t])' = {}
      BY Constants, RemoveClears, <2>4 DEF StopRemove, Scheduled, BusyInv,
         Outside, Phase
    <3>2. \A s \in Thread : s # t /\ pc'[s] = "stopFlag" => FALSE
      BY Constants, <2>4 DEF StopRemove, Serial, Outside, Phase, RestOK
    <3>3. \A s \in Thread : pc'[s] = "startFlag" => pc[s] = "startFlag"
      BY Constants, <2>4 DEF StopRemove, RestOK
    <3>4. QED
      BY <2>4, <3>1, <3>2, <3>3 DEF StopRemove, FlagInv, Scheduled
  <2>5. CASE StopFlag(t)
    BY Constants, <2>5 DEF StopFlag, Return, Goto, FlagInv, RestOK, Scheduled,
       Phase, Serial, Outside
  <2>6. QED
    BY <1>3, <2>1, <2>2, <2>3, <2>4, <2>5 DEF CallStep
<1>4. CASE TurnStep
  BY Constants, <1>4 DEF TurnStep, Turn, Goto, FlagInv, RestOK, Scheduled,
     Phase
<1>5. CASE Process
  <2>1. CASE Pick
    BY Constants, <2>1 DEF Pick, First, Goto, FlagInv, RestOK, Scheduled
  <2>2. CASE Erase
    BY Constants, <2>2 DEF Erase, Goto, FlagInv, RestOK, Scheduled
  <2>3. CASE EraseDangling
    BY Constants, <2>3 DEF EraseDangling, Goto, FlagInv, RestOK, Scheduled
  <2>4. CASE Correct
    BY Constants, <2>4 DEF Correct, Goto, FlagInv, RestOK, Scheduled
  <2>5. CASE Reschedule
    BY Constants, <2>5 DEF Reschedule, Return, Goto, FlagInv, RestOK,
       Scheduled,
       Phase, Serial, Outside
  <2>6. QED
    BY <1>5, <2>1, <2>2, <2>3, <2>4, <2>5 DEF Process
<1>6. CASE UNCHANGED vars
  BY Constants, <1>6 DEF vars, FlagInv, RestOK, Scheduled
<1>7. QED
  BY <1>1, <1>2, <1>3, <1>4, <1>5, <1>6, NextCases

LEMMA PlacedNext ==
  ASSUME RestOK, FlagsOK, BusyInv, DueInv,
         Serial, Single, Placed, PickedInv, FlagInv, [Next]_vars
  PROVE  Placed'
<1>1. CASE Tick
  BY Constants, <1>1 DEF Tick, Placed, RestOK, Scheduled, InHand, Starting
<1>2. CASE BeginStep
  BY Constants, <1>2 DEF BeginStep, Begin, Goto, Placed, RestOK, Scheduled,
     InHand, Starting, Serial, Outside, Phase
<1>3. ASSUME NEW t \in Thread, CallStep(t) PROVE Placed'
  <2>1. CASE StartTest(t)
    BY Constants, <2>1 DEF StartTest, Return, Goto, Placed, RestOK, Scheduled,
       InHand, Starting, Serial, Outside, Phase
  <2>2. CASE StartFlag(t)
    <3>1. id[t] \in Endpoint /\ Scheduled(id[t]) = {}
      BY <2>2 DEF StartFlag, Goto, FlagInv, Placed, BusyInv, Outside, Phase
    <3>2. ~stop_'[id[t]] /\ \A e \in Endpoint \ {id[t]} : stop_'[e] = stop_[e]
      BY <2>2, <3>1 DEF StartFlag, FlagsOK
    <3>3. \A e \in Endpoint : ~InHand(e)' /\ (Starting(e)' => e = id[t])
      BY Constants, <2>2 DEF StartFlag, Goto, RestOK, InHand, Starting,
         Serial, Outside,
         Phase
    <3>4. \A e \in Endpoint : Scheduled(e)' = Scheduled(e)
      BY <2>2 DEF StartFlag, Scheduled
    <3>5. QED
      BY <3>1, <3>2, <3>3, <3>4, Zenon DEF Placed
  <2>3. CASE StartInsert(t)
    <3>1. \A e \in Endpoint : ~InHand(e)' /\ ~Starting(e)'
      BY Constants, <2>3 DEF StartInsert, Return, Goto, RestOK, InHand,
         Starting, Serial,
         Outside, Phase
    <3>2. id[t] \in Endpoint /\ Starting(id[t]) /\ UNCHANGED stop_
      BY <2>3, AtHand DEF StartInsert, Return, Goto, Starting
    <3>3. \A e \in Endpoint : Scheduled(e)' # {} => Scheduled(e) # {} \/ e = id[t]
      BY <2>3, AtHand, InsertKeeps DEF StartInsert, Return, Goto, Scheduled
    <3>4. QED
      BY <3>1, <3>2, <3>3, Zenon DEF Placed
  <2>4. CASE StopRemove(t)
    BY Constants, <2>4 DEF StopRemove, First, Scheduled, Placed, RestOK,
       Scheduled, InHand, Starting, Serial, Outside, Phase
  <2>5. CASE StopFlag(t)
    <3>1. \A e \in Endpoint : ~InHand(e)' /\ ~Starting(e)'
      BY Constants, <2>5 DEF StopFlag, Return, Goto, RestOK, InHand,
         Starting, Serial,
         Outside, Phase
    <3>2. \A e \in Endpoint : Scheduled(e)' = Scheduled(e)
      BY <2>5 DEF StopFlag, Scheduled
    <3>3. Scheduled(id[t]) = {} /\ \A e \in Endpoint \ {id[t]} : stop_'[e] = stop_[e]
      BY <2>5 DEF StopFlag, Return, Goto, FlagInv, FlagsOK
    <3>4. QED
      BY <3>1, <3>2, <3>3, Zenon DEF Placed
  <2>6. QED
    BY <1>3, <2>1, <2>2, <2>3, <2>4, <2>5 DEF CallStep
<1>4. CASE TurnStep
  BY Constants, <1>4 DEF TurnStep, Turn, Goto, Placed, RestOK, Scheduled,
     InHand, Starting, Serial, Outside, Phase
<1>5. CASE Process
  <2>1. CASE Pick
    BY Constants, <2>1 DEF Pick, First, Goto, Placed, RestOK, Scheduled,
       InHand,
       Starting, Serial, Outside, Phase
  <2>2. CASE Erase
    <3>1. id[Dev] \in Endpoint /\ Scheduled(id[Dev]) # {} /\ Scheduled(id[Dev])' = {}
      BY Constants, <2>2 DEF Erase, Goto, PickedInv, Single, Scheduled,
         BusyInv, Outside,
         Phase
    <3>2. \A e \in Endpoint : ~Starting(e)' /\ (InHand(e)' => e = id[Dev])
      BY Constants, <2>2 DEF Erase, Goto, RestOK, InHand, Starting, Serial,
         Outside, Phase
    <3>3. UNCHANGED <<stop_, id>>
      BY <2>2 DEF Erase
    <3>4. \A e \in Endpoint : InHand(e)' => Scheduled(e) # {} /\ Scheduled(e)' = {}
      BY <3>1, <3>2, <3>3 DEF Scheduled
    <3>5. \A e \in Endpoint : Scheduled(e)' # {} => Scheduled(e) # {}
      BY <2>2 DEF Erase, Scheduled
    <3>6. QED
      BY <3>2, <3>3, <3>4, <3>5, Zenon DEF Placed
  <2>3. CASE EraseDangling
    BY Constants, <2>3 DEF EraseDangling, Goto, Placed, RestOK, Scheduled,
       InHand,
       Starting, Serial, Outside, Phase
  <2>4. CASE Correct
    BY Constants, <2>4 DEF Correct, Goto, Placed, RestOK, Scheduled, InHand,
       Starting, Serial, Outside, Phase
  <2>5. CASE Reschedule
    <3>1. \A e \in Endpoint : ~InHand(e)' /\ ~Starting(e)'
      BY Constants, <2>5 DEF Reschedule, Return, Goto, RestOK, InHand,
         Starting, Serial,
         Outside, Phase
    <3>2. id[Dev] \in Endpoint /\ InHand(id[Dev]) /\ UNCHANGED stop_
      BY Constants, <2>5, AtHand DEF Reschedule, Return, Goto, InHand
    <3>3. \A e \in Endpoint : Scheduled(e)' # {} => Scheduled(e) # {} \/ e = id[Dev]
      BY <2>5, AtHand, InsertKeeps DEF Reschedule, Return, Goto, Scheduled
    <3>4. QED
      BY <3>1, <3>2, <3>3, Zenon DEF Placed
  <2>6. QED
    BY <1>5, <2>1, <2>2, <2>3, <2>4, <2>5 DEF Process
<1>6. CASE UNCHANGED vars
  BY Constants, <1>6 DEF vars, Placed, RestOK, Scheduled, InHand, Starting
<1>7. QED
  BY <1>1, <1>2, <1>3, <1>4, <1>5, <1>6, NextCases

LEMMA TurnInvNext == ~overlapped' /\ IInv /\ TurnInv /\ [Next]_vars => TurnInv'
<1>1. IInv => RestOK /\ FlagsOK /\ BusyInv /\ DueInv
  BY TypeParts DEF IInv
<1>2. QED
  BY <1>1, SerialNext, PickedNext, FlagNext, SingleNext,
     PlacedNext DEF TurnInv

(* The inductive invariant behind OneTurn and LostUntilStopped. *)
SerialInv == IInv /\ (~overlapped => TurnInv)

LEMMA SerialInvInit == Init => SerialInv
<1>1. Init => Serial /\ PickedInv /\ Single /\ Placed
  BY Constants DEF Init, Serial, PickedInv, Single, Placed, Scheduled, InHand,
     Starting, Outside, Phase
<1>2. Init => FlagInv
  BY Constants DEF Init, FlagInv
<1>3. QED
  BY <1>1, <1>2, IInvInit DEF TurnInv, SerialInv

LEMMA SerialInvNext == SerialInv /\ [Next]_vars => SerialInv'
<1>1. [Next]_vars /\ ~overlapped' => ~overlapped
  BY Remembered, Zenon DEF Enter
<1>2. QED
  BY <1>1, IInvNext, TurnInvNext, Zenon DEF SerialInv

(* When nobody calls Start or Stop while another call or a turn of Process  *)
(* is under way, no endpoint is ever polled twice over, and none that is    *)
(* stopped is polled at all.                                                *)
THEOREM OneTurnEach == Spec => []OneTurn
<1>1. SerialInv => OneTurn
  BY DEF TurnInv, OneTurn, Single, Placed, SerialInv
<1>2. QED
  BY SerialInvInit, SerialInvNext, <1>1, PTL DEF Spec

-----------------------------------------------------------------------------
(* Somebody is still going to read the endpoint, or to put it down as       *)
(* stopped.                                                                 *)
Held(e) == Scheduled(e) # {} \/ InHand(e) \/ Starting(e) \/ Stopping(e)

LEMMA LostIsNotHeld == \A e \in Endpoint : Lost(e) <=> ~stop_[e] /\ ~Held(e)
  BY Zenon DEF Lost, Held

(* The second at which a thread puts an endpoint in is another one's. *)
Collision(e) ==
  \E t \in Thread, r \in endpoint_schedule_list_ :
    id[t] = e /\ r.time = time[t] /\ r.id # e

(* What Insert leaves out is left out for another entry. *)
LEMMA InsertOrCollision ==
  ASSUME NEW e \in Endpoint, NEW at \in Nat, endpoint_schedule_list_' = Insert(e, at)
  PROVE  \/ Scheduled(e)' # {}
         \/ \E r \in endpoint_schedule_list_ : r.time = at /\ r.id # e
<1>1. CASE \E r \in endpoint_schedule_list_ : r.time = at
  <2>1. endpoint_schedule_list_' = endpoint_schedule_list_
    BY <1>1 DEF Insert
  <2>2. QED
    BY <1>1, <2>1 DEF Scheduled
<1>2. CASE ~\E r \in endpoint_schedule_list_ : r.time = at
  <2>1. [time |-> at, id |-> e] \in endpoint_schedule_list_'
    BY <1>2 DEF Insert
  <2>2. QED
    BY <2>1 DEF Scheduled
<1>3. QED
  BY <1>1, <1>2

(* An insertion takes nothing out. *)
LEMMA InsertLosesNone ==
  ASSUME NEW e \in Endpoint, NEW at \in Nat,
         endpoint_schedule_list_' = Insert(e, at)
  PROVE  \A d \in Endpoint : Scheduled(d) # {} => Scheduled(d)' # {}
  BY DEF Insert, Scheduled

(* An endpoint that is held stays so, unless its entry collides or Stop of  *)
(* it ends.                                                                 *)
LEMMA HeldNext ==
  ASSUME RestOK, BusyInv, DueInv, [Next]_vars, NEW e \in Endpoint, Held(e)
  PROVE  \/ Held(e)'
         \/ Collision(e)
         \/ \E t \in Thread : StopFlag(t) /\ id[t] = e
<1>1. CASE Tick
  BY Constants, <1>1 DEF Tick, Held, Scheduled, InHand, Starting, Stopping
<1>2. CASE BeginStep
  BY Constants, <1>2 DEF BeginStep, Begin, Goto, Held, Scheduled, InHand, Starting,
     Stopping, RestOK, Phase
<1>3. ASSUME NEW t \in Thread, CallStep(t)
      PROVE  Held(e)' \/ Collision(e) \/ (StopFlag(t) /\ id[t] = e)
  <2>1. CASE StartTest(t)
    BY Constants, <2>1 DEF StartTest, Return, Goto, Held, Scheduled, InHand, Starting,
       Stopping, RestOK, Phase
  <2>2. CASE StartFlag(t)
    BY Constants, <2>2 DEF StartFlag, Goto, Held, Scheduled, InHand, Starting, Stopping,
       RestOK, Phase
  <2>3. CASE StartInsert(t)
    <3>1. id[t] \in Endpoint /\ time[t] \in Nat
          /\ endpoint_schedule_list_' = Insert(id[t], time[t])
      BY <2>3, AtHand DEF StartInsert, Return, Goto
    <3>2. CASE e = id[t]
      BY <3>1, <3>2, InsertOrCollision DEF Held, Collision
    <3>3. CASE e # id[t]
      <4>1. Scheduled(e) # {} => Scheduled(e)' # {}
        BY <3>1, InsertLosesNone
      <4>2. InHand(e) \/ Starting(e) \/ Stopping(e)
              => InHand(e)' \/ Starting(e)' \/ Stopping(e)'
        BY Constants, <2>3, <3>3 DEF StartInsert, Return, Goto, InHand, Starting,
           Stopping, RestOK, Phase
      <4>3. QED
        BY <4>1, <4>2 DEF Held
    <3>4. QED
      BY <3>2, <3>3
  <2>4. CASE StopRemove(t)
    BY Constants, <2>4 DEF StopRemove, First, Held, Scheduled, InHand, Starting,
       Stopping, RestOK, Phase
  <2>5. CASE StopFlag(t)
    BY Constants, <2>5 DEF StopFlag, Return, Goto, Held, Scheduled, InHand, Starting,
       Stopping, RestOK, Phase
  <2>6. QED
    BY <1>3, <2>1, <2>2, <2>3, <2>4, <2>5 DEF CallStep
<1>4. CASE TurnStep
  BY Constants, <1>4 DEF TurnStep, Turn, Goto, Held, Scheduled, InHand, Starting,
     Stopping, RestOK, Phase
<1>5. CASE Process
  <2>1. CASE Pick
    BY Constants, <2>1 DEF Pick, First, Goto, Held, Scheduled, InHand, Starting,
       Stopping, RestOK, Phase
  <2>2. CASE Erase
    BY Constants, <2>2 DEF Erase, Goto, Held, Scheduled, InHand, Starting, Stopping,
       RestOK
  <2>3. CASE EraseDangling
    BY Constants, <2>3 DEF EraseDangling, Goto, Held, Scheduled, InHand, Starting,
       Stopping, RestOK
  <2>4. CASE Correct
    BY Constants, <2>4 DEF Correct, Goto, Held, Scheduled, InHand, Starting, Stopping,
       RestOK
  <2>5. CASE Reschedule
    <3>1. id[Dev] \in Endpoint /\ time[Dev] \in Nat
          /\ endpoint_schedule_list_' = Insert(id[Dev], time[Dev])
      BY <2>5, AtHand DEF Reschedule, Return, Goto
    <3>2. CASE e = id[Dev]
      BY <3>1, <3>2, Constants, InsertOrCollision DEF Held, Collision
    <3>3. CASE e # id[Dev]
      <4>1. Scheduled(e) # {} => Scheduled(e)' # {}
        BY <3>1, InsertLosesNone
      <4>2. InHand(e) \/ Starting(e) \/ Stopping(e)
              => InHand(e)' \/ Starting(e)' \/ Stopping(e)'
        BY Constants, <2>5, <3>3 DEF Reschedule, Return, Goto, InHand, Starting,
           Stopping, RestOK, Phase
      <4>3. QED
        BY <4>1, <4>2 DEF Held
    <3>4. QED
      BY <3>2, <3>3
  <2>6. QED
    BY <1>5, <2>1, <2>2, <2>3, <2>4, <2>5 DEF Process
<1>6. CASE UNCHANGED vars
  BY Constants, <1>6 DEF vars, Held, Scheduled, InHand, Starting, Stopping
<1>7. QED
  BY <1>1, <1>2, <1>3, <1>4, <1>5, <1>6, NextCases

(* The flag of an endpoint falls in Start alone, which then holds it.       *)
LEMMA FlagFalls ==
  ASSUME RestOK, FlagsOK, [Next]_vars, NEW e \in Endpoint, stop_[e], ~stop_'[e]
  PROVE  \E t \in Thread : StartFlag(t) /\ id[t] = e
<1>1. ASSUME NEW t \in Thread, StartFlag(t), id[t] # e PROVE FALSE
  BY <1>1, Zenon DEF StartFlag, FlagsOK
<1>2. ASSUME NEW t \in Thread, StopFlag(t) PROVE FALSE
  BY <1>2, Zenon DEF StopFlag, FlagsOK
<1>3. UNCHANGED stop_ => FALSE
  OBVIOUS
<1>4. QED
  BY <1>1, <1>2, <1>3, Zenon DEF Next, vars, Tick, Call, Begin, CallStep,
     StartTest, StartInsert, StopRemove, Preprocess, Postprocess, LoopExit, Visit,
     Turn, Process, Pick, Erase, EraseDangling, Correct, Reschedule

LEMMA StopFlagSets ==
  ASSUME FlagsOK, NEW t \in Thread, StopFlag(t), id[t] \in Endpoint
  PROVE  stop_'[id[t]]
  BY Zenon DEF StopFlag, FlagsOK

(* Whatever overlaps, polling loses an endpoint to another endpoint's entry *)
(* for the same second and to nothing else: not to a Stop that races the    *)
(* device's turn, nor to a turn that races a Start.                         *)
THEOREM OnlyCollisionLoses == Spec => LostByCollision
<1>1. IInv /\ [Next]_vars =>
        \A e \in Endpoint : ~Lost(e) /\ Lost(e)' => Collision(e)
  <2> SUFFICES ASSUME IInv, [Next]_vars, NEW e \in Endpoint, ~Lost(e), Lost(e)'
               PROVE  Collision(e)
    OBVIOUS
  <2>1. RestOK /\ FlagsOK /\ BusyInv /\ DueInv
    BY TypeParts DEF IInv
  <2>2. ~stop_'[e] /\ ~Held(e)'
    BY Zenon DEF Lost, Held
  <2>3. CASE stop_[e]
    <3>1. PICK t \in Thread : StartFlag(t) /\ id[t] = e
      BY <2>1, <2>2, <2>3, FlagFalls
    <3>2. Starting(e)'
      BY <3>1, <2>1 DEF StartFlag, Goto, Starting, RestOK
    <3>3. QED
      BY <2>2, <3>2 DEF Held
  <2>4. CASE ~stop_[e]
    <3>1. Held(e)
      BY <2>4, LostIsNotHeld
    <3>2. ~\E t \in Thread : StopFlag(t) /\ id[t] = e
      BY <2>1, <2>2, StopFlagSets
    <3>3. QED
      BY <2>1, <2>2, <3>1, <3>2, HeldNext
  <2>5. QED
    BY <2>3, <2>4
<1>2. IInv /\ [Next]_vars =>
        [\A e \in Endpoint :
           ~Lost(e) /\ Lost(e)' =>
             \E t \in Thread, r \in endpoint_schedule_list_ :
               id[t] = e /\ r.time = time[t] /\ r.id # e]_vars
  BY <1>1 DEF Collision
<1>3. QED
  BY IInvInit, IInvNext, <1>2, PTL DEF Spec, LostByCollision

(* Nothing takes up an endpoint that nobody holds but Start, which holds it *)
(* from the moment it clears the flag, and Stop.                            *)
LEMMA UnheldNext ==
  ASSUME RestOK, BusyInv, DueInv, PickedInv, [Next]_vars, NEW e \in Endpoint, ~Held(e)
  PROVE  \/ ~Held(e)'
         \/ Stopping(e)'
         \/ \E t \in Thread : StartFlag(t) /\ id[t] = e
<1>1. CASE Tick
  BY Constants, <1>1 DEF Tick, Held, Scheduled, InHand, Starting, Stopping
<1>2. CASE BeginStep
  BY Constants, <1>2 DEF BeginStep, Begin, Goto, Held, Scheduled, InHand, Starting,
     Stopping, RestOK, Phase
<1>3. ASSUME NEW t \in Thread, CallStep(t)
      PROVE  ~Held(e)' \/ Stopping(e)' \/ (StartFlag(t) /\ id[t] = e)
  <2>1. CASE StartTest(t)
    BY Constants, <2>1 DEF StartTest, Return, Goto, Held, Scheduled, InHand, Starting,
       Stopping, RestOK, Phase
  <2>2. CASE StartFlag(t)
    BY Constants, <2>2 DEF StartFlag, Goto, Held, Scheduled, InHand, Starting, Stopping,
       RestOK, Phase
  <2>3. CASE StartInsert(t)
    <3>1. id[t] \in Endpoint /\ time[t] \in Nat /\ id[t] # e
          /\ endpoint_schedule_list_' = Insert(id[t], time[t])
      BY <2>3, AtHand DEF StartInsert, Return, Goto, Held, Starting
    <3>2. Scheduled(e)' = {}
      BY <3>1, InsertKeeps DEF Held, Scheduled
    <3>3. ~InHand(e)' /\ ~Starting(e)'
      BY Constants, <2>3 DEF StartInsert, Return, Goto, Held, InHand, Starting,
         RestOK, Phase
    <3>4. QED
      BY <3>2, <3>3 DEF Held
  <2>4. CASE StopRemove(t)
    BY Constants, <2>4 DEF StopRemove, First, Held, Scheduled, InHand, Starting,
       Stopping, RestOK, Phase
  <2>5. CASE StopFlag(t)
    BY Constants, <2>5 DEF StopFlag, Return, Goto, Held, Scheduled, InHand, Starting,
       Stopping, RestOK, Phase
  <2>6. QED
    BY <1>3, <2>1, <2>2, <2>3, <2>4, <2>5 DEF CallStep
<1>4. CASE TurnStep
  BY Constants, <1>4 DEF TurnStep, Turn, Goto, Held, Scheduled, InHand, Starting,
     Stopping, RestOK, Phase
<1>5. CASE Process
  <2>1. CASE Pick
    BY Constants, <2>1 DEF Pick, First, Goto, Held, Scheduled, InHand, Starting,
       Stopping, RestOK, Phase
  <2>2. CASE Erase
    BY Constants, <2>2 DEF Erase, Goto, Held, Scheduled, InHand, Starting, Stopping,
       RestOK, PickedInv
  <2>3. CASE EraseDangling
    BY Constants, <2>3 DEF EraseDangling, Goto, Held, Scheduled, InHand, Starting,
       Stopping, RestOK
  <2>4. CASE Correct
    BY Constants, <2>4 DEF Correct, Goto, Held, Scheduled, InHand, Starting, Stopping,
       RestOK
  <2>5. CASE Reschedule
    <3>1. id[Dev] \in Endpoint /\ time[Dev] \in Nat /\ id[Dev] # e
          /\ endpoint_schedule_list_' = Insert(id[Dev], time[Dev])
      BY <2>5, AtHand DEF Reschedule, Return, Goto, Held, InHand
    <3>2. Scheduled(e)' = {}
      BY <3>1, InsertKeeps DEF Held, Scheduled
    <3>3. ~InHand(e)' /\ ~Starting(e)'
      BY Constants, <2>5 DEF Reschedule, Return, Goto, Held, InHand, Starting,
         RestOK, Phase
    <3>4. QED
      BY <3>2, <3>3 DEF Held
  <2>6. QED
    BY <1>5, <2>1, <2>2, <2>3, <2>4, <2>5 DEF Process
<1>6. CASE UNCHANGED vars
  BY Constants, <1>6 DEF vars, Held, Scheduled, InHand, Starting, Stopping
<1>7. QED
  BY <1>1, <1>2, <1>3, <1>4, <1>5, <1>6, NextCases

(* The flag of an endpoint rises in Stop alone. *)
LEMMA FlagRises ==
  ASSUME RestOK, FlagsOK, [Next]_vars, NEW e \in Endpoint, ~stop_[e], stop_'[e]
  PROVE  \E t \in Thread : StopFlag(t) /\ id[t] = e
<1>1. ASSUME NEW t \in Thread, StopFlag(t), id[t] # e PROVE FALSE
  BY <1>1, Zenon DEF StopFlag, FlagsOK
<1>2. ASSUME NEW t \in Thread, StartFlag(t) PROVE FALSE
  BY <1>2, Zenon DEF StartFlag, FlagsOK
<1>3. UNCHANGED stop_ => FALSE
  OBVIOUS
<1>4. QED
  BY <1>1, <1>2, <1>3, Zenon DEF Next, vars, Tick, Call, Begin, CallStep,
     StartTest, StartInsert, StopRemove, Preprocess, Postprocess, LoopExit, Visit,
     Turn, Process, Pick, Erase, EraseDangling, Correct, Reschedule

(* Start skips an endpoint whose flag says it is started, so it does not    *)
(* bring a lost one back: without overlapping calls only Stop finds it.     *)
THEOREM StartDoesNotRevive == Spec => LostUntilStopped
<1>1. SerialInv /\ [Next]_vars =>
        (~overlapped' => \A e \in Endpoint : Lost(e) => Lost(e)' \/ Stopping(e)')
  <2> SUFFICES ASSUME SerialInv, [Next]_vars, ~overlapped', NEW e \in Endpoint, Lost(e)
               PROVE  Lost(e)' \/ Stopping(e)'
    OBVIOUS
  <2>1. RestOK /\ FlagsOK /\ BusyInv /\ DueInv
    BY TypeParts DEF SerialInv, IInv
  <2>2. PickedInv /\ FlagInv
    BY Remembered, Zenon DEF SerialInv, TurnInv, Enter
  <2>3. ~stop_[e] /\ ~Held(e)
    BY Zenon DEF Lost, Held
  <2>4. ~\E t \in Thread : StartFlag(t) /\ id[t] = e
    BY <2>2, <2>3 DEF StartFlag, Goto, FlagInv
  <2>5. ~\E t \in Thread : StopFlag(t) /\ id[t] = e
    BY <2>3 DEF StopFlag, Return, Goto, Held, Stopping
  <2>6. ~stop_'[e]
    BY <2>1, <2>3, <2>5, FlagRises
  <2>7. ~Held(e)' \/ Stopping(e)'
    BY <2>1, <2>2, <2>3, <2>4, UnheldNext
  <2>8. QED
    BY <2>6, <2>7, Zenon DEF Lost, Held
<1>2. SerialInv /\ [Next]_vars =>
        [~overlapped' => \A e \in Endpoint : Lost(e) => Lost(e)' \/ Stopping(e)']_vars
  BY <1>1
<1>3. QED
  BY SerialInvInit, SerialInvNext, <1>2, PTL DEF Spec, LostUntilStopped

=============================================================================
