---------------------------- MODULE SnmpSession ----------------------------
(***************************************************************************)
(* A session with an SNMP agent (lib/device_snmp.cpp, lib/device_fte.cpp,  *)
(* lib/snmp_session.cpp, lib/snmp_master.cpp).  The device's thread polls  *)
(* its endpoints and other threads set its actuators, each by a call that  *)
(* locks finished_, posts a request to the Master and tries to lock        *)
(* finished_ again until a timeout.  The Master's thread hands requests to *)
(* net-snmp and its answers to AsyncResponse, which leaves them in         *)
(* success_ and value_ and unlocks finished_.  Nothing ties an answer to   *)
(* the call that asked for it.                                             *)
(*                                                                         *)
(* A request is the number of its call, a value the number of the request  *)
(* it was answered to. net-snmp is external: it answers pending requests   *)
(* in any order, at any time, also after the call gave up; each once. One  *)
(* call on a Locker is one step (ActiveObject), and locker_ of the Master  *)
(* is left out: only the opening of a session waits for it. A session that *)
(* two threads open at once is opened over; sessions are not closed, and   *)
(* the Master runs. Stamps (time_) and the copies of a string that is      *)
(* written meanwhile are left out.                                         *)
(***************************************************************************)
EXTENDS Naturals, Sequences

CONSTANTS
  Caller,    (* threads that read and write endpoints of the device         *)
  MaxRequest (* bound on the calls                                          *)

ASSUME SnmpAssumption == MaxRequest \in Nat

VARIABLES
  opened,         (* session_ is set                                        *)
  finished_,      (* is this Locker locked?                                 *)
  success_,
  value_,         (* the request value_ was answered to, 0 for none         *)
  queue,          (* the Master's messages                                  *)
  pending,        (* requests net-snmp has an answer to come of             *)
  request_count_,
  master,         (* where the Master's thread is                           *)
  call_pc, op,    (* where each caller is, and in which operation           *)
  request,        (* the request of each caller                             *)
  result,         (* what its call returns, [ok, value]                     *)
  calls,          (* how many there have been                               *)
  last,           (* history: the last answer that set success_             *)
  alone           (* history: callers that began with nothing under way,    *)
                  (* and still have the session to themselves               *)

session   == <<finished_, success_, value_, last>>
masterVars == <<queue, pending, request_count_, master>>
callVars  == <<opened, call_pc, op, request, result, calls, alone>>
snmpVars  == <<session, masterVars, callVars>>

Request == 1..MaxRequest
Outcome == {"value", "empty", "unfit", "error", "none"}
Failed  == [ok |-> FALSE, value |-> 0]

SnmpTypeOK ==
  /\ opened \in BOOLEAN /\ finished_ \in BOOLEAN /\ success_ \in BOOLEAN
  /\ value_ \in 0..MaxRequest
  /\ queue \in Seq(Request)
  /\ pending \subseteq Request
  /\ request_count_ \in Nat
  /\ master \in {"loop", "signal", "count"}
  /\ call_pc \in [Caller -> {"idle", "lock", "post", "try", "check", "take", "unlock"}]
  /\ op \in [Caller -> {"read", "write"}]
  /\ request \in [Caller -> 0..MaxRequest]
  /\ result \in [Caller -> [ok : BOOLEAN, value : 0..MaxRequest]]
  /\ calls \in 0..MaxRequest
  /\ last \in [of : 0..MaxRequest, answer : Outcome]
  /\ alone \subseteq Caller

(* No constructor sets success_. *)
SnmpInit ==
  /\ opened = FALSE /\ finished_ = FALSE /\ success_ \in BOOLEAN /\ value_ = 0
  /\ queue = <<>> /\ pending = {} /\ request_count_ = 0 /\ master = "loop"
  /\ call_pc = [c \in Caller |-> "idle"]
  /\ op = [c \in Caller |-> "read"]
  /\ request = [c \in Caller |-> 0]
  /\ result = [c \in Caller |-> Failed]
  /\ calls = 0
  /\ last = [of |-> 0, answer |-> "none"]
  /\ alone = {}

-----------------------------------------------------------------------------
(* The calls.                                                               *)

Move(c, from, to) ==
  /\ call_pc[c] = from
  /\ call_pc' = [call_pc EXCEPT ![c] = to]

Quiet ==
  /\ \A c \in Caller : call_pc[c] = "idle"
  /\ queue = <<>> /\ pending = {} /\ master = "loop"

(* A call needs an open session and an OID.  One that fails at either does  *)
(* nothing.                                                                 *)
Begin(c, o) ==
  /\ Move(c, "idle", "lock")
  /\ calls < MaxRequest
  /\ calls' = calls + 1
  /\ request' = [request EXCEPT ![c] = calls']
  /\ op' = [op EXCEPT ![c] = o]
  /\ opened' = TRUE
  /\ alone' = IF Quiet THEN {c} ELSE {}
  /\ UNCHANGED <<session, masterVars, result>>

ReadValue(c)  == Begin(c, "read")
WriteValue(c) == Begin(c, "write")

Lock(c) ==
  /\ Move(c, "lock", "post")
  /\ ~finished_
  /\ finished_' = TRUE
  /\ UNCHANGED <<success_, value_, last, masterVars, opened, op, request, result,
                 calls, alone>>

Post(c) ==
  /\ Move(c, "post", "try")
  /\ queue' = Append(queue, request[c])
  /\ UNCHANGED <<session, pending, request_count_, master, opened, op, request, result,
                 calls, alone>>

TryLock(c) ==
  /\ Move(c, "try", "check")
  /\ ~finished_
  /\ finished_' = TRUE
  /\ UNCHANGED <<success_, value_, last, masterVars, opened, op, request, result,
                 calls, alone>>

(* Mutant: a call that timed out returns at once. *)
TimeoutReturns(c) ==
  /\ Move(c, "try", "idle")
  /\ finished_
  /\ result' = [result EXCEPT ![c] = Failed]
  /\ UNCHANGED <<session, masterVars, opened, op, request, calls, alone>>

(* The last of the attempts, after timeout_, fails as well. *)
Timeout(c) ==
  /\ Move(c, "try", "unlock")
  /\ finished_
  /\ result' = [result EXCEPT ![c] = Failed]
  /\ UNCHANGED <<session, masterVars, opened, op, request, calls, alone>>

Check(c) ==
  /\ IF success_ /\ op[c] = "read" THEN Move(c, "check", "take") ELSE Move(c, "check", "unlock")
  /\ result' = [result EXCEPT ![c] = [ok |-> success_, value |-> 0]]
  /\ UNCHANGED <<session, masterVars, opened, op, request, calls, alone>>

Take(c) ==
  /\ Move(c, "take", "unlock")
  /\ result' = [result EXCEPT ![c].value = value_]
  /\ UNCHANGED <<session, masterVars, opened, op, request, calls, alone>>

(* The call returns its result. *)
Unlock(c) ==
  /\ Move(c, "unlock", "idle")
  /\ finished_' = FALSE
  /\ op' = [op EXCEPT ![c] = "read"]
  /\ request' = [request EXCEPT ![c] = 0]
  /\ result' = [result EXCEPT ![c] = Failed]
  /\ UNCHANGED <<success_, value_, last, masterVars, opened, calls, alone>>

CallStep(c) ==
  Lock(c) \/ Post(c) \/ TryLock(c) \/ Timeout(c) \/ Check(c) \/ Take(c) \/ Unlock(c)

-----------------------------------------------------------------------------
(* The Master's thread.                                                     *)

(* OnMessage: the next request is sent, or cannot be. *)
Send ==
  /\ master = "loop"
  /\ queue # <<>>
  /\ queue' = Tail(queue)
  /\ \/ /\ pending' = pending \cup {Head(queue)}
        /\ request_count_' = request_count_ + 1
     \/ UNCHANGED <<pending, request_count_>>
  /\ UNCHANGED <<session, master, callVars>>

(* Mutant: finished_ is unlocked for every message that comes. *)
AfterErrorSignal == "signal"

(* An answer with an error status is not signalled. *)
AfterError == "count"

(* Convert: an empty string leaves value_ as it was, and so does what it    *)
(* does not know.                                                           *)
Convert(n, answer) ==
  /\ success_' = (answer # "unfit")
  /\ value_' = IF answer = "value" THEN n ELSE value_

(* AsyncResponse, for a message.                                            *)
Received(n, answer) ==
  IF answer = "error"
  THEN master' = AfterError /\ UNCHANGED <<success_, value_, last>>
  ELSE /\ Convert(n, answer)
       /\ master' = "signal"
       /\ last' = [of |-> n, answer |-> answer]

(* net-snmp has given the request up. *)
GivenUp(n) ==
  /\ master' = "signal"
  /\ success_' = FALSE
  /\ last' = [of |-> n, answer |-> "none"]
  /\ UNCHANGED value_

(* Process reads what has come as long as it counts requests. *)
Poll ==
  /\ master = "loop"
  /\ request_count_ > 0
  /\ \E n \in pending :
       /\ pending' = pending \ {n}
       /\ GivenUp(n) \/ \E answer \in Outcome \ {"none"} : Received(n, answer)
  /\ UNCHANGED <<finished_, queue, request_count_, callVars>>

Signal ==
  /\ master = "signal"
  /\ master' = "count"
  /\ finished_' = FALSE
  /\ UNCHANGED <<success_, value_, last, queue, pending, request_count_, callVars>>

Count ==
  /\ master = "count"
  /\ master' = "loop"
  /\ request_count_' = IF request_count_ > 0 THEN request_count_ - 1 ELSE 0
  /\ UNCHANGED <<session, queue, pending, callVars>>

Master == Send \/ Poll \/ Signal \/ Count

SnmpNext ==
  \/ \E c \in Caller : ReadValue(c) \/ WriteValue(c) \/ CallStep(c)
  \/ Master

SnmpSpec == SnmpInit /\ [][SnmpNext]_snmpVars

(* The callers' threads keep running, and with them the clock of TryLock.   *)
(* Nothing is asked of the agent, nor of the Master's thread.               *)
SnmpFairSpec == SnmpSpec /\ \A c \in Caller : WF_snmpVars(CallStep(c))

-----------------------------------------------------------------------------
(* Calls that timed out, that crossed or that were not answered leave their *)
(* late answers to others, but the session recovers: a call that begins     *)
(* when nothing is under way any more, and has the session to itself, gets  *)
(* the answer to its own request or fails; a value it returns is the one    *)
(* it asked for, unless the agent answered with an empty string.            *)
OwnAnswer ==
  \A c \in alone :
    call_pc[c] = "unlock" /\ result[c].ok =>
      /\ last.of = request[c]
      /\ op[c] = "read" /\ last.answer = "value" => result[c].value = request[c]

(* Every call returns, whatever became of the answers to it and to others:  *)
(* nobody is left waiting for finished_.                                    *)
CallsEnd == \A c \in Caller : call_pc[c] = "lock" ~> call_pc[c] = "idle"

=============================================================================
