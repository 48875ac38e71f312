---------------------------- MODULE ValueReport -----------------------------
(***************************************************************************)
(* How the readings of an Endpoint reach the server                        *)
(* (lib/endpoint.cpp, lib/endpoint_valuemap.cpp, lib/server_linker.cpp,    *)
(* lib/object_manager.cpp).  Threads that read the device add readings,    *)
(* stamped in seconds, to value_map_, which keeps the latest Limit of      *)
(* them.  When its timer is up the object manager copies the readings from *)
(* the second of the last report to the present one, both included, and    *)
(* posts them to the server linker, which publishes them or, when that     *)
(* fails, forgets them.                                                    *)
(*                                                                         *)
(* value_map_ is not locked; an access to it is one step here.  The clock  *)
(* is never set back.  The rules, which Add also tells of the reading, are *)
(* not part of this module, nor is the reporting of other endpoints.       *)
(***************************************************************************)
EXTENDS Integers, FiniteSets, Sequences

CONSTANTS
  Reader,      (* threads that read the endpoint                            *)
  Limit,       (* ENDPOINT_VALUE_COUNT_MAX, limit_ of value_map_            *)
  ReportLimit, (* limit_ of the ValueMap a report is collected in           *)
  Interval,    (* endpoint_report_interval_, in seconds                     *)
  Age,         (* how old the stamp of a reading may be when it is read     *)
  SkipsRepeats,(* sensors and discrete actuators skip a stamp they just had *)
  MaxCount,    (* bound on the readings                                     *)
  MaxTime,     (* bound on the clock                                        *)
  NoTime       (* stamp of a reader that has no reading                     *)

ASSUME ReportAssumption ==
  /\ Limit \in Nat \ {0}
  /\ ReportLimit \in Nat \ {0}
  /\ Interval \in Nat \ {0}
  /\ Age \in Nat
  /\ SkipsRepeats \in BOOLEAN
  /\ MaxCount \in Nat
  /\ MaxTime \in Nat
  /\ NoTime \notin Nat

VARIABLES
  now,         (* Date::GetCurrent(), in seconds                            *)
  running,     (* IsRunning() of the endpoint                               *)
  stamp,       (* the reading each thread is about to add                   *)
  time_,       (* stamp of the last reading added                           *)
  count,       (* readings added so far: each is numbered                   *)
  value_map_,  (* the readings kept, [time, n]                              *)
  last_report_date_,
  endpoint_report_timer_, (* the second the next report is due              *)
  at,          (* where the object manager is in ReportEPData               *)
  current,     (* its end of the period                                     *)
  report,      (* its copy of the readings                                  *)
  queue_,      (* reports posted to the server linker                       *)
  taken,       (* history: readings that were in some report                *)
  delivered    (* history: latest stamp among the published                 *)

vars == <<now, running, stamp, time_, count, value_map_, last_report_date_,
          endpoint_report_timer_, at, current, report, queue_, taken, delivered>>

Reading == [time : Nat, n : Nat]

TypeOK ==
  /\ now \in Nat
  /\ running \in BOOLEAN
  /\ stamp \in [Reader -> Nat \cup {NoTime}]
  /\ time_ \in Nat \cup {NoTime}
  /\ count \in Nat
  /\ value_map_ \subseteq Reading
  /\ last_report_date_ \in Nat
  /\ endpoint_report_timer_ \in Nat
  /\ at \in {"process", "copy", "send"}
  /\ current \in Nat
  /\ report \subseteq Reading
  /\ queue_ \in Seq(SUBSET Reading)
  /\ taken \subseteq Reading
  /\ delivered \in Nat

Init ==
  /\ now = 0
  /\ running = FALSE
  /\ stamp = [t \in Reader |-> NoTime]
  /\ time_ \in 0..MaxTime \cup {NoTime}
  /\ count = 0
  /\ value_map_ = {}
  /\ last_report_date_ = 0
  /\ endpoint_report_timer_ = Interval
  /\ at = "process"
  /\ current = 0
  /\ report = {}
  /\ queue_ = <<>>
  /\ taken = {}
  /\ delivered = 0

-----------------------------------------------------------------------------
(* The order of a multimap: by key, and as inserted among equal keys.       *)
Before(r, s) == r.time < s.time \/ (r.time = s.time /\ r.n < s.n)

(* What is left when more than k have gone through ValueMap::Add in order.  *)
LatestOf(s, k) == {r \in s : Cardinality({q \in s : Before(r, q)}) < k}

(* ValueMap::Add makes room by erasing begin(), reported or not.            *)
AddedTo(s, r) ==
  IF Cardinality(s) < Limit
  THEN s \cup {r}
  ELSE {q \in s : \E p \in s : Before(p, q)} \cup {r}

PeriodExclusive(from, to) == {r \in value_map_ : from < r.time /\ r.time <= to}

(* GetDataForPeriod: lower_bound and upper_bound include both ends.         *)
Period(from, to) == {r \in value_map_ : from <= r.time /\ r.time <= to}

-----------------------------------------------------------------------------
(* Endpoint::Start and Endpoint::Stop. *)
StartStop ==
  /\ running' = ~running
  /\ UNCHANGED <<now, stamp, time_, count, value_map_, last_report_date_,
                 endpoint_report_timer_, at, current, report, queue_, taken, delivered>>

(* ReadValue answers with the present second, or with the one in which the  *)
(* driver last heard from the device.                                       *)
ReadValue(t) ==
  /\ stamp[t] = NoTime
  /\ \E time \in {s \in 0..now : s >= now - Age} : stamp' = [stamp EXCEPT ![t] = time]
  /\ UNCHANGED <<now, running, time_, count, value_map_, last_report_date_,
                 endpoint_report_timer_, at, current, report, queue_, taken, delivered>>

(* Every kind of endpoint but the temperature controls compares the stamp   *)
(* with time_, which no constructor sets.                                   *)
Repeats(t) == SkipsRepeats /\ stamp[t] = time_

Add(t) ==
  /\ stamp[t] # NoTime
  /\ ~Repeats(t)
  /\ count < MaxCount
  /\ count' = count + 1
  /\ value_map_' = AddedTo(value_map_, [time |-> stamp[t], n |-> count + 1])
  /\ time_' = stamp[t]
  /\ stamp' = [stamp EXCEPT ![t] = NoTime]
  /\ UNCHANGED <<now, running, last_report_date_, endpoint_report_timer_, at,
                 current, report, queue_, taken, delivered>>

(* The timer is moved on from when it was due: a manager that is late       *)
(* reports again at once.                                                   *)
AddSkipped(t) ==
  /\ stamp[t] # NoTime
  /\ Repeats(t)
  /\ stamp' = [stamp EXCEPT ![t] = NoTime]
  /\ UNCHANGED <<now, running, time_, count, value_map_, last_report_date_,
                 endpoint_report_timer_, at, current, report, queue_, taken, delivered>>

ReportDue == at = "process" /\ endpoint_report_timer_ <= now

ReportSkipped ==
  /\ ReportDue
  /\ ~running
  /\ endpoint_report_timer_' = endpoint_report_timer_ + Interval
  /\ UNCHANGED <<now, running, stamp, time_, count, value_map_, last_report_date_, at,
                 current, report, queue_, taken, delivered>>

ReportBegin ==
  /\ ReportDue
  /\ running
  /\ at' = "copy"
  /\ current' = now
  /\ UNCHANGED <<now, running, stamp, time_, count, value_map_, last_report_date_,
                 endpoint_report_timer_, report, queue_, taken, delivered>>

ReportCopy ==
  /\ at = "copy"
  /\ at' = "send"
  /\ report' = LatestOf(Period(last_report_date_, current), ReportLimit)
  /\ taken' = taken \cup report'
  /\ UNCHANGED <<now, running, stamp, time_, count, value_map_, last_report_date_,
                 endpoint_report_timer_, current, queue_, delivered>>

ReportSendNoAdvance ==
  /\ at = "send"
  /\ at' = "process"
  /\ last_report_date_' = last_report_date_
  /\ queue_' = IF report = {} THEN queue_ ELSE Append(queue_, report)
  /\ report' = {}
  /\ endpoint_report_timer_' = endpoint_report_timer_ + Interval
  /\ UNCHANGED <<now, running, stamp, time_, count, value_map_, current, taken, delivered>>

ReportSendNow ==
  /\ at = "send"
  /\ at' = "process"
  /\ last_report_date_' = now
  /\ queue_' = IF report = {} THEN queue_ ELSE Append(queue_, report)
  /\ report' = {}
  /\ endpoint_report_timer_' = endpoint_report_timer_ + Interval
  /\ UNCHANGED <<now, running, stamp, time_, count, value_map_, current, taken, delivered>>

(* last_report_date_ moves on before the report is sent.  The later         *)
(* SetLastReportTime finds no stamp above it and changes nothing.           *)
ReportSend ==
  /\ at = "send"
  /\ at' = "process"
  /\ last_report_date_' = current
  /\ queue_' = IF report = {} THEN queue_ ELSE Append(queue_, report)
  /\ report' = {}
  /\ endpoint_report_timer_' = endpoint_report_timer_ + Interval
  /\ UNCHANGED <<now, running, stamp, time_, count, value_map_, current, taken, delivered>>

Report == ReportSkipped \/ ReportBegin \/ ReportCopy \/ ReportSend

OnProduceRetried ==
  /\ queue_ # <<>>
  /\ \/ \E r \in Head(queue_) :
          /\ queue_' = Tail(queue_)
          /\ \A q \in Head(queue_) : q.time <= r.time
          /\ delivered' = r.time
     \/ queue_' = Append(Tail(queue_), Head(queue_)) /\ UNCHANGED delivered
  /\ UNCHANGED <<now, running, stamp, time_, count, value_map_, last_report_date_,
                 endpoint_report_timer_, at, current, report, taken>>

(* The server linker's thread.  A report that cannot be published is gone.  *)
OnProduce ==
  /\ queue_ # <<>>
  /\ queue_' = Tail(queue_)
  /\ \/ \E r \in Head(queue_) :
          /\ \A q \in Head(queue_) : q.time <= r.time
          /\ delivered' = r.time
     \/ UNCHANGED delivered
  /\ UNCHANGED <<now, running, stamp, time_, count, value_map_, last_report_date_,
                 endpoint_report_timer_, at, current, report, taken>>

Tick ==
  /\ now < MaxTime
  /\ now' = now + 1
  /\ UNCHANGED <<running, stamp, time_, count, value_map_, last_report_date_,
                 endpoint_report_timer_, at, current, report, queue_, taken, delivered>>

Next ==
  \/ Tick
  \/ StartStop
  \/ \E t \in Reader : ReadValue(t) \/ Add(t) \/ AddSkipped(t)
  \/ Report
  \/ OnProduce

Spec == Init /\ [][Next]_vars

(* Time passes, and the manager's and the linker's threads keep running.    *)
FairSpec == Spec /\ WF_vars(Tick) /\ WF_vars(Report) /\ WF_vars(OnProduce)

-----------------------------------------------------------------------------
(* The reading is kept, and in the period of a report still to come.        *)
Waiting(r) ==
  r \in value_map_ /\ r.time >= IF at = "send" THEN current ELSE last_report_date_

(* A reading that was added in time is kept until a report takes it, unless *)
(* value_map_ is full and it the oldest, or the report that should take it  *)
(* is full of later ones.                                                   *)
KeptUntilTaken ==
  [][\A r \in value_map_ :
       Waiting(r) =>
         \/ Waiting(r)'
         \/ r \in taken'
         \/ /\ Cardinality(value_map_) >= Limit
            /\ \A q \in value_map_ : r.time <= q.time
         \/ Cardinality({q \in Period(last_report_date_, current) : Before(r, q)})
              >= ReportLimit]_vars

(* A reading is in two reports only if it bears the very second in which    *)
(* the first of them was made, however late readings and reports are.       *)
RepeatsOnlyBoundary ==
  at = "copy" =>
    \A r \in taken \cap Period(last_report_date_, current) :
      r.time = last_report_date_

(* The server gets the readings of an endpoint in the order of their        *)
(* stamps: a report never reaches back behind the one before.               *)
InOrder ==
  /\ \A i \in 1..Len(queue_) : \A r \in queue_[i] :
       /\ delivered <= r.time
       /\ \A j \in 1..(i - 1) : \A q \in queue_[j] : q.time <= r.time
  /\ \A r \in report : delivered <= r.time

(* As long as the endpoint runs, a reading added in time is reported or     *)
(* makes room for later ones.                                               *)
EventuallyTaken ==
  \A r \in [time : 0..MaxTime, n : 1..MaxCount] :
    (Waiting(r) /\ now + Interval <= MaxTime)
      ~> \/ r \in taken
         \/ r \notin value_map_
         \/ ~running
         \/ Cardinality(Period(last_report_date_, current)) > ReportLimit

=============================================================================
