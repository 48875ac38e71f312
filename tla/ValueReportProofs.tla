------------------------- MODULE ValueReportProofs --------------------------
(***************************************************************************)
(* Proofs about ValueReport, for any readers, limits and lengths of time.  *)
(***************************************************************************)
EXTENDS ValueReport, FiniteSetTheorems, TLAPS

(* TypeOK in two parts: the flag, and all that is not Boolean. *)
DataOK ==
  /\ now \in Nat
  /\ stamp \in [Reader -> Nat \cup {NoTime}]
  /\ time_ \in Nat \cup {NoTime}
  /\ count \in Nat
  /\ value_map_ \subseteq Reading
  /\ last_report_date_ \in Nat
  /\ endpoint_report_timer_ \in Nat
  /\ at \in {"process", "copy", "send"}
  /\ current \in Nat
  /\ report \subseteq Reading
  /\ queue_ \in Seq(SUBSET Reading)
  /\ taken \subseteq Reading
  /\ delivered \in Nat

(* The ends of a report's period follow each other and the clock.           *)
ClockInv ==
  /\ last_report_date_ <= now /\ current <= now
  /\ at # "process" => last_report_date_ <= current

(* No report reaches beyond the end of its period ...                       *)
TakenInv ==
  \A r \in taken : r.time <= IF at = "send" THEN current ELSE last_report_date_

(* ... and the one under way starts where the last one ended.               *)
ReportInv ==
  /\ at # "send" => report = {}
  /\ \A r \in report : last_report_date_ <= r.time /\ r.time <= current

(* What is posted or published lies before the present period.              *)
QueueInv ==
  /\ delivered <= last_report_date_
  /\ \A i \in 1..Len(queue_) : \A r \in queue_[i] : r.time <= last_report_date_

(* The inductive invariant behind RepeatsOnlyBoundary and InOrder. *)
IInv == DataOK /\ ClockInv /\ TakenInv /\ ReportInv /\ QueueInv /\ InOrder

-----------------------------------------------------------------------------
LEMMA IInvInit == Init => IInv
  BY ReportAssumption DEF Init, IInv, DataOK, ClockInv, TakenInv, ReportInv,
     QueueInv,
     InOrder

LEMMA PeriodType ==
  ASSUME DataOK, NEW from \in Nat, NEW to \in Nat, NEW k \in Nat
  PROVE  \A r \in LatestOf(Period(from, to), k) :
           r \in Reading /\ from <= r.time /\ r.time <= to
  BY DEF DataOK, LatestOf, Period

LEMMA DataNext == DataOK /\ [Next]_vars => DataOK'
<1> SUFFICES ASSUME DataOK, [Next]_vars PROVE DataOK'
  OBVIOUS
<1>1. CASE Tick \/ StartStop \/ UNCHANGED vars
  BY <1>1 DEF Tick, StartStop, vars, DataOK
<1>2. ASSUME NEW t \in Reader, ReadValue(t) \/ AddSkipped(t) PROVE DataOK'
  BY <1>2 DEF ReadValue, AddSkipped, DataOK
<1>3. ASSUME NEW t \in Reader, Add(t) PROVE DataOK'
  <2>1. [time |-> stamp[t], n |-> count + 1] \in Reading
    BY <1>3 DEF Add, DataOK, Reading
  <2>2. value_map_' \subseteq Reading
    BY <1>3, <2>1 DEF Add, AddedTo, DataOK
  <2>3. QED
    BY <1>3, <2>2 DEF Add, DataOK
<1>4. CASE ReportSkipped \/ ReportBegin
  BY <1>4, ReportAssumption DEF ReportSkipped, ReportBegin, ReportDue, DataOK
<1>5. CASE ReportCopy
  <2>1. report' \subseteq Reading
    BY <1>5, PeriodType, ReportAssumption DEF ReportCopy, DataOK
  <2>2. QED
    BY <1>5, <2>1 DEF ReportCopy, DataOK
<1>6. CASE ReportSend
  BY <1>6, ReportAssumption DEF ReportSend, DataOK
<1>7. CASE OnProduce
  <2>1. queue_' \in Seq(SUBSET Reading)
    BY <1>7 DEF OnProduce, DataOK
  <2>2. delivered' \in Nat
    BY <1>7 DEF OnProduce, DataOK, Reading
  <2>3. QED
    BY <1>7, <2>1, <2>2 DEF OnProduce, DataOK
<1>8. QED
  BY <1>1, <1>2, <1>3, <1>4, <1>5, <1>6, <1>7 DEF Next, Report

LEMMA TypeNext == TypeOK /\ [Next]_vars => TypeOK'
<1>1. TypeOK <=> DataOK /\ running \in BOOLEAN
  BY Zenon DEF TypeOK, DataOK
<1>2. TypeOK' <=> DataOK' /\ running' \in BOOLEAN
  BY Zenon DEF TypeOK, DataOK
<1>3. running \in BOOLEAN /\ [Next]_vars => running' \in BOOLEAN
  BY Zenon DEF Next, Report, vars, Tick, StartStop, ReadValue, Add, AddSkipped,
     ReportSkipped,
     ReportBegin, ReportCopy, ReportSend, OnProduce
<1>4. QED
  BY <1>1, <1>2, <1>3, DataNext

LEMMA OrderNext ==
  IInv /\ [Next]_vars => (ClockInv /\ TakenInv /\ ReportInv /\ QueueInv /\ InOrder)'
<1> SUFFICES ASSUME IInv, [Next]_vars
             PROVE  (ClockInv /\ TakenInv /\ ReportInv /\ QueueInv /\ InOrder)'
  OBVIOUS
<1> DEFINE Goal == (ClockInv /\ TakenInv /\ ReportInv /\ QueueInv /\ InOrder)'
<1>a. DataOK /\ ClockInv /\ TakenInv /\ ReportInv /\ QueueInv /\ InOrder
  BY DEF IInv
<1>1. ASSUME UNCHANGED <<last_report_date_, at, current, report, queue_, taken, delivered>>,
             now' \in Nat, now <= now'
      PROVE  Goal
  <2>1. ClockInv'
    BY <1>a, <1>1 DEF DataOK, ClockInv
  <2>2. TakenInv' /\ ReportInv' /\ QueueInv' /\ InOrder'
    BY <1>a, <1>1 DEF TakenInv, ReportInv, QueueInv, InOrder
  <2>3. QED
    BY <2>1, <2>2
<1>2. CASE ReportBegin
  BY <1>a, <1>2 DEF ReportBegin, ReportDue, DataOK, ClockInv, TakenInv,
     ReportInv,
     QueueInv, InOrder
<1>3. CASE ReportCopy
  <2>1. \A r \in report' : last_report_date_ <= r.time /\ r.time <= current
    BY <1>a, <1>3, PeriodType, ReportAssumption DEF ReportCopy, DataOK
  <2>2. ClockInv' /\ QueueInv' /\ ReportInv'
    BY <1>a, <1>3, <2>1 DEF ReportCopy, ClockInv, QueueInv, ReportInv
  <2>3. TakenInv'
    BY <1>a, <1>3, <2>1 DEF ReportCopy, TakenInv, ClockInv, DataOK, Reading
  <2>4. InOrder'
    <3>1. \A r \in report' : r.time \in Nat
      BY <1>a, <1>3, PeriodType, ReportAssumption DEF ReportCopy, DataOK,
         Reading
    <3>2. \A r \in report' : delivered' <= r.time
      BY <1>a, <1>3, <2>1, <3>1 DEF ReportCopy, QueueInv, DataOK
    <3>3. QED
      BY <1>a, <1>3, <3>2 DEF ReportCopy, InOrder
  <2>5. QED
    BY <2>2, <2>3, <2>4
<1>4. CASE ReportSend
  <2>1. /\ queue_' \in Seq(SUBSET Reading)
        /\ \/ queue_' = queue_
           \/ /\ Len(queue_') = Len(queue_) + 1
              /\ \A i \in 1..Len(queue_) : queue_'[i] = queue_[i]
              /\ queue_'[Len(queue_) + 1] = report
    BY <1>a, <1>4 DEF ReportSend, DataOK
  <2>2. \A i \in 1..Len(queue_') : \A r \in queue_'[i] :
          \/ i \in 1..Len(queue_) /\ r \in queue_[i]
          \/ i = Len(queue_) + 1 /\ r \in report
    BY <1>a, <2>1 DEF DataOK
  <2>3. ClockInv' /\ TakenInv' /\ ReportInv'
    BY <1>a, <1>4 DEF ReportSend, ClockInv, TakenInv, ReportInv, DataOK
  <2>4. QueueInv'
    <3>1. \A i \in 1..Len(queue_) : \A r \in queue_[i] : r \in Reading
      BY <1>a DEF DataOK
    <3>2. QED
      BY <1>a, <1>4, <2>2, <3>1 DEF ReportSend, QueueInv, ReportInv,
         ClockInv, DataOK, Reading
  <2>5. InOrder'
    <3>1. \A i \in 1..Len(queue_') : \A r \in queue_'[i] : delivered <= r.time
      BY <1>a, <2>2 DEF InOrder
    <3>2. ASSUME NEW i \in 1..Len(queue_'), NEW r \in queue_'[i],
                 NEW j \in 1..(i - 1), NEW q \in queue_'[j]
          PROVE  q.time <= r.time
      <4>1. j \in 1..Len(queue_) /\ q \in queue_[j]
        BY <1>a, <2>1, <2>2 DEF DataOK
      <4>2. CASE i \in 1..Len(queue_) /\ r \in queue_[i]
        BY <1>a, <4>1, <4>2 DEF InOrder
      <4>3. CASE i = Len(queue_) + 1 /\ r \in report
        <5>1. q.time <= last_report_date_ /\ last_report_date_ <= r.time
          BY <1>a, <4>1, <4>3 DEF QueueInv, ReportInv
        <5>2. q \in Reading /\ r \in Reading
          BY <1>a, <4>1, <4>3 DEF DataOK
        <5>3. QED
          BY <1>a, <5>1, <5>2 DEF DataOK, Reading
      <4>4. QED
        BY <2>2, <4>2, <4>3
    <3>3. report' = {} /\ delivered' = delivered
      BY <1>4 DEF ReportSend
    <3>4. QED
      BY <3>1, <3>2, <3>3 DEF InOrder
  <2>6. QED
    BY <2>3, <2>4, <2>5
<1>5. CASE OnProduce
  <2>1. /\ Len(queue_') = Len(queue_) - 1
        /\ \A i \in 1..Len(queue_') : queue_'[i] = queue_[i + 1]
        /\ Head(queue_) = queue_[1] /\ 1 \in 1..Len(queue_)
        /\ Len(queue_) \in Nat
    BY <1>a, <1>5 DEF OnProduce, DataOK
  <2>2. \/ delivered' = delivered
        \/ \E r \in queue_[1] : delivered' = r.time
    BY <1>5, <2>1 DEF OnProduce
  <2>3. \A i \in 1..Len(queue_') : \A r \in queue_'[i] : delivered' <= r.time
    <3>1. ASSUME NEW i \in 1..Len(queue_'), NEW r \in queue_'[i]
          PROVE  /\ delivered <= r.time
                 /\ \A q \in queue_[1] : q.time <= r.time
      <4>1. /\ i + 1 \in 1..Len(queue_) /\ r \in queue_[i + 1]
            /\ 1 \in 1..((i + 1) - 1)
        BY <2>1
      <4>2. QED
        BY <1>a, <4>1 DEF InOrder
    <3>2. QED
      BY <2>2, <3>1
  <2>4. \A r \in report : delivered' <= r.time
    <3>1. CASE delivered' = delivered
      BY <1>a, <3>1 DEF InOrder
    <3>2. ASSUME NEW q \in queue_[1], delivered' = q.time, NEW r \in report
          PROVE  delivered' <= r.time
      <4>1. q.time <= last_report_date_ /\ last_report_date_ <= r.time
        BY <1>a, <2>1, <3>2 DEF QueueInv, ReportInv
      <4>2. q \in Reading /\ r \in Reading
        BY <1>a, <2>1, <3>2 DEF DataOK
      <4>3. QED
        BY <1>a, <3>2, <4>1, <4>2 DEF DataOK, Reading
    <3>3. QED
      BY <2>2, <3>1, <3>2
  <2>5. InOrder'
    <3>1. \A i \in 1..Len(queue_') : \A r \in queue_'[i] :
            \A j \in 1..(i - 1) : \A q \in queue_'[j] : q.time <= r.time
      <4>1. ASSUME NEW i \in 1..Len(queue_'), NEW r \in queue_'[i],
                   NEW j \in 1..(i - 1), NEW q \in queue_'[j]
            PROVE  q.time <= r.time
        <5>1. /\ i + 1 \in 1..Len(queue_) /\ r \in queue_[i + 1]
              /\ j + 1 \in 1..((i + 1) - 1) /\ q \in queue_[j + 1]
          BY <2>1
        <5>2. QED
          BY <1>a, <5>1 DEF InOrder
      <4>2. QED
        BY <4>1
    <3>2. report' = report
      BY <1>5 DEF OnProduce
    <3>3. QED
      BY <2>3, <2>4, <3>1, <3>2 DEF InOrder
  <2>6. QueueInv'
    BY <1>a, <1>5, <2>1, <2>2 DEF OnProduce, QueueInv
  <2>7. ClockInv' /\ TakenInv' /\ ReportInv'
    BY <1>a, <1>5 DEF OnProduce, ClockInv, TakenInv, ReportInv
  <2>8. QED
    BY <2>5, <2>6, <2>7
<1>6. CASE Tick \/ StartStop \/ (\E t \in Reader : ReadValue(t) \/ Add(t) \/ AddSkipped(t))
           \/ ReportSkipped
           \/ UNCHANGED vars
  <2>1. UNCHANGED <<last_report_date_, at, current, report, queue_, taken, delivered>>
    BY <1>6 DEF Tick, StartStop, ReadValue, Add, AddSkipped, ReportSkipped, vars
  <2>2. now' \in Nat /\ now <= now'
    <3>1. now' = now \/ now' = now + 1
      BY <1>6 DEF Tick, StartStop, ReadValue, Add, AddSkipped, ReportSkipped, vars
    <3>2. QED
      BY <1>a, <3>1 DEF DataOK
  <2>3. QED
    BY <1>1, <2>1, <2>2
<1>7. QED
  BY <1>2, <1>3, <1>4, <1>5, <1>6 DEF Next, Report

LEMMA IInvNext == IInv /\ [Next]_vars => IInv'
  BY DataNext, OrderNext DEF IInv

(* The type invariant. *)
THEOREM TypeCorrect == Spec => []TypeOK
<1>1. Init => TypeOK
  <2>1. Init => running \in BOOLEAN
    BY Zenon DEF Init
  <2>2. TypeOK <=> DataOK /\ running \in BOOLEAN
    BY Zenon DEF TypeOK, DataOK
  <2>3. QED
    BY <2>1, <2>2, IInvInit DEF IInv
<1>2. QED
  BY <1>1, TypeNext, PTL DEF Spec

(* A reading is sent twice only if it bears the second of a report.         *)
THEOREM RepeatsAreBoundary == Spec => []RepeatsOnlyBoundary
<1>1. IInv => RepeatsOnlyBoundary
  BY DEF IInv, RepeatsOnlyBoundary, TakenInv, DataOK, Period, Reading
<1>2. QED
  BY <1>1, IInvInit, IInvNext, PTL DEF Spec

(* Reports are made, posted and published in the order of the stamps.       *)
THEOREM ReportsInOrder == Spec => []InOrder
<1>1. IInv => InOrder
  BY DEF IInv
<1>2. QED
  BY <1>1, IInvInit, IInvNext, PTL DEF Spec

-----------------------------------------------------------------------------
(* value_map_ is finite, which gives its Cardinality a meaning.             *)
LEMMA FiniteNext ==
  IsFiniteSet(value_map_) /\ [Next]_vars => IsFiniteSet(value_map_)'
<1> SUFFICES ASSUME IsFiniteSet(value_map_), [Next]_vars
             PROVE  IsFiniteSet(value_map_')
  OBVIOUS
<1>1. ASSUME NEW t \in Reader, Add(t) PROVE IsFiniteSet(value_map_')
  <2> DEFINE r == [time |-> stamp[t], n |-> count + 1]
             kept == {q \in value_map_ : \E p \in value_map_ : Before(p, q)}
  <2>1. value_map_' = value_map_ \cup {r} \/ value_map_' = kept \cup {r}
    BY <1>1 DEF Add, AddedTo
  <2>2. IsFiniteSet(kept)
    <3>1. kept \subseteq value_map_
      OBVIOUS
    <3>2. QED
      BY <3>1, FS_Subset
  <2> HIDE DEF r, kept
  <2>3. QED
    BY <2>1, <2>2, FS_AddElement
<1>2. CASE UNCHANGED value_map_
  BY <1>2
<1>3. QED
  BY <1>1, <1>2 DEF Next, Report, vars, Tick, StartStop, ReadValue, AddSkipped, ReportSkipped,
     ReportBegin, ReportCopy, ReportSend, OnProduce

(* What a step may do to a waiting reading. *)
KeptStep ==
  \A r \in value_map_ :
    Waiting(r) =>
      \/ Waiting(r)'
      \/ r \in taken'
      \/ /\ Cardinality(value_map_) >= Limit
         /\ \A q \in value_map_ : r.time <= q.time
      \/ Cardinality({q \in Period(last_report_date_, current) : Before(r, q)})
           >= ReportLimit

LEMMA KeptByNext ==
  ASSUME IInv, IsFiniteSet(value_map_), [Next]_vars
  PROVE  KeptStep
<1> SUFFICES ASSUME NEW r \in value_map_, Waiting(r), ~Waiting(r)', r \notin taken'
             PROVE  \/ /\ Cardinality(value_map_) >= Limit
                       /\ \A q \in value_map_ : r.time <= q.time
                    \/ Cardinality({q \in Period(last_report_date_, current) :
                                     Before(r, q)}) >= ReportLimit
  BY DEF KeptStep
<1>1. /\ DataOK /\ ClockInv /\ Limit \in Nat /\ ReportLimit \in Nat
      /\ r \in Reading /\ Cardinality(value_map_) \in Nat
  BY ReportAssumption, FS_CardinalityType DEF IInv, DataOK
<1>2. CASE UNCHANGED <<value_map_, last_report_date_, at, current>>
  BY <1>2 DEF Waiting
<1>3. CASE ReportBegin
  BY <1>3 DEF Waiting, ReportBegin, ReportDue
<1>4. CASE ReportSend
  BY <1>4 DEF Waiting, ReportSend
<1>5. CASE ReportCopy
  <2> DEFINE later == {q \in Period(last_report_date_, current) : Before(r, q)}
  <2>1. r \in Period(last_report_date_, current)
    BY <1>1, <1>5 DEF Waiting, ReportCopy, Period, DataOK, Reading
  <2>2. ~(Cardinality(later) < ReportLimit)
    BY <1>5, <2>1 DEF ReportCopy, LatestOf
  <2>3. Cardinality(later) \in Nat
    <3>1. later \subseteq value_map_
      BY DEF Period
    <3>2. QED
      BY <3>1, FS_Subset, FS_CardinalityType
  <2>4. QED
    BY <1>1, <2>2, <2>3
<1>6. ASSUME NEW t \in Reader, Add(t)
      PROVE  /\ Cardinality(value_map_) >= Limit
             /\ \A q \in value_map_ : r.time <= q.time
  <2>1. r \notin value_map_'
    BY <1>6 DEF Waiting, Add
  <2>2. /\ ~(Cardinality(value_map_) < Limit)
        /\ \A p \in value_map_ : ~Before(p, r)
    BY <1>6, <2>1 DEF Add, AddedTo
  <2>3. \A q \in value_map_ : r.time <= q.time
    BY <1>1, <2>2 DEF Before, DataOK, Reading
  <2>4. QED
    BY <1>1, <2>2, <2>3
<1>7. QED
  BY <1>2, <1>3, <1>4, <1>5, <1>6 DEF Next, Report, vars, Tick, StartStop, ReadValue,
     AddSkipped, ReportSkipped, OnProduce

(* No reading that was added in time is lost but to a full store.           *)
THEOREM NoneIsSkipped == Spec => KeptUntilTaken
<1> DEFINE Inv == IInv /\ IsFiniteSet(value_map_)
<1>1. Init => Inv
  BY IInvInit, FS_EmptySet DEF Init
<1>2. Inv /\ [Next]_vars => Inv'
  BY IInvNext, FiniteNext
<1>3. Inv /\ [Next]_vars => [KeptStep]_vars
  BY KeptByNext
<1> HIDE DEF Inv
<1>4. QED
  BY <1>1, <1>2, <1>3, PTL DEF Spec, KeptUntilTaken, KeptStep

=============================================================================
