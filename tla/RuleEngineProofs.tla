-------------------------- MODULE RuleEngineProofs --------------------------
(***************************************************************************)
(* Proofs about RuleEngine, for any endpoints, rules, conditions, actions, *)
(* threads and bounds.                                                     *)
(***************************************************************************)
EXTENDS RuleEngine, Integers, TLAPS, NaturalsInduction, WellFoundedInduction

Message == [id : Endpoint, value : Value]
Attempt == [at : {"out", "write", "read", "add"}, target : Actuator \cup {NoValue},
            value : BOOLEAN, retry : 0..(Attempts - 1)]
Walking == {"rules", "actions", "post"}

(* The endpoints' side: what messages are made of. *)
ReadingInv ==
  /\ level \in [Sensor -> Level]
  /\ reading \in [Endpoint -> Value \cup {NoValue}]
  /\ queue_ \in Seq(Message)
  /\ setting \in [Setter -> Attempt]
  /\ \A t \in Setter : setting[t].at # "out" => setting[t].target \in Actuator

(* No rule is in rules_ twice. *)
RulesInv ==
  /\ rules_ \in Seq(Rule)
  /\ \A i, j \in DOMAIN rules_ : rules_[i] = rules_[j] => i = j
  /\ applied \in [Rule -> UNION {[DOMAIN Conditions[r] -> Value \cup {NoValue}] :
                                r \in Rule}]
  /\ \A r \in Rule : DOMAIN applied[r] = DOMAIN Conditions[r]

(* Where the walk can be. *)
WalkInv ==
  /\ at \in Walking \cup {"process", "undefined"}
  /\ message \in Message \cup {NoValue}
  /\ pos \in Nat
  /\ n \in Nat
  /\ at \in Walking => message \in Message /\ pos >= 1
  /\ at \in {"actions", "post"} => n >= 1 /\ pos <= Len(rules_)

IInv == ReadingInv /\ RulesInv /\ WalkInv

-----------------------------------------------------------------------------
(* A non-empty set of natural numbers has a least element. *)
LEMMA MinExists ==
  ASSUME NEW T, T \subseteq Nat, T # {}
  PROVE  \E x \in T : \A y \in T : x <= y
<1>1. PICK x \in T : \A y \in T : <<y, x>> \notin OpToRel(<, Nat)
  BY NatLessThanWellFounded, WFMin
<1>2. ASSUME NEW y \in T PROVE x <= y
  <2>1. <<y, x>> \notin OpToRel(<, Nat)  BY <1>1
  <2>2. x \in Nat /\ y \in Nat           OBVIOUS
  <2>3. ~(y < x)                         BY <2>1, <2>2 DEF OpToRel
  <2> QED                                BY <2>2, <2>3
<1> QED BY <1>2

(* A bounded one has a greatest: before_condition is that of some condition *)
(* whenever the rule has one on the endpoint.                               *)
LEMMA MaxExists ==
  ASSUME NEW m \in Nat, NEW T, T \subseteq 1..m, T # {}
  PROVE  \E x \in T : \A y \in T : y <= x
<1> DEFINE U == {m - i : i \in T}
<1>1. U \subseteq Nat OBVIOUS
<1>2. U # {}
  <2>1. PICK i \in T : TRUE  OBVIOUS
  <2>2. m - i \in U          BY <2>1
  <2> QED                    BY <2>2
<1>3. PICK u \in U : \A y \in U : u <= y  BY <1>1, <1>2, MinExists
<1>4. PICK x \in T : u = m - x            OBVIOUS
<1>5. ASSUME NEW y \in T PROVE y <= x
  <2>1. u <= m - y  BY <1>3
  <2> QED           BY <2>1, <1>4
<1> QED BY <1>5

(* Taking the k-th element out of a sequence. *)
LEMMA WithoutType ==
  ASSUME NEW S, NEW s \in Seq(S), NEW k \in 1..Len(s)
  PROVE  /\ Without(s, k) \in Seq(S)
         /\ Len(Without(s, k)) = Len(s) - 1
         /\ \A i \in 1..(Len(s) - 1) :
              Without(s, k)[i] = s[IF i < k THEN i ELSE i + 1]
<1>1. Len(s) - 1 \in Nat OBVIOUS
<1>2. \A i \in 1..(Len(s) - 1) : (IF i < k THEN s[i] ELSE s[i + 1]) \in S OBVIOUS
<1>3. Without(s, k) \in [1..(Len(s) - 1) -> S]  BY <1>2 DEF Without
<1>4. Without(s, k) \in Seq(S)                  BY <1>1, <1>3
<1>5. Len(Without(s, k)) = Len(s) - 1           BY <1>1, <1>3, <1>4
<1> QED BY <1>4, <1>5 DEF Without

LEMMA ConditionType ==
  ASSUME NEW r \in Rule, NEW i \in DOMAIN Conditions[r]
  PROVE  /\ Conditions[r][i].target \in Endpoint
         /\ Conditions[r][i].holds \subseteq Value
<1> DEFINE C == [target : Endpoint, holds : SUBSET Value]
<1>1. Conditions[r] \in Seq(C)  BY RuleAssumption
<1> HIDE DEF C
<1>2. Conditions[r][i] \in C    BY <1>1
<1> QED BY <1>2 DEF C

LEMMA ActionType ==
  ASSUME NEW r \in Rule, NEW i \in DOMAIN Actions[r]
  PROVE  Actions[r][i].target \in Actuator /\ Actions[r][i].value \in Spelling
<1> DEFINE A == [target : Actuator, value : Spelling]
<1>1. Actions[r] \in Seq(A)  BY RuleAssumption
<1> HIDE DEF A
<1>2. Actions[r][i] \in A    BY <1>1
<1> QED BY <1>2 DEF A

(* A rule that was told nothing is not satisfied. *)
LEMMA FreshUnsatisfied ==
  ASSUME NEW r \in Rule
  PROVE  ~AllSatisfied(r, [i \in DOMAIN Conditions[r] |-> NoValue])
<1>1. 1 \in DOMAIN Conditions[r]          BY RuleAssumption
<1>2. NoValue \notin Conditions[r][1].holds  BY <1>1, ConditionType, RuleAssumption
<1> QED BY <1>1, <1>2 DEF AllSatisfied, Satisfied

-----------------------------------------------------------------------------
LEMMA NotSettingType == NotSetting \in Attempt /\ NotSetting.at = "out"
  BY RuleAssumption DEF NotSetting, Attempt

LEMMA InitInv == Init => IInv
<1> SUFFICES ASSUME Init PROVE IInv  OBVIOUS
<1>1. ReadingInv
  <2>1. \A t \in Setter : setting[t].at = "out"
    BY NotSettingType DEF Init
  <2> QED BY <2>1, NotSettingType DEF ReadingInv, Init
<1>2. RulesInv
  <2> DEFINE F == UNION {[DOMAIN Conditions[r] -> Value \cup {NoValue}] : r \in Rule}
  <2>1. \A r \in Rule : [i \in DOMAIN Conditions[r] |-> NoValue] \in F  OBVIOUS
  <2> QED BY <2>1 DEF RulesInv, Init
<1>3. WalkInv
  BY DEF WalkInv, Init, Walking
<1> QED BY <1>1, <1>2, <1>3 DEF IInv

(* SetValue and the end of an attempt keep the setters' type. *)
LEMMA SettingType ==
  ASSUME ReadingInv, NEW t \in Setter, NEW s \in Attempt,
         s.at # "out" => s.target \in Actuator,
         setting' = [setting EXCEPT ![t] = s]
  PROVE  /\ setting' \in [Setter -> Attempt]
         /\ \A q \in Setter : setting'[q].at # "out" => setting'[q].target \in Actuator
BY DEF ReadingInv

LEMMA SetValueType ==
  ASSUME ReadingInv, NEW t \in Setter, NEW a \in Actuator, NEW text,
         SetValue(t, a, text)
  PROVE  /\ setting' \in [Setter -> Attempt]
         /\ \A q \in Setter : setting'[q].at # "out" => setting'[q].target \in Actuator
<1> DEFINE s == [at |-> "write", target |-> a, value |-> IsTrue(text), retry |-> 0]
<1>1. IsTrue(text) \in BOOLEAN  BY DEF IsTrue
<1>2. 0 \in 0..(Attempts - 1)   BY RuleAssumption
<1>3. s \in Attempt             BY <1>1, <1>2 DEF Attempt
<1>4. CASE setting' = setting   BY <1>4 DEF ReadingInv
<1>5. CASE setting' = [setting EXCEPT ![t] = s]
  <2> HIDE DEF s
  <2>1. s.target \in Actuator  BY DEF s
  <2> QED BY <1>3, <1>5, <2>1, SettingType
<1> QED BY <1>4, <1>5 DEF SetValue

LEMMA RetryType ==
  ASSUME ReadingInv, NEW t \in Setter, setting[t].at # "out", Retry(t)
  PROVE  /\ setting' \in [Setter -> Attempt]
         /\ \A q \in Setter : setting'[q].at # "out" => setting'[q].target \in Actuator
<1>1. setting[t] \in Attempt /\ setting[t].target \in Actuator  BY DEF ReadingInv
<1> DEFINE S == setting[t]
           u == [S EXCEPT !.at = "write", !.retry = S.retry + 1]
<1>2. CASE S.retry = Attempts - 1
  <2>1. setting' = [setting EXCEPT ![t] = NotSetting]  BY <1>2 DEF Retry
  <2> QED BY <2>1, NotSettingType, SettingType
<1>3. CASE S.retry # Attempts - 1
  <2>1. setting' = [setting EXCEPT ![t] = u]        BY <1>3 DEF Retry
  <2>2. S.retry + 1 \in 0..(Attempts - 1)           BY <1>1, <1>3, RuleAssumption DEF Attempt
  <2>3. u \in Attempt /\ u.target \in Actuator      BY <1>1, <2>2 DEF Attempt
  <2> HIDE DEF u
  <2> QED BY <2>1, <2>3, SettingType
<1> QED BY <1>2, <1>3

LEMMA ReadingStep == IInv /\ [Next]_vars => ReadingInv'
<1> SUFFICES ASSUME IInv, [Next]_vars PROVE ReadingInv'  OBVIOUS
<1> USE DEF IInv
<1>1. CASE UNCHANGED <<level, reading, queue_, setting>>
  BY <1>1 DEF ReadingInv
<1>2. ASSUME NEW s \in Sensor, NEW v \in Level, Change(s, v) PROVE ReadingInv'
  BY <1>2 DEF Change, ReadingInv
<1>3. ASSUME NEW e \in Endpoint, ReadValue(e) \/ AddReading(e) \/ AddSkipped(e)
      PROVE  ReadingInv'
  <2>1. CASE ReadValue(e)
    <3>1. (IF e \in Actuator THEN ToString(output[e]) ELSE level[e]) \in Value
      BY RuleAssumption DEF ReadingInv, Endpoint, Level, ToString
    <3> QED BY <2>1, <3>1 DEF ReadValue, ReadingInv, deviceVars
  <2>2. CASE AddReading(e)
    <3>1. [id |-> e, value |-> reading[e]] \in Message
      BY <2>2 DEF AddReading, ReadingInv, Message
    <3> QED BY <2>2, <3>1 DEF AddReading, ReadingInv, deviceVars
  <2>3. CASE AddSkipped(e)
    BY <2>3 DEF AddSkipped, ReadingInv, deviceVars
  <2> QED BY <1>3, <2>1, <2>2, <2>3
<1>4. ASSUME NEW t \in Setter, SetStep(t) PROVE ReadingInv'
  <2> DEFINE S == setting[t]
  <2>1. S \in Attempt BY DEF ReadingInv
  <2>2. CASE WriteValue(t)
    <3>1. S.target \in Actuator  BY <2>2 DEF WriteValue, ReadingInv
    <3>2. PICK ok \in BOOLEAN :
            setting' = [setting EXCEPT ![t] = IF ok THEN [S EXCEPT !.at = "read"]
                                              ELSE NotSetting]
      BY <2>2 DEF WriteValue
    <3>3. UNCHANGED <<level, reading, queue_>>
      BY <2>2 DEF WriteValue
    <3>4. CASE ok
      <4> DEFINE s == [S EXCEPT !.at = "read"]
      <4>1. s \in Attempt /\ s.target \in Actuator  BY <2>1, <3>1 DEF Attempt
      <4>2. setting' = [setting EXCEPT ![t] = s]      BY <3>2, <3>4
      <4> HIDE DEF s, S
      <4> QED BY <4>1, <4>2, <3>3, SettingType DEF ReadingInv
    <3>5. CASE ~ok
      <4>1. setting' = [setting EXCEPT ![t] = NotSetting]  BY <3>2, <3>5
      <4> QED BY <4>1, <3>3, NotSettingType, SettingType DEF ReadingInv
    <3> QED BY <3>4, <3>5
  <2>3. CASE ReadBack(t)
    <3>1. S.target \in Actuator /\ S.at # "out"  BY <2>3 DEF ReadBack, ReadingInv
    <3>2. UNCHANGED <<level, reading, queue_>>
      BY <2>3 DEF ReadBack
    <3>3. CASE setting' = [setting EXCEPT ![t].at = "add"]
      <4> DEFINE s == [S EXCEPT !.at = "add"]
      <4>1. s \in Attempt /\ s.target \in Actuator  BY <2>1, <3>1 DEF Attempt
      <4>2. setting' = [setting EXCEPT ![t] = s]      BY <3>3
      <4> HIDE DEF s, S
      <4> QED BY <4>1, <4>2, <3>2, SettingType DEF ReadingInv
    <3>4. CASE Retry(t)
      BY <3>1, <3>2, <3>4, RetryType DEF ReadingInv
    <3> QED BY <2>3, <3>3, <3>4 DEF ReadBack
  <2>4. CASE AddSet(t)
    <3>1. S.target \in Actuator /\ S.at # "out"  BY <2>4 DEF AddSet, ReadingInv
    <3> DEFINE m == [id |-> S.target, value |-> ToString(S.value)]
    <3>2. m \in Message
      BY <3>1, RuleAssumption DEF ToString, Message, Endpoint
    <3>3. queue_' \in Seq(Message)
      <4>1. \/ queue_' = queue_
            \/ queue_' = Append(queue_, m)
        BY <2>4 DEF AddSet
      <4> HIDE DEF m
      <4> QED BY <4>1, <3>2 DEF ReadingInv
    <3>4. Retry(t) /\ UNCHANGED <<level, reading>>
      BY <2>4 DEF AddSet, deviceVars
    <3> QED BY <3>1, <3>3, <3>4, RetryType DEF ReadingInv
  <2> QED BY <1>4, <2>2, <2>3, <2>4 DEF SetStep
<1>5. ASSUME Manage PROVE ReadingInv'
  <2>1. CASE OnMessage
    BY <2>1 DEF OnMessage, ReadingInv, deviceVars
  <2>2. CASE UpdatedEnd \/ SkipRule \/ ProcessRule \/ ActionsEnd
    BY <1>1, <2>2 DEF UpdatedEnd, SkipRule, ProcessRule, ActionsEnd, deviceVars
  <2>3. CASE RunAction
    <3>1. Manager \in Setter /\ UNCHANGED <<level, reading, queue_>>
      BY <2>3 DEF RunAction, deviceVars, Setter
    <3>2. rules_[pos] \in Rule
      BY <2>3 DEF RunAction, RulesInv, WalkInv, Walking
    <3>3. n \in DOMAIN Actions[rules_[pos]]
      <4>1. Actions[rules_[pos]] \in Seq([target : Actuator, value : Spelling])
        BY <3>2, RuleAssumption
      <4> QED BY <2>3, <4>1 DEF RunAction, WalkInv
    <3>4. Actions[rules_[pos]][n].target \in Actuator
      BY <3>2, <3>3, ActionType
    <3>5. \/ UNCHANGED setting
          \/ SetValue(Manager, Actions[rules_[pos]][n].target,
                      Actions[rules_[pos]][n].value)
      BY <2>3 DEF RunAction
    <3> QED BY <1>1, <3>1, <3>4, <3>5, SetValueType DEF ReadingInv
  <2> QED BY <1>5, <2>1, <2>2, <2>3 DEF Manage
<1>6. ASSUME Call PROVE ReadingInv'
  <2>1. CASE \E t \in Remote, a \in Actuator, text \in Spelling : RemoteSet(t, a, text)
    <3>1. PICK t \in Remote, a \in Actuator, text \in Spelling : RemoteSet(t, a, text)
      BY <2>1
    <3>2. t \in Setter /\ SetValue(t, a, text) /\ UNCHANGED <<level, reading, queue_>>
      BY <3>1 DEF RemoteSet, deviceVars, Setter
    <3> QED BY <3>2, SetValueType DEF ReadingInv
  <2>2. CASE \E r \in Rule : CreateRule(r) \/ DestroyRule(r)
    BY <1>1, <2>2 DEF CreateRule, DestroyRule, deviceVars
  <2>3. CASE \E e \in Passing : DestroyEndpoint(e) \/ CreateEndpoint(e)
    BY <1>1, <2>3 DEF DestroyEndpoint, CreateEndpoint, deviceVars
  <2> QED BY <1>6, <2>1, <2>2, <2>3 DEF Call
<1> QED BY <1>1, <1>2, <1>3, <1>4, <1>5, <1>6 DEF Next, Step, Undefined, vars

LEMMA AppliedType ==
  ASSUME RulesInv, NEW r \in Rule
  PROVE  applied[r] \in [DOMAIN Conditions[r] -> Value \cup {NoValue}]
<1> DEFINE V == Value \cup {NoValue}
           F(q) == [DOMAIN Conditions[q] -> V]
           U == UNION {F(q) : q \in Rule}
<1>1. applied[r] \in U
  <2>1. applied \in [Rule -> U]  BY DEF RulesInv
  <2> HIDE DEF U
  <2> QED BY <2>1
<1> HIDE DEF V
<1>2. PICK q \in Rule : applied[r] \in F(q)  BY <1>1
<1>3. DOMAIN applied[r] = DOMAIN Conditions[r]  BY DEF RulesInv
<1>4. applied[r] \in [DOMAIN Conditions[r] -> V]  BY <1>2, <1>3
<1> QED BY <1>4 DEF V

(* Adding a new element to a sequence without repetitions. *)
LEMMA AppendDistinct ==
  ASSUME NEW S, NEW s \in Seq(S), NEW x \in S,
         \A i, j \in DOMAIN s : s[i] = s[j] => i = j,
         \A i \in DOMAIN s : s[i] # x
  PROVE  \A i, j \in DOMAIN Append(s, x) : Append(s, x)[i] = Append(s, x)[j] => i = j
<1> DEFINE w == Append(s, x)
           m == Len(s) + 1
<1>1. /\ DOMAIN w = (DOMAIN s) \cup {m}
      /\ m \notin DOMAIN s
      /\ \A i \in DOMAIN s : w[i] = s[i]
      /\ w[m] = x
  OBVIOUS
<1> HIDE DEF w, m
<1>2. \A i, j \in DOMAIN w : w[i] = w[j] => i = j
  BY <1>1
<1> QED BY <1>2 DEF w

LEMMA RulesStep == IInv /\ [Next]_vars => RulesInv'
<1> SUFFICES ASSUME IInv, [Next]_vars PROVE RulesInv'  OBVIOUS
<1> USE DEF IInv
<1> DEFINE F == UNION {[DOMAIN Conditions[r] -> Value \cup {NoValue}] : r \in Rule}
<1>1. CASE UNCHANGED ruleVars
  BY <1>1 DEF RulesInv, ruleVars
<1>2. CASE ProcessRule
  <2> DEFINE r == rules_[pos]
             v == NewlyApplied(r)
  <2>1. r \in Rule /\ message \in Message
    BY <1>2 DEF ProcessRule, RulesInv, WalkInv, Walking
  <2>2. applied' = [applied EXCEPT ![r] = v] /\ rules_' = rules_
    BY <1>2 DEF ProcessRule
  <2>3. v \in [DOMAIN Conditions[r] -> Value \cup {NoValue}]
    <3>1. applied[r] \in [DOMAIN Conditions[r] -> Value \cup {NoValue}]
      <4>1. r \in Rule  BY <2>1
      <4> HIDE DEF r
      <4> QED BY <4>1, AppliedType
    <3> QED BY <2>1, <3>1 DEF NewlyApplied, Message
  <2> HIDE DEF v, r
  <2>4. v \in F /\ DOMAIN v = DOMAIN Conditions[r]  BY <2>1, <2>3
  <2> HIDE DEF F
  <2>5. applied \in [Rule -> F] BY DEF RulesInv, F
  <2>6. applied' \in [Rule -> F] BY <2>2, <2>4, <2>5
  <2>7. \A q \in Rule : DOMAIN applied'[q] = DOMAIN Conditions[q]
    BY <2>2, <2>4, <2>5 DEF RulesInv
  <2> QED BY <2>2, <2>6, <2>7 DEF RulesInv, F
<1>3. ASSUME NEW r \in Rule, CreateRule(r) PROVE RulesInv'
  <2> DEFINE v == [i \in DOMAIN Conditions[r] |-> NoValue]
  <2>1. PositionsOf(r) = {} /\ rules_' = Append(rules_, r)
        /\ applied' = [applied EXCEPT ![r] = v]
    BY <1>3 DEF CreateRule
  <2>2. v \in [DOMAIN Conditions[r] -> Value \cup {NoValue}]  OBVIOUS
  <2>3. v \in F /\ DOMAIN v = DOMAIN Conditions[r]  BY <2>2
  <2> HIDE DEF v, F
  <2>4. applied \in [Rule -> F] BY DEF RulesInv, F
  <2>5. applied' \in [Rule -> F] BY <2>1, <2>3, <2>4
  <2>6. \A q \in Rule : DOMAIN applied'[q] = DOMAIN Conditions[q]
    BY <2>1, <2>3, <2>4 DEF RulesInv
  <2>7. rules_' \in Seq(Rule)
    BY <2>1 DEF RulesInv
  <2>8. \A i \in DOMAIN rules_ : rules_[i] # r
    BY <2>1 DEF PositionsOf
  <2>9. /\ rules_ \in Seq(Rule)
        /\ \A i, j \in DOMAIN rules_ : rules_[i] = rules_[j] => i = j
    BY DEF RulesInv
  <2>10. \A i, j \in DOMAIN rules_' : rules_'[i] = rules_'[j] => i = j
    <3> DEFINE w == Append(rules_, r)
    <3>1. \A i, j \in DOMAIN w : w[i] = w[j] => i = j
      BY <2>8, <2>9, AppendDistinct
    <3> HIDE DEF w
    <3>2. rules_' = w  BY <2>1 DEF w
    <3> QED BY <3>1, <3>2
  <2> QED BY <2>5, <2>6, <2>7, <2>10 DEF RulesInv, F
<1>4. ASSUME NEW r \in Rule, DestroyRule(r) PROVE RulesInv'
  <2>1. PICK k \in DOMAIN rules_ : rules_' = Without(rules_, k)
    BY <1>4 DEF DestroyRule, PositionsOf
  <2>2. k \in 1..Len(rules_) /\ rules_ \in Seq(Rule)  BY DEF RulesInv
  <2>3. /\ rules_' \in Seq(Rule)
        /\ DOMAIN rules_' = 1..(Len(rules_) - 1)
        /\ \A i \in 1..(Len(rules_) - 1) :
             rules_'[i] = rules_[IF i < k THEN i ELSE i + 1]
    <3> DEFINE w == Without(rules_, k)
    <3>1. /\ w \in Seq(Rule)
          /\ Len(w) = Len(rules_) - 1
          /\ \A i \in 1..(Len(rules_) - 1) : w[i] = rules_[IF i < k THEN i ELSE i + 1]
      BY <2>2, WithoutType
    <3> HIDE DEF w
    <3>2. DOMAIN w = 1..(Len(rules_) - 1)  BY <3>1
    <3>3. rules_' = w                      BY <2>1 DEF w
    <3> QED BY <3>1, <3>2, <3>3
  <2>4. \A i, j \in DOMAIN rules_' : rules_'[i] = rules_'[j] => i = j
    <3> SUFFICES ASSUME NEW i \in DOMAIN rules_', NEW j \in DOMAIN rules_',
                        rules_'[i] = rules_'[j]
                 PROVE  i = j
      OBVIOUS
    <3> DEFINE x == IF i < k THEN i ELSE i + 1
               y == IF j < k THEN j ELSE j + 1
    <3>1. i \in Nat /\ j \in Nat /\ k \in Nat  BY <2>2, <2>3
    <3>2. x \in DOMAIN rules_ /\ y \in DOMAIN rules_  BY <2>2, <2>3
    <3>3. rules_[x] = rules_[y]  BY <2>3
    <3> HIDE DEF x, y
    <3>4. x = y  BY <3>2, <3>3 DEF RulesInv
    <3> QED BY <3>1, <3>4 DEF x, y
  <2> QED BY <1>4, <2>3, <2>4 DEF DestroyRule, RulesInv
<1> QED
  <2>1. ASSUME NEW s \in Sensor, NEW v \in Level, Change(s, v) PROVE UNCHANGED ruleVars
    BY <2>1 DEF Change
  <2>2. ASSUME NEW e \in Endpoint, ReadValue(e) \/ AddReading(e) \/ AddSkipped(e)
        PROVE  UNCHANGED ruleVars
    BY <2>2 DEF ReadValue, AddReading, AddSkipped
  <2>3. ASSUME NEW t \in Setter, SetStep(t) PROVE UNCHANGED ruleVars
    BY <2>3 DEF SetStep, WriteValue, ReadBack, AddSet
  <2>4. CASE OnMessage \/ UpdatedEnd \/ SkipRule \/ RunAction \/ ActionsEnd
    BY <1>1, <2>4 DEF OnMessage, UpdatedEnd, SkipRule, RunAction, ActionsEnd, ruleVars
  <2>5. CASE \E t \in Remote, a \in Actuator, text \in Spelling : RemoteSet(t, a, text)
    BY <1>1, <2>5 DEF RemoteSet
  <2>6. CASE \E e \in Passing : DestroyEndpoint(e) \/ CreateEndpoint(e)
    BY <1>1, <2>6 DEF DestroyEndpoint, CreateEndpoint
  <2>7. CASE UNCHANGED vars
    BY <1>1, <2>7 DEF vars, ruleVars
  <2> QED BY <1>1, <1>2, <1>3, <1>4, <2>1, <2>2, <2>3, <2>4, <2>5, <2>6, <2>7
          DEF Next, Step, Undefined, Manage, Call

LEMMA WalkStep == IInv /\ [Next]_vars => WalkInv'
<1> SUFFICES ASSUME IInv, [Next]_vars PROVE WalkInv'  OBVIOUS
<1> USE DEF IInv
<1>1. CASE UNCHANGED <<at, message, pos, n, rules_>>
  BY <1>1 DEF WalkInv
<1>2. CASE OnMessage
  <2>1. Head(queue_) \in Message /\ 1 \in Nat
    BY <1>2 DEF OnMessage, ReadingInv
  <2> QED BY <1>2, <2>1 DEF OnMessage, WalkInv, Walking
<1>3. CASE UpdatedEnd
  BY <1>3 DEF UpdatedEnd, WalkInv, Walking
<1>4. CASE SkipRule
  BY <1>4 DEF SkipRule, WalkInv, Walking
<1>5. CASE ProcessRule
  <2>1. /\ at = "rules" /\ pos <= Len(rules_) /\ n' = 1
        /\ UNCHANGED <<rules_, message>>
        /\ \/ at' = "actions" /\ pos' = pos
           \/ at' = "post" /\ pos' = pos
           \/ at' = "rules" /\ pos' = pos + 1
    BY <1>5 DEF ProcessRule
  <2> QED BY <2>1 DEF WalkInv, Walking
<1>6. CASE RunAction
  BY <1>6 DEF RunAction, WalkInv, Walking, ruleVars
<1>7. CASE ActionsEnd
  BY <1>7 DEF ActionsEnd, WalkInv, Walking, ruleVars
<1>8. ASSUME NEW r \in Rule, CreateRule(r) \/ DestroyRule(r) PROVE WalkInv'
  <2>1. at' \in {"process", "undefined"} /\ UNCHANGED <<message, pos, n>>
    BY <1>8 DEF CreateRule, DestroyRule, RulesTouched
  <2> QED BY <2>1 DEF WalkInv, Walking
<1> QED
  <2>1. ASSUME NEW s \in Sensor, NEW v \in Level, Change(s, v) PROVE WalkInv'
    BY <1>1, <2>1 DEF Change, walkVars, ruleVars
  <2>2. ASSUME NEW e \in Endpoint, ReadValue(e) \/ AddReading(e) \/ AddSkipped(e)
        PROVE  WalkInv'
    BY <1>1, <2>2 DEF ReadValue, AddReading, AddSkipped, walkVars, ruleVars
  <2>3. ASSUME NEW t \in Setter, SetStep(t) PROVE WalkInv'
    BY <1>1, <2>3 DEF SetStep, WriteValue, ReadBack, AddSet, walkVars, ruleVars
  <2>4. CASE \E t \in Remote, a \in Actuator, text \in Spelling : RemoteSet(t, a, text)
    BY <1>1, <2>4 DEF RemoteSet, walkVars, ruleVars
  <2>5. CASE \E e \in Passing : DestroyEndpoint(e) \/ CreateEndpoint(e)
    BY <1>1, <2>5 DEF DestroyEndpoint, CreateEndpoint, walkVars, ruleVars
  <2>6. CASE UNCHANGED vars
    BY <1>1, <2>6 DEF vars
  <2> QED BY <1>2, <1>3, <1>4, <1>5, <1>6, <1>7, <1>8, <2>1, <2>2, <2>3, <2>4, <2>5,
             <2>6
          DEF Next, Step, Undefined, Manage, Call

THEOREM Structure == Spec => []IInv
<1>1. IInv /\ [Next]_vars => IInv'
  BY ReadingStep, RulesStep, WalkStep DEF IInv
<1> QED BY <1>1, InitInv, PTL DEF Spec

-----------------------------------------------------------------------------
(* A walk's step over the rule it is at. *)
LEMMA AtRule ==
  ASSUME IInv, at \in Walking, pos <= Len(rules_)
  PROVE  pos \in DOMAIN rules_ /\ rules_[pos] \in Rule
BY DEF IInv, RulesInv, WalkInv

(* Only ProcessRule and CreateRule touch what the conditions last heard. *)
LEMMA AppliedStep ==
  ASSUME IInv, [Next]_vars
  PROVE  \/ ProcessRule
         \/ \E r \in Rule : CreateRule(r)
         \/ UNCHANGED applied /\ ~(at = "rules" /\ at' = "actions")
<1>1. ASSUME NEW s \in Sensor, NEW v \in Level, Change(s, v)
      PROVE  UNCHANGED <<applied, at>>
  BY <1>1 DEF Change, ruleVars, walkVars
<1>2. ASSUME NEW e \in Endpoint, ReadValue(e) \/ AddReading(e) \/ AddSkipped(e)
      PROVE  UNCHANGED <<applied, at>>
  BY <1>2 DEF ReadValue, AddReading, AddSkipped, ruleVars, walkVars
<1>3. ASSUME NEW t \in Setter, SetStep(t) PROVE UNCHANGED <<applied, at>>
  BY <1>3 DEF SetStep, WriteValue, ReadBack, AddSet, ruleVars, walkVars
<1>4. CASE OnMessage \/ UpdatedEnd \/ SkipRule \/ RunAction \/ ActionsEnd
  BY <1>4 DEF OnMessage, UpdatedEnd, SkipRule, RunAction, ActionsEnd, ruleVars
<1>5. CASE \E t \in Remote, a \in Actuator, text \in Spelling : RemoteSet(t, a, text)
  BY <1>5 DEF RemoteSet, ruleVars, walkVars
<1>6. CASE \E e \in Passing : DestroyEndpoint(e) \/ CreateEndpoint(e)
  BY <1>6 DEF DestroyEndpoint, CreateEndpoint, ruleVars, walkVars
<1>7. CASE \E r \in Rule : DestroyRule(r)
  BY <1>7 DEF DestroyRule, RulesTouched
<1>8. CASE UNCHANGED vars
  BY <1>8 DEF vars
<1> QED BY <1>1, <1>2, <1>3, <1>4, <1>5, <1>6, <1>7, <1>8
        DEF Next, Step, Undefined, Manage, Call

(* The rule ProcessRule tells hears the message, and no other rule does. *)
LEMMA ProcessApplies ==
  ASSUME IInv, ProcessRule
  PROVE  /\ rules_[pos] \in Rule
         /\ applied'[rules_[pos]] = NewlyApplied(rules_[pos])
         /\ \A q \in Rule \ {rules_[pos]} : applied'[q] = applied[q]
<1>1. rules_[pos] \in Rule
  BY AtRule DEF ProcessRule, Walking
<1>2. applied' = [applied EXCEPT ![rules_[pos]] = NewlyApplied(rules_[pos])]
  BY DEF ProcessRule
<1>3. DOMAIN applied = Rule
  BY DEF IInv, RulesInv
<1> QED BY <1>1, <1>2, <1>3

(* What ProcessRule makes of it. *)
LEMMA ProcessEnds ==
  ASSUME NEW r, NEW v, r = rules_[pos], v = NewlyApplied(r), ProcessRule
  PROVE  /\ at = "rules"
         /\ IsIncludedInCondition(r, message.id)
         /\ (at' = "actions") <=> Fires(r, v)
         /\ Fires(r, v) \/ Again(r, v) => pos' = pos
         /\ ~(Fires(r, v) \/ Again(r, v)) => at' = "rules" /\ pos' = pos + 1
BY DEF ProcessRule

(* A rule's actions run when its conditions come to hold together, and only *)
(* then.                                                                    *)
THEOREM FiresWhenItRises == Spec => FiresOnRise
<1> DEFINE A == \A r \in Rule :
                  (~AllSatisfied(r, applied[r]) /\ AllSatisfied(r, applied'[r]))
                    <=> (at = "rules" /\ at' = "actions" /\ rules_[pos] = r)
<1>1. IInv /\ [Next]_vars => A
  <2> SUFFICES ASSUME IInv, [Next]_vars PROVE A  OBVIOUS
  <2>1. CASE UNCHANGED applied /\ ~(at = "rules" /\ at' = "actions")
    BY <2>1
  <2>2. ASSUME NEW r \in Rule, CreateRule(r) PROVE A
    <3>1. ~(at = "rules" /\ at' = "actions")
      BY <2>2 DEF CreateRule, RulesTouched
    <3>2. applied' = [applied EXCEPT ![r] = [i \in DOMAIN Conditions[r] |-> NoValue]]
      BY <2>2 DEF CreateRule
    <3>3. DOMAIN applied = Rule  BY DEF IInv, RulesInv
    <3>4. ~AllSatisfied(r, applied'[r])  BY <3>2, <3>3, FreshUnsatisfied
    <3>5. \A q \in Rule \ {r} : applied'[q] = applied[q]  BY <3>2, <3>3
    <3> QED BY <3>1, <3>4, <3>5
  <2>3. CASE ProcessRule
    <3> DEFINE r == rules_[pos]
               v == NewlyApplied(r)
    <3>1. r \in Rule /\ applied'[r] = v
          /\ \A q \in Rule \ {r} : applied'[q] = applied[q]
      BY <2>3, ProcessApplies
    <3>2. /\ at = "rules"
          /\ (at' = "actions") <=> Fires(r, v)
      BY <2>3, ProcessEnds
    <3>3. Fires(r, v) => AllSatisfied(r, v) /\ ~AllSatisfied(r, applied[r])
      BY DEF Fires, Changed, AllSatisfied, TargetsOf, Satisfied
    <3>4. ~AllSatisfied(r, applied[r]) /\ AllSatisfied(r, v) => Fires(r, v)
      <4> SUFFICES ASSUME ~AllSatisfied(r, applied[r]), AllSatisfied(r, v)
                   PROVE  Changed(r, message.id, v)
        BY DEF Fires
      <4>1. PICK i \in DOMAIN Conditions[r] : ~Satisfied(r, applied[r], i)
        BY DEF AllSatisfied
      <4>2. Satisfied(r, v, i)  BY DEF AllSatisfied
      <4>3. v[i] # applied[r][i]  BY <4>1, <4>2 DEF Satisfied
      <4>4. Conditions[r][i].target = message.id  BY <4>3 DEF NewlyApplied
      <4> QED BY <4>1, <4>2, <4>4 DEF Changed, TargetsOf
    <3> HIDE DEF r, v
    <3>5. \A q \in Rule \ {r} : ~(~AllSatisfied(q, applied[q]) /\ AllSatisfied(q, applied'[q]))
      BY <3>1
    <3>6. (~AllSatisfied(r, applied[r]) /\ AllSatisfied(r, applied'[r]))
            <=> (at = "rules" /\ at' = "actions")
      BY <3>1, <3>2, <3>3, <3>4
    <3> QED BY <3>1, <3>5, <3>6 DEF r
  <2> QED BY <2>1, <2>2, <2>3, AppliedStep
<1>2. Spec => [][A]_vars
  BY <1>1, Structure, PTL DEF Spec
<1> QED BY <1>2 DEF FiresOnRise

(* Before says of some condition on the endpoint that it was satisfied.     *)
LEMMA BeforeOfOne ==
  ASSUME NEW r \in Rule, NEW id, IsIncludedInCondition(r, id)
  PROVE  \E i \in TargetsOf(r, id) : Before(r, id) <=> Satisfied(r, applied[r], i)
<1> DEFINE P(i) == i \in TargetsOf(r, id) /\ \A j \in TargetsOf(r, id) : j <= i
           last == CHOOSE i \in TargetsOf(r, id) : \A j \in TargetsOf(r, id) : j <= i
<1>1. Len(Conditions[r]) \in Nat /\ TargetsOf(r, id) \subseteq 1..Len(Conditions[r])
  BY RuleAssumption DEF TargetsOf
<1>2. \E i \in TargetsOf(r, id) : \A j \in TargetsOf(r, id) : j <= i
  BY <1>1, MaxExists DEF IsIncludedInCondition
<1>3. last \in TargetsOf(r, id)  BY <1>2
<1>4. Before(r, id) <=> Satisfied(r, applied[r], last)  BY DEF Before
<1> HIDE DEF last
<1> QED BY <1>3, <1>4

(* Every reading makes a satisfied rule look at its actuators again.        *)
THEOREM EnforcesAgain == Spec => EnforcedAgain
<1> DEFINE A == (/\ at = "rules" /\ pos' = pos + 1
                 /\ IsIncludedInCondition(rules_[pos], message.id))
                  => ~AllSatisfied(rules_[pos], applied'[rules_[pos]])
<1>1. IInv /\ [Next]_vars => A
  <2> SUFFICES ASSUME IInv, [Next]_vars, at = "rules", pos' = pos + 1,
                      IsIncludedInCondition(rules_[pos], message.id)
               PROVE  ~AllSatisfied(rules_[pos], applied'[rules_[pos]])
    OBVIOUS
  <2>1. ProcessRule
    <3>1. pos \in Nat /\ pos' # pos /\ pos' # 0  BY DEF IInv, WalkInv
    <3>2. ASSUME NEW s \in Sensor, NEW v \in Level, Change(s, v) PROVE pos' = pos
      BY <3>2 DEF Change, walkVars
    <3>3. ASSUME NEW e \in Endpoint, ReadValue(e) \/ AddReading(e) \/ AddSkipped(e)
          PROVE  pos' = pos
      BY <3>3 DEF ReadValue, AddReading, AddSkipped, walkVars
    <3>4. ASSUME NEW t \in Setter, SetStep(t) PROVE pos' = pos
      BY <3>4 DEF SetStep, WriteValue, ReadBack, AddSet, walkVars
    <3>5. ~OnMessage /\ ~UpdatedEnd /\ ~SkipRule /\ ~RunAction /\ ~ActionsEnd
      BY <3>1 DEF OnMessage, UpdatedEnd, SkipRule, RunAction, ActionsEnd
    <3>6. ASSUME NEW t \in Remote, NEW a \in Actuator, NEW text \in Spelling,
                 RemoteSet(t, a, text)
          PROVE  pos' = pos
      BY <3>6 DEF RemoteSet, walkVars
    <3>7. ASSUME NEW e \in Passing, DestroyEndpoint(e) \/ CreateEndpoint(e)
          PROVE  pos' = pos
      BY <3>7 DEF DestroyEndpoint, CreateEndpoint, walkVars
    <3>8. ASSUME NEW r \in Rule, CreateRule(r) \/ DestroyRule(r) PROVE pos' = pos
      BY <3>8 DEF CreateRule, DestroyRule
    <3>9. ~UNCHANGED vars  BY <3>1 DEF vars
    <3> QED BY <3>1, <3>2, <3>3, <3>4, <3>5, <3>6, <3>7, <3>8, <3>9
            DEF Next, Step, Undefined, Manage, Call
  <2> DEFINE r == rules_[pos]
             v == NewlyApplied(r)
  <2>2. r \in Rule /\ applied'[r] = v  BY <2>1, ProcessApplies
  <2>3. ~Fires(r, v) /\ ~Again(r, v)
    <3>1. pos \in Nat  BY DEF IInv, WalkInv
    <3> QED BY <2>1, <3>1, ProcessEnds
  <2>4. SUFFICES ASSUME AllSatisfied(r, v) PROVE FALSE
    BY <2>2
  <2>5. PICK i \in TargetsOf(r, message.id) :
          Before(r, message.id) <=> Satisfied(r, applied[r], i)
    BY <2>2, BeforeOfOne
  <2>6. Satisfied(r, v, i)  BY <2>4 DEF AllSatisfied, TargetsOf
  <2>7. ~Satisfied(r, applied[r], i)  BY <2>3, <2>4, <2>5 DEF Again
  <2>8. Changed(r, message.id, v)  BY <2>6, <2>7 DEF Changed
  <2> QED BY <2>3, <2>4, <2>8 DEF Fires
<1>2. Spec => [][A]_vars
  BY <1>1, Structure, PTL DEF Spec
<1> QED BY <1>2 DEF EnforcedAgain

-----------------------------------------------------------------------------
Target(k, i) == Conditions[rules_[k]][i].target
Heard(k, i) == applied[rules_[k]][i]
OfRule(k) == DOMAIN Conditions[rules_[k]]
Now(id) == at \in Walking /\ id = message.id

(* What a condition the walk has passed has heard is what the walk tells.   *)
PassedInv ==
  \A k \in DOMAIN rules_ : \A i \in OfRule(k) :
    Now(Target(k, i)) /\ ~Ahead(k) => Heard(k, i) = message.value

(* Two conditions on an endpoint heard the same, unless the walk is between *)
(* them.                                                                    *)
AlikeInv ==
  at # "undefined" =>
    \A k, l \in DOMAIN rules_ : \A i \in OfRule(k), j \in OfRule(l) :
      Target(k, i) = Target(l, j) =>
        \/ Heard(k, i) = NoValue \/ Heard(l, j) = NoValue
        \/ Heard(k, i) = Heard(l, j)
        \/ Now(Target(k, i)) /\ ~(Ahead(k) <=> Ahead(l))

HeardInv == PassedInv /\ AlikeInv

LEMMA HeardInit == Init => HeardInv
BY DEF Init, HeardInv, PassedInv, AlikeInv, Now, Walking

(* A step that leaves the rules alone and puts no rule on the other side of *)
(* the walk.                                                                *)
LEMMA HeardFramed ==
  ASSUME HeardInv, UNCHANGED <<rules_, applied, message>>,
         at' \in Walking => at \in Walking,
         at' # "undefined" => at # "undefined",
         \A k \in DOMAIN rules_ : \A i \in OfRule(k) :
           at \in Walking /\ Target(k, i) = message.id =>
             at' \in Walking /\ (Ahead(k)' <=> Ahead(k))
  PROVE  HeardInv'
<1>1. /\ DOMAIN rules_' = DOMAIN rules_
      /\ \A k \in DOMAIN rules_ : OfRule(k)' = OfRule(k)
      /\ \A k \in DOMAIN rules_ : \A i \in OfRule(k) :
           Target(k, i)' = Target(k, i) /\ Heard(k, i)' = Heard(k, i)
  BY DEF OfRule, Target, Heard
<1>2. \A k \in DOMAIN rules_ : \A i \in OfRule(k) :
        Now(Target(k, i))' <=> Now(Target(k, i))
  BY <1>1 DEF Now
<1>3. PassedInv'
  BY <1>1, <1>2 DEF HeardInv, PassedInv, Now
<1>4. AlikeInv'
  BY <1>1, <1>2 DEF HeardInv, AlikeInv, Now
<1> QED BY <1>3, <1>4 DEF HeardInv

LEMMA HeardUntouched ==
  ASSUME HeardInv, UNCHANGED <<rules_, applied, message, at, pos>>
  PROVE  HeardInv'
BY DEF HeardInv, PassedInv, AlikeInv, Now, Target, Heard, OfRule, Ahead

LEMMA HeardStep == IInv /\ HeardInv /\ [Next]_vars => HeardInv'
<1> SUFFICES ASSUME IInv, HeardInv, [Next]_vars PROVE HeardInv'  OBVIOUS
<1>1. CASE OnMessage
  <2>1. CASE UNCHANGED <<at, message, pos>>
    BY <1>1, <2>1, HeardUntouched DEF OnMessage
  <2>2. CASE at' = "rules" /\ message' = Head(queue_) /\ pos' = 1
    <3>1. at = "process" /\ UNCHANGED <<rules_, applied>>
      BY <1>1 DEF OnMessage
    <3>2. \A k \in DOMAIN rules_ : k >= 1
      BY DEF IInv, RulesInv
    <3>3. \A k \in DOMAIN rules_ : Ahead(k)'
      BY <2>2, <3>2 DEF Ahead, IInv, RulesInv
    <3>4. PassedInv'
      BY <3>1, <3>3 DEF PassedInv
    <3>5. AlikeInv'
      BY <3>1 DEF HeardInv, AlikeInv, Now, Walking, Heard, Target, OfRule
    <3> QED BY <3>4, <3>5 DEF HeardInv
  <2> QED BY <1>1, <2>1, <2>2 DEF OnMessage
<1>2. CASE UpdatedEnd
  <2>1. at = "rules" /\ at' = "process" /\ UNCHANGED <<rules_, applied>>
    BY <1>2 DEF UpdatedEnd, ruleVars
  <2>2. \A k \in DOMAIN rules_ : ~Ahead(k)
    BY <1>2 DEF UpdatedEnd, Ahead, IInv, RulesInv, WalkInv
  <2>3. PassedInv'
    BY <2>1 DEF PassedInv, Now, Walking
  <2>4. AlikeInv'
    BY <2>1, <2>2 DEF HeardInv, AlikeInv, Heard, Target, OfRule
  <2> QED BY <2>3, <2>4 DEF HeardInv
<1>3. CASE SkipRule
  <2>1. /\ at = "rules" /\ pos' = pos + 1 /\ UNCHANGED <<rules_, applied, at, message>>
        /\ TargetsOf(rules_[pos], message.id) = {}
    BY <1>3 DEF SkipRule, ruleVars, IsIncludedInCondition
  <2>2. ASSUME NEW k \in DOMAIN rules_, NEW i \in OfRule(k), Target(k, i) = message.id
        PROVE  Ahead(k)' <=> Ahead(k)
    <3>1. k # pos  BY <2>1, <2>2 DEF TargetsOf, OfRule, Target
    <3>2. k \in Nat /\ pos \in Nat  BY DEF IInv, RulesInv, WalkInv
    <3> QED BY <2>1, <3>1, <3>2 DEF Ahead
  <2> QED BY <2>1, <2>2, HeardFramed DEF Walking
<1>4. CASE RunAction
  BY <1>4, HeardFramed DEF RunAction, ruleVars, Ahead
<1>5. CASE ActionsEnd
  <2>1. /\ at \in {"actions", "post"} /\ UNCHANGED <<rules_, applied, message>>
        /\ \/ at' = "post" /\ pos' = pos
           \/ at' = "rules" /\ pos' = pos + 1
    BY <1>5 DEF ActionsEnd, ruleVars
  <2>2. \A k \in DOMAIN rules_ : Ahead(k)' <=> Ahead(k)
    BY <2>1 DEF Ahead, IInv, RulesInv, WalkInv
  <2> QED BY <2>1, <2>2, HeardFramed DEF Walking
<1>6. CASE ProcessRule
  <2> DEFINE r == rules_[pos]
             v == NewlyApplied(r)
  <2>1. /\ r \in Rule
        /\ applied'[r] = v
        /\ \A q \in Rule \ {r} : applied'[q] = applied[q]
    BY <1>6, ProcessApplies
  <2>2. /\ at = "rules" /\ UNCHANGED <<rules_, message>>
        /\ \/ at' \in {"actions", "post"} /\ pos' = pos
           \/ at' = "rules" /\ pos' = pos + 1
        /\ pos \in DOMAIN rules_
    <3>1. pos \in DOMAIN rules_  BY <1>6, AtRule DEF ProcessRule, Walking
    <3> QED BY <1>6, <3>1 DEF ProcessRule
  <2>3. \A k \in DOMAIN rules_ : /\ Ahead(k) <=> pos <= k
                                 /\ Ahead(k)' <=> pos < k
    BY <2>2 DEF Ahead, IInv, RulesInv, WalkInv
  <2>4. \A k \in DOMAIN rules_ : k # pos => rules_[k] \in Rule \ {r}
    BY <2>2 DEF IInv, RulesInv
  <2>5. /\ \A k \in DOMAIN rules_ : OfRule(k)' = OfRule(k)
        /\ \A k \in DOMAIN rules_ : \A i \in OfRule(k) : Target(k, i)' = Target(k, i)
    BY <2>2 DEF OfRule, Target
  <2>6. \A k \in DOMAIN rules_ : \A i \in OfRule(k) :
          k # pos => Heard(k, i)' = Heard(k, i)
    BY <2>1, <2>2, <2>4 DEF Heard
  <2>7. \A k \in DOMAIN rules_ : \A i \in OfRule(k) :
          k = pos => Heard(k, i)' = IF Target(k, i) = message.id THEN message.value
                                                                ELSE Heard(k, i)
    <3>1. \A k \in DOMAIN rules_ : \A i \in OfRule(k) :
            k = pos => v[i] = IF Target(k, i) = message.id
                              THEN message.value ELSE applied[r][i]
      BY DEF OfRule, Target, NewlyApplied
    <3> HIDE DEF v
    <3> QED BY <2>1, <2>2, <3>1 DEF Heard
  <2>8. \A k \in DOMAIN rules_ : k \in Nat /\ pos \in Nat
    BY DEF IInv, RulesInv, WalkInv
  <2>9. at # "undefined" /\ DOMAIN rules_' = DOMAIN rules_ /\ message' = message
    BY <2>2
  <2> HIDE DEF r, v
  <2>10. at \in Walking /\ at' \in Walking
    BY <2>2 DEF Walking
  <2>11. PassedInv'
    <3> SUFFICES ASSUME NEW k \in DOMAIN rules_, NEW i \in OfRule(k),
                        Target(k, i) = message.id, ~(pos < k)
                 PROVE  Heard(k, i)' = message.value
      BY <2>3, <2>5, <2>9, <2>10 DEF PassedInv, Now
    <3>1. CASE k = pos  BY <2>7, <3>1
    <3>2. CASE k # pos
      BY <2>3, <2>6, <2>8, <2>10, <3>2 DEF HeardInv, PassedInv, Now
    <3> QED BY <3>1, <3>2
  <2>12. AlikeInv'
    <3> SUFFICES ASSUME NEW k \in DOMAIN rules_, NEW l \in DOMAIN rules_,
                        NEW i \in OfRule(k), NEW j \in OfRule(l),
                        Target(k, i) = Target(l, j)
                 PROVE  \/ Heard(k, i)' = NoValue \/ Heard(l, j)' = NoValue
                        \/ Heard(k, i)' = Heard(l, j)'
                        \/ /\ Target(k, i) = message.id
                           /\ ~((pos < k) <=> (pos < l))
      BY <2>3, <2>5, <2>9, <2>10 DEF AlikeInv, Now
    <3>1. \/ Heard(k, i) = NoValue \/ Heard(l, j) = NoValue
          \/ Heard(k, i) = Heard(l, j)
          \/ /\ Target(k, i) = message.id
             /\ ~((pos <= k) <=> (pos <= l))
      BY <2>3, <2>9, <2>10 DEF HeardInv, AlikeInv, Now
    <3>2. CASE Target(k, i) # message.id
      <4>1. Heard(k, i)' = Heard(k, i)  BY <2>6, <2>7, <3>2
      <4>2. Heard(l, j)' = Heard(l, j)  BY <2>6, <2>7, <3>2
      <4> QED BY <3>1, <3>2, <4>1, <4>2
    <3>3. CASE Target(k, i) = message.id
      <4>1. ~(pos < k) => Heard(k, i)' = message.value
        <5>1. CASE k = pos  BY <2>7, <3>3, <5>1
        <5>2. CASE k # pos
          BY <2>3, <2>6, <2>8, <2>10, <3>3, <5>2 DEF HeardInv, PassedInv, Now
        <5> QED BY <5>1, <5>2
      <4>2. ~(pos < l) => Heard(l, j)' = message.value
        <5>1. Target(l, j) = message.id  BY <3>3
        <5>2. CASE l = pos  BY <2>7, <5>1, <5>2
        <5>3. CASE l # pos
          BY <2>3, <2>6, <2>8, <2>10, <5>1, <5>3 DEF HeardInv, PassedInv, Now
        <5> QED BY <5>2, <5>3
      <4>3. CASE pos < k /\ pos < l
        <5>1. Heard(k, i)' = Heard(k, i) /\ Heard(l, j)' = Heard(l, j)
          BY <2>6, <2>8, <4>3
        <5>2. pos <= k /\ pos <= l  BY <2>8, <4>3
        <5> QED BY <3>1, <5>1, <5>2
      <4> QED BY <3>3, <4>1, <4>2, <4>3
    <3> QED BY <3>2, <3>3
  <2> QED BY <2>11, <2>12 DEF HeardInv
<1>7. ASSUME NEW r \in Rule, CreateRule(r) PROVE HeardInv'
  <2>1. CASE at' = "undefined"
    BY <2>1 DEF HeardInv, PassedInv, AlikeInv, Now, Walking
  <2>2. CASE at' # "undefined"
    <3>1. /\ at = "process" /\ at' = "process"
          /\ PositionsOf(r) = {} /\ rules_' = Append(rules_, r)
          /\ applied' = [applied EXCEPT ![r] = [i \in DOMAIN Conditions[r] |-> NoValue]]
      BY <1>7, <2>2 DEF CreateRule, RulesTouched
    <3>2. /\ DOMAIN rules_' = 1..(Len(rules_) + 1)
          /\ DOMAIN rules_ = 1..Len(rules_) /\ Len(rules_) \in Nat
          /\ \A k \in DOMAIN rules_ : rules_'[k] = rules_[k] /\ rules_[k] \in Rule \ {r}
          /\ rules_'[Len(rules_) + 1] = r
      BY <3>1 DEF IInv, RulesInv, PositionsOf
    <3>3. /\ DOMAIN applied = Rule
          /\ \A q \in Rule \ {r} : applied'[q] = applied[q]
          /\ \A i \in DOMAIN Conditions[r] : applied'[r][i] = NoValue
      BY <3>1 DEF IInv, RulesInv
    <3>4. \A k \in DOMAIN rules_' :
            \/ \A i \in OfRule(k)' : Heard(k, i)' = NoValue
            \/ /\ k \in DOMAIN rules_ /\ OfRule(k)' = OfRule(k)
               /\ \A i \in OfRule(k) : /\ Target(k, i)' = Target(k, i)
                                       /\ Heard(k, i)' = Heard(k, i)
      BY <3>2, <3>3 DEF OfRule, Target, Heard
    <3>5. PassedInv'  BY <3>1 DEF PassedInv, Now, Walking
    <3>6. AlikeInv'
      BY <3>1, <3>4 DEF HeardInv, AlikeInv, Now, Walking
    <3> QED BY <3>5, <3>6 DEF HeardInv
  <2> QED BY <2>1, <2>2
<1>8. ASSUME NEW r \in Rule, DestroyRule(r) PROVE HeardInv'
  <2>1. CASE at' = "undefined"
    BY <2>1 DEF HeardInv, PassedInv, AlikeInv, Now, Walking
  <2>2. CASE at' # "undefined"
    <3>1. /\ at = "process" /\ at' = "process" /\ applied' = applied
      BY <1>8, <2>2 DEF DestroyRule, RulesTouched
    <3>2. PICK m \in DOMAIN rules_ : rules_' = Without(rules_, m)
      BY <1>8 DEF DestroyRule, PositionsOf
    <3> DEFINE old(k) == IF k < m THEN k ELSE k + 1
    <3>3. \A k \in DOMAIN rules_' : old(k) \in DOMAIN rules_ /\ rules_'[k] = rules_[old(k)]
      <4>1. m \in 1..Len(rules_) /\ rules_ \in Seq(Rule)  BY DEF IInv, RulesInv
      <4>2. DOMAIN rules_' = 1..(Len(rules_) - 1)
        <5>1. Without(rules_, m) \in Seq(Rule) /\ Len(Without(rules_, m)) = Len(rules_) - 1
          BY <4>1, WithoutType
        <5> QED BY <3>2, <5>1
      <4>3. \A k \in 1..(Len(rules_) - 1) : Without(rules_, m)[k] = rules_[old(k)]
        BY <4>1, WithoutType
      <4> QED BY <3>2, <4>1, <4>2, <4>3
    <3> HIDE DEF old
    <3>4. \A k \in DOMAIN rules_' :
            /\ OfRule(k)' = OfRule(old(k))
            /\ \A i \in OfRule(k)' : /\ Target(k, i)' = Target(old(k), i)
                                     /\ Heard(k, i)' = Heard(old(k), i)
      BY <3>1, <3>3 DEF OfRule, Target, Heard
    <3>5. PassedInv'  BY <3>1 DEF PassedInv, Now, Walking
    <3>6. AlikeInv'
      BY <3>1, <3>3, <3>4 DEF HeardInv, AlikeInv, Now, Walking
    <3> QED BY <3>5, <3>6 DEF HeardInv
  <2> QED BY <2>1, <2>2
<1> QED
  <2>1. ASSUME NEW s \in Sensor, NEW v \in Level, Change(s, v) PROVE HeardInv'
    BY <2>1, HeardUntouched DEF Change, ruleVars, walkVars
  <2>2. ASSUME NEW e \in Endpoint, ReadValue(e) \/ AddReading(e) \/ AddSkipped(e)
        PROVE  HeardInv'
    BY <2>2, HeardUntouched DEF ReadValue, AddReading, AddSkipped, ruleVars, walkVars
  <2>3. ASSUME NEW t \in Setter, SetStep(t) PROVE HeardInv'
    BY <2>3, HeardUntouched DEF SetStep, WriteValue, ReadBack, AddSet, ruleVars, walkVars
  <2>4. CASE \E t \in Remote, a \in Actuator, text \in Spelling : RemoteSet(t, a, text)
    BY <2>4, HeardUntouched DEF RemoteSet, ruleVars, walkVars
  <2>5. CASE \E e \in Passing : DestroyEndpoint(e) \/ CreateEndpoint(e)
    BY <2>5, HeardUntouched DEF DestroyEndpoint, CreateEndpoint, ruleVars, walkVars
  <2>6. CASE UNCHANGED vars
    BY <2>6, HeardUntouched DEF vars
  <2> QED BY <1>1, <1>2, <1>3, <1>4, <1>5, <1>6, <1>7, <1>8, <2>1, <2>2, <2>3, <2>4,
             <2>5, <2>6
          DEF Next, Step, Undefined, Manage, Call

(* Rules never disagree about an endpoint.                                  *)
THEOREM RulesDoAgree == Spec => []RulesAgree
<1>1. IInv /\ HeardInv => RulesAgree
  <2> SUFFICES ASSUME IInv, HeardInv, at # "undefined",
                      NEW k \in DOMAIN rules_, NEW l \in DOMAIN rules_,
                      NEW i \in OfRule(k), NEW j \in OfRule(l),
                      Target(k, i) = Target(l, j)
               PROVE  LET now == at # "process" /\ Target(k, i) = message.id
                      IN  /\ now /\ ~Ahead(k) => Heard(k, i) = message.value
                          /\ \/ NoValue \in {Heard(k, i), Heard(l, j)}
                             \/ Heard(k, i) = Heard(l, j)
                             \/ now /\ Ahead(k) # Ahead(l)
    BY DEF RulesAgree, OfRule, Target, Heard
  <2>1. at # "process" <=> at \in Walking
    BY DEF IInv, WalkInv, Walking
  <2>2. Ahead(k) \in BOOLEAN /\ Ahead(l) \in BOOLEAN
    BY DEF Ahead
  <2> QED BY <2>1, <2>2 DEF HeardInv, PassedInv, AlikeInv, Now
<1>2. Spec => []HeardInv
  BY HeardInit, HeardStep, Structure, PTL DEF Spec
<1> QED BY <1>1, <1>2, Structure, PTL

-----------------------------------------------------------------------------
(* The state that IInv leaves out. *)
FlagInv ==
  /\ output \in [Actuator -> BOOLEAN]
  /\ value_ \in [Actuator -> BOOLEAN]
  /\ failures \in Nat
  /\ endpoint_map_ \subseteq Endpoint
  /\ post \in BOOLEAN

LEMMA FlagStep == IInv /\ FlagInv /\ [Next]_vars => FlagInv'
<1> SUFFICES ASSUME IInv, FlagInv, [Next]_vars PROVE FlagInv'  OBVIOUS
<1>1. CASE UNCHANGED <<deviceVars, endpoint_map_, value_, post>>
  BY <1>1 DEF FlagInv, deviceVars
<1>2. ASSUME NEW s \in Sensor, NEW v \in Level, Change(s, v) PROVE FlagInv'
  BY <1>2 DEF Change, FlagInv, walkVars
<1>3. ASSUME NEW e \in Endpoint, AddReading(e) PROVE FlagInv'
  <2>1. /\ UNCHANGED <<output, failures, endpoint_map_, post>>
        /\ value_' = IF e \in Actuator THEN [value_ EXCEPT ![e] = IsTrue(reading[e])]
                                      ELSE value_
    BY <1>3 DEF AddReading, deviceVars, walkVars
  <2>2. IsTrue(reading[e]) \in BOOLEAN  BY DEF IsTrue
  <2> QED BY <2>1, <2>2 DEF FlagInv
<1>4. ASSUME NEW e \in Endpoint, ReadValue(e) \/ AddSkipped(e) PROVE FlagInv'
  BY <1>1, <1>4 DEF ReadValue, AddSkipped, walkVars
<1>5. ASSUME NEW t \in Setter, SetStep(t) PROVE FlagInv'
  <2> DEFINE S == setting[t]
  <2>1. S.value \in BOOLEAN  BY DEF IInv, ReadingInv, Attempt
  <2>2. CASE WriteValue(t)
    <3>1. PICK ok \in BOOLEAN, obeyed \in BOOLEAN :
            /\ Failure(~ok)
            /\ output' = IF obeyed THEN [output EXCEPT ![S.target] = S.value] ELSE output
      BY <2>2 DEF WriteValue
    <3>2. failures' \in Nat  BY <3>1 DEF Failure, FlagInv
    <3>3. output' \in [Actuator -> BOOLEAN]  BY <2>1, <3>1 DEF FlagInv
    <3> QED BY <2>2, <3>2, <3>3 DEF WriteValue, FlagInv, walkVars
  <2>3. CASE ReadBack(t)
    <3>1. S.target \in Actuator  BY <2>3 DEF ReadBack, IInv, ReadingInv
    <3>2. PICK ok \in BOOLEAN :
            /\ Failure(~ok)
            /\ value_' = IF ok THEN [value_ EXCEPT ![S.target] = output[S.target]]
                               ELSE value_
      BY <2>3 DEF ReadBack
    <3>3. failures' \in Nat  BY <3>2 DEF Failure, FlagInv
    <3>4. value_' \in [Actuator -> BOOLEAN]  BY <3>1, <3>2 DEF FlagInv
    <3> QED BY <2>3, <3>3, <3>4 DEF ReadBack, FlagInv, walkVars
  <2>4. CASE AddSet(t)
    <3>1. value_' = [value_ EXCEPT ![S.target] = S.value] \/ value_' = value_
      BY <2>4 DEF AddSet
    <3>2. value_' \in [Actuator -> BOOLEAN]  BY <2>1, <3>1 DEF FlagInv
    <3> QED BY <2>4, <3>2 DEF AddSet, FlagInv, deviceVars, walkVars
  <2> QED BY <1>5, <2>2, <2>3, <2>4 DEF SetStep
<1>6. CASE ProcessRule
  <2>1. /\ UNCHANGED <<deviceVars, endpoint_map_, value_>>
        /\ post' = Again(rules_[pos], NewlyApplied(rules_[pos]))
    BY <1>6 DEF ProcessRule
  <2>2. post' \in BOOLEAN
    <3>1. Again(rules_[pos], NewlyApplied(rules_[pos])) \in BOOLEAN  BY DEF Again
    <3> QED BY <2>1, <3>1
  <2> QED BY <2>1, <2>2 DEF FlagInv, deviceVars
<1>7. ASSUME NEW e \in Passing, DestroyEndpoint(e) \/ CreateEndpoint(e) PROVE FlagInv'
  BY <1>7, RuleAssumption DEF DestroyEndpoint, CreateEndpoint, FlagInv, deviceVars, walkVars
<1> QED
  <2>1. CASE OnMessage \/ UpdatedEnd \/ SkipRule \/ RunAction \/ ActionsEnd
    BY <1>1, <2>1 DEF OnMessage, UpdatedEnd, SkipRule, RunAction, ActionsEnd
  <2>2. ASSUME NEW r \in Rule, CreateRule(r) \/ DestroyRule(r) PROVE FlagInv'
    BY <1>1, <2>2 DEF CreateRule, DestroyRule
  <2>3. CASE \E t \in Remote, a \in Actuator, text \in Spelling : RemoteSet(t, a, text)
    BY <1>1, <2>3 DEF RemoteSet, walkVars
  <2>4. CASE UNCHANGED vars
    BY <1>1, <2>4 DEF vars, deviceVars
  <2> QED BY <1>2, <1>3, <1>4, <1>5, <1>6, <1>7, <2>1, <2>2, <2>3, <2>4
          DEF Next, Step, Undefined, Manage, Call

(* Every variable keeps its type: a thread is never past its last attempt,  *)
(* and no rule is in rules_ twice.                                          *)
THEOREM TypeCorrect == Spec => []TypeOK
<1>1. Init => FlagInv
  <2> DEFINE allOff == [a \in Actuator |-> FALSE]
  <2>1. allOff \in [Actuator -> BOOLEAN]  OBVIOUS
  <2>2. Init => output = allOff /\ value_ = allOff  BY DEF Init
  <2>3. Init => post \in BOOLEAN                    BY DEF Init
  <2>4. Init => failures \in Nat /\ endpoint_map_ \subseteq Endpoint
    BY DEF Init
  <2> HIDE DEF allOff
  <2> QED BY <2>1, <2>2, <2>3, <2>4 DEF FlagInv
<1>2. IInv /\ FlagInv => TypeOK
  <2> SUFFICES ASSUME IInv, FlagInv PROVE TypeOK  OBVIOUS
  <2>1. at \in {"process", "rules", "actions", "post", "undefined"}
    BY DEF IInv, WalkInv, Walking
  <2> QED BY <2>1 DEF TypeOK, IInv, ReadingInv, RulesInv, WalkInv, FlagInv, Message,
                     Attempt
<1> QED BY <1>1, <1>2, FlagStep, Structure, PTL DEF Spec

=============================================================================
