----------------------------- MODULE RuleEngine -----------------------------
(***************************************************************************)
(* Rules of the ObjectManager (lib/rule.cpp, lib/rule_manager.cpp), the    *)
(* readings they hear and the actuators they set                           *)
(* (lib/endpoint_actuator_discrete.cpp, lib/endpoint.cpp,                  *)
(* lib/object_manager.cpp, lib/message_queue.cpp).  A reading that is      *)
(* added to an endpoint is posted to the manager's queue; the manager's    *)
(* thread tells it to every rule with a condition on that endpoint, and a  *)
(* rule whose conditions all hold sets its actuators, which adds a reading *)
(* of the actuator in turn.                                                *)
(*                                                                         *)
(* A reading is a member of Value, a condition the set of values it holds  *)
(* of.  The clock is left out: whether the stamp of a reading is the one   *)
(* last added (time_), so that it is skipped, is a free choice.  The event *)
(* a rule sends to the server is not modelled.                             *)
(***************************************************************************)
EXTENDS Naturals, Sequences

CONSTANTS
  Sensor,
  Actuator,   (* endpoints of the kind EndpointActuatorDiscrete             *)
  Value,      (* what a reading may say; of an actuator, "0" or "1"         *)
  Rule,       (* rules there may be                                         *)
  Conditions, (* of a rule, conditions_: [target, holds]                    *)
  Actions,    (* of a rule, actions_: [target, value], value as it is spelt *)
  Remote,     (* threads of RCS calls, which set actuators too              *)
  Manager,    (* the manager's thread                                       *)
  NoValue,
  Attempts,   (* SetValue writes this often, 3 times                        *)
  Passing,    (* endpoints that may be destroyed, and created again         *)
  MaxQueue,   (* bound on the messages waiting when a reading is added      *)
  MaxFail     (* bound on the failures of the device                        *)

Endpoint == Sensor \cup Actuator
Level == Value \ {"0", "1"}   (* what a sensor may read *)
Spelling == {"0", "1", "off", "on"}
Setter == Remote \cup {Manager}

ASSUME RuleAssumption ==
  /\ Sensor \cap Actuator = {}
  /\ {"0", "1"} \subseteq Value
  /\ NoValue \notin Value
  /\ Manager \notin Remote
  /\ Conditions \in [Rule -> Seq([target : Endpoint, holds : SUBSET Value])]
  /\ \A r \in Rule : Conditions[r] # <<>>
  /\ Actions \in [Rule -> Seq([target : Actuator, value : Spelling])]
  /\ Attempts \in Nat \ {0}
  /\ Passing \subseteq Endpoint
  /\ MaxQueue \in Nat
  /\ MaxFail \in Nat

VARIABLES
  level,         (* what each sensor would read now                         *)
  output,        (* the state of each actuator's output                     *)
  failures,      (* failures of the device so far                           *)
  endpoint_map_, (* the endpoints there are                                 *)
  value_,        (* value_ of each actuator                                 *)
  reading,       (* what the device's thread has read and not yet added     *)
  queue_,        (* messages of the manager, [id, value]                    *)
  rules_,
  applied,       (* value last applied to each condition: gives satisfied_  *)
  at,            (* where the manager's thread is                           *)
  message,       (* the message it is handling                              *)
  pos,           (* position in rules_                                      *)
  n,             (* position in actions_                                    *)
  post,          (* before_condition && satisfied                           *)
  setting        (* SetValue of each thread: [at, target, value, retry]     *)

deviceVars == <<level, output, failures>>
walkVars == <<at, message, pos, n, post>>
ruleVars == <<rules_, applied>>
vars == <<level, output, failures, endpoint_map_, value_, reading, queue_, rules_,
          applied, at, message, pos, n, post, setting>>

NotSetting == [at |-> "out", target |-> NoValue, value |-> FALSE, retry |-> 0]

TypeOK ==
  /\ level \in [Sensor -> Level]
  /\ output \in [Actuator -> BOOLEAN]
  /\ failures \in Nat
  /\ endpoint_map_ \subseteq Endpoint
  /\ value_ \in [Actuator -> BOOLEAN]
  /\ reading \in [Endpoint -> Value \cup {NoValue}]
  /\ queue_ \in Seq([id : Endpoint, value : Value])
  /\ rules_ \in Seq(Rule)
  /\ \A i, j \in DOMAIN rules_ : rules_[i] = rules_[j] => i = j
  /\ applied \in [Rule -> UNION {[DOMAIN Conditions[r] -> Value \cup {NoValue}] :
                                r \in Rule}]
  /\ \A r \in Rule : DOMAIN applied[r] = DOMAIN Conditions[r]
  /\ at \in {"process", "rules", "actions", "post", "undefined"}
  /\ message \in [id : Endpoint, value : Value] \cup {NoValue}
  /\ pos \in Nat /\ n \in Nat /\ post \in BOOLEAN
  /\ setting \in [Setter -> [at : {"out", "write", "read", "add"},
                             target : Actuator \cup {NoValue},
                             value : BOOLEAN, retry : 0..(Attempts - 1)]]

Init ==
  /\ level \in [Sensor -> Level]
  /\ output = [a \in Actuator |-> FALSE]
  /\ failures = 0
  /\ endpoint_map_ = Endpoint
  /\ value_ = [a \in Actuator |-> FALSE]
  /\ reading = [e \in Endpoint |-> NoValue]
  /\ queue_ = <<>>
  /\ rules_ = <<>>
  /\ applied = [r \in Rule |-> [i \in DOMAIN Conditions[r] |-> NoValue]]
  /\ at = "process" /\ message = NoValue /\ pos = 0 /\ n = 0 /\ post = FALSE
  /\ setting = [t \in Setter |-> NotSetting]

-----------------------------------------------------------------------------
IsTrue(text) == text \in {"1", "on"}
ToString(b) == IF b THEN "1" ELSE "0"

(* IsSatisfied() of the i-th condition of r, when v was applied to them.    *)
Satisfied(r, v, i) == v[i] \in Conditions[r][i].holds
AllSatisfied(r, v) == \A i \in DOMAIN Conditions[r] : Satisfied(r, v, i)

TargetsOf(r, id) == {i \in DOMAIN Conditions[r] : Conditions[r][i].target = id}
IsIncludedInCondition(r, id) == TargetsOf(r, id) # {}

Failure(happens) ==
  IF happens THEN failures < MaxFail /\ failures' = failures + 1
             ELSE UNCHANGED failures

(* The sensor sees something else. *)
Change(s, v) ==
  /\ level' = [level EXCEPT ![s] = v]
  /\ UNCHANGED <<output, failures, endpoint_map_, value_, reading, queue_,
                 ruleVars, walkVars, setting>>

(* Device::ReadValue, called by CorrectionProcess in the device's thread.   *)
ReadValue(e) ==
  /\ e \in endpoint_map_
  /\ reading[e] = NoValue
  /\ reading' = [reading EXCEPT ![e] =
                   IF e \in Actuator THEN ToString(output[e]) ELSE level[e]]
  /\ UNCHANGED <<deviceVars, endpoint_map_, value_, queue_, ruleVars, walkVars,
                 setting>>

(* Mutant: the reading of an actuator is posted and not kept as its value. *)
AddUnstored(e) ==
  /\ reading[e] # NoValue
  /\ Len(queue_) < MaxQueue
  /\ queue_' = Append(queue_, [id |-> e, value |-> reading[e]])
  /\ reading' = [reading EXCEPT ![e] = NoValue]
  /\ UNCHANGED <<deviceVars, endpoint_map_, value_, ruleVars, walkVars, setting>>

(* Add of the endpoint's class: unless the stamp was the last one's, the    *)
(* reading becomes the value and is posted.                                 *)
AddReading(e) ==
  /\ reading[e] # NoValue
  /\ Len(queue_) < MaxQueue
  /\ queue_' = Append(queue_, [id |-> e, value |-> reading[e]])
  /\ value_' = IF e \in Actuator THEN [value_ EXCEPT ![e] = IsTrue(reading[e])]
                                 ELSE value_
  /\ reading' = [reading EXCEPT ![e] = NoValue]
  /\ UNCHANGED <<deviceVars, endpoint_map_, ruleVars, walkVars, setting>>

AddSkipped(e) ==
  /\ reading[e] # NoValue
  /\ Len(queue_) < MaxQueue
  /\ reading' = [reading EXCEPT ![e] = NoValue]
  /\ UNCHANGED <<deviceVars, endpoint_map_, value_, queue_, ruleVars, walkVars,
                 setting>>

-----------------------------------------------------------------------------
(* EndpointActuatorDiscrete::SetValue, to the first write.                  *)
SetValue(t, a, text) ==
  setting' = IF value_[a] = IsTrue(text) THEN setting
             ELSE [setting EXCEPT ![t] = [at |-> "write", target |-> a,
                                          value |-> IsTrue(text), retry |-> 0]]

(* The end of an attempt: all three are made, whatever came of the others.  *)
Retry(t) ==
  LET s == setting[t] IN
  IF s.retry = Attempts - 1
  THEN setting' = [setting EXCEPT ![t] = NotSetting]
  ELSE setting' = [setting EXCEPT ![t] =
                     [s EXCEPT !.at = "write", !.retry = s.retry + 1]]

(* A write that fails ends SetValue; the device may have obeyed it.         *)
WriteValue(t) ==
  LET s == setting[t] IN
  /\ s.at = "write"
  /\ \E ok \in BOOLEAN, obeyed \in BOOLEAN :
       /\ ok => obeyed
       /\ Failure(~ok)
       /\ output' = IF obeyed THEN [output EXCEPT ![s.target] = s.value] ELSE output
       /\ setting' = [setting EXCEPT ![t] =
                        IF ok THEN [@ EXCEPT !.at = "read"] ELSE NotSetting]
  /\ UNCHANGED <<level, endpoint_map_, value_, reading, queue_, ruleVars, walkVars>>

(* Reading back stores into value_; a read that fails leaves it alone.      *)
ReadBack(t) ==
  LET s == setting[t] IN
  /\ s.at = "read"
  /\ \E ok \in BOOLEAN :
       /\ Failure(~ok)
       /\ value_' = IF ok THEN [value_ EXCEPT ![s.target] = output[s.target]]
                          ELSE value_
  /\ IF value_'[s.target] = s.value
     THEN setting' = [setting EXCEPT ![t].at = "add"]
     ELSE Retry(t)
  /\ UNCHANGED <<level, output, endpoint_map_, reading, queue_, ruleVars, walkVars>>

(* The text of the value was made before: another thread may have set       *)
(* value_ since.                                                            *)
AddSet(t) ==
  LET s == setting[t] IN
  /\ s.at = "add"
  /\ \/ /\ value_' = [value_ EXCEPT ![s.target] = s.value]
        /\ queue_' = Append(queue_, [id |-> s.target, value |-> ToString(s.value)])
     \/ UNCHANGED <<value_, queue_>>
  /\ Retry(t)
  /\ UNCHANGED <<deviceVars, endpoint_map_, reading, ruleVars, walkVars>>

SetStep(t) == WriteValue(t) \/ ReadBack(t) \/ AddSet(t)

(* RCSServer::Set of an actuator's value. *)
RemoteSet(t, a, text) ==
  /\ setting[t].at = "out"
  /\ a \in endpoint_map_
  /\ Len(queue_) < MaxQueue
  /\ SetValue(t, a, text)
  /\ UNCHANGED <<deviceVars, endpoint_map_, value_, reading, queue_, ruleVars,
                 walkVars>>

-----------------------------------------------------------------------------
(* ActiveObject::Process takes one message; that of an endpoint which is no *)
(* more is dropped.                                                         *)
OnMessage ==
  /\ at = "process"
  /\ queue_ # <<>>
  /\ queue_' = Tail(queue_)
  /\ IF Head(queue_).id \in endpoint_map_
     THEN at' = "rules" /\ message' = Head(queue_) /\ pos' = 1
     ELSE UNCHANGED <<at, message, pos>>
  /\ UNCHANGED <<deviceVars, endpoint_map_, value_, reading, rules_, applied, n,
                 post, setting>>

(* RuleManager::Updated is through. *)
UpdatedEnd ==
  /\ at = "rules"
  /\ pos > Len(rules_)
  /\ at' = "process" /\ message' = NoValue /\ pos' = 0
  /\ UNCHANGED <<deviceVars, endpoint_map_, value_, reading, queue_, ruleVars, n,
                 post, setting>>

SkipRule ==
  /\ at = "rules"
  /\ pos <= Len(rules_)
  /\ ~IsIncludedInCondition(rules_[pos], message.id)
  /\ pos' = pos + 1
  /\ UNCHANGED <<deviceVars, endpoint_map_, value_, reading, queue_, ruleVars, at,
                 message, n, post, setting>>

(* Mutant: a before_condition declared inside the loop hides the outer one. *)
BeforeShadowed(r, id) == FALSE

(* What is left of before_condition after the loop over the conditions: the *)
(* last of those on the endpoint.                                           *)
Before(r, id) ==
  LET last == CHOOSE i \in TargetsOf(r, id) : \A j \in TargetsOf(r, id) : j <= i
  IN  Satisfied(r, applied[r], last)

(* Mutant: changed is the conjunction over the conditions. *)
ChangedAll(r, id, v) ==
  \A i \in TargetsOf(r, id) : Satisfied(r, applied[r], i) # Satisfied(r, v, i)

Changed(r, id, v) ==
  \E i \in TargetsOf(r, id) : Satisfied(r, applied[r], i) # Satisfied(r, v, i)

(* Mutant: the loop ends at the first condition on the endpoint. *)
NewlyAppliedFirst(r) ==
  [i \in DOMAIN Conditions[r] |->
     IF /\ Conditions[r][i].target = message.id
        /\ \A j \in TargetsOf(r, message.id) : i <= j
     THEN message.value ELSE applied[r][i]]

NewlyApplied(r) ==
  [i \in DOMAIN Conditions[r] |->
     IF Conditions[r][i].target = message.id THEN message.value ELSE applied[r][i]]

Fires(r, v) == Changed(r, message.id, v) /\ AllSatisfied(r, v)
Again(r, v) == Before(r, message.id) /\ AllSatisfied(r, v)

(* Rule::Process, the loop over the conditions and what comes of it.        *)
ProcessRule ==
  /\ at = "rules"
  /\ pos <= Len(rules_)
  /\ LET r == rules_[pos]
         v == NewlyApplied(r)
     IN  /\ IsIncludedInCondition(r, message.id)
         /\ applied' = [applied EXCEPT ![r] = v]
         /\ at' = IF Fires(r, v) THEN "actions"
                  ELSE IF Again(r, v) THEN "post" ELSE "rules"
         /\ post' = Again(r, v)
         /\ n' = 1
         /\ pos' = IF Fires(r, v) \/ Again(r, v) THEN pos ELSE pos + 1
  /\ UNCHANGED <<deviceVars, endpoint_map_, value_, reading, queue_, rules_, message,
                 setting>>

(* DiscreteSetAction::Process and, on the second pass, Process_after, which *)
(* compares the texts.  An endpoint that is not found is passed over.       *)
RunAction ==
  /\ at \in {"actions", "post"}
  /\ setting[Manager].at = "out"
  /\ n <= Len(Actions[rules_[pos]])
  /\ LET a == Actions[rules_[pos]][n] IN
       IF /\ a.target \in endpoint_map_
          /\ at = "post" => ToString(value_[a.target]) # a.value
       THEN SetValue(Manager, a.target, a.value)
       ELSE UNCHANGED setting
  /\ n' = n + 1
  /\ UNCHANGED <<deviceVars, endpoint_map_, value_, reading, queue_, ruleVars, at,
                 message, pos, post>>

ActionsEnd ==
  /\ at \in {"actions", "post"}
  /\ setting[Manager].at = "out"
  /\ n > Len(Actions[rules_[pos]])
  /\ IF at = "actions" /\ post
     THEN at' = "post" /\ n' = 1 /\ pos' = pos
     ELSE at' = "rules" /\ n' = 0 /\ pos' = pos + 1
  /\ UNCHANGED <<deviceVars, endpoint_map_, value_, reading, queue_, ruleVars,
                 message, post, setting>>

Manage == \/ OnMessage \/ UpdatedEnd \/ SkipRule \/ ProcessRule \/ RunAction
          \/ ActionsEnd

-----------------------------------------------------------------------------
PositionsOf(r) == {k \in DOMAIN rules_ : rules_[k] = r}

(* rules_ is a vector without a lock: what becomes of a walk over it while  *)
(* another thread inserts or erases is undefined.                           *)
RulesTouched ==
  at' = IF at = "process" THEN "process" ELSE "undefined"

CreateRule(r) ==
  /\ PositionsOf(r) = {}
  /\ rules_' = Append(rules_, r)
  /\ applied' = [applied EXCEPT ![r] = [i \in DOMAIN Conditions[r] |-> NoValue]]
  /\ RulesTouched
  /\ UNCHANGED <<deviceVars, endpoint_map_, value_, reading, queue_, message, pos,
                 n, post, setting>>

Without(s, k) ==
  [i \in 1..(Len(s) - 1) |-> IF i < k THEN s[i] ELSE s[i + 1]]

DestroyRule(r) ==
  /\ \E k \in PositionsOf(r) : rules_' = Without(rules_, k)
  /\ RulesTouched
  /\ UNCHANGED <<deviceVars, endpoint_map_, value_, reading, queue_, applied,
                 message, pos, n, post, setting>>

(* Only of an endpoint that no thread holds: the others' use is undefined.  *)
DestroyEndpoint(e) ==
  /\ e \in endpoint_map_
  /\ reading[e] = NoValue
  /\ \A t \in Setter : setting[t].target # e
  /\ endpoint_map_' = endpoint_map_ \ {e}
  /\ UNCHANGED <<deviceVars, value_, reading, queue_, ruleVars, walkVars, setting>>

(* An endpoint made under the ID of one that was destroyed gets the         *)
(* messages the other left in the queue.                                    *)
CreateEndpoint(e) ==
  /\ e \notin endpoint_map_
  /\ endpoint_map_' = endpoint_map_ \cup {e}
  /\ value_' = IF e \in Actuator THEN [value_ EXCEPT ![e] = FALSE] ELSE value_
  /\ UNCHANGED <<deviceVars, reading, queue_, ruleVars, walkVars, setting>>

Call ==
  \/ \E r \in Rule : CreateRule(r) \/ DestroyRule(r)
  \/ \E e \in Passing : DestroyEndpoint(e) \/ CreateEndpoint(e)
  \/ \E t \in Remote, a \in Actuator, text \in Spelling : RemoteSet(t, a, text)

Step ==
  \/ \E s \in Sensor, v \in Level : Change(s, v)
  \/ \E e \in Endpoint : ReadValue(e) \/ AddReading(e) \/ AddSkipped(e)
  \/ \E t \in Setter : SetStep(t)
  \/ Manage
  \/ Call

(* The model says nothing of what follows undefined behaviour. *)
Undefined == at = "undefined" /\ UNCHANGED vars

Next == (at # "undefined" /\ Step) \/ Undefined

Spec == Init /\ [][Next]_vars

(* The device's thread keeps reading and the manager's keeps running; the   *)
(* clock goes on, so that not every reading bears the last one's stamp, and *)
(* MaxQueue is no bound of the program.                                     *)
FairSpec ==
  /\ Spec
  /\ WF_vars(at # "undefined" /\ Manage)
  /\ \A t \in Setter : WF_vars(at # "undefined" /\ SetStep(t))
  /\ \A e \in Endpoint : /\ WF_vars(at # "undefined" /\ ReadValue(e))
                         /\ SF_vars(at # "undefined" /\ AddReading(e))

-----------------------------------------------------------------------------
(* The walk has not told its message to the rule at position k yet.         *)
Ahead(k) == \/ at = "rules" /\ pos <= k
            \/ at \in {"actions", "post"} /\ pos < k

(* Rules never disagree about an endpoint: of the conditions that have      *)
(* heard of it since their rules were created, those the walk has passed    *)
(* hold the value it tells and those it is coming to all hold the one told  *)
(* before.  No rule is passed over, whatever comes and goes between         *)
(* messages, and none hears of a message twice.                             *)
RulesAgree ==
  at # "undefined" =>
    \A k, l \in DOMAIN rules_ :
      \A i \in DOMAIN Conditions[rules_[k]], j \in DOMAIN Conditions[rules_[l]] :
        LET mine  == applied[rules_[k]][i]
            other == applied[rules_[l]][j]
            id    == Conditions[rules_[k]][i].target
            now   == at # "process" /\ id = message.id
        IN  id = Conditions[rules_[l]][j].target =>
              /\ now /\ ~Ahead(k) => mine = message.value
              /\ \/ NoValue \in {mine, other}
                 \/ mine = other
                 \/ now /\ Ahead(k) # Ahead(l)

(* A rule's actions run when its conditions come to hold together, and only *)
(* then, though the code looks at each condition's own change.              *)
FiresOnRise ==
  [][\A r \in Rule :
       (~AllSatisfied(r, applied[r]) /\ AllSatisfied(r, applied'[r]))
         <=> (at = "rules" /\ at' = "actions" /\ rules_[pos] = r)]_vars

(* The walk leaves a rule that hears the message without a pass over its    *)
(* actions only if some condition does not hold: every reading makes a      *)
(* satisfied rule look at its actuators again, although before_condition    *)
(* says only what the last of its conditions on the endpoint said.          *)
EnforcedAgain ==
  [][(/\ at = "rules" /\ pos' = pos + 1
      /\ IsIncludedInCondition(rules_[pos], message.id))
       => ~AllSatisfied(rules_[pos], applied'[rules_[pos]])]_vars

(* Every condition of the rule holds of what its endpoint would read now.   *)
Asked(r) ==
  \A i \in DOMAIN Conditions[r] :
    LET c == Conditions[r][i]
    IN  (IF c.target \in Actuator THEN ToString(output[c.target])
                                  ELSE level[c.target]) \in c.holds

(* A rule prevails: if its conditions go on to hold, no call interferes and *)
(* the device fails only so often, its actuators get to the states it asks  *)
(* for and stay there, whatever writes failed and whatever old readings     *)
(* were still on their way.                                                 *)
EventuallyEnforced ==
  \A r \in Rule :
    <>[](/\ Asked(r) /\ PositionsOf(r) # {} /\ at # "undefined"
         /\ endpoint_map_ = Endpoint
         /\ \A t \in Remote : setting[t].at = "out"
         /\ \A q \in Rule \ {r} : ~Asked(q))
    => <>[](\A i \in DOMAIN Actions[r] :
              output[Actions[r][i].target] = IsTrue(Actions[r][i].value))

=============================================================================
