---------------------------- MODULE RegistryProofs ----------------------------
(***************************************************************************)
(* Proofs about Registry.                                                  *)
(***************************************************************************)
EXTENDS Registry, SequenceTheorems, TLAPS

-----------------------------------------------------------------------------
(* A request: an endpoint, if it has one, is the last object of it.         *)
EndpointLast(s) == \A i \in 1..Len(s) : s[i].node \in Endpoint => i = Len(s)

Request(s) == s \in Seq(Item) /\ s # << >> /\ EndpointLast(s)

LEMMA OneItem ==
  ASSUME NEW x \in Item
  PROVE  Request(<<x>>)
BY DEF Request, EndpointLast

LEMMA PrecededItem ==
  ASSUME NEW x \in Item, x.node \notin Endpoint, NEW s, Request(s) \/ s = << >>
  PROVE  Request(<<x>> \o s)
<1>1. CASE s = << >>
  <2>1. <<x>> \o s = <<x>>
    BY <1>1
  <2> QED  BY <2>1, OneItem
<1>2. CASE Request(s)
  <2>1. s \in Seq(Item) /\ EndpointLast(s) /\ s # << >>
    BY <1>2 DEF Request
  <2>2. <<x>> \o s \in Seq(Item) /\ Len(<<x>> \o s) = 1 + Len(s)
    BY <2>1
  <2>3. \A i \in 1..Len(<<x>> \o s) : (<<x>> \o s)[i] = IF i = 1 THEN x ELSE s[i - 1]
    BY <2>1
  <2>4. <<x>> \o s # << >>
    BY <2>1, <2>2
  <2>5. EndpointLast(<<x>> \o s)
    BY <2>1, <2>2, <2>3 DEF EndpointLast
  <2> QED  BY <2>2, <2>4, <2>5 DEF Request
<1> QED  BY <1>1, <1>2

LEMMA FirstItem ==
  ASSUME NEW s, Request(s)
  PROVE  /\ Head(s) \in Item
         /\ Head(s).node \in Endpoint => Tail(s) = << >>
         /\ Request(Tail(s)) \/ Tail(s) = << >>
<1>1. s \in Seq(Item) /\ s # << >> /\ EndpointLast(s)
  BY DEF Request
<1>2. Head(s) \in Item /\ Head(s) = s[1] /\ Len(s) \in Nat /\ Len(s) >= 1
  BY <1>1
<1>3. Tail(s) \in Seq(Item) /\ Len(Tail(s)) = Len(s) - 1
  BY <1>1
<1>4. \A i \in 1..Len(Tail(s)) : Tail(s)[i] = s[i + 1]
  BY <1>1
<1>5. Head(s).node \in Endpoint => Tail(s) = << >>
  <2>1. 1 \in 1..Len(s)
    BY <1>2
  <2>2. s[1].node \in Endpoint => 1 = Len(s)
    BY <1>1, <2>1, Zenon DEF EndpointLast
  <2>3. Head(s).node \in Endpoint => Len(Tail(s)) = 0
    BY <1>2, <1>3, <2>2
  <2>4. Tail(s) \in Seq(Item) /\ Len(Tail(s)) = 0 => Tail(s) = << >>
    BY EmptySeq
  <2> QED  BY <1>3, <2>3, <2>4
<1>6. EndpointLast(Tail(s))
  <2>1. SUFFICES ASSUME NEW i \in 1..Len(Tail(s)), Tail(s)[i].node \in Endpoint
                 PROVE  i = Len(Tail(s))
    BY DEF EndpointLast
  <2>2. i + 1 \in 1..Len(s) /\ s[i + 1].node \in Endpoint
    BY <1>2, <1>3, <1>4, <2>1
  <2>3. i + 1 = Len(s)
    BY <1>1, <2>2, Zenon DEF EndpointLast
  <2>4. i \in Int /\ Len(s) \in Int
    BY <1>2, <1>3, <2>1
  <2>5. \A j, m \in Int : j + 1 = m => j = m - 1
    OBVIOUS
  <2>6. i = Len(s) - 1
    BY <2>3, <2>4, <2>5, Zenon
  <2> QED  BY <1>3, <2>6, Zenon
<1> QED  BY <1>2, <1>3, <1>5, <1>6 DEF Request

LEMMA Items ==
  /\ \A n \in Node \cup Rule, p \in Parent : I(n, p) \in Item /\ I(n, p).node = n
  /\ \A n \in Node \cup Rule, p \in Parent : I(n, p).parent = p
  /\ NoParent \in Parent /\ Gateway \subseteq Parent /\ Device \subseteq Parent
BY DEF I, Item, Parent

LEMMA Disjoint ==
  /\ Gateway \cap Endpoint = {} /\ Device \cap Endpoint = {} /\ Rule \cap Endpoint = {}
  /\ Gateway \cap Device = {} /\ Rule \cap Gateway = {} /\ Rule \cap Device = {}
  /\ Node \cap Rule = {}
BY RegistryAssumption DEF Node

LEMMA DeviceRequest ==
  ASSUME NEW p \in Parent, NEW s \in DeviceUnder(p)
  PROVE  Request(s)
<1>1. PICK d \in Device : \E q \in EndpointsOf(d) : s = <<I(d, p)>> \o q
  BY DEF DeviceUnder
<1> PICK r \in EndpointsOf(d) : s = <<I(d, p)>> \o r
  BY <1>1
<1>2. Request(r) \/ r = << >>
  <2>1. \A e \in Endpoint : Request(<<I(e, d)>>)
    BY OneItem, Items DEF Node
  <2> QED  BY <2>1 DEF EndpointsOf
<1>3. I(d, p) \in Item /\ I(d, p).node \notin Endpoint
  BY Items, Disjoint DEF Node
<1> QED  BY <1>2, <1>3, PrecededItem

LEMMA AddRequests ==
  ASSUME NEW s \in AddRequest
  PROVE  Request(s)
<1>1. \/ \E g \in Gateway : \E r \in DevicesOf(g) : s = <<I(g, NoParent)>> \o r
      \/ \E p \in Gateway \cup {NoParent} : s \in DeviceUnder(p)
      \/ \E e \in Endpoint, d \in Device : s = <<I(e, d)>>
      \/ \E r \in Rule : s = <<I(r, NoParent)>>
  BY DEF AddRequest
<1>2. CASE \E g \in Gateway : \E r \in DevicesOf(g) : s = <<I(g, NoParent)>> \o r
  <2> PICK g \in Gateway : \E q \in DevicesOf(g) : s = <<I(g, NoParent)>> \o q
    BY <1>2
  <2>1. PICK r \in DevicesOf(g) : s = <<I(g, NoParent)>> \o r
    OBVIOUS
  <2>2. Request(r) \/ r = << >>
    BY DeviceRequest, Items DEF DevicesOf
  <2>3. I(g, NoParent) \in Item /\ I(g, NoParent).node \notin Endpoint
    BY Items, Disjoint DEF Node
  <2> QED  BY <2>1, <2>2, <2>3, PrecededItem
<1>3. CASE \E p \in Gateway \cup {NoParent} : s \in DeviceUnder(p)
  BY <1>3, DeviceRequest, Items
<1>4. CASE \E e \in Endpoint, d \in Device : s = <<I(e, d)>>
  BY <1>4, OneItem, Items DEF Node
<1>5. CASE \E r \in Rule : s = <<I(r, NoParent)>>
  BY <1>5, OneItem, Items
<1> QED  BY <1>1, <1>2, <1>3, <1>4, <1>5

-----------------------------------------------------------------------------
(* The types, of what is stored and of the requests. *)
StoreOK ==
  /\ objects \in [Node -> Parent \cup {Absent}]
  /\ list \in [Gateway \cup Device -> SUBSET Node]
  /\ links \subseteq Node
  /\ rules \in [Rule -> 0..MaxCopies]
  /\ rows \in [Node \cup Rule -> Parent \cup {Absent}]
  /\ broken \in BOOLEAN
  /\ serial \in BOOLEAN

NodeStep == {"insert", "attach", "link", "attachAgain", "detach", "unlink", "erase"}

RequestsOK ==
  /\ pc \in [Client -> PC]
  /\ todo \in [Client -> Seq(Item)]
  /\ \A c \in Client : pc[c] = "idle" <=> todo[c] = << >>
  /\ mine \in [Client -> SUBSET Node]
  /\ \A c \in Client : todo[c] # << >> => Request(todo[c])
  /\ \A c \in Client : pc[c] \in NodeStep => N(c) \in Node

TInv == StoreOK /\ RequestsOK

Busy(c) == pc[c] # "idle"

LEMMA Present_ == Present \subseteq Node
BY DEF Present

LEMMA AtItem ==
  ASSUME RequestsOK, NEW c \in Client, Busy(c)
  PROVE  /\ Request(todo[c])
         /\ N(c) \in Node \cup Rule /\ P(c) \in Parent
         /\ N(c) \in Endpoint => Tail(todo[c]) = << >>
         /\ Request(Tail(todo[c])) \/ Tail(todo[c]) = << >>
         /\ pc[c] \in NodeStep => N(c) \in Node
<1>1. Request(todo[c])
  BY DEF RequestsOK, Busy
<1>2. Head(todo[c]) \in Item /\ (Head(todo[c]).node \in Endpoint => Tail(todo[c]) = << >>)
      /\ (Request(Tail(todo[c])) \/ Tail(todo[c]) = << >>)
  BY <1>1, FirstItem
<1>3. pc[c] \in NodeStep => N(c) \in Node
  BY DEF RequestsOK
<1> QED  BY <1>1, <1>2, <1>3 DEF N, P, Item

LEMMA NoRequest == << >> \in Seq(Item)
OBVIOUS

(* The steps through a request. *)
LEMMA GotoOK ==
  ASSUME RequestsOK, NEW c \in Client, Busy(c), NEW l \in PC \ {"idle"}, Goto(c, l),
         l \in NodeStep => N(c) \in Node
  PROVE  RequestsOK'
BY DEF RequestsOK, Busy, Goto, N

LEMMA AnswerOK ==
  ASSUME RequestsOK, NEW c \in Client, Answer(c)
  PROVE  RequestsOK'
BY NoRequest DEF RequestsOK, Answer, PC, NodeStep, N

LEMMA NextItemOK ==
  ASSUME RequestsOK, NEW c \in Client, Busy(c), NextItem(c)
  PROVE  RequestsOK'
<1>1. CASE Tail(todo[c]) = << >>
  BY <1>1, AnswerOK DEF NextItem
<1>2. CASE Tail(todo[c]) # << >>
  <2>1. Request(Tail(todo[c])) /\ Tail(todo[c]) \in Seq(Item)
    BY <1>2, AtItem DEF Request
  <2>2. pc' = [pc EXCEPT ![c] = "find"] /\ todo' = [todo EXCEPT ![c] = Tail(todo[c])] /\ mine' = mine
    BY <1>2 DEF NextItem
  <2> QED  BY <1>2, <2>1, <2>2 DEF RequestsOK, PC, NodeStep, N
<1> QED  BY <1>1, <1>2

LEMMA BeginOK ==
  ASSUME RequestsOK, NEW c \in Client, NEW s, Request(s), NEW l \in {"find", "seek"},
         pc' = [pc EXCEPT ![c] = l], todo' = [todo EXCEPT ![c] = s], mine' = mine
  PROVE  RequestsOK'
<1>1. s \in Seq(Item) /\ s # << >>
  BY DEF Request
<1> QED  BY <1>1 DEF RequestsOK, PC, NodeStep, N

LEMMA InitTInv == Init => TInv
<1> SUFFICES ASSUME Init PROVE TInv
  OBVIOUS
<1>1. StoreOK
  <2>1. broken \in BOOLEAN /\ serial \in BOOLEAN
    BY DEF Init
  <2>2. rules \in [Rule -> 0..MaxCopies]
    BY RegistryAssumption DEF Init
  <2>3. /\ objects \in [Node -> Parent \cup {Absent}]
        /\ list \in [Gateway \cup Device -> SUBSET Node]
        /\ links \subseteq Node
        /\ rows \in [Node \cup Rule -> Parent \cup {Absent}]
    BY DEF Init
  <2> QED  BY <2>1, <2>2, <2>3 DEF StoreOK
<1>2. RequestsOK
  BY NoRequest DEF Init, RequestsOK, PC, NodeStep
<1> QED  BY <1>1, <1>2 DEF TInv

LEMMA CreateTInv ==
  ASSUME TInv, NEW c \in Client, Create(c), UNCHANGED serial
  PROVE  TInv'
<1> USE DEF TInv
<1>0. \A l \in {"find", "insert", "attach", "link", "row", "attachAgain"} : At(c, l) => Busy(c)
  BY DEF At, Busy
<1>1. CASE FindGateway(c) \/ Find(c)
  <2>1. Busy(c) /\ (Answer(c) \/ Goto(c, "insert") \/ Goto(c, "row"))
    BY <1>0, <1>1 DEF FindGateway, Find
  <2>2. RequestsOK'
    <3>1. N(c) \in Node
      BY <1>1 DEF FindGateway, Find, Node
    <3> QED  BY <2>1, <3>1, AnswerOK, GotoOK DEF PC
  <2>3. StoreOK'
    BY <1>1 DEF FindGateway, Find, StoreOK, memory
  <2> QED  BY <2>2, <2>3
<1>2. CASE MasterGateway(c)
  <2>1. StoreOK'
    BY <1>2 DEF MasterGateway, StoreOK, memory
  <2>2. CASE Answer(c)
    BY <2>1, <2>2, AnswerOK
  <2>3. CASE ~Answer(c)
    <3>1. PICK g \in Gateway : todo' = [todo EXCEPT ![c] = <<I(N(c), g)>> \o Tail(todo[c])]
      BY <1>2, <2>3 DEF MasterGateway
    <3>2. pc' = [pc EXCEPT ![c] = "find"] /\ mine' = mine /\ N(c) \in Device
      BY <1>2, <2>3 DEF MasterGateway, At, RequestsOK
    <3>3. Request(Tail(todo[c])) \/ Tail(todo[c]) = << >>
      BY <1>0, <1>2, AtItem DEF MasterGateway
    <3>4. I(N(c), g) \in Item /\ I(N(c), g).node \notin Endpoint
      BY <3>2, Items, Disjoint DEF Node
    <3>5. Request(<<I(N(c), g)>> \o Tail(todo[c]))
      BY <3>3, <3>4, PrecededItem
    <3> QED  BY <2>1, <3>1, <3>2, <3>5, BeginOK DEF PC
  <2> QED  BY <2>2, <2>3
<1>3. CASE Insert(c)
  <2>1. Busy(c) /\ P(c) \in Parent /\ N(c) \in Node
    BY <1>0, <1>3, AtItem DEF Insert, At, NodeStep
  <2>2. StoreOK'
    BY <1>3, <2>1 DEF Insert, StoreOK
  <2>3. RequestsOK'
    <3>1. PICK l \in {"attach", "link"} : pc' = [pc EXCEPT ![c] = l]
      BY <1>3 DEF Insert
    <3>2. mine' \in [Client -> SUBSET Node]
      BY <1>3, <2>1 DEF Insert, RequestsOK
    <3>3. todo' = todo
      BY <1>3 DEF Insert
    <3> QED  BY <2>1, <3>1, <3>2, <3>3 DEF RequestsOK, Busy, PC, NodeStep, N
  <2> QED  BY <2>2, <2>3
<1>4. CASE Attach(c) \/ AddLink(c)
  <2>1. Busy(c) /\ N(c) \in Node /\ (Goto(c, "link") \/ Goto(c, "row"))
    BY <1>0, <1>4, AtItem DEF Attach, AddLink, At, NodeStep
  <2>2. RequestsOK'
    BY <2>1, GotoOK DEF PC
  <2>3. StoreOK'
    BY <1>4, <2>1 DEF Attach, AddLink, StoreOK, Attached
  <2> QED  BY <2>2, <2>3
<1>5. CASE PushRule(c)
  <2>1. RequestsOK'
    BY <1>0, <1>5, GotoOK DEF PushRule, PC, NodeStep
  <2>2. StoreOK'
    BY <1>5, RegistryAssumption DEF PushRule, StoreOK
  <2> QED  BY <2>1, <2>2
<1>6. CASE AddRow(c)
  <2>1. Busy(c) /\ P(c) \in Parent /\ (Goto(c, "attachAgain") \/ NextItem(c))
    BY <1>0, <1>6, AtItem DEF AddRow
  <2>2. RequestsOK'
    <3>1. CASE Goto(c, "attachAgain")
      <4>1. N(c) \in Node \/ NextItem(c)
        BY <1>6 DEF AddRow, Node
      <4> QED  BY <2>1, <3>1, <4>1, GotoOK, NextItemOK DEF PC
    <3> QED  BY <2>1, <3>1, NextItemOK
  <2>3. StoreOK'
    BY <1>6, <2>1 DEF AddRow, StoreOK, memory
  <2> QED  BY <2>2, <2>3
<1>7. CASE AttachAgain(c)
  <2>1. Busy(c) /\ N(c) \in Node
    BY <1>0, <1>7, AtItem DEF AttachAgain, At, NodeStep
  <2>2. RequestsOK'
    BY <1>7, <2>1, NextItemOK DEF AttachAgain
  <2>3. StoreOK'
    BY <1>7, <2>1 DEF AttachAgain, StoreOK, Attached
  <2> QED  BY <2>2, <2>3
<1> QED  BY <1>1, <1>2, <1>3, <1>4, <1>5, <1>6, <1>7 DEF Create

LEMMA DestroyTInv ==
  ASSUME TInv, NEW c \in Client, Destroy(c), UNCHANGED serial
  PROVE  TInv'
<1> USE DEF TInv
<1>0. \A l \in {"seek", "detach", "unlink", "delete", "erase"} : At(c, l) => Busy(c)
  BY DEF At, Busy
<1>1. CASE Seek(c)
  <2>1. StoreOK'
    BY <1>1 DEF Seek, StoreOK, memory
  <2>2. CASE Answer(c)
    BY <2>1, <2>2, AnswerOK
  <2>3. CASE ~Answer(c)
    <3>1. /\ N(c) \in Present
          /\ todo' = [todo EXCEPT ![c] = <<I(N(c), objects[N(c)])>>]
          /\ mine' = [mine EXCEPT ![c] = {N(c)}]
          /\ \E l \in {"detach", "unlink"} : pc' = [pc EXCEPT ![c] = l]
      BY <1>1, <2>3 DEF Seek
    <3>2. N(c) \in Node /\ objects[N(c)] \in Parent
      BY <3>1 DEF Present, StoreOK
    <3>3. Request(<<I(N(c), objects[N(c)])>>)
      BY <3>2, OneItem, Items
    <3>4. <<I(N(c), objects[N(c)])>> \in Seq(Item) /\ <<I(N(c), objects[N(c)])>> # << >>
      BY <3>3 DEF Request
    <3>5. Head(<<I(N(c), objects[N(c)])>>).node = N(c)
      BY <3>2, Items
    <3>6. pc' \in [Client -> PC] /\ todo' \in [Client -> Seq(Item)] /\ mine' \in [Client -> SUBSET Node]
      BY <3>1, <3>2, <3>4 DEF RequestsOK, PC
    <3>7. \A d \in Client : pc'[d] \in NodeStep => Head(todo'[d]).node \in Node
      BY <3>1, <3>2, <3>5 DEF RequestsOK, N
    <3>8. \A d \in Client : (pc'[d] = "idle" <=> todo'[d] = << >>)
      BY <3>1, <3>4 DEF RequestsOK
    <3>9. \A d \in Client : todo'[d] # << >> => Request(todo'[d])
      BY <3>1, <3>3 DEF RequestsOK
    <3> QED  BY <2>1, <3>6, <3>7, <3>8, <3>9 DEF RequestsOK, N
  <2> QED  BY <2>2, <2>3
<1>2. CASE Detach(c)
  <2>1. Busy(c) /\ N(c) \in Node
    BY <1>0, <1>2, AtItem DEF Detach, At, NodeStep
  <2>2. RequestsOK'
    BY <1>2, <2>1, GotoOK DEF Detach, PC
  <2>3. StoreOK'
    BY <1>2 DEF Detach, StoreOK
  <2> QED  BY <2>2, <2>3
<1>3. CASE DelLink(c)
  <2>1. Busy(c) /\ N(c) \in Node
    BY <1>0, <1>3, AtItem DEF DelLink, At, NodeStep
  <2>2. RequestsOK'
    BY <1>3, <2>1, GotoOK, AnswerOK DEF DelLink, PC
  <2>3. broken' \in BOOLEAN
    BY <1>3 DEF DelLink, Deleted, StoreOK
  <2>4. StoreOK'
    BY <1>3, <2>3 DEF DelLink, StoreOK
  <2> QED  BY <2>2, <2>4
<1>4. CASE DeleteRow(c)
  <2>1. Busy(c) /\ (N(c) \notin Rule => N(c) \in Node)
    BY <1>0, <1>4, AtItem DEF DeleteRow
  <2>2. RequestsOK'
    BY <1>4, <2>1, GotoOK, AnswerOK DEF DeleteRow, PC
  <2>3. StoreOK'
    BY <1>4 DEF DeleteRow, StoreOK, memory
  <2> QED  BY <2>2, <2>3
<1>5. CASE Erase(c)
  <2>1. broken' \in BOOLEAN
    BY <1>5 DEF Erase, Deleted
  <2>2. objects' \in [Node -> Parent \cup {Absent}]
    BY <1>5 DEF Erase, StoreOK
  <2>3. list' \in [Gateway \cup Device -> SUBSET Node]
    BY <1>5 DEF Erase, StoreOK
  <2>4. StoreOK'
    BY <1>5, <2>1, <2>2, <2>3 DEF Erase, StoreOK
  <2>5. mine' \in [Client -> SUBSET Node]
    BY <1>5 DEF Erase, RequestsOK
  <2>6. RequestsOK'
    BY <1>5, <2>5, NoRequest DEF Erase, RequestsOK, PC, NodeStep, N
  <2> QED  BY <2>4, <2>6
<1>6. CASE PopRule(c)
  <2>1. RequestsOK'
    BY <1>0, <1>6, GotoOK, AnswerOK DEF PopRule, PC, NodeStep
  <2>2. StoreOK'
    BY <1>6, RegistryAssumption DEF PopRule, StoreOK
  <2> QED  BY <2>1, <2>2
<1> QED  BY <1>1, <1>2, <1>3, <1>4, <1>5, <1>6 DEF Destroy

LEMMA BeginTInv ==
  ASSUME TInv, NEW c \in Client, Add(c) \/ Del(c), UNCHANGED serial
  PROVE  TInv'
<1> USE DEF TInv
<1>1. StoreOK'
  BY DEF Add, Del, StoreOK, memory
<1>2. CASE Add(c)
  <2>1. PICK s \in AddRequest : todo' = [todo EXCEPT ![c] = s]
    BY <1>2 DEF Add
  <2> QED  BY <1>1, <1>2, <2>1, AddRequests, BeginOK DEF Add
<1>3. CASE Del(c)
  <2>1. PICK n \in Node \cup Rule : todo' = [todo EXCEPT ![c] = <<I(n, NoParent)>>]
    BY <1>3 DEF Del
  <2>2. Request(<<I(n, NoParent)>>)
    BY OneItem, Items
  <2> QED  BY <1>1, <1>3, <2>1, <2>2, BeginOK DEF Del
<1> QED  BY <1>2, <1>3

LEMMA RestartTInv ==
  ASSUME TInv, Restart, UNCHANGED serial
  PROVE  TInv'
<1> USE DEF TInv
<1>1. Stored \subseteq Node
  BY DEF Stored
<1>2. /\ objects' \in [Node -> Parent \cup {Absent}]
      /\ links' \subseteq Node
      /\ rows' \in [Node \cup Rule -> Parent \cup {Absent}]
      /\ broken' \in BOOLEAN /\ serial' \in BOOLEAN
  BY <1>1 DEF Restart, StoreOK
<1>3. list' \in [Gateway \cup Device -> SUBSET Node]
  BY <1>1 DEF Restart
<1>4. rules' \in [Rule -> 0..MaxCopies]
  BY RegistryAssumption DEF Restart
<1>5. RequestsOK'
  BY NoRequest DEF Restart, RequestsOK, PC, NodeStep
<1> QED  BY <1>2, <1>3, <1>4, <1>5 DEF StoreOK

LEMMA StepTInv == TInv /\ [Next]_vars => TInv'
<1> SUFFICES ASSUME TInv, [Next]_vars PROVE TInv'
  OBVIOUS
<1>1. CASE UNCHANGED vars
  BY <1>1 DEF vars, memory, request, TInv, StoreOK, RequestsOK, N
<1>2. CASE Next
  BY <1>2, CreateTInv, DestroyTInv, BeginTInv, RestartTInv DEF Next
<1> QED  BY <1>1, <1>2

(* Every map, list and row holds what belongs there.                        *)
THEOREM RegistryTypes == Spec => []TypeOK
<1>1. TInv => TypeOK
  BY DEF TInv, StoreOK, RequestsOK, TypeOK
<1> QED  BY InitTInv, StepTInv, <1>1, PTL DEF Spec

-----------------------------------------------------------------------------
(* One request after the other.  What an endpoint is like in the maps and   *)
(* in its table while a request is at it, and a rule.                       *)
On(c, x) == Busy(c) /\ N(c) = x

EndpointPhase(c, e) ==
  /\ pc[c] \in {"find", "seek"} => objects[e] = rows[e]
  /\ pc[c] = "insert" => objects[e] = Absent /\ rows[e] = Absent
  /\ pc[c] \in {"attach", "link"} => objects[e] = P(c) /\ rows[e] = Absent
  /\ pc[c] = "row" =>
       objects[e] # Absent /\ (objects[e] = rows[e] \/ (rows[e] = Absent /\ objects[e] = P(c)))
  /\ pc[c] \in {"attachAgain", "detach", "unlink", "delete"} =>
       objects[e] = rows[e] /\ objects[e] # Absent
  /\ pc[c] = "erase" => objects[e] # Absent /\ rows[e] = Absent

RulePhase(c, r) ==
  /\ pc[c] \in {"find", "seek", "row", "delete"}
  /\ pc[c] \in {"find", "seek"} => (rules[r] = 0 => rows[r] = Absent)
  /\ pc[c] = "row" => rules[r] > 0

AloneIn(c) == \A d \in Client : d # c => ~Busy(d)

Solo(c) ==
  /\ AloneIn(c)
  /\ \A e \in Endpoint : IF On(c, e) THEN EndpointPhase(c, e) ELSE objects[e] = rows[e]
  /\ \A r \in Rule : IF On(c, r) THEN RulePhase(c, r) ELSE rules[r] = 0 => rows[r] = Absent

Settled ==
  /\ \A e \in Endpoint : objects[e] = rows[e]
  /\ \A r \in Rule : rules[r] = 0 => rows[r] = Absent

(* The requests of a serial gateway.                                        *)
SInv ==
  serial /\ ~broken =>
    \/ Settled /\ \A c \in Client : ~Busy(c)
    \/ \E c \in Client : Busy(c) /\ Solo(c)

LEMMA InitSInv == Init => SInv
BY DEF Init, SInv, Settled, Busy, Node

(* A client whose turn it is. *)
LEMMA Turn ==
  ASSUME SInv, serial, ~broken, NEW c \in Client, Busy(c) \/ \A d \in Client : ~Busy(d)
  PROVE  Solo(c)
<1>1. CASE Busy(c)
  BY <1>1 DEF SInv, Solo, AloneIn
<1>2. CASE \A d \in Client : ~Busy(d)
  BY <1>2 DEF SInv, Solo, AloneIn, On, Settled
<1> QED  BY <1>1, <1>2

LEMMA AfterTurn ==
  ASSUME NEW c \in Client, Solo(c)'
  PROVE  SInv'
<1>1. CASE Busy(c)'
  BY <1>1 DEF SInv
<1>2. CASE ~Busy(c)'
  BY <1>2 DEF SInv, Solo, AloneIn, On, Settled
<1> QED  BY <1>1, <1>2

(* Nothing is under way but what is not an endpoint and not a rule.         *)
LEMMA OffEndpoint ==
  ASSUME NEW c \in Client, Solo(c), ~Busy(c) \/ N(c) \notin Endpoint
  PROVE  \A e \in Endpoint : objects[e] = rows[e]
BY DEF Solo, On

LEMMA OffRule ==
  ASSUME NEW c \in Client, Solo(c), ~Busy(c) \/ N(c) \notin Rule
  PROVE  \A r \in Rule : rules[r] = 0 => rows[r] = Absent
BY DEF Solo, On

(* After a step: at the head of an object, or between two requests.         *)
LEMMA SoloAtHead ==
  ASSUME NEW c \in Client, AloneIn(c)', Settled', pc'[c] \in {"idle", "find", "seek"}
  PROVE  Solo(c)'
<1>1. \A e \in Endpoint : EndpointPhase(c, e)' /\ objects'[e] = rows'[e]
  BY DEF Settled, EndpointPhase
<1>2. \A r \in Rule : (RulePhase(c, r)' /\ (rules'[r] = 0 => rows'[r] = Absent)) \/ ~Busy(c)'
  BY DEF Settled, RulePhase, Busy
<1> QED  BY <1>1, <1>2 DEF Solo, On, Settled

LEMMA SoloOff ==
  ASSUME NEW c \in Client, AloneIn(c)', Settled', N(c)' \notin Endpoint \cup Rule
  PROVE  Solo(c)'
BY DEF Solo, On, Settled

LEMMA SoloEndpoint ==
  ASSUME NEW c \in Client, AloneIn(c)', NEW e \in Endpoint, N(c)' = e, Busy(c)',
         EndpointPhase(c, e)',
         \A f \in Endpoint : f # e => objects'[f] = rows'[f],
         \A r \in Rule : rules'[r] = 0 => rows'[r] = Absent
  PROVE  Solo(c)'
<1>1. \A r \in Rule : ~On(c, r)'
  BY Disjoint DEF On
<1>2. \A f \in Endpoint : On(c, f)' <=> f = e
  BY DEF On
<1> QED  BY <1>1, <1>2 DEF Solo

LEMMA SoloRule ==
  ASSUME NEW c \in Client, AloneIn(c)', NEW r \in Rule, N(c)' = r, Busy(c)',
         RulePhase(c, r)',
         \A q \in Rule : q # r => (rules'[q] = 0 => rows'[q] = Absent),
         \A e \in Endpoint : objects'[e] = rows'[e]
  PROVE  Solo(c)'
<1>1. \A e \in Endpoint : ~On(c, e)'
  BY Disjoint DEF On
<1>2. \A q \in Rule : On(c, q)' <=> q = r
  BY DEF On
<1> QED  BY <1>1, <1>2 DEF Solo

(* The steps through a request, once more. *)
LEMMA Control ==
  ASSUME RequestsOK, NEW c \in Client, NEW l, pc' = [pc EXCEPT ![c] = l], AloneIn(c)
  PROVE  AloneIn(c)' /\ pc'[c] = l
BY DEF RequestsOK, AloneIn, Busy

LEMMA GotoControl ==
  ASSUME RequestsOK, NEW c \in Client, NEW l \in PC \ {"idle"}, Goto(c, l), AloneIn(c)
  PROVE  AloneIn(c)' /\ pc'[c] = l /\ Busy(c)' /\ N(c)' = N(c) /\ P(c)' = P(c)
BY Control DEF Goto, Busy, N, P

LEMMA AnswerControl ==
  ASSUME RequestsOK, NEW c \in Client, Answer(c), AloneIn(c)
  PROVE  AloneIn(c)' /\ pc'[c] = "idle"
BY Control DEF Answer

LEMMA NextItemControl ==
  ASSUME RequestsOK, NEW c \in Client, NextItem(c), AloneIn(c)
  PROVE  AloneIn(c)' /\ pc'[c] \in {"idle", "find"}
BY Control, AnswerControl DEF NextItem

LEMMA CreateSolo ==
  ASSUME TInv, NEW c \in Client, Solo(c), Create(c)
  PROVE  Solo(c)'
<1> USE DEF TInv
<1>0. AloneIn(c)
  BY DEF Solo
<1>1. CASE FindGateway(c)
  <2>1. N(c) \notin Endpoint \cup Rule
    BY <1>1, Disjoint DEF FindGateway, Node
  <2>2. Settled'
    BY <1>1, <2>1, OffEndpoint, OffRule DEF FindGateway, memory, Settled
  <2>3. CASE Answer(c)
    BY <1>0, <2>2, <2>3, AnswerControl, SoloAtHead
  <2>4. CASE Goto(c, "insert")
    BY <1>0, <2>1, <2>2, <2>4, GotoControl, SoloOff DEF PC
  <2> QED  BY <1>1, <2>3, <2>4 DEF FindGateway
<1>2. CASE MasterGateway(c)
  <2>1. N(c) \notin Endpoint \cup Rule
    BY <1>2, Disjoint DEF MasterGateway, Node
  <2>2. Settled'
    BY <1>2, <2>1, OffEndpoint, OffRule DEF MasterGateway, memory, Settled
  <2>3. CASE Answer(c)
    BY <1>0, <2>2, <2>3, AnswerControl, SoloAtHead
  <2>4. CASE pc' = pc
    <3>1. AloneIn(c)' /\ pc'[c] = "find"
      BY <1>0, <1>2, <2>4 DEF AloneIn, Busy, MasterGateway, At
    <3> QED  BY <2>2, <3>1, SoloAtHead
  <2> QED  BY <1>2, <2>3, <2>4 DEF MasterGateway
<1>3. CASE Find(c)
  <2>1. pc[c] = "find" /\ Busy(c) /\ UNCHANGED <<objects, rules, rows>>
    BY <1>3 DEF Find, At, Busy, memory
  <2>2. N(c) \notin Rule
    BY <1>3, Disjoint DEF Find, Node
  <2>3. PICK l \in {"row", "insert"} : Goto(c, l) /\ (l = "row" <=> N(c) \in Present)
    BY <1>3 DEF Find
  <2>4. AloneIn(c)' /\ pc'[c] = l /\ Busy(c)' /\ N(c)' = N(c)
    BY <1>0, <2>3, GotoControl DEF PC
  <2>5. Settled
    <3>1. \A e \in Endpoint : objects[e] = rows[e]
      BY <2>1 DEF Solo, EndpointPhase, On
    <3> QED  BY <2>2, <3>1, OffRule DEF Settled
  <2>6. CASE N(c) \in Endpoint
    <3>1. EndpointPhase(c, N(c))'
      BY <2>1, <2>3, <2>4, <2>5, <2>6 DEF EndpointPhase, Present, Settled, Node
    <3> QED  BY <2>1, <2>4, <2>5, <2>6, <3>1, SoloEndpoint DEF Settled
  <2>7. CASE N(c) \notin Endpoint
    BY <2>1, <2>2, <2>4, <2>5, <2>7, SoloOff DEF Settled
  <2> QED  BY <2>6, <2>7
<1>4. CASE Insert(c)
  <2>1. pc[c] = "insert" /\ Busy(c) /\ N(c) \in Node /\ N(c) \notin Rule
    BY <1>4, AtItem, Disjoint DEF Insert, At, NodeStep, Busy
  <2>2. PICK l \in {"attach", "link"} : pc' = [pc EXCEPT ![c] = l] /\ (l = "attach" <=> N(c) \in Endpoint)
    BY <1>4 DEF Insert
  <2>3. AloneIn(c)' /\ pc'[c] = l /\ Busy(c)' /\ N(c)' = N(c) /\ P(c)' = P(c)
    BY <1>0, <1>4, <2>2, Control DEF Insert, N, P, Busy
  <2>4. objects' = [objects EXCEPT ![N(c)] = P(c)] /\ UNCHANGED <<rules, rows>>
    BY <1>4 DEF Insert
  <2>5. \A r \in Rule : rules'[r] = 0 => rows'[r] = Absent
    BY <2>1, <2>4, OffRule
  <2>6. \A e \in Endpoint : e # N(c) => objects'[e] = rows'[e]
    BY <2>4 DEF Solo, On, StoreOK
  <2>7. CASE N(c) \in Endpoint
    <3>1. rows[N(c)] = Absent
      BY <2>1, <2>7 DEF Solo, On, EndpointPhase
    <3>2. EndpointPhase(c, N(c))'
      BY <2>1, <2>2, <2>3, <2>4, <2>7, <3>1 DEF EndpointPhase, StoreOK
    <3> QED  BY <2>3, <2>5, <2>6, <2>7, <3>2, SoloEndpoint
  <2>8. CASE N(c) \notin Endpoint
    BY <2>1, <2>3, <2>5, <2>6, <2>8, SoloOff DEF Settled
  <2> QED  BY <2>7, <2>8
<1>5. CASE Attach(c) \/ AddLink(c)
  <2>1. pc[c] \in {"attach", "link"} /\ Busy(c) /\ N(c) \in Node /\ N(c) \notin Rule
        /\ P(c) \in Parent
    BY <1>5, AtItem, Disjoint DEF Attach, AddLink, At, NodeStep, Busy
  <2>2. UNCHANGED <<objects, rules, rows>>
    BY <1>5 DEF Attach, AddLink
  <2>3. PICK l \in {"link", "row"} : Goto(c, l)
    BY <1>5 DEF Attach, AddLink
  <2>4. AloneIn(c)' /\ pc'[c] = l /\ Busy(c)' /\ N(c)' = N(c) /\ P(c)' = P(c)
    BY <1>0, <2>3, GotoControl DEF PC
  <2>5. \A r \in Rule : rules'[r] = 0 => rows'[r] = Absent
    BY <2>1, <2>2, OffRule
  <2>6. \A e \in Endpoint : e # N(c) => objects'[e] = rows'[e]
    BY <2>2 DEF Solo, On
  <2>7. CASE N(c) \in Endpoint
    <3>1. objects[N(c)] = P(c) /\ rows[N(c)] = Absent
      BY <2>1, <2>7 DEF Solo, On, EndpointPhase
    <3>2. P(c) # Absent
      BY <2>1, RegistryAssumption DEF Parent, Node
    <3>3. EndpointPhase(c, N(c))'
      BY <2>2, <2>4, <3>1, <3>2 DEF EndpointPhase
    <3> QED  BY <2>4, <2>5, <2>6, <2>7, <3>3, SoloEndpoint
  <2>8. CASE N(c) \notin Endpoint
    BY <2>1, <2>4, <2>5, <2>6, <2>8, SoloOff DEF Settled
  <2> QED  BY <2>7, <2>8
<1>6. CASE PushRule(c)
  <2>1. N(c) \in Rule /\ N(c) \notin Endpoint /\ UNCHANGED <<objects, rows>> /\ Goto(c, "row")
        /\ rules' = [rules EXCEPT ![N(c)] = rules[N(c)] + 1]
    BY <1>6, Disjoint DEF PushRule
  <2>2. AloneIn(c)' /\ pc'[c] = "row" /\ Busy(c)' /\ N(c)' = N(c)
    BY <1>0, <2>1, GotoControl DEF PC
  <2>3. rules'[N(c)] > 0 /\ \A q \in Rule : q # N(c) => rules'[q] = rules[q]
    BY <2>1 DEF StoreOK
  <2>4. RulePhase(c, N(c))'
    BY <2>2, <2>3 DEF RulePhase
  <2>5. \A e \in Endpoint : objects'[e] = rows'[e]
    BY <2>1, OffEndpoint
  <2>6. \A q \in Rule : q # N(c) => (rules'[q] = 0 => rows'[q] = Absent)
    BY <2>1, <2>3 DEF Solo, On
  <2> QED  BY <2>1, <2>2, <2>4, <2>5, <2>6, SoloRule
<1>7. CASE AddRow(c)
  <2>1. pc[c] = "row" /\ Busy(c) /\ P(c) \in Parent /\ N(c) \in Node \cup Rule
        /\ UNCHANGED <<objects, rules>>
    BY <1>7, AtItem DEF AddRow, At, Busy, memory
  <2>2. P(c) # Absent
    BY <2>1, RegistryAssumption DEF Parent, Node
  <2>3. \A n \in Node \cup Rule : n # N(c) => rows'[n] = rows[n]
    BY <1>7 DEF AddRow, StoreOK
  <2>4. rows'[N(c)] = IF rows[N(c)] = Absent THEN P(c) ELSE rows[N(c)]
    BY <1>7, <2>1 DEF AddRow, StoreOK
  <2>5. \A e \in Endpoint : objects'[e] = rows'[e]
    <3>1. ASSUME NEW e \in Endpoint, e # N(c) PROVE objects'[e] = rows'[e]
      BY <2>1, <2>3, <3>1 DEF Solo, On, Node
    <3>2. ASSUME N(c) \in Endpoint PROVE objects'[N(c)] = rows'[N(c)]
      BY <2>1, <2>2, <2>4, <3>2 DEF Solo, On, EndpointPhase
    <3> QED  BY <3>1, <3>2
  <2>6. \A r \in Rule : rules'[r] = 0 => rows'[r] = Absent
    <3>1. ASSUME NEW r \in Rule, r # N(c) PROVE rules'[r] = 0 => rows'[r] = Absent
      BY <2>1, <2>3, <3>1 DEF Solo, On
    <3>2. ASSUME N(c) \in Rule PROVE rules'[N(c)] # 0
      BY <2>1, <3>2 DEF Solo, On, RulePhase, StoreOK
    <3> QED  BY <3>1, <3>2
  <2>7. Settled'
    BY <2>5, <2>6 DEF Settled
  <2>8. CASE NextItem(c)
    BY <1>0, <2>7, <2>8, NextItemControl, SoloAtHead
  <2>9. CASE N(c) \in Device \cup Endpoint /\ Goto(c, "attachAgain")
    <3>1. AloneIn(c)' /\ pc'[c] = "attachAgain" /\ Busy(c)' /\ N(c)' = N(c)
      BY <1>0, <2>9, GotoControl DEF PC
    <3>2. CASE N(c) \in Endpoint
      <4>1. rows'[N(c)] # Absent
        BY <2>2, <2>4
      <4>2. EndpointPhase(c, N(c))'
        BY <2>5, <3>1, <3>2, <4>1 DEF EndpointPhase
      <4> QED  BY <2>5, <2>6, <3>1, <3>2, <4>2, SoloEndpoint
    <3>3. CASE N(c) \in Device
      BY <2>7, <3>1, <3>3, SoloOff, Disjoint
    <3> QED  BY <2>9, <3>2, <3>3
  <2> QED  BY <1>7, <2>8, <2>9 DEF AddRow
<1>8. CASE AttachAgain(c)
  <2>1. pc[c] = "attachAgain" /\ Busy(c) /\ N(c) \in Node /\ N(c) \notin Rule
        /\ UNCHANGED <<objects, rules, rows>> /\ NextItem(c)
    BY <1>8, AtItem, Disjoint DEF AttachAgain, At, NodeStep, Busy
  <2>2. Settled'
    <3>1. \A e \in Endpoint : objects[e] = rows[e]
      BY <2>1 DEF Solo, On, EndpointPhase
    <3> QED  BY <2>1, <3>1, OffRule DEF Settled
  <2> QED  BY <1>0, <2>1, <2>2, NextItemControl, SoloAtHead
<1> QED  BY <1>1, <1>2, <1>3, <1>4, <1>5, <1>6, <1>7, <1>8 DEF Create

LEMMA DestroySolo ==
  ASSUME TInv, NEW c \in Client, Solo(c), Destroy(c), ~broken'
  PROVE  Solo(c)'
<1> USE DEF TInv
<1>0. AloneIn(c)
  BY DEF Solo
<1>1. CASE Seek(c)
  <2>1. pc[c] = "seek" /\ Busy(c) /\ N(c) \in Node /\ N(c) \notin Rule
        /\ UNCHANGED <<objects, rules, rows>>
    BY <1>1, Disjoint DEF Seek, At, Busy, memory
  <2>2. Settled
    <3>1. \A e \in Endpoint : objects[e] = rows[e]
      BY <2>1 DEF Solo, On, EndpointPhase
    <3> QED  BY <2>1, <3>1, OffRule DEF Settled
  <2>3. Settled'
    BY <2>1, <2>2 DEF Settled
  <2>4. CASE Answer(c)
    BY <1>0, <2>3, <2>4, AnswerControl, SoloAtHead
  <2>5. CASE N(c) \in Present
    <3>1. PICK l \in {"detach", "unlink"} : pc' = [pc EXCEPT ![c] = l]
      BY <1>1, <2>5 DEF Seek
    <3>2. AloneIn(c)' /\ pc'[c] = l /\ Busy(c)'
      BY <1>0, <3>1, Control DEF Busy
    <3>3. todo'[c] = <<I(N(c), objects[N(c)])>>
      BY <1>1, <2>5 DEF Seek, RequestsOK
    <3>4. N(c)' = N(c)
      <4>1. Head(todo'[c]).node = N(c)
        BY <3>3 DEF I
      <4> QED  BY <4>1 DEF N
    <3>5. CASE N(c) \in Endpoint
      <4>1. objects'[N(c)] = rows'[N(c)]
        BY <2>3, <3>5 DEF Settled
      <4>2. objects'[N(c)] # Absent
        BY <2>1, <2>5 DEF Present
      <4>3. EndpointPhase(c, N(c))'
        BY <3>2, <3>4, <4>1, <4>2 DEF EndpointPhase
      <4> QED  BY <2>3, <3>2, <3>4, <3>5, <4>3, SoloEndpoint DEF Settled
    <3>6. CASE N(c) \notin Endpoint
      BY <2>1, <2>3, <3>2, <3>4, <3>6, SoloOff
    <3> QED  BY <3>5, <3>6
  <2> QED  BY <1>1, <2>4, <2>5 DEF Seek
<1>2. CASE Detach(c) \/ DelLink(c)
  <2>1. pc[c] \in {"detach", "unlink"} /\ Busy(c) /\ N(c) \in Node /\ N(c) \notin Rule
        /\ UNCHANGED <<objects, rules, rows>>
    BY <1>2, AtItem, Disjoint DEF Detach, DelLink, At, NodeStep, Busy
  <2>2. Settled'
    <3>1. \A e \in Endpoint : objects[e] = rows[e]
      BY <2>1 DEF Solo, On, EndpointPhase
    <3> QED  BY <2>1, <3>1, OffRule DEF Settled
  <2>3. CASE Answer(c)
    BY <1>0, <2>2, <2>3, AnswerControl, SoloAtHead
  <2>4. CASE ~Answer(c)
    <3>1. PICK l \in {"unlink", "delete", "erase"} : Goto(c, l) /\ (l = "erase" => N(c) \notin Endpoint)
      BY <1>2, <2>4 DEF Detach, DelLink
    <3>2. AloneIn(c)' /\ pc'[c] = l /\ Busy(c)' /\ N(c)' = N(c)
      BY <1>0, <3>1, GotoControl DEF PC
    <3>3. CASE N(c) \in Endpoint
      <4>1. objects[N(c)] # Absent
        BY <2>1, <3>3 DEF Solo, On, EndpointPhase
      <4>2. EndpointPhase(c, N(c))'
        BY <2>1, <2>2, <3>1, <3>2, <3>3, <4>1 DEF EndpointPhase, Settled
      <4> QED  BY <2>2, <3>2, <3>3, <4>2, SoloEndpoint DEF Settled
    <3>4. CASE N(c) \notin Endpoint
      BY <2>1, <2>2, <3>2, <3>4, SoloOff
    <3> QED  BY <3>3, <3>4
  <2> QED  BY <2>3, <2>4
<1>3. CASE DeleteRow(c)
  <2>1. pc[c] = "delete" /\ Busy(c) /\ N(c) \in Node \cup Rule /\ UNCHANGED <<objects, rules>>
        /\ rows' = [rows EXCEPT ![N(c)] = Absent]
    BY <1>3, AtItem DEF DeleteRow, At, Busy, memory
  <2>2. \A e \in Endpoint : e # N(c) => objects'[e] = rows'[e]
    BY <2>1 DEF Solo, On, StoreOK, Node
  <2>3. \A r \in Rule : rules'[r] = 0 => rows'[r] = Absent
    BY <2>1 DEF Solo, On, StoreOK
  <2>4. CASE N(c) \in Rule
    <3>1. Settled'
      BY <2>2, <2>3, <2>4, Disjoint DEF Settled
    <3> QED  BY <1>0, <1>3, <2>4, <3>1, AnswerControl, SoloAtHead DEF DeleteRow
  <2>5. CASE N(c) \notin Rule
    <3>1. AloneIn(c)' /\ pc'[c] = "erase" /\ Busy(c)' /\ N(c)' = N(c)
      BY <1>0, <1>3, <2>5, GotoControl DEF DeleteRow, PC
    <3>2. CASE N(c) \in Endpoint
      <4>1. objects[N(c)] # Absent /\ rows'[N(c)] = Absent
        BY <2>1, <3>2 DEF Solo, On, EndpointPhase, StoreOK
      <4>2. EndpointPhase(c, N(c))'
        BY <2>1, <3>1, <4>1 DEF EndpointPhase
      <4> QED  BY <2>2, <2>3, <3>1, <3>2, <4>2, SoloEndpoint
    <3>3. CASE N(c) \notin Endpoint
      BY <2>2, <2>3, <2>5, <3>1, <3>3, SoloOff DEF Settled
    <3> QED  BY <3>2, <3>3
  <2> QED  BY <2>4, <2>5
<1>4. CASE Erase(c)
  <2>1. pc[c] = "erase" /\ Busy(c) /\ N(c) \in Present /\ N(c) \in Node /\ N(c) \notin Rule
        /\ UNCHANGED <<rules, rows>>
        /\ objects' = [objects EXCEPT ![N(c)] = Absent]
        /\ pc' = [pc EXCEPT ![c] = "idle"]
    BY <1>4, AtItem, Disjoint DEF Erase, At, NodeStep, Busy
  <2>2. Settled'
    <3>1. \A e \in Endpoint : e # N(c) => objects'[e] = rows'[e]
      BY <2>1 DEF Solo, On, StoreOK, Node
    <3>2. N(c) \in Endpoint => objects'[N(c)] = rows'[N(c)]
      BY <2>1 DEF Solo, On, EndpointPhase, StoreOK
    <3> QED  BY <2>1, <3>1, <3>2, OffRule DEF Settled
  <2> QED  BY <1>0, <2>1, <2>2, Control, SoloAtHead
<1>5. CASE PopRule(c)
  <2>1. pc[c] = "seek" /\ Busy(c) /\ N(c) \in Rule /\ N(c) \notin Endpoint
        /\ UNCHANGED <<objects, rows>>
    BY <1>5, Disjoint DEF PopRule, At, Busy
  <2>2. \A e \in Endpoint : objects'[e] = rows'[e]
    BY <2>1, OffEndpoint
  <2>3. \A r \in Rule : rules[r] = 0 => rows[r] = Absent
    BY <2>1 DEF Solo, On, RulePhase
  <2>4. CASE rules[N(c)] = 0
    <3>1. Settled' /\ Answer(c)
      BY <1>5, <2>1, <2>2, <2>3, <2>4 DEF PopRule, Settled
    <3> QED  BY <1>0, <3>1, AnswerControl, SoloAtHead
  <2>5. CASE rules[N(c)] # 0
    <3>1. Goto(c, "delete") /\ rules' = [rules EXCEPT ![N(c)] = rules[N(c)] - 1]
      BY <1>5, <2>5 DEF PopRule
    <3>2. AloneIn(c)' /\ pc'[c] = "delete" /\ Busy(c)' /\ N(c)' = N(c)
      BY <1>0, <3>1, GotoControl DEF PC
    <3>3. RulePhase(c, N(c))'
      BY <3>2 DEF RulePhase
    <3>4. \A q \in Rule : q # N(c) => (rules'[q] = 0 => rows'[q] = Absent)
      BY <2>1, <2>3, <3>1 DEF StoreOK
    <3> QED  BY <2>1, <2>2, <3>2, <3>3, <3>4, SoloRule
  <2> QED  BY <2>4, <2>5
<1> QED  BY <1>1, <1>2, <1>3, <1>4, <1>5 DEF Destroy

LEMMA BeginSolo ==
  ASSUME TInv, NEW c \in Client, Solo(c), Add(c) \/ Del(c)
  PROVE  Solo(c)'
<1>1. ~Busy(c) /\ AloneIn(c) /\ RequestsOK /\ UNCHANGED <<objects, rules, rows>>
  BY DEF Add, Del, Free, At, Busy, Solo, memory, TInv
<1>2. Settled'
  BY <1>1, OffEndpoint, OffRule DEF Settled
<1>3. PICK l \in {"find", "seek"} : pc' = [pc EXCEPT ![c] = l]
  BY DEF Add, Del
<1> QED  BY <1>1, <1>2, <1>3, Control, SoloAtHead

LEMMA RestartSInv ==
  ASSUME TInv, Restart
  PROVE  SInv'
<1>1. \A e \in Endpoint : objects'[e] = rows'[e]
  BY DEF Restart, Node
<1>2. \A r \in Rule : rules'[r] = 0 => rows'[r] = Absent
  BY DEF Restart
<1>3. \A c \in Client : ~Busy(c)'
  BY DEF Restart, Busy
<1> QED  BY <1>1, <1>2, <1>3 DEF SInv, Settled

LEMMA StepSInv == TInv /\ SInv /\ [Next]_vars => SInv'
<1> SUFFICES ASSUME TInv, SInv, [Next]_vars, serial', ~broken' PROVE SInv'
  BY DEF SInv
<1>1. CASE UNCHANGED vars
  <2>1. UNCHANGED <<objects, rules, rows, pc, todo, broken, serial>>
    BY <1>1 DEF vars, memory, request
  <2>2. UNCHANGED <<Settled, SInv>>
    BY <2>1 DEF SInv, Settled, Solo, AloneIn, On, EndpointPhase, RulePhase, Busy, N, P
  <2> QED  BY <2>2
<1>2. ASSUME NEW c \in Client, Add(c) \/ Create(c) \/ Del(c) \/ Destroy(c), UNCHANGED serial
      PROVE  SInv'
  <2>1. ~broken /\ serial
    BY <1>2 DEF Add, Del, Free, Create, Destroy, FindGateway, MasterGateway, Find, Insert, Attach,
                AddLink, PushRule, AddRow, AttachAgain, Seek, Detach, DelLink, DeleteRow, Erase,
                PopRule, At
  <2>2. Busy(c) \/ \A d \in Client : ~Busy(d)
    <3>1. CASE Add(c) \/ Del(c)
      BY <2>1, <3>1 DEF Add, Del, Free, Busy
    <3>2. CASE Create(c) \/ Destroy(c)
      BY <3>2 DEF Create, Destroy, FindGateway, MasterGateway, Find, Insert, Attach, AddLink,
                  PushRule, AddRow, AttachAgain, Seek, Detach, DelLink, DeleteRow, Erase, PopRule,
                  At, Busy
    <3> QED  BY <1>2, <3>1, <3>2
  <2>3. Solo(c)
    BY <2>1, <2>2, Turn
  <2>4. Solo(c)'
    BY <1>2, <2>3, CreateSolo, DestroySolo, BeginSolo
  <2> QED  BY <2>4, AfterTurn
<1> QED  BY <1>1, <1>2, RestartSInv DEF Next

(* As long as requests do not overlap, whatever they are and whenever the   *)
(* program ends, the endpoints are in the map as they are in the table, and *)
(* no rule that is gone has a row: for every number of nodes and clients.   *)
THEOREM EndpointsAreAsStored == Spec => []AsStored
<1>1. SInv => AsStored
  BY DEF SInv, AsStored, Idle, Settled, Busy
<1> QED  BY InitTInv, StepTInv, InitSInv, StepSInv, <1>1, PTL DEF Spec

-----------------------------------------------------------------------------
(* The call that a client has under way, and the rows of the endpoints.     *)
K(o, e, d) == [op |-> o, endpoint |-> e, stage |-> d]

Deleting == {"seek", "detach", "unlink", "delete", "erase"}
Done     == {"attachAgain", "erase"}
Held     == IF serial THEN Endpoint \cap Stored ELSE {}

OnEndpoint(c) == serial /\ Busy(c) /\ N(c) \in Endpoint

LEMMA Calls ==
  ASSUME NEW o \in {"add", "del"}, NEW e \in Endpoint
  PROVE  /\ K(o, e, "begun") \in Store!Call
         /\ K(o, e, "begun") # NoCall /\ K(o, e, "done") # NoCall
         /\ K(o, e, "begun").stage = "begun" /\ K(o, e, "done").stage = "done"
         /\ K(o, e, "begun").op = o /\ K(o, e, "begun").endpoint = e
         /\ [K(o, e, "begun") EXCEPT !.stage = "done"] = K(o, e, "done")
<1>1. \A d \in {"begun", "done"} :
        K(o, e, d) \in [op : {"add", "del"}, endpoint : Endpoint, stage : {"begun", "done"}]
  BY DEF K
<1>2. K(o, e, "begun") # NoCall /\ K(o, e, "done") # NoCall
  BY <1>1, RegistryAssumption
<1> QED  BY <1>1, <1>2 DEF Store!Call, K

LEMMA CallIs ==
  ASSUME NEW c \in Client, TInv
  PROVE  CallOf(c) = IF OnEndpoint(c)
                     THEN K(IF pc[c] \in Deleting THEN "del" ELSE "add", N(c),
                            IF pc[c] \in Done THEN "done" ELSE "begun")
                     ELSE NoCall
BY DEF CallOf, OnEndpoint, K, Deleting, Done, Busy, TInv, RequestsOK

LEMMA CallWillBe ==
  ASSUME NEW c \in Client, TInv'
  PROVE  CallOf(c)' = IF OnEndpoint(c)'
                      THEN K(IF pc'[c] \in Deleting THEN "del" ELSE "add", N(c)',
                             IF pc'[c] \in Done THEN "done" ELSE "begun")
                      ELSE NoCall
BY DEF CallOf, OnEndpoint, K, Deleting, Done, Busy, TInv, RequestsOK

(* What the call of one client does to the rows. *)
Moves(c) ==
  \/ CallOf(c)' = CallOf(c) /\ Held' = Held
  \/ /\ CallOf(c) = NoCall /\ Held' = Held
     /\ \E o \in {"add", "del"}, e \in Endpoint : CallOf(c)' = K(o, e, "begun")
  \/ \E o \in {"add", "del"}, e \in Endpoint :
       /\ CallOf(c) = K(o, e, "begun") /\ CallOf(c)' = K(o, e, "done")
       /\ Held' = IF o = "add" THEN Held \cup {e} ELSE Held \ {e}
  \/ /\ CallOf(c)' = NoCall /\ Held' = Held
     /\ \/ \E e \in Endpoint : CallOf(c) = K("del", e, "begun") /\ e \notin Held
        \/ \E o \in {"add", "del"}, e \in Endpoint : CallOf(c) = K(o, e, "done")

(* A step of one client that moves its call is a step of the ObjectStore.   *)
LEMMA MovesStep ==
  ASSUME NEW c \in Client, Moves(c), \A d \in Client : d # c => CallOf(d)' = CallOf(d)
  PROVE  Store!Next \/ UNCHANGED <<Held, [d \in Client |-> CallOf(d)]>>
<1> DEFINE call == [d \in Client |-> CallOf(d)]
<1>0. /\ call[c] = CallOf(c)
      /\ \A v : CallOf(c)' = v => call' = [call EXCEPT ![c] = v]
  OBVIOUS
<1> HIDE DEF call
<1>1. CASE CallOf(c)' = CallOf(c) /\ Held' = Held
  BY <1>0, <1>1 DEF call
<1>2. CASE /\ CallOf(c) = NoCall /\ Held' = Held
           /\ \E o \in {"add", "del"}, e \in Endpoint : CallOf(c)' = K(o, e, "begun")
  <2>1. PICK o \in {"add", "del"}, e \in Endpoint : CallOf(c)' = K(o, e, "begun")
    BY <1>2
  <2>2. call' = [call EXCEPT ![c] = K(o, e, "begun")] /\ call[c] = NoCall
    BY <1>0, <1>2, <2>1
  <2>3. K(o, e, "begun") \in Store!Call /\ K(o, e, "begun").stage = "begun"
    BY Calls
  <2>4. Store!Begin(c)
    BY <1>2, <2>2, <2>3 DEF Store!Begin, call, Held
  <2> QED  BY <2>4 DEF Store!Next
<1>3. CASE \E o \in {"add", "del"}, e \in Endpoint :
             /\ CallOf(c) = K(o, e, "begun") /\ CallOf(c)' = K(o, e, "done")
             /\ Held' = IF o = "add" THEN Held \cup {e} ELSE Held \ {e}
  <2>1. PICK o \in {"add", "del"}, e \in Endpoint :
             /\ CallOf(c) = K(o, e, "begun") /\ CallOf(c)' = K(o, e, "done")
             /\ Held' = IF o = "add" THEN Held \cup {e} ELSE Held \ {e}
    BY <1>3
  <2>2. call[c] = K(o, e, "begun") /\ call' = [call EXCEPT ![c] = K(o, e, "done")]
    BY <1>0, <2>1
  <2>3. /\ call[c] # NoCall /\ call[c].stage = "begun" /\ call[c].op = o /\ call[c].endpoint = e
        /\ [call[c] EXCEPT !.stage = "done"] = K(o, e, "done")
    BY <2>2, Calls
  <2>4. Store!Commit(c)
    BY <2>1, <2>2, <2>3 DEF Store!Commit, call, Held
  <2> QED  BY <2>4 DEF Store!Next
<1>4. CASE /\ CallOf(c)' = NoCall /\ Held' = Held
           /\ \E e \in Endpoint : CallOf(c) = K("del", e, "begun") /\ e \notin Held
  <2>1. PICK e \in Endpoint : CallOf(c) = K("del", e, "begun") /\ e \notin Held
    BY <1>4
  <2>2. call[c] = K("del", e, "begun") /\ call' = [call EXCEPT ![c] = NoCall]
    BY <1>0, <1>4, <2>1
  <2>3. call[c] # NoCall /\ call[c].op = "del" /\ call[c].endpoint = e
    BY <2>2, Calls
  <2>4. Store!Refuse(c)
    BY <1>4, <2>1, <2>2, <2>3 DEF Store!Refuse, call, Held
  <2> QED  BY <2>4 DEF Store!Next
<1>5. CASE /\ CallOf(c)' = NoCall /\ Held' = Held
           /\ \E o \in {"add", "del"}, e \in Endpoint : CallOf(c) = K(o, e, "done")
  <2>1. PICK o \in {"add", "del"}, e \in Endpoint : CallOf(c) = K(o, e, "done")
    BY <1>5
  <2>2. call[c] = K(o, e, "done") /\ call' = [call EXCEPT ![c] = NoCall]
    BY <1>0, <1>5, <2>1
  <2>3. call[c] # NoCall /\ call[c].stage = "done"
    BY <2>2, Calls
  <2>4. Store!Return(c)
    BY <1>5, <2>2, <2>3 DEF Store!Return, call, Held
  <2> QED  BY <2>4 DEF Store!Next
<1> QED  BY <1>1, <1>2, <1>3, <1>4, <1>5 DEF Moves

(* The four ways in which a step moves a call. *)
LEMMA MovesOff ==
  ASSUME TInv, TInv', NEW c \in Client, Held' = Held, ~OnEndpoint(c),
         OnEndpoint(c)' => pc'[c] \in {"find", "seek"}
  PROVE  Moves(c)
<1>1. CallOf(c) = NoCall
  BY CallIs
<1>2. CASE ~OnEndpoint(c)'
  BY <1>1, <1>2, CallWillBe DEF Moves
<1>3. CASE OnEndpoint(c)'
  <2>1. \E o \in {"add", "del"} : CallOf(c)' = K(o, N(c)', "begun")
    BY <1>3, CallWillBe DEF Done
  <2>2. N(c)' \in Endpoint
    BY <1>3 DEF OnEndpoint
  <2> QED  BY <1>1, <2>1, <2>2 DEF Moves
<1> QED  BY <1>2, <1>3

LEMMA MovesOn ==
  ASSUME TInv, TInv', serial' = serial, NEW c \in Client, Held' = Held, Busy(c), Busy(c)', N(c)' = N(c),
         pc'[c] \in Deleting <=> pc[c] \in Deleting,
         pc'[c] \in Done <=> pc[c] \in Done
  PROVE  Moves(c)
<1>1. OnEndpoint(c)' <=> OnEndpoint(c)
  BY DEF OnEndpoint
<1>2. CallOf(c)' = CallOf(c)
  BY <1>1, CallIs, CallWillBe
<1> QED  BY <1>2 DEF Moves

LEMMA MovesCommit ==
  ASSUME TInv, TInv', serial, serial', NEW c \in Client, N(c) \in Endpoint, N(c)' = N(c),
         NEW o \in {"add", "del"},
         IF o = "add" THEN pc[c] = "row" /\ pc'[c] = "attachAgain"
                      ELSE pc[c] = "delete" /\ pc'[c] = "erase",
         Held' = IF o = "add" THEN Held \cup {N(c)} ELSE Held \ {N(c)}
  PROVE  Moves(c)
<1>1. OnEndpoint(c) /\ OnEndpoint(c)'
  BY DEF OnEndpoint, Busy
<1>2. CallOf(c) = K(o, N(c), "begun")
  BY <1>1, CallIs DEF Deleting, Done
<1>3. CallOf(c)' = K(o, N(c), "done")
  BY <1>1, CallWillBe DEF Deleting, Done
<1> QED  BY <1>2, <1>3 DEF Moves

LEMMA MovesReturn ==
  ASSUME TInv, TInv', serial, NEW c \in Client, N(c) \in Endpoint, Held' = Held, ~Busy(c)',
         pc[c] \in Done \/ (pc[c] = "seek" /\ N(c) \notin Held)
  PROVE  Moves(c)
<1>1. OnEndpoint(c) /\ ~OnEndpoint(c)'
  BY DEF OnEndpoint, Busy, Done
<1>2. CallOf(c)' = NoCall
  BY <1>1, CallWillBe
<1>3. CASE pc[c] \in Done
  <2>1. \E o \in {"add", "del"} : CallOf(c) = K(o, N(c), "done")
    BY <1>1, <1>3, CallIs
  <2> QED  BY <1>2, <2>1 DEF Moves
<1>4. CASE pc[c] = "seek" /\ N(c) \notin Held
  <2>1. CallOf(c) = K("del", N(c), "begun")
    BY <1>1, <1>4, CallIs DEF Deleting, Done
  <2> QED  BY <1>2, <1>4, <2>1 DEF Moves
<1> QED  BY <1>3, <1>4

LEMMA HeldSame ==
  ASSUME serial' = serial, \A e \in Endpoint : rows'[e] = rows[e]
  PROVE  Held' = Held
BY DEF Held, Stored

LEMMA EndpointHeld ==
  ASSUME serial, NEW e \in Endpoint
  PROVE  e \in Held <=> rows[e] # Absent
BY DEF Held, Stored, Node

LEMMA CreateMoves ==
  ASSUME TInv, TInv', serial, serial', NEW c \in Client, Solo(c), Create(c)
  PROVE  Moves(c)
<1> USE DEF TInv
<1>0. AloneIn(c) /\ serial' = serial
  BY DEF Solo, StoreOK
<1>1. CASE FindGateway(c) \/ MasterGateway(c) \/ PushRule(c)
  <2>1. N(c) \notin Endpoint /\ rows' = rows
    BY <1>1, Disjoint DEF FindGateway, MasterGateway, PushRule
  <2>2. Held' = Held
    BY <1>0, <2>1, HeldSame
  <2>3. CASE Answer(c) \/ pc' = pc
    <3>1. pc'[c] \in {"idle", "find"}
      BY <1>0, <1>1, <2>3, AnswerControl DEF FindGateway, MasterGateway, PushRule, At
    <3> QED  BY <2>1, <2>2, <3>1, MovesOff DEF OnEndpoint, Busy
  <2>4. CASE \E l \in {"insert", "row"} : Goto(c, l)
    <3>1. N(c)' = N(c)
      BY <1>0, <2>4, GotoControl DEF PC
    <3> QED  BY <2>1, <2>2, <3>1, MovesOff DEF OnEndpoint
  <2> QED  BY <1>1, <2>3, <2>4 DEF FindGateway, MasterGateway, PushRule
<1>2. CASE Find(c) \/ Attach(c) \/ AddLink(c)
  <2>1. rows' = rows /\ pc[c] \in {"find", "attach", "link"} /\ Busy(c)
    BY <1>2 DEF Find, Attach, AddLink, At, Busy
  <2>2. PICK l \in {"insert", "link", "row"} : Goto(c, l)
    BY <1>2 DEF Find, Attach, AddLink
  <2>3. pc'[c] = l /\ Busy(c)' /\ N(c)' = N(c)
    BY <1>0, <2>2, GotoControl DEF PC
  <2> QED  BY <1>0, <2>1, <2>3, HeldSame, MovesOn DEF Deleting, Done
<1>3. CASE Insert(c)
  <2>1. rows' = rows /\ pc[c] = "insert" /\ Busy(c)
    BY <1>3 DEF Insert, At, Busy
  <2>2. PICK l \in {"attach", "link"} : pc' = [pc EXCEPT ![c] = l]
    BY <1>3 DEF Insert
  <2>3. pc'[c] = l /\ Busy(c)' /\ N(c)' = N(c)
    BY <1>0, <1>3, <2>2, Control DEF Insert, N, Busy
  <2> QED  BY <1>0, <2>1, <2>3, HeldSame, MovesOn DEF Deleting, Done
<1>4. CASE AddRow(c)
  <2>1. pc[c] = "row" /\ Busy(c) /\ P(c) \in Parent
    BY <1>4, AtItem DEF AddRow, At, Busy
  <2>2. P(c) # Absent
    BY <2>1, RegistryAssumption DEF Parent, Node
  <2>3. \A n \in Node \cup Rule : n # N(c) => rows'[n] = rows[n]
    BY <1>4 DEF AddRow, StoreOK
  <2>4. CASE N(c) \in Endpoint
    <3>1. pc'[c] = "attachAgain" /\ N(c)' = N(c)
      BY <1>0, <1>4, <2>4, GotoControl DEF AddRow, PC
    <3>2. rows'[N(c)] # Absent
      BY <1>4, <2>2, <2>4 DEF AddRow, StoreOK, Node
    <3>3. Held' = Held \cup {N(c)}
      BY <2>3, <2>4, <3>2 DEF Held, Stored, Node
    <3> QED  BY <2>1, <2>4, <3>1, <3>3, MovesCommit
  <2>5. CASE N(c) \notin Endpoint
    <3>1. Held' = Held
      BY <1>0, <2>3, <2>5, HeldSame DEF Node
    <3>2. CASE Goto(c, "attachAgain")
      BY <1>0, <2>5, <3>1, <3>2, GotoControl, MovesOff DEF OnEndpoint, PC
    <3>3. CASE NextItem(c)
      BY <1>0, <2>5, <3>1, <3>3, NextItemControl, MovesOff DEF OnEndpoint, Busy
    <3> QED  BY <1>4, <3>2, <3>3 DEF AddRow
  <2> QED  BY <2>4, <2>5
<1>5. CASE AttachAgain(c)
  <2>1. rows' = rows /\ pc[c] = "attachAgain" /\ Busy(c) /\ NextItem(c)
    BY <1>5 DEF AttachAgain, At, Busy
  <2>2. Held' = Held
    BY <1>0, <2>1, HeldSame
  <2>3. CASE N(c) \in Endpoint
    <3>1. Answer(c)
      BY <2>1, <2>3, AtItem DEF NextItem
    <3> QED  BY <1>0, <2>1, <2>2, <2>3, <3>1, AnswerControl, MovesReturn DEF Busy, Done
  <2>4. CASE N(c) \notin Endpoint
    BY <1>0, <2>1, <2>2, <2>4, NextItemControl, MovesOff DEF OnEndpoint, Busy
  <2> QED  BY <2>3, <2>4
<1> QED  BY <1>1, <1>2, <1>3, <1>4, <1>5 DEF Create

LEMMA DestroyMoves ==
  ASSUME TInv, TInv', serial, serial', NEW c \in Client, Solo(c), Destroy(c)
  PROVE  Moves(c)
<1> USE DEF TInv
<1>0. AloneIn(c) /\ serial' = serial
  BY DEF Solo, StoreOK
<1>1. CASE Seek(c)
  <2>1. rows' = rows /\ pc[c] = "seek" /\ Busy(c) /\ N(c) \in Node
    BY <1>1 DEF Seek, At, Busy
  <2>2. Held' = Held
    BY <1>0, <2>1, HeldSame
  <2>3. CASE N(c) \in Present
    <3>1. PICK l \in {"detach", "unlink"} : pc' = [pc EXCEPT ![c] = l]
      BY <1>1, <2>3 DEF Seek
    <3>2. pc'[c] = l /\ Busy(c)'
      BY <1>0, <3>1, Control DEF Busy
    <3>3. todo'[c] = <<I(N(c), objects[N(c)])>>
      BY <1>1, <2>3 DEF Seek, RequestsOK
    <3>4. Head(todo'[c]).node = N(c)
      BY <3>3 DEF I
    <3>5. N(c)' = N(c)
      BY <3>4 DEF N
    <3> QED  BY <1>0, <2>1, <2>2, <3>2, <3>5, MovesOn DEF Deleting, Done
  <2>4. CASE N(c) \notin Present
    <3>1. ~Busy(c)'
      BY <1>0, <1>1, <2>4, AnswerControl DEF Seek, Busy
    <3>2. N(c) \in Endpoint => N(c) \notin Held
      <4>1. N(c) \in Endpoint => objects[N(c)] = rows[N(c)]
        BY <2>1 DEF Solo, On, EndpointPhase
      <4>2. objects[N(c)] = Absent
        BY <2>1, <2>4 DEF Present
      <4> QED  BY <4>1, <4>2, EndpointHeld
    <3>3. CASE N(c) \in Endpoint
      BY <2>1, <2>2, <3>1, <3>2, <3>3, MovesReturn
    <3>4. CASE N(c) \notin Endpoint
      BY <2>2, <3>1, <3>4, MovesOff DEF OnEndpoint
    <3> QED  BY <3>3, <3>4
  <2> QED  BY <2>3, <2>4
<1>2. CASE Detach(c) \/ DelLink(c)
  <2>1. rows' = rows /\ pc[c] \in {"detach", "unlink"} /\ Busy(c) /\ N(c) \in Node
    BY <1>2, AtItem DEF Detach, DelLink, At, Busy, NodeStep
  <2>2. Held' = Held
    BY <1>0, <2>1, HeldSame
  <2>3. CASE N(c) \in Endpoint
    <3>1. N(c) \in Present
      BY <2>1, <2>3 DEF Solo, On, EndpointPhase, Present
    <3>2. PICK l \in {"unlink", "delete"} : Goto(c, l)
      BY <1>2, <2>3, <3>1 DEF Detach, DelLink
    <3>3. pc'[c] = l /\ Busy(c)' /\ N(c)' = N(c)
      BY <1>0, <3>2, GotoControl DEF PC
    <3> QED  BY <1>0, <2>1, <2>2, <3>3, MovesOn DEF Deleting, Done
  <2>4. CASE N(c) \notin Endpoint
    <3>1. Answer(c) \/ \E l \in {"unlink", "delete", "erase"} : Goto(c, l)
      BY <1>2 DEF Detach, DelLink
    <3>2. ~Busy(c)' \/ N(c)' = N(c)
      BY <1>0, <3>1, GotoControl, AnswerControl DEF PC, Busy
    <3> QED  BY <2>2, <2>4, <3>2, MovesOff DEF OnEndpoint
  <2> QED  BY <2>3, <2>4
<1>3. CASE DeleteRow(c)
  <2>1. pc[c] = "delete" /\ Busy(c) /\ N(c) \in Node \cup Rule
        /\ rows' = [rows EXCEPT ![N(c)] = Absent]
    BY <1>3, AtItem DEF DeleteRow, At, Busy
  <2>2. CASE N(c) \in Endpoint
    <3>1. pc'[c] = "erase" /\ N(c)' = N(c)
      BY <1>0, <1>3, <2>2, Disjoint, GotoControl DEF DeleteRow, PC
    <3>2. Held' = Held \ {N(c)}
      BY <2>1, <2>2 DEF Held, Stored, Node, StoreOK
    <3> QED  BY <2>1, <2>2, <3>1, <3>2, MovesCommit
  <2>3. CASE N(c) \notin Endpoint
    <3>1. Held' = Held
      BY <1>0, <2>1, <2>3, HeldSame DEF StoreOK, Node
    <3>2. Answer(c) \/ Goto(c, "erase")
      BY <1>3 DEF DeleteRow
    <3>3. ~Busy(c)' \/ N(c)' = N(c)
      BY <1>0, <3>2, GotoControl, AnswerControl DEF PC, Busy
    <3> QED  BY <2>3, <3>1, <3>3, MovesOff DEF OnEndpoint
  <2> QED  BY <2>2, <2>3
<1>4. CASE Erase(c)
  <2>1. rows' = rows /\ pc[c] = "erase" /\ pc' = [pc EXCEPT ![c] = "idle"]
    BY <1>4 DEF Erase, At
  <2>2. Held' = Held /\ ~Busy(c)'
    BY <1>0, <2>1, HeldSame, Control DEF Busy
  <2> QED  BY <2>1, <2>2, MovesReturn, MovesOff DEF OnEndpoint, Done
<1>5. CASE PopRule(c)
  <2>1. rows' = rows /\ N(c) \notin Endpoint
    BY <1>5, Disjoint DEF PopRule
  <2>2. Answer(c) \/ Goto(c, "delete")
    BY <1>5 DEF PopRule
  <2>3. ~Busy(c)' \/ N(c)' = N(c)
    BY <1>0, <2>2, GotoControl, AnswerControl DEF PC, Busy
  <2> QED  BY <1>0, <2>1, <2>3, HeldSame, MovesOff DEF OnEndpoint
<1> QED  BY <1>1, <1>2, <1>3, <1>4, <1>5 DEF Destroy

LEMMA BeginMoves ==
  ASSUME TInv, TInv', serial, serial', NEW c \in Client, Solo(c), Add(c) \/ Del(c)
  PROVE  Moves(c)
<1>1. ~Busy(c) /\ AloneIn(c) /\ RequestsOK /\ rows' = rows /\ serial' = serial
  BY DEF Add, Del, Free, At, Busy, Solo, TInv, StoreOK
<1>2. PICK l \in {"find", "seek"} : pc' = [pc EXCEPT ![c] = l]
  BY DEF Add, Del
<1>3. pc'[c] = l
  BY <1>1, <1>2, Control
<1> QED  BY <1>1, <1>3, HeldSame, MovesOff DEF OnEndpoint

(* The other clients' calls stand still. *)
LEMMA OthersStay ==
  ASSUME TInv, serial' = serial, NEW c \in Client, Add(c) \/ Create(c) \/ Del(c) \/ Destroy(c)
  PROVE  \A d \in Client : d # c => CallOf(d)' = CallOf(d)
<1>1. \A d \in Client : d # c => pc'[d] = pc[d] /\ todo'[d] = todo[d]
  BY DEF Add, Create, Del, Destroy, FindGateway, MasterGateway, Find, Insert, Attach, AddLink,
         PushRule, AddRow, AttachAgain, Seek, Detach, DelLink, DeleteRow, Erase, PopRule, Answer,
         Goto, NextItem, TInv, RequestsOK
<1> QED  BY <1>1 DEF CallOf, N

LEMMA StepStore ==
  TInv /\ TInv' /\ SInv /\ [Next]_vars
    => Store!Next \/ UNCHANGED <<Held, [c \in Client |-> CallOf(c)]>>
<1> SUFFICES ASSUME TInv, TInv', SInv, [Next]_vars
             PROVE  Store!Next \/ UNCHANGED <<Held, [c \in Client |-> CallOf(c)]>>
  OBVIOUS
<1>1. CASE UNCHANGED vars
  <2>1. UNCHANGED <<rows, serial>> /\ UNCHANGED <<pc, todo>>
    BY <1>1 DEF vars, request
  <2> QED  BY <2>1 DEF Held, Stored, CallOf, N
<1>2. CASE Next /\ ~serial
  <2>1. ~serial'
    BY <1>2 DEF Next
  <2> QED  BY <1>2, <2>1 DEF Held, CallOf
<1>3. ASSUME serial, serial',
             NEW c \in Client, Add(c) \/ Create(c) \/ Del(c) \/ Destroy(c)
      PROVE  Store!Next \/ UNCHANGED <<Held, [d \in Client |-> CallOf(d)]>>
  <2>1. ~broken
    BY <1>3 DEF Add, Del, Free, Create, Destroy, FindGateway, MasterGateway, Find, Insert, Attach,
                AddLink, PushRule, AddRow, AttachAgain, Seek, Detach, DelLink, DeleteRow, Erase,
                PopRule, At
  <2>2. Busy(c) \/ \A d \in Client : ~Busy(d)
    <3>1. CASE Add(c) \/ Del(c)
      BY <1>3, <3>1 DEF Add, Del, Free, Busy
    <3>2. CASE Create(c) \/ Destroy(c)
      BY <3>2 DEF Create, Destroy, FindGateway, MasterGateway, Find, Insert, Attach, AddLink,
                  PushRule, AddRow, AttachAgain, Seek, Detach, DelLink, DeleteRow, Erase, PopRule,
                  At, Busy
    <3> QED  BY <1>3, <3>1, <3>2
  <2>3. Solo(c)
    BY <1>3, <2>1, <2>2, Turn
  <2>4. Moves(c)
    BY <1>3, <2>3, CreateMoves, DestroyMoves, BeginMoves
  <2>5. serial' = serial
    BY <1>3 DEF TInv, StoreOK
  <2> QED  BY <1>3, <2>4, <2>5, OthersStay, MovesStep
<1>4. CASE Restart /\ serial' = serial
  <2>1. Held' = Held
    BY <1>4, HeldSame DEF Restart
  <2>2. \A c \in Client : CallOf(c)' = NoCall
    BY <1>4 DEF Restart, CallOf
  <2>3. Store!Crash
    BY <2>1, <2>2 DEF Store!Crash, Held
  <2> QED  BY <2>3 DEF Store!Next
<1> QED  BY <1>1, <1>2, <1>3, <1>4 DEF Next, TInv, StoreOK

LEMMA InitStore == Init => Store!Init
<1> SUFFICES ASSUME Init PROVE Store!Init
  OBVIOUS
<1>1. Held = {}
  BY DEF Init, Held, Stored
<1>2. \A c \in Client : CallOf(c) = NoCall
  BY DEF Init, CallOf
<1> QED  BY <1>1, <1>2 DEF Store!Init, Held

(* The requests of a gateway that come one after the other create and       *)
(* destroy its endpoints as an ObjectStore does, whenever the program ends. *)
THEOREM RegistryIsAStore == Spec => ImplementsStore
<1>1. TInv /\ TInv' /\ SInv /\ [Next]_vars
        => [Store!Next]_<<IF serial THEN Endpoint \cap Stored ELSE {},
                          [c \in Client |-> CallOf(c)]>>
  BY StepStore DEF Held
<1> QED  BY InitTInv, StepTInv, InitSInv, StepSInv, InitStore, <1>1, PTL
         DEF Spec, ImplementsStore, Store!Spec

-----------------------------------------------------------------------------
(* Requests of any number of clients, overlapping.  A node of the maps that *)
(* has no row, or no link, has a client under way that gives it one or      *)
(* takes the node out.                                                      *)
RowSteps  == {"attach", "link", "row", "erase"}
LinkSteps == {"attach", "link", "delete", "erase"}

Comes(n, steps) == \E c \in Client : pc[c] \in steps /\ N(c) = n

KeptInv  == ~broken => \A n \in Present : rows[n] # Absent \/ Comes(n, RowSteps)
HeardInv == ~broken => \A n \in Present : n \in links \/ Comes(n, LinkSteps)

(* A step of a request disturbs no other client, and no other node.         *)
LEMMA OthersAside ==
  ASSUME TInv, NEW c \in Client, Create(c) \/ Destroy(c) \/ Add(c) \/ Del(c)
  PROVE  \A d \in Client : d # c => pc'[d] = pc[d] /\ N(d)' = N(d)
BY DEF TInv, RequestsOK, N, Goto, Answer, NextItem, Add, Del, Create, Destroy, FindGateway,
       MasterGateway, Find, Insert, Attach, AddLink, PushRule, AddRow, AttachAgain, Seek, Detach,
       DelLink, DeleteRow, Erase, PopRule

LEMMA NodesAside ==
  ASSUME TInv, NEW c \in Client, Create(c) \/ Destroy(c), NEW n \in Node, n # N(c)
  PROVE  objects'[n] = objects[n] /\ rows'[n] = rows[n] /\ (n \in links' <=> n \in links)
BY DEF TInv, StoreOK, memory, Create, Destroy, FindGateway,
       MasterGateway, Find, Insert, Attach, AddLink, PushRule, AddRow, AttachAgain, Seek, Detach,
       DelLink, DeleteRow, Erase, PopRule

(* A client that was not bringing it does not take it back.                 *)
LEMMA StillComes ==
  ASSUME TInv, NEW c \in Client, Create(c) \/ Destroy(c) \/ Add(c) \/ Del(c),
         NEW n, NEW S, Comes(n, S), pc[c] \notin S \/ N(c) # n
  PROVE  Comes(n, S)'
BY OthersAside DEF Comes

(* What a step of a request does with the node it is at.                    *)
LEMMA OwnRow ==
  ASSUME TInv, NEW c \in Client, Create(c) \/ Destroy(c), NEW n \in Node, N(c) = n,
         n \in Present', ~broken'
  PROVE  \/ n \in Present /\ pc[c] \notin RowSteps /\ rows'[n] = rows[n]
         \/ rows'[n] # Absent
         \/ Comes(n, RowSteps)'
<1> USE DEF TInv
<1>0. n \notin Rule
  BY Disjoint
<1>1. CASE FindGateway(c) \/ MasterGateway(c) \/ Find(c) \/ AttachAgain(c) \/ Seek(c)
             \/ Detach(c) \/ PushRule(c) \/ PopRule(c)
  BY <1>0, <1>1 DEF FindGateway, MasterGateway, Find, AttachAgain, Seek, Detach, PushRule, PopRule,
                    At, RowSteps, Present, memory
<1>2. CASE Insert(c) \/ Attach(c) \/ AddLink(c)
  <2>1. pc'[c] \in RowSteps /\ N(c)' = n
    BY <1>2 DEF Insert, Attach, AddLink, Goto, RequestsOK, RowSteps, N
  <2> QED  BY <2>1 DEF Comes
<1>3. CASE AddRow(c)
  <2>1. P(c) \in Parent
    BY <1>3, AtItem DEF AddRow, At, Busy
  <2>2. P(c) # Absent
    BY <2>1, RegistryAssumption DEF Parent, Node
  <2> QED  BY <1>3, <2>2 DEF AddRow, StoreOK
<1>4. CASE DelLink(c)
  <2>1. pc[c] \notin RowSteps /\ rows' = rows /\ objects' = objects
    BY <1>4 DEF DelLink, At, RowSteps
  <2> QED  BY <2>1 DEF Present
<1>5. CASE DeleteRow(c)
  <2>1. pc'[c] \in RowSteps /\ N(c)' = n
    BY <1>0, <1>5 DEF DeleteRow, Goto, RequestsOK, RowSteps, N
  <2> QED  BY <2>1 DEF Comes
<1>6. CASE Erase(c)
  BY <1>6 DEF Erase, StoreOK, Present
<1> QED  BY <1>1, <1>2, <1>3, <1>4, <1>5, <1>6 DEF Create, Destroy

LEMMA OwnLink ==
  ASSUME TInv, NEW c \in Client, Create(c) \/ Destroy(c), NEW n \in Node, N(c) = n,
         n \in Present', ~broken'
  PROVE  \/ n \in Present /\ pc[c] \notin LinkSteps /\ links' = links
         \/ n \in links'
         \/ Comes(n, LinkSteps)'
<1> USE DEF TInv
<1>0. n \notin Rule
  BY Disjoint
<1>1. CASE FindGateway(c) \/ MasterGateway(c) \/ Find(c) \/ AddRow(c) \/ AttachAgain(c) \/ Seek(c)
             \/ Detach(c) \/ PushRule(c) \/ PopRule(c)
  BY <1>0, <1>1 DEF FindGateway, MasterGateway, Find, AddRow, AttachAgain, Seek, Detach, PushRule,
                    PopRule, At, LinkSteps, Present, memory
<1>2. CASE Insert(c) \/ Attach(c)
  <2>1. pc'[c] \in LinkSteps /\ N(c)' = n
    BY <1>2 DEF Insert, Attach, Goto, RequestsOK, LinkSteps, N
  <2> QED  BY <2>1 DEF Comes
<1>3. CASE AddLink(c)
  BY <1>3 DEF AddLink
<1>4. CASE DelLink(c)
  <2>1. CASE n \in Present
    <3>1. pc'[c] \in LinkSteps /\ N(c)' = n
      BY <1>4, <2>1 DEF DelLink, Goto, RequestsOK, LinkSteps, N
    <3> QED  BY <3>1 DEF Comes
  <2>2. CASE n \notin Present
    BY <1>4, <2>2 DEF DelLink, Present
  <2> QED  BY <2>1, <2>2
<1>5. CASE DeleteRow(c)
  <2>1. pc'[c] \in LinkSteps /\ N(c)' = n
    BY <1>0, <1>5 DEF DeleteRow, Goto, RequestsOK, LinkSteps, N
  <2> QED  BY <2>1 DEF Comes
<1>6. CASE Erase(c)
  BY <1>6 DEF Erase, StoreOK, Present
<1> QED  BY <1>1, <1>2, <1>3, <1>4, <1>5, <1>6 DEF Create, Destroy

LEMMA StepKeeps ==
  ASSUME TInv, KeptInv, HeardInv,
         NEW c \in Client, Create(c) \/ Destroy(c) \/ Add(c) \/ Del(c)
  PROVE  KeptInv' /\ HeardInv'
<1>1. ~broken
  BY DEF Add, Del, Free, Create, Destroy, FindGateway, MasterGateway, Find, Insert, Attach,
         AddLink, PushRule, AddRow, AttachAgain, Seek, Detach, DelLink, DeleteRow, Erase, PopRule,
         At
<1>2. CASE Add(c) \/ Del(c)
  <2>1. pc[c] = "idle" /\ UNCHANGED <<objects, rows, links>>
    BY <1>2 DEF Add, Del, Free, At, memory
  <2>2. pc[c] \notin RowSteps /\ pc[c] \notin LinkSteps
    BY <2>1 DEF RowSteps, LinkSteps
  <2> QED  BY <1>1, <2>1, <2>2, StillComes DEF KeptInv, HeardInv, Present
<1>3. CASE Create(c) \/ Destroy(c)
  <2>1. ASSUME NEW n \in Present', ~broken'
        PROVE  rows'[n] # Absent \/ Comes(n, RowSteps)'
    <3>0. n \in Node
      BY DEF Present
    <3>1. CASE N(c) # n
      <4>1. n \in Present /\ rows'[n] = rows[n]
        BY <1>3, <3>0, <3>1, NodesAside DEF Present
      <4> QED  BY <1>1, <1>3, <3>1, <4>1, StillComes DEF KeptInv
    <3>2. CASE N(c) = n
      BY <1>1, <1>3, <2>1, <3>0, <3>2, OwnRow, StillComes DEF KeptInv
    <3> QED  BY <3>1, <3>2
  <2>2. ASSUME NEW n \in Present', ~broken'
        PROVE  n \in links' \/ Comes(n, LinkSteps)'
    <3>0. n \in Node
      BY DEF Present
    <3>1. CASE N(c) # n
      <4>1. n \in Present /\ (n \in links' <=> n \in links)
        BY <1>3, <3>0, <3>1, NodesAside DEF Present
      <4> QED  BY <1>1, <1>3, <3>1, <4>1, StillComes DEF HeardInv
    <3>2. CASE N(c) = n
      BY <1>1, <1>3, <2>2, <3>0, <3>2, OwnLink, StillComes DEF HeardInv
    <3> QED  BY <3>1, <3>2
  <2> QED  BY <2>1, <2>2 DEF KeptInv, HeardInv
<1> QED  BY <1>2, <1>3

(* The inductive invariant behind Kept and Heard. *)
KInv == TInv /\ KeptInv /\ HeardInv

LEMMA InitKInv == Init => KInv
  BY InitTInv DEF Init, KInv, KeptInv, HeardInv, Present

LEMMA StepKInv == KInv /\ [Next]_vars => KInv'
<1> SUFFICES ASSUME KInv, [Next]_vars PROVE KeptInv' /\ HeardInv'
  BY StepTInv DEF KInv
<1> USE DEF KInv
<1>1. CASE UNCHANGED vars
  <2>1. UNCHANGED <<objects, links, rows, pc, todo, broken>>
    BY <1>1 DEF vars, memory, request
  <2> QED  BY <2>1 DEF KeptInv, HeardInv, Comes, Present, N
<1>2. CASE Restart
  BY <1>2 DEF Restart, KeptInv, HeardInv, Present, Stored
<1> QED  BY <1>1, <1>2, StepKeeps DEF Next

(* However the requests of however many clients cross, as long as none used *)
(* what another deleted, a node in the maps is kept for the next start.     *)
THEOREM NodesAreKept == Spec => []Kept
<1>1. KInv => Kept
  BY DEF KInv, KeptInv, Kept, Idle, Comes, RowSteps
<1> QED  BY InitKInv, StepKInv, <1>1, PTL DEF Spec

(* Nor does it lose its down link to a request for the same ID.             *)
THEOREM NodesHear == Spec => []Heard
<1>1. KInv => Heard
  BY DEF KInv, HeardInv, Heard, Idle, Comes, LinkSteps
<1> QED  BY InitKInv, StepKInv, <1>1, PTL DEF Spec

=============================================================================
