------------------------------ MODULE Registry ------------------------------
(***************************************************************************)
(* The registry of gateways, devices, endpoints and rules: the maps of the *)
(* ObjectManager, the lists of children that gateways and devices keep,    *)
(* the down links of the server linker, and the rows of the DataManager    *)
(* from which all of them are made again at the next start                 *)
(* (lib/object_manager.cpp, lib/data_manager.cpp, lib/gateway.cpp,         *)
(* lib/device.cpp, lib/rule_manager.cpp).  Requests to create and destroy  *)
(* come through RCSServer::Add and Del, on the linker's thread one after   *)
(* the other, and on the thread of every RCS session.  Nothing is locked.  *)
(*                                                                         *)
(* A request is a sequence of objects, each with its parent: a gateway may *)
(* come with a device and that with an endpoint.  An object is known by    *)
(* its parent; the other properties are PropertyStore's.  One access to a  *)
(* map is a step; two at the very same time, undefined behaviour, are not  *)
(* modelled.  The use of an object that another request deleted is: it     *)
(* sets broken, where the model ends; who holds what is exact for two      *)
(* clients.  Destroyed objects are taken to be stopped.                    *)
(***************************************************************************)
EXTENDS Integers, Sequences

CONSTANTS
  Client,     (* the threads that serve requests                            *)
  Gateway, Device, Endpoint, Rule,
  NoParent, Absent, NoCall,
  MaxCopies   (* bound on rules of one ID                                   *)

Node == Gateway \cup Device \cup Endpoint

ASSUME RegistryAssumption ==
  /\ Gateway \cap Device = {} /\ Gateway \cap Endpoint = {} /\ Device \cap Endpoint = {}
  /\ Rule \cap Node = {}
  /\ NoParent \notin Node /\ Absent \notin Node /\ Absent # NoParent
  /\ NoCall \notin [op : {"add", "del"}, endpoint : Endpoint, stage : {"begun", "done"}]
  /\ MaxCopies \in Nat \ {0}

VARIABLES
  objects,  (* gateway_map_, device_map_, endpoint_map_: the parents        *)
  list,     (* device_id_list_ of a gateway, epid_list_ of a device         *)
  links,    (* nodes with a down link                                       *)
  rules,    (* how many rules of each ID the RuleManager has                *)
  rows,     (* the tables                                                   *)
  pc,       (* where each client is in its request                          *)
  todo,     (* what is left of the request                                  *)
  mine,     (* nodes whose object in the map the client holds a pointer to  *)
  broken,   (* a deleted object was used                                    *)
  serial    (* the requests of this gateway come one after the other        *)

memory  == <<objects, list, links, rules>>
request == <<pc, todo, mine>>
vars    == <<memory, rows, request, broken, serial>>

Parent == Gateway \cup Device \cup {NoParent}
Item   == [node : Node \cup Rule, parent : Parent]
PC     == {"idle",
           "find", "insert", "attach", "link", "row", "attachAgain",
           "seek", "detach", "unlink", "delete", "erase"}

TypeOK ==
  /\ objects \in [Node -> Parent \cup {Absent}]
  /\ list \in [Gateway \cup Device -> SUBSET Node]
  /\ links \subseteq Node
  /\ rules \in [Rule -> 0..MaxCopies]
  /\ rows \in [Node \cup Rule -> Parent \cup {Absent}]
  /\ pc \in [Client -> PC]
  /\ todo \in [Client -> Seq(Item)]
  /\ \A c \in Client : pc[c] = "idle" <=> todo[c] = << >>
  /\ mine \in [Client -> SUBSET Node]
  /\ broken \in BOOLEAN
  /\ serial \in BOOLEAN

Init ==
  /\ objects = [n \in Node |-> Absent]
  /\ list = [p \in Gateway \cup Device |-> {}]
  /\ links = {}
  /\ rules = [r \in Rule |-> 0]
  /\ rows = [n \in Node \cup Rule |-> Absent]
  /\ pc = [c \in Client |-> "idle"]
  /\ todo = [c \in Client |-> << >>]
  /\ mine = [c \in Client |-> {}]
  /\ broken = FALSE
  /\ serial \in BOOLEAN

-----------------------------------------------------------------------------
Present == {n \in Node : objects[n] # Absent}

(* What the client is at. *)
N(c) == Head(todo[c]).node
P(c) == Head(todo[c]).parent

At(c, l)   == ~broken /\ pc[c] = l
Free(c)    == At(c, "idle") /\ (serial => \A d \in Client : pc[d] = "idle")
Goto(c, l) == pc' = [pc EXCEPT ![c] = l] /\ UNCHANGED <<todo, mine>>

(* The request is answered.                                                 *)
Answer(c) ==
  /\ pc' = [pc EXCEPT ![c] = "idle"]
  /\ todo' = [todo EXCEPT ![c] = << >>]
  /\ mine' = [mine EXCEPT ![c] = {}]

(* On to the next object of the request.                                    *)
NextItem(c) ==
  IF Tail(todo[c]) = << >> THEN Answer(c)
  ELSE /\ pc' = [pc EXCEPT ![c] = "find"]
       /\ todo' = [todo EXCEPT ![c] = Tail(@)]
       /\ UNCHANGED mine

(* Gateway::Attach and Device::Attach add a child once; a parent that is    *)
(* not there is passed over.                                                *)
Attached(n, p) == IF p \in Present \ Endpoint THEN [list EXCEPT ![p] = @ \cup {n}] ELSE list

-----------------------------------------------------------------------------
(* RCSServer::Add.  A gateway may bring a device, a device an endpoint; the *)
(* parent of a device may be left to the gateway.                           *)
I(n, p) == [node |-> n, parent |-> p]

EndpointsOf(d) == {<< >>} \cup {<<I(e, d)>> : e \in Endpoint}
DeviceUnder(p) == UNION {{<<I(d, p)>> \o r : r \in EndpointsOf(d)} : d \in Device}
DevicesOf(g)   == {<< >>} \cup DeviceUnder(g)

AddRequest ==
  (UNION {{<<I(g, NoParent)>> \o r : r \in DevicesOf(g)} : g \in Gateway})
    \cup (UNION {DeviceUnder(p) : p \in Gateway \cup {NoParent}})
    \cup {<<I(e, d)>> : e \in Endpoint, d \in Device}
    \cup {<<I(r, NoParent)>> : r \in {q \in Rule : rules[q] < MaxCopies}}

Add(c) ==
  /\ Free(c)
  /\ \E r \in AddRequest : todo' = [todo EXCEPT ![c] = r]
  /\ pc' = [pc EXCEPT ![c] = "find"]
  /\ UNCHANGED <<memory, rows, mine, broken>>
(* A gateway that is there already fails the request; the new object of a   *)
(* device or an endpoint that is there is left out of the map, but not of   *)
(* what follows.                                                            *)
FindGateway(c) ==
  /\ At(c, "find")
  /\ N(c) \in Gateway
  /\ IF N(c) \in Present THEN Answer(c) ELSE Goto(c, "insert")
  /\ UNCHANGED <<memory, rows, broken>>

MasterGateway(c) ==
  /\ At(c, "find")
  /\ N(c) \in Device
  /\ P(c) = NoParent
  /\ \/ /\ Gateway \cap Present = {}
        /\ Answer(c)
     \/ /\ \E g \in Gateway \cap Present :
             todo' = [todo EXCEPT ![c] = <<I(N(c), g)>> \o Tail(@)]
        /\ UNCHANGED <<pc, mine>>
  /\ UNCHANGED <<memory, rows, broken>>

Find(c) ==
  /\ At(c, "find")
  /\ N(c) \in Device \cup Endpoint
  /\ P(c) # NoParent
  /\ Goto(c, IF N(c) \in Present THEN "row" ELSE "insert")
  /\ UNCHANGED <<memory, rows, broken>>

(* An object that came into the map since is overwritten, and leaks.        *)
Insert(c) ==
  /\ At(c, "insert")
  /\ objects' = [objects EXCEPT ![N(c)] = P(c)]
  /\ list' = [p \in Gateway \cup Device |-> IF p = N(c) THEN {} ELSE list[p]]
  /\ mine' = [d \in Client |-> IF d = c THEN mine[c] \cup {N(c)} ELSE mine[d] \ {N(c)}]
  /\ pc' = [pc EXCEPT ![c] = IF N(c) \in Endpoint THEN "attach" ELSE "link"]
  /\ UNCHANGED <<links, rules, rows, todo, broken>>

Attach(c) ==
  /\ At(c, "attach")
  /\ list' = Attached(N(c), P(c))
  /\ Goto(c, "link")
  /\ UNCHANGED <<objects, links, rules, rows, broken>>
(* Mutant: a node that has a row is taken to have its link.                  *)
AddLinkOnce(c) ==
  /\ At(c, "link")
  /\ links' = IF rows[N(c)] = Absent THEN links \cup {N(c)} ELSE links
  /\ Goto(c, "row")
  /\ UNCHANGED <<objects, list, rules, rows, broken>>

AddLink(c) ==
  /\ At(c, "link")
  /\ links' = links \cup {N(c)}
  /\ Goto(c, "row")
  /\ UNCHANGED <<objects, list, rules, rows, broken>>

(* A rule is added whether there is one of its ID or not.                   *)
PushRule(c) ==
  /\ At(c, "find")
  /\ N(c) \in Rule
  /\ rules[N(c)] < MaxCopies
  /\ rules' = [rules EXCEPT ![N(c)] = @ + 1]
  /\ Goto(c, "row")
  /\ UNCHANGED <<objects, list, links, rows, broken>>

(* Table::Add leaves a row that there is as it is.                          *)
AddRow(c) ==
  /\ At(c, "row")
  /\ rows' = IF rows[N(c)] = Absent THEN [rows EXCEPT ![N(c)] = P(c)] ELSE rows
  /\ IF N(c) \in Device \cup Endpoint THEN Goto(c, "attachAgain") ELSE NextItem(c)
  /\ UNCHANGED <<memory, broken>>

AttachAgain(c) ==
  /\ At(c, "attachAgain")
  /\ list' = Attached(N(c), P(c))
  /\ NextItem(c)
  /\ UNCHANGED <<objects, links, rules, rows, broken>>

Create(c) ==
  \/ FindGateway(c) \/ MasterGateway(c) \/ Find(c)
  \/ Insert(c) \/ Attach(c) \/ AddLink(c) \/ PushRule(c) \/ AddRow(c) \/ AttachAgain(c)

-----------------------------------------------------------------------------
(* RCSServer::Del. *)

Del(c) ==
  /\ Free(c)
  /\ \E n \in Node \cup Rule : todo' = [todo EXCEPT ![c] = <<I(n, NoParent)>>]
  /\ pc' = [pc EXCEPT ![c] = "seek"]
  /\ UNCHANGED <<memory, rows, mine, broken>>

Seek(c) ==
  /\ At(c, "seek")
  /\ N(c) \in Node
  /\ IF N(c) \in Present
     THEN /\ pc' = [pc EXCEPT ![c] = IF N(c) \in Endpoint THEN "detach" ELSE "unlink"]
          /\ todo' = [todo EXCEPT ![c] = <<I(N(c), objects[N(c)])>>]
          /\ mine' = [mine EXCEPT ![c] = {N(c)}]
     ELSE Answer(c)
  /\ UNCHANGED <<memory, rows, broken>>

Detach(c) ==
  /\ At(c, "detach")
  /\ list' = IF P(c) \in Present \ Endpoint
             THEN [list EXCEPT ![P(c)] = @ \ {N(c)}] ELSE list
  /\ Goto(c, "unlink")
  /\ UNCHANGED <<objects, links, rules, rows, broken>>

(* The object c holds is deleted, under any other client that holds it.     *)
Deleted(c) == broken' = \E d \in Client \ {c} : N(c) \in mine[c] \cap mine[d]
(* Mutant: the row of an endpoint is left too.                               *)
DelLinkNoRow(c) ==
  /\ At(c, "unlink")
  /\ IF N(c) \in Present
     THEN links' = links \ {N(c)} /\ Goto(c, "erase") /\ UNCHANGED broken
     ELSE Answer(c) /\ Deleted(c) /\ UNCHANGED links
  /\ UNCHANGED <<objects, list, rules, rows>>

(* Only the row of an endpoint is deleted: gateways and devices come back.  *)
DelLink(c) ==
  /\ At(c, "unlink")
  /\ IF N(c) \in Present
     THEN /\ links' = links \ {N(c)}
          /\ Goto(c, IF N(c) \in Endpoint THEN "delete" ELSE "erase")
          /\ UNCHANGED broken
     ELSE Answer(c) /\ Deleted(c) /\ UNCHANGED links
  /\ UNCHANGED <<objects, list, rules, rows>>

DeleteRow(c) ==
  /\ At(c, "delete")
  /\ rows' = [rows EXCEPT ![N(c)] = Absent]
  /\ IF N(c) \in Rule THEN Answer(c) ELSE Goto(c, "erase")
  /\ UNCHANGED <<memory, broken>>
(* Mutant: only the object whose destruction began is erased.                *)
EraseOwnOnly(c) ==
  /\ At(c, "erase")
  /\ objects' = IF N(c) \in mine[c] THEN [objects EXCEPT ![N(c)] = Absent] ELSE objects
  /\ Answer(c)
  /\ UNCHANGED <<list, links, rules, rows, broken>>

(* An entry that another client erased since leaves an invalid iterator.    *)
Erase(c) ==
  /\ At(c, "erase")
  /\ IF N(c) \in Present
     THEN /\ Deleted(c)
          /\ objects' = [objects EXCEPT ![N(c)] = Absent]
          /\ list' = [p \in Gateway \cup Device |-> IF p = N(c) THEN {} ELSE list[p]]
     ELSE broken' = TRUE /\ UNCHANGED <<objects, list>>
  /\ pc' = [pc EXCEPT ![c] = "idle"]
  /\ todo' = [todo EXCEPT ![c] = << >>]
  /\ mine' = [d \in Client |-> IF d = c THEN {} ELSE mine[d] \ {N(c)}]
  /\ UNCHANGED <<links, rules, rows>>

PopRule(c) ==
  /\ At(c, "seek")
  /\ N(c) \in Rule
  /\ IF rules[N(c)] = 0
     THEN Answer(c) /\ UNCHANGED rules
     ELSE rules' = [rules EXCEPT ![N(c)] = @ - 1] /\ Goto(c, "delete")
  /\ UNCHANGED <<objects, list, links, rows, broken>>

Destroy(c) ==
  Seek(c) \/ Detach(c) \/ DelLink(c) \/ DeleteRow(c) \/ Erase(c) \/ PopRule(c)

-----------------------------------------------------------------------------
(* The program ends, at any point, and starts again: Preprocess creates     *)
(* every gateway, then every device, then every endpoint and every rule of  *)
(* the tables, before the server and the linker start.                      *)
Stored == {n \in Node : rows[n] # Absent}
(* Mutant: an endpoint whose device has no row is not loaded.                *)
RestartWithParents ==
  /\ ~broken
  /\ objects' = [n \in Node |-> IF n \in Endpoint /\ rows[n] \notin Stored
                                THEN Absent ELSE rows[n]]
  /\ list' = [p \in Gateway \cup Device |-> {n \in Stored : p \in Stored /\ rows[n] = p}]
  /\ links' = Present'
  /\ rules' = [r \in Rule |-> IF rows[r] = Absent THEN 0 ELSE 1]
  /\ pc' = [c \in Client |-> "idle"]
  /\ todo' = [c \in Client |-> << >>]
  /\ mine' = [c \in Client |-> {}]
  /\ UNCHANGED <<rows, broken>>

Restart ==
  /\ ~broken
  /\ objects' = [n \in Node |-> rows[n]]
  /\ list' = [p \in Gateway \cup Device |-> {n \in Stored : p \in Stored /\ rows[n] = p}]
  /\ links' = Stored
  /\ rules' = [r \in Rule |-> IF rows[r] = Absent THEN 0 ELSE 1]
  /\ pc' = [c \in Client |-> "idle"]
  /\ todo' = [c \in Client |-> << >>]
  /\ mine' = [c \in Client |-> {}]
  /\ UNCHANGED <<rows, broken>>

Next ==
  /\ \/ \E c \in Client : Add(c) \/ Create(c) \/ Del(c) \/ Destroy(c)
     \/ Restart
  /\ UNCHANGED serial

Spec == Init /\ [][Next]_vars

-----------------------------------------------------------------------------
Idle == ~broken /\ \A c \in Client : pc[c] = "idle"

(* Once every request is answered, each node of the maps has a row, and is  *)
(* there after the next start, whatever requests for the same ID crossed.   *)
Kept == Idle => \A n \in Present : rows[n] # Absent

(* Once every request is answered, each node of the maps has its down link, *)
(* and hears from the server.                                               *)
Heard == Idle => Present \subseteq links

(* One request after the other, an endpoint is in the map exactly as it is  *)
(* in its table, and a rule that is gone has left no row: a start changes   *)
(* nothing of them, and brings nothing back.                                *)
AsStored ==
  Idle /\ serial => /\ \A e \in Endpoint : objects[e] = rows[e]
                    /\ \A r \in Rule : rules[r] = 0 => rows[r] = Absent

(* One request after the other, the endpoint table is an ObjectStore: a     *)
(* call takes effect where its row is added or deleted.  Nothing is said of *)
(* a gateway whose requests overlap.                                        *)
CallOf(c) ==
  IF ~serial \/ todo[c] = << >> \/ N(c) \notin Endpoint THEN NoCall
  ELSE [op |-> IF pc[c] \in {"seek", "detach", "unlink", "delete", "erase"}
               THEN "del" ELSE "add",
        endpoint |-> N(c),
        stage |-> IF pc[c] \in {"attachAgain", "erase"} THEN "done" ELSE "begun"]

Store == INSTANCE ObjectStore
           WITH stored <- IF serial THEN Endpoint \cap Stored ELSE {},
                call   <- [c \in Client |-> CallOf(c)]

ImplementsStore == Store!Spec

=============================================================================
