---------------------------- MODULE PropertyStore ----------------------------
(***************************************************************************)
(* The properties of one gateway, device or endpoint, and how they come to *)
(* its row (lib/object.cpp, lib/node.cpp, lib/object_manager.cpp,          *)
(* lib/data_manager.cpp, lib/rcs_server.cpp).  A setter assigns the field, *)
(* notes the property in updated_properties_ and, unless lazy_store_ is    *)
(* set, applies the changes: it copies the list, writes the copy with one  *)
(* UPDATE and clears the list.  RCSServer::Set goes over the request       *)
(* twice.  The object's own thread applies what it finds in the list,      *)
(* which is how a write that failed is tried again.  Nothing is locked; an *)
(* access to the list is a step.                                           *)
(*                                                                         *)
(* A restart loads the row.  Values that a setter rejects are skipped by   *)
(* SetProperties, whose answer is OK whatever comes of the write; they are *)
(* left out of the requests.                                               *)
(***************************************************************************)
EXTENDS Integers

CONSTANTS
  Client,    (* threads that serve RCSServer::Set                           *)
  Node,      (* {the thread of the object}, or {} when it has none          *)
  Prop, Value,
  Default,   (* the value of every property at creation                     *)
  NotSet,
  OnlyNew,   (* properties whose setter ignores the value they have         *)
  Checks,    (* the first pass over a request only checks (endpoints)       *)
  MaxFail    (* bound on UPDATEs that fail                                  *)

Thread == Client \cup Node

ASSUME StoreAssumption ==
  /\ Client \cap Node = {}
  /\ Default \in Value
  /\ NotSet \notin Value
  /\ OnlyNew \subseteq Prop
  /\ Checks \in BOOLEAN
  /\ MaxFail \in Nat

VARIABLES
  field,                (* the fields of the object                         *)
  updated_properties_,
  lazy_store_,
  row,                  (* the row of the object                            *)
  pc,                   (* where each thread is                             *)
  back,                 (* where ApplyChanges returns to                    *)
  asked,                (* the request of each client                       *)
  left,                 (* its properties that this pass has yet to set     *)
  pass,                 (* the pass over the request                        *)
  copy,                 (* what UpdateProperties took from the list         *)
  fails,                (* UPDATEs that failed so far                       *)
  crossed               (* properties set while another thread stored       *)

request == <<back, asked, left, pass>>
vars    == <<field, updated_properties_, lazy_store_, row, pc, request, copy, fails,
             crossed>>

Change == [Prop -> Value \cup {NotSet}]
Empty  == [p \in Prop |-> NotSet]
PC     == {"idle", "lazyOn", "each", "lazyOff", "apply", "write", "clear", "applied"}

TypeOK ==
  /\ field \in [Prop -> Value]
  /\ updated_properties_ \in Change
  /\ lazy_store_ \in BOOLEAN
  /\ row \in [Prop -> Value]
  /\ pc \in [Thread -> PC]
  /\ back \in [Thread -> {"idle", "each", "lazyOff"}]
  /\ asked \in [Client -> Change]
  /\ left \in [Client -> SUBSET Prop]
  /\ pass \in [Client -> 1..2]
  /\ copy \in [Thread -> Change]
  /\ fails \in 0..MaxFail
  /\ crossed \subseteq Prop

(* The threads at rest, and nothing kept of an earlier request.             *)
Rest ==
  /\ pc = [t \in Thread |-> "idle"]
  /\ back = [t \in Thread |-> "idle"]
  /\ asked = [c \in Client |-> Empty]
  /\ left = [c \in Client |-> {}]
  /\ pass = [c \in Client |-> 1]
  /\ copy = [t \in Thread |-> Empty]

Init ==
  /\ field = [p \in Prop |-> Default]
  /\ updated_properties_ = Empty
  /\ lazy_store_ = FALSE
  /\ row = [p \in Prop |-> Default]
  /\ Rest
  /\ fails = 0
  /\ crossed = {}

-----------------------------------------------------------------------------
Goto(t, l) == pc' = [pc EXCEPT ![t] = l]

(* Another thread is between its copy and the clearing of the list.         *)
Storing(t) == \E u \in Thread \ {t} : pc[u] \in {"write", "clear"}

(* RCSServer::Set: the request is answered after two calls of SetProperties.*)
Set(c) ==
  /\ pc[c] = "idle"
  /\ \E r \in Change : r # Empty /\ asked' = [asked EXCEPT ![c] = r]
  /\ pass' = [pass EXCEPT ![c] = 1]
  /\ Goto(c, "lazyOn")
  /\ UNCHANGED <<field, updated_properties_, lazy_store_, row, back, left, copy, fails,
                 crossed>>

LazyOn(c) ==
  /\ pc[c] = "lazyOn"
  /\ lazy_store_' = TRUE
  /\ left' = [left EXCEPT ![c] = IF Checks /\ pass[c] = 1 THEN {}
                                 ELSE {p \in Prop : asked[c][p] # NotSet}]
  /\ Goto(c, "each")
  /\ UNCHANGED <<field, updated_properties_, row, back, asked, pass, copy, fails, crossed>>

(* A setter.  The request has its properties in any order.                  *)
SetProperty(c) ==
  /\ pc[c] = "each"
  /\ \E p \in left[c] :
       /\ left' = [left EXCEPT ![c] = @ \ {p}]
       /\ IF p \in OnlyNew /\ field[p] = asked[c][p]
          THEN UNCHANGED <<field, updated_properties_, pc, back, crossed>>
          ELSE /\ field' = [field EXCEPT ![p] = asked[c][p]]
               /\ updated_properties_' = [updated_properties_ EXCEPT ![p] = asked[c][p]]
               /\ crossed' = IF Storing(c) THEN crossed \cup {p} ELSE crossed
               /\ IF lazy_store_ THEN UNCHANGED <<pc, back>>
                  ELSE Goto(c, "apply") /\ back' = [back EXCEPT ![c] = "each"]
  /\ UNCHANGED <<lazy_store_, row, asked, pass, copy, fails>>

AllSet(c) ==
  /\ pc[c] = "each"
  /\ left[c] = {}
  /\ lazy_store_' = FALSE
  /\ Goto(c, "apply")
  /\ back' = [back EXCEPT ![c] = "lazyOff"]
  /\ UNCHANGED <<field, updated_properties_, row, asked, left, pass, copy, fails, crossed>>

NextPass(c) ==
  /\ pc[c] = "lazyOff"
  /\ IF pass[c] = 1
     THEN /\ pass' = [pass EXCEPT ![c] = 2]
          /\ Goto(c, "lazyOn")
          /\ UNCHANGED asked
     ELSE /\ Goto(c, "idle")
          /\ asked' = [asked EXCEPT ![c] = Empty]
          /\ UNCHANGED pass
  /\ UNCHANGED <<field, updated_properties_, lazy_store_, row, back, left, copy, fails,
                 crossed>>

-----------------------------------------------------------------------------
(* Mutant: the thread of the object gives up once an UPDATE has failed.      *)
ProcessUnlessFailed(n) ==
  /\ pc[n] = "idle"
  /\ updated_properties_ # Empty
  /\ fails = 0
  /\ Goto(n, "apply")
  /\ UNCHANGED <<field, updated_properties_, lazy_store_, row, request, copy, fails,
                 crossed>>

(* Node::Process, on the thread of the object.                              *)
Process(n) ==
  /\ pc[n] = "idle"
  /\ updated_properties_ # Empty
  /\ Goto(n, "apply")
  /\ UNCHANGED <<field, updated_properties_, lazy_store_, row, request, copy, fails,
                 crossed>>

(* ApplyChanges and UpdateProperties, on any thread.                        *)
Copy(t) ==
  /\ pc[t] = "apply"
  /\ copy' = [copy EXCEPT ![t] = updated_properties_]
  /\ Goto(t, IF updated_properties_ = Empty THEN "applied" ELSE "write")
  /\ UNCHANGED <<field, updated_properties_, lazy_store_, row, request, fails, crossed>>

(* The UPDATE writes the whole copy or fails.  One that writes what the     *)
(* object has, and is alone, makes up for what crossed before.              *)
Write(t) ==
  /\ pc[t] = "write"
  /\ row' = [p \in Prop |-> IF copy[t][p] = NotSet THEN row[p] ELSE copy[t][p]]
  /\ crossed' = {p \in crossed : copy[t][p] # field[p] \/ Storing(t)}
  /\ Goto(t, "clear")
  /\ UNCHANGED <<field, updated_properties_, lazy_store_, request, copy, fails>>
(* Mutant: the list is cleared whatever the UPDATE did.                      *)
WriteFailsQuietly(t) ==
  /\ pc[t] = "write"
  /\ fails < MaxFail
  /\ fails' = fails + 1
  /\ Goto(t, "clear")
  /\ UNCHANGED <<field, updated_properties_, lazy_store_, row, request, copy, crossed>>

WriteFails(t) ==
  /\ pc[t] = "write"
  /\ fails < MaxFail
  /\ fails' = fails + 1
  /\ Goto(t, "applied")
  /\ UNCHANGED <<field, updated_properties_, lazy_store_, row, request, copy, crossed>>

(* What was set since the copy was taken is cleared with it.                *)
Clear(t) ==
  /\ pc[t] = "clear"
  /\ updated_properties_' = Empty
  /\ Goto(t, "applied")
  /\ UNCHANGED <<field, lazy_store_, row, request, copy, fails, crossed>>

(* Object::ApplyChanges ends lazy storing, whoever asked for it.            *)
Applied(t) ==
  /\ pc[t] = "applied"
  /\ lazy_store_' = FALSE
  /\ Goto(t, back[t])
  /\ copy' = [copy EXCEPT ![t] = Empty]
  /\ UNCHANGED <<field, updated_properties_, row, request, fails, crossed>>

ApplyChanges(t) == Copy(t) \/ Write(t) \/ Clear(t) \/ Applied(t)

-----------------------------------------------------------------------------
Restart ==
  /\ field' = row
  /\ updated_properties_' = Empty
  /\ lazy_store_' = FALSE
  /\ pc' = [t \in Thread |-> "idle"]
  /\ back' = [t \in Thread |-> "idle"]
  /\ asked' = [c \in Client |-> Empty]
  /\ left' = [c \in Client |-> {}]
  /\ pass' = [c \in Client |-> 1]
  /\ copy' = [t \in Thread |-> Empty]
  /\ crossed' = {}
  /\ UNCHANGED <<row, fails>>

ClientStep(c) == LazyOn(c) \/ SetProperty(c) \/ AllSet(c) \/ NextPass(c) \/ ApplyChanges(c)
NodeStep(n)   == Process(n) \/ ApplyChanges(n)

Next ==
  \/ \E c \in Client : Set(c) \/ ClientStep(c)
  \/ \E n \in Node : NodeStep(n)
  \/ \E t \in Thread : WriteFails(t)
  \/ Restart

Spec == Init /\ [][Next]_vars

(* Every thread goes on; the failures of UPDATE are bounded.                *)
FairSpec ==
  /\ Spec
  /\ \A c \in Client : WF_vars(ClientStep(c))
  /\ \A n \in Node : WF_vars(NodeStep(n))

-----------------------------------------------------------------------------
Quiet == \A t \in Thread : pc[t] = "idle"

(* Once the requests are answered, the row has each property as the object  *)
(* has it, or the list still names it for the next to write, unless it was  *)
(* set while another thread stored a copy it had taken before: that thread  *)
(* then wrote the older value last, or cleared the newer from the list.     *)
LostByCrossing ==
  Quiet => \A p \in Prop : \/ row[p] = field[p]
                           \/ updated_properties_[p] = field[p]
                           \/ p \in crossed

(* A single thread loses nothing: what differs from the row is in the list. *)
Stored ==
  Quiet => \A p \in Prop : row[p] = field[p] \/ updated_properties_[p] = field[p]

(* An UPDATE that fails is tried again by the thread of the object: the     *)
(* list does not stay with what was to be written.                          *)
EventuallyWritten ==
  Node # {} => []<>(updated_properties_ = Empty)

=============================================================================
