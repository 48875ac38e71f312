------------------------------ MODULE RcsProofs ------------------------------
(***************************************************************************)
(* Proofs about what a client of the RCS service relies on: that the       *)
(* properties it sets are stored (PropertyStore), and that its session is  *)
(* left alone and answers its calls (Sessions).                            *)
(***************************************************************************)
EXTENDS PropertyStore, Sessions, FiniteSetTheorems, SequenceTheorems, TLAPS

(* The list names a property with the value that the object has.            *)
Named == \A p \in Prop : updated_properties_[p] \in {NotSet, field[p]}

(* A client in a pass has to set only what was asked of it.                 *)
InPass(c) ==
  pc[c] = "each" \/ (pc[c] \in {"apply", "write", "clear", "applied"} /\ back[c] = "each")

Asks == \A c \in Client : \A p \in left[c] : asked[c][p] # NotSet /\ InPass(c)

(* What did not cross is in the row or in the list.  A thread that stores   *)
(* took it as it is in the list, and has written it when it is to clear     *)
(* the list.                                                                *)
Agreed(p) ==
  /\ row[p] = field[p] \/ updated_properties_[p] = field[p]
  /\ \A t \in Thread :
       /\ pc[t] \in {"write", "clear"} =>
            /\ copy[t][p] \in {NotSet, field[p]}
            /\ updated_properties_[p] \in {NotSet, copy[t][p]}
       /\ pc[t] = "clear" => row[p] = field[p]

IInv == TypeOK /\ Asks /\ Named /\ \A p \in Prop : p \notin crossed => Agreed(p)

LEMMA ChangeTypes ==
  /\ Empty \in Change
  /\ \A p \in Prop : Empty[p] = NotSet
  /\ \A v \in Value : v # NotSet
  /\ Default \in Value
BY StoreAssumption DEF Empty, Change

LEMMA InitIInv == Init => IInv
<1> SUFFICES ASSUME Init PROVE IInv
  OBVIOUS
<1>1. TypeOK
  <2>1. field \in [Prop -> Value] /\ row \in [Prop -> Value]
    BY ChangeTypes DEF Init
  <2>2. updated_properties_ \in Change /\ lazy_store_ \in BOOLEAN
    BY ChangeTypes DEF Init
  <2>3. /\ pc \in [Thread -> PC]
        /\ back \in [Thread -> {"idle", "each", "lazyOff"}]
        /\ copy \in [Thread -> Change]
    BY ChangeTypes DEF Init, Rest, PC
  <2>4. /\ asked \in [Client -> Change]
        /\ left \in [Client -> SUBSET Prop]
        /\ pass \in [Client -> 1..2]
    BY ChangeTypes DEF Init, Rest
  <2>5. fails \in 0..MaxFail /\ crossed \subseteq Prop
    BY StoreAssumption DEF Init
  <2> QED  BY <2>1, <2>2, <2>3, <2>4, <2>5 DEF TypeOK
<1>2. Asks /\ Named
  BY ChangeTypes DEF Init, Rest, Asks, Named
<1>3. \A p \in Prop : Agreed(p)
  BY DEF Init, Rest, Agreed
<1> QED  BY <1>1, <1>2, <1>3 DEF IInv

-----------------------------------------------------------------------------
(* What a setter does with the value that was asked for. *)
Ignored(c, p) == p \in OnlyNew /\ field[p] = asked[c][p]

Assigned(c, p) ==
  /\ pc[c] = "each"
  /\ left' = [left EXCEPT ![c] = @ \ {p}]
  /\ Ignored(c, p) => UNCHANGED <<field, updated_properties_, pc, back, crossed>>
  /\ ~Ignored(c, p) =>
       /\ field' = [field EXCEPT ![p] = asked[c][p]]
       /\ updated_properties_' = [updated_properties_ EXCEPT ![p] = asked[c][p]]
       /\ crossed' = IF Storing(c) THEN crossed \cup {p} ELSE crossed
       /\ IF lazy_store_ THEN UNCHANGED <<pc, back>>
          ELSE pc' = [pc EXCEPT ![c] = "apply"] /\ back' = [back EXCEPT ![c] = "each"]
  /\ UNCHANGED <<lazy_store_, row, asked, pass, copy, fails>>

LEMMA SetAssigns ==
  ASSUME NEW c \in Client, SetProperty(c)
  PROVE  \E p \in left[c] : Assigned(c, p)
BY DEF SetProperty, Assigned, Ignored, Goto

LEMMA TypeStep == TypeOK /\ Asks /\ [Next]_vars => TypeOK'
<1> SUFFICES ASSUME TypeOK, Asks, [Next]_vars PROVE TypeOK'
  OBVIOUS
<1> USE DEF Goto, PC
<1>1. ASSUME NEW c \in Client, Set(c) PROVE TypeOK'
  BY <1>1 DEF Set, TypeOK, Thread
<1>2. ASSUME NEW c \in Client, LazyOn(c) PROVE TypeOK'
  BY <1>2 DEF LazyOn, TypeOK, Thread
<1>3. ASSUME NEW c \in Client, SetProperty(c) PROVE TypeOK'
  <2>1. PICK p \in left[c] : Assigned(c, p)
    BY <1>3, SetAssigns
  <2>2. c \in Thread /\ p \in Prop /\ asked[c][p] \in Value
    BY <2>1 DEF TypeOK, Asks, Thread, Change
  <2>3. CASE Ignored(c, p)
    BY <2>1, <2>2, <2>3 DEF Assigned, Ignored, TypeOK
  <2>4. CASE ~Ignored(c, p)
    <3>1. field' \in [Prop -> Value] /\ updated_properties_' \in Change
      BY <2>1, <2>2, <2>4 DEF Assigned, TypeOK, Change
    <3>2. crossed' \subseteq Prop
      BY <2>1, <2>2, <2>4 DEF Assigned, TypeOK
    <3>3. pc' \in [Thread -> PC] /\ back' \in [Thread -> {"idle", "each", "lazyOff"}]
      BY <2>1, <2>2, <2>4 DEF Assigned, TypeOK
    <3> QED  BY <2>1, <2>4, <3>1, <3>2, <3>3 DEF Assigned, TypeOK
  <2> QED  BY <2>3, <2>4
<1>4. ASSUME NEW c \in Client, AllSet(c) PROVE TypeOK'
  BY <1>4 DEF AllSet, TypeOK, Thread
<1>5. ASSUME NEW c \in Client, NextPass(c) PROVE TypeOK'
  BY <1>5, ChangeTypes DEF NextPass, TypeOK, Thread
<1>6. ASSUME NEW n \in Node, Process(n) PROVE TypeOK'
  BY <1>6 DEF Process, request, TypeOK, Thread
<1>7. ASSUME NEW t \in Thread, ApplyChanges(t) PROVE TypeOK'
  <2>1. CASE Copy(t)
    BY <2>1 DEF Copy, request, TypeOK
  <2>2. CASE Write(t)
    <3>1. row' \in [Prop -> Value]
      BY <2>2 DEF Write, TypeOK, Change
    <3> QED  BY <2>2, <3>1 DEF Write, request, TypeOK
  <2>3. CASE Clear(t)
    BY <2>3, ChangeTypes DEF Clear, request, TypeOK
  <2>4. CASE Applied(t)
    BY <2>4, ChangeTypes DEF Applied, request, TypeOK
  <2> QED  BY <1>7, <2>1, <2>2, <2>3, <2>4 DEF ApplyChanges
<1>8. ASSUME NEW t \in Thread, WriteFails(t) PROVE TypeOK'
  BY <1>8, StoreAssumption DEF WriteFails, request, TypeOK
<1>9. CASE Restart
  <2>1. fails' \in 0..MaxFail /\ crossed' \subseteq Prop /\ lazy_store_' \in BOOLEAN
    BY <1>9 DEF Restart, TypeOK
  <2>2. /\ field' \in [Prop -> Value] /\ row' \in [Prop -> Value]
        /\ updated_properties_' \in Change
    BY <1>9, ChangeTypes DEF Restart, TypeOK
  <2>3. /\ pc' \in [Thread -> PC]
        /\ back' \in [Thread -> {"idle", "each", "lazyOff"}]
        /\ copy' \in [Thread -> Change]
    BY <1>9, ChangeTypes DEF Restart
  <2>4. /\ asked' \in [Client -> Change]
        /\ left' \in [Client -> SUBSET Prop]
        /\ pass' \in [Client -> 1..2]
    BY <1>9, ChangeTypes DEF Restart
  <2> QED  BY <2>1, <2>2, <2>3, <2>4 DEF TypeOK
<1>10. CASE UNCHANGED vars
  BY <1>10 DEF vars, request, TypeOK
<1> QED  BY <1>1, <1>2, <1>3, <1>4, <1>5, <1>6, <1>7, <1>8, <1>9, <1>10
         DEF Next, ClientStep, NodeStep, Thread

LEMMA AsksStep == TypeOK /\ Asks /\ [Next]_vars => Asks'
<1> SUFFICES ASSUME TypeOK, Asks, [Next]_vars, NEW d \in Client, NEW q \in left'[d]
             PROVE  asked'[d][q] # NotSet /\ InPass(d)'
  BY DEF Asks
<1> USE DEF Goto
<1>a. d \in Thread /\ pc \in [Thread -> PC] /\ back \in [Thread -> {"idle", "each", "lazyOff"}]
  BY DEF TypeOK, Thread
<1>b. q \in left[d] => asked[d][q] # NotSet /\ InPass(d)
  BY DEF Asks
<1>1. ASSUME NEW c \in Client, Set(c) \/ NextPass(c)
      PROVE  asked'[d][q] # NotSet /\ InPass(d)'
  <2>1. c \in Thread
    BY DEF Thread
  <2>2. left' = left /\ back' = back /\ pc[c] \in {"idle", "lazyOff"}
    BY <1>1 DEF Set, NextPass
  <2>3. d # c
    BY <1>a, <1>b, <2>2 DEF InPass
  <2>4. pc'[d] = pc[d] /\ asked'[d] = asked[d]
    BY <1>1, <1>a, <2>1, <2>3 DEF Set, NextPass, TypeOK
  <2> QED  BY <1>b, <2>2, <2>4 DEF InPass
<1>2. ASSUME NEW c \in Client, LazyOn(c) PROVE asked'[d][q] # NotSet /\ InPass(d)'
  <2>1. c \in Thread
    BY DEF Thread
  <2>2. CASE d = c
    BY <1>2, <1>a, <2>1, <2>2 DEF LazyOn, InPass, TypeOK
  <2>3. CASE d # c
    BY <1>2, <1>a, <1>b, <2>1, <2>3 DEF LazyOn, InPass, TypeOK
  <2> QED  BY <2>2, <2>3
<1>3. ASSUME NEW c \in Client, SetProperty(c) PROVE asked'[d][q] # NotSet /\ InPass(d)'
  <2>1. PICK p \in left[c] : Assigned(c, p)
    BY <1>3, SetAssigns
  <2>2. c \in Thread
    BY DEF Thread
  <2>3. asked' = asked /\ q \in left[d]
    BY <2>1 DEF Assigned, TypeOK
  <2>4. InPass(d)'
    <3>1. /\ pc[c] = "each"
          /\ \/ UNCHANGED <<pc, back>>
             \/ pc' = [pc EXCEPT ![c] = "apply"] /\ back' = [back EXCEPT ![c] = "each"]
      BY <2>1 DEF Assigned
    <3> QED  BY <1>a, <1>b, <2>2, <2>3, <3>1 DEF InPass
  <2> QED  BY <1>b, <2>3, <2>4
<1>4. ASSUME NEW c \in Client, AllSet(c) PROVE asked'[d][q] # NotSet /\ InPass(d)'
  <2>1. c \in Thread /\ left' = left /\ asked' = asked /\ left[c] = {}
    BY <1>4 DEF AllSet, Thread
  <2>2. d # c
    BY <2>1
  <2>3. pc'[d] = pc[d] /\ back'[d] = back[d]
    BY <1>4, <1>a, <2>1, <2>2 DEF AllSet
  <2> QED  BY <1>b, <2>1, <2>3 DEF InPass
<1>5. ASSUME NEW t \in Thread, Process(t) \/ ApplyChanges(t) \/ WriteFails(t)
      PROVE  asked'[d][q] # NotSet /\ InPass(d)'
  <2>1. UNCHANGED <<back, asked, left, pass>>
    BY <1>5 DEF Process, ApplyChanges, Copy, Write, Clear, Applied, WriteFails, request
  <2>2. \/ pc[t] = "idle" /\ pc' = [pc EXCEPT ![t] = "apply"]
        \/ /\ pc[t] \in {"apply", "write", "clear"}
           /\ \E l \in {"write", "clear", "applied"} : pc' = [pc EXCEPT ![t] = l]
        \/ pc[t] = "applied" /\ pc' = [pc EXCEPT ![t] = back[t]]
    BY <1>5 DEF Process, ApplyChanges, Copy, Write, Clear, Applied, WriteFails
  <2> QED  BY <1>a, <1>b, <2>1, <2>2 DEF InPass
<1>6. CASE Restart
  BY <1>6 DEF Restart
<1>7. CASE UNCHANGED vars
  BY <1>b, <1>7 DEF vars, request, InPass
<1> QED  BY <1>1, <1>2, <1>3, <1>4, <1>5, <1>6, <1>7 DEF Next, ClientStep, NodeStep, Thread

-----------------------------------------------------------------------------
LEMMA NamedStep == IInv /\ [Next]_vars => Named'
<1> SUFFICES ASSUME IInv, [Next]_vars, NEW q \in Prop
             PROVE  updated_properties_'[q] \in {NotSet, field'[q]}
  BY DEF Named
<1>a. updated_properties_[q] \in {NotSet, field[q]}
  BY DEF IInv, Named
<1>1. ASSUME UNCHANGED <<field, updated_properties_>>
      PROVE  updated_properties_'[q] \in {NotSet, field'[q]}
  BY <1>a, <1>1
<1>2. ASSUME NEW c \in Client, SetProperty(c)
      PROVE  updated_properties_'[q] \in {NotSet, field'[q]}
  <2>1. PICK p \in left[c] : Assigned(c, p)
    BY <1>2, SetAssigns
  <2>2. field \in [Prop -> Value] /\ updated_properties_ \in [Prop -> Value \cup {NotSet}]
    BY DEF IInv, TypeOK, Change
  <2> QED  BY <1>a, <2>1, <2>2 DEF Assigned
<1>3. ASSUME updated_properties_' = Empty
      PROVE  updated_properties_'[q] \in {NotSet, field'[q]}
  BY <1>3, ChangeTypes
<1>4. ASSUME NEW c \in Client, Set(c) \/ LazyOn(c) \/ AllSet(c) \/ NextPass(c)
      PROVE  UNCHANGED <<field, updated_properties_>>
  BY <1>4 DEF Set, LazyOn, AllSet, NextPass
<1>5. ASSUME NEW t \in Thread, Process(t) \/ ApplyChanges(t) \/ WriteFails(t)
      PROVE  updated_properties_' = Empty \/ UNCHANGED <<field, updated_properties_>>
  BY <1>5 DEF Process, ApplyChanges, Copy, Write, Clear, Applied, WriteFails
<1>6. Restart => updated_properties_' = Empty
  BY DEF Restart
<1>7. UNCHANGED vars => UNCHANGED <<field, updated_properties_>>
  BY DEF vars
<1> QED  BY <1>1, <1>2, <1>3, <1>4, <1>5, <1>6, <1>7 DEF Next, ClientStep, NodeStep, Thread

(* While another thread stores, nothing that has crossed is made up for.    *)
LEMMA AgreedStep ==
  ASSUME IInv, [Next]_vars, NEW q \in Prop, q \notin crossed'
  PROVE  Agreed(q)'
<1> USE DEF Goto
<1>a. /\ field \in [Prop -> Value] /\ row \in [Prop -> Value]
      /\ updated_properties_ \in [Prop -> Value \cup {NotSet}]
      /\ pc \in [Thread -> PC] /\ copy \in [Thread -> Change]
      /\ back \in [Thread -> {"idle", "each", "lazyOff"}]
  BY DEF IInv, TypeOK, Change
<1>b. updated_properties_[q] \in {NotSet, field[q]} /\ field[q] # NotSet /\ row[q] # NotSet
  BY <1>a, ChangeTypes DEF IInv, Named
<1>c. q \notin crossed => Agreed(q)
  BY DEF IInv
<1>1. ASSUME NEW c \in Client, Set(c) \/ LazyOn(c) \/ AllSet(c) \/ NextPass(c)
      PROVE  Agreed(q)'
  <2>1. UNCHANGED <<field, updated_properties_, row, copy, crossed>>
    BY <1>1 DEF Set, LazyOn, AllSet, NextPass
  <2>2. \E l \in {"lazyOn", "each", "apply", "idle"} : pc' = [pc EXCEPT ![c] = l]
    BY <1>1 DEF Set, LazyOn, AllSet, NextPass
  <2>3. \A t \in Thread : pc'[t] \in {"write", "clear"} => pc'[t] = pc[t]
    BY <1>a, <2>2
  <2> QED  BY <1>c, <2>1, <2>3 DEF Agreed
<1>2. ASSUME NEW c \in Client, SetProperty(c) PROVE Agreed(q)'
  <2>1. PICK p \in left[c] : Assigned(c, p)
    BY <1>2, SetAssigns
  <2>2. pc' = pc \/ pc' = [pc EXCEPT ![c] = "apply"]
    BY <2>1 DEF Assigned
  <2>3. \A t \in Thread : pc'[t] \in {"write", "clear"} => pc'[t] = pc[t] /\ t # c
    BY <1>a, <2>1, <2>2 DEF Assigned
  <2>4. UNCHANGED <<row, copy>> /\ q \notin crossed
    BY <2>1 DEF Assigned
  <2>5. CASE Ignored(c, p) \/ p # q
    <3>1. field'[q] = field[q] /\ updated_properties_'[q] = updated_properties_[q]
      BY <1>a, <2>1, <2>5 DEF Assigned
    <3> QED  BY <1>c, <2>3, <2>4, <3>1 DEF Agreed
  <2>6. CASE ~Ignored(c, p) /\ p = q
    <3>1. ~Storing(c)
      BY <2>1, <2>6 DEF Assigned
    <3>2. \A t \in Thread : pc'[t] \notin {"write", "clear"}
      BY <2>3, <3>1 DEF Storing
    <3>3. updated_properties_'[q] = field'[q]
      BY <1>a, <2>1, <2>6 DEF Assigned
    <3> QED  BY <3>2, <3>3 DEF Agreed
  <2> QED  BY <2>5, <2>6
<1>3. ASSUME NEW t \in Thread, Process(t) \/ WriteFails(t) \/ Applied(t) PROVE Agreed(q)'
  <2>1. UNCHANGED <<field, updated_properties_, row, crossed>>
    BY <1>3 DEF Process, WriteFails, Applied
  <2>2. \E l \in {"apply", "applied", "idle", "each", "lazyOff"} : pc' = [pc EXCEPT ![t] = l]
    BY <1>3, <1>a DEF Process, WriteFails, Applied
  <2>3. copy' = copy \/ copy' = [copy EXCEPT ![t] = Empty]
    BY <1>3 DEF Process, WriteFails, Applied
  <2>4. \A u \in Thread : pc'[u] \in {"write", "clear"} => pc'[u] = pc[u] /\ copy'[u] = copy[u]
    BY <1>a, <2>2, <2>3
  <2> QED  BY <1>c, <2>1, <2>4 DEF Agreed
<1>4. ASSUME NEW t \in Thread, Copy(t) PROVE Agreed(q)'
  <2>1. UNCHANGED <<field, updated_properties_, row, crossed>>
    BY <1>4 DEF Copy
  <2>2. copy'[t] = updated_properties_ /\ pc'[t] \in {"write", "applied"}
    BY <1>4, <1>a DEF Copy
  <2>3. \A u \in Thread : u # t => pc'[u] = pc[u] /\ copy'[u] = copy[u]
    BY <1>4, <1>a DEF Copy
  <2>4. row[q] = field[q] \/ updated_properties_[q] = field[q]
    BY <1>c, <2>1 DEF Agreed
  <2>5. ASSUME NEW u \in Thread
        PROVE  /\ pc'[u] \in {"write", "clear"} =>
                    /\ copy'[u][q] \in {NotSet, field[q]}
                    /\ updated_properties_[q] \in {NotSet, copy'[u][q]}
               /\ pc'[u] = "clear" => row[q] = field[q]
    <3>1. CASE u = t
      BY <1>b, <2>2, <3>1
    <3>2. CASE u # t
      BY <1>c, <2>1, <2>3, <3>2 DEF Agreed
    <3> QED  BY <3>1, <3>2
  <2> QED  BY <2>1, <2>4, <2>5 DEF Agreed
<1>5. ASSUME NEW t \in Thread, Write(t) PROVE Agreed(q)'
  <2>1. UNCHANGED <<field, updated_properties_, copy>> /\ pc[t] = "write"
    BY <1>5 DEF Write
  <2>2. row'[q] = IF copy[t][q] = NotSet THEN row[q] ELSE copy[t][q]
    BY <1>5 DEF Write
  <2>3. pc'[t] = "clear" /\ \A u \in Thread : u # t => pc'[u] = pc[u]
    BY <1>5, <1>a DEF Write
  <2>4. q \notin crossed \/ (copy[t][q] = field[q] /\ ~Storing(t))
    BY <1>5 DEF Write
  <2>5. CASE q \notin crossed
    <3>1. Agreed(q)
      BY <1>c, <2>5
    <3>2. copy[t][q] \in {NotSet, field[q]} /\ updated_properties_[q] \in {NotSet, copy[t][q]}
      BY <2>1, <3>1 DEF Agreed
    <3>3. row'[q] = field[q]
      BY <1>b, <2>2, <3>1, <3>2 DEF Agreed
    <3>4. ASSUME NEW u \in Thread, pc'[u] \in {"write", "clear"}
          PROVE  /\ copy[u][q] \in {NotSet, field[q]}
                 /\ updated_properties_[q] \in {NotSet, copy[u][q]}
      BY <2>1, <2>3, <3>1, <3>2, <3>4 DEF Agreed
    <3> QED  BY <2>1, <3>3, <3>4 DEF Agreed
  <2>6. CASE copy[t][q] = field[q] /\ ~Storing(t)
    <3>1. row'[q] = field[q]
      BY <1>b, <2>2, <2>6
    <3>2. \A u \in Thread : u # t => pc'[u] \notin {"write", "clear"}
      BY <2>3, <2>6 DEF Storing
    <3> QED  BY <1>b, <2>1, <2>6, <3>1, <3>2 DEF Agreed
  <2> QED  BY <2>4, <2>5, <2>6
<1>6. ASSUME NEW t \in Thread, Clear(t) PROVE Agreed(q)'
  <2>1. UNCHANGED <<field, row, copy, crossed>> /\ updated_properties_'[q] = NotSet
    BY <1>6, ChangeTypes DEF Clear
  <2>2. Agreed(q) /\ pc[t] = "clear"
    BY <1>6, <1>c, <2>1 DEF Clear
  <2>3. row[q] = field[q]
    BY <2>2 DEF Agreed
  <2>4. \A u \in Thread : pc'[u] \in {"write", "clear"} => pc'[u] = pc[u]
    BY <1>6, <1>a DEF Clear
  <2> QED  BY <2>1, <2>2, <2>3, <2>4 DEF Agreed
<1>7. CASE Restart
  BY <1>7 DEF Restart, Agreed
<1>8. CASE UNCHANGED vars
  BY <1>c, <1>8 DEF vars, Agreed
<1> QED  BY <1>1, <1>2, <1>3, <1>4, <1>5, <1>6, <1>7, <1>8
         DEF Next, ClientStep, NodeStep, ApplyChanges, Thread

LEMMA InductiveIInv == Spec => []IInv
<1>1. IInv /\ [Next]_vars => IInv'
  BY TypeStep, AsksStep, NamedStep, AgreedStep DEF IInv
<1> QED  BY InitIInv, <1>1, PTL DEF Spec

(* Whatever the clients and the thread of the object do, and whichever      *)
(* UPDATEs fail, a property whose value neither the row nor the list has    *)
(* was set while another thread stored: for every number of threads,        *)
(* properties and values.                                                   *)
THEOREM OnlyCrossingLoses == Spec => []LostByCrossing
<1>1. IInv => LostByCrossing
  BY DEF IInv, LostByCrossing, Agreed
<1> QED  BY InductiveIInv, <1>1, PTL

Single == \A t, u \in Thread : t = u

(* A single thread loses nothing: there is none to cross with.              *)
THEOREM OneThreadLosesNothing == Single /\ Spec => []Stored
<1>1. Single /\ Init => Single /\ crossed = {}
  BY DEF Init
<1>2. Single /\ crossed = {} /\ [Next]_vars => (Single /\ crossed = {})'
  <2> SUFFICES ASSUME Single, crossed = {}, [Next]_vars PROVE crossed' = {}
    BY DEF Single
  <2>1. ASSUME NEW c \in Client, SetProperty(c) PROVE crossed' = {}
    <3>1. ~Storing(c)
      BY DEF Single, Storing, Thread
    <3>2. PICK p \in left[c] : Assigned(c, p)
      BY <2>1, SetAssigns
    <3> QED  BY <3>1, <3>2 DEF Assigned
  <2>2. ASSUME NEW c \in Client, Set(c) \/ LazyOn(c) \/ AllSet(c) \/ NextPass(c)
        PROVE  crossed' = {}
    BY <2>2 DEF Set, LazyOn, AllSet, NextPass
  <2>3. ASSUME NEW t \in Thread, Process(t) \/ ApplyChanges(t) \/ WriteFails(t)
        PROVE  crossed' = {}
    BY <2>3 DEF Process, ApplyChanges, Copy, Write, Clear, Applied, WriteFails
  <2>4. Restart \/ UNCHANGED vars => crossed' = {}
    BY DEF Restart, vars
  <2> QED  BY <2>1, <2>2, <2>3, <2>4 DEF Next, ClientStep, NodeStep, Thread
<1>3. IInv /\ crossed = {} => Stored
  BY DEF IInv, Stored, Agreed
<1> QED  BY <1>1, <1>2, <1>3, InductiveIInv, PTL DEF Spec

-----------------------------------------------------------------------------
(* The sessions: any connections and ports, any bounds.                     *)

(* Types.  SessionsTypeOK is kept by each action by itself.                 *)
Results == [CallId -> CallId \cup {TimedOut, Invalid, NoReply}]

SessionTypes ==
  /\ peer \in [Conn -> {"away", "open", "gone"}]
  /\ session_map_ \in [Port -> Conn \cup {NoEntry, Null}]
  /\ queue \in Seq(Port)
  /\ session \in [Conn -> {"none", "first", "second", "ended"}]
  /\ stop_ \subseteq Conn
  /\ socket_ \subseteq Conn

CallTypes ==
  /\ toServer \in [Conn -> Seq(CallId)]
  /\ toClient \in [Conn -> Seq(CallId)]
  /\ frames \in [Conn -> Seq(Seq(CallId))]
  /\ call \in [Conn -> 0..MaxCalls]
  /\ waiting \subseteq Caller
  /\ reply \in [Conn -> Results]

JoinTypes ==
  /\ server \in {"accept", "message", "join"}
  /\ joining \in Conn \cup {NoEntry}
  /\ server = "join" <=> joining # NoEntry

LEMMA TypesAre == SessionsTypeOK <=> SessionTypes /\ CallTypes /\ JoinTypes
BY DEF SessionsTypeOK, SessionTypes, CallTypes, JoinTypes, Results

LEMMA SessionTypesInit ==
  ASSUME SessionsInit
  PROVE  SessionTypes /\ CallTypes /\ JoinTypes
<1>1. SessionTypes
  BY DEF SessionsInit, SessionTypes
<1>2. CallTypes
  <2>1. [k \in CallId |-> NoReply] \in Results
    BY DEF Results
  <2>2. QED
    BY <2>1, SessionsAssumption DEF SessionsInit, CallTypes
<1>3. JoinTypes
  BY SessionsAssumption DEF SessionsInit, JoinTypes
<1>4. QED
  BY <1>1, <1>2, <1>3

LEMMA SessionTypesNext ==
  ASSUME SessionTypes, [SessionsNext]_sessionsVars
  PROVE  SessionTypes'
<1> USE DEF SessionTypes
<1>1. ASSUME NEW c \in Conn, Connect(c) \/ Close(c) PROVE SessionTypes'
  BY <1>1 DEF Connect, Close, listener
<1>2. ASSUME NEW c \in Conn, Disconnect(c)
      PROVE  queue' \in Seq(Port) /\ socket_' \subseteq Conn
  <2>1. PortOf[c] \in Port
    BY SessionsAssumption
  <2>2. Append(queue, PortOf[c]) \in Seq(Port)
    BY <2>1
  <2>3. QED
    BY <1>2, <2>2 DEF Disconnect
<1>3. ASSUME NEW c \in Conn, Poll(c) PROVE queue' \in Seq(Port) /\ socket_' \subseteq Conn
  BY <1>2, <1>3 DEF Poll
<1>4. ASSUME NEW c \in Conn, Session(c) PROVE SessionTypes'
  <2>1. session' \in [Conn -> {"none", "first", "second", "ended"}]
    BY <1>4 DEF Session, Serve, PollAgain
  <2>2. queue' \in Seq(Port) /\ socket_' \subseteq Conn
    BY <1>2, <1>3, <1>4 DEF Session, Serve, PollAgain
  <2>3. QED
    BY <1>4, <2>1, <2>2 DEF Session, Serve, PollAgain, listener
<1>5. ASSUME NEW c \in Caller,
             Call(c) \/ Reply(c) \/ Timeout(c) \/ Receive(c)
      PROVE  SessionTypes'
  BY <1>5 DEF Call, Reply, Timeout, Returns, Receive, listener
<1>6. CASE Accept
  <2>1. CASE UNCHANGED <<session_map_, session, socket_>>
    BY <1>6, <2>1 DEF Accept
  <2>2. ASSUME NEW c \in Conn, session_map_' = [session_map_ EXCEPT ![PortOf[c]] = c],
               session' = [session EXCEPT ![c] = "first"], socket_' = socket_ \cup {c}
        PROVE  SessionTypes'
    BY <1>6, <2>2 DEF Accept
  <2>3. QED
    BY <1>6, <2>1, <2>2 DEF Accept
<1>7. CASE OnMessage
  <2>1. CASE queue = << >>
    BY <1>7, <2>1 DEF OnMessage
  <2>2. CASE queue # << >>
    <3>1. Head(queue) \in Port /\ Tail(queue) \in Seq(Port)
      BY <2>2
    <3>2. QED
      BY <1>7, <2>2, <3>1 DEF OnMessage
  <2>3. QED
    BY <2>1, <2>2
<1>8. CASE Join
  BY <1>8 DEF Join
<1>9. CASE UNCHANGED sessionsVars
  BY <1>9 DEF sessionsVars, listener
<1>10. QED
  BY <1>1, <1>4, <1>5, <1>6, <1>7, <1>8, <1>9 DEF SessionsNext, Server

LEMMA CallTypesNext ==
  ASSUME CallTypes, [SessionsNext]_sessionsVars
  PROVE  CallTypes'
<1> USE DEF CallTypes
<1>0. << >> \in Seq(CallId) /\ << >> \in Seq(Seq(CallId))
  OBVIOUS
<1>1. ASSUME NEW c \in Conn, Connect(c) \/ Close(c) PROVE CallTypes'
  <2>1. CASE Connect(c)
    BY <2>1 DEF Connect, calls
  <2>2. CASE Close(c)
    <3>1. frames' \in [Conn -> Seq(Seq(CallId))]
      BY <1>0, <2>2 DEF Close
    <3>2. toClient' \in [Conn -> Seq(CallId)]
      BY <1>0, <2>2 DEF Close
    <3>3. QED
      BY <2>2, <3>1, <3>2 DEF Close
  <2>3. QED
    BY <1>1, <2>1, <2>2
<1>2. ASSUME NEW c \in Conn, Session(c) PROVE CallTypes'
  <2>1. toServer' \in [Conn -> Seq(CallId)]
    <3>1. toServer' = toServer \/ toServer' = [toServer EXCEPT ![c] = << >>]
      BY <1>2 DEF Session, Serve, PollAgain, Poll
    <3>2. QED
      BY <1>0, <3>1
  <2>2. toClient' \in [Conn -> Seq(CallId)]
    <3>1. toClient[c] \o toServer[c] \in Seq(CallId)
      OBVIOUS
    <3>2. QED
      BY <1>2, <3>1 DEF Session, Serve, PollAgain
  <2>3. QED
    BY <1>2, <2>1, <2>2 DEF Session, Serve, PollAgain, calls
<1>3. ASSUME NEW c \in Caller, Call(c) PROVE CallTypes'
  <2>1. c \in Conn /\ call[c] + 1 \in CallId /\ call[c] + 1 \in 0..MaxCalls
    BY <1>3, SessionsAssumption DEF Call, CallId
  <2>2. QED
    BY <1>3, <2>1 DEF Call
<1>4. ASSUME NEW c \in Caller, Reply(c) \/ Timeout(c) PROVE CallTypes'
  <2>1. PICK r \in CallId \cup {TimedOut, Invalid, NoReply} : Returns(c, r)
    <3>1. CASE Timeout(c)
      BY <3>1 DEF Timeout
    <3>2. CASE Reply(c)
      <4>1. Head(frames[c]) \in Seq(CallId)
        BY <3>2, SessionsAssumption DEF Reply
      <4>2. Len(Head(frames[c])) = 1 => Head(frames[c])[1] \in CallId
        BY <4>1
      <4>3. QED
        BY <3>2, <4>2 DEF Reply
    <3>3. QED
      BY <1>4, <3>1, <3>2
  <2>2. reply' \in [Conn -> Results]
    <3>1. c \in Conn /\ reply' = [reply EXCEPT ![c][call[c]] = r]
      BY <2>1, SessionsAssumption DEF Returns
    <3>2. [reply[c] EXCEPT ![call[c]] = r] \in Results
      BY <3>1 DEF Results
    <3>3. QED
      BY <3>1, <3>2
  <2>3. frames' \in [Conn -> Seq(Seq(CallId))]
    <3>1. CASE Timeout(c)
      BY <3>1 DEF Timeout
    <3>2. CASE Reply(c)
      <4>1. frames[c] \in Seq(Seq(CallId)) /\ frames[c] # << >>
        BY <3>2, SessionsAssumption DEF Reply
      <4>2. Tail(frames[c]) \in Seq(Seq(CallId))
        BY <4>1
      <4>3. QED
        BY <3>2, <4>2 DEF Reply
    <3>3. QED
      BY <1>4, <3>1, <3>2
  <2>4. QED
    BY <2>1, <2>2, <2>3 DEF Returns
<1>5. ASSUME NEW c \in Caller, Receive(c) PROVE CallTypes'
  <2>1. c \in Conn
    BY SessionsAssumption
  <2>2. Append(frames[c], toClient[c]) \in Seq(Seq(CallId)) /\ << >> \in Seq(CallId)
    BY <2>1
  <2>3. QED
    BY <1>5, <2>1, <2>2 DEF Receive
<1>6. CASE Server
  BY <1>6 DEF Server, Accept, OnMessage, Join, calls
<1>7. CASE UNCHANGED sessionsVars
  BY <1>7 DEF sessionsVars, calls
<1>8. QED
  BY <1>1, <1>2, <1>3, <1>4, <1>5, <1>6, <1>7 DEF SessionsNext

LEMMA JoinTypesNext ==
  ASSUME SessionTypes, JoinTypes, [SessionsNext]_sessionsVars
  PROVE  JoinTypes'
<1> USE DEF JoinTypes
<1>1. CASE UNCHANGED <<server, joining>>
  BY <1>1
<1>2. CASE Accept
  BY <1>2 DEF Accept
<1>3. CASE OnMessage
  BY <1>3, SessionsAssumption DEF OnMessage
<1>4. CASE Join
  BY <1>4 DEF Join
<1>5. QED
  BY <1>1, <1>2, <1>3, <1>4 DEF SessionsNext, Server, sessionsVars, listener, Connect,
     Close, Session, Serve, PollAgain, Call, Reply, Timeout,
     Returns, Receive

-----------------------------------------------------------------------------
(* A port on the server's queue: whether it is there, and there once at most. *)
Queued(s, p) == \E i \in 1..Len(s) : s[i] = p

Once(s, p) == \A i, j \in 1..Len(s) : s[i] = p /\ s[j] = p => i = j

(* An entry is under the port of its connection. *)
PortsInv == \A p \in Port : session_map_[p] \in Conn => PortOf[session_map_[p]] = p

(* The life of a connection whose port is its own: its session is to come,  *)
(* serves it, has told the server of its end, or is told to stop.           *)
Unserved(c) ==
  /\ session[c] = "none" /\ c \notin socket_ /\ c \notin stop_
  /\ session_map_[PortOf[c]] = NoEntry /\ ~Queued(queue, PortOf[c])

Served(c) ==
  /\ session[c] \in {"first", "second"} /\ c \in socket_ /\ c \notin stop_
  /\ session_map_[PortOf[c]] = c /\ ~Queued(queue, PortOf[c])

Leaving(c) ==
  /\ session[c] \in {"first", "second"} /\ c \notin socket_ /\ c \notin stop_
  /\ peer[c] = "gone"
  /\ session_map_[PortOf[c]] = c /\ Once(queue, PortOf[c])

Left(c) ==
  /\ session[c] # "none" /\ c \notin socket_ /\ c \in stop_ /\ peer[c] = "gone"
  /\ session_map_[PortOf[c]] = NoEntry /\ ~Queued(queue, PortOf[c])

Owned(c) == Unserved(c) \/ Served(c) \/ Leaving(c) \/ Left(c)

(* The inductive invariant behind Undisturbed. *)
OwnInv == PortsInv /\ \A c \in Conn : Alone(c) => Owned(c)

(* What posting a port does to the queue, and taking one. *)
LEMMA PostedPort ==
  ASSUME NEW S, NEW s \in Seq(S), NEW x \in S, NEW p
  PROVE  /\ x # p /\ ~Queued(s, p) => ~Queued(Append(s, x), p)
         /\ x # p /\ Once(s, p) => Once(Append(s, x), p)
         /\ ~Queued(s, p) => Once(Append(s, x), p)
BY DEF Queued, Once

LEMMA TakenPort ==
  ASSUME NEW S, NEW s \in Seq(S), s # << >>, NEW p
  PROVE  /\ ~Queued(s, p) => ~Queued(Tail(s), p) /\ Head(s) # p
         /\ Once(s, p) => Once(Tail(s), p)
         /\ Once(s, p) /\ Head(s) = p => ~Queued(Tail(s), p)
<1>1. /\ Len(s) \in Nat /\ Len(s) > 0 /\ Len(Tail(s)) = Len(s) - 1 /\ Head(s) = s[1]
      /\ \A i \in 1..Len(Tail(s)) : Tail(s)[i] = s[i + 1]
  OBVIOUS
<1>2. QED
  BY <1>1 DEF Queued, Once

LEMMA PortsNext ==
  ASSUME SessionTypes, PortsInv, [SessionsNext]_sessionsVars
  PROVE  PortsInv'
<1>1. CASE UNCHANGED session_map_
  BY <1>1 DEF PortsInv
<1>2. CASE Accept
  BY <1>2, SessionsAssumption DEF Accept, PortsInv, SessionTypes
<1>3. CASE OnMessage
  BY <1>3, SessionsAssumption DEF OnMessage, PortsInv, SessionTypes
<1>4. QED
  BY <1>1, <1>2, <1>3 DEF SessionsNext, Server, Join, sessionsVars, listener,
     Connect, Close, Session, Serve, PollAgain, Call, Reply,
     Timeout, Returns, Receive

(* A connection's own session, and another's. *)
LEMMA SessionOwned ==
  ASSUME SessionTypes, NEW c \in Conn, Owned(c), Session(c)
  PROVE  Owned(c)'
<1> USE DEF SessionTypes
<1>0. PortOf[c] \in Port
  BY SessionsAssumption
<1>1. UNCHANGED <<peer, session_map_, stop_>>
  BY DEF Session, Serve, PollAgain, listener
<1>2. CASE Unserved(c) \/ (c \in stop_ /\ c \in socket_)
  BY <1>2 DEF Unserved, Served, Leaving, Left, Owned, Session, Serve, PollAgain
<1>3. CASE Left(c)
  <2>1. session'[c] # "none" /\ UNCHANGED <<socket_, queue>>
    BY <1>3 DEF Left, Session, Serve, PollAgain, Poll, Disconnect
  <2>2. QED
    BY <1>1, <1>3, <2>1 DEF Left, Owned
<1>4. CASE Leaving(c)
  <2>1. session'[c] \in {"first", "second"} /\ UNCHANGED <<socket_, queue>>
    BY <1>4 DEF Leaving, Session, Serve, PollAgain, Poll, Disconnect
  <2>2. QED
    BY <1>1, <1>4, <2>1 DEF Leaving, Owned
<1>5. CASE Served(c)
  <2>1. session'[c] \in {"first", "second"} /\ Poll(c)
    BY <1>5 DEF Served, Session, Serve, PollAgain
  <2>2. CASE UNCHANGED <<socket_, queue>>
    BY <1>1, <1>5, <2>1, <2>2 DEF Served, Owned
  <2>3. CASE peer[c] = "gone" /\ socket_' = socket_ \ {c} /\ queue' = Append(queue, PortOf[c])
    <3>1. Once(queue', PortOf[c])
      BY <1>0, <1>5, <2>3, PostedPort DEF Served
    <3>2. QED
      BY <1>1, <1>5, <2>1, <2>3, <3>1 DEF Served, Leaving, Owned
  <2>4. QED
    BY <1>5, <2>1, <2>2, <2>3 DEF Served, Poll, Closed, Disconnect
<1>6. QED
  BY <1>2, <1>3, <1>4, <1>5 DEF Owned

LEMMA OtherSession ==
  ASSUME SessionTypes, NEW c \in Conn, Owned(c),
         NEW d \in Conn, PortOf[d] # PortOf[c], Session(d)
  PROVE  Owned(c)'
<1> USE DEF SessionTypes
<1>0. PortOf[d] \in Port /\ c # d
  BY SessionsAssumption
<1>1. UNCHANGED <<peer, session_map_, stop_>> /\ session'[c] = session[c]
  BY <1>0 DEF Session, Serve, PollAgain, listener
<1>2. \/ UNCHANGED <<socket_, queue>>
      \/ socket_' = socket_ \ {d} /\ queue' = Append(queue, PortOf[d])
  BY DEF Session, Serve, PollAgain, Poll, Disconnect
<1>3. /\ ~Queued(queue, PortOf[c]) => ~Queued(queue', PortOf[c])
      /\ Once(queue, PortOf[c]) => Once(queue', PortOf[c])
  <2>1. queue \in Seq(Port)
    OBVIOUS
  <2>2. /\ ~Queued(queue, PortOf[c]) => ~Queued(Append(queue, PortOf[d]), PortOf[c])
        /\ Once(queue, PortOf[c]) => Once(Append(queue, PortOf[d]), PortOf[c])
    BY <1>0, <2>1, PostedPort
  <2>3. QED
    BY <1>2, <2>2
<1>4. c \in socket_' <=> c \in socket_
  BY <1>0, <1>2
<1>5. QED
  BY <1>1, <1>3, <1>4 DEF Owned, Unserved, Served, Leaving, Left

(* The server's thread. *)
LEMMA AcceptOwned ==
  ASSUME SessionTypes, NEW c \in Conn, Alone(c), Owned(c),
         Accept
  PROVE  Owned(c)'
<1> USE DEF SessionTypes
<1>0. PortOf \in [Conn -> Port]
  BY SessionsAssumption
<1>1. UNCHANGED <<peer, queue, stop_>>
  BY DEF Accept
<1>2. CASE UNCHANGED <<session_map_, session, socket_>>
  BY <1>1, <1>2 DEF Owned, Unserved, Served, Leaving, Left
<1>3. ASSUME NEW d \in Conn, session[d] = "none",
             session_map_' = [session_map_ EXCEPT ![PortOf[d]] = d],
             session' = [session EXCEPT ![d] = "first"], socket_' = socket_ \cup {d}
      PROVE  Owned(c)'
  <2>1. CASE d = c
    <3>1. Unserved(c)
      BY <1>3, <2>1 DEF Owned, Unserved, Served, Leaving, Left
    <3>2. QED
      BY <1>0, <1>1, <1>3, <2>1, <3>1 DEF Unserved, Served, Owned
  <2>2. CASE d # c
    <3>1. PortOf[d] # PortOf[c]
      BY <2>2 DEF Alone
    <3>2. /\ session_map_'[PortOf[c]] = session_map_[PortOf[c]] /\ session'[c] = session[c]
          /\ c \in socket_' <=> c \in socket_
      BY <1>0, <1>3, <2>2, <3>1
    <3>3. QED
      BY <1>1, <3>2 DEF Owned, Unserved, Served, Leaving, Left
  <2>3. QED
    BY <2>1, <2>2
<1>4. QED
  BY <1>2, <1>3 DEF Accept

LEMMA MessageOwned ==
  ASSUME SessionTypes, PortsInv, NEW c \in Conn, Alone(c),
         Owned(c), OnMessage
  PROVE  Owned(c)'
<1> USE DEF SessionTypes
<1>0. PortOf[c] \in Port
  BY SessionsAssumption
<1>1. UNCHANGED <<peer, session, socket_>>
  BY DEF OnMessage
<1>2. CASE queue = << >>
  BY <1>1, <1>2 DEF OnMessage, Owned, Unserved, Served, Leaving, Left
<1>3. CASE queue # << >>
  <2> DEFINE p == Head(queue)
  <2>1. p \in Port /\ queue' = Tail(queue)
    BY <1>3 DEF OnMessage
  <2>2. /\ ~Queued(queue, PortOf[c]) => ~Queued(queue', PortOf[c]) /\ p # PortOf[c]
        /\ Once(queue, PortOf[c]) => Once(queue', PortOf[c])
        /\ Once(queue, PortOf[c]) /\ p = PortOf[c] => ~Queued(queue', PortOf[c])
    BY <1>3, <2>1, TakenPort
  <2>3. CASE p # PortOf[c]
    <3>1. session_map_'[PortOf[c]] = session_map_[PortOf[c]]
      BY <1>0, <1>3, <2>1, <2>3 DEF OnMessage
    <3>2. c \in stop_' <=> c \in stop_
      BY <1>3, <2>1, <2>3 DEF OnMessage, PortsInv
    <3>3. QED
      BY <1>1, <2>2, <3>1, <3>2 DEF Owned, Unserved, Served, Leaving, Left
  <2>4. CASE p = PortOf[c]
    <3>1. Leaving(c) /\ session_map_[p] = c
      BY <2>2, <2>4 DEF Owned, Unserved, Served, Leaving, Left
    <3>2. session_map_'[p] = NoEntry /\ stop_' = stop_ \cup {c}
      BY <1>3, <2>1, <3>1 DEF OnMessage
    <3>3. QED
      BY <1>1, <2>2, <2>4, <3>1, <3>2 DEF Leaving, Left, Owned
  <2>5. QED
    BY <2>3, <2>4
<1>4. QED
  BY <1>2, <1>3

LEMMA OwnInvNext ==
  ASSUME SessionTypes, OwnInv, [SessionsNext]_sessionsVars
  PROVE  OwnInv'
<1> SUFFICES ASSUME NEW c \in Conn, Alone(c) PROVE Owned(c)'
  BY PortsNext DEF OwnInv, Alone
<1>1. Owned(c) /\ PortsInv
  BY DEF OwnInv
<1>2. ASSUME NEW d \in Conn, Session(d) PROVE Owned(c)'
  BY <1>1, <1>2, SessionOwned, OtherSession DEF Alone
<1>3. ASSUME NEW d \in Conn, Connect(d) \/ Close(d) PROVE Owned(c)'
  <2>1. peer[c] = "gone" => peer'[c] = "gone"
    BY <1>3 DEF Connect, Close, SessionTypes
  <2>2. UNCHANGED <<session_map_, queue, session, stop_, socket_>>
    BY <1>3 DEF Connect, Close, listener
  <2>3. QED
    BY <1>1, <2>1, <2>2 DEF Owned, Unserved, Served, Leaving, Left
<1>4. CASE UNCHANGED <<peer, session_map_, queue, session, stop_, socket_>>
  BY <1>1, <1>4 DEF Owned, Unserved, Served, Leaving, Left
<1>5. QED
  BY <1>1, <1>2, <1>3, <1>4, AcceptOwned, MessageOwned DEF SessionsNext, Server, Join,
     sessionsVars, listener, Call, Reply, Timeout, Returns, Receive

(* The types hold in every state. *)
LEMMA SessionTypesHold ==
  SessionsSpec => [](SessionTypes /\ CallTypes /\ JoinTypes)
<1>1. SessionTypes /\ CallTypes /\ JoinTypes /\ [SessionsNext]_sessionsVars
        => (SessionTypes /\ CallTypes /\ JoinTypes)'
  BY SessionTypesNext, CallTypesNext, JoinTypesNext
<1>2. QED
  BY <1>1, SessionTypesInit, PTL DEF SessionsSpec

(* Sessions: the type invariant; in it, that the server joins a session      *)
(* exactly when it has one to join.                                         *)
THEOREM SessionTypesCorrect ==
  SessionsSpec => []SessionsTypeOK
BY SessionTypesHold, TypesAre, PTL

LEMMA OwnInvHolds ==
  SessionsSpec => []OwnInv
<1>1. SessionsInit => OwnInv
  BY SessionsAssumption DEF SessionsInit, OwnInv, PortsInv, Owned, Unserved, Queued
<1>2. SessionTypes /\ OwnInv /\ [SessionsNext]_sessionsVars => OwnInv'
  BY OwnInvNext
<1>3. QED
  BY <1>1, <1>2, SessionTypesHold, PTL DEF SessionsSpec

(* Sessions: whatever connections share other ports, and whatever the server *)
(* loses or ends among those, one whose port is its own keeps its entry and  *)
(* its session until its peer has closed, and leaves no entry behind.        *)
THEOREM OwnPortsUndisturbed ==
  SessionsSpec => []Undisturbed
<1>1. OwnInv => Undisturbed
  BY DEF OwnInv, Owned, Unserved, Served, Leaving, Left, Undisturbed
<1>2. QED
  BY <1>1, OwnInvHolds, PTL

-----------------------------------------------------------------------------
(* What is under way between a client and its session, as sets of calls: the *)
(* replies it took, the frames it holds, what has come for it, and what it   *)
(* has sent.                                                                *)
Elems(s) == {s[i] : i \in 1..Len(s)}

Before(S, T) == \A x \in S, y \in T : x < y

Took(c) == {reply[c][k] : k \in CallId} \cap CallId

Held(c) == UNION {Elems(frames[c][i]) : i \in 1..Len(frames[c])}

Came(c) == Elems(toClient[c])

Sent(c) == Elems(toServer[c])

(* Each frame has something in it, and what is in a later one is later.     *)
FramesInv(c) ==
  /\ \A i \in 1..Len(frames[c]) : frames[c][i] # << >>
  /\ \A i, j \in 1..Len(frames[c]) : i < j => Before(Elems(frames[c][i]), Elems(frames[c][j]))

(* Nothing overtakes on the way from one of them to the next. *)
StreamInv(c) ==
  /\ Before(Took(c), Held(c) \cup Came(c) \cup Sent(c))
  /\ Before(Held(c), Came(c) \cup Sent(c))
  /\ Before(Came(c), Sent(c))
  /\ \A x \in Took(c) \cup Held(c) \cup Came(c) \cup Sent(c) : x <= call[c]

(* The call a reply is taken for, now or next, and the timeouts before it.  *)
Turn(c) == IF c \in waiting THEN call[c] ELSE call[c] + 1

Timeouts(results, k) == Cardinality({j \in 1..(k - 1) : results[j] = TimedOut})

(* What is under way is behind by the timeouts at most. *)
LagInv(c) ==
  peer[c] # "gone" =>
    \A x \in Held(c) \cup Came(c) \cup Sent(c) : x + Timeouts(reply[c], Turn(c)) >= Turn(c)

(* Only calls that have returned have a reply, and it is behind by the      *)
(* timeouts before it at most, and after those of the calls before.         *)
RepliesInv(c) ==
  /\ c \in waiting => peer[c] = "open" /\ call[c] > 0
  /\ \A k \in CallId : k >= Turn(c) => reply[c][k] = NoReply

Behind(c) ==
  \A k \in CallId :
    reply[c][k] \in CallId => k - reply[c][k] \in 0..Timeouts(reply[c], k)

Rising(c) ==
  \A j, k \in CallId :
    j < k /\ {reply[c][j], reply[c][k]} \subseteq CallId => reply[c][j] < reply[c][k]

(* The inductive invariant behind LagByTimeouts and InOrder. *)
Steady(c) ==
  /\ FramesInv(c) /\ StreamInv(c) /\ LagInv(c)
  /\ RepliesInv(c) /\ Behind(c) /\ Rising(c)

(* Sequences and what is in them. *)
LEMMA ElemsOf ==
  ASSUME NEW S, NEW s \in Seq(S)
  PROVE  /\ Elems(s) \subseteq S
         /\ Elems(<< >>) = {}
         /\ \A x \in S : Elems(Append(s, x)) = Elems(s) \cup {x}
         /\ s # << >> => Elems(s) # {} /\ Len(s) >= 1
         /\ Len(s) = 1 => s[1] \in Elems(s)
<1>1. Elems(s) \subseteq S /\ Elems(<< >>) = {}
  BY DEF Elems
<1>2. ASSUME NEW x \in S PROVE Elems(Append(s, x)) = Elems(s) \cup {x}
  <2>1. /\ Len(Append(s, x)) = Len(s) + 1 /\ Len(s) \in Nat
        /\ Append(s, x)[Len(s) + 1] = x
        /\ \A i \in 1..Len(s) : Append(s, x)[i] = s[i]
    OBVIOUS
  <2>2. \A i \in 1..(Len(s) + 1) : i = Len(s) + 1 \/ i \in 1..Len(s)
    BY <2>1
  <2>3. QED
    BY <2>1, <2>2 DEF Elems
<1>3. s # << >> => Len(s) \in Nat /\ Len(s) >= 1
  OBVIOUS
<1>4. s # << >> => s[1] \in Elems(s)
  BY <1>3 DEF Elems
<1>5. Len(s) = 1 => s[1] \in Elems(s)
  BY DEF Elems
<1>6. QED
  BY <1>1, <1>2, <1>3, <1>4, <1>5

LEMMA ElemsOfOne ==
  ASSUME NEW S, NEW s \in Seq(S), NEW t \in Seq(S), Len(t) = 1
  PROVE  Elems(s \o t) = Elems(s) \cup Elems(t)
<1>1. /\ Len(s) \in Nat /\ Len(s \o t) = Len(s) + 1 /\ (s \o t)[Len(s) + 1] = t[1]
      /\ \A i \in 1..Len(s) : (s \o t)[i] = s[i]
  <2>1. Len(s) \in Nat
    OBVIOUS
  <2>2. /\ Len(s \o t) = Len(s) + Len(t)
        /\ \A i \in 1..(Len(s) + Len(t)) :
             (s \o t)[i] = IF i <= Len(s) THEN s[i] ELSE t[i - Len(s)]
    BY ConcatProperties
  <2>3. (Len(s) + 1) - Len(s) = 1 /\ Len(s) + 1 \in 1..(Len(s) + Len(t))
    BY <2>1
  <2>4. QED
    BY <2>1, <2>2, <2>3
<1>2. \A i \in 1..(Len(s) + 1) : i = Len(s) + 1 \/ i \in 1..Len(s)
  BY <1>1
<1>3. QED
  BY <1>1, <1>2 DEF Elems

(* A list of frames that gains a frame, and one that loses its first. *)
LEMMA FrameAdded ==
  ASSUME CallTypes, NEW c \in Conn, NEW f \in Seq(CallId), frames'[c] = Append(frames[c],
         f),
         FramesInv(c), f # << >>, Before(Held(c), Elems(f))
  PROVE  FramesInv(c)' /\ Held(c)' = Held(c) \cup Elems(f)
<1> DEFINE n == Len(frames[c])
<1>0. frames[c] \in Seq(Seq(CallId))
  BY DEF CallTypes
<1>1. /\ n \in Nat /\ Len(frames'[c]) = n + 1 /\ frames'[c][n + 1] = f
      /\ \A i \in 1..n : frames'[c][i] = frames[c][i]
  BY <1>0
<1>2. \A i \in 1..(n + 1) : i = n + 1 \/ i \in 1..n
  BY <1>1
<1>3. \A i \in 1..n : Elems(frames[c][i]) \subseteq Held(c)
  BY DEF Held
<1> HIDE DEF n
<1>4. Held(c)' = Held(c) \cup Elems(f)
  BY <1>1, <1>2 DEF Held, n
<1>5. \A i \in 1..(n + 1) : frames'[c][i] # << >>
  BY <1>1, <1>2 DEF FramesInv, n
<1>6. ASSUME NEW i \in 1..(n + 1), NEW j \in 1..(n + 1), i < j
      PROVE  Before(Elems(frames'[c][i]), Elems(frames'[c][j]))
  <2>1. i \in 1..n
    BY <1>1, <1>6
  <2>2. CASE j = n + 1
    BY <1>1, <1>3, <2>1, <2>2 DEF Before
  <2>3. CASE j \in 1..n
    BY <1>1, <1>6, <2>1, <2>3 DEF FramesInv, n
  <2>4. QED
    BY <1>2, <2>2, <2>3
<1>7. QED
  BY <1>1, <1>4, <1>5, <1>6 DEF FramesInv

LEMMA FrameTaken ==
  ASSUME CallTypes, NEW c \in Conn, frames[c] # << >>, frames'[c] = Tail(frames[c]),
         FramesInv(c)
  PROVE  /\ FramesInv(c)' /\ Held(c)' \subseteq Held(c)
         /\ Head(frames[c]) \in Seq(CallId) /\ Head(frames[c]) # << >>
         /\ Elems(Head(frames[c])) \subseteq Held(c)
         /\ Before(Elems(Head(frames[c])), Held(c)')
<1> DEFINE n == Len(frames[c])
<1>0. frames[c] \in Seq(Seq(CallId))
  BY DEF CallTypes
<1>1. /\ n \in Nat /\ n > 0 /\ Len(frames'[c]) = n - 1 /\ Head(frames[c]) = frames[c][1]
      /\ \A i \in 1..(n - 1) : frames'[c][i] = frames[c][i + 1]
      /\ frames[c][1] \in Seq(CallId)
  BY <1>0
<1>2. \A i \in 1..(n - 1) : i + 1 \in 1..n /\ 1 < i + 1
  BY <1>1
<1>3. 1 \in 1..n
  BY <1>1
<1> HIDE DEF n
<1>4. Held(c)' \subseteq Held(c) /\ Elems(Head(frames[c])) \subseteq Held(c)
  BY <1>1, <1>2, <1>3 DEF Held, n
<1>5. Before(Elems(Head(frames[c])), Held(c)')
  BY <1>1, <1>2, <1>3 DEF Held, FramesInv, Before, n
<1>6. \A i \in 1..(n - 1) : frames'[c][i] # << >>
  BY <1>1, <1>2 DEF FramesInv, n
<1>7. ASSUME NEW i \in 1..(n - 1), NEW j \in 1..(n - 1), i < j
      PROVE  Before(Elems(frames'[c][i]), Elems(frames'[c][j]))
  <2>1. i + 1 \in 1..n /\ j + 1 \in 1..n /\ i + 1 < j + 1
    BY <1>1, <1>7
  <2>2. QED
    BY <1>1, <2>1 DEF FramesInv, n
<1>8. QED
  BY <1>1, <1>3, <1>4, <1>5, <1>6, <1>7 DEF FramesInv, n

LEMMA StreamTypes ==
  ASSUME CallTypes, NEW c \in Caller
  PROVE  /\ c \in Conn /\ call[c] \in Nat /\ Turn(c) \in Nat /\ CallId \subseteq Nat
         /\ Took(c) \subseteq Nat /\ Held(c) \subseteq Nat
         /\ Came(c) \subseteq Nat /\ Sent(c) \subseteq Nat
<1>1. c \in Conn /\ CallId \subseteq Nat
  BY SessionsAssumption DEF CallId
<1>2. call[c] \in Nat /\ Turn(c) \in Nat
  BY <1>1, SessionsAssumption DEF CallTypes, Turn
<1>3. Came(c) \subseteq Nat /\ Sent(c) \subseteq Nat
  BY <1>1, ElemsOf DEF CallTypes, Came, Sent
<1>4. Held(c) \subseteq Nat
  <2>1. \A i \in 1..Len(frames[c]) : frames[c][i] \in Seq(CallId)
    BY <1>1 DEF CallTypes
  <2>2. \A i \in 1..Len(frames[c]) : Elems(frames[c][i]) \subseteq CallId
    BY <2>1, ElemsOf
  <2>3. QED
    BY <1>1, <2>2 DEF Held
<1>5. QED
  BY <1>1, <1>2, <1>3, <1>4 DEF Took

LEMMA CountTimeouts ==
  ASSUME NEW results, NEW k \in Nat
  PROVE  /\ Timeouts(results, k) \in Nat
         /\ k > 0 => Timeouts(results, k + 1) =
                       IF results[k] = TimedOut THEN Timeouts(results, k) + 1
                       ELSE Timeouts(results, k)
<1> DEFINE T(n) == {j \in 1..(n - 1) : results[j] = TimedOut}
<1>1. IsFiniteSet(T(k))
  <2>1. T(k) \in SUBSET (1..(k - 1)) /\ IsFiniteSet(1..(k - 1))
    BY FS_Interval
  <2>2. QED
    BY <2>1, FS_Subset
<1>2. Cardinality(T(k)) \in Nat
  BY <1>1, FS_CardinalityType
<1>3. ASSUME k > 0
      PROVE  Cardinality(T(k + 1)) =
               IF results[k] = TimedOut THEN Cardinality(T(k)) + 1 ELSE Cardinality(T(k))
  <2>1. k \notin T(k) /\ T(k + 1) = IF results[k] = TimedOut THEN T(k) \cup {k} ELSE T(k)
    BY <1>3
  <2>2. QED
    BY <1>1, <2>1, FS_AddElement
<1>4. QED
  BY <1>2, <1>3 DEF Timeouts

LEMMA SameTimeouts ==
  ASSUME NEW results, NEW other, NEW k \in Nat, \A j \in 1..(k - 1) : results[j] = other[j]
  PROVE  Timeouts(results, k) = Timeouts(other, k)
<1>1. {j \in 1..(k - 1) : results[j] = TimedOut} = {j \in 1..(k - 1) : other[j] = TimedOut}
  OBVIOUS
<1>2. QED
  BY <1>1 DEF Timeouts

(* What the steps leave as it is. *)
SameReplies(c) ==
  reply'[c] = reply[c] /\ call'[c] = call[c] /\ (c \in waiting' <=> c \in waiting)

SameStream(c) == UNCHANGED <<frames[c], toClient[c], toServer[c]>>

LEMMA RepliesStay ==
  ASSUME CallTypes, NEW c \in Conn, SameReplies(c),
         peer'[c] = peer[c] \/ (peer[c] = "away" /\ peer'[c] = "open")
  PROVE  /\ Took(c)' = Took(c) /\ Turn(c)' = Turn(c)
         /\ Behind(c) => Behind(c)'
         /\ Rising(c) => Rising(c)'
         /\ RepliesInv(c) => RepliesInv(c)'
<1>1. Took(c)' = Took(c)
  BY DEF SameReplies, Took
<1>2. Turn(c)' = Turn(c)
  BY DEF SameReplies, Turn
<1>3. Behind(c) => Behind(c)'
  BY DEF SameReplies, Behind
<1>4. Rising(c) => Rising(c)'
  BY DEF SameReplies, Rising
<1>5. RepliesInv(c) => RepliesInv(c)'
  BY <1>2 DEF SameReplies, RepliesInv
<1>6. QED
  BY <1>1, <1>2, <1>3, <1>4, <1>5

LEMMA UnmovedSteady ==
  ASSUME CallTypes, NEW c \in Conn, Steady(c), SameReplies(c), SameStream(c),
         peer'[c] = peer[c] \/ (peer[c] = "away" /\ peer'[c] = "open")
  PROVE  Steady(c)'
<1>1. Held(c)' = Held(c) /\ Came(c)' = Came(c) /\ Sent(c)' = Sent(c)
  BY DEF SameStream, Held, Came, Sent
<1>2. FramesInv(c)'
  BY DEF Steady, SameStream, FramesInv
<1>3. StreamInv(c)'
  BY <1>1, RepliesStay DEF Steady, SameReplies, StreamInv
<1>4. LagInv(c)'
  <2>1. peer'[c] # "gone" => peer[c] # "gone"
    OBVIOUS
  <2>2. QED
    BY <1>1, <2>1, RepliesStay DEF Steady, SameReplies, LagInv
<1>5. QED
  BY <1>2, <1>3, <1>4, RepliesStay DEF Steady

(* The session's steps: what was sent is dropped, or comes back. *)
LEMMA SessionSteady ==
  ASSUME CallTypes, NEW c \in Caller, Steady(c), Session(c)
  PROVE  Steady(c)'
<1>0. c \in Conn
  BY StreamTypes
<1>1. SameReplies(c) /\ peer' = peer /\ frames'[c] = frames[c]
  BY DEF Session, Serve, PollAgain, calls, SameReplies
<1>2. Held(c)' = Held(c) /\ FramesInv(c)'
  BY <1>1 DEF Held, FramesInv, Steady
<1>3. \/ SameStream(c)
      \/ toClient'[c] = toClient[c] /\ toServer'[c] = << >>
      \/ /\ Len(toServer[c]) = 1 /\ toServer'[c] = << >>
         /\ toClient'[c] = toClient[c] \o toServer[c]
  BY <1>0, <1>1 DEF Session, Serve, PollAgain, Poll, SameStream, CallTypes
<1>4. toServer[c] \in Seq(CallId) /\ toClient[c] \in Seq(CallId)
  BY <1>0 DEF CallTypes
<1>5. \/ Came(c)' = Came(c) /\ Sent(c)' = Sent(c)
      \/ Came(c)' = Came(c) /\ Sent(c)' = {}
      \/ Came(c)' = Came(c) \cup Sent(c) /\ Sent(c)' = {}
  <2>1. Elems(<< >>) = {}
    BY DEF Elems
  <2>2. Len(toServer[c]) = 1 =>
          Elems(toClient[c] \o toServer[c]) = Elems(toClient[c]) \cup Elems(toServer[c])
    BY <1>4, ElemsOfOne
  <2>3. QED
    BY <1>3, <2>1, <2>2 DEF SameStream, Came, Sent
<1>6. StreamInv(c)'
  BY <1>0, <1>1, <1>2, <1>5, RepliesStay DEF Steady, StreamInv, Before, SameReplies
<1>7. LagInv(c)'
  BY <1>0, <1>1, <1>2, <1>5, RepliesStay DEF Steady, LagInv, SameReplies
<1>8. QED
  BY <1>0, <1>1, <1>2, <1>6, <1>7, RepliesStay DEF Steady

LEMMA CloseSteady ==
  ASSUME CallTypes, SessionTypes, NEW c \in Caller, Steady(c),
         Close(c)
  PROVE  Steady(c)'
<1>0. c \in Conn
  BY StreamTypes
<1>1. /\ frames'[c] = << >> /\ toClient'[c] = << >> /\ toServer'[c] = toServer[c]
      /\ reply'[c] = reply[c] /\ call'[c] = call[c] /\ c \notin waiting'
      /\ peer'[c] = "gone"
  BY <1>0 DEF Close, CallTypes, SessionTypes
<1>2. Held(c)' = {} /\ Came(c)' = {} /\ Sent(c)' = Sent(c) /\ Took(c)' = Took(c)
  BY <1>1 DEF Held, Came, Sent, Took, Elems
<1>3. FramesInv(c)' /\ LagInv(c)'
  BY <1>1 DEF FramesInv, LagInv
<1>4. StreamInv(c)'
  BY <1>1, <1>2 DEF Steady, StreamInv, Before
<1>5. RepliesInv(c)'
  BY <1>0, <1>1, SessionsAssumption DEF Steady, RepliesInv, Turn, CallTypes, CallId
<1>6. Behind(c)' /\ Rising(c)'
  BY <1>1 DEF Steady, Behind, Rising
<1>7. QED
  BY <1>3, <1>4, <1>5, <1>6 DEF Steady

(* The client's steps. *)
LEMMA CallSteady ==
  ASSUME CallTypes, NEW c \in Caller, Steady(c), Call(c)
  PROVE  Steady(c)'
<1> DEFINE n == call[c] + 1
<1>0. c \in Conn /\ call[c] \in Nat /\ n \in CallId /\ toServer[c] \in Seq(CallId)
  BY StreamTypes, SessionsAssumption DEF Call, CallId, CallTypes
<1>1. /\ call'[c] = n /\ toServer'[c] = Append(toServer[c], n) /\ c \in waiting'
      /\ c \notin waiting /\ peer[c] = "open"
      /\ UNCHANGED <<peer, frames[c], toClient[c], reply[c]>>
  BY <1>0 DEF Call, CallTypes
<1>2. /\ Held(c)' = Held(c) /\ Came(c)' = Came(c) /\ Took(c)' = Took(c)
      /\ Sent(c)' = Sent(c) \cup {n} /\ Turn(c)' = n /\ Turn(c) = n
  BY <1>0, <1>1, ElemsOf DEF Held, Came, Took, Sent, Turn
<1> HIDE DEF n
<1>3. n > call[c] /\ n \in Nat
  BY <1>0 DEF n
<1>4. FramesInv(c)'
  BY <1>1 DEF Steady, FramesInv
<1>5. StreamInv(c)'
  BY <1>0, <1>1, <1>2, <1>3, StreamTypes DEF Steady, StreamInv, Before
<1>6. LagInv(c)'
  BY <1>1, <1>2, <1>3, CountTimeouts DEF Steady, LagInv
<1>7. RepliesInv(c)'
  BY <1>0, <1>1, <1>2, <1>3 DEF Steady, RepliesInv
<1>8. Behind(c)' /\ Rising(c)'
  BY <1>1 DEF Steady, Behind, Rising
<1>9. QED
  BY <1>4, <1>5, <1>6, <1>7, <1>8 DEF Steady

LEMMA ReceiveSteady ==
  ASSUME CallTypes, NEW c \in Caller, Steady(c), Receive(c)
  PROVE  Steady(c)'
<1>0. c \in Conn /\ toClient[c] \in Seq(CallId) /\ toClient[c] # << >>
  BY StreamTypes DEF Receive, CallTypes
<1>1. /\ SameReplies(c) /\ peer' = peer /\ toClient'[c] = << >> /\ toServer'[c] = toServer[c]
      /\ frames'[c] = frames[c] \/ frames'[c] = Append(frames[c], toClient[c])
  BY <1>0 DEF Receive, SameReplies, CallTypes
<1>2. Came(c)' = {} /\ Sent(c)' = Sent(c)
  BY <1>1 DEF Came, Sent, Elems
<1>3. Before(Held(c), Came(c))
  BY DEF Steady, StreamInv, Before
<1>4. FramesInv(c)' /\ (Held(c)' = Held(c) \/ Held(c)' = Held(c) \cup Came(c))
  <2>1. CASE frames'[c] = frames[c]
    BY <2>1 DEF Steady, FramesInv, Held
  <2>2. CASE frames'[c] = Append(frames[c], toClient[c])
    BY <1>0, <1>3, <2>2, FrameAdded DEF Steady, Came
  <2>3. QED
    BY <1>1, <2>1, <2>2
<1>5. StreamInv(c)'
  BY <1>0, <1>1, <1>2, <1>4, RepliesStay DEF Steady, StreamInv, Before, SameReplies
<1>6. LagInv(c)'
  BY <1>0, <1>1, <1>2, <1>4, RepliesStay DEF Steady, LagInv, SameReplies
<1>7. QED
  BY <1>0, <1>1, <1>4, <1>5, <1>6, RepliesStay DEF Steady

(* A call that returns, with a reply or without. *)
LEMMA ReturnsSteady ==
  ASSUME CallTypes, NEW c \in Caller, Steady(c), c \in waiting,
         NEW r \in CallId \cup {TimedOut, Invalid, NoReply},
         Returns(c, r), r # NoReply,
         FramesInv(c)', Held(c)' \subseteq Held(c),
         r \in CallId => r \in Held(c) /\ Before({r}, Held(c)'),
         r # TimedOut =>
           \E x \in Held(c) : Before({x}, Held(c)') /\ Before({x}, Came(c) \cup Sent(c))
  PROVE  Steady(c)'
<1> DEFINE n == call[c]
           T(k) == Timeouts(reply[c], k)
<1>0. c \in Conn /\ n \in Nat /\ n > 0 /\ n \in CallId /\ peer[c] = "open"
  BY StreamTypes DEF Steady, RepliesInv, CallTypes, CallId
<1>1. /\ call' = call /\ reply'[c] = [reply[c] EXCEPT ![n] = r] /\ c \notin waiting'
      /\ UNCHANGED <<peer, toServer, toClient>>
  BY <1>0 DEF Returns, CallTypes
<1>2. reply[c][n] = NoReply /\ \A k \in CallId : k > n => reply[c][k] = NoReply
  BY <1>0, StreamTypes DEF Steady, RepliesInv, Turn
<1>3. reply'[c][n] = r /\ \A k \in CallId : k # n => reply'[c][k] = reply[c][k]
  BY <1>0, <1>1 DEF CallTypes, Results
<1>4. Turn(c) = n /\ Turn(c)' = n + 1 /\ Came(c)' = Came(c) /\ Sent(c)' = Sent(c)
  BY <1>1 DEF Turn, Came, Sent
<1>5. Took(c)' \subseteq Took(c) \cup ({r} \cap CallId)
  BY <1>3 DEF Took
<1>6. NoReply \notin CallId /\ CallId \subseteq Nat
  BY StreamTypes, SessionsAssumption
<1> HIDE DEF n, T
<1>7. StreamInv(c)'
  <2>1. Before(Took(c)', Held(c)' \cup Came(c) \cup Sent(c))
    BY <1>5 DEF Steady, StreamInv, Before
  <2>2. Before(Held(c)', Came(c) \cup Sent(c))
    BY DEF Steady, StreamInv, Before
  <2>3. \A x \in Took(c)' \cup Held(c)' \cup Came(c) \cup Sent(c) : x <= call[c]
    BY <1>5 DEF Steady, StreamInv
  <2>4. QED
    BY <1>1, <1>4, <2>1, <2>2, <2>3 DEF Steady, StreamInv
<1>8. /\ T(n) \in Nat
      /\ Timeouts(reply'[c], n + 1) = IF r = TimedOut THEN T(n) + 1 ELSE T(n)
  <2>1. \A j \in 1..(n - 1) : j \in CallId /\ j # n
    BY <1>0, SessionsAssumption DEF CallId
  <2>2. Timeouts(reply'[c], n) = T(n)
    BY <1>0, <1>3, <2>1, SameTimeouts DEF T
  <2>3. QED
    BY <1>0, <1>3, <2>2, CountTimeouts DEF T
<1>9. LagInv(c)'
  <2>1. \A x \in Held(c) \cup Came(c) \cup Sent(c) : x + T(n) >= n /\ x \in Nat
    BY <1>0, <1>4, StreamTypes DEF Steady, LagInv, T
  <2> SUFFICES ASSUME NEW x \in Held(c)' \cup Came(c) \cup Sent(c)
               PROVE  x + Timeouts(reply'[c], n + 1) >= n + 1
    BY <1>1, <1>4 DEF LagInv
  <2>2. CASE r = TimedOut
    BY <1>0, <1>8, <2>1, <2>2
  <2>3. CASE r # TimedOut
    <3>1. PICK y \in Held(c) : y < x
      BY <2>3 DEF Before
    <3>2. QED
      BY <1>0, <1>8, <2>1, <2>3, <3>1
  <2>4. QED
    BY <2>2, <2>3
<1>10. RepliesInv(c)'
  BY <1>0, <1>1, <1>2, <1>3, <1>4, <1>6 DEF RepliesInv
<1>11. Behind(c)'
  <2> SUFFICES ASSUME NEW k \in CallId, reply'[c][k] \in CallId
               PROVE  k - reply'[c][k] \in 0..Timeouts(reply'[c], k)
    BY DEF Behind
  <2>1. k <= n /\ k \in Nat
    BY <1>0, <1>2, <1>3, <1>6
  <2>2. Timeouts(reply'[c], k) = T(k)
    <3>1. \A j \in 1..(k - 1) : j \in CallId /\ j # n
      BY <1>0, <2>1, SessionsAssumption DEF CallId
    <3>2. QED
      BY <1>3, <2>1, <3>1, SameTimeouts DEF T
  <2>3. CASE k # n
    BY <1>3, <2>2, <2>3 DEF Steady, Behind, T
  <2>4. CASE k = n
    <3>1. r \in Held(c) /\ r \in Nat /\ r <= n
      BY <1>3, <1>6, <2>4 DEF Steady, StreamInv, n
    <3>2. r + T(n) >= n
      BY <1>0, <1>4, <3>1 DEF Steady, LagInv, T
    <3>3. QED
      BY <1>0, <1>3, <1>8, <2>2, <2>4, <3>1, <3>2
  <2>5. QED
    BY <2>3, <2>4
<1>12. Rising(c)'
  <2> SUFFICES ASSUME NEW j \in CallId, NEW k \in CallId, j < k,
                      reply'[c][j] \in CallId, reply'[c][k] \in CallId
               PROVE  reply'[c][j] < reply'[c][k]
    BY DEF Rising
  <2>1. k <= n /\ j # n
    BY <1>0, <1>2, <1>3, <1>6
  <2>2. CASE k # n
    BY <1>3, <2>1, <2>2 DEF Steady, Rising
  <2>3. CASE k = n
    <3>1. r \in Held(c) /\ reply[c][j] \in Took(c)
      BY <1>3, <2>1, <2>3 DEF Took
    <3>2. QED
      BY <1>3, <2>1, <2>3, <3>1 DEF Steady, StreamInv, Before
  <2>4. QED
    BY <2>2, <2>3
<1>13. QED
  BY <1>7, <1>9, <1>10, <1>11, <1>12 DEF Steady

LEMMA ReplySteady ==
  ASSUME CallTypes, NEW c \in Caller, Steady(c),
         Reply(c) \/ Timeout(c)
  PROVE  Steady(c)'
<1>0. c \in Conn /\ CallId \subseteq Nat
  BY StreamTypes
<1>1. CASE Timeout(c)
  <2>1. FramesInv(c)' /\ Held(c)' = Held(c)
    BY <1>1 DEF Timeout, Steady, FramesInv, Held
  <2>2. TimedOut \notin CallId /\ TimedOut # NoReply
    BY <1>0, SessionsAssumption
  <2>3. QED
    BY <1>1, <2>1, <2>2, ReturnsSteady DEF Timeout
<1>2. CASE Reply(c)
  <2> DEFINE f == Head(frames[c])
             r == IF Len(f) = 1 THEN f[1] ELSE Invalid
  <2>1. frames[c] # << >> /\ frames'[c] = Tail(frames[c]) /\ Returns(c, r) /\ c \in waiting
    BY <1>0, <1>2 DEF Reply, CallTypes
  <2>2. /\ FramesInv(c)' /\ Held(c)' \subseteq Held(c) /\ f \in Seq(CallId) /\ f # << >>
        /\ Elems(f) \subseteq Held(c) /\ Before(Elems(f), Held(c)')
    BY <1>0, <2>1, FrameTaken DEF Steady
  <2>3. Elems(f) # {} /\ (Len(f) = 1 => f[1] \in Elems(f))
    BY <2>2, ElemsOf
  <2>4. Invalid \notin CallId /\ TimedOut \notin CallId /\ NoReply \notin CallId
        /\ Invalid # NoReply
    BY <1>0, SessionsAssumption
  <2> HIDE DEF f
  <2>5. /\ r \in CallId \cup {TimedOut, Invalid, NoReply} /\ r # NoReply
        /\ r \in CallId => r \in Elems(f)
    BY <2>2, <2>3, <2>4, ElemsOf
  <2> HIDE DEF r
  <2>6. PICK x \in Elems(f) : TRUE
    BY <2>3
  <2>7. x \in Held(c) /\ Before({x}, Held(c)') /\ Before({x}, Came(c) \cup Sent(c))
    BY <2>2 DEF Steady, StreamInv, Before
  <2>8. r \in CallId => r \in Held(c) /\ Before({r}, Held(c)')
    BY <2>2, <2>5 DEF Before
  <2>9. QED
    BY <2>1, <2>2, <2>5, <2>7, <2>8, ReturnsSteady
<1>3. QED
  BY <1>1, <1>2

LEMMA SteadyNext ==
  ASSUME SessionTypes, CallTypes, NEW c \in Caller, Steady(c),
         [SessionsNext]_sessionsVars
  PROVE  Steady(c)'
<1>0. c \in Conn /\ Caller \subseteq Conn
  BY SessionsAssumption
<1>1. ASSUME NEW d \in Conn, Session(d) PROVE Steady(c)'
  <2>1. CASE d # c
    BY <1>0, <1>1, <2>1, UnmovedSteady DEF Session, Serve, PollAgain, Poll,
       calls, SameReplies, SameStream, CallTypes
  <2>2. QED
    BY <1>1, <2>1, SessionSteady
<1>2. ASSUME NEW d \in Conn, Connect(d) PROVE Steady(c)'
  BY <1>0, <1>2, UnmovedSteady DEF Connect, calls, SameReplies, SameStream,
     SessionTypes
<1>3. ASSUME NEW d \in Conn, Close(d) PROVE Steady(c)'
  <2>1. CASE d # c
    BY <1>0, <1>3, <2>1, UnmovedSteady DEF Close, SameReplies, SameStream, SessionTypes,
       CallTypes
  <2>2. QED
    BY <1>3, <2>1, CloseSteady
<1>4. ASSUME NEW d \in Caller, d # c,
             Call(d) \/ Reply(d) \/ Timeout(d) \/ Receive(d)
      PROVE  Steady(c)'
  <2>1. SameReplies(c)
    BY <1>0, <1>4 DEF Call, Reply, Timeout, Returns, Receive,
       SameReplies, CallTypes
  <2>2. SameStream(c) /\ peer'[c] = peer[c]
    BY <1>0, <1>4 DEF Call, Reply, Timeout, Returns, Receive,
       SameStream, CallTypes
  <2>3. QED
    BY <1>0, <2>1, <2>2, UnmovedSteady
<1>5. CASE Server \/ UNCHANGED sessionsVars
  BY <1>0, <1>5, UnmovedSteady DEF Server, Accept, OnMessage, Join,
     sessionsVars, calls, SameReplies, SameStream
<1>6. QED
  BY <1>1, <1>2, <1>3, <1>4, <1>5, CallSteady, ReplySteady, ReceiveSteady DEF SessionsNext

LEMMA SteadyInit ==
  ASSUME SessionsInit, NEW c \in Caller
  PROVE  Steady(c)
<1>0. c \in Conn /\ NoReply \notin CallId
  BY SessionsAssumption DEF CallId
<1>1. Held(c) = {} /\ Came(c) = {} /\ Sent(c) = {}
  BY <1>0 DEF SessionsInit, Held, Came, Sent, Elems
<1>2. FramesInv(c)
  BY <1>0 DEF SessionsInit, FramesInv
<1>3. \A k \in CallId : reply[c][k] = NoReply
  BY <1>0 DEF SessionsInit
<1>4. Took(c) = {} /\ Behind(c) /\ Rising(c)
  BY <1>0, <1>3 DEF Took, Behind, Rising
<1>5. RepliesInv(c)
  BY <1>3 DEF SessionsInit, RepliesInv
<1>6. StreamInv(c) /\ LagInv(c)
  BY <1>1, <1>4 DEF StreamInv, LagInv, Before
<1>7. QED
  BY <1>2, <1>4, <1>5, <1>6 DEF Steady

LEMMA SteadyHolds ==
  SessionsSpec => [](\A c \in Caller : Steady(c))
<1>1. SessionsInit => \A c \in Caller : Steady(c)
  BY SteadyInit
<1>2. /\ SessionTypes /\ CallTypes /\ JoinTypes
      /\ \A c \in Caller : Steady(c)
      /\ [SessionsNext]_sessionsVars
     => (\A c \in Caller : Steady(c))'
  BY SteadyNext
<1>3. QED
  BY <1>1, <1>2, SessionTypesHold, PTL DEF SessionsSpec

(* Sessions: the reply a call takes is its own or that of a call before it,  *)
(* as many before as there were timeouts in between at most, whatever the    *)
(* session drops and the list of frames loses.                               *)
THEOREM RepliesAreBehind ==
  SessionsSpec => []LagByTimeouts
<1>1. \A set : Cardinality(set) = Cardinality(set)
  BY DEF Cardinality, Cardinality
<1>2. (\A c \in Caller : Steady(c)) => LagByTimeouts
  BY <1>1 DEF Steady, Behind, Timeouts, LagByTimeouts
<1>3. QED
  BY <1>2, SteadyHolds, PTL

(* Sessions: the calls of a client take replies in the order of the calls    *)
(* these belong to, and none twice.                                          *)
THEOREM RepliesInOrder ==
  SessionsSpec => []InOrder
<1>1. (\A c \in Caller : Steady(c)) => InOrder
  BY DEF Steady, Rising, InOrder
<1>2. QED
  BY <1>1, SteadyHolds, PTL

-----------------------------------------------------------------------------
(* The limit of sessions.  The server accepts while it is not reached, but a *)
(* lookup of a port that has no entry makes one all the same.  If no two     *)
(* connections share a port, no such port is ever posted.                    *)
Posted == \A i \in 1..Len(queue) : \E c \in Conn : queue[i] = PortOf[c]

SlotInv == Posted /\ Cardinality(Entries) <= MaxSessions

LEMMA PostedNext ==
  ASSUME SessionTypes, Posted, [SessionsNext]_sessionsVars
  PROVE  Posted'
<1> USE DEF SessionTypes
<1>0. queue \in Seq(Port)
  OBVIOUS
<1>1. CASE UNCHANGED queue
  BY <1>1 DEF Posted
<1>2. ASSUME NEW c \in Conn, queue' = Append(queue, PortOf[c]) PROVE Posted'
  <2>1. PortOf[c] \in Port
    BY SessionsAssumption
  <2>2. QED
    BY <1>0, <1>2, <2>1 DEF Posted
<1>3. CASE queue # << >> /\ queue' = Tail(queue)
  <2>1. /\ Len(queue') = Len(queue) - 1 /\ Len(queue) \in Nat
        /\ \A i \in 1..Len(queue') : queue'[i] = queue[i + 1]
    BY <1>0, <1>3
  <2>2. QED
    BY <2>1 DEF Posted
<1>4. \A c \in Conn : Session(c) => UNCHANGED queue \/ queue' = Append(queue, PortOf[c])
  BY DEF Session, Serve, PollAgain, Poll, Disconnect
<1>5. OnMessage => UNCHANGED queue \/ (queue # << >> /\ queue' = Tail(queue))
  BY DEF OnMessage
<1>6. QED
  BY <1>1, <1>2, <1>3, <1>4, <1>5 DEF SessionsNext, Server, Accept, Join,
     sessionsVars, listener, Connect, Close, Call, Reply, Timeout,
     Returns, Receive

LEMMA EntriesNext ==
  ASSUME IsFiniteSet(Port), \A c \in Conn : Alone(c),
         SessionTypes, OwnInv, SlotInv, [SessionsNext]_sessionsVars
  PROVE  Cardinality(Entries)' <= MaxSessions
<1> USE DEF SessionTypes
<1>0. IsFiniteSet(Entries) /\ Cardinality(Entries) \in Nat /\ MaxSessions \in Nat
  <2>1. Entries \in SUBSET Port
    BY DEF Entries
  <2>2. QED
    BY <2>1, FS_Subset, FS_CardinalityType, SessionsAssumption
<1>1. CASE Entries' \subseteq Entries
  <2>1. Cardinality(Entries)' <= Cardinality(Entries)
    BY <1>0, <1>1, FS_Subset
  <2>2. Cardinality(Entries)' \in Nat
    BY <1>0, <1>1, FS_Subset, FS_CardinalityType
  <2>3. QED
    BY <1>0, <2>1, <2>2 DEF SlotInv
<1>2. CASE Accept
  <2>1. CASE UNCHANGED session_map_
    BY <1>1, <2>1 DEF Entries
  <2>2. CASE UNCHANGED session_map_ => FALSE
    <3>1. PICK c \in Conn : session_map_' = [session_map_ EXCEPT ![PortOf[c]] = c]
      BY <1>2, <2>2 DEF Accept
    <3>2. Cardinality(Entries) < MaxSessions
      BY <1>2, <2>2 DEF Accept
    <3>3. Cardinality(Entries) < MaxSessions
      BY <3>2 DEF Cardinality, Cardinality
    <3>4. Entries' \subseteq Entries \cup {PortOf[c]}
      BY <3>1 DEF Entries
    <3>5. /\ IsFiniteSet(Entries \cup {PortOf[c]})
          /\ Cardinality(Entries \cup {PortOf[c]}) <= Cardinality(Entries) + 1
      <4>1. IsFiniteSet(Entries) /\ Cardinality(Entries) \in Nat
        BY <1>0
      <4> DEFINE E == Entries
                 p == PortOf[c]
      <4> HIDE DEF E, p
      <4>2. IsFiniteSet(E) /\ Cardinality(E) \in Nat
        BY <4>1 DEF E
      <4>3. /\ IsFiniteSet(E \cup {p})
            /\ Cardinality(E \cup {p}) =
                 IF p \in E THEN Cardinality(E) ELSE Cardinality(E) + 1
        BY <4>2, FS_AddElement
      <4>4. Cardinality(E \cup {p}) <= Cardinality(E) + 1
        BY <4>2, <4>3
      <4>5. QED
        BY <4>3, <4>4 DEF E, p
    <3>6. /\ Cardinality(Entries)' <= Cardinality(Entries \cup {PortOf[c]})
          /\ Cardinality(Entries)' \in Nat
          /\ Cardinality(Entries \cup {PortOf[c]}) \in Nat
      BY <3>4, <3>5, FS_Subset, FS_CardinalityType
    <3>7. QED
      BY <1>0, <3>3, <3>5, <3>6
  <2>3. QED
    BY <2>1, <2>2
<1>3. CASE OnMessage
  <2>1. CASE queue = << >>
    BY <1>1, <1>3, <2>1 DEF OnMessage, Entries
  <2>2. CASE queue # << >>
    <3>1. Len(queue) > 0 /\ Head(queue) = queue[1] /\ 1 \in 1..Len(queue)
      BY <2>2
    <3>2. PICK c \in Conn : Head(queue) = PortOf[c]
      BY <3>1 DEF SlotInv, Posted
    <3>3. session_map_[Head(queue)] # NoEntry
      <4>1. Queued(queue, PortOf[c])
        BY <3>1, <3>2 DEF Queued
      <4>2. Leaving(c) \/ Served(c)
        BY <4>1 DEF OwnInv, Owned, Unserved, Served, Leaving, Left
      <4>3. QED
        BY <3>2, <4>2, SessionsAssumption DEF Leaving, Served
    <3>4. Entries' \subseteq Entries
      BY <1>3, <2>2, <3>3 DEF OnMessage, Entries
    <3>5. QED
      BY <1>1, <3>4
  <2>3. QED
    BY <2>1, <2>2
<1>4. CASE UNCHANGED session_map_
  BY <1>1, <1>4 DEF Entries
<1>5. QED
  BY <1>2, <1>3, <1>4 DEF SessionsNext, Server, Join, sessionsVars, listener,
     Connect, Close, Session, Serve, PollAgain, Call, Reply,
     Timeout, Returns, Receive

(* Sessions: with all ports distinct the server never has more entries than  *)
(* max_session_count_.  The hypothesis is needed: a shared port that is      *)
(* posted twice leaves a null entry, and no limit is looked at when a lookup *)
(* makes that.                                                               *)
THEOREM SlotsAreLimited ==
  ASSUME IsFiniteSet(Port), \A c \in Conn : Alone(c)
  PROVE  SessionsSpec => [](Cardinality(Entries) <= MaxSessions)
<1>1. SessionsInit => SlotInv
  <2> SUFFICES ASSUME SessionsInit PROVE SlotInv
    OBVIOUS
  <2>1. Entries = {} /\ Posted
    BY DEF SessionsInit, Entries, Posted
  <2>2. QED
    BY <2>1, FS_EmptySet, SessionsAssumption DEF SlotInv
<1>2. SessionTypes /\ OwnInv /\ SlotInv /\ [SessionsNext]_sessionsVars => SlotInv'
  BY PostedNext, EntriesNext DEF SlotInv
<1>3. QED
  BY <1>1, <1>2, SessionTypesHold, OwnInvHolds, PTL DEF SessionsSpec, SlotInv

=============================================================================
