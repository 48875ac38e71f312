----------------------------- MODULE ObjectStore -----------------------------
(***************************************************************************)
(* What the registry of the gateway promises of its endpoints to those who *)
(* create and destroy them: a set on disk that only their calls change.  A *)
(* call takes effect once, before it is answered; a destruction is refused *)
(* only when there is nothing to destroy; after a crash the calls in       *)
(* flight have taken effect or have not, and all others are as answered.   *)
(***************************************************************************)
CONSTANTS Client, Endpoint, NoCall

VARIABLES
  stored,  (* the endpoints                                                 *)
  call     (* the call of each client                                       *)

Call == [op : {"add", "del"}, endpoint : Endpoint, stage : {"begun", "done"}]

Init ==
  /\ stored = {}
  /\ call = [c \in Client |-> NoCall]

Begin(c) ==
  /\ call[c] = NoCall
  /\ \E k \in Call : k.stage = "begun" /\ call' = [call EXCEPT ![c] = k]
  /\ UNCHANGED stored

Commit(c) ==
  /\ call[c] # NoCall
  /\ call[c].stage = "begun"
  /\ call' = [call EXCEPT ![c] = [@ EXCEPT !.stage = "done"]]
  /\ stored' = IF call[c].op = "add" THEN stored \cup {call[c].endpoint}
               ELSE stored \ {call[c].endpoint}

Refuse(c) ==
  /\ call[c] # NoCall
  /\ call[c].op = "del"
  /\ call[c].endpoint \notin stored
  /\ call' = [call EXCEPT ![c] = NoCall]
  /\ UNCHANGED stored

Return(c) ==
  /\ call[c] # NoCall
  /\ call[c].stage = "done"
  /\ call' = [call EXCEPT ![c] = NoCall]
  /\ UNCHANGED stored

Crash ==
  /\ call' = [c \in Client |-> NoCall]
  /\ UNCHANGED stored

Next ==
  \/ \E c \in Client : Begin(c) \/ Commit(c) \/ Refuse(c) \/ Return(c)
  \/ Crash

Spec == Init /\ [][Next]_<<stored, call>>

=============================================================================
