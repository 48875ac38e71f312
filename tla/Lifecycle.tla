----------------------------- MODULE Lifecycle ------------------------------
(***************************************************************************)
(* What the callers of an ActiveObject can rely on when its Preprocess is  *)
(* always in time: the object is used up once.  It is started at most once *)
(* and comes to an end at most once; a Stop before the first Start retires *)
(* it without its ever having run.                                         *)
(***************************************************************************)
VARIABLE phase

Phases == {"fresh", "starting", "running", "stopping", "ended", "retired"}

Init == phase = "fresh"

Become(from, to) == phase = from /\ phase' = to

Start  == Become("fresh", "starting")
Ready  == Become("starting", "running")
Stop   == Become("running", "stopping")
End    == Become("stopping", "ended")
Retire == Become("fresh", "retired")

Next == Start \/ Ready \/ Stop \/ End \/ Retire

(* A started object becomes ready and a stopped one ends; nobody has to     *)
(* start or stop it.                                                        *)
Spec == Init /\ [][Next]_phase /\ WF_phase(Ready) /\ WF_phase(End)

=============================================================================
