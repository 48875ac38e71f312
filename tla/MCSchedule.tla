----------------------------- MODULE MCSchedule -----------------------------
(* Instances of EndpointSchedule: endpoint 1 is read every second, endpoint *)
(* 2 every other second.                                                    *)
EXTENDS EndpointSchedule

MCInterval == [e \in Endpoint |-> e]

=============================================================================
