------------------------------ MODULE MCRegistry ------------------------------
(* An instance of Registry: the two clients are alike. *)
EXTENDS Registry, TLC

ClientsAlike == Permutations(Client)

=============================================================================
