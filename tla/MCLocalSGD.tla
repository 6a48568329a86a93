----------------------------- MODULE MCLocalSGD -----------------------------
(* Instances of LocalSGD for TLC. *)
EXTENDS LocalSGD

MCAlgorithms == {[name |-> "LocalSGD", delay |-> 0],
                 [name |-> "DiLoCo", delay |-> 0],
                 [name |-> "DiLoCo", delay |-> 1]}
=============================================================================
