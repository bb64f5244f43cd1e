-------------------------- MODULE MCRegistryWatcher --------------------------
(* The owner's thread and two threads of the pool.                         *)
EXTENDS RegistryWatcher

CONSTANTS p1, p2

MCPool == {p1, p2}
==============================================================================
