------------------------------ MODULE MCResolver ------------------------------
(* Two threads that resolve one name, a TTL of one tick of a clock that runs  *)
(* for two: entries expire, and a fetch can take longer than the TTL.  The    *)
(* first metadata version has no vault_path, the second has one.              *)
EXTENDS Resolver, TLC

Symmetry == Permutations(Threads)
=============================================================================
