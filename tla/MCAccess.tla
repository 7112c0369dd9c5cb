------------------------------ MODULE MCAccess ------------------------------
(* Two requests at a time, two tenants, three keys, a bucket of one request.  *)
EXTENDS Access, TLC

Symmetric == Permutations(Thread) \cup Permutations(Key) \cup Permutations(Tenant)
=============================================================================
