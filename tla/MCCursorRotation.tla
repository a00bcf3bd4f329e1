------------------------- MODULE MCCursorRotation --------------------------
(* An instance of CursorRotation for TLC: two nodes rotate two keys. *)
EXTENDS CursorRotation

CONSTANTS n1, n2, k1, k2, s1, s2, schemaA

MCNodes == {n1, n2}
MCKeyIds == {k1, k2}
MCSecrets == {s1, s2}
MCKeyBytes == [k \in MCKeyIds |-> IF k = k1 THEN s1 ELSE s2]

\* Every configuration a rotation passes through: the same lifetime and skew on
\* all nodes, some of the keys, any of them active.
MCSigners ==
  {[keys |-> Restrict(MCKeyBytes, ids), active |-> k, ttl |-> 2, skew |-> 1, aware |-> TRUE] :
     ids \in (SUBSET MCKeyIds) \ {{}}, k \in MCKeyIds}

MCContexts ==
  {[plan |-> "plan", schemas |-> {schemaA}, registry |-> "registry", scope |-> "scope",
    pageSize |-> 1]}
=============================================================================
