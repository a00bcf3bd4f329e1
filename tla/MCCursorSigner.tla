-------------------------- MODULE MCCursorSigner ---------------------------
(* Instances of CursorSigner for TLC. *)
EXTENDS CursorSigner

CONSTANTS n1, n2, k1, k2, s1, s2, schemaA, schemaB

MCNodes == {n1, n2}
MCKeyIds == {k1, k2}
MCSecrets == {s1, s2}

Ring(k, s) == [id \in {k} |-> s]

Signer(keys, active, ttl, skew, aware) ==
  [keys |-> keys, active |-> active, ttl |-> ttl, skew |-> skew, aware |-> aware]

\* One key; both keys, signing with the second; the first key id given other
\* bytes; a naive clock; and two configurations the constructor refuses.
MCSigners ==
  {Signer(Ring(k1, s1), k1, 1, 1, TRUE),
   Signer([id \in MCKeyIds |-> IF id = k1 THEN s1 ELSE s2], k2, 2, 0, TRUE),
   Signer(Ring(k1, s2), k1, 1, 0, TRUE),
   Signer(Ring(k1, s1), k1, 1, 0, FALSE),
   Signer(Ring(k1, s1), k2, 1, 0, TRUE),
   Signer(Ring(k1, s1), k1, 0, 0, TRUE)}

Context(plan, schemas, registry, scope, pageSize) ==
  [plan |-> plan, schemas |-> schemas, registry |-> registry, scope |-> scope,
   pageSize |-> pageSize]

\* A context, one that differs from it in each bound field, and two that
\* CursorExpectations refuses.
MCContexts ==
  {Context("plan", {schemaA}, "registry", "scope", 1),
   Context("otherPlan", {schemaA}, "registry", "scope", 1),
   Context("plan", {schemaB}, "registry", "scope", 1),
   Context("plan", {schemaA}, "none", "scope", 1),
   Context("plan", {schemaA}, "registry", "otherScope", 1),
   Context("plan", {schemaA}, "registry", "scope", 2),
   Context("plan", {}, "registry", "scope", 1),
   Context("plan", {schemaA}, "registry", "scope", 3)}
=============================================================================
