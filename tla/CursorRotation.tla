--------------------------- MODULE CursorRotation ---------------------------
(***************************************************************************)
(* A deployment that rotates the signing key of its nodes one node at a    *)
(* time.  A CursorSigner is immutable, so rotation is a sequence of new    *)
(* signers: every node first accepts the new key, only then does any node  *)
(* sign with it, and the old key is dropped once what it signed has        *)
(* outlived its lifetime.  The signer is CursorSigner's; only the choice   *)
(* of its configurations is the deployment's.                              *)
(***************************************************************************)
EXTENDS CursorSigner, Functions

CONSTANTS
  KeyBytes,   \* the bytes behind each key id: an id is never reused
  FirstKey    \* the key every node starts with

\* The deployment can construct a signer it has with any of its keys in the keyring.
ASSUME RotationAssumption ==
  /\ KeyBytes \in [KeyIds -> Secrets]
  /\ FirstKey \in KeyIds
  /\ \A s \in Signers, ids \in (SUBSET KeyIds) \ {{}}, k \in KeyIds :
       [s EXCEPT !.keys = Restrict(KeyBytes, ids), !.active = k] \in Signers

AcceptsKey(n, k) == k \in DOMAIN signer[n].keys

SomeNodeSignsWith(k) == \E n \in Nodes : signer[n].active = k

Outlived(k) ==
  \A i \in issued : i.token.payload.keyId = k => now - i.at > TicksPerSecond * i.ttl

RotationInit ==
  /\ Init
  /\ \A n \in Nodes : signer[n].keys = Restrict(KeyBytes, {FirstKey})

\* A node starts to accept a key.
AcceptKey(n, k) ==
  /\ ~AcceptsKey(n, k)
  /\ Reconfigure(n, [signer[n] EXCEPT !.keys = Restrict(KeyBytes, DOMAIN @ \cup {k})])

\* A node starts to sign with a key that all nodes accept.
ActivateKey(n, k) ==
  /\ signer[n].active # k
  /\ \A m \in Nodes : AcceptsKey(m, k)
  /\ Reconfigure(n, [signer[n] EXCEPT !.active = k])

\* A node stops accepting a key nobody signs with and nobody can still resume by.
DropKey(n, k) ==
  /\ AcceptsKey(n, k)
  /\ ~SomeNodeSignsWith(k)
  /\ Outlived(k)
  /\ Reconfigure(n, [signer[n] EXCEPT !.keys = Restrict(KeyBytes, DOMAIN @ \ {k})])

RotationNext ==
  \/ Tick
  \/ \E n \in Nodes, d \in (-MaxDrift)..MaxDrift : AdjustClock(n, d)
  \/ \E n \in Nodes, k \in KeyIds : AcceptKey(n, k) \/ ActivateKey(n, k) \/ DropKey(n, k)
  \/ \E n \in Nodes, c \in Contexts, sort \in SortTuples : Issue(n, c, sort)

RotationSpec == RotationInit /\ [][RotationNext]_vars

\* Rotation never strands a reader: a cursor younger than its lifetime, less the
\* second that truncating two clocks to whole seconds can cost, is accepted by
\* every node in the context it was issued for, at every point of a rotation,
\* provided the tolerated skew covers what two clocks can differ
\* (cursor/__init__.py:227-238,257-261).
FreshNeverRefused ==
  \A i \in issued, n \in Nodes :
    (/\ 2 * MaxDrift <= TicksPerSecond * signer[n].skew
     /\ signer[n].aware
     /\ now - i.at <= TicksPerSecond * (i.ttl - 1))
      => Accepts(n, i.token, i.context)
=============================================================================
