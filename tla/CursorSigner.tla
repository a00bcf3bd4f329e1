---------------------------- MODULE CursorSigner ----------------------------
(***************************************************************************)
(* Signed live-keyset cursors (meridian_storage.query.cursor).             *)
(*                                                                         *)
(* Several nodes of one deployment each hold an immutable CursorSigner: a  *)
(* keyring, the key it signs with, a lifetime and a tolerated clock skew.  *)
(* A token issued by one node is verified by any other, on its own clock,  *)
(* possibly after its signer was replaced.  An HMAC is abstracted to the   *)
(* pair of what is signed and the bytes of the key that signed it: two     *)
(* signatures are equal exactly when both are.                             *)
(*                                                                         *)
(* Time is counted in ticks, TicksPerSecond to the second, so that the     *)
(* truncation of a clock to whole seconds in _now() is visible.            *)
(***************************************************************************)
EXTENDS Integers, FiniteSets

CONSTANTS
  Nodes,           \* processes that hold a signer
  KeyIds,          \* names of signing keys
  Secrets,         \* key bytes
  Signers,         \* the signer configurations a deployment may construct
  Contexts,        \* what a cursor is bound to: plan, Schemas, registry, scope, page size
  SortTuples,      \* positions in a result; EmptySort is the empty tuple
  EmptySort,
  NoContext,       \* verify(..., expected=None)
  NoResult,        \* no verification has returned yet
  TicksPerSecond,
  MaxPageSize,     \* 500 in the code
  MaxTtl,          \* 86_400 in the code
  MaxSkew,         \* 300 in the code
  MaxDrift,        \* bound on how far a node's clock is from true time, in ticks
  MaxNow,          \* bound on true time
  MaxIssued        \* bound on the number of issuances

ASSUME TimeAssumption ==
  /\ TicksPerSecond \in Nat \ {0}
  /\ MaxTtl \in Nat /\ MaxSkew \in Nat /\ MaxPageSize \in Nat
  /\ MaxDrift \in Nat /\ MaxNow \in Nat /\ MaxIssued \in Nat

ContextFields == {"plan", "schemas", "registry", "scope", "pageSize"}

ASSUME ContextAssumption ==
  /\ \A c \in Contexts : c = [f \in ContextFields |-> c[f]]
  /\ NoContext \notin Contexts

Keyrings == UNION { [ids -> Secrets] : ids \in SUBSET KeyIds }

\* A configuration as CursorSigner.__init__ receives it.  "aware" says whether
\* the injected clock returns timezone-aware datetimes.
SignerConfigs == [keys : Keyrings, active : KeyIds, ttl : Nat, skew : Nat, aware : BOOLEAN]

ASSUME SignerAssumption == Signers \subseteq SignerConfigs

VARIABLES
  now,       \* true time, in ticks
  drift,     \* drift[n]: clock of n minus true time
  signer,    \* signer[n]: the CursorSigner n holds
  issued,    \* every issuance so far: the token and the true time of the call
  last       \* what the last verify() returned (NoResult when none did)

vars == <<now, drift, signer, issued, last>>
-----------------------------------------------------------------------------
(* Construction of a signer, and its clock *)

\* The conditions CursorSigner.__init__ requires of its arguments.
Constructible(s) ==
  /\ s.active \in DOMAIN s.keys
  /\ s.ttl \in 1..MaxTtl
  /\ s.skew \in 0..MaxSkew

\* _now(): the node's clock, truncated to whole seconds.
ClockSeconds(n) == (now + drift[n]) \div TicksPerSecond

\* The conditions CursorPayload.__post_init__ requires.
ValidContext(c) ==
  /\ c.schemas # {}
  /\ c.pageSize \in 1..MaxPageSize

ValidPayload(p) ==
  /\ ValidContext(p.context)
  /\ p.sort # EmptySort
  /\ p.issuedAt >= 0
  /\ p.expiresAt > p.issuedAt

\* The payload issue() builds, and the token it signs with the active key.
Payload(n, c, sort) ==
  [keyId     |-> signer[n].active,
   context   |-> c,
   sort      |-> sort,
   issuedAt  |-> ClockSeconds(n),
   expiresAt |-> ClockSeconds(n) + signer[n].ttl]

Token(n, c, sort) ==
  [payload |-> Payload(n, c, sort), signedWith |-> signer[n].keys[signer[n].active]]

Tokens == {i.token : i \in issued}
-----------------------------------------------------------------------------
(* The checks of verify(), each of which ends the call with InvalidCursor *)

KnownKey(n, token) == token.payload.keyId \in DOMAIN signer[n].keys

SignatureMatches(n, token) == signer[n].keys[token.payload.keyId] = token.signedWith

\* Slip: no skew is tolerated.
NotFromFutureStrictly(n, token) == token.payload.issuedAt <= ClockSeconds(n)

NotFromFuture(n, token) == token.payload.issuedAt <= ClockSeconds(n) + signer[n].skew

\* Slips: the boundary second is still accepted; the skew counts against the token.
NotExpiredInclusive(n, token) == token.payload.expiresAt >= ClockSeconds(n) - signer[n].skew
NotExpiredEarly(n, token) == token.payload.expiresAt > ClockSeconds(n) + signer[n].skew

NotExpired(n, token) == token.payload.expiresAt > ClockSeconds(n) - signer[n].skew

\* Slip: the page size is not compared.
ContextMatchesButPageSize(token, expected) ==
  \A f \in ContextFields \ {"pageSize"} : token.payload.context[f] = expected[f]

\* _verify_expectations(): the five comparisons of the bound context.
ContextMatches(token, expected) ==
  \A f \in ContextFields : token.payload.context[f] = expected[f]

Accepts(n, token, expected) ==
  /\ KnownKey(n, token)
  /\ SignatureMatches(n, token)
  /\ signer[n].aware
  /\ NotFromFuture(n, token)
  /\ NotExpired(n, token)
  /\ expected # NoContext => ContextMatches(token, expected)
-----------------------------------------------------------------------------
(* Actions *)

Init ==
  /\ now = MaxDrift
  /\ drift \in [Nodes -> (-MaxDrift)..MaxDrift]
  /\ signer \in [Nodes -> {s \in Signers : Constructible(s)}]
  /\ issued = {}
  /\ last = NoResult

\* External: time passes.
Tick ==
  /\ now < MaxNow
  /\ now' = now + 1
  /\ last' = NoResult
  /\ UNCHANGED <<drift, signer, issued>>

\* External: a clock is adjusted, within MaxDrift of true time.
AdjustClock(n, d) ==
  /\ d # drift[n]
  /\ drift' = [drift EXCEPT ![n] = d]
  /\ last' = NoResult
  /\ UNCHANGED <<now, signer, issued>>

\* Slip: a constructor that checks nothing.
ReconfigureUnchecked(n, s) ==
  /\ signer' = [signer EXCEPT ![n] = s]
  /\ last' = NoResult
  /\ UNCHANGED <<now, drift, issued>>

\* External: the deployment gives a node another signer.  A configuration the
\* constructor refuses leaves the old signer in place.
Reconfigure(n, s) ==
  /\ Constructible(s)
  /\ signer' = [signer EXCEPT ![n] = s]
  /\ last' = NoResult
  /\ UNCHANGED <<now, drift, issued>>

\* issue(): raises, without a token, on a naive clock or an invalid payload.
Issue(n, c, sort) ==
  /\ Cardinality(issued) < MaxIssued
  /\ signer[n].aware
  /\ ValidPayload(Payload(n, c, sort))
  /\ issued' = issued \cup {[token |-> Token(n, c, sort), context |-> c, at |-> now,
                             ttl |-> signer[n].ttl]}
  /\ last' = NoResult
  /\ UNCHANGED <<now, drift, signer>>

\* verify(): returns the payload or raises InvalidCursor.
Verify(n, token, expected) ==
  /\ expected # NoContext => ValidContext(expected)
  /\ last' = [node |-> n, token |-> token, expected |-> expected,
              accepted |-> Accepts(n, token, expected)]
  /\ UNCHANGED <<now, drift, signer, issued>>

Next ==
  \/ Tick
  \/ \E n \in Nodes, d \in (-MaxDrift)..MaxDrift : AdjustClock(n, d)
  \/ \E n \in Nodes, s \in Signers : Reconfigure(n, s)
  \/ \E n \in Nodes, c \in Contexts, sort \in SortTuples : Issue(n, c, sort)
  \/ \E n \in Nodes, token \in Tokens, expected \in Contexts \cup {NoContext} :
       Verify(n, token, expected)

Spec == Init /\ [][Next]_vars
-----------------------------------------------------------------------------
(* Properties *)

PayloadType ==
  [keyId : KeyIds, context : Contexts, sort : SortTuples, issuedAt : Nat, expiresAt : Nat]

TokenType == [payload : PayloadType, signedWith : Secrets]

\* Every signer in use was accepted by its constructor, clocks stay within
\* MaxDrift of true time, and every token is one that issue() can build.
TypeOK ==
  /\ now \in MaxDrift..(MaxDrift + MaxNow)
  /\ drift \in [Nodes -> (-MaxDrift)..MaxDrift]
  /\ signer \in [Nodes -> {s \in Signers : Constructible(s)}]
  /\ issued \subseteq [token : TokenType, context : Contexts, at : Nat, ttl : 1..MaxTtl]
  /\ last \in {NoResult} \cup
       [node : Nodes, token : TokenType, expected : Contexts \cup {NoContext}, accepted : BOOLEAN]

Accepted == last # NoResult /\ last.accepted

\* A token is usable for its lifetime and no longer: verify() accepts it at
\* most ttl + skew seconds after the true time of its issue, plus what the two
\* clocks may differ.  The truncation of both clocks to whole seconds adds
\* nothing to that (cursor/__init__.py:234-238,257-261).
AcceptedWithinLifetime ==
  Accepted =>
    \A i \in issued :
      i.token = last.token =>
        now - i.at < TicksPerSecond * (i.ttl + signer[last.node].skew) + 2 * MaxDrift

\* A cursor only ever resumes the query it was issued for, under key bytes the
\* verifying node holds: whatever signers were replaced in between, and even
\* when one key id was given other bytes on another node, an accepted token is
\* one that was issued for exactly the plan, Schemas, registry, scope and page
\* size the caller expects, signed with bytes in the verifier's keyring.
AcceptedIsAuthentic ==
  Accepted =>
    \E i \in issued :
      /\ i.token = last.token
      /\ \E id \in DOMAIN signer[last.node].keys : signer[last.node].keys[id] = i.token.signedWith
      /\ last.expected # NoContext => i.context = last.expected

\* No node believes a token was issued in its future by more than the two
\* clocks can differ beyond the tolerated skew: a refusal for that reason
\* means drift the deployment did not configure for.
FutureOnlyBeyondSkew ==
  \A i \in issued, n \in Nodes :
    2 * MaxDrift <= TicksPerSecond * signer[n].skew => NotFromFuture(n, i.token)
=============================================================================
