------------------------- MODULE CursorSignerProofs -------------------------
(***************************************************************************)
(* Proofs about CursorSigner, for every deployment, clock drift, lifetime, *)
(* skew and key rotation.                                                  *)
(***************************************************************************)
EXTENDS CursorSigner, TLAPS

\* A clock truncated to whole seconds (cursor/__init__.py:257-261).
LEMMA Truncation ==
  ASSUME NEW t \in Int
  PROVE  /\ t \div TicksPerSecond \in Int
         /\ TicksPerSecond * (t \div TicksPerSecond) <= t
         /\ t < TicksPerSecond * (t \div TicksPerSecond) + TicksPerSecond
  BY TimeAssumption

\* What an issuance leaves behind, related to the true time of the call: the
\* issuing node's clock was within MaxDrift of it (cursor/__init__.py:193-204).
IssuedOK ==
  \A i \in issued :
    /\ i.at <= now
    /\ i.token.payload.context = i.context
    /\ i.token.payload.expiresAt = i.token.payload.issuedAt + i.ttl
    /\ \E d \in (-MaxDrift)..MaxDrift :
         i.token.payload.issuedAt = (i.at + d) \div TicksPerSecond

\* A verdict is still the one the present state gives: every other step forgets it.
LastOK ==
  Accepted =>
    /\ last.token \in Tokens
    /\ Accepts(last.node, last.token, last.expected)

IInv == TypeOK /\ IssuedOK /\ LastOK

\* A clock within MaxDrift of a true time that is at least MaxDrift is not negative.
LEMMA ClockIsNat ==
  ASSUME TypeOK, NEW n \in Nodes
  PROVE  ClockSeconds(n) \in Nat
<1>1. now + drift[n] \in Nat
  BY TimeAssumption DEF TypeOK
<1>2. ClockSeconds(n) \in Int /\ now + drift[n] < TicksPerSecond * ClockSeconds(n) + TicksPerSecond
  BY <1>1, Truncation DEF ClockSeconds
<1> QED BY <1>1, <1>2, TimeAssumption

\* The constructor's conditions, as facts about a signer in use.
LEMMA SignerFacts ==
  ASSUME TypeOK, NEW n \in Nodes
  PROVE  /\ signer[n] \in SignerConfigs
         /\ signer[n].active \in KeyIds
         /\ signer[n].active \in DOMAIN signer[n].keys
         /\ signer[n].keys[signer[n].active] \in Secrets
         /\ signer[n].ttl \in 1..MaxTtl
         /\ signer[n].skew \in Nat
<1>1. signer[n] \in SignerConfigs /\ Constructible(signer[n])
  BY SignerAssumption DEF TypeOK
<1>2. PICK ids \in SUBSET KeyIds : signer[n].keys \in [ids -> Secrets]
  BY <1>1 DEF SignerConfigs, Keyrings
<1> QED BY <1>1, <1>2, TimeAssumption DEF SignerConfigs, Constructible

\* issue() builds a token of the declared shape.
LEMMA TokenShape ==
  ASSUME TypeOK, NEW n \in Nodes, NEW c \in Contexts, NEW sort \in SortTuples
  PROVE  Token(n, c, sort) \in TokenType
<1>1. ClockSeconds(n) \in Nat /\ ClockSeconds(n) + signer[n].ttl \in Nat
  BY ClockIsNat, SignerFacts, TimeAssumption
<1>2. Payload(n, c, sort) \in PayloadType
  BY <1>1, SignerFacts DEF Payload, PayloadType
<1> QED BY <1>2, SignerFacts DEF Token, TokenType

LEMMA TokensShape ==
  ASSUME TypeOK, NEW token \in Tokens
  PROVE  token \in TokenType
BY DEF TypeOK, Tokens

LEMMA InitIInv == Init => IInv
<1> SUFFICES ASSUME Init PROVE IInv
  OBVIOUS
<1>1. TypeOK
  BY TimeAssumption DEF Init, TypeOK
<1>2. IssuedOK /\ LastOK
  BY DEF Init, IssuedOK, LastOK, Accepted
<1> QED BY <1>1, <1>2 DEF IInv

\* Steps that are not verify() forget the last verdict.
LEMMA ForgottenVerdict ==
  ASSUME last' = NoResult
  PROVE  LastOK'
BY DEF LastOK, Accepted

LEMMA NextIInv == IInv /\ [Next]_vars => IInv'
<1> SUFFICES ASSUME IInv, [Next]_vars PROVE IInv'
  OBVIOUS
<1> USE DEF IInv
<1>1. CASE Tick
  <2>1. TypeOK'
    BY <1>1, TimeAssumption DEF Tick, TypeOK
  <2>2. IssuedOK'
    BY <1>1, TimeAssumption DEF Tick, IssuedOK, TypeOK
  <2> QED BY <1>1, <2>1, <2>2, ForgottenVerdict DEF Tick
<1>2. ASSUME NEW n \in Nodes, NEW d \in (-MaxDrift)..MaxDrift, AdjustClock(n, d)
      PROVE  IInv'
  <2>1. TypeOK'
    BY <1>2 DEF AdjustClock, TypeOK
  <2>2. IssuedOK'
    BY <1>2 DEF AdjustClock, IssuedOK
  <2> QED BY <1>2, <2>1, <2>2, ForgottenVerdict DEF AdjustClock
<1>3. ASSUME NEW n \in Nodes, NEW s \in Signers, Reconfigure(n, s)
      PROVE  IInv'
  <2>1. TypeOK'
    BY <1>3 DEF Reconfigure, TypeOK
  <2>2. IssuedOK'
    BY <1>3 DEF Reconfigure, IssuedOK
  <2> QED BY <1>3, <2>1, <2>2, ForgottenVerdict DEF Reconfigure
<1>4. ASSUME NEW n \in Nodes, NEW c \in Contexts, NEW sort \in SortTuples, Issue(n, c, sort)
      PROVE  IInv'
  <2> DEFINE new == [token |-> Token(n, c, sort), context |-> c, at |-> now, ttl |-> signer[n].ttl]
  <2>1. issued' = issued \cup {new}
    BY <1>4 DEF Issue
  <2>2. new \in [token : TokenType, context : Contexts, at : Nat, ttl : 1..MaxTtl]
    BY TokenShape, SignerFacts, TimeAssumption DEF TypeOK
  <2>3. TypeOK'
    BY <1>4, <2>1, <2>2 DEF Issue, TypeOK
  <2>4. /\ new.at = now
        /\ new.token.payload.context = new.context
        /\ new.token.payload.expiresAt = new.token.payload.issuedAt + new.ttl
        /\ new.token.payload.issuedAt = (new.at + drift[n]) \div TicksPerSecond
        /\ drift[n] \in (-MaxDrift)..MaxDrift
    BY DEF Token, Payload, ClockSeconds, TypeOK
  <2> HIDE DEF new
  <2>5. IssuedOK'
    <3> SUFFICES ASSUME NEW i \in issued'
                 PROVE  /\ i.at <= now
                        /\ i.token.payload.context = i.context
                        /\ i.token.payload.expiresAt = i.token.payload.issuedAt + i.ttl
                        /\ \E e \in (-MaxDrift)..MaxDrift :
                             i.token.payload.issuedAt = (i.at + e) \div TicksPerSecond
      BY <1>4 DEF Issue, IssuedOK
    <3>1. CASE i \in issued
      BY <3>1 DEF IssuedOK
    <3>2. CASE i = new
      <4>1. now <= now
        BY TimeAssumption DEF TypeOK
      <4> QED BY <3>2, <2>4, <4>1
    <3> QED BY <2>1, <3>1, <3>2
  <2> QED BY <1>4, <2>3, <2>5, ForgottenVerdict DEF Issue
<1>5. ASSUME NEW n \in Nodes, NEW token \in Tokens, NEW expected \in Contexts \cup {NoContext},
             Verify(n, token, expected)
      PROVE  IInv'
  <2>1. TypeOK'
    <3>1. Accepts(n, token, expected) \in BOOLEAN
      BY DEF Accepts, KnownKey
    <3> QED BY <1>5, <3>1, TokensShape DEF Verify, TypeOK
  <2>2. IssuedOK'
    BY <1>5 DEF Verify, IssuedOK
  <2>3. LastOK'
    BY <1>5 DEF Verify, LastOK, Accepted, Tokens, Accepts, KnownKey, SignatureMatches,
      NotFromFuture, NotExpired, ContextMatches, ClockSeconds
  <2> QED BY <2>1, <2>2, <2>3
<1>6. CASE UNCHANGED vars
  BY <1>6 DEF vars, TypeOK, IssuedOK, LastOK, Accepted, Tokens, Accepts, KnownKey,
    SignatureMatches, NotFromFuture, NotExpired, ContextMatches, ClockSeconds, Constructible
<1> QED BY <1>1, <1>2, <1>3, <1>4, <1>5, <1>6 DEF Next

LEMMA SpecIInv == Spec => []IInv
BY InitIInv, NextIInv, PTL DEF Spec

\* Every signer in use was accepted by its constructor and every token is one
\* issue() can build (cursor/__init__.py:156-208).
THEOREM TypeCorrect == Spec => []TypeOK
<1>1. IInv => TypeOK
  BY DEF IInv
<1> QED BY <1>1, SpecIInv, PTL

\* Arithmetic of the lifetime: truncation of both clocks adds nothing.
LEMMA LifetimeArithmetic ==
  ASSUME NEW at \in Int, NEW d \in Int, NEW t \in Int, NEW ttl \in Int, NEW skew \in Int,
         (at + d) \div TicksPerSecond + ttl > t \div TicksPerSecond - skew
  PROVE  t - (at + d) < TicksPerSecond * (ttl + skew)
<1> DEFINE x == (at + d) \div TicksPerSecond
           y == t \div TicksPerSecond
<1>1. x \in Int /\ TicksPerSecond * x <= at + d
  BY Truncation
<1>2. y \in Int /\ t < TicksPerSecond * y + TicksPerSecond
  BY Truncation
<1>3. y + 1 <= x + (ttl + skew)
  BY <1>1, <1>2
<1> HIDE DEF x, y
<1>4. TicksPerSecond * (y + 1) <= TicksPerSecond * (x + (ttl + skew))
  BY <1>1, <1>2, <1>3, TimeAssumption
<1>5. /\ TicksPerSecond * (y + 1) = TicksPerSecond * y + TicksPerSecond
      /\ TicksPerSecond * (x + (ttl + skew)) = TicksPerSecond * x + TicksPerSecond * (ttl + skew)
  BY <1>1, <1>2, TimeAssumption
<1> QED BY <1>1, <1>2, <1>4, <1>5, TimeAssumption

\* Arithmetic of issuance: a clock that is ahead by no more than the skew agrees
\* that the token is not from its future, whatever the truncation.
LEMMA FutureArithmetic ==
  ASSUME NEW a \in Int, NEW b \in Int, NEW skew \in Int,
         a - b <= TicksPerSecond * skew
  PROVE  a \div TicksPerSecond <= b \div TicksPerSecond + skew
<1> DEFINE x == a \div TicksPerSecond
           y == b \div TicksPerSecond
<1>1. x \in Int /\ TicksPerSecond * x <= a
  BY Truncation
<1>2. y \in Int /\ b < TicksPerSecond * y + TicksPerSecond
  BY Truncation
<1> HIDE DEF x, y
<1>3. TicksPerSecond * x < TicksPerSecond * y + TicksPerSecond + TicksPerSecond * skew
  BY <1>1, <1>2, TimeAssumption
<1>4. TicksPerSecond * x < TicksPerSecond * (y + 1 + skew)
  BY <1>1, <1>2, <1>3, TimeAssumption
<1>5. x < y + 1 + skew
  BY <1>1, <1>2, <1>4, TimeAssumption
<1>6. x <= y + skew
  BY <1>1, <1>2, <1>5
<1> QED BY <1>6 DEF x, y

\* A skew that covers what two clocks can differ covers it for every token issued.
LEMMA FutureFromIInv == IInv => FutureOnlyBeyondSkew
<1> SUFFICES ASSUME IInv, NEW i \in issued, NEW n \in Nodes,
                    2 * MaxDrift <= TicksPerSecond * signer[n].skew
             PROVE  i.token.payload.issuedAt <= ClockSeconds(n) + signer[n].skew
  BY DEF FutureOnlyBeyondSkew, NotFromFuture
<1> DEFINE t == now + drift[n]
<1>1. /\ now \in Int /\ i.at \in Int /\ i.at <= now
      /\ drift[n] \in Int /\ -MaxDrift <= drift[n]
  BY TimeAssumption DEF IInv, TypeOK, IssuedOK
<1>2. signer[n].skew \in Int
  BY SignerFacts DEF IInv
<1>3. PICK d \in (-MaxDrift)..MaxDrift :
        i.token.payload.issuedAt = (i.at + d) \div TicksPerSecond
  BY DEF IInv, IssuedOK
<1>4. i.at + d \in Int /\ t \in Int /\ (i.at + d) - t <= 2 * MaxDrift
  BY <1>1, <1>3, TimeAssumption
<1>5. (i.at + d) - t <= TicksPerSecond * signer[n].skew
  BY <1>2, <1>4, TimeAssumption
<1>6. (i.at + d) \div TicksPerSecond <= t \div TicksPerSecond + signer[n].skew
  <2> HIDE DEF t
  <2> QED BY <1>2, <1>4, <1>5, FutureArithmetic
<1> QED BY <1>3, <1>6 DEF ClockSeconds

\* No node whose skew covers what two clocks can differ refuses a token as
\* issued in its future (cursor/__init__.py:235-236).
THEOREM FutureHolds == Spec => []FutureOnlyBeyondSkew
BY SpecIInv, FutureFromIInv, PTL

\* verify() accepts a token at most ttl + skew seconds after its issue, plus what
\* the two clocks may differ (cursor/__init__.py:234-238,257-261).
THEOREM LifetimeHolds == Spec => []AcceptedWithinLifetime
<1>1. IInv => AcceptedWithinLifetime
  <2> SUFFICES ASSUME IInv, Accepted, NEW i \in issued, i.token = last.token
               PROVE  now - i.at < TicksPerSecond * (i.ttl + signer[last.node].skew) + 2 * MaxDrift
    BY DEF AcceptedWithinLifetime
  <2> DEFINE n == last.node
             t == now + drift[n]
  <2>1. n \in Nodes /\ i.token \in TokenType /\ i.at \in Nat /\ i.ttl \in Nat
    BY TimeAssumption DEF IInv, TypeOK, Accepted
  <2>2. now \in Int /\ drift[n] \in Int /\ drift[n] <= MaxDrift /\ -MaxDrift <= drift[n]
    BY <2>1, TimeAssumption DEF IInv, TypeOK
  <2>3. signer[n].skew \in Nat
    BY <2>1, SignerFacts DEF IInv
  <2>4. PICK d \in (-MaxDrift)..MaxDrift :
          i.token.payload.issuedAt = (i.at + d) \div TicksPerSecond
    BY DEF IInv, IssuedOK
  <2>5. i.token.payload.expiresAt = (i.at + d) \div TicksPerSecond + i.ttl
    BY <2>4 DEF IInv, IssuedOK
  <2>6. i.token.payload.expiresAt > t \div TicksPerSecond - signer[n].skew
    BY DEF IInv, LastOK, Accepts, NotExpired, ClockSeconds
  <2>7. t - (i.at + d) < TicksPerSecond * (i.ttl + signer[n].skew)
    <3>1. i.at \in Int /\ d \in Int /\ t \in Int /\ i.ttl \in Int /\ signer[n].skew \in Int
      BY <2>1, <2>2, <2>3, <2>4, TimeAssumption
    <3>2. (i.at + d) \div TicksPerSecond + i.ttl > t \div TicksPerSecond - signer[n].skew
      BY <2>5, <2>6
    <3> HIDE DEF t
    <3> QED BY <3>1, <3>2, LifetimeArithmetic
  <2>8. TicksPerSecond * (i.ttl + signer[n].skew) \in Int
    BY <2>1, <2>3, TimeAssumption
  <2> QED BY <2>1, <2>2, <2>4, <2>7, <2>8, TimeAssumption
<1> QED BY <1>1, SpecIInv, PTL

\* A cursor resumes only the query it was issued for, under key bytes the
\* verifier holds (cursor/__init__.py:222-240,264-275).
THEOREM AuthenticityHolds == Spec => []AcceptedIsAuthentic
<1>1. IInv => AcceptedIsAuthentic
  <2> SUFFICES ASSUME IInv, Accepted
               PROVE  \E i \in issued :
                        /\ i.token = last.token
                        /\ \E id \in DOMAIN signer[last.node].keys :
                             signer[last.node].keys[id] = i.token.signedWith
                        /\ last.expected # NoContext => i.context = last.expected
    BY DEF AcceptedIsAuthentic
  <2>1. PICK i \in issued : i.token = last.token
    BY DEF IInv, LastOK, Tokens
  <2>2. \E id \in DOMAIN signer[last.node].keys : signer[last.node].keys[id] = i.token.signedWith
    BY <2>1 DEF IInv, LastOK, Accepts, KnownKey, SignatureMatches
  <2>3. ASSUME last.expected # NoContext PROVE i.context = last.expected
    <3>1. i.context \in Contexts /\ last.expected \in Contexts
      BY <2>1, <2>3 DEF IInv, TypeOK, Accepted
    <3>2. \A f \in ContextFields : i.context[f] = last.expected[f]
      BY <2>1, <2>3 DEF IInv, IssuedOK, LastOK, Accepts, ContextMatches
    <3>3. /\ i.context = [f \in ContextFields |-> i.context[f]]
          /\ last.expected = [f \in ContextFields |-> last.expected[f]]
      BY <3>1, ContextAssumption
    <3>4. [f \in ContextFields |-> i.context[f]] = [f \in ContextFields |-> last.expected[f]]
      BY <3>2
    <3> QED BY <3>3, <3>4
  <2> QED BY <2>1, <2>2, <2>3
<1> QED BY <1>1, SpecIInv, PTL
=============================================================================
