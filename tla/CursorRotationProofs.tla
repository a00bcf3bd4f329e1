------------------------ MODULE CursorRotationProofs ------------------------
(***************************************************************************)
(* Proofs about CursorRotation: rotating one node at a time is a way of    *)
(* using the signer, and never refuses a fresh cursor.                     *)
(***************************************************************************)
EXTENDS CursorRotation, CursorSignerProofs

\* An id means the same bytes on every node, and whatever a node signs with,
\* every node accepts.
KeysAgree ==
  \A n \in Nodes :
    /\ signer[n].keys = Restrict(KeyBytes, DOMAIN signer[n].keys)
    /\ \A m \in Nodes : AcceptsKey(m, signer[n].active)

\* A token can be checked by every node until it has outlived its lifetime.
TokensCovered ==
  \A i \in issued :
    /\ i.token.signedWith = KeyBytes[i.token.payload.keyId]
    /\ \/ Outlived(i.token.payload.keyId)
       \/ \A m \in Nodes : AcceptsKey(m, i.token.payload.keyId)

RotationInv == IInv /\ KeysAgree /\ TokensCovered

LEMMA InitRotationInv == RotationInit => RotationInv
<1> SUFFICES ASSUME RotationInit PROVE RotationInv
  OBVIOUS
<1>1. IInv
  BY InitIInv DEF RotationInit
<1>2. \A n \in Nodes : DOMAIN signer[n].keys = {FirstKey} /\ signer[n].active = FirstKey
  BY <1>1, SignerFacts DEF RotationInit, Restrict, IInv
<1>3. KeysAgree
  BY <1>2 DEF KeysAgree, AcceptsKey, RotationInit
<1>4. TokensCovered
  BY DEF TokensCovered, RotationInit, Init
<1> QED BY <1>1, <1>3, <1>4 DEF RotationInv

\* The signers a rotation passes through are signers the deployment can construct.
LEMMA RotatedSigner ==
  ASSUME NEW s \in Signers, NEW ids \in SUBSET KeyIds, ids # {}
  PROVE  [s EXCEPT !.keys = Restrict(KeyBytes, ids)] \in Signers
<1>1. s \in SignerConfigs
  BY SignerAssumption
<1>2. [s EXCEPT !.keys = Restrict(KeyBytes, ids), !.active = s.active] \in Signers
  BY <1>1, RotationAssumption DEF SignerConfigs
<1>3. [s EXCEPT !.keys = Restrict(KeyBytes, ids), !.active = s.active]
        = [s EXCEPT !.keys = Restrict(KeyBytes, ids)]
  BY <1>1 DEF SignerConfigs
<1> QED BY <1>2, <1>3

\* A step of a rotation gives a node a signer the deployment can construct.
LEMMA RotationIsReconfigure ==
  ASSUME RotationInv, NEW n \in Nodes, NEW k \in KeyIds,
         AcceptKey(n, k) \/ ActivateKey(n, k) \/ DropKey(n, k)
  PROVE  \E s \in Signers : Reconfigure(n, s)
<1> DEFINE s == signer[n]
<1>1. s \in Signers /\ s \in SignerConfigs /\ s.keys = Restrict(KeyBytes, DOMAIN s.keys)
  BY SignerAssumption DEF RotationInv, IInv, TypeOK, KeysAgree
<1>2. DOMAIN s.keys \in SUBSET KeyIds
  BY <1>1 DEF SignerConfigs, Keyrings
<1>3. CASE AcceptKey(n, k)
  <2>1. [s EXCEPT !.keys = Restrict(KeyBytes, DOMAIN s.keys \cup {k})] \in Signers
    BY <1>1, <1>2, RotatedSigner
  <2> QED BY <1>3, <2>1 DEF AcceptKey
<1>4. CASE ActivateKey(n, k)
  <2>1. k \in DOMAIN s.keys
    BY <1>4 DEF ActivateKey, AcceptsKey
  <2>2. [s EXCEPT !.keys = Restrict(KeyBytes, DOMAIN s.keys), !.active = k] \in Signers
    BY <1>1, <1>2, <2>1, RotationAssumption
  <2>3. [s EXCEPT !.keys = Restrict(KeyBytes, DOMAIN s.keys), !.active = k] = [s EXCEPT !.active = k]
    BY <1>1 DEF SignerConfigs
  <2> QED BY <1>4, <2>2, <2>3 DEF ActivateKey
<1>5. CASE DropKey(n, k)
  <2> DEFINE t == [s EXCEPT !.keys = Restrict(KeyBytes, DOMAIN s.keys \ {k})]
  <2>1. Reconfigure(n, t)
    BY <1>5 DEF DropKey
  <2>2. DOMAIN s.keys \ {k} # {}
    BY <1>1, <2>1 DEF Reconfigure, Constructible, SignerConfigs, Restrict
  <2>3. t \in Signers
    BY <1>1, <1>2, <2>2, RotatedSigner
  <2> QED BY <2>1, <2>3
<1> QED BY <1>3, <1>4, <1>5

\* Every step of a rotation is a step of the signers.
LEMMA RotationStep == RotationInv /\ [RotationNext]_vars => [Next]_vars
BY RotationIsReconfigure DEF RotationNext, Next

\* Time, clocks and other signers' keys leave what has outlived its lifetime so.
LEMMA OutlivedStays ==
  ASSUME TypeOK, NEW k, Outlived(k), issued' = issued, now' \in Int, now <= now'
  PROVE  Outlived(k)'
<1> SUFFICES ASSUME NEW i \in issued, i.token.payload.keyId = k
             PROVE  now' - i.at > TicksPerSecond * i.ttl
  BY DEF Outlived
<1>1. now - i.at > TicksPerSecond * i.ttl
  BY DEF Outlived
<1>2. now \in Int /\ i.at \in Int /\ TicksPerSecond * i.ttl \in Int
  BY TimeAssumption DEF TypeOK
<1> QED BY <1>1, <1>2

\* Outlived is kept by tokens that were already there when the new ones, if any,
\* carry another key.
LEMMA NextRotationInv == RotationInv /\ [RotationNext]_vars => RotationInv'
<1> SUFFICES ASSUME RotationInv, [RotationNext]_vars PROVE RotationInv'
  OBVIOUS
<1>1. IInv /\ IInv' /\ TypeOK /\ TypeOK' /\ KeysAgree /\ TokensCovered
  BY RotationStep, NextIInv DEF RotationInv, IInv
<1>2. ASSUME issued' = issued, signer' = signer, now <= now'
      PROVE  RotationInv'
  <2>1. KeysAgree'
    BY <1>1, <1>2 DEF KeysAgree, AcceptsKey
  <2>2. TokensCovered'
    <3> SUFFICES ASSUME NEW i \in issued
                 PROVE  /\ i.token.signedWith = KeyBytes[i.token.payload.keyId]
                        /\ \/ Outlived(i.token.payload.keyId)'
                           \/ \A m \in Nodes : AcceptsKey(m, i.token.payload.keyId)'
      BY <1>2 DEF TokensCovered
    <3>1. now' \in Int
      BY <1>1, TimeAssumption DEF TypeOK
    <3>2. CASE Outlived(i.token.payload.keyId)
      BY <1>1, <1>2, <3>1, <3>2, OutlivedStays DEF TokensCovered
    <3>3. CASE \A m \in Nodes : AcceptsKey(m, i.token.payload.keyId)
      BY <1>1, <1>2, <3>3 DEF TokensCovered, AcceptsKey
    <3> QED BY <1>1, <3>2, <3>3 DEF TokensCovered
  <2> QED BY <1>1, <2>1, <2>2 DEF RotationInv
<1>3. CASE Tick
  BY <1>1, <1>2, <1>3, TimeAssumption DEF Tick, TypeOK
<1>4. ASSUME NEW n \in Nodes, NEW d \in (-MaxDrift)..MaxDrift, AdjustClock(n, d)
      PROVE  RotationInv'
  BY <1>1, <1>2, <1>4, TimeAssumption DEF AdjustClock, TypeOK
<1>5. ASSUME NEW n \in Nodes, NEW k \in KeyIds, AcceptKey(n, k) \/ ActivateKey(n, k) \/ DropKey(n, k)
      PROVE  RotationInv'
  <2>1. /\ signer[n] \in SignerConfigs
        /\ signer \in [Nodes -> Signers]
        /\ issued' = issued /\ now' = now
    BY <1>1, <1>5, SignerAssumption
      DEF TypeOK, AcceptKey, ActivateKey, DropKey, Reconfigure
  <2>2. DOMAIN signer[n].keys \in SUBSET KeyIds
    BY <2>1 DEF SignerConfigs, Keyrings
  <2>3. now' \in Int /\ now <= now'
    BY <1>1, <2>1, TimeAssumption DEF TypeOK
  <2>4. \A i \in issued : Outlived(i.token.payload.keyId) => Outlived(i.token.payload.keyId)'
    BY <1>1, <2>1, <2>3, OutlivedStays
  <2>5. \A i \in issued : i.token.signedWith = KeyBytes[i.token.payload.keyId]
    BY <1>1 DEF TokensCovered
  <2>6. CASE AcceptKey(n, k)
    <3>1. /\ \A m \in Nodes : signer'[m].active = signer[m].active
          /\ \A m \in Nodes \ {n} : signer'[m] = signer[m]
          /\ signer'[n].keys = Restrict(KeyBytes, DOMAIN signer[n].keys \cup {k})
      BY <2>1, <2>6 DEF AcceptKey, Reconfigure, SignerConfigs
    <3>2. DOMAIN signer'[n].keys = DOMAIN signer[n].keys \cup {k}
      BY <3>1 DEF Restrict
    <3>3. \A m \in Nodes : \A j : AcceptsKey(m, j) => AcceptsKey(m, j)'
      BY <3>1, <3>2 DEF AcceptsKey
    <3>4. KeysAgree'
      BY <1>1, <3>1, <3>2, <3>3 DEF KeysAgree
    <3>5. TokensCovered'
      BY <1>1, <2>1, <2>4, <2>5, <3>3 DEF TokensCovered
    <3> QED BY <1>1, <3>4, <3>5 DEF RotationInv
  <2>7. CASE ActivateKey(n, k)
    <3>1. /\ signer'[n].active = k
          /\ \A m \in Nodes : signer'[m].keys = signer[m].keys
          /\ \A m \in Nodes \ {n} : signer'[m] = signer[m]
          /\ \A m \in Nodes : AcceptsKey(m, k)
      BY <2>1, <2>7 DEF ActivateKey, Reconfigure, SignerConfigs
    <3>2. \A m \in Nodes : \A j : AcceptsKey(m, j) <=> AcceptsKey(m, j)'
      BY <3>1 DEF AcceptsKey
    <3>3. KeysAgree'
      BY <1>1, <3>1, <3>2 DEF KeysAgree
    <3>4. TokensCovered'
      BY <1>1, <2>1, <2>4, <2>5, <3>2 DEF TokensCovered
    <3> QED BY <1>1, <3>3, <3>4 DEF RotationInv
  <2>8. CASE DropKey(n, k)
    <3>1. /\ \A m \in Nodes : signer'[m].active = signer[m].active /\ signer[m].active # k
          /\ \A m \in Nodes \ {n} : signer'[m] = signer[m]
          /\ signer'[n].keys = Restrict(KeyBytes, DOMAIN signer[n].keys \ {k})
          /\ Outlived(k)
      BY <2>1, <2>8 DEF DropKey, Reconfigure, SignerConfigs, SomeNodeSignsWith
    <3>2. DOMAIN signer'[n].keys = DOMAIN signer[n].keys \ {k}
      BY <3>1 DEF Restrict
    <3>3. \A m \in Nodes : \A j : AcceptsKey(m, j) /\ j # k => AcceptsKey(m, j)'
      BY <3>1, <3>2 DEF AcceptsKey
    <3>4. KeysAgree'
      BY <1>1, <3>1, <3>2, <3>3 DEF KeysAgree
    <3>5. TokensCovered'
      BY <1>1, <2>1, <2>4, <2>5, <3>1, <3>3 DEF TokensCovered
    <3> QED BY <1>1, <3>4, <3>5 DEF RotationInv
  <2> QED BY <1>5, <2>6, <2>7, <2>8
<1>6. ASSUME NEW n \in Nodes, NEW c \in Contexts, NEW sort \in SortTuples, Issue(n, c, sort)
      PROVE  RotationInv'
  <2> DEFINE new == [token |-> Token(n, c, sort), context |-> c, at |-> now, ttl |-> signer[n].ttl]
             key == signer[n].active
  <2>1. issued' = issued \cup {new} /\ signer' = signer /\ now' = now
    BY <1>6 DEF Issue
  <2>2. new.token.payload.keyId = key /\ new.token.signedWith = signer[n].keys[key]
    BY DEF Token, Payload
  <2> HIDE DEF new
  <2>3. key \in DOMAIN signer[n].keys /\ \A m \in Nodes : AcceptsKey(m, key)
    BY <1>1, SignerFacts DEF KeysAgree
  <2>4. signer[n].keys[key] = KeyBytes[key]
    <3>1. Restrict(KeyBytes, DOMAIN signer[n].keys)[key] = KeyBytes[key]
      BY <2>3 DEF Restrict
    <3> QED BY <1>1, <3>1 DEF KeysAgree
  <2>5. KeysAgree'
    BY <1>1, <2>1 DEF KeysAgree, AcceptsKey
  <2>6. \A m \in Nodes : \A j : AcceptsKey(m, j) <=> AcceptsKey(m, j)'
    BY <2>1 DEF AcceptsKey
  <2>7. \A j : j # key /\ Outlived(j) => Outlived(j)'
    BY <2>1, <2>2 DEF Outlived
  <2>8. TokensCovered'
    <3> SUFFICES ASSUME NEW i \in issued'
                 PROVE  /\ i.token.signedWith = KeyBytes[i.token.payload.keyId]
                        /\ \/ Outlived(i.token.payload.keyId)'
                           \/ \A m \in Nodes : AcceptsKey(m, i.token.payload.keyId)'
      BY DEF TokensCovered
    <3>1. CASE i.token.payload.keyId = key
      <4>1. CASE i = new
        BY <2>2, <2>3, <2>4, <2>6, <4>1
      <4>2. CASE i \in issued
        BY <1>1, <2>3, <2>6, <3>1, <4>2 DEF TokensCovered
      <4> QED BY <2>1, <4>1, <4>2
    <3>2. CASE i.token.payload.keyId # key
      <4>1. i \in issued
        BY <2>1, <2>2, <3>2
      <4> QED BY <1>1, <2>6, <2>7, <3>2, <4>1 DEF TokensCovered
    <3> QED BY <3>1, <3>2
  <2> QED BY <1>1, <2>5, <2>8 DEF RotationInv
<1>7. CASE UNCHANGED vars
  BY <1>1, <1>2, <1>7, TimeAssumption DEF vars, TypeOK
<1> QED BY <1>3, <1>4, <1>5, <1>6, <1>7 DEF RotationNext

LEMMA SpecRotationInv == RotationSpec => []RotationInv
BY InitRotationInv, NextRotationInv, PTL DEF RotationSpec

\* A rotation is one of the histories the signers allow, so everything proved
\* of them holds throughout one (cursor/__init__.py:156-191).
THEOREM RotationRefines == RotationSpec => Spec
<1>1. RotationInit => Init
  BY DEF RotationInit
<1> QED BY <1>1, RotationStep, SpecRotationInv, PTL DEF RotationSpec, Spec

\* A key every node accepts or nobody can resume by any more: the keyring of a
\* node that sees a token younger than its lifetime holds the bytes it was
\* signed with.
LEMMA FreshKeyKnown ==
  ASSUME RotationInv, NEW i \in issued, NEW n \in Nodes,
         now - i.at <= TicksPerSecond * (i.ttl - 1)
  PROVE  KnownKey(n, i.token) /\ SignatureMatches(n, i.token)
<1> DEFINE k == i.token.payload.keyId
<1>1. /\ now \in Int /\ i.at \in Int /\ i.ttl \in Int
      /\ TicksPerSecond * i.ttl = TicksPerSecond * (i.ttl - 1) + TicksPerSecond
  BY TimeAssumption DEF RotationInv, IInv, TypeOK
<1>2. ~Outlived(k)
  <2>1. TicksPerSecond * (i.ttl - 1) \in Int
    BY <1>1, TimeAssumption
  <2>2. ~(now - i.at > TicksPerSecond * i.ttl)
    BY <1>1, <2>1, TimeAssumption
  <2> QED BY <2>2 DEF Outlived
<1>3. k \in DOMAIN signer[n].keys /\ i.token.signedWith = KeyBytes[k]
  BY <1>2 DEF RotationInv, TokensCovered, AcceptsKey
<1>4. Restrict(KeyBytes, DOMAIN signer[n].keys)[k] = KeyBytes[k]
  BY <1>3 DEF Restrict
<1> QED BY <1>3, <1>4 DEF KnownKey, SignatureMatches, RotationInv, KeysAgree

\* Arithmetic of expiry: a second less than the lifetime leaves room for the
\* truncation of both clocks.
LEMMA FreshArithmetic ==
  ASSUME NEW a \in Int, NEW b \in Int, NEW ttl \in Int, NEW skew \in Int,
         b - a <= TicksPerSecond * (ttl - 1 + skew)
  PROVE  a \div TicksPerSecond + ttl > b \div TicksPerSecond - skew
<1>1. b \div TicksPerSecond <= a \div TicksPerSecond + (ttl - 1 + skew)
  BY FutureArithmetic
<1>2. a \div TicksPerSecond \in Int /\ b \div TicksPerSecond \in Int
  BY Truncation
<1> QED BY <1>1, <1>2

\* What two clocks make of a stretch of true time.
LEMMA ClockGap ==
  ASSUME NEW t \in Int, NEW at \in Int, NEW ahead \in Int, NEW behind \in Int,
         ahead <= MaxDrift, -MaxDrift <= behind
  PROVE  (t + ahead) - (at + behind) <= (t - at) + 2 * MaxDrift
BY TimeAssumption

LEMMA FreshNotExpired ==
  ASSUME RotationInv, NEW i \in issued, NEW n \in Nodes,
         2 * MaxDrift <= TicksPerSecond * signer[n].skew,
         now - i.at <= TicksPerSecond * (i.ttl - 1)
  PROVE  NotExpired(n, i.token)
<1> DEFINE t == now + drift[n]
<1>1. /\ now \in Int /\ i.at \in Int /\ i.ttl \in Int
      /\ drift[n] \in Int /\ drift[n] <= MaxDrift
  BY TimeAssumption DEF RotationInv, IInv, TypeOK
<1>2. signer[n].skew \in Int
  BY SignerFacts DEF RotationInv, IInv
<1>3. PICK d \in (-MaxDrift)..MaxDrift :
        i.token.payload.issuedAt = (i.at + d) \div TicksPerSecond
  BY DEF RotationInv, IInv, IssuedOK
<1>4. i.at + d \in Int /\ t \in Int /\ t - (i.at + d) <= (now - i.at) + 2 * MaxDrift
  <2>1. d \in Int /\ -MaxDrift <= d
    BY TimeAssumption
  <2>2. i.at + d \in Int /\ t \in Int
    BY <1>1, <2>1
  <2>3. t - (i.at + d) <= (now - i.at) + 2 * MaxDrift
    BY <1>1, <2>1, ClockGap
  <2> QED BY <2>2, <2>3
<1>5. t - (i.at + d) <= TicksPerSecond * (i.ttl - 1 + signer[n].skew)
  <2>1. TicksPerSecond * (i.ttl - 1 + signer[n].skew)
          = TicksPerSecond * (i.ttl - 1) + TicksPerSecond * signer[n].skew
    BY <1>1, <1>2, TimeAssumption
  <2>2. TicksPerSecond * (i.ttl - 1) \in Int /\ TicksPerSecond * signer[n].skew \in Int
    BY <1>1, <1>2, TimeAssumption
  <2> QED BY <1>1, <1>4, <2>1, <2>2, TimeAssumption
<1>6. (i.at + d) \div TicksPerSecond + i.ttl > t \div TicksPerSecond - signer[n].skew
  <2> HIDE DEF t
  <2> QED BY <1>1, <1>2, <1>4, <1>5, FreshArithmetic
<1>7. i.token.payload.expiresAt = (i.at + d) \div TicksPerSecond + i.ttl
  BY <1>3 DEF RotationInv, IInv, IssuedOK
<1> QED BY <1>6, <1>7 DEF NotExpired, ClockSeconds

\* At every point of a rotation every node accepts a fresh cursor
\* (cursor/__init__.py:227-238,257-261).
THEOREM FreshHolds == RotationSpec => []FreshNeverRefused
<1>1. RotationInv => FreshNeverRefused
  <2> SUFFICES ASSUME RotationInv, NEW i \in issued, NEW n \in Nodes,
                      2 * MaxDrift <= TicksPerSecond * signer[n].skew,
                      signer[n].aware,
                      now - i.at <= TicksPerSecond * (i.ttl - 1)
               PROVE  Accepts(n, i.token, i.context)
    BY DEF FreshNeverRefused
  <2>1. NotFromFuture(n, i.token)
    BY FutureFromIInv DEF RotationInv, FutureOnlyBeyondSkew
  <2>2. ContextMatches(i.token, i.context)
    BY DEF RotationInv, IInv, IssuedOK, ContextMatches
  <2> QED BY <2>1, <2>2, FreshKeyKnown, FreshNotExpired DEF Accepts
<1> QED BY <1>1, SpecRotationInv, PTL
=============================================================================
