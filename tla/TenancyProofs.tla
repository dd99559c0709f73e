--------------------------- MODULE TenancyProofs ---------------------------
(***************************************************************************)
(* Proofs about tenants and their keys.  Tenancy: an inbox belongs to the  *)
(* pod of the key that made it, and requests that do not overlap keep      *)
(* within the seats, for any pods, addresses, limits and requests.         *)
(* Authorizer, as the instance Auth: a revoked key stays out, for any      *)
(* keys, containers and licenses.                                          *)
(***************************************************************************)
EXTENDS Tenancy, FiniteSetTheorems, TLAPS

CONSTANTS Keys, Org, FirstKey, Containers, Licenses, Lasting
VARIABLES key, policy, cached, job, fetched, ssm, setup, expired, refresh

Auth == INSTANCE Authorizer

Inbox == [status : {"none", "active", "suspended", "deleted"}, pod : Pods \cup {None}]
Req   == [pc : {"idle", "counted", "made", "ended"}, key : Pods \cup {None},
          pod : Pods \cup {None}, limit : Limits \cup {0}, fresh : BOOLEAN]

TypeOK ==
    /\ pod \in [Pods -> {"none", "live", "gone"}]
    /\ inbox \in [Addresses -> Inbox]
    /\ maker \in [Addresses -> Pods \cup {None}]
    /\ req \in [Reqs -> Req]

\* Keys are of pods that exist or did, and a request that has counted will put its
\* inbox into the pod of its key.
KeyHasPod ==
    /\ \A a \in Addresses : maker[a] # None => pod[maker[a]] # "none"
    /\ \A r \in Reqs : req[r].key # None => pod[req[r].key] # "none"
PodIsKeys == \A r \in Reqs :
    req[r].pc = "counted" /\ req[r].key # None => req[r].pod = req[r].key

\* What a request has counted holds for as long as its count is fresh.
FreshHasRoom ==
    /\ IsFiniteSet(Active)
    /\ \A r \in Reqs : req[r].pc = "counted" /\ req[r].fresh => HasRoom(req[r].limit)

IInv == TypeOK /\ KeyHasPod /\ PodIsKeys /\ PodOfCreator /\ FreshHasRoom

\* In the initial state there is no pod, no inbox and no request.
LEMMA InitIInv == Init => IInv
<1> SUFFICES ASSUME Init PROVE IInv
  OBVIOUS
<1> USE DEF Init, At, NoInbox
<1>1. TypeOK
  BY DEF TypeOK, Inbox, Req
<1>2. KeyHasPod /\ PodIsKeys /\ PodOfCreator
  BY DEF KeyHasPod, PodIsKeys, PodOfCreator
<1>3. Active = {}
  BY DEF Active
<1>4. FreshHasRoom
  BY <1>3, FS_EmptySet DEF FreshHasRoom
<1> QED
  BY <1>1, <1>2, <1>4 DEF IInv

\* Room that was counted stays as long as no inbox becomes active.
LEMMA RoomStays ==
  ASSUME IsFiniteSet(Active), Active' \subseteq Active, NEW limit \in Limits \cup {0}
  PROVE  IsFiniteSet(Active') /\ (HasRoom(limit) => HasRoom(limit)')
<1>1. IsFiniteSet(Active') /\ Cardinality(Active') <= Cardinality(Active)
  BY FS_Subset
<1>2. Cardinality(Active') \in Nat /\ Cardinality(Active) \in Nat
  BY <1>1, FS_CardinalityType
<1>3. limit \in Int
  BY TenancyAssumption DEF Unlimited
<1> QED
  BY <1>1, <1>2, <1>3 DEF HasRoom

\* A step after which no inbox is active that was not before, and no request has
\* a fresh count that had none, keeps FreshHasRoom.
LEMMA FreshStays ==
  ASSUME IInv, Active' \subseteq Active,
         \A r \in Reqs : req'[r].pc = "counted" /\ req'[r].fresh =>
            req[r].pc = "counted" /\ req[r].fresh /\ req'[r].limit = req[r].limit
  PROVE  FreshHasRoom'
<1>1. IsFiniteSet(Active)'
  BY RoomStays DEF IInv, FreshHasRoom
<1>2. ASSUME NEW r \in Reqs, req'[r].pc = "counted", req'[r].fresh
      PROVE  HasRoom(req[r].limit)'
  <2>1. PICK limit \in Limits \cup {0} : limit = req[r].limit /\ limit = req'[r].limit
    BY <1>2 DEF IInv, TypeOK, Req
  <2>2. HasRoom(limit)
    BY <1>2, <2>1 DEF IInv, FreshHasRoom
  <2>3. HasRoom(limit)'
    BY <2>2, RoomStays DEF IInv, FreshHasRoom
  <2> QED
    BY <2>1, <2>3 DEF HasRoom
<1> QED
  BY <1>1, <1>2 DEF FreshHasRoom

\* Every step keeps the invariant.
LEMMA StepIInv == IInv /\ [Next]_vars => IInv'
<1> SUFFICES ASSUME IInv, [Next]_vars PROVE IInv'
  OBVIOUS
<1> USE TenancyAssumption DEF IInv
<1>1. ASSUME NEW p \in Pods, CreatePod(p) PROVE IInv'
  <2> USE <1>1 DEF CreatePod
  <2>1. TypeOK' /\ KeyHasPod' /\ PodIsKeys'
    BY DEF TypeOK, KeyHasPod, PodIsKeys
  <2>2. PodOfCreator'
    BY DEF PodOfCreator, KeyHasPod, TypeOK
  <2>3. FreshHasRoom'
    BY FreshStays DEF Active
  <2> QED
    BY <2>1, <2>2, <2>3
<1>2. ASSUME NEW p \in Pods, DeletePod(p) PROVE IInv'
  <2> USE <1>2 DEF DeletePod
  <2>1. \A a \in Addresses : /\ inbox'[a] \in Inbox
                             /\ inbox'[a].status = inbox[a].status
                             /\ inbox'[a].pod = IF inbox[a].pod = p THEN None ELSE inbox[a].pod
    BY DEF TypeOK, Inbox
  <2>2. TypeOK'
    BY <2>1 DEF TypeOK
  <2>3. KeyHasPod' /\ PodIsKeys'
    BY DEF TypeOK, KeyHasPod, PodIsKeys
  <2>4. PodOfCreator'
    BY <2>1 DEF PodOfCreator, TypeOK
  <2>5. FreshHasRoom'
    BY <2>1, FreshStays DEF Active
  <2> QED
    BY <2>2, <2>3, <2>4, <2>5
<1>3. ASSUME NEW r \in Reqs, NEW k \in ClaimedPods, NEW asked \in ClaimedPods, NEW limit \in Limits,
             CountSeats(r, k, asked, limit)
      PROVE  IInv'
  <2> USE <1>3 DEF CountSeats
  <2>1. PICK p \in PodFor(k, asked) :
           req' = [req EXCEPT ![r] = [pc |-> "counted", key |-> k, pod |-> p,
                                      limit |-> limit, fresh |-> TRUE]]
    OBVIOUS
  <2>2. p \in Pods \cup {None} /\ k \in Pods \cup {None} /\ (k # None => p = k /\ pod[k] # "none")
    BY DEF PodFor, ClaimedPods
  <2> HIDE DEF CountSeats
  <2>3. UNCHANGED <<pod, inbox, maker>> /\ HasRoom(limit)
    BY DEF CountSeats
  <2>4. TypeOK'
    BY <2>1, <2>2, <2>3 DEF TypeOK, Req
  <2>5. /\ req'[r].pc = "counted" /\ req'[r].key = k /\ req'[r].pod = p /\ req'[r].limit = limit
        /\ \A q \in Reqs \ {r} : req'[q] = req[q]
    BY <2>1 DEF TypeOK
  <2>6. KeyHasPod' /\ PodIsKeys' /\ PodOfCreator'
    BY <2>2, <2>3, <2>5 DEF KeyHasPod, PodIsKeys, PodOfCreator
  <2>7. Active' = Active
    BY <2>3 DEF Active
  <2>8. FreshHasRoom'
    BY <2>3, <2>5, <2>7 DEF FreshHasRoom, HasRoom
  <2> QED
    BY <2>4, <2>6, <2>8
<1>4. ASSUME NEW r \in Reqs, Refuse(r) \/ InsertFails(r) PROVE IInv'
  <2> USE <1>4 DEF Refuse, InsertFails
  <2>1. req' = [req EXCEPT ![r] = At("ended")] /\ UNCHANGED <<pod, inbox, maker>>
    OBVIOUS
  <2>2. TypeOK'
    BY <2>1 DEF TypeOK, Req, At
  <2>3. \A q \in Reqs : req'[q] = IF q = r THEN At("ended") ELSE req[q]
    BY <2>1 DEF TypeOK
  <2>4. KeyHasPod' /\ PodIsKeys' /\ PodOfCreator'
    BY <2>1, <2>3 DEF KeyHasPod, PodIsKeys, PodOfCreator, At
  <2>5. FreshHasRoom'
    BY <2>1, <2>3, FreshStays DEF Active, At
  <2> QED
    BY <2>2, <2>4, <2>5
<1>5. ASSUME NEW r \in Reqs, NEW a \in Addresses, InsertInbox(r, a) PROVE IInv'
  <2> USE <1>5 DEF InsertInbox
  <2>1. \A q \in Reqs :
           /\ req'[q] \in Req /\ req'[q].fresh = FALSE
           /\ q # r => /\ req'[q].pc = req[q].pc /\ req'[q].key = req[q].key
                       /\ req'[q].pod = req[q].pod
           /\ q = r => req'[q].pc = "made" /\ req'[q].key = None
    BY ZenonT(60) DEF Outdated, TypeOK, Req, At
  <2>2. req' \in [Reqs -> Req]
    BY <2>1 DEF Outdated
  <2>3. TypeOK'
    BY <2>2 DEF TypeOK, Inbox, Req
  <2>a. PICK k : k = req[r].key /\ (k # None => pod[k] # "none")
    BY DEF KeyHasPod
  <2>b. \A b \in Addresses : maker'[b] = IF b = a THEN k ELSE maker[b]
    BY <2>a DEF TypeOK
  <2>4. KeyHasPod' /\ PodIsKeys'
    <3>1. PodIsKeys'
      BY <2>1 DEF PodIsKeys
    <3>2. \A b \in Addresses : maker'[b] # None => pod'[maker'[b]] # "none"
      BY <2>a, <2>b DEF KeyHasPod
    <3>3. \A q \in Reqs : req'[q].key # None => pod'[req'[q].key] # "none"
      BY <2>1 DEF KeyHasPod
    <3> QED
      BY <3>1, <3>2, <3>3 DEF KeyHasPod
  <2>5. PodOfCreator'
    BY DEF PodOfCreator, PodIsKeys, TypeOK
  <2>6. Active' = Active \cup {a}
    BY DEF Active, TypeOK
  <2>7. IsFiniteSet(Active')
    BY <2>6, FS_AddElement DEF FreshHasRoom
  <2>8. FreshHasRoom'
    BY <2>1, <2>7 DEF FreshHasRoom
  <2> QED
    BY <2>3, <2>4, <2>5, <2>8
<1>6. ASSUME NEW k \in ClaimedPods, NEW a \in Addresses, NEW s \in {"active", "suspended", "deleted"},
             UpdateInbox(k, a, s)
      PROVE  IInv'
  <2> USE <1>6 DEF UpdateInbox
  <2>1. \A b \in Addresses : /\ inbox'[b] \in Inbox /\ inbox'[b].pod = inbox[b].pod
                             /\ inbox'[b].status = IF b = a THEN s ELSE inbox[b].status
    BY DEF TypeOK, Inbox
  <2>2. \A q \in Reqs :
           /\ req'[q] \in Req /\ req'[q].pc = req[q].pc /\ req'[q].key = req[q].key
           /\ req'[q].pod = req[q].pod /\ req'[q].limit = req[q].limit
           /\ req'[q].fresh => req[q].fresh /\ ~ (s = "active" /\ a \notin Active)
    BY DEF Outdated, TypeOK, Req
  <2>3. req' \in [Reqs -> Req]
    BY <2>2 DEF Outdated, TypeOK
  <2>4. TypeOK' /\ KeyHasPod' /\ PodIsKeys' /\ PodOfCreator'
    BY <2>1, <2>2, <2>3 DEF TypeOK, KeyHasPod, PodIsKeys, PodOfCreator
  <2>5. CASE s = "active" /\ a \notin Active
    <3>1. Active' = Active \cup {a}
      BY <2>1, <2>5 DEF Active
    <3>2. IsFiniteSet(Active')
      BY <3>1, FS_AddElement DEF FreshHasRoom
    <3> QED
      BY <2>2, <2>4, <2>5, <3>2 DEF FreshHasRoom
  <2>6. CASE ~ (s = "active" /\ a \notin Active)
    <3>1. Active' \subseteq Active
      BY <2>1, <2>6 DEF Active
    <3> QED
      BY <2>2, <2>4, <3>1, FreshStays
  <2> QED
    BY <2>5, <2>6
<1>7. ASSUME NEW k \in ClaimedPods, NEW a \in Addresses, DeleteInbox(k, a) PROVE IInv'
  <2> USE <1>7 DEF DeleteInbox
  <2>1. TypeOK'
    BY DEF TypeOK, NoInbox, Inbox
  <2>2. KeyHasPod' /\ PodIsKeys' /\ PodOfCreator'
    BY DEF KeyHasPod, PodIsKeys, PodOfCreator, TypeOK
  <2>3. Active' \subseteq Active
    BY DEF Active, NoInbox, TypeOK
  <2>4. FreshHasRoom'
    BY <2>3, FreshStays
  <2> QED
    BY <2>1, <2>2, <2>4
<1>8. CASE UNCHANGED vars
  <2> USE <1>8 DEF vars
  <2>1. TypeOK' /\ KeyHasPod' /\ PodIsKeys' /\ PodOfCreator'
    BY DEF TypeOK, KeyHasPod, PodIsKeys, PodOfCreator
  <2>2. FreshHasRoom'
    BY FreshStays DEF Active
  <2> QED
    BY <2>1, <2>2
<1> QED
  BY <1>1, <1>2, <1>3, <1>4, <1>5, <1>6, <1>7, <1>8 DEF Next

\* A request whose count is fresh fills the last seat at most: only the INSERT
\* makes its inbox active, and nothing else became active since it counted.
LEMMA SeatStep ==
  ASSUME IInv, [Next]_vars, NEW r \in Reqs, req[r].pc = "counted", req'[r].pc = "made",
         req[r].fresh, req[r].limit # Unlimited
  PROVE  Cardinality(Active') <= req[r].limit
<1> USE DEF IInv
<1>1. PICK a \in Addresses : InsertInbox(r, a)
  <2>1. CASE \E p \in Pods : CreatePod(p) \/ DeletePod(p)
    BY <2>1 DEF CreatePod, DeletePod
  <2>2. ASSUME NEW k, NEW q \in Reqs, NEW asked, NEW limit, CountSeats(q, k, asked, limit)
        PROVE  FALSE
    BY <2>2 DEF CountSeats, TypeOK
  <2>3. ASSUME NEW k, NEW b \in Addresses, NEW s, UpdateInbox(k, b, s) PROVE FALSE
    <3>1. req'[r].pc = req[r].pc
      BY <2>3 DEF UpdateInbox, Outdated, TypeOK, Req
    <3> QED
      BY <3>1
  <2>4. ASSUME NEW k, NEW b \in Addresses, DeleteInbox(k, b) PROVE FALSE
    BY <2>4 DEF DeleteInbox
  <2>5. ASSUME NEW q \in Reqs, Refuse(q) \/ InsertFails(q) PROVE FALSE
    <3>1. req'[r].pc \in {req[r].pc, "ended"}
      BY <2>5 DEF Refuse, InsertFails, TypeOK, At
    <3> QED
      BY <3>1
  <2>6. ASSUME NEW q \in Reqs, NEW b \in Addresses, InsertInbox(q, b) PROVE q = r
    <3>1. q # r => req'[r].pc = req[r].pc
      BY <2>6 DEF InsertInbox, Outdated, TypeOK, Req
    <3> QED
      BY <3>1
  <2>7. CASE UNCHANGED vars
    BY <2>7 DEF vars
  <2> QED
    BY <2>1, <2>2, <2>3, <2>4, <2>5, <2>6, <2>7 DEF Next
<1>2. a \notin Active /\ Active' = Active \cup {a}
  BY <1>1 DEF InsertInbox, Active, NoInbox, TypeOK
<1>3. IsFiniteSet(Active) /\ Cardinality(Active) < req[r].limit
  BY DEF FreshHasRoom, HasRoom
<1>4. Cardinality(Active') = Cardinality(Active) + 1
  BY <1>2, <1>3, FS_AddElement
<1>5. Cardinality(Active) \in Nat
  BY <1>3, FS_CardinalityType
<1>6. req[r].limit \in Int
  <2>1. PICK limit \in Limits \cup {0} : limit = req[r].limit
    BY DEF TypeOK, Req
  <2>2. limit \in Int
    BY TenancyAssumption DEF Unlimited
  <2> QED
    BY <2>1, <2>2
<1> QED
  BY <1>3, <1>4, <1>5, <1>6

\* The inductive invariant holds in every reachable state.
THEOREM TenancyInvariant == Spec => []IInv
<1> QED
  BY InitIInv, StepIInv, PTL DEF Spec

\* An inbox made with the key of a pod is in this pod for as long as the pod
\* exists, for any pods, addresses and requests, with or without the policy.
THEOREM TenancyPodOfCreator == Spec => []PodOfCreator
<1>1. IInv => PodOfCreator
  BY DEF IInv
<1> QED
  BY <1>1, TenancyInvariant, PTL

\* Only requests that overlap, and PATCH, take an organization past the seats of
\* its license, whatever the limits and however many requests.
THEOREM TenancySeatsHold == Spec => SeatsHold
<1>1. IInv /\ [Next]_vars => [\A r \in Reqs :
        (req[r].pc = "counted" /\ req'[r].pc = "made" /\ req[r].fresh
            /\ req[r].limit # Unlimited) => Cardinality(Active') <= req[r].limit]_vars
  BY SeatStep
<1> QED
  BY <1>1, TenancyInvariant, PTL DEF Spec, SeatsHold

-----------------------------------------------------------------------------
(* Authorizer *)

\* What the gateway and the containers may hold about keys.
AuthTypeOK ==
    /\ key \in [Keys -> {"none", "live", "dead"}]
    /\ policy \in [Keys -> {"none", "allow", "deny"}]
    /\ job \in [Containers -> Keys \cup {None}]

\* In the initial state one key is live and nothing is cached.
LEMMA AuthInit == Auth!Init => AuthTypeOK
  BY DEF Auth!Init, AuthTypeOK

\* Every step keeps the types, and a key that is out stays out: the lookup of the
\* key comes before every answer that allows.
LEMMA AuthStep ==
  ASSUME None \notin Keys, AuthTypeOK, [Auth!Next]_(Auth!vars)
  PROVE  AuthTypeOK' /\ \A k \in Keys : Auth!Out(k) => Auth!Out(k)'
<1> USE DEF AuthTypeOK, Auth!Out
<1>1. ASSUME NEW a \in Keys, NEW k \in Keys, Auth!CreateKey(a, k) \/ Auth!RevokeKey(a, k)
      PROVE  AuthTypeOK' /\ \A j \in Keys : Auth!Out(j) => Auth!Out(j)'
  BY <1>1 DEF Auth!CreateKey, Auth!RevokeKey
<1>2. ASSUME NEW k \in Keys, Auth!ExpireKey(k) \/ Auth!DenyKey(k) \/ Auth!PolicyExpires(k)
      PROVE  AuthTypeOK' /\ \A j \in Keys : Auth!Out(j) => Auth!Out(j)'
  BY <1>2 DEF Auth!ExpireKey, Auth!DenyKey, Auth!PolicyExpires
<1>3. ASSUME NEW c \in Containers, NEW k \in Keys, Auth!ValidateKey(c, k)
      PROVE  AuthTypeOK' /\ \A j \in Keys : Auth!Out(j) => Auth!Out(j)'
  BY <1>3 DEF Auth!ValidateKey, Auth!ValidKey
<1>4. ASSUME NEW c \in Containers, Auth!CheckLicense(c)
      PROVE  AuthTypeOK' /\ \A j \in Keys : Auth!Out(j) => Auth!Out(j)'
  BY <1>4 DEF Auth!CheckLicense, Auth!Answer
<1>5. ASSUME NEW c \in Containers, Auth!FetchFails(c) \/ Auth!ContainerEnds(c)
      PROVE  AuthTypeOK' /\ \A j \in Keys : Auth!Out(j) => Auth!Out(j)'
  BY <1>5 DEF Auth!FetchFails, Auth!Answer, Auth!ContainerEnds
<1>6. CASE UNCHANGED <<key, policy, job>>
  BY <1>6
<1>7. ASSUME \/ Auth!ReadToken \/ Auth!RefreshFails \/ Auth!SetupReads \/ Auth!SetupFails
             \/ \E t \in Auth!Tokens :
                   Auth!WriteToken(t) \/ Auth!SetupWrites(t) \/ Auth!TokenExpires(t)
             \/ \E c \in Containers : Auth!FetchToken(c)
             \/ UNCHANGED Auth!vars
      PROVE  UNCHANGED <<key, policy, job>>
  BY <1>7 DEF Auth!ReadToken, Auth!RefreshFails, Auth!SetupReads, Auth!SetupFails,
              Auth!WriteToken, Auth!SetupWrites, Auth!TokenExpires, Auth!FetchToken, Auth!vars
<1> QED
  BY <1>1, <1>2, <1>3, <1>4, <1>5, <1>6, <1>7 DEF Auth!Next

\* Once the gateway has forgotten a revoked or expired key and no container is past
\* its lookup, nothing lets the key in again, for any keys, containers, licenses
\* and timing of renewals.
THEOREM RevokedKeyStaysOut == ASSUME None \notin Keys PROVE Auth!Spec => Auth!RevokedStaysOut
<1>1. AuthTypeOK /\ [Auth!Next]_(Auth!vars) => AuthTypeOK'
  BY AuthStep
<1>2. AuthTypeOK /\ [Auth!Next]_(Auth!vars)
        => [\A k \in Keys : Auth!Out(k) => Auth!Out(k)']_(Auth!vars)
  BY AuthStep
<1> QED
  BY <1>1, <1>2, AuthInit, PTL DEF Auth!Spec, Auth!RevokedStaysOut
=============================================================================
